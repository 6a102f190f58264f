------------------------- MODULE DeviceServerProofs -------------------------
(***************************************************************************)
(* Theorems about DeviceServer, for any number of interfaces, devices and   *)
(* handlers.                                                                *)
(***************************************************************************)
EXTENDS DeviceServer, FiniteSetTheorems, TLAPS

-----------------------------------------------------------------------------
(* Type correctness                                                         *)

\* The devices of an interface are devices.
LEMMA DevicesOfType == \A n \in Nics : DevicesOf(n) \subseteq Devices
  BY DEF DevicesOf, Devices

\* However net.Interfaces orders the interfaces, it lists interfaces.
LEMMA ListingsType ==
    ASSUME NEW S \in SUBSET Nics, NEW q \in Listings(S)
    PROVE  q \in Seq(Nics)
  <1>1. Cardinality(S) \in Nat
    BY DeviceAssumption, FS_Subset, FS_CardinalityType DEF DeviceAssumption
  <1>2. q \in [1..Cardinality(S) -> Nics]
    BY DEF Listings
  <1> QED
    BY <1>1, <1>2

\* A handler between the Get and the Update of AddDeviceIDs is at an interface.
HasInterface == \A h \in Handlers : pc[h] = "update" => todo[h] # <<>>

TypeInv == TypeOK /\ HasInterface

\* Init establishes the types.
LEMMA TypeInit == Init => TypeInv
  BY DEF Init, TypeInv, TypeOK, HasInterface

\* Whatever memVSfcPluginServer or vSfcPluginServer does with an error of
\* AddDeviceIDs, the handler's state keeps its type.
LEMMA RefreshFailsType ==
    ASSUME TypeInv, NEW h \in Handlers, RefreshFails(h)
    PROVE  /\ pc' \in [Handlers -> {"none", "discover", "nic", "update", "swap",
                                    "fill", "list", "sleep"}]
           /\ todo' \in [Handlers -> Seq(Nics)]
           /\ copy' \in [Handlers -> Seq(Entry)] /\ seen' \in [Handlers -> 0..1]
           /\ found' \in [Handlers -> SUBSET Devices]
           /\ first' \subseteq Handlers
           /\ stream' \in Handlers \cup {NoStream}
           /\ view' \subseteq Devices
           /\ HasInterface'
  <1>1. <<>> \in Seq(Nics) /\ <<>> \in Seq(Entry) /\ 0 \in 0..1
    OBVIOUS
  <1>2. HasInterface'
    BY DEF TypeInv, TypeOK, HasInterface, RefreshFails, Return
  <1>3. TypeOK
    BY DEF TypeInv
  <1>4. /\ \E p \in {"swap", "none"} : pc' = [pc EXCEPT ![h] = p]
        /\ todo' = [todo EXCEPT ![h] = <<>>]
        /\ copy' = [copy EXCEPT ![h] = <<>>] /\ seen' = [seen EXCEPT ![h] = 0]
        /\ found' = [found EXCEPT ![h] = {}]
        /\ first' \subseteq first
        /\ stream' \in {stream, NoStream}
        /\ view' \subseteq view
    BY DEF RefreshFails, Return
  <1>5. todo' \in [Handlers -> Seq(Nics)] /\ copy' \in [Handlers -> Seq(Entry)]
    BY <1>1, <1>3, <1>4 DEF TypeOK
  <1>6. seen' \in [Handlers -> 0..1] /\ found' \in [Handlers -> SUBSET Devices]
    BY <1>1, <1>3, <1>4 DEF TypeOK
  <1>7. pc' \in [Handlers -> {"none", "discover", "nic", "update", "swap",
                              "fill", "list", "sleep"}]
    BY <1>3, <1>4 DEF TypeOK
  <1>8. first' \subseteq Handlers /\ stream' \in Handlers \cup {NoStream} /\ view' \subseteq Devices
    BY <1>3, <1>4 DEF TypeOK
  <1> QED
    BY <1>2, <1>5, <1>6, <1>7, <1>8

\* addDeviceIeIDs yields a list of entries.
LEMMA AddType ==
    ASSUME NEW annot \in Seq(Entry), NEW nic \in Nics, NEW ids \in SUBSET Devices
    PROVE  AddDeviceIeIDs(annot, nic, ids) \in Seq(Entry)
  <1>1. [name |-> nic, ids |-> ids] \in Entry
    BY DEF Entry
  <1>2. Append(annot, [name |-> nic, ids |-> ids]) \in Seq(Entry)
    BY <1>1
  <1> QED
    BY <1>2 DEF AddDeviceIeIDs

\* What is left of a list of interfaces is one.
LEMMA TodoType ==
    ASSUME TypeOK, NEW h \in Handlers, todo[h] # <<>>
    PROVE  /\ Head(todo[h]) \in Nics
           /\ [todo EXCEPT ![h] = Tail(@)] \in [Handlers -> Seq(Nics)]
  <1>1. todo[h] \in Seq(Nics)
    BY DEF TypeOK
  <1>2. Head(todo[h]) \in Nics /\ Tail(todo[h]) \in Seq(Nics)
    BY <1>1
  <1> QED
    BY <1>2 DEF TypeOK

\* Every step preserves the types.
LEMMA TypeNext == TypeInv /\ [Next]_vars => TypeInv'
  <1> SUFFICES ASSUME TypeInv, [Next]_vars PROVE TypeOK' /\ HasInterface'
    BY DEF TypeInv
  <1>0. TypeOK /\ HasInterface
    BY DEF TypeInv
  <1> USE DEF env, nadVars, handler
  <1>1. CASE UNCHANGED vars
    BY <1>0, <1>1 DEF TypeOK, HasInterface, vars
  <1>2. CASE \/ Replug \/ Reconfigure \/ CreateNad \/ DeleteNad \/ OtherUpdate
             \/ AllocatorDies \/ Allocate \/ Allocated
    <2>1. HasInterface'
      BY <1>0, <1>2 DEF HasInterface, Replug, Reconfigure, CreateNad, DeleteNad,
                        OtherUpdate, AllocatorDies, Allocate, Allocated
    <2>2. 1 - others \in 0..1
      BY <1>0 DEF TypeOK
    <2>3. CASE Replug \/ Reconfigure \/ CreateNad \/ AllocatorDies
      BY <1>0, <2>1, <2>3 DEF TypeOK, Replug, Reconfigure, CreateNad, AllocatorDies
    <2>4. CASE DeleteNad
      <3>a. /\ nadExists' = FALSE /\ nad' = <<>> /\ others' = 0 /\ fresh' = {}
            /\ outdated' = Handlers \cup {"map", "view"}
        BY <2>4 DEF DeleteNad
      <3>b. <<>> \in Seq(Entry)
        OBVIOUS
      <3>1. nadExists' \in BOOLEAN /\ nad' \in Seq(Entry)
        BY <3>a, <3>b, Zenon
      <3> QED
        BY <1>0, <2>1, <2>4, <3>a, <3>1 DEF TypeOK, DeleteNad
    <2>5. CASE OtherUpdate
      BY <1>0, <2>1, <2>2, <2>5 DEF TypeOK, OtherUpdate
    <2>6. CASE Allocate \/ Allocated
      BY <1>0, <2>1, <2>6 DEF TypeOK, Allocate, Allocated
    <2> QED
      BY <1>2, <2>3, <2>4, <2>5, <2>6
  <1>3. CASE Restart
    BY <1>0, <1>3 DEF TypeOK, HasInterface, Restart
  <1>5. ASSUME NEW h \in Handlers, Connect(h) PROVE TypeOK' /\ HasInterface'
    BY <1>0, <1>5 DEF TypeOK, HasInterface, Connect
  <1>6. ASSUME NEW h \in Handlers, Discover(h) PROVE TypeOK' /\ HasInterface'
    <2>1. PICK q \in Listings(plugged) : todo' = [todo EXCEPT ![h] = q]
      BY <1>6 DEF Discover
    <2>2. todo' \in [Handlers -> Seq(Nics)]
      BY <1>0, <2>1, ListingsType DEF TypeOK
    <2>3. TypeOK'
      BY <1>0, <1>6, <2>2 DEF TypeOK, Discover
    <2>4. HasInterface'
      BY <1>0, <1>6, <2>1 DEF TypeOK, HasInterface, Discover
    <2> QED
      BY <2>3, <2>4
  <1>7. ASSUME NEW h \in Handlers, SkipNic(h) PROVE TypeOK' /\ HasInterface'
    <2>1. todo' \in [Handlers -> Seq(Nics)]
      BY <1>0, <1>7, TodoType DEF SkipNic
    <2>2. TypeOK'
      BY <1>0, <1>7, <2>1 DEF TypeOK, SkipNic
    <2>3. HasInterface'
      BY <1>0, <1>7 DEF TypeOK, HasInterface, SkipNic
    <2> QED
      BY <2>2, <2>3
  <1>8. ASSUME NEW h \in Handlers, GetNad(h) PROVE TypeOK' /\ HasInterface'
    <2>1. CASE ~nadExists
      BY <1>0, <1>8, <2>1, RefreshFailsType, SMTT(30) DEF TypeOK, GetNad
    <2>2. CASE nadExists
      <3>1. DevicesOf(Head(todo[h])) \subseteq Devices
        BY <1>0, <1>8, TodoType, DevicesOfType DEF GetNad
      <3>a. /\ copy' = [copy EXCEPT ![h] = nad] /\ seen' = [seen EXCEPT ![h] = others]
            /\ fresh' = fresh \cup {h}
            /\ found' = [found EXCEPT ![h] = @ \cup DevicesOf(Head(todo[h]))]
            /\ pc' = [pc EXCEPT ![h] = "update"]
            /\ UNCHANGED <<todo, first, stream, view>>
        BY <1>8, <2>2 DEF GetNad
      <3>2. found' \in [Handlers -> SUBSET Devices]
        BY <1>0, <3>a, <3>1 DEF TypeOK
      <3>3. copy' \in [Handlers -> Seq(Entry)] /\ seen' \in [Handlers -> 0..1]
        BY <1>0, <3>a DEF TypeOK
      <3>b. UNCHANGED <<env, nadExists, nad, others, old, devices, mu, allocator, outdated>>
        BY <1>8 DEF GetNad
      <3>4. TypeOK'
        BY <1>0, <3>a, <3>b, <3>2, <3>3 DEF TypeOK
      <3>5. HasInterface'
        BY <1>0, <1>8, <3>a DEF TypeOK, HasInterface, GetNad
      <3> QED
        BY <3>4, <3>5
    <2> QED
      BY <2>1, <2>2
  <1>9. ASSUME NEW h \in Handlers, UpdateNad(h) PROVE TypeOK' /\ HasInterface'
    <2>1. CASE h \notin fresh
      BY <1>0, <1>9, <2>1, RefreshFailsType, SMTT(30) DEF TypeOK, UpdateNad
    <2>2. CASE h \in fresh
      <3>1. todo[h] # <<>> /\ WriteBack(h)
        BY <1>0, <1>9, <2>2 DEF HasInterface, UpdateNad
      <3>2. todo' \in [Handlers -> Seq(Nics)] /\ Head(todo[h]) \in Nics
        BY <1>0, <3>1, TodoType DEF WriteBack
      <3>3. nad' \in Seq(Entry) /\ others' \in 0..1
        BY <1>0, <3>1, <3>2, AddType DEF TypeOK, WriteBack
      <3>4. copy' \in [Handlers -> Seq(Entry)] /\ seen' \in [Handlers -> 0..1]
        BY <1>0, <3>1 DEF TypeOK, WriteBack
      <3>5. fresh' \subseteq Handlers
        BY <1>0, <3>1 DEF TypeOK, WriteBack
      <3>6. TypeOK'
        BY <1>0, <1>9, <3>1, <3>2, <3>3, <3>4, <3>5 DEF TypeOK, UpdateNad, WriteBack
      <3>7. HasInterface'
        BY <1>0, <3>1 DEF TypeOK, HasInterface, WriteBack
      <3> QED
        BY <3>6, <3>7
    <2> QED
      BY <2>1, <2>2
  <1>10. ASSUME NEW h \in Handlers,
                Refreshed(h) \/ Swap(h) \/ Fill(h) \/ Filled(h) \/ Wake(h)
         PROVE TypeOK' /\ HasInterface'
    <2>1. TypeOK'
      <3>1. CASE Refreshed(h) \/ Fill(h) \/ Wake(h)
        BY <1>0, <3>1, ZenonT(40) DEF TypeOK, Refreshed, Fill, Wake
      <3>2. CASE Swap(h)
        BY <1>0, <3>2 DEF TypeOK, Swap
      <3>3. CASE Filled(h)
        BY <1>0, <3>3 DEF TypeOK, Filled
      <3> QED
        BY <1>10, <3>1, <3>2, <3>3
    <2>2. HasInterface'
      BY <1>0, <1>10 DEF TypeOK, HasInterface, Refreshed, Swap, Fill, Filled, Wake
    <2> QED
      BY <2>1, <2>2
  <1>12. ASSUME NEW h \in Handlers, List(h) PROVE TypeOK' /\ HasInterface'
    <2>1. TypeOK'
      <3>1. CASE stream = h
        <4>1. view' \subseteq Devices
          BY <1>0, <1>12, <3>1 DEF TypeOK, List
        <4>2. outdated' \subseteq Handlers \cup {"map", "view"}
          BY <1>0, <1>12, <3>1 DEF TypeOK, List
        <4> QED
          BY <1>0, <1>12, <3>1, <4>1, <4>2 DEF TypeOK, List
      <3>2. CASE stream # h
        <4>1. <<>> \in Seq(Nics) /\ <<>> \in Seq(Entry)
          OBVIOUS
        <4>a. /\ pc' = [pc EXCEPT ![h] = "none"]
              /\ todo' = [todo EXCEPT ![h] = <<>>]
              /\ copy' = [copy EXCEPT ![h] = <<>>] /\ seen' = [seen EXCEPT ![h] = 0]
              /\ found' = [found EXCEPT ![h] = {}]
              /\ first' = first \ {h} /\ stream' = stream /\ view' = view
              /\ UNCHANGED <<env, nadVars, old, devices, mu, allocator, outdated>>
          BY <1>12, <3>2 DEF List, Return
        <4>2. todo' \in [Handlers -> Seq(Nics)] /\ copy' \in [Handlers -> Seq(Entry)]
          BY <1>0, <4>a, <4>1 DEF TypeOK
        <4>3. seen' \in [Handlers -> 0..1] /\ found' \in [Handlers -> SUBSET Devices]
          BY <1>0, <4>a DEF TypeOK
        <4> QED
          BY <1>0, <4>a, <4>2, <4>3 DEF TypeOK
      <3> QED
        BY <3>1, <3>2
    <2>2. HasInterface'
      BY <1>0, <1>12 DEF TypeOK, HasInterface, List, Return
    <2> QED
      BY <2>1, <2>2
  <1> QED
    BY <1>1, <1>2, <1>3, <1>5, <1>6, <1>7, <1>8, <1>9, <1>10, <1>12
       DEF Next, HandlerStep

\* TypeOK holds in every reachable state of the server.
THEOREM TypeCorrect == Spec => []TypeOK
  <1>1. TypeInv => TypeOK
    BY DEF TypeInv
  <1> QED
    BY <1>1, TypeInit, TypeNext, PTL DEF Spec

-----------------------------------------------------------------------------
(* Allocate sees whole maps                                                 *)

\* A set has all the devices of an interface or none.
IsWhole(S) == \A n \in Nics : DevicesOf(n) \subseteq S \/ DevicesOf(n) \cap S = {}

\* The handler that fills the map is the one that holds the mutex; outside of
\* that the map is whole, as is what a handler has collected.
LockInv ==
    /\ \A h \in Handlers : pc[h] = "fill" <=> mu = h
    /\ \A h \in Handlers : IsWhole(found[h])
    /\ mu \notin Handlers => IsWhole(devices)

\* The devices of two interfaces are different devices.
LEMMA WholeUnion ==
    ASSUME NEW S, IsWhole(S), NEW nic \in Nics
    PROVE  IsWhole(S \cup DevicesOf(nic))
  <1> SUFFICES ASSUME NEW n \in Nics, n # nic
               PROVE  \/ DevicesOf(n) \subseteq S \cup DevicesOf(nic)
                      \/ DevicesOf(n) \cap (S \cup DevicesOf(nic)) = {}
    BY DEF IsWhole
  <1>1. DevicesOf(n) \cap DevicesOf(nic) = {}
    BY DEF DevicesOf
  <1>2. DevicesOf(n) \subseteq S \/ DevicesOf(n) \cap S = {}
    BY DEF IsWhole
  <1> QED
    BY <1>1, <1>2

\* No device at all is whole.
LEMMA WholeEmpty == IsWhole({})
  BY DEF IsWhole

\* Every step preserves the lock's invariant.
LEMMA LockNext == TypeInv /\ LockInv /\ [Next]_vars => LockInv'
  <1> SUFFICES ASSUME TypeInv, LockInv, [Next]_vars PROVE LockInv'
    OBVIOUS
  <1>t. TypeOK /\ HasInterface
    BY DEF TypeInv
  <1> USE DEF env, nadVars, handler
  <1>0. "free" \notin Handlers /\ "allocate" \notin Handlers
    BY DeviceAssumption DEF DeviceAssumption
  <1>a. \A S : IsWhole(S)' = IsWhole(S)
    BY DEF IsWhole, DevicesOf
  <1>1. CASE \/ Replug \/ Reconfigure \/ CreateNad \/ DeleteNad \/ OtherUpdate
             \/ AllocatorDies \/ UNCHANGED vars
    BY <1>1, <1>a DEF LockInv, Replug, Reconfigure, CreateNad, DeleteNad, OtherUpdate,
                      AllocatorDies, vars
  <1>2. CASE Restart
    BY <1>2, <1>0, <1>a, WholeEmpty DEF LockInv, Restart
  <1>3. CASE Allocate \/ Allocated
    BY <1>3, <1>0, <1>a DEF LockInv, Allocate, Allocated
  <1>4. ASSUME NEW h \in Handlers, GetNad(h), ~RefreshFails(h) PROVE LockInv'
    <2>1. /\ found' = [found EXCEPT ![h] = @ \cup DevicesOf(Head(todo[h]))]
          /\ pc' = [pc EXCEPT ![h] = "update"]
      BY <1>4 DEF GetNad
    <2>2. IsWhole(found[h] \cup DevicesOf(Head(todo[h])))
      BY <1>t, <1>4, TodoType, WholeUnion DEF GetNad, LockInv
    <2>3. \A g \in Handlers : IsWhole(found'[g])
      BY <1>t, <2>1, <2>2 DEF TypeOK, LockInv
    <2> QED
      BY <1>t, <1>4, <1>a, <2>1, <2>3 DEF TypeOK, LockInv, GetNad
  <1>5. ASSUME NEW h \in Handlers, RefreshFails(h), pc[h] \in {"nic", "update"},
               UNCHANGED <<mu, devices>>
        PROVE  LockInv'
    <2>1. \A g \in Handlers : found'[g] = found[g] \/ found'[g] = {}
      BY <1>t, <1>5 DEF TypeOK, RefreshFails, Return
    <2>2. \A g \in Handlers : pc'[g] = "fill" <=> pc[g] = "fill"
      BY <1>t, <1>5 DEF TypeOK, RefreshFails, Return
    <2> QED
      BY <1>5, <1>a, <2>1, <2>2, WholeEmpty DEF LockInv
  <1>6. ASSUME NEW h \in Handlers, UpdateNad(h), h \in fresh PROVE LockInv'
    BY <1>t, <1>6, <1>a DEF TypeOK, LockInv, UpdateNad, WriteBack
  <1>7. ASSUME NEW h \in Handlers, Swap(h) PROVE LockInv'
    BY <1>t, <1>7, <1>0, <1>a DEF TypeOK, LockInv, Swap
  <1>8. ASSUME NEW h \in Handlers, Fill(h) PROVE LockInv'
    BY <1>t, <1>8, <1>a DEF TypeOK, LockInv, Fill
  <1>9. ASSUME NEW h \in Handlers, Filled(h) PROVE LockInv'
    <2>1. mu = h /\ mu' = "free" /\ IsWhole(devices) /\ devices' = devices
      BY <1>9 DEF LockInv, Filled
    <2>2. \A g \in Handlers : found'[g] = found[g] \/ found'[g] = {}
      BY <1>t, <1>9 DEF TypeOK, Filled
    <2>3. \A g \in Handlers : pc'[g] # "fill"
      BY <1>t, <1>9, <2>1 DEF TypeOK, LockInv, Filled
    <2> QED
      BY <1>0, <1>a, <2>1, <2>2, <2>3, WholeEmpty DEF LockInv
  <1>10. ASSUME NEW h \in Handlers,
                Connect(h) \/ Discover(h) \/ SkipNic(h) \/ Refreshed(h) \/ List(h) \/ Wake(h)
         PROVE  LockInv'
    <2>a. found' = found \/ found' = [found EXCEPT ![h] = {}]
      BY <1>10 DEF Connect, Discover, SkipNic, Refreshed, List, Return, Wake
    <2>b. /\ pc[h] # "fill"
          /\ \/ pc' = pc
             \/ \E v \in {"none", "discover", "nic", "swap", "sleep"} : pc' = [pc EXCEPT ![h] = v]
      <3>1. CASE Connect(h) \/ Discover(h) \/ SkipNic(h)
        BY <3>1 DEF Connect, Discover, SkipNic
      <3>2. CASE Refreshed(h) \/ Wake(h)
        BY <3>2 DEF Refreshed, Wake
      <3>3. CASE List(h)
        BY <3>3 DEF List, Return
      <3> QED
        BY <1>10, <3>1, <3>2, <3>3
    <2>1. \A g \in Handlers : found'[g] = found[g] \/ found'[g] = {}
      BY <1>t, <2>a DEF TypeOK
    <2>2. \A g \in Handlers : pc'[g] = "fill" <=> pc[g] = "fill"
      BY <1>t, <2>b DEF TypeOK
    <2>3. UNCHANGED <<mu, devices>>
      BY <1>10 DEF Connect, Discover, SkipNic, Refreshed, List, Wake
    <2> QED
      BY <1>a, <2>1, <2>2, <2>3, WholeEmpty, SMTT(30) DEF LockInv
  <1>11. ASSUME NEW h \in Handlers, GetNad(h) \/ UpdateNad(h) PROVE LockInv'
    <2>1. UNCHANGED <<mu, devices>> /\ pc[h] \in {"nic", "update"}
      BY <1>11 DEF GetNad, UpdateNad
    <2>2. CASE RefreshFails(h)
      BY <1>5, <2>1, <2>2
    <2>3. CASE ~RefreshFails(h)
      BY <1>4, <1>6, <1>11, <2>3 DEF UpdateNad
    <2> QED
      BY <2>2, <2>3
  <1> QED
    BY <1>1, <1>2, <1>3, <1>7, <1>8, <1>9, <1>10, <1>11 DEF Next, HandlerStep

\* At first nobody holds the mutex and the map is empty.
LEMMA LockInit == Init => LockInv
  BY DeviceAssumption, WholeEmpty DEF DeviceAssumption, Init, LockInv

\* Allocate never looks up a half-filled map, with any number of handlers.
THEOREM AllocateIsAtomic == Spec => []AllocateSeesWholeMap
  <1>1. Spec => [](TypeInv /\ LockInv)
    BY TypeInit, TypeNext, LockInit, LockNext, PTL DEF Spec
  <1>2. LockInv => AllocateSeesWholeMap
    BY DeviceAssumption, SMTT(30) DEF DeviceAssumption, LockInv, AllocateSeesWholeMap, IsWhole
  <1> QED
    BY <1>1, <1>2, PTL

-----------------------------------------------------------------------------
(* What is reported is recorded, and no entry is lost                       *)

\* An entry has all the devices of its interface.
EntriesAreComplete ==
    \A i \in DOMAIN nad : DevicesOf(nad[i].name) \subseteq nad[i].ids

\* The net-attach-def the handler would write back: its copy, if the API server
\* accepts it, is the current object, and it is at an interface of which it has
\* collected all the devices.
CopyInv(h) ==
    pc[h] = "update" =>
        /\ h \in fresh => copy[h] = nad /\ seen[h] = others
        /\ DevicesOf(Head(todo[h])) \subseteq found[h]

\* A handler whose refresh began after the net-attach-def was last deleted has
\* collected only devices that are recorded, but for those of the interface it
\* is about to record.  The map is as old as the handler that fills it.
HandlerInv(h) ==
    /\ h \notin outdated =>
          \A d \in found[h] :
              IsRecorded(d) \/ (pc[h] = "update" /\ d[1] = Head(todo[h]))
    /\ pc[h] = "fill" /\ "map" \notin outdated => h \notin outdated

RecordInv ==
    /\ EntriesAreComplete
    /\ \A h \in Handlers : CopyInv(h) /\ HandlerInv(h)
    /\ ReportedIsRecorded

\* addDeviceIeIDs keeps the entries there are and leaves one for the interface.
LEMMA AddKeeps ==
    ASSUME NEW annot \in Seq(Entry), NEW nic \in Nics, NEW ids \in SUBSET Devices,
           NEW result, result = AddDeviceIeIDs(annot, nic, ids)
    PROVE  /\ \A i \in DOMAIN annot : i \in DOMAIN result /\ result[i] = annot[i]
           /\ \A i \in DOMAIN result : i \in DOMAIN annot \/
                 /\ i = Len(annot) + 1
                 /\ result[i] = [name |-> nic, ids |-> ids]
                 /\ \A j \in DOMAIN annot : annot[j].name # nic
           /\ \E i \in DOMAIN result : result[i].name = nic
  <1>1. CASE \E i \in DOMAIN annot : annot[i].name = nic
    BY <1>1 DEF AddDeviceIeIDs
  <1>2. CASE ~\E i \in DOMAIN annot : annot[i].name = nic
    <2> DEFINE new == [name |-> nic, ids |-> ids]
    <2>1. new \in Entry /\ new.name = nic
      BY DEF Entry
    <2>2. result = Append(annot, new)
      BY <1>2 DEF AddDeviceIeIDs
    <2> HIDE DEF new
    <2>3. /\ Len(result) = Len(annot) + 1
          /\ \A i \in 1..Len(annot) : result[i] = annot[i]
          /\ result[Len(annot) + 1] = new
          /\ DOMAIN result = 1..(Len(annot) + 1) /\ DOMAIN annot = 1..Len(annot)
          /\ Len(annot) \in Nat
      BY <2>1, <2>2
    <2>4. \A i \in DOMAIN annot : i \in DOMAIN result /\ result[i] = annot[i]
      BY <2>3
    <2>5. \A i \in DOMAIN result : i \in DOMAIN annot \/
             (i = Len(annot) + 1 /\ result[i] = new)
      BY <2>3
    <2>6. \E i \in DOMAIN result : result[i].name = nic
      BY <2>1, <2>3
    <2> QED
      BY <1>2, <2>4, <2>5, <2>6 DEF new
  <1> QED
    BY <1>1, <1>2

\* A handler that does nothing keeps its invariant while others record.
LEMMA HandlerSame ==
    ASSUME NEW g \in Handlers, HandlerInv(g),
           pc'[g] = pc[g], todo'[g] = todo[g], found'[g] = found[g],
           g \in outdated' <=> g \in outdated,
           pc[g] = "fill" => ("map" \in outdated' <=> "map" \in outdated),
           \A d \in found[g] : IsRecorded(d) => IsRecorded(d)'
    PROVE  HandlerInv(g)'
  BY DEF HandlerInv

\* Likewise for the copy it holds, as long as the API server takes it for no
\* newer than it is.
LEMMA CopySame ==
    ASSUME NEW g \in Handlers, CopyInv(g),
           pc'[g] = pc[g], todo'[g] = todo[g], found'[g] = found[g],
           copy'[g] = copy[g], seen'[g] = seen[g],
           g \in fresh' => g \in fresh /\ nad' = nad /\ others' = others
    PROVE  CopyInv(g)'
  BY DEF CopyInv, DevicesOf

\* A step of handler h that leaves the net-attach-def alone preserves the
\* invariant if h keeps its own part of it and what is reported is recorded.
LEMMA RecordStep ==
    ASSUME RecordInv, NEW h \in Handlers,
           nad' = nad, others' = others, fresh' \subseteq fresh \cup {h},
           CopyInv(h)', HandlerInv(h)', ReportedIsRecorded',
           \A g \in Handlers \ {h} :
               /\ pc'[g] = pc[g] /\ todo'[g] = todo[g] /\ found'[g] = found[g]
               /\ copy'[g] = copy[g] /\ seen'[g] = seen[g]
               /\ g \in outdated' <=> g \in outdated
               /\ pc[g] = "fill" => ("map" \in outdated' <=> "map" \in outdated)
    PROVE  RecordInv'
  <1>1. EntriesAreComplete'
    BY DEF RecordInv, EntriesAreComplete, DevicesOf
  <1>2. \A d : IsRecorded(d) => IsRecorded(d)'
    BY DEF IsRecorded
  <1>3. \A g \in Handlers \ {h} : HandlerInv(g)'
    BY <1>2, HandlerSame DEF RecordInv
  <1>4. \A g \in Handlers \ {h} : CopyInv(g)'
    BY CopySame DEF RecordInv
  <1> QED
    BY <1>1, <1>3, <1>4 DEF RecordInv

\* Devices stay reported and recorded when neither grows.
LEMMA ReportedSame ==
    ASSUME ReportedIsRecorded, devices' \subseteq devices, view' \subseteq view,
           "map" \in outdated => "map" \in outdated',
           "view" \in outdated => "view" \in outdated',
           \A d : IsRecorded(d) => IsRecorded(d)'
    PROVE  ReportedIsRecorded'
  BY DEF ReportedIsRecorded

\* After an error of AddDeviceIDs the handler has collected nothing, and the
\* kubelet knows of no more devices than before.
LEMMA RefreshFailsRecord ==
    ASSUME TypeOK, RecordInv, NEW h \in Handlers, RefreshFails(h),
           UNCHANGED <<nad, others, fresh, devices, outdated>>
    PROVE  RecordInv'
  <1>1. pc'[h] \notin {"update", "fill"} /\ found'[h] = {}
    BY DEF RefreshFails, Return, TypeOK
  <1>2. CopyInv(h)' /\ HandlerInv(h)'
    BY <1>1 DEF CopyInv, HandlerInv
  <1>3. \A g \in Handlers \ {h} :
            /\ pc'[g] = pc[g] /\ todo'[g] = todo[g] /\ found'[g] = found[g]
            /\ copy'[g] = copy[g] /\ seen'[g] = seen[g]
    BY DEF RefreshFails, Return, TypeOK
  <1>4. view' \subseteq view
    BY DEF RefreshFails, Return
  <1>5. \A d : IsRecorded(d) => IsRecorded(d)'
    BY DEF IsRecorded
  <1>6. ReportedIsRecorded'
    BY <1>4, <1>5, ReportedSame DEF RecordInv
  <1> QED
    BY <1>2, <1>3, <1>6, RecordStep

\* GetNad collects the devices of the interface it is at.
LEMMA GetNadRecord ==
    ASSUME TypeOK, RecordInv, NEW h \in Handlers, GetNad(h)
    PROVE  RecordInv'
  <1>1. UNCHANGED <<nad, others, devices, outdated>> /\ pc[h] = "nic"
    BY DEF GetNad
  <1>2. CASE ~nadExists
    BY <1>1, <1>2, RefreshFailsRecord DEF GetNad
  <1>3. CASE nadExists
    <2>1. /\ copy' = [copy EXCEPT ![h] = nad] /\ seen' = [seen EXCEPT ![h] = others]
          /\ fresh' = fresh \cup {h}
          /\ found' = [found EXCEPT ![h] = @ \cup DevicesOf(Head(todo[h]))]
          /\ pc' = [pc EXCEPT ![h] = "update"]
          /\ UNCHANGED <<todo, view>>
      BY <1>3 DEF GetNad
    <2>2. /\ found'[h] = found[h] \cup DevicesOf(Head(todo[h]))
          /\ pc'[h] = "update" /\ todo'[h] = todo[h]
          /\ copy'[h] = nad /\ seen'[h] = others
      BY <2>1 DEF TypeOK
    <2>3. h \notin outdated => \A d \in found[h] : IsRecorded(d)
      BY <1>1 DEF RecordInv, HandlerInv
    <2>4. \A d \in DevicesOf(Head(todo[h])) : d[1] = Head(todo[h])
      BY DEF DevicesOf
    <2>5. \A d : IsRecorded(d) => IsRecorded(d)'
      BY <1>1, SMTT(30) DEF IsRecorded
    <2>6. HandlerInv(h)'
      BY <1>1, <2>2, <2>3, <2>4, <2>5 DEF HandlerInv
    <2>7. CopyInv(h)'
      BY <1>1, <2>2 DEF CopyInv, DevicesOf
    <2>8. \A g \in Handlers \ {h} :
              /\ pc'[g] = pc[g] /\ todo'[g] = todo[g] /\ found'[g] = found[g]
              /\ copy'[g] = copy[g] /\ seen'[g] = seen[g]
      BY <2>1 DEF TypeOK
    <2>9. ReportedIsRecorded'
      BY <1>1, <2>1, <2>5, ReportedSame, SMTT(30) DEF RecordInv
    <2> QED
      BY <1>1, <2>1, <2>6, <2>7, <2>8, <2>9, RecordStep
  <1> QED
    BY <1>2, <1>3

\* A write that the API server accepts adds to what is in the net-attach-def
\* and changes nothing else in it.
LEMMA WriteBackKeeps ==
    ASSUME TypeInv, RecordInv, NEW h \in Handlers, h \in fresh, pc[h] = "update",
           WriteBack(h)
    PROVE  /\ Head(todo[h]) \in Nics
           /\ others' = others
           /\ \A j \in DOMAIN nad : j \in DOMAIN nad' /\ nad'[j] = nad[j]
           /\ \A j \in DOMAIN nad' : j \in DOMAIN nad \/
                  nad'[j] = [name |-> Head(todo[h]), ids |-> found[h]]
           /\ \E j \in DOMAIN nad' : nad'[j].name = Head(todo[h])
  <1>1. TypeOK /\ todo[h] # <<>>
    BY DEF TypeInv, HasInterface
  <1>2. Head(todo[h]) \in Nics /\ found[h] \in SUBSET Devices /\ nad \in Seq(Entry)
    BY <1>1, TodoType DEF TypeOK
  <1>3. copy[h] = nad /\ seen[h] = others
    BY DEF RecordInv, CopyInv
  <1>4. nad' = AddDeviceIeIDs(nad, Head(todo[h]), found[h]) /\ others' = others
    BY <1>3 DEF WriteBack
  <1> QED
    BY <1>2, <1>4, AddKeeps, SMTT(30)

\* UpdateNad records the interface with all of its devices, or finds it there
\* with all of its devices.
LEMMA UpdateNadRecord ==
    ASSUME TypeInv, RecordInv, NEW h \in Handlers, UpdateNad(h)
    PROVE  RecordInv'
  <1>0. TypeOK
    BY DEF TypeInv
  <1>1. devices' = devices /\ outdated' = outdated /\ pc[h] = "update"
    BY DEF UpdateNad
  <1>2. CASE h \notin fresh
    BY <1>0, <1>1, <1>2, RefreshFailsRecord DEF UpdateNad
  <1>3. CASE h \in fresh
    <2> DEFINE nic == Head(todo[h])
    <2>1. WriteBack(h)
      BY <1>3 DEF UpdateNad
    <2>2. /\ nic \in Nics
          /\ others' = others
          /\ \A j \in DOMAIN nad : j \in DOMAIN nad' /\ nad'[j] = nad[j]
          /\ \A j \in DOMAIN nad' : j \in DOMAIN nad \/
                 nad'[j] = [name |-> nic, ids |-> found[h]]
          /\ \E j \in DOMAIN nad' : nad'[j].name = nic
      BY <1>1, <1>3, <2>1, WriteBackKeeps
    <2>3. /\ pc' = [pc EXCEPT ![h] = "nic"] /\ UNCHANGED <<found, view>>
          /\ todo' = [todo EXCEPT ![h] = Tail(@)]
          /\ copy' = [copy EXCEPT ![h] = <<>>] /\ seen' = [seen EXCEPT ![h] = 0]
      BY <2>1 DEF WriteBack
    <2>4. DevicesOf(nic) \subseteq found[h]
      BY <1>1 DEF RecordInv, CopyInv
    <2>5. fresh' \subseteq fresh /\ (fresh' # {} => nad' = nad)
      BY <2>1 DEF WriteBack
    <2>6. h \notin outdated => \A d \in found[h] : IsRecorded(d) \/ d[1] = nic
      BY DEF RecordInv, HandlerInv
    <2> HIDE DEF nic
    <2>8. EntriesAreComplete'
      <3> SUFFICES ASSUME NEW j \in DOMAIN nad'
                   PROVE  DevicesOf(nad'[j].name) \subseteq nad'[j].ids
        BY DEF EntriesAreComplete, DevicesOf
      <3>1. CASE j \in DOMAIN nad
        BY <2>2, <3>1 DEF RecordInv, EntriesAreComplete
      <3>2. CASE j \notin DOMAIN nad
        BY <2>2, <2>4, <3>2
      <3> QED
        BY <3>1, <3>2
    <2>9. \A d : IsRecorded(d) => IsRecorded(d)'
      BY <2>2 DEF IsRecorded
    <2>10. \A d \in DevicesOf(nic) : IsRecorded(d)'
      <3>1. PICK j \in DOMAIN nad' : nad'[j].name = nic
        BY <2>2
      <3>2. DevicesOf(nic) \subseteq nad'[j].ids
        BY <2>8, <3>1 DEF EntriesAreComplete, DevicesOf
      <3>3. \A d \in DevicesOf(nic) : d[1] = nic
        BY DEF DevicesOf
      <3> QED
        BY <3>1, <3>2, <3>3 DEF IsRecorded
    <2>11. h \notin outdated => \A d \in found[h] : IsRecorded(d)'
      <3> SUFFICES ASSUME h \notin outdated, NEW d \in found[h], d[1] = nic
                   PROVE  IsRecorded(d)'
        BY <2>6, <2>9
      <3>1. d \in Nics \X (1..vNicPerNic)
        BY <1>0 DEF TypeOK, Devices
      <3>2. d \in DevicesOf(nic)
        BY <3>1 DEF DevicesOf
      <3> QED
        BY <2>10, <3>2
    <2>12. pc'[h] = "nic" /\ found'[h] = found[h]
      BY <1>0, <2>3 DEF TypeOK
    <2>13. HandlerInv(h)' /\ CopyInv(h)'
      BY <1>1, <2>11, <2>12 DEF HandlerInv, CopyInv
    <2>14. \A g \in Handlers \ {h} : HandlerInv(g)' /\ CopyInv(g)'
      <3> SUFFICES ASSUME NEW g \in Handlers \ {h} PROVE HandlerInv(g)' /\ CopyInv(g)'
        OBVIOUS
      <3>1. /\ pc'[g] = pc[g] /\ todo'[g] = todo[g] /\ found'[g] = found[g]
            /\ copy'[g] = copy[g] /\ seen'[g] = seen[g]
        BY <1>0, <2>3 DEF TypeOK
      <3>2. HandlerInv(g)'
        BY <1>1, <2>9, <3>1, HandlerSame, SMTT(30) DEF RecordInv
      <3>3. CopyInv(g)'
        BY <2>2, <2>5, <3>1, CopySame DEF RecordInv
      <3> QED
        BY <3>2, <3>3
    <2>15. ReportedIsRecorded'
      BY <1>1, <2>3, <2>9, ReportedSame DEF RecordInv
    <2> QED
      BY <2>8, <2>13, <2>14, <2>15 DEF RecordInv
  <1> QED
    BY <1>2, <1>3

\* Every step preserves the invariant; that nobody replaces the map while
\* another handler fills it comes from the lock.
LEMMA RecordNext == TypeInv /\ LockInv /\ RecordInv /\ [Next]_vars => RecordInv'
  <1> SUFFICES ASSUME TypeInv, LockInv, RecordInv, [Next]_vars PROVE RecordInv'
    OBVIOUS
  <1>0. TypeOK /\ Handlers \cap {"free", "allocate", "map", "view"} = {}
    BY DeviceAssumption DEF TypeInv, DeviceAssumption
  <1> USE DEF env, nadVars, handler
  <1>1. CASE /\ UNCHANGED <<nad, pc, todo, copy, seen, found, devices, view, outdated>>
             /\ fresh' \subseteq fresh /\ (fresh' # {} => others' = others)
    <2>1. \A d : IsRecorded(d) => IsRecorded(d)'
      BY <1>1 DEF IsRecorded
    <2>2. EntriesAreComplete' /\ ReportedIsRecorded'
      BY <1>1, <2>1, ReportedSame DEF RecordInv, EntriesAreComplete, DevicesOf
    <2>3. \A h \in Handlers : HandlerInv(h)'
      BY <1>1, <2>1, HandlerSame DEF RecordInv
    <2>4. \A h \in Handlers : CopyInv(h)'
      BY <1>1, CopySame DEF RecordInv
    <2> QED
      BY <2>2, <2>3, <2>4 DEF RecordInv
  <1>2. CASE Restart
    <2>1. \A h \in Handlers : pc'[h] = "none" /\ found'[h] = {}
      BY <1>2 DEF Restart
    <2>2. \A h \in Handlers : HandlerInv(h)' /\ CopyInv(h)'
      BY <2>1 DEF HandlerInv, CopyInv
    <2>3. EntriesAreComplete' /\ ReportedIsRecorded'
      BY <1>2 DEF Restart, RecordInv, EntriesAreComplete, DevicesOf, ReportedIsRecorded
    <2> QED
      BY <2>2, <2>3 DEF RecordInv
  <1>3. CASE DeleteNad
    <2>1. nad' = <<>> /\ fresh' = {} /\ outdated' = Handlers \cup {"map", "view"}
      BY <1>3 DEF DeleteNad
    <2>2. EntriesAreComplete' /\ ReportedIsRecorded'
      BY <2>1 DEF EntriesAreComplete, ReportedIsRecorded
    <2>3. \A h \in Handlers : HandlerInv(h)'
      BY <2>1 DEF HandlerInv
    <2>4. \A h \in Handlers : CopyInv(h)'
      BY <1>3, <2>1, CopySame DEF DeleteNad, RecordInv
    <2> QED
      BY <2>2, <2>3, <2>4 DEF RecordInv
  <1>4. ASSUME NEW h \in Handlers, GetNad(h) \/ UpdateNad(h) PROVE RecordInv'
    BY <1>0, <1>4, GetNadRecord, UpdateNadRecord
  <1>5. ASSUME NEW h \in Handlers,
               \/ Connect(h) \/ Discover(h) \/ SkipNic(h) \/ Refreshed(h) \/ Swap(h)
               \/ Fill(h) \/ Filled(h) \/ List(h) \/ Wake(h)
        PROVE  RecordInv'
    <2>1. /\ UNCHANGED <<nad, others, fresh>>
          /\ pc[h] # "update" /\ pc'[h] # "update"
      BY <1>0, <1>5, ZenonT(40) DEF TypeOK, Connect, Discover, SkipNic, Refreshed, Swap, Fill,
                        Filled, List, Return, Wake
    <2>2. found'[h] = found[h] \/ found'[h] = {}
      BY <1>0, <1>5 DEF TypeOK, Connect, Discover, SkipNic, Refreshed, Swap, Fill,
                        Filled, List, Return, Wake
    <2>3. \A g \in Handlers : g \notin outdated /\ pc[g] # "update" =>
              \A d \in found[g] : IsRecorded(d)
      BY DEF RecordInv, HandlerInv
    <2>4. \A d : IsRecorded(d) => IsRecorded(d)'
      BY <2>1 DEF IsRecorded
    <2>5. h \notin outdated' => h \notin outdated \/ found'[h] = {}
      <3>1. CASE Discover(h)
        BY <1>0, <3>1, SMTT(30) DEF TypeOK, Discover
      <3>2. CASE ~Discover(h)
        BY <1>0, <1>5, <3>2 DEF Connect, SkipNic, Refreshed, Swap, Fill, Filled,
                                List, Wake
      <3> QED
        BY <3>1, <3>2
    <2>6. pc'[h] = "fill" /\ "map" \notin outdated' => h \notin outdated'
      <3>1. CASE Swap(h)
        BY <1>0, <3>1 DEF Swap
      <3>2. CASE Fill(h)
        BY <3>2, SMTT(30) DEF RecordInv, HandlerInv, Fill
      <3>3. CASE Connect(h) \/ Refreshed(h) \/ Wake(h)
        BY <1>0, <3>3 DEF TypeOK, Connect, Refreshed, Wake
      <3>4. CASE Discover(h) \/ SkipNic(h)
        BY <1>0, <3>4 DEF TypeOK, Discover, SkipNic
      <3>5. CASE Filled(h)
        BY <1>0, <3>5 DEF TypeOK, Filled
      <3>6. CASE List(h)
        <4>1. pc' = [pc EXCEPT ![h] = "sleep"] \/ pc' = [pc EXCEPT ![h] = "none"]
          BY <3>6 DEF List, Return
        <4> QED
          BY <1>0, <4>1 DEF TypeOK
      <3> QED
        BY <1>5, <3>1, <3>2, <3>3, <3>4, <3>5, <3>6
    <2>7. HandlerInv(h)' /\ CopyInv(h)'
      BY <2>1, <2>2, <2>3, <2>4, <2>5, <2>6, ZenonT(40) DEF HandlerInv, CopyInv
    <2>8. \A g \in Handlers \ {h} :
              /\ pc'[g] = pc[g] /\ todo'[g] = todo[g] /\ found'[g] = found[g]
              /\ copy'[g] = copy[g] /\ seen'[g] = seen[g]
      <3>1. CASE SkipNic(h)
        BY <1>0, <3>1 DEF TypeOK, SkipNic
      <3>2. CASE Discover(h)
        BY <1>0, <3>2 DEF TypeOK, Discover
      <3>3. CASE List(h)
        <4>1. /\ seen' = seen \/ seen' = [seen EXCEPT ![h] = 0]
              /\ copy' = copy \/ copy' = [copy EXCEPT ![h] = <<>>]
              /\ todo' = todo \/ todo' = [todo EXCEPT ![h] = <<>>]
              /\ found' = found \/ found' = [found EXCEPT ![h] = {}]
              /\ \E v \in {"sleep", "none"} : pc' = [pc EXCEPT ![h] = v]
          BY <3>3 DEF List, Return
        <4> QED
          BY <1>0, <4>1 DEF TypeOK
      <3>4. CASE Connect(h) \/ Refreshed(h) \/ Wake(h)
        BY <1>0, <3>4, SMTT(30) DEF TypeOK, Connect, Refreshed, Wake
      <3>5. CASE Swap(h) \/ Fill(h) \/ Filled(h)
        BY <1>0, <3>5, SMTT(30) DEF TypeOK, Swap, Fill, Filled
      <3> QED
        BY <1>5, <3>1, <3>2, <3>3, <3>4, <3>5
    <2>9. \A g \in Handlers \ {h} :
              /\ g \in outdated' <=> g \in outdated
              /\ pc[g] = "fill" => ("map" \in outdated' <=> "map" \in outdated)
      <3>1. CASE Swap(h)
        BY <1>0, <3>1, SMTT(30) DEF LockInv, Swap
      <3>2. CASE ~Swap(h)
        BY <1>0, <1>5, <3>2 DEF Connect, Discover, SkipNic, Refreshed, Fill,
                                Filled, List, Wake
      <3> QED
        BY <3>1, <3>2
    <2>10. "map" \notin outdated' => \A d \in devices' : IsRecorded(d)
      <3>1. CASE Swap(h)
        BY <3>1 DEF Swap
      <3>2. CASE Fill(h)
        <4>1. /\ outdated' = outdated /\ devices' \subseteq devices \cup found[h]
              /\ pc[h] = "fill"
          BY <3>2 DEF Fill
        <4>2. "map" \notin outdated => h \notin outdated
          BY <4>1 DEF RecordInv, HandlerInv
        <4> QED
          BY <2>1, <2>3, <4>1, <4>2 DEF RecordInv, ReportedIsRecorded
      <3>3. CASE ~Swap(h) /\ ~Fill(h)
        <4>1. devices' = devices /\ ("map" \in outdated' <=> "map" \in outdated)
          BY <1>0, <1>5, <3>3 DEF Connect, Discover, SkipNic, Refreshed, Filled,
                                  List, Wake
        <4> QED
          BY <4>1, SMTT(30) DEF RecordInv, ReportedIsRecorded
      <3> QED
        BY <3>1, <3>2, <3>3
    <2>11. "view" \notin outdated' => \A d \in view' : IsRecorded(d)
      <3>1. CASE List(h) /\ stream = h /\ view' = devices
        <4>1. "view" \notin outdated' => "map" \notin outdated
          BY <1>0, <3>1, ZenonT(40) DEF List
        <4> QED
          BY <3>1, <4>1, SMTT(30) DEF RecordInv, ReportedIsRecorded
      <3>2. CASE List(h) /\ stream = h /\ view' # devices
        <4>1. "view" \notin outdated' => "map" \notin outdated
          BY <1>0, <3>2 DEF List
        <4>2. PICK g \in Handlers : pc[g] = "fill" /\ view' \subseteq found[g]
          BY <3>2 DEF List
        <4>3. "map" \notin outdated => g \notin outdated
          BY <4>2 DEF RecordInv, HandlerInv
        <4> QED
          BY <2>3, <4>1, <4>2, <4>3
      <3>3. CASE ~(List(h) /\ stream = h)
        <4>1. view' \subseteq view /\ ("view" \in outdated' <=> "view" \in outdated)
          BY <1>0, <1>5, <3>3 DEF Connect, Discover, SkipNic, Refreshed, Swap, Fill,
                                  Filled, List, Return, Wake
        <4> QED
          BY <4>1, SMTT(30) DEF RecordInv, ReportedIsRecorded
      <3> QED
        BY <3>1, <3>2, <3>3
    <2>12. ReportedIsRecorded'
      BY <2>4, <2>10, <2>11, SMTT(30) DEF ReportedIsRecorded
    <2> QED
      BY <2>1, <2>7, <2>8, <2>9, <2>12, RecordStep
  <1>6. CASE \/ Replug \/ Reconfigure \/ CreateNad \/ OtherUpdate \/ AllocatorDies
             \/ Allocate \/ Allocated \/ UNCHANGED vars
    BY <1>1, <1>6 DEF Replug, Reconfigure, CreateNad, OtherUpdate, AllocatorDies,
                      Allocate, Allocated, vars
  <1> QED
    BY <1>2, <1>3, <1>4, <1>5, <1>6 DEF Next, HandlerStep

\* The initial state has nothing reported and nothing recorded.
LEMMA RecordInit == Init => RecordInv
  <1> SUFFICES ASSUME Init PROVE RecordInv
    OBVIOUS
  <1>a. nad = <<>> /\ devices = {} /\ view = {}
    BY DEF Init
  <1>b. EntriesAreComplete
    BY <1>a DEF EntriesAreComplete
  <1>1. EntriesAreComplete /\ ReportedIsRecorded
    BY <1>a, <1>b DEF ReportedIsRecorded
  <1>2. \A h \in Handlers : HandlerInv(h) /\ CopyInv(h)
    BY DEF Init, HandlerInv, CopyInv
  <1> QED
    BY <1>1, <1>2 DEF RecordInv

\* RefreshDevices records each device in the net-attach-def before the server
\* or the kubelet knows of it, with any number of handlers, whatever fails; what
\* goes back to a refresh begun before the object was deleted is excepted.
THEOREM ReportsAreRecorded == Spec => []ReportedIsRecorded
  <1>1. Spec => [](TypeInv /\ LockInv /\ RecordInv)
    BY TypeInit, TypeNext, LockInit, LockNext, RecordInit, RecordNext, PTL DEF Spec
  <1>2. RecordInv => ReportedIsRecorded
    BY DEF RecordInv
  <1> QED
    BY <1>1, <1>2, PTL

\* AddDeviceIDs, though it replaces the whole object by an edited copy, takes
\* back nothing that another handler or another node has written to it, with any
\* number of handlers and interfaces.
THEOREM WritesAreNotUndone == Spec => EntriesAreKept
  <1>1. TypeInv /\ RecordInv /\ [Next]_vars =>
          [nadExists' => /\ \A i \in DOMAIN nad : i \in DOMAIN nad' /\ nad'[i] = nad[i]
                         /\ others' # others => OtherUpdate]_vars
    <2> SUFFICES ASSUME TypeInv, RecordInv, Next, nadExists'
                 PROVE  /\ \A i \in DOMAIN nad : i \in DOMAIN nad' /\ nad'[i] = nad[i]
                        /\ others' # others => OtherUpdate
      OBVIOUS
    <2> USE DEF env, nadVars, handler
    <2>1. CASE nad' = nad /\ (others' = others \/ OtherUpdate)
      BY <2>1
    <2>2. CASE \/ Replug \/ Reconfigure \/ CreateNad \/ DeleteNad \/ OtherUpdate
               \/ AllocatorDies \/ Restart \/ Allocate \/ Allocated
      BY <2>1, <2>2 DEF Replug, Reconfigure, CreateNad, DeleteNad, OtherUpdate,
                        AllocatorDies, Restart, Allocate, Allocated
    <2>3. ASSUME NEW h \in Handlers, UpdateNad(h), h \in fresh
          PROVE  /\ \A i \in DOMAIN nad : i \in DOMAIN nad' /\ nad'[i] = nad[i]
                 /\ others' # others => OtherUpdate
      <3>1. WriteBack(h) /\ pc[h] = "update"
        BY <2>3 DEF UpdateNad
      <3> QED
        BY <2>3, <3>1, WriteBackKeeps
    <2>4. ASSUME NEW h \in Handlers, UpdateNad(h), h \notin fresh
          PROVE  nad' = nad /\ others' = others
      BY <2>4, SMTT(30) DEF UpdateNad
    <2>5. ASSUME NEW h \in Handlers, Connect(h) \/ HandlerStep(h), ~UpdateNad(h)
          PROVE  nad' = nad /\ others' = others
      BY <2>5 DEF Connect, HandlerStep, Discover, SkipNic, GetNad, Refreshed, Swap,
                  Fill, Filled, List, Wake
    <2> QED
      BY <2>1, <2>2, <2>3, <2>4, <2>5 DEF Next
  <1>2. Spec => [](TypeInv /\ LockInv /\ RecordInv)
    BY TypeInit, TypeNext, LockInit, LockNext, RecordInit, RecordNext, PTL DEF Spec
  <1> QED
    BY <1>1, <1>2, PTL DEF Spec, EntriesAreKept

-----------------------------------------------------------------------------
(* The kubelet's list is the server's map                                   *)

\* Each stream's handler returns before the kubelet connects anew.
OneHandler == \A g, h \in Handlers : g = h

\* What the kubelet knows is the map, from the first list on; while the map is
\* being filled it is the map that was replaced.  Before the first list, and
\* between a change and its list, nothing is known of it.
ViewAt(h) ==
    stream = h =>
        /\ pc[h] = "sleep" => h \notin first /\ view = devices
        /\ pc[h] \in {"discover", "nic", "update", "swap"} /\ h \notin first
             => view = devices
        /\ pc[h] = "fill" /\ h \notin first => view = old[h]

ViewInv == \A h \in Handlers : ViewAt(h)

\* When AddDeviceIDs fails, memVSfcPluginServer goes on to the map, and the
\* handler of vSfcPluginServer is gone.
LEMMA RefreshFailsView ==
    ASSUME TypeOK, NEW h \in Handlers, ViewAt(h), RefreshFails(h),
           pc[h] \in {"nic", "update"}, UNCHANGED <<devices, old>>
    PROVE  ViewAt(h)'
  <1>1. CASE Mem
    <2>1. pc'[h] = "swap" /\ UNCHANGED <<first, stream, view>>
      BY <1>1 DEF RefreshFails, TypeOK
    <2> QED
      BY <2>1 DEF ViewAt
  <1>2. CASE ~Mem
    <2>1. pc'[h] = "none"
      BY <1>2 DEF RefreshFails, Return, TypeOK
    <2> QED
      BY <2>1 DEF ViewAt
  <1> QED
    BY <1>1, <1>2

\* The comparison with the old map, which is all that decides whether a list
\* is sent, keeps the two together.
LEMMA ViewNext ==
    ASSUME OneHandler, TypeOK, ViewInv, [Next]_vars PROVE ViewInv'
  <1> USE DEF env, nadVars, handler
  <1>1. CASE \/ Replug \/ Reconfigure \/ CreateNad \/ DeleteNad \/ OtherUpdate
             \/ AllocatorDies \/ Allocate \/ Allocated \/ UNCHANGED vars
    <2>1. UNCHANGED <<pc, old, first, devices, stream, view>>
      BY <1>1 DEF Replug, Reconfigure, CreateNad, DeleteNad, OtherUpdate, AllocatorDies,
                  Allocate, Allocated, vars
    <2> QED
      BY <2>1 DEF ViewInv, ViewAt
  <1>2. CASE Restart
    <2>1. \A h \in Handlers : pc'[h] = "none"
      BY <1>2 DEF Restart
    <2> QED
      BY <2>1 DEF ViewInv, ViewAt
  <1>3. ASSUME NEW h \in Handlers, Connect(h) \/ HandlerStep(h) PROVE ViewAt(h)'
    <2>0. ViewAt(h)
      BY DEF ViewInv
    <2>1. CASE Connect(h)
      <3>1. pc'[h] = "discover" /\ h \in first'
        BY <2>1 DEF Connect, TypeOK
      <3> QED
        BY <3>1 DEF ViewAt
    <2>2. CASE GetNad(h)
      <3>1. pc[h] = "nic" /\ UNCHANGED <<devices, old>>
        BY <2>2 DEF GetNad
      <3>2. \/ RefreshFails(h)
            \/ pc'[h] = "update" /\ UNCHANGED <<first, stream, view>>
        BY <2>2 DEF GetNad, TypeOK
      <3> QED
        BY <2>0, <3>1, <3>2, RefreshFailsView DEF ViewAt
    <2>3. CASE UpdateNad(h)
      <3>1. pc[h] = "update" /\ UNCHANGED <<devices, old>>
        BY <2>3 DEF UpdateNad
      <3>2. \/ RefreshFails(h)
            \/ pc'[h] = "nic" /\ UNCHANGED <<first, stream, view>>
        BY <2>3 DEF UpdateNad, WriteBack, TypeOK
      <3> QED
        BY <2>0, <3>1, <3>2, RefreshFailsView DEF ViewAt
    <2>4. CASE Discover(h) \/ SkipNic(h) \/ Refreshed(h) \/ Wake(h)
      <3>1. /\ pc[h] \in {"discover", "nic", "sleep"} /\ pc'[h] \in {"discover", "nic", "swap"}
            /\ UNCHANGED <<first, devices, stream, view>>
        <4>1. /\ pc[h] \in {"discover", "nic", "sleep"}
              /\ \/ pc' = pc /\ pc[h] = "nic"
                 \/ \E v \in {"discover", "nic", "swap"} : pc' = [pc EXCEPT ![h] = v]
          BY <2>4 DEF Discover, SkipNic, Refreshed, Wake
        <4>2. UNCHANGED <<first, devices, stream, view>>
          BY <2>4 DEF Discover, SkipNic, Refreshed, Wake
        <4> QED
          BY <4>1, <4>2 DEF TypeOK
      <3> QED
        BY <2>0, <3>1 DEF ViewAt
    <2>5. CASE Swap(h)
      <3>1. /\ pc[h] = "swap" /\ pc'[h] = "fill" /\ old'[h] = devices
            /\ UNCHANGED <<first, stream, view>>
        BY <2>5 DEF Swap, TypeOK
      <3> QED
        BY <2>0, <3>1 DEF ViewAt
    <2>6. CASE Fill(h)
      <3>1. pc[h] = "fill" /\ UNCHANGED <<pc, old, first, stream, view>>
        BY <2>6 DEF Fill
      <3> QED
        BY <2>0, <3>1 DEF ViewAt
    <2>7. CASE Filled(h)
      <3>1. /\ pc[h] = "fill" /\ UNCHANGED <<first, devices, stream, view>>
            /\ pc'[h] = IF h \in first \/ devices # old[h] THEN "list" ELSE "sleep"
        BY <2>7 DEF Filled, TypeOK
      <3> QED
        BY <2>0, <3>1 DEF ViewAt
    <2>8. CASE List(h) /\ stream = h
      <3>1. \A g \in Handlers \ {h} : FALSE
        BY DEF OneHandler
      <3>2. view' = devices /\ pc'[h] = "sleep" /\ h \notin first' /\ devices' = devices
        <4>1. /\ pc' = [pc EXCEPT ![h] = "sleep"] /\ first' = first \ {h}
              /\ view' = devices /\ devices' = devices
          BY <2>8, <3>1 DEF List
        <4> QED
          BY <4>1 DEF TypeOK
      <3> QED
        BY <3>2 DEF ViewAt
    <2>9. CASE List(h) /\ stream # h
      <3>1. pc'[h] = "none"
        <4>1. pc' = [pc EXCEPT ![h] = "none"]
          BY <2>9 DEF List, Return
        <4> QED
          BY <4>1 DEF TypeOK
      <3> QED
        BY <3>1 DEF ViewAt
    <2> QED
      BY <1>3, <2>1, <2>2, <2>3, <2>4, <2>5, <2>6, <2>7, <2>8, <2>9 DEF HandlerStep
  <1>4. ASSUME NEW h \in Handlers, ViewAt(h)' PROVE ViewInv'
    <2>1. \A g \in Handlers : g = h
      BY DEF OneHandler
    <2> QED
      BY <1>4, <2>1 DEF ViewInv
  <1>5. Next \/ UNCHANGED vars
    OBVIOUS
  <1>6. CASE \E h \in Handlers : Connect(h) \/ HandlerStep(h)
    BY <1>3, <1>4, <1>6
  <1> QED
    BY <1>1, <1>2, <1>5, <1>6, Zenon DEF Next

\* As long as handlers do not outlive their streams, the kubelet has the list
\* that Allocate looks devices up in whenever its handler is between two
\* refreshes, with any interfaces, whatever fails.  (DeviceServer_lost shows
\* that with two handlers it may not.)
THEOREM ViewIsTheMap == OneHandler => (Spec => []ViewMatchesDevices)
  <1> SUFFICES ASSUME OneHandler PROVE Spec => []ViewMatchesDevices
    OBVIOUS
  <1>1. Init => ViewInv
    BY DEF Init, ViewInv, ViewAt
  <1>2. TypeOK /\ ViewInv /\ [Next]_vars => ViewInv'
    BY ViewNext
  <1>3. ViewInv => ViewMatchesDevices
    BY DEF ViewInv, ViewAt, ViewMatchesDevices
  <1>4. TypeInv => TypeOK
    BY DEF TypeInv
  <1> QED
    BY <1>1, <1>2, <1>3, <1>4, TypeInit, TypeNext, PTL DEF Spec

=============================================================================
