------------------------- MODULE ViAllocatorProofs -------------------------
(***************************************************************************)
(* What holds of ViAllocator for any number of interfaces, devices,        *)
(* resources and pods, and any pools of the adapter.                       *)
(***************************************************************************)
EXTENDS ViAllocator, FiniteSetTheorems, TLAPS

-----------------------------------------------------------------------------
(* Types                                                                   *)

\* A call that is not idle is one of ApplyVirtualDevice.
LEMMA CallType ==
    ASSUME TypeOK, NEW s \in Servers, call[s].pc # "idle" PROVE call[s] \in Call
  BY DEF TypeOK, Idle

\* The sizes that the constants have.
LEMMA Sizes ==
    /\ ViPool \in Nat /\ PdPool \in Nat /\ MaxIndex \in Nat
    /\ vNicPerNic \in Nat /\ Cardinality(Nics) \in Nat
    /\ Cardinality(Nics) <= MaxIndex
  <1>1. Cardinality(Nics) \in Nat
    BY AllocatorAssumption, FS_CardinalityType DEF AllocatorAssumption
  <1> QED
    BY <1>1, AllocatorAssumption DEF AllocatorAssumption

\* Moving a call on keeps the type.
LEMMA CallStep ==
    ASSUME TypeOK, NEW s \in Servers, call[s] \in Call, NEW i \in 0..MaxIndex
    PROVE  /\ [call EXCEPT ![s].pc = "insert", ![s].ifindex = i]
                \in [Servers -> Call \cup {Idle}]
           /\ [call EXCEPT ![s].pc = "find", ![s].ifindex = i]
                \in [Servers -> Call \cup {Idle}]
           /\ [call EXCEPT ![s].pc = "find"] \in [Servers -> Call \cup {Idle}]
           /\ [call EXCEPT ![s].pc = "memreg"] \in [Servers -> Call \cup {Idle}]
  <1>1. call \in [Servers -> Call \cup {Idle}]
    BY DEF TypeOK
  <1>2. /\ [call[s] EXCEPT !.pc = "insert", !.ifindex = i] \in Call
        /\ [call[s] EXCEPT !.pc = "find", !.ifindex = i] \in Call
        /\ [call[s] EXCEPT !.pc = "find"] \in Call
        /\ [call[s] EXCEPT !.pc = "memreg"] \in Call
    BY DEF Call
  <1> QED
    BY <1>1, <1>2

\* Ending a call keeps the type.
LEMMA CallEnd ==
    ASSUME TypeOK, NEW s \in Servers
    PROVE  [call EXCEPT ![s] = Idle] \in [Servers -> Call \cup {Idle}]
  BY DEF TypeOK

\* The interface of a call is one of the node, and so is its index.
LEMMA CallNic ==
    ASSUME TypeOK, NEW s, call[s] \in Call
    PROVE  /\ call[s].device.nic \in Nics /\ call[s].ifindex \in 0..MaxIndex
           /\ index[call[s].device.nic] \in 0..MaxIndex
  BY DEF TypeOK, Call, Device

\* Every step keeps the types: ViPool and PdPool are never exceeded.
LEMMA TypeNext ==
    ASSUME TypeOK, [Next]_vars PROVE TypeOK'
  <1>1. ASSUME NEW n \in Nics, Replug(n) PROVE TypeOK'
    <2>1. index' \in [Nics -> 0..MaxIndex] /\ last' \in 0..MaxIndex
      <3>1. CASE index[n] # 0
        <4>1. 0 \in 0..MaxIndex
          BY Sizes
        <4> QED
          BY <1>1, <3>1, <4>1 DEF TypeOK, Replug
      <3>2. CASE index[n] = 0
        <4>1. last + 1 \in 0..MaxIndex
          BY <1>1, <3>2, Sizes DEF TypeOK, Replug
        <4> QED
          BY <1>1, <3>2, <4>1 DEF TypeOK, Replug
      <3> QED
        BY <3>1, <3>2
    <2> QED
      BY <1>1, <2>1 DEF TypeOK, Replug, allocator
  <1>3. ASSUME NEW s \in Servers, PutIfAbsent(s) PROVE TypeOK'
    <2> DEFINE i == index[call[s].device.nic]
    <2>1. call[s] \in Call
      BY <1>3, CallType DEF PutIfAbsent
    <2>i. i \in 0..MaxIndex
      BY <2>1, CallNic
    <2>a. \/ call' = [call EXCEPT ![s] = Idle] /\ UNCHANGED <<domains, raced>>
          \/ /\ call' = [call EXCEPT ![s].pc = "find", ![s].ifindex = i]
             /\ UNCHANGED <<domains, raced>>
          \/ NewDomain(s, i)
      BY <1>3, Zenon DEF PutIfAbsent, Fail
    <2> HIDE DEF i
    <2>2. call' \in [Servers -> Call \cup {Idle}]
      <3>1. /\ [call EXCEPT ![s].pc = "insert", ![s].ifindex = i]
                 \in [Servers -> Call \cup {Idle}]
            /\ [call EXCEPT ![s].pc = "find", ![s].ifindex = i]
                 \in [Servers -> Call \cup {Idle}]
            /\ [call EXCEPT ![s] = Idle] \in [Servers -> Call \cup {Idle}]
        BY <2>1, <2>i, CallStep, CallEnd
      <3> QED
        BY <2>a, <3>1, Zenon DEF NewDomain
    <2>3. raced' \in BOOLEAN
      BY <2>a, Zenon DEF TypeOK, NewDomain, Racing
    <2>4. domains' \in [0..MaxIndex -> 0..PdPool]
      <3>1. CASE UNCHANGED domains
        BY <3>1 DEF TypeOK
      <3>2. CASE NewDomain(s, i)
        BY <3>2, <2>i, Sizes, SMTT(30) DEF TypeOK, NewDomain
      <3> QED
        BY <2>a, <3>1, <3>2, Zenon
    <2> QED
      BY <1>3, <2>2, <2>3, <2>4 DEF TypeOK, PutIfAbsent, node
  <1>4. ASSUME NEW s \in Servers, Insert(s) PROVE TypeOK'
    <2>1. call[s] \in Call
      BY <1>4, CallType DEF Insert
    <2>2. call' \in [Servers -> Call \cup {Idle}]
      BY <1>4, <2>1, CallStep, CallNic DEF Insert
    <2>3. opened' \subseteq 0..MaxIndex
      BY <1>4, <2>1, CallNic DEF TypeOK, Insert
    <2>4. raced' \in BOOLEAN
      BY <1>4, Zenon DEF TypeOK, Insert, Racing
    <2> QED
      BY <1>4, <2>2, <2>3, <2>4 DEF TypeOK, Insert, node
  <1>5. ASSUME NEW s \in Servers, Construct(s) PROVE TypeOK'
    <2>1. call[s] \in Call
      BY <1>5, CallType DEF Construct
    <2> DEFINE i == call[s].ifindex
               m == NameOf(call[s].device, call[s].list)
    <2>i. i \in 0..MaxIndex
      BY <2>1, CallNic
    <2>a. \/ CanTake(s) /\ TakeVi(s)
          \/ SpoilVi(s)
          \/ Fail(s) /\ UNCHANGED <<taken, file>>
      BY <1>5 DEF Construct
    <2>2. call' \in [Servers -> Call \cup {Idle}]
      <3>1. /\ [call EXCEPT ![s].pc = "memreg"] \in [Servers -> Call \cup {Idle}]
            /\ [call EXCEPT ![s] = Idle] \in [Servers -> Call \cup {Idle}]
        BY <2>1, <2>i, CallStep, CallEnd
      <3> QED
        BY <2>a, <3>1, Zenon DEF Fail, TakeVi, SpoilVi
    <2>3. ASSUME CanTake(s), Take(s)
          PROVE  /\ taken' \in [0..MaxIndex -> 0..ViPool]
                 /\ taken'[i] \in 1..ViPool
      <3>1. taken[i] \in 0..ViPool /\ taken[i] < ViPool
        BY <2>3, <2>i DEF TypeOK, CanTake
      <3>2. taken[i] + 1 \in 0..ViPool /\ taken[i] + 1 \in 1..ViPool
        BY <3>1, Sizes
      <3>3. taken' = [taken EXCEPT ![i] = taken[i] + 1]
        BY <2>3 DEF Take
      <3> QED
        BY <2>i, <3>2, <3>3 DEF TypeOK
    <2>4. taken' \in [0..MaxIndex -> 0..ViPool]
      <3>1. CASE UNCHANGED taken
        BY <3>1 DEF TypeOK
      <3> QED
        BY <2>a, <2>3, <3>1 DEF TakeVi, SpoilVi
    <2>5. file' \in [Name -> Vi \cup {NoVi}]
      <3>0. file \in [Name -> Vi \cup {NoVi}]
        BY DEF TypeOK
      <3>1. CASE UNCHANGED file
        BY <3>0, <3>1
      <3>2. CASE CanTake(s) /\ TakeVi(s)
        <4> DEFINE v == [ifindex |-> i, number |-> taken'[i], whole |-> TRUE]
        <4>1. v \in Vi
          BY <2>3, <2>i, <3>2 DEF Vi, TakeVi
        <4>2. file' = [file EXCEPT ![m] = v]
          BY <3>2 DEF TakeVi
        <4> HIDE DEF v, m
        <4> QED
          BY <3>0, <4>1, <4>2
      <3>3. CASE SpoilVi(s)
        <4>1. file' = [file EXCEPT ![m] = IF @ = NoVi THEN @
                                            ELSE [@ EXCEPT !.whole = FALSE]]
          BY <3>3 DEF SpoilVi
        <4> HIDE DEF m
        <4>2. \A v \in Vi : [v EXCEPT !.whole = FALSE] \in Vi
          BY DEF Vi
        <4>3. CASE m \in Name
          <5> DEFINE w == IF file[m] = NoVi THEN file[m]
                                            ELSE [file[m] EXCEPT !.whole = FALSE]
          <5>1. w \in Vi \cup {NoVi}
            BY <3>0, <4>2, <4>3
          <5>2. file' = [file EXCEPT ![m] = w]
            BY <4>1
          <5> HIDE DEF w
          <5> QED
            BY <3>0, <5>1, <5>2
        <4>4. CASE m \notin Name
          BY <3>0, <4>1, <4>4
        <4> QED
          BY <4>3, <4>4
      <3> QED
        BY <2>a, <3>1, <3>2, <3>3
    <2> QED
      BY <1>5, <2>2, <2>4, <2>5 DEF TypeOK, Construct, node
  <1>6. ASSUME NEW s \in Servers, MemReg(s) PROVE TypeOK'
    <2>1. call[s] \in Call
      BY <1>6, CallType DEF MemReg
    <2>2. call' \in [Servers -> Call \cup {Idle}]
      BY <1>6, CallEnd DEF MemReg
    <2>3. pod' \in [Pods -> Running \cup {NoPod}]
      BY <1>6, <2>1 DEF TypeOK, MemReg, Call, Running
    <2> QED
      BY <1>6, <2>2, <2>3 DEF TypeOK, MemReg, allocator, node
  <1>7. ASSUME NEW s \in Servers, NEW p \in Pods, NEW d \in Device,
               NEW nics \in Listings, Allocate(s, p, d, nics)
        PROVE  TypeOK'
    <2>1. [pc |-> "put", pod |-> p, device |-> d, list |-> nics, ifindex |-> 0] \in Call
      BY Sizes DEF Call
    <2>2. call' \in [Servers -> Call \cup {Idle}]
      BY <1>7, <2>1 DEF TypeOK, Allocate
    <2> QED
      BY <1>7, <2>2 DEF TypeOK, Allocate, allocator, node
  <1>8. ASSUME NEW p \in Pods, PodEnds(p) PROVE TypeOK'
    BY <1>8 DEF TypeOK, PodEnds, allocator, node
  <1>9. CASE MapRace
    BY <1>9 DEF TypeOK, MapRace, node
  <1>10. CASE UNCHANGED vars
    BY <1>10 DEF TypeOK, vars, allocator, node
  <1> QED
    BY <1>1, <1>3, <1>4, <1>5, <1>6, <1>7, <1>8, <1>9, <1>10, Zenon
    DEF Next

\* The types hold when the allocator starts.
LEMMA TypeInit ==
    Init => TypeOK
  <1>1. /\ 0 \in 0..PdPool /\ 0 \in 0..ViPool
        /\ \A k \in 0..Cardinality(Nics) : k \in 0..MaxIndex /\ 0..k \subseteq 0..MaxIndex
    BY Sizes
  <1>2. Init => index \in [Nics -> 0..MaxIndex] /\ last \in 0..MaxIndex
    BY <1>1 DEF Init
  <1> QED
    BY <1>1, <1>2 DEF Init, TypeOK

\* The variables keep their types; in particular ef_vi_alloc_from_pd and
\* ef_pd_alloc never give out more than the adapter has.
THEOREM TypeCorrect == Spec => []TypeOK
  BY TypeInit, TypeNext, PTL DEF Spec

-----------------------------------------------------------------------------
(* One protection domain per interface index                               *)

\* As long as no two calls have met in opened_handles, an index with a
\* protection domain is in opened_handles, or about to be put there.
DomainInv ==
    ~raced =>
      \A n \in 0..MaxIndex :
         /\ domains[n] <= 1
         /\ domains[n] = 1 =>
              \/ n \in opened
              \/ \E s \in Servers : call[s].pc = "insert" /\ call[s].ifindex = n

\* A call that gets a second protection domain meets the one that got the
\* first, and has not put it into opened_handles yet.
LEMMA DomainNext ==
    ASSUME TypeOK, DomainInv, [Next]_vars PROVE DomainInv'
  <1> SUFFICES ASSUME ~raced', NEW n \in 0..MaxIndex
               PROVE  /\ domains'[n] <= 1
                      /\ domains'[n] = 1 =>
                           \/ n \in opened'
                           \/ \E s \in Servers :
                                 call'[s].pc = "insert" /\ call'[s].ifindex = n
    BY DEF DomainInv
  <1>a. /\ call \in [Servers -> Call \cup {Idle}]
        /\ domains \in [0..MaxIndex -> 0..PdPool]
    BY DEF TypeOK
  <1>b. ~raced =>
          /\ domains[n] <= 1
          /\ domains[n] = 1 =>
               \/ n \in opened
               \/ \E s \in Servers : call[s].pc = "insert" /\ call[s].ifindex = n
    BY DEF DomainInv
  <1>1. ASSUME NEW k \in Nics, Replug(k)
        PROVE  UNCHANGED <<call, opened, domains, raced>>
    BY <1>1 DEF Replug, allocator
  <1>3. ASSUME NEW s \in Servers, PutIfAbsent(s)
        PROVE  /\ domains'[n] <= 1
               /\ domains'[n] = 1 =>
                    \/ n \in opened'
                    \/ \E t \in Servers :
                          call'[t].pc = "insert" /\ call'[t].ifindex = n
    <2> DEFINE i == index[call[s].device.nic]
    <2>1. \A t \in Servers \ {s} : call'[t] = call[t]
      BY <1>3, <1>a DEF PutIfAbsent, Fail, NewDomain
    <2>2. opened' = opened /\ call[s].pc = "put"
      BY <1>3 DEF PutIfAbsent
    <2>3. CASE UNCHANGED <<domains, raced>>
      BY <1>b, <2>1, <2>2, <2>3
    <2>4. CASE NewDomain(s, i) /\ i \notin opened
      <3>1. ~raced /\ ~Racing(s)
        BY <2>4 DEF NewDomain
      <3>2. CASE n # i
        <4>1. domains'[n] = domains[n]
          BY <2>4, <3>2, <1>a DEF NewDomain
        <4> QED
          BY <1>b, <2>1, <2>2, <3>1, <4>1
      <3>3. CASE n = i
        <4>1. domains[n] # 1
          BY <1>b, <2>2, <2>4, <3>1, <3>3 DEF Racing
        <4>2. domains[n] = 0
          BY <1>a, <1>b, <3>1, <4>1, Sizes
        <4>3. domains'[n] = 1
          BY <1>a, <2>4, <3>3, <4>2 DEF NewDomain
        <4>4. call[s] \in Call
          BY <2>2, CallType
        <4>5. call'[s] = [call[s] EXCEPT !.pc = "insert", !.ifindex = n]
          BY <1>a, <2>4, <3>3 DEF NewDomain
        <4>6. call'[s].pc = "insert" /\ call'[s].ifindex = n
          BY <4>4, <4>5 DEF Call
        <4> QED
          BY <4>3, <4>6
      <3> QED
        BY <3>2, <3>3
    <2> QED
      BY <1>3, <2>3, <2>4, Zenon DEF PutIfAbsent
  <1>4. ASSUME NEW s \in Servers, Insert(s)
        PROVE  /\ domains'[n] <= 1
               /\ domains'[n] = 1 =>
                    \/ n \in opened'
                    \/ \E t \in Servers :
                          call'[t].pc = "insert" /\ call'[t].ifindex = n
    <2>1. ~raced /\ opened' = opened \union {call[s].ifindex} /\ domains' = domains
      BY <1>4 DEF Insert
    <2>2. \A t \in Servers \ {s} : call'[t] = call[t]
      BY <1>4, <1>a DEF Insert
    <2> QED
      BY <1>b, <2>1, <2>2
  <1>5. ASSUME NEW s \in Servers, Construct(s) \/ MemReg(s)
        PROVE  /\ UNCHANGED <<opened, domains, raced>>
               /\ \A t \in Servers \ {s} : call'[t] = call[t]
               /\ call[s].pc # "insert"
    BY <1>5, <1>a DEF Construct, TakeVi, SpoilVi, Fail, MemReg, allocator
  <1>6. ASSUME NEW s \in Servers, NEW p \in Pods, NEW d \in Device,
               NEW nics \in Listings, Allocate(s, p, d, nics)
        PROVE  /\ UNCHANGED <<opened, domains, raced>>
               /\ \A t \in Servers \ {s} : call'[t] = call[t]
               /\ call[s].pc # "insert"
    BY <1>6, <1>a DEF Allocate, allocator, Idle
  <1>7. ASSUME NEW p \in Pods, PodEnds(p)
        PROVE  UNCHANGED <<call, opened, domains, raced>>
    BY <1>7 DEF PodEnds, allocator
  <1>8. ~MapRace
    BY DEF MapRace
  <1>9. ASSUME UNCHANGED vars PROVE UNCHANGED <<call, opened, domains, raced>>
    BY <1>9 DEF vars, allocator
  <1>10. ASSUME NEW s \in Servers, UNCHANGED <<opened, domains, raced>>,
                \A t \in Servers \ {s} : call'[t] = call[t], call[s].pc # "insert"
         PROVE  /\ domains'[n] <= 1
                /\ domains'[n] = 1 =>
                     \/ n \in opened'
                     \/ \E t \in Servers :
                           call'[t].pc = "insert" /\ call'[t].ifindex = n
    BY <1>b, <1>10
  <1>11. CASE UNCHANGED <<call, opened, domains, raced>>
    BY <1>b, <1>11
  <1> QED
    BY <1>1, <1>3, <1>4, <1>5, <1>6, <1>7, <1>8, <1>9, <1>10, <1>11, Zenon
    DEF Next

\* DomainInv holds in every state.
THEOREM DomainInvariant == Spec => []DomainInv
  <1>1. Init => DomainInv
    BY DEF Init, DomainInv
  <1> QED
    BY <1>1, TypeCorrect, DomainNext, PTL DEF Spec

\* Only calls of two servers that overlap in put_if_absent can give an
\* interface, as long as it keeps its index, a second protection domain.
THEOREM OneDomain == Spec => []OneDomainPerIndex
  <1>1. DomainInv => OneDomainPerIndex
    BY DEF DomainInv, OneDomainPerIndex
  <1> QED
    BY <1>1, DomainInvariant, PTL

-----------------------------------------------------------------------------
(* The names of devices                                                    *)

\* A listing has every interface once.
LEMMA ListingType ==
    ASSUME NEW nics \in Listings
    PROVE  /\ DOMAIN nics \subseteq 1..Cardinality(Nics)
           /\ \A i, j \in DOMAIN nics : nics[i] = nics[j] => i = j
  <1>1. PICK k \in 0..Cardinality(Nics) :
          /\ nics \in [1..k -> Nics]
          /\ \A i, j \in 1..k : nics[i] = nics[j] => i = j
    BY DEF Listings
  <1> QED
    BY <1>1, Sizes

\* device.Name holds the position of the interface, counted from 0.
LEMMA NameIsAPosition ==
    ASSUME NEW d, NEW nics \in Listings, d.nic \in Interfaces(nics)
    PROVE  \E i \in DOMAIN nics : /\ nics[i] = d.nic
                                  /\ NameOf(d, nics) = <<i - 1, d.number>>
  <1> DEFINE at == CHOOSE i \in DOMAIN nics : nics[i] = d.nic
  <1>1. \E i \in DOMAIN nics : nics[i] = d.nic
    BY DEF Interfaces
  <1>2. at \in DOMAIN nics /\ nics[at] = d.nic
    BY <1>1
  <1>3. NameOf(d, nics) = <<at - 1, d.number>>
    BY DEF NameOf
  <1> HIDE DEF at
  <1> QED
    BY <1>2, <1>3

\* device.Name is a name.
LEMMA NameType ==
    ASSUME NEW d \in Device, NEW nics \in Listings, d.nic \in Interfaces(nics)
    PROVE  NameOf(d, nics) \in Name
  <1>1. PICK i \in DOMAIN nics : NameOf(d, nics) = <<i - 1, d.number>>
    BY NameIsAPosition
  <1>2. i - 1 \in 0..Cardinality(Nics) /\ d.number \in 1..vNicPerNic
    BY ListingType, Sizes DEF Device
  <1> QED
    BY <1>1, <1>2 DEF Name

\* With one list of interfaces, devices with the same name have the same
\* interface and the same number.
LEMMA NamesTellNicsApart ==
    ASSUME NEW d \in Device, NEW e \in Device, NEW nics \in Listings,
           d.nic \in Interfaces(nics), e.nic \in Interfaces(nics),
           NameOf(d, nics) = NameOf(e, nics)
    PROVE  d.nic = e.nic /\ d.number = e.number
  <1>1. PICK a \in DOMAIN nics :
          nics[a] = d.nic /\ NameOf(d, nics) = <<a - 1, d.number>>
    BY NameIsAPosition
  <1>2. PICK b \in DOMAIN nics :
          nics[b] = e.nic /\ NameOf(e, nics) = <<b - 1, e.number>>
    BY NameIsAPosition
  <1>a. <<a - 1, d.number>> = <<b - 1, e.number>>
    BY <1>1, <1>2, Zenon
  <1>3. a - 1 = b - 1 /\ d.number = e.number
    BY <1>a, Zenon
  <1>4. a \in Int /\ b \in Int
    BY ListingType, Sizes
  <1>5. a = b
    BY <1>3, <1>4
  <1> QED
    BY <1>1, <1>2, <1>3, <1>5

-----------------------------------------------------------------------------
(* The files of running pods                                               *)

\* A call is for a device of its own server that the server had found, and
\* that no pod runs with.
CallInv ==
    \A s \in Servers : call[s] # Idle =>
       /\ call[s].device.server = s
       /\ call[s].device.nic \in Interfaces(call[s].list)
       /\ \A p \in Pods : pod[p] # NoPod => pod[p].device # call[s].device

\* A pod runs with a device whose interface had been found.
PodInv ==
    \A p \in Pods : pod[p] # NoPod => pod[p].device.nic \in Interfaces(pod[p].list)

\* A call ends, or goes on for the same device.
GoesOn(t) ==
    call'[t] # Idle => /\ call[t] # Idle
                       /\ call'[t].device = call[t].device
                       /\ call'[t].list = call[t].list

\* Only Allocate begins a call.
LEMMA CallsGoOn ==
    ASSUME TypeOK, [Next]_vars,
           ~ \E s \in Servers, p \in Pods, d \in Device, nics \in Listings :
                 Allocate(s, p, d, nics)
    PROVE  \A t \in Servers : GoesOn(t)
  <1> SUFFICES ASSUME NEW t \in Servers PROVE GoesOn(t)
    OBVIOUS
  <1>a. call \in [Servers -> Call \cup {Idle}]
    BY DEF TypeOK
  <1>1. CASE UNCHANGED call
    BY <1>1 DEF GoesOn
  <1>2. ASSUME NEW s \in Servers, call' = [call EXCEPT ![s] = Idle] PROVE GoesOn(t)
    BY <1>2, <1>a DEF GoesOn
  <1>3. ASSUME NEW s \in Servers, call[s].pc # "idle", NEW pc,
               call' = [call EXCEPT ![s].pc = pc]
        PROVE  GoesOn(t)
    <2>1. call[s] \in Call
      BY <1>3, CallType
    <2>2. CASE t # s
      BY <1>3, <1>a, <2>2 DEF GoesOn
    <2>3. CASE t = s
      <3>1. call'[s] = [call[s] EXCEPT !.pc = pc]
        BY <1>3, <1>a
      <3>2. call'[s].device = call[s].device /\ call'[s].list = call[s].list
        BY <3>1, <2>1 DEF Call
      <3> QED
        BY <1>3, <2>3, <3>2 DEF GoesOn, Idle
    <2> QED
      BY <2>2, <2>3
  <1>b. ASSUME NEW s \in Servers, call[s].pc # "idle", NEW pc, NEW i,
               call' = [call EXCEPT ![s].pc = pc, ![s].ifindex = i]
        PROVE  GoesOn(t)
    <2>1. call[s] \in Call
      BY <1>b, CallType
    <2>2. CASE t # s
      BY <1>b, <1>a, <2>2 DEF GoesOn
    <2>3. CASE t = s
      <3>1. call'[s] = [call[s] EXCEPT !.pc = pc, !.ifindex = i]
        BY <1>b, <1>a
      <3>2. call'[s].device = call[s].device /\ call'[s].list = call[s].list
        BY <3>1, <2>1 DEF Call
      <3> QED
        BY <1>b, <2>3, <3>2 DEF GoesOn, Idle
    <2> QED
      BY <2>2, <2>3
  <1>4. ASSUME NEW s \in Servers, PutIfAbsent(s) PROVE GoesOn(t)
    <2>1. /\ call[s].pc = "put"
          /\ \/ call' = [call EXCEPT ![s] = Idle]
             \/ \E pc, i : call' = [call EXCEPT ![s].pc = pc, ![s].ifindex = i]
      BY <1>4, Zenon DEF PutIfAbsent, Fail, NewDomain
    <2> QED
      BY <1>2, <1>b, <2>1
  <1>5. ASSUME NEW s \in Servers, Insert(s) PROVE GoesOn(t)
    <2>1. call[s].pc = "insert" /\ call' = [call EXCEPT ![s].pc = "find"]
      BY <1>5 DEF Insert
    <2> QED
      BY <1>3, <2>1
  <1>6. ASSUME NEW s \in Servers, Construct(s) PROVE GoesOn(t)
    <2>1. /\ call[s].pc = "find"
          /\ \/ call' = [call EXCEPT ![s] = Idle]
             \/ call' = [call EXCEPT ![s].pc = "memreg"]
      BY <1>6, Zenon DEF Construct, Fail, TakeVi, SpoilVi
    <2> QED
      BY <1>2, <1>3, <2>1
  <1>7. ASSUME NEW s \in Servers, MemReg(s) PROVE GoesOn(t)
    BY <1>2, <1>7 DEF MemReg
  <1>8. CASE MapRace
    BY <1>8 DEF MapRace, GoesOn
  <1>9. CASE \/ \E n \in Nics : Replug(n)
             \/ \E p \in Pods : PodEnds(p) \/ UNCHANGED vars
    BY <1>1, <1>9 DEF Replug, PodEnds, vars, allocator
  <1> QED
    BY <1>1, <1>4, <1>5, <1>6, <1>7, <1>8, <1>9, Zenon DEF Next, vars

\* Only MemReg starts a pod, with the device of its call.
LEMMA PodsStart ==
    ASSUME TypeOK, [Next]_vars, NEW p \in Pods, pod'[p] # NoPod
    PROVE  \/ pod'[p] = pod[p]
           \/ \E s \in Servers : /\ call[s] # Idle /\ call'[s] = Idle
                                 /\ pod'[p].device = call[s].device
                                 /\ pod'[p].list = call[s].list
  <1>1. CASE UNCHANGED pod
    BY <1>1
  <1>2. ASSUME NEW s \in Servers, MemReg(s)
        PROVE  \/ pod'[p] = pod[p]
               \/ /\ call[s] # Idle /\ call'[s] = Idle
                  /\ pod'[p].device = call[s].device /\ pod'[p].list = call[s].list
    <2>1. call[s] # Idle /\ call'[s] = Idle
      BY <1>2 DEF MemReg, TypeOK, Idle
    <2> QED
      BY <1>2, <2>1 DEF MemReg, TypeOK
  <1>3. ASSUME NEW q \in Pods, PodEnds(q) PROVE pod'[p] = pod[p]
    BY <1>3, SMTT(30) DEF PodEnds, TypeOK
  <1>4. ASSUME ~ \E s \in Servers : MemReg(s), ~ \E q \in Pods : PodEnds(q)
        PROVE  UNCHANGED pod
    BY <1>4 DEF Next, vars, Replug, PutIfAbsent, Insert, Construct,
       Allocate, MapRace
  <1> QED
    BY <1>1, <1>2, <1>3, <1>4

\* Every step keeps the two.
LEMMA DeviceNext ==
    ASSUME TypeOK, CallInv, PodInv, [Next]_vars PROVE CallInv' /\ PodInv'
  <1>1. PodInv'
    <2> SUFFICES ASSUME NEW p \in Pods, pod'[p] # NoPod
                 PROVE  pod'[p].device.nic \in Interfaces(pod'[p].list)
      BY DEF PodInv
    <2> QED
      BY PodsStart DEF CallInv, PodInv
  <1>2. CASE \E s \in Servers, p \in Pods, d \in Device, nics \in Listings :
                 Allocate(s, p, d, nics)
    <2>1. PICK s \in Servers, p \in Pods, d \in Device, nics \in Listings :
             Allocate(s, p, d, nics)
      BY <1>2
    <2>2. /\ pod' = pod
          /\ call'[s].device = d /\ call'[s].list = nics
          /\ d.server = s /\ d.nic \in Interfaces(nics)
          /\ \A q \in Pods : pod[q] # NoPod => pod[q].device # d
          /\ \A t \in Servers \ {s} : call'[t] = call[t]
      BY <2>1 DEF Allocate, TypeOK
    <2>3. ASSUME NEW t \in Servers, call'[t] # Idle
          PROVE  /\ call'[t].device.server = t
                 /\ call'[t].device.nic \in Interfaces(call'[t].list)
                 /\ \A q \in Pods : pod'[q] # NoPod => pod'[q].device # call'[t].device
      <3>1. CASE t = s
        BY <2>2, <3>1
      <3>2. CASE t # s
        BY <2>2, <2>3, <3>2 DEF CallInv
      <3> QED
        BY <3>1, <3>2
    <2> QED
      BY <1>1, <2>3 DEF CallInv
  <1>3. CASE ~ \E s \in Servers, p \in Pods, d \in Device, nics \in Listings :
                 Allocate(s, p, d, nics)
    <2> SUFFICES ASSUME NEW t \in Servers, call'[t] # Idle
                 PROVE  /\ call'[t].device.server = t
                        /\ call'[t].device.nic \in Interfaces(call'[t].list)
                        /\ \A p \in Pods : pod'[p] # NoPod =>
                                             pod'[p].device # call'[t].device
      BY <1>1 DEF CallInv
    <2>1. /\ call[t] # Idle
          /\ call'[t].device = call[t].device /\ call'[t].list = call[t].list
      BY <1>3, CallsGoOn DEF GoesOn
    <2>2. ASSUME NEW p \in Pods, pod'[p] # NoPod
          PROVE  pod'[p].device # call[t].device
      <3>1. CASE pod'[p] = pod[p]
        BY <2>1, <2>2, <3>1 DEF CallInv
      <3>2. ASSUME NEW s \in Servers, call[s] # Idle, call'[s] = Idle,
                   pod'[p].device = call[s].device
            PROVE  pod'[p].device # call[t].device
        BY <2>1, <3>2 DEF CallInv
      <3> QED
        BY <2>2, <3>1, <3>2, PodsStart
    <2> QED
      BY <2>1, <2>2 DEF CallInv
  <1> QED
    BY <1>2, <1>3

\* Only Construct touches a file, the one that its device is named after.
LEMMA FilesChange ==
    ASSUME TypeOK, [Next]_vars, NEW m \in Name, file'[m] # file[m]
    PROVE  \E s \in Servers : /\ call[s].pc = "find" /\ call'[s].pc # "find"
                              /\ NameOf(call[s].device, call[s].list) = m
  <1>1. ASSUME ~ \E s \in Servers : Construct(s) PROVE UNCHANGED file
    BY <1>1 DEF Next, vars, allocator, Replug, PutIfAbsent, Insert, MemReg,
       Allocate, PodEnds, MapRace
  <1>2. PICK s \in Servers : Construct(s)
    BY <1>1
  <1>3. call[s].pc = "find" /\ (TakeVi(s) \/ SpoilVi(s))
    BY <1>2 DEF Construct
  <1>4. call[s] \in Call
    BY <1>3, CallType
  <1>5. call'[s].pc # "find"
    <2>1. \/ call' = [call EXCEPT ![s].pc = "memreg"]
          \/ call' = [call EXCEPT ![s] = Idle]
      BY <1>3 DEF TakeVi, SpoilVi, Fail
    <2>2. call'[s] = [call[s] EXCEPT !.pc = "memreg"] \/ call'[s] = Idle
      BY <2>1 DEF TypeOK
    <2> QED
      BY <2>2, <1>4 DEF Call, Idle
  <1>6. NameOf(call[s].device, call[s].list) = m
    <2> DEFINE k == NameOf(call[s].device, call[s].list)
    <2>1. \E v : file' = [file EXCEPT ![k] = v]
      BY <1>3 DEF TakeVi, SpoilVi
    <2> HIDE DEF k
    <2>2. k = m
      BY <2>1 DEF TypeOK
    <2> QED
      BY <2>2 DEF k
  <1> QED
    BY <1>3, <1>5, <1>6

\* CallInv and PodInv hold in every state.
THEOREM DeviceInvariant == Spec => [](CallInv /\ PodInv)
  <1>1. Init => CallInv /\ PodInv
    BY DEF Init, CallInv, PodInv
  <1> QED
    BY <1>1, TypeCorrect, DeviceNext, PTL DEF Spec

\* The file of a running pod's virtual interface is changed, by a call that
\* succeeds or by one that fails, only by a call
\* that was given another list of interfaces, or for the same interface and
\* another resource.
THEOREM PodsKeepTheirVi == Spec => ViIsKept
  <1> DEFINE Kept ==
        \A p \in Pods : pod[p] # NoPod =>
          LET m == NameOf(pod[p].device, pod[p].list)
          IN file'[m] # file[m] =>
               \E s \in Servers :
                  /\ call[s].pc = "find" /\ call'[s].pc # "find"
                  /\ \/ call[s].list # pod[p].list
                     \/ /\ call[s].device.nic = pod[p].device.nic
                        /\ s # pod[p].device.server
  <1>1. ASSUME TypeOK, CallInv, PodInv, [Next]_vars PROVE Kept
    <2> SUFFICES ASSUME NEW p \in Pods, pod[p] # NoPod,
                        file'[NameOf(pod[p].device, pod[p].list)] #
                          file[NameOf(pod[p].device, pod[p].list)]
                 PROVE  \E s \in Servers :
                           /\ call[s].pc = "find" /\ call'[s].pc # "find"
                           /\ \/ call[s].list # pod[p].list
                              \/ /\ call[s].device.nic = pod[p].device.nic
                                 /\ s # pod[p].device.server
      BY Zenon
    <2>1. /\ pod[p].device \in Device /\ pod[p].list \in Listings
          /\ pod[p].device.nic \in Interfaces(pod[p].list)
      BY <1>1 DEF TypeOK, Running, PodInv
    <2>2. PICK s \in Servers :
             /\ call[s].pc = "find" /\ call'[s].pc # "find"
             /\ NameOf(call[s].device, call[s].list) =
                  NameOf(pod[p].device, pod[p].list)
      BY <1>1, <2>1, NameType, FilesChange
    <2>3. call[s] \in Call /\ call[s] # Idle
      BY <1>1, <2>2, CallType DEF Idle
    <2>4. /\ call[s].device \in Device /\ call[s].list \in Listings
          /\ call[s].device.server = s
          /\ call[s].device.nic \in Interfaces(call[s].list)
          /\ pod[p].device # call[s].device
      BY <1>1, <2>3 DEF Call, CallInv
    <2>5. CASE call[s].list # pod[p].list
      BY <2>2, <2>5
    <2>6. CASE call[s].list = pod[p].list
      <3>1. /\ call[s].device.nic = pod[p].device.nic
            /\ call[s].device.number = pod[p].device.number
        BY <2>1, <2>2, <2>4, <2>6, NamesTellNicsApart
      <3>2. s # pod[p].device.server
        BY <2>1, <2>4, <3>1 DEF Device
      <3> QED
        BY <2>2, <3>1, <3>2
    <2> QED
      BY <2>5, <2>6
  <1>2. ASSUME TypeOK, CallInv, PodInv, [Next]_vars PROVE [Kept]_vars
    BY <1>1, <1>2
  <1>3. [][Kept]_vars => ViIsKept
    BY DEF ViIsKept
  <1> HIDE DEF Kept
  <1> QED
    BY <1>2, <1>3, TypeCorrect, DeviceInvariant, PTL DEF Spec

=============================================================================
