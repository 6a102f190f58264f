---------------------------- MODULE DeviceServer ----------------------------
(***************************************************************************)
(* The device-plugin gRPC server of one resource (server.go and            *)
(* vsfc_server.go) with the annotation it keeps in the resource's          *)
(* NetworkAttachmentDefinition (storage.go).                               *)
(*                                                                         *)
(* Every ListAndWatch call of the kubelet is a handler goroutine that      *)
(* refreshes the shared devices map every deviceCheckInterval and sends    *)
(* the list when it sees a change.  A handler never looks at the context   *)
(* of its stream: when the kubelet restarts and calls again, the handler   *)
(* of the old stream goes on until one of its sends fails.                 *)
(***************************************************************************)
EXTENDS Naturals, Sequences, FiniteSets

CONSTANTS
    Nics,         \* the sfc interfaces
    vNicPerNic,   \* devices per interface
    Handlers,     \* ListAndWatch goroutines that can exist at a time
    Mem,          \* the resource is served by a memVSfcPluginServer
    OtherWriters, \* others write the net-attach-def: plugins of other nodes
    NoStream

\* A device ID is the hash of interface, resource and number.
DevicesOf(nic) == {nic} \X (1..vNicPerNic)
Devices == Nics \X (1..vNicPerNic)

ASSUME DeviceAssumption ==
    /\ IsFiniteSet(Nics)
    /\ vNicPerNic \in Nat \ {0}
    /\ Mem \in BOOLEAN /\ OtherWriters \in BOOLEAN
    /\ NoStream \notin Handlers
    /\ Handlers \cap {"free", "allocate", "map", "view"} = {}

VARIABLES
    plugged,    \* interfaces on the node that use the sfc driver
    configured, \* interfaces nic.conf assigns to the resource
    nadExists,  \* the net-attach-def has been created
    nad,        \* this node's annotation in it: entries [name, ids]
    others,     \* which of two contents the annotations of other nodes have
    fresh,      \* handlers holding a copy of its current resourceVersion
    pc,         \* where each handler is
    todo,       \* the interfaces its RefreshDevices has yet to visit
    copy, seen, \* nad and others in the net-attach-def it got
    found,      \* devices it has collected
    old,        \* the map it replaced
    first,      \* handlers that have not sent their first list
    devices,    \* the shared map, as the set of its keys
    mu,         \* who holds the mutex
    allocator,  \* efvi_allocator is running
    stream,     \* the handler the kubelet is connected to
    view,       \* the devices the kubelet knows of
    outdated    \* history: the handlers, and whether the map and the view, go back
                \* to a refresh begun before the net-attach-def was last deleted

env      == <<plugged, configured>>
nadVars  == <<nadExists, nad, others, fresh>>
handler  == <<pc, todo, copy, seen, found, old, first>>
vars     == <<env, nadVars, handler, devices, mu, allocator, stream, view, outdated>>

Entry == [name : Nics, ids : SUBSET Devices]

TypeOK ==
    /\ plugged \subseteq Nics /\ configured \subseteq Nics
    /\ nadExists \in BOOLEAN
    /\ nad \in Seq(Entry) /\ others \in 0..1
    /\ fresh \subseteq Handlers
    /\ pc \in [Handlers -> {"none", "discover", "nic", "update", "swap",
                            "fill", "list", "sleep"}]
    /\ todo \in [Handlers -> Seq(Nics)]
    /\ copy \in [Handlers -> Seq(Entry)] /\ seen \in [Handlers -> 0..1]
    /\ found \in [Handlers -> SUBSET Devices]
    /\ old \in [Handlers -> SUBSET Devices]
    /\ first \subseteq Handlers
    /\ devices \subseteq Devices
    /\ mu \in Handlers \cup {"free", "allocate"}
    /\ allocator \in BOOLEAN
    /\ stream \in Handlers \cup {NoStream}
    /\ view \subseteq Devices
    /\ outdated \subseteq Handlers \cup {"map", "view"}

Init ==
    /\ plugged \in SUBSET Nics /\ configured \in SUBSET Nics
    /\ nadExists \in BOOLEAN /\ nad = <<>> /\ others = 0
    /\ pc = [h \in Handlers |-> "none"]
    /\ todo = [h \in Handlers |-> <<>>]
    /\ copy = [h \in Handlers |-> <<>>] /\ seen = [h \in Handlers |-> 0]
    /\ found = [h \in Handlers |-> {}]
    /\ old = [h \in Handlers |-> {}]
    /\ first = {} /\ fresh = {}
    /\ devices = {} /\ mu = "free" /\ allocator = TRUE
    /\ stream = NoStream /\ view = {} /\ outdated = {}

-----------------------------------------------------------------------------
(* The environment: interfaces come and go, nic.conf is edited, the        *)
(* net-attach-def is created (by the plugin's own watch or by an operator) *)
(* and deleted, and it is written by others.                               *)

Replug ==
    /\ plugged' \in SUBSET Nics \ {plugged}
    /\ UNCHANGED <<configured, nadVars, handler, devices, mu, allocator, stream, view, outdated>>

Reconfigure ==
    /\ configured' \in SUBSET Nics \ {configured}
    /\ UNCHANGED <<plugged, nadVars, handler, devices, mu, allocator, stream, view, outdated>>

CreateNad ==
    /\ ~nadExists
    /\ nadExists' = TRUE
    /\ UNCHANGED <<env, nad, others, fresh, handler, devices, mu, allocator, stream, view, outdated>>

\* Its entries go with it, and no copy of it can be written back.
DeleteNad ==
    /\ nadExists
    /\ nadExists' = FALSE /\ nad' = <<>> /\ others' = 0 /\ fresh' = {}
    /\ outdated' = Handlers \cup {"map", "view"}
    /\ UNCHANGED <<env, handler, devices, mu, allocator, stream, view>>

\* Another node writes its annotation, which bumps the resourceVersion.
OtherUpdate ==
    /\ OtherWriters /\ fresh # {}
    /\ others' = 1 - others
    /\ fresh' = {}
    /\ UNCHANGED <<env, nadExists, nad, handler, devices, mu, allocator, stream, view, outdated>>

\* The forked allocator, which only memVSfcPluginServer uses, dies; nothing
\* starts it again.
AllocatorDies ==
    /\ Mem /\ allocator
    /\ allocator' = FALSE
    /\ UNCHANGED <<env, nadVars, handler, devices, mu, stream, view, outdated>>

\* The plugin process dies, for one of a concurrent map access in List, and
\* its container is started again.  Only the net-attach-def survives.
Restart ==
    /\ pc' = [h \in Handlers |-> "none"]
    /\ todo' = [h \in Handlers |-> <<>>]
    /\ copy' = [h \in Handlers |-> <<>>] /\ seen' = [h \in Handlers |-> 0]
    /\ found' = [h \in Handlers |-> {}]
    /\ old' = [h \in Handlers |-> {}]
    /\ first' = {} /\ fresh' = {}
    /\ devices' = {} /\ mu' = "free" /\ allocator' = TRUE
    /\ stream' = NoStream /\ view' = {} /\ outdated' = {}
    /\ UNCHANGED <<env, nadExists, nad, others>>

\* The kubelet, started anew, calls ListAndWatch.  The handler of an earlier
\* stream, if it is still there, is not told.
Connect(h) ==
    /\ pc[h] = "none"
    /\ stream' = h /\ view' = {}
    /\ pc' = [pc EXCEPT ![h] = "discover"]
    /\ first' = first \cup {h}
    /\ UNCHANGED <<env, nadVars, todo, copy, seen, found, old, devices, mu, allocator, outdated>>

-----------------------------------------------------------------------------
(* RefreshDevices of vsfc_server.go and AddDeviceIDs of storage.go         *)

\* net.Interfaces lists every interface once, in an order that changes as
\* interfaces go and come back.
Listings(S) ==
    {q \in [1..Cardinality(S) -> S] : \A i, j \in DOMAIN q : q[i] = q[j] => i = j}

\* Variant: the interfaces are looked up for the first list only.
DiscoverOnce(h) ==
    /\ pc[h] = "discover"
    /\ \E q \in Listings(IF h \in first THEN plugged ELSE {d[1] : d \in devices}) :
          todo' = [todo EXCEPT ![h] = q]
    /\ found' = [found EXCEPT ![h] = {}]
    /\ pc' = [pc EXCEPT ![h] = "nic"]
    /\ outdated' = outdated \ {h}
    /\ UNCHANGED <<env, nadVars, copy, seen, old, first, devices, mu, allocator, stream, view>>

\* FindSolarflareInterfaces
Discover(h) ==
    /\ pc[h] = "discover"
    /\ \E q \in Listings(plugged) : todo' = [todo EXCEPT ![h] = q]
    /\ found' = [found EXCEPT ![h] = {}]
    /\ pc' = [pc EXCEPT ![h] = "nic"]
    /\ outdated' = outdated \ {h}
    /\ UNCHANGED <<env, nadVars, copy, seen, old, first, devices, mu, allocator, stream, view>>

\* The handler returns: its stream, if it is the kubelet's, ends, and the
\* kubelet no longer counts on the devices.
Return(h) ==
    /\ pc' = [pc EXCEPT ![h] = "none"]
    /\ todo' = [todo EXCEPT ![h] = <<>>]
    /\ copy' = [copy EXCEPT ![h] = <<>>] /\ seen' = [seen EXCEPT ![h] = 0]
    /\ found' = [found EXCEPT ![h] = {}]
    /\ first' = first \ {h}
    /\ stream' = IF stream = h THEN NoStream ELSE stream
    /\ view' = IF stream = h THEN {} ELSE view

\* Variant: memVSfcPluginServer keeps the devices collected before the error.
RefreshFailsKeepingDevices(h) ==
    IF Mem
      THEN /\ pc' = [pc EXCEPT ![h] = "swap"]
           /\ todo' = [todo EXCEPT ![h] = <<>>]
           /\ copy' = [copy EXCEPT ![h] = <<>>] /\ seen' = [seen EXCEPT ![h] = 0]
           /\ found' = found
           /\ UNCHANGED <<first, stream, view>>
      ELSE Return(h)

\* AddDeviceIDs returns an error.  vSfcPluginServer passes it on and
\* ListAndWatch returns; memVSfcPluginServer goes on with no devices.
RefreshFails(h) ==
    IF Mem
      THEN /\ pc' = [pc EXCEPT ![h] = "swap"]
           /\ todo' = [todo EXCEPT ![h] = <<>>]
           /\ copy' = [copy EXCEPT ![h] = <<>>] /\ seen' = [seen EXCEPT ![h] = 0]
           /\ found' = [found EXCEPT ![h] = {}]
           /\ UNCHANGED <<first, stream, view>>
      ELSE Return(h)

SkipNic(h) ==
    /\ pc[h] = "nic" /\ todo[h] # <<>> /\ Head(todo[h]) \notin configured
    /\ todo' = [todo EXCEPT ![h] = Tail(@)]
    /\ UNCHANGED <<env, nadVars, pc, copy, seen, found, old, first, devices, mu, allocator,
                   stream, view, outdated>>

\* The devices of a configured interface, and the Get of AddDeviceIDs.
GetNad(h) ==
    /\ pc[h] = "nic" /\ todo[h] # <<>> /\ Head(todo[h]) \in configured
    /\ IF nadExists
         THEN /\ copy' = [copy EXCEPT ![h] = nad] /\ seen' = [seen EXCEPT ![h] = others]
              /\ fresh' = fresh \cup {h}
              /\ found' = [found EXCEPT ![h] = @ \cup DevicesOf(Head(todo[h]))]
              /\ pc' = [pc EXCEPT ![h] = "update"]
              /\ UNCHANGED <<todo, first, stream, view>>
         ELSE RefreshFails(h) /\ UNCHANGED fresh
    /\ UNCHANGED <<env, nadExists, nad, others, old, devices, mu, allocator, outdated>>

\* Variant: the interface's name is recorded in place of its IDs.
AddDeviceIeIDsNameOnly(annot, nic, ids) ==
    IF \E i \in DOMAIN annot : annot[i].name = nic
      THEN annot
      ELSE Append(annot, [name |-> nic, ids |-> {nic}])

\* addDeviceIeIDs: a known interface keeps the IDs it was added with, since
\* updateTargetDevice assigns to a copy; the IDs of a new one are those of
\* all interfaces collected so far.
AddDeviceIeIDs(annot, nic, ids) ==
    IF \E i \in DOMAIN annot : annot[i].name = nic
      THEN annot
      ELSE Append(annot, [name |-> nic, ids |-> ids])

\* The copy with the interface added to it replaces the net-attach-def.
WriteBack(h) ==
    /\ nad' = AddDeviceIeIDs(copy[h], Head(todo[h]), found[h])
    /\ others' = seen[h]
    /\ fresh' = IF nad' = nad THEN fresh \ {h} ELSE {}
    /\ copy' = [copy EXCEPT ![h] = <<>>] /\ seen' = [seen EXCEPT ![h] = 0]
    /\ todo' = [todo EXCEPT ![h] = Tail(@)]
    /\ pc' = [pc EXCEPT ![h] = "nic"]
    /\ UNCHANGED <<found, first, stream, view>>

\* Variant: the error of Update is dropped.
UpdateNadIgnoringError(h) ==
    /\ pc[h] = "update"
    /\ IF h \in fresh
         THEN WriteBack(h)
         ELSE /\ copy' = [copy EXCEPT ![h] = <<>>] /\ seen' = [seen EXCEPT ![h] = 0]
              /\ todo' = [todo EXCEPT ![h] = Tail(@)]
              /\ pc' = [pc EXCEPT ![h] = "nic"]
              /\ UNCHANGED <<nad, others, fresh, found, first, stream, view>>
    /\ UNCHANGED <<env, nadExists, old, devices, mu, allocator, outdated>>

\* Variant: the object is written whatever has become of it since the Get.
UpdateNadUnconditionally(h) ==
    /\ pc[h] = "update"
    /\ IF nadExists THEN WriteBack(h) ELSE RefreshFails(h) /\ UNCHANGED <<nad, others, fresh>>
    /\ UNCHANGED <<env, nadExists, old, devices, mu, allocator, outdated>>

\* The Update of AddDeviceIDs; a stale resourceVersion is a conflict.
UpdateNad(h) ==
    /\ pc[h] = "update"
    /\ IF h \in fresh THEN WriteBack(h) ELSE RefreshFails(h) /\ UNCHANGED <<nad, others, fresh>>
    /\ UNCHANGED <<env, nadExists, old, devices, mu, allocator, outdated>>

Refreshed(h) ==
    /\ pc[h] = "nic" /\ todo[h] = <<>>
    /\ pc' = [pc EXCEPT ![h] = "swap"]
    /\ UNCHANGED <<env, nadVars, todo, copy, seen, found, old, first, devices, mu, allocator,
                   stream, view, outdated>>

-----------------------------------------------------------------------------
(* refreshDevices and ListAndWatch of server.go                            *)

\* The lock is taken and the map replaced by an empty one.
Swap(h) ==
    /\ pc[h] = "swap" /\ mu = "free"
    /\ mu' = h
    /\ old' = [old EXCEPT ![h] = devices]
    /\ devices' = {}
    /\ pc' = [pc EXCEPT ![h] = "fill"]
    /\ outdated' = IF h \in outdated THEN outdated \cup {"map"} ELSE outdated \ {"map"}
    /\ UNCHANGED <<env, nadVars, todo, copy, seen, found, first, allocator, stream, view>>

Fill(h) ==
    /\ pc[h] = "fill"
    /\ \E d \in found[h] \ devices : devices' = devices \cup {d}
    /\ UNCHANGED <<env, nadVars, handler, mu, allocator, stream, view, outdated>>

\* Variant: only devices that were added count as a change.
FilledAddedOnly(h) ==
    /\ pc[h] = "fill" /\ devices = found[h]
    /\ mu' = "free"
    /\ pc' = [pc EXCEPT ![h] = IF h \in first \/ ~(devices \subseteq old[h])
                                 THEN "list" ELSE "sleep"]
    /\ found' = [found EXCEPT ![h] = {}]
    /\ old' = [old EXCEPT ![h] = {}]
    /\ UNCHANGED <<env, nadVars, todo, copy, seen, first, devices, allocator, stream, view, outdated>>

\* The comparison with the old map decides whether the list is sent; the
\* first list is sent in any case.
Filled(h) ==
    /\ pc[h] = "fill" /\ devices = found[h]
    /\ mu' = "free"
    /\ pc' = [pc EXCEPT ![h] = IF h \in first \/ devices # old[h]
                                 THEN "list" ELSE "sleep"]
    /\ found' = [found EXCEPT ![h] = {}]
    /\ old' = [old EXCEPT ![h] = {}]
    /\ UNCHANGED <<env, nadVars, todo, copy, seen, first, devices, allocator, stream, view, outdated>>

\* ListAndWatch ranges over the map without the lock.  If another handler is
\* filling it, the list is any part of what is inserted meanwhile (or the
\* process dies: Restart).  A send on a stream the kubelet left fails.
List(h) ==
    /\ pc[h] = "list"
    /\ IF stream = h
         THEN /\ \/ view' = devices
                 \/ \E g \in Handlers \ {h} :
                       /\ pc[g] = "fill"
                       /\ view' \in SUBSET found[g]
              /\ pc' = [pc EXCEPT ![h] = "sleep"]
              /\ first' = first \ {h}
              /\ outdated' = IF "map" \in outdated THEN outdated \cup {"view"}
                                                  ELSE outdated \ {"view"}
              /\ UNCHANGED <<todo, copy, seen, found, stream>>
         ELSE Return(h) /\ UNCHANGED outdated
    /\ UNCHANGED <<env, nadVars, old, devices, mu, allocator>>

\* time.After(deviceCheckInterval)
Wake(h) ==
    /\ pc[h] = "sleep"
    /\ pc' = [pc EXCEPT ![h] = "discover"]
    /\ UNCHANGED <<env, nadVars, todo, copy, seen, found, old, first, devices, mu, allocator,
                   stream, view, outdated>>

-----------------------------------------------------------------------------
(* Allocate of server.go, for a device the kubelet knows of                *)

\* Variant: the map is looked up without waiting for the lock.
AllocateUnlocked ==
    /\ mu # "allocate" /\ view # {}
    /\ mu' = "allocate"
    /\ UNCHANGED <<env, nadVars, handler, devices, allocator, stream, view, outdated>>

Allocate ==
    /\ mu = "free" /\ view # {}
    /\ mu' = "allocate"
    /\ UNCHANGED <<env, nadVars, handler, devices, allocator, stream, view, outdated>>

\* TryAllocate returns.  That of memVSfcPluginServer dials the allocator with
\* WithBlock and no deadline.
Allocated ==
    /\ mu = "allocate"
    /\ Mem => allocator
    /\ mu' = "free"
    /\ UNCHANGED <<env, nadVars, handler, devices, allocator, stream, view, outdated>>

-----------------------------------------------------------------------------
HandlerStep(h) ==
    \/ Discover(h) \/ SkipNic(h) \/ GetNad(h) \/ UpdateNad(h) \/ Refreshed(h)
    \/ Swap(h) \/ Fill(h) \/ Filled(h) \/ List(h) \/ Wake(h)

Next ==
    \/ Replug \/ Reconfigure \/ CreateNad \/ DeleteNad \/ OtherUpdate
    \/ AllocatorDies \/ Restart
    \/ \E h \in Handlers : Connect(h) \/ HandlerStep(h)
    \/ Allocate \/ Allocated

Spec == Init /\ [][Next]_vars

\* Handlers are scheduled, a running allocator answers, and the mutex is not
\* handed past a waiting handler for ever (Go's mutexes guarantee that).
Fairness ==
    /\ \A h \in Handlers : WF_vars(HandlerStep(h)) /\ SF_vars(Swap(h))
    /\ WF_vars(Allocated)

FairSpec == Spec /\ Fairness

-----------------------------------------------------------------------------
(* Properties                                                              *)

\* The kubelet's list is the server's map whenever the kubelet's handler is
\* between two refreshes, so that Allocate knows each device it is asked for.
ViewMatchesDevices ==
    \A h \in Handlers : stream = h /\ pc[h] = "sleep" => view = devices

IsRecorded(d) == \E i \in DOMAIN nad : nad[i].name = d[1] /\ d \in nad[i].ids

\* RefreshDevices records a device before it reports it: each device that the
\* server or the kubelet knows of is listed in the net-attach-def under its
\* own interface, whatever conflicts, crashes and reconnections there were.
\* Deleting the net-attach-def breaks this, until the next refresh repairs it.
ReportedIsRecorded ==
    /\ "map" \notin outdated => \A d \in devices : IsRecorded(d)
    /\ "view" \notin outdated => \A d \in view : IsRecorded(d)

\* AddDeviceIDs writes back the whole object it read, while other handlers and
\* the plugins of other nodes write theirs: no such write is undone by it.
EntriesAreKept ==
    [][nadExists' => /\ \A i \in DOMAIN nad : i \in DOMAIN nad' /\ nad'[i] = nad[i]
                     /\ others' # others => OtherUpdate]_vars

\* Allocate, which holds the mutex, never looks up a map that is half filled:
\* it has all the devices of an interface or none.
AllocateSeesWholeMap ==
    mu = "allocate" => \A n \in Nics : \/ DevicesOf(n) \subseteq devices
                                       \/ DevicesOf(n) \cap devices = {}

\* "Whenever a Device state change or a Device disappears, ListAndWatch returns
\* the new list": when the interfaces stay as they are, the kubelet stays on
\* its stream and the allocator runs, the kubelet has the new list in the end,
\* unless others get in between the Get and the Update again and again.
ChangesAreReported ==
    \/ []<><<OtherUpdate>>_vars
    \/ <>[](stream # NoStream /\ allocator /\ nadExists) /\ <>[][UNCHANGED <<env, stream>>]_vars
         => <>[](view = UNION {DevicesOf(n) : n \in plugged \cap configured})

=============================================================================
