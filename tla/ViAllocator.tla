---------------------------- MODULE ViAllocator ----------------------------
(***************************************************************************)
(* Virtual interfaces for pods: the names RefreshDevices gives to devices  *)
(* (vsfc_server.go), TryAllocate of memVSfcPluginServer, and the           *)
(* efvi_allocator process it calls (efvi_allocator.cpp, util.cpp).         *)
(*                                                                         *)
(* Every memVSfcPluginServer calls the allocator under its own mutex, so   *)
(* the threads of the gRPC service serve at most one call of each; the     *)
(* allocator itself has no lock.                                           *)
(***************************************************************************)
EXTENDS Naturals, FiniteSets, Sequences

CONSTANTS
    Nics,        \* the sfc interfaces, by their names
    MaxIndex,    \* bound on the interface indexes the kernel gives out
    vNicPerNic,  \* devices per interface
    Servers,     \* the resources served by a memVSfcPluginServer
    Assigned,    \* nic.conf: which interfaces a resource has
    Pods,
    ViPool,      \* virtual interfaces the adapter can give out per index
    PdPool,      \* protection domains it can give out per index
    NoPod, NoVi

ASSUME AllocatorAssumption ==
    /\ IsFiniteSet(Nics) /\ MaxIndex \in Nat /\ MaxIndex >= Cardinality(Nics)
    /\ vNicPerNic \in 1..9 /\ ViPool \in Nat /\ PdPool \in Nat
    /\ Assigned \subseteq Servers \X Nics
    /\ NoPod \notin Pods

Device == [server : Servers, nic : Nics, number : 1..vNicPerNic]

\* The name "vi<index><number>", where number has one digit.
Name == (0..Cardinality(Nics)) \X (1..vNicPerNic)

\* What net.Interfaces may return: some interfaces, each once, in an order that
\* changes as interfaces go and come back.
Listings ==
    UNION {{q \in [1..k -> Nics] : \A i, j \in 1..k : q[i] = q[j] => i = j} :
             k \in 0..Cardinality(Nics)}

VARIABLES
    index,    \* the index of each interface, 0 while it is not on the node
    last,     \* the last index the kernel gave out
    call,     \* per server, the Allocate under way
    opened,   \* opened_handles: the indexes with a protection domain
    domains,  \* how many protection domains were allocated per index
    taken,    \* how many virtual interfaces were allocated per index
    file,     \* /dev/shm/<name>: the virtual interface described there
    pod,      \* per pod, the device it runs with
    alive,    \* the allocator process
    raced     \* history: two threads were in opened_handles, one to insert

node      == <<index, last>>
allocator == <<opened, domains, taken, file, alive, raced>>
vars      == <<node, call, allocator, pod>>

Idle == [pc |-> "idle"]

Call == [pc : {"put", "insert", "find", "memreg"}, pod : Pods, device : Device,
         list : Listings, ifindex : 0..MaxIndex]
Running == [device : Device, list : Listings]

\* A description of a virtual interface; not whole: with a count of queues
\* (vi_qs_n) that is too small.
Vi == [ifindex : 0..MaxIndex, number : 1..ViPool, whole : BOOLEAN]

TypeOK ==
    /\ index \in [Nics -> 0..MaxIndex] /\ last \in 0..MaxIndex
    /\ call \in [Servers -> Call \cup {Idle}]
    /\ opened \subseteq 0..MaxIndex /\ domains \in [0..MaxIndex -> 0..PdPool]
    /\ taken \in [0..MaxIndex -> 0..ViPool]
    /\ file \in [Name -> Vi \cup {NoVi}]
    /\ pod \in [Pods -> Running \cup {NoPod}]
    /\ alive \in BOOLEAN /\ raced \in BOOLEAN

Init ==
    /\ last \in 0..Cardinality(Nics)
    /\ index \in {f \in [Nics -> 0..last] : \A i \in 1..last : \E n \in Nics : f[n] = i}
    /\ \A m, n \in Nics : index[m] = index[n] => index[m] = 0 \/ m = n
    /\ call = [s \in Servers |-> Idle]
    /\ opened = {} /\ domains = [i \in 0..MaxIndex |-> 0]
    /\ taken = [i \in 0..MaxIndex |-> 0]
    /\ file = [m \in Name |-> NoVi]
    /\ pod = [p \in Pods |-> NoPod]
    /\ alive = TRUE /\ raced = FALSE

-----------------------------------------------------------------------------
(* The plugin                                                              *)

\* An interface goes away, or comes back with an index that is new.
Replug(n) ==
    /\ IF index[n] # 0
         THEN index' = [index EXCEPT ![n] = 0] /\ UNCHANGED last
         ELSE /\ last < MaxIndex
              /\ last' = last + 1 /\ index' = [index EXCEPT ![n] = last + 1]
    /\ UNCHANGED <<call, allocator, pod>>

Interfaces(nics) == {nics[i] : i \in DOMAIN nics}

\* Variant: only the interfaces of the resource are counted.
NameOfAssigned(d, nics) ==
    LET at == CHOOSE i \in DOMAIN nics : nics[i] = d.nic
    IN <<Cardinality({i \in 1..at : <<d.server, nics[i]>> \in Assigned}) - 1, d.number>>

\* device.Name: the position of the interface among all that were found,
\* and the number of the device.
NameOf(d, nics) ==
    <<(CHOOSE i \in DOMAIN nics : nics[i] = d.nic) - 1, d.number>>

\* The kubelet gives a device that no other pod has to a pod, and calls
\* Allocate; TryAllocate finds the device in the map.  The map goes back to some
\* listing, which may differ from what is plugged in now: refreshDevices puts in
\* what it found earlier, and waits for the mutex while a call is under way.
Allocate(s, p, d, nics) ==
    /\ alive /\ call[s] = Idle /\ pod[p] = NoPod
    /\ \A t \in Servers : call[t] # Idle => call[t].pod # p
    /\ d.server = s /\ d.nic \in Interfaces(nics) /\ <<s, d.nic>> \in Assigned
    /\ \A q \in Pods : pod[q] # NoPod => pod[q].device # d
    /\ call' = [call EXCEPT ![s] = [pc |-> "put", pod |-> p, device |-> d,
                                    list |-> nics, ifindex |-> 0]]
    /\ UNCHANGED <<node, allocator, pod>>

\* ApplyVirtualDevice and with it Allocate return an error.
Fail(s) == call' = [call EXCEPT ![s] = Idle]

PodEnds(p) ==
    /\ pod[p] # NoPod
    /\ pod' = [pod EXCEPT ![p] = NoPod]
    /\ UNCHANGED <<node, call, allocator>>

-----------------------------------------------------------------------------
(* The allocator: ApplyVirtualDevice                                       *)

\* Another thread uses opened_handles, or is about to.
Racing(s) == \E t \in Servers \ {s} : call[t].pc \in {"put", "insert", "find"}

\* ef_pd_alloc
NewDomain(s, i) ==
    /\ domains[i] < PdPool
    /\ domains' = [domains EXCEPT ![i] = @ + 1]
    /\ call' = [call EXCEPT ![s].pc = "insert", ![s].ifindex = i]
    /\ raced' = (raced \/ Racing(s))

\* Variant: opened_handles is not consulted.
PutIfAbsentAlways(s) ==
    /\ call[s].pc = "put"
    /\ LET i == index[call[s].device.nic]
       IN \/ Fail(s) /\ UNCHANGED <<domains, raced>>
          \/ i # 0 /\ NewDomain(s, i)
    /\ UNCHANGED <<node, opened, taken, file, alive, pod>>

\* parse_interface, and put_if_absent up to ef_pd_alloc, which may fail.
PutIfAbsent(s) ==
    /\ call[s].pc = "put"
    /\ LET i == index[call[s].device.nic]
       IN \/ /\ i = 0 \/ i \notin opened
             /\ Fail(s) /\ UNCHANGED <<domains, raced>>
          \/ /\ i # 0 /\ i \in opened
             /\ call' = [call EXCEPT ![s].pc = "find", ![s].ifindex = i]
             /\ UNCHANGED <<domains, raced>>
          \/ i # 0 /\ i \notin opened /\ NewDomain(s, i)
    /\ UNCHANGED <<node, opened, taken, file, alive, pod>>

\* opened_handles[ifindex] = lc_handle; the entry may get lost in a race.
Insert(s) ==
    /\ call[s].pc = "insert"
    /\ \/ opened' = opened \union {call[s].ifindex}
       \/ Racing(s) /\ UNCHANGED opened
    /\ call' = [call EXCEPT ![s].pc = "find"]
    /\ raced' = (raced \/ Racing(s))
    /\ UNCHANGED <<node, domains, taken, file, alive, pod>>

\* The driver has a virtual interface left for the protection domain, whose
\* interface is still there.
CanTake(s) ==
    /\ call[s].ifindex = index[call[s].device.nic]
    /\ taken[call[s].ifindex] < ViPool

Take(s) == taken' = [taken EXCEPT ![call[s].ifindex] = @ + 1]

\* alloc_shm_resource maps the file, made now or found there, and
\* ef_vi_alloc_from_pd describes a new virtual interface in it.
TakeVi(s) ==
    /\ Take(s)
    /\ file' = [file EXCEPT ![NameOf(call[s].device, call[s].list)] =
                  [ifindex |-> call[s].ifindex, number |-> taken'[call[s].ifindex],
                   whole |-> TRUE]]
    /\ call' = [call EXCEPT ![s].pc = "memreg"]

\* ef_vi_alloc_from_pd fails: its last act is to count down vi_qs_n of the
\* ef_vi it was given, which is the one in the file.  It gives nothing back: if
\* it was a mapping that failed, the virtual interface stays allocated.
SpoilVi(s) ==
    /\ UNCHANGED taken \/ (CanTake(s) /\ Take(s))
    /\ file' = [file EXCEPT ![NameOf(call[s].device, call[s].list)] =
                  IF @ = NoVi THEN @ ELSE [@ EXCEPT !.whole = FALSE]]
    /\ Fail(s)

\* Variant: the result of ef_vi_alloc_from_pd is not tested.
ConstructUnchecked(s) ==
    /\ call[s].pc = "find"
    /\ \/ call[s].ifindex \in opened /\ TakeVi(s)
       \/ Fail(s) /\ UNCHANGED <<taken, file>>
    /\ UNCHANGED <<node, opened, domains, alive, raced, pod>>

\* alloc_virtual_interface copies the handle, whose vis are therefore always
\* empty, and constructs a VirtualInterface: the file of that name is created
\* or opened, and a new virtual interface is described in it.  Each of these
\* steps may fail.
Construct(s) ==
    /\ call[s].pc = "find"
    /\ \/ call[s].ifindex \in opened /\ CanTake(s) /\ TakeVi(s)
       \/ call[s].ifindex \in opened /\ SpoilVi(s)
       \/ Fail(s) /\ UNCHANGED <<taken, file>>
    /\ UNCHANGED <<node, opened, domains, alive, raced, pod>>

\* The queue is allocated and registered, and the pod is started, or an error
\* is returned; the destructor releases nothing.
MemReg(s) ==
    /\ call[s].pc = "memreg"
    /\ \/ pod' = [pod EXCEPT ![call[s].pod] =
                    [device |-> call[s].device, list |-> call[s].list]]
       \/ UNCHANGED pod
    /\ call' = [call EXCEPT ![s] = Idle]
    /\ UNCHANGED <<node, allocator>>

\* One thread inserts into opened_handles while another one uses it; the
\* process may die, which ends the calls, and nobody starts it again.  The
\* driver keeps what it allocated: its table of resources outlives the process.
MapRace ==
    /\ \E s \in Servers : call[s].pc = "insert" /\ Racing(s)
    /\ raced' = TRUE
    /\ alive' = FALSE /\ opened' = {}
    /\ call' = [s \in Servers |-> Idle]
    /\ UNCHANGED <<node, domains, taken, file, pod>>

-----------------------------------------------------------------------------
Next ==
    \/ \E n \in Nics : Replug(n)
    \/ \E s \in Servers : PutIfAbsent(s) \/ Insert(s) \/ Construct(s) \/ MemReg(s)
    \/ \E s \in Servers, p \in Pods, d \in Device, nics \in Listings :
          Allocate(s, p, d, nics)
    \/ \E p \in Pods : PodEnds(p)
    \/ MapRace

Spec == Init /\ [][Next]_vars

-----------------------------------------------------------------------------
(* Properties                                                              *)

\* The file that describes a running pod's virtual interface is changed, by a
\* call that succeeds or by one that fails, only if the call's device was named
\* after another list of interfaces, or is the device with the same number that
\* another resource has on the same interface: with a fixed list, device.Name
\* tells all interfaces apart.
ViIsKept ==
    [][\A p \in Pods : pod[p] # NoPod =>
          LET m == NameOf(pod[p].device, pod[p].list)
          IN file'[m] # file[m] =>
               \E s \in Servers :
                  /\ call[s].pc = "find" /\ call'[s].pc # "find"
                  /\ \/ call[s].list # pod[p].list
                     \/ /\ call[s].device.nic = pod[p].device.nic
                        /\ s # pod[p].device.server]_vars

\* put_if_absent tests and inserts without a lock. It is the mutex each server
\* holds in Allocate that keeps the interface behind an index from getting a
\* second protection domain, however many pods and interfaces come and go: it
\* takes overlapping calls of two servers to get one.
OneDomainPerIndex == ~raced => \A i \in 0..MaxIndex : domains[i] <= 1

=============================================================================
