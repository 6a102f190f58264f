# sfc-virtual-device-plugin: TLA+ models, checks and proofs

The repository shares Solarflare network interfaces among the pods of a
Kubernetes node. This directory holds TLA+ models of its concurrent parts, the
TLC configurations that check them on small instances, and TLAPS proofs of the
main safety properties for instances of any size.

## The system

| part | source | what it does | modelled in |
|---|---|---|---|
| configuration scanner | `plugin/config` | reads `nic.conf` every ten seconds, stores it under a lock, notifies one subscriber | `ConfigSync` |
| plugin registry | `plugin/deviceplugin/registry` | lets resources of the configuration inherit a constructor, passes the event on | `ConfigSync` |
| plugin manager | `plugin/deviceplugin/manager`, `plugin/main.go` | builds and runs one plugin per resource | `ConfigSync` |
| device plugin server | `server.go`, `vsfc_server.go`, `plugin/util` | discovers interfaces, streams device lists to the kubelet, answers Allocate | `DeviceServer` |
| net-attach-def storage | `plugin/resource`, `plugin/client` | records device IDs per interface in an annotation of an API object | `DeviceServer` |
| CNI plugin | `cni` | attaches a sandbox to the interface of its device by a macvlan link | `MacvlanCni` |
| plugin lifecycle | `plugin.go`, `vsfc_plugin.go` | serves, registers, watches its socket, starts over | `PluginLifecycle` |
| efvi allocator | `lib/efvi_allocator.*`, `util/util.cpp` | allocates virtual interfaces in shared memory | `ViAllocator` |
| efvi client socket | `include/`, `lib/efvi_rx.hpp`, `lib/efvi_tx.hpp` | maps a virtual interface, installs a filter, posts and receives buffers | planned |
| kubeconfig generation, samples, utilities | `cmd`, `samples`, `util` | sequential file and packet helpers | not modelled |
| Onload stack locks | `contrib/onload-*`: `eplock.h`, `eplock_slow.c`, `eplock_resource_manager.c`, `tcp_helper_resource.c`, `tcp_helper_sleep.c`, `netif.c` | the two locks of a stack shared by applications and the kernel, and the work left to their holders | `StackLock`, `Lock` |
| the rest of OpenOnload | `contrib` | protocols, filters, drivers, ef_vi | not modelled; environment of `ViAllocator` and `StackLock` |
| Kubernetes and CNI libraries | `plugin/vendor` | third-party | environment |

They interact as follows. `nic.conf` determines, through scanner, registry and
manager, which plugins run. A plugin's server reports devices to the kubelet and
records them in the net-attach-def. The kubelet gives a device to a pod; the CNI
plugin finds the device's ID in the net-attach-def and creates the link on the
interface named there. `DeviceServer` takes the configured interfaces as an
input that changes at any time, which is what `ConfigSync` makes of them, and
`MacvlanCni` takes the annotation as `DeviceServer` writes it. `PluginLifecycle` is
the frame in which the handlers of `DeviceServer` live, and `ViAllocator` what its
`Allocate` calls for `memVSfcPluginServer`. `StackLock` stands by itself: the plugin
gives pods the adapter that Onload drives, and an accelerated application in a pod
shares its stack with the kernel through these locks.

By lines of source almost all of the repository is the bundled Onload and the
vendored Go libraries, so the models cover a small share of it. The repository's own
concurrent code is covered but for the client socket; of Onload, the locking.

## ConfigSync

One module for the pipeline, since what can go wrong is in the hand-over between
its three goroutines.

* State: `file` is `nic.conf`; `conf` and `sum` the fields of `instance`;
  `scanner`, `main`, `reg` and `mgr` say where the four goroutines are;
  `regConf`/`regAt` and `mgrConf`/`mgrAt` are the slices the two loops range over;
  `registry`, `plugins`, `launched` and `starting` are `ResourceRegistry`,
  `mgr.plugins` and the goroutines of `runPlugin`.
* Steps: `Scan`, `Store`, `NotifyAll` (scanner); `Spawn`, `MakeChannel`,
  `Subscribe`, `Register` (main); `RegSelect` to `RegSynced` (registry loop);
  `MgrReceive` to `MgrSynced` (manager loop); `StartPlugin`. A send on an
  unbuffered channel and its receive are one step (`SendEvent` is the sending
  half). `guard` is held across steps by `Subscribe` alone.
* The checksum is injective: `calc.Sum(content)` appends to the content.
* A data race on a Go map is a possible death of the process (`FatalMapAccess`).
* `getAllocAddr` keeps a pointer to its loop variable, so under the Go version of
  `go.mod` the address it returns is that of the last entry (`HasAllocAddr`).

Properties. `NoLostUpdate`: when no event is under way every entry of the stored
configuration that can have a plugin has one. A registry entry counts only if it
descends from a built-in resource through entries listed before it (`Lineage`),
since the loop is a single pass. `OneGoroutinePerPlugin`, `PluginMatchesRegistry`.
`EventuallyApplied` (liveness): a configuration that stays comes into force.

Runs. `ConfigSync_safe`: with and without `-auto-conf`, five contents of
`nic.conf` with parents before and after children, repeated and changed entries,
and one broken file (1.6 million states). `ConfigSync_live`: two contents, since
TLC keeps the whole behaviour graph. `ConfigSync_subscribe` shows a disagreement
with a comment of the code: a deadlock of `Subscribe` and the receiver of an
earlier event. Modelled without a run: the registry loop can evaluate its select
before the channel is made and then waits on nil for ever (`RegSelect`). Deadlock
is not checked since both stop the process; `EventuallyApplied` speaks of
behaviours in which `Subscribe` has returned, which neither reaches.

Fairness: every goroutine that can run does, and the ticker ticks. Nothing is
assumed of the environment.

## DeviceServer

* State: the environment (`plugged`, `configured`); the API object (`nadExists`, this
  node's annotation `nad`, the annotations of `others`, and `fresh`: who holds a copy
  of its current resourceVersion); per handler `pc`, `todo`, the `copy` of the object
  it got (of the other annotations: `seen`), `found`, `old`, `first`; the server's
  `devices` and `mu`; the kubelet's `stream` and `view`; whether the `allocator` process
  runs. `outdated` is history: what goes back to a refresh begun before the
  net-attach-def was last deleted.
* A handler is one `ListAndWatch` call. It refreshes (`Discover`, then for each
  interface `SkipNic` or `GetNad` and `UpdateNad`), replaces the map under the
  mutex (`Swap`, `Fill`, `Filled`), sends the list if it changed (`List`) and
  sleeps (`Wake`). It never looks at its stream's context, so when the kubelet
  reconnects the old handler goes on until a send of its own fails.
* `Mem` selects `memVSfcPluginServer`, which ignores the error of a refresh and
  dials the allocator in `Allocate`.
* `AddDeviceIeIDs` keeps an entry as it was first written (`updateTargetDevice`
  assigns to a copy) and gives a new one the IDs of all interfaces visited so far.
* A device ID, a hash in the code, is the pair of interface and number.
* The order of `net.Interfaces` is not fixed: each refresh meets some listing of what
  is plugged in (`Listings`).
* `UpdateNetAttachDef` writes the whole object back (`WriteBack`), the other nodes'
  annotations included. It is accepted only for a current resourceVersion, and an
  Update that changes nothing leaves the resourceVersion as it is.
* The net-attach-def can be deleted at any time (`DeleteNad`), with its entries. Until it
  is there again every refresh fails. That the plugin's watch notices and `RunOnce`
  starts over is in `PluginLifecycle`.

Properties. `ViewMatchesDevices`. `ReportedIsRecorded`: what the map and the kubelet's
list contain is in the net-attach-def; deleting the net-attach-def breaks this, so
the property speaks of a map and a list that come from a refresh begun afterwards.
`EntriesAreKept` (of steps): no Update takes away an entry that another handler added
after the Get, or undoes what another node wrote. `AllocateSeesWholeMap`;
`ChangesAreReported` (liveness).

Runs. `DeviceServer_single`: two interfaces of one device, one handler and other
nodes, the least with a refresh that fails halfway and a listing whose order matters;
safety and liveness (360,000 states). `DeviceServer_leaked`: a second handler, one
interface of two devices, the least with a map that is half full (650,000 states).
Disagreement: `DeviceServer_lost` (a leaked handler takes a change and the kubelet
is never told). Modelled without a run: an `Allocate` that dials a dead allocator
keeps the mutex, and refreshing stops; `ChangesAreReported` is therefore stated
for an allocator that lives. What an error during a refresh of
`vSfcPluginServer` means for the stream is in `PluginLifecycle`.

`ChangesAreReported` excepts behaviours in which other writers get in between the
Get and the Update for ever: every refresh then fails, as it would in the code.

Fairness: handlers are scheduled; a mutex is not handed past a waiting handler
for ever, as Go's starvation mode guarantees (strong fairness of `Swap`); a
running allocator answers.

## MacvlanCni

* State: the annotation `nad`; per sandbox the namespace (`netns`), the links in
  it (`own` and `foreign` bear the requested name, `tmp` a random one), the link
  still on the host (`host`), `addrs`, `up`, the IPAM plugin's `lease`, and what
  the last ADD and CHECK reported (`told`, `checked`).
* Steps: those of `cmdAdd` in order, `GetParent` to `PrintResult`, each with its
  failure and what the deferred functions then do; `Del` and `Check`; `Kill`, the
  runtime giving up on an ADD.
* `getParentInterface` does not reset `found`: it returns the last entry of the
  annotation as soon as any entry lists the device.
* Taken on trust: deleting a link that is there succeeds, ExecDel releases the
  address, and the parent interface stays while a sandbox is attached.

Properties. `ResultMeansAttached`, `AddKeepsForeignLink`, `ParentOwnsDevice` (while a
single interface is recorded; with two it does not hold, because of the accumulated
IDs and the last match), `FailedAddIsCleanedUp` (liveness).

Runs. `MacvlanCni_attach`: two sandboxes, one with and one without IPAM, and two
interfaces recorded one after the other, so that for a while one of the sandboxes
has a device that is not; safety and liveness.

Modelled without a run, two disagreements of the code with its comments:

* `solarflare_macvlan.go:307` says "Invoke ipam del if err to avoid ip leak", but the
  deferred function tests the `err` declared in the block of the IPAM call, and the
  steps after the block set the outer one. When addresses cannot be added or the link
  cannot be set up, `Configure` therefore keeps the lease, and `cmdAdd` returns nil
  without having printed a result ("silence"). For the same reason the link stays in
  the sandbox when the IPAM plugin fails; the DEL that follows removes it, which is
  part of `FailedAddIsCleanedUp`.
* `solarflare_macvlan.go:452` says "The namespace must be the same as what was
  configured", but line 453 compares with a variable that is never set: `Check`
  rejects every sandbox that is there.

Fairness: an ADD goes on, and the runtime repeats a DEL, which does not fail for
ever.

## PluginLifecycle

* State: `run`, where `PluginBase.Run` is; `serve`, `reg`, `watch`, `nadWatch`, the
  four actors of the group in `RunOnce`, and `cancelled`, whether they have been
  interrupted; the socket file `sock`; the `kubelet` with the registration it has
  yet to act on (`pending`) and its `stream`; `nadExists`.
* Steps: `Listen` is `RunOnce` up to `g.Run`. The group is `Interrupt` (an actor has
  returned; the server is stopped, which removes the socket file) and
  `GroupReturns` (all have); `Restart` is the pause before the next `RunOnce`. The
  registration is `RegDial`, `RegDialKubelet`, `Register` or `RegisterFails`, and
  `RegHold`; the watches are `WatchSocket`, `NadCreate` and `NadWatch`. `ListFails` is
  a handler of `vSfcPluginServer` that returns the error of a refresh.
* External, modelled from how the code uses them: `run.Group` waits for all
  actors; closing a listener unlinks its file; a starting kubelet removes all
  sockets; it does not dial a plugin again whose stream ended.
* A restarted process has a new socket name (`MakeUnixSockPath` has the time in
  it), and so no old file in its way. Two starts within a second are left out.
* `k8sclient` is there: without one the net-attach-def actor returns at once, and
  so does every `RunOnce` of a resource that is not built in.

Properties. `ListenFindsNoSocket`; `RegisteredIsKnown` (the file watch suffices to
notice a restarted kubelet); `EventuallyConnected` (liveness).

Runs. `PluginLifecycle_restart`: one plugin, of a resource that is not built in,
served by `vSfcPluginServer`: the case with all actors and all failures. The state
space is finite without bounds. `PluginLifecycle_stream` shows a disagreement: a
refresh that fails once ends the stream for good.

Fairness: goroutines, timers and tickers of the plugin run, and the kubelet acts
on a registration. Not assumed: that a kubelet starts, that failures stop (the
properties except behaviours with infinitely many crashes or refused
registrations), or that a missing net-attach-def is noticed.

## ViAllocator

* State: `index`, which gives each interface its index or 0 while it is away, and `last`,
  the last index given out; per server `call`, its `Allocate` under way (the mutex
  allows one); the allocator's `opened` (`opened_handles`, by index), `domains` and
  `taken` (what it got from the adapter, by index), `file` (the files in `/dev/shm`),
  `alive`; per `pod` its device and the listing it was named after. `raced` is history.
* Steps: `Allocate`, then in a thread of the allocator `PutIfAbsent`, `Insert`,
  `Construct` and `MemReg`, each with its failure.
* An interface that comes back has a new index (`Replug`), so that `put_if_absent` does
  not find the protection domain of the old one. `parse_interface` looks the index up
  by name; its fallback, which reads the name as a number, is not modelled.
* The map of a server goes back to some listing, in any order and perhaps outdated:
  `Allocate` takes any. Refreshes themselves are steps of `DeviceServer`.
* A name is the pair of position and number, which is what the digits of
  `"%d%d"` amount to since a number has one digit (`vNicPerNic` is 8).
* The handle is copied, so no virtual interface is found again, and the
  destructor is empty, so none is released: `taken` only grows. `Insert` beside
  another thread may lose its entry or kill the process (`MapRace`).
* `ef_vi_alloc_from_pd` works on the `ef_vi` in the mapped file. When it fails it has
  counted down `vi_qs_n` there, and if a mapping failed after the driver had allocated,
  the virtual interface stays allocated (`SpoilVi`). The second attempt after EPERM is
  part of the same step: whether the count is too small by one or by two is not told
  apart (`whole`).
* When the allocator dies its `opened_handles` are gone; the driver's table of resources
  is global and keeps what was allocated.
* A request for several devices is as many calls in sequence; one is modelled.

Properties. `ViIsKept` says when the file of a running pod's virtual interface can be
changed, by a call that succeeds or by one that fails; `OneDomainPerIndex`. That
`ViIsKept` needs its two exceptions means that two running pods can have one queue, or
that a refused pod can spoil the description a running one uses: after a change of the
interface list, and when two resources share an interface.

Run. `ViAllocator_shared`: two servers sharing one of two interfaces, two pods (which
are interchangeable: symmetry), one device per server and interface. `ViPool` and
`PdPool`, the adapter's limits per index, are 2: a second allocation happens and a
third is refused. `MaxIndex` is 2: both interfaces can be there, or one of them twice
in succession under two indexes (2.4 million states). Deadlock is not checked: once the
allocator is dead, the pods have ended, the interfaces are gone and the indexes are
used up, nothing is left to happen.

## StackLock and Lock

An Onload stack is shared by the threads of its applications and by the kernel.
`ni->state->lock` (the shared lock) is a word of bits that all of them change with
compare-and-swap; `trs->trusted_lock` is a second one that only the kernel takes.
Who cannot wait for a lock sets a flag in its word, and the holder does the work
before, or just after, it drops the lock. The interrupt handler must not sleep, so
it leaves a lock, together with the work, to the stack's work item.

* State: the words `lock` and `trusted` as sets of bits; `flags` (IN_DL_CONTEXT of
  `ni->flags`), `aflags` (`trs_aflags`), `queued` (the work item is queued); per
  interface `events`, `primed`, `deferred`; `pktfree`; the wait queues `wq` and
  `pktq` and the tasks `asleep`; endpoints `tobe_closed` and `closed`. Per process
  `pc` and its local variables: `l`, the copy of a word or of flags, `after`, the
  flags to handle after the unlock, `retried`, `dl`, and to which caller a nested
  unlock or drop returns (`uret`, `dret`).
* Threads: `Lock`, `Spin`, then `AddToWaitQueue`, `SetState`, `LockOrRequestWake`,
  `Scheduled`, `Interrupted` (`oo_eplock_lock`); `PktWait` to `PktInterrupted`
  (`efab_tcp_helper_pkt_wait`); `Unlock` and `UlClear` to `UlRestore`
  (`ci_netif_unlock_slow`).
* Kernel: `KUnlock` to `KWake` (`efab_eplock_unlock_and_wake`); `CbClear` to `CbAfter`
  (`efab_tcp_helper_netif_lock_callback`); `Drop`, `DropClose`, `DropSet`
  (`oo_trusted_lock_drop`); `Close`, `ClosePending`, `CloseDone`; `Defer` and `Queue`
  (`tcp_helper_defer_dl2work`). A last close is `CloseEndpoint`, then the tries
  `TryTrusted` to `TryCas`, and `TryFailed` to `SetTrusted`
  (`efab_tcp_helper_netif_lock_or_set_flags`).
* Handler and work item: `Arrive`, `Interrupt`, `IrqEntry` to `IrqPrimeSelf`;
  `WorkStart` to `WorkPrime` (`tcp_helper_do_non_atomic`).
* A loop that repeats a read and a compare-and-swap until it succeeds is one step;
  where a failed compare-and-swap leads elsewhere, read and swap are two.
* Flags by class. NEED_POLL stands for the flags that a holder handles in place
  (HAS_DEFERRED_PKTS, MERGE_ATOMIC_COUNTERS, SWF_UPDATE, PURGE_TXQS, KERNEL_PACKETS,
  FREE_READY_LIST), NEED_WAKE for those that cannot be handled in the interrupt
  handler (NEED_PKT_SET, NEED_SOCK_BUFS).
* `Lock` is what either lock promises: one owner, who took it free, and who passes it
  on without freeing it only if it is a handler, and then to the work item.

Left out: the handler without EF_INT_DRIVEN, destruction of a stack (AWAITING_FREE),
SOCKET_LIST and OS_READY, endpoints that are closed outside the list, the variants
of `oo_eplock_lock` with a timeout, TCP timers, the packet sets that a callback
allocates ahead of need, and a thread that dies with the lock. Also left out are stacks
in error and interfaces that must not be polled in the kernel. With `error_flags` set
`ci_netif_poll_n` returns at once, and after a failed remap (`nic_error_flags`) an
interface is neither polled nor primed: the deferred bit is then cleared and the queue
stays unprimed. `PrimeIsOwed` and `EventsArePolled` are about stacks without such errors. The
work item is queued by `tcp_helper_endpoint_queue_non_atomic` too and starts with the
list of endpoints given there; only its part about the locks is modelled, so here it
runs only when a handler queued it. With EF_INT_DRIVEN
`tcp_helper_request_wakeup`, which `efab_tcp_helper_pkt_wait` calls, changes nothing and
is left out; setting the task's state and looking for packets are one step there.

Properties. `MutualExclusion`; `SharedIsALock` and `TrustedIsALock` (refinement of
`Lock`); `NoLostWakeup`, `PktWaiterIsRemembered`, `ClosingIsOwed`, `PrimeIsOwed` (for
each kind of request: it is in a word, or somebody is on the way to serve it);
`UnlockedMeansHandled`; `InterruptContext`. Liveness: `EventsArePolled`,
`SleepersAreWoken`, `EndpointsAreClosed`.

Runs. `StackLock_safe`: a thread, a closer, two interfaces and the work item, two
events, with symmetry (820,000 states): two handlers are the least that find the
work item running for each other. `StackLock_live`: one interface, one event, and a
thread that also waits for packet buffers (230,000 states); the refinement and the
liveness properties need the whole graph, without symmetry. `MaxEvents` bounds how
often an event arrives. Deadlock is checked.

What these bounds leave to the proofs: with one thread, no application ever drops the
lock while another thread sleeps for it, so the wake-up from user level is covered by
the theorems alone. With one event in `StackLock_live`, `EventsArePolled` never needs the
queue to be primed a second time; that a queue is not left unprimed is `PrimeIsOwed`,
which is checked with two events and proved.

Fairness: threads that are not asleep, handlers and the work item are scheduled, and
an application drops the lock some time after it took it. Nothing is assumed of
the arrival of events, of signals or of the wish to lock. Two loops are not bounded
by the code, and the liveness properties except behaviours in which one of them
never ends (`Contended`): a request that finds the locks taken when it tries and
free when it asks, and CLOSE_ENDPOINT passed back and forth between the two holders.

## Proofs

Each theorem is for every value of the constants that satisfies the `ASSUME` of its
module. The assumptions say what the constants are: `AllocatorAssumption`, for
instance, that there are finitely many interfaces, `StackLockAssumption` that
a process is not two kinds of process at a time.

`ConfigSyncProofs`, for every set of contents, every resource tree and both values
of `-auto-conf`:

* `TypeCorrect`. The strengthening says that the scanner stores only what parsed.
* `NoUpdateIsLost`. `NoLostUpdate` is about quiescent states only; the inductive
  invariant `UpdateInv` says of every state that the registry loop, and likewise
  the manager loop, is either up to date with `conf` in the entries it has
  visited, or is due to be woken (`RegFresh`, `MgrFresh`), and that main has wired
  the channels (`Wiring`).
* `PluginsRunOnce` and `PluginsAreAsRegistered`, from `PluginInv`, their conjunction
  with the types: a plugin is built from the registry entry of its resource, and the
  registry loop passes over resources it has registered.

`DeviceServerProofs`, for any number of interfaces, devices and handlers:

* `TypeCorrect`. `TypeInv` adds that a handler between Get and Update is at an interface.
* `ReportsAreRecorded`. The inductive invariant `RecordInv` adds that entries are complete
  (an entry lists all devices of its interface, `EntriesAreComplete`), that a handler in
  `fresh` has the net-attach-def as it is (`CopyInv`), and that a handler has collected
  only recorded devices, except for those of the interface it is about to record, of
  which it has collected all (`HandlerInv`). Completeness is what makes the entry of an
  earlier handler or an earlier life of the process good enough for a later one. What
  is `outdated` is excepted throughout.
* `WritesAreNotUndone` (an action property), from `CopyInv`: the copy written back is that
  of the current object, to which `AddDeviceIeIDs` at most appends.
* `AllocateIsAtomic`, from `LockInv`: a handler fills the map exactly while it
  holds the mutex, and outside of that the map is whole.
* `ViewIsTheMap`: with one handler the kubelet's list is the map. The hypothesis is
  needed: `DeviceServer_lost` is what two handlers do to it.

`PluginLifecycleProofs`, for built-in and other resources and both servers:

* `ListenSucceeds` and `WatchSuffices`. The inductive invariant `SocketInv` says that
  the file exists only while its server runs, that a server runs only inside a
  group and not after the interrupt, and that no registration waits, with its
  file in place, while the kubelet is starting: the start removed the file.

`MacvlanCniProofs`, for any number of sandboxes and interfaces:

* `TypeCorrect`, and `ForeignLinksAreKept` (an action property).
* `ResultsAreTrue`. The inductive invariant `AttachInv` says step by step what an ADD
  has achieved at each place of `cmdAdd`, as long as the namespace lives.
* `ParentsOwnDevices`. `ParentInv` adds that the first entry of the annotation lists
  the devices of its own interface only: it is the later ones that accumulate.

`ViAllocatorProofs`, for any number of resources, pods and interfaces and all limits
of the adapter:

* `TypeCorrect`: the pools are never exceeded.
* `OneDomain`. `DomainInv` adds that an index with a protection domain is in
  `opened_handles`, or about to be put there by a call, while no two calls have met.
* `PodsKeepTheirVi` (an action property). `NamesTellNicsApart` is the lemma: two devices
  with one name, named after one listing, are of one interface, since a name has the
  interface's position. `CallInv` and `PodInv` say which device and which listing a
  name in use came from.

`StackLockFrame`, `StackLockExclusion` and `StackLockProofs`, for any threads, closers,
interfaces and endpoints:

* `TypeCorrect`. `TypeOK` allows `l` the bits of every word it is ever a copy of;
  `oo_trusted_lock_drop` moves such a copy to the shared word, so `TypeInv` adds that the
  copy is of the trusted word there (`DropTypes`).
* `Invariant`: `IInv` is inductive. Besides `TypeInv` it has three layers.
  - Who runs what. A process has its local variables (`FrameTypes`), a nested unlock or
    drop returns only to certain callers (`FrameInv`, `ReturnInv`), a compare-and-swap
    compares with a word that it may replace (`CopyInv`), a thread about to sleep is on
    its wait queue (`QueueInv`), and a handler that failed to get both locks drops what
    it has and then asks (`FailedInv`).
  - Who has the locks. `MutualExclusion`; a lock is left to the work item once, and not
    while the work item runs with that lock (`DeferInv`); IN_DL_CONTEXT is set while a
    handler has the shared lock, and only handlers defer (`ContextInv`, with
    `InterruptContext`).
  - Who owes what. `UnlockedMeansHandled`, `NoLostWakeup`, and for each other kind of
    request an operator that lists all the places where it can be on its way: the two
    words, trs_aflags, the copies of flags in `l` and `after`, and the places in the code
    that serve it (`PktDuty`, `ClosingDuty`, `PrimeDuty`). `PktInv`, `ClosingInv` and
    `PrimeInv` say that whoever needs the request served has such a place; `BitInv` that an
    event queue its handler has given up has the deferred bit, so that whoever serves
    NEED_PRIME primes it. `PrimeInv` and `BitInv` except a handler that failed and is
    still dropping locks: it sets the bit and asks after that, which is why `FailedInv` is
    needed.

  The proof of each part goes through the steps in the groups of `NextSteps`.
  `StackLockFrame` has the invariant, the types, facts about single operators (`Held`, the
  `Effect` and `Duty` lemmas on the large steps, which places hold which lock), most of the
  first layer and `ContextInv`; `StackLockExclusion` has `ReturnInv`, the rest of the second
  layer and what the holder of the shared lock owes; `StackLockProofs` has `FailedInv`, the
  remaining duties and the theorems. TLC finds `IInv` true
  in all states of both instances.
* `LocksExclude`, `WakeupsAreNotLost`, `RequestsAreNotLeft`, `HandlersDoNotSleep`,
  `PktWaitersAreNotLost`, `ClosingsAreNotLost` and `PrimesAreNotLost` follow from it.
* `SharedImplementsLock` and `TrustedImplementsLock`: every step of the stack is a step
  of `Lock` or leaves the owner alone. `MutualExclusion` before and after leaves one
  case open, a new owner while the lock was taken; `PassedOn` says that the new
  owner is then the work item, and the old one a handler.

Only model-checked are the liveness properties: `EventuallyApplied`, `ChangesAreReported`,
`FailedAddIsCleanedUp`, `EventuallyConnected`, `EventsArePolled`, `SleepersAreWoken`,
`EndpointsAreClosed` (fairness is out of the prover's reach).

## Plan

1. A composition of `DeviceServer`'s annotation with `MacvlanCni`'s choice of the
   parent, as a refinement of a specification of the attachment.
2. `EfviSocket` (filter cookie, crash of a client) and `RxRing` (posting and
   receiving with indices of 32 bits, 255 buffers), with the index arithmetic proved.
3. An abstract specification of `ViAllocator` (a name denotes one interface) for
   a fixed list of interfaces, and the refinement.
