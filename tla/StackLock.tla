----------------------------- MODULE StackLock -----------------------------
(***************************************************************************)
(* The two locks of an Onload stack and the work handed over through them: *)
(* the shared lock (eplock.h, eplock_slow.c, eplock_resource_manager.c,    *)
(* ci_netif_unlock in netif.c), a word that applications, the kernel and   *)
(* the interrupt handler change with compare-and-swap, the trusted lock of *)
(* the kernel and the callbacks run when either is dropped                 *)
(* (tcp_helper_resource.c), for a stack with EF_INT_DRIVEN set.            *)
(*                                                                         *)
(* A lock word is the set of its bits.  A loop that repeats a read and a   *)
(* compare-and-swap until it succeeds is one step, taken when it succeeds; *)
(* where a failed compare-and-swap leads somewhere else, the read and the  *)
(* swap are two steps.  NEED_POLL stands for every flag that the holder    *)
(* handles in place, NEED_WAKE for the flags that must be handled outside  *)
(* the interrupt handler.                                                  *)
(***************************************************************************)
EXTENDS Naturals, FiniteSets

CONSTANTS
    Users,     \* threads of applications that share the stack
    PktUsers,  \* those of them that run out of packet buffers
    Closers,   \* kernel threads that run the last close of an endpoint
    Irqs,      \* the interfaces, each with an event queue and its handler
    Work,      \* the stack's non_atomic_work item
    Eps,       \* endpoints that will be closed
    MaxEvents  \* bound: how often an event arrives at an empty queue

Procs == Users \cup Closers \cup Irqs \cup {Work}

ASSUME StackLockAssumption ==
    /\ Work \notin Users \cup Closers \cup Irqs
    /\ Irqs \cap (Users \cup Closers) = {} /\ Users \cap Closers = {}
    /\ PktUsers \subseteq Users /\ MaxEvents \in Nat

UnlockFlags == {"NEED_POLL", "NEED_PRIME", "NEED_WAKE", "CLOSE_ENDPOINT", "PKT_WAKE"}
CallbackFlags == UnlockFlags \cup {"IS_PKT_WAITER"}
LockBits == CallbackFlags \cup {"LOCKED", "FL_NEED_WAKE"}
TrustedBits == {"LOCKED", "CLOSE_ENDPOINT", "NEED_POLL", "NEED_PRIME"}

\* trs_aflags; the last two say that the trusted lock comes along.
DeferredTrusted == {"CLOSE_ENDPOINTS", "POLL_AND_PRIME"}
AFlags == {"UNLOCK_UNTRUSTED"} \cup DeferredTrusted

\* The one of ni->flags that matters: the shared lock is held by a handler.
NiFlags == {"IN_DL_CONTEXT"}

VARIABLES
    lock,      \* ni->state->lock.lock
    trusted,   \* trs->trusted_lock
    flags,     \* ni->flags
    aflags,    \* trs->trs_aflags
    queued,    \* non_atomic_work is on the work queue
    events,    \* event queues with events (ci_netif_intf_has_event)
    arrived,   \* how often one has got events
    primed,    \* event queues that raise an interrupt when there is an event
    deferred,  \* evq_prime_deferred
    pktfree,   \* free packet buffers, none or some
    wq,        \* eplock_helper.wq
    pktq,      \* pkt_waitq
    asleep,    \* tasks in state TASK_INTERRUPTIBLE
    tobe_closed, closed,  \* endpoints
    pc,        \* where each process is
    l,         \* its copy of a lock word or of flags
    after,     \* its after_unlock_flags
    retried,   \* the processes with pkt_waiter_retried set
    dl,        \* the processes with in_dl_context set
    uret,      \* where its ci_netif_unlock returns to
    dret       \* where its oo_trusted_lock_drop returns to

nic     == <<events, arrived, primed, deferred>>
sleep   == <<wq, pktq, asleep>>
closing == <<tobe_closed, closed>>
frame   == <<l, after, retried, dl, uret, dret>>
vars == <<lock, trusted, flags, aflags, queued, nic, pktfree, sleep, closing,
          pc, frame>>

SleepPcs == {"slow", "state", "request", "sched", "pkt_check", "pkt_flag",
             "pkt_cas", "pkt_sched"}
UlPcs == {"ul_clear", "ul_common", "ul_read", "ul_cas", "ul_restore"}
UnlockPcs == {"k_unlock", "k_read", "k_cas", "cb_clear", "cb_common", "cb_close",
              "cb_retry", "cb_read", "cb_cas", "defer_unlock"}
UnlockedPcs == {"cb_after", "k_wake", "queue_unlock"}
DropPcs == {"drop", "drop_close", "drop_set"}
TryPcs == {"try", "try_read", "try_cas", "try_failed", "set_shared", "set_trusted"}
BothPcs == {"i_poll", "close", "closing", "w_poll", "w_prime", "defer_close",
            "defer_poll"}
Pcs == {"idle", "hold", "i_entry", "i_defer", "i_again", "i_test", "i_loop",
        "i_bit", "i_prime", "i_prime_trusted", "i_prime_self", "w_untrusted",
        "w_trusted", "w_trusted_unlock", "queue", "ul_prime"}
       \cup SleepPcs \cup UlPcs \cup UnlockPcs \cup UnlockedPcs \cup DropPcs
       \cup TryPcs \cup BothPcs

\* Who has the shared lock, and who the trusted one: by what a process is
\* doing, or by the call that it is going to return to.  A lock left to the
\* work item is the work item's from the moment trs_aflags says so.
SharedPcs == {"hold", "w_trusted_unlock"} \cup UlPcs \cup UnlockPcs \cup BothPcs
TrustedPcs == {"try_read", "try_cas"} \cup BothPcs \cup DropPcs

HoldsShared(p) ==
    pc[p] \in SharedPcs \/ dret[p] = "callback" \/ (p = Work /\ aflags # {})

HoldsTrusted(p) ==
    \/ pc[p] \in TrustedPcs \/ uret[p] = "drop"
    \/ p = Work /\ aflags \cap DeferredTrusted # {}

TypeOK ==
    /\ lock \subseteq LockBits /\ trusted \subseteq TrustedBits
    /\ flags \subseteq NiFlags /\ aflags \subseteq AFlags /\ queued \in BOOLEAN
    /\ events \subseteq Irqs /\ arrived \in 0..MaxEvents
    /\ primed \subseteq Irqs /\ deferred \subseteq Irqs
    /\ pktfree \in 0..1 /\ wq \subseteq Users /\ pktq \subseteq Users /\ asleep \subseteq Users
    /\ tobe_closed \subseteq Eps /\ closed \subseteq Eps
    /\ pc \in [Procs -> Pcs]
    /\ l \in [Procs -> SUBSET (LockBits \cup AFlags)]
    /\ after \in [Procs -> SUBSET UnlockFlags]
    /\ retried \subseteq Procs /\ dl \subseteq Procs
    /\ uret \in [Procs -> {"done", "drop"}]
    /\ dret \in [Procs -> {"done", "failed", "callback"}]

Init ==
    /\ lock = {} /\ trusted = {} /\ flags = {}
    /\ aflags = {} /\ queued = FALSE
    /\ events = {} /\ arrived = 0 /\ primed = Irqs /\ deferred = {}
    /\ pktfree \in (IF PktUsers = {} THEN {1} ELSE 0..1)
    /\ wq = {} /\ pktq = {} /\ asleep = {}
    /\ tobe_closed = {} /\ closed = {}
    /\ pc = [p \in Procs |-> "idle"]
    /\ l = [p \in Procs |-> {}] /\ after = [p \in Procs |-> {}]
    /\ retried = {} /\ dl = {}
    /\ uret = [p \in Procs |-> "done"] /\ dret = [p \in Procs |-> "done"]

-----------------------------------------------------------------------------
Go(p, where) == pc' = [pc EXCEPT ![p] = where]
Put(f, p, v) == [f EXCEPT ![p] = v]

\* What ci_netif_poll can add to the lock word, since an event may wake
\* endpoints, and to the free packets, since it may complete a transmission.
PollWakes == IF events # {} THEN {{}, {"NEED_WAKE"}} ELSE {{}}
PollFrees == pktfree' \in {pktfree} \cup (IF events = {} THEN {} ELSE {1})
\* All interfaces may be polled: error_flags of the stack and of its interfaces
\* (a failed remap after a NIC reset), with which nothing is polled, are left out.
PollAll == events' = {} /\ PollFrees /\ UNCHANGED <<arrived, primed, deferred>>

\* ci_netif_unlock returns: to oo_trusted_lock_drop when the caller was
\* efab_tcp_helper_netif_unlock or the drop itself.
UnlockReturns(p) ==
    /\ Go(p, IF uret[p] = "drop" THEN "drop" ELSE "idle")
    /\ l' = Put(l, p, {}) /\ after' = Put(after, p, {})
    /\ retried' = retried \ {p} /\ dl' = dl \ {p}
    /\ uret' = Put(uret, p, "done")
    /\ UNCHANGED dret

\* oo_trusted_lock_drop returns.
DropReturns(p) ==
    /\ Go(p, CASE dret[p] = "callback" -> "cb_retry"
               [] dret[p] = "failed" -> "try_failed"
               [] OTHER -> "idle")
    /\ dret' = Put(dret, p, "done")
    /\ UNCHANGED <<l, after, retried, dl, uret>>

-----------------------------------------------------------------------------
(* Taking the shared lock                                                  *)

\* ef_eplock_lock: one compare-and-swap of 0 by LOCKED.
Lock(u) ==
    /\ u \in Users /\ pc[u] = "idle"
    /\ IF lock = {} THEN lock' = {"LOCKED"} /\ Go(u, "hold")
                    ELSE lock' = lock /\ Go(u, "slow")
    /\ UNCHANGED <<trusted, flags, aflags, queued, nic, pktfree, sleep, closing, frame>>

\* __ef_eplock_lock_slow: a spinning thread gets it with ef_eplock_trylock ...
Spin(u) ==
    /\ pc[u] = "slow" /\ "LOCKED" \notin lock
    /\ lock' = lock \cup {"LOCKED"} /\ Go(u, "hold")
    /\ UNCHANGED <<trusted, flags, aflags, queued, nic, pktfree, sleep, closing, frame>>

\* ... or enters oo_eplock_lock.
AddToWaitQueue(u) ==
    /\ pc[u] = "slow"
    /\ wq' = wq \cup {u} /\ Go(u, "state")
    /\ UNCHANGED <<lock, trusted, flags, aflags, queued, nic, pktfree, pktq, asleep,
                   closing, frame>>

SetState(u) ==
    /\ pc[u] = "state"
    /\ asleep' = asleep \cup {u} /\ Go(u, "request")
    /\ UNCHANGED <<lock, trusted, flags, aflags, queued, nic, pktfree, wq, pktq,
                   closing, frame>>

LeaveWaitQueue(u) == wq' = wq \ {u} /\ asleep' = asleep \ {u} /\ pktq' = pktq

\* Variant: the bit is not requested a second time.
LockOrSleep(u) ==
    /\ pc[u] = "request"
    /\ IF "LOCKED" \in lock
       THEN lock' = lock /\ Go(u, "sched") /\ UNCHANGED sleep
       ELSE lock' = lock \cup {"LOCKED"} /\ Go(u, "hold") /\ LeaveWaitQueue(u)
    /\ UNCHANGED <<trusted, flags, aflags, queued, nic, pktfree, closing, frame>>

\* oo_eplock_lock_or_request_wake
LockOrRequestWake(u) ==
    /\ pc[u] = "request"
    /\ IF "LOCKED" \in lock
       THEN lock' = lock \cup {"FL_NEED_WAKE"} /\ Go(u, "sched") /\ UNCHANGED sleep
       ELSE lock' = lock \cup {"LOCKED"} /\ Go(u, "hold") /\ LeaveWaitQueue(u)
    /\ UNCHANGED <<trusted, flags, aflags, queued, nic, pktfree, closing, frame>>

\* schedule_timeout returns: after a wake-up the loop goes round; after a
\* signal the thread comes back through __ef_eplock_lock_slow; at the timeout
\* it gives up.
Scheduled(u) ==
    /\ pc[u] = "sched" /\ u \notin asleep
    /\ Go(u, "state")
    /\ UNCHANGED <<lock, trusted, flags, aflags, queued, nic, pktfree, sleep, closing, frame>>

Interrupted(u) ==
    /\ pc[u] = "sched"
    /\ LeaveWaitQueue(u)
    /\ Go(u, "slow") \/ Go(u, "idle")
    /\ UNCHANGED <<lock, trusted, flags, aflags, queued, nic, pktfree, closing, frame>>

(* What an application does under the lock: it polls the stack, and        *)
(* allocates or frees packet buffers.                                      *)
Poll(u) ==
    /\ pc[u] = "hold" /\ PollAll
    /\ \E w \in PollWakes : lock' = lock \cup w
    /\ UNCHANGED <<trusted, flags, aflags, queued, sleep, closing, pc, frame>>

UsePackets(u) ==
    /\ pc[u] = "hold" /\ PktUsers # {} /\ pktfree' \in 0..1
    /\ UNCHANGED <<lock, trusted, flags, aflags, queued, nic, sleep, closing, pc, frame>>

-----------------------------------------------------------------------------
(* Waiting for packet buffers: efab_tcp_helper_pkt_wait                    *)

PktWait(u) ==
    /\ u \in PktUsers /\ pc[u] = "idle"
    /\ pktq' = pktq \cup {u} /\ Go(u, "pkt_check")
    /\ UNCHANGED <<lock, trusted, flags, aflags, queued, nic, pktfree, wq, asleep,
                   closing, frame>>

PktLeave(u) ==
    /\ pktq' = pktq \ {u} /\ asleep' = asleep \ {u} /\ wq' = wq /\ Go(u, "idle")

PktCheck(u) ==
    /\ pc[u] = "pkt_check"
    /\ IF pktfree > 0 THEN PktLeave(u)
                  ELSE asleep' = asleep \cup {u} /\ Go(u, "pkt_flag") /\ UNCHANGED <<wq, pktq>>
    /\ UNCHANGED <<lock, trusted, flags, aflags, queued, nic, pktfree, closing, frame>>

PktReadLock(u) ==
    /\ pc[u] = "pkt_flag"
    /\ IF "IS_PKT_WAITER" \in lock
       THEN Go(u, "pkt_sched") /\ l' = l
       ELSE Go(u, "pkt_cas") /\ l' = Put(l, u, lock)
    /\ UNCHANGED <<lock, trusted, flags, aflags, queued, nic, pktfree, sleep, closing,
                   after, retried, dl, uret, dret>>

PktSetWaiter(u) ==
    /\ pc[u] = "pkt_cas"
    /\ IF lock = l[u] THEN lock' = lock \cup {"IS_PKT_WAITER"} /\ Go(u, "pkt_sched")
                      ELSE lock' = lock /\ Go(u, "pkt_check")
    /\ l' = Put(l, u, {})
    /\ UNCHANGED <<trusted, flags, aflags, queued, nic, pktfree, sleep, closing,
                   after, retried, dl, uret, dret>>

PktScheduled(u) ==
    /\ pc[u] = "pkt_sched" /\ u \notin asleep
    /\ Go(u, "pkt_check")
    /\ UNCHANGED <<lock, trusted, flags, aflags, queued, nic, pktfree, sleep, closing, frame>>

PktInterrupted(u) ==
    /\ pc[u] = "pkt_sched"
    /\ PktLeave(u)
    /\ UNCHANGED <<lock, trusted, flags, aflags, queued, nic, pktfree, closing, frame>>

-----------------------------------------------------------------------------
(* Dropping the shared lock: what the user and the kernel have in common   *)

HandledFlags == {"IS_PKT_WAITER", "NEED_POLL"}

\* ci_netif_unlock_slow_common clears the flags it handles, ...
ClearHandled(p, next) ==
    /\ l' = Put(l, p, lock) /\ lock' = lock \ HandledFlags
    /\ Go(p, next)

\* Variant: a waiter that gets no packets is not put back.
HandleOnce(p, wakes, sets) ==
    /\ IF "NEED_POLL" \in l[p] THEN PollAll /\ wakes \in PollWakes
                               ELSE UNCHANGED <<nic, pktfree>> /\ wakes = {}
    /\ sets = IF "IS_PKT_WAITER" \notin l[p] THEN {}
              ELSE IF pktfree > 0 THEN {"PKT_WAKE"} ELSE {}

\* ... polls if asked to, and passes a waiter for packets on to the holder
\* as PKT_WAKE if there are any, or leaves the flag for the next unlock.
Handle(p, wakes, sets) ==
    /\ IF "NEED_POLL" \in l[p] THEN PollAll /\ wakes \in PollWakes
                               ELSE UNCHANGED <<nic, pktfree>> /\ wakes = {}
    /\ sets = IF "IS_PKT_WAITER" \notin l[p] THEN {}
              ELSE IF pktfree > 0 THEN {"PKT_WAKE"} ELSE {"IS_PKT_WAITER"}

\* ci_netif_unlock of an application: LOCKED alone is swapped by 0.
Unlock(u) ==
    /\ pc[u] = "hold"
    /\ IF lock = {"LOCKED"} THEN lock' = {} /\ Go(u, "idle")
                            ELSE lock' = lock /\ Go(u, "ul_clear")
    /\ UNCHANGED <<trusted, flags, aflags, queued, nic, pktfree, sleep, closing, frame>>

\* ci_netif_unlock_slow at user level
UlClear(u) ==
    /\ pc[u] = "ul_clear" /\ ClearHandled(u, "ul_common")
    /\ UNCHANGED <<trusted, flags, aflags, queued, nic, pktfree, sleep, closing,
                   after, retried, dl, uret, dret>>

\* Variant: every flag is kept, LOCKED included.
UlKeepAll(u) ==
    /\ pc[u] = "ul_common"
    /\ \E w \in SUBSET {"NEED_WAKE"}, s \in SUBSET {"PKT_WAKE", "IS_PKT_WAITER"} :
          /\ Handle(u, w, s)
          /\ lock' = (lock \cup w \cup s) \ (l[u] \cap {"NEED_PRIME"})
    /\ after' = Put(after, u, l[u])
    /\ l' = Put(l, u, {}) /\ Go(u, "ul_read")
    /\ UNCHANGED <<trusted, flags, aflags, queued, sleep, closing,
                   retried, dl, uret, dret>>

\* NEED_PRIME is taken out of the word, and kept for later.
UlCommon(u) ==
    /\ pc[u] = "ul_common"
    /\ \E w \in SUBSET {"NEED_WAKE"}, s \in SUBSET {"PKT_WAKE", "IS_PKT_WAITER"} :
          /\ Handle(u, w, s)
          /\ lock' = (lock \cup w \cup s) \ (l[u] \cap {"NEED_PRIME"})
    /\ after' = Put(after, u, l[u] \cap {"NEED_PRIME"})
    /\ l' = Put(l, u, {}) /\ Go(u, "ul_read")
    /\ UNCHANGED <<trusted, flags, aflags, queued, sleep, closing,
                   retried, dl, uret, dret>>

UlRead(u) ==
    /\ pc[u] = "ul_read"
    /\ IF lock \cap (UnlockFlags \cup {"FL_NEED_WAKE"}) = {}
       THEN l' = Put(l, u, lock) /\ Go(u, "ul_cas")
       ELSE l' = l /\ Go(u, "ul_restore")
    /\ UNCHANGED <<lock, trusted, flags, aflags, queued, nic, pktfree, sleep, closing,
                   after, retried, dl, uret, dret>>

UlCas(u) ==
    /\ pc[u] = "ul_cas"
    /\ IF lock # l[u]
       THEN lock' = lock /\ Go(u, "ul_restore")
       ELSE /\ lock' = lock \ {"LOCKED"}
            /\ Go(u, IF "NEED_PRIME" \in after[u] THEN "ul_prime" ELSE "idle")
    /\ l' = Put(l, u, {})
    /\ UNCHANGED <<trusted, flags, aflags, queued, nic, pktfree, sleep, closing,
                   after, retried, dl, uret, dret>>

\* ef_eventq_prime, after the lock was dropped
UlPrime(u) ==
    /\ pc[u] = "ul_prime"
    /\ primed' = Irqs /\ after' = Put(after, u, {}) /\ Go(u, "idle")
    /\ UNCHANGED <<lock, trusted, flags, aflags, queued, events, arrived, deferred,
                   pktfree, sleep, closing, l, retried, dl, uret, dret>>

\* OO_IOC_EPLOCK_WAKE: the kernel does the rest.
UlRestore(u) ==
    /\ pc[u] = "ul_restore"
    /\ lock' = lock \cup after[u] /\ after' = Put(after, u, {}) /\ Go(u, "k_read")
    /\ UNCHANGED <<trusted, flags, aflags, queued, nic, pktfree, sleep, closing,
                   l, retried, dl, uret, dret>>

-----------------------------------------------------------------------------
(* Dropping the shared lock in the kernel                                  *)

\* ci_netif_unlock: the context is read from ni->flags under the lock.
KUnlock(p) ==
    /\ pc[p] = "k_unlock"
    /\ flags' = {}
    /\ IF lock = {"LOCKED"}
       THEN lock' = {} /\ UnlockReturns(p)
       ELSE /\ lock' = lock /\ dl' = (IF flags # {} THEN dl \cup {p} ELSE dl) /\ Go(p, "k_read")
            /\ UNCHANGED <<l, after, retried, uret, dret>>
    /\ UNCHANGED <<trusted, aflags, queued, nic, pktfree, sleep, closing>>

\* efab_eplock_unlock_and_wake
KRead(p) ==
    /\ pc[p] = "k_read"
    /\ l' = Put(l, p, lock)
    /\ Go(p, IF lock \cap CallbackFlags # {} THEN "cb_clear" ELSE "k_cas")
    /\ UNCHANGED <<lock, trusted, flags, aflags, queued, nic, pktfree, sleep, closing,
                   after, retried, dl, uret, dret>>

KCas(p) ==
    /\ pc[p] = "k_cas"
    /\ IF lock # l[p]
       THEN lock' = lock /\ Go(p, "k_read") /\ UNCHANGED frame
       ELSE /\ lock' = {}
            /\ IF "FL_NEED_WAKE" \in l[p] THEN Go(p, "k_wake") /\ UNCHANGED frame
                                          ELSE UnlockReturns(p)
    /\ UNCHANGED <<trusted, flags, aflags, queued, nic, pktfree, sleep, closing>>

\* Variant: nobody is woken.
KWakeNobody(p) ==
    /\ pc[p] = "k_wake"
    /\ asleep' = asleep /\ UnlockReturns(p)
    /\ UNCHANGED <<lock, trusted, flags, aflags, queued, nic, pktfree, wq, pktq, closing>>

\* wake_up_interruptible
KWake(p) ==
    /\ pc[p] = "k_wake"
    /\ asleep' = asleep \ wq /\ UnlockReturns(p)
    /\ UNCHANGED <<lock, trusted, flags, aflags, queued, nic, pktfree, wq, pktq, closing>>

-----------------------------------------------------------------------------
(* efab_tcp_helper_netif_lock_callback, with the shared lock held          *)

\* The top of the loop, as far as the clearing in unlock_slow_common.
CbClear(p) ==
    /\ pc[p] = "cb_clear" /\ ClearHandled(p, "cb_common")
    /\ flags' = IF p \in dl THEN NiFlags ELSE flags
    /\ UNCHANGED <<trusted, aflags, queued, nic, pktfree, sleep, closing,
                   after, retried, dl, uret, dret>>

\* flags_set: what was found and has to be handled before the lock is dropped
FlagsSet(p, s) == (l[p] \cup s) \cap (UnlockFlags \ {"NEED_POLL"})

\* Variant: the flags are not put back when the lock is left to the work item.
CbDefer(p) ==
    /\ pc[p] = "cb_common"
    /\ \E w \in SUBSET {"NEED_WAKE"}, s \in SUBSET {"PKT_WAKE", "IS_PKT_WAITER"} :
          LET set  == FlagsSet(p, s)
              keep == after[p] \cup (set \cap {"NEED_PRIME", "PKT_WAKE"})
          IN /\ Handle(p, w, s)
             /\ after' = Put(after, p, keep)
             /\ \/ /\ lock' = (lock \cup w \cup s) \ set
                   /\ Go(p, IF "CLOSE_ENDPOINT" \in set THEN "cb_close" ELSE "cb_retry")
                \/ /\ p \in dl /\ "NEED_WAKE" \in set
                   /\ lock' = (lock \cup w \cup s) \ set
                   /\ Go(p, "defer_unlock")
    /\ l' = Put(l, p, {})
    /\ UNCHANGED <<trusted, flags, aflags, queued, sleep, closing,
                   retried, dl, uret, dret>>

\* flags_set is cleared and handled up to CLOSE_ENDPOINT.  In the interrupt
\* handler endpoints may not be woken (oo_avoid_wakeup_from_dl): then every
\* flag is put back and the lock is left to the work item.
CbCommon(p) ==
    /\ pc[p] = "cb_common"
    /\ \E w \in SUBSET {"NEED_WAKE"}, s \in SUBSET {"PKT_WAKE", "IS_PKT_WAITER"} :
          LET set  == FlagsSet(p, s)
              keep == after[p] \cup (set \cap {"NEED_PRIME", "PKT_WAKE"})
          IN /\ Handle(p, w, s)
             /\ after' = Put(after, p, keep)
             /\ \/ /\ lock' = (lock \cup w \cup s) \ set
                   /\ Go(p, IF "CLOSE_ENDPOINT" \in set THEN "cb_close" ELSE "cb_retry")
                \/ /\ p \in dl /\ "NEED_WAKE" \in set
                   /\ lock' = lock \cup w \cup s \cup set \cup keep
                   /\ Go(p, "defer_unlock")
    /\ l' = Put(l, p, {})
    /\ UNCHANGED <<trusted, flags, aflags, queued, sleep, closing,
                   retried, dl, uret, dret>>

\* Variant: the trusted lock is not asked for.
CbCloseAnyway(p) ==
    /\ pc[p] = "cb_close"
    /\ trusted' = trusted \cup {"LOCKED"}
    /\ lock' = IF p \in dl THEN lock \cup after[p] ELSE lock
    /\ dret' = IF p \in dl THEN dret ELSE Put(dret, p, "callback")
    /\ Go(p, IF p \in dl THEN "defer_close" ELSE "close")
    /\ UNCHANGED <<flags, aflags, queued, nic, pktfree, sleep, closing,
                   l, after, retried, dl, uret>>

\* CLOSE_ENDPOINT needs the trusted lock too: its holder is told if there is
\* one (oo_trusted_lock_lock_or_set_flags).
CbClose(p) ==
    /\ pc[p] = "cb_close"
    /\ IF trusted # {}
       THEN trusted' = trusted \cup {"CLOSE_ENDPOINT"} /\ Go(p, "cb_retry") /\ UNCHANGED <<lock, dret>>
       ELSE /\ trusted' = {"LOCKED"}
            /\ lock' = IF p \in dl THEN lock \cup after[p] ELSE lock
            /\ dret' = IF p \in dl THEN dret ELSE Put(dret, p, "callback")
            /\ Go(p, IF p \in dl THEN "defer_close" ELSE "close")
    /\ UNCHANGED <<flags, aflags, queued, nic, pktfree, sleep, closing,
                   l, after, retried, dl, uret>>

\* Once more from "again" when packets have become free for a waiter.
CbRetry(p) ==
    /\ pc[p] = "cb_retry"
    /\ IF p \notin retried /\ "IS_PKT_WAITER" \in lock /\ pktfree > 0
       THEN retried' = retried \cup {p} /\ Go(p, "cb_clear") /\ flags' = flags
       ELSE retried' = retried /\ Go(p, "cb_read") /\ flags' = IF p \in dl THEN {} ELSE flags
    /\ UNCHANGED <<lock, trusted, aflags, queued, nic, pktfree, sleep, closing,
                   l, after, dl, uret, dret>>

\* ef_eplock_try_unlock
CbRead(p) ==
    /\ pc[p] = "cb_read"
    /\ l' = Put(l, p, lock)
    /\ Go(p, IF lock \cap UnlockFlags # {} THEN "cb_clear" ELSE "cb_cas")
    /\ UNCHANGED <<lock, trusted, flags, aflags, queued, nic, pktfree, sleep, closing,
                   after, retried, dl, uret, dret>>

CbCas(p) ==
    /\ pc[p] = "cb_cas"
    /\ IF lock = l[p] THEN lock' = lock \ {"LOCKED", "FL_NEED_WAKE"} /\ Go(p, "cb_after")
                      ELSE lock' = lock /\ Go(p, "cb_clear")
    /\ UNCHANGED <<trusted, flags, aflags, queued, nic, pktfree, sleep, closing, frame>>

\* test_and_clear of evq_prime_deferred, then tcp_helper_request_wakeup_nic.  For an
\* interface that must not be polled in the kernel, left out here, the bit is
\* cleared and the queue is not primed.
PrimeIfDeferred ==
    /\ primed' = primed \cup deferred /\ deferred' = {}
    /\ UNCHANGED <<events, arrived>>

\* The lock is dropped: prime and wake those who wait for packets; the value
\* returned tells unlock_and_wake whether anybody waits for the lock.
CbAfter(p) ==
    /\ pc[p] = "cb_after"
    /\ IF "NEED_PRIME" \in after[p] THEN PrimeIfDeferred ELSE UNCHANGED nic
    /\ asleep' = IF "PKT_WAKE" \in after[p] THEN asleep \ pktq ELSE asleep
    /\ IF "FL_NEED_WAKE" \in l[p] THEN Go(p, "k_wake") /\ UNCHANGED frame
                                  ELSE UnlockReturns(p)
    /\ UNCHANGED <<lock, trusted, flags, aflags, queued, pktfree, wq, pktq, closing>>

\* tcp_helper_defer_dl2work: the flag first, then the queue.
Defer(p) ==
    /\ \E d \in {<<"defer_unlock", "UNLOCK_UNTRUSTED", "queue_unlock">>,
                 <<"defer_close", "CLOSE_ENDPOINTS", "queue">>,
                 <<"defer_poll", "POLL_AND_PRIME", "queue">>} :
          pc[p] = d[1] /\ aflags' = aflags \cup {d[2]} /\ Go(p, d[3])
    /\ flags' = {}
    /\ UNCHANGED <<lock, trusted, queued, nic, pktfree, sleep, closing, frame>>

\* Variant: the work item is not queued.
QueueLater(p) ==
    /\ queued' = queued
    /\ \/ pc[p] = "queue_unlock" /\ UnlockReturns(p)
       \/ pc[p] = "queue" /\ DropReturns(p)
    /\ UNCHANGED <<lock, trusted, flags, aflags, nic, pktfree, sleep, closing>>

Queue(p) ==
    /\ queued' = TRUE
    /\ \/ pc[p] = "queue_unlock" /\ UnlockReturns(p)
       \/ pc[p] = "queue" /\ DropReturns(p)
    /\ UNCHANGED <<lock, trusted, flags, aflags, nic, pktfree, sleep, closing>>

-----------------------------------------------------------------------------
(* oo_trusted_lock_drop                                                    *)

Drop(p) ==
    /\ pc[p] = "drop"
    /\ \/ /\ trusted = {"LOCKED"}
          /\ trusted' = {} /\ DropReturns(p)
       \/ /\ "CLOSE_ENDPOINT" \in trusted
          /\ trusted' = trusted \ {"CLOSE_ENDPOINT"} /\ Go(p, "drop_close")
          /\ UNCHANGED frame
       \/ /\ "CLOSE_ENDPOINT" \notin trusted /\ trusted # {"LOCKED"}
          /\ trusted' = {"LOCKED"} /\ Go(p, "drop_set")
          /\ l' = Put(l, p, trusted \ {"LOCKED"})
          /\ UNCHANGED <<after, retried, dl, uret, dret>>
    /\ UNCHANGED <<lock, flags, aflags, queued, nic, pktfree, sleep, closing>>

\* Variant: the interrupt handler closes, too.
DropCloseNow(p) ==
    /\ pc[p] = "drop_close"
    /\ IF "LOCKED" \in lock
       THEN lock' = lock \cup {"CLOSE_ENDPOINT"} /\ Go(p, "drop")
       ELSE /\ lock' = lock \cup {"LOCKED"}
            /\ Go(p, "close")
    /\ UNCHANGED <<trusted, flags, aflags, queued, nic, pktfree, sleep, closing, frame>>

\* Variant: the holder of the shared lock is not told.
DropCloseForget(p) ==
    /\ pc[p] = "drop_close"
    /\ IF "LOCKED" \in lock
       THEN lock' = lock /\ Go(p, "drop")
       ELSE /\ lock' = lock \cup {"LOCKED"}
            /\ Go(p, IF p \in Irqs THEN "defer_close" ELSE "close")
    /\ UNCHANGED <<trusted, flags, aflags, queued, nic, pktfree, sleep, closing, frame>>

\* ef_eplock_lock_or_set_flag; the interrupt handler leaves both locks to the
\* work item.
DropClose(p) ==
    /\ pc[p] = "drop_close"
    /\ IF "LOCKED" \in lock
       THEN lock' = lock \cup {"CLOSE_ENDPOINT"} /\ Go(p, "drop")
       ELSE /\ lock' = lock \cup {"LOCKED"}
            /\ Go(p, IF p \in Irqs THEN "defer_close" ELSE "close")
    /\ UNCHANGED <<trusted, flags, aflags, queued, nic, pktfree, sleep, closing, frame>>

\* ef_eplock_trylock_and_set_flags
DropSet(p) ==
    /\ pc[p] = "drop_set"
    /\ lock' = lock \cup {"LOCKED"} \cup l[p] /\ l' = Put(l, p, {})
    /\ IF "LOCKED" \in lock
       THEN Go(p, "drop") /\ UNCHANGED <<flags, uret>>
       ELSE /\ flags' = IF p \in Irqs THEN NiFlags ELSE flags
            /\ uret' = Put(uret, p, "drop") /\ Go(p, "k_unlock")
    /\ UNCHANGED <<trusted, aflags, queued, nic, pktfree, sleep, closing,
                   after, retried, dl, dret>>

-----------------------------------------------------------------------------
(* Closing endpoints: tcp_helper_close_pending_endpoints                   *)

Close(p) ==
    /\ pc[p] = "close" /\ PollAll
    /\ \E w \in PollWakes : lock' = lock \cup w
    /\ Go(p, "closing")
    /\ UNCHANGED <<trusted, flags, aflags, queued, sleep, closing, frame>>

ClosePending(p) ==
    /\ pc[p] = "closing"
    /\ \E e \in tobe_closed : tobe_closed' = tobe_closed \ {e} /\ closed' = closed \cup {e}
    /\ UNCHANGED <<lock, trusted, flags, aflags, queued, nic, pktfree, sleep, pc, frame>>

\* In the callback the trusted lock is dropped next, elsewhere both are.
CloseDone(p) ==
    /\ pc[p] = "closing" /\ tobe_closed = {}
    /\ IF dret[p] = "callback"
       THEN Go(p, "drop") /\ uret' = uret
       ELSE Go(p, "k_unlock") /\ uret' = Put(uret, p, "drop")
    /\ UNCHANGED <<lock, trusted, flags, aflags, queued, nic, pktfree, sleep, closing,
                   l, after, retried, dl, dret>>

\* efab_tcp_helper_close_endpoint, for a caller without the lock
CloseEndpoint(c, e) ==
    /\ c \in Closers /\ pc[c] = "idle" /\ e \notin tobe_closed \cup closed
    /\ tobe_closed' = tobe_closed \cup {e} /\ Go(c, "try")
    /\ UNCHANGED <<lock, trusted, flags, aflags, queued, nic, pktfree, sleep, closed, frame>>

(* efab_tcp_helper_netif_try_lock: the trusted lock, then the shared one   *)
TryTrusted(p) ==
    /\ pc[p] = "try"
    /\ IF trusted = {} THEN trusted' = {"LOCKED"} /\ Go(p, "try_read")
                       ELSE trusted' = trusted /\ Go(p, "try_failed")
    /\ UNCHANGED <<lock, flags, aflags, queued, nic, pktfree, sleep, closing, frame>>

TryRead(p) ==
    /\ pc[p] = "try_read"
    /\ IF "LOCKED" \in lock
       THEN Go(p, "drop") /\ dret' = Put(dret, p, "failed") /\ l' = l
       ELSE Go(p, "try_cas") /\ l' = Put(l, p, lock) /\ dret' = dret
    /\ UNCHANGED <<lock, trusted, flags, aflags, queued, nic, pktfree, sleep, closing,
                   after, retried, dl, uret>>

\* Variant: the word is not compared.
TryStore(p) ==
    /\ pc[p] = "try_cas"
    /\ l' = Put(l, p, {})
    /\ lock' = lock \cup {"LOCKED"} /\ flags' = IF p \in Irqs THEN NiFlags ELSE flags
    /\ Go(p, IF p \in Irqs THEN "i_poll" ELSE "close")
    /\ UNCHANGED <<trusted, aflags, queued, nic, pktfree, sleep, closing,
                   after, retried, dl, uret, dret>>

TryCas(p) ==
    /\ pc[p] = "try_cas"
    /\ l' = Put(l, p, {})
    /\ IF lock = l[p]
       THEN /\ lock' = lock \cup {"LOCKED"} /\ flags' = IF p \in Irqs THEN NiFlags ELSE flags
            /\ Go(p, IF p \in Irqs THEN "i_poll" ELSE "close") /\ dret' = dret
       ELSE /\ Go(p, "drop") /\ dret' = Put(dret, p, "failed")
            /\ UNCHANGED <<lock, flags>>
    /\ UNCHANGED <<trusted, aflags, queued, nic, pktfree, sleep, closing,
                   after, retried, dl, uret>>

(* ... and what a caller that did not get both asks of the holder of one   *)
Wanted(p) == IF p \in Irqs THEN {"NEED_POLL", "NEED_PRIME"} ELSE {"CLOSE_ENDPOINT"}

TryFailed(p) ==
    /\ pc[p] = "try_failed"
    /\ deferred' = deferred \cup ({p} \cap Irqs) /\ Go(p, "set_shared")
    /\ UNCHANGED <<lock, trusted, flags, aflags, queued, events, arrived, primed,
                   pktfree, sleep, closing, frame>>

\* Variant: the flag is set whether or not there is a holder to see it.
SetSharedAnyway(p) ==
    /\ pc[p] = "set_shared"
    /\ lock' = lock \cup Wanted(p) /\ Go(p, "idle")
    /\ UNCHANGED <<trusted, flags, aflags, queued, nic, pktfree, sleep, closing, frame>>

\* ef_eplock_set_flags_if_locked
SetShared(p) ==
    /\ pc[p] = "set_shared"
    /\ IF "LOCKED" \in lock THEN lock' = lock \cup Wanted(p) /\ Go(p, "idle")
                            ELSE lock' = lock /\ Go(p, "set_trusted")
    /\ UNCHANGED <<trusted, flags, aflags, queued, nic, pktfree, sleep, closing, frame>>

\* oo_trusted_lock_set_flags_if_locked; nobody to ask: try again
SetTrusted(p) ==
    /\ pc[p] = "set_trusted"
    /\ IF trusted # {} THEN trusted' = trusted \cup Wanted(p) /\ Go(p, "idle")
                       ELSE trusted' = trusted /\ Go(p, IF p \in Irqs THEN "i_loop" ELSE "try")
    /\ UNCHANGED <<lock, flags, aflags, queued, nic, pktfree, sleep, closing, frame>>

-----------------------------------------------------------------------------
(* The event queue and oo_handle_wakeup_int_driven                         *)

Arrive(i) ==
    /\ i \notin events /\ arrived < MaxEvents
    /\ events' = events \cup {i} /\ arrived' = arrived + 1
    /\ UNCHANGED <<lock, trusted, flags, aflags, queued, primed, deferred, pktfree,
                   sleep, closing, pc, frame>>

Interrupt(i) ==
    /\ pc[i] = "idle" /\ i \in primed \cap events
    /\ primed' = primed \ {i} /\ Go(i, "i_entry")
    /\ UNCHANGED <<lock, trusted, flags, aflags, queued, events, arrived, deferred,
                   pktfree, sleep, closing, frame>>

\* Variant: the work item is not looked at again.
IrqEntryOnce(i) ==
    /\ \/ pc[i] = "i_entry" /\ Go(i, IF "POLL_AND_PRIME" \in aflags THEN "i_defer" ELSE "i_loop")
       \/ pc[i] = "i_again" /\ Go(i, "idle")
       \/ pc[i] = "i_loop"  /\ Go(i, IF i \in events THEN "try" ELSE "i_bit")
    /\ UNCHANGED <<lock, trusted, flags, aflags, queued, nic, pktfree, sleep, closing, frame>>

\* Is the work item going to poll and prime?  It is told to prime, and looked
\* at again in case it had already been past the bit.
IrqEntry(i) ==
    /\ \/ pc[i] = "i_entry" /\ Go(i, IF "POLL_AND_PRIME" \in aflags THEN "i_defer" ELSE "i_loop")
       \/ pc[i] = "i_again" /\ Go(i, IF "POLL_AND_PRIME" \in aflags THEN "idle" ELSE "i_test")
       \/ pc[i] = "i_loop"  /\ Go(i, IF i \in events THEN "try" ELSE "i_bit")
    /\ UNCHANGED <<lock, trusted, flags, aflags, queued, nic, pktfree, sleep, closing, frame>>

IrqSetBit(i) ==
    /\ \/ pc[i] = "i_defer" /\ Go(i, "i_again")
       \/ pc[i] = "i_bit" /\ Go(i, "i_prime")
    /\ deferred' = deferred \cup {i}
    /\ UNCHANGED <<lock, trusted, flags, aflags, queued, events, arrived, primed,
                   pktfree, sleep, closing, frame>>

IrqTestBit(i) ==
    /\ pc[i] = "i_test"
    /\ deferred' = deferred \ {i} /\ Go(i, IF i \in deferred THEN "i_loop" ELSE "idle")
    /\ UNCHANGED <<lock, trusted, flags, aflags, queued, events, arrived, primed,
                   pktfree, sleep, closing, frame>>

\* With both locks: poll as much as the budget allows, and leave the rest,
\* with the locks, to the work item, or prime and unlock.
IrqPoll(i) ==
    /\ pc[i] = "i_poll"
    /\ \E w \in PollWakes : lock' = lock \cup w
    /\ events' \in SUBSET events /\ PollFrees
    /\ IF i \in events'
       THEN /\ deferred' = deferred \cup {i} /\ Go(i, "defer_poll")
            /\ UNCHANGED <<primed, uret>>
       ELSE /\ deferred' = deferred \ {i} /\ primed' = primed \cup {i}
            /\ uret' = Put(uret, i, "drop") /\ Go(i, "k_unlock")
    /\ UNCHANGED <<trusted, flags, aflags, queued, arrived, sleep, closing,
                   l, after, retried, dl, dret>>

\* No events any more: prime, or have the holder of a lock do it.
IrqPrime(i) ==
    /\ pc[i] = "i_prime"
    /\ IF "LOCKED" \in lock THEN lock' = lock \cup {"NEED_PRIME"} /\ Go(i, "idle")
                            ELSE lock' = lock /\ Go(i, "i_prime_trusted")
    /\ UNCHANGED <<trusted, flags, aflags, queued, nic, pktfree, sleep, closing, frame>>

IrqPrimeTrusted(i) ==
    /\ pc[i] = "i_prime_trusted"
    /\ IF trusted # {} THEN trusted' = trusted \cup {"NEED_PRIME"} /\ Go(i, "idle")
                       ELSE trusted' = trusted /\ Go(i, "i_prime_self")
    /\ UNCHANGED <<lock, flags, aflags, queued, nic, pktfree, sleep, closing, frame>>

IrqPrimeSelf(i) ==
    /\ pc[i] = "i_prime_self"
    /\ primed' = primed \cup ({i} \cap deferred) /\ deferred' = deferred \ {i}
    /\ Go(i, "idle")
    /\ UNCHANGED <<lock, trusted, flags, aflags, queued, events, arrived, pktfree, sleep, closing,
                   frame>>

-----------------------------------------------------------------------------
(* tcp_helper_do_non_atomic                                                *)

\* The work item is also queued for endpoints (tcp_helper_endpoint_queue_non_atomic)
\* and serves their list first, without the locks; that list is left out.
WorkStart ==
    /\ pc[Work] = "idle" /\ queued
    /\ queued' = FALSE /\ Go(Work, "w_untrusted")
    /\ UNCHANGED <<lock, trusted, flags, aflags, nic, pktfree, sleep, closing, frame>>

\* need_unlock_shared
WorkUntrusted ==
    /\ pc[Work] = "w_untrusted"
    /\ Go(Work, IF "UNLOCK_UNTRUSTED" \in aflags THEN "w_trusted_unlock" ELSE "w_trusted")
    /\ aflags' = aflags \ {"UNLOCK_UNTRUSTED"}
    /\ UNCHANGED <<lock, trusted, flags, queued, nic, pktfree, sleep, closing, frame>>

WorkTrusted ==
    /\ pc[Work] \in {"w_trusted", "w_trusted_unlock"}
    /\ aflags' = aflags \ DeferredTrusted
    /\ l' = Put(l, Work, aflags \cap DeferredTrusted)
    /\ Go(Work, IF "POLL_AND_PRIME" \in aflags THEN "w_poll"
                ELSE IF "CLOSE_ENDPOINTS" \in aflags THEN "close"
                ELSE IF pc[Work] = "w_trusted_unlock" THEN "k_unlock" ELSE "idle")
    /\ UNCHANGED <<lock, trusted, flags, queued, nic, pktfree, sleep, closing,
                   after, retried, dl, uret, dret>>

WorkPoll ==
    /\ pc[Work] = "w_poll" /\ PollAll
    /\ \E w \in PollWakes : lock' = lock \cup w
    /\ Go(Work, "w_prime")
    /\ UNCHANGED <<trusted, flags, aflags, queued, sleep, closing, frame>>

WorkPrime ==
    /\ pc[Work] = "w_prime" /\ PrimeIfDeferred
    /\ IF "CLOSE_ENDPOINTS" \in l[Work]
       THEN Go(Work, "close") /\ uret' = uret
       ELSE Go(Work, "k_unlock") /\ uret' = Put(uret, Work, "drop")
    /\ UNCHANGED <<lock, trusted, flags, aflags, queued, pktfree, sleep, closing,
                   l, after, retried, dl, dret>>

-----------------------------------------------------------------------------
\* What a user thread does when it likes ...
UserChoice(u) == Lock(u) \/ PktWait(u) \/ Interrupted(u) \/ PktInterrupted(u)
                 \/ Poll(u) \/ UsePackets(u)

\* ... and what it does next without being asked.
UserStep(u) ==
    \/ Spin(u) \/ AddToWaitQueue(u) \/ SetState(u) \/ LockOrRequestWake(u) \/ Scheduled(u)
    \/ PktCheck(u) \/ PktReadLock(u) \/ PktSetWaiter(u) \/ PktScheduled(u)
    \/ Unlock(u) \/ UlClear(u) \/ UlCommon(u) \/ UlRead(u) \/ UlCas(u) \/ UlPrime(u)
    \/ UlRestore(u)

KernelStep(p) ==
    \/ KUnlock(p) \/ KRead(p) \/ KCas(p) \/ KWake(p)
    \/ CbClear(p) \/ CbCommon(p) \/ CbClose(p) \/ CbRetry(p) \/ CbRead(p) \/ CbCas(p)
    \/ CbAfter(p) \/ Defer(p) \/ Queue(p)
    \/ Drop(p) \/ DropClose(p) \/ DropSet(p)
    \/ Close(p) \/ ClosePending(p) \/ CloseDone(p)

TryStep(p) ==
    TryTrusted(p) \/ TryRead(p) \/ TryCas(p) \/ TryFailed(p) \/ SetShared(p) \/ SetTrusted(p)

IrqStep(i) ==
    \/ Interrupt(i) \/ IrqEntry(i) \/ IrqSetBit(i) \/ IrqTestBit(i) \/ IrqPoll(i)
    \/ IrqPrime(i) \/ IrqPrimeTrusted(i) \/ IrqPrimeSelf(i)

WorkStep == WorkStart \/ WorkUntrusted \/ WorkTrusted \/ WorkPoll \/ WorkPrime

Next ==
    \/ \E i \in Irqs : Arrive(i) \/ IrqStep(i)
    \/ \E u \in Users : UserChoice(u) \/ UserStep(u)
    \/ \E c \in Closers, e \in Eps : CloseEndpoint(c, e)
    \/ \E p \in Procs : KernelStep(p)
    \/ \E p \in Closers \cup Irqs : TryStep(p)
    \/ WorkStep

Spec == Init /\ [][Next]_vars

\* Threads, handlers and work items that are not asleep are scheduled; an
\* application drops the lock some time after it took it.
Fairness ==
    /\ \A u \in Users : WF_vars(UserStep(u) \/ KernelStep(u))
    /\ \A c \in Closers : WF_vars(TryStep(c) \/ KernelStep(c))
    /\ \A i \in Irqs : WF_vars(IrqStep(i) \/ TryStep(i) \/ KernelStep(i))
    /\ WF_vars(WorkStep \/ KernelStep(Work))

FairSpec == Spec /\ Fairness

-----------------------------------------------------------------------------
(* Properties                                                              *)

SharedLock == INSTANCE Lock WITH
    Givers <- Irqs, Taker <- Work, owners <- {p \in Procs : HoldsShared(p)}
TrustedLock == INSTANCE Lock WITH
    Givers <- Irqs, Taker <- Work, owners <- {p \in Procs : HoldsTrusted(p)}

\* Each lock is a lock: the compare-and-swaps, the callbacks and the locks
\* stolen by the interrupt handler implement an owner that is never two
\* processes and that only the handler passes on, to the work item.
SharedIsALock == SharedLock!Spec
TrustedIsALock == TrustedLock!Spec

\* No lock is held twice, and a word says LOCKED exactly while the lock is
\* held by a process or kept for the work item in trs_aflags.
MutualExclusion ==
    /\ \A p, q \in Procs : HoldsShared(p) /\ HoldsShared(q) => p = q
    /\ \A p, q \in Procs : HoldsTrusted(p) /\ HoldsTrusted(q) => p = q
    /\ ("LOCKED" \in lock) <=> \E p \in Procs : HoldsShared(p)
    /\ ("LOCKED" \in trusted) <=> \E p \in Procs : HoldsTrusted(p)

\* A thread asleep in oo_eplock_lock has asked a holder to wake it, or the
\* process that dropped the lock is on its way to wake_up_interruptible.
NoLostWakeup ==
    \A u \in Users : pc[u] = "sched" /\ u \in asleep =>
        \/ {"LOCKED", "FL_NEED_WAKE"} \subseteq lock
        \/ \E p \in Procs : \/ pc[p] = "k_wake"
                            \/ pc[p] = "cb_after" /\ "FL_NEED_WAKE" \in l[p]

\* A thread asleep in efab_tcp_helper_pkt_wait is not forgotten: IS_PKT_WAITER
\* stays in the word, locked or not, or has become the duty of a holder.
PktWaiterIsRemembered ==
    \A u \in Users : pc[u] = "pkt_sched" /\ u \in asleep =>
        \/ lock \cap {"IS_PKT_WAITER", "PKT_WAKE"} # {}
        \/ \E p \in Procs : \/ pc[p] \in {"ul_common", "cb_common"} /\ "IS_PKT_WAITER" \in l[p]
                            \/ "PKT_WAKE" \in after[p]

\* The flags that must be handled before the lock is dropped
\* (CI_EPLOCK_NETIF_UNLOCK_FLAGS) are never found in a word nobody holds.
UnlockedMeansHandled ==
    /\ "LOCKED" \notin lock => lock \cap (UnlockFlags \cup {"FL_NEED_WAKE"}) = {}
    /\ "LOCKED" \notin trusted => trusted = {}

\* An endpoint on ep_tobe_closed has somebody who will close it: its closer
\* until the flag is set, then whoever finds a flag, the work item included.
ClosingIsOwed ==
    tobe_closed # {} =>
        \/ "CLOSE_ENDPOINT" \in lock \cup trusted
        \/ "CLOSE_ENDPOINTS" \in aflags \cup l[Work]
        \/ \E p \in Procs : pc[p] \in {"close", "closing", "cb_close", "drop_close", "defer_close"}
        \/ \E c \in Closers : pc[c] \in TryPcs \/ dret[c] = "failed"

\* Once its handler has returned, an event queue that is not primed has the
\* deferred bit set and somebody who will come to look at it.
PrimeIsOwed ==
    \A i \in Irqs \ primed : pc[i] = "idle" =>
        /\ i \in deferred
        /\ \/ "NEED_PRIME" \in lock \cup trusted
           \/ "POLL_AND_PRIME" \in aflags
           \/ pc[Work] \in {"w_poll", "w_prime"}
           \/ \E p \in Procs : \/ "NEED_PRIME" \in after[p]
                               \/ pc[p] = "drop_set" /\ "NEED_PRIME" \in l[p]

\* close_pending_endpoints asserts that it may sleep: an interrupt handler
\* never runs it, since in_dl_context travels with the shared lock and with
\* it alone.
InterruptContext ==
    /\ \A i \in Irqs : pc[i] \notin {"close", "closing"}
    /\ flags # {} => \E i \in Irqs : HoldsShared(i)
    /\ dl \subseteq Irqs

\* The two loops that the code does not bound: a request finds, again and
\* again, that the locks were free when it asked their holder and taken when
\* it tried them (efab_tcp_helper_netif_lock_or_set_flags), and the holder of
\* the trusted lock passes CLOSE_ENDPOINT to the holder of the shared lock, who
\* passes it back (oo_trusted_lock_drop, netif_lock_callback).
Contended ==
    \/ []<><<\E p \in Closers \cup Irqs : SetTrusted(p) /\ pc'[p] # "idle">>_vars
    \/ []<><<\E p \in Procs : DropClose(p)>>_vars

\* An event is polled in the end, whoever holds the lock when it arrives.
EventsArePolled ==
    (\A i \in Irqs : i \in events ~> i \notin events) \/ Contended

\* A thread asleep for the lock is woken in the end.
SleepersAreWoken ==
    (\A u \in Users : pc[u] = "sched" ~> pc[u] # "sched") \/ Contended

\* An endpoint is closed in the end.
EndpointsAreClosed ==
    (\A e \in Eps : e \in tobe_closed ~> e \in closed) \/ Contended

=============================================================================
