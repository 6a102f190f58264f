------------------------------- MODULE StackLockFrame -------------------------------
(***************************************************************************)
(* The inductive invariant of StackLock, the types, what the provers need  *)
(* to know of its operators, and the parts of the invariant that each      *)
(* process keeps for itself.  A leaf that names SMT more than once is one  *)
(* whose translation may use up the time of the first attempt.             *)
(***************************************************************************)
EXTENDS StackLock, TLAPS

-----------------------------------------------------------------------------
(* The inductive invariant                                                 *)

\* The owner of a lock by what it is doing, trs_aflags left aside.
RunsShared(p) == pc[p] \in SharedPcs \/ dret[p] = "callback"
RunsTrusted(p) == pc[p] \in TrustedPcs \/ uret[p] = "drop"

\* Where a process is when it is going to return to oo_trusted_lock_drop, and
\* when it is going to return to netif_lock_callback.
UretPcs == UnlockPcs \cup UnlockedPcs
DretPcs == DropPcs \cup {"close", "closing"}

\* The types of the variables, in parts that different steps disturb.
WordTypes ==
    /\ lock \subseteq LockBits /\ trusted \subseteq TrustedBits
    /\ flags \subseteq NiFlags /\ aflags \subseteq AFlags /\ queued \in BOOLEAN
OtherTypes ==
    /\ events \subseteq Irqs /\ arrived \in 0..MaxEvents
    /\ primed \subseteq Irqs /\ deferred \subseteq Irqs
    /\ pktfree \in 0..1 /\ wq \subseteq Users /\ pktq \subseteq Users /\ asleep \subseteq Users
    /\ tobe_closed \subseteq Eps /\ closed \subseteq Eps
LocalTypes ==
    /\ pc \in [Procs -> Pcs]
    /\ l \in [Procs -> SUBSET (LockBits \cup AFlags)]
    /\ after \in [Procs -> SUBSET UnlockFlags]
    /\ retried \subseteq Procs /\ dl \subseteq Procs
    /\ uret \in [Procs -> {"done", "drop"}]
    /\ dret \in [Procs -> {"done", "failed", "callback"}]

\* l is a copy of the shared word, of the trusted word or of trs_aflags; what
\* oo_trusted_lock_drop moves to the shared word is of the second kind.
DropTypes == \A p \in Procs : pc[p] = "drop_set" => l[p] \subseteq TrustedBits

TypeInv == WordTypes /\ OtherTypes /\ LocalTypes /\ DropTypes

\* Of the types, what the other parts rest on: every process has its place in
\* the code and its local variables.
FrameTypes ==
    /\ DOMAIN pc = Procs /\ DOMAIN l = Procs /\ DOMAIN after = Procs
    /\ DOMAIN uret = Procs /\ DOMAIN dret = Procs

\* What a process remembers fits what it is doing.
FrameInv ==
    \A p \in Procs :
        /\ uret[p] = "drop" => pc[p] \in UretPcs
        /\ dret[p] = "callback" => pc[p] \in DretPcs

\* What a compare-and-swap compares with is a word that it may replace.
CopyInv ==
    \A p \in Procs :
        /\ pc[p] = "try_cas" => "LOCKED" \notin l[p]
        /\ pc[p] = "ul_cas" => l[p] \cap (UnlockFlags \cup {"FL_NEED_WAKE"}) = {}
        /\ pc[p] = "k_cas" => l[p] \cap CallbackFlags = {}
        /\ pc[p] = "cb_cas" => l[p] \cap UnlockFlags = {}

\* A lock kept in trs_aflags is kept once, and the work item is not running
\* with a lock that it has not collected yet.
DeferInv ==
    /\ \A a, b \in aflags : a = b
    /\ aflags # {} => ~RunsShared(Work)
    /\ aflags \cap DeferredTrusted # {} => ~RunsTrusted(Work)

\* IN_DL_CONTEXT is set while an interrupt handler has the shared lock, but
\* for the moments when the handler drops it.
ContextInv ==
    /\ InterruptContext
    /\ \A i \in Irqs : pc[i] \in {"i_poll", "k_unlock"} => flags # {}
    /\ \A i \in Irqs : pc[i] \in {"k_read", "k_cas", "cb_clear", "cb_common",
                                  "cb_close", "cb_retry", "cb_read", "cb_cas"} => i \in dl
    /\ \A p \in Procs : pc[p] \in {"k_read", "k_cas", "cb_read", "cb_cas"} => flags = {}
    /\ \A i \in Irqs : dret[i] # "callback"
    /\ \A p \in Procs : pc[p] \in {"defer_unlock", "defer_close", "defer_poll"} => p \in Irqs

\* A thread is on a wait queue while it is in oo_eplock_lock or in
\* efab_tcp_helper_pkt_wait.
QueueInv ==
    \A u \in Users :
        /\ pc[u] \in {"state", "request", "sched"} => u \in wq
        /\ pc[u] \in {"pkt_check", "pkt_flag", "pkt_cas", "pkt_sched"} => u \in pktq

\* A closer that drops the trusted lock before it asks has that lock, and a
\* handler has the trusted lock whenever it drops the shared one.
ReturnInv ==
    /\ \A c \in Closers : dret[c] = "failed" => RunsTrusted(c)
    /\ \A i \in Irqs : pc[i] \in UretPcs => uret[i] = "drop"

\* A handler that drops the locks and has not primed its queue failed to get
\* both of them, and is going to ask.
Dropping(i) == pc[i] \in DropPcs \/ pc[i] \in UretPcs \/ pc[i] = "defer_close"
FailedInv ==
    \A i \in Irqs :
        /\ i \notin primed /\ Dropping(i) => dret[i] = "failed"
        /\ dret[i] = "failed" => Dropping(i) \/ pc[i] = "queue"

\* A process is in the callback of the shared lock, or comes back to it: its
\* after_unlock_flags are going to be looked at.
CbPcs == {"cb_clear", "cb_common", "cb_close", "cb_retry", "cb_read", "cb_cas", "cb_after"}
InCallback(p) == pc[p] \in CbPcs \/ dret[p] = "callback"

\* Who is going to wake the threads that wait for packets.
PktDuty ==
    \/ lock \cap {"IS_PKT_WAITER", "PKT_WAKE"} # {}
    \/ \E p \in Procs :
          \/ pc[p] \in {"ul_common", "cb_common"} /\ "IS_PKT_WAITER" \in l[p]
          \/ InCallback(p) /\ "PKT_WAKE" \in after[p]
PktInv == (\E u \in Users : pc[u] = "pkt_sched" /\ u \in asleep) => PktDuty

\* Who is going to close what is on ep_tobe_closed.
ClosingDuty ==
    \/ "CLOSE_ENDPOINT" \in lock \/ "CLOSE_ENDPOINT" \in trusted
    \/ "CLOSE_ENDPOINTS" \in aflags
    \/ pc[Work] \in {"w_poll", "w_prime"} /\ "CLOSE_ENDPOINTS" \in l[Work]
    \/ \E p \in Procs : pc[p] \in {"close", "closing", "cb_close", "drop_close", "defer_close"}
    \/ \E c \in Closers : pc[c] \in TryPcs \/ dret[c] = "failed"
ClosingInv == tobe_closed # {} => ClosingDuty

\* Who is going to prime the event queues with the deferred bit.
PrimeDuty ==
    \/ "NEED_PRIME" \in lock \/ "NEED_PRIME" \in trusted
    \/ "POLL_AND_PRIME" \in aflags
    \/ pc[Work] \in {"w_poll", "w_prime"}
    \/ \E p \in Procs :
          \/ pc[p] = "drop_set" /\ "NEED_PRIME" \in l[p]
          \/ pc[p] \in {"ul_read", "ul_cas", "ul_prime", "ul_restore"} /\ "NEED_PRIME" \in after[p]
          \/ InCallback(p) /\ "NEED_PRIME" \in after[p]

\* A queue that is not primed has the deferred bit when its handler relies on
\* somebody else to prime it.
BitInv ==
    \A i \in Irqs \ primed :
        pc[i] \in {"idle", "queue", "defer_poll", "i_again", "i_test", "i_prime",
                   "i_prime_trusted", "i_prime_self", "set_shared", "set_trusted"}
          => i \in deferred \/ dret[i] = "failed"

\* ... and somebody to rely on when the handler is done.
PrimeInv ==
    \A i \in Irqs \ primed :
        pc[i] \in {"idle", "queue"} => PrimeDuty \/ dret[i] = "failed"

IInv ==
    /\ TypeInv
    /\ FrameTypes /\ FrameInv /\ CopyInv /\ QueueInv /\ ReturnInv /\ FailedInv
    /\ MutualExclusion /\ DeferInv /\ ContextInv
    /\ UnlockedMeansHandled /\ NoLostWakeup
    /\ PktInv /\ ClosingInv /\ BitInv /\ PrimeInv

-----------------------------------------------------------------------------
(* The types                                                               *)

\* The steps of the stack, in the groups in which the proofs take them.
LEMMA NextSteps ==
    Next =>
      \/ \E u \in Users : Lock(u) \/ Spin(u) \/ LockOrRequestWake(u)
      \/ \E u \in Users : AddToWaitQueue(u) \/ SetState(u) \/ Scheduled(u)
            \/ Interrupted(u)
      \/ \E u \in Users : Poll(u) \/ UsePackets(u)
      \/ \E u \in Users : PktWait(u) \/ PktCheck(u) \/ PktReadLock(u)
            \/ PktSetWaiter(u) \/ PktScheduled(u) \/ PktInterrupted(u)
      \/ \E u \in Users : Unlock(u) \/ UlClear(u) \/ UlCommon(u) \/ UlRestore(u)
      \/ \E u \in Users : UlRead(u) \/ UlCas(u) \/ UlPrime(u)
      \/ \E p \in Procs : KUnlock(p) \/ KRead(p) \/ KCas(p) \/ KWake(p)
      \/ \E p \in Procs : CbClear(p) \/ CbCommon(p) \/ CbRetry(p)
      \/ \E p \in Procs : CbClose(p)
      \/ \E p \in Procs : CbRead(p) \/ CbCas(p) \/ CbAfter(p)
      \/ \E p \in Procs : Defer(p) \/ Queue(p)
      \/ \E p \in Procs : Drop(p) \/ DropClose(p) \/ DropSet(p)
      \/ \E p \in Procs : Close(p) \/ ClosePending(p) \/ CloseDone(p)
      \/ \E c \in Closers, e \in Eps : CloseEndpoint(c, e)
      \/ \E p \in Closers \cup Irqs : TryTrusted(p) \/ TryRead(p) \/ TryCas(p)
      \/ \E p \in Closers \cup Irqs : TryFailed(p) \/ SetShared(p) \/ SetTrusted(p)
      \/ \E i \in Irqs : Arrive(i) \/ Interrupt(i) \/ IrqEntry(i) \/ IrqSetBit(i)
            \/ IrqTestBit(i)
      \/ \E i \in Irqs : IrqPoll(i)
      \/ \E i \in Irqs : IrqPrime(i) \/ IrqPrimeTrusted(i) \/ IrqPrimeSelf(i)
      \/ WorkStart \/ WorkUntrusted \/ WorkTrusted \/ WorkPoll \/ WorkPrime
  BY Zenon DEF Next, UserChoice, UserStep, KernelStep, TryStep, IrqStep, WorkStep

\* The bits that the code sets are bits of the words it sets them in.
LEMMA Bits ==
    /\ UnlockFlags \subseteq LockBits /\ TrustedBits \subseteq LockBits
    /\ {"LOCKED", "FL_NEED_WAKE", "IS_PKT_WAITER", "PKT_WAKE", "NEED_POLL",
        "NEED_PRIME", "NEED_WAKE", "CLOSE_ENDPOINT"} \subseteq LockBits
    /\ {"NEED_PRIME", "PKT_WAKE"} \subseteq UnlockFlags
    /\ {"LOCKED", "CLOSE_ENDPOINT", "NEED_POLL", "NEED_PRIME"} \subseteq TrustedBits
    /\ {"UNLOCK_UNTRUSTED", "CLOSE_ENDPOINTS", "POLL_AND_PRIME"} \subseteq AFlags
    /\ DeferredTrusted \subseteq AFlags
  BY DEF LockBits, CallbackFlags, UnlockFlags, TrustedBits, AFlags, DeferredTrusted

\* The places of the code.
LEMMA AllPcs ==
    /\ "cb_after" \in Pcs /\ "cb_cas" \in Pcs /\ "cb_clear" \in Pcs
    /\ "cb_close" \in Pcs /\ "cb_common" \in Pcs /\ "cb_read" \in Pcs
    /\ "cb_retry" \in Pcs /\ "close" \in Pcs /\ "closing" \in Pcs
    /\ "defer_close" \in Pcs /\ "defer_poll" \in Pcs /\ "defer_unlock" \in Pcs
    /\ "drop" \in Pcs /\ "drop_close" \in Pcs /\ "drop_set" \in Pcs
    /\ "hold" \in Pcs /\ "i_again" \in Pcs /\ "i_bit" \in Pcs
    /\ "i_defer" \in Pcs /\ "i_entry" \in Pcs /\ "i_loop" \in Pcs
    /\ "i_poll" \in Pcs /\ "i_prime" \in Pcs /\ "i_prime_self" \in Pcs
    /\ "i_prime_trusted" \in Pcs /\ "i_test" \in Pcs /\ "idle" \in Pcs
    /\ "k_cas" \in Pcs /\ "k_read" \in Pcs /\ "k_unlock" \in Pcs
    /\ "k_wake" \in Pcs /\ "pkt_cas" \in Pcs /\ "pkt_check" \in Pcs
    /\ "pkt_flag" \in Pcs /\ "pkt_sched" \in Pcs /\ "queue" \in Pcs
    /\ "queue_unlock" \in Pcs /\ "request" \in Pcs /\ "sched" \in Pcs
    /\ "set_shared" \in Pcs /\ "set_trusted" \in Pcs /\ "slow" \in Pcs
    /\ "state" \in Pcs /\ "try" \in Pcs /\ "try_cas" \in Pcs
    /\ "try_failed" \in Pcs /\ "try_read" \in Pcs /\ "ul_cas" \in Pcs
    /\ "ul_clear" \in Pcs /\ "ul_common" \in Pcs /\ "ul_prime" \in Pcs
    /\ "ul_read" \in Pcs /\ "ul_restore" \in Pcs /\ "w_poll" \in Pcs
    /\ "w_prime" \in Pcs /\ "w_trusted" \in Pcs /\ "w_trusted_unlock" \in Pcs
    /\ "w_untrusted" \in Pcs
  BY Zenon DEF Pcs, SleepPcs, UlPcs, UnlockPcs, UnlockedPcs, DropPcs, TryPcs, BothPcs

\* The words and flags keep to their bits.
LEMMA WordTypesNext ==
    ASSUME TypeInv, Next PROVE WordTypes'
  <1> WordTypes /\ LocalTypes /\ DropTypes
    BY DEF TypeInv
  <1>1. ASSUME NEW u \in Users, Lock(u) \/ Spin(u) \/ LockOrRequestWake(u)
       PROVE  WordTypes'
    BY <1>1, Bits, Zenon DEF WordTypes, Lock, Spin, LockOrRequestWake
  <1>2. ASSUME NEW u \in Users, AddToWaitQueue(u) \/ SetState(u) \/ Scheduled(u)
              \/ Interrupted(u)
       PROVE  WordTypes'
    BY <1>2, Bits, Zenon DEF WordTypes, AddToWaitQueue, SetState, Scheduled,
       Interrupted
  <1>3. ASSUME NEW u \in Users, Poll(u) \/ UsePackets(u)
       PROVE  WordTypes'
    BY <1>3, Bits, Zenon DEF WordTypes, Poll, PollWakes, UsePackets
  <1>4. ASSUME NEW u \in Users, PktWait(u) \/ PktCheck(u) \/ PktReadLock(u)
              \/ PktSetWaiter(u) \/ PktScheduled(u) \/ PktInterrupted(u)
       PROVE  WordTypes'
    BY <1>4, Bits, Zenon DEF WordTypes, PktWait, PktCheck, PktReadLock,
       PktSetWaiter, PktScheduled, PktInterrupted
  <1>5. ASSUME NEW u \in Users, Unlock(u) \/ UlClear(u) \/ UlCommon(u)
              \/ UlRestore(u)
       PROVE  WordTypes'
    <2>1. CASE Unlock(u)
      BY <2>1, Bits, Zenon DEF WordTypes, Unlock
    <2>2. CASE UlClear(u)
      BY <2>2, Bits, Zenon DEF WordTypes, UlClear, ClearHandled
    <2>3. CASE UlCommon(u)
      BY <2>3, Bits, Zenon DEF WordTypes, UlCommon, PollWakes, Handle
    <2>4. CASE UlRestore(u)
      BY <2>4, Bits, SMTT(30), SMTT(60) DEF WordTypes, LocalTypes, Procs, UlRestore
    <2> QED
      BY <1>5, <2>1, <2>2, <2>3, <2>4
  <1>6. ASSUME NEW u \in Users, UlRead(u) \/ UlCas(u) \/ UlPrime(u)
       PROVE  WordTypes'
    BY <1>6, Bits, Zenon DEF WordTypes, UlRead, UlCas, UlPrime
  <1>7. ASSUME NEW p \in Procs, KUnlock(p) \/ KRead(p) \/ KCas(p) \/ KWake(p)
       PROVE  WordTypes'
    BY <1>7, Bits, Zenon DEF WordTypes, KUnlock, KRead, KCas, KWake
  <1>8. ASSUME NEW p \in Procs, CbClear(p) \/ CbCommon(p) \/ CbRetry(p)
       PROVE  WordTypes'
    <2>1. CASE CbClear(p)
      BY <2>1, Bits, Zenon DEF WordTypes, CbClear, ClearHandled, NiFlags
    <2>2. CASE CbCommon(p)
      <3>1. PICK w, s :
              /\ Handle(p, w, s)
              /\ \/ lock' = (lock \cup w \cup s) \ FlagsSet(p, s)
                 \/ lock' = lock \cup w \cup s \cup FlagsSet(p, s)
                            \cup (after[p] \cup (FlagsSet(p, s) \cap {"NEED_PRIME", "PKT_WAKE"}))
        BY <2>2, Zenon DEF CbCommon
      <3>2. w \subseteq LockBits /\ s \subseteq LockBits
        BY <3>1, Bits DEF Handle, PollWakes
      <3>3. FlagsSet(p, s) \subseteq LockBits /\ after[p] \subseteq LockBits
        BY Bits DEF FlagsSet, LocalTypes
      <3>4. lock' \subseteq LockBits
        BY <3>1, <3>2, <3>3 DEF WordTypes
      <3> QED
        BY <2>2, <3>4, Zenon DEF WordTypes, CbCommon
    <2>3. CASE CbRetry(p)
      BY <2>3, Bits, Zenon DEF WordTypes, CbRetry
    <2> QED
      BY <1>8, <2>1, <2>2, <2>3
  <1>9. ASSUME NEW p \in Procs, CbClose(p)
       PROVE  WordTypes'
    BY <1>9, Bits, SMTT(30), SMTT(60) DEF WordTypes, DropTypes, LocalTypes, Procs,
       CbClose
  <1>10. ASSUME NEW p \in Procs, CbRead(p) \/ CbCas(p) \/ CbAfter(p)
       PROVE  WordTypes'
    BY <1>10, Bits, Zenon DEF WordTypes, CbRead, CbCas, CbAfter
  <1>11. ASSUME NEW p \in Procs, Defer(p) \/ Queue(p)
       PROVE  WordTypes'
    <2>1. CASE Defer(p)
      <3>1. aflags' \subseteq AFlags /\ flags' = {}
        BY <2>1, Bits, SMTT(30), SMTT(60) DEF WordTypes, Defer
      <3> QED
        BY <2>1, <3>1, Zenon DEF WordTypes, Defer
    <2>2. CASE Queue(p)
      BY <2>2, Bits, Zenon DEF WordTypes, Queue
    <2> QED
      BY <1>11, <2>1, <2>2
  <1>12. ASSUME NEW p \in Procs, Drop(p) \/ DropClose(p) \/ DropSet(p)
       PROVE  WordTypes'
    <2>1. CASE Drop(p)
      BY <2>1, Bits, Zenon DEF WordTypes, Drop
    <2>2. CASE DropClose(p)
      BY <2>2, Bits, Zenon DEF WordTypes, DropClose
    <2>3. CASE DropSet(p)
      <3>1. l[p] \subseteq LockBits
        BY <2>3, Bits DEF DropTypes, DropSet
      <3>2. lock' \subseteq LockBits
        BY <2>3, <3>1, Bits DEF WordTypes, DropSet
      <3> QED
        BY <2>3, <3>2, Zenon DEF WordTypes, DropSet, NiFlags
    <2> QED
      BY <1>12, <2>1, <2>2, <2>3
  <1>13. ASSUME NEW p \in Procs, Close(p) \/ ClosePending(p) \/ CloseDone(p)
       PROVE  WordTypes'
    BY <1>13, Bits, Zenon DEF WordTypes, Close, PollWakes, ClosePending, CloseDone
  <1>14. ASSUME NEW c \in Closers, NEW e \in Eps, CloseEndpoint(c, e)
       PROVE  WordTypes'
    BY <1>14, Bits, Zenon DEF WordTypes, CloseEndpoint
  <1>15. ASSUME NEW p \in Closers \cup Irqs, TryTrusted(p) \/ TryRead(p)
              \/ TryCas(p)
       PROVE  WordTypes'
    BY <1>15, Bits, Zenon DEF WordTypes, TryTrusted, TryRead, TryCas, NiFlags
  <1>16. ASSUME NEW p \in Closers \cup Irqs, TryFailed(p) \/ SetShared(p)
              \/ SetTrusted(p)
       PROVE  WordTypes'
    BY <1>16, Bits, Zenon DEF WordTypes, TryFailed, SetShared, Wanted, SetTrusted
  <1>17. ASSUME NEW i \in Irqs, Arrive(i) \/ Interrupt(i) \/ IrqEntry(i)
              \/ IrqSetBit(i) \/ IrqTestBit(i)
       PROVE  WordTypes'
    BY <1>17, Bits, Zenon DEF WordTypes, Arrive, Interrupt, IrqEntry, IrqSetBit,
       IrqTestBit
  <1>18. ASSUME NEW i \in Irqs, IrqPoll(i)
       PROVE  WordTypes'
    BY <1>18, Bits, Zenon DEF WordTypes, IrqPoll, PollWakes
  <1>19. ASSUME NEW i \in Irqs, IrqPrime(i) \/ IrqPrimeTrusted(i) \/ IrqPrimeSelf(i)
       PROVE  WordTypes'
    BY <1>19, Bits, Zenon DEF WordTypes, IrqPrime, IrqPrimeTrusted, IrqPrimeSelf
  <1>20. ASSUME WorkStart \/ WorkUntrusted \/ WorkTrusted \/ WorkPoll \/ WorkPrime
       PROVE  WordTypes'
    BY <1>20, Bits, Zenon DEF WordTypes, WorkStart, WorkUntrusted, WorkTrusted,
       WorkPoll, PollWakes, WorkPrime
  <1> QED
    BY <1>1, <1>2, <1>3, <1>4, <1>5, <1>6, <1>7, <1>8, <1>9, <1>10, <1>11, <1>12,
       <1>13, <1>14, <1>15, <1>16, <1>17, <1>18, <1>19, <1>20, NextSteps, Zenon

\* Event queues, wait queues and endpoints stay what they are.
LEMMA OtherTypesNext ==
    ASSUME TypeInv, Next PROVE OtherTypes'
  <1> OtherTypes
    BY DEF TypeInv
  <1>1. ASSUME NEW u \in Users, Lock(u) \/ Spin(u) \/ LockOrRequestWake(u)
       PROVE  OtherTypes'
    BY <1>1, Zenon DEF OtherTypes, Lock, Spin, LockOrRequestWake, LeaveWaitQueue,
       nic, sleep, closing
  <1>2. ASSUME NEW u \in Users, AddToWaitQueue(u) \/ SetState(u) \/ Scheduled(u)
              \/ Interrupted(u)
       PROVE  OtherTypes'
    BY <1>2, Zenon DEF OtherTypes, AddToWaitQueue, SetState, Scheduled, Interrupted,
       LeaveWaitQueue, nic, sleep, closing
  <1>3. ASSUME NEW u \in Users, Poll(u) \/ UsePackets(u)
       PROVE  OtherTypes'
    BY <1>3, StackLockAssumption, SMTT(30), SMTT(60) DEF StackLockAssumption,
       OtherTypes, Poll, PollAll, PollFrees, UsePackets, nic, sleep, closing
  <1>4. ASSUME NEW u \in Users, PktWait(u) \/ PktCheck(u) \/ PktReadLock(u)
              \/ PktSetWaiter(u) \/ PktScheduled(u) \/ PktInterrupted(u)
       PROVE  OtherTypes'
    BY <1>4, StackLockAssumption, Zenon DEF StackLockAssumption, OtherTypes,
       PktWait, PktCheck, PktLeave, PktReadLock, PktSetWaiter, PktScheduled,
       PktInterrupted, nic, sleep, closing
  <1>5. ASSUME NEW u \in Users, Unlock(u) \/ UlClear(u) \/ UlCommon(u)
              \/ UlRestore(u)
       PROVE  OtherTypes'
    BY <1>5, SMTT(30), SMTT(60) DEF OtherTypes, Unlock, UlClear, UlCommon, PollAll,
       PollFrees, Handle, UlRestore, nic, sleep, closing
  <1>6. ASSUME NEW u \in Users, UlRead(u) \/ UlCas(u) \/ UlPrime(u)
       PROVE  OtherTypes'
    BY <1>6, Zenon DEF OtherTypes, UlRead, UlCas, UlPrime, nic, sleep, closing
  <1>7. ASSUME NEW p \in Procs, KUnlock(p) \/ KRead(p) \/ KCas(p) \/ KWake(p)
       PROVE  OtherTypes'
    BY <1>7, Zenon DEF OtherTypes, KUnlock, KRead, KCas, KWake, nic, sleep, closing
  <1>8. ASSUME NEW p \in Procs, CbClear(p) \/ CbCommon(p) \/ CbRetry(p)
       PROVE  OtherTypes'
    BY <1>8, SMTT(30), SMTT(60) DEF OtherTypes, CbClear, CbCommon, CbRetry, Handle,
       PollAll, PollFrees, PollWakes, ClearHandled, FlagsSet, Go, Put, nic, sleep,
       closing
  <1>9. ASSUME NEW p \in Procs, CbClose(p)
       PROVE  OtherTypes'
    BY <1>9, Zenon DEF OtherTypes, CbClose, nic, sleep, closing
  <1>10. ASSUME NEW p \in Procs, CbRead(p) \/ CbCas(p) \/ CbAfter(p)
       PROVE  OtherTypes'
    BY <1>10, Zenon DEF OtherTypes, CbRead, CbCas, CbAfter, PrimeIfDeferred, nic,
       sleep, closing
  <1>11. ASSUME NEW p \in Procs, Defer(p) \/ Queue(p)
       PROVE  OtherTypes'
    BY <1>11, Zenon DEF OtherTypes, Defer, Queue, nic, sleep, closing
  <1>12. ASSUME NEW p \in Procs, Drop(p) \/ DropClose(p) \/ DropSet(p)
       PROVE  OtherTypes'
    BY <1>12, Zenon DEF OtherTypes, Drop, DropClose, DropSet, nic, sleep, closing
  <1>13. ASSUME NEW p \in Procs, Close(p) \/ ClosePending(p) \/ CloseDone(p)
       PROVE  OtherTypes'
    BY <1>13, SMTT(30), SMTT(60) DEF OtherTypes, Close, PollAll, PollFrees,
       ClosePending, CloseDone, nic, sleep, closing
  <1>14. ASSUME NEW c \in Closers, NEW e \in Eps, CloseEndpoint(c, e)
       PROVE  OtherTypes'
    BY <1>14, Zenon DEF OtherTypes, CloseEndpoint, nic, sleep
  <1>15. ASSUME NEW p \in Closers \cup Irqs, TryTrusted(p) \/ TryRead(p)
              \/ TryCas(p)
       PROVE  OtherTypes'
    BY <1>15, Zenon DEF OtherTypes, TryTrusted, TryRead, TryCas, nic, sleep, closing
  <1>16. ASSUME NEW p \in Closers \cup Irqs, TryFailed(p) \/ SetShared(p)
              \/ SetTrusted(p)
       PROVE  OtherTypes'
    BY <1>16, Zenon DEF OtherTypes, TryFailed, SetShared, SetTrusted, nic, sleep,
       closing
  <1>17. ASSUME NEW i \in Irqs, Arrive(i) \/ Interrupt(i) \/ IrqEntry(i)
              \/ IrqSetBit(i) \/ IrqTestBit(i)
       PROVE  OtherTypes'
    BY <1>17, StackLockAssumption, SMTT(30), SMTT(60) DEF StackLockAssumption,
       OtherTypes, Arrive, Interrupt, IrqEntry, IrqSetBit, IrqTestBit, nic, sleep,
       closing
  <1>18. ASSUME NEW i \in Irqs, IrqPoll(i)
       PROVE  OtherTypes'
    BY <1>18, SMTT(30), SMTT(60) DEF OtherTypes, IrqPoll, PollAll, PollFrees, sleep,
       closing
  <1>19. ASSUME NEW i \in Irqs, IrqPrime(i) \/ IrqPrimeTrusted(i) \/ IrqPrimeSelf(i)
       PROVE  OtherTypes'
    BY <1>19, Zenon DEF OtherTypes, IrqPrime, IrqPrimeTrusted, IrqPrimeSelf, nic,
       sleep, closing
  <1>20. ASSUME WorkStart \/ WorkUntrusted \/ WorkTrusted \/ WorkPoll \/ WorkPrime
       PROVE  OtherTypes'
    BY <1>20, SMTT(30), SMTT(60) DEF OtherTypes, WorkStart, WorkUntrusted,
       WorkTrusted, WorkPoll, PollAll, PollFrees, WorkPrime, PrimeIfDeferred, nic,
       sleep, closing
  <1> QED
    BY <1>1, <1>2, <1>3, <1>4, <1>5, <1>6, <1>7, <1>8, <1>9, <1>10, <1>11, <1>12,
       <1>13, <1>14, <1>15, <1>16, <1>17, <1>18, <1>19, <1>20, NextSteps, Zenon

\* Every process stays at a place of the code, with local variables of their types.
LEMMA LocalTypesNext ==
    ASSUME TypeInv, Next PROVE LocalTypes'
  <1> LocalTypes /\ WordTypes
    BY DEF TypeInv
  <1>1. ASSUME NEW u \in Users, Lock(u) \/ Spin(u) \/ LockOrRequestWake(u)
       PROVE  LocalTypes'
    BY <1>1, AllPcs, Bits, SMTT(30), SMTT(60) DEF LocalTypes, WordTypes, Procs,
       Lock, Go, Put, Spin, LockOrRequestWake, frame
  <1>2. ASSUME NEW u \in Users, AddToWaitQueue(u) \/ SetState(u) \/ Scheduled(u)
              \/ Interrupted(u)
       PROVE  LocalTypes'
    BY <1>2, AllPcs, Bits, SMTT(30), SMTT(60) DEF LocalTypes, WordTypes, Procs,
       AddToWaitQueue, Go, Put, SetState, Scheduled, Interrupted, frame
  <1>3. ASSUME NEW u \in Users, Poll(u) \/ UsePackets(u)
       PROVE  LocalTypes'
    BY <1>3, AllPcs, Bits, Zenon DEF LocalTypes, WordTypes, Procs, Poll, UsePackets,
       frame
  <1>4. ASSUME NEW u \in Users, PktWait(u) \/ PktCheck(u) \/ PktReadLock(u)
              \/ PktSetWaiter(u) \/ PktScheduled(u) \/ PktInterrupted(u)
       PROVE  LocalTypes'
    BY <1>4, AllPcs, Bits, SMTT(30), SMTT(60) DEF LocalTypes, WordTypes, Procs,
       PktWait, Go, Put, PktCheck, PktLeave, PktReadLock, PktSetWaiter,
       PktScheduled, PktInterrupted, frame
  <1>5. ASSUME NEW u \in Users, Unlock(u) \/ UlClear(u) \/ UlCommon(u)
              \/ UlRestore(u)
       PROVE  LocalTypes'
    BY <1>5, AllPcs, Bits, SMTT(30), SMTT(60) DEF LocalTypes, WordTypes, Procs,
       Unlock, Go, Put, UlClear, ClearHandled, UlCommon, UlRestore, frame
  <1>6. ASSUME NEW u \in Users, UlRead(u) \/ UlCas(u) \/ UlPrime(u)
       PROVE  LocalTypes'
    BY <1>6, AllPcs, Bits, SMTT(30), SMTT(60) DEF LocalTypes, WordTypes, Procs,
       UlRead, Go, Put, UlCas, UlPrime
  <1>7. ASSUME NEW p \in Procs, KUnlock(p) \/ KRead(p) \/ KCas(p) \/ KWake(p)
       PROVE  LocalTypes'
    BY <1>7, AllPcs, Bits, SMTT(30), SMTT(60) DEF LocalTypes, WordTypes, Procs,
       KUnlock, Go, Put, UnlockReturns, KRead, KCas, KWake, frame
  <1>8. ASSUME NEW p \in Procs, CbClear(p) \/ CbCommon(p) \/ CbRetry(p)
       PROVE  LocalTypes'
    BY <1>8, AllPcs, Bits, SMTT(30), SMTT(60) DEF LocalTypes, WordTypes, Procs,
       CbClear, Go, Put, ClearHandled, CbCommon, FlagsSet, CbRetry
  <1>9. ASSUME NEW p \in Procs, CbClose(p)
       PROVE  LocalTypes'
    BY <1>9, AllPcs, Bits, SMTT(30), SMTT(60) DEF LocalTypes, WordTypes, Procs,
       CbClose, Go, Put
  <1>10. ASSUME NEW p \in Procs, CbRead(p) \/ CbCas(p) \/ CbAfter(p)
       PROVE  LocalTypes'
    BY <1>10, AllPcs, Bits, SMTT(30), SMTT(60) DEF LocalTypes, WordTypes, Procs,
       CbRead, Go, Put, CbCas, CbAfter, UnlockReturns, frame
  <1>11. ASSUME NEW p \in Procs, Defer(p) \/ Queue(p)
       PROVE  LocalTypes'
    BY <1>11, AllPcs, Bits, SMTT(30), SMTT(60) DEF LocalTypes, WordTypes, Procs,
       Defer, Go, Put, Queue, UnlockReturns, DropReturns, frame
  <1>12. ASSUME NEW p \in Procs, Drop(p) \/ DropClose(p) \/ DropSet(p)
       PROVE  LocalTypes'
    BY <1>12, AllPcs, Bits, SMTT(30), SMTT(60) DEF LocalTypes, WordTypes, Procs,
       Drop, Go, Put, DropReturns, DropClose, DropSet, frame
  <1>13. ASSUME NEW p \in Procs, Close(p) \/ ClosePending(p) \/ CloseDone(p)
       PROVE  LocalTypes'
    BY <1>13, AllPcs, Bits, SMTT(30), SMTT(60) DEF LocalTypes, WordTypes, Procs,
       Close, Go, Put, ClosePending, CloseDone, frame
  <1>14. ASSUME NEW c \in Closers, NEW e \in Eps, CloseEndpoint(c, e)
       PROVE  LocalTypes'
    BY <1>14, AllPcs, Bits, Zenon DEF LocalTypes, WordTypes, Procs, CloseEndpoint,
       Go, Put, frame
  <1>15. ASSUME NEW p \in Closers \cup Irqs, TryTrusted(p) \/ TryRead(p)
              \/ TryCas(p)
       PROVE  LocalTypes'
    BY <1>15, AllPcs, Bits, SMTT(30), SMTT(60) DEF LocalTypes, WordTypes, Procs,
       TryTrusted, Go, Put, TryRead, TryCas, frame
  <1>16. ASSUME NEW p \in Closers \cup Irqs, TryFailed(p) \/ SetShared(p)
              \/ SetTrusted(p)
       PROVE  LocalTypes'
    BY <1>16, AllPcs, Bits, SMTT(30), SMTT(60) DEF LocalTypes, WordTypes, Procs,
       TryFailed, Go, Put, SetShared, SetTrusted, frame
  <1>17. ASSUME NEW i \in Irqs, Arrive(i) \/ Interrupt(i) \/ IrqEntry(i)
              \/ IrqSetBit(i) \/ IrqTestBit(i)
       PROVE  LocalTypes'
    BY <1>17, AllPcs, Bits, SMTT(30), SMTT(60) DEF LocalTypes, WordTypes, Procs,
       Arrive, Interrupt, Go, Put, IrqEntry, IrqSetBit, IrqTestBit, frame
  <1>18. ASSUME NEW i \in Irqs, IrqPoll(i)
       PROVE  LocalTypes'
    BY <1>18, AllPcs, Bits, SMTT(30), SMTT(60) DEF LocalTypes, WordTypes, Procs,
       IrqPoll, Go, Put
  <1>19. ASSUME NEW i \in Irqs, IrqPrime(i) \/ IrqPrimeTrusted(i) \/ IrqPrimeSelf(i)
       PROVE  LocalTypes'
    BY <1>19, AllPcs, Bits, SMTT(30), SMTT(60) DEF LocalTypes, WordTypes, Procs,
       IrqPrime, Go, Put, IrqPrimeTrusted, IrqPrimeSelf, frame
  <1>20. ASSUME WorkStart \/ WorkUntrusted \/ WorkTrusted \/ WorkPoll \/ WorkPrime
       PROVE  LocalTypes'
    BY <1>20, AllPcs, Bits, SMTT(30), SMTT(60) DEF LocalTypes, WordTypes, Procs,
       WorkStart, Go, Put, WorkUntrusted, WorkTrusted, WorkPoll, WorkPrime, frame
  <1> QED
    BY <1>1, <1>2, <1>3, <1>4, <1>5, <1>6, <1>7, <1>8, <1>9, <1>10, <1>11, <1>12,
       <1>13, <1>14, <1>15, <1>16, <1>17, <1>18, <1>19, <1>20, NextSteps, Zenon

\* What a process that drops the trusted lock passes on are flags of that lock.
LEMMA DropTypesNext ==
    ASSUME TypeInv, Next PROVE DropTypes'
  <1> DropTypes /\ LocalTypes /\ WordTypes
    BY DEF TypeInv
  <1>1. ASSUME NEW u \in Users, Lock(u) \/ Spin(u) \/ LockOrRequestWake(u)
       PROVE  DropTypes'
    BY <1>1, SMTT(30), SMTT(60) DEF DropTypes, LocalTypes, Procs, Lock, Go, Put,
       Spin, LockOrRequestWake, frame
  <1>2. ASSUME NEW u \in Users, AddToWaitQueue(u) \/ SetState(u) \/ Scheduled(u)
              \/ Interrupted(u)
       PROVE  DropTypes'
    BY <1>2, SMTT(30), SMTT(60) DEF DropTypes, LocalTypes, Procs, AddToWaitQueue,
       Go, Put, SetState, Scheduled, Interrupted, frame
  <1>3. ASSUME NEW u \in Users, Poll(u) \/ UsePackets(u)
       PROVE  DropTypes'
    BY <1>3, Zenon DEF DropTypes, LocalTypes, Procs, Poll, UsePackets, frame
  <1>4. ASSUME NEW u \in Users, PktWait(u) \/ PktCheck(u) \/ PktReadLock(u)
              \/ PktSetWaiter(u) \/ PktScheduled(u) \/ PktInterrupted(u)
       PROVE  DropTypes'
    BY <1>4, SMTT(30), SMTT(60) DEF DropTypes, LocalTypes, Procs, PktWait, Go, Put,
       PktCheck, PktLeave, PktReadLock, PktSetWaiter, PktScheduled, PktInterrupted,
       frame
  <1>5. ASSUME NEW u \in Users, Unlock(u) \/ UlClear(u) \/ UlCommon(u)
              \/ UlRestore(u)
       PROVE  DropTypes'
    BY <1>5, SMTT(30), SMTT(60) DEF DropTypes, LocalTypes, Procs, Unlock, Go, Put,
       UlClear, ClearHandled, UlCommon, UlRestore, frame
  <1>6. ASSUME NEW u \in Users, UlRead(u) \/ UlCas(u) \/ UlPrime(u)
       PROVE  DropTypes'
    BY <1>6, SMTT(30), SMTT(60) DEF DropTypes, LocalTypes, Procs, UlRead, Go, Put,
       UlCas, UlPrime
  <1>7. ASSUME NEW p \in Procs, KUnlock(p) \/ KRead(p) \/ KCas(p) \/ KWake(p)
       PROVE  DropTypes'
    BY <1>7, SMTT(30), SMTT(60) DEF DropTypes, LocalTypes, Procs, KUnlock, Go, Put,
       UnlockReturns, KRead, KCas, KWake, frame
  <1>8. ASSUME NEW p \in Procs, CbClear(p) \/ CbCommon(p) \/ CbRetry(p)
       PROVE  DropTypes'
    BY <1>8, SMTT(30), SMTT(60) DEF DropTypes, LocalTypes, Procs, CbClear, Go, Put,
       ClearHandled, CbCommon, CbRetry
  <1>9. ASSUME NEW p \in Procs, CbClose(p)
       PROVE  DropTypes'
    BY <1>9, SMTT(30), SMTT(60) DEF DropTypes, LocalTypes, Procs, CbClose, Go, Put
  <1>10. ASSUME NEW p \in Procs, CbRead(p) \/ CbCas(p) \/ CbAfter(p)
       PROVE  DropTypes'
    BY <1>10, SMTT(30), SMTT(60) DEF DropTypes, LocalTypes, Procs, CbRead, Go, Put,
       CbCas, CbAfter, UnlockReturns, frame
  <1>11. ASSUME NEW p \in Procs, Defer(p) \/ Queue(p)
       PROVE  DropTypes'
    BY <1>11, SMTT(30), SMTT(60) DEF DropTypes, LocalTypes, Procs, Defer, Go, Put,
       Queue, UnlockReturns, DropReturns, frame
  <1>12. ASSUME NEW p \in Procs, Drop(p) \/ DropClose(p) \/ DropSet(p)
       PROVE  DropTypes'
    BY <1>12, SMTT(30), SMTT(60) DEF DropTypes, LocalTypes, Procs, WordTypes, Drop,
       Go, Put, DropReturns, DropClose, DropSet, frame
  <1>13. ASSUME NEW p \in Procs, Close(p) \/ ClosePending(p) \/ CloseDone(p)
       PROVE  DropTypes'
    BY <1>13, SMTT(30), SMTT(60) DEF DropTypes, LocalTypes, Procs, Close, Go, Put,
       ClosePending, CloseDone, frame
  <1>14. ASSUME NEW c \in Closers, NEW e \in Eps, CloseEndpoint(c, e)
       PROVE  DropTypes'
    BY <1>14, Zenon DEF DropTypes, LocalTypes, Procs, CloseEndpoint, Go, Put, frame
  <1>15. ASSUME NEW p \in Closers \cup Irqs, TryTrusted(p) \/ TryRead(p)
              \/ TryCas(p)
       PROVE  DropTypes'
    BY <1>15, SMTT(30), SMTT(60) DEF DropTypes, LocalTypes, Procs, TryTrusted, Go,
       Put, TryRead, TryCas, frame
  <1>16. ASSUME NEW p \in Closers \cup Irqs, TryFailed(p) \/ SetShared(p)
              \/ SetTrusted(p)
       PROVE  DropTypes'
    BY <1>16, SMTT(30), SMTT(60) DEF DropTypes, LocalTypes, Procs, TryFailed, Go,
       Put, SetShared, SetTrusted, frame
  <1>17. ASSUME NEW i \in Irqs, Arrive(i) \/ Interrupt(i) \/ IrqEntry(i)
              \/ IrqSetBit(i) \/ IrqTestBit(i)
       PROVE  DropTypes'
    BY <1>17, SMTT(30), SMTT(60) DEF DropTypes, LocalTypes, Procs, Arrive,
       Interrupt, Go, Put, IrqEntry, IrqSetBit, IrqTestBit, frame
  <1>18. ASSUME NEW i \in Irqs, IrqPoll(i)
       PROVE  DropTypes'
    BY <1>18, SMTT(30), SMTT(60) DEF DropTypes, LocalTypes, Procs, IrqPoll, Go, Put
  <1>19. ASSUME NEW i \in Irqs, IrqPrime(i) \/ IrqPrimeTrusted(i) \/ IrqPrimeSelf(i)
       PROVE  DropTypes'
    BY <1>19, SMTT(30), SMTT(60) DEF DropTypes, LocalTypes, Procs, IrqPrime, Go,
       Put, IrqPrimeTrusted, IrqPrimeSelf, frame
  <1>20. ASSUME WorkStart \/ WorkUntrusted \/ WorkTrusted \/ WorkPoll \/ WorkPrime
       PROVE  DropTypes'
    BY <1>20, SMTT(30), SMTT(60) DEF DropTypes, LocalTypes, Procs, WorkStart, Go,
       Put, WorkUntrusted, WorkTrusted, WorkPoll, WorkPrime, frame
  <1> QED
    BY <1>1, <1>2, <1>3, <1>4, <1>5, <1>6, <1>7, <1>8, <1>9, <1>10, <1>11, <1>12,
       <1>13, <1>14, <1>15, <1>16, <1>17, <1>18, <1>19, <1>20, NextSteps, Zenon

\* The types are right when a stack is set up, and every step keeps them so.
LEMMA TypeInvInit == Init => TypeInv
  <1> SUFFICES ASSUME Init PROVE TypeInv
    OBVIOUS
  <1>1. WordTypes
    BY Zenon DEF Init, WordTypes
  <1>2. OtherTypes
    BY StackLockAssumption DEF Init, OtherTypes, StackLockAssumption
  <1>3. LocalTypes
    BY AllPcs DEF Init, LocalTypes
  <1>4. DropTypes
    BY DEF Init, DropTypes
  <1> QED
    BY <1>1, <1>2, <1>3, <1>4 DEF TypeInv

\* Every step keeps the types, and so does a step that changes nothing.
LEMMA TypeInvNext == TypeInv /\ [Next]_vars => TypeInv'
  <1>1. ASSUME TypeInv, Next PROVE TypeInv'
    BY <1>1, WordTypesNext, OtherTypesNext, LocalTypesNext, DropTypesNext DEF TypeInv
  <1>2. ASSUME TypeInv, UNCHANGED vars PROVE TypeInv'
    BY <1>2, Zenon DEF TypeInv, WordTypes, OtherTypes, LocalTypes, DropTypes, vars,
       frame, sleep, nic, closing
  <1> QED
    BY <1>1, <1>2

\* The words and flags of a stack never have bits that the code does not
\* define, only threads are on the wait queues, and every process is at a place
\* of the code with local variables that fit it.
THEOREM TypeCorrect == Spec => []TypeOK
  <1>1. TypeInv => TypeOK
    BY Zenon DEF TypeInv, WordTypes, OtherTypes, LocalTypes, TypeOK
  <1> QED
    BY <1>1, TypeInvInit, TypeInvNext, PTL DEF Spec

-----------------------------------------------------------------------------
(* What the provers need to know of the operators                          *)

\* A poll wakes endpoints and does nothing else to the lock word.
LEMMA WakesOnly == \A w \in PollWakes : w \in SUBSET {"NEED_WAKE"}
  BY DEF PollWakes

\* Code that runs with a lock finds its word LOCKED, and has it alone.
LEMMA Held == ASSUME IInv PROVE
    /\ \A p \in Procs : pc[p] \in SharedPcs => "LOCKED" \in lock
    /\ \A p \in Procs : dret[p] = "callback" => "LOCKED" \in lock
    /\ \A p \in Procs : pc[p] \in TrustedPcs => "LOCKED" \in trusted
    /\ \A p \in Procs : uret[p] = "drop" => "LOCKED" \in trusted
    /\ \A p, q \in Procs : pc[p] \in SharedPcs /\ HoldsShared(q) => p = q
  BY DEF IInv, MutualExclusion, HoldsShared, HoldsTrusted

\* What ci_netif_unlock_slow does to the locks as it handles the flags.
LEMMA UlCommonEffect ==
    ASSUME NEW u, UlCommon(u)
    PROVE  /\ pc[u] = "ul_common" /\ pc' = [pc EXCEPT ![u] = "ul_read"]
           /\ \A b \in {"LOCKED", "FL_NEED_WAKE"} : b \in lock' <=> b \in lock
           /\ l' = [l EXCEPT ![u] = {}]
           /\ UNCHANGED <<trusted, flags, aflags, wq, asleep, dl, uret, dret>>
  BY DEF UlCommon, Go, Put, sleep

\* netif_lock_callback handles no flag of the lock itself.
LEMMA FlagsSetOnly ==
    ASSUME NEW p, NEW s PROVE FlagsSet(p, s) \cap {"LOCKED", "FL_NEED_WAKE"} = {}
  BY DEF FlagsSet, UnlockFlags

\* What netif_lock_callback does to the locks as it handles the flags: a
\* handler may leave the shared lock to the work item.
LEMMA CbCommonEffect ==
    ASSUME NEW p, CbCommon(p)
    PROVE  /\ pc[p] = "cb_common"
           /\ \/ pc' = [pc EXCEPT ![p] = "cb_close"]
              \/ pc' = [pc EXCEPT ![p] = "cb_retry"]
              \/ pc' = [pc EXCEPT ![p] = "defer_unlock"] /\ p \in dl
           /\ \A b \in {"LOCKED", "FL_NEED_WAKE"} : b \in lock => b \in lock'
           /\ l' = [l EXCEPT ![p] = {}]
           /\ UNCHANGED <<trusted, flags, aflags, wq, asleep, dl, uret, dret>>
  <1>1. PICK w, s :
          \/ /\ lock' = (lock \cup w \cup s) \ FlagsSet(p, s)
             /\ Go(p, IF "CLOSE_ENDPOINT" \in FlagsSet(p, s) THEN "cb_close" ELSE "cb_retry")
          \/ /\ p \in dl
             /\ lock' = lock \cup w \cup s \cup FlagsSet(p, s)
                        \cup (after[p] \cup (FlagsSet(p, s) \cap {"NEED_PRIME", "PKT_WAKE"}))
             /\ Go(p, "defer_unlock")
    BY Zenon DEF CbCommon
  <1>2. \A b \in {"LOCKED", "FL_NEED_WAKE"} : b \in lock => b \in lock'
    BY <1>1, FlagsSetOnly
  <1> QED
    BY <1>1, <1>2, Zenon DEF CbCommon, Go, Put, sleep

\* What the interrupt handler does to the locks as it polls.
LEMMA IrqPollEffect ==
    ASSUME NEW i, IrqPoll(i)
    PROVE  /\ pc[i] = "i_poll"
           /\ \/ pc' = [pc EXCEPT ![i] = "defer_poll"] /\ uret' = uret
              \/ pc' = [pc EXCEPT ![i] = "k_unlock"] /\ uret' = [uret EXCEPT ![i] = "drop"]
           /\ \A b \in {"LOCKED", "FL_NEED_WAKE"} : b \in lock' <=> b \in lock
           /\ UNCHANGED <<trusted, flags, aflags, wq, asleep, l, dl, dret>>
  BY WakesOnly DEF IrqPoll, Go, Put, sleep

\* What ul_common does to the duties of the thread that unlocks.
LEMMA UlCommonDuty ==
    ASSUME NEW u, UlCommon(u)
    PROVE  /\ after' = [after EXCEPT ![u] = l[u] \cap {"NEED_PRIME"}]
           /\ \A b \in lock : b \in lock' \/ (b = "NEED_PRIME" /\ b \in l[u])
           /\ "IS_PKT_WAITER" \in l[u] => "IS_PKT_WAITER" \in lock' \/ "PKT_WAKE" \in lock'
           /\ UNCHANGED <<primed, deferred, pktq, tobe_closed>>
  <1>1. PICK w, s : Handle(u, w, s) /\ lock' = (lock \cup w \cup s) \ (l[u] \cap {"NEED_PRIME"})
    BY Zenon DEF UlCommon
  <1>2. \A b \in lock : b \in lock' \/ (b = "NEED_PRIME" /\ b \in l[u])
    BY <1>1
  <1>3. "IS_PKT_WAITER" \in l[u] => "IS_PKT_WAITER" \in lock' \/ "PKT_WAKE" \in lock'
    BY <1>1 DEF Handle
  <1>4. UNCHANGED <<primed, deferred>>
    BY <1>1, Zenon DEF Handle, PollAll, nic
  <1> QED
    BY <1>2, <1>3, <1>4, Zenon DEF UlCommon, Put, sleep, closing

\* What netif_lock_callback clears in the word is kept in after_unlock_flags,
\* or put back before the lock is left to the work item.
LEMMA CbCommonDuty ==
    ASSUME NEW p, CbCommon(p)
    PROVE  /\ \E k : /\ after' = [after EXCEPT ![p] = k] /\ after[p] \subseteq k
                     /\ \/ /\ pc' = [pc EXCEPT ![p] = "cb_close"]
                           /\ \A b \in {"NEED_PRIME", "PKT_WAKE"} : b \in lock => b \in lock' \/ b \in k
                        \/ /\ pc' = [pc EXCEPT ![p] = "cb_retry"]
                           /\ \A b \in {"NEED_PRIME", "PKT_WAKE"} : b \in lock => b \in lock' \/ b \in k
                           /\ "CLOSE_ENDPOINT" \in lock => "CLOSE_ENDPOINT" \in lock'
                        \/ /\ pc' = [pc EXCEPT ![p] = "defer_unlock"]
                           /\ lock \subseteq lock' /\ k \subseteq lock'
                     /\ "IS_PKT_WAITER" \in l[p] => "IS_PKT_WAITER" \in lock' \/ "PKT_WAKE" \in k
           /\ DOMAIN after' = DOMAIN after
           /\ "IS_PKT_WAITER" \in lock => "IS_PKT_WAITER" \in lock'
           /\ UNCHANGED <<primed, deferred, pktq, tobe_closed>>
  <1>1. PICK w, s :
          /\ Handle(p, w, s)
          /\ after' = Put(after, p, after[p] \cup (FlagsSet(p, s) \cap {"NEED_PRIME", "PKT_WAKE"}))
          /\ \/ /\ lock' = (lock \cup w \cup s) \ FlagsSet(p, s)
                /\ Go(p, IF "CLOSE_ENDPOINT" \in FlagsSet(p, s) THEN "cb_close" ELSE "cb_retry")
             \/ /\ lock' = lock \cup w \cup s \cup FlagsSet(p, s)
                           \cup (after[p] \cup (FlagsSet(p, s) \cap {"NEED_PRIME", "PKT_WAKE"}))
                /\ Go(p, "defer_unlock")
    BY Zenon DEF CbCommon
  <1> DEFINE k == after[p] \cup (FlagsSet(p, s) \cap {"NEED_PRIME", "PKT_WAKE"})
  <1>2. "IS_PKT_WAITER" \notin FlagsSet(p, s)
    BY DEF FlagsSet, UnlockFlags
  <1>3. "IS_PKT_WAITER" \in l[p] => "IS_PKT_WAITER" \in s \/ "PKT_WAKE" \in s
    BY <1>1 DEF Handle
  <1>4. "PKT_WAKE" \in s => "PKT_WAKE" \in FlagsSet(p, s)
    BY DEF FlagsSet, UnlockFlags
  <1>5. UNCHANGED <<primed, deferred, pktq, tobe_closed>>
    BY <1>1, Zenon DEF Handle, PollAll, nic, CbCommon, sleep, closing
  <1>6. /\ "IS_PKT_WAITER" \in lock \cup s => "IS_PKT_WAITER" \in lock'
        /\ after[p] \subseteq k
        /\ "PKT_WAKE" \in s => "PKT_WAKE" \in k
    BY <1>1, <1>2, <1>4
  <1>7. DOMAIN after' = DOMAIN after
    BY <1>1, Zenon DEF Put
  <1>8. CASE /\ lock' = (lock \cup w \cup s) \ FlagsSet(p, s)
             /\ Go(p, IF "CLOSE_ENDPOINT" \in FlagsSet(p, s) THEN "cb_close" ELSE "cb_retry")
    <2>1. \A b \in {"NEED_PRIME", "PKT_WAKE"} : b \in lock => b \in lock' \/ b \in k
      BY <1>8
    <2>2. \/ pc' = [pc EXCEPT ![p] = "cb_close"]
          \/ pc' = [pc EXCEPT ![p] = "cb_retry"] /\ "CLOSE_ENDPOINT" \notin FlagsSet(p, s)
      BY <1>8, Zenon DEF Go
    <2>3. "CLOSE_ENDPOINT" \notin FlagsSet(p, s) /\ "CLOSE_ENDPOINT" \in lock => "CLOSE_ENDPOINT" \in lock'
      BY <1>8
    <2> QED
      BY <1>1, <1>3, <1>5, <1>6, <2>1, <2>2, <2>3, Zenon DEF Put
  <1>9. CASE lock' = lock \cup w \cup s \cup FlagsSet(p, s) \cup k /\ Go(p, "defer_unlock")
    <2>1. lock \subseteq lock' /\ k \subseteq lock'
      BY <1>9
    <2> QED
      BY <1>1, <1>3, <1>5, <1>6, <1>9, <2>1, Zenon DEF Put, Go
  <1> QED
    BY <1>1, <1>7, <1>8, <1>9

\* The polling of a handler takes nothing out of the word.
LEMMA IrqPollDuty ==
    ASSUME NEW i, IrqPoll(i)
    PROVE  /\ lock \subseteq lock' /\ UNCHANGED <<after, pktq, tobe_closed>>
  BY DEF IrqPoll, sleep, closing

\* What a handler runs with the shared lock.
LEMMA ContextPcs ==
    /\ "i_poll" \in SharedPcs /\ "k_unlock" \in SharedPcs /\ "k_read" \in SharedPcs
    /\ "k_cas" \in SharedPcs /\ "cb_clear" \in SharedPcs
    /\ "cb_common" \in SharedPcs /\ "cb_close" \in SharedPcs
    /\ "cb_retry" \in SharedPcs /\ "cb_read" \in SharedPcs /\ "cb_cas" \in SharedPcs
  BY Zenon DEF SharedPcs, TrustedPcs, UretPcs, DretPcs, Pcs, SleepPcs, UlPcs,
         UnlockPcs, UnlockedPcs, DropPcs, TryPcs, BothPcs

\* Which locks are held where: taking the shared lock.
LEMMA LockingPcs ==
    /\ "hold" \in SharedPcs /\ "idle" \notin SharedPcs /\ "slow" \notin SharedPcs
    /\ "request" \notin SharedPcs /\ "sched" \notin SharedPcs
    /\ "idle" \notin TrustedPcs /\ "hold" \notin TrustedPcs
    /\ "slow" \notin TrustedPcs /\ "request" \notin TrustedPcs
    /\ "sched" \notin TrustedPcs /\ "idle" \notin UretPcs /\ "hold" \notin UretPcs
    /\ "slow" \notin UretPcs /\ "request" \notin UretPcs /\ "sched" \notin UretPcs
    /\ "idle" \notin DretPcs /\ "hold" \notin DretPcs /\ "slow" \notin DretPcs
    /\ "request" \notin DretPcs /\ "sched" \notin DretPcs
  BY Zenon DEF SharedPcs, TrustedPcs, UretPcs, DretPcs, Pcs, SleepPcs, UlPcs,
         UnlockPcs, UnlockedPcs, DropPcs, TryPcs, BothPcs

\* Which locks are held where: oo_eplock_lock.
LEMMA SleepingPcs ==
    /\ "slow" \notin SharedPcs /\ "state" \notin SharedPcs
    /\ "request" \notin SharedPcs /\ "sched" \notin SharedPcs
    /\ "idle" \notin SharedPcs /\ "slow" \notin TrustedPcs
    /\ "state" \notin TrustedPcs /\ "request" \notin TrustedPcs
    /\ "sched" \notin TrustedPcs /\ "idle" \notin TrustedPcs
    /\ "slow" \notin UretPcs /\ "state" \notin UretPcs /\ "request" \notin UretPcs
    /\ "sched" \notin UretPcs /\ "idle" \notin UretPcs /\ "slow" \notin DretPcs
    /\ "state" \notin DretPcs /\ "request" \notin DretPcs /\ "sched" \notin DretPcs
    /\ "idle" \notin DretPcs
  BY Zenon DEF SharedPcs, TrustedPcs, UretPcs, DretPcs, Pcs, SleepPcs, UlPcs,
         UnlockPcs, UnlockedPcs, DropPcs, TryPcs, BothPcs

\* Which locks are held where: an application with the lock.
LEMMA HoldingPcs ==
    /\ "hold" \in SharedPcs /\ "hold" \notin TrustedPcs /\ "hold" \notin UretPcs
    /\ "hold" \notin DretPcs
  BY Zenon DEF SharedPcs, TrustedPcs, UretPcs, DretPcs, Pcs, SleepPcs, UlPcs,
         UnlockPcs, UnlockedPcs, DropPcs, TryPcs, BothPcs

\* Which locks are held where: efab_tcp_helper_pkt_wait.
LEMMA PacketsPcs ==
    /\ "idle" \notin SharedPcs /\ "pkt_check" \notin SharedPcs
    /\ "pkt_flag" \notin SharedPcs /\ "pkt_sched" \notin SharedPcs
    /\ "pkt_cas" \notin SharedPcs /\ "idle" \notin TrustedPcs
    /\ "pkt_check" \notin TrustedPcs /\ "pkt_flag" \notin TrustedPcs
    /\ "pkt_sched" \notin TrustedPcs /\ "pkt_cas" \notin TrustedPcs
    /\ "idle" \notin UretPcs /\ "pkt_check" \notin UretPcs
    /\ "pkt_flag" \notin UretPcs /\ "pkt_sched" \notin UretPcs
    /\ "pkt_cas" \notin UretPcs /\ "idle" \notin DretPcs
    /\ "pkt_check" \notin DretPcs /\ "pkt_flag" \notin DretPcs
    /\ "pkt_sched" \notin DretPcs /\ "pkt_cas" \notin DretPcs
  BY Zenon DEF SharedPcs, TrustedPcs, UretPcs, DretPcs, Pcs, SleepPcs, UlPcs,
         UnlockPcs, UnlockedPcs, DropPcs, TryPcs, BothPcs

\* Which locks are held where: ci_netif_unlock_slow of an application, up to its loop.
LEMMA UnlockingPcs ==
    /\ "hold" \in SharedPcs /\ "ul_clear" \in SharedPcs /\ "ul_common" \in SharedPcs
    /\ "ul_read" \in SharedPcs /\ "ul_restore" \in SharedPcs
    /\ "k_read" \in SharedPcs /\ "idle" \notin SharedPcs /\ "hold" \notin TrustedPcs
    /\ "idle" \notin TrustedPcs /\ "ul_clear" \notin TrustedPcs
    /\ "ul_common" \notin TrustedPcs /\ "ul_read" \notin TrustedPcs
    /\ "ul_restore" \notin TrustedPcs /\ "k_read" \notin TrustedPcs
    /\ "k_read" \in UretPcs /\ "hold" \notin UretPcs /\ "idle" \notin UretPcs
    /\ "ul_clear" \notin UretPcs /\ "ul_common" \notin UretPcs
    /\ "ul_read" \notin UretPcs /\ "ul_restore" \notin UretPcs
    /\ "hold" \notin DretPcs /\ "idle" \notin DretPcs /\ "ul_clear" \notin DretPcs
    /\ "ul_common" \notin DretPcs /\ "ul_read" \notin DretPcs
    /\ "ul_restore" \notin DretPcs /\ "k_read" \notin DretPcs
  BY Zenon DEF SharedPcs, TrustedPcs, UretPcs, DretPcs, Pcs, SleepPcs, UlPcs,
         UnlockPcs, UnlockedPcs, DropPcs, TryPcs, BothPcs

\* Which locks are held where: the loop of ci_netif_unlock_slow.
LEMMA SwappingPcs ==
    /\ "ul_read" \in SharedPcs /\ "ul_cas" \in SharedPcs
    /\ "ul_restore" \in SharedPcs /\ "ul_prime" \notin SharedPcs
    /\ "idle" \notin SharedPcs /\ "ul_read" \notin TrustedPcs
    /\ "ul_cas" \notin TrustedPcs /\ "ul_restore" \notin TrustedPcs
    /\ "ul_prime" \notin TrustedPcs /\ "idle" \notin TrustedPcs
    /\ "ul_read" \notin UretPcs /\ "ul_cas" \notin UretPcs
    /\ "ul_restore" \notin UretPcs /\ "ul_prime" \notin UretPcs
    /\ "idle" \notin UretPcs /\ "ul_read" \notin DretPcs /\ "ul_cas" \notin DretPcs
    /\ "ul_restore" \notin DretPcs /\ "ul_prime" \notin DretPcs
    /\ "idle" \notin DretPcs
  BY Zenon DEF SharedPcs, TrustedPcs, UretPcs, DretPcs, Pcs, SleepPcs, UlPcs,
         UnlockPcs, UnlockedPcs, DropPcs, TryPcs, BothPcs

\* Which locks are held where: ci_netif_unlock in the kernel.
LEMMA KernelPcs ==
    /\ "k_unlock" \in SharedPcs /\ "k_read" \in SharedPcs
    /\ "cb_clear" \in SharedPcs /\ "k_cas" \in SharedPcs /\ "drop" \notin SharedPcs
    /\ "idle" \notin SharedPcs /\ "k_wake" \notin SharedPcs /\ "drop" \in TrustedPcs
    /\ "k_unlock" \notin TrustedPcs /\ "k_read" \notin TrustedPcs
    /\ "idle" \notin TrustedPcs /\ "cb_clear" \notin TrustedPcs
    /\ "k_cas" \notin TrustedPcs /\ "k_wake" \notin TrustedPcs
    /\ "k_unlock" \in UretPcs /\ "k_read" \in UretPcs /\ "cb_clear" \in UretPcs
    /\ "k_cas" \in UretPcs /\ "k_wake" \in UretPcs /\ "drop" \notin UretPcs
    /\ "idle" \notin UretPcs /\ "drop" \in DretPcs /\ "k_unlock" \notin DretPcs
    /\ "k_read" \notin DretPcs /\ "idle" \notin DretPcs /\ "cb_clear" \notin DretPcs
    /\ "k_cas" \notin DretPcs /\ "k_wake" \notin DretPcs
  BY Zenon DEF SharedPcs, TrustedPcs, UretPcs, DretPcs, Pcs, SleepPcs, UlPcs,
         UnlockPcs, UnlockedPcs, DropPcs, TryPcs, BothPcs

\* Which locks are held where: netif_lock_callback.
LEMMA CallbackPcs ==
    /\ "cb_clear" \in SharedPcs /\ "cb_common" \in SharedPcs
    /\ "cb_close" \in SharedPcs /\ "cb_retry" \in SharedPcs
    /\ "defer_unlock" \in SharedPcs /\ "cb_read" \in SharedPcs
    /\ "cb_clear" \notin TrustedPcs /\ "cb_common" \notin TrustedPcs
    /\ "cb_close" \notin TrustedPcs /\ "cb_retry" \notin TrustedPcs
    /\ "defer_unlock" \notin TrustedPcs /\ "cb_read" \notin TrustedPcs
    /\ "cb_clear" \in UretPcs /\ "cb_common" \in UretPcs /\ "cb_close" \in UretPcs
    /\ "cb_retry" \in UretPcs /\ "defer_unlock" \in UretPcs /\ "cb_read" \in UretPcs
    /\ "cb_clear" \notin DretPcs /\ "cb_common" \notin DretPcs
    /\ "cb_close" \notin DretPcs /\ "cb_retry" \notin DretPcs
    /\ "defer_unlock" \notin DretPcs /\ "cb_read" \notin DretPcs
  BY Zenon DEF SharedPcs, TrustedPcs, UretPcs, DretPcs, Pcs, SleepPcs, UlPcs,
         UnlockPcs, UnlockedPcs, DropPcs, TryPcs, BothPcs

\* Which locks are held where: the CLOSE_ENDPOINT branch of netif_lock_callback.
LEMMA CallbackClosePcs ==
    /\ "cb_close" \in SharedPcs /\ "cb_retry" \in SharedPcs
    /\ "defer_close" \in SharedPcs /\ "close" \in SharedPcs
    /\ "defer_close" \in TrustedPcs /\ "close" \in TrustedPcs
    /\ "cb_close" \notin TrustedPcs /\ "cb_retry" \notin TrustedPcs
    /\ "cb_close" \in UretPcs /\ "cb_retry" \in UretPcs
    /\ "defer_close" \notin UretPcs /\ "close" \notin UretPcs /\ "close" \in DretPcs
    /\ "cb_close" \notin DretPcs /\ "cb_retry" \notin DretPcs
    /\ "defer_close" \notin DretPcs
  BY Zenon DEF SharedPcs, TrustedPcs, UretPcs, DretPcs, Pcs, SleepPcs, UlPcs,
         UnlockPcs, UnlockedPcs, DropPcs, TryPcs, BothPcs

\* Which locks are held where: the end of netif_lock_callback.
LEMMA TryUnlockPcs ==
    /\ "cb_read" \in SharedPcs /\ "cb_clear" \in SharedPcs /\ "cb_cas" \in SharedPcs
    /\ "cb_after" \notin SharedPcs /\ "k_wake" \notin SharedPcs
    /\ "drop" \notin SharedPcs /\ "idle" \notin SharedPcs /\ "drop" \in TrustedPcs
    /\ "cb_read" \notin TrustedPcs /\ "cb_clear" \notin TrustedPcs
    /\ "cb_cas" \notin TrustedPcs /\ "cb_after" \notin TrustedPcs
    /\ "k_wake" \notin TrustedPcs /\ "idle" \notin TrustedPcs
    /\ "cb_read" \in UretPcs /\ "cb_clear" \in UretPcs /\ "cb_cas" \in UretPcs
    /\ "cb_after" \in UretPcs /\ "k_wake" \in UretPcs /\ "drop" \notin UretPcs
    /\ "idle" \notin UretPcs /\ "drop" \in DretPcs /\ "cb_read" \notin DretPcs
    /\ "cb_clear" \notin DretPcs /\ "cb_cas" \notin DretPcs
    /\ "cb_after" \notin DretPcs /\ "k_wake" \notin DretPcs /\ "idle" \notin DretPcs
  BY Zenon DEF SharedPcs, TrustedPcs, UretPcs, DretPcs, Pcs, SleepPcs, UlPcs,
         UnlockPcs, UnlockedPcs, DropPcs, TryPcs, BothPcs

\* Which locks are held where: tcp_helper_defer_dl2work.
LEMMA DeferringPcs ==
    /\ "defer_unlock" \in SharedPcs /\ "defer_close" \in SharedPcs
    /\ "defer_poll" \in SharedPcs /\ "cb_retry" \in SharedPcs
    /\ "queue_unlock" \notin SharedPcs /\ "queue" \notin SharedPcs
    /\ "drop" \notin SharedPcs /\ "idle" \notin SharedPcs
    /\ "try_failed" \notin SharedPcs /\ "defer_close" \in TrustedPcs
    /\ "defer_poll" \in TrustedPcs /\ "drop" \in TrustedPcs
    /\ "defer_unlock" \notin TrustedPcs /\ "queue_unlock" \notin TrustedPcs
    /\ "queue" \notin TrustedPcs /\ "idle" \notin TrustedPcs
    /\ "cb_retry" \notin TrustedPcs /\ "try_failed" \notin TrustedPcs
    /\ "defer_unlock" \in UretPcs /\ "queue_unlock" \in UretPcs
    /\ "cb_retry" \in UretPcs /\ "defer_close" \notin UretPcs
    /\ "queue" \notin UretPcs /\ "defer_poll" \notin UretPcs
    /\ "drop" \notin UretPcs /\ "idle" \notin UretPcs /\ "try_failed" \notin UretPcs
    /\ "drop" \in DretPcs /\ "defer_unlock" \notin DretPcs
    /\ "queue_unlock" \notin DretPcs /\ "defer_close" \notin DretPcs
    /\ "queue" \notin DretPcs /\ "defer_poll" \notin DretPcs
    /\ "idle" \notin DretPcs /\ "cb_retry" \notin DretPcs
    /\ "try_failed" \notin DretPcs
  BY Zenon DEF SharedPcs, TrustedPcs, UretPcs, DretPcs, Pcs, SleepPcs, UlPcs,
         UnlockPcs, UnlockedPcs, DropPcs, TryPcs, BothPcs

\* Which locks are held where: oo_trusted_lock_drop.
LEMMA DroppingPcs ==
    /\ "cb_retry" \in SharedPcs /\ "defer_close" \in SharedPcs
    /\ "close" \in SharedPcs /\ "k_unlock" \in SharedPcs /\ "drop" \notin SharedPcs
    /\ "drop_close" \notin SharedPcs /\ "drop_set" \notin SharedPcs
    /\ "try_failed" \notin SharedPcs /\ "idle" \notin SharedPcs
    /\ "drop" \in TrustedPcs /\ "drop_close" \in TrustedPcs
    /\ "drop_set" \in TrustedPcs /\ "defer_close" \in TrustedPcs
    /\ "close" \in TrustedPcs /\ "cb_retry" \notin TrustedPcs
    /\ "try_failed" \notin TrustedPcs /\ "idle" \notin TrustedPcs
    /\ "k_unlock" \notin TrustedPcs /\ "cb_retry" \in UretPcs
    /\ "k_unlock" \in UretPcs /\ "drop" \notin UretPcs
    /\ "drop_close" \notin UretPcs /\ "drop_set" \notin UretPcs
    /\ "try_failed" \notin UretPcs /\ "idle" \notin UretPcs
    /\ "defer_close" \notin UretPcs /\ "close" \notin UretPcs /\ "drop" \in DretPcs
    /\ "drop_close" \in DretPcs /\ "drop_set" \in DretPcs /\ "close" \in DretPcs
    /\ "cb_retry" \notin DretPcs /\ "try_failed" \notin DretPcs
    /\ "idle" \notin DretPcs /\ "defer_close" \notin DretPcs
    /\ "k_unlock" \notin DretPcs
  BY Zenon DEF SharedPcs, TrustedPcs, UretPcs, DretPcs, Pcs, SleepPcs, UlPcs,
         UnlockPcs, UnlockedPcs, DropPcs, TryPcs, BothPcs

\* Which locks are held where: tcp_helper_close_pending_endpoints.
LEMMA ClosingPcs ==
    /\ "close" \in SharedPcs /\ "closing" \in SharedPcs /\ "k_unlock" \in SharedPcs
    /\ "drop" \notin SharedPcs /\ "close" \in TrustedPcs /\ "closing" \in TrustedPcs
    /\ "drop" \in TrustedPcs /\ "k_unlock" \notin TrustedPcs
    /\ "k_unlock" \in UretPcs /\ "close" \notin UretPcs /\ "closing" \notin UretPcs
    /\ "drop" \notin UretPcs /\ "close" \in DretPcs /\ "closing" \in DretPcs
    /\ "drop" \in DretPcs /\ "k_unlock" \notin DretPcs
  BY Zenon DEF SharedPcs, TrustedPcs, UretPcs, DretPcs, Pcs, SleepPcs, UlPcs,
         UnlockPcs, UnlockedPcs, DropPcs, TryPcs, BothPcs

\* Which locks are held where: tcp_helper_close_endpoint.
LEMMA EndpointPcs ==
    /\ "idle" \notin SharedPcs /\ "try" \notin SharedPcs /\ "idle" \notin TrustedPcs
    /\ "try" \notin TrustedPcs /\ "idle" \notin UretPcs /\ "try" \notin UretPcs
    /\ "idle" \notin DretPcs /\ "try" \notin DretPcs
  BY Zenon DEF SharedPcs, TrustedPcs, UretPcs, DretPcs, Pcs, SleepPcs, UlPcs,
         UnlockPcs, UnlockedPcs, DropPcs, TryPcs, BothPcs

\* Which locks are held where: efab_tcp_helper_netif_try_lock.
LEMMA TryingPcs ==
    /\ "i_poll" \in SharedPcs /\ "close" \in SharedPcs /\ "try" \notin SharedPcs
    /\ "try_read" \notin SharedPcs /\ "try_failed" \notin SharedPcs
    /\ "drop" \notin SharedPcs /\ "try_cas" \notin SharedPcs
    /\ "try_read" \in TrustedPcs /\ "drop" \in TrustedPcs
    /\ "try_cas" \in TrustedPcs /\ "i_poll" \in TrustedPcs /\ "close" \in TrustedPcs
    /\ "try" \notin TrustedPcs /\ "try_failed" \notin TrustedPcs
    /\ "try" \notin UretPcs /\ "try_read" \notin UretPcs
    /\ "try_failed" \notin UretPcs /\ "drop" \notin UretPcs
    /\ "try_cas" \notin UretPcs /\ "i_poll" \notin UretPcs /\ "close" \notin UretPcs
    /\ "drop" \in DretPcs /\ "close" \in DretPcs /\ "try" \notin DretPcs
    /\ "try_read" \notin DretPcs /\ "try_failed" \notin DretPcs
    /\ "try_cas" \notin DretPcs /\ "i_poll" \notin DretPcs
  BY Zenon DEF SharedPcs, TrustedPcs, UretPcs, DretPcs, Pcs, SleepPcs, UlPcs,
         UnlockPcs, UnlockedPcs, DropPcs, TryPcs, BothPcs

\* Which locks are held where: efab_tcp_helper_netif_lock_or_set_flags.
LEMMA AskingPcs ==
    /\ "try_failed" \notin SharedPcs /\ "set_shared" \notin SharedPcs
    /\ "idle" \notin SharedPcs /\ "set_trusted" \notin SharedPcs
    /\ "i_loop" \notin SharedPcs /\ "try" \notin SharedPcs
    /\ "try_failed" \notin TrustedPcs /\ "set_shared" \notin TrustedPcs
    /\ "idle" \notin TrustedPcs /\ "set_trusted" \notin TrustedPcs
    /\ "i_loop" \notin TrustedPcs /\ "try" \notin TrustedPcs
    /\ "try_failed" \notin UretPcs /\ "set_shared" \notin UretPcs
    /\ "idle" \notin UretPcs /\ "set_trusted" \notin UretPcs
    /\ "i_loop" \notin UretPcs /\ "try" \notin UretPcs
    /\ "try_failed" \notin DretPcs /\ "set_shared" \notin DretPcs
    /\ "idle" \notin DretPcs /\ "set_trusted" \notin DretPcs
    /\ "i_loop" \notin DretPcs /\ "try" \notin DretPcs
  BY Zenon DEF SharedPcs, TrustedPcs, UretPcs, DretPcs, Pcs, SleepPcs, UlPcs,
         UnlockPcs, UnlockedPcs, DropPcs, TryPcs, BothPcs

\* Which locks are held where: the entry of the interrupt handler.
LEMMA InterruptsPcs ==
    /\ "idle" \notin SharedPcs /\ "i_entry" \notin SharedPcs
    /\ "i_defer" \notin SharedPcs /\ "i_loop" \notin SharedPcs
    /\ "i_again" \notin SharedPcs /\ "i_test" \notin SharedPcs
    /\ "try" \notin SharedPcs /\ "i_bit" \notin SharedPcs
    /\ "i_prime" \notin SharedPcs /\ "idle" \notin TrustedPcs
    /\ "i_entry" \notin TrustedPcs /\ "i_defer" \notin TrustedPcs
    /\ "i_loop" \notin TrustedPcs /\ "i_again" \notin TrustedPcs
    /\ "i_test" \notin TrustedPcs /\ "try" \notin TrustedPcs
    /\ "i_bit" \notin TrustedPcs /\ "i_prime" \notin TrustedPcs
    /\ "idle" \notin UretPcs /\ "i_entry" \notin UretPcs /\ "i_defer" \notin UretPcs
    /\ "i_loop" \notin UretPcs /\ "i_again" \notin UretPcs
    /\ "i_test" \notin UretPcs /\ "try" \notin UretPcs /\ "i_bit" \notin UretPcs
    /\ "i_prime" \notin UretPcs /\ "idle" \notin DretPcs /\ "i_entry" \notin DretPcs
    /\ "i_defer" \notin DretPcs /\ "i_loop" \notin DretPcs
    /\ "i_again" \notin DretPcs /\ "i_test" \notin DretPcs /\ "try" \notin DretPcs
    /\ "i_bit" \notin DretPcs /\ "i_prime" \notin DretPcs
  BY Zenon DEF SharedPcs, TrustedPcs, UretPcs, DretPcs, Pcs, SleepPcs, UlPcs,
         UnlockPcs, UnlockedPcs, DropPcs, TryPcs, BothPcs

\* Which locks are held where: the polling of the interrupt handler.
LEMMA IrqPollingPcs ==
    /\ "i_poll" \in SharedPcs /\ "defer_poll" \in SharedPcs
    /\ "k_unlock" \in SharedPcs /\ "drop" \notin SharedPcs
    /\ "i_poll" \in TrustedPcs /\ "defer_poll" \in TrustedPcs
    /\ "drop" \in TrustedPcs /\ "k_unlock" \notin TrustedPcs
    /\ "k_unlock" \in UretPcs /\ "i_poll" \notin UretPcs
    /\ "defer_poll" \notin UretPcs /\ "drop" \notin UretPcs /\ "drop" \in DretPcs
    /\ "i_poll" \notin DretPcs /\ "defer_poll" \notin DretPcs
    /\ "k_unlock" \notin DretPcs
  BY Zenon DEF SharedPcs, TrustedPcs, UretPcs, DretPcs, Pcs, SleepPcs, UlPcs,
         UnlockPcs, UnlockedPcs, DropPcs, TryPcs, BothPcs

\* Which locks are held where: the priming of the interrupt handler.
LEMMA PrimingPcs ==
    /\ "i_prime" \notin SharedPcs /\ "idle" \notin SharedPcs
    /\ "i_prime_trusted" \notin SharedPcs /\ "i_prime_self" \notin SharedPcs
    /\ "i_prime" \notin TrustedPcs /\ "idle" \notin TrustedPcs
    /\ "i_prime_trusted" \notin TrustedPcs /\ "i_prime_self" \notin TrustedPcs
    /\ "i_prime" \notin UretPcs /\ "idle" \notin UretPcs
    /\ "i_prime_trusted" \notin UretPcs /\ "i_prime_self" \notin UretPcs
    /\ "i_prime" \notin DretPcs /\ "idle" \notin DretPcs
    /\ "i_prime_trusted" \notin DretPcs /\ "i_prime_self" \notin DretPcs
  BY Zenon DEF SharedPcs, TrustedPcs, UretPcs, DretPcs, Pcs, SleepPcs, UlPcs,
         UnlockPcs, UnlockedPcs, DropPcs, TryPcs, BothPcs

\* Which locks are held where: tcp_helper_do_non_atomic.
LEMMA WorkingPcs ==
    /\ "w_trusted_unlock" \in SharedPcs /\ "w_poll" \in SharedPcs
    /\ "close" \in SharedPcs /\ "k_unlock" \in SharedPcs /\ "w_prime" \in SharedPcs
    /\ "idle" \notin SharedPcs /\ "w_untrusted" \notin SharedPcs
    /\ "w_trusted" \notin SharedPcs /\ "drop" \notin SharedPcs
    /\ "w_poll" \in TrustedPcs /\ "close" \in TrustedPcs /\ "w_prime" \in TrustedPcs
    /\ "drop" \in TrustedPcs /\ "idle" \notin TrustedPcs
    /\ "w_untrusted" \notin TrustedPcs /\ "w_trusted_unlock" \notin TrustedPcs
    /\ "w_trusted" \notin TrustedPcs /\ "k_unlock" \notin TrustedPcs
    /\ "k_unlock" \in UretPcs /\ "idle" \notin UretPcs
    /\ "w_untrusted" \notin UretPcs /\ "w_trusted_unlock" \notin UretPcs
    /\ "w_trusted" \notin UretPcs /\ "w_poll" \notin UretPcs
    /\ "close" \notin UretPcs /\ "w_prime" \notin UretPcs /\ "drop" \notin UretPcs
    /\ "close" \in DretPcs /\ "drop" \in DretPcs /\ "idle" \notin DretPcs
    /\ "w_untrusted" \notin DretPcs /\ "w_trusted_unlock" \notin DretPcs
    /\ "w_trusted" \notin DretPcs /\ "w_poll" \notin DretPcs
    /\ "k_unlock" \notin DretPcs /\ "w_prime" \notin DretPcs
  BY Zenon DEF SharedPcs, TrustedPcs, UretPcs, DretPcs, Pcs, SleepPcs, UlPcs,
         UnlockPcs, UnlockedPcs, DropPcs, TryPcs, BothPcs

-----------------------------------------------------------------------------
(* What each process keeps for itself                                      *)

\* IN_DL_CONTEXT goes with the shared lock as long as a handler has it.
LEMMA ContextInvNext ==
    ASSUME IInv, Next PROVE ContextInv'
  <1> FrameTypes /\ FrameInv /\ CopyInv /\ ContextInv
    BY DEF IInv
  <1>1. ASSUME NEW u \in Users, Lock(u) \/ Spin(u) \/ LockOrRequestWake(u)
       PROVE  ContextInv'
    BY <1>1, StackLockAssumption, SMTT(30), SMTT(60), SMTT(90) DEF
       StackLockAssumption, FrameTypes, Procs, ContextInv, InterruptContext,
       HoldsShared, Lock, Go, Spin, LockOrRequestWake, LeaveWaitQueue, frame
  <1>2. ASSUME NEW u \in Users, AddToWaitQueue(u) \/ SetState(u) \/ Scheduled(u)
              \/ Interrupted(u)
       PROVE  ContextInv'
    <2>1. CASE AddToWaitQueue(u)
      BY <2>1, SleepingPcs, Zenon DEF FrameTypes, Procs, ContextInv,
         InterruptContext, HoldsShared, AddToWaitQueue, Go, frame
    <2>2. CASE SetState(u)
      BY <2>2, SleepingPcs, Zenon DEF FrameTypes, Procs, ContextInv,
         InterruptContext, HoldsShared, Go, SetState, frame
    <2>3. CASE Scheduled(u)
      BY <2>3, SleepingPcs, Zenon DEF FrameTypes, Procs, ContextInv,
         InterruptContext, HoldsShared, Go, Scheduled, frame
    <2>4. CASE Interrupted(u)
      BY <2>4, SleepingPcs, Zenon DEF FrameTypes, Procs, ContextInv,
         InterruptContext, HoldsShared, Go, Interrupted, LeaveWaitQueue, frame
    <2> QED
      BY <1>2, <2>1, <2>2, <2>3, <2>4
  <1>3. ASSUME NEW u \in Users, Poll(u) \/ UsePackets(u)
       PROVE  ContextInv'
    BY <1>3, Zenon DEF FrameTypes, ContextInv, InterruptContext, HoldsShared, Poll,
       UsePackets, frame
  <1>4. ASSUME NEW u \in Users, PktWait(u) \/ PktCheck(u) \/ PktReadLock(u)
              \/ PktSetWaiter(u) \/ PktScheduled(u) \/ PktInterrupted(u)
       PROVE  ContextInv'
    <2>1. CASE PktWait(u)
      BY <2>1, PacketsPcs, Zenon DEF FrameTypes, Procs, ContextInv,
         InterruptContext, HoldsShared, PktWait, Go, frame
    <2>2. CASE PktCheck(u)
      BY <2>2, PacketsPcs, ZenonT(30) DEF FrameTypes, Procs, ContextInv,
         InterruptContext, HoldsShared, Go, PktCheck, PktLeave, frame
    <2>3. CASE PktReadLock(u)
      BY <2>3, PacketsPcs, ZenonT(30) DEF FrameTypes, Procs, ContextInv,
         InterruptContext, HoldsShared, Go, PktReadLock, Put, frame
    <2>4. CASE PktSetWaiter(u)
      BY <2>4, PacketsPcs, ZenonT(30) DEF FrameTypes, Procs, ContextInv,
         InterruptContext, HoldsShared, Go, Put, PktSetWaiter, frame
    <2>5. CASE PktScheduled(u)
      BY <2>5, PacketsPcs, Zenon DEF FrameTypes, Procs, ContextInv,
         InterruptContext, HoldsShared, Go, PktScheduled, frame
    <2>6. CASE PktInterrupted(u)
      BY <2>6, PacketsPcs, Zenon DEF FrameTypes, Procs, ContextInv,
         InterruptContext, HoldsShared, Go, PktLeave, PktInterrupted, frame
    <2> QED
      BY <1>4, <2>1, <2>2, <2>3, <2>4, <2>5, <2>6
  <1>5. ASSUME NEW u \in Users, Unlock(u) \/ UlClear(u) \/ UlCommon(u)
              \/ UlRestore(u)
       PROVE  ContextInv'
    <2>1. CASE Unlock(u)
      BY <2>1, UnlockingPcs, Held, StackLockAssumption, SMTT(30), SMTT(60), SMTT(90)
         DEF StackLockAssumption, FrameTypes, Procs, FrameInv, ContextInv,
         InterruptContext, HoldsShared, NiFlags, Unlock, Go, frame
    <2>2. CASE UlClear(u)
      BY <2>2, UnlockingPcs, Held, StackLockAssumption, Zenon DEF
         StackLockAssumption, FrameTypes, Procs, FrameInv, ContextInv,
         InterruptContext, HoldsShared, NiFlags, Go, UlClear, ClearHandled, Put,
         frame
    <2>3. CASE UlCommon(u)
      BY <2>3, UnlockingPcs, Held, StackLockAssumption, UlCommonEffect, SMTT(30),
         SMTT(60), SMTT(90) DEF StackLockAssumption, FrameTypes, Procs, FrameInv,
         ContextInv, InterruptContext, HoldsShared, NiFlags, frame
    <2>4. CASE UlRestore(u)
      BY <2>4, UnlockingPcs, Held, StackLockAssumption, ZenonT(30) DEF
         StackLockAssumption, FrameTypes, Procs, FrameInv, ContextInv,
         InterruptContext, HoldsShared, NiFlags, Go, Put, UlRestore, frame
    <2> QED
      BY <1>5, <2>1, <2>2, <2>3, <2>4
  <1>6. ASSUME NEW u \in Users, UlRead(u) \/ UlCas(u) \/ UlPrime(u)
       PROVE  ContextInv'
    BY <1>6, StackLockAssumption, SMTT(30), SMTT(60), SMTT(90) DEF
       StackLockAssumption, FrameTypes, Procs, FrameInv, ContextInv,
       InterruptContext, HoldsShared, NiFlags, UlRead, Go, Put, UlCas, UlPrime,
       frame
  <1>7. ASSUME NEW p \in Procs, KUnlock(p) \/ KRead(p) \/ KCas(p) \/ KWake(p)
       PROVE  ContextInv'
    <2>1. CASE KUnlock(p)
      BY <2>1, KernelPcs, ContextPcs, Held, SMTT(30), SMTT(60), SMTT(90) DEF
         FrameTypes, Procs, ContextInv, InterruptContext, HoldsShared, KUnlock, Go,
         UnlockReturns, Put
    <2>2. CASE KRead(p)
      BY <2>2, KernelPcs, ContextPcs, Held, Zenon DEF FrameTypes, Procs, FrameInv,
         ContextInv, InterruptContext, HoldsShared, NiFlags, Go, Put, KRead, frame
    <2>3. CASE KCas(p)
      BY <2>3, KernelPcs, SMTT(30), SMTT(60), SMTT(90) DEF FrameTypes, Procs,
         ContextInv, InterruptContext, HoldsShared, KCas, Go, UnlockReturns, Put,
         frame
    <2>4. CASE KWake(p)
      BY <2>4, KernelPcs, SMTT(30), SMTT(60), SMTT(90) DEF ContextInv,
         InterruptContext, HoldsShared, KWake, UnlockReturns, Go, Put
    <2> QED
      BY <1>7, <2>1, <2>2, <2>3, <2>4
  <1>8. ASSUME NEW p \in Procs, CbClear(p) \/ CbCommon(p) \/ CbRetry(p)
       PROVE  ContextInv'
    <2>1. CASE CbClear(p)
      BY <2>1, CallbackPcs, ContextPcs, Held, SMTT(30), SMTT(60), SMTT(90) DEF
         FrameTypes, Procs, FrameInv, ContextInv, InterruptContext, HoldsShared,
         CbClear, ClearHandled, Go, Put
    <2>2. CASE CbCommon(p)
      BY <2>2, CallbackPcs, ContextPcs, Held, CbCommonEffect, SMTT(30), SMTT(60),
         SMTT(90) DEF FrameTypes, Procs, FrameInv, ContextInv, InterruptContext,
         HoldsShared
    <2>3. CASE CbRetry(p)
      BY <2>3, CallbackPcs, ContextPcs, Held, SMTT(30), SMTT(60), SMTT(90) DEF
         FrameTypes, Procs, FrameInv, ContextInv, InterruptContext, HoldsShared, Go,
         CbRetry
    <2> QED
      BY <1>8, <2>1, <2>2, <2>3
  <1>9. ASSUME NEW p \in Procs, CbClose(p)
       PROVE  ContextInv'
    BY <1>9, CallbackClosePcs, StackLockAssumption, SMTT(30), SMTT(60), SMTT(90) DEF
       StackLockAssumption, FrameTypes, Procs, FrameInv, ContextInv,
       InterruptContext, HoldsShared, CbClose, Go, Put, frame
  <1>10. ASSUME NEW p \in Procs, CbRead(p) \/ CbCas(p) \/ CbAfter(p)
       PROVE  ContextInv'
    <2>1. CASE CbRead(p)
      BY <2>1, TryUnlockPcs, Zenon DEF FrameTypes, Procs, ContextInv,
         InterruptContext, HoldsShared, NiFlags, CbRead, Go, Put, frame
    <2>2. CASE CbCas(p)
      BY <2>2, TryUnlockPcs, Zenon DEF FrameTypes, Procs, ContextInv,
         InterruptContext, HoldsShared, NiFlags, Go, CbCas, frame
    <2>3. CASE CbAfter(p)
      BY <2>3, TryUnlockPcs, SMTT(30), SMTT(60), SMTT(90) DEF FrameTypes, Procs,
         ContextInv, InterruptContext, HoldsShared, NiFlags, Go, Put, CbAfter,
         UnlockReturns, frame
    <2> QED
      BY <1>10, <2>1, <2>2, <2>3
  <1>11. ASSUME NEW p \in Procs, Defer(p) \/ Queue(p)
       PROVE  ContextInv'
    <2>1. CASE Defer(p)
      BY <2>1, DeferringPcs, ContextPcs, Held, StackLockAssumption, SMTT(30),
         SMTT(60), SMTT(90) DEF StackLockAssumption, FrameTypes, Procs, FrameInv,
         ContextInv, InterruptContext, HoldsShared, NiFlags, Defer, Go, frame
    <2>2. CASE Queue(p)
      BY <2>2, DeferringPcs, ContextPcs, Held, StackLockAssumption, SMTT(30),
         SMTT(60), SMTT(90) DEF StackLockAssumption, FrameTypes, Procs, FrameInv,
         ContextInv, InterruptContext, HoldsShared, NiFlags, Go, Queue,
         UnlockReturns, DropReturns, Put, frame
    <2> QED
      BY <1>11, <2>1, <2>2
  <1>12. ASSUME NEW p \in Procs, Drop(p) \/ DropClose(p) \/ DropSet(p)
       PROVE  ContextInv'
    <2>1. CASE Drop(p)
      BY <2>1, DroppingPcs, ContextPcs, Held, StackLockAssumption, SMTT(30),
         SMTT(60), SMTT(90) DEF StackLockAssumption, FrameTypes, Procs, FrameInv,
         ContextInv, InterruptContext, HoldsShared, NiFlags, Drop, Go, Put,
         DropReturns, frame
    <2>2. CASE DropClose(p)
      BY <2>2, DroppingPcs, ContextPcs, Held, StackLockAssumption, SMTT(30),
         SMTT(60), SMTT(90) DEF StackLockAssumption, FrameTypes, Procs, FrameInv,
         ContextInv, InterruptContext, HoldsShared, NiFlags, Go, DropClose, frame
    <2>3. CASE DropSet(p)
      BY <2>3, DroppingPcs, ContextPcs, Held, StackLockAssumption, SMTT(30),
         SMTT(60), SMTT(90) DEF StackLockAssumption, FrameTypes, Procs, FrameInv,
         ContextInv, InterruptContext, HoldsShared, NiFlags, Go, Put, DropSet, frame
    <2> QED
      BY <1>12, <2>1, <2>2, <2>3
  <1>13. ASSUME NEW p \in Procs, Close(p) \/ ClosePending(p) \/ CloseDone(p)
       PROVE  ContextInv'
    <2>1. CASE Close(p)
      BY <2>1, StackLockAssumption, Zenon DEF StackLockAssumption, FrameTypes,
         Procs, ContextInv, InterruptContext, HoldsShared, NiFlags, Close, Go, frame
    <2>2. CASE ClosePending(p)
      BY <2>2, StackLockAssumption, Zenon DEF StackLockAssumption, FrameTypes,
         Procs, ContextInv, InterruptContext, HoldsShared, NiFlags, ClosePending,
         frame
    <2>3. CASE CloseDone(p)
      BY <2>3, StackLockAssumption, ZenonT(30) DEF StackLockAssumption, FrameTypes,
         Procs, ContextInv, InterruptContext, HoldsShared, NiFlags, Go, CloseDone,
         Put, frame
    <2> QED
      BY <1>13, <2>1, <2>2, <2>3
  <1>14. ASSUME NEW c \in Closers, NEW e \in Eps, CloseEndpoint(c, e)
       PROVE  ContextInv'
    BY <1>14, EndpointPcs, Zenon DEF FrameTypes, Procs, ContextInv,
       InterruptContext, HoldsShared, CloseEndpoint, Go, frame
  <1>15. ASSUME NEW p \in Closers \cup Irqs, TryTrusted(p) \/ TryRead(p)
              \/ TryCas(p)
       PROVE  ContextInv'
    <2>1. CASE TryTrusted(p)
      BY <2>1, TryingPcs, ContextPcs, Held, SMTT(30), SMTT(60), SMTT(90) DEF
         FrameTypes, Procs, ContextInv, InterruptContext, HoldsShared, NiFlags,
         CopyInv, TryTrusted, Go, frame
    <2>2. CASE TryRead(p)
      BY <2>2, TryingPcs, ContextPcs, Held, SMTT(30), SMTT(60), SMTT(90) DEF
         FrameTypes, Procs, ContextInv, InterruptContext, HoldsShared, NiFlags,
         CopyInv, Go, TryRead, Put, frame
    <2>3. CASE TryCas(p)
      BY <2>3, TryingPcs, ContextPcs, Held, SMTT(30), SMTT(60), SMTT(90) DEF
         FrameTypes, Procs, ContextInv, InterruptContext, HoldsShared, NiFlags,
         CopyInv, Go, Put, TryCas, frame
    <2> QED
      BY <1>15, <2>1, <2>2, <2>3
  <1>16. ASSUME NEW p \in Closers \cup Irqs, TryFailed(p) \/ SetShared(p)
              \/ SetTrusted(p)
       PROVE  ContextInv'
    <2>1. CASE TryFailed(p)
      BY <2>1, AskingPcs, Zenon DEF FrameTypes, Procs, ContextInv, InterruptContext,
         HoldsShared, TryFailed, Go, frame
    <2>2. CASE SetShared(p)
      BY <2>2, AskingPcs, ZenonT(30) DEF FrameTypes, Procs, ContextInv,
         InterruptContext, HoldsShared, Go, SetShared, Wanted, frame
    <2>3. CASE SetTrusted(p)
      BY <2>3, AskingPcs, ZenonT(30) DEF FrameTypes, Procs, ContextInv,
         InterruptContext, HoldsShared, Go, Wanted, SetTrusted, frame
    <2> QED
      BY <1>16, <2>1, <2>2, <2>3
  <1>17. ASSUME NEW i \in Irqs, Arrive(i) \/ Interrupt(i) \/ IrqEntry(i)
              \/ IrqSetBit(i) \/ IrqTestBit(i)
       PROVE  ContextInv'
    <2>1. CASE Arrive(i)
      BY <2>1, InterruptsPcs, Zenon DEF FrameTypes, Procs, FrameInv, ContextInv,
         InterruptContext, HoldsShared, Arrive, frame
    <2>2. CASE Interrupt(i)
      BY <2>2, InterruptsPcs, Zenon DEF FrameTypes, Procs, FrameInv, ContextInv,
         InterruptContext, HoldsShared, Interrupt, Go, frame
    <2>3. CASE IrqEntry(i)
      BY <2>3, InterruptsPcs, ZenonT(30) DEF FrameTypes, Procs, FrameInv,
         ContextInv, InterruptContext, HoldsShared, Go, IrqEntry, frame
    <2>4. CASE IrqSetBit(i)
      BY <2>4, InterruptsPcs, Zenon DEF FrameTypes, Procs, FrameInv, ContextInv,
         InterruptContext, HoldsShared, Go, IrqSetBit, frame
    <2>5. CASE IrqTestBit(i)
      BY <2>5, InterruptsPcs, Zenon DEF FrameTypes, Procs, FrameInv, ContextInv,
         InterruptContext, HoldsShared, Go, IrqTestBit, frame
    <2> QED
      BY <1>17, <2>1, <2>2, <2>3, <2>4, <2>5
  <1>18. ASSUME NEW i \in Irqs, IrqPoll(i)
       PROVE  ContextInv'
    BY <1>18, IrqPollingPcs, ContextPcs, IrqPollEffect, SMTT(30), SMTT(60), SMTT(90)
       DEF FrameTypes, Procs, FrameInv, ContextInv, InterruptContext, HoldsShared
  <1>19. ASSUME NEW i \in Irqs, IrqPrime(i) \/ IrqPrimeTrusted(i) \/ IrqPrimeSelf(i)
       PROVE  ContextInv'
    <2>1. CASE IrqPrime(i)
      BY <2>1, PrimingPcs, ContextPcs, StackLockAssumption, ZenonT(30) DEF
         StackLockAssumption, FrameTypes, Procs, FrameInv, ContextInv,
         InterruptContext, HoldsShared, IrqPrime, Go, frame
    <2>2. CASE IrqPrimeTrusted(i)
      BY <2>2, PrimingPcs, ContextPcs, StackLockAssumption, ZenonT(30) DEF
         StackLockAssumption, FrameTypes, Procs, FrameInv, ContextInv,
         InterruptContext, HoldsShared, Go, IrqPrimeTrusted, frame
    <2>3. CASE IrqPrimeSelf(i)
      BY <2>3, PrimingPcs, ContextPcs, StackLockAssumption, Zenon DEF
         StackLockAssumption, FrameTypes, Procs, FrameInv, ContextInv,
         InterruptContext, HoldsShared, Go, IrqPrimeSelf, frame
    <2> QED
      BY <1>19, <2>1, <2>2, <2>3
  <1>20. ASSUME WorkStart \/ WorkUntrusted \/ WorkTrusted \/ WorkPoll \/ WorkPrime
       PROVE  ContextInv'
    <2>1. CASE WorkStart
      BY <2>1, StackLockAssumption, Zenon DEF StackLockAssumption, FrameTypes,
         Procs, ContextInv, InterruptContext, HoldsShared, WorkStart, Go, frame
    <2>2. CASE WorkUntrusted
      BY <2>2, StackLockAssumption, Zenon DEF StackLockAssumption, FrameTypes,
         Procs, ContextInv, InterruptContext, HoldsShared, Go, WorkUntrusted, frame
    <2>3. CASE WorkTrusted
      BY <2>3, StackLockAssumption, Zenon DEF StackLockAssumption, FrameTypes,
         Procs, ContextInv, InterruptContext, HoldsShared, Go, WorkTrusted, Put,
         frame
    <2>4. CASE WorkPoll
      BY <2>4, StackLockAssumption, Zenon DEF StackLockAssumption, FrameTypes,
         Procs, ContextInv, InterruptContext, HoldsShared, Go, WorkPoll, frame
    <2>5. CASE WorkPrime
      BY <2>5, StackLockAssumption, ZenonT(30) DEF StackLockAssumption, FrameTypes,
         Procs, ContextInv, InterruptContext, HoldsShared, Go, Put, WorkPrime, frame
    <2> QED
      BY <1>20, <2>1, <2>2, <2>3, <2>4, <2>5
  <1> QED
    BY <1>1, <1>2, <1>3, <1>4, <1>5, <1>6, <1>7, <1>8, <1>9, <1>10, <1>11, <1>12,
       <1>13, <1>14, <1>15, <1>16, <1>17, <1>18, <1>19, <1>20, NextSteps, Zenon

\* No step changes which processes there are.
LEMMA FrameTypesNext ==
    ASSUME IInv, Next PROVE FrameTypes'
  <1>1. LocalTypes'
    BY TypeInvNext DEF IInv, TypeInv
  <1> QED
    BY <1>1 DEF LocalTypes, FrameTypes

\* A thread leaves the wait queue only as it leaves oo_eplock_lock.
LEMMA QueueInvNext ==
    ASSUME IInv, Next PROVE QueueInv'
  <1> FrameTypes /\ QueueInv
    BY DEF IInv
  <1>1. ASSUME NEW u \in Users, Lock(u) \/ Spin(u) \/ LockOrRequestWake(u)
       PROVE  QueueInv'
    BY <1>1, Zenon DEF Procs, QueueInv, FrameTypes, Lock, Go, Spin,
       LockOrRequestWake, LeaveWaitQueue, sleep
  <1>2. ASSUME NEW u \in Users, AddToWaitQueue(u) \/ SetState(u) \/ Scheduled(u)
              \/ Interrupted(u)
       PROVE  QueueInv'
    BY <1>2, Zenon DEF Procs, QueueInv, FrameTypes, AddToWaitQueue, Go, SetState,
       Scheduled, Interrupted, LeaveWaitQueue, sleep
  <1>3. ASSUME NEW u \in Users, Poll(u) \/ UsePackets(u)
       PROVE  QueueInv'
    BY <1>3, WakesOnly, Zenon DEF Procs, QueueInv, FrameTypes, Poll, UsePackets,
       sleep
  <1>4. ASSUME NEW u \in Users, PktWait(u) \/ PktCheck(u) \/ PktReadLock(u)
              \/ PktSetWaiter(u) \/ PktScheduled(u) \/ PktInterrupted(u)
       PROVE  QueueInv'
    BY <1>4, Zenon DEF Procs, QueueInv, FrameTypes, PktWait, Go, PktCheck, PktLeave,
       PktReadLock, Put, PktSetWaiter, PktScheduled, PktInterrupted, sleep
  <1>5. ASSUME NEW u \in Users, Unlock(u) \/ UlClear(u) \/ UlCommon(u)
              \/ UlRestore(u)
       PROVE  QueueInv'
    <2>1. CASE Unlock(u)
      BY <2>1, Zenon DEF Procs, QueueInv, FrameTypes, Unlock, Go, sleep
    <2>2. CASE UlClear(u)
      BY <2>2, Zenon DEF Procs, QueueInv, FrameTypes, UlClear, ClearHandled, Go,
         Put, HandledFlags, sleep
    <2>3. CASE UlCommon(u)
      BY <2>3, UlCommonEffect, UlCommonDuty, Zenon DEF Procs, QueueInv, FrameTypes,
         sleep
    <2>4. CASE UlRestore(u)
      BY <2>4, Zenon DEF Procs, QueueInv, FrameTypes, UlRestore, Go, Put, sleep
    <2> QED
      BY <1>5, <2>1, <2>2, <2>3, <2>4
  <1>6. ASSUME NEW u \in Users, UlRead(u) \/ UlCas(u) \/ UlPrime(u)
       PROVE  QueueInv'
    BY <1>6, Zenon DEF Procs, QueueInv, FrameTypes, UlRead, Go, Put, UlCas, UlPrime,
       sleep
  <1>7. ASSUME NEW p \in Procs, KUnlock(p) \/ KRead(p) \/ KCas(p) \/ KWake(p)
       PROVE  QueueInv'
    BY <1>7, ZenonT(30) DEF Procs, QueueInv, FrameTypes, KUnlock, Go, UnlockReturns,
       Put, KRead, KCas, KWake, sleep
  <1>8. ASSUME NEW p \in Procs, CbClear(p) \/ CbCommon(p) \/ CbRetry(p)
       PROVE  QueueInv'
    <2>1. CASE CbClear(p)
      BY <2>1, Zenon DEF Procs, QueueInv, FrameTypes, CbClear, ClearHandled, Go,
         Put, HandledFlags, sleep
    <2>2. CASE CbCommon(p)
      BY <2>2, CbCommonEffect, CbCommonDuty, ZenonT(30) DEF Procs, QueueInv,
         FrameTypes, sleep
    <2>3. CASE CbRetry(p)
      BY <2>3, Zenon DEF Procs, QueueInv, FrameTypes, CbRetry, Go, sleep
    <2> QED
      BY <1>8, <2>1, <2>2, <2>3
  <1>9. ASSUME NEW p \in Procs, CbClose(p)
       PROVE  QueueInv'
    BY <1>9, Zenon DEF Procs, QueueInv, FrameTypes, CbClose, Go, Put, sleep
  <1>10. ASSUME NEW p \in Procs, CbRead(p) \/ CbCas(p) \/ CbAfter(p)
       PROVE  QueueInv'
    BY <1>10, ZenonT(30) DEF Procs, QueueInv, FrameTypes, CbRead, Go, Put, CbCas,
       CbAfter, UnlockReturns, sleep
  <1>11. ASSUME NEW p \in Procs, Defer(p) \/ Queue(p)
       PROVE  QueueInv'
    <2>1. CASE Defer(p)
      BY <2>1, SMTT(30), SMTT(60) DEF Procs, QueueInv, FrameTypes, Defer, Go, sleep
    <2>2. CASE Queue(p)
      BY <2>2, Zenon DEF Procs, QueueInv, FrameTypes, Queue, UnlockReturns,
         DropReturns, Go, Put, sleep
    <2> QED
      BY <1>11, <2>1, <2>2
  <1>12. ASSUME NEW p \in Procs, Drop(p) \/ DropClose(p) \/ DropSet(p)
       PROVE  QueueInv'
    BY <1>12, ZenonT(30) DEF Procs, QueueInv, FrameTypes, Drop, Go, Put,
       DropReturns, DropClose, DropSet, sleep
  <1>13. ASSUME NEW p \in Procs, Close(p) \/ ClosePending(p) \/ CloseDone(p)
       PROVE  QueueInv'
    <2>1. CASE Close(p)
      BY <2>1, WakesOnly, Zenon DEF Procs, QueueInv, FrameTypes, Close, Go, sleep
    <2>2. CASE ClosePending(p)
      BY <2>2, Zenon DEF Procs, QueueInv, FrameTypes, ClosePending, sleep
    <2>3. CASE CloseDone(p)
      BY <2>3, Zenon DEF Procs, QueueInv, FrameTypes, CloseDone, Go, Put, sleep
    <2> QED
      BY <1>13, <2>1, <2>2, <2>3
  <1>14. ASSUME NEW c \in Closers, NEW e \in Eps, CloseEndpoint(c, e)
       PROVE  QueueInv'
    BY <1>14, StackLockAssumption, Zenon DEF StackLockAssumption, Procs, QueueInv,
       FrameTypes, CloseEndpoint, Go, sleep
  <1>15. ASSUME NEW p \in Closers \cup Irqs, TryTrusted(p) \/ TryRead(p)
              \/ TryCas(p)
       PROVE  QueueInv'
    <2>1. CASE TryTrusted(p)
      BY <2>1, StackLockAssumption, Zenon DEF StackLockAssumption, Procs, QueueInv,
         FrameTypes, TryTrusted, Go, sleep
    <2>2. CASE TryRead(p)
      BY <2>2, StackLockAssumption, Zenon DEF StackLockAssumption, Procs, QueueInv,
         FrameTypes, TryRead, Go, Put, sleep
    <2>3. CASE TryCas(p)
      BY <2>3, StackLockAssumption, Zenon DEF StackLockAssumption, Procs, QueueInv,
         FrameTypes, TryCas, Go, Put, sleep
    <2> QED
      BY <1>15, <2>1, <2>2, <2>3
  <1>16. ASSUME NEW p \in Closers \cup Irqs, TryFailed(p) \/ SetShared(p)
              \/ SetTrusted(p)
       PROVE  QueueInv'
    BY <1>16, StackLockAssumption, Zenon DEF StackLockAssumption, Procs, QueueInv,
       FrameTypes, TryFailed, Go, SetShared, Wanted, SetTrusted, sleep
  <1>17. ASSUME NEW i \in Irqs, Arrive(i) \/ Interrupt(i) \/ IrqEntry(i)
              \/ IrqSetBit(i) \/ IrqTestBit(i)
       PROVE  QueueInv'
    BY <1>17, Zenon DEF Procs, QueueInv, FrameTypes, Arrive, Interrupt, Go,
       IrqEntry, IrqSetBit, IrqTestBit, sleep
  <1>18. ASSUME NEW i \in Irqs, IrqPoll(i)
       PROVE  QueueInv'
    BY <1>18, IrqPollEffect, IrqPollDuty, Zenon DEF Procs, QueueInv, FrameTypes,
       sleep
  <1>19. ASSUME NEW i \in Irqs, IrqPrime(i) \/ IrqPrimeTrusted(i) \/ IrqPrimeSelf(i)
       PROVE  QueueInv'
    BY <1>19, Zenon DEF Procs, QueueInv, FrameTypes, IrqPrime, Go, IrqPrimeTrusted,
       IrqPrimeSelf, sleep
  <1>20. ASSUME WorkStart \/ WorkUntrusted \/ WorkTrusted \/ WorkPoll \/ WorkPrime
       PROVE  QueueInv'
    <2>1. CASE WorkStart
      BY <2>1, Zenon DEF Procs, QueueInv, FrameTypes, WorkStart, Go, sleep
    <2>2. CASE WorkUntrusted
      BY <2>2, Zenon DEF Procs, QueueInv, FrameTypes, WorkUntrusted, Go, sleep
    <2>3. CASE WorkTrusted
      BY <2>3, Zenon DEF Procs, QueueInv, FrameTypes, WorkTrusted, Go, Put, sleep
    <2>4. CASE WorkPoll
      BY <2>4, WakesOnly, Zenon DEF Procs, QueueInv, FrameTypes, WorkPoll, Go, sleep
    <2>5. CASE WorkPrime
      BY <2>5, Zenon DEF Procs, QueueInv, FrameTypes, WorkPrime, Go, Put, sleep
    <2> QED
      BY <1>20, <2>1, <2>2, <2>3, <2>4, <2>5
  <1> QED
    BY <1>1, <1>2, <1>3, <1>4, <1>5, <1>6, <1>7, <1>8, <1>9, <1>10, <1>11, <1>12,
       <1>13, <1>14, <1>15, <1>16, <1>17, <1>18, <1>19, <1>20, NextSteps, Zenon

\* A call returns to oo_trusted_lock_drop or to netif_lock_callback only from
\* the code that these run.
LEMMA FrameInvNext ==
    ASSUME IInv, Next PROVE FrameInv'
  <1> FrameTypes /\ FrameInv
    BY DEF IInv
  <1>1. ASSUME NEW u \in Users, Lock(u) \/ Spin(u) \/ LockOrRequestWake(u)
       PROVE  FrameInv'
    <2>1. CASE Lock(u)
      BY <2>1, LockingPcs, Zenon DEF FrameTypes, FrameInv, Lock, Go, frame
    <2>2. CASE Spin(u)
      BY <2>2, LockingPcs, Zenon DEF FrameTypes, FrameInv, Go, Spin, frame
    <2>3. CASE LockOrRequestWake(u)
      BY <2>3, LockingPcs, Zenon DEF FrameTypes, FrameInv, Go, LockOrRequestWake,
         LeaveWaitQueue, frame
    <2> QED
      BY <1>1, <2>1, <2>2, <2>3
  <1>2. ASSUME NEW u \in Users, AddToWaitQueue(u) \/ SetState(u) \/ Scheduled(u)
              \/ Interrupted(u)
       PROVE  FrameInv'
    <2>1. CASE AddToWaitQueue(u)
      BY <2>1, SleepingPcs, Zenon DEF FrameTypes, FrameInv, AddToWaitQueue, Go,
         frame
    <2>2. CASE SetState(u)
      BY <2>2, SleepingPcs, Zenon DEF FrameTypes, FrameInv, Go, SetState, frame
    <2>3. CASE Scheduled(u)
      BY <2>3, SleepingPcs, Zenon DEF FrameTypes, FrameInv, Go, Scheduled, frame
    <2>4. CASE Interrupted(u)
      BY <2>4, SleepingPcs, Zenon DEF FrameTypes, FrameInv, Go, Interrupted,
         LeaveWaitQueue, frame
    <2> QED
      BY <1>2, <2>1, <2>2, <2>3, <2>4
  <1>3. ASSUME NEW u \in Users, Poll(u) \/ UsePackets(u)
       PROVE  FrameInv'
    BY <1>3, Zenon DEF FrameInv, Poll, UsePackets, frame
  <1>4. ASSUME NEW u \in Users, PktWait(u) \/ PktCheck(u) \/ PktReadLock(u)
              \/ PktSetWaiter(u) \/ PktScheduled(u) \/ PktInterrupted(u)
       PROVE  FrameInv'
    BY <1>4, PacketsPcs, ZenonT(30) DEF FrameTypes, FrameInv, PktWait, Go, PktCheck,
       PktLeave, PktReadLock, Put, PktSetWaiter, PktScheduled, PktInterrupted, frame
  <1>5. ASSUME NEW u \in Users, Unlock(u) \/ UlClear(u) \/ UlCommon(u)
              \/ UlRestore(u)
       PROVE  FrameInv'
    <2>1. CASE Unlock(u)
      BY <2>1, UnlockingPcs, Zenon DEF FrameTypes, FrameInv, Unlock, Go, frame
    <2>2. CASE UlClear(u)
      BY <2>2, UnlockingPcs, Zenon DEF FrameTypes, FrameInv, Go, UlClear,
         ClearHandled, Put, frame
    <2>3. CASE UlCommon(u)
      BY <2>3, UnlockingPcs, UlCommonEffect, ZenonT(30) DEF FrameTypes, FrameInv,
         frame
    <2>4. CASE UlRestore(u)
      BY <2>4, UnlockingPcs, Zenon DEF FrameTypes, FrameInv, Go, Put, UlRestore,
         frame
    <2> QED
      BY <1>5, <2>1, <2>2, <2>3, <2>4
  <1>6. ASSUME NEW u \in Users, UlRead(u) \/ UlCas(u) \/ UlPrime(u)
       PROVE  FrameInv'
    <2>1. CASE UlRead(u)
      BY <2>1, SwappingPcs, ZenonT(30) DEF FrameTypes, FrameInv, UlRead, Go, Put
    <2>2. CASE UlCas(u)
      BY <2>2, SwappingPcs, ZenonT(30) DEF FrameTypes, FrameInv, Go, Put, UlCas
    <2>3. CASE UlPrime(u)
      BY <2>3, SwappingPcs, Zenon DEF FrameTypes, FrameInv, Go, Put, UlPrime
    <2> QED
      BY <1>6, <2>1, <2>2, <2>3
  <1>7. ASSUME NEW p \in Procs, KUnlock(p) \/ KRead(p) \/ KCas(p) \/ KWake(p)
       PROVE  FrameInv'
    <2>1. CASE KUnlock(p)
      BY <2>1, KernelPcs, Zenon DEF FrameTypes, FrameInv, KUnlock, Go,
         UnlockReturns, Put, frame
    <2>2. CASE KRead(p)
      BY <2>2, KernelPcs, Zenon DEF FrameTypes, FrameInv, Go, Put, KRead, frame
    <2>3. CASE KCas(p)
      BY <2>3, KernelPcs, SMTT(30), SMTT(60) DEF FrameTypes, FrameInv, Go,
         UnlockReturns, Put, KCas, frame
    <2>4. CASE KWake(p)
      BY <2>4, KernelPcs, Zenon DEF FrameTypes, FrameInv, Go, UnlockReturns, Put,
         KWake, frame
    <2> QED
      BY <1>7, <2>1, <2>2, <2>3, <2>4
  <1>8. ASSUME NEW p \in Procs, CbClear(p) \/ CbCommon(p) \/ CbRetry(p)
       PROVE  FrameInv'
    <2>1. CASE CbClear(p)
      BY <2>1, CallbackPcs, Zenon DEF FrameTypes, FrameInv, CbClear, ClearHandled,
         Go, Put
    <2>2. CASE CbCommon(p)
      BY <2>2, CallbackPcs, CbCommonEffect, ZenonT(30) DEF FrameTypes, FrameInv
    <2>3. CASE CbRetry(p)
      BY <2>3, CallbackPcs, Zenon DEF FrameTypes, FrameInv, Go, CbRetry
    <2> QED
      BY <1>8, <2>1, <2>2, <2>3
  <1>9. ASSUME NEW p \in Procs, CbClose(p)
       PROVE  FrameInv'
    BY <1>9, CallbackClosePcs, Held, ZenonT(30) DEF FrameTypes, FrameInv, CbClose,
       Go, Put, frame
  <1>10. ASSUME NEW p \in Procs, CbRead(p) \/ CbCas(p) \/ CbAfter(p)
       PROVE  FrameInv'
    <2>1. CASE CbRead(p)
      BY <2>1, TryUnlockPcs, Zenon DEF FrameTypes, FrameInv, CbRead, Go, Put, frame
    <2>2. CASE CbCas(p)
      BY <2>2, TryUnlockPcs, Zenon DEF FrameTypes, FrameInv, Go, CbCas, frame
    <2>3. CASE CbAfter(p)
      BY <2>3, TryUnlockPcs, SMTT(30), SMTT(60) DEF FrameTypes, FrameInv, Go, Put,
         CbAfter, UnlockReturns, frame
    <2> QED
      BY <1>10, <2>1, <2>2, <2>3
  <1>11. ASSUME NEW p \in Procs, Defer(p) \/ Queue(p)
       PROVE  FrameInv'
    <2>1. CASE Defer(p)
      BY <2>1, DeferringPcs, SMTT(30), SMTT(60) DEF FrameTypes, FrameInv, Defer, Go,
         frame
    <2>2. CASE Queue(p)
      BY <2>2, DeferringPcs, SMTT(30), SMTT(60) DEF FrameTypes, FrameInv, Go, Queue,
         UnlockReturns, DropReturns, Put, frame
    <2> QED
      BY <1>11, <2>1, <2>2
  <1>12. ASSUME NEW p \in Procs, Drop(p) \/ DropClose(p) \/ DropSet(p)
       PROVE  FrameInv'
    <2>1. CASE Drop(p)
      BY <2>1, DroppingPcs, Held, ZenonT(30) DEF FrameTypes, FrameInv, Drop, Go,
         Put, DropReturns, frame
    <2>2. CASE DropClose(p)
      BY <2>2, DroppingPcs, Held, Zenon DEF FrameTypes, FrameInv, Go, DropClose,
         frame
    <2>3. CASE DropSet(p)
      BY <2>3, DroppingPcs, Held, Zenon DEF FrameTypes, FrameInv, Go, Put, DropSet,
         frame
    <2> QED
      BY <1>12, <2>1, <2>2, <2>3
  <1>13. ASSUME NEW p \in Procs, Close(p) \/ ClosePending(p) \/ CloseDone(p)
       PROVE  FrameInv'
    BY <1>13, ClosingPcs, ZenonT(30) DEF FrameTypes, FrameInv, Close, Go,
       ClosePending, CloseDone, Put, frame
  <1>14. ASSUME NEW c \in Closers, NEW e \in Eps, CloseEndpoint(c, e)
       PROVE  FrameInv'
    BY <1>14, EndpointPcs, Zenon DEF FrameTypes, FrameInv, CloseEndpoint, Go, frame
  <1>15. ASSUME NEW p \in Closers \cup Irqs, TryTrusted(p) \/ TryRead(p)
              \/ TryCas(p)
       PROVE  FrameInv'
    <2>1. CASE TryTrusted(p)
      BY <2>1, TryingPcs, Zenon DEF FrameTypes, FrameInv, TryTrusted, Go, frame
    <2>2. CASE TryRead(p)
      BY <2>2, TryingPcs, ZenonT(30) DEF FrameTypes, FrameInv, Go, TryRead, Put,
         frame
    <2>3. CASE TryCas(p)
      BY <2>3, TryingPcs, ZenonT(30) DEF FrameTypes, FrameInv, Go, Put, TryCas,
         frame
    <2> QED
      BY <1>15, <2>1, <2>2, <2>3
  <1>16. ASSUME NEW p \in Closers \cup Irqs, TryFailed(p) \/ SetShared(p)
              \/ SetTrusted(p)
       PROVE  FrameInv'
    <2>1. CASE TryFailed(p)
      BY <2>1, AskingPcs, Zenon DEF FrameTypes, FrameInv, TryFailed, Go, frame
    <2>2. CASE SetShared(p)
      BY <2>2, AskingPcs, ZenonT(30) DEF FrameTypes, FrameInv, Go, SetShared,
         Wanted, frame
    <2>3. CASE SetTrusted(p)
      BY <2>3, AskingPcs, ZenonT(30) DEF FrameTypes, FrameInv, Go, Wanted,
         SetTrusted, frame
    <2> QED
      BY <1>16, <2>1, <2>2, <2>3
  <1>17. ASSUME NEW i \in Irqs, Arrive(i) \/ Interrupt(i) \/ IrqEntry(i)
              \/ IrqSetBit(i) \/ IrqTestBit(i)
       PROVE  FrameInv'
    <2>1. CASE Arrive(i)
      BY <2>1, InterruptsPcs, Zenon DEF FrameTypes, FrameInv, Arrive, frame
    <2>2. CASE Interrupt(i)
      BY <2>2, InterruptsPcs, Zenon DEF FrameTypes, FrameInv, Interrupt, Go, frame
    <2>3. CASE IrqEntry(i)
      BY <2>3, InterruptsPcs, SMTT(30), SMTT(60) DEF FrameTypes, FrameInv, Go,
         IrqEntry, frame
    <2>4. CASE IrqSetBit(i)
      BY <2>4, InterruptsPcs, Zenon DEF FrameTypes, FrameInv, Go, IrqSetBit, frame
    <2>5. CASE IrqTestBit(i)
      BY <2>5, InterruptsPcs, Zenon DEF FrameTypes, FrameInv, Go, IrqTestBit, frame
    <2> QED
      BY <1>17, <2>1, <2>2, <2>3, <2>4, <2>5
  <1>18. ASSUME NEW i \in Irqs, IrqPoll(i)
       PROVE  FrameInv'
    BY <1>18, IrqPollingPcs, IrqPollEffect, SMTT(30), SMTT(60) DEF FrameTypes,
       FrameInv
  <1>19. ASSUME NEW i \in Irqs, IrqPrime(i) \/ IrqPrimeTrusted(i) \/ IrqPrimeSelf(i)
       PROVE  FrameInv'
    BY <1>19, PrimingPcs, ZenonT(30) DEF FrameTypes, FrameInv, IrqPrime, Go,
       IrqPrimeTrusted, IrqPrimeSelf, frame
  <1>20. ASSUME WorkStart \/ WorkUntrusted \/ WorkTrusted \/ WorkPoll \/ WorkPrime
       PROVE  FrameInv'
    <2>1. CASE WorkStart
      BY <2>1, WorkingPcs, Zenon DEF FrameTypes, FrameInv, WorkStart, Go, frame
    <2>2. CASE WorkUntrusted
      BY <2>2, WorkingPcs, Zenon DEF FrameTypes, FrameInv, Go, WorkUntrusted, frame
    <2>3. CASE WorkTrusted
      BY <2>3, WorkingPcs, Zenon DEF FrameTypes, FrameInv, Go, WorkTrusted, Put,
         frame
    <2>4. CASE WorkPoll
      BY <2>4, WorkingPcs, Zenon DEF FrameTypes, FrameInv, Go, WorkPoll, frame
    <2>5. CASE WorkPrime
      BY <2>5, WorkingPcs, ZenonT(30) DEF FrameTypes, FrameInv, Go, Put, WorkPrime,
         frame
    <2> QED
      BY <1>20, <2>1, <2>2, <2>3, <2>4, <2>5
  <1> QED
    BY <1>1, <1>2, <1>3, <1>4, <1>5, <1>6, <1>7, <1>8, <1>9, <1>10, <1>11, <1>12,
       <1>13, <1>14, <1>15, <1>16, <1>17, <1>18, <1>19, <1>20, NextSteps, Zenon

\* A word is copied for a compare-and-swap only if it may be replaced.
LEMMA CopyInvNext ==
    ASSUME IInv, Next PROVE CopyInv'
  <1> FrameTypes /\ CopyInv
    BY DEF IInv
  <1>1. ASSUME NEW u \in Users, Lock(u) \/ Spin(u) \/ LockOrRequestWake(u)
       PROVE  CopyInv'
    BY <1>1, ZenonT(30) DEF Procs, CopyInv, FrameTypes, Lock, Go, Spin,
       LockOrRequestWake, LeaveWaitQueue, frame
  <1>2. ASSUME NEW u \in Users, AddToWaitQueue(u) \/ SetState(u) \/ Scheduled(u)
              \/ Interrupted(u)
       PROVE  CopyInv'
    BY <1>2, Zenon DEF Procs, CopyInv, FrameTypes, AddToWaitQueue, Go, SetState,
       Scheduled, Interrupted, LeaveWaitQueue, frame
  <1>3. ASSUME NEW u \in Users, Poll(u) \/ UsePackets(u)
       PROVE  CopyInv'
    BY <1>3, WakesOnly, Zenon DEF Procs, CopyInv, FrameTypes, Poll, UsePackets,
       frame
  <1>4. ASSUME NEW u \in Users, PktWait(u) \/ PktCheck(u) \/ PktReadLock(u)
              \/ PktSetWaiter(u) \/ PktScheduled(u) \/ PktInterrupted(u)
       PROVE  CopyInv'
    BY <1>4, ZenonT(30) DEF Procs, CopyInv, FrameTypes, PktWait, Go, PktCheck,
       PktLeave, PktReadLock, Put, PktSetWaiter, PktScheduled, PktInterrupted, frame
  <1>5. ASSUME NEW u \in Users, Unlock(u) \/ UlClear(u) \/ UlCommon(u)
              \/ UlRestore(u)
       PROVE  CopyInv'
    <2>1. CASE Unlock(u)
      BY <2>1, ZenonT(30) DEF Procs, CopyInv, FrameTypes, Unlock, Go, frame
    <2>2. CASE UlClear(u)
      BY <2>2, Zenon DEF Procs, CopyInv, FrameTypes, UlClear, ClearHandled, Go, Put,
         HandledFlags, frame
    <2>3. CASE UlCommon(u)
      BY <2>3, UlCommonEffect, UlCommonDuty, SMTT(30), SMTT(60) DEF Procs, CopyInv,
         FrameTypes, frame
    <2>4. CASE UlRestore(u)
      BY <2>4, Zenon DEF Procs, CopyInv, FrameTypes, UlRestore, Go, Put, frame
    <2> QED
      BY <1>5, <2>1, <2>2, <2>3, <2>4
  <1>6. ASSUME NEW u \in Users, UlRead(u) \/ UlCas(u) \/ UlPrime(u)
       PROVE  CopyInv'
    BY <1>6, ZenonT(30) DEF Procs, CopyInv, FrameTypes, UlRead, Go, Put, UlCas,
       UlPrime, frame
  <1>7. ASSUME NEW p \in Procs, KUnlock(p) \/ KRead(p) \/ KCas(p) \/ KWake(p)
       PROVE  CopyInv'
    <2>1. CASE KUnlock(p)
      BY <2>1, ZenonT(30) DEF Procs, CopyInv, FrameTypes, KUnlock, Go,
         UnlockReturns, Put, frame
    <2>2. CASE KRead(p)
      BY <2>2, Zenon DEF Procs, CopyInv, FrameTypes, KRead, Go, Put, frame
    <2>3. CASE KCas(p)
      BY <2>3, ZenonT(30) DEF Procs, CopyInv, FrameTypes, KCas, Go, UnlockReturns,
         Put, frame
    <2>4. CASE KWake(p)
      BY <2>4, Zenon DEF Procs, CopyInv, FrameTypes, KWake, UnlockReturns, Go, Put,
         frame
    <2> QED
      BY <1>7, <2>1, <2>2, <2>3, <2>4
  <1>8. ASSUME NEW p \in Procs, CbClear(p) \/ CbCommon(p) \/ CbRetry(p)
       PROVE  CopyInv'
    <2>1. CASE CbClear(p)
      BY <2>1, Zenon DEF Procs, CopyInv, FrameTypes, CbClear, ClearHandled, Go, Put,
         HandledFlags, frame
    <2>2. CASE CbCommon(p)
      BY <2>2, CbCommonEffect, CbCommonDuty, SMTT(30), SMTT(60) DEF Procs, CopyInv,
         FrameTypes, frame
    <2>3. CASE CbRetry(p)
      BY <2>3, Zenon DEF Procs, CopyInv, FrameTypes, CbRetry, Go, frame
    <2> QED
      BY <1>8, <2>1, <2>2, <2>3
  <1>9. ASSUME NEW p \in Procs, CbClose(p)
       PROVE  CopyInv'
    BY <1>9, Zenon DEF Procs, CopyInv, FrameTypes, CbClose, Go, Put, frame
  <1>10. ASSUME NEW p \in Procs, CbRead(p) \/ CbCas(p) \/ CbAfter(p)
       PROVE  CopyInv'
    <2>1. CASE CbRead(p)
      BY <2>1, Zenon DEF Procs, CopyInv, FrameTypes, CbRead, Go, Put, frame
    <2>2. CASE CbCas(p)
      BY <2>2, ZenonT(30) DEF Procs, CopyInv, FrameTypes, CbCas, Go, frame
    <2>3. CASE CbAfter(p)
      BY <2>3, SMTT(30), SMTT(60) DEF Procs, CopyInv, FrameTypes, CbAfter, Go,
         UnlockReturns, Put, frame
    <2> QED
      BY <1>10, <2>1, <2>2, <2>3
  <1>11. ASSUME NEW p \in Procs, Defer(p) \/ Queue(p)
       PROVE  CopyInv'
    <2>1. CASE Defer(p)
      BY <2>1, SMTT(30), SMTT(60) DEF Procs, CopyInv, FrameTypes, Defer, Go, frame
    <2>2. CASE Queue(p)
      BY <2>2, ZenonT(30) DEF Procs, CopyInv, FrameTypes, Queue, UnlockReturns,
         DropReturns, Go, Put, frame
    <2> QED
      BY <1>11, <2>1, <2>2
  <1>12. ASSUME NEW p \in Procs, Drop(p) \/ DropClose(p) \/ DropSet(p)
       PROVE  CopyInv'
    <2>1. CASE Drop(p)
      BY <2>1, ZenonT(30) DEF Procs, CopyInv, FrameTypes, Drop, Go, Put,
         DropReturns, frame
    <2>2. CASE DropClose(p)
      BY <2>2, ZenonT(30) DEF Procs, CopyInv, FrameTypes, DropClose, Go, frame
    <2>3. CASE DropSet(p)
      BY <2>3, Zenon DEF Procs, CopyInv, FrameTypes, DropSet, Go, Put, frame
    <2> QED
      BY <1>12, <2>1, <2>2, <2>3
  <1>13. ASSUME NEW p \in Procs, Close(p) \/ ClosePending(p) \/ CloseDone(p)
       PROVE  CopyInv'
    <2>1. CASE Close(p)
      BY <2>1, WakesOnly, Zenon DEF Procs, CopyInv, FrameTypes, Close, Go, frame
    <2>2. CASE ClosePending(p)
      BY <2>2, Zenon DEF Procs, CopyInv, FrameTypes, ClosePending, frame
    <2>3. CASE CloseDone(p)
      BY <2>3, Zenon DEF Procs, CopyInv, FrameTypes, CloseDone, Go, Put, frame
    <2> QED
      BY <1>13, <2>1, <2>2, <2>3
  <1>14. ASSUME NEW c \in Closers, NEW e \in Eps, CloseEndpoint(c, e)
       PROVE  CopyInv'
    BY <1>14, StackLockAssumption, Zenon DEF StackLockAssumption, Procs, CopyInv,
       FrameTypes, CloseEndpoint, Go, frame
  <1>15. ASSUME NEW p \in Closers \cup Irqs, TryTrusted(p) \/ TryRead(p)
              \/ TryCas(p)
       PROVE  CopyInv'
    <2>1. CASE TryTrusted(p)
      BY <2>1, StackLockAssumption, ZenonT(30) DEF StackLockAssumption, Procs,
         CopyInv, FrameTypes, TryTrusted, Go, frame
    <2>2. CASE TryRead(p)
      BY <2>2, StackLockAssumption, SMTT(30), SMTT(60) DEF StackLockAssumption,
         Procs, CopyInv, FrameTypes, TryRead, Go, Put, frame
    <2>3. CASE TryCas(p)
      BY <2>3, StackLockAssumption, ZenonT(30) DEF StackLockAssumption, Procs,
         CopyInv, FrameTypes, TryCas, Go, Put, frame
    <2> QED
      BY <1>15, <2>1, <2>2, <2>3
  <1>16. ASSUME NEW p \in Closers \cup Irqs, TryFailed(p) \/ SetShared(p)
              \/ SetTrusted(p)
       PROVE  CopyInv'
    <2>1. CASE TryFailed(p)
      BY <2>1, StackLockAssumption, Zenon DEF StackLockAssumption, Procs, CopyInv,
         FrameTypes, TryFailed, Go, frame
    <2>2. CASE SetShared(p)
      BY <2>2, StackLockAssumption, ZenonT(30) DEF StackLockAssumption, Procs,
         CopyInv, FrameTypes, SetShared, Go, Wanted, frame
    <2>3. CASE SetTrusted(p)
      BY <2>3, StackLockAssumption, ZenonT(30) DEF StackLockAssumption, Procs,
         CopyInv, FrameTypes, SetTrusted, Go, Wanted, frame
    <2> QED
      BY <1>16, <2>1, <2>2, <2>3
  <1>17. ASSUME NEW i \in Irqs, Arrive(i) \/ Interrupt(i) \/ IrqEntry(i)
              \/ IrqSetBit(i) \/ IrqTestBit(i)
       PROVE  CopyInv'
    BY <1>17, ZenonT(30) DEF Procs, CopyInv, FrameTypes, Arrive, Interrupt, Go,
       IrqEntry, IrqSetBit, IrqTestBit, frame
  <1>18. ASSUME NEW i \in Irqs, IrqPoll(i)
       PROVE  CopyInv'
    BY <1>18, IrqPollEffect, IrqPollDuty, ZenonT(30) DEF Procs, CopyInv, FrameTypes,
       frame
  <1>19. ASSUME NEW i \in Irqs, IrqPrime(i) \/ IrqPrimeTrusted(i) \/ IrqPrimeSelf(i)
       PROVE  CopyInv'
    BY <1>19, Zenon DEF Procs, CopyInv, FrameTypes, IrqPrime, Go, IrqPrimeTrusted,
       IrqPrimeSelf, frame
  <1>20. ASSUME WorkStart \/ WorkUntrusted \/ WorkTrusted \/ WorkPoll \/ WorkPrime
       PROVE  CopyInv'
    <2>1. CASE WorkStart
      BY <2>1, Zenon DEF Procs, CopyInv, FrameTypes, WorkStart, Go, frame
    <2>2. CASE WorkUntrusted
      BY <2>2, Zenon DEF Procs, CopyInv, FrameTypes, WorkUntrusted, Go, frame
    <2>3. CASE WorkTrusted
      BY <2>3, Zenon DEF Procs, CopyInv, FrameTypes, WorkTrusted, Go, Put, frame
    <2>4. CASE WorkPoll
      BY <2>4, WakesOnly, Zenon DEF Procs, CopyInv, FrameTypes, WorkPoll, Go, frame
    <2>5. CASE WorkPrime
      BY <2>5, ZenonT(30) DEF Procs, CopyInv, FrameTypes, WorkPrime, Go, Put, frame
    <2> QED
      BY <1>20, <2>1, <2>2, <2>3, <2>4, <2>5
  <1> QED
    BY <1>1, <1>2, <1>3, <1>4, <1>5, <1>6, <1>7, <1>8, <1>9, <1>10, <1>11, <1>12,
       <1>13, <1>14, <1>15, <1>16, <1>17, <1>18, <1>19, <1>20, NextSteps, Zenon

=============================================================================
