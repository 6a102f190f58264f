------------------------------ MODULE StackLockProofs -------------------------------
(***************************************************************************)
(* Theorems about StackLock, for any threads, closers, interfaces and      *)
(* endpoints: the locks exclude, each lock implements Lock, and nobody who *)
(* asked a holder for something is forgotten.                              *)
(***************************************************************************)
EXTENDS StackLockExclusion

-----------------------------------------------------------------------------
(* Somebody is going to do what was asked                                  *)

\* No step leaves a queue with the deferred bit to nobody.
LEMMA PrimeInvNext ==
    ASSUME IInv, Next PROVE PrimeInv'
  <1> /\ FrameTypes /\ FrameInv /\ CopyInv /\ ReturnInv /\ FailedInv /\ BitInv
      /\ PrimeInv
    BY DEF IInv
  <1>1. ASSUME NEW u \in Users, Lock(u) \/ Spin(u) \/ LockOrRequestWake(u)
       PROVE  PrimeInv'
    BY <1>1, ZenonT(30) DEF Procs, PrimeInv, PrimeDuty, InCallback, CbPcs,
       FrameTypes, CopyInv, Lock, Go, Spin, LockOrRequestWake, LeaveWaitQueue,
       frame, nic
  <1>2. ASSUME NEW u \in Users, AddToWaitQueue(u) \/ SetState(u) \/ Scheduled(u)
              \/ Interrupted(u)
       PROVE  PrimeInv'
    BY <1>2, StackLockAssumption, ZenonT(30) DEF StackLockAssumption, Procs,
       PrimeInv, PrimeDuty, InCallback, CbPcs, FrameTypes, CopyInv, AddToWaitQueue,
       Go, SetState, Scheduled, Interrupted, LeaveWaitQueue, frame, nic
  <1>3. ASSUME NEW u \in Users, Poll(u) \/ UsePackets(u)
       PROVE  PrimeInv'
    BY <1>3, WakesOnly, ZenonT(30) DEF Procs, PrimeInv, PrimeDuty, InCallback,
       CbPcs, FrameTypes, CopyInv, Poll, PollAll, UsePackets, frame, nic
  <1>4. ASSUME NEW u \in Users, PktWait(u) \/ PktCheck(u) \/ PktReadLock(u)
              \/ PktSetWaiter(u) \/ PktScheduled(u) \/ PktInterrupted(u)
       PROVE  PrimeInv'
    <2>1. CASE PktWait(u)
      BY <2>1, Zenon DEF Procs, PrimeInv, PrimeDuty, InCallback, CbPcs, FrameTypes,
         CopyInv, PktWait, Go, frame, nic
    <2>2. CASE PktCheck(u)
      BY <2>2, StackLockAssumption, ZenonT(30) DEF StackLockAssumption, Procs,
         PrimeInv, PrimeDuty, InCallback, CbPcs, FrameTypes, CopyInv, PktCheck, Go,
         PktLeave, frame, nic
    <2>3. CASE PktReadLock(u)
      BY <2>3, SMTT(30), SMTT(60) DEF Procs, PrimeInv, PrimeDuty, InCallback, CbPcs,
         FrameTypes, CopyInv, PktReadLock, Go, Put, frame, nic
    <2>4. CASE PktSetWaiter(u)
      BY <2>4, SMTT(30), SMTT(60) DEF Procs, PrimeInv, PrimeDuty, InCallback, CbPcs,
         FrameTypes, CopyInv, PktSetWaiter, Go, Put, frame, nic
    <2>5. CASE PktScheduled(u)
      BY <2>5, Zenon DEF Procs, PrimeInv, PrimeDuty, InCallback, CbPcs, FrameTypes,
         CopyInv, PktScheduled, Go, frame, nic
    <2>6. CASE PktInterrupted(u)
      BY <2>6, StackLockAssumption, ZenonT(30) DEF StackLockAssumption, Procs,
         PrimeInv, PrimeDuty, InCallback, CbPcs, FrameTypes, CopyInv,
         PktInterrupted, PktLeave, Go, frame, nic
    <2> QED
      BY <1>4, <2>1, <2>2, <2>3, <2>4, <2>5, <2>6
  <1>5. ASSUME NEW u \in Users, Unlock(u) \/ UlClear(u) \/ UlCommon(u)
              \/ UlRestore(u)
       PROVE  PrimeInv'
    <2>1. CASE Unlock(u)
      BY <2>1, StackLockAssumption, SMTT(30), SMTT(60) DEF StackLockAssumption,
         Procs, PrimeInv, PrimeDuty, InCallback, CbPcs, FrameTypes, CopyInv, Unlock,
         Go, frame, nic
    <2>2. CASE UlClear(u)
      BY <2>2, Zenon DEF Procs, PrimeInv, PrimeDuty, InCallback, CbPcs, FrameTypes,
         CopyInv, UlClear, ClearHandled, Go, Put, HandledFlags, frame, nic
    <2>3. CASE UlCommon(u)
      BY <2>3, UnlockingPcs, UlCommonEffect, UlCommonDuty, StackLockAssumption,
         SMTT(30), SMTT(60) DEF StackLockAssumption, Procs, PrimeInv, PrimeDuty,
         InCallback, CbPcs, FrameTypes, CopyInv, FrameInv, frame, nic
    <2>4. CASE UlRestore(u)
      BY <2>4, Zenon DEF Procs, PrimeInv, PrimeDuty, InCallback, CbPcs, FrameTypes,
         CopyInv, UlRestore, Go, Put, frame, nic
    <2> QED
      BY <1>5, <2>1, <2>2, <2>3, <2>4
  <1>6. ASSUME NEW u \in Users, UlRead(u) \/ UlCas(u) \/ UlPrime(u)
       PROVE  PrimeInv'
    BY <1>6, StackLockAssumption, SMTT(30), SMTT(60) DEF StackLockAssumption, Procs,
       PrimeInv, PrimeDuty, InCallback, CbPcs, FrameTypes, CopyInv, CallbackFlags,
       UnlockFlags, UlRead, Go, Put, UlCas, UlPrime, frame, nic
  <1>7. ASSUME NEW p \in Procs, KUnlock(p) \/ KRead(p) \/ KCas(p) \/ KWake(p)
       PROVE  PrimeInv'
    <2>1. CASE KUnlock(p)
      BY <2>1, KernelPcs, StackLockAssumption, SMTT(30), SMTT(60) DEF
         StackLockAssumption, Procs, PrimeInv, PrimeDuty, InCallback, CbPcs,
         FrameTypes, CopyInv, BitInv, FailedInv, Dropping, DropPcs, ReturnInv,
         FrameInv, KUnlock, Go, UnlockReturns, Put, frame, nic
    <2>2. CASE KRead(p)
      BY <2>2, Zenon DEF Procs, PrimeInv, PrimeDuty, InCallback, CbPcs, FrameTypes,
         CopyInv, KRead, Go, Put, frame, nic
    <2>3. CASE KCas(p)
      <3>1. CASE lock # l[p]
        BY <2>3, <3>1, SMTT(30), SMTT(60) DEF Procs, PrimeInv, PrimeDuty,
           InCallback, CbPcs, FrameTypes, KCas, Go, frame, nic
      <3>2. CASE lock = l[p]
        <4>1. "NEED_PRIME" \notin lock
          BY <2>3, <3>2 DEF CopyInv, KCas, CallbackFlags, UnlockFlags
        <4> QED
          BY <2>3, <3>2, <4>1, KernelPcs, SMTT(30), SMTT(60) DEF Procs, PrimeInv,
             PrimeDuty, InCallback, CbPcs, FrameTypes, FrameInv, ReturnInv, KCas,
             Go, Put, UnlockReturns, frame, nic
      <3> QED
        BY <3>1, <3>2
    <2>4. CASE KWake(p)
      BY <2>4, KernelPcs, StackLockAssumption, SMTT(30), SMTT(60) DEF
         StackLockAssumption, Procs, PrimeInv, PrimeDuty, InCallback, CbPcs,
         FrameTypes, CopyInv, BitInv, FailedInv, Dropping, DropPcs, ReturnInv,
         FrameInv, KWake, UnlockReturns, Go, Put, frame, nic
    <2> QED
      BY <1>7, <2>1, <2>2, <2>3, <2>4
  <1>8. ASSUME NEW p \in Procs, CbClear(p) \/ CbCommon(p) \/ CbRetry(p)
       PROVE  PrimeInv'
    BY <1>8, CbCommonEffect, CbCommonDuty, SMTT(30), SMTT(60) DEF Procs, PrimeInv,
       PrimeDuty, InCallback, CbPcs, FrameTypes, CopyInv, CbClear, ClearHandled, Go,
       Put, HandledFlags, CbRetry, frame, nic
  <1>9. ASSUME NEW p \in Procs, CbClose(p)
       PROVE  PrimeInv'
    BY <1>9, SMTT(30), SMTT(60) DEF Procs, PrimeInv, PrimeDuty, InCallback, CbPcs,
       FrameTypes, CopyInv, CbClose, Go, Put, frame, nic
  <1>10. ASSUME NEW p \in Procs, CbRead(p) \/ CbCas(p) \/ CbAfter(p)
       PROVE  PrimeInv'
    <2>1. CASE CbRead(p)
      BY <2>1, Zenon DEF Procs, PrimeInv, PrimeDuty, InCallback, CbPcs, FrameTypes,
         CopyInv, CbRead, Go, Put, frame, nic
    <2>2. CASE CbCas(p)
      BY <2>2, SMTT(30), SMTT(60) DEF Procs, PrimeInv, PrimeDuty, InCallback, CbPcs,
         FrameTypes, CopyInv, CbCas, Go, frame, nic
    <2>3. CASE CbAfter(p)
      BY <2>3, TryUnlockPcs, StackLockAssumption, SMTT(30), SMTT(60) DEF
         StackLockAssumption, Procs, PrimeInv, PrimeDuty, InCallback, CbPcs,
         FrameTypes, CopyInv, BitInv, FailedInv, Dropping, DropPcs, CbAfter, Go,
         UnlockReturns, PrimeIfDeferred, Put, frame, nic
    <2> QED
      BY <1>10, <2>1, <2>2, <2>3
  <1>11. ASSUME NEW p \in Procs, Defer(p) \/ Queue(p)
       PROVE  PrimeInv'
    <2>1. CASE Defer(p)
      BY <2>1, DeferringPcs, StackLockAssumption, SMTT(30), SMTT(60) DEF
         StackLockAssumption, Procs, PrimeInv, PrimeDuty, InCallback, CbPcs,
         FrameTypes, CopyInv, BitInv, FailedInv, Dropping, DropPcs, Defer, Go,
         frame, nic
    <2>2. CASE Queue(p)
      BY <2>2, DeferringPcs, StackLockAssumption, SMTT(30), SMTT(60) DEF
         StackLockAssumption, Procs, PrimeInv, PrimeDuty, InCallback, CbPcs,
         FrameTypes, CopyInv, BitInv, FailedInv, Dropping, DropPcs, ReturnInv,
         FrameInv, Queue, UnlockReturns, DropReturns, Go, Put, frame, nic
    <2> QED
      BY <1>11, <2>1, <2>2
  <1>12. ASSUME NEW p \in Procs, Drop(p) \/ DropClose(p) \/ DropSet(p)
       PROVE  PrimeInv'
    <2>1. CASE Drop(p)
      BY <2>1, DroppingPcs, StackLockAssumption, SMTT(30), SMTT(60) DEF
         StackLockAssumption, Procs, PrimeInv, PrimeDuty, InCallback, CbPcs,
         FrameTypes, CopyInv, FailedInv, Dropping, DropPcs, Drop, Go, Put,
         DropReturns, frame, nic
    <2>2. CASE DropClose(p)
      BY <2>2, SMTT(30), SMTT(60) DEF Procs, PrimeInv, PrimeDuty, InCallback, CbPcs,
         FrameTypes, CopyInv, DropClose, Go, frame, nic
    <2>3. CASE DropSet(p)
      BY <2>3, SMTT(30), SMTT(60) DEF Procs, PrimeInv, PrimeDuty, InCallback, CbPcs,
         FrameTypes, CopyInv, DropSet, Go, Put, frame, nic
    <2> QED
      BY <1>12, <2>1, <2>2, <2>3
  <1>13. ASSUME NEW p \in Procs, Close(p) \/ ClosePending(p) \/ CloseDone(p)
       PROVE  PrimeInv'
    BY <1>13, WakesOnly, SMTT(30), SMTT(60) DEF Procs, PrimeInv, PrimeDuty,
       InCallback, CbPcs, FrameTypes, CopyInv, Close, Go, PollAll, ClosePending,
       CloseDone, Put, frame, nic
  <1>14. ASSUME NEW c \in Closers, NEW e \in Eps, CloseEndpoint(c, e)
       PROVE  PrimeInv'
    BY <1>14, StackLockAssumption, Zenon DEF StackLockAssumption, Procs, PrimeInv,
       PrimeDuty, InCallback, CbPcs, FrameTypes, CopyInv, CloseEndpoint, Go, frame,
       nic
  <1>15. ASSUME NEW p \in Closers \cup Irqs, TryTrusted(p) \/ TryRead(p)
              \/ TryCas(p)
       PROVE  PrimeInv'
    <2>1. CASE TryTrusted(p)
      BY <2>1, StackLockAssumption, SMTT(30), SMTT(60) DEF StackLockAssumption,
         Procs, PrimeInv, PrimeDuty, InCallback, CbPcs, FrameTypes, CopyInv,
         TryTrusted, Go, frame, nic
    <2>2. CASE TryRead(p)
      BY <2>2, TryingPcs, StackLockAssumption, SMTT(30), SMTT(60) DEF
         StackLockAssumption, Procs, PrimeInv, PrimeDuty, InCallback, CbPcs,
         FrameTypes, CopyInv, FrameInv, TryRead, Go, Put, frame, nic
    <2>3. CASE TryCas(p)
      BY <2>3, TryingPcs, StackLockAssumption, SMTT(30), SMTT(60) DEF
         StackLockAssumption, Procs, PrimeInv, PrimeDuty, InCallback, CbPcs,
         FrameTypes, CopyInv, FrameInv, TryCas, Go, Put, frame, nic
    <2> QED
      BY <1>15, <2>1, <2>2, <2>3
  <1>16. ASSUME NEW p \in Closers \cup Irqs, TryFailed(p) \/ SetShared(p)
              \/ SetTrusted(p)
       PROVE  PrimeInv'
    <2>1. CASE TryFailed(p)
      BY <2>1, StackLockAssumption, Zenon DEF StackLockAssumption, Procs, PrimeInv,
         PrimeDuty, InCallback, CbPcs, FrameTypes, CopyInv, TryFailed, Go, frame,
         nic
    <2>2. CASE SetShared(p)
      BY <2>2, StackLockAssumption, SMTT(30), SMTT(60) DEF StackLockAssumption,
         Procs, PrimeInv, PrimeDuty, InCallback, CbPcs, FrameTypes, CopyInv,
         SetShared, Go, Wanted, frame, nic
    <2>3. CASE SetTrusted(p)
      BY <2>3, StackLockAssumption, SMTT(30), SMTT(60) DEF StackLockAssumption,
         Procs, PrimeInv, PrimeDuty, InCallback, CbPcs, FrameTypes, CopyInv,
         SetTrusted, Go, Wanted, frame, nic
    <2> QED
      BY <1>16, <2>1, <2>2, <2>3
  <1>17. ASSUME NEW i \in Irqs, Arrive(i) \/ Interrupt(i) \/ IrqEntry(i)
              \/ IrqSetBit(i) \/ IrqTestBit(i)
       PROVE  PrimeInv'
    <2>1. CASE Arrive(i)
      BY <2>1, Zenon DEF Procs, PrimeInv, PrimeDuty, InCallback, CbPcs, FrameTypes,
         CopyInv, Arrive, frame, nic
    <2>2. CASE Interrupt(i)
      BY <2>2, Zenon DEF Procs, PrimeInv, PrimeDuty, InCallback, CbPcs, FrameTypes,
         CopyInv, Interrupt, Go, frame, nic
    <2>3. CASE IrqEntry(i)
      BY <2>3, StackLockAssumption, ZenonT(30) DEF StackLockAssumption, Procs,
         PrimeInv, PrimeDuty, InCallback, CbPcs, FrameTypes, CopyInv, IrqEntry, Go,
         frame, nic
    <2>4. CASE IrqSetBit(i)
      BY <2>4, ZenonT(30) DEF Procs, PrimeInv, PrimeDuty, InCallback, CbPcs,
         FrameTypes, CopyInv, IrqSetBit, Go, frame, nic
    <2>5. CASE IrqTestBit(i)
      BY <2>5, InterruptsPcs, StackLockAssumption, ZenonT(30) DEF
         StackLockAssumption, Procs, PrimeInv, PrimeDuty, InCallback, CbPcs,
         FrameTypes, CopyInv, BitInv, IrqTestBit, Go, frame, nic
    <2> QED
      BY <1>17, <2>1, <2>2, <2>3, <2>4, <2>5
  <1>18. ASSUME NEW i \in Irqs, IrqPoll(i)
       PROVE  PrimeInv'
    BY <1>18, WakesOnly, SMTT(30), SMTT(60) DEF Procs, PrimeInv, PrimeDuty,
       InCallback, CbPcs, FrameTypes, CopyInv, IrqPoll, Go, Put, frame, nic
  <1>19. ASSUME NEW i \in Irqs, IrqPrime(i) \/ IrqPrimeTrusted(i) \/ IrqPrimeSelf(i)
       PROVE  PrimeInv'
    <2>1. CASE IrqPrime(i)
      BY <2>1, PrimingPcs, StackLockAssumption, ZenonT(30) DEF StackLockAssumption,
         Procs, PrimeInv, PrimeDuty, InCallback, CbPcs, FrameTypes, CopyInv, BitInv,
         IrqPrime, Go, frame, nic
    <2>2. CASE IrqPrimeTrusted(i)
      BY <2>2, PrimingPcs, StackLockAssumption, ZenonT(30) DEF StackLockAssumption,
         Procs, PrimeInv, PrimeDuty, InCallback, CbPcs, FrameTypes, CopyInv, BitInv,
         IrqPrimeTrusted, Go, frame, nic
    <2>3. CASE IrqPrimeSelf(i)
      BY <2>3, PrimingPcs, StackLockAssumption, ZenonT(30) DEF StackLockAssumption,
         Procs, PrimeInv, PrimeDuty, InCallback, CbPcs, FrameTypes, CopyInv, BitInv,
         IrqPrimeSelf, Go, frame, nic
    <2> QED
      BY <1>19, <2>1, <2>2, <2>3
  <1>20. ASSUME WorkStart \/ WorkUntrusted \/ WorkTrusted \/ WorkPoll \/ WorkPrime
       PROVE  PrimeInv'
    <2>1. CASE WorkStart
      BY <2>1, Zenon DEF Procs, PrimeInv, PrimeDuty, InCallback, CbPcs, FrameTypes,
         CopyInv, WorkStart, Go, frame, nic
    <2>2. CASE WorkUntrusted
      BY <2>2, Zenon DEF Procs, PrimeInv, PrimeDuty, InCallback, CbPcs, FrameTypes,
         CopyInv, WorkUntrusted, Go, frame, nic
    <2>3. CASE WorkTrusted
      BY <2>3, StackLockAssumption, ZenonT(30) DEF StackLockAssumption, Procs,
         PrimeInv, PrimeDuty, InCallback, CbPcs, FrameTypes, CopyInv, WorkTrusted,
         Go, Put, frame, nic
    <2>4. CASE WorkPoll
      BY <2>4, WakesOnly, Zenon DEF Procs, PrimeInv, PrimeDuty, InCallback, CbPcs,
         FrameTypes, CopyInv, WorkPoll, Go, PollAll, frame, nic
    <2>5. CASE WorkPrime
      BY <2>5, WorkingPcs, StackLockAssumption, ZenonT(30) DEF StackLockAssumption,
         Procs, PrimeInv, PrimeDuty, InCallback, CbPcs, FrameTypes, CopyInv, BitInv,
         FailedInv, Dropping, DropPcs, WorkPrime, Go, Put, PrimeIfDeferred, frame,
         nic
    <2> QED
      BY <1>20, <2>1, <2>2, <2>3, <2>4, <2>5
  <1> QED
    BY <1>1, <1>2, <1>3, <1>4, <1>5, <1>6, <1>7, <1>8, <1>9, <1>10, <1>11, <1>12,
       <1>13, <1>14, <1>15, <1>16, <1>17, <1>18, <1>19, <1>20, NextSteps, Zenon

\* No step takes the deferred bit from a queue that it does not prime.
LEMMA BitInvNext ==
    ASSUME IInv, Next PROVE BitInv'
  <1> FrameTypes /\ ReturnInv /\ FailedInv /\ BitInv
    BY DEF IInv
  <1>1. ASSUME NEW u \in Users, Lock(u) \/ Spin(u) \/ LockOrRequestWake(u)
       PROVE  BitInv'
    BY <1>1, Zenon DEF Procs, BitInv, FrameTypes, Lock, Go, Spin, LockOrRequestWake,
       LeaveWaitQueue, frame, nic
  <1>2. ASSUME NEW u \in Users, AddToWaitQueue(u) \/ SetState(u) \/ Scheduled(u)
              \/ Interrupted(u)
       PROVE  BitInv'
    BY <1>2, StackLockAssumption, ZenonT(30) DEF StackLockAssumption, Procs, BitInv,
       FrameTypes, AddToWaitQueue, Go, SetState, Scheduled, Interrupted,
       LeaveWaitQueue, frame, nic
  <1>3. ASSUME NEW u \in Users, Poll(u) \/ UsePackets(u)
       PROVE  BitInv'
    BY <1>3, WakesOnly, Zenon DEF Procs, BitInv, FrameTypes, Poll, PollAll,
       UsePackets, frame, nic
  <1>4. ASSUME NEW u \in Users, PktWait(u) \/ PktCheck(u) \/ PktReadLock(u)
              \/ PktSetWaiter(u) \/ PktScheduled(u) \/ PktInterrupted(u)
       PROVE  BitInv'
    BY <1>4, StackLockAssumption, ZenonT(30) DEF StackLockAssumption, Procs, BitInv,
       FrameTypes, PktWait, Go, PktCheck, PktLeave, PktReadLock, Put, PktSetWaiter,
       PktScheduled, PktInterrupted, frame, nic
  <1>5. ASSUME NEW u \in Users, Unlock(u) \/ UlClear(u) \/ UlCommon(u)
              \/ UlRestore(u)
       PROVE  BitInv'
    <2>1. CASE Unlock(u)
      BY <2>1, StackLockAssumption, ZenonT(30) DEF StackLockAssumption, Procs,
         BitInv, FrameTypes, Unlock, Go, frame, nic
    <2>2. CASE UlClear(u)
      BY <2>2, Zenon DEF Procs, BitInv, FrameTypes, UlClear, ClearHandled, Go, Put,
         HandledFlags, frame, nic
    <2>3. CASE UlCommon(u)
      BY <2>3, UlCommonEffect, UlCommonDuty, SMTT(30), SMTT(60) DEF Procs, BitInv,
         FrameTypes, frame, nic
    <2>4. CASE UlRestore(u)
      BY <2>4, Zenon DEF Procs, BitInv, FrameTypes, UlRestore, Go, Put, frame, nic
    <2> QED
      BY <1>5, <2>1, <2>2, <2>3, <2>4
  <1>6. ASSUME NEW u \in Users, UlRead(u) \/ UlCas(u) \/ UlPrime(u)
       PROVE  BitInv'
    <2>1. CASE UlRead(u)
      BY <2>1, ZenonT(30) DEF Procs, BitInv, FrameTypes, UlRead, Go, Put, frame, nic
    <2>2. CASE UlCas(u)
      BY <2>2, StackLockAssumption, ZenonT(30) DEF StackLockAssumption, Procs,
         BitInv, FrameTypes, UlCas, Go, Put, frame, nic
    <2>3. CASE UlPrime(u)
      BY <2>3, Zenon DEF Procs, BitInv, FrameTypes, UlPrime, Go, Put, frame, nic
    <2> QED
      BY <1>6, <2>1, <2>2, <2>3
  <1>7. ASSUME NEW p \in Procs, KUnlock(p) \/ KRead(p) \/ KCas(p) \/ KWake(p)
       PROVE  BitInv'
    <2>1. CASE KUnlock(p)
      BY <2>1, KernelPcs, StackLockAssumption, SMTT(30), SMTT(60) DEF
         StackLockAssumption, Procs, BitInv, FrameTypes, FailedInv, Dropping,
         DropPcs, KUnlock, Go, UnlockReturns, Put, frame, nic
    <2>2. CASE KRead(p)
      BY <2>2, Zenon DEF Procs, BitInv, FrameTypes, KRead, Go, Put, frame, nic
    <2>3. CASE KCas(p)
      BY <2>3, KernelPcs, StackLockAssumption, SMTT(30), SMTT(60) DEF
         StackLockAssumption, Procs, BitInv, FrameTypes, FailedInv, Dropping,
         DropPcs, KCas, Go, UnlockReturns, Put, frame, nic
    <2>4. CASE KWake(p)
      BY <2>4, KernelPcs, StackLockAssumption, ZenonT(30) DEF StackLockAssumption,
         Procs, BitInv, FrameTypes, FailedInv, Dropping, DropPcs, KWake,
         UnlockReturns, Go, Put, frame, nic
    <2> QED
      BY <1>7, <2>1, <2>2, <2>3, <2>4
  <1>8. ASSUME NEW p \in Procs, CbClear(p) \/ CbCommon(p) \/ CbRetry(p)
       PROVE  BitInv'
    BY <1>8, CbCommonEffect, CbCommonDuty, SMTT(30), SMTT(60) DEF Procs, BitInv,
       FrameTypes, CbClear, ClearHandled, Go, Put, HandledFlags, CbRetry, frame, nic
  <1>9. ASSUME NEW p \in Procs, CbClose(p)
       PROVE  BitInv'
    BY <1>9, SMTT(30), SMTT(60) DEF Procs, BitInv, FrameTypes, CbClose, Go, Put,
       frame, nic
  <1>10. ASSUME NEW p \in Procs, CbRead(p) \/ CbCas(p) \/ CbAfter(p)
       PROVE  BitInv'
    BY <1>10, TryUnlockPcs, StackLockAssumption, SMTT(30), SMTT(60) DEF
       StackLockAssumption, Procs, BitInv, FrameTypes, FailedInv, Dropping,
       ReturnInv, DropPcs, CbRead, Go, Put, CbCas, CbAfter, UnlockReturns,
       PrimeIfDeferred, frame, nic
  <1>11. ASSUME NEW p \in Procs, Defer(p) \/ Queue(p)
       PROVE  BitInv'
    BY <1>11, DeferringPcs, StackLockAssumption, SMTT(30), SMTT(60) DEF
       StackLockAssumption, Procs, BitInv, FrameTypes, FailedInv, Dropping, DropPcs,
       Defer, Go, Queue, UnlockReturns, DropReturns, Put, frame, nic
  <1>12. ASSUME NEW p \in Procs, Drop(p) \/ DropClose(p) \/ DropSet(p)
       PROVE  BitInv'
    <2>1. CASE Drop(p)
      BY <2>1, DroppingPcs, StackLockAssumption, SMTT(30), SMTT(60) DEF
         StackLockAssumption, Procs, BitInv, FrameTypes, FailedInv, Dropping,
         ReturnInv, DropPcs, Drop, Go, Put, DropReturns, frame, nic
    <2>2. CASE DropClose(p)
      BY <2>2, DroppingPcs, StackLockAssumption, ZenonT(30) DEF StackLockAssumption,
         Procs, BitInv, FrameTypes, FailedInv, Dropping, ReturnInv, DropPcs,
         DropClose, Go, frame, nic
    <2>3. CASE DropSet(p)
      BY <2>3, DroppingPcs, StackLockAssumption, ZenonT(30) DEF StackLockAssumption,
         Procs, BitInv, FrameTypes, FailedInv, Dropping, ReturnInv, DropPcs,
         DropSet, Go, Put, frame, nic
    <2> QED
      BY <1>12, <2>1, <2>2, <2>3
  <1>13. ASSUME NEW p \in Procs, Close(p) \/ ClosePending(p) \/ CloseDone(p)
       PROVE  BitInv'
    BY <1>13, WakesOnly, SMTT(30), SMTT(60) DEF Procs, BitInv, FrameTypes, Close,
       Go, PollAll, ClosePending, CloseDone, Put, frame, nic
  <1>14. ASSUME NEW c \in Closers, NEW e \in Eps, CloseEndpoint(c, e)
       PROVE  BitInv'
    BY <1>14, StackLockAssumption, Zenon DEF StackLockAssumption, Procs, BitInv,
       FrameTypes, CloseEndpoint, Go, frame, nic
  <1>15. ASSUME NEW p \in Closers \cup Irqs, TryTrusted(p) \/ TryRead(p)
              \/ TryCas(p)
       PROVE  BitInv'
    BY <1>15, StackLockAssumption, SMTT(30), SMTT(60) DEF StackLockAssumption,
       Procs, BitInv, FrameTypes, TryTrusted, Go, TryRead, Put, TryCas, frame, nic
  <1>16. ASSUME NEW p \in Closers \cup Irqs, TryFailed(p) \/ SetShared(p)
              \/ SetTrusted(p)
       PROVE  BitInv'
    BY <1>16, StackLockAssumption, Zenon DEF StackLockAssumption, Procs, BitInv,
       FrameTypes, TryFailed, Go, SetShared, Wanted, SetTrusted, frame, nic
  <1>17. ASSUME NEW i \in Irqs, Arrive(i) \/ Interrupt(i) \/ IrqEntry(i)
              \/ IrqSetBit(i) \/ IrqTestBit(i)
       PROVE  BitInv'
    <2>1. CASE Arrive(i)
      BY <2>1, Zenon DEF Procs, BitInv, FrameTypes, Arrive, frame, nic
    <2>2. CASE Interrupt(i)
      BY <2>2, Zenon DEF Procs, BitInv, FrameTypes, Interrupt, Go, frame, nic
    <2>3. CASE IrqEntry(i)
      BY <2>3, ZenonT(30) DEF Procs, BitInv, FrameTypes, IrqEntry, Go, frame, nic
    <2>4. CASE IrqSetBit(i)
      BY <2>4, Zenon DEF Procs, BitInv, FrameTypes, IrqSetBit, Go, frame, nic
    <2>5. CASE IrqTestBit(i)
      BY <2>5, Zenon DEF Procs, BitInv, FrameTypes, IrqTestBit, Go, frame, nic
    <2> QED
      BY <1>17, <2>1, <2>2, <2>3, <2>4, <2>5
  <1>18. ASSUME NEW i \in Irqs, IrqPoll(i)
       PROVE  BitInv'
    BY <1>18, WakesOnly, ZenonT(30) DEF Procs, BitInv, FrameTypes, IrqPoll, Go, Put,
       frame, nic
  <1>19. ASSUME NEW i \in Irqs, IrqPrime(i) \/ IrqPrimeTrusted(i) \/ IrqPrimeSelf(i)
       PROVE  BitInv'
    BY <1>19, ZenonT(30) DEF Procs, BitInv, FrameTypes, IrqPrime, Go,
       IrqPrimeTrusted, IrqPrimeSelf, frame, nic
  <1>20. ASSUME WorkStart \/ WorkUntrusted \/ WorkTrusted \/ WorkPoll \/ WorkPrime
       PROVE  BitInv'
    <2>1. CASE WorkStart
      BY <2>1, Zenon DEF Procs, BitInv, FrameTypes, WorkStart, Go, frame, nic
    <2>2. CASE WorkUntrusted
      BY <2>2, Zenon DEF Procs, BitInv, FrameTypes, WorkUntrusted, Go, frame, nic
    <2>3. CASE WorkTrusted
      BY <2>3, StackLockAssumption, Zenon DEF StackLockAssumption, Procs, BitInv,
         FrameTypes, WorkTrusted, Go, Put, frame, nic
    <2>4. CASE WorkPoll
      BY <2>4, WakesOnly, Zenon DEF Procs, BitInv, FrameTypes, WorkPoll, Go,
         PollAll, frame, nic
    <2>5. CASE WorkPrime
      BY <2>5, StackLockAssumption, Zenon DEF StackLockAssumption, Procs, BitInv,
         FrameTypes, WorkPrime, Go, Put, PrimeIfDeferred, frame, nic
    <2> QED
      BY <1>20, <2>1, <2>2, <2>3, <2>4, <2>5
  <1> QED
    BY <1>1, <1>2, <1>3, <1>4, <1>5, <1>6, <1>7, <1>8, <1>9, <1>10, <1>11, <1>12,
       <1>13, <1>14, <1>15, <1>16, <1>17, <1>18, <1>19, <1>20, NextSteps, Zenon

\* A handler that could not get both locks comes back to ask for what it needs.
LEMMA FailedInvNext ==
    ASSUME IInv, Next PROVE FailedInv'
  <1> FrameTypes /\ FrameInv /\ ReturnInv /\ FailedInv /\ ContextInv
    BY DEF IInv
  <1>1. ASSUME NEW u \in Users, Lock(u) \/ Spin(u) \/ LockOrRequestWake(u)
       PROVE  FailedInv'
    BY <1>1, StackLockAssumption, Zenon DEF StackLockAssumption, Procs, FailedInv,
       Dropping, DropPcs, FrameTypes, Lock, Go, Spin, LockOrRequestWake,
       LeaveWaitQueue, frame, nic
  <1>2. ASSUME NEW u \in Users, AddToWaitQueue(u) \/ SetState(u) \/ Scheduled(u)
              \/ Interrupted(u)
       PROVE  FailedInv'
    BY <1>2, StackLockAssumption, ZenonT(30) DEF StackLockAssumption, Procs,
       FailedInv, Dropping, DropPcs, FrameTypes, AddToWaitQueue, Go, SetState,
       Scheduled, Interrupted, LeaveWaitQueue, frame, nic
  <1>3. ASSUME NEW u \in Users, Poll(u) \/ UsePackets(u)
       PROVE  FailedInv'
    BY <1>3, StackLockAssumption, WakesOnly, Zenon DEF StackLockAssumption, Procs,
       FailedInv, Dropping, DropPcs, FrameTypes, Poll, PollAll, UsePackets, frame,
       nic
  <1>4. ASSUME NEW u \in Users, PktWait(u) \/ PktCheck(u) \/ PktReadLock(u)
              \/ PktSetWaiter(u) \/ PktScheduled(u) \/ PktInterrupted(u)
       PROVE  FailedInv'
    BY <1>4, StackLockAssumption, ZenonT(30) DEF StackLockAssumption, Procs,
       FailedInv, Dropping, DropPcs, FrameTypes, PktWait, Go, PktCheck, PktLeave,
       PktReadLock, Put, PktSetWaiter, PktScheduled, PktInterrupted, frame, nic
  <1>5. ASSUME NEW u \in Users, Unlock(u) \/ UlClear(u) \/ UlCommon(u)
              \/ UlRestore(u)
       PROVE  FailedInv'
    <2>1. CASE Unlock(u)
      BY <2>1, StackLockAssumption, Zenon DEF StackLockAssumption, Procs, FailedInv,
         Dropping, DropPcs, FrameTypes, Unlock, Go, frame, nic
    <2>2. CASE UlClear(u)
      BY <2>2, StackLockAssumption, Zenon DEF StackLockAssumption, Procs, FailedInv,
         Dropping, DropPcs, FrameTypes, UlClear, ClearHandled, Go, Put,
         HandledFlags, frame, nic
    <2>3. CASE UlCommon(u)
      BY <2>3, StackLockAssumption, UlCommonEffect, UlCommonDuty, SMTT(30), SMTT(60)
         DEF StackLockAssumption, Procs, FailedInv, Dropping, DropPcs, FrameTypes,
         frame, nic
    <2>4. CASE UlRestore(u)
      BY <2>4, StackLockAssumption, Zenon DEF StackLockAssumption, Procs, FailedInv,
         Dropping, DropPcs, FrameTypes, UlRestore, Go, Put, frame, nic
    <2> QED
      BY <1>5, <2>1, <2>2, <2>3, <2>4
  <1>6. ASSUME NEW u \in Users, UlRead(u) \/ UlCas(u) \/ UlPrime(u)
       PROVE  FailedInv'
    BY <1>6, StackLockAssumption, ZenonT(30) DEF StackLockAssumption, Procs,
       FailedInv, Dropping, DropPcs, FrameTypes, UlRead, Go, Put, UlCas, UlPrime,
       frame, nic
  <1>7. ASSUME NEW p \in Procs, KUnlock(p) \/ KRead(p) \/ KCas(p) \/ KWake(p)
       PROVE  FailedInv'
    <2>1. CASE KUnlock(p)
      BY <2>1, KernelPcs, StackLockAssumption, SMTT(30), SMTT(60) DEF
         StackLockAssumption, Procs, FailedInv, Dropping, DropPcs, FrameTypes,
         ReturnInv, KUnlock, Go, UnlockReturns, Put, frame, nic
    <2>2. CASE KRead(p)
      BY <2>2, KernelPcs, StackLockAssumption, Zenon DEF StackLockAssumption, Procs,
         FailedInv, Dropping, DropPcs, FrameTypes, KRead, Go, Put, frame, nic
    <2>3. CASE KCas(p)
      BY <2>3, KernelPcs, StackLockAssumption, SMTT(30), SMTT(60) DEF
         StackLockAssumption, Procs, FailedInv, Dropping, DropPcs, FrameTypes,
         ReturnInv, KCas, Go, UnlockReturns, Put, frame, nic
    <2>4. CASE KWake(p)
      BY <2>4, KernelPcs, StackLockAssumption, Zenon DEF StackLockAssumption, Procs,
         FailedInv, Dropping, DropPcs, FrameTypes, ReturnInv, KWake, UnlockReturns,
         Go, Put, frame, nic
    <2> QED
      BY <1>7, <2>1, <2>2, <2>3, <2>4
  <1>8. ASSUME NEW p \in Procs, CbClear(p) \/ CbCommon(p) \/ CbRetry(p)
       PROVE  FailedInv'
    <2>1. CASE CbClear(p)
      BY <2>1, CallbackPcs, StackLockAssumption, Zenon DEF StackLockAssumption,
         Procs, FailedInv, Dropping, DropPcs, FrameTypes, CbClear, ClearHandled, Go,
         Put, HandledFlags, frame, nic
    <2>2. CASE CbCommon(p)
      BY <2>2, CallbackPcs, CbCommonEffect, CbCommonDuty, StackLockAssumption,
         SMTT(30), SMTT(60) DEF StackLockAssumption, Procs, FailedInv, Dropping,
         DropPcs, FrameTypes, frame, nic
    <2>3. CASE CbRetry(p)
      BY <2>3, CallbackPcs, StackLockAssumption, ZenonT(30) DEF StackLockAssumption,
         Procs, FailedInv, Dropping, DropPcs, FrameTypes, CbRetry, Go, frame, nic
    <2> QED
      BY <1>8, <2>1, <2>2, <2>3
  <1>9. ASSUME NEW p \in Procs, CbClose(p)
       PROVE  FailedInv'
    BY <1>9, CallbackClosePcs, StackLockAssumption, SMTT(30), SMTT(60) DEF
       StackLockAssumption, Procs, FailedInv, Dropping, DropPcs, FrameTypes,
       CbClose, Go, Put, frame, nic
  <1>10. ASSUME NEW p \in Procs, CbRead(p) \/ CbCas(p) \/ CbAfter(p)
       PROVE  FailedInv'
    <2>1. CASE CbRead(p)
      BY <2>1, TryUnlockPcs, StackLockAssumption, Zenon DEF StackLockAssumption,
         Procs, FailedInv, Dropping, DropPcs, FrameTypes, CbRead, Go, Put, frame,
         nic
    <2>2. CASE CbCas(p)
      BY <2>2, TryUnlockPcs, StackLockAssumption, ZenonT(30) DEF
         StackLockAssumption, Procs, FailedInv, Dropping, DropPcs, FrameTypes,
         CbCas, Go, frame, nic
    <2>3. CASE CbAfter(p)
      BY <2>3, TryUnlockPcs, StackLockAssumption, SMTT(30), SMTT(60) DEF
         StackLockAssumption, Procs, FailedInv, Dropping, DropPcs, FrameTypes,
         ReturnInv, CbAfter, Go, UnlockReturns, PrimeIfDeferred, Put, frame, nic
    <2> QED
      BY <1>10, <2>1, <2>2, <2>3
  <1>11. ASSUME NEW p \in Procs, Defer(p) \/ Queue(p)
       PROVE  FailedInv'
    <2>1. CASE Defer(p)
      BY <2>1, DeferringPcs, StackLockAssumption, SMTT(30), SMTT(60) DEF
         StackLockAssumption, Procs, FailedInv, Dropping, DropPcs, FrameTypes,
         Defer, Go, frame, nic
    <2>2. CASE Queue(p)
      BY <2>2, DeferringPcs, StackLockAssumption, SMTT(30), SMTT(60) DEF
         StackLockAssumption, Procs, FailedInv, Dropping, DropPcs, FrameTypes,
         ReturnInv, FrameInv, Queue, UnlockReturns, DropReturns, Go, Put, frame, nic
    <2> QED
      BY <1>11, <2>1, <2>2
  <1>12. ASSUME NEW p \in Procs, Drop(p) \/ DropClose(p) \/ DropSet(p)
       PROVE  FailedInv'
    <2>1. CASE Drop(p)
      BY <2>1, DroppingPcs, StackLockAssumption, ZenonT(30) DEF StackLockAssumption,
         Procs, FailedInv, Dropping, DropPcs, FrameTypes, Drop, Go, Put,
         DropReturns, frame, nic
    <2>2. CASE DropClose(p)
      BY <2>2, StackLockAssumption, ZenonT(30) DEF StackLockAssumption, Procs,
         FailedInv, Dropping, DropPcs, FrameTypes, DropClose, Go, frame, nic
    <2>3. CASE DropSet(p)
      BY <2>3, DroppingPcs, StackLockAssumption, ZenonT(30) DEF StackLockAssumption,
         Procs, FailedInv, Dropping, DropPcs, FrameTypes, DropSet, Go, Put, frame,
         nic
    <2> QED
      BY <1>12, <2>1, <2>2, <2>3
  <1>13. ASSUME NEW p \in Procs, Close(p) \/ ClosePending(p) \/ CloseDone(p)
       PROVE  FailedInv'
    <2>1. CASE Close(p)
      BY <2>1, ClosingPcs, StackLockAssumption, WakesOnly, ZenonT(30) DEF
         StackLockAssumption, Procs, FailedInv, Dropping, DropPcs, FrameTypes,
         ContextInv, InterruptContext, Close, Go, PollAll, frame, nic
    <2>2. CASE ClosePending(p)
      BY <2>2, StackLockAssumption, Zenon DEF StackLockAssumption, Procs, FailedInv,
         Dropping, DropPcs, FrameTypes, ClosePending, frame, nic
    <2>3. CASE CloseDone(p)
      BY <2>3, ClosingPcs, StackLockAssumption, ZenonT(30) DEF StackLockAssumption,
         Procs, FailedInv, Dropping, DropPcs, FrameTypes, ContextInv,
         InterruptContext, CloseDone, Go, Put, frame, nic
    <2> QED
      BY <1>13, <2>1, <2>2, <2>3
  <1>14. ASSUME NEW c \in Closers, NEW e \in Eps, CloseEndpoint(c, e)
       PROVE  FailedInv'
    BY <1>14, StackLockAssumption, Zenon DEF StackLockAssumption, Procs, FailedInv,
       Dropping, DropPcs, FrameTypes, CloseEndpoint, Go, frame, nic
  <1>15. ASSUME NEW p \in Closers \cup Irqs, TryTrusted(p) \/ TryRead(p)
              \/ TryCas(p)
       PROVE  FailedInv'
    <2>1. CASE TryTrusted(p)
      BY <2>1, TryingPcs, StackLockAssumption, ZenonT(30) DEF StackLockAssumption,
         Procs, FailedInv, Dropping, DropPcs, FrameTypes, TryTrusted, Go, frame, nic
    <2>2. CASE TryRead(p)
      BY <2>2, TryingPcs, StackLockAssumption, ZenonT(30) DEF StackLockAssumption,
         Procs, FailedInv, Dropping, DropPcs, FrameTypes, TryRead, Go, Put, frame,
         nic
    <2>3. CASE TryCas(p)
      BY <2>3, TryingPcs, StackLockAssumption, ZenonT(30) DEF StackLockAssumption,
         Procs, FailedInv, Dropping, DropPcs, FrameTypes, TryCas, Go, Put, frame,
         nic
    <2> QED
      BY <1>15, <2>1, <2>2, <2>3
  <1>16. ASSUME NEW p \in Closers \cup Irqs, TryFailed(p) \/ SetShared(p)
              \/ SetTrusted(p)
       PROVE  FailedInv'
    <2>1. CASE TryFailed(p)
      BY <2>1, AskingPcs, StackLockAssumption, Zenon DEF StackLockAssumption, Procs,
         FailedInv, Dropping, DropPcs, FrameTypes, TryFailed, Go, frame, nic
    <2>2. CASE SetShared(p)
      BY <2>2, AskingPcs, StackLockAssumption, ZenonT(30) DEF StackLockAssumption,
         Procs, FailedInv, Dropping, DropPcs, FrameTypes, SetShared, Go, Wanted,
         frame, nic
    <2>3. CASE SetTrusted(p)
      BY <2>3, AskingPcs, StackLockAssumption, ZenonT(30) DEF StackLockAssumption,
         Procs, FailedInv, Dropping, DropPcs, FrameTypes, SetTrusted, Go, Wanted,
         frame, nic
    <2> QED
      BY <1>16, <2>1, <2>2, <2>3
  <1>17. ASSUME NEW i \in Irqs, Arrive(i) \/ Interrupt(i) \/ IrqEntry(i)
              \/ IrqSetBit(i) \/ IrqTestBit(i)
       PROVE  FailedInv'
    <2>1. CASE Arrive(i)
      BY <2>1, StackLockAssumption, Zenon DEF StackLockAssumption, Procs, FailedInv,
         Dropping, DropPcs, FrameTypes, Arrive, frame, nic
    <2>2. CASE Interrupt(i)
      BY <2>2, InterruptsPcs, StackLockAssumption, Zenon DEF StackLockAssumption,
         Procs, FailedInv, Dropping, DropPcs, FrameTypes, Interrupt, Go, frame, nic
    <2>3. CASE IrqEntry(i)
      BY <2>3, InterruptsPcs, StackLockAssumption, ZenonT(30) DEF
         StackLockAssumption, Procs, FailedInv, Dropping, DropPcs, FrameTypes,
         IrqEntry, Go, frame, nic
    <2>4. CASE IrqSetBit(i)
      BY <2>4, InterruptsPcs, StackLockAssumption, ZenonT(30) DEF
         StackLockAssumption, Procs, FailedInv, Dropping, DropPcs, FrameTypes,
         IrqSetBit, Go, frame, nic
    <2>5. CASE IrqTestBit(i)
      BY <2>5, InterruptsPcs, StackLockAssumption, Zenon DEF StackLockAssumption,
         Procs, FailedInv, Dropping, DropPcs, FrameTypes, IrqTestBit, Go, frame, nic
    <2> QED
      BY <1>17, <2>1, <2>2, <2>3, <2>4, <2>5
  <1>18. ASSUME NEW i \in Irqs, IrqPoll(i)
       PROVE  FailedInv'
    BY <1>18, IrqPollingPcs, StackLockAssumption, WakesOnly, SMTT(30), SMTT(60) DEF
       StackLockAssumption, Procs, FailedInv, Dropping, DropPcs, FrameTypes,
       IrqPoll, Go, Put, frame, nic
  <1>19. ASSUME NEW i \in Irqs, IrqPrime(i) \/ IrqPrimeTrusted(i) \/ IrqPrimeSelf(i)
       PROVE  FailedInv'
    BY <1>19, PrimingPcs, StackLockAssumption, ZenonT(30) DEF StackLockAssumption,
       Procs, FailedInv, Dropping, DropPcs, FrameTypes, IrqPrime, Go,
       IrqPrimeTrusted, IrqPrimeSelf, frame, nic
  <1>20. ASSUME WorkStart \/ WorkUntrusted \/ WorkTrusted \/ WorkPoll \/ WorkPrime
       PROVE  FailedInv'
    <2>1. CASE WorkStart
      BY <2>1, StackLockAssumption, Zenon DEF StackLockAssumption, Procs, FailedInv,
         Dropping, DropPcs, FrameTypes, WorkStart, Go, frame, nic
    <2>2. CASE WorkUntrusted
      BY <2>2, StackLockAssumption, Zenon DEF StackLockAssumption, Procs, FailedInv,
         Dropping, DropPcs, FrameTypes, WorkUntrusted, Go, frame, nic
    <2>3. CASE WorkTrusted
      BY <2>3, StackLockAssumption, Zenon DEF StackLockAssumption, Procs, FailedInv,
         Dropping, DropPcs, FrameTypes, WorkTrusted, Go, Put, frame, nic
    <2>4. CASE WorkPoll
      BY <2>4, StackLockAssumption, WakesOnly, Zenon DEF StackLockAssumption, Procs,
         FailedInv, Dropping, DropPcs, FrameTypes, WorkPoll, Go, PollAll, frame, nic
    <2>5. CASE WorkPrime
      BY <2>5, StackLockAssumption, Zenon DEF StackLockAssumption, Procs, FailedInv,
         Dropping, DropPcs, FrameTypes, WorkPrime, Go, Put, PrimeIfDeferred, frame,
         nic
    <2> QED
      BY <1>20, <2>1, <2>2, <2>3, <2>4, <2>5
  <1> QED
    BY <1>1, <1>2, <1>3, <1>4, <1>5, <1>6, <1>7, <1>8, <1>9, <1>10, <1>11, <1>12,
       <1>13, <1>14, <1>15, <1>16, <1>17, <1>18, <1>19, <1>20, NextSteps, Zenon

\* No step leaves ep_tobe_closed to nobody.
LEMMA ClosingInvNext ==
    ASSUME IInv, Next PROVE ClosingInv'
  <1> FrameTypes /\ FrameInv /\ CopyInv /\ ReturnInv /\ ClosingInv
    BY DEF IInv
  <1>1. ASSUME NEW u \in Users, Lock(u) \/ Spin(u) \/ LockOrRequestWake(u)
       PROVE  ClosingInv'
    BY <1>1, Zenon DEF Procs, ClosingInv, ClosingDuty, TryPcs, FrameTypes, Lock, Go,
       Spin, LockOrRequestWake, LeaveWaitQueue, frame, closing
  <1>2. ASSUME NEW u \in Users, AddToWaitQueue(u) \/ SetState(u) \/ Scheduled(u)
              \/ Interrupted(u)
       PROVE  ClosingInv'
    BY <1>2, Zenon DEF Procs, ClosingInv, ClosingDuty, TryPcs, FrameTypes,
       AddToWaitQueue, Go, SetState, Scheduled, Interrupted, LeaveWaitQueue, frame,
       closing
  <1>3. ASSUME NEW u \in Users, Poll(u) \/ UsePackets(u)
       PROVE  ClosingInv'
    BY <1>3, StackLockAssumption, WakesOnly, Zenon DEF StackLockAssumption, Procs,
       ClosingInv, ClosingDuty, TryPcs, FrameTypes, CopyInv, CallbackFlags,
       UnlockFlags, Poll, UsePackets, frame, closing
  <1>4. ASSUME NEW u \in Users, PktWait(u) \/ PktCheck(u) \/ PktReadLock(u)
              \/ PktSetWaiter(u) \/ PktScheduled(u) \/ PktInterrupted(u)
       PROVE  ClosingInv'
    BY <1>4, Zenon DEF Procs, ClosingInv, ClosingDuty, TryPcs, FrameTypes, PktWait,
       Go, PktCheck, PktLeave, PktReadLock, Put, PktSetWaiter, PktScheduled,
       PktInterrupted, frame, closing
  <1>5. ASSUME NEW u \in Users, Unlock(u) \/ UlClear(u) \/ UlCommon(u)
              \/ UlRestore(u)
       PROVE  ClosingInv'
    <2>1. CASE Unlock(u)
      BY <2>1, UnlockingPcs, Held, StackLockAssumption, ZenonT(30) DEF
         StackLockAssumption, Procs, ClosingInv, ClosingDuty, TryPcs, FrameTypes,
         FrameInv, ReturnInv, RunsTrusted, Unlock, Go, frame, closing
    <2>2. CASE UlClear(u)
      BY <2>2, Zenon DEF Procs, ClosingInv, ClosingDuty, TryPcs, FrameTypes,
         UlClear, ClearHandled, Go, Put, HandledFlags, frame, closing
    <2>3. CASE UlCommon(u)
      BY <2>3, UlCommonEffect, UlCommonDuty, SMTT(30), SMTT(60), SMTT(90) DEF Procs,
         ClosingInv, ClosingDuty, TryPcs, FrameTypes, frame, closing
    <2>4. CASE UlRestore(u)
      BY <2>4, Zenon DEF Procs, ClosingInv, ClosingDuty, TryPcs, FrameTypes,
         UlRestore, Go, Put, frame, closing
    <2> QED
      BY <1>5, <2>1, <2>2, <2>3, <2>4
  <1>6. ASSUME NEW u \in Users, UlRead(u) \/ UlCas(u) \/ UlPrime(u)
       PROVE  ClosingInv'
    BY <1>6, Zenon DEF Procs, ClosingInv, ClosingDuty, TryPcs, FrameTypes, UlRead,
       Go, Put, UlCas, UlPrime, frame, closing
  <1>7. ASSUME NEW p \in Procs, KUnlock(p) \/ KRead(p) \/ KCas(p) \/ KWake(p)
       PROVE  ClosingInv'
    <2>1. CASE KUnlock(p)
      BY <2>1, ZenonT(30) DEF Procs, ClosingInv, ClosingDuty, TryPcs, FrameTypes,
         KUnlock, Go, UnlockReturns, Put, frame, closing
    <2>2. CASE KRead(p)
      BY <2>2, Zenon DEF Procs, ClosingInv, ClosingDuty, TryPcs, FrameTypes, KRead,
         Go, Put, frame, closing
    <2>3. CASE KCas(p)
      BY <2>3, StackLockAssumption, SMTT(30), SMTT(60), SMTT(90) DEF
         StackLockAssumption, Procs, ClosingInv, ClosingDuty, TryPcs, FrameTypes,
         CopyInv, CallbackFlags, UnlockFlags, KCas, Go, UnlockReturns, Put, frame,
         closing
    <2>4. CASE KWake(p)
      BY <2>4, Zenon DEF Procs, ClosingInv, ClosingDuty, TryPcs, FrameTypes, KWake,
         UnlockReturns, Go, Put, frame, closing
    <2> QED
      BY <1>7, <2>1, <2>2, <2>3, <2>4
  <1>8. ASSUME NEW p \in Procs, CbClear(p) \/ CbCommon(p) \/ CbRetry(p)
       PROVE  ClosingInv'
    <2>1. CASE CbClear(p)
      BY <2>1, Zenon DEF Procs, ClosingInv, ClosingDuty, TryPcs, FrameTypes,
         CbClear, ClearHandled, Go, Put, HandledFlags, frame, closing
    <2>2. CASE CbCommon(p)
      BY <2>2, CbCommonEffect, CbCommonDuty, SMTT(30), SMTT(60), SMTT(90) DEF Procs,
         ClosingInv, ClosingDuty, TryPcs, FrameTypes, frame, closing
    <2>3. CASE CbRetry(p)
      BY <2>3, Zenon DEF Procs, ClosingInv, ClosingDuty, TryPcs, FrameTypes,
         CbRetry, Go, frame, closing
    <2> QED
      BY <1>8, <2>1, <2>2, <2>3
  <1>9. ASSUME NEW p \in Procs, CbClose(p)
       PROVE  ClosingInv'
    BY <1>9, Zenon DEF Procs, ClosingInv, ClosingDuty, TryPcs, FrameTypes, CbClose,
       Go, Put, frame, closing
  <1>10. ASSUME NEW p \in Procs, CbRead(p) \/ CbCas(p) \/ CbAfter(p)
       PROVE  ClosingInv'
    BY <1>10, Zenon DEF Procs, ClosingInv, ClosingDuty, TryPcs, FrameTypes, CbRead,
       Go, Put, CbCas, CbAfter, UnlockReturns, frame, closing
  <1>11. ASSUME NEW p \in Procs, Defer(p) \/ Queue(p)
       PROVE  ClosingInv'
    <2>1. CASE Defer(p)
      BY <2>1, SMTT(30), SMTT(60), SMTT(90) DEF Procs, ClosingInv, ClosingDuty,
         TryPcs, FrameTypes, Defer, Go, frame, closing
    <2>2. CASE Queue(p)
      BY <2>2, ZenonT(30) DEF Procs, ClosingInv, ClosingDuty, TryPcs, FrameTypes,
         Queue, UnlockReturns, DropReturns, Go, Put, frame, closing
    <2> QED
      BY <1>11, <2>1, <2>2
  <1>12. ASSUME NEW p \in Procs, Drop(p) \/ DropClose(p) \/ DropSet(p)
       PROVE  ClosingInv'
    BY <1>12, SMTT(30), SMTT(60), SMTT(90) DEF Procs, ClosingInv, ClosingDuty,
       TryPcs, FrameTypes, Drop, Go, Put, DropReturns, DropClose, DropSet, frame,
       closing
  <1>13. ASSUME NEW p \in Procs, Close(p) \/ ClosePending(p) \/ CloseDone(p)
       PROVE  ClosingInv'
    BY <1>13, WakesOnly, ZenonT(30) DEF Procs, ClosingInv, ClosingDuty, TryPcs,
       FrameTypes, Close, Go, ClosePending, CloseDone, Put, frame, closing
  <1>14. ASSUME NEW c \in Closers, NEW e \in Eps, CloseEndpoint(c, e)
       PROVE  ClosingInv'
    BY <1>14, StackLockAssumption, Zenon DEF StackLockAssumption, Procs, ClosingInv,
       ClosingDuty, TryPcs, FrameTypes, CloseEndpoint, Go, frame, closing
  <1>15. ASSUME NEW p \in Closers \cup Irqs, TryTrusted(p) \/ TryRead(p)
              \/ TryCas(p)
       PROVE  ClosingInv'
    <2>1. CASE TryTrusted(p)
      BY <2>1, StackLockAssumption, Zenon DEF StackLockAssumption, Procs,
         ClosingInv, ClosingDuty, TryPcs, FrameTypes, TryTrusted, Go, frame, closing
    <2>2. CASE TryRead(p)
      BY <2>2, StackLockAssumption, Zenon DEF StackLockAssumption, Procs,
         ClosingInv, ClosingDuty, TryPcs, FrameTypes, TryRead, Go, Put, frame,
         closing
    <2>3. CASE TryCas(p)
      BY <2>3, StackLockAssumption, ZenonT(30) DEF StackLockAssumption, Procs,
         ClosingInv, ClosingDuty, TryPcs, FrameTypes, TryCas, Go, Put, frame,
         closing
    <2> QED
      BY <1>15, <2>1, <2>2, <2>3
  <1>16. ASSUME NEW p \in Closers \cup Irqs, TryFailed(p) \/ SetShared(p)
              \/ SetTrusted(p)
       PROVE  ClosingInv'
    BY <1>16, StackLockAssumption, ZenonT(30) DEF StackLockAssumption, Procs,
       ClosingInv, ClosingDuty, TryPcs, FrameTypes, TryFailed, Go, SetShared,
       Wanted, SetTrusted, frame, closing
  <1>17. ASSUME NEW i \in Irqs, Arrive(i) \/ Interrupt(i) \/ IrqEntry(i)
              \/ IrqSetBit(i) \/ IrqTestBit(i)
       PROVE  ClosingInv'
    BY <1>17, Zenon DEF Procs, ClosingInv, ClosingDuty, TryPcs, FrameTypes, Arrive,
       Interrupt, Go, IrqEntry, IrqSetBit, IrqTestBit, frame, closing
  <1>18. ASSUME NEW i \in Irqs, IrqPoll(i)
       PROVE  ClosingInv'
    BY <1>18, IrqPollEffect, IrqPollDuty, Zenon DEF Procs, ClosingInv, ClosingDuty,
       TryPcs, FrameTypes, frame, closing
  <1>19. ASSUME NEW i \in Irqs, IrqPrime(i) \/ IrqPrimeTrusted(i) \/ IrqPrimeSelf(i)
       PROVE  ClosingInv'
    BY <1>19, Zenon DEF Procs, ClosingInv, ClosingDuty, TryPcs, FrameTypes,
       IrqPrime, Go, IrqPrimeTrusted, IrqPrimeSelf, frame, closing
  <1>20. ASSUME WorkStart \/ WorkUntrusted \/ WorkTrusted \/ WorkPoll \/ WorkPrime
       PROVE  ClosingInv'
    <2>1. CASE WorkStart
      BY <2>1, Zenon DEF Procs, ClosingInv, ClosingDuty, TryPcs, FrameTypes,
         WorkStart, Go, frame, closing
    <2>2. CASE WorkUntrusted
      BY <2>2, Zenon DEF Procs, ClosingInv, ClosingDuty, TryPcs, FrameTypes,
         WorkUntrusted, Go, frame, closing
    <2>3. CASE WorkTrusted
      BY <2>3, Zenon DEF Procs, ClosingInv, ClosingDuty, TryPcs, FrameTypes,
         WorkTrusted, Go, Put, frame, closing
    <2>4. CASE WorkPoll
      BY <2>4, WakesOnly, Zenon DEF Procs, ClosingInv, ClosingDuty, TryPcs,
         FrameTypes, WorkPoll, Go, frame, closing
    <2>5. CASE WorkPrime
      BY <2>5, Zenon DEF Procs, ClosingInv, ClosingDuty, TryPcs, FrameTypes,
         WorkPrime, Go, Put, frame, closing
    <2> QED
      BY <1>20, <2>1, <2>2, <2>3, <2>4, <2>5
  <1> QED
    BY <1>1, <1>2, <1>3, <1>4, <1>5, <1>6, <1>7, <1>8, <1>9, <1>10, <1>11, <1>12,
       <1>13, <1>14, <1>15, <1>16, <1>17, <1>18, <1>19, <1>20, NextSteps, Zenon

-----------------------------------------------------------------------------
(* The invariant and what follows from it                                  *)

\* An idle process has no lock.
LEMMA IdlePcs == "idle" \notin SharedPcs /\ "idle" \notin TrustedPcs
  BY DEF SharedPcs, TrustedPcs, UlPcs, UnlockPcs, BothPcs, DropPcs

\* When a stack is set up its locks are free and every process is idle.
LEMMA InitIInv == Init => IInv
  <1> SUFFICES ASSUME Init PROVE IInv
    OBVIOUS
  <1>1. \A p \in Procs : pc[p] = "idle" /\ uret[p] = "done" /\ dret[p] = "done"
    BY DEF Init
  <1>2. lock = {} /\ trusted = {} /\ flags = {} /\ aflags = {} /\ dl = {}
    BY DEF Init
  <1>3. \A p \in Procs : ~HoldsShared(p) /\ ~HoldsTrusted(p)
    BY <1>1, <1>2, IdlePcs DEF HoldsShared, HoldsTrusted
  <1>4. FrameTypes /\ FrameInv /\ CopyInv
    BY <1>1 DEF Init, FrameTypes, FrameInv, CopyInv
  <1>5. MutualExclusion /\ DeferInv /\ UnlockedMeansHandled
    BY <1>2, <1>3 DEF MutualExclusion, DeferInv, UnlockedMeansHandled
  <1>6. ContextInv
    BY <1>1, <1>2 DEF ContextInv, InterruptContext, Procs
  <1>7. Users \subseteq Procs /\ Closers \subseteq Procs /\ Irqs \subseteq Procs
    BY DEF Procs
  <1>8. QueueInv /\ NoLostWakeup /\ PktInv /\ ClosingInv
    BY <1>1, <1>7 DEF Init, QueueInv, NoLostWakeup, PktInv, ClosingInv
  <1>9. "idle" \notin UretPcs /\ "idle" \notin DropPcs
    BY DEF UretPcs, UnlockPcs, UnlockedPcs, DropPcs
  <1>10. ReturnInv /\ FailedInv /\ BitInv /\ PrimeInv
    BY <1>1, <1>7, <1>9 DEF Init, ReturnInv, FailedInv, BitInv, PrimeInv
  <1> QED
    BY <1>4, <1>5, <1>6, <1>8, <1>10, TypeInvInit DEF IInv

\* Every step of every process preserves the invariant.
LEMMA NextIInv == IInv /\ [Next]_vars => IInv'
  <1>1. ASSUME IInv, Next PROVE IInv'
    BY <1>1, TypeInvNext, FrameTypesNext, QueueInvNext, FrameInvNext, CopyInvNext,
       ReturnInvNext, FailedInvNext, MutualExclusionNext, DeferInvNext,
       ContextInvNext, UnlockedMeansHandledNext, NoLostWakeupNext, PktInvNext,
       ClosingInvNext, BitInvNext, PrimeInvNext DEF IInv
  <1>2. ASSUME IInv, UNCHANGED vars PROVE IInv'
    <2> USE <1>2 DEF IInv, vars, frame, sleep, nic, closing
    <2>1. FrameTypes' /\ FrameInv' /\ CopyInv'
      BY DEF FrameTypes, FrameInv, CopyInv
    <2>2. MutualExclusion' /\ DeferInv'
      BY DEF MutualExclusion, HoldsShared, HoldsTrusted, DeferInv, RunsShared,
             RunsTrusted
    <2>3. ContextInv'
      BY DEF ContextInv, InterruptContext, HoldsShared
    <2>4. QueueInv' /\ UnlockedMeansHandled' /\ NoLostWakeup'
      BY DEF QueueInv, UnlockedMeansHandled, NoLostWakeup
    <2>5. ReturnInv' /\ PktInv' /\ ClosingInv'
      BY DEF ReturnInv, RunsTrusted, PktInv, PktDuty, InCallback, ClosingInv, ClosingDuty
    <2>6. FailedInv' /\ BitInv' /\ PrimeInv'
      BY DEF FailedInv, Dropping, BitInv, PrimeInv, PrimeDuty, InCallback
    <2>7. TypeInv'
      BY TypeInvNext
    <2> QED
      BY <2>1, <2>2, <2>3, <2>4, <2>5, <2>6, <2>7
  <1> QED
    BY <1>1, <1>2

\* The invariant holds in every state of every behaviour.
THEOREM Invariant == Spec => []IInv
  BY InitIInv, NextIInv, PTL DEF Spec

\* Neither lock of a stack is ever held twice, and a word says LOCKED exactly
\* while its lock is held, however the compare-and-swaps of threads, closers,
\* handlers and the work item interleave.
THEOREM LocksExclude == Spec => []MutualExclusion
  <1>1. IInv => MutualExclusion
    BY DEF IInv
  <1> QED
    BY <1>1, Invariant, PTL

\* A thread that sleeps in oo_eplock_lock is never forgotten: FL_NEED_WAKE is
\* in the word of a locked lock, or its waker is already on the way.
THEOREM WakeupsAreNotLost == Spec => []NoLostWakeup
  <1>1. IInv => NoLostWakeup
    BY DEF IInv
  <1> QED
    BY <1>1, Invariant, PTL

\* A lock that is free has no flag left that its last holder was to handle.
THEOREM RequestsAreNotLeft == Spec => []UnlockedMeansHandled
  <1>1. IInv => UnlockedMeansHandled
    BY DEF IInv
  <1> QED
    BY <1>1, Invariant, PTL

\* An interrupt handler never runs the closing of endpoints, which may sleep,
\* and IN_DL_CONTEXT is seen only while a handler has the shared lock.
THEOREM HandlersDoNotSleep == Spec => []InterruptContext
  <1>1. IInv => InterruptContext
    BY DEF IInv, ContextInv
  <1> QED
    BY <1>1, Invariant, PTL

\* A thread asleep in efab_tcp_helper_pkt_wait is never forgotten, although its
\* flag is cleared, put back or turned into PKT_WAKE by every unlock.
THEOREM PktWaitersAreNotLost == Spec => []PktWaiterIsRemembered
  <1>1. IInv => PktWaiterIsRemembered
    BY DEF IInv, PktInv, PktDuty, PktWaiterIsRemembered
  <1> QED
    BY <1>1, Invariant, PTL

\* An endpoint on ep_tobe_closed always has a closer, the holder of a flag or
\* the work item that will close it, however the flag is passed between the
\* two locks.
THEOREM ClosingsAreNotLost == Spec => []ClosingIsOwed
  <1>1. IInv => ClosingIsOwed
    BY DEF IInv, ClosingInv, ClosingDuty, ClosingIsOwed
  <1> QED
    BY <1>1, Invariant, PTL

\* An event queue whose handler returned without priming it has the deferred
\* bit, and somebody is on the way to prime it.
THEOREM PrimesAreNotLost == Spec => []PrimeIsOwed
  <1>1. ASSUME IInv PROVE PrimeIsOwed
    <2> SUFFICES ASSUME NEW i \in Irqs \ primed, pc[i] = "idle"
                 PROVE  i \in deferred /\ PrimeDuty
      BY DEF PrimeIsOwed, PrimeDuty
    <2>1. dret[i] # "failed"
      BY <1>1 DEF IInv, FailedInv, Dropping, UretPcs, UnlockPcs, UnlockedPcs, DropPcs
    <2> QED
      BY <1>1, <2>1 DEF IInv, BitInv, PrimeInv
  <1> QED
    BY <1>1, Invariant, PTL

-----------------------------------------------------------------------------
(* Each lock implements Lock                                               *)

\* Sets of owners with at most one member each make a step of the abstract
\* shared lock, if a new owner found the lock free or is the work item, to
\* which a handler left it.
LEMMA SharedStep ==
    ASSUME MutualExclusion, MutualExclusion', PassedOn
    PROVE  [SharedLock!Next]_{p \in Procs : HoldsShared(p)}
  <1> DEFINE Old == {p \in Procs : HoldsShared(p)}
             New == {p \in Procs : HoldsShared(p)'}
  <1>1. CASE Old = {}
    <2>1. CASE New = {}
      BY <1>1, <2>1
    <2>2. CASE New # {}
      <3>1. PICK q \in Procs : q \in New
        BY <2>2
      <3>2. New = {q}
        BY <3>1 DEF MutualExclusion
      <3>3. SharedLock!Acquire(q)
        BY <1>1, <3>2 DEF SharedLock!Acquire
      <3> QED
        BY <3>3 DEF SharedLock!Next
    <2> QED
      BY <2>1, <2>2
  <1>2. CASE Old # {}
    <2>1. PICK o \in Procs : o \in Old
      BY <1>2
    <2>2. Old = {o}
      BY <2>1 DEF MutualExclusion
    <2>3. CASE New = {}
      <3>1. SharedLock!Release(o)
        BY <2>2, <2>3 DEF SharedLock!Release
      <3> QED
        BY <3>1 DEF SharedLock!Next
    <2>4. ASSUME NEW q \in New PROVE [SharedLock!Next]_{p \in Procs : HoldsShared(p)}
      <3>1. New = {q}
        BY <2>4 DEF MutualExclusion
      <3>2. CASE q \in Old
        BY <2>2, <3>1, <3>2
      <3>3. CASE q \notin Old
        <4>1. "LOCKED" \in lock
          BY <2>1 DEF MutualExclusion
        <4>2. q = Work /\ \E i \in Irqs : HoldsShared(i)
          BY <2>4, <3>3, <4>1 DEF PassedOn
        <4>3. o \in Irqs
          BY <2>2, <4>2 DEF Procs
        <4>4. SharedLock!HandOver(o)
          BY <2>2, <3>1, <4>2 DEF SharedLock!HandOver
        <4> QED
          BY <4>3, <4>4 DEF SharedLock!Next
      <3> QED
        BY <3>2, <3>3
    <2> QED
      BY <2>3, <2>4
  <1> QED
    BY <1>1, <1>2

\* The shared lock, with its flags, callbacks and handed over owners, is a lock:
\* every step of the stack leaves its owner, or takes the free lock, or gives
\* it up, or leaves it from a handler to the work item.
THEOREM SharedImplementsLock == Spec => SharedIsALock
  <1>1. Init => SharedLock!Init
    BY IdlePcs DEF Init, SharedLock!Init, HoldsShared
  <1>2. IInv /\ IInv' /\ [Next]_vars => [SharedLock!Next]_{p \in Procs : HoldsShared(p)}
    <2>1. ASSUME IInv, IInv', Next PROVE [SharedLock!Next]_{p \in Procs : HoldsShared(p)}
      BY <2>1, SharedStep, LocksArePassedOn DEF IInv
    <2>2. ASSUME UNCHANGED vars PROVE UNCHANGED {p \in Procs : HoldsShared(p)}
      BY <2>2 DEF vars, frame, HoldsShared
    <2> QED
      BY <2>1, <2>2
  <1> QED
    BY <1>1, <1>2, Invariant, PTL DEF Spec, SharedIsALock, SharedLock!Spec

\* Sets of owners with at most one member each make a step of the abstract
\* trusted lock, if a new owner found the lock free or is the work item, to
\* which a handler left it.
LEMMA TrustedStep ==
    ASSUME MutualExclusion, MutualExclusion', PassedOn
    PROVE  [TrustedLock!Next]_{p \in Procs : HoldsTrusted(p)}
  <1> DEFINE Old == {p \in Procs : HoldsTrusted(p)}
             New == {p \in Procs : HoldsTrusted(p)'}
  <1>1. CASE Old = {}
    <2>1. CASE New = {}
      BY <1>1, <2>1
    <2>2. CASE New # {}
      <3>1. PICK q \in Procs : q \in New
        BY <2>2
      <3>2. New = {q}
        BY <3>1 DEF MutualExclusion
      <3>3. TrustedLock!Acquire(q)
        BY <1>1, <3>2 DEF TrustedLock!Acquire
      <3> QED
        BY <3>3 DEF TrustedLock!Next
    <2> QED
      BY <2>1, <2>2
  <1>2. CASE Old # {}
    <2>1. PICK o \in Procs : o \in Old
      BY <1>2
    <2>2. Old = {o}
      BY <2>1 DEF MutualExclusion
    <2>3. CASE New = {}
      <3>1. TrustedLock!Release(o)
        BY <2>2, <2>3 DEF TrustedLock!Release
      <3> QED
        BY <3>1 DEF TrustedLock!Next
    <2>4. ASSUME NEW q \in New PROVE [TrustedLock!Next]_{p \in Procs : HoldsTrusted(p)}
      <3>1. New = {q}
        BY <2>4 DEF MutualExclusion
      <3>2. CASE q \in Old
        BY <2>2, <3>1, <3>2
      <3>3. CASE q \notin Old
        <4>1. "LOCKED" \in trusted
          BY <2>1 DEF MutualExclusion
        <4>2. q = Work /\ \E i \in Irqs : HoldsTrusted(i)
          BY <2>4, <3>3, <4>1 DEF PassedOn
        <4>3. o \in Irqs
          BY <2>2, <4>2 DEF Procs
        <4>4. TrustedLock!HandOver(o)
          BY <2>2, <3>1, <4>2 DEF TrustedLock!HandOver
        <4> QED
          BY <4>3, <4>4 DEF TrustedLock!Next
      <3> QED
        BY <3>2, <3>3
    <2> QED
      BY <2>3, <2>4
  <1> QED
    BY <1>1, <1>2

\* The trusted lock is a lock, too, although the shared lock's callbacks take
\* and drop it and hand it over together with the shared lock.
THEOREM TrustedImplementsLock == Spec => TrustedIsALock
  <1>1. Init => TrustedLock!Init
    BY IdlePcs DEF Init, TrustedLock!Init, HoldsTrusted
  <1>2. IInv /\ IInv' /\ [Next]_vars => [TrustedLock!Next]_{p \in Procs : HoldsTrusted(p)}
    <2>1. ASSUME IInv, IInv', Next PROVE [TrustedLock!Next]_{p \in Procs : HoldsTrusted(p)}
      BY <2>1, TrustedStep, LocksArePassedOn DEF IInv
    <2>2. ASSUME UNCHANGED vars PROVE UNCHANGED {p \in Procs : HoldsTrusted(p)}
      BY <2>2 DEF vars, frame, HoldsTrusted
    <2> QED
      BY <2>1, <2>2
  <1> QED
    BY <1>1, <1>2, Invariant, PTL DEF Spec, TrustedIsALock, TrustedLock!Spec

=============================================================================
