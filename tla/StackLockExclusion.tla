----------------------------- MODULE StackLockExclusion -----------------------------
(***************************************************************************)
(* No step of StackLock lets two processes have one of the locks, leaves a *)
(* lock to the work item twice, or lets a lock go with something undone.   *)
(***************************************************************************)
EXTENDS StackLockFrame

-----------------------------------------------------------------------------
(* Who has the locks                                                       *)

\* No step loses a lock that a failed closer or a handler still has to drop.
LEMMA ReturnInvNext ==
    ASSUME IInv, Next PROVE ReturnInv'
  <1> FrameTypes /\ FrameInv /\ ReturnInv /\ ContextInv
    BY DEF IInv
  <1>1. ASSUME NEW u \in Users, Lock(u) \/ Spin(u) \/ LockOrRequestWake(u)
       PROVE  ReturnInv'
    BY <1>1, LockingPcs, ZenonT(30) DEF Procs, ReturnInv, RunsTrusted, FrameTypes,
       Lock, Go, Spin, LockOrRequestWake, LeaveWaitQueue, frame
  <1>2. ASSUME NEW u \in Users, AddToWaitQueue(u) \/ SetState(u) \/ Scheduled(u)
              \/ Interrupted(u)
       PROVE  ReturnInv'
    BY <1>2, SleepingPcs, ZenonT(30) DEF Procs, ReturnInv, RunsTrusted, FrameTypes,
       AddToWaitQueue, Go, SetState, Scheduled, Interrupted, LeaveWaitQueue, frame
  <1>3. ASSUME NEW u \in Users, Poll(u) \/ UsePackets(u)
       PROVE  ReturnInv'
    BY <1>3, HoldingPcs, WakesOnly, Zenon DEF Procs, ReturnInv, RunsTrusted,
       FrameTypes, Poll, UsePackets, frame
  <1>4. ASSUME NEW u \in Users, PktWait(u) \/ PktCheck(u) \/ PktReadLock(u)
              \/ PktSetWaiter(u) \/ PktScheduled(u) \/ PktInterrupted(u)
       PROVE  ReturnInv'
    BY <1>4, PacketsPcs, StackLockAssumption, Zenon DEF StackLockAssumption, Procs,
       ReturnInv, RunsTrusted, FrameTypes, FrameInv, PktWait, Go, PktCheck,
       PktLeave, PktReadLock, Put, PktSetWaiter, PktScheduled, PktInterrupted, frame
  <1>5. ASSUME NEW u \in Users, Unlock(u) \/ UlClear(u) \/ UlCommon(u)
              \/ UlRestore(u)
       PROVE  ReturnInv'
    <2>1. CASE Unlock(u)
      BY <2>1, UnlockingPcs, Zenon DEF Procs, ReturnInv, RunsTrusted, FrameTypes,
         Unlock, Go, frame
    <2>2. CASE UlClear(u)
      BY <2>2, UnlockingPcs, Zenon DEF Procs, ReturnInv, RunsTrusted, FrameTypes,
         UlClear, ClearHandled, Go, Put, HandledFlags, frame
    <2>3. CASE UlCommon(u)
      BY <2>3, UnlockingPcs, UlCommonEffect, StackLockAssumption, ZenonT(30) DEF
         StackLockAssumption, Procs, ReturnInv, RunsTrusted, FrameTypes, FrameInv,
         ContextInv, frame
    <2>4. CASE UlRestore(u)
      BY <2>4, UnlockingPcs, StackLockAssumption, Zenon DEF StackLockAssumption,
         Procs, ReturnInv, RunsTrusted, FrameTypes, FrameInv, UlRestore, Go, Put,
         frame
    <2> QED
      BY <1>5, <2>1, <2>2, <2>3, <2>4
  <1>6. ASSUME NEW u \in Users, UlRead(u) \/ UlCas(u) \/ UlPrime(u)
       PROVE  ReturnInv'
    BY <1>6, SwappingPcs, ZenonT(30) DEF Procs, ReturnInv, RunsTrusted, FrameTypes,
       UlRead, Go, Put, UlCas, UlPrime, frame
  <1>7. ASSUME NEW p \in Procs, KUnlock(p) \/ KRead(p) \/ KCas(p) \/ KWake(p)
       PROVE  ReturnInv'
    <2>1. CASE KUnlock(p)
      BY <2>1, KernelPcs, ZenonT(30) DEF Procs, ReturnInv, RunsTrusted, FrameTypes,
         KUnlock, Go, UnlockReturns, Put, frame
    <2>2. CASE KRead(p)
      BY <2>2, KernelPcs, Zenon DEF Procs, ReturnInv, RunsTrusted, FrameTypes,
         KRead, Go, Put, frame
    <2>3. CASE KCas(p)
      BY <2>3, KernelPcs, SMTT(30), SMTT(60) DEF Procs, ReturnInv, RunsTrusted,
         FrameTypes, KCas, Go, UnlockReturns, Put, frame
    <2>4. CASE KWake(p)
      BY <2>4, KernelPcs, Zenon DEF Procs, ReturnInv, RunsTrusted, FrameTypes,
         KWake, UnlockReturns, Go, Put, frame
    <2> QED
      BY <1>7, <2>1, <2>2, <2>3, <2>4
  <1>8. ASSUME NEW p \in Procs, CbClear(p) \/ CbCommon(p) \/ CbRetry(p)
       PROVE  ReturnInv'
    BY <1>8, CallbackPcs, CbCommonEffect, SMTT(30), SMTT(60) DEF Procs, ReturnInv,
       RunsTrusted, FrameTypes, CbClear, ClearHandled, Go, Put, HandledFlags,
       CbRetry, frame
  <1>9. ASSUME NEW p \in Procs, CbClose(p)
       PROVE  ReturnInv'
    BY <1>9, CallbackClosePcs, Zenon DEF Procs, ReturnInv, RunsTrusted, FrameTypes,
       CbClose, Go, Put, frame
  <1>10. ASSUME NEW p \in Procs, CbRead(p) \/ CbCas(p) \/ CbAfter(p)
       PROVE  ReturnInv'
    <2>1. CASE CbRead(p)
      BY <2>1, TryUnlockPcs, Zenon DEF Procs, ReturnInv, RunsTrusted, FrameTypes,
         CbRead, Go, Put, frame
    <2>2. CASE CbCas(p)
      BY <2>2, TryUnlockPcs, Zenon DEF Procs, ReturnInv, RunsTrusted, FrameTypes,
         CbCas, Go, frame
    <2>3. CASE CbAfter(p)
      BY <2>3, TryUnlockPcs, ZenonT(30) DEF Procs, ReturnInv, RunsTrusted,
         FrameTypes, CbAfter, Go, UnlockReturns, Put, frame
    <2> QED
      BY <1>10, <2>1, <2>2, <2>3
  <1>11. ASSUME NEW p \in Procs, Defer(p) \/ Queue(p)
       PROVE  ReturnInv'
    BY <1>11, DeferringPcs, StackLockAssumption, SMTT(30), SMTT(60) DEF
       StackLockAssumption, Procs, ReturnInv, RunsTrusted, FrameTypes, FrameInv,
       ContextInv, Defer, Go, Queue, UnlockReturns, DropReturns, Put, frame
  <1>12. ASSUME NEW p \in Procs, Drop(p) \/ DropClose(p) \/ DropSet(p)
       PROVE  ReturnInv'
    <2>1. CASE Drop(p)
      BY <2>1, DroppingPcs, StackLockAssumption, SMTT(30), SMTT(60) DEF
         StackLockAssumption, Procs, ReturnInv, RunsTrusted, FrameTypes, FrameInv,
         ContextInv, Drop, Go, Put, DropReturns, frame
    <2>2. CASE DropClose(p)
      BY <2>2, DroppingPcs, Zenon DEF Procs, ReturnInv, RunsTrusted, FrameTypes,
         DropClose, Go, frame
    <2>3. CASE DropSet(p)
      BY <2>3, DroppingPcs, Zenon DEF Procs, ReturnInv, RunsTrusted, FrameTypes,
         DropSet, Go, Put, frame
    <2> QED
      BY <1>12, <2>1, <2>2, <2>3
  <1>13. ASSUME NEW p \in Procs, Close(p) \/ ClosePending(p) \/ CloseDone(p)
       PROVE  ReturnInv'
    <2>1. CASE Close(p)
      BY <2>1, ClosingPcs, WakesOnly, Zenon DEF Procs, ReturnInv, RunsTrusted,
         FrameTypes, Close, Go, frame
    <2>2. CASE ClosePending(p)
      BY <2>2, ClosingPcs, Zenon DEF Procs, ReturnInv, RunsTrusted, FrameTypes,
         ClosePending, frame
    <2>3. CASE CloseDone(p)
      BY <2>3, ClosingPcs, Zenon DEF Procs, ReturnInv, RunsTrusted, FrameTypes,
         CloseDone, Go, Put, frame
    <2> QED
      BY <1>13, <2>1, <2>2, <2>3
  <1>14. ASSUME NEW c \in Closers, NEW e \in Eps, CloseEndpoint(c, e)
       PROVE  ReturnInv'
    BY <1>14, EndpointPcs, StackLockAssumption, Zenon DEF StackLockAssumption,
       Procs, ReturnInv, RunsTrusted, FrameTypes, CloseEndpoint, Go, frame
  <1>15. ASSUME NEW p \in Closers \cup Irqs, TryTrusted(p) \/ TryRead(p)
              \/ TryCas(p)
       PROVE  ReturnInv'
    <2>1. CASE TryTrusted(p)
      BY <2>1, TryingPcs, StackLockAssumption, Zenon DEF StackLockAssumption, Procs,
         ReturnInv, RunsTrusted, FrameTypes, TryTrusted, Go, frame
    <2>2. CASE TryRead(p)
      BY <2>2, TryingPcs, StackLockAssumption, Zenon DEF StackLockAssumption, Procs,
         ReturnInv, RunsTrusted, FrameTypes, TryRead, Go, Put, frame
    <2>3. CASE TryCas(p)
      BY <2>3, TryingPcs, StackLockAssumption, Zenon DEF StackLockAssumption, Procs,
         ReturnInv, RunsTrusted, FrameTypes, TryCas, Go, Put, frame
    <2> QED
      BY <1>15, <2>1, <2>2, <2>3
  <1>16. ASSUME NEW p \in Closers \cup Irqs, TryFailed(p) \/ SetShared(p)
              \/ SetTrusted(p)
       PROVE  ReturnInv'
    BY <1>16, AskingPcs, StackLockAssumption, ZenonT(30) DEF StackLockAssumption,
       Procs, ReturnInv, RunsTrusted, FrameTypes, FrameInv, TryFailed, Go,
       SetShared, Wanted, SetTrusted, frame
  <1>17. ASSUME NEW i \in Irqs, Arrive(i) \/ Interrupt(i) \/ IrqEntry(i)
              \/ IrqSetBit(i) \/ IrqTestBit(i)
       PROVE  ReturnInv'
    BY <1>17, InterruptsPcs, Held, StackLockAssumption, ZenonT(30) DEF
       StackLockAssumption, Procs, ReturnInv, RunsTrusted, FrameTypes, Arrive,
       Interrupt, Go, IrqEntry, IrqSetBit, IrqTestBit, frame
  <1>18. ASSUME NEW i \in Irqs, IrqPoll(i)
       PROVE  ReturnInv'
    BY <1>18, IrqPollingPcs, IrqPollEffect, Zenon DEF Procs, ReturnInv, RunsTrusted,
       FrameTypes, frame
  <1>19. ASSUME NEW i \in Irqs, IrqPrime(i) \/ IrqPrimeTrusted(i) \/ IrqPrimeSelf(i)
       PROVE  ReturnInv'
    BY <1>19, PrimingPcs, Zenon DEF Procs, ReturnInv, RunsTrusted, FrameTypes,
       IrqPrime, Go, IrqPrimeTrusted, IrqPrimeSelf, frame
  <1>20. ASSUME WorkStart \/ WorkUntrusted \/ WorkTrusted \/ WorkPoll \/ WorkPrime
       PROVE  ReturnInv'
    <2>1. CASE WorkStart
      BY <2>1, WorkingPcs, Zenon DEF Procs, ReturnInv, RunsTrusted, FrameTypes,
         WorkStart, Go, frame
    <2>2. CASE WorkUntrusted
      BY <2>2, WorkingPcs, Zenon DEF Procs, ReturnInv, RunsTrusted, FrameTypes,
         WorkUntrusted, Go, frame
    <2>3. CASE WorkTrusted
      BY <2>3, WorkingPcs, StackLockAssumption, Zenon DEF StackLockAssumption,
         Procs, ReturnInv, RunsTrusted, FrameTypes, FrameInv, WorkTrusted, Go, Put,
         frame
    <2>4. CASE WorkPoll
      BY <2>4, WorkingPcs, WakesOnly, Zenon DEF Procs, ReturnInv, RunsTrusted,
         FrameTypes, WorkPoll, Go, frame
    <2>5. CASE WorkPrime
      BY <2>5, WorkingPcs, Zenon DEF Procs, ReturnInv, RunsTrusted, FrameTypes,
         WorkPrime, Go, Put, frame
    <2> QED
      BY <1>20, <2>1, <2>2, <2>3, <2>4, <2>5
  <1> QED
    BY <1>1, <1>2, <1>3, <1>4, <1>5, <1>6, <1>7, <1>8, <1>9, <1>10, <1>11, <1>12,
       <1>13, <1>14, <1>15, <1>16, <1>17, <1>18, <1>19, <1>20, NextSteps, Zenon

\* A step after which the same processes have the locks lets nobody in.
LEMMA SameHolders ==
    ASSUME MutualExclusion,
           \A q \in Procs : HoldsShared(q)' <=> HoldsShared(q),
           \A q \in Procs : HoldsTrusted(q)' <=> HoldsTrusted(q),
           "LOCKED" \in lock' <=> "LOCKED" \in lock,
           "LOCKED" \in trusted' <=> "LOCKED" \in trusted
    PROVE  MutualExclusion'
  BY Zenon DEF MutualExclusion

\* Every step leaves each lock with one owner, and its word LOCKED exactly
\* while it has one.
LEMMA MutualExclusionNext ==
    ASSUME IInv, Next PROVE MutualExclusion'
  <1> FrameTypes /\ FrameInv /\ CopyInv /\ MutualExclusion /\ DeferInv
    BY DEF IInv
  <1>1. ASSUME NEW u \in Users, Lock(u) \/ Spin(u) \/ LockOrRequestWake(u)
       PROVE  MutualExclusion'
    <2>1. CASE Lock(u)
      BY <2>1, LockingPcs, SMTT(30), SMTT(60) DEF FrameTypes, Procs, RunsShared,
         MutualExclusion, HoldsShared, HoldsTrusted, Lock, Go, frame
    <2>2. CASE Spin(u)
      BY <2>2, LockingPcs, StackLockAssumption, ZenonT(30) DEF StackLockAssumption,
         FrameTypes, Procs, FrameInv, CopyInv, DeferInv, RunsShared, RunsTrusted,
         MutualExclusion, HoldsShared, HoldsTrusted, DeferredTrusted, UnlockFlags,
         Go, Spin, frame
    <2>3. CASE LockOrRequestWake(u)
      BY <2>3, LockingPcs, SMTT(30), SMTT(60) DEF FrameTypes, Procs, RunsShared,
         MutualExclusion, HoldsShared, HoldsTrusted, Go, LockOrRequestWake,
         LeaveWaitQueue, frame
    <2> QED
      BY <1>1, <2>1, <2>2, <2>3
  <1>2. ASSUME NEW u \in Users, AddToWaitQueue(u) \/ SetState(u) \/ Scheduled(u)
              \/ Interrupted(u)
       PROVE  MutualExclusion'
    <2>1. CASE AddToWaitQueue(u)
      BY <2>1, SleepingPcs, Zenon DEF FrameTypes, MutualExclusion, HoldsShared,
         HoldsTrusted, AddToWaitQueue, Go, frame
    <2>2. CASE SetState(u)
      BY <2>2, SleepingPcs, Zenon DEF FrameTypes, MutualExclusion, HoldsShared,
         HoldsTrusted, Go, SetState, frame
    <2>3. CASE Scheduled(u)
      BY <2>3, SleepingPcs, Zenon DEF FrameTypes, MutualExclusion, HoldsShared,
         HoldsTrusted, Go, Scheduled, frame
    <2>4. CASE Interrupted(u)
      BY <2>4, SleepingPcs, ZenonT(30) DEF FrameTypes, MutualExclusion, HoldsShared,
         HoldsTrusted, Go, Interrupted, LeaveWaitQueue, frame
    <2> QED
      BY <1>2, <2>1, <2>2, <2>3, <2>4
  <1>3. ASSUME NEW u \in Users, Poll(u) \/ UsePackets(u)
       PROVE  MutualExclusion'
    BY <1>3, WakesOnly, ZenonT(30) DEF MutualExclusion, HoldsShared, HoldsTrusted,
       Poll, UsePackets, frame
  <1>4. ASSUME NEW u \in Users, PktWait(u) \/ PktCheck(u) \/ PktReadLock(u)
              \/ PktSetWaiter(u) \/ PktScheduled(u) \/ PktInterrupted(u)
       PROVE  MutualExclusion'
    <2>1. CASE PktWait(u)
      BY <2>1, PacketsPcs, Zenon DEF FrameTypes, MutualExclusion, HoldsShared,
         HoldsTrusted, DeferredTrusted, UnlockFlags, PktWait, Go, frame
    <2>2. CASE PktCheck(u)
      BY <2>2, PacketsPcs, ZenonT(30) DEF FrameTypes, MutualExclusion, HoldsShared,
         HoldsTrusted, DeferredTrusted, UnlockFlags, Go, PktCheck, PktLeave, frame
    <2>3. CASE PktReadLock(u)
      BY <2>3, PacketsPcs, ZenonT(30) DEF FrameTypes, MutualExclusion, HoldsShared,
         HoldsTrusted, DeferredTrusted, UnlockFlags, Go, PktReadLock, Put, frame
    <2>4. CASE PktSetWaiter(u)
      BY <2>4, PacketsPcs, SMTT(30), SMTT(60) DEF FrameTypes, MutualExclusion,
         HoldsShared, HoldsTrusted, DeferredTrusted, UnlockFlags, Go, Put,
         PktSetWaiter, frame
    <2>5. CASE PktScheduled(u)
      BY <2>5, PacketsPcs, Zenon DEF FrameTypes, MutualExclusion, HoldsShared,
         HoldsTrusted, DeferredTrusted, UnlockFlags, Go, PktScheduled, frame
    <2>6. CASE PktInterrupted(u)
      BY <2>6, PacketsPcs, Zenon DEF FrameTypes, MutualExclusion, HoldsShared,
         HoldsTrusted, DeferredTrusted, UnlockFlags, Go, PktLeave, PktInterrupted,
         frame
    <2> QED
      BY <1>4, <2>1, <2>2, <2>3, <2>4, <2>5, <2>6
  <1>5. ASSUME NEW u \in Users, Unlock(u) \/ UlClear(u) \/ UlCommon(u)
              \/ UlRestore(u)
       PROVE  MutualExclusion'
    <2>1. CASE Unlock(u)
      BY <2>1, UnlockingPcs, SMTT(30), SMTT(60) DEF FrameTypes, Procs, FrameInv,
         DeferInv, RunsShared, MutualExclusion, HoldsShared, HoldsTrusted,
         DeferredTrusted, UnlockFlags, Unlock, Go, frame
    <2>2. CASE UlClear(u)
      BY <2>2, UnlockingPcs, SMTT(30), SMTT(60) DEF FrameTypes, Procs, FrameInv,
         DeferInv, RunsShared, MutualExclusion, HoldsShared, HoldsTrusted,
         DeferredTrusted, UnlockFlags, Go, UlClear, ClearHandled, Put, HandledFlags,
         frame
    <2>3. CASE UlCommon(u)
      BY <2>3, UnlockingPcs, UlCommonEffect, SMTT(30), SMTT(60) DEF FrameTypes,
         Procs, FrameInv, DeferInv, RunsShared, MutualExclusion, HoldsShared,
         HoldsTrusted, DeferredTrusted, UnlockFlags, frame
    <2>4. CASE UlRestore(u)
      BY <2>4, UnlockingPcs, SMTT(30), SMTT(60) DEF FrameTypes, Procs, FrameInv,
         DeferInv, RunsShared, MutualExclusion, HoldsShared, HoldsTrusted,
         DeferredTrusted, UnlockFlags, Go, Put, UlRestore, frame
    <2> QED
      BY <1>5, <2>1, <2>2, <2>3, <2>4
  <1>6. ASSUME NEW u \in Users, UlRead(u) \/ UlCas(u) \/ UlPrime(u)
       PROVE  MutualExclusion'
    <2>1. CASE UlRead(u)
      BY <2>1, SwappingPcs, SMTT(30), SMTT(60) DEF FrameTypes, Procs, FrameInv,
         DeferInv, RunsShared, MutualExclusion, HoldsShared, HoldsTrusted, UlRead,
         Go, Put
    <2>2. CASE UlCas(u)
      BY <2>2, SwappingPcs, SMTT(30), SMTT(60) DEF FrameTypes, Procs, FrameInv,
         DeferInv, RunsShared, MutualExclusion, HoldsShared, HoldsTrusted, Go, Put,
         UlCas
    <2>3. CASE UlPrime(u)
      BY <2>3, SwappingPcs, SMTT(30), SMTT(60) DEF FrameTypes, Procs, FrameInv,
         DeferInv, RunsShared, MutualExclusion, HoldsShared, HoldsTrusted, Go, Put,
         UlPrime
    <2> QED
      BY <1>6, <2>1, <2>2, <2>3
  <1>7. ASSUME NEW p \in Procs, KUnlock(p) \/ KRead(p) \/ KCas(p) \/ KWake(p)
       PROVE  MutualExclusion'
    <2>1. CASE KUnlock(p)
      BY <2>1, KernelPcs, SMTT(30), SMTT(60) DEF FrameTypes, FrameInv, DeferInv,
         RunsShared, MutualExclusion, HoldsShared, HoldsTrusted, KUnlock, Go,
         UnlockReturns, Put, frame
    <2>2. CASE KRead(p)
      BY <2>2, KernelPcs, SMTT(30), SMTT(60) DEF FrameTypes, FrameInv, DeferInv,
         RunsShared, MutualExclusion, HoldsShared, HoldsTrusted, Go, Put, KRead,
         frame
    <2>3. CASE KCas(p)
      BY <2>3, KernelPcs, SMTT(30), SMTT(60) DEF FrameTypes, FrameInv, DeferInv,
         RunsShared, MutualExclusion, HoldsShared, HoldsTrusted, Go, UnlockReturns,
         Put, KCas, frame
    <2>4. CASE KWake(p)
      BY <2>4, KernelPcs, SMTT(30), SMTT(60) DEF FrameTypes, FrameInv, DeferInv,
         RunsShared, MutualExclusion, HoldsShared, HoldsTrusted, Go, UnlockReturns,
         Put, KWake, frame
    <2> QED
      BY <1>7, <2>1, <2>2, <2>3, <2>4
  <1>8. ASSUME NEW p \in Procs, CbClear(p) \/ CbCommon(p) \/ CbRetry(p)
       PROVE  MutualExclusion'
    BY <1>8, CallbackPcs, CbCommonEffect, SMTT(30), SMTT(60) DEF FrameTypes,
       FrameInv, MutualExclusion, HoldsShared, HoldsTrusted, DeferredTrusted,
       CbClear, ClearHandled, Go, Put, HandledFlags, CbRetry
  <1>9. ASSUME NEW p \in Procs, CbClose(p)
       PROVE  MutualExclusion'
    BY <1>9, CallbackClosePcs, SMTT(30), SMTT(60) DEF FrameTypes, FrameInv, CopyInv,
       RunsShared, MutualExclusion, HoldsShared, HoldsTrusted, CbClose, Go, Put
  <1>10. ASSUME NEW p \in Procs, CbRead(p) \/ CbCas(p) \/ CbAfter(p)
       PROVE  MutualExclusion'
    BY <1>10, TryUnlockPcs, SMTT(30), SMTT(60) DEF FrameTypes, FrameInv, CopyInv,
       DeferInv, RunsShared, MutualExclusion, HoldsShared, HoldsTrusted, CbRead, Go,
       Put, CbCas, CbAfter, UnlockReturns, frame
  <1>11. ASSUME NEW p \in Procs, Defer(p) \/ Queue(p)
       PROVE  MutualExclusion'
    BY <1>11, DeferringPcs, SMTT(30), SMTT(60) DEF FrameTypes, Procs, FrameInv,
       MutualExclusion, HoldsShared, HoldsTrusted, DeferredTrusted, Defer, Go,
       Queue, UnlockReturns, DropReturns, Put, frame
  <1>12. ASSUME NEW p \in Procs, Drop(p) \/ DropClose(p) \/ DropSet(p)
       PROVE  MutualExclusion'
    BY <1>12, DroppingPcs, SMTT(30), SMTT(60) DEF FrameTypes, FrameInv, DeferInv,
       RunsTrusted, MutualExclusion, HoldsShared, HoldsTrusted, Drop, Go, Put,
       DropReturns, DropClose, DropSet, frame
  <1>13. ASSUME NEW p \in Procs, Close(p) \/ ClosePending(p) \/ CloseDone(p)
       PROVE  MutualExclusion'
    <2>1. CASE Close(p)
      BY <2>1, ClosingPcs, ZenonT(30) DEF FrameTypes, MutualExclusion, HoldsShared,
         HoldsTrusted, UnlockFlags, Close, Go, frame
    <2>2. CASE ClosePending(p)
      BY <2>2, ClosingPcs, Zenon DEF FrameTypes, MutualExclusion, HoldsShared,
         HoldsTrusted, UnlockFlags, ClosePending, frame
    <2>3. CASE CloseDone(p)
      BY <2>3, ClosingPcs, SMTT(30), SMTT(60) DEF FrameTypes, MutualExclusion,
         HoldsShared, HoldsTrusted, UnlockFlags, Go, CloseDone, Put, frame
    <2> QED
      BY <1>13, <2>1, <2>2, <2>3
  <1>14. ASSUME NEW c \in Closers, NEW e \in Eps, CloseEndpoint(c, e)
       PROVE  MutualExclusion'
    BY <1>14, EndpointPcs, SMTT(30), SMTT(60) DEF MutualExclusion, HoldsShared,
       HoldsTrusted, CloseEndpoint, Go, frame
  <1>15. ASSUME NEW p \in Closers \cup Irqs, TryTrusted(p) \/ TryRead(p)
              \/ TryCas(p)
       PROVE  MutualExclusion'
    <2>1. CASE TryTrusted(p)
      BY <2>1, TryingPcs, SMTT(30), SMTT(60) DEF FrameTypes, Procs, FrameInv,
         CopyInv, MutualExclusion, HoldsShared, HoldsTrusted, TryTrusted, Go, frame
    <2>2. CASE TryRead(p)
      BY <2>2, TryingPcs, SMTT(30), SMTT(60) DEF FrameTypes, Procs, FrameInv,
         CopyInv, MutualExclusion, HoldsShared, HoldsTrusted, Go, TryRead, Put,
         frame
    <2>3. CASE TryCas(p)
      BY <2>3, TryingPcs, SMTT(30), SMTT(60) DEF FrameTypes, Procs, FrameInv,
         CopyInv, MutualExclusion, HoldsShared, HoldsTrusted, Go, Put, TryCas, frame
    <2> QED
      BY <1>15, <2>1, <2>2, <2>3
  <1>16. ASSUME NEW p \in Closers \cup Irqs, TryFailed(p) \/ SetShared(p)
              \/ SetTrusted(p)
       PROVE  MutualExclusion'
    <2>1. /\ \A q \in Procs : HoldsShared(q)' <=> HoldsShared(q)
          /\ \A q \in Procs : HoldsTrusted(q)' <=> HoldsTrusted(q)
      BY <1>16, AskingPcs, Zenon DEF FrameTypes, HoldsShared, HoldsTrusted,
         TryFailed, Go, SetShared, Wanted, SetTrusted, frame
    <2>2. ("LOCKED" \in lock' <=> "LOCKED" \in lock) /\ ("LOCKED" \in trusted' <=> "LOCKED" \in trusted)
      BY <1>16, SMTT(30), SMTT(60) DEF TryFailed, SetShared, Wanted, SetTrusted
    <2> QED
      BY <2>1, <2>2, SameHolders, Zenon
  <1>17. ASSUME NEW i \in Irqs, Arrive(i) \/ Interrupt(i) \/ IrqEntry(i)
              \/ IrqSetBit(i) \/ IrqTestBit(i)
       PROVE  MutualExclusion'
    <2>1. /\ \A q \in Procs : HoldsShared(q)' <=> HoldsShared(q)
          /\ \A q \in Procs : HoldsTrusted(q)' <=> HoldsTrusted(q)
      BY <1>17, InterruptsPcs, Zenon DEF FrameTypes, HoldsShared, HoldsTrusted,
         Arrive, Interrupt, Go, IrqEntry, IrqSetBit, IrqTestBit, frame
    <2>2. ("LOCKED" \in lock' <=> "LOCKED" \in lock) /\ ("LOCKED" \in trusted' <=> "LOCKED" \in trusted)
      BY <1>17, SMTT(30), SMTT(60) DEF Arrive, Interrupt, IrqEntry, IrqSetBit,
         IrqTestBit
    <2> QED
      BY <2>1, <2>2, SameHolders, Zenon
  <1>18. ASSUME NEW i \in Irqs, IrqPoll(i)
       PROVE  MutualExclusion'
    BY <1>18, IrqPollingPcs, IrqPollEffect, SMTT(30), SMTT(60) DEF FrameTypes,
       MutualExclusion, HoldsShared, HoldsTrusted
  <1>19. ASSUME NEW i \in Irqs, IrqPrime(i) \/ IrqPrimeTrusted(i) \/ IrqPrimeSelf(i)
       PROVE  MutualExclusion'
    <2>1. /\ \A q \in Procs : HoldsShared(q)' <=> HoldsShared(q)
          /\ \A q \in Procs : HoldsTrusted(q)' <=> HoldsTrusted(q)
      BY <1>19, PrimingPcs, Zenon DEF FrameTypes, HoldsShared, HoldsTrusted,
         IrqPrime, Go, IrqPrimeTrusted, IrqPrimeSelf, frame
    <2>2. ("LOCKED" \in lock' <=> "LOCKED" \in lock) /\ ("LOCKED" \in trusted' <=> "LOCKED" \in trusted)
      BY <1>19, SMTT(30), SMTT(60) DEF IrqPrime, IrqPrimeTrusted, IrqPrimeSelf
    <2> QED
      BY <2>1, <2>2, SameHolders, Zenon
  <1>20. ASSUME WorkStart \/ WorkUntrusted \/ WorkTrusted \/ WorkPoll \/ WorkPrime
       PROVE  MutualExclusion'
    BY <1>20, WorkingPcs, WakesOnly, SMTT(30), SMTT(60) DEF FrameTypes, DeferInv,
       RunsShared, MutualExclusion, HoldsShared, HoldsTrusted, DeferredTrusted,
       WorkStart, Go, WorkUntrusted, WorkTrusted, Put, WorkPoll, WorkPrime, frame
  <1> QED
    BY <1>1, <1>2, <1>3, <1>4, <1>5, <1>6, <1>7, <1>8, <1>9, <1>10, <1>11, <1>12,
       <1>13, <1>14, <1>15, <1>16, <1>17, <1>18, <1>19, <1>20, NextSteps, Zenon

\* A lock is left to the work item only by its owner, so that the work item
\* has not got it.
LEMMA DeferInvNext ==
    ASSUME IInv, Next PROVE DeferInv'
  <1> FrameTypes /\ FrameInv /\ MutualExclusion /\ DeferInv
    BY DEF IInv
  <1>1. ASSUME NEW u \in Users, Lock(u) \/ Spin(u) \/ LockOrRequestWake(u)
       PROVE  DeferInv'
    BY <1>1, LockingPcs, SMTT(30), SMTT(60), SMTT(90) DEF FrameTypes, Procs,
       DeferInv, RunsShared, RunsTrusted, MutualExclusion, HoldsShared, Lock, Go,
       Spin, LockOrRequestWake, LeaveWaitQueue, frame
  <1>2. ASSUME NEW u \in Users, AddToWaitQueue(u) \/ SetState(u) \/ Scheduled(u)
              \/ Interrupted(u)
       PROVE  DeferInv'
    BY <1>2, SleepingPcs, Zenon DEF FrameTypes, Procs, DeferInv, RunsShared,
       RunsTrusted, AddToWaitQueue, Go, SetState, Scheduled, Interrupted,
       LeaveWaitQueue, frame
  <1>3. ASSUME NEW u \in Users, Poll(u) \/ UsePackets(u)
       PROVE  DeferInv'
    BY <1>3, Zenon DEF DeferInv, RunsShared, RunsTrusted, Poll, UsePackets, frame
  <1>4. ASSUME NEW u \in Users, PktWait(u) \/ PktCheck(u) \/ PktReadLock(u)
              \/ PktSetWaiter(u) \/ PktScheduled(u) \/ PktInterrupted(u)
       PROVE  DeferInv'
    <2>1. CASE PktWait(u)
      BY <2>1, PacketsPcs, Zenon DEF FrameTypes, Procs, DeferInv, RunsShared,
         RunsTrusted, MutualExclusion, HoldsShared, HoldsTrusted, DeferredTrusted,
         PktWait, Go, frame
    <2>2. CASE PktCheck(u)
      BY <2>2, PacketsPcs, StackLockAssumption, ZenonT(30) DEF StackLockAssumption,
         FrameTypes, Procs, FrameInv, DeferInv, RunsShared, RunsTrusted,
         MutualExclusion, HoldsShared, HoldsTrusted, DeferredTrusted, Go, PktCheck,
         PktLeave, frame
    <2>3. CASE PktReadLock(u)
      BY <2>3, PacketsPcs, SMTT(30), SMTT(60), SMTT(90) DEF FrameTypes, Procs,
         DeferInv, RunsShared, RunsTrusted, MutualExclusion, HoldsShared,
         HoldsTrusted, DeferredTrusted, Go, PktReadLock, Put, frame
    <2>4. CASE PktSetWaiter(u)
      BY <2>4, PacketsPcs, SMTT(30), SMTT(60), SMTT(90) DEF FrameTypes, Procs,
         DeferInv, RunsShared, RunsTrusted, MutualExclusion, HoldsShared,
         HoldsTrusted, DeferredTrusted, Go, Put, PktSetWaiter, frame
    <2>5. CASE PktScheduled(u)
      BY <2>5, PacketsPcs, Zenon DEF FrameTypes, Procs, DeferInv, RunsShared,
         RunsTrusted, MutualExclusion, HoldsShared, HoldsTrusted, DeferredTrusted,
         Go, PktScheduled, frame
    <2>6. CASE PktInterrupted(u)
      BY <2>6, PacketsPcs, Zenon DEF FrameTypes, Procs, DeferInv, RunsShared,
         RunsTrusted, MutualExclusion, HoldsShared, HoldsTrusted, DeferredTrusted,
         Go, PktLeave, PktInterrupted, frame
    <2> QED
      BY <1>4, <2>1, <2>2, <2>3, <2>4, <2>5, <2>6
  <1>5. ASSUME NEW u \in Users, Unlock(u) \/ UlClear(u) \/ UlCommon(u)
              \/ UlRestore(u)
       PROVE  DeferInv'
    <2>1. CASE Unlock(u)
      BY <2>1, UnlockingPcs, SMTT(30), SMTT(60), SMTT(90) DEF FrameTypes, Procs,
         FrameInv, DeferInv, RunsShared, RunsTrusted, MutualExclusion, HoldsShared,
         HoldsTrusted, DeferredTrusted, Unlock, Go, frame
    <2>2. CASE UlClear(u)
      BY <2>2, UnlockingPcs, Zenon DEF FrameTypes, Procs, FrameInv, DeferInv,
         RunsShared, RunsTrusted, MutualExclusion, HoldsShared, HoldsTrusted,
         DeferredTrusted, Go, UlClear, ClearHandled, Put, HandledFlags, frame
    <2>3. CASE UlCommon(u)
      BY <2>3, UnlockingPcs, UlCommonEffect, SMTT(30), SMTT(60), SMTT(90) DEF
         FrameTypes, Procs, FrameInv, DeferInv, RunsShared, RunsTrusted,
         MutualExclusion, HoldsShared, HoldsTrusted, DeferredTrusted, frame
    <2>4. CASE UlRestore(u)
      BY <2>4, UnlockingPcs, Zenon DEF FrameTypes, Procs, FrameInv, DeferInv,
         RunsShared, RunsTrusted, MutualExclusion, HoldsShared, HoldsTrusted,
         DeferredTrusted, Go, Put, UlRestore, frame
    <2> QED
      BY <1>5, <2>1, <2>2, <2>3, <2>4
  <1>6. ASSUME NEW u \in Users, UlRead(u) \/ UlCas(u) \/ UlPrime(u)
       PROVE  DeferInv'
    <2>1. CASE UlRead(u)
      BY <2>1, SwappingPcs, SMTT(30), SMTT(60), SMTT(90) DEF FrameTypes, Procs,
         FrameInv, DeferInv, RunsShared, RunsTrusted, MutualExclusion, HoldsShared,
         HoldsTrusted, DeferredTrusted, UlRead, Go, Put, frame
    <2>2. CASE UlCas(u)
      BY <2>2, SwappingPcs, SMTT(30), SMTT(60), SMTT(90) DEF FrameTypes, Procs,
         FrameInv, DeferInv, RunsShared, RunsTrusted, MutualExclusion, HoldsShared,
         HoldsTrusted, DeferredTrusted, Go, Put, UlCas, frame
    <2>3. CASE UlPrime(u)
      BY <2>3, SwappingPcs, Zenon DEF FrameTypes, Procs, FrameInv, DeferInv,
         RunsShared, RunsTrusted, MutualExclusion, HoldsShared, HoldsTrusted,
         DeferredTrusted, Go, Put, UlPrime, frame
    <2> QED
      BY <1>6, <2>1, <2>2, <2>3
  <1>7. ASSUME NEW p \in Procs, KUnlock(p) \/ KRead(p) \/ KCas(p) \/ KWake(p)
       PROVE  DeferInv'
    <2>1. CASE KUnlock(p)
      BY <2>1, KernelPcs, SMTT(30), SMTT(60), SMTT(90) DEF FrameTypes, Procs,
         FrameInv, DeferInv, RunsShared, RunsTrusted, MutualExclusion, HoldsShared,
         HoldsTrusted, DeferredTrusted, KUnlock, Go, UnlockReturns, Put, frame
    <2>2. CASE KRead(p)
      BY <2>2, KernelPcs, ZenonT(30) DEF FrameTypes, Procs, FrameInv, DeferInv,
         RunsShared, RunsTrusted, MutualExclusion, HoldsShared, HoldsTrusted,
         DeferredTrusted, Go, Put, KRead, frame
    <2>3. CASE KCas(p)
      BY <2>3, KernelPcs, SMTT(30), SMTT(60), SMTT(90) DEF FrameTypes, Procs,
         FrameInv, DeferInv, RunsShared, RunsTrusted, MutualExclusion, HoldsShared,
         HoldsTrusted, DeferredTrusted, Go, UnlockReturns, Put, KCas, frame
    <2>4. CASE KWake(p)
      BY <2>4, KernelPcs, Zenon DEF FrameTypes, Procs, FrameInv, DeferInv,
         RunsShared, RunsTrusted, MutualExclusion, HoldsShared, HoldsTrusted,
         DeferredTrusted, Go, UnlockReturns, Put, KWake, frame
    <2> QED
      BY <1>7, <2>1, <2>2, <2>3, <2>4
  <1>8. ASSUME NEW p \in Procs, CbClear(p) \/ CbCommon(p) \/ CbRetry(p)
       PROVE  DeferInv'
    BY <1>8, CallbackPcs, CbCommonEffect, ZenonT(30) DEF FrameTypes, Procs,
       DeferInv, RunsShared, RunsTrusted, CbClear, ClearHandled, Go, Put,
       HandledFlags, CbRetry
  <1>9. ASSUME NEW p \in Procs, CbClose(p)
       PROVE  DeferInv'
    BY <1>9, CallbackClosePcs, ZenonT(30) DEF Procs, DeferInv, RunsShared,
       MutualExclusion, HoldsShared, CbClose, Go, Put
  <1>10. ASSUME NEW p \in Procs, CbRead(p) \/ CbCas(p) \/ CbAfter(p)
       PROVE  DeferInv'
    <2>1. CASE CbRead(p)
      BY <2>1, TryUnlockPcs, Zenon DEF FrameTypes, Procs, FrameInv, DeferInv,
         RunsShared, RunsTrusted, HoldsShared, HoldsTrusted, DeferredTrusted,
         CbRead, Go, Put, frame
    <2>2. CASE CbCas(p)
      BY <2>2, TryUnlockPcs, Zenon DEF FrameTypes, Procs, FrameInv, DeferInv,
         RunsShared, RunsTrusted, HoldsShared, HoldsTrusted, DeferredTrusted, Go,
         CbCas, frame
    <2>3. CASE CbAfter(p)
      BY <2>3, TryUnlockPcs, ZenonT(30) DEF FrameTypes, Procs, FrameInv, DeferInv,
         RunsShared, RunsTrusted, HoldsShared, HoldsTrusted, DeferredTrusted, Go,
         Put, CbAfter, UnlockReturns, frame
    <2> QED
      BY <1>10, <2>1, <2>2, <2>3
  <1>11. ASSUME NEW p \in Procs, Defer(p) \/ Queue(p)
       PROVE  DeferInv'
    <2>1. CASE Defer(p)
      BY <2>1, DeferringPcs, SMTT(30), SMTT(60), SMTT(90) DEF FrameTypes, Procs,
         FrameInv, DeferInv, RunsShared, RunsTrusted, MutualExclusion, HoldsShared,
         HoldsTrusted, DeferredTrusted, Defer, Go, frame
    <2>2. CASE Queue(p)
      BY <2>2, DeferringPcs, SMTT(30), SMTT(60), SMTT(90) DEF FrameTypes, Procs,
         FrameInv, DeferInv, RunsShared, RunsTrusted, MutualExclusion, HoldsShared,
         HoldsTrusted, DeferredTrusted, Go, Queue, UnlockReturns, DropReturns, Put,
         frame
    <2> QED
      BY <1>11, <2>1, <2>2
  <1>12. ASSUME NEW p \in Procs, Drop(p) \/ DropClose(p) \/ DropSet(p)
       PROVE  DeferInv'
    <2>1. CASE Drop(p)
      BY <2>1, DroppingPcs, SMTT(30), SMTT(60), SMTT(90) DEF FrameTypes, Procs,
         DeferInv, RunsShared, RunsTrusted, MutualExclusion, HoldsShared, Drop, Go,
         Put, DropReturns, frame
    <2>2. CASE DropClose(p)
      BY <2>2, DroppingPcs, SMTT(30), SMTT(60), SMTT(90) DEF FrameTypes, Procs,
         DeferInv, RunsShared, RunsTrusted, MutualExclusion, HoldsShared, Go,
         DropClose, frame
    <2>3. CASE DropSet(p)
      BY <2>3, DroppingPcs, SMTT(30), SMTT(60), SMTT(90) DEF FrameTypes, Procs,
         DeferInv, RunsShared, RunsTrusted, MutualExclusion, HoldsShared, Go, Put,
         DropSet, frame
    <2> QED
      BY <1>12, <2>1, <2>2, <2>3
  <1>13. ASSUME NEW p \in Procs, Close(p) \/ ClosePending(p) \/ CloseDone(p)
       PROVE  DeferInv'
    <2>1. CASE Close(p)
      BY <2>1, ClosingPcs, Zenon DEF Procs, DeferInv, RunsShared, MutualExclusion,
         HoldsShared, HoldsTrusted, DeferredTrusted, Close, Go
    <2>2. CASE ClosePending(p)
      BY <2>2, ClosingPcs, Zenon DEF Procs, DeferInv, RunsShared, MutualExclusion,
         HoldsShared, HoldsTrusted, DeferredTrusted, ClosePending
    <2>3. CASE CloseDone(p)
      BY <2>3, ClosingPcs, ZenonT(30) DEF Procs, DeferInv, RunsShared,
         MutualExclusion, HoldsShared, HoldsTrusted, DeferredTrusted, Go, CloseDone,
         Put
    <2> QED
      BY <1>13, <2>1, <2>2, <2>3
  <1>14. ASSUME NEW c \in Closers, NEW e \in Eps, CloseEndpoint(c, e)
       PROVE  DeferInv'
    BY <1>14, EndpointPcs, Zenon DEF FrameTypes, Procs, DeferInv, RunsShared,
       RunsTrusted, CloseEndpoint, Go, frame
  <1>15. ASSUME NEW p \in Closers \cup Irqs, TryTrusted(p) \/ TryRead(p)
              \/ TryCas(p)
       PROVE  DeferInv'
    BY <1>15, StackLockAssumption, ZenonT(30) DEF StackLockAssumption, FrameTypes,
       Procs, DeferInv, RunsShared, RunsTrusted, HoldsTrusted, TryTrusted, Go,
       TryRead, Put, TryCas, frame
  <1>16. ASSUME NEW p \in Closers \cup Irqs, TryFailed(p) \/ SetShared(p)
              \/ SetTrusted(p)
       PROVE  DeferInv'
    BY <1>16, AskingPcs, Zenon DEF FrameTypes, Procs, DeferInv, RunsShared,
       RunsTrusted, TryFailed, Go, SetShared, Wanted, SetTrusted, frame
  <1>17. ASSUME NEW i \in Irqs, Arrive(i) \/ Interrupt(i) \/ IrqEntry(i)
              \/ IrqSetBit(i) \/ IrqTestBit(i)
       PROVE  DeferInv'
    BY <1>17, InterruptsPcs, ZenonT(30) DEF FrameTypes, Procs, DeferInv, RunsShared,
       RunsTrusted, HoldsShared, HoldsTrusted, DeferredTrusted, Arrive, Interrupt,
       Go, IrqEntry, IrqSetBit, IrqTestBit, frame
  <1>18. ASSUME NEW i \in Irqs, IrqPoll(i)
       PROVE  DeferInv'
    BY <1>18, IrqPollingPcs, IrqPollEffect, Zenon DEF FrameTypes, Procs, DeferInv,
       RunsShared, RunsTrusted
  <1>19. ASSUME NEW i \in Irqs, IrqPrime(i) \/ IrqPrimeTrusted(i) \/ IrqPrimeSelf(i)
       PROVE  DeferInv'
    BY <1>19, PrimingPcs, Zenon DEF FrameTypes, Procs, DeferInv, RunsShared,
       RunsTrusted, IrqPrime, Go, IrqPrimeTrusted, IrqPrimeSelf, frame
  <1>20. ASSUME WorkStart \/ WorkUntrusted \/ WorkTrusted \/ WorkPoll \/ WorkPrime
       PROVE  DeferInv'
    <2>1. CASE WorkStart
      BY <2>1, WorkingPcs, Zenon DEF FrameTypes, Procs, DeferInv, RunsShared,
         RunsTrusted, DeferredTrusted, WorkStart, Go, frame
    <2>2. CASE WorkUntrusted
      BY <2>2, WorkingPcs, Zenon DEF FrameTypes, Procs, DeferInv, RunsShared,
         RunsTrusted, DeferredTrusted, Go, WorkUntrusted, frame
    <2>3. CASE WorkTrusted
      BY <2>3, WorkingPcs, Zenon DEF FrameTypes, Procs, DeferInv, RunsShared,
         RunsTrusted, DeferredTrusted, Go, WorkTrusted, Put, frame
    <2>4. CASE WorkPoll
      BY <2>4, WorkingPcs, Zenon DEF FrameTypes, Procs, DeferInv, RunsShared,
         RunsTrusted, DeferredTrusted, Go, WorkPoll, frame
    <2>5. CASE WorkPrime
      BY <2>5, WorkingPcs, Zenon DEF FrameTypes, Procs, DeferInv, RunsShared,
         RunsTrusted, DeferredTrusted, Go, Put, WorkPrime, frame
    <2> QED
      BY <1>20, <2>1, <2>2, <2>3, <2>4, <2>5
  <1> QED
    BY <1>1, <1>2, <1>3, <1>4, <1>5, <1>6, <1>7, <1>8, <1>9, <1>10, <1>11, <1>12,
       <1>13, <1>14, <1>15, <1>16, <1>17, <1>18, <1>19, <1>20, NextSteps, Zenon

-----------------------------------------------------------------------------
(* What the holder of the shared lock has to do before it lets it go       *)

\* No step forgets the threads that sleep until packets are free.
LEMMA PktInvNext ==
    ASSUME IInv, Next PROVE PktInv'
  <1> FrameTypes /\ FrameInv /\ CopyInv /\ QueueInv /\ PktInv
    BY DEF IInv
  <1>1. ASSUME NEW u \in Users, Lock(u) \/ Spin(u) \/ LockOrRequestWake(u)
       PROVE  PktInv'
    BY <1>1, StackLockAssumption, Zenon DEF StackLockAssumption, Procs, PktInv,
       PktDuty, InCallback, CbPcs, FrameTypes, CopyInv, QueueInv, Lock, Go, Spin,
       LockOrRequestWake, LeaveWaitQueue, frame, sleep
  <1>2. ASSUME NEW u \in Users, AddToWaitQueue(u) \/ SetState(u) \/ Scheduled(u)
              \/ Interrupted(u)
       PROVE  PktInv'
    BY <1>2, Zenon DEF Procs, PktInv, PktDuty, InCallback, CbPcs, FrameTypes,
       CopyInv, AddToWaitQueue, Go, SetState, Scheduled, Interrupted,
       LeaveWaitQueue, frame, sleep
  <1>3. ASSUME NEW u \in Users, Poll(u) \/ UsePackets(u)
       PROVE  PktInv'
    BY <1>3, WakesOnly, Zenon DEF Procs, PktInv, PktDuty, InCallback, CbPcs,
       FrameTypes, CopyInv, Poll, UsePackets, frame, sleep
  <1>4. ASSUME NEW u \in Users, PktWait(u) \/ PktCheck(u) \/ PktReadLock(u)
              \/ PktSetWaiter(u) \/ PktScheduled(u) \/ PktInterrupted(u)
       PROVE  PktInv'
    BY <1>4, ZenonT(30) DEF Procs, PktInv, PktDuty, InCallback, CbPcs, FrameTypes,
       CopyInv, PktWait, Go, PktCheck, PktLeave, PktReadLock, Put, PktSetWaiter,
       PktScheduled, PktInterrupted, frame, sleep
  <1>5. ASSUME NEW u \in Users, Unlock(u) \/ UlClear(u) \/ UlCommon(u)
              \/ UlRestore(u)
       PROVE  PktInv'
    <2>1. CASE Unlock(u)
      BY <2>1, ZenonT(30) DEF Procs, PktInv, PktDuty, InCallback, CbPcs, FrameTypes,
         CopyInv, Unlock, Go, frame, sleep
    <2>2. CASE UlClear(u)
      BY <2>2, Zenon DEF Procs, PktInv, PktDuty, InCallback, CbPcs, FrameTypes,
         CopyInv, UlClear, ClearHandled, Go, Put, HandledFlags, frame, sleep
    <2>3. CASE UlCommon(u)
      BY <2>3, UnlockingPcs, UlCommonEffect, UlCommonDuty, StackLockAssumption,
         SMTT(30), SMTT(60), SMTT(90) DEF StackLockAssumption, Procs, PktInv,
         PktDuty, InCallback, CbPcs, FrameTypes, CopyInv, FrameInv, frame, sleep
    <2>4. CASE UlRestore(u)
      BY <2>4, Zenon DEF Procs, PktInv, PktDuty, InCallback, CbPcs, FrameTypes,
         CopyInv, UlRestore, Go, Put, frame, sleep
    <2> QED
      BY <1>5, <2>1, <2>2, <2>3, <2>4
  <1>6. ASSUME NEW u \in Users, UlRead(u) \/ UlCas(u) \/ UlPrime(u)
       PROVE  PktInv'
    <2>1. CASE UlRead(u)
      BY <2>1, ZenonT(30) DEF Procs, PktInv, PktDuty, InCallback, CbPcs, FrameTypes,
         CopyInv, UlRead, Go, Put, frame, sleep
    <2>2. CASE UlCas(u)
      BY <2>2, ZenonT(30) DEF Procs, PktInv, PktDuty, InCallback, CbPcs, FrameTypes,
         CopyInv, UlCas, Go, Put, frame, sleep
    <2>3. CASE UlPrime(u)
      BY <2>3, SwappingPcs, StackLockAssumption, SMTT(30), SMTT(60), SMTT(90) DEF
         StackLockAssumption, Procs, PktInv, PktDuty, InCallback, CbPcs, FrameTypes,
         CopyInv, FrameInv, UlPrime, Go, Put, frame, sleep
    <2> QED
      BY <1>6, <2>1, <2>2, <2>3
  <1>7. ASSUME NEW p \in Procs, KUnlock(p) \/ KRead(p) \/ KCas(p) \/ KWake(p)
       PROVE  PktInv'
    <2>1. CASE KUnlock(p)
      BY <2>1, KernelPcs, StackLockAssumption, SMTT(30), SMTT(60), SMTT(90) DEF
         StackLockAssumption, Procs, PktInv, PktDuty, InCallback, CbPcs, FrameTypes,
         CopyInv, FrameInv, KUnlock, Go, UnlockReturns, Put, frame, sleep
    <2>2. CASE KRead(p)
      BY <2>2, Zenon DEF Procs, PktInv, PktDuty, InCallback, CbPcs, FrameTypes,
         CopyInv, KRead, Go, Put, frame, sleep
    <2>3. CASE KCas(p)
      <3>1. CASE lock # l[p]
        BY <2>3, <3>1, SMTT(30), SMTT(60), SMTT(90) DEF Procs, FrameInv, QueueInv,
           PktInv, PktDuty, InCallback, CbPcs, FrameTypes, KCas, Go, frame, sleep
      <3>2. CASE lock = l[p]
        <4>1. lock \cap {"IS_PKT_WAITER", "PKT_WAKE"} = {}
          BY <2>3, <3>2 DEF CopyInv, KCas, CallbackFlags, UnlockFlags
        <4> QED
          BY <2>3, <3>2, <4>1, KernelPcs, Held, StackLockAssumption, SMTT(30),
             SMTT(60), SMTT(90) DEF StackLockAssumption, Procs, FrameInv, QueueInv,
             PktInv, PktDuty, InCallback, CbPcs, FrameTypes, KCas, Go, Put,
             UnlockReturns, frame, sleep
      <3> QED
        BY <3>1, <3>2
    <2>4. CASE KWake(p)
      BY <2>4, KernelPcs, StackLockAssumption, SMTT(30), SMTT(60), SMTT(90) DEF
         StackLockAssumption, Procs, PktInv, PktDuty, InCallback, CbPcs, FrameTypes,
         CopyInv, FrameInv, KWake, UnlockReturns, Go, Put, frame, sleep
    <2> QED
      BY <1>7, <2>1, <2>2, <2>3, <2>4
  <1>8. ASSUME NEW p \in Procs, CbClear(p) \/ CbCommon(p) \/ CbRetry(p)
       PROVE  PktInv'
    <2>1. CASE CbClear(p)
      BY <2>1, Zenon DEF Procs, PktInv, PktDuty, InCallback, CbPcs, FrameTypes,
         CopyInv, CbClear, ClearHandled, Go, Put, HandledFlags, frame, sleep
    <2>2. CASE CbCommon(p)
      BY <2>2, CbCommonEffect, CbCommonDuty, SMTT(30), SMTT(60), SMTT(90) DEF Procs,
         PktInv, PktDuty, InCallback, CbPcs, FrameTypes, CopyInv, frame, sleep
    <2>3. CASE CbRetry(p)
      BY <2>3, StackLockAssumption, ZenonT(30) DEF StackLockAssumption, Procs,
         PktInv, PktDuty, InCallback, CbPcs, FrameTypes, CopyInv, QueueInv, CbRetry,
         Go, frame, sleep
    <2> QED
      BY <1>8, <2>1, <2>2, <2>3
  <1>9. ASSUME NEW p \in Procs, CbClose(p)
       PROVE  PktInv'
    BY <1>9, SMTT(30), SMTT(60), SMTT(90) DEF Procs, PktInv, PktDuty, InCallback,
       CbPcs, FrameTypes, CopyInv, CbClose, Go, Put, frame, sleep
  <1>10. ASSUME NEW p \in Procs, CbRead(p) \/ CbCas(p) \/ CbAfter(p)
       PROVE  PktInv'
    <2>1. CASE CbRead(p)
      BY <2>1, Zenon DEF Procs, PktInv, PktDuty, InCallback, CbPcs, FrameTypes,
         CopyInv, CbRead, Go, Put, frame, sleep
    <2>2. CASE CbCas(p)
      BY <2>2, ZenonT(30) DEF Procs, PktInv, PktDuty, InCallback, CbPcs, FrameTypes,
         CopyInv, CbCas, Go, frame, sleep
    <2>3. CASE CbAfter(p)
      BY <2>3, StackLockAssumption, SMTT(30), SMTT(60), SMTT(90) DEF
         StackLockAssumption, Procs, PktInv, PktDuty, InCallback, CbPcs, FrameTypes,
         CopyInv, QueueInv, CbAfter, Go, UnlockReturns, Put, frame, sleep
    <2> QED
      BY <1>10, <2>1, <2>2, <2>3
  <1>11. ASSUME NEW p \in Procs, Defer(p) \/ Queue(p)
       PROVE  PktInv'
    BY <1>11, DeferringPcs, StackLockAssumption, SMTT(30), SMTT(60), SMTT(90) DEF
       StackLockAssumption, Procs, PktInv, PktDuty, InCallback, CbPcs, FrameTypes,
       CopyInv, FrameInv, Defer, Go, Queue, UnlockReturns, DropReturns, Put, frame,
       sleep
  <1>12. ASSUME NEW p \in Procs, Drop(p) \/ DropClose(p) \/ DropSet(p)
       PROVE  PktInv'
    <2>1. CASE Drop(p)
      BY <2>1, ZenonT(30) DEF Procs, PktInv, PktDuty, InCallback, CbPcs, FrameTypes,
         CopyInv, Drop, Go, Put, DropReturns, frame, sleep
    <2>2. CASE DropClose(p)
      BY <2>2, StackLockAssumption, ZenonT(30) DEF StackLockAssumption, Procs,
         PktInv, PktDuty, InCallback, CbPcs, FrameTypes, CopyInv, QueueInv,
         DropClose, Go, frame, sleep
    <2>3. CASE DropSet(p)
      BY <2>3, SMTT(30), SMTT(60), SMTT(90) DEF Procs, PktInv, PktDuty, InCallback,
         CbPcs, FrameTypes, CopyInv, DropSet, Go, Put, frame, sleep
    <2> QED
      BY <1>12, <2>1, <2>2, <2>3
  <1>13. ASSUME NEW p \in Procs, Close(p) \/ ClosePending(p) \/ CloseDone(p)
       PROVE  PktInv'
    <2>1. CASE Close(p)
      BY <2>1, WakesOnly, Zenon DEF Procs, PktInv, PktDuty, InCallback, CbPcs,
         FrameTypes, CopyInv, Close, Go, frame, sleep
    <2>2. CASE ClosePending(p)
      BY <2>2, Zenon DEF Procs, PktInv, PktDuty, InCallback, CbPcs, FrameTypes,
         CopyInv, ClosePending, frame, sleep
    <2>3. CASE CloseDone(p)
      BY <2>3, ZenonT(30) DEF Procs, PktInv, PktDuty, InCallback, CbPcs, FrameTypes,
         CopyInv, CloseDone, Go, Put, frame, sleep
    <2> QED
      BY <1>13, <2>1, <2>2, <2>3
  <1>14. ASSUME NEW c \in Closers, NEW e \in Eps, CloseEndpoint(c, e)
       PROVE  PktInv'
    BY <1>14, StackLockAssumption, Zenon DEF StackLockAssumption, Procs, PktInv,
       PktDuty, InCallback, CbPcs, FrameTypes, CopyInv, CloseEndpoint, Go, frame,
       sleep
  <1>15. ASSUME NEW p \in Closers \cup Irqs, TryTrusted(p) \/ TryRead(p)
              \/ TryCas(p)
       PROVE  PktInv'
    <2>1. CASE TryTrusted(p)
      BY <2>1, StackLockAssumption, ZenonT(30) DEF StackLockAssumption, Procs,
         PktInv, PktDuty, InCallback, CbPcs, FrameTypes, CopyInv, QueueInv,
         TryTrusted, Go, frame, sleep
    <2>2. CASE TryRead(p)
      BY <2>2, TryingPcs, StackLockAssumption, SMTT(30), SMTT(60), SMTT(90) DEF
         StackLockAssumption, Procs, PktInv, PktDuty, InCallback, CbPcs, FrameTypes,
         CopyInv, FrameInv, TryRead, Go, Put, frame, sleep
    <2>3. CASE TryCas(p)
      BY <2>3, TryingPcs, StackLockAssumption, SMTT(30), SMTT(60), SMTT(90) DEF
         StackLockAssumption, Procs, PktInv, PktDuty, InCallback, CbPcs, FrameTypes,
         CopyInv, FrameInv, TryCas, Go, Put, frame, sleep
    <2> QED
      BY <1>15, <2>1, <2>2, <2>3
  <1>16. ASSUME NEW p \in Closers \cup Irqs, TryFailed(p) \/ SetShared(p)
              \/ SetTrusted(p)
       PROVE  PktInv'
    BY <1>16, StackLockAssumption, ZenonT(30) DEF StackLockAssumption, Procs,
       PktInv, PktDuty, InCallback, CbPcs, FrameTypes, CopyInv, QueueInv, TryFailed,
       Go, SetShared, Wanted, SetTrusted, frame, sleep
  <1>17. ASSUME NEW i \in Irqs, Arrive(i) \/ Interrupt(i) \/ IrqEntry(i)
              \/ IrqSetBit(i) \/ IrqTestBit(i)
       PROVE  PktInv'
    BY <1>17, Zenon DEF Procs, PktInv, PktDuty, InCallback, CbPcs, FrameTypes,
       CopyInv, Arrive, Interrupt, Go, IrqEntry, IrqSetBit, IrqTestBit, frame, sleep
  <1>18. ASSUME NEW i \in Irqs, IrqPoll(i)
       PROVE  PktInv'
    BY <1>18, IrqPollEffect, IrqPollDuty, ZenonT(30) DEF Procs, PktInv, PktDuty,
       InCallback, CbPcs, FrameTypes, CopyInv, frame, sleep
  <1>19. ASSUME NEW i \in Irqs, IrqPrime(i) \/ IrqPrimeTrusted(i) \/ IrqPrimeSelf(i)
       PROVE  PktInv'
    BY <1>19, Zenon DEF Procs, PktInv, PktDuty, InCallback, CbPcs, FrameTypes,
       CopyInv, IrqPrime, Go, IrqPrimeTrusted, IrqPrimeSelf, frame, sleep
  <1>20. ASSUME WorkStart \/ WorkUntrusted \/ WorkTrusted \/ WorkPoll \/ WorkPrime
       PROVE  PktInv'
    <2>1. CASE WorkStart
      BY <2>1, Zenon DEF Procs, PktInv, PktDuty, InCallback, CbPcs, FrameTypes,
         CopyInv, WorkStart, Go, frame, sleep
    <2>2. CASE WorkUntrusted
      BY <2>2, Zenon DEF Procs, PktInv, PktDuty, InCallback, CbPcs, FrameTypes,
         CopyInv, WorkUntrusted, Go, frame, sleep
    <2>3. CASE WorkTrusted
      BY <2>3, Zenon DEF Procs, PktInv, PktDuty, InCallback, CbPcs, FrameTypes,
         CopyInv, WorkTrusted, Go, Put, frame, sleep
    <2>4. CASE WorkPoll
      BY <2>4, WakesOnly, Zenon DEF Procs, PktInv, PktDuty, InCallback, CbPcs,
         FrameTypes, CopyInv, WorkPoll, Go, frame, sleep
    <2>5. CASE WorkPrime
      BY <2>5, ZenonT(30) DEF Procs, PktInv, PktDuty, InCallback, CbPcs, FrameTypes,
         CopyInv, WorkPrime, Go, Put, frame, sleep
    <2> QED
      BY <1>20, <2>1, <2>2, <2>3, <2>4, <2>5
  <1> QED
    BY <1>1, <1>2, <1>3, <1>4, <1>5, <1>6, <1>7, <1>8, <1>9, <1>10, <1>11, <1>12,
       <1>13, <1>14, <1>15, <1>16, <1>17, <1>18, <1>19, <1>20, NextSteps, Zenon

\* A word is left without LOCKED only when the flags have been handled.
LEMMA UnlockedMeansHandledNext ==
    ASSUME IInv, Next PROVE UnlockedMeansHandled'
  <1> CopyInv /\ UnlockedMeansHandled
    BY DEF IInv
  <1>1. ASSUME NEW u \in Users, Lock(u) \/ Spin(u) \/ LockOrRequestWake(u)
       PROVE  UnlockedMeansHandled'
    BY <1>1, Zenon DEF UnlockedMeansHandled, Lock, Go, Spin, LockOrRequestWake,
       LeaveWaitQueue
  <1>2. ASSUME NEW u \in Users, AddToWaitQueue(u) \/ SetState(u) \/ Scheduled(u)
              \/ Interrupted(u)
       PROVE  UnlockedMeansHandled'
    BY <1>2, Zenon DEF UnlockedMeansHandled, AddToWaitQueue, Go, SetState,
       Scheduled, Interrupted, LeaveWaitQueue
  <1>3. ASSUME NEW u \in Users, Poll(u) \/ UsePackets(u)
       PROVE  UnlockedMeansHandled'
    BY <1>3, HoldingPcs, Held, Zenon DEF Procs, UnlockedMeansHandled, Poll,
       UsePackets
  <1>4. ASSUME NEW u \in Users, PktWait(u) \/ PktCheck(u) \/ PktReadLock(u)
              \/ PktSetWaiter(u) \/ PktScheduled(u) \/ PktInterrupted(u)
       PROVE  UnlockedMeansHandled'
    BY <1>4, Zenon DEF UnlockedMeansHandled, UnlockFlags, PktWait, Go, PktCheck,
       PktLeave, PktReadLock, Put, PktSetWaiter, PktScheduled, PktInterrupted
  <1>5. ASSUME NEW u \in Users, Unlock(u) \/ UlClear(u) \/ UlCommon(u)
              \/ UlRestore(u)
       PROVE  UnlockedMeansHandled'
    <2>1. CASE Unlock(u)
      BY <2>1, UnlockingPcs, Held, Zenon DEF Procs, UnlockedMeansHandled, Unlock, Go
    <2>2. CASE UlClear(u)
      BY <2>2, UnlockingPcs, Held, Zenon DEF Procs, UnlockedMeansHandled, Go,
         UlClear, ClearHandled, Put, HandledFlags
    <2>3. CASE UlCommon(u)
      BY <2>3, UnlockingPcs, Held, UlCommonEffect, SMTT(30), SMTT(60) DEF Procs,
         UnlockedMeansHandled
    <2>4. CASE UlRestore(u)
      BY <2>4, UnlockingPcs, Held, Zenon DEF Procs, UnlockedMeansHandled, Go, Put,
         UlRestore
    <2> QED
      BY <1>5, <2>1, <2>2, <2>3, <2>4
  <1>6. ASSUME NEW u \in Users, UlRead(u) \/ UlCas(u) \/ UlPrime(u)
       PROVE  UnlockedMeansHandled'
    BY <1>6, Zenon DEF Procs, UnlockedMeansHandled, CopyInv, UlRead, Go, Put, UlCas,
       UlPrime
  <1>7. ASSUME NEW p \in Procs, KUnlock(p) \/ KRead(p) \/ KCas(p) \/ KWake(p)
       PROVE  UnlockedMeansHandled'
    BY <1>7, Zenon DEF UnlockedMeansHandled, KUnlock, Go, UnlockReturns, Put, KRead,
       KCas, KWake
  <1>8. ASSUME NEW p \in Procs, CbClear(p) \/ CbCommon(p) \/ CbRetry(p)
       PROVE  UnlockedMeansHandled'
    BY <1>8, CallbackPcs, Held, CbCommonEffect, Zenon DEF UnlockedMeansHandled,
       CbClear, ClearHandled, Go, Put, HandledFlags, CbRetry
  <1>9. ASSUME NEW p \in Procs, CbClose(p)
       PROVE  UnlockedMeansHandled'
    BY <1>9, CallbackClosePcs, Held, Zenon DEF UnlockedMeansHandled, CbClose, Go,
       Put
  <1>10. ASSUME NEW p \in Procs, CbRead(p) \/ CbCas(p) \/ CbAfter(p)
       PROVE  UnlockedMeansHandled'
    BY <1>10, Zenon DEF UnlockedMeansHandled, CopyInv, CbRead, Go, Put, CbCas,
       CbAfter, UnlockReturns
  <1>11. ASSUME NEW p \in Procs, Defer(p) \/ Queue(p)
       PROVE  UnlockedMeansHandled'
    BY <1>11, Zenon DEF UnlockedMeansHandled, Defer, Go, Queue, UnlockReturns,
       DropReturns, Put
  <1>12. ASSUME NEW p \in Procs, Drop(p) \/ DropClose(p) \/ DropSet(p)
       PROVE  UnlockedMeansHandled'
    BY <1>12, Zenon DEF UnlockedMeansHandled, Drop, Go, Put, DropReturns, DropClose,
       DropSet
  <1>13. ASSUME NEW p \in Procs, Close(p) \/ ClosePending(p) \/ CloseDone(p)
       PROVE  UnlockedMeansHandled'
    BY <1>13, ClosingPcs, Held, Zenon DEF UnlockedMeansHandled, Close, Go,
       ClosePending, CloseDone, Put
  <1>14. ASSUME NEW c \in Closers, NEW e \in Eps, CloseEndpoint(c, e)
       PROVE  UnlockedMeansHandled'
    BY <1>14, Zenon DEF UnlockedMeansHandled, CloseEndpoint, Go
  <1>15. ASSUME NEW p \in Closers \cup Irqs, TryTrusted(p) \/ TryRead(p)
              \/ TryCas(p)
       PROVE  UnlockedMeansHandled'
    BY <1>15, Zenon DEF UnlockedMeansHandled, TryTrusted, Go, TryRead, Put, TryCas
  <1>16. ASSUME NEW p \in Closers \cup Irqs, TryFailed(p) \/ SetShared(p)
              \/ SetTrusted(p)
       PROVE  UnlockedMeansHandled'
    BY <1>16, Zenon DEF UnlockedMeansHandled, TryFailed, Go, SetShared, Wanted,
       SetTrusted
  <1>17. ASSUME NEW i \in Irqs, Arrive(i) \/ Interrupt(i) \/ IrqEntry(i)
              \/ IrqSetBit(i) \/ IrqTestBit(i)
       PROVE  UnlockedMeansHandled'
    BY <1>17, Zenon DEF UnlockedMeansHandled, Arrive, Interrupt, Go, IrqEntry,
       IrqSetBit, IrqTestBit
  <1>18. ASSUME NEW i \in Irqs, IrqPoll(i)
       PROVE  UnlockedMeansHandled'
    BY <1>18, IrqPollingPcs, Held, IrqPollEffect, SMTT(30), SMTT(60) DEF Procs,
       UnlockedMeansHandled, CopyInv
  <1>19. ASSUME NEW i \in Irqs, IrqPrime(i) \/ IrqPrimeTrusted(i) \/ IrqPrimeSelf(i)
       PROVE  UnlockedMeansHandled'
    BY <1>19, Zenon DEF UnlockedMeansHandled, IrqPrime, Go, IrqPrimeTrusted,
       IrqPrimeSelf
  <1>20. ASSUME WorkStart \/ WorkUntrusted \/ WorkTrusted \/ WorkPoll \/ WorkPrime
       PROVE  UnlockedMeansHandled'
    BY <1>20, WorkingPcs, Held, Zenon DEF Procs, UnlockedMeansHandled, WorkStart,
       Go, WorkUntrusted, WorkTrusted, Put, WorkPoll, WorkPrime
  <1> QED
    BY <1>1, <1>2, <1>3, <1>4, <1>5, <1>6, <1>7, <1>8, <1>9, <1>10, <1>11, <1>12,
       <1>13, <1>14, <1>15, <1>16, <1>17, <1>18, <1>19, <1>20, NextSteps, Zenon

\* A thread that has asked to be woken is not forgotten by any step.
LEMMA NoLostWakeupNext ==
    ASSUME IInv, Next PROVE NoLostWakeup'
  <1> FrameTypes /\ CopyInv /\ QueueInv /\ NoLostWakeup
    BY DEF IInv
  <1>1. ASSUME NEW u \in Users, Lock(u) \/ Spin(u) \/ LockOrRequestWake(u)
       PROVE  NoLostWakeup'
    <2>1. CASE Lock(u)
      BY <2>1, Zenon DEF FrameTypes, Procs, NoLostWakeup, QueueInv, Lock, Go, sleep,
         frame
    <2>2. CASE Spin(u)
      BY <2>2, Zenon DEF FrameTypes, Procs, NoLostWakeup, QueueInv, Go, Spin, sleep,
         frame
    <2>3. CASE LockOrRequestWake(u)
      BY <2>3, SMTT(30), SMTT(60) DEF FrameTypes, Procs, NoLostWakeup, QueueInv, Go,
         LockOrRequestWake, LeaveWaitQueue, sleep, frame
    <2> QED
      BY <1>1, <2>1, <2>2, <2>3
  <1>2. ASSUME NEW u \in Users, AddToWaitQueue(u) \/ SetState(u) \/ Scheduled(u)
              \/ Interrupted(u)
       PROVE  NoLostWakeup'
    BY <1>2, Zenon DEF FrameTypes, Procs, NoLostWakeup, AddToWaitQueue, Go,
       SetState, Scheduled, Interrupted, LeaveWaitQueue, sleep, frame
  <1>3. ASSUME NEW u \in Users, Poll(u) \/ UsePackets(u)
       PROVE  NoLostWakeup'
    BY <1>3, Zenon DEF NoLostWakeup, Poll, UsePackets, sleep, frame
  <1>4. ASSUME NEW u \in Users, PktWait(u) \/ PktCheck(u) \/ PktReadLock(u)
              \/ PktSetWaiter(u) \/ PktScheduled(u) \/ PktInterrupted(u)
       PROVE  NoLostWakeup'
    BY <1>4, ZenonT(30) DEF FrameTypes, Procs, NoLostWakeup, PktWait, Go, PktCheck,
       PktLeave, PktReadLock, Put, PktSetWaiter, PktScheduled, PktInterrupted,
       sleep, frame
  <1>5. ASSUME NEW u \in Users, Unlock(u) \/ UlClear(u) \/ UlCommon(u)
              \/ UlRestore(u)
       PROVE  NoLostWakeup'
    BY <1>5, UlCommonEffect, ZenonT(30) DEF FrameTypes, Procs, NoLostWakeup, Unlock,
       Go, UlClear, ClearHandled, Put, HandledFlags, UlRestore, sleep, frame
  <1>6. ASSUME NEW u \in Users, UlRead(u) \/ UlCas(u) \/ UlPrime(u)
       PROVE  NoLostWakeup'
    <2>1. CASE UlRead(u)
      BY <2>1, ZenonT(30) DEF FrameTypes, Procs, NoLostWakeup, CopyInv, UnlockFlags,
         UlRead, Go, Put, sleep
    <2>2. CASE UlCas(u)
      BY <2>2, ZenonT(30) DEF FrameTypes, Procs, NoLostWakeup, CopyInv, UnlockFlags,
         Go, Put, UlCas, sleep
    <2>3. CASE UlPrime(u)
      BY <2>3, Zenon DEF FrameTypes, Procs, NoLostWakeup, CopyInv, UnlockFlags, Go,
         Put, UlPrime, sleep
    <2> QED
      BY <1>6, <2>1, <2>2, <2>3
  <1>7. ASSUME NEW p \in Procs, KUnlock(p) \/ KRead(p) \/ KCas(p) \/ KWake(p)
       PROVE  NoLostWakeup'
    <2>1. CASE KUnlock(p)
      BY <2>1, ZenonT(30) DEF FrameTypes, Procs, NoLostWakeup, QueueInv, KUnlock,
         Go, UnlockReturns, Put, sleep, frame
    <2>2. CASE KRead(p)
      BY <2>2, Zenon DEF FrameTypes, Procs, NoLostWakeup, QueueInv, Go, Put, KRead,
         sleep, frame
    <2>3. CASE KCas(p)
      BY <2>3, ZenonT(30) DEF FrameTypes, Procs, NoLostWakeup, QueueInv, Go,
         UnlockReturns, Put, KCas, sleep, frame
    <2>4. CASE KWake(p)
      BY <2>4, Zenon DEF FrameTypes, Procs, NoLostWakeup, QueueInv, Go,
         UnlockReturns, Put, KWake, sleep, frame
    <2> QED
      BY <1>7, <2>1, <2>2, <2>3, <2>4
  <1>8. ASSUME NEW p \in Procs, CbClear(p) \/ CbCommon(p) \/ CbRetry(p)
       PROVE  NoLostWakeup'
    <2>1. CASE CbClear(p)
      BY <2>1, Zenon DEF FrameTypes, Procs, NoLostWakeup, CbClear, ClearHandled, Go,
         Put, HandledFlags, sleep
    <2>2. CASE CbCommon(p)
      BY <2>2, CbCommonEffect, ZenonT(30) DEF FrameTypes, Procs, NoLostWakeup, sleep
    <2>3. CASE CbRetry(p)
      BY <2>3, Zenon DEF FrameTypes, Procs, NoLostWakeup, Go, CbRetry, sleep
    <2> QED
      BY <1>8, <2>1, <2>2, <2>3
  <1>9. ASSUME NEW p \in Procs, CbClose(p)
       PROVE  NoLostWakeup'
    BY <1>9, CallbackClosePcs, Zenon DEF FrameTypes, Procs, NoLostWakeup, QueueInv,
       CbClose, Go, Put, sleep
  <1>10. ASSUME NEW p \in Procs, CbRead(p) \/ CbCas(p) \/ CbAfter(p)
       PROVE  NoLostWakeup'
    <2>1. CASE CbRead(p)
      BY <2>1, Zenon DEF FrameTypes, Procs, NoLostWakeup, CbRead, Go, Put, sleep,
         frame
    <2>2. CASE CbCas(p)
      BY <2>2, Zenon DEF FrameTypes, Procs, NoLostWakeup, Go, CbCas, sleep, frame
    <2>3. CASE CbAfter(p)
      BY <2>3, ZenonT(30) DEF FrameTypes, Procs, NoLostWakeup, Go, Put, CbAfter,
         UnlockReturns, sleep, frame
    <2> QED
      BY <1>10, <2>1, <2>2, <2>3
  <1>11. ASSUME NEW p \in Procs, Defer(p) \/ Queue(p)
       PROVE  NoLostWakeup'
    BY <1>11, SMTT(30), SMTT(60) DEF FrameTypes, Procs, NoLostWakeup, Defer, Go,
       Queue, UnlockReturns, DropReturns, Put, sleep, frame
  <1>12. ASSUME NEW p \in Procs, Drop(p) \/ DropClose(p) \/ DropSet(p)
       PROVE  NoLostWakeup'
    BY <1>12, ZenonT(30) DEF FrameTypes, Procs, NoLostWakeup, Drop, Go, Put,
       DropReturns, DropClose, DropSet, sleep, frame
  <1>13. ASSUME NEW p \in Procs, Close(p) \/ ClosePending(p) \/ CloseDone(p)
       PROVE  NoLostWakeup'
    BY <1>13, Zenon DEF FrameTypes, Procs, NoLostWakeup, Close, Go, ClosePending,
       CloseDone, Put, sleep, frame
  <1>14. ASSUME NEW c \in Closers, NEW e \in Eps, CloseEndpoint(c, e)
       PROVE  NoLostWakeup'
    BY <1>14, Zenon DEF FrameTypes, Procs, NoLostWakeup, CloseEndpoint, Go, sleep,
       frame
  <1>15. ASSUME NEW p \in Closers \cup Irqs, TryTrusted(p) \/ TryRead(p)
              \/ TryCas(p)
       PROVE  NoLostWakeup'
    BY <1>15, ZenonT(30) DEF FrameTypes, Procs, NoLostWakeup, TryTrusted, Go,
       TryRead, Put, TryCas, sleep, frame
  <1>16. ASSUME NEW p \in Closers \cup Irqs, TryFailed(p) \/ SetShared(p)
              \/ SetTrusted(p)
       PROVE  NoLostWakeup'
    BY <1>16, Zenon DEF FrameTypes, Procs, NoLostWakeup, TryFailed, Go, SetShared,
       Wanted, SetTrusted, sleep, frame
  <1>17. ASSUME NEW i \in Irqs, Arrive(i) \/ Interrupt(i) \/ IrqEntry(i)
              \/ IrqSetBit(i) \/ IrqTestBit(i)
       PROVE  NoLostWakeup'
    BY <1>17, Zenon DEF FrameTypes, Procs, NoLostWakeup, Arrive, Interrupt, Go,
       IrqEntry, IrqSetBit, IrqTestBit, sleep, frame
  <1>18. ASSUME NEW i \in Irqs, IrqPoll(i)
       PROVE  NoLostWakeup'
    BY <1>18, IrqPollEffect, Zenon DEF FrameTypes, Procs, NoLostWakeup
  <1>19. ASSUME NEW i \in Irqs, IrqPrime(i) \/ IrqPrimeTrusted(i) \/ IrqPrimeSelf(i)
       PROVE  NoLostWakeup'
    BY <1>19, Zenon DEF FrameTypes, Procs, NoLostWakeup, IrqPrime, Go,
       IrqPrimeTrusted, IrqPrimeSelf, sleep, frame
  <1>20. ASSUME WorkStart \/ WorkUntrusted \/ WorkTrusted \/ WorkPoll \/ WorkPrime
       PROVE  NoLostWakeup'
    BY <1>20, Zenon DEF FrameTypes, Procs, NoLostWakeup, WorkStart, Go,
       WorkUntrusted, WorkTrusted, Put, WorkPoll, WorkPrime, sleep, frame
  <1> QED
    BY <1>1, <1>2, <1>3, <1>4, <1>5, <1>6, <1>7, <1>8, <1>9, <1>10, <1>11, <1>12,
       <1>13, <1>14, <1>15, <1>16, <1>17, <1>18, <1>19, <1>20, NextSteps, Zenon

-----------------------------------------------------------------------------
(* Who a lock is passed to                                                 *)

\* A process that has a lock after a step had it before, or found it free, or
\* is the work item, to which an interrupt handler left it.
PassedOn ==
    \A q \in Procs :
        /\ HoldsShared(q)' =>
              \/ HoldsShared(q) \/ "LOCKED" \notin lock
              \/ q = Work /\ \E i \in Irqs : HoldsShared(i)
        /\ HoldsTrusted(q)' =>
              \/ HoldsTrusted(q) \/ "LOCKED" \notin trusted
              \/ q = Work /\ \E i \in Irqs : HoldsTrusted(i)

\* What PassedOn says holds of every step.
LEMMA LocksArePassedOn ==
    ASSUME IInv, Next PROVE PassedOn
  <1> FrameTypes /\ CopyInv /\ DeferInv /\ ContextInv
    BY DEF IInv
  <1>1. ASSUME NEW u \in Users, Lock(u) \/ Spin(u) \/ LockOrRequestWake(u)
       PROVE  PassedOn
    BY <1>1, LockingPcs, Zenon DEF FrameTypes, PassedOn, HoldsShared, HoldsTrusted,
       Lock, Go, Spin, LockOrRequestWake, LeaveWaitQueue, frame
  <1>2. ASSUME NEW u \in Users, AddToWaitQueue(u) \/ SetState(u) \/ Scheduled(u)
              \/ Interrupted(u)
       PROVE  PassedOn
    BY <1>2, SleepingPcs, Zenon DEF FrameTypes, PassedOn, HoldsShared, HoldsTrusted,
       AddToWaitQueue, Go, SetState, Scheduled, Interrupted, LeaveWaitQueue, frame
  <1>3. ASSUME NEW u \in Users, Poll(u) \/ UsePackets(u)
       PROVE  PassedOn
    BY <1>3, Zenon DEF PassedOn, HoldsShared, HoldsTrusted, Poll, UsePackets, frame
  <1>4. ASSUME NEW u \in Users, PktWait(u) \/ PktCheck(u) \/ PktReadLock(u)
              \/ PktSetWaiter(u) \/ PktScheduled(u) \/ PktInterrupted(u)
       PROVE  PassedOn
    BY <1>4, PacketsPcs, Zenon DEF FrameTypes, PassedOn, DeferredTrusted,
       HoldsShared, HoldsTrusted, PktWait, Go, PktCheck, PktLeave, PktReadLock, Put,
       PktSetWaiter, PktScheduled, PktInterrupted, frame
  <1>5. ASSUME NEW u \in Users, Unlock(u) \/ UlClear(u) \/ UlCommon(u)
              \/ UlRestore(u)
       PROVE  PassedOn
    BY <1>5, UnlockingPcs, UlCommonEffect, Zenon DEF FrameTypes, PassedOn,
       HoldsShared, HoldsTrusted, Unlock, Go, UlClear, ClearHandled, Put, UlRestore,
       frame
  <1>6. ASSUME NEW u \in Users, UlRead(u) \/ UlCas(u) \/ UlPrime(u)
       PROVE  PassedOn
    BY <1>6, SwappingPcs, Zenon DEF FrameTypes, PassedOn, HoldsShared, HoldsTrusted,
       UlRead, Go, Put, UlCas, UlPrime
  <1>7. ASSUME NEW p \in Procs, KUnlock(p) \/ KRead(p) \/ KCas(p) \/ KWake(p)
       PROVE  PassedOn
    BY <1>7, KernelPcs, Zenon DEF FrameTypes, PassedOn, HoldsShared, HoldsTrusted,
       KUnlock, Go, UnlockReturns, Put, KRead, KCas, KWake, frame
  <1>8. ASSUME NEW p \in Procs, CbClear(p) \/ CbCommon(p) \/ CbRetry(p)
       PROVE  PassedOn
    BY <1>8, CallbackPcs, CbCommonEffect, Zenon DEF FrameTypes, PassedOn,
       HoldsShared, HoldsTrusted, CbClear, ClearHandled, Go, Put, CbRetry
  <1>9. ASSUME NEW p \in Procs, CbClose(p)
       PROVE  PassedOn
    BY <1>9, CallbackClosePcs, Zenon DEF FrameTypes, PassedOn, HoldsShared,
       HoldsTrusted, CbClose, Go, Put
  <1>10. ASSUME NEW p \in Procs, CbRead(p) \/ CbCas(p) \/ CbAfter(p)
       PROVE  PassedOn
    BY <1>10, TryUnlockPcs, Zenon DEF FrameTypes, PassedOn, HoldsShared,
       HoldsTrusted, CbRead, Go, Put, CbCas, CbAfter, UnlockReturns, frame
  <1>11. ASSUME NEW p \in Procs, Defer(p) \/ Queue(p)
       PROVE  PassedOn
    <2>1. CASE Defer(p)
      BY <2>1, DeferringPcs, SMTT(30), SMTT(60) DEF FrameTypes, PassedOn,
         DeferredTrusted, HoldsShared, HoldsTrusted, ContextInv, Defer, Go, frame
    <2>2. CASE Queue(p)
      BY <2>2, DeferringPcs, ZenonT(30) DEF FrameTypes, PassedOn, DeferredTrusted,
         HoldsShared, HoldsTrusted, ContextInv, Go, Queue, UnlockReturns,
         DropReturns, Put, frame
    <2> QED
      BY <1>11, <2>1, <2>2
  <1>12. ASSUME NEW p \in Procs, Drop(p) \/ DropClose(p) \/ DropSet(p)
       PROVE  PassedOn
    <2>1. CASE Drop(p)
      BY <2>1, DroppingPcs, Zenon DEF FrameTypes, PassedOn, HoldsShared,
         HoldsTrusted, Drop, Go, Put, DropReturns, frame
    <2>2. CASE DropClose(p)
      BY <2>2, DroppingPcs, Zenon DEF FrameTypes, PassedOn, HoldsShared,
         HoldsTrusted, Go, DropClose, frame
    <2>3. CASE DropSet(p)
      BY <2>3, DroppingPcs, Zenon DEF FrameTypes, PassedOn, HoldsShared,
         HoldsTrusted, Go, Put, DropSet, frame
    <2> QED
      BY <1>12, <2>1, <2>2, <2>3
  <1>13. ASSUME NEW p \in Procs, Close(p) \/ ClosePending(p) \/ CloseDone(p)
       PROVE  PassedOn
    BY <1>13, ClosingPcs, Zenon DEF FrameTypes, PassedOn, HoldsShared, HoldsTrusted,
       Close, Go, ClosePending, CloseDone, Put, frame
  <1>14. ASSUME NEW c \in Closers, NEW e \in Eps, CloseEndpoint(c, e)
       PROVE  PassedOn
    BY <1>14, EndpointPcs, Zenon DEF FrameTypes, PassedOn, HoldsShared,
       HoldsTrusted, CloseEndpoint, Go, frame
  <1>15. ASSUME NEW p \in Closers \cup Irqs, TryTrusted(p) \/ TryRead(p)
              \/ TryCas(p)
       PROVE  PassedOn
    <2>1. CASE TryTrusted(p)
      BY <2>1, TryingPcs, Zenon DEF FrameTypes, PassedOn, CopyInv, HoldsShared,
         HoldsTrusted, TryTrusted, Go, frame
    <2>2. CASE TryRead(p)
      BY <2>2, TryingPcs, Zenon DEF FrameTypes, PassedOn, CopyInv, HoldsShared,
         HoldsTrusted, Go, TryRead, Put, frame
    <2>3. CASE TryCas(p)
      BY <2>3, TryingPcs, SMTT(30), SMTT(60) DEF FrameTypes, PassedOn, CopyInv,
         HoldsShared, HoldsTrusted, Go, Put, TryCas, frame
    <2> QED
      BY <1>15, <2>1, <2>2, <2>3
  <1>16. ASSUME NEW p \in Closers \cup Irqs, TryFailed(p) \/ SetShared(p)
              \/ SetTrusted(p)
       PROVE  PassedOn
    BY <1>16, AskingPcs, Zenon DEF FrameTypes, PassedOn, HoldsShared, HoldsTrusted,
       TryFailed, Go, SetShared, Wanted, SetTrusted, frame
  <1>17. ASSUME NEW i \in Irqs, Arrive(i) \/ Interrupt(i) \/ IrqEntry(i)
              \/ IrqSetBit(i) \/ IrqTestBit(i)
       PROVE  PassedOn
    BY <1>17, InterruptsPcs, Zenon DEF FrameTypes, PassedOn, HoldsShared,
       HoldsTrusted, Arrive, Interrupt, Go, IrqEntry, IrqSetBit, IrqTestBit, frame
  <1>18. ASSUME NEW i \in Irqs, IrqPoll(i)
       PROVE  PassedOn
    BY <1>18, IrqPollingPcs, IrqPollEffect, Zenon DEF FrameTypes, PassedOn,
       HoldsShared, HoldsTrusted
  <1>19. ASSUME NEW i \in Irqs, IrqPrime(i) \/ IrqPrimeTrusted(i) \/ IrqPrimeSelf(i)
       PROVE  PassedOn
    BY <1>19, PrimingPcs, Zenon DEF FrameTypes, PassedOn, HoldsShared, HoldsTrusted,
       IrqPrime, Go, IrqPrimeTrusted, IrqPrimeSelf, frame
  <1>20. ASSUME WorkStart \/ WorkUntrusted \/ WorkTrusted \/ WorkPoll \/ WorkPrime
       PROVE  PassedOn
    BY <1>20, WorkingPcs, Zenon DEF FrameTypes, PassedOn, DeferredTrusted,
       HoldsShared, HoldsTrusted, DeferInv, RunsShared, RunsTrusted, WorkStart, Go,
       WorkUntrusted, WorkTrusted, Put, WorkPoll, WorkPrime, frame
  <1> QED
    BY <1>1, <1>2, <1>3, <1>4, <1>5, <1>6, <1>7, <1>8, <1>9, <1>10, <1>11, <1>12,
       <1>13, <1>14, <1>15, <1>16, <1>17, <1>18, <1>19, <1>20, NextSteps, Zenon

=============================================================================
