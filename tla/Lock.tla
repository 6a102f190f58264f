-------------------------------- MODULE Lock --------------------------------
(***************************************************************************)
(* What a lock of the stack promises, whatever bits it is made of: it is   *)
(* taken only when nobody has it, only its owner gives it up, and the one  *)
(* way it changes hands without being free in between is that one of       *)
(* Givers (handlers that must not sleep) leaves it to Taker (the work item *)
(* that finishes the handler's job).                                       *)
(***************************************************************************)
CONSTANTS Procs, Givers, Taker

VARIABLE owners  \* the processes that have the lock

Init == owners = {}

Acquire(p) == owners = {} /\ owners' = {p}

Release(p) == owners = {p} /\ owners' = {}

HandOver(p) == owners = {p} /\ owners' = {Taker}

Next ==
    \/ \E p \in Procs : Acquire(p) \/ Release(p)
    \/ \E p \in Givers : HandOver(p)

Spec == Init /\ [][Next]_owners

=============================================================================
