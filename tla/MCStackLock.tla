---------------------------- MODULE MCStackLock ----------------------------
(* Instances of StackLock for TLC.                                          *)
EXTENDS StackLock, TLC

\* Threads are interchangeable, and so are interfaces and endpoints.
Symmetry == Permutations(Users) \cup Permutations(Irqs) \cup Permutations(Eps)

=============================================================================
