--------------------------- MODULE MCViAllocator ---------------------------
(* An instance of ViAllocator for TLC: two interfaces, of which server v1   *)
(* has both and v2 has the second one.                                      *)
EXTENDS ViAllocator, TLC

CONSTANTS n1, n2, v1, v2

SharedNic == {<<v1, n1>>, <<v1, n2>>, <<v2, n2>>}
AnyPod == Permutations(Pods)

=============================================================================
