---------------------------- MODULE MCMacvlanCni ----------------------------
(* Instances of MacvlanCni for TLC: sandbox s1 has a device of n1 and s2 one *)
(* of n2.  n1 has an IPv4 and an IPv6 address, n2 two IPv4 addresses.        *)
EXTENDS MacvlanCni

CONSTANTS s1, s2, n1, n2, a4, a6, b4, c4

MCNicOf == [s \in Sandboxes |-> IF s = s1 THEN n1 ELSE n2]
MCAddrsOf == [n \in Nics |-> IF n = n1 THEN {a4, a6} ELSE {b4, c4}]

=============================================================================
