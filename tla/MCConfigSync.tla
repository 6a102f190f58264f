---------------------------- MODULE MCConfigSync ----------------------------
(* A small node: two built-in resources, one of each kind, and three        *)
(* generated ones.  The contents of nic.conf differ in the order of parent  *)
(* and child, in the constructor that is inherited, in the parent of the    *)
(* same resource, in which entry has the allocator's address, and one is    *)
(* not valid YAML.                                                          *)
EXTENDS ConfigSync, TLC

CONSTANTS vsfc, mem, gw, sub, plain, chain, swapped, other, broken

E(r, p, a) == [resource |-> r, parent |-> p, addr |-> a]

MCResources == {vsfc, mem, gw, sub}

MCBuiltin ==
    (vsfc :> "NewPlugin") @@ (mem :> "NewMemVSfcPlugin")
      @@ [r \in {gw, sub} |-> "absent"]

MCContents == {plain, chain, swapped, other, broken}

\* The liveness runs: fewer contents, since TLC keeps the whole graph.
FewContents == {chain, swapped}

MCParse ==
    (plain   :> <<E(gw, vsfc, FALSE), E(gw, vsfc, FALSE)>>)
 @@ (chain   :> <<E(gw, mem, TRUE), E(sub, gw, TRUE)>>)
 @@ (swapped :> <<E(sub, gw, FALSE), E(gw, sub, FALSE), E(gw, vsfc, FALSE)>>)
 @@ (other   :> <<E(mem, NoParent, FALSE), E(sub, vsfc, TRUE)>>)
 @@ (broken  :> Garbage)

FewParse == [c \in FewContents |-> MCParse[c]]

=============================================================================
