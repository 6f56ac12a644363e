------------------------------ MODULE MCBridge ------------------------------
(* Instances of Bridge for TLC.                                            *)
EXTENDS Bridge, TLC

CONSTANTS k1, k2, r1, r2, d1, d2, i1, i2, c1, c2, t1

\* A build of two images, and one of them built in another repository too.
TwoBuilds == {
    [repository |-> r1, commit |-> c1, tag |-> c1, images |-> {k1, k2}],
    [repository |-> r2, commit |-> c2, tag |-> t1, images |-> {k1}]}

\* Two platforms of the same name.
OneName == [k \in Keys |-> "name"]

BridgeSymmetry == Permutations(Daemons) \union Permutations(RowIds)
=============================================================================
