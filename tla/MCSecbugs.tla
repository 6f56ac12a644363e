------------------------------ MODULE MCSecbugs ------------------------------
(* Instances of Secbugs for TLC.                                           *)
EXTENDS Secbugs, TLC

CONSTANTS b1, b2, r1, n1, s1, s2, c1, c2

Issue(name, fields) == [name |-> name, fields |-> fields]
SomeData == {Issue(n1, "good"), Issue(NoName, "missing"), Issue(NoName, "long")}

\* The name of every repository.
SameName == [r \in Repositories |-> n1]
=============================================================================
