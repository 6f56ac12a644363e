------------------------------ MODULE MCIssues ------------------------------
(* Instances of Issues for TLC.                                            *)
EXTENDS Issues, TLC

CONSTANTS p, q, c1, c2, a, b

\* p has two CVEs, of which one is critical; q may only have a vulnerability
\* without a CVE.
SomeFindings == p :> {{}, {c1, c2}} @@ q :> {{NoCve}}
Api == c1 :> 9 @@ c2 :> 1

RunSymmetry == Permutations(Runs)
=============================================================================
