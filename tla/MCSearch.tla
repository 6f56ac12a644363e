------------------------------ MODULE MCSearch ------------------------------
(* Instances of SafeVersionSearch for TLC.                                 *)
EXTENDS SafeVersionSearch

\* Two counts suffice: only zero or not is ever looked at.
TwoCounts == {0, 2}
=============================================================================
