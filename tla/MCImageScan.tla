----------------------------- MODULE MCImageScan -----------------------------
(* Instances of ImageScan for TLC.                                         *)
EXTENDS ImageScan, TLC

CONSTANTS s1, s2, app, os, p1, v1, l1, l2, l3

Content(ps, ls) == [packages |-> ps, layers |-> ls]

\* An application that is offered for one platform only, on a base image that
\* is offered for both with different contents.
OneBase ==
    app :> <<NoContent, Content({p1}, <<l2, l3>>)>>
    @@ os :> <<Content({}, <<l2, l1>>), Content({p1}, <<l2>>)>>

OneVulnerable == p1 :> {v1}

ScannerSymmetry == Permutations(Scanners)
=============================================================================
