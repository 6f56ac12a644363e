----------------------------- MODULE MCCatalog -----------------------------
(* Instances of Catalog for TLC.                                           *)
EXTENDS Catalog, TLC

CONSTANTS p1, p2, s1, s2, f1, k1

TwoCounts == {0, 2}

\* One package with two versions, the older one in use.
OneLibrary == {<<p1, 1>>, <<p1, 2>>}
OldInUse == {<<p1, 1>>}

ScannerSymmetry == Permutations(Scanners)
=============================================================================
