----------------------------- MODULE MCCatalog -----------------------------
(* Instances of Catalog for TLC.                                           *)
EXTENDS Catalog, TLC

CONSTANTS p1, p2, s1, s2, s3, f1, f2

Symmetry == Permutations(Procs) \union Permutations(Sources)
=============================================================================
