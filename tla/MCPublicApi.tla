---------------------------- MODULE MCPublicApi ----------------------------
(* Instances of PublicApi for TLC.                                         *)
EXTENDS PublicApi, TLC

CONSTANTS p1, p2, r1, r2

\* One key expires, the other does not.
MCExpiry == p1 :> Never @@ p2 :> 3

Symmetry == Permutations({r1, r2})
=============================================================================
