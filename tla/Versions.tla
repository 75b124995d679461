------------------------------ MODULE Versions ------------------------------
(***************************************************************************)
(* The order among the versions of one logical source                      *)
(* (app/nrb/supersession.py: Sibling.order_key, _lock_siblings,            *)
(* plan_promotion).  Documents are numbered in created_at order, so        *)
(* order_key is the number itself.                                         *)
(***************************************************************************)
EXTENDS Naturals

CONSTANTS
    Docs,        \* documents rows, numbered in created_at order
    NoSource,    \* the source of a document without origin "nrb" or a key
    SourceOf     \* the comparison_key of each document, or NoSource

ASSUME VersionsAssumption == Docs \subseteq Nat \ {0}

\* The other versions of d's logical source; an ordinary upload has none.
Siblings(d) ==
    {e \in Docs \ {d} : SourceOf[d] # NoSource /\ SourceOf[e] = SourceOf[d]}

Older(d) == {e \in Siblings(d) : e < d}

Newer(d) == {e \in Siblings(d) : e > d}

=============================================================================
