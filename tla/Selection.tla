------------------------------ MODULE Selection ------------------------------
(***************************************************************************)
(* The elements of a sequence that belong to a set, in their order: a list *)
(* comprehension with a condition.  It is SelectSeq with a set in the      *)
(* place of a test, and written so that PublicApiProofs can say what it    *)
(* returns.                                                                *)
(***************************************************************************)
EXTENDS Integers, Sequences

Elements(s) == {s[i] : i \in DOMAIN s}

Among(s, K) ==
  LET upTo[i \in 0..Len(s)] ==
        IF i = 0 THEN <<>>
        ELSE IF s[i] \in K THEN Append(upTo[i - 1], s[i])
        ELSE upTo[i - 1]
  IN upTo[Len(s)]
=============================================================================
