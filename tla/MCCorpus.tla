------------------------------ MODULE MCCorpus ------------------------------
(* Instances of Corpus for TLC.                                            *)
EXTENDS Corpus, TLC

CONSTANTS p1, p2, a, b

\* Two rows that may come to share bytes, one of them without a usable extension.
OddAndPdf == 1 :> "odd" @@ 2 :> "pdf"

Symmetry == Permutations(Passes) \union Permutations(Bytes)
=============================================================================
