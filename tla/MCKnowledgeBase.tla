-------------------------- MODULE MCKnowledgeBase --------------------------
(* Small instances of KnowledgeBase for TLC. *)
EXTENDS KnowledgeBase, TLC

CONSTANTS w1, w2

TwoWriters == {w1, w2}
ReviewedKinds == {"H", "E", "F", "CR", "SR"}
TwoSlugs == {1, 2}

\* Runs differ only by name.
WriterSymmetry == Permutations(TwoWriters)

=============================================================================
