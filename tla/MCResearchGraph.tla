-------------------------- MODULE MCResearchGraph --------------------------
(* A small instance of ResearchGraph for TLC. *)
EXTENDS ResearchGraph, TLC

CONSTANTS t1, t2, laneA, laneB

TwoTransactions == {t1, t2}
TwoLanes == {laneA, laneB}

\* Sessions and lanes differ only by name.
GraphSymmetry == Permutations(TwoLanes) \cup Permutations(TwoTransactions)

=============================================================================
