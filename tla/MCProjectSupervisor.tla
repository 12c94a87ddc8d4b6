------------------------ MODULE MCProjectSupervisor ------------------------
(* Small instances of ProjectSupervisor for TLC. *)
EXTENDS ProjectSupervisor, TLC

CONSTANTS p1, p2

OneProcess == {p1}
TwoProcesses == {p1, p2}

\* Processes differ only by name.
ProcessSymmetry == Permutations(TwoProcesses)

=============================================================================
