\* A Codex project on one server process and its restart.
CONSTANTS
  p1 = p1
  p2 = p2
  Process <- TwoProcesses
  NoProcess = NoProcess
  Engine = "codex"
  MaxUp = 1
  RetryDelays = 1
  MaxMessages = 1
  MaxRuns = 2
  MaxCommands = 2
  MaxChanges = 1
  MaxStalls = 0
SYMMETRY ProcessSymmetry
SPECIFICATION Spec
INVARIANTS TypeOK ActiveHasLoop RunsSettled AcknowledgedWasDelivered
PROPERTY CheckpointsOnlyAdvance
CHECK_DEADLOCK FALSE
