\* A crash in the turn that retries.
CONSTANTS
  p1 = p1
  p2 = p2
  Process <- TwoProcesses
  NoProcess = NoProcess
  Engine = "codex"
  MaxUp = 1
  RetryDelays = 1
  MaxMessages = 0
  MaxRuns = 2
  MaxCommands = 1
  MaxChanges = 0
  MaxStalls = 0
SYMMETRY ProcessSymmetry
SPECIFICATION Spec
INVARIANT RetryStaysScheduled
CHECK_DEADLOCK FALSE
