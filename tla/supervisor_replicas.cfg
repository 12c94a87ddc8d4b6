\* A Codex project on two server processes at once, one of which may stall.
CONSTANTS
  p1 = p1
  p2 = p2
  Process <- TwoProcesses
  NoProcess = NoProcess
  Engine = "codex"
  MaxUp = 2
  RetryDelays = 1
  MaxMessages = 0
  MaxRuns = 1
  MaxCommands = 2
  MaxChanges = 0
  MaxStalls = 1
SYMMETRY ProcessSymmetry
SPECIFICATION Spec
INVARIANT OneTurn
PROPERTIES LifecycleContract OnlyPeopleResume
CHECK_DEADLOCK FALSE
