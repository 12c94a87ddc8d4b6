\* A Codex project on a server that crashes and is restarted: retries.
CONSTANTS
  p1 = p1
  p2 = p2
  Process <- TwoProcesses
  NoProcess = NoProcess
  Engine = "codex"
  MaxUp = 1
  RetryDelays = 1
  MaxMessages = 0
  MaxRuns = 3
  MaxCommands = 2
  MaxChanges = 0
  MaxStalls = 0
SPECIFICATION FairSpec
INVARIANT RetryBounded
PROPERTY RetryHappens
CHECK_DEADLOCK FALSE
