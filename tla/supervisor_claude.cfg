\* A Claude Code project on one server process.
CONSTANTS
  p1 = p1
  p2 = p2
  Process <- OneProcess
  NoProcess = NoProcess
  Engine = "claude-code"
  MaxUp = 1
  RetryDelays = 1
  MaxMessages = 1
  MaxRuns = 2
  MaxCommands = 3
  MaxChanges = 1
  MaxStalls = 0
SPECIFICATION FairSpec
INVARIANTS HaltReachesTurn ChangeReachesTurn
PROPERTY HaltEndsTurn
CHECK_DEADLOCK FALSE
