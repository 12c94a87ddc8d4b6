\* Two processes of the telemetry client.
CONSTANTS
  p1 = p1
  p2 = p2
  Process <- TwoProcesses
  Stored <- StoredConfigs
  Commands <- GivenCommands
  MaxCommands = 3
  MaxEvents = 2
  MaxSessions = 2
  MaxFailures = 1
SYMMETRY ProcessSymmetry
SPECIFICATION Spec
INVARIANTS EachOnce NumbersDiffer DeclineHolds
CHECK_DEADLOCK FALSE
