\* Two requests at once and two live sockets; nobody is an administrator.
SPECIFICATION Spec
CONSTANTS
  ann = ann
  bob = bob
  q1 = q1
  q2 = q2
  k1 = k1
  k2 = k2
  Subject <- TwoPeople
  ProjectAdmin = {}
  InstanceAdmin = {}
  Request <- TwoRequests
  Socket <- TwoSockets
  NoOne = NoOne
  Commands <- GivenCommands
  MaxRequests = 2
  MaxTickets = 1
  MaxKills = 1
SYMMETRY HandlerSymmetry
INVARIANTS OnlyDraftsDeadlock OwnerRemains TeamTrail TicketOnce ActsByRole KickoffSettled
PROPERTIES RosterContract
CHECK_DEADLOCK FALSE
