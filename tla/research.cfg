\* Two lanes, in two sessions, write one hypothesis, one experiment and one finding.
CONSTANTS
  t1 = t1
  t2 = t2
  laneA = laneA
  laneB = laneB
  Tx <- TwoTransactions
  Lane <- TwoLanes
  MaxPerKind = 1
  MaxVersion = 3
  MaxObserved = 2
  MaxLapses = 2
SYMMETRY GraphSymmetry
SPECIFICATION Spec
INVARIANTS HistoryComplete FindingsRest OneWriter
PROPERTIES EvidenceFrozen RecordContract
CHECK_DEADLOCK FALSE
