\* Four requests, two at once, about one name or id of every table.
SPECIFICATION Spec
CONSTANTS
  r1 = r1
  r2 = r2
  n1 = n1
  Request <- TwoRequests
  Names <- OneName
  Asks <- GivenAsks
  MaxRequests = 4
  MaxKills = 1
SYMMETRY RequestSymmetry
INVARIANTS AnswerStands UploadBacked
PROPERTIES LedgerContract
CHECK_DEADLOCK FALSE
