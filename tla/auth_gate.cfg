\* Three threads make three requests.
CONSTANTS
  c1 = c1
  c2 = c2
  c3 = c3
  Environment <- ThreeEnvironments
  Stored = {"none", "chatgpt"}
  Caller <- ThreeCallers
  Nobody = Nobody
  Command = {1, 2}
  MaxRequests = 3
  MaxAttempts = 2
  MaxUnavailable = 1
  MaxSpawnFailures = 1
  MaxRestarts = 1
SPECIFICATION FairSpec
INVARIANTS ChangesExclude TurnKeepsCredential
PROPERTIES CredentialContract PreservesLoginWhenRead EveryoneAnswered
CHECK_DEADLOCK FALSE
