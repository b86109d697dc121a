\* Four calls of one key; two submit requests, a cron and the owner, one of whom dies.
SPECIFICATION SubmissionSpec
CONSTANTS
  c1 = c1
  c2 = c2
  c3 = c3
  c4 = c4
  Calls = {c1, c2, c3, c4}
  Request <- Requests
  None = None
  Submitters = {s1, s2}
  Crons = {cron}
  Owners = {owner}
  MaxTime = 2
  LastLedger = 4
  MaxDeaths = 1
INVARIANTS PaidAtMostOnce RefusalIsHonest DeploymentIsTrue HandedBackIsUntaken FirstClaimAskedOnce
PROPERTIES PayoutIsAsPromised SuccessIsConfirmed
CHECK_DEADLOCK FALSE
