\* Two processes work on a stream, a timelock or a subscription, three on a budget.
SPECIFICATION AutoSpec
CONSTANTS
  h1 = h1  h2 = h2  h3 = h3
  \* the stream: jobs at 1 and at 3, and a second beyond the end
  Start = 1
  End = 3
  Interval = 2
  Horizon = 4
  Rate = 3
  Shares <- MCShares
  Deposits = {4}
  MaxDeposits = 2
  Runners = {p, q}
  MaxJobs = 2
  MaxAttempts = 1
  MaxIncidents = 2
  \* the timelock: two fundings around its unlock time
  Unlock = 2
  LastLedger = 4
  Probers = {p, q}
  MaxFundings = 2
  MaxFailures = 1
  LeaseTime = 1
  RetryTime = 1
  BackoffTime = 2
  \* the subscription: two periods that one run may catch up on, and its end
  FirstCharge = 0
  Period = 1
  EndTime = 2
  LastTime = 2
  MaxCatchup = 2
  MaxChoices = 1
  MaxApproved = 1
  Crons = {p, q}
  NoCron = NoCron
  \* the budget: fees of 1, 2 and 2 that 3 does not cover and 5 does
  Spenders = {s1, s2, s3}
  Fees <- MCFees
  Limits = {3, 5}
  MaxTries = 2
SYMMETRY ProcessSymmetry
INVARIANTS StreamPaysAccrued StreamKeepsAJob SettledBeforeFunded FundsAreRemembered LeaseIsExclusive DueIsNeverHidden OwnerChoiceStands ReservedWithinBudget
CHECK_DEADLOCK FALSE
