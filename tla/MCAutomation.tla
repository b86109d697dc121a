---------------------------- MODULE MCAutomation ----------------------------
(***************************************************************************)
(* Small instances, for TLC, of what works by itself on a deployment: the  *)
(* stream and its claim jobs, the release of a timelock, the charging of a *)
(* subscription, and the fee budget of the TTL maintenance.  They share no *)
(* state, so every behaviour works one of them while the others rest.      *)
(***************************************************************************)
EXTENDS StreamerJobs, TimelockRelease, SubscriptionCharge, FeeBudget, TLC
CONSTANTS h1, h2, h3

VARIABLE works       \* what this behaviour works on

autoVars == <<works, sjVars, tlVars, subAll, fbVars>>

\* Two recipients, of whom the first's share is rounded down.
MCShares == <<3300, 6700>>
MCFees   == (h1 :> 1) @@ (h2 :> 2) @@ (h3 :> 2)

\* Processes differ in nothing but their name.
ProcessSymmetry == Permutations(Runners)

\* A stream that is paid for and runs to its end, with its claim jobs, of which
\* the confirmation of the deployment has made the first.
PaidStream ==
  /\ now = 0 /\ active = 0
  /\ claimed = 0 /\ paused = FALSE /\ pausedAt = 0 /\ pauseOffset = 0
  /\ pauseAllowed = FALSE /\ retrieveAllowed = FALSE
  /\ deposits = MaxDeposits
  /\ \E amount \in Deposits : funded = MaxDeposits * amount
  /\ balance = funded /\ returned = 0
  /\ paid = [i \in DOMAIN Shares |-> 0]
  /\ serviceState = "ACTIVE"
  /\ jobs = [j \in JobIds |->
               IF j = 1 THEN [status |-> "PENDING", runAt |-> Start, attempts |-> 0]
               ELSE NoJob]
  /\ runner = [r \in Runners |-> AtRest]
  /\ schedules = 1 /\ losses = 0

StreamRests       == SJInit /\ pauseAllowed = FALSE /\ retrieveAllowed = FALSE
TimelockRests     == TLInit /\ kind = "after" /\ dedicated = FALSE
SubscriptionRests == SubInit /\ time = 1 /\ relayer = "user"
NothingIsSpent    == FBInit /\ \A s \in Spenders : spender[s].hash = h1

AutoInit ==
  \/ /\ works = "jobs"
     /\ PaidStream /\ TimelockRests /\ SubscriptionRests /\ NothingIsSpent
  \/ /\ works = "stream"
     /\ SJInit /\ TimelockRests /\ SubscriptionRests /\ NothingIsSpent
  \/ /\ works = "timelock"
     /\ StreamRests /\ TLInit /\ SubscriptionRests /\ NothingIsSpent
  \/ /\ works = "subscription"
     /\ StreamRests /\ TimelockRests /\ SubInit /\ time = 1 /\ NothingIsSpent
  \/ /\ works = "fees"
     /\ StreamRests /\ TimelockRests /\ SubscriptionRests /\ FBInit

StreamRest       == UNCHANGED sjVars
TimelockRest     == UNCHANGED tlVars
SubscriptionRest == UNCHANGED subAll
BudgetRest       == UNCHANGED fbVars

WorkJobs ==
  /\ works = "jobs" /\ UNCHANGED works
  /\ SJNext /\ TimelockRest /\ SubscriptionRest /\ BudgetRest

WorkStream ==
  /\ works = "stream" /\ UNCHANGED works
  /\ StreamerNext /\ UNCHANGED jobVars
  /\ TimelockRest /\ SubscriptionRest /\ BudgetRest

WorkTimelock ==
  /\ works = "timelock" /\ UNCHANGED works
  /\ TLNext /\ StreamRest /\ SubscriptionRest /\ BudgetRest

WorkSubscription ==
  /\ works = "subscription" /\ UNCHANGED works
  /\ SubNext /\ StreamRest /\ TimelockRest /\ BudgetRest

WorkBudget ==
  /\ works = "fees" /\ UNCHANGED works
  /\ FBNext /\ StreamRest /\ TimelockRest /\ SubscriptionRest

AutoNext == WorkJobs \/ WorkStream \/ WorkTimelock \/ WorkSubscription \/ WorkBudget

AutoSpec == AutoInit /\ [][AutoNext]_autoVars
=============================================================================
