---------------------------- MODULE StreamerJobs ----------------------------
(***************************************************************************)
(* The claim jobs of one streamer: lib/streamer-jobs.ts, which keeps the   *)
(* StreamerClaimJob rows, and the cron that works them off,                *)
(* app/api/cron/process-streamer-jobs/route.ts.                            *)
(*                                                                         *)
(* A job asks for one claim at a vesting milestone; when it ends, the run  *)
(* that worked on it makes the job of the next milestone.  Nothing else    *)
(* makes jobs but the confirmation of the deployment and the operator's    *)
(* backfill script, so a broken chain stays broken.  The cron holds no     *)
(* lease: two runs may work at once, and each await is a step that may     *)
(* throw.                                                                  *)
(***************************************************************************)
EXTENDS Streamer

CONSTANTS
  Runners,           \* processes: cron runs, the confirmation, the script
  MaxJobs,           \* bound on the rows made
  MaxAttempts,       \* MAX_RETRY_ATTEMPTS
  MaxIncidents       \* bound on confirmations, backfills, losses, retirements

ASSUME StreamerJobsAssumption ==
  /\ MaxJobs \in Nat
  /\ MaxAttempts \in Nat
  /\ MaxIncidents \in Nat

VARIABLES
  serviceState,      \* Deployment.serviceState
  jobs,              \* jobs[j]: the row number j, in order of creation
  runner,            \* runner[r]: where the process r is
  schedules,         \* confirmations and backfills begun
  losses             \* runs that died, or that an error ended

jobVars == <<serviceState, jobs, runner, schedules, losses>>
sjVars  == <<streamVars, jobVars>>

JobIds   == 1 .. MaxJobs
Terminal == {"CLAIMED", "SKIPPED", "FAILED", "CANCELLED"}
TxStates == {"none", "queued", "SUCCESS", "FAILED"}
RunnerStates ==
  {"idle", "choosing", "admitted", "reading", "sending", "waiting",
   "finding", "creating", "catching"}

NoJob  == [status |-> "none", runAt |-> 0, attempts |-> 0]
AtRest == [pc |-> "idle", due |-> {}, job |-> 0, runAt |-> 0, attempts |-> 0,
           tx |-> "none", caught |-> FALSE]

\* What a run keeps of a job it has selected: the row as it was then.
Selections == [job : JobIds, runAt : Nat, attempts : Nat]
SelectedJob(j) == [job |-> j, runAt |-> jobs[j].runAt, attempts |-> jobs[j].attempts]

Made(j) == jobs[j].status # "none"
Open(j) == Made(j) /\ jobs[j].status \notin Terminal

SJTypeOK ==
  /\ serviceState \in {"ACTIVE", "RETIRING"}
  /\ jobs \in [JobIds -> [status : Terminal \cup {"none", "PENDING", "RUNNING"},
                          runAt : Nat, attempts : Nat]]
  /\ runner \in [Runners -> [pc : RunnerStates, due : SUBSET Selections,
                             job : {0} \cup JobIds, runAt : Nat,
                             attempts : Nat, tx : TxStates,
                             caught : BOOLEAN]]
  /\ \A i, j \in JobIds : i < j /\ Made(j) => Made(i)

SJInit ==
  /\ StreamerInit
  /\ serviceState = "ACTIVE"
  /\ jobs = [j \in JobIds |-> NoJob]
  /\ runner = [r \in Runners |-> AtRest]
  /\ schedules = 0
  /\ losses = 0

\* What the bound MaxIncidents counts.
Incidents == schedules + losses + (IF serviceState = "ACTIVE" THEN 0 ELSE 1)

SetRunner(r, next) == runner' = [runner EXCEPT ![r] = next]
Goto(r, pc)     == SetRunner(r, [runner[r] EXCEPT !.pc = pc])
\* Done with one job: on to the rest of the list, if there is any.
WorkThrough(due) ==
  IF due = {} THEN AtRest ELSE [AtRest EXCEPT !.pc = "choosing", !.due = due]
Resume(r)       == SetRunner(r, WorkThrough(runner[r].due))

\* Done with a job that has ended: the next one is to be scheduled first, in
\* the try or, when nothing is left that could rewrite the job, in the catch.
Handover(r, caught) ==
  LET rest == [AtRest EXCEPT !.pc = "finding", !.due = runner[r].due]
  IN  SetRunner(r, IF caught THEN [rest EXCEPT !.caught = TRUE]
                   ELSE [rest EXCEPT !.job = runner[r].job,
                                     !.attempts = runner[r].attempts])

-----------------------------------------------------------------------------
(* lib/streamer-jobs.ts                                                    *)

NoMilestone == 0 - 1

\* computeNextMilestone, at the time t: the start before the window, then the
\* end of the interval that is running, and none once the window is over.
NextMilestone(t) ==
  LET next == Start + ((t - Start) \div Interval + 1) * Interval
  IN  IF t < Start THEN Start
      ELSE IF t >= End \/ next > End THEN NoMilestone
      ELSE next

\* getDueStreamerJobs
DueJobs == {j \in JobIds : /\ jobs[j].status = "PENDING"
                           /\ serviceState = "ACTIVE"
                           /\ jobs[j].runAt <= now}

\* scheduleNextStreamerClaimJob up to its findFirst: nothing to schedule, a
\* job that is still open, or a row to make.
FindNext(r) ==
  /\ runner[r].pc = "finding"
  /\ LET next == NextMilestone(now)
         settled == \/ serviceState # "ACTIVE"
                    \/ next = NoMilestone
                    \/ \E j \in JobIds : Open(j)
     IN  IF settled
         THEN Resume(r)
         ELSE SetRunner(r, [runner[r] EXCEPT !.pc = "creating", !.runAt = next])
  /\ UNCHANGED <<streamVars, serviceState, jobs, schedules, losses>>

\* ... and its create.
MakeJob(runAt) ==
  \E j \in JobIds :
    /\ ~Made(j) /\ \A i \in JobIds : i < j => Made(i)
    /\ jobs' = [jobs EXCEPT ![j] = [status |-> "PENDING", runAt |-> runAt,
                                    attempts |-> 0]]

CreateNext(r) ==
  /\ runner[r].pc = "creating"
  /\ MakeJob(runner[r].runAt)
  /\ Resume(r)
  /\ UNCHANGED <<streamVars, serviceState, schedules, losses>>

\* confirmDeployment and scripts/backfill-streamer-claim-jobs.ts do nothing
\* else with the jobs than to schedule the next one.  Neither has a catch that
\* tries again.
BeginScheduling(r) ==
  /\ runner[r].pc = "idle"
  /\ Incidents < MaxIncidents
  /\ schedules' = schedules + 1
  /\ SetRunner(r, [AtRest EXCEPT !.pc = "finding", !.caught = TRUE])
  /\ UNCHANGED <<streamVars, serviceState, jobs, losses>>

-----------------------------------------------------------------------------
(* app/api/cron/process-streamer-jobs/route.ts                             *)

\* A run reads the jobs that are due once, and works through that list.
SelectDueJobs(r) ==
  /\ runner[r].pc = "idle"
  /\ DueJobs # {}
  /\ SetRunner(r, WorkThrough({SelectedJob(j) : j \in DueJobs}))
  /\ UNCHANGED <<streamVars, serviceState, jobs, schedules, losses>>

\* The next job of the list, oldest first; runDeploymentWork admits the work
\* of an active deployment only and skips the job otherwise.
NextJob(r) ==
  /\ runner[r].pc = "choosing"
  /\ \E row \in runner[r].due :
        /\ \A other \in runner[r].due : row.runAt <= other.runAt
        /\ SetRunner(r, IF serviceState = "ACTIVE"
                     THEN [AtRest EXCEPT !.pc = "admitted", !.job = row.job,
                                         !.attempts = row.attempts,
                                         !.due = runner[r].due \ {row}]
                     ELSE WorkThrough(runner[r].due \ {row}))
  /\ UNCHANGED <<streamVars, serviceState, jobs, schedules, losses>>

\* The updateMany that takes the job, for one run only.
TakeJob(r) ==
  /\ runner[r].pc = "admitted"
  /\ LET j == runner[r].job
     IN  IF jobs[j].status = "PENDING"
         THEN /\ jobs' = [jobs EXCEPT ![j].status = "RUNNING"]
              /\ Goto(r, "reading")
         ELSE /\ Resume(r)
              /\ UNCHANGED jobs
  /\ UNCHANGED <<streamVars, serviceState, schedules, losses>>

\* The end of the attempt: the row is written whatever has happened to it
\* meanwhile.  A job that may be retried waits a minute per attempt, as many
\* as the run saw when it selected the job, every other end schedules the next.
Conclude(r, v, caught) ==
  LET j == runner[r].job
  IN  IF v = "RETRY"
      THEN /\ jobs' = [jobs EXCEPT
                 ![j] = [status |-> "PENDING",
                         runAt |-> now + runner[r].attempts + 1,
                         attempts |-> @.attempts + 1]]
           /\ Resume(r)
      ELSE /\ jobs' = [jobs EXCEPT ![j].status = v]
           /\ Handover(r, caught)

\* What becomes of the job of an attempt that failed: the messages
\* isRetryableError knows get it another try while attempts are left.
FailureVerdicts(r) ==
  {"FAILED"} \cup (IF runner[r].attempts < MaxAttempts THEN {"RETRY"} ELSE {})

\* readStreamerAvailable, and the end of the attempt when nothing is there.
ReadAvailable(r) ==
  /\ runner[r].pc = "reading"
  /\ Accountable
  /\ IF Available <= 0 THEN Conclude(r, "SKIPPED", FALSE)
     ELSE Goto(r, "sending") /\ UNCHANGED jobs
  /\ UNCHANGED <<streamVars, serviceState, schedules, losses>>

\* prepareStreamerClaimByRelayerTx and sendTransaction: the claim is simulated
\* again, and a refusal throws.
SendClaim(r) ==
  /\ runner[r].pc = "sending"
  /\ IF ClaimSucceeds
     THEN SetRunner(r, [runner[r] EXCEPT !.pc = "waiting", !.tx = "queued"])
     ELSE Goto(r, "catching")
  /\ UNCHANGED <<streamVars, serviceState, jobs, schedules, losses>>

\* The network applies the claim, or fails it.
LandClaim(r) ==
  /\ runner[r].tx = "queued"
  /\ \/ Claim /\ SetRunner(r, [runner[r] EXCEPT !.tx = "SUCCESS"])
     \/ /\ ~ClaimSucceeds
        /\ SetRunner(r, [runner[r] EXCEPT !.tx = "FAILED"])
        /\ UNCHANGED streamVars
  /\ UNCHANGED <<serviceState, jobs, schedules, losses>>

\* submitStreamerClaimByRelayerTx sees the claim succeed,
SeeSuccess(r) ==
  /\ runner[r].pc = "waiting"
  /\ runner[r].tx = "SUCCESS"
  /\ Conclude(r, "CLAIMED", FALSE)
  /\ UNCHANGED <<streamVars, serviceState, schedules, losses>>

\* ... or answers that it did not: the node refuses it, the ledger failed it,
\* or 30 seconds pass.  Nobody waits for the claim any more, and when it lands
\* later it is one that anyone may have made.
SubmissionFails(r) ==
  /\ runner[r].pc \in {"sending", "waiting"}
  /\ \E v \in FailureVerdicts(r) : Conclude(r, v, FALSE)
  /\ UNCHANGED <<streamVars, serviceState, schedules, losses>>

\* Anything the try awaits may throw, the write of the attempt's end too.
AttemptThrows(r) ==
  /\ runner[r].pc \in {"reading", "sending", "waiting"}
  /\ SetRunner(r, [runner[r] EXCEPT !.pc = "catching", !.tx = "none"])
  /\ UNCHANGED <<streamVars, serviceState, jobs, schedules, losses>>

\* So may the scheduling of the next job after the row has been written, before
\* the next job is made or after it, when only the answer is lost.
SchedulingThrows(r) ==
  /\ runner[r].pc \in {"finding", "creating"}
  /\ ~runner[r].caught
  /\ \/ UNCHANGED jobs
     \/ runner[r].pc = "creating" /\ MakeJob(runner[r].runAt)
  /\ SetRunner(r, [runner[r] EXCEPT !.pc = "catching", !.runAt = 0])
  /\ UNCHANGED <<streamVars, serviceState, schedules, losses>>

\* Mutant of CatchError: the catch writes the row and schedules nothing.
CatchForgets(r) ==
  /\ runner[r].pc = "catching"
  /\ \E v \in FailureVerdicts(r) \cup {"SKIPPED"} :
        jobs' = [jobs EXCEPT ![runner[r].job].status =
                   IF v = "RETRY" THEN "PENDING" ELSE v]
  /\ Resume(r)
  /\ UNCHANGED <<streamVars, serviceState, schedules, losses>>

\* The catch: it writes the end of the attempt over whatever the row says, the
\* end that the try may have written included, and schedules the next job.
CatchError(r) ==
  /\ runner[r].pc = "catching"
  /\ \E v \in FailureVerdicts(r) \cup {"SKIPPED"} : Conclude(r, v, TRUE)
  /\ UNCHANGED <<streamVars, serviceState, schedules, losses>>

-----------------------------------------------------------------------------
(* The environment                                                         *)

\* lib/deployments/retirement.ts: the jobs not begun are cancelled.
RequestRetirement ==
  /\ serviceState = "ACTIVE"
  /\ Incidents < MaxIncidents
  /\ serviceState' = "RETIRING"
  /\ jobs' = [j \in JobIds |-> IF jobs[j].status = "PENDING"
                               THEN [jobs[j] EXCEPT !.status = "CANCELLED"]
                               ELSE jobs[j]]
  /\ UNCHANGED <<streamVars, runner, schedules, losses>>

\* A run ends before its time: the process dies, or an error is thrown where
\* nothing catches it, in runDeploymentWork, before the try or in the catch.
\* The rest of its list is left, what it sent is on its way.
RunIsLost(r) ==
  /\ runner[r].pc # "idle"
  /\ Incidents < MaxIncidents
  /\ losses' = losses + 1
  /\ SetRunner(r, AtRest)
  /\ UNCHANGED <<streamVars, serviceState, jobs, schedules>>

RunnerNext(r) ==
  \/ BeginScheduling(r) \/ FindNext(r) \/ CreateNext(r)
  \/ SelectDueJobs(r) \/ NextJob(r) \/ TakeJob(r) \/ ReadAvailable(r)
  \/ SendClaim(r) \/ LandClaim(r) \/ SeeSuccess(r) \/ SubmissionFails(r)
  \/ AttemptThrows(r) \/ SchedulingThrows(r) \/ CatchError(r)
  \/ RunIsLost(r)

SJNext ==
  \/ \E r \in Runners : RunnerNext(r)
  \/ RequestRetirement
  \/ StreamerNext /\ UNCHANGED jobVars

SJSpec == SJInit /\ [][SJNext]_sjVars

-----------------------------------------------------------------------------
(* Properties                                                              *)

LastMilestone == Start + ((End - Start) \div Interval) * Interval

\* The run r works on a job or is about to schedule the next one.
AtWork(r) ==
  runner[r].pc \in {"reading", "sending", "waiting", "catching",
                    "finding", "creating"}

\* The run r has a job of its own.
Holds(r, j) == AtWork(r) /\ runner[r].job = j

\* The try and the catch around an attempt: while intervals are left, no error
\* inside the try breaks the chain of jobs.  However the attempts end, whether
\* the next job could be scheduled at once or the catch has to write the row
\* and schedule again, and with two runs at work on one streamer, there is a
\* job to come or a run that is at work.  A job that is RUNNING and that nobody
\* works on does not count.  The chain may break once a run is lost: when its
\* process dies, or when an error leaves the catch.
StreamKeepsAJob ==
  (/\ \E j \in JobIds : Made(j)
   /\ serviceState = "ACTIVE"
   /\ losses = 0
   /\ now < LastMilestone)
    => \/ \E j \in JobIds : jobs[j].status = "PENDING"
       \/ \E r \in Runners : AtWork(r)

\* TakeJob: no two runs work on one job at the same time, nor does one take a
\* job whose end another one's catch may still rewrite.
JobHasOneRunner ==
  \A r, q \in Runners : \A j \in JobIds :
    r # q /\ Holds(r, j) => ~Holds(q, j)

=============================================================================
