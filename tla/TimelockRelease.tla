-------------------------- MODULE TimelockRelease --------------------------
(***************************************************************************)
(* One timelock and what releases it: the contracts timelock and           *)
(* timelock_branch of contracts/conditions, the auto-release cron of       *)
(* lib/timelock-release.ts with its TimelockRelease row, and the early     *)
(* release of lib/timelock-early-release.ts.                               *)
(*                                                                         *)
(* The timelock holds what it is sent and releases the whole of it; its    *)
(* parent may fund it again at any time.  The row remembers the ledger     *)
(* through which the balance is known to be zero, and a settled row is     *)
(* probed again only because a RECEIVE event past that ledger wakes it, or *)
(* because the daily recheck comes round.  Days are beyond the bound on    *)
(* the clock: here it is the event that has to wake the row.               *)
(*                                                                         *)
(* Transactions land in the open ledger, whose number and time are now;    *)
(* a simulation reads the state of the ledger closed before it, so ledger  *)
(* time trails the clock the server reads.                                 *)
(***************************************************************************)
EXTENDS Integers

CONSTANTS
  Unlock,            \* unlock_time
  Probers,           \* runs of the cron and requests for an early release
  LastLedger,        \* bound on the clock
  MaxFundings,       \* bound on the deposits
  MaxFailures,       \* failureCount is counted up to here
  LeaseTime,         \* LEASE_MS
  RetryTime,         \* CONDITION_RETRY_MS, INITIAL_FAILURE_RETRY_MS
  BackoffTime        \* FAILURE_BACKOFF_BASE_MS

ASSUME TimelockAssumption ==
  /\ Unlock \in Nat
  /\ LastLedger \in Nat \ {0}
  /\ MaxFundings \in Nat /\ MaxFailures \in Nat
  /\ LeaseTime \in Nat \ {0} /\ RetryTime \in Nat \ {0}
  /\ BackoffTime \in Nat \ {0}

VARIABLES
  kind,              \* "after", "before": a timelock's mode; "branch"
  dedicated,         \* the contract's relayer is not its admin
  ledger,            \* the open ledger, and the clock
  locked,            \* the contract's Balance
  closedLocked,     \* ... at the end of the last closed ledger
  fundings,          \* deposits so far
  lastFunding,       \* ledger of the last deposit
  received,          \* last ledger with a RECEIVE event of the deployment
  closedReceived,    \* ... among the closed ledgers
  ingested,          \* ... among the events the server has stored
  strays,            \* releases on their way that nobody waits for
  out,               \* out[who][side]: paid to a side, by who asked
  row,               \* the TimelockRelease row
  prober             \* prober[p]: where the process p is

chainVars == <<kind, dedicated, ledger, locked, closedLocked, fundings,
               lastFunding, received, closedReceived, out>>
tlVars    == <<chainVars, ingested, strays, row, prober>>

Null  == 0 - 1
Never == LastLedger + 1     \* a time beyond the bound: the daily recheck

Sides == {"before", "after"}
Askers == {"cron", "owner", "admin"}

Idle == [pc |-> "idle", who |-> "cron", side |-> "after", failures |-> 0,
         began |-> 0, sim |-> 0, landed |-> Null, settle |-> Null]

ProberStates ==
  {"idle", "due", "simulating", "sending", "waiting", "settling", "failing"}

Row(probeAt) == [known |-> TRUE, supported |-> TRUE, settled |-> Null,
                 probeAt |-> probeAt, leaseUntil |-> Null, failures |-> 0]
NoRow == [Row(0) EXCEPT !.known = FALSE]

TLTypeOK ==
  /\ kind \in {"after", "before", "branch"} /\ dedicated \in BOOLEAN
  /\ ledger \in 1 .. LastLedger
  /\ locked \in Nat /\ closedLocked \in Nat /\ fundings \in 0 .. MaxFundings
  /\ lastFunding \in 0 .. ledger
  /\ received \in 0 .. ledger /\ closedReceived \in 0 .. received
  /\ ingested \in 0 .. closedReceived
  /\ strays \subseteq Askers \X Sides
  /\ out \in [Askers -> [Sides -> Nat]]
  /\ row \in [known : BOOLEAN, supported : BOOLEAN,
              settled : {Null} \cup Nat, probeAt : 0 .. Never,
              leaseUntil : {Null} \cup Nat, failures : 0 .. MaxFailures]
  /\ prober \in [Probers -> [pc : ProberStates, who : Askers, side : Sides,
                             failures : 0 .. MaxFailures, began : Nat, sim : Nat,
                             landed : {Null} \cup Nat,
                             settle : {Null} \cup Nat]]

TLInit ==
  /\ kind \in {"after", "before", "branch"}
  /\ dedicated \in BOOLEAN
  /\ ledger = 1
  /\ locked = 0 /\ closedLocked = 0 /\ fundings = 0 /\ lastFunding = 0
  /\ received = 0 /\ closedReceived = 0 /\ ingested = 0 /\ strays = {}
  /\ out = [who \in Askers |-> [s \in Sides |-> 0]]
  /\ row = NoRow
  /\ prober = [p \in Probers |-> Idle]

-----------------------------------------------------------------------------
(* The contract                                                            *)

\* The side the ledger time t is on; a plain timelock has one way out.
SideAt(t) == IF kind = "branch" THEN IF t >= Unlock THEN "after" ELSE "before"
             ELSE kind

\* perform_release's condition at the time t, for a release of the side asked.
\* The admin names no side; a plain timelock takes none.
ConditionMet(t, side) ==
  CASE kind = "after"  -> t >= Unlock
    [] kind = "before" -> t <= Unlock
    [] kind = "branch" -> side = SideAt(t)

CanRelease(t, held, side) == ConditionMet(t, side) /\ held > 0

\* perform_release: the whole balance goes to one side, whose contract emits
\* a RECEIVE event of its own.
Release(who, side) ==
  /\ CanRelease(ledger, locked, side)
  /\ out' = [out EXCEPT ![who][SideAt(ledger)] = @ + locked]
  /\ locked' = 0
  /\ received' = ledger
  /\ UNCHANGED <<kind, dedicated, ledger, closedLocked, fundings,
                 lastFunding, closedReceived>>

\* execute_step, called by the parent.
Deposit ==
  /\ fundings < MaxFundings
  /\ fundings' = fundings + 1
  /\ locked' = locked + 1
  /\ lastFunding' = ledger
  /\ received' = ledger
  /\ UNCHANGED <<kind, dedicated, ledger, closedLocked, closedReceived, out,
                 ingested, strays, row, prober>>

\* release: the admin's, at any time.
AdminRelease ==
  /\ Release("admin", SideAt(ledger))
  /\ UNCHANGED <<ingested, strays, row, prober>>

CloseLedger ==
  /\ ledger < LastLedger
  /\ ledger' = ledger + 1
  /\ closedLocked' = locked
  /\ closedReceived' = received
  /\ UNCHANGED <<kind, dedicated, locked, fundings, lastFunding, received, out,
                 ingested, strays, row, prober>>

\* cron/poll-events stores the events of the closed ledgers.
IngestEvents ==
  /\ ingested < closedReceived
  /\ ingested' = closedReceived
  /\ UNCHANGED <<chainVars, strays, row, prober>>

-----------------------------------------------------------------------------
(* lib/timelock-release.ts                                                 *)

SetProber(p, next) == prober' = [prober EXCEPT ![p] = next]

\* A branch is tracked as an After lock.
Mode == IF kind = "before" THEN "before" ELSE "after"

\* relayerEligible's window, and windowOpen with its margin for a Before lock.
Selectable(t) == IF Mode = "after" THEN t >= Unlock ELSE t <= Unlock
WindowOpen(t) == IF Mode = "after" THEN t >= Unlock ELSE t < Unlock

\* The next probe a delay after the probe that began at t.
Soon(t, delay) == IF t + delay <= LastLedger THEN t + delay ELSE LastLedger

\* settledRecheckAt, for the probe that began at t: in a day, or for a Before
\* lock ahead of its deadline.
SettledRecheck(t) == IF Mode = "before" /\ Unlock - 1 > t THEN Unlock - 1
                     ELSE Never

\* discoverTimelocks
Discover ==
  /\ ~row.known
  /\ row' = Row(IF Mode = "after" THEN IF Unlock <= LastLedger THEN Unlock
                                                               ELSE Never
                ELSE ledger)
  /\ UNCHANGED <<chainVars, strays, ingested, prober>>

LeaseFree == row.leaseUntil = Null \/ row.leaseUntil < ledger

\* selectDueTimelocks: the probe time has come, or the row is settled and a
\* RECEIVE event past the ledger it settled at is stored.
Due ==
  /\ row.known /\ row.supported
  /\ LeaseFree
  /\ Selectable(ledger)
  /\ \/ row.probeAt <= ledger
     \/ row.settled # Null /\ ingested > row.settled

SelectDue(p) ==
  /\ prober[p].pc = "idle"
  /\ Due
  /\ SetProber(p, [Idle EXCEPT !.pc = "due", !.failures = row.failures])
  /\ UNCHANGED <<chainVars, strays, ingested, row>>

\* The claim at the head of probe: another run may hold the row by now.
ClaimRow(p) ==
  /\ prober[p].pc = "due"
  /\ IF LeaseFree
     THEN /\ row' = [row EXCEPT !.leaseUntil = ledger + LeaseTime]
          /\ SetProber(p, [prober[p] EXCEPT !.pc = "simulating", !.began = ledger])
     ELSE SetProber(p, Idle) /\ UNCHANGED row
  /\ UNCHANGED <<chainVars, strays, ingested>>

\* update: whatever the probe writes, the lease goes.
Update(p, next) ==
  /\ row' = [next EXCEPT !.leaseUntil = Null]
  /\ SetProber(p, Idle)

\* Mutant of SimulatedAt: what was simulated is dated by the open ledger.
DatedByOpen == ledger

\* A simulation reads the state of the latest closed ledger.
SimulatedAt == ledger - 1

\* simulateReleaseByRelayer against the closed ledger, and what probe makes of
\* a refusal: empty, not yet, unsupported.
Simulate(p) ==
  /\ prober[p].pc = "simulating" /\ prober[p].who = "cron"
  /\ LET closed == SimulatedAt
         side   == prober[p].side
     IN  \/ /\ ~dedicated
            /\ Update(p, [row EXCEPT !.supported = FALSE, !.probeAt = Never])
         \/ /\ dedicated /\ ~ConditionMet(closed, side)
            /\ Update(p, [row EXCEPT !.probeAt = Soon(prober[p].began, RetryTime)])
         \/ /\ dedicated /\ ConditionMet(closed, side) /\ closedLocked = 0
            /\ SetProber(p, [prober[p] EXCEPT !.pc = "settling",
                                           !.settle = closed])
            /\ UNCHANGED row
         \/ /\ dedicated /\ CanRelease(closed, closedLocked, side)
            /\ SetProber(p, [prober[p] EXCEPT !.pc = "sending", !.sim = closed])
            /\ UNCHANGED row
  /\ UNCHANGED <<chainVars, strays, ingested>>

\* Inside the relayer channel: a window that closed meanwhile ends the probe.
SendOrDrop(p) ==
  /\ prober[p].pc = "sending" /\ prober[p].who = "cron"
  /\ IF WindowOpen(ledger)
     THEN SetProber(p, [prober[p] EXCEPT !.pc = "waiting"]) /\ UNCHANGED row
     ELSE Update(p, row)
  /\ UNCHANGED <<chainVars, strays, ingested>>

\* The network applies a release, in the open ledger.
LandRelease(p) ==
  /\ prober[p].pc = "waiting" /\ prober[p].landed = Null
  /\ Release(prober[p].who, prober[p].side)
  /\ SetProber(p, [prober[p] EXCEPT !.landed = ledger])
  /\ UNCHANGED <<strays, ingested, row>>

LandStray(m) ==
  /\ m \in strays
  /\ strays' = strays \ {m}
  /\ Release(m[1], m[2])
  /\ UNCHANGED <<ingested, row, prober>>

\* Mutant of SettleAfter: the release's ledger is taken to be empty throughout.
SettleAtRelease(at) == at

\* The release is seen to have succeeded.  It zeroed the balance somewhere
\* inside its ledger, so the row settles one ledger short.
SettleAfter(at) == at - 1

SeeReleased(p) ==
  /\ prober[p].pc = "waiting" /\ prober[p].who = "cron"
  /\ prober[p].landed # Null
  /\ \E at \in {prober[p].landed, prober[p].sim + 1} :
        SetProber(p, [prober[p] EXCEPT !.pc = "settling",
                                    !.settle = SettleAfter(at)])
  /\ UNCHANGED <<chainVars, strays, ingested, row>>

\* The write of a probe that found nothing, or released everything.
Settle(p) ==
  /\ prober[p].pc = "settling"
  /\ Update(p, [row EXCEPT !.settled = prober[p].settle,
                           !.probeAt = SettledRecheck(prober[p].began),
                           !.failures = 0])
  /\ UNCHANGED <<chainVars, strays, ingested>>

\* What p has sent and not seen land stays on its way when p gives up on it.
Abandon(p) ==
  strays' = strays \cup (IF prober[p].pc = "waiting" /\ prober[p].landed = Null
                         THEN {<<prober[p].who, prober[p].side>>} ELSE {})

\* A read that throws, a refused or failed submission, half a minute without
\* finality: the probe ends without an answer.
Fail(p) ==
  /\ prober[p].who = "cron"
  /\ prober[p].pc \in {"simulating", "sending", "waiting"}
  /\ Abandon(p)
  /\ SetProber(p, [prober[p] EXCEPT !.pc = "failing", !.sim = 0, !.landed = Null])
  /\ UNCHANGED <<chainVars, ingested, row>>

\* The process dies; the lease it holds lapses.
Die(p) ==
  /\ prober[p].pc # "idle"
  /\ Abandon(p)
  /\ SetProber(p, Idle)
  /\ UNCHANGED <<chainVars, ingested, row>>

\* failureUpdate, from the failureCount of the row as it was selected.
RecordFailure(p) ==
  /\ prober[p].pc = "failing"
  /\ LET n == IF prober[p].failures < MaxFailures THEN prober[p].failures + 1
              ELSE MaxFailures
     IN  \E delay \in {BackoffTime * 2 ^ (n - 1)}
                        \cup (IF n = 1 THEN {RetryTime} ELSE {}) :
           Update(p, [row EXCEPT !.failures = n,
                                    !.probeAt = Soon(prober[p].began, delay)])
  /\ UNCHANGED <<chainVars, strays, ingested>>

-----------------------------------------------------------------------------
(* lib/timelock-early-release.ts                                           *)

\* The owner asks for the "before" side of a branch.
AskEarly(p) ==
  /\ kind = "branch"
  /\ prober[p].pc = "idle"
  /\ SetProber(p, [Idle EXCEPT !.pc = "simulating", !.who = "owner",
                            !.side = "before"])
  /\ UNCHANGED <<chainVars, strays, ingested, row>>

\* A refusal is told to the caller; otherwise the release is sent.
SimulateEarly(p) ==
  /\ prober[p].pc = "simulating" /\ prober[p].who = "owner"
  /\ IF dedicated /\ CanRelease(ledger - 1, closedLocked, prober[p].side)
     THEN SetProber(p, [prober[p] EXCEPT !.pc = "waiting", !.sim = ledger - 1])
     ELSE SetProber(p, Idle)
  /\ UNCHANGED <<chainVars, strays, ingested, row>>

\* The caller is answered: released, failed, or not known in time.
AnswerEarly(p) ==
  /\ prober[p].pc = "waiting" /\ prober[p].who = "owner"
  /\ Abandon(p)
  /\ SetProber(p, Idle)
  /\ UNCHANGED <<chainVars, ingested, row>>

ProberNext(p) ==
  \/ SelectDue(p) \/ ClaimRow(p) \/ Simulate(p) \/ SendOrDrop(p)
  \/ LandRelease(p) \/ SeeReleased(p) \/ Settle(p) \/ Fail(p) \/ Die(p)
  \/ RecordFailure(p)
  \/ AskEarly(p) \/ SimulateEarly(p) \/ AnswerEarly(p)

TLNext ==
  \/ \E p \in Probers : ProberNext(p)
  \/ \E m \in strays : LandStray(m)
  \/ Deposit \/ AdminRelease \/ CloseLedger \/ IngestEvents \/ Discover

TLSpec == TLInit /\ [][TLNext]_tlVars

-----------------------------------------------------------------------------
(* Properties                                                              *)

\* settledLedger: whatever the timelock holds came in after the ledger its row
\* is settled at.  With runs that overlap, a lease that lapsed, a release that
\* lands late and a refill in the very ledger of a release, the row's claim
\* that the balance was zero then never covers a deposit, so the RECEIVE event
\* of that deposit wakes the row.
SettledBeforeFunded ==
  (row.settled # Null /\ locked > 0) => lastFunding > row.settled

\* selectDueTimelocks: a timelock that holds funds is never forgotten: its row
\* has a time for the next probe, or an event is there to wake it.
FundsAreRemembered ==
  (row.known /\ row.supported /\ locked > 0 /\ Selectable(ledger))
    => \/ row.probeAt <= LastLedger
       \/ row.settled # Null /\ received > row.settled

\* release_by_relayer(side): the cron never pays the "before" list and an early
\* release never the "after" list, however long they were on their way; and
\* what has come in has either gone out once or is still held.
LockPaysAsAsked ==
  /\ kind = "branch" => /\ out["cron"]["before"] = 0
                        /\ out["owner"]["after"] = 0
  /\ fundings = locked + out["cron"]["before"] + out["cron"]["after"]
                  + out["owner"]["before"] + out["owner"]["after"]
                  + out["admin"]["before"] + out["admin"]["after"]

=============================================================================
