------------------------- MODULE SubscriptionCharge -------------------------
(***************************************************************************)
(* One subscription and the cron that charges it: the trigger contract of  *)
(* contracts/triggers/subscription, the charging fields of its Deployment  *)
(* row, and app/api/cron/auto-charge-subscriptions/route.ts, which runs    *)
(* under the lease of CronLease.                                           *)
(*                                                                         *)
(* The row's nextChargeAt is a copy of the contract's next_charge_at and   *)
(* says when the cron looks at the subscription again; the row's revision  *)
(* advances with every write, so a run that read the row before someone    *)
(* else wrote it cannot write it.  The revision is counted here by its     *)
(* effect: the set of runs whose reading of the row is still current.      *)
(***************************************************************************)
EXTENDS CronLease, Integers

CONSTANTS
  FirstCharge,       \* StartTime
  Period,            \* IntervalSeconds
  EndTime,           \* EndTime
  LastTime,          \* bound on the clock
  MaxCatchup,        \* MAX_CATCHUP_PER_RUN
  MaxChoices,        \* bound on the owner's configuration requests
  MaxApproved        \* periods the subscriber may approve at a time

ASSUME SubscriptionAssumption ==
  /\ FirstCharge \in Nat /\ EndTime \in Nat /\ FirstCharge < EndTime
  /\ Period \in Nat \ {0}
  /\ LastTime \in Nat
  /\ MaxCatchup \in Nat \ {0}
  /\ MaxChoices \in Nat /\ MaxApproved \in Nat

VARIABLES
  time,              \* the ledger's timestamp, and the server's clock
  nextCharge, cancelled, relayer,    \* the contract's storage
  allowance,         \* periods the subscriber's allowance still covers
  mode, dueAt,       \* chargeRelayerMode and nextChargeAt of the row
  choice,            \* how often the owner has configured the relayer
  chosen,            \* the mode of the owner's last choice
  stoppedAt,         \* the choice a run had read when it switched to MANUAL
  current,           \* the runs whose reading of the row is current
  run                \* run[c]: where the run of the process c is

subVars  == <<time, nextCharge, cancelled, relayer, allowance, mode, dueAt,
              choice, chosen, stoppedAt, current, run>>
subChain == <<nextCharge, cancelled, relayer, allowance>>
subRow   == <<mode, dueAt, stoppedAt, current>>
subAll   == <<subVars, leaseVars>>

Undated == 0 - 1
Modes == {"PLATFORM", "USER", "MANUAL"}
Relayers == {"platform", "user"}

AtEase == [pc |-> "idle", mode |-> "MANUAL", began |-> 0, under |-> 0,
           tries |-> 0, to |-> Undated]

RunStates == {"idle", "selecting", "reading", "charging", "counting", "rereading",
              "refreshing", "stopping", "done"}

SubTypeOK ==
  /\ CLTypeOK
  /\ time \in 0 .. LastTime
  /\ nextCharge \in Nat /\ cancelled \in BOOLEAN /\ relayer \in Relayers
  /\ allowance \in 0 .. MaxApproved
  /\ mode \in Modes /\ dueAt \in {Undated} \cup Nat
  /\ choice \in 0 .. MaxChoices /\ chosen \in Modes
  /\ stoppedAt \in {Undated} \cup 0 .. MaxChoices
  /\ current \subseteq Crons
  /\ run \in [Crons -> [pc : RunStates, mode : Modes, began : 0 .. LastTime,
                        under : 0 .. MaxChoices, tries : 0 .. MaxCatchup,
                        to : {Undated} \cup Nat]]

\* confirmDeployment has just dated the row: the start, or now if that is past.
SubInit ==
  /\ CLInit
  /\ time \in 0 .. LastTime
  /\ nextCharge = FirstCharge /\ cancelled = FALSE
  /\ relayer \in Relayers
  /\ allowance = 0
  /\ mode = (IF relayer = "platform" THEN "PLATFORM" ELSE "MANUAL")
  /\ dueAt = (IF FirstCharge >= time THEN FirstCharge ELSE time)
  /\ choice = 0 /\ chosen = mode /\ stoppedAt = Undated
  /\ current = {}
  /\ run = [c \in Crons |-> AtEase]

-----------------------------------------------------------------------------
(* contracts/triggers/subscription                                         *)

\* execute_charge succeeds: nothing is charged early, after the end, or when
\* the subscriber has cancelled or does not cover it.
Chargeable ==
  /\ ~cancelled
  /\ nextCharge <= time /\ time < EndTime
  /\ allowance > 0

\* The schedule advances by one period, and only with the charge.
Advanced == nextCharge + Period

ExecuteCharge ==
  /\ Chargeable
  /\ nextCharge' = Advanced
  /\ allowance' = allowance - 1
  /\ UNCHANGED <<cancelled, relayer>>

\* charge by the admin, charge_by_relayer by a tenant's relayer of its own
\* accord, or by a submission the server has given up on.
OthersCharge ==
  /\ ExecuteCharge
  /\ UNCHANGED <<time, subRow, choice, chosen, run, leaseVars>>

\* unsubscribe also revokes the allowance.
Unsubscribe ==
  /\ ~cancelled
  /\ cancelled' = TRUE
  /\ allowance' = 0
  /\ UNCHANGED <<time, nextCharge, relayer, subRow, choice, chosen,
                 run, leaseVars>>

Subscribe ==
  /\ cancelled
  /\ cancelled' = FALSE
  /\ UNCHANGED <<time, nextCharge, relayer, allowance, subRow, choice,
                 chosen, run, leaseVars>>

\* The subscriber approves an allowance for the contract.
Approve ==
  /\ allowance < MaxApproved
  /\ allowance' = MaxApproved
  /\ UNCHANGED <<time, nextCharge, cancelled, relayer, subRow, choice,
                 chosen, run, leaseVars>>

\* set_relayer, by the admin.
SetRelayer ==
  /\ relayer' \in Relayers \ {relayer}
  /\ UNCHANGED <<time, nextCharge, cancelled, allowance, subRow,
                 choice, chosen, run, leaseVars>>

TimePasses ==
  /\ time < LastTime
  /\ time' = time + 1
  /\ UNCHANGED <<subChain, subRow, choice, chosen, run, leaseVars>>

-----------------------------------------------------------------------------
(* app/api/deployments/[id]/subscription-relayer/route.ts                  *)

\* Mutant of CurrentAfterChoice: the revision does not see the mode change.
ChoiceUnseen == current

\* The trigger advances the row's revision: no reading of it is current now.
CurrentAfterChoice == {}

\* The owner's choice of a mode; nextChargeAt is not touched.
Configure ==
  /\ choice < MaxChoices
  /\ choice' = choice + 1
  /\ chosen' \in Modes
  /\ mode' = chosen'
  /\ current' = CurrentAfterChoice
  /\ UNCHANGED <<time, subChain, dueAt, stoppedAt, run, leaseVars>>

-----------------------------------------------------------------------------
(* app/api/cron/auto-charge-subscriptions/route.ts                         *)

Set(c, next) == run' = [run EXCEPT ![c] = next]
Move(c, pc)  == Set(c, [run[c] EXCEPT !.pc = pc])
Finish(c)    == Set(c, [AtEase EXCEPT !.pc = "done"])

\* POST: the run works under the lease, or without it when Redis is away.
BeginRun(c) ==
  /\ run[c].pc = "idle"
  /\ TakeLease(c) \/ RunUnguarded(c)
  /\ Set(c, [AtEase EXCEPT !.pc = "selecting", !.began = time])
  /\ UNCHANGED <<time, subChain, subRow, choice, chosen>>

\* The query for automated subscriptions that are due or not dated.
Selected == mode \in {"PLATFORM", "USER"} /\ (dueAt = Undated \/ dueAt <= time)

SelectSubscription(c) ==
  /\ run[c].pc = "selecting"
  /\ IF Selected
     THEN /\ Set(c, [run[c] EXCEPT !.pc = "reading", !.mode = mode,
                                   !.under = choice])
          /\ current' = current \cup {c}
     ELSE Finish(c) /\ UNCHANGED current
  /\ UNCHANGED <<time, subChain, mode, dueAt, stoppedAt, choice, chosen,
                 leaseVars>>

\* The relayer the mode stands for is the one the contract answers to.
RelayerMatches(m) == relayer = (IF m = "PLATFORM" THEN "platform" ELSE "user")

\* The contract's state, read once, decides: stop a subscription that is
\* cancelled or over, date one that is not due, skip one that is not covered.
ReadState(c) ==
  /\ run[c].pc = "reading"
  /\ \/ /\ cancelled \/ EndTime <= run[c].began
        /\ Set(c, [AtEase EXCEPT !.pc = "stopping", !.under = run[c].under])
     \/ /\ ~cancelled /\ run[c].began < EndTime
        /\ nextCharge > run[c].began
        /\ Set(c, [AtEase EXCEPT !.pc = "refreshing", !.to = nextCharge])
     \/ /\ ~cancelled /\ run[c].began < EndTime
        /\ nextCharge <= run[c].began
        /\ IF allowance > 0 /\ RelayerMatches(run[c].mode)
           THEN Move(c, "charging") ELSE Finish(c)
  /\ UNCHANGED <<time, subChain, subRow, choice, chosen, leaseVars>>

\* One round of the loop: the charge is simulated, signed here or by the
\* tenant's relayer, and sent.  It lands ...
LandCharge(c) ==
  /\ run[c].pc = "charging"
  /\ RelayerMatches(run[c].mode)
  /\ ExecuteCharge
  /\ Move(c, "counting")
  /\ UNCHANGED <<time, subRow, choice, chosen, leaseVars>>

\* ... or a tenant's relayer says it has.
BelieveTenant(c) ==
  /\ run[c].pc = "charging" /\ run[c].mode = "USER"
  /\ Move(c, "counting")
  /\ UNCHANGED <<time, subChain, subRow, choice, chosen, leaseVars>>

\* A tenant's relayer whose address is refused for good is not called again.
RefuseUrl(c) ==
  /\ run[c].pc = "charging" /\ run[c].mode = "USER" /\ run[c].tries = 0
  /\ Set(c, [AtEase EXCEPT !.pc = "stopping", !.under = run[c].under])
  /\ UNCHANGED <<time, subChain, subRow, choice, chosen, leaseVars>>

\* After a charge the contract's date decides whether there is another.
CountCharge(c) ==
  /\ run[c].pc = "counting"
  /\ LET more == nextCharge <= time /\ run[c].tries + 1 < MaxCatchup
     IN  Set(c, [run[c] EXCEPT !.pc = IF more THEN "charging" ELSE "rereading",
                               !.tries = run[c].tries + 1])
  /\ UNCHANGED <<time, subChain, subRow, choice, chosen, leaseVars>>

\* A charge refused, failed, or not final in time ends the run's work: charges
\* already made stay counted, and the row keeps its date.
GiveUp(c) ==
  /\ run[c].pc \in {"reading", "charging", "counting", "rereading"}
  /\ Finish(c)
  /\ UNCHANGED <<time, subChain, subRow, choice, chosen, leaseVars>>

\* Mutant of DateAfterCharges: the run adds the period of its charge itself.
DateByCharges == nextCharge + Period

\* A run that charged, or believes so, reads the contract's date once more.
DateAfterCharges == nextCharge

Reread(c) ==
  /\ run[c].pc = "rereading"
  /\ Set(c, [AtEase EXCEPT !.pc = "refreshing", !.to = DateAfterCharges])
  /\ UNCHANGED <<time, subChain, subRow, choice, chosen, leaseVars>>

\* refreshSubscriptionSchedule: only if the row is as the run has read it.
MayRefresh(c) == c \in current

Refresh(c) ==
  /\ run[c].pc \in {"refreshing", "stopping"}
  /\ IF MayRefresh(c)
     THEN /\ dueAt' = run[c].to
          /\ current' = {}
          /\ IF run[c].pc = "stopping"
             THEN mode' = "MANUAL" /\ stoppedAt' = run[c].under
             ELSE UNCHANGED <<mode, stoppedAt>>
     ELSE UNCHANGED subRow
  /\ Finish(c)
  /\ UNCHANGED <<time, subChain, choice, chosen, leaseVars>>

EndRun(c) ==
  /\ run[c].pc = "done"
  /\ DropLease(c)
  /\ current' = current \ {c}
  /\ Set(c, AtEase)
  /\ UNCHANGED <<time, subChain, mode, dueAt, stoppedAt, choice, chosen>>

DieInRun(c) ==
  /\ run[c].pc # "idle"
  /\ LoseRun(c)
  /\ current' = current \ {c}
  /\ Set(c, AtEase)
  /\ UNCHANGED <<time, subChain, mode, dueAt, stoppedAt, choice, chosen>>

LeaseLapses == Lapse /\ UNCHANGED subVars

RunNext(c) ==
  \/ BeginRun(c) \/ SelectSubscription(c) \/ ReadState(c)
  \/ LandCharge(c) \/ BelieveTenant(c) \/ CountCharge(c) \/ RefuseUrl(c)
  \/ GiveUp(c) \/ Reread(c) \/ Refresh(c) \/ EndRun(c) \/ DieInRun(c)

SubNext ==
  \/ \E c \in Crons : RunNext(c)
  \/ OthersCharge \/ Unsubscribe \/ Subscribe \/ Approve \/ SetRelayer
  \/ TimePasses \/ Configure \/ LeaseLapses

SubSpec == SubInit /\ [][SubNext]_subAll

-----------------------------------------------------------------------------
(* Properties                                                              *)

\* refreshSubscriptionSchedule: while a subscription is automated, a charge
\* that is due on the ledger is due in the row, so the next run selects it.
\* No run, however late it writes what it read, hides a due period.
DueIsNeverHidden ==
  (mode # "MANUAL" /\ nextCharge <= time) => dueAt = Undated \/ dueAt <= time

\* chargeScheduleRevision: automation the owner has switched on is switched
\* off only by a run that read the owner's last choice, never by one that was
\* under way when the owner made it.
OwnerChoiceStands ==
  (mode = "MANUAL" /\ chosen # "MANUAL") => stoppedAt = choice

=============================================================================
