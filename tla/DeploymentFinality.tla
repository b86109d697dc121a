------------------------- MODULE DeploymentFinality -------------------------
(***************************************************************************)
(* From the signed envelope of a prepared deployment to its CONFIRMED row: *)
(* lib/deployments/submit.ts, confirm.ts, reconcile-owner-deployment.ts,   *)
(* submitDeployTx of lib/stellar/deploy.ts, and the crons of               *)
(* lib/stellar/reconcile-transactions.ts and finalize-deployments.         *)
(*                                                                         *)
(* A request claims the row, sends, and waits 30 seconds.  The cron, the   *)
(* owner's status reads and the expiry check of a template instance settle *)
(* what a lost answer or a dead process leaves behind.  They race for the  *)
(* one write that confirms the deployment, and only its winner schedules   *)
(* the stream's first claim.                                               *)
(*                                                                         *)
(* Whoever holds the signed envelope may broadcast it within its time      *)
(* bounds, whatever the server knows.  The deployment stays ACTIVE:        *)
(* Retirement has what follows when it does not.                           *)
(***************************************************************************)
EXTENDS TransactionOutcomes, FiniteSets

CONSTANTS
  Submitters,        \* submit requests
  Crons,             \* runs of reconcileTransactions
  Owners,            \* status reads and reconcile calls of the owner
  MaxTime,           \* the last ledger the envelope's time bounds admit
  LastLedger,        \* bound on the ledgers
  MaxDeaths          \* bound on the processes that die

ASSUME DeploymentAssumption ==
  /\ Submitters \cap Crons = {} /\ Owners \cap (Submitters \cup Crons) = {}
  /\ MaxTime \in Nat \ {0} /\ LastLedger \in Nat \ {0} /\ MaxDeaths \in Nat

VARIABLES
  ledger,            \* the open ledger, whose number stands for its close time
  landed,            \* how and where the transaction landed
  source,            \* "ordinary", or "instance" of a template
  taken,             \* a node has taken a send of ours
  deployment,        \* the row: status, whether it has its deployTxHash, why it failed
  signature,         \* the SignedTransaction row
  scheduled,         \* how often the first claim has been scheduled
  actor,             \* actor[p]: where the process p is
  deaths

netVars == <<ledger, landed, taken>>
dfVars  == <<netVars, source, deployment, signature, scheduled, actor, deaths>>

Actors   == Submitters \cup Crons \cup Owners
Verdicts == {"SUCCESS", "FAILED"}
DeploymentStatuses == {"PENDING_SIGNATURE", "SUBMITTED", "CONFIRMED", "FAILED"}
Sends    == {"QUEUED", "NOT_ACCEPTED", "REJECTED", "LOST"}
Deployments == [status : DeploymentStatuses, hash : BOOLEAN,
                why : {"none", "refused", "onchain", "expired", "timeout"}]
Prepared == [status |-> "PENDING_SIGNATURE", hash |-> FALSE, why |-> "none"]
Resting  == [pc |-> "idle", saw |-> Prepared, send |-> "LOST", why |-> "none"]

ActorStates ==
  {"idle", "sending", "answered", "waiting", "handing", "failing",
   "reading", "claiming", "proving", "expiring",
   "confirming", "scheduling", "recording"}

DFTypeOK ==
  /\ ledger \in 1 .. LastLedger
  /\ landed \in [fate : Verdicts \cup {"none"}, at : 0 .. LastLedger]
  /\ source \in {"ordinary", "instance"}
  /\ taken \in BOOLEAN
  /\ deployment \in Deployments
  /\ signature \in [outcome : {"none", "RECEIVED", "ACCEPTED", "UNRESOLVED",
                               "REJECTED", "CONFIRMED", "FAILED"},
                    expired : {FALSE}, at : Nat, accepted : BOOLEAN]
  /\ scheduled \in Nat
  /\ actor \in [Actors -> [pc : ActorStates, saw : Deployments, send : Sends,
                           why : {"none", "refused", "onchain"}]]
  /\ deaths \in 0 .. MaxDeaths

DFInit ==
  /\ ledger = 1 /\ landed = [fate |-> "none", at |-> 0]
  /\ source \in {"ordinary", "instance"} /\ taken = FALSE
  /\ deployment = Prepared
  /\ signature = NoSigned
  /\ scheduled = 0
  /\ actor = [p \in Actors |-> Resting]
  /\ deaths = 0

At(p, pc)        == actor[p].pc = pc
Move(p, next)    == actor' = [actor EXCEPT ![p] = next]
On(p, pc)        == Move(p, [actor[p] EXCEPT !.pc = pc])
Rest(p)          == Move(p, Resting)
Failing(p, why)  == Move(p, [actor[p] EXCEPT !.pc = "failing", !.why = why])
HasRow           == signature.outcome # "none"
Submitted        == deployment.status = "SUBMITTED"
Unsubmitted      == deployment.status = "PENDING_SIGNATURE" /\ ~deployment.hash
FailedFor(why)   == [status |-> "FAILED", hash |-> TRUE, why |-> why]

-----------------------------------------------------------------------------
(* The network                                                             *)

CanLand == landed.fate = "none" /\ ledger <= MaxTime

LandEnvelope ==
  /\ CanLand
  /\ \E fate \in Verdicts : landed' = [fate |-> fate, at |-> ledger]
  /\ UNCHANGED <<ledger, taken, source, deployment, signature, scheduled, actor, deaths>>

CloseLedger ==
  /\ ledger < LastLedger
  /\ ledger' = ledger + 1
  /\ UNCHANGED <<landed, taken, source, deployment, signature, scheduled, actor, deaths>>

\* getTransaction, of a replica that knows the ledgers oldest .. latest.
Found(oldest, latest) == landed.fate # "none" /\ landed.at \in oldest .. latest
Closed == 1 .. ledger - 1
Seen   == Found(1, ledger - 1)

-----------------------------------------------------------------------------
(* submitOwnedDeployment and submitDeployTx                                *)

\* The status predicate claims the row for one request; the signer's row, once
\* for a hash, joins the status flip.
ClaimDeployment(p) ==
  /\ p \in Submitters /\ At(p, "idle")
  /\ deployment.status = "PENDING_SIGNATURE"
  /\ deployment' = [deployment EXCEPT !.status = "SUBMITTED", !.hash = TRUE]
  /\ signature' = IF HasRow THEN signature ELSE [NoSigned EXCEPT !.outcome = "RECEIVED"]
  /\ On(p, "sending")
  /\ UNCHANGED <<netVars, source, scheduled, deaths>>

\* The node takes the envelope or finds it already there, is busy, refuses it,
\* or its answer does not arrive.
SendEnvelope(p) ==
  /\ At(p, "sending")
  /\ \E send \in Sends :
       /\ send = "QUEUED" => CanLand \/ landed.fate # "none"
       /\ taken' \in (CASE send = "QUEUED" -> {TRUE}
                        [] send = "LOST"   -> {taken, taken \/ CanLand}
                        [] OTHER           -> {taken})
       /\ Move(p, [actor[p] EXCEPT !.pc = "answered", !.send = send])
  /\ UNCHANGED <<ledger, landed, source, deployment, signature, scheduled, deaths>>

\* Mutant of HandsBack: a send whose answer was lost is taken for a refusal.
HandsBackLost(send) == send \in {"NOT_ACCEPTED", "LOST"}

\* NOT_ACCEPTED: "nothing reached the network".
HandsBack(send) == send = "NOT_ACCEPTED" /\ source = "ordinary"

\* preserveUncertainRejection: of an instance, a refusal of this send is not
\* ledger non-inclusion.
Uncertain(send) == send = "LOST" \/ (send # "QUEUED" /\ source = "instance")

\* The outcome of the send is recorded, and decides how the request goes on.
\* One whose finality stays unknown answers SUBMITTED, and leaves the row as
\* the claim wrote it; so does a rehearsal that leaves finality to the owner.
RecordSend(p) ==
  /\ At(p, "answered")
  /\ LET send == actor[p].send
         news == IF Uncertain(send) THEN "UNRESOLVED"
                 ELSE IF send = "QUEUED" THEN "ACCEPTED" ELSE "REJECTED"
     IN  /\ signature' = Answered(signature, news, TRUE)
         /\ \/ HandsBack(send) /\ On(p, "handing")
            \/ ~HandsBack(send) /\ send = "QUEUED" /\ (On(p, "waiting") \/ Rest(p))
            \/ ~HandsBack(send) /\ Uncertain(send) /\ Rest(p)
            \/ ~HandsBack(send) /\ ~Uncertain(send) /\ send = "REJECTED"
                 /\ Failing(p, "refused")
  /\ UNCHANGED <<netVars, source, deployment, scheduled, deaths>>

\* The claim is handed back, and the same envelope can be submitted again.
HandBack(p) ==
  /\ At(p, "handing")
  /\ deployment' = IF Submitted
                   THEN [deployment EXCEPT !.status = "PENDING_SIGNATURE", !.hash = FALSE]
                   ELSE deployment
  /\ Rest(p)
  /\ UNCHANGED <<netVars, source, signature, scheduled, deaths>>

\* The poll sees the transaction final, or ends without: 30 seconds are over,
\* or a read throws.
PollFinality(p) ==
  /\ At(p, "waiting")
  /\ \/ /\ Seen
        /\ IF landed.fate = "SUCCESS" THEN On(p, "confirming") ELSE Failing(p, "onchain")
        /\ UNCHANGED signature
     \/ /\ signature' = Answered(signature, "UNRESOLVED", FALSE)
        /\ Rest(p)
  /\ UNCHANGED <<netVars, source, deployment, scheduled, deaths>>

\* "Only the row this request claimed may be failed."
WriteFailure(p) ==
  /\ At(p, "failing")
  /\ deployment' = IF Submitted THEN FailedFor(actor[p].why) ELSE deployment
  /\ IF actor[p].why = "onchain" THEN On(p, "recording") ELSE Rest(p)
  /\ UNCHANGED <<netVars, source, signature, scheduled, deaths>>

-----------------------------------------------------------------------------
(* confirmDeployment                                                       *)

\* Mutant of MayConfirm: only the hash is asked for.
ConfirmAnyStatus(p) == deployment.hash

\* The row's condition; the callers that recover ask for the hash too.
MayConfirm(p) ==
  \/ Submitted
  \/ p \notin Submitters /\ deployment.status = "FAILED" /\ deployment.hash

\* One caller wins the race; another that finds it confirmed is done as well,
\* and for the rest it is a conflict.
Confirm(p) ==
  /\ At(p, "confirming")
  /\ IF MayConfirm(p)
     THEN /\ deployment' = [deployment EXCEPT !.status = "CONFIRMED", !.hash = TRUE]
          /\ On(p, "scheduling")
          /\ UNCHANGED signature
     ELSE /\ IF deployment.status = "CONFIRMED" THEN On(p, "recording") ELSE Rest(p)
          /\ signature' = IF deployment.status # "CONFIRMED" /\ p \in Crons
                          THEN Answered(signature, "UNRESOLVED", FALSE) ELSE signature
          /\ UNCHANGED deployment
  /\ UNCHANGED <<netVars, source, scheduled, deaths>>

\* scheduleNextStreamerClaimJob for the stream (StreamerJobs has what it does).
ScheduleFirst(p) ==
  /\ At(p, "scheduling")
  /\ scheduled' = scheduled + 1
  /\ On(p, "recording")
  /\ UNCHANGED <<netVars, source, deployment, signature, deaths>>

\* recordTransactionOutcome, which the cron's list waits for.
RecordOutcome(p) ==
  /\ At(p, "recording")
  /\ signature' = Concluded(signature, landed.fate, landed.at)
  /\ Rest(p)
  /\ UNCHANGED <<netVars, source, deployment, scheduled, deaths>>

-----------------------------------------------------------------------------
(* reconcileTransactions, and finalize-deployments                         *)

\* A run takes the row, and the deployment as it is then.
SelectRow(p) ==
  /\ p \in Crons /\ At(p, "idle")
  /\ Unsettled(signature)
  /\ Move(p, [Resting EXCEPT !.pc = "reading", !.saw = deployment])
  /\ UNCHANGED <<netVars, source, deployment, signature, scheduled, deaths>>

\* Mutant of Recoverable: a deployment that was given up is left alone.
OnlySubmitted(saw) == saw.status = "SUBMITTED" /\ saw.hash

Recoverable(saw) == saw.status \in {"SUBMITTED", "FAILED"} /\ saw.hash

CronFinds(p) ==
  /\ p \in Crons /\ At(p, "reading") /\ Seen
  /\ \/ /\ landed.fate = "SUCCESS"
        /\ IF Recoverable(actor[p].saw) THEN On(p, "confirming")
           ELSE IF actor[p].saw.status = "CONFIRMED" THEN On(p, "recording") ELSE Rest(p)
        /\ UNCHANGED deployment
     \/ /\ landed.fate = "FAILED"
        /\ deployment' = IF Submitted THEN FailedFor("onchain") ELSE deployment
        /\ On(p, "recording")
  /\ UNCHANGED <<netVars, source, signature, scheduled, deaths>>

\* The replica does not know it, or the read throws: that ends nothing.  (A
\* miss older than the row's newest evidence is refused.)
CronMisses(p) ==
  /\ p \in Crons /\ At(p, "reading")
  /\ signature' = Answered(signature, "UNRESOLVED", FALSE)
  /\ Rest(p)
  /\ UNCHANGED <<netVars, source, deployment, scheduled, deaths>>

\* Five minutes without finality, and no signed row the cron could go by.
TimeOut ==
  /\ Submitted /\ ~HasRow
  /\ deployment' = [deployment EXCEPT !.status = "FAILED", !.why = "timeout"]
  /\ UNCHANGED <<netVars, source, signature, scheduled, actor, deaths>>

-----------------------------------------------------------------------------
(* reconcileOwnerDeployment, and the expiry of a template instance         *)

\* An instance may have been broadcast without this app's claim.
External(saw) ==
  source = "instance" /\ saw.status = "PENDING_SIGNATURE" /\ ~saw.hash

OwnerLooks(p) ==
  /\ p \in Owners /\ At(p, "idle")
  /\ Recoverable(deployment) \/ External(deployment)
  /\ HasRow \/ source = "instance"
  /\ Move(p, [Resting EXCEPT !.pc = "reading", !.saw = deployment])
  /\ UNCHANGED <<netVars, source, deployment, signature, scheduled, deaths>>

OwnerFinds(p) ==
  /\ p \in Owners /\ At(p, "reading") /\ Seen
  /\ LET saw  == actor[p].saw
         mine == IF External(saw) THEN Unsubmitted ELSE Submitted
     IN  \/ /\ landed.fate = "SUCCESS"
            /\ On(p, IF External(saw) THEN "claiming" ELSE "confirming")
            /\ UNCHANGED deployment
         \/ /\ landed.fate = "FAILED"
            /\ deployment' = IF mine THEN FailedFor("onchain") ELSE deployment
            /\ IF ~External(saw) /\ (mine \/ saw.status = "FAILED")
               THEN On(p, "recording") ELSE Rest(p)
  /\ UNCHANGED <<netVars, source, signature, scheduled, deaths>>

\* No answer, or none yet; reconcileTemplateInstance goes on to the expiry, a
\* status read does not.
OwnerMisses(p) ==
  /\ p \in Owners /\ At(p, "reading")
  /\ (External(actor[p].saw) /\ On(p, "proving")) \/ Rest(p)
  /\ UNCHANGED <<netVars, source, deployment, signature, scheduled, deaths>>

\* The external transaction's row, before it is confirmed.
ClaimExternal(p) ==
  /\ At(p, "claiming")
  /\ IF Unsubmitted
     THEN /\ deployment' = [deployment EXCEPT !.status = "SUBMITTED", !.hash = TRUE]
          /\ On(p, "confirming")
     ELSE Rest(p) /\ UNCHANGED deployment
  /\ UNCHANGED <<netVars, source, signature, scheduled, deaths>>

\* Mutant of CoversHistory: the replica's oldest ledger is not asked for.
CoversTheEnd(oldest, latest) == latest > MaxTime

\* preparedDeploymentRecovery: NOT_FOUND of a replica that has every ledger
\* from the row's creation to one past the time bounds.
CoversHistory(oldest, latest) == oldest <= 1 /\ latest > MaxTime

\* No submission that could still be under way is on record.
SafeToResume == ~signature.accepted /\ signature.outcome \in {"none", "RECEIVED", "REJECTED"}

ProveExpiry(p) ==
  /\ At(p, "proving")
  /\ IF /\ Unsubmitted /\ SafeToResume
        /\ \E oldest \in Closed, latest \in Closed :
             oldest <= latest /\ CoversHistory(oldest, latest) /\ ~Found(oldest, latest)
     THEN On(p, "expiring") ELSE Rest(p)
  /\ UNCHANGED <<netVars, source, deployment, signature, scheduled, deaths>>

\* The write asks once more for a row nobody has claimed.
ExpirePrepared(p) ==
  /\ At(p, "expiring")
  /\ deployment' = IF Unsubmitted
                   THEN [deployment EXCEPT !.status = "FAILED", !.why = "expired"]
                   ELSE deployment
  /\ Rest(p)
  /\ UNCHANGED <<netVars, source, signature, scheduled, deaths>>

-----------------------------------------------------------------------------
\* A process dies between two steps.
DieAt(p) ==
  /\ ~At(p, "idle") /\ deaths < MaxDeaths
  /\ deaths' = deaths + 1
  /\ Rest(p)
  /\ UNCHANGED <<netVars, source, deployment, signature, scheduled>>

CronStep(p)   == SelectRow(p) \/ CronFinds(p) \/ CronMisses(p)
Conclusion(p) == Confirm(p) \/ ScheduleFirst(p) \/ RecordOutcome(p)
SubmitStep(p) ==
  \/ ClaimDeployment(p) \/ SendEnvelope(p) \/ RecordSend(p) \/ HandBack(p)
  \/ PollFinality(p) \/ WriteFailure(p)
OwnerRead(p)  ==
  \/ OwnerLooks(p) \/ OwnerFinds(p) \/ OwnerMisses(p) \/ ClaimExternal(p)
  \/ ProveExpiry(p) \/ ExpirePrepared(p)

DFNext ==
  \/ \E p \in Actors : SubmitStep(p) \/ CronStep(p) \/ OwnerRead(p) \/ Conclusion(p)
                       \/ DieAt(p)
  \/ LandEnvelope \/ CloseLedger \/ TimeOut

DFSpec == DFInit /\ [][DFNext]_dfVars

\* Ledgers close.  The cron is called every minute and what it starts goes on;
\* a provider that is asked again and again answers in the end.  Requests and
\* the owner's reads may stop at any step.
DFFairness ==
  /\ WF_dfVars(CloseLedger)
  /\ \A p \in Crons : /\ WF_dfVars(SelectRow(p))
                      /\ SF_dfVars(CronFinds(p))
                      /\ WF_dfVars(CronMisses(p))
                      /\ WF_dfVars(Conclusion(p))

DFLiveSpec == DFSpec /\ DFFairness

-----------------------------------------------------------------------------
(* Properties                                                              *)

\* A CONFIRMED deployment is on the ledger, and so is a failure that names the
\* network; an instance that has expired never lands.  The signed row agrees,
\* and says CONFIRMED, which takes it off the cron's list, only after the
\* deployment does.
DeploymentIsTrue ==
  /\ deployment.status = "CONFIRMED" => landed.fate = "SUCCESS"
  /\ deployment.status = "FAILED" =>
       /\ deployment.why = "onchain" => landed.fate = "FAILED"
       /\ deployment.why = "expired" => landed.fate = "none" /\ ~CanLand
  /\ signature.outcome = "CONFIRMED" => deployment.status = "CONFIRMED"
  /\ signature.outcome = "FAILED" => landed.fate = "FAILED"

\* Confirmed, failed on the ledger, or expired.
SettledRow ==
  \/ deployment.status = "CONFIRMED"
  \/ deployment.status = "FAILED" /\ deployment.why \in {"onchain", "expired"}

\* A settled row is never rewritten, however late its writers are, nor is the
\* outcome of a signed row.  A deployment that failed otherwise, because it was
\* refused or given up, may still turn out to be confirmed, and nothing else.
OutcomesStay ==
  [][/\ SettledRow => deployment' = deployment
     /\ deployment.status = "FAILED" /\ deployment' # deployment
          => deployment'.status = "CONFIRMED"
     /\ signature.outcome \in {"CONFIRMED", "FAILED"}
          => signature'.outcome = signature.outcome]_dfVars

\* "Nothing reached the network, so nothing failed: the claim is handed back":
\* once a node has taken a send of the envelope, the row never loses its hash,
\* and no other request sends it again.
HandedBackIsUntaken ==
  /\ taken => deployment.hash /\ deployment.status # "PENDING_SIGNATURE"
  /\ Cardinality({p \in Submitters : At(p, "sending") \/ At(p, "answered")
                                     \/ At(p, "handing")}) <= 1

\* "Try to win the race and confirm this deployment": whoever wins it, the
\* stream's first claim is scheduled once, unless the winner dies before.
FirstClaimAskedOnce ==
  LET asked == scheduled + Cardinality({p \in Actors : At(p, "scheduling")})
  IN  /\ asked <= IF deployment.status = "CONFIRMED" THEN 1 ELSE 0
      /\ deployment.status = "CONFIRMED" /\ deaths = 0 => asked = 1

\* "A recently submitted deployment must not disappear": one that is recorded
\* with its hash and has succeeded is confirmed without its owner or its
\* request, unless the claim is handed back to them.
SuccessIsConfirmed ==
  (landed.fate = "SUCCESS" /\ HasRow /\ deployment.hash)
    ~> \/ deployment.status = "CONFIRMED" /\ signature.outcome = "CONFIRMED"
       \/ ~deployment.hash
=============================================================================
