----------------------------- MODULE Retirement -----------------------------
(***************************************************************************)
(* lib/deployments/retirement.ts with the operator route of                *)
(* app/api/admin/deployments/[id]/settlement, composed with the admission  *)
(* layer of ServiceWork, whose database trigger alone guards serviceState  *)
(* there and whose Lifecycle action is replaced here by the code that      *)
(* moves a deployment from ACTIVE to RETIRING and on to RETIRED.           *)
(*                                                                         *)
(* A TICK is one call of reconcileRetirement.  The owner's POST runs one   *)
(* outside the cron's lease, so two of them may work on one deployment.    *)
(* A tick is named by the scope it admits to read the events with: the     *)
(* nested admission that pollEventsForWithOutcome makes opens and closes   *)
(* inside it, and is one with it here.                                     *)
(***************************************************************************)
EXTENDS ServiceWork

CONSTANTS
  Legacy,        \* the scope that stands for the "legacy-deployment-finality" row
  LegacyHash,    \* pairs <<d, h>>: h deployed d before transactions had rows
  Deployed,      \* the deployments that have a contract on the ledger
  Obligations    \* what else retirement waits for; a subset of AllObligations

\* "finality": an unresolved SignedTransaction or WalletControlIntent.
\* "deployment": the deploying transaction is not finalised in the row.
\* "claim": a StreamerClaimJob is RUNNING.
AllObligations == {"finality", "deployment", "claim"}

ASSUME RetirementAssumption ==
  /\ Legacy \in Scopes \ (Batches \cup Settlement \cup Reconcilers)
  /\ Settlement \cap Reconcilers = {}
  /\ LegacyHash \subseteq Deployments \X Hashes
  /\ Deployed \subseteq Deployments
  /\ Obligations \subseteq AllObligations

VARIABLES
  owing,        \* owing[d]: the obligations of d outside the admission tables
  cutoff,       \* cutoff[d]: {} while retirementCutoffLedger is null, else {c}
                \* with c.through the hashes included up to that ledger
  reconciled,   \* reconciled[d]: retirementReconciledAt is set
  gap,          \* gap[d]: retirementCoverageGap is set
  incomplete,   \* incomplete[d]: retirementBlocker begins with "Event coverage"
  at,           \* at[t]: where tick t is
  target,       \* target[t]: {d} for the deployment tick t works on, else {}
  todo,         \* todo[t]: the hashes and obligations tick t has still to read
  boundary      \* boundary[t]: {c} once tick t has read the latest ledger

recordVars == <<owing, cutoff, reconciled, gap, incomplete>>
tickVars   == <<at, target, todo, boundary>>
rVars      == <<swVars, recordVars, tickVars>>

Ordinary == Scopes \ (Settlement \cup {Legacy})
Ticks == Settlement
TickStates == {"idle", "finality", "ready", "boundary", "store", "coverage",
               "poll", "complete", "partial", "gapped", "conclude", "failed", "dead"}
NoTarget == {"idle", "dead"}

\* The latest ledger by one node: what is included through it, and, which nobody
\* can tell, what the network had included when this node had not seen it yet.
LatestLedgers == [through : SUBSET Hashes, unseen : SUBSET Hashes]

AtMostOne(S) == \A x, y \in S : x = y

RTypeOK ==
  /\ SWTypeOK
  /\ owing \in [Deployments -> SUBSET Obligations]
  /\ cutoff \in [Deployments -> SUBSET LatestLedgers]
  /\ \A d \in Deployments : AtMostOne(cutoff[d])
  /\ reconciled \in [Deployments -> BOOLEAN]
  /\ gap \in [Deployments -> BOOLEAN]
  /\ incomplete \in [Deployments -> BOOLEAN]
  /\ at \in [Ticks -> TickStates]
  /\ target \in [Ticks -> SUBSET Deployments]
  /\ \A t \in Ticks : AtMostOne(target[t]) /\ (target[t] = {} <=> at[t] \in NoTarget)
  /\ todo \in [Ticks -> SUBSET (Hashes \cup Obligations)]
  /\ boundary \in [Ticks -> SUBSET LatestLedgers]
  /\ \A t \in Ticks : AtMostOne(boundary[t])

IsLegacy(d, h) == <<d, h>> \in LegacyHash

\* A legacy deployment was submitted before admissions existed; the network may
\* have done anything with it since, and the row may not have been finalised.
RInit ==
  /\ NoWork
  /\ net \in [Hashes -> NetStates]
  /\ \A h \in Hashes : (net[h] = "absent") <=> ~\E d \in Deployments : IsLegacy(d, h)
  /\ owing \in [Deployments -> SUBSET (Obligations \cap {"deployment"})]
  /\ \A d \in Deployments : owing[d] # {} => \E h \in Hashes : IsLegacy(d, h)
  /\ cutoff = [d \in Deployments |-> {}]
  /\ reconciled = [d \in Deployments |-> FALSE]
  /\ gap = [d \in Deployments |-> FALSE]
  /\ incomplete = [d \in Deployments |-> FALSE]
  /\ at = [t \in Ticks |-> "idle"]
  /\ target = [t \in Ticks |-> {}]
  /\ todo = [t \in Ticks |-> {}]
  /\ boundary = [t \in Ticks |-> {}]

-----------------------------------------------------------------------------
(* The owner's request *)

\* The deploying transaction of a legacy deployment gets its first row now,
\* under completed work: nobody will submit it again, but it may be pending.
RequestRetirement(d) ==
  /\ serviceState[d] = "ACTIVE"
  /\ serviceState' = [serviceState EXCEPT ![d] = "RETIRING"]
  /\ LET found == {h \in Hashes : IsLegacy(d, h) /\ \A s \in Scopes : tx[s][d][h] = "none"} IN
       /\ tx' = [tx EXCEPT ![Legacy][d] =
                   [h \in Hashes |-> IF h \in found THEN "PENDING" ELSE @[h]]]
       /\ work' = [work EXCEPT ![Legacy][d] = IF found = {} THEN @ ELSE "DONE"]
  /\ incomplete' = [incomplete EXCEPT ![d] = FALSE]
  /\ UNCHANGED <<pc, parts, external, asked, call, wire, net>>
  /\ UNCHANGED <<owing, cutoff, reconciled, gap>> /\ UNCHANGED tickVars

-----------------------------------------------------------------------------
(* What admitted work leaves behind outside the admission tables *)

\* A request signs or prepares a transaction, submits a deployment, or a cron
\* claims a streaming milestone: always inside an admission that is not over.
Incur(s, d, o) ==
  /\ pc[s] = "running"
  /\ d \in parts[s]
  /\ owing' = [owing EXCEPT ![d] = @ \cup {o}]
  /\ UNCHANGED <<swVars, cutoff, reconciled, gap, incomplete>> /\ UNCHANGED tickVars

\* The code that incurred it, a status request or a cron settles it.
Discharge(s, d, o) ==
  /\ pc[s] = "running"
  /\ d \in parts[s]
  /\ owing' = [owing EXCEPT ![d] = @ \ {o}]
  /\ UNCHANGED <<swVars, cutoff, reconciled, gap, incomplete>> /\ UNCHANGED tickVars

\* The write of the event poll that finds its start ledger past RPC retention.
MissedHistory(d) ==
  IF serviceState[d] # "RETIRED" /\ ~gap[d]
  THEN /\ gap' = [gap EXCEPT ![d] = TRUE]
       /\ reconciled' = [reconciled EXCEPT ![d] = FALSE]
  ELSE UNCHANGED <<gap, reconciled>>

OrdinaryPoll(s, d) ==
  /\ pc[s] = "running"
  /\ d \in parts[s]
  /\ d \in Deployed
  /\ MissedHistory(d)
  /\ UNCHANGED <<swVars, owing, cutoff, incomplete>> /\ UNCHANGED tickVars

-----------------------------------------------------------------------------
(* What stands in the way of settlement *)

NoWorkLeft(d)     == \A s \in Scopes : work[s][d] \in {"none", "DONE"}
NoOpenWork(d)     == \A s \in Scopes : work[s][d] # "OPEN"
NothingPending(d) == \A s \in Scopes, h \in Hashes : tx[s][d][h] # "PENDING"

\* The counts of the transaction that precedes the cutoff.
Ready(d) == NoWorkLeft(d) /\ NothingPending(d) /\ "finality" \notin owing[d]

\* settlementBlocker returned null.
Unblocked(d) == NoWorkLeft(d) /\ NothingPending(d) /\ owing[d] = {}

-----------------------------------------------------------------------------
(* A tick: reconcileRetirement, one action per stretch between two awaits *)

\* Tick t moves on to `stage`; a tick that ends lets go of all it held.
Goto(t, stage) ==
  /\ at' = [at EXCEPT ![t] = stage]
  /\ target' = [target EXCEPT ![t] = IF stage \in NoTarget THEN {} ELSE @]
  /\ todo' = [todo EXCEPT ![t] = IF stage \in NoTarget THEN {} ELSE @]
  /\ boundary' = [boundary EXCEPT ![t] = IF stage \in NoTarget THEN {} ELSE @]

\* Mutant of Unsettled: only the rows of work in progress are looked up.
UnsettledInProgress(d, h) ==
  \E s \in Scopes : tx[s][d][h] = "PENDING" /\ work[s][d] # "DONE"

\* reconcileFinality looks up the PENDING hashes of the deployment.
Unsettled(d, h) == \E s \in Scopes : tx[s][d][h] = "PENDING"

\* Signed rows, control intents and the deployment's own row are read as well.
BeginTick(t, d) ==
  /\ at[t] = "idle"
  /\ pc[t] = "idle"
  /\ serviceState[d] = "RETIRING"
  /\ at' = [at EXCEPT ![t] = "finality"]
  /\ target' = [target EXCEPT ![t] = {d}]
  /\ todo' = [todo EXCEPT ![t] = {h \in Hashes : Unsettled(d, h)} \cup (owing[d] \ {"claim"})]
  /\ UNCHANGED <<swVars, recordVars, boundary>>

\* Mutant of LedgerKnows: a hash the provider does not find has failed.
NotFoundHasFailed(h) == net[h] # "queued"

LedgerKnows(h) == Decided(h)

\* The observation is forced: it projects a shared hash on every deployment.
TickObserve(t, h) ==
  /\ at[t] = "finality"
  /\ h \in todo[t]
  /\ LedgerKnows(h)
  /\ Observed(Deployments, h, IF net[h] = "SUCCESS" THEN "SUCCESS" ELSE "FAILED")
  /\ todo' = [todo EXCEPT ![t] = @ \ {h}]
  /\ UNCHANGED <<serviceState, work, pc, parts, external, asked, call, wire, net>>
  /\ UNCHANGED <<recordVars, at, target, boundary>>

TickDischarge(t, o) ==
  /\ at[t] = "finality"
  /\ o \in todo[t]
  /\ \E d \in target[t] : owing' = [owing EXCEPT ![d] = @ \ {o}]
  /\ todo' = [todo EXCEPT ![t] = @ \ {o}]
  /\ UNCHANGED <<swVars, cutoff, reconciled, gap, incomplete, at, target, boundary>>

\* Not found, not final or settled by another: a later tick reads it again.
TickMiss(t, x) ==
  /\ at[t] = "finality"
  /\ x \in todo[t]
  /\ todo' = [todo EXCEPT ![t] = @ \ {x}]
  /\ UNCHANGED <<swVars, recordVars, at, target, boundary>>

\* A deployment that is not finalised ends the tick; a cutoff once stored stays.
FinalityDone(t) ==
  /\ at[t] = "finality"
  /\ todo[t] = {}
  /\ \E d \in target[t] :
       IF "deployment" \in owing[d]
       THEN incomplete' = [incomplete EXCEPT ![d] = FALSE] /\ Goto(t, "idle")
       ELSE /\ Goto(t, IF cutoff[d] = {} THEN "ready" ELSE "coverage")
            /\ UNCHANGED incomplete
  /\ UNCHANGED <<swVars, owing, cutoff, reconciled, gap>>

\* Mutant of MayFixCutoff: the pending rows are counted, open work is not.
FixWhenNothingPending(d) == NothingPending(d)

MayFixCutoff(d) == Ready(d)

CountUnfinished(t) ==
  /\ at[t] = "ready"
  /\ \E d \in target[t] : Goto(t, IF MayFixCutoff(d) THEN "boundary" ELSE "coverage")
  /\ UNCHANGED <<swVars, recordVars>>

\* getLatestLedger, after the count has been committed and its lock released.
\* The node asked may be behind the one that told an outcome, so its latest
\* ledger may leave out some of what the network has included.
Included == {h \in Hashes : net[h] \in Final}

LatestLedger(missed) == [through |-> Included \ missed, unseen |-> missed]

\* A deployment without a contract has cutoff 0, before every ledger.
LedgerZero == [through |-> {}, unseen |-> {}]

ReadLatestLedger(t) ==
  /\ at[t] = "boundary"
  /\ \E missed \in SUBSET Included :
       boundary' = [boundary EXCEPT
         ![t] = {IF target[t] \subseteq Deployed THEN LatestLedger(missed) ELSE LedgerZero}]
  /\ at' = [at EXCEPT ![t] = "store"]
  /\ UNCHANGED <<swVars, recordVars, target, todo>>

\* Mutant of CutoffIsFree: the write does not look whether a cutoff is there.
CutoffIsOurs(d) == serviceState[d] = "RETIRING"

CutoffIsFree(d) == serviceState[d] = "RETIRING" /\ cutoff[d] = {}

StoreCutoff(t) ==
  /\ at[t] = "store"
  /\ \E d \in target[t] :
       cutoff' = [cutoff EXCEPT ![d] = IF CutoffIsFree(d) THEN boundary[t] ELSE @]
  /\ Goto(t, "coverage")
  /\ UNCHANGED <<swVars, owing, reconciled, gap, incomplete>>

NeedsCoverage(d) == cutoff[d] # {} /\ ~reconciled[d]

\* The row is read again: a gap ends the tick, and missing coverage is sought
\* under an admission of its own, which a RETIRED row refuses.
Coverage(t) ==
  /\ at[t] = "coverage"
  /\ \E d \in target[t] :
       \/ /\ gap[d]
          /\ incomplete' = [incomplete EXCEPT ![d] = TRUE]
          /\ Goto(t, "idle")
          /\ UNCHANGED <<swVars, reconciled>>
       \/ /\ ~gap[d] /\ ~NeedsCoverage(d)
          /\ Goto(t, "conclude")
          /\ UNCHANGED <<swVars, reconciled, incomplete>>
       \/ /\ ~gap[d] /\ NeedsCoverage(d) /\ d \notin Deployed
          /\ reconciled' = [reconciled EXCEPT ![d] = TRUE]
          /\ Goto(t, "conclude")
          /\ UNCHANGED <<swVars, incomplete>>
       \/ /\ ~gap[d] /\ NeedsCoverage(d) /\ d \in Deployed
          /\ AdmitWork(t, d)
          /\ Goto(t, "poll")
          /\ UNCHANGED <<reconciled, incomplete>>
  /\ UNCHANGED <<owing, cutoff, gap>>

\* The scan reaches the cutoff, stops before it, or starts past RPC retention.
TickPoll(t) ==
  /\ at[t] = "poll"
  /\ pc[t] = "running"
  /\ \E d \in target[t] :
       \/ Goto(t, "complete") /\ UNCHANGED <<gap, reconciled>>
       \/ Goto(t, "partial") /\ UNCHANGED <<gap, reconciled>>
       \/ Goto(t, "gapped") /\ MissedHistory(d)
  /\ UNCHANGED <<swVars, owing, cutoff, incomplete>>

PollThrows(t) ==
  /\ at[t] = "poll"
  /\ pc[t] = "running"
  /\ Goto(t, "failed")
  /\ UNCHANGED <<swVars, recordVars>>

\* What the scan said is written after its admission has been closed; neither
\* write asks whether the deployment is still RETIRING.
RecordCoverage(t) ==
  /\ pc[t] = "finished"
  /\ \E d \in target[t] :
       \/ /\ at[t] = "complete"
          /\ reconciled' = [reconciled EXCEPT ![d] = TRUE]
          /\ Goto(t, "conclude")
          /\ UNCHANGED <<gap, incomplete>>
       \/ /\ at[t] \in {"partial", "gapped"}
          /\ incomplete' = [incomplete EXCEPT ![d] = TRUE]
          /\ gap' = [gap EXCEPT ![d] = @ \/ at[t] = "gapped"]
          /\ Goto(t, "idle")
          /\ UNCHANGED reconciled
  /\ UNCHANGED <<swVars, owing, cutoff>>

\* Mutant of MayRetire: work BLOCKED by a fence or a relayer does not count.
RetireOverBlockedWork(d) ==
  NoOpenWork(d) /\ NothingPending(d) /\ owing[d] = {} /\ ~gap[d] /\ reconciled[d]

MayRetire(d) == Unblocked(d) /\ ~gap[d] /\ reconciled[d]

\* The last transaction, under the admission lock.
Conclude(t) ==
  /\ at[t] = "conclude"
  /\ \E d \in target[t] :
       \/ /\ serviceState[d] = "RETIRING" /\ MayRetire(d)
          /\ serviceState' = [serviceState EXCEPT ![d] = "RETIRED"]
          /\ incomplete' = [incomplete EXCEPT ![d] = FALSE]
       \/ /\ serviceState[d] = "RETIRING" /\ ~MayRetire(d)
          /\ incomplete' = [incomplete EXCEPT ![d] = Unblocked(d) /\ gap[d]]
          /\ UNCHANGED serviceState
       \/ serviceState[d] # "RETIRING" /\ UNCHANGED <<serviceState, incomplete>>
  /\ Goto(t, "idle")
  /\ UNCHANGED <<workVars, owing, cutoff, reconciled, gap>>

\* An error of the provider, of a conversion or of the database is thrown ...
Throw(t) ==
  /\ at[t] \notin NoTarget \cup {"failed"}
  /\ pc[t] \in {"idle", "finished"}
  /\ Goto(t, "failed")
  /\ UNCHANGED <<swVars, recordVars>>

\* ... and caught: the blocker becomes the fixed text, not one about coverage.
Catch(t) ==
  /\ at[t] = "failed"
  /\ pc[t] \in {"idle", "finished"}
  /\ \E d \in target[t] : incomplete' = [incomplete EXCEPT
        ![d] = IF serviceState[d] = "RETIRING" THEN FALSE ELSE @]
  /\ Goto(t, "idle")
  /\ UNCHANGED <<swVars, owing, cutoff, reconciled, gap>>

\* The process that runs the tick dies, and another one will run ticks.
TickCrash(t) ==
  /\ at[t] \notin NoTarget
  /\ IF pc[t] = "idle" THEN UNCHANGED swVars ELSE Crash(t)
  /\ Goto(t, "dead")
  /\ UNCHANGED recordVars

Restart(t) ==
  /\ at[t] = "dead"
  /\ Goto(t, "idle")
  /\ UNCHANGED <<swVars, recordVars>>

-----------------------------------------------------------------------------
(* The operator's attestations, each in one transaction under the lock.  An
   operator is free to fence any work, but attests only what is the case. *)

FenceWork(s, d) ==
  /\ serviceState[d] = "RETIRING"
  /\ work[s][d] = "OPEN"
  /\ work' = [work EXCEPT ![s][d] = "BLOCKED"]
  /\ UNCHANGED <<serviceState, tx, pc, parts, external, asked, call, wire, net>>
  /\ UNCHANGED <<recordVars, tickVars>>

VerifyTransaction(d, h) ==
  /\ serviceState[d] = "RETIRING"
  /\ NoOpenWork(d)
  /\ Unsettled(d, h)
  /\ Decided(h)
  /\ tx' = [s \in Scopes |-> [tx[s] EXCEPT ![d][h] = IF @ = "PENDING" THEN net[h] ELSE @]]
  /\ UNCHANGED <<serviceState, work, pc, parts, external, asked, call, wire, net>>
  /\ UNCHANGED <<recordVars, tickVars>>

\* The same for a signed row or the deployment's own, and for a claim.
VerifyObligation(d, o) ==
  /\ serviceState[d] = "RETIRING"
  /\ NoOpenWork(d)
  /\ o = "claim" => NothingPending(d)
  /\ o \in owing[d]
  /\ owing' = [owing EXCEPT ![d] = @ \ {o}]
  /\ UNCHANGED <<swVars, cutoff, reconciled, gap, incomplete>> /\ UNCHANGED tickVars

VerifyEvents(d) ==
  /\ serviceState[d] = "RETIRING"
  /\ gap[d] \/ incomplete[d]
  /\ cutoff[d] # {}
  /\ gap' = [gap EXCEPT ![d] = FALSE]
  /\ reconciled' = [reconciled EXCEPT ![d] = TRUE]
  /\ UNCHANGED <<swVars, owing, cutoff, incomplete>> /\ UNCHANGED tickVars

\* The worker cannot continue, and a relayer it asked has nothing left to report.
VerifyWork(s, d) ==
  /\ serviceState[d] = "RETIRING"
  /\ work[s][d] \in {"OPEN", "BLOCKED"}
  /\ \A h \in Hashes : tx[s][d][h] # "PENDING"
  /\ pc[s] \notin {"running", "closing"}
  /\ work' = [work EXCEPT ![s][d] = "DONE"]
  /\ asked' = [asked EXCEPT ![s] = FALSE]
  /\ UNCHANGED <<serviceState, tx, pc, parts, external, call, wire, net>>
  /\ UNCHANGED <<recordVars, tickVars>>

-----------------------------------------------------------------------------
OrdinaryStep(s) ==
  \/ (ScopeStep(s) \/ ReconcilerStep(s)) /\ UNCHANGED <<recordVars, tickVars>>
  \/ \E d \in Deployments : \/ OrdinaryPoll(s, d)
                           \/ \E o \in Obligations : Incur(s, d, o) \/ Discharge(s, d, o)

\* The admission a tick reads events under ends once the scan has an outcome.
TickScope(t) ==
  /\ \/ at[t] # "poll" /\ CloseWork(t)
     \/ PruneWork(t)
     \/ at[t] \in NoTarget /\ Recycle(t)
  /\ UNCHANGED <<recordVars, tickVars>>

Answerable(d, x) == \/ x \in Hashes /\ LedgerKnows(x) /\ Unsettled(d, x)
                    \/ x \in Obligations /\ x \in owing[d]

\* A tick goes forward ...
TickWork(t) ==
  \/ \E h \in Hashes : TickObserve(t, h)
  \/ \E o \in Obligations : TickDischarge(t, o)
  \/ \E x \in todo[t] : TickMiss(t, x) /\ \A d \in target[t] : ~Answerable(d, x)
  \/ FinalityDone(t) \/ CountUnfinished(t) \/ ReadLatestLedger(t) \/ StoreCutoff(t)
  \/ Coverage(t) \/ TickPoll(t) \/ RecordCoverage(t) \/ Conclude(t)
  \/ TickScope(t) \/ Catch(t) \/ Restart(t)

\* ... unless the process dies or the provider does not do its part.
TickTrouble(t) ==
  \/ TickCrash(t) \/ Throw(t) \/ PollThrows(t)
  \/ \E x \in todo[t] : TickMiss(t, x) /\ \E d \in target[t] : Answerable(d, x)

TickStep(t) == TickWork(t) \/ TickTrouble(t) \/ \E d \in Deployments : BeginTick(t, d)

OperatorStep(d) ==
  \/ VerifyEvents(d)
  \/ \E s \in Scopes : FenceWork(s, d) \/ VerifyWork(s, d)
  \/ \E h \in Hashes : VerifyTransaction(d, h)
  \/ \E o \in Obligations : VerifyObligation(d, o)

RNext ==
  \/ \E s \in Ordinary : OrdinaryStep(s)
  \/ Network /\ UNCHANGED <<recordVars, tickVars>>
  \/ \E t \in Ticks : TickStep(t)
  \/ \E d \in Deployments : RequestRetirement(d) \/ OperatorStep(d)

RSpec == RInit /\ [][RNext]_rVars

-----------------------------------------------------------------------------
(***************************************************************************)
(* Fairness.  The minute cron keeps starting ticks and a started tick goes *)
(* on; at some point processes stop dying and the provider answers what it *)
(* knows.  Requests end.  The network decides every hash or lets it pass.  *)
(* An operator attends to dead workers, events and claims, in any order.   *)
(* Nobody is obliged to retire anything, or to send another request.       *)
(***************************************************************************)
RFairness ==
  /\ \A t \in Ticks : /\ WF_rVars(\E d \in Deployments : BeginTick(t, d))
                       /\ WF_rVars(TickWork(t))
  /\ <>[][~\E t \in Ticks : TickTrouble(t)]_rVars
  /\ \A s \in Ordinary : WF_rVars(OrdinaryStep(s) /\ (CloseWork(s) \/ PruneWork(s)))
  /\ \A h \in Hashes : WF_rVars((Include(h) \/ Expire(h)) /\ UNCHANGED <<recordVars, tickVars>>)
  /\ \A d \in Deployments :
       /\ WF_rVars(VerifyEvents(d))
       /\ \A o \in Obligations : WF_rVars(VerifyObligation(d, o))
       /\ \A s \in Scopes : /\ WF_rVars(pc[s] = "dead" /\ FenceWork(s, d))
                             /\ WF_rVars(VerifyWork(s, d))

RLiveSpec == RSpec /\ RFairness

-----------------------------------------------------------------------------
(* What retirement guarantees *)

(***************************************************************************)
(* RETIRED means settled, and stays so: every admission of the deployment  *)
(* is DONE, no transaction row is PENDING, nothing else is owed, whoever   *)
(* crashed, was fenced or still ran when the last count was taken          *)
(* (settlementBlocker under the admission lock).                           *)
(***************************************************************************)
RetiredIsSettled == \A d \in Deployments : serviceState[d] = "RETIRED" => Unblocked(d)

(***************************************************************************)
(* Money at rest: of the transactions that a scope admitted for a retired  *)
(* deployment recorded or put on the wire, none is still queued, and none  *)
(* that will yet be handed to a node can be queued by that.                *)
(***************************************************************************)
Carried(s, d, h) == tx[s][d][h] # "none" \/ (d \in parts[s] /\ <<s, h>> \in wire)

RetiredLeavesNothingInFlight ==
  \A d \in Deployments, h \in Hashes \ Reposted, s \in Scopes :
    (serviceState[d] = "RETIRED" /\ Carried(s, d, h))
      => /\ net[h] # "queued"
         /\ (\E r \in Scopes : call[r][h] = "recorded") => net[h] # "absent"

(***************************************************************************)
(* The cutoff is read late enough: whatever the service recorded for the   *)
(* deployment and the network includes, now or ever, was included when the *)
(* latest ledger was asked for.  Its events lie up to the cutoff and are   *)
(* read before the deployment retires, except those of ledgers that the    *)
(* node which answered had not seen: that node may lag the one that told   *)
(* the outcome, and nothing in the code compares the two.                  *)
(***************************************************************************)
CutoffCoversSubmissions ==
  \A d \in Deployed, h \in Hashes \ Reposted, s \in Scopes :
    (tx[s][d][h] # "none" /\ net[h] \in Final)
      => \A c \in cutoff[d] : h \in c.through \cup c.unseen

(***************************************************************************)
(* No step goes back on retirement: the lifecycle only moves forward, the  *)
(* cutoff is fixed once though ticks overlap, and nothing is admitted,     *)
(* recorded or owed for a RETIRED deployment any more.                     *)
(***************************************************************************)
RetirementIsIrrevocable ==
  [][\A d \in Deployments :
       /\ serviceState[d] # "ACTIVE" => serviceState'[d] # "ACTIVE"
       /\ cutoff[d] # {} => cutoff'[d] = cutoff[d]
       /\ serviceState[d] = "RETIRED" =>
            /\ serviceState'[d] = "RETIRED"
            /\ owing'[d] = {}
            /\ \A s \in Scopes : tx'[s][d] = tx[s][d]
            /\ \A s \in Scopes : work'[s][d] \in {work[s][d], "none"}]_rVars

(***************************************************************************)
(* Coverage is only ever claimed through a cutoff that has been fixed, and *)
(* a deployment retires with that claim made.                              *)
(***************************************************************************)
CoverageFollowsCutoff ==
  \A d \in Deployments :
    /\ reconciled[d] => cutoff[d] # {}
    /\ serviceState[d] = "RETIRED" => reconciled[d]

(***************************************************************************)
(* Retirement implements Drain: an admission is owed while its row is not  *)
(* DONE or one of its transactions is PENDING.                             *)
(***************************************************************************)
Owed(d) == {s \in Scopes : \/ work[s][d] \in {"OPEN", "BLOCKED"}
                          \/ \E h \in Hashes : tx[s][d][h] = "PENDING"}

Abstract == INSTANCE Drain WITH phase <- serviceState, owed <- [d \in Deployments |-> Owed(d)]

DrainSpec == Abstract!Spec

(***************************************************************************)
(* A requested retirement completes, whatever was in progress or died when *)
(* it was requested, unless a recorded transaction expired unseen: nothing *)
(* proves its absence, so it blocks for good.                              *)
(***************************************************************************)
RetirementCompletes ==
  \A d \in Deployments :
    serviceState[d] = "RETIRING"
      ~> \/ serviceState[d] = "RETIRED"
         \/ \E h \in Hashes : Unsettled(d, h) /\ net[h] = "expired"
=============================================================================
