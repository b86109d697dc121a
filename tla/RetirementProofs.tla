-------------------------- MODULE RetirementProofs --------------------------
(***************************************************************************)
(* What retirement promises, for any number of deployments, scopes,        *)
(* overlapping ticks and hashes: RETIRED means settled, nothing is in      *)
(* flight then, the cutoff covers every submission, no step goes back, and *)
(* the whole implements the abstract Drain.                                *)
(***************************************************************************)
EXTENDS Retirement, ServiceWorkProofs

-----------------------------------------------------------------------------
(* Type correctness *)

\* What the steps of the admission layer leave to this module.
RecordTypeOK ==
  /\ owing \in [Deployments -> SUBSET Obligations]
  /\ cutoff \in [Deployments -> SUBSET LatestLedgers]
  /\ \A d \in Deployments : AtMostOne(cutoff[d])
  /\ reconciled \in [Deployments -> BOOLEAN]
  /\ gap \in [Deployments -> BOOLEAN]
  /\ incomplete \in [Deployments -> BOOLEAN]

TickTypeOK ==
  /\ at \in [Ticks -> TickStates]
  /\ target \in [Ticks -> SUBSET Deployments]
  /\ \A t \in Ticks : AtMostOne(target[t]) /\ (target[t] = {} <=> at[t] \in NoTarget)
  /\ todo \in [Ticks -> SUBSET (Hashes \cup Obligations)]
  /\ boundary \in [Ticks -> SUBSET LatestLedgers]
  /\ \A t \in Ticks : AtMostOne(boundary[t])

LEMMA TypeParts ==
  /\ RTypeOK <=> SWTypeOK /\ RecordTypeOK /\ TickTypeOK
  /\ RTypeOK' <=> SWTypeOK' /\ RecordTypeOK' /\ TickTypeOK'
BY DEF RTypeOK, RecordTypeOK, TickTypeOK

LEMMA GotoType ==
  ASSUME TickTypeOK, NEW t \in Ticks, at[t] \notin NoTarget, NEW stage \in TickStates,
         Goto(t, stage)
  PROVE  TickTypeOK'
BY DEF TickTypeOK, Goto, AtMostOne, NoTarget

LEMMA RestartType ==
  ASSUME TickTypeOK, NEW t \in Ticks, Restart(t)
  PROVE  TickTypeOK'
BY DEF TickTypeOK, Restart, Goto, AtMostOne, NoTarget, TickStates

LEMMA OrdinaryStepType ==
  ASSUME RTypeOK, NEW s \in Scopes, OrdinaryStep(s)
  PROVE  RTypeOK'
<1> USE TypeParts
<1>1. CASE (ScopeStep(s) \/ ReconcilerStep(s)) /\ UNCHANGED <<recordVars, tickVars>>
  <2>1. SWTypeOK'
    BY <1>1, ScopeStepType, ReconcilerStepType
  <2> QED BY <1>1, <2>1 DEF RecordTypeOK, TickTypeOK, recordVars, tickVars
<1>2. ASSUME NEW d \in Deployments,
             OrdinaryPoll(s, d) \/ \E o \in Obligations : Incur(s, d, o) \/ Discharge(s, d, o)
      PROVE  RTypeOK'
  <2>1. SWTypeOK' /\ TickTypeOK'
    BY <1>2 DEF OrdinaryPoll, Incur, Discharge, swVars, tickVars, SWTypeOK, TickTypeOK
  <2>2. RecordTypeOK'
    BY <1>2, ZenonT(60) DEF OrdinaryPoll, Incur, Discharge, MissedHistory, RecordTypeOK
  <2> QED BY <2>1, <2>2
<1> QED BY <1>1, <1>2 DEF OrdinaryStep

LEMMA TickScopeIsScopeStep ==
  ASSUME NEW t \in Ticks, TickScope(t)
  PROVE  ScopeStep(t) /\ UNCHANGED <<recordVars, tickVars>>
BY DEF TickScope, ScopeStep

LEMMA TickReadType ==
  ASSUME RTypeOK, NEW t \in Ticks,
         \/ \E h \in Hashes : TickObserve(t, h)
         \/ \E o \in Obligations : TickDischarge(t, o)
         \/ \E x \in todo[t] : TickMiss(t, x)
         \/ \E d \in Deployments : BeginTick(t, d)
  PROVE  RTypeOK'
<1> USE TypeParts
<1>1. ASSUME NEW h \in Hashes, TickObserve(t, h) PROVE RTypeOK'
  <2> DEFINE seen == IF net[h] = "SUCCESS" THEN "SUCCESS" ELSE "FAILED"
  <2>1. seen \in TxStates /\ Observed(Deployments, h, seen)
    BY <1>1 DEF TickObserve, TxStates
  <2>2. SWTypeOK'
    BY <1>1, <2>1, ObservedType DEF TickObserve, SWTypeOK
  <2>3. RecordTypeOK' /\ TickTypeOK'
    BY <1>1 DEF TickObserve, RecordTypeOK, TickTypeOK, recordVars
  <2> QED BY <2>2, <2>3
<1>2. ASSUME NEW o \in Obligations, TickDischarge(t, o) PROVE RTypeOK'
  <2>1. SWTypeOK' /\ TickTypeOK'
    BY <1>2 DEF TickDischarge, SWTypeOK, swVars, TickTypeOK
  <2>2. RecordTypeOK'
    BY <1>2 DEF TickDischarge, RecordTypeOK, TickTypeOK
  <2> QED BY <2>1, <2>2
<1>3. ASSUME NEW x \in todo[t], TickMiss(t, x) PROVE RTypeOK'
  BY <1>3 DEF TickMiss, SWTypeOK, swVars, RecordTypeOK, recordVars, TickTypeOK
<1>4. ASSUME NEW d \in Deployments, BeginTick(t, d) PROVE RTypeOK'
  <2>1. SWTypeOK' /\ RecordTypeOK'
    BY <1>4 DEF BeginTick, SWTypeOK, swVars, RecordTypeOK, recordVars
  <2>2. TickTypeOK'
    BY <1>4 DEF BeginTick, RecordTypeOK, TickTypeOK, AtMostOne, NoTarget, TickStates
  <2> QED BY <2>1, <2>2
<1> QED BY <1>1, <1>2, <1>3, <1>4

\* The stages that neither submit nor touch a row of the admission layer.
LEMMA TickStageType ==
  ASSUME RTypeOK, NEW t \in Ticks,
         \/ FinalityDone(t) \/ CountUnfinished(t) \/ ReadLatestLedger(t)
         \/ StoreCutoff(t) \/ TickPoll(t) \/ PollThrows(t) \/ RecordCoverage(t)
         \/ Throw(t) \/ Catch(t) \/ Restart(t)
  PROVE  RTypeOK'
<1> USE TypeParts
<1>1. SWTypeOK'
  BY DEF FinalityDone, CountUnfinished, ReadLatestLedger, StoreCutoff, TickPoll, PollThrows,
     RecordCoverage, Throw, Catch, Restart, SWTypeOK, swVars
<1>2. CASE FinalityDone(t)
  BY <1>1, <1>2, GotoType DEF FinalityDone, RecordTypeOK, TickStates, NoTarget
<1>3. CASE CountUnfinished(t)
  BY <1>1, <1>3, GotoType DEF CountUnfinished, RecordTypeOK, recordVars, TickStates, NoTarget
<1>4. CASE ReadLatestLedger(t)
  <2>1. RecordTypeOK'
    BY <1>4 DEF ReadLatestLedger, RecordTypeOK, recordVars
  <2>2. PICK c \in LatestLedgers : boundary' = [boundary EXCEPT ![t] = {c}]
    <3>1. \A missed \in SUBSET Included : LatestLedger(missed) \in LatestLedgers
      BY DEF LatestLedger, LatestLedgers, Included
    <3>2. LedgerZero \in LatestLedgers
      BY DEF LedgerZero, LatestLedgers
    <3> QED BY <1>4, <3>1, <3>2 DEF ReadLatestLedger
  <2>3. boundary' \in [Ticks -> SUBSET LatestLedgers] /\ \A r \in Ticks : AtMostOne(boundary'[r])
    BY <2>2 DEF TickTypeOK, AtMostOne
  <2>4. TickTypeOK'
    BY <1>4, <2>3 DEF ReadLatestLedger, TickTypeOK, TickStates, AtMostOne, NoTarget
  <2> QED BY <1>1, <2>1, <2>4
<1>5. CASE StoreCutoff(t)
  <2>1. RecordTypeOK'
    BY <1>5 DEF StoreCutoff, RecordTypeOK, TickTypeOK
  <2> QED BY <1>1, <1>5, <2>1, GotoType DEF StoreCutoff, TickStates, NoTarget
<1>6. CASE TickPoll(t)
  <2>1. RecordTypeOK'
    BY <1>6 DEF TickPoll, MissedHistory, RecordTypeOK
  <2> QED BY <1>1, <1>6, <2>1, GotoType DEF TickPoll, TickStates, NoTarget
<1>7. CASE PollThrows(t) \/ Throw(t)
  BY <1>1, <1>7, GotoType DEF PollThrows, Throw, RecordTypeOK, recordVars, TickStates, NoTarget
<1>8. CASE RecordCoverage(t)
  <2>1. RecordTypeOK'
    BY <1>8 DEF RecordCoverage, RecordTypeOK
  <2> QED BY <1>1, <1>8, <2>1, GotoType DEF RecordCoverage, TickStates, NoTarget
<1>9. CASE Catch(t)
  <2>1. RecordTypeOK'
    BY <1>9 DEF Catch, RecordTypeOK
  <2> QED BY <1>1, <1>9, <2>1, GotoType DEF Catch, TickStates, NoTarget
<1>10. CASE Restart(t)
  <2>1. RecordTypeOK'
    BY <1>10 DEF Restart, RecordTypeOK, recordVars
  <2> QED BY <1>1, <1>10, <2>1, RestartType
<1> QED BY <1>2, <1>3, <1>4, <1>5, <1>6, <1>7, <1>8, <1>9, <1>10

LEMMA TickRestType ==
  ASSUME RTypeOK, NEW t \in Ticks,
         Coverage(t) \/ Conclude(t) \/ TickCrash(t) \/ TickScope(t)
  PROVE  RTypeOK'
<1> USE TypeParts
<1>1. CASE Coverage(t)
  <2>1. PICK d \in target[t] :
          \/ UNCHANGED swVars
          \/ AdmitWork(t, d)
    BY <1>1 DEF Coverage
  <2>2. d \in Deployments /\ t \in Scopes
    BY ServiceWorkAssumption DEF TickTypeOK, Ticks
  <2>3. SWTypeOK'
    <3>1. CASE UNCHANGED swVars
      BY <3>1 DEF SWTypeOK, swVars
    <3>2. CASE AdmitWork(t, d)
      BY <2>2, <3>2, ScopeStepType DEF ScopeStep
    <3> QED BY <2>1, <3>1, <3>2
  <2>4. RecordTypeOK'
    BY <1>1 DEF Coverage, RecordTypeOK
  <2>5. TickTypeOK'
    BY <1>1, GotoType DEF Coverage, TickStates, NoTarget
  <2> QED BY <2>3, <2>4, <2>5
<1>2. CASE Conclude(t)
  <2>1. SWTypeOK'
    BY <1>2 DEF Conclude, SWTypeOK, workVars, ServiceStates
  <2>2. RecordTypeOK'
    BY <1>2 DEF Conclude, RecordTypeOK
  <2> QED BY <1>2, <2>1, <2>2, GotoType DEF Conclude, TickStates, NoTarget
<1>3. CASE TickCrash(t)
  <2>1. t \in Scopes
    BY ServiceWorkAssumption DEF Ticks
  <2>2. SWTypeOK'
    BY <1>3, <2>1, ScopeStepType DEF TickCrash, ScopeStep, SWTypeOK, swVars
  <2>3. RecordTypeOK'
    BY <1>3 DEF TickCrash, RecordTypeOK, recordVars
  <2> QED BY <1>3, <2>2, <2>3, GotoType DEF TickCrash, TickStates, NoTarget
<1>4. CASE TickScope(t)
  <2>1. t \in Scopes
    BY ServiceWorkAssumption DEF Ticks
  <2>2. SWTypeOK'
    BY <1>4, <2>1, TickScopeIsScopeStep, ScopeStepType
  <2> QED BY <1>4, <2>2 DEF TickScope, RecordTypeOK, TickTypeOK, recordVars, tickVars
<1> QED BY <1>1, <1>2, <1>3, <1>4

LEMMA OwnerStepType ==
  ASSUME RTypeOK, NEW d \in Deployments, RequestRetirement(d) \/ OperatorStep(d)
  PROVE  RTypeOK'
<1> USE TypeParts
<1>1. TickTypeOK'
  BY DEF RequestRetirement, OperatorStep, VerifyEvents, FenceWork, VerifyWork,
     VerifyTransaction, VerifyObligation, TickTypeOK, tickVars
<1>2. RecordTypeOK'
  BY DEF RequestRetirement, OperatorStep, VerifyEvents, FenceWork, VerifyWork,
     VerifyTransaction, VerifyObligation, RecordTypeOK, recordVars
<1>3. CASE RequestRetirement(d)
  BY <1>1, <1>2, <1>3, RetirementAssumption
  DEF RequestRetirement, SWTypeOK, ServiceStates, WorkStates, TxStates
<1>4. CASE VerifyEvents(d) \/ \E o \in Obligations : VerifyObligation(d, o)
  BY <1>1, <1>2, <1>4 DEF VerifyEvents, VerifyObligation, SWTypeOK, swVars
<1>5. ASSUME NEW s \in Scopes, FenceWork(s, d) PROVE RTypeOK'
  BY <1>1, <1>2, <1>5 DEF FenceWork, SWTypeOK, WorkStates
<1>6. ASSUME NEW s \in Scopes, VerifyWork(s, d) PROVE RTypeOK'
  BY <1>1, <1>2, <1>6 DEF VerifyWork, SWTypeOK, WorkStates
<1>7. ASSUME NEW h \in Hashes, VerifyTransaction(d, h) PROVE RTypeOK'
  <2>1. net[h] \in TxStates
    BY <1>7 DEF VerifyTransaction, Decided, Final, TxStates
  <2> QED BY <1>1, <1>2, <1>7, <2>1 DEF VerifyTransaction, SWTypeOK
<1> QED BY <1>3, <1>4, <1>5, <1>6, <1>7 DEF OperatorStep

(***************************************************************************)
(* Every variable keeps its type, and at most one cutoff is ever stored.   *)
(***************************************************************************)
THEOREM RetirementTypeCorrect == RSpec => []RTypeOK
<1>1. RInit => RTypeOK
  <2> SUFFICES ASSUME RInit PROVE RTypeOK
    OBVIOUS
  <2>1. SWTypeOK
    BY NoWorkType DEF RInit
  <2>2. RecordTypeOK /\ TickTypeOK
    BY DEF RInit, RecordTypeOK, TickTypeOK, AtMostOne, TickStates, NoTarget
  <2> QED BY <2>1, <2>2, TypeParts
<1>2. RTypeOK /\ [RNext]_rVars => RTypeOK'
  <2> SUFFICES ASSUME RTypeOK, [RNext]_rVars PROVE RTypeOK'
    OBVIOUS
  <2>1. ASSUME NEW s \in Ordinary, OrdinaryStep(s) PROVE RTypeOK'
    BY <2>1, OrdinaryStepType DEF Ordinary
  <2>2. CASE Network /\ UNCHANGED <<recordVars, tickVars>>
    BY <2>2, TypeParts, NetworkType DEF RecordTypeOK, TickTypeOK, recordVars, tickVars
  <2>3. ASSUME NEW t \in Ticks, TickStep(t) PROVE RTypeOK'
    BY <2>3, TickReadType, TickStageType, TickRestType DEF TickStep, TickWork, TickTrouble
  <2>4. ASSUME NEW d \in Deployments, RequestRetirement(d) \/ OperatorStep(d) PROVE RTypeOK'
    BY <2>4, OwnerStepType
  <2>5. CASE UNCHANGED rVars
    BY <2>5, TypeParts DEF rVars, swVars, recordVars, tickVars, SWTypeOK, RecordTypeOK, TickTypeOK
  <2> QED BY <2>1, <2>2, <2>3, <2>4, <2>5 DEF RNext
<1> QED BY <1>1, <1>2, PTL DEF RSpec

-----------------------------------------------------------------------------
(* Settlement.  RetiredIsSettled is not inductive: that nothing is owed    *)
(* any more has to exclude a scope that could still owe something.         *)

\* A scope that runs still has its row, OPEN or fenced.
RunningHasWork ==
  \A s \in Scopes : pc[s] = "running" =>
    \A d \in parts[s] : work[s][d] \in {"OPEN", "BLOCKED"}

\* Nothing ever runs as the scope of the legacy rows.
LegacyNeverRuns == pc[Legacy] = "idle"

SettlementInv == OpaqueInv /\ RunningHasWork /\ LegacyNeverRuns /\ RetiredIsSettled

LEMMA RunningScopeStep ==
  ASSUME SWTypeOK, RunningHasWork, NEW s \in Scopes, ScopeStep(s) \/ ReconcilerStep(s)
  PROVE  RunningHasWork'
<1>1. ASSUME NEW d \in Deployments, AdmitWork(s, d) PROVE RunningHasWork'
  BY <1>1 DEF AdmitWork, Open, RunningHasWork, SWTypeOK
<1>2. ASSUME NEW D \in SUBSET Deployments, AdmitBatch(s, D) PROVE RunningHasWork'
  BY <1>2 DEF AdmitBatch, Open, StillActive, RunningHasWork, SWTypeOK
<1>3. CASE CloseWork(s) \/ PruneWork(s) \/ Recycle(s) \/ Crash(s)
  <2>1. /\ pc'[s] # "running"
        /\ \A r \in Scopes \ {s} : /\ pc'[r] = pc[r] /\ parts'[r] = parts[r]
                                   /\ work'[r] = work[r]
    <3>1. CASE CloseWork(s)
      BY <3>1 DEF CloseWork, SWTypeOK
    <3>2. CASE PruneWork(s)
      BY <3>2 DEF PruneWork, SWTypeOK
    <3>3. CASE Recycle(s) \/ Crash(s)
      BY <3>3 DEF Recycle, Crash, SWTypeOK
    <3> QED BY <1>3, <3>1, <3>2, <3>3
  <2> QED BY <2>1 DEF RunningHasWork
<1>4. CASE BeforeExternalRelayer(s)
  BY <1>4 DEF BeforeExternalRelayer, RunningHasWork
<1>5. ASSUME NEW h \in Hashes,
             \/ BeforeServiceSubmission(s, h) \/ Deliver(s, h) \/ Lose(s, h)
             \/ Refuse(s, h) \/ ObserveRefusal(s, h) \/ ObserveFinality(s, h)
             \/ ObserveExternalRelayer(s, h)
      PROVE  RunningHasWork'
  BY <1>5 DEF BeforeServiceSubmission, Deliver, Lose, Refuse, ObserveRefusal,
     ObserveFinality, ObserveExternalRelayer, RunningHasWork
<1>6. ASSUME NEW h \in Hashes, NEW d \in Deployments, ReconcileAdmit(s, d, h)
      PROVE  RunningHasWork'
  BY <1>6 DEF ReconcileAdmit, Open, RunningHasWork, SWTypeOK
<1>7. ASSUME NEW h \in Hashes, ReconcileFound(s, h) \/ ReconcileMissed(s, h)
      PROVE  RunningHasWork'
  BY <1>7 DEF ReconcileFound, ReconcileMissed, RunningHasWork
<1> QED BY <1>1, <1>2, <1>3, <1>4, <1>5, <1>6, <1>7 DEF ScopeStep, ReconcilerStep

\* An observation makes no row PENDING.
LEMMA ObservedPending ==
  ASSUME SWTypeOK, NEW E, NEW h \in Hashes, NEW state, state # "PENDING",
         Observed(E, h, state), NEW d \in Deployments, NothingPending(d)
  PROVE  NothingPending(d)'
BY DEF SWTypeOK, Observed, NothingPending

\* The admission layer never brings a retired deployment back into debt.
LEMMA SettledScopeStep ==
  ASSUME SWTypeOK, OpaqueInv, NEW s \in Scopes, ScopeStep(s) \/ ReconcilerStep(s),
         NEW d \in Deployments, serviceState[d] = "RETIRED",
         NoWorkLeft(d), NothingPending(d)
  PROVE  /\ serviceState'[d] = "RETIRED"
         /\ NoWorkLeft(d)' /\ NothingPending(d)'
<1> DEFINE Goal == /\ serviceState'[d] = "RETIRED"
                   /\ NoWorkLeft(d)' /\ NothingPending(d)'
<1>1. ASSUME NEW e \in Deployments, AdmitWork(s, e) PROVE Goal
  BY <1>1 DEF AdmitWork, Open, MayAdmit, NoWorkLeft, NothingPending, SWTypeOK
<1>2. ASSUME NEW E \in SUBSET Deployments, AdmitBatch(s, E) PROVE Goal
  BY <1>2 DEF AdmitBatch, Open, StillActive, NoWorkLeft, NothingPending, SWTypeOK
<1>3. CASE CloseWork(s) \/ PruneWork(s) \/ Recycle(s)
  <2>1. /\ UNCHANGED <<serviceState, tx>>
        /\ \A r \in Scopes : work'[r][d] \in {work[r][d], "none"}
    <3>1. CASE CloseWork(s)
      BY <3>1 DEF CloseWork, NoWorkLeft, SWTypeOK
    <3>2. CASE PruneWork(s)
      BY <3>2 DEF PruneWork, SWTypeOK
    <3>3. CASE Recycle(s)
      BY <3>3 DEF Recycle, SWTypeOK
    <3> QED BY <1>3, <3>1, <3>2, <3>3
  <2> QED BY <2>1 DEF NoWorkLeft, NothingPending
<1>4. CASE Crash(s) \/ BeforeExternalRelayer(s)
  BY <1>4 DEF Crash, BeforeExternalRelayer, NoWorkLeft, NothingPending
<1>5. ASSUME NEW h \in Hashes, BeforeServiceSubmission(s, h) PROVE Goal
  BY <1>5 DEF BeforeServiceSubmission, AdmissionStands, Participants, NoWorkLeft,
     NothingPending, SWTypeOK
<1>6. ASSUME NEW h \in Hashes, Deliver(s, h) \/ Lose(s, h) \/ Refuse(s, h) PROVE Goal
  BY <1>6 DEF Deliver, Lose, Refuse, NoWorkLeft, NothingPending
<1>7. ASSUME NEW h \in Hashes, ObserveRefusal(s, h) PROVE Goal
  BY <1>7, ObservedPending DEF ObserveRefusal, RefusalState, NoWorkLeft
<1>8. ASSUME NEW h \in Hashes, ObserveFinality(s, h) \/ ReconcileFound(s, h) PROVE Goal
  BY <1>8, ObservedPending DEF ObserveFinality, ReconcileFound, Decided, Final, NoWorkLeft
<1>9. ASSUME NEW h \in Hashes, ObserveExternalRelayer(s, h) PROVE Goal
  <2>1. d \notin parts[s]
    BY <1>9 DEF ObserveExternalRelayer, OpaqueInv, Remembered, NoWorkLeft
  <2>2. \A r \in Scopes : tx'[r][d] = tx[r][d]
    BY <1>9, <2>1 DEF ObserveExternalRelayer, SWTypeOK
  <2> QED BY <1>9, <2>2 DEF ObserveExternalRelayer, NoWorkLeft, NothingPending
<1>10. ASSUME NEW h \in Hashes, NEW e \in Deployments, ReconcileAdmit(s, e, h) PROVE Goal
  BY <1>10 DEF ReconcileAdmit, Open, NoWorkLeft, NothingPending, SWTypeOK
<1>11. ASSUME NEW h \in Hashes, ReconcileMissed(s, h) PROVE Goal
  BY <1>11 DEF ReconcileMissed, NoWorkLeft, NothingPending
<1> QED BY <1>1, <1>2, <1>3, <1>4, <1>5, <1>6, <1>7, <1>8, <1>9, <1>10, <1>11
        DEF ScopeStep, ReconcilerStep

\* A step of the admission layer, by a request, a cron or a tick's own admission.
LEMMA SettlementScopeStep ==
  ASSUME SWTypeOK, SettlementInv, NEW s \in Scopes \ {Legacy},
         ScopeStep(s) \/ ReconcilerStep(s), UNCHANGED <<serviceState, owing>>
  PROVE  SettlementInv'
<1>1. OpaqueInv' /\ RunningHasWork'
  BY OpaqueInvStep, RunningScopeStep DEF SettlementInv
<1>2. LegacyNeverRuns'
  BY ScopesApart, RetirementAssumption DEF SettlementInv, LegacyNeverRuns
<1>3. RetiredIsSettled'
  BY SettledScopeStep DEF SettlementInv, RetiredIsSettled, Unblocked
<1> QED BY <1>1, <1>2, <1>3 DEF SettlementInv

\* A step that writes none of the tables the invariant is about.
LEMMA SettlementAside ==
  ASSUME SettlementInv, UNCHANGED <<serviceState, work, tx, pc, parts, external, asked, owing>>
  PROVE  SettlementInv'
BY DEF SettlementInv, OpaqueInv, Remembered, RunningHasWork, LegacyNeverRuns, RetiredIsSettled,
   Unblocked, NoWorkLeft, NothingPending

\* A step that only observes transactions or settles other obligations.
LEMMA SettlementShrinks ==
  ASSUME SettlementInv, UNCHANGED <<serviceState, work, pc, parts, external, asked>>,
         \A d \in Deployments : NothingPending(d) => NothingPending(d)',
         \A d \in Deployments : owing[d] = {} => owing'[d] = {}
  PROVE  SettlementInv'
BY DEF SettlementInv, OpaqueInv, Remembered, RunningHasWork, LegacyNeverRuns, RetiredIsSettled,
   Unblocked, NoWorkLeft

LEMMA SettlementOrdinaryStep ==
  ASSUME RTypeOK, SettlementInv, NEW s \in Ordinary, OrdinaryStep(s)
  PROVE  SettlementInv'
<1>1. CASE (ScopeStep(s) \/ ReconcilerStep(s)) /\ UNCHANGED <<recordVars, tickVars>>
  <2>1. CASE UNCHANGED serviceState
    BY <1>1, <2>1, SettlementScopeStep DEF RTypeOK, Ordinary, recordVars
  <2>2. UNCHANGED serviceState
    BY <1>1 DEF ScopeStep, AdmitWork, AdmitBatch, CloseWork, PruneWork, Recycle, Crash,
       BeforeExternalRelayer, BeforeServiceSubmission, Deliver, Lose, Refuse, ObserveRefusal,
       ObserveFinality, ObserveExternalRelayer, ReconcilerStep, ReconcileAdmit,
       ReconcileFound, ReconcileMissed
  <2> QED BY <2>1, <2>2
<1>2. ASSUME NEW d \in Deployments, OrdinaryPoll(s, d) PROVE SettlementInv'
  BY <1>2, SettlementAside DEF OrdinaryPoll, swVars
<1>3. ASSUME NEW d \in Deployments, NEW o \in Obligations, Incur(s, d, o) PROVE SettlementInv'
  <2>1. work[s][d] \in {"OPEN", "BLOCKED"}
    BY <1>3 DEF Incur, SettlementInv, RunningHasWork, Ordinary
  <2>2. serviceState[d] # "RETIRED"
    BY <2>1 DEF SettlementInv, RetiredIsSettled, Unblocked, NoWorkLeft, Ordinary
  <2> QED BY <1>3, <2>2 DEF Incur, swVars, RTypeOK, SettlementInv, OpaqueInv, Remembered,
             RunningHasWork, LegacyNeverRuns, RetiredIsSettled, Unblocked, NoWorkLeft,
             NothingPending
<1>4. ASSUME NEW d \in Deployments, NEW o \in Obligations, Discharge(s, d, o)
      PROVE  SettlementInv'
  <2>1. \A e \in Deployments : NothingPending(e) => NothingPending(e)'
    BY <1>4 DEF Discharge, swVars, NothingPending
  <2>2. \A e \in Deployments : owing[e] = {} => owing'[e] = {}
    BY <1>4 DEF Discharge, RTypeOK
  <2> QED BY <1>4, <2>1, <2>2, SettlementShrinks DEF Discharge, swVars
<1> QED BY <1>1, <1>2, <1>3, <1>4 DEF OrdinaryStep

LEMMA SettlementTickStep ==
  ASSUME RTypeOK, SettlementInv, NEW t \in Ticks, TickStep(t)
  PROVE  SettlementInv'
<1>0. t \in Scopes \ {Legacy}
  BY ServiceWorkAssumption, RetirementAssumption DEF Ticks
<1>1. ASSUME NEW h \in Hashes, TickObserve(t, h) PROVE SettlementInv'
  <2>1. \A d \in Deployments : NothingPending(d) => NothingPending(d)'
    BY <1>1, ObservedPending DEF TickObserve, RTypeOK
  <2>2. UNCHANGED <<serviceState, work, pc, parts, external, asked, owing>>
    BY <1>1 DEF TickObserve, recordVars
  <2> QED BY <2>1, <2>2, SettlementShrinks
<1>2. ASSUME NEW o \in Obligations, TickDischarge(t, o) PROVE SettlementInv'
  <2>1. \A d \in Deployments : NothingPending(d) => NothingPending(d)'
    BY <1>2 DEF TickDischarge, swVars, NothingPending
  <2>2. \A d \in Deployments : owing[d] = {} => owing'[d] = {}
    BY <1>2 DEF TickDischarge, RTypeOK
  <2> QED BY <1>2, <2>1, <2>2, SettlementShrinks DEF TickDischarge, swVars
<1>3. CASE \/ \E d \in Deployments : BeginTick(t, d)
           \/ \E x \in todo[t] : TickMiss(t, x)
           \/ FinalityDone(t) \/ CountUnfinished(t) \/ ReadLatestLedger(t) \/ StoreCutoff(t)
           \/ TickPoll(t) \/ PollThrows(t) \/ RecordCoverage(t)
           \/ Throw(t) \/ Catch(t) \/ Restart(t)
  BY <1>3, SettlementAside
  DEF BeginTick, TickMiss, FinalityDone, CountUnfinished, ReadLatestLedger, StoreCutoff,
      TickPoll, PollThrows, RecordCoverage, Throw, Catch, Restart, swVars, recordVars
<1>4. CASE Coverage(t)
  <2>1. PICK d \in target[t] : UNCHANGED swVars \/ AdmitWork(t, d)
    BY <1>4 DEF Coverage
  <2>2. d \in Deployments /\ UNCHANGED owing
    BY <1>4 DEF Coverage, RTypeOK
  <2>3. CASE UNCHANGED swVars
    BY <2>2, <2>3, SettlementAside DEF swVars
  <2>4. CASE AdmitWork(t, d)
    <3>1. ScopeStep(t) /\ UNCHANGED <<serviceState, owing>>
      BY <2>2, <2>4 DEF ScopeStep, AdmitWork
    <3> QED BY <1>0, <3>1, SettlementScopeStep DEF RTypeOK
  <2> QED BY <2>1, <2>3, <2>4
<1>5. CASE Conclude(t)
  <2>1. UNCHANGED <<work, tx, pc, parts, external, asked, owing>>
    BY <1>5 DEF Conclude, workVars
  <2>2. \A d \in Deployments : serviceState'[d] = "RETIRED" =>
          serviceState[d] = "RETIRED" \/ Unblocked(d)
    BY <1>5 DEF Conclude, MayRetire, RTypeOK, SWTypeOK
  <2>3. RetiredIsSettled'
    BY <2>1, <2>2 DEF SettlementInv, RetiredIsSettled, Unblocked, NoWorkLeft, NothingPending
  <2> QED BY <2>1, <2>3 DEF SettlementInv, OpaqueInv, Remembered, RunningHasWork, LegacyNeverRuns
<1>6. CASE TickCrash(t)
  <2>1. CASE UNCHANGED swVars
    BY <1>6, <2>1, SettlementAside DEF TickCrash, swVars, recordVars
  <2>2. CASE Crash(t)
    BY <1>0, <1>6, <2>2, SettlementScopeStep
    DEF ScopeStep, Crash, TickCrash, recordVars, RTypeOK
  <2> QED BY <1>6, <2>1, <2>2 DEF TickCrash
<1>7. CASE TickScope(t)
  BY <1>0, <1>7, SettlementScopeStep
  DEF TickScope, ScopeStep, CloseWork, PruneWork, Recycle, recordVars, RTypeOK
<1> QED BY <1>1, <1>2, <1>3, <1>4, <1>5, <1>6, <1>7 DEF TickStep, TickWork, TickTrouble

LEMMA SettlementOwnerStep ==
  ASSUME RTypeOK, SettlementInv, NEW d \in Deployments,
         RequestRetirement(d) \/ OperatorStep(d)
  PROVE  SettlementInv'
<1>1. CASE RequestRetirement(d)
  <2>1. /\ serviceState[d] = "ACTIVE" /\ serviceState' = [serviceState EXCEPT ![d] = "RETIRING"]
        /\ \A e \in Deployments \ {d}, s \in Scopes : work'[s][e] = work[s][e] /\ tx'[s][e] = tx[s][e]
        /\ \A s \in Scopes \ {Legacy} : work'[s] = work[s]
        /\ UNCHANGED <<pc, parts, external, asked, owing>>
    BY <1>1, RetirementAssumption DEF RequestRetirement, RTypeOK, SWTypeOK
  <2>2. OpaqueInv' /\ RunningHasWork' /\ LegacyNeverRuns'
    BY <2>1 DEF SettlementInv, OpaqueInv, Remembered, RunningHasWork, LegacyNeverRuns
  <2>3. RetiredIsSettled'
    BY <2>1 DEF RTypeOK, SWTypeOK, SettlementInv, RetiredIsSettled, Unblocked, NoWorkLeft,
       NothingPending
  <2> QED BY <2>2, <2>3 DEF SettlementInv
<1>2. CASE VerifyEvents(d)
  BY <1>2, SettlementAside DEF VerifyEvents, swVars
<1>3. ASSUME NEW o \in Obligations, VerifyObligation(d, o) PROVE SettlementInv'
  <2>1. \A e \in Deployments : NothingPending(e) => NothingPending(e)'
    BY <1>3 DEF VerifyObligation, swVars, NothingPending
  <2>2. \A e \in Deployments : owing[e] = {} => owing'[e] = {}
    BY <1>3 DEF VerifyObligation, RTypeOK
  <2> QED BY <1>3, <2>1, <2>2, SettlementShrinks DEF VerifyObligation, swVars
<1>4. ASSUME NEW h \in Hashes, VerifyTransaction(d, h) PROVE SettlementInv'
  <2>1. \A e \in Deployments : NothingPending(e) => NothingPending(e)'
    BY <1>4 DEF VerifyTransaction, Decided, Final, NothingPending, RTypeOK, SWTypeOK
  <2>2. UNCHANGED <<serviceState, work, pc, parts, external, asked, owing>>
    BY <1>4 DEF VerifyTransaction, recordVars
  <2> QED BY <2>1, <2>2, SettlementShrinks
<1>5. ASSUME NEW s \in Scopes, FenceWork(s, d) PROVE SettlementInv'
  BY <1>5 DEF FenceWork, recordVars, RTypeOK, SWTypeOK, SettlementInv, OpaqueInv, Remembered,
     RunningHasWork, LegacyNeverRuns, RetiredIsSettled, Unblocked, NoWorkLeft, NothingPending
<1>6. ASSUME NEW s \in Scopes, VerifyWork(s, d) PROVE SettlementInv'
  <2>1. /\ UNCHANGED <<serviceState, tx, pc, parts, external, owing>>
        /\ ~asked'[s] /\ pc[s] # "running"
        /\ \A r \in Scopes \ {s} : asked'[r] = asked[r] /\ work'[r] = work[r]
        /\ \A r \in Scopes, e \in Deployments : work'[r][e] \in {work[r][e], "DONE"}
    BY <1>6 DEF VerifyWork, recordVars, RTypeOK, SWTypeOK
  <2>2. OpaqueInv'
    BY <2>1 DEF SettlementInv, OpaqueInv, Remembered
  <2>3. RunningHasWork' /\ LegacyNeverRuns'
    BY <2>1 DEF SettlementInv, RunningHasWork, LegacyNeverRuns
  <2>4. RetiredIsSettled'
    BY <2>1 DEF SettlementInv, RetiredIsSettled, Unblocked, NoWorkLeft, NothingPending
  <2> QED BY <2>2, <2>3, <2>4 DEF SettlementInv
<1> QED BY <1>1, <1>2, <1>3, <1>4, <1>5, <1>6 DEF OperatorStep

LEMMA SettlementInvariant == RSpec => []SettlementInv
<1>1. RInit => SettlementInv
  BY RetirementAssumption DEF RInit, NoWork, SettlementInv, OpaqueInv, Remembered, RunningHasWork,
     LegacyNeverRuns, RetiredIsSettled
<1>2. RTypeOK /\ SettlementInv /\ [RNext]_rVars => SettlementInv'
  <2> SUFFICES ASSUME RTypeOK, SettlementInv, [RNext]_rVars PROVE SettlementInv'
    OBVIOUS
  <2>1. CASE Network /\ UNCHANGED <<recordVars, tickVars>>
    BY <2>1, SettlementAside DEF Network, Include, Expire, Broadcast, recordVars
  <2>2. CASE UNCHANGED rVars
    BY <2>2, SettlementAside DEF rVars, swVars, recordVars
  <2> QED BY <2>1, <2>2, SettlementOrdinaryStep, SettlementTickStep, SettlementOwnerStep
          DEF RNext
<1> QED BY <1>1, <1>2, RetirementTypeCorrect, PTL DEF RSpec

(***************************************************************************)
(* Whoever crashes, is fenced or still runs, however many ticks overlap: a *)
(* RETIRED deployment has no open or blocked work, no PENDING transaction  *)
(* and no other obligation, at the time it retires and ever after.         *)
(***************************************************************************)
THEOREM RetirementSettles == RSpec => []RetiredIsSettled
<1>1. SettlementInv => RetiredIsSettled
  BY DEF SettlementInv
<1> QED BY <1>1, SettlementInvariant, PTL

-----------------------------------------------------------------------------
(* What a step does to the tables of the admission layer                   *)

TickRows(t) ==
  \/ \E d \in Deployments : AdmitWork(t, d)
  \/ CloseWork(t) \/ PruneWork(t) \/ Recycle(t) \/ Crash(t)

Advances == \A d \in Deployments :
  \/ serviceState'[d] = serviceState[d]
  \/ serviceState[d] = "RETIRING" /\ serviceState'[d] = "RETIRED"

LEMMA TableSteps ==
  ASSUME RTypeOK, [RNext]_rVars
  PROVE  \/ \E s \in Ordinary : ScopeStep(s) \/ ReconcilerStep(s)
         \/ Network
         \/ \E t \in Ticks : TickRows(t)
         \/ \E t \in Ticks, h \in Hashes : TickObserve(t, h)
         \/ \E d \in Deployments : RequestRetirement(d)
         \/ \E d \in Deployments, s \in Scopes : FenceWork(s, d) \/ VerifyWork(s, d)
         \/ \E d \in Deployments, h \in Hashes : VerifyTransaction(d, h)
         \/ UNCHANGED workVars /\ Advances
<1> DEFINE Aside == UNCHANGED workVars /\ Advances
<1>0. UNCHANGED swVars => Aside
  BY DEF swVars, workVars, Advances
<1>1. ASSUME NEW s \in Ordinary, OrdinaryStep(s)
      PROVE  ScopeStep(s) \/ ReconcilerStep(s) \/ Aside
  BY <1>0, <1>1 DEF OrdinaryStep, OrdinaryPoll, Incur, Discharge
<1>2. ASSUME NEW t \in Ticks, TickStep(t)
      PROVE  TickRows(t) \/ (\E h \in Hashes : TickObserve(t, h)) \/ Aside
  <2>1. CASE Conclude(t)
    <3>1. Aside
      BY <2>1 DEF Conclude, Advances, RTypeOK, SWTypeOK
    <3> QED BY <3>1
  <2>2. CASE Coverage(t)
    BY <1>0, <2>2 DEF Coverage, TickRows, RTypeOK
  <2>3. CASE TickCrash(t) \/ TickScope(t)
    BY <1>0, <2>3 DEF TickCrash, TickScope, TickRows
  <2>4. CASE \/ \E o \in Obligations : TickDischarge(t, o)
             \/ \E x \in todo[t] : TickMiss(t, x)
             \/ \E d \in Deployments : BeginTick(t, d)
             \/ FinalityDone(t) \/ CountUnfinished(t) \/ ReadLatestLedger(t) \/ StoreCutoff(t)
             \/ TickPoll(t) \/ RecordCoverage(t) \/ Catch(t) \/ Restart(t)
             \/ Throw(t) \/ PollThrows(t)
    <3>1. UNCHANGED swVars
      BY <2>4 DEF TickDischarge, TickMiss, BeginTick, FinalityDone, CountUnfinished,
         ReadLatestLedger, StoreCutoff, TickPoll, RecordCoverage, Catch, Restart, Throw, PollThrows
    <3> QED BY <1>0, <3>1
  <2> QED BY <1>2, <2>1, <2>2, <2>3, <2>4 DEF TickStep, TickWork, TickTrouble
<1>3. ASSUME NEW d \in Deployments, OperatorStep(d)
      PROVE  \/ \E s \in Scopes : FenceWork(s, d) \/ VerifyWork(s, d)
             \/ \E h \in Hashes : VerifyTransaction(d, h)
             \/ Aside
  BY <1>0, <1>3 DEF OperatorStep, VerifyEvents, VerifyObligation
<1>4. UNCHANGED rVars => Aside
  BY <1>0 DEF rVars
<1> QED BY <1>1, <1>2, <1>3, <1>4 DEF RNext

-----------------------------------------------------------------------------
(* The books of the admission layer stay right when ticks, owners and      *)
(* operators write to them too                                             *)

LEMMA BooksObserved ==
  ASSUME SWTypeOK, BooksInv, OpaqueInv', UNCHANGED <<pc, parts, call, wire, net>>,
         \A s \in Scopes, d \in Deployments, h \in Hashes :
           \/ tx'[s][d][h] = tx[s][d][h]
           \/ tx[s][d][h] = "none" /\ tx'[s][d][h] = "PENDING"
           \/ tx[s][d][h] = "PENDING" /\ tx'[s][d][h] = net[h] /\ net[h] \in Final
  PROVE  BooksInv'
<1>1. WireInv'
  <2>1. \A s \in Scopes, d \in Deployments, h \in Hashes :
          tx[s][d][h] # "none" => tx'[s][d][h] # "none"
    BY DEF Final
  <2> QED BY <2>1, WireKeeps DEF BooksInv, InCall
<1>2. FinalityIsLedgers'
  BY FinalityKeeps DEF BooksInv, Final
<1>3. ASSUME NEW h \in Hashes \ Reposted PROVE SingleUseOf(h)'
  <2>1. \A s \in Scopes, d \in Deployments :
          tx'[s][d][h] = "REJECTED" => tx[s][d][h] = "REJECTED"
    BY DEF Final
  <2> QED BY <2>1, SingleUseKeeps DEF BooksInv, SingleUse, InCall, Nowhere
<1> QED BY <1>1, <1>2, <1>3 DEF BooksInv, SingleUse

LEMMA BooksRetirementStep ==
  ASSUME RTypeOK, BooksInv, SettlementInv', [RNext]_rVars
  PROVE  BooksInv'
<1> USE DEF Ticks
<1>0. SWTypeOK /\ OpaqueInv'
  BY DEF RTypeOK, SettlementInv
<1>1. ASSUME NEW s \in Ordinary, ScopeStep(s) \/ ReconcilerStep(s) PROVE BooksInv'
  BY <1>0, <1>1, BooksScopeStep DEF Ordinary
<1>2. CASE Network
  BY <1>0, <1>2, BooksNetwork
<1>3. ASSUME NEW t \in Ticks, TickRows(t) PROVE BooksInv'
  BY <1>0, <1>3, BooksScopeStep, ServiceWorkAssumption DEF TickRows, ScopeStep
<1>4. ASSUME NEW t \in Ticks, NEW h \in Hashes, TickObserve(t, h) PROVE BooksInv'
  <2>1. net[h] \in Final /\ Observed(Deployments, h, net[h])
    BY <1>4 DEF TickObserve, LedgerKnows, Decided, Final
  <2>2. RowsSeen(Deployments, h, net[h])
    BY <1>0, <2>1, ObservedRows
  <2>3. \A s \in Scopes, d \in Deployments, g \in Hashes :
          \/ tx'[s][d][g] = tx[s][d][g]
          \/ tx[s][d][g] = "PENDING" /\ tx'[s][d][g] = net[g] /\ net[g] \in Final
    BY <2>1, <2>2 DEF RowsSeen
  <2> QED BY <1>0, <1>4, <2>3, BooksObserved DEF TickObserve
<1>5. ASSUME NEW d \in Deployments, RequestRetirement(d) PROVE BooksInv'
  <2>1. \A s \in Scopes, e \in Deployments, h \in Hashes :
          \/ tx'[s][e][h] = tx[s][e][h]
          \/ tx[s][e][h] = "none" /\ tx'[s][e][h] = "PENDING"
    BY <1>0, <1>5, RetirementAssumption DEF RequestRetirement, SWTypeOK
  <2> QED BY <1>0, <1>5, <2>1, BooksObserved DEF RequestRetirement
<1>6. ASSUME NEW d \in Deployments, NEW s \in Scopes, FenceWork(s, d) \/ VerifyWork(s, d)
      PROVE  BooksInv'
  BY <1>0, <1>6, BooksObserved DEF FenceWork, VerifyWork
<1>7. ASSUME NEW d \in Deployments, NEW h \in Hashes, VerifyTransaction(d, h) PROVE BooksInv'
  <2>1. \A s \in Scopes, e \in Deployments, g \in Hashes :
          \/ tx'[s][e][g] = tx[s][e][g]
          \/ tx[s][e][g] = "PENDING" /\ tx'[s][e][g] = net[g] /\ net[g] \in Final
    BY <1>0, <1>7 DEF VerifyTransaction, Decided, SWTypeOK
  <2> QED BY <1>0, <1>7, <2>1, BooksObserved DEF VerifyTransaction
<1>8. CASE UNCHANGED workVars
  BY <1>8, BooksAside
<1> QED BY TableSteps, <1>1, <1>2, <1>3, <1>4, <1>5, <1>6, <1>7, <1>8

LEMMA RetirementBooks == RSpec => []BooksInv
<1>1. RInit => BooksInv
  BY BooksInit DEF RInit
<1>2. RTypeOK /\ BooksInv /\ SettlementInv' /\ [RNext]_rVars => BooksInv'
  BY BooksRetirementStep
<1> QED BY <1>1, <1>2, RetirementTypeCorrect, SettlementInvariant, PTL DEF RSpec

LEMMA SettledBooks ==
  ASSUME SWTypeOK, BooksInv, RetiredIsSettled
  PROVE  RetiredLeavesNothingInFlight
<1> SUFFICES ASSUME NEW d \in Deployments, NEW h \in Hashes \ Reposted, NEW s \in Scopes,
                    serviceState[d] = "RETIRED", Carried(s, d, h)
             PROVE  /\ net[h] # "queued"
                    /\ (\E r \in Scopes : call[r][h] = "recorded") => net[h] # "absent"
  BY DEF RetiredLeavesNothingInFlight
<1>1. tx[s][d][h] \notin {"none", "PENDING"}
  BY DEF Carried, BooksInv, WireInv, Booked, RetiredIsSettled, Unblocked, NothingPending
<1>2. CASE tx[s][d][h] \in Final
  BY <1>2 DEF BooksInv, FinalityIsLedgers, Final
<1>3. CASE tx[s][d][h] = "REJECTED"
  BY <1>3 DEF BooksInv, SingleUse, SingleUseOf, Nowhere, InCall
<1> QED BY <1>1, <1>2, <1>3 DEF SWTypeOK, TxStates, Final

(***************************************************************************)
(* Money at rest: nothing the service recorded or sent for a RETIRED       *)
(* deployment is queued at the network or can still become so.             *)
(***************************************************************************)
THEOREM RetiredIsAtRest == RSpec => []RetiredLeavesNothingInFlight
<1>1. RTypeOK /\ BooksInv /\ SettlementInv => RetiredLeavesNothingInFlight
  BY SettledBooks DEF RTypeOK, SettlementInv
<1> QED BY <1>1, RetirementTypeCorrect, RetirementBooks, SettlementInvariant, PTL

-----------------------------------------------------------------------------
(* The cutoff.  Once the counts of a RETIRING deployment are zero, no      *)
(* transaction of it gets its first row any more, so the ledger read after *)
(* the count bounds all of them, though the lock was released in between,  *)
(* up to what the node that answered had not seen.                         *)

Frozen(d) ==
  /\ serviceState[d] # "ACTIVE"
  /\ \A s \in Scopes \ Ticks : work[s][d] \in {"none", "DONE"}
  /\ NothingPending(d)

Fixed(d, c) ==
  \A h \in Hashes \ Reposted, s \in Scopes :
    tx[s][d][h] # "none" /\ net[h] \in Final => h \in c.through \cup c.unseen

CutoffInv ==
  /\ \A t \in Ticks, d \in Deployments : d \in target[t] =>
       /\ serviceState[d] # "ACTIVE"
       /\ at[t] \in {"boundary", "store"} => Frozen(d)
       /\ at[t] = "store" /\ d \in Deployed => \A c \in boundary[t] : Fixed(d, c)
  /\ \A d \in Deployments :
       /\ cutoff[d] # {} => Frozen(d)
       /\ d \in Deployed => \A c \in cutoff[d] : Fixed(d, c)

LEMMA ScopeStepLifecycle ==
  ASSUME NEW s \in Scopes, ScopeStep(s) \/ ReconcilerStep(s)
  PROVE  UNCHANGED serviceState
BY DEF ScopeStep, AdmitWork, AdmitBatch, CloseWork, PruneWork, Recycle, Crash,
   BeforeExternalRelayer, BeforeServiceSubmission, Deliver, Lose, Refuse, ObserveRefusal,
   ObserveFinality, ObserveExternalRelayer, ReconcilerStep, ReconcileAdmit, ReconcileFound,
   ReconcileMissed

LEMMA LifecycleMoves ==
  ASSUME RTypeOK, [RNext]_rVars
  PROVE  \/ UNCHANGED serviceState \/ Advances
         \/ \E e \in Deployments : RequestRetirement(e)
<1>1. ASSUME NEW t \in Ticks, TickRows(t) PROVE UNCHANGED serviceState
  BY <1>1 DEF TickRows, AdmitWork, CloseWork, PruneWork, Recycle, Crash
<1>2. ASSUME NEW s \in Ordinary, ScopeStep(s) \/ ReconcilerStep(s)
      PROVE  UNCHANGED serviceState
  BY <1>2, ScopeStepLifecycle DEF Ordinary
<1>3. ASSUME NEW t \in Ticks, NEW h \in Hashes, TickObserve(t, h) PROVE UNCHANGED serviceState
  BY <1>3 DEF TickObserve
<1>4. ASSUME NEW e \in Deployments, NEW s \in Scopes, FenceWork(s, e) \/ VerifyWork(s, e)
      PROVE  UNCHANGED serviceState
  BY <1>4 DEF FenceWork, VerifyWork
<1>5. ASSUME NEW e \in Deployments, NEW h \in Hashes, VerifyTransaction(e, h)
      PROVE  UNCHANGED serviceState
  BY <1>5 DEF VerifyTransaction
<1>6. CASE Network
  BY <1>6 DEF Network, Include, Expire, Broadcast
<1> QED BY TableSteps, <1>1, <1>2, <1>3, <1>4, <1>5, <1>6

LEMMA NeverActiveAgain ==
  ASSUME RTypeOK, [RNext]_rVars, NEW d \in Deployments, serviceState[d] # "ACTIVE"
  PROVE  serviceState'[d] # "ACTIVE"
BY LifecycleMoves DEF Advances, RequestRetirement, RTypeOK, SWTypeOK

\* A scope that is not a tick's cannot touch a deployment that is frozen.
LEMMA FrozenScopeStep ==
  ASSUME SWTypeOK, OpaqueInv, NEW s \in Ordinary, ScopeStep(s) \/ ReconcilerStep(s),
         NEW d \in Deployments, Frozen(d)
  PROVE  /\ \A r \in Scopes \ Ticks : work'[r][d] \in {"none", "DONE"}
         /\ \A r \in Scopes : tx'[r][d] = tx[r][d]
<1> DEFINE Goal == /\ \A r \in Scopes \ Ticks : work'[r][d] \in {"none", "DONE"}
                   /\ \A r \in Scopes : tx'[r][d] = tx[r][d]
<1>0. s \in Scopes \ Ticks
  BY DEF Ordinary, Ticks
<1>1. ASSUME NEW e \in Deployments, AdmitWork(s, e) PROVE Goal
  BY <1>0, <1>1 DEF AdmitWork, Open, MayAdmit, Frozen, SWTypeOK, Ticks
<1>2. ASSUME NEW E \in SUBSET Deployments, AdmitBatch(s, E) PROVE Goal
  BY <1>0, <1>2 DEF AdmitBatch, Open, StillActive, Frozen, SWTypeOK
<1>3. ASSUME NEW h \in Hashes, NEW e \in Deployments, ReconcileAdmit(s, e, h) PROVE Goal
  BY <1>0, <1>3 DEF ReconcileAdmit, Open, Frozen, SWTypeOK
<1>4. CASE CloseWork(s)
  BY <1>0, <1>4 DEF CloseWork, Frozen, SWTypeOK
<1>5. CASE PruneWork(s)
  BY <1>5 DEF PruneWork, Frozen, SWTypeOK
<1>6. CASE Recycle(s)
  BY <1>6 DEF Recycle, Frozen, SWTypeOK
<1>7. CASE Crash(s) \/ BeforeExternalRelayer(s)
  BY <1>7 DEF Crash, BeforeExternalRelayer, Frozen
<1>8. ASSUME NEW h \in Hashes, BeforeServiceSubmission(s, h) PROVE Goal
  BY <1>0, <1>8 DEF BeforeServiceSubmission, AdmissionStands, Participants, Frozen, SWTypeOK
<1>9. ASSUME NEW h \in Hashes,
             Deliver(s, h) \/ Lose(s, h) \/ Refuse(s, h) \/ ReconcileMissed(s, h)
      PROVE  Goal
  BY <1>9 DEF Deliver, Lose, Refuse, ReconcileMissed, Frozen
<1>10. ASSUME NEW h \in Hashes,
              ObserveRefusal(s, h) \/ ObserveFinality(s, h) \/ ReconcileFound(s, h)
       PROVE  Goal
  <2>1. UNCHANGED work /\ \E D, state : Observed(D, h, state)
    BY <1>10 DEF ObserveRefusal, ObserveFinality, ReconcileFound
  <2>2. \A r \in Scopes : tx'[r][d] = tx[r][d]
    BY <2>1 DEF Observed, Frozen, NothingPending, SWTypeOK
  <2> QED BY <2>1, <2>2 DEF Frozen
<1>11. ASSUME NEW h \in Hashes, ObserveExternalRelayer(s, h) PROVE Goal
  <2>1. d \notin parts[s]
    BY <1>0, <1>11 DEF ObserveExternalRelayer, OpaqueInv, Remembered, Frozen
  <2> QED BY <1>11, <2>1 DEF ObserveExternalRelayer, Frozen, SWTypeOK
<1> QED BY <1>1, <1>2, <1>3, <1>4, <1>5, <1>6, <1>7, <1>8, <1>9, <1>10, <1>11
        DEF ScopeStep, ReconcilerStep

\* Frozen is for good, and what the frozen rows say stays as it is.
LEMMA FrozenStep ==
  ASSUME RTypeOK, SettlementInv, [RNext]_rVars, NEW d \in Deployments, Frozen(d)
  PROVE  Frozen(d)' /\ \A s \in Scopes : tx'[s][d] = tx[s][d]
<1> DEFINE Goal == /\ \A r \in Scopes \ Ticks : work'[r][d] \in {"none", "DONE"}
                   /\ \A r \in Scopes : tx'[r][d] = tx[r][d]
<1>0. SWTypeOK /\ OpaqueInv
  BY DEF RTypeOK, SettlementInv
<1>1. ASSUME NEW s \in Ordinary, ScopeStep(s) \/ ReconcilerStep(s) PROVE Goal
  BY <1>0, <1>1, FrozenScopeStep
<1>2. ASSUME Network \/ UNCHANGED workVars PROVE Goal
  <2>1. UNCHANGED <<work, tx>>
    BY <1>2 DEF Network, Include, Expire, Broadcast, workVars
  <2> QED BY <2>1 DEF Frozen
<1>3. ASSUME NEW t \in Ticks, TickRows(t) PROVE Goal
  <2>1. UNCHANGED tx /\ \A r \in Scopes \ {t} : work'[r] = work[r]
    BY <1>0, <1>3 DEF TickRows, AdmitWork, Open, CloseWork, PruneWork, Recycle, Crash, SWTypeOK
  <2> QED BY <2>1 DEF Frozen
<1>4. ASSUME NEW t \in Ticks, NEW h \in Hashes, TickObserve(t, h) PROVE Goal
  <2>1. UNCHANGED work /\ \E state : Observed(Deployments, h, state)
    BY <1>4 DEF TickObserve
  <2>2. \A r \in Scopes : tx'[r][d] = tx[r][d]
    BY <1>0, <2>1 DEF Observed, Frozen, NothingPending, SWTypeOK
  <2> QED BY <2>1, <2>2 DEF Frozen
<1>5. ASSUME NEW e \in Deployments, RequestRetirement(e) PROVE Goal
  <2>1. e # d
    BY <1>5 DEF RequestRetirement, Frozen
  <2> QED BY <1>0, <1>5, <2>1, RetirementAssumption DEF RequestRetirement, Frozen, SWTypeOK
<1>6. ASSUME NEW e \in Deployments, NEW s \in Scopes, FenceWork(s, e) \/ VerifyWork(s, e)
      PROVE  Goal
  <2>1. UNCHANGED tx
    BY <1>6 DEF FenceWork, VerifyWork
  <2>2. \A r \in Scopes \ Ticks : work'[r][d] \in {"none", "DONE"}
    BY <1>0, <1>6, SMTT(30) DEF FenceWork, VerifyWork, Frozen, SWTypeOK
  <2> QED BY <2>1, <2>2
<1>7. ASSUME NEW e \in Deployments, NEW h \in Hashes, VerifyTransaction(e, h) PROVE Goal
  <2>1. \A r \in Scopes : tx'[r][d] = tx[r][d]
    BY <1>0, <1>7, ZenonT(60) DEF VerifyTransaction, Frozen, NothingPending, SWTypeOK
  <2> QED BY <1>7, <2>1 DEF VerifyTransaction, Frozen
<1>8. serviceState'[d] # "ACTIVE"
  BY NeverActiveAgain DEF Frozen
<1>9. ASSUME Goal PROVE Frozen(d)' /\ \A s \in Scopes : tx'[s][d] = tx[s][d]
  BY <1>8, <1>9 DEF Frozen, NothingPending
<1> HIDE DEF Goal
<1>10. Goal
  BY TableSteps, <1>1, <1>2, <1>3, <1>4, <1>5, <1>6, <1>7
<1> QED BY <1>9, <1>10

\* A transaction becomes final from the queue, or as the report of a relayer
\* nobody knew of: not from a row that is settled.
LEMMA FinalComesFrom ==
  ASSUME RTypeOK, [RNext]_rVars, NEW h \in Hashes, net'[h] \in Final, net[h] \notin Final
  PROVE  net[h] = "queued" \/ ~Recorded(h)
<1>0. SWTypeOK
  BY DEF RTypeOK
<1>1. \/ net' = net \/ Network
      \/ \E s \in Scopes, g \in Hashes : Deliver(s, g) \/ ObserveExternalRelayer(s, g)
  BY TableSteps, ZenonT(60) DEF ScopeStep, AdmitWork, AdmitBatch, CloseWork, PruneWork, Recycle, Crash,
     BeforeExternalRelayer, BeforeServiceSubmission, Lose, Refuse, ObserveRefusal,
     ObserveFinality, ReconcilerStep, ReconcileAdmit, ReconcileFound, ReconcileMissed, TickRows,
     TickObserve, RequestRetirement, FenceWork, VerifyWork, VerifyTransaction, workVars, Ordinary
<1>2. CASE Network
  BY <1>0, <1>2 DEF Network, Include, Expire, Broadcast, SWTypeOK, Final
<1>3. ASSUME NEW s \in Scopes, NEW g \in Hashes, Deliver(s, g) PROVE FALSE
  BY <1>0, <1>3 DEF Deliver, SWTypeOK, Final
<1>4. ASSUME NEW s \in Scopes, NEW g \in Hashes, ObserveExternalRelayer(s, g)
      PROVE  ~Recorded(h)
  BY <1>0, <1>4 DEF ObserveExternalRelayer, SWTypeOK
<1> QED BY <1>1, <1>2, <1>3, <1>4

LEMMA FixedStep ==
  ASSUME RTypeOK, SettlementInv, BooksInv, [RNext]_rVars, NEW d \in Deployments, Frozen(d),
         NEW c, Fixed(d, c)
  PROVE  Fixed(d, c)'
<1> SUFFICES ASSUME NEW h \in Hashes \ Reposted, NEW s \in Scopes,
                    tx'[s][d][h] # "none", net'[h] \in Final, net[h] \notin Final
             PROVE  FALSE
  BY FrozenStep DEF Fixed
<1>1. tx[s][d][h] \notin {"none", "PENDING"}
  BY FrozenStep DEF Frozen, NothingPending
<1>2. net[h] = "queued"
  BY <1>1, FinalComesFrom DEF Recorded
<1>3. tx[s][d][h] # "REJECTED"
  BY <1>2 DEF BooksInv, SingleUse, SingleUseOf, Nowhere
<1>4. tx[s][d][h] \notin Final
  BY <1>2 DEF BooksInv, FinalityIsLedgers, Final
<1> QED BY <1>1, <1>3, <1>4 DEF RTypeOK, SWTypeOK, TxStates, Final

\* How a tick comes by its deployment, its boundary and the cutoff it stores.
TickWas(t) ==
  \/ at'[t] = at[t] /\ target'[t] = target[t] /\ boundary'[t] = boundary[t]
  \/ target'[t] = {}
  \/ at'[t] \notin {"boundary", "store"} /\ target'[t] = target[t]
  \/ at'[t] = "finality" /\ \A d \in target'[t] : serviceState[d] = "RETIRING"
  \/ at'[t] = "boundary" /\ target'[t] = target[t] /\ \A d \in target[t] : Ready(d)
  \/ /\ at[t] = "boundary" /\ at'[t] = "store" /\ target'[t] = target[t]
     /\ \E missed \in SUBSET Included :
          boundary'[t] = {IF target[t] \subseteq Deployed THEN LatestLedger(missed) ELSE LedgerZero}

LEMMA GotoWas ==
  ASSUME RTypeOK, NEW t \in Ticks, NEW stage, Goto(t, stage), stage \notin {"boundary", "store"}
  PROVE  TickWas(t)
BY DEF RTypeOK, Goto, TickWas

LEMMA TickMoves ==
  ASSUME RTypeOK, [RNext]_rVars, NEW t \in Ticks
  PROVE  TickWas(t)
<1>1. ASSUME NEW r \in Ticks, TickStep(r) PROVE TickWas(t)
  <2>1. CASE r # t
    <3>1. at'[t] = at[t] /\ target'[t] = target[t] /\ boundary'[t] = boundary[t]
      BY <1>1, <2>1, ZenonT(60) DEF TickStep, TickWork, TickTrouble, TickObserve, TickDischarge, TickMiss,
         FinalityDone, CountUnfinished, ReadLatestLedger, StoreCutoff, Coverage, TickPoll,
         RecordCoverage, Conclude, TickScope, Catch, Restart, TickCrash, Throw, PollThrows,
         BeginTick, Goto, tickVars, RTypeOK
    <3> QED BY <3>1 DEF TickWas
  <2>2. CASE \/ \E h \in Hashes : TickObserve(t, h)
             \/ \E o \in Obligations : TickDischarge(t, o)
             \/ \E x \in todo[t] : TickMiss(t, x)
             \/ TickScope(t)
    BY <2>2 DEF TickObserve, TickDischarge, TickMiss, TickScope, tickVars, TickWas
  <2>3. CASE \/ FinalityDone(t) \/ StoreCutoff(t) \/ Coverage(t) \/ TickPoll(t)
             \/ RecordCoverage(t) \/ Conclude(t) \/ Catch(t) \/ Restart(t)
             \/ TickCrash(t) \/ Throw(t) \/ PollThrows(t)
    <3>1. \E stage : stage \notin {"boundary", "store"} /\ Goto(t, stage)
      BY <2>3 DEF FinalityDone, StoreCutoff, Coverage, TickPoll, RecordCoverage, Conclude,
         Catch, Restart, TickCrash, Throw, PollThrows
    <3> QED BY <3>1, GotoWas
  <2>4. CASE CountUnfinished(t)
    <3>1. PICK d \in target[t] : Goto(t, IF MayFixCutoff(d) THEN "boundary" ELSE "coverage")
      BY <2>4 DEF CountUnfinished
    <3>2. CASE ~MayFixCutoff(d)
      BY <3>1, <3>2, GotoWas
    <3>3. CASE MayFixCutoff(d)
      <4>1. at'[t] = "boundary" /\ target'[t] = target[t]
        BY <3>1, <3>3 DEF Goto, NoTarget, RTypeOK
      <4>2. \A e \in target[t] : Ready(e)
        BY <3>3 DEF MayFixCutoff, RTypeOK, AtMostOne
      <4> QED BY <4>1, <4>2 DEF TickWas
    <3> QED BY <3>2, <3>3
  <2>5. CASE ReadLatestLedger(t)
    BY <2>5 DEF ReadLatestLedger, RTypeOK, TickWas
  <2>6. CASE \E d \in Deployments : BeginTick(t, d)
    BY <2>6 DEF BeginTick, RTypeOK, TickWas
  <2> QED BY <1>1, <2>1, <2>2, <2>3, <2>4, <2>5, <2>6 DEF TickStep, TickWork, TickTrouble
<1>2. CASE UNCHANGED tickVars
  BY <1>2 DEF tickVars, TickWas
<1>3. (\E r \in Ticks : TickStep(r)) \/ UNCHANGED tickVars
  BY DEF RNext, OrdinaryStep, OrdinaryPoll, Incur, Discharge, RequestRetirement, OperatorStep,
     VerifyEvents, FenceWork, VerifyWork, VerifyTransaction, VerifyObligation, rVars, tickVars
<1> QED BY <1>1, <1>2, <1>3

\* A cutoff is stored once, by a tick that has read the ledger.
LEMMA CutoffMoves ==
  ASSUME RTypeOK, [RNext]_rVars, NEW d \in Deployments
  PROVE  \/ cutoff'[d] = cutoff[d]
         \/ cutoff[d] = {} /\ \E t \in Ticks : /\ at[t] = "store" /\ d \in target[t]
                                               /\ cutoff'[d] = boundary[t]
<1>1. UNCHANGED cutoff \/ \E t \in Ticks : StoreCutoff(t)
  BY ZenonT(60) DEF RNext, OrdinaryStep, OrdinaryPoll, Incur, Discharge, RequestRetirement, OperatorStep,
     VerifyEvents, FenceWork, VerifyWork, VerifyTransaction, VerifyObligation, rVars, recordVars,
     TickStep, TickWork, TickTrouble, TickObserve, TickDischarge, TickMiss,
     FinalityDone, CountUnfinished, ReadLatestLedger, Coverage, TickPoll,
     RecordCoverage, Conclude, TickScope, Catch, Restart, TickCrash, Throw, PollThrows, BeginTick
<1>2. ASSUME NEW t \in Ticks, StoreCutoff(t)
      PROVE  cutoff'[d] = cutoff[d]
             \/ (cutoff[d] = {} /\ at[t] = "store" /\ d \in target[t] /\ cutoff'[d] = boundary[t])
  BY <1>2 DEF StoreCutoff, CutoffIsFree, RTypeOK
<1> QED BY <1>1, <1>2

LEMMA CutoffTickStep ==
  ASSUME RTypeOK, SettlementInv, BooksInv, CutoffInv, [RNext]_rVars,
         NEW t \in Ticks, NEW d \in Deployments, d \in target'[t]
  PROVE  /\ serviceState'[d] # "ACTIVE"
         /\ at'[t] \in {"boundary", "store"} => Frozen(d)'
         /\ at'[t] = "store" /\ d \in Deployed => \A c \in boundary'[t] : Fixed(d, c)'
<1>1. CASE target'[t] = target[t]
  <2>1. serviceState'[d] # "ACTIVE"
    BY <1>1, NeverActiveAgain DEF CutoffInv
  <2>2. CASE at'[t] = at[t] /\ boundary'[t] = boundary[t]
    BY <1>1, <2>1, <2>2, FrozenStep, FixedStep DEF CutoffInv
  <2>3. CASE at'[t] \notin {"boundary", "store"}
    BY <2>1, <2>3
  <2>4. CASE at'[t] = "boundary" /\ Ready(d)
    <3>1. Frozen(d)
      BY <1>1, <2>4 DEF CutoffInv, Frozen, Ready, NoWorkLeft
    <3> QED BY <2>1, <2>4, <3>1, FrozenStep
  <2>5. CASE /\ at[t] = "boundary" /\ at'[t] = "store"
             /\ \E missed \in SUBSET Included :
                  boundary'[t] =
                    {IF target[t] \subseteq Deployed THEN LatestLedger(missed) ELSE LedgerZero}
    <3>1. Frozen(d)
      BY <1>1, <2>5 DEF CutoffInv
    <3>2. ASSUME d \in Deployed, NEW c \in boundary'[t] PROVE Fixed(d, c)'
      <4>1. PICK missed \in SUBSET Included : c = LatestLedger(missed)
        BY <1>1, <2>5, <3>2 DEF RTypeOK, AtMostOne
      <4>2. c.through \cup c.unseen = Included
        BY <4>1 DEF LatestLedger
      <4>3. Fixed(d, c)
        BY <4>2 DEF Fixed, Included
      <4> QED BY <3>1, <4>3, FixedStep
    <3> QED BY <2>1, <3>1, <3>2, FrozenStep
  <2> QED BY <1>1, <2>2, <2>3, <2>4, <2>5, TickMoves DEF TickWas
<1>2. CASE target'[t] # target[t]
  <2>1. at'[t] = "finality" /\ serviceState[d] = "RETIRING"
    BY <1>2, TickMoves DEF TickWas
  <2> QED BY <2>1, NeverActiveAgain
<1> QED BY <1>1, <1>2

LEMMA CutoffStep ==
  ASSUME RTypeOK, SettlementInv, BooksInv, CutoffInv, [RNext]_rVars
  PROVE  CutoffInv'
<1>1. ASSUME NEW d \in Deployments
      PROVE  /\ cutoff'[d] # {} => Frozen(d)'
             /\ d \in Deployed => \A c \in cutoff'[d] : Fixed(d, c)'
  <2>1. ASSUME cutoff'[d] # {} PROVE Frozen(d)
    BY <2>1, CutoffMoves DEF CutoffInv
  <2>2. ASSUME d \in Deployed, NEW c \in cutoff'[d] PROVE Fixed(d, c)
    BY <2>2, CutoffMoves DEF CutoffInv
  <2> QED BY <2>1, <2>2, FrozenStep, FixedStep
<1> QED BY <1>1, CutoffTickStep DEF CutoffInv

(***************************************************************************)
(* The ledger cutoff of a deployment with a contract is read when every    *)
(* single-use transaction it recorded is included if it ever will be, so   *)
(* that the cutoff covers all that the node asked had seen by then.        *)
(***************************************************************************)
THEOREM CutoffIsEnough == RSpec => []CutoffCoversSubmissions
<1>1. RInit => CutoffInv
  BY DEF RInit, CutoffInv
<1>2. RTypeOK /\ SettlementInv /\ BooksInv /\ CutoffInv /\ [RNext]_rVars => CutoffInv'
  BY CutoffStep
<1>3. CutoffInv => CutoffCoversSubmissions
  BY RetirementAssumption DEF CutoffInv, Fixed, CutoffCoversSubmissions
<1> QED BY <1>1, <1>2, <1>3, RetirementTypeCorrect, SettlementInvariant, RetirementBooks, PTL
        DEF RSpec

-----------------------------------------------------------------------------
(* Coverage *)

\* A scan that is under way, or whose outcome is not written, has a cutoff.
ScanHasCutoff ==
  \A t \in Ticks : at[t] \in {"poll", "complete", "partial", "gapped"} =>
    \A d \in target[t] : cutoff[d] # {}

CoverageInv == ScanHasCutoff /\ CoverageFollowsCutoff

\* How coverage comes to be claimed, given up, and relied on.
LEMMA CoverageMoves ==
  ASSUME RTypeOK, [RNext]_rVars, NEW d \in Deployments
  PROVE  /\ reconciled'[d] => \/ reconciled[d] \/ cutoff[d] # {}
                              \/ \E t \in Ticks : at[t] = "complete" /\ d \in target[t]
         /\ reconciled[d] => reconciled'[d] \/ serviceState[d] # "RETIRED"
         /\ serviceState'[d] = "RETIRED" =>
              \/ serviceState[d] = "RETIRED"
              \/ reconciled[d] /\ reconciled'[d] = reconciled[d]
<1> DEFINE Goal == /\ reconciled'[d] => \/ reconciled[d] \/ cutoff[d] # {}
                                        \/ \E t \in Ticks : at[t] = "complete" /\ d \in target[t]
                   /\ reconciled[d] => reconciled'[d] \/ serviceState[d] # "RETIRED"
<1>1. ASSUME NEW t \in Ticks, Coverage(t) \/ RecordCoverage(t) \/ TickPoll(t) PROVE Goal
  <2>1. CASE Coverage(t)
    BY <2>1 DEF Coverage, NeedsCoverage, RTypeOK
  <2>2. CASE RecordCoverage(t)
    BY <2>2 DEF RecordCoverage, RTypeOK
  <2>3. CASE TickPoll(t)
    BY <2>3 DEF TickPoll, MissedHistory, RTypeOK
  <2> QED BY <1>1, <2>1, <2>2, <2>3
<1>2. ASSUME NEW e \in Deployments,
             VerifyEvents(e) \/ \E s \in Ordinary : OrdinaryPoll(s, e)
      PROVE  Goal
  BY <1>2 DEF VerifyEvents, OrdinaryPoll, MissedHistory, RTypeOK, SWTypeOK
<1>3. \/ UNCHANGED reconciled
      \/ \E t \in Ticks : Coverage(t) \/ RecordCoverage(t) \/ TickPoll(t)
      \/ \E e \in Deployments : VerifyEvents(e) \/ \E s \in Ordinary : OrdinaryPoll(s, e)
  BY ZenonT(60) DEF RNext, OrdinaryStep, Incur, Discharge, RequestRetirement, OperatorStep,
     FenceWork, VerifyWork, VerifyTransaction, VerifyObligation, rVars, recordVars,
     TickStep, TickWork, TickTrouble, TickObserve, TickDischarge, TickMiss, StoreCutoff,
     FinalityDone, CountUnfinished, ReadLatestLedger, Conclude, TickScope, Catch, Restart,
     TickCrash, Throw, PollThrows, BeginTick
<1>4. ASSUME NEW t \in Ticks, Conclude(t), serviceState'[d] = "RETIRED",
             serviceState[d] # "RETIRED"
      PROVE  reconciled[d] /\ reconciled'[d] = reconciled[d]
  BY <1>4 DEF Conclude, MayRetire, RTypeOK, SWTypeOK
<1>5. \/ UNCHANGED serviceState
      \/ \E t \in Ticks : Conclude(t)
      \/ \E e \in Deployments : RequestRetirement(e)
  <2>1. ASSUME NEW t \in Ticks, TickStep(t) PROVE UNCHANGED serviceState \/ Conclude(t)
    BY <2>1 DEF swVars, TickStep, TickWork, TickTrouble, TickObserve, TickDischarge, TickMiss,
       StoreCutoff, FinalityDone, CountUnfinished, ReadLatestLedger, Coverage, TickPoll,
       RecordCoverage, TickScope, Catch, Restart, TickCrash, Crash, CloseWork, PruneWork, Recycle,
       AdmitWork, Throw, PollThrows, BeginTick
  <2>2. ASSUME NEW s \in Ordinary, OrdinaryStep(s) PROVE UNCHANGED serviceState
    BY <2>2, ScopeStepLifecycle DEF Ordinary, OrdinaryStep, OrdinaryPoll, Incur, Discharge, swVars
  <2>3. ASSUME NEW e \in Deployments, OperatorStep(e) PROVE UNCHANGED serviceState
    BY <2>3 DEF OperatorStep, VerifyEvents, FenceWork, VerifyWork, VerifyTransaction,
       VerifyObligation, swVars
  <2>4. CASE Network \/ UNCHANGED rVars
    BY <2>4 DEF Network, Include, Expire, Broadcast, rVars, swVars
  <2> QED BY <2>1, <2>2, <2>3, <2>4 DEF RNext
<1>6. ASSUME NEW e \in Deployments, RequestRetirement(e), serviceState'[d] = "RETIRED"
      PROVE  serviceState[d] = "RETIRED"
  BY <1>6 DEF RequestRetirement, RTypeOK, SWTypeOK
<1>7. Goal
  BY <1>1, <1>2, <1>3
<1> QED BY <1>4, <1>5, <1>6, <1>7

\* A scan only starts for a deployment that has a cutoff.
LEMMA ScanStep ==
  ASSUME RTypeOK, ScanHasCutoff, [RNext]_rVars
  PROVE  ScanHasCutoff'
<1> DEFINE Scans == {"poll", "complete", "partial", "gapped"}
<1> SUFFICES ASSUME NEW t \in Ticks, at'[t] \in Scans, NEW d \in target'[t]
             PROVE  cutoff[d] # {} /\ d \in Deployments
  BY CutoffMoves DEF ScanHasCutoff
<1>1. ASSUME NEW r \in Ticks, TickStep(r) PROVE target'[t] = target[t] /\ cutoff[d] # {}
  <2>1. CASE at'[t] = at[t] /\ target'[t] = target[t]
    BY <2>1 DEF ScanHasCutoff
  <2>2. CASE Coverage(t)
    BY <2>2 DEF Coverage, NeedsCoverage, Goto, NoTarget, RTypeOK, AtMostOne
  <2>3. CASE TickPoll(t)
    BY <2>3 DEF TickPoll, ScanHasCutoff, Goto, NoTarget, RTypeOK
  <2>4. \/ at'[t] = at[t] /\ target'[t] = target[t]
        \/ at'[t] \notin Scans
        \/ Coverage(t) \/ TickPoll(t)
    <3>1. CASE r # t
      BY <1>1, <3>1, ZenonT(60) DEF TickStep, TickWork, TickTrouble, TickObserve, TickDischarge, TickMiss,
         FinalityDone, CountUnfinished, ReadLatestLedger, StoreCutoff, Coverage, TickPoll,
         RecordCoverage, Conclude, TickScope, Catch, Restart, TickCrash, Throw, PollThrows,
         BeginTick, Goto, tickVars, RTypeOK
    <3>2. CASE r = t
      <4>1. CASE \/ \E h \in Hashes : TickObserve(t, h)
                 \/ \E o \in Obligations : TickDischarge(t, o)
                 \/ \E x \in todo[t] : TickMiss(t, x)
                 \/ TickScope(t)
        BY <4>1 DEF TickObserve, TickDischarge, TickMiss, TickScope, tickVars
      <4>2. CASE \/ FinalityDone(t) \/ StoreCutoff(t) \/ RecordCoverage(t) \/ Conclude(t)
                 \/ Catch(t) \/ Restart(t) \/ TickCrash(t) \/ Throw(t) \/ PollThrows(t)
                 \/ CountUnfinished(t)
        <5>1. \E stage : stage \notin Scans /\ Goto(t, stage)
          BY <4>2 DEF FinalityDone, StoreCutoff, RecordCoverage, Conclude, Catch, Restart,
             TickCrash, Throw, PollThrows, CountUnfinished
        <5> QED BY <5>1 DEF Goto, RTypeOK
      <4>3. CASE ReadLatestLedger(t) \/ \E e \in Deployments : BeginTick(t, e)
        BY <4>3 DEF ReadLatestLedger, BeginTick, RTypeOK
      <4> QED BY <1>1, <3>2, <4>1, <4>2, <4>3 DEF TickStep, TickWork, TickTrouble
    <3> QED BY <3>1, <3>2
  <2> QED BY <2>1, <2>2, <2>3, <2>4
<1>2. CASE UNCHANGED tickVars
  BY <1>2 DEF tickVars, ScanHasCutoff, RTypeOK
<1>3. (\E r \in Ticks : TickStep(r)) \/ UNCHANGED tickVars
  BY DEF RNext, OrdinaryStep, OrdinaryPoll, Incur, Discharge, RequestRetirement, OperatorStep,
     VerifyEvents, FenceWork, VerifyWork, VerifyTransaction, VerifyObligation, rVars, tickVars
<1> QED BY <1>1, <1>2, <1>3 DEF RTypeOK

LEMMA CoverageStep ==
  ASSUME RTypeOK, CoverageInv, [RNext]_rVars
  PROVE  CoverageInv'
<1>1. ScanHasCutoff'
  BY ScanStep DEF CoverageInv
<1>2. ASSUME NEW d \in Deployments, reconciled'[d] PROVE cutoff'[d] # {}
  <2>1. cutoff[d] # {}
    BY <1>2, CoverageMoves DEF CoverageInv, ScanHasCutoff, CoverageFollowsCutoff
  <2> QED BY <2>1, CutoffMoves
<1>3. ASSUME NEW d \in Deployments, serviceState'[d] = "RETIRED" PROVE reconciled'[d]
  BY <1>3, CoverageMoves DEF CoverageInv, CoverageFollowsCutoff
<1> QED BY <1>1, <1>2, <1>3 DEF CoverageInv, CoverageFollowsCutoff

(***************************************************************************)
(* Coverage is claimed only with a cutoff in place, though ticks overlap,  *)
(* polls find gaps and operators attest; and RETIRED keeps that claim.     *)
(***************************************************************************)
THEOREM CoverageHasItsCutoff == RSpec => []CoverageFollowsCutoff
<1>1. RInit => CoverageInv
  BY DEF RInit, NoWork, CoverageInv, ScanHasCutoff, CoverageFollowsCutoff
<1>2. RTypeOK /\ CoverageInv /\ [RNext]_rVars => CoverageInv'
  BY CoverageStep
<1>3. CoverageInv => CoverageFollowsCutoff
  BY DEF CoverageInv
<1> QED BY <1>1, <1>2, <1>3, RetirementTypeCorrect, PTL DEF RSpec

-----------------------------------------------------------------------------
(* No way back *)

LEMMA RetiredScopeStep ==
  ASSUME SWTypeOK, NEW s \in Scopes, ScopeStep(s) \/ ReconcilerStep(s),
         NEW d \in Deployments, serviceState[d] = "RETIRED", NoWorkLeft(d)
  PROVE  \A r \in Scopes : work'[r][d] \in {work[r][d], "none"}
<1> DEFINE Goal == \A r \in Scopes : work'[r][d] \in {work[r][d], "none"}
<1>1. ASSUME NEW e \in Deployments, AdmitWork(s, e) PROVE Goal
  BY <1>1 DEF AdmitWork, Open, MayAdmit, SWTypeOK
<1>2. ASSUME NEW E \in SUBSET Deployments, AdmitBatch(s, E) PROVE Goal
  BY <1>2 DEF AdmitBatch, Open, StillActive, SWTypeOK
<1>3. CASE CloseWork(s)
  BY <1>3 DEF CloseWork, NoWorkLeft, SWTypeOK
<1>4. CASE PruneWork(s)
  BY <1>4 DEF PruneWork, SWTypeOK
<1>5. CASE Recycle(s)
  BY <1>5 DEF Recycle, SWTypeOK
<1>6. ASSUME NEW h \in Hashes, NEW e \in Deployments, ReconcileAdmit(s, e, h) PROVE Goal
  BY <1>6 DEF ReconcileAdmit, Open, SWTypeOK
<1>7. CASE UNCHANGED work
  BY <1>7
<1> QED BY <1>1, <1>2, <1>3, <1>4, <1>5, <1>6, <1>7
        DEF ScopeStep, Crash, BeforeExternalRelayer, BeforeServiceSubmission, Deliver, Lose,
            Refuse, ObserveRefusal, ObserveFinality, ObserveExternalRelayer, ReconcilerStep,
            ReconcileFound, ReconcileMissed

LEMMA RetiredStep ==
  ASSUME RTypeOK, SettlementInv, SettlementInv', [RNext]_rVars,
         NEW d \in Deployments, serviceState[d] = "RETIRED"
  PROVE  /\ serviceState'[d] = "RETIRED"
         /\ owing'[d] = {}
         /\ \A s \in Scopes : tx'[s][d] = tx[s][d]
         /\ \A s \in Scopes : work'[s][d] \in {work[s][d], "none"}
<1> DEFINE Goal == \A r \in Scopes : work'[r][d] \in {work[r][d], "none"}
<1>0. SWTypeOK /\ NoWorkLeft(d) /\ Frozen(d)
  BY DEF RTypeOK, SettlementInv, RetiredIsSettled, Unblocked, NoWorkLeft, Frozen
<1>1. serviceState'[d] = "RETIRED"
  BY LifecycleMoves DEF Advances, RequestRetirement, RTypeOK, SWTypeOK
<1>2. owing'[d] = {}
  BY <1>1 DEF SettlementInv, RetiredIsSettled, Unblocked
<1>3. \A s \in Scopes : tx'[s][d] = tx[s][d]
  BY <1>0, FrozenStep
<1>4. ASSUME NEW s \in Ordinary, ScopeStep(s) \/ ReconcilerStep(s) PROVE Goal
  BY <1>0, <1>4, RetiredScopeStep DEF Ordinary
<1>5. ASSUME NEW t \in Ticks, TickRows(t) PROVE Goal
  BY <1>0, <1>5, RetiredScopeStep, ServiceWorkAssumption DEF TickRows, ScopeStep, Ticks
<1>6. ASSUME \/ Network \/ UNCHANGED workVars
             \/ \E t \in Ticks, h \in Hashes : TickObserve(t, h)
             \/ \E e \in Deployments, h \in Hashes : VerifyTransaction(e, h)
      PROVE  Goal
  <2>1. UNCHANGED work
    BY <1>6 DEF Network, Include, Expire, Broadcast, TickObserve, VerifyTransaction, workVars
  <2> QED BY <2>1
<1>7. ASSUME NEW e \in Deployments,
             RequestRetirement(e) \/ \E s \in Scopes : FenceWork(s, e) \/ VerifyWork(s, e)
      PROVE  Goal
  <2>1. e # d
    BY <1>7 DEF RequestRetirement, FenceWork, VerifyWork
  <2>2. CASE RequestRetirement(e)
    BY <1>0, <2>1, <2>2, RetirementAssumption DEF RequestRetirement, SWTypeOK
  <2>3. ASSUME NEW s \in Scopes, FenceWork(s, e) \/ VerifyWork(s, e) PROVE Goal
    <3>1. PICK state \in {"BLOCKED", "DONE"} : work' = [work EXCEPT ![s][e] = state]
      BY <2>3 DEF FenceWork, VerifyWork
    <3>2. work \in [Scopes -> [Deployments -> WorkStates]]
      BY <1>0 DEF SWTypeOK
    <3>3. \A r \in Scopes : work'[r][d] = work[r][d]
      BY <2>1, <3>1, <3>2
    <3> QED BY <3>3
  <2> QED BY <1>7, <2>2, <2>3
<1> HIDE DEF Goal
<1>8. Goal
  BY TableSteps, <1>4, <1>5, <1>6, <1>7
<1> QED BY <1>1, <1>2, <1>3, <1>8 DEF Goal

(***************************************************************************)
(* Retirement is never undone: not the lifecycle, not the cutoff, and      *)
(* nothing happens on behalf of a RETIRED deployment any more.             *)
(***************************************************************************)
THEOREM NoWayBack == RSpec => RetirementIsIrrevocable
<1>1. RTypeOK /\ SettlementInv /\ SettlementInv' /\ [RNext]_rVars
        => [\A d \in Deployments :
              /\ serviceState[d] # "ACTIVE" => serviceState'[d] # "ACTIVE"
              /\ cutoff[d] # {} => cutoff'[d] = cutoff[d]
              /\ serviceState[d] = "RETIRED" =>
                   /\ serviceState'[d] = "RETIRED"
                   /\ owing'[d] = {}
                   /\ \A s \in Scopes : tx'[s][d] = tx[s][d]
                   /\ \A s \in Scopes : work'[s][d] \in {work[s][d], "none"}]_rVars
  BY NeverActiveAgain, CutoffMoves, RetiredStep
<1> QED BY <1>1, RetirementTypeCorrect, SettlementInvariant, PTL DEF RSpec, RetirementIsIrrevocable

-----------------------------------------------------------------------------
(* Retirement implements Drain: each of its steps admits work, settles,    *)
(* requests or retires, or leaves what is owed unchanged.                  *)

\* What a step of the admission layer may do to what is owed.
Admits(s) == \E E \in SUBSET Deployments :
  /\ \A d \in E : MayAdmit(s, d)
  /\ \A d \in Deployments : Owed(d)' = IF d \in E THEN Owed(d) \cup {s} ELSE Owed(d)

Shrinks == \A d \in Deployments : Owed(d)' \subseteq Owed(d)

LEMMA AdmitsIsDrain ==
  ASSUME NEW s \in Scopes, Admits(s), UNCHANGED serviceState
  PROVE  Abstract!Next
<1>1. PICK E \in SUBSET Deployments :
        /\ \A d \in E : MayAdmit(s, d)
        /\ \A d \in Deployments : Owed(d)' = IF d \in E THEN Owed(d) \cup {s} ELSE Owed(d)
  BY DEF Admits
<1>2. Abstract!Admit(s, E)
  BY <1>1 DEF Abstract!Admit, MayAdmit
<1> QED BY <1>2 DEF Abstract!Next

LEMMA ShrinksIsDrain ==
  ASSUME Shrinks, UNCHANGED serviceState
  PROVE  Abstract!Next
<1>1. Abstract!Settle
  BY DEF Abstract!Settle, Shrinks, Owed
<1> QED BY <1>1 DEF Abstract!Next

\* What is owed depends on two tables.
LEMMA OwedDepends ==
  ASSUME NEW d \in Deployments,
         \A s \in Scopes : work'[s][d] \in {"OPEN", "BLOCKED"} => s \in Owed(d),
         \A s \in Scopes, h \in Hashes : tx'[s][d][h] = "PENDING" => s \in Owed(d)
  PROVE  Owed(d)' \subseteq Owed(d)
BY DEF Owed

LEMMA OpenAdmits ==
  ASSUME SWTypeOK, NEW s \in Scopes, NEW E \in SUBSET Deployments, Open(s, E),
         \A d \in E : MayAdmit(s, d), UNCHANGED tx
  PROVE  Admits(s)
<1>1. \A d \in Deployments : Owed(d)' = IF d \in E THEN Owed(d) \cup {s} ELSE Owed(d)
  <2> TAKE d \in Deployments
  <2>1. \A r \in Scopes : work'[r][d] = IF r = s /\ d \in E THEN "OPEN" ELSE work[r][d]
    BY DEF Open, SWTypeOK
  <2> QED BY <2>1 DEF Owed
<1> QED BY <1>1 DEF Admits

LEMMA ObservedShrinks ==
  ASSUME SWTypeOK, NEW E, NEW h \in Hashes, NEW state, state # "PENDING",
         Observed(E, h, state), UNCHANGED work
  PROVE  Shrinks
<1> SUFFICES ASSUME NEW d \in Deployments PROVE Owed(d)' \subseteq Owed(d)
  BY DEF Shrinks
<1>1. \A s \in Scopes, g \in Hashes : tx'[s][d][g] = "PENDING" => tx[s][d][g] = "PENDING"
  BY DEF SWTypeOK, Observed
<1> QED BY <1>1, OwedDepends DEF Owed

LEMMA ScopeStepDrains ==
  ASSUME SWTypeOK, OpaqueInv, NEW s \in Scopes, ScopeStep(s) \/ ReconcilerStep(s)
  PROVE  UNCHANGED serviceState /\ (Admits(s) \/ Shrinks)
<1> DEFINE Goal == UNCHANGED serviceState /\ (Admits(s) \/ Shrinks)
<1>1. ASSUME NEW e \in Deployments, AdmitWork(s, e) PROVE Goal
  BY <1>1, OpenAdmits DEF AdmitWork
<1>2. ASSUME NEW E \in SUBSET Deployments, AdmitBatch(s, E) PROVE Goal
  BY <1>2, OpenAdmits DEF AdmitBatch, StillActive, MayAdmit
<1>3. ASSUME NEW h \in Hashes, NEW e \in Deployments, ReconcileAdmit(s, e, h) PROVE Goal
  BY <1>3, OpenAdmits DEF ReconcileAdmit, MayAdmit
<1>4. CASE CloseWork(s) \/ PruneWork(s) \/ Recycle(s)
  <2>1. /\ UNCHANGED <<serviceState, tx>>
        /\ \A r \in Scopes, d \in Deployments :
             work'[r][d] \in {"OPEN", "BLOCKED"} => work[r][d] \in {"OPEN", "BLOCKED"}
    <3>1. CASE CloseWork(s)
      BY <3>1 DEF CloseWork, SWTypeOK
    <3>2. CASE PruneWork(s)
      BY <3>2 DEF PruneWork, SWTypeOK
    <3>3. CASE Recycle(s)
      BY <3>3 DEF Recycle, SWTypeOK
    <3> QED BY <1>4, <3>1, <3>2, <3>3
  <2> QED BY <2>1, OwedDepends DEF Shrinks, Owed
<1>5. CASE Crash(s) \/ BeforeExternalRelayer(s)
  BY <1>5 DEF Crash, BeforeExternalRelayer, Shrinks, Owed
<1>6. ASSUME NEW h \in Hashes, BeforeServiceSubmission(s, h) PROVE Goal
  <2>1. \A r \in Scopes, d \in Deployments, g \in Hashes :
          tx'[r][d][g] = "PENDING" => tx[r][d][g] = "PENDING" \/ work[r][d] = "OPEN"
    BY <1>6 DEF BeforeServiceSubmission, AdmissionStands, Participants, SWTypeOK
  <2> QED BY <1>6, <2>1, OwedDepends DEF BeforeServiceSubmission, Shrinks, Owed
<1>7. ASSUME NEW h \in Hashes, Deliver(s, h) \/ Lose(s, h) \/ Refuse(s, h) PROVE Goal
  BY <1>7 DEF Deliver, Lose, Refuse, Shrinks, Owed
<1>8. ASSUME NEW h \in Hashes, ObserveRefusal(s, h) PROVE Goal
  BY <1>8, ObservedShrinks DEF ObserveRefusal, RefusalState
<1>9. ASSUME NEW h \in Hashes, ObserveFinality(s, h) \/ ReconcileFound(s, h) PROVE Goal
  BY <1>9, ObservedShrinks DEF ObserveFinality, ReconcileFound, Decided, Final
<1>10. ASSUME NEW h \in Hashes, ObserveExternalRelayer(s, h) PROVE Goal
  <2>1. \A r \in Scopes, d \in Deployments, g \in Hashes :
          tx'[r][d][g] = "PENDING" => \/ tx[r][d][g] = "PENDING"
                                     \/ work[r][d] \in {"OPEN", "BLOCKED"}
    BY <1>10 DEF ObserveExternalRelayer, OpaqueInv, Remembered, SWTypeOK
  <2> QED BY <1>10, <2>1, OwedDepends DEF ObserveExternalRelayer, Shrinks, Owed
<1>11. ASSUME NEW h \in Hashes, ReconcileMissed(s, h) PROVE Goal
  BY <1>11 DEF ReconcileMissed, Shrinks, Owed
<1> QED BY <1>1, <1>2, <1>3, <1>4, <1>5, <1>6, <1>7, <1>8, <1>9, <1>10, <1>11
        DEF ScopeStep, ReconcilerStep

\* A step that leaves the two tables alone.
LEMMA AsideDrains ==
  ASSUME UNCHANGED <<serviceState, work, tx>>
  PROVE  Abstract!Next
BY ShrinksIsDrain DEF Shrinks, Owed

LEMMA ScopeStepIsDrain ==
  ASSUME SWTypeOK, OpaqueInv, NEW s \in Scopes, ScopeStep(s) \/ ReconcilerStep(s)
  PROVE  Abstract!Next
BY ScopeStepDrains, AdmitsIsDrain, ShrinksIsDrain

LEMMA TickStepIsDrain ==
  ASSUME RTypeOK, SettlementInv, NEW t \in Ticks, TickStep(t)
  PROVE  Abstract!Next
<1>0. t \in Scopes /\ SWTypeOK /\ OpaqueInv
  BY ServiceWorkAssumption DEF Ticks, RTypeOK, SettlementInv
<1>1. ASSUME NEW h \in Hashes, TickObserve(t, h) PROVE Abstract!Next
  <2>1. Shrinks
    BY <1>0, <1>1, ObservedShrinks DEF TickObserve
  <2> QED BY <1>1, <2>1, ShrinksIsDrain DEF TickObserve
<1>2. CASE \/ \E o \in Obligations : TickDischarge(t, o)
           \/ \E d \in Deployments : BeginTick(t, d)
           \/ \E x \in todo[t] : TickMiss(t, x)
           \/ FinalityDone(t) \/ CountUnfinished(t) \/ ReadLatestLedger(t) \/ StoreCutoff(t)
           \/ TickPoll(t) \/ PollThrows(t) \/ RecordCoverage(t)
           \/ Throw(t) \/ Catch(t) \/ Restart(t)
  BY <1>2, AsideDrains
  DEF TickDischarge, BeginTick, TickMiss, FinalityDone, CountUnfinished, ReadLatestLedger,
      StoreCutoff, TickPoll, PollThrows, RecordCoverage, Throw, Catch, Restart, swVars
<1>3. CASE Coverage(t)
  <2>1. PICK d \in target[t] : UNCHANGED swVars \/ AdmitWork(t, d)
    BY <1>3 DEF Coverage
  <2>2. d \in Deployments
    BY DEF RTypeOK
  <2>3. CASE UNCHANGED swVars
    BY <2>3, AsideDrains DEF swVars
  <2>4. CASE AdmitWork(t, d)
    BY <1>0, <2>2, <2>4, ScopeStepIsDrain DEF ScopeStep
  <2> QED BY <2>1, <2>3, <2>4
<1>4. CASE Conclude(t)
  <2>1. PICK d \in target[t] :
          \/ UNCHANGED serviceState
          \/ /\ serviceState[d] = "RETIRING" /\ MayRetire(d)
             /\ serviceState' = [serviceState EXCEPT ![d] = "RETIRED"]
    BY <1>4 DEF Conclude
  <2>2. d \in Deployments /\ UNCHANGED <<work, tx>>
    BY <1>4 DEF RTypeOK, Conclude, workVars
  <2>3. CASE UNCHANGED serviceState
    BY <2>2, <2>3, AsideDrains
  <2>4. CASE /\ serviceState[d] = "RETIRING" /\ MayRetire(d)
             /\ serviceState' = [serviceState EXCEPT ![d] = "RETIRED"]
    <3>1. Owed(d) = {}
      BY <2>4 DEF MayRetire, Unblocked, NoWorkLeft, NothingPending, Owed
    <3>2. Abstract!Retire(d)
      BY <2>2, <2>4, <3>1 DEF Abstract!Retire, Abstract!Drained, Owed
    <3> QED BY <2>2, <3>2 DEF Abstract!Next
  <2> QED BY <2>1, <2>3, <2>4
<1>5. CASE TickCrash(t)
  <2>1. CASE UNCHANGED swVars
    BY <2>1, AsideDrains DEF swVars
  <2>2. CASE Crash(t)
    BY <1>0, <2>2, ScopeStepIsDrain DEF ScopeStep
  <2> QED BY <1>5, <2>1, <2>2 DEF TickCrash
<1>6. CASE TickScope(t)
  BY <1>0, <1>6, TickScopeIsScopeStep, ScopeStepIsDrain
<1> QED BY <1>1, <1>2, <1>3, <1>4, <1>5, <1>6 DEF TickStep, TickWork, TickTrouble

LEMMA OwnerStepIsDrain ==
  ASSUME RTypeOK, NEW d \in Deployments, RequestRetirement(d) \/ OperatorStep(d)
  PROVE  Abstract!Next
<1>1. CASE RequestRetirement(d)
  <2> DEFINE found == {h \in Hashes : IsLegacy(d, h) /\ \A s \in Scopes : tx[s][d][h] = "none"}
             debt == IF found = {} THEN {} ELSE {Legacy}
  <2>1. /\ Legacy \in Scopes
        /\ \A s \in Scopes, e \in Deployments : (s # Legacy \/ e # d) =>
             work'[s][e] = work[s][e] /\ tx'[s][e] = tx[s][e]
        /\ work'[Legacy][d] = IF found = {} THEN work[Legacy][d] ELSE "DONE"
        /\ \A h \in Hashes :
             tx'[Legacy][d][h] = IF h \in found THEN "PENDING" ELSE tx[Legacy][d][h]
    BY <1>1, RetirementAssumption DEF RequestRetirement, RTypeOK, SWTypeOK
  <2>2. \A e \in Deployments : e # d => Owed(e)' = Owed(e)
    BY <2>1 DEF Owed
  <2>3. Owed(d)' = Owed(d) \cup debt
    <3>1. CASE found = {}
      BY <2>1, <3>1 DEF Owed
    <3>2. CASE found # {}
      BY <2>1, <3>2 DEF Owed
    <3> QED BY <3>1, <3>2
  <2>4. debt \in SUBSET {Legacy}
    OBVIOUS
  <2>5. Abstract!Request(d)
    BY <1>1, <2>2, <2>3, <2>4 DEF Abstract!Request, RequestRetirement
  <2> QED BY <2>5 DEF Abstract!Next
<1>2. CASE VerifyEvents(d) \/ \E o \in Obligations : VerifyObligation(d, o)
  BY <1>2, AsideDrains DEF VerifyEvents, VerifyObligation, swVars
<1>3. ASSUME NEW h \in Hashes, VerifyTransaction(d, h) PROVE Abstract!Next
  <2>1. \A s \in Scopes, e \in Deployments, g \in Hashes :
          tx'[s][e][g] = "PENDING" => tx[s][e][g] = "PENDING"
    BY <1>3 DEF VerifyTransaction, Decided, Final, RTypeOK, SWTypeOK
  <2>2. Shrinks
    BY <1>3, <2>1, OwedDepends DEF VerifyTransaction, Shrinks, Owed
  <2> QED BY <1>3, <2>2, ShrinksIsDrain DEF VerifyTransaction
<1>4. ASSUME NEW s \in Scopes, FenceWork(s, d) \/ VerifyWork(s, d) PROVE Abstract!Next
  <2>1. UNCHANGED <<serviceState, tx>>
    BY <1>4 DEF FenceWork, VerifyWork
  <2>2. \A r \in Scopes, e \in Deployments :
          work'[r][e] \in {"OPEN", "BLOCKED"} => work[r][e] \in {"OPEN", "BLOCKED"}
    <3>1. CASE FenceWork(s, d)
      BY <3>1 DEF FenceWork, RTypeOK, SWTypeOK
    <3>2. CASE VerifyWork(s, d)
      BY <3>2 DEF VerifyWork, RTypeOK, SWTypeOK
    <3> QED BY <1>4, <3>1, <3>2
  <2>3. Shrinks
    BY <2>1, <2>2, OwedDepends DEF Shrinks, Owed
  <2> QED BY <2>1, <2>3, ShrinksIsDrain
<1> QED BY <1>1, <1>2, <1>3, <1>4 DEF OperatorStep

LEMMA OrdinaryIsDrain ==
  ASSUME RTypeOK, SettlementInv, NEW s \in Ordinary, OrdinaryStep(s)
  PROVE  Abstract!Next
<1>1. CASE (ScopeStep(s) \/ ReconcilerStep(s)) /\ UNCHANGED <<recordVars, tickVars>>
  BY <1>1, ScopeStepIsDrain DEF Ordinary, RTypeOK, SettlementInv
<1>2. CASE \E d \in Deployments : \/ OrdinaryPoll(s, d)
                                  \/ \E o \in Obligations : Incur(s, d, o) \/ Discharge(s, d, o)
  BY <1>2, AsideDrains DEF OrdinaryPoll, Incur, Discharge, swVars
<1> QED BY <1>1, <1>2 DEF OrdinaryStep

(***************************************************************************)
(* reconcileRetirement, the admission layer and the operator's route are,  *)
(* for every number of deployments, scopes and ticks, an implementation of *)
(* the drain that retirement promises.                                     *)
(***************************************************************************)
THEOREM RetirementImplementsDrain == RSpec => DrainSpec
<1>1. RInit => Abstract!Init
  BY DEF RInit, NoWork, Abstract!Init, Owed
<1>2. RTypeOK /\ SettlementInv /\ [RNext]_rVars => [Abstract!Next]_(Abstract!vars)
  <2> SUFFICES ASSUME RTypeOK, SettlementInv, [RNext]_rVars PROVE [Abstract!Next]_(Abstract!vars)
    OBVIOUS
  <2>1. CASE Network /\ UNCHANGED <<recordVars, tickVars>>
    BY <2>1, AsideDrains DEF Network, Include, Expire, Broadcast
  <2>2. CASE UNCHANGED rVars
    BY <2>2 DEF rVars, swVars, Abstract!vars, Owed
  <2> QED BY <2>1, <2>2, OrdinaryIsDrain, TickStepIsDrain, OwnerStepIsDrain DEF RNext
<1> QED BY <1>1, <1>2, RetirementTypeCorrect, SettlementInvariant, PTL DEF RSpec, DrainSpec, Abstract!Spec
=============================================================================
