-------------------------- MODULE ServiceWorkProofs --------------------------
(***************************************************************************)
(* Theorems about ServiceWork for any deployments, scopes and hashes.  The *)
(* lemmas are about steps, so that Retirement's proofs, whose steps        *)
(* include these, can use them too.                                        *)
(***************************************************************************)
EXTENDS ServiceWork, TLAPS

-----------------------------------------------------------------------------
(* Type correctness *)

LEMMA NoWorkType ==
  ASSUME NoWork, net \in [Hashes -> NetStates]
  PROVE  SWTypeOK
BY DEF NoWork, SWTypeOK, ServiceStates, WorkStates, TxStates, ScopeStates, CallStates

LEMMA ObservedType ==
  ASSUME SWTypeOK, NEW D, NEW h \in Hashes, NEW state \in TxStates, Observed(D, h, state)
  PROVE  tx' \in [Scopes -> [Deployments -> [Hashes -> TxStates]]]
BY DEF SWTypeOK, Observed

LEMMA OpenType ==
  ASSUME SWTypeOK, NEW s \in Scopes, NEW D \in SUBSET Deployments, Open(s, D)
  PROVE  /\ work' \in [Scopes -> [Deployments -> WorkStates]]
         /\ pc' \in [Scopes -> ScopeStates]
         /\ parts' \in [Scopes -> SUBSET Deployments]
         /\ external' \in [Scopes -> BOOLEAN]
BY DEF SWTypeOK, Open, WorkStates, ScopeStates

LEMMA ScopeStepType ==
  ASSUME SWTypeOK, NEW s \in Scopes, ScopeStep(s)
  PROVE  SWTypeOK'
<1>1. CASE \E d \in Deployments : AdmitWork(s, d)
  BY <1>1, OpenType DEF AdmitWork, SWTypeOK
<1>2. CASE \E D \in SUBSET Deployments : AdmitBatch(s, D)
  BY <1>2, OpenType DEF AdmitBatch, StillActive, SWTypeOK
<1>3. CASE CloseWork(s)
  BY <1>3 DEF CloseWork, FinishState, SWTypeOK, WorkStates, ScopeStates
<1>4. CASE PruneWork(s)
  BY <1>4 DEF PruneWork, SWTypeOK, WorkStates, ScopeStates
<1>5. CASE Recycle(s)
  BY <1>5 DEF Recycle, SWTypeOK, WorkStates, ScopeStates
<1>6. CASE Crash(s)
  BY <1>6 DEF Crash, SWTypeOK, ScopeStates, CallStates
<1>7. CASE BeforeExternalRelayer(s)
  BY <1>7 DEF BeforeExternalRelayer, SWTypeOK
<1>8. ASSUME NEW h \in Hashes, BeforeServiceSubmission(s, h)
      PROVE  SWTypeOK'
  BY <1>8 DEF BeforeServiceSubmission, SWTypeOK, TxStates, CallStates
<1>9. ASSUME NEW h \in Hashes, Deliver(s, h)
      PROVE  SWTypeOK'
  BY <1>9 DEF Deliver, SWTypeOK, CallStates, NetStates
<1>10. ASSUME NEW h \in Hashes, Lose(s, h)
       PROVE  SWTypeOK'
  BY <1>10 DEF Lose, SWTypeOK, CallStates
<1>11. ASSUME NEW h \in Hashes, Refuse(s, h)
       PROVE  SWTypeOK'
  BY <1>11 DEF Refuse, SWTypeOK, CallStates
<1>12. ASSUME NEW h \in Hashes, ObserveRefusal(s, h)
       PROVE  SWTypeOK'
  <2>1. RefusalState \in TxStates
    BY DEF RefusalState, TxStates
  <2> QED BY <1>12, <2>1, ObservedType DEF ObserveRefusal, SWTypeOK, CallStates
<1>13. ASSUME NEW h \in Hashes, ObserveFinality(s, h)
       PROVE  SWTypeOK'
  <2>1. net[h] \in TxStates
    BY <1>13 DEF ObserveFinality, Decided, Final, TxStates
  <2> QED BY <1>13, <2>1, ObservedType DEF ObserveFinality, SWTypeOK
<1>14. ASSUME NEW h \in Hashes, ObserveExternalRelayer(s, h)
       PROVE  SWTypeOK'
  BY <1>14 DEF ObserveExternalRelayer, SWTypeOK, TxStates, NetStates
<1> QED
  BY <1>1, <1>2, <1>3, <1>4, <1>5, <1>6, <1>7, <1>8, <1>9, <1>10, <1>11, <1>12,
     <1>13, <1>14 DEF ScopeStep

LEMMA ReconcilerStepType ==
  ASSUME SWTypeOK, NEW s \in Scopes, ReconcilerStep(s)
  PROVE  SWTypeOK'
<1>1. PICK h \in Hashes : \/ \E d \in Deployments : ReconcileAdmit(s, d, h)
                          \/ ReconcileFound(s, h)
                          \/ ReconcileMissed(s, h)
  BY DEF ReconcilerStep
<1>2. CASE \E d \in Deployments : ReconcileAdmit(s, d, h)
  BY <1>2, OpenType DEF ReconcileAdmit, SWTypeOK, CallStates
<1>3. CASE ReconcileFound(s, h)
  <2>1. net[h] \in TxStates
    BY <1>3 DEF ReconcileFound, Decided, Final, TxStates
  <2> QED BY <1>3, <2>1, ObservedType DEF ReconcileFound, SWTypeOK, CallStates
<1>4. CASE ReconcileMissed(s, h)
  BY <1>4 DEF ReconcileMissed, SWTypeOK, CallStates
<1> QED BY <1>1, <1>2, <1>3, <1>4

LEMMA NetworkType ==
  ASSUME SWTypeOK, Network
  PROVE  SWTypeOK'
BY DEF SWTypeOK, Network, Include, Expire, Broadcast, NetStates, Final

(***************************************************************************)
(* Every variable of the admission layer keeps its type.                   *)
(***************************************************************************)
THEOREM TypeCorrect == SWSpec => []SWTypeOK
<1>1. SWInit => SWTypeOK
  <2> SUFFICES ASSUME SWInit PROVE SWTypeOK
    OBVIOUS
  <2>1. net \in [Hashes -> NetStates]
    BY DEF SWInit, NetStates
  <2> QED BY <2>1, NoWorkType DEF SWInit
<1>2. SWTypeOK /\ [SWNext]_swVars => SWTypeOK'
  <2> SUFFICES ASSUME SWTypeOK, [SWNext]_swVars PROVE SWTypeOK'
    OBVIOUS
  <2>1. CASE \E s \in Scopes : ScopeStep(s) \/ ReconcilerStep(s)
    BY <2>1, ScopeStepType, ReconcilerStepType
  <2>2. CASE Network
    BY <2>2, NetworkType
  <2>3. ASSUME NEW d \in Deployments, Lifecycle(d) PROVE SWTypeOK'
    BY <2>3 DEF Lifecycle, SWTypeOK, ServiceStates, workVars
  <2>4. CASE UNCHANGED swVars
    BY <2>4 DEF SWTypeOK, swVars
  <2> QED BY <2>1, <2>2, <2>3, <2>4 DEF SWNext
<1> QED BY <1>1, <1>2, PTL DEF SWSpec

-----------------------------------------------------------------------------
(* The opaque relayer *)

\* A scope that asked a relayer remembers it for as long as it may finish.
Remembered(s) ==
  /\ pc[s] # "idle" => parts[s] # {}
  /\ asked[s] => /\ external[s]
                 /\ s \notin Batches
                 /\ pc[s] # "idle"
                 /\ \A d \in parts[s] : work[s][d] \in {"OPEN", "BLOCKED"}

OpaqueInv == \A s \in Scopes : Remembered(s)

\* A step of one scope leaves another's process, memory and rows alone, but for
\* the transaction rows that an observation projects.
LEMMA ScopesApart ==
  ASSUME SWTypeOK, NEW s \in Scopes, ScopeStep(s) \/ ReconcilerStep(s),
         NEW r \in Scopes, r # s
  PROVE  /\ pc'[r] = pc[r]
         /\ parts'[r] = parts[r]
         /\ external'[r] = external[r]
         /\ asked'[r] = asked[r]
         /\ work'[r] = work[r]
<1>1. CASE ScopeStep(s)
  <2>1. ASSUME \/ \E d \in Deployments : AdmitWork(s, d)
               \/ \E D \in SUBSET Deployments : AdmitBatch(s, D)
               \/ CloseWork(s) \/ PruneWork(s)
        PROVE  /\ pc'[r] = pc[r] /\ parts'[r] = parts[r] /\ external'[r] = external[r]
               /\ asked'[r] = asked[r] /\ work'[r] = work[r]
    BY <2>1 DEF SWTypeOK, AdmitWork, AdmitBatch, Open, CloseWork, PruneWork
  <2>2. ASSUME Recycle(s) \/ Crash(s) \/ BeforeExternalRelayer(s)
        PROVE  /\ pc'[r] = pc[r] /\ parts'[r] = parts[r] /\ external'[r] = external[r]
               /\ asked'[r] = asked[r] /\ work'[r] = work[r]
    BY <2>2 DEF SWTypeOK, Recycle, Crash, BeforeExternalRelayer
  <2>3. ASSUME NEW h \in Hashes,
               \/ BeforeServiceSubmission(s, h) \/ Deliver(s, h) \/ Lose(s, h) \/ Refuse(s, h)
               \/ ObserveRefusal(s, h) \/ ObserveFinality(s, h) \/ ObserveExternalRelayer(s, h)
        PROVE  /\ pc'[r] = pc[r] /\ parts'[r] = parts[r] /\ external'[r] = external[r]
               /\ asked'[r] = asked[r] /\ work'[r] = work[r]
    BY <2>3 DEF SWTypeOK, BeforeServiceSubmission, Deliver, Lose, Refuse, ObserveRefusal,
       ObserveFinality, ObserveExternalRelayer
  <2> QED BY <1>1, <2>1, <2>2, <2>3 DEF ScopeStep
<1>2. CASE ReconcilerStep(s)
  BY <1>2 DEF SWTypeOK, ReconcilerStep, ReconcileAdmit, Open, ReconcileFound, ReconcileMissed
<1> QED BY <1>1, <1>2

LEMMA RememberedElsewhere ==
  ASSUME SWTypeOK, NEW s \in Scopes, ScopeStep(s) \/ ReconcilerStep(s),
         NEW r \in Scopes, r # s, Remembered(r)
  PROVE  Remembered(r)'
BY ScopesApart DEF Remembered

LEMMA RememberedScopeStep ==
  ASSUME SWTypeOK, NEW s \in Scopes, ScopeStep(s), Remembered(s)
  PROVE  Remembered(s)'
<1>1. ASSUME NEW d \in Deployments, AdmitWork(s, d) PROVE Remembered(s)'
  BY <1>1 DEF AdmitWork, Open, Remembered, SWTypeOK
<1>2. ASSUME NEW D \in SUBSET Deployments, AdmitBatch(s, D) PROVE Remembered(s)'
  BY <1>2 DEF AdmitBatch, Open, Remembered, SWTypeOK
<1>3. CASE CloseWork(s)
  BY <1>3 DEF CloseWork, FinishState, Remembered, SWTypeOK
<1>4. CASE PruneWork(s)
  BY <1>4 DEF PruneWork, Remembered, SWTypeOK
<1>5. CASE Recycle(s)
  <2>1. ~asked[s]
    BY <1>5, ZenonT(60) DEF Recycle, Remembered, SWTypeOK
  <2> QED BY <1>5, <2>1 DEF Recycle, Remembered, SWTypeOK
<1>6. CASE Crash(s)
  BY <1>6 DEF Crash, Live, Remembered, SWTypeOK
<1>7. CASE BeforeExternalRelayer(s)
  BY <1>7 DEF BeforeExternalRelayer, Remembered, SWTypeOK
<1>8. ASSUME NEW h \in Hashes,
             \/ BeforeServiceSubmission(s, h) \/ Deliver(s, h) \/ Lose(s, h)
             \/ Refuse(s, h) \/ ObserveRefusal(s, h) \/ ObserveFinality(s, h)
      PROVE  Remembered(s)'
  BY <1>8 DEF BeforeServiceSubmission, Deliver, Lose, Refuse, ObserveRefusal,
     ObserveFinality, Remembered, SWTypeOK
<1>9. ASSUME NEW h \in Hashes, ObserveExternalRelayer(s, h) PROVE Remembered(s)'
  BY <1>9 DEF ObserveExternalRelayer, Remembered, SWTypeOK
<1> QED BY <1>1, <1>2, <1>3, <1>4, <1>5, <1>6, <1>7, <1>8, <1>9 DEF ScopeStep

LEMMA RememberedReconcilerStep ==
  ASSUME SWTypeOK, NEW s \in Scopes, ReconcilerStep(s), Remembered(s)
  PROVE  Remembered(s)'
<1>1. ASSUME NEW h \in Hashes, NEW d \in Deployments, ReconcileAdmit(s, d, h)
      PROVE  Remembered(s)'
  BY <1>1 DEF ReconcileAdmit, Open, Remembered, SWTypeOK
<1>2. ASSUME NEW h \in Hashes, ReconcileFound(s, h) \/ ReconcileMissed(s, h)
      PROVE  Remembered(s)'
  BY <1>2 DEF ReconcileFound, ReconcileMissed, Remembered, SWTypeOK
<1> QED BY <1>1, <1>2 DEF ReconcilerStep

LEMMA OpaqueInvStep ==
  ASSUME SWTypeOK, OpaqueInv, NEW s \in Scopes, ScopeStep(s) \/ ReconcilerStep(s)
  PROVE  OpaqueInv'
BY RememberedElsewhere, RememberedScopeStep, RememberedReconcilerStep DEF OpaqueInv

(***************************************************************************)
(* However a scope ends, by completion, exception or crash, its admission  *)
(* stays incomplete while a relayer it asked has not reported.             *)
(***************************************************************************)
THEOREM OpaqueWorkStaysOpen == SWSpec => []OpaqueStaysOpen
<1>1. SWInit => OpaqueInv
  BY DEF SWInit, NoWork, OpaqueInv, Remembered
<1>2. SWTypeOK /\ OpaqueInv /\ [SWNext]_swVars => OpaqueInv'
  <2> SUFFICES ASSUME SWTypeOK, OpaqueInv, [SWNext]_swVars PROVE OpaqueInv'
    OBVIOUS
  <2>1. CASE \E s \in Scopes : ScopeStep(s) \/ ReconcilerStep(s)
    BY <2>1, OpaqueInvStep
  <2>2. CASE Network \/ (\E d \in Deployments : Lifecycle(d)) \/ UNCHANGED swVars
    BY <2>2 DEF Network, Include, Expire, Broadcast, Lifecycle, OpaqueInv, Remembered,
       swVars, workVars
  <2> QED BY <2>1, <2>2 DEF SWNext
<1>3. OpaqueInv => OpaqueStaysOpen
  BY DEF OpaqueInv, Remembered, OpaqueStaysOpen
<1> QED BY <1>1, <1>2, <1>3, TypeCorrect, PTL DEF SWSpec

-----------------------------------------------------------------------------
(* The books: what is on the wire has rows, and the rows say what the      *)
(* ledger says                                                             *)

\* A call of s is about to hand h to a node, or has been refused by one.
InCall(s, h) == call[s][h] \in {"recorded", "refused"}
Booked(s, h) == parts[s] # {} /\ \A d \in parts[s] : tx[s][d][h] # "none"

WireInv ==
  \A s \in Scopes :
    /\ pc[s] = "idle" => parts[s] = {}
    /\ \A h \in Hashes : <<s, h>> \in wire \/ InCall(s, h) => Booked(s, h)

\* Most steps move no scope, add no call, and delete no row.
LEMMA WireKeeps ==
  ASSUME WireInv,
         \A s \in Scopes : (pc'[s] = "idle" => pc[s] = "idle") /\ parts'[s] = parts[s],
         \A s \in Scopes, h \in Hashes : <<s, h>> \in wire' => <<s, h>> \in wire \/ InCall(s, h),
         \A s \in Scopes, h \in Hashes : InCall(s, h)' => InCall(s, h),
         SWTypeOK,
         \A s \in Scopes, d \in Deployments, h \in Hashes :
            tx[s][d][h] # "none" => tx'[s][d][h] # "none"
  PROVE  WireInv'
BY DEF WireInv, Booked, SWTypeOK

\* What an observation does to each row.
RowsSeen(D, h, state) ==
  \A s \in Scopes, d \in Deployments, g \in Hashes :
    tx'[s][d][g] # tx[s][d][g] =>
      g = h /\ d \in D /\ tx[s][d][g] = "PENDING" /\ tx'[s][d][g] = state

LEMMA ObservedRows ==
  ASSUME SWTypeOK, NEW D, NEW h \in Hashes, NEW state, Observed(D, h, state)
  PROVE  RowsSeen(D, h, state)
BY DEF SWTypeOK, Observed, RowsSeen

LEMMA RefusalSpares ==
  ASSUME SWTypeOK, NEW D, NEW h \in Hashes, Observed(D, h, "REJECTED")
  PROVE  \A s \in Scopes, d \in Deployments :
           tx'[s][d][h] # tx[s][d][h] => <<d, h>> \notin Prepared
BY DEF SWTypeOK, Observed

\* A call of s moves; the other calls stay where they are.
LEMMA CallMoves ==
  ASSUME SWTypeOK, NEW s \in Scopes, NEW h \in Hashes, NEW c,
         call' = [call EXCEPT ![s][h] = c]
  PROVE  \A r \in Scopes, g \in Hashes :
           IF r = s /\ g = h THEN call'[r][g] = c ELSE call'[r][g] = call[r][g]
BY DEF SWTypeOK

LEMMA WireOpen ==
  ASSUME SWTypeOK, WireInv, NEW s \in Scopes, NEW D, Open(s, D), pc[s] = "idle",
         UNCHANGED <<tx, wire>>,
         \A r \in Scopes, h \in Hashes : InCall(r, h)' => InCall(r, h)
  PROVE  WireInv'
<1>1. \A h \in Hashes : <<s, h>> \notin wire /\ ~InCall(s, h)
  BY DEF WireInv, Booked
<1>2. \A r \in Scopes \ {s} : pc'[r] = pc[r] /\ parts'[r] = parts[r]
  BY DEF Open, SWTypeOK
<1>3. pc'[s] = "running"
  BY DEF Open, SWTypeOK
<1> QED BY <1>1, <1>2, <1>3 DEF WireInv, Booked

LEMMA WireScopeStep ==
  ASSUME SWTypeOK, OpaqueInv, WireInv, NEW s \in Scopes, ScopeStep(s) \/ ReconcilerStep(s)
  PROVE  WireInv'
<1>1. ASSUME NEW d \in Deployments, AdmitWork(s, d) PROVE WireInv'
  BY <1>1, WireOpen DEF AdmitWork, InCall
<1>2. ASSUME NEW D \in SUBSET Deployments, AdmitBatch(s, D) PROVE WireInv'
  BY <1>2, WireOpen DEF AdmitBatch, InCall
<1>3. ASSUME NEW h \in Hashes, NEW d \in Deployments, ReconcileAdmit(s, d, h) PROVE WireInv'
  <2>1. \A r \in Scopes, g \in Hashes : InCall(r, g)' => InCall(r, g)
    BY <1>3 DEF ReconcileAdmit, InCall, SWTypeOK
  <2> QED BY <1>3, <2>1, WireOpen DEF ReconcileAdmit
<1>4. CASE CloseWork(s) \/ PruneWork(s) \/ Crash(s) \/ BeforeExternalRelayer(s)
  <2>1. \A r \in Scopes : (pc'[r] = "idle" => pc[r] = "idle") /\ parts'[r] = parts[r]
    BY <1>4 DEF CloseWork, PruneWork, Crash, BeforeExternalRelayer, SWTypeOK
  <2>2. \A r \in Scopes, h \in Hashes : InCall(r, h)' => InCall(r, h)
    <3>1. CASE Crash(s)
      BY <3>1 DEF Crash, SWTypeOK, InCall
    <3>2. CASE UNCHANGED call
      BY <3>2 DEF InCall
    <3> QED BY <1>4, <3>1, <3>2 DEF CloseWork, PruneWork, BeforeExternalRelayer
  <2>3. UNCHANGED <<tx, wire>>
    BY <1>4 DEF CloseWork, PruneWork, Crash, BeforeExternalRelayer
  <2> QED BY <2>1, <2>2, <2>3, WireKeeps
<1>5. CASE Recycle(s)
  <2>1. \A h \in Hashes : <<s, h>> \notin wire /\ ~InCall(s, h)
    BY <1>5 DEF Recycle, WireInv, Booked, InCall, SWTypeOK
  <2>2. \A r \in Scopes \ {s} : pc'[r] = pc[r] /\ parts'[r] = parts[r]
    BY <1>5 DEF Recycle, SWTypeOK
  <2>3. parts'[s] = {} /\ UNCHANGED <<tx, wire, call>>
    BY <1>5 DEF Recycle, SWTypeOK
  <2> QED BY <2>1, <2>2, <2>3 DEF WireInv, Booked, InCall
<1>6. ASSUME NEW h \in Hashes, BeforeServiceSubmission(s, h) PROVE WireInv'
  <2>1. Booked(s, h)' /\ UNCHANGED <<pc, parts, wire>>
    <3>1. parts[s] # {}
      BY <1>6 DEF BeforeServiceSubmission, Live, OpaqueInv, Remembered
    <3>2. \A d \in parts[s] : tx'[s][d][h] = "PENDING"
      BY <1>6 DEF BeforeServiceSubmission, Participants, SWTypeOK
    <3> QED BY <1>6, <3>1, <3>2 DEF BeforeServiceSubmission, Booked
  <2>2. \A r \in Scopes, g \in Hashes : InCall(r, g)' => InCall(r, g) \/ (r = s /\ g = h)
    BY <1>6 DEF BeforeServiceSubmission, InCall, SWTypeOK
  <2>3. \A r \in Scopes, d \in Deployments, g \in Hashes :
          tx[r][d][g] # "none" => tx'[r][d][g] # "none"
    BY <1>6 DEF BeforeServiceSubmission, SWTypeOK
  <2> QED BY <2>1, <2>2, <2>3 DEF WireInv, Booked, SWTypeOK
<1>7. ASSUME NEW h \in Hashes, Deliver(s, h) \/ Lose(s, h) \/ Refuse(s, h) PROVE WireInv'
  <2>1. InCall(s, h) /\ UNCHANGED <<pc, parts, tx>>
    BY <1>7 DEF Deliver, Lose, Refuse, InCall
  <2>2. \A r \in Scopes, g \in Hashes : <<r, g>> \in wire' => <<r, g>> \in wire \/ InCall(r, g)
    BY <1>7, <2>1 DEF Deliver, Lose, Refuse
  <2>3. \A r \in Scopes, g \in Hashes : InCall(r, g)' => InCall(r, g)
    BY <1>7, <2>1, CallMoves DEF Deliver, Lose, Refuse, InCall
  <2> QED BY <2>1, <2>2, <2>3, WireKeeps
<1>8. ASSUME NEW h \in Hashes,
             \/ ObserveRefusal(s, h) \/ ObserveFinality(s, h)
             \/ ReconcileFound(s, h) \/ ReconcileMissed(s, h)
      PROVE  WireInv'
  <2>1. \/ tx' = tx
        \/ RowsSeen(parts[s], h, "REJECTED")
        \/ net[h] # "none" /\ RowsSeen(parts[s], h, net[h])
    BY <1>8, ObservedRows DEF ObserveRefusal, ObserveFinality, ReconcileFound, ReconcileMissed,
       RefusalState, Decided, Final
  <2>2. \A r \in Scopes, d \in Deployments, g \in Hashes :
          tx[r][d][g] # "none" => tx'[r][d][g] # "none"
    BY <2>1 DEF RowsSeen
  <2>3. \A r \in Scopes, g \in Hashes : InCall(r, g)' => InCall(r, g)
    BY <1>8, CallMoves DEF ObserveRefusal, ObserveFinality, ReconcileFound, ReconcileMissed, InCall
  <2>4. UNCHANGED <<pc, parts, wire>>
    BY <1>8 DEF ObserveRefusal, ObserveFinality, ReconcileFound, ReconcileMissed
  <2> QED BY <2>2, <2>3, <2>4, WireKeeps
<1>9. ASSUME NEW h \in Hashes, ObserveExternalRelayer(s, h) PROVE WireInv'
  <2>1. \A r \in Scopes, d \in Deployments, g \in Hashes :
          tx[r][d][g] # "none" => tx'[r][d][g] # "none"
    BY <1>9 DEF ObserveExternalRelayer, SWTypeOK
  <2> QED BY <1>9, <2>1, WireKeeps DEF ObserveExternalRelayer, InCall
<1> QED BY <1>1, <1>2, <1>3, <1>4, <1>5, <1>6, <1>7, <1>8, <1>9 DEF ScopeStep, ReconcilerStep

LEMMA WireAside ==
  ASSUME WireInv, UNCHANGED <<pc, parts, call, wire, tx>>
  PROVE  WireInv'
BY DEF WireInv, Booked, InCall

-----------------------------------------------------------------------------
\* Only what is final for the ledger becomes final in a row.
LEMMA FinalityKeeps ==
  ASSUME FinalityIsLedgers,
         \A h \in Hashes : net[h] \in Final => net'[h] = net[h],
         \A s \in Scopes, d \in Deployments, h \in Hashes :
           \/ tx'[s][d][h] = tx[s][d][h]
           \/ tx'[s][d][h] \notin Final
           \/ tx'[s][d][h] = net[h]
  PROVE  FinalityIsLedgers'
BY DEF FinalityIsLedgers

LEMMA FinalityScopeStep ==
  ASSUME SWTypeOK, FinalityIsLedgers, NEW s \in Scopes, ScopeStep(s) \/ ReconcilerStep(s)
  PROVE  FinalityIsLedgers'
<1>1. \A h \in Hashes : net[h] \in Final => net'[h] = net[h]
  BY ZenonT(60) DEF ScopeStep, AdmitWork, AdmitBatch, CloseWork, PruneWork, Recycle, Crash,
     BeforeExternalRelayer, BeforeServiceSubmission, Deliver, Lose, Refuse, ObserveRefusal,
     ObserveFinality, ObserveExternalRelayer, ReconcilerStep, ReconcileAdmit, ReconcileFound,
     ReconcileMissed, SWTypeOK, Final
<1>2. CASE UNCHANGED tx
  BY <1>1, <1>2, FinalityKeeps
<1>3. ASSUME NEW h \in Hashes, BeforeServiceSubmission(s, h) \/ ObserveExternalRelayer(s, h)
      PROVE  FinalityIsLedgers'
  <2>1. \A r \in Scopes, d \in Deployments, g \in Hashes :
          tx'[r][d][g] = tx[r][d][g] \/ tx'[r][d][g] = "PENDING"
    <3>1. CASE BeforeServiceSubmission(s, h)
      BY <3>1 DEF BeforeServiceSubmission, SWTypeOK
    <3>2. CASE ObserveExternalRelayer(s, h)
      BY <3>2 DEF ObserveExternalRelayer, SWTypeOK
    <3> QED BY <1>3, <3>1, <3>2
  <2> QED BY <1>1, <2>1, FinalityKeeps DEF Final
<1>4. ASSUME NEW h \in Hashes, ObserveRefusal(s, h) PROVE FinalityIsLedgers'
  <2>1. RowsSeen(parts[s], h, "REJECTED")
    BY <1>4, ObservedRows DEF ObserveRefusal, RefusalState
  <2>2. \A r \in Scopes, d \in Deployments, g \in Hashes :
          tx'[r][d][g] = tx[r][d][g] \/ tx'[r][d][g] \notin Final
    BY <2>1 DEF RowsSeen, Final
  <2> QED BY <1>1, <2>2, FinalityKeeps
<1>5. ASSUME NEW h \in Hashes, ObserveFinality(s, h) \/ ReconcileFound(s, h)
      PROVE  FinalityIsLedgers'
  <2>1. RowsSeen(parts[s], h, net[h])
    BY <1>5, ObservedRows DEF ObserveFinality, ReconcileFound
  <2>2. \A r \in Scopes, d \in Deployments, g \in Hashes :
          tx'[r][d][g] = tx[r][d][g] \/ tx'[r][d][g] = net[g]
    BY <2>1 DEF RowsSeen
  <2> QED BY <1>1, <2>2, FinalityKeeps
<1>6. \/ UNCHANGED tx
      \/ \E h \in Hashes : \/ BeforeServiceSubmission(s, h) \/ ObserveExternalRelayer(s, h)
                           \/ ObserveRefusal(s, h)
                           \/ ObserveFinality(s, h) \/ ReconcileFound(s, h)
  BY DEF ScopeStep, AdmitWork, AdmitBatch, CloseWork, PruneWork, Recycle, Crash,
     BeforeExternalRelayer, Deliver, Lose, Refuse, ReconcilerStep, ReconcileAdmit,
     ReconcileMissed
<1> QED BY <1>2, <1>3, <1>4, <1>5, <1>6

LEMMA FinalityNetwork ==
  ASSUME SWTypeOK, FinalityIsLedgers, Network
  PROVE  FinalityIsLedgers'
BY FinalityKeeps DEF Network, Include, Expire, Broadcast, SWTypeOK, Final

-----------------------------------------------------------------------------
(* Envelopes that only one request posts.  A REJECTED row is the record of *)
(* a transaction that is nowhere and that nobody will hand in again.       *)

Nowhere(h) == net[h] \in {"absent", "expired"}

SingleUseOf(h) ==
  /\ \A s \in Scopes : InCall(s, h) =>
        IF IsPrepared(h) THEN \A d \in parts[s] : <<d, h>> \in Prepared ELSE Nowhere(h)
  /\ \A s, r \in Scopes : InCall(s, h) /\ InCall(r, h) => s = r
  /\ \A s \in Scopes, d \in Deployments : tx[s][d][h] = "REJECTED" =>
        /\ ~IsPrepared(h) /\ Nowhere(h)
        /\ \A r \in Scopes : ~InCall(r, h)

SingleUse == \A h \in Hashes \ Reposted : SingleUseOf(h)

LEMMA SingleUseKeeps ==
  ASSUME NEW h \in Hashes, SingleUseOf(h),
         \A s \in Scopes : InCall(s, h)' => InCall(s, h) /\ parts'[s] = parts[s],
         ~IsPrepared(h) /\ Nowhere(h) => Nowhere(h)',
         \A s \in Scopes, d \in Deployments :
            tx'[s][d][h] = "REJECTED" => tx[s][d][h] = "REJECTED"
  PROVE  SingleUseOf(h)'
BY DEF SingleUseOf, IsPrepared

\* Nobody who has made no row yet is about to hand it in.
LEMMA UnrecordedIsNew ==
  ASSUME SWTypeOK, WireInv, NEW h \in Hashes, ~Recorded(h), NEW s \in Scopes
  PROVE  ~InCall(s, h)
BY DEF SWTypeOK, WireInv, Booked, Recorded

LEMMA SingleUseScopeStep ==
  ASSUME SWTypeOK, WireInv, NEW s \in Scopes, ScopeStep(s) \/ ReconcilerStep(s),
         NEW g \in Hashes \ Reposted, SingleUseOf(g)
  PROVE  SingleUseOf(g)'
<1>1. ASSUME NEW D, Open(s, D), pc[s] = "idle", UNCHANGED <<tx, net>>,
             \A r \in Scopes, h \in Hashes : InCall(r, h)' => InCall(r, h)
      PROVE  SingleUseOf(g)'
  <2>1. ~InCall(s, g)
    BY <1>1 DEF WireInv, Booked
  <2>2. \A r \in Scopes \ {s} : parts'[r] = parts[r]
    BY <1>1 DEF Open, SWTypeOK
  <2> QED BY <1>1, <2>1, <2>2, SingleUseKeeps DEF Nowhere
<1>2. ASSUME NEW d \in Deployments, AdmitWork(s, d) PROVE SingleUseOf(g)'
  BY <1>1, <1>2 DEF AdmitWork, InCall
<1>3. ASSUME NEW D \in SUBSET Deployments, AdmitBatch(s, D) PROVE SingleUseOf(g)'
  BY <1>1, <1>3 DEF AdmitBatch, InCall
<1>4. ASSUME NEW h \in Hashes, NEW d \in Deployments, ReconcileAdmit(s, d, h)
      PROVE  SingleUseOf(g)'
  <2>1. \A r \in Scopes, f \in Hashes : InCall(r, f)' => InCall(r, f)
    BY <1>4 DEF ReconcileAdmit, InCall, SWTypeOK
  <2> QED BY <1>1, <1>4, <2>1 DEF ReconcileAdmit
<1>5. CASE CloseWork(s) \/ PruneWork(s) \/ Recycle(s) \/ Crash(s) \/ BeforeExternalRelayer(s)
  <2>1. \A r \in Scopes : InCall(r, g)' => InCall(r, g) /\ parts'[r] = parts[r]
    <3>1. CASE Crash(s)
      BY <3>1 DEF Crash, SWTypeOK, InCall
    <3>2. CASE Recycle(s)
      BY <3>2 DEF Recycle, SWTypeOK, InCall
    <3>3. CASE UNCHANGED <<call, parts>>
      BY <3>3 DEF InCall
    <3> QED BY <1>5, <3>1, <3>2, <3>3 DEF CloseWork, PruneWork, BeforeExternalRelayer
  <2>2. UNCHANGED <<tx, net>>
    BY <1>5 DEF CloseWork, PruneWork, Recycle, Crash, BeforeExternalRelayer
  <2> QED BY <2>1, <2>2, SingleUseKeeps DEF Nowhere
<1>6. ASSUME NEW h \in Hashes, BeforeServiceSubmission(s, h) PROVE SingleUseOf(g)'
  <2>1. /\ UNCHANGED <<parts, net>>
        /\ \A r \in Scopes : InCall(r, g)' => InCall(r, g) \/ (r = s /\ g = h)
        /\ \A r \in Scopes, d \in Deployments :
             tx'[r][d][g] = "REJECTED" => tx[r][d][g] = "REJECTED"
    BY <1>6 DEF BeforeServiceSubmission, InCall, SWTypeOK
  <2>2. CASE g # h
    BY <2>1, <2>2, SingleUseKeeps DEF Nowhere
  <2>3. CASE g = h
    <3>1. Submittable(s, g) /\ ~Recorded(g)
      BY <1>6, <2>3 DEF BeforeServiceSubmission, Submittable
    <3>2. \A r \in Scopes : ~InCall(r, g)
      BY <3>1, UnrecordedIsNew
    <3>3. \A r \in Scopes, d \in Deployments : tx'[r][d][g] # "REJECTED"
      BY <2>1, <3>1 DEF Recorded
    <3> QED BY <2>1, <3>1, <3>2, <3>3 DEF SingleUseOf, Submittable, Nowhere, IsPrepared
  <2> QED BY <2>2, <2>3
<1>7. ASSUME NEW h \in Hashes, Deliver(s, h) PROVE SingleUseOf(g)'
  <2>1. /\ UNCHANGED <<parts, tx>>
        /\ \A r \in Scopes : InCall(r, g)' => InCall(r, g)
        /\ g # h => net'[g] = net[g]
        /\ InCall(s, h) /\ ~InCall(s, h)'
    BY <1>7 DEF Deliver, InCall, SWTypeOK
  <2>2. CASE g # h
    BY <2>1, <2>2, SingleUseKeeps DEF Nowhere
  <2>3. CASE g = h
    BY <2>1, <2>3 DEF SingleUseOf, IsPrepared
  <2> QED BY <2>2, <2>3
<1>8. ASSUME NEW h \in Hashes,
             \/ Lose(s, h) \/ Refuse(s, h) \/ ObserveFinality(s, h)
             \/ ReconcileFound(s, h) \/ ReconcileMissed(s, h)
      PROVE  SingleUseOf(g)'
  <2>1. \/ tx' = tx
        \/ net[h] # "REJECTED" /\ RowsSeen(parts[s], h, net[h])
    BY <1>8, ObservedRows DEF Lose, Refuse, ObserveFinality, ReconcileFound, ReconcileMissed,
       Decided, Final
  <2>2. \A r \in Scopes, d \in Deployments :
          tx'[r][d][g] = "REJECTED" => tx[r][d][g] = "REJECTED"
    BY <2>1 DEF RowsSeen
  <2>3. \A r \in Scopes : InCall(r, g)' => InCall(r, g)
    BY <1>8, CallMoves DEF Lose, Refuse, ObserveFinality, ReconcileFound, ReconcileMissed, InCall
  <2>4. UNCHANGED <<parts, net>>
    BY <1>8 DEF Lose, Refuse, ObserveFinality, ReconcileFound, ReconcileMissed
  <2> QED BY <2>2, <2>3, <2>4, SingleUseKeeps DEF Nowhere
<1>9. ASSUME NEW h \in Hashes, ObserveRefusal(s, h) PROVE SingleUseOf(g)'
  <2>1. /\ UNCHANGED <<parts, net>> /\ InCall(s, h) /\ ~InCall(s, h)'
        /\ \A r \in Scopes : InCall(r, g)' => InCall(r, g)
    <3>1. call[s][h] = "refused" /\ UNCHANGED <<parts, net>>
      BY <1>9 DEF ObserveRefusal
    <3>2. call' = [call EXCEPT ![s][h] = "idle"]
      BY <1>9 DEF ObserveRefusal
    <3>3. call'[s][h] = "idle"
      BY <3>2 DEF SWTypeOK
    <3>4. \A r \in Scopes : InCall(r, g)' => InCall(r, g)
      BY <3>2, CallMoves DEF InCall
    <3> QED BY <3>1, <3>3, <3>4 DEF InCall
  <2>2. RowsSeen(parts[s], h, "REJECTED")
    BY <1>9, ObservedRows DEF ObserveRefusal, RefusalState
  <2>3. \A r \in Scopes, d \in Deployments :
          tx'[r][d][h] # tx[r][d][h] => <<d, h>> \notin Prepared
    BY <1>9, RefusalSpares DEF ObserveRefusal, RefusalState
  <2>4. \A r \in Scopes, d \in Deployments : tx'[r][d][g] = "REJECTED" =>
          \/ tx[r][d][g] = "REJECTED"
          \/ g = h /\ d \in parts[s] /\ <<d, g>> \notin Prepared
    BY <2>2, <2>3 DEF RowsSeen
  <2>5. CASE g # h
    BY <2>1, <2>4, <2>5, SingleUseKeeps DEF Nowhere
  <2>6. CASE g = h
    <3>1. \A r \in Scopes : ~InCall(r, g)'
      BY <2>1, <2>6 DEF SingleUseOf
    <3>2. \A r \in Scopes, d \in Deployments :
            tx'[r][d][g] = "REJECTED" => ~IsPrepared(g) /\ Nowhere(g)
      BY <2>1, <2>4, <2>6 DEF SingleUseOf
    <3> QED BY <2>1, <3>1, <3>2 DEF SingleUseOf, Nowhere, IsPrepared
  <2> QED BY <2>5, <2>6
<1>10. ASSUME NEW h \in Hashes, ObserveExternalRelayer(s, h) PROVE SingleUseOf(g)'
  <2>1. /\ UNCHANGED <<parts, call>> /\ ~Recorded(h)
        /\ g # h => net'[g] = net[g]
        /\ \A r \in Scopes, d \in Deployments :
             tx'[r][d][g] = "REJECTED" => tx[r][d][g] = "REJECTED"
    BY <1>10 DEF ObserveExternalRelayer, SWTypeOK
  <2>2. CASE g # h
    BY <2>1, <2>2, SingleUseKeeps DEF Nowhere, InCall
  <2>3. CASE g = h
    <3>1. \A r \in Scopes : ~InCall(r, g)'
      BY <2>1, <2>3, UnrecordedIsNew DEF InCall
    <3>2. \A r \in Scopes, d \in Deployments : tx'[r][d][g] # "REJECTED"
      BY <2>1, <2>3 DEF Recorded
    <3> QED BY <3>1, <3>2 DEF SingleUseOf
  <2> QED BY <2>2, <2>3
<1> QED BY <1>2, <1>3, <1>4, <1>5, <1>6, <1>7, <1>8, <1>9, <1>10 DEF ScopeStep, ReconcilerStep

LEMMA SingleUseNetwork ==
  ASSUME SWTypeOK, Network, NEW g \in Hashes \ Reposted, SingleUseOf(g)
  PROVE  SingleUseOf(g)'
<1>1. UNCHANGED <<parts, call, tx>>
  BY DEF Network, Include, Expire, Broadcast
<1>2. ~IsPrepared(g) /\ Nowhere(g) => Nowhere(g)'
  BY DEF Network, Include, Expire, Broadcast, Nowhere, SWTypeOK
<1> QED BY <1>1, <1>2, SingleUseKeeps DEF InCall

-----------------------------------------------------------------------------
BooksInv == OpaqueInv /\ WireInv /\ FinalityIsLedgers /\ SingleUse

LEMMA BooksInit ==
  ASSUME NoWork
  PROVE  BooksInv
BY DEF NoWork, BooksInv, OpaqueInv, Remembered, WireInv, InCall, Booked, FinalityIsLedgers, Final,
   SingleUse, SingleUseOf

LEMMA BooksScopeStep ==
  ASSUME SWTypeOK, BooksInv, NEW s \in Scopes, ScopeStep(s) \/ ReconcilerStep(s)
  PROVE  BooksInv'
BY OpaqueInvStep, WireScopeStep, FinalityScopeStep, SingleUseScopeStep DEF BooksInv, SingleUse

LEMMA BooksNetwork ==
  ASSUME SWTypeOK, BooksInv, Network
  PROVE  BooksInv'
<1>1. OpaqueInv' /\ WireInv'
  BY WireAside DEF Network, Include, Expire, Broadcast, BooksInv, OpaqueInv, Remembered
<1> QED BY <1>1, FinalityNetwork, SingleUseNetwork DEF BooksInv, SingleUse

\* A step that leaves the admission tables, the calls and the network alone.
LEMMA BooksAside ==
  ASSUME BooksInv, UNCHANGED workVars
  PROVE  BooksInv'
<1>1. OpaqueInv' /\ WireInv'
  BY WireAside DEF BooksInv, OpaqueInv, Remembered, workVars
<1>2. FinalityIsLedgers'
  BY DEF BooksInv, FinalityIsLedgers, workVars
<1>3. SingleUse'
  BY DEF BooksInv, SingleUse, SingleUseOf, InCall, Nowhere, IsPrepared, workVars
<1> QED BY <1>1, <1>2, <1>3 DEF BooksInv

LEMMA BooksInvariant == SWSpec => []BooksInv
<1>1. SWInit => BooksInv
  BY BooksInit DEF SWInit
<1>2. SWTypeOK /\ BooksInv /\ [SWNext]_swVars => BooksInv'
  <2> SUFFICES ASSUME SWTypeOK, BooksInv, [SWNext]_swVars PROVE BooksInv'
    OBVIOUS
  <2>1. CASE (\E d \in Deployments : Lifecycle(d)) \/ UNCHANGED swVars
    BY <2>1, BooksAside DEF Lifecycle, swVars, workVars
  <2> QED BY <2>1, BooksScopeStep, BooksNetwork DEF SWNext
<1> QED BY <1>1, <1>2, TypeCorrect, PTL DEF SWSpec

(***************************************************************************)
(* No byte of a transaction leaves before its rows are durable, and no row *)
(* of one that left is ever lost, for any scopes, batches and crashes.     *)
(***************************************************************************)
THEOREM RecordsPrecedeTheWire == SWSpec => []RecordedBeforeWire
<1>1. BooksInv => RecordedBeforeWire
  BY DEF BooksInv, WireInv, Booked, RecordedBeforeWire
<1> QED BY <1>1, BooksInvariant, PTL

(***************************************************************************)
(* No row is ever final unless the ledger is, with the same result.        *)
(***************************************************************************)
THEOREM RowsFollowTheLedger == SWSpec => []FinalityIsLedgers
<1>1. BooksInv => FinalityIsLedgers
  BY DEF BooksInv
<1> QED BY <1>1, BooksInvariant, PTL

\* A row that is not PENDING and not final is REJECTED: of a transaction that is
\* nowhere.
LEMMA TrackedByRows ==
  ASSUME SWTypeOK, BooksInv
  PROVE  SingleUseTracked
<1> SUFFICES ASSUME NEW d \in Deployments, NEW h \in Hashes \ Reposted,
                    net[h] \in Final \cup {"queued"},
                    NEW s \in Scopes, tx[s][d][h] # "none"
             PROVE  tx[s][d][h] \in {"PENDING", net[h]}
  BY DEF SingleUseTracked, Tracked
<1>1. tx[s][d][h] # "REJECTED"
  BY DEF BooksInv, SingleUse, SingleUseOf, Nowhere, Final
<1>2. tx[s][d][h] \in Final => tx[s][d][h] = net[h]
  BY DEF BooksInv, FinalityIsLedgers
<1> QED BY <1>1, <1>2 DEF SWTypeOK, TxStates, Final

(***************************************************************************)
(* Of the envelopes that one request posts, none that is queued or on the  *)
(* ledger drops off the books of a deployment that recorded it.            *)
(***************************************************************************)
THEOREM SingleUseIsTracked == SWSpec => []SingleUseTracked
<1>1. SWTypeOK /\ BooksInv => SingleUseTracked
  BY TrackedByRows
<1> QED BY <1>1, BooksInvariant, TypeCorrect, PTL

(***************************************************************************)
(* A callback that outlives its admission makes no transaction PENDING,    *)
(* but for the report a BLOCKED row waits for.                             *)
(***************************************************************************)
THEOREM ClosedWorkIsClosed == SWSpec => ClosedWorkStaysClosed
<1>1. SWTypeOK /\ BooksInv /\ [SWNext]_swVars
        => [\A s \in Scopes, d \in Deployments, h \in Hashes :
              (pc[s] # "idle" /\ tx[s][d][h] # "PENDING" /\ tx'[s][d][h] = "PENDING")
                => \/ work[s][d] = "OPEN"
                   \/ work[s][d] = "BLOCKED" /\ asked[s]]_swVars
  <2> SUFFICES ASSUME SWTypeOK, BooksInv, SWNext, NEW s \in Scopes, NEW d \in Deployments,
                      NEW h \in Hashes, tx[s][d][h] # "PENDING", tx'[s][d][h] = "PENDING"
               PROVE  work[s][d] = "OPEN" \/ (work[s][d] = "BLOCKED" /\ asked[s])
    OBVIOUS
  <2>1. PICK r \in Scopes, g \in Hashes :
          \/ BeforeServiceSubmission(r, g) \/ ObserveExternalRelayer(r, g)
          \/ RowsSeen(parts[r], g, "REJECTED")
          \/ net[g] # "PENDING" /\ RowsSeen(parts[r], g, net[g])
    <3>1. PICK r \in Scopes : ScopeStep(r) \/ ReconcilerStep(r)
      BY DEF SWNext, Network, Include, Expire, Broadcast, Lifecycle, workVars
    <3>2. CASE UNCHANGED tx
      BY <3>2
    <3>3. ASSUME NEW g \in Hashes,
                 ObserveRefusal(r, g) \/ ObserveFinality(r, g) \/ ReconcileFound(r, g)
          PROVE  \/ RowsSeen(parts[r], g, "REJECTED")
                 \/ net[g] # "PENDING" /\ RowsSeen(parts[r], g, net[g])
      BY <3>3, ObservedRows DEF ObserveRefusal, ObserveFinality, ReconcileFound, RefusalState,
         Decided, Final
    <3> QED BY <3>1, <3>2, <3>3 DEF ScopeStep, AdmitWork, AdmitBatch, CloseWork, PruneWork,
       Recycle, Crash, BeforeExternalRelayer, Deliver, Lose, Refuse, ReconcilerStep,
       ReconcileAdmit, ReconcileMissed
  <2>2. CASE BeforeServiceSubmission(r, g)
    BY <2>2 DEF BeforeServiceSubmission, AdmissionStands, Participants, SWTypeOK
  <2>3. CASE ObserveExternalRelayer(r, g)
    BY <2>3 DEF ObserveExternalRelayer, BooksInv, OpaqueInv, Remembered, SWTypeOK
  <2>4. CASE \/ RowsSeen(parts[r], g, "REJECTED")
             \/ net[g] # "PENDING" /\ RowsSeen(parts[r], g, net[g])
    BY <2>4 DEF RowsSeen
  <2> QED BY <2>1, <2>2, <2>3, <2>4
<1> QED BY <1>1, BooksInvariant, TypeCorrect, PTL DEF SWSpec, ClosedWorkStaysClosed
=============================================================================
