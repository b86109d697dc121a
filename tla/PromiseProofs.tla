---------------------------- MODULE PromiseProofs ----------------------------
(***************************************************************************)
(* The promises of the abstract specifications, for any deployments,       *)
(* admissions, controls and callers: that a drained service owes nothing,  *)
(* that a lane has one live control and comes to rest for good, and that   *)
(* the answers about a key can be acted on.                                *)
(***************************************************************************)
EXTENDS Drain, ControlLane, KeyedPayout, TLAPS

-----------------------------------------------------------------------------
(* Drain                                                                   *)

(***************************************************************************)
(* A deployment that retires has drained, and stays drained.               *)
(***************************************************************************)
THEOREM DrainSettles ==
  ASSUME Legacy \in Scopes PROVE Spec => [](DTypeOK /\ RetiredOwesNothing)
<1>1. Init => DTypeOK /\ RetiredOwesNothing
  BY DEF Init, DTypeOK, RetiredOwesNothing, Phases
<1>2. DTypeOK /\ RetiredOwesNothing /\ [Next]_vars => DTypeOK' /\ RetiredOwesNothing'
  <2> SUFFICES ASSUME DTypeOK, RetiredOwesNothing, [Next]_vars
               PROVE  DTypeOK' /\ RetiredOwesNothing'
    OBVIOUS
  <2>1. ASSUME NEW s \in Scopes, NEW D \in SUBSET Deployments, Admit(s, D)
        PROVE  DTypeOK' /\ RetiredOwesNothing'
    BY <2>1 DEF Admit, DTypeOK, RetiredOwesNothing
  <2>2. CASE Settle
    BY <2>2 DEF Settle, DTypeOK, RetiredOwesNothing
  <2>3. ASSUME NEW d \in Deployments, Request(d)
        PROVE  DTypeOK' /\ RetiredOwesNothing'
    BY <2>3 DEF Request, DTypeOK, RetiredOwesNothing, Phases
  <2>4. ASSUME NEW d \in Deployments, Retire(d)
        PROVE  DTypeOK' /\ RetiredOwesNothing'
    BY <2>4 DEF Retire, Drained, DTypeOK, RetiredOwesNothing, Phases
  <2>5. CASE UNCHANGED vars
    BY <2>5 DEF vars, DTypeOK, RetiredOwesNothing
  <2> QED BY <2>1, <2>2, <2>3, <2>4, <2>5 DEF Next
<1> QED BY <1>1, <1>2, PTL DEF Spec

-----------------------------------------------------------------------------
(* ControlLane                                                             *)

LaneSettles == LaneTypeOK /\ OneIsAlive

LEMMA LaneStepSettles ==
  ASSUME LaneSettles, [LaneNext]_laneVars
  PROVE  LaneSettles'
<1> USE DEF LaneSettles, LaneTypeOK, OneIsAlive, Waiting, Effects
<1>1. ASSUME NEW i \in Controls, Prepare(i) PROVE LaneSettles'
  BY <1>1 DEF Prepare
<1>2. ASSUME NEW i \in Controls, TakeEffect(i) PROVE LaneSettles'
  BY <1>2 DEF TakeEffect
<1>3. ASSUME NEW i \in Controls, BecomeVoid(i) PROVE LaneSettles'
  BY <1>3 DEF BecomeVoid
<1>4. ASSUME NEW i \in Controls, Answer(i) PROVE LaneSettles'
  BY <1>4 DEF Answer, Verdict
<1>5. CASE Close \/ UNCHANGED laneVars
  BY <1>5 DEF Close, laneVars
<1> QED BY <1>1, <1>2, <1>3, <1>4, <1>5 DEF LaneNext

\* createControlIntent, storedControlFinality and allowanceHasExpired in the
\* abstract: if a lane is reserved until its control is answered, and only its
\* fate is an answer, then no two controls can still land.
THEOREM OneControlIsAlive == LaneSpec => [](LaneTypeOK /\ OneIsAlive)
<1>1. LaneInit => LaneSettles
  BY DEF LaneInit, LaneSettles, LaneTypeOK, OneIsAlive, Waiting, Effects
<1>2. LaneSettles /\ [LaneNext]_laneVars => LaneSettles'
  BY LaneStepSettles
<1> QED BY <1>1, <1>2, PTL DEF LaneSpec, LaneSettles

\* When the service has closed and every control is answered, the lane has seen
\* its last effect: that is what a retirement waits for.
THEOREM TheLaneRestsForGood == LaneSpec => RestIsForGood
<1>1. LaneSettles /\ [LaneNext]_laneVars => [AtRest => UNCHANGED laneVars]_laneVars
  <2> SUFFICES ASSUME LaneSettles, AtRest, LaneNext PROVE UNCHANGED laneVars
    OBVIOUS
  <2>1. \A i \in Controls : ~(Prepare(i) \/ TakeEffect(i) \/ BecomeVoid(i) \/ Answer(i))
    BY DEF LaneSettles, OneIsAlive, AtRest, Prepare, TakeEffect, BecomeVoid, Answer
  <2>2. Close
    BY <2>1 DEF LaneNext
  <2> QED BY <2>2 DEF Close, laneVars, AtRest, LaneSettles, LaneTypeOK
<1>2. LaneSpec => []LaneSettles
  BY OneControlIsAlive DEF LaneSettles
<1> QED BY <1>1, <1>2, PTL DEF LaneSpec, RestIsForGood

-----------------------------------------------------------------------------
(* KeyedPayout                                                             *)

\* What is told stays true: outcomes do not change, a payout that is under way
\* stays so, and one that never will be stays away.
WordsAreTrue ==
  \A c \in Callers : /\ told[c] \in Decided => payout = told[c]
                     /\ told[c] = "PENDING"  => payout \in UnderWay
                     /\ told[c] = "REJECTED" => payout = "void"

KeyHolds == KPTypeOK /\ WordsAreTrue

LEMMA KeyHoldsOn ==
  ASSUME Unanswered \notin Told, KeyHolds, [KPNext]_payoutVars
  PROVE  KeyHolds'
<1> USE DEF KeyHolds, KPTypeOK, WordsAreTrue, Told, Decided, UnderWay, Noncommital
<1>1. CASE Send
  BY <1>1 DEF Send
<1>2. CASE Renounce
  BY <1>2 DEF Renounce
<1>3. CASE Decide
  BY <1>3 DEF Decide
<1>4. ASSUME NEW c \in Callers, Tell(c) PROVE KeyHolds'
  <2>1. PICK a \in Tellable : told' = [told EXCEPT ![c] = a]
    BY <1>4 DEF Tell
  <2>2. payout' = payout /\ a \in Told
        /\ (a \in Decided => payout = a) /\ (a = "PENDING" => payout \in UnderWay)
        /\ (a = "REJECTED" => payout = "void")
    BY <1>4, <2>1 DEF Tell, Tellable
  <2> QED BY <2>1, <2>2
<1>5. CASE UNCHANGED payoutVars
  BY <1>5 DEF payoutVars
<1> QED BY <1>1, <1>2, <1>3, <1>4, <1>5 DEF KPNext

LEMMA KeyAlwaysHolds ==
  ASSUME Unanswered \notin Told PROVE KPSpec => []KeyHolds
<1>1. KPInit => KeyHolds
  BY DEF KPInit, KeyHolds, KPTypeOK, WordsAreTrue, Told, Decided, UnderWay, Noncommital
<1>2. KeyHolds /\ [KPNext]_payoutVars => KeyHolds'
  BY KeyHoldsOn
<1> QED BY <1>1, <1>2, PTL DEF KPSpec

(***************************************************************************)
(* answerOf and presentedHash in the abstract: if nobody is told what the  *)
(* payout belies, no two callers are ever told opposites.                  *)
(***************************************************************************)
THEOREM CallersAgree ==
  ASSUME Unanswered \notin Told PROVE KPSpec => []AnswersAgree
<1>1. KeyHolds => AnswersAgree
  BY DEF KeyHolds, WordsAreTrue, AnswersAgree, UnderWay, Decided
<1> QED BY <1>1, KeyAlwaysHolds, PTL

(***************************************************************************)
(* ... and who was told REJECTED may pay by other means.                   *)
(***************************************************************************)
THEOREM TheirWordIsKept ==
  ASSUME Unanswered \notin Told PROVE KPSpec => WordIsKept
<1> DEFINE Kept == /\ (\E c \in Callers : told[c] = "REJECTED") => payout' = payout
                   /\ \A c \in Callers : told[c] # Unanswered => told'[c] = told[c]
<1>1. KeyHolds /\ [KPNext]_payoutVars => [Kept]_payoutVars
  <2> SUFFICES ASSUME KeyHolds, KPNext PROVE Kept
    BY DEF payoutVars
  <2>1. (\E c \in Callers : told[c] = "REJECTED") => payout = "void"
    BY DEF KeyHolds, WordsAreTrue
  <2>2. payout = "void" => payout' = payout
    BY DEF KPNext, Send, Renounce, Decide, Tell
  <2>3. ASSUME NEW c \in Callers, told[c] # Unanswered PROVE told'[c] = told[c]
    BY <2>3 DEF KPNext, Send, Renounce, Decide, Tell, KeyHolds, KPTypeOK
  <2> QED BY <2>1, <2>2, <2>3
<1> QED BY <1>1, KeyAlwaysHolds, PTL DEF KPSpec, WordIsKept
=============================================================================
