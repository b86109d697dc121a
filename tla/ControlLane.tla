------------------------------ MODULE ControlLane ------------------------------
(***************************************************************************)
(* What the controls of a lane promise, without saying how.  Each control  *)
(* has a fate on the ledger and an answer in the books.  From its          *)
(* preparation it is alive, whatever the service does: it may land, or     *)
(* become void, as one prepared too late is from the start.  The service   *)
(* answers a control once, and only with its fate; it prepares the next    *)
(* one only when none waits for an answer, and none once it has closed.    *)
(*                                                                         *)
(* So at most one control is alive at a time, and a closed service whose   *)
(* controls are all answered has seen the last of them.                    *)
(*                                                                         *)
(* ControlIntents.tla implements this specification: proofs, replicas that *)
(* lag or forget, crashes and repairs are how.                             *)
(***************************************************************************)
CONSTANTS
  Controls       \* the controls of one lane

VARIABLES
  admitting,     \* the service still prepares controls
  fate,          \* fate[i]: what becomes of the transaction of control i
  answer         \* answer[i]: what the service says became of it

laneVars == <<admitting, fate, answer>>

Effects == {"SUCCESS", "FAILED"}

LaneTypeOK ==
  /\ admitting \in BOOLEAN
  /\ fate   \in [Controls -> {"unborn", "alive", "void"} \cup Effects]
  /\ answer \in [Controls -> {"none", "waiting", "EXPIRED"} \cup Effects]

LaneInit ==
  /\ admitting = TRUE
  /\ fate   = [i \in Controls |-> "unborn"]
  /\ answer = [i \in Controls |-> "none"]

Waiting(i) == answer[i] = "waiting"

Prepare(i) ==
  /\ admitting
  /\ fate[i] = "unborn"
  /\ \A j \in Controls : ~Waiting(j)
  /\ \E first \in {"alive", "void"} : fate' = [fate EXCEPT ![i] = first]
  /\ answer' = [answer EXCEPT ![i] = "waiting"]
  /\ UNCHANGED admitting

TakeEffect(i) ==
  /\ fate[i] = "alive"
  /\ \E effect \in Effects : fate' = [fate EXCEPT ![i] = effect]
  /\ UNCHANGED <<admitting, answer>>

BecomeVoid(i) ==
  /\ fate[i] = "alive"
  /\ fate' = [fate EXCEPT ![i] = "void"]
  /\ UNCHANGED <<admitting, answer>>

Verdict(i) == IF fate[i] = "void" THEN "EXPIRED" ELSE fate[i]

Answer(i) ==
  /\ Waiting(i)
  /\ fate[i] \in {"void"} \cup Effects
  /\ answer' = [answer EXCEPT ![i] = Verdict(i)]
  /\ UNCHANGED <<admitting, fate>>

Close ==
  /\ admitting' = FALSE
  /\ UNCHANGED <<fate, answer>>

LaneNext ==
  \/ \E i \in Controls : Prepare(i) \/ TakeEffect(i) \/ BecomeVoid(i) \/ Answer(i)
  \/ Close

LaneSpec == LaneInit /\ [][LaneNext]_laneVars

(***************************************************************************)
(* Only the control that waits can still land, and only one waits.         *)
(***************************************************************************)
OneIsAlive ==
  /\ \A i \in Controls : fate[i] = "alive" => Waiting(i)
  /\ \A i, j \in Controls : Waiting(i) /\ Waiting(j) => i = j

(***************************************************************************)
(* Once the service has closed and no control waits, nothing happens in    *)
(* the lane any more: neither on the ledger nor in the books.              *)
(***************************************************************************)
AtRest == ~admitting /\ \A i \in Controls : ~Waiting(i)

RestIsForGood == [][AtRest => UNCHANGED laneVars]_laneVars
=============================================================================
