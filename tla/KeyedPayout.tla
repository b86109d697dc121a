------------------------------ MODULE KeyedPayout ------------------------------
(***************************************************************************)
(* What an idempotency key promises its callers, without saying how.  The  *)
(* key has one payout, which leaves at most once: it is under way until    *)
(* the ledger decides it, or it never will be.  Every caller is answered   *)
(* once, and nobody is told what the payout may yet belie: a final status  *)
(* is the ledger's, PENDING is said of a payout that a node has taken, and *)
(* REJECTED only when there is none and never will be.  UNKNOWN, CONFLICT  *)
(* and ERROR promise nothing.                                              *)
(*                                                                         *)
(* So whatever two callers are told, at whatever times, they can both act  *)
(* on it.                                                                  *)
(*                                                                         *)
(* WebhookIdempotency.tla implements this specification: one row, a hash   *)
(* that is saved before the send, and lookups are how.                     *)
(***************************************************************************)
CONSTANTS
  Callers,       \* those who carry the key
  Unanswered     \* what a caller has been told at first

VARIABLES
  payout,        \* what has become of the payout of the key
  told           \* told[c]: the status the caller c was told

payoutVars == <<payout, told>>

Decided     == {"SUCCESS", "FAILED"}
UnderWay    == Decided \cup {"flying", "expired"}
Noncommital == {"UNKNOWN", "CONFLICT", "ERROR"}
Told        == Decided \cup Noncommital \cup {"PENDING", "REJECTED"}

KPTypeOK ==
  /\ payout \in UnderWay \cup {"unsent", "void"}
  /\ told \in [Callers -> Told \cup {Unanswered}]

KPInit ==
  /\ payout = "unsent"
  /\ told = [c \in Callers |-> Unanswered]

\* A node takes the payout.
Send == payout = "unsent" /\ payout' = "flying" /\ UNCHANGED told

\* A node refuses it, or it is given up unsent.
Renounce == payout = "unsent" /\ payout' = "void" /\ UNCHANGED told

\* The ledger includes it, or its time bound passes.
Decide ==
  /\ payout = "flying"
  /\ payout' \in Decided \cup {"expired"}
  /\ UNCHANGED told

\* What may be said while the payout is as it is.
Tellable ==
  {a \in Told : /\ a \in Decided   => payout = a
                /\ a = "PENDING"   => payout \in UnderWay
                /\ a = "REJECTED"  => payout = "void"}

Tell(c) ==
  /\ told[c] = Unanswered
  /\ \E a \in Tellable : told' = [told EXCEPT ![c] = a]
  /\ UNCHANGED payout

KPNext == Send \/ Renounce \/ Decide \/ \E c \in Callers : Tell(c)

KPSpec == KPInit /\ [][KPNext]_payoutVars

(***************************************************************************)
(* Two callers who were told something definite were not told opposites:   *)
(* no two outcomes, and no refusal beside an acceptance or an outcome.     *)
(***************************************************************************)
AnswersAgree ==
  \A c, d \in Callers :
    /\ told[c] \in Decided /\ told[d] \in Decided => told[c] = told[d]
    /\ told[c] = "REJECTED" => told[d] \notin Decided \cup {"PENDING"}

(***************************************************************************)
(* Who was told REJECTED may pay by other means: the payout of the key     *)
(* never leaves any more.  What was told is never taken back.              *)
(***************************************************************************)
WordIsKept ==
  [][/\ (\E c \in Callers : told[c] = "REJECTED") => payout' = payout
     /\ \A c \in Callers : told[c] # Unanswered => told'[c] = told[c]]_payoutVars
=============================================================================
