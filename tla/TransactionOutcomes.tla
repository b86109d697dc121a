------------------------ MODULE TransactionOutcomes ------------------------
(***************************************************************************)
(* The outcome a SignedTransaction row holds, and the news it accepts:     *)
(* canTransition and recordTransactionOutcome of lib/analytics/outcomes.ts.*)
(* A row keeps what it is told last, unless that is weaker evidence than   *)
(* what it has.                                                            *)
(***************************************************************************)
EXTENDS Naturals

NoSigned == [outcome |-> "none", expired |-> FALSE, at |-> 0,
             accepted |-> FALSE]

\* canTransition: sent says that a send and not a status read has the news.
CanTransition(row, to, sent) ==
  /\ row.outcome \notin {"none", to, "CONFIRMED", "FAILED"}
  /\ ~(row.outcome = "REJECTED" /\ to = "UNRESOLVED" /\ ~sent)
  /\ ~(row.accepted /\ to = "REJECTED")
  /\ ~(row.outcome = "UNRESOLVED" /\ to \in {"REJECTED", "ACCEPTED"} /\ ~sent)

\* The row once an answer of the queue, or a read without one, is recorded: a
\* late acceptance enriches a final row, and a proof of expiry stays.
Answered(row, to, sent) ==
  IF row.expired THEN row
  ELSE IF to = "ACCEPTED" /\ row.outcome \in {"CONFIRMED", "FAILED"}
  THEN [row EXCEPT !.accepted = TRUE]
  ELSE IF CanTransition(row, to, sent)
  THEN [row EXCEPT !.outcome = to, !.accepted = @ \/ to = "ACCEPTED"]
  ELSE row

Outcome(fate) == IF fate = "SUCCESS" THEN "CONFIRMED" ELSE "FAILED"

\* ... once the ledger's verdict is.
Concluded(row, fate, at) ==
  IF CanTransition(row, Outcome(fate), FALSE)
  THEN [row EXCEPT !.outcome = Outcome(fate), !.expired = FALSE, !.at = at]
  ELSE row

\* ... and once a control's intent proves that there will be none.
ProvedExpired(row) ==
  IF row.outcome \in {"none", "CONFIRMED", "FAILED"} THEN row
  ELSE [row EXCEPT !.outcome = "REJECTED", !.expired = TRUE]

\* What the cron still reads the network for.
Unsettled(row) ==
  /\ row.outcome \in {"RECEIVED", "ACCEPTED", "UNRESOLVED", "REJECTED"}
  /\ ~row.expired
=============================================================================
