------------------------- MODULE WebhookIdempotency -------------------------
(***************************************************************************)
(* Keyed webhooks (src/lib/webhook-idempotency.ts and the submission in    *)
(* src/lib/stellar/trigger.ts).  The calls of one idempotency key race to  *)
(* create its WebhookAttempt row.  The call that does builds and sends the *)
(* one payout; the others, and every later retry, only look up what became *)
(* of it.  There is no lease, no takeover and no second send, whatever     *)
(* answer is lost and whichever process dies.                              *)
(*                                                                         *)
(* A call stands for its own transaction: the hash of what it would send.  *)
(* KeyedPayout.tla says what the callers are promised; PayoutIsAsPromised, *)
(* at the end, is that it is kept here.                                    *)
(***************************************************************************)
EXTENDS Naturals

CONSTANTS Calls,    \* the requests that carry the key
          Request,  \* the fingerprint of a call's arguments
          None      \* no owner, no hash, no answer

VARIABLES
  row,     \* the WebhookAttempt of the key
  audit,   \* its DEPLOY_TRIGGER row exists
  pc,      \* pc[c]: where call c is
  hashed,  \* hashed[c]: the interrupted call c has read a hash in the row
  got,     \* got[c]: what the status lookup of call c returned
  answer,  \* answer[c]: the status call c reports
  net      \* net[c]: what became of the transaction of call c

vars == <<row, audit, pc, hashed, got, answer, net>>

Final == {"SUCCESS", "FAILED"}
Mutable == {"PREPARING", "SUBMITTING", "UNKNOWN"}
Statuses == Mutable \cup Final \cup {"absent", "PENDING", "REJECTED"}
Answers == Final \cup {"PENDING", "UNKNOWN", "REJECTED", "CONFLICT", "ERROR"}
Taken == Final \cup {"flying", "expired"}
Fates == Taken \cup {"none", "refused"}
Places == {"idle", "building", "sending", "queued", "refused", "interrupted", "giving",
           "closing", "looking", "found", "absent", "latest", "done"}

ASSUME WebhookAssumption == None \notin Calls \cup Answers

WIInit ==
  /\ row = [owner |-> None, hash |-> None, status |-> "absent", accepted |-> FALSE]
  /\ audit = FALSE
  /\ pc = [c \in Calls |-> "idle"]
  /\ hashed = [c \in Calls |-> FALSE]
  /\ got = [c \in Calls |-> None]
  /\ answer = [c \in Calls |-> None]
  /\ net = [c \in Calls |-> "none"]

-----------------------------------------------------------------------------
\* The status a call reports from a row it read.
Response(r) == IF r.status \in {"PREPARING", "SUBMITTING"} THEN "UNKNOWN" ELSE r.status

\* Mutant of Evidence: a hash that was saved before the send is taken for a send.
ReservedHash(r) == r.hash # None

Evidence(r) == r.hash # None /\ (r.accepted \/ r.status \in Final)

\* ensureSubmissionAudit: an upsert on the attempt's id, and best-effort.
EnsureAudit == audit' = audit \/ (audit' = TRUE /\ Evidence(row))

Go(c, place) == pc' = [pc EXCEPT ![c] = place]

Reply(c, a) == Go(c, "done") /\ answer' = [answer EXCEPT ![c] = a]

-----------------------------------------------------------------------------
(* The call that owns the key                                              *)

\* Mutant of Unclaimed: an attempt of unknown outcome is taken over.
UnclaimedOrUnknown == row.status \in {"absent", "UNKNOWN"}

\* The unique constraint on deployment and key.
Unclaimed == row.status = "absent"

Claim(c) ==
  /\ pc[c] = "idle"
  /\ Unclaimed
  /\ row' = [owner |-> c, hash |-> None, status |-> "PREPARING", accepted |-> FALSE]
  /\ Go(c, "building")
  /\ UNCHANGED <<audit, hashed, got, answer, net>>

\* The build fails, or the hash cannot be saved.
BuildFails(c) ==
  /\ pc[c] = "building"
  /\ Go(c, "interrupted")
  /\ UNCHANGED <<row, audit, hashed, got, answer, net>>

\* beforeSend commits the hash; the acknowledgement of the commit may be lost.
BeforeSend(c) ==
  /\ pc[c] = "building"
  /\ row.status = "PREPARING" /\ row.hash = None
  /\ row' = [row EXCEPT !.hash = c, !.status = "SUBMITTING"]
  /\ Go(c, "sending") \/ Go(c, "interrupted")
  /\ UNCHANGED <<audit, hashed, got, answer, net>>

\* A node takes the transaction, refuses it, or nothing is heard of either.
SendQueued(c) ==
  /\ pc[c] = "sending"
  /\ net' = [net EXCEPT ![c] = "flying"]
  /\ Go(c, "queued")
  /\ UNCHANGED <<row, audit, hashed, got, answer>>

SendRefused(c) ==
  /\ pc[c] = "sending"
  /\ net' = [net EXCEPT ![c] = "refused"]
  /\ Go(c, "refused")
  /\ UNCHANGED <<row, audit, hashed, got, answer>>

SendUnanswered(c) ==
  /\ pc[c] = "sending"
  /\ \E n \in {"flying", "refused"} : net' = [net EXCEPT ![c] = n]
  /\ Go(c, "interrupted")
  /\ UNCHANGED <<row, audit, hashed, got, answer>>

MayWrite == row.status \in Mutable

\* afterSend, unless a lookup has found the outcome already.  The write may be
\* lost, so may its acknowledgement, and a busy network is thrown as well.
AfterSend(c) ==
  /\ \/ /\ pc[c] = "queued"
        /\ row' = IF MayWrite THEN [row EXCEPT !.status = "PENDING", !.accepted = TRUE] ELSE row
     \/ /\ pc[c] = "refused"
        /\ row' = IF MayWrite THEN [row EXCEPT !.status = "REJECTED"] ELSE row
  /\ Go(c, "closing") \/ Go(c, "interrupted")
  /\ UNCHANGED <<audit, hashed, got, answer, net>>

AfterSendFails(c) ==
  /\ pc[c] \in {"queued", "refused"}
  /\ Go(c, "interrupted")
  /\ UNCHANGED <<row, audit, hashed, got, answer, net>>

\* The catch: the row is read again, since the hash may have been committed.
ReadInterrupted(c) ==
  /\ pc[c] = "interrupted"
  /\ hashed' = [hashed EXCEPT ![c] = row.hash # None]
  /\ Go(c, "giving")
  /\ UNCHANGED <<row, audit, got, answer, net>>

\* Mutant of GivenUp: an interrupted call failed before its submission.
GivenUpAsRefused(c) == "REJECTED"

GivenUp(c) == IF hashed[c] THEN "UNKNOWN" ELSE "REJECTED"

GiveUp(c) ==
  /\ pc[c] = "giving"
  /\ row' = IF MayWrite THEN [row EXCEPT !.status = GivenUp(c)] ELSE row
  /\ Go(c, "closing")
  /\ UNCHANGED <<audit, hashed, got, answer, net>>

Close(c) ==
  /\ pc[c] = "closing"
  /\ EnsureAudit
  /\ Reply(c, Response(row))
  /\ UNCHANGED <<row, hashed, got, net>>

-----------------------------------------------------------------------------
(* Every other call                                                        *)

Conflict(c) ==
  /\ pc[c] = "idle"
  /\ ~Unclaimed
  /\ Request[c] # Request[row.owner]
  /\ Reply(c, "CONFLICT")
  /\ UNCHANGED <<row, audit, hashed, got, net>>

\* A repetition looks the hash up, if there is one without an outcome.
Repeat(c) ==
  /\ pc[c] = "idle"
  /\ ~Unclaimed
  /\ Request[c] = Request[row.owner]
  /\ EnsureAudit
  /\ \/ /\ row.hash # None /\ row.status \notin Final
        /\ Go(c, "looking")
        /\ UNCHANGED answer
     \/ /\ row.hash = None \/ row.status \in Final
        /\ Reply(c, Response(row))
  /\ UNCHANGED <<row, hashed, got, net>>

\* What getTransaction, or an ingested event, says of the hash.
Reported(h) == {net[h]} \cap Final

\* The RPC may be behind, or have forgotten: it may not know a final outcome.
Look(c) ==
  /\ pc[c] = "looking"
  /\ \/ \E s \in ({row.status} \cap Final) \cup Reported(row.hash) :
          /\ got' = [got EXCEPT ![c] = s]
          /\ Go(c, "found")
     \/ /\ row.status \notin Final
        /\ Go(c, "absent")
        /\ UNCHANGED got
  /\ UNCHANGED <<row, audit, hashed, answer, net>>

\* The first outcome that is written stays.
Record(c) ==
  /\ pc[c] = "found"
  /\ row' = IF row.status \in Final THEN row ELSE [row EXCEPT !.status = got[c]]
  /\ Go(c, "latest")
  /\ UNCHANGED <<audit, hashed, got, answer, net>>

\* The rows are read again after the RPC.
Reread(c) ==
  /\ pc[c] = "absent"
  /\ got' = [got EXCEPT ![c] =
       IF row.status \in Final THEN row.status
       ELSE IF row.accepted \/ audit THEN "PENDING"
       ELSE IF row.status = "REJECTED" THEN "REJECTED" ELSE "UNKNOWN"]
  /\ Go(c, "latest")
  /\ UNCHANGED <<row, audit, hashed, answer, net>>

Latest(c) ==
  /\ pc[c] = "latest"
  /\ EnsureAudit
  /\ Reply(c, IF row.status \in Final THEN row.status ELSE got[c])
  /\ UNCHANGED <<row, hashed, got, net>>

-----------------------------------------------------------------------------
\* The process dies, or an error of the database or the RPC ends the call.
Die(c) ==
  /\ pc[c] \notin {"idle", "done"}
  /\ Reply(c, "ERROR")
  /\ UNCHANGED <<row, audit, hashed, got, net>>

\* The ledger includes a transaction, or its time bound passes.
Land(c) ==
  /\ net[c] = "flying"
  /\ \E n \in Final \cup {"expired"} : net' = [net EXCEPT ![c] = n]
  /\ UNCHANGED <<row, audit, pc, hashed, got, answer>>

OwnerStep(c) ==
  \/ Claim(c) \/ BuildFails(c) \/ BeforeSend(c)
  \/ SendQueued(c) \/ SendRefused(c) \/ SendUnanswered(c)
  \/ AfterSend(c) \/ AfterSendFails(c) \/ ReadInterrupted(c) \/ GiveUp(c) \/ Close(c)

RepeatStep(c) == Conflict(c) \/ Repeat(c) \/ Look(c) \/ Record(c) \/ Reread(c) \/ Latest(c)

WINext == \E c \in Calls : OwnerStep(c) \/ RepeatStep(c) \/ Die(c) \/ Land(c)

WISpec == WIInit /\ [][WINext]_vars

-----------------------------------------------------------------------------
(* Properties                                                              *)

\* The row, the places and the reported statuses are well formed; no call
\* reports a status that is internal to the row (WebhookAttempt, response).
WITypeOK ==
  /\ row \in [owner : Calls \cup {None}, hash : Calls \cup {None},
              status : Statuses, accepted : BOOLEAN]
  /\ audit \in BOOLEAN
  /\ pc \in [Calls -> Places]
  /\ hashed \in [Calls -> BOOLEAN]
  /\ got \in [Calls -> Answers \cup {None}]
  /\ answer \in [Calls -> Answers \cup {None}]
  /\ net \in [Calls -> Fates]

\* One key, one payout: of all the transactions its calls could send, at most
\* one ever left, and the row has held its hash since before it did
\* (executeKeyedWebhook: "No lease takeover, expiry or resend").
PaidAtMostOnce == \A c \in Calls : net[c] # "none" => row.owner = c /\ row.hash = c

\* A caller told REJECTED may send the payment under another key: nothing of
\* this key was, is or will be paid, whoever else was answered what.
RefusalIsHonest ==
  (\E c \in Calls : answer[c] = "REJECTED") => \A c \in Calls : net[c] \notin Taken

\* A final answer is the ledger's, although lookups race the owner's writes.
FinalAnswersAreLedgers ==
  \A c \in Calls : answer[c] \in Final =>
    \E h \in Calls : row.hash = h /\ net[h] = answer[c]

\* A final outcome on the row is never overwritten, not even by the write that
\* follows the send and comes after a faster lookup (afterSend, replay).
FinalityIsKept == [][row.status \in Final => row'.status = row.status]_vars

\* An audit row, or an answer of PENDING, is given only for a transaction that
\* a node took: a reserved hash alone is not evidence (ensureSubmissionAudit).
AcceptanceIsReal ==
  audit \/ (\E c \in Calls : answer[c] = "PENDING") =>
    \E c \in Calls : row.hash = c /\ net[c] \in Taken

\* The payout of the key, of which at most one transaction is: refused by the
\* node, or given up before the send, it never will be.
Payout ==
  IF \E c \in Calls : net[c] \in Taken
  THEN net[CHOOSE c \in Calls : net[c] \in Taken]
  ELSE IF row.status = "REJECTED" \/ \E c \in Calls : net[c] = "refused"
  THEN "void" ELSE "unsent"

Promise == INSTANCE KeyedPayout
             WITH Callers    <- Calls,
                  Unanswered <- None,
                  payout     <- Payout,
                  told       <- answer

\* executeKeyedWebhook, replay and getTransactionStatus, however they race, keep
\* the promise of KeyedPayout: every call is answered once, with what the key's
\* one payout bears out then and ever after.
PayoutIsAsPromised == Promise!KPSpec
=============================================================================
