-------------------------- MODULE SubmissionProofs --------------------------
(***************************************************************************)
(* For any number of calls of one key: at most one of them pays, a refusal *)
(* is honest, and final answers are the ledger's.  For any requests, crons *)
(* and readers of one deployment: its row says what the ledger says, only  *)
(* an untaken claim is handed back, and its first claim is asked for once. *)
(***************************************************************************)
EXTENDS WebhookIdempotency, DeploymentFinality, FiniteSetTheorems, TLAPS

-----------------------------------------------------------------------------
(* Keyed payouts                                                           *)

Owning == {"building", "sending", "queued", "refused", "interrupted", "giving", "closing"}

\* The row belongs to one call, and names no transaction but that call's.
OwnerInv ==
  /\ row.status = "absent" => row.owner = None /\ row.hash = None
  /\ row.hash # None => row.hash = row.owner
  /\ \A c \in Calls : pc[c] \in Owning => row.owner = c

\* The transaction the row names has status s, or was taken by a node.
Became(s) == \E h \in Calls : row.hash = h /\ net[h] = s
WasTaken == \E h \in Calls : row.hash = h /\ net[h] \in Taken

\* Status a of the row, of a lookup or of an answer is backed by the facts.
Honest(a) ==
  /\ a \in Final => Became(a)
  /\ a = "PENDING" => WasTaken
  /\ a = "REJECTED" => row.status = "REJECTED"

\* A refused attempt has no transaction, and will not send one.
StatusInv ==
  /\ Honest(row.status)
  /\ row.accepted \/ audit => WasTaken
  /\ row.status = "REJECTED" => \A c \in Calls :
       net[c] \notin Taken /\ pc[c] \notin {"building", "sending", "queued"}

\* What each call knows where it stands.
CallInv(c) ==
  /\ pc[c] = "building" => row.status = "PREPARING" /\ row.hash = None
  /\ pc[c] = "sending" => row.status = "SUBMITTING" /\ row.hash = c /\ net[c] = "none"
  /\ pc[c] = "queued" => row.hash = c /\ net[c] \in Taken
  /\ pc[c] = "refused" => row.hash = c /\ net[c] = "refused"
  /\ pc[c] = "giving" /\ ~hashed[c] => row.hash = None
  /\ pc[c] \in {"looking", "found", "absent"} => row.hash # None
  /\ pc[c] = "found" => got[c] \in Final
  /\ pc[c] \in {"found", "latest"} => Honest(got[c])

WIInv ==
  /\ WITypeOK /\ OwnerInv /\ PaidAtMostOnce /\ StatusInv
  /\ \A c \in Calls : CallInv(c) /\ Honest(answer[c])

-----------------------------------------------------------------------------
\* What a step writes to the row, and what the row lets a call report.
LEMMA ResponseTyped ==
  ASSUME WITypeOK, row.status # "absent" PROVE Response(row) \in Answers
BY DEF Response, WITypeOK, Answers, Statuses, Mutable, Final

LEMMA RowTyped ==
  ASSUME WITypeOK, NEW s \in Statuses, NEW b \in BOOLEAN, NEW c \in Calls
  PROVE  /\ [row EXCEPT !.status = s, !.accepted = b] \in
              [owner : Calls \cup {None}, hash : Calls \cup {None},
               status : Statuses, accepted : BOOLEAN]
         /\ [row EXCEPT !.status = s] \in
              [owner : Calls \cup {None}, hash : Calls \cup {None},
               status : Statuses, accepted : BOOLEAN]
         /\ [row EXCEPT !.hash = c, !.status = s] \in
              [owner : Calls \cup {None}, hash : Calls \cup {None},
               status : Statuses, accepted : BOOLEAN]
BY DEF WITypeOK

LEMMA GoTyped ==
  ASSUME WITypeOK, NEW c \in Calls, NEW p \in Places, Go(c, p)
  PROVE  pc' \in [Calls -> Places]
BY DEF WITypeOK, Go

LEMMA ReplyTyped ==
  ASSUME WITypeOK, NEW c \in Calls, NEW a \in Answers \cup {None}, Reply(c, a)
  PROVE  pc' \in [Calls -> Places] /\ answer' \in [Calls -> Answers \cup {None}]
BY GoTyped DEF WITypeOK, Reply, Go, Places

LEMMA OwnerTyped ==
  ASSUME WITypeOK, OwnerInv, NEW c \in Calls, OwnerStep(c) PROVE WITypeOK'
<1>1. CASE Claim(c)
  BY <1>1, GoTyped DEF Claim, WITypeOK, Places, Statuses, Mutable
<1>2. CASE BuildFails(c) \/ AfterSendFails(c)
  BY <1>2, GoTyped DEF BuildFails, AfterSendFails, WITypeOK, Places
<1>3. CASE BeforeSend(c)
  BY <1>3, GoTyped, RowTyped, ZenonT(60) DEF BeforeSend, WITypeOK, Places, Statuses, Mutable
<1>4. CASE SendQueued(c) \/ SendRefused(c) \/ SendUnanswered(c)
  BY <1>4, GoTyped DEF SendQueued, SendRefused, SendUnanswered, WITypeOK, Places, Fates, Taken
<1>5. CASE AfterSend(c)
  <2>1. "PENDING" \in Statuses /\ "REJECTED" \in Statuses
    BY DEF Statuses
  <2>2. row' \in [owner : Calls \cup {None}, hash : Calls \cup {None},
                  status : Statuses, accepted : BOOLEAN]
    <3>1. \/ row' = row
          \/ row' = [row EXCEPT !.status = "PENDING", !.accepted = TRUE]
          \/ row' = [row EXCEPT !.status = "REJECTED"]
      BY <1>5 DEF AfterSend
    <3>2. row \in [owner : Calls \cup {None}, hash : Calls \cup {None},
                   status : Statuses, accepted : BOOLEAN]
      BY DEF WITypeOK
    <3> QED BY <2>1, <3>1, <3>2
  <2>3. pc' \in [Calls -> Places]
    BY <1>5, GoTyped DEF AfterSend, Places
  <2> QED BY <1>5, <2>2, <2>3 DEF AfterSend, WITypeOK
<1>6. CASE ReadInterrupted(c)
  BY <1>6, GoTyped DEF ReadInterrupted, WITypeOK, Places
<1>7. CASE GiveUp(c)
  <2>1. GivenUp(c) \in Statuses
    BY DEF GivenUp, Statuses, Mutable
  <2> QED BY <1>7, <2>1, GoTyped, RowTyped DEF GiveUp, WITypeOK, Places
<1>8. CASE Close(c)
  <2>1. row.status # "absent"
    BY <1>8, WebhookAssumption DEF Close, OwnerInv, Owning
  <2> QED BY <1>8, <2>1, ResponseTyped, ReplyTyped DEF Close, EnsureAudit, WITypeOK
<1> QED BY <1>1, <1>2, <1>3, <1>4, <1>5, <1>6, <1>7, <1>8 DEF OwnerStep

LEMMA RepeatTyped ==
  ASSUME WITypeOK, NEW c \in Calls, CallInv(c), RepeatStep(c) PROVE WITypeOK'
<1>1. CASE Conflict(c)
  BY <1>1, ReplyTyped DEF Conflict, WITypeOK, Answers
<1>2. CASE Repeat(c)
  <2>1. audit' \in BOOLEAN
    BY <1>2 DEF Repeat, EnsureAudit, WITypeOK
  <2>2. CASE Go(c, "looking") /\ UNCHANGED answer
    BY <1>2, <2>1, <2>2, GoTyped DEF Repeat, WITypeOK, Places
  <2>3. CASE Reply(c, Response(row))
    BY <1>2, <2>1, <2>3, ResponseTyped, ReplyTyped DEF Repeat, Unclaimed, WITypeOK
  <2> QED BY <1>2, <2>2, <2>3 DEF Repeat
<1>3. CASE Look(c)
  BY <1>3, GoTyped DEF Look, WITypeOK, Places, Answers, Final, Reported
<1>4. CASE Record(c) /\ row.status \in Final
  BY <1>4, GoTyped DEF Record, WITypeOK, Places
<1>5. CASE Record(c) /\ row.status \notin Final /\ got[c] \in Final
  BY <1>5, GoTyped, RowTyped, ZenonT(60) DEF Record, WITypeOK, Places, Statuses
<1>6. CASE Reread(c)
  BY <1>6, GoTyped DEF Reread, WITypeOK, Places, Answers, Final
<1>7. CASE Latest(c)
  BY <1>7, ReplyTyped DEF Latest, EnsureAudit, WITypeOK, Answers, Final
<1> QED BY <1>1, <1>2, <1>3, <1>4, <1>5, <1>6, <1>7 DEF RepeatStep, Record, CallInv

-----------------------------------------------------------------------------
(* What no step undoes                                                     *)

Keeps ==
  /\ row.hash # None => row'.hash = row.hash
  /\ row.status = "REJECTED" => row'.status = "REJECTED"
  /\ \A h \in Calls : net[h] \in Final => net'[h] = net[h]
  /\ \A h \in Calls : net[h] \in Taken => net'[h] \in Taken

\* The variables of the other calls.
OthersStay(c) ==
  \A d \in Calls \ {c} :
    /\ pc'[d] = pc[d] /\ hashed'[d] = hashed[d] /\ got'[d] = got[d]
    /\ answer'[d] = answer[d] /\ net'[d] = net[d]

LEMMA OwnerOthers ==
  ASSUME WITypeOK, NEW c \in Calls, OwnerStep(c) PROVE OthersStay(c)
<1> USE DEF OthersStay, WITypeOK, Go, Reply
<1>1. CASE Claim(c) \/ BuildFails(c) \/ BeforeSend(c)
  BY <1>1 DEF Claim, BuildFails, BeforeSend
<1>2. CASE SendQueued(c) \/ SendRefused(c) \/ SendUnanswered(c)
  BY <1>2 DEF SendQueued, SendRefused, SendUnanswered
<1>3. CASE AfterSend(c)
  BY <1>3 DEF AfterSend
<1>4. CASE AfterSendFails(c) \/ ReadInterrupted(c)
  BY <1>4 DEF AfterSendFails, ReadInterrupted
<1>5. CASE GiveUp(c) \/ Close(c)
  BY <1>5 DEF GiveUp, Close
<1> QED BY <1>1, <1>2, <1>3, <1>4, <1>5 DEF OwnerStep

LEMMA RepeatOthers ==
  ASSUME WITypeOK, NEW c \in Calls, RepeatStep(c) PROVE OthersStay(c)
<1> USE DEF OthersStay, WITypeOK, Go, Reply
<1>1. CASE Conflict(c) \/ Repeat(c)
  BY <1>1 DEF Conflict, Repeat
<1>2. CASE Look(c)
  BY <1>2 DEF Look
<1>3. CASE Record(c) \/ Reread(c)
  BY <1>3 DEF Record, Reread
<1>4. CASE Latest(c)
  BY <1>4 DEF Latest
<1> QED BY <1>1, <1>2, <1>3, <1>4 DEF RepeatStep

LEMMA OwnerKeeps ==
  ASSUME WIInv, NEW c \in Calls, OwnerStep(c) PROVE Keeps
<1> USE DEF Keeps
<1> WITypeOK /\ OwnerInv /\ CallInv(c)
  BY DEF WIInv
<1>1. CASE Claim(c)
  BY <1>1 DEF Claim, Unclaimed, OwnerInv
<1>2. CASE BuildFails(c) \/ AfterSendFails(c) \/ ReadInterrupted(c) \/ Close(c)
  BY <1>2 DEF BuildFails, AfterSendFails, ReadInterrupted, Close
<1>3. CASE BeforeSend(c)
  BY <1>3 DEF BeforeSend
<1>4. CASE SendQueued(c) \/ SendRefused(c) \/ SendUnanswered(c)
  BY <1>4 DEF SendQueued, SendRefused, SendUnanswered, CallInv, Final, Taken, WITypeOK
<1>5. CASE AfterSend(c)
  BY <1>5 DEF AfterSend, MayWrite, Mutable, WITypeOK
<1>6. CASE GiveUp(c)
  BY <1>6 DEF GiveUp, MayWrite, Mutable, WITypeOK
<1> QED BY <1>1, <1>2, <1>3, <1>4, <1>5, <1>6 DEF OwnerStep

LEMMA RepeatKeeps ==
  ASSUME WIInv, NEW c \in Calls, RepeatStep(c) PROVE Keeps
<1> USE DEF Keeps
<1>1. CASE Conflict(c) \/ Repeat(c) \/ Look(c) \/ Reread(c) \/ Latest(c)
  BY <1>1 DEF Conflict, Repeat, Look, Reread, Latest
<1>2. CASE Record(c)
  <2>1. row'.hash = row.hash /\ UNCHANGED net
    BY <1>2 DEF Record, WIInv, WITypeOK
  <2>2. row.status # "REJECTED"
    <3>1. PICK h \in Calls : net[h] \in Final
      BY <1>2 DEF Record, WIInv, CallInv, Honest, Became
    <3> QED BY <3>1 DEF WIInv, StatusInv, Taken
  <2> QED BY <2>1, <2>2
<1> QED BY <1>1, <1>2 DEF RepeatStep

\* What was honest stays so.
LEMMA HonestStays ==
  ASSUME WITypeOK, Keeps, WebhookAssumption
  PROVE  /\ \A s \in Final : Became(s) => Became(s)'
         /\ WasTaken => WasTaken'
         /\ \A a \in Statuses \cup Answers \cup {None} : Honest(a) => Honest(a)'
<1>1. ASSUME NEW s \in Final, Became(s) PROVE Became(s)'
  BY <1>1 DEF Became, Keeps, WebhookAssumption
<1>2. WasTaken => WasTaken'
  BY DEF WasTaken, Keeps, WebhookAssumption
<1> QED BY <1>1, <1>2 DEF Honest, Keeps

-----------------------------------------------------------------------------
(* A step of the owner                                                     *)

LEMMA OwnerAlone ==
  ASSUME WIInv, NEW c \in Calls, OwnerStep(c)
  PROVE  \A d \in Calls \ {c} : pc[d] \notin Owning
<1>1. row.owner = c \/ row.owner = None
  BY DEF OwnerStep, Claim, BuildFails, BeforeSend, SendQueued, SendRefused, SendUnanswered,
         AfterSend, AfterSendFails, ReadInterrupted, GiveUp, Close, Unclaimed,
         WIInv, OwnerInv, Owning
<1> QED BY <1>1, WebhookAssumption DEF WIInv, OwnerInv

LEMMA OwnerRow ==
  ASSUME WIInv, NEW c \in Calls, OwnerStep(c)
  PROVE  OwnerInv' /\ PaidAtMostOnce'
<1> OwnerInv /\ WITypeOK /\ PaidAtMostOnce /\ CallInv(c)
  BY DEF WIInv
<1> OthersStay(c) /\ \A d \in Calls \ {c} : pc[d] \notin Owning
  BY OwnerAlone, OwnerOthers
<1>1. CASE Claim(c)
  BY <1>1, WebhookAssumption DEF Claim, Unclaimed, Go, WITypeOK, OwnerInv, PaidAtMostOnce, OthersStay, Owning
<1>2. CASE BuildFails(c) \/ AfterSendFails(c) \/ ReadInterrupted(c)
  BY <1>2 DEF BuildFails, AfterSendFails, ReadInterrupted, Go, WITypeOK,
              OwnerInv, PaidAtMostOnce, OthersStay, Owning
<1>3. CASE BeforeSend(c)
  BY <1>3, WebhookAssumption DEF BeforeSend, Go, WITypeOK, OwnerInv, PaidAtMostOnce, OthersStay, Owning
<1>4. CASE SendQueued(c) \/ SendRefused(c) \/ SendUnanswered(c)
  BY <1>4 DEF SendQueued, SendRefused, SendUnanswered, Go, WITypeOK, CallInv,
              OwnerInv, PaidAtMostOnce, OthersStay, Owning
<1>5. CASE AfterSend(c) \/ GiveUp(c)
  <2>1. row'.owner = row.owner /\ row'.hash = row.hash /\ UNCHANGED net
    BY <1>5 DEF AfterSend, GiveUp, WITypeOK
  <2>2. row.owner = c /\ pc'[c] \in Owning \cup {"closing"}
    BY <1>5 DEF AfterSend, GiveUp, Go, WITypeOK, OwnerInv, Owning
  <2>3. row'.status # "absent"
    BY <1>5, <2>2, WebhookAssumption DEF AfterSend, GiveUp, GivenUp, WITypeOK, OwnerInv
  <2> QED BY <2>1, <2>2, <2>3 DEF OwnerInv, PaidAtMostOnce, OthersStay
<1>6. CASE Close(c)
  BY <1>6 DEF Close, Reply, Go, WITypeOK, OwnerInv, PaidAtMostOnce, OthersStay, Owning
<1> QED BY <1>1, <1>2, <1>3, <1>4, <1>5, <1>6 DEF OwnerStep

\* Evidence of a submission is evidence of a taken transaction.
LEMMA EvidenceIsTaken ==
  ASSUME WIInv, EnsureAudit, WasTaken => WasTaken' PROVE audit' => WasTaken'
<1>1. Evidence(row) => WasTaken
  BY DEF Evidence, WIInv, StatusInv, Honest, Became, WasTaken, Taken
<1> QED BY <1>1 DEF EnsureAudit, WIInv, StatusInv

LEMMA OwnerStatus ==
  ASSUME WIInv, NEW c \in Calls, OwnerStep(c)
  PROVE  StatusInv'
<1> OwnerInv /\ WITypeOK /\ PaidAtMostOnce /\ CallInv(c) /\ StatusInv
  BY DEF WIInv
<1> OthersStay(c) /\ \A d \in Calls \ {c} : pc[d] \notin Owning
  BY OwnerAlone, OwnerOthers
<1> /\ WasTaken => WasTaken'
    /\ \A a \in Statuses : Honest(a) => Honest(a)'
  BY OwnerKeeps, HonestStays, WebhookAssumption
<1>1. CASE Claim(c)
  <2>1. row.hash = None /\ ~WasTaken
    BY <1>1, WebhookAssumption DEF Claim, Unclaimed, OwnerInv, WasTaken
  <2>2. row'.status = "PREPARING" /\ ~row'.accepted /\ ~audit'
    BY <1>1, <2>1 DEF Claim, StatusInv
  <2> QED BY <2>2 DEF StatusInv, Honest, Final
<1>2. CASE BuildFails(c) \/ AfterSendFails(c) \/ ReadInterrupted(c)
  <2>1. UNCHANGED <<row, audit, net>> /\ pc'[c] \in {"interrupted", "giving"}
    BY <1>2 DEF BuildFails, AfterSendFails, ReadInterrupted, Go, WITypeOK
  <2> QED BY <2>1 DEF StatusInv, OthersStay, WITypeOK
<1>3. CASE BeforeSend(c)
  <2>1. row'.status = "SUBMITTING" /\ row'.accepted = row.accepted /\ audit' = audit
    BY <1>3 DEF BeforeSend, WITypeOK
  <2> QED BY <2>1 DEF StatusInv, Honest, Final
<1>4. CASE SendQueued(c) \/ SendRefused(c) \/ SendUnanswered(c)
  <2>1. UNCHANGED <<row, audit>> /\ row.status = "SUBMITTING"
    BY <1>4 DEF SendQueued, SendRefused, SendUnanswered, CallInv
  <2> QED BY <2>1 DEF StatusInv, Honest, Final
<1>5. CASE AfterSend(c) /\ MayWrite
  <2>1. CASE pc[c] = "queued"
    <3>1. row'.status = "PENDING" /\ row'.hash = c /\ net'[c] \in Taken
      BY <1>5, <2>1 DEF AfterSend, CallInv, WITypeOK
    <3> QED BY <3>1 DEF StatusInv, Honest, WasTaken, Final
  <2>2. CASE pc[c] = "refused"
    <3>1. /\ row'.status = "REJECTED" /\ row'.accepted = row.accepted
          /\ UNCHANGED <<audit, net>> /\ pc'[c] \in {"closing", "interrupted"}
      BY <1>5, <2>2 DEF AfterSend, Go, WITypeOK
    <3>2. \A d \in Calls : net[d] \notin Taken
      BY <2>2 DEF CallInv, PaidAtMostOnce, Taken, Final
    <3> QED BY <3>1, <3>2 DEF StatusInv, Honest, OthersStay, Owning, Final
  <2> QED BY <1>5, <2>1, <2>2 DEF AfterSend
<1>6. CASE AfterSend(c) /\ ~MayWrite
  <2>1. UNCHANGED <<row, audit, net>> /\ pc'[c] \in {"closing", "interrupted"}
    BY <1>6 DEF AfterSend, Go, WITypeOK
  <2> QED BY <2>1 DEF StatusInv, OthersStay, WITypeOK
<1>7. CASE GiveUp(c) /\ MayWrite
  <2>1. /\ row'.status = GivenUp(c) /\ row'.accepted = row.accepted
        /\ UNCHANGED <<audit, net>> /\ pc'[c] = "closing"
    BY <1>7 DEF GiveUp, Go, WITypeOK
  <2>2. CASE hashed[c]
    BY <2>1, <2>2 DEF GivenUp, StatusInv, Honest, Final
  <2>3. CASE ~hashed[c]
    <3>1. \A d \in Calls : net[d] \notin Taken
      BY <1>7, <2>3, WebhookAssumption DEF GiveUp, CallInv, PaidAtMostOnce, Taken, Final
    <3> QED BY <2>1, <2>3, <3>1 DEF GivenUp, StatusInv, Honest, OthersStay, Owning, Final
  <2> QED BY <2>2, <2>3
<1>8. CASE GiveUp(c) /\ ~MayWrite
  <2>1. UNCHANGED <<row, audit, net>> /\ pc'[c] = "closing"
    BY <1>8 DEF GiveUp, Go, WITypeOK
  <2> QED BY <2>1 DEF StatusInv, OthersStay, WITypeOK
<1>9. CASE Close(c)
  <2>1. UNCHANGED <<row, net>> /\ pc'[c] = "done"
    BY <1>9 DEF Close, Reply, Go, WITypeOK
  <2>2. audit' => WasTaken'
    BY <1>9, EvidenceIsTaken DEF Close
  <2> QED BY <2>1, <2>2 DEF StatusInv, OthersStay, WITypeOK
<1> QED BY <1>1, <1>2, <1>3, <1>4, <1>5, <1>6, <1>7, <1>8, <1>9 DEF OwnerStep

\* The knowledge of a call outside the owner's path survives others' steps.
LEMMA AnswerStays ==
  ASSUME WIInv, Keeps, NEW d \in Calls, answer'[d] = answer[d] PROVE Honest(answer[d])'
<1>1. answer[d] \in Statuses \cup Answers \cup {None} /\ Honest(answer[d])
  BY DEF WIInv, WITypeOK
<1>2. \A a \in Statuses \cup Answers \cup {None} : Honest(a) => Honest(a)'
  BY HonestStays, WebhookAssumption DEF WIInv
<1> QED BY <1>1, <1>2 DEF Honest, Became, WasTaken

LEMMA LookupStays ==
  ASSUME WIInv, Keeps, NEW d \in Calls, got'[d] = got[d], Honest(got[d]) PROVE Honest(got[d])'
<1>1. got[d] \in Statuses \cup Answers \cup {None}
  BY DEF WIInv, WITypeOK
<1>2. \A a \in Statuses \cup Answers \cup {None} : Honest(a) => Honest(a)'
  BY HonestStays, WebhookAssumption DEF WIInv
<1> QED BY <1>1, <1>2 DEF Honest, Became, WasTaken

LEMMA BystanderStays ==
  ASSUME WIInv, Keeps, NEW d \in Calls, pc[d] \notin Owning,
         pc'[d] = pc[d], got'[d] = got[d], answer'[d] = answer[d]
  PROVE  CallInv(d)' /\ Honest(answer[d])'
<1>1. CallInv(d)
  BY DEF WIInv
<1>2. Honest(got[d]) => Honest(got[d])'
  BY LookupStays
<1>3. row.hash # None => row'.hash # None
  BY DEF Keeps
<1> QED BY <1>1, <1>2, <1>3, AnswerStays DEF CallInv, Owning

LEMMA OwnerCalls ==
  ASSUME WIInv, NEW c \in Calls, OwnerStep(c), NEW d \in Calls
  PROVE  CallInv(d)' /\ Honest(answer[d])'
<1> WITypeOK /\ OwnerInv /\ CallInv(c) /\ StatusInv /\ PaidAtMostOnce
  BY DEF WIInv
<1> OthersStay(c) /\ Keeps
  BY OwnerOthers, OwnerKeeps
<1>1. CASE d # c
  BY <1>1, OwnerAlone, BystanderStays DEF OthersStay
<1>2. CASE d = c /\ ~Close(c)
  <2>1. answer' = answer
    BY <1>2 DEF OwnerStep, Claim, BuildFails, BeforeSend, SendQueued, SendRefused,
                SendUnanswered, AfterSend, AfterSendFails, ReadInterrupted, GiveUp
  <2>2. Honest(answer[d])'
    BY <2>1, AnswerStays
  <2>3. CallInv(c)'
    <3>1. CASE Claim(c)
      BY <3>1 DEF Claim, Go, CallInv, WITypeOK
    <3>2. CASE BuildFails(c) \/ AfterSendFails(c)
      BY <3>2 DEF BuildFails, AfterSendFails, Go, CallInv, WITypeOK
    <3>3. CASE BeforeSend(c)
      <4>1. net[c] = "none"
        BY <3>3, WebhookAssumption DEF BeforeSend, PaidAtMostOnce
      <4> QED BY <3>3, <4>1 DEF BeforeSend, Go, CallInv, WITypeOK
    <3>4. CASE SendQueued(c) \/ SendRefused(c) \/ SendUnanswered(c)
      BY <3>4 DEF SendQueued, SendRefused, SendUnanswered, Go, CallInv, WITypeOK, Taken
    <3>5. CASE AfterSend(c) \/ GiveUp(c)
      <4>1. pc'[c] \in {"closing", "interrupted"}
        BY <3>5 DEF AfterSend, GiveUp, Go, WITypeOK
      <4> QED BY <4>1 DEF CallInv
    <3>6. CASE ReadInterrupted(c)
      BY <3>6 DEF ReadInterrupted, Go, CallInv, WITypeOK
    <3> QED BY <1>2, <3>1, <3>2, <3>3, <3>4, <3>5, <3>6 DEF OwnerStep
  <2> QED BY <1>2, <2>2, <2>3
<1>3. CASE d = c /\ Close(c)
  <2>1. pc'[c] = "done" /\ answer'[c] = Response(row) /\ UNCHANGED <<row, net>>
    BY <1>3 DEF Close, Reply, Go, WITypeOK
  <2>2. CallInv(c)'
    BY <2>1 DEF CallInv
  <2>3. Honest(answer[c])'
    BY <2>1 DEF StatusInv, Honest, Response, Final, Became, WasTaken
  <2> QED BY <1>3, <2>2, <2>3
<1> QED BY <1>1, <1>2, <1>3

-----------------------------------------------------------------------------
(* A step of a repetition, the death of a call, and the network            *)

LEMMA RepeatRow ==
  ASSUME WIInv, NEW c \in Calls, RepeatStep(c)
  PROVE  OwnerInv' /\ PaidAtMostOnce' /\ StatusInv'
<1> WITypeOK /\ OwnerInv /\ CallInv(c) /\ StatusInv /\ PaidAtMostOnce
  BY DEF WIInv
<1> OthersStay(c) /\ Keeps
  BY RepeatOthers, RepeatKeeps
<1>1. pc'[c] \notin Owning /\ pc'[c] \notin {"building", "sending", "queued"} /\ UNCHANGED net
  BY DEF RepeatStep, Conflict, Repeat, Look, Record, Reread, Latest, Reply, Go, WITypeOK, Owning
<1>2. audit' => WasTaken'
  <2>1. WasTaken => WasTaken'
    BY HonestStays, WebhookAssumption
  <2>2. CASE audit' = audit
    BY <2>1, <2>2 DEF StatusInv
  <2>3. CASE EnsureAudit
    BY <2>1, <2>3, EvidenceIsTaken
  <2> QED BY <2>2, <2>3 DEF RepeatStep, Conflict, Repeat, Look, Record, Reread, Latest
<1>3. CASE UNCHANGED row
  BY <1>1, <1>2, <1>3 DEF OwnerInv, PaidAtMostOnce, StatusInv, OthersStay, Owning, Honest, Became, WasTaken
<1>4. CASE Record(c) /\ row.status \notin Final
  <2>1. /\ row'.status = got[c] /\ row'.hash = row.hash /\ row'.owner = row.owner
        /\ row'.accepted = row.accepted /\ row.hash # None
        /\ got[c] \in Final /\ Became(got[c])
    BY <1>4 DEF Record, CallInv, Honest, WITypeOK, Became
  <2>2. OwnerInv' /\ PaidAtMostOnce'
    BY <1>1, <2>1 DEF OwnerInv, PaidAtMostOnce, OthersStay, Final
  <2>3. WasTaken'
    BY <1>1, <2>1 DEF Became, WasTaken, Taken
  <2>4. Honest(row.status)'
    BY <1>1, <2>1, <2>3 DEF Honest, Became, Final
  <2> QED BY <2>1, <2>2, <2>3, <2>4 DEF StatusInv, Final
<1> QED BY <1>3, <1>4 DEF RepeatStep, Conflict, Repeat, Look, Record, Reread, Latest

LEMMA RepeatCalls ==
  ASSUME WIInv, NEW c \in Calls, RepeatStep(c), NEW d \in Calls
  PROVE  CallInv(d)' /\ Honest(answer[d])'
<1> WITypeOK /\ OwnerInv /\ CallInv(c) /\ CallInv(d) /\ StatusInv /\ PaidAtMostOnce
  BY DEF WIInv
<1> OthersStay(c) /\ Keeps
  BY RepeatOthers, RepeatKeeps
<1>1. CASE d # c
  <2>1. /\ pc'[d] = pc[d] /\ hashed'[d] = hashed[d] /\ got'[d] = got[d]
        /\ answer'[d] = answer[d] /\ net'[d] = net[d]
    BY <1>1 DEF OthersStay
  <2>2. row'.hash = row.hash
    BY DEF RepeatStep, Conflict, Repeat, Look, Record, Reread, Latest, WITypeOK
  <2>3. pc[d] \in {"building", "sending"} => row' = row
    <3>1. CASE Record(c)
      <4>1. Became(got[c]) /\ got[c] \in Final
        BY <3>1 DEF Record, CallInv, Honest
      <4> QED BY <3>1, <4>1, WebhookAssumption DEF Record, CallInv, Became, Final
    <3> QED BY <3>1 DEF RepeatStep, Conflict, Repeat, Look, Reread, Latest
  <2>4. Honest(got[d]) => Honest(got[d])'
    BY <2>1, LookupStays
  <2> QED BY <2>1, <2>2, <2>3, <2>4, AnswerStays DEF CallInv
<1>2. CASE d = c /\ (Conflict(c) \/ Repeat(c))
  <2>1. UNCHANGED <<row, got, net>>
    BY <1>2 DEF Conflict, Repeat
  <2>2. CASE Conflict(c)
    BY <1>2, <2>1, <2>2 DEF Conflict, Reply, Go, WITypeOK, CallInv, Honest, Final
  <2>3. CASE Go(c, "looking") /\ answer' = answer /\ row.hash # None
    BY <1>2, <2>1, <2>3, AnswerStays DEF Go, WITypeOK, CallInv
  <2>4. CASE Reply(c, Response(row))
    <3>1. pc'[c] = "done" /\ answer'[c] = Response(row)
      BY <2>4 DEF Reply, Go, WITypeOK
    <3> QED BY <1>2, <2>1, <3>1 DEF CallInv, StatusInv, Honest, Response, Final, Became, WasTaken
  <2> QED BY <1>2, <2>2, <2>3, <2>4 DEF Repeat
<1>3. CASE d = c /\ Look(c)
  <2>1. UNCHANGED <<row, net, answer>> /\ row.hash \in Calls /\ row.hash # None
    BY <1>3 DEF Look, CallInv, WITypeOK
  <2>2. CASE pc'[c] = "absent"
    BY <1>3, <2>1, <2>2, AnswerStays DEF CallInv
  <2>3. CASE pc'[c] = "found" /\ got'[c] \in Final /\ Became(got'[c])
    <3>1. Honest(got[c])'
      BY <2>1, <2>3 DEF Honest, Became, Final
    <3> QED BY <1>3, <2>1, <2>3, <3>1, AnswerStays DEF CallInv
  <2>4. pc'[c] = "absent" \/ (pc'[c] = "found" /\ got'[c] \in Final /\ Became(got'[c]))
    BY <1>3, <2>1 DEF Look, Reported, Go, WITypeOK, StatusInv, Honest, Became
  <2> QED BY <2>2, <2>3, <2>4
<1>4. CASE d = c /\ Record(c)
  <2>1. UNCHANGED <<net, got, answer>> /\ pc'[c] = "latest" /\ Honest(got[c])
    BY <1>4 DEF Record, Go, WITypeOK, CallInv
  <2> QED BY <1>4, <2>1, AnswerStays, LookupStays DEF CallInv
<1>5. CASE d = c /\ Reread(c)
  <2>1. UNCHANGED <<row, net, answer>> /\ pc'[c] = "latest"
    BY <1>5 DEF Reread, Go, WITypeOK
  <2>2. Honest(got[c])'
    BY <1>5, <2>1 DEF Reread, WITypeOK, StatusInv, Honest, Became, WasTaken, Final
  <2> QED BY <1>5, <2>1, <2>2, AnswerStays DEF CallInv
<1>6. CASE d = c /\ Latest(c)
  <2>1. UNCHANGED <<row, net>> /\ pc'[c] = "done" /\ answer'[c] \in {row.status, got[c]}
    BY <1>6 DEF Latest, Reply, Go, WITypeOK
  <2>2. Honest(row.status) /\ Honest(got[c])
    BY <1>6 DEF Latest, CallInv, StatusInv
  <2> QED BY <1>6, <2>1, <2>2 DEF CallInv, Honest, Became, WasTaken
<1> QED BY <1>1, <1>2, <1>3, <1>4, <1>5, <1>6 DEF RepeatStep

LEMMA DieKeeps ==
  ASSUME WIInv, NEW c \in Calls, Die(c) PROVE WIInv'
<1> WITypeOK /\ OwnerInv /\ StatusInv /\ PaidAtMostOnce
  BY DEF WIInv
<1>1. WITypeOK'
  BY ReplyTyped DEF Die, WITypeOK, Answers
<1>2. /\ UNCHANGED <<row, audit, hashed, got, net>> /\ pc'[c] = "done" /\ answer'[c] = "ERROR"
      /\ \A d \in Calls \ {c} : pc'[d] = pc[d] /\ answer'[d] = answer[d]
  BY DEF Die, Reply, Go, WITypeOK
<1>3. OwnerInv' /\ PaidAtMostOnce' /\ StatusInv'
  BY <1>2 DEF OwnerInv, PaidAtMostOnce, StatusInv, Owning, Honest, Became, WasTaken
<1>4. ASSUME NEW d \in Calls PROVE CallInv(d)' /\ Honest(answer[d])'
  <2>1. CallInv(d) /\ Honest(answer[d])
    BY DEF WIInv
  <2> QED BY <1>2, <2>1 DEF CallInv, Honest, Became, WasTaken, Final
<1> QED BY <1>1, <1>3, <1>4 DEF WIInv

LEMMA LandKeeps ==
  ASSUME WIInv, NEW c \in Calls, Land(c) PROVE WIInv'
<1> WITypeOK /\ OwnerInv /\ StatusInv /\ PaidAtMostOnce
  BY DEF WIInv
<1>1. /\ UNCHANGED <<row, audit, pc, hashed, got, answer>>
      /\ net[c] = "flying" /\ net'[c] \in Taken
      /\ \A d \in Calls \ {c} : net'[d] = net[d]
  BY DEF Land, WITypeOK, Taken
<1>2. WITypeOK'
  BY DEF Land, WITypeOK, Fates, Taken
<1>3. Keeps
  BY <1>1 DEF Keeps, Final, Taken
<1>4. \A a \in Statuses \cup Answers \cup {None} : Honest(a) => Honest(a)'
  BY <1>3, HonestStays, WebhookAssumption
<1>5. OwnerInv' /\ PaidAtMostOnce'
  BY <1>1 DEF OwnerInv, PaidAtMostOnce
<1>6. StatusInv'
  <2>1. Honest(row.status)'
    <3>1. row.status \in Statuses \cup Answers \cup {None} /\ Honest(row.status)
      BY DEF WITypeOK, StatusInv
    <3> QED BY <1>1, <1>4, <3>1 DEF Honest, Became, WasTaken
  <2>2. WasTaken => WasTaken'
    BY <1>3, HonestStays, WebhookAssumption
  <2>3. row.status # "REJECTED"
    BY <1>1 DEF StatusInv, Taken
  <2> QED BY <1>1, <2>1, <2>2, <2>3 DEF StatusInv
<1>7. ASSUME NEW d \in Calls PROVE CallInv(d)' /\ Honest(answer[d])'
  <2>1. CallInv(d)
    BY DEF WIInv
  <2>2. Honest(got[d]) => Honest(got[d])'
    BY <1>1, <1>3, LookupStays
  <2>3. net'[d] = net[d] \/ (net[d] = "flying" /\ net'[d] \in Taken)
    BY <1>1
  <2> QED BY <1>1, <1>3, <2>1, <2>2, <2>3, AnswerStays DEF CallInv, Taken
<1> QED BY <1>2, <1>5, <1>6, <1>7 DEF WIInv

-----------------------------------------------------------------------------
LEMMA WIInvariant == WISpec => []WIInv
<1>1. WIInit => WIInv
  <2> SUFFICES ASSUME WIInit PROVE WIInv
    OBVIOUS
  <2>1. WITypeOK
    BY DEF WIInit, WITypeOK, Places, Statuses, Mutable, Fates
  <2> QED BY <2>1, WebhookAssumption DEF WIInit, WIInv, OwnerInv, PaidAtMostOnce, StatusInv, CallInv,
             Honest, Owning, Final, Answers
<1>2. WIInv /\ [WINext]_vars => WIInv'
  <2> SUFFICES ASSUME WIInv, [WINext]_vars PROVE WIInv'
    OBVIOUS
  <2>1. CASE UNCHANGED vars
    BY <2>1 DEF vars, WIInv, WITypeOK, OwnerInv, PaidAtMostOnce, StatusInv, CallInv,
                Honest, Became, WasTaken
  <2>2. ASSUME NEW c \in Calls, OwnerStep(c) PROVE WIInv'
    BY <2>2, OwnerTyped, OwnerRow, OwnerStatus, OwnerCalls DEF WIInv
  <2>3. ASSUME NEW c \in Calls, RepeatStep(c) PROVE WIInv'
    BY <2>3, RepeatTyped, RepeatRow, RepeatCalls DEF WIInv
  <2> QED BY <2>1, <2>2, <2>3, DieKeeps, LandKeeps DEF WINext
<1> QED BY <1>1, <1>2, PTL DEF WISpec

\* The row, the places and the answers stay well formed.
THEOREM WebhookTypeCorrect == WISpec => []WITypeOK
BY WIInvariant, PTL DEF WIInv

\* However many calls carry the key, and whatever is lost or dies, at most one
\* of them ever hands a transaction to the network.
THEOREM OneKeyOnePayout == WISpec => []PaidAtMostOnce
BY WIInvariant, PTL DEF WIInv

\* A call that is told REJECTED may rely on it.
THEOREM RefusalsAreHonest == WISpec => []RefusalIsHonest
<1>1. WIInv => RefusalIsHonest
  BY DEF WIInv, StatusInv, Honest, RefusalIsHonest
<1> QED BY <1>1, WIInvariant, PTL

\* So may a call that is told SUCCESS or FAILED.
THEOREM FinalAnswersAreHonest == WISpec => []FinalAnswersAreLedgers
<1>1. WIInv => FinalAnswersAreLedgers
  BY DEF WIInv, Honest, Became, FinalAnswersAreLedgers
<1> QED BY <1>1, WIInvariant, PTL

\* And the audit row, or an answer of PENDING, tells of a real submission.
THEOREM AcceptancesAreReal == WISpec => []AcceptanceIsReal
<1>1. WIInv => AcceptanceIsReal
  BY DEF WIInv, StatusInv, Honest, WasTaken, AcceptanceIsReal
<1> QED BY <1>1, WIInvariant, PTL

-----------------------------------------------------------------------------
(* The promise of a key                                                    *)

\* A call that has not returned has told nothing; one that is about to, has
\* something to tell.
ToldInv ==
  \A c \in Calls : /\ pc[c] # "done" => answer[c] = None
                   /\ pc[c] = "latest" => got[c] \in Answers

LEMMA OwnerTells ==
  ASSUME WIInv, ToldInv, NEW c \in Calls, OwnerStep(c) PROVE ToldInv'
<1>1. OthersStay(c)
  BY OwnerOthers DEF WIInv
<1>2. pc[c] # "done" /\ pc'[c] # "latest" /\ (pc'[c] # "done" => answer' = answer)
  BY DEF OwnerStep, Claim, BuildFails, BeforeSend, SendQueued, SendRefused, SendUnanswered,
     AfterSend, AfterSendFails, ReadInterrupted, GiveUp, Close, Go, Reply, WIInv, WITypeOK
<1> QED BY <1>1, <1>2 DEF ToldInv, OthersStay

LEMMA RepeatTells ==
  ASSUME WIInv, ToldInv, NEW c \in Calls, RepeatStep(c) PROVE ToldInv'
<1>1. OthersStay(c)
  BY RepeatOthers DEF WIInv
<1>2. pc[c] # "done" /\ (pc'[c] # "done" => answer' = answer)
  BY DEF RepeatStep, Conflict, Repeat, Look, Record, Reread, Latest, Go, Reply, WIInv, WITypeOK
<1>3. pc'[c] = "latest" => got'[c] \in Answers
  <2>1. CASE Record(c)
    <3>1. got[c] \in Final /\ got' = got
      BY <2>1 DEF Record, WIInv, CallInv
    <3> QED BY <3>1 DEF Answers
  <2>2. CASE Reread(c)
    BY <2>2 DEF Reread, WIInv, WITypeOK, Answers
  <2>3. CASE Conflict(c) \/ Repeat(c) \/ Look(c) \/ Latest(c)
    BY <2>3 DEF Conflict, Repeat, Look, Latest, Go, Reply, WIInv, WITypeOK
  <2> QED BY <2>1, <2>2, <2>3 DEF RepeatStep
<1> QED BY <1>1, <1>2, <1>3 DEF ToldInv, OthersStay

LEMMA ToldStays ==
  ASSUME WIInv, ToldInv, [WINext]_vars PROVE ToldInv'
<1>1. ASSUME NEW c \in Calls, Die(c) PROVE ToldInv'
  BY <1>1 DEF Die, Reply, Go, ToldInv, WIInv, WITypeOK
<1>2. ASSUME NEW c \in Calls, Land(c) PROVE ToldInv'
  BY <1>2 DEF Land, ToldInv
<1>3. CASE UNCHANGED vars
  BY <1>3 DEF vars, ToldInv
<1> QED BY <1>1, <1>2, <1>3, OwnerTells, RepeatTells DEF WINext

\* What a step of a call is to its caller and to the key's payout.
Answering(c) ==
  /\ pc[c] # "done" /\ \E a \in Answers : answer' = [answer EXCEPT ![c] = a]
  /\ UNCHANGED <<row, net>>

Sending(c) ==
  /\ pc[c] = "sending"
  /\ \E fate \in {"flying", "refused"} : net' = [net EXCEPT ![c] = fate]
  /\ UNCHANGED <<answer, row>>

LEMMA OwnerMoves ==
  ASSUME WIInv, NEW c \in Calls, OwnerStep(c)
  PROVE  Answering(c) \/ Sending(c) \/ UNCHANGED <<answer, net>>
<1>1. CASE SendQueued(c) \/ SendRefused(c) \/ SendUnanswered(c)
  BY <1>1 DEF SendQueued, SendRefused, SendUnanswered, Sending
<1>2. CASE Close(c)
  <2>1. row.status # "absent"
    BY <1>2, WebhookAssumption DEF Close, WIInv, OwnerInv, Owning
  <2>2. Response(row) \in Answers
    BY <2>1, ResponseTyped DEF WIInv
  <2> QED BY <1>2, <2>2 DEF Close, Reply, Answering
<1> QED BY <1>1, <1>2 DEF OwnerStep, Claim, BuildFails, BeforeSend, AfterSend,
        AfterSendFails, ReadInterrupted, GiveUp

LEMMA RepeatMoves ==
  ASSUME WIInv, ToldInv, NEW c \in Calls, RepeatStep(c)
  PROVE  Answering(c) \/ UNCHANGED <<answer, net>>
<1>1. CASE Conflict(c)
  BY <1>1 DEF Conflict, Reply, Answering, Answers
<1>2. CASE Repeat(c)
  <2>1. Response(row) \in Answers
    BY <1>2, ResponseTyped DEF Repeat, Unclaimed, WIInv
  <2> QED BY <1>2, <2>1 DEF Repeat, Reply, Answering
<1>3. CASE Latest(c)
  <2>1. got[c] \in Answers /\ (row.status \in Final => row.status \in Answers)
    BY <1>3 DEF Latest, ToldInv, Answers
  <2> QED BY <1>3, <2>1 DEF Latest, Reply, Answering
<1> QED BY <1>1, <1>2, <1>3 DEF RepeatStep, Look, Record, Reread

\* The payout, of a row and transactions of which at most one is taken.
PayoutOf(r, n) ==
  IF \E c \in Calls : n[c] \in Taken
  THEN n[CHOOSE c \in Calls : n[c] \in Taken]
  ELSE IF r.status = "REJECTED" \/ \E c \in Calls : n[c] = "refused"
  THEN "void" ELSE "unsent"

LEMMA TakenIsThePayout ==
  ASSUME NEW r, NEW n, NEW c \in Calls, n[c] \in Taken,
         \A d \in Calls : n[d] # "none" => d = c
  PROVE  PayoutOf(r, n) = n[c]
<1>1. \A d \in Calls : n[d] \in Taken => d = c
  BY DEF Taken, Final
<1>2. (CHOOSE d \in Calls : n[d] \in Taken) = c
  BY <1>1
<1> QED BY <1>2 DEF PayoutOf

LEMMA UntakenPayout ==
  ASSUME NEW r, NEW n, \A c \in Calls : n[c] \notin Taken
  PROVE  PayoutOf(r, n) = IF r.status = "REJECTED" \/ \E c \in Calls : n[c] = "refused"
                          THEN "void" ELSE "unsent"
BY DEF PayoutOf

LEMMA OnePayout ==
  ASSUME WIInv, NEW c \in Calls, net[c] # "none"
  PROVE  \A d \in Calls : net[d] # "none" => d = c
BY WebhookAssumption DEF WIInv, PaidAtMostOnce

LEMMA PayoutIs ==
  ASSUME WIInv
  PROVE  /\ Payout = PayoutOf(row, net)
         /\ \A c \in Calls : net[c] \in Taken => Payout = net[c]
         /\ row.status = "REJECTED" => Payout = "void"
<1>1. Payout = PayoutOf(row, net)
  BY DEF Payout, PayoutOf
<1>2. ASSUME NEW c \in Calls, net[c] \in Taken PROVE Payout = net[c]
  BY <1>1, <1>2, OnePayout, TakenIsThePayout DEF Taken, Final
<1>3. ASSUME row.status = "REJECTED" PROVE Payout = "void"
  <2>1. ASSUME NEW c \in Calls PROVE net[c] \notin Taken
    BY <1>3 DEF WIInv, StatusInv
  <2> QED BY <1>1, <1>3, <2>1, UntakenPayout
<1> QED BY <1>1, <1>2, <1>3

LEMMA AnsweringTells ==
  ASSUME WIInv, WIInv', ToldInv, NEW c \in Calls, Answering(c)
  PROVE  Promise!Tell(c)
<1>1. PICK a \in Answers : answer' = [answer EXCEPT ![c] = a]
  BY DEF Answering
<1>2. answer[c] = None /\ answer'[c] = a
  BY <1>1 DEF Answering, ToldInv, WIInv, WITypeOK
<1>3. UNCHANGED Payout
  BY DEF Answering, Payout
<1>4. Honest(a)
  <2>1. Honest(answer[c])'
    BY DEF WIInv
  <2> QED BY <1>2, <2>1 DEF Honest, Became, WasTaken, Answering
<1>5. a \in Promise!Tellable
  <2>1. a \in Final => Payout = a
    BY <1>4, PayoutIs DEF Honest, Became, Taken
  <2>2. a = "PENDING" => Payout \in Taken
    BY <1>4, PayoutIs DEF Honest, WasTaken
  <2>3. a = "REJECTED" => Payout = "void"
    BY <1>4, PayoutIs DEF Honest, WIInv, StatusInv
  <2> QED BY <2>1, <2>2, <2>3 DEF Promise!Tellable, Promise!Told, Promise!Noncommital,
          Promise!Decided, Promise!UnderWay, Answers, Final, Taken
<1> QED BY <1>1, <1>2, <1>3, <1>5 DEF Promise!Tell

LEMMA SendingSends ==
  ASSUME WIInv, NEW c \in Calls, Sending(c)
  PROVE  Promise!Send \/ Promise!Renounce
<1>1. row.status = "SUBMITTING" /\ row.hash = c
  BY DEF Sending, WIInv, CallInv
<1>2. \A d \in Calls : net[d] = "none"
  BY <1>1 DEF Sending, WIInv, CallInv, PaidAtMostOnce
<1>3. Payout = "unsent"
  <2>1. ASSUME NEW d \in Calls PROVE net[d] \notin Taken
    BY <1>2 DEF Taken, Final
  <2> QED BY <1>1, <1>2, <2>1, PayoutIs, UntakenPayout
<1>4. PICK fate \in {"flying", "refused"} : net' = [net EXCEPT ![c] = fate]
  BY DEF Sending
<1>5. net'[c] = fate /\ \A d \in Calls \ {c} : net'[d] = "none"
  BY <1>2, <1>4 DEF WIInv, WITypeOK
<1>6. Payout' = PayoutOf(row', net') /\ answer' = answer
  BY DEF Payout, PayoutOf, Sending
<1>7. CASE fate = "flying"
  <2>1. net'[c] \in Taken /\ \A d \in Calls : net'[d] # "none" => d = c
    BY <1>5, <1>7 DEF Taken
  <2>2. Payout' = "flying"
    BY <1>5, <1>6, <1>7, <2>1, TakenIsThePayout
  <2> QED BY <1>3, <1>6, <2>2 DEF Promise!Send
<1>8. CASE fate = "refused"
  <2>1. \A d \in Calls : net'[d] \notin Taken
    BY <1>5, <1>8 DEF Taken, Final
  <2>2. Payout' = "void"
    BY <1>5, <1>6, <1>8, <2>1, UntakenPayout
  <2> QED BY <1>3, <1>6, <2>2 DEF Promise!Renounce
<1> QED BY <1>7, <1>8

LEMMA LandingDecides ==
  ASSUME WIInv, NEW c \in Calls, Land(c)
  PROVE  Promise!Decide
<1>1. net[c] = "flying" /\ UNCHANGED <<row, answer>>
  BY DEF Land
<1>2. PICK n \in Final \cup {"expired"} : net' = [net EXCEPT ![c] = n]
  BY DEF Land
<1>3. Payout = "flying"
  BY <1>1, PayoutIs DEF Taken
<1>4. \A d \in Calls : net[d] # "none" => d = c
  BY <1>1, OnePayout
<1>5. /\ net'[c] = n /\ n \in Taken
      /\ \A d \in Calls : net'[d] # "none" => d = c
  BY <1>2, <1>4 DEF WIInv, WITypeOK, Taken
<1>6. Payout' = n
  <2>1. Payout' = PayoutOf(row', net')
    BY DEF Payout, PayoutOf
  <2> QED BY <1>5, <2>1, TakenIsThePayout
<1> QED BY <1>1, <1>3, <1>6 DEF Promise!Decide, Promise!Decided, Final

\* A step that neither sends nor answers can still give the payout up: when the
\* row says so.
LEMMA RowRenounces ==
  ASSUME WIInv, WIInv', Keeps, UNCHANGED <<answer, net>>
  PROVE  Promise!Renounce \/ UNCHANGED <<Payout, answer>>
<1>1. Payout = PayoutOf(row, net) /\ Payout' = PayoutOf(row', net)
  BY DEF Payout, PayoutOf
<1>2. CASE row'.status = "REJECTED" /\ row.status # "REJECTED"
  <2>1. \A c \in Calls : net[c] \notin Taken
    BY <1>2 DEF WIInv, StatusInv
  <2>2. Payout' = "void"
    BY <1>1, <1>2, <2>1, UntakenPayout
  <2>3. Payout \in {"unsent", "void"}
    BY <1>1, <2>1, UntakenPayout
  <2> QED BY <2>2, <2>3 DEF Promise!Renounce
<1>3. CASE (row'.status = "REJECTED") <=> (row.status = "REJECTED")
  BY <1>1, <1>3 DEF PayoutOf
<1> QED BY <1>2, <1>3 DEF Keeps

LEMMA EveryStepIsPromised ==
  ASSUME WIInv, WIInv', ToldInv, [WINext]_vars
  PROVE  [Promise!KPNext]_(Promise!payoutVars)
<1>1. ASSUME NEW c \in Calls, Answering(c) PROVE Promise!KPNext
  BY <1>1, AnsweringTells DEF Promise!KPNext
<1>2. ASSUME NEW c \in Calls, Sending(c) PROVE Promise!KPNext
  BY <1>2, SendingSends DEF Promise!KPNext
<1>3. ASSUME NEW c \in Calls, Land(c) PROVE Promise!KPNext
  BY <1>3, LandingDecides DEF Promise!KPNext
<1>4. ASSUME Keeps, UNCHANGED <<answer, net>> PROVE [Promise!KPNext]_(Promise!payoutVars)
  BY <1>4, RowRenounces DEF Promise!KPNext, Promise!payoutVars
<1>5. ASSUME NEW c \in Calls, OwnerStep(c) PROVE [Promise!KPNext]_(Promise!payoutVars)
  BY <1>1, <1>2, <1>4, <1>5, OwnerMoves, OwnerKeeps
<1>6. ASSUME NEW c \in Calls, RepeatStep(c) PROVE [Promise!KPNext]_(Promise!payoutVars)
  BY <1>1, <1>4, <1>6, RepeatMoves, RepeatKeeps
<1>7. ASSUME NEW c \in Calls, Die(c) PROVE Answering(c)
  BY <1>7 DEF Die, Reply, Answering, Answers
<1>8. CASE UNCHANGED vars
  BY <1>8 DEF vars, Payout, Promise!payoutVars
<1> QED BY <1>1, <1>3, <1>5, <1>6, <1>7, <1>8 DEF WINext

LEMMA ToldInvariant == WISpec => []ToldInv
<1>1. ASSUME WIInit PROVE ToldInv
  <2>1. ASSUME NEW c \in Calls
        PROVE  /\ pc[c] # "done" => answer[c] = None
               /\ pc[c] = "latest" => got[c] \in Answers
    BY <1>1 DEF WIInit
  <2> QED BY <2>1, ZenonT(60) DEF ToldInv
<1>2. WIInv /\ ToldInv /\ [WINext]_vars => ToldInv'
  BY ToldStays
<1> QED BY <1>1, <1>2, WIInvariant, PTL DEF WISpec

\* executeKeyedWebhook and its lookups implement KeyedPayout: every step of every
\* call is a send, a renunciation, a decision, an answer that the payout bears
\* out, or nothing to the callers.
THEOREM CallsKeepThePromise == WISpec => PayoutIsAsPromised
<1>1. WIInit => Promise!KPInit
  <2> SUFFICES ASSUME WIInit PROVE Promise!KPInit
    OBVIOUS
  <2>1. ASSUME NEW c \in Calls PROVE net[c] = "none"
    BY DEF WIInit
  <2>2. Payout = PayoutOf(row, net) /\ row.status # "REJECTED"
    BY DEF WIInit, Payout, PayoutOf
  <2>3. Payout = "unsent"
    BY <2>1, <2>2, UntakenPayout DEF Taken, Final
  <2> QED BY <2>3 DEF WIInit, Promise!KPInit
<1>2. WIInv /\ WIInv' /\ ToldInv /\ [WINext]_vars => [Promise!KPNext]_(Promise!payoutVars)
  BY EveryStepIsPromised
<1> QED BY <1>1, <1>2, WIInvariant, ToldInvariant, PTL
        DEF WISpec, PayoutIsAsPromised, Promise!KPSpec

-----------------------------------------------------------------------------
(* Deployments                                                             *)

PlaceRecords  == [pc : ActorStates, saw : Deployments, send : Sends,
                  why : {"none", "refused", "onchain"}]
SignedRecords == [outcome : {"none", "RECEIVED", "ACCEPTED", "UNRESOLVED",
                             "REJECTED", "CONFIRMED", "FAILED"},
                  expired : {FALSE}, at : Nat, accepted : BOOLEAN]

Step(p) == SubmitStep(p) \/ CronStep(p) \/ OwnerRead(p) \/ Conclusion(p) \/ DieAt(p)

\* What a place in the code says of the ledger and of the row.
PlaceIsTrue(p) ==
  /\ actor[p].pc \in {"confirming", "scheduling", "claiming"} => landed.fate = "SUCCESS"
  /\ At(p, "recording") => /\ landed.fate # "none"
                           /\ landed.fate = "SUCCESS" => deployment.status = "CONFIRMED"
  /\ At(p, "failing") /\ actor[p].why = "onchain" => landed.fate = "FAILED"
  /\ At(p, "expiring") => landed.fate = "none" /\ ledger > MaxTime
  /\ actor[p].saw.status = "CONFIRMED" => deployment.status = "CONFIRMED"

PlacesAreTrue == \A p \in Actors : PlaceIsTrue(p)

LandedInTime == landed.fate # "none" => landed.at \in 1 .. MaxTime

\* One request at a time is between its claim and the record of the answer, and
\* has sent nothing that a node has taken when it hands the claim back.
InHand(p) == actor[p].pc \in {"sending", "answered", "handing"}

OneSends ==
  /\ \A p, q \in Actors : InHand(p) /\ InHand(q) => p = q
  /\ \A p \in Actors :
       InHand(p) => /\ deployment.status # "PENDING_SIGNATURE" /\ deployment.hash
                    /\ taken => At(p, "answered") /\ ~HandsBack(actor[p].send)
  /\ taken => deployment.hash /\ deployment.status # "PENDING_SIGNATURE"
  /\ deployment.status \in {"SUBMITTED", "CONFIRMED"} => deployment.hash

\* One confirmer schedules.
OneAsks ==
  /\ \A p, q \in Actors : At(p, "scheduling") /\ At(q, "scheduling") => p = q
  /\ scheduled \in {0, 1}
  /\ scheduled = 1 => \A p \in Actors : ~At(p, "scheduling")
  /\ (scheduled = 1 \/ \E p \in Actors : At(p, "scheduling"))
       => deployment.status = "CONFIRMED"
  /\ deployment.status = "CONFIRMED" /\ deaths = 0
       => scheduled = 1 \/ \E p \in Actors : At(p, "scheduling")

DFInv == DFTypeOK /\ LandedInTime /\ PlacesAreTrue /\ DeploymentIsTrue /\ OneSends /\ OneAsks

-----------------------------------------------------------------------------
LEMMA FinalityStarts == DFInit => DFInv
<1> SUFFICES ASSUME DFInit PROVE DFInv
  OBVIOUS
<1> USE DeploymentAssumption
<1>1. DFTypeOK
  <2>1. Prepared \in Deployments
    BY DEF Prepared, Deployments, DeploymentStatuses
  <2>2. Resting \in PlaceRecords
    BY <2>1 DEF Resting, PlaceRecords, ActorStates, Sends
  <2>3. NoSigned \in SignedRecords
    BY DEF NoSigned, SignedRecords
  <2>4. [fate |-> "none", at |-> 0] \in [fate : Verdicts \cup {"none"}, at : 0 .. LastLedger]
    OBVIOUS
  <2>5. actor \in [Actors -> PlaceRecords] /\ deployment \in Deployments
        /\ signature \in SignedRecords
    BY <2>1, <2>2, <2>3 DEF DFInit
  <2>6. 1 \in 1 .. LastLedger /\ 0 \in 0 .. MaxDeaths /\ 0 \in Nat
    OBVIOUS
  <2> QED BY <2>4, <2>5, <2>6 DEF DFInit, DFTypeOK, PlaceRecords, SignedRecords
<1>2. \A p \in Actors : actor[p].pc = "idle" /\ actor[p].saw.status = "PENDING_SIGNATURE"
  BY DEF DFInit, Resting, Prepared
<1> QED BY <1>1, <1>2 DEF DFInit, DFInv, LandedInTime, PlacesAreTrue, PlaceIsTrue,
     DeploymentIsTrue, OneSends, OneAsks, InHand, At, Prepared, NoSigned

LEMMA OneMoves ==
  ASSUME DFTypeOK, NEW p \in Actors, Step(p)
  PROVE  /\ \A q \in Actors \ {p} : actor'[q] = actor[q]
         /\ DOMAIN actor' = Actors
         /\ UNCHANGED <<ledger, landed, source>>
         /\ deployment.status = "CONFIRMED" => deployment' = deployment
<1>1. DOMAIN actor = Actors
  BY DEF DFTypeOK
<1>2. CASE SubmitStep(p)
  BY <1>1, <1>2 DEF SubmitStep, ClaimDeployment, SendEnvelope, RecordSend, HandBack,
     PollFinality, WriteFailure, On, Move, Rest, Failing, netVars, Submitted
<1>3. CASE CronStep(p)
  BY <1>1, <1>3 DEF CronStep, SelectRow, CronFinds, CronMisses, On, Move, Rest, netVars, Submitted
<1>4. CASE OwnerRead(p)
  BY <1>1, <1>4 DEF OwnerRead, OwnerLooks, OwnerFinds, OwnerMisses, ClaimExternal, ProveExpiry,
     ExpirePrepared, On, Move, Rest, netVars, Submitted, Unsubmitted
<1>5. CASE Conclusion(p)
  BY <1>1, <1>5 DEF Conclusion, Confirm, ScheduleFirst, RecordOutcome, On, Move, Rest, netVars,
     MayConfirm, Submitted
<1>6. CASE DieAt(p)
  BY <1>1, <1>6 DEF DieAt, Rest, Move, netVars
<1> QED BY <1>2, <1>3, <1>4, <1>5, <1>6 DEF Step

\* News of a send or of a read that found nothing leaves a final row as it is.
LEMMA NewsIsTyped ==
  ASSUME NEW entry \in SignedRecords, NEW to \in {"ACCEPTED", "UNRESOLVED", "REJECTED"},
         NEW sent \in BOOLEAN
  PROVE  /\ Answered(entry, to, sent) \in SignedRecords
         /\ Answered(entry, to, sent).outcome \in {"CONFIRMED", "FAILED"}
              => Answered(entry, to, sent).outcome = entry.outcome
<1> DEFINE new == Answered(entry, to, sent)
<1>1. CASE entry.outcome \in {"CONFIRMED", "FAILED"}
  BY <1>1 DEF Answered, CanTransition, SignedRecords
<1>2. CASE entry.outcome \notin {"CONFIRMED", "FAILED"}
  BY <1>2 DEF Answered, CanTransition, SignedRecords
<1> QED BY <1>1, <1>2

LEMMA VerdictIsTyped ==
  ASSUME NEW entry \in SignedRecords, NEW fate \in Verdicts, NEW at \in Nat
  PROVE  /\ Concluded(entry, fate, at) \in SignedRecords
         /\ Concluded(entry, fate, at).outcome # entry.outcome
              => Concluded(entry, fate, at).outcome = Outcome(fate)
  BY DEF Concluded, CanTransition, Outcome, Verdicts, SignedRecords

LEMMA NetworkTypes ==
  ASSUME DFTypeOK, LandEnvelope \/ CloseLedger \/ TimeOut
  PROVE  DFTypeOK'
<1>1. CASE LandEnvelope
  <2>1. ledger \in 0 .. LastLedger
    BY DEF DFTypeOK
  <2>2. landed' \in [fate : Verdicts \cup {"none"}, at : 0 .. LastLedger]
    BY <1>1, <2>1 DEF LandEnvelope
  <2> QED BY <1>1, <2>2 DEF LandEnvelope, DFTypeOK
<1>2. CASE CloseLedger
  <2>1. ledger' \in 1 .. LastLedger
    BY <1>2, DeploymentAssumption DEF CloseLedger, DFTypeOK
  <2> QED BY <1>2, <2>1 DEF CloseLedger, DFTypeOK
<1>3. CASE TimeOut
  <2>1. deployment' \in Deployments
    BY <1>3 DEF TimeOut, DFTypeOK, Deployments, DeploymentStatuses
  <2> QED BY <1>3, <2>1 DEF TimeOut, DFTypeOK, netVars
<1> QED BY <1>1, <1>2, <1>3

\* Where a step takes its process.
LEMMA PlacesAreTyped ==
  ASSUME DFTypeOK, NEW p \in Actors, Step(p)
  PROVE  actor' \in [Actors -> PlaceRecords]
<1>1. actor \in [Actors -> PlaceRecords] /\ deployment \in Deployments
  BY DEF DFTypeOK, PlaceRecords
<1>2. Prepared \in Deployments
  BY DEF Prepared, Deployments, DeploymentStatuses
<1>3. Resting \in PlaceRecords
  BY <1>2 DEF Resting, PlaceRecords, ActorStates, Sends
<1>4. [Resting EXCEPT !.pc = "reading", !.saw = deployment] \in PlaceRecords
  BY <1>1, <1>3 DEF PlaceRecords, ActorStates
<1>5. \A place \in ActorStates : [actor[p] EXCEPT !.pc = place] \in PlaceRecords
  BY <1>1 DEF PlaceRecords
<1>6. \A why \in {"refused", "onchain"} :
        [actor[p] EXCEPT !.pc = "failing", !.why = why] \in PlaceRecords
  BY <1>1 DEF PlaceRecords, ActorStates
<1>7. \A send \in Sends : [actor[p] EXCEPT !.pc = "answered", !.send = send] \in PlaceRecords
  BY <1>1 DEF PlaceRecords, ActorStates
<1>8. \/ actor' = actor
      \/ \E new \in PlaceRecords : actor' = [actor EXCEPT ![p] = new]
  <2>1. CASE SubmitStep(p)
    BY <1>3, <1>5, <1>6, <1>7, <2>1 DEF SubmitStep, ClaimDeployment, SendEnvelope, RecordSend,
       HandBack, PollFinality, WriteFailure, On, Move, Rest, Failing, ActorStates
  <2>2. CASE CronStep(p)
    BY <1>3, <1>4, <1>5, <2>2 DEF CronStep, SelectRow, CronFinds, CronMisses, On, Move, Rest,
       ActorStates
  <2>3. CASE OwnerRead(p)
    BY <1>3, <1>4, <1>5, <2>3 DEF OwnerRead, OwnerLooks, OwnerFinds, OwnerMisses,
       ClaimExternal, ProveExpiry, ExpirePrepared, On, Move, Rest, ActorStates
  <2>4. CASE Conclusion(p)
    BY <1>3, <1>5, <2>4 DEF Conclusion, Confirm, ScheduleFirst, RecordOutcome, On, Move, Rest,
       ActorStates
  <2>5. CASE DieAt(p)
    BY <1>3, <2>5 DEF DieAt, Rest, Move
  <2> QED BY <2>1, <2>2, <2>3, <2>4, <2>5 DEF Step
<1> QED BY <1>1, <1>8

\* What it writes into the deployment.
LEMMA RowsAreTyped ==
  ASSUME DFTypeOK, NEW p \in Actors, Step(p)
  PROVE  deployment' \in Deployments
<1>1. deployment \in Deployments
  BY DEF DFTypeOK
<1>2. \A status \in DeploymentStatuses, hash \in BOOLEAN :
        [deployment EXCEPT !.status = status, !.hash = hash] \in Deployments
  BY <1>1 DEF Deployments
<1>3. [deployment EXCEPT !.status = "FAILED", !.why = "expired"] \in Deployments
  BY <1>1 DEF Deployments, DeploymentStatuses
<1>4. FailedFor("onchain") \in Deployments /\ FailedFor("refused") \in Deployments
      /\ FailedFor("none") \in Deployments
  BY DEF FailedFor, Deployments, DeploymentStatuses
<1>5. actor[p].why \in {"none", "refused", "onchain"}
  BY DEF DFTypeOK
<1>6. CASE SubmitStep(p)
  BY <1>1, <1>2, <1>4, <1>5, <1>6 DEF SubmitStep, ClaimDeployment, SendEnvelope, RecordSend,
     HandBack, PollFinality, WriteFailure, DeploymentStatuses
<1>7. CASE CronStep(p)
  BY <1>1, <1>4, <1>7 DEF CronStep, SelectRow, CronFinds, CronMisses
<1>8. CASE OwnerRead(p)
  BY <1>1, <1>2, <1>3, <1>4, <1>8 DEF OwnerRead, OwnerLooks, OwnerFinds, OwnerMisses,
     ClaimExternal, ProveExpiry, ExpirePrepared, DeploymentStatuses
<1>9. CASE Conclusion(p)
  BY <1>1, <1>2, <1>9 DEF Conclusion, Confirm, ScheduleFirst, RecordOutcome, DeploymentStatuses
<1>10. CASE DieAt(p)
  BY <1>1, <1>10 DEF DieAt
<1> QED BY <1>6, <1>7, <1>8, <1>9, <1>10 DEF Step

\* What it writes into the signed row.
LEMMA SignaturesAreTrue ==
  ASSUME DFTypeOK, NEW p \in Actors, Step(p), PlaceIsTrue(p)
  PROVE  /\ signature' \in SignedRecords
         /\ signature'.outcome \in {"CONFIRMED", "FAILED"} =>
              \/ signature'.outcome = signature.outcome
              \/ /\ signature'.outcome = Outcome(landed.fate)
                 /\ landed.fate # "none"
                 /\ landed.fate = "SUCCESS" => deployment.status = "CONFIRMED"
<1>1. signature \in SignedRecords
  BY DEF DFTypeOK, SignedRecords
<1>2. [NoSigned EXCEPT !.outcome = "RECEIVED"] \in SignedRecords
  BY DEF NoSigned, SignedRecords
<1>3. CASE SubmitStep(p)
  <2>1. CASE RecordSend(p)
    <3>1. PICK news \in {"ACCEPTED", "UNRESOLVED", "REJECTED"} :
            signature' = Answered(signature, news, TRUE)
      BY <2>1 DEF RecordSend
    <3> QED BY <1>1, <3>1, NewsIsTyped
  <2>2. CASE PollFinality(p)
    BY <1>1, <2>2, NewsIsTyped DEF PollFinality
  <2>3. CASE ClaimDeployment(p)
    BY <1>1, <1>2, <2>3 DEF ClaimDeployment, HasRow, NoSigned
  <2>4. CASE SendEnvelope(p) \/ HandBack(p) \/ WriteFailure(p)
    BY <1>1, <2>4 DEF SendEnvelope, HandBack, WriteFailure
  <2> QED BY <1>3, <2>1, <2>2, <2>3, <2>4 DEF SubmitStep
<1>4. CASE CronStep(p)
  BY <1>1, <1>4, NewsIsTyped DEF CronStep, SelectRow, CronFinds, CronMisses
<1>5. CASE OwnerRead(p) \/ DieAt(p)
  BY <1>1, <1>5 DEF OwnerRead, OwnerLooks, OwnerFinds, OwnerMisses, ClaimExternal, ProveExpiry,
     ExpirePrepared, DieAt
<1>6. CASE Conclusion(p)
  <2>1. CASE Confirm(p)
    BY <1>1, <2>1, NewsIsTyped DEF Confirm
  <2>2. CASE ScheduleFirst(p)
    BY <1>1, <2>2 DEF ScheduleFirst
  <2>3. CASE RecordOutcome(p)
    <3>1. landed.fate \in Verdicts /\ landed.at \in Nat
      BY <2>3 DEF RecordOutcome, PlaceIsTrue, DFTypeOK
    <3> QED BY <1>1, <2>3, <3>1, VerdictIsTyped
            DEF RecordOutcome, PlaceIsTrue, Outcome, SignedRecords, Verdicts
  <2> QED BY <1>6, <2>1, <2>2, <2>3 DEF Conclusion
<1> QED BY <1>3, <1>4, <1>5, <1>6 DEF Step

LEMMA StepTypes ==
  ASSUME DFTypeOK, NEW p \in Actors, Step(p), PlaceIsTrue(p)
  PROVE  DFTypeOK'
<1>1. /\ actor' \in [Actors -> PlaceRecords] /\ deployment' \in Deployments
      /\ signature' \in SignedRecords /\ UNCHANGED <<ledger, landed, source>>
  BY PlacesAreTyped, RowsAreTyped, SignaturesAreTrue, OneMoves
<1>2. taken' \in BOOLEAN
  BY DEF Step, SubmitStep, CronStep, OwnerRead, Conclusion, DieAt, ClaimDeployment, SendEnvelope,
     RecordSend, HandBack, PollFinality, WriteFailure, SelectRow, CronFinds, CronMisses,
     OwnerLooks, OwnerFinds, OwnerMisses, ClaimExternal, ProveExpiry, ExpirePrepared, Confirm,
     ScheduleFirst, RecordOutcome, netVars, DFTypeOK, CanLand
<1>3. (scheduled' = scheduled \/ scheduled' = scheduled + 1)
      /\ (deaths' = deaths \/ (deaths < MaxDeaths /\ deaths' = deaths + 1))
  BY DeploymentAssumption DEF Step, SubmitStep, CronStep, OwnerRead, Conclusion, DieAt,
     ClaimDeployment, SendEnvelope, RecordSend, HandBack, PollFinality, WriteFailure, SelectRow,
     CronFinds, CronMisses, OwnerLooks, OwnerFinds, OwnerMisses, ClaimExternal, ProveExpiry,
     ExpirePrepared, Confirm, ScheduleFirst, RecordOutcome
<1>4. scheduled' \in Nat /\ deaths' \in 0 .. MaxDeaths
  BY <1>3, DeploymentAssumption DEF DFTypeOK
<1> QED BY <1>1, <1>2, <1>4 DEF DFTypeOK, PlaceRecords, SignedRecords

-----------------------------------------------------------------------------
\* What the network does.
LEMMA NetworkKeeps ==
  ASSUME DFInv, LandEnvelope \/ CloseLedger \/ TimeOut
  PROVE  DFInv'
<1>1. DFTypeOK'
  BY NetworkTypes DEF DFInv
<1>2. UNCHANGED <<actor, taken, scheduled, deaths, signature>>
      /\ (UNCHANGED deployment \/ TimeOut)
  BY DEF LandEnvelope, CloseLedger, TimeOut, netVars
<1>3. /\ landed' = landed \/ (landed.fate = "none" /\ landed'.fate \in Verdicts
                               /\ ledger <= MaxTime /\ landed'.at = ledger)
      /\ ledger' >= ledger
  BY DEF LandEnvelope, CloseLedger, TimeOut, netVars, CanLand, DFInv, DFTypeOK
<1>4. TimeOut => /\ deployment.status = "SUBMITTED" /\ deployment'.status = "FAILED"
                 /\ deployment'.why = "timeout" /\ deployment'.hash = deployment.hash
                 /\ landed' = landed /\ ledger' = ledger
  BY DEF TimeOut, Submitted, netVars, DFInv, DFTypeOK, Deployments
<1>5. ledger \in Nat /\ ledger >= 1 /\ MaxTime \in Nat /\ ledger' \in Nat
  BY <1>1, DeploymentAssumption DEF DFInv, DFTypeOK
<1>6. LandedInTime'
  BY <1>3, <1>5 DEF DFInv, LandedInTime
<1>7. PlacesAreTrue'
  BY <1>2, <1>3, <1>4, <1>5 DEF DFInv, PlacesAreTrue, PlaceIsTrue, At, Verdicts
<1>8. DeploymentIsTrue'
  <2>1. (deployment.why = "expired" /\ deployment.status = "FAILED")
          => landed.fate = "none" /\ ledger > MaxTime
    BY <1>5 DEF DFInv, DeploymentIsTrue, CanLand
  <2> QED BY <1>2, <1>3, <1>4, <1>5, <2>1 DEF DFInv, DeploymentIsTrue, CanLand, Verdicts
<1>9. OneSends'
  BY <1>2, <1>4 DEF DFInv, OneSends, InHand, At, HandsBack, LandEnvelope, CloseLedger, TimeOut
<1>10. OneAsks'
  BY <1>2, <1>4 DEF DFInv, OneAsks, At
<1> QED BY <1>1, <1>6, <1>7, <1>8, <1>9, <1>10 DEF DFInv

\* What a step of p makes of the row.
LEMMA RowFollowsPlace ==
  ASSUME DFInv, NEW p \in Actors, Step(p)
  PROVE  /\ deployment'.status = "CONFIRMED" =>
              deployment.status = "CONFIRMED" \/ landed.fate = "SUCCESS"
         /\ deployment'.status = "FAILED" /\ deployment'.why = "onchain" =>
              \/ deployment.status = "FAILED" /\ deployment.why = "onchain"
              \/ landed.fate = "FAILED"
         /\ deployment'.status = "FAILED" /\ deployment'.why = "expired" =>
              \/ deployment.status = "FAILED" /\ deployment.why = "expired"
              \/ landed.fate = "none" /\ ledger > MaxTime
<1>1. deployment \in Deployments /\ PlaceIsTrue(p)
  BY DEF DFInv, DFTypeOK, PlacesAreTrue
<1>2. ASSUME NEW why PROVE FailedFor(why).status = "FAILED" /\ FailedFor(why).why = why
  BY DEF FailedFor
<1>3. CASE WriteFailure(p)
  <2>1. \/ deployment' = deployment
        \/ /\ deployment'.status = "FAILED" /\ deployment'.why = actor[p].why
           /\ At(p, "failing")
    BY <1>2, <1>3 DEF WriteFailure
  <2>2. actor[p].why # "expired"
    BY DEF DFInv, DFTypeOK
  <2> QED BY <1>1, <2>1, <2>2 DEF PlaceIsTrue
<1>4. CASE ClaimDeployment(p) \/ HandBack(p) \/ ClaimExternal(p)
  <2>1. \/ deployment' = deployment
        \/ \E status \in {"SUBMITTED", "PENDING_SIGNATURE"}, hash \in BOOLEAN :
             deployment' = [deployment EXCEPT !.status = status, !.hash = hash]
    BY <1>4 DEF ClaimDeployment, HandBack, ClaimExternal
  <2>2. deployment' = deployment \/ deployment'.status \in {"SUBMITTED", "PENDING_SIGNATURE"}
    BY <1>1, <2>1 DEF Deployments
  <2> QED BY <2>2, <1>1 DEF DFInv, DeploymentIsTrue
<1>5. CASE CronFinds(p) \/ OwnerFinds(p)
  BY <1>1, <1>2, <1>5 DEF CronFinds, OwnerFinds
<1>6. CASE ExpirePrepared(p)
  <2>1. \/ deployment' = deployment
        \/ deployment'.status = "FAILED" /\ deployment'.why = "expired"
    BY <1>1, <1>6 DEF ExpirePrepared, Deployments
  <2>2. landed.fate = "none" /\ ledger > MaxTime
    BY <1>1, <1>6 DEF ExpirePrepared, PlaceIsTrue
  <2> QED BY <2>1, <2>2
<1>7. CASE Confirm(p)
  <2>1. \/ deployment' = deployment
        \/ deployment'.status = "CONFIRMED"
    BY <1>1, <1>7 DEF Confirm, Deployments
  <2>2. landed.fate = "SUCCESS"
    BY <1>1, <1>7 DEF Confirm, PlaceIsTrue, At
  <2> QED BY <2>1, <2>2
<1>8. CASE UNCHANGED deployment
  BY <1>8
<1> QED BY <1>3, <1>4, <1>5, <1>6, <1>7, <1>8 DEF Step, SubmitStep, CronStep, OwnerRead, Conclusion,
     SendEnvelope, RecordSend, PollFinality, SelectRow, CronMisses, OwnerLooks, OwnerMisses,
     ProveExpiry, ScheduleFirst, RecordOutcome, DieAt

LEMMA StepKeepsTruth ==
  ASSUME DFInv, NEW p \in Actors, Step(p)
  PROVE  DeploymentIsTrue' /\ LandedInTime'
<1>1. PlaceIsTrue(p) /\ DeploymentIsTrue /\ LandedInTime /\ DFTypeOK
  BY DEF DFInv, PlacesAreTrue
<1>2. UNCHANGED <<ledger, landed>> /\ (deployment.status = "CONFIRMED" => deployment' = deployment)
  BY <1>1, OneMoves
<1>3. ledger \in Nat /\ MaxTime \in Nat
  BY <1>1, DeploymentAssumption DEF DFTypeOK
<1>4. landed.fate \in {"SUCCESS", "FAILED", "none"}
  BY <1>1 DEF DFTypeOK, Verdicts
<1>5. /\ deployment'.status = "CONFIRMED" => landed.fate = "SUCCESS"
      /\ deployment'.status = "FAILED" /\ deployment'.why = "onchain" => landed.fate = "FAILED"
      /\ deployment'.status = "FAILED" /\ deployment'.why = "expired" =>
           landed.fate = "none" /\ ~CanLand
  BY <1>1, <1>3, RowFollowsPlace DEF DeploymentIsTrue, CanLand
<1>6. /\ signature'.outcome = "CONFIRMED" => deployment'.status = "CONFIRMED"
      /\ signature'.outcome = "FAILED" => landed.fate = "FAILED"
  BY <1>1, <1>2, <1>4, SignaturesAreTrue DEF DeploymentIsTrue, Outcome
<1>7. CanLand' <=> CanLand
  BY <1>2 DEF CanLand
<1> QED BY <1>1, <1>2, <1>5, <1>6, <1>7 DEF DeploymentIsTrue, LandedInTime

\* A read that finds the transaction, and a proof that it will never be there.
LEMMA ReadsAreTrue ==
  ASSUME DFInv
  PROVE  /\ Seen => landed.fate \in Verdicts
         /\ \A oldest, latest \in Closed :
              CoversHistory(oldest, latest) /\ ~Found(oldest, latest)
                => landed.fate = "none" /\ ledger > MaxTime
<1>1. ledger \in Nat /\ MaxTime \in Nat /\ landed.fate \in Verdicts \cup {"none"}
      /\ (landed.fate # "none" => landed.at \in 1 .. MaxTime)
  BY DeploymentAssumption DEF DFInv, DFTypeOK, LandedInTime
<1>2. Seen => landed.fate \in Verdicts
  BY <1>1 DEF Seen, Found
<1>3. ASSUME NEW oldest \in Closed, NEW latest \in Closed,
             CoversHistory(oldest, latest), ~Found(oldest, latest)
      PROVE  landed.fate = "none" /\ ledger > MaxTime
  BY <1>1, <1>3 DEF Closed, CoversHistory, Found
<1> QED BY <1>2, <1>3

LEMMA StepKeepsPlaces ==
  ASSUME DFInv, NEW p \in Actors, Step(p)
  PROVE  PlacesAreTrue'
<1>1. /\ DFTypeOK /\ PlaceIsTrue(p) /\ actor \in [Actors -> PlaceRecords]
      /\ deployment \in Deployments
  BY DEF DFInv, DFTypeOK, PlacesAreTrue, PlaceRecords
<1>2. UNCHANGED <<ledger, landed>> /\ (deployment.status = "CONFIRMED" => deployment' = deployment)
  BY <1>1, OneMoves
<1>3. ASSUME NEW q \in Actors, q # p PROVE PlaceIsTrue(q)'
  <2>1. actor'[q] = actor[q] /\ PlaceIsTrue(q)
    BY <1>1, <1>3, OneMoves DEF DFInv, PlacesAreTrue
  <2> QED BY <1>2, <2>1 DEF PlaceIsTrue, At
<1>4. ASSUME NEW place \in ActorStates, On(p, place)
      PROVE  actor'[p].pc = place /\ actor'[p].saw = actor[p].saw /\ actor'[p].why = actor[p].why
  BY <1>1, <1>4 DEF On, Move, PlaceRecords
<1>5. ASSUME Rest(p) PROVE PlaceIsTrue(p)'
  <2>1. actor'[p] = Resting
    BY <1>1, <1>5 DEF Rest, Move
  <2> QED BY <2>1 DEF Resting, Prepared, PlaceIsTrue, At
<1>6. ASSUME NEW place \in {"sending", "handing", "waiting", "proving", "reading"}, On(p, place)
      PROVE  PlaceIsTrue(p)'
  BY <1>1, <1>2, <1>4, <1>6 DEF ActorStates, PlaceIsTrue, At
<1>7. ASSUME NEW place \in {"confirming", "claiming"}, On(p, place), landed.fate = "SUCCESS"
      PROVE  PlaceIsTrue(p)'
  BY <1>1, <1>2, <1>4, <1>7 DEF ActorStates, PlaceIsTrue, At
<1>8. ASSUME On(p, "recording"), landed.fate # "none",
             landed.fate = "SUCCESS" => deployment'.status = "CONFIRMED"
      PROVE  PlaceIsTrue(p)'
  BY <1>1, <1>2, <1>4, <1>8 DEF ActorStates, PlaceIsTrue, At
<1>9. ASSUME NEW why \in {"refused", "onchain"}, Failing(p, why),
             why = "onchain" => landed.fate = "FAILED"
      PROVE  PlaceIsTrue(p)'
  <2>1. /\ actor'[p].pc = "failing" /\ actor'[p].why = why /\ actor'[p].saw = actor[p].saw
    BY <1>1, <1>9 DEF Failing, Move, PlaceRecords
  <2> QED BY <1>1, <1>2, <1>9, <2>1 DEF PlaceIsTrue, At
<1>10. ASSUME Move(p, [Resting EXCEPT !.pc = "reading", !.saw = deployment]),
              UNCHANGED deployment
       PROVE  PlaceIsTrue(p)'
  <2>1. actor'[p].pc = "reading" /\ actor'[p].saw = deployment
    BY <1>1, <1>10 DEF Move, Resting
  <2> QED BY <1>10, <2>1 DEF PlaceIsTrue, At
<1>11. PlaceIsTrue(p)'
  <2>1. CASE ClaimDeployment(p) \/ HandBack(p)
    BY <1>5, <1>6, <2>1 DEF ClaimDeployment, HandBack
  <2>2. CASE SendEnvelope(p)
    <3>1. actor'[p].pc = "answered" /\ actor'[p].saw = actor[p].saw
      BY <1>1, <2>2 DEF SendEnvelope, Move, PlaceRecords
    <3> QED BY <1>1, <1>2, <3>1 DEF PlaceIsTrue, At
  <2>3. CASE RecordSend(p)
    BY <1>5, <1>6, <1>9, <2>3 DEF RecordSend
  <2>4. CASE PollFinality(p)
    BY <1>5, <1>7, <1>9, <2>4, ReadsAreTrue DEF PollFinality, Verdicts
  <2>5. CASE WriteFailure(p)
    BY <1>1, <1>5, <1>8, <2>5 DEF WriteFailure, PlaceIsTrue
  <2>6. CASE SelectRow(p) \/ OwnerLooks(p)
    BY <1>10, <2>6 DEF SelectRow, OwnerLooks
  <2>7. CASE CronFinds(p)
    BY <1>1, <1>5, <1>7, <1>8, <2>7, ReadsAreTrue DEF CronFinds, Verdicts, PlaceIsTrue
  <2>8. CASE OwnerFinds(p)
    BY <1>5, <1>7, <1>8, <2>8, ReadsAreTrue DEF OwnerFinds, Verdicts
  <2>9. CASE CronMisses(p) \/ OwnerMisses(p) \/ ExpirePrepared(p) \/ RecordOutcome(p) \/ DieAt(p)
    BY <1>5, <1>6, <2>9 DEF CronMisses, OwnerMisses, ExpirePrepared, RecordOutcome, DieAt
  <2>10. CASE ClaimExternal(p)
    BY <1>1, <1>5, <1>7, <2>10 DEF ClaimExternal, PlaceIsTrue, At
  <2>11. CASE ProveExpiry(p)
    <3>1. CASE On(p, "expiring")
      <4>1. (landed.fate = "none" /\ ledger > MaxTime) \/ Rest(p)
        BY <2>11, ReadsAreTrue DEF ProveExpiry
      <4> QED BY <1>1, <1>2, <1>4, <1>5, <3>1, <4>1 DEF ActorStates, PlaceIsTrue, At
    <3> QED BY <1>5, <2>11, <3>1 DEF ProveExpiry
  <2>12. CASE Confirm(p)
    <3>1. landed.fate = "SUCCESS"
      BY <1>1, <2>12 DEF Confirm, PlaceIsTrue, At
    <3>2. CASE On(p, "scheduling")
      <4>1. deployment'.status = "CONFIRMED" \/ deployment' = deployment
        BY <1>1, <2>12 DEF Confirm, Deployments
      <4> QED BY <1>1, <1>2, <1>4, <3>1, <3>2, <4>1 DEF ActorStates, PlaceIsTrue, At
    <3> QED BY <1>5, <1>8, <2>12, <3>1, <3>2 DEF Confirm
  <2>13. CASE ScheduleFirst(p)
    <3>1. deployment.status = "CONFIRMED" /\ landed.fate = "SUCCESS"
      BY <1>1, <2>13 DEF ScheduleFirst, DFInv, OneAsks, PlaceIsTrue, At
    <3> QED BY <1>2, <1>8, <2>13, <3>1 DEF ScheduleFirst
  <2> QED BY <2>1, <2>2, <2>3, <2>4, <2>5, <2>6, <2>7, <2>8, <2>9, <2>10, <2>11, <2>12, <2>13
          DEF Step, SubmitStep, CronStep, OwnerRead, Conclusion
<1> QED BY <1>3, <1>11 DEF PlacesAreTrue

\* The claim keeps a second request out until it is handed back.
LEMMA StepKeepsOneSender ==
  ASSUME DFInv, NEW p \in Actors, Step(p)
  PROVE  OneSends'
<1>1. /\ OneSends /\ actor \in [Actors -> PlaceRecords] /\ deployment \in Deployments
      /\ actor' \in [Actors -> PlaceRecords] /\ deployment' \in Deployments
  BY PlacesAreTyped, RowsAreTyped DEF DFInv, DFTypeOK, PlaceRecords
<1>2. /\ \A q \in Actors \ {p} : actor'[q] = actor[q]
      /\ UNCHANGED source
  BY OneMoves DEF DFInv
<1>3. ASSUME taken' = taken,
             InHand(p)' => /\ InHand(p)
                           /\ taken => At(p, "answered")' /\ ~HandsBack(actor'[p].send),
             deployment'.status = "PENDING_SIGNATURE" => deployment.status = "PENDING_SIGNATURE",
             deployment.hash => deployment'.hash,
             deployment'.status \in {"SUBMITTED", "CONFIRMED"} => deployment'.hash
      PROVE  OneSends'
  <2>1. ASSUME NEW q \in Actors, InHand(q)'
        PROVE  InHand(q) /\ (taken => At(q, "answered")' /\ ~HandsBack(actor'[q].send))
    BY <1>1, <1>2, <1>3, <2>1 DEF OneSends, InHand, At
  <2> QED BY <1>1, <1>2, <1>3, <2>1 DEF OneSends, HandsBack
<1>4. CASE ClaimDeployment(p)
  <2>1. /\ deployment'.status = "SUBMITTED" /\ deployment'.hash /\ ~taken /\ ~taken'
        /\ \A q \in Actors : ~InHand(q)
    BY <1>1, <1>4 DEF ClaimDeployment, OneSends, netVars, Deployments
  <2>2. \A q \in Actors \ {p} : ~InHand(q)'
    BY <1>2, <2>1 DEF InHand
  <2> QED BY <2>1, <2>2 DEF OneSends
<1>5. CASE SendEnvelope(p)
  <2>1. /\ deployment' = deployment /\ InHand(p) /\ ~taken
        /\ deployment.status # "PENDING_SIGNATURE" /\ deployment.hash
    BY <1>1, <1>5 DEF SendEnvelope, OneSends, InHand, At
  <2>2. PICK send \in Sends :
          /\ taken' \in (CASE send = "QUEUED" -> {TRUE}
                           [] send = "LOST"   -> {taken, taken \/ CanLand}
                           [] OTHER           -> {taken})
          /\ Move(p, [actor[p] EXCEPT !.pc = "answered", !.send = send])
    BY <1>5 DEF SendEnvelope
  <2>3. actor'[p].pc = "answered" /\ actor'[p].send = send
    BY <1>1, <2>2 DEF Move, PlaceRecords
  <2>4. taken' => send # "NOT_ACCEPTED"
    BY <2>1, <2>2 DEF Sends
  <2>5. \A q \in Actors \ {p} : ~InHand(q)'
    BY <1>1, <1>2, <2>1 DEF OneSends, InHand
  <2> QED BY <2>1, <2>3, <2>4, <2>5 DEF OneSends, At, HandsBack, InHand
<1>6. CASE HandBack(p)
  <2>1. InHand(p) /\ ~taken /\ ~taken' /\ actor'[p] = Resting
    BY <1>1, <1>6 DEF HandBack, OneSends, InHand, At, netVars, Rest, Move
  <2>2. \A q \in Actors : ~InHand(q)'
    BY <1>1, <1>2, <2>1 DEF OneSends, InHand, Resting
  <2>3. deployment' = deployment \/ deployment'.status = "PENDING_SIGNATURE"
    BY <1>1, <1>6 DEF HandBack, Deployments
  <2> QED BY <1>1, <2>1, <2>2, <2>3 DEF OneSends
<1>7. CASE RecordSend(p)
  <2>1. taken' = taken /\ deployment' = deployment /\ At(p, "answered")
    BY <1>7 DEF RecordSend, netVars
  <2>2. InHand(p)' => HandsBack(actor[p].send)
    <3>1. \A place \in ActorStates : On(p, place) => actor'[p].pc = place
      BY <1>1 DEF On, Move, PlaceRecords
    <3>2. Rest(p) => actor'[p].pc = "idle"
      BY <1>1 DEF Rest, Move, Resting
    <3>3. Failing(p, "refused") => actor'[p].pc = "failing"
      BY <1>1 DEF Failing, Move, PlaceRecords
    <3> QED BY <1>7, <3>1, <3>2, <3>3 DEF RecordSend, ActorStates, InHand
  <2> QED BY <1>1, <1>3, <2>1, <2>2 DEF OneSends, InHand, At
<1>8. CASE /\ Step(p) /\ ~ClaimDeployment(p) /\ ~SendEnvelope(p) /\ ~HandBack(p)
           /\ ~RecordSend(p)
  <2>1. taken' = taken
    BY <1>8 DEF Step, SubmitStep, CronStep, OwnerRead, Conclusion, PollFinality, WriteFailure,
       SelectRow, CronFinds, CronMisses, OwnerLooks, OwnerFinds, OwnerMisses, ClaimExternal,
       ProveExpiry, ExpirePrepared, Confirm, ScheduleFirst, RecordOutcome, DieAt, netVars
  <2>2. ~InHand(p)'
    <3>1. \A place \in ActorStates : On(p, place) => actor'[p].pc = place
      BY <1>1 DEF On, Move, PlaceRecords
    <3>2. Rest(p) => actor'[p].pc = "idle"
      BY <1>1 DEF Rest, Move, Resting
    <3>3. \A why \in {"refused", "onchain"} : Failing(p, why) => actor'[p].pc = "failing"
      BY <1>1 DEF Failing, Move, PlaceRecords
    <3>4. Move(p, [Resting EXCEPT !.pc = "reading", !.saw = deployment])
            => actor'[p].pc = "reading"
      BY <1>1 DEF Move, Resting
    <3> QED BY <1>8, <3>1, <3>2, <3>3, <3>4 DEF Step, SubmitStep, CronStep, OwnerRead, Conclusion,
          PollFinality, WriteFailure, SelectRow, CronFinds, CronMisses, OwnerLooks, OwnerFinds,
          OwnerMisses, ClaimExternal, ProveExpiry, ExpirePrepared, Confirm, ScheduleFirst,
          RecordOutcome, DieAt, ActorStates, InHand
  <2>3. \/ deployment' = deployment
        \/ deployment'.status \in {"SUBMITTED", "CONFIRMED", "FAILED"} /\ deployment'.hash
        \/ deployment'.status = "FAILED" /\ deployment'.hash = deployment.hash
    <3>1. \A why : FailedFor(why).status = "FAILED" /\ FailedFor(why).hash
      BY DEF FailedFor
    <3>2. CASE WriteFailure(p)
      <4>1. FailedFor(actor[p].why).status = "FAILED" /\ FailedFor(actor[p].why).hash
        BY DEF FailedFor
      <4> QED BY <3>2, <4>1 DEF WriteFailure
    <3>3. CASE CronFinds(p) \/ OwnerFinds(p)
      <4>1. FailedFor("onchain").status = "FAILED" /\ FailedFor("onchain").hash
        BY DEF FailedFor
      <4> QED BY <3>3, <4>1 DEF CronFinds, OwnerFinds
    <3>4. CASE ClaimExternal(p) \/ ExpirePrepared(p) \/ Confirm(p)
      BY <1>1, <3>4 DEF ClaimExternal, ExpirePrepared, Confirm, Deployments
    <3>5. CASE UNCHANGED deployment
      BY <3>5
    <3> QED BY <1>8, <3>2, <3>3, <3>4, <3>5 DEF Step, SubmitStep, CronStep, OwnerRead, Conclusion,
          PollFinality, SelectRow, CronMisses, OwnerLooks, OwnerMisses, ProveExpiry, ScheduleFirst,
          RecordOutcome, DieAt
  <2> QED BY <1>1, <1>3, <2>1, <2>2, <2>3 DEF OneSends
<1> QED BY <1>4, <1>5, <1>6, <1>7, <1>8

\* The confirming write lets one process through, and it schedules once.
LEMMA StepKeepsOneScheduler ==
  ASSUME DFInv, NEW p \in Actors, Step(p)
  PROVE  OneAsks'
<1>1. /\ OneAsks /\ actor \in [Actors -> PlaceRecords] /\ deployment \in Deployments
      /\ deaths \in Nat
  BY DeploymentAssumption DEF DFInv, DFTypeOK, PlaceRecords
<1>2. /\ \A q \in Actors \ {p} : actor'[q] = actor[q]
      /\ deployment.status = "CONFIRMED" => deployment' = deployment
  BY OneMoves DEF DFInv
<1>3. CASE Confirm(p) /\ MayConfirm(p)
  <2>1. /\ deployment.status # "CONFIRMED" /\ deployment'.status = "CONFIRMED"
        /\ scheduled' = scheduled /\ At(p, "scheduling")'
    <3>1. deployment.status # "CONFIRMED"
      BY <1>3 DEF MayConfirm, Submitted
    <3>2. deployment' = [deployment EXCEPT !.status = "CONFIRMED", !.hash = TRUE]
          /\ On(p, "scheduling") /\ scheduled' = scheduled
      BY <1>3 DEF Confirm
    <3>3. deployment'.status = "CONFIRMED"
      BY <1>1, <3>2 DEF Deployments
    <3>4. actor'[p].pc = "scheduling"
      BY <1>1, <3>2 DEF On, Move, PlaceRecords
    <3> QED BY <3>1, <3>2, <3>3, <3>4 DEF At
  <2>2. scheduled = 0 /\ \A q \in Actors : ~At(q, "scheduling")
    BY <1>1, <2>1 DEF OneAsks
  <2>3. \A q \in Actors \ {p} : ~At(q, "scheduling")'
    BY <1>2, <2>2 DEF At
  <2> QED BY <2>1, <2>2, <2>3 DEF OneAsks
<1>4. CASE ScheduleFirst(p)
  <2>1. /\ deployment.status = "CONFIRMED" /\ deployment' = deployment /\ scheduled = 0
        /\ scheduled' = 1 /\ ~At(p, "scheduling")'
    BY <1>1, <1>4 DEF ScheduleFirst, OneAsks, On, Move, At, PlaceRecords
  <2>2. \A q \in Actors \ {p} : ~At(q, "scheduling")'
    BY <1>1, <1>2, <1>4 DEF OneAsks, ScheduleFirst, At
  <2> QED BY <2>1, <2>2 DEF OneAsks
<1>5. CASE DieAt(p)
  <2>1. /\ scheduled' = scheduled /\ deployment' = deployment /\ deaths' # 0
        /\ ~At(p, "scheduling")'
    BY <1>1, <1>5 DEF DieAt, Rest, Move, Resting, At
  <2> QED BY <1>1, <1>2, <2>1 DEF OneAsks, At
<1>6. CASE /\ ~(Confirm(p) /\ MayConfirm(p)) /\ ~ScheduleFirst(p) /\ ~DieAt(p)
  <2>1. scheduled' = scheduled /\ deaths' = deaths /\ ~At(p, "scheduling")
    BY <1>6 DEF Step, SubmitStep, CronStep, OwnerRead, Conclusion, ClaimDeployment, SendEnvelope,
       RecordSend, HandBack, PollFinality, WriteFailure, SelectRow, CronFinds, CronMisses,
       OwnerLooks, OwnerFinds, OwnerMisses, ClaimExternal, ProveExpiry, ExpirePrepared, Confirm,
       RecordOutcome, At
  <2>2. ~At(p, "scheduling")'
    <3>1. \A place \in ActorStates : On(p, place) => actor'[p].pc = place
      BY <1>1 DEF On, Move, PlaceRecords
    <3>2. Rest(p) => actor'[p].pc = "idle"
      BY <1>1 DEF Rest, Move, Resting
    <3>3. \A why \in {"refused", "onchain"} : Failing(p, why) => actor'[p].pc = "failing"
      BY <1>1 DEF Failing, Move, PlaceRecords
    <3>4. Move(p, [Resting EXCEPT !.pc = "reading", !.saw = deployment])
            => actor'[p].pc = "reading"
      BY <1>1 DEF Move, Resting
    <3>5. \A send : Move(p, [actor[p] EXCEPT !.pc = "answered", !.send = send])
            => actor'[p].pc = "answered"
      BY <1>1 DEF Move, PlaceRecords
    <3> QED BY <1>6, <3>1, <3>2, <3>3, <3>4, <3>5 DEF Step, SubmitStep, CronStep, OwnerRead,
          Conclusion, ClaimDeployment, SendEnvelope, RecordSend, HandBack, PollFinality,
          WriteFailure, SelectRow, CronFinds, CronMisses, OwnerLooks, OwnerFinds, OwnerMisses,
          ClaimExternal, ProveExpiry, ExpirePrepared, Confirm, RecordOutcome, ActorStates, At
  <2>3. deployment'.status = "CONFIRMED" => deployment.status = "CONFIRMED"
    <3>1. FailedFor(actor[p].why).status = "FAILED" /\ FailedFor("onchain").status = "FAILED"
      BY DEF FailedFor
    <3>2. CASE WriteFailure(p) \/ CronFinds(p) \/ OwnerFinds(p)
      BY <3>1, <3>2 DEF WriteFailure, CronFinds, OwnerFinds
    <3>3. CASE ClaimDeployment(p) \/ HandBack(p) \/ ClaimExternal(p) \/ ExpirePrepared(p)
      BY <1>1, <3>3 DEF ClaimDeployment, HandBack, ClaimExternal, ExpirePrepared, Deployments
    <3>4. CASE UNCHANGED deployment
      BY <3>4
    <3> QED BY <1>6, <3>2, <3>3, <3>4 DEF Step, SubmitStep, CronStep, OwnerRead, Conclusion,
          SendEnvelope, RecordSend, PollFinality, SelectRow, CronMisses, OwnerLooks, OwnerMisses,
          ProveExpiry, Confirm, RecordOutcome
  <2>4. \A q \in Actors : At(q, "scheduling")' <=> At(q, "scheduling")
    BY <1>2, <2>1, <2>2 DEF At
  <2> QED BY <1>1, <1>2, <2>1, <2>3, <2>4 DEF OneAsks
<1> QED BY <1>3, <1>4, <1>5, <1>6

\* Everything the rows say of a deployment, for any requests, crons and readers.
THEOREM DeploymentInvariant == DFSpec => []DFInv
<1>1. DFInv /\ [DFNext]_dfVars => DFInv'
  <2> SUFFICES ASSUME DFInv, [DFNext]_dfVars PROVE DFInv'
    OBVIOUS
  <2>1. ASSUME NEW p \in Actors, Step(p) PROVE DFInv'
    <3>1. DFTypeOK'
      BY <2>1, StepTypes DEF DFInv, PlacesAreTrue
    <3> QED BY <2>1, <3>1, StepKeepsTruth, StepKeepsPlaces, StepKeepsOneSender,
               StepKeepsOneScheduler DEF DFInv
  <2>2. CASE LandEnvelope \/ CloseLedger \/ TimeOut
    BY <2>2, NetworkKeeps
  <2>3. CASE UNCHANGED dfVars
    <3>1. DFTypeOK'
      BY <2>3 DEF dfVars, netVars, DFInv, DFTypeOK
    <3>2. LandedInTime' /\ DeploymentIsTrue'
      BY <2>3 DEF dfVars, netVars, DFInv, LandedInTime, DeploymentIsTrue, CanLand
    <3>3. PlacesAreTrue'
      BY <2>3 DEF dfVars, netVars, DFInv, PlacesAreTrue, PlaceIsTrue, At
    <3>4. OneSends'
      BY <2>3 DEF dfVars, netVars, DFInv, OneSends, InHand, HandsBack, At
    <3>5. OneAsks'
      BY <2>3 DEF dfVars, netVars, DFInv, OneAsks, At
    <3> QED BY <3>1, <3>2, <3>3, <3>4, <3>5 DEF DFInv
  <2> QED BY <2>1, <2>2, <2>3 DEF DFNext, Step
<1> QED BY <1>1, FinalityStarts, PTL DEF DFSpec

\* confirmDeployment, the failure writes and the expiry: every final row of a
\* deployment is the ledger's word, and the signed row never gets ahead of it.
THEOREM DeploymentsAreTrue == DFSpec => []DeploymentIsTrue
<1>1. DFInv => DeploymentIsTrue
  BY DEF DFInv
<1> QED BY <1>1, DeploymentInvariant, PTL

\* Every write of the deployment asks for a status that is not final; the one
\* that confirms a failed row has seen the transaction succeed.
LEMMA FailuresWait ==
  ASSUME DFInv, NEW p \in Actors, Step(p), deployment.status = "FAILED"
  PROVE  deployment' = deployment \/ (Confirm(p) /\ deployment'.status = "CONFIRMED")
<1>1. deployment \in Deployments
  BY DEF DFInv, DFTypeOK
<1>2. CASE Confirm(p)
  BY <1>1, <1>2 DEF Confirm, Deployments
<1>3. CASE ClaimDeployment(p) \/ HandBack(p) \/ WriteFailure(p)
  BY <1>3 DEF ClaimDeployment, HandBack, WriteFailure, Submitted
<1>4. CASE CronFinds(p) \/ OwnerFinds(p)
  BY <1>4 DEF CronFinds, OwnerFinds, Submitted, Unsubmitted
<1>5. CASE ClaimExternal(p) \/ ExpirePrepared(p)
  BY <1>5 DEF ClaimExternal, ExpirePrepared, Unsubmitted
<1>6. CASE SendEnvelope(p) \/ RecordSend(p) \/ PollFinality(p)
  BY <1>6, ZenonT(60) DEF SendEnvelope, RecordSend, PollFinality
<1>7. CASE SelectRow(p) \/ CronMisses(p) \/ OwnerLooks(p) \/ OwnerMisses(p) \/ ProveExpiry(p)
  BY <1>7 DEF SelectRow, CronMisses, OwnerLooks, OwnerMisses, ProveExpiry
<1>8. CASE ScheduleFirst(p) \/ RecordOutcome(p) \/ DieAt(p)
  BY <1>8 DEF ScheduleFirst, RecordOutcome, DieAt
<1> QED BY <1>2, <1>3, <1>4, <1>5, <1>6, <1>7, <1>8, ZenonT(60)
        DEF Step, SubmitStep, CronStep, OwnerRead, Conclusion

LEMMA SettledRowsWait ==
  ASSUME DFInv, NEW p \in Actors, Step(p), SettledRow
  PROVE  deployment' = deployment
<1>1. CASE deployment.status = "CONFIRMED"
  BY <1>1, OneMoves DEF DFInv
<1>2. CASE deployment.status = "FAILED" /\ deployment.why \in {"onchain", "expired"}
  <2>1. landed.fate # "SUCCESS"
    BY <1>2 DEF DFInv, DeploymentIsTrue
  <2>2. Confirm(p) => landed.fate = "SUCCESS"
    BY DEF Confirm, DFInv, PlacesAreTrue, PlaceIsTrue, At
  <2> QED BY <1>2, <2>1, <2>2, FailuresWait
<1> QED BY <1>1, <1>2 DEF SettledRow

\* What is recorded of a final outcome leaves the outcome alone.
LEMMA SignaturesStay ==
  ASSUME DFInv, NEW p \in Actors, Step(p), signature.outcome \in {"CONFIRMED", "FAILED"}
  PROVE  signature'.outcome = signature.outcome
<1>1. signature \in SignedRecords
  BY DEF DFInv, DFTypeOK, SignedRecords
<1>2. ASSUME NEW to \in {"ACCEPTED", "UNRESOLVED", "REJECTED"}, NEW sent \in BOOLEAN
      PROVE  Answered(signature, to, sent).outcome = signature.outcome
  BY <1>1 DEF Answered, CanTransition, SignedRecords
<1>3. Concluded(signature, landed.fate, landed.at) = signature
  BY DEF Concluded, CanTransition
<1>4. CASE RecordSend(p)
  <2>1. PICK news \in {"ACCEPTED", "UNRESOLVED", "REJECTED"} :
          signature' = Answered(signature, news, TRUE)
    BY <1>4 DEF RecordSend
  <2> QED BY <1>2, <2>1
<1>5. CASE PollFinality(p) \/ CronMisses(p) \/ Confirm(p)
  <2>1. signature' \in {signature, Answered(signature, "UNRESOLVED", FALSE)}
    BY <1>5 DEF PollFinality, CronMisses, Confirm
  <2> QED BY <1>2, <2>1
<1>6. CASE ClaimDeployment(p) \/ RecordOutcome(p)
  BY <1>3, <1>6 DEF ClaimDeployment, HasRow, RecordOutcome
<1>7. CASE SendEnvelope(p) \/ HandBack(p) \/ WriteFailure(p) \/ ScheduleFirst(p) \/ DieAt(p)
  BY <1>7, ZenonT(60) DEF SendEnvelope, HandBack, WriteFailure, ScheduleFirst, DieAt
<1>8. CASE SelectRow(p) \/ CronFinds(p) \/ OwnerLooks(p) \/ OwnerFinds(p) \/ OwnerMisses(p)
  BY <1>8 DEF SelectRow, CronFinds, OwnerLooks, OwnerFinds, OwnerMisses
<1>9. CASE ClaimExternal(p) \/ ProveExpiry(p) \/ ExpirePrepared(p)
  BY <1>9 DEF ClaimExternal, ProveExpiry, ExpirePrepared
<1> QED BY <1>4, <1>5, <1>6, <1>7, <1>8, <1>9, ZenonT(60)
        DEF Step, SubmitStep, CronStep, OwnerRead, Conclusion

\* The writes of a request, a cron, an owner's read and the timeout: whichever
\* comes late, it leaves a settled row and a final outcome as they are.
THEOREM DeploymentOutcomesStay == DFSpec => OutcomesStay
<1> DEFINE Stays == /\ SettledRow => deployment' = deployment
                    /\ deployment.status = "FAILED" /\ deployment' # deployment
                         => deployment'.status = "CONFIRMED"
                    /\ signature.outcome \in {"CONFIRMED", "FAILED"}
                         => signature'.outcome = signature.outcome
<1>1. ASSUME DFInv, [DFNext]_dfVars PROVE Stays
  <2>1. ASSUME NEW p \in Actors, Step(p) PROVE Stays
    <3>1. SettledRow => deployment' = deployment
      BY <1>1, <2>1, SettledRowsWait
    <3>2. deployment.status = "FAILED" /\ deployment' # deployment
            => deployment'.status = "CONFIRMED"
      BY <1>1, <2>1, FailuresWait
    <3>3. signature.outcome \in {"CONFIRMED", "FAILED"}
            => signature'.outcome = signature.outcome
      BY <1>1, <2>1, SignaturesStay
    <3> QED BY <3>1, <3>2, <3>3
  <2>2. CASE LandEnvelope \/ CloseLedger \/ UNCHANGED dfVars
    BY <2>2 DEF LandEnvelope, CloseLedger, dfVars
  <2>3. CASE TimeOut
    BY <2>3 DEF TimeOut, Submitted, SettledRow
  <2> QED BY <1>1, <2>1, <2>2, <2>3 DEF DFNext, Step
<1>2. DFInv /\ [DFNext]_dfVars => [Stays]_dfVars
  BY <1>1
<1> QED BY <1>2, DeploymentInvariant, PTL DEF DFSpec, OutcomesStay

\* At most one of the members of a set that agree pairwise.
LEMMA AtMostOne ==
  ASSUME NEW S, \A p, q \in S : p = q
  PROVE  Cardinality(S) = IF S = {} THEN 0 ELSE 1
<1>1. CASE S = {}
  BY <1>1, FS_EmptySet
<1>2. CASE S # {}
  <2>1. PICK p \in S : TRUE
    BY <1>2
  <2>2. S = {p}
    BY <2>1
  <2> QED BY <1>2, <2>2, FS_Singleton
<1> QED BY <1>1, <1>2

\* "Nothing reached the network": a claim that is handed back has nothing under
\* way, and no two requests hold it at a time.
THEOREM HandedBackIsFree == DFSpec => []HandedBackIsUntaken
<1>1. ASSUME DFInv PROVE HandedBackIsUntaken
  <2> DEFINE S == {p \in Submitters : At(p, "sending") \/ At(p, "answered") \/ At(p, "handing")}
  <2>1. \A p, q \in S : p = q
    BY <1>1 DEF DFInv, OneSends, InHand, At, Actors
  <2>2. Cardinality(S) <= 1
    BY <2>1, AtMostOne
  <2> QED BY <1>1, <2>2 DEF DFInv, OneSends, HandedBackIsUntaken
<1> QED BY <1>1, DeploymentInvariant, PTL

\* "Try to win the race": the first claim is scheduled once, whoever confirms.
THEOREM FirstClaimIsScheduledOnce == DFSpec => []FirstClaimAskedOnce
<1>1. ASSUME DFInv PROVE FirstClaimAskedOnce
  <2> DEFINE S == {p \in Actors : At(p, "scheduling")}
  <2>1. Cardinality(S) = IF S = {} THEN 0 ELSE 1
    <3>1. \A p, q \in S : p = q
      BY <1>1 DEF DFInv, OneAsks
    <3> QED BY <3>1, AtMostOne
  <2>2. OneAsks
    BY <1>1 DEF DFInv
  <2>3. CASE S = {}
    BY <2>1, <2>2, <2>3 DEF OneAsks, FirstClaimAskedOnce
  <2>4. CASE S # {}
    <3>1. scheduled = 0 /\ deployment.status = "CONFIRMED"
      BY <2>2, <2>4 DEF OneAsks
    <3> QED BY <2>1, <2>4, <3>1 DEF FirstClaimAskedOnce
  <2> QED BY <2>3, <2>4
<1> QED BY <1>1, DeploymentInvariant, PTL
=============================================================================
