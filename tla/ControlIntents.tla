--------------------------- MODULE ControlIntents ---------------------------
(***************************************************************************)
(* The wallet controls of one deployment that exclude each other: the      *)
(* payments of one payer, its configuration updates, or the controls of    *)
(* one node.  A control is prepared, signed by a wallet and submitted; its *)
(* WalletControlIntent row reserves the lane until the outcome is proved   *)
(* (lib/api/v1/control-intent.ts, execution-intent.ts, mutations/).        *)
(*                                                                         *)
(* Three rows speak of one transaction: the intent, the SignedTransaction  *)
(* and the ServiceTransaction.  Requests, the wait for finality, status    *)
(* lookups and three crons write them, one database transaction at a time, *)
(* and any process may die between two of them.                            *)
(*                                                                         *)
(* Whoever holds the signed envelope may broadcast it, so from its         *)
(* preparation to the end of its time bounds a transaction may land,       *)
(* whatever the server knows.  A ledger's number stands for its close time *)
(* too.  An RPC read reaches any replica: one that lags, and one that has  *)
(* pruned its history.                                                     *)
(*                                                                         *)
(* A process that dies is one that takes no further step, which any may do *)
(* at any time: nothing is assumed to be fair.                             *)
(*                                                                         *)
(* ControlLane.tla says what all this is for; LaneIsKept, at the end, is   *)
(* that it is implemented here.                                            *)
(***************************************************************************)
EXTENDS Integers, FiniteSets, TransactionOutcomes

CONSTANTS
  Procs,             \* requests about a control, and runs of the cron
  Keys,              \* Idempotency-Keys, each of one request
  NoKey,             \* the control has none
  MaxIntents,        \* bound on the controls prepared
  Validity,          \* ledgers a prepared transaction stays valid
  LastLedger         \* bound on the ledgers

ASSUME ControlAssumption ==
  /\ NoKey \notin Keys
  /\ MaxIntents \in Nat /\ Validity \in Nat \ {0}
  /\ LastLedger \in Nat \ {0}

VARIABLES
  ledger,            \* the open ledger
  chain,             \* chain[i]: how and where the i-th transaction landed
  serviceState,      \* Deployment.serviceState
  intent,            \* intent[i]: the WalletControlIntent row
  signed,            \* signed[i]: the SignedTransaction row
  service,           \* service[i]: the ServiceTransaction row
  refused,           \* the keys with a MutationPreparationRefusal row
  proc               \* proc[p]: where the process p is

rows   == <<intent, signed, service, refused>>
ciVars == <<ledger, chain, serviceState, rows, proc>>

Intents == 1 .. MaxIntents
Fates   == {"SUCCESS", "FAILED"}
OpenStates  == {"PREPARED", "SUBMITTING"}
FinalStates == {"SUCCESS", "FAILED", "EXPIRED"}

NoIntent == [state |-> "none", at |-> 0, prepared |-> 0, maxTime |-> 0,
             key |-> NoKey]
Resting  == [pc |-> "idle", id |-> 0, key |-> NoKey, state |-> "none", at |-> 0]

ProcStates == {"idle", "simulating", "creating", "recording", "sending",
               "answered", "projecting", "expiring", "rejecting",
               "signing"}

CITypeOK ==
  /\ ledger \in 1 .. LastLedger
  /\ chain \in [Intents -> [fate : Fates \cup {"none"}, at : 0 .. LastLedger]]
  /\ serviceState \in {"ACTIVE", "RETIRING"}
  /\ intent \in [Intents -> [state : {"none"} \cup OpenStates \cup FinalStates,
                             at : Nat, prepared : Nat, maxTime : Nat,
                             key : Keys \cup {NoKey}]]
  /\ signed \in [Intents -> [outcome : {"none", "RECEIVED", "ACCEPTED",
                                        "UNRESOLVED", "REJECTED", "CONFIRMED",
                                        "FAILED"},
                             expired : BOOLEAN, at : Nat, accepted : BOOLEAN]]
  /\ service \in [Intents -> [state : {"none", "PENDING", "REJECTED"} \cup Fates,
                              at : Nat]]
  /\ refused \subseteq Keys
  /\ proc \in [Procs -> [pc : ProcStates, id : {0} \cup Intents,
                         key : Keys \cup {NoKey},
                         state : {"none", "ACCEPTED", "REJECTED", "UNRESOLVED"}
                                   \cup FinalStates,
                         at : Nat]]
  /\ \A p \in Procs : proc[p].pc \notin {"idle", "simulating", "creating"} => proc[p].id # 0

CIInit ==
  /\ ledger = 1
  /\ chain = [i \in Intents |-> [fate |-> "none", at |-> 0]]
  /\ serviceState = "ACTIVE"
  /\ intent = [i \in Intents |-> NoIntent]
  /\ signed = [i \in Intents |-> NoSigned]
  /\ service = [i \in Intents |-> [state |-> "none", at |-> 0]]
  /\ refused = {}
  /\ proc = [p \in Procs |-> Resting]

Prepared(i) == intent[i].state # "none"
IsOpen(i)   == intent[i].state \in OpenStates
Landed(i)   == chain[i].fate # "none"
Proceed(p, next) == proc' = [proc EXCEPT ![p] = next]
Leave(p)         == Proceed(p, Resting)
With(pc, i, state, at) ==
  [Resting EXCEPT !.pc = pc, !.id = i, !.state = state, !.at = at]

-----------------------------------------------------------------------------
(* The network                                                             *)

\* Time bounds: a transaction lands in a ledger closing by its maxTime.
CanLand(i) == Prepared(i) /\ ~Landed(i) /\ ledger <= intent[i].maxTime

Land(i) ==
  /\ CanLand(i)
  /\ \E fate \in Fates : chain' = [chain EXCEPT ![i] = [fate |-> fate, at |-> ledger]]
  /\ UNCHANGED <<ledger, serviceState, rows, proc>>

CloseLedger ==
  /\ ledger < LastLedger
  /\ ledger' = ledger + 1
  /\ UNCHANGED <<chain, serviceState, rows, proc>>

\* getTransaction, of a replica that knows the ledgers oldest .. latest.
Found(i, oldest, latest) == Landed(i) /\ chain[i].at \in oldest .. latest
Closed == 1 .. ledger - 1

\* Some replica, or the event the poller stored, tells how it ended.
Seen(i) == Found(i, 1, ledger - 1)

-----------------------------------------------------------------------------
(* Preparation: createControlIntent, createExecutionIntent,                *)
(* createMutationIntent and the refusals of lib/mutations/refusals.ts      *)

Holders(k) == {i \in Intents : Prepared(i) /\ intent[i].key = k}
KeyIsUsed(k) == k # NoKey /\ Holders(k) # {}

\* findMutationRetry: an answer already given is given again; otherwise the
\* chain is read, and the last closed ledger noted before anything else.
BeginPreparation(p, k) ==
  /\ proc[p].pc = "idle"
  /\ ledger > 1
  /\ ~KeyIsUsed(k) /\ k \notin refused
  /\ Proceed(p, [Resting EXCEPT !.pc = "simulating", !.key = k,
                                !.at = ledger - 1])
  /\ UNCHANGED <<ledger, chain, serviceState, rows>>

\* Mutant of MayRefuse: an admission meanwhile is not looked for.
RefuseAnyway(k) == k # NoKey

\* The reads or the simulation refuse.  fenceRefusedPreparation makes that
\* hold for every later call of the key; an intent admitted meanwhile wins.
MayRefuse(k) == k # NoKey /\ ~KeyIsUsed(k)

SimulationFails(p) ==
  /\ proc[p].pc = "simulating"
  /\ refused' = IF serviceState = "ACTIVE" /\ MayRefuse(proc[p].key)
                THEN refused \cup {proc[p].key} ELSE refused
  /\ Leave(p)
  /\ UNCHANGED <<ledger, chain, serviceState, intent, signed, service>>

\* The prepared transaction is refused, without a word about the key, if its
\* bounds are over by the server's clock.  A clock that is slow does what a
\* creation does that comes late.
CheckTimeBounds(p) ==
  /\ proc[p].pc = "simulating"
  /\ IF proc[p].at + Validity >= ledger
     THEN Proceed(p, [proc[p] EXCEPT !.pc = "creating"])
     ELSE Leave(p)
  /\ UNCHANGED <<ledger, chain, serviceState, rows>>

\* The creation under the deployment's lock: the key is new and not refused,
\* and the lane is free.  The time bounds are not looked at again.
Unrefused(k) == k \notin refused
\* Mutant of LaneIsFree: only a control under submission reserves the lane.
NothingSubmits == \A i \in Intents : intent[i].state # "SUBMITTING"

LaneIsFree   == \A i \in Intents : ~IsOpen(i)

\* Mutant of MayCreate: that the deployment may have retired meanwhile is not
\* looked at.
CreateThoughRetiring(p) ==
  ~KeyIsUsed(proc[p].key) /\ Unrefused(proc[p].key) /\ LaneIsFree

MayCreate(p) ==
  /\ serviceState = "ACTIVE"
  /\ ~KeyIsUsed(proc[p].key) /\ Unrefused(proc[p].key)
  /\ LaneIsFree

CreateIntent(p) ==
  /\ proc[p].pc = "creating"
  /\ \E i \in Intents :
        /\ ~Prepared(i) /\ \A j \in Intents : j < i => Prepared(j)
        /\ intent' = IF MayCreate(p)
                     THEN [intent EXCEPT ![i] =
                            [state |-> "PREPARED", at |-> 0,
                             prepared |-> proc[p].at,
                             maxTime |-> proc[p].at + Validity,
                             key |-> proc[p].key]]
                     ELSE intent
  /\ Leave(p)
  /\ UNCHANGED <<ledger, chain, serviceState, signed, service, refused>>

-----------------------------------------------------------------------------
(* The signed row's outcome, by the rules of TransactionOutcomes           *)

\* signed: a control signed and submitted under the right wallet has a row.
SignedFinal(i) == signed[i].outcome \in {"CONFIRMED", "FAILED"}

-----------------------------------------------------------------------------
(* Submission: submitControlIntent                                         *)

\* The caller has found the intent PREPARED and its time bounds not over, and
\* the rest of the configuration as it was reviewed; what is left of that when
\* the claim is made, is the claim's own condition.  One caller claims the
\* intent and records who signed; the others look up.
Claim(p, i) ==
  /\ proc[p].pc = "idle"
  /\ serviceState = "ACTIVE"
  /\ intent[i].state = "PREPARED"
  /\ intent' = [intent EXCEPT ![i].state = "SUBMITTING"]
  /\ signed' = [signed EXCEPT ![i].outcome = "RECEIVED"]
  /\ Proceed(p, With("recording", i, "none", 0))
  /\ UNCHANGED <<ledger, chain, serviceState, service, refused>>

\* beforeServiceSubmission, which a deployment that retires refuses.
RecordService(p) ==
  /\ proc[p].pc = "recording"
  /\ IF serviceState = "ACTIVE"
     THEN /\ service' = [service EXCEPT ![proc[p].id].state = "PENDING"]
          /\ Proceed(p, [proc[p] EXCEPT !.pc = "sending"])
     ELSE Leave(p) /\ UNCHANGED service
  /\ UNCHANGED <<ledger, chain, serviceState, intent, signed, refused>>

\* The node takes it, refuses it (and the client writes that down), or the
\* answer is lost.
Send(p) ==
  /\ proc[p].pc = "sending"
  /\ \E answer \in {"ACCEPTED", "REJECTED", "UNRESOLVED"} :
        /\ Proceed(p, With("answered", proc[p].id, answer, 0))
        /\ service' = IF answer = "REJECTED" /\ service[proc[p].id].state = "PENDING"
                      THEN [service EXCEPT ![proc[p].id].state = "REJECTED"]
                      ELSE service
  /\ UNCHANGED <<ledger, chain, serviceState, intent, signed, refused>>

RecordAnswer(p) ==
  /\ proc[p].pc = "answered"
  /\ signed' = [signed EXCEPT ![proc[p].id] = Answered(@, proc[p].state, TRUE)]
  /\ Leave(p)
  /\ UNCHANGED <<ledger, chain, serviceState, intent, service, refused>>

-----------------------------------------------------------------------------
(* Finality: control-finality.ts, reconcileControlIntent, status lookups   *)

\* storedControlFinality, which trusts a receipt only of a signed control.
Stored(i) ==
  IF SignedFinal(i)
  THEN [state |-> IF signed[i].outcome = "CONFIRMED" THEN "SUCCESS" ELSE "FAILED",
        at |-> signed[i].at]
  ELSE IF signed[i].outcome # "none" /\ service[i].state \in Fates
  THEN service[i]
  ELSE [state |-> "none", at |-> 0]

\* retainedControlFinality
Retained(i) == [state |-> IF intent[i].state \in Fates THEN intent[i].state
                          ELSE "none",
                at |-> intent[i].at]

HasProof(proof) == proof.state # "none"

\* A repair begun now would find nothing to write.
Repaired(i) == /\ service[i].state # "PENDING"
               /\ signed[i].outcome = "none" \/ SignedFinal(i) \/ signed[i].expired

\* A caller finds the outcome: in the rows, from a replica or in an event; of
\* a control already settled, it repairs what a crash may have left behind.  A
\* look at a control that needs no repair changes nothing and is left out.
LookUp(p, i) ==
  /\ proc[p].pc = "idle"
  /\ Prepared(i)
  /\ \/ /\ HasProof(Stored(i)) /\ IsOpen(i)
        /\ Proceed(p, With("projecting", i, Stored(i).state, Stored(i).at))
     \/ /\ IsOpen(i) /\ Seen(i)
        /\ Proceed(p, With("projecting", i, chain[i].fate, chain[i].at))
     \/ /\ HasProof(Retained(i)) /\ ~Repaired(i)
        /\ Proceed(p, With("projecting", i, intent[i].state, intent[i].at))
     \/ /\ intent[i].state = "EXPIRED" /\ ~Repaired(i)
        /\ Proceed(p, With("rejecting", i, "EXPIRED", 0))
  /\ UNCHANGED <<ledger, chain, serviceState, rows>>

\* projectControlFinality: nothing on record may contradict the outcome.
NoConflict(i, state, at) ==
  /\ intent[i].state \in OpenStates \cup {state}
  /\ intent[i].at \in {0, at}
  /\ ~signed[i].expired
  /\ HasProof(Stored(i)) => Stored(i) = [state |-> state, at |-> at]
  /\ service[i].state \in Fates => service[i] = [state |-> state, at |-> at]

Project(p) ==
  /\ proc[p].pc = "projecting"
  /\ LET i  == proc[p].id
         is == [state |-> proc[p].state, at |-> proc[p].at]
     IN  IF NoConflict(i, is.state, is.at)
         THEN /\ intent' = [intent EXCEPT ![i].state = is.state, ![i].at = is.at]
              /\ service' = IF service[i].state = "PENDING"
                            THEN [service EXCEPT ![i] = is] ELSE service
              /\ Proceed(p, [proc[p] EXCEPT !.pc = "signing"])
         ELSE Leave(p) /\ UNCHANGED <<intent, service>>
  /\ UNCHANGED <<ledger, chain, serviceState, signed, refused>>

\* Mutant of Covers: the replica's oldest ledger is not asked for.
CoversTheEnd(i, oldest, latest) == latest > intent[i].maxTime

\* allowanceHasExpired: the answer NOT_FOUND proves it of a replica that has
\* every ledger from the preparation to one past the time bounds.
Covers(i, oldest, latest) ==
  oldest <= intent[i].prepared /\ latest > intent[i].maxTime

LookUpExpiry(p, i) ==
  /\ proc[p].pc = "idle"
  /\ IsOpen(i)
  /\ \E oldest \in Closed, latest \in Closed :
        /\ oldest <= latest
        /\ Covers(i, oldest, latest) /\ ~Found(i, oldest, latest)
  /\ Proceed(p, With("expiring", i, "EXPIRED", 0))
  /\ UNCHANGED <<ledger, chain, serviceState, rows>>

\* The write is fenced against a claim and against an outcome; the row decides
\* what is repaired next.
Expire(p) ==
  /\ proc[p].pc = "expiring"
  /\ LET i == proc[p].id
     IN  IF IsOpen(i)
         THEN /\ intent' = [intent EXCEPT ![i].state = "EXPIRED"]
              /\ Proceed(p, [proc[p] EXCEPT !.pc = "rejecting"])
         ELSE /\ Proceed(p, IF intent[i].state = "EXPIRED"
                            THEN [proc[p] EXCEPT !.pc = "rejecting"]
                            ELSE With("projecting", i, intent[i].state, intent[i].at))
              /\ UNCHANGED intent
  /\ UNCHANGED <<ledger, chain, serviceState, signed, service, refused>>

\* repairControlAdmission of an expired control.
RejectService(p) ==
  /\ proc[p].pc = "rejecting"
  /\ LET i == proc[p].id
     IN  service' = IF service[i].state = "PENDING"
                    THEN [service EXCEPT ![i].state = "REJECTED"] ELSE service
  /\ Proceed(p, [proc[p] EXCEPT !.pc = "signing"])
  /\ UNCHANGED <<ledger, chain, serviceState, intent, signed, refused>>

\* The outcome, which the intent's row must bear out.
SignOutcome(p) ==
  /\ proc[p].pc = "signing"
  /\ LET i == proc[p].id
     IN  signed' = IF intent[i].state # proc[p].state THEN signed
                   ELSE [signed EXCEPT ![i] =
                          IF proc[p].state = "EXPIRED" THEN ProvedExpired(@)
                          ELSE Concluded(@, proc[p].state, proc[p].at)]
  /\ Leave(p)
  /\ UNCHANGED <<ledger, chain, serviceState, intent, service, refused>>

-----------------------------------------------------------------------------
(* The crons                                                               *)

\* Mutant of Unfinished: only the intent's row is looked at.
IntentIsOpen(i) == signed[i].outcome # "none" /\ IsOpen(i)

\* reconcileControlIntents: the rows of an active deployment that hold a proof
\* another row lacks.
Unfinished(i) ==
  LET lacking == signed[i].outcome \in {"RECEIVED", "ACCEPTED", "UNRESOLVED",
                                        "REJECTED"}
  IN  /\ serviceState = "ACTIVE"
      /\ signed[i].outcome # "none"
      /\ \/ /\ SignedFinal(i)
            /\ \/ IsOpen(i)
               \/ intent[i].state = Stored(i).state /\ service[i].state = "PENDING"
         \/ intent[i].state \in Fates /\ lacking /\ ~signed[i].expired
         \/ /\ ~signed[i].expired
            /\ IsOpen(i) \/ (intent[i].state \in Fates /\ lacking)
            /\ service[i].state \in Fates

Proof(i) == IF HasProof(Stored(i)) THEN Stored(i) ELSE Retained(i)

CronSelects(p, i) ==
  /\ proc[p].pc = "idle"
  /\ Unfinished(i)
  /\ HasProof(Proof(i))
  /\ Proceed(p, With("projecting", i, Proof(i).state, Proof(i).at))
  /\ UNCHANGED <<ledger, chain, serviceState, rows>>

\* reconcileFinality of a retirement's tick: the pending rows of the service, the
\* signed rows it takes for unresolved, and the open intents.
AwaitsRetirement(i) ==
  \/ service[i].state = "PENDING"
  \/ signed[i].outcome \in {"RECEIVED", "ACCEPTED", "UNRESOLVED"}
  \/ IsOpen(i)

TickSelects(p, i) ==
  /\ serviceState = "RETIRING"
  /\ AwaitsRetirement(i)
  /\ LookUp(p, i) \/ LookUpExpiry(p, i)

\* reconcileTransactions: a read of the network for a signed row without an
\* outcome.  A miss older than the row is refused, so reading and recording
\* count as one step.
ObserveSigned(i) ==
  /\ serviceState = "ACTIVE"
  /\ Unsettled(signed[i])
  /\ \/ Seen(i) /\ signed' = [signed EXCEPT ![i] =
                               Concluded(@, chain[i].fate, chain[i].at)]
     \/ signed' = [signed EXCEPT ![i] = Answered(@, "UNRESOLVED", FALSE)]
  /\ UNCHANGED <<ledger, chain, serviceState, intent, service, refused, proc>>

\* The client's and the service cron's observation of a pending row.
ObserveService(i) ==
  /\ service[i].state = "PENDING"
  /\ Seen(i)
  /\ service' = [service EXCEPT ![i] = [state |-> chain[i].fate, at |-> chain[i].at]]
  /\ UNCHANGED <<ledger, chain, serviceState, intent, signed, refused, proc>>

-----------------------------------------------------------------------------
(* The environment                                                         *)

Retire ==
  /\ serviceState = "ACTIVE"
  /\ serviceState' = "RETIRING"
  /\ UNCHANGED <<ledger, chain, rows, proc>>

ProcNext(p) ==
  \/ \E k \in Keys \cup {NoKey} : BeginPreparation(p, k)
  \/ SimulationFails(p) \/ CheckTimeBounds(p) \/ CreateIntent(p)
  \/ \E i \in Intents : \/ Claim(p, i) \/ LookUp(p, i) \/ LookUpExpiry(p, i)
                        \/ CronSelects(p, i) \/ TickSelects(p, i)
  \/ RecordService(p) \/ Send(p) \/ RecordAnswer(p)
  \/ Project(p) \/ Expire(p) \/ RejectService(p) \/ SignOutcome(p)

CINext ==
  \/ \E p \in Procs : ProcNext(p)
  \/ \E i \in Intents : Land(i) \/ ObserveSigned(i) \/ ObserveService(i)
  \/ CloseLedger \/ Retire

CISpec == CIInit /\ [][CINext]_ciVars

-----------------------------------------------------------------------------
(* Properties                                                              *)

\* What the rows say is final is what the ledger says, and a control proved
\* expired has not landed and never will: whatever replica answers, and
\* whichever of the three rows the news reaches first.
ControlFinalityIsLedgers ==
  \A i \in Intents :
    /\ intent[i].state \in Fates
         => chain[i] = [fate |-> intent[i].state, at |-> intent[i].at]
    /\ SignedFinal(i) => chain[i] = [fate |-> Stored(i).state, at |-> signed[i].at]
    /\ service[i].state \in Fates
         => chain[i] = [fate |-> service[i].state, at |-> service[i].at]
    /\ intent[i].state = "EXPIRED" \/ signed[i].expired
         => ~Landed(i) /\ ~CanLand(i)

\* createControlIntent: the lane holds one control at a time.  Once another is
\* prepared, the transaction of the one before can have no effect any more,
\* even if its wallet broadcasts it now.
OneControlAtATime ==
  \A i, j \in Intents : i < j /\ Prepared(j) => ~CanLand(i)

\* assertPreparationKeyNotRefused, fenceRefusedPreparation: a key has one
\* answer.  A caller told that its request was refused for good never finds it
\* prepared after all.
KeyHasOneAnswer ==
  \A k \in Keys :
    /\ Cardinality(Holders(k)) <= 1
    /\ k \in refused => Holders(k) = {}

\* WalletControlState: uncertainty never clears a reservation and finality is
\* never taken back; nor is the signed row's.
ControlFinalityIsKept ==
  [][\A i \in Intents :
       /\ intent[i].state \in FinalStates
            => intent'[i].state = intent[i].state /\ intent'[i].at = intent[i].at
       /\ SignedFinal(i) => signed'[i].outcome = signed[i].outcome
                            /\ signed'[i].at = signed[i].at
       /\ signed[i].expired => signed'[i].expired]_ciVars

\* When any row of a submitted control holds the ledger's outcome and another
\* does not, somebody's query finds it and nothing on record stands against it,
\* so that the rows come to agree without the network and without a caller,
\* wherever the processes before have stopped: reconcileControlIntents while the
\* deployment is ACTIVE, the ticks of reconcileRetirement while it is RETIRING.
\* These leave out one row, the signed row of a control that the queue refused
\* and its wallet broadcast, once the other two hold the outcome.
Proved(i) == /\ signed[i].outcome # "none"
             /\ SignedFinal(i) \/ service[i].state \in Fates
                               \/ intent[i].state \in Fates
Agreed(i) == /\ intent[i].state \in Fates
             /\ SignedFinal(i)
             /\ service[i].state # "PENDING"

RefusalRemains(i) == /\ intent[i].state \in Fates
                     /\ signed[i].outcome = "REJECTED"
                     /\ service[i].state # "PENDING"

EvidenceIsFound ==
  \A i \in Intents :
    Proved(i) /\ ~Agreed(i)
      => /\ NoConflict(i, Proof(i).state, Proof(i).at)
         /\ IF serviceState = "ACTIVE" THEN Unfinished(i)
            ELSE AwaitsRetirement(i) \/ RefusalRemains(i)

\* A lane implements ControlLane: a control is alive from its preparation,
\* unless that came too late, until it lands or its time bounds are over, and
\* waits while its intent is open; the service closes when its deployment
\* retires.
FateOf(i) == CASE ~Prepared(i) -> "unborn"
               [] Landed(i)    -> chain[i].fate
               [] CanLand(i)   -> "alive"
               [] OTHER        -> "void"

AnswerOf(i) == IF IsOpen(i) THEN "waiting" ELSE intent[i].state

Lane == INSTANCE ControlLane
          WITH Controls  <- Intents,
               admitting <- serviceState = "ACTIVE",
               fate      <- [i \in Intents |-> FateOf(i)],
               answer    <- [i \in Intents |-> AnswerOf(i)]

LaneIsKept == Lane!LaneSpec

=============================================================================
