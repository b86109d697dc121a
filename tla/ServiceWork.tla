----------------------------- MODULE ServiceWork -----------------------------
(***************************************************************************)
(* The admission layer of lib/deployments/service-work.ts, with the        *)
(* network wrapper of lib/stellar/client.ts that calls it around every     *)
(* submission, and the ledger as its environment.                          *)
(*                                                                         *)
(* A SCOPE is one call of withDeploymentWork or withDeploymentBatch: the   *)
(* AsyncLocalStorage context of one request or one cron item.  Admission   *)
(* inserts one DeploymentWork row per deployment under that deployment's   *)
(* row lock; each submission of a transaction first commits one            *)
(* ServiceTransaction row per deployment under the same locks, and only    *)
(* then puts bytes on the wire.  A database transaction is one step here;  *)
(* two awaits are two steps, and a process may crash between them.         *)
(***************************************************************************)
CONSTANTS
  Deployments,    \* rows of the Deployment table
  Scopes,         \* admission scopes
  Batches,        \* the scopes of withDeploymentBatch (TTL maintenance)
  Settlement,     \* the scopes admitted with settlement = true
  Reconcilers,    \* the scopes of reconcileServiceTransactions: they only read
  Hashes,         \* transaction hashes
  Prepared,       \* pairs <<d, h>>: d is a template instance, h its preparedTxHash
  Reposted        \* hashes of wallet envelopes that several requests may post;
                  \* any other hash is handed to sendTransaction by one call only

ASSUME ServiceWorkAssumption ==
  /\ Batches \subseteq Scopes
  /\ Settlement \subseteq Scopes
  /\ Reconcilers \subseteq Scopes
  /\ Batches \cap Settlement = {}
  /\ Prepared \subseteq Deployments \X Hashes
  /\ Reposted \subseteq Hashes

VARIABLES
  serviceState,   \* serviceState[d]: Deployment.serviceState
  work,           \* work[s][d]: the DeploymentWork row scope s made for d
  tx,             \* tx[s][d][h]: the ServiceTransaction row (work of s for d, h)
  pc,             \* pc[s]: where the process that runs scope s is
  parts,          \* parts[s]: the deployments s was admitted for
  external,       \* external[s]: WorkScope.externalPending, in memory
  asked,          \* asked[s]: a tenant's relayer was asked, its answer unknown
  call,           \* call[s][h]: how far the call of s that concerns h has come
  wire,           \* pairs <<s, h>>: the bytes of h left the process of scope s
  net             \* net[h]: what the Stellar network has done with h

workVars == <<work, tx, pc, parts, external, asked, call, wire, net>>
swVars   == <<serviceState, work, tx, pc, parts, external, asked, call, wire, net>>

ServiceStates == {"ACTIVE", "RETIRING", "RETIRED"}
WorkStates    == {"none", "OPEN", "DONE", "BLOCKED"}
TxStates      == {"none", "PENDING", "SUCCESS", "FAILED", "REJECTED"}
ScopeStates   == {"idle", "running", "closing", "finished", "dead"}
CallStates    == {"idle", "recorded", "refused", "checking"}
NetStates     == {"absent", "queued", "SUCCESS", "FAILED", "expired"}
Final         == {"SUCCESS", "FAILED"}

SWTypeOK ==
  /\ serviceState \in [Deployments -> ServiceStates]
  /\ work \in [Scopes -> [Deployments -> WorkStates]]
  /\ tx \in [Scopes -> [Deployments -> [Hashes -> TxStates]]]
  /\ pc \in [Scopes -> ScopeStates]
  /\ parts \in [Scopes -> SUBSET Deployments]
  /\ external \in [Scopes -> BOOLEAN]
  /\ asked \in [Scopes -> BOOLEAN]
  /\ call \in [Scopes -> [Hashes -> CallStates]]
  /\ wire \subseteq Scopes \X Hashes
  /\ net \in [Hashes -> NetStates]

\* Nothing has been admitted and no transaction has a row.
NoWork ==
  /\ serviceState = [d \in Deployments |-> "ACTIVE"]
  /\ work = [s \in Scopes |-> [d \in Deployments |-> "none"]]
  /\ tx = [s \in Scopes |-> [d \in Deployments |-> [h \in Hashes |-> "none"]]]
  /\ pc = [s \in Scopes |-> "idle"]
  /\ parts = [s \in Scopes |-> {}]
  /\ external = [s \in Scopes |-> FALSE]
  /\ asked = [s \in Scopes |-> FALSE]
  /\ call = [s \in Scopes |-> [h \in Hashes |-> "idle"]]
  /\ wire = {}

SWInit == NoWork /\ net = [h \in Hashes |-> "absent"]

-----------------------------------------------------------------------------
(* Admission and completion *)

\* Promises the callback left behind still run in the scope's context after
\* the scope has finished; after a crash nothing of the scope runs.
Live(s) == pc[s] \in {"running", "closing", "finished"}

\* The rows a scope's admission opens, for the deployments in D.
Open(s, D) ==
  /\ work' = [work EXCEPT ![s] =
                [d \in Deployments |-> IF d \in D THEN "OPEN" ELSE @[d]]]
  /\ pc' = [pc EXCEPT ![s] = "running"]
  /\ parts' = [parts EXCEPT ![s] = D]
  /\ external' = [external EXCEPT ![s] = FALSE]

MayAdmit(s, d) == \/ serviceState[d] = "ACTIVE"
                  \/ serviceState[d] = "RETIRING" /\ s \in Settlement

AdmitWork(s, d) ==
  /\ s \notin Batches \cup Reconcilers
  /\ pc[s] = "idle"
  /\ MayAdmit(s, d)
  /\ Open(s, {d})
  /\ UNCHANGED <<serviceState, tx, asked, call, wire, net>>

\* Mutant of StillActive: the target list is trusted as it was loaded.
AsLoaded(D) == D

StillActive(D) == {d \in D : serviceState[d] = "ACTIVE"}

\* A batch admits the deployments of its target list that are still active.
AdmitBatch(s, D) ==
  /\ s \in Batches
  /\ pc[s] = "idle"
  /\ StillActive(D) # {}
  /\ Open(s, StillActive(D))
  /\ UNCHANGED <<serviceState, tx, asked, call, wire, net>>

\* Mutant of FinishState: completion forgets the opaque relayer.
FinishForgetsRelayer(s) == "DONE"

\* A scope that asked a relayer and has no hash from it ends BLOCKED.
FinishState(s) == IF external[s] /\ s \notin Batches THEN "BLOCKED" ELSE "DONE"

\* The first statement of the finally block: only a row that is still OPEN
\* changes, so an operator's fence survives the unwinding of a stale callback.
CloseWork(s) ==
  /\ pc[s] = "running"
  /\ \A h \in Hashes : call[s][h] # "checking"
  /\ work' = [work EXCEPT ![s] = [d \in Deployments |->
        IF d \in parts[s] /\ @[d] = "OPEN" THEN FinishState(s) ELSE @[d]]]
  /\ pc' = [pc EXCEPT ![s] = "closing"]
  /\ UNCHANGED <<serviceState, tx, parts, external, asked, call, wire, net>>

\* The second statement: a completed admission without transactions is deleted.
PruneWork(s) ==
  /\ pc[s] = "closing"
  /\ work' = [work EXCEPT ![s] = [d \in Deployments |->
        IF /\ d \in parts[s] /\ @[d] = "DONE"
           /\ ~external[s] \/ s \in Batches
           /\ \A h \in Hashes : tx[s][d][h] = "none"
        THEN "none" ELSE @[d]]]
  /\ pc' = [pc EXCEPT ![s] = "finished"]
  /\ UNCHANGED <<serviceState, tx, parts, external, asked, call, wire, net>>

\* A scope whose call is over and whose rows no guard tells from no row at
\* all, being absent or DONE and without transactions, stands for the next call.
Recycle(s) ==
  /\ pc[s] \in {"finished", "dead"}
  /\ \A d \in Deployments : /\ work[s][d] \in {"none", "DONE"}
                           /\ \A h \in Hashes : tx[s][d][h] = "none"
  /\ \A h \in Hashes : call[s][h] = "idle"
  /\ pc' = [pc EXCEPT ![s] = "idle"]
  /\ work' = [work EXCEPT ![s] = [d \in Deployments |-> "none"]]
  /\ parts' = [parts EXCEPT ![s] = {}]
  /\ external' = [external EXCEPT ![s] = FALSE]
  /\ UNCHANGED <<serviceState, tx, asked, call, wire, net>>

\* The process dies: everything it held in memory is gone, every row stays.
Crash(s) ==
  /\ Live(s)
  /\ pc' = [pc EXCEPT ![s] = "dead"]
  /\ call' = [call EXCEPT ![s] = [h \in Hashes |-> "idle"]]
  /\ UNCHANGED <<serviceState, work, tx, parts, external, asked, wire, net>>

-----------------------------------------------------------------------------
(* Submission: client.ts wraps sendTransaction in these three steps *)

Recorded(h) == \E s \in Scopes, d \in Deployments : tx[s][d][h] # "none"

\* What a scope hands to sendTransaction, once: an envelope other requests may
\* post too, or one that is new to the server.  A prepared instance's is posted
\* for that instance only, and may have been broadcast by whoever signed it.
IsPrepared(h) == \E d \in Deployments : <<d, h>> \in Prepared
Submittable(s, h) ==
  /\ \A d \in parts[s] : tx[s][d][h] = "none"
  /\ h \in Reposted \/ ~Recorded(h)
  /\ IF IsPrepared(h) THEN \A d \in parts[s] : <<d, h>> \in Prepared
                      ELSE h \in Reposted \/ net[h] = "absent"

\* Mutant of Participants: a batch records its first deployment only.
FirstParticipant(s) == {CHOOSE d \in parts[s] : TRUE}

Participants(s) == parts[s]

\* Mutant of AdmissionStands: the lifecycle is read again, the admission is not.
LifecycleStands(s) == \A d \in parts[s] : work[s][d] # "none" /\ MayAdmit(s, d)

AdmissionStands(s) == \A d \in parts[s] : work[s][d] = "OPEN" /\ MayAdmit(s, d)

BeforeServiceSubmission(s, h) ==
  /\ Live(s)
  /\ s \notin Reconcilers
  /\ call[s][h] = "idle"
  /\ Submittable(s, h)
  /\ AdmissionStands(s)
  /\ tx' = [tx EXCEPT ![s] = [d \in Deployments |->
        IF d \in Participants(s) THEN [@[d] EXCEPT ![h] = "PENDING"] ELSE @[d]]]
  /\ call' = [call EXCEPT ![s][h] = "recorded"]
  /\ UNCHANGED <<serviceState, work, pc, parts, external, asked, wire, net>>

\* Mutant of Deliver: a send whose answer is lost is taken for a refusal.
DeliverTakenForRefusal(s, h) ==
  /\ call[s][h] = "recorded"
  /\ net[h] # "expired"
  /\ net' = [net EXCEPT ![h] = IF @ = "absent" THEN "queued" ELSE @]
  /\ \E seen \in {"idle", "refused"} : call' = [call EXCEPT ![s][h] = seen]
  /\ wire' = wire \cup {<<s, h>>}
  /\ UNCHANGED <<serviceState, work, tx, pc, parts, external, asked>>

\* The node takes the envelope: PENDING, DUPLICATE, or the answer is lost.
Deliver(s, h) ==
  /\ call[s][h] = "recorded"
  /\ net[h] # "expired"
  /\ net' = [net EXCEPT ![h] = IF @ = "absent" THEN "queued" ELSE @]
  /\ call' = [call EXCEPT ![s][h] = "idle"]
  /\ wire' = wire \cup {<<s, h>>}
  /\ UNCHANGED <<serviceState, work, tx, pc, parts, external, asked>>

\* The request never reaches a node; the caller sees the same exception.
Lose(s, h) ==
  /\ call[s][h] = "recorded"
  /\ call' = [call EXCEPT ![s][h] = "idle"]
  /\ wire' = wire \cup {<<s, h>>}
  /\ UNCHANGED <<serviceState, work, tx, pc, parts, external, asked, net>>

\* The node answers ERROR or TRY_AGAIN_LATER: it did not take this envelope
\* now.  It says so, too, of one whose sequence number the ledger has already
\* used; of one it still has queued it says DUPLICATE.
Refuse(s, h) ==
  /\ call[s][h] = "recorded"
  /\ net[h] # "queued"
  /\ call' = [call EXCEPT ![s][h] = "refused"]
  /\ wire' = wire \cup {<<s, h>>}
  /\ UNCHANGED <<serviceState, work, tx, pc, parts, external, asked, net>>

\* The rows an observation changes: PENDING rows of the hash, of the deployments
\* in D, whichever scope made them; a refusal spares a template instance's hash.
Observed(D, h, state) ==
  tx' = [s \in Scopes |-> [d \in Deployments |->
    IF /\ d \in D
       /\ tx[s][d][h] = "PENDING"
       /\ state = "REJECTED" => <<d, h>> \notin Prepared
    THEN [tx[s][d] EXCEPT ![h] = state]
    ELSE tx[s][d]]]

\* Mutant of RefusalState: a refusal by the queue is written as a failure.
RefusalIsFailure == "FAILED"

RefusalState == "REJECTED"

ObserveRefusal(s, h) ==
  /\ call[s][h] = "refused"
  /\ Observed(parts[s], h, RefusalState)
  /\ call' = [call EXCEPT ![s][h] = "idle"]
  /\ UNCHANGED <<serviceState, work, pc, parts, external, asked, wire, net>>

Decided(h) == net[h] \in Final

\* getTransaction answered with a result and a ledger, in any live scope.
ObserveFinality(s, h) ==
  /\ Live(s)
  /\ s \notin Reconcilers
  /\ Decided(h)
  /\ Observed(parts[s], h, net[h])
  /\ UNCHANGED <<serviceState, work, pc, parts, external, asked, call, wire, net>>

-----------------------------------------------------------------------------
(* A tenant's own charge relayer: it signs and submits, and may not answer *)

BeforeExternalRelayer(s) ==
  /\ pc[s] = "running"
  /\ s \notin Batches \cup Reconcilers \cup Settlement
  /\ \A d \in parts[s] : serviceState[d] = "ACTIVE" /\ work[s][d] = "OPEN"
  /\ external' = [external EXCEPT ![s] = TRUE]
  /\ asked' = [asked EXCEPT ![s] = TRUE]
  /\ UNCHANGED <<serviceState, work, tx, pc, parts, call, wire, net>>

\* The relayer answers SUCCESS with the hash of the transaction it submitted.
ObserveExternalRelayer(s, h) ==
  /\ Live(s)
  /\ asked[s]
  /\ net[h] = "absent" /\ ~Recorded(h) /\ h \notin Reposted /\ ~IsPrepared(h)
  /\ tx' = [tx EXCEPT ![s] = [d \in Deployments |->
        IF d \in parts[s] THEN [@[d] EXCEPT ![h] = "PENDING"] ELSE @[d]]]
  /\ \E state \in {"queued", "SUCCESS"} : net' = [net EXCEPT ![h] = state]
  /\ external' = [external EXCEPT ![s] = FALSE]
  /\ asked' = [asked EXCEPT ![s] = FALSE]
  /\ UNCHANGED <<serviceState, work, pc, parts, call, wire>>

-----------------------------------------------------------------------------
(* reconcileServiceTransactions: one admitted read per due row *)

\* Mutant of Due: only the rows of work still in progress are read again.
DueWhileOpen(d, h) ==
  \E s \in Scopes : tx[s][d][h] = "PENDING" /\ work[s][d] = "OPEN"

Due(d, h) == \E s \in Scopes : tx[s][d][h] = "PENDING"

ReconcileAdmit(s, d, h) ==
  /\ s \in Reconcilers
  /\ pc[s] = "idle"
  /\ serviceState[d] = "ACTIVE"
  /\ Due(d, h)
  /\ Open(s, {d})
  /\ call' = [call EXCEPT ![s][h] = "checking"]
  /\ UNCHANGED <<serviceState, tx, asked, wire, net>>

ReconcileFound(s, h) ==
  /\ call[s][h] = "checking"
  /\ Decided(h)
  /\ Observed(parts[s], h, net[h])
  /\ call' = [call EXCEPT ![s][h] = "idle"]
  /\ UNCHANGED <<serviceState, work, pc, parts, external, asked, wire, net>>

\* NOT_FOUND, a timeout or an error leaves the row PENDING for a later tick.
ReconcileMissed(s, h) ==
  /\ call[s][h] = "checking"
  /\ call' = [call EXCEPT ![s][h] = "idle"]
  /\ UNCHANGED <<serviceState, work, tx, pc, parts, external, asked, wire, net>>

-----------------------------------------------------------------------------
(* The network, and the lifecycle as the database trigger permits it *)

Include(h) ==
  /\ net[h] = "queued"
  /\ \E result \in Final : net' = [net EXCEPT ![h] = result]
  /\ UNCHANGED <<serviceState, work, tx, pc, parts, external, asked, call, wire>>

\* The time bounds pass, or the sequence number is used: never to be included.
Expire(h) ==
  /\ net[h] \in {"absent", "queued"}
  /\ net' = [net EXCEPT ![h] = "expired"]
  /\ UNCHANGED <<serviceState, work, tx, pc, parts, external, asked, call, wire>>

\* Whoever signed a prepared template instance may broadcast it themselves.
Broadcast(h) ==
  /\ IsPrepared(h)
  /\ net[h] = "absent"
  /\ net' = [net EXCEPT ![h] = "queued"]
  /\ UNCHANGED <<serviceState, work, tx, pc, parts, external, asked, call, wire>>

Network == \E h \in Hashes : Include(h) \/ Expire(h) \/ Broadcast(h)

\* What the trigger deployment_retirement_irreversible leaves to any writer.
Lifecycle(d) ==
  /\ \/ serviceState[d] = "ACTIVE" /\ serviceState' = [serviceState EXCEPT ![d] = "RETIRING"]
     \/ serviceState[d] = "RETIRING" /\ serviceState' = [serviceState EXCEPT ![d] = "RETIRED"]
  /\ UNCHANGED workVars

-----------------------------------------------------------------------------
ScopeStep(s) ==
  \/ \E d \in Deployments : AdmitWork(s, d)
  \/ \E D \in SUBSET Deployments : AdmitBatch(s, D)
  \/ CloseWork(s)
  \/ PruneWork(s)
  \/ Recycle(s)
  \/ Crash(s)
  \/ BeforeExternalRelayer(s)
  \/ \E h \in Hashes : \/ BeforeServiceSubmission(s, h)
                       \/ Deliver(s, h)
                       \/ Lose(s, h)
                       \/ Refuse(s, h)
                       \/ ObserveRefusal(s, h)
                       \/ ObserveFinality(s, h)
                       \/ ObserveExternalRelayer(s, h)

ReconcilerStep(s) ==
  \E h \in Hashes : \/ \E d \in Deployments : ReconcileAdmit(s, d, h)
                    \/ ReconcileFound(s, h)
                    \/ ReconcileMissed(s, h)

SWNext ==
  \/ \E s \in Scopes : ScopeStep(s) \/ ReconcilerStep(s)
  \/ Network
  \/ \E d \in Deployments : Lifecycle(d)

SWSpec == SWInit /\ [][SWNext]_swVars

\* The minute scheduler keeps starting ticks, each tick ends, the due row that
\* waited longest is taken first, and the provider answers again and again.
SWFairness ==
  \A r \in Reconcilers :
    /\ WF_swVars(CloseWork(r))
    /\ WF_swVars(PruneWork(r))
    /\ WF_swVars(Recycle(r))
    /\ \A h \in Hashes : /\ SF_swVars(ReconcileFound(r, h))
                         /\ WF_swVars(ReconcileMissed(r, h))
                         /\ \A d \in Deployments : SF_swVars(ReconcileAdmit(r, d, h))

SWLiveSpec == SWSpec /\ SWFairness

-----------------------------------------------------------------------------
(* What the admission layer guarantees *)

(***************************************************************************)
(* Before any byte of a transaction leaves a process, every deployment the *)
(* scope was admitted for has a durable row that names its hash; neither   *)
(* completion, pruning, a crash nor a later call ever loses that row.      *)
(***************************************************************************)
RecordedBeforeWire ==
  \A s \in Scopes, h \in Hashes : <<s, h>> \in wire =>
    parts[s] # {} /\ \A d \in parts[s] : tx[s][d][h] # "none"

(***************************************************************************)
(* A row that says SUCCESS or FAILED says what the ledger says, whichever  *)
(* request, batch or tick wrote it.                                        *)
(***************************************************************************)
FinalityIsLedgers ==
  \A s \in Scopes, d \in Deployments, h \in Hashes :
    tx[s][d][h] \in Final => net[h] = tx[s][d][h]

(***************************************************************************)
(* A transaction that is queued or on the ledger is never lost from a      *)
(* deployment's books: some row of it is still PENDING, or holds its       *)
(* result.  This is what lets retirement trust the rows.                   *)
(***************************************************************************)
Tracked(d, h) ==
  (net[h] \in Final \cup {"queued"} /\ \E s \in Scopes : tx[s][d][h] # "none")
    => \E s \in Scopes : tx[s][d][h] \in {"PENDING", net[h]}

SingleUseTracked == \A d \in Deployments, h \in Hashes \ Reposted : Tracked(d, h)

(***************************************************************************)
(* "Provider absence, NOT_FOUND, read timeout, age and queue rejection     *)
(* never become terminal proof" (docs/deployment-retirement.md): the same, *)
(* of the envelopes that requests may post more than once.                 *)
(***************************************************************************)
RepostedTracked == \A d \in Deployments, h \in Reposted : Tracked(d, h)

(***************************************************************************)
(* While a tenant's relayer may hold an unreported transaction, the        *)
(* admission that asked it is not complete: OPEN after a crash, else       *)
(* BLOCKED.                                                                *)
(***************************************************************************)
OpaqueStaysOpen ==
  \A s \in Scopes : asked[s] => \A d \in parts[s] : work[s][d] \in {"OPEN", "BLOCKED"}

(***************************************************************************)
(* A callback that outlives its scope cannot submit: once a scope's row is *)
(* no longer OPEN, none of its transactions becomes PENDING, except the    *)
(* one a relayer reports while the row is BLOCKED on that report.          *)
(***************************************************************************)
ClosedWorkStaysClosed ==
  [][\A s \in Scopes, d \in Deployments, h \in Hashes :
       (pc[s] # "idle" /\ tx[s][d][h] # "PENDING" /\ tx'[s][d][h] = "PENDING")
         => \/ work[s][d] = "OPEN"
            \/ work[s][d] = "BLOCKED" /\ asked[s]]_swVars

(***************************************************************************)
(* A final result reaches the books of an active deployment without its    *)
(* owner: as long as some reconciler is not dead, a PENDING row of a hash  *)
(* the ledger has decided is eventually resolved.                          *)
(***************************************************************************)
PendingIsProjected ==
  \A s \in Scopes, d \in Deployments, h \in Hashes :
    (tx[s][d][h] = "PENDING" /\ net[h] \in Final)
      ~> \/ tx[s][d][h] # "PENDING"
         \/ serviceState[d] # "ACTIVE"
         \/ \A r \in Reconcilers : pc[r] = "dead"
=============================================================================
