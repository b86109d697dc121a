# TLA+ verification of Paiflow's service core

Paiflow (`src/`) lets an owner compose payment flows, deploys them as Soroban
contracts on Stellar and then serves them: it submits transactions with a
relayer account, runs crons that claim, release, charge and extend, ingests the
contracts' events, answers an API, and can *retire* a deployment. A Next.js
application runs in several serverless processes. They share a PostgreSQL
database and sometimes Redis, and nothing else; the ledger and its RPC nodes
answer late, twice, or not at all. The modules here model that core: which
transaction may leave, what the books say about it, what may be concluded from
silence, and what the crons and the contracts they serve do to each other.

Paths below are relative to the repository (`src/` in the map of
`PROJECT.json`); line numbers are in the map.

## 1. Inventory

### Parts that are modelled

**Admitted service work** (`lib/deployments/service-work.ts`, wrapper
`lib/stellar/client.ts`).
State: `Deployment.serviceState`, `DeploymentWork` rows (OPEN, DONE, BLOCKED),
`ServiceTransaction` rows (PENDING, SUCCESS, FAILED, REJECTED), and the
`AsyncLocalStorage` scope of a request (its deployments, `externalPending`).
Operations: admit one deployment or a batch; record a hash before its bytes
leave; observe a refusal, a finality, or a tenant relayer's answer; complete and
prune. Everything that sends goes through the wrapper, which calls these hooks.
Hard: a send throws after the node took the envelope; the process dies between
record, send and answer; work outlives its scope; retirement starts meanwhile.
Correct when: a row is durable before bytes leave, it becomes final only with
the ledger, opaque work never looks complete.

**Service-transaction projection** (`lib/stellar/reconcile-service-transactions.ts`).
A minute cron that takes due PENDING rows, reads the RPC and projects outcomes.
Correct when: no row whose transaction is decided stays PENDING.

**Retirement** (`lib/deployments/retirement.ts`, the owner's route
`app/api/deployments/[id]/retirement`, the operator's route
`app/api/admin/deployments/[id]/settlement`).
State: `serviceState`, `retirementCutoffLedger`, `retirementReconciledAt`,
`retirementCoverageGap`, `retirementBlocker`, plus everything above. A request
makes the deployment RETIRING; ticks (cron and the owner's POST) read pending
hashes, fix a cutoff once nothing is pending, poll events through it, and retire
under the admission lock when nothing blocks. Operators attest what no provider
can answer. Hard: ticks overlap, die between stages, work with stale counts.
Correct when: RETIRED means settled, for good, with every event read.

**Wallet control intents** (`lib/api/v1/control-intent.ts`,
`execution-intent.ts`, `lib/deployments/control-finality.ts`,
`reconcile-control-intents.ts`, `lib/mutations/`).
State: a `WalletControlIntent` row per control (PREPARED, SUBMITTING, SUCCESS,
FAILED, EXPIRED), the signed and the service row of its transaction, a refusal
row per Idempotency-Key. Operations: prepare under the lane's lock, refuse,
submit, wait, look up, prove expiry, and the repairs of two crons. Hard: a
wallet may post its envelope by itself; three rows are written one after
another; replicas lag or have pruned; an EXPIRED intent must be proved dead.
Correct when: one control at a time has an effect to come, one answer per key,
no row contradicts the ledger, a proof that one row holds reaches the others.

**Transaction outcomes** (`lib/analytics/outcomes.ts`,
`lib/stellar/reconcile-transactions.ts`).
State: the `SignedTransaction` row. Reads, sends and repairs report to it in any
order; `canTransition` decides which news it takes. Correct when: the outcome is
the ledger's, and stronger evidence is never lost to weaker.

**Deployment submit and confirm** (`lib/deployments/submit.ts`, `confirm.ts`,
`reconcile-owner-deployment.ts`, the crons `reconcile-transactions` and
`finalize-deployments`).
State: the deployment's status, hash and failure, its signed row, its first
claim job. A request claims the row, sends, waits; the cron, the owner's reads
and the expiry of a template instance settle what it leaves. Hard: five writers
race for the confirmation; a send's answer is lost; the claim is handed back.
Correct when: CONFIRMED and FAILED are true, a claim is handed back only if no
node took the envelope, the first job is scheduled once.

**Event polling** (`lib/stellar/events.ts`).
State: `ContractEvent` rows, one `EventCursor` row, the coverage columns. Polls
of the cron, of the dashboard, of the API and of a retirement run at once over
groups of contracts, page by page, while the RPC forgets old ledgers. Correct
when: the cursor passes nothing that is not stored (or recorded as lost).

**Relayer channels** (`lib/stellar/relayer-channels.ts`, users `trigger.ts`,
`deploy.ts`, `ttl-maintenance.ts`, `relayer.ts`).
State, in the memory of one process: busy and disabled flags, sleepers, the
relayer's own promise chain, one tracked pending hash per source. Correct when:
one call per source, no sequence number shared by two live envelopes, no lost
wake-up.

**Keyed webhooks** (`lib/webhook-idempotency.ts`, hooks in `trigger.ts`, lookup
`lib/api/v1/transaction-status.ts`).
State: one `WebhookAttempt` row per key, its audit row. Calls of one key race on
a unique constraint. Correct when: one key pays once, and no answer is untrue.

**Streamer jobs** (`lib/streamer-jobs.ts`,
`app/api/cron/process-streamer-jobs`) over **the streaming contract**
(`contracts/actions/streamer`).
State: `StreamerClaimJob` rows; the contract's claimed amount, pause flag, pause
start and pause offset. A job claims at one milestone and makes the next job.
Hard: the next job is looked for and then created; runs hold no lease; the
scheduling throws after the job's row was written, and a catch rewrites the row;
a run dies with a job RUNNING; pauses overlap the window's edges. Correct when:
no error inside the try breaks the chain of jobs, and the contract pays what the
time the stream really ran has earned.

**Timelock release** (`lib/timelock-release.ts`, `timelock-early-release.ts`,
`contracts/conditions/timelock*`).
State: a `TimelockRelease` row with a lease, a next probe and the ledger it is
settled at; the contract's balance. Hard: leases lapse under a run, a release
lands after its run is gone, the parent refills the lock in the very ledger of
its release. Correct when: no funds are forgotten.

**Cron lease** (`lib/cron/lease.ts`) and **subscription auto-charge**
(`app/api/cron/auto-charge-subscriptions`, `lib/subscription/`,
`contracts/triggers/subscription`).
State: one Redis key; the charging fields and the revision of a `Deployment`
row; the contract's next charge, cancellation and relayer. Hard: the lease fails
open and expires under its holder, the owner changes the automation under a run,
others may charge too. Correct when: no due period is hidden, a run never undoes
the owner's later choice.

**Fee budget** (`lib/stellar/fee-budget.ts`).
State: a row of the amounts committed, a row per hash. Correct when: concurrent
reservations stay within the limit first approved, and one hash is sent once.

### Parts that are not modelled

| Part | Why |
|---|---|
| Contracts: payer, splitter, multisig, router, the other triggers, the factory | each call is one transfer, one comparison or one count; nothing runs between two steps of a contract, and unit tests reach what they do |
| Rate limits and wait slots | each is one atomic Redis script whose counters expire by themselves |
| Notifications | e-mail after the fact; nothing depends on it |
| Accounts and API tokens | checks of a session or a token, without a protocol |
| Flow templates and instances | versioned rows behind database constraints, mostly validation; an instance's deployment is in `DeploymentFinality` |
| Hosted execution | thin endpoints over admitted service work |
| SDK, user interface, OpenAPI document, read caches | presentation |

The last row is most of the repository's lines: forms, pages, generated
descriptions, and validation of one request at a time. There is little in it for
a model checker, so the map covers a small share of the repository's lines and
most of its protocol.

### How the parts interact

```
 requests, crons ──admit──▶ service work ──record, send, observe──▶ client.ts ──▶ RPC / ledger
      │                        ▲      ▲                                ▲
      │            settlement  │      │ projection cron                │ channel per call
      ▼                        │      │                                │
 retirement tick ──────────────┘   ServiceTransaction rows      relayer channels
      │  bounded poll                                                  ▲
      ▼                                                                │
 event polling ──▶ ContractEvent, EventCursor           keyed webhooks ┘  ──▶ WebhookAttempt
                        │ RECEIVE event wakes
                        ▼
                   timelock row ◀── release cron, early release ──▶ timelock contract

 wallet ──▶ control intents ──┐
 owner  ──▶ deployment ───────┼──▶ SignedTransaction (TransactionOutcomes) ◀── reconcile cron
                 │ confirm    └──▶ ServiceTransaction
                 ▼
            first streamer job ──▶ streamer jobs ──claims──▶ streaming contract
 cron lease ──▶ subscription charges ──▶ subscription contract
 TTL maintenance ──▶ fee budget
```

Retirement waits for admitted work, for wallet intents and signed rows, for the
deploying transaction and for running claims; the last three are *obligations*
(`finality`, `deployment`, `claim`) of `Retirement`, discharged by steps that
stand for `ControlIntents`, `DeploymentFinality` and `StreamerJobs`. What the
first obligation relies on, that a retiring deployment without an open intent
sees no control land any more, is proved of `ControlIntents`
(`RetirementEndsTheLane`).

## 2. Modules

| Module | Models | Theorems |
|---|---|---|
| `Drain` | abstract: what retirement promises | `PromiseProofs` |
| `ControlLane` | abstract: what the controls of a lane promise | `PromiseProofs` |
| `ServiceWork` | admission, records, sends, observations, projection cron, ledger | `ServiceWorkProofs` |
| `Retirement` | EXTENDS `ServiceWork`: request, ticks, operator | `RetirementProofs` |
| `TransactionOutcomes` | the signed row and the news it accepts; operators only | with its users |
| `ControlIntents` | EXTENDS `TransactionOutcomes`: controls of one lane | `ControlIntentsProofs` |
| `DeploymentFinality` | EXTENDS `TransactionOutcomes`: one prepared deployment | `SubmissionProofs` |
| `KeyedPayout` | abstract: what a key promises its callers | `PromiseProofs` |
| `WebhookIdempotency` | calls of one key, attempt row, lookup | `SubmissionProofs` |
| `EventCoverage` | polls, cursor, retention, coverage | `EventCoverageProofs` |
| `RelayerChannels` | pool, lane, tracking, life of a transaction | `RelayerChannelsProofs` |
| `Streamer` | the streaming contract | `AutomationProofs` |
| `StreamerJobs` | EXTENDS `Streamer`: job rows and cron runs | `AutomationProofs` |
| `TimelockRelease` | a timelock, its row, cron and early release | `AutomationProofs` |
| `CronLease` | the Redis lease | `AutomationProofs` |
| `SubscriptionCharge` | EXTENDS `CronLease`: a subscription and its charges | `AutomationProofs` |
| `FeeBudget` | reservations by compare-and-swap | `AutomationProofs` |
| `MC*` | constants and symmetry sets of the TLC runs | |

`MCAutomation` and `MCSubmissions` are sums: they put components that share no
state into one run, and a behaviour is about one of them.

### From code to state and actions

Common to all: a database transaction (or one guarded `updateMany`) is one step;
two awaits are two steps, and a process may die between them. A PostgreSQL row
lock taken in the transaction is what makes it one step. A hash is the identity
of a transaction. The ledger is an environment: it includes a queued
transaction, or lets its time bound pass, and does either once. Where the
envelope is signed by a wallet, its holder may send it himself at any time.

**ServiceWork.** A scope is one `withDeploymentWork`/`withDeploymentBatch`
call. `AdmitWork`/`AdmitBatch` (filter under the locks: `StillActive`);
`BeforeServiceSubmission` writes the rows, `Deliver`/`Lose`/`Refuse` are the
three things `sendTransaction` may come to (`Lose`: it throws, the node may
have the envelope); `ObserveRefusal`, `ObserveFinality`,
`BeforeExternalRelayer`, `ObserveExternalRelayer` are the hooks after it;
`CloseWork` and `PruneWork` are the two statements of the `finally` block;
`Crash` stops the process anywhere. `ReconcileAdmit/Found/Missed` are the
projection cron. `Include`, `Expire`, `Broadcast` are the network; `Broadcast`
is a template owner who sends the prepared transaction himself. Scopes are
recycled only when their rows can no longer be told from a fresh scope's, so a
finite set stands for endless requests.

**Retirement.** `at[t]` is the place of a tick in `reconcileRetirement`, one value per
await that matters; `TickObserve`/`TickDischarge`/`TickMiss` are the reads of
`reconcileFinality`, `CountUnfinished`, `ReadLatestLedger`, `StoreCutoff` the
three parts of fixing the cutoff, `TickPoll`/`PollThrows`/`RecordCoverage` the
bounded poll, `Conclude` the locked decision, `Throw`/`Catch`/`TickCrash` the
error path and a death. `FenceWork`, `VerifyTransaction`, `VerifyObligation`,
`VerifyEvents`, `VerifyWork` are the operator's five attestations with the
route's guards. The cutoff ledger is represented by the hashes included
through it (`through`) and, for the property only, those the network had
included by then and the node that answered had not seen (`unseen`): any node
may be behind any other. `Legacy` is the row of the deploying transaction of a deployment older
than admissions. Two ticks may work on one deployment: the owner's POST takes no
lease, and the cron's lease fails open.

**ControlIntents.** `BeginPreparation`, `SimulationFails`, `CheckTimeBounds`,
`CreateIntent` are a prepare request: the key's refusal, the time bounds by the
server's clock, then the lane's lock and the insert, which does not look at the
bounds again, so that an intent may be void when it is created;
`Claim`, `RecordService`, `Send`, `RecordAnswer` a submit;
`LookUp`/`LookUpExpiry`, `Project`, `Expire`, `RejectService`, `SignOutcome`
the wait and the status lookup, which write the three rows one after another;
`CronSelects` the control reconciler, which asks for an ACTIVE deployment,
`TickSelects` the three queries of a retirement's tick (`reconcileFinality`),
`ObserveSigned`, `ObserveService` the two other crons, `Retire` the deployment's
end. `Land` and `CloseLedger` are the
chain. An RPC read sees the ledgers from `oldest` to `latest`, both chosen at
each read, up to the closed ones.

**ControlLane** is what all this is for: a control is alive from its
preparation, unless that came too late, until it lands or is void; the service
answers it once, with its fate, and prepares the next when none waits.
`LaneIsKept` of `ControlIntents` maps a control's fate to the chain and its time
bounds (`FateOf`), its answer to the state of its intent (`AnswerOf`), and the
closing of the lane to retirement.
Signed rows, service rows, processes, replicas and keys do not appear.

**DeploymentFinality.** `ClaimDeployment`, `SendEnvelope`, `RecordSend`,
`HandBack`, `PollFinality`, `WriteFailure` are a submit request;
`Confirm`, `ScheduleFirst`, `RecordOutcome` what any of the confirmers does next
(the guarded `updateMany` decides who wins); `SelectRow`, `CronFinds`,
`CronMisses` the cron; `TimeOut` the sweep that fails a SUBMITTED row without a
signed row;
`OwnerLooks`, `OwnerFinds`, `OwnerMisses`, `ClaimExternal`, `ProveExpiry`,
`ExpirePrepared` the owner's reads and the reconciliation of a template
instance; `DieAt` a death between any two. `LandEnvelope`, `CloseLedger` are the
chain. `source` tells an ordinary deployment from a template's, whose answers
are taken for uncertain.

**EventCoverage.** `scan[p]` holds the local variables of
`pollEventsForWithOutcomeInner` and `pollEventsWithStartLedger`. `Begin` reads
the cursor; `OpenHeld`/`OpenGap` compare the start with retention; `ReadPage`
reads and stores one page and does the page arithmetic (`PageCovers`, `Safe`,
`CutoffReached`, `TipReached`, `MayPageOn`); `EndGroup` takes the minimum over
groups; `UpdateCursor`/`CreateCursor` are the two statements of
`advanceEventCursor`, with the unique violation of two creators. `IngestFails`,
`ReadFails`, `PageExpired`, `Die` are the failures. `Retire`, `FixCutoff`,
`AttestCoverage` and `Conclude` are what the retirement does to the columns the
polls share: `Begin` admits an ordinary poll only while the deployment is ACTIVE,
and a bounded one only for a RETIRING deployment that has a cutoff and neither
coverage nor a gap (`LacksCoverage`); `Report` is what the tick writes of a
bounded poll. An ordinary poll is admitted work, so neither `FixCutoff` nor
`Conclude` happens while one is open.

**RelayerChannels.** `Take`, `FallBack`, `Sleep`, `Usable`, `Unusable`,
`Enable`, `Leave` are `acquire`, the account check, the return of a disabled
channel and `release`; `AtBarrier` is the promise chain. `PendingSettled` and
`PendingUnknown` are the wait for a tracked hash. `Build`, `SendQueued`,
`SendUnanswered`, `SendRefused`, `PollFinal`, `PollTimesOut` are the life of the
caller's transaction; `Kind[c]` says when that caller tracks it (deployments and
TTL rent before the send, webhooks when queued, claims never).

**KeyedPayout** is what an idempotency key is for: one payout that leaves at
most once (`Send`) or never will (`Renounce`), and a caller is told (`Tell`) only
what it bears out then and ever after (`Tellable`): SUCCESS and FAILED are the
ledger's, PENDING has been taken by a node, REJECTED will never be paid. UNKNOWN
commits to nothing. `AnswersAgree` and `WordIsKept` are what a caller gains by
it: no two are told opposites, and one who was refused may pay another way.
`WebhookIdempotency!Promise` maps it: the payout is the fate of the key's one
transaction, `void` once a node refused it or the row gave it up.

**WebhookIdempotency.** `Claim` is the insert on the unique constraint;
`BeforeSend`/`AfterSend` are the hooks, each possibly committed with its
acknowledgement lost; `ReadInterrupted`/`GiveUp` are the catch; `Close` is the
last read and the answer. Other calls `Conflict` or `Repeat`: `Look` is
`getTransactionStatus` through the RPC answer, `Record` the guarded write of an
outcome, `Reread` the second reading of the rows, `Latest` the answer.

**Streamer, StreamerJobs.** The contract's entry points are `Claim`,
`CancelStream`, `RetrieveUnvested`, `Pause`, `Unpause`, with `Fund` for what
arrives and `Tick` for time. `active` is a history variable: the seconds the
stream really ran. `PercentageShare` has the two roundings of the function of
that name, and the last recipient takes what the others leave (`ShareOf`); the
constructor's check that the shares are 10000 in sum is `SharesAssumption`. A
run is `SelectDueJobs`, then per job `TakeJob` (the guarded
claim), `ReadAvailable`, `SendClaim`, `LandClaim`, `SeeSuccess`,
`SubmissionFails`, `Conclude` (the write of the end), `FindNext`/`CreateNext` (the
hand-over, two statements). `AttemptThrows` and `SchedulingThrows` are the awaits
of the try that throw, the insert of the next job before or after it took effect;
`CatchError` is the catch, which writes the row again and, once `caught`,
schedules for itself. `BeginScheduling` is the confirmation or the backfill
script, `RequestRetirement` what may come between, and `RunIsLost` the death of
the process or an error where nothing catches it, the catch included.

**TimelockRelease.** `Discover`, `SelectDue`, `ClaimRow`, `Simulate`,
`SendOrDrop`, `LandRelease`/`LandStray`, `SeeReleased`, `Settle`, `Abandon`,
`Fail`, `RecordFailure`, `Die` are a run of the cron. Only `ClaimRow` is a
compare-and-swap on the lease: the write a run ends with (`Update`) is not fenced
by the lease it took, and one that comes late is let through, as in the code;
`AskEarly`, `SimulateEarly`, `AnswerEarly` the early release.
`Deposit`, `AdminRelease`, `CloseLedger`, `IngestEvents` are the world. A
simulation reads the ledger before the open one, so chain time trails the clock.

**CronLease, SubscriptionCharge.** `TakeLease`, `RunUnguarded`, `Lapse`,
`DropLease` (by token), `LoseRun`; a run is `BeginRun`, `SelectSubscription`,
`ReadState`, `LandCharge`/`BelieveTenant`/`RefuseUrl`, `CountCharge`, `GiveUp`,
`Reread`, `Refresh` (the write guarded by the revision), `EndRun`. `Configure`
is the owner's choice; `OthersCharge`, `Subscribe`, `Unsubscribe`, `Approve`,
`SetRelayer` are calls of the contract. The revision is represented by the set
`current` of runs whose reading is still the row's.

**FeeBudget.** `Ask`, `ReadBudget`, `Swap`, `SwapFails`, `SwapUnanswered`.

## 3. Runs

`tlc -config X.cfg M`. Every property of a passing run has a mutant of a code
definition that breaks it under the same configuration (`PROJECT.json`
"mutants"; the mutated operators stand beside the originals).

| Run (configuration) | Properties | Distinct states | Shows |
|---|---|---|---|
| `service_work` (`MCServiceWork.cfg`) | `RecordedBeforeWire`, `FinalityIsLedgers`, `SingleUseTracked`, `OpaqueStaysOpen`, `ClosedWorkStaysClosed` | 2.2 M | A single-deployment scope and a TTL batch admit, submit, lose answers, crash and finish on two deployments, one of them a template instance whose prepared transaction others may broadcast. |
| `service_work_live` (`MCServiceWorkLive.cfg`) | `PendingIsProjected` | 38 k | Two reconciler ticks that may crash, and a request that may crash, leave no decided hash PENDING on an active deployment. |
| `service_work_repost` (`MCServiceWorkRepost.cfg`) *expects a violation* | `RepostedTracked` | stops at the error | Two requests post one wallet envelope: the refusal that one of them saw overwrites the pending row of the other, whose bytes then land. |
| `retirement` (`MCRetirement.cfg`) | `RetiredIsSettled`, `RetiredLeavesNothingInFlight`, `CutoffCoversSubmissions` | 934 k | A request and a tick, either of which may crash, an operator and a deployment older than the bookkeeping, any node behind any other: retirement settles, and fixes its cutoff only when all that it submitted and will ever land has landed. |
| `retirement_overlap` (`MCRetirementOverlap.cfg`) | `RetirementIsIrrevocable`, `DrainSpec` | 682 k | A TTL batch is at work while its deployment retires; the owner's tick and the cron's work on one deployment at once and never undo or overtake each other. |
| `retirement_live` (`MCRetirementLive.cfg`) | `RetirementCompletes` | 454 k | A requested retirement completes after crashes and outages, with a claim outstanding, a legacy hash and a prepared transaction others may broadcast, unless a recorded transaction expired unseen. |
| `automation` (`MCAutomation.cfg`) | `StreamPaysAccrued`, `StreamKeepsAJob`, `SettledBeforeFunded`, `FundsAreRemembered`, `LeaseIsExclusive`, `DueIsNeverHidden`, `OwnerChoiceStands`, `ReservedWithinBudget` | 2.8 M | What works by itself on a deployment: two runs race on a stream's claim jobs, on a timelock's row and on a subscription, three on a fee budget, with errors at every await, crashes, lapsed leases, stale readings and answers that never come. |
| `control_intents` (`MCControlIntents.cfg`) | `ControlFinalityIsLedgers`, `OneControlAtATime`, `KeyHasOneAnswer`, `EvidenceIsFound`, `LaneIsKept` | 1.27 M | Two processes prepare, submit, look up and reconcile two controls of one lane, under one key or none, while the deployment is active or retires: replicas lag or have pruned, the time bounds are checked before the lock is taken, the wallet may broadcast by itself, answers are lost, and any process may stop between two writes. |
| `event_coverage` (`MCEventCoverage.cfg`) | `CursorCovers`, `CutoffCovered`, `CoverageOnlyGrows`, `EventsArrive` | 44 k | Two ordinary polls, and after the request to retire two bounded ones, interleave over two groups of contracts, pages that stop inside a ledger, retention that overtakes them, failed reads, failed inserts, deaths and an operator's attestation. Every event of an active deployment, and every one through a retirement's cutoff, is stored in the end, or the hole it was lost in is on record or vouched for. |
| `relayer_channels` (`MCRelayerChannels.cfg`) | `ChannelExclusive`, `SharedOnlyUntracked`, `NoStrandedWaiter`, `CallsEnd` | 37 k | A deployment, a keyed webhook and a streamer claim share two channels and the relayer's own lane: channels run out of funds and come back, sends lose their answers, waits time out. No channel has two users, a sequence number is shared only with the live envelope of a call that is over and left nothing tracked, no sleeper is stranded, and every call ends. |
| `relayer_channels_claim` (`MCRelayerChannelsClaim.cfg`) *expects a violation* | `SequenceNotShared` | stops at the error | A streamer claim that stops waiting after thirty seconds leaves nothing behind on its channel, and a deployment builds on the sequence number of the claim's live envelope. |
| `submissions` (`MCSubmissions.cfg`) | `PaidAtMostOnce`, `RefusalIsHonest`, `DeploymentIsTrue`, `HandedBackIsUntaken`, `FirstClaimAskedOnce`, `PayoutIsAsPromised`, `SuccessIsConfirmed` | 233 k | Four calls of one webhook key race to own the attempt, send, lose answers, die and look the outcome up, and together implement `KeyedPayout`; and two requests, the crons and the owner submit, confirm, hand back, give up or expire one deployment, whose envelope others may broadcast. |

All runs set `CHECK_DEADLOCK FALSE`: requests end, nobody has to send another,
and a finished call, a retired deployment, a drained network stop. Where
somebody *must* go on, a liveness run says so.

### Why these bounds

* *service_work*: two deployments are the least that tell a batch from a single
  admission; two scopes the least that race; two hashes let one be a template's
  prepared transaction that outsiders broadcast.
* *retirement*: with one deployment all shared state is between a request, a
  tick and the operator, with the obligations `finality` and `deployment` and a
  legacy hash; `retirement_overlap` has a batch and two ticks;
  `retirement_live` has the obligation `claim` and a prepared hash. One run with everything does not
  finish, and the theorems of section 5 cover any number.
* *control_intents*: two intents are the least that can share a lane or a key,
  two processes the least that race, validity one and four ledgers let the first
  intent land, lapse and be pruned while the second is prepared.
* *submissions*: of a key, an owner, two repetitions that race each other's
  reads and a call with other arguments; of a deployment, two requests, one
  cron, one owner's read and one death, and ledgers enough to include the
  envelope in time, let it expire, and read history past it.
* *event_coverage*: page size one splits the two events of ledger 1 over
  pages; ledger 2 has one beyond the cutoff; a window of one ledger makes a scan
  of both take two calls; the silent second group may get further than the first;
  three pages allow a scan to stop by allowance, by cutoff and by tip; two pollers
  are two ordinary polls while the deployment is active, the least that race for
  the cursor, and two ticks when it retires. `MaxPages *
  PageLimit` above the fullest ledger is `CoverageAssumption`, without which the
  code reads the same pages forever (`events.ts:868`).
* *relayer_channels*: three calls on two channels give a holder of each
  channel and a sleeper, and two sleepers when a channel is set aside under its
  holder: the shortest chain in which a wake must be passed on. Their kinds are
  the three ways of tracking: before the send (`early`), when it was queued or its
  answer is lost (`keyed`), and not at all (`never`).
* *automation*: a stream with two jobs, one at its end, and two runs; a timelock
  funded twice around its unlock time under two runs; a subscription of two
  periods, which one run may catch up on, and one choice of the owner; three
  reservations of fees 1 and 2 under limits that do and do not cover them all.
* *service_work_live*, *retirement_live*: one deployment, and every actor that may
  leave work behind; two projection ticks, so that one may die with a row.

### Fairness

* `SWFairness`: the scheduler keeps starting projection ticks, a started tick
  ends, the RPC's answers come again and again (strong fairness of reading each
  hash: `ORDER BY` next due time makes the row that waited longest first).
  Requests have no fairness: they may die.
* `RFairness`: ticks start (minute cron) and go on; troubles of ticks (throws,
  deaths, misses of an answer that exists) stop happening at some time; requests
  end; the ledger includes or expires what it holds (time bounds); the operator
  deals with dead workers, events and claims in any order. Nobody need retire.
* `ECFairness`: the cron polls an ACTIVE deployment again and again, and the tick
  of a retirement one that lacks coverage (both through `Begin`'s guard, so no
  poll is owed to a deployment that the code would skip); a poll that began goes
  on (RPC calls time out); outages end for good. Nobody need retire, fix a cutoff,
  attest or conclude. The cron drops the deployments of sandbox owners after a
  while (`cronPollableDeploymentWhere`): the fairness speaks of the others.
* `RCFairness`: a call that began goes on, and channels return from
  being set aside finitely often. The second is the environment's: an account
  that is funded and emptied for ever could keep a sleeper from its turn.
* `DFFairness`: ledgers close; the cron is called every minute and ends what it
  began; strong fairness of a read that finds, since a provider that is asked
  again and again answers at some time. Requests and the owner's reads have none:
  `SuccessIsConfirmed` holds without them.

## 4. Findings

Both are disagreements between the code and a comment or document; each has a
run in which TLC shows it.

1. `service_work_repost`. `docs/deployment-retirement.md` says queue rejection
   never becomes terminal proof and records remain PENDING. `client.ts` writes
   REJECTED, which is terminal, and `observe` writes it on every PENDING row of
   that hash. If two requests post one wallet envelope, the refusal of the first
   closes the row of the second, whose bytes then land untracked. For hashes
   that one call sends, `SingleUseTracked` holds.
2. `relayer_channels_claim`. A comment in `deploy.ts` promises that a deploy
   racing a cron never shares a source sequence number. The claim in
   `relayer.ts` tracks nothing, polls thirty seconds and lets its channel go,
   with an envelope valid for three minutes; charges and releases do the same.
   For the rest the promise holds: a number is only ever shared with the envelope
   of a call that is over and left nothing tracked (`SharedOnlyUntracked`, proved
   for every mix of kinds as `SequencesSharedOnlyUntracked`), so two calls that
   both track never share one.

## 5. Proofs

`tlapm M.tla` proves every leaf; constants are arbitrary within the named
`ASSUME`s of each module.

| Theorems | Say | Inductive invariant |
|---|---|---|
| `PromiseProofs!DrainSettles` | of `Drain`: a retired deployment owes nothing (given `Legacy \in Scopes`) | the property with `DTypeOK` |
| `OneControlIsAlive`, `TheLaneRestsForGood` | of `ControlLane`: one control at most can still land; a closed lane in which none waits sees nothing happen again | `OneIsAlive` with `LaneTypeOK` |
| `CallersAgree`, `TheirWordIsKept` | of `KeyedPayout`: no two callers are told opposites; REJECTED is for good (given that "unanswered" is not an answer) | `KeyHolds`: what each was told is what the payout is (`WordsAreTrue`) |
| `ServiceWorkProofs!TypeCorrect`, `OpaqueWorkStaysOpen` | types; work that asked a tenant's relayer never looks complete | `OpaqueInv`: while the answer is unknown, memory (`external`) remembers it or the row is already BLOCKED |
| `RecordsPrecedeTheWire`, `RowsFollowTheLedger`, `SingleUseIsTracked`, `ClosedWorkIsClosed` | a row before the bytes; final rows are the ledger's; a hash sent by one call is never untracked | `BooksInv`: `OpaqueInv`, `WireInv` (whoever's bytes are on the wire, or about to be, has written its rows), `FinalityIsLedgers`, `SingleUse` |
| `RetirementProofs!RetirementTypeCorrect`, `RetirementSettles`, `RetiredIsAtRest` | RETIRED means settled, nothing in flight | `SettlementInv`: `OpaqueInv`, a running scope has a row that is not DONE, nothing runs as the legacy row |
| `CutoffIsEnough` | whatever the service recorded and will ever land had landed when the cutoff was read, so the cutoff covers it unless the node that answered was behind | `CutoffInv`: once the counts of a RETIRING deployment are zero its books are frozen (`Frozen`), so the ledger read later bounds them (`Fixed`) though the lock was let go |
| `CoverageHasItsCutoff`, `NoWayBack` | coverage follows a stored cutoff; RETIRING and RETIRED are never undone | `CoverageInv`: with `ScanHasCutoff` |
| `RetirementImplementsDrain` | every step of `RSpec` is a step of `Drain` or a stutter | `RTypeOK` and `SettlementInv` |
| `ControlIntentsProofs!ControlOutcomesAreTrue`, `ControlOutcomesStay`, `ProofIsNeverHidden` | the three rows agree with the ledger, stay so, and a proof in one can be found by the cron or, while the deployment retires, by the tick | `CIInv`: rows typed, what every process carries in its memory is `Sound`, each intent's rows have a `Shape` and the `Truth` |
| `LaneIsExclusive`, `KeysAreAnsweredOnce` | one control at a time; one answer per key | `LaneInv` (all controls but the last have landed or can land no more), `KeyInv` (no intent has a refused key, no two have one key) |
| `ControlsImplementLane` | every step of `CISpec` is a step of `ControlLane` or a stutter | `CIInv` and `LaneInv`: only an open intent can land (`LiveIsOpen`), and only one (`OneIsLive`) |
| `RetirementEndsTheLane` | once the deployment retires and no intent is open, none lands and no answer changes | `CIInv` |
| `EventCoverageProofs!CursorsCover`, `CutoffsAreCovered`, `CursorsOnlyAdvance` | no event at or before the cursor, or the cutoff of recorded coverage, is unread and unrecorded; nothing but an attestation erases a gap | `CoverInv`: what each poll has passed is kept (`PollSound`), the cutoff is never ahead of the tip and a retired deployment has no poll (`LifeSound`), from lemmas on pages (`PagesAreFirst`, `ShortPagesAreWhole`) |
| `RelayerChannelsProofs!RelayerTypeCorrect`, `ChannelsAreExclusive`, `NoCallerStranded` | type, one call per source, no lost wake-up | `PoolInv`: flags match holders, sleepers once each, the lane holds its callers and only its head is past the barrier |
| `SequencesSharedOnlyUntracked` | of two live envelopes on one number, one is of a call that is over and does not track; no kind is excluded | `TxInv`, `TrackInv`: what may land is tracked by its source, polled for under a hold, or let go of; whoever builds found nothing tracked |
| `SubmissionProofs`, of a webhook: `WebhookTypeCorrect`, `OneKeyOnePayout`, `RefusalsAreHonest`, `FinalAnswersAreHonest`, `AcceptancesAreReal` | type, one payout, honest REJECTED, SUCCESS, FAILED, PENDING | `WIInv`: the row belongs to one call (`OwnerInv`), its status and every pending or given answer are backed by the ledger (`StatusInv`, `CallInv`, `Honest`) |
| `CallsKeepThePromise` | every step of `WISpec` is a step of `KeyedPayout` or a stutter | `WIInv` and `ToldInv` (only an ended call was answered; a call that has looked has something to say): of all the transactions the calls could send one can be taken (`OnePayout`), and a row that turns REJECTED had none that can still leave (`RowRenounces`) |
| of a deployment: `DeploymentsAreTrue`, `DeploymentOutcomesStay`, `HandedBackIsFree`, `FirstClaimIsScheduledOnce` | CONFIRMED and FAILED are true, no late write changes a settled row, a claim handed back was taken by no node, one first job | `DFInv`: what each place in the code implies of the ledger (`PlacesAreTrue`), one request between claim and record (`OneSends`), one confirmer (`OneAsks`) |
| `AutomationProofs`, of a stream: `StreamIsPaidAsAccrued`, `VestingIsBounded` | elapsed time is the time it ran, never an accounting error; what the recipients were paid adds up to what was claimed, which is within what was earned, which is within the whole window's | `StreamInv`: `Elapsed = active` in every phase of a pause; `PaidInv`: the totals are natural and add up to `claimed` |
| `PercentageShareIsExact`, `NobodyPaysBack`, `NoMoneyIsLost` | the share without the large product is the floor of the recipient's part; the last recipient's rest is never negative, so no total goes down; what came in is held, paid or returned | the same, and lemmas on sums (`SharesAddUp`) |
| of its jobs: `JobsOnlyUseTheContract`, `JobsAreTakenOnce`, `TheChainHolds` | the jobs are clients of the contract; one run per job; a job to come or a run at work | `ChainInv`: who works on a job took it, nobody can take it before its catch is past, and somebody works on every RUNNING job |
| of a timelock: `SettledIsBeforeTheFunds`, `NoFundsAreForgotten`, `TheLockPaysAsAsked` | a settled ledger never covers a later deposit; funds are always due or announced | `TLInv`: chain, row, every run's memory and every release in flight are sound for the ledgers they were read at |
| of a subscription: `OneRunHoldsTheLease`, `DueChargesAreSelected`, `TheOwnerHasTheLastWord` | lease, no hidden period, no undone choice | `SubInv`: `LeaseInv`, `RunsInv` (a current reading was made under the owner's last choice, and the date a run will write was once the contract's), `RowInv` |
| of a budget: `FeesStayWithinBudget`, `SendersStayWithinLimit`, `ReservationsAreForGood` | the reserved fees add up to what is committed, within the limit; one run is told to send a hash; all that runs were told to send costs no more than the limit; nothing is given back | `FBInv`: what a run has read holds as long as the row has not moved; `SpentInv`: `committed` is the sum over `reserved` |

Why the strengthenings are needed: `RetiredIsSettled` alone does not exclude a
scope that still runs with its row DONE and records a hash after retirement;
`SharedOnlyUntracked` does not say that a caller who left a channel left its hash
there; `RefusalIsHonest` does not exclude that the owner, having read "no hash",
is about to write REJECTED over a hash committed since (it cannot: only the
owner commits it); `ControlFinalityIsLedgers` and `DeploymentIsTrue` do not
speak of what a process has read and is about to write; `SettledBeforeFunded`
says nothing of the ledger a run read its zero at. `DueIsNeverHidden` rests on the
contract's next charge date never going back more than on the compare-and-swap of
the lease: what a run writes, however late, was once that date.

Model-checked only:

* all liveness (`PendingIsProjected`, `RetirementCompletes`, `EventsArrive`,
  `CallsEnd`, `SuccessIsConfirmed`): fairness and `ENABLED` are out of the
  prover's reach.

Every invariant, every action property and every refinement that a run checks is
proved. Leaves with many cases name a prover and a time (`ZenonT(60)`,
`SMTT(30)`), so that a slow machine proves them too.

Two properties speak of sums over a set of any size (`StreamPaysAccrued`,
`ReservedWithinBudget`). The library's induction theorems cannot be used, since
they take an operator, so `AutomationProofs` begins with induction over sets:
every non-empty set of naturals has a least member (`LeastNumber`, from the
well-foundedness of `<`), and a set of sets that has `{}` and is closed under
adding a member has every finite set (`FiniteInduction`). From these follow that
a fold over a finite set can be unfolded at any of its members (`SumOfMember`,
`SumOfOneMore`), and the rules for sums of sums, multiples and parts.

## 6. What the models leave out

* *Drain*, *ControlLane* and *KeyedPayout* have no runs of their own: they are
  checked as the properties `DrainSpec` of `Retirement`, `LaneIsKept` of
  `ControlIntents` and `PayoutIsAsPromised` of `WebhookIdempotency`, and what
  they promise is proved.
* *ServiceWork*: scopes of settlement admissions do not submit
  (their callers, such as `reconcileHostedPayment` in
  `hosted-execution/service.ts`, only read and reconcile); one hash is not sent twice within
  one scope; whether the hash a tenant's relayer reports is the right one.
* *Retirement*: the limits of 20 rows and 15 seconds per tick (a tick reads what
  it loaded and may stop anywhere); the work the poll admits for itself is the
  tick's one admission; the operator is taken to be truthful about the ledger,
  but free to fence any work. Inside obligations nothing is seen of signed rows
  and intents. Retirement of a transaction that expired unseen never completes:
  `RetirementCompletes` states that exception.
  *What a lagging node does to the cutoff is stated, not excluded*: the outcomes
  are learnt from Horizon, an earlier read or another RPC node, the ledger from
  one `getLatestLedger` (`retirement.ts:284-287`), and nothing compares the two. The comment
  at `retirement.ts:263-265` and `docs/deployment-retirement.md` speak of events
  through a ledger fixed once the hashes reached finality;
  `CutoffCoversSubmissions` says how far that goes: the ledger is asked for late
  enough, and a node that has not seen a submission's ledger yet answers with a
  cutoff below it, whose events retirement then does not wait for.
* *ControlIntents*: what a transaction does, eligibility, the digest of a request;
  the states of retirement beyond that a deployment no longer admits. An EXPIRED
  intent whose repair died is finished only by a later lookup or by retirement,
  as in the code: no cron selects it. A clock that is behind the ledger's is a
  creation that comes late. While the deployment retires, one disagreement is
  nobody's to find: the signed row of a control that the queue refused and its
  wallet broadcast stays REJECTED once the intent and the service row hold the
  outcome, since `reconcileFinality` asks for no refused row;
  `RefusalRemains` names it, and no outcome hangs on it.
* *DeploymentFinality*: the deployment stays ACTIVE (`Retirement` has the rest,
  such as recovery of contract references); preparation, deployments that the
  relayer signs, the address proof an instance's confirmation asks for, and the
  end of the cron's reads after six days.
* *EventCoverage*: decoding, projections and notifications after an insert.
  What a tick writes of its poll (`retirementReconciledAt`, the gap, the blocker)
  is written at the end of the poll and not by a later statement (Retirement has
  that step). A poll that dies counts as closed at once: in the code its row stays
  open until an operator fences it, and the operator's word that the worker has
  stopped is taken as true.
* *RelayerChannels*: the number itself; restoration and rebuilds under the same
  hold; a restart of the process, which forgets pool and tracking (the code
  documents it). `Kind = "unkeyed"` exists in the model but no run uses it.
* *WebhookIdempotency*: one key; keyed calls never rebuild, so a call has one
  transaction; secrets, rate limits and admission come before the key. A key
  whose owner died before a hash was saved answers UNKNOWN forever, as designed.
* *StreamerJobs*: `cancelPendingStreamerJobs` is called when a deployment stops
  being CONFIRMED, which none does. A run that is lost (it dies, or an error
  leaves the catch: `route.ts:160-164`, `172`, `197-201`) with a job RUNNING, or
  between its end and the next one's creation, breaks the chain, as in the code:
  `StreamKeepsAJob` is stated for behaviours in which none is lost.
* *TimelockRelease*, *SubscriptionCharge*: the deployment is admitted; the daily
  recheck of a settled row lies beyond the clock's bound, so the events must do
  the waking; e-mail, history rows, batching over rows.
* *FeeBudget*: the row lock the database takes is not relied on.

## 7. What could come next

1. `ControlLane` and `DeploymentFinality` in the place of the obligations
   `finality` and `deployment`, and `CutoffCovered` of `EventCoverage` as the
   meaning of `TickPoll`, both by INSTANCE.
2. The rebuild after a bad sequence number and restoration in `RelayerChannels`.
3. The outbox of the analytics rows, and the end of the reads after six days.
4. The contracts left out, wait slots.
