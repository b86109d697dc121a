--------------------------- MODULE RelayerChannels ---------------------------
(***************************************************************************)
(* The relayer's channel accounts (src/lib/stellar/relayer-channels.ts).   *)
(* A call takes one channel as the source of its transaction, or the       *)
(* relayer itself behind a single promise chain when no channel is funded, *)
(* builds on the sequence number the ledger reports, sends, and lets go of *)
(* the channel; a transaction it leaves unresolved is tracked, and the     *)
(* next holder waits until that one can no longer land.                    *)
(*                                                                         *)
(* The sequence number is not a counter here: the ledger reports the same  *)
(* number until the earlier transaction of that source is over, so two     *)
(* envelopes of one source share their number exactly when both are built  *)
(* and neither is over.  Each caller makes one call and so stands for its  *)
(* one transaction; a restoration, or a rebuild after a bad sequence       *)
(* number, is one more transaction under the same hold and is left out.    *)
(***************************************************************************)
EXTENDS Naturals, Sequences

CONSTANTS Callers,   \* the calls of withRelayerChannel
          Slots,     \* the indices of the configured channels
          Relayer,   \* the relayer as its own source
          None,      \* no source, no tracked transaction
          Kind       \* when a caller tracks the transaction it sends

\* "early": before the send (deploy, TTL rent).  "keyed" and "unkeyed": once
\* queued, a keyed webhook also when the answer was lost.  "never": claims,
\* charges and releases.
Kinds == {"early", "keyed", "unkeyed", "never"}

Sources == Slots \cup {Relayer}

ASSUME ChannelsAssumption ==
  /\ Slots \subseteq Nat
  /\ Relayer \notin Slots
  /\ None \notin Sources /\ None \notin Callers
  /\ Kind \in [Callers -> Kinds]

VARIABLES
  pc,        \* pc[c]: where the call of c is
  held,      \* held[c]: the source its transaction uses
  busy,      \* busy[s]: the flag of slot s
  disabled,  \* disabled[s]: its disabledUntil lies in the future
  waiters,   \* the resolvers of the sleeping callers
  lane,      \* the promise chain of withRelayerLock; its head runs
  pending,   \* pending[s]: pendingHash of a slot or of the relayer's source
  net        \* net[c]: "none", "built", "flying" or "over", the transaction of c

poolVars == <<busy, disabled, waiters>>
vars == <<pc, held, busy, disabled, waiters, lane, pending, net>>

Places == {"idle", "woken", "waiting", "checking", "settling", "lane",
           "working", "built", "polling", "done"}

RCInit ==
  /\ pc = [c \in Callers |-> "idle"]
  /\ held = [c \in Callers |-> None]
  /\ busy = [s \in Slots |-> FALSE]
  /\ disabled = [s \in Slots |-> FALSE]
  /\ waiters = <<>>
  /\ lane = <<>>
  /\ pending = [s \in Sources |-> None]
  /\ net = [c \in Callers |-> "none"]

-----------------------------------------------------------------------------
(* acquire                                                                 *)

\* Mutant of Wake: a release does not call the next sleeper.
WakeNobody(p) == pc' = p /\ UNCHANGED waiters

\* wake(): the first sleeper looks again; p is what the step does to pc itself.
Wake(p) ==
  \/ /\ waiters = <<>>
     /\ pc' = p
     /\ UNCHANGED waiters
  \/ /\ waiters # <<>>
     /\ pc' = [p EXCEPT ![Head(waiters)] = "woken"]
     /\ waiters' = Tail(waiters)

Free == {s \in Slots : ~busy[s] /\ ~disabled[s]}

\* Mutant of Reserve: the flag goes up only after the account was looked up.
ReserveAfterCheck(s) == busy

\* The flag goes up in the same turn of the event loop as the look.
Reserve(s) == [busy EXCEPT ![s] = TRUE]

Looking(c) == pc[c] \in {"idle", "woken"}

Take(c) ==
  /\ Looking(c)
  /\ \E s \in Free :
       /\ \A t \in Free : s <= t
       /\ busy' = Reserve(s)
       /\ held' = [held EXCEPT ![c] = s]
  /\ pc' = [pc EXCEPT ![c] = "checking"]
  /\ UNCHANGED <<disabled, waiters, lane, pending, net>>

\* Mutant of NullPassesTheWake: the wake ends with the call that got null.
NullKeepsTheWake(p) == WakeNobody(p)

\* The null that ends an acquire passes the wake on.
NullPassesTheWake(p) == Wake(p)

FallBack(c) ==
  /\ Looking(c)
  /\ \A s \in Slots : disabled[s] /\ ~busy[s]
  /\ NullPassesTheWake([pc EXCEPT ![c] = "lane"])
  /\ held' = [held EXCEPT ![c] = Relayer]
  /\ lane' = Append(lane, c)
  /\ UNCHANGED <<busy, disabled, pending, net>>

Sleep(c) ==
  /\ Looking(c)
  /\ Free = {}
  /\ \E s \in Slots : busy[s]
  /\ pc' = [pc EXCEPT ![c] = "waiting"]
  /\ waiters' = Append(waiters, c)
  /\ UNCHANGED <<held, busy, disabled, lane, pending, net>>

\* slotUsable: only a missing account is held against the channel.
Usable(c) ==
  /\ pc[c] = "checking"
  /\ pc' = [pc EXCEPT ![c] = "settling"]
  /\ UNCHANGED <<held, poolVars, lane, pending, net>>

\* The caller looks again at once; others may step in between here, which
\* only adds interleavings.
Unusable(c) ==
  /\ pc[c] = "checking"
  /\ busy' = [busy EXCEPT ![held[c]] = FALSE]
  /\ disabled' = [disabled EXCEPT ![held[c]] = TRUE]
  /\ held' = [held EXCEPT ![c] = None]
  /\ Wake([pc EXCEPT ![c] = "woken"])
  /\ UNCHANGED <<lane, pending, net>>

\* DISABLE_MS passes.  Nobody is woken by it.
Enable(s) ==
  /\ disabled[s]
  /\ disabled' = [disabled EXCEPT ![s] = FALSE]
  /\ UNCHANGED <<pc, held, busy, waiters, lane, pending, net>>

-----------------------------------------------------------------------------
(* The hold                                                                *)

\* The finally of withRelayerChannel, or the end of a link of the chain.
Leave(c) ==
  \/ /\ held[c] = Relayer
     /\ lane' = Tail(lane)
     /\ pc' = [pc EXCEPT ![c] = "done"]
     /\ UNCHANGED <<busy, waiters>>
  \/ /\ held[c] \in Slots
     /\ busy' = [busy EXCEPT ![held[c]] = FALSE]
     /\ Wake([pc EXCEPT ![c] = "done"])
     /\ UNCHANGED lane

\* A holder before the barrier: of a slot, or of the head of the chain.
AtBarrier(c) ==
  \/ pc[c] = "settling"
  \/ pc[c] = "lane" /\ lane[1] = c

\* Mutant of ProvenOver: a transaction the RPC does not find has ended.
NotFoundIsOver(h) == net[h] \in {"flying", "over"}

\* What waitForPending accepts as the end of a tracked transaction: a final
\* status, or a ledger closed beyond the envelope's last valid time.
ProvenOver(h) == net[h] = "over"

PendingSettled(c) ==
  /\ AtBarrier(c)
  /\ \/ pending[held[c]] = None
     \/ pending[held[c]] \in Callers /\ ProvenOver(pending[held[c]])
  /\ pending' = [pending EXCEPT ![held[c]] = None]
  /\ pc' = [pc EXCEPT ![c] = "working"]
  /\ UNCHANGED <<held, poolVars, lane, net>>

\* Thirty seconds without a proof, or a failed read: the call fails.
PendingUnknown(c) ==
  /\ AtBarrier(c)
  /\ pending[held[c]] # None
  /\ Leave(c)
  /\ UNCHANGED <<held, disabled, pending, net>>

\* buildRelayerTx loads the account and signs.
Build(c) ==
  /\ pc[c] = "working"
  /\ pc' = [pc EXCEPT ![c] = "built"]
  /\ net' = [net EXCEPT ![c] = "built"]
  /\ UNCHANGED <<held, poolVars, lane, pending>>

\* A failed simulation, or a source without funds: that slot is set aside.
BuildFails(c) ==
  /\ pc[c] = "working"
  /\ \/ UNCHANGED disabled
     \/ held[c] \in Slots /\ disabled' = [disabled EXCEPT ![held[c]] = TRUE]
  /\ Leave(c)
  /\ UNCHANGED <<held, pending, net>>

\* The step before the send throws; a deployment is tracked by then.
Abandon(c) ==
  /\ pc[c] = "built"
  /\ net' = [net EXCEPT ![c] = "over"]
  /\ \/ UNCHANGED pending
     \/ Kind[c] = "early" /\ pending' = [pending EXCEPT ![held[c]] = c]
  /\ Leave(c)
  /\ UNCHANGED <<held, disabled>>

-----------------------------------------------------------------------------
(* The send and what follows it                                            *)

TracksUnanswered(c) == Kind[c] \in {"early", "keyed"}
TracksQueued(c) == Kind[c] # "never"

Track(c, yes) == pending' = IF yes THEN [pending EXCEPT ![held[c]] = c] ELSE pending

SendQueued(c) ==
  /\ pc[c] = "built"
  /\ net' = [net EXCEPT ![c] = "flying"]
  /\ Track(c, TracksQueued(c))
  /\ \/ /\ Kind[c] \in {"early", "never"}
        /\ pc' = [pc EXCEPT ![c] = "polling"]
        /\ UNCHANGED <<poolVars, lane>>
     \/ /\ Kind[c] \in {"keyed", "unkeyed"}
        /\ Leave(c)
        /\ UNCHANGED disabled
  /\ UNCHANGED held

\* No answer: the transaction may or may not have reached the network.
SendUnanswered(c) ==
  /\ pc[c] = "built"
  /\ net' = [net EXCEPT ![c] = "flying"]
  /\ Track(c, TracksUnanswered(c))
  /\ Leave(c)
  /\ UNCHANGED <<held, disabled>>

\* A refusal clears what an early caller tracked.
SendRefused(c) ==
  /\ pc[c] = "built"
  /\ net' = [net EXCEPT ![c] = "over"]
  /\ Leave(c)
  /\ UNCHANGED <<held, disabled, pending>>

ClearPending(c) ==
  pending' = IF pending[held[c]] = c THEN [pending EXCEPT ![held[c]] = None] ELSE pending

PollFinal(c) ==
  /\ pc[c] = "polling"
  /\ net[c] = "over"
  /\ ClearPending(c)
  /\ Leave(c)
  /\ UNCHANGED <<held, disabled, net>>

PollTimesOut(c) ==
  /\ pc[c] = "polling"
  /\ Leave(c)
  /\ UNCHANGED <<held, disabled, pending, net>>

\* A transaction lands, fails on chain, or outlives its time bound.
Over(c) ==
  /\ net[c] = "flying"
  /\ net' = [net EXCEPT ![c] = "over"]
  /\ UNCHANGED <<pc, held, poolVars, lane, pending>>

-----------------------------------------------------------------------------
AcquireStep(c) == Take(c) \/ FallBack(c) \/ Sleep(c) \/ Usable(c) \/ Unusable(c)

HoldStep(c) ==
  \/ PendingSettled(c) \/ PendingUnknown(c)
  \/ Build(c) \/ BuildFails(c) \/ Abandon(c)
  \/ SendQueued(c) \/ SendUnanswered(c) \/ SendRefused(c)
  \/ PollFinal(c) \/ PollTimesOut(c)

RCNext ==
  \/ \E c \in Callers : AcquireStep(c) \/ HoldStep(c) \/ Over(c)
  \/ \E s \in Slots : Enable(s)

RCSpec == RCInit /\ [][RCNext]_vars

\* A call that began goes on: every wait of it has a timeout or a waker.  The
\* channels come back from being set aside only finitely often.
RCFairness ==
  /\ \A c \in Callers : WF_vars(pc[c] # "idle" /\ (AcquireStep(c) \/ HoldStep(c)))
  /\ <>[][\A s \in Slots : ~Enable(s)]_vars

RCLiveSpec == RCSpec /\ RCFairness

-----------------------------------------------------------------------------
(* Properties                                                              *)

AtMostOneOf(S) == \A a, b \in S : a = b

InHold == {"checking", "settling", "working", "built", "polling"}

Holders(s) == {c \in Callers : held[c] = s /\ pc[c] \in InHold}

\* The state of the pool, the chain and the transactions is well formed, and
\* only callers of this process are queued (Pool, Slot and relayerQueue).
RCTypeOK ==
  /\ pc \in [Callers -> Places]
  /\ held \in [Callers -> Sources \cup {None}]
  /\ busy \in [Slots -> BOOLEAN]
  /\ disabled \in [Slots -> BOOLEAN]
  /\ waiters \in Seq(Callers)
  /\ lane \in Seq(Callers)
  /\ pending \in [Sources -> Callers \cup {None}]
  /\ net \in [Callers -> {"none", "built", "flying", "over"}]

\* "At most N callers run at once, one per channel" (withRelayerChannel): no
\* source, the relayer's included, ever has two callers between its acquire
\* and its release.
ChannelExclusive == \A s \in Sources : AtMostOneOf(Holders(s))

\* No two envelopes that can still land were built on the same sequence
\* number of one source, across every lost answer, timeout and release.
SequenceNotShared ==
  \A s \in Sources :
    AtMostOneOf({c \in Callers : held[c] = s /\ net[c] \in {"built", "flying"}})

\* Calls of any kinds mix on one pool, claims, charges and releases included.
\* Of two envelopes that can still land on one sequence number, one belongs to
\* a call that is over and does not track what goes unanswered: a deployment, a
\* rent payment or a keyed webhook is never the one that shares by itself.
SharedOnlyUntracked ==
  \A a, b \in Callers :
    /\ a # b /\ held[a] = held[b]
    /\ net[a] \in {"built", "flying"} /\ net[b] \in {"built", "flying"}
    => \E c \in {a, b} : pc[c] = "done" /\ ~TracksUnanswered(c)

\* A caller sleeps only while somebody is left to wake it: a holder of a slot,
\* or a woken caller that has yet to look (acquire, release, wake).
NoStrandedWaiter ==
  waiters # <<>> => (\E s \in Slots : busy[s]) \/ (\E c \in Callers : pc[c] = "woken")

\* Every call that began ends, whatever the network does with what it sent:
\* no sleeper is left behind when the last channel turns out unfunded.
CallsEnd == \A c \in Callers : (pc[c] # "idle") ~> (pc[c] = "done")
=============================================================================
