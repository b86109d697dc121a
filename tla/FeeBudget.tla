----------------------------- MODULE FeeBudget -----------------------------
(***************************************************************************)
(* The cumulative fee budget of TTL maintenance, lib/stellar/fee-budget.ts:*)
(* a transaction is signed and sent only once its declared fee is reserved,*)
(* and a reservation is never given back.                                  *)
(*                                                                         *)
(* A reservation reads the budget's row, creating it if need be, and takes *)
(* its share by compare-and-swap in the same database transaction that     *)
(* records the hash, so a reservation that is refused creates no row       *)
(* either.  Several runs reserve at once, and a run that does not know     *)
(* what became of a transaction may ask again for its hash.  That the      *)
(* database also locks the row it read is not relied on.                   *)
(***************************************************************************)
EXTENDS Integers, FiniteSetsExt

CONSTANTS
  Spenders,          \* runs that reserve
  Fees,              \* the hashes, each with the fee it declares
  Limits,            \* the limits runs are configured with
  MaxTries           \* the attempts at one reservation: 5

ASSUME FeeBudgetAssumption ==
  /\ \A h \in DOMAIN Fees : Fees[h] \in Nat \ {0}
  /\ Limits \subseteq Nat \ {0}
  /\ MaxTries \in Nat \ {0}

VARIABLES
  limit, committed,  \* the row of TransactionFeeBudget; no limit: no row
  reserved,          \* the hashes with a TransactionFeeReservation row
  allowed,           \* allowed[h]: the runs told that they may send h
  spender            \* spender[s]: where the run s is

fbVars == <<limit, committed, reserved, allowed, spender>>

TxHashes == DOMAIN Fees
NoLimit  == 0
Unasked(h) == [pc |-> "idle", hash |-> h, read |-> 0, tries |-> 0, limit |-> 0]

FBTypeOK ==
  /\ limit \in {NoLimit} \cup Limits /\ committed \in Nat
  /\ reserved \subseteq TxHashes
  /\ allowed \in [TxHashes -> SUBSET Spenders]
  /\ spender \in [Spenders -> [pc : {"idle", "reading", "swapping", "done"},
                               hash : TxHashes, read : Nat,
                               tries : 0 .. MaxTries,
                               limit : {NoLimit} \cup Limits]]

FBInit ==
  /\ limit = NoLimit /\ committed = 0
  /\ reserved = {}
  /\ allowed = [h \in TxHashes |-> {}]
  /\ \E f \in [Spenders -> TxHashes] :
        spender = [s \in Spenders |-> Unasked(f[s])]

Advance(s, next) == spender' = [spender EXCEPT ![s] = next]
Stop(s)          == Advance(s, [Unasked(spender[s].hash) EXCEPT !.pc = "done"])

\* reserveTransactionFee, by a run configured with the limit n.
Ask(s, n) ==
  /\ spender[s].pc = "idle"
  /\ Advance(s, [spender[s] EXCEPT !.pc = "reading", !.limit = n])
  /\ UNCHANGED <<limit, committed, reserved, allowed>>

\* The upsert and the checks of what it returns: a limit that differs from the
\* one approved first, or a budget that does not cover the fee, ends it.
LimitFor(s) == IF limit = NoLimit THEN spender[s].limit ELSE limit
Covered(s)  == committed + Fees[spender[s].hash] <= LimitFor(s)

ReadBudget(s) ==
  /\ spender[s].pc = "reading"
  /\ IF LimitFor(s) = spender[s].limit /\ Covered(s)
     THEN Advance(s, [spender[s] EXCEPT !.pc = "swapping", !.read = committed])
     ELSE Stop(s)
  /\ UNCHANGED <<limit, committed, reserved, allowed>>

\* Mutant of Unmoved: an update that does not compare.
SwapBlindly(s) == TRUE

\* The swap and the insert commit together, or neither does: the budget moved
\* on, which is tried again, or the hash already has its reservation.
Unmoved(s)  == committed = spender[s].read
Unspent(s)  == spender[s].hash \notin reserved

Commit(s) ==
  /\ Unmoved(s) /\ Unspent(s)
  /\ limit' = LimitFor(s)
  /\ committed' = spender[s].read + Fees[spender[s].hash]
  /\ reserved' = reserved \cup {spender[s].hash}

Swap(s) ==
  /\ spender[s].pc = "swapping"
  /\ Commit(s)
  /\ allowed' = [allowed EXCEPT ![spender[s].hash] = @ \cup {s}]
  /\ Stop(s)

SwapFails(s) ==
  /\ spender[s].pc = "swapping"
  /\ ~(Unmoved(s) /\ Unspent(s))
  /\ IF ~Unmoved(s) /\ spender[s].tries + 1 < MaxTries
     THEN Advance(s, [spender[s] EXCEPT !.pc = "reading", !.read = 0,
                                        !.tries = @ + 1])
     ELSE Stop(s)
  /\ UNCHANGED <<limit, committed, reserved, allowed>>

\* The commit is acknowledged to nobody: the run died or lost the connection.
SwapUnanswered(s) ==
  /\ spender[s].pc = "swapping"
  /\ Commit(s)
  /\ Stop(s)
  /\ UNCHANGED allowed

SpenderNext(s) ==
  \/ \E n \in Limits : Ask(s, n)
  \/ ReadBudget(s) \/ Swap(s) \/ SwapFails(s) \/ SwapUnanswered(s)

FBNext == \E s \in Spenders : SpenderNext(s)

FBSpec == FBInit /\ [][FBNext]_fbVars

-----------------------------------------------------------------------------
(* Properties                                                              *)

\* reserveTransactionFee: however runs race for what is left, the fees that
\* were reserved add up to what the row says is committed and stay within the
\* limit first approved, and no two runs are told to send one transaction.
ReservedWithinBudget ==
  /\ MapThenSumSet(LAMBDA h : Fees[h], reserved) = committed
  /\ committed > 0 => committed <= limit
  /\ \A h \in TxHashes : \A s, r \in allowed[h] : s = r

=============================================================================
