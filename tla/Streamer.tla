------------------------------ MODULE Streamer ------------------------------
(***************************************************************************)
(* The streaming contract, contracts/actions/streamer/src/lib.rs: a fixed  *)
(* amount vests at the end of every whole interval between Start and End,  *)
(* anyone may have the vested part paid out, and the admin may pause the   *)
(* stream, take back what has not vested, or take everything.              *)
(*                                                                         *)
(* The contract keeps three numbers to know how long the stream has run:   *)
(* whether it is paused, since when, and how much pause overlapped the     *)
(* window before.  The variable active is not the contract's: it counts,   *)
(* second by second, the time the stream ran unpaused inside its window,   *)
(* and is what those three numbers must always amount to.                  *)
(*                                                                         *)
(* An invocation is one transaction: it happens whole or not at all, so a  *)
(* call that panics is a call that leaves the state as it is.              *)
(***************************************************************************)
EXTENDS Integers, Sequences, FiniteSetsExt

CONSTANTS
  Start,             \* StartTs
  End,               \* EndTs
  Interval,          \* IntervalSeconds
  Rate,              \* AmountPerInterval
  Shares,            \* the recipients' basis points, in order
  Deposits,          \* the amounts one deposit may bring
  MaxDeposits,       \* bound on the number of deposits
  Horizon            \* bound on the clock

\* The constructor refuses a window that is empty, a rate or an interval
\* that is not positive, and recipients whose shares do not add up to 10000.
ASSUME StreamerAssumption ==
  /\ Start \in Nat /\ End \in Nat /\ Start < End
  /\ Interval \in Nat \ {0}
  /\ Rate \in Nat \ {0}
  /\ Shares \in Seq(Nat) /\ Shares # << >>
  /\ Deposits \subseteq Nat \ {0}
  /\ MaxDeposits \in Nat
  /\ Horizon \in Nat

ASSUME SharesAssumption ==
  MapThenSumSet(LAMBDA i : Shares[i], DOMAIN Shares) = 10000

VARIABLES
  now,          \* the ledger's timestamp
  active,       \* seconds the stream has run unpaused within its window
  claimed, paused, pausedAt, pauseOffset,     \* the contract's storage
  pauseAllowed, retrieveAllowed,              \* chosen at deployment
  balance,      \* the contract's balance of its asset
  paid,         \* paid[i]: what recipient i has received
  returned,     \* what the admin has taken back
  funded,       \* what has been paid in
  deposits      \* how many deposits that was

terms        == <<pauseAllowed, retrieveAllowed>>
contractVars == <<claimed, paused, pausedAt, pauseOffset, terms, balance,
                  paid, returned, funded, deposits>>
streamVars   == <<now, active, contractVars>>

Min2(a, b) == IF a <= b THEN a ELSE b
Max2(a, b) == IF a <= b THEN b ELSE a

\* saturating_sub of an unsigned number
Monus(a, b) == IF a <= b THEN 0 ELSE a - b

StreamerInit ==
  /\ now = 0
  /\ active = 0
  /\ claimed = 0
  /\ paused = FALSE /\ pausedAt = 0 /\ pauseOffset = 0
  /\ pauseAllowed \in BOOLEAN /\ retrieveAllowed \in BOOLEAN
  /\ balance = 0 /\ returned = 0 /\ funded = 0 /\ deposits = 0
  /\ paid = [i \in DOMAIN Shares |-> 0]

-----------------------------------------------------------------------------
(* What the contract computes                                              *)

\* The instant up to which the stream has run, as far as the contract knows.
Cap == IF paused THEN Min2(Min2(now, End), pausedAt) ELSE Min2(now, End)

VestedFor(elapsed) == (elapsed \div Interval) * Rate

\* compute_vested_and_available: the elapsed time and what has vested of it.
Elapsed   == Monus(Cap, Start) - pauseOffset
Vested    == VestedFor(Elapsed)
Available == Vested - claimed

\* None of the guards that end in InvalidAccountingState fires.
Accountable ==
  /\ paused => pausedAt <= now
  /\ Elapsed >= 0
  /\ 0 <= claimed /\ claimed <= Vested

\* percentage_share: the whole ten-thousands first, so that the product of the
\* amount and the basis points is never formed.
PercentageShare(amount, bps) ==
  (amount \div 10000) * bps + ((amount % 10000) * bps) \div 10000

\* Each recipient but the last gets its percentage_share, rounded down; the
\* last one takes what is left of the amount.
FloorShare(amount, i) == PercentageShare(amount, Shares[i])

ShareOf(amount, i) ==
  IF i < Len(Shares)
  THEN FloorShare(amount, i)
  ELSE amount - MapThenSumSet(LAMBDA j : FloorShare(amount, j),
                              1 .. Len(Shares) - 1)

-----------------------------------------------------------------------------
(* The contract's operations                                               *)

\* A deposit: top_up, the parent's transfer before execute_step, or a plain
\* transfer of the asset to the contract.
Fund(amount) ==
  /\ deposits < MaxDeposits
  /\ deposits' = deposits + 1
  /\ balance' = balance + amount
  /\ funded' = funded + amount
  /\ UNCHANGED <<now, active, terms, claimed, paused, pausedAt, pauseOffset, paid,
                 returned>>

\* claim, which anyone may call.  A balance that does not cover what is
\* available makes the last transfer fail, and with it the whole call.
ClaimSucceeds ==
  /\ Accountable
  /\ Available > 0
  /\ Available <= balance

Claim ==
  /\ ClaimSucceeds
  /\ claimed' = Vested
  /\ balance' = balance - Available
  /\ paid' = [i \in DOMAIN Shares |-> paid[i] + ShareOf(Available, i)]
  /\ UNCHANGED <<now, active, terms, paused, pausedAt, pauseOffset, returned, funded,
                 deposits>>

\* cancel: the admin takes the balance, and nothing else is written.
CancelStream ==
  /\ balance > 0
  /\ balance' = 0
  /\ returned' = returned + balance
  /\ UNCHANGED <<now, active, terms, claimed, paused, pausedAt, pauseOffset, paid,
                 funded, deposits>>

\* retrieve_unvested: while paused, the admin takes what exceeds Available.
RetrieveUnvested ==
  /\ retrieveAllowed
  /\ paused
  /\ Accountable
  /\ balance > Available
  /\ balance' = Available
  /\ returned' = returned + (balance - Available)
  /\ UNCHANGED <<now, active, terms, claimed, paused, pausedAt, pauseOffset, paid,
                 funded, deposits>>

\* pause.  A second pause returns early: it must not move the freeze point.
Pause ==
  /\ pauseAllowed
  /\ ~paused
  /\ paused' = TRUE
  /\ pausedAt' = now
  /\ UNCHANGED <<now, active, terms, claimed, pauseOffset, balance, paid, returned,
                 funded, deposits>>

\* Mutant of PausedInWindow: a pause counts beyond the end of the window.
PauseBeyondTheEnd == Monus(now, Max2(pausedAt, Start))

\* unpause: only the part of the pause inside the window counts.  The call
\* ends with compute_vested_and_available, so it fails if that would.
PausedInWindow == Monus(Min2(now, End), Max2(pausedAt, Start))

Unpause ==
  /\ pauseAllowed
  /\ paused
  /\ pausedAt <= now
  /\ paused' = FALSE
  /\ pausedAt' = 0
  /\ pauseOffset' = pauseOffset + PausedInWindow
  /\ UNCHANGED <<now, active, terms, claimed, balance, paid, returned, funded,
                 deposits>>
  /\ Accountable'

\* A ledger closes a second later.
Tick ==
  /\ now < Horizon
  /\ now' = now + 1
  /\ active' = active + (IF ~paused /\ Start <= now /\ now < End THEN 1 ELSE 0)
  /\ UNCHANGED contractVars

StreamerNext ==
  \/ \E amount \in Deposits : Fund(amount)
  \/ Claim
  \/ CancelStream
  \/ RetrieveUnvested
  \/ Pause
  \/ Unpause
  \/ Tick

StreamerSpec == StreamerInit /\ [][StreamerNext]_streamVars

-----------------------------------------------------------------------------
(* Properties                                                              *)

\* What the recipients have earned: Rate for every whole interval the stream
\* ran unpaused within its window, whatever the pauses cut it into.
Earned == VestedFor(active)

Total == MapThenSumSet(LAMBDA i : paid[i], DOMAIN Shares)

\* compute_vested_and_available: whenever the admin pauses and resumes, before
\* the window, across its edges or after it, the contract's three numbers
\* amount to the time the stream really ran; so the accounting errors of
\* InvalidAccountingState are out of reach, the recipients are never paid more
\* than they have earned, and the shares of every claim add up to it.
StreamPaysAccrued ==
  /\ Accountable
  /\ Vested = Earned
  /\ Total = claimed

\* claim, cancel, retrieve_unvested: money leaves only to the recipients, as
\* far as they have earned it, and to the admin.
NothingIsLost == balance + claimed + returned = funded

=============================================================================
