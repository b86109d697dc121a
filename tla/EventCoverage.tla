---------------------------- MODULE EventCoverage ----------------------------
(***************************************************************************)
(* Event ingestion of one deployment (src/lib/stellar/events.ts).  While   *)
(* it is ACTIVE, several polls run at once: the cron, the dashboard and    *)
(* the v1 reads.  Once it is RETIRING only the ticks of the retirement     *)
(* poll, bounded by the cutoff.  Each reads the shared cursor, pages       *)
(* through every group of contracts from there, stores what it reads and   *)
(* moves the cursor as far as the least advanced group.  The RPC forgets   *)
(* old ledgers; a hole that leaves is recorded until an operator attests   *)
(* that the archive was reconciled.                                        *)
(*                                                                         *)
(* Ledgers are numbered from the deployment's first, and cursor 0 is a     *)
(* missing EventCursor row.  One step reads a page and stores it: stored   *)
(* rows only accumulate and are keyed by event, so a page stored later, in *)
(* part, or twice is a failure at some event followed by another poll.     *)
(***************************************************************************)
EXTENDS Naturals, FiniteSets, FiniteSetsExt

CONSTANTS Pollers,     \* the polls that may run at the same time
          Cutoff,      \* the retirement's cutoff ledger
          LastLedger,  \* bound: the last ledger that closes
          LastEvent,   \* bound: events are 1..LastEvent, in stream order
          LedgerOf,    \* the ledger of an event
          GroupOf,     \* the group of its contract
          LastGroup,   \* groups are 1..LastGroup, five contracts each
          Window,      \* ledgers the RPC scans in one call
          PageLimit,   \* EVENTS_PAGE_LIMIT
          MaxPages     \* the page allowance of a group

Ledgers == 1..LastLedger
Events == 1..LastEvent
Groups == 1..LastGroup

\* The page allowance gets through the fullest ledger: a ledger with as many
\* events as pages hold would be read again and again.
ASSUME CoverageAssumption ==
  /\ {Cutoff, LastLedger, LastGroup, Window, PageLimit, MaxPages} \subseteq Nat \ {0}
  /\ LastEvent \in Nat
  /\ Cutoff <= LastLedger
  /\ LedgerOf \in [Events -> Ledgers] /\ GroupOf \in [Events -> Groups]
  /\ \A d, e \in Events : d <= e => LedgerOf[d] <= LedgerOf[e]
  /\ \A l \in Ledgers, g \in Groups :
       Cardinality({e \in Events : LedgerOf[e] = l /\ GroupOf[e] = g}) < MaxPages * PageLimit

VARIABLES
  serviceState, \* of the deployment
  cutoffFixed,  \* retirementCutoffLedger is set, to Cutoff
  incomplete,   \* retirementBlocker may begin with "Event coverage"
  attested,     \* an operator verified the coverage: the audit log says so
  tip,      \* the latest closed ledger
  oldest,   \* the oldest ledger the RPC holds
  stored,   \* ContractEvent rows
  cursor,   \* EventCursor.lastLedger, 0 without a row
  gap,      \* retirementCoverageGap is set
  covered,  \* retirementReconciledAt is set
  healthy,  \* the RPC, the database and the process answer
  pc,       \* pc[p]: where poll p is
  scan      \* scan[p]: its local variables

lifeVars == <<serviceState, cutoffFixed, attested>>
chainVars == <<tip, oldest, healthy>>
reportVars == <<gap, covered, incomplete>>
rowVars == <<stored, cursor, reportVars>>
vars == <<lifeVars, chainVars, rowVars, pc, scan>>

Places == {"idle", "open", "read", "update", "create", "again"}

\* start: startLedger; from, last: the page position; safe: safeThrough;
\* through: the least advanced group so far; whole: every scan complete;
\* bounded: polls to the cutoff; hole: met a retention gap.
NoScan == [start |-> 1, group |-> 1, from |-> 1, last |-> 0, safe |-> 0,
           pages |-> 0, through |-> LastLedger, whole |-> TRUE,
           bounded |-> FALSE, hole |-> FALSE]

ECInit ==
  /\ serviceState = "ACTIVE" /\ cutoffFixed = FALSE
  /\ incomplete = FALSE /\ attested = FALSE
  /\ tip = 1 /\ oldest = 1 /\ healthy = TRUE
  /\ stored = {} /\ cursor = 0 /\ gap = FALSE /\ covered = FALSE
  /\ pc = [p \in Pollers |-> "idle"]
  /\ scan = [p \in Pollers |-> NoScan]

-----------------------------------------------------------------------------
(* The chain and the RPC's retention                                       *)

Close ==
  /\ tip < LastLedger
  /\ tip' = tip + 1
  /\ UNCHANGED <<lifeVars, oldest, healthy, rowVars, pc, scan>>

Expire ==
  /\ oldest < tip
  /\ oldest' = oldest + 1
  /\ UNCHANGED <<lifeVars, tip, healthy, rowVars, pc, scan>>

\* An outage begins or ends.
Falter ==
  /\ healthy' = ~healthy
  /\ UNCHANGED <<lifeVars, tip, oldest, rowVars, pc, scan>>

-----------------------------------------------------------------------------
(* The retirement                                                          *)

\* requestRetirement
Retire ==
  /\ serviceState = "ACTIVE"
  /\ serviceState' = "RETIRING"
  /\ UNCHANGED <<cutoffFixed, attested, chainVars, rowVars, pc, scan>>

\* A poll is admitted work, OPEN until it ends.
NoPollOpen == \A p \in Pollers : pc[p] = "idle"

\* reconcileRetirement fixes the cutoff, no later than the tip, when the
\* admitted work is done.
FixCutoff ==
  /\ serviceState = "RETIRING" /\ ~cutoffFixed
  /\ NoPollOpen
  /\ Cutoff <= tip
  /\ cutoffFixed' = TRUE
  /\ UNCHANGED <<serviceState, attested, chainVars, rowVars, pc, scan>>

\* The settlement route: an operator has reconciled the archive.
AttestCoverage ==
  /\ serviceState = "RETIRING" /\ cutoffFixed
  /\ gap \/ incomplete
  /\ gap' = FALSE /\ covered' = TRUE /\ attested' = TRUE
  /\ UNCHANGED <<serviceState, cutoffFixed, chainVars, stored, cursor, incomplete, pc, scan>>

\* The last transaction of reconcileRetirement.
Conclude ==
  /\ serviceState = "RETIRING"
  /\ NoPollOpen
  /\ covered /\ ~gap
  /\ serviceState' = "RETIRED" /\ incomplete' = FALSE
  /\ UNCHANGED <<cutoffFixed, attested, chainVars, stored, cursor, gap, covered, pc, scan>>

-----------------------------------------------------------------------------
(* A poll                                                                  *)

Bounded(p) == scan[p].bounded

\* A tick polls for the coverage its retirement still lacks.
LacksCoverage == serviceState = "RETIRING" /\ cutoffFixed /\ ~gap /\ ~covered

\* pollEventsForWithOutcomeInner reads the deployment and its cursor.
Begin(p) ==
  /\ pc[p] = "idle"
  /\ serviceState = "ACTIVE" \/ LacksCoverage
  /\ pc' = [pc EXCEPT ![p] = "open"]
  /\ scan' = [scan EXCEPT ![p] = [NoScan EXCEPT !.start = cursor + 1, !.safe = cursor,
                                                !.bounded = LacksCoverage]]
  /\ UNCHANGED <<lifeVars, chainVars, rowVars>>

\* What the tick of a bounded poll makes of its outcome r.
Report(p, r) ==
  LET complete == r.whole /\ r.through >= Cutoff
  IN /\ covered' = (covered \/ (Bounded(p) /\ complete))
     /\ gap' = (gap \/ (Bounded(p) /\ r.hole))
     /\ incomplete' = (incomplete \/ (Bounded(p) /\ ~complete))

LeastAdvanced(a, b) == IF a <= b THEN a ELSE b

\* The scan of a group ends with coverage through t: the next group starts
\* over from the same ledger, the last one hands over to the cursor.
EndGroup(p, t, ok) ==
  LET r == scan[p]
      end == [r EXCEPT !.through = LeastAdvanced(t, @), !.whole = @ /\ ok,
                       !.group = r.group + 1, !.from = r.start, !.last = 0,
                       !.safe = r.start - 1, !.pages = 0]
  IN \/ /\ r.group < LastGroup
        /\ scan' = [scan EXCEPT ![p] = end]
        /\ pc' = [pc EXCEPT ![p] = "open"]
        /\ UNCHANGED reportVars
     \/ /\ r.group = LastGroup
        /\ end.through > r.start - 1
        /\ scan' = [scan EXCEPT ![p] = [end EXCEPT !.group = 1]]
        /\ pc' = [pc EXCEPT ![p] = "update"]
        /\ UNCHANGED reportVars
     \/ /\ r.group = LastGroup
        /\ end.through <= r.start - 1
        /\ scan' = [scan EXCEPT ![p] = NoScan]
        /\ pc' = [pc EXCEPT ![p] = "idle"]
        /\ Report(p, end)

\* A poll bounded by the cutoff asks for nothing beyond it.
Asks(p) == pc[p] = "open" /\ (Bounded(p) => scan[p].start <= Cutoff)

\* Nothing to read: past the cutoff, or ahead of the tip.
NothingNew(p) ==
  /\ pc[p] = "open"
  /\ \/ ~Asks(p) /\ EndGroup(p, Cutoff, TRUE)
     \/ Asks(p) /\ scan[p].start > tip /\ EndGroup(p, scan[p].start - 1, TRUE)
  /\ UNCHANGED <<lifeVars, chainVars, stored, cursor>>

Opens(p) == Asks(p) /\ scan[p].start <= tip

\* The start ledger is held.
OpenHeld(p) ==
  /\ Opens(p)
  /\ scan[p].start >= oldest
  /\ pc' = [pc EXCEPT ![p] = "read"]
  /\ scan' = [scan EXCEPT ![p].from = scan[p].start]
  /\ UNCHANGED <<lifeVars, chainVars, rowVars>>

\* Mutant of KeepGap: the hole is passed without a record.
ForgetGap == UNCHANGED <<gap, covered>>

KeepGap ==
  IF serviceState # "RETIRED" /\ ~gap
  THEN gap' = TRUE /\ covered' = FALSE
  ELSE UNCHANGED <<gap, covered>>

\* The start ledger is gone: the hole is recorded first, whatever becomes of
\* the retry from the oldest ledger held.
OpenGap(p) ==
  /\ Opens(p)
  /\ scan[p].start < oldest
  /\ KeepGap
  /\ pc' = [pc EXCEPT ![p] = "read"]
  /\ scan' = [scan EXCEPT ![p].from = oldest, ![p].whole = FALSE, ![p].hole = TRUE]
  /\ UNCHANGED <<lifeVars, chainVars, stored, cursor, incomplete>>

\* The RPC fails, the first time or on a later page: what was read stands.
ReadFails(p) ==
  /\ ~healthy
  /\ Asks(p) \/ pc[p] = "read"
  /\ EndGroup(p, scan[p].safe, FALSE)
  /\ UNCHANGED <<lifeVars, chainVars, stored, cursor>>

\* So does a page cursor the RPC no longer holds.
PageExpired(p) ==
  /\ pc[p] = "read"
  /\ scan[p].from < oldest
  /\ EndGroup(p, scan[p].safe, FALSE)
  /\ UNCHANGED <<lifeVars, chainVars, stored, cursor>>

-----------------------------------------------------------------------------
(* A page                                                                  *)

\* The last ledger the RPC looks at in this call.
Horizon(p) == Min({tip, scan[p].from + Window - 1})

Available(p) ==
  {e \in Events : /\ GroupOf[e] = scan[p].group /\ e > scan[p].last
                  /\ LedgerOf[e] \in scan[p].from..Horizon(p)}

Page(p) == {e \in Available(p) : Cardinality({d \in Available(p) : d <= e}) <= PageLimit}

IsFull(p) == Cardinality(Page(p)) = PageLimit

\* cursorLedger of the answer.
PageEnd(p) == IF IsFull(p) THEN LedgerOf[Max(Page(p))] ELSE Horizon(p)

\* Mutant of PageCovers: the ledger a page ends in counts as covered.
WholePage(p) == PageEnd(p)

\* A full page may stop inside its last ledger.
PageCovers(p) == IF IsFull(p) THEN PageEnd(p) - 1 ELSE PageEnd(p)

Wanted(p) == {e \in Page(p) : Bounded(p) => LedgerOf[e] <= Cutoff}

Safe(p) == Max({scan[p].safe, PageCovers(p)})

CutoffReached(p) ==
  /\ Bounded(p)
  /\ \/ \E e \in Page(p) : LedgerOf[e] > Cutoff
     \/ ~IsFull(p) /\ PageEnd(p) >= Cutoff

TipReached(p) == ~IsFull(p) /\ PageEnd(p) >= tip

\* Mutant of MayPageOn: a poll never reads on.
OnePagePerPoll(p) == FALSE

MayPageOn(p) == scan[p].pages + 1 < MaxPages

ReadPage(p) ==
  /\ pc[p] = "read"
  /\ scan[p].from >= oldest
  /\ stored' = stored \cup Wanted(p)
  /\ \/ CutoffReached(p) /\ EndGroup(p, Cutoff, TRUE)
     \/ ~CutoffReached(p) /\ TipReached(p) /\ EndGroup(p, tip, TRUE)
     \/ /\ ~CutoffReached(p) /\ ~TipReached(p)
        /\ ~MayPageOn(p)
        /\ EndGroup(p, Safe(p), FALSE)
     \/ /\ ~CutoffReached(p) /\ ~TipReached(p)
        /\ MayPageOn(p)
        /\ scan' = [scan EXCEPT
             ![p].safe = Safe(p), ![p].pages = @ + 1,
             ![p].last = Max(Page(p) \cup {@}),
             ![p].from = IF IsFull(p) THEN PageEnd(p) ELSE PageEnd(p) + 1]
        /\ UNCHANGED <<pc, reportVars>>
  /\ UNCHANGED <<lifeVars, chainVars, cursor>>

\* An event cannot be stored: the ledgers before it are complete.
IngestFails(p) ==
  /\ ~healthy
  /\ pc[p] = "read"
  /\ scan[p].from >= oldest
  /\ \E e \in Wanted(p) :
       /\ stored' = stored \cup {d \in Wanted(p) : d < e}
       /\ EndGroup(p, Max({scan[p].safe, LedgerOf[e] - 1}), FALSE)
  /\ UNCHANGED <<lifeVars, chainVars, cursor>>

-----------------------------------------------------------------------------
(* advanceEventCursor, one statement at a time                             *)

\* Mutant of NotAhead: a slower poll overwrites a newer cursor.
AlwaysAhead(p) == cursor > 0

NotAhead(p) == cursor > 0 /\ cursor <= scan[p].through

Finish(p) ==
  /\ pc' = [pc EXCEPT ![p] = "idle"]
  /\ scan' = [scan EXCEPT ![p] = NoScan]
  /\ Report(p, scan[p])

\* The update, and the second one after a concurrent first poll's insert.
UpdateCursor(p) ==
  /\ pc[p] \in {"update", "again"}
  /\ \/ /\ NotAhead(p)
        /\ cursor' = scan[p].through
        /\ Finish(p)
     \/ /\ ~NotAhead(p)
        /\ UNCHANGED cursor
        /\ \/ pc[p] = "again" /\ Finish(p)
           \/ /\ pc[p] = "update"
              /\ pc' = [pc EXCEPT ![p] = "create"]
              /\ UNCHANGED <<scan, reportVars>>
  /\ UNCHANGED <<lifeVars, chainVars, stored>>

CreateCursor(p) ==
  /\ pc[p] = "create"
  /\ \/ /\ cursor = 0
        /\ cursor' = scan[p].through
        /\ Finish(p)
     \/ /\ cursor > 0
        /\ pc' = [pc EXCEPT ![p] = "again"]
        /\ UNCHANGED <<cursor, scan, reportVars>>
  /\ UNCHANGED <<lifeVars, chainVars, stored>>

\* The process dies, or a database call throws.
Die(p) ==
  /\ ~healthy
  /\ pc[p] # "idle"
  /\ pc' = [pc EXCEPT ![p] = "idle"]
  /\ scan' = [scan EXCEPT ![p] = NoScan]
  /\ UNCHANGED <<lifeVars, chainVars, rowVars>>

-----------------------------------------------------------------------------
PollStep(p) ==
  \/ Begin(p) \/ NothingNew(p) \/ OpenHeld(p) \/ OpenGap(p)
  \/ PageExpired(p) \/ ReadPage(p) \/ UpdateCursor(p) \/ CreateCursor(p)

PollTrouble(p) == ReadFails(p) \/ IngestFails(p) \/ Die(p)

ECNext ==
  \/ Close \/ Expire \/ Falter
  \/ Retire \/ FixCutoff \/ AttestCoverage \/ Conclude
  \/ \E p \in Pollers : PollStep(p) \/ PollTrouble(p)

ECSpec == ECInit /\ [][ECNext]_vars

\* The cron polls an ACTIVE deployment, and the tick of a retirement one that
\* lacks coverage, again and again; every wait of a poll has a timeout.  The
\* outages of the RPC and the database end.  Nobody has to retire a deployment,
\* attest to anything or conclude.
ECFairness ==
  /\ \A p \in Pollers : WF_vars(PollStep(p))
  /\ <>[]healthy

ECLiveSpec == ECSpec /\ ECFairness

-----------------------------------------------------------------------------
(* Properties                                                              *)

\* The cursor, the coverage columns and each poll's local state are well
\* formed, and retention never passes the tip (EventCursor, Deployment).
ECTypeOK ==
  /\ tip \in Ledgers /\ oldest \in 1..tip /\ healthy \in BOOLEAN
  /\ stored \subseteq Events /\ cursor \in 0..tip
  /\ serviceState \in {"ACTIVE", "RETIRING", "RETIRED"} /\ cutoffFixed \in BOOLEAN
  /\ gap \in BOOLEAN /\ covered \in BOOLEAN /\ incomplete \in BOOLEAN /\ attested \in BOOLEAN
  /\ pc \in [Pollers -> Places]
  /\ scan \in [Pollers -> [start : 1..LastLedger + 1, group : Groups,
                           from : 1..LastLedger + 1, last : 0..LastEvent,
                           safe : 0..LastLedger, pages : 0..MaxPages - 1,
                           through : 0..LastLedger, whole : BOOLEAN,
                           bounded : BOOLEAN, hole : BOOLEAN]]

HoleKnown == gap \/ attested

\* "Every retained event through this ledger has been persisted": what the
\* cursor has passed is stored, or was lost to retention and the hole is on
\* record, as a gap or as the operator's attestation that settled it.  Polls,
\* page ends, failures, deaths and the retirement interleave at will.
CursorCovers ==
  \A e \in Events : LedgerOf[e] <= cursor =>
    e \in stored \/ (HoleKnown /\ LedgerOf[e] < oldest)

\* "Move the cursor forward, never back" (advanceEventCursor), and a recorded
\* gap stays until an operator attests to the coverage: "Advancing a cursor
\* later must not erase the gap".
CoverageOnlyGrows == [][cursor' >= cursor /\ (gap /\ ~gap' => AttestCoverage)]_vars

\* A retirement that takes its poll for complete, with no gap on record and no
\* operator's word for it, has every event through its cutoff
\* (reconcileRetirement relies on it to conclude).
CutoffCovered ==
  covered /\ ~gap /\ ~attested => \A e \in Events : LedgerOf[e] <= Cutoff => e \in stored

\* Every event of a deployment that stays ACTIVE is stored at last, or the hole
\* it fell into is known; and a retirement whose cutoff is fixed stores every
\* event through it, unless a hole is known or an operator has attested.
EventsArrive ==
  \A e \in Events :
    /\ (LedgerOf[e] <= tip) ~> (e \in stored \/ gap \/ serviceState # "ACTIVE")
    /\ (cutoffFixed /\ LedgerOf[e] <= Cutoff) ~> (e \in stored \/ gap \/ attested)
=============================================================================
