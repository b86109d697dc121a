------------------------- MODULE EventCoverageProofs -------------------------
(***************************************************************************)
(* What a cursor promises: every event through it is stored, or was lost   *)
(* to the RPC's retention and the hole is on record, as a gap or as an     *)
(* operator's attestation.  The inductive                                  *)
(* invariant says the same of every poll under way: of the groups it has   *)
(* done, of the ledgers it takes for safe, and of the page position it     *)
(* reads on from.  It rests on what a page is: the first events of what    *)
(* the RPC holds, in stream order, and all of them unless it is full.      *)
(***************************************************************************)
EXTENDS EventCoverage, FiniteSetTheorems, WellFoundedInduction, TLAPS

-----------------------------------------------------------------------------
(* Least and greatest numbers                                              *)

LEMMA LeastExists ==
  ASSUME NEW T \in SUBSET Nat, T # {}
  PROVE  \E m \in T : \A k \in T : m <= k
<1>1. PICK R : R = OpToRel(<, Nat)
  OBVIOUS
<1>2. IsWellFoundedOn(R, Nat)
  BY <1>1, NatLessThanWellFounded
<1>3. \A a, b \in Nat : a < b => <<a, b>> \in R
  BY <1>1 DEF OpToRel
<1>4. PICK m \in T : \A y \in T : ~(<<y, m>> \in R)
  BY <1>2, WFMin
<1>5. \A k \in T : k \in Nat /\ m \in Nat /\ ~(k < m)
  BY <1>3, <1>4
<1> QED BY <1>5

LEMMA GreatestExists ==
  ASSUME NEW T \in SUBSET Nat, T # {}, NEW n \in Nat, \A k \in T : k <= n
  PROVE  \E m \in T : \A k \in T : k <= m
<1> DEFINE U == {b \in Nat : \A k \in T : k <= b}
<1>1. n \in U /\ U \in SUBSET Nat
  OBVIOUS
<1>2. PICK m \in U : \A b \in U : m <= b
  BY <1>1, LeastExists
<1>3. m \in Nat /\ \A k \in T : k <= m
  BY <1>2
<1>4. m \in T
  <2> SUFFICES ASSUME m \notin T PROVE FALSE
    OBVIOUS
  <2>1. PICK k \in T : TRUE
    OBVIOUS
  <2>2. \A j \in T : j <= m - 1
    BY <1>3
  <2>3. m - 1 \in Nat
    BY <1>3, <2>1, <2>2
  <2>4. m - 1 \in U
    BY <2>2, <2>3
  <2> QED BY <1>2, <1>3, <2>4
<1> QED BY <1>3, <1>4

LEMMA MaxIs ==
  ASSUME NEW T \in SUBSET Nat, T # {}, NEW n \in Nat, \A k \in T : k <= n
  PROVE  Max(T) \in T /\ Max(T) \in Nat /\ \A k \in T : k <= Max(T)
<1>1. PICK m \in T : \A k \in T : k <= m
  BY GreatestExists
<1>2. \E x \in T : \A y \in T : x >= y
  BY <1>1
<1>3. Max(T) \in T /\ \A y \in T : Max(T) >= y
  BY <1>2 DEF Max
<1> QED BY <1>3

LEMMA MaxOfTwo ==
  ASSUME NEW a \in Nat, NEW b \in Nat
  PROVE  /\ Max({a, b}) \in Nat /\ a <= Max({a, b}) /\ b <= Max({a, b})
         /\ Max({a, b}) = a \/ Max({a, b}) = b
<1>1. \E x \in {a, b} : \A y \in {a, b} : x >= y
  OBVIOUS
<1>2. Max({a, b}) \in {a, b} /\ \A y \in {a, b} : Max({a, b}) >= y
  BY <1>1 DEF Max
<1> QED BY <1>2

LEMMA MinOfTwo ==
  ASSUME NEW a \in Nat, NEW b \in Nat
  PROVE  /\ Min({a, b}) \in Nat /\ Min({a, b}) <= a /\ Min({a, b}) <= b
         /\ Min({a, b}) = a \/ Min({a, b}) = b
<1>1. \E x \in {a, b} : \A y \in {a, b} : x <= y
  OBVIOUS
<1>2. Min({a, b}) \in {a, b} /\ \A y \in {a, b} : Min({a, b}) <= y
  BY <1>1 DEF Min
<1> QED BY <1>2

-----------------------------------------------------------------------------
(* Pages                                                                   *)

LEMMA EventsAreNumbers ==
  ASSUME NEW T \in SUBSET Events
  PROVE  T \in SUBSET Nat /\ IsFiniteSet(T) /\ Cardinality(T) \in Nat
         /\ \A k \in T : k <= LastEvent
<1>1. LastEvent \in Nat
  BY CoverageAssumption
<1>2. T \in SUBSET Nat /\ \A k \in T : k <= LastEvent
  BY <1>1 DEF Events
<1>3. IsFiniteSet(T)
  BY <1>1, <1>2, FS_BoundedSetOfNaturals
<1> QED BY <1>2, <1>3, FS_CardinalityType

\* What comes before an event of a page, and is there, is on the page.
LEMMA PagesAreFirst ==
  ASSUME NEW p \in Pollers, NEW e \in Page(p), NEW d \in Available(p), d <= e
  PROVE  d \in Page(p)
<1> DEFINE A == Available(p)
           Upto(x) == {y \in A : y <= x}
<1>1. A \in SUBSET Events /\ e \in A
  BY DEF Available, Page
<1>2. Upto(d) \in SUBSET Upto(e) /\ Upto(e) \in SUBSET Events
  BY <1>1, EventsAreNumbers
<1>3. IsFiniteSet(Upto(e)) /\ Cardinality(Upto(e)) \in Nat /\ Cardinality(Upto(d)) \in Nat
  BY <1>2, EventsAreNumbers
<1>4. Cardinality(Upto(d)) <= Cardinality(Upto(e))
  BY <1>2, <1>3, FS_Subset
<1>5. Cardinality(Upto(e)) <= PageLimit /\ PageLimit \in Nat
  BY CoverageAssumption DEF Page
<1>6. Cardinality(Upto(d)) <= PageLimit
  BY <1>3, <1>4, <1>5
<1> QED BY <1>6 DEF Page

\* A page that is not full holds all there is.
LEMMA ShortPagesAreWhole ==
  ASSUME NEW p \in Pollers, ~IsFull(p)
  PROVE  Page(p) = Available(p)
<1> DEFINE A == Available(p)
           P == Page(p)
           Upto(x) == {y \in A : y <= x}
<1>0. PageLimit \in Nat \ {0}
  BY CoverageAssumption
<1>1. A \in SUBSET Events /\ P \in SUBSET A /\ P \in SUBSET Events
  BY DEF Available, Page
<1>2. Cardinality(P) \in Nat /\ IsFiniteSet(P)
  BY <1>1, EventsAreNumbers
<1>3. \A x \in A : x \in P <=> Cardinality(Upto(x)) <= PageLimit
  BY DEF Page
<1> SUFFICES ASSUME P # A PROVE FALSE
  OBVIOUS
\* The first event left out has at least PageLimit others before it ...
<1>4. PICK f \in A \ P : \A k \in A \ P : f <= k
  <2>1. A \ P \in SUBSET Nat /\ A \ P # {}
    BY <1>1, EventsAreNumbers
  <2> HIDE DEF A, P
  <2> QED BY <2>1, LeastExists
<1>5. Upto(f) \in SUBSET Events /\ IsFiniteSet(Upto(f)) /\ Cardinality(Upto(f)) \in Nat
  BY <1>1, EventsAreNumbers
<1>6. Cardinality(Upto(f)) > PageLimit
  BY <1>0, <1>3, <1>4, <1>5
<1>7. Upto(f) \ {f} \in SUBSET P
  BY <1>1, <1>4, EventsAreNumbers
<1>8. f \in Upto(f)
  BY <1>1, <1>4, EventsAreNumbers
<1>9. Cardinality(Upto(f) \ {f}) = Cardinality(Upto(f)) - 1
  BY <1>5, <1>8, FS_RemoveElement
<1>10. Cardinality(Upto(f) \ {f}) <= Cardinality(P)
  BY <1>2, <1>7, FS_Subset
<1>11. Cardinality(P) >= PageLimit
  BY <1>0, <1>2, <1>5, <1>6, <1>9, <1>10
\* ... and the last event on the page at most PageLimit up to it.
<1>12. P # {}
  <2>1. Cardinality(P) # 0
    BY <1>0, <1>2, <1>11
  <2> QED BY <1>2, <2>1, FS_EmptySet
<1>13. PICK m \in P : \A k \in P : k <= m
  <2>1. P \in SUBSET Nat /\ (\A k \in P : k <= LastEvent) /\ LastEvent \in Nat
    BY <1>1, EventsAreNumbers, CoverageAssumption
  <2> HIDE DEF P
  <2> QED BY <1>12, <2>1, GreatestExists
<1>14. P \in SUBSET Upto(m)
  BY <1>1, <1>13
<1>15. Cardinality(Upto(m)) <= PageLimit /\ IsFiniteSet(Upto(m)) /\ Cardinality(Upto(m)) \in Nat
  BY <1>1, <1>3, <1>13, EventsAreNumbers
<1>16. Cardinality(P) <= Cardinality(Upto(m))
  BY <1>14, <1>15, FS_Subset
<1>17. Cardinality(P) = PageLimit
  BY <1>0, <1>2, <1>11, <1>15, <1>16
<1> QED BY <1>17 DEF IsFull

ScanRecords == [start : 1..LastLedger + 1, group : Groups, from : 1..LastLedger + 1,
                last : 0..LastEvent, safe : 0..LastLedger, pages : 0..MaxPages - 1,
                through : 0..LastLedger, whole : BOOLEAN,
                bounded : BOOLEAN, hole : BOOLEAN]

\* What poll p has left behind where it reads.
Behind(p, e) == LedgerOf[e] < scan[p].from \/ e <= scan[p].last

LEMMA EventFacts ==
  /\ LastEvent \in Nat /\ LastLedger \in Nat \ {0} /\ Cutoff \in Nat \ {0} /\ Cutoff <= LastLedger
  /\ LastGroup \in Nat \ {0} /\ Window \in Nat \ {0} /\ MaxPages \in Nat \ {0}
  /\ PageLimit \in Nat \ {0}
  /\ \A e \in Events : /\ e \in Nat \ {0} /\ e <= LastEvent
                       /\ LedgerOf[e] \in Ledgers /\ LedgerOf[e] \in Nat \ {0}
                       /\ LedgerOf[e] <= LastLedger
                       /\ GroupOf[e] \in Groups /\ GroupOf[e] \in Nat
  /\ \A d, e \in Events : LedgerOf[d] < LedgerOf[e] => d < e
<1>1. /\ LastEvent \in Nat /\ LastLedger \in Nat \ {0} /\ Cutoff \in Nat \ {0}
      /\ Cutoff <= LastLedger /\ LastGroup \in Nat \ {0} /\ Window \in Nat \ {0}
      /\ MaxPages \in Nat \ {0} /\ PageLimit \in Nat \ {0}
  BY CoverageAssumption
<1>2. ASSUME NEW e \in Events
      PROVE  /\ e \in Nat \ {0} /\ e <= LastEvent
             /\ LedgerOf[e] \in Ledgers /\ LedgerOf[e] \in Nat \ {0} /\ LedgerOf[e] <= LastLedger
             /\ GroupOf[e] \in Groups /\ GroupOf[e] \in Nat
  <2>1. LedgerOf[e] \in Ledgers /\ GroupOf[e] \in Groups
    BY CoverageAssumption
  <2> QED BY <1>1, <2>1 DEF Events, Ledgers, Groups
<1>3. ASSUME NEW d \in Events, NEW e \in Events, LedgerOf[d] < LedgerOf[e]
      PROVE  d < e
  <2>1. e <= d => LedgerOf[e] <= LedgerOf[d]
    BY CoverageAssumption
  <2> QED BY <1>2, <1>3, <2>1
<1> QED BY <1>1, <1>2, <1>3

LEMMA ScanFacts ==
  ASSUME ECTypeOK, NEW p \in Pollers
  PROVE  /\ scan[p] \in ScanRecords
         /\ tip \in Nat /\ tip <= LastLedger /\ tip >= 1
         /\ oldest \in Nat /\ oldest <= tip /\ oldest >= 1
         /\ cursor \in Nat /\ cursor <= tip
         /\ scan[p].start \in Nat /\ scan[p].start >= 1 /\ scan[p].start <= LastLedger + 1
         /\ scan[p].from \in Nat /\ scan[p].from >= 1 /\ scan[p].from <= LastLedger + 1
         /\ scan[p].last \in Nat /\ scan[p].last <= LastEvent
         /\ scan[p].safe \in Nat /\ scan[p].safe <= LastLedger
         /\ scan[p].pages \in Nat /\ scan[p].pages <= MaxPages - 1
         /\ scan[p].through \in Nat /\ scan[p].through <= LastLedger
         /\ scan[p].group \in Nat /\ scan[p].group >= 1 /\ scan[p].group <= LastGroup
         /\ scan[p].whole \in BOOLEAN /\ scan[p].bounded \in BOOLEAN
<1>1. scan[p] \in ScanRecords
  BY DEF ECTypeOK, ScanRecords
<1>2. tip \in Nat /\ tip <= LastLedger /\ tip >= 1 /\ oldest \in Nat /\ oldest <= tip
      /\ oldest >= 1 /\ cursor \in Nat /\ cursor <= tip
  BY EventFacts DEF ECTypeOK, Ledgers
<1>3. /\ scan[p].start \in 1..LastLedger + 1 /\ scan[p].from \in 1..LastLedger + 1
      /\ scan[p].last \in 0..LastEvent /\ scan[p].safe \in 0..LastLedger
      /\ scan[p].pages \in 0..MaxPages - 1 /\ scan[p].through \in 0..LastLedger
      /\ scan[p].group \in 1..LastGroup
      /\ scan[p].whole \in BOOLEAN /\ scan[p].bounded \in BOOLEAN
  BY <1>1 DEF ScanRecords, Groups
<1> QED BY <1>1, <1>2, <1>3, EventFacts

LEMMA PageFacts ==
  ASSUME ECTypeOK, NEW p \in Pollers, scan[p].from <= tip
  PROVE  /\ Horizon(p) \in Nat /\ scan[p].from <= Horizon(p) /\ Horizon(p) <= tip
         /\ \A e \in Page(p) : /\ e \in Events /\ GroupOf[e] = scan[p].group
                               /\ e > scan[p].last /\ LedgerOf[e] <= Horizon(p)
                               /\ LedgerOf[e] >= scan[p].from
         /\ IsFull(p) => /\ Max(Page(p)) \in Page(p)
                         /\ \A e \in Page(p) : e <= Max(Page(p))
                         /\ PageEnd(p) = LedgerOf[Max(Page(p))]
         /\ ~IsFull(p) => PageEnd(p) = Horizon(p)
         /\ PageEnd(p) \in Nat /\ scan[p].from <= PageEnd(p) /\ PageEnd(p) <= Horizon(p)
         /\ PageCovers(p) \in Nat /\ PageCovers(p) <= PageEnd(p)
<1>1. /\ tip \in Nat /\ scan[p].from \in Nat /\ scan[p].from >= 1
  BY ScanFacts
<1>2. scan[p].from + Window - 1 \in Nat /\ scan[p].from <= scan[p].from + Window - 1
  BY <1>1, EventFacts
<1>3. /\ Horizon(p) \in Nat /\ scan[p].from <= Horizon(p) /\ Horizon(p) <= tip
  <2> DEFINE b == scan[p].from + Window - 1
  <2>1. /\ Min({tip, b}) \in Nat /\ Min({tip, b}) <= tip
        /\ Min({tip, b}) = tip \/ Min({tip, b}) = b
    BY <1>1, <1>2, MinOfTwo
  <2> QED BY <1>1, <1>2, <2>1 DEF Horizon
<1>4. \A e \in Page(p) : /\ e \in Events /\ GroupOf[e] = scan[p].group
                         /\ e > scan[p].last /\ LedgerOf[e] \in scan[p].from..Horizon(p)
  BY DEF Page, Available
<1>5. \A e \in Page(p) : LedgerOf[e] <= Horizon(p) /\ LedgerOf[e] >= scan[p].from
  BY <1>1, <1>3, <1>4
<1>6. Page(p) \in SUBSET Events
  BY <1>4
<1>7. ASSUME IsFull(p)
      PROVE  /\ Max(Page(p)) \in Page(p)
             /\ \A e \in Page(p) : e <= Max(Page(p))
             /\ PageEnd(p) = LedgerOf[Max(Page(p))]
  <2>1. Cardinality(Page(p)) # 0
    BY <1>7, EventFacts DEF IsFull
  <2>2. Page(p) # {}
    BY <2>1, FS_EmptySet
  <2>3. Page(p) \in SUBSET Nat /\ (\A k \in Page(p) : k <= LastEvent) /\ LastEvent \in Nat
    BY <1>6, EventsAreNumbers, EventFacts
  <2>4. Max(Page(p)) \in Page(p) /\ \A e \in Page(p) : e <= Max(Page(p))
    BY <2>2, <2>3, MaxIs
  <2> QED BY <1>7, <2>4 DEF PageEnd
<1>8. ~IsFull(p) => PageEnd(p) = Horizon(p)
  BY DEF PageEnd
<1>9. PageEnd(p) \in Nat /\ scan[p].from <= PageEnd(p) /\ PageEnd(p) <= Horizon(p)
  <2>1. CASE IsFull(p)
    <3>1. Max(Page(p)) \in Events
      BY <1>4, <1>7, <2>1
    <3> QED BY <1>5, <1>7, <2>1, <3>1, EventFacts
  <2>2. CASE ~IsFull(p)
    BY <1>3, <1>8, <2>2
  <2> QED BY <2>1, <2>2
<1>10. PageCovers(p) \in Nat /\ PageCovers(p) <= PageEnd(p)
  BY <1>1, <1>9 DEF PageCovers
<1> QED BY <1>3, <1>4, <1>5, <1>7, <1>8, <1>9, <1>10

\* What comes before an event of the page has been left behind or is on it.
LEMMA PagesReachBack ==
  ASSUME ECTypeOK, NEW p \in Pollers, scan[p].from <= tip,
         NEW x \in Page(p), NEW e \in Events, GroupOf[e] = scan[p].group, e <= x
  PROVE  e \in Page(p) \/ Behind(p, e)
<1> SUFFICES ASSUME ~Behind(p, e) PROVE e \in Page(p)
  OBVIOUS
<1>1. x \in Events /\ LedgerOf[x] <= Horizon(p) /\ Horizon(p) \in Nat
  BY PageFacts
<1>2. LedgerOf[e] <= LedgerOf[x] /\ LedgerOf[e] \in Nat /\ LedgerOf[x] \in Nat /\ e \in Nat
  BY <1>1, CoverageAssumption, EventFacts
<1>3. LedgerOf[e] >= scan[p].from /\ e > scan[p].last
  BY <1>2, ScanFacts DEF Behind
<1>4. e \in Available(p)
  BY <1>1, <1>2, <1>3, ScanFacts DEF Available
<1> QED BY <1>4, PagesAreFirst

\* What a short page looked at has been left behind or is on it.
LEMMA ShortPagesReachOn ==
  ASSUME ECTypeOK, NEW p \in Pollers, scan[p].from <= tip, ~IsFull(p),
         NEW e \in Events, GroupOf[e] = scan[p].group, LedgerOf[e] <= Horizon(p)
  PROVE  e \in Page(p) \/ Behind(p, e)
<1> SUFFICES ASSUME ~Behind(p, e) PROVE e \in Page(p)
  OBVIOUS
<1>1. LedgerOf[e] \in Nat /\ e \in Nat /\ Horizon(p) \in Nat
  BY EventFacts, PageFacts
<1>2. LedgerOf[e] >= scan[p].from /\ e > scan[p].last
  BY <1>1, ScanFacts DEF Behind
<1>3. e \in Available(p)
  BY <1>1, <1>2, ScanFacts DEF Available
<1> QED BY <1>3, ShortPagesAreWhole

\* PageCovers: the ledgers a page takes for complete are.
LEMMA CoveredIsRead ==
  ASSUME ECTypeOK, NEW p \in Pollers, scan[p].from <= tip,
         NEW e \in Events, GroupOf[e] = scan[p].group, LedgerOf[e] <= PageCovers(p)
  PROVE  e \in Page(p) \/ Behind(p, e)
<1>1. CASE IsFull(p)
  <2> DEFINE x == Max(Page(p))
  <2>1. x \in Page(p) /\ x \in Events /\ PageEnd(p) = LedgerOf[x] /\ PageEnd(p) \in Nat
    BY <1>1, PageFacts
  <2>2. LedgerOf[e] <= PageEnd(p) - 1
    BY <1>1 DEF PageCovers
  <2> HIDE DEF x
  <2>3. LedgerOf[e] < LedgerOf[x]
    BY <2>1, <2>2, EventFacts
  <2>4. e <= x
    BY <2>1, <2>3, EventFacts
  <2> QED BY <2>1, <2>4, PagesReachBack
<1>2. CASE ~IsFull(p)
  <2>1. LedgerOf[e] <= Horizon(p)
    BY <1>2, PageFacts DEF PageCovers
  <2> QED BY <1>2, <2>1, ShortPagesReachOn
<1> QED BY <1>1, <1>2

\* Where the next page starts, everything before has been read.
LEMMA NextPageFollows ==
  ASSUME ECTypeOK, NEW p \in Pollers, scan[p].from <= tip,
         NEW e \in Events, GroupOf[e] = scan[p].group,
         \/ LedgerOf[e] < (IF IsFull(p) THEN PageEnd(p) ELSE PageEnd(p) + 1)
         \/ e <= Max(Page(p) \cup {scan[p].last})
  PROVE  e \in Page(p) \/ Behind(p, e)
<1>0. scan[p].last \in Nat /\ e \in Nat /\ LedgerOf[e] \in Nat
  BY ScanFacts, EventFacts
<1>1. CASE e <= Max(Page(p) \cup {scan[p].last})
  <2> DEFINE T == Page(p) \cup {scan[p].last}
  <2>1. Page(p) \in SUBSET Events
    BY PageFacts
  <2>2. T \in SUBSET Nat /\ T # {} /\ \A k \in T : k <= LastEvent
    BY <1>0, <2>1, EventsAreNumbers, ScanFacts, ZenonT(60)
  <2>3. Max(T) \in T
    BY <2>2, MaxIs, EventFacts
  <2>4. CASE Max(T) \in Page(p)
    BY <1>1, <2>4, PagesReachBack
  <2>5. CASE Max(T) = scan[p].last
    BY <1>1, <2>5 DEF Behind
  <2> QED BY <2>3, <2>4, <2>5
<1>2. CASE IsFull(p) /\ LedgerOf[e] < PageEnd(p)
  <2>1. LedgerOf[e] <= PageCovers(p)
    BY <1>0, <1>2, PageFacts DEF PageCovers
  <2> QED BY <2>1, CoveredIsRead
<1>3. CASE ~IsFull(p) /\ LedgerOf[e] < PageEnd(p) + 1
  <2>1. LedgerOf[e] <= PageCovers(p)
    BY <1>0, <1>3, PageFacts DEF PageCovers
  <2> QED BY <2>1, CoveredIsRead
<1> QED BY <1>1, <1>2, <1>3

-----------------------------------------------------------------------------
(* The invariant                                                           *)

Kept(e) == e \in stored \/ (HoleKnown /\ LedgerOf[e] < oldest)

PollSound(p) ==
  /\ pc[p] # "idle" =>
       /\ scan[p].start <= cursor + 1 /\ scan[p].safe <= tip
       /\ Bounded(p) => Cutoff <= tip
  /\ pc[p] = "open" => scan[p].last = 0
  /\ pc[p] \in {"open", "read"} =>
       \A e \in Events :
         /\ GroupOf[e] < scan[p].group /\ LedgerOf[e] <= scan[p].through => Kept(e)
         /\ GroupOf[e] = scan[p].group /\ LedgerOf[e] <= scan[p].safe => Kept(e)
  /\ pc[p] = "read" =>
       /\ scan[p].from <= tip
       /\ \A e \in Events : GroupOf[e] = scan[p].group /\ Behind(p, e) => Kept(e)
  /\ pc[p] \in {"update", "create", "again"} =>
       /\ scan[p].through <= tip
       /\ \A e \in Events : LedgerOf[e] <= scan[p].through => Kept(e)

\* A cutoff is a closed ledger, and no poll outlives the retirement.
LifeSound ==
  /\ cutoffFixed => Cutoff <= tip
  /\ serviceState = "RETIRED" => NoPollOpen

CoverInv ==
  /\ ECTypeOK
  /\ CursorCovers
  /\ CutoffCovered
  /\ LifeSound
  /\ \A p \in Pollers : PollSound(p)

\* Nothing that was stored or known to be lost ceases to be.
Grows ==
  /\ stored \subseteq stored'
  /\ HoleKnown => HoleKnown'
  /\ tip <= tip' /\ oldest <= oldest' /\ cursor <= cursor'
  /\ tip' \in Nat /\ oldest' \in Nat /\ cursor' \in Nat

LEMMA KeptStays ==
  ASSUME ECTypeOK, Grows, NEW e \in Events, Kept(e)
  PROVE  Kept(e)'
<1>1. LedgerOf[e] \in Nat /\ LedgerOf[e]' = LedgerOf[e] /\ oldest \in Nat /\ oldest' \in Nat
      /\ oldest <= oldest'
  BY EventFacts DEF ECTypeOK, Grows
<1>2. CASE e \in stored
  BY <1>2 DEF Grows, Kept
<1>3. CASE HoleKnown /\ LedgerOf[e] < oldest
  <2>1. LedgerOf[e] < oldest'
    BY <1>1, <1>3
  <2> QED BY <1>3, <2>1 DEF Grows, Kept
<1> QED BY <1>2, <1>3 DEF Kept

LEMMA PollStays ==
  ASSUME CoverInv, Grows, NEW q \in Pollers, pc'[q] = pc[q], scan'[q] = scan[q]
  PROVE  PollSound(q)'
<1>1. /\ ECTypeOK /\ PollSound(q)
  BY DEF CoverInv
<1>2. \A e \in Events : Kept(e) => Kept(e)'
  BY <1>1, KeptStays
<1>3. /\ tip \in Nat /\ cursor \in Nat /\ scan[q].start \in Nat /\ scan[q].safe \in Nat
      /\ scan[q].from \in Nat /\ scan[q].through \in Nat /\ Cutoff \in Nat
      /\ tip' \in Nat /\ cursor' \in Nat /\ tip <= tip' /\ cursor <= cursor'
  BY <1>1, ScanFacts, EventFacts DEF Grows
<1>4. \A e \in Events : Behind(q, e)' <=> Behind(q, e)
  BY DEF Behind
<1>5. (pc[q] # "idle" =>
       /\ scan[q].start <= cursor + 1 /\ scan[q].safe <= tip
       /\ Bounded(q) => Cutoff <= tip)'
  BY <1>1, <1>3 DEF PollSound, Bounded
<1>6. (pc[q] = "open" => scan[q].last = 0)'
  BY <1>1 DEF PollSound
<1>7. (pc[q] \in {"open", "read"} =>
       \A e \in Events :
         /\ GroupOf[e] < scan[q].group /\ LedgerOf[e] <= scan[q].through => Kept(e)
         /\ GroupOf[e] = scan[q].group /\ LedgerOf[e] <= scan[q].safe => Kept(e))'
  BY <1>1, <1>2 DEF PollSound
<1>8. (pc[q] = "read" =>
       /\ scan[q].from <= tip
       /\ \A e \in Events : GroupOf[e] = scan[q].group /\ Behind(q, e) => Kept(e))'
  BY <1>1, <1>2, <1>3, <1>4 DEF PollSound
<1>9. (pc[q] \in {"update", "create", "again"} =>
       /\ scan[q].through <= tip
       /\ \A e \in Events : LedgerOf[e] <= scan[q].through => Kept(e))'
  BY <1>1, <1>2, <1>3 DEF PollSound
<1> QED BY <1>5, <1>6, <1>7, <1>8, <1>9 DEF PollSound

\* A poll leaves the deployment's life alone and erases no gap.
Steady ==
  /\ serviceState # "RETIRED"
  /\ UNCHANGED <<serviceState, cutoffFixed, attested>>
  /\ gap' \in BOOLEAN /\ covered' \in BOOLEAN /\ incomplete' \in BOOLEAN
  /\ gap => gap'

LEMMA ReportErasesNothing ==
  ASSUME NEW p \in Pollers, NEW r, Report(p, r)
  PROVE  gap' \in BOOLEAN /\ covered' \in BOOLEAN /\ incomplete' \in BOOLEAN /\ (gap => gap')
BY DEF Report

LEMMA PollsAreSteady ==
  ASSUME CoverInv, NEW p \in Pollers, PollStep(p) \/ PollTrouble(p)
  PROVE  Steady
<1>1. gap \in BOOLEAN /\ covered \in BOOLEAN /\ incomplete \in BOOLEAN
  BY DEF CoverInv, ECTypeOK
<1>2. pc[p] # "idle" => serviceState # "RETIRED"
  BY DEF CoverInv, LifeSound, NoPollOpen
<1>3. ASSUME UNCHANGED reportVars
      PROVE  gap' \in BOOLEAN /\ covered' \in BOOLEAN /\ incomplete' \in BOOLEAN /\ (gap => gap')
  BY <1>1, <1>3 DEF reportVars
<1>4. ASSUME NEW t, NEW ok, EndGroup(p, t, ok)
      PROVE  gap' \in BOOLEAN /\ covered' \in BOOLEAN /\ incomplete' \in BOOLEAN /\ (gap => gap')
  BY <1>3, <1>4, ReportErasesNothing DEF EndGroup
<1>5. Finish(p) =>
        gap' \in BOOLEAN /\ covered' \in BOOLEAN /\ incomplete' \in BOOLEAN /\ (gap => gap')
  BY ReportErasesNothing DEF Finish
<1>6. CASE Begin(p)
  BY <1>1, <1>6 DEF Begin, LacksCoverage, lifeVars, rowVars, reportVars, Steady
<1>7. CASE OpenHeld(p) \/ Die(p)
  BY <1>1, <1>2, <1>7 DEF OpenHeld, Opens, Asks, Die, lifeVars, rowVars, reportVars, Steady
<1>8. CASE OpenGap(p)
  <2>1. pc[p] # "idle" /\ UNCHANGED <<serviceState, cutoffFixed, attested, incomplete>> /\ KeepGap
    BY <1>8 DEF OpenGap, Opens, Asks, lifeVars
  <2> QED BY <1>1, <1>2, <2>1 DEF KeepGap, Steady
<1>9. CASE NothingNew(p)
  <2>1. pc[p] # "idle" /\ UNCHANGED <<serviceState, cutoffFixed, attested>>
        /\ \E t, ok : EndGroup(p, t, ok)
    BY <1>9 DEF NothingNew, lifeVars
  <2> QED BY <1>2, <1>4, <2>1 DEF Steady
<1>10. CASE ReadFails(p) \/ PageExpired(p)
  <2>1. pc[p] # "idle" /\ UNCHANGED <<serviceState, cutoffFixed, attested>>
        /\ \E t, ok : EndGroup(p, t, ok)
    BY <1>10 DEF ReadFails, PageExpired, Asks, lifeVars
  <2> QED BY <1>2, <1>4, <2>1 DEF Steady
<1>11. CASE ReadPage(p)
  <2>1. pc[p] # "idle" /\ UNCHANGED <<serviceState, cutoffFixed, attested>>
        /\ ((\E t, ok : EndGroup(p, t, ok)) \/ UNCHANGED reportVars)
    BY <1>11 DEF ReadPage, lifeVars
  <2> QED BY <1>2, <1>3, <1>4, <2>1 DEF Steady
<1>12. CASE IngestFails(p)
  <2>1. pc[p] # "idle" /\ UNCHANGED <<serviceState, cutoffFixed, attested>>
        /\ \E t, ok : EndGroup(p, t, ok)
    BY <1>12 DEF IngestFails, lifeVars
  <2> QED BY <1>2, <1>4, <2>1 DEF Steady
<1>13. CASE UpdateCursor(p) \/ CreateCursor(p)
  <2>1. pc[p] # "idle" /\ UNCHANGED <<serviceState, cutoffFixed, attested>>
        /\ (Finish(p) \/ UNCHANGED reportVars)
    BY <1>13 DEF UpdateCursor, CreateCursor, lifeVars
  <2> QED BY <1>2, <1>3, <1>5, <2>1 DEF Steady
<1> QED BY <1>6, <1>7, <1>8, <1>9, <1>10, <1>11, <1>12, <1>13 DEF PollStep, PollTrouble

\* One poll moves.
LEMMA PollMoves ==
  ASSUME CoverInv, Grows, Steady, NEW p \in Pollers,
         NEW place \in Places, NEW next \in ScanRecords,
         pc' = [pc EXCEPT ![p] = place], scan' = [scan EXCEPT ![p] = next],
         stored' \subseteq Events, cursor' <= tip',
         UNCHANGED <<tip, oldest, healthy>>,
         CursorCovers', CutoffCovered', PollSound(p)'
  PROVE  CoverInv'
<1>1. /\ pc \in [Pollers -> Places] /\ scan \in [Pollers -> ScanRecords]
      /\ tip \in Ledgers /\ oldest \in 1..tip /\ healthy \in BOOLEAN
  BY DEF CoverInv, ECTypeOK, ScanRecords
<1>2. /\ pc' \in [Pollers -> Places] /\ scan' \in [Pollers -> ScanRecords]
      /\ \A q \in Pollers : q # p => pc'[q] = pc[q] /\ scan'[q] = scan[q]
  BY <1>1
<1>3. cursor' \in 0..tip'
  BY DEF Grows
<1>4. tip' \in Ledgers /\ oldest' \in 1..tip' /\ healthy' \in BOOLEAN
  BY <1>1
<1>5. ECTypeOK'
  <2>1. /\ serviceState' \in {"ACTIVE", "RETIRING", "RETIRED"} /\ cutoffFixed' \in BOOLEAN
        /\ attested' \in BOOLEAN
        /\ gap' \in BOOLEAN /\ covered' \in BOOLEAN /\ incomplete' \in BOOLEAN
    BY DEF Steady, CoverInv, ECTypeOK
  <2> QED BY <1>2, <1>3, <1>4, <2>1 DEF ECTypeOK, ScanRecords
<1>6. \A q \in Pollers : PollSound(q)'
  BY <1>2, PollStays
<1>7. LifeSound'
  BY DEF Steady, CoverInv, LifeSound
<1> QED BY <1>5, <1>6, <1>7 DEF CoverInv

\* A poll that is complete through n, and what its retirement makes of it.
LEMMA CoveredSteps ==
  ASSUME CoverInv, Grows, Steady, NEW n \in Nat,
         \A e \in Events : LedgerOf[e] <= n => Kept(e)',
         covered' => covered \/ n >= Cutoff
  PROVE  CutoffCovered'
<1> SUFFICES ASSUME covered', ~gap', ~attested', NEW e \in Events, LedgerOf[e] <= Cutoff
             PROVE  e \in stored'
  BY DEF CutoffCovered
<1>1. CASE covered
  BY <1>1 DEF CoverInv, CutoffCovered, Grows, Steady
<1>2. CASE n >= Cutoff
  <2>1. LedgerOf[e] <= n
    BY <1>2, EventFacts
  <2>2. Kept(e)'
    BY <2>1
  <2> QED BY <2>2 DEF Kept, HoleKnown
<1> QED BY <1>1, <1>2

LEMMA NoScanIsAScan == NoScan \in ScanRecords
BY EventFacts DEF NoScan, ScanRecords, Groups

\* EndGroup: the scan of a group ends with coverage through t.
LEMMA EndGroupSteps ==
  ASSUME CoverInv, NEW p \in Pollers, pc[p] \in {"open", "read"},
         NEW t \in Nat, t <= tip, NEW ok \in BOOLEAN, EndGroup(p, t, ok), Steady,
         UNCHANGED <<tip, oldest, healthy, cursor>>,
         stored \subseteq stored', stored' \subseteq Events,
         \A e \in Events : GroupOf[e] = scan[p].group /\ LedgerOf[e] <= t => Kept(e)'
  PROVE  CoverInv'
<1> DEFINE r == scan[p]
           m == LeastAdvanced(t, r.through)
           end == [r EXCEPT !.through = LeastAdvanced(t, @), !.whole = @ /\ ok,
                       !.group = r.group + 1, !.from = r.start, !.last = 0,
                       !.safe = r.start - 1, !.pages = 0]
<1>1. ECTypeOK /\ PollSound(p) /\ CursorCovers
  BY DEF CoverInv
<1>2. /\ tip \in Nat /\ tip <= LastLedger /\ cursor \in Nat /\ cursor <= tip
      /\ oldest \in Nat /\ Cutoff \in Nat
      /\ r.start \in Nat /\ r.start >= 1 /\ r.start <= LastLedger + 1 /\ r.through \in Nat
      /\ r.group \in Nat /\ r.group >= 1 /\ r.group <= LastGroup /\ LastGroup \in Nat
      /\ r \in ScanRecords /\ LastLedger \in Nat
  BY <1>1, ScanFacts, EventFacts
<1>3. m \in Nat /\ m <= t /\ m <= r.through /\ m <= tip
  BY <1>2 DEF LeastAdvanced
<1>4. Grows
  BY <1>2 DEF Grows, Steady, HoleKnown
<1>5. \A e \in Events : Kept(e) => Kept(e)'
  BY <1>1, <1>4, KeptStays
<1>6. \A e \in Events : GroupOf[e] <= r.group /\ LedgerOf[e] <= m => Kept(e)'
  <2> SUFFICES ASSUME NEW e \in Events, GroupOf[e] <= r.group, LedgerOf[e] <= m
               PROVE  Kept(e)'
    OBVIOUS
  <2>1. GroupOf[e] \in Nat /\ LedgerOf[e] \in Nat
    BY EventFacts
  <2>2. CASE GroupOf[e] = r.group
    BY <1>2, <1>3, <2>1, <2>2
  <2>3. CASE GroupOf[e] < r.group
    <3>1. Kept(e)
      BY <1>1, <1>2, <1>3, <2>1, <2>3 DEF PollSound
    <3> QED BY <1>5, <3>1
  <2> QED BY <1>2, <2>1, <2>2, <2>3
<1>7. /\ end.through = m /\ end.group = r.group + 1 /\ end.from = r.start /\ end.last = 0
      /\ end.safe = r.start - 1 /\ end.pages = 0 /\ end.start = r.start
      /\ end.whole = (r.whole /\ ok) /\ end.bounded = r.bounded
  BY <1>2 DEF ScanRecords
<1>8. end \in [start : 1..LastLedger + 1, group : Nat, from : 1..LastLedger + 1,
                last : 0..LastEvent, safe : 0..LastLedger, pages : 0..MaxPages - 1,
                through : 0..LastLedger, whole : BOOLEAN,
                bounded : BOOLEAN, hole : BOOLEAN]
  <2>1. m \in 0..LastLedger /\ r.start - 1 \in 0..LastLedger /\ r.start \in 1..LastLedger + 1
        /\ r.group + 1 \in Nat /\ 0 \in 0..LastEvent /\ 0 \in 0..MaxPages - 1
    BY <1>2, <1>3, EventFacts
  <2>2. PICK w \in BOOLEAN : w = (r.whole /\ ok)
    OBVIOUS
  <2>3. end = [r EXCEPT !.through = m, !.whole = w, !.group = r.group + 1, !.from = r.start,
                        !.last = 0, !.safe = r.start - 1, !.pages = 0]
    BY <2>2
  <2> HIDE DEF m, end
  <2> QED BY <1>2, <2>1, <2>3 DEF ScanRecords
<1>9. UNCHANGED covered => CutoffCovered'
  BY <1>2, <1>4 DEF CoverInv, CutoffCovered, Grows, Steady
<1>10. CursorCovers'
  <2> SUFFICES ASSUME NEW e \in Events, LedgerOf[e] <= cursor'
               PROVE  e \in stored' \/ (HoleKnown' /\ LedgerOf[e] < oldest')
    BY DEF CursorCovers
  <2>1. Kept(e)
    BY <1>1 DEF CursorCovers, Kept
  <2> QED BY <1>5, <2>1 DEF Kept
<1>12. pc \in [Pollers -> Places] /\ scan \in [Pollers -> ScanRecords] /\ cursor' <= tip'
  BY <1>1, <1>2 DEF ECTypeOK, ScanRecords
<1> HIDE DEF end, m
<1>13. CASE /\ r.group < LastGroup
            /\ scan' = [scan EXCEPT ![p] = end]
            /\ pc' = [pc EXCEPT ![p] = "open"]
            /\ UNCHANGED reportVars
  <2>1. end \in ScanRecords
    BY <1>2, <1>7, <1>8, <1>13 DEF ScanRecords, Groups
  <2>2. pc'[p] = "open" /\ scan'[p] = end
    BY <1>12, <1>13
  <2>3. \A e \in Events :
          /\ GroupOf[e] < end.group /\ LedgerOf[e] <= end.through => Kept(e)'
          /\ GroupOf[e] = end.group /\ LedgerOf[e] <= end.safe => Kept(e)'
    <3> SUFFICES ASSUME NEW e \in Events
                 PROVE  /\ GroupOf[e] < end.group /\ LedgerOf[e] <= end.through => Kept(e)'
                        /\ GroupOf[e] = end.group /\ LedgerOf[e] <= end.safe => Kept(e)'
      OBVIOUS
    <3>1. GroupOf[e] < end.group => GroupOf[e] <= r.group
      BY <1>2, <1>7, EventFacts
    <3>2. LedgerOf[e] <= end.safe => Kept(e)
      <4>1. r.start <= cursor + 1
        BY <1>1 DEF PollSound
      <4> QED BY <1>1, <1>2, <1>7, <4>1, EventFacts DEF CursorCovers, Kept
    <3> QED BY <1>5, <1>6, <1>7, <3>1, <3>2
  <2>4. end.start <= cursor' + 1 /\ end.safe <= tip' /\ (Bounded(p) => Cutoff <= tip')
    BY <1>1, <1>2, <1>7 DEF PollSound
  <2>5. PollSound(p)'
    BY <1>7, <2>2, <2>3, <2>4 DEF PollSound, Bounded
  <2>6. "open" \in Places
    BY DEF Places
  <2>7. CutoffCovered'
    BY <1>9, <1>13 DEF reportVars
  <2> QED BY <1>4, <1>10, <1>12, <1>13, <2>1, <2>5, <2>6, <2>7, PollMoves
<1>14. CASE /\ r.group = LastGroup
            /\ scan' = [scan EXCEPT ![p] = [end EXCEPT !.group = 1]]
            /\ pc' = [pc EXCEPT ![p] = "update"]
            /\ UNCHANGED reportVars
  <2> DEFINE next == [end EXCEPT !.group = 1]
  <2>1. /\ next \in ScanRecords /\ next.through = m /\ next.start = r.start
        /\ next.safe = r.start - 1 /\ next.bounded = r.bounded
    BY <1>2, <1>7, <1>8 DEF ScanRecords, Groups
  <2>2. pc'[p] = "update" /\ scan'[p] = next
    BY <1>12, <1>14
  <2> HIDE DEF next
  <2>3. \A e \in Events : LedgerOf[e] <= next.through => Kept(e)'
    <3>1. \A e \in Events : GroupOf[e] <= r.group
      BY <1>14, EventFacts DEF Groups
    <3> QED BY <1>6, <2>1, <3>1
  <2>4. next.start <= cursor' + 1 /\ next.safe <= tip' /\ (Bounded(p) => Cutoff <= tip')
        /\ next.through <= tip'
    BY <1>1, <1>2, <1>3, <2>1 DEF PollSound
  <2>5. PollSound(p)'
    BY <2>1, <2>2, <2>3, <2>4 DEF PollSound, Bounded
  <2>6. "update" \in Places /\ CutoffCovered'
    BY <1>9, <1>14 DEF Places, reportVars
  <2>7. scan' = [scan EXCEPT ![p] = next]
    BY <1>14 DEF next
  <2> QED BY <1>4, <1>10, <1>12, <1>14, <2>1, <2>5, <2>6, <2>7, PollMoves
<1>15. CASE /\ r.group = LastGroup
            /\ scan' = [scan EXCEPT ![p] = NoScan]
            /\ pc' = [pc EXCEPT ![p] = "idle"]
            /\ Report(p, end)
  <2>1. \A e \in Events : LedgerOf[e] <= m => Kept(e)'
    <3>1. \A e \in Events : GroupOf[e] <= r.group
      BY <1>15, EventFacts DEF Groups
    <3> QED BY <1>6, <3>1
  <2>2. covered' => covered \/ m >= Cutoff
    BY <1>7, <1>15 DEF Report
  <2>3. CutoffCovered'
    BY <1>3, <1>4, <2>1, <2>2, CoveredSteps
  <2>4. pc'[p] = "idle"
    BY <1>12, <1>15
  <2>5. PollSound(p)'
    BY <2>4 DEF PollSound
  <2>6. "idle" \in Places
    BY DEF Places
  <2> QED BY <1>4, <1>10, <1>12, <1>15, <2>3, <2>5, <2>6, NoScanIsAScan, PollMoves
<1> QED BY <1>13, <1>14, <1>15 DEF EndGroup, end, m

\* The chain moves on and an outage begins or ends: the polls stand still.
LEMMA ChainSteps ==
  ASSUME CoverInv, Close \/ Expire \/ Falter
  PROVE  CoverInv'
<1>1. /\ ECTypeOK /\ UNCHANGED <<stored, cursor, gap, covered, incomplete, pc, scan>>
      /\ UNCHANGED <<serviceState, cutoffFixed, attested>>
      /\ tip \in Nat /\ oldest \in Nat /\ cursor \in Nat /\ tip <= LastLedger /\ cursor <= tip
      /\ oldest <= tip /\ oldest >= 1 /\ LastLedger \in Nat /\ tip >= 1
  BY ScanFacts, EventFacts
     DEF CoverInv, Close, Expire, Falter, rowVars, reportVars, lifeVars, ECTypeOK, Ledgers
<1>2. /\ tip' \in Ledgers /\ oldest' \in 1..tip' /\ tip <= tip' /\ oldest <= oldest'
      /\ healthy' \in BOOLEAN
  <2>1. CASE Close
    BY <1>1, <2>1 DEF Close, Ledgers, ECTypeOK
  <2>2. CASE Expire
    BY <1>1, <2>2 DEF Expire, Ledgers, ECTypeOK
  <2>3. CASE Falter
    BY <1>1, <2>3 DEF Falter, Ledgers, ECTypeOK
  <2> QED BY <2>1, <2>2, <2>3
<1>3. Grows
  BY <1>1, <1>2 DEF Grows, Ledgers, HoleKnown
<1>4. cursor' \in 0..tip'
  BY <1>1, <1>2 DEF Ledgers
<1>5. ECTypeOK'
  BY <1>1, <1>2, <1>4 DEF ECTypeOK
<1>6. CutoffCovered'
  BY <1>1 DEF CoverInv, CutoffCovered
<1>7. CursorCovers'
  <2> SUFFICES ASSUME NEW e \in Events, LedgerOf[e] <= cursor'
               PROVE  e \in stored' \/ (HoleKnown' /\ LedgerOf[e] < oldest')
    BY DEF CursorCovers
  <2>1. Kept(e)
    BY <1>1 DEF CoverInv, CursorCovers, Kept
  <2> QED BY <1>1, <1>3, <2>1, KeptStays DEF Kept
<1>8. \A p \in Pollers : PollSound(p)'
  BY <1>1, <1>3, PollStays
<1>9. LifeSound'
  BY <1>1, <1>2, EventFacts DEF CoverInv, LifeSound, NoPollOpen, Ledgers
<1> QED BY <1>5, <1>6, <1>7, <1>8, <1>9 DEF CoverInv

\* The retirement moves on: the polls stand still.
LEMMA LifeSteps ==
  ASSUME CoverInv, Retire \/ FixCutoff \/ AttestCoverage \/ Conclude
  PROVE  CoverInv'
<1>1. /\ ECTypeOK /\ CursorCovers /\ CutoffCovered /\ LifeSound
  BY DEF CoverInv
<1>2. /\ UNCHANGED <<tip, oldest, healthy, stored, cursor, pc, scan>>
  BY DEF Retire, FixCutoff, AttestCoverage, Conclude, chainVars, rowVars
<1>3. /\ gap' \in BOOLEAN /\ covered' \in BOOLEAN /\ incomplete' \in BOOLEAN
      /\ attested' \in BOOLEAN /\ cutoffFixed' \in BOOLEAN
      /\ serviceState' \in {"ACTIVE", "RETIRING", "RETIRED"}
      /\ HoleKnown => HoleKnown'
      /\ attested' \/ (gap' = gap /\ covered' = covered /\ attested' = attested)
      /\ (cutoffFixed' => cutoffFixed \/ Cutoff <= tip)
      /\ (serviceState' = "RETIRED" => serviceState = "RETIRED" \/ NoPollOpen)
  <2>0. /\ gap \in BOOLEAN /\ covered \in BOOLEAN /\ incomplete \in BOOLEAN
        /\ attested \in BOOLEAN /\ cutoffFixed \in BOOLEAN
        /\ serviceState \in {"ACTIVE", "RETIRING", "RETIRED"}
    BY <1>1 DEF ECTypeOK
  <2>1. CASE Retire
    BY <2>0, <2>1 DEF Retire, rowVars, reportVars, HoleKnown
  <2>2. CASE FixCutoff
    BY <2>0, <2>2 DEF FixCutoff, rowVars, reportVars, HoleKnown
  <2>3. CASE AttestCoverage
    BY <2>0, <2>3 DEF AttestCoverage, HoleKnown
  <2>4. CASE Conclude
    BY <2>0, <2>4 DEF Conclude, HoleKnown
  <2> QED BY <2>1, <2>2, <2>3, <2>4
<1>4. ECTypeOK'
  BY <1>1, <1>2, <1>3 DEF ECTypeOK
<1>5. Grows
  <2>1. tip \in Nat /\ oldest \in Nat /\ cursor \in Nat
    BY <1>1, EventFacts DEF ECTypeOK, Ledgers
  <2> QED BY <1>2, <1>3, <2>1 DEF Grows
<1>6. CursorCovers'
  <2> SUFFICES ASSUME NEW e \in Events, LedgerOf[e] <= cursor'
               PROVE  e \in stored' \/ (HoleKnown' /\ LedgerOf[e] < oldest')
    BY DEF CursorCovers
  <2>1. e \in stored \/ (HoleKnown /\ LedgerOf[e] < oldest)
    BY <1>1, <1>2 DEF CursorCovers
  <2> QED BY <1>2, <1>3, <2>1
<1>7. CutoffCovered'
  <2> SUFFICES ASSUME covered', ~gap', ~attested', NEW e \in Events, LedgerOf[e] <= Cutoff
               PROVE  e \in stored'
    BY DEF CutoffCovered
  <2>0. gap' = gap /\ covered' = covered /\ attested' = attested
    BY <1>3, Zenon
  <2>1. covered /\ ~gap /\ ~attested
    BY <2>0, Zenon
  <2>2. e \in stored
    BY <1>1, <2>1 DEF CutoffCovered
  <2> QED BY <1>2, <2>2
<1>8. LifeSound'
  BY <1>1, <1>2, <1>3 DEF LifeSound, NoPollOpen
<1>9. \A p \in Pollers : PollSound(p)'
  BY <1>2, <1>5, PollStays
<1> QED BY <1>4, <1>6, <1>7, <1>8, <1>9 DEF CoverInv

LEMMA PollSteps ==
  ASSUME CoverInv, NEW p \in Pollers, PollStep(p) \/ PollTrouble(p)
  PROVE  CoverInv'
<1> DEFINE r == scan[p]
<1>0. Steady /\ UNCHANGED attested /\ (HoleKnown => HoleKnown') /\ (gap => gap')
  BY PollsAreSteady DEF Steady, HoleKnown
<1>1. ECTypeOK /\ PollSound(p) /\ CursorCovers /\ CutoffCovered
  BY DEF CoverInv
<1>2. /\ tip \in Nat /\ tip <= LastLedger /\ tip >= 1 /\ cursor \in Nat /\ cursor <= tip
      /\ oldest \in Nat /\ oldest >= 1 /\ oldest <= tip
      /\ r.start \in Nat /\ r.start >= 1 /\ r.start <= LastLedger + 1
      /\ r.from \in Nat /\ r.safe \in Nat /\ r.last \in Nat /\ r.pages \in Nat
      /\ r.through \in Nat /\ r.through <= LastLedger
      /\ r.group \in Nat /\ r.group >= 1 /\ r.group <= LastGroup
      /\ r \in ScanRecords
  BY <1>1, ScanFacts
<1>3. /\ LastEvent \in Nat /\ LastLedger \in Nat \ {0} /\ Cutoff \in Nat \ {0}
      /\ Cutoff <= LastLedger /\ LastGroup \in Nat \ {0} /\ MaxPages \in Nat \ {0}
  BY EventFacts
<1>4. /\ pc \in [Pollers -> Places] /\ scan \in [Pollers -> ScanRecords]
      /\ stored \subseteq Events /\ gap \in BOOLEAN /\ covered \in BOOLEAN
  BY <1>1 DEF ECTypeOK, ScanRecords
<1>5. pc[p] # "idle" =>
        /\ r.start <= cursor + 1 /\ r.safe <= tip
        /\ Bounded(p) => Cutoff <= tip
  BY <1>1 DEF PollSound
\* The rows stay.
<1>6. ASSUME UNCHANGED <<tip, oldest, stored, cursor, gap>>
      PROVE  Grows /\ CursorCovers' /\ (UNCHANGED covered => CutoffCovered')
             /\ \A e \in Events : Kept(e)' <=> Kept(e)
  <2>1. HoleKnown' = HoleKnown /\ attested' = attested
    BY <1>0, <1>6 DEF HoleKnown
  <2> QED BY <1>1, <1>2, <1>6, <2>1 DEF Grows, CursorCovers, CutoffCovered, Kept
\* A scan ends with nothing stored.
<1>7. ASSUME NEW t \in Nat, t <= tip, NEW ok \in BOOLEAN, EndGroup(p, t, ok),
             pc[p] \in {"open", "read"},
             UNCHANGED <<chainVars, stored, cursor>>,
             \A e \in Events : GroupOf[e] = r.group /\ LedgerOf[e] <= t => Kept(e)
      PROVE  CoverInv'
  <2>1. UNCHANGED <<tip, oldest, healthy, stored, cursor>>
    BY <1>7 DEF chainVars
  <2>2. \A e \in Events : GroupOf[e] = r.group /\ LedgerOf[e] <= t => Kept(e)'
    <3>1. Grows
      BY <1>0, <1>2, <2>1 DEF Grows
    <3> QED BY <1>1, <1>7, <3>1, KeptStays
  <2>3. stored \subseteq stored' /\ stored' \subseteq Events
    BY <1>4, <2>1
  <2> QED BY <1>0, <1>7, <2>1, <2>2, <2>3, EndGroupSteps
\* What lies before the start of a poll is covered by the cursor.
<1>8. ASSUME pc[p] # "idle", NEW e \in Events, LedgerOf[e] <= r.start - 1
      PROVE  Kept(e)
  <2>1. LedgerOf[e] <= cursor
    BY <1>2, <1>5, <1>8, EventFacts
  <2> QED BY <1>1, <2>1 DEF CursorCovers, Kept
<1>9. ASSUME pc[p] \in {"open", "read"}, NEW e \in Events, GroupOf[e] = r.group,
             LedgerOf[e] <= r.safe
      PROVE  Kept(e)
  BY <1>1, <1>9 DEF PollSound
<1>10. CASE Begin(p)
  <2> DEFINE next == [NoScan EXCEPT !.start = cursor + 1, !.safe = cursor,
                                    !.bounded = LacksCoverage]
  <2>1. next \in ScanRecords /\ next.start = cursor + 1 /\ next.safe = cursor
        /\ next.last = 0 /\ next.group = 1 /\ (next.bounded => cutoffFixed)
    <3>1. cursor + 1 \in 1..LastLedger + 1 /\ cursor \in 0..LastLedger
      BY <1>2, <1>3
    <3>2. next \in ScanRecords
      <4>1. LacksCoverage \in BOOLEAN
        BY DEF LacksCoverage
      <4> QED BY <3>1, <4>1, NoScanIsAScan DEF ScanRecords
    <3>3. /\ next.start = cursor + 1 /\ next.safe = cursor
          /\ next.last = 0 /\ next.group = 1 /\ (next.bounded => cutoffFixed)
      BY DEF NoScan, LacksCoverage
    <3> QED BY <3>2, <3>3
  <2>2. /\ pc' = [pc EXCEPT ![p] = "open"] /\ scan' = [scan EXCEPT ![p] = next]
        /\ UNCHANGED <<tip, oldest, healthy, stored, cursor, gap, covered>>
    BY <1>10 DEF Begin, chainVars, rowVars, reportVars
  <2> HIDE DEF next
  <2>3. pc'[p] = "open" /\ scan'[p] = next
    BY <1>4, <2>2
  <2>4. Grows /\ CursorCovers' /\ CutoffCovered' /\ \A e \in Events : Kept(e)' <=> Kept(e)
    BY <1>6, <2>2
  <2>5. \A e \in Events :
          /\ GroupOf[e] < next.group /\ LedgerOf[e] <= next.through => Kept(e)'
          /\ GroupOf[e] = next.group /\ LedgerOf[e] <= next.safe => Kept(e)'
    <3> SUFFICES ASSUME NEW e \in Events
                 PROVE  /\ ~(GroupOf[e] < 1)
                        /\ LedgerOf[e] <= cursor => Kept(e)
      BY <2>1, <2>4
    <3>1. GroupOf[e] \in Nat \ {0}
      BY EventFacts DEF Groups
    <3> QED BY <1>1, <3>1 DEF CursorCovers, Kept
  <2>6. next.start <= cursor' + 1 /\ next.safe <= tip' /\ (next.bounded => Cutoff <= tip')
    BY <1>2, <1>3, <2>1, <2>2 DEF CoverInv, LifeSound
  <2>7. PollSound(p)'
    BY <2>1, <2>3, <2>5, <2>6 DEF PollSound, Bounded
  <2>8. "open" \in Places /\ cursor' <= tip' /\ stored' \subseteq Events
    BY <1>2, <1>4, <2>2 DEF Places
  <2> QED BY <1>0, <2>1, <2>2, <2>4, <2>7, <2>8, PollMoves
<1>11. CASE NothingNew(p)
  <2>1. pc[p] = "open" /\ UNCHANGED <<chainVars, stored, cursor>>
    BY <1>11 DEF NothingNew
  <2>2. CASE ~Asks(p) /\ EndGroup(p, Cutoff, TRUE)
    <3>1. r.bounded /\ Bounded(p) /\ r.start > Cutoff
      BY <1>2, <1>3, <2>1, <2>2 DEF Asks, Bounded
    <3>2. Cutoff <= tip /\ Cutoff <= r.start - 1 /\ Cutoff \in Nat
      BY <1>2, <1>3, <1>5, <2>1, <3>1
    <3>3. \A e \in Events : LedgerOf[e] <= Cutoff => LedgerOf[e] <= r.start - 1
      BY <1>2, <3>2, EventFacts
    <3>4. \A e \in Events : GroupOf[e] = r.group /\ LedgerOf[e] <= Cutoff => Kept(e)
      BY <1>8, <2>1, <3>3
    <3> HIDE DEF r
    <3> QED BY <1>7, <2>1, <2>2, <3>2, <3>4 DEF r
  <2>3. CASE r.start > tip /\ EndGroup(p, r.start - 1, TRUE)
    <3>1. r.start - 1 \in Nat /\ r.start - 1 <= tip
      BY <1>2, <1>5, <2>1
    <3>2. \A e \in Events : GroupOf[e] = r.group /\ LedgerOf[e] <= r.start - 1 => Kept(e)
      BY <1>8, <2>1
    <3> QED BY <1>7, <2>1, <2>3, <3>1, <3>2
  <2> QED BY <1>11, <2>2, <2>3 DEF NothingNew
\* A page is to be read from here on.
<1>12. ASSUME NEW next \in ScanRecords, next.start = r.start, next.group = r.group,
              next.safe = r.safe, next.through = r.through, next.last = r.last,
              next.bounded = r.bounded, next.from <= tip, pc[p] = "open",
              pc' = [pc EXCEPT ![p] = "read"], scan' = [scan EXCEPT ![p] = next],
              UNCHANGED <<tip, oldest, healthy, stored, cursor>>,
              CutoffCovered',
              \A e \in Events : LedgerOf[e] < next.from => Kept(e)'
       PROVE  CoverInv'
  <2>1. pc'[p] = "read" /\ scan'[p] = next
    BY <1>4, <1>12
  <2>2. Grows
    BY <1>0, <1>2, <1>12 DEF Grows
  <2>3. \A e \in Events : Kept(e) => Kept(e)'
    BY <1>1, <2>2, KeptStays
  <2>4. CursorCovers'
    <3> SUFFICES ASSUME NEW e \in Events, LedgerOf[e] <= cursor'
                 PROVE  e \in stored' \/ (HoleKnown' /\ LedgerOf[e] < oldest')
      BY DEF CursorCovers
    <3>1. Kept(e)
      BY <1>1, <1>12 DEF CursorCovers, Kept
    <3> QED BY <2>3, <3>1 DEF Kept
  <2>5. r.last = 0
    BY <1>1, <1>12 DEF PollSound
  <2>6. \A e \in Events : GroupOf[e] = next.group /\ Behind(p, e)' => Kept(e)'
    <3> SUFFICES ASSUME NEW e \in Events, Behind(p, e)' PROVE Kept(e)'
      OBVIOUS
    <3>1. LedgerOf[e] < next.from \/ e <= 0
      BY <1>12, <2>1, <2>5 DEF Behind
    <3>2. ~(e <= 0)
      BY EventFacts
    <3> QED BY <1>12, <3>1, <3>2
  <2>7. \A e \in Events :
          /\ GroupOf[e] < next.group /\ LedgerOf[e] <= next.through => Kept(e)'
          /\ GroupOf[e] = next.group /\ LedgerOf[e] <= next.safe => Kept(e)'
    BY <1>1, <1>12, <2>3 DEF PollSound
  <2>8. next.start <= cursor' + 1 /\ next.safe <= tip' /\ (Bounded(p) => Cutoff <= tip')
        /\ next.from <= tip'
    BY <1>5, <1>12
  <2>9. PollSound(p)'
    BY <1>12, <2>1, <2>6, <2>7, <2>8 DEF PollSound, Bounded
  <2>10. "read" \in Places /\ cursor' <= tip' /\ stored' \subseteq Events
    BY <1>2, <1>4, <1>12 DEF Places
  <2> QED BY <1>0, <1>12, <2>2, <2>4, <2>9, <2>10, PollMoves
<1>13. CASE OpenHeld(p)
  <2> DEFINE next == [r EXCEPT !.from = r.start]
  <2>1. pc[p] = "open" /\ r.start <= tip /\ UNCHANGED <<chainVars, rowVars>>
    BY <1>13 DEF OpenHeld, Opens, Asks
  <2>2. next \in ScanRecords
    BY <1>2, <1>3 DEF ScanRecords
  <2>3. /\ next.start = r.start /\ next.group = r.group /\ next.safe = r.safe
        /\ next.through = r.through /\ next.last = r.last /\ next.from = r.start
        /\ next.bounded = r.bounded
    BY <1>2 DEF ScanRecords
  <2>4. pc' = [pc EXCEPT ![p] = "read"] /\ scan' = [scan EXCEPT ![p] = next]
    BY <1>4, <1>13 DEF OpenHeld
  <2>5. UNCHANGED <<tip, oldest, healthy, stored, cursor, gap, covered>>
    BY <2>1 DEF chainVars, rowVars, reportVars
  <2>6. CutoffCovered' /\ \A e \in Events : Kept(e)' <=> Kept(e)
    BY <1>6, <2>5
  <2>7. \A e \in Events : LedgerOf[e] < r.start => Kept(e)'
    <3>1. \A e \in Events : LedgerOf[e] < r.start => LedgerOf[e] <= r.start - 1
      BY <1>2, EventFacts
    <3> QED BY <1>8, <2>1, <2>6, <3>1
  <2> HIDE DEF next, r
  <2> QED BY <1>12, <2>1, <2>2, <2>3, <2>4, <2>5, <2>6, <2>7 DEF r
<1>14. CASE OpenGap(p)
  <2> DEFINE next == [r EXCEPT !.from = oldest, !.whole = FALSE, !.hole = TRUE]
  <2>1. pc[p] = "open" /\ UNCHANGED <<chainVars, stored, cursor>> /\ gap'
    BY <1>0, <1>14 DEF OpenGap, Opens, Asks, KeepGap, Steady
  <2>2. next \in ScanRecords
    <3>1. oldest \in 1..LastLedger + 1
      BY <1>2, <1>3
    <3>2. r \in ScanRecords
      BY <1>2
    <3> HIDE DEF r
    <3> QED BY <3>1, <3>2 DEF ScanRecords
  <2>3. /\ next.start = r.start /\ next.group = r.group /\ next.safe = r.safe
        /\ next.through = r.through /\ next.last = r.last /\ next.from = oldest
        /\ next.bounded = r.bounded
    BY <1>2 DEF ScanRecords
  <2>4. pc' = [pc EXCEPT ![p] = "read"] /\ scan' = [scan EXCEPT ![p] = next]
    BY <1>4, <1>14 DEF OpenGap
  <2>5. UNCHANGED <<tip, oldest, healthy, stored, cursor>>
    BY <2>1 DEF chainVars
  <2>6. CutoffCovered'
    BY <2>1 DEF CutoffCovered
  <2>7. \A e \in Events : LedgerOf[e] < next.from => Kept(e)'
    BY <2>1, <2>3, <2>5 DEF Kept, HoleKnown
  <2> HIDE DEF next, r
  <2>8. next.from <= tip
    BY <1>2, <2>3
  <2> QED BY <1>12, <2>1, <2>2, <2>3, <2>4, <2>5, <2>6, <2>7, <2>8 DEF r
<1>15. CASE ReadFails(p) \/ PageExpired(p)
  <2>1. /\ pc[p] \in {"open", "read"} /\ UNCHANGED <<chainVars, stored, cursor>>
        /\ EndGroup(p, r.safe, FALSE)
    BY <1>15 DEF ReadFails, PageExpired, Asks
  <2>2. \A e \in Events : GroupOf[e] = r.group /\ LedgerOf[e] <= r.safe => Kept(e)
    BY <1>9, <2>1
  <2>3. r.safe <= tip
    BY <1>5, <2>1
  <2> QED BY <1>2, <1>7, <2>1, <2>2, <2>3
\* A page has been read, as far as it is wanted.
<1>16. ASSUME pc[p] = "read", NEW e \in Events, GroupOf[e] = r.group,
              e \in Page(p) \/ Behind(p, e),
              e \in Page(p) => e \in stored',
              UNCHANGED <<tip, oldest, cursor>>, stored \subseteq stored'
       PROVE  Kept(e)'
  <2>1. CASE e \in Page(p)
    BY <1>16, <2>1 DEF Kept
  <2>2. CASE Behind(p, e)
    <3>1. Kept(e)
      BY <1>1, <1>16, <2>2 DEF PollSound
    <3>2. Grows
      BY <1>0, <1>2, <1>16 DEF Grows
    <3> QED BY <1>1, <3>1, <3>2, KeptStays
  <2> QED BY <1>16, <2>1, <2>2
<1>17. CASE ReadPage(p)
  <2>1. /\ pc[p] = "read" /\ stored' = stored \cup Wanted(p)
        /\ UNCHANGED <<tip, oldest, healthy, cursor>>
    BY <1>17 DEF ReadPage, chainVars
  <2>2. r.from <= tip
    BY <1>1, <2>1 DEF PollSound
  <2>3. /\ Page(p) \in SUBSET Events /\ Horizon(p) \in Nat /\ Horizon(p) <= tip
        /\ PageEnd(p) \in Nat /\ PageEnd(p) <= Horizon(p) /\ r.from <= PageEnd(p)
        /\ PageCovers(p) \in Nat /\ PageCovers(p) <= PageEnd(p)
        /\ \A e \in Page(p) : LedgerOf[e] <= Horizon(p)
        /\ ~IsFull(p) => PageEnd(p) = Horizon(p)
    BY <1>1, <2>2, PageFacts
  <2>4. stored \subseteq stored' /\ stored' \subseteq Events
    BY <1>4, <2>1, <2>3 DEF Wanted
  <2>5. \A e \in Page(p) : (Bounded(p) => LedgerOf[e] <= Cutoff) => e \in stored'
    BY <2>1 DEF Wanted
  <2>6. ~CutoffReached(p) => \A e \in Page(p) : e \in stored'
    <3> SUFFICES ASSUME ~CutoffReached(p), NEW e \in Page(p), Bounded(p)
                 PROVE  LedgerOf[e] <= Cutoff
      BY <2>5
    <3>1. ~(LedgerOf[e] > Cutoff)
      BY DEF CutoffReached
    <3>2. LedgerOf[e] \in Nat
      BY <2>3, EventFacts
    <3> QED BY <1>3, <3>1, <3>2
  <2>7. /\ Safe(p) \in Nat /\ Safe(p) <= tip
        /\ Safe(p) = r.safe \/ Safe(p) = PageCovers(p)
    <3>1. r.safe <= tip
      BY <1>5, <2>1
    <3> QED BY <1>2, <2>3, <3>1, MaxOfTwo DEF Safe
  <2>8. ASSUME NEW e \in Events, GroupOf[e] = r.group, LedgerOf[e] <= Safe(p),
               ~CutoffReached(p)
        PROVE  Kept(e)'
    <3>1. CASE LedgerOf[e] <= r.safe
      <4>1. Kept(e)
        BY <1>9, <2>1, <2>8, <3>1
      <4>2. Grows
        BY <1>0, <1>2, <2>1, <2>4 DEF Grows
      <4> QED BY <1>1, <4>1, <4>2, KeptStays
    <3>2. CASE LedgerOf[e] <= PageCovers(p)
      <4>1. e \in Page(p) \/ Behind(p, e)
        BY <1>1, <2>2, <2>8, <3>2, CoveredIsRead
      <4> QED BY <1>16, <2>1, <2>4, <2>6, <2>8, <4>1
    <3> QED BY <2>7, <2>8, <3>1, <3>2
  <2>9. CASE CutoffReached(p) /\ EndGroup(p, Cutoff, TRUE)
    <3>1. Bounded(p) /\ Cutoff \in Nat /\ Cutoff <= tip
      BY <1>3, <1>5, <2>1, <2>9 DEF CutoffReached
    <3>2. ASSUME NEW e \in Events, GroupOf[e] = r.group, LedgerOf[e] <= Cutoff
          PROVE  Kept(e)'
      <4>1. CASE \E x \in Page(p) : LedgerOf[x] > Cutoff
        <5>1. PICK x \in Page(p) : LedgerOf[x] > Cutoff
          BY <4>1
        <5>2. e <= x
          BY <1>3, <2>3, <3>2, <5>1, EventFacts
        <5>3. e \in Page(p) \/ Behind(p, e)
          BY <1>1, <2>2, <3>2, <5>2, PagesReachBack
        <5> QED BY <1>16, <2>1, <2>4, <2>5, <3>2, <5>3
      <4>2. CASE ~IsFull(p) /\ PageEnd(p) >= Cutoff
        <5>1. LedgerOf[e] <= Horizon(p)
          BY <1>3, <2>3, <3>2, <4>2, EventFacts
        <5>2. e \in Page(p) \/ Behind(p, e)
          BY <1>1, <2>2, <3>2, <4>2, <5>1, ShortPagesReachOn
        <5> QED BY <1>16, <2>1, <2>4, <2>5, <3>2, <5>2
      <4> QED BY <2>9, <4>1, <4>2 DEF CutoffReached
    <3> QED BY <1>0, <2>1, <2>4, <2>9, <3>1, <3>2, EndGroupSteps
  <2>10. CASE ~CutoffReached(p) /\ TipReached(p) /\ EndGroup(p, tip, TRUE)
    <3>1. ASSUME NEW e \in Events, GroupOf[e] = r.group, LedgerOf[e] <= tip
          PROVE  Kept(e)'
      <4>1. ~IsFull(p) /\ LedgerOf[e] <= Horizon(p)
        BY <1>2, <2>3, <2>10, <3>1, EventFacts DEF TipReached
      <4>2. e \in Page(p) \/ Behind(p, e)
        BY <1>1, <2>2, <3>1, <4>1, ShortPagesReachOn
      <4> QED BY <1>16, <2>1, <2>4, <2>6, <2>10, <3>1, <4>2
    <3>2. tip <= tip
      BY <1>2
    <3> QED BY <1>0, <1>2, <2>1, <2>4, <2>10, <3>1, <3>2, EndGroupSteps
  <2>11. CASE ~CutoffReached(p) /\ EndGroup(p, Safe(p), FALSE)
    <3>1. \A e \in Events : GroupOf[e] = r.group /\ LedgerOf[e] <= Safe(p) => Kept(e)'
      BY <2>8, <2>11
    <3> QED BY <1>0, <2>1, <2>4, <2>7, <2>11, <3>1, EndGroupSteps
  <2>12. CASE /\ ~CutoffReached(p) /\ ~TipReached(p) /\ MayPageOn(p)
              /\ scan' = [scan EXCEPT
                   ![p].safe = Safe(p), ![p].pages = @ + 1,
                   ![p].last = Max(Page(p) \cup {@}),
                   ![p].from = IF IsFull(p) THEN PageEnd(p) ELSE PageEnd(p) + 1]
              /\ UNCHANGED <<pc, reportVars>>
    <3> DEFINE last == Max(Page(p) \cup {r.last})
               from == IF IsFull(p) THEN PageEnd(p) ELSE PageEnd(p) + 1
               next == [r EXCEPT !.safe = Safe(p), !.pages = r.pages + 1, !.last = last,
                                 !.from = from]
    <3>1. scan' = [scan EXCEPT ![p] = next] /\ pc' = [pc EXCEPT ![p] = "read"]
      BY <1>4, <2>1, <2>12
    <3>2. last \in 0..LastEvent
      <4> DEFINE T == Page(p) \cup {r.last}
      <4>1. r.last <= LastEvent
        BY <1>1, ScanFacts
      <4>2. T \in SUBSET Nat /\ T # {} /\ \A k \in T : k <= LastEvent
        BY <1>2, <2>3, <4>1, EventsAreNumbers
      <4>3. Max(T) \in Nat /\ Max(T) <= LastEvent
        BY <1>3, <4>2, MaxIs
      <4> QED BY <1>3, <4>3
    <3>3. from \in Nat /\ from >= 1 /\ from <= tip
      <4>1. CASE IsFull(p)
        BY <1>1, <1>2, <2>3, <4>1, ScanFacts
      <4>2. CASE ~IsFull(p)
        BY <1>2, <2>3, <2>12, <4>2 DEF TipReached
      <4> QED BY <4>1, <4>2
    <3>4. r.pages + 1 \in 0..MaxPages - 1
      BY <1>2, <1>3, <2>12 DEF MayPageOn
    <3>5. Safe(p) \in 0..LastLedger /\ from \in 1..LastLedger + 1
      BY <1>2, <1>3, <2>7, <3>3
    <3>6. \A e \in Events :
            GroupOf[e] = r.group /\ (LedgerOf[e] < from \/ e <= last) => Kept(e)'
      <4> SUFFICES ASSUME NEW e \in Events, GroupOf[e] = r.group,
                          LedgerOf[e] < from \/ e <= last
                   PROVE  Kept(e)'
        OBVIOUS
      <4>1. e \in Page(p) \/ Behind(p, e)
        BY <1>1, <2>2, NextPageFollows
      <4> QED BY <1>16, <2>1, <2>4, <2>6, <2>12, <4>1
    <3> HIDE DEF last, from
    <3>7. next \in ScanRecords
      BY <1>2, <3>2, <3>4, <3>5 DEF ScanRecords
    <3>8. /\ next.start = r.start /\ next.group = r.group /\ next.through = r.through
          /\ next.safe = Safe(p) /\ next.last = last /\ next.from = from
          /\ next.bounded = r.bounded
      BY <1>2 DEF ScanRecords
    <3> HIDE DEF next
    <3>9. pc'[p] = "read" /\ scan'[p] = next
      BY <1>4, <3>1
    <3>10. Grows
      BY <1>0, <1>2, <2>1, <2>4 DEF Grows
    <3>11. \A e \in Events : Kept(e) => Kept(e)'
      BY <1>1, <3>10, KeptStays
    <3>12. \A e \in Events :
          /\ GroupOf[e] < next.group /\ LedgerOf[e] <= next.through => Kept(e)'
          /\ GroupOf[e] = next.group /\ LedgerOf[e] <= next.safe => Kept(e)'
      BY <1>1, <2>1, <2>8, <2>12, <3>8, <3>11 DEF PollSound
    <3>13. \A e \in Events : GroupOf[e] = next.group /\ Behind(p, e)' => Kept(e)'
      BY <3>6, <3>8, <3>9 DEF Behind
    <3>14. next.start <= cursor' + 1 /\ next.safe <= tip' /\ (Bounded(p) => Cutoff <= tip')
           /\ next.from <= tip'
      BY <1>5, <2>1, <2>7, <3>3, <3>8
    <3>15. PollSound(p)'
      BY <3>8, <3>9, <3>12, <3>13, <3>14 DEF PollSound, Bounded
    <3>16. CursorCovers'
      <4> SUFFICES ASSUME NEW e \in Events, LedgerOf[e] <= cursor'
                   PROVE  e \in stored' \/ (HoleKnown' /\ LedgerOf[e] < oldest')
        BY DEF CursorCovers
      <4>1. Kept(e)
        BY <1>1, <2>1 DEF CursorCovers, Kept
      <4> QED BY <3>11, <4>1 DEF Kept
    <3>17. CutoffCovered'
      BY <1>0, <1>1, <2>4, <2>12 DEF CutoffCovered, reportVars
    <3>18. "read" \in Places /\ cursor' <= tip'
      BY <1>2, <2>1 DEF Places
    <3> QED BY <1>0, <2>1, <2>4, <3>1, <3>7, <3>10, <3>15, <3>16, <3>17, <3>18, PollMoves
  <2> QED BY <1>17, <2>9, <2>10, <2>11, <2>12 DEF ReadPage
<1>18. CASE IngestFails(p)
  <2>1. /\ pc[p] = "read" /\ UNCHANGED <<tip, oldest, healthy, cursor>>
    BY <1>18 DEF IngestFails, chainVars
  <2>2. PICK e \in Wanted(p) :
          /\ stored' = stored \cup {d \in Wanted(p) : d < e}
          /\ EndGroup(p, Max({r.safe, LedgerOf[e] - 1}), FALSE)
    BY <1>18 DEF IngestFails
  <2>3. r.from <= tip /\ r.safe <= tip
    BY <1>1, <1>5, <2>1 DEF PollSound
  <2>4. /\ Page(p) \in SUBSET Events /\ LedgerOf[e] <= tip
        /\ e \in Page(p) /\ e \in Events /\ (Bounded(p) => LedgerOf[e] <= Cutoff)
    <3>1. e \in Page(p) /\ (Bounded(p) => LedgerOf[e] <= Cutoff)
      BY DEF Wanted
    <3>2. Page(p) \in SUBSET Events /\ LedgerOf[e] <= Horizon(p) /\ Horizon(p) \in Nat
          /\ Horizon(p) <= tip
      BY <1>1, <2>3, <3>1, PageFacts
    <3> QED BY <1>2, <3>1, <3>2, EventFacts
  <2>5. stored \subseteq stored' /\ stored' \subseteq Events
    BY <1>4, <2>2, <2>4 DEF Wanted
  <2> DEFINE t == Max({r.safe, LedgerOf[e] - 1})
  <2>6. LedgerOf[e] - 1 \in Nat /\ LedgerOf[e] - 1 <= tip
    BY <1>2, <2>4, EventFacts
  <2>7. t \in Nat /\ t <= tip /\ (t = r.safe \/ t = LedgerOf[e] - 1)
    BY <1>2, <2>3, <2>6, MaxOfTwo
  <2>8. ASSUME NEW x \in Events, GroupOf[x] = r.group, LedgerOf[x] <= t
        PROVE  Kept(x)'
    <3>1. CASE LedgerOf[x] <= r.safe
      <4>1. Kept(x)
        BY <1>9, <2>1, <2>8, <3>1
      <4>2. Grows
        BY <1>0, <1>2, <2>1, <2>5 DEF Grows
      <4> QED BY <1>1, <4>1, <4>2, KeptStays
    <3>2. CASE LedgerOf[x] <= LedgerOf[e] - 1
      <4>1. LedgerOf[x] < LedgerOf[e] /\ x < e /\ x <= e
        BY <2>4, <3>2, EventFacts
      <4>2. x \in Page(p) \/ Behind(p, x)
        BY <1>1, <2>3, <2>4, <2>8, <4>1, PagesReachBack
      <4>3. Bounded(p) => LedgerOf[x] <= Cutoff
        BY <1>3, <2>4, <4>1, EventFacts
      <4>4. x \in Page(p) => x \in stored'
        BY <2>2, <4>1, <4>3 DEF Wanted
      <4> QED BY <1>16, <2>1, <2>5, <2>8, <4>2, <4>4
    <3> QED BY <2>7, <2>8, <3>1, <3>2
  <2>9. EndGroup(p, t, FALSE)
    BY <2>2
  <2> HIDE DEF t
  <2> QED BY <1>0, <2>1, <2>5, <2>7, <2>8, <2>9, EndGroupSteps
\* The poll is over.
<1>19. ASSUME Finish(p), pc[p] \in {"update", "create", "again"},
              cursor' = cursor \/ cursor' = r.through, cursor <= cursor',
              UNCHANGED <<chainVars, stored>>
       PROVE  CoverInv'
  <2>1. UNCHANGED <<tip, oldest, healthy, stored>>
    BY <1>19 DEF chainVars
  <2>2. /\ pc' = [pc EXCEPT ![p] = "idle"] /\ scan' = [scan EXCEPT ![p] = NoScan]
        /\ covered' => covered \/ r.through >= Cutoff
    BY <1>19 DEF Finish, Report
  <2>3. /\ r.through <= tip /\ \A e \in Events : LedgerOf[e] <= r.through => Kept(e)
    BY <1>1, <1>19 DEF PollSound
  <2>4. cursor' \in Nat /\ cursor' <= tip'
    BY <1>2, <1>19, <2>1, <2>3
  <2>5. Grows
    BY <1>0, <1>2, <1>19, <2>1, <2>4 DEF Grows
  <2>6. \A e \in Events : Kept(e) => Kept(e)'
    BY <1>1, <2>5, KeptStays
  <2>7. CursorCovers'
    <3> SUFFICES ASSUME NEW e \in Events, LedgerOf[e] <= cursor'
                 PROVE  e \in stored' \/ (HoleKnown' /\ LedgerOf[e] < oldest')
      BY DEF CursorCovers
    <3>1. Kept(e)
      BY <1>1, <1>19, <2>3 DEF CursorCovers, Kept
    <3> QED BY <2>6, <3>1 DEF Kept
  <2>8. CutoffCovered'
    <3>1. \A e \in Events : LedgerOf[e] <= r.through => Kept(e)'
      BY <2>3, <2>6
    <3>2. covered' => covered \/ r.through >= Cutoff
      BY <2>2
    <3> QED BY <1>0, <1>2, <2>5, <3>1, <3>2, CoveredSteps
  <2>9. PollSound(p)'
    <3>1. pc'[p] = "idle"
      BY <1>4, <2>2
    <3> QED BY <3>1 DEF PollSound
  <2>10. "idle" \in Places /\ stored' \subseteq Events
    BY <1>4, <2>1 DEF Places
  <2> QED BY <1>0, <2>1, <2>2, <2>4, <2>5, <2>7, <2>8, <2>9, <2>10, NoScanIsAScan, PollMoves
\* The poll tries another way to write the cursor.
<1>20. ASSUME NEW place \in {"create", "again"}, pc[p] \in {"update", "create"},
              pc' = [pc EXCEPT ![p] = place],
              UNCHANGED <<chainVars, rowVars, scan>>
       PROVE  CoverInv'
  <2>1. UNCHANGED <<tip, oldest, healthy, stored, cursor, gap, covered>> /\ scan' = scan
    BY <1>20 DEF chainVars, rowVars, reportVars
  <2>2. Grows /\ CursorCovers' /\ CutoffCovered' /\ \A e \in Events : Kept(e)' <=> Kept(e)
    BY <1>6, <2>1
  <2>3. pc'[p] = place /\ scan'[p] = r /\ scan' = [scan EXCEPT ![p] = r]
    BY <1>4, <1>20, <2>1
  <2>4. /\ r.through <= tip' /\ \A e \in Events : LedgerOf[e] <= r.through => Kept(e)'
    BY <1>1, <1>20, <2>1, <2>2 DEF PollSound
  <2>5. r.start <= cursor' + 1 /\ r.safe <= tip' /\ (Bounded(p) => Cutoff <= tip')
    BY <1>5, <1>20, <2>1
  <2>6. PollSound(p)'
    BY <1>20, <2>3, <2>4, <2>5 DEF PollSound, Bounded
  <2>7. place \in Places /\ cursor' <= tip' /\ stored' \subseteq Events
    BY <1>2, <1>4, <2>1 DEF Places
  <2> QED BY <1>0, <1>2, <1>20, <2>1, <2>2, <2>3, <2>6, <2>7, PollMoves
<1>21. CASE UpdateCursor(p)
  <2>1. pc[p] \in {"update", "again"} /\ UNCHANGED <<chainVars, stored>>
    BY <1>21 DEF UpdateCursor
  <2>2. CASE NotAhead(p) /\ cursor' = r.through /\ Finish(p)
    <3>1. cursor <= cursor'
      BY <2>2 DEF NotAhead
    <3> QED BY <1>19, <2>1, <2>2, <3>1
  <2>3. CASE UNCHANGED cursor /\ Finish(p)
    BY <1>2, <1>19, <2>1, <2>3
  <2>4. CASE /\ UNCHANGED cursor /\ pc[p] = "update"
             /\ pc' = [pc EXCEPT ![p] = "create"] /\ UNCHANGED <<scan, reportVars>>
    BY <1>20, <2>1, <2>4 DEF rowVars
  <2> QED BY <1>21, <2>2, <2>3, <2>4 DEF UpdateCursor
<1>22. CASE CreateCursor(p)
  <2>1. pc[p] = "create" /\ UNCHANGED <<chainVars, stored>>
    BY <1>22 DEF CreateCursor
  <2>2. CASE cursor = 0 /\ cursor' = r.through /\ Finish(p)
    <3>1. cursor <= cursor'
      BY <1>2, <2>2
    <3> QED BY <1>19, <2>1, <2>2, <3>1
  <2>3. CASE pc' = [pc EXCEPT ![p] = "again"] /\ UNCHANGED <<cursor, scan, reportVars>>
    BY <1>20, <2>1, <2>3 DEF rowVars
  <2> QED BY <1>22, <2>2, <2>3 DEF CreateCursor
<1>23. CASE Die(p)
  <2>1. /\ pc' = [pc EXCEPT ![p] = "idle"] /\ scan' = [scan EXCEPT ![p] = NoScan]
        /\ UNCHANGED <<tip, oldest, healthy, stored, cursor, gap, covered>>
    BY <1>23 DEF Die, chainVars, rowVars, reportVars
  <2>2. Grows /\ CursorCovers' /\ CutoffCovered'
    BY <1>6, <2>1
  <2>3. PollSound(p)'
    <3>1. pc'[p] = "idle"
      BY <1>4, <2>1
    <3> QED BY <3>1 DEF PollSound
  <2>4. "idle" \in Places /\ cursor' <= tip' /\ stored' \subseteq Events
    BY <1>2, <1>4, <2>1 DEF Places
  <2> QED BY <1>0, <2>1, <2>2, <2>3, <2>4, NoScanIsAScan, PollMoves
<1> QED BY <1>10, <1>11, <1>13, <1>14, <1>15, <1>17, <1>18, <1>21, <1>22, <1>23
        DEF PollStep, PollTrouble

\* The coverage invariant, for any polls, events, groups, pages and windows.
THEOREM CoverageInvariant == ECSpec => []CoverInv
<1>1. ASSUME ECInit PROVE CoverInv
  <2>1. /\ tip = 1 /\ oldest = 1 /\ healthy = TRUE /\ stored = {} /\ cursor = 0
        /\ gap = FALSE /\ covered = FALSE /\ incomplete = FALSE /\ attested = FALSE
        /\ serviceState = "ACTIVE" /\ cutoffFixed = FALSE
        /\ pc = [q \in Pollers |-> "idle"] /\ scan = [q \in Pollers |-> NoScan]
    BY <1>1 DEF ECInit
  <2>2. ECTypeOK
    <3>1. pc \in [Pollers -> Places] /\ scan \in [Pollers -> ScanRecords]
      BY <2>1, NoScanIsAScan DEF Places
    <3>2. tip \in Ledgers /\ oldest \in 1..tip /\ cursor \in 0..tip /\ stored \subseteq Events
      BY <2>1, EventFacts DEF Ledgers
    <3> QED BY <2>1, <3>1, <3>2 DEF ECTypeOK, ScanRecords
  <2>3. CursorCovers
    BY <2>1, EventFacts DEF CursorCovers
  <2>4. CutoffCovered
    BY <2>1 DEF CutoffCovered
  <2>5. \A q \in Pollers : PollSound(q)
    BY <2>1 DEF PollSound
  <2>6. LifeSound
    BY <2>1 DEF LifeSound
  <2> QED BY <2>2, <2>3, <2>4, <2>5, <2>6 DEF CoverInv
<1>2. ASSUME CoverInv, [ECNext]_vars PROVE CoverInv'
  <2>1. CASE UNCHANGED vars
    <3>1. /\ UNCHANGED <<tip, oldest, healthy, stored, cursor, gap, covered, pc, scan>>
          /\ UNCHANGED <<serviceState, cutoffFixed, attested, incomplete>>
      BY <2>1 DEF vars, chainVars, rowVars, reportVars, lifeVars
    <3>2. ECTypeOK' /\ CursorCovers' /\ CutoffCovered' /\ LifeSound'
      BY <1>2, <3>1
         DEF CoverInv, ECTypeOK, CursorCovers, CutoffCovered, HoleKnown, LifeSound, NoPollOpen
    <3>3. Grows
      <4>1. ECTypeOK
        BY <1>2 DEF CoverInv
      <4>2. tip \in Nat /\ oldest \in Nat /\ cursor \in Nat
        BY <4>1, EventFacts DEF ECTypeOK, Ledgers
      <4> QED BY <3>1, <4>2 DEF Grows, HoleKnown
    <3>4. \A q \in Pollers : PollSound(q)'
      BY <1>2, <3>1, <3>3, PollStays
    <3> QED BY <3>2, <3>4 DEF CoverInv
  <2>2. CASE ECNext
    BY <1>2, <2>2, ChainSteps, LifeSteps, PollSteps DEF ECNext
  <2> QED BY <1>2, <2>1, <2>2
<1>3. CoverInv /\ [ECNext]_vars => CoverInv'
  BY <1>2
<1> QED BY <1>1, <1>3, PTL DEF ECSpec

\* Type correctness of event ingestion.
THEOREM CoverageTypes == ECSpec => []ECTypeOK
<1>1. CoverInv => ECTypeOK
  BY DEF CoverInv
<1> QED BY <1>1, CoverageInvariant, PTL

\* EventCursor: every event the cursor has passed is stored, or fell into a
\* hole that is on record or that an operator has settled.
THEOREM CursorsCover == ECSpec => []CursorCovers
<1>1. CoverInv => CursorCovers
  BY DEF CoverInv
<1> QED BY <1>1, CoverageInvariant, PTL

\* reconcileRetirement: a poll taken for complete left nothing out through the
\* cutoff, unless a gap is on record or an operator vouches for the cutoff.
THEOREM CutoffsAreCovered == ECSpec => []CutoffCovered
<1>1. CoverInv => CutoffCovered
  BY DEF CoverInv
<1> QED BY <1>1, CoverageInvariant, PTL

\* advanceEventCursor: whichever polls overlap, the cursor never goes back, and
\* a recorded gap is erased by an operator's attestation alone.
THEOREM CursorsOnlyAdvance == ECSpec => CoverageOnlyGrows
<1> DEFINE Advances == cursor' >= cursor /\ (gap /\ ~gap' => AttestCoverage)
<1>1. ASSUME CoverInv, [ECNext]_vars PROVE Advances
  <2>1. cursor \in Nat
    BY <1>1, ScanFacts, EventFacts DEF CoverInv, ECTypeOK, Ledgers
  <2>2. ASSUME UNCHANGED <<cursor, gap>> PROVE Advances
    BY <2>1, <2>2
  <2>3. CASE Close \/ Expire \/ Falter \/ UNCHANGED vars
    BY <2>2, <2>3 DEF Close, Expire, Falter, rowVars, reportVars, vars
  <2>4. CASE Retire \/ FixCutoff \/ Conclude
    BY <2>2, <2>4 DEF Retire, FixCutoff, Conclude, rowVars, reportVars
  <2>5. CASE AttestCoverage
    <3>1. cursor' = cursor
      BY <2>5 DEF AttestCoverage
    <3> QED BY <2>1, <2>5, <3>1
  <2>6. ASSUME NEW p \in Pollers, PollStep(p) \/ PollTrouble(p)
        PROVE  Advances
    <3>0. gap => gap'
      BY <1>1, <2>6, PollsAreSteady DEF Steady
    <3>1. CASE Begin(p) \/ OpenHeld(p) \/ Die(p)
      <4>1. cursor' = cursor
        BY <3>1 DEF Begin, OpenHeld, Die, rowVars
      <4> QED BY <2>1, <3>0, <4>1
    <3>2. CASE NothingNew(p) \/ ReadFails(p) \/ PageExpired(p) \/ ReadPage(p) \/ IngestFails(p)
      <4>1. cursor' = cursor
        BY <3>2 DEF NothingNew, ReadFails, PageExpired, ReadPage, IngestFails
      <4> QED BY <2>1, <3>0, <4>1
    <3>3. CASE OpenGap(p)
      BY <2>1, <3>0, <3>3 DEF OpenGap
    <3>4. CASE UpdateCursor(p)
      <4>1. cursor' = cursor \/ cursor <= cursor'
        BY <3>4 DEF UpdateCursor, NotAhead
      <4>2. scan[p].through \in Nat /\ (cursor' = cursor \/ cursor' = scan[p].through)
        BY <1>1, <3>4, ScanFacts DEF CoverInv, UpdateCursor
      <4> QED BY <2>1, <3>0, <4>1, <4>2
    <3>5. CASE CreateCursor(p)
      <4>1. cursor' = cursor \/ (cursor = 0 /\ cursor' = scan[p].through)
        BY <3>5 DEF CreateCursor
      <4>2. scan[p].through \in Nat
        BY <1>1, ScanFacts DEF CoverInv
      <4> QED BY <2>1, <3>0, <4>1, <4>2
    <3> QED BY <2>6, <3>1, <3>2, <3>3, <3>4, <3>5 DEF PollStep, PollTrouble
  <2> QED BY <1>1, <2>3, <2>4, <2>5, <2>6 DEF ECNext
<1>2. CoverInv /\ [ECNext]_vars => [cursor' >= cursor /\ (gap /\ ~gap' => AttestCoverage)]_vars
  BY <1>1
<1> QED BY <1>2, CoverageInvariant, PTL DEF ECSpec, CoverageOnlyGrows
=============================================================================
