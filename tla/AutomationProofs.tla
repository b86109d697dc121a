--------------------------- MODULE AutomationProofs ---------------------------
(***************************************************************************)
(* Proofs about what works by itself on a deployment: the stream and its   *)
(* claim jobs, the release of a timelock, the charging of a subscription,  *)
(* and the fee budget.  The four share no state; each has an inductive     *)
(* invariant of its own:                                                   *)
(*   StreamInv  the contract's three numbers amount to the time the stream *)
(*              ran, and no more is claimed than that time has earned;     *)
(*   ChainInv   whoever works on a job took it and holds it alone, and     *)
(*              until a process dies there is a job or one about to be;    *)
(*   TLInv      what a probe has found out about the balance stays true    *)
(*              until it is written, and so does what the row says;        *)
(*   SubInv     the key is the holder's while its lease lasts, a current   *)
(*              run works under the owner's last choice, and the date in   *)
(*              the row never hides a due charge;                          *)
(*   FBInv      what a spender is about to swap in is within the limit if  *)
(*              the budget is still as it was read.                        *)
(* Two more are about sums, over any number of terms: PaidInv, the         *)
(* recipients' totals add up to what was claimed, and SpentInv, the fees   *)
(* reserved add up to what is committed.  The lemmas on sums come first.   *)
(***************************************************************************)
EXTENDS StreamerJobs, TimelockRelease, SubscriptionCharge, FeeBudget,
        FiniteSetTheorems, TLAPS

-----------------------------------------------------------------------------
(* Induction and sums                                                      *)

\* Induction is stated with sets: a set of numbers that has zero and the
\* successor of each of its members has them all; a set of sets that has the
\* empty set, and with a set every larger one by a member, has every finite one.
LEMMA LeastNumber ==
  ASSUME NEW T, T \subseteq Nat, T # {}
  PROVE  \E m \in T : \A k \in T : m <= k
<1> DEFINE R == OpToRel(<, Nat)
<1>1. IsWellFoundedOn(R, Nat)
  BY NatLessThanWellFounded
<1>2. \A x, y \in Nat : <<x, y>> \in R <=> x < y
  BY DEF OpToRel
<1> HIDE DEF R
<1>3. PICK m \in T : \A k \in T : ~(<<k, m>> \in R)
  BY <1>1, WFMin
<1>4. ASSUME NEW k \in T PROVE m <= k
  <2>1. k \in Nat /\ m \in Nat
    OBVIOUS
  <2>2. ~(k < m)
    BY <1>2, <1>3, <2>1
  <2> QED BY <2>1, <2>2
<1> QED BY <1>4

LEMMA SetInduction ==
  ASSUME NEW T, 0 \in T, \A n \in Nat : n \in T => n + 1 \in T
  PROVE  Nat \subseteq T
<1> SUFFICES ASSUME NEW x \in Nat, x \notin T PROVE FALSE
  OBVIOUS
<1>1. PICK m \in Nat \ T : \A k \in Nat \ T : m <= k
  BY LeastNumber
<1>2. m # 0 /\ m - 1 \in Nat /\ m - 1 \in T
  BY <1>1
<1> QED BY <1>1, <1>2

LEMMA FiniteInduction ==
  ASSUME NEW S, IsFiniteSet(S), NEW F, {} \in F,
         \A T \in SUBSET S : \A x \in S \ T : T \in F => T \cup {x} \in F
  PROVE  S \in F
<1> DEFINE N == {n \in Nat : \A T \in SUBSET S : Cardinality(T) = n => T \in F}
<1>1. \A T \in SUBSET S : IsFiniteSet(T) /\ Cardinality(T) \in Nat
  BY FS_Subset, FS_CardinalityType
<1>2. 0 \in N
  BY <1>1, FS_EmptySet
<1>3. ASSUME NEW n \in Nat, n \in N PROVE n + 1 \in N
  <2> SUFFICES ASSUME NEW T \in SUBSET S, Cardinality(T) = n + 1 PROVE T \in F
    OBVIOUS
  <2>1. T # {}
    BY <1>1, FS_EmptySet
  <2>2. PICK x : x \in T
    BY <2>1
  <2>3. T \ {x} \in SUBSET S /\ Cardinality(T \ {x}) = n
    <3>1. Cardinality(T \ {x}) = Cardinality(T) - 1
      BY <1>1, <2>2, FS_RemoveElement
    <3> QED BY <3>1
  <2>4. T \ {x} \in F
    BY <1>3, <2>3
  <2>5. (T \ {x}) \cup {x} = T
    BY <2>2
  <2> QED BY <2>2, <2>3, <2>4, <2>5
<1> HIDE DEF N
<1>4. Nat \subseteq N
  BY <1>2, <1>3, SetInduction
<1> QED BY <1>1, <1>4 DEF N

-----------------------------------------------------------------------------
(* Sums.  A fold picks the members one at a time in an order of its own;   *)
(* what a sum is worth does not depend on it.                              *)

SumOver(f, S) == MapThenSumSet(LAMBDA x : f[x], S)

Picked(s) == CHOOSE x \in s : TRUE

Adding(f, S, g) ==
  g = [s \in SUBSET S |-> IF s = {} THEN 0 ELSE f[Picked(s)] + g[s \ {Picked(s)}]]

LEMMA SumUnfolds ==
  ASSUME NEW f, NEW S
  PROVE SumOver(f, S) = (CHOOSE g : Adding(f, S, g))[S]
BY DEF SumOver, Adding, Picked, MapThenSumSet, MapThenFoldSet

LEMMA PickedIsMember ==
  ASSUME NEW s, s # {}
  PROVE  Picked(s) \in s
BY DEF Picked

\* There is such a function on the subsets of a finite set,
LEMMA AddingExists ==
  ASSUME NEW f, NEW S, IsFiniteSet(S), \A y \in S : f[y] \in Int
  PROVE  \E g : Adding(f, S, g)
<1> DEFINE Upto(n) == {s \in SUBSET S : Cardinality(s) <= n}
           Good(n, g) == /\ g \in [Upto(n) -> Int]
                         /\ \A s \in Upto(n) : g[s] = IF s = {} THEN 0
                                                 ELSE f[Picked(s)] + g[s \ {Picked(s)}]
           N == {n \in Nat : \E g : Good(n, g)}
<1>1. \A T \in SUBSET S : IsFiniteSet(T) /\ Cardinality(T) \in Nat
  BY FS_Subset, FS_CardinalityType
<1>2. \A T \in SUBSET S : T # {} => /\ Picked(T) \in T /\ f[Picked(T)] \in Int
                                     /\ T \ {Picked(T)} \in SUBSET S
                                     /\ Cardinality(T \ {Picked(T)}) = Cardinality(T) - 1
                                     /\ Cardinality(T) # 0
  BY <1>1, PickedIsMember, FS_RemoveElement, FS_EmptySet
<1>3. 0 \in N
  <2> DEFINE g == [s \in Upto(0) |-> 0]
  <2>1. Good(0, g)
    BY <1>1, <1>2
  <2> QED BY <2>1
<1>4. ASSUME NEW n \in Nat, n \in N PROVE n + 1 \in N
  <2>1. PICK g : Good(n, g)
    BY <1>4
  <2> DEFINE h == [s \in Upto(n + 1) |-> IF s = {} THEN 0 ELSE f[Picked(s)] + g[s \ {Picked(s)}]]
  <2>2. \A s \in Upto(n + 1) : s # {} => s \ {Picked(s)} \in Upto(n)
    BY <1>1, <1>2
  <2>3. \A s \in Upto(n) : s \in Upto(n + 1)
    BY <1>1
  <2>9. \A s \in Upto(n) : h[s] = g[s]
    BY <2>1, <2>3
  <2>4. h \in [Upto(n + 1) -> Int]
    BY <1>2, <2>1, <2>2
  <2>5. Good(n + 1, h)
    BY <2>2, <2>4, <2>9
  <2> HIDE DEF Good, h
  <2> QED BY <2>5
<1> HIDE DEF N
<1>5. Nat \subseteq N
  BY <1>3, <1>4, SetInduction
<1>6. PICK g : Good(Cardinality(S), g)
  BY <1>1, <1>5 DEF N
<1>7. Upto(Cardinality(S)) = SUBSET S
  BY <1>1, FS_Subset
<1>8. Adding(f, S, g)
  BY <1>6, <1>7 DEF Adding
<1> QED BY <1>8

\* and it is the same whichever finite set it is defined on.
LEMMA AddingAgrees ==
  ASSUME NEW f, NEW S, IsFiniteSet(S), \A y \in S : f[y] \in Int, NEW T \in SUBSET S,
         NEW g, Adding(f, S, g), NEW h, Adding(f, T, h)
  PROVE  h[T] = g[T] /\ g[T] \in Int
<1> DEFINE Same(s) == h[s] = g[s] /\ g[s] \in Int
           N == {n \in Nat : \A s \in SUBSET T : Cardinality(s) <= n => Same(s)}
<1>1. \A s \in SUBSET T : IsFiniteSet(s) /\ Cardinality(s) \in Nat
  BY FS_Subset, FS_CardinalityType
<1>2. \A s \in SUBSET T : s # {} => /\ Picked(s) \in s /\ f[Picked(s)] \in Int
                                     /\ s \ {Picked(s)} \in SUBSET T
                                     /\ Cardinality(s \ {Picked(s)}) = Cardinality(s) - 1
                                     /\ Cardinality(s) # 0
  BY <1>1, PickedIsMember, FS_RemoveElement, FS_EmptySet
<1>3. \A s \in SUBSET T : /\ g[s] = IF s = {} THEN 0 ELSE f[Picked(s)] + g[s \ {Picked(s)}]
                          /\ h[s] = IF s = {} THEN 0 ELSE f[Picked(s)] + h[s \ {Picked(s)}]
  BY DEF Adding
<1> HIDE DEF Same
<1>9. ASSUME NEW s \in SUBSET T, s = {} PROVE Same(s)
  <2>1. g[s] = 0 /\ h[s] = 0
    BY <1>3, <1>9
  <2> QED BY <2>1 DEF Same
<1>4. 0 \in N
  <2>1. ASSUME NEW s \in SUBSET T, Cardinality(s) <= 0 PROVE Same(s)
    <3>1. s = {}
      BY <1>1, <2>1, FS_EmptySet
    <3> QED BY <1>9, <3>1
  <2> QED BY <2>1
<1>5. ASSUME NEW n \in Nat, n \in N PROVE n + 1 \in N
  <2> SUFFICES ASSUME NEW s \in SUBSET T, Cardinality(s) <= n + 1 PROVE Same(s)
    OBVIOUS
  <2>1. CASE s = {}
    BY <1>9, <2>1
  <2>2. CASE s # {}
    <3>1. Cardinality(s \ {Picked(s)}) <= n
      BY <1>1, <1>2, <2>2
    <3>2. Same(s \ {Picked(s)})
      BY <1>2, <1>5, <2>2, <3>1
    <3>3. /\ g[s] = f[Picked(s)] + g[s \ {Picked(s)}]
          /\ h[s] = f[Picked(s)] + h[s \ {Picked(s)}]
      BY <1>3, <2>2
    <3>4. f[Picked(s)] \in Int
      BY <1>2, <2>2
    <3> QED BY <3>2, <3>3, <3>4 DEF Same
  <2> QED BY <2>1, <2>2
<1> HIDE DEF N
<1>6. Nat \subseteq N
  BY <1>4, <1>5, SetInduction
<1>7. Cardinality(T) \in Nat
  BY <1>1
<1> QED BY <1>6, <1>7 DEF N, Same

LEMMA SumOfPicked ==
  ASSUME NEW f, NEW S, IsFiniteSet(S), \A y \in S : f[y] \in Int
  PROVE  /\ SumOver(f, S) \in Int
         /\ S = {} => SumOver(f, S) = 0
         /\ S # {} => SumOver(f, S) = f[Picked(S)] + SumOver(f, S \ {Picked(S)})
<1> DEFINE g == CHOOSE g : Adding(f, S, g)
<1>1. Adding(f, S, g)
  BY AddingExists
<1>2. SumOver(f, S) = g[S]
  BY SumUnfolds
<1> HIDE DEF g
<1>3. g[S] \in Int
  BY <1>1, AddingAgrees
<1>4. g[S] = IF S = {} THEN 0 ELSE f[Picked(S)] + g[S \ {Picked(S)}]
  BY <1>1 DEF Adding
<1>5. ASSUME NEW T \in SUBSET S PROVE SumOver(f, T) = g[T]
  <2> DEFINE h == CHOOSE h : Adding(f, T, h)
  <2>0. IsFiniteSet(T)
    BY FS_Subset
  <2>1. Adding(f, T, h)
    BY <2>0, AddingExists
  <2>2. SumOver(f, T) = h[T]
    BY SumUnfolds
  <2> HIDE DEF h
  <2> QED BY <1>1, <2>1, <2>2, AddingAgrees
<1> QED BY <1>2, <1>3, <1>4, <1>5

\* A sum is that of one member and of the others, whichever it is.
LEMMA SumOfMember ==
  ASSUME NEW f, NEW S, IsFiniteSet(S), \A y \in S : f[y] \in Int, NEW x \in S
  PROVE  SumOver(f, S) = f[x] + SumOver(f, S \ {x})
<1> DEFINE Any(s) == \A y \in s : SumOver(f, s) = f[y] + SumOver(f, s \ {y})
           N == {n \in Nat : \A s \in SUBSET S : Cardinality(s) <= n => Any(s)}
<1>1. \A s \in SUBSET S : IsFiniteSet(s) /\ Cardinality(s) \in Nat /\ SumOver(f, s) \in Int
  BY FS_Subset, FS_CardinalityType, SumOfPicked
<1>2. \A s \in SUBSET S : \A y \in s : /\ f[y] \in Int /\ s \ {y} \in SUBSET S
                                        /\ Cardinality(s \ {y}) = Cardinality(s) - 1
                                        /\ Cardinality(s) # 0
  BY <1>1, FS_RemoveElement, FS_EmptySet
<1>3. 0 \in N
  BY <1>1, <1>2
<1>4. ASSUME NEW n \in Nat, n \in N PROVE n + 1 \in N
  <2> SUFFICES ASSUME NEW s \in SUBSET S, Cardinality(s) <= n + 1, NEW y \in s
               PROVE  SumOver(f, s) = f[y] + SumOver(f, s \ {y})
    OBVIOUS
  <2> DEFINE p == Picked(s)
  <2>1. p \in s /\ SumOver(f, s) = f[p] + SumOver(f, s \ {p})
    BY <1>1, PickedIsMember, SumOfPicked
  <2> HIDE DEF p
  <2>2. CASE y = p
    BY <2>1, <2>2
  <2>3. CASE y # p
    <3> HIDE DEF Any
    <3>0. /\ s \ {p} \in SUBSET S /\ Cardinality(s \ {p}) <= n
          /\ s \ {y} \in SUBSET S /\ Cardinality(s \ {y}) <= n
      BY <1>1, <1>2, <2>1
    <3>1. Any(s \ {p}) /\ Any(s \ {y})
      BY <1>4, <3>0
    <3>2. y \in s \ {p} /\ p \in s \ {y} /\ (s \ {p}) \ {y} = (s \ {y}) \ {p}
      BY <2>1, <2>3
    <3>3. /\ SumOver(f, s \ {p}) = f[y] + SumOver(f, (s \ {p}) \ {y})
          /\ SumOver(f, s \ {y}) = f[p] + SumOver(f, (s \ {p}) \ {y})
      BY <3>1, <3>2 DEF Any
    <3>4. f[y] \in Int /\ f[p] \in Int /\ SumOver(f, (s \ {p}) \ {y}) \in Int
      BY <1>1, <1>2, <2>1
    <3> QED BY <2>1, <3>3, <3>4
  <2> QED BY <2>2, <2>3
<1> HIDE DEF N
<1>5. Nat \subseteq N
  BY <1>3, <1>4, SetInduction
<1> QED BY <1>1, <1>5 DEF N

LEMMA SumOfOneMore ==
  ASSUME NEW f, NEW S, IsFiniteSet(S), NEW x, x \notin S,
         \A y \in S \cup {x} : f[y] \in Int
  PROVE  SumOver(f, S \cup {x}) = SumOver(f, S) + f[x]
<1>1. IsFiniteSet(S \cup {x}) /\ (S \cup {x}) \ {x} = S
  BY FS_AddElement
<1>2. SumOver(f, S) \in Int /\ f[x] \in Int
  BY SumOfPicked
<1> QED BY <1>1, <1>2, SumOfMember

LEMMA SumOfSums ==
  ASSUME NEW f, NEW g, NEW h, NEW S, IsFiniteSet(S),
         \A y \in S : f[y] \in Int /\ g[y] \in Int /\ h[y] = f[y] + g[y]
  PROVE  SumOver(h, S) = SumOver(f, S) + SumOver(g, S)
<1> DEFINE F == {s \in SUBSET S : SumOver(h, s) = SumOver(f, s) + SumOver(g, s)}
<1>1. \A y \in S : h[y] \in Int
  OBVIOUS
<1>2. ASSUME NEW s \in SUBSET S
      PROVE  IsFiniteSet(s) /\ SumOver(f, s) \in Int /\ SumOver(g, s) \in Int
  BY FS_Subset, SumOfPicked
<1>3. {} \in F
  <2>1. IsFiniteSet({})
    BY FS_EmptySet
  <2>2. SumOver(f, {}) = 0 /\ SumOver(g, {}) = 0 /\ SumOver(h, {}) = 0
    BY <2>1, SumOfPicked
  <2> QED BY <2>2
<1>4. ASSUME NEW s \in SUBSET S, NEW x \in S \ s, s \in F PROVE s \cup {x} \in F
  <2>1. /\ SumOver(h, s \cup {x}) = SumOver(h, s) + h[x]
        /\ SumOver(f, s \cup {x}) = SumOver(f, s) + f[x]
        /\ SumOver(g, s \cup {x}) = SumOver(g, s) + g[x]
    BY <1>1, <1>2, SumOfOneMore
  <2>2. f[x] \in Int /\ g[x] \in Int /\ h[x] = f[x] + g[x]
    OBVIOUS
  <2> QED BY <1>2, <1>4, <2>1, <2>2
<1> HIDE DEF F
<1>5. S \in F
  BY <1>3, <1>4, FiniteInduction
<1> QED BY <1>5 DEF F

\* A sum of multiples is the multiple of the sum.
LEMMA SumOfMultiples ==
  ASSUME NEW f, NEW g, NEW b \in Int, NEW S, IsFiniteSet(S),
         \A y \in S : f[y] \in Int /\ g[y] = b * f[y]
  PROVE  SumOver(g, S) = b * SumOver(f, S)
<1> DEFINE F == {s \in SUBSET S : SumOver(g, s) = b * SumOver(f, s)}
<1>1. \A y \in S : g[y] \in Int
  OBVIOUS
<1>2. ASSUME NEW s \in SUBSET S
      PROVE  IsFiniteSet(s) /\ SumOver(f, s) \in Int
  BY FS_Subset, SumOfPicked
<1>3. {} \in F
  <2>1. IsFiniteSet({})
    BY FS_EmptySet
  <2>2. SumOver(f, {}) = 0 /\ SumOver(g, {}) = 0
    BY <2>1, SumOfPicked
  <2> QED BY <2>2
<1>4. ASSUME NEW s \in SUBSET S, NEW x \in S \ s, s \in F PROVE s \cup {x} \in F
  <2>1. /\ SumOver(f, s \cup {x}) = SumOver(f, s) + f[x]
        /\ SumOver(g, s \cup {x}) = SumOver(g, s) + g[x]
    BY <1>1, <1>2, SumOfOneMore
  <2>2. PICK p \in Int, q \in Int : p = SumOver(f, s) /\ q = f[x]
    BY <1>2
  <2>3. SumOver(g, s) = b * p /\ g[x] = b * q
    BY <1>4, <2>2
  <2>4. b * (p + q) = b * p + b * q
    OBVIOUS
  <2>5. SumOver(g, s \cup {x}) = b * SumOver(f, s \cup {x})
    BY <2>1, <2>2, <2>3, <2>4
  <2> QED BY <2>5
<1> HIDE DEF F
<1>5. S \in F
  BY <1>3, <1>4, FiniteInduction
<1> QED BY <1>5 DEF F

LEMMA SumOfNaturals ==
  ASSUME NEW f, NEW S, IsFiniteSet(S), \A y \in S : f[y] \in Nat
  PROVE  SumOver(f, S) \in Nat
<1> DEFINE F == {s \in SUBSET S : SumOver(f, s) \in Nat}
<1>1. ASSUME NEW s \in SUBSET S PROVE IsFiniteSet(s)
  BY FS_Subset
<1>2. {} \in F
  <2>1. IsFiniteSet({}) /\ SumOver(f, {}) = 0
    BY FS_EmptySet, SumOfPicked
  <2> QED BY <2>1
<1>3. ASSUME NEW s \in SUBSET S, NEW x \in S \ s, s \in F PROVE s \cup {x} \in F
  <2>1. SumOver(f, s \cup {x}) = SumOver(f, s) + f[x]
    BY <1>1, SumOfOneMore
  <2> QED BY <1>3, <2>1
<1> HIDE DEF F
<1>4. S \in F
  BY <1>2, <1>3, FiniteInduction
<1> QED BY <1>4 DEF F

\* What is no more member by member is no more in sum.
LEMMA SumIsMonotone ==
  ASSUME NEW f, NEW g, NEW S, IsFiniteSet(S),
         \A y \in S : f[y] \in Int, \A y \in S : g[y] \in Int, \A y \in S : f[y] <= g[y]
  PROVE  SumOver(f, S) <= SumOver(g, S)
<1> DEFINE d == [y \in S |-> g[y] - f[y]]
<1>1. \A y \in S : d[y] \in Nat
  OBVIOUS
<1>2. \A y \in S : f[y] \in Int /\ d[y] \in Int /\ g[y] = f[y] + d[y]
  OBVIOUS
<1> HIDE DEF d
<1>3. SumOver(d, S) \in Nat
  BY <1>1, SumOfNaturals
<1>4. SumOver(g, S) = SumOver(f, S) + SumOver(d, S)
  BY <1>2, SumOfSums
<1>5. SumOver(f, S) \in Int
  BY SumOfPicked
<1> QED BY <1>3, <1>4, <1>5

\* Some of the members come to no more than all of them.
LEMMA SumOfSome ==
  ASSUME NEW f, NEW S, IsFiniteSet(S), NEW T \in SUBSET S, \A y \in S : f[y] \in Nat
  PROVE  SumOver(f, T) <= SumOver(f, S)
<1> DEFINE F == {s \in SUBSET (S \ T) : SumOver(f, T) <= SumOver(f, T \cup s)}
<1>1. ASSUME NEW s \in SUBSET S
      PROVE  IsFiniteSet(s) /\ SumOver(f, s) \in Int /\ \A y \in s : f[y] \in Int
  <2>1. IsFiniteSet(s) /\ \A y \in s : f[y] \in Int
    BY FS_Subset
  <2> QED BY <2>1, SumOfPicked
<1>2. {} \in F
  <2>1. T \cup {} = T /\ SumOver(f, T) \in Int
    BY <1>1
  <2> QED BY <2>1
<1>3. ASSUME NEW s \in SUBSET (S \ T), NEW x \in (S \ T) \ s, s \in F PROVE s \cup {x} \in F
  <2>1. T \cup s \in SUBSET S /\ x \notin T \cup s /\ T \cup (s \cup {x}) = (T \cup s) \cup {x}
    OBVIOUS
  <2>2. IsFiniteSet(T \cup s) /\ SumOver(f, T \cup s) \in Int /\ SumOver(f, T) \in Int
    BY <1>1, <2>1
  <2>3. SumOver(f, (T \cup s) \cup {x}) = SumOver(f, T \cup s) + f[x]
    <3>1. \A y \in (T \cup s) \cup {x} : f[y] \in Int
      OBVIOUS
    <3> QED BY <2>1, <2>2, <3>1, SumOfOneMore
  <2>4. SumOver(f, T) <= SumOver(f, T \cup s) /\ f[x] \in Nat
    BY <1>3
  <2>5. SumOver(f, T) <= SumOver(f, T \cup (s \cup {x}))
    <3>1. SumOver(f, T \cup (s \cup {x})) = SumOver(f, T \cup s) + f[x]
      BY <2>1, <2>3
    <3> HIDE DEF F
    <3> QED BY <2>2, <2>4, <3>1
  <2> QED BY <1>3, <2>5
<1> HIDE DEF F
<1>4. IsFiniteSet(S \ T)
  BY FS_Subset
<1>5. S \ T \in F
  BY <1>2, <1>3, <1>4, FiniteInduction
<1>6. T \cup (S \ T) = S
  OBVIOUS
<1> QED BY <1>5, <1>6 DEF F

LEMMA SumOfEquals ==
  ASSUME NEW f, NEW g, NEW S, IsFiniteSet(S),
         \A y \in S : f[y] \in Int /\ g[y] = f[y]
  PROVE  SumOver(g, S) = SumOver(f, S)
<1>1. \A y \in S : f[y] \in Int /\ g[y] = 1 * f[y]
  OBVIOUS
<1>2. SumOver(g, S) = 1 * SumOver(f, S)
  BY <1>1, SumOfMultiples
<1>3. SumOver(f, S) \in Int
  BY SumOfPicked
<1> QED BY <1>2, <1>3

-----------------------------------------------------------------------------
(* The stream                                                              *)

LEMMA DivisionIsMonotone ==
  ASSUME NEW a \in Nat, NEW b \in Nat, NEW n \in Nat \ {0}, a <= b
  PROVE  a \div n \in Nat /\ b \div n \in Nat /\ a \div n <= b \div n
OBVIOUS

LEMMA ProductIsMonotone ==
  ASSUME NEW a \in Nat, NEW b \in Nat, NEW n \in Nat, a <= b
  PROVE  a * n \in Nat /\ b * n \in Nat /\ a * n <= b * n
OBVIOUS

LEMMA VestingIsMonotone ==
  ASSUME NEW a \in Nat, NEW b \in Nat, a <= b
  PROVE  VestedFor(a) \in Nat /\ VestedFor(b) \in Nat /\ VestedFor(a) <= VestedFor(b)
<1>1. a \div Interval \in Nat /\ b \div Interval \in Nat /\ a \div Interval <= b \div Interval
  BY StreamerAssumption, DivisionIsMonotone
<1> QED BY <1>1, StreamerAssumption, ProductIsMonotone DEF VestedFor

LEMMA MilestoneAhead ==
  ASSUME NEW t \in Nat, t < LastMilestone
  PROVE  NextMilestone(t) \in Nat /\ NextMilestone(t) # NoMilestone
<1> DEFINE k == (End - Start) \div Interval
           q == (t - Start) \div Interval
<1>0. Start \in Nat /\ End \in Nat /\ Start < End /\ Interval \in Nat \ {0}
  BY StreamerAssumption
<1>1. k \in Nat /\ k * Interval \in Nat /\ k * Interval <= End - Start
  BY <1>0
<1>2. t < Start + k * Interval
  BY DEF LastMilestone
<1>3. CASE t < Start
  BY <1>0, <1>3 DEF NextMilestone, NoMilestone
<1>4. CASE t >= Start
  <2>1. q \in Nat /\ q * Interval <= t - Start
    BY <1>0, <1>4
  <2>2. q * Interval < k * Interval
    BY <1>0, <1>1, <1>2, <1>4, <2>1
  <2>3. q < k
    BY <1>0, <1>1, <2>1, <2>2
  <2>4. (q + 1) * Interval <= k * Interval /\ (q + 1) * Interval \in Nat
    BY <1>0, <1>1, <2>1, <2>3
  <2>5. Start + (q + 1) * Interval <= End /\ t < End
    BY <1>0, <1>1, <1>2, <2>4
  <2> QED BY <1>0, <1>4, <2>4, <2>5 DEF NextMilestone, NoMilestone
<1> QED BY <1>0, <1>3, <1>4

\* The time the contract counts is the time the stream ran.
StreamInv ==
  /\ now \in Nat /\ active \in Nat /\ claimed \in Nat /\ pausedAt \in Nat /\ pauseOffset \in Nat
  /\ balance \in Nat /\ returned \in Nat /\ funded \in Nat
  /\ paused => pausedAt <= now
  /\ Elapsed = active
  /\ claimed <= VestedFor(active)
  /\ NothingIsLost

LEMMA StreamSteps ==
  ASSUME StreamInv, [StreamerNext]_streamVars
  PROVE  StreamInv'
<1>0. /\ Start \in Nat /\ End \in Nat /\ Start < End /\ Interval \in Nat \ {0}
      /\ \A amount \in Deposits : amount \in Nat
  BY StreamerAssumption
<1>1. /\ now \in Nat /\ active \in Nat /\ claimed \in Nat /\ pausedAt \in Nat /\ pauseOffset \in Nat
      /\ balance \in Nat /\ returned \in Nat /\ funded \in Nat
      /\ VestedFor(active) \in Nat /\ claimed <= VestedFor(active)
      /\ Elapsed = active
      /\ balance + claimed + returned = funded
  BY VestingIsMonotone DEF StreamInv, NothingIsLost
<1>2. Vested = VestedFor(active) /\ Available = VestedFor(active) - claimed /\ Available \in Nat
  BY <1>1 DEF Vested, Available
\* Money moves and the clock stands still.
<1>3. ASSUME UNCHANGED <<now, active, paused, pausedAt, pauseOffset>>,
             claimed' \in Nat, claimed' <= VestedFor(active),
             balance' \in Nat, returned' \in Nat, funded' \in Nat,
             balance' + claimed' + returned' = funded'
      PROVE  StreamInv'
  <2>1. Elapsed' = Elapsed
    BY <1>3 DEF Elapsed, Cap
  <2>2. VestedFor(active)' = VestedFor(active)
    BY <1>3 DEF VestedFor
  <2> QED BY <1>3, <2>1, <2>2 DEF StreamInv, NothingIsLost
<1>4. ASSUME NEW amount \in Deposits, Fund(amount) PROVE StreamInv'
  BY <1>0, <1>1, <1>3, <1>4 DEF Fund
<1>5. CASE Claim
  BY <1>1, <1>2, <1>3, <1>5 DEF Claim, ClaimSucceeds
<1>6. CASE CancelStream
  BY <1>1, <1>3, <1>6 DEF CancelStream
<1>7. CASE RetrieveUnvested
  BY <1>1, <1>2, <1>3, <1>7 DEF RetrieveUnvested
\* The clock or the pause moves and the money stays.
<1>8. ASSUME UNCHANGED <<claimed, balance, returned, funded>>,
             now' \in Nat, active' \in Nat, pausedAt' \in Nat, pauseOffset' \in Nat,
             active <= active', paused' => pausedAt' <= now', Elapsed' = active'
      PROVE  StreamInv'
  <2>1. VestedFor(active)' = VestedFor(active')
    BY DEF VestedFor
  <2>2. VestedFor(active) <= VestedFor(active') /\ VestedFor(active') \in Nat
    BY <1>1, <1>8, VestingIsMonotone
  <2> QED BY <1>1, <1>8, <2>1, <2>2 DEF StreamInv, NothingIsLost
<1>9. CASE Pause
  <2>1. Elapsed = Monus(Min2(now, End), Start) - pauseOffset
    BY <1>9 DEF Pause, Elapsed, Cap
  <2>2. Elapsed' = Monus(Min2(Min2(now, End), now), Start) - pauseOffset
    BY <1>9 DEF Pause, Elapsed, Cap
  <2>3. Min2(Min2(now, End), now) = Min2(now, End)
    BY <1>0, <1>1 DEF Min2
  <2> QED BY <1>1, <1>8, <1>9, <2>1, <2>2, <2>3 DEF Pause
<1>10. CASE Unpause
  <2>1. Elapsed = Monus(Min2(Min2(now, End), pausedAt), Start) - pauseOffset
    BY <1>10 DEF Unpause, Elapsed, Cap
  <2>2. Elapsed' = Monus(Min2(now, End), Start) - (pauseOffset + PausedInWindow)
    BY <1>10 DEF Unpause, Elapsed, Cap
  <2>3. pausedAt <= now
    BY <1>10 DEF Unpause
  <2>4. PausedInWindow \in Nat /\ Elapsed' = Elapsed
    BY <1>0, <1>1, <2>1, <2>2, <2>3 DEF PausedInWindow, Monus, Min2, Max2
  <2>5. /\ UNCHANGED <<claimed, balance, returned, funded, now, active>>
        /\ ~paused' /\ pausedAt' = 0 /\ pauseOffset' = pauseOffset + PausedInWindow
    BY <1>10 DEF Unpause
  <2> QED BY <1>1, <1>8, <2>4, <2>5
<1>11. CASE Tick
  <2>1. /\ now' = now + 1 /\ UNCHANGED <<claimed, balance, returned, funded>>
        /\ UNCHANGED <<paused, pausedAt, pauseOffset>>
        /\ active' = active + (IF ~paused /\ Start <= now /\ now < End THEN 1 ELSE 0)
    BY <1>11 DEF Tick, contractVars
  <2>2. CASE paused
    <3>1. pausedAt <= now
      BY <2>2 DEF StreamInv
    <3>2. Elapsed = Monus(Min2(Min2(now, End), pausedAt), Start) - pauseOffset
      BY <2>2 DEF Elapsed, Cap
    <3>3. Elapsed' = Monus(Min2(Min2(now + 1, End), pausedAt), Start) - pauseOffset
      BY <2>1, <2>2 DEF Elapsed, Cap
    <3>4. Min2(Min2(now + 1, End), pausedAt) = Min2(Min2(now, End), pausedAt)
      BY <1>0, <1>1, <3>1 DEF Min2
    <3>5. active' = active
      BY <1>1, <2>1, <2>2
    <3> QED BY <1>1, <1>8, <2>1, <3>1, <3>2, <3>3, <3>4, <3>5
  <2>3. CASE ~paused
    <3>1. Elapsed = Monus(Min2(now, End), Start) - pauseOffset
      BY <2>3 DEF Elapsed, Cap
    <3>2. Elapsed' = Monus(Min2(now + 1, End), Start) - pauseOffset
      BY <2>1, <2>3 DEF Elapsed, Cap
    <3>3. active' = active + (IF Start <= now /\ now < End THEN 1 ELSE 0)
      BY <2>1, <2>3
    <3>4. Elapsed' = active' /\ active' \in Nat /\ active <= active'
      <4>1. PICK d \in {0, 1} : d = IF Start <= now /\ now < End THEN 1 ELSE 0
        OBVIOUS
      <4>2. PICK m, n : m = Monus(Min2(now, End), Start) /\ n = Monus(Min2(now + 1, End), Start)
        OBVIOUS
      <4>3. m \in Nat /\ n = m + d
        BY <1>0, <1>1, <4>1, <4>2 DEF Monus, Min2
      <4>4. Elapsed = m - pauseOffset /\ Elapsed' = n - pauseOffset /\ active' = active + d
        BY <3>1, <3>2, <3>3, <4>1, <4>2
      <4>5. Elapsed = active /\ active \in Nat /\ pauseOffset \in Nat /\ d \in Nat
        BY <1>1, <4>1
      <4>6. n - pauseOffset = (m - pauseOffset) + d
        BY <4>3, <4>5
      <4>7. Elapsed' = active + d
        BY <4>4, <4>5, <4>6
      <4>8. active + d \in Nat /\ active <= active + d
        BY <4>5
      <4> QED BY <4>4, <4>7, <4>8
    <3>5. ~paused'
      BY <2>1, <2>3
    <3> QED BY <1>1, <1>8, <2>1, <3>4, <3>5
  <2> QED BY <2>2, <2>3
<1>12. CASE UNCHANGED streamVars
  BY <1>1, <1>3, <1>12 DEF streamVars, contractVars
<1> QED BY <1>4, <1>5, <1>6, <1>7, <1>9, <1>10, <1>11, <1>12 DEF StreamerNext

LEMMA StreamBegins == StreamerInit => StreamInv
<1> SUFFICES ASSUME StreamerInit PROVE StreamInv
  OBVIOUS
<1>1. Start \in Nat /\ End \in Nat /\ Start < End
  BY StreamerAssumption
<1>2. /\ now = 0 /\ active = 0 /\ claimed = 0 /\ ~paused /\ pausedAt = 0 /\ pauseOffset = 0
      /\ balance = 0 /\ returned = 0 /\ funded = 0
  BY DEF StreamerInit
<1>3. Elapsed = active
  BY <1>1, <1>2 DEF Elapsed, Cap, Monus, Min2
<1>4. VestedFor(active) \in Nat
  BY <1>2, VestingIsMonotone
<1> QED BY <1>2, <1>3, <1>4 DEF StreamInv, NothingIsLost

\* The stream's inductive invariant, for any window, interval, rate and deposits.
THEOREM StreamInvariant == StreamerSpec => []StreamInv
<1>1. StreamInv /\ [StreamerNext]_streamVars => StreamInv'
  BY StreamSteps
<1> QED BY <1>1, StreamBegins, PTL DEF StreamerSpec

LEMMA AccountsAgree ==
  ASSUME StreamInv
  PROVE  Accountable /\ Vested = Earned /\ claimed <= Earned
<1>1. Vested = VestedFor(active) /\ Earned = VestedFor(active) /\ claimed <= VestedFor(active)
  BY DEF StreamInv, Vested, Earned
<1>2. paused => pausedAt <= now
  BY DEF StreamInv
<1>3. claimed \in Nat /\ Elapsed \in Nat
  BY DEF StreamInv
<1> QED BY <1>1, <1>2, <1>3 DEF Accountable

\* __constructor: pauses only reduce what has elapsed, so the product checked
\* there, of the intervals in the whole window and the rate, bounds all vesting.
THEOREM VestingIsBounded ==
  StreamerSpec => [](Vested <= VestedFor(End - Start) /\ claimed <= VestedFor(End - Start))
<1>1. ASSUME StreamInv
      PROVE  Vested <= VestedFor(End - Start) /\ claimed <= VestedFor(End - Start)
  <2>1. Start \in Nat /\ End \in Nat /\ Start < End
    BY StreamerAssumption
  <2>2. /\ now \in Nat /\ pausedAt \in Nat /\ pauseOffset \in Nat /\ Elapsed \in Nat
        /\ Vested = VestedFor(Elapsed) /\ claimed \in Nat /\ claimed <= Vested
    BY <1>1 DEF StreamInv, Vested
  <2>3. Elapsed <= End - Start
    BY <2>1, <2>2 DEF Elapsed, Cap, Monus, Min2
  <2>4. End - Start \in Nat
    BY <2>1
  <2>5. /\ Vested \in Nat /\ VestedFor(End - Start) \in Nat
        /\ Vested <= VestedFor(End - Start)
    BY <2>2, <2>3, <2>4, VestingIsMonotone
  <2> QED BY <2>2, <2>5
<1> QED BY <1>1, StreamInvariant, PTL

\* claim, cancel, retrieve_unvested: what came in is in the balance, with the
\* recipients or back with the admin.
THEOREM NoMoneyIsLost == StreamerSpec => []NothingIsLost
<1>1. StreamInv => NothingIsLost
  BY DEF StreamInv
<1> QED BY <1>1, StreamInvariant, PTL

-----------------------------------------------------------------------------
(* The shares of a claim                                                   *)

LEMMA QuotientOfSum ==
  ASSUME NEW u \in Nat, NEW w \in Nat, NEW t \in Nat,
         10000 * t <= w, w < 10000 * t + 10000
  PROVE  (10000 * u + w) \div 10000 = u + t
OBVIOUS

\* percentage_share: splitting the amount before multiplying, so that no product
\* larger than the amount is formed, loses nothing: it is the floor of the
\* recipient's part, for every amount and every number of basis points.
THEOREM PercentageShareIsExact ==
  ASSUME NEW a \in Nat, NEW b \in Nat
  PROVE  /\ PercentageShare(a, b) \in Nat
         /\ PercentageShare(a, b) = (a * b) \div 10000
         /\ 10000 * PercentageShare(a, b) <= a * b
<1>1. PICK q \in Nat, r \in Nat : q = a \div 10000 /\ r = a % 10000 /\ a = 10000 * q + r
  OBVIOUS
<1>2. PICK u \in Nat, w \in Nat : u = q * b /\ w = r * b
  OBVIOUS
<1>3. a * b = 10000 * u + w
  BY <1>1, <1>2
<1>4. PICK t \in Nat : t = w \div 10000 /\ 10000 * t <= w /\ w < 10000 * t + 10000
  OBVIOUS
<1>5. (10000 * u + w) \div 10000 = u + t
  BY <1>4, QuotientOfSum
<1>6. PercentageShare(a, b) = u + t
  BY <1>1, <1>2, <1>4 DEF PercentageShare
<1> QED BY <1>3, <1>4, <1>5, <1>6

FloorAdding(a, S, g) ==
  g = [s \in SUBSET S |->
         IF s = {} THEN 0 ELSE FloorShare(a, Picked(s)) + g[s \ {Picked(s)}]]

Last == Len(Shares)

LEMMA LastShare ==
  ASSUME NEW a, NEW f, \A i \in 1 .. Last - 1 : f[i] = FloorShare(a, i)
  PROVE  ShareOf(a, Last) = a - SumOver(f, 1 .. Last - 1)
<1> DEFINE S == 1 .. Last - 1
<1>1. ASSUME NEW g PROVE Adding(f, S, g) <=> FloorAdding(a, S, g)
  <2>1. \A s \in SUBSET S : s # {} => f[Picked(s)] = FloorShare(a, Picked(s))
    BY PickedIsMember
  <2>2. [s \in SUBSET S |->
           IF s = {} THEN 0 ELSE FloorShare(a, Picked(s)) + g[s \ {Picked(s)}]]
        = [s \in SUBSET S |-> IF s = {} THEN 0 ELSE f[Picked(s)] + g[s \ {Picked(s)}]]
    BY <2>1
  <2> QED BY <2>2 DEF Adding, FloorAdding
<1>2. (CHOOSE g : Adding(f, S, g)) = (CHOOSE g : FloorAdding(a, S, g))
  BY <1>1
<1>3. ShareOf(a, Last) = a - (CHOOSE g : FloorAdding(a, S, g))[S]
  BY StreamerAssumption
  DEF ShareOf, Last, FloorAdding, Picked, MapThenSumSet, MapThenFoldSet
<1> QED BY <1>2, <1>3, SumUnfolds

\* Recipients' shares: none is negative and together they are the amount.
LEMMA SharesAddUp ==
  ASSUME NEW a \in Nat
  PROVE  /\ \A i \in DOMAIN Shares : ShareOf(a, i) \in Nat
         /\ SumOver([i \in DOMAIN Shares |-> ShareOf(a, i)], DOMAIN Shares) = a
<1> DEFINE S == 1 .. Last - 1
           D == DOMAIN Shares
           f == [i \in D |-> FloorShare(a, i)]
           h == [i \in D |-> ShareOf(a, i)]
<1>1. /\ Last \in Nat \ {0} /\ D = 1 .. Last /\ \A i \in D : Shares[i] \in Nat
  BY StreamerAssumption DEF Last
<1>2. D = S \cup {Last} /\ Last \notin S /\ Last \in D
  BY <1>1
<1>3. IsFiniteSet(S) /\ IsFiniteSet(D)
  BY <1>1, FS_Interval
<1>4. \A i \in D : f[i] = FloorShare(a, i) /\ h[i] = ShareOf(a, i)
  OBVIOUS
<1>5. ShareOf(a, Last) = a - SumOver(f, S)
  BY <1>2, <1>4, LastShare
<1>6. \A i \in S : h[i] = f[i]
  BY <1>1, <1>2 DEF ShareOf, Last
<1> HIDE DEF f, h, S, D
<1>7. ASSUME NEW i \in D
      PROVE  f[i] \in Nat /\ 10000 * f[i] <= a * Shares[i] /\ Shares[i] \in Nat
  <2>1. Shares[i] \in Nat
    BY <1>1
  <2>2. f[i] = PercentageShare(a, Shares[i])
    BY <1>4 DEF FloorShare
  <2>3. PICK b \in Nat : b = Shares[i]
    BY <2>1
  <2>4. PercentageShare(a, b) \in Nat /\ 10000 * PercentageShare(a, b) <= a * b
    BY PercentageShareIsExact
  <2> QED BY <2>2, <2>3, <2>4
<1>8. /\ \A i \in S : f[i] \in Nat
      /\ \A i \in S : f[i] \in Int
      /\ \A i \in S : Shares[i] \in Int
      /\ \A i \in D : Shares[i] \in Int
  BY <1>2, <1>7
<1>9. SumOver(f, S) \in Nat /\ SumOver(h, S) = SumOver(f, S)
  BY <1>3, <1>6, <1>8, SumOfNaturals, SumOfEquals
\* What the others take is no more than their part of the amount.
<1>10. SumOver(f, S) <= a
  <2>1. SumOver(Shares, D) = 10000
    BY SharesAssumption DEF SumOver, D
  <2>2. SumOver(Shares, D) = SumOver(Shares, S) + Shares[Last]
    BY <1>2, <1>3, <1>8, SumOfOneMore
  <2>3. SumOver(Shares, S) \in Int
    BY <1>3, <1>8, SumOfPicked
  <2>4. SumOver(Shares, S) <= 10000 /\ Shares[Last] \in Nat
    BY <1>2, <1>7, <2>1, <2>2, <2>3
  <2>5. 10000 * SumOver(f, S) <= a * SumOver(Shares, S)
    <3> DEFINE l == [i \in S |-> 10000 * f[i]]
               r == [i \in S |-> a * Shares[i]]
    <3>1. /\ \A i \in S : f[i] \in Int /\ l[i] = 10000 * f[i]
          /\ \A i \in S : Shares[i] \in Int /\ r[i] = a * Shares[i]
      BY <1>8
    <3>2. /\ \A i \in S : l[i] \in Int
          /\ \A i \in S : r[i] \in Int
          /\ \A i \in S : l[i] <= r[i]
      BY <1>2, <1>7, <1>8
    <3> HIDE DEF l, r
    <3>3. SumOver(l, S) = 10000 * SumOver(f, S)
      BY <1>3, <3>1, SumOfMultiples
    <3>4. SumOver(r, S) = a * SumOver(Shares, S)
      BY <1>3, <3>1, SumOfMultiples
    <3>5. SumOver(l, S) <= SumOver(r, S)
      BY <1>3, <3>2, SumIsMonotone
    <3> QED BY <3>3, <3>4, <3>5
  <2>6. PICK p, q : p = SumOver(f, S) /\ q = SumOver(Shares, S)
    OBVIOUS
  <2>7. p \in Nat /\ q \in Int /\ q <= 10000 /\ 10000 * p <= a * q
    BY <1>9, <2>3, <2>4, <2>5, <2>6
  <2>8. a * q <= a * 10000
    BY <2>7
  <2>9. p <= a
    BY <2>7, <2>8
  <2> QED BY <2>6, <2>9
<1>11. h[Last] = a - SumOver(f, S) /\ h[Last] \in Nat
  BY <1>2, <1>4, <1>5, <1>9, <1>10
<1>12. \A i \in D : h[i] \in Nat
  BY <1>2, <1>6, <1>7, <1>11
<1>13. SumOver(h, D) = SumOver(h, S) + h[Last]
  BY <1>2, <1>3, <1>12, SumOfOneMore
<1>14. SumOver(h, D) = a
  BY <1>9, <1>11, <1>13
<1> QED BY <1>4, <1>12, <1>14 DEF h, D

\* What the recipients have adds up to what was claimed.
PaidInv ==
  /\ paid \in [DOMAIN Shares -> Nat]
  /\ SumOver(paid, DOMAIN Shares) = claimed

RecipientsAreFinite == IsFiniteSet(DOMAIN Shares)

LEMMA FinitelyManyRecipients == RecipientsAreFinite
<1>1. DOMAIN Shares = 1 .. Len(Shares) /\ Len(Shares) \in Nat
  BY StreamerAssumption
<1> QED BY <1>1, FS_Interval DEF RecipientsAreFinite

LEMMA ClaimPays ==
  ASSUME StreamInv, PaidInv, Claim
  PROVE  PaidInv' /\ \A i \in DOMAIN Shares : paid'[i] >= paid[i]
<1> DEFINE D == DOMAIN Shares
           share == [i \in D |-> ShareOf(Available, i)]
<1>1. /\ Available = Vested - claimed /\ Available \in Nat
      /\ claimed \in Nat /\ Vested \in Nat /\ claimed' = Vested
  <2>1. VestedFor(active) \in Nat
    BY VestingIsMonotone DEF StreamInv
  <2>2. Vested = VestedFor(active) /\ claimed \in Nat /\ claimed <= VestedFor(active)
    BY DEF StreamInv, Vested
  <2> QED BY <2>1, <2>2 DEF Available, Claim
<1>2. /\ \A i \in D : share[i] \in Nat
      /\ SumOver(share, D) = Available
  BY <1>1, SharesAddUp
<1>3. paid \in [D -> Nat] /\ paid' = [i \in D |-> paid[i] + ShareOf(Available, i)]
  BY DEF PaidInv, Claim
<1>4. \A i \in D : share[i] = ShareOf(Available, i)
  OBVIOUS
<1> HIDE DEF share, D
<1>5. /\ \A i \in D : paid[i] \in Int /\ share[i] \in Int /\ paid'[i] = paid[i] + share[i]
      /\ \A i \in D : paid[i] \in Nat /\ share[i] \in Nat
  BY <1>2, <1>3, <1>4
<1>6. SumOver(paid', D) = SumOver(paid, D) + SumOver(share, D)
  BY <1>5, FinitelyManyRecipients, SumOfSums DEF RecipientsAreFinite, D
<1>7. SumOver(paid', D) = claimed'
  <2>1. SumOver(paid, D) = claimed
    BY DEF PaidInv, D
  <2> QED BY <1>1, <1>2, <1>6, <2>1
<1>8. paid' \in [D -> Nat] /\ \A i \in D : paid'[i] >= paid[i]
  BY <1>3, <1>4, <1>5
<1> QED BY <1>7, <1>8 DEF PaidInv, D

LEMMA PaidSteps ==
  ASSUME StreamInv, PaidInv, [StreamerNext]_streamVars
  PROVE  PaidInv' /\ \A i \in DOMAIN Shares : paid'[i] >= paid[i]
<1>1. CASE Claim
  BY <1>1, ClaimPays
<1>2. CASE UNCHANGED <<paid, claimed>>
  BY <1>2 DEF PaidInv
<1>3. Claim \/ UNCHANGED <<paid, claimed>>
  BY DEF StreamerNext, Fund, CancelStream, RetrieveUnvested, Pause, Unpause, Tick,
         streamVars, contractVars
<1> QED BY <1>1, <1>2, <1>3

LEMMA PaidBegins == StreamerInit => PaidInv
<1> SUFFICES ASSUME StreamerInit PROVE PaidInv
  OBVIOUS
<1>1. paid = [i \in DOMAIN Shares |-> 0] /\ claimed = 0
  BY DEF StreamerInit
<1>2. \A i \in DOMAIN Shares : paid[i] \in Int /\ paid[i] = paid[i] + paid[i]
  BY <1>1
<1>3. SumOver(paid, DOMAIN Shares) = SumOver(paid, DOMAIN Shares) + SumOver(paid, DOMAIN Shares)
  BY <1>2, FinitelyManyRecipients, SumOfSums DEF RecipientsAreFinite
<1>4. SumOver(paid, DOMAIN Shares) \in Int
  BY <1>2, FinitelyManyRecipients, SumOfPicked DEF RecipientsAreFinite
<1>5. SumOver(paid, DOMAIN Shares) = 0
  <2> DEFINE sum == SumOver(paid, DOMAIN Shares)
  <2>1. sum \in Int /\ sum = sum + sum
    BY <1>3, <1>4
  <2> HIDE DEF sum
  <2>2. sum = 0
    BY <2>1
  <2> QED BY <2>2 DEF sum
<1>6. paid \in [DOMAIN Shares -> Nat]
  BY <1>1
<1>7. claimed = SumOver(paid, DOMAIN Shares)
  BY <1>1, <1>5
<1> QED BY <1>6, <1>7 DEF PaidInv

\* claim: the recipients' totals add up to what was claimed, whatever the number of
\* recipients and however their shares are rounded.
THEOREM PaidInvariant == StreamerSpec => [](StreamInv /\ PaidInv)
<1>1. StreamInv /\ PaidInv /\ [StreamerNext]_streamVars => (StreamInv /\ PaidInv)'
  BY StreamSteps, PaidSteps
<1> QED BY <1>1, StreamBegins, PaidBegins, PTL DEF StreamerSpec

\* compute_vested_and_available and claim: whatever the pauses cut the stream
\* into and however the shares are rounded, the contract accounts for exactly the
\* time it ran, its accounting errors are out of reach, and what the recipients
\* have been paid adds up to what has been claimed.
THEOREM StreamIsPaidAsAccrued == StreamerSpec => []StreamPaysAccrued
<1>1. ASSUME StreamInv, PaidInv PROVE StreamPaysAccrued
  <2>1. Accountable /\ Vested = Earned
    BY <1>1, AccountsAgree
  <2>2. Total = claimed
    BY <1>1 DEF PaidInv, Total, SumOver
  <2> QED BY <2>1, <2>2 DEF StreamPaysAccrued
<1> QED BY <1>1, PaidInvariant, PTL

\* claim: the last recipient takes what the others leave, and they never leave
\* less than nothing; so nobody's total goes down, and the loop's "share > 0"
\* skips only shares of zero.
THEOREM NobodyPaysBack ==
  StreamerSpec => [][\A i \in DOMAIN Shares : paid'[i] >= paid[i]]_streamVars
<1>1. StreamInv /\ PaidInv /\ [StreamerNext]_streamVars
      => [\A i \in DOMAIN Shares : paid'[i] >= paid[i]]_streamVars
  BY PaidSteps
<1> QED BY <1>1, PaidInvariant, PTL DEF StreamerSpec

-----------------------------------------------------------------------------
(* The jobs                                                                *)

\* The jobs do with the stream only what the contract lets anyone do.
THEOREM JobsOnlyUseTheContract == SJSpec => StreamerSpec
<1>1. SJInit => StreamerInit
  BY DEF SJInit
<1>2. ASSUME SJNext PROVE [StreamerNext]_streamVars
  <2>1. ASSUME NEW r \in Runners, RunnerNext(r) PROVE [StreamerNext]_streamVars
    <3>1. CASE LandClaim(r)
      BY <3>1 DEF LandClaim, StreamerNext
    <3>2. CASE UNCHANGED streamVars
      BY <3>2
    <3>3. LandClaim(r) \/ UNCHANGED streamVars
      BY <2>1 DEF RunnerNext, BeginScheduling, FindNext, CreateNext, SelectDueJobs,
                  NextJob, TakeJob, ReadAvailable, SendClaim, SeeSuccess,
                  SubmissionFails, AttemptThrows, SchedulingThrows, CatchError, RunIsLost
    <3> QED BY <3>1, <3>2, <3>3
  <2> QED BY <1>2, <2>1 DEF SJNext, RequestRetirement
<1>3. ASSUME UNCHANGED sjVars PROVE [StreamerNext]_streamVars
  BY <1>3 DEF sjVars
<1>4. [SJNext]_sjVars => [StreamerNext]_streamVars
  BY <1>2, <1>3
<1> QED BY <1>1, <1>4, PTL DEF SJSpec, StreamerSpec

JobRows == [status : Terminal \cup {"none", "PENDING", "RUNNING"},
            runAt : Nat, attempts : Nat]
Processes    == [pc : RunnerStates, due : SUBSET Selections, job : {0} \cup JobIds,
            runAt : Nat, attempts : Nat, tx : TxStates, caught : BOOLEAN]

\* The states in which a run has a job of its own, those in which it schedules
\* the next one, and all in which it is at work.
TryStates  == {"reading", "sending", "waiting"}
JobStates  == TryStates \cup {"catching"}
HandStates == {"finding", "creating"}
WorkStates == JobStates \cup HandStates
OpenStates == {"PENDING", "RUNNING"}

\* The run p knows the job that it needs.
KnowsItsJob(p) ==
  p.pc \in JobStates \cup {"admitted"} \/ (p.pc \in HandStates /\ ~p.caught)
    => p.job \in JobIds

\* Whoever works on a job took it: it is RUNNING until the try writes its end,
\* and nobody can take it again until its run is through.
WorkersInv ==
  \A r \in Runners :
    /\ KnowsItsJob(runner[r])
    /\ runner[r].pc \in TryStates => jobs[runner[r].job].status = "RUNNING"
    /\ runner[r].pc \in WorkStates /\ runner[r].job # 0
         => jobs[runner[r].job].status \notin {"none", "PENDING"}

\* While no run is lost, somebody works on every job that is RUNNING.
RunningInv ==
  losses = 0 =>
    \A j \in JobIds : jobs[j].status = "RUNNING" =>
      \E r \in Runners : runner[r].pc \in JobStates /\ runner[r].job = j

ChainInv ==
  /\ SJTypeOK
  /\ now \in Nat /\ losses \in Nat
  /\ WorkersInv
  /\ RunningInv
  /\ JobHasOneRunner
  /\ StreamKeepsAJob

LEMMA JobsRead ==
  ASSUME SJTypeOK, NEW j \in JobIds
  PROVE  /\ jobs[j] \in JobRows
         /\ Made(j) <=> jobs[j].status # "none"
         /\ Open(j) <=> jobs[j].status \in OpenStates
<1>1. jobs[j] \in JobRows
  BY DEF SJTypeOK, JobRows
<1> QED BY <1>1 DEF Made, Open, JobRows, OpenStates, Terminal

LEMMA AtWorkStates ==
  ASSUME NEW r \in Runners
  PROVE  /\ AtWork(r) <=> runner[r].pc \in WorkStates
         /\ AtWork(r)' <=> runner'[r].pc \in WorkStates
BY DEF AtWork, WorkStates, JobStates, TryStates, HandStates

\* A process moves and the rows stay as they are.
LEMMA RunnerMoves ==
  ASSUME ChainInv, NEW r \in Runners, NEW next \in Processes,
         SetRunner(r, next),
         UNCHANGED <<jobs, serviceState>>,
         now' = now, losses' \in Nat, losses' >= losses,
         KnowsItsJob(next),
         next.pc \in TryStates => runner[r].pc \in TryStates,
         next.pc \in WorkStates /\ next.job # 0 =>
            runner[r].pc \in WorkStates /\ next.job = runner[r].job,
         runner[r].pc \in JobStates =>
            losses' # 0 \/ (next.pc \in JobStates /\ next.job = runner[r].job),
         runner[r].pc \in HandStates =>
            \/ next.pc \in WorkStates
            \/ \E j \in JobIds : Open(j)
            \/ losses' # 0
            \/ serviceState # "ACTIVE"
            \/ now >= LastMilestone
  PROVE  ChainInv'
<1>1. /\ runner \in [Runners -> Processes] /\ runner'[r] = next
      /\ \A q \in Runners : q # r => runner'[q] = runner[q]
      /\ runner' \in [Runners -> Processes]
  BY DEF ChainInv, SJTypeOK, SetRunner, Processes
<1>2. SJTypeOK'
  BY <1>1 DEF ChainInv, SJTypeOK, Made, Processes
<1>0. TryStates \subseteq WorkStates /\ JobStates \subseteq WorkStates /\ 0 \notin JobIds
  BY StreamerJobsAssumption DEF TryStates, JobStates, WorkStates, JobIds
<1>3. WorkersInv'
  <2> SUFFICES ASSUME NEW q \in Runners
               PROVE  /\ KnowsItsJob(runner'[q])
                      /\ runner'[q].pc \in TryStates => jobs[runner'[q].job].status = "RUNNING"
                      /\ runner'[q].pc \in WorkStates /\ runner'[q].job # 0
                           => jobs[runner'[q].job].status \notin {"none", "PENDING"}
    BY DEF WorkersInv, KnowsItsJob
  <2>1. CASE q # r
    BY <1>1, <2>1 DEF ChainInv, WorkersInv
  <2>2. CASE q = r
    <3>1. /\ KnowsItsJob(next)
          /\ next.pc \in TryStates => next.job \in JobIds
      BY DEF KnowsItsJob, JobStates
    <3>2. /\ runner[r].pc \in TryStates => jobs[runner[r].job].status = "RUNNING"
          /\ runner[r].pc \in WorkStates /\ runner[r].job # 0
               => jobs[runner[r].job].status \notin {"none", "PENDING"}
      BY DEF ChainInv, WorkersInv
    <3> HIDE DEF KnowsItsJob
    <3>3. next.pc \in TryStates => jobs[next.job].status = "RUNNING"
      BY <1>0, <3>1, <3>2
    <3>4. next.pc \in WorkStates /\ next.job # 0
               => jobs[next.job].status \notin {"none", "PENDING"}
      BY <3>2
    <3> QED BY <1>1, <2>2, <3>1, <3>3, <3>4
  <2> QED BY <2>1, <2>2
<1>r. RunningInv'
  <2> SUFFICES ASSUME losses' = 0, NEW j \in JobIds, jobs[j].status = "RUNNING"
               PROVE  \E q \in Runners : runner'[q].pc \in JobStates /\ runner'[q].job = j
    BY DEF RunningInv
  <2>1. losses = 0
    BY DEF ChainInv
  <2>2. PICK q \in Runners : runner[q].pc \in JobStates /\ runner[q].job = j
    BY <2>1 DEF ChainInv, RunningInv
  <2> QED BY <1>1, <2>2
<1>4. JobHasOneRunner'
  <2> SUFFICES ASSUME NEW p \in Runners, NEW q \in Runners, NEW j \in JobIds,
                      p # q, runner'[p].pc \in WorkStates, runner'[p].job = j,
                      runner'[q].pc \in WorkStates, runner'[q].job = j
               PROVE  FALSE
    BY AtWorkStates DEF JobHasOneRunner, Holds
  <2>1. \A k \in {p, q} : runner[k].pc \in WorkStates /\ runner[k].job = j
    BY <1>0, <1>1
  <2> QED BY <2>1, AtWorkStates DEF ChainInv, JobHasOneRunner, Holds
<1>5. StreamKeepsAJob'
  <2> SUFFICES ASSUME \E j \in JobIds : Made(j)', serviceState' = "ACTIVE",
                      losses' = 0, now' < LastMilestone,
                      ~ \E j \in JobIds : jobs[j].status = "PENDING"
               PROVE  \E q \in Runners : runner'[q].pc \in WorkStates
    BY AtWorkStates DEF StreamKeepsAJob, LastMilestone
  <2>1. \A j \in JobIds : Made(j)' = Made(j)
    BY DEF Made
  <2>2. losses = 0 /\ now < LastMilestone /\ serviceState = "ACTIVE"
    BY DEF ChainInv
  <2>3. PICK q \in Runners : runner[q].pc \in WorkStates
    BY <2>1, <2>2, AtWorkStates DEF ChainInv, StreamKeepsAJob
  <2>4. CASE q = r
    <3>1. ~(now >= LastMilestone)
      BY <2>2, StreamerAssumption DEF LastMilestone, ChainInv
    <3>2. CASE runner[r].pc \in JobStates
      BY <1>0, <1>1, <3>2
    <3>3. CASE runner[r].pc \in HandStates
      <4>1. CASE next.pc \in WorkStates
        BY <1>1, <4>1
      <4>2. CASE \E j \in JobIds : Open(j)
        <5>1. PICK j \in JobIds : Open(j)
          BY <4>2
        <5>2. jobs[j].status = "RUNNING"
          BY <5>1, JobsRead DEF ChainInv, OpenStates
        <5>3. PICK k \in Runners : runner[k].pc \in JobStates /\ runner[k].job = j
          BY <2>2, <5>2 DEF ChainInv, RunningInv
        <5>4. k # r
          BY <3>3, <5>3 DEF JobStates, TryStates, HandStates
        <5> QED BY <1>0, <1>1, <5>3, <5>4
      <4> QED BY <2>2, <3>1, <3>3, <4>1, <4>2
    <3> QED BY <2>3, <2>4, <3>2, <3>3 DEF WorkStates
  <2>5. CASE q # r
    BY <1>1, <2>3, <2>5
  <2> QED BY <2>4, <2>5
<1> QED BY <1>2, <1>3, <1>r, <1>4, <1>5 DEF ChainInv

\* What the process r may become that writes the row j.
MayWrite(r, next, j, written) ==
  /\ KnowsItsJob(next)
  /\ written.status = "PENDING" \/ next.pc \in WorkStates
  /\ written.status = "RUNNING" => next.pc \in JobStates /\ next.job = j
  /\ next.pc \in TryStates => next.job = j /\ written.status = "RUNNING"
  /\ next.pc \in WorkStates /\ next.job # 0 =>
       \/ next.job = j /\ written.status # "PENDING"
       \/ next.job # j /\ runner[r].pc \in WorkStates /\ next.job = runner[r].job
  /\ runner[r].pc \in JobStates => runner[r].job = j
  /\ \A q \in Runners : q # r /\ runner[q].pc \in WorkStates => runner[q].job # j

\* A process writes one row, its own or a new one.
LEMMA JobMoves ==
  ASSUME ChainInv, NEW r \in Runners, NEW next \in Processes,
         NEW j \in JobIds, NEW written \in JobRows,
         SetRunner(r, next),
         jobs' = [jobs EXCEPT ![j] = written],
         UNCHANGED <<serviceState, now, losses>>,
         written.status # "none",
         Made(j) \/ \A i \in JobIds : i < j => Made(i),
         MayWrite(r, next, j, written)
  PROVE  ChainInv'
<1>w. /\ KnowsItsJob(next)
      /\ written.status = "PENDING" \/ next.pc \in WorkStates
      /\ written.status = "RUNNING" => next.pc \in JobStates /\ next.job = j
      /\ next.pc \in TryStates => next.job = j /\ written.status = "RUNNING"
      /\ next.pc \in WorkStates /\ next.job # 0 =>
           \/ next.job = j /\ written.status # "PENDING"
           \/ next.job # j /\ runner[r].pc \in WorkStates /\ next.job = runner[r].job
      /\ runner[r].pc \in JobStates => runner[r].job = j
      /\ \A q \in Runners : q # r /\ runner[q].pc \in WorkStates => runner[q].job # j
  BY DEF MayWrite
<1>1. /\ runner \in [Runners -> Processes] /\ runner'[r] = next
      /\ \A q \in Runners : q # r => runner'[q] = runner[q]
      /\ runner' \in [Runners -> Processes]
  BY DEF ChainInv, SJTypeOK, SetRunner, Processes
<1>2. /\ jobs \in [JobIds -> JobRows] /\ jobs'[j] = written
      /\ \A i \in JobIds : i # j => jobs'[i] = jobs[i]
      /\ jobs' \in [JobIds -> JobRows]
  BY DEF ChainInv, SJTypeOK, JobRows
<1>0. /\ TryStates \subseteq WorkStates /\ JobStates \subseteq WorkStates
      /\ TryStates \subseteq JobStates /\ 0 \notin JobIds
  BY StreamerJobsAssumption DEF TryStates, JobStates, WorkStates, JobIds
<1>3. SJTypeOK'
  <2>1. \A i \in JobIds : Made(i)' <=> (i = j \/ Made(i))
    BY <1>2 DEF Made
  <2>2. \A i, k \in JobIds : i < k /\ Made(k)' => Made(i)'
    BY <2>1 DEF ChainInv, SJTypeOK
  <2>3. serviceState' \in {"ACTIVE", "RETIRING"}
    BY DEF ChainInv, SJTypeOK
  <2> QED BY <1>1, <1>2, <2>2, <2>3 DEF SJTypeOK, JobRows, Processes
<1>4. WorkersInv'
  <2> SUFFICES ASSUME NEW q \in Runners
               PROVE  /\ KnowsItsJob(runner'[q])
                      /\ runner'[q].pc \in TryStates => jobs'[runner'[q].job].status = "RUNNING"
                      /\ runner'[q].pc \in WorkStates /\ runner'[q].job # 0
                           => jobs'[runner'[q].job].status \notin {"none", "PENDING"}
    BY DEF WorkersInv, KnowsItsJob
  <2>1. CASE q = r
    <3>1. next.pc \in TryStates => jobs'[next.job].status = "RUNNING"
      BY <1>2, <1>w
    <3>2. ASSUME next.pc \in WorkStates, next.job # 0
          PROVE  jobs'[next.job].status \notin {"none", "PENDING"}
      <4>1. CASE next.job = j
        BY <1>2, <1>w, <3>2, <4>1
      <4>2. CASE next.job # j
        <5>1. runner[r].pc \in WorkStates /\ next.job = runner[r].job
          BY <1>w, <3>2, <4>2
        <5>2. jobs[next.job].status \notin {"none", "PENDING"}
          BY <3>2, <5>1 DEF ChainInv, WorkersInv
        <5>3. next.job \in JobIds
          BY <3>2 DEF Processes
        <5> QED BY <1>2, <4>2, <5>2, <5>3
      <4> QED BY <4>1, <4>2
    <3> QED BY <1>1, <1>w, <2>1, <3>1, <3>2
  <2>2. CASE q # r
    <3>1. /\ KnowsItsJob(runner[q])
          /\ runner[q].pc \in TryStates => jobs[runner[q].job].status = "RUNNING"
          /\ runner[q].pc \in WorkStates /\ runner[q].job # 0
               => jobs[runner[q].job].status \notin {"none", "PENDING"}
      BY DEF ChainInv, WorkersInv
    <3>2. runner[q].job \in {0} \cup JobIds
      BY <1>1 DEF Processes
    <3>3. ASSUME runner[q].pc \in WorkStates, runner[q].job # 0
          PROVE  jobs'[runner[q].job] = jobs[runner[q].job]
      <4>1. runner[q].job # j
        BY <1>w, <2>2, <3>3
      <4>2. runner[q].job \in JobIds
        BY <3>2, <3>3
      <4> QED BY <1>2, <4>1, <4>2
    <3>4. runner[q].pc \in TryStates => runner[q].job # 0
      BY <1>0, <3>1 DEF KnowsItsJob
    <3> QED BY <1>0, <1>1, <2>2, <3>1, <3>3, <3>4
  <2> QED BY <2>1, <2>2
<1>r. RunningInv'
  <2> SUFFICES ASSUME losses = 0, NEW i \in JobIds, jobs'[i].status = "RUNNING"
               PROVE  \E q \in Runners : runner'[q].pc \in JobStates /\ runner'[q].job = i
    BY DEF RunningInv
  <2>1. CASE i = j
    BY <1>1, <1>2, <1>w, <2>1
  <2>2. CASE i # j
    <3>1. PICK q \in Runners : runner[q].pc \in JobStates /\ runner[q].job = i
      BY <1>2, <2>2 DEF ChainInv, RunningInv
    <3>2. q # r
      BY <1>w, <2>2, <3>1
    <3> QED BY <1>1, <3>1, <3>2
  <2> QED BY <2>1, <2>2
<1>5. JobHasOneRunner'
  <2> SUFFICES ASSUME NEW p \in Runners, NEW q \in Runners, NEW i \in JobIds,
                      p # q, runner'[p].pc \in WorkStates, runner'[p].job = i,
                      runner'[q].pc \in WorkStates, runner'[q].job = i
               PROVE  FALSE
    BY AtWorkStates DEF JobHasOneRunner, Holds
  <2>1. i # j
    BY <1>1, <1>w
  <2>2. \A k \in {p, q} : runner[k].pc \in WorkStates /\ runner[k].job = i
    BY <1>0, <1>1, <1>w, <2>1
  <2> QED BY <2>2, AtWorkStates DEF ChainInv, JobHasOneRunner, Holds
<1>6. StreamKeepsAJob'
  <2>1. CASE written.status = "PENDING"
    BY <1>2, <2>1 DEF StreamKeepsAJob
  <2>2. CASE next.pc \in WorkStates
    BY <1>1, <2>2, AtWorkStates DEF StreamKeepsAJob
  <2> QED BY <1>w, <2>1, <2>2
<1> QED BY <1>3, <1>4, <1>r, <1>5, <1>6 DEF ChainInv

LEMMA RestIsARun ==
  ASSUME NEW due \in SUBSET Selections
  PROVE  /\ AtRest \in Processes /\ AtRest.pc = "idle"
         /\ WorkThrough(due) \in Processes /\ WorkThrough(due).pc \in {"idle", "choosing"}
BY DEF AtRest, WorkThrough, Processes, RunnerStates, TxStates

LEMMA MilestonesAreTimes ==
  ASSUME NEW t \in Nat, NextMilestone(t) # NoMilestone
  PROVE  NextMilestone(t) \in Nat
<1>0. Start \in Nat /\ End \in Nat /\ Start < End /\ Interval \in Nat \ {0}
  BY StreamerAssumption
<1>1. CASE t < Start
  BY <1>0, <1>1 DEF NextMilestone
<1>2. CASE t >= Start
  <2> DEFINE q == (t - Start) \div Interval
  <2>1. q \in Nat
    BY <1>0, <1>2
  <2> HIDE DEF q
  <2>2. (q + 1) * Interval \in Nat
    BY <1>0, <2>1
  <2>3. NextMilestone(t) = Start + (q + 1) * Interval
    BY <1>0, <1>2 DEF NextMilestone, q
  <2> QED BY <1>0, <2>2, <2>3
<1> QED BY <1>0, <1>1, <1>2

\* The end of an attempt: the job is open again, or the next one is to be made.
LEMMA ConcludeSteps ==
  ASSUME ChainInv, NEW r \in Runners, runner[r].pc \in JobStates, NEW caught \in BOOLEAN,
         NEW v \in {"RETRY", "SKIPPED", "CLAIMED", "FAILED"}, Conclude(r, v, caught),
         UNCHANGED <<streamVars, serviceState, losses>>
  PROVE  ChainInv'
<1> DEFINE task == runner[r]
           j == task.job
<1>1. task \in Processes
  BY DEF ChainInv, SJTypeOK, Processes
<1>2. j \in JobIds /\ jobs[j].status # "none"
  <2>1. KnowsItsJob(task) /\ 0 \notin JobIds
    BY StreamerJobsAssumption DEF ChainInv, WorkersInv, JobIds
  <2>2. j \in JobIds
    BY <2>1 DEF KnowsItsJob
  <2> QED BY <2>1, <2>2 DEF ChainInv, WorkersInv, WorkStates
<1>3. Made(j) /\ jobs[j] \in JobRows
  BY <1>2, JobsRead DEF ChainInv
<1>4. \A q \in Runners : q # r /\ runner[q].pc \in WorkStates => runner[q].job # j
  BY <1>2, AtWorkStates DEF ChainInv, JobHasOneRunner, Holds, WorkStates
<1>5. now' = now /\ now \in Nat
  BY DEF streamVars, ChainInv
<1>6. task.due \in SUBSET Selections /\ task.attempts \in Nat
  BY <1>1 DEF Processes
<1>7. CASE v = "RETRY"
  <2> DEFINE written  == [status |-> "PENDING", runAt |-> now + task.attempts + 1,
                      attempts |-> jobs[j].attempts + 1]
             next == WorkThrough(task.due)
  <2>1. written \in JobRows /\ written.status = "PENDING"
    BY <1>3, <1>5, <1>6 DEF JobRows
  <2>2. next \in Processes /\ next.pc \in {"idle", "choosing"}
    BY <1>6, RestIsARun
  <2>3. SetRunner(r, next)
    BY <1>7 DEF Conclude, Resume
  <2>4. jobs' = [jobs EXCEPT ![j] = written]
    BY <1>7 DEF Conclude
  <2>5. KnowsItsJob(next) /\ next.pc \notin WorkStates
    BY <2>2 DEF KnowsItsJob, WorkStates, JobStates, TryStates, HandStates
  <2>6. next.pc \notin TryStates /\ runner[r].job = j
    BY <2>2 DEF TryStates
  <2> HIDE DEF written, next, j, task
  <2>7. UNCHANGED <<serviceState, now, losses>>
    BY <1>5
  <2>8. /\ written.status # "none" /\ written.status # "RUNNING"
        /\ next.pc \notin WorkStates
    BY <2>1, <2>5
  <2>9. MayWrite(r, next, j, written)
    BY <1>4, <2>1, <2>5, <2>6, <2>8 DEF MayWrite
  <2> QED BY <1>2, <1>3, <2>1, <2>2, <2>3, <2>4, <2>7, <2>8, <2>9, JobMoves, ZenonT(60)
<1>8. CASE v # "RETRY"
  <2> DEFINE written  == [jobs[j] EXCEPT !.status = v]
             rest == [AtRest EXCEPT !.pc = "finding", !.due = task.due]
             next == IF caught THEN [rest EXCEPT !.caught = TRUE]
                     ELSE [rest EXCEPT !.job = task.job, !.attempts = task.attempts]
  <2>1. /\ written \in JobRows /\ written.status # "none"
        /\ written.status # "PENDING" /\ written.status # "RUNNING"
    BY <1>3, <1>8 DEF JobRows, Terminal
  <2>2. /\ next \in Processes /\ next.pc = "finding"
        /\ caught => next.job = 0 /\ next.caught
        /\ ~caught => next.job = j
    BY <1>1, <1>6 DEF AtRest, Processes, RunnerStates, TxStates
  <2>3. SetRunner(r, next)
    BY <1>8 DEF Conclude, Handover
  <2>4. jobs' = [jobs EXCEPT ![j] = written]
    BY <1>8 DEF Conclude
  <2> HIDE DEF written, next
  <2>5. /\ next.pc \in WorkStates /\ next.pc \notin TryStates
        /\ KnowsItsJob(next)
        /\ next.job # 0 => next.job = j
    BY <1>2, <2>2 DEF WorkStates, JobStates, TryStates, HandStates, KnowsItsJob
  <2>6. UNCHANGED <<serviceState, now, losses>>
    BY <1>5
  <2>7. j \in JobIds /\ Made(j) /\ runner[r].job = j
    BY <1>2, <1>3
  <2> HIDE DEF task
  <2>8. \A q \in Runners : q # r /\ runner[q].pc \in WorkStates => runner[q].job # j
    BY <1>4
  <2> HIDE DEF j
  <2>9. MayWrite(r, next, j, written)
    BY <2>1, <2>5, <2>7, <2>8 DEF MayWrite
  <2> QED BY <2>1, <2>2, <2>3, <2>4, <2>6, <2>7, <2>9, JobMoves, ZenonT(60)
<1> QED BY <1>7, <1>8

\* A process schedules: the row that it makes is nobody's.
LEMMA NewJobMoves ==
  ASSUME ChainInv, NEW r \in Runners, runner[r].pc = "creating",
         MakeJob(runner[r].runAt), NEW next \in Processes, SetRunner(r, next),
         UNCHANGED <<serviceState, now, losses>>,
         KnowsItsJob(next), next.pc \notin TryStates,
         next.pc \in WorkStates => next.job = runner[r].job
  PROVE  ChainInv'
<1>1. PICK j \in JobIds :
        /\ ~Made(j) /\ \A i \in JobIds : i < j => Made(i)
        /\ jobs' = [jobs EXCEPT ![j] = [status |-> "PENDING", runAt |-> runner[r].runAt,
                                        attempts |-> 0]]
  BY DEF MakeJob
<1> DEFINE written == [status |-> "PENDING", runAt |-> runner[r].runAt, attempts |-> 0]
<1>2. runner[r] \in Processes
  BY DEF ChainInv, SJTypeOK, Processes
<1>3. written \in JobRows /\ written.status = "PENDING"
  BY <1>2 DEF JobRows, Processes
<1>4. \A q \in Runners : runner[q].pc \in WorkStates => runner[q].job # j
  <2> SUFFICES ASSUME NEW q \in Runners, runner[q].pc \in WorkStates, runner[q].job = j
               PROVE  FALSE
    OBVIOUS
  <2>1. j # 0
    BY StreamerJobsAssumption DEF JobIds
  <2> QED BY <1>1, <2>1 DEF ChainInv, WorkersInv, Made
<1>5. runner[r].pc \in WorkStates /\ runner[r].pc \notin JobStates
  BY DEF WorkStates, JobStates, TryStates, HandStates
<1>6. next.pc \in WorkStates /\ next.job # 0
        => next.job # j /\ runner[r].pc \in WorkStates /\ next.job = runner[r].job
  BY <1>4, <1>5
<1>7. jobs' = [jobs EXCEPT ![j] = written]
  BY <1>1
<1> HIDE DEF written
<1>8. written.status # "none" /\ written.status # "RUNNING"
  BY <1>3
<1>9. MayWrite(r, next, j, written)
  BY <1>3, <1>4, <1>5, <1>6, <1>8 DEF MayWrite
<1> QED BY <1>1, <1>3, <1>7, <1>8, <1>9, JobMoves, ZenonT(60)

LEMMA JobsStep ==
  ASSUME ChainInv, [SJNext]_sjVars
  PROVE  ChainInv'
<1>1. ASSUME NEW r \in Runners, RunnerNext(r) PROVE ChainInv'
  <2> DEFINE task == runner[r]
  <2>0. task \in Processes /\ now \in Nat /\ losses \in Nat
    BY DEF ChainInv, SJTypeOK, Processes
  <2>1. task.pc \in RunnerStates /\ task.due \in SUBSET Selections /\ task.runAt \in Nat
        /\ task.job \in {0} \cup JobIds /\ task.attempts \in Nat
    BY <2>0 DEF Processes
  <2>2. /\ KnowsItsJob(task)
        /\ task.pc \in JobStates \cup {"admitted"} => task.job \in JobIds
    BY DEF ChainInv, WorkersInv, KnowsItsJob
  <2>3. \A j \in JobIds : jobs[j] \in JobRows
    BY JobsRead DEF ChainInv
  \* A process comes to rest or chooses its next job.
  <2>4. ASSUME NEW due \in SUBSET Selections, SetRunner(r, WorkThrough(due)),
               UNCHANGED <<jobs, serviceState, now, losses>>,
               task.pc \notin JobStates,
               task.pc \in HandStates =>
                 \/ \E j \in JobIds : Open(j)
                 \/ serviceState # "ACTIVE"
                 \/ now >= LastMilestone
        PROVE  ChainInv'
    <3> DEFINE next == WorkThrough(due)
    <3>1. next \in Processes /\ next.pc \in {"idle", "choosing"}
      BY RestIsARun
    <3>2. losses' \in Nat /\ losses' >= losses
      BY <2>0, <2>4
    <3> HIDE DEF next
    <3>3. SetRunner(r, next)
      BY <2>4 DEF next
    <3> HIDE DEF task
    <3>4. /\ runner[r].pc \notin JobStates
          /\ runner[r].pc \in HandStates =>
                 \/ \E j \in JobIds : Open(j)
                 \/ serviceState # "ACTIVE"
                 \/ now >= LastMilestone
      BY <2>4 DEF task
    <3>5. KnowsItsJob(next) /\ next.pc \notin WorkStates /\ next.pc \notin TryStates
      BY <3>1 DEF KnowsItsJob, WorkStates, JobStates, TryStates, HandStates
    <3> QED BY <2>4, <3>1, <3>2, <3>3, <3>4, <3>5, RunnerMoves, ZenonT(60)
  \* A process moves on to another state of the same job.
  <2>5. ASSUME NEW next \in Processes, SetRunner(r, next),
               UNCHANGED <<jobs, serviceState, now, losses>>,
               KnowsItsJob(next),
               next.pc \in TryStates => task.pc \in TryStates,
               next.pc \in WorkStates /\ next.job # 0 =>
                 task.pc \in WorkStates /\ next.job = task.job,
               task.pc \in JobStates => next.pc \in JobStates /\ next.job = task.job,
               task.pc \in HandStates => next.pc \in WorkStates
        PROVE  ChainInv'
    <3>1. losses' \in Nat /\ losses' >= losses
      BY <2>0, <2>5
    <3> QED BY <2>5, <3>1, RunnerMoves
  <2>s. /\ TryStates = {"reading", "sending", "waiting"}
        /\ JobStates = {"reading", "sending", "waiting", "catching"}
        /\ HandStates = {"finding", "creating"}
        /\ WorkStates = {"reading", "sending", "waiting", "catching", "finding", "creating"}
    BY DEF TryStates, JobStates, HandStates, WorkStates
  <2>6. CASE BeginScheduling(r)
    <3> DEFINE next == [AtRest EXCEPT !.pc = "finding", !.caught = TRUE]
    <3>1. next \in Processes /\ next.pc = "finding" /\ next.caught /\ next.job = 0
      BY DEF AtRest, Processes, RunnerStates, TxStates
    <3>2. /\ SetRunner(r, next) /\ UNCHANGED <<jobs, serviceState, now, losses>>
          /\ task.pc = "idle"
      BY <2>6 DEF BeginScheduling, streamVars
    <3> HIDE DEF next, task
    <3>3. KnowsItsJob(next)
      BY <2>s, <3>1 DEF KnowsItsJob
    <3> QED BY <2>5, <2>s, <3>1, <3>2, <3>3
  <2>7. CASE FindNext(r)
    <3>1. UNCHANGED <<jobs, serviceState, now, losses>> /\ task.pc = "finding"
      BY <2>7 DEF FindNext, streamVars
    <3>2. CASE /\ SetRunner(r, WorkThrough(task.due))
               /\ \/ serviceState # "ACTIVE"
                  \/ NextMilestone(now) = NoMilestone
                  \/ \E j \in JobIds : Open(j)
      <4>1. NextMilestone(now) = NoMilestone => now >= LastMilestone
        <5>1. LastMilestone \in Int
          BY StreamerAssumption DEF LastMilestone
        <5> QED BY <2>0, <5>1, MilestoneAhead
      <4> QED BY <2>1, <2>4, <2>s, <3>1, <3>2, <4>1
    <3>3. CASE /\ SetRunner(r, [task EXCEPT !.pc = "creating", !.runAt = NextMilestone(now)])
               /\ NextMilestone(now) # NoMilestone
      <4> DEFINE at == NextMilestone(now)
                 next == [task EXCEPT !.pc = "creating", !.runAt = at]
      <4>1. at \in Nat
        BY <2>0, <3>3, MilestonesAreTimes
      <4> HIDE DEF at
      <4>2. /\ next \in Processes /\ next.pc = "creating"
            /\ next.job = task.job /\ next.caught = task.caught
        BY <2>0, <4>1 DEF Processes, RunnerStates
      <4>3. SetRunner(r, next)
        BY <3>3 DEF at
      <4> HIDE DEF next, task
      <4>4. KnowsItsJob(next)
        BY <2>2, <2>s, <3>1, <4>2 DEF KnowsItsJob
      <4> QED BY <2>5, <2>s, <3>1, <4>2, <4>3, <4>4
    <3> QED BY <2>7, <3>2, <3>3 DEF FindNext, Resume
  <2>8. CASE CreateNext(r)
    <3> DEFINE next == WorkThrough(task.due)
    <3>1. next \in Processes /\ next.pc \in {"idle", "choosing"}
      BY <2>1, RestIsARun
    <3>2. /\ SetRunner(r, next) /\ UNCHANGED <<serviceState, now, losses>>
          /\ runner[r].pc = "creating" /\ MakeJob(runner[r].runAt)
      BY <2>8 DEF CreateNext, Resume, streamVars
    <3> HIDE DEF next
    <3>3. KnowsItsJob(next) /\ next.pc \notin TryStates /\ next.pc \notin WorkStates
      BY <2>s, <3>1 DEF KnowsItsJob
    <3> QED BY <3>1, <3>2, <3>3, NewJobMoves
  <2>9. CASE SelectDueJobs(r)
    <3> DEFINE due == {SelectedJob(j) : j \in DueJobs}
    <3>1. due \in SUBSET Selections
      BY <2>3 DEF SelectedJob, DueJobs, Selections, JobRows
    <3>2. SetRunner(r, WorkThrough(due)) /\ UNCHANGED <<jobs, serviceState, now, losses>>
      BY <2>9 DEF SelectDueJobs, streamVars
    <3>3. task.pc \notin HandStates /\ task.pc \notin JobStates
      BY <2>9, <2>s DEF SelectDueJobs
    <3> HIDE DEF due, task
    <3> QED BY <2>4, <3>1, <3>2, <3>3
  <2>10. CASE NextJob(r)
    <3>1. PICK written \in task.due :
            SetRunner(r, IF serviceState = "ACTIVE"
                     THEN [AtRest EXCEPT !.pc = "admitted", !.job = written.job,
                                         !.attempts = written.attempts,
                                         !.due = task.due \ {written}]
                     ELSE WorkThrough(task.due \ {written}))
      BY <2>10, ZenonT(30) DEF NextJob
    <3>2. /\ task.pc \notin HandStates /\ task.pc \notin JobStates
          /\ UNCHANGED <<jobs, serviceState, now, losses>>
      BY <2>10, <2>s DEF NextJob, streamVars
    <3>3. written.job \in JobIds /\ written.attempts \in Nat /\ task.due \ {written} \in SUBSET Selections
      BY <2>1 DEF Selections
    <3>4. CASE serviceState = "ACTIVE"
      <4> DEFINE next == [AtRest EXCEPT !.pc = "admitted", !.job = written.job,
                                        !.attempts = written.attempts,
                                        !.due = task.due \ {written}]
      <4>1. next \in Processes /\ next.pc = "admitted" /\ next.job \in JobIds
        BY <3>3 DEF AtRest, Processes, RunnerStates, TxStates
      <4>2. SetRunner(r, next)
        BY <3>1, <3>4
      <4> HIDE DEF next, task
      <4>3. KnowsItsJob(next)
        BY <4>1 DEF KnowsItsJob
      <4> QED BY <2>5, <2>s, <3>2, <4>1, <4>2, <4>3
    <3>5. CASE serviceState # "ACTIVE"
      BY <2>4, <3>1, <3>2, <3>3, <3>5
    <3> QED BY <3>4, <3>5
  <2>11. CASE TakeJob(r)
    <3>1. /\ task.pc = "admitted" /\ task.job \in JobIds
          /\ UNCHANGED <<serviceState, now, losses>>
      BY <2>2, <2>11 DEF TakeJob, streamVars
    <3>2. CASE jobs[task.job].status = "PENDING"
      <4> DEFINE j    == task.job
                 written  == [jobs[j] EXCEPT !.status = "RUNNING"]
                 next == [task EXCEPT !.pc = "reading"]
      <4>1. written \in JobRows /\ written.status = "RUNNING"
        BY <2>3, <3>1 DEF JobRows
      <4>2. next \in Processes /\ next.pc = "reading" /\ next.job = j /\ runner[r].job = j
        BY <2>0 DEF Processes, RunnerStates
      <4>3. SetRunner(r, next) /\ jobs' = [jobs EXCEPT ![j] = written]
        BY <2>11, <3>2 DEF TakeJob, Goto
      <4>4. Made(j)
        BY <3>2 DEF Made
      <4>5. \A q \in Runners : runner[q].pc \in WorkStates => runner[q].job # j
        <5>1. j # 0
          BY <3>1, StreamerJobsAssumption DEF JobIds
        <5> QED BY <3>2, <5>1 DEF ChainInv, WorkersInv
      <4>6. j \in JobIds /\ UNCHANGED <<serviceState, now, losses>>
        BY <3>1
      <4> HIDE DEF written, next, j, task
      <4>7. /\ written.status # "none" /\ written.status # "PENDING"
            /\ next.pc \in JobStates /\ next.pc \in WorkStates
        BY <2>s, <4>1, <4>2
      <4>8. KnowsItsJob(next)
        BY <4>2, <4>6 DEF KnowsItsJob
      <4>9. MayWrite(r, next, j, written)
        BY <4>1, <4>2, <4>5, <4>7, <4>8 DEF MayWrite
      <4> QED BY <4>1, <4>2, <4>3, <4>4, <4>6, <4>7, <4>9, JobMoves, ZenonT(60)
    <3>3. CASE jobs[task.job].status # "PENDING"
      <4>1. SetRunner(r, WorkThrough(task.due)) /\ UNCHANGED jobs
        BY <2>11, <3>3 DEF TakeJob, Resume
      <4> QED BY <2>1, <2>4, <2>s, <3>1, <4>1
    <3> QED BY <3>2, <3>3
  <2>12. CASE ReadAvailable(r)
    <3>1. task.pc = "reading" /\ UNCHANGED <<streamVars, serviceState, losses>>
      BY <2>12 DEF ReadAvailable
    <3>2. CASE Conclude(r, "SKIPPED", FALSE)
      BY <2>s, <3>1, <3>2, ConcludeSteps
    <3>3. CASE Goto(r, "sending") /\ UNCHANGED jobs
      <4> DEFINE next == [task EXCEPT !.pc = "sending"]
      <4>1. next \in Processes /\ next.pc = "sending" /\ next.job = task.job
        BY <2>0 DEF Processes, RunnerStates
      <4>2. SetRunner(r, next) /\ UNCHANGED <<jobs, serviceState, now, losses>>
        BY <3>1, <3>3 DEF Goto, streamVars
      <4> HIDE DEF next, task
      <4>3. KnowsItsJob(next)
        BY <2>2, <2>s, <3>1, <4>1 DEF KnowsItsJob
      <4> QED BY <2>5, <2>s, <3>1, <4>1, <4>2, <4>3
    <3> QED BY <2>12, <3>2, <3>3 DEF ReadAvailable
  <2>13. CASE SendClaim(r)
    <3>1. task.pc = "sending" /\ UNCHANGED <<jobs, serviceState, now, losses>>
      BY <2>13 DEF SendClaim, streamVars
    <3>2. PICK next \in {[task EXCEPT !.pc = "waiting", !.tx = "queued"],
                         [task EXCEPT !.pc = "catching"]} : SetRunner(r, next)
      BY <2>13 DEF SendClaim, Goto
    <3>3. next \in Processes /\ next.pc \in {"waiting", "catching"} /\ next.job = task.job
      BY <2>0 DEF Processes, RunnerStates, TxStates
    <3> HIDE DEF task
    <3>4. KnowsItsJob(next)
      BY <2>2, <2>s, <3>1, <3>3 DEF KnowsItsJob
    <3> QED BY <2>5, <2>s, <3>1, <3>2, <3>3, <3>4
  <2>14. CASE LandClaim(r)
    <3>1. PICK tx \in {"SUCCESS", "FAILED"} : SetRunner(r, [task EXCEPT !.tx = tx])
      BY <2>14 DEF LandClaim
    <3>2. UNCHANGED <<jobs, serviceState, now, losses>>
      BY <2>14 DEF LandClaim, Claim, streamVars
    <3> DEFINE next == [task EXCEPT !.tx = tx]
    <3>3. /\ next \in Processes /\ next.pc = task.pc
          /\ next.job = task.job /\ next.caught = task.caught
      BY <2>0 DEF Processes, TxStates
    <3>4. SetRunner(r, next)
      BY <3>1
    <3> HIDE DEF next, task
    <3>6. KnowsItsJob(next)
      BY <2>2, <3>3 DEF KnowsItsJob
    <3> QED BY <2>5, <2>s, <3>2, <3>3, <3>4, <3>6
  <2>15. CASE SeeSuccess(r)
    <3>1. task.pc = "waiting" /\ UNCHANGED <<streamVars, serviceState, losses>>
      BY <2>15 DEF SeeSuccess
    <3>2. Conclude(r, "CLAIMED", FALSE)
      BY <2>15 DEF SeeSuccess
    <3> QED BY <2>s, <3>1, <3>2, ConcludeSteps
  <2>16. CASE SubmissionFails(r)
    <3>1. task.pc \in JobStates /\ UNCHANGED <<streamVars, serviceState, losses>>
      BY <2>16, <2>s DEF SubmissionFails
    <3>2. PICK v \in {"FAILED", "RETRY"} : Conclude(r, v, FALSE)
      BY <2>16 DEF SubmissionFails, FailureVerdicts
    <3> QED BY <3>1, <3>2, ConcludeSteps
  <2>18. CASE AttemptThrows(r)
    <3> DEFINE next == [task EXCEPT !.pc = "catching", !.tx = "none"]
    <3>1. /\ task.pc \in TryStates /\ SetRunner(r, next)
          /\ UNCHANGED <<jobs, serviceState, now, losses>>
      BY <2>18, <2>s DEF AttemptThrows, streamVars
    <3>2. next \in Processes /\ next.pc = "catching" /\ next.job = task.job
      BY <2>0 DEF Processes, RunnerStates, TxStates
    <3> HIDE DEF next, task
    <3>3. KnowsItsJob(next)
      BY <2>2, <2>s, <3>1, <3>2 DEF KnowsItsJob
    <3> QED BY <2>5, <2>s, <3>1, <3>2, <3>3
  <2>19. CASE SchedulingThrows(r)
    <3> DEFINE next == [task EXCEPT !.pc = "catching", !.runAt = 0]
    <3>1. /\ task.pc \in HandStates /\ ~task.caught /\ SetRunner(r, next)
          /\ UNCHANGED <<serviceState, now, losses>>
          /\ \/ UNCHANGED jobs
             \/ runner[r].pc = "creating" /\ MakeJob(runner[r].runAt)
      BY <2>19, <2>s DEF SchedulingThrows, streamVars
    <3>2. next \in Processes /\ next.pc = "catching" /\ next.job = task.job
      BY <2>0 DEF Processes, RunnerStates
    <3> HIDE DEF next
    <3>3. KnowsItsJob(next)
      BY <2>2, <3>1, <3>2 DEF KnowsItsJob
    <3>4. CASE UNCHANGED jobs
      <4> HIDE DEF task
      <4> QED BY <2>5, <2>s, <3>1, <3>2, <3>3, <3>4
    <3>5. CASE runner[r].pc = "creating" /\ MakeJob(runner[r].runAt)
      BY <2>s, <3>1, <3>2, <3>3, <3>5, NewJobMoves
    <3> QED BY <3>1, <3>4, <3>5
  <2>20. CASE CatchError(r)
    <3>1. task.pc = "catching" /\ UNCHANGED <<streamVars, serviceState, losses>>
      BY <2>20 DEF CatchError
    <3>2. PICK v \in {"FAILED", "RETRY", "SKIPPED"} : Conclude(r, v, TRUE)
      BY <2>20 DEF CatchError, FailureVerdicts
    <3> QED BY <2>s, <3>1, <3>2, ConcludeSteps
  <2>17. CASE RunIsLost(r)
    <3>1. SetRunner(r, AtRest) /\ UNCHANGED <<jobs, serviceState, now>> /\ losses' = losses + 1
      BY <2>17 DEF RunIsLost, streamVars
    <3>2. AtRest \in Processes /\ AtRest.pc = "idle"
      BY RestIsARun
    <3>3. losses' \in Nat /\ losses' >= losses /\ losses' # 0
      BY <2>0, <3>1
    <3>4. KnowsItsJob(AtRest) /\ AtRest.pc \notin WorkStates /\ AtRest.pc \notin TryStates
      BY <2>s, <3>2 DEF KnowsItsJob
    <3> QED BY <3>1, <3>2, <3>3, <3>4, RunnerMoves
  <2> QED BY <1>1, <2>6, <2>7, <2>8, <2>9, <2>10, <2>11, <2>12, <2>13, <2>14, <2>15,
             <2>16, <2>17, <2>18, <2>19, <2>20 DEF RunnerNext
<1>2. CASE RequestRetirement
  <2>1. /\ serviceState' = "RETIRING" /\ UNCHANGED <<runner, now, losses>>
        /\ jobs' = [j \in JobIds |-> IF jobs[j].status = "PENDING"
                                     THEN [jobs[j] EXCEPT !.status = "CANCELLED"]
                                     ELSE jobs[j]]
    BY <1>2 DEF RequestRetirement, streamVars
  <2>2. \A j \in JobIds : /\ jobs'[j] \in JobRows
                          /\ jobs'[j].status # "PENDING"
                          /\ jobs[j].status = "RUNNING" <=> jobs'[j].status = "RUNNING"
                          /\ jobs'[j].status = "none" <=> jobs[j].status = "none"
    <3> SUFFICES ASSUME NEW j \in JobIds
                 PROVE  /\ jobs'[j] \in JobRows
                        /\ jobs'[j].status # "PENDING"
                        /\ jobs[j].status = "RUNNING" <=> jobs'[j].status = "RUNNING"
                        /\ jobs'[j].status = "none" <=> jobs[j].status = "none"
      OBVIOUS
    <3>1. jobs[j] \in JobRows
      BY JobsRead DEF ChainInv
    <3>2. jobs'[j] = IF jobs[j].status = "PENDING"
                     THEN [jobs[j] EXCEPT !.status = "CANCELLED"] ELSE jobs[j]
      BY <2>1
    <3> QED BY <3>1, <3>2 DEF JobRows, Terminal
  <2>3. jobs' \in [JobIds -> JobRows]
    BY <2>1, <2>2
  <2>4. SJTypeOK'
    BY <2>1, <2>2, <2>3 DEF ChainInv, SJTypeOK, JobRows, Made
  <2>5. WorkersInv'
    <3> SUFFICES ASSUME NEW q \in Runners
                 PROVE  /\ KnowsItsJob(runner[q])
                        /\ runner[q].pc \in TryStates => jobs'[runner[q].job].status = "RUNNING"
                        /\ runner[q].pc \in WorkStates /\ runner[q].job # 0
                             => jobs'[runner[q].job].status \notin {"none", "PENDING"}
      BY <2>1 DEF WorkersInv, KnowsItsJob
    <3>1. /\ KnowsItsJob(runner[q])
          /\ runner[q].pc \in TryStates => jobs[runner[q].job].status = "RUNNING"
          /\ runner[q].pc \in WorkStates /\ runner[q].job # 0
               => jobs[runner[q].job].status \notin {"none", "PENDING"}
      BY DEF ChainInv, WorkersInv
    <3>2. runner[q].pc \in TryStates => runner[q].job \in JobIds
      BY <3>1 DEF KnowsItsJob, JobStates
    <3>3. runner[q].job \in {0} \cup JobIds
      BY DEF ChainInv, SJTypeOK
    <3> QED BY <2>2, <3>1, <3>2, <3>3
  <2>6. RunningInv' /\ JobHasOneRunner'
    BY <2>1, <2>2 DEF ChainInv, RunningInv, JobHasOneRunner, Holds, AtWork
  <2> QED BY <2>1, <2>4, <2>5, <2>6 DEF ChainInv, StreamKeepsAJob
<1>3. CASE UNCHANGED jobVars /\ (StreamerNext \/ UNCHANGED streamVars)
  <2>1. UNCHANGED <<serviceState, jobs, runner, losses>>
    BY <1>3 DEF jobVars
  <2>2. now \in Nat /\ (now' = now \/ now' = now + 1)
    BY <1>3 DEF ChainInv, StreamerNext, Fund, Claim, CancelStream, RetrieveUnvested,
                Pause, Unpause, Tick, streamVars
  <2>3. LastMilestone \in Int /\ LastMilestone' = LastMilestone
    BY StreamerAssumption DEF LastMilestone
  <2>4. SJTypeOK' /\ WorkersInv' /\ RunningInv' /\ JobHasOneRunner'
    BY <2>1 DEF ChainInv, SJTypeOK, WorkersInv, KnowsItsJob, RunningInv, JobHasOneRunner,
                Holds, AtWork, Made
  <2>5. StreamKeepsAJob'
    BY <2>1, <2>2, <2>3 DEF ChainInv, StreamKeepsAJob, Made, AtWork
  <2> QED BY <2>1, <2>2, <2>4, <2>5 DEF ChainInv
<1> QED BY <1>1, <1>2, <1>3 DEF SJNext, sjVars

\* The claim jobs' inductive invariant, for any processes, rows and incidents.
THEOREM ChainInvariant == SJSpec => []ChainInv
<1>1. ASSUME SJInit PROVE ChainInv
  <2>1. SJTypeOK /\ now = 0 /\ losses = 0
    BY <1>1, RestIsARun DEF SJInit, StreamerInit, SJTypeOK, NoJob, Processes, Made
  <2>2. \A r \in Runners : runner[r].pc = "idle"
    BY <1>1 DEF SJInit, AtRest
  <2>3. \A j \in JobIds : ~Made(j)
    BY <1>1 DEF SJInit, NoJob, Made
  <2>4. WorkersInv
    BY <2>2 DEF WorkersInv, KnowsItsJob, WorkStates, JobStates, TryStates, HandStates
  <2>5. RunningInv
    BY <2>3 DEF RunningInv, Made
  <2>6. JobHasOneRunner
    BY <2>2 DEF JobHasOneRunner, Holds, AtWork
  <2> QED BY <2>1, <2>3, <2>4, <2>5, <2>6 DEF ChainInv, StreamKeepsAJob
<1>2. ChainInv /\ [SJNext]_sjVars => ChainInv'
  BY JobsStep
<1> QED BY <1>1, <1>2, PTL DEF SJSpec

\* The streamer's rows and processes have their types, for every contract,
\* every number of runs and rows.
THEOREM JobsAreTyped == SJSpec => []SJTypeOK
<1>1. ChainInv => SJTypeOK
  BY DEF ChainInv
<1> QED BY <1>1, ChainInvariant, PTL

\* The conditional updateMany of process-streamer-jobs: however many runs
\* overlap, and whatever the catch of one rewrites, no two of them have one job.
THEOREM JobsAreTakenOnce == SJSpec => []JobHasOneRunner
<1>1. ChainInv => JobHasOneRunner
  BY DEF ChainInv
<1> QED BY <1>1, ChainInvariant, PTL

\* The try and the catch of process-streamer-jobs: the chain of jobs survives
\* every error inside the try; only a run that dies, or that an error ends where
\* nothing catches it, may break it.
THEOREM TheChainHolds == SJSpec => []StreamKeepsAJob
<1>1. ChainInv => StreamKeepsAJob
  BY DEF ChainInv
<1> QED BY <1>1, ChainInvariant, PTL

-----------------------------------------------------------------------------
(* The timelock                                                            *)

ProbeRecords == [pc : ProberStates, who : Askers, side : Sides, failures : Nat,
                 began : Nat, sim : Nat, landed : {Null} \cup Nat,
                 settle : {Null} \cup Nat]

\* What a probe has found holds of the ledger at, where the timelock holds
\* held and was last funded in the ledger last.
ProbeSound(x, at, held, last) ==
  /\ x.pc \in {"due", "simulating", "sending"} => x.landed = Null
  /\ x.pc \in {"sending", "waiting"} => x.sim < at
  /\ x.pc = "waiting" /\ x.landed # Null =>
        x.landed <= at /\ x.sim < x.landed /\ (held > 0 => last >= x.landed)
  /\ x.pc = "settling" =>
        x.settle # Null /\ x.settle < at /\ (held > 0 => last > x.settle)
  /\ \/ x.who = "cron" /\ x.side = "after"
     \/ x.who = "owner" /\ x.side = "before"

\* The row's next probe is left out of its type: the backoff is a power.
RowShape(r) ==
  r \in [known : BOOLEAN, supported : BOOLEAN, settled : {Null} \cup Nat,
         probeAt : {r.probeAt}, leaseUntil : {Null} \cup Nat, failures : Nat]

RowSound(r, at, held, last) ==
  /\ RowShape(r)
  /\ r.settled < at
  /\ r.settled # Null /\ held > 0 => last > r.settled
  /\ r.known /\ r.supported =>
        \/ r.probeAt <= LastLedger
        \/ r.settled # Null
        \/ Mode = "after" /\ Unlock > LastLedger

ChainSound ==
  /\ kind \in {"after", "before", "branch"}
  /\ ledger \in 1 .. LastLedger
  /\ locked \in Nat /\ closedLocked \in Nat
  /\ lastFunding \in 0 .. ledger /\ received \in Nat
  /\ lastFunding <= received
  /\ closedLocked = 0 /\ locked > 0 => lastFunding = ledger

StraysSound == strays \subseteq {<<"cron", "after">>, <<"owner", "before">>}

PaymentsSound ==
  /\ out \in [Askers -> [Sides -> Nat]]
  /\ fundings \in Nat
  /\ LockPaysAsAsked

TLInv ==
  /\ ChainSound
  /\ StraysSound
  /\ PaymentsSound
  /\ RowSound(row, ledger, locked, lastFunding)
  /\ prober \in [Probers -> ProbeRecords]
  /\ \A p \in Probers : ProbeSound(prober[p], ledger, locked, lastFunding)

LEMMA IdleIsSound ==
  ASSUME NEW at, NEW held, NEW last
  PROVE  Idle \in ProbeRecords /\ ProbeSound(Idle, at, held, last)
BY DEF Idle, ProbeRecords, ProberStates, Askers, Sides, ProbeSound, Null

\* A probe moves, and may write the row; the ledger stays as it is.
LEMMA ProbeMoves ==
  ASSUME TLInv, NEW p \in Probers, NEW next \in ProbeRecords,
         SetProber(p, next), UNCHANGED chainVars,
         ProbeSound(next, ledger, locked, lastFunding),
         RowSound(row', ledger, locked, lastFunding),
         StraysSound'
  PROVE  TLInv'
<1>0. UNCHANGED <<kind, dedicated, ledger, locked, closedLocked, fundings, lastFunding,
                  received, closedReceived, out>>
  BY DEF chainVars
<1>1. /\ prober' \in [Probers -> ProbeRecords] /\ prober'[p] = next
      /\ \A q \in Probers : q # p => prober'[q] = prober[q]
  BY DEF TLInv, SetProber
<1>2. \A q \in Probers : ProbeSound(prober'[q], ledger, locked, lastFunding)
  BY <1>1 DEF TLInv
<1>3. ChainSound'
  BY <1>0 DEF TLInv, ChainSound
<1>4. PaymentsSound'
  BY <1>0 DEF TLInv, PaymentsSound, LockPaysAsAsked
<1>5. RowSound(row, ledger, locked, lastFunding)'
  BY <1>0 DEF RowSound, Mode, RowShape
<1>6. (\A q \in Probers : ProbeSound(prober[q], ledger, locked, lastFunding))'
  BY <1>0, <1>2 DEF ProbeSound
<1> QED BY <1>1, <1>3, <1>4, <1>5, <1>6 DEF TLInv

\* The funds move or a ledger closes: what was found before still holds.
LEMMA FindingsStay ==
  ASSUME ChainSound, NEW at \in Nat, NEW held \in Nat, NEW last \in Nat,
         ledger <= at,
         held > 0 => \/ last = ledger
                     \/ locked > 0 /\ last = lastFunding
  PROVE  /\ \A x \in ProbeRecords :
              ProbeSound(x, ledger, locked, lastFunding) => ProbeSound(x, at, held, last)
         /\ RowSound(row, ledger, locked, lastFunding) => RowSound(row, at, held, last)
<1>1. ledger \in Nat /\ locked \in Nat /\ lastFunding \in Nat
  BY DEF ChainSound
<1>2. ASSUME NEW x \in ProbeRecords, ProbeSound(x, ledger, locked, lastFunding)
      PROVE  ProbeSound(x, at, held, last)
  <2> DEFINE s == x.sim
             l == x.landed
             e == x.settle
  <2>1. s \in Nat /\ (l = Null \/ l \in Nat) /\ (e = Null \/ e \in Nat)
    BY DEF ProbeRecords
  <2> QED BY <1>1, <1>2, <2>1 DEF ProbeSound
<1>3. ASSUME RowSound(row, ledger, locked, lastFunding)
      PROVE  RowSound(row, at, held, last)
  <2>1. row.settled = Null \/ row.settled \in Nat
    BY <1>3 DEF RowSound, RowShape
  <2> QED BY <1>1, <1>3, <2>1 DEF RowSound, Null
<1> QED BY <1>2, <1>3

\* The sides add up, whoever had the release made.
LEMMA ReleasePays ==
  ASSUME PaymentsSound, ChainSound,
         NEW who \in Askers, NEW side \in Sides, Release(who, side),
         kind = "branch" /\ who = "cron" => side = "after",
         kind = "branch" /\ who = "owner" => side = "before"
  PROVE  PaymentsSound'
<1> DEFINE s == SideAt(ledger)
<1>1. s \in Sides /\ (kind = "branch" => s = side)
  BY DEF Release, CanRelease, ConditionMet, SideAt, ChainSound, Sides
<1>2. locked \in Nat /\ fundings \in Nat /\ fundings' = fundings /\ locked' = 0 /\ kind' = kind
  BY DEF Release, ChainSound, PaymentsSound
<1>3. out' = [out EXCEPT ![who] = [out[who] EXCEPT ![s] = out[who][s] + locked]]
  BY DEF Release, PaymentsSound
<1> HIDE DEF s
<1>4. \A w \in Askers, t \in Sides : out[w][t] \in Nat
  BY DEF PaymentsSound
<1>5. \A w \in Askers, t \in Sides :
        out'[w][t] = IF w = who /\ t = s THEN out[w][t] + locked ELSE out[w][t]
  BY <1>1, <1>3 DEF PaymentsSound
<1>6. out' \in [Askers -> [Sides -> Nat]]
  <2>1. [out[who] EXCEPT ![s] = out[who][s] + locked] \in [Sides -> Nat]
    BY <1>1, <1>2, <1>4 DEF PaymentsSound
  <2> QED BY <1>3, <2>1 DEF PaymentsSound
<1>7. "cron" \in Askers /\ "owner" \in Askers /\ "admin" \in Askers
      /\ "before" \in Sides /\ "after" \in Sides
  BY DEF Askers, Sides
<1>8. kind = "branch" => out["cron"]["before"] = 0 /\ out["owner"]["after"] = 0
  BY DEF PaymentsSound, LockPaysAsAsked
<1>9. kind = "branch" => out'["cron"]["before"] = 0 /\ out'["owner"]["after"] = 0
  BY <1>1, <1>5, <1>7, <1>8
<1>10. fundings = locked + out["cron"]["before"] + out["cron"]["after"]
                  + out["owner"]["before"] + out["owner"]["after"]
                  + out["admin"]["before"] + out["admin"]["after"]
  BY DEF PaymentsSound, LockPaysAsAsked
<1>11. fundings' = locked' + out'["cron"]["before"] + out'["cron"]["after"]
                  + out'["owner"]["before"] + out'["owner"]["after"]
                  + out'["admin"]["before"] + out'["admin"]["after"]
  BY <1>1, <1>2, <1>4, <1>5, <1>7, <1>10 DEF Askers, Sides
<1> QED BY <1>2, <1>6, <1>9, <1>11 DEF PaymentsSound, LockPaysAsAsked

\* Everything is released.
LEMMA ReleaseSteps ==
  ASSUME TLInv, NEW who \in Askers, NEW side \in Sides, Release(who, side),
         kind = "branch" /\ who = "cron" => side = "after",
         kind = "branch" /\ who = "owner" => side = "before",
         row' = row
  PROVE  /\ ChainSound' /\ PaymentsSound'
         /\ RowSound(row, ledger, locked, lastFunding)'
         /\ \A x \in ProbeRecords :
              ProbeSound(x, ledger, locked, lastFunding)
                => ProbeSound(x, ledger', locked', lastFunding')
<1>1. /\ locked' = 0 /\ received' = ledger
      /\ UNCHANGED <<kind, ledger, closedLocked, lastFunding>>
  BY DEF Release
<1>2. ChainSound'
  BY <1>1 DEF TLInv, ChainSound
<1>3. PaymentsSound'
  BY ReleasePays DEF TLInv
<1>4. ledger \in Nat /\ lastFunding \in Nat
  BY DEF TLInv, ChainSound
<1>5. /\ \A x \in ProbeRecords :
           ProbeSound(x, ledger, locked, lastFunding) => ProbeSound(x, ledger, 0, lastFunding)
      /\ RowSound(row, ledger, 0, lastFunding)
  BY <1>4, FindingsStay DEF TLInv
<1>6. \A x \in ProbeRecords :
           ProbeSound(x, ledger, 0, lastFunding) => ProbeSound(x, ledger', locked', lastFunding')
  BY <1>1 DEF ProbeSound
<1>7. RowSound(row, ledger, locked, lastFunding)'
  BY <1>1, <1>5 DEF RowSound, RowShape, Mode
<1> QED BY <1>2, <1>3, <1>5, <1>6, <1>7

\* What does not touch a probe: the parent, the admin, the ledger, a release
\* nobody waits for.
LEMMA ChainSteps ==
  ASSUME TLInv,
         \/ Deposit \/ AdminRelease \/ CloseLedger \/ IngestEvents
         \/ \E m \in strays : LandStray(m)
  PROVE  TLInv'
<1>0. ledger \in Nat /\ locked \in Nat /\ lastFunding \in Nat /\ lastFunding <= ledger
      /\ ledger <= LastLedger /\ LastLedger \in Nat
  BY TimelockAssumption DEF TLInv, ChainSound
<1>1. ASSUME ChainSound', PaymentsSound', StraysSound', prober' = prober,
             RowSound(row, ledger, locked, lastFunding)',
             \A x \in ProbeRecords :
               ProbeSound(x, ledger, locked, lastFunding)
                 => ProbeSound(x, ledger', locked', lastFunding')
      PROVE  TLInv'
  <2>1. prober' \in [Probers -> ProbeRecords]
    BY <1>1 DEF TLInv
  <2>2. \A q \in Probers : ProbeSound(prober'[q], ledger', locked', lastFunding')
    BY <1>1, <2>1 DEF TLInv
  <2>3. (\A q \in Probers : ProbeSound(prober[q], ledger, locked, lastFunding))'
    BY <2>2 DEF ProbeSound
  <2> QED BY <1>1, <2>1, <2>3 DEF TLInv
<1>2. CASE Deposit
  <2>1. /\ locked' = locked + 1 /\ lastFunding' = ledger /\ received' = ledger
        /\ fundings' = fundings + 1
        /\ UNCHANGED <<kind, ledger, closedLocked, out, strays, row, prober>>
    BY <1>2 DEF Deposit
  <2>2. ChainSound'
    BY <1>0, <2>1 DEF TLInv, ChainSound
  <2>3. PaymentsSound'
    <3>1. /\ out["cron"]["before"] \in Nat /\ out["cron"]["after"] \in Nat
          /\ out["owner"]["before"] \in Nat /\ out["owner"]["after"] \in Nat
          /\ out["admin"]["before"] \in Nat /\ out["admin"]["after"] \in Nat
      BY DEF TLInv, PaymentsSound, Askers, Sides
    <3>2. /\ out \in [Askers -> [Sides -> Nat]] /\ fundings \in Nat
          /\ kind = "branch" => out["cron"]["before"] = 0 /\ out["owner"]["after"] = 0
          /\ fundings = locked + out["cron"]["before"] + out["cron"]["after"]
                  + out["owner"]["before"] + out["owner"]["after"]
                  + out["admin"]["before"] + out["admin"]["after"]
      BY DEF TLInv, PaymentsSound, LockPaysAsAsked
    <3>3. fundings + 1 = (locked + 1) + out["cron"]["before"] + out["cron"]["after"]
                  + out["owner"]["before"] + out["owner"]["after"]
                  + out["admin"]["before"] + out["admin"]["after"]
      BY <1>0, <3>1, <3>2
    <3> QED BY <2>1, <3>2, <3>3 DEF PaymentsSound, LockPaysAsAsked
  <2>4. locked + 1 \in Nat
    BY <1>0
  <2>5. /\ \A x \in ProbeRecords :
             ProbeSound(x, ledger, locked, lastFunding) => ProbeSound(x, ledger, locked + 1, ledger)
        /\ RowSound(row, ledger, locked + 1, ledger)
    BY <1>0, <2>4, FindingsStay DEF TLInv
  <2>6. RowSound(row, ledger, locked, lastFunding)'
    BY <2>1, <2>5 DEF RowSound, RowShape, Mode
  <2>7. \A x \in ProbeRecords :
           ProbeSound(x, ledger, locked + 1, ledger)
             => ProbeSound(x, ledger', locked', lastFunding')
    BY <2>1 DEF ProbeSound
  <2>8. StraysSound' /\ prober' = prober
    BY <2>1 DEF TLInv, StraysSound
  <2> QED BY <1>1, <2>2, <2>3, <2>5, <2>6, <2>7, <2>8
<1>3. CASE AdminRelease
  <2>1. Release("admin", SideAt(ledger)) /\ row' = row /\ prober' = prober /\ strays' = strays
    BY <1>3 DEF AdminRelease
  <2>2. "admin" \in Askers /\ SideAt(ledger) \in Sides
    BY DEF Askers, Sides, SideAt, TLInv, ChainSound
  <2>3. ChainSound' /\ PaymentsSound' /\ RowSound(row, ledger, locked, lastFunding)'
    BY <2>1, <2>2, ReleaseSteps
  <2>4. \A x \in ProbeRecords :
              ProbeSound(x, ledger, locked, lastFunding)
                => ProbeSound(x, ledger', locked', lastFunding')
    BY <2>1, <2>2, ReleaseSteps
  <2>5. StraysSound'
    BY <2>1 DEF TLInv, StraysSound
  <2> QED BY <1>1, <2>1, <2>3, <2>4, <2>5
<1>4. CASE CloseLedger
  <2>1. /\ ledger < LastLedger /\ ledger' = ledger + 1 /\ closedLocked' = locked
        /\ UNCHANGED <<kind, locked, fundings, lastFunding, received, out, strays, row, prober>>
    BY <1>4 DEF CloseLedger
  <2>2. ChainSound'
    BY <1>0, <2>1 DEF TLInv, ChainSound
  <2>3. PaymentsSound' /\ StraysSound' /\ prober' = prober
    BY <2>1 DEF TLInv, PaymentsSound, LockPaysAsAsked, StraysSound
  <2>4. ledger + 1 \in Nat /\ ledger <= ledger + 1
    BY <1>0
  <2>5. locked > 0 => locked > 0 /\ lastFunding = lastFunding
    OBVIOUS
  <2>6. /\ \A x \in ProbeRecords :
             ProbeSound(x, ledger, locked, lastFunding)
               => ProbeSound(x, ledger + 1, locked, lastFunding)
        /\ RowSound(row, ledger + 1, locked, lastFunding)
    BY <1>0, <2>4, <2>5, FindingsStay DEF TLInv
  <2>7. RowSound(row, ledger, locked, lastFunding)'
    BY <2>1, <2>6 DEF RowSound, RowShape, Mode
  <2>8. \A x \in ProbeRecords :
           ProbeSound(x, ledger + 1, locked, lastFunding)
             => ProbeSound(x, ledger', locked', lastFunding')
    BY <2>1 DEF ProbeSound
  <2> QED BY <1>1, <2>2, <2>3, <2>6, <2>7, <2>8
<1>5. CASE IngestEvents
  <2>1. UNCHANGED <<kind, ledger, locked, closedLocked, fundings, lastFunding, received,
                    out, strays, row, prober>>
    BY <1>5 DEF IngestEvents, chainVars
  <2>2. ChainSound' /\ PaymentsSound' /\ StraysSound'
    BY <2>1 DEF TLInv, ChainSound, PaymentsSound, LockPaysAsAsked, StraysSound
  <2>3. RowSound(row, ledger, locked, lastFunding)'
    BY <2>1 DEF TLInv, RowSound, RowShape, Mode
  <2>4. \A x \in ProbeRecords :
           ProbeSound(x, ledger, locked, lastFunding)
             => ProbeSound(x, ledger', locked', lastFunding')
    BY <2>1 DEF ProbeSound
  <2> QED BY <1>1, <2>1, <2>2, <2>3, <2>4
<1>6. ASSUME NEW m \in strays, LandStray(m) PROVE TLInv'
  <2>1. Release(m[1], m[2]) /\ row' = row /\ prober' = prober /\ strays' = strays \ {m}
    BY <1>6 DEF LandStray
  <2>2. m = <<"cron", "after">> \/ m = <<"owner", "before">>
    BY DEF TLInv, StraysSound
  <2>3. PICK who, side : who = m[1] /\ side = m[2]
    OBVIOUS
  <2>4. /\ who \in Askers /\ side \in Sides /\ Release(who, side)
        /\ kind = "branch" /\ who = "cron" => side = "after"
        /\ kind = "branch" /\ who = "owner" => side = "before"
    BY <2>1, <2>2, <2>3 DEF Askers, Sides
  <2>5. ChainSound' /\ PaymentsSound' /\ RowSound(row, ledger, locked, lastFunding)'
    BY <2>1, <2>4, ReleaseSteps
  <2>6. \A x \in ProbeRecords :
              ProbeSound(x, ledger, locked, lastFunding)
                => ProbeSound(x, ledger', locked', lastFunding')
    BY <2>1, <2>4, ReleaseSteps
  <2>7. StraysSound'
    BY <2>1 DEF TLInv, StraysSound
  <2> QED BY <1>1, <2>1, <2>5, <2>6, <2>7
<1> QED BY <1>2, <1>3, <1>4, <1>5, <1>6

\* A write that leaves the row's next probe and what is settled as they are.
LEMMA RowStays ==
  ASSUME TLInv, NEW lease \in {Null} \cup Nat, row' = [row EXCEPT !.leaseUntil = lease]
  PROVE  RowSound(row', ledger, locked, lastFunding)
<1>1. RowShape(row) /\ RowSound(row, ledger, locked, lastFunding)
  BY DEF TLInv, RowSound
<1>2. /\ RowShape(row') /\ row'.settled = row.settled /\ row'.known = row.known
      /\ row'.supported = row.supported /\ row'.probeAt = row.probeAt
  BY <1>1 DEF RowShape
<1> QED BY <1>1, <1>2 DEF RowSound

\* A write that sets the time of the next probe, within the bound or because
\* the row has been found empty.
LEMMA RowRewritten ==
  ASSUME TLInv, NEW supported \in BOOLEAN, NEW settled \in {Null} \cup Nat,
         NEW probeAt, NEW failures \in Nat,
         RowShape(row'), row'.known = row.known, row'.supported = supported,
         row'.settled = settled, row'.probeAt = probeAt,
         settled < ledger,
         settled # Null /\ locked > 0 => lastFunding > settled,
         supported => probeAt <= LastLedger \/ settled # Null
  PROVE  RowSound(row', ledger, locked, lastFunding)
BY DEF RowSound

LEMMA SoonIsInTime ==
  ASSUME NEW t, NEW delay
  PROVE  Soon(t, delay) <= LastLedger
<1>1. CASE t + delay <= LastLedger
  BY <1>1 DEF Soon
<1>2. CASE ~(t + delay <= LastLedger)
  BY <1>2, TimelockAssumption DEF Soon
<1> QED BY <1>1, <1>2

LEMMA ProberSteps ==
  ASSUME TLInv, NEW p \in Probers, ProberNext(p)
  PROVE  TLInv'
<1> DEFINE x == prober[p]
<1>0. /\ x \in ProbeRecords /\ ProbeSound(x, ledger, locked, lastFunding)
      /\ RowSound(row, ledger, locked, lastFunding) /\ RowShape(row)
      /\ ledger \in Nat \ {0} /\ locked \in Nat /\ lastFunding \in Nat
      /\ LastLedger \in Nat /\ ledger <= LastLedger
  BY TimelockAssumption DEF TLInv, ChainSound, RowSound
<1>1. /\ x.pc \in ProberStates /\ x.who \in Askers /\ x.side \in Sides /\ x.failures \in Nat
      /\ x.began \in Nat /\ x.sim \in Nat /\ x.landed \in {Null} \cup Nat
      /\ x.settle \in {Null} \cup Nat
  BY <1>0 DEF ProbeRecords
<1>2. /\ row.known \in BOOLEAN /\ row.supported \in BOOLEAN /\ row.settled \in {Null} \cup Nat
      /\ row.leaseUntil \in {Null} \cup Nat /\ row.failures \in Nat
  BY <1>0 DEF RowShape
<1>3. Idle \in ProbeRecords /\ ProbeSound(Idle, ledger, locked, lastFunding)
  BY IdleIsSound
\* The row is left alone.
<1>4. ASSUME NEW next \in ProbeRecords, SetProber(p, next), UNCHANGED chainVars,
             ProbeSound(next, ledger, locked, lastFunding), row' = row, StraysSound'
      PROVE  TLInv'
  <2>1. RowSound(row', ledger, locked, lastFunding)
    BY <1>0, <1>4
  <2> QED BY <1>4, <2>1, ProbeMoves
<1>5. UNCHANGED strays => StraysSound'
  BY DEF TLInv, StraysSound
<1>6. Abandon(p) => StraysSound'
  <2>1. <<x.who, x.side>> \in {<<"cron", "after">>, <<"owner", "before">>}
    BY <1>0 DEF ProbeSound
  <2> QED BY <2>1 DEF TLInv, StraysSound, Abandon
<1>7. CASE SelectDue(p)
  <2> DEFINE next == [Idle EXCEPT !.pc = "due", !.failures = row.failures]
  <2>1. next \in ProbeRecords /\ ProbeSound(next, ledger, locked, lastFunding)
    BY <1>2 DEF Idle, ProbeRecords, ProberStates, Askers, Sides, ProbeSound
  <2>2. SetProber(p, next) /\ UNCHANGED chainVars /\ row' = row /\ UNCHANGED strays
    BY <1>7 DEF SelectDue
  <2> HIDE DEF next
  <2> QED BY <1>4, <1>5, <2>1, <2>2
<1>8. CASE ClaimRow(p)
  <2>1. x.pc = "due" /\ UNCHANGED <<chainVars, strays>>
    BY <1>8 DEF ClaimRow
  <2>2. CASE LeaseFree
    <3> DEFINE next == [x EXCEPT !.pc = "simulating", !.began = ledger]
    <3>1. next \in ProbeRecords
      BY <1>0 DEF ProbeRecords, ProberStates
    <3>2. ProbeSound(next, ledger, locked, lastFunding)
      BY <1>0, <2>1 DEF ProbeRecords, ProbeSound
    <3>3. SetProber(p, next) /\ row' = [row EXCEPT !.leaseUntil = ledger + LeaseTime]
      BY <1>8, <2>2 DEF ClaimRow
    <3>4. ledger + LeaseTime \in Nat
      BY <1>0, TimelockAssumption
    <3>5. RowSound(row', ledger, locked, lastFunding)
      BY <3>3, <3>4, RowStays
    <3> HIDE DEF next, x
    <3> QED BY <1>5, <2>1, <3>1, <3>2, <3>3, <3>5, ProbeMoves
  <2>3. CASE ~LeaseFree
    <3>1. SetProber(p, Idle) /\ row' = row
      BY <1>8, <2>3 DEF ClaimRow
    <3> QED BY <1>3, <1>4, <1>5, <2>1, <3>1
  <2> QED BY <2>2, <2>3
\* The probe ends with a write of the row.
<1>9. ASSUME NEW supported \in BOOLEAN, NEW settled \in {Null} \cup Nat, NEW probeAt,
             NEW failures \in Nat,
             Update(p, [row EXCEPT !.supported = supported, !.settled = settled,
                                   !.probeAt = probeAt, !.failures = failures]),
             UNCHANGED <<chainVars, strays>>,
             settled < ledger,
             settled # Null /\ locked > 0 => lastFunding > settled,
             supported => probeAt <= LastLedger \/ settled # Null
      PROVE  TLInv'
  <2>1. /\ row' = [[row EXCEPT !.supported = supported, !.settled = settled,
                               !.probeAt = probeAt, !.failures = failures]
                     EXCEPT !.leaseUntil = Null]
        /\ SetProber(p, Idle)
    BY <1>9 DEF Update
  <2>2. /\ RowShape(row') /\ row'.known = row.known /\ row'.supported = supported
        /\ row'.settled = settled /\ row'.probeAt = probeAt
    BY <1>0, <2>1 DEF RowShape
  <2>3. RowSound(row', ledger, locked, lastFunding)
    BY <1>9, <2>2, RowRewritten
  <2> QED BY <1>3, <1>5, <1>9, <2>1, <2>3, ProbeMoves
<1>10. /\ row.settled < ledger
       /\ row.settled # Null /\ locked > 0 => lastFunding > row.settled
  BY <1>0 DEF RowSound
<1>11. CASE Simulate(p)
  <2>1. x.pc = "simulating" /\ x.landed = Null /\ UNCHANGED <<chainVars, strays>>
    BY <1>0, <1>11 DEF Simulate, ProbeSound
  <2>2. CASE Update(p, [row EXCEPT !.supported = FALSE, !.probeAt = Never])
    <3>1. [row EXCEPT !.supported = FALSE, !.probeAt = Never]
            = [row EXCEPT !.supported = FALSE, !.settled = row.settled,
                          !.probeAt = Never, !.failures = row.failures]
      BY <1>0 DEF RowShape
    <3>2. Update(p, [row EXCEPT !.supported = FALSE, !.settled = row.settled,
                          !.probeAt = Never, !.failures = row.failures])
      BY <2>2, <3>1
    <3> QED BY <1>2, <1>9, <1>10, <2>1, <3>2
  <2>3. CASE Update(p, [row EXCEPT !.probeAt = Soon(x.began, RetryTime)])
    <3>1. PICK at : at = Soon(x.began, RetryTime)
      OBVIOUS
    <3>2. [row EXCEPT !.probeAt = at]
            = [row EXCEPT !.supported = row.supported, !.settled = row.settled,
                          !.probeAt = at, !.failures = row.failures]
      BY <1>0 DEF RowShape
    <3>3. Update(p, [row EXCEPT !.supported = row.supported, !.settled = row.settled,
                          !.probeAt = at, !.failures = row.failures])
      BY <2>3, <3>1, <3>2
    <3>4. at <= LastLedger
      BY <3>1, SoonIsInTime
    <3> QED BY <1>2, <1>9, <1>10, <2>1, <3>3, <3>4
  <2>4. CASE /\ closedLocked = 0
             /\ SetProber(p, [x EXCEPT !.pc = "settling", !.settle = SimulatedAt])
             /\ UNCHANGED row
    <3> DEFINE next == [x EXCEPT !.pc = "settling", !.settle = SimulatedAt]
    <3>1. SimulatedAt \in Nat /\ SimulatedAt < ledger
      BY <1>0 DEF SimulatedAt
    <3>2. locked > 0 => lastFunding > SimulatedAt
      BY <1>0, <2>4, <3>1 DEF TLInv, ChainSound
    <3>3. next \in ProbeRecords
      BY <1>0, <3>1 DEF ProbeRecords, ProberStates
    <3>4. ProbeSound(next, ledger, locked, lastFunding)
      BY <1>0, <3>1, <3>2 DEF ProbeRecords, ProbeSound, Null
    <3>5. SetProber(p, next)
      BY <2>4
    <3> HIDE DEF next, x
    <3> QED BY <1>4, <1>5, <2>1, <2>4, <3>3, <3>4, <3>5
  <2>5. CASE SetProber(p, [x EXCEPT !.pc = "sending", !.sim = SimulatedAt]) /\ UNCHANGED row
    <3> DEFINE next == [x EXCEPT !.pc = "sending", !.sim = SimulatedAt]
    <3>1. SimulatedAt \in Nat /\ SimulatedAt < ledger
      BY <1>0 DEF SimulatedAt
    <3>2. next \in ProbeRecords
      BY <1>0, <3>1 DEF ProbeRecords, ProberStates
    <3>3. ProbeSound(next, ledger, locked, lastFunding)
      BY <1>0, <2>1, <3>1 DEF ProbeRecords, ProbeSound
    <3>4. SetProber(p, next)
      BY <2>5
    <3> HIDE DEF next, x
    <3> QED BY <1>4, <1>5, <2>1, <2>5, <3>2, <3>3, <3>4
  <2> QED BY <1>11, <2>2, <2>3, <2>4, <2>5 DEF Simulate
<1>12. CASE SendOrDrop(p)
  <2>1. x.pc = "sending" /\ UNCHANGED <<chainVars, strays>>
    BY <1>12 DEF SendOrDrop
  <2>2. CASE SetProber(p, [x EXCEPT !.pc = "waiting"]) /\ UNCHANGED row
    <3> DEFINE next == [x EXCEPT !.pc = "waiting"]
    <3>1. next \in ProbeRecords
      BY <1>0 DEF ProbeRecords, ProberStates
    <3>2. ProbeSound(next, ledger, locked, lastFunding)
      BY <1>0, <2>1 DEF ProbeRecords, ProbeSound
    <3>3. SetProber(p, next)
      BY <2>2
    <3> HIDE DEF next, x
    <3> QED BY <1>4, <1>5, <2>1, <2>2, <3>1, <3>2, <3>3
  <2>3. CASE Update(p, row)
    <3>1. row' = [row EXCEPT !.leaseUntil = Null] /\ SetProber(p, Idle)
      BY <2>3 DEF Update
    <3>2. RowSound(row', ledger, locked, lastFunding)
      BY <3>1, RowStays
    <3> QED BY <1>3, <1>5, <2>1, <3>1, <3>2, ProbeMoves
  <2> QED BY <1>12, <2>2, <2>3 DEF SendOrDrop
<1>13. CASE LandRelease(p)
  <2> DEFINE next == [x EXCEPT !.landed = ledger]
  <2>1. /\ x.pc = "waiting" /\ Release(x.who, x.side) /\ SetProber(p, next)
        /\ row' = row /\ strays' = strays
    BY <1>13 DEF LandRelease
  <2>2. (x.who = "cron" => x.side = "after") /\ (x.who = "owner" => x.side = "before")
    BY <1>0 DEF ProbeSound
  <2>3. ChainSound' /\ PaymentsSound' /\ RowSound(row, ledger, locked, lastFunding)'
    BY <1>1, <2>1, <2>2, ReleaseSteps
  <2>4. \A y \in ProbeRecords :
              ProbeSound(y, ledger, locked, lastFunding)
                => ProbeSound(y, ledger', locked', lastFunding')
    BY <1>1, <2>1, <2>2, ReleaseSteps
  <2>5. ledger' = ledger /\ locked' = 0 /\ lastFunding' = lastFunding
    BY <2>1 DEF Release
  <2>6. next \in ProbeRecords
    BY <1>0 DEF ProbeRecords
  <2>7. ProbeSound(next, ledger, 0, lastFunding)
    BY <1>0, <2>1 DEF ProbeRecords, ProbeSound
  <2>8. /\ prober' \in [Probers -> ProbeRecords] /\ prober'[p] = next
        /\ \A q \in Probers : q # p => prober'[q] = prober[q]
    BY <2>1, <2>6 DEF TLInv, SetProber
  <2>9. \A q \in Probers : ProbeSound(prober'[q], ledger', locked', lastFunding')
    <3> SUFFICES ASSUME NEW q \in Probers
                 PROVE  ProbeSound(prober'[q], ledger', locked', lastFunding')
      OBVIOUS
    <3>1. CASE q = p
      BY <2>5, <2>7, <2>8, <3>1
    <3>2. CASE q # p
      BY <2>4, <2>8, <3>2 DEF TLInv
    <3> QED BY <3>1, <3>2
  <2>10. (\A q \in Probers : ProbeSound(prober[q], ledger, locked, lastFunding))'
    BY <2>9 DEF ProbeSound
  <2> QED BY <1>5, <2>1, <2>3, <2>8, <2>10 DEF TLInv
<1>14. CASE SeeReleased(p)
  <2>1. x.pc = "waiting" /\ x.landed # Null /\ UNCHANGED <<chainVars, strays, row>>
    BY <1>14 DEF SeeReleased
  <2>2. PICK at \in {x.landed, x.sim + 1} :
           SetProber(p, [x EXCEPT !.pc = "settling", !.settle = SettleAfter(at)])
    BY <1>14 DEF SeeReleased
  <2>3. /\ x.landed \in Nat /\ x.landed <= ledger /\ x.sim < x.landed
        /\ locked > 0 => lastFunding >= x.landed
    BY <1>0, <1>1, <2>1 DEF ProbeSound
  <2>4. /\ SettleAfter(at) \in Nat /\ SettleAfter(at) < ledger
        /\ locked > 0 => lastFunding > SettleAfter(at)
    BY <1>0, <1>1, <2>2, <2>3 DEF SettleAfter
  <2> DEFINE s == SettleAfter(at)
             next == [x EXCEPT !.pc = "settling", !.settle = s]
  <2> HIDE DEF s
  <2>5. next \in ProbeRecords
    BY <1>0, <2>4 DEF ProbeRecords, ProberStates, s
  <2>6. ProbeSound(next, ledger, locked, lastFunding)
    BY <1>0, <2>4 DEF ProbeRecords, ProbeSound, Null, s
  <2>7. SetProber(p, next)
    BY <2>2 DEF s
  <2> HIDE DEF next, x
  <2> QED BY <1>4, <1>5, <2>1, <2>5, <2>6, <2>7
<1>15. CASE Settle(p)
  <2>1. x.pc = "settling" /\ UNCHANGED <<chainVars, strays>>
    BY <1>15 DEF Settle
  <2> DEFINE s == x.settle
             at == SettledRecheck(x.began)
  <2>2. Update(p, [row EXCEPT !.settled = s, !.probeAt = at, !.failures = 0])
    BY <1>15 DEF Settle
  <2>3. s \in Nat /\ s # Null /\ s < ledger /\ (locked > 0 => lastFunding > s)
    BY <1>0, <1>1, <2>1 DEF ProbeSound
  <2> HIDE DEF s, at
  <2>4. [row EXCEPT !.settled = s, !.probeAt = at, !.failures = 0]
          = [row EXCEPT !.supported = row.supported, !.settled = s,
                        !.probeAt = at, !.failures = 0]
    BY <1>0 DEF RowShape
  <2>5. Update(p, [row EXCEPT !.supported = row.supported, !.settled = s,
                        !.probeAt = at, !.failures = 0])
    BY <2>2, <2>4
  <2> QED BY <1>2, <1>9, <2>1, <2>3, <2>5
<1>16. CASE Fail(p)
  <2> DEFINE next == [x EXCEPT !.pc = "failing", !.sim = 0, !.landed = Null]
  <2>1. Abandon(p) /\ SetProber(p, next) /\ UNCHANGED <<chainVars, row>>
    BY <1>16 DEF Fail
  <2>2. next \in ProbeRecords
    BY <1>0 DEF ProbeRecords, ProberStates
  <2>3. ProbeSound(next, ledger, locked, lastFunding)
    BY <1>0 DEF ProbeRecords, ProbeSound
  <2> HIDE DEF next, x
  <2> QED BY <1>4, <1>6, <2>1, <2>2, <2>3
<1>17. CASE Die(p)
  <2>1. Abandon(p) /\ SetProber(p, Idle) /\ UNCHANGED <<chainVars, row>>
    BY <1>17 DEF Die
  <2> QED BY <1>3, <1>4, <1>6, <2>1
<1>18. CASE RecordFailure(p)
  <2> DEFINE n == IF x.failures < MaxFailures THEN x.failures + 1 ELSE MaxFailures
  <2>1. UNCHANGED <<chainVars, strays>> /\ n \in Nat
    BY <1>1, <1>18, TimelockAssumption DEF RecordFailure
  <2>2. PICK delay : Update(p, [row EXCEPT !.failures = n, !.probeAt = Soon(x.began, delay)])
    BY <1>18 DEF RecordFailure
  <2>3. PICK at : at = Soon(x.began, delay)
    OBVIOUS
  <2>4. at <= LastLedger
    BY <2>3, SoonIsInTime
  <2> HIDE DEF n
  <2>5. [row EXCEPT !.failures = n, !.probeAt = at]
          = [row EXCEPT !.supported = row.supported, !.settled = row.settled,
                        !.probeAt = at, !.failures = n]
    BY <1>0 DEF RowShape
  <2>6. Update(p, [row EXCEPT !.supported = row.supported, !.settled = row.settled,
                        !.probeAt = at, !.failures = n])
    BY <2>2, <2>3, <2>5
  <2> QED BY <1>2, <1>9, <1>10, <2>1, <2>4, <2>6
<1>19. CASE AskEarly(p)
  <2> DEFINE next == [Idle EXCEPT !.pc = "simulating", !.who = "owner", !.side = "before"]
  <2>1. next \in ProbeRecords /\ ProbeSound(next, ledger, locked, lastFunding)
    BY DEF Idle, ProbeRecords, ProberStates, Askers, Sides, ProbeSound
  <2>2. SetProber(p, next) /\ UNCHANGED <<chainVars, row, strays>>
    BY <1>19 DEF AskEarly
  <2> HIDE DEF next
  <2> QED BY <1>4, <1>5, <2>1, <2>2
<1>20. CASE SimulateEarly(p)
  <2>1. x.pc = "simulating" /\ UNCHANGED <<chainVars, row, strays>>
    BY <1>20 DEF SimulateEarly
  <2>2. CASE SetProber(p, [x EXCEPT !.pc = "waiting", !.sim = ledger - 1])
    <3> DEFINE next == [x EXCEPT !.pc = "waiting", !.sim = ledger - 1]
    <3>1. ledger - 1 \in Nat /\ ledger - 1 < ledger
      BY <1>0
    <3>2. next \in ProbeRecords
      BY <1>0, <3>1 DEF ProbeRecords, ProberStates
    <3>3. ProbeSound(next, ledger, locked, lastFunding)
      BY <1>0, <2>1, <3>1 DEF ProbeRecords, ProbeSound
    <3>4. SetProber(p, next)
      BY <2>2
    <3> HIDE DEF next, x
    <3> QED BY <1>4, <1>5, <2>1, <3>2, <3>3, <3>4
  <2>3. CASE SetProber(p, Idle)
    BY <1>3, <1>4, <1>5, <2>1, <2>3
  <2> QED BY <1>20, <2>2, <2>3 DEF SimulateEarly
<1>21. CASE AnswerEarly(p)
  <2>1. Abandon(p) /\ SetProber(p, Idle) /\ UNCHANGED <<chainVars, row>>
    BY <1>21 DEF AnswerEarly
  <2> QED BY <1>3, <1>4, <1>6, <2>1
<1> QED BY <1>7, <1>8, <1>11, <1>12, <1>13, <1>14, <1>15, <1>16, <1>17, <1>18, <1>19,
           <1>20, <1>21 DEF ProberNext

LEMMA DiscoverSteps ==
  ASSUME TLInv, Discover
  PROVE  TLInv'
<1>1. UNCHANGED <<kind, dedicated, ledger, locked, closedLocked, fundings, lastFunding,
                  received, closedReceived, out>>
      /\ strays' = strays /\ prober' = prober
  BY DEF Discover, chainVars
<1>2. ledger \in Nat /\ ledger <= LastLedger /\ ledger >= 1
      /\ kind \in {"after", "before", "branch"}
  BY TimelockAssumption DEF TLInv, ChainSound
<1>3. Unlock \in Nat /\ LastLedger \in Nat
  BY TimelockAssumption
<1>4. PICK at \in Nat : /\ row' = Row(at)
                        /\ at <= LastLedger \/ (Mode = "after" /\ Unlock > LastLedger)
  BY <1>2, <1>3 DEF Discover, Never
<1>5. RowSound(row', ledger, locked, lastFunding)
  BY <1>2, <1>4 DEF Row, RowSound, RowShape, Null
<1>6. ChainSound' /\ StraysSound' /\ PaymentsSound'
  BY <1>1 DEF TLInv, ChainSound, StraysSound, PaymentsSound, LockPaysAsAsked
<1>7. RowSound(row, ledger, locked, lastFunding)'
  BY <1>1, <1>5 DEF RowSound, RowShape, Mode
<1>8. (\A q \in Probers : ProbeSound(prober[q], ledger, locked, lastFunding))'
  BY <1>1 DEF TLInv, ProbeSound
<1> QED BY <1>1, <1>6, <1>7, <1>8 DEF TLInv

\* The timelock's inductive invariant, for any runs, requests and deposits.
THEOREM TimelockInvariant == TLSpec => []TLInv
<1>1. ASSUME TLInit PROVE TLInv
  <2>1. /\ kind \in {"after", "before", "branch"} /\ ledger = 1 /\ locked = 0
        /\ closedLocked = 0 /\ fundings = 0 /\ lastFunding = 0 /\ received = 0
        /\ strays = {} /\ row = NoRow
        /\ out = [who \in Askers |-> [s \in Sides |-> 0]]
        /\ prober = [q \in Probers |-> Idle]
    BY <1>1 DEF TLInit
  <2>2. ChainSound /\ StraysSound
    BY <2>1, TimelockAssumption DEF ChainSound, StraysSound
  <2>3. PaymentsSound
    BY <2>1 DEF PaymentsSound, LockPaysAsAsked, Askers, Sides
  <2>4. RowSound(row, ledger, locked, lastFunding)
    <3>1. RowShape(NoRow) /\ NoRow.settled = Null /\ NoRow.known = FALSE
      BY DEF NoRow, Row, RowShape, Null
    <3>2. RowShape(row) /\ row.settled = Null /\ row.known = FALSE
      BY <2>1, <3>1 DEF RowShape
    <3> QED BY <2>1, <3>2 DEF RowSound, Null
  <2>5. /\ prober \in [Probers -> ProbeRecords]
        /\ \A q \in Probers : ProbeSound(prober[q], ledger, locked, lastFunding)
    BY <2>1, IdleIsSound
  <2> QED BY <2>2, <2>3, <2>4, <2>5 DEF TLInv
<1>2. ASSUME TLInv, [TLNext]_tlVars PROVE TLInv'
  <2>1. CASE UNCHANGED tlVars
    <3>1. UNCHANGED <<kind, ledger, locked, closedLocked, fundings, lastFunding, received,
                      out, strays, row, prober>>
      BY <2>1 DEF tlVars, chainVars
    <3>2. ChainSound' /\ StraysSound' /\ PaymentsSound'
      BY <1>2, <3>1 DEF TLInv, ChainSound, StraysSound, PaymentsSound, LockPaysAsAsked
    <3>3. RowSound(row, ledger, locked, lastFunding)'
      BY <1>2, <3>1 DEF TLInv, RowSound, RowShape, Mode
    <3>4. (\A q \in Probers : ProbeSound(prober[q], ledger, locked, lastFunding))'
      BY <1>2, <3>1 DEF TLInv, ProbeSound
    <3> QED BY <1>2, <3>1, <3>2, <3>3, <3>4 DEF TLInv
  <2>2. CASE TLNext
    BY <1>2, <2>2, ProberSteps, ChainSteps, DiscoverSteps DEF TLNext
  <2> QED BY <1>2, <2>1, <2>2
<1>3. TLInv /\ [TLNext]_tlVars => TLInv'
  BY <1>2
<1> QED BY <1>1, <1>3, PTL DEF TLSpec

\* settledLedger: the row never claims to have been empty through a ledger
\* that brought what the timelock holds, whatever the order in which runs,
\* lapsed leases, late releases and deposits meet.
THEOREM SettledIsBeforeTheFunds == TLSpec => []SettledBeforeFunded
<1>1. TLInv => SettledBeforeFunded
  BY DEF TLInv, RowSound, SettledBeforeFunded
<1> QED BY <1>1, TimelockInvariant, PTL

\* selectDueTimelocks: a timelock that holds funds has a probe ahead or an
\* event to wake its row.
THEOREM NoFundsAreForgotten == TLSpec => []FundsAreRemembered
<1>1. ASSUME TLInv PROVE FundsAreRemembered
  <2>1. /\ ledger \in Nat /\ ledger <= LastLedger /\ lastFunding \in Nat /\ received \in Nat
        /\ lastFunding <= received /\ locked \in Nat
    BY <1>1, TimelockAssumption DEF TLInv, ChainSound
  <2>2. row.settled = Null \/ row.settled \in Nat
    BY <1>1 DEF TLInv, RowSound, RowShape
  <2>3. /\ row.settled # Null /\ locked > 0 => lastFunding > row.settled
        /\ row.known /\ row.supported =>
             \/ row.probeAt <= LastLedger
             \/ row.settled # Null
             \/ Mode = "after" /\ Unlock > LastLedger
    BY <1>1 DEF TLInv, RowSound
  <2>4. Selectable(ledger) => ~(Mode = "after" /\ Unlock > LastLedger)
    BY <2>1, TimelockAssumption DEF Selectable
  <2> QED BY <2>1, <2>2, <2>3, <2>4 DEF FundsAreRemembered
<1> QED BY <1>1, TimelockInvariant, PTL

\* release_by_relayer(side): a release pays the side of whoever asked for it,
\* and no deposit is paid out twice or lost.
THEOREM TheLockPaysAsAsked == TLSpec => []LockPaysAsAsked
<1>1. TLInv => LockPaysAsAsked
  BY DEF TLInv, PaymentsSound
<1> QED BY <1>1, TimelockInvariant, PTL

-----------------------------------------------------------------------------
(* The subscription                                                        *)

\* A run under a lease that has not lapsed is the one the key names.
LeaseInv == \A c \in Crons : guard[c] = "held" /\ c \notin lapsed => key = c

Working  == {"reading", "charging", "counting", "rereading", "stopping"}
Catching == {"selecting", "reading", "charging", "counting"}

\* What a run knows: of a current reading, which choice it was made under; a
\* date it is about to write, which the contract had at the time; and that it
\* has not charged too often.
RunsInv ==
  \A c \in Crons :
    /\ run[c].pc \in Catching => run[c].tries < MaxCatchup
    /\ c \in current /\ run[c].pc \in Working => run[c].under = choice
    /\ run[c].to <= nextCharge
    /\ run[c].pc = "stopping" => run[c].to = Undated

RowInv == dueAt <= nextCharge \/ dueAt <= time

SubInv == SubTypeOK /\ LeaseInv /\ RunsInv /\ RowInv /\ OwnerChoiceStands

LEMMA LeaseSteps ==
  ASSUME [SubNext]_subAll
  PROVE  [CLNext]_leaseVars
<1>1. ASSUME NEW c \in Crons, RunNext(c) PROVE [CLNext]_leaseVars
  <2>1. \/ TakeLease(c) \/ RunUnguarded(c) \/ DropLease(c) \/ LoseRun(c)
        \/ UNCHANGED leaseVars
    BY <1>1 DEF RunNext, BeginRun, SelectSubscription, ReadState, LandCharge, BelieveTenant,
       CountCharge, RefuseUrl, GiveUp, Reread, Refresh, EndRun, DieInRun
  <2> QED BY <2>1 DEF CLNext
<1>2. CASE LeaseLapses
  BY <1>2 DEF LeaseLapses, CLNext
<1>3. CASE UNCHANGED leaseVars
  BY <1>3
<1> QED BY <1>1, <1>2, <1>3 DEF SubNext, OthersCharge, Unsubscribe, Subscribe, Approve, SetRelayer,
        TimePasses, Configure, subAll

LEMMA LeaseStays ==
  ASSUME CLTypeOK, LeaseInv, [CLNext]_leaseVars
  PROVE  CLTypeOK' /\ LeaseInv'
<1> USE CronLeaseAssumption DEF CLTypeOK, LeaseInv
<1>1. ASSUME NEW c \in Crons, TakeLease(c) PROVE CLTypeOK' /\ LeaseInv'
  BY <1>1 DEF TakeLease
<1>2. ASSUME NEW c \in Crons, RunUnguarded(c) PROVE CLTypeOK' /\ LeaseInv'
  BY <1>2 DEF RunUnguarded
<1>3. ASSUME NEW c \in Crons, DropLease(c) PROVE CLTypeOK' /\ LeaseInv'
  BY <1>3 DEF DropLease, KeyAfterRelease
<1>4. ASSUME NEW c \in Crons, LoseRun(c) PROVE CLTypeOK' /\ LeaseInv'
  BY <1>4 DEF LoseRun
<1>5. CASE Lapse
  BY <1>5 DEF Lapse
<1>6. CASE UNCHANGED leaseVars
  BY <1>6 DEF leaseVars
<1> QED BY <1>1, <1>2, <1>3, <1>4, <1>5, <1>6 DEF CLNext

Run == [pc : RunStates, mode : Modes, began : 0 .. LastTime, under : 0 .. MaxChoices,
        tries : 0 .. MaxCatchup, to : {Undated} \cup Nat]

\* A step of one run: where it goes, and the rest that the invariant reads.
RunMove(c) ==
  /\ \E next \in Run :
       /\ run' = [run EXCEPT ![c] = next]
       /\ next.pc \in Catching => next.tries < MaxCatchup
       /\ c \in current' /\ next.pc \in Working => next.under = choice
       /\ next.to <= nextCharge
       /\ next.pc = "stopping" => next.to = Undated
  /\ current' \subseteq current \cup {c}
  /\ UNCHANGED <<time, choice, chosen>>

LEMMA RunSteps ==
  ASSUME SubInv, NEW c \in Crons, RunNext(c)
  PROVE  RunMove(c)
<1> USE SubscriptionAssumption
<1> DEFINE r == run[c]
<1>0. /\ r \in Run /\ nextCharge \in Nat /\ time \in 0 .. LastTime
      /\ choice \in 0 .. MaxChoices /\ mode \in Modes
      /\ r.pc \in Catching => r.tries < MaxCatchup
      /\ c \in current /\ r.pc \in Working => r.under = choice
      /\ r.to <= nextCharge
      /\ r.pc = "stopping" => r.to = Undated
  BY DEF SubInv, SubTypeOK, RunsInv, Run
<1> HIDE DEF r
<1>1. /\ Undated <= nextCharge /\ r = run[c]
      /\ AtEase \in Run /\ AtEase.to = Undated /\ AtEase.tries = 0 /\ AtEase.pc = "idle"
  BY <1>0 DEF Undated, AtEase, r, Run, RunStates, Modes
\* The run begins anew, or ends its work on the subscription.
<1>2. ASSUME NEW next \in Run, next.pc \notin Working, next.to <= nextCharge,
             next.pc \in Catching => next.tries < MaxCatchup,
             UNCHANGED <<time, choice, chosen>>, current' \subseteq current \cup {c}, Set(c, next)
      PROVE  RunMove(c)
  BY <1>2 DEF RunMove, Working, Set
\* It moves on with what it has.
<1>3. ASSUME NEW next \in Run, next.pc \in Working \ {"stopping"}, r.pc \in Working,
             next.under = r.under, next.to = r.to,
             next.pc \in Catching => next.tries < MaxCatchup,
             UNCHANGED <<time, current, choice, chosen>>, Set(c, next)
      PROVE  RunMove(c)
  BY <1>0, <1>3 DEF RunMove, Set
<1>4. ASSUME NEW pc \in Working \ {"stopping"}, Move(c, pc), r.pc \in Working,
             pc \in Catching => r.tries < MaxCatchup,
             UNCHANGED <<time, current, choice, chosen>>
      PROVE  RunMove(c)
  <2> DEFINE next == [r EXCEPT !.pc = pc]
  <2>1. next \in Run /\ next.pc = pc /\ next.to = r.to /\ next.under = r.under
        /\ next.tries = r.tries
    BY <1>0, <1>4 DEF Run, Working, RunStates
  <2>2. Set(c, next)
    BY <1>1, <1>4 DEF Move
  <2> HIDE DEF next
  <2> QED BY <1>3, <1>4, <2>1, <2>2
\* It decides to switch the automation off.
<1>5. ASSUME r.pc \in Working, UNCHANGED <<time, current, choice, chosen>>,
             Set(c, [AtEase EXCEPT !.pc = "stopping", !.under = run[c].under])
      PROVE  RunMove(c)
  <2> DEFINE next == [AtEase EXCEPT !.pc = "stopping", !.under = r.under]
  <2>1. next \in Run /\ next.pc = "stopping" /\ next.to = Undated /\ next.under = r.under
    BY <1>0, <1>1 DEF Run, RunStates
  <2>2. run' = [run EXCEPT ![c] = next]
    BY <1>1, <1>5 DEF Set
  <2> HIDE DEF next
  <2> QED BY <1>0, <1>1, <1>5, <2>1, <2>2 DEF RunMove, Catching
<1>6. ASSUME Finish(c), UNCHANGED <<time, choice, chosen>>, current' \subseteq current \cup {c}
      PROVE  RunMove(c)
  <2> DEFINE next == [AtEase EXCEPT !.pc = "done"]
  <2>1. next \in Run /\ next.pc = "done" /\ next.to = Undated
    BY <1>1 DEF Run, RunStates
  <2>2. Set(c, next)
    BY <1>6 DEF Finish
  <2> HIDE DEF next
  <2> QED BY <1>1, <1>2, <1>6, <2>1, <2>2 DEF Working, Catching
<1>7. CASE BeginRun(c)
  <2> DEFINE next == [AtEase EXCEPT !.pc = "selecting", !.began = time]
  <2>1. next \in Run /\ next.pc = "selecting" /\ next.to = Undated /\ next.tries = 0
    BY <1>0, <1>1 DEF Run, RunStates
  <2>2. Set(c, next) /\ UNCHANGED <<time, choice, chosen, current>>
    BY <1>7 DEF BeginRun, subRow
  <2> HIDE DEF next
  <2> QED BY <1>1, <1>2, <2>1, <2>2 DEF Working
<1>8. CASE SelectSubscription(c)
  <2>1. CASE Selected
    <3> DEFINE next == [r EXCEPT !.pc = "reading", !.mode = mode, !.under = choice]
    <3>1. /\ next \in Run /\ next.pc = "reading" /\ next.to = r.to /\ next.under = choice
          /\ next.tries = r.tries
      BY <1>0 DEF Run, RunStates
    <3>2. run' = [run EXCEPT ![c] = next]
      BY <1>1, <1>8, <2>1 DEF SelectSubscription, Set
    <3> HIDE DEF next
    <3>3. r.tries < MaxCatchup
      BY <1>0, <1>1, <1>8 DEF SelectSubscription, Catching
    <3> QED BY <1>0, <1>8, <2>1, <3>1, <3>2, <3>3 DEF SelectSubscription, RunMove
  <2>2. CASE ~Selected
    BY <1>6, <1>8, <2>2 DEF SelectSubscription
  <2> QED BY <2>1, <2>2
<1>9. CASE ReadState(c)
  <2>0. r.pc = "reading" /\ UNCHANGED <<time, current, choice, chosen>>
    BY <1>1, <1>9 DEF ReadState, subRow
  <2>1. CASE Finish(c)
    BY <1>6, <2>0, <2>1
  <2>2. CASE Move(c, "charging") /\ r.tries < MaxCatchup
    BY <1>4, <2>0, <2>2 DEF Working
  <2>3. CASE Set(c, [AtEase EXCEPT !.pc = "stopping", !.under = run[c].under])
    BY <1>5, <2>0, <2>3 DEF Working
  <2>4. CASE Set(c, [AtEase EXCEPT !.pc = "refreshing", !.to = nextCharge])
    <3> DEFINE next == [AtEase EXCEPT !.pc = "refreshing", !.to = nextCharge]
    <3>1. next \in Run /\ next.pc = "refreshing" /\ next.to = nextCharge
      BY <1>0, <1>1 DEF Run, RunStates
    <3>2. Set(c, next)
      BY <2>4
    <3> HIDE DEF next
    <3>3. next.pc \notin Working /\ next.pc \notin Catching /\ next.to <= nextCharge
      BY <1>0, <3>1 DEF Working, Catching
    <3> QED BY <1>2, <2>0, <3>1, <3>2, <3>3
  <2>5. r.tries < MaxCatchup
    BY <1>0, <2>0 DEF Catching
  <2> QED BY <1>9, <2>1, <2>2, <2>3, <2>4, <2>5 DEF ReadState
<1>10. CASE LandCharge(c) \/ BelieveTenant(c)
  <2>1. /\ r.pc = "charging" /\ UNCHANGED <<time, current, choice, chosen>>
        /\ Move(c, "counting")
    BY <1>1, <1>10 DEF LandCharge, BelieveTenant, subRow
  <2> QED BY <1>0, <1>4, <2>1 DEF Working, Catching
<1>11. CASE RefuseUrl(c)
  <2>1. /\ r.pc = "charging" /\ UNCHANGED <<time, current, choice, chosen>>
        /\ Set(c, [AtEase EXCEPT !.pc = "stopping", !.under = run[c].under])
    BY <1>1, <1>11 DEF RefuseUrl, subRow
  <2> QED BY <1>5, <2>1 DEF Working
<1>12. CASE CountCharge(c)
  <2> DEFINE pc == IF nextCharge <= time /\ r.tries + 1 < MaxCatchup
                   THEN "charging" ELSE "rereading"
             next == [r EXCEPT !.pc = pc, !.tries = r.tries + 1]
  <2>1. r.pc = "counting" /\ UNCHANGED <<time, current, choice, chosen>> /\ Set(c, next)
    BY <1>1, <1>12 DEF CountCharge, subRow
  <2>2. r.tries < MaxCatchup
    BY <1>0, <2>1 DEF Catching
  <2>3. r.tries + 1 \in 0 .. MaxCatchup
    BY <1>0, <2>2 DEF Run
  <2>4. /\ next \in Run /\ next.pc = pc /\ next.to = r.to /\ next.under = r.under
        /\ next.tries = r.tries + 1
    BY <1>0, <2>3 DEF Run, RunStates
  <2>5. pc \in {"charging", "rereading"} /\ (pc = "charging" => r.tries + 1 < MaxCatchup)
    OBVIOUS
  <2> HIDE DEF pc, next
  <2> QED BY <1>3, <2>1, <2>4, <2>5 DEF Working, Catching
<1>13. CASE GiveUp(c)
  BY <1>6, <1>13 DEF GiveUp, subRow
<1>14. CASE Reread(c)
  <2> DEFINE next == [AtEase EXCEPT !.pc = "refreshing", !.to = DateAfterCharges]
  <2>1. next \in Run /\ next.pc = "refreshing" /\ next.to = nextCharge
    BY <1>0, <1>1 DEF Run, RunStates, DateAfterCharges
  <2>2. Set(c, next) /\ UNCHANGED <<time, current, choice, chosen>>
    BY <1>14 DEF Reread, subRow
  <2> HIDE DEF next
  <2>3. next.pc \notin Working /\ next.pc \notin Catching /\ next.to <= nextCharge
    BY <1>0, <2>1 DEF Working, Catching
  <2> QED BY <1>2, <2>1, <2>2, <2>3
<1>15. CASE Refresh(c)
  <2>1. Finish(c) /\ UNCHANGED <<time, choice, chosen>> /\ current' \subseteq current \cup {c}
    BY <1>15 DEF Refresh, subRow
  <2> QED BY <1>6, <2>1
<1>16. CASE EndRun(c) \/ DieInRun(c)
  <2>1. Set(c, AtEase) /\ UNCHANGED <<time, choice, chosen>> /\ current' \subseteq current \cup {c}
    BY <1>16 DEF EndRun, DieInRun
  <2> QED BY <1>1, <1>2, <2>1 DEF Working, Catching
<1> QED BY <1>7, <1>8, <1>9, <1>10, <1>11, <1>12, <1>13, <1>14, <1>15, <1>16 DEF RunNext

\* The contract's date and the clock only advance.
LEMMA DatesAdvance ==
  ASSUME SubInv, [SubNext]_subAll
  PROVE  /\ nextCharge' \in Nat /\ nextCharge' >= nextCharge
         /\ time' \in 0 .. LastTime /\ time' >= time
         /\ cancelled' \in BOOLEAN /\ relayer' \in Relayers /\ allowance' \in 0 .. MaxApproved
<1> USE SubscriptionAssumption DEF SubInv, SubTypeOK
<1>1. ASSUME NEW c \in Crons, RunNext(c)
      PROVE  UNCHANGED <<time, subChain>> \/ (ExecuteCharge /\ UNCHANGED time)
  BY <1>1 DEF RunNext, BeginRun, SelectSubscription, ReadState, LandCharge, BelieveTenant,
     CountCharge, RefuseUrl, GiveUp, Reread, Refresh, EndRun, DieInRun
<1>2. CASE ExecuteCharge /\ UNCHANGED time
  BY <1>2 DEF ExecuteCharge, Advanced, Chargeable
<1>3. CASE UNCHANGED <<time, subChain>>
  BY <1>3 DEF subChain
<1>4. CASE Unsubscribe \/ Subscribe \/ Approve \/ SetRelayer \/ TimePasses
  <2>0. CASE Unsubscribe
    BY <2>0 DEF Unsubscribe
  <2>1. CASE Subscribe
    <3>1. cancelled' = FALSE /\ UNCHANGED <<time, nextCharge, relayer, allowance>>
      BY <2>1 DEF Subscribe
    <3>2. cancelled' \in BOOLEAN
      BY <3>1
    <3>3. /\ nextCharge \in Nat /\ time \in 0 .. LastTime /\ relayer \in Relayers
          /\ allowance \in 0 .. MaxApproved
      OBVIOUS
    <3> HIDE DEF SubInv
    <3> QED BY <3>1, <3>2, <3>3
  <2>2. CASE Approve
    BY <2>2 DEF Approve
  <2>3. CASE SetRelayer
    BY <2>3 DEF SetRelayer
  <2>4. CASE TimePasses
    BY <2>4 DEF TimePasses, subChain
  <2> QED BY <1>4, <2>0, <2>1, <2>2, <2>3, <2>4
<1>5. CASE OthersCharge \/ Configure \/ LeaseLapses \/ UNCHANGED subAll
  BY <1>2, <1>3, <1>5 DEF OthersCharge, Configure, LeaseLapses, subAll, subVars, subChain
<1> QED BY <1>1, <1>2, <1>3, <1>4, <1>5 DEF SubNext

\* What becomes of the row and of the owner's choice.
LEMMA RowSteps ==
  ASSUME SubInv, [SubNext]_subAll
  PROVE  /\ mode' \in Modes /\ chosen' \in Modes /\ choice' \in 0 .. MaxChoices
         /\ dueAt' \in {Undated} \cup Nat /\ stoppedAt' \in {Undated} \cup 0 .. MaxChoices
         /\ current' \subseteq Crons
         /\ RowInv' /\ OwnerChoiceStands'
<1> DEFINE Goal ==
         /\ mode' \in Modes /\ chosen' \in Modes /\ choice' \in 0 .. MaxChoices
         /\ dueAt' \in {Undated} \cup Nat /\ stoppedAt' \in {Undated} \cup 0 .. MaxChoices
         /\ current' \subseteq Crons
         /\ RowInv' /\ OwnerChoiceStands'
<1>0. /\ nextCharge \in Nat /\ nextCharge' \in Nat /\ nextCharge' >= nextCharge
      /\ time \in Nat /\ time' \in Nat /\ time' >= time
      /\ dueAt \in {Undated} \cup Nat /\ choice \in 0 .. MaxChoices /\ current \subseteq Crons
      /\ mode \in Modes /\ chosen \in Modes /\ stoppedAt \in {Undated} \cup 0 .. MaxChoices
      /\ RowInv /\ OwnerChoiceStands
  BY DatesAdvance, SubscriptionAssumption DEF SubInv, SubTypeOK
<1>1. CASE UNCHANGED <<mode, dueAt, stoppedAt, choice, chosen>> /\ current' \subseteq Crons
  BY <1>0, <1>1 DEF RowInv, OwnerChoiceStands, Undated
<1>2. CASE Configure
  BY <1>0, <1>2, SubscriptionAssumption
     DEF Configure, CurrentAfterChoice, RowInv, OwnerChoiceStands, Undated
<1>3. ASSUME NEW c \in Crons, Refresh(c), MayRefresh(c) PROVE Goal
  <2>1. /\ run[c].to \in {Undated} \cup Nat /\ run[c].to <= nextCharge
        /\ run[c].under \in 0 .. MaxChoices
        /\ run[c].pc = "stopping" => run[c].under = choice
    BY <1>3 DEF SubInv, SubTypeOK, RunsInv, MayRefresh, Working
  <2>2. dueAt' = run[c].to /\ current' = {} /\ UNCHANGED <<choice, chosen>>
        /\ IF run[c].pc = "stopping" THEN mode' = "MANUAL" /\ stoppedAt' = run[c].under
           ELSE UNCHANGED <<mode, stoppedAt>>
    BY <1>3 DEF Refresh
  <2>3. RowInv'
    BY <1>0, <2>1, <2>2 DEF RowInv, Undated
  <2>4. mode' \in Modes /\ stoppedAt' \in {Undated} \cup 0 .. MaxChoices /\ OwnerChoiceStands'
    BY <1>0, <2>1, <2>2 DEF OwnerChoiceStands, Modes
  <2> QED BY <1>0, <2>1, <2>2, <2>3, <2>4
<1>4. ASSUME NEW c \in Crons, RunNext(c), ~(Refresh(c) /\ MayRefresh(c)) PROVE Goal
  <2>1. UNCHANGED <<mode, dueAt, stoppedAt, choice, chosen>>
    BY <1>4 DEF RunNext, BeginRun, SelectSubscription, ReadState, LandCharge, BelieveTenant,
       CountCharge, RefuseUrl, GiveUp, Reread, Refresh, EndRun, DieInRun, subRow
  <2>2. current' \subseteq current \cup {c}
    BY <1>4, RunSteps DEF RunMove
  <2> QED BY <1>0, <1>1, <2>1, <2>2
<1>5. \/ UNCHANGED <<mode, dueAt, stoppedAt, choice, chosen, current>>
      \/ Configure \/ \E c \in Crons : RunNext(c)
  BY DEF SubNext, OthersCharge, Unsubscribe, Subscribe, Approve, SetRelayer, TimePasses,
     LeaseLapses, subAll, subVars, subRow
<1> HIDE DEF Goal
<1>6. Goal
  <2>1. CASE UNCHANGED <<mode, dueAt, stoppedAt, choice, chosen, current>>
    BY <1>0, <1>1, <2>1 DEF Goal
  <2> QED BY <1>2, <1>3, <1>4, <1>5, <2>1 DEF Goal
<1> QED BY <1>6 DEF Goal

\* ... and of the runs.
LEMMA RunsStay ==
  ASSUME SubInv, [SubNext]_subAll
  PROVE  run' \in [Crons -> Run] /\ RunsInv'
<1>0. /\ nextCharge \in Nat /\ nextCharge' \in Nat /\ nextCharge' >= nextCharge
      /\ run \in [Crons -> Run] /\ RunsInv
  BY DatesAdvance DEF SubInv, SubTypeOK, Run
<1>1. \A c \in Crons : run[c].to \in {Undated} \cup Nat /\ run[c].to <= nextCharge'
  BY <1>0 DEF RunsInv, Run, Undated
<1>2. ASSUME NEW c \in Crons, RunNext(c)
      PROVE  run' \in [Crons -> Run] /\ RunsInv'
  <2>1. RunMove(c)
    BY <1>2, RunSteps
  <2>2. PICK next \in Run :
          /\ run' = [run EXCEPT ![c] = next]
          /\ next.pc \in Catching => next.tries < MaxCatchup
          /\ c \in current' /\ next.pc \in Working => next.under = choice
          /\ next.to <= nextCharge
          /\ next.pc = "stopping" => next.to = Undated
    BY <2>1 DEF RunMove
  <2>3. run' \in [Crons -> Run] /\ run'[c] = next /\ \A d \in Crons \ {c} : run'[d] = run[d]
    BY <1>0, <2>2
  <2>4. next.to <= nextCharge'
    BY <1>0, <2>2 DEF Run, Undated
  <2>5. choice' = choice /\ current' \subseteq current \cup {c}
    BY <2>1 DEF RunMove
  <2> QED BY <1>0, <1>1, <2>2, <2>3, <2>4, <2>5 DEF RunsInv
<1>3. CASE UNCHANGED run /\ (UNCHANGED <<current, choice>> \/ Configure)
  BY <1>0, <1>1, <1>3 DEF RunsInv, Configure, CurrentAfterChoice
<1>4. \/ UNCHANGED run /\ (UNCHANGED <<current, choice>> \/ Configure)
      \/ \E c \in Crons : RunNext(c)
  BY DEF SubNext, OthersCharge, Unsubscribe, Subscribe, Approve, SetRelayer, TimePasses, Configure,
     LeaseLapses, subAll, subVars, subRow
<1> QED BY <1>2, <1>3, <1>4

\* The subscription's inductive invariant, for any runs and any clock.
THEOREM SubscriptionInvariant == SubSpec => []SubInv
<1>1. SubInit => SubInv
  <2> SUFFICES ASSUME SubInit PROVE SubInv
    OBVIOUS
  <2> USE SubscriptionAssumption
  <2>1. CLTypeOK /\ LeaseInv
    BY DEF SubInit, CLInit, CLTypeOK, LeaseInv
  <2>2. AtEase \in Run /\ AtEase.pc = "idle" /\ AtEase.to = Undated
    BY DEF AtEase, Run, RunStates, Modes, Undated
  <2>3. run \in [Crons -> Run] /\ RunsInv
    BY <2>2 DEF SubInit, RunsInv, Catching, Working, Undated
  <2>4. RowInv /\ OwnerChoiceStands
    BY DEF SubInit, RowInv, OwnerChoiceStands
  <2>5. SubTypeOK
    <3>1. /\ time \in 0 .. LastTime /\ nextCharge \in Nat /\ cancelled \in BOOLEAN
          /\ relayer \in Relayers /\ allowance \in 0 .. MaxApproved /\ current \subseteq Crons
      <4>1. cancelled = FALSE /\ nextCharge = FirstCharge
        BY DEF SubInit
      <4>2. cancelled \in BOOLEAN
        BY <4>1
      <4>3. time \in 0 .. LastTime /\ relayer \in Relayers /\ allowance = 0 /\ current = {}
        BY DEF SubInit
      <4> QED BY <4>1, <4>2, <4>3
    <3>2. mode \in Modes /\ chosen \in Modes
      BY DEF SubInit, Modes
    <3>3. choice \in 0 .. MaxChoices /\ stoppedAt \in {Undated} \cup 0 .. MaxChoices
      <4>1. choice = 0
        BY DEF SubInit
      <4>2. stoppedAt = Undated
        BY DEF SubInit
      <4> QED BY <4>1, <4>2
    <3>4. dueAt \in Nat
      <4>1. dueAt = FirstCharge \/ dueAt = time
        BY DEF SubInit
      <4> QED BY <3>1, <4>1
    <3> QED BY <2>1, <2>3, <3>1, <3>2, <3>3, <3>4 DEF SubTypeOK, Run
  <2> QED BY <2>1, <2>3, <2>4, <2>5 DEF SubInv
<1>2. SubInv /\ [SubNext]_subAll => SubInv'
  <2> SUFFICES ASSUME SubInv, [SubNext]_subAll PROVE SubInv'
    OBVIOUS
  <2>1. CLTypeOK' /\ LeaseInv'
    BY LeaseSteps, LeaseStays DEF SubInv, SubTypeOK
  <2>2. run' \in [Crons -> Run] /\ RunsInv'
    BY RunsStay
  <2>3. SubTypeOK'
    BY <2>1, <2>2, RowSteps, DatesAdvance DEF SubTypeOK, Run
  <2> QED BY <2>1, <2>2, <2>3, RowSteps DEF SubInv
<1> QED BY <1>1, <1>2, PTL DEF SubSpec

\* The columns of the row, the contract's storage and the runs are well formed.
THEOREM SubscriptionTypes == SubSpec => []SubTypeOK
<1>1. SubInv => SubTypeOK
  BY DEF SubInv
<1> QED BY <1>1, SubscriptionInvariant, PTL

\* Of two runs of the cron at work under the lease, one has seen it lapse.
THEOREM OneRunHoldsTheLease == SubSpec => []LeaseIsExclusive
<1>1. SubInv => LeaseIsExclusive
  BY DEF SubInv, LeaseInv, LeaseIsExclusive
<1> QED BY <1>1, SubscriptionInvariant, PTL

\* A charge that is due on the ledger is due in the row.
THEOREM DueChargesAreSelected == SubSpec => []DueIsNeverHidden
<1>1. SubInv => DueIsNeverHidden
  BY SubscriptionAssumption DEF SubInv, SubTypeOK, RowInv, DueIsNeverHidden, Undated
<1> QED BY <1>1, SubscriptionInvariant, PTL

\* Only a run that read the owner's last choice switches it off.
THEOREM TheOwnerHasTheLastWord == SubSpec => []OwnerChoiceStands
<1>1. SubInv => OwnerChoiceStands
  BY DEF SubInv
<1> QED BY <1>1, SubscriptionInvariant, PTL

-----------------------------------------------------------------------------
(* The fee budget                                                          *)

\* The row of the budget and those of the hashes.
BudgetRows ==
  /\ limit \in {NoLimit} \cup Limits /\ committed \in Nat
  /\ reserved \subseteq TxHashes
  /\ allowed \in [TxHashes -> SUBSET Spenders]
  /\ limit = NoLimit => committed = 0
  /\ limit # NoLimit => committed <= limit
  /\ \A h \in TxHashes : allowed[h] # {} => h \in reserved
  /\ \A h \in TxHashes : \A s, r \in allowed[h] : s = r

Spending == [pc : {"idle", "reading", "swapping", "done"}, hash : TxHashes, read : Nat,
             tries : 0 .. MaxTries, limit : {NoLimit} \cup Limits]

\* What a run has read was so once: as long as it still is, so is the rest.
Reading(s) ==
  spender[s].pc = "swapping"
    => /\ spender[s].read <= committed
       /\ spender[s].read = committed
            => /\ LimitFor(s) = spender[s].limit
               /\ spender[s].read + Fees[spender[s].hash] <= spender[s].limit

FBInv ==
  /\ BudgetRows
  /\ spender \in [Spenders -> Spending]
  /\ \A s \in Spenders : Reading(s)
  /\ \A s \in Spenders :
       /\ spender[s].pc # "done" => spender[s].tries < MaxTries
       /\ spender[s].pc \in {"reading", "swapping"} => spender[s].limit \in Limits

LEMMA FeesArePositive ==
  ASSUME NEW h \in TxHashes
  PROVE  Fees[h] \in Nat \ {0}
BY FeeBudgetAssumption DEF TxHashes

\* The rows, and where one run goes.
LEMMA SpenderSteps ==
  ASSUME FBInv, NEW s \in Spenders, SpenderNext(s)
  PROVE  FBInv'
<1> DEFINE r == spender[s]
<1>0. /\ r \in Spending /\ r.hash \in TxHashes /\ Fees[r.hash] \in Nat \ {0}
      /\ r.limit \in {NoLimit} \cup Limits /\ r.read \in Nat /\ r.tries \in 0 .. MaxTries
      /\ limit \in {NoLimit} \cup Limits /\ committed \in Nat
      /\ spender \in [Spenders -> Spending] /\ Limits \subseteq Nat \ {0}
      /\ MaxTries \in Nat \ {0} /\ NoLimit = 0 /\ BudgetRows
      /\ r.pc # "done" => r.tries < MaxTries
      /\ r.pc \in {"reading", "swapping"} => r.limit \in Limits
  BY FeesArePositive, FeeBudgetAssumption DEF FBInv, BudgetRows, Spending, NoLimit
<1> HIDE DEF r
<1>1. r = spender[s]
  BY DEF r
\* A run moves and the rows do not.
<1>2. ASSUME UNCHANGED <<limit, committed, reserved, allowed>>, NEW next \in Spending,
             Advance(s, next),
             next.pc # "done" => next.tries < MaxTries,
             next.pc \in {"reading", "swapping"} => next.limit \in Limits,
             next.pc = "swapping" => /\ next.read = committed
                                     /\ limit = NoLimit \/ limit = next.limit
                                     /\ committed + Fees[next.hash] <= next.limit
      PROVE  FBInv'
  <2>1. spender' \in [Spenders -> Spending] /\ spender'[s] = next
        /\ \A q \in Spenders \ {s} : spender'[q] = spender[q]
    BY <1>0, <1>2 DEF Advance
  <2>2. BudgetRows'
    BY <1>0, <1>2 DEF BudgetRows, TxHashes
  <2>3. Reading(s)'
    BY <1>0, <1>2, <2>1 DEF Reading, LimitFor
  <2>4. ASSUME NEW q \in Spenders \ {s} PROVE Reading(q)'
    <3>1. Reading(q) /\ spender'[q] = spender[q]
      BY <2>1 DEF FBInv
    <3> QED BY <1>2, <3>1 DEF Reading, LimitFor
  <2>5. \A q \in Spenders :
          /\ spender'[q].pc # "done" => spender'[q].tries < MaxTries
          /\ spender'[q].pc \in {"reading", "swapping"} => spender'[q].limit \in Limits
    BY <1>2, <2>1 DEF FBInv
  <2> QED BY <2>1, <2>2, <2>3, <2>4, <2>5 DEF FBInv
\* The swap: what was read is still so, and every other reading is old now.
<1>3. ASSUME r.pc = "swapping", Commit(s), Stop(s),
             \/ UNCHANGED allowed
             \/ allowed' = [allowed EXCEPT ![r.hash] = @ \cup {s}]
      PROVE  FBInv'
  <2>1. Reading(s)
    BY DEF FBInv
  <2>2. /\ committed = r.read /\ r.hash \notin reserved /\ limit' = r.limit
        /\ committed' = committed + Fees[r.hash] /\ committed' <= limit'
        /\ reserved' = reserved \cup {r.hash}
    BY <1>0, <1>1, <1>3, <2>1 DEF Commit, Unmoved, Unspent, Reading
  <2>3. limit' \in Limits /\ committed' \in Nat /\ committed' > committed
    BY <1>0, <1>3, <2>2
  <2>4. allowed[r.hash] = {}
    BY <1>0, <2>2 DEF BudgetRows
  <2>5. allowed' \in [TxHashes -> SUBSET Spenders]
    BY <1>0, <1>3 DEF BudgetRows
  <2>6. /\ \A h \in TxHashes : allowed'[h] # {} => h \in reserved'
        /\ \A h \in TxHashes : \A p, q \in allowed'[h] : p = q
    BY <1>0, <1>3, <2>2, <2>4 DEF BudgetRows
  <2>7. BudgetRows'
    BY <1>0, <2>2, <2>3, <2>5, <2>6 DEF BudgetRows, TxHashes
  <2> DEFINE next == [Unasked(r.hash) EXCEPT !.pc = "done"]
  <2>8. next \in Spending /\ next.pc = "done"
    BY <1>0 DEF Spending, Unasked, NoLimit
  <2>9. spender' = [spender EXCEPT ![s] = next]
    BY <1>1, <1>3 DEF Stop, Advance
  <2> HIDE DEF next
  <2>10. spender' \in [Spenders -> Spending] /\ spender'[s] = next
         /\ \A q \in Spenders \ {s} : spender'[q] = spender[q]
    BY <1>0, <2>8, <2>9
  <2>11. \A q \in Spenders : Reading(q)'
    <3>1. Reading(s)'
      BY <2>8, <2>10 DEF Reading
    <3>2. ASSUME NEW q \in Spenders \ {s} PROVE Reading(q)'
      <4>1. Reading(q) /\ spender'[q] = spender[q] /\ spender[q].read \in Nat
        BY <2>10 DEF FBInv, Spending
      <4> QED BY <1>0, <2>3, <4>1 DEF Reading
    <3> QED BY <3>1, <3>2
  <2>12. \A q \in Spenders :
           /\ spender'[q].pc # "done" => spender'[q].tries < MaxTries
           /\ spender'[q].pc \in {"reading", "swapping"} => spender'[q].limit \in Limits
    BY <2>8, <2>10 DEF FBInv
  <2> QED BY <2>7, <2>10, <2>11, <2>12 DEF FBInv
<1>4. ASSUME UNCHANGED <<limit, committed, reserved, allowed>>, Stop(s) PROVE FBInv'
  <2> DEFINE next == [Unasked(r.hash) EXCEPT !.pc = "done"]
  <2>1. next \in Spending /\ next.pc = "done"
    BY <1>0 DEF Spending, Unasked, NoLimit
  <2>2. Advance(s, next)
    BY <1>1, <1>4 DEF Stop
  <2> HIDE DEF next
  <2> QED BY <1>2, <1>4, <2>1, <2>2
<1>5. ASSUME NEW n \in Limits, Ask(s, n) PROVE FBInv'
  <2> DEFINE next == [r EXCEPT !.pc = "reading", !.limit = n]
  <2>1. next \in Spending /\ next.pc = "reading" /\ next.limit = n /\ next.tries = r.tries
    BY <1>0 DEF Spending
  <2>2. r.tries < MaxTries
    BY <1>0, <1>1, <1>5 DEF Ask
  <2>3. Advance(s, next) /\ UNCHANGED <<limit, committed, reserved, allowed>>
    BY <1>1, <1>5 DEF Ask
  <2> HIDE DEF next
  <2> QED BY <1>2, <2>1, <2>2, <2>3
<1>6. CASE ReadBudget(s)
  <2>1. CASE LimitFor(s) = r.limit /\ Covered(s)
    <3> DEFINE next == [r EXCEPT !.pc = "swapping", !.read = committed]
    <3>1. /\ next \in Spending /\ next.pc = "swapping" /\ next.limit = r.limit
          /\ next.tries = r.tries /\ next.read = committed /\ next.hash = r.hash
      BY <1>0 DEF Spending
    <3>2. r.pc = "reading" /\ Advance(s, next) /\ UNCHANGED <<limit, committed, reserved, allowed>>
      BY <1>1, <1>6, <2>1 DEF ReadBudget
    <3>3. (limit = NoLimit \/ limit = r.limit) /\ committed + Fees[r.hash] <= r.limit
      BY <1>1, <2>1 DEF LimitFor, Covered
    <3> HIDE DEF next
    <3> QED BY <1>0, <1>2, <3>1, <3>2, <3>3
  <2>2. CASE ~(LimitFor(s) = r.limit /\ Covered(s))
    BY <1>1, <1>4, <1>6, <2>2 DEF ReadBudget
  <2> QED BY <2>1, <2>2
<1>7. CASE Swap(s) \/ SwapUnanswered(s)
  BY <1>1, <1>3, <1>7 DEF Swap, SwapUnanswered
<1>8. CASE SwapFails(s)
  <2>1. CASE ~Unmoved(s) /\ r.tries + 1 < MaxTries
    <3> DEFINE next == [r EXCEPT !.pc = "reading", !.read = 0, !.tries = r.tries + 1]
    <3>1. r.pc = "swapping" /\ r.tries + 1 \in 0 .. MaxTries
      BY <1>0, <1>1, <1>8, <2>1 DEF SwapFails
    <3>2. /\ next \in Spending /\ next.pc = "reading" /\ next.limit = r.limit
          /\ next.tries = r.tries + 1
      BY <1>0, <3>1 DEF Spending
    <3>3. Advance(s, next) /\ UNCHANGED <<limit, committed, reserved, allowed>>
      BY <1>1, <1>8, <2>1 DEF SwapFails
    <3> HIDE DEF next
    <3> QED BY <1>0, <1>2, <2>1, <3>1, <3>2, <3>3
  <2>2. CASE ~(~Unmoved(s) /\ r.tries + 1 < MaxTries)
    BY <1>1, <1>4, <1>8, <2>2 DEF SwapFails
  <2> QED BY <2>1, <2>2
<1> QED BY <1>5, <1>6, <1>7, <1>8 DEF SpenderNext

\* The budget's inductive invariant, for any spenders, hashes, fees and limits.
THEOREM BudgetInvariant == FBSpec => []FBInv
<1>1. FBInit => FBInv
  <2> SUFFICES ASSUME FBInit PROVE FBInv
    OBVIOUS
  <2>1. BudgetRows
    BY DEF FBInit, BudgetRows
  <2>2. ASSUME NEW h \in TxHashes 
        PROVE  Unasked(h) \in Spending /\ Unasked(h).pc = "idle" /\ Unasked(h).tries = 0
    BY FeeBudgetAssumption DEF Unasked, Spending, NoLimit
  <2>3. PICK f \in [Spenders -> TxHashes] : spender = [s \in Spenders |-> Unasked(f[s])]
    BY DEF FBInit
  <2>4. \A s \in Spenders : /\ spender[s] \in Spending /\ spender[s].pc = "idle"
                            /\ spender[s].tries = 0
    BY <2>2, <2>3
  <2> QED BY <2>1, <2>3, <2>4, FeeBudgetAssumption DEF FBInv, Reading
<1>2. FBInv /\ [FBNext]_fbVars => FBInv'
  <2> SUFFICES ASSUME FBInv, [FBNext]_fbVars PROVE FBInv'
    OBVIOUS
  <2>1. CASE UNCHANGED fbVars
    BY <2>1 DEF fbVars, FBInv, BudgetRows, Reading, LimitFor
  <2> QED BY <2>1, SpenderSteps DEF FBNext
<1> QED BY <1>1, <1>2, PTL DEF FBSpec

\* The budget's row, the reservations and the runs are well formed.
THEOREM BudgetTypes == FBSpec => []FBTypeOK
<1>1. FBInv => FBTypeOK
  BY DEF FBInv, BudgetRows, Spending, FBTypeOK
<1> QED BY <1>1, BudgetInvariant, PTL

\* What is committed is what the reserved hashes cost.
SpentInv == IsFiniteSet(reserved) /\ SumOver(Fees, reserved) = committed

LEMMA CommitAddsItsFee ==
  ASSUME FBInv, SpentInv, NEW s \in Spenders, Commit(s)
  PROVE  SpentInv'
<1> DEFINE h == spender[s].hash
<1>1. h \in TxHashes /\ reserved \subseteq TxHashes /\ h \notin reserved
  BY DEF FBInv, BudgetRows, Spending, Commit, Unspent
<1>2. reserved' = reserved \cup {h} /\ committed' = committed + Fees[h]
  BY DEF Commit, Unmoved
<1> HIDE DEF h
<1>3. \A y \in reserved \cup {h} : Fees[y] \in Int
  BY <1>1, FeesArePositive
<1>4. IsFiniteSet(reserved) /\ SumOver(Fees, reserved) = committed
  BY DEF SpentInv
<1>5. IsFiniteSet(reserved \cup {h})
  BY <1>4, FS_AddElement
<1>6. SumOver(Fees, reserved \cup {h}) = SumOver(Fees, reserved) + Fees[h]
  BY <1>1, <1>3, <1>4, SumOfOneMore
<1> QED BY <1>2, <1>4, <1>5, <1>6 DEF SpentInv

LEMMA SpentSteps ==
  ASSUME FBInv, SpentInv, [FBNext]_fbVars
  PROVE  SpentInv'
<1>1. (\E s \in Spenders : Commit(s)) \/ UNCHANGED <<committed, reserved>>
  BY DEF FBNext, SpenderNext, Ask, ReadBudget, Swap, SwapFails, SwapUnanswered, fbVars
<1> QED BY <1>1, CommitAddsItsFee DEF SpentInv

\* reserveTransactionFee: the row's committed amount is the sum of the fees of the
\* hashes reserved, of which there are finitely many.
THEOREM SpentInvariant == FBSpec => [](FBInv /\ SpentInv)
<1>1. FBInit => SpentInv
  <2> SUFFICES ASSUME FBInit PROVE SpentInv
    OBVIOUS
  <2>1. reserved = {} /\ committed = 0
    BY DEF FBInit
  <2>2. IsFiniteSet({}) /\ SumOver(Fees, {}) = 0
    BY FS_EmptySet, SumOfPicked
  <2> QED BY <2>1, <2>2 DEF SpentInv
<1>2. FBInv /\ SpentInv /\ [FBNext]_fbVars => SpentInv'
  BY SpentSteps
<1> QED BY <1>1, <1>2, BudgetInvariant, PTL DEF FBSpec

\* reserveTransactionFee: however many runs race for what is left, the fees that
\* were reserved add up to what the row says is committed and stay within the
\* limit first approved, and no two runs are told to send one transaction.
THEOREM FeesStayWithinBudget == FBSpec => []ReservedWithinBudget
<1>1. ASSUME FBInv, SpentInv PROVE ReservedWithinBudget
  <2>1. MapThenSumSet(LAMBDA h : Fees[h], reserved) = committed
    BY <1>1 DEF SpentInv, SumOver
  <2>2. /\ committed > 0 => committed <= limit
        /\ \A h \in TxHashes : \A s, r \in allowed[h] : s = r
    BY <1>1 DEF FBInv, BudgetRows
  <2> QED BY <2>1, <2>2 DEF ReservedWithinBudget
<1> QED BY <1>1, SpentInvariant, PTL

\* The transactions some run was told to send.
MaySend == {h \in TxHashes : allowed[h] # {}}

\* reserveTransactionFee: each of these is reserved, and all of them together
\* cost no more than the limit; what a commit nobody heard of has reserved only
\* makes it less.
THEOREM SendersStayWithinLimit ==
  FBSpec => [](MaySend # {} => /\ MaySend \subseteq reserved
                               /\ SumOver(Fees, MaySend) <= limit)
<1>1. ASSUME FBInv, SpentInv, MaySend # {}
      PROVE  MaySend \subseteq reserved /\ SumOver(Fees, MaySend) <= limit
  <2>1. /\ MaySend \subseteq reserved /\ reserved \subseteq TxHashes /\ committed \in Nat
        /\ limit = NoLimit => committed = 0
        /\ limit # NoLimit => committed <= limit
        /\ limit \in {NoLimit} \cup Limits
    BY <1>1 DEF FBInv, BudgetRows, MaySend
  <2>2. IsFiniteSet(reserved) /\ SumOver(Fees, reserved) = committed
    BY <1>1 DEF SpentInv
  <2>3. \A y \in reserved : Fees[y] \in Nat
    BY <2>1, FeesArePositive
  <2>4. SumOver(Fees, MaySend) <= SumOver(Fees, reserved)
    BY <2>1, <2>2, <2>3, SumOfSome
  <2>5. IsFiniteSet(MaySend)
    BY <2>1, <2>2, FS_Subset
  <2>6. SumOver(Fees, MaySend) \in Int
    <3>1. \A y \in MaySend : Fees[y] \in Int
      BY <2>1, <2>3
    <3> QED BY <2>5, <3>1, SumOfPicked
  <2>7. limit \in Nat /\ committed <= limit
    BY <2>1, FeeBudgetAssumption DEF NoLimit
  <2> QED BY <2>1, <2>2, <2>4, <2>6, <2>7
<1>2. FBInv /\ SpentInv => (MaySend # {} => /\ MaySend \subseteq reserved
                                          /\ SumOver(Fees, MaySend) <= limit)
  BY <1>1
<1> QED BY <1>2, SpentInvariant, PTL

\* reserveTransactionFee: a reservation is never given back, and the limit first
\* approved is the limit for good.
THEOREM ReservationsAreForGood ==
  FBSpec => [][/\ reserved \subseteq reserved' /\ committed <= committed'
               /\ limit # NoLimit => limit' = limit]_fbVars
<1>1. ASSUME FBInv, [FBNext]_fbVars
      PROVE  /\ reserved \subseteq reserved' /\ committed <= committed'
             /\ limit # NoLimit => limit' = limit
  <2>1. committed \in Nat
    BY <1>1 DEF FBInv, BudgetRows
  <2>2. ASSUME NEW s \in Spenders, Commit(s)
        PROVE  /\ reserved \subseteq reserved' /\ committed <= committed'
               /\ limit # NoLimit => limit' = limit
    <3>1. spender[s].hash \in TxHashes
      BY <1>1 DEF FBInv, Spending
    <3>2. /\ committed' = committed + Fees[spender[s].hash]
          /\ reserved' = reserved \cup {spender[s].hash}
          /\ limit # NoLimit => limit' = limit
      BY <2>2 DEF Commit, Unmoved, LimitFor
    <3> QED BY <2>1, <3>1, <3>2, FeesArePositive
  <2>3. (\E s \in Spenders : Commit(s)) \/ UNCHANGED <<limit, committed, reserved>>
    BY <1>1 DEF FBNext, SpenderNext, Ask, ReadBudget, Swap, SwapFails, SwapUnanswered, fbVars
  <2> QED BY <2>1, <2>2, <2>3
<1>2. FBInv /\ [FBNext]_fbVars
      => [/\ reserved \subseteq reserved' /\ committed <= committed'
          /\ limit # NoLimit => limit' = limit]_fbVars
  BY <1>1
<1> QED BY <1>2, BudgetInvariant, PTL DEF FBSpec

=============================================================================
