----------------------------- MODULE LedgerProofs -----------------------------
(***************************************************************************)
(* Proofs about the book of a position (Ledger) and about what is computed *)
(* from it (Recon), for any fills, prices, fees and number of them: the    *)
(* columns folded fill by fill say what the fills say, and the realised    *)
(* P&L, the reports and the estimate of a close are the cash that the      *)
(* venues paid.  The hypotheses are the faults that a theorem rules out.   *)
(***************************************************************************)
EXTENDS Recon, FiniteSetTheorems, WellFoundedInduction, TLAPS

-------------------------------------------------------------------------------
(***************************************************************************)
(* Sums.  A sum is a fold over a finite set in an order nobody knows.  The *)
(* prover has no induction for an operator, so each fact is shown of a     *)
(* smallest counterexample.                                                *)
(***************************************************************************)
LessOnNat == {ss \in Nat \X Nat : ss[1] < ss[2]}

LEMMA LessIsWellFounded == IsWellFoundedOn(LessOnNat, Nat)
<1>1. OpToRel(<, Nat) = LessOnNat
  BY DEF OpToRel, LessOnNat
<1> QED
  BY <1>1, NatLessThanWellFounded

LEMMA LeastNatural ==
    ASSUME NEW S, S \subseteq Nat, S # {}
    PROVE  \E x \in S : \A y \in S : x <= y
<1>2. PICK x \in S : \A y \in S : ~ (<<y, x>> \in LessOnNat)
  BY LessIsWellFounded, WFMin
<1>3. ASSUME NEW y \in S PROVE x <= y
  <2>1. y < x => <<y, x>> \in LessOnNat
    BY DEF LessOnNat
  <2> QED
    BY <2>1, <1>2
<1> QED
  BY <1>3

\* Of any subsets of a finite set, one is as small as any.
LEMMA SmallestSubset ==
    ASSUME NEW S, IsFiniteSet(S), NEW bad, bad \subseteq SUBSET S, bad # {}
    PROVE  \E s \in bad : \A x \in s : s \ {x} \notin bad
<1> DEFINE sizes == {Cardinality(s) : s \in bad}
<1>1. \A s \in bad : IsFiniteSet(s) /\ Cardinality(s) \in Nat
  BY FS_Subset, FS_CardinalityType
<1>2. sizes \subseteq Nat /\ sizes # {}
  BY <1>1
<1>3. PICK n \in sizes : \A m \in sizes : n <= m
  <2> HIDE DEF sizes
  <2> QED
    BY <1>2, LeastNatural
<1>4. PICK s \in bad : Cardinality(s) = n
  OBVIOUS
<1>5. ASSUME NEW x \in s, s \ {x} \in bad PROVE FALSE
  <2>1. Cardinality(s \ {x}) = Cardinality(s) - 1
    BY <1>1, FS_RemoveElement
  <2>2. Cardinality(s) <= Cardinality(s \ {x})
    BY <1>3, <1>4, <1>5
  <2> QED
    BY <2>1, <2>2, <1>1, <1>4
<1> QED
  BY <1>5

Picked(s) == CHOOSE x \in s : TRUE
SumStep(g, f, s) == IF s = {} THEN 0 ELSE f[Picked(s)] + g[s \ {Picked(s)}]
SumsOver(g, f, D) == g = [s \in D |-> SumStep(g, f, s)]
UpTo(S, n) == {s \in SUBSET S : Cardinality(s) <= n}

LEMMA PickedIsIn == ASSUME NEW s, s # {} PROVE Picked(s) \in s
  BY DEF Picked

\* One element less.
LEMMA OneLess ==
    ASSUME NEW S, IsFiniteSet(S), NEW n \in Nat, NEW s \in UpTo(S, n), NEW x \in s
    PROVE  n # 0 /\ s \ {x} \in UpTo(S, n - 1)
<1>1. IsFiniteSet(s)
  BY FS_Subset DEF UpTo
<1>2. Cardinality(s \ {x}) = Cardinality(s) - 1 /\ Cardinality(s \ {x}) \in Nat /\ Cardinality(s) \in Nat
  BY <1>1, FS_RemoveElement, FS_CardinalityType, FS_Subset
<1> QED
  BY <1>2 DEF UpTo

LEMMA SumsExist ==
    ASSUME NEW S, IsFiniteSet(S), NEW f
    PROVE  \A n \in Nat : \E g : SumsOver(g, f, UpTo(S, n))
<1> DEFINE bad == {n \in Nat : ~ \E g : SumsOver(g, f, UpTo(S, n))}
<1>1. SUFFICES ASSUME bad # {} PROVE FALSE
  OBVIOUS
<1>2. PICK n \in bad : \A m \in bad : n <= m
  BY <1>1, LeastNatural
<1>3. n \in Nat /\ ~ \E g : SumsOver(g, f, UpTo(S, n))
  OBVIOUS
<1>4. \E g : n # 0 => SumsOver(g, f, UpTo(S, n - 1))
  <2>1. CASE n = 0
    BY <2>1
  <2>2. CASE n # 0
    <3>1. n - 1 \in Nat /\ n - 1 \notin bad
      BY <2>2, <1>2, <1>3
    <3> QED
      BY <3>1
  <2> QED
    BY <2>1, <2>2
<1>5. PICK g : n # 0 => SumsOver(g, f, UpTo(S, n - 1))
  BY <1>4
<1> DEFINE h == [s \in UpTo(S, n) |-> SumStep(g, f, s)]
<1>6. ASSUME NEW s \in UpTo(S, n) PROVE SumStep(g, f, s) = SumStep(h, f, s)
  <2>1. CASE s = {}
    BY <2>1 DEF SumStep
  <2>2. CASE s # {}
    <3> DEFINE t == s \ {Picked(s)}
    <3>1. n # 0 /\ t \in UpTo(S, n - 1)
      BY <2>2, PickedIsIn, OneLess, <1>3
    <3>2. t \in UpTo(S, n)
      BY <3>1, <1>3, FS_CardinalityType, FS_Subset DEF UpTo
    <3>3. g[t] = SumStep(g, f, t)
      BY <3>1, <1>5 DEF SumsOver
    <3>4. h[t] = SumStep(g, f, t)
      BY <3>2
    <3> QED
      BY <2>2, <3>3, <3>4 DEF SumStep
  <2> QED
    BY <2>1, <2>2
<1>7. SumsOver(h, f, UpTo(S, n))
  BY <1>6 DEF SumsOver
<1> QED
  BY <1>7, <1>3

Sums(f, S) == CHOOSE g : SumsOver(g, f, SUBSET S)

LEMMA SumIsItsSums == ASSUME NEW f, NEW S PROVE SumFunctionOnSet(f, S) = Sums(f, S)[S]
  BY DEF SumFunctionOnSet, FoldFunctionOnSet, MapThenFoldSet, Picked, Sums, SumsOver, SumStep

LEMMA SumsSum ==
    ASSUME NEW S, IsFiniteSet(S), NEW f PROVE SumsOver(Sums(f, S), f, SUBSET S)
<1>1. UpTo(S, Cardinality(S)) = SUBSET S
  BY FS_Subset, FS_CardinalityType DEF UpTo
<1>2. PICK g : SumsOver(g, f, UpTo(S, Cardinality(S)))
  BY SumsExist, FS_CardinalityType
<1>3. SumsOver(g, f, SUBSET S)
  BY <1>1, <1>2
<1> QED
  BY <1>3 DEF Sums

\* The sum of f over any set within S, by Sums(f, S).
LEMMA SumsAt ==
    ASSUME NEW S, IsFiniteSet(S), NEW f, NEW s \in SUBSET S
    PROVE  Sums(f, S)[s] = IF s = {} THEN 0 ELSE f[Picked(s)] + Sums(f, S)[s \ {Picked(s)}]
<1>1. SumsOver(Sums(f, S), f, SUBSET S)
  BY SumsSum
<1> DEFINE g == Sums(f, S)
<1>2. g = [t \in SUBSET S |-> SumStep(g, f, t)]
  BY <1>1 DEF SumsOver
<1>3. g[s] = SumStep(g, f, s)
  <2> HIDE DEF g
  <2> QED
    BY <1>2
<1> QED
  BY <1>3 DEF SumStep

LEMMA SumsAreInt ==
    ASSUME NEW S, IsFiniteSet(S), NEW f, \A x \in S : f[x] \in Int
    PROVE  \A s \in SUBSET S : Sums(f, S)[s] \in Int
<1> DEFINE bad == {s \in SUBSET S : Sums(f, S)[s] \notin Int}
<1>1. SUFFICES ASSUME bad # {} PROVE FALSE
  OBVIOUS
<1>2. PICK s \in bad : \A x \in s : s \ {x} \notin bad
  <2> HIDE DEF bad
  <2>1. bad \subseteq SUBSET S
    BY DEF bad
  <2> QED
    BY <1>1, <2>1, SmallestSubset
<1>3. s # {}
  <2>1. Sums(f, S)[{}] = 0
    BY SumsAt
  <2> QED
    BY <2>1
<1>4. Sums(f, S)[s] = f[Picked(s)] + Sums(f, S)[s \ {Picked(s)}]
  BY <1>3, SumsAt
<1>5. Sums(f, S)[s \ {Picked(s)}] \in Int
  BY <1>2, <1>3, PickedIsIn
<1> QED
  BY <1>3, <1>4, <1>5, PickedIsIn

\* Any element of a set may be taken first.
LEMMA SumsTakeAny ==
    ASSUME NEW S, IsFiniteSet(S), NEW f, \A x \in S : f[x] \in Int
    PROVE  \A s \in SUBSET S : \A x \in s : Sums(f, S)[s] = f[x] + Sums(f, S)[s \ {x}]
<1> DEFINE g == Sums(f, S)
           bad == {s \in SUBSET S : \E x \in s : g[s] # f[x] + g[s \ {x}]}
<1>i. \A s \in SUBSET S : g[s] \in Int
  BY SumsAreInt
<1>u. ASSUME NEW s \in SUBSET S, s # {} PROVE g[s] = f[Picked(s)] + g[s \ {Picked(s)}]
  BY <1>u, SumsAt
<1> HIDE DEF g
<1>1. SUFFICES ASSUME bad # {} PROVE FALSE
  BY DEF g
<1>2. PICK s \in bad : \A x \in s : s \ {x} \notin bad
  <2> HIDE DEF bad
  <2>1. bad \subseteq SUBSET S
    BY DEF bad
  <2> QED
    BY <1>1, <2>1, SmallestSubset
<1>3. PICK x \in s : g[s] # f[x] + g[s \ {x}]
  OBVIOUS
<1> DEFINE c == Picked(s)
<1>4. c \in s /\ g[s] = f[c] + g[s \ {c}]
  BY <1>u, PickedIsIn
<1> HIDE DEF c
<1>5. c # x
  BY <1>3, <1>4
<1>6. g[s \ {c}] = f[x] + g[(s \ {c}) \ {x}]
  BY <1>2, <1>4, <1>5
<1>7. g[s \ {x}] = f[c] + g[(s \ {x}) \ {c}]
  BY <1>2, <1>4, <1>5
<1>8. (s \ {c}) \ {x} = (s \ {x}) \ {c}
  OBVIOUS
<1>9. f[c] \in Int /\ f[x] \in Int /\ g[(s \ {c}) \ {x}] \in Int
  BY <1>i, <1>4
<1> DEFINE rest == g[(s \ {c}) \ {x}]
<1>10. g[s] = f[c] + (f[x] + rest) /\ g[s \ {x}] = f[c] + rest /\ rest \in Int
  BY <1>4, <1>6, <1>7, <1>8, <1>9
<1> HIDE DEF rest
<1>11. g[s] = f[x] + g[s \ {x}]
  BY <1>9, <1>10
<1> QED
  BY <1>3, <1>11

\* The sum over a part does not depend on the whole, nor on f elsewhere.
LEMMA SumsAgree ==
    ASSUME NEW S, IsFiniteSet(S), NEW f, NEW T, IsFiniteSet(T), NEW h,
           NEW r, r \subseteq S, r \subseteq T, \A x \in r : f[x] = h[x]
    PROVE  \A s \in SUBSET r : Sums(f, S)[s] = Sums(h, T)[s]
<1> DEFINE bad == {s \in SUBSET r : Sums(f, S)[s] # Sums(h, T)[s]}
<1>1. SUFFICES ASSUME bad # {} PROVE FALSE
  OBVIOUS
<1>r. IsFiniteSet(r)
  BY FS_Subset
<1>2. PICK s \in bad : \A x \in s : s \ {x} \notin bad
  <2> HIDE DEF bad
  <2>1. bad \subseteq SUBSET r
    BY DEF bad
  <2> QED
    BY <1>1, <1>r, <2>1, SmallestSubset
<1>3. s # {}
  BY SumsAt
<1>4. Sums(f, S)[s] = f[Picked(s)] + Sums(f, S)[s \ {Picked(s)}]
  BY <1>3, SumsAt
<1>5. Sums(h, T)[s] = h[Picked(s)] + Sums(h, T)[s \ {Picked(s)}]
  BY <1>3, SumsAt
<1>6. Sums(f, S)[s \ {Picked(s)}] = Sums(h, T)[s \ {Picked(s)}]
  BY <1>2, <1>3, PickedIsIn
<1> QED
  BY <1>3, <1>4, <1>5, <1>6, PickedIsIn

LEMMA SumIsInt ==
    ASSUME NEW S, IsFiniteSet(S), NEW f, \A x \in S : f[x] \in Int
    PROVE  SumFunctionOnSet(f, S) \in Int
  BY SumsAreInt, SumIsItsSums

LEMMA SumOfNone == ASSUME NEW f PROVE SumFunctionOnSet(f, {}) = 0
  BY FS_EmptySet, SumsAt, SumIsItsSums

LEMMA SumTakesAny ==
    ASSUME NEW S, IsFiniteSet(S), NEW f, \A y \in S : f[y] \in Int, NEW x \in S
    PROVE  SumFunctionOnSet(f, S) = f[x] + SumFunctionOnSet(f, S \ {x})
<1>1. Sums(f, S)[S] = f[x] + Sums(f, S)[S \ {x}]
  BY SumsTakeAny
<1>2. Sums(f, S)[S \ {x}] = Sums(f, S \ {x})[S \ {x}]
  <2>1. IsFiniteSet(S \ {x})
    BY FS_RemoveElement
  <2> DEFINE T == S \ {x}
  <2>2. T \subseteq S /\ IsFiniteSet(T)
    BY <2>1
  <2> HIDE DEF T
  <2>3. \A s \in SUBSET T : Sums(f, S)[s] = Sums(f, T)[s]
    <3>1. T \subseteq T /\ \A z \in T : f[z] = f[z]
      OBVIOUS
    <3> QED
      BY <2>2, <3>1, SumsAgree, SMTT(60)
  <2>4. Sums(f, S)[T] = Sums(f, T)[T]
    BY <2>3
  <2> QED
    BY <2>4 DEF T
<1> QED
  BY <1>1, <1>2, SumIsItsSums

LEMMA SumsAlike ==
    ASSUME NEW S, IsFiniteSet(S), NEW f, NEW h, \A x \in S : f[x] = h[x]
    PROVE  SumFunctionOnSet(f, S) = SumFunctionOnSet(h, S)
  BY SumsAgree, SumIsItsSums

\* A sum of sums, of multiples ...
LEMMA SumOfSums ==
    ASSUME NEW S, IsFiniteSet(S), NEW f, NEW g, NEW h,
           \A x \in S : f[x] \in Int /\ g[x] \in Int /\ h[x] = f[x] + g[x]
    PROVE  SumFunctionOnSet(h, S) = SumFunctionOnSet(f, S) + SumFunctionOnSet(g, S)
<1> DEFINE bad == {s \in SUBSET S : SumFunctionOnSet(h, s) # SumFunctionOnSet(f, s) + SumFunctionOnSet(g, s)}
<1>1. SUFFICES ASSUME bad # {} PROVE FALSE
  OBVIOUS
<1>2. PICK s \in bad : \A x \in s : s \ {x} \notin bad
  <2> HIDE DEF bad
  <2>1. bad \subseteq SUBSET S
    BY DEF bad
  <2> QED
    BY <1>1, <2>1, SmallestSubset
<1>3. PICK x \in s : TRUE
  <2>1. CASE s = {}
    BY <2>1, SumOfNone
  <2> QED
    BY <2>1
<1>4. IsFiniteSet(s) /\ IsFiniteSet(s \ {x})
  BY FS_Subset
<1> DEFINE t == s \ {x}
<1>5. SumFunctionOnSet(h, t) = SumFunctionOnSet(f, t) + SumFunctionOnSet(g, t)
  BY <1>2
<1>6. SumFunctionOnSet(h, s) = h[x] + SumFunctionOnSet(h, t)
  BY <1>4, SumTakesAny
<1>7. SumFunctionOnSet(f, s) = f[x] + SumFunctionOnSet(f, t)
  BY <1>4, SumTakesAny
<1>8. SumFunctionOnSet(g, s) = g[x] + SumFunctionOnSet(g, t)
  BY <1>4, SumTakesAny
<1>9. SumFunctionOnSet(f, t) \in Int /\ SumFunctionOnSet(g, t) \in Int
  BY <1>4, SumIsInt
<1> HIDE DEF t
<1>10. SumFunctionOnSet(h, s) = SumFunctionOnSet(f, s) + SumFunctionOnSet(g, s)
  BY <1>5, <1>6, <1>7, <1>8, <1>9
<1> QED
  BY <1>10

-------------------------------------------------------------------------------
(***************************************************************************)
(* The walk over the fills: a fold from the first to the last.             *)
(***************************************************************************)

\* The greatest of the first n naturals, and of some of them.
LEMMA GreatestOfSome ==
    ASSUME NEW n \in Nat, NEW s, s \subseteq 1..n, s # {}
    PROVE  Max(s) \in s /\ \A y \in s : Max(s) >= y
<1> DEFINE low == {n - y : y \in s}
<1>1. low \subseteq Nat /\ low # {}
  <2>1. ASSUME NEW y \in s PROVE n - y \in Nat
    OBVIOUS
  <2> QED
    BY <2>1
<1>2. PICK d \in low : \A e \in low : d <= e
  <2> HIDE DEF low
  <2> QED
    BY <1>1, LeastNatural
<1>3. PICK x \in s : d = n - x
  OBVIOUS
<1>4. \A y \in s : n - y \in low /\ y \in Int
  OBVIOUS
<1>5. \A y \in s : x >= y
  <2> HIDE DEF low
  <2> QED
    BY <1>2, <1>3, <1>4
<1> QED
  BY <1>5 DEF Max

LEMMA GreatestOfAll == ASSUME NEW n \in Nat, n # 0 PROVE Max(1..n) = n
<1>1. n \in 1..n /\ 1..n # {}
  OBVIOUS
<1>2. Max(1..n) \in 1..n /\ Max(1..n) >= n
  BY <1>1, GreatestOfSome
<1> QED
  BY <1>2

LegWalk(w, f, l) == IF f.leg = l THEN Walk(w, f) ELSE w
WalkStep(g, tab, l, s) ==
    IF s = {} THEN NoWalk ELSE LegWalk(g[s \ {Max(s)}], tab[Max(s)], l)
WalksOver(g, tab, l, D) == g = [s \in D |-> WalkStep(g, tab, l, s)]
Walks(tab, l) == CHOOSE g : WalksOver(g, tab, l, SUBSET DOMAIN tab)
WalkedTo(tab, l, n) == Walks(tab, l)[1..n]

LEMMA WalkedIsItsWalks == ASSUME NEW tab, NEW l PROVE Walked(tab, l) = Walks(tab, l)[DOMAIN tab]
  BY DEF Walked, FoldLeft, MapThenFoldSet, Walks, WalksOver, WalkStep, LegWalk

LEMMA WalksExist ==
    ASSUME NEW k \in Nat, NEW tab, NEW l
    PROVE  \A n \in Nat : \E g : WalksOver(g, tab, l, UpTo(1..k, n))
<1> DEFINE bad == {n \in Nat : ~ \E g : WalksOver(g, tab, l, UpTo(1..k, n))}
<1>1. SUFFICES ASSUME bad # {} PROVE FALSE
  OBVIOUS
<1>2. PICK n \in bad : \A m \in bad : n <= m
  BY <1>1, LeastNatural
<1>3. n \in Nat /\ ~ \E g : WalksOver(g, tab, l, UpTo(1..k, n))
  OBVIOUS
<1>4. \E g : n # 0 => WalksOver(g, tab, l, UpTo(1..k, n - 1))
  <2>1. CASE n = 0
    BY <2>1
  <2>2. CASE n # 0
    <3>1. n - 1 \in Nat /\ n - 1 \notin bad
      BY <2>2, <1>2, <1>3
    <3> QED
      BY <3>1
  <2> QED
    BY <2>1, <2>2
<1>5. PICK g : n # 0 => WalksOver(g, tab, l, UpTo(1..k, n - 1))
  BY <1>4
<1>f. IsFiniteSet(1..k)
  BY FS_Interval
<1> DEFINE h == [s \in UpTo(1..k, n) |-> WalkStep(g, tab, l, s)]
<1>6. ASSUME NEW s \in UpTo(1..k, n) PROVE WalkStep(g, tab, l, s) = WalkStep(h, tab, l, s)
  <2>1. CASE s = {}
    BY <2>1 DEF WalkStep
  <2>2. CASE s # {}
    <3> DEFINE t == s \ {Max(s)}
    <3>m. s \subseteq 1..k /\ Max(s) \in s
      BY <2>2, GreatestOfSome DEF UpTo
    <3>1. n # 0 /\ t \in UpTo(1..k, n - 1)
      BY <1>f, <3>m, OneLess, <1>3
    <3>2. t \in UpTo(1..k, n)
      BY <1>f, <3>1, <1>3, FS_CardinalityType, FS_Subset DEF UpTo
    <3>3. g[t] = WalkStep(g, tab, l, t)
      BY <3>1, <1>5 DEF WalksOver
    <3>4. h[t] = WalkStep(g, tab, l, t)
      BY <3>2
    <3> QED
      BY <2>2, <3>3, <3>4 DEF WalkStep
  <2> QED
    BY <2>1, <2>2
<1>7. WalksOver(h, tab, l, UpTo(1..k, n))
  BY <1>6 DEF WalksOver
<1> QED
  BY <1>7, <1>3

\* The walk over any of the fills takes the last of them last.
LEMMA WalksAt ==
    ASSUME NEW T, NEW tab \in Seq(T), NEW l, NEW s \in SUBSET DOMAIN tab
    PROVE  Walks(tab, l)[s] = WalkStep(Walks(tab, l), tab, l, s)
<1> DEFINE k == Len(tab)
           g == Walks(tab, l)
<1>1. k \in Nat /\ DOMAIN tab = 1..k
  OBVIOUS
<1> HIDE DEF k
<1>2. IsFiniteSet(1..k) /\ Cardinality(1..k) \in Nat
  BY <1>1, FS_Interval, FS_CardinalityType
<1>3. UpTo(1..k, Cardinality(1..k)) = SUBSET (1..k)
  BY <1>2, FS_Subset, FS_CardinalityType DEF UpTo
<1>4. PICK f : WalksOver(f, tab, l, UpTo(1..k, Cardinality(1..k)))
  BY <1>1, <1>2, WalksExist
<1>5. WalksOver(f, tab, l, SUBSET DOMAIN tab)
  BY <1>1, <1>3, <1>4
<1>6. WalksOver(g, tab, l, SUBSET DOMAIN tab)
  BY <1>5 DEF Walks
<1> HIDE DEF g
<1>7. g = [t \in SUBSET DOMAIN tab |-> WalkStep(g, tab, l, t)]
  BY <1>6 DEF WalksOver
<1>8. g[s] = WalkStep(g, tab, l, s)
  BY <1>7
<1> QED
  BY <1>8 DEF g

\* The walk, one fill after the other.
LEMMA WalkedToStep ==
    ASSUME NEW T, NEW tab \in Seq(T), NEW l
    PROVE  /\ WalkedTo(tab, l, 0) = NoWalk
           /\ \A n \in 1..Len(tab) :
                 WalkedTo(tab, l, n) = LegWalk(WalkedTo(tab, l, n - 1), tab[n], l)
           /\ Walked(tab, l) = WalkedTo(tab, l, Len(tab))
<1>1. WalkedTo(tab, l, 0) = NoWalk
  <2>1. 1..0 = {} /\ {} \in SUBSET DOMAIN tab
    OBVIOUS
  <2>2. Walks(tab, l)[{}] = NoWalk
    BY <2>1, WalksAt DEF WalkStep
  <2> QED
    BY <2>1, <2>2 DEF WalkedTo
<1>2. ASSUME NEW n \in 1..Len(tab)
      PROVE  WalkedTo(tab, l, n) = LegWalk(WalkedTo(tab, l, n - 1), tab[n], l)
  <2>1. 1..n \in SUBSET DOMAIN tab /\ 1..n # {} /\ n \in Nat /\ n # 0
    <3>1. Len(tab) \in Nat /\ DOMAIN tab = 1..Len(tab)
      OBVIOUS
    <3> DEFINE k == Len(tab)
    <3> HIDE DEF k
    <3>2. n \in Nat /\ n # 0 /\ n <= k /\ k \in Nat
      BY <3>1 DEF k
    <3>3. 1..n \subseteq 1..k /\ n \in 1..n
      BY <3>2
    <3> QED
      BY <3>1, <3>2, <3>3 DEF k
  <2>2. Max(1..n) = n
    BY <2>1, GreatestOfAll
  <2>3. (1..n) \ {n} = 1..n - 1
    OBVIOUS
  <2>4. Walks(tab, l)[1..n] = WalkStep(Walks(tab, l), tab, l, 1..n)
    BY <2>1, WalksAt
  <2> QED
    BY <2>1, <2>2, <2>3, <2>4 DEF WalkStep, WalkedTo
<1>3. Walked(tab, l) = WalkedTo(tab, l, Len(tab))
  BY WalkedIsItsWalks DEF WalkedTo
<1> QED
  BY <1>1, <1>2, <1>3

\* It depends on the fills it has seen and no others.
LEMMA WalksAgree ==
    ASSUME NEW T, NEW tab \in Seq(T), NEW tab2 \in Seq(T), NEW l,
           NEW k \in 0..Len(tab), k <= Len(tab2), \A i \in 1..k : tab[i] = tab2[i]
    PROVE  WalkedTo(tab, l, k) = WalkedTo(tab2, l, k)
<1> DEFINE bad == {n \in 0..k : WalkedTo(tab, l, n) # WalkedTo(tab2, l, n)}
<1>1. SUFFICES ASSUME bad # {} PROVE FALSE
  OBVIOUS
<1>2. PICK n \in bad : \A m \in bad : n <= m
  <2>1. bad \subseteq Nat
    OBVIOUS
  <2> HIDE DEF bad
  <2> QED
    BY <1>1, <2>1, LeastNatural
<1>3. n # 0
  BY WalkedToStep
<1>4. n - 1 \in 0..k /\ n - 1 \notin bad
  BY <1>2, <1>3
<1>p. n \in 1..Len(tab) /\ n \in 1..Len(tab2) /\ n \in 1..k
  BY <1>3
<1>5. WalkedTo(tab, l, n) = LegWalk(WalkedTo(tab, l, n - 1), tab[n], l)
  BY <1>p, WalkedToStep
<1>6. WalkedTo(tab2, l, n) = LegWalk(WalkedTo(tab2, l, n - 1), tab2[n], l)
  BY <1>p, WalkedToStep
<1> QED
  BY <1>p, <1>4, <1>5, <1>6

\* One fill more.
LEMMA WalkedAppend ==
    ASSUME NEW T, NEW tab \in Seq(T), NEW f \in T, NEW l
    PROVE  Walked(Append(tab, f), l) = LegWalk(Walked(tab, l), f, l)
<1> DEFINE more == Append(tab, f)
           n == Len(tab)
<1>1. /\ more \in Seq(T) /\ Len(more) = n + 1 /\ n \in Nat /\ more[n + 1] = f
      /\ \A i \in 1..n : more[i] = tab[i]
  OBVIOUS
<1> HIDE DEF more, n
<1>2. Walked(more, l) = WalkedTo(more, l, n + 1)
  BY <1>1, WalkedToStep
<1>3. WalkedTo(more, l, n + 1) = LegWalk(WalkedTo(more, l, n), f, l)
  BY <1>1, WalkedToStep
<1>4. WalkedTo(more, l, n) = WalkedTo(tab, l, n)
  BY <1>1, WalksAgree DEF n
<1>5. Walked(tab, l) = WalkedTo(tab, l, n)
  BY WalkedToStep DEF n
<1> QED
  BY <1>2, <1>3, <1>4, <1>5 DEF more

-------------------------------------------------------------------------------
(***************************************************************************)
(* Quantities and money of some orders.                                    *)
(***************************************************************************)

LEMMA FunctionSum ==
    ASSUME NEW f, IsFiniteSet(DOMAIN f), \A y \in DOMAIN f : f[y] \in Int
    PROVE  /\ SumFunction(f) \in Int
           /\ DOMAIN f = {} => SumFunction(f) = 0
           /\ \A x \in DOMAIN f :
                 SumFunction(f) = f[x] + SumFunction([y \in DOMAIN f \ {x} |-> f[y]])
<1>1. SumFunction(f) = SumFunctionOnSet(f, DOMAIN f)
  BY DEF SumFunction
<1>2. SumFunction(f) \in Int
  BY <1>1, SumIsInt
<1>3. DOMAIN f = {} => SumFunction(f) = 0
  BY <1>1, SumOfNone
<1>4. ASSUME NEW x \in DOMAIN f
      PROVE  SumFunction(f) = f[x] + SumFunction([y \in DOMAIN f \ {x} |-> f[y]])
  <2> DEFINE T == DOMAIN f \ {x}
             h == [y \in T |-> f[y]]
  <2>1. IsFiniteSet(T)
    BY FS_RemoveElement
  <2>2. SumFunctionOnSet(f, DOMAIN f) = f[x] + SumFunctionOnSet(f, T)
    BY SumTakesAny
  <2>3. DOMAIN h = T /\ \A y \in T : f[y] = h[y]
    OBVIOUS
  <2> HIDE DEF h, T
  <2>4. SumFunctionOnSet(f, T) = SumFunctionOnSet(h, T)
    BY <2>1, <2>3, SumsAlike
  <2>5. SumFunction(h) = SumFunctionOnSet(h, T)
    BY <2>3 DEF SumFunction
  <2> QED
    BY <1>1, <2>2, <2>4, <2>5 DEF h, T
<1> QED
  BY <1>2, <1>3, <1>4

\* What QtyOf sums ...
LEMMA QtyOfTakesAny ==
    ASSUME NEW S, IsFiniteSet(S), NEW tab, \A i \in S : tab[i].qty \in Int
    PROVE  /\ QtyOf(tab, S) \in Int
           /\ S = {} => QtyOf(tab, S) = 0
           /\ \A x \in S : QtyOf(tab, S) = tab[x].qty + QtyOf(tab, S \ {x})
<1> DEFINE f == [i \in S |-> tab[i].qty]
<1>1. DOMAIN f = S /\ (\A i \in S : f[i] = tab[i].qty /\ f[i] \in Int)
  OBVIOUS
<1>2. QtyOf(tab, S) = SumFunction(f)
  BY DEF QtyOf
<1>3. ASSUME NEW x \in S PROVE QtyOf(tab, S \ {x}) = SumFunction([y \in S \ {x} |-> f[y]])
  <2>1. [y \in S \ {x} |-> f[y]] = [y \in S \ {x} |-> tab[y].qty]
    OBVIOUS
  <2> QED
    BY <2>1 DEF QtyOf
<1> HIDE DEF f
<1>4. /\ SumFunction(f) \in Int
      /\ S = {} => SumFunction(f) = 0
      /\ \A x \in S : SumFunction(f) = f[x] + SumFunction([y \in S \ {x} |-> f[y]])
  BY <1>1, FunctionSum
<1> QED
  BY <1>1, <1>2, <1>3, <1>4

\* ... and CostOf and WorthOf.
LEMMA CostOfTakesAny ==
    ASSUME NEW S, IsFiniteSet(S), NEW tab, \A i \in S : tab[i].qty * tab[i].px \in Int
    PROVE  /\ CostOf(tab, S) \in Int
           /\ S = {} => CostOf(tab, S) = 0
           /\ \A x \in S : CostOf(tab, S) = tab[x].qty * tab[x].px + CostOf(tab, S \ {x})
<1> DEFINE f == [i \in S |-> tab[i].qty * tab[i].px]
<1>1. DOMAIN f = S /\ (\A i \in S : f[i] = tab[i].qty * tab[i].px /\ f[i] \in Int)
  OBVIOUS
<1>2. CostOf(tab, S) = SumFunction(f)
  BY DEF CostOf
<1>3. ASSUME NEW x \in S PROVE CostOf(tab, S \ {x}) = SumFunction([y \in S \ {x} |-> f[y]])
  <2>1. [y \in S \ {x} |-> f[y]] = [y \in S \ {x} |-> tab[y].qty * tab[y].px]
    OBVIOUS
  <2> QED
    BY <2>1 DEF CostOf
<1> HIDE DEF f
<1>4. /\ SumFunction(f) \in Int
      /\ S = {} => SumFunction(f) = 0
      /\ \A x \in S : SumFunction(f) = f[x] + SumFunction([y \in S \ {x} |-> f[y]])
  BY <1>1, FunctionSum
<1> QED
  BY <1>1, <1>2, <1>3, <1>4

\* Only the quantities, the money, of the orders summed matter.
LEMMA QtyOfAlike ==
    ASSUME NEW S, NEW tab, NEW tab2, \A i \in S : tab[i].qty = tab2[i].qty
    PROVE  QtyOf(tab, S) = QtyOf(tab2, S)
<1>1. [i \in S |-> tab[i].qty] = [i \in S |-> tab2[i].qty]
  OBVIOUS
<1> QED
  BY <1>1 DEF QtyOf

LEMMA CostOfAlike ==
    ASSUME NEW S, NEW tab, NEW tab2, \A i \in S : tab[i].qty * tab[i].px = tab2[i].qty * tab2[i].px
    PROVE  CostOf(tab, S) = CostOf(tab2, S)
<1>1. [i \in S |-> tab[i].qty * tab[i].px] = [i \in S |-> tab2[i].qty * tab2[i].px]
  OBVIOUS
<1> QED
  BY <1>1 DEF CostOf

Lot == [qty : Nat, px : Int]

\* A sequence of lots with one more.
LEMMA LotsAppend ==
    ASSUME NEW open \in Seq(Lot), NEW lot \in Lot
    PROVE  /\ QtyOf(Append(open, lot), DOMAIN Append(open, lot))
                  = QtyOf(open, DOMAIN open) + lot.qty
           /\ CostOf(Append(open, lot), DOMAIN Append(open, lot))
                  = CostOf(open, DOMAIN open) + lot.qty * lot.px
<1> DEFINE more == Append(open, lot)
           n == Len(open)
<1>1. /\ more \in Seq(Lot) /\ n \in Nat /\ DOMAIN more = 1..n + 1 /\ DOMAIN open = 1..n
      /\ more[n + 1] = lot /\ \A i \in 1..n : more[i] = open[i]
  OBVIOUS
<1>t. \A i \in 1..n + 1 : more[i].qty \in Int /\ more[i].px \in Int /\ more[i].qty * more[i].px \in Int
  <2>1. \A i \in 1..n + 1 : more[i] \in Lot
    BY <1>1
  <2> HIDE DEF more, n
  <2> QED
    BY <2>1 DEF Lot
<1>f. IsFiniteSet(1..n + 1)
  BY <1>1, FS_Interval
<1> HIDE DEF more, n
<1>2. (1..n + 1) \ {n + 1} = 1..n /\ n + 1 \in 1..n + 1
  BY <1>1
<1>3. QtyOf(more, 1..n + 1) = more[n + 1].qty + QtyOf(more, (1..n + 1) \ {n + 1})
  BY <1>t, <1>f, <1>2, QtyOfTakesAny
<1>4. CostOf(more, 1..n + 1)
          = more[n + 1].qty * more[n + 1].px + CostOf(more, (1..n + 1) \ {n + 1})
  BY <1>t, <1>f, <1>2, CostOfTakesAny
<1>5. QtyOf(more, 1..n) = QtyOf(open, 1..n)
  BY <1>1, QtyOfAlike
<1>6. CostOf(more, 1..n) = CostOf(open, 1..n)
  BY <1>1, CostOfAlike
<1>7. IsFiniteSet(1..n) /\ \A i \in 1..n : open[i].qty \in Int /\ open[i].qty * open[i].px \in Int
  <2>1. IsFiniteSet(1..n)
    BY <1>1, FS_Interval
  <2>2. ASSUME NEW i \in 1..n PROVE open[i].qty \in Int /\ open[i].qty * open[i].px \in Int
    <3>1. i \in 1..n + 1 /\ more[i] = open[i]
      BY <1>1
    <3>2. more[i].qty \in Int /\ more[i].qty * more[i].px \in Int
      BY <3>1, <1>t
    <3> QED
      BY <3>1, <3>2, Zenon
  <2> QED
    BY <2>1, <2>2
<1>8. QtyOf(open, 1..n) \in Int /\ CostOf(open, 1..n) \in Int
  BY <1>7, QtyOfTakesAny, CostOfTakesAny
<1>9. lot.qty \in Int /\ lot.qty * lot.px \in Int
  BY DEF Lot
<1>q. QtyOf(more, 1..n + 1) = lot.qty + QtyOf(open, 1..n)
  BY <1>1, <1>2, <1>3, <1>5, Zenon
<1>c. CostOf(more, 1..n + 1) = lot.qty * lot.px + CostOf(open, 1..n)
  BY <1>1, <1>2, <1>4, <1>6, Zenon
<1>10. QtyOf(more, 1..n + 1) = QtyOf(open, 1..n) + lot.qty
  BY <1>q, <1>8, <1>9
<1>11. CostOf(more, 1..n + 1) = CostOf(open, 1..n) + lot.qty * lot.px
  BY <1>c, <1>8, <1>9
<1> QED
  BY <1>1, <1>10, <1>11 DEF more, n

\* The smaller and the larger of two, as the unwinds use them.
LEMMA Clipped ==
    ASSUME NEW a \in Nat, NEW b \in Int
    PROVE  Max({0, Min({a, b})}) = IF b <= 0 THEN 0 ELSE IF a <= b THEN a ELSE b
<1>1. Min({a, b}) = IF a <= b THEN a ELSE b
  BY DEF Min
<1>2. ASSUME NEW m \in Int PROVE Max({0, m}) = IF m <= 0 THEN 0 ELSE m
  BY DEF Max
<1>3. (IF a <= b THEN a ELSE b) \in Int
  OBVIOUS
<1> QED
  BY <1>1, <1>2, <1>3

\* An unwind takes of each entry no more than there is, and in all what it wants or all.
LEMMA TakenIsEnough ==
    ASSUME NEW open \in Seq(Lot), NEW q \in Nat
    PROVE  /\ DOMAIN Taken(open, q) = DOMAIN open
           /\ \A i \in DOMAIN open : Taken(open, q)[i] \in 0..open[i].qty
           /\ SumFunction(Taken(open, q)) =
                  IF q <= QtyOf(open, DOMAIN open) THEN q ELSE QtyOf(open, DOMAIN open)
<1> DEFINE t == Taken(open, q)
           n == Len(open)
           R(k) == SumFunctionOnSet(t, k..n)
           S(k) == QtyOf(open, k..n)
<1>1. n \in Nat /\ DOMAIN open = 1..n /\ DOMAIN t = 1..n
  BY DEF Taken
<1>2. ASSUME NEW i \in 1..n PROVE open[i].qty \in Nat
  <2>1. open[i] \in Lot
    BY <1>1
  <2> QED
    BY <2>1 DEF Lot
<1>3. ASSUME NEW k \in 1..n + 1 PROVE S(k) \in Int /\ IsFiniteSet(k..n) /\ k..n \subseteq 1..n
  <2>1. IsFiniteSet(k..n)
    BY <1>1, FS_Interval
  <2>2. k..n \subseteq 1..n
    BY <1>1
  <2>3. \A i \in k..n : open[i].qty \in Int
    BY <2>2, <1>2
  <2> QED
    BY <2>1, <2>2, <2>3, QtyOfTakesAny
<1>4. ASSUME NEW i \in 1..n
      PROVE  t[i] = IF q - S(i + 1) <= 0 THEN 0
                    ELSE IF open[i].qty <= q - S(i + 1) THEN open[i].qty ELSE q - S(i + 1)
  <2>1. t[i] = Max({0, Min({open[i].qty, q - S(i + 1)})})
    BY <1>1 DEF Taken
  <2>2. i + 1 \in 1..n + 1
    BY <1>1
  <2>3. q - S(i + 1) \in Int
    BY <2>2, <1>3
  <2> HIDE DEF S, t
  <2> QED
    BY <2>1, <2>3, <1>2, Clipped
<1>5. \A i \in 1..n : t[i] \in 0..open[i].qty /\ t[i] \in Int
  <2> SUFFICES ASSUME NEW i \in 1..n PROVE t[i] \in 0..open[i].qty
    OBVIOUS
  <2>1. i + 1 \in 1..n + 1
    BY <1>1
  <2>2. S(i + 1) \in Int
    BY <2>1, <1>3
  <2> HIDE DEF S, t
  <2> QED
    BY <2>2, <1>2, <1>4
<1> DEFINE bad == {j \in 0..n : R(n + 1 - j) # IF q <= S(n + 1 - j) THEN q ELSE S(n + 1 - j)}
<1>6. bad = {}
  <2> SUFFICES ASSUME bad # {} PROVE FALSE
    OBVIOUS
  <2>1. PICK j \in bad : \A m \in bad : j <= m
    <3>1. bad \subseteq Nat
      OBVIOUS
    <3> HIDE DEF bad
    <3> QED
      BY <3>1, LeastNatural
  <2> DEFINE k == n + 1 - j
  <2>2. k \in 1..n + 1 /\ k \in Int
    BY <1>1
  <2>3. R(k) # IF q <= S(k) THEN q ELSE S(k)
    OBVIOUS
  <2>4. CASE j = 0
    <3>1. k..n = {}
      BY <1>1, <2>4
    <3>2. R(k) = 0 /\ S(k) = 0
      BY <3>1, <1>3, <2>2, SumOfNone, QtyOfTakesAny
    <3> QED
      BY <3>2, <2>3
  <2>5. CASE j # 0
    <3>1. /\ j - 1 \in 0..n /\ k \in 1..n /\ k + 1 \in 1..n + 1 /\ k \in k..n
          /\ (k..n) \ {k} = k + 1 .. n
      BY <1>1, <2>5, <2>2
    <3>2. j - 1 \notin bad
      BY <2>1, <3>1
    <3>3. R(k + 1) = IF q <= S(k + 1) THEN q ELSE S(k + 1)
      <4>1. n + 1 - (j - 1) = k + 1
        BY <1>1, <3>1
      <4> HIDE DEF k, R, S
      <4> QED
        BY <3>1, <3>2, <4>1
    <3>4. R(k) = t[k] + R(k + 1)
      <4>1. \A y \in k..n : t[y] \in Int
        BY <1>3, <1>5, <2>2
      <4>2. SumFunctionOnSet(t, k..n) = t[k] + SumFunctionOnSet(t, (k..n) \ {k})
        BY <1>3, <2>2, <3>1, <4>1, SumTakesAny
      <4> QED
        BY <3>1, <4>2
    <3>5. S(k) = open[k].qty + S(k + 1)
      <4>1. \A y \in k..n : open[y].qty \in Int
        BY <1>3, <1>2, <2>2
      <4>2. QtyOf(open, k..n) = open[k].qty + QtyOf(open, (k..n) \ {k})
        BY <1>3, <2>2, <3>1, <4>1, QtyOfTakesAny
      <4> QED
        BY <3>1, <4>2
    <3>6. open[k].qty \in Nat /\ S(k + 1) \in Int
      BY <1>2, <1>3, <3>1
    <3>7. t[k] = IF q - S(k + 1) <= 0 THEN 0
                 ELSE IF open[k].qty <= q - S(k + 1) THEN open[k].qty ELSE q - S(k + 1)
      BY <1>4, <3>1
    <3> DEFINE r == R(k)
               r1 == R(k + 1)
               u == S(k)
               u1 == S(k + 1)
               c == t[k]
               a == open[k].qty
    <3>8. /\ r1 = IF q <= u1 THEN q ELSE u1
          /\ r = c + r1 /\ u = a + u1 /\ a \in Nat /\ u1 \in Int
          /\ c = IF q - u1 <= 0 THEN 0 ELSE IF a <= q - u1 THEN a ELSE q - u1
          /\ r # IF q <= u THEN q ELSE u
      BY <2>3, <3>3, <3>4, <3>5, <3>6, <3>7
    <3> HIDE DEF r, r1, u, u1, c, a
    <3> QED
      BY <3>8
  <2> QED
    BY <2>4, <2>5
<1>7. R(1) = IF q <= S(1) THEN q ELSE S(1)
  <2>1. n \in 0..n /\ n \notin bad /\ n + 1 - n = 1
    BY <1>1, <1>6
  <2> HIDE DEF R, S
  <2> QED
    BY <2>1
<1> QED
  BY <1>1, <1>5, <1>7 DEF SumFunction

\* What an unwind leaves and what it takes make up what there was.
LEMMA UnwindKeepsMoney ==
    ASSUME NEW open \in Seq(Lot), NEW taken, DOMAIN taken = DOMAIN open,
           \A i \in DOMAIN open : taken[i] \in 0..open[i].qty,
           NEW left,
           left = [i \in DOMAIN open |-> [qty |-> open[i].qty - taken[i], px |-> open[i].px]]
    PROVE  /\ left \in Seq(Lot) /\ DOMAIN left = DOMAIN open
           /\ SumFunction(taken) \in Int /\ WorthOf(open, taken) \in Int
           /\ QtyOf(open, DOMAIN open) = QtyOf(left, DOMAIN left) + SumFunction(taken)
           /\ CostOf(open, DOMAIN open) = CostOf(left, DOMAIN left) + WorthOf(open, taken)
<1> DEFINE n == Len(open)
<1>1. n \in Nat /\ DOMAIN open = 1..n /\ \A i \in 1..n : open[i] \in Lot
  OBVIOUS
<1> HIDE DEF n
<1>2. ASSUME NEW i \in 1..n
      PROVE  /\ open[i].qty \in Nat /\ open[i].px \in Int /\ taken[i] \in Nat
             /\ left[i].qty = open[i].qty - taken[i] /\ left[i].px = open[i].px
             /\ left[i].qty \in Nat /\ left[i] \in Lot
  <2>1. open[i] \in Lot
    BY <1>1
  <2>2. open[i].qty \in Nat /\ open[i].px \in Int
    BY <2>1 DEF Lot
  <2>3. taken[i] \in 0..open[i].qty
    BY <1>1
  <2>5. left[i] = [qty |-> open[i].qty - taken[i], px |-> open[i].px]
    BY <1>1
  <2> QED
    BY <2>2, <2>3, <2>5 DEF Lot
<1>3. left \in Seq(Lot) /\ DOMAIN left = 1..n
  <2>1. DOMAIN left = 1..n /\ left = [i \in 1..n |-> left[i]]
    BY <1>1
  <2>2. left \in [1..n -> Lot]
    BY <2>1, <1>2
  <2> QED
    BY <1>1, <2>1, <2>2
<1>f. IsFiniteSet(1..n)
  BY <1>1, FS_Interval
<1> DEFINE hq == [i \in 1..n |-> open[i].qty]
           fq == [i \in 1..n |-> left[i].qty]
           hc == [i \in 1..n |-> open[i].qty * open[i].px]
           fc == [i \in 1..n |-> left[i].qty * left[i].px]
           gc == [i \in 1..n |-> taken[i] * open[i].px]
<1>4. /\ QtyOf(open, 1..n) = SumFunctionOnSet(hq, 1..n)
      /\ QtyOf(left, 1..n) = SumFunctionOnSet(fq, 1..n)
      /\ CostOf(open, 1..n) = SumFunctionOnSet(hc, 1..n)
      /\ CostOf(left, 1..n) = SumFunctionOnSet(fc, 1..n)
      /\ WorthOf(open, taken) = SumFunctionOnSet(gc, 1..n)
      /\ SumFunction(taken) = SumFunctionOnSet(taken, 1..n)
  BY <1>1 DEF QtyOf, CostOf, WorthOf, SumFunction
<1>i. \A i \in 1..n : /\ open[i].qty \in Nat /\ open[i].px \in Int /\ taken[i] \in Nat
                      /\ left[i].qty = open[i].qty - taken[i] /\ left[i].px = open[i].px
  BY <1>2
<1>v. \A i \in 1..n : /\ hq[i] = open[i].qty /\ fq[i] = left[i].qty
                      /\ hc[i] = open[i].qty * open[i].px /\ fc[i] = left[i].qty * left[i].px
                      /\ gc[i] = taken[i] * open[i].px
  OBVIOUS
<1> HIDE DEF hq, fq, hc, fc, gc
<1>5. \A i \in 1..n : fq[i] \in Int /\ taken[i] \in Int /\ hq[i] = fq[i] + taken[i]
  <2> SUFFICES ASSUME NEW i \in 1..n
               PROVE  fq[i] \in Int /\ taken[i] \in Int /\ hq[i] = fq[i] + taken[i]
    OBVIOUS
  <2>1. hq[i] = open[i].qty /\ fq[i] = open[i].qty - taken[i]
    BY <1>1, <1>i, <1>v
  <2>2. open[i].qty \in Int /\ taken[i] \in Int
    BY <1>1, <1>i
  <2> QED
    BY <2>1, <2>2
<1>6. \A i \in 1..n : fc[i] \in Int /\ gc[i] \in Int /\ hc[i] = fc[i] + gc[i]
  <2> SUFFICES ASSUME NEW i \in 1..n PROVE fc[i] \in Int /\ gc[i] \in Int /\ hc[i] = fc[i] + gc[i]
    OBVIOUS
  <2> DEFINE a == open[i].qty
             b == open[i].px
             c == taken[i]
  <2>1. a \in Int /\ b \in Int /\ c \in Int
    <3>1. a \in Nat /\ b \in Int /\ c \in Nat
      BY <1>i, Zenon
    <3> HIDE DEF a, b, c
    <3> QED
      BY <3>1
  <2>2. fc[i] = (a - c) * b /\ gc[i] = c * b /\ hc[i] = a * b
    BY <1>1, <1>i, <1>v
  <2> HIDE DEF a, b, c
  <2>3. (a - c) * b \in Int /\ c * b \in Int /\ a * b = (a - c) * b + c * b
    BY <2>1
  <2> QED
    BY <2>2, <2>3
<1>7. /\ SumFunctionOnSet(hq, 1..n) = SumFunctionOnSet(fq, 1..n) + SumFunctionOnSet(taken, 1..n)
      /\ SumFunctionOnSet(hc, 1..n) = SumFunctionOnSet(fc, 1..n) + SumFunctionOnSet(gc, 1..n)
  BY <1>f, <1>5, <1>6, SumOfSums
<1>8. SumFunctionOnSet(taken, 1..n) \in Int /\ SumFunctionOnSet(gc, 1..n) \in Int
  BY <1>f, <1>5, <1>6, SumIsInt
<1> QED
  BY <1>1, <1>3, <1>4, <1>7, <1>8

-------------------------------------------------------------------------------
(***************************************************************************)
(* What one fill does to the walk.                                         *)
(***************************************************************************)

Phase == {"entry", "exit", "unwind"}
Fill == [leg : Leg, phase : Phase, qty : Nat \ {0}, px : Int, synth : BOOLEAN]
WalkState ==
    {w \in [open : Seq(Lot), back : Int, over : Nat, undo : Int, out : Nat, got : Int] :
        w.out = 0 => w.got = 0}

\* What the entries left make up, and what they cost.
Held(w) == QtyOf(w.open, DOMAIN w.open)
Spent(w) == CostOf(w.open, DOMAIN w.open)

LEMMA ProductIsInt == ASSUME NEW a \in Nat, NEW b \in Int PROVE a * b \in Int
  OBVIOUS

LEMMA LotsSum ==
    ASSUME NEW open \in Seq(Lot)
    PROVE  /\ QtyOf(open, DOMAIN open) \in Nat /\ CostOf(open, DOMAIN open) \in Int
           /\ QtyOf(open, DOMAIN open) = 0 => CostOf(open, DOMAIN open) = 0
           /\ \A s \in SUBSET DOMAIN open : QtyOf(open, s) \in Nat
<1> DEFINE n == Len(open)
<1>1. n \in Nat /\ DOMAIN open = 1..n /\ \A i \in 1..n : open[i] \in Lot
  OBVIOUS
<1> HIDE DEF n
<1>2. \A i \in 1..n : open[i].qty \in Nat /\ open[i].px \in Int
  BY <1>1 DEF Lot
<1>3. \A i \in 1..n : open[i].qty \in Int /\ open[i].qty * open[i].px \in Int
  <2> SUFFICES ASSUME NEW i \in 1..n
               PROVE  open[i].qty \in Int /\ open[i].qty * open[i].px \in Int
    OBVIOUS
  <2>1. open[i].qty \in Nat /\ open[i].px \in Int
    BY <1>1, <1>2
  <2> QED
    BY <2>1, ProductIsInt
<1>f. IsFiniteSet(1..n)
  BY <1>1, FS_Interval
<1> DEFINE good(s) == QtyOf(open, s) \in Nat /\ (QtyOf(open, s) = 0 => CostOf(open, s) = 0)
           bad == {s \in SUBSET (1..n) : ~ good(s)}
<1>4. bad = {}
  <2> SUFFICES ASSUME bad # {} PROVE FALSE
    OBVIOUS
  <2>1. PICK s \in bad : \A x \in s : s \ {x} \notin bad
    <3>1. bad \subseteq SUBSET (1..n)
      OBVIOUS
    <3> HIDE DEF bad
    <3> QED
      BY <3>1, <1>f, SmallestSubset
  <2>2. IsFiniteSet(s) /\ \A i \in s : open[i].qty \in Int /\ open[i].qty * open[i].px \in Int
    BY <1>f, <1>3, FS_Subset
  <2>3. CASE s = {}
    BY <2>2, <2>3, QtyOfTakesAny, CostOfTakesAny
  <2>4. CASE s # {}
    <3>1. PICK x \in s : TRUE
      BY <2>4
    <3> DEFINE r == s \ {x}
    <3>2. good(r)
      <4>1. r \in SUBSET (1..n) /\ r \notin bad
        BY <2>1
      <4> QED
        BY <4>1
    <3>3. QtyOf(open, s) = open[x].qty + QtyOf(open, r)
      BY <2>2, QtyOfTakesAny
    <3>4. CostOf(open, s) = open[x].qty * open[x].px + CostOf(open, r)
      BY <2>2, CostOfTakesAny
    <3>5. open[x].qty \in Nat /\ open[x].px \in Int
      BY <1>2
    <3>6. QtyOf(open, s) \in Nat
      BY <3>2, <3>3, <3>5
    <3>7. QtyOf(open, s) = 0 => CostOf(open, s) = 0
      <4> SUFFICES ASSUME QtyOf(open, s) = 0 PROVE CostOf(open, s) = 0
        OBVIOUS
      <4>1. open[x].qty = 0 /\ QtyOf(open, r) = 0
        BY <3>2, <3>3, <3>5
      <4>2. CostOf(open, s) = 0 * open[x].px + 0
        BY <3>2, <3>4, <4>1
      <4> QED
        BY <4>2, <3>5
    <3> QED
      BY <3>6, <3>7
  <2> QED
    BY <2>3, <2>4
<1>5. good(1..n) /\ \A s \in SUBSET (1..n) : good(s)
  BY <1>4
<1>6. CostOf(open, 1..n) \in Int
  BY <1>f, <1>3, CostOfTakesAny
<1> QED
  BY <1>1, <1>5, <1>6

LEMMA EntryWalk ==
    ASSUME NEW w \in WalkState, NEW f \in Fill, f.phase = "entry"
    PROVE  /\ Walk(w, f) \in WalkState
           /\ Held(Walk(w, f)) = Held(w) + f.qty
           /\ Spent(Walk(w, f)) = Spent(w) + f.qty * f.px
           /\ Walk(w, f) = [w EXCEPT !.open = Walk(w, f).open]
<1> DEFINE lot == [qty |-> f.qty, px |-> f.px]
           open == Append(w.open, lot)
<1>1. lot \in Lot /\ w.open \in Seq(Lot) /\ open \in Seq(Lot)
  <2>1. lot \in Lot
    BY DEF Lot, Fill
  <2>2. w.open \in Seq(Lot)
    BY DEF WalkState
  <2> QED
    BY <2>1, <2>2
<1>2. Walk(w, f) = [w EXCEPT !.open = open]
  BY DEF Walk
<1> HIDE DEF open
<1>3. Walk(w, f).open = open /\ Walk(w, f) \in WalkState
  BY <1>1, <1>2 DEF WalkState
<1>4. /\ QtyOf(open, DOMAIN open) = QtyOf(w.open, DOMAIN w.open) + f.qty
      /\ CostOf(open, DOMAIN open) = CostOf(w.open, DOMAIN w.open) + f.qty * f.px
  <2>1. lot.qty = f.qty /\ lot.px = f.px
    OBVIOUS
  <2> HIDE DEF lot
  <2> QED
    BY <1>1, <2>1, LotsAppend DEF open
<1> QED
  BY <1>2, <1>3, <1>4 DEF Held, Spent

LEMMA ExitWalk ==
    ASSUME NEW w \in WalkState, NEW f \in Fill, f.phase = "exit"
    PROVE  /\ Walk(w, f) \in WalkState
           /\ Walk(w, f) = [w EXCEPT !.out = w.out + f.qty, !.got = w.got + f.qty * f.px]
<1>1. Walk(w, f) = [w EXCEPT !.out = w.out + f.qty, !.got = w.got + f.qty * f.px]
  BY DEF Walk
<1>2. w.out + f.qty \in Nat /\ w.got + f.qty * f.px \in Int
  <2>1. w.out \in Nat /\ w.got \in Int /\ f.qty \in Nat /\ f.px \in Int
    BY DEF WalkState, Fill
  <2>2. f.qty * f.px \in Int
    BY <2>1, ProductIsInt
  <2> QED
    BY <2>1, <2>2
<1>3. w.out + f.qty # 0
  BY DEF WalkState, Fill
<1> DEFINE out == w.out + f.qty
           got == w.got + f.qty * f.px
<1>4. Walk(w, f) = [w EXCEPT !.out = out, !.got = got] /\ out \in Nat /\ got \in Int /\ out # 0
  BY <1>1, <1>2, <1>3
<1> HIDE DEF out, got
<1>5. Walk(w, f) \in WalkState
  BY <1>4 DEF WalkState
<1> QED
  BY <1>1, <1>5

\* An unwind of no more than is held takes just that, and turns its cost into what
\* it reverses.
LEMMA UnwindWalk ==
    ASSUME NEW w \in WalkState, NEW f \in Fill, f.phase = "unwind"
    PROVE  /\ Walk(w, f) \in WalkState
           /\ f.qty <= Held(w) =>
                  Held(Walk(w, f)) = Held(w) - f.qty /\ Walk(w, f).over = w.over
           /\ Spent(Walk(w, f)) + Walk(w, f).back = Spent(w) + w.back
           /\ Walk(w, f).undo = w.undo + f.qty * f.px
           /\ Walk(w, f).out = w.out /\ Walk(w, f).got = w.got
<1> DEFINE open == w.open
           taken == Taken(open, f.qty)
           left == [i \in DOMAIN open |-> [qty |-> open[i].qty - taken[i], px |-> open[i].px]]
           got == SumFunction(taken)
           worth == WorthOf(open, taken)
<1>1. open \in Seq(Lot) /\ f.qty \in Nat /\ f.px \in Int
  BY DEF WalkState, Fill
<1>2. /\ DOMAIN taken = DOMAIN open
      /\ \A i \in DOMAIN open : taken[i] \in 0..open[i].qty
      /\ got = IF f.qty <= QtyOf(open, DOMAIN open) THEN f.qty ELSE QtyOf(open, DOMAIN open)
  BY <1>1, TakenIsEnough
<1>l. \A i \in DOMAIN open : open[i] \in Lot
  BY <1>1
<1>3. left = [i \in DOMAIN open |-> [open[i] EXCEPT !.qty = open[i].qty - taken[i]]]
  <2>1. ASSUME NEW i \in DOMAIN open
        PROVE  [open[i] EXCEPT !.qty = open[i].qty - taken[i]]
                   = [qty |-> open[i].qty - taken[i], px |-> open[i].px]
    BY <1>l DEF Lot
  <2> QED
    BY <2>1
<1>4. Walk(w, f) = [w EXCEPT !.open = left, !.back = w.back + worth,
                             !.over = w.over + f.qty - got, !.undo = w.undo + f.qty * f.px]
  <2> DEFINE u == Unwinds(w, f.qty, taken)
  <2>1. u = [w EXCEPT !.open = left, !.back = w.back + worth, !.over = w.over + f.qty - got]
    <3>1. Less(w.open, taken) = left
      BY <1>3 DEF Less
    <3> HIDE DEF left, taken
    <3> QED
      BY <3>1 DEF Unwinds
  <2>2. Walk(w, f) = [u EXCEPT !.undo = u.undo + f.qty * f.px]
    BY DEF Walk
  <2>3. u.undo = w.undo
    <3> HIDE DEF u, left, taken, worth, got, open
    <3> QED
      BY <2>1 DEF WalkState
  <2> HIDE DEF u, left, taken, worth, got, open
  <2> QED
    BY <2>1, <2>2, <2>3 DEF WalkState
<1>5. /\ left \in Seq(Lot) /\ DOMAIN left = DOMAIN open
      /\ got \in Int /\ worth \in Int
      /\ QtyOf(open, DOMAIN open) = QtyOf(left, DOMAIN left) + got
      /\ CostOf(open, DOMAIN open) = CostOf(left, DOMAIN left) + worth
  <2> HIDE DEF open, taken
  <2> QED
    BY <1>1, <1>2, UnwindKeepsMoney
<1> HIDE DEF left, got, worth, taken
<1>6. QtyOf(open, DOMAIN open) \in Nat /\ CostOf(left, DOMAIN left) \in Int
      /\ QtyOf(left, DOMAIN left) \in Nat
  BY <1>1, <1>5, LotsSum
<1>7. /\ w.back \in Int /\ w.over \in Nat /\ w.undo \in Int /\ f.qty * f.px \in Int
  <2>1. w.back \in Int /\ w.over \in Nat /\ w.undo \in Int
    BY DEF WalkState
  <2> QED
    BY <1>1, <2>1, ProductIsInt
<1>8. w.back + worth \in Int /\ w.over + f.qty - got \in Nat /\ w.undo + f.qty * f.px \in Int
  <2>1. got <= f.qty
    BY <1>1, <1>2, <1>6
  <2>2. w.over + f.qty - got \in Nat
    BY <1>1, <1>5, <1>7, <2>1
  <2>3. w.back + worth \in Int /\ w.undo + f.qty * f.px \in Int
    BY <1>5, <1>7
  <2> QED
    BY <2>2, <2>3
<1> DEFINE over == w.over + f.qty - got
           undo == w.undo + f.qty * f.px
           back == w.back + worth
<1>9. Walk(w, f) = [w EXCEPT !.open = left, !.back = back, !.over = over, !.undo = undo]
  BY <1>4
<1>10. back \in Int /\ over \in Nat /\ undo \in Int
  BY <1>8
<1> HIDE DEF over, undo, back
<1>11. /\ Walk(w, f) \in WalkState
       /\ Walk(w, f).open = left /\ Walk(w, f).back = back /\ Walk(w, f).over = over
       /\ Walk(w, f).undo = undo /\ Walk(w, f).out = w.out /\ Walk(w, f).got = w.got
  BY <1>5, <1>9, <1>10 DEF WalkState
<1>12. Held(Walk(w, f)) = QtyOf(left, DOMAIN left) /\ Spent(Walk(w, f)) = CostOf(left, DOMAIN left)
       /\ Held(w) = QtyOf(open, DOMAIN open) /\ Spent(w) = CostOf(open, DOMAIN open)
  BY <1>11 DEF Held, Spent
<1>13. f.qty <= Held(w) => Held(Walk(w, f)) = Held(w) - f.qty /\ over = w.over
  <2> SUFFICES ASSUME f.qty <= Held(w)
               PROVE  Held(Walk(w, f)) = Held(w) - f.qty /\ over = w.over
    OBVIOUS
  <2>1. got = f.qty
    BY <1>2, <1>12
  <2>2. over = w.over
    BY <1>1, <1>7, <2>1 DEF over
  <2>3. Held(Walk(w, f)) = Held(w) - f.qty
    BY <1>1, <1>5, <1>6, <1>12, <2>1
  <2> QED
    BY <2>2, <2>3
<1>14. Spent(Walk(w, f)) + back = Spent(w) + w.back
  BY <1>5, <1>6, <1>7, <1>12 DEF back
<1> QED
  BY <1>11, <1>13, <1>14 DEF undo

-------------------------------------------------------------------------------
(***************************************************************************)
(* What the fills say, fill by fill.                                       *)
(***************************************************************************)

LEMMA LegWalkType ==
    ASSUME NEW w \in WalkState, NEW f \in Fill, NEW l PROVE LegWalk(w, f, l) \in WalkState
<1>1. f.phase \in Phase
  BY DEF Fill
<1> QED
  BY <1>1, EntryWalk, ExitWalk, UnwindWalk DEF LegWalk, Phase

LEMMA NoWalkType == NoWalk \in WalkState /\ Held(NoWalk) = 0 /\ Spent(NoWalk) = 0
<1>1. NoWalk \in WalkState /\ NoWalk.open = << >>
  BY DEF NoWalk, WalkState
<1>2. DOMAIN NoWalk.open = {}
  BY <1>1
<1> QED
  BY <1>1, <1>2, FS_EmptySet, QtyOfTakesAny, CostOfTakesAny DEF Held, Spent

LEMMA WalkedType ==
    ASSUME NEW tab \in Seq(Fill), NEW l
    PROVE  Walked(tab, l) \in WalkState
<1> DEFINE k == Len(tab)
           bad == {n \in 0..k : WalkedTo(tab, l, n) \notin WalkState}
<1>k. k \in Nat /\ \A n \in 1..k : tab[n] \in Fill
  OBVIOUS
<1>1. bad = {}
  <2> SUFFICES ASSUME bad # {} PROVE FALSE
    OBVIOUS
  <2>2. PICK n \in bad : \A m \in bad : n <= m
    <3>1. bad \subseteq Nat
      OBVIOUS
    <3> HIDE DEF bad
    <3> QED
      BY <3>1, LeastNatural
  <2>3. n # 0
    BY WalkedToStep, NoWalkType
  <2>4. n - 1 \in 0..k /\ n - 1 \notin bad /\ n \in 1..k
    BY <2>2, <2>3, <1>k
  <2>5. WalkedTo(tab, l, n) = LegWalk(WalkedTo(tab, l, n - 1), tab[n], l)
    BY <2>4, WalkedToStep
  <2> QED
    BY <2>4, <2>5, <1>k, LegWalkType
<1>2. k \notin bad /\ k \in 0..k
  BY <1>1, <1>k
<1> QED
  BY <1>2, WalkedToStep

\* Two walks over fills that differ in their prices only.
Alike(w, v) ==
    /\ DOMAIN w.open = DOMAIN v.open
    /\ \A i \in DOMAIN w.open : w.open[i].qty = v.open[i].qty
    /\ w.over = v.over /\ w.out = v.out

LEMMA AlikeWalk ==
    ASSUME NEW w \in WalkState, NEW v \in WalkState, Alike(w, v), NEW f \in Fill, NEW g \in Fill,
           f.leg = g.leg, f.phase = g.phase, f.qty = g.qty, NEW l
    PROVE  Alike(LegWalk(w, f, l), LegWalk(v, g, l))
<1> DEFINE n == Len(w.open)
<1>o. w.open \in Seq(Lot) /\ v.open \in Seq(Lot)
  BY DEF WalkState
<1>n. n \in Nat /\ DOMAIN w.open = 1..n /\ DOMAIN v.open = 1..n /\ Len(v.open) = n
  BY <1>o DEF Alike
<1> HIDE DEF n
<1>1. CASE f.leg # l
  BY <1>1 DEF LegWalk
<1>2. CASE f.leg = l /\ f.phase = "entry"
  <2> DEFINE a == [qty |-> f.qty, px |-> f.px]
             b == [qty |-> g.qty, px |-> g.px]
  <2>1. LegWalk(w, f, l) = [w EXCEPT !.open = Append(w.open, a)]
    BY <1>2 DEF LegWalk, Walk
  <2>2. LegWalk(v, g, l) = [v EXCEPT !.open = Append(v.open, b)]
    BY <1>2 DEF LegWalk, Walk
  <2>3. a.qty = b.qty /\ a \in Lot /\ b \in Lot
    BY DEF Lot, Fill
  <2> HIDE DEF a, b
  <2>4. /\ DOMAIN Append(w.open, a) = 1..n + 1 /\ DOMAIN Append(v.open, b) = 1..n + 1
        /\ \A i \in 1..n + 1 : /\ Append(w.open, a)[i] = IF i = n + 1 THEN a ELSE w.open[i]
                               /\ Append(v.open, b)[i] = IF i = n + 1 THEN b ELSE v.open[i]
    BY <1>o, <1>n, <2>3
  <2>5. \A i \in 1..n + 1 : Append(w.open, a)[i].qty = Append(v.open, b)[i].qty
    BY <1>n, <2>3, <2>4 DEF Alike
  <2> QED
    BY <2>1, <2>2, <2>4, <2>5 DEF Alike, WalkState
<1>3. CASE f.leg = l /\ f.phase = "exit"
  BY <1>3 DEF LegWalk, Walk, Alike, WalkState
<1>4. CASE f.leg = l /\ f.phase = "unwind"
  <2> DEFINE q == f.qty
             t == Taken(w.open, q)
             r == Taken(v.open, q)
  <2>1. t = r
    <3>1. ASSUME NEW i \in 1..n PROVE QtyOf(w.open, i + 1 .. n) = QtyOf(v.open, i + 1 .. n)
      <4>1. \A j \in i + 1 .. n : j \in 1..n
        BY <1>n
      <4>2. \A j \in i + 1 .. n : w.open[j].qty = v.open[j].qty
        BY <4>1, <1>n DEF Alike
      <4> QED
        BY <4>2, QtyOfAlike
    <3>2. \A i \in 1..n : w.open[i].qty = v.open[i].qty
      BY <1>n DEF Alike
    <3> QED
      BY <3>1, <3>2, <1>n DEF Taken, n
  <2>2. /\ LegWalk(w, f, l).open = Less(w.open, t) /\ LegWalk(v, g, l).open = Less(v.open, t)
        /\ LegWalk(w, f, l).over = w.over + q - SumFunction(t)
        /\ LegWalk(v, g, l).over = v.over + q - SumFunction(t)
        /\ LegWalk(w, f, l).out = w.out /\ LegWalk(v, g, l).out = v.out
    <3> HIDE DEF t, r
    <3>1. t = Taken(w.open, f.qty) /\ t = Taken(v.open, g.qty) /\ q = f.qty /\ q = g.qty
      BY <2>1 DEF t, r
    <3>2. LegWalk(w, f, l) = [Unwinds(w, q, t) EXCEPT !.undo = @ + f.qty * f.px]
      BY <1>4, <3>1 DEF LegWalk, Walk
    <3>3. LegWalk(v, g, l) = [Unwinds(v, q, t) EXCEPT !.undo = @ + g.qty * g.px]
      BY <1>4, <3>1 DEF LegWalk, Walk
    <3>4. /\ Unwinds(w, q, t).open = Less(w.open, t)
          /\ Unwinds(w, q, t).over = w.over + q - SumFunction(t) /\ Unwinds(w, q, t).out = w.out
          /\ DOMAIN Unwinds(w, q, t) = DOMAIN w
      BY DEF Unwinds, WalkState
    <3>5. /\ Unwinds(v, q, t).open = Less(v.open, t)
          /\ Unwinds(v, q, t).over = v.over + q - SumFunction(t) /\ Unwinds(v, q, t).out = v.out
          /\ DOMAIN Unwinds(v, q, t) = DOMAIN v
      BY DEF Unwinds, WalkState
    <3> HIDE DEF q
    <3> QED
      BY <3>2, <3>3, <3>4, <3>5
  <2>3. /\ DOMAIN Less(w.open, t) = 1..n /\ DOMAIN Less(v.open, t) = 1..n
        /\ \A i \in 1..n : /\ Less(w.open, t)[i].qty = w.open[i].qty - t[i]
                           /\ Less(v.open, t)[i].qty = v.open[i].qty - t[i]
    <3> HIDE DEF t
    <3>1. \A i \in 1..n : w.open[i] \in Lot /\ v.open[i] \in Lot
      BY <1>o, <1>n
    <3> QED
      BY <1>n, <3>1 DEF Less, Lot
  <2> HIDE DEF t, q
  <2>4. \A i \in 1..n : w.open[i].qty = v.open[i].qty
    BY <1>n DEF Alike
  <2> QED
    BY <2>2, <2>3, <2>4 DEF Alike
<1>5. f.phase \in Phase
  BY DEF Fill
<1> QED
  BY <1>1, <1>2, <1>3, <1>4, <1>5 DEF Phase

LEMMA WalkedAlike ==
    ASSUME NEW tab \in Seq(Fill), NEW tab2 \in Seq(Fill), Len(tab) = Len(tab2),
           \A i \in 1..Len(tab) : /\ tab[i].leg = tab2[i].leg /\ tab[i].phase = tab2[i].phase
                                  /\ tab[i].qty = tab2[i].qty,
           NEW l
    PROVE  Alike(Walked(tab, l), Walked(tab2, l))
<1> DEFINE k == Len(tab)
           good(n) == /\ WalkedTo(tab, l, n) \in WalkState /\ WalkedTo(tab2, l, n) \in WalkState
                      /\ Alike(WalkedTo(tab, l, n), WalkedTo(tab2, l, n))
           bad == {n \in 0..k : ~ good(n)}
<1>k. k \in Nat /\ \A n \in 1..k : tab[n] \in Fill /\ tab2[n] \in Fill
  OBVIOUS
<1>1. bad = {}
  <2> SUFFICES ASSUME bad # {} PROVE FALSE
    OBVIOUS
  <2>2. PICK n \in bad : \A m \in bad : n <= m
    <3>1. bad \subseteq Nat
      OBVIOUS
    <3> HIDE DEF bad
    <3> QED
      BY <3>1, LeastNatural
  <2>3. n # 0
    <3>1. Alike(NoWalk, NoWalk)
      BY DEF Alike
    <3> QED
      BY <3>1, WalkedToStep, NoWalkType
  <2>4. n - 1 \in 0..k /\ n - 1 \notin bad /\ n \in 1..k
    BY <2>2, <2>3, <1>k
  <2>5. /\ WalkedTo(tab, l, n) = LegWalk(WalkedTo(tab, l, n - 1), tab[n], l)
        /\ WalkedTo(tab2, l, n) = LegWalk(WalkedTo(tab2, l, n - 1), tab2[n], l)
    BY <2>4, WalkedToStep
  <2>6. good(n - 1)
    BY <2>4
  <2>7. good(n)
    BY <2>4, <2>5, <2>6, <1>k, LegWalkType, AlikeWalk
  <2> QED
    BY <2>7
<1>2. k \notin bad /\ k \in 0..k
  BY <1>1, <1>k
<1>3. good(k)
  BY <1>2
<1> QED
  BY <1>3, WalkedToStep

-------------------------------------------------------------------------------
(***************************************************************************)
(* The row follows the fills (RowIsDerived).                               *)
(***************************************************************************)

Fraction == [n : Int, d : Int]
LegRow == [qty : Int, entry : Fraction, exit : Fraction]
Row == [leg : [Leg -> LegRow], fees : Int, unwind : Int]
Buy == [qty : Nat \ {0}, px : Int]

LedgerTypes ==
    /\ fills \in Seq(Fill) /\ bought \in Seq(Buy) /\ cash \in Int
    /\ book \in Row /\ realised \in Fraction /\ shut \in BOOLEAN
    /\ step \in {"none", "derive", "truefill"}

\* RowIsDerived, of a table and a row.
Derived(tab, row) ==
    /\ \A l \in Leg :
          /\ row.leg[l].qty = Derive(tab, l).qty
          /\ Derive(tab, l).entry.d # 0 => Same(row.leg[l].entry, Derive(tab, l).entry)
          /\ Derive(tab, l).exit.d # 0 => Same(row.leg[l].exit, Derive(tab, l).exit)
    /\ row.fees = Len(tab)
    /\ row.unwind = Derive(tab, "perp").unwind + Derive(tab, "spot").unwind

LEMMA RowIsDerivedIs == RowIsDerived <=> (step = "none" => Derived(fills, book))
  BY DEF RowIsDerived, Derived

LEMMA DeriveIs ==
    ASSUME NEW tab \in Seq(Fill), NEW l \in Leg
    PROVE  LET d == Derive(tab, l)  w == Walked(tab, l) IN
           /\ w \in WalkState /\ Held(w) \in Nat /\ Spent(w) \in Int
           /\ d.entered = Held(w) /\ d.exited = w.out /\ d.qty = Held(w) - w.over - w.out
           /\ d.entry = Frac(Spent(w), Held(w)) /\ d.exit = Frac(w.got, w.out)
           /\ d.unwind = IF l = "perp" THEN w.back - w.undo ELSE -(w.back - w.undo)
           /\ d.qty \in Int /\ d.entry \in Fraction /\ d.exit \in Fraction /\ d.unwind \in Int
<1> DEFINE w == Walked(tab, l)
           d == Derive(tab, l)
<1>1. w \in WalkState
  BY WalkedType
<1> HIDE DEF w
<1>2. w.open \in Seq(Lot) /\ w.over \in Int /\ w.out \in Int /\ w.back \in Int /\ w.undo \in Int /\ w.got \in Int
  BY <1>1 DEF WalkState
<1>3. Held(w) \in Nat /\ Spent(w) \in Int
  BY <1>2, LotsSum DEF Held, Spent
<1>4. d = [entered |-> Held(w), exited |-> w.out, qty |-> Held(w) - w.over - w.out,
           entry |-> Frac(Spent(w), Held(w)), exit |-> Frac(w.got, w.out),
           unwind |-> (IF l = "perp" THEN 1 ELSE -1) * (w.back - w.undo)]
  BY DEF Derive, Summed, LegOf, Held, Spent, w
<1> HIDE DEF d
<1>5. (IF l = "perp" THEN 1 ELSE -1) * (w.back - w.undo)
          = IF l = "perp" THEN w.back - w.undo ELSE -(w.back - w.undo)
  BY <1>2
<1>6. Frac(Spent(w), Held(w)) \in Fraction /\ Frac(w.got, w.out) \in Fraction
  BY <1>2, <1>3 DEF Frac, Fraction
<1>7. Held(w) - w.over - w.out \in Int /\ w.back - w.undo \in Int
  BY <1>2, <1>3
<1>8. /\ d.entered = Held(w) /\ d.exited = w.out /\ d.qty = Held(w) - w.over - w.out
      /\ d.entry = Frac(Spent(w), Held(w)) /\ d.exit = Frac(w.got, w.out)
      /\ d.unwind = IF l = "perp" THEN w.back - w.undo ELSE -(w.back - w.undo)
  BY <1>4, <1>5
<1> QED
  BY <1>1, <1>2, <1>3, <1>6, <1>7, <1>8 DEF d, w

LEMMA RecomputedIsDerived ==
    ASSUME NEW tab \in Seq(Fill), book \in Row
    PROVE  Recomputed(tab) \in Row /\ Derived(tab, Recomputed(tab))
<1> DEFINE d == [l \in Leg |-> Derive(tab, l)]
           r == Recomputed(tab)
           leg(l) == [qty |-> d[l].qty, entry |-> OrOld(d[l].entry, book.leg[l].entry),
                      exit |-> OrOld(d[l].exit, book.leg[l].exit)]
<1>1. /\ r.leg = [l \in Leg |-> leg(l)] /\ r.fees = Len(tab)
      /\ r.unwind = d["perp"].unwind + d["spot"].unwind
      /\ r = [leg |-> r.leg, fees |-> r.fees, unwind |-> r.unwind]
  BY DEF Recomputed, Rewritten
<1>2. \A l \in Leg : /\ d[l] = Derive(tab, l) /\ d[l].qty \in Int
                     /\ d[l].entry \in Fraction /\ d[l].exit \in Fraction /\ d[l].unwind \in Int
  BY DeriveIs
<1>3. \A l \in Leg : book.leg[l].entry \in Fraction /\ book.leg[l].exit \in Fraction
  BY DEF Row, LegRow
<1> HIDE DEF d, r
<1>s. \A x \in Fraction : x.d # 0 => Same(x, x)
  BY DEF Fraction, Same
<1>4. ASSUME NEW l \in Leg
      PROVE  /\ leg(l) \in LegRow
             /\ leg(l).qty = Derive(tab, l).qty
             /\ Derive(tab, l).entry.d # 0 => Same(leg(l).entry, Derive(tab, l).entry)
             /\ Derive(tab, l).exit.d # 0 => Same(leg(l).exit, Derive(tab, l).exit)
  <2>1. \A x \in Fraction, y \in Fraction :
            OrOld(x, y) \in Fraction /\ (x.d # 0 => Same(OrOld(x, y), x))
    BY <1>s DEF OrOld
  <2> QED
    BY <1>2, <1>3, <2>1 DEF LegRow
<1>5. r \in Row
  <2>1. r.leg \in [Leg -> LegRow]
    BY <1>1, <1>4
  <2>2. r.unwind \in Int /\ r.fees \in Int
    BY <1>1, <1>2 DEF Leg
  <2> QED
    BY <1>1, <2>1, <2>2 DEF Row
<1>6. Derived(tab, r)
  <2>1. ASSUME NEW l \in Leg
        PROVE  /\ r.leg[l].qty = Derive(tab, l).qty
               /\ Derive(tab, l).entry.d # 0 => Same(r.leg[l].entry, Derive(tab, l).entry)
               /\ Derive(tab, l).exit.d # 0 => Same(r.leg[l].exit, Derive(tab, l).exit)
    <3>1. r.leg[l] = leg(l)
      BY <1>1
    <3> HIDE DEF leg
    <3> QED
      BY <3>1, <1>4
  <2>2. r.unwind = Derive(tab, "perp").unwind + Derive(tab, "spot").unwind
    BY <1>1, <1>2 DEF Leg
  <2> QED
    BY <1>1, <2>1, <2>2 DEF Derived
<1> QED
  BY <1>5, <1>6 DEF r

LEMMA NonZeroProduct ==
    ASSUME NEW a \in Int, NEW b \in Int, a # 0, b # 0 PROVE a * b # 0 /\ a * b \in Int
  OBVIOUS

\* The running average is the average.
LEMMA BlendIsAverage ==
    ASSUME NEW avg \in Fraction, NEW held \in Nat, NEW spent \in Int, NEW q \in Nat \ {0}, NEW px \in Int,
           held # 0 => Same(avg, Frac(spent, held)), held = 0 => spent = 0
    PROVE  /\ Blend(avg, held, q, px) \in Fraction
           /\ Same(Blend(avg, held, q, px), Frac(spent + q * px, held + q))
<1> DEFINE n == avg.n
           d == avg.d
<1>1. n \in Int /\ d \in Int
  BY DEF Fraction
<1> HIDE DEF n, d
<1>2. CASE held = 0
  <2>1. Blend(avg, held, q, px) = Frac(px, 1) /\ spent = 0
    BY <1>2 DEF Blend
  <2>2. q * px \in Int /\ q * px = px * q
    OBVIOUS
  <2>3. (spent + q * px) * 1 = px * (held + q) /\ held + q # 0 /\ 1 # 0
    BY <1>2, <2>1, <2>2
  <2> QED
    BY <2>1, <2>3 DEF Frac, Fraction, Same
<1>3. CASE held # 0
  <2>1. d # 0 /\ spent * d = n * held
    BY <1>3 DEF Same, Frac, n, d
  <2>2. Blend(avg, held, q, px) = Frac(n * held + px * q * d, d * (held + q))
    BY <1>3, <2>1 DEF Blend, n, d
  <2> DEFINE s == held + q
             p == q * px
  <2>3. s \in Int /\ s # 0 /\ p \in Int /\ px * q * d = p * d /\ n * held \in Int /\ d * s \in Int /\ p * d \in Int
    BY <1>1, <1>3
  <2> HIDE DEF s, p
  <2>4. d * s # 0
    BY <1>1, <2>1, <2>3, NonZeroProduct
  <2>5. (spent + p) * (d * s) = ((spent + p) * d) * s
    BY <1>1, <2>3
  <2>6. (spent + p) * d = spent * d + p * d
    BY <1>1, <2>3
  <2>7. (spent + p) * (d * s) = (n * held + p * d) * s
    BY <2>1, <2>5, <2>6
  <2>8. Same(Frac(n * held + p * d, d * s), Frac(spent + p, s))
    BY <2>3, <2>4, <2>7 DEF Same, Frac
  <2>9. Frac(n * held + p * d, d * s) \in Fraction
    BY <2>3 DEF Frac, Fraction
  <2> QED
    BY <2>2, <2>3, <2>8, <2>9 DEF s, p
<1> QED
  BY <1>2, <1>3
\* Of the fills of one leg and phase.
PhaseIds(tab, l, phase) == {i \in DOMAIN tab : tab[i].leg = l /\ tab[i].phase = phase}
PhaseQty(tab, l, phase) == QtyOf(tab, PhaseIds(tab, l, phase))

LEMMA PhaseQtyAppend ==
    ASSUME NEW tab \in Seq(Fill), NEW f \in Fill, NEW l, NEW phase
    PROVE  /\ PhaseQty(tab, l, phase) \in Int
           /\ f.leg = l /\ f.phase = phase =>
                  PhaseQty(Append(tab, f), l, phase) = PhaseQty(tab, l, phase) + f.qty
           /\ ~(f.leg = l /\ f.phase = phase) =>
                  /\ PhaseQty(Append(tab, f), l, phase) = PhaseQty(tab, l, phase)
                  /\ PhaseIds(Append(tab, f), l, phase) = PhaseIds(tab, l, phase)
<1> DEFINE n == Len(tab)
           more == Append(tab, f)
           S == PhaseIds(tab, l, phase)
           T == PhaseIds(more, l, phase)
<1>1. /\ n \in Nat /\ DOMAIN tab = 1..n /\ DOMAIN more = 1..n + 1 /\ more[n + 1] = f
      /\ \A i \in 1..n : more[i] = tab[i] /\ tab[i] \in Fill
  OBVIOUS
<1> HIDE DEF n, more
<1>2. S = {i \in 1..n : tab[i].leg = l /\ tab[i].phase = phase}
      /\ T = {i \in 1..n + 1 : more[i].leg = l /\ more[i].phase = phase}
  BY <1>1 DEF PhaseIds
<1> HIDE DEF S, T
<1>3. S \subseteq 1..n /\ n + 1 \notin S /\ IsFiniteSet(S)
  <2>1. S \subseteq 1..n
    BY <1>2
  <2>2. n + 1 \notin S
    BY <1>1, <2>1
  <2>3. IsFiniteSet(1..n)
    BY <1>1, FS_Interval
  <2> QED
    BY <2>1, <2>2, <2>3, FS_Subset
<1>4. \A i \in S : tab[i].qty \in Int /\ more[i].qty = tab[i].qty
  BY <1>1, <1>3 DEF Fill
<1>5. QtyOf(tab, S) \in Int /\ QtyOf(more, S) = QtyOf(tab, S)
  BY <1>3, <1>4, QtyOfTakesAny, QtyOfAlike
<1>6. CASE f.leg = l /\ f.phase = phase
  <2>1. T = S \cup {n + 1}
    BY <1>1, <1>2, <1>6
  <2>2. T \ {n + 1} = S /\ n + 1 \in T /\ IsFiniteSet(T)
    BY <1>3, <2>1, FS_AddElement
  <2>3. \A i \in T : more[i].qty \in Int
    BY <1>1, <1>4, <2>1 DEF Fill
  <2>4. QtyOf(more, T) = more[n + 1].qty + QtyOf(more, T \ {n + 1})
    BY <2>2, <2>3, QtyOfTakesAny
  <2>5. f.qty \in Int
    BY DEF Fill
  <2>6. QtyOf(more, T) = QtyOf(tab, S) + f.qty
    <3>1. QtyOf(more, T) = f.qty + QtyOf(tab, S)
      BY <1>1, <1>5, <2>2, <2>4, Zenon
    <3> QED
      BY <3>1, <2>5, <1>5
  <2> QED
    BY <1>5, <1>6, <2>6 DEF PhaseQty, S, T, more
<1>7. CASE ~(f.leg = l /\ f.phase = phase)
  <2>1. T = S
    BY <1>1, <1>2, <1>7
  <2> QED
    BY <1>5, <1>7, <2>1 DEF PhaseQty, S, T, more
<1> QED
  BY <1>6, <1>7

\* The walk has seen every exit, and of a leg that was never unwound it has kept every entry.
Folds(tab) ==
    \A l \in Leg :
        /\ Walked(tab, l).out = PhaseQty(tab, l, "exit")
        /\ PhaseIds(tab, l, "unwind") = {} => Held(Walked(tab, l)) = PhaseQty(tab, l, "entry")

LEMMA AppendFolds ==
    ASSUME NEW tab \in Seq(Fill), NEW f \in Fill, Folds(tab)
    PROVE  Folds(Append(tab, f))
<1> DEFINE more == Append(tab, f)
<1>1. f.phase \in Phase /\ f.qty \in Nat
  BY DEF Fill
<1>2. SUFFICES ASSUME NEW l \in Leg
               PROVE  /\ Walked(more, l).out = PhaseQty(more, l, "exit")
                      /\ PhaseIds(more, l, "unwind") = {} =>
                             Held(Walked(more, l)) = PhaseQty(more, l, "entry")
  BY DEF Folds
<1> DEFINE w == Walked(tab, l)
<1>3. w \in WalkState /\ Walked(more, l) = LegWalk(w, f, l)
  BY WalkedType, WalkedAppend
<1>4. /\ w.out = PhaseQty(tab, l, "exit")
      /\ PhaseIds(tab, l, "unwind") = {} => Held(w) = PhaseQty(tab, l, "entry")
  BY DEF Folds
<1>u. f.leg = l /\ f.phase = "unwind" => PhaseIds(more, l, "unwind") # {}
  <2>1. Len(tab) + 1 \in DOMAIN more /\ more[Len(tab) + 1] = f
    OBVIOUS
  <2> HIDE DEF more
  <2> QED
    BY <2>1 DEF PhaseIds
<1>e. /\ f.leg = l /\ f.phase = "entry" => PhaseQty(more, l, "entry") = PhaseQty(tab, l, "entry") + f.qty
      /\ ~(f.leg = l /\ f.phase = "entry") => PhaseQty(more, l, "entry") = PhaseQty(tab, l, "entry")
  BY PhaseQtyAppend
<1>x. /\ f.leg = l /\ f.phase = "exit" => PhaseQty(more, l, "exit") = PhaseQty(tab, l, "exit") + f.qty
      /\ ~(f.leg = l /\ f.phase = "exit") => PhaseQty(more, l, "exit") = PhaseQty(tab, l, "exit")
  BY PhaseQtyAppend
<1>v. ~(f.leg = l /\ f.phase = "unwind") => PhaseIds(more, l, "unwind") = PhaseIds(tab, l, "unwind")
  BY PhaseQtyAppend
<1> HIDE DEF w, more
<1>5. CASE f.leg # l
  BY <1>3, <1>4, <1>5, <1>e, <1>x, <1>v DEF LegWalk
<1>6. CASE f.leg = l /\ f.phase = "entry"
  <2>1. Walked(more, l) = Walk(w, f)
    BY <1>3, <1>6 DEF LegWalk
  <2>2. Held(Walk(w, f)) = Held(w) + f.qty /\ Walk(w, f).out = w.out
    <3>1. Walk(w, f) = [w EXCEPT !.open = Walk(w, f).open]
      BY <1>3, <1>6, EntryWalk
    <3>2. Walk(w, f).out = w.out
      BY <1>3, <3>1 DEF WalkState
    <3> QED
      BY <1>3, <1>6, <3>2, EntryWalk
  <2> QED
    BY <2>1, <2>2, <1>4, <1>6, <1>e, <1>x, <1>v
<1>7. CASE f.leg = l /\ f.phase = "exit"
  <2>1. Walked(more, l) = Walk(w, f)
    BY <1>3, <1>7 DEF LegWalk
  <2>2. Walk(w, f) = [w EXCEPT !.out = w.out + f.qty, !.got = w.got + f.qty * f.px]
    BY <1>3, <1>7, ExitWalk
  <2>3. Walk(w, f).out = w.out + f.qty /\ Walk(w, f).open = w.open
    BY <1>3, <2>2 DEF WalkState
  <2> QED
    BY <2>1, <2>3, <1>4, <1>7, <1>e, <1>x, <1>v DEF Held
<1>8. CASE f.leg = l /\ f.phase = "unwind"
  <2>1. Walked(more, l) = Walk(w, f)
    BY <1>3, <1>8 DEF LegWalk
  <2> QED
    BY <2>1, <1>3, <1>4, <1>8, <1>u, <1>x, UnwindWalk
<1> QED
  BY <1>1, <1>5, <1>6, <1>7, <1>8 DEF Phase
\* A fill of the other leg leaves what is derived of this one.
LEMMA OtherLegIsKept ==
    ASSUME NEW tab \in Seq(Fill), NEW f \in Fill, NEW l, f.leg # l
    PROVE  Derive(Append(tab, f), l) = Derive(tab, l)
  BY WalkedAppend DEF LegWalk, Derive

\* Folded into the row or derived from the table, an entry or an exit comes to the same.
LEMMA FoldedIsDerived ==
    ASSUME fills \in Seq(Fill), book \in Row, Derived(fills, book), Folds(fills),
           NEW f \in Fill, f.phase \in {"entry", "exit"}, ~ HasUnwind(f.leg)
    PROVE  LET row == Folded(f.leg, f.phase, f.qty, f.px) IN
           row \in Row /\ Derived(Append(fills, f), row)
<1> DEFINE l == f.leg
           q == f.qty
           px == f.px
           tab == Append(fills, f)
           row == Folded(l, f.phase, q, px)
           b == book.leg[l]
           w == Walked(fills, l)
           v == Walked(tab, l)
<1>1. l \in Leg /\ q \in Nat \ {0} /\ q \in Nat /\ px \in Int /\ q * px \in Int
  <2>1. l \in Leg /\ q \in Nat \ {0} /\ q \in Nat /\ px \in Int
    BY DEF Fill
  <2> QED
    BY <2>1, ProductIsInt
<1>2. tab \in Seq(Fill) /\ Len(tab) = Len(fills) + 1 /\ Len(fills) \in Nat
  OBVIOUS
<1>3. v = Walk(w, f) /\ w \in WalkState
  BY <1>1, WalkedAppend, WalkedType DEF LegWalk
<1>4. b \in LegRow /\ b.qty \in Int /\ b.entry \in Fraction /\ b.exit \in Fraction
  BY <1>1 DEF Row, LegRow
<1>5. /\ b.qty = Derive(fills, l).qty
      /\ Derive(fills, l).entry.d # 0 => Same(b.entry, Derive(fills, l).entry)
      /\ Derive(fills, l).exit.d # 0 => Same(b.exit, Derive(fills, l).exit)
      /\ book.fees = Len(fills)
      /\ book.unwind = Derive(fills, "perp").unwind + Derive(fills, "spot").unwind
  BY <1>1 DEF Derived
<1>6. /\ Held(w) \in Nat /\ Spent(w) \in Int
      /\ Derive(fills, l).qty = Held(w) - w.over - w.out
      /\ Derive(fills, l).entry = Frac(Spent(w), Held(w)) /\ Derive(fills, l).exit = Frac(w.got, w.out)
      /\ Derive(fills, l).unwind = IF l = "perp" THEN w.back - w.undo ELSE -(w.back - w.undo)
  BY <1>1, DeriveIs
<1>7. /\ Held(v) \in Nat /\ Spent(v) \in Int
      /\ Derive(tab, l).qty = Held(v) - v.over - v.out
      /\ Derive(tab, l).entry = Frac(Spent(v), Held(v)) /\ Derive(tab, l).exit = Frac(v.got, v.out)
      /\ Derive(tab, l).unwind = IF l = "perp" THEN v.back - v.undo ELSE -(v.back - v.undo)
  BY <1>1, <1>2, DeriveIs
<1>8. w.out = Prior(l, "exit") /\ Held(w) = Prior(l, "entry")
  BY <1>1 DEF Folds, PhaseQty, PhaseIds, Prior, Of, HasUnwind
<1>w. w.over \in Nat /\ w.out \in Nat /\ w.got \in Int /\ w.back \in Int /\ w.undo \in Int
      /\ (w.out = 0 => w.got = 0) /\ (Held(w) = 0 => Spent(w) = 0)
  BY <1>3, LotsSum DEF WalkState, Held, Spent
<1>o. \A k \in Leg : k # l => Derive(tab, k) = Derive(fills, k)
  BY <1>1, OtherLegIsKept
<1> HIDE DEF w, v, tab
\* What is left to show of either phase.
<1>9. ASSUME NEW leg \in LegRow, row = [book EXCEPT !.fees = @ + 1, !.leg[l] = leg],
             v.back = w.back, v.undo = w.undo,
             leg.qty = Derive(tab, l).qty,
             Derive(tab, l).entry.d # 0 => Same(leg.entry, Derive(tab, l).entry),
             Derive(tab, l).exit.d # 0 => Same(leg.exit, Derive(tab, l).exit)
      PROVE  row \in Row /\ Derived(tab, row)
  <2>1. /\ row.leg = [book.leg EXCEPT ![l] = leg] /\ row.fees = book.fees + 1
        /\ row.unwind = book.unwind
        /\ row = [leg |-> row.leg, fees |-> row.fees, unwind |-> row.unwind]
    <3> HIDE DEF row, l
    <3> QED
      BY <1>9 DEF Row
  <2>2. book.leg \in [Leg -> LegRow] /\ book.fees \in Int /\ book.unwind \in Int
    BY DEF Row
  <2> HIDE DEF row, b
  <2>3. row \in Row
    <3> HIDE DEF l
    <3>1. row.leg \in [Leg -> LegRow]
      BY <2>1, <2>2, <1>9, <1>1
    <3>2. row.fees \in Int /\ row.unwind \in Int
      BY <2>1, <2>2
    <3> QED
      BY <2>1, <3>1, <3>2 DEF Row
  <2>4. Derive(tab, l).unwind = Derive(fills, l).unwind
    BY <1>6, <1>7, <1>9
  <2>5. \A k \in Leg : Derive(tab, k).unwind = Derive(fills, k).unwind
    BY <2>4, <1>o
  <2>6. ASSUME NEW k \in Leg
        PROVE  /\ row.leg[k].qty = Derive(tab, k).qty
               /\ Derive(tab, k).entry.d # 0 => Same(row.leg[k].entry, Derive(tab, k).entry)
               /\ Derive(tab, k).exit.d # 0 => Same(row.leg[k].exit, Derive(tab, k).exit)
    <3>1. CASE k = l
      <4>1. row.leg[k] = leg
        BY <2>1, <2>2, <3>1
      <4> HIDE DEF l
      <4> QED
        BY <4>1, <3>1, <1>9
    <3>2. CASE k # l
      <4>1. row.leg[k] = book.leg[k] /\ Derive(tab, k) = Derive(fills, k)
        BY <2>1, <2>2, <3>2, <1>o
      <4> HIDE DEF l
      <4> QED
        BY <4>1 DEF Derived
    <3> QED
      BY <3>1, <3>2
  <2>7. row.fees = Len(tab) /\ row.unwind = Derive(tab, "perp").unwind + Derive(tab, "spot").unwind
    BY <2>1, <2>5, <1>2, <1>5 DEF Leg
  <2> QED
    BY <2>3, <2>6, <2>7 DEF Derived
<1>10. CASE f.phase = "entry"
  <2> DEFINE avg == Blend(b.entry, Prior(l, "entry"), q, px)
             leg == [qty |-> b.qty + q, entry |-> avg, exit |-> b.exit]
  <2>1. row = [book EXCEPT !.fees = @ + 1, !.leg[l] = leg]
    <3>1. row = [book EXCEPT !.fees = @ + 1, !.leg[l] = [qty |-> b.qty + 1 * q, entry |-> avg, exit |-> b.exit]]
      BY <1>10 DEF Folded
    <3>2. b.qty + 1 * q = b.qty + q
      BY <1>1, <1>4
    <3> QED
      BY <3>1, <3>2
  <2>2. /\ Held(v) = Held(w) + q /\ Spent(v) = Spent(w) + q * px
        /\ v = [w EXCEPT !.open = v.open]
    BY <1>3, <1>10, EntryWalk
  <2>3. v.back = w.back /\ v.undo = w.undo /\ v.over = w.over /\ v.out = w.out /\ v.got = w.got
    BY <1>3, <2>2 DEF WalkState
  <2>4. avg \in Fraction /\ Same(avg, Frac(Spent(w) + q * px, Held(w) + q))
    <3>1. Held(w) # 0 => Same(b.entry, Frac(Spent(w), Held(w)))
      BY <1>5, <1>6 DEF Frac
    <3> HIDE DEF q, px, b, l
    <3> QED
      BY <3>1, <1>1, <1>4, <1>6, <1>8, <1>w, BlendIsAverage
  <2> HIDE DEF avg, b, row, l, q, px
  <2>5. leg \in LegRow
    BY <1>1, <1>4, <2>4 DEF LegRow
  <2>6. leg.qty = Derive(tab, l).qty
    <3> DEFINE x == leg.qty
               y == b.qty
               z == Derive(tab, l).qty
               h == Held(w)
               h2 == Held(v)
               over == w.over
               out == w.out
    <3>1. x = y + q /\ h2 = h + q /\ y = h - over - out /\ z = h2 - over - out
      BY <2>2, <2>3, <1>5, <1>6, <1>7
    <3>2. q \in Int /\ h \in Int /\ over \in Int /\ out \in Int
      BY <1>1, <1>6, <1>w
    <3> HIDE DEF x, y, z, h, h2, over, out
    <3>3. x = z
      BY <3>1, <3>2
    <3> QED
      BY <3>3 DEF x, z
  <2>7. Same(leg.entry, Derive(tab, l).entry)
    BY <1>7, <2>2, <2>4
  <2>8. Derive(tab, l).exit.d # 0 => Same(leg.exit, Derive(tab, l).exit)
    BY <1>5, <1>6, <1>7, <2>3
  <2> HIDE DEF leg
  <2> QED
    BY <2>1, <2>3, <2>5, <2>6, <2>7, <2>8, <1>9 DEF l, q, px, row, tab
<1>11. CASE f.phase = "exit"
  <2> DEFINE avg == Blend(b.exit, Prior(l, "exit"), q, px)
             leg == [qty |-> b.qty - q, entry |-> b.entry, exit |-> avg]
  <2>1. row = [book EXCEPT !.fees = @ + 1, !.leg[l] = leg]
    <3>1. row = [book EXCEPT !.fees = @ + 1, !.leg[l] = [qty |-> b.qty + (-1) * q, entry |-> b.entry, exit |-> avg]]
      BY <1>11 DEF Folded
    <3>2. b.qty + (-1) * q = b.qty - q
      BY <1>1, <1>4
    <3> QED
      BY <3>1, <3>2
  <2>2. v = [w EXCEPT !.out = w.out + q, !.got = w.got + q * px]
    BY <1>3, <1>11, ExitWalk
  <2>3. /\ v.back = w.back /\ v.undo = w.undo /\ v.over = w.over /\ v.open = w.open
        /\ v.out = w.out + q /\ v.got = w.got + q * px
    <3> HIDE DEF q, px
    <3> QED
      BY <1>3, <2>2 DEF WalkState
  <2>h. Held(v) = Held(w) /\ Spent(v) = Spent(w)
    BY <2>3 DEF Held, Spent
  <2>4. avg \in Fraction /\ Same(avg, Frac(w.got + q * px, w.out + q))
    <3>1. w.out # 0 => Same(b.exit, Frac(w.got, w.out))
      BY <1>5, <1>6 DEF Frac
    <3> HIDE DEF q, px, b, l
    <3> QED
      BY <3>1, <1>1, <1>4, <1>6, <1>8, <1>w, BlendIsAverage
  <2> HIDE DEF avg, b, row, l, q, px
  <2>5. leg \in LegRow
    BY <1>1, <1>4, <2>4 DEF LegRow
  <2>6. leg.qty = Derive(tab, l).qty
    BY <1>1, <1>4, <1>5, <1>6, <1>7, <1>w, <2>h, <2>3
  <2>7. Derive(tab, l).entry.d # 0 => Same(leg.entry, Derive(tab, l).entry)
    BY <1>5, <1>6, <1>7, <2>h
  <2>8. Same(leg.exit, Derive(tab, l).exit)
    BY <1>7, <2>3, <2>4
  <2> HIDE DEF leg
  <2> QED
    BY <2>1, <2>3, <2>5, <2>6, <2>7, <2>8, <1>9 DEF l, q, px, row, tab
<1> QED
  BY <1>10, <1>11 DEF row, l, q, px, tab
LEMMA PlusType ==
    ASSUME NEW x \in Fraction, NEW y \in Fraction PROVE Plus(x, y) \in Fraction
<1>1. x.n \in Int /\ x.d \in Int /\ y.n \in Int /\ y.d \in Int
  BY DEF Fraction
<1>2. ASSUME NEW a \in Int, NEW b \in Int PROVE a * b \in Int
  OBVIOUS
<1>3. x.n * y.d \in Int /\ y.n * x.d \in Int /\ x.d * y.d \in Int
  BY <1>1, <1>2
<1>4. x.n * y.d + y.n * x.d \in Int
  BY <1>3
<1> QED
  BY <1>3, <1>4 DEF Plus, Frac, Fraction

LEMMA SmallerOf == ASSUME NEW a \in Int, NEW b \in Int PROVE Min({a, b}) = IF a <= b THEN a ELSE b
  BY DEF Min

LEMMA GainType ==
    ASSUME NEW tab \in Seq(Fill), NEW l \in Leg, NEW sold \in Fraction, NEW paid \in Fraction
    PROVE  Gain(sold, paid, Derive(tab, l)) \in Fraction
<1> DEFINE d == Derive(tab, l)
           k == Min({d.entered, d.exited})
<1>1. k \in Int
  <2>1. d.entered \in Int /\ d.exited \in Int
    BY DeriveIs DEF WalkState
  <2> QED
    BY <2>1, SmallerOf
<1>2. sold.n \in Int /\ sold.d \in Int /\ paid.n \in Int /\ paid.d \in Int
  BY DEF Fraction
<1>3. ASSUME NEW a \in Int, NEW b \in Int PROVE a * b \in Int
  OBVIOUS
<1> HIDE DEF k
<1>4. sold.n * paid.d \in Int /\ paid.n * sold.d \in Int /\ sold.d * paid.d \in Int
  BY <1>2, <1>3
<1>5. sold.n * paid.d - paid.n * sold.d \in Int
  BY <1>4
<1>6. (sold.n * paid.d - paid.n * sold.d) * k \in Int
  BY <1>1, <1>5, <1>3
<1> HIDE DEF d
<1>7. Gain(sold, paid, d) = Frac(0, 1)
         \/ Gain(sold, paid, d) = Frac((sold.n * paid.d - paid.n * sold.d) * k, sold.d * paid.d)
  BY DEF Gain, k
<1>8. \A a, b \in Int : Frac(a, b) \in Fraction
  BY DEF Frac, Fraction
<1>9. Frac(0, 1) \in Fraction
  BY <1>8
<1>10. Frac((sold.n * paid.d - paid.n * sold.d) * k, sold.d * paid.d) \in Fraction
  BY <1>4, <1>6, <1>8, Zenon
<1> QED
  BY <1>7, <1>9, <1>10 DEF d

LEMMA PnlType ==
    ASSUME NEW tab \in Seq(Fill), NEW bk \in Row
    PROVE  Pnl(tab, bk) \in Fraction
<1>1. \A l \in Leg : bk.leg[l].entry \in Fraction /\ bk.leg[l].exit \in Fraction
  BY DEF Row, LegRow
<1>2. "perp" \in Leg /\ "spot" \in Leg
  BY DEF Leg
<1>3. /\ Gain(bk.leg["perp"].entry, bk.leg["perp"].exit, Derive(tab, "perp")) \in Fraction
      /\ Gain(bk.leg["spot"].exit, bk.leg["spot"].entry, Derive(tab, "spot")) \in Fraction
  BY <1>1, <1>2, GainType
<1>4. Frac(bk.unwind - bk.fees, 1) \in Fraction
  BY DEF Frac, Fraction, Row
<1> QED
  BY <1>3, <1>4, PlusType DEF Pnl

\* The newest buys cost something, once there are any.
LEMMA NewestBuysIs ==
    ASSUME bought \in Seq(Buy), bought # << >>, NEW q \in Nat \ {0}
    PROVE  /\ NewestBuys(q).n \in Int
           /\ NewestBuys(q).d \in Nat \ {0}
<1>1. bought \in Seq(Lot) /\ \A i \in DOMAIN bought : bought[i].qty \in Int
  <2>1. Buy \subseteq Lot
    BY DEF Buy, Lot
  <2>2. Len(bought) \in Nat /\ bought \in [1..Len(bought) -> Buy] /\ DOMAIN bought = 1..Len(bought)
    OBVIOUS
  <2>3. bought \in [1..Len(bought) -> Lot] /\ \A i \in 1..Len(bought) : bought[i] \in Lot
    BY <2>1, <2>2
  <2>4. bought \in Seq(Lot)
    BY <2>2, <2>3
  <2>5. \A x \in Lot : x.qty \in Int
    BY DEF Lot
  <2> QED
    BY <2>2, <2>3, <2>4, <2>5
<1> DEFINE t == Taken(bought, q)
           all == QtyOf(bought, DOMAIN bought)
<1>2. /\ DOMAIN t = DOMAIN bought
      /\ \A i \in DOMAIN bought : t[i] \in 0..bought[i].qty
      /\ SumFunction(t) = IF q <= all THEN q ELSE all
  <2> q \in Nat
    OBVIOUS
  <2> QED
    BY <1>1, TakenIsEnough
<1>3. all \in Nat /\ all # 0
  <2>1. 1 \in DOMAIN bought /\ bought[1] \in Buy
    OBVIOUS
  <2>3. IsFiniteSet(DOMAIN bought)
    BY <1>1, FS_Interval
  <2>4. all = bought[1].qty + QtyOf(bought, DOMAIN bought \ {1})
    BY <2>1, <1>1, <2>3, QtyOfTakesAny
  <2>5. all \in Nat /\ QtyOf(bought, DOMAIN bought \ {1}) \in Nat
    BY <1>1, LotsSum
  <2>6. bought[1].qty \in Nat \ {0}
    BY <2>1 DEF Buy
  <2> HIDE DEF all
  <2> QED
    BY <2>4, <2>5, <2>6
<1>4. WorthOf(bought, t) \in Int
  <2>1. [i \in DOMAIN bought |-> [qty |-> bought[i].qty - t[i], px |-> bought[i].px]]
            = [i \in DOMAIN bought |-> [qty |-> bought[i].qty - t[i], px |-> bought[i].px]]
    OBVIOUS
  <2> HIDE DEF t
  <2> QED
    BY <1>1, <1>2, <2>1, UnwindKeepsMoney
<1>5. SumFunction(t) \in Nat \ {0}
  BY <1>2, <1>3
<1> QED
  BY <1>4, <1>5 DEF NewestBuys, PaidFor, Frac

\* What the ledger keeps to, when no restart falls between two commits.
GuessesAreBuys ==
    \A i \in DOMAIN fills :
        fills[i].synth => fills[i].leg = "perp" /\ fills[i].phase = "exit" /\ bought # << >>
LedgerInv == LedgerTypes /\ RowIsDerived /\ Folds(fills) /\ GuessesAreBuys

LEMMA InitLedgerInv == LedgerInit => LedgerInv
<1> SUFFICES ASSUME LedgerInit PROVE LedgerInv
  OBVIOUS
<1>0. fills = << >> /\ fills \in Seq(Fill) /\ DOMAIN fills = {}
  BY DEF LedgerInit
<1>1. LedgerTypes
  <2>1. NoLeg \in LegRow
    BY DEF NoLeg, LegRow, None, Fraction
  <2>2. book \in Row
    BY <2>1 DEF LedgerInit, Row
  <2>3. realised \in Fraction
    BY DEF LedgerInit, None, Fraction
  <2>4. bought \in Seq(Buy) /\ cash \in Int /\ shut \in BOOLEAN /\ step = "none"
    <3>1. << >> \in Seq(Buy) /\ 0 \in Int /\ FALSE \in BOOLEAN
      OBVIOUS
    <3>2. bought = << >> /\ cash = 0 /\ shut = FALSE /\ step = "none"
      BY DEF LedgerInit
    <3> QED
      BY <3>1, <3>2, Zenon
  <2> QED
    BY <1>0, <2>2, <2>3, <2>4 DEF LedgerTypes
<1>2. ASSUME NEW l \in Leg PROVE Walked(fills, l) = NoWalk
  <2>1. Walked(fills, l) = WalkedTo(fills, l, Len(fills)) /\ WalkedTo(fills, l, 0) = NoWalk
    BY <1>0, WalkedToStep
  <2> QED
    BY <1>0, <2>1
<1>3. ASSUME NEW l \in Leg
      PROVE  /\ Derive(fills, l).qty = 0 /\ Derive(fills, l).unwind = 0
             /\ Derive(fills, l).entry.d = 0 /\ Derive(fills, l).exit.d = 0
  <2>1. /\ NoWalk.out = 0 /\ NoWalk.over = 0 /\ NoWalk.back = 0 /\ NoWalk.undo = 0
    BY DEF NoWalk
  <2> DEFINE d == Derive(fills, l)
             w == Walked(fills, l)
  <2>2. /\ d.qty = Held(w) - w.over - w.out
        /\ d.entry = Frac(Spent(w), Held(w)) /\ d.exit = Frac(w.got, w.out)
        /\ d.unwind = IF l = "perp" THEN w.back - w.undo ELSE -(w.back - w.undo)
    BY <1>0, DeriveIs
  <2>3. w = NoWalk /\ Held(w) = 0
    BY <1>2, NoWalkType
  <2> HIDE DEF d, w
  <2>4. d.entry.d = 0 /\ d.exit.d = 0
    BY <2>1, <2>2, <2>3 DEF Frac
  <2> QED
    BY <2>1, <2>2, <2>3, <2>4 DEF d
<1>4. RowIsDerived
  <2>1. /\ \A l \in Leg : book.leg[l].qty = 0
        /\ book.fees = 0 /\ book.unwind = 0 /\ Len(fills) = 0
    BY <1>0 DEF LedgerInit, NoLeg
  <2>2. "perp" \in Leg /\ "spot" \in Leg
    BY DEF Leg
  <2>3. Derive(fills, "perp").unwind + Derive(fills, "spot").unwind = 0
    BY <1>3, <2>2
  <2>4. Derived(fills, book)
    BY <1>3, <2>1, <2>3 DEF Derived
  <2> QED
    BY <2>4, RowIsDerivedIs
<1>5. Folds(fills)
  <2>1. ASSUME NEW l \in Leg, NEW phase PROVE PhaseQty(fills, l, phase) = 0
    <3>1. PhaseIds(fills, l, phase) = {}
      BY <1>0 DEF PhaseIds
    <3> QED
      BY <3>1, FS_EmptySet, QtyOfTakesAny DEF PhaseQty
  <2>2. NoWalk.out = 0
    BY DEF NoWalk
  <2> QED
    BY <1>2, <2>1, <2>2, NoWalkType DEF Folds
<1> QED
  BY <1>0, <1>1, <1>4, <1>5 DEF LedgerInv, GuessesAreBuys
LEMMA Appended ==
    \A s \in Seq(Fill), e \in Fill :
        /\ Append(s, e) \in Seq(Fill) /\ Len(s) \in Nat /\ Len(Append(s, e)) = Len(s) + 1
        /\ DOMAIN Append(s, e) = 1..Len(s) + 1 /\ Append(s, e)[Len(s) + 1] = e
        /\ \A i \in 1..Len(s) : Append(s, e)[i] = s[i]
  OBVIOUS

LEMMA AppendedBuy ==
    \A s \in Seq(Buy), e \in Buy :
        /\ Append(s, e) \in Seq(Buy) /\ Len(Append(s, e)) = Len(s) + 1
        /\ Append(s, e)[Len(s) + 1] = e
        /\ \A i \in 1..Len(s) : Append(s, e)[i] = s[i]
  OBVIOUS

LEMMA RecordFillKeepsInv ==
    ASSUME LedgerInv, NEW l \in Leg, NEW phase \in Phase, NEW q \in Qty, NEW px \in Price,
           NEW true \in Price, RecordFill(l, phase, q, px, true)
    PROVE  LedgerInv'
<1> DEFINE synth == px # true
           f == [leg |-> l, phase |-> phase, qty |-> q, px |-> px, synth |-> synth]
           tab == Append(fills, f)
<1>1. q \in Nat \ {0} /\ q \in Int /\ px \in Int /\ true \in Int /\ q * true \in Int
  BY LedgerAssumption, ProductIsInt
<1>2. f \in Fill /\ f.leg = l /\ f.phase = phase /\ f.qty = q /\ f.px = px /\ f.synth = synth
  <2>1. synth \in BOOLEAN
    OBVIOUS
  <2> HIDE DEF synth
  <2> QED
    BY <1>1, <2>1 DEF Fill
<1>3. /\ step = "none" /\ fills' = tab /\ UNCHANGED <<realised, shut>>
      /\ synth => l = "perp" /\ phase = "exit"
      /\ Trades(l, phase, q, true)
      /\ CASE phase = "unwind" -> step' = "derive" /\ UNCHANGED book
           [] phase # "unwind" /\ HasUnwind(l) -> book' = Recomputed(tab) /\ UNCHANGED step
           [] OTHER -> book' = Folded(l, phase, q, px) /\ UNCHANGED step
  BY DEF RecordFill
<1> HIDE DEF f, synth
<1>t. LedgerTypes /\ fills \in Seq(Fill) /\ book \in Row /\ Derived(fills, book) /\ Folds(fills)
  BY <1>3, RowIsDerivedIs DEF LedgerInv, LedgerTypes
<1>a. tab[Len(fills) + 1] = f
  <2>1. fills \in Seq(Fill) /\ f \in Fill
    BY <1>t, <1>2
  <2> QED
    BY <2>1, Appended
<1>4. tab \in Seq(Fill) /\ Folds(tab)
  BY <1>2, <1>t, AppendFolds
<1>5. bought' \in Seq(Buy) /\ cash' \in Int
  <2>1. cash \in Int /\ bought \in Seq(Buy)
    BY <1>t DEF LedgerTypes
  <2> DEFINE buy == [qty |-> q, px |-> true]
  <2>2. buy \in Buy
    BY <1>1 DEF Buy
  <2>3. cash' = cash + q * true \/ cash' = cash + (-(q * true))
    BY <1>3 DEF Trades
  <2>4. bought' = Append(bought, buy) \/ bought' = bought
    BY <1>3 DEF Trades
  <2> HIDE DEF buy
  <2>5. bought' \in Seq(Buy)
    BY <2>1, <2>2, <2>4
  <2> QED
    BY <2>1, <2>3, <2>5, <1>1
<1>6. /\ book' \in Row /\ step' \in {"none", "derive", "truefill"}
      /\ step' = "none" => Derived(tab, book')
  <2>1. CASE phase = "unwind"
    BY <2>1, <1>3, <1>t
  <2>2. CASE phase # "unwind" /\ HasUnwind(l)
    <3>1. book' = Recomputed(tab) /\ step' = "none"
      BY <2>2, <1>3
    <3> HIDE DEF tab
    <3> QED
      BY <3>1, <1>4, <1>t, RecomputedIsDerived
  <2>3. CASE phase # "unwind" /\ ~HasUnwind(l)
    <3>1. book' = Folded(l, phase, q, px) /\ step' = "none"
      BY <2>3, <1>3
    <3>2. f.phase \in {"entry", "exit"}
      BY <2>3, <1>2 DEF Phase
    <3> QED
      BY <2>3, <3>1, <3>2, <1>2, <1>t, FoldedIsDerived
  <2> QED
    BY <2>1, <2>2, <2>3
<1>7. LedgerTypes'
  BY <1>3, <1>4, <1>5, <1>6, <1>t DEF LedgerTypes
<1>8. RowIsDerived'
  <2> HIDE DEF tab
  <2> QED
    BY <1>3, <1>6 DEF RowIsDerived, Derived
<1>9. GuessesAreBuys'
  <2> SUFFICES ASSUME NEW i \in DOMAIN tab, tab[i].synth
               PROVE  tab[i].leg = "perp" /\ tab[i].phase = "exit" /\ bought' # << >>
    BY <1>3 DEF GuessesAreBuys
  <2>1. bought \in Seq(Buy)
    BY <1>t DEF LedgerTypes
  <2>2. bought' = Append(bought, [qty |-> q, px |-> true]) \/ bought' = bought
    BY <1>3 DEF Trades
  <2>3. CASE i = Len(fills) + 1
    <3>1. tab[i] = f
      BY <2>3, <1>a
    <3>2. l = "perp" /\ phase = "exit"
      BY <3>1, <1>2, <1>3
    <3>3. bought' = Append(bought, [qty |-> q, px |-> true])
      BY <3>2, <1>3 DEF Trades
    <3>4. bought' # << >>
      BY <3>3, <2>1
    <3> QED
      BY <3>1, <3>2, <3>4, <1>2
  <2>4. CASE i # Len(fills) + 1
    <3>1. i \in DOMAIN fills /\ tab[i] = fills[i]
      BY <2>4, <1>2, <1>t
    <3>2. fills[i].leg = "perp" /\ fills[i].phase = "exit" /\ bought # << >>
      BY <3>1 DEF LedgerInv, GuessesAreBuys
    <3>3. bought' # << >>
      BY <2>1, <2>2, <3>2
    <3> QED
      BY <3>1, <3>2, <3>3
  <2> QED
    BY <2>3, <2>4
<1>10. Folds(fills)'
  BY <1>3, <1>4 DEF Folds
<1> QED
  BY <1>7, <1>8, <1>9, <1>10 DEF LedgerInv

\* /truefill changes prices only.
LEMMA TruefillFills ==
    ASSUME LedgerTypes, GuessesAreBuys, Truefill
    PROVE  /\ fills' \in Seq(Fill) /\ Len(fills') = Len(fills)
           /\ \A i \in 1..Len(fills) :
                 /\ fills'[i].leg = fills[i].leg /\ fills'[i].phase = fills[i].phase
                 /\ fills'[i].qty = fills[i].qty
                 /\ ~fills'[i].synth
                 /\ ~fills[i].synth => fills'[i] = fills[i]
                 /\ fills[i].synth =>
                       LET b == NewestBuys(fills[i].qty) IN
                       fills'[i].px = b.n \div b.d /\ b.n % b.d = 0
<1> DEFINE n == Len(fills)
           b(i) == NewestBuys(fills[i].qty)
           g(i) == IF i \in Guesses THEN [fills[i] EXCEPT !.synth = FALSE, !.px = b(i).n \div b(i).d]
                   ELSE fills[i]
<1>1. n \in Nat /\ DOMAIN fills = 1..n /\ bought \in Seq(Buy) /\ \A i \in 1..n : fills[i] \in Fill
  BY DEF LedgerTypes
<1>2. fills' = [i \in 1..n |-> g(i)] /\ \A i \in Guesses : b(i).n % b(i).d = 0
  BY <1>1 DEF Truefill
<1> HIDE DEF n
<1>3. ASSUME NEW i \in 1..n
      PROVE  /\ g(i) \in Fill
             /\ g(i).leg = fills[i].leg /\ g(i).phase = fills[i].phase /\ g(i).qty = fills[i].qty
             /\ ~g(i).synth
             /\ ~fills[i].synth => g(i) = fills[i]
             /\ fills[i].synth => g(i).px = b(i).n \div b(i).d /\ i \in Guesses
  <2>1. fills[i] \in Fill /\ (i \in Guesses <=> fills[i].synth)
    BY <1>1 DEF Guesses
  <2>2. CASE ~fills[i].synth
    BY <2>1, <2>2
  <2>3. CASE fills[i].synth
    <3>1. bought # << >> /\ fills[i].qty \in Nat \ {0}
      BY <2>1, <2>3, <1>1 DEF GuessesAreBuys, Fill
    <3>2. b(i).n \in Int /\ b(i).d \in Nat \ {0}
      BY <3>1, <1>1, NewestBuysIs
    <3> DEFINE px == b(i).n \div b(i).d
    <3>3. px \in Int
      <4> HIDE DEF b
      <4> QED
        BY <3>2
    <3>4. g(i) = [fills[i] EXCEPT !.synth = FALSE, !.px = px]
      BY <2>1, <2>3
    <3> HIDE DEF px, g
    <3>5. g(i) \in Fill /\ g(i).leg = fills[i].leg /\ g(i).phase = fills[i].phase
          /\ g(i).qty = fills[i].qty /\ g(i).synth = FALSE /\ g(i).px = px
      BY <2>1, <3>3, <3>4 DEF Fill
    <3> QED
      BY <2>1, <2>3, <3>5 DEF px
  <2> QED
    BY <2>2, <2>3
<1> HIDE DEF g
<1>4. fills' \in [1..n -> Fill] /\ fills' \in Seq(Fill) /\ Len(fills') = n
  <2>1. fills' \in [1..n -> Fill]
    BY <1>2, <1>3
  <2> QED
    BY <1>1, <2>1
<1>5. \A i \in 1..n : fills'[i] = g(i)
  BY <1>2
<1> QED
  BY <1>2, <1>3, <1>4, <1>5 DEF n
LEMMA TruefillFolds ==
    ASSUME LedgerTypes, GuessesAreBuys, Folds(fills), Truefill
    PROVE  Folds(fills')
<1>f. fills \in Seq(Fill) /\ Len(fills) \in Nat /\ DOMAIN fills = 1..Len(fills)
  BY DEF LedgerTypes
<1>1. /\ fills' \in Seq(Fill) /\ Len(fills') = Len(fills)
      /\ \A i \in 1..Len(fills) :
            /\ fills'[i].leg = fills[i].leg /\ fills'[i].phase = fills[i].phase
            /\ fills'[i].qty = fills[i].qty
  BY TruefillFills
<1>2. SUFFICES ASSUME NEW l \in Leg
               PROVE  /\ Walked(fills', l).out = PhaseQty(fills', l, "exit")
                      /\ PhaseIds(fills', l, "unwind") = {} =>
                             Held(Walked(fills', l)) = PhaseQty(fills', l, "entry")
  BY DEF Folds
<1>3. Alike(Walked(fills, l), Walked(fills', l))
  BY <1>f, <1>1, WalkedAlike
<1>4. Held(Walked(fills', l)) = Held(Walked(fills, l)) /\ Walked(fills', l).out = Walked(fills, l).out
  BY <1>3, QtyOfAlike DEF Alike, Held
<1>5. ASSUME NEW phase
      PROVE  /\ PhaseIds(fills', l, phase) = PhaseIds(fills, l, phase)
             /\ PhaseQty(fills', l, phase) = PhaseQty(fills, l, phase)
  <2>1. DOMAIN fills' = 1..Len(fills)
    BY <1>f, <1>1
  <2>2. PhaseIds(fills', l, phase) = PhaseIds(fills, l, phase)
    BY <1>f, <1>1, <2>1 DEF PhaseIds
  <2>3. \A i \in PhaseIds(fills, l, phase) : fills[i].qty = fills'[i].qty
    BY <1>f, <1>1 DEF PhaseIds
  <2> QED
    BY <2>2, <2>3, QtyOfAlike DEF PhaseQty
<1> QED
  BY <1>4, <1>5 DEF Folds

LEMMA TruefillKeepsInv == LedgerInv /\ Truefill => LedgerInv'
<1> SUFFICES ASSUME LedgerInv, Truefill PROVE LedgerInv'
  OBVIOUS
<1>1. LedgerTypes /\ GuessesAreBuys /\ Folds(fills)
  BY DEF LedgerInv
<1>2. /\ fills' \in Seq(Fill) /\ Len(fills') = Len(fills)
      /\ \A i \in 1..Len(fills) : ~fills'[i].synth
  BY <1>1, TruefillFills
<1>3. LedgerTypes'
  BY <1>1, <1>2 DEF LedgerTypes, Truefill
<1>4. RowIsDerived'
  BY DEF Truefill, RowIsDerived
<1>5. GuessesAreBuys'
  <2>1. DOMAIN fills' = 1..Len(fills)
    BY <1>2
  <2> QED
    BY <1>2, <2>1 DEF GuessesAreBuys
<1>6. Folds(fills)'
  BY <1>1, TruefillFolds DEF Folds
<1> QED
  BY <1>3, <1>4, <1>5, <1>6 DEF LedgerInv

LEMMA SameFillsFold == fills' = fills /\ Folds(fills) => Folds(fills)'
  BY DEF Folds

LEMMA DerivesKeepsInv ==
    ASSUME "dies_between" \notin LedgerFaults, LedgerInv, NEW dies \in BOOLEAN, Derives(dies)
    PROVE  LedgerInv'
<1>1. ~dies /\ step' = "none" /\ book' = Recomputed(fills) /\ UNCHANGED <<fills, shut, bought, cash>>
      /\ (realised' = Pnl(fills, book') \/ realised' = realised)
  BY DEF Derives
<1>2. LedgerTypes /\ fills \in Seq(Fill) /\ book \in Row
  BY DEF LedgerInv, LedgerTypes
<1>3. book' \in Row /\ Derived(fills, book')
  BY <1>1, <1>2, RecomputedIsDerived
<1>4. LedgerTypes'
  <2>1. realised' \in Fraction
    BY <1>1, <1>2, <1>3, PnlType DEF LedgerTypes
  <2> QED
    BY <1>1, <1>2, <1>3, <2>1 DEF LedgerTypes
<1>5. RowIsDerived'
  BY <1>1, <1>3 DEF RowIsDerived, Derived
<1>6. GuessesAreBuys' /\ Folds(fills)'
  BY <1>1, SameFillsFold DEF LedgerInv, GuessesAreBuys
<1> QED
  BY <1>4, <1>5, <1>6 DEF LedgerInv

LEMMA RecomputeKeepsInv == LedgerInv /\ Recompute => LedgerInv'
<1> SUFFICES ASSUME LedgerInv, Recompute PROVE LedgerInv'
  OBVIOUS
<1>1. book' = Recomputed(fills) /\ UNCHANGED <<fills, shut, step, bought, cash>>
      /\ (realised' = Pnl(fills, book') \/ realised' = realised)
  BY DEF Recompute
<1>2. LedgerTypes /\ fills \in Seq(Fill) /\ book \in Row
  BY DEF LedgerInv, LedgerTypes
<1>3. book' \in Row /\ Derived(fills, book')
  BY <1>1, <1>2, RecomputedIsDerived
<1>4. LedgerTypes'
  <2>1. realised' \in Fraction
    BY <1>1, <1>2, <1>3, PnlType DEF LedgerTypes
  <2> QED
    BY <1>1, <1>2, <1>3, <2>1 DEF LedgerTypes
<1>5. RowIsDerived'
  BY <1>1, <1>3 DEF RowIsDerived, Derived
<1>6. GuessesAreBuys' /\ Folds(fills)'
  BY <1>1, SameFillsFold DEF LedgerInv, GuessesAreBuys
<1> QED
  BY <1>4, <1>5, <1>6 DEF LedgerInv

LEMMA FinalizeKeepsInv == LedgerInv /\ Finalize => LedgerInv'
<1> SUFFICES ASSUME LedgerInv, Finalize PROVE LedgerInv'
  OBVIOUS
<1>1. realised' = Pnl(fills, book) /\ shut' = TRUE /\ UNCHANGED <<fills, book, step, bought, cash>>
  BY DEF Finalize
<1>2. LedgerTypes /\ fills \in Seq(Fill) /\ book \in Row /\ RowIsDerived
  BY DEF LedgerInv, LedgerTypes
<1>3. LedgerTypes'
  <2>1. realised' \in Fraction
    BY <1>1, <1>2, PnlType
  <2> QED
    BY <1>1, <1>2, <2>1 DEF LedgerTypes
<1>4. RowIsDerived'
  BY <1>1, <1>2 DEF RowIsDerived
<1>5. GuessesAreBuys' /\ Folds(fills)'
  BY <1>1, SameFillsFold DEF LedgerInv, GuessesAreBuys
<1> QED
  BY <1>3, <1>4, <1>5 DEF LedgerInv

LEMMA LedgerInvHolds ==
    ASSUME "dies_between" \notin LedgerFaults PROVE LedgerSpec => []LedgerInv
<1>1. LedgerInv /\ [LedgerNext]_ledgerVars => LedgerInv'
  <2> SUFFICES ASSUME LedgerInv, [LedgerNext]_ledgerVars PROVE LedgerInv'
    OBVIOUS
  <2>1. CASE UNCHANGED ledgerVars
    BY <2>1, SameFillsFold
       DEF ledgerVars, LedgerInv, LedgerTypes, RowIsDerived, GuessesAreBuys
  <2>2. ASSUME NEW l \in Leg, NEW phase \in {"entry", "exit", "unwind"}, NEW q \in Qty,
               NEW px \in Price, NEW true \in Price, RecordFill(l, phase, q, px, true)
        PROVE  LedgerInv'
    BY <2>2, RecordFillKeepsInv DEF Phase
  <2>3. ASSUME NEW dies \in BOOLEAN, Derives(dies) PROVE LedgerInv'
    BY <2>3, DerivesKeepsInv
  <2> QED
    BY <2>1, <2>2, <2>3, FinalizeKeepsInv, RecomputeKeepsInv, TruefillKeepsInv DEF LedgerNext
<1> QED
  BY <1>1, InitLedgerInv, PTL DEF LedgerSpec

\* The columns that the row is folded into fill by fill (record_fill) say what the table
\* of the fills says from the beginning (_derive_legs): after any entries, adds, partial
\* exits, unwinds, /recompute and /truefill, whatever the quantities and prices and
\* however many fills, as long as no restart falls between two commits of a command.
THEOREM RowFollowsFills ==
    ASSUME "dies_between" \notin LedgerFaults PROVE LedgerSpec => []RowIsDerived
<1>1. LedgerInv => RowIsDerived
  BY DEF LedgerInv
<1> QED
  BY <1>1, LedgerInvHolds, PTL
-------------------------------------------------------------------------------
(***************************************************************************)
(* What was realised is the money that moved (RealisedIsCash).             *)
(***************************************************************************)

\* The money that a leg brought in; the perp opens with a sale.
LegCash(w, l) ==
    LET in == Spent(w) + w.back - w.got - w.undo IN IF l = "perp" THEN in ELSE 0 - in
MoneyOf(tab) == LegCash(Walked(tab, "perp"), "perp") + LegCash(Walked(tab, "spot"), "spot")
Sells(f) == (f.leg = "perp") = (f.phase = "entry")
PaidIn(f) == IF Sells(f) THEN f.qty * f.px ELSE -(f.qty * f.px)

LEMMA LegCashType == ASSUME NEW w \in WalkState, NEW l PROVE LegCash(w, l) \in Int
<1>1. Spent(w) \in Int /\ w.back \in Int /\ w.got \in Int /\ w.undo \in Int
  BY LotsSum DEF Spent, WalkState
<1> QED
  BY <1>1 DEF LegCash

LEMMA LegCashStep ==
    ASSUME NEW w \in WalkState, NEW f \in Fill, NEW l \in Leg
    PROVE  /\ f.leg = l => LegCash(LegWalk(w, f, l), l) = LegCash(w, l) + PaidIn(f)
           /\ f.leg # l => LegCash(LegWalk(w, f, l), l) = LegCash(w, l)
<1>1. CASE f.leg # l
  BY <1>1 DEF LegWalk
<1>2. CASE f.leg = l
  <2> DEFINE v == Walk(w, f)
             m == f.qty * f.px
  <2>1. m \in Int
    <3>1. f.qty \in Nat /\ f.px \in Int
      BY DEF Fill
    <3> QED
      BY <3>1, ProductIsInt
  <2>2. Spent(w) \in Int /\ w.back \in Int /\ w.got \in Int /\ w.undo \in Int
    BY LotsSum DEF Spent, WalkState
  <2>3. v \in WalkState /\ LegWalk(w, f, l) = v
    BY <1>2, LegWalkType DEF LegWalk
  <2>4. Spent(v) \in Int /\ v.back \in Int /\ v.got \in Int /\ v.undo \in Int
    BY <2>3, LotsSum DEF Spent, WalkState
  <2>5. CASE f.phase = "entry"
    <3>1. Spent(v) = Spent(w) + m /\ v = [w EXCEPT !.open = v.open]
      BY <2>5, EntryWalk
    <3> HIDE DEF v, m
    <3>2. v.back = w.back /\ v.got = w.got /\ v.undo = w.undo
      BY <3>1 DEF WalkState
    <3>3. PaidIn(f) = IF l = "perp" THEN m ELSE -m
      BY <1>2, <2>5 DEF PaidIn, Sells, m
    <3> QED
      BY <1>2, <2>1, <2>2, <2>3, <2>4, <3>1, <3>2, <3>3 DEF LegCash
  <2>6. CASE f.phase = "exit"
    <3>1. v = [w EXCEPT !.out = w.out + f.qty, !.got = w.got + m]
      BY <2>6, ExitWalk
    <3> HIDE DEF v, m
    <3>2. v.back = w.back /\ v.got = w.got + m /\ v.undo = w.undo /\ v.open = w.open
      BY <3>1 DEF WalkState
    <3>3. PaidIn(f) = IF l = "perp" THEN -m ELSE m
      BY <1>2, <2>6 DEF PaidIn, Sells, m, Leg
    <3>4. Spent(v) = Spent(w)
      BY <3>2 DEF Spent
    <3>5. LegCash(v, l) = IF l = "perp" THEN Spent(w) + w.back - (w.got + m) - w.undo
                          ELSE 0 - (Spent(w) + w.back - (w.got + m) - w.undo)
      BY <3>2, <3>4 DEF LegCash
    <3> QED
      BY <1>2, <2>1, <2>2, <2>3, <3>3, <3>5 DEF LegCash
  <2>7. CASE f.phase = "unwind"
    <3>1. Spent(v) + v.back = Spent(w) + w.back /\ v.undo = w.undo + m /\ v.got = w.got
      BY <2>7, UnwindWalk
    <3> HIDE DEF v, m
    <3>3. PaidIn(f) = IF l = "perp" THEN -m ELSE m
      BY <1>2, <2>7 DEF PaidIn, Sells, m, Leg
    <3> QED
      BY <1>2, <2>1, <2>2, <2>3, <2>4, <3>1, <3>3 DEF LegCash
  <2>8. f.phase \in Phase
    BY DEF Fill
  <2> QED
    BY <2>5, <2>6, <2>7, <2>8 DEF Phase
<1> QED
  BY <1>1, <1>2

LEMMA MoneyAppend ==
    ASSUME NEW tab \in Seq(Fill), NEW f \in Fill
    PROVE  MoneyOf(Append(tab, f)) = MoneyOf(tab) + PaidIn(f)
<1> DEFINE c(l) == LegCash(Walked(tab, l), l)
           d(l) == LegCash(Walked(Append(tab, f), l), l)
<1>1. \A l \in Leg : c(l) \in Int
  BY WalkedType, LegCashType
<1>2. \A l \in Leg : d(l) = IF f.leg = l THEN c(l) + PaidIn(f) ELSE c(l)
  BY WalkedType, WalkedAppend, LegCashStep
<1>3. PaidIn(f) \in Int
  <2>1. f.qty \in Nat /\ f.px \in Int
    BY DEF Fill
  <2>2. f.qty * f.px \in Int
    BY <2>1, ProductIsInt
  <2> QED
    BY <2>2 DEF PaidIn
<1>4. f.leg \in Leg /\ "perp" \in Leg /\ "spot" \in Leg
  BY DEF Fill, Leg
<1>5. MoneyOf(tab) = c("perp") + c("spot") /\ MoneyOf(Append(tab, f)) = d("perp") + d("spot")
  BY DEF MoneyOf
<1> HIDE DEF c, d
<1>6. d("perp") + d("spot") = c("perp") + c("spot") + PaidIn(f)
  BY <1>1, <1>2, <1>3, <1>4 DEF Leg
<1> QED
  BY <1>5, <1>6

\* Which fills bought the perp, and what the venue has them down for.
IsBuyIn(tab, i) == tab[i].leg = "perp" /\ tab[i].phase # "entry"
BuysIn(tab, i) == {j \in 1..i : IsBuyIn(tab, j)}
\* The fills at the prices the venues have them down for.
TrueTab(tab, buys) ==
    [i \in DOMAIN tab |->
        [tab[i] EXCEPT !.px = IF IsBuyIn(tab, i) THEN buys[Cardinality(BuysIn(tab, i))].px ELSE @]]

LEMMA TrueFillsIs == TrueFills = TrueTab(fills, bought)
  BY DEF TrueFills, TrueTab, IsBuy, IsBuyIn, BuysTo, BuysIn

\* The venue's record has a trade for every buy, of its quantity.
Mirrors(tab, buys) ==
    /\ Len(buys) = Cardinality(BuysIn(tab, Len(tab)))
    /\ \A i \in DOMAIN tab :
          IsBuyIn(tab, i) =>
              /\ Cardinality(BuysIn(tab, i)) \in 1..Len(buys)
              /\ buys[Cardinality(BuysIn(tab, i))].qty = tab[i].qty

LEMMA TrueTabIs ==
    ASSUME NEW tab \in Seq(Fill), NEW buys \in Seq(Buy), Mirrors(tab, buys)
    PROVE  /\ TrueTab(tab, buys) \in Seq(Fill) /\ Len(TrueTab(tab, buys)) = Len(tab)
           /\ \A i \in 1..Len(tab) :
                 LET t == TrueTab(tab, buys)[i] IN
                 /\ t \in Fill
                 /\ t.leg = tab[i].leg /\ t.phase = tab[i].phase /\ t.qty = tab[i].qty
                 /\ t.synth = tab[i].synth
                 /\ t.px = IF IsBuyIn(tab, i) THEN buys[Cardinality(BuysIn(tab, i))].px ELSE tab[i].px
<1> DEFINE n == Len(tab)
           px(i) == IF IsBuyIn(tab, i) THEN buys[Cardinality(BuysIn(tab, i))].px ELSE tab[i].px
           t(i) == [tab[i] EXCEPT !.px = px(i)]
<1>1. n \in Nat /\ DOMAIN tab = 1..n /\ \A i \in 1..n : tab[i] \in Fill
  OBVIOUS
<1>2. TrueTab(tab, buys) = [i \in 1..n |-> t(i)]
  BY <1>1 DEF TrueTab
<1> HIDE DEF n
<1>3. ASSUME NEW i \in 1..n PROVE px(i) \in Int
  <2>1. CASE IsBuyIn(tab, i)
    <3>1. buys[Cardinality(BuysIn(tab, i))] \in Buy
      BY <1>1, <2>1 DEF Mirrors
    <3> QED
      BY <2>1, <3>1 DEF Buy
  <2>2. CASE ~IsBuyIn(tab, i)
    BY <1>1, <2>2 DEF Fill
  <2> QED
    BY <2>1, <2>2
<1> HIDE DEF px
<1>4. ASSUME NEW i \in 1..n
      PROVE  /\ t(i) \in Fill
             /\ t(i).leg = tab[i].leg /\ t(i).phase = tab[i].phase /\ t(i).qty = tab[i].qty
             /\ t(i).synth = tab[i].synth /\ t(i).px = px(i)
  BY <1>1, <1>3 DEF Fill
<1> HIDE DEF t
<1>5. TrueTab(tab, buys) \in [1..n -> Fill] /\ \A i \in 1..n : TrueTab(tab, buys)[i] = t(i)
  BY <1>2, <1>4
<1>6. TrueTab(tab, buys) \in Seq(Fill) /\ Len(TrueTab(tab, buys)) = n
  BY <1>1, <1>5
<1> QED
  BY <1>4, <1>5, <1>6 DEF n, px
LEMMA BuysInAppend ==
    ASSUME NEW tab \in Seq(Fill), NEW f \in Fill
    PROVE  /\ \A i \in 0..Len(tab) : /\ BuysIn(Append(tab, f), i) = BuysIn(tab, i)
                                     /\ IsFiniteSet(BuysIn(tab, i))
                                     /\ Cardinality(BuysIn(tab, i)) \in Nat
           /\ Cardinality(BuysIn(Append(tab, f), Len(tab) + 1))
                 = Cardinality(BuysIn(tab, Len(tab))) + (IF f.leg = "perp" /\ f.phase # "entry" THEN 1 ELSE 0)
<1> DEFINE n == Len(tab)
           more == Append(tab, f)
<1>1. n \in Nat /\ more[n + 1] = f /\ \A i \in 1..n : more[i] = tab[i]
  OBVIOUS
<1> HIDE DEF n, more
<1>2. ASSUME NEW i \in 0..n
      PROVE  /\ BuysIn(more, i) = BuysIn(tab, i) /\ IsFiniteSet(BuysIn(tab, i))
             /\ Cardinality(BuysIn(tab, i)) \in Nat
  <2>1. \A j \in 1..i : more[j] = tab[j]
    BY <1>1
  <2>2. BuysIn(more, i) = BuysIn(tab, i)
    BY <2>1 DEF BuysIn, IsBuyIn
  <2>3. IsFiniteSet(1..i) /\ BuysIn(tab, i) \subseteq 1..i
    BY FS_Interval DEF BuysIn
  <2> QED
    BY <2>2, <2>3, FS_Subset, FS_CardinalityType
<1>3. CASE f.leg = "perp" /\ f.phase # "entry"
  <2>1. IsBuyIn(more, n + 1)
    BY <1>1, <1>3 DEF IsBuyIn
  <2>2. BuysIn(more, n + 1) = BuysIn(more, n) \cup {n + 1} /\ n + 1 \notin BuysIn(more, n)
    BY <1>1, <2>1 DEF BuysIn
  <2>3. BuysIn(more, n) = BuysIn(tab, n) /\ IsFiniteSet(BuysIn(tab, n))
    BY <1>1, <1>2
  <2> QED
    BY <1>2, <1>3, <2>2, <2>3, FS_AddElement DEF n, more
<1>4. CASE ~(f.leg = "perp" /\ f.phase # "entry")
  <2>1. ~IsBuyIn(more, n + 1)
    BY <1>1, <1>4 DEF IsBuyIn
  <2>2. BuysIn(more, n + 1) = BuysIn(more, n)
    BY <1>1, <2>1 DEF BuysIn
  <2>3. BuysIn(more, n) = BuysIn(tab, n) /\ Cardinality(BuysIn(tab, n)) \in Nat
    BY <1>1, <1>2
  <2>4. Cardinality(BuysIn(more, n + 1)) = Cardinality(BuysIn(tab, n)) + 0
    BY <2>2, <2>3
  <2> QED
    BY <1>2, <1>4, <2>4 DEF n, more
<1> QED
  BY <1>2, <1>3, <1>4 DEF n, more

\* A buy of the perp is one more at the venue; anything else is none.
LEMMA MirrorAppend ==
    ASSUME NEW tab \in Seq(Fill), NEW buys \in Seq(Buy), Mirrors(tab, buys), NEW f \in Fill,
           NEW true \in Int, NEW more,
           f.leg = "perp" /\ f.phase # "entry" => more = Append(buys, [qty |-> f.qty, px |-> true]),
           ~(f.leg = "perp" /\ f.phase # "entry") => more = buys /\ f.px = true
    PROVE  /\ more \in Seq(Buy) /\ Mirrors(Append(tab, f), more)
           /\ TrueTab(Append(tab, f), more) = Append(TrueTab(tab, buys), [f EXCEPT !.px = true])
           /\ [f EXCEPT !.px = true] \in Fill
<1> DEFINE n == Len(tab)
           k == Len(buys)
           tab2 == Append(tab, f)
           buy == [qty |-> f.qty, px |-> true]
           g == [f EXCEPT !.px = true]
           isBuy == f.leg = "perp" /\ f.phase # "entry"
<1>1. /\ n \in Nat /\ k \in Nat /\ tab2 \in Seq(Fill) /\ Len(tab2) = n + 1 /\ tab2[n + 1] = f
      /\ DOMAIN tab2 = 1..n + 1 /\ DOMAIN tab = 1..n
      /\ \A i \in 1..n : tab2[i] = tab[i]
  <2>1. k \in Nat /\ DOMAIN tab = 1..n
    OBVIOUS
  <2> HIDE DEF k, n, tab2
  <2> QED
    BY <2>1, Appended DEF n, tab2
<1>2. buy \in Buy /\ g \in Fill
  BY DEF Buy, Fill
<1>3. /\ \A i \in 0..n : BuysIn(tab2, i) = BuysIn(tab, i) /\ Cardinality(BuysIn(tab, i)) \in Nat
      /\ Cardinality(BuysIn(tab2, n + 1)) = k + (IF isBuy THEN 1 ELSE 0)
      /\ Cardinality(BuysIn(tab, n)) = k
  BY BuysInAppend DEF Mirrors
<1>4. /\ more \in Seq(Buy) /\ Len(more) = k + (IF isBuy THEN 1 ELSE 0)
      /\ \A i \in 1..k : i \in 1..Len(more) /\ more[i] = buys[i]
      /\ isBuy => more[k + 1] = buy
  <2> HIDE DEF buy
  <2>1. CASE isBuy
    <3>1. more = Append(buys, buy)
      BY <2>1 DEF buy
    <3>2. buys \in Seq(Buy) /\ Len(buys) = k /\ k \in Nat
      BY <1>1
    <3>3. /\ Append(buys, buy) \in Seq(Buy) /\ Len(Append(buys, buy)) = k + 1
          /\ Append(buys, buy)[k + 1] = buy /\ \A i \in 1..k : Append(buys, buy)[i] = buys[i]
      BY <3>2, <1>2, AppendedBuy
    <3>4. /\ more \in Seq(Buy) /\ Len(more) = k + 1 /\ more[k + 1] = buy
          /\ \A i \in 1..k : more[i] = buys[i]
      BY <3>1, <3>3
    <3>5. \A i \in 1..k : i \in 1..k + 1
      BY <3>2
    <3> HIDE DEF isBuy, k
    <3> QED
      BY <2>1, <3>4, <3>5
  <2>2. CASE ~isBuy
    <3>1. more = buys
      BY <2>2
    <3>2. buys \in Seq(Buy) /\ Len(buys) = k /\ k + 0 = k
      BY <1>1
    <3> HIDE DEF isBuy, k
    <3> QED
      BY <2>2, <3>1, <3>2
  <2> QED
    BY <2>1, <2>2
<1>5. IsBuyIn(tab2, n + 1) <=> isBuy
  BY <1>1 DEF IsBuyIn
<1>6. \A i \in 1..n : IsBuyIn(tab2, i) <=> IsBuyIn(tab, i)
  BY <1>1 DEF IsBuyIn
<1>p. buy.px = true /\ buy.qty = f.qty
  OBVIOUS
<1> HIDE DEF n, k, tab2, buy, isBuy
<1>7. Mirrors(tab2, more)
  <2>1. Len(more) = Cardinality(BuysIn(tab2, Len(tab2)))
    BY <1>1, <1>3, <1>4
  <2>2. ASSUME NEW i \in 1..n + 1, IsBuyIn(tab2, i)
        PROVE  /\ Cardinality(BuysIn(tab2, i)) \in 1..Len(more)
               /\ more[Cardinality(BuysIn(tab2, i))].qty = tab2[i].qty
    <3>1. CASE i = n + 1
      <4>1. isBuy /\ Cardinality(BuysIn(tab2, i)) = k + 1
        BY <2>2, <3>1, <1>3, <1>5
      <4> QED
        BY <3>1, <4>1, <1>1, <1>4, <1>p
    <3>2. CASE i # n + 1
      <4>1. i \in 1..n /\ i \in 0..n
        BY <3>2, <1>1
      <4>2. BuysIn(tab2, i) = BuysIn(tab, i) /\ tab2[i] = tab[i] /\ IsBuyIn(tab, i)
        BY <2>2, <4>1, <1>1, <1>3, <1>6
      <4>3. /\ Cardinality(BuysIn(tab, i)) \in 1..k
            /\ buys[Cardinality(BuysIn(tab, i))].qty = tab[i].qty
        BY <4>1, <4>2, <1>1 DEF Mirrors, k
      <4> QED
        BY <4>2, <4>3, <1>4
    <3> QED
      BY <3>1, <3>2
  <2> QED
    BY <2>1, <2>2, <1>1 DEF Mirrors
<1>8. TrueTab(tab2, more) = Append(TrueTab(tab, buys), g)
  <2> DEFINE t == TrueTab(tab, buys)
             u == TrueTab(tab2, more)
  <2>1. t \in Seq(Fill) /\ Len(t) = n
    BY TrueTabIs DEF n
  <2>2. u \in Seq(Fill) /\ Len(u) = n + 1
    BY <1>1, <1>4, <1>7, TrueTabIs
  <2>3. u[n + 1] = g
    <3>1. u[n + 1] = [f EXCEPT !.px = IF IsBuyIn(tab2, n + 1)
                                      THEN more[Cardinality(BuysIn(tab2, n + 1))].px ELSE f.px]
      <4>1. n + 1 \in DOMAIN tab2
        BY <1>1
      <4>2. u[n + 1] = [tab2[n + 1] EXCEPT !.px = IF IsBuyIn(tab2, n + 1)
                                      THEN more[Cardinality(BuysIn(tab2, n + 1))].px ELSE tab2[n + 1].px]
        BY <4>1 DEF TrueTab
      <4> QED
        BY <4>2, <1>1
    <3>2. (IF IsBuyIn(tab2, n + 1) THEN more[Cardinality(BuysIn(tab2, n + 1))].px ELSE f.px) = true
      <4>1. CASE isBuy
        BY <4>1, <1>3, <1>4, <1>5, <1>p
      <4>2. CASE ~isBuy
        BY <4>2, <1>5 DEF isBuy
      <4> QED
        BY <4>1, <4>2
    <3> QED
      BY <3>1, <3>2
  <2>4. ASSUME NEW i \in 1..n PROVE u[i] = t[i]
    <3>1. i \in DOMAIN tab2 /\ i \in DOMAIN tab /\ tab2[i] = tab[i] /\ i \in 0..n
      BY <1>1
    <3>2. IsBuyIn(tab, i) => more[Cardinality(BuysIn(tab2, i))] = buys[Cardinality(BuysIn(tab, i))]
      <4> SUFFICES ASSUME IsBuyIn(tab, i)
                   PROVE  more[Cardinality(BuysIn(tab2, i))] = buys[Cardinality(BuysIn(tab, i))]
        OBVIOUS
      <4>1. Cardinality(BuysIn(tab, i)) \in 1..k
        BY <3>1 DEF Mirrors, k
      <4> QED
        BY <4>1, <3>1, <1>3, <1>4
    <3>3. u[i] = [tab[i] EXCEPT !.px = IF IsBuyIn(tab2, i)
                                      THEN more[Cardinality(BuysIn(tab2, i))].px ELSE tab[i].px]
      BY <3>1 DEF TrueTab
    <3>4. t[i] = [tab[i] EXCEPT !.px = IF IsBuyIn(tab, i)
                                      THEN buys[Cardinality(BuysIn(tab, i))].px ELSE tab[i].px]
      BY <3>1 DEF TrueTab
    <3> QED
      BY <3>2, <3>3, <3>4, <1>6
  <2> HIDE DEF t, u, g
  <2>5. Append(t, g) \in Seq(Fill) /\ Len(Append(t, g)) = n + 1 /\ Append(t, g)[n + 1] = g
        /\ \A i \in 1..n : Append(t, g)[i] = t[i]
    BY <1>1, <1>2, <2>1, Appended
  <2>6. \A i \in 1..n + 1 : u[i] = Append(t, g)[i]
    BY <1>1, <2>3, <2>4, <2>5
  <2> QED
    BY <1>1, <2>2, <2>5, <2>6 DEF t, u
<1> QED
  BY <1>2, <1>4, <1>7, <1>8 DEF tab2

\* The newest buys that make up as much as the last of them are the last of them.
LEMMA LastBuyIsNewest ==
    ASSUME bought \in Seq(Buy), bought # << >>
    PROVE  LET last == bought[Len(bought)] IN
           /\ NewestBuys(last.qty).d = last.qty
           /\ NewestBuys(last.qty).n = last.qty * last.px
<1> DEFINE k == Len(bought)
           last == bought[k]
           q == last.qty
           t == Taken(bought, q)
           f == [i \in DOMAIN t |-> t[i] * bought[i].px]
<1>1. k \in Nat /\ k \in 1..k /\ DOMAIN bought = 1..k /\ \A i \in 1..k : bought[i] \in Buy
  OBVIOUS
<1> HIDE DEF k
<1>2. \A i \in 1..k : bought[i].qty \in Nat \ {0} /\ bought[i].qty \in Nat /\ bought[i].px \in Int
  BY <1>1 DEF Buy
<1>3. \A s \in SUBSET (1..k) : QtyOf(bought, s) \in Int /\ (s = {} => QtyOf(bought, s) = 0)
  <2> SUFFICES ASSUME NEW s \in SUBSET (1..k)
               PROVE  QtyOf(bought, s) \in Int /\ (s = {} => QtyOf(bought, s) = 0)
    OBVIOUS
  <2>1. IsFiniteSet(s) /\ \A i \in s : bought[i].qty \in Int
    BY <1>1, <1>2, FS_Interval, FS_Subset
  <2> QED
    BY <2>1, QtyOfTakesAny
<1>b. bought \in Seq(Lot)
  <2>1. Buy \subseteq Lot
    BY DEF Buy, Lot
  <2>2. bought \in [1..k -> Lot]
    BY <1>1, <2>1
  <2> QED
    BY <1>1, <2>2
<1>4. DOMAIN t = 1..k
      /\ \A i \in 1..k : t[i] = Max({0, Min({bought[i].qty, q - QtyOf(bought, i + 1 .. k)})})
  BY <1>1 DEF Taken, k
<1>q. q \in Nat \ {0} /\ q \in Int /\ q \in Nat
  BY <1>1, <1>2
<1>5. ASSUME NEW i \in 1..k PROVE t[i] = IF i = k THEN q ELSE 0
  <2> DEFINE later == QtyOf(bought, i + 1 .. k)
  <2>1. i + 1 .. k \in SUBSET (1..k) /\ (i = k => i + 1 .. k = {})
    BY <1>1
  <2>2. later \in Int /\ (i = k => later = 0)
    BY <1>3, <2>1
  <2>3. i # k => later >= q
    <3> SUFFICES ASSUME i # k PROVE later >= q
      OBVIOUS
    <3> DEFINE S == i + 1 .. k
    <3>1. k \in S /\ IsFiniteSet(S) /\ S \ {k} \in SUBSET (1..k) /\ \A j \in S : bought[j].qty \in Int
      <4>1. k \in S /\ S \subseteq 1..k
        BY <1>1
      <4>2. IsFiniteSet(1..k)
        BY <1>1, FS_Interval
      <4> HIDE DEF S
      <4>3. IsFiniteSet(S) /\ S \ {k} \in SUBSET (1..k)
        BY <4>1, <4>2, FS_Subset
      <4>4. \A j \in S : bought[j].qty \in Int
        BY <4>1, <1>2
      <4> QED
        BY <4>1, <4>3, <4>4
    <3>2. later = q + QtyOf(bought, S \ {k})
      BY <3>1, QtyOfTakesAny
    <3>3. QtyOf(bought, S \ {k}) \in Nat
      BY <1>1, <1>b, <3>1, LotsSum
    <3> QED
      BY <3>2, <3>3, <1>q
  <2>4. bought[i].qty \in Nat /\ q - later \in Int /\ (i = k => bought[i].qty = q)
    BY <1>2, <2>2, <1>q
  <2>5. t[i] = IF q - later <= 0 THEN 0 ELSE IF bought[i].qty <= q - later THEN bought[i].qty ELSE q - later
    <3> HIDE DEF q, t
    <3> QED
      BY <1>4, <2>4, Clipped
  <2> HIDE DEF later, q, t
  <2> QED
    BY <2>2, <2>3, <2>4, <2>5, <1>q
<1> HIDE DEF t
<1>6. DOMAIN f = 1..k /\ \A i \in 1..k : f[i] = IF i = k THEN q * last.px ELSE 0
  <2>1. ASSUME NEW i \in 1..k PROVE t[i] * bought[i].px = IF i = k THEN q * last.px ELSE 0
    <3>1. bought[i].px \in Int
      BY <1>2
    <3>2. CASE i = k
      BY <3>2, <1>5
    <3>3. CASE i # k
      <4>1. t[i] * bought[i].px = 0 * bought[i].px
        BY <3>3, <1>5
      <4> QED
        BY <3>1, <3>3, <4>1
    <3> QED
      BY <3>2, <3>3
  <2> QED
    BY <1>4, <2>1
<1>7. ASSUME NEW g, NEW x \in Int, DOMAIN g = 1..k, \A i \in 1..k : g[i] = IF i = k THEN x ELSE 0
      PROVE  SumFunction(g) = x
  <2> DEFINE S == 1..k \ {k}
             h == [i \in S |-> g[i]]
  <2>1. IsFiniteSet(1..k) /\ IsFiniteSet(S)
    <3>1. IsFiniteSet(1..k)
      BY <1>1, FS_Interval
    <3> QED
      BY <3>1, FS_Subset
  <2>2. \A i \in DOMAIN g : g[i] \in Int
    BY <1>7
  <2>3. SumFunction(g) = g[k] + SumFunction(h)
    BY <2>1, <2>2, <1>1, <1>7, FunctionSum
  <2>4. DOMAIN h = S /\ \A i \in S : h[i] = 0
    BY <1>7
  <2> HIDE DEF h
  <2>5. SumFunction(h) = SumFunctionOnSet(h, S)
    BY <2>4 DEF SumFunction
  <2>6. \A i \in S : h[i] \in Int /\ h[i] = h[i] + h[i]
    BY <2>4
  <2>7. SumFunctionOnSet(h, S) = SumFunctionOnSet(h, S) + SumFunctionOnSet(h, S)
    BY <2>1, <2>6, SumOfSums
  <2>8. SumFunctionOnSet(h, S) \in Int
    BY <2>1, <2>6, SumIsInt
  <2>9. SumFunction(h) = 0
    BY <2>5, <2>7, <2>8
  <2> QED
    BY <2>3, <2>9, <1>1, <1>7
<1>8. SumFunction(t) = q
  BY <1>4, <1>5, <1>7, <1>q
<1>9. SumFunction(f) = q * last.px
  <2>1. q * last.px \in Int
    BY <1>1, <1>2, <1>q, ProductIsInt
  <2> DEFINE x == q * last.px
  <2>2. \A i \in 1..k : f[i] = IF i = k THEN x ELSE 0
    BY <1>6
  <2> HIDE DEF x, f
  <2> QED
    BY <2>1, <2>2, <1>6, <1>7 DEF x
<1> QED
  BY <1>8, <1>9 DEF NewestBuys, PaidFor, WorthOf, Frac, t, k
\* A fraction that is a whole number.
IsWhole(x, a) == x \in Fraction /\ x.d # 0 /\ x.n = a * x.d

LEMMA WholeIsSame ==
    ASSUME NEW x, NEW a \in Int, IsWhole(x, a) PROVE Same(x, Frac(a, 1))
<1>1. x.n \in Int /\ x.d \in Int /\ x.d # 0 /\ x.n = a * x.d
  BY DEF IsWhole, Fraction
<1>2. x.n * 1 = a * x.d
  BY <1>1
<1> QED
  BY <1>1, <1>2 DEF Same, Frac

LEMMA IntIsWhole == ASSUME NEW a \in Int PROVE IsWhole(Frac(a, 1), a)
  BY DEF IsWhole, Frac, Fraction

LEMMA Distributes ==
    ASSUME NEW a \in Int, NEW b \in Int, NEW c \in Int
    PROVE  (a + b) * c = a * c + b * c /\ (a - b) * c = a * c - b * c
  OBVIOUS

LEMMA Regroups ==
    ASSUME NEW a \in Int, NEW b \in Int, NEW c \in Int
    PROVE  (a * b) * c = a * (b * c) /\ (a * b) * c = (a * c) * b /\ a * b = b * a /\ a * b \in Int
  OBVIOUS

LEMMA PlusIsWhole ==
    ASSUME NEW x, NEW y, NEW a \in Int, NEW b \in Int, IsWhole(x, a), IsWhole(y, b)
    PROVE  IsWhole(Plus(x, y), a + b)
<1> DEFINE d == x.d
           e == y.d
<1>1. d \in Int /\ e \in Int /\ d # 0 /\ e # 0 /\ x.n = a * d /\ y.n = b * e
  BY DEF IsWhole, Fraction
<1>2. Plus(x, y) \in Fraction
  BY PlusType DEF IsWhole
<1>3. Plus(x, y).n = (a * d) * e + (b * e) * d /\ Plus(x, y).d = d * e
  BY <1>1 DEF Plus, Frac
<1> HIDE DEF d, e
<1>4. d * e # 0 /\ d * e \in Int
  BY <1>1, NonZeroProduct
<1>5. (a * d) * e = a * (d * e)
  BY <1>1, Regroups
<1>6. (b * e) * d = b * (d * e)
  BY <1>1, Regroups
<1>7. a * (d * e) + b * (d * e) = (a + b) * (d * e)
  BY <1>4, Distributes
<1> QED
  BY <1>2, <1>3, <1>4, <1>5, <1>6, <1>7 DEF IsWhole

\* What a leg gained that is bought and sold to the last coin.
LEMMA GainIsWhole ==
    ASSUME NEW tab \in Seq(Fill), NEW l \in Leg, NEW sold \in Fraction, NEW paid \in Fraction,
           NEW s \in Int, NEW p \in Int, NEW k \in Nat,
           Held(Walked(tab, l)) = k, Walked(tab, l).out = k,
           k # 0 => Same(sold, Frac(s, k)) /\ Same(paid, Frac(p, k)), k = 0 => s = 0 /\ p = 0
    PROVE  IsWhole(Gain(sold, paid, Derive(tab, l)), s - p)
<1> DEFINE d == Derive(tab, l)
           sn == sold.n
           sd == sold.d
           pn == paid.n
           pd == paid.d
<1>1. d.entered = k /\ d.exited = k
  BY DeriveIs
<1>2. Min({d.entered, d.exited}) = k
  BY <1>1, SmallerOf
<1>3. sn \in Int /\ sd \in Int /\ pn \in Int /\ pd \in Int
  BY DEF Fraction
<1> DEFINE g == (sn * pd - pn * sd) * k
<1>4. Gain(sold, paid, d) = IF sd = 0 \/ pd = 0 THEN Frac(0, 1) ELSE Frac(g, sd * pd)
  BY <1>2 DEF Gain
<1>5. CASE sd = 0 \/ pd = 0
  <2>1. k = 0
    BY <1>5 DEF Same, Frac
  <2>2. Gain(sold, paid, d) = Frac(0, 1) /\ s - p = 0
    BY <1>4, <1>5, <2>1
  <2> QED
    BY <2>2, IntIsWhole
<1>6. CASE sd # 0 /\ pd # 0
  <2>0. k # 0 => sn * k = s * sd /\ pn * k = p * pd
    BY <1>6 DEF Same, Frac
  <2> HIDE DEF sn, sd, pn, pd
  <2>1. sd * pd # 0 /\ sd * pd \in Int
    BY <1>3, <1>6, NonZeroProduct
  <2>2. sn * k = s * sd /\ pn * k = p * pd
    <3>1. CASE k = 0
      BY <3>1, <1>3
    <3>2. CASE k # 0
      BY <3>2, <2>0
    <3> QED
      BY <3>1, <3>2
  <2>3. sn * pd \in Int /\ pn * sd \in Int
    BY <1>3, Regroups
  <2>4. g = (sn * pd) * k - (pn * sd) * k
    BY <2>3, Distributes
  <2>5. (sn * pd) * k = (s * sd) * pd
    BY <1>3, <2>2, Regroups
  <2>6. (pn * sd) * k = (p * pd) * sd
    BY <1>3, <2>2, Regroups
  <2>7. (s * sd) * pd = s * (sd * pd)
    BY <1>3, Regroups
  <2>8. (p * pd) * sd = p * (sd * pd)
    <3>1. (p * pd) * sd = (p * sd) * pd /\ (p * sd) * pd = p * (sd * pd)
      BY <1>3, Regroups
    <3> QED
      BY <3>1
  <2>9. g = (s - p) * (sd * pd)
    BY <2>1, <2>4, <2>5, <2>6, <2>7, <2>8, Distributes
  <2>10. g \in Int
    BY <2>1, <2>9
  <2> HIDE DEF g
  <2>11. Gain(sold, paid, d) = Frac(g, sd * pd)
    BY <1>4, <1>6
  <2> HIDE DEF d
  <2> QED
    BY <2>1, <2>9, <2>10, <2>11 DEF IsWhole, Frac, Fraction, d
<1> QED
  BY <1>5, <1>6

\* No unwind took more than was held.
NoneOver(tab) == \A l \in Leg : Walked(tab, l).over = 0

\* A row that says what the fills say and holds nothing has realised their money.
LEMMA PnlIsMoney ==
    ASSUME NEW tab \in Seq(Fill), NEW bk \in Row, Derived(tab, bk), NoneOver(tab),
           \A l \in Leg : Derive(tab, l).qty = 0
    PROVE  IsWhole(Pnl(tab, bk), MoneyOf(tab) - Len(tab))
<1> DEFINE w(l) == Walked(tab, l)
           b(l) == bk.leg[l]
           d(l) == Derive(tab, l)
<1>1. ASSUME NEW l \in Leg
      PROVE  /\ b(l).entry \in Fraction /\ b(l).exit \in Fraction
             /\ Spent(w(l)) \in Int /\ w(l).got \in Int /\ w(l).back \in Int /\ w(l).undo \in Int
             /\ Held(w(l)) \in Nat /\ w(l).out = Held(w(l))
             /\ Held(w(l)) # 0 => /\ Same(b(l).entry, Frac(Spent(w(l)), Held(w(l))))
                                  /\ Same(b(l).exit, Frac(w(l).got, Held(w(l))))
             /\ Held(w(l)) = 0 => Spent(w(l)) = 0 /\ w(l).got = 0
             /\ d(l).unwind = IF l = "perp" THEN w(l).back - w(l).undo ELSE -(w(l).back - w(l).undo)
  <2>1. /\ w(l) \in WalkState /\ Held(w(l)) \in Nat /\ Spent(w(l)) \in Int
        /\ d(l).qty = Held(w(l)) - w(l).over - w(l).out
        /\ d(l).entry = Frac(Spent(w(l)), Held(w(l))) /\ d(l).exit = Frac(w(l).got, w(l).out)
        /\ d(l).unwind = IF l = "perp" THEN w(l).back - w(l).undo ELSE -(w(l).back - w(l).undo)
    BY DeriveIs
  <2>2. w(l).over = 0 /\ d(l).qty = 0
    BY DEF NoneOver
  <2>3. w(l).open \in Seq(Lot) /\ w(l).out \in Nat /\ w(l).got \in Int /\ w(l).back \in Int
        /\ w(l).undo \in Int /\ (w(l).out = 0 => w(l).got = 0)
    BY <2>1 DEF WalkState
  <2>4. b(l).entry \in Fraction /\ b(l).exit \in Fraction
    BY DEF Row, LegRow
  <2>5. /\ d(l).entry.d # 0 => Same(b(l).entry, d(l).entry)
        /\ d(l).exit.d # 0 => Same(b(l).exit, d(l).exit)
    BY DEF Derived
  <2>6. Held(w(l)) = 0 => Spent(w(l)) = 0
    BY <2>3, LotsSum DEF Held, Spent
  <2> HIDE DEF w, b, d
  <2>7. w(l).out = Held(w(l))
    BY <2>1, <2>2, <2>3
  <2> QED
    BY <2>1, <2>3, <2>4, <2>5, <2>6, <2>7 DEF Frac
<1>2. "perp" \in Leg /\ "spot" \in Leg
  BY DEF Leg
<1>3. IsWhole(Gain(b("perp").entry, b("perp").exit, d("perp")), Spent(w("perp")) - w("perp").got)
  <2> HIDE DEF b
  <2> QED
    BY <1>1, <1>2, GainIsWhole
<1>4. IsWhole(Gain(b("spot").exit, b("spot").entry, d("spot")), w("spot").got - Spent(w("spot")))
  <2> HIDE DEF b
  <2> QED
    BY <1>1, <1>2, GainIsWhole
<1>5. bk.unwind = d("perp").unwind + d("spot").unwind /\ bk.fees = Len(tab) /\ Len(tab) \in Nat
  BY DEF Derived
<1>6. Pnl(tab, bk) = Plus(Plus(Gain(b("perp").entry, b("perp").exit, d("perp")),
                               Gain(b("spot").exit, b("spot").entry, d("spot"))),
                          Frac(bk.unwind - bk.fees, 1))
  BY DEF Pnl
<1>7. MoneyOf(tab) = LegCash(w("perp"), "perp") + LegCash(w("spot"), "spot")
  BY DEF MoneyOf
<1> HIDE DEF b, w, d
<1>p. d("perp").unwind = w("perp").back - w("perp").undo
  BY <1>1, <1>2
<1>s. d("spot").unwind = -(w("spot").back - w("spot").undo)
  BY <1>1, <1>2
<1> DEFINE gp == Spent(w("perp")) - w("perp").got
           gs == w("spot").got - Spent(w("spot"))
           u == bk.unwind - bk.fees
<1>i. /\ Spent(w("perp")) \in Int /\ w("perp").got \in Int /\ w("perp").back \in Int /\ w("perp").undo \in Int
      /\ Spent(w("spot")) \in Int /\ w("spot").got \in Int /\ w("spot").back \in Int /\ w("spot").undo \in Int
  BY <1>1, <1>2
<1>c. /\ LegCash(w("perp"), "perp") = Spent(w("perp")) + w("perp").back - w("perp").got - w("perp").undo
      /\ LegCash(w("spot"), "spot") = 0 - (Spent(w("spot")) + w("spot").back - w("spot").got - w("spot").undo)
  BY DEF LegCash
<1>8. gp \in Int /\ gs \in Int /\ u \in Int
  <2>1. gp \in Int
    BY <1>i
  <2>2. gs \in Int
    BY <1>i
  <2>3. bk.unwind \in Int /\ bk.fees \in Int
    BY DEF Row
  <2> QED
    BY <2>1, <2>2, <2>3
<1>9. gp + gs + u = MoneyOf(tab) - Len(tab)
  <2>1. bk.unwind = w("perp").back - w("perp").undo + (-(w("spot").back - w("spot").undo))
    BY <1>5, <1>p, <1>s
  <2>2. MoneyOf(tab) = (Spent(w("perp")) + w("perp").back - w("perp").got - w("perp").undo)
                       + (0 - (Spent(w("spot")) + w("spot").back - w("spot").got - w("spot").undo))
    BY <1>c, <1>7
  <2>3. Len(tab) \in Int /\ u = bk.unwind - Len(tab)
    BY <1>5
  <2> DEFINE n == Len(tab)
             pIn == Spent(w("perp"))
             pGot == w("perp").got
             pBack == w("perp").back
             pUndo == w("perp").undo
             sIn == Spent(w("spot"))
             sGot == w("spot").got
             sBack == w("spot").back
             sUndo == w("spot").undo
  <2>4. /\ pIn \in Int /\ pGot \in Int /\ pBack \in Int /\ pUndo \in Int
        /\ sIn \in Int /\ sGot \in Int /\ sBack \in Int /\ sUndo \in Int /\ n \in Int
    BY <1>i, <2>3
  <2>5. /\ gp = pIn - pGot /\ gs = sGot - sIn
        /\ bk.unwind = pBack - pUndo + (-(sBack - sUndo)) /\ u = bk.unwind - n
        /\ MoneyOf(tab) = (pIn + pBack - pGot - pUndo) + (0 - (sIn + sBack - sGot - sUndo))
    BY <2>1, <2>2, <2>3
  <2> HIDE DEF u, gp, gs, n, pIn, pGot, pBack, pUndo, sIn, sGot, sBack, sUndo
  <2>6. gp + gs + u = MoneyOf(tab) - n
    BY <2>4, <2>5
  <2> QED
    BY <2>6 DEF n
<1> HIDE DEF gp, gs, u
<1>10. IsWhole(Frac(u, 1), u)
  BY <1>8, IntIsWhole
<1>11. IsWhole(Plus(Gain(b("perp").entry, b("perp").exit, d("perp")),
                    Gain(b("spot").exit, b("spot").entry, d("spot"))), gp + gs)
  BY <1>3, <1>4, <1>8, PlusIsWhole DEF gp, gs
<1>12. gp + gs \in Int
  BY <1>8
<1>13. IsWhole(Pnl(tab, bk), gp + gs + u)
  BY <1>6, <1>8, <1>10, <1>11, <1>12, PlusIsWhole DEF u
<1> QED
  BY <1>9, <1>13

\* A walk does not look at what was a guess.
LEMMA WalkedSame ==
    ASSUME NEW tab \in Seq(Fill), NEW tab2 \in Seq(Fill), Len(tab) = Len(tab2),
           \A i \in 1..Len(tab) : /\ tab[i].leg = tab2[i].leg /\ tab[i].phase = tab2[i].phase
                                  /\ tab[i].qty = tab2[i].qty /\ tab[i].px = tab2[i].px,
           NEW l
    PROVE  Walked(tab, l) = Walked(tab2, l)
<1> DEFINE k == Len(tab)
           good(n) == WalkedTo(tab, l, n) = WalkedTo(tab2, l, n)
           bad == {n \in 0..k : ~ good(n)}
<1>k. k \in Nat
  OBVIOUS
<1>1. bad = {}
  <2> SUFFICES ASSUME bad # {} PROVE FALSE
    OBVIOUS
  <2>2. PICK n \in bad : \A m \in bad : n <= m
    <3>1. bad \subseteq Nat
      OBVIOUS
    <3> HIDE DEF bad
    <3> QED
      BY <3>1, LeastNatural
  <2>3. n # 0
    BY WalkedToStep
  <2>4. n - 1 \in 0..k /\ n - 1 \notin bad /\ n \in 1..k
    BY <2>2, <2>3, <1>k
  <2>5. /\ WalkedTo(tab, l, n) = LegWalk(WalkedTo(tab, l, n - 1), tab[n], l)
        /\ WalkedTo(tab2, l, n) = LegWalk(WalkedTo(tab2, l, n - 1), tab2[n], l)
    BY <2>4, WalkedToStep
  <2>6. good(n - 1)
    BY <2>4
  <2>7. \A w : LegWalk(w, tab[n], l) = LegWalk(w, tab2[n], l)
    <3>1. /\ tab[n].leg = tab2[n].leg /\ tab[n].phase = tab2[n].phase
          /\ tab[n].qty = tab2[n].qty /\ tab[n].px = tab2[n].px
      BY <2>4
    <3> QED
      BY <3>1 DEF LegWalk, Walk
  <2>8. good(n)
    BY <2>5, <2>6, <2>7
  <2> QED
    BY <2>8
<1>2. k \notin bad /\ k \in 0..k
  BY <1>1, <1>k
<1>3. good(k)
  BY <1>2
<1> QED
  BY <1>3, WalkedToStep

\* Only a price that is marked as a guess differs from the venue's.
Honest(tab, buys) ==
    \A i \in DOMAIN tab : ~tab[i].synth => tab[i].px = TrueTab(tab, buys)[i].px

\* A closed position holds nothing, and what it realised is what its fills give.
Booked ==
    shut => /\ step \in {"none", "truefill"}
            /\ \A l \in Leg : Derive(fills, l).qty = 0
            /\ step = "none" => realised = Pnl(fills, book)

\* The money that moved is what the fills say at the venues' prices.
MoneyInv ==
    /\ LedgerInv /\ Mirrors(fills, bought) /\ Honest(fills, bought) /\ NoneOver(fills)
    /\ cash = MoneyOf(TrueTab(fills, bought))
    /\ Booked

LEMMA MoneyTypes ==
    ASSUME MoneyInv
    PROVE  /\ fills \in Seq(Fill) /\ bought \in Seq(Buy) /\ cash \in Int /\ Len(fills) \in Nat
           /\ DOMAIN fills = 1..Len(fills) /\ \A i \in 1..Len(fills) : fills[i] \in Fill
           /\ TrueTab(fills, bought) \in Seq(Fill)
<1>1. fills \in Seq(Fill) /\ bought \in Seq(Buy) /\ cash \in Int /\ Mirrors(fills, bought)
  BY DEF MoneyInv, LedgerInv, LedgerTypes
<1>2. TrueTab(fills, bought) \in Seq(Fill)
  BY <1>1, TrueTabIs
<1> QED
  BY <1>1, <1>2

LEMMA InitMoneyInv == LedgerInit => MoneyInv
<1> SUFFICES ASSUME LedgerInit PROVE MoneyInv
  OBVIOUS
<1>0. fills = << >> /\ bought = << >> /\ cash = 0 /\ shut = FALSE
  BY DEF LedgerInit
<1>d. DOMAIN fills = {} /\ Len(fills) = 0 /\ fills \in Seq(Fill) /\ Len(bought) = 0
  BY <1>0
<1>1. LedgerInv
  BY InitLedgerInv
<1>2. Mirrors(fills, bought)
  <2>1. BuysIn(fills, 0) = {}
    BY DEF BuysIn
  <2> QED
    BY <1>d, <2>1, FS_EmptySet DEF Mirrors
<1>3. Honest(fills, bought)
  BY <1>d DEF Honest
<1>4. TrueTab(fills, bought) = << >>
  <2>1. TrueTab(fills, bought) = [i \in {} |-> i]
    BY <1>d DEF TrueTab
  <2>2. << >> = [i \in {} |-> i]
    OBVIOUS
  <2> QED
    BY <2>1, <2>2
<1>5. ASSUME NEW l PROVE Walked(<< >>, l) = NoWalk
  <2>1. << >> \in Seq(Fill) /\ Len(<< >>) = 0
    OBVIOUS
  <2> QED
    BY <2>1, WalkedToStep
<1>6. NoneOver(fills)
  BY <1>0, <1>5 DEF NoneOver, NoWalk
<1>7. MoneyOf(TrueTab(fills, bought)) = 0
  <2>1. ASSUME NEW l PROVE LegCash(NoWalk, l) = 0
    <3>1. Spent(NoWalk) = 0 /\ NoWalk.back = 0 /\ NoWalk.got = 0 /\ NoWalk.undo = 0
      BY NoWalkType DEF NoWalk
    <3> QED
      BY <3>1 DEF LegCash
  <2>2. MoneyOf(<< >>) = LegCash(NoWalk, "perp") + LegCash(NoWalk, "spot")
    BY <1>5 DEF MoneyOf
  <2> QED
    BY <1>4, <2>1, <2>2
<1> QED
  BY <1>0, <1>1, <1>2, <1>3, <1>6, <1>7 DEF MoneyInv, Booked

LEMMA RecordFillKeepsMoney ==
    ASSUME MoneyInv, NEW l \in Leg, NEW phase \in Phase, NEW q \in Qty, NEW px \in Price,
           NEW true \in Price, RecordFill(l, phase, q, px, true)
    PROVE  MoneyInv'
<1> DEFINE synth == px # true
           f == [leg |-> l, phase |-> phase, qty |-> q, px |-> px, synth |-> synth]
           g == [f EXCEPT !.px = true]
           tab == Append(fills, f)
           isBuy == f.leg = "perp" /\ f.phase # "entry"
           t == TrueTab(fills, bought)
           n == Len(fills)
<1>1. q \in Nat \ {0} /\ q \in Int /\ px \in Int /\ true \in Int /\ q * true \in Int
  BY LedgerAssumption, ProductIsInt
<1>2. f \in Fill /\ f.leg = l /\ f.phase = phase /\ f.qty = q /\ f.px = px /\ f.synth = synth
  <2>1. synth \in BOOLEAN
    OBVIOUS
  <2> HIDE DEF synth
  <2> QED
    BY <1>1, <2>1 DEF Fill
<1>g. g.leg = l /\ g.phase = phase /\ g.qty = q /\ g.px = true
  OBVIOUS
<1>3. /\ step = "none" /\ ~shut /\ fills' = tab /\ UNCHANGED <<realised, shut>>
      /\ synth => l = "perp" /\ phase = "exit"
      /\ phase = "unwind" => l = "perp"
      /\ phase # "entry" => q <= book.leg[l].qty
      /\ Trades(l, phase, q, true)
  BY DEF RecordFill
<1>t. /\ fills \in Seq(Fill) /\ bought \in Seq(Buy) /\ cash \in Int /\ n \in Nat
      /\ t \in Seq(Fill) /\ Len(t) = n
      /\ Mirrors(fills, bought) /\ NoneOver(fills) /\ Derived(fills, book)
      /\ cash = MoneyOf(t) /\ Honest(fills, bought)
  BY <1>3, MoneyTypes, TrueTabIs, RowIsDerivedIs DEF MoneyInv, LedgerInv
<1>s. ~isBuy => f.px = true
  BY <1>2, <1>3
<1>b. /\ isBuy => bought' = Append(bought, [qty |-> f.qty, px |-> true])
      /\ ~isBuy => bought' = bought
  BY <1>2, <1>3 DEF Trades
<1>y. fills \in Seq(Fill) /\ f \in Fill
  BY <1>2, <1>t
<1>c. cash' = cash + PaidIn(g)
  <2>1. cash' = cash + (IF (l = "perp") = (phase = "entry") THEN q * true ELSE -(q * true))
    BY <1>3 DEF Trades
  <2> HIDE DEF g
  <2> QED
    BY <1>g, <2>1 DEF PaidIn, Sells
<1> HIDE DEF f, synth, g, t
<1>4. /\ bought' \in Seq(Buy) /\ Mirrors(tab, bought')
      /\ TrueTab(tab, bought') = Append(t, g) /\ g \in Fill
  <2>1. fills \in Seq(Fill) /\ f \in Fill /\ bought \in Seq(Buy) /\ Mirrors(fills, bought) /\ true \in Int
    BY <1>1, <1>2, <1>t
  <2> QED
    BY <2>1, <1>s, <1>b, MirrorAppend DEF g, t
<1>5. MoneyOf(Append(t, g)) = MoneyOf(t) + PaidIn(g)
  BY <1>4, <1>t, MoneyAppend
<1>6. cash' = MoneyOf(TrueTab(fills', bought'))
  BY <1>3, <1>4, <1>5, <1>c, <1>t
<1>7. Honest(tab, bought')
  <2>1. /\ DOMAIN tab = 1..n + 1 /\ tab[n + 1] = f /\ DOMAIN fills = 1..n
        /\ \A i \in 1..n : tab[i] = fills[i]
    <3>1. DOMAIN fills = 1..n
      BY <1>y
    <3> QED
      BY <1>y, <3>1, Appended
  <2>2. Append(t, g)[n + 1] = g /\ \A i \in 1..n : Append(t, g)[i] = t[i]
    <3>1. t \in Seq(Fill) /\ Len(t) = n /\ g \in Fill
      BY <1>4, <1>t
    <3> HIDE DEF n
    <3> QED
      BY <3>1, Appended
  <2> SUFFICES ASSUME NEW i \in 1..n + 1, ~tab[i].synth
               PROVE  tab[i].px = Append(t, g)[i].px
    BY <1>4, <2>1 DEF Honest
  <2>3. CASE i = n + 1
    BY <2>1, <2>2, <2>3, <1>2, <1>g DEF synth
  <2>4. CASE i # n + 1
    <3>1. i \in 1..n
      BY <2>4, <1>t
    <3>2. ~fills[i].synth
      BY <3>1, <2>1
    <3>3. fills[i].px = t[i].px
      BY <3>1, <3>2, <2>1, <1>t DEF Honest, t
    <3> QED
      BY <3>1, <3>3, <2>1, <2>2
  <2> QED
    BY <2>3, <2>4
<1>8. NoneOver(tab)
  <2> SUFFICES ASSUME NEW k \in Leg PROVE Walked(tab, k).over = 0
    BY DEF NoneOver
  <2> DEFINE w == Walked(fills, k)
  <2>1. Walked(tab, k) = LegWalk(w, f, k) /\ w \in WalkState /\ w.over = 0
    BY <1>2, <1>t, WalkedAppend, WalkedType DEF NoneOver
  <2>2. CASE k # l
    BY <2>1, <2>2, <1>2 DEF LegWalk
  <2>3. CASE k = l /\ phase = "entry"
    <3>1. Walked(tab, k) = Walk(w, f) /\ f.phase = "entry"
      BY <2>1, <2>3, <1>2 DEF LegWalk
    <3>2. Walk(w, f) = [w EXCEPT !.open = Walk(w, f).open]
      BY <2>1, <3>1, <1>y, EntryWalk
    <3> HIDE DEF w
    <3> QED
      BY <2>1, <3>1, <3>2 DEF WalkState
  <2>4. CASE k = l /\ phase = "exit"
    <3>1. Walked(tab, k) = Walk(w, f) /\ f.phase = "exit"
      BY <2>1, <2>4, <1>2 DEF LegWalk
    <3>2. Walk(w, f) = [w EXCEPT !.out = w.out + f.qty, !.got = w.got + f.qty * f.px]
      BY <2>1, <3>1, <1>y, ExitWalk
    <3> HIDE DEF w
    <3> QED
      BY <2>1, <3>1, <3>2 DEF WalkState
  <2>5. CASE k = l /\ phase = "unwind"
    <3>1. Walked(tab, k) = Walk(w, f) /\ f.phase = "unwind" /\ f.qty = q
      BY <2>1, <2>5, <1>2 DEF LegWalk
    <3>2. book.leg[k].qty = Derive(fills, k).qty
      BY <1>t DEF Derived
    <3>3. Derive(fills, k).qty = Held(w) - w.over - w.out /\ Held(w) \in Nat
      BY <1>t, DeriveIs
    <3>4. q <= book.leg[k].qty /\ w.out \in Nat
      BY <2>1, <2>5, <1>3 DEF WalkState
    <3> HIDE DEF w
    <3>5. f.qty <= Held(w)
      BY <2>1, <3>1, <3>2, <3>3, <3>4, <1>1
    <3> QED
      BY <2>1, <3>1, <3>5, <1>2, UnwindWalk
  <2> QED
    BY <2>2, <2>3, <2>4, <2>5 DEF Phase
<1>9. LedgerInv'
  BY RecordFillKeepsInv DEF MoneyInv
<1>10. Booked'
  BY <1>3 DEF Booked
<1> HIDE DEF tab
<1> QED
  BY <1>3, <1>4, <1>6, <1>7, <1>8, <1>9, <1>10 DEF MoneyInv, Mirrors, Honest, NoneOver
LEMMA Divides == ASSUME NEW q \in Nat \ {0}, NEW p \in Int PROVE (q * p) \div q = p
<1> DEFINE m == q * p
           d == m \div q
           r == m % q
<1>1. m \in Int /\ m = p * q
  OBVIOUS
<1>2. d \in Int /\ r \in Int /\ 0 <= r /\ r < q /\ m = q * d + r
  <2> HIDE DEF m
  <2> QED
    BY <1>1
<1> HIDE DEF m, d, r
<1>3. r = q * (p - d)
  <2>1. p * q = d * q + r
    BY <1>1, <1>2, Regroups
  <2>2. (p - d) * q = p * q - d * q
    BY <1>2, Distributes
  <2>3. p * q \in Int /\ d * q \in Int /\ (p - d) * q = q * (p - d)
    BY <1>2, Regroups
  <2> QED
    BY <2>1, <2>2, <2>3, <1>2
<1>4. p - d = 0
  <2>1. CASE p - d >= 1
    <3>1. q * (p - d) >= q
      BY <2>1, <1>2
    <3> QED
      BY <3>1, <1>2, <1>3
  <2>2. CASE p - d <= -1
    <3>1. q * (p - d) <= -q
      BY <2>2, <1>2
    <3> QED
      BY <3>1, <1>2, <1>3
  <2> QED
    BY <2>1, <2>2, <1>2
<1> QED
  BY <1>2, <1>4 DEF d, m

\* A guess that is the last the venue bought is put right.
LEMMA GuessIsCorrected ==
    ASSUME MoneyInv, "other_buys" \notin LedgerFaults, Truefill,
           NEW i \in 1..Len(fills), fills[i].synth
    PROVE  fills'[i].px = bought[Cardinality(BuysIn(fills, i))].px
<1>1. /\ fills \in Seq(Fill) /\ bought \in Seq(Buy) /\ Mirrors(fills, bought)
      /\ LedgerTypes /\ GuessesAreBuys
      /\ Len(fills) \in Nat /\ DOMAIN fills = 1..Len(fills) /\ fills[i] \in Fill
  BY MoneyTypes DEF MoneyInv, LedgerInv
<1>2. fills[i].leg = "perp" /\ fills[i].phase = "exit" /\ bought # << >> /\ IsBuyIn(fills, i)
  BY <1>1 DEF GuessesAreBuys, IsBuyIn
<1>3. \A j \in 1..Len(fills) : j > i /\ fills[j].leg = "perp" => fills[j].phase = "entry"
  <2>1. i \in Guesses
    BY <1>1 DEF Guesses
  <2>2. LastBuy(i)
    BY <2>1 DEF Truefill
  <2> QED
    BY <1>1, <2>2 DEF LastBuy
<1>4. BuysIn(fills, Len(fills)) = BuysIn(fills, i)
  BY <1>1, <1>3 DEF BuysIn, IsBuyIn
<1> DEFINE last == bought[Len(bought)]
           q == fills[i].qty
           b == NewestBuys(q)
<1>5. Cardinality(BuysIn(fills, i)) = Len(bought) /\ last.qty = q
  BY <1>1, <1>2, <1>4 DEF Mirrors
<1>6. b.d = q /\ b.n = q * last.px
  <2>1. b.d = last.qty /\ b.n = last.qty * last.px
    BY <1>1, <1>2, <1>5, LastBuyIsNewest
  <2> QED
    BY <2>1, <1>5
<1>7. fills'[i].px = b.n \div b.d
  BY <1>1, TruefillFills
<1>8. q \in Nat \ {0} /\ last.px \in Int
  <2>1. last \in Buy
    <3>1. Len(bought) \in 1..Len(bought)
      BY <1>1, <1>2
    <3> QED
      BY <1>1, <3>1
  <2> QED
    BY <2>1, <1>1 DEF Buy, Fill
<1> HIDE DEF b, q, last
<1>9. fills'[i].px = last.px
  BY <1>6, <1>7, <1>8, Divides
<1> QED
  BY <1>5, <1>9 DEF last

\* The venue's trades are what they were.
LEMMA TruefillTrades ==
    ASSUME MoneyInv, Truefill
    PROVE  LET t == TrueTab(fills, bought)  u == TrueTab(fills', bought) IN
           /\ Mirrors(fills', bought)
           /\ t \in Seq(Fill) /\ u \in Seq(Fill) /\ Len(t) = Len(fills) /\ Len(u) = Len(fills)
           /\ \A i \in 1..Len(fills) :
                 /\ u[i].leg = t[i].leg /\ u[i].phase = t[i].phase /\ u[i].qty = t[i].qty
                 /\ u[i].px = t[i].px
<1> DEFINE n == Len(fills)
           t == TrueTab(fills, bought)
           u == TrueTab(fills', bought)
<1>1. /\ fills \in Seq(Fill) /\ bought \in Seq(Buy) /\ Mirrors(fills, bought)
      /\ LedgerTypes /\ GuessesAreBuys /\ Honest(fills, bought) /\ NoneOver(fills)
      /\ n \in Nat /\ DOMAIN fills = 1..n /\ \A i \in 1..n : fills[i] \in Fill
      /\ cash = MoneyOf(t) /\ Booked
  BY MoneyTypes DEF MoneyInv, LedgerInv
<1>2. /\ fills' \in Seq(Fill) /\ Len(fills') = n /\ DOMAIN fills' = 1..n
      /\ \A i \in 1..n :
            /\ fills'[i].leg = fills[i].leg /\ fills'[i].phase = fills[i].phase
            /\ fills'[i].qty = fills[i].qty
            /\ ~fills[i].synth => fills'[i] = fills[i]
  <2>1. /\ fills' \in Seq(Fill) /\ Len(fills') = Len(fills)
        /\ \A i \in 1..Len(fills) :
              /\ fills'[i].leg = fills[i].leg /\ fills'[i].phase = fills[i].phase
              /\ fills'[i].qty = fills[i].qty
              /\ ~fills[i].synth => fills'[i] = fills[i]
    BY <1>1, TruefillFills
  <2>2. DOMAIN fills' = 1..Len(fills')
    BY <2>1
  <2> QED
    BY <2>1, <2>2
<1> HIDE DEF n
<1>4. \A i \in 1..n : IsBuyIn(fills', i) <=> IsBuyIn(fills, i)
  BY <1>2 DEF IsBuyIn
<1>5. \A i \in 0..n : BuysIn(fills', i) = BuysIn(fills, i)
  <2> SUFFICES ASSUME NEW i \in 0..n PROVE BuysIn(fills', i) = BuysIn(fills, i)
    OBVIOUS
  <2>1. \A j \in 1..i : j \in 1..n
    BY <1>1
  <2> QED
    BY <1>4, <2>1 DEF BuysIn
<1>6. Mirrors(fills', bought)
  <2>1. n \in 0..n /\ \A i \in 1..n : i \in 0..n
    BY <1>1
  <2>2. BuysIn(fills', Len(fills')) = BuysIn(fills, Len(fills))
    BY <1>2, <1>5, <2>1 DEF n
  <2> QED
    BY <1>1, <1>2, <1>4, <1>5, <2>1, <2>2 DEF Mirrors
<1>7. ASSUME NEW i \in 1..n
      PROVE  /\ u[i].leg = t[i].leg /\ u[i].phase = t[i].phase /\ u[i].qty = t[i].qty
             /\ u[i].px = t[i].px
  <2>1. /\ t[i].leg = fills[i].leg /\ t[i].phase = fills[i].phase /\ t[i].qty = fills[i].qty
        /\ t[i].px = IF IsBuyIn(fills, i) THEN bought[Cardinality(BuysIn(fills, i))].px ELSE fills[i].px
    BY <1>1, TrueTabIs DEF n
  <2>2. /\ u[i].leg = fills'[i].leg /\ u[i].phase = fills'[i].phase /\ u[i].qty = fills'[i].qty
        /\ u[i].px = IF IsBuyIn(fills', i) THEN bought[Cardinality(BuysIn(fills', i))].px ELSE fills'[i].px
    BY <1>1, <1>2, <1>6, TrueTabIs
  <2>3. ~IsBuyIn(fills, i) => fills'[i].px = fills[i].px
    <3> SUFFICES ASSUME ~IsBuyIn(fills, i) PROVE fills'[i].px = fills[i].px
      OBVIOUS
    <3>1. ~fills[i].synth
      BY <1>1 DEF GuessesAreBuys, IsBuyIn
    <3> QED
      BY <3>1, <1>2
  <2>4. BuysIn(fills', i) = BuysIn(fills, i) /\ (IsBuyIn(fills', i) <=> IsBuyIn(fills, i))
    BY <1>1, <1>4, <1>5
  <2> QED
    BY <2>1, <2>2, <2>3, <2>4, <1>2
<1>8. t \in Seq(Fill) /\ u \in Seq(Fill) /\ Len(t) = n /\ Len(u) = n
  BY <1>1, <1>2, <1>6, TrueTabIs DEF n
<1> QED
  BY <1>6, <1>7, <1>8 DEF n, t, u

LEMMA TruefillKeepsMoney ==
    ASSUME MoneyInv, "other_buys" \notin LedgerFaults, Truefill PROVE MoneyInv'
<1> DEFINE n == Len(fills)
           t == TrueTab(fills, bought)
           u == TrueTab(fills', bought)
<1>1. /\ fills \in Seq(Fill) /\ bought \in Seq(Buy) /\ Mirrors(fills, bought)
      /\ LedgerTypes /\ GuessesAreBuys /\ Honest(fills, bought) /\ NoneOver(fills)
      /\ n \in Nat /\ DOMAIN fills = 1..n /\ \A i \in 1..n : fills[i] \in Fill
      /\ cash = MoneyOf(t) /\ Booked
  BY MoneyTypes DEF MoneyInv, LedgerInv
<1>2. /\ fills' \in Seq(Fill) /\ Len(fills') = n /\ DOMAIN fills' = 1..n
      /\ \A i \in 1..n :
            /\ fills'[i].leg = fills[i].leg /\ fills'[i].phase = fills[i].phase
            /\ fills'[i].qty = fills[i].qty
            /\ ~fills[i].synth => fills'[i] = fills[i]
  <2>1. /\ fills' \in Seq(Fill) /\ Len(fills') = Len(fills)
        /\ \A i \in 1..Len(fills) :
              /\ fills'[i].leg = fills[i].leg /\ fills'[i].phase = fills[i].phase
              /\ fills'[i].qty = fills[i].qty
              /\ ~fills[i].synth => fills'[i] = fills[i]
    BY <1>1, TruefillFills
  <2>2. DOMAIN fills' = 1..Len(fills')
    BY <2>1
  <2> QED
    BY <2>1, <2>2
<1>3. UNCHANGED <<book, realised, shut, bought, cash>> /\ step' = "truefill" /\ step = "none"
  BY DEF Truefill
<1> HIDE DEF n
<1>6. Mirrors(fills', bought)
  BY TruefillTrades
<1>7. \A i \in 1..n : /\ u[i].leg = t[i].leg /\ u[i].phase = t[i].phase /\ u[i].qty = t[i].qty
                      /\ u[i].px = t[i].px
  BY TruefillTrades DEF n
<1>8. t \in Seq(Fill) /\ u \in Seq(Fill) /\ Len(t) = n /\ Len(u) = n
  BY TruefillTrades DEF n
<1>9. MoneyOf(u) = MoneyOf(t)
  <2> HIDE DEF t, u
  <2>1. \A l \in Leg : Walked(t, l) = Walked(u, l)
    BY <1>7, <1>8, WalkedSame
  <2> QED
    BY <2>1 DEF MoneyOf, Leg
<1>10. Honest(fills', bought)
  <2> SUFFICES ASSUME NEW i \in 1..n PROVE fills'[i].px = u[i].px
    BY <1>2 DEF Honest
  <2>1. /\ t[i].px = IF IsBuyIn(fills, i) THEN bought[Cardinality(BuysIn(fills, i))].px ELSE fills[i].px
        /\ u[i].px = t[i].px
    BY <1>1, <1>7, TrueTabIs DEF n
  <2>2. CASE fills[i].synth
    <3>1. IsBuyIn(fills, i)
      BY <2>2, <1>1 DEF GuessesAreBuys, IsBuyIn
    <3>2. fills'[i].px = bought[Cardinality(BuysIn(fills, i))].px
      BY <2>2, GuessIsCorrected DEF n
    <3> QED
      BY <2>1, <3>1, <3>2
  <2>3. CASE ~fills[i].synth
    <3>1. fills'[i].px = fills[i].px /\ fills[i].px = t[i].px
      BY <2>3, <1>1, <1>2 DEF Honest
    <3> QED
      BY <2>1, <3>1
  <2> QED
    BY <2>2, <2>3
<1>11. ASSUME NEW l \in Leg
       PROVE  /\ Walked(fills', l).over = 0
              /\ Derive(fills', l).qty = Derive(fills, l).qty
  <2>1. Alike(Walked(fills, l), Walked(fills', l))
    BY <1>1, <1>2, WalkedAlike DEF n
  <2>2. /\ Held(Walked(fills', l)) = Held(Walked(fills, l))
        /\ Walked(fills', l).out = Walked(fills, l).out
        /\ Walked(fills', l).over = Walked(fills, l).over
    BY <2>1, QtyOfAlike DEF Alike, Held
  <2>3. Walked(fills, l).over = 0
    BY <1>1 DEF NoneOver
  <2>4. /\ Derive(fills, l).qty = Held(Walked(fills, l)) - Walked(fills, l).over - Walked(fills, l).out
        /\ Derive(fills', l).qty = Held(Walked(fills', l)) - Walked(fills', l).over - Walked(fills', l).out
    BY <1>1, <1>2, DeriveIs
  <2> QED
    BY <2>2, <2>3, <2>4
<1>12. NoneOver(fills')
  BY <1>11 DEF NoneOver
<1>13. Booked'
  <2> SUFFICES ASSUME shut' PROVE \A l \in Leg : Derive(fills', l).qty = 0
    BY <1>3 DEF Booked
  <2>1. \A l \in Leg : Derive(fills, l).qty = 0
    BY <1>1, <1>3 DEF Booked
  <2> QED
    BY <2>1, <1>11
<1>14. LedgerInv'
  BY TruefillKeepsInv DEF MoneyInv
<1>15. cash' = MoneyOf(TrueTab(fills', bought'))
  BY <1>1, <1>3, <1>9
<1> QED
  BY <1>3, <1>6, <1>10, <1>12, <1>13, <1>14, <1>15 DEF MoneyInv, Mirrors, Honest, NoneOver

LEMMA RewritesKeepMoney ==
    ASSUME MoneyInv, LedgerInv', UNCHANGED <<fills, bought, cash>>, Booked' PROVE MoneyInv'
  BY DEF MoneyInv, Mirrors, Honest, NoneOver

LEMMA MoneyInvHolds ==
    ASSUME LedgerFaults = {} PROVE LedgerSpec => []MoneyInv
<1>1. MoneyInv /\ [LedgerNext]_ledgerVars => MoneyInv'
  <2> SUFFICES ASSUME MoneyInv, [LedgerNext]_ledgerVars PROVE MoneyInv'
    OBVIOUS
  <2>0. LedgerInv /\ Booked
    BY DEF MoneyInv
  <2>1. CASE UNCHANGED ledgerVars
    <3>1. LedgerInv'
      BY <2>0, <2>1, SameFillsFold
         DEF ledgerVars, LedgerInv, LedgerTypes, RowIsDerived, GuessesAreBuys
    <3>2. Booked'
      BY <2>0, <2>1 DEF ledgerVars, Booked
    <3> QED
      BY <2>1, <3>1, <3>2, RewritesKeepMoney DEF ledgerVars
  <2>2. ASSUME NEW l \in Leg, NEW phase \in {"entry", "exit", "unwind"}, NEW q \in Qty,
               NEW px \in Price, NEW true \in Price, RecordFill(l, phase, q, px, true)
        PROVE  MoneyInv'
    BY <2>2, RecordFillKeepsMoney DEF Phase
  <2>3. ASSUME NEW dies \in BOOLEAN, Derives(dies) PROVE MoneyInv'
    <3>1. LedgerInv'
      BY <2>0, <2>3, DerivesKeepsInv
    <3>2. Booked'
      BY <2>0, <2>3 DEF Booked, Derives
    <3> QED
      BY <2>3, <3>1, <3>2, RewritesKeepMoney DEF Derives
  <2>4. CASE Finalize
    <3>1. LedgerInv'
      BY <2>0, <2>4, FinalizeKeepsInv
    <3>2. \A l \in Leg : Derive(fills, l).qty = 0
      BY <2>0, <2>4, RowIsDerivedIs DEF Finalize, LedgerInv, Derived
    <3>3. Booked'
      BY <2>4, <3>2 DEF Booked, Finalize
    <3> QED
      BY <2>4, <3>1, <3>3, RewritesKeepMoney DEF Finalize
  <2>5. CASE Recompute
    <3>1. LedgerInv'
      BY <2>0, <2>5, RecomputeKeepsInv
    <3>2. Booked'
      BY <2>0, <2>5 DEF Booked, Recompute
    <3> QED
      BY <2>5, <3>1, <3>2, RewritesKeepMoney DEF Recompute
  <2>6. CASE Truefill
    BY <2>6, TruefillKeepsMoney
  <2> QED
    BY <2>1, <2>2, <2>3, <2>4, <2>5, <2>6 DEF LedgerNext
<1> QED
  BY <1>1, InitMoneyInv, PTL DEF LedgerSpec

\* What is booked of a closed position (finalize_pnl), after any entries, exits, unwinds and
\* corrections, is the money that the venues paid and took less the fees, once none of its
\* prices is a guess: whatever the quantities, the prices and the number of fills, as long as
\* no restart falls between two commits and /truefill sees the position's own buys only.
THEOREM WhatIsRealisedIsCash ==
    ASSUME LedgerFaults = {} PROVE LedgerSpec => []RealisedIsCash
<1>1. MoneyInv => RealisedIsCash
  <2> SUFFICES ASSUME MoneyInv, shut, step = "none", Guesses = {}
               PROVE  Same(realised, Frac(cash - Len(fills), 1))
    BY DEF RealisedIsCash
  <2>1. /\ fills \in Seq(Fill) /\ bought \in Seq(Buy) /\ Mirrors(fills, bought)
        /\ Honest(fills, bought) /\ NoneOver(fills) /\ cash \in Int /\ Len(fills) \in Nat
        /\ DOMAIN fills = 1..Len(fills) /\ \A i \in 1..Len(fills) : fills[i] \in Fill
        /\ cash = MoneyOf(TrueTab(fills, bought))
    BY MoneyTypes DEF MoneyInv
  <2>2. /\ \A l \in Leg : Derive(fills, l).qty = 0
        /\ realised = Pnl(fills, book) /\ book \in Row /\ Derived(fills, book)
    BY RowIsDerivedIs DEF MoneyInv, Booked, LedgerInv, LedgerTypes
  <2>3. MoneyOf(TrueTab(fills, bought)) = MoneyOf(fills)
    <3> DEFINE t == TrueTab(fills, bought)
    <3>1. t \in Seq(Fill) /\ Len(t) = Len(fills)
      BY <2>1, TrueTabIs
    <3>2. ASSUME NEW i \in 1..Len(fills)
          PROVE  /\ t[i].leg = fills[i].leg /\ t[i].phase = fills[i].phase /\ t[i].qty = fills[i].qty
                 /\ t[i].px = fills[i].px
      <4>1. ~fills[i].synth
        BY <2>1 DEF Guesses
      <4>2. fills[i].px = t[i].px
        BY <4>1, <2>1 DEF Honest
      <4> QED
        BY <4>2, <2>1, TrueTabIs
    <3> HIDE DEF t
    <3>3. \A l \in Leg : Walked(t, l) = Walked(fills, l)
      BY <2>1, <3>1, <3>2, WalkedSame
    <3> QED
      BY <3>3 DEF MoneyOf, Leg, t
  <2>4. IsWhole(Pnl(fills, book), MoneyOf(fills) - Len(fills))
    BY <2>1, <2>2, PnlIsMoney
  <2>5. cash - Len(fills) \in Int
    BY <2>1
  <2> QED
    BY <2>1, <2>2, <2>3, <2>4, <2>5, WholeIsSame
<1> QED
  BY <1>1, MoneyInvHolds, PTL
-------------------------------------------------------------------------------
(***************************************************************************)
(* What the venues' records say, trade by trade (AverageCost): the same    *)
(* argument as for the walk over the fills.                                *)
(***************************************************************************)

CostStep(w, f, l) ==
    IF f.leg # l THEN w
    ELSE IF f.phase = "entry" THEN TradeIn(w, f) ELSE TradeOut(w, f, Sign(l), Average(w))
CostsStep(g, tab, l, s) ==
    IF s = {} THEN NoTrades ELSE CostStep(g[s \ {Max(s)}], tab[Max(s)], l)
CostsOver(g, tab, l, D) == g = [s \in D |-> CostsStep(g, tab, l, s)]
Costs(tab, l) == CHOOSE g : CostsOver(g, tab, l, SUBSET DOMAIN tab)
CostedTo(tab, l, n) == Costs(tab, l)[1..n]

Costed(tab, l) == Costs(tab, l)[DOMAIN tab]

LEMMA AverageCostIs == ASSUME NEW l PROVE AverageCost(l) = Costed(TrueFills, l)
  BY DEF AverageCost, FoldLeft, MapThenFoldSet, Costed, Costs, CostsOver, CostsStep, CostStep

LEMMA CostsExist ==
    ASSUME NEW k \in Nat, NEW tab, NEW l
    PROVE  \A n \in Nat : \E g : CostsOver(g, tab, l, UpTo(1..k, n))
<1> DEFINE bad == {n \in Nat : ~ \E g : CostsOver(g, tab, l, UpTo(1..k, n))}
<1>1. SUFFICES ASSUME bad # {} PROVE FALSE
  OBVIOUS
<1>2. PICK n \in bad : \A m \in bad : n <= m
  BY <1>1, LeastNatural
<1>3. n \in Nat /\ ~ \E g : CostsOver(g, tab, l, UpTo(1..k, n))
  OBVIOUS
<1>4. \E g : n # 0 => CostsOver(g, tab, l, UpTo(1..k, n - 1))
  <2>1. CASE n = 0
    BY <2>1
  <2>2. CASE n # 0
    <3>1. n - 1 \in Nat /\ n - 1 \notin bad
      BY <2>2, <1>2, <1>3
    <3> QED
      BY <3>1
  <2> QED
    BY <2>1, <2>2
<1>5. PICK g : n # 0 => CostsOver(g, tab, l, UpTo(1..k, n - 1))
  BY <1>4
<1>f. IsFiniteSet(1..k)
  BY FS_Interval
<1> DEFINE h == [s \in UpTo(1..k, n) |-> CostsStep(g, tab, l, s)]
<1>6. ASSUME NEW s \in UpTo(1..k, n) PROVE CostsStep(g, tab, l, s) = CostsStep(h, tab, l, s)
  <2>1. CASE s = {}
    BY <2>1 DEF CostsStep
  <2>2. CASE s # {}
    <3> DEFINE t == s \ {Max(s)}
    <3>m. s \subseteq 1..k /\ Max(s) \in s
      BY <2>2, GreatestOfSome DEF UpTo
    <3>1. n # 0 /\ t \in UpTo(1..k, n - 1)
      BY <1>f, <3>m, OneLess, <1>3
    <3>2. t \in UpTo(1..k, n)
      BY <1>f, <3>1, <1>3, FS_CardinalityType, FS_Subset DEF UpTo
    <3>3. g[t] = CostsStep(g, tab, l, t)
      BY <3>1, <1>5 DEF CostsOver
    <3>4. h[t] = CostsStep(g, tab, l, t)
      BY <3>2
    <3> QED
      BY <2>2, <3>3, <3>4 DEF CostsStep
  <2> QED
    BY <2>1, <2>2
<1>7. CostsOver(h, tab, l, UpTo(1..k, n))
  BY <1>6 DEF CostsOver
<1> QED
  BY <1>7, <1>3

\* The walk over any of the fills takes the last of them last.
LEMMA CostsAt ==
    ASSUME NEW T, NEW tab \in Seq(T), NEW l, NEW s \in SUBSET DOMAIN tab
    PROVE  Costs(tab, l)[s] = CostsStep(Costs(tab, l), tab, l, s)
<1> DEFINE k == Len(tab)
           g == Costs(tab, l)
<1>1. k \in Nat /\ DOMAIN tab = 1..k
  OBVIOUS
<1> HIDE DEF k
<1>2. IsFiniteSet(1..k) /\ Cardinality(1..k) \in Nat
  BY <1>1, FS_Interval, FS_CardinalityType
<1>3. UpTo(1..k, Cardinality(1..k)) = SUBSET (1..k)
  BY <1>2, FS_Subset, FS_CardinalityType DEF UpTo
<1>4. PICK f : CostsOver(f, tab, l, UpTo(1..k, Cardinality(1..k)))
  BY <1>1, <1>2, CostsExist
<1>5. CostsOver(f, tab, l, SUBSET DOMAIN tab)
  BY <1>1, <1>3, <1>4
<1>6. CostsOver(g, tab, l, SUBSET DOMAIN tab)
  BY <1>5 DEF Costs
<1> HIDE DEF g
<1>7. g = [t \in SUBSET DOMAIN tab |-> CostsStep(g, tab, l, t)]
  BY <1>6 DEF CostsOver
<1>8. g[s] = CostsStep(g, tab, l, s)
  BY <1>7
<1> QED
  BY <1>8 DEF g

\* The walk, one fill after the other.
LEMMA CostedToStep ==
    ASSUME NEW T, NEW tab \in Seq(T), NEW l
    PROVE  /\ CostedTo(tab, l, 0) = NoTrades
           /\ \A n \in 1..Len(tab) :
                 CostedTo(tab, l, n) = CostStep(CostedTo(tab, l, n - 1), tab[n], l)
           /\ Costed(tab, l) = CostedTo(tab, l, Len(tab))
<1>1. CostedTo(tab, l, 0) = NoTrades
  <2>1. 1..0 = {} /\ {} \in SUBSET DOMAIN tab
    OBVIOUS
  <2>2. Costs(tab, l)[{}] = NoTrades
    BY <2>1, CostsAt DEF CostsStep
  <2> QED
    BY <2>1, <2>2 DEF CostedTo
<1>2. ASSUME NEW n \in 1..Len(tab)
      PROVE  CostedTo(tab, l, n) = CostStep(CostedTo(tab, l, n - 1), tab[n], l)
  <2>1. 1..n \in SUBSET DOMAIN tab /\ 1..n # {} /\ n \in Nat /\ n # 0
    <3>1. Len(tab) \in Nat /\ DOMAIN tab = 1..Len(tab)
      OBVIOUS
    <3> DEFINE k == Len(tab)
    <3> HIDE DEF k
    <3>2. n \in Nat /\ n # 0 /\ n <= k /\ k \in Nat
      BY <3>1 DEF k
    <3>3. 1..n \subseteq 1..k /\ n \in 1..n
      BY <3>2
    <3> QED
      BY <3>1, <3>2, <3>3 DEF k
  <2>2. Max(1..n) = n
    BY <2>1, GreatestOfAll
  <2>3. (1..n) \ {n} = 1..n - 1
    OBVIOUS
  <2>4. Costs(tab, l)[1..n] = CostsStep(Costs(tab, l), tab, l, 1..n)
    BY <2>1, CostsAt
  <2> QED
    BY <2>1, <2>2, <2>3, <2>4 DEF CostsStep, CostedTo
<1>3. Costed(tab, l) = CostedTo(tab, l, Len(tab))
  BY DEF Costed, CostedTo
<1> QED
  BY <1>1, <1>2, <1>3

\* It depends on the fills it has seen and no others.
LEMMA CostsAgree ==
    ASSUME NEW T, NEW tab \in Seq(T), NEW tab2 \in Seq(T), NEW l,
           NEW k \in 0..Len(tab), k <= Len(tab2), \A i \in 1..k : tab[i] = tab2[i]
    PROVE  CostedTo(tab, l, k) = CostedTo(tab2, l, k)
<1> DEFINE bad == {n \in 0..k : CostedTo(tab, l, n) # CostedTo(tab2, l, n)}
<1>1. SUFFICES ASSUME bad # {} PROVE FALSE
  OBVIOUS
<1>2. PICK n \in bad : \A m \in bad : n <= m
  <2>1. bad \subseteq Nat
    OBVIOUS
  <2> HIDE DEF bad
  <2> QED
    BY <1>1, <2>1, LeastNatural
<1>3. n # 0
  BY CostedToStep
<1>4. n - 1 \in 0..k /\ n - 1 \notin bad
  BY <1>2, <1>3
<1>p. n \in 1..Len(tab) /\ n \in 1..Len(tab2) /\ n \in 1..k
  BY <1>3
<1>5. CostedTo(tab, l, n) = CostStep(CostedTo(tab, l, n - 1), tab[n], l)
  BY <1>p, CostedToStep
<1>6. CostedTo(tab2, l, n) = CostStep(CostedTo(tab2, l, n - 1), tab2[n], l)
  BY <1>p, CostedToStep
<1> QED
  BY <1>p, <1>4, <1>5, <1>6

\* One fill more.
LEMMA CostedAppend ==
    ASSUME NEW T, NEW tab \in Seq(T), NEW f \in T, NEW l
    PROVE  Costed(Append(tab, f), l) = CostStep(Costed(tab, l), f, l)
<1> DEFINE more == Append(tab, f)
           n == Len(tab)
<1>1. /\ more \in Seq(T) /\ Len(more) = n + 1 /\ n \in Nat /\ more[n + 1] = f
      /\ \A i \in 1..n : more[i] = tab[i]
  OBVIOUS
<1> HIDE DEF more, n
<1>2. Costed(more, l) = CostedTo(more, l, n + 1)
  BY <1>1, CostedToStep
<1>3. CostedTo(more, l, n + 1) = CostStep(CostedTo(more, l, n), f, l)
  BY <1>1, CostedToStep
<1>4. CostedTo(more, l, n) = CostedTo(tab, l, n)
  BY <1>1, CostsAgree DEF n
<1>5. Costed(tab, l) = CostedTo(tab, l, n)
  BY CostedToStep DEF n
<1> QED
  BY <1>2, <1>3, <1>4, <1>5 DEF more

\* No more do they look at what was a guess.
LEMMA CostedSame ==
    ASSUME NEW tab \in Seq(Fill), NEW tab2 \in Seq(Fill), Len(tab) = Len(tab2),
           \A i \in 1..Len(tab) : /\ tab[i].leg = tab2[i].leg /\ tab[i].phase = tab2[i].phase
                                  /\ tab[i].qty = tab2[i].qty /\ tab[i].px = tab2[i].px,
           NEW l
    PROVE  Costed(tab, l) = Costed(tab2, l)
<1> DEFINE k == Len(tab)
           good(n) == CostedTo(tab, l, n) = CostedTo(tab2, l, n)
           bad == {n \in 0..k : ~ good(n)}
<1>k. k \in Nat
  OBVIOUS
<1>1. bad = {}
  <2> SUFFICES ASSUME bad # {} PROVE FALSE
    OBVIOUS
  <2>2. PICK n \in bad : \A m \in bad : n <= m
    <3>1. bad \subseteq Nat
      OBVIOUS
    <3> HIDE DEF bad
    <3> QED
      BY <3>1, LeastNatural
  <2>3. n # 0
    BY CostedToStep
  <2>4. n - 1 \in 0..k /\ n - 1 \notin bad /\ n \in 1..k
    BY <2>2, <2>3, <1>k
  <2>5. /\ CostedTo(tab, l, n) = CostStep(CostedTo(tab, l, n - 1), tab[n], l)
        /\ CostedTo(tab2, l, n) = CostStep(CostedTo(tab2, l, n - 1), tab2[n], l)
    BY <2>4, CostedToStep
  <2>6. good(n - 1)
    BY <2>4
  <2>7. \A w : CostStep(w, tab[n], l) = CostStep(w, tab2[n], l)
    <3>1. /\ tab[n].leg = tab2[n].leg /\ tab[n].phase = tab2[n].phase
          /\ tab[n].qty = tab2[n].qty /\ tab[n].px = tab2[n].px
      BY <2>4
    <3> QED
      BY <3>1 DEF CostStep, TradeIn, TradeOut
  <2>8. good(n)
    BY <2>5, <2>6, <2>7
  <2> QED
    BY <2>8
<1>2. k \notin bad /\ k \in 0..k
  BY <1>1, <1>k
<1>3. good(k)
  BY <1>2
<1> QED
  BY <1>3, CostedToStep
-------------------------------------------------------------------------------
(***************************************************************************)
(* Fractions add up in any order.                                          *)
(***************************************************************************)

LEMMA PlusIs ==
    ASSUME NEW x \in Fraction, NEW y \in Fraction
    PROVE  /\ Plus(x, y) = Frac(x.n * y.d + y.n * x.d, x.d * y.d)
           /\ x.n \in Int /\ x.d \in Int /\ y.n \in Int /\ y.d \in Int
           /\ x.n * y.d \in Int /\ y.n * x.d \in Int /\ x.d * y.d \in Int
           /\ x.d # 0 /\ y.d # 0 => Plus(x, y).d # 0
<1>1. x.n \in Int /\ x.d \in Int /\ y.n \in Int /\ y.d \in Int
  BY DEF Fraction
<1>2. x.n * y.d \in Int /\ y.n * x.d \in Int /\ x.d * y.d \in Int
  BY <1>1, Regroups
<1>3. Plus(x, y) = Frac(x.n * y.d + y.n * x.d, x.d * y.d)
  BY DEF Plus
<1>4. x.d # 0 /\ y.d # 0 => x.d * y.d # 0
  BY <1>1, NonZeroProduct
<1> QED
  BY <1>1, <1>2, <1>3, <1>4 DEF Frac

LEMMA PlusCommutes ==
    ASSUME NEW x \in Fraction, NEW y \in Fraction PROVE Plus(x, y) = Plus(y, x)
<1>1. x.n * y.d + y.n * x.d = y.n * x.d + x.n * y.d /\ x.d * y.d = y.d * x.d
  BY PlusIs
<1> QED
  BY <1>1 DEF Plus

LEMMA PlusAssociates ==
    ASSUME NEW x \in Fraction, NEW y \in Fraction, NEW z \in Fraction
    PROVE  Plus(Plus(x, y), z) = Plus(x, Plus(y, z))
<1> DEFINE a == x.n
           b == x.d
           c == y.n
           d == y.d
           e == z.n
           f == z.d
<1>1. a \in Int /\ b \in Int /\ c \in Int /\ d \in Int /\ e \in Int /\ f \in Int
  BY DEF Fraction
<1>2. Plus(x, y) = Frac(a * d + c * b, b * d) /\ Plus(y, z) = Frac(c * f + e * d, d * f)
  BY DEF Plus
<1>3. /\ Plus(Plus(x, y), z) = Frac((a * d + c * b) * f + e * (b * d), (b * d) * f)
      /\ Plus(x, Plus(y, z)) = Frac(a * (d * f) + (c * f + e * d) * b, b * (d * f))
  BY <1>2 DEF Plus, Frac
<1> HIDE DEF a, b, c, d, e, f
<1>4. /\ a * d \in Int /\ c * b \in Int /\ c * f \in Int /\ e * d \in Int
      /\ a * (d * f) \in Int /\ (c * f) * b \in Int /\ (e * d) * b \in Int
  BY <1>1
<1>5. (a * d + c * b) * f = a * (d * f) + (c * f) * b
  <2>1. (a * d + c * b) * f = (a * d) * f + (c * b) * f
    BY <1>1, <1>4, Distributes
  <2>2. (a * d) * f = a * (d * f) /\ (c * b) * f = (c * f) * b
    BY <1>1, Regroups
  <2> QED
    BY <2>1, <2>2
<1>6. (c * f + e * d) * b = (c * f) * b + (e * d) * b
  BY <1>1, <1>4, Distributes
<1>7. e * (b * d) = (e * d) * b /\ (b * d) * f = b * (d * f)
  <2>1. (e * d) * b = (e * b) * d /\ (e * b) * d = e * (b * d)
    BY <1>1, Regroups
  <2>2. (b * d) * f = b * (d * f)
    BY <1>1, Regroups
  <2> QED
    BY <2>1, <2>2
<1>8. (a * d + c * b) * f + e * (b * d) = a * (d * f) + (c * f + e * d) * b
  BY <1>4, <1>5, <1>6, <1>7
<1> QED
  BY <1>3, <1>7, <1>8

LEMMA TimesIs ==
    ASSUME NEW x \in Fraction, NEW k \in Int
    PROVE  Times(x, k) \in Fraction /\ Times(x, k) = Frac(x.n * k, x.d) /\ Times(x, k).d = x.d
<1>1. x.n \in Int /\ x.d \in Int
  BY DEF Fraction
<1>2. x.n * k \in Int
  BY <1>1, Regroups
<1> QED
  BY <1>1, <1>2 DEF Times, Frac, Fraction

LEMMA TimesDistributes ==
    ASSUME NEW x \in Fraction, NEW y \in Fraction, NEW k \in Int
    PROVE  Times(Plus(x, y), k) = Plus(Times(x, k), Times(y, k))
<1> DEFINE a == x.n
           b == x.d
           c == y.n
           d == y.d
<1>1. a \in Int /\ b \in Int /\ c \in Int /\ d \in Int
  BY DEF Fraction
<1>2. /\ Times(Plus(x, y), k) = Frac((a * d + c * b) * k, b * d)
      /\ Plus(Times(x, k), Times(y, k)) = Frac((a * k) * d + (c * k) * b, b * d)
  BY DEF Plus, Times, Frac
<1> HIDE DEF a, b, c, d
<1>3. a * d \in Int /\ c * b \in Int
  BY <1>1
<1>4. (a * d + c * b) * k = (a * d) * k + (c * b) * k
  BY <1>1, <1>3, Distributes
<1>5. (a * d) * k = (a * k) * d /\ (c * b) * k = (c * k) * b
  BY <1>1, Regroups
<1> QED
  BY <1>2, <1>4, <1>5

LEMMA NegatedTwice == ASSUME NEW x \in Fraction PROVE Times(Times(x, -1), -1) = x
<1>1. x.n \in Int /\ x = [n |-> x.n, d |-> x.d]
  BY DEF Fraction
<1>2. (x.n * (-1)) * (-1) = x.n
  BY <1>1
<1> QED
  BY <1>1, <1>2 DEF Times, Frac

LEMMA WholeType == ASSUME NEW k \in Int PROVE Whole(k) \in Fraction /\ Whole(k).d # 0
  BY DEF Whole, Frac, Fraction

LEMMA NegatedWhole == ASSUME NEW k \in Int PROVE Times(Whole(k), -1) = Whole(0 - k)
<1>1. k * (-1) = 0 - k
  OBVIOUS
<1> QED
  BY <1>1 DEF Times, Whole, Frac

\* What a trade that closes adds to what is gained and takes off the cost is its money.
LEMMA CloseMoves ==
    ASSUME NEW avg \in Fraction, avg.d # 0, NEW px \in Int, NEW q \in Int
    PROVE  /\ IsWhole(Plus(Times(Minus(Whole(px), avg), -1 * q), Times(Times(avg, q), -1)), 0 - q * px)
           /\ IsWhole(Plus(Times(Minus(Whole(px), avg), 1 * q), Times(avg, q)), q * px)
<1> DEFINE a == avg.n
           b == avg.d
           c == px * b
           u == c - a
<1>1. a \in Int /\ b \in Int /\ b # 0
  BY DEF Fraction
<1>2. c \in Int /\ u \in Int /\ a * q \in Int /\ q * px \in Int
  <2> HIDE DEF a, b
  <2> QED
    BY <1>1
<1>3. Minus(Whole(px), avg) = Frac(u, b)
  <2>1. Minus(Whole(px), avg) = Frac(px * b + (a * (-1)) * 1, 1 * b)
    BY DEF Minus, Plus, Times, Whole, Frac
  <2> HIDE DEF a, b
  <2>2. px * b + (a * (-1)) * 1 = c - a /\ 1 * b = b
    BY <1>1, <1>2
  <2> QED
    BY <2>1, <2>2
<1>4. /\ Times(Minus(Whole(px), avg), -1 * q) = Frac(u * ((-1) * q), b)
      /\ Times(Minus(Whole(px), avg), 1 * q) = Frac(u * (1 * q), b)
      /\ Times(avg, q) = Frac(a * q, b)
      /\ Times(Times(avg, q), -1) = Frac((a * q) * (-1), b)
  <2> HIDE DEF u
  <2> QED
    BY <1>3 DEF Times, Frac
<1> HIDE DEF a, b
<1>5. b * b # 0 /\ b * b \in Int
  BY <1>1, NonZeroProduct
<1>6. /\ u * ((-1) * q) = (0 - q) * u /\ u * (1 * q) = q * u /\ q * u \in Int /\ (0 - q) * u \in Int
      /\ (a * q) * (-1) = 0 - a * q
  <2> HIDE DEF u
  <2> QED
    BY <1>1, <1>2
<1>7. q * u = q * c - q * a
  <2> HIDE DEF c
  <2>1. (c - a) * q = c * q - a * q
    BY <1>1, <1>2, Distributes
  <2> QED
    BY <1>1, <1>2, <2>1
<1>8. q * c = (q * px) * b /\ q * a = a * q /\ q * c \in Int
  BY <1>1, Regroups
<1> HIDE DEF c, u
<1>9. /\ q * u + a * q = (q * px) * b
      /\ (0 - q) * u + (0 - a * q) = (0 - q * px) * b
  <2>1. (0 - q) * u = 0 - q * u
    BY <1>2
  <2>2. (0 - q * px) * b = 0 - (q * px) * b
    BY <1>1, <1>2
  <2> QED
    BY <1>2, <1>6, <1>7, <1>8, <2>1, <2>2
<1>10. ASSUME NEW m \in Int, NEW k \in Int, NEW s \in Int, m + k = s * b
       PROVE  IsWhole(Plus(Frac(m, b), Frac(k, b)), s)
  <2>1. Plus(Frac(m, b), Frac(k, b)) = Frac(m * b + k * b, b * b)
    BY DEF Plus, Frac
  <2>2. m * b + k * b = (m + k) * b
    BY <1>1, Distributes
  <2>3. (s * b) * b = s * (b * b) /\ s * (b * b) \in Int
    BY <1>1, <1>5, Regroups
  <2>4. m * b + k * b = s * (b * b)
    BY <2>2, <2>3, <1>10
  <2> QED
    BY <2>1, <2>3, <2>4, <1>5 DEF IsWhole, Frac, Fraction
<1>11. 0 - a * q \in Int /\ 0 - q * px \in Int
  BY <1>2
<1>12. IsWhole(Plus(Frac((0 - q) * u, b), Frac(0 - a * q, b)), 0 - q * px)
  BY <1>6, <1>9, <1>10, <1>11
<1>13. IsWhole(Plus(Frac(q * u, b), Frac(a * q, b)), q * px)
  BY <1>2, <1>6, <1>9, <1>10
<1> QED
  BY <1>4, <1>6, <1>12, <1>13
LEMMA PlusInterchanges ==
    ASSUME NEW a \in Fraction, NEW b \in Fraction, NEW c \in Fraction, NEW d \in Fraction
    PROVE  Plus(Plus(a, b), Plus(c, d)) = Plus(Plus(a, c), Plus(b, d))
<1>1. Plus(c, d) \in Fraction /\ Plus(b, d) \in Fraction /\ Plus(b, c) \in Fraction
  BY PlusType
<1>2. Plus(Plus(a, b), Plus(c, d)) = Plus(a, Plus(b, Plus(c, d)))
  BY <1>1, PlusAssociates
<1>3. Plus(b, Plus(c, d)) = Plus(Plus(b, c), d) /\ Plus(c, Plus(b, d)) = Plus(Plus(c, b), d)
  BY PlusAssociates
<1>4. Plus(b, c) = Plus(c, b)
  BY PlusCommutes
<1>5. Plus(a, Plus(c, Plus(b, d))) = Plus(Plus(a, c), Plus(b, d))
  BY <1>1, PlusAssociates
<1> QED
  BY <1>2, <1>3, <1>4, <1>5

-------------------------------------------------------------------------------
(***************************************************************************)
(* What the venues' records say of the holding, trade by trade.            *)
(***************************************************************************)
CostState == [held : Int, cost : Fraction, gained : Fraction]

\* The records follow the fills: the same quantity held, and the cost and what was
\* gained make up the money, whatever either is by itself.
Follows(w, v, l) ==
    /\ v \in CostState /\ v.cost.d # 0 /\ v.gained.d # 0
    /\ v.held = Held(w) - w.out
    /\ l = "perp" => IsWhole(Plus(v.gained, v.cost), LegCash(w, l))
    /\ l = "spot" => IsWhole(Plus(v.gained, Times(v.cost, -1)), LegCash(w, l))

LEMMA OpensFollows ==
    ASSUME NEW w \in WalkState, NEW v, NEW f \in Fill, NEW l \in Leg, Follows(w, v, l),
           f.leg = l, f.phase = "entry"
    PROVE  Follows(LegWalk(w, f, l), CostStep(v, f, l), l)
<1> DEFINE m == f.qty * f.px
           v2 == CostStep(v, f, l)
           w2 == LegWalk(w, f, l)
           c == LegCash(w, l)
           neg == Times(v.cost, -1)
<1>1. m \in Int /\ f.qty \in Nat
  <2>1. f.qty \in Nat /\ f.px \in Int
    BY DEF Fill
  <2> QED
    BY <2>1, ProductIsInt
<1>2. /\ v.held \in Int /\ v.cost \in Fraction /\ v.gained \in Fraction
      /\ v.cost.d # 0 /\ v.gained.d # 0 /\ v.held = Held(w) - w.out
  BY DEF Follows, CostState
<1>3. /\ Held(w) \in Nat /\ w.out \in Nat /\ c \in Int /\ neg \in Fraction /\ neg.d # 0
      /\ Whole(m) \in Fraction /\ Whole(m).d # 0 /\ Whole(0 - m) \in Fraction
  <2>1. Held(w) \in Nat /\ w.out \in Nat
    BY LotsSum DEF Held, WalkState
  <2>2. 0 - m \in Int
    BY <1>1
  <2>3. c \in Int
    BY LegCashType DEF c
  <2>4. -1 \in Int
    OBVIOUS
  <2>5. neg \in Fraction /\ neg.d = v.cost.d
    BY <1>2, <2>4, TimesIs DEF neg
  <2> HIDE DEF m, c, neg
  <2>6. Whole(m) \in Fraction /\ Whole(m).d # 0
    BY <1>1, WholeType
  <2>7. Whole(0 - m) \in Fraction
    BY <2>2, WholeType
  <2> QED
    BY <1>2, <2>1, <2>3, <2>5, <2>6, <2>7
<1>4. v2.held = v.held + f.qty /\ v2.cost = Plus(v.cost, Whole(m)) /\ v2.gained = v.gained
      /\ DOMAIN v2 = {"held", "cost", "gained"}
      /\ v2 = [held |-> v2.held, cost |-> v2.cost, gained |-> v2.gained]
  <2>1. v2 = [v EXCEPT !.held = @ + f.qty, !.cost = Plus(@, Whole(m))]
    BY DEF CostStep, TradeIn
  <2> HIDE DEF v2, m
  <2> QED
    BY <2>1 DEF Follows, CostState
<1>5. w2 \in WalkState /\ Held(w2) = Held(w) + f.qty /\ w2.out = w.out
  <2>1. w2 = Walk(w, f)
    BY DEF LegWalk
  <2>2. w2 = [w EXCEPT !.open = w2.open] /\ w2 \in WalkState /\ Held(w2) = Held(w) + f.qty
    BY <2>1, EntryWalk
  <2> HIDE DEF w2
  <2> QED
    BY <2>2 DEF WalkState
<1>6. LegCash(w2, l) = c + PaidIn(f)
  BY LegCashStep
<1>7. PaidIn(f) = IF l = "perp" THEN m ELSE -m
  BY DEF PaidIn, Sells
<1> HIDE DEF m, v2, w2, c
<1>8. v2 \in CostState /\ v2.cost.d # 0 /\ v2.gained.d # 0
  <2>1. v2.held \in Int
    BY <1>1, <1>2, <1>4
  <2>2. v2.cost \in Fraction /\ v2.cost.d # 0
    <3>1. Plus(v.cost, Whole(m)) \in Fraction
      BY <1>2, <1>3, PlusType
    <3>3. Plus(v.cost, Whole(m)).d # 0
      BY <1>2, <1>3, PlusIs
    <3> QED
      BY <1>4, <3>1, <3>3
  <2> QED
    BY <1>2, <1>4, <2>1, <2>2 DEF CostState
<1>9. v2.held = Held(w2) - w2.out
  BY <1>1, <1>2, <1>3, <1>4, <1>5
<1>10. CASE l = "perp"
  <2>1. IsWhole(Plus(v.gained, v.cost), c)
    BY <1>10 DEF Follows, c
  <2>2. Plus(v2.gained, v2.cost) = Plus(Plus(v.gained, v.cost), Whole(m))
    BY <1>2, <1>3, <1>4, PlusAssociates
  <2>3. IsWhole(Whole(m), m)
    BY <1>1, IntIsWhole DEF Whole
  <2>4. IsWhole(Plus(v2.gained, v2.cost), c + m)
    BY <1>1, <1>3, <2>1, <2>2, <2>3, PlusIsWhole
  <2> QED
    BY <1>6, <1>7, <1>8, <1>9, <1>10, <2>4 DEF Follows, v2, w2
<1>11. CASE l = "spot"
  <2>1. IsWhole(Plus(v.gained, neg), c)
    BY <1>11 DEF Follows, c
  <2>2. Times(v2.cost, -1) = Plus(neg, Whole(0 - m))
    BY <1>1, <1>2, <1>3, <1>4, TimesDistributes, NegatedWhole
  <2> HIDE DEF neg
  <2>3. Plus(v2.gained, Times(v2.cost, -1)) = Plus(Plus(v.gained, neg), Whole(0 - m))
    BY <1>2, <1>3, <1>4, <2>2, PlusAssociates
  <2>4. 0 - m \in Int
    BY <1>1
  <2>5. IsWhole(Whole(0 - m), 0 - m)
    BY <2>4, IntIsWhole DEF Whole
  <2>6. IsWhole(Plus(v2.gained, Times(v2.cost, -1)), c + (0 - m))
    BY <1>3, <2>1, <2>3, <2>4, <2>5, PlusIsWhole
  <2>7. LegCash(w2, l) = c + (0 - m)
    BY <1>1, <1>3, <1>6, <1>7, <1>11
  <2> QED
    BY <1>8, <1>9, <1>11, <2>6, <2>7 DEF Follows, v2, w2
<1> QED
  BY <1>10, <1>11 DEF Leg

LEMMA ClosesFollows ==
    ASSUME NEW w \in WalkState, NEW v, NEW f \in Fill, NEW l \in Leg, Follows(w, v, l),
           f.leg = l, f.phase # "entry", f.qty <= v.held
    PROVE  Follows(LegWalk(w, f, l), CostStep(v, f, l), l)
<1> DEFINE q == f.qty
           px == f.px
           m == q * px
           v2 == CostStep(v, f, l)
           w2 == LegWalk(w, f, l)
           c == LegCash(w, l)
           avg == Average(v)
           x == Times(Minus(Whole(px), avg), Sign(l) * q)
           y == Times(avg, q)
           neg == Times(v.cost, -1)
<1>1. m \in Int /\ q \in Nat /\ q \in Int /\ q # 0 /\ px \in Int /\ f.phase \in {"exit", "unwind"}
  <2>1. q \in Nat /\ q # 0 /\ px \in Int /\ f.phase \in {"exit", "unwind"}
    BY DEF Fill, Phase
  <2> QED
    BY <2>1, ProductIsInt
<1>2. /\ v.held \in Int /\ v.cost \in Fraction /\ v.gained \in Fraction
      /\ v.cost.d # 0 /\ v.gained.d # 0 /\ v.held = Held(w) - w.out /\ v.held # 0
  <2>1. /\ v.held \in Int /\ v.cost \in Fraction /\ v.gained \in Fraction
        /\ v.cost.d # 0 /\ v.gained.d # 0 /\ v.held = Held(w) - w.out
    BY DEF Follows, CostState
  <2>2. v.held # 0
    BY <2>1, <1>1
  <2> QED
    BY <2>1, <2>2
<1>a. avg \in Fraction /\ avg.d # 0
  <2>1. v.cost.n \in Int /\ v.cost.d \in Int
    BY <1>2 DEF Fraction
  <2>2. v.cost.d * v.held # 0 /\ v.cost.d * v.held \in Int
    BY <1>2, <2>1, NonZeroProduct
  <2> QED
    BY <2>1, <2>2 DEF Average, Frac, Fraction
<1>3. /\ Held(w) \in Nat /\ w.out \in Nat /\ c \in Int /\ neg \in Fraction
  <2>1. Held(w) \in Nat /\ w.out \in Nat
    BY LotsSum DEF Held, WalkState
  <2>2. c \in Int
    BY LegCashType DEF c
  <2>3. -1 \in Int
    OBVIOUS
  <2>4. neg \in Fraction
    BY <1>2, <2>3, TimesIs DEF neg
  <2> QED
    BY <2>1, <2>2, <2>4
<1>4. v2 = [held |-> v.held - q, cost |-> Plus(v.cost, Times(y, -1)), gained |-> Plus(v.gained, x)]
  BY <1>1 DEF CostStep, TradeOut, Minus
<1>5. w2 \in WalkState /\ Held(w2) - w2.out = Held(w) - w.out - q
  <2>1. w2 = Walk(w, f)
    BY DEF LegWalk
  <2>2. CASE f.phase = "exit"
    <3>1. w2 = [w EXCEPT !.out = w.out + q, !.got = w.got + q * px] /\ w2 \in WalkState
      BY <2>1, <2>2, ExitWalk
    <3> HIDE DEF w2, q, px
    <3>2. w2.out = w.out + q /\ w2.open = w.open
      BY <3>1 DEF WalkState
    <3>3. Held(w2) = Held(w)
      BY <3>2 DEF Held
    <3> QED
      BY <3>1, <3>2, <3>3, <1>1, <1>3
  <2>3. CASE f.phase = "unwind"
    <3>1. q <= Held(w)
      BY <1>1, <1>2, <1>3
    <3>2. w2 \in WalkState /\ Held(w2) = Held(w) - q /\ w2.out = w.out
      BY <2>1, <2>3, <3>1, UnwindWalk
    <3> HIDE DEF w2, q
    <3> QED
      BY <3>2, <1>1, <1>3
  <2> QED
    BY <1>1, <2>2, <2>3
<1>6. LegCash(w2, l) = c + PaidIn(f)
  BY LegCashStep
<1>7. PaidIn(f) = IF l = "perp" THEN -m ELSE m
  BY DEF PaidIn, Sells, Leg
<1>s. Sign(l) * q \in Int
  BY <1>1 DEF Sign
<1>x. x \in Fraction /\ x.d # 0 /\ y \in Fraction /\ Times(y, -1) \in Fraction /\ Times(y, -1).d # 0
  <2>1. Whole(px) \in Fraction /\ Whole(px).d # 0
    BY <1>1, WholeType
  <2>2. Times(avg, -1) \in Fraction /\ Times(avg, -1).d # 0
    BY <1>a, TimesIs
  <2> HIDE DEF avg
  <2>3. Minus(Whole(px), avg) \in Fraction /\ Minus(Whole(px), avg).d # 0
    BY <2>1, <2>2, PlusType, PlusIs DEF Minus
  <2>4. y \in Fraction /\ y.d # 0
    BY <1>1, <1>a, TimesIs
  <2> DEFINE k == Sign(l) * q
             z == Minus(Whole(px), avg)
  <2> HIDE DEF y, k, z
  <2>5. Times(z, k) \in Fraction /\ Times(z, k).d # 0
    BY <1>s, <2>3, TimesIs DEF k, z
  <2>6. Times(y, -1) \in Fraction /\ Times(y, -1).d # 0
    BY <2>4, TimesIs
  <2> QED
    BY <2>4, <2>5, <2>6 DEF k, z
<1>m. /\ l = "perp" => IsWhole(Plus(x, Times(y, -1)), 0 - m)
      /\ l = "spot" => IsWhole(Plus(x, y), m)
  <2> HIDE DEF avg
  <2>1. /\ IsWhole(Plus(Times(Minus(Whole(px), avg), -1 * q), Times(Times(avg, q), -1)), 0 - q * px)
        /\ IsWhole(Plus(Times(Minus(Whole(px), avg), 1 * q), Times(avg, q)), q * px)
    BY <1>1, <1>a, CloseMoves
  <2>2. ASSUME l = "perp" PROVE IsWhole(Plus(x, Times(y, -1)), 0 - m)
    <3>1. Sign(l) * q = -1 * q
      BY <2>2, <1>1 DEF Sign
    <3> QED
      BY <2>1, <3>1 DEF x, y, m
  <2>3. ASSUME l = "spot" PROVE IsWhole(Plus(x, y), m)
    <3>1. Sign(l) * q = 1 * q
      BY <2>3, <1>1 DEF Sign
    <3> QED
      BY <2>1, <3>1 DEF x, y, m
  <2> QED
    BY <2>2, <2>3
<1> HIDE DEF m, v2, w2, c, x, y, avg, q, px
<1>8. v2 \in CostState /\ v2.cost.d # 0 /\ v2.gained.d # 0
  <2>1. v2.held \in Int
    BY <1>1, <1>2, <1>4
  <2>2. v2.cost \in Fraction /\ v2.cost.d # 0
    BY <1>2, <1>x, <1>4, PlusType, PlusIs
  <2>3. v2.gained \in Fraction /\ v2.gained.d # 0
    BY <1>2, <1>x, <1>4, PlusType, PlusIs
  <2> QED
    BY <1>4, <2>1, <2>2, <2>3 DEF CostState
<1>9. v2.held = Held(w2) - w2.out
  BY <1>2, <1>4, <1>5
<1>10. CASE l = "perp"
  <2>1. IsWhole(Plus(v.gained, v.cost), c)
    BY <1>10 DEF Follows, c
  <2>2. Plus(v2.gained, v2.cost) = Plus(Plus(v.gained, v.cost), Plus(x, Times(y, -1)))
    <3>1. v2.gained = Plus(v.gained, x) /\ v2.cost = Plus(v.cost, Times(y, -1))
      BY <1>4
    <3> QED
      BY <1>2, <1>x, <3>1, PlusInterchanges
  <2>3. 0 - m \in Int /\ -m = 0 - m
    BY <1>1
  <2>4. IsWhole(Plus(v2.gained, v2.cost), c + (0 - m))
    BY <1>m, <1>3, <1>10, <2>1, <2>2, <2>3, PlusIsWhole
  <2>5. LegCash(w2, l) = c + (0 - m)
    BY <1>6, <1>7, <1>10, <2>3
  <2> QED
    BY <1>8, <1>9, <1>10, <2>4, <2>5 DEF Follows, v2, w2
<1>11. CASE l = "spot"
  <2>1. IsWhole(Plus(v.gained, neg), c)
    BY <1>11 DEF Follows, c
  <2>2. v2.gained = Plus(v.gained, x) /\ v2.cost = Plus(v.cost, Times(y, -1))
    BY <1>4
  <2>3. Times(v2.cost, -1) = Plus(neg, y)
    <3>1. Times(v2.cost, -1) = Plus(neg, Times(Times(y, -1), -1))
      BY <1>2, <1>x, <2>2, TimesDistributes
    <3> QED
      BY <1>x, <3>1, NegatedTwice
  <2> HIDE DEF neg
  <2>4. Plus(v2.gained, Times(v2.cost, -1)) = Plus(Plus(v.gained, neg), Plus(x, y))
    BY <1>2, <1>3, <1>x, <2>2, <2>3, PlusInterchanges
  <2>5. IsWhole(Plus(v2.gained, Times(v2.cost, -1)), c + m)
    BY <1>m, <1>1, <1>3, <1>11, <2>1, <2>4, PlusIsWhole
  <2>6. LegCash(w2, l) = c + m
    BY <1>6, <1>7, <1>11
  <2> QED
    BY <1>8, <1>9, <1>11, <2>5, <2>6 DEF Follows, v2, w2
<1> QED
  BY <1>10, <1>11 DEF Leg

LEMMA RecordFillTrades ==
    ASSUME MoneyInv, NEW l \in Leg, NEW phase \in Phase, NEW q \in Qty, NEW px \in Price,
           NEW true \in Price, RecordFill(l, phase, q, px, true)
    PROVE  \E f \in Fill, g \in Fill :
              /\ fills' = Append(fills, f) /\ f.leg = l /\ f.phase = phase /\ f.qty = q
              /\ TrueTab(fills', bought') = Append(TrueTab(fills, bought), g)
              /\ g.leg = l /\ g.phase = phase /\ g.qty = q
<1> DEFINE synth == px # true
           f == [leg |-> l, phase |-> phase, qty |-> q, px |-> px, synth |-> synth]
           g == [f EXCEPT !.px = true]
<1>1. q \in Nat \ {0} /\ px \in Int /\ true \in Int
  BY LedgerAssumption
<1>2. f \in Fill /\ f.leg = l /\ f.phase = phase /\ f.qty = q /\ f.px = px
  <2>1. synth \in BOOLEAN
    OBVIOUS
  <2> HIDE DEF synth
  <2> QED
    BY <1>1, <2>1 DEF Fill
<1>3. g.leg = l /\ g.phase = phase /\ g.qty = q
  OBVIOUS
<1>4. /\ fills' = Append(fills, f)
      /\ synth => l = "perp" /\ phase = "exit"
      /\ Trades(l, phase, q, true)
  BY DEF RecordFill
<1>5. fills \in Seq(Fill) /\ bought \in Seq(Buy) /\ Mirrors(fills, bought)
  BY MoneyTypes DEF MoneyInv
<1>6. ~(f.leg = "perp" /\ f.phase # "entry") => f.px = true
  BY <1>2, <1>4
<1>7. /\ f.leg = "perp" /\ f.phase # "entry" =>
             bought' = Append(bought, [qty |-> f.qty, px |-> true])
      /\ ~(f.leg = "perp" /\ f.phase # "entry") => bought' = bought
  BY <1>2, <1>4 DEF Trades
<1> HIDE DEF f, synth
<1>8. TrueTab(Append(fills, f), bought') = Append(TrueTab(fills, bought), g) /\ g \in Fill
  BY <1>1, <1>2, <1>5, <1>6, <1>7, MirrorAppend
<1> HIDE DEF g
<1> QED
  BY <1>2, <1>3, <1>4, <1>8

\* The replay of the trades and the walk of the fills hold the same, in both legs.
FollowsAll(tab) == \A l \in Leg : Follows(Walked(tab, l), Costed(tab, l), l)

LEMMA FollowsAppend ==
    ASSUME NEW tab \in Seq(Fill), NEW f \in Fill, FollowsAll(tab),
           f.phase # "entry" => f.qty <= Costed(tab, f.leg).held
    PROVE  FollowsAll(Append(tab, f))
<1> SUFFICES ASSUME NEW l \in Leg
             PROVE  Follows(Walked(Append(tab, f), l), Costed(Append(tab, f), l), l)
  BY DEF FollowsAll
<1> DEFINE w == Walked(tab, l)
           v == Costed(tab, l)
<1>1. Walked(Append(tab, f), l) = LegWalk(w, f, l) /\ w \in WalkState
  BY WalkedAppend, WalkedType
<1>2. Costed(Append(tab, f), l) = CostStep(v, f, l)
  BY CostedAppend
<1>3. Follows(w, v, l)
  BY DEF FollowsAll
<1> HIDE DEF w
<1>4. CASE f.leg # l
  BY <1>1, <1>2, <1>3, <1>4 DEF LegWalk, CostStep
<1>5. CASE f.leg = l /\ f.phase = "entry"
  <2> HIDE DEF v
  <2> QED
    BY <1>1, <1>2, <1>3, <1>5, OpensFollows
<1>6. CASE f.leg = l /\ f.phase # "entry"
  <2>1. f.qty <= v.held
    BY <1>6
  <2> HIDE DEF v
  <2> QED
    BY <1>1, <1>2, <1>3, <1>6, <2>1, ClosesFollows
<1> QED
  BY <1>4, <1>5, <1>6

PhaseCost(tab, l, phase) == CostOf(tab, PhaseIds(tab, l, phase))

LEMMA PhaseCostAppend ==
    ASSUME NEW tab \in Seq(Fill), NEW f \in Fill, NEW l, NEW phase
    PROVE  /\ PhaseCost(tab, l, phase) \in Int
           /\ f.leg = l /\ f.phase = phase =>
                  PhaseCost(Append(tab, f), l, phase) = PhaseCost(tab, l, phase) + f.qty * f.px
           /\ ~(f.leg = l /\ f.phase = phase) =>
                  /\ PhaseCost(Append(tab, f), l, phase) = PhaseCost(tab, l, phase)
                  /\ PhaseIds(Append(tab, f), l, phase) = PhaseIds(tab, l, phase)
<1> DEFINE n == Len(tab)
           more == Append(tab, f)
           S == PhaseIds(tab, l, phase)
           T == PhaseIds(more, l, phase)
<1>1. /\ n \in Nat /\ DOMAIN tab = 1..n /\ DOMAIN more = 1..n + 1 /\ more[n + 1] = f
      /\ \A i \in 1..n : more[i] = tab[i] /\ tab[i] \in Fill
  OBVIOUS
<1> HIDE DEF n, more
<1>2. S = {i \in 1..n : tab[i].leg = l /\ tab[i].phase = phase}
      /\ T = {i \in 1..n + 1 : more[i].leg = l /\ more[i].phase = phase}
  BY <1>1 DEF PhaseIds
<1> HIDE DEF S, T
<1>3. S \subseteq 1..n /\ n + 1 \notin S /\ IsFiniteSet(S)
  <2>1. S \subseteq 1..n
    BY <1>2
  <2>2. n + 1 \notin S
    BY <1>1, <2>1
  <2>3. IsFiniteSet(1..n)
    BY <1>1, FS_Interval
  <2> QED
    BY <2>1, <2>2, <2>3, FS_Subset
<1>m. \A e \in Fill : e.qty * e.px \in Int
  <2>1. \A e \in Fill : e.qty \in Nat /\ e.px \in Int
    BY DEF Fill
  <2> QED
    BY <2>1, ProductIsInt
<1>4. /\ \A i \in S : /\ tab[i].qty * tab[i].px \in Int
                     /\ more[i].qty * more[i].px = tab[i].qty * tab[i].px
  <2> SUFFICES ASSUME NEW i \in S
               PROVE  /\ tab[i].qty * tab[i].px \in Int
                      /\ more[i].qty * more[i].px = tab[i].qty * tab[i].px
    OBVIOUS
  <2>1. tab[i] \in Fill /\ more[i] = tab[i]
    BY <1>1, <1>3
  <2> QED
    BY <2>1, <1>m
<1>5. CostOf(tab, S) \in Int /\ CostOf(more, S) = CostOf(tab, S)
  BY <1>3, <1>4, CostOfTakesAny, CostOfAlike
<1>6. CASE f.leg = l /\ f.phase = phase
  <2>1. T = S \cup {n + 1}
    BY <1>1, <1>2, <1>6
  <2>2. T \ {n + 1} = S /\ n + 1 \in T /\ IsFiniteSet(T)
    BY <1>3, <2>1, FS_AddElement
  <2>3. \A i \in T : more[i].qty * more[i].px \in Int
    BY <1>1, <1>4, <1>m, <2>1
  <2>4. CostOf(more, T) = more[n + 1].qty * more[n + 1].px + CostOf(more, T \ {n + 1})
    BY <2>2, <2>3, CostOfTakesAny
  <2>5. f.qty * f.px \in Int
    BY <1>m
  <2>6. CostOf(more, T) = CostOf(tab, S) + f.qty * f.px
    <3>1. CostOf(more, T) = f.qty * f.px + CostOf(tab, S)
      BY <1>1, <1>5, <2>2, <2>4, Zenon
    <3> QED
      BY <3>1, <2>5, <1>5
  <2> QED
    BY <1>5, <1>6, <2>6 DEF PhaseCost, S, T, more
<1>7. CASE ~(f.leg = l /\ f.phase = phase)
  <2>1. T = S
    BY <1>1, <1>2, <1>7
  <2> QED
    BY <1>5, <1>7, <2>1 DEF PhaseCost, S, T, more
<1> QED
  BY <1>6, <1>7

\* Of a position that was only ever opened: the entries are all there is.
OpenedLeg(tab, l) ==
    LET w == Walked(tab, l)  v == Costed(tab, l) IN
    /\ w.out = 0 /\ w.back = 0 /\ w.got = 0 /\ w.undo = 0
    /\ Held(w) = PhaseQty(tab, l, "entry") /\ Spent(w) = PhaseCost(tab, l, "entry")
    /\ v \in CostState /\ v.gained = Whole(0)
Entries(tab) == \A i \in 1..Len(tab) : tab[i].phase = "entry"
OnlyOpened(tab) == Entries(tab) => \A l \in Leg : OpenedLeg(tab, l)

LEMMA OpenedAppend ==
    ASSUME NEW tab \in Seq(Fill), NEW f \in Fill, OnlyOpened(tab)
    PROVE  OnlyOpened(Append(tab, f))
<1> DEFINE more == Append(tab, f)
           n == Len(tab)
<1>1. /\ n \in Nat /\ Len(more) = n + 1 /\ more[n + 1] = f
      /\ \A i \in 1..n : more[i] = tab[i]
  BY Appended
<1>2. SUFFICES ASSUME Entries(more), NEW l \in Leg PROVE OpenedLeg(more, l)
  BY DEF OnlyOpened
<1> HIDE DEF n
<1>3. f.phase = "entry" /\ Entries(tab)
  <2>1. \A i \in 1..n + 1 : more[i].phase = "entry"
    BY <1>1, <1>2 DEF Entries
  <2>2. n + 1 \in 1..n + 1 /\ \A i \in 1..n : i \in 1..n + 1
    BY <1>1
  <2> HIDE DEF more
  <2> QED
    BY <1>1, <2>1, <2>2 DEF Entries, n
<1>4. OpenedLeg(tab, l)
  BY <1>3 DEF OnlyOpened
<1> DEFINE w == Walked(tab, l)
           v == Costed(tab, l)
           w2 == Walked(more, l)
           v2 == Costed(more, l)
           m == f.qty * f.px
<1>5. w2 = LegWalk(w, f, l) /\ w \in WalkState
  BY WalkedAppend, WalkedType
<1>6. v2 = CostStep(v, f, l)
  BY CostedAppend
<1>7. /\ w.out = 0 /\ w.back = 0 /\ w.got = 0 /\ w.undo = 0
      /\ Held(w) = PhaseQty(tab, l, "entry") /\ Spent(w) = PhaseCost(tab, l, "entry")
      /\ v \in CostState /\ v.gained = Whole(0)
  BY <1>4 DEF OpenedLeg
<1>8. /\ f.leg = l => /\ PhaseQty(more, l, "entry") = PhaseQty(tab, l, "entry") + f.qty
                      /\ PhaseCost(more, l, "entry") = PhaseCost(tab, l, "entry") + m
      /\ f.leg # l => /\ PhaseQty(more, l, "entry") = PhaseQty(tab, l, "entry")
                      /\ PhaseCost(more, l, "entry") = PhaseCost(tab, l, "entry")
  BY <1>3, PhaseQtyAppend, PhaseCostAppend
<1> HIDE DEF w, v, w2, v2, more, m
<1>9. CASE f.leg # l
  <2>1. w2 = w /\ v2 = v
    BY <1>5, <1>6, <1>9 DEF LegWalk, CostStep
  <2> QED
    BY <1>7, <1>8, <1>9, <2>1 DEF OpenedLeg, w2, v2
<1>10. CASE f.leg = l
  <2>1. w2 = Walk(w, f)
    BY <1>5, <1>10 DEF LegWalk
  <2>2. /\ Held(w2) = Held(w) + f.qty /\ Spent(w2) = Spent(w) + m
        /\ w2 = [w EXCEPT !.open = w2.open]
    BY <1>3, <1>5, <2>1, EntryWalk DEF m
  <2>3. w2.out = 0 /\ w2.back = 0 /\ w2.got = 0 /\ w2.undo = 0
    BY <1>5, <1>7, <2>2 DEF WalkState
  <2>4. v2 = [v EXCEPT !.held = @ + f.qty, !.cost = Plus(@, Whole(m))]
    BY <1>3, <1>6, <1>10 DEF CostStep, TradeIn, m
  <2>5. m \in Int /\ f.qty \in Int
    <3>1. f.qty \in Nat /\ f.px \in Int
      BY DEF Fill
    <3> QED
      BY <3>1, ProductIsInt DEF m
  <2>6. Plus(v.cost, Whole(m)) \in Fraction
    <3>1. Whole(m) \in Fraction
      BY <2>5, WholeType
    <3>2. v.cost \in Fraction
      BY <1>7 DEF CostState
    <3> QED
      BY <3>1, <3>2, PlusType
  <2>7. v2 \in CostState /\ v2.gained = Whole(0)
    <3>1. v2 = [held |-> v.held + f.qty, cost |-> Plus(v.cost, Whole(m)), gained |-> v.gained]
      BY <1>7, <2>4 DEF CostState
    <3>2. v.held + f.qty \in Int /\ v.gained \in Fraction
      BY <1>7, <2>5 DEF CostState
    <3> QED
      BY <1>7, <2>6, <3>1, <3>2 DEF CostState
  <2> QED
    BY <1>7, <1>8, <1>10, <2>2, <2>3, <2>7 DEF OpenedLeg, w2, v2
<1> QED
  BY <1>9, <1>10

\* What the reports keep to: the replay follows the walk of the fills as they were traded.
ReconInv ==
    /\ MoneyInv
    /\ FollowsAll(TrueTab(fills, bought))
    /\ OnlyOpened(fills)

\* The venues hold what the fills say is held.
LEMMA TrueHeld ==
    ASSUME MoneyInv, NEW l \in Leg
    PROVE  LET w == Walked(TrueTab(fills, bought), l) IN
           Held(w) \in Nat /\ w.out \in Nat /\ Held(w) - w.out = Derive(fills, l).qty
<1> DEFINE t == TrueTab(fills, bought)
           w == Walked(t, l)
           v == Walked(fills, l)
<1>1. /\ fills \in Seq(Fill) /\ bought \in Seq(Buy) /\ Mirrors(fills, bought) /\ NoneOver(fills)
  BY MoneyTypes DEF MoneyInv
<1>2. /\ t \in Seq(Fill) /\ Len(t) = Len(fills)
      /\ \A i \in 1..Len(fills) : /\ t[i].leg = fills[i].leg /\ t[i].phase = fills[i].phase
                                  /\ t[i].qty = fills[i].qty
  BY <1>1, TrueTabIs
<1> HIDE DEF t
<1>3. Alike(v, w)
  BY <1>1, <1>2, WalkedAlike
<1>4. Held(w) = Held(v) /\ w.out = v.out /\ w.over = v.over
  BY <1>3, QtyOfAlike DEF Alike, Held
<1>5. v.over = 0
  BY <1>1 DEF NoneOver
<1>6. Derive(fills, l).qty = Held(v) - v.over - v.out /\ Held(v) \in Nat /\ v \in WalkState
  BY <1>1, DeriveIs
<1>7. v.out \in Nat
  BY <1>6 DEF WalkState
<1> HIDE DEF v, w
<1> QED
  BY <1>4, <1>5, <1>6, <1>7 DEF w, t

LEMMA InitReconInv == LedgerInit => ReconInv
<1> SUFFICES ASSUME LedgerInit PROVE ReconInv
  OBVIOUS
<1>1. fills = << >> /\ MoneyInv
  BY InitMoneyInv DEF LedgerInit
<1>2. DOMAIN fills = {} /\ Len(fills) = 0 /\ << >> \in Seq(Fill) /\ Len(<< >>) = 0
  BY <1>1
<1>3. TrueTab(fills, bought) = << >>
  <2>1. TrueTab(fills, bought) = [i \in {} |-> i]
    BY <1>2 DEF TrueTab
  <2>2. << >> = [i \in {} |-> i]
    OBVIOUS
  <2> QED
    BY <2>1, <2>2
<1>4. ASSUME NEW l \in Leg PROVE Walked(<< >>, l) = NoWalk /\ Costed(<< >>, l) = NoTrades
  BY <1>2, WalkedToStep, CostedToStep
<1>5. /\ NoTrades \in CostState /\ NoTrades.held = 0 /\ NoTrades.cost = Whole(0)
      /\ NoTrades.gained = Whole(0) /\ Whole(0) \in Fraction /\ Whole(0).d # 0
  <2>1. Whole(0) \in Fraction /\ Whole(0).d # 0
    BY WholeType
  <2> QED
    BY <2>1 DEF NoTrades, CostState
<1>6. /\ Held(NoWalk) = 0 /\ Spent(NoWalk) = 0 /\ NoWalk.out = 0 /\ NoWalk.back = 0
      /\ NoWalk.got = 0 /\ NoWalk.undo = 0
  BY NoWalkType DEF NoWalk
<1>7. ASSUME NEW l \in Leg PROVE Follows(NoWalk, NoTrades, l)
  <2>1. IsWhole(Whole(0), 0)
    BY IntIsWhole DEF Whole
  <2>2. LegCash(NoWalk, l) = 0
    BY <1>6 DEF LegCash
  <2>3. Times(Whole(0), -1) = Whole(0)
    BY NegatedWhole
  <2>4. IsWhole(Plus(Whole(0), Whole(0)), 0)
    BY <2>1, PlusIsWhole
  <2> QED
    BY <1>5, <1>6, <2>2, <2>3, <2>4 DEF Follows
<1>8. FollowsAll(TrueTab(fills, bought))
  BY <1>3, <1>4, <1>7 DEF FollowsAll
<1>9. OnlyOpened(fills)
  <2>1. ASSUME NEW l \in Leg PROVE OpenedLeg(<< >>, l)
    <3>1. PhaseIds(<< >>, l, "entry") = {}
      BY <1>1, <1>2 DEF PhaseIds
    <3>2. PhaseQty(<< >>, l, "entry") = 0 /\ PhaseCost(<< >>, l, "entry") = 0
      BY <3>1, FS_EmptySet, QtyOfTakesAny, CostOfTakesAny DEF PhaseQty, PhaseCost
    <3> QED
      BY <1>4, <1>5, <1>6, <3>2 DEF OpenedLeg
  <2> QED
    BY <1>1, <2>1 DEF OnlyOpened
<1> QED
  BY <1>1, <1>8, <1>9 DEF ReconInv

LEMMA RecordFillKeepsRecon ==
    ASSUME ReconInv, NEW l \in Leg, NEW phase \in Phase, NEW q \in Qty, NEW px \in Price,
           NEW true \in Price, RecordFill(l, phase, q, px, true)
    PROVE  ReconInv'
<1> DEFINE t == TrueTab(fills, bought)
<1>1. MoneyInv /\ MoneyInv' /\ FollowsAll(t) /\ OnlyOpened(fills)
  BY RecordFillKeepsMoney DEF ReconInv
<1>2. fills \in Seq(Fill) /\ t \in Seq(Fill)
  BY <1>1, MoneyTypes
<1>3. PICK f \in Fill, g \in Fill :
              /\ fills' = Append(fills, f) /\ f.leg = l /\ f.phase = phase /\ f.qty = q
              /\ TrueTab(fills', bought') = Append(t, g)
              /\ g.leg = l /\ g.phase = phase /\ g.qty = q
  BY <1>1, RecordFillTrades
<1>4. phase # "entry" => q <= Costed(t, l).held
  <2>1. phase # "entry" => q <= book.leg[l].qty
    BY DEF RecordFill
  <2>2. book.leg[l].qty = Derive(fills, l).qty
    BY <1>1, RowIsDerivedIs DEF MoneyInv, LedgerInv, Derived, RecordFill
  <2>3. Costed(t, l).held = Held(Walked(t, l)) - Walked(t, l).out
    BY <1>1 DEF FollowsAll, Follows
  <2>4. Held(Walked(t, l)) - Walked(t, l).out = Derive(fills, l).qty
    BY <1>1, TrueHeld
  <2> QED
    BY <2>1, <2>2, <2>3, <2>4
<1> HIDE DEF t
<1>5. FollowsAll(Append(t, g))
  BY <1>1, <1>2, <1>3, <1>4, FollowsAppend
<1>6. OnlyOpened(Append(fills, f))
  BY <1>1, <1>2, OpenedAppend
<1>7. FollowsAll(TrueTab(fills', bought'))
  BY <1>3, <1>5
<1>8. OnlyOpened(fills')
  BY <1>3, <1>6
<1> QED
  BY <1>1, <1>7, <1>8 DEF ReconInv, FollowsAll, OnlyOpened, Entries, OpenedLeg

LEMMA TruefillKeepsRecon ==
    ASSUME ReconInv, "other_buys" \notin LedgerFaults, Truefill PROVE ReconInv'
<1> DEFINE t == TrueTab(fills, bought)
           u == TrueTab(fills', bought)
<1>1. MoneyInv /\ MoneyInv' /\ FollowsAll(t) /\ OnlyOpened(fills)
  BY TruefillKeepsMoney DEF ReconInv
<1>2. /\ t \in Seq(Fill) /\ u \in Seq(Fill) /\ Len(t) = Len(fills) /\ Len(u) = Len(fills)
      /\ \A i \in 1..Len(fills) :
            /\ u[i].leg = t[i].leg /\ u[i].phase = t[i].phase /\ u[i].qty = t[i].qty
            /\ u[i].px = t[i].px
  BY <1>1, TruefillTrades
<1> HIDE DEF t, u
<1>3. \A l \in Leg : Walked(t, l) = Walked(u, l) /\ Costed(t, l) = Costed(u, l)
  BY <1>2, WalkedSame, CostedSame
<1>4. FollowsAll(u)
  BY <1>1, <1>3 DEF FollowsAll
<1>5. bought' = bought
  BY DEF Truefill
<1>6. FollowsAll(TrueTab(fills', bought'))
  BY <1>4, <1>5 DEF u
<1>7. OnlyOpened(fills')
  <2>1. /\ LedgerTypes /\ GuessesAreBuys /\ fills \in Seq(Fill) /\ Len(fills) \in Nat
        /\ DOMAIN fills = 1..Len(fills)
    BY <1>1, MoneyTypes DEF MoneyInv, LedgerInv
  <2>2. PICK i \in 1..Len(fills) : fills[i].synth
    BY <2>1 DEF Truefill, Guesses
  <2>3. fills[i].phase = "exit"
    BY <2>1, <2>2 DEF GuessesAreBuys
  <2>4. fills'[i].phase = "exit" /\ Len(fills') = Len(fills)
    BY <2>1, <2>3, TruefillFills
  <2> QED
    BY <2>2, <2>4 DEF OnlyOpened, Entries
<1> QED
  BY <1>1, <1>6, <1>7 DEF ReconInv, FollowsAll, OnlyOpened, Entries, OpenedLeg

LEMMA ReconInvHolds ==
    ASSUME LedgerFaults = {} PROVE LedgerSpec => []ReconInv
<1>1. ReconInv /\ MoneyInv' /\ [LedgerNext]_ledgerVars => ReconInv'
  <2> SUFFICES ASSUME ReconInv, MoneyInv', [LedgerNext]_ledgerVars PROVE ReconInv'
    OBVIOUS
  <2>1. ASSUME UNCHANGED <<fills, bought>> PROVE ReconInv'
    BY <2>1 DEF ReconInv, FollowsAll, OnlyOpened, Entries, OpenedLeg
  <2>2. ASSUME NEW l \in Leg, NEW phase \in {"entry", "exit", "unwind"}, NEW q \in Qty,
               NEW px \in Price, NEW true \in Price, RecordFill(l, phase, q, px, true)
        PROVE  ReconInv'
    BY <2>2, RecordFillKeepsRecon DEF Phase
  <2>3. CASE Truefill
    BY <2>3, TruefillKeepsRecon
  <2>4. CASE (\E dies \in BOOLEAN : Derives(dies)) \/ Finalize \/ Recompute
    BY <2>1, <2>4 DEF Derives, Finalize, Recompute
  <2>5. CASE UNCHANGED ledgerVars
    BY <2>1, <2>5 DEF ledgerVars
  <2> QED
    BY <2>2, <2>3, <2>4, <2>5 DEF LedgerNext
<1> QED
  BY <1>1, InitReconInv, MoneyInvHolds, PTL DEF LedgerSpec
-------------------------------------------------------------------------------
(***************************************************************************)
(* What the position is worth.                                             *)
(***************************************************************************)

\* A leg's cost, what it gained and what its holding is worth, in whatever order added.
LEMMA LegsWorth ==
    ASSUME NEW pg \in Fraction, NEW pc \in Fraction, NEW sg \in Fraction, NEW sc \in Fraction,
           NEW a \in Int, NEW b \in Int, NEW h \in Int, NEW k \in Int,
           IsWhole(Plus(pg, pc), a), IsWhole(Plus(sg, Times(sc, -1)), b)
    PROVE  /\ IsWhole(Plus(pg, Minus(pc, Whole(h))), a + (0 - h))
           /\ IsWhole(Plus(Minus(pc, Whole(h)), pg), a + (0 - h))
           /\ IsWhole(Plus(Whole(k), Minus(sg, sc)), k + b)
           /\ IsWhole(Plus(Minus(Whole(k), sc), sg), k + b)
<1> DEFINE N == Whole(0 - h)
           W == Whole(k)
           neg == Times(sc, -1)
           P == Plus(pc, N)
           S == Plus(W, neg)
<1>1. Minus(pc, Whole(h)) = P /\ Minus(sg, sc) = Plus(sg, neg) /\ Minus(Whole(k), sc) = S
  BY NegatedWhole DEF Minus
<1>2. 0 - h \in Int
  OBVIOUS
<1>3. N \in Fraction /\ W \in Fraction
  BY <1>2, WholeType
<1>4. IsWhole(N, 0 - h) /\ IsWhole(W, k)
  BY <1>2, IntIsWhole DEF Whole
<1>5. neg \in Fraction
  <2>1. -1 \in Int
    OBVIOUS
  <2> QED
    BY <2>1, TimesIs
<1>6. IsWhole(Plus(sg, neg), b)
  OBVIOUS
<1> HIDE DEF N, W, neg
<1>7. P \in Fraction /\ S \in Fraction
  BY <1>3, <1>5, PlusType
<1>8. Plus(pg, P) = Plus(Plus(pg, pc), N)
  BY <1>3, PlusAssociates
<1>9. IsWhole(Plus(pg, P), a + (0 - h))
  BY <1>2, <1>4, <1>8, PlusIsWhole
<1>10. Plus(P, pg) = Plus(pg, P)
  BY <1>7, PlusCommutes
<1>11. IsWhole(Plus(W, Plus(sg, neg)), k + b)
  BY <1>4, <1>6, PlusIsWhole
<1>12. Plus(S, sg) = Plus(W, Plus(sg, neg))
  <2>1. S = Plus(neg, W)
    BY <1>3, <1>5, PlusCommutes
  <2>2. Plus(S, sg) = Plus(W, Plus(neg, sg))
    BY <1>3, <1>5, PlusAssociates
  <2>3. Plus(neg, sg) = Plus(sg, neg)
    BY <1>5, PlusCommutes
  <2> QED
    BY <2>2, <2>3
<1> HIDE DEF P, S
<1> QED
  BY <1>1, <1>9, <1>10, <1>11, <1>12 DEF W

\* What the records say of both legs, and of the money.
LEMMA TradedLegs ==
    ASSUME ReconInv
    PROVE  LET perp == AverageCost("perp")  spot == AverageCost("spot")
               t == TrueTab(fills, bought) IN
           /\ perp = Costed(t, "perp") /\ spot = Costed(t, "spot")
           /\ perp \in CostState /\ spot \in CostState
           /\ perp.gained \in Fraction /\ perp.cost \in Fraction /\ perp.held \in Int
           /\ spot.gained \in Fraction /\ spot.cost \in Fraction /\ spot.held \in Int
           /\ perp.cost.d # 0 /\ spot.cost.d # 0
           /\ \E a, b \in Int : /\ cash = a + b
                                /\ IsWhole(Plus(perp.gained, perp.cost), a)
                                /\ IsWhole(Plus(spot.gained, Times(spot.cost, -1)), b)
                                /\ b = LegCash(Walked(t, "spot"), "spot")
<1> DEFINE t == TrueTab(fills, bought)
           perp == Costed(t, "perp")
           spot == Costed(t, "spot")
           a == LegCash(Walked(t, "perp"), "perp")
           b == LegCash(Walked(t, "spot"), "spot")
<1>1. AverageCost("perp") = perp /\ AverageCost("spot") = spot
  BY AverageCostIs, TrueFillsIs
<1>2. Follows(Walked(t, "perp"), perp, "perp") /\ Follows(Walked(t, "spot"), spot, "spot")
  BY DEF ReconInv, FollowsAll, Leg
<1>3. cash = a + b /\ t \in Seq(Fill)
  BY MoneyTypes DEF ReconInv, MoneyInv, MoneyOf
<1>4. a \in Int /\ b \in Int
  <2> HIDE DEF t
  <2>1. Walked(t, "perp") \in WalkState /\ Walked(t, "spot") \in WalkState
    BY <1>3, WalkedType
  <2> QED
    BY <2>1, LegCashType
<1>5. /\ IsWhole(Plus(perp.gained, perp.cost), a)
      /\ IsWhole(Plus(spot.gained, Times(spot.cost, -1)), b)
  BY <1>2 DEF Follows
<1>6. /\ perp \in CostState /\ spot \in CostState /\ perp.cost.d # 0 /\ spot.cost.d # 0
  BY <1>2 DEF Follows
<1> HIDE DEF perp, spot, a, b
<1>7. /\ perp.gained \in Fraction /\ perp.cost \in Fraction /\ perp.held \in Int
      /\ spot.gained \in Fraction /\ spot.cost \in Fraction /\ spot.held \in Int
  BY <1>6 DEF CostState
<1> QED
  BY <1>1, <1>3, <1>4, <1>5, <1>6, <1>7 DEF perp, spot, b

LEMMA EquityFollows == ReconInv => EquityIsCash
<1> SUFFICES ASSUME ReconInv, NEW mark \in Price, NEW bid \in Price
             PROVE  LET perp == AverageCost("perp")  spot == AverageCost("spot") IN
                    Same(Equity(perp, spot, mark, bid),
                         Whole(cash + spot.held * bid - perp.held * mark))
  BY DEF EquityIsCash
<1> DEFINE perp == AverageCost("perp")
           spot == AverageCost("spot")
           h == perp.held * mark
           k == spot.held * bid
<1>1. /\ perp.gained \in Fraction /\ perp.cost \in Fraction /\ perp.held \in Int
      /\ spot.gained \in Fraction /\ spot.cost \in Fraction /\ spot.held \in Int
  BY TradedLegs
<1>2. PICK a \in Int, b \in Int : /\ cash = a + b
                                  /\ IsWhole(Plus(perp.gained, perp.cost), a)
                                  /\ IsWhole(Plus(spot.gained, Times(spot.cost, -1)), b)
  BY TradedLegs
<1>3. mark \in Int /\ bid \in Int
  BY LedgerAssumption
<1> HIDE DEF perp, spot
<1>4. h \in Int /\ k \in Int
  BY <1>1, <1>3, Regroups
<1>5. Equity(perp, spot, mark, bid) = Plus(Plus(perp.gained, Minus(perp.cost, Whole(h))),
                                           Plus(Whole(k), Minus(spot.gained, spot.cost)))
  BY DEF Equity
<1> HIDE DEF h, k
<1>6. /\ IsWhole(Plus(perp.gained, Minus(perp.cost, Whole(h))), a + (0 - h))
      /\ IsWhole(Plus(Whole(k), Minus(spot.gained, spot.cost)), k + b)
  <2> DEFINE pg == perp.gained
             pc == perp.cost
             sg == spot.gained
             sc == spot.cost
  <2>1. /\ pg \in Fraction /\ pc \in Fraction /\ sg \in Fraction /\ sc \in Fraction
        /\ IsWhole(Plus(pg, pc), a) /\ IsWhole(Plus(sg, Times(sc, -1)), b)
    BY <1>1, <1>2
  <2> HIDE DEF pg, pc, sg, sc
  <2>2. /\ IsWhole(Plus(pg, Minus(pc, Whole(h))), a + (0 - h))
        /\ IsWhole(Plus(Whole(k), Minus(sg, sc)), k + b)
    BY <2>1, <1>4, LegsWorth
  <2> QED
    BY <2>2 DEF pg, pc, sg, sc
<1>7. a + (0 - h) \in Int /\ k + b \in Int
  BY <1>4
<1>8. IsWhole(Equity(perp, spot, mark, bid), (a + (0 - h)) + (k + b))
  BY <1>5, <1>6, <1>7, PlusIsWhole
<1>9. (a + (0 - h)) + (k + b) = cash + k - h /\ cash + k - h \in Int
  BY <1>2, <1>4
<1>10. IsWhole(Equity(perp, spot, mark, bid), cash + k - h)
  BY <1>8, <1>9
<1>11. Same(Equity(perp, spot, mark, bid), Whole(cash + k - h))
  BY <1>9, <1>10, WholeIsSame DEF Whole
<1> QED
  BY <1>11 DEF perp, spot, h, k

\* An average times what is held is the cost again.
LEMMA CostIsRestored ==
    ASSUME NEW g \in Fraction, NEW x \in Fraction, g.d # 0, x.d # 0, NEW h \in Int, h # 0,
           NEW a \in Int, IsWhole(Plus(g, Times(x, -1)), a)
    PROVE  LET y == Times(Frac(x.n, x.d * h), h) IN
           y \in Fraction /\ y.d # 0 /\ IsWhole(Plus(g, Times(y, -1)), a)
<1> DEFINE gn == g.n
           gd == g.d
           xn == x.n
           xd == x.d
           y == Times(Frac(x.n, x.d * h), h)
           m == 0 - xn
           D == gd * xd
<1>1. gn \in Int /\ gd \in Int /\ xn \in Int /\ xd \in Int /\ m \in Int
  BY DEF Fraction
<1>2. y = Frac(xn * h, xd * h)
  BY DEF Times, Frac
<1>3. Plus(g, Times(x, -1)) = Frac(gn * xd + (xn * (-1)) * gd, D)
  BY DEF Plus, Times, Frac
<1>4. Plus(g, Times(y, -1)) = Frac(gn * (xd * h) + ((xn * h) * (-1)) * gd, gd * (xd * h))
  BY <1>2 DEF Plus, Times, Frac
<1>5. gn * xd + (xn * (-1)) * gd = a * D
  BY <1>3 DEF IsWhole, Frac
<1> HIDE DEF y, gn, gd, xn, xd
<1>6. xn * (-1) = m /\ (xn * h) * (-1) = m * h
  <2>1. xn * (-1) = m
    BY <1>1
  <2>2. xn * h \in Int /\ m * h = 0 * h - xn * h /\ 0 * h = 0
    BY <1>1, Regroups, Distributes
  <2>3. (xn * h) * (-1) = 0 - xn * h
    BY <2>2
  <2> QED
    BY <2>1, <2>2, <2>3
<1> HIDE DEF m
<1>7. /\ gn * (xd * h) = (gn * xd) * h /\ (m * h) * gd = (m * gd) * h /\ gd * (xd * h) = D * h
      /\ gn * xd \in Int /\ m * gd \in Int /\ D \in Int
  BY <1>1, Regroups
<1>8. (gn * xd + m * gd) * h = (gn * xd) * h + (m * gd) * h
  BY <1>7, Distributes
<1>9. (a * D) * h = a * (D * h) /\ D * h \in Int /\ a * (D * h) \in Int
  BY <1>7, Regroups
<1>10. Plus(g, Times(y, -1)) = Frac(a * (D * h), D * h)
  BY <1>4, <1>5, <1>6, <1>7, <1>8, <1>9
<1>11. D # 0
  BY <1>1, NonZeroProduct DEF gd, xd
<1>12. D * h # 0
  BY <1>7, <1>11, NonZeroProduct
<1>13. xd * h # 0 /\ xd * h \in Int /\ xn * h \in Int
  BY <1>1, Regroups, NonZeroProduct DEF xd
<1> HIDE DEF D
<1>14. y \in Fraction /\ y.d # 0
  BY <1>2, <1>13 DEF Frac, Fraction
<1>15. IsWhole(Frac(a * (D * h), D * h), a)
  BY <1>9, <1>12 DEF IsWhole, Frac, Fraction
<1> QED
  BY <1>10, <1>14, <1>15 DEF y

LEMMA QtyGrows ==
    ASSUME NEW S, IsFiniteSet(S), NEW tab, \A i \in S : tab[i].qty \in Nat, NEW T, T \subseteq S
    PROVE  QtyOf(tab, T) <= QtyOf(tab, S) /\ QtyOf(tab, T) \in Int /\ QtyOf(tab, S) \in Int
<1> DEFINE bad == {s \in SUBSET S : T \subseteq s /\ ~(QtyOf(tab, T) <= QtyOf(tab, s))}
<1>1. \A s \in SUBSET S : /\ IsFiniteSet(s) /\ QtyOf(tab, s) \in Int
                          /\ \A x \in s : QtyOf(tab, s) = tab[x].qty + QtyOf(tab, s \ {x})
  <2> SUFFICES ASSUME NEW s \in SUBSET S
               PROVE  /\ IsFiniteSet(s) /\ QtyOf(tab, s) \in Int
                      /\ \A x \in s : QtyOf(tab, s) = tab[x].qty + QtyOf(tab, s \ {x})
    OBVIOUS
  <2>1. IsFiniteSet(s) /\ \A i \in s : tab[i].qty \in Int
    BY FS_Subset
  <2> QED
    BY <2>1, QtyOfTakesAny
<1>2. bad = {}
  <2> SUFFICES ASSUME bad # {} PROVE FALSE
    OBVIOUS
  <2>1. PICK s \in bad : \A x \in s : s \ {x} \notin bad
    <3>1. bad \subseteq SUBSET S
      OBVIOUS
    <3> HIDE DEF bad
    <3> QED
      BY <3>1, SmallestSubset
  <2>2. s \in SUBSET S /\ T \subseteq s /\ ~(QtyOf(tab, T) <= QtyOf(tab, s))
    BY <2>1
  <2>3. s # T
    BY <1>1, <2>2
  <2>4. PICK x \in s : x \notin T
    BY <2>2, <2>3
  <2>5. QtyOf(tab, T) <= QtyOf(tab, s \ {x})
    BY <2>1, <2>2, <2>4
  <2>6. tab[x].qty \in Nat /\ QtyOf(tab, s) = tab[x].qty + QtyOf(tab, s \ {x})
    BY <1>1, <2>2
  <2>7. QtyOf(tab, s \ {x}) \in Int /\ QtyOf(tab, T) \in Int /\ T \in SUBSET S
    BY <1>1, <2>2
  <2> QED
    BY <2>2, <2>5, <2>6, <2>7
<1>3. S \notin bad /\ S \in SUBSET S /\ T \in SUBSET S
  BY <1>2
<1> QED
  BY <1>1, <1>3

\* Who holds all that was bought bought all of it.
LEMMA EverythingBought ==
    ASSUME fills \in Seq(Fill)
    PROVE  SpotEntry(PhaseQty(fills, "spot", "entry"))
               = Frac(PhaseCost(fills, "spot", "entry"), PhaseQty(fills, "spot", "entry"))
<1> DEFINE buys == PhaseIds(fills, "spot", "entry")
           held == QtyOf(fills, buys)
           later(i) == QtyOf(fills, {j \in buys : j > i})
           taken == [i \in buys |-> Max({0, Min({fills[i].qty, held - later(i)})})]
           all == [i \in buys |-> fills[i].qty]
<1>1. Of("spot", "entry") = buys
  BY DEF Of, PhaseIds
<1>2. SpotEntry(held) = PaidFor(fills, taken)
  BY <1>1 DEF SpotEntry
<1>3. buys \subseteq 1..Len(fills) /\ IsFiniteSet(buys) /\ \A i \in buys : fills[i].qty \in Nat
  <2>1. Len(fills) \in Nat /\ \A i \in 1..Len(fills) : fills[i] \in Fill
    OBVIOUS
  <2>2. buys \subseteq 1..Len(fills)
    BY DEF PhaseIds
  <2>3. IsFiniteSet(buys)
    <3>1. IsFiniteSet(1..Len(fills))
      BY <2>1, FS_Interval
    <3> QED
      BY <2>2, <3>1, FS_Subset
  <2> HIDE DEF buys
  <2> QED
    BY <2>1, <2>2, <2>3 DEF Fill
<1> HIDE DEF buys
<1>4. ASSUME NEW i \in buys
      PROVE  Max({0, Min({fills[i].qty, held - later(i)})}) = fills[i].qty
  <2> DEFINE rest == buys \ {i}
             more == {j \in buys : j > i}
  <2>0. i \in Nat
    BY <1>3
  <2>1. more \subseteq rest
    BY <2>0
  <2>2. IsFiniteSet(rest) /\ \A j \in rest : fills[j].qty \in Nat
    BY <1>3, FS_Subset
  <2> HIDE DEF rest, more
  <2>3. QtyOf(fills, more) <= QtyOf(fills, rest) /\ QtyOf(fills, more) \in Int /\ QtyOf(fills, rest) \in Int
    BY <2>1, <2>2, QtyGrows
  <2>4. held = fills[i].qty + QtyOf(fills, rest)
    <3>1. \A j \in buys : fills[j].qty \in Int
      BY <1>3
    <3> QED
      BY <1>3, <3>1, QtyOfTakesAny DEF rest
  <2>5. later(i) = QtyOf(fills, more)
    BY DEF more
  <2> DEFINE a == fills[i].qty
             b == held - later(i)
  <2>6. a \in Nat
    BY <1>3
  <2> HIDE DEF held, later
  <2>7. b \in Int /\ a <= b
    BY <2>3, <2>4, <2>5, <2>6
  <2> HIDE DEF a, b
  <2>8. Max({0, Min({a, b})}) = a
    <3>1. Max({0, Min({a, b})}) = IF b <= 0 THEN 0 ELSE IF a <= b THEN a ELSE b
      BY <2>6, <2>7, Clipped
    <3> QED
      BY <2>6, <2>7, <3>1
  <2> QED
    BY <2>8 DEF a, b
<1>5. taken = all
  BY <1>4
<1>6. SumFunction(all) = held
  BY DEF QtyOf
<1>7. WorthOf(fills, all) = CostOf(fills, buys)
  <2>1. DOMAIN all = buys /\ \A i \in buys : all[i] = fills[i].qty
    OBVIOUS
  <2> HIDE DEF all
  <2>2. [i \in DOMAIN all |-> all[i] * fills[i].px] = [i \in buys |-> fills[i].qty * fills[i].px]
    BY <2>1
  <2> QED
    BY <2>2 DEF WorthOf, CostOf
<1>8. PaidFor(fills, taken) = Frac(CostOf(fills, buys), held)
  BY <1>5, <1>6, <1>7 DEF PaidFor
<1> QED
  BY <1>2, <1>8 DEF PhaseQty, PhaseCost, buys

\* Both legs closed at the bids: the money of the trades and of the close.
LEMMA PairIsWorth ==
    ASSUME NEW p \in CostState, NEW s \in CostState, NEW a \in Int, NEW b \in Int,
           IsWhole(Plus(p.gained, p.cost), a), IsWhole(Plus(s.gained, Times(s.cost, -1)), b),
           NEW pb \in Int, NEW sb \in Int, p.held = s.held
    PROVE  Same(PairPnl(p, s, pb, sb), Whole((a + b) + p.held * (sb - pb)))
<1> DEFINE pg == p.gained
           pc == p.cost
           sg == s.gained
           sc == s.cost
           h == p.held * pb
           k == s.held * sb
<1>1. /\ pg \in Fraction /\ pc \in Fraction /\ sg \in Fraction /\ sc \in Fraction
      /\ IsWhole(Plus(pg, pc), a) /\ IsWhole(Plus(sg, Times(sc, -1)), b)
      /\ p.held \in Int /\ s.held \in Int
  BY DEF CostState
<1>2. h \in Int /\ k \in Int
  BY <1>1, Regroups
<1>3. PairPnl(p, s, pb, sb) = Plus(Plus(Minus(pc, Whole(h)), pg), Plus(Minus(Whole(k), sc), sg))
  BY DEF PairPnl
<1>4. p.held * (sb - pb) = k - h
  <2>1. (sb - pb) * p.held = sb * p.held - pb * p.held
    BY <1>1, Distributes
  <2>2. /\ sb - pb \in Int /\ (sb - pb) * p.held = p.held * (sb - pb)
        /\ sb * p.held = p.held * sb /\ pb * p.held = p.held * pb
    BY <1>1, Regroups
  <2> QED
    BY <2>1, <2>2
<1> HIDE DEF pg, pc, sg, sc, h, k
<1>5. /\ IsWhole(Plus(Minus(pc, Whole(h)), pg), a + (0 - h))
      /\ IsWhole(Plus(Minus(Whole(k), sc), sg), k + b)
  BY <1>1, <1>2, LegsWorth
<1>6. a + (0 - h) \in Int /\ k + b \in Int
  BY <1>2
<1>7. IsWhole(PairPnl(p, s, pb, sb), (a + (0 - h)) + (k + b))
  BY <1>3, <1>5, <1>6, PlusIsWhole
<1>8. (a + (0 - h)) + (k + b) = (a + b) + (k - h) /\ (a + b) + (k - h) \in Int
  BY <1>2
<1>9. Same(PairPnl(p, s, pb, sb), Whole((a + b) + (k - h)))
  BY <1>7, <1>8, WholeIsSame DEF Whole
<1> QED
  BY <1>4, <1>9

LEMMA ReconFollows == ReconInv => ReconIsCash
<1> DEFINE perp == AverageCost("perp")
           spot == AverageCost("spot")
           h == perp.held
           t == TrueTab(fills, bought)
<1> SUFFICES ASSUME ReconInv, h > 0, h = spot.held, NEW pb \in Price, NEW sb \in Price,
                    NEW replay \in BOOLEAN, replay \/ Entries(fills)
             PROVE  Same(NetPnl(perp, spot, pb, sb, 0, replay), Whole(cash + h * (sb - pb)))
  <2>1. fills \in Seq(Fill) => DOMAIN fills = 1..Len(fills)
    OBVIOUS
  <2>2. ReconInv => fills \in Seq(Fill)
    BY DEF ReconInv, MoneyInv, LedgerInv, LedgerTypes
  <2> QED
    BY <2>1, <2>2 DEF ReconIsCash, Entries
<1>1. /\ perp = Costed(t, "perp") /\ spot = Costed(t, "spot")
      /\ perp \in CostState /\ spot \in CostState
      /\ perp.gained \in Fraction /\ perp.cost \in Fraction /\ perp.held \in Int
      /\ spot.gained \in Fraction /\ spot.cost \in Fraction /\ spot.held \in Int
      /\ spot.cost.d # 0
  BY TradedLegs
<1>2. PICK a \in Int, b \in Int : /\ cash = a + b
                                  /\ IsWhole(Plus(perp.gained, perp.cost), a)
                                  /\ IsWhole(Plus(spot.gained, Times(spot.cost, -1)), b)
                                  /\ b = LegCash(Walked(t, "spot"), "spot")
  BY TradedLegs
<1>3. pb \in Int /\ sb \in Int /\ fills \in Seq(Fill)
  BY LedgerAssumption DEF ReconInv, MoneyInv, LedgerInv, LedgerTypes
<1>g. spot.gained.d # 0
  BY <1>1 DEF ReconInv, FollowsAll, Follows, Leg
<1>4. h \in Int /\ h # 0 /\ spot.held > 0
  BY <1>1
<1>5. Min({spot.held + 0, h}) = h
  BY <1>1, SmallerOf
<1> HIDE DEF perp, spot, t
<1>6. CASE replay
  <2> DEFINE y == Times(Frac(spot.cost.n, spot.cost.d * h), h)
             valued == [held |-> h, cost |-> y, gained |-> spot.gained]
  <2>1. NetPnl(perp, spot, pb, sb, 0, replay) = PairPnl(perp, valued, pb, sb)
    BY <1>4, <1>5, <1>6 DEF NetPnl
  <2>2. y \in Fraction /\ y.d # 0 /\ IsWhole(Plus(spot.gained, Times(y, -1)), b)
    <3> DEFINE g == spot.gained
               x == spot.cost
    <3>1. g \in Fraction /\ x \in Fraction /\ g.d # 0 /\ x.d # 0 /\ IsWhole(Plus(g, Times(x, -1)), b)
      BY <1>1, <1>2, <1>g
    <3>2. y = Times(Frac(x.n, x.d * h), h)
      OBVIOUS
    <3> HIDE DEF g, x, y, h
    <3>3. y \in Fraction /\ y.d # 0 /\ IsWhole(Plus(g, Times(y, -1)), b)
      BY <1>4, <3>1, <3>2, CostIsRestored
    <3> QED
      BY <3>3 DEF g
  <2> HIDE DEF y
  <2>3. valued \in CostState /\ valued.held = h /\ valued.cost = y /\ valued.gained = spot.gained
    BY <1>1, <1>4, <2>2 DEF CostState
  <2> HIDE DEF valued
  <2>4. IsWhole(Plus(valued.gained, Times(valued.cost, -1)), b)
    BY <2>2, <2>3
  <2>5. Same(PairPnl(perp, valued, pb, sb), Whole((a + b) + perp.held * (sb - pb)))
    BY <1>1, <1>2, <1>3, <2>3, <2>4, PairIsWorth
  <2> QED
    BY <1>2, <2>1, <2>5
<1>7. CASE ~replay
  <2> DEFINE C == PhaseCost(fills, "spot", "entry")
             Q == PhaseQty(fills, "spot", "entry")
             y == Times(SpotEntry(h), h)
             valued == [held |-> h, cost |-> y, gained |-> Whole(0)]
  <2>1. t = fills
    <3>1. fills = [i \in DOMAIN fills |-> fills[i]] /\ DOMAIN fills = 1..Len(fills)
      BY <1>3
    <3>2. \A i \in DOMAIN fills : [fills[i] EXCEPT !.px = fills[i].px] = fills[i]
      <4> SUFFICES ASSUME NEW i \in DOMAIN fills
                   PROVE  [fills[i] EXCEPT !.px = fills[i].px] = fills[i]
        OBVIOUS
      <4>1. fills[i] \in Fill
        BY <1>3
      <4> QED
        BY <4>1 DEF Fill
    <3>3. \A i \in DOMAIN fills : ~IsBuyIn(fills, i)
      BY <1>7, <3>1 DEF Entries, IsBuyIn
    <3>4. t = [i \in DOMAIN fills |-> [fills[i] EXCEPT !.px = fills[i].px]]
      BY <3>3 DEF TrueTab, t
    <3> QED
      BY <3>1, <3>2, <3>4
  <2>2. OpenedLeg(fills, "perp") /\ OpenedLeg(fills, "spot")
    BY <1>7 DEF ReconInv, OnlyOpened, Leg
  <2>3. perp.gained = Whole(0) /\ spot.gained = Whole(0)
    BY <1>1, <2>1, <2>2 DEF OpenedLeg
  <2>4. h = Q /\ b = 0 - C /\ C \in Int
    <3> DEFINE w == Walked(fills, "spot")
    <3>1. /\ w.out = 0 /\ w.back = 0 /\ w.got = 0 /\ w.undo = 0 /\ Held(w) = Q /\ Spent(w) = C
      BY <2>2 DEF OpenedLeg
    <3>2. spot.held = Held(w) - w.out
      BY <1>1, <2>1 DEF ReconInv, FollowsAll, Follows, Leg, t
    <3>3. w \in WalkState
      BY <1>3, WalkedType
    <3>4. Held(w) \in Int /\ Spent(w) \in Int
      <4>1. w.open \in Seq(Lot)
        BY <3>3 DEF WalkState
      <4> HIDE DEF w
      <4> QED
        BY <4>1, LotsSum DEF Held, Spent
    <3>5. b = LegCash(w, "spot")
      BY <1>2, <2>1
    <3> HIDE DEF w, C, Q
    <3>6. b = 0 - (Spent(w) + w.back - w.got - w.undo)
      BY <3>5 DEF LegCash
    <3> QED
      BY <3>1, <3>2, <3>4, <3>6
  <2>5. SpotEntry(h) = Frac(C, h)
    BY <1>3, <2>4, EverythingBought
  <2> HIDE DEF C, Q
  <2>6. y = Frac(C * h, h) /\ C * h \in Int
    BY <1>4, <2>4, <2>5, Regroups DEF Times, Frac
  <2>7. y \in Fraction /\ IsWhole(Times(y, -1), b)
    <3>1. y \in Fraction
      BY <1>4, <2>6 DEF Frac, Fraction
    <3>2. Times(y, -1) = Frac((C * h) * (-1), h)
      BY <2>6 DEF Times, Frac
    <3>3. (0 - C) * h = 0 * h - C * h
      BY <1>4, <2>4, Distributes
    <3> HIDE DEF y, h
    <3>4. (C * h) * (-1) = b * h /\ b * h \in Int
      BY <1>4, <2>4, <2>6, <3>3, Regroups
    <3> QED
      BY <1>4, <3>1, <3>2, <3>4 DEF IsWhole, Frac, Fraction
  <2> HIDE DEF y
  <2>8. valued \in CostState /\ valued.held = h /\ valued.cost = y /\ valued.gained = Whole(0)
    BY <1>1, <1>4, <2>3, <2>7 DEF CostState
  <2>9. [perp EXCEPT !.gained = Whole(0)] = perp
    BY <1>1, <2>3 DEF CostState
  <2>10. SpotEntry(h).d > 0
    BY <1>4, <2>5 DEF Frac
  <2>11. NetPnl(perp, spot, pb, sb, 0, replay) = PairPnl(perp, valued, pb, sb)
    BY <1>4, <1>5, <1>7, <2>9, <2>10 DEF NetPnl, y
  <2> HIDE DEF valued
  <2>12. IsWhole(Plus(valued.gained, Times(valued.cost, -1)), b)
    <3>1. IsWhole(Whole(0), 0)
      BY IntIsWhole DEF Whole
    <3>2. IsWhole(Plus(Whole(0), Times(y, -1)), 0 + b)
      BY <2>7, <3>1, PlusIsWhole
    <3> QED
      BY <2>8, <3>2
  <2>13. Same(PairPnl(perp, valued, pb, sb), Whole((a + b) + perp.held * (sb - pb)))
    BY <1>1, <1>2, <1>3, <2>8, <2>12, PairIsWorth
  <2> QED
    BY <1>2, <2>11, <2>13
<1> QED
  BY <1>6, <1>7

-------------------------------------------------------------------------------
(***************************************************************************)
(* What a close is estimated to bring.                                     *)
(***************************************************************************)

LEMMA PartIsWhole ==
    ASSUME NEW x \in Fraction, x.d # 0, NEW k \in Int, NEW a \in Int, x.n * k = a * x.d
    PROVE  IsWhole(Times(x, k), a)
<1>1. Times(x, k) \in Fraction /\ Times(x, k) = Frac(x.n * k, x.d)
  BY TimesIs
<1> QED
  BY <1>1 DEF IsWhole, Frac

LEMMA PartsAddUp ==
    ASSUME NEW x \in Fraction, x.d # 0, NEW i \in Int, NEW j \in Int, NEW a \in Int,
           x.n * (i + j) = a * x.d
    PROVE  IsWhole(Plus(Times(x, i), Times(x, j)), a)
<1> DEFINE n == x.n
           d == x.d
           A == n * i
           B == n * j
<1>1. n \in Int /\ d \in Int /\ A \in Int /\ B \in Int
  <2>1. n \in Int /\ d \in Int
    BY DEF Fraction
  <2> QED
    BY <2>1, Regroups
<1>2. Times(x, i) = Frac(A, d) /\ Times(x, j) = Frac(B, d)
  BY DEF Times
<1>3. Plus(Times(x, i), Times(x, j)) = Frac(A * d + B * d, d * d)
  BY <1>2 DEF Plus, Frac
<1>4. A + B = a * d
  <2>1. (i + j) * n = i * n + j * n
    BY <1>1, Distributes
  <2>2. i * n = A /\ j * n = B /\ i + j \in Int
    BY <1>1, Regroups
  <2>3. (i + j) * n = n * (i + j)
    BY <1>1, <2>2, Regroups
  <2> QED
    BY <2>1, <2>2, <2>3
<1>5. d # 0
  OBVIOUS
<1> HIDE DEF A, B, n, d
<1>6. A * d + B * d = a * (d * d)
  <2>1. (A + B) * d = A * d + B * d
    BY <1>1, Distributes
  <2>2. (a * d) * d = a * (d * d)
    BY <1>1, Regroups
  <2> QED
    BY <1>4, <2>1, <2>2
<1>7. d * d \in Int /\ d * d # 0
  BY <1>1, <1>5, NonZeroProduct
<1>8. a * (d * d) \in Int
  BY <1>7, Regroups
<1> QED
  BY <1>3, <1>6, <1>7, <1>8 DEF IsWhole, Frac, Fraction

LEMMA GainSplits ==
    ASSUME NEW sold \in Fraction, NEW paid \in Fraction, sold.d # 0, paid.d # 0,
           NEW d, NEW o \in Int, Min({d.entered, d.exited}) = o
    PROVE  Gain(sold, paid, d) = Plus(Times(sold, o), Times(paid, 0 - o))
<1> DEFINE sn == sold.n
           sd == sold.d
           pn == paid.n
           pd == paid.d
<1>1. sn \in Int /\ sd \in Int /\ pn \in Int /\ pd \in Int
  BY DEF Fraction
<1>2. Gain(sold, paid, d) = Frac((sn * pd - pn * sd) * o, sd * pd)
  BY DEF Gain
<1>3. Plus(Times(sold, o), Times(paid, 0 - o)) = Frac((sn * o) * pd + (pn * (0 - o)) * sd, sd * pd)
  BY DEF Plus, Times, Frac
<1> HIDE DEF sn, sd, pn, pd
<1>4. (sn * pd - pn * sd) * o = (sn * pd) * o - (pn * sd) * o
  <2>1. sn * pd \in Int /\ pn * sd \in Int
    BY <1>1, Regroups
  <2> QED
    BY <2>1, Distributes
<1>5. (sn * o) * pd = (sn * pd) * o /\ (pn * sd) * o = (pn * o) * sd /\ pn * o \in Int
      /\ (sn * pd) * o \in Int /\ (pn * o) * sd \in Int
  <2>1. sn * pd \in Int /\ pn * o \in Int
    BY <1>1, Regroups
  <2>2. (sn * pd) * o \in Int /\ (pn * o) * sd \in Int
    BY <1>1, <2>1, Regroups
  <2> QED
    BY <1>1, <2>1, <2>2, Regroups
<1>6. (pn * (0 - o)) * sd = 0 - (pn * o) * sd
  <2>1. (0 - o) * pn = 0 * pn - o * pn /\ 0 * pn = 0
    BY <1>1, Distributes
  <2>2. (0 - o) * pn = pn * (0 - o) /\ o * pn = pn * o
    <3>1. 0 - o \in Int
      OBVIOUS
    <3> QED
      BY <1>1, <3>1, Regroups
  <2>3. pn * (0 - o) = 0 - pn * o
    BY <2>1, <2>2
  <2>4. (0 - pn * o) * sd = 0 * sd - (pn * o) * sd /\ 0 * sd = 0
    BY <1>1, <1>5, Distributes
  <2> QED
    BY <2>3, <2>4
<1>7. (sn * pd - pn * sd) * o = (sn * o) * pd + (pn * (0 - o)) * sd
  BY <1>4, <1>5, <1>6
<1> QED
  BY <1>2, <1>3, <1>7

\* What was gained of a leg and what closing the rest of it is estimated to bring make up
\* its money: the average that both are figured from goes.
LEMMA LegEstimate ==
    ASSUME NEW e \in Fraction, NEW x \in Fraction, NEW S \in Int, NEW H \in Int, NEW G \in Int,
           NEW o \in Int, NEW px \in Int, e.d # 0, e.n * H = S * e.d,
           o # 0 => x.d # 0 /\ x.n * o = G * x.d, o = 0 => G = 0,
           NEW d, Min({d.entered, d.exited}) = o
    PROVE  LET q == H - o IN
           /\ IsWhole(Plus(Gain(e, x, d), Times(Minus(e, Whole(px)), q)), S + ((0 - G) + (0 - px * q)))
           /\ IsWhole(Plus(Gain(x, e, d), Times(Minus(Whole(px), e), q)), (G + px * q) + (0 - S))
<1> DEFINE q == H - o
           W == Whole(px)
           N == Times(W, -1)
           neg == Times(e, -1)
           E2 == Times(e, q)
           P == Times(N, q)
           R == Times(W, q)
           E4 == Times(neg, q)
<1>1. q \in Int /\ 0 - px \in Int /\ px * q \in Int /\ -1 \in Int /\ 0 - q \in Int /\ 0 - o \in Int
      /\ 0 - S \in Int /\ 0 - G \in Int
  <2>1. q \in Int
    OBVIOUS
  <2>2. px * q \in Int
    BY <2>1, Regroups
  <2> QED
    BY <2>1, <2>2
<1>2. W \in Fraction /\ N \in Fraction /\ neg \in Fraction
  BY <1>1, WholeType, TimesIs
<1>3. Minus(e, Whole(px)) = Plus(e, N) /\ Minus(Whole(px), e) = Plus(W, neg)
  BY DEF Minus
<1>4. IsWhole(P, 0 - px * q) /\ IsWhole(R, px * q)
  <2>1. N = Whole(0 - px)
    BY NegatedWhole
  <2>2. (0 - px) * q = 0 * q - px * q /\ 0 * q = 0
    BY <1>1, Distributes
  <2>3. P = Frac((0 - px) * q, 1) /\ R = Frac(px * q, 1)
    BY <2>1 DEF Times, Whole, Frac
  <2> HIDE DEF q, P, R
  <2>4. P = Frac(0 - px * q, 1)
    BY <1>1, <2>2, <2>3
  <2> QED
    BY <1>1, <2>3, <2>4, IntIsWhole
<1>5. E4 = Times(e, 0 - q)
  <2>1. e.n \in Int
    BY DEF Fraction
  <2>2. (e.n * (-1)) * q = e.n * (0 - q)
    <3>1. (e.n * (-1)) * q = e.n * ((-1) * q)
      BY <1>1, <2>1, Regroups
    <3>2. -1 * q = 0 - q
      BY <1>1
    <3> QED
      BY <3>1, <3>2
  <2> QED
    BY <2>2 DEF Times, Frac
<1> HIDE DEF W, N, neg
<1>6. Times(Plus(e, N), q) = Plus(E2, P) /\ Times(Plus(W, neg), q) = Plus(R, E4)
  BY <1>1, <1>2, TimesDistributes
<1>7. E2 \in Fraction /\ P \in Fraction /\ R \in Fraction /\ E4 \in Fraction
  BY <1>1, <1>2, TimesIs
<1>8. e.n \in Int /\ e.d \in Int /\ e.n * (0 - H) = (0 - S) * e.d
  <2>1. e.n \in Int /\ e.d \in Int
    BY DEF Fraction
  <2>2. (0 - H) * e.n = 0 * e.n - H * e.n /\ (0 - S) * e.d = 0 * e.d - S * e.d
        /\ 0 * e.n = 0 /\ 0 * e.d = 0
    BY <2>1, Distributes
  <2>3. 0 - H \in Int
    OBVIOUS
  <2>4. (0 - H) * e.n = e.n * (0 - H) /\ H * e.n = e.n * H
    BY <2>1, <2>3, Regroups
  <2> QED
    BY <2>1, <2>2, <2>4
<1>9. CASE o = 0
  <2>1. q = H /\ 0 - q = 0 - H /\ G = 0
    BY <1>9
  <2>2. IsWhole(E2, S)
    BY <1>1, <2>1, PartIsWhole
  <2>3. IsWhole(E4, 0 - S)
    BY <1>1, <1>5, <1>8, <2>1, PartIsWhole
  <2>4. IsWhole(Gain(e, x, d), 0) /\ IsWhole(Gain(x, e, d), 0)
    <3>1. x.n \in Int /\ x.d \in Int
      BY DEF Fraction
    <3>2. CASE x.d = 0
      <4>1. Gain(e, x, d) = Frac(0, 1) /\ Gain(x, e, d) = Frac(0, 1)
        BY <3>2 DEF Gain
      <4> QED
        BY <4>1, IntIsWhole
    <3>3. CASE x.d # 0
      <4> DEFINE m == e.n * x.d - x.n * e.d
                 k == x.n * e.d - e.n * x.d
      <4>1. m * 0 = 0 /\ k * 0 = 0
        <5>1. m \in Int /\ k \in Int
          <6>1. e.n * x.d \in Int /\ x.n * e.d \in Int
            BY <1>8, <3>1, Regroups
          <6> QED
            BY <6>1
        <5> HIDE DEF m, k
        <5> QED
          BY <5>1
      <4>2. Gain(e, x, d) = Frac(m * 0, e.d * x.d) /\ Gain(x, e, d) = Frac(k * 0, x.d * e.d)
        BY <1>9, <3>3 DEF Gain
      <4> HIDE DEF m, k
      <4>3. e.d * x.d \in Int /\ e.d * x.d # 0 /\ x.d * e.d \in Int /\ x.d * e.d # 0
        BY <1>8, <3>1, <3>3, NonZeroProduct
      <4>4. Gain(e, x, d) = Frac(0, e.d * x.d) /\ Gain(x, e, d) = Frac(0, x.d * e.d)
        BY <4>1, <4>2
      <4>5. ASSUME NEW c \in Int, c # 0 PROVE IsWhole(Frac(0, c), 0)
        BY <4>5 DEF IsWhole, Frac, Fraction
      <4> QED
        BY <4>3, <4>4, <4>5
    <3> QED
      BY <3>2, <3>3
  <2> HIDE DEF E2, P, R, E4, q
  <2>5. IsWhole(Plus(E2, P), S + (0 - px * q)) /\ IsWhole(Plus(R, E4), px * q + (0 - S))
    <3>1. 0 - px * q \in Int
      BY <1>1
    <3> QED
      BY <1>1, <1>4, <2>2, <2>3, <3>1, PlusIsWhole
  <2>6. S + (0 - px * q) \in Int /\ px * q + (0 - S) \in Int
    BY <1>1
  <2>7. /\ IsWhole(Plus(Gain(e, x, d), Plus(E2, P)), 0 + (S + (0 - px * q)))
        /\ IsWhole(Plus(Gain(x, e, d), Plus(R, E4)), 0 + (px * q + (0 - S)))
    BY <2>4, <2>5, <2>6, PlusIsWhole
  <2>8. /\ 0 + (S + (0 - px * q)) = S + ((0 - G) + (0 - px * q))
        /\ 0 + (px * q + (0 - S)) = (G + px * q) + (0 - S)
    BY <1>1, <2>1
  <2> QED
    BY <1>3, <1>6, <2>7, <2>8 DEF q
<1>10. CASE o # 0
  <2> DEFINE E1 == Times(e, o)
             X1 == Times(x, 0 - o)
             X3 == Times(x, o)
             E3 == Times(e, 0 - o)
  <2>1. Gain(e, x, d) = Plus(E1, X1) /\ Gain(x, e, d) = Plus(X3, E3)
    BY <1>10, GainSplits
  <2>2. E1 \in Fraction /\ X1 \in Fraction /\ X3 \in Fraction /\ E3 \in Fraction
    BY <1>1, TimesIs
  <2>3. IsWhole(Plus(E1, E2), S)
    <3>1. o + q = H
      OBVIOUS
    <3>2. e.n * (o + q) = S * e.d
      BY <3>1
    <3> HIDE DEF q
    <3> QED
      BY <1>1, <3>2, PartsAddUp
  <2>4. IsWhole(Plus(E3, E4), 0 - S)
    <3>1. (0 - o) + (0 - q) = 0 - H
      OBVIOUS
    <3>2. e.n * ((0 - o) + (0 - q)) = (0 - S) * e.d
      BY <1>8, <3>1
    <3> HIDE DEF q, E4
    <3> QED
      BY <1>1, <1>5, <3>2, PartsAddUp
  <2>5. IsWhole(X1, 0 - G) /\ IsWhole(X3, G)
    <3>1. x.n \in Int /\ x.d \in Int
      BY DEF Fraction
    <3>a. (0 - o) * x.n = 0 * x.n - o * x.n
      BY <3>1, Distributes
    <3>b. (0 - G) * x.d = 0 * x.d - G * x.d
      BY <3>1, Distributes
    <3>2. (0 - o) * x.n = 0 - o * x.n /\ (0 - G) * x.d = 0 - G * x.d
      <4>1. 0 * x.n = 0 /\ 0 * x.d = 0
        BY <3>1
      <4> QED
        BY <3>a, <3>b, <4>1
    <3>3. (0 - o) * x.n = x.n * (0 - o) /\ o * x.n = x.n * o
      BY <1>1, <3>1, Regroups
    <3>4. x.n * (0 - o) = (0 - G) * x.d
      BY <1>10, <3>2, <3>3
    <3> QED
      BY <1>1, <1>10, <3>4, PartIsWhole
  <2> HIDE DEF E1, E2, E3, E4, X1, X3, P, R, q
  <2>6. /\ Plus(Plus(E1, X1), Plus(E2, P)) = Plus(Plus(E1, E2), Plus(X1, P))
        /\ Plus(Plus(X3, E3), Plus(R, E4)) = Plus(Plus(X3, R), Plus(E3, E4))
    BY <1>7, <2>2, PlusInterchanges
  <2>7. 0 - px * q \in Int
    BY <1>1
  <2>8. IsWhole(Plus(X1, P), (0 - G) + (0 - px * q)) /\ IsWhole(Plus(X3, R), G + px * q)
    BY <1>1, <1>4, <2>5, <2>7, PlusIsWhole
  <2>9. (0 - G) + (0 - px * q) \in Int /\ G + px * q \in Int
    BY <1>1
  <2>10. /\ IsWhole(Plus(Plus(E1, E2), Plus(X1, P)), S + ((0 - G) + (0 - px * q)))
         /\ IsWhole(Plus(Plus(X3, R), Plus(E3, E4)), (G + px * q) + (0 - S))
    BY <1>1, <2>3, <2>4, <2>8, <2>9, PlusIsWhole
  <2> QED
    BY <1>3, <1>6, <2>1, <2>6, <2>10 DEF q
<1> QED
  BY <1>9, <1>10

LEMMA ExitAppend ==
    ASSUME NEW tab \in Seq(Fill), NEW f \in Fill, f.phase = "exit", NoneOver(tab)
    PROVE  /\ Append(tab, f) \in Seq(Fill) /\ NoneOver(Append(tab, f))
           /\ Len(Append(tab, f)) = Len(tab) + 1
           /\ \A l \in Leg : Derive(Append(tab, f), l).qty
                                 = Derive(tab, l).qty - (IF f.leg = l THEN f.qty ELSE 0)
<1> DEFINE more == Append(tab, f)
<1>1. more \in Seq(Fill) /\ Len(more) = Len(tab) + 1
  BY Appended
<1>2. ASSUME NEW l \in Leg
      PROVE  /\ Walked(more, l).over = 0
             /\ Derive(more, l).qty = Derive(tab, l).qty - (IF f.leg = l THEN f.qty ELSE 0)
  <2> DEFINE w == Walked(tab, l)
             w2 == Walked(more, l)
  <2>1. w2 = LegWalk(w, f, l) /\ w \in WalkState /\ w.over = 0
    BY WalkedAppend, WalkedType DEF NoneOver
  <2>2. /\ Derive(tab, l).qty = Held(w) - w.over - w.out
        /\ Derive(more, l).qty = Held(w2) - w2.over - w2.out
        /\ Held(w) \in Nat
    BY <1>1, DeriveIs
  <2>3. w.out \in Nat /\ f.qty \in Nat
    BY <2>1 DEF WalkState, Fill
  <2> HIDE DEF w, w2, more
  <2>4. CASE f.leg # l
    <3>1. w2 = w
      BY <2>1, <2>4 DEF LegWalk
    <3> QED
      BY <2>1, <2>2, <2>3, <2>4, <3>1 DEF w2
  <2>5. CASE f.leg = l
    <3>1. w2 = Walk(w, f)
      BY <2>1, <2>5 DEF LegWalk
    <3>2. w2 = [w EXCEPT !.out = w.out + f.qty, !.got = w.got + f.qty * f.px]
      BY <2>1, <3>1, ExitWalk
    <3>3. w2.open = w.open /\ w2.over = w.over /\ w2.out = w.out + f.qty
      BY <2>1, <3>2 DEF WalkState
    <3>4. Held(w2) = Held(w)
      BY <3>3 DEF Held
    <3>5. Derive(more, l).qty = Derive(tab, l).qty - f.qty
      BY <2>1, <2>2, <2>3, <3>3, <3>4
    <3> QED
      BY <2>1, <2>5, <3>3, <3>5 DEF w2
  <2> QED
    BY <2>4, <2>5 DEF w2
<1>3. NoneOver(more)
  BY <1>2 DEF NoneOver
<1> QED
  BY <1>1, <1>2, <1>3

\* What the row and the fills say of a leg that is held.
LEMMA OpenLeg ==
    ASSUME NEW tab \in Seq(Fill), NEW bk \in Row, Derived(tab, bk), NoneOver(tab), NEW l \in Leg,
           bk.leg[l].qty > 0
    PROVE  LET w == Walked(tab, l)  b == bk.leg[l]  d == Derive(tab, l) IN
           /\ b.entry \in Fraction /\ b.exit \in Fraction /\ b.qty \in Nat \ {0}
           /\ Held(w) \in Int /\ Spent(w) \in Int /\ w.out \in Int /\ w.got \in Int
           /\ w.back \in Int /\ w.undo \in Int
           /\ b.qty = Held(w) - w.out
           /\ b.entry.d # 0 /\ b.entry.n * Held(w) = Spent(w) * b.entry.d
           /\ w.out # 0 => b.exit.d # 0 /\ b.exit.n * w.out = w.got * b.exit.d
           /\ w.out = 0 => w.got = 0
           /\ Min({d.entered, d.exited}) = w.out
           /\ d.unwind = IF l = "perp" THEN w.back - w.undo ELSE -(w.back - w.undo)
           /\ d.qty = b.qty
<1> DEFINE w == Walked(tab, l)
           b == bk.leg[l]
           d == Derive(tab, l)
<1>1. /\ w \in WalkState /\ Held(w) \in Nat /\ Spent(w) \in Int
      /\ d.entered = Held(w) /\ d.exited = w.out /\ d.qty = Held(w) - w.over - w.out
      /\ d.entry = Frac(Spent(w), Held(w)) /\ d.exit = Frac(w.got, w.out)
      /\ d.unwind = IF l = "perp" THEN w.back - w.undo ELSE -(w.back - w.undo)
  BY DeriveIs
<1>2. /\ b.qty = d.qty /\ b.qty > 0
      /\ d.entry.d # 0 => Same(b.entry, d.entry)
      /\ d.exit.d # 0 => Same(b.exit, d.exit)
      /\ w.over = 0
  BY DEF Derived, NoneOver
<1>3. b.entry \in Fraction /\ b.exit \in Fraction /\ b.qty \in Int
  BY DEF Row, LegRow
<1> HIDE DEF w, b, d
<1>4. /\ w.out \in Nat /\ w.got \in Int /\ w.back \in Int /\ w.undo \in Int /\ w.over \in Nat
      /\ w.out = 0 => w.got = 0
  BY <1>1 DEF WalkState
<1>5. b.qty = Held(w) - w.out /\ Held(w) # 0 /\ w.out <= Held(w) /\ b.qty \in Nat \ {0}
  BY <1>1, <1>2, <1>3, <1>4
<1>6. b.entry.d # 0 /\ b.entry.n * Held(w) = Spent(w) * b.entry.d
  <2>1. Same(b.entry, Frac(Spent(w), Held(w)))
    BY <1>1, <1>2, <1>5 DEF Frac
  <2> QED
    BY <1>5, <2>1 DEF Same, Frac
<1>7. w.out # 0 => b.exit.d # 0 /\ b.exit.n * w.out = w.got * b.exit.d
  <2> SUFFICES ASSUME w.out # 0 PROVE b.exit.d # 0 /\ b.exit.n * w.out = w.got * b.exit.d
    OBVIOUS
  <2>1. Same(b.exit, Frac(w.got, w.out))
    BY <1>1, <1>2 DEF Frac
  <2> QED
    BY <2>1 DEF Same, Frac
<1>8. Min({d.entered, d.exited}) = w.out
  <2>1. Min({Held(w), w.out}) = IF Held(w) <= w.out THEN Held(w) ELSE w.out
    <3> DEFINE h == Held(w)
               o == w.out
    <3>1. h \in Int /\ o \in Int
      BY <1>1, <1>4
    <3> HIDE DEF h, o
    <3>2. Min({h, o}) = IF h <= o THEN h ELSE o
      BY <3>1, SmallerOf
    <3> QED
      BY <3>2 DEF h, o
  <2> QED
    BY <1>1, <1>4, <1>5, <2>1
<1> QED
  BY <1>1, <1>2, <1>3, <1>4, <1>5, <1>6, <1>7, <1>8 DEF w, b, d

LEMMA WholesAreSame ==
    ASSUME NEW x, NEW y, NEW a \in Int, IsWhole(x, a), IsWhole(y, a) PROVE Same(x, y)
<1>1. /\ x.n = a * x.d /\ y.n = a * y.d /\ x.d # 0 /\ y.d # 0
      /\ x.n \in Int /\ x.d \in Int /\ y.n \in Int /\ y.d \in Int
  BY DEF IsWhole, Fraction
<1> DEFINE c == x.d
           d == y.d
<1>2. x.n * d = (a * c) * d /\ y.n * c = (a * d) * c
  BY <1>1
<1>3. (a * c) * d = (a * d) * c
  <2>1. c \in Int /\ d \in Int
    BY <1>1
  <2> HIDE DEF c, d
  <2> QED
    BY <2>1, Regroups
<1> QED
  BY <1>1, <1>2, <1>3 DEF Same

\* The position closed at these prices: the money of its fills and of the close.
LEMMA ClosedIsMoney ==
    ASSUME NEW tab \in Seq(Fill), book \in Row, Derived(tab, book), NoneOver(tab),
           \A l \in Leg : book.leg[l].qty > 0, NEW cp \in Fill, NEW cs \in Fill,
           cp.leg = "perp" /\ cp.phase = "exit" /\ cp.qty = book.leg["perp"].qty,
           cs.leg = "spot" /\ cs.phase = "exit" /\ cs.qty = book.leg["spot"].qty
    PROVE  LET closed == Append(Append(tab, cp), cs) IN
           IsWhole(Pnl(closed, Recomputed(closed)),
                   (MoneyOf(tab) + (0 - cp.qty * cp.px) + cs.qty * cs.px) - (Len(tab) + 2))
<1> DEFINE one == Append(tab, cp)
           closed == Append(one, cs)
<1>1. /\ one \in Seq(Fill) /\ NoneOver(one) /\ Len(one) = Len(tab) + 1
      /\ \A l \in Leg : Derive(one, l).qty
                            = Derive(tab, l).qty - (IF cp.leg = l THEN cp.qty ELSE 0)
  BY ExitAppend
<1> HIDE DEF one
<1>2. /\ closed \in Seq(Fill) /\ NoneOver(closed) /\ Len(closed) = Len(one) + 1
      /\ \A l \in Leg : Derive(closed, l).qty
                            = Derive(one, l).qty - (IF cs.leg = l THEN cs.qty ELSE 0)
  BY <1>1, ExitAppend
<1>3. Len(tab) \in Nat /\ Len(closed) = Len(tab) + 2
  <2>1. Len(tab) \in Nat
    OBVIOUS
  <2> HIDE DEF closed
  <2> QED
    BY <1>1, <1>2, <2>1
<1> HIDE DEF closed
<1>4. \A l \in Leg : book.leg[l].qty = Derive(tab, l).qty /\ book.leg[l].qty \in Int
  BY DEF Derived, Row, LegRow
<1>5. ASSUME NEW l \in Leg PROVE Derive(closed, l).qty = 0
  <2>1. CASE l = "perp"
    <3>1. Derive(one, l).qty = Derive(tab, l).qty - cp.qty /\ Derive(closed, l).qty = Derive(one, l).qty - 0
      BY <1>1, <1>2, <2>1
    <3> QED
      BY <1>4, <2>1, <3>1
  <2>2. CASE l = "spot"
    <3>1. Derive(one, l).qty = Derive(tab, l).qty - 0 /\ Derive(closed, l).qty = Derive(one, l).qty - cs.qty
      BY <1>1, <1>2, <2>2
    <3> QED
      BY <1>4, <2>2, <3>1
  <2> QED
    BY <2>1, <2>2 DEF Leg
<1>6. Recomputed(closed) \in Row /\ Derived(closed, Recomputed(closed))
  BY <1>2, RecomputedIsDerived
<1>7. IsWhole(Pnl(closed, Recomputed(closed)), MoneyOf(closed) - Len(closed))
  BY <1>2, <1>5, <1>6, PnlIsMoney
<1>8. MoneyOf(one) = MoneyOf(tab) + PaidIn(cp) /\ MoneyOf(closed) = MoneyOf(one) + PaidIn(cs)
  BY <1>1, MoneyAppend DEF one, closed
<1>9. /\ cp.qty * cp.px \in Int /\ cs.qty * cs.px \in Int
      /\ PaidIn(cp) = -(cp.qty * cp.px) /\ PaidIn(cs) = cs.qty * cs.px
  <2>1. cp.qty \in Nat /\ cp.px \in Int /\ cs.qty \in Nat /\ cs.px \in Int
    BY DEF Fill
  <2>2. cp.qty * cp.px \in Int /\ cs.qty * cs.px \in Int
    BY <2>1, ProductIsInt
  <2>3. ~Sells(cp) /\ Sells(cs)
    BY DEF Sells
  <2> QED
    BY <2>2, <2>3 DEF PaidIn
<1>10. MoneyOf(closed) = MoneyOf(tab) + (0 - cp.qty * cp.px) + cs.qty * cs.px
  <2> DEFINE x == cp.qty * cp.px
             y == cs.qty * cs.px
             m == MoneyOf(tab)
  <2>1. m \in Int
    <3>1. \A l : Walked(tab, l) \in WalkState
      BY WalkedType
    <3>2. LegCash(Walked(tab, "perp"), "perp") \in Int /\ LegCash(Walked(tab, "spot"), "spot") \in Int
      BY <3>1, LegCashType
    <3> QED
      BY <3>2 DEF MoneyOf
  <2>2. x \in Int /\ y \in Int /\ MoneyOf(closed) = (m + (-x)) + y
    BY <1>8, <1>9
  <2> HIDE DEF x, y, m
  <2>3. MoneyOf(closed) = m + (0 - x) + y
    BY <2>1, <2>2
  <2> QED
    BY <2>3 DEF x, y, m
<1> QED
  BY <1>3, <1>7, <1>10 DEF closed, one

\* What is booked and what the close is estimated to bring: the same money.
LEMMA EstimateIsMoney ==
    ASSUME NEW tab \in Seq(Fill), book \in Row, Derived(tab, book), NoneOver(tab),
           \A l \in Leg : book.leg[l].qty > 0, NEW ask \in Int, NEW bid \in Int
    PROVE  IsWhole(Plus(Plus(Pnl(tab, book), Whole(book.fees)), CloseEstimate(ask, bid)),
                   (MoneyOf(tab) + (0 - book.leg["perp"].qty * ask) + book.leg["spot"].qty * bid)
                       - (Len(tab) + 2))
<1> DEFINE wp == Walked(tab, "perp")
           ws == Walked(tab, "spot")
           bp == book.leg["perp"]
           bs == book.leg["spot"]
           dp == Derive(tab, "perp")
           ds == Derive(tab, "spot")
           Sp == Spent(wp)
           Ss == Spent(ws)
           Gp == Gain(bp.entry, bp.exit, dp)
           Gs == Gain(bs.exit, bs.entry, ds)
           Ep == Times(Minus(bp.entry, Whole(ask)), bp.qty)
           Es == Times(Minus(Whole(bid), bs.entry), bs.qty)
           n == Len(tab)
           u == book.unwind - book.fees
           U == Whole(u)
           F == Whole(book.fees)
           X == Whole(book.fees + 2)
           N == Times(X, -1)
           x == bp.qty * ask
           y == bs.qty * bid
<1>1. /\ bp.entry \in Fraction /\ bp.exit \in Fraction /\ bp.qty \in Nat \ {0}
      /\ Held(wp) \in Int /\ Sp \in Int /\ wp.out \in Int /\ wp.got \in Int
      /\ wp.back \in Int /\ wp.undo \in Int /\ bp.qty = Held(wp) - wp.out
      /\ bp.entry.d # 0 /\ bp.entry.n * Held(wp) = Sp * bp.entry.d
      /\ wp.out # 0 => bp.exit.d # 0 /\ bp.exit.n * wp.out = wp.got * bp.exit.d
      /\ wp.out = 0 => wp.got = 0
      /\ Min({dp.entered, dp.exited}) = wp.out
      /\ dp.unwind = wp.back - wp.undo
  <2>1. "perp" \in Leg
    BY DEF Leg
  <2> QED
    BY <2>1, OpenLeg
<1>2. /\ bs.entry \in Fraction /\ bs.exit \in Fraction /\ bs.qty \in Nat \ {0}
      /\ Held(ws) \in Int /\ Ss \in Int /\ ws.out \in Int /\ ws.got \in Int
      /\ ws.back \in Int /\ ws.undo \in Int /\ bs.qty = Held(ws) - ws.out
      /\ bs.entry.d # 0 /\ bs.entry.n * Held(ws) = Ss * bs.entry.d
      /\ ws.out # 0 => bs.exit.d # 0 /\ bs.exit.n * ws.out = ws.got * bs.exit.d
      /\ ws.out = 0 => ws.got = 0
      /\ Min({ds.entered, ds.exited}) = ws.out
      /\ ds.unwind = -(ws.back - ws.undo)
  <2>1. "spot" \in Leg
    BY DEF Leg
  <2> QED
    BY <2>1, OpenLeg
<1>3. book.fees = n /\ n \in Nat /\ book.unwind = dp.unwind + ds.unwind
  BY DEF Derived
<1>4. CloseEstimate(ask, bid) = Plus(Plus(Ep, Es), N)
  <2>1. {l \in Leg : book.leg[l].qty > 0} = Leg /\ Leg = {"perp", "spot"}
    BY DEF Leg
  <2>2. Cardinality({"perp", "spot"}) = 2
    <3>1. IsFiniteSet({"perp"}) /\ Cardinality({"perp"}) = 1 /\ "spot" \notin {"perp"}
      BY FS_Singleton
    <3>2. Cardinality({"perp"} \cup {"spot"}) = Cardinality({"perp"}) + 1
      BY <3>1, FS_AddElement
    <3>3. {"perp"} \cup {"spot"} = {"perp", "spot"}
      OBVIOUS
    <3> QED
      BY <3>1, <3>2, <3>3
  <2>3. Cardinality({l \in Leg : book.leg[l].qty > 0}) = 2
    BY <2>1, <2>2
  <2> QED
    BY <2>3 DEF CloseEstimate, Minus
<1>5. Pnl(tab, book) = Plus(Plus(Gp, Gs), U)
  BY DEF Pnl, Whole
<1>6. MoneyOf(tab) = (Sp + wp.back - wp.got - wp.undo) + (0 - (Ss + ws.back - ws.got - ws.undo))
  BY DEF MoneyOf, LegCash
<1>7. /\ IsWhole(Plus(Gp, Ep), Sp + ((0 - wp.got) + (0 - ask * bp.qty)))
      /\ IsWhole(Plus(Gs, Es), (ws.got + bid * bs.qty) + (0 - Ss))
  <2> DEFINE pe == bp.entry
             px == bp.exit
             se == bs.entry
             sx == bs.exit
             hp == Held(wp)
             hs == Held(ws)
             op == wp.out
             os == ws.out
             gp == wp.got
             gs == ws.got
  <2>1. /\ pe \in Fraction /\ px \in Fraction /\ hp \in Int /\ op \in Int /\ gp \in Int /\ Sp \in Int
        /\ pe.d # 0 /\ pe.n * hp = Sp * pe.d
        /\ op # 0 => px.d # 0 /\ px.n * op = gp * px.d
        /\ op = 0 => gp = 0
        /\ Min({dp.entered, dp.exited}) = op
    BY <1>1
  <2>2. /\ se \in Fraction /\ sx \in Fraction /\ hs \in Int /\ os \in Int /\ gs \in Int /\ Ss \in Int
        /\ se.d # 0 /\ se.n * hs = Ss * se.d
        /\ os # 0 => sx.d # 0 /\ sx.n * os = gs * sx.d
        /\ os = 0 => gs = 0
        /\ Min({ds.entered, ds.exited}) = os
    BY <1>2
  <2>3. bp.qty = hp - op /\ bs.qty = hs - os
    BY <1>1, <1>2
  <2> HIDE DEF pe, px, se, sx, hp, hs, op, os, gp, gs, Sp, Ss, dp, ds
  <2>4. IsWhole(Plus(Gain(pe, px, dp), Times(Minus(pe, Whole(ask)), hp - op)),
                Sp + ((0 - gp) + (0 - ask * (hp - op))))
    BY <2>1, LegEstimate
  <2>5. IsWhole(Plus(Gain(sx, se, ds), Times(Minus(Whole(bid), se), hs - os)),
                (gs + bid * (hs - os)) + (0 - Ss))
    BY <2>2, LegEstimate
  <2> QED
    BY <2>3, <2>4, <2>5 DEF pe, px, se, sx, gp, gs
<1>8. Gp \in Fraction /\ Gs \in Fraction
  <2>1. "perp" \in Leg /\ "spot" \in Leg
    BY DEF Leg
  <2> QED
    BY <1>1, <1>2, <2>1, GainType
<1>9. Ep \in Fraction /\ Es \in Fraction
  <2>a. bp.qty \in Nat /\ bs.qty \in Nat
    BY <1>1, <1>2
  <2> HIDE DEF bp, bs
  <2>1. -1 \in Int /\ bp.qty \in Int /\ bs.qty \in Int
    BY <2>a
  <2>2. Whole(ask) \in Fraction /\ Whole(bid) \in Fraction
    BY WholeType
  <2>3. Times(Whole(ask), -1) \in Fraction /\ Times(bs.entry, -1) \in Fraction
    BY <1>2, <2>1, <2>2, TimesIs
  <2>4. Minus(bp.entry, Whole(ask)) \in Fraction /\ Minus(Whole(bid), bs.entry) \in Fraction
    BY <1>1, <2>2, <2>3, PlusType DEF Minus
  <2> QED
    BY <2>1, <2>4, TimesIs
<1>10. u \in Int /\ book.fees \in Int /\ book.fees + 2 \in Int /\ 0 - (book.fees + 2) \in Int
  <2>1. book.unwind \in Int /\ book.fees \in Int
    BY DEF Row
  <2> QED
    BY <2>1
<1>11. /\ U \in Fraction /\ F \in Fraction /\ N \in Fraction
       /\ IsWhole(U, u) /\ IsWhole(F, book.fees) /\ IsWhole(N, 0 - (book.fees + 2))
  <2> HIDE DEF u
  <2>1. N = Whole(0 - (book.fees + 2))
    BY <1>10, NegatedWhole
  <2> QED
    BY <1>10, <2>1, WholeType, IntIsWhole DEF Whole
<1>12. x \in Int /\ y \in Int /\ ask * bp.qty = x /\ bid * bs.qty = y
  <2>a. bp.qty \in Nat /\ bs.qty \in Nat
    BY <1>1, <1>2
  <2> HIDE DEF bp, bs
  <2>1. bp.qty \in Int /\ bs.qty \in Int
    BY <2>a
  <2> QED
    BY <2>1, Regroups
<1> DEFINE P == Sp + ((0 - wp.got) + (0 - x))
           S == (ws.got + y) + (0 - Ss)
           T == (u + book.fees) + (0 - (book.fees + 2))
<1>13. (P + S) + T = (MoneyOf(tab) + (0 - x) + y) - (n + 2)
  <2> DEFINE pin == Sp
             pgot == wp.got
             pback == wp.back
             pundo == wp.undo
             sin == Ss
             sgot == ws.got
             sback == ws.back
             sundo == ws.undo
             fees == book.fees
             money == MoneyOf(tab)
  <2>1. /\ pin \in Int /\ pgot \in Int /\ pback \in Int /\ pundo \in Int
        /\ sin \in Int /\ sgot \in Int /\ sback \in Int /\ sundo \in Int /\ fees \in Int /\ n \in Int
    BY <1>1, <1>2, <1>3, <1>10
  <2>2. /\ P = pin + ((0 - pgot) + (0 - x)) /\ S = (sgot + y) + (0 - sin)
        /\ T = (u + fees) + (0 - (fees + 2)) /\ fees = n
        /\ u = ((pback - pundo) + (-(sback - sundo))) - fees
        /\ money = (pin + pback - pgot - pundo) + (0 - (sin + sback - sgot - sundo))
    <3>1. dp.unwind = pback - pundo /\ ds.unwind = -(sback - sundo) /\ fees = n
          /\ book.unwind = dp.unwind + ds.unwind
      BY <1>1, <1>2, <1>3
    <3>2. u = ((pback - pundo) + (-(sback - sundo))) - fees
      <4>1. u = book.unwind - fees
        OBVIOUS
      <4> DEFINE z == (pback - pundo) + (-(sback - sundo))
      <4>2. book.unwind = z
        BY <3>1
      <4> HIDE DEF u, fees, z
      <4>3. u = z - fees
        BY <4>1, <4>2
      <4> QED
        BY <4>3 DEF z
    <3>3. money = (pin + pback - pgot - pundo) + (0 - (sin + sback - sgot - sundo))
      BY <1>6
    <3>4. /\ P = pin + ((0 - pgot) + (0 - x)) /\ S = (sgot + y) + (0 - sin)
          /\ T = (u + fees) + (0 - (fees + 2))
      OBVIOUS
    <3> HIDE DEF P, S, T, x, y, u, n, pin, pgot, pback, pundo, sin, sgot, sback, sundo, fees, money, dp, ds
    <3> QED
      BY <3>1, <3>2, <3>3, <3>4
  <2>x. x \in Int /\ y \in Int
    BY <1>12
  <2> HIDE DEF P, S, T, x, y, u, n, pin, pgot, pback, pundo, sin, sgot, sback, sundo, fees, money
  <2>3. (P + S) + T = (money + (0 - x) + y) - (n + 2)
    BY <2>x, <2>1, <2>2
  <2> QED
    BY <2>3 DEF money
<1>14. P \in Int /\ S \in Int /\ T \in Int /\ u + book.fees \in Int
  <2>1. Sp \in Int /\ wp.got \in Int /\ Ss \in Int /\ ws.got \in Int
    BY <1>1, <1>2
  <2> DEFINE pgot == wp.got
             sgot == ws.got
             fees == book.fees
  <2>2. /\ x \in Int /\ y \in Int /\ u \in Int /\ fees \in Int /\ pgot \in Int /\ sgot \in Int
        /\ P = Sp + ((0 - pgot) + (0 - x)) /\ S = (sgot + y) + (0 - Ss)
        /\ T = (u + fees) + (0 - (fees + 2))
    BY <1>10, <1>12, <2>1
  <2> HIDE DEF P, S, T, u, x, y, Sp, Ss, pgot, sgot, fees
  <2>3. P \in Int /\ S \in Int /\ T \in Int /\ u + fees \in Int
    BY <2>1, <2>2
  <2> QED
    BY <2>3 DEF fees
<1>15. IsWhole(Plus(Gp, Ep), P) /\ IsWhole(Plus(Gs, Es), S)
  BY <1>7, <1>12
<1> HIDE DEF P, S, T, Gp, Gs, Ep, Es, U, F, N, X, u, x, y, n, bp, bs, wp, ws, dp, ds, Sp, Ss
<1> DEFINE A == Plus(Gp, Gs)
           B == Plus(Ep, Es)
           UF == Plus(U, F)
<1>16. A \in Fraction /\ B \in Fraction /\ UF \in Fraction
  BY <1>8, <1>9, <1>11, PlusType
<1>17. Plus(A, B) = Plus(Plus(Gp, Ep), Plus(Gs, Es))
  BY <1>8, <1>9, PlusInterchanges
<1>18. IsWhole(Plus(A, B), P + S)
  BY <1>14, <1>15, <1>17, PlusIsWhole
<1>19. IsWhole(Plus(UF, N), T)
  <2>1. IsWhole(UF, u + book.fees)
    BY <1>10, <1>11, PlusIsWhole
  <2> HIDE DEF UF
  <2> QED
    BY <1>10, <1>11, <1>14, <2>1, PlusIsWhole DEF T
<1> HIDE DEF A, B, UF
<1>20. Plus(Plus(Plus(A, U), F), Plus(B, N)) = Plus(Plus(A, B), Plus(UF, N))
  <2>1. Plus(Plus(A, U), F) = Plus(A, UF)
    BY <1>11, <1>16, PlusAssociates DEF UF
  <2>2. Plus(Plus(A, UF), Plus(B, N)) = Plus(Plus(A, B), Plus(UF, N))
    BY <1>11, <1>16, PlusInterchanges
  <2> QED
    BY <2>1, <2>2
<1>21. P + S \in Int
  BY <1>14
<1>22. IsWhole(Plus(Plus(A, B), Plus(UF, N)), (P + S) + T)
  BY <1>14, <1>18, <1>19, <1>21, PlusIsWhole
<1>23. Plus(Plus(Pnl(tab, book), Whole(book.fees)), CloseEstimate(ask, bid))
           = Plus(Plus(Plus(A, U), F), Plus(B, N))
  BY <1>4, <1>5 DEF A, B, F
<1> QED
  BY <1>13, <1>20, <1>22, <1>23 DEF n, x, y, bp, bs

LEMMA EstimateFollows == MoneyInv => EstimateIsBooked
<1> DEFINE closing(l, px) == [leg |-> l, phase |-> "exit", qty |-> book.leg[l].qty,
                              px |-> px, synth |-> FALSE]
           closed(ask, bid) == Append(Append(fills, closing("perp", ask)), closing("spot", bid))
           before == Plus(Pnl(fills, book), Whole(book.fees))
<1> SUFFICES ASSUME MoneyInv, step = "none", \A l \in Leg : book.leg[l].qty > 0,
                    NEW ask \in Price, NEW bid \in Price
             PROVE  Same(Pnl(closed(ask, bid), Recomputed(closed(ask, bid))),
                         Plus(before, CloseEstimate(ask, bid)))
  BY DEF EstimateIsBooked
<1>1. /\ fills \in Seq(Fill) /\ book \in Row /\ Derived(fills, book) /\ NoneOver(fills)
      /\ TrueTab(fills, bought) \in Seq(Fill)
  BY MoneyTypes, RowIsDerivedIs DEF MoneyInv, LedgerInv, LedgerTypes
<1>2. ask \in Int /\ bid \in Int
  BY LedgerAssumption
<1> DEFINE cp == closing("perp", ask)
           cs == closing("spot", bid)
           v == (MoneyOf(fills) + (0 - book.leg["perp"].qty * ask) + book.leg["spot"].qty * bid)
                    - (Len(fills) + 2)
<1>3. "perp" \in Leg /\ "spot" \in Leg /\ \A l \in Leg : book.leg[l].qty \in Nat \ {0}
  <2>1. \A l \in Leg : book.leg[l].qty \in Int
    BY <1>1 DEF Row, LegRow
  <2> QED
    BY <2>1 DEF Leg
<1>4. /\ cp \in Fill /\ cp.leg = "perp" /\ cp.phase = "exit" /\ cp.qty = book.leg["perp"].qty
      /\ cp.px = ask
      /\ cs \in Fill /\ cs.leg = "spot" /\ cs.phase = "exit" /\ cs.qty = book.leg["spot"].qty
      /\ cs.px = bid
  BY <1>2, <1>3 DEF Fill, Phase
<1>5. v \in Int
  <2>1. MoneyOf(fills) \in Int
    <3>1. \A l : Walked(fills, l) \in WalkState
      BY <1>1, WalkedType
    <3>2. /\ LegCash(Walked(fills, "perp"), "perp") \in Int
          /\ LegCash(Walked(fills, "spot"), "spot") \in Int
      BY <3>1, LegCashType
    <3> QED
      BY <3>2 DEF MoneyOf
  <2>2. book.leg["perp"].qty * ask \in Int /\ book.leg["spot"].qty * bid \in Int
    BY <1>2, <1>3, Regroups
  <2>3. Len(fills) \in Int
    BY <1>1
  <2> QED
    BY <2>1, <2>2, <2>3
<1> HIDE DEF cp, cs
<1>6. IsWhole(Pnl(Append(Append(fills, cp), cs), Recomputed(Append(Append(fills, cp), cs))),
              (MoneyOf(fills) + (0 - cp.qty * cp.px) + cs.qty * cs.px) - (Len(fills) + 2))
  BY <1>1, <1>4, ClosedIsMoney
<1>7. IsWhole(Pnl(Append(Append(fills, cp), cs), Recomputed(Append(Append(fills, cp), cs))), v)
  BY <1>4, <1>6
<1>8. IsWhole(Plus(before, CloseEstimate(ask, bid)), v)
  BY <1>1, <1>2, EstimateIsMoney
<1> HIDE DEF v, before
<1>9. Same(Pnl(Append(Append(fills, cp), cs), Recomputed(Append(Append(fills, cp), cs))),
           Plus(before, CloseEstimate(ask, bid)))
  BY <1>5, <1>7, <1>8, WholesAreSame
<1> QED
  BY <1>9 DEF cp, cs

\* Every figure the operator is shown of a position agrees with the money, whatever was
\* scaled in and out, unwound, bought back and corrected, at every price: /recon's P&L, the
\* account's equity, and what a close is estimated to bring.  As for RealisedIsCash, no
\* restart falls between two commits and /truefill sees the position's own buys only.
THEOREM WhatIsShownIsCash ==
    ASSUME LedgerFaults = {} PROVE LedgerSpec => []ValueIsCash
<1>1. ReconInv => ValueIsCash
  <2>1. ReconInv => MoneyInv
    BY DEF ReconInv
  <2> QED
    BY <2>1, ReconFollows, EquityFollows, EstimateFollows DEF ValueIsCash
<1> QED
  BY <1>1, ReconInvHolds, PTL

================================================================================
