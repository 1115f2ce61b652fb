----------------------------- MODULE RankProofs -----------------------------
(***************************************************************************)
(* The ranking of candidates whose means are numbers is a strict weak      *)
(* order, so among candidates of which any was visited there is one leader *)
(* and no more.  Also the facts on least elements by which inductions are  *)
(* made here and in the modules that extend this one, and what they give   *)
(* of the sums by which the statistics of several trees are pooled.        *)
(***************************************************************************)
EXTENDS Rank, Functions, FiniteSetTheorems, WellFoundedInduction, TLAPS

(* Products of naturals keep and reflect the order of their factors. *)
LEMMA ProductOrder ==
  ASSUME NEW x \in Nat, NEW y \in Nat, NEW k \in Nat \ {0}
  PROVE  x * k <= y * k <=> x <= y
BY SMT

(* And a factor that may be zero keeps it. *)
LEMMA ProductMonotone ==
  ASSUME NEW x \in Nat, NEW y \in Nat, NEW k \in Nat, x <= y
  PROVE  x * k <= y * k
BY SMT

(* opportunities() is a divisor that is never zero. *)
LEMMA OpportunitiesPositive ==
  ASSUME NEW a \in Candidate(Int)
  PROVE  Opportunities(a) \in Nat \ {0}
BY DEF Opportunities, Candidate

(* A rate no greater than a second, which is no greater than a third, is no *)
(* greater than the third.                                                  *)
LEMMA RateOrder ==
  ASSUME NEW a \in Candidate(Int), NEW b \in Candidate(Int), NEW c \in Candidate(Int),
         ~RateAbove(a, b), ~RateAbove(b, c)
  PROVE  ~RateAbove(a, c)
<1> DEFINE u == a.visits
           v == b.visits
           w == c.visits
           p == Opportunities(a)
           q == Opportunities(b)
           r == Opportunities(c)
<1>1. /\ u \in Nat /\ v \in Nat /\ w \in Nat
      /\ p \in Nat \ {0} /\ q \in Nat \ {0} /\ r \in Nat \ {0}
  BY OpportunitiesPositive DEF Candidate
<1>2. u * q <= v * p /\ v * r <= w * q
  BY <1>1 DEF RateAbove
<1> HIDE DEF u, v, w, p, q, r
<1>3. (u * q) * r <= (v * p) * r
  BY <1>1, <1>2, ProductMonotone
<1>4. (v * r) * p <= (w * q) * p
  BY <1>1, <1>2, ProductMonotone
<1>5. (u * r) * q <= (w * p) * q
  BY <1>1, <1>3, <1>4
<1>6. u * r <= w * p
  BY <1>1, <1>5, ProductOrder
<1> QED
  BY <1>1, <1>6 DEF RateAbove, u, w, p, r

(* No two selection rates are each above the other. *)
LEMMA RateAsymmetric ==
  ASSUME NEW a \in Candidate(Int), NEW b \in Candidate(Int), RateAbove(a, b)
  PROVE  ~RateAbove(b, a)
<1>1. /\ a.visits \in Nat /\ b.visits \in Nat
      /\ Opportunities(a) \in Nat /\ Opportunities(b) \in Nat
  BY OpportunitiesPositive DEF Candidate
<1> QED BY <1>1 DEF RateAbove

(* beats, of which the code says that nothing depends on the order in which *)
(* candidates are stored: no two candidates outrank each other.             *)
THEOREM BeatsAsymmetric ==
  ASSUME NEW a \in Candidate(Int), NEW b \in Candidate(Int), Beats(a, b)
  PROVE  ~Beats(b, a)
<1>1. a.mean \in Int /\ b.mean \in Int /\ a.mean # NaN /\ b.mean # NaN
  BY NaNAssumption DEF Candidate
<1>2. RateAbove(a, b) => ~RateAbove(b, a)
  BY RateAsymmetric
<1>3. Established(a) \in BOOLEAN /\ Established(b) \in BOOLEAN
  BY DEF Established
<1> QED BY <1>1, <1>2, <1>3 DEF Beats, MeanTied, MeanAbove

(* A candidate between two of which one outranks the other is outranked by  *)
(* the first or outranks the second: what beats calls level is level with   *)
(* the same candidates.                                                     *)
THEOREM BeatsNegativelyTransitive ==
  ASSUME NEW a \in Candidate(Int), NEW b \in Candidate(Int), NEW c \in Candidate(Int),
         Beats(a, c)
  PROVE  Beats(a, b) \/ Beats(b, c)
<1>1. /\ a.mean \in Int /\ b.mean \in Int /\ c.mean \in Int
      /\ a.mean # NaN /\ b.mean # NaN /\ c.mean # NaN
  BY NaNAssumption DEF Candidate
<1>2. RateAbove(a, c) => RateAbove(a, b) \/ RateAbove(b, c)
  BY RateOrder
<1>3. Established(a) \in BOOLEAN /\ Established(b) \in BOOLEAN /\ Established(c) \in BOOLEAN
  BY DEF Established
<1> QED BY <1>1, <1>2, <1>3 DEF Beats, MeanTied, MeanAbove

-----------------------------------------------------------------------------

(* A set of naturals that is not empty has a least element: a statement     *)
(* that fails of some number fails of a first one.                          *)
LEMMA LeastNatural ==
  ASSUME NEW T \in SUBSET Nat, T # {}
  PROVE  \E n \in T : \A m \in T : n <= m
<1>1. PICK n \in T : \A m \in T : ~ (<<m, n>> \in OpToRel(<, Nat))
  BY NatLessThanWellFounded, WFMin
<1>2. ASSUME NEW m \in T PROVE n <= m
  <2>1. ~ (m < n)
    BY <1>1 DEF OpToRel
  <2> QED BY <2>1
<1> QED BY <1>2

(* Among subsets of a finite set there is a smallest: a statement that      *)
(* fails of some of them fails of one of which it holds of every part.      *)
LEMMA MinimalSubset ==
  ASSUME NEW S, IsFiniteSet(S), NEW C \in SUBSET (SUBSET S), C # {}
  PROVE  \E T \in C : \A U \in C : U \subseteq T => U = T
<1>1. IsWellFoundedOn(StrictSubsetOrdering(S), SUBSET S)
  BY FS_StrictSubsetOrderingWellFounded, FS_FiniteSubsetsOfFinite
<1>2. PICK T \in C : \A U \in C : ~ (<<U, T>> \in StrictSubsetOrdering(S))
  BY <1>1, WFMin
<1> QED BY <1>2 DEF StrictSubsetOrdering

-----------------------------------------------------------------------------

(* The sum of a function over a set, as the fold behind SumFunction takes   *)
(* it: an element at a time.                                                *)
Picked(T) == CHOOSE x \in T : TRUE

AddPicked(f, g, T) == IF T = {} THEN 0 ELSE f[Picked(T)] + g[T \ {Picked(T)}]

SumsOver(f, S) == CHOOSE g : g = [T \in SUBSET S |-> AddPicked(f, g, T)]

LEMMA SumUnfolds == ASSUME NEW f PROVE SumFunction(f) = SumsOver(f, DOMAIN f)[DOMAIN f]
BY DEF SumFunction, SumFunctionOnSet, FoldFunctionOnSet, MapThenFoldSet,
       SumsOver, AddPicked, Picked

Upto(S, n) == {T \in SUBSET S : Cardinality(T) <= n}

SumsUpto(f, S, n, g) ==
  /\ g \in [Upto(S, n) -> Int]
  /\ \A T \in Upto(S, n) : g[T] = AddPicked(f, g, T)

LEMMA PickedIsIn == ASSUME NEW T, T # {} PROVE Picked(T) \in T
BY DEF Picked

LEMMA SumsUptoExist ==
  ASSUME NEW S, IsFiniteSet(S), NEW f \in [S -> Int], NEW n \in Nat
  PROVE  \E g : SumsUpto(f, S, n, g)
<1> DEFINE Without == {m \in Nat : ~ \E g : SumsUpto(f, S, m, g)}
<1> SUFFICES ASSUME Without # {} PROVE FALSE
  OBVIOUS
<1>1. PICK m \in Without : \A k \in Without : m <= k
  <2>1. Without \in SUBSET Nat
    OBVIOUS
  <2> HIDE DEF Without
  <2> QED BY <2>1, LeastNatural
<1>2. ASSUME NEW T \in SUBSET S
      PROVE  IsFiniteSet(T) /\ Cardinality(T) \in Nat /\ (Cardinality(T) = 0 <=> T = {})
  BY FS_Subset, FS_CardinalityType, FS_EmptySet
<1>3. CASE m = 0
  <2> DEFINE g == [T \in Upto(S, 0) |-> 0]
  <2>1. \A T \in Upto(S, 0) : T = {}
    BY <1>2 DEF Upto
  <2>2. SumsUpto(f, S, 0, g)
    BY <2>1 DEF SumsUpto, AddPicked
  <2> QED BY <1>1, <1>3, <2>2
<1>4. CASE m # 0
  <2>1. m - 1 \in Nat /\ m - 1 \notin Without
    BY <1>1, <1>4
  <2>2. PICK g : SumsUpto(f, S, m - 1, g)
    BY <2>1
  <2> DEFINE h == [T \in Upto(S, m) |-> AddPicked(f, g, T)]
  <2>3. ASSUME NEW T \in Upto(S, m), T # {}
        PROVE  /\ Picked(T) \in S
               /\ T \ {Picked(T)} \in Upto(S, m - 1)
    <3>1. Picked(T) \in T /\ T \subseteq S /\ Cardinality(T) <= m
      BY <2>3, PickedIsIn DEF Upto
    <3>2. Cardinality(T \ {Picked(T)}) = Cardinality(T) - 1
      BY <1>2, <3>1, FS_RemoveElement
    <3> QED BY <1>1, <1>2, <3>1, <3>2 DEF Upto
  <2>4. ASSUME NEW T \in Upto(S, m) PROVE AddPicked(f, g, T) \in Int
    BY <2>2, <2>3 DEF SumsUpto, AddPicked
  <2>5. \A T \in Upto(S, m - 1) : T \in Upto(S, m)
    BY <1>1, <1>2 DEF Upto
  <2>6. \A T \in Upto(S, m - 1) : h[T] = g[T]
    BY <2>2, <2>5 DEF SumsUpto
  <2>7. ASSUME NEW T \in Upto(S, m) PROVE h[T] = AddPicked(f, h, T)
    BY <2>3, <2>6 DEF AddPicked
  <2>8. SumsUpto(f, S, m, h)
    BY <2>4, <2>7 DEF SumsUpto
  <2> QED BY <1>1, <2>8
<1> QED BY <1>3, <1>4

LEMMA SumsRecur ==
  ASSUME NEW S, IsFiniteSet(S), NEW f \in [S -> Int]
  PROVE  /\ \A T \in SUBSET S : SumsOver(f, S)[T] = AddPicked(f, SumsOver(f, S), T)
<1>1. Cardinality(S) \in Nat /\ Upto(S, Cardinality(S)) = SUBSET S
  BY FS_Subset, FS_CardinalityType DEF Upto
<1>2. PICK g : SumsUpto(f, S, Cardinality(S), g)
  BY <1>1, SumsUptoExist
<1>3. g = [T \in SUBSET S |-> AddPicked(f, g, T)]
  BY <1>1, <1>2 DEF SumsUpto
<1>4. SumsOver(f, S) = [T \in SUBSET S |-> AddPicked(f, SumsOver(f, S), T)]
  BY <1>3 DEF SumsOver
<1> HIDE DEF SumsOver
<1> QED BY <1>4

LEMMA SumOfIntegers ==
  ASSUME NEW S, IsFiniteSet(S), NEW f \in [S -> Int]
  PROVE  SumFunction(f) \in Int
<1> DEFINE g == SumsOver(f, S)
<1> DEFINE Wrong == {T \in SUBSET S : g[T] \notin Int}
<1>1. \A T \in SUBSET S : g[T] = AddPicked(f, g, T)
  BY SumsRecur
<1>2. SumFunction(f) = g[S]
  BY SumUnfolds
<1> HIDE DEF g
<1>3. ASSUME Wrong # {} PROVE FALSE
  <2>1. PICK T \in Wrong : \A U \in Wrong : U \subseteq T => U = T
    <3>1. Wrong \in SUBSET (SUBSET S)
      OBVIOUS
    <3> HIDE DEF Wrong
    <3> QED BY <1>3, <3>1, MinimalSubset
  <2>2. T \in SUBSET S /\ g[T] \notin Int /\ g[T] = AddPicked(f, g, T)
    BY <1>1, <2>1
  <2>3. T # {}
    BY <2>2 DEF AddPicked
  <2>4. Picked(T) \in T /\ T \ {Picked(T)} \notin Wrong
    BY <2>1, <2>3, PickedIsIn
  <2>5. f[Picked(T)] \in Int /\ g[T \ {Picked(T)}] \in Int
    BY <2>2, <2>4
  <2> QED BY <2>2, <2>3, <2>5 DEF AddPicked
<1> QED BY <1>2, <1>3

(* The sum of naturals is one, no smaller than any of them, and positive    *)
(* only if one of them is.                                                  *)
LEMMA SumOfNaturals ==
  ASSUME NEW S, IsFiniteSet(S), NEW f \in [S -> Nat]
  PROVE  /\ SumFunction(f) \in Nat
         /\ \A x \in S : f[x] <= SumFunction(f)
         /\ SumFunction(f) > 0 => \E x \in S : f[x] > 0
<1> DEFINE g == SumsOver(f, S)
<1> DEFINE Right(T) == /\ g[T] \in Nat
                       /\ \A x \in T : f[x] <= g[T]
                       /\ g[T] > 0 => \E x \in T : f[x] > 0
<1> DEFINE Wrong == {T \in SUBSET S : ~Right(T)}
<1>1. \A T \in SUBSET S : g[T] = AddPicked(f, g, T)
  BY SumsRecur
<1>2. SumFunction(f) = g[S]
  BY SumUnfolds
<1> HIDE DEF g
<1>3. ASSUME Wrong # {} PROVE FALSE
  <2>1. PICK T \in Wrong : \A U \in Wrong : U \subseteq T => U = T
    <3>1. Wrong \in SUBSET (SUBSET S)
      OBVIOUS
    <3> HIDE DEF Wrong
    <3> QED BY <1>3, <3>1, MinimalSubset
  <2>2. CASE T = {}
    <3>1. g[T] = 0
      BY <1>1, <2>2 DEF AddPicked
    <3> QED BY <2>1, <2>2, <3>1
  <2>3. CASE T # {}
    <3> DEFINE p == Picked(T)
               R == T \ {p}
    <3>1. p \in T /\ R \in SUBSET S /\ R \notin Wrong
      BY <2>1, <2>3, PickedIsIn
    <3>2. Right(R) /\ f[p] \in Nat
      BY <3>1
    <3>3. g[T] = f[p] + g[R]
      BY <1>1, <2>3 DEF AddPicked
    <3> HIDE DEF p
    <3>4. ASSUME NEW x \in T PROVE f[x] <= g[T]
      <4>1. x = p \/ x \in R
        BY <3>4
      <4>2. f[x] \in Nat
        OBVIOUS
      <4> QED BY <3>2, <3>3, <4>1, <4>2
    <3>5. g[T] \in Nat
      BY <3>2, <3>3
    <3>6. g[T] > 0 => \E x \in T : f[x] > 0
      <4>1. g[T] > 0 => f[p] > 0 \/ g[R] > 0
        BY <3>2, <3>3
      <4> QED BY <3>1, <3>2, <4>1
    <3> QED BY <2>1, <3>4, <3>5, <3>6
  <2> QED BY <2>2, <2>3
<1>4. Right(S)
  BY <1>3
<1> QED BY <1>2, <1>4

LEMMA SumOfOne ==
  ASSUME NEW a, NEW f \in [{a} -> Int]
  PROVE  SumFunction(f) = f[a]
<1> DEFINE g == SumsOver(f, {a})
<1>1. \A T \in SUBSET {a} : g[T] = AddPicked(f, g, T)
  BY SumsRecur, FS_Singleton
<1>2. SumFunction(f) = g[{a}]
  BY SumUnfolds
<1> HIDE DEF g
<1>3. Picked({a}) = a
  BY PickedIsIn
<1>4. g[{}] = 0
  BY <1>1 DEF AddPicked
<1>5. g[{a}] = f[a] + g[{a} \ {a}]
  BY <1>1, <1>3 DEF AddPicked
<1>6. {a} \ {a} = {} /\ f[a] \in Int
  OBVIOUS
<1> QED BY <1>2, <1>4, <1>5, <1>6

-----------------------------------------------------------------------------

(* What a set of candidates needs to have a leader: indices that are        *)
(* ordered, and means that are numbers.                                     *)
HonestOn(cs, D) ==
  /\ IsFiniteSet(D)
  /\ D \subseteq Nat
  /\ \A i \in D : cs[i] \in Candidate(Int)

FirstOf(cs, D, i) ==
  \A j \in D \ {i} : ~Beats(cs[j], cs[i]) /\ (j < i => Beats(cs[i], cs[j]))

(* A candidate more leaves the first maximum or takes its place.            *)
LEMMA FirstOfOneMore ==
  ASSUME NEW cs, NEW D, HonestOn(cs, D), NEW x \in D, NEW m \in D \ {x},
         FirstOf(cs, D \ {x}, m)
  PROVE  \E i \in D : FirstOf(cs, D, i)
<1>1. /\ x \in Nat /\ m \in Nat
      /\ cs[x] \in Candidate(Int) /\ cs[m] \in Candidate(Int)
      /\ \A j \in D : j \in Nat /\ cs[j] \in Candidate(Int)
  BY DEF HonestOn
<1>2. CASE Beats(cs[x], cs[m]) \/ (~Beats(cs[m], cs[x]) /\ x < m)
  <2>1. ASSUME NEW j \in D \ {x}
        PROVE  ~Beats(cs[j], cs[x]) /\ (j < x => Beats(cs[x], cs[j]))
    <3>1. CASE Beats(cs[x], cs[m])
      <4>1. Beats(cs[x], cs[j])
        <5>1. CASE j = m
          BY <3>1, <5>1
        <5>2. CASE j # m
          <6>1. ~Beats(cs[j], cs[m])
            BY <5>2 DEF FirstOf
          <6> QED BY <1>1, <3>1, <6>1, BeatsNegativelyTransitive
        <5> QED BY <5>1, <5>2
      <4> QED BY <1>1, <4>1, BeatsAsymmetric
    <3>2. CASE ~Beats(cs[x], cs[m]) /\ ~Beats(cs[m], cs[x]) /\ x < m
      <4>1. CASE j = m
        BY <1>1, <3>2, <4>1
      <4>2. CASE j # m
        <5>1. ~Beats(cs[j], cs[m]) /\ (j < m => Beats(cs[m], cs[j]))
          BY <4>2 DEF FirstOf
        <5>2. ~Beats(cs[j], cs[x])
          BY <1>1, <3>2, <5>1, BeatsNegativelyTransitive
        <5>3. ASSUME j < x PROVE Beats(cs[x], cs[j])
          <6>1. j < m
            BY <1>1, <3>2, <5>3
          <6> QED BY <1>1, <3>2, <5>1, <6>1, BeatsNegativelyTransitive
        <5> QED BY <5>2, <5>3
      <4> QED BY <4>1, <4>2
    <3> QED BY <1>2, <3>1, <3>2
  <2> QED BY <2>1 DEF FirstOf
<1>3. CASE ~Beats(cs[x], cs[m]) /\ (Beats(cs[m], cs[x]) \/ m < x)
  BY <1>1, <1>3 DEF FirstOf
<1> QED BY <1>1, <1>2, <1>3

(* Candidates that are not none have a first maximum.                       *)
LEMMA FirstOfExists ==
  ASSUME NEW cs, NEW D, HonestOn(cs, D), D # {}
  PROVE  \E i \in D : FirstOf(cs, D, i)
<1> DEFINE Without == {E \in SUBSET D : E # {} /\ ~ \E i \in E : FirstOf(cs, E, i)}
<1> SUFFICES ASSUME Without # {} PROVE FALSE
  OBVIOUS
<1>1. PICK E \in Without : \A U \in Without : U \subseteq E => U = E
  <2>1. IsFiniteSet(D) /\ Without \in SUBSET (SUBSET D)
    BY DEF HonestOn
  <2> HIDE DEF Without
  <2> QED BY <2>1, MinimalSubset
<1>2. PICK x \in E : TRUE
  OBVIOUS
<1>3. CASE E = {x}
  <2>1. FirstOf(cs, E, x)
    BY <1>3 DEF FirstOf
  <2> QED BY <1>2, <2>1
<1>4. CASE E # {x}
  <2>1. PICK m \in E \ {x} : FirstOf(cs, E \ {x}, m)
    BY <1>1, <1>2, <1>4
  <2>2. HonestOn(cs, E)
    BY FS_Subset DEF HonestOn
  <2> QED BY <1>2, <2>1, <2>2, FirstOfOneMore
<1> QED BY <1>3, <1>4

(* However many candidates a root has, it has a leader once one of them was *)
(* visited: no search that gathered anything falls back to a draw.          *)
THEOREM LeaderExists ==
  ASSUME NEW cs, HonestOn(cs, DOMAIN cs), NEW k \in DOMAIN cs, cs[k].visits > 0
  PROVE  /\ HasLeader(cs)
         /\ Leader(cs) \in DOMAIN cs
         /\ IsLeader(cs, Leader(cs))
<1> DEFINE V == {i \in DOMAIN cs : cs[i].visits > 0}
<1>1. HonestOn(cs, V)
  BY FS_Subset DEF HonestOn
<1>2. PICK i \in V : FirstOf(cs, V, i)
  BY <1>1, FirstOfExists
<1>3. i \in DOMAIN cs /\ IsLeader(cs, i)
  BY <1>2 DEF IsLeader, FirstOf
<1> QED BY <1>3 DEF HasLeader, Leader

(* Where none was visited there is none.                                    *)
LEMMA LeaderWasVisited ==
  ASSUME NEW cs, HasLeader(cs)
  PROVE  /\ Leader(cs) \in DOMAIN cs
         /\ IsLeader(cs, Leader(cs))
         /\ cs[Leader(cs)].visits > 0
BY DEF HasLeader, Leader, IsLeader

(* The first maximum is one candidate, so every root that names it, however *)
(* it finds it, names the same.                                             *)
THEOREM LeaderIsUnique ==
  ASSUME NEW cs, DOMAIN cs \subseteq Nat,
         NEW i \in DOMAIN cs, NEW j \in DOMAIN cs,
         IsLeader(cs, i), IsLeader(cs, j)
  PROVE  i = j
<1>1. i \in Nat /\ j \in Nat
  OBVIOUS
<1>2. ASSUME i < j PROVE FALSE
  BY <1>1, <1>2 DEF IsLeader
<1>3. ASSUME j < i PROVE FALSE
  BY <1>1, <1>3 DEF IsLeader
<1> QED BY <1>1, <1>2, <1>3

-----------------------------------------------------------------------------
(* Sums over finite sets, whichever order the fold takes their elements in. *)
SumOn(f, T) == SumFunction([x \in T |-> f[x]])

(* Every sum of a function is one of these.                                 *)
LEMMA SumIsSumOn ==
  ASSUME NEW S, NEW f \in [S -> Int]
  PROVE  SumFunction(f) = SumOn(f, S)
<1>1. f = [x \in S |-> f[x]]
  OBVIOUS
<1> QED BY <1>1 DEF SumOn

(* Two sums over parts of one set take the same elements in the same order. *)
LEMMA SumsOverPart ==
  ASSUME NEW S, IsFiniteSet(S), NEW f \in [S -> Int], NEW T \in SUBSET S
  PROVE  SumOn(f, T) = SumsOver(f, S)[T]
<1> DEFINE h == [x \in T |-> f[x]]
           F == SumsOver(f, S)
           H == SumsOver(h, T)
<1>1. IsFiniteSet(T) /\ h \in [T -> Int]
  BY FS_Subset
<1>2. \A U \in SUBSET S : F[U] = AddPicked(f, F, U)
  BY SumsRecur
<1>3. \A U \in SUBSET T : H[U] = AddPicked(h, H, U)
  <2> HIDE DEF h
  <2> QED BY <1>1, SumsRecur
<1>4. SumOn(f, T) = H[T]
  BY SumUnfolds DEF SumOn
<1> DEFINE Wrong == {U \in SUBSET T : F[U] # H[U]}
<1> HIDE DEF F, H
<1>5. ASSUME Wrong # {} PROVE FALSE
  <2>1. PICK U \in Wrong : \A V \in Wrong : V \subseteq U => V = U
    <3>1. Wrong \in SUBSET (SUBSET T)
      OBVIOUS
    <3> HIDE DEF Wrong
    <3> QED BY <1>1, <1>5, <3>1, MinimalSubset
  <2>2. U \in SUBSET T /\ F[U] # H[U]
    BY <2>1
  <2>3. F[U] = AddPicked(f, F, U) /\ H[U] = AddPicked(h, H, U)
    BY <1>2, <1>3, <2>2
  <2>4. U # {}
    BY <2>2, <2>3 DEF AddPicked
  <2>5. Picked(U) \in U
    BY <2>4, PickedIsIn
  <2>6. U \ {Picked(U)} \notin Wrong
    BY <2>1, <2>5
  <2>7. F[U \ {Picked(U)}] = H[U \ {Picked(U)}]
    BY <2>2, <2>6
  <2>8. h[Picked(U)] = f[Picked(U)]
    BY <2>2, <2>5
  <2> QED BY <2>2, <2>3, <2>4, <2>7, <2>8 DEF AddPicked
<1>6. F[T] = H[T]
  BY <1>5
<1> QED BY <1>4, <1>6 DEF F

(* Integers add up to an integer.                                           *)
LEMMA SumOnInt ==
  ASSUME NEW S, IsFiniteSet(S), NEW f \in [S -> Int], NEW T \in SUBSET S
  PROVE  SumOn(f, T) \in Int
<1> DEFINE h == [x \in T |-> f[x]]
<1>1. IsFiniteSet(T) /\ h \in [T -> Int]
  BY FS_Subset
<1> HIDE DEF h
<1>2. SumFunction(h) \in Int
  BY <1>1, SumOfIntegers
<1> QED BY <1>2 DEF h, SumOn

(* Nothing adds up to zero.                                                 *)
LEMMA SumOnNone == ASSUME NEW f PROVE SumOn(f, {}) = 0
<1> DEFINE h == [x \in {} |-> f[x]]
<1>1. h \in [{} -> Int] /\ DOMAIN h = {} /\ IsFiniteSet({})
  BY FS_EmptySet
<1> HIDE DEF h
<1>2. SumsOver(h, {})[{}] = AddPicked(h, SumsOver(h, {}), {})
  BY <1>1, SumsRecur
<1>3. SumFunction(h) = SumsOver(h, {})[{}]
  BY <1>1, SumUnfolds
<1> QED BY <1>2, <1>3 DEF h, SumOn, AddPicked

(* An element can be taken out of a sum, whichever it is.                   *)
LEMMA SumOnWithout ==
  ASSUME NEW S, IsFiniteSet(S), NEW f \in [S -> Int], NEW T \in SUBSET S, NEW x \in T
  PROVE  SumOn(f, T) = f[x] + SumOn(f, T \ {x})
<1> DEFINE F == SumsOver(f, S)
<1>1. \A U \in SUBSET S : F[U] = SumOn(f, U) /\ F[U] = AddPicked(f, F, U) /\ F[U] \in Int
  BY SumsOverPart, SumsRecur, SumOnInt
<1> DEFINE Wrong == {U \in SUBSET S : ~ \A y \in U : F[U] = f[y] + F[U \ {y}]}
<1> HIDE DEF F
<1>2. ASSUME Wrong # {} PROVE FALSE
  <2>1. PICK U \in Wrong : \A V \in Wrong : V \subseteq U => V = U
    <3>1. Wrong \in SUBSET (SUBSET S)
      OBVIOUS
    <3> HIDE DEF Wrong
    <3> QED BY <1>2, <3>1, MinimalSubset
  <2>2. PICK y \in U : F[U] # f[y] + F[U \ {y}]
    BY <2>1
  <2> DEFINE p == Picked(U)
  <2>3. U \in SUBSET S /\ p \in U /\ F[U] = f[p] + F[U \ {p}]
    BY <1>1, <2>1, <2>2, PickedIsIn DEF AddPicked
  <2> HIDE DEF p
  <2>4. y # p
    BY <2>2, <2>3
  <2>5. U \ {p} \notin Wrong /\ U \ {y} \notin Wrong
    BY <2>1, <2>2, <2>3
  <2>6. F[U \ {p}] = f[y] + F[(U \ {p}) \ {y}]
    BY <2>2, <2>3, <2>4, <2>5
  <2>7. F[U \ {y}] = f[p] + F[(U \ {y}) \ {p}]
    BY <2>2, <2>3, <2>4, <2>5
  <2>8. (U \ {p}) \ {y} = (U \ {y}) \ {p}
    OBVIOUS
  <2>9. /\ f[y] \in Int /\ f[p] \in Int /\ F[(U \ {y}) \ {p}] \in Int
    BY <1>1, <2>2, <2>3
  <2> DEFINE rest == F[(U \ {y}) \ {p}]
             a == F[U \ {p}]
             b == F[U \ {y}]
  <2>10. a = f[y] + rest /\ b = f[p] + rest /\ rest \in Int
    BY <2>6, <2>7, <2>8, <2>9
  <2> HIDE DEF Wrong, rest
  <2>11. f[p] + a = f[y] + b
    <3> HIDE DEF a, b
    <3> QED BY <2>9, <2>10
  <2> QED BY <2>2, <2>3, <2>11
<1>3. F[T] = f[x] + F[T \ {x}]
  BY <1>2
<1> QED BY <1>1, <1>3

(* A sum of zeros is zero.                                                  *)
LEMMA SumOfZeros ==
  ASSUME NEW S, IsFiniteSet(S), NEW f \in [S -> Int], NEW T \in SUBSET S,
         \A x \in T : f[x] = 0
  PROVE  SumOn(f, T) = 0
<1> DEFINE Wrong == {U \in SUBSET T : SumOn(f, U) # 0}
<1>1. ASSUME Wrong # {} PROVE FALSE
  <2>1. PICK U \in Wrong : \A V \in Wrong : V \subseteq U => V = U
    <3>1. Wrong \in SUBSET (SUBSET T) /\ IsFiniteSet(T)
      BY FS_Subset
    <3> HIDE DEF Wrong
    <3> QED BY <1>1, <3>1, MinimalSubset
  <2>2. U \in SUBSET T /\ SumOn(f, U) # 0
    BY <2>1
  <2>3. PICK x \in U : TRUE
    BY <2>2, SumOnNone
  <2>4. SumOn(f, U) = f[x] + SumOn(f, U \ {x})
    BY <2>2, SumOnWithout
  <2>5. SumOn(f, U \ {x}) = 0
    <3>1. U \ {x} \notin Wrong
      BY <2>1, <2>3
    <3> QED BY <2>2, <3>1
  <2> QED BY <2>2, <2>4, <2>5
<1> QED BY <1>1

(* A sum changes by what one of its elements changes by.                    *)
LEMMA SumOfChanged ==
  ASSUME NEW S, IsFiniteSet(S), NEW f \in [S -> Int], NEW g \in [S -> Int],
         NEW x \in S, NEW d \in Int, g[x] = f[x] + d, \A y \in S \ {x} : g[y] = f[y]
  PROVE  SumOn(g, S) = SumOn(f, S) + d
<1>1. /\ SumOn(f, S) = f[x] + SumOn(f, S \ {x})
      /\ SumOn(g, S) = g[x] + SumOn(g, S \ {x})
  BY SumOnWithout
<1>2. SumOn(g, S \ {x}) = SumOn(f, S \ {x})
  <2>1. [y \in S \ {x} |-> g[y]] = [y \in S \ {x} |-> f[y]]
    OBVIOUS
  <2> QED BY <2>1 DEF SumOn
<1>3. SumOn(f, S \ {x}) \in Int
  BY SumOnInt
<1> QED BY <1>1, <1>2, <1>3

(* A sum may be taken over anything that names its elements.                *)
Along(f, b, R) == [r \in R |-> f[b[r]]]
Named(b, R) == {b[r] : r \in R}

(* A sum is the same under other names for its elements.                    *)
LEMMA SumReindexed ==
  ASSUME NEW R, IsFiniteSet(R), NEW S, IsFiniteSet(S), NEW f \in [S -> Int],
         NEW b \in [R -> S], \A p, q \in R : b[p] = b[q] => p = q
  PROVE  SumOn(f, Named(b, R)) = SumOn(Along(f, b, R), R)
<1> DEFINE h == [r \in R |-> f[b[r]]]
           Image(U) == {b[r] : r \in U}
           Wrong == {U \in SUBSET R : SumOn(f, Image(U)) # SumOn(h, U)}
<1>1. h \in [R -> Int]
  OBVIOUS
<1>2. ASSUME Wrong # {} PROVE FALSE
  <2>1. PICK U \in Wrong : \A V \in Wrong : V \subseteq U => V = U
    <3>1. Wrong \in SUBSET (SUBSET R)
      OBVIOUS
    <3> HIDE DEF Wrong
    <3> QED BY <1>2, <3>1, MinimalSubset
  <2>2. U \in SUBSET R /\ SumOn(f, Image(U)) # SumOn(h, U)
    BY <2>1
  <2>3. U # {}
    <3>1. Image({}) = {}
      OBVIOUS
    <3> QED BY <2>2, <3>1, SumOnNone
  <2>4. PICK x \in U : TRUE
    BY <2>3
  <2>5. SumOn(h, U) = h[x] + SumOn(h, U \ {x})
    <3> HIDE DEF h
    <3> QED BY <1>1, <2>2, SumOnWithout
  <2>6. SumOn(f, Image(U)) = f[b[x]] + SumOn(f, Image(U) \ {b[x]})
    <3>1. Image(U) \in SUBSET S /\ b[x] \in Image(U)
      BY <2>2
    <3> HIDE DEF Image
    <3> QED BY <3>1, SumOnWithout
  <2>7. Image(U) \ {b[x]} = Image(U \ {x})
    BY <2>2
  <2>8. SumOn(f, Image(U \ {x})) = SumOn(h, U \ {x})
    <3>1. U \ {x} \notin Wrong /\ U \ {x} \in SUBSET R
      BY <2>1, <2>2, <2>4
    <3> QED BY <3>1
  <2>9. h[x] = f[b[x]]
    BY <2>2
  <2> QED BY <2>2, <2>5, <2>6, <2>7, <2>8, <2>9
<1>3. SumOn(f, Image(R)) = SumOn(h, R)
  BY <1>2
<1> QED BY <1>3 DEF Along, Named

(* A sum may be taken group by group, leaving out what adds nothing.        *)
GroupSums(f, S, key, D) == [d \in D |-> SumOn(f, {x \in S : key[x] = d})]

(* A sum may be taken group by group; what is in no group counts for        *)
(* nothing.                                                                 *)
LEMMA SumByGroups ==
  ASSUME NEW S, IsFiniteSet(S), NEW f \in [S -> Int], NEW D, IsFiniteSet(D), NEW key,
         \A x \in S : key[x] \in D \/ f[x] = 0
  PROVE  SumOn(f, S) = SumOn(GroupSums(f, S, key, D), D)
<1> DEFINE Group(U, d) == {x \in U : key[x] = d}
           Groups(U) == [d \in D |-> SumOn(f, Group(U, d))]
           Wrong == {U \in SUBSET S : SumOn(f, U) # SumOn(Groups(U), D)}
<1>1. \A U \in SUBSET S : Groups(U) \in [D -> Int]
  <2> SUFFICES ASSUME NEW U \in SUBSET S, NEW d \in D PROVE SumOn(f, Group(U, d)) \in Int
    OBVIOUS
  <2>1. Group(U, d) \in SUBSET S
    OBVIOUS
  <2> HIDE DEF Group
  <2> QED BY <2>1, SumOnInt
<1>2. ASSUME Wrong # {} PROVE FALSE
  <2>1. PICK U \in Wrong : \A V \in Wrong : V \subseteq U => V = U
    <3>1. Wrong \in SUBSET (SUBSET S)
      OBVIOUS
    <3> HIDE DEF Wrong
    <3> QED BY <1>2, <3>1, MinimalSubset
  <2>2. U \in SUBSET S /\ SumOn(f, U) # SumOn(Groups(U), D)
    BY <2>1
  <2>3. U # {}
    <3>1. SUFFICES ASSUME U = {} PROVE FALSE
      OBVIOUS
    <3>2. \A d \in D : Groups({})[d] = 0
      <4>1. \A d \in D : Group({}, d) = {}
        OBVIOUS
      <4> QED BY <4>1, SumOnNone
    <3>3. Groups({}) \in [D -> Int]
      BY <1>1
    <3> HIDE DEF Groups
    <3>4. SumOn(Groups({}), D) = 0
      BY <3>2, <3>3, SumOfZeros
    <3> QED BY <2>2, <3>1, <3>4, SumOnNone
  <2>4. PICK x \in U : TRUE
    BY <2>3
  <2> DEFINE V == U \ {x}
  <2>5. SumOn(f, U) = f[x] + SumOn(f, V)
    BY <2>2, SumOnWithout
  <2>6. SumOn(f, V) = SumOn(Groups(V), D) /\ V \in SUBSET S
    <3>1. V \notin Wrong /\ V \in SUBSET S
      BY <2>1, <2>2, <2>4
    <3> QED BY <3>1
  <2>7. \A d \in D : d # key[x] => Groups(U)[d] = Groups(V)[d]
    <3>1. \A d \in D : d # key[x] => Group(U, d) = Group(V, d)
      OBVIOUS
    <3> HIDE DEF Group
    <3> QED BY <3>1
  <2>8. /\ Groups(U) \in [D -> Int] /\ Groups(V) \in [D -> Int]
        /\ f[x] \in Int
    BY <1>1, <2>2, <2>6
  <2>9. CASE key[x] \in D
    <3>1. Group(U, key[x]) \in SUBSET S /\ x \in Group(U, key[x])
      BY <2>2
    <3>2. Group(V, key[x]) = Group(U, key[x]) \ {x}
      OBVIOUS
    <3>3. Groups(U)[key[x]] = Groups(V)[key[x]] + f[x]
      <4>1. /\ Groups(U)[key[x]] = SumOn(f, Group(U, key[x]))
            /\ Groups(V)[key[x]] = SumOn(f, Group(V, key[x]))
        BY <2>9
      <4>2. SumOn(f, Group(U, key[x])) = f[x] + SumOn(f, Group(U, key[x]) \ {x})
        <5> HIDE DEF Group
        <5> QED BY <3>1, SumOnWithout
      <4>3. Groups(V)[key[x]] \in Int
        BY <2>8, <2>9
      <4>4. SumOn(f, Group(U, key[x])) = f[x] + SumOn(f, Group(V, key[x]))
        <5> HIDE DEF Group
        <5> QED BY <3>2, <4>2
      <4> HIDE DEF Groups, Group
      <4>5. Groups(U)[key[x]] = f[x] + Groups(V)[key[x]]
        BY <4>1, <4>4
      <4> QED BY <2>8, <4>3, <4>5
    <3> HIDE DEF Groups
    <3>4. SumOn(Groups(U), D) = SumOn(Groups(V), D) + f[x]
      <4> DEFINE u == Groups(U)
                 v == Groups(V)
                 k == key[x]
      <4>1. /\ u \in [D -> Int] /\ v \in [D -> Int] /\ k \in D /\ u[k] = v[k] + f[x]
            /\ f[x] \in Int /\ \A d \in D \ {k} : u[d] = v[d]
        BY <2>7, <2>8, <2>9, <3>3
      <4> HIDE DEF u, v, k
      <4>2. SumOn(u, D) = SumOn(v, D) + f[x]
        BY <4>1, SumOfChanged
      <4> QED BY <4>2 DEF u, v
    <3>5. SumOn(Groups(V), D) \in Int
      BY <2>8, SumOnInt
    <3> QED BY <2>2, <2>5, <2>6, <2>8, <3>4, <3>5
  <2>10. CASE key[x] \notin D
    <3>1. Groups(U) = Groups(V)
      <4> HIDE DEF Group
      <4>1. \A d \in D : Groups(U)[d] = Groups(V)[d]
        BY <2>7, <2>10
      <4> QED BY <4>1
    <3>2. f[x] = 0
      BY <2>2, <2>4, <2>10
    <3>3. SumOn(f, V) \in Int
      BY <2>6, SumOnInt
    <3> HIDE DEF Groups
    <3>4. SumOn(f, U) = SumOn(f, V)
      BY <2>5, <3>2, <3>3
    <3> QED BY <2>2, <2>6, <3>1, <3>4
  <2> QED BY <2>9, <2>10
<1>3. SumOn(f, S) = SumOn(Groups(S), D)
  BY <1>2
<1>4. Groups(S) = GroupSums(f, S, key, D)
  BY DEF GroupSums
<1> QED BY <1>3, <1>4

(* A sum of multiples is the multiple of the sum.                           *)
LEMMA SumScaled ==
  ASSUME NEW S, IsFiniteSet(S), NEW f \in [S -> Int], NEW g \in [S -> Int],
         NEW c \in Int, \A x \in S : g[x] = f[x] * c
  PROVE  SumOn(g, S) = SumOn(f, S) * c
<1> DEFINE Wrong == {U \in SUBSET S : SumOn(g, U) # SumOn(f, U) * c}
<1>1. ASSUME Wrong # {} PROVE FALSE
  <2>1. PICK U \in Wrong : \A V \in Wrong : V \subseteq U => V = U
    <3>1. Wrong \in SUBSET (SUBSET S)
      OBVIOUS
    <3> HIDE DEF Wrong
    <3> QED BY <1>1, <3>1, MinimalSubset
  <2>2. U \in SUBSET S /\ SumOn(g, U) # SumOn(f, U) * c
    BY <2>1
  <2>3. PICK x \in U : TRUE
    <3>1. U # {}
      <4>1. SumOn(g, {}) = 0 /\ SumOn(f, {}) = 0
        BY SumOnNone
      <4>2. 0 = 0 * c
        OBVIOUS
      <4> QED BY <2>2, <4>1, <4>2
    <3> QED BY <3>1
  <2> DEFINE V == U \ {x}
             a == SumOn(f, V)
             b == SumOn(g, V)
  <2>4. /\ SumOn(f, U) = f[x] + a /\ SumOn(g, U) = g[x] + b
        /\ a \in Int /\ f[x] \in Int
    BY <2>2, SumOnWithout, SumOnInt
  <2>5. b = a * c
    <3>1. V \notin Wrong /\ V \in SUBSET S
      BY <2>1, <2>2, <2>3
    <3> QED BY <3>1
  <2>6. g[x] = f[x] * c
    BY <2>2
  <2> HIDE DEF a, b, Wrong
  <2>7. (f[x] + a) * c = (f[x] * c) + (a * c)
    <3> DEFINE d == f[x]
    <3>1. d \in Int
      BY <2>4
    <3> HIDE DEF d
    <3>2. (d + a) * c = (d * c) + (a * c)
      BY <2>4, <3>1
    <3> QED BY <3>2 DEF d
  <2> QED BY <2>2, <2>4, <2>5, <2>6, <2>7
<1> QED BY <1>1
=============================================================================
