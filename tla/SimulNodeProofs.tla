--------------------------- MODULE SimulNodeProofs ---------------------------
(***************************************************************************)
(* What SimulNode keeps for any number of players, of any choices, however *)
(* often the game panics.                                                  *)
(***************************************************************************)
EXTENDS SimulNode, FiniteSetTheorems, SequenceTheorems, NaturalsInduction, TLAPS

AnyChoice == UNION {ChoicesOf[s] : s \in Slot}

Bandit == [choice : AnyChoice, timesAvailable : Nat, epoch : Nat,
           visits : Nat, weighed : Nat, charged : Nat]

Joint == [key : Nat, visits : Nat, played : [Slot -> AnyChoice]]

(* The slots part the arms among the players.                               *)
Layout(arr, st) ==
  /\ arr \in Seq(Bandit)
  /\ st \in [0..Arity -> Nat]
  /\ st[0] = 0 /\ st[Arity] = Len(arr)
  /\ \A s, t \in 0..Arity : s <= t => st[s] <= st[t]

ArmsOK(arr, st) ==
  \A s \in Slot :
    /\ \A a \in st[s - 1] + 1 .. st[s] : arr[a].choice \in ChoicesOf[s]
    /\ \A a, b \in st[s - 1] + 1 .. st[s] : arr[a].choice = arr[b].choice => a = b

(* A key is the arms it was packed from.                                    *)
Names(arr, st, child) ==
  /\ child.key = Pack([s \in Slot |-> Arm(child.key, s)])
  /\ \A s \in Slot :
       /\ Arm(child.key, s) \in 0 .. st[s] - st[s - 1] - 1
       /\ arr[st[s - 1] + 1 + Arm(child.key, s)].choice = child.played[s]

JointsOK ==
  /\ children \in Seq(Joint)
  /\ \A i \in DOMAIN children : Names(arms, starts, children[i])
  /\ \A i, j \in DOMAIN children : children[i].key = children[j].key => i = j
  /\ taken \in Nat
  /\ taken # 0 =>
       /\ pc = "below" /\ taken \in DOMAIN children
       /\ \A s \in Slot : children[taken].played[s] \in world[s] \/ stale

(* The choices of a slot's arms, and those its stamps offer.                *)
Held(s) == {arms[a].choice : a \in SlotRange(s)}
Stamped(s) == {arms[a].choice : a \in Legal(s)}

StampsOK ==
  /\ \A a \in DOMAIN arms : arms[a].epoch <= visits
  /\ ~stale =>
       /\ pc \in {"idle", "stamp"} => \A s \in Slot : Stamped(s) = {}
       /\ pc = "expand" => \A s \in Slot : Stamped(s) = IF s < slot THEN world[s] ELSE {}
       /\ pc = "select" => \A s \in Slot : Stamped(s) = world[s]

MatchOK ==
  /\ matched => Fixed /\ \A s \in Slot : Held(s) = offers[s]
  /\ \A s \in Slot : offers[s] \subseteq ChoicesOf[s]
  /\ pc = "stamp" => matched
  /\ pc = "expand" =>
       /\ ~matched /\ slot \in Slot
       /\ complete => \A s \in Slot : s < slot => Held(s) = world[s]
  /\ pc \in {"stamp", "expand"} => world \in Worlds

(* An arm that holds this iteration's stamp has an opportunity to spare.    *)
CountsOK ==
  panics = 0 =>
    \A a \in DOMAIN arms :
      LET arm   == arms[a]
          fresh == arm.epoch = visits
      IN  /\ arm.visits <= arm.timesAvailable
          /\ arm.weighed <= arm.timesAvailable
          /\ pc \in {"expand", "select", "below"} /\ fresh => arm.visits < arm.timesAvailable
          /\ pc \in {"expand", "select"} /\ fresh => arm.weighed < arm.timesAvailable
          /\ arm.weighed = arm.charged
               + IF taken # 0 /\ policy = "RegretMatching" /\ fresh THEN 1 ELSE 0

TakenIsFresh ==
  panics = 0 /\ taken # 0 =>
    \A s \in Slot : arms[ArmAt(s, Arm(children[taken].key, s))].epoch = visits

(* The two sets of books.                                                   *)
Total(js, S) == MapThenSumSet(LAMBDA i : js[i].visits, S)

Into(js, s, choice) == {i \in DOMAIN js : js[i].played[s] = choice}

SumsOK ==
  \A s \in Slot : \A a \in SlotRange(s) :
    arms[a].visits = Total(children, Into(children, s, arms[a].choice))

Inv ==
  /\ pc \in {"idle", "stamp", "expand", "select", "below", "dropped"}
  /\ visits \in Nat /\ panics \in Nat /\ (stale => panics # 0)
  /\ Layout(arms, starts) /\ ArmsOK(arms, starts)
  /\ JointsOK
  /\ StampsOK
  /\ MatchOK
  /\ CountsOK
  /\ TakenIsFresh
  /\ SumsOK

-----------------------------------------------------------------------------

(* Keys.                                                                    *)

LEMMA FieldsPart ==
  ASSUME NEW K \in Nat \ {0}, NEW p \in 0 .. K - 1, NEW q \in Nat
  PROVE  /\ p + K * q \in Nat
         /\ (p + K * q) \div K = q
         /\ (p + K * q) % K = p
<1> DEFINE n == p + K * q
<1>1. K * q \in Nat /\ n \in Nat
  OBVIOUS
<1>2. n = (K * (n \div K)) + (n % K) /\ n % K \in 0 .. K - 1 /\ n \div K \in Int
  BY <1>1
<1> DEFINE d == n \div K
           r == n % K
<1>3. K * (q - d) = r - p
  <2>1. p + K * q = K * d + r
    BY <1>2
  <2> QED BY <1>2, <2>1
<1> HIDE DEF d, r, n
<1>4. q = d
  <2>1. d \in Int /\ r \in 0 .. K - 1
    BY <1>2 DEF d, r
  <2>2. ~(q - d >= 1)
    <3> SUFFICES ASSUME q - d >= 1 PROVE FALSE
      OBVIOUS
    <3>1. K * (q - d) >= K
      BY <2>1
    <3> QED BY <1>3, <2>1, <3>1
  <2>3. ~(q - d <= -1)
    <3> SUFFICES ASSUME q - d <= -1 PROVE FALSE
      OBVIOUS
    <3>1. K * (q - d) <= -K
      BY <2>1
    <3> QED BY <1>3, <2>1, <3>1
  <2> QED BY <2>1, <2>2, <2>3
<1>5. r = p
  <2>1. r \in 0 .. K - 1
    BY <1>2 DEF r
  <2>2. K * (q - d) = 0
    BY <1>4
  <2> QED BY <1>3, <2>1, <2>2
<1> QED BY <1>1, <1>4, <1>5 DEF n, d, r


(* A statement that fails of some number fails of a first one.              *)
LEMMA LeastNatural ==
  ASSUME NEW T \in SUBSET Nat, T # {}
  PROVE  \E n \in T : \A m \in T : n <= m
<1>1. PICK n \in T : \A m \in T : ~ (<<m, n>> \in OpToRel(<, Nat))
  BY NatLessThanWellFounded, WFMin
<1>2. ASSUME NEW m \in T PROVE n <= m
  <2>1. ~ (m < n)
    BY <1>1 DEF OpToRel
  <2> QED BY <2>1
<1> QED BY <1>2

(* What a loop computes, one turn after another.                            *)
Turns(g, a, n, f) ==
  /\ f \in [0..n -> Nat]
  /\ f[0] = a
  /\ \A i \in 1..n : f[i] = g[i][f[i - 1]]

LEMMA TurnsExist ==
  ASSUME NEW a \in Nat, NEW n \in Nat, NEW g, \A i \in 1..n : g[i] \in [Nat -> Nat]
  PROVE  \E f : Turns(g, a, n, f)
<1> DEFINE Missing == {m \in 0..n : ~ \E f : Turns(g, a, m, f)}
<1> SUFFICES ASSUME Missing # {} PROVE FALSE
  OBVIOUS
<1>1. PICK m \in Missing : \A j \in Missing : m <= j
  <2>1. Missing \in SUBSET Nat
    OBVIOUS
  <2> HIDE DEF Missing
  <2> QED BY <2>1, LeastNatural
<1>2. m # 0
  <2> SUFFICES Turns(g, a, 0, [i \in 0..0 |-> a])
    OBVIOUS
  <2> QED BY DEF Turns
<1>3. m \in Nat /\ m - 1 \in Nat /\ m <= n /\ m - 1 \notin Missing /\ m \in 1..n
  BY <1>1, <1>2
<1>4. PICK f : Turns(g, a, m - 1, f)
  BY <1>3
<1> DEFINE h == [i \in 0..m |-> IF i < m THEN f[i] ELSE g[m][f[m - 1]]]
<1>5. /\ f \in [0 .. m - 1 -> Nat] /\ f[0] = a
      /\ \A i \in 1 .. m - 1 : f[i] = g[i][f[i - 1]]
  BY <1>4 DEF Turns
<1>6. g[m] \in [Nat -> Nat] /\ f[m - 1] \in Nat
  <2>1. g[m] \in [Nat -> Nat]
    BY <1>3
  <2>2. m - 1 \in 0 .. m - 1
    BY <1>3
  <2> QED BY <1>5, <2>1, <2>2
<1>7. h \in [0..m -> Nat]
  <2>1. ASSUME NEW i \in 0..m PROVE h[i] \in Nat
    <3>1. CASE i < m
      <4>1. i \in 0 .. m - 1
        BY <1>3, <3>1
      <4> QED BY <1>5, <3>1, <4>1
    <3>2. CASE ~(i < m)
      BY <1>6, <3>2
    <3> QED BY <3>1, <3>2
  <2>2. h = [i \in 0..m |-> h[i]]
    OBVIOUS
  <2> HIDE DEF h
  <2> QED BY <2>1, <2>2
<1>8. h[0] = a
  BY <1>3, <1>5
<1>9. ASSUME NEW i \in 1..m PROVE h[i] = g[i][h[i - 1]]
  <2>1. h[i - 1] = f[i - 1]
    BY <1>3
  <2>2. CASE i < m
    <3>1. i \in 1 .. m - 1 /\ h[i] = f[i]
      BY <1>3, <2>2
    <3> QED BY <1>5, <2>1, <3>1
  <2>3. CASE i = m
    BY <1>3, <2>1, <2>3
  <2> QED BY <1>3, <2>2, <2>3
<1> HIDE DEF h
<1>10. Turns(g, a, m, h)
  BY <1>7, <1>8, <1>9 DEF Turns
<1> QED BY <1>1, <1>10

Fields(pick) ==
  CHOOSE f : f = [s \in 1..Arity + 1 |->
                    IF s > Arity THEN 0 ELSE pick[s] + KeyCapacity * f[s + 1]]

LEMMA PackUnfolds == ASSUME NEW pick PROVE Pack(pick) = Fields(pick)[1]
BY DEF Pack, Fields

LEMMA FieldsRecur ==
  ASSUME NEW pick \in [Slot -> Nat]
  PROVE  /\ Fields(pick)[Arity + 1] = 0
         /\ \A s \in Slot : Fields(pick)[s] = pick[s] + KeyCapacity * Fields(pick)[s + 1]
         /\ \A s \in 1..Arity + 1 : Fields(pick)[s] \in Nat
<1>1. Arity \in Nat \ {0} /\ KeyCapacity \in Nat
  BY SimulNodeAssumption DEF SimulNodeAssumption
<1> DEFINE n == Arity
           g == [i \in 1..n |-> [x \in Nat |-> pick[n + 1 - i] + KeyCapacity * x]]
<1>2. ASSUME NEW i \in 1..n PROVE g[i] \in [Nat -> Nat]
  <2>1. n + 1 - i \in Slot
    BY <1>1 DEF Slot
  <2>2. pick[n + 1 - i] \in Nat
    BY <2>1
  <2> QED BY <1>1, <2>2
<1>3. PICK f : Turns(g, 0, n, f)
  <2> HIDE DEF g
  <2> QED BY <1>1, <1>2, TurnsExist
<1>4. ASSUME NEW i \in 1..n PROVE f[i] = pick[n + 1 - i] + KeyCapacity * f[i - 1]
  <2>1. f[i - 1] \in Nat
    BY <1>1, <1>3 DEF Turns
  <2> QED BY <1>3, <2>1 DEF Turns
<1>5. f[0] = 0 /\ \A i \in 0..n : f[i] \in Nat
  BY <1>3 DEF Turns
<1> DEFINE F(h) == [s \in 1..n + 1 |-> IF s > n THEN 0 ELSE pick[s] + KeyCapacity * h[s + 1]]
           h == [s \in 1..n + 1 |-> f[n + 1 - s]]
<1>6. h = F(h)
  <2> SUFFICES ASSUME NEW s \in 1..n + 1
               PROVE  f[n + 1 - s] = IF s > n THEN 0 ELSE pick[s] + KeyCapacity * h[s + 1]
    OBVIOUS
  <2>1. CASE s > n
    <3>1. n + 1 - s = 0
      BY <1>1, <2>1
    <3> QED BY <1>5, <2>1, <3>1
  <2>2. CASE ~(s > n)
    <3>1. /\ n + 1 - s \in 1..n /\ n + 1 - (n + 1 - s) = s
          /\ (n + 1 - s) - 1 = n + 1 - (s + 1)
          /\ s + 1 \in 1..n + 1
      BY <1>1, <2>2
    <3>2. f[n + 1 - s] = pick[s] + KeyCapacity * f[n + 1 - (s + 1)]
      BY <1>4, <3>1
    <3> QED BY <2>2, <3>1, <3>2
  <2> QED BY <2>1, <2>2
<1>7. Fields(pick) = F(Fields(pick))
  <2> HIDE DEF h
  <2> QED BY <1>6 DEF Fields
<1> DEFINE p == Fields(pick)
<1>8. p[n + 1] = 0 /\ \A s \in Slot : p[s] = pick[s] + KeyCapacity * p[s + 1]
  <2>1. n + 1 \in 1..n + 1 /\ n + 1 > n /\ \A s \in Slot : s \in 1..n + 1 /\ ~(s > n)
    BY <1>1 DEF Slot
  <2> HIDE DEF p
  <2>2. p = F(p)
    BY <1>7 DEF p
  <2> QED BY <2>1, <2>2
<1> HIDE DEF p, n
<1>9. ASSUME NEW s \in 1..n + 1 PROVE p[s] \in Nat
  <2> DEFINE Bad == {i \in 0..n : p[n + 1 - i] \notin Nat}
  <2>1. Bad = {}
    <3> SUFFICES ASSUME Bad # {} PROVE FALSE
      OBVIOUS
    <3>1. PICK i \in Bad : \A j \in Bad : i <= j
      <4>1. Bad \in SUBSET Nat
        OBVIOUS
      <4> HIDE DEF Bad
      <4> QED BY <4>1, LeastNatural
    <3>2. n \in Nat /\ i \in 0..n /\ p[n + 1 - i] \notin Nat
      BY <1>1, <3>1 DEF n
    <3>3. i # 0
      BY <1>8, <3>2
    <3>4. /\ i - 1 \in 0..n /\ ~(i <= i - 1) /\ n + 1 - (i - 1) = (n + 1 - i) + 1
          /\ n + 1 - i \in 1..n
      BY <3>2, <3>3
    <3>5. i - 1 \notin Bad
      BY <3>1, <3>4
    <3>6. p[(n + 1 - i) + 1] \in Nat
      <4>1. p[n + 1 - (i - 1)] \in Nat
        BY <3>4, <3>5
      <4> QED BY <3>4, <4>1
    <3>7. n + 1 - i \in Slot
      BY <3>4 DEF n, Slot
    <3>8. p[n + 1 - i] \in Nat
      BY <1>1, <1>8, <3>6, <3>7
    <3> QED BY <3>2, <3>8
  <2>2. n + 1 - s \in 0..n /\ n + 1 - (n + 1 - s) = s
    BY <1>1 DEF n
  <2> QED BY <2>1, <2>2
<1> QED BY <1>8, <1>9 DEF p, n


Shifts(key) ==
  CHOOSE f : f = [t \in Slot |-> IF t = 1 THEN key ELSE f[t - 1] \div KeyCapacity]

LEMMA ArmUnfolds == ASSUME NEW key, NEW s PROVE Arm(key, s) = Shifts(key)[s] % KeyCapacity
BY DEF Arm, Shifts

LEMMA CapacityPositive == KeyCapacity \in Nat \ {0} /\ Arity \in Nat \ {0}
<1>1. /\ Arity \in Nat \ {0} /\ KeyCapacity \in Nat
      /\ \A s \in Slot : Cardinality(ChoicesOf[s]) \in 1..KeyCapacity
  BY SimulNodeAssumption DEF SimulNodeAssumption
<1>2. 1 \in Slot
  BY <1>1 DEF Slot
<1> QED BY <1>1, <1>2

LEMMA ShiftsRecur ==
  ASSUME NEW key \in Nat
  PROVE  /\ Shifts(key)[1] = key
         /\ \A s \in Slot : s # 1 => Shifts(key)[s] = Shifts(key)[s - 1] \div KeyCapacity
<1> DEFINE n == Arity - 1
           g == [i \in 1..n |-> [x \in Nat |-> x \div KeyCapacity]]
<1>1. n \in Nat /\ KeyCapacity \in Nat \ {0} /\ Arity \in Nat \ {0}
  BY CapacityPositive
<1>2. ASSUME NEW i \in 1..n PROVE g[i] \in [Nat -> Nat]
  <2>1. \A x \in Nat : x \div KeyCapacity \in Nat
    BY <1>1
  <2> QED BY <2>1
<1>3. PICK f : Turns(g, key, n, f)
  <2> HIDE DEF g, n
  <2> QED BY <1>1, <1>2, TurnsExist
<1>4. ASSUME NEW i \in 1..n PROVE f[i] = f[i - 1] \div KeyCapacity
  <2>1. f[i - 1] \in Nat
    <3>1. i - 1 \in 0..n
      BY <1>1
    <3> QED BY <1>3, <3>1 DEF Turns
  <2> QED BY <1>3, <2>1 DEF Turns
<1>5. f[0] = key
  BY <1>3 DEF Turns
<1> DEFINE F(h) == [t \in Slot |-> IF t = 1 THEN key ELSE h[t - 1] \div KeyCapacity]
           h == [t \in Slot |-> f[t - 1]]
<1>6. h = F(h)
  <2> SUFFICES ASSUME NEW t \in Slot
               PROVE  f[t - 1] = IF t = 1 THEN key ELSE h[t - 1] \div KeyCapacity
    OBVIOUS
  <2>1. CASE t = 1
    BY <1>5, <2>1
  <2>2. CASE t # 1
    <3>1. t - 1 \in 1..n /\ t - 1 \in Slot
      BY <1>1, <2>2 DEF Slot
    <3> QED BY <1>4, <2>2, <3>1
  <2> QED BY <2>1, <2>2
<1>7. Shifts(key) = F(Shifts(key))
  <2> HIDE DEF h
  <2> QED BY <1>6 DEF Shifts
<1> DEFINE q == Shifts(key)
<1>8. 1 \in Slot
  BY <1>1 DEF Slot
<1> HIDE DEF q
<1>9. q = F(q)
  BY <1>7 DEF q
<1>10. q[1] = key /\ \A s \in Slot : s # 1 => q[s] = q[s - 1] \div KeyCapacity
  BY <1>8, <1>9
<1> QED BY <1>10 DEF q

(* The arm index packed for a slot is the one read back for it.             *)
LEMMA PackedArms ==
  ASSUME NEW pick \in [Slot -> 0 .. KeyCapacity - 1]
  PROVE  /\ Pack(pick) \in Nat
         /\ \A s \in Slot : Arm(Pack(pick), s) = pick[s]
<1> DEFINE p == Fields(pick)
           q == Shifts(Pack(pick))
<1>1. KeyCapacity \in Nat \ {0} /\ Arity \in Nat \ {0} /\ 1 \in Slot
      /\ \A s \in Slot : s \in 1..Arity + 1 /\ s + 1 \in 1..Arity + 1
  BY CapacityPositive DEF Slot
<1>2. pick \in [Slot -> Nat]
  BY <1>1
<1>3. /\ \A s \in Slot : p[s] = pick[s] + KeyCapacity * p[s + 1]
      /\ \A s \in 1..Arity + 1 : p[s] \in Nat
  BY <1>2, FieldsRecur
<1>4. Pack(pick) = p[1] /\ Pack(pick) \in Nat
  BY <1>1, <1>3, PackUnfolds
<1>5. q[1] = p[1] /\ \A s \in Slot : s # 1 => q[s] = q[s - 1] \div KeyCapacity
  BY <1>4, ShiftsRecur
<1>6. \A s \in Slot : Arm(Pack(pick), s) = q[s] % KeyCapacity
  BY ArmUnfolds
<1> HIDE DEF p, q
<1>7. ASSUME NEW s \in Slot
      PROVE  p[s] \div KeyCapacity = p[s + 1] /\ p[s] % KeyCapacity = pick[s]
  <2>1. /\ p[s] = pick[s] + KeyCapacity * p[s + 1]
        /\ p[s + 1] \in Nat /\ pick[s] \in 0 .. KeyCapacity - 1
    BY <1>1, <1>3
  <2> DEFINE a == pick[s]
             b == p[s + 1]
  <2>2. a \in 0 .. KeyCapacity - 1 /\ b \in Nat /\ p[s] = a + KeyCapacity * b
    BY <2>1
  <2> HIDE DEF a, b
  <2>3. (a + KeyCapacity * b) \div KeyCapacity = b /\ (a + KeyCapacity * b) % KeyCapacity = a
    BY <1>1, <2>2, FieldsPart
  <2>4. p[s] \div KeyCapacity = b /\ p[s] % KeyCapacity = a
    BY <2>2, <2>3
  <2> QED BY <2>4 DEF a, b
<1>8. ASSUME NEW s \in Slot PROVE q[s] = p[s]
  <2> DEFINE Bad == {t \in Slot : q[t] # p[t]}
  <2> SUFFICES ASSUME Bad # {} PROVE FALSE
    OBVIOUS
  <2>1. PICK t \in Bad : \A u \in Bad : t <= u
    <3>1. Bad \in SUBSET Nat
      BY DEF Slot
    <3> HIDE DEF Bad
    <3> QED BY <3>1, LeastNatural
  <2>2. t \in Slot /\ q[t] # p[t] /\ t \in Nat
    BY <2>1 DEF Slot
  <2>3. t # 1
    BY <1>5, <2>2
  <2>4. t - 1 \in Slot /\ ~(t <= t - 1)
    BY <1>1, <2>2, <2>3 DEF Slot
  <2>5. q[t - 1] = p[t - 1]
    BY <2>1, <2>4
  <2>6. p[t - 1] \div KeyCapacity = p[(t - 1) + 1] /\ (t - 1) + 1 = t
    BY <1>7, <2>2, <2>4
  <2> QED BY <1>5, <2>2, <2>3, <2>5, <2>6
<1> QED BY <1>4, <1>6, <1>7, <1>8


-----------------------------------------------------------------------------

(* The visits of a set of successors, as the fold behind MapThenSumSet adds *)
(* them: one at a time.                                                     *)

(* Among subsets of a finite set there is a smallest.                       *)
LEMMA MinimalSubset ==
  ASSUME NEW S, IsFiniteSet(S), NEW C \in SUBSET (SUBSET S), C # {}
  PROVE  \E T \in C : \A U \in C : U \subseteq T => U = T
<1>1. IsWellFoundedOn(StrictSubsetOrdering(S), SUBSET S)
  BY FS_StrictSubsetOrderingWellFounded, FS_FiniteSubsetsOfFinite
<1>2. PICK T \in C : \A U \in C : ~ (<<U, T>> \in StrictSubsetOrdering(S))
  BY <1>1, WFMin
<1> QED BY <1>2 DEF StrictSubsetOrdering

Picked(T) == CHOOSE x \in T : TRUE

AddPicked(js, g, T) == IF T = {} THEN 0 ELSE js[Picked(T)].visits + g[T \ {Picked(T)}]

SumsOver(js, S) == CHOOSE g : g = [T \in SUBSET S |-> AddPicked(js, g, T)]

LEMMA TotalUnfolds == ASSUME NEW js, NEW S PROVE Total(js, S) = SumsOver(js, S)[S]
BY DEF Total, MapThenSumSet, MapThenFoldSet, SumsOver, AddPicked, Picked

LEMMA PickedIsIn == ASSUME NEW T, T # {} PROVE Picked(T) \in T
BY DEF Picked

Upto(S, n) == {T \in SUBSET S : Cardinality(T) <= n}

Counted(js, S) == IsFiniteSet(S) /\ \A x \in S : js[x].visits \in Nat

SumsUpto(js, S, n, g) ==
  /\ g \in [Upto(S, n) -> Nat]
  /\ \A T \in Upto(S, n) : g[T] = AddPicked(js, g, T)

LEMMA SumsUptoExist ==
  ASSUME NEW S, NEW js, Counted(js, S), NEW n \in Nat
  PROVE  \E g : SumsUpto(js, S, n, g)
<1> DEFINE Missing == {m \in Nat : ~ \E g : SumsUpto(js, S, m, g)}
<1> SUFFICES ASSUME Missing # {} PROVE FALSE
  OBVIOUS
<1>1. PICK m \in Missing : \A k \in Missing : m <= k
  <2>1. Missing \in SUBSET Nat
    OBVIOUS
  <2> HIDE DEF Missing
  <2> QED BY <2>1, LeastNatural
<1>2. ASSUME NEW T \in SUBSET S
      PROVE  IsFiniteSet(T) /\ Cardinality(T) \in Nat /\ (Cardinality(T) = 0 <=> T = {})
  BY FS_Subset, FS_CardinalityType, FS_EmptySet DEF Counted
<1>3. CASE m = 0
  <2> DEFINE g == [T \in Upto(S, 0) |-> 0]
  <2>1. \A T \in Upto(S, 0) : T = {}
    BY <1>2 DEF Upto
  <2>2. SumsUpto(js, S, 0, g)
    BY <2>1 DEF SumsUpto, AddPicked
  <2> QED BY <1>1, <1>3, <2>2
<1>4. CASE m # 0
  <2>1. m - 1 \in Nat /\ m - 1 \notin Missing
    BY <1>1, <1>4
  <2>2. PICK g : SumsUpto(js, S, m - 1, g)
    BY <2>1
  <2> DEFINE h == [T \in Upto(S, m) |-> AddPicked(js, g, T)]
  <2>3. ASSUME NEW T \in Upto(S, m), T # {}
        PROVE  /\ Picked(T) \in S
               /\ T \ {Picked(T)} \in Upto(S, m - 1)
    <3>1. Picked(T) \in T /\ T \subseteq S /\ Cardinality(T) <= m
      BY <2>3, PickedIsIn DEF Upto
    <3>2. Cardinality(T \ {Picked(T)}) = Cardinality(T) - 1
      BY <1>2, <3>1, FS_RemoveElement
    <3> QED BY <1>1, <1>2, <3>1, <3>2 DEF Upto
  <2>4. ASSUME NEW T \in Upto(S, m) PROVE AddPicked(js, g, T) \in Nat
    BY <2>2, <2>3 DEF SumsUpto, AddPicked, Counted
  <2>5. \A T \in Upto(S, m - 1) : T \in Upto(S, m)
    BY <1>1, <1>2 DEF Upto
  <2>6. \A T \in Upto(S, m - 1) : h[T] = g[T]
    BY <2>2, <2>5 DEF SumsUpto
  <2>7. ASSUME NEW T \in Upto(S, m) PROVE h[T] = AddPicked(js, h, T)
    BY <2>3, <2>6 DEF AddPicked
  <2>8. SumsUpto(js, S, m, h)
    BY <2>4, <2>7 DEF SumsUpto
  <2> QED BY <1>1, <2>8
<1> QED BY <1>3, <1>4

Sums(js, S, g) == \A T \in SUBSET S : g[T] = AddPicked(js, g, T) /\ g[T] \in Nat

LEMMA SumsRecur ==
  ASSUME NEW S, NEW js, Counted(js, S)
  PROVE  Sums(js, S, SumsOver(js, S))
<1>1. Cardinality(S) \in Nat /\ Upto(S, Cardinality(S)) = SUBSET S
  BY FS_Subset, FS_CardinalityType DEF Upto, Counted
<1>2. PICK g : SumsUpto(js, S, Cardinality(S), g)
  BY <1>1, SumsUptoExist
<1>3. g = [T \in SUBSET S |-> AddPicked(js, g, T)]
  BY <1>1, <1>2 DEF SumsUpto
<1>4. SumsOver(js, S) = [T \in SUBSET S |-> AddPicked(js, SumsOver(js, S), T)]
  BY <1>3 DEF SumsOver
<1> DEFINE f == SumsOver(js, S)
<1> HIDE DEF f
<1>5. \A T \in SUBSET S : f[T] = AddPicked(js, f, T)
  BY <1>4 DEF f
<1>6. ASSUME NEW U \in SUBSET S PROVE f[U] \in Nat
  <2> DEFINE Bad == {T \in SUBSET S : f[T] \notin Nat}
  <2> SUFFICES ASSUME Bad # {} PROVE FALSE
    OBVIOUS
  <2>1. PICK T \in Bad : \A V \in Bad : V \subseteq T => V = T
    <3>1. Bad \in SUBSET (SUBSET S)
      OBVIOUS
    <3> HIDE DEF Bad
    <3> QED BY <3>1, MinimalSubset DEF Counted
  <2>2. T \in SUBSET S /\ f[T] \notin Nat /\ f[T] = AddPicked(js, f, T)
    BY <1>5, <2>1
  <2>3. T # {}
    BY <2>2 DEF AddPicked
  <2>4. Picked(T) \in T /\ T \ {Picked(T)} \notin Bad
    BY <2>1, <2>3, PickedIsIn
  <2>5. js[Picked(T)].visits \in Nat /\ f[T \ {Picked(T)}] \in Nat
    BY <2>2, <2>4 DEF Counted
  <2> QED BY <2>2, <2>3, <2>5 DEF AddPicked
<1> QED BY <1>5, <1>6 DEF Sums, f

Alike(js, ks, T) == \A x \in T : js[x].visits = ks[x].visits

(* What is added up does not depend on what else there is.                  *)
LEMMA SumsAgree ==
  ASSUME NEW S, IsFiniteSet(S), NEW T \in SUBSET S, NEW js, NEW ks, NEW g, NEW h,
         Sums(js, S, g), Sums(ks, T, h), Alike(js, ks, T)
  PROVE  h[T] = g[T]
<1> DEFINE Bad == {U \in SUBSET T : h[U] # g[U]}
<1> SUFFICES ASSUME Bad # {} PROVE FALSE
  OBVIOUS
<1>1. PICK U \in Bad : \A V \in Bad : V \subseteq U => V = U
  <2>1. Bad \in SUBSET (SUBSET T) /\ IsFiniteSet(T)
    BY FS_Subset
  <2> HIDE DEF Bad
  <2> QED BY <2>1, MinimalSubset
<1>2. /\ U \in SUBSET T /\ h[U] # g[U]
      /\ h[U] = AddPicked(ks, h, U) /\ g[U] = AddPicked(js, g, U)
  BY <1>1 DEF Sums
<1>3. U # {}
  BY <1>2 DEF AddPicked
<1>4. Picked(U) \in U /\ U \ {Picked(U)} \notin Bad
  BY <1>1, <1>3, PickedIsIn
<1>5. h[U \ {Picked(U)}] = g[U \ {Picked(U)}] /\ js[Picked(U)].visits = ks[Picked(U)].visits
  BY <1>2, <1>4 DEF Alike
<1> QED BY <1>2, <1>3, <1>5 DEF AddPicked

(* ... nor on the order.                                                    *)
LEMMA SumsWithout ==
  ASSUME NEW S, NEW js, Counted(js, S), NEW g, Sums(js, S, g), NEW T \in SUBSET S, NEW x \in T
  PROVE  g[T] = js[x].visits + g[T \ {x}]
<1> DEFINE Bad == {U \in SUBSET S : \E y \in U : g[U] # js[y].visits + g[U \ {y}]}
<1> SUFFICES ASSUME Bad # {} PROVE FALSE
  OBVIOUS
<1>1. PICK U \in Bad : \A V \in Bad : V \subseteq U => V = U
  <2>1. Bad \in SUBSET (SUBSET S)
    OBVIOUS
  <2> HIDE DEF Bad
  <2> QED BY <2>1, MinimalSubset DEF Counted
<1>2. PICK y \in U : g[U] # js[y].visits + g[U \ {y}]
  BY <1>1
<1> DEFINE p == Picked(U)
<1>3. p \in U /\ g[U] = js[p].visits + g[U \ {p}]
  BY <1>1, <1>2, PickedIsIn DEF Sums, AddPicked
<1> HIDE DEF p
<1>4. p # y
  BY <1>2, <1>3
<1>5. U \ {p} \notin Bad /\ U \ {y} \notin Bad /\ U \in SUBSET S
  BY <1>1, <1>2, <1>3
<1>6. g[U \ {p}] = js[y].visits + g[(U \ {p}) \ {y}]
  BY <1>2, <1>4, <1>5
<1>7. g[U \ {y}] = js[p].visits + g[(U \ {y}) \ {p}]
  BY <1>3, <1>4, <1>5
<1>8. (U \ {p}) \ {y} = (U \ {y}) \ {p} /\ (U \ {p}) \ {y} \in SUBSET S
  BY <1>5
<1>9. g[(U \ {p}) \ {y}] \in Nat /\ js[p].visits \in Nat /\ js[y].visits \in Nat
  BY <1>2, <1>3, <1>5, <1>8 DEF Sums, Counted
<1> DEFINE rest == g[(U \ {p}) \ {y}]
           a == js[p].visits
           b == js[y].visits
<1>10. /\ g[U] = a + (b + rest)
       /\ g[U \ {y}] = a + rest
       /\ a \in Nat /\ b \in Nat /\ rest \in Nat
  BY <1>3, <1>6, <1>7, <1>8, <1>9
<1>11. g[U] # b + g[U \ {y}]
  BY <1>2
<1> HIDE DEF rest, a, b
<1>12. g[U] = b + g[U \ {y}]
  BY <1>10
<1> QED BY <1>11, <1>12

(* The three facts the backup rests on.                                     *)
LEMMA TotalOfNone == ASSUME NEW js PROVE Total(js, {}) = 0
<1>1. Counted(js, {})
  BY FS_EmptySet DEF Counted
<1>2. Sums(js, {}, SumsOver(js, {}))
  BY <1>1, SumsRecur
<1> QED BY <1>2, TotalUnfolds DEF Sums, AddPicked

LEMMA TotalAgrees ==
  ASSUME NEW S, NEW js, NEW ks, Counted(js, S), Alike(js, ks, S)
  PROVE  Total(js, S) = Total(ks, S)
<1>1. Counted(ks, S)
  BY DEF Counted, Alike
<1>2. Sums(js, S, SumsOver(js, S)) /\ Sums(ks, S, SumsOver(ks, S)) /\ IsFiniteSet(S)
  BY <1>1, SumsRecur DEF Counted
<1> DEFINE g == SumsOver(js, S)
           h == SumsOver(ks, S)
<1>3. S \in SUBSET S
  OBVIOUS
<1>4. Total(js, S) = g[S] /\ Total(ks, S) = h[S]
  BY TotalUnfolds
<1> HIDE DEF g, h
<1>5. Sums(js, S, g) /\ Sums(ks, S, h)
  BY <1>2 DEF g, h
<1>6. h[S] = g[S]
  BY <1>2, <1>3, <1>5, SumsAgree
<1> QED BY <1>4, <1>6

LEMMA TotalWithout ==
  ASSUME NEW S, NEW js, Counted(js, S), NEW x \in S
  PROVE  /\ Total(js, S) = js[x].visits + Total(js, S \ {x})
         /\ Total(js, S \ {x}) \in Nat
<1> DEFINE T == S \ {x}
           g == SumsOver(js, S)
           h == SumsOver(js, T)
<1>1. Counted(js, T)
  BY FS_Subset DEF Counted
<1>2. Sums(js, S, g) /\ Sums(js, T, h) /\ IsFiniteSet(S) /\ T \in SUBSET S
  BY <1>1, SumsRecur DEF Counted
<1>3. Total(js, S) = g[S] /\ Total(js, T) = h[T]
  BY TotalUnfolds
<1> HIDE DEF g, h
<1>4. h[T] = g[T]
  <2> HIDE DEF T
  <2>1. Alike(js, js, T)
    BY DEF Alike
  <2> QED BY <1>2, <2>1, SumsAgree
<1>5. g[S] = js[x].visits + g[T]
  BY <1>2, SumsWithout
<1>6. h[T] \in Nat
  BY <1>2 DEF Sums
<1> QED BY <1>3, <1>4, <1>5, <1>6


-----------------------------------------------------------------------------

(* The array.                                                               *)

LEMMA Slots ==
  /\ Arity \in Nat \ {0}
  /\ \A s \in Slot : s \in Nat /\ s # 0 /\ s \in 0..Arity /\ s - 1 \in 0..Arity /\ s <= Arity
  /\ 1 \in Slot /\ Arity \in Slot
BY CapacityPositive DEF Slot

LEMMA Within ==
  ASSUME NEW lo \in Nat, NEW hi \in Nat, NEW n \in Nat, hi <= n, NEW a \in lo + 1 .. hi
  PROVE  a \in 1..n /\ a \in Nat /\ lo < a /\ a <= hi
OBVIOUS

LEMMA LayoutFacts ==
  ASSUME NEW arr, NEW st, Layout(arr, st)
  PROVE  /\ Len(arr) \in Nat /\ DOMAIN arr = 1..Len(arr)
         /\ \A a \in DOMAIN arr : arr[a] \in Bandit
         /\ \A s \in Slot : /\ st[s - 1] \in Nat /\ st[s] \in Nat
                            /\ st[s - 1] <= st[s] /\ st[s] <= Len(arr)
         /\ \A s \in Slot : \A a \in st[s - 1] + 1 .. st[s] :
              a \in DOMAIN arr /\ a \in Nat /\ st[s - 1] < a /\ a <= st[s]
         /\ \A a \in DOMAIN arr : \E s \in Slot : a \in st[s - 1] + 1 .. st[s]
         /\ \A s, t \in Slot : \A a \in st[s - 1] + 1 .. st[s] :
              a \in st[t - 1] + 1 .. st[t] => s = t
<1>1. /\ arr \in Seq(Bandit) /\ st \in [0..Arity -> Nat]
      /\ st[0] = 0 /\ st[Arity] = Len(arr)
      /\ \A s, t \in 0..Arity : s <= t => st[s] <= st[t]
  BY DEF Layout
<1>2. Len(arr) \in Nat /\ DOMAIN arr = 1..Len(arr) /\ \A a \in DOMAIN arr : arr[a] \in Bandit
  BY <1>1, LenProperties, ElementOfSeq
<1>3. ASSUME NEW s \in Slot
      PROVE  /\ st[s - 1] \in Nat /\ st[s] \in Nat
             /\ st[s - 1] <= st[s] /\ st[s] <= Len(arr)
  <2>1. s \in 0..Arity /\ s - 1 \in 0..Arity /\ Arity \in 0..Arity /\ s - 1 <= s /\ s <= Arity
    BY Slots
  <2> QED BY <1>1, <2>1
<1>4. ASSUME NEW s \in Slot, NEW a \in st[s - 1] + 1 .. st[s]
      PROVE  a \in DOMAIN arr /\ a \in Nat /\ st[s - 1] < a /\ a <= st[s]
  <2>1. st[s - 1] \in Nat /\ st[s] \in Nat /\ st[s] <= Len(arr)
    BY <1>3
  <2> QED BY <1>2, <2>1, Within
<1>5. ASSUME NEW a \in DOMAIN arr PROVE \E s \in Slot : a \in st[s - 1] + 1 .. st[s]
  <2> DEFINE Past == {s \in 0..Arity : a <= st[s]}
  <2>1. Arity \in Past /\ a \in Nat /\ a # 0
    <3>1. a \in Nat /\ a # 0 /\ a <= st[Arity]
      <4> DEFINE n == Len(arr)
      <4>1. a \in 1..n /\ n \in Nat /\ n = st[Arity]
        BY <1>1, <1>2
      <4> HIDE DEF n
      <4>2. a \in Nat /\ a # 0 /\ a <= n
        BY <4>1
      <4> QED BY <4>1, <4>2
    <3>2. Arity \in 0..Arity
      BY Slots
    <3> QED BY <3>1, <3>2
  <2>2. PICK s \in Past : \A t \in Past : s <= t
    <3>1. Past \in SUBSET Nat /\ Past # {}
      BY <2>1
    <3> HIDE DEF Past
    <3> QED BY <3>1, LeastNatural
  <2>3. s \in 0..Arity /\ a <= st[s] /\ s # 0
    BY <1>1, <2>1, <2>2
  <2>4. s \in Slot /\ s - 1 \in 0..Arity /\ ~(s <= s - 1)
    BY <2>3, Slots DEF Slot
  <2>5. ~(a <= st[s - 1])
    BY <2>2, <2>4
  <2>6. a \in st[s - 1] + 1 .. st[s]
    <3>1. st[s - 1] \in Nat /\ st[s] \in Nat
      BY <1>3, <2>4
    <3> QED BY <2>1, <2>3, <2>5, <3>1
  <2> QED BY <2>4, <2>6
<1>6. ASSUME NEW s \in Slot, NEW t \in Slot, NEW a \in st[s - 1] + 1 .. st[s],
             a \in st[t - 1] + 1 .. st[t]
      PROVE  s = t
  <2>1. /\ s \in 0..Arity /\ s - 1 \in 0..Arity /\ t \in 0..Arity /\ t - 1 \in 0..Arity
        /\ s \in Nat /\ t \in Nat
    BY Slots
  <2>2. ~(s < t)
    <3> SUFFICES ASSUME s < t PROVE FALSE
      OBVIOUS
    <3>1. s <= t - 1
      BY <2>1
    <3>2. st[s] <= st[t - 1]
      BY <1>1, <2>1, <3>1
    <3>3. a <= st[s] /\ st[t - 1] < a /\ a \in Nat
      BY <1>4, <1>6
    <3>4. st[s] \in Nat /\ st[t - 1] \in Nat
      BY <1>3
    <3> QED BY <3>2, <3>3, <3>4
  <2>3. ~(t < s)
    <3> SUFFICES ASSUME t < s PROVE FALSE
      OBVIOUS
    <3>1. t <= s - 1
      BY <2>1
    <3>2. st[t] <= st[s - 1]
      BY <1>1, <2>1, <3>1
    <3>3. a <= st[t] /\ st[s - 1] < a /\ a \in Nat
      BY <1>4, <1>6
    <3>4. st[t] \in Nat /\ st[s - 1] \in Nat
      BY <1>3
    <3> QED BY <3>2, <3>3, <3>4
  <2> QED BY <2>1, <2>2, <2>3
<1> QED BY <1>2, <1>3, <1>4, <1>5, <1>6

(* No slot has more arms than a joint key has room for.                     *)
LEMMA WidthBound ==
  ASSUME NEW arr, NEW st, Layout(arr, st), ArmsOK(arr, st), NEW s \in Slot
  PROVE  st[s] - st[s - 1] <= KeyCapacity
<1> DEFINE held == st[s - 1] + 1 .. st[s]
           f    == [a \in held |-> arr[a].choice]
<1>1. st[s - 1] \in Nat /\ st[s] \in Nat /\ st[s - 1] <= st[s]
  BY LayoutFacts
<1>2. IsFiniteSet(ChoicesOf[s]) /\ Cardinality(ChoicesOf[s]) \in 1..KeyCapacity
  BY SimulNodeAssumption DEF SimulNodeAssumption
<1>3. IsFiniteSet(held) /\ Cardinality(held) = st[s] - st[s - 1]
  <2>1. st[s - 1] + 1 \in Int /\ st[s] \in Int
    BY <1>1
  <2>2. IsFiniteSet(held) /\ Cardinality(held) =
          IF st[s - 1] + 1 > st[s] THEN 0 ELSE st[s] - (st[s - 1] + 1) + 1
    BY <2>1, FS_Interval
  <2> QED BY <1>1, <2>2
<1>4. f \in Injection(held, ChoicesOf[s])
  BY DEF ArmsOK, Injection, IsInjective
<1> HIDE DEF held, f
<1>5. Cardinality(held) <= Cardinality(ChoicesOf[s])
  BY <1>2, <1>3, <1>4, FS_Injection
<1> QED BY <1>1, <1>2, <1>3, <1>5, CapacityPositive

(* Arms rewritten in place: their counts and stamps, not whose they are.    *)
Rewritten(arr, bs) ==
  /\ bs = [a \in DOMAIN arr |-> bs[a]]
  /\ \A a \in DOMAIN arr : bs[a] \in Bandit /\ bs[a].choice = arr[a].choice

LEMMA RewrittenArms ==
  ASSUME NEW arr, NEW bs, NEW st, Layout(arr, st), Rewritten(arr, bs)
  PROVE  /\ Layout(bs, st)
         /\ DOMAIN bs = DOMAIN arr
         /\ ArmsOK(arr, st) => ArmsOK(bs, st)
         /\ \A child : Names(arr, st, child) => Names(bs, st, child)
<1>1. /\ Len(arr) \in Nat /\ DOMAIN arr = 1..Len(arr)
      /\ \A s \in Slot : \A a \in st[s - 1] + 1 .. st[s] : a \in DOMAIN arr
      /\ \A s \in Slot : st[s - 1] \in Nat /\ st[s] \in Nat /\ st[s - 1] <= st[s]
  BY LayoutFacts
<1>2. DOMAIN bs = DOMAIN arr /\ \A a \in DOMAIN arr : bs[a] \in Bandit /\ bs[a].choice = arr[a].choice
  BY DEF Rewritten
<1>3. bs \in Seq(Bandit) /\ Len(bs) = Len(arr)
  <2> DEFINE n == Len(arr)
  <2>1. n \in Nat /\ bs = [a \in 1..n |-> bs[a]] /\ \A a \in 1..n : bs[a] \in Bandit
    BY <1>1, <1>2 DEF Rewritten
  <2> HIDE DEF n
  <2>2. bs \in [1..n -> Bandit]
    BY <2>1
  <2>3. bs \in Seq(Bandit)
    BY <2>1, <2>2, IsASeq
  <2>4. DOMAIN bs = 1..n
    BY <2>1
  <2>5. Len(bs) \in Nat /\ DOMAIN bs = 1..Len(bs)
    BY <2>3, LenProperties
  <2>6. Len(bs) = n
    <3> DEFINE m == Len(bs)
    <3> HIDE DEF m
    <3>1. m \in Nat /\ 1..m = 1..n
      BY <2>4, <2>5 DEF m
    <3>2. ~(m < n)
      <4> SUFFICES ASSUME m < n PROVE FALSE
        OBVIOUS
      <4>1. n \in 1..n /\ n \notin 1..m
        BY <2>1, <3>1
      <4> QED BY <3>1, <4>1
    <3>3. ~(n < m)
      <4> SUFFICES ASSUME n < m PROVE FALSE
        OBVIOUS
      <4>1. m \in 1..m /\ m \notin 1..n
        BY <2>1, <3>1
      <4> QED BY <3>1, <4>1
    <3>4. m = n
      BY <2>1, <3>1, <3>2, <3>3
    <3> QED BY <3>4 DEF m
  <2> QED BY <2>3, <2>6 DEF n
<1>4. Layout(bs, st)
  BY <1>3 DEF Layout
<1>5. ArmsOK(arr, st) => ArmsOK(bs, st)
  <2> SUFFICES ASSUME ArmsOK(arr, st), NEW s \in Slot
               PROVE  /\ \A a \in st[s - 1] + 1 .. st[s] : bs[a].choice \in ChoicesOf[s]
                      /\ \A a, b \in st[s - 1] + 1 .. st[s] :
                           bs[a].choice = bs[b].choice => a = b
    BY DEF ArmsOK
  <2>1. \A a \in st[s - 1] + 1 .. st[s] : bs[a].choice = arr[a].choice
    BY <1>1, <1>2
  <2> QED BY <2>1 DEF ArmsOK
<1>6. ASSUME NEW child, Names(arr, st, child) PROVE Names(bs, st, child)
  <2>1. ASSUME NEW s \in Slot
        PROVE  bs[st[s - 1] + 1 + Arm(child.key, s)].choice = child.played[s]
    <3> DEFINE rel == Arm(child.key, s)
               at  == st[s - 1] + 1 + rel
    <3>1. rel \in 0 .. st[s] - st[s - 1] - 1 /\ arr[at].choice = child.played[s]
      BY <1>6 DEF Names
    <3> HIDE DEF rel
    <3>2. at \in st[s - 1] + 1 .. st[s]
      BY <1>1, <3>1
    <3>3. at \in DOMAIN arr
      BY <1>1, <3>2
    <3> QED BY <1>2, <3>1, <3>3 DEF rel
  <2> QED BY <1>6, <2>1 DEF Names
<1> QED BY <1>2, <1>4, <1>5, <1>6



-----------------------------------------------------------------------------

(* Where an iteration starts and where nothing but its place changes.       *)

LEMMA RootOffersWithin ==
  ASSUME NEW o \in RootOffers, NEW s \in Slot PROVE o[s] \subseteq ChoicesOf[s]
BY DEF RootOffers

LEMMA OffersStay ==
  ASSUME Inv, offers' = offers PROVE \A s \in Slot : offers'[s] \subseteq ChoicesOf[s]
BY DEF Inv, MatchOK

LEMMA InitHolds == ASSUME Init PROVE Inv
<1>1. /\ visits \in Nat /\ matched = FALSE /\ arms = <<>> /\ starts = [s \in 0..Arity |-> 0]
      /\ children = <<>> /\ pc = "idle" /\ taken = 0 /\ stale = FALSE /\ panics = 0
  BY DEF Init
<1>2. DOMAIN arms = {} /\ DOMAIN children = {} /\ arms \in Seq(Bandit) /\ children \in Seq(Joint)
      /\ Len(arms) = 0
  <2>1. \A S : <<>> \in Seq(S) /\ Len(<<>>) = 0 /\ DOMAIN <<>> = {}
    BY EmptySeq
  <2> QED BY <1>1, <2>1
<1>3. \A s \in 0..Arity : starts[s] = 0
  BY <1>1
<1>4. ASSUME NEW s \in Slot PROVE SlotRange(s) = {}
  <2>1. starts[s] = 0 /\ starts[s - 1] = 0
    BY <1>3, Slots
  <2> QED BY <2>1 DEF SlotRange
<1>5. Layout(arms, starts)
  <2>1. 0 \in 0..Arity /\ Arity \in 0..Arity
    BY Slots
  <2> QED BY <1>1, <1>2, <1>3, <2>1 DEF Layout
<1>6. ArmsOK(arms, starts)
  BY <1>4 DEF ArmsOK, SlotRange
<1>7. JointsOK
  BY <1>1, <1>2 DEF JointsOK
<1>8. StampsOK
  <2>1. \A s \in Slot : Stamped(s) = {}
    BY <1>4 DEF Stamped, Legal
  <2> QED BY <1>1, <1>2, <2>1 DEF StampsOK
<1>9. MatchOK
  <2>1. \A s \in Slot : offers[s] \subseteq ChoicesOf[s]
    BY RootOffersWithin DEF Init
  <2> QED BY <1>1, <2>1 DEF MatchOK
<1>10. CountsOK /\ TakenIsFresh
  BY <1>1, <1>2 DEF CountsOK, TakenIsFresh
<1>11. SumsOK
  BY <1>4 DEF SumsOK
<1> QED BY <1>1, <1>5, <1>6, <1>7, <1>8, <1>9, <1>10, <1>11 DEF Inv

(* What a step that touches neither arms nor successors leaves as it was.   *)
LEMMA BooksUntouched ==
  ASSUME Inv, arms' = arms, starts' = starts, children' = children
  PROVE  /\ Layout(arms, starts)' /\ ArmsOK(arms, starts)'
         /\ children' \in Seq(Joint)
         /\ \A i \in DOMAIN children' : Names(arms, starts, children[i])'
         /\ \A i, j \in DOMAIN children' : children'[i].key = children'[j].key => i = j
         /\ \A s \in Slot : Held(s)' = Held(s) /\ (visits' = visits => Stamped(s)' = Stamped(s))
         /\ SumsOK'
<1>1. Layout(arms, starts) /\ ArmsOK(arms, starts) /\ JointsOK /\ SumsOK
  BY DEF Inv
<1>2. Layout(arms, starts)' /\ ArmsOK(arms, starts)'
  BY <1>1 DEF Layout, ArmsOK
<1>3. \A i \in DOMAIN children' : Names(arms, starts, children[i])'
  BY <1>1 DEF JointsOK, Names
<1>4. SumsOK'
  BY <1>1 DEF SumsOK, SlotRange
<1>5. \A s \in Slot : Held(s)' = Held(s) /\ (visits' = visits => Stamped(s)' = Stamped(s))
  BY DEF Held, Stamped, Legal, SlotRange
<1> QED BY <1>1, <1>2, <1>3, <1>4, <1>5 DEF JointsOK

LEMMA NoStamp ==
  ASSUME Layout(arms, starts), \A s \in Slot : Stamped(s) = {}
  PROVE  \A a \in DOMAIN arms : arms[a].epoch # visits
<1> SUFFICES ASSUME NEW a \in DOMAIN arms, arms[a].epoch = visits PROVE FALSE
  OBVIOUS
<1>1. PICK s \in Slot : a \in SlotRange(s)
  BY LayoutFacts DEF SlotRange
<1>2. arms[a].choice \in Stamped(s)
  BY <1>1 DEF Stamped, Legal
<1> QED BY <1>2

LEMMA OfferFacts ==
  ASSUME world \in Worlds, MatchOK
  PROVE  /\ \A s \in Slot : world[s] \subseteq ChoicesOf[s]
         /\ Fixed => world = offers
BY DEF Worlds, MatchOK

LEMMA ArriveStep == ASSUME Inv, Arrive PROVE Inv'
<1>1. /\ pc = "idle" /\ world' \in Worlds /\ slot' = 1 /\ complete' = TRUE /\ taken' = 0
      /\ pc' = (IF matched THEN "stamp" ELSE "expand")
      /\ policy' = policy /\ revisit' = revisit /\ offers' = offers /\ isRoot' = isRoot /\ visits' = visits
      /\ matched' = matched /\ arms' = arms /\ starts' = starts /\ children' = children
      /\ stale' = stale /\ panics' = panics
  BY DEF Arrive, game, node
<1>2. /\ visits \in Nat /\ panics \in Nat /\ (stale => panics # 0)
      /\ Layout(arms, starts) /\ JointsOK /\ StampsOK /\ MatchOK /\ CountsOK
  BY DEF Inv
<1>3. /\ Layout(arms, starts)' /\ ArmsOK(arms, starts)'
      /\ children' \in Seq(Joint)
      /\ \A i \in DOMAIN children' : Names(arms, starts, children[i])'
      /\ \A i, j \in DOMAIN children' : children'[i].key = children'[j].key => i = j
      /\ \A s \in Slot : Held(s)' = Held(s) /\ Stamped(s)' = Stamped(s)
      /\ SumsOK'
  BY <1>1, BooksUntouched
<1>4. taken = 0
  BY <1>1, <1>2 DEF JointsOK
<1>5. ~stale => \A s \in Slot : Stamped(s) = {}
  BY <1>1, <1>2 DEF StampsOK
<1>6. JointsOK'
  BY <1>1, <1>3 DEF JointsOK
<1>7. StampsOK'
  <2>1. \A s \in Slot : ~(s < 1)
    BY Slots DEF Slot
  <2>2. \A a \in DOMAIN arms : arms[a].epoch <= visits
    BY <1>2 DEF StampsOK
  <2>3. ~stale => \A s \in Slot : Stamped(s)' = {}
    BY <1>3, <1>5
  <2> QED BY <1>1, <2>1, <2>2, <2>3 DEF StampsOK
<1>8. MatchOK'
  <2>1. \A s \in Slot : ~(s < 1)
    BY Slots DEF Slot
  <2>2. matched => Fixed /\ \A s \in Slot : Held(s)' = offers[s]
    BY <1>2, <1>3 DEF MatchOK
  <2>3. Fixed' = Fixed /\ Worlds' = Worlds
    BY <1>1 DEF Fixed, Worlds
  <2> QED BY <1>1, <2>1, <2>2, <2>3, Slots, OffersStay DEF MatchOK
<1>9. CountsOK'
  <2>1. panics = 0 => \A a \in DOMAIN arms : arms[a].epoch # visits
    BY <1>2, <1>5, NoStamp
  <2> QED BY <1>1, <1>2, <1>4, <2>1 DEF CountsOK
<1>10. TakenIsFresh'
  BY <1>1 DEF TakenIsFresh
<1> QED BY <1>1, <1>2, <1>3, <1>6, <1>7, <1>8, <1>9, <1>10 DEF Inv


LEMMA SelectNothingStep == ASSUME Inv, SelectNothing PROVE Inv'
<1>1. /\ pc = "select" /\ pc' = "below" /\ taken' = taken
      /\ policy' = policy /\ revisit' = revisit /\ offers' = offers /\ isRoot' = isRoot /\ visits' = visits
      /\ matched' = matched /\ arms' = arms /\ starts' = starts /\ children' = children
      /\ stale' = stale /\ panics' = panics
  BY DEF SelectNothing, game, node, iteration
<1>2. /\ visits \in Nat /\ panics \in Nat /\ (stale => panics # 0)
      /\ JointsOK /\ StampsOK /\ MatchOK /\ CountsOK
  BY DEF Inv
<1>3. /\ Layout(arms, starts)' /\ ArmsOK(arms, starts)'
      /\ children' \in Seq(Joint)
      /\ \A i \in DOMAIN children' : Names(arms, starts, children[i])'
      /\ \A i, j \in DOMAIN children' : children'[i].key = children'[j].key => i = j
      /\ \A s \in Slot : Held(s)' = Held(s)
      /\ SumsOK'
  BY <1>1, BooksUntouched
<1>4. taken = 0
  BY <1>1, <1>2 DEF JointsOK
<1>5. JointsOK'
  BY <1>1, <1>3, <1>4 DEF JointsOK
<1>6. StampsOK'
  <2>1. \A a \in DOMAIN arms : arms[a].epoch <= visits
    BY <1>2 DEF StampsOK
  <2> QED BY <1>1, <2>1 DEF StampsOK
<1>7. MatchOK'
  <2>1. matched => Fixed /\ \A s \in Slot : Held(s)' = offers[s]
    BY <1>2, <1>3 DEF MatchOK
  <2>2. Fixed' = Fixed
    BY <1>1 DEF Fixed
  <2> QED BY <1>1, <2>1, <2>2, OffersStay DEF MatchOK
<1>8. CountsOK'
  BY <1>1, <1>2, <1>4 DEF CountsOK
<1>9. TakenIsFresh'
  BY <1>1, <1>4 DEF TakenIsFresh
<1> QED BY <1>1, <1>2, <1>3, <1>5, <1>6, <1>7, <1>8, <1>9 DEF Inv

LEMMA PanicStep == ASSUME Inv, Panic PROVE Inv'
<1>1. /\ pc' \in {"dropped", "idle"} /\ taken' = 0 /\ stale' = TRUE /\ panics' = panics + 1
      /\ policy' = policy /\ revisit' = revisit /\ offers' = offers /\ isRoot' = isRoot /\ visits' = visits
      /\ matched' = matched /\ arms' = arms /\ starts' = starts /\ children' = children
  BY DEF Panic, game, node
<1>2. visits \in Nat /\ panics \in Nat /\ StampsOK /\ MatchOK
  BY DEF Inv
<1>3. /\ Layout(arms, starts)' /\ ArmsOK(arms, starts)'
      /\ children' \in Seq(Joint)
      /\ \A i \in DOMAIN children' : Names(arms, starts, children[i])'
      /\ \A i, j \in DOMAIN children' : children'[i].key = children'[j].key => i = j
      /\ \A s \in Slot : Held(s)' = Held(s)
      /\ SumsOK'
  BY <1>1, BooksUntouched
<1>4. JointsOK'
  BY <1>1, <1>3 DEF JointsOK
<1>5. StampsOK'
  <2>1. \A a \in DOMAIN arms : arms[a].epoch <= visits
    BY <1>2 DEF StampsOK
  <2> QED BY <1>1, <2>1 DEF StampsOK
<1>6. MatchOK'
  <2>1. matched => Fixed /\ \A s \in Slot : Held(s)' = offers[s]
    BY <1>2, <1>3 DEF MatchOK
  <2>2. Fixed' = Fixed
    BY <1>1 DEF Fixed
  <2> QED BY <1>1, <2>1, <2>2, OffersStay DEF MatchOK
<1>7. panics' \in Nat /\ panics' # 0
  BY <1>1, <1>2
<1>8. CountsOK' /\ TakenIsFresh'
  BY <1>7 DEF CountsOK, TakenIsFresh
<1> QED BY <1>1, <1>2, <1>3, <1>4, <1>5, <1>6, <1>7, <1>8 DEF Inv

LEMMA PromoteStep == ASSUME Inv, Promote PROVE Inv'
<1>1. /\ pc = "idle" /\ pc' = pc /\ taken' = taken /\ matched' = FALSE
      /\ visits' = visits /\ arms' = arms /\ starts' = starts /\ children' = children
      /\ policy' = policy /\ stale' = stale /\ panics' = panics
  BY DEF Promote, game, iteration
<1>2. /\ visits \in Nat /\ panics \in Nat /\ (stale => panics # 0)
      /\ JointsOK /\ StampsOK /\ CountsOK
  BY DEF Inv
<1>3. /\ Layout(arms, starts)' /\ ArmsOK(arms, starts)'
      /\ children' \in Seq(Joint)
      /\ \A i \in DOMAIN children' : Names(arms, starts, children[i])'
      /\ \A i, j \in DOMAIN children' : children'[i].key = children'[j].key => i = j
      /\ \A s \in Slot : Stamped(s)' = Stamped(s)
      /\ SumsOK'
  BY <1>1, BooksUntouched
<1>4. taken = 0
  BY <1>1, <1>2 DEF JointsOK
<1>5. JointsOK'
  BY <1>1, <1>3, <1>4 DEF JointsOK
<1>6. StampsOK'
  <2>1. \A a \in DOMAIN arms : arms[a].epoch <= visits
    BY <1>2 DEF StampsOK
  <2>2. ~stale => \A s \in Slot : Stamped(s)' = {}
    BY <1>1, <1>2, <1>3 DEF StampsOK
  <2> QED BY <1>1, <2>1, <2>2 DEF StampsOK
<1>7. MatchOK'
  <2>1. \A s \in Slot : offers'[s] \subseteq ChoicesOf[s]
    BY RootOffersWithin DEF Promote
  <2> QED BY <1>1, <2>1 DEF MatchOK
<1>8. CountsOK'
  BY <1>1, <1>2 DEF CountsOK
<1>9. TakenIsFresh'
  BY <1>1, <1>4 DEF TakenIsFresh
<1> QED BY <1>1, <1>2, <1>3, <1>5, <1>6, <1>7, <1>8, <1>9 DEF Inv

LEMMA StutterStep == ASSUME Inv, UNCHANGED vars PROVE Inv'
<1>1. UNCHANGED <<policy, revisit, offers, isRoot, visits, matched, arms, starts, children, pc, world,
                  slot, complete, taken, stale, panics>>
  BY DEF vars, game, node, iteration
<1>2. /\ Layout(arms, starts)' /\ ArmsOK(arms, starts)'
      /\ children' \in Seq(Joint)
      /\ \A i \in DOMAIN children' : Names(arms, starts, children[i])'
      /\ \A i, j \in DOMAIN children' : children'[i].key = children'[j].key => i = j
      /\ \A s \in Slot : Held(s)' = Held(s) /\ Stamped(s)' = Stamped(s)
      /\ SumsOK'
  BY <1>1, BooksUntouched
<1>3. JointsOK'
  BY <1>1, <1>2 DEF Inv, JointsOK
<1>4. StampsOK'
  <2>1. StampsOK
    BY DEF Inv
  <2> QED BY <1>1, <1>2, <2>1 DEF StampsOK
<1>5. MatchOK'
  <2>1. Fixed' = Fixed /\ Worlds' = Worlds
    BY <1>1 DEF Fixed, Worlds
  <2>2. MatchOK
    BY DEF Inv
  <2> QED BY <1>1, <1>2, <2>1, <2>2 DEF MatchOK
<1>6. CountsOK' /\ TakenIsFresh'
  BY <1>1 DEF Inv, CountsOK, TakenIsFresh, ArmAt
<1> QED BY <1>1, <1>2, <1>3, <1>4, <1>5, <1>6 DEF Inv

(* mark_every_arm_available.                                                *)
LEMMA StampAllStep == ASSUME Inv, StampAll PROVE Inv'
<1>1. /\ pc = "stamp" /\ pc' = "select"
      /\ arms' = [a \in DOMAIN arms |->
                    [arms[a] EXCEPT !.timesAvailable = @ + 1, !.epoch = visits]]
      /\ policy' = policy /\ revisit' = revisit /\ offers' = offers /\ isRoot' = isRoot /\ visits' = visits
      /\ matched' = matched /\ starts' = starts /\ children' = children
      /\ world' = world /\ taken' = taken /\ stale' = stale /\ panics' = panics
  BY DEF StampAll, game, iteration
<1>2. /\ visits \in Nat /\ panics \in Nat /\ (stale => panics # 0)
      /\ Layout(arms, starts) /\ ArmsOK(arms, starts)
      /\ JointsOK /\ StampsOK /\ MatchOK /\ CountsOK /\ SumsOK
  BY DEF Inv
<1>3. taken = 0
  BY <1>1, <1>2 DEF JointsOK
<1>4. /\ \A a \in DOMAIN arms : arms[a] \in Bandit
      /\ \A s \in Slot : \A a \in SlotRange(s) : a \in DOMAIN arms
  BY <1>2, LayoutFacts DEF SlotRange
<1>5. ASSUME NEW a \in DOMAIN arms
      PROVE  /\ arms'[a] \in Bandit
             /\ arms'[a].choice = arms[a].choice
             /\ arms'[a].epoch = visits
             /\ arms'[a].timesAvailable = arms[a].timesAvailable + 1
             /\ arms'[a].visits = arms[a].visits
             /\ arms'[a].weighed = arms[a].weighed
             /\ arms'[a].charged = arms[a].charged
  <2> DEFINE arm == arms[a]
             n   == arm.timesAvailable + 1
             new == arms'[a]
  <2>1. arm \in Bandit
    BY <1>4
  <2>2. new = [arm EXCEPT !.timesAvailable = n, !.epoch = visits]
    BY <1>1
  <2> HIDE DEF arm, new
  <2>3. n \in Nat
    BY <2>1 DEF Bandit
  <2> HIDE DEF n
  <2>4. /\ new \in Bandit /\ new.choice = arm.choice /\ new.epoch = visits
        /\ new.timesAvailable = n
        /\ new.visits = arm.visits /\ new.weighed = arm.weighed /\ new.charged = arm.charged
    BY <1>2, <2>1, <2>2, <2>3 DEF Bandit
  <2> QED BY <2>4 DEF arm, new, n
<1>6. Rewritten(arms, arms') /\ DOMAIN arms' = DOMAIN arms
  BY <1>1, <1>5 DEF Rewritten
<1>7. /\ Layout(arms', starts) /\ ArmsOK(arms', starts)
      /\ \A child : Names(arms, starts, child) => Names(arms', starts, child)
  BY <1>2, <1>6, RewrittenArms
<1>0. starts' = starts /\ children' = children /\ taken' = 0
  BY <1>1, <1>3
<1>8. /\ Layout(arms, starts)' /\ ArmsOK(arms, starts)'
  BY <1>0, <1>7 DEF Layout, ArmsOK
<1>9. JointsOK'
  <2>1. \A i \in DOMAIN children : Names(arms', starts, children[i])
    BY <1>2, <1>7 DEF JointsOK
  <2>2. \A i \in DOMAIN children' : Names(arms, starts, children[i])'
    BY <1>0, <2>1 DEF Names
  <2> QED BY <1>0, <1>2, <2>2 DEF JointsOK
<1>10. ASSUME NEW s \in Slot PROVE Held(s)' = Held(s) /\ Stamped(s)' = Held(s)
  <2>1. SlotRange(s)' = SlotRange(s)
    BY <1>1 DEF SlotRange
  <2>2. Legal(s)' = SlotRange(s)
    BY <1>1, <1>4, <1>5, <2>1 DEF Legal
  <2> QED BY <1>4, <1>5, <2>1, <2>2 DEF Held, Stamped
<1>11. matched /\ Fixed /\ world = offers /\ \A s \in Slot : Held(s) = offers[s]
  BY <1>1, <1>2, OfferFacts DEF MatchOK
<1>12. StampsOK'
  <2>1. \A a \in DOMAIN arms' : arms'[a].epoch <= visits
    BY <1>2, <1>5, <1>6
  <2>2. \A s \in Slot : Stamped(s)' = world[s]
    BY <1>10, <1>11
  <2> QED BY <1>1, <2>1, <2>2 DEF StampsOK
<1>13. MatchOK'
  <2>1. \A s \in Slot : Held(s)' = offers[s]
    BY <1>10, <1>11
  <2>2. Fixed' = Fixed
    BY <1>1 DEF Fixed
  <2> QED BY <1>1, <1>11, <2>1, <2>2, OffersStay DEF MatchOK
<1>14. CountsOK'
  <2> SUFFICES ASSUME panics = 0, NEW a \in DOMAIN arms
               PROVE  /\ arms'[a].visits < arms'[a].timesAvailable
                      /\ arms'[a].weighed < arms'[a].timesAvailable
                      /\ arms'[a].weighed = arms'[a].charged + 0
                      /\ arms'[a].visits <= arms'[a].timesAvailable
                      /\ arms'[a].weighed <= arms'[a].timesAvailable
    BY <1>1, <1>3, <1>6 DEF CountsOK
  <2>1. /\ arms[a].visits <= arms[a].timesAvailable
        /\ arms[a].weighed <= arms[a].timesAvailable
        /\ arms[a].weighed = arms[a].charged + 0
    BY <1>2, <1>3 DEF CountsOK
  <2>2. /\ arms[a].visits \in Nat /\ arms[a].weighed \in Nat
        /\ arms[a].timesAvailable \in Nat /\ arms[a].charged \in Nat
    BY <1>4 DEF Bandit
  <2> QED BY <1>5, <2>1, <2>2
<1>15. TakenIsFresh'
  BY <1>1, <1>3 DEF TakenIsFresh
<1>16. SumsOK'
  <2>1. \A s \in Slot : SlotRange(s)' = SlotRange(s)
    BY <1>1 DEF SlotRange
  <2>2. ASSUME NEW s \in Slot, NEW a \in SlotRange(s)
        PROVE  arms'[a].visits = Total(children, Into(children, s, arms'[a].choice))
    BY <1>2, <1>4, <1>5 DEF SumsOK
  <2> QED BY <1>1, <2>1, <2>2 DEF SumsOK
<1> QED BY <1>1, <1>2, <1>8, <1>9, <1>12, <1>13, <1>14, <1>15, <1>16 DEF Inv


(* A joint successor's arms are where its key says.                         *)
LEMMA PlayedArms ==
  ASSUME NEW arr, NEW st, NEW child, Layout(arr, st), Names(arr, st, child), NEW s \in Slot
  PROVE  /\ st[s - 1] + 1 + Arm(child.key, s) \in st[s - 1] + 1 .. st[s]
         /\ st[s - 1] + 1 + Arm(child.key, s) \in DOMAIN arr
         /\ arr[st[s - 1] + 1 + Arm(child.key, s)].choice = child.played[s]
<1> DEFINE rel == Arm(child.key, s)
           at  == st[s - 1] + 1 + rel
<1>1. st[s - 1] \in Nat /\ st[s] \in Nat
  BY LayoutFacts
<1>2. rel \in 0 .. st[s] - st[s - 1] - 1 /\ arr[at].choice = child.played[s]
  BY DEF Names
<1> HIDE DEF rel
<1>3. at \in st[s - 1] + 1 .. st[s]
  BY <1>1, <1>2
<1>4. \A a \in st[s - 1] + 1 .. st[s] : a \in DOMAIN arr
  BY LayoutFacts
<1>5. at \in DOMAIN arr
  BY <1>3, <1>4
<1> QED BY <1>2, <1>3, <1>5 DEF rel

LEMMA NamesByKey ==
  ASSUME NEW arr, NEW st, NEW child, Names(arr, st, child),
         NEW other, other.key = child.key, other.played = child.played
  PROVE  Names(arr, st, other)
BY DEF Names

LEMMA JointFacts ==
  ASSUME NEW js, js \in Seq(Joint)
  PROVE  /\ Len(js) \in Nat /\ DOMAIN js = 1..Len(js)
         /\ \A i \in DOMAIN js : js[i] \in Joint /\ js[i].visits \in Nat /\ i \in Nat /\ i # 0
         /\ \A S \in SUBSET (DOMAIN js) : Counted(js, S)
<1>1. Len(js) \in Nat /\ DOMAIN js = 1..Len(js) /\ \A i \in DOMAIN js : js[i] \in Joint
  BY LenProperties, ElementOfSeq
<1>2. \A i \in DOMAIN js : js[i].visits \in Nat
  BY <1>1 DEF Joint
<1>3. \A i \in DOMAIN js : i \in Nat /\ i # 0
  <2> DEFINE n == Len(js)
  <2>1. n \in Nat /\ DOMAIN js = 1..n
    BY <1>1
  <2> HIDE DEF n
  <2> QED BY <2>1
<1>4. IsFiniteSet(DOMAIN js)
  BY <1>1, FS_Interval
<1>5. ASSUME NEW S \in SUBSET (DOMAIN js) PROVE Counted(js, S)
  BY <1>2, <1>4, FS_Subset DEF Counted
<1> QED BY <1>1, <1>2, <1>3, <1>5

LEMMA BackUpStep == ASSUME Inv, BackUp PROVE Inv'
<1>1. /\ pc = "below" /\ pc' = "idle" /\ visits' = visits + 1 /\ stale' = FALSE /\ taken' = 0
      /\ policy' = policy /\ revisit' = revisit /\ offers' = offers /\ isRoot' = isRoot
      /\ matched' = matched /\ starts' = starts /\ panics' = panics
      /\ arms' = IF taken = 0 THEN arms ELSE Credited(children[taken].key)
      /\ children' = IF taken = 0 THEN children ELSE [children EXCEPT ![taken].visits = @ + 1]
  BY DEF BackUp, game
<1>2. /\ visits \in Nat /\ panics \in Nat
      /\ Layout(arms, starts) /\ ArmsOK(arms, starts)
      /\ JointsOK /\ StampsOK /\ MatchOK /\ CountsOK /\ TakenIsFresh /\ SumsOK
  BY DEF Inv
<1>3. /\ \A a \in DOMAIN arms : arms[a] \in Bandit
      /\ \A s \in Slot : \A a \in SlotRange(s) : a \in DOMAIN arms
  BY <1>2, LayoutFacts DEF SlotRange
<1>4. children \in Seq(Joint) /\ (taken # 0 => taken \in DOMAIN children)
  BY <1>2 DEF JointsOK
<1> DEFINE played == {ArmAt(s, Arm(children[taken].key, s)) : s \in Slot}
           hit(a)  == taken # 0 /\ a \in played
           owed(a) == taken # 0 /\ policy = "RegretMatching" /\ arms[a].epoch = visits
<1>5. ASSUME NEW a \in DOMAIN arms
      PROVE  /\ a \in DOMAIN arms'
             /\ arms'[a] \in Bandit
             /\ arms'[a].choice = arms[a].choice
             /\ arms'[a].epoch = arms[a].epoch
             /\ arms'[a].timesAvailable = arms[a].timesAvailable
             /\ arms'[a].visits = arms[a].visits + IF hit(a) THEN 1 ELSE 0
             /\ arms'[a].weighed = arms[a].weighed
             /\ arms'[a].charged = arms[a].charged + IF owed(a) THEN 1 ELSE 0
  <2> DEFINE arm == arms[a]
             new == arms'[a]
             v   == arm.visits + IF hit(a) THEN 1 ELSE 0
             c   == arm.charged + IF owed(a) THEN 1 ELSE 0
  <2>1. arm \in Bandit
    BY <1>3
  <2>2. arm.visits \in Nat /\ arm.charged \in Nat
    BY <2>1 DEF Bandit
  <2>3. v \in Nat /\ c \in Nat
    BY <2>2
  <2>4. CASE taken = 0
    BY <1>1, <2>1, <2>2, <2>4
  <2>5. CASE taken # 0
    <3>1. /\ v = (IF a \in played THEN arm.visits + 1 ELSE arm.visits)
          /\ c = (IF policy = "RegretMatching" /\ arm.epoch = visits
                  THEN arm.charged + 1 ELSE arm.charged)
      BY <2>2, <2>5
    <3>2. a \in DOMAIN arms' /\ new = [arm EXCEPT !.visits = v, !.charged = c]
      BY <1>1, <2>5, <3>1 DEF Credited
    <3> HIDE DEF arm, new, v, c
    <3>3. /\ new \in Bandit /\ new.choice = arm.choice /\ new.epoch = arm.epoch
          /\ new.timesAvailable = arm.timesAvailable /\ new.weighed = arm.weighed
          /\ new.visits = v /\ new.charged = c
      BY <2>1, <2>3, <3>2 DEF Bandit
    <3> QED BY <3>2, <3>3 DEF arm, new, v, c
  <2> QED BY <2>4, <2>5
<1>6. Rewritten(arms, arms') /\ DOMAIN arms' = DOMAIN arms
  <2>1. arms' = [a \in DOMAIN arms |-> arms'[a]]
    <3>1. CASE taken = 0
      <4>1. arms = [a \in DOMAIN arms |-> arms[a]]
        BY <1>2 DEF Layout
      <4> QED BY <1>1, <3>1, <4>1
    <3>2. CASE taken # 0
      BY <1>1, <3>2 DEF Credited
    <3> QED BY <3>1, <3>2
  <2> HIDE DEF played, hit, owed
  <2> QED BY <1>5, <2>1 DEF Rewritten
<1> HIDE DEF played, hit, owed
<1>7. /\ Layout(arms', starts) /\ ArmsOK(arms', starts)
      /\ \A child : Names(arms, starts, child) => Names(arms', starts, child)
  BY <1>2, <1>6, RewrittenArms
<1>0. starts' = starts /\ taken' = 0
  BY <1>1
<1>8. Layout(arms, starts)' /\ ArmsOK(arms, starts)'
  BY <1>0, <1>7 DEF Layout, ArmsOK
<1>9. /\ children' \in Seq(Joint) /\ DOMAIN children' = DOMAIN children
      /\ \A i \in DOMAIN children :
           /\ children'[i].key = children[i].key
           /\ children'[i].played = children[i].played
           /\ children'[i].visits = children[i].visits + IF taken # 0 /\ i = taken THEN 1 ELSE 0
  <2>1. CASE taken = 0
    BY <1>1, <1>4, <2>1, JointFacts
  <2>2. CASE taken # 0
    <3> DEFINE old == children[taken]
               n   == old.visits + 1
               new == [old EXCEPT !.visits = n]
    <3>1. old \in Joint /\ n \in Nat /\ taken \in 1..Len(children)
      BY <1>4, <2>2, JointFacts
    <3>2. children' = [children EXCEPT ![taken] = new]
      BY <1>1, <2>2
    <3> HIDE DEF n, old
    <3>3. new \in Joint /\ new.key = old.key /\ new.played = old.played /\ new.visits = n
      BY <3>1 DEF Joint
    <3> HIDE DEF new
    <3>4. /\ children' \in Seq(Joint) /\ DOMAIN children' = DOMAIN children
          /\ \A i \in DOMAIN children : children'[i] = IF i = taken THEN new ELSE children[i]
      BY <1>4, <3>1, <3>2, <3>3, ExceptSeq
    <3>5. \A i \in DOMAIN children : children[i].visits \in Nat
      BY <1>4, JointFacts
    <3> QED BY <2>2, <3>3, <3>4, <3>5 DEF n, old
  <2> QED BY <2>1, <2>2
<1>10. JointsOK'
  <2>1. ASSUME NEW i \in DOMAIN children PROVE Names(arms', starts, children'[i])
    <3>1. Names(arms', starts, children[i])
      BY <1>2, <1>7 DEF JointsOK
    <3>2. children'[i].key = children[i].key /\ children'[i].played = children[i].played
      BY <1>9
    <3> QED BY <3>1, <3>2, NamesByKey
  <2>2. \A i \in DOMAIN children' : Names(arms, starts, children[i])'
    BY <1>0, <1>9, <2>1 DEF Names
  <2>3. \A i, j \in DOMAIN children' : children'[i].key = children'[j].key => i = j
    BY <1>2, <1>9 DEF JointsOK
  <2> QED BY <1>0, <1>9, <2>2, <2>3 DEF JointsOK
<1>11. \A s \in Slot : SlotRange(s)' = SlotRange(s)
  BY <1>0 DEF SlotRange
<1>12. StampsOK'
  <2>1. ASSUME NEW a \in DOMAIN arms PROVE arms'[a].epoch <= visits' /\ arms'[a].epoch # visits'
    <3>1. arms[a].epoch <= visits /\ arms[a].epoch \in Nat
      BY <1>2, <1>3 DEF StampsOK, Bandit
    <3> QED BY <1>1, <1>2, <1>5, <3>1
  <2>2. \A s \in Slot : Stamped(s)' = {}
    BY <1>3, <1>11, <2>1 DEF Stamped, Legal
  <2> QED BY <1>1, <1>6, <2>1, <2>2 DEF StampsOK
<1>13. MatchOK'
  <2>1. \A s \in Slot : Held(s)' = Held(s)
    BY <1>3, <1>5, <1>11 DEF Held
  <2>2. matched => Fixed /\ \A s \in Slot : Held(s)' = offers[s]
    BY <1>2, <2>1 DEF MatchOK
  <2>3. Fixed' = Fixed
    BY <1>1 DEF Fixed
  <2> QED BY <1>1, <2>2, <2>3, OffersStay DEF MatchOK
<1>14. CountsOK'
  <2> SUFFICES ASSUME panics = 0, NEW a \in DOMAIN arms
               PROVE  /\ arms'[a].visits <= arms'[a].timesAvailable
                      /\ arms'[a].weighed <= arms'[a].timesAvailable
                      /\ arms'[a].weighed = arms'[a].charged + 0
    BY <1>1, <1>6 DEF CountsOK
  <2>1. /\ arms[a].visits <= arms[a].timesAvailable
        /\ arms[a].weighed <= arms[a].timesAvailable
        /\ arms[a].epoch = visits => arms[a].visits < arms[a].timesAvailable
        /\ arms[a].weighed = arms[a].charged + IF owed(a) THEN 1 ELSE 0
    BY <1>1, <1>2 DEF CountsOK, owed
  <2>2. /\ arms[a].visits \in Nat /\ arms[a].weighed \in Nat
        /\ arms[a].timesAvailable \in Nat /\ arms[a].charged \in Nat
    BY <1>3 DEF Bandit
  <2>3. hit(a) => arms[a].epoch = visits
    BY <1>2 DEF TakenIsFresh, hit, played
  <2> QED BY <1>5, <2>1, <2>2, <2>3
<1>15. TakenIsFresh'
  BY <1>0 DEF TakenIsFresh
<1>16. ASSUME NEW s \in Slot, NEW a \in SlotRange(s)
       PROVE  arms'[a].visits = Total(children', Into(children', s, arms'[a].choice))
  <2> DEFINE S == Into(children, s, arms[a].choice)
  <2>1. Into(children', s, arms'[a].choice) = S
    BY <1>3, <1>5, <1>9 DEF Into
  <2>2. S \in SUBSET (DOMAIN children) /\ S \in SUBSET (DOMAIN children')
    BY <1>9 DEF Into
  <2>3. Counted(children, S) /\ Counted(children', S)
    <3> HIDE DEF S
    <3> QED BY <1>4, <1>9, <2>2, JointFacts
  <2>4. arms[a].visits = Total(children, S) /\ arms[a].visits \in Nat /\ a \in DOMAIN arms
    BY <1>2, <1>3 DEF SumsOK, Bandit
  <2>5. hit(a) <=> taken # 0 /\ taken \in S
    <3>1. CASE taken = 0
      BY <3>1 DEF hit
    <3>2. CASE taken # 0
      <4> DEFINE child == children[taken]
      <4>1. Names(arms, starts, child) /\ taken \in DOMAIN children
        BY <1>2, <1>4, <3>2 DEF JointsOK
      <4>2. \A t \in Slot : /\ ArmAt(t, Arm(child.key, t)) \in SlotRange(t)
                            /\ arms[ArmAt(t, Arm(child.key, t))].choice = child.played[t]
        BY <1>2, <4>1, PlayedArms DEF ArmAt, SlotRange
      <4>3. a \in played <=> a = ArmAt(s, Arm(child.key, s))
        <5>1. ASSUME NEW t \in Slot, a = ArmAt(t, Arm(child.key, t)) PROVE t = s
          <6>1. a \in SlotRange(t) /\ a \in SlotRange(s)
            BY <1>2, <4>2, <5>1
          <6> QED BY <1>2, <6>1, LayoutFacts DEF SlotRange
        <5> QED BY <5>1 DEF played
      <4>4. a = ArmAt(s, Arm(child.key, s)) <=> arms[a].choice = child.played[s]
        BY <1>2, <4>2 DEF ArmsOK, SlotRange
      <4> QED BY <3>2, <4>1, <4>3, <4>4 DEF hit, Into
    <3> QED BY <3>1, <3>2
  <2> HIDE DEF S
  <2>6. CASE hit(a)
    <3> DEFINE R == S \ {taken}
    <3>1. taken # 0 /\ taken \in S /\ taken \in DOMAIN children
      BY <1>4, <2>5, <2>6
    <3>2. Total(children, S) = children[taken].visits + Total(children, R)
          /\ Total(children, R) \in Nat
      BY <2>3, <3>1, TotalWithout
    <3>3. Total(children', S) = children'[taken].visits + Total(children', R)
      BY <2>3, <3>1, TotalWithout
    <3>4. Total(children, R) = Total(children', R)
      <4>1. Alike(children, children', R)
        <5>1. ASSUME NEW i \in R PROVE children'[i].visits = children[i].visits
          <6>1. i \in DOMAIN children /\ i # taken
            BY <2>2
          <6>2. children[i].visits \in Nat
            BY <1>4, <6>1, JointFacts
          <6> QED BY <1>9, <6>1, <6>2
        <5> QED BY <5>1 DEF Alike
      <4>2. Counted(children, R)
        <5>1. R \in SUBSET (DOMAIN children)
          BY <2>2
        <5> HIDE DEF R
        <5> QED BY <1>4, <5>1, JointFacts
      <4> HIDE DEF R
      <4> QED BY <4>1, <4>2, TotalAgrees
    <3>5. children'[taken].visits = children[taken].visits + 1 /\ children[taken].visits \in Nat
      BY <1>4, <1>9, <3>1, JointFacts
    <3> DEFINE rest == Total(children, R)
    <3>6. /\ Total(children', S) = (children[taken].visits + 1) + rest
          /\ arms[a].visits = children[taken].visits + rest
          /\ rest \in Nat
      BY <2>4, <3>2, <3>3, <3>4, <3>5
    <3> HIDE DEF rest, R
    <3>7. Total(children', S) = arms[a].visits + 1
      BY <3>5, <3>6
    <3> QED BY <1>5, <2>1, <2>4, <2>6, <3>7
  <2>7. CASE ~hit(a)
    <3>1. Alike(children, children', S)
      <4>1. ASSUME NEW i \in S PROVE children'[i].visits = children[i].visits
        <5>1. i \in DOMAIN children /\ ~(taken # 0 /\ i = taken)
          BY <2>2, <2>5, <2>7
        <5>2. children[i].visits \in Nat
          BY <1>4, <5>1, JointFacts
        <5> QED BY <1>9, <5>1, <5>2
      <4> QED BY <4>1 DEF Alike
    <3>2. Total(children', S) = arms[a].visits
      BY <2>3, <2>4, <3>1, TotalAgrees
    <3> QED BY <1>5, <2>1, <2>4, <2>7, <3>2
  <2> QED BY <2>6, <2>7
<1>17. SumsOK'
  BY <1>11, <1>16 DEF SumsOK
<1>18. visits' \in Nat /\ panics' \in Nat /\ ~stale' /\ pc' = "idle"
  BY <1>1, <1>2
<1> QED BY <1>8, <1>10, <1>12, <1>13, <1>14, <1>15, <1>17, <1>18 DEF Inv


(* A successor that nothing has come to yet adds nothing.                   *)
LEMMA UnvisitedAddsNothing ==
  ASSUME NEW js, js \in Seq(Joint), NEW joint \in Joint, joint.visits = 0, NEW s \in Slot, NEW c
  PROVE  Total(Append(js, joint), Into(Append(js, joint), s, c)) = Total(js, Into(js, s, c))
<1> DEFINE ks == Append(js, joint)
           n  == Len(js) + 1
           S  == Into(js, s, c)
           S1 == Into(ks, s, c)
<1>1. /\ Len(js) \in Nat /\ DOMAIN js = 1..Len(js)
      /\ ks \in Seq(Joint) /\ DOMAIN ks = 1..n /\ Len(ks) = n
      /\ ks[n] = joint /\ \A i \in DOMAIN js : ks[i] = js[i]
  BY AppendProperties, LenProperties
<1> HIDE DEF ks
<1>2. n \in Nat /\ DOMAIN ks = DOMAIN js \cup {n} /\ n \notin DOMAIN js
  <2> DEFINE m == Len(js)
  <2>1. m \in Nat /\ n = m + 1 /\ DOMAIN js = 1..m /\ DOMAIN ks = 1..n
    BY <1>1
  <2> HIDE DEF m, n
  <2>2. n \in Nat /\ 1..n = 1..m \cup {n} /\ n \notin 1..m
    BY <2>1
  <2> QED BY <2>1, <2>2
<1> HIDE DEF n
<1>3. S \in SUBSET (DOMAIN js) /\ S1 \in SUBSET (DOMAIN ks) /\ S \in SUBSET (DOMAIN ks)
  BY <1>2 DEF Into
<1>4. S1 \ {n} = S
  BY <1>1, <1>2 DEF Into
<1>5. Alike(js, ks, S)
  BY <1>1, <1>3 DEF Alike
<1> HIDE DEF S, S1
<1>6. Counted(js, S) /\ Counted(ks, S1)
  BY <1>1, <1>3, JointFacts
<1>7. Total(ks, S) = Total(js, S)
  BY <1>5, <1>6, TotalAgrees
<1>8. Total(ks, S1) = Total(ks, S)
  <2>1. CASE n \in S1
    <3>1. Total(ks, S1) = ks[n].visits + Total(ks, S) /\ Total(ks, S) \in Nat
      BY <1>4, <1>6, <2>1, TotalWithout
    <3>2. ks[n].visits = 0
      BY <1>1
    <3> QED BY <3>1, <3>2
  <2>2. CASE n \notin S1
    <3>1. S1 = S
      BY <1>4, <2>2
    <3> QED BY <3>1
  <2> QED BY <2>1, <2>2
<1>9. Total(ks, S1) = Total(js, S)
  BY <1>7, <1>8
<1> QED BY <1>9 DEF ks, S, S1

LEMMA SelectStep == ASSUME Inv, Select PROVE Inv'
<1> DEFINE at(pick) == [s \in Slot |-> pick[s] - starts[s - 1] - 1]
<1>1. PICK pick \in [Slot -> DOMAIN arms] :
        /\ \A s \in Slot : pick[s] \in Selectable(s)
        /\ LET key   == Pack(at(pick))
               found == {i \in DOMAIN children : children[i].key = key}
               joint == [key |-> key, visits |-> 0,
                         played |-> [s \in Slot |-> arms[pick[s]].choice]]
           IN  /\ children' = IF found = {} THEN Append(children, joint) ELSE children
               /\ taken' \in IF found = {} THEN {Len(children) + 1} ELSE found
  BY DEF Select
<1>2. /\ pc = "select" /\ pc' = "below" /\ arms' = Weighed
      /\ policy' = policy /\ revisit' = revisit /\ offers' = offers /\ isRoot' = isRoot /\ visits' = visits
      /\ matched' = matched /\ starts' = starts /\ world' = world
      /\ stale' = stale /\ panics' = panics
  BY DEF Select, game
<1>0. starts' = starts /\ visits' = visits
  BY <1>2
<1>3. /\ visits \in Nat /\ panics \in Nat /\ (stale => panics # 0)
      /\ Layout(arms, starts) /\ ArmsOK(arms, starts)
      /\ JointsOK /\ StampsOK /\ MatchOK /\ CountsOK /\ SumsOK
  BY DEF Inv
<1>4. taken = 0 /\ children \in Seq(Joint)
  BY <1>2, <1>3 DEF JointsOK
<1>5. /\ \A a \in DOMAIN arms : arms[a] \in Bandit
      /\ \A s \in Slot : \A a \in SlotRange(s) : a \in DOMAIN arms
      /\ \A a \in DOMAIN arms : \E s \in Slot : a \in SlotRange(s)
  BY <1>3, LayoutFacts DEF SlotRange
<1> DEFINE key   == Pack(at(pick))
           found == {i \in DOMAIN children : children[i].key = key}
           joint == [key |-> key, visits |-> 0, played |-> [s \in Slot |-> arms[pick[s]].choice]]
<1>6. /\ children' = IF found = {} THEN Append(children, joint) ELSE children
      /\ taken' \in IF found = {} THEN {Len(children) + 1} ELSE found
  BY <1>1
<1>7. ASSUME NEW s \in Slot
      PROVE  /\ pick[s] \in SlotRange(s) /\ pick[s] \in DOMAIN arms
             /\ arms[pick[s]].epoch = visits
             /\ arms[pick[s]].choice \in Stamped(s)
             /\ pick[s] - starts[s - 1] - 1 \in 0 .. starts[s] - starts[s - 1] - 1
             /\ pick[s] - starts[s - 1] - 1 \in 0 .. KeyCapacity - 1
             /\ starts[s - 1] + 1 + (pick[s] - starts[s - 1] - 1) = pick[s]
  <2>1. pick[s] \in Legal(s)
    BY <1>1 DEF Selectable, Unvisited
  <2>2. /\ pick[s] \in SlotRange(s) /\ arms[pick[s]].epoch = visits
        /\ arms[pick[s]].choice \in Stamped(s)
    BY <2>1 DEF Legal, Stamped
  <2> DEFINE lo == starts[s - 1]
             hi == starts[s]
             a  == pick[s]
  <2>3. lo \in Nat /\ hi \in Nat /\ a \in lo + 1 .. hi /\ hi - lo <= KeyCapacity
        /\ KeyCapacity \in Nat
    BY <1>3, <2>2, LayoutFacts, WidthBound, CapacityPositive DEF SlotRange
  <2> HIDE DEF lo, hi, a
  <2>4. a - lo - 1 \in 0 .. hi - lo - 1 /\ a - lo - 1 \in 0 .. KeyCapacity - 1
        /\ lo + 1 + (a - lo - 1) = a
    BY <2>3
  <2> QED BY <1>5, <2>2, <2>4 DEF lo, hi, a
<1>8. key \in Nat /\ \A s \in Slot : Arm(key, s) = pick[s] - starts[s - 1] - 1
  <2>1. at(pick) \in [Slot -> 0 .. KeyCapacity - 1]
    BY <1>7
  <2>2. \A s \in Slot : at(pick)[s] = pick[s] - starts[s - 1] - 1
    OBVIOUS
  <2> HIDE DEF at
  <2> QED BY <2>1, <2>2, PackedArms
<1>9. key = Pack([s \in Slot |-> Arm(key, s)])
  <2>1. [s \in Slot |-> Arm(key, s)] = at(pick)
    <3> HIDE DEF key
    <3> QED BY <1>8
  <2> QED BY <2>1
<1> HIDE DEF key
<1>10. joint \in Joint /\ joint.key = key /\ joint.visits = 0
       /\ \A s \in Slot : joint.played[s] = arms[pick[s]].choice
  <2> DEFINE p == [s \in Slot |-> arms[pick[s]].choice]
  <2>1. p \in [Slot -> AnyChoice]
    BY <1>5, <1>7 DEF Bandit
  <2> HIDE DEF p
  <2>2. joint \in Joint
    BY <1>8, <2>1 DEF Joint, p
  <2> QED BY <2>2
<1> HIDE DEF joint
<1>11. Names(arms, starts, joint)
  <2>1. joint.key = Pack([s \in Slot |-> Arm(joint.key, s)])
    BY <1>9, <1>10
  <2>2. \A s \in Slot : /\ Arm(joint.key, s) \in 0 .. starts[s] - starts[s - 1] - 1
                        /\ arms[starts[s - 1] + 1 + Arm(joint.key, s)].choice = joint.played[s]
    BY <1>7, <1>8, <1>10
  <2> QED BY <2>1, <2>2 DEF Names
<1>12. /\ children' \in Seq(Joint)
       /\ \A i \in DOMAIN children' : Names(arms, starts, children'[i])
       /\ \A i, j \in DOMAIN children' : children'[i].key = children'[j].key => i = j
       /\ taken' \in DOMAIN children' /\ taken' \in Nat /\ taken' # 0
       /\ children'[taken'].key = key
       /\ \A s \in Slot : children'[taken'].played[s] = arms[pick[s]].choice
  <2>1. CASE found = {}
    <3> DEFINE n == Len(children) + 1
    <3>1. children' = Append(children, joint) /\ taken' = n
      BY <1>6, <2>1
    <3>2. /\ Len(children) \in Nat /\ DOMAIN children = 1..Len(children)
          /\ children' \in Seq(Joint) /\ DOMAIN children' = 1..n
          /\ children'[n] = joint /\ \A i \in DOMAIN children : children'[i] = children[i]
      BY <1>4, <1>10, <3>1, AppendProperties, LenProperties
    <3>3. n \in Nat /\ n # 0 /\ DOMAIN children' = DOMAIN children \cup {n}
      <4> DEFINE m == Len(children)
      <4>1. m \in Nat /\ n = m + 1 /\ DOMAIN children = 1..m /\ DOMAIN children' = 1..n
        BY <3>2
      <4> HIDE DEF m, n
      <4>2. n \in Nat /\ n # 0 /\ 1..n = 1..m \cup {n}
        BY <4>1
      <4> QED BY <4>1, <4>2
    <3> HIDE DEF n
    <3>4. \A i \in DOMAIN children : Names(arms, starts, children[i]) /\ children[i].key # key
      BY <1>3, <2>1 DEF JointsOK
    <3>5. \A i, j \in DOMAIN children : children[i].key = children[j].key => i = j
      BY <1>3 DEF JointsOK
    <3>6. \A i \in DOMAIN children' : Names(arms, starts, children'[i])
      BY <1>11, <3>2, <3>3, <3>4
    <3>7. \A i, j \in DOMAIN children' : children'[i].key = children'[j].key => i = j
      BY <1>10, <3>2, <3>3, <3>4, <3>5
    <3> QED BY <1>10, <3>1, <3>2, <3>3, <3>6, <3>7
  <2>2. CASE found # {}
    <3>1. children' = children /\ taken' \in DOMAIN children /\ children[taken'].key = key
      BY <1>6, <2>2
    <3>2. Names(arms, starts, children[taken'])
      BY <1>3, <3>1 DEF JointsOK
    <3>3. \A s \in Slot : children[taken'].played[s] = arms[pick[s]].choice
      BY <1>7, <1>8, <3>1, <3>2 DEF Names
    <3>4. taken' \in Nat /\ taken' # 0
      BY <1>4, <3>1, JointFacts
    <3> QED BY <1>3, <1>4, <3>1, <3>3, <3>4 DEF JointsOK
  <2> QED BY <2>1, <2>2
<1> DEFINE legal(a) == policy = "RegretMatching" /\ arms[a].epoch = visits
<1>13. ASSUME NEW a \in DOMAIN arms
       PROVE  /\ arms'[a] \in Bandit
              /\ arms'[a].choice = arms[a].choice
              /\ arms'[a].epoch = arms[a].epoch
              /\ arms'[a].timesAvailable = arms[a].timesAvailable
              /\ arms'[a].visits = arms[a].visits
              /\ arms'[a].weighed = arms[a].weighed + IF legal(a) THEN 1 ELSE 0
              /\ arms'[a].charged = arms[a].charged
  <2> DEFINE arm == arms[a]
             new == arms'[a]
             n   == arm.weighed + 1
  <2>1. arm \in Bandit
    BY <1>5
  <2>2. arm.weighed \in Nat /\ n \in Nat
    BY <2>1 DEF Bandit
  <2>3. a \in UNION {Legal(s) : s \in Slot} <=> arms[a].epoch = visits
    BY <1>5 DEF Legal
  <2>4. new = IF legal(a) THEN [arm EXCEPT !.weighed = n] ELSE arm
    BY <1>2, <2>3 DEF Weighed
  <2>5. CASE legal(a)
    <3> HIDE DEF arm, n, legal
    <3>1. new = [arm EXCEPT !.weighed = n]
      BY <2>4, <2>5
    <3> HIDE DEF new
    <3>2. /\ new \in Bandit /\ new.choice = arm.choice /\ new.epoch = arm.epoch
          /\ new.timesAvailable = arm.timesAvailable /\ new.visits = arm.visits
          /\ new.weighed = n /\ new.charged = arm.charged
      BY <2>1, <2>2, <3>1 DEF Bandit
    <3> QED BY <2>5, <3>2 DEF arm, new, n
  <2>6. CASE ~legal(a)
    <3> HIDE DEF legal
    <3>1. arms'[a] = arms[a]
      BY <2>4, <2>6
    <3> QED BY <2>1, <2>2, <2>6, <3>1
  <2> QED BY <2>5, <2>6
<1>14. Rewritten(arms, arms') /\ DOMAIN arms' = DOMAIN arms
  <2>1. arms' = [a \in DOMAIN arms |-> arms'[a]]
    BY <1>2 DEF Weighed
  <2> HIDE DEF legal
  <2> QED BY <1>13, <2>1 DEF Rewritten
<1> HIDE DEF legal
<1>15. /\ Layout(arms', starts) /\ ArmsOK(arms', starts)
       /\ \A child : Names(arms, starts, child) => Names(arms', starts, child)
  BY <1>3, <1>14, RewrittenArms
<1>16. Layout(arms, starts)' /\ ArmsOK(arms, starts)'
  BY <1>0, <1>15 DEF Layout, ArmsOK
<1>17. JointsOK'
  <2>1. \A i \in DOMAIN children' : Names(arms', starts, children'[i])
    BY <1>12, <1>15
  <2>2. \A i \in DOMAIN children' : Names(arms, starts, children[i])'
    BY <1>0, <2>1 DEF Names
  <2>3. \A s \in Slot : children'[taken'].played[s] \in world'[s] \/ stale'
    BY <1>2, <1>3, <1>7, <1>12 DEF StampsOK
  <2> QED BY <1>2, <1>12, <2>2, <2>3 DEF JointsOK
<1>18. \A s \in Slot : SlotRange(s)' = SlotRange(s)
  BY <1>0 DEF SlotRange
<1>19. StampsOK'
  <2>1. \A a \in DOMAIN arms' : arms'[a].epoch <= visits
    BY <1>3, <1>13, <1>14 DEF StampsOK
  <2> QED BY <1>2, <2>1 DEF StampsOK
<1>20. MatchOK'
  <2>1. \A s \in Slot : Held(s)' = Held(s)
    BY <1>5, <1>13, <1>18 DEF Held
  <2>2. matched => Fixed /\ \A s \in Slot : Held(s)' = offers[s]
    BY <1>3, <2>1 DEF MatchOK
  <2>3. Fixed' = Fixed
    BY <1>2 DEF Fixed
  <2> QED BY <1>2, <2>2, <2>3, OffersStay DEF MatchOK
<1>21. CountsOK'
  <2> SUFFICES ASSUME panics = 0, NEW a \in DOMAIN arms
               PROVE  /\ arms'[a].visits <= arms'[a].timesAvailable
                      /\ arms'[a].weighed <= arms'[a].timesAvailable
                      /\ arms'[a].epoch = visits => arms'[a].visits < arms'[a].timesAvailable
                      /\ arms'[a].weighed = arms'[a].charged
                           + IF policy = "RegretMatching" /\ arms'[a].epoch = visits THEN 1 ELSE 0
    BY <1>2, <1>12, <1>14 DEF CountsOK
  <2>1. /\ arms[a].visits <= arms[a].timesAvailable
        /\ arms[a].weighed <= arms[a].timesAvailable
        /\ arms[a].epoch = visits => /\ arms[a].visits < arms[a].timesAvailable
                                     /\ arms[a].weighed < arms[a].timesAvailable
        /\ arms[a].weighed = arms[a].charged + 0
    BY <1>2, <1>3, <1>4 DEF CountsOK
  <2>2. /\ arms[a].visits \in Nat /\ arms[a].weighed \in Nat
        /\ arms[a].timesAvailable \in Nat /\ arms[a].charged \in Nat
    BY <1>5 DEF Bandit
  <2> QED BY <1>13, <2>1, <2>2 DEF legal
<1>22. TakenIsFresh'
  <2>1. ASSUME NEW s \in Slot
        PROVE  arms'[starts[s - 1] + 1 + Arm(children'[taken'].key, s)].epoch = visits
    <3>1. starts[s - 1] + 1 + Arm(children'[taken'].key, s) = pick[s]
      BY <1>7, <1>8, <1>12
    <3> QED BY <1>7, <1>13, <3>1
  <2> QED BY <1>0, <2>1 DEF TakenIsFresh, ArmAt
<1>23. SumsOK'
  <2>1. ASSUME NEW s \in Slot, NEW a \in SlotRange(s)
        PROVE  arms'[a].visits = Total(children', Into(children', s, arms'[a].choice))
    <3>1. /\ arms'[a].visits = arms[a].visits /\ arms'[a].choice = arms[a].choice
          /\ arms[a].visits = Total(children, Into(children, s, arms[a].choice))
      BY <1>3, <1>5, <1>13 DEF SumsOK
    <3>2. CASE found = {}
      <4>1. children' = Append(children, joint)
        BY <1>6, <3>2
      <4>2. \A c : Total(children', Into(children', s, c)) = Total(children, Into(children, s, c))
        BY <1>4, <1>10, <4>1, UnvisitedAddsNothing
      <4> QED BY <3>1, <4>2
    <3>3. CASE found # {}
      <4>1. children' = children
        BY <1>6, <3>3
      <4> QED BY <3>1, <4>1
    <3> QED BY <3>2, <3>3
  <2> QED BY <1>18, <2>1 DEF SumsOK
<1>24. visits' \in Nat /\ panics' \in Nat /\ (stale' => panics' # 0) /\ pc' = "below"
  BY <1>2, <1>3
<1> QED BY <1>16, <1>17, <1>19, <1>20, <1>21, <1>22, <1>23, <1>24 DEF Inv



-----------------------------------------------------------------------------

(* Arms put in at the end of a slot.                                        *)
Grown(arr, k, new) == SubSeq(arr, 1, k) \o new \o SubSeq(arr, k + 1, Len(arr))

LEMMA Slice ==
  ASSUME NEW arr, NEW k \in Nat, NEW n \in Nat, k <= n, \A a \in k + 1 .. n : arr[a] \in Bandit
  PROVE  /\ SubSeq(arr, k + 1, n) \in Seq(Bandit)
         /\ Len(SubSeq(arr, k + 1, n)) = n - k
         /\ \A a \in 1 .. n - k : SubSeq(arr, k + 1, n)[a] = arr[k + a]
<1> DEFINE p == k + 1
           q == SubSeq(arr, p, n)
<1>0. \A a \in p..n : arr[a] \in Bandit
  BY Zenon
<1>1. p \in Int /\ n \in Int
  OBVIOUS
<1>2. p = k + 1 /\ (p <= n => (n - p) + 1 = n - k) /\ (~(p <= n) => n - k = 0)
  OBVIOUS
<1> HIDE DEF p
<1>3. /\ q \in Seq(Bandit) /\ Len(q) = (IF p <= n THEN (n - p) + 1 ELSE 0)
      /\ \A i \in 1 .. (n - p) + 1 : q[i] = arr[p + (i - 1)]
  BY <1>0, <1>1, SubSeqProperties
<1> HIDE DEF q
<1>4. ASSUME NEW a \in 1 .. n - k PROVE q[a] = arr[k + a]
  <2>1. a \in 1 .. (n - p) + 1 /\ p + (a - 1) = k + a
    BY <1>2
  <2> QED BY <1>3, <2>1
<1>5. q \in Seq(Bandit) /\ Len(q) = n - k
  BY <1>2, <1>3
<1> QED BY <1>4, <1>5 DEF p, q

LEMMA GrownArray ==
  ASSUME NEW arr \in Seq(Bandit), NEW new \in Seq(Bandit), NEW k \in Nat, k <= Len(arr)
  PROVE  /\ Grown(arr, k, new) \in Seq(Bandit)
         /\ Len(Grown(arr, k, new)) = Len(arr) + Len(new)
         /\ \A a \in 1..k : Grown(arr, k, new)[a] = arr[a]
         /\ \A j \in 1..Len(new) : Grown(arr, k, new)[k + j] = new[j]
         /\ \A a \in k + 1 .. Len(arr) : Grown(arr, k, new)[a + Len(new)] = arr[a]
<1> DEFINE n     == Len(arr)
           m     == Len(new)
           left  == SubSeq(arr, 1, k)
           right == SubSeq(arr, k + 1, n)
           both  == left \o new
           all   == both \o right
<1>0. \A a \in 1..n : arr[a] \in Bandit
  BY ElementOfSeq
<1>1. n \in Nat /\ m \in Nat /\ k \in Nat /\ k <= n
  BY LenProperties
<1> HIDE DEF n, m
<1>2. left \in Seq(Bandit) /\ Len(left) = k /\ \A a \in 1..k : left[a] = arr[a]
  <2>1. ASSUME NEW a \in 0 + 1 .. k PROVE arr[a] \in Bandit
    <3>1. a \in 1..n
      BY <1>1
    <3> QED BY <1>0, <3>1
  <2>2. 0 \in Nat /\ 0 <= k /\ 0 + 1 = 1 /\ k - 0 = k /\ \A a \in 1..k : 0 + a = a
    BY <1>1
  <2>3. /\ SubSeq(arr, 0 + 1, k) \in Seq(Bandit) /\ Len(SubSeq(arr, 0 + 1, k)) = k - 0
        /\ \A a \in 1 .. k - 0 : SubSeq(arr, 0 + 1, k)[a] = arr[0 + a]
    BY <1>1, <2>1, <2>2, Slice
  <2> QED BY <2>2, <2>3
<1>3. right \in Seq(Bandit) /\ Len(right) = n - k /\ \A a \in 1 .. n - k : right[a] = arr[k + a]
  <2>1. ASSUME NEW a \in k + 1 .. n PROVE arr[a] \in Bandit
    <3>1. a \in 1..n
      BY <1>1
    <3> QED BY <1>0, <3>1
  <2> QED BY <1>1, <2>1, Slice
<1> HIDE DEF left, right
<1>4. /\ both \in Seq(Bandit) /\ Len(both) = k + m
      /\ \A i \in 1 .. k + m : both[i] = IF i <= k THEN left[i] ELSE new[i - k]
  <2>1. /\ both \in Seq(Bandit) /\ Len(both) = Len(left) + Len(new)
        /\ \A i \in 1 .. Len(left) + Len(new) :
             both[i] = IF i <= Len(left) THEN left[i] ELSE new[i - Len(left)]
    BY <1>2, ConcatProperties
  <2> QED BY <1>2, <2>1 DEF m
<1> HIDE DEF both
<1>5. /\ all \in Seq(Bandit) /\ Len(all) = (k + m) + (n - k)
      /\ \A i \in 1 .. (k + m) + (n - k) :
           all[i] = IF i <= k + m THEN both[i] ELSE right[i - (k + m)]
  <2>1. /\ all \in Seq(Bandit) /\ Len(all) = Len(both) + Len(right)
        /\ \A i \in 1 .. Len(both) + Len(right) :
             all[i] = IF i <= Len(both) THEN both[i] ELSE right[i - Len(both)]
    BY <1>3, <1>4, ConcatProperties
  <2> QED BY <1>3, <1>4, <2>1
<1>6. Grown(arr, k, new) = all
  BY DEF Grown, all, both, left, right, n
<1> HIDE DEF all
<1>7. (k + m) + (n - k) = n + m
  BY <1>1
<1>8. ASSUME NEW a \in 1..k PROVE all[a] = arr[a]
  <2>1. a \in 1 .. (k + m) + (n - k) /\ a <= k + m /\ a \in 1 .. k + m /\ a <= k
    BY <1>1
  <2> QED BY <1>2, <1>4, <1>5, <2>1
<1>9. ASSUME NEW j \in 1..m PROVE all[k + j] = new[j]
  <2>1. /\ k + j \in 1 .. (k + m) + (n - k) /\ k + j <= k + m /\ k + j \in 1 .. k + m
        /\ ~(k + j <= k) /\ (k + j) - k = j
    BY <1>1
  <2> QED BY <1>4, <1>5, <2>1
<1>10. ASSUME NEW a \in k + 1 .. n PROVE all[a + m] = arr[a]
  <2>1. /\ a + m \in 1 .. (k + m) + (n - k) /\ ~(a + m <= k + m)
        /\ (a + m) - (k + m) = a - k /\ a - k \in 1 .. n - k /\ k + (a - k) = a
    BY <1>1
  <2>2. all[a + m] = right[(a + m) - (k + m)]
    <3> DEFINE i == a + m
    <3>1. i \in 1 .. (k + m) + (n - k) /\ ~(i <= k + m)
      BY <2>1
    <3> HIDE DEF i
    <3>2. all[i] = right[i - (k + m)]
      BY <1>5, <3>1
    <3> QED BY <3>2 DEF i
  <2>3. right[a - k] = arr[k + (a - k)]
    BY <1>3, <2>1
  <2> QED BY <2>1, <2>2, <2>3
<1> QED BY <1>5, <1>6, <1>7, <1>8, <1>9, <1>10 DEF n, m

(* grow_slot, with where each arm goes.                                     *)
Later(st, u, m) == [t \in 0..Arity |-> IF t >= u THEN st[t] + m ELSE st[t]]

Off(u, m, s) == IF s > u THEN m ELSE 0

Spliced(arr, st, bs, ut, u, new) ==
  /\ \A s \in Slot : /\ ut[s - 1] = st[s - 1] + Off(u, Len(new), s)
                     /\ st[s] + Off(u, Len(new), s) <= ut[s]
                     /\ ut[s - 1] \in Nat /\ ut[s] \in Nat /\ Off(u, Len(new), s) \in Nat
  /\ \A s \in Slot : \A a \in st[s - 1] + 1 .. st[s] :
       /\ a + Off(u, Len(new), s) \in ut[s - 1] + 1 .. ut[s]
       /\ bs[a + Off(u, Len(new), s)] = arr[a]
  /\ \A j \in DOMAIN new : st[u] + j \in ut[u - 1] + 1 .. ut[u] /\ bs[st[u] + j] = new[j]
  /\ \A s \in Slot : \A b \in ut[s - 1] + 1 .. ut[s] :
       \/ \E a \in st[s - 1] + 1 .. st[s] : b = a + Off(u, Len(new), s)
       \/ s = u /\ \E j \in DOMAIN new : b = st[u] + j

LEMMA GrownSlots ==
  ASSUME NEW arr, NEW st, Layout(arr, st), NEW u \in Slot, NEW new \in Seq(Bandit)
  PROVE  /\ Layout(Grown(arr, st[u], new), Later(st, u, Len(new)))
         /\ Spliced(arr, st, Grown(arr, st[u], new), Later(st, u, Len(new)), u, new)
<1> DEFINE m  == Len(new)
           n  == Len(arr)
           k  == st[u]
           bs == Grown(arr, k, new)
           ut == Later(st, u, m)
<1>1. /\ arr \in Seq(Bandit) /\ n \in Nat /\ m \in Nat /\ DOMAIN new = 1..m
      /\ k \in Nat /\ k <= n /\ st[0] = 0 /\ st[Arity] = n
      /\ u \in Nat /\ u # 0 /\ u <= Arity /\ Arity \in Nat
  <2>1. u \in Nat /\ u # 0 /\ u <= Arity /\ Arity \in Nat
    BY Slots
  <2>2. m \in Nat /\ DOMAIN new = 1..m
    BY LenProperties
  <2>3. n \in Nat /\ k \in Nat /\ k <= n
    BY LayoutFacts
  <2>4. arr \in Seq(Bandit) /\ st[0] = 0 /\ st[Arity] = n
    BY DEF Layout
  <2> HIDE DEF m, n, k
  <2> QED BY <2>1, <2>2, <2>3, <2>4
<1>2. ASSUME NEW t \in 0..Arity PROVE st[t] \in Nat
  BY DEF Layout
<1>3. \A s, t \in 0..Arity : s <= t => st[s] <= st[t]
  BY DEF Layout
<1> HIDE DEF m, n, k
<1>4. /\ bs \in Seq(Bandit) /\ Len(bs) = n + m
      /\ \A a \in 1..k : bs[a] = arr[a]
      /\ \A j \in 1..m : bs[k + j] = new[j]
      /\ \A a \in k + 1 .. n : bs[a + m] = arr[a]
  <2>1. arr \in Seq(Bandit) /\ new \in Seq(Bandit) /\ k \in Nat /\ k <= Len(arr)
    BY <1>1 DEF n
  <2> HIDE DEF bs
  <2>2. /\ bs \in Seq(Bandit) /\ Len(bs) = Len(arr) + Len(new)
        /\ \A a \in 1..k : bs[a] = arr[a]
        /\ \A j \in 1..Len(new) : bs[k + j] = new[j]
        /\ \A a \in k + 1 .. Len(arr) : bs[a + Len(new)] = arr[a]
    BY <2>1, GrownArray DEF bs
  <2> QED BY <2>2 DEF n, m
<1> HIDE DEF bs
<1>5. \A t \in 0..Arity : ut[t] = IF t >= u THEN st[t] + m ELSE st[t]
  BY DEF Later
<1>6. ut \in [0..Arity -> Nat]
  BY <1>1, <1>2 DEF Later
<1> HIDE DEF ut
<1>7. Layout(bs, ut)
  <2>1. 0 \in 0..Arity /\ Arity \in 0..Arity /\ ~(0 >= u) /\ Arity >= u
    BY <1>1
  <2>2. ut[0] = 0 /\ ut[Arity] = Len(bs)
    BY <1>1, <1>4, <1>5, <2>1
  <2>3. ASSUME NEW s \in 0..Arity, NEW t \in 0..Arity, s <= t PROVE ut[s] <= ut[t]
    <3> DEFINE lo == st[s]
               hi == st[t]
    <3>1. lo \in Nat /\ hi \in Nat /\ lo <= hi
      BY <1>2, <1>3, <2>3
    <3>2. s \in Nat /\ t \in Nat
      BY <1>1
    <3>3. /\ ut[s] = IF s >= u THEN lo + m ELSE lo
          /\ ut[t] = IF t >= u THEN hi + m ELSE hi
      BY <1>5, <2>3
    <3> HIDE DEF lo, hi
    <3>4. s >= u => t >= u
      BY <1>1, <2>3, <3>2
    <3> QED BY <1>1, <3>1, <3>3, <3>4
  <2> QED BY <1>4, <1>6, <2>2, <2>3 DEF Layout
<1>8. ASSUME NEW s \in Slot
      PROVE  /\ ut[s - 1] = st[s - 1] + Off(u, m, s)
             /\ ut[s] = st[s] + Off(u, m, s) + IF s = u THEN m ELSE 0
             /\ Off(u, m, s) \in Nat /\ ut[s - 1] \in Nat /\ ut[s] \in Nat
             /\ st[s - 1] \in Nat /\ st[s] \in Nat
             /\ s < u => st[s] <= k
             /\ s > u => k <= st[s - 1]
             /\ st[s] <= n
  <2>1. s \in 0..Arity /\ s - 1 \in 0..Arity /\ s \in Nat /\ u \in 0..Arity /\ Arity \in 0..Arity
        /\ s <= Arity
    BY Slots
  <2>2. st[s - 1] \in Nat /\ st[s] \in Nat
    BY <1>2, <2>1
  <2>3. s < u => st[s] <= k
    BY <1>1, <1>3, <2>1 DEF k
  <2>4. s > u => k <= st[s - 1]
    <3>1. s > u => u <= s - 1
      BY <1>1, <2>1
    <3> QED BY <1>3, <2>1, <3>1 DEF k
  <2>5. ut[s - 1] = st[s - 1] + Off(u, m, s)
    <3>1. s - 1 >= u <=> s > u
      BY <1>1, <2>1
    <3> QED BY <1>1, <1>5, <2>1, <2>2, <3>1 DEF Off
  <2>6. ut[s] = st[s] + Off(u, m, s) + IF s = u THEN m ELSE 0
    BY <1>1, <1>5, <2>1, <2>2 DEF Off
  <2>7. Off(u, m, s) \in Nat
    BY <1>1 DEF Off
  <2>8. st[s] <= n
    BY <1>1, <1>3, <2>1
  <2> QED BY <1>6, <2>1, <2>2, <2>3, <2>4, <2>5, <2>6, <2>7, <2>8
<1>9. ASSUME NEW s \in Slot, NEW a \in st[s - 1] + 1 .. st[s]
      PROVE  a + Off(u, m, s) \in ut[s - 1] + 1 .. ut[s] /\ bs[a + Off(u, m, s)] = arr[a]
  <2> DEFINE lo == st[s - 1]
             hi == st[s]
             o  == Off(u, m, s)
  <2>1. /\ lo \in Nat /\ hi \in Nat /\ o \in Nat /\ a \in lo + 1 .. hi
        /\ ut[s - 1] = lo + o /\ ut[s] = hi + o + IF s = u THEN m ELSE 0
        /\ s < u => hi <= k
        /\ s > u => k <= lo
        /\ s = u => hi = k
        /\ hi <= n
        /\ s > u => o = m
        /\ ~(s > u) => o = 0
    BY <1>8 DEF Off, k
  <2>2. s \in Nat
    BY Slots
  <2> HIDE DEF lo, hi, o
  <2>3. a + o \in ut[s - 1] + 1 .. ut[s]
    BY <1>1, <2>1
  <2>4. CASE s > u
    <3>1. a \in k + 1 .. n /\ o = m
      BY <1>1, <2>1, <2>4
    <3>2. bs[a + o] = arr[a]
      BY <1>4, <3>1
    <3> QED BY <2>3, <3>2 DEF o
  <2>5. CASE ~(s > u)
    <3>1. a \in 1..k /\ a + o = a
      BY <1>1, <2>1, <2>2, <2>5
    <3>2. bs[a + o] = arr[a]
      BY <1>4, <3>1
    <3> QED BY <2>3, <3>2 DEF o
  <2> QED BY <2>4, <2>5
<1>10. ASSUME NEW j \in DOMAIN new PROVE k + j \in ut[u - 1] + 1 .. ut[u] /\ bs[k + j] = new[j]
  <2>1. ut[u - 1] = st[u - 1] + 0 /\ ut[u] = k + 0 + m /\ st[u - 1] \in Nat /\ st[u - 1] <= k
    <3>1. ~(u > u)
      BY <1>1
    <3>2. st[u - 1] <= k
      BY LayoutFacts DEF k
    <3> QED BY <1>8, <3>1, <3>2 DEF Off, k
  <2>2. j \in 1..m
    BY <1>1
  <2>3. k + j \in ut[u - 1] + 1 .. ut[u]
    <3> DEFINE lo == st[u - 1]
    <3>1. lo \in Nat /\ lo <= k /\ ut[u - 1] = lo /\ ut[u] = k + m
      BY <1>1, <2>1
    <3> HIDE DEF lo
    <3> QED BY <1>1, <2>2, <3>1
  <2> QED BY <1>4, <2>2, <2>3
<1>11. ASSUME NEW s \in Slot, NEW b \in ut[s - 1] + 1 .. ut[s]
       PROVE  \/ \E a \in st[s - 1] + 1 .. st[s] : b = a + Off(u, m, s)
              \/ s = u /\ \E j \in DOMAIN new : b = k + j
  <2> DEFINE lo == st[s - 1]
             hi == st[s]
             o  == Off(u, m, s)
  <2>1. /\ lo \in Nat /\ hi \in Nat /\ o \in Nat
        /\ ut[s - 1] = lo + o /\ ut[s] = hi + o + IF s = u THEN m ELSE 0
        /\ s = u => hi = k
        /\ ~(s > u) => o = 0
    BY <1>8 DEF Off, k
  <2> HIDE DEF lo, hi, o
  <2>2. b \in Nat
    BY <1>1, <2>1
  <2>3. CASE b - o <= hi
    <3>1. b - o \in lo + 1 .. hi /\ b = (b - o) + o
      BY <1>1, <2>1, <2>2, <2>3
    <3> QED BY <3>1 DEF lo, hi, o
  <2>4. CASE ~(b - o <= hi)
    <3>1. s = u
      BY <1>1, <2>1, <2>2, <2>4
    <3>2. o = 0 /\ hi = k
      BY <1>1, <2>1, <3>1
    <3>3. b - k \in 1..m /\ b = k + (b - k)
      BY <1>1, <2>1, <2>2, <2>4, <3>1, <3>2
    <3> QED BY <1>1, <3>1, <3>3
  <2> QED BY <2>3, <2>4
<1>12. Spliced(arr, st, bs, ut, u, new)
  <2>1. \A s \in Slot : /\ ut[s - 1] = st[s - 1] + Off(u, m, s)
                        /\ st[s] + Off(u, m, s) <= ut[s]
                        /\ ut[s - 1] \in Nat /\ ut[s] \in Nat /\ Off(u, m, s) \in Nat
    <3> SUFFICES ASSUME NEW s \in Slot
                 PROVE  /\ ut[s - 1] = st[s - 1] + Off(u, m, s)
                        /\ st[s] + Off(u, m, s) <= ut[s]
                        /\ ut[s - 1] \in Nat /\ ut[s] \in Nat /\ Off(u, m, s) \in Nat
      OBVIOUS
    <3> DEFINE o  == Off(u, m, s)
               hi == st[s]
               up == ut[s]
    <3>1. /\ ut[s - 1] = st[s - 1] + o
          /\ ut[s - 1] \in Nat /\ up \in Nat /\ o \in Nat /\ hi \in Nat
          /\ up = hi + o + IF s = u THEN m ELSE 0
      BY <1>8
    <3> HIDE DEF o, hi, up
    <3>2. hi + o <= up
      BY <1>1, <3>1
    <3> QED BY <3>1, <3>2 DEF o, hi, up
  <2> QED BY <1>9, <1>10, <1>11, <2>1 DEF Spliced, m, k
<1> QED BY <1>7, <1>12 DEF bs, ut, m, k


Fits(arr, st, u, new) ==
  /\ \A j \in DOMAIN new : new[j].choice \in ChoicesOf[u]
  /\ \A j \in DOMAIN new : \A a \in st[u - 1] + 1 .. st[u] : arr[a].choice # new[j].choice
  /\ \A i, j \in DOMAIN new : new[i].choice = new[j].choice => i = j

LEMMA SplicedArms ==
  ASSUME NEW arr, NEW st, NEW brr, NEW ut, NEW u \in Slot, NEW new,
         Layout(arr, st), ArmsOK(arr, st), Spliced(arr, st, brr, ut, u, new), Fits(arr, st, u, new)
  PROVE  /\ ArmsOK(brr, ut)
         /\ \A child : Names(arr, st, child) => Names(brr, ut, child)
<1> DEFINE o(s) == Off(u, Len(new), s)
<1>1. /\ \A s \in Slot : /\ ut[s - 1] = st[s - 1] + o(s)
                         /\ st[s] + o(s) <= ut[s]
                         /\ ut[s - 1] \in Nat /\ ut[s] \in Nat /\ o(s) \in Nat
      /\ \A s \in Slot : \A a \in st[s - 1] + 1 .. st[s] :
           /\ a + o(s) \in ut[s - 1] + 1 .. ut[s]
           /\ brr[a + o(s)] = arr[a]
      /\ \A j \in DOMAIN new : brr[st[u] + j] = new[j]
      /\ \A s \in Slot : \A b \in ut[s - 1] + 1 .. ut[s] :
           \/ \E a \in st[s - 1] + 1 .. st[s] : b = a + o(s)
           \/ s = u /\ \E j \in DOMAIN new : b = st[u] + j
  BY DEF Spliced
<1> HIDE DEF o
<1>2. ASSUME NEW s \in Slot, NEW b \in ut[s - 1] + 1 .. ut[s]
      PROVE  \/ \E a \in st[s - 1] + 1 .. st[s] : b = a + o(s) /\ brr[b] = arr[a]
             \/ s = u /\ \E j \in DOMAIN new : b = st[u] + j /\ brr[b] = new[j]
  BY <1>1
<1>3. ArmsOK(brr, ut)
  <2> SUFFICES ASSUME NEW s \in Slot
               PROVE  /\ \A b \in ut[s - 1] + 1 .. ut[s] : brr[b].choice \in ChoicesOf[s]
                      /\ \A b, c \in ut[s - 1] + 1 .. ut[s] :
                           brr[b].choice = brr[c].choice => b = c
    BY DEF ArmsOK
  <2>1. /\ \A a \in st[s - 1] + 1 .. st[s] : arr[a].choice \in ChoicesOf[s]
        /\ \A a, b \in st[s - 1] + 1 .. st[s] : arr[a].choice = arr[b].choice => a = b
    BY DEF ArmsOK
  <2>2. ASSUME NEW b \in ut[s - 1] + 1 .. ut[s] PROVE brr[b].choice \in ChoicesOf[s]
    BY <1>2, <2>1 DEF Fits
  <2>3. ASSUME NEW b \in ut[s - 1] + 1 .. ut[s], NEW c \in ut[s - 1] + 1 .. ut[s],
               brr[b].choice = brr[c].choice
        PROVE  b = c
    <3> DEFINE old(x) == \E a \in st[s - 1] + 1 .. st[s] : x = a + o(s) /\ brr[x] = arr[a]
               put(x) == s = u /\ \E j \in DOMAIN new : x = st[u] + j /\ brr[x] = new[j]
    <3>1. (old(b) \/ put(b)) /\ (old(c) \/ put(c))
      BY <1>2
    <3>2. CASE old(b) /\ old(c)
      BY <2>1, <2>3, <3>2
    <3>3. CASE old(b) /\ put(c)
      BY <2>3, <3>3 DEF Fits
    <3>4. CASE put(b) /\ old(c)
      BY <2>3, <3>4 DEF Fits
    <3>5. CASE put(b) /\ put(c)
      BY <2>3, <3>5 DEF Fits
    <3> QED BY <3>1, <3>2, <3>3, <3>4, <3>5
  <2> QED BY <2>2, <2>3
<1>4. ASSUME NEW child, Names(arr, st, child) PROVE Names(brr, ut, child)
  <2>1. ASSUME NEW s \in Slot
        PROVE  /\ Arm(child.key, s) \in 0 .. ut[s] - ut[s - 1] - 1
               /\ brr[ut[s - 1] + 1 + Arm(child.key, s)].choice = child.played[s]
    <3> DEFINE rel == Arm(child.key, s)
               lo  == st[s - 1]
               hi  == st[s]
               off == o(s)
    <3>1. rel \in 0 .. hi - lo - 1 /\ arr[lo + 1 + rel].choice = child.played[s]
      BY <1>4 DEF Names
    <3>2. lo \in Nat /\ hi \in Nat /\ off \in Nat /\ ut[s] \in Nat
          /\ ut[s - 1] = lo + off /\ hi + off <= ut[s]
      BY <1>1, LayoutFacts
    <3> HIDE DEF rel, lo, hi, off
    <3>3. /\ rel \in 0 .. ut[s] - ut[s - 1] - 1
          /\ lo + 1 + rel \in lo + 1 .. hi
          /\ ut[s - 1] + 1 + rel = (lo + 1 + rel) + off
      BY <3>1, <3>2
    <3>4. brr[(lo + 1 + rel) + off] = arr[lo + 1 + rel]
      BY <1>1, <3>3 DEF lo, hi, off
    <3> QED BY <3>1, <3>3, <3>4 DEF rel
  <2>2. child.key = Pack([s \in Slot |-> Arm(child.key, s)])
    BY <1>4 DEF Names
  <2> QED BY <2>1, <2>2 DEF Names
<1> QED BY <1>3, <1>4

LEMMA OrderIsSequence ==
  ASSUME NEW S, IsFiniteSet(S), NEW order \in SetToSeqs(S)
  PROVE  /\ order \in Seq(S) /\ Len(order) = Cardinality(S) /\ DOMAIN order = 1..Len(order)
         /\ \A i \in DOMAIN order : order[i] \in S
         /\ \A i, j \in DOMAIN order : order[i] = order[j] => i = j
         /\ \A c \in S : \E i \in DOMAIN order : order[i] = c
<1> DEFINE n == Cardinality(S)
<1>1. n \in Nat
  BY FS_CardinalityType
<1>2. order \in [1..n -> S] /\ \A i, j \in 1..n : i # j => order[i] # order[j]
  BY DEF SetToSeqs
<1> HIDE DEF n
<1>3. order \in Seq(S) /\ Len(order) = n
  BY <1>1, <1>2
<1>4. \A c \in S : \E i \in 1..n : order[i] = c
  <2>1. order \in Injection(1..n, S)
    BY <1>2 DEF Injection, IsInjective
  <2>2. IsFiniteSet(1..n) /\ Cardinality(1..n) = n
    BY <1>1, FS_Interval
  <2>3. order \in Surjection(1..n, S)
    BY <2>1, <2>2, FS_Injection DEF n
  <2> QED BY <2>3 DEF Surjection
<1> QED BY <1>2, <1>3, <1>4 DEF n


(* expand_marginals and grow_slot.                                          *)
NewArm(c) ==
  [choice |-> c, timesAvailable |-> 1, epoch |-> visits, visits |-> 0, weighed |-> 0, charged |-> 0]

LEMMA ExpandSlotStep == ASSUME Inv, ExpandSlot PROVE Inv'
<1> DEFINE held   == SlotRange(slot)
           hit    == {a \in held : arms[a].choice \in world[slot] /\ arms[a].epoch # visits}
           unseen == world[slot] \ {arms[a].choice : a \in held}
           marked == [a \in DOMAIN arms |->
                        IF a \in hit
                        THEN [arms[a] EXCEPT !.timesAvailable = @ + 1, !.epoch = visits]
                        ELSE arms[a]]
           legal  == Cardinality(hit) + Cardinality(unseen)
           whole  == complete /\ legal = Cardinality(held) + Cardinality(unseen)
           made(order) == [i \in DOMAIN order |-> NewArm(order[i])]
<1>1. PICK order \in SetToSeqs(unseen) :
        arms' = SubSeq(marked, 1, starts[slot])
                  \o [i \in DOMAIN order |->
                        [choice |-> order[i], timesAvailable |-> 1, epoch |-> visits,
                         visits |-> 0, weighed |-> 0, charged |-> 0]]
                  \o SubSeq(marked, starts[slot] + 1, Len(marked))
  BY DEF ExpandSlot
<1> DEFINE new == made(order)
<1>2. arms' = Grown(marked, starts[slot], new)
  <2> HIDE DEF marked
  <2> QED BY <1>1 DEF Grown, NewArm
<1>3. /\ pc = "expand"
      /\ starts' = Shifted(slot, Cardinality(unseen))
      /\ complete' = whole
      /\ slot' = (IF legal > 0 /\ slot < Arity THEN slot + 1 ELSE slot)
      /\ pc' = (IF legal = 0 THEN "below" ELSE IF slot < Arity THEN "expand" ELSE "select")
      /\ matched' = (IF legal = 0 THEN FALSE
                     ELSE IF slot = Arity THEN Matched(whole) ELSE matched)
      /\ policy' = policy /\ revisit' = revisit /\ offers' = offers /\ isRoot' = isRoot /\ visits' = visits
      /\ children' = children /\ world' = world /\ taken' = taken
      /\ stale' = stale /\ panics' = panics
  BY DEF ExpandSlot, game
<1> HIDE DEF whole, legal, unseen, marked, hit, held, made
<1>4. /\ visits \in Nat /\ panics \in Nat /\ (stale => panics # 0)
      /\ Layout(arms, starts) /\ ArmsOK(arms, starts)
      /\ JointsOK /\ StampsOK /\ MatchOK /\ CountsOK /\ SumsOK
  BY DEF Inv
<1>5. /\ taken = 0 /\ children \in Seq(Joint)
      /\ slot \in Slot /\ matched # TRUE /\ world \in Worlds
      /\ \A s \in Slot : world[s] \subseteq ChoicesOf[s]
      /\ Fixed => world = offers
  BY <1>3, <1>4, OfferFacts DEF JointsOK, MatchOK
<1>6. /\ \A a \in DOMAIN arms : arms[a] \in Bandit
      /\ \A s \in Slot : \A a \in SlotRange(s) : a \in DOMAIN arms
      /\ \A a \in DOMAIN arms : \E s \in Slot : a \in SlotRange(s)
      /\ \A s, t \in Slot : \A a \in SlotRange(s) : a \in SlotRange(t) => s = t
      /\ starts[slot] \in Nat /\ starts[slot - 1] \in Nat /\ starts[slot] <= Len(arms)
  BY <1>4, <1>5, LayoutFacts DEF SlotRange
<1>7. /\ IsFiniteSet(unseen) /\ Cardinality(unseen) \in Nat
      /\ unseen \subseteq ChoicesOf[slot] /\ unseen \subseteq world[slot]
      /\ \A c \in unseen : c \in AnyChoice /\ \A a \in held : arms[a].choice # c
  <2>1. IsFiniteSet(ChoicesOf[slot])
    BY <1>5, SimulNodeAssumption DEF SimulNodeAssumption
  <2>2. unseen \subseteq ChoicesOf[slot] /\ unseen \subseteq world[slot]
    BY <1>5 DEF unseen
  <2>3. IsFiniteSet(unseen)
    BY <2>1, <2>2, FS_Subset
  <2> QED BY <1>5, <2>2, <2>3, FS_CardinalityType DEF unseen, AnyChoice
<1>8. /\ IsFiniteSet(held) /\ Cardinality(held) \in Nat
      /\ hit \subseteq held /\ IsFiniteSet(hit) /\ Cardinality(hit) \in Nat
      /\ Cardinality(hit) = Cardinality(held) => hit = held
  <2>1. IsFiniteSet(held)
    <3>1. starts[slot - 1] + 1 \in Int /\ starts[slot] \in Int
      BY <1>6
    <3> QED BY <3>1, FS_Interval DEF held, SlotRange
  <2>2. hit \subseteq held
    BY DEF hit
  <2> QED BY <2>1, <2>2, FS_Subset, FS_CardinalityType
<1>9. legal \in Nat
  BY <1>7, <1>8 DEF legal
<1>10. ASSUME NEW a \in DOMAIN arms
       PROVE  /\ marked[a] \in Bandit
              /\ marked[a].choice = arms[a].choice
              /\ marked[a].visits = arms[a].visits
              /\ marked[a].weighed = arms[a].weighed
              /\ marked[a].charged = arms[a].charged
              /\ a \in hit => /\ marked[a].epoch = visits
                              /\ marked[a].timesAvailable = arms[a].timesAvailable + 1
              /\ a \notin hit => marked[a] = arms[a]
  <2>1. CASE a \in hit
    <3> DEFINE arm == arms[a]
               n   == arm.timesAvailable + 1
               mar == marked[a]
    <3>1. arm \in Bandit
      BY <1>6
    <3>2. mar = [arm EXCEPT !.timesAvailable = n, !.epoch = visits]
      BY <2>1 DEF marked
    <3> HIDE DEF arm, mar
    <3>3. n \in Nat
      BY <3>1 DEF Bandit
    <3> HIDE DEF n
    <3>4. /\ mar \in Bandit /\ mar.choice = arm.choice /\ mar.epoch = visits
          /\ mar.timesAvailable = n
          /\ mar.visits = arm.visits /\ mar.weighed = arm.weighed /\ mar.charged = arm.charged
      BY <1>4, <3>1, <3>2, <3>3 DEF Bandit
    <3> QED BY <2>1, <3>4 DEF arm, mar, n
  <2>2. CASE a \notin hit
    <3>1. marked[a] = arms[a]
      BY <2>2 DEF marked
    <3> QED BY <1>6, <2>2, <3>1
  <2> QED BY <2>1, <2>2
<1>11. Rewritten(arms, marked) /\ DOMAIN marked = DOMAIN arms
  <2>1. marked = [a \in DOMAIN arms |-> marked[a]]
    BY DEF marked
  <2> QED BY <1>10, <2>1 DEF Rewritten
<1>12. /\ Layout(marked, starts) /\ ArmsOK(marked, starts)
       /\ \A child : Names(arms, starts, child) => Names(marked, starts, child)
  BY <1>4, <1>11, RewrittenArms
<1>13. /\ order \in Seq(unseen) /\ Len(order) = Cardinality(unseen)
       /\ DOMAIN order = 1..Len(order)
       /\ \A i \in DOMAIN order : order[i] \in unseen
       /\ \A i, j \in DOMAIN order : order[i] = order[j] => i = j
       /\ \A c \in unseen : \E i \in DOMAIN order : order[i] = c
  BY <1>1, <1>7, OrderIsSequence
<1>14. /\ DOMAIN new = DOMAIN order
       /\ \A j \in DOMAIN new :
            /\ new[j] \in Bandit /\ new[j].choice = order[j] /\ new[j].epoch = visits
            /\ new[j].timesAvailable = 1 /\ new[j].visits = 0
            /\ new[j].weighed = 0 /\ new[j].charged = 0
  <2>1. DOMAIN new = DOMAIN order /\ \A j \in DOMAIN order : new[j] = NewArm(order[j])
    BY DEF made
  <2>2. ASSUME NEW c \in unseen
        PROVE  /\ NewArm(c) \in Bandit /\ NewArm(c).choice = c /\ NewArm(c).epoch = visits
               /\ NewArm(c).timesAvailable = 1 /\ NewArm(c).visits = 0
               /\ NewArm(c).weighed = 0 /\ NewArm(c).charged = 0
    <3>1. c \in AnyChoice
      BY <1>7
    <3> QED BY <1>4, <3>1 DEF NewArm, Bandit
  <2> QED BY <1>13, <2>1, <2>2
<1>15. new \in Seq(Bandit) /\ Len(new) = Cardinality(unseen)
  <2> DEFINE n == Cardinality(unseen)
  <2>1. n \in Nat /\ new = [i \in 1..n |-> new[i]] /\ \A i \in 1..n : new[i] \in Bandit
    BY <1>7, <1>13, <1>14 DEF made
  <2> HIDE DEF n, new
  <2>2. new \in Seq(Bandit) /\ Len(new) = n
    BY <2>1
  <2> QED BY <2>2 DEF n
<1> HIDE DEF new
<1>16. starts' = Later(starts, slot, Len(new))
  BY <1>3, <1>15 DEF Shifted, Later
<1>17. /\ Layout(arms', starts')
       /\ Spliced(marked, starts, arms', starts', slot, new)
  BY <1>2, <1>5, <1>12, <1>15, <1>16, GrownSlots
<1>18. Fits(marked, starts, slot, new)
  <2>1. \A j \in DOMAIN new : new[j].choice \in unseen
    BY <1>13, <1>14
  <2>2. \A a \in starts[slot - 1] + 1 .. starts[slot] :
          a \in held /\ marked[a].choice = arms[a].choice
    BY <1>5, <1>6, <1>10 DEF held, SlotRange
  <2> QED BY <1>7, <1>13, <1>14, <2>1, <2>2 DEF Fits
<1>19. /\ ArmsOK(arms', starts')
       /\ \A child : Names(arms, starts, child) => Names(arms', starts', child)
  BY <1>5, <1>12, <1>17, <1>18, SplicedArms
<1> DEFINE at(s) == starts'[s - 1] + 1 .. starts'[s]
<1>a. \A s \in Slot : SlotRange(s)' = at(s)
  <2> SUFFICES ASSUME NEW s \in Slot PROVE SlotRange(s)' = at(s)
    OBVIOUS
  <2> QED BY DEF SlotRange
<1>20. /\ \A s \in Slot : \A b \in at(s) :
            \/ \E a \in SlotRange(s) : arms'[b] = marked[a]
            \/ s = slot /\ \E j \in DOMAIN new : arms'[b] = new[j]
       /\ \A s \in Slot : \A a \in SlotRange(s) : \E b \in at(s) : arms'[b] = marked[a]
       /\ \A j \in DOMAIN new : \E b \in at(slot) : arms'[b] = new[j]
       /\ \A b \in DOMAIN arms' : \E s \in Slot : b \in at(s)
  <2> DEFINE o(s) == Off(slot, Len(new), s)
  <2>2. /\ \A s \in Slot : \A a \in SlotRange(s) :
             a + o(s) \in at(s) /\ arms'[a + o(s)] = marked[a]
        /\ \A j \in DOMAIN new : starts[slot] + j \in at(slot) /\ arms'[starts[slot] + j] = new[j]
        /\ \A s \in Slot : \A b \in at(s) :
             \/ \E a \in SlotRange(s) : b = a + o(s)
             \/ s = slot /\ \E j \in DOMAIN new : b = starts[slot] + j
    BY <1>17 DEF Spliced, SlotRange
  <2>3. \A b \in DOMAIN arms' : \E s \in Slot : b \in at(s)
    BY <1>17, LayoutFacts
  <2> HIDE DEF at, o
  <2> QED BY <2>2, <2>3
<1> HIDE DEF at
<1>21. \A b \in DOMAIN arms' :
         \/ \E a \in DOMAIN arms : arms'[b] = marked[a]
         \/ \E j \in DOMAIN new : arms'[b] = new[j]
  BY <1>6, <1>20
<1>22. ASSUME NEW s \in Slot, s # slot PROVE Held(s)' = Held(s) /\ Stamped(s)' = Stamped(s)
  <2>1. \A a \in SlotRange(s) : marked[a] = arms[a]
    BY <1>5, <1>6, <1>8, <1>10, <1>22 DEF held
  <2>2. /\ \A b \in at(s) : \E a \in SlotRange(s) : arms'[b] = arms[a]
        /\ \A a \in SlotRange(s) : \E b \in at(s) : arms'[b] = arms[a]
    BY <1>20, <1>22, <2>1
  <2>3. Held(s)' = Held(s)
    <3>1. Held(s)' = {arms'[b].choice : b \in at(s)}
      BY <1>a DEF Held
    <3>2. {arms'[b].choice : b \in at(s)} = Held(s)
      BY <2>2 DEF Held
    <3> QED BY <3>1, <3>2
  <2>4. visits' = visits /\ SlotRange(s)' = at(s)
    BY <1>3, <1>a
  <2>5. Stamped(s)' = Stamped(s)
    <3>1. Stamped(s)' = {arms'[b].choice : b \in {c \in at(s) : arms'[c].epoch = visits}}
      BY <2>4 DEF Stamped, Legal
    <3>2. {arms'[b].choice : b \in {c \in at(s) : arms'[c].epoch = visits}} = Stamped(s)
      BY <2>2 DEF Stamped, Legal
    <3> QED BY <3>1, <3>2
  <2> QED BY <2>3, <2>5
<1>23. ASSUME NEW s \in Slot, s = slot PROVE Held(s)' = Held(s) \cup world[s]
  <2>0. Held(s)' = {arms'[b].choice : b \in at(s)}
    BY <1>a DEF Held
  <2>1. \A a \in SlotRange(s) : marked[a].choice = arms[a].choice
    BY <1>6, <1>10
  <2>2. Held(s)' = Held(s) \cup unseen
    <3>1. ASSUME NEW c \in Held(s)' PROVE c \in Held(s) \cup unseen
      <4>1. PICK b \in at(s) : c = arms'[b].choice
        BY <2>0
      <4> QED BY <1>13, <1>14, <1>20, <2>1, <4>1 DEF Held
    <3>2. ASSUME NEW c \in Held(s) PROVE c \in Held(s)'
      <4>1. PICK a \in SlotRange(s) : c = arms[a].choice
        BY DEF Held
      <4>2. PICK b \in at(s) : arms'[b] = marked[a]
        BY <1>20
      <4> QED BY <2>0, <2>1, <4>1, <4>2
    <3>3. ASSUME NEW c \in unseen PROVE c \in Held(s)'
      <4>1. PICK j \in DOMAIN new : new[j].choice = c
        BY <1>13, <1>14
      <4>2. PICK b \in at(s) : arms'[b] = new[j]
        BY <1>20, <1>23
      <4> QED BY <2>0, <4>1, <4>2
    <3> QED BY <3>1, <3>2, <3>3
  <2>3. unseen = world[s] \ Held(s)
    BY <1>23 DEF unseen, Held, held
  <2> QED BY <2>2, <2>3
<1>24. ASSUME ~stale, NEW s \in Slot, s = slot PROVE Stamped(s)' = world[s]
  <2>1. \A a \in held : arms[a].epoch # visits
    <3>1. Stamped(s) = {}
      <4>1. ~(s < s) /\ (s < slot <=> s < s)
        BY <1>24, Slots
      <4> QED BY <1>3, <1>4, <1>24, <4>1 DEF StampsOK
    <3> QED BY <1>24, <3>1 DEF Stamped, Legal, held
  <2>2. Stamped(s)' = {arms'[b].choice : b \in {a \in at(s) : arms'[a].epoch = visits}}
    <3>1. visits' = visits /\ SlotRange(s)' = at(s)
      BY <1>3, <1>a
    <3> QED BY <3>1 DEF Stamped, Legal
  <2>3. ASSUME NEW c \in Stamped(s)' PROVE c \in world[s]
    <3>1. PICK b \in at(s) : arms'[b].epoch = visits /\ c = arms'[b].choice
      BY <2>2
    <3>2. CASE \E a \in SlotRange(s) : arms'[b] = marked[a]
      <4>1. PICK a \in SlotRange(s) : arms'[b] = marked[a]
        BY <3>2
      <4>2. a \in hit
        BY <1>6, <1>10, <1>24, <2>1, <3>1, <4>1 DEF held
      <4>3. a \in DOMAIN arms /\ c = arms[a].choice
        BY <1>6, <1>10, <3>1, <4>1
      <4> QED BY <1>24, <4>2, <4>3 DEF hit
    <3>3. CASE \E j \in DOMAIN new : arms'[b] = new[j]
      BY <1>7, <1>13, <1>14, <1>24, <3>1, <3>3
    <3> QED BY <1>20, <3>1, <3>2, <3>3
  <2>4. ASSUME NEW c \in world[s] PROVE c \in Stamped(s)'
    <3>1. \E b \in at(s) : arms'[b].epoch = visits /\ arms'[b].choice = c
      <4>1. CASE c \in unseen
        <5>1. PICK j \in DOMAIN new : new[j].choice = c
          BY <1>13, <1>14, <4>1
        <5>2. PICK b \in at(s) : arms'[b] = new[j]
          BY <1>20, <1>24
        <5> QED BY <1>14, <5>1, <5>2
      <4>2. CASE c \notin unseen
        <5>1. PICK a \in held : arms[a].choice = c
          BY <1>24, <4>2 DEF unseen
        <5>2. a \in hit /\ a \in SlotRange(s) /\ a \in DOMAIN arms
          BY <1>6, <1>24, <2>1, <5>1 DEF hit, held
        <5>3. PICK b \in at(s) : arms'[b] = marked[a]
          BY <1>20, <5>2
        <5> QED BY <1>10, <5>1, <5>2, <5>3
      <4> QED BY <4>1, <4>2
    <3> QED BY <2>2, <3>1
  <2> QED BY <2>3, <2>4
<1>25. ASSUME whole, NEW s \in Slot, s = slot PROVE complete /\ Held(s)' = world[s]
  <2>1. complete /\ Cardinality(hit) = Cardinality(held)
    BY <1>7, <1>8, <1>25 DEF whole, legal
  <2>2. hit = held
    BY <1>8, <2>1
  <2>3. Held(s) \subseteq world[s]
    BY <1>25, <2>2 DEF hit, held, Held
  <2> QED BY <1>23, <1>25, <2>1, <2>3
<1>26. Layout(arms, starts)' /\ ArmsOK(arms, starts)'
  BY <1>17, <1>19 DEF Layout, ArmsOK
<1>27. JointsOK'
  <2>1. \A i \in DOMAIN children : Names(arms', starts', children[i])
    BY <1>4, <1>19 DEF JointsOK
  <2>2. \A i \in DOMAIN children' : Names(arms, starts, children[i])'
    BY <1>3, <2>1 DEF Names
  <2> QED BY <1>3, <1>4, <1>5, <2>2 DEF JointsOK
<1>28. ASSUME NEW b \in DOMAIN arms'
       PROVE  \/ \E a \in DOMAIN arms :
                   /\ arms'[b].epoch = arms[a].epoch /\ a \notin hit
                   /\ arms'[b].timesAvailable = arms[a].timesAvailable
                   /\ arms'[b].visits = arms[a].visits
                   /\ arms'[b].weighed = arms[a].weighed /\ arms'[b].charged = arms[a].charged
              \/ \E a \in DOMAIN arms :
                   /\ arms'[b].epoch = visits /\ a \in hit
                   /\ arms'[b].timesAvailable = arms[a].timesAvailable + 1
                   /\ arms'[b].visits = arms[a].visits
                   /\ arms'[b].weighed = arms[a].weighed /\ arms'[b].charged = arms[a].charged
              \/ /\ arms'[b].epoch = visits /\ arms'[b].timesAvailable = 1
                 /\ arms'[b].visits = 0 /\ arms'[b].weighed = 0 /\ arms'[b].charged = 0
  BY <1>10, <1>14, <1>21
<1>29. StampsOK'
  <2>1. ASSUME NEW b \in DOMAIN arms' PROVE arms'[b].epoch <= visits
    BY <1>4, <1>28 DEF StampsOK
  <2>2. ASSUME ~stale, NEW s \in Slot
        PROVE  Stamped(s)' = IF s <= slot THEN world[s] ELSE {}
    <3>1. Stamped(s) = IF s < slot THEN world[s] ELSE {}
      BY <1>3, <1>4, <2>2 DEF StampsOK
    <3>2. s \in Nat /\ slot \in Nat
      BY <1>5, Slots
    <3>3. CASE s = slot
      BY <1>24, <2>2, <3>2, <3>3
    <3>4. CASE s # slot
      <4>1. s < slot <=> s <= slot
        BY <3>2, <3>4
      <4> QED BY <1>22, <3>1, <3>4, <4>1
    <3> QED BY <3>3, <3>4
  <2>3. /\ pc' \in {"below", "expand", "select"}
        /\ pc' = "expand" => slot' = slot + 1
        /\ pc' = "select" => slot = Arity
    <3>1. slot \in Nat /\ slot <= Arity /\ Arity \in Nat
      BY <1>5, Slots
    <3> QED BY <1>3, <1>9, <3>1
  <2>4. \A s \in Slot : s <= Arity /\ (s <= slot <=> s < slot + 1)
    BY <1>5, Slots
  <2>5. world' = world /\ stale' = stale /\ visits' = visits
    BY <1>3
  <2>6. ~stale' /\ pc' = "expand" =>
          \A s \in Slot : Stamped(s)' = IF s < slot' THEN world'[s] ELSE {}
    BY <2>2, <2>3, <2>4, <2>5
  <2>7. ~stale' /\ pc' = "select" => \A s \in Slot : Stamped(s)' = world'[s]
    BY <2>2, <2>3, <2>4, <2>5
  <2> QED BY <2>1, <2>3, <2>5, <2>6, <2>7 DEF StampsOK
<1>30. MatchOK'
  <2>1. slot \in Nat /\ slot <= Arity /\ Arity \in Nat /\ Slot = 1..Arity
    BY <1>5, Slots DEF Slot
  <2>2. ASSUME whole, NEW s \in Slot, s <= slot PROVE Held(s)' = world[s]
    <3>1. complete
      BY <1>5, <1>25, <2>2
    <3>2. s \in Nat
      BY Slots
    <3>3. CASE s = slot
      BY <1>25, <2>2, <3>3
    <3>4. CASE s # slot
      <4>1. s < slot
        BY <2>1, <2>2, <3>2, <3>4
      <4>2. Held(s) = world[s]
        BY <1>3, <1>4, <3>1, <4>1 DEF MatchOK
      <4> QED BY <1>22, <3>4, <4>2
    <3> QED BY <3>3, <3>4
  <2>3. Fixed' = Fixed /\ Worlds' = Worlds /\ world' = world
    BY <1>3 DEF Fixed, Worlds
  <2>4. matched' => Fixed' /\ \A s \in Slot : Held(s)' = offers[s]
    <3> SUFFICES ASSUME matched' PROVE Fixed /\ \A s \in Slot : Held(s)' = offers[s]
      BY <2>3
    <3>1. slot = Arity /\ Matched(whole)
      <4>1. matched = FALSE
        BY <1>3, <1>4 DEF MatchOK
      <4> QED BY <1>3, <4>1
    <3>2. Fixed /\ whole /\ world = offers
      BY <1>5, <3>1 DEF Matched
    <3>3. \A s \in Slot : s <= slot
      BY <3>1, Slots
    <3> QED BY <2>2, <3>2, <3>3
  <2>5. pc' # "stamp"
    BY <1>3
  <2>6. ASSUME pc' = "expand"
        PROVE  /\ ~matched' /\ slot' \in Slot
               /\ complete' => \A s \in Slot : s < slot' => Held(s)' = world'[s]
    <3>0. legal # 0 /\ slot < Arity /\ legal > 0 /\ slot # Arity
      BY <1>3, <1>9, <2>1, <2>6
    <3>1. slot' = slot + 1 /\ slot < Arity /\ matched' = matched /\ complete' = whole
      BY <1>3, <3>0
    <3>2. slot' \in Slot
      BY <2>1, <3>1
    <3>3. \A s \in Slot : s < slot' => s <= slot
      BY <2>1, <3>1
    <3>4. ~matched
      BY <1>3, <1>4 DEF MatchOK
    <3> QED BY <2>2, <2>3, <3>1, <3>2, <3>3, <3>4
  <2>7. world' \in Worlds'
    BY <1>5, <2>3
  <2> QED BY <1>3, <2>4, <2>5, <2>6, <2>7, OffersStay DEF MatchOK
<1>31. CountsOK'
  <2> SUFFICES ASSUME panics = 0, NEW b \in DOMAIN arms'
               PROVE  /\ arms'[b].visits <= arms'[b].timesAvailable
                      /\ arms'[b].weighed <= arms'[b].timesAvailable
                      /\ arms'[b].epoch = visits =>
                           /\ arms'[b].visits < arms'[b].timesAvailable
                           /\ arms'[b].weighed < arms'[b].timesAvailable
                      /\ arms'[b].weighed = arms'[b].charged + 0
    BY <1>3, <1>5 DEF CountsOK
  <2>1. ASSUME NEW a \in DOMAIN arms
        PROVE  /\ arms[a].visits <= arms[a].timesAvailable
               /\ arms[a].weighed <= arms[a].timesAvailable
               /\ arms[a].epoch = visits => /\ arms[a].visits < arms[a].timesAvailable
                                            /\ arms[a].weighed < arms[a].timesAvailable
               /\ arms[a].weighed = arms[a].charged + 0
               /\ arms[a].visits \in Nat /\ arms[a].weighed \in Nat
               /\ arms[a].timesAvailable \in Nat /\ arms[a].charged \in Nat
    <3>1. /\ arms[a].visits \in Nat /\ arms[a].weighed \in Nat
          /\ arms[a].timesAvailable \in Nat /\ arms[a].charged \in Nat
      BY <1>6 DEF Bandit
    <3>2. /\ arms[a].visits <= arms[a].timesAvailable
          /\ arms[a].weighed <= arms[a].timesAvailable
          /\ arms[a].epoch = visits => /\ arms[a].visits < arms[a].timesAvailable
                                       /\ arms[a].weighed < arms[a].timesAvailable
          /\ arms[a].weighed = arms[a].charged + 0
      BY <1>3, <1>4, <1>5 DEF CountsOK
    <3> QED BY <3>1, <3>2
  <2>2. CASE \E a \in DOMAIN arms :
                   /\ arms'[b].epoch = arms[a].epoch
                   /\ arms'[b].timesAvailable = arms[a].timesAvailable
                   /\ arms'[b].visits = arms[a].visits
                   /\ arms'[b].weighed = arms[a].weighed /\ arms'[b].charged = arms[a].charged
    BY <2>1, <2>2
  <2>3. CASE \E a \in DOMAIN arms :
                   /\ arms'[b].timesAvailable = arms[a].timesAvailable + 1
                   /\ arms'[b].visits = arms[a].visits
                   /\ arms'[b].weighed = arms[a].weighed /\ arms'[b].charged = arms[a].charged
    <3>1. PICK a \in DOMAIN arms :
                   /\ arms'[b].timesAvailable = arms[a].timesAvailable + 1
                   /\ arms'[b].visits = arms[a].visits
                   /\ arms'[b].weighed = arms[a].weighed /\ arms'[b].charged = arms[a].charged
      BY <2>3
    <3> QED BY <2>1, <3>1
  <2>4. CASE /\ arms'[b].timesAvailable = 1
             /\ arms'[b].visits = 0 /\ arms'[b].weighed = 0 /\ arms'[b].charged = 0
    BY <2>4
  <2> QED BY <1>28, <2>2, <2>3, <2>4
<1>32. TakenIsFresh'
  BY <1>3, <1>5 DEF TakenIsFresh
<1>33. ASSUME NEW s \in Slot, NEW b \in at(s)
       PROVE  arms'[b].visits = Total(children, Into(children, s, arms'[b].choice))
  <2>1. CASE \E a \in SlotRange(s) : arms'[b] = marked[a]
    <3>1. PICK a \in SlotRange(s) : arms'[b] = marked[a]
      BY <2>1
    <3>2. arms'[b].visits = arms[a].visits /\ arms'[b].choice = arms[a].choice
      BY <1>6, <1>10, <3>1
    <3> QED BY <1>4, <3>2 DEF SumsOK
  <2>2. CASE s = slot /\ \E j \in DOMAIN new : arms'[b] = new[j]
    <3>1. PICK j \in DOMAIN new : arms'[b] = new[j]
      BY <2>2
    <3>2. arms'[b].visits = 0 /\ arms'[b].choice \in unseen
      BY <1>13, <1>14, <3>1
    <3>3. Into(children, s, arms'[b].choice) = {}
      <4>1. ASSUME NEW i \in DOMAIN children PROVE children[i].played[s] # arms'[b].choice
        <5>1. Names(arms, starts, children[i])
          BY <1>4 DEF JointsOK
        <5>2. \E a \in SlotRange(s) : arms[a].choice = children[i].played[s]
          BY <1>4, <5>1, PlayedArms DEF SlotRange
        <5> QED BY <1>7, <2>2, <3>2, <5>2 DEF held
      <4> QED BY <4>1 DEF Into
    <3> QED BY <3>2, <3>3, TotalOfNone
  <2> QED BY <1>20, <2>1, <2>2
<1>34. SumsOK'
  <2>1. children' = children
    BY <1>3
  <2> QED BY <1>a, <1>33, <2>1 DEF SumsOK
<1>35. /\ pc' \in {"below", "expand", "select"}
       /\ visits' \in Nat /\ panics' \in Nat /\ (stale' => panics' # 0)
  BY <1>3, <1>4
<1> QED BY <1>26, <1>27, <1>29, <1>30, <1>31, <1>32, <1>34, <1>35 DEF Inv



-----------------------------------------------------------------------------

(* The invariant in its own right: the array is well formed, every key is   *)
(* packed from arms of its slots, stamps are those of this iteration or of  *)
(* none until a panic, and both sets of books are kept.                     *)
THEOREM NodeInvariant == Spec => []Inv
<1>1. Inv /\ [Next]_vars => Inv'
  <2> SUFFICES ASSUME Inv, [Next]_vars PROVE Inv'
    OBVIOUS
  <2>1. CASE Arrive
    BY <2>1, ArriveStep
  <2>2. CASE StampAll
    BY <2>2, StampAllStep
  <2>3. CASE ExpandSlot
    BY <2>3, ExpandSlotStep
  <2>4. CASE Select
    BY <2>4, SelectStep
  <2>5. CASE SelectNothing
    BY <2>5, SelectNothingStep
  <2>6. CASE BackUp
    BY <2>6, BackUpStep
  <2>7. CASE Panic
    BY <2>7, PanicStep
  <2>8. CASE Promote
    BY <2>8, PromoteStep
  <2>9. CASE UNCHANGED vars
    BY <2>9, StutterStep
  <2> QED BY <2>1, <2>2, <2>3, <2>4, <2>5, <2>6, <2>7, <2>8, <2>9 DEF Next
<1> QED BY <1>1, InitHolds, PTL DEF Spec

(* A stored key goes on naming the arms it was packed from, although slots  *)
(* grow in the middle of the array after it (the radix is a constant and    *)
(* the indices are relative to a slot's start), and no joint choice has two *)
(* successors, whatever the number of players and of their choices.         *)
THEOREM KeysAlwaysNameTheirArms == Spec => []KeysNameTheirArms
<1>1. Inv => KeysNameTheirArms
  <2> SUFFICES ASSUME Inv PROVE KeysNameTheirArms
    OBVIOUS
  <2>1. Layout(arms, starts) /\ ArmsOK(arms, starts) /\ JointsOK
    BY DEF Inv
  <2>2. starts[0] = 0 /\ starts[Arity] = Len(arms)
    BY <2>1 DEF Layout
  <2>3. \A s \in Slot :
          /\ \A a \in SlotRange(s) : arms[a].choice \in ChoicesOf[s]
          /\ \A a, b \in SlotRange(s) : arms[a].choice = arms[b].choice => a = b
    BY <2>1 DEF ArmsOK, SlotRange
  <2>4. ASSUME NEW i \in DOMAIN children, NEW s \in Slot
        PROVE  /\ arms[starts[s - 1] + 1 + Arm(children[i].key, s)].choice = children[i].played[s]
               /\ starts[s - 1] + 1 + Arm(children[i].key, s) \in SlotRange(s)
    BY <2>1, PlayedArms DEF JointsOK, SlotRange
  <2>5. ASSUME NEW i \in DOMAIN children, NEW j \in DOMAIN children,
               children[i].played = children[j].played
        PROVE  i = j
    <3> DEFINE k == children[i].key
               l == children[j].key
    <3>1. ASSUME NEW s \in Slot PROVE Arm(k, s) = Arm(l, s)
      <4> DEFINE lo == starts[s - 1]
                 p  == Arm(k, s)
                 q  == Arm(l, s)
      <4>1. lo + 1 + p = lo + 1 + q
        BY <2>3, <2>4, <2>5
      <4>2. lo \in Nat /\ p \in Int /\ q \in Int
        <5>1. /\ p \in 0 .. starts[s] - starts[s - 1] - 1
              /\ q \in 0 .. starts[s] - starts[s - 1] - 1
          BY <2>1 DEF JointsOK, Names
        <5>2. starts[s] \in Nat /\ lo \in Nat
          BY <2>1, LayoutFacts
        <5> HIDE DEF p, q
        <5> QED BY <5>1, <5>2
      <4> HIDE DEF lo, p, q
      <4>3. p = q
        BY <4>1, <4>2
      <4> QED BY <4>3 DEF p, q
    <3>2. k = Pack([s \in Slot |-> Arm(k, s)]) /\ l = Pack([s \in Slot |-> Arm(l, s)])
      BY <2>1 DEF JointsOK, Names
    <3>3. [s \in Slot |-> Arm(k, s)] = [s \in Slot |-> Arm(l, s)]
      <4> HIDE DEF k, l
      <4> QED BY <3>1
    <3>4. k = l
      <4> HIDE DEF k, l
      <4> QED BY <3>2, <3>3
    <3> QED BY <2>1, <3>4 DEF JointsOK
  <2>6. taken # 0 => \A s \in Slot : children[taken].played[s] \in world[s] \/ stale
    BY <2>1 DEF JointsOK
  <2> QED BY <2>2, <2>3, <2>4, <2>5, <2>6 DEF KeysNameTheirArms
<1> QED BY <1>1, NodeInvariant, PTL

(* The arms whose stamp passes the legality test are exactly the choices    *)
(* the sampled world offers, until a panic and again once the node is next  *)
(* recorded.                                                                *)
THEOREM StampsAlwaysAreTheOffer == Spec => []StampsAreTheOffer
<1>1. Inv => StampsAreTheOffer
  BY DEF Inv, StampsOK, Stamped, StampsAreTheOffer
<1> QED BY <1>1, NodeInvariant, PTL

(* Every arm's visits are the sum of its joint successors', through every   *)
(* abandoned iteration and re-rooting.                                      *)
THEOREM ArmsAlwaysSumTheirChildren == Spec => []ArmsSumTheirChildren
<1>1. Inv => ArmsSumTheirChildren
  BY DEF Inv, SumsOK, Total, Into, ArmsSumTheirChildren
<1> QED BY <1>1, NodeInvariant, PTL

(* Regret and strategy sums cover the same iterations, each of which gave   *)
(* the arm an opportunity, as long as the game has not panicked.            *)
THEOREM CountsAlwaysAgree == Spec => []ArmCountsAgree
<1>1. Inv => ArmCountsAgree
  <2> SUFFICES ASSUME Inv, panics = 0, NEW a \in DOMAIN arms
               PROVE  /\ arms[a].visits <= arms[a].timesAvailable
                      /\ arms[a].weighed <= arms[a].timesAvailable
                      /\ pc = "idle" => arms[a].charged = arms[a].weighed
    BY DEF ArmCountsAgree
  <2>1. CountsOK /\ JointsOK /\ Layout(arms, starts)
    BY DEF Inv
  <2>2. arms[a].charged \in Nat
    BY <2>1, LayoutFacts DEF Bandit
  <2>3. pc = "idle" => taken = 0
    BY <2>1 DEF JointsOK
  <2> QED BY <2>1, <2>2, <2>3 DEF CountsOK
<1> QED BY <1>1, NodeInvariant, PTL
=============================================================================
