--------------------------- MODULE TuneRunProofs ---------------------------
(***************************************************************************)
(* Proofs about TuneRun, for every optimizer setting, every number of      *)
(* threads and of kills, every stream of draws and every run that may be   *)
(* asked for: each game counts once, so what the threads add up to is what *)
(* one after the other would have measured; so a generation depends on the *)
(* one before and on nothing else; so a run that is killed and called      *)
(* again is the run nothing interrupted.                                   *)
(***************************************************************************)
EXTENDS TuneRun, RankProofs, SequenceTheorems

-----------------------------------------------------------------------------
(* What the loops of the optimizers, of a game and of the ranking repeat:   *)
(* k is the round, acc what the rounds before have left, x what the loop    *)
(* only reads.                                                              *)
AnyStep(kind, x, acc, k) ==
  CASE kind = "spread" ->
         LET drawn == Sampled(x.base, x.scales, acc.rng)
         IN  [members |-> Append(acc.members, Repair(drawn.genes)), rng |-> drawn.rng]
    [] kind = "bred" ->
         LET child == Child(x.told, x.ranked, x.fitness, x.scales, acc.rng)
         IN  [members |-> Append(acc.members, child.genes), rng |-> child.rng]
    [] kind = "drawn" ->
         LET one == Sampled(x.mean, x.steps, acc.rng)
         IN  [members |-> Append(acc.members, one.genes), rng |-> one.rng]
    [] kind = "played" ->
         IF StatusRewards(acc.state) # NoRewards THEN acc
         ELSE [state |-> Applied(acc.state,
                           SearchChoice(acc.state, x[acc.state.player], acc.rng)),
               rng   |-> Advance(acc.rng, 1)]
    [] kind = "top" -> IF acc = 0 \/ x[k] > x[acc] THEN k ELSE acc
    [] kind = "flattened" -> acc \o x[k + 1]

IsRounds(kind, x, start, n, g) ==
  g[0] = start /\ \A k \in 1..n : g[k] = AnyStep(kind, x, g[k - 1], k)

HasRounds(kind, x, start, n) ==
  \E g : g = [k \in 0..n |-> IF k = 0 THEN start ELSE AnyStep(kind, x, g[k - 1], k)]

(* Rounds can be counted up one at a time, so that the loop has a result.   *)
LEMMA IterationExists ==
  ASSUME NEW kind, NEW x, NEW start, NEW n \in Nat
  PROVE  HasRounds(kind, x, start, n)
<1> DEFINE Has(m) == HasRounds(kind, x, start, m)
           Wrong == {m \in Nat : ~Has(m)}
<1>1. ASSUME Wrong # {} PROVE FALSE
  <2>1. PICK m \in Wrong : \A l \in Wrong : m <= l
    <3>1. Wrong \in SUBSET Nat
      OBVIOUS
    <3> HIDE DEF Wrong
    <3> QED BY <1>1, <3>1, LeastNatural
  <2>2. m \in Nat /\ ~Has(m)
    BY <2>1
  <2>3. CASE m = 0
    <3> DEFINE g == [k \in 0..0 |-> start]
    <3>1. g = [k \in 0..0 |-> IF k = 0 THEN start ELSE AnyStep(kind, x, g[k - 1], k)]
      OBVIOUS
    <3> HIDE DEF g
    <3> QED BY <2>2, <2>3, <3>1 DEF HasRounds
  <2>4. CASE m > 0
    <3>1. m - 1 \in Nat
      BY <2>2, <2>4
    <3>2. Has(m - 1)
      <4> HIDE DEF Has
      <4> QED BY <2>1, <2>2, <3>1
    <3>3. PICK g : g = [k \in 0..(m - 1) |-> IF k = 0 THEN start
                                             ELSE AnyStep(kind, x, g[k - 1], k)]
      BY <3>2 DEF HasRounds
    <3> DEFINE h == [k \in 0..m |-> IF k = m THEN AnyStep(kind, x, g[m - 1], m) ELSE g[k]]
               i == [k \in 0..m |-> IF k = 0 THEN start ELSE AnyStep(kind, x, h[k - 1], k)]
    <3>4. \A k \in 0..(m - 1) : h[k] = g[k]
      BY <2>2
    <3>5. \A k \in 0..(m - 1) :
            g[k] = IF k = 0 THEN start ELSE AnyStep(kind, x, g[k - 1], k)
      <4> DEFINE j == [k \in 0..(m - 1) |-> IF k = 0 THEN start
                                            ELSE AnyStep(kind, x, g[k - 1], k)]
      <4>1. \A k \in 0..(m - 1) : j[k] = IF k = 0 THEN start ELSE AnyStep(kind, x, g[k - 1], k)
        OBVIOUS
      <4>2. g = j
        BY <3>3
      <4> HIDE DEF j
      <4> QED BY <4>1, <4>2
    <3>6. \A k \in 0..m : h[k] = i[k]
      <4> SUFFICES ASSUME NEW k \in 0..m PROVE h[k] = i[k]
        OBVIOUS
      <4>1. h[m] = AnyStep(kind, x, g[m - 1], m)
        BY <2>2
      <4> HIDE DEF h
      <4>2. CASE k = m
        BY <2>2, <2>4, <3>1, <3>4, <4>1, <4>2
      <4>3. CASE k # m /\ k # 0
        <5>1. k \in 0..(m - 1) /\ k - 1 \in 0..(m - 1)
          BY <2>2, <4>3
        <5> QED BY <3>4, <3>5, <4>3, <5>1
      <4>4. CASE k # m /\ k = 0
        BY <3>1, <3>4, <3>5, <4>4
      <4> QED BY <4>2, <4>3, <4>4
    <3>7. h = i
      BY <3>6
    <3> HIDE DEF h
    <3> QED BY <2>2, <3>7 DEF HasRounds
  <2> QED BY <2>2, <2>3, <2>4
<1> QED BY <1>1

(* The first candidate of the highest fitness is what Top finds.            *)
FirstBest(fitness, n, t) ==
  /\ t \in 1..n
  /\ \A c \in 1..n : fitness[c] <= fitness[t] /\ (c < t => fitness[c] < fitness[t])

(* What run keeps of a generation is its first best candidate.              *)
LEMMA TopIsFirstBest ==
  ASSUME NEW n \in Nat \ {0}, NEW fitness \in [1..n -> Int]
  PROVE  FirstBest(fitness, n, Top(fitness))
<1> DEFINE From(g) == [k \in 0..n |-> IF k = 0 THEN 0
                                      ELSE IF g[k - 1] = 0 \/ fitness[k] > fitness[g[k - 1]]
                                           THEN k ELSE g[k - 1]]
           best == CHOOSE g : g = From(g)
<1>1. \E g : g = From(g)
  <2>1. HasRounds("top", fitness, 0, n)
    BY IterationExists
  <2> QED BY <2>1 DEF HasRounds, AnyStep
<1>2. Len(fitness) = n
  OBVIOUS
<1>3. Top(fitness) = best[n]
  BY <1>2 DEF Top
<1>4. best = From(best)
  <2> HIDE DEF From
  <2> QED BY <1>1
<1> HIDE DEF best
<1>5. /\ best[0] = 0
      /\ \A k \in 1..n : best[k] = IF best[k - 1] = 0 \/ fitness[k] > fitness[best[k - 1]]
                                   THEN k ELSE best[k - 1]
  <2> DEFINE j == From(best)
  <2>1. j[0] = 0 /\ \A k \in 1..n : j[k] = IF best[k - 1] = 0 \/ fitness[k] > fitness[best[k - 1]]
                                           THEN k ELSE best[k - 1]
    OBVIOUS
  <2>2. best = j
    BY <1>4
  <2> HIDE DEF j
  <2> QED BY <2>1, <2>2
<1> DEFINE Wrong == {k \in 1..n : ~FirstBest(fitness, k, best[k])}
<1>6. ASSUME Wrong # {} PROVE FALSE
  <2>1. PICK k \in Wrong : \A l \in Wrong : k <= l
    <3>1. Wrong \in SUBSET Nat
      OBVIOUS
    <3> HIDE DEF Wrong
    <3> QED BY <1>6, <3>1, LeastNatural
  <2>2. k \in 1..n /\ ~FirstBest(fitness, k, best[k])
    BY <2>1
  <2>3. best[k] = IF best[k - 1] = 0 \/ fitness[k] > fitness[best[k - 1]] THEN k ELSE best[k - 1]
    BY <1>5, <2>2
  <2>4. CASE k = 1
    BY <1>5, <2>2, <2>3, <2>4 DEF FirstBest
  <2>5. CASE k # 1
    <3>1. k - 1 \in 1..n /\ k - 1 \notin Wrong
      BY <2>1, <2>2, <2>5
    <3>2. FirstBest(fitness, k - 1, best[k - 1])
      BY <3>1
    <3> HIDE DEF Wrong
    <3> QED BY <2>2, <2>3, <2>5, <3>2 DEF FirstBest
  <2> QED BY <2>4, <2>5
<1>7. n \notin Wrong
  BY <1>6
<1> QED BY <1>3, <1>7

-----------------------------------------------------------------------------
(* A list of n, of whatever it is a list.                                   *)
IsList(s, n) == s = [i \in 1..n |-> s[i]]

(* A list is a function on 1..n and a sequence of its elements.             *)
LEMMA ListLength ==
  ASSUME NEW n \in Nat, NEW s, IsList(s, n)
  PROVE  /\ DOMAIN s = 1..n /\ Len(s) = n
         /\ s \in Seq({s[i] : i \in 1..n})
<1> DEFINE S == {s[i] : i \in 1..n}
           r == [i \in 1..n |-> s[i]]
<1>1. r \in [1..n -> S] /\ DOMAIN r = 1..n
  OBVIOUS
<1>2. s = r
  BY DEF IsList
<1> HIDE DEF S, r
<1>3. s \in [1..n -> S] /\ DOMAIN s = 1..n
  BY <1>1, <1>2
<1>4. s \in Seq(S) /\ Len(s) = n
  BY <1>3
<1> QED BY <1>3, <1>4 DEF S

(* A sequence is a list of its length.                                      *)
LEMMA ListOfSeq ==
  ASSUME NEW S, NEW s \in Seq(S)
  PROVE  IsList(s, Len(s)) /\ Len(s) \in Nat
BY DEF IsList

(* Appending makes a list of one element more.                              *)
LEMMA AppendToList ==
  ASSUME NEW n \in Nat, NEW s, IsList(s, n), NEW e
  PROVE  IsList(Append(s, e), n + 1)
<1> DEFINE S == {s[i] : i \in 1..n} \union {e}
<1>1. s \in Seq(S) /\ Len(s) = n /\ e \in S
  <2>1. s \in Seq({s[i] : i \in 1..n}) /\ Len(s) = n
    BY ListLength
  <2> QED BY <2>1
<1> HIDE DEF S
<1>2. Append(s, e) \in Seq(S) /\ Len(Append(s, e)) = n + 1
  BY <1>1
<1> QED BY <1>2, ListOfSeq

-----------------------------------------------------------------------------
(* Each round of the three loops that make genes adds a member.             *)
LEMMA MembersGrow ==
  ASSUME NEW kind \in {"spread", "bred", "drawn"}, NEW x, NEW start, NEW m \in Nat,
         NEW n \in Nat, NEW g, IsRounds(kind, x, start, n, g), IsList(start.members, m)
  PROVE  IsList(g[n].members, m + n)
<1>1. \A acc, k : \E e : AnyStep(kind, x, acc, k).members = Append(acc.members, e)
  BY DEF AnyStep
<1> DEFINE Wrong == {k \in 0..n : ~IsList(g[k].members, m + k)}
<1>2. ASSUME Wrong # {} PROVE FALSE
  <2>1. PICK k \in Wrong : \A l \in Wrong : k <= l
    <3>1. Wrong \in SUBSET Nat
      OBVIOUS
    <3> HIDE DEF Wrong
    <3> QED BY <1>2, <3>1, LeastNatural
  <2>2. k \in 0..n /\ ~IsList(g[k].members, m + k)
    BY <2>1
  <2>3. k # 0
    BY <2>2 DEF IsRounds
  <2>4. k - 1 \in 0..n /\ k - 1 \notin Wrong
    BY <2>1, <2>2, <2>3
  <2>5. IsList(g[k - 1].members, m + (k - 1)) /\ m + (k - 1) \in Nat
    BY <2>4
  <2> HIDE DEF Wrong
  <2>6. PICK e : g[k].members = Append(g[k - 1].members, e)
    <3>1. k \in 1..n
      BY <2>2, <2>3
    <3>2. g[k] = AnyStep(kind, x, g[k - 1], k)
      BY <3>1 DEF IsRounds
    <3>3. \E e : AnyStep(kind, x, g[k - 1], k).members = Append(g[k - 1].members, e)
      BY <1>1
    <3> QED BY <3>2, <3>3
  <2>7. IsList(g[k].members, m + (k - 1) + 1)
    BY <2>5, <2>6, AppendToList
  <2>8. m + (k - 1) + 1 = m + k
    BY <2>2
  <2> QED BY <2>2, <2>7, <2>8
<1>3. n \notin Wrong
  BY <1>2
<1> QED BY <1>3

(* A new population is as large as it was asked for.                        *)
LEMMA SpreadFills ==
  ASSUME NEW base, NEW size \in Nat \ {0}, NEW seed
  PROVE  IsList(GaNew(base, size, seed).population, size)
<1> DEFINE scales == GeneScales(base)
           x == [base |-> base, scales |-> scales]
           start == [members |-> <<base>>, rng |-> Generator(seed)]
           n == size - 1
           Step(acc, k) == LET drawn == Sampled(base, scales, acc.rng)
                           IN  [members |-> Append(acc.members, Repair(drawn.genes)),
                                rng     |-> drawn.rng]
           From(g) == [k \in 0..n |-> IF k = 0 THEN start
                       ELSE CHOOSE r \in {Step(before, k) : before \in {g[k - 1]}} : TRUE]
           after == CHOOSE g : g = From(g)
<1>1. GaNew(base, size, seed).population = after[n].members
  BY DEF GaNew, Iterate
<1>2. IsRounds("spread", x, start, n, after)
  <2>1. \A acc, k : AnyStep("spread", x, acc, k) = Step(acc, k)
    BY DEF AnyStep
  <2> HIDE DEF Step, start
  <2>2. \A acc, k : (CHOOSE r \in {Step(before, k) : before \in {acc}} : TRUE) = Step(acc, k)
    <3> SUFFICES ASSUME NEW acc, NEW k
                 PROVE  (CHOOSE r \in {Step(before, k) : before \in {acc}} : TRUE) = Step(acc, k)
      OBVIOUS
    <3>1. {Step(before, k) : before \in {acc}} = {Step(acc, k)}
      OBVIOUS
    <3> QED BY <3>1
  <2> DEFINE Plain(g) == [k \in 0..n |-> IF k = 0 THEN start ELSE AnyStep("spread", x, g[k - 1], k)]
  <2>3. \A g : From(g) = Plain(g)
    <3> SUFFICES ASSUME NEW g, NEW k \in 0..n PROVE From(g)[k] = Plain(g)[k]
      OBVIOUS
    <3> HIDE DEF x
    <3> QED BY <2>1, <2>2
  <2>4. \E g : g = Plain(g)
    <3>1. HasRounds("spread", x, start, n)
      BY IterationExists
    <3> QED BY <3>1 DEF HasRounds
  <2>5. after = From(after)
    <3> HIDE DEF From, Plain
    <3> QED BY <2>3, <2>4
  <2> HIDE DEF after
  <2>6. after = Plain(after)
    BY <2>3, <2>5
  <2> DEFINE j == Plain(after)
  <2>7. j[0] = start /\ \A k \in 1..n : j[k] = AnyStep("spread", x, after[k - 1], k)
    <3> HIDE DEF x
    <3> QED OBVIOUS
  <2> HIDE DEF j
  <2>8. after = j
    BY <2>6 DEF j
  <2> QED BY <2>7, <2>8 DEF IsRounds
<1>3. IsList(start.members, 1)
  BY DEF IsList
<1> HIDE DEF after, x
<1>4. IsList(after[n].members, 1 + n)
  <2> HIDE DEF start, n
  <2> QED BY <1>2, <1>3, MembersGrow DEF n
<1> QED BY <1>1, <1>4

(* Elites and children fill the next population.                            *)
LEMMA BredFills ==
  ASSUME NEW opt, NEW told, NEW fitness, opt.size \in Nat, Elites \in Nat,
         opt.size > Elites, "population" \in DOMAIN opt
  PROVE  IsList(GaTell(opt, told, fitness).population, opt.size)
<1> DEFINE ranked == Ranked(fitness)
           x == [told |-> told, ranked |-> ranked, fitness |-> fitness, scales |-> opt.scales]
           start == [members |-> [i \in 1..Elites |-> told[ranked[i]]], rng |-> opt.rng]
           n == opt.size - Elites
           Step(acc, k) == LET child == Child(told, ranked, fitness, opt.scales, acc.rng)
                           IN  [members |-> Append(acc.members, child.genes), rng |-> child.rng]
           From(g) == [k \in 0..n |-> IF k = 0 THEN start
                       ELSE CHOOSE r \in {Step(before, k) : before \in {g[k - 1]}} : TRUE]
           after == CHOOSE g : g = From(g)
<1>1. GaTell(opt, told, fitness).population = after[n].members
  BY DEF GaTell, KeepBest, Iterate
<1>2. IsRounds("bred", x, start, n, after)
  <2>1. \A acc, k : AnyStep("bred", x, acc, k) = Step(acc, k)
    BY DEF AnyStep
  <2> HIDE DEF Step, start
  <2>2. \A acc, k : (CHOOSE r \in {Step(before, k) : before \in {acc}} : TRUE) = Step(acc, k)
    <3> SUFFICES ASSUME NEW acc, NEW k
                 PROVE  (CHOOSE r \in {Step(before, k) : before \in {acc}} : TRUE) = Step(acc, k)
      OBVIOUS
    <3>1. {Step(before, k) : before \in {acc}} = {Step(acc, k)}
      OBVIOUS
    <3> QED BY <3>1
  <2> DEFINE Plain(g) == [k \in 0..n |-> IF k = 0 THEN start ELSE AnyStep("bred", x, g[k - 1], k)]
  <2>3. \A g : From(g) = Plain(g)
    <3> SUFFICES ASSUME NEW g, NEW k \in 0..n PROVE From(g)[k] = Plain(g)[k]
      OBVIOUS
    <3> HIDE DEF x
    <3> QED BY <2>1, <2>2
  <2>4. \E g : g = Plain(g)
    <3>1. HasRounds("bred", x, start, n)
      BY IterationExists
    <3> QED BY <3>1 DEF HasRounds
  <2>5. after = From(after)
    <3> HIDE DEF From, Plain
    <3> QED BY <2>3, <2>4
  <2> HIDE DEF after
  <2>6. after = Plain(after)
    BY <2>3, <2>5
  <2> DEFINE j == Plain(after)
  <2>7. j[0] = start /\ \A k \in 1..n : j[k] = AnyStep("bred", x, after[k - 1], k)
    <3> HIDE DEF x
    <3> QED OBVIOUS
  <2> HIDE DEF j
  <2>8. after = j
    BY <2>6 DEF j
  <2> QED BY <2>7, <2>8 DEF IsRounds
<1>3. IsList(start.members, Elites)
  BY DEF IsList
<1> HIDE DEF after, x
<1>4. IsList(after[n].members, Elites + n)
  <2> HIDE DEF start, n
  <2> QED BY <1>2, <1>3, MembersGrow DEF n
<1>5. Elites + n = opt.size
  OBVIOUS
<1> QED BY <1>1, <1>4, <1>5

(* CMA-ES draws as many candidates as it was asked for.                     *)
LEMMA DrawnFills ==
  ASSUME NEW opt, opt.size \in Nat
  PROVE  IsList(CmaAsk(opt).candidates, opt.size)
<1> DEFINE steps == [i \in DOMAIN opt.mean |-> opt.sigma * opt.scales[i]]
           x == [mean |-> opt.mean, steps |-> steps]
           start == [members |-> <<>>, rng |-> opt.rng]
           n == opt.size
           Step(acc, k) == LET one == Sampled(opt.mean, steps, acc.rng)
                           IN  [members |-> Append(acc.members, one.genes), rng |-> one.rng]
           From(g) == [k \in 0..n |-> IF k = 0 THEN start
                       ELSE CHOOSE r \in {Step(before, k) : before \in {g[k - 1]}} : TRUE]
           after == CHOOSE g : g = From(g)
<1>1. CmaAsk(opt).candidates = after[n].members
  BY DEF CmaAsk, Iterate
<1>2. IsRounds("drawn", x, start, n, after)
  <2>1. \A acc, k : AnyStep("drawn", x, acc, k) = Step(acc, k)
    <3> HIDE DEF steps
    <3> QED BY DEF AnyStep
  <2> HIDE DEF Step, start
  <2>2. \A acc, k : (CHOOSE r \in {Step(before, k) : before \in {acc}} : TRUE) = Step(acc, k)
    <3> SUFFICES ASSUME NEW acc, NEW k
                 PROVE  (CHOOSE r \in {Step(before, k) : before \in {acc}} : TRUE) = Step(acc, k)
      OBVIOUS
    <3>1. {Step(before, k) : before \in {acc}} = {Step(acc, k)}
      OBVIOUS
    <3> QED BY <3>1
  <2> DEFINE Plain(g) == [k \in 0..n |-> IF k = 0 THEN start ELSE AnyStep("drawn", x, g[k - 1], k)]
  <2>3. \A g : From(g) = Plain(g)
    <3> SUFFICES ASSUME NEW g, NEW k \in 0..n PROVE From(g)[k] = Plain(g)[k]
      OBVIOUS
    <3> HIDE DEF x
    <3> QED BY <2>1, <2>2
  <2>4. \E g : g = Plain(g)
    <3>1. HasRounds("drawn", x, start, n)
      BY IterationExists
    <3> QED BY <3>1 DEF HasRounds
  <2>5. after = From(after)
    <3> HIDE DEF From, Plain
    <3> QED BY <2>3, <2>4
  <2> HIDE DEF after
  <2>6. after = Plain(after)
    BY <2>3, <2>5
  <2> DEFINE j == Plain(after)
  <2>7. j[0] = start /\ \A k \in 1..n : j[k] = AnyStep("drawn", x, after[k - 1], k)
    <3> HIDE DEF x
    <3> QED OBVIOUS
  <2> HIDE DEF j
  <2>8. after = j
    BY <2>6 DEF j
  <2> QED BY <2>7, <2>8 DEF IsRounds
<1>3. IsList(start.members, 0)
  BY DEF IsList
<1> HIDE DEF after, x
<1>4. IsList(after[n].members, 0 + n)
  <2> HIDE DEF start, n
  <2> QED BY <1>2, <1>3, MembersGrow DEF n
<1>5. 0 + n = n
  OBVIOUS
<1> QED BY <1>1, <1>4, <1>5

(* Whatever the streams draw, a game pays each seat 0, 1 or 2: it is cut    *)
(* off, or it has ended.                                                    *)
LEMMA PlayPays ==
  ASSUME NEW contexts, NEW seed, MaxDecisions \in Nat
  PROVE  \A seat \in 1..2 : Play(contexts, seed)[seat] \in 0..2
<1> DEFINE opened == Generator(seed)
           x == contexts
           start == [state |-> Opening(opened), rng |-> Advance(opened, 1)]
           n == MaxDecisions
           Step(acc, k) == IF StatusRewards(acc.state) # NoRewards THEN acc
                           ELSE [state |-> Applied(acc.state,
                                   SearchChoice(acc.state, contexts[acc.state.player], acc.rng)),
                                 rng   |-> Advance(acc.rng, 1)]
           From(g) == [k \in 0..n |-> IF k = 0 THEN start
                       ELSE CHOOSE r \in {Step(before, k) : before \in {g[k - 1]}} : TRUE]
           after == CHOOSE g : g = From(g)
<1>1. Play(contexts, seed) = IF after[n].rng.drawn = 1 + MaxDecisions THEN <<Midpoint, Midpoint>>
                             ELSE StatusRewards(after[n].state)
  BY DEF Play, Iterate
<1>2. IsRounds("played", x, start, n, after)
  <2>1. \A acc, k : AnyStep("played", x, acc, k) = Step(acc, k)
    BY DEF AnyStep
  <2> HIDE DEF Step, start
  <2>2. \A acc, k : (CHOOSE r \in {Step(before, k) : before \in {acc}} : TRUE) = Step(acc, k)
    <3> SUFFICES ASSUME NEW acc, NEW k
                 PROVE  (CHOOSE r \in {Step(before, k) : before \in {acc}} : TRUE) = Step(acc, k)
      OBVIOUS
    <3>1. {Step(before, k) : before \in {acc}} = {Step(acc, k)}
      OBVIOUS
    <3> QED BY <3>1
  <2> DEFINE Plain(g) == [k \in 0..n |-> IF k = 0 THEN start ELSE AnyStep("played", x, g[k - 1], k)]
  <2>3. \A g : From(g) = Plain(g)
    <3> SUFFICES ASSUME NEW g, NEW k \in 0..n PROVE From(g)[k] = Plain(g)[k]
      OBVIOUS
    <3> HIDE DEF x
    <3> QED BY <2>1, <2>2
  <2>4. \E g : g = Plain(g)
    <3>1. HasRounds("played", x, start, n)
      BY IterationExists
    <3> QED BY <3>1 DEF HasRounds
  <2>5. after = From(after)
    <3> HIDE DEF From, Plain
    <3> QED BY <2>3, <2>4
  <2> HIDE DEF after
  <2>6. after = Plain(after)
    BY <2>3, <2>5
  <2> DEFINE j == Plain(after)
  <2>7. j[0] = start /\ \A k \in 1..n : j[k] = AnyStep("played", x, after[k - 1], k)
    <3> HIDE DEF x
    <3> QED OBVIOUS
  <2> HIDE DEF j
  <2>8. after = j
    BY <2>6 DEF j
  <2> QED BY <2>7, <2>8 DEF IsRounds
<1> HIDE DEF after
<1> DEFINE Fine(k) == \/ StatusRewards(after[k].state) # NoRewards
                      \/ "drawn" \in DOMAIN after[k].rng /\ after[k].rng.drawn = 1 + k
           Wrong == {k \in 0..n : ~Fine(k)}
<1>3. ASSUME Wrong # {} PROVE FALSE
  <2>1. PICK k \in Wrong : \A l \in Wrong : k <= l
    <3>1. Wrong \in SUBSET Nat
      OBVIOUS
    <3> HIDE DEF Wrong
    <3> QED BY <1>3, <3>1, LeastNatural
  <2>2. k \in 0..n /\ ~Fine(k)
    BY <2>1
  <2>3. k # 0
    <3>1. after[0].rng.drawn = 1 /\ "drawn" \in DOMAIN after[0].rng
      BY <1>2 DEF IsRounds, Advance, Generator
    <3> QED BY <2>2, <3>1
  <2>4. k - 1 \in 0..n /\ k - 1 \notin Wrong /\ k \in 1..n
    BY <2>1, <2>2, <2>3
  <2>5. Fine(k - 1)
    BY <2>4
  <2> HIDE DEF Wrong
  <2>6. after[k] = AnyStep("played", x, after[k - 1], k)
    BY <1>2, <2>4 DEF IsRounds
  <2>7. after[k] = Step(after[k - 1], k)
    BY <2>6 DEF AnyStep
  <2>8. CASE StatusRewards(after[k - 1].state) # NoRewards
    BY <2>2, <2>7, <2>8
  <2>9. CASE ~(StatusRewards(after[k - 1].state) # NoRewards)
    <3>1. after[k].rng = Advance(after[k - 1].rng, 1)
      BY <2>7, <2>9
    <3>2. "drawn" \in DOMAIN after[k].rng /\ after[k].rng.drawn = after[k - 1].rng.drawn + 1
      BY <2>5, <2>9, <3>1 DEF Advance
    <3>3. after[k - 1].rng.drawn = 1 + (k - 1)
      BY <2>5, <2>9
    <3>4. after[k].rng.drawn = 1 + k
      BY <2>4, <3>2, <3>3
    <3> QED BY <2>2, <3>2, <3>4
  <2> QED BY <2>8, <2>9
<1>4. Fine(n)
  BY <1>3
<1>5. CASE after[n].rng.drawn = 1 + MaxDecisions
  BY <1>1, <1>5 DEF Midpoint
<1>6. CASE after[n].rng.drawn # 1 + MaxDecisions
  <2>1. StatusRewards(after[n].state) # NoRewards
    BY <1>4, <1>6
  <2>2. \A seat \in 1..2 : StatusRewards(after[n].state)[seat] \in 0..2
    BY <2>1 DEF StatusRewards
  <2> QED BY <1>1, <1>6, <2>2
<1> QED BY <1>5, <1>6

-----------------------------------------------------------------------------
(* A list of the pairs whose lower is at most i, each once.                 *)
PairsUpTo(s, i, n) ==
  /\ s \in Seq(Nat \X Nat)
  /\ 2 * Len(s) = i * (2 * n - i - 1)
  /\ \A p \in 1..Len(s) : s[p][1] \in 1..i /\ s[p][2] \in (s[p][1] + 1)..n
  /\ \A p, q \in 1..Len(s) : s[p] = s[q] => p = q
  /\ \A l \in 1..i : \A r \in (l + 1)..n : \E p \in 1..Len(s) : s[p] = <<l, r>>

(* One candidate's pairs are appended to those of the candidates before it. *)
LEMMA RowAdded ==
  ASSUME NEW n \in Nat, NEW i \in 1..n, NEW s, PairsUpTo(s, i - 1, n)
  PROVE  PairsUpTo(s \o [k \in 1..(n - i) |-> <<i, i + k>>], i, n)
<1> DEFINE d == n - i
           m == Len(s)
           row == [k \in 1..d |-> <<i, i + k>>]
           t == s \o row
<1>1. d \in Nat /\ i + d = n /\ m \in Nat /\ i \in Nat
  BY DEF PairsUpTo
<1>2. /\ s \in Seq(Nat \X Nat) /\ Len(s) = m
      /\ 2 * m = (i - 1) * (2 * n - (i - 1) - 1)
      /\ \A p \in 1..m : s[p][1] \in 1..(i - 1) /\ s[p][2] \in (s[p][1] + 1)..n
      /\ \A p, q \in 1..m : s[p] = s[q] => p = q
      /\ \A l \in 1..(i - 1) : \A r \in (l + 1)..n : \E p \in 1..m : s[p] = <<l, r>>
  BY DEF PairsUpTo
<1> HIDE DEF m, d
<1>3. /\ row \in Seq(Nat \X Nat) /\ Len(row) = d
      /\ \A k \in 1..d : row[k] = <<i, i + k>>
  <2>1. row \in [1..d -> Nat \X Nat]
    BY <1>1
  <2> QED BY <1>1, <2>1
<1> HIDE DEF row
<1>a. /\ t \in Seq(Nat \X Nat) /\ Len(t) = Len(s) + Len(row)
      /\ \A p \in 1..(Len(s) + Len(row)) : t[p] = IF p <= Len(s) THEN s[p] ELSE row[p - Len(s)]
  <2> DEFINE S == Nat \X Nat
  <2>1. s \in Seq(S) /\ row \in Seq(S)
    BY <1>2, <1>3
  <2> HIDE DEF S
  <2>2. /\ t \in Seq(S) /\ Len(t) = Len(s) + Len(row)
        /\ \A p \in 1..(Len(s) + Len(row)) : t[p] = IF p <= Len(s) THEN s[p] ELSE row[p - Len(s)]
    BY ONLY <2>1, ConcatProperties
  <2> QED BY <2>2 DEF S
<1> HIDE DEF t
<1>4. t \in Seq(Nat \X Nat) /\ Len(t) = m + d
  BY <1>2, <1>3, <1>a
<1>5. \A p \in 1..(m + d) : t[p] = IF p <= m THEN s[p] ELSE row[p - m]
  BY <1>2, <1>3, <1>a
<1>6. \A p \in 1..m : t[p] = s[p] /\ p \in 1..(m + d)
  BY <1>1, <1>5
<1>7. \A k \in 1..d : t[m + k] = <<i, i + k>> /\ m + k \in 1..(m + d)
  <2> SUFFICES ASSUME NEW k \in 1..d PROVE t[m + k] = <<i, i + k>> /\ m + k \in 1..(m + d)
    OBVIOUS
  <2>1. m + k \in 1..(m + d) /\ ~(m + k <= m) /\ (m + k) - m = k
    BY <1>1
  <2> QED BY <1>3, <1>5, <2>1
<1>8. \A p \in 1..(m + d) : p \in 1..m \/ \E k \in 1..d : p = m + k
  <2> SUFFICES ASSUME NEW p \in 1..(m + d), p > m PROVE \E k \in 1..d : p = m + k
    BY <1>1
  <2>1. p - m \in 1..d /\ p = m + (p - m)
    BY <1>1
  <2> QED BY <2>1
<1>9. 2 * (m + d) = i * (2 * n - i - 1)
  <2>1. 2 * d = 2 * n - 2 * i
    BY <1>1
  <2>2. (i - 1) * (2 * n - (i - 1) - 1) + (2 * n - 2 * i) = i * (2 * n - i - 1)
    OBVIOUS
  <2>3. 2 * (m + d) = 2 * m + 2 * d
    BY <1>1
  <2> DEFINE a == (i - 1) * (2 * n - (i - 1) - 1)
             e == i * (2 * n - i - 1)
             h == 2 * n - 2 * i
  <2>4. a \in Int /\ e \in Int /\ h \in Int
    OBVIOUS
  <2>5. 2 * m = a /\ 2 * d = h /\ a + h = e
    BY <1>2, <2>1, <2>2
  <2> HIDE DEF a, e, h
  <2>6. 2 * (m + d) = e
    BY <2>3, <2>4, <2>5
  <2> QED BY <2>6 DEF e
<1>10. \A p \in 1..(m + d) : t[p][1] \in 1..i /\ t[p][2] \in (t[p][1] + 1)..n
  <2> SUFFICES ASSUME NEW p \in 1..(m + d) PROVE t[p][1] \in 1..i /\ t[p][2] \in (t[p][1] + 1)..n
    OBVIOUS
  <2>1. CASE p \in 1..m
    <3>1. t[p] = s[p] /\ s[p][1] \in 1..(i - 1) /\ s[p][2] \in (s[p][1] + 1)..n
      BY <1>2, <1>6, <2>1
    <3> QED BY <1>1, <3>1
  <2>2. ASSUME NEW k \in 1..d, p = m + k PROVE t[p][1] \in 1..i /\ t[p][2] \in (t[p][1] + 1)..n
    <3>1. t[p] = <<i, i + k>>
      BY <1>7, <2>2
    <3>2. i + k \in (i + 1)..n /\ i \in 1..i
      BY <1>1
    <3> QED BY <3>1, <3>2
  <2> QED BY <1>8, <2>1, <2>2
<1>11. \A p, q \in 1..(m + d) : t[p] = t[q] => p = q
  <2> SUFFICES ASSUME NEW p \in 1..(m + d), NEW q \in 1..(m + d), t[p] = t[q] PROVE p = q
    OBVIOUS
  <2>1. \A o \in 1..m : t[o][1] # i
    <3> SUFFICES ASSUME NEW o \in 1..m PROVE t[o][1] # i
      OBVIOUS
    <3>1. t[o] = s[o] /\ s[o][1] \in 1..(i - 1)
      BY <1>2, <1>6
    <3> QED BY <1>1, <3>1
  <2>2. \A k \in 1..d : t[m + k][1] = i
    BY <1>7
  <2>3. CASE p \in 1..m /\ q \in 1..m
    BY <1>2, <1>6, <2>3
  <2>4. ASSUME NEW k \in 1..d, NEW l \in 1..d, p = m + k, q = m + l PROVE p = q
    <3>1. <<i, i + k>> = <<i, i + l>>
      BY <1>7, <2>4
    <3>2. i + k = i + l
      BY <3>1
    <3>3. k = l
      BY <1>1, <3>2
    <3> QED BY <2>4, <3>3
  <2> QED BY <1>8, <2>1, <2>2, <2>3, <2>4
<1>12. \A l \in 1..i : \A r \in (l + 1)..n : \E p \in 1..(m + d) : t[p] = <<l, r>>
  <2> SUFFICES ASSUME NEW l \in 1..i, NEW r \in (l + 1)..n
               PROVE  \E p \in 1..(m + d) : t[p] = <<l, r>>
    OBVIOUS
  <2>1. CASE l = i
    <3>1. r - i \in 1..d /\ i + (r - i) = r
      BY <1>1, <2>1
    <3>2. t[m + (r - i)] = <<i, i + (r - i)>> /\ m + (r - i) \in 1..(m + d)
      BY <1>7, <3>1
    <3> QED BY <2>1, <3>1, <3>2
  <2>2. CASE l # i
    <3>1. l \in 1..(i - 1)
      BY <1>1, <2>2
    <3>2. PICK p \in 1..m : s[p] = <<l, r>>
      BY <1>2, <3>1
    <3> QED BY <1>6, <3>2
  <2> QED BY <2>1, <2>2
<1>13. PairsUpTo(t, i, n)
  BY <1>4, <1>9, <1>10, <1>11, <1>12 DEF PairsUpTo
<1> QED BY <1>13 DEF t, row, d

(* Every pair of candidates plays, once.                                    *)
LEMMA PairsAreAll ==
  ASSUME NEW n \in Nat \ {0}
  PROVE  PairsUpTo(Pairs(n), n, n)
<1> DEFINE rows == [left \in 1..n |-> [k \in 1..(n - left) |-> <<left, left + k>>]]
           From(f) == [i \in 1..n |-> IF i = 1 THEN rows[i] ELSE f[i - 1] \o rows[i]]
           flatten == CHOOSE f : f = From(f)
<1>1. Len(rows) = n
  OBVIOUS
<1>2. Pairs(n) = flatten[n]
  <2>1. Pairs(n) = FlattenSeq(rows)
    BY DEF Pairs
  <2> HIDE DEF rows
  <2> QED BY <1>1, <2>1 DEF FlattenSeq
<1> HIDE DEF rows
<1>3. \E f : f = From(f)
  <2> DEFINE Plain(g) == [k \in 0..(n - 1) |-> IF k = 0 THEN rows[1] ELSE g[k - 1] \o rows[k + 1]]
  <2>1. PICK g : g = Plain(g)
    <3>1. HasRounds("flattened", rows, rows[1], n - 1)
      BY IterationExists
    <3> QED BY <3>1 DEF HasRounds, AnyStep
  <2>2. \A k \in 0..(n - 1) : g[k] = IF k = 0 THEN rows[1] ELSE g[k - 1] \o rows[k + 1]
    <3> DEFINE j == Plain(g)
    <3>1. \A k \in 0..(n - 1) : j[k] = IF k = 0 THEN rows[1] ELSE g[k - 1] \o rows[k + 1]
      OBVIOUS
    <3>2. g = j
      BY <2>1
    <3> HIDE DEF j
    <3> QED BY <3>1, <3>2
  <2> DEFINE f == [i \in 1..n |-> g[i - 1]]
  <2>3. \A i \in 1..n : f[i] = From(f)[i]
    <3> SUFFICES ASSUME NEW i \in 1..n PROVE f[i] = From(f)[i]
      OBVIOUS
    <3>1. f[i] = g[i - 1] /\ i - 1 \in 0..(n - 1)
      OBVIOUS
    <3>2. i # 1 => f[i - 1] = g[i - 1 - 1]
      OBVIOUS
    <3>3. i - 1 + 1 = i
      OBVIOUS
    <3> HIDE DEF f
    <3> QED BY <2>2, <3>1, <3>2, <3>3
  <2>4. f = From(f)
    <3>1. DOMAIN f = 1..n
      OBVIOUS
    <3> QED BY <2>3
  <2> HIDE DEF From, f
  <2> QED BY <2>4
<1>4. flatten = From(flatten)
  <2> HIDE DEF From
  <2> QED BY <1>3
<1> HIDE DEF flatten
<1>5. /\ flatten[1] = rows[1]
      /\ \A i \in 2..n : flatten[i] = flatten[i - 1] \o rows[i]
  <2> DEFINE j == From(flatten)
  <2>1. \A i \in 1..n : j[i] = IF i = 1 THEN rows[i] ELSE flatten[i - 1] \o rows[i]
    OBVIOUS
  <2>2. flatten = j
    BY <1>4
  <2>3. 1 \in 1..n /\ \A i \in 2..n : i \in 1..n /\ i # 1
    OBVIOUS
  <2> HIDE DEF j
  <2> QED BY <2>1, <2>2, <2>3
<1>6. \A i \in 1..n : rows[i] = [k \in 1..(n - i) |-> <<i, i + k>>]
  BY DEF rows
<1> DEFINE Wrong == {i \in 1..n : ~PairsUpTo(flatten[i], i, n)}
<1>7. ASSUME Wrong # {} PROVE FALSE
  <2>1. PICK i \in Wrong : \A l \in Wrong : i <= l
    <3>1. Wrong \in SUBSET Nat
      OBVIOUS
    <3> HIDE DEF Wrong
    <3> QED BY <1>7, <3>1, LeastNatural
  <2>2. i \in 1..n /\ ~PairsUpTo(flatten[i], i, n)
    BY <2>1
  <2>3. CASE i = 1
    <3>1. PairsUpTo(<<>>, 1 - 1, n)
      BY DEF PairsUpTo
    <3>2. PairsUpTo(<<>> \o rows[1], 1, n)
      <4>1. 1 \in 1..n
        OBVIOUS
      <4>2. \A l \in 1..n : \A s : PairsUpTo(s, l - 1, n)
              => PairsUpTo(s \o [k \in 1..(n - l) |-> <<l, l + k>>], l, n)
        BY RowAdded
      <4>3. PairsUpTo(<<>> \o [k \in 1..(n - 1) |-> <<1, 1 + k>>], 1, n)
        BY <3>1, <4>1, <4>2
      <4> QED BY <1>6, <4>1, <4>3
    <3>3. rows[1] \in Seq(Nat \X Nat)
      <4> DEFINE row == [k \in 1..(n - 1) |-> <<1, 1 + k>>]
      <4>1. row \in [1..(n - 1) -> Nat \X Nat] /\ n - 1 \in Nat
        OBVIOUS
      <4>2. rows[1] = row
        <5>1. 1 \in 1..n
          OBVIOUS
        <5> QED BY <1>6, <5>1
      <4> HIDE DEF row
      <4> QED BY <4>1, <4>2
    <3>4. <<>> \o rows[1] = rows[1]
      BY <3>3, ConcatEmptySeq
    <3> QED BY <1>5, <2>2, <2>3, <3>2, <3>4
  <2>4. CASE i # 1
    <3>1. i \in 2..n /\ i - 1 \in 1..n /\ i - 1 \notin Wrong
      BY <2>1, <2>2, <2>4
    <3>2. PairsUpTo(flatten[i - 1], i - 1, n)
      BY <3>1
    <3>3. PairsUpTo(flatten[i - 1] \o [k \in 1..(n - i) |-> <<i, i + k>>], i, n)
      BY <2>2, <3>2, RowAdded
    <3> QED BY <1>5, <1>6, <2>2, <3>1, <3>3
  <2> QED BY <2>3, <2>4
<1>8. n \notin Wrong
  BY <1>7
<1> QED BY <1>2, <1>8

-----------------------------------------------------------------------------
(* A list of games in runs of G: which run one is of, and where in it.      *)
LEMMA PlaceInList ==
  ASSUME NEW G \in Nat \ {0}, NEW j \in Nat
  PROVE  j \div G \in Nat /\ j % G \in 0..(G - 1) /\ j = (j \div G) * G + (j % G)
OBVIOUS

(* A place in a list of runs of G games determines run and round.           *)
LEMMA PlaceIsOne ==
  ASSUME NEW G \in Nat \ {0}, NEW q \in Nat, NEW r \in 0..(G - 1)
  PROVE  q * G + r \in Nat /\ (q * G + r) \div G = q /\ (q * G + r) % G = r
<1> DEFINE m == q * G
<1>1. m \in Nat
  OBVIOUS
<1> DEFINE j == m + r
<1>2. j \in Nat
  BY <1>1
<1> DEFINE k == j \div G
           s == j % G
<1>3. k \in Nat /\ s \in 0..(G - 1) /\ j = k * G + s
  <2> HIDE DEF j
  <2> QED BY <1>2, PlaceInList
<1>4. k = q
  <2>1. q * G + r = k * G + s
    BY <1>3
  <2> HIDE DEF m, j, k, s
  <2>2. CASE k < q
    <3>1. (k + 1) * G <= q * G
      BY <1>3, <2>2, ProductMonotone
    <3>2. (k + 1) * G = k * G + G
      BY <1>3
    <3> QED BY <1>1, <1>3, <2>1, <3>1, <3>2
  <2>3. CASE k > q
    <3>1. (q + 1) * G <= k * G
      BY <1>3, <2>3, ProductMonotone
    <3>2. (q + 1) * G = q * G + G
      OBVIOUS
    <3> QED BY <1>1, <1>3, <2>1, <3>1, <3>2
  <2> QED BY <1>3, <2>2, <2>3
<1>5. s = r
  <2> HIDE DEF k, s
  <2> QED BY <1>3, <1>4
<1> QED BY <1>2, <1>4, <1>5

(* Every run and round has its place in the list.                           *)
LEMMA PlaceIsInside ==
  ASSUME NEW G \in Nat \ {0}, NEW N \in Nat, NEW q \in 0..(N - 1), NEW r \in 0..(G - 1)
  PROVE  q * G + r \in 0..(N * G - 1)
<1>1. (q + 1) * G <= N * G
  BY ProductMonotone
<1>2. (q + 1) * G = q * G + G
  OBVIOUS
<1> DEFINE a == q * G
           b == N * G
<1>3. a \in Nat /\ b \in Nat /\ a + G <= b
  BY <1>1, <1>2
<1> HIDE DEF a, b
<1>4. a + r \in 0..(b - 1)
  BY <1>3
<1> QED BY <1>4 DEF a, b

(* Every place in the list is in one of its runs.                           *)
LEMMA RunOfPlace ==
  ASSUME NEW G \in Nat \ {0}, NEW N \in Nat, NEW j \in 0..(N * G - 1)
  PROVE  j \div G \in 0..(N - 1)
<1> DEFINE q == j \div G
           b == N * G
<1>1. q \in Nat /\ j % G \in 0..(G - 1) /\ j = q * G + (j % G) /\ j \in Nat
  <2>1. j \in Nat
    OBVIOUS
  <2> QED BY <2>1, PlaceInList
<1>2. CASE q >= N
  <2>1. N * G <= q * G
    BY <1>1, <1>2, ProductMonotone
  <2> DEFINE a == q * G
             s == j % G
  <2>2. a \in Nat /\ b \in Nat /\ b <= a /\ j = a + s /\ s \in Nat /\ j <= b - 1
    BY <1>1, <2>1
  <2> HIDE DEF a, b, s
  <2> QED BY <2>2
<1> HIDE DEF q
<1> QED BY <1>1, <1>2 DEF q

(* What a run of games adds up to.                                          *)
RunAt(G, N, q) == {j \in 0..(N * G - 1) : j \div G = q}
RunOf(f, G, q) == [r \in 0..(G - 1) |-> f[q * G + r]]

(* The games of one run add up round by round.                              *)
LEMMA SumOfRun ==
  ASSUME NEW G \in Nat \ {0}, NEW N \in Nat, NEW f \in [0..(N * G - 1) -> Int],
         NEW q \in 0..(N - 1)
  PROVE  SumOn(f, RunAt(G, N, q)) = SumOn(RunOf(f, G, q), 0..(G - 1))
<1> DEFINE J == 0..(N * G - 1)
           R == 0..(G - 1)
           b == [r \in R |-> q * G + r]
<1>1. b \in [R -> J]
  BY PlaceIsInside
<1>2. \A r \in R : b[r] = q * G + r /\ b[r] \div G = q /\ b[r] % G = r
  BY PlaceIsOne
<1>3. IsFiniteSet(J) /\ IsFiniteSet(R)
  <2>1. N * G \in Int
    OBVIOUS
  <2> QED BY <2>1, FS_Interval
<1>4. Named(b, R) = {j \in J : j \div G = q}
  <2>1. ASSUME NEW j \in J, j \div G = q PROVE j \in Named(b, R)
    <3>1. j \in Nat
      OBVIOUS
    <3>2. j % G \in R /\ j = q * G + (j % G)
      BY <2>1, <3>1, PlaceInList
    <3>3. b[j % G] = j
      BY <3>2
    <3> HIDE DEF b, R
    <3> QED BY <3>2, <3>3 DEF Named
  <2>2. ASSUME NEW r \in R PROVE b[r] \in {j \in J : j \div G = q}
    BY <1>1, <1>2
  <2> HIDE DEF b
  <2> QED BY <2>1, <2>2 DEF Named
<1>5. \A p, r \in R : b[p] = b[r] => p = r
  <2> HIDE DEF b, R
  <2> QED BY <1>2
<1>6. SumOn(f, Named(b, R)) = SumOn(Along(f, b, R), R)
  <2> HIDE DEF b, R, J
  <2>1. f \in [J -> Int]
    BY DEF J
  <2> QED BY <1>1, <1>3, <1>5, <2>1, SumReindexed
<1>7. Along(f, b, R) = [r \in R |-> f[q * G + r]]
  BY DEF Along
<1> QED BY <1>4, <1>6, <1>7 DEF RunAt, RunOf

-----------------------------------------------------------------------------
(* A plan that has games to play, of a kind the code knows.                 *)
IsPlan(plan) ==
  /\ plan.games \in Nat \ {0}
  /\ plan.opponents \in {"Baseline", "RoundRobin"}

(* A pair plays at least one game.                                          *)
LEMMA PairingPlays ==
  ASSUME NEW plan, IsPlan(plan), NEW n \in Nat
  PROVE  GamesPerPairing(plan, n) \in Nat \ {0}
<1> DEFINE k == IF Less1(n) = 0 THEN 1 ELSE Less1(n)
           games == plan.games
           a == (games + k - 1) \div k
<1>1. k \in Nat \ {0} /\ games \in Nat \ {0}
  BY DEF Less1, IsPlan
<1>2. GamesPerPairing(plan, n) = a + (a % 2)
  BY DEF GamesPerPairing, NextEven, CeilDiv
<1>3. a \in Nat \ {0}
  <2> HIDE DEF k, games
  <2> DEFINE j == games + k - 1
  <2>1. j \in Nat /\ j >= k
    BY <1>1
  <2> HIDE DEF j
  <2>2. j \div k \in Nat /\ j % k \in 0..(k - 1) /\ j = (j \div k) * k + (j % k)
    BY <1>1, <2>1, PlaceInList
  <2> DEFINE q == j \div k
             s == j % k
  <2>3. q # 0
    <3>1. SUFFICES ASSUME q = 0 PROVE FALSE
      OBVIOUS
    <3>2. q * k = 0
      BY <1>1, <3>1
    <3> HIDE DEF q, s
    <3> QED BY <1>1, <2>1, <2>2, <3>2 DEF q, s
  <2> QED BY <2>2, <2>3 DEF j
<1> HIDE DEF a
<1> QED BY <1>2, <1>3

(* Runs of equal length: how many, and how long.                            *)
RunLength(plan, n) == IF plan.opponents = "Baseline" THEN plan.games ELSE GamesPerPairing(plan, n)
RunCount(plan, n)  == IF plan.opponents = "Baseline" THEN n ELSE Len(Pairs(n))

(* The list is runs of equally many games, and as long as run counts it.    *)
LEMMA TotalIsRuns ==
  ASSUME NEW plan, IsPlan(plan), NEW n \in Nat \ {0}
  PROVE  /\ RunLength(plan, n) \in Nat \ {0} /\ RunCount(plan, n) \in Nat
         /\ Total(plan, n) = RunCount(plan, n) * RunLength(plan, n)
         /\ Total(plan, n) \in Nat
         /\ Total(plan, n) = GamesPerGeneration(plan, n)
<1>1. GamesPerPairing(plan, n) \in Nat \ {0}
  BY PairingPlays
<1>2. Len(Pairs(n)) \in Nat /\ 2 * Len(Pairs(n)) = n * (2 * n - n - 1)
  BY PairsAreAll DEF PairsUpTo
<1>3. RunLength(plan, n) \in Nat \ {0} /\ RunCount(plan, n) \in Nat
  BY <1>1, <1>2 DEF RunLength, RunCount, IsPlan
<1>4. Total(plan, n) = RunCount(plan, n) * RunLength(plan, n)
  BY DEF Total, RunLength, RunCount
<1>5. Len(Pairs(n)) = (n * Less1(n)) \div 2
  <2>1. n * (2 * n - n - 1) = n * Less1(n)
    BY DEF Less1
  <2> DEFINE l == Len(Pairs(n))
             m == n * Less1(n)
  <2>2. l \in Nat /\ 2 * l = m
    BY <1>2, <2>1
  <2> HIDE DEF l, m
  <2>3. m \div 2 = l
    BY <2>2
  <2> QED BY <2>3 DEF l, m
<1>6. Total(plan, n) = GamesPerGeneration(plan, n)
  BY <1>5 DEF Total, GamesPerGeneration
<1> QED BY <1>3, <1>4, <1>6

(* What playing a game adds: naturals, and nothing to those not seated.      *)
LEMMA CreditsOfSeated ==
  ASSUME NEW plan, NEW cs, NEW base, NEW game, MaxDecisions \in Nat, NEW c \in DOMAIN cs
  PROVE  /\ Credits(plan, cs, base, game)[c] \in Nat
         /\ c # game.seats[1] /\ c # game.seats[2] => Credits(plan, cs, base, game)[c] = 0
<1> DEFINE contexts == [seat \in 1..2 |->
                          IF game.seats[seat] = Opponent THEN base ELSE cs[game.seats[seat]]]
           rewards == Play(contexts, GameSeed(plan, game.round))
<1>1. Credits(plan, cs, base, game)
        = [d \in DOMAIN cs |-> IF game.seats[1] = d THEN rewards[1]
                               ELSE IF game.seats[2] = d THEN rewards[2] ELSE 0]
  BY DEF Credits
<1>2. rewards[1] \in Nat /\ rewards[2] \in Nat
  <2>1. \A seat \in 1..2 : rewards[seat] \in 0..2
    <3> HIDE DEF contexts
    <3> QED BY PlayPays
  <2> HIDE DEF rewards
  <2> QED BY <2>1
<1> HIDE DEF rewards
<1> QED BY <1>1, <1>2

(* What every game of an evaluation adds up to, in the order of the list.   *)
PlayedOut(plan, cs, base) ==
  [c \in DOMAIN cs |->
     SumFunction([j \in 0..(Total(plan, Len(cs)) - 1) |->
                    Credits(plan, cs, base, Job(plan, Len(cs), j))[c]])]

(* What a candidate's games against another add up to.                      *)
MetBy(plan, cs, base, c, d, games) ==
  SumFunction([round \in 0..(games - 1) |->
                 Credits(plan, cs, base,
                         IF d = Opponent \/ c < d THEN Matchup(c, d, round, games)
                                                  ELSE Matchup(d, c, round, games))[c]])

(* Against the baseline, what a candidate is credited in the list is its    *)
(* score over its own games.                                                *)
LEMMA BaselineAddsUp ==
  ASSUME NEW plan, IsPlan(plan), plan.opponents = "Baseline", MaxDecisions \in Nat,
         NEW n \in Nat \ {0}, NEW cs, IsList(cs, n), NEW base, NEW c \in 1..n
  PROVE  PlayedOut(plan, cs, base)[c] = MetBy(plan, cs, base, c, Opponent, plan.games)
<1> DEFINE G == plan.games
           J == 0..(n * G - 1)
           R == 0..(G - 1)
           f == [j \in J |-> Credits(plan, cs, base, Job(plan, n, j))[c]]
           key == [j \in J |-> IF j \div G = c - 1 THEN 0 ELSE -1]
<1>1. G \in Nat \ {0} /\ DOMAIN cs = 1..n /\ Len(cs) = n
  BY ListLength DEF IsPlan
<1>2. f \in [J -> Int]
  BY <1>1, CreditsOfSeated
<1>3. IsFiniteSet(J) /\ IsFiniteSet(R)
  <2>1. n * G \in Int
    BY <1>1
  <2> HIDE DEF G
  <2> QED BY <1>1, <2>1, FS_Interval
<1>4. PlayedOut(plan, cs, base)[c] = SumOn(f, J)
  <2>1. PlayedOut(plan, cs, base)[c] = SumFunction(f)
    BY <1>1 DEF PlayedOut, Total
  <2> HIDE DEF f, J
  <2> QED BY <1>2, <2>1, SumIsSumOn
<1>5. \A j \in J : Job(plan, n, j).seats[1] \in {(j \div G) + 1, 0}
                   /\ Job(plan, n, j).seats[2] \in {(j \div G) + 1, 0}
  BY DEF Job, Matchup, Opponent
<1>6. \A j \in J : key[j] \in {0} \/ f[j] = 0
  <2> SUFFICES ASSUME NEW j \in J, j \div G # c - 1 PROVE f[j] = 0
    OBVIOUS
  <2> DEFINE q == j \div G
  <2>1. q \in Nat
    <3>1. j \in Nat
      OBVIOUS
    <3> HIDE DEF G
    <3> QED BY <1>1, <3>1, PlaceInList
  <2>2. q + 1 # c /\ 0 # c
    <3> HIDE DEF q
    <3> QED BY <2>1 DEF q
  <2>3. c # Job(plan, n, j).seats[1] /\ c # Job(plan, n, j).seats[2]
    <3> HIDE DEF G, J
    <3> QED BY <1>5, <2>2
  <2> QED BY <1>1, <2>3, CreditsOfSeated
<1>7. SumOn(f, J) = SumOn(f, {j \in J : j \div G = c - 1})
  <2> DEFINE sums == GroupSums(f, J, key, {0})
  <2>1. SumOn(f, J) = SumOn(sums, {0})
    <3>1. IsFiniteSet({0})
      BY FS_Singleton
    <3> HIDE DEF f, J, key
    <3> QED BY <1>2, <1>3, <1>6, <3>1, SumByGroups
  <2>2. {x \in J : key[x] = 0} = {j \in J : j \div G = c - 1}
    OBVIOUS
  <2> DEFINE part == {j \in J : j \div G = c - 1}
  <2>3. sums = [d \in {0} |-> SumOn(f, part)]
    BY <2>2 DEF GroupSums
  <2>4. SumOn(f, part) \in Int
    <3>1. part \in SUBSET J
      OBVIOUS
    <3> HIDE DEF f, J, part
    <3> QED BY <1>2, <1>3, <3>1, SumOnInt
  <2> HIDE DEF part
  <2>5. sums \in [{0} -> Int] /\ sums[0] = SumOn(f, part)
    BY <2>3, <2>4
  <2> HIDE DEF sums
  <2>6. SumOn(sums, {0}) = sums[0]
    <3>1. sums = [x \in {0} |-> sums[x]]
      BY <2>5
    <3> QED BY <2>5, <3>1, SumOfOne DEF SumOn
  <2> QED BY <2>1, <2>5, <2>6 DEF part
<1>8. SumOn(f, {j \in J : j \div G = c - 1}) = SumOn([r \in R |-> f[(c - 1) * G + r]], R)
  <2>1. c - 1 \in 0..(n - 1) /\ n \in Nat
    OBVIOUS
  <2> HIDE DEF G, f
  <2>2. SumOn(f, RunAt(G, n, c - 1)) = SumOn(RunOf(f, G, c - 1), 0..(G - 1))
    BY <1>1, <1>2, <2>1, SumOfRun
  <2> QED BY <2>2 DEF RunAt, RunOf
<1>9. [r \in R |-> f[(c - 1) * G + r]]
        = [r \in R |-> Credits(plan, cs, base, Matchup(c, Opponent, r, G))[c]]
  <2> SUFFICES ASSUME NEW r \in R
               PROVE  f[(c - 1) * G + r] = Credits(plan, cs, base, Matchup(c, Opponent, r, G))[c]
    OBVIOUS
  <2> DEFINE j == (c - 1) * G + r
  <2>1. c - 1 \in 0..(n - 1) /\ c - 1 \in Nat /\ n \in Nat
    OBVIOUS
  <2>2. j \in J
    <3> HIDE DEF G
    <3> QED BY <1>1, <2>1, PlaceIsInside
  <2>3. j \div G = c - 1 /\ j % G = r
    <3> HIDE DEF G
    <3> QED BY <1>1, <2>1, PlaceIsOne
  <2> HIDE DEF j
  <2>4. Job(plan, n, j) = Matchup(c, Opponent, r, G)
    <3>1. (j \div G) + 1 = c
      BY <2>3
    <3> QED BY <2>3, <3>1 DEF Job
  <2>5. f[j] = Credits(plan, cs, base, Job(plan, n, j))[c]
    BY <2>2
  <2> QED BY <2>4, <2>5 DEF j
<1>10. MetBy(plan, cs, base, c, Opponent, plan.games)
         = SumOn([r \in R |-> f[(c - 1) * G + r]], R)
  <2>1. MetBy(plan, cs, base, c, Opponent, plan.games)
          = SumFunction([r \in R |-> Credits(plan, cs, base, Matchup(c, Opponent, r, G))[c]])
    BY DEF MetBy
  <2> DEFINE h == [r \in R |-> f[(c - 1) * G + r]]
  <2>2. h = [x \in R |-> h[x]]
    OBVIOUS
  <2>3. SumFunction(h) = SumOn(h, R)
    <3> HIDE DEF h
    <3> QED BY <2>2 DEF SumOn
  <2> QED BY <1>9, <2>1, <2>3
<1> QED BY <1>4, <1>7, <1>8, <1>10

MetByAll(plan, cs, base, c, n) ==
  SumFunction([d \in (1..n) \ {c} |-> MetBy(plan, cs, base, c, d, GamesPerPairing(plan, n))])

(* In a round robin, it is the sum of its scores against all the others.    *)
LEMMA RoundRobinAddsUp ==
  ASSUME NEW plan, IsPlan(plan), plan.opponents = "RoundRobin", MaxDecisions \in Nat,
         NEW n \in Nat \ {0}, NEW cs, IsList(cs, n), NEW base, NEW c \in 1..n
  PROVE  PlayedOut(plan, cs, base)[c] = MetByAll(plan, cs, base, c, n)
<1> DEFINE G == GamesPerPairing(plan, n)
           P == Pairs(n)
           N == Len(P)
           J == 0..(N * G - 1)
           R == 0..(G - 1)
           D == (1..n) \ {c}
           f == [j \in J |-> Credits(plan, cs, base, Job(plan, n, j))[c]]
           Pair(j) == P[(j \div G) + 1]
           key == [j \in J |-> IF Pair(j)[1] = c THEN Pair(j)[2]
                               ELSE IF Pair(j)[2] = c THEN Pair(j)[1] ELSE 0]
           met == [d \in D |-> MetBy(plan, cs, base, c, d, G)]
<1>1. G \in Nat \ {0} /\ N \in Nat /\ DOMAIN cs = 1..n /\ Len(cs) = n
  <2>1. N \in Nat
    <3>1. PairsUpTo(P, n, n)
      BY PairsAreAll
    <3> HIDE DEF P
    <3> QED BY <3>1 DEF PairsUpTo
  <2>2. G \in Nat \ {0}
    BY PairingPlays
  <2> QED BY <2>1, <2>2, ListLength
<1>2. /\ \A p \in 1..N : P[p] \in Nat \X Nat /\ P[p][1] \in 1..n /\ P[p][2] \in (P[p][1] + 1)..n
      /\ \A p, q \in 1..N : P[p] = P[q] => p = q
      /\ \A l \in 1..n : \A r \in (l + 1)..n : \E p \in 1..N : P[p] = <<l, r>>
  <2>1. PairsUpTo(P, n, n)
    BY PairsAreAll
  <2> HIDE DEF P
  <2>2. P \in Seq(Nat \X Nat)
    BY <2>1 DEF PairsUpTo
  <2>3. \A p \in 1..N : P[p] \in Nat \X Nat
    BY <2>2
  <2> QED BY <2>1, <2>3 DEF PairsUpTo
<1> HIDE DEF G, P, N
<1>3. f \in [J -> Int] /\ IsFiniteSet(J) /\ IsFiniteSet(D)
  <2>1. f \in [J -> Int]
    BY <1>1, CreditsOfSeated
  <2>2. N * G \in Int
    BY <1>1
  <2>3. IsFiniteSet(J) /\ IsFiniteSet(1..n)
    BY <2>2, FS_Interval
  <2> QED BY <2>1, <2>3, FS_Subset
<1>4. PlayedOut(plan, cs, base)[c] = SumOn(f, J)
  <2>1. PlayedOut(plan, cs, base)[c] = SumFunction(f)
    BY <1>1 DEF PlayedOut, Total, G, N, P
  <2> HIDE DEF f, J
  <2> QED BY <1>3, <2>1, SumIsSumOn
<1>5. ASSUME NEW j \in J
      PROVE  /\ (j \div G) + 1 \in 1..N /\ j \in Nat
             /\ Pair(j) = <<Pair(j)[1], Pair(j)[2]>>
             /\ Pair(j)[1] \in 1..n /\ Pair(j)[2] \in 1..n /\ Pair(j)[1] < Pair(j)[2]
  <2>1. j \div G \in 0..(N - 1)
    BY <1>1, RunOfPlace
  <2>2. (j \div G) + 1 \in 1..N /\ j \in Nat
    BY <1>1, <2>1
  <2> QED BY <1>2, <2>2
<1>6. ASSUME NEW j \in J
      PROVE  Job(plan, n, j) = Matchup(Pair(j)[1], Pair(j)[2], j % G, G)
  BY DEF Job, G, P
<1>7. \A j \in J : key[j] \in D \/ f[j] = 0
  <2> SUFFICES ASSUME NEW j \in J, key[j] \notin D PROVE f[j] = 0
    OBVIOUS
  <2>1. Pair(j)[1] # c /\ Pair(j)[2] # c
    <3> DEFINE a == Pair(j)[1]
               b == Pair(j)[2]
    <3>1. a \in 1..n /\ b \in 1..n /\ a < b
      BY <1>5
    <3>2. key[j] = IF a = c THEN b ELSE IF b = c THEN a ELSE 0
      OBVIOUS
    <3> HIDE DEF a, b, key
    <3>3. a # c /\ b # c
      BY <3>1, <3>2
    <3> QED BY <3>3 DEF a, b
  <2> HIDE DEF Pair, key
  <2>2. c # Job(plan, n, j).seats[1] /\ c # Job(plan, n, j).seats[2]
    BY <1>6, <2>1 DEF Matchup
  <2> QED BY <1>1, <2>2, CreditsOfSeated
<1>8. \A d \in D : SumOn(f, {x \in J : key[x] = d}) = met[d]
  <2> SUFFICES ASSUME NEW d \in D PROVE SumOn(f, {x \in J : key[x] = d}) = MetBy(plan, cs, base, c, d, G)
    OBVIOUS
  <2> DEFINE l == IF c < d THEN c ELSE d
             r == IF c < d THEN d ELSE c
  <2>1. l \in 1..n /\ r \in (l + 1)..n /\ d \in 1..n /\ d # c
    OBVIOUS
  <2>2. PICK p \in 1..N : P[p] = <<l, r>>
    <3> HIDE DEF l, r
    <3> QED BY <1>2, <2>1
  <2>3. {x \in J : key[x] = d} = RunAt(G, N, p - 1)
    <3> SUFFICES ASSUME NEW j \in J PROVE key[j] = d <=> j \div G = p - 1
      BY DEF RunAt
    <3> DEFINE a == Pair(j)[1]
               b == Pair(j)[2]
               q == j \div G
    <3>1. /\ a \in 1..n /\ b \in 1..n /\ a < b /\ P[q + 1] = <<a, b>>
          /\ q + 1 \in 1..N /\ key[j] = IF a = c THEN b ELSE IF b = c THEN a ELSE 0
      BY <1>5
    <3>2. q \in Nat
      BY <1>1, <1>5, PlaceInList
    <3> HIDE DEF a, b, key, q
    <3>3. key[j] = d <=> a = l /\ b = r
      BY <2>1, <3>1
    <3>4. a = l /\ b = r <=> <<a, b>> = <<l, r>>
      <4> HIDE DEF l, r
      <4> QED OBVIOUS
    <3> HIDE DEF l, r
    <3>5. <<a, b>> = <<l, r>> <=> q + 1 = p
      BY <1>2, <2>2, <3>1
    <3>6. q + 1 = p <=> q = p - 1
      BY <1>1, <3>2
    <3> QED BY <3>3, <3>4, <3>5, <3>6 DEF q
  <2>4. SumOn(f, RunAt(G, N, p - 1)) = SumOn(RunOf(f, G, p - 1), R)
    <3>1. p - 1 \in 0..(N - 1)
      BY <1>1
    <3> HIDE DEF f
    <3> QED BY <1>1, <1>3, <3>1, SumOfRun
  <2> DEFINE h == [x \in R |-> Credits(plan, cs, base, Matchup(l, r, x, G))[c]]
  <2>5. RunOf(f, G, p - 1) = h
    <3> SUFFICES ASSUME NEW x \in R
                 PROVE  f[(p - 1) * G + x] = Credits(plan, cs, base, Matchup(l, r, x, G))[c]
      BY DEF RunOf
    <3> DEFINE j == (p - 1) * G + x
    <3>1. p - 1 \in 0..(N - 1) /\ p - 1 \in Nat /\ (p - 1) + 1 = p
      BY <1>1
    <3>2. j \in J
      BY <1>1, <3>1, PlaceIsInside
    <3>3. j \div G = p - 1 /\ j % G = x
      BY <1>1, <3>1, PlaceIsOne
    <3> HIDE DEF j, l, r
    <3>4. Job(plan, n, j) = Matchup(l, r, x, G)
      <4>1. Pair(j) = <<l, r>>
        BY <2>2, <3>1, <3>3
      <4> QED BY <1>6, <3>2, <3>3, <4>1
    <3>5. f[j] = Credits(plan, cs, base, Job(plan, n, j))[c]
      BY <3>2
    <3> QED BY <3>4, <3>5 DEF j
  <2>6. MetBy(plan, cs, base, c, d, G) = SumFunction(h)
    <3>1. d # Opponent /\ (~(d = Opponent \/ c < d) => l = d /\ r = c)
          /\ (c < d => l = c /\ r = d)
      BY <2>1 DEF Opponent
    <3> HIDE DEF l, r
    <3>2. CASE c < d
      BY <3>1, <3>2 DEF MetBy
    <3>3. CASE ~(c < d)
      BY <3>1, <3>3 DEF MetBy
    <3> QED BY <3>2, <3>3
  <2>7. SumFunction(h) = SumOn(h, R)
    <3>1. h = [x \in R |-> h[x]]
      OBVIOUS
    <3> HIDE DEF h
    <3> QED BY <3>1 DEF SumOn
  <2> HIDE DEF h, f, key
  <2> QED BY <2>3, <2>4, <2>5, <2>6, <2>7
<1>9. SumOn(f, J) = SumOn(met, D)
  <2>1. SumOn(f, J) = SumOn(GroupSums(f, J, key, D), D)
    <3> HIDE DEF f, J, key, D
    <3> QED BY <1>3, <1>7, SumByGroups
  <2>2. GroupSums(f, J, key, D) = met
    <3> HIDE DEF f, J, key
    <3> QED BY <1>8 DEF GroupSums
  <2> QED BY <2>1, <2>2
<1>10. SumOn(met, D) = SumFunction(met)
  <2>1. met = [d \in D |-> met[d]]
    OBVIOUS
  <2> HIDE DEF met
  <2> QED BY <2>1 DEF SumOn
<1> QED BY <1>4, <1>9, <1>10 DEF G, MetByAll

(* Against one opponent a score is the genes': a candidate sits opposite it *)
(* in every game, and plays the same seeds as any other.                    *)
LEMMA SameGenesMeetTheSame ==
  ASSUME NEW plan, NEW cs, NEW base, NEW games,
         NEW c \in DOMAIN cs, NEW d \in DOMAIN cs, c # Opponent, d # Opponent, cs[c] = cs[d]
  PROVE  MetBy(plan, cs, base, c, Opponent, games) = MetBy(plan, cs, base, d, Opponent, games)
<1> DEFINE of(e, round) == Credits(plan, cs, base, Matchup(e, Opponent, round, games))[e]
<1>1. ASSUME NEW round PROVE of(c, round) = of(d, round)
  <2> DEFINE late == round >= games \div 2
             seated(genes) == IF late THEN [seat \in 1..2 |-> IF seat = 1 THEN base ELSE genes]
                              ELSE [seat \in 1..2 |-> IF seat = 1 THEN genes ELSE base]
             paid(genes) == Play(seated(genes), GameSeed(plan, round))[IF late THEN 2 ELSE 1]
  <2>1. ASSUME NEW e \in DOMAIN cs, e # Opponent PROVE of(e, round) = paid(cs[e])
    <3> DEFINE game == Matchup(e, Opponent, round, games)
               contexts == [seat \in 1..2 |->
                              IF game.seats[seat] = Opponent THEN base ELSE cs[game.seats[seat]]]
    <3>1. game.round = round /\ (late => game.seats = <<Opponent, e>>)
          /\ (~late => game.seats = <<e, Opponent>>)
      BY DEF Matchup
    <3>2. of(e, round) = IF game.seats[1] = e THEN Play(contexts, GameSeed(plan, game.round))[1]
                         ELSE IF game.seats[2] = e THEN Play(contexts, GameSeed(plan, game.round))[2]
                         ELSE 0
      BY DEF Credits
    <3>3. contexts = seated(cs[e])
      <4> HIDE DEF game, late
      <4>1. CASE late
        BY <2>1, <3>1, <4>1
      <4>2. CASE ~late
        BY <2>1, <3>1, <4>2
      <4> QED BY <4>1, <4>2
    <3> HIDE DEF game, contexts, seated, late
    <3>4. CASE late
      BY <2>1, <3>1, <3>2, <3>3, <3>4
    <3>5. CASE ~late
      BY <2>1, <3>1, <3>2, <3>3, <3>5
    <3> QED BY <3>4, <3>5
  <2> HIDE DEF of, paid
  <2> QED BY <2>1
<1>2. /\ MetBy(plan, cs, base, c, Opponent, games)
           = SumFunction([round \in 0..(games - 1) |-> of(c, round)])
      /\ MetBy(plan, cs, base, d, Opponent, games)
           = SumFunction([round \in 0..(games - 1) |-> of(d, round)])
  BY DEF MetBy
<1> HIDE DEF of
<1>3. [round \in 0..(games - 1) |-> of(c, round)] = [round \in 0..(games - 1) |-> of(d, round)]
  BY <1>1
<1> QED BY <1>2, <1>3

-----------------------------------------------------------------------------
(* The optimizer a run is built with, and what it stays whatever it is told *)
(* and restored from: of its strategy, of its size, on its scales.          *)
Own(s) == New(s.strategy, s.base, s.size, s.seed)

GaRecord(s, population, rng, genes, fitness) ==
  [strategy |-> "ga", size |-> s.size, scales |-> GeneScales(s.base),
   population |-> population, rng |-> rng, bestGenes |-> genes, bestFitness |-> fitness]

CmaRecord(s, mean, sigma, path, generation, rng, genes, fitness) ==
  [strategy |-> "cma-es", size |-> s.size, scales |-> GeneScales(s.base),
   mean |-> mean, sigma |-> sigma, path |-> path, generation |-> generation,
   rng |-> rng, bestGenes |-> genes, bestFitness |-> fitness]

Kin(s, opt) ==
  IF s.strategy = "ga"
  THEN \E population, rng, genes, fitness :
         opt = GaRecord(s, population, rng, genes, fitness) /\ IsList(population, s.size)
  ELSE \E mean, sigma, path, generation, rng, genes, fitness :
         opt = CmaRecord(s, mean, sigma, path, generation, rng, genes, fitness)

Sized(s) == s.size \in Nat \ {0} /\ Elites \in Nat /\ s.size > Elites

(* A run's own optimizer is of the run's strategy, size and scales.         *)
LEMMA OwnIsKin ==
  ASSUME NEW s, Sized(s)
  PROVE  Kin(s, Own(s))
<1>1. CASE s.strategy = "ga"
  <2> DEFINE o == GaNew(s.base, s.size, s.seed)
  <2>1. IsList(o.population, s.size)
    BY SpreadFills DEF Sized
  <2>2. \E population, rng, genes, fitness : o = GaRecord(s, population, rng, genes, fitness)
    BY DEF GaNew, GaRecord
  <2>3. Own(s) = o
    BY <1>1 DEF Own, New
  <2> HIDE DEF o
  <2>4. PICK population, rng, genes, fitness : o = GaRecord(s, population, rng, genes, fitness)
    BY <2>2
  <2>5. population = o.population
    BY <2>4 DEF GaRecord
  <2> QED BY <1>1, <2>1, <2>3, <2>4, <2>5 DEF Kin
<1>2. CASE s.strategy # "ga"
  <2>1. Own(s) = CmaNew(s.base, s.size, s.seed)
    BY <1>2 DEF Own, New
  <2>2. \E mean, sigma, path, generation, rng, genes, fitness :
          CmaNew(s.base, s.size, s.seed)
            = CmaRecord(s, mean, sigma, path, generation, rng, genes, fitness)
    BY DEF CmaNew, CmaRecord
  <2> QED BY <1>2, <2>1, <2>2 DEF Kin
<1> QED BY <1>1, <1>2

(* Asking keeps the optimizer that, and yields as many candidates as the    *)
(* run's size.                                                              *)
LEMMA AskIsKin ==
  ASSUME NEW s, Sized(s), NEW opt, Kin(s, opt)
  PROVE  Kin(s, Ask(opt).optimizer) /\ IsList(Ask(opt).candidates, s.size)
<1>1. CASE s.strategy = "ga"
  <2>1. PICK population, rng, genes, fitness :
          opt = GaRecord(s, population, rng, genes, fitness) /\ IsList(population, s.size)
    BY <1>1 DEF Kin
  <2>2. opt.strategy = "ga" /\ opt.population = population
    BY <2>1 DEF GaRecord
  <2>3. Ask(opt) = [candidates |-> opt.population, optimizer |-> opt]
    BY <2>2 DEF Ask, GaAsk
  <2> QED BY <2>1, <2>2, <2>3
<1>2. CASE s.strategy # "ga"
  <2>1. PICK mean, sigma, path, generation, rng, genes, fitness :
          opt = CmaRecord(s, mean, sigma, path, generation, rng, genes, fitness)
    BY <1>2 DEF Kin
  <2>2. opt.strategy # "ga" /\ opt.size = s.size
    BY <2>1 DEF CmaRecord
  <2>3. Ask(opt) = CmaAsk(opt)
    BY <2>2 DEF Ask
  <2>4. IsList(CmaAsk(opt).candidates, s.size)
    BY <2>2, DrawnFills DEF Sized
  <2>5. PICK after : CmaAsk(opt).optimizer = [opt EXCEPT !.rng = after]
    BY DEF CmaAsk
  <2>6. [opt EXCEPT !.rng = after]
          = CmaRecord(s, mean, sigma, path, generation, after, genes, fitness)
    BY <2>1 DEF CmaRecord
  <2>7. Kin(s, CmaAsk(opt).optimizer)
    BY <1>2, <2>5, <2>6 DEF Kin
  <2> QED BY <2>3, <2>4, <2>7
<1> QED BY <1>1, <1>2

(* Telling keeps the optimizer that, whatever it is told.                   *)
LEMMA TellIsKin ==
  ASSUME NEW s, Sized(s), NEW opt, Kin(s, opt), NEW told, NEW fits
  PROVE  Kin(s, Tell(opt, told, fits))
<1> DEFINE r == Ranked(fits)
           best == KeepBest(opt, told[r[1]], fits[r[1]])
<1>1. CASE s.strategy = "ga"
  <2>1. PICK population, rng, genes, fitness :
          opt = GaRecord(s, population, rng, genes, fitness) /\ IsList(population, s.size)
    BY <1>1 DEF Kin
  <2>2. opt.strategy = "ga" /\ opt.size = s.size /\ "population" \in DOMAIN opt
    BY <2>1 DEF GaRecord
  <2>3. IsList(GaTell(opt, told, fits).population, s.size)
    BY <2>2, BredFills DEF Sized
  <2>4. PICK bg, bf : best = GaRecord(s, population, rng, bg, bf)
    <3>1. best = opt \/ best = [opt EXCEPT !.bestGenes = told[r[1]], !.bestFitness = fits[r[1]]]
      BY DEF KeepBest
    <3>2. [opt EXCEPT !.bestGenes = told[r[1]], !.bestFitness = fits[r[1]]]
            = GaRecord(s, population, rng, told[r[1]], fits[r[1]])
      <4> DEFINE bg == told[r[1]]
                 bf == fits[r[1]]
      <4> HIDE DEF bg, bf
      <4> DEFINE a == [opt EXCEPT !.bestGenes = bg]
                 b == [a EXCEPT !.bestFitness = bf]
      <4>1. a = GaRecord(s, population, rng, bg, fitness)
        BY <2>1 DEF GaRecord
      <4> HIDE DEF a
      <4>2. b = GaRecord(s, population, rng, bg, bf)
        BY <4>1 DEF GaRecord
      <4> QED BY <4>2 DEF a, bg, bf
    <3> HIDE DEF best
    <3> QED BY <2>1, <3>1, <3>2
  <2>5. PICK members, after :
          GaTell(opt, told, fits) = [best EXCEPT !.population = members, !.rng = after]
    BY DEF GaTell
  <2> HIDE DEF best
  <2>6. GaTell(opt, told, fits) = GaRecord(s, members, after, bg, bf)
    BY <2>4, <2>5 DEF GaRecord
  <2>7. GaTell(opt, told, fits).population = members
    BY <2>6 DEF GaRecord
  <2>8. Tell(opt, told, fits) = GaTell(opt, told, fits)
    BY <2>2 DEF Tell
  <2> QED BY <1>1, <2>3, <2>6, <2>7, <2>8 DEF Kin
<1>2. CASE s.strategy # "ga"
  <2>1. PICK mean, sigma, path, generation, rng, genes, fitness :
          opt = CmaRecord(s, mean, sigma, path, generation, rng, genes, fitness)
    BY <1>2 DEF Kin
  <2>2. opt.strategy # "ga"
    BY <2>1 DEF CmaRecord
  <2>3. PICK bg, bf : best = CmaRecord(s, mean, sigma, path, generation, rng, bg, bf)
    <3>1. best = opt \/ best = [opt EXCEPT !.bestGenes = told[r[1]], !.bestFitness = fits[r[1]]]
      BY DEF KeepBest
    <3>2. [opt EXCEPT !.bestGenes = told[r[1]], !.bestFitness = fits[r[1]]]
            = CmaRecord(s, mean, sigma, path, generation, rng, told[r[1]], fits[r[1]])
      <4> DEFINE bg == told[r[1]]
                 bf == fits[r[1]]
      <4> HIDE DEF bg, bf
      <4> DEFINE a == [opt EXCEPT !.bestGenes = bg]
                 b == [a EXCEPT !.bestFitness = bf]
      <4>1. a = CmaRecord(s, mean, sigma, path, generation, rng, bg, fitness)
        BY <2>1 DEF CmaRecord
      <4> HIDE DEF a
      <4>2. b = CmaRecord(s, mean, sigma, path, generation, rng, bg, bf)
        BY <4>1 DEF CmaRecord
      <4> QED BY <4>2 DEF a, bg, bf
    <3> HIDE DEF best
    <3> QED BY <2>1, <3>1, <3>2
  <2>4. PICK m, p, z, g :
          CmaTell(opt, told, fits)
            = [best EXCEPT !.mean = m, !.path = p, !.sigma = z, !.generation = g]
    BY DEF CmaTell
  <2> HIDE DEF best
  <2>5. CmaTell(opt, told, fits) = CmaRecord(s, m, z, p, g, rng, bg, bf)
    BY <2>3, <2>4 DEF CmaRecord
  <2>6. Tell(opt, told, fits) = CmaTell(opt, told, fits)
    BY <2>2 DEF Tell
  <2> QED BY <1>2, <2>5, <2>6 DEF Kin
<1> QED BY <1>1, <1>2

(* A snapshot carries everything that telling and asking move.              *)
LEMMA RestoredIsTheSame ==
  ASSUME NEW s, Sized(s), NEW opt, Kin(s, opt)
  PROVE  Restored(Own(s), Snapshot(opt)) = opt
<1> DEFINE own == Own(s)
<1>1. Kin(s, own)
  BY OwnIsKin
<1> HIDE DEF own
<1>2. CASE s.strategy = "ga"
  <2>1. PICK population, rng, genes, fitness :
          opt = GaRecord(s, population, rng, genes, fitness)
    BY <1>2 DEF Kin
  <2>2. PICK p, z, g, f : own = GaRecord(s, p, z, g, f)
    BY <1>1, <1>2 DEF Kin
  <2> DEFINE snapshot == Snapshot(opt)
  <2>3. snapshot.state = [population |-> population, rng |-> rng,
                          bestGenes |-> genes, bestFitness |-> fitness]
    BY <2>1 DEF GaRecord, Snapshot, GaState
  <2> HIDE DEF snapshot
  <2>4. Restored(own, snapshot) = GaRecord(s, population, rng, genes, fitness)
    <3>1. own.strategy = "ga"
      BY <2>2 DEF GaRecord
    <3>2. Restored(own, snapshot)
            = [own EXCEPT !.population = population, !.rng = rng,
                          !.bestGenes = genes, !.bestFitness = fitness]
      BY <2>3, <3>1 DEF Restored, GaRestored
    <3>3. [own EXCEPT !.population = population, !.rng = rng,
                      !.bestGenes = genes, !.bestFitness = fitness]
            = GaRecord(s, population, rng, genes, fitness)
      <4> DEFINE o1 == [own EXCEPT !.population = population]
                 o2 == [o1 EXCEPT !.rng = rng]
                 o3 == [o2 EXCEPT !.bestGenes = genes]
                 o4 == [o3 EXCEPT !.bestFitness = fitness]
      <4>1. o1 = GaRecord(s, population, z, g, f)
        BY <2>2 DEF GaRecord
      <4> HIDE DEF o1
      <4>2. o2 = GaRecord(s, population, rng, g, f)
        BY <4>1 DEF GaRecord
      <4> HIDE DEF o2
      <4>3. o3 = GaRecord(s, population, rng, genes, f)
        BY <4>2 DEF GaRecord
      <4> HIDE DEF o3
      <4>4. o4 = GaRecord(s, population, rng, genes, fitness)
        BY <4>3 DEF GaRecord
      <4> HIDE DEF o4
      <4> QED BY <4>4 DEF o1, o2, o3, o4
    <3> QED BY <3>2, <3>3
  <2> QED BY <2>1, <2>4 DEF snapshot, own
<1>3. CASE s.strategy # "ga"
  <2>1. PICK mean, sigma, path, generation, rng, genes, fitness :
          opt = CmaRecord(s, mean, sigma, path, generation, rng, genes, fitness)
    BY <1>3 DEF Kin
  <2>2. PICK m, z, p, g, o, bg, bf : own = CmaRecord(s, m, z, p, g, o, bg, bf)
    BY <1>1, <1>3 DEF Kin
  <2> DEFINE snapshot == Snapshot(opt)
  <2>3. snapshot.state = [size |-> s.size, mean |-> mean, sigma |-> sigma, path |-> path,
                          generation |-> generation, rng |-> rng,
                          bestGenes |-> genes, bestFitness |-> fitness]
    BY <2>1 DEF CmaRecord, Snapshot, CmaState
  <2> HIDE DEF snapshot
  <2>4. Restored(own, snapshot) = CmaRecord(s, mean, sigma, path, generation, rng, genes, fitness)
    <3>1. own.strategy # "ga"
      BY <2>2 DEF CmaRecord
    <3>2. Restored(own, snapshot)
            = [own EXCEPT !.mean = mean, !.sigma = sigma, !.path = path,
                          !.generation = generation, !.rng = rng,
                          !.bestGenes = genes, !.bestFitness = fitness]
      BY <2>3, <3>1 DEF Restored, CmaRestored
    <3>3. [own EXCEPT !.mean = mean, !.sigma = sigma, !.path = path,
                      !.generation = generation, !.rng = rng,
                      !.bestGenes = genes, !.bestFitness = fitness]
            = CmaRecord(s, mean, sigma, path, generation, rng, genes, fitness)
      <4> DEFINE o1 == [own EXCEPT !.mean = mean]
                 o2 == [o1 EXCEPT !.sigma = sigma]
                 o3 == [o2 EXCEPT !.path = path]
                 o4 == [o3 EXCEPT !.generation = generation]
                 o5 == [o4 EXCEPT !.rng = rng]
                 o6 == [o5 EXCEPT !.bestGenes = genes]
                 o7 == [o6 EXCEPT !.bestFitness = fitness]
      <4>1. o1 = CmaRecord(s, mean, z, p, g, o, bg, bf)
        BY <2>2 DEF CmaRecord
      <4> HIDE DEF o1
      <4>2. o2 = CmaRecord(s, mean, sigma, p, g, o, bg, bf)
        BY <4>1 DEF CmaRecord
      <4> HIDE DEF o2
      <4>3. o3 = CmaRecord(s, mean, sigma, path, g, o, bg, bf)
        BY <4>2 DEF CmaRecord
      <4> HIDE DEF o3
      <4>4. o4 = CmaRecord(s, mean, sigma, path, generation, o, bg, bf)
        BY <4>3 DEF CmaRecord
      <4> HIDE DEF o4
      <4>5. o5 = CmaRecord(s, mean, sigma, path, generation, rng, bg, bf)
        BY <4>4 DEF CmaRecord
      <4> HIDE DEF o5
      <4>6. o6 = CmaRecord(s, mean, sigma, path, generation, rng, genes, bf)
        BY <4>5 DEF CmaRecord
      <4> HIDE DEF o6
      <4>7. o7 = CmaRecord(s, mean, sigma, path, generation, rng, genes, fitness)
        BY <4>6 DEF CmaRecord
      <4> HIDE DEF o7
      <4> QED BY <4>7 DEF o1, o2, o3, o4, o5, o6, o7
    <3> QED BY <3>2, <3>3
  <2> QED BY <2>1, <2>4 DEF snapshot, own
<1> QED BY <1>2, <1>3

(* And a snapshot is refused by an optimizer of the other strategy or of    *)
(* another size.                                                            *)
LEMMA OtherIsRefused ==
  ASSUME NEW s, Sized(s), NEW t, Sized(t), NEW opt, Kin(s, opt),
         (s.strategy = "ga") # (t.strategy = "ga") \/ s.size # t.size
  PROVE  RestoreError(Own(t), Snapshot(opt)) # "Ok"
<1> DEFINE other == Own(t)
           snapshot == Snapshot(opt)
<1>1. ASSUME NEW u, NEW o, Kin(u, o)
      PROVE  o.size = u.size /\ o.strategy = IF u.strategy = "ga" THEN "ga" ELSE "cma-es"
  <2>1. CASE u.strategy = "ga"
    <3>1. PICK population, rng, genes, fitness : o = GaRecord(u, population, rng, genes, fitness)
      BY <1>1, <2>1 DEF Kin
    <3> QED BY <2>1, <3>1 DEF GaRecord
  <2>2. CASE u.strategy # "ga"
    <3>1. PICK mean, sigma, path, generation, rng, genes, fitness :
            o = CmaRecord(u, mean, sigma, path, generation, rng, genes, fitness)
      BY <1>1, <2>2 DEF Kin
    <3> QED BY <2>2, <3>1 DEF CmaRecord
  <2> QED BY <2>1, <2>2
<1>2. other.size = t.size /\ other.strategy = IF t.strategy = "ga" THEN "ga" ELSE "cma-es"
  <2>1. Kin(t, other)
    BY OwnIsKin
  <2> HIDE DEF other
  <2> QED BY <1>1, <2>1
<1>3. opt.size = s.size /\ opt.strategy = IF s.strategy = "ga" THEN "ga" ELSE "cma-es"
  BY <1>1
<1>4. snapshot.strategy = opt.strategy
  BY DEF Snapshot
<1>5. StateSize(snapshot) = s.size
  <2>1. CASE s.strategy = "ga"
    <3>1. PICK population, rng, genes, fitness :
            opt = GaRecord(s, population, rng, genes, fitness) /\ IsList(population, s.size)
      BY <2>1 DEF Kin
    <3>2. Len(population) = s.size
      BY <3>1, ListLength DEF Sized
    <3>3. snapshot.state = [population |-> population, rng |-> rng,
                            bestGenes |-> genes, bestFitness |-> fitness]
      BY <3>1 DEF GaRecord, Snapshot, GaState
    <3> HIDE DEF snapshot
    <3> QED BY <1>3, <1>4, <2>1, <3>2, <3>3 DEF StateSize
  <2>2. CASE s.strategy # "ga"
    <3>1. PICK mean, sigma, path, generation, rng, genes, fitness :
            opt = CmaRecord(s, mean, sigma, path, generation, rng, genes, fitness)
      BY <2>2 DEF Kin
    <3>2. snapshot.state = [size |-> s.size, mean |-> mean, sigma |-> sigma, path |-> path,
                            generation |-> generation, rng |-> rng,
                            bestGenes |-> genes, bestFitness |-> fitness]
      BY <3>1 DEF CmaRecord, Snapshot, CmaState
    <3> HIDE DEF snapshot
    <3> QED BY <1>3, <1>4, <2>2, <3>2 DEF StateSize
  <2> QED BY <2>1, <2>2
<1> HIDE DEF snapshot, other
<1>6. RestoreError(other, snapshot) # "Ok"
  BY <1>2, <1>3, <1>4, <1>5 DEF RestoreError
<1> QED BY <1>6 DEF other, snapshot

-----------------------------------------------------------------------------
(* What run holds, and what one generation makes of it: functions of the    *)
(* run that was asked for and of what was held before.                      *)
Held(optimizer, baseline, generation, games, answer) ==
  [optimizer |-> optimizer, baseline |-> baseline, generation |-> generation,
   games |-> games, answer |-> answer]

StartOf(s) == Held(Own(s), s.base, 0, 0, NoAnswer)

PlanFor(s, generation) ==
  [games     |-> s.games,
   opponents |-> s.opponents,
   seed      |-> IF s.reseed THEN (s.seed + generation * OddFactor) % SeedSpace ELSE s.seed]

AskedOf(mem) ==
  Held(Ask(mem.optimizer).optimizer, mem.baseline, mem.generation, mem.games, mem.answer)

FieldOf(mem) ==
  [i \in DOMAIN Ask(mem.optimizer).candidates |-> Repair(Ask(mem.optimizer).candidates[i])]

AnswerFor(s, cs, answer, fitness) ==
  LET top == [genes |-> cs[Top(fitness)], fitness |-> fitness[Top(fitness)]]
  IN  IF \/ s.opponents = "RoundRobin"
         \/ answer = NoAnswer
         \/ top.fitness > answer.fitness
      THEN top ELSE answer

ToldOf(s, mem, cs, fitness) ==
  Held(Tell(mem.optimizer, cs, fitness), mem.baseline, mem.generation + 1,
       mem.games + GamesPerGeneration(PlanFor(s, mem.generation), Len(cs)),
       AnswerFor(s, cs, mem.answer, fitness))

FitnessOf(s, mem) == PlayedOut(PlanFor(s, mem.generation), FieldOf(mem), mem.baseline)

OutcomeOf(s, mem) ==
  [candidates |-> FieldOf(mem), fitness |-> FitnessOf(s, mem),
   after      |-> ToldOf(s, AskedOf(mem), FieldOf(mem), FitnessOf(s, mem))]

(* What a run holds after a generation it has told of.                      *)
At(s, rs, g) == IF g = 0 THEN StartOf(s) ELSE rs[g].after

Lawful(s) ==
  /\ s.games \in Nat \ {0} /\ s.size \in Nat /\ s.size >= 2 /\ s.size > Elites
  /\ s.generations \in Nat /\ s.seed \in 0..(SeedSpace - 1)
  /\ s.opponents \in {"Baseline", "RoundRobin"}

-----------------------------------------------------------------------------
(* The inductive invariant.  The generations told of follow one from the    *)
(* other, whatever happened in between.                                     *)
SoundAt(s, rs, g) ==
  /\ \E optimizer, answer :
       /\ At(s, rs, g) = Held(optimizer, s.base, g, g * Total(PlanFor(s, 0), s.size), answer)
       /\ Kin(s, optimizer)
       /\ g = 0 => answer = NoAnswer

FollowsAt(s, rs, g) == rs[g] = OutcomeOf(s, At(s, rs, g - 1))

Told(s, rs) ==
  /\ IsList(rs, Len(rs)) /\ Len(rs) \in 0..s.generations
  /\ \A g \in 0..Len(rs) : SoundAt(s, rs, g)
  /\ \A g \in 1..Len(rs) : FollowsAt(s, rs, g)

(* The answer is that of the best place among those that count.             *)
Eligible(s, g) == IF s.opponents = "Baseline" THEN 1..g ELSE {g}

Above(rs, p, q) ==
  \/ rs[p[1]].fitness[p[2]] > rs[q[1]].fitness[q[2]]
  \/ /\ rs[p[1]].fitness[p[2]] = rs[q[1]].fitness[q[2]]
     /\ p[1] < q[1] \/ (p[1] = q[1] /\ p[2] < q[2])

BestPlace(s, rs, g, p) ==
  /\ p \in Eligible(s, g) \X (1..s.size)
  /\ \A q \in (Eligible(s, g) \X (1..s.size)) \ {p} : Above(rs, p, q)

AnswersAt(s, rs, g) ==
  \E p : /\ BestPlace(s, rs, g, p)
         /\ rs[g].after.answer = [genes   |-> rs[p[1]].candidates[p[2]],
                                  fitness |-> rs[p[1]].fitness[p[2]]]

(* What the process holds, and what the caller kept, is what some           *)
(* generation left.                                                         *)
Holding(s, rs, c, mem, cs) ==
  /\ c = "down" => mem = Nothing
  /\ c \in {"generation", "finished"} => \E g \in 0..Len(rs) : mem = At(s, rs, g)
  /\ c = "arena" => \E g \in 0..Len(rs) : /\ g < s.generations
                                          /\ mem = AskedOf(At(s, rs, g))
                                          /\ cs = FieldOf(At(s, rs, g))

Kept(s, rs, d) == d = Nothing \/ \E g \in 1..Len(rs) : d = Checkpoint(At(s, rs, g))

(* The games of an evaluation: claimed in order, each held by one worker or *)
(* in the sums.                                                             *)
Busy(jobs)    == {w \in Worker : jobs[w] \notin {Idle, Returned}}
InHand(jobs)  == {jobs[w] : w \in Busy(jobs)}
Claimed(n, total) == 0..((IF n > total THEN total ELSE n) - 1)

CreditOf(plan, cs, base, c) ==
  [j \in 0..(Total(plan, Len(cs)) - 1) |-> Credits(plan, cs, base, Job(plan, Len(cs), j))[c]]

SumsOf(sums, c) == [w \in Worker |-> sums[w][c]]

Counting(plan, cs, base, size, n, jobs, sums) ==
  /\ IsList(cs, size)
  /\ n \in Nat
  /\ jobs \in [Worker -> Nat \union {Idle, Returned}]
  /\ sums \in [Worker -> [1..size -> Int]]
  /\ \A w \in Busy(jobs) : jobs[w] < n /\ jobs[w] < Total(plan, size)
  /\ \A v, w \in Busy(jobs) : jobs[v] = jobs[w] => v = w
  /\ \A w \in Worker : jobs[w] = Returned => n >= Total(plan, size)
  /\ \A c \in 1..size :
       SumOn(SumsOf(sums, c), Worker)
         = SumOn(CreditOf(plan, cs, base, c), Claimed(n, Total(plan, size)) \ InHand(jobs))

IInv ==
  /\ setup \in Setup
  /\ pc \in {"down", "generation", "arena", "finished"}
  /\ Told(setup, reports)
  /\ \A g \in 1..Len(reports) : AnswersAt(setup, reports, g)
  /\ Holding(setup, reports, pc, memory, candidates)
  /\ Kept(setup, reports, disk)
  /\ pc = "arena" => Counting(Plan, candidates, memory.baseline, setup.size, next, job, local)

(* What may be asked for has games to play and room for the elites.         *)
LEMMA SetupIsLawful ==
  ASSUME setup \in Setup
  PROVE  Lawful(setup) /\ Sized(setup)
<1>1. Elites \in Nat \ {0}
  BY TuneRunAssumption
<1> QED BY <1>1, TuneRunAssumption DEF Lawful, Sized

(* Every generation of it has a plan that can be played.                    *)
LEMMA PlansArePlans ==
  ASSUME NEW s, Lawful(s), NEW g
  PROVE  IsPlan(PlanFor(s, g))
BY DEF Lawful, IsPlan, PlanFor

(* The plan of a generation depends on the run alone.                       *)
LEMMA PlanIsFor == \A g : PlanOf(g) = PlanFor(setup, g)
BY DEF PlanOf, PlanFor

(* The number of games does not depend on the generation.                   *)
LEMMA TotalsAreEqual ==
  ASSUME NEW s, NEW g, NEW h, NEW n
  PROVE  Total(PlanFor(s, g), n) = Total(PlanFor(s, h), n)
BY DEF Total, GamesPerPairing, PlanFor

(* What is asked of a sound optimizer is a field of the run's size.         *)
LEMMA FieldIsSized ==
  ASSUME NEW s, Lawful(s), Sized(s), NEW rs, NEW g, SoundAt(s, rs, g)
  PROVE  LET mem == At(s, rs, g)
         IN  /\ IsList(FieldOf(mem), s.size)
             /\ Kin(s, AskedOf(mem).optimizer)
             /\ AskedOf(mem) = [mem EXCEPT !.optimizer = Ask(mem.optimizer).optimizer]
             /\ AskedOf(mem).baseline = s.base /\ AskedOf(mem).generation = g
             /\ AskedOf(mem).games = g * Total(PlanFor(s, 0), s.size)
             /\ AskedOf(mem).answer = mem.answer
             /\ mem.baseline = s.base /\ mem.generation = g
             /\ mem.games = g * Total(PlanFor(s, 0), s.size)
             /\ Kin(s, mem.optimizer)
             /\ g = 0 => mem.answer = NoAnswer
             /\ mem # Nothing /\ AskedOf(mem) # Nothing
<1> DEFINE mem == At(s, rs, g)
           total == g * Total(PlanFor(s, 0), s.size)
<1>1. PICK o, a : mem = Held(o, s.base, g, total, a) /\ Kin(s, o) /\ (g = 0 => a = NoAnswer)
  BY DEF SoundAt
<1> HIDE DEF mem, total
<1>2. /\ mem.optimizer = o /\ mem.baseline = s.base /\ mem.generation = g
      /\ mem.games = total /\ mem.answer = a
  BY <1>1 DEF Held
<1>3. Kin(s, Ask(o).optimizer) /\ IsList(Ask(o).candidates, s.size)
  BY <1>1, AskIsKin
<1>4. IsList(FieldOf(mem), s.size)
  <2>1. DOMAIN Ask(o).candidates = 1..s.size
    BY <1>3, ListLength DEF Sized
  <2>2. FieldOf(mem) = [i \in 1..s.size |-> Repair(Ask(o).candidates[i])]
    BY <1>2, <2>1 DEF FieldOf
  <2> QED BY <2>2 DEF IsList
<1>5. AskedOf(mem) = Held(Ask(o).optimizer, s.base, g, total, a)
  BY <1>2 DEF AskedOf
<1>6. [mem EXCEPT !.optimizer = Ask(mem.optimizer).optimizer]
        = Held(Ask(o).optimizer, s.base, g, total, a)
  <2> DEFINE other == Ask(o).optimizer
  <2> HIDE DEF other
  <2>1. [mem EXCEPT !.optimizer = other] = Held(other, s.base, g, total, a)
    BY <1>1 DEF Held
  <2> QED BY <1>2, <2>1 DEF other
<1>7. /\ AskedOf(mem).optimizer = Ask(o).optimizer
      /\ AskedOf(mem).baseline = s.base /\ AskedOf(mem).generation = g
      /\ AskedOf(mem).games = total /\ AskedOf(mem).answer = a
  BY <1>5 DEF Held
<1>8. mem # Nothing /\ AskedOf(mem) # Nothing
  <2>1. "games" \in DOMAIN mem /\ "games" \in DOMAIN AskedOf(mem)
    BY <1>1, <1>5 DEF Held
  <2>2. "games" \notin DOMAIN Nothing
    BY DEF Nothing
  <2> QED BY <2>1, <2>2
<1> QED BY <1>1, <1>2, <1>3, <1>4, <1>5, <1>6, <1>7, <1>8 DEF mem, total

-----------------------------------------------------------------------------
(* Adding to what has been told of leaves what was.                         *)
LEMMA AppendedAt ==
  ASSUME NEW n \in Nat, NEW rs, IsList(rs, n), NEW e
  PROVE  /\ IsList(Append(rs, e), n + 1) /\ Len(Append(rs, e)) = n + 1
         /\ Append(rs, e)[n + 1] = e
         /\ \A g \in 1..n : Append(rs, e)[g] = rs[g]
<1> DEFINE S == {rs[i] : i \in 1..n} \union {e}
<1>1. rs \in Seq(S) /\ Len(rs) = n /\ e \in S
  <2>1. rs \in Seq({rs[i] : i \in 1..n}) /\ Len(rs) = n
    BY ListLength
  <2> QED BY <2>1
<1> HIDE DEF S
<1>2. /\ Append(rs, e) \in Seq(S) /\ Len(Append(rs, e)) = n + 1
      /\ Append(rs, e)[n + 1] = e /\ \A g \in 1..n : Append(rs, e)[g] = rs[g]
  BY <1>1
<1>3. IsList(Append(rs, e), n + 1)
  BY AppendToList
<1> QED BY <1>2, <1>3

(* A report put in its place: one that was there stays, one more is added.  *)
Splice(rs, n, g, e) == SubSeq(rs, 1, g) \o <<e>> \o SubSeq(rs, g + 2, n)

(* A generation told again replaces itself, and a new one is appended.      *)
LEMMA Spliced ==
  ASSUME NEW n \in Nat, NEW rs, IsList(rs, n), NEW g \in 0..n, NEW e
  PROVE  /\ g = n => Splice(rs, n, g, e) = Append(rs, e)
         /\ g < n /\ rs[g + 1] = e => Splice(rs, n, g, e) = rs
<1> DEFINE S == {rs[i] : i \in 1..n} \union {e}
           a == SubSeq(rs, 1, g)
           b == SubSeq(rs, g + 2, n)
<1>1. rs \in Seq(S) /\ Len(rs) = n /\ e \in S
  <2>1. rs \in Seq({rs[i] : i \in 1..n}) /\ Len(rs) = n
    BY ListLength
  <2> QED BY <2>1
<1> HIDE DEF S
<1>2. \A i \in 1..n : rs[i] \in S
  BY <1>1
<1>3. a \in Seq(S) /\ Len(a) = g /\ \A i \in 1..g : a[i] = rs[i]
  <2>1. \A i \in 1..g : rs[i] \in S
    BY <1>2
  <2>2. /\ a \in Seq(S) /\ Len(a) = (IF 1 <= g THEN g - 1 + 1 ELSE 0)
        /\ \A i \in 1..(g - 1 + 1) : a[i] = rs[1 + i - 1]
    BY <2>1, SubSeqProperties
  <2> HIDE DEF a
  <2> QED BY <2>2
<1>4. /\ b \in Seq(S) /\ Len(b) = (IF g < n THEN n - g - 1 ELSE 0)
      /\ \A i \in 1..(n - g - 1) : b[i] = rs[g + 1 + i]
  <2>1. \A i \in (g + 2)..n : rs[i] \in S
    BY <1>2
  <2>2. /\ b \in Seq(S) /\ Len(b) = (IF g + 2 <= n THEN n - (g + 2) + 1 ELSE 0)
        /\ \A i \in 1..(n - (g + 2) + 1) : b[i] = rs[g + 2 + i - 1]
    BY <2>1, SubSeqProperties
  <2> HIDE DEF b
  <2> QED BY <2>2
<1> HIDE DEF a, b
<1> DEFINE c == a \o <<e>>
           d == c \o b
<1>5. /\ c \in Seq(S) /\ Len(c) = g + 1 /\ c[g + 1] = e
      /\ \A i \in 1..g : c[i] = rs[i]
  BY <1>1, <1>3
<1> HIDE DEF c
<1>6. /\ d \in Seq(S) /\ Len(d) = Len(c) + Len(b)
      /\ \A i \in 1..(Len(c) + Len(b)) : d[i] = IF i <= Len(c) THEN c[i] ELSE b[i - Len(c)]
  BY <1>4, <1>5, ConcatProperties
<1> HIDE DEF d
<1>7. ASSUME g = n PROVE d = Append(rs, e)
  <2>1. /\ Append(rs, e) \in Seq(S) /\ Len(Append(rs, e)) = n + 1
        /\ Append(rs, e)[n + 1] = e /\ \A i \in 1..n : Append(rs, e)[i] = rs[i]
    BY <1>1
  <2>2. Len(d) = n + 1 /\ \A i \in 1..(n + 1) : d[i] = c[i]
    BY <1>4, <1>5, <1>6, <1>7
  <2>3. \A i \in 1..(n + 1) : d[i] = Append(rs, e)[i]
    BY <1>5, <1>7, <2>1, <2>2
  <2> QED BY <1>6, <2>1, <2>2, <2>3, SeqEqual
<1>8. ASSUME g < n, rs[g + 1] = e PROVE d = rs
  <2>1. Len(c) = g + 1 /\ Len(c) + Len(b) = n
    BY <1>4, <1>5, <1>8
  <2>2. Len(d) = n
    BY <1>6, <2>1
  <2>3. \A i \in 1..n : d[i] = IF i <= g + 1 THEN c[i] ELSE b[i - (g + 1)]
    BY <1>6, <2>1
  <2>4. ASSUME NEW i \in 1..n PROVE d[i] = rs[i]
    <3>1. CASE i = g + 1
      <4>1. d[i] = c[g + 1]
        BY <2>3, <3>1
      <4> QED BY <1>5, <1>8, <3>1, <4>1
    <3>2. CASE i <= g
      <4>1. d[i] = c[i] /\ i \in 1..g
        BY <2>3, <3>2
      <4> QED BY <1>5, <4>1
    <3>3. CASE i > g + 1
      <4>1. d[i] = b[i - (g + 1)]
        BY <2>3, <3>3
      <4>2. i - (g + 1) \in 1..(n - g - 1) /\ g + 1 + (i - (g + 1)) = i
        BY <1>8, <3>3
      <4>3. b[i - (g + 1)] = rs[g + 1 + (i - (g + 1))]
        BY <1>4, <4>2
      <4> QED BY <4>1, <4>2, <4>3
    <3> QED BY <3>1, <3>2, <3>3
  <2> QED BY <1>1, <1>6, <2>2, <2>4, SeqEqual
<1> QED BY <1>7, <1>8 DEF a, b, c, d, Splice

-----------------------------------------------------------------------------
(* What a candidate is credited with by a game is a natural.                *)
LEMMA CreditsCount ==
  ASSUME NEW plan, NEW cs, NEW base, NEW n \in Nat, IsList(cs, n), NEW c \in 1..n
  PROVE  /\ CreditOf(plan, cs, base, c) \in [0..(Total(plan, n) - 1) -> Int]
         /\ \A j \in 0..(Total(plan, n) - 1) :
              CreditOf(plan, cs, base, c)[j] = Credits(plan, cs, base, Job(plan, n, j))[c]
<1>1. DOMAIN cs = 1..n /\ Len(cs) = n
  BY ListLength
<1>2. MaxDecisions \in Nat
  BY TuneRunAssumption
<1>3. ASSUME NEW game PROVE Credits(plan, cs, base, game)[c] \in Int
  BY <1>1, <1>2, CreditsOfSeated
<1>4. CreditOf(plan, cs, base, c) = [j \in 0..(Total(plan, n) - 1) |->
                                       Credits(plan, cs, base, Job(plan, n, j))[c]]
  BY <1>1 DEF CreditOf
<1>5. [j \in 0..(Total(plan, n) - 1) |-> Credits(plan, cs, base, Job(plan, n, j))[c]]
        \in [0..(Total(plan, n) - 1) -> Int]
  BY <1>3
<1> QED BY <1>4, <1>5

(* A fitness is the sum of the credits of the whole list.                   *)
LEMMA PlayedOutIsSum ==
  ASSUME NEW plan, NEW cs, NEW base, NEW n \in Nat, IsList(cs, n), NEW c \in 1..n,
         Total(plan, n) \in Nat
  PROVE  /\ PlayedOut(plan, cs, base)[c]
              = SumOn(CreditOf(plan, cs, base, c), 0..(Total(plan, n) - 1))
         /\ PlayedOut(plan, cs, base)[c] \in Int
<1> DEFINE J == 0..(Total(plan, n) - 1)
           f == CreditOf(plan, cs, base, c)
<1>1. DOMAIN cs = 1..n /\ Len(cs) = n
  BY ListLength
<1>2. PlayedOut(plan, cs, base)[c] = SumFunction(f)
  BY <1>1 DEF PlayedOut, CreditOf
<1>3. f \in [J -> Int]
  BY CreditsCount
<1>4. IsFiniteSet(J)
  BY FS_Interval
<1> HIDE DEF f, J
<1>5. SumFunction(f) = SumOn(f, J) /\ SumOn(f, J) \in Int
  BY <1>3, <1>4, SumIsSumOn, SumOnInt
<1> QED BY <1>2, <1>5 DEF f, J

(* So a sound generation measures every one of its candidates.              *)
LEMMA FitnessIsScores ==
  ASSUME NEW s, Lawful(s), Sized(s), NEW rs, NEW g, SoundAt(s, rs, g)
  PROVE  FitnessOf(s, At(s, rs, g)) \in [1..s.size -> Int]
<1> DEFINE mem == At(s, rs, g)
           cs == FieldOf(mem)
           plan == PlanFor(s, mem.generation)
<1>1. IsList(cs, s.size)
  BY FieldIsSized
<1>2. s.size \in Nat /\ s.size \in Nat \ {0}
  BY DEF Lawful
<1>3. DOMAIN cs = 1..s.size
  BY <1>1, <1>2, ListLength
<1>4. Total(plan, s.size) \in Nat
  BY <1>2, PlansArePlans, TotalIsRuns
<1> HIDE DEF cs, plan
<1>5. \A c \in 1..s.size : PlayedOut(plan, cs, mem.baseline)[c] \in Int
  BY <1>1, <1>2, <1>4, PlayedOutIsSum
<1>6. PlayedOut(plan, cs, mem.baseline) \in [1..s.size -> Int]
  BY <1>3, <1>5 DEF PlayedOut
<1> QED BY <1>6 DEF FitnessOf, cs, plan

(* What has been told of a generation depends on those up to it only.       *)
LEMMA PrefixSuffices ==
  ASSUME NEW s, NEW n \in Nat, NEW rs, NEW more, \A g \in 1..n : more[g] = rs[g]
  PROVE  /\ \A g \in 0..n : At(s, more, g) = At(s, rs, g)
         /\ \A g \in 0..n : SoundAt(s, rs, g) => SoundAt(s, more, g)
         /\ \A g \in 1..n : FollowsAt(s, rs, g) => FollowsAt(s, more, g)
         /\ \A g \in 1..n : AnswersAt(s, rs, g) => AnswersAt(s, more, g)
<1>1. \A g \in 0..n : At(s, more, g) = At(s, rs, g)
  BY DEF At
<1>2. \A g \in 0..n : SoundAt(s, rs, g) => SoundAt(s, more, g)
  BY <1>1 DEF SoundAt
<1>3. ASSUME NEW g \in 1..n, FollowsAt(s, rs, g) PROVE FollowsAt(s, more, g)
  <2>1. g - 1 \in 0..n
    OBVIOUS
  <2> QED BY <1>1, <1>3, <2>1 DEF FollowsAt
<1>4. ASSUME NEW g \in 1..n, AnswersAt(s, rs, g) PROVE AnswersAt(s, more, g)
  <2>1. PICK p : /\ BestPlace(s, rs, g, p)
                 /\ rs[g].after.answer = [genes   |-> rs[p[1]].candidates[p[2]],
                                          fitness |-> rs[p[1]].fitness[p[2]]]
    BY <1>4 DEF AnswersAt
  <2>2. ASSUME NEW q \in Eligible(s, g) \X (1..s.size) PROVE q[1] \in 1..n
    BY DEF Eligible
  <2>3. \A q \in Eligible(s, g) \X (1..s.size) : more[q[1]] = rs[q[1]]
    BY <2>2
  <2>4. p \in Eligible(s, g) \X (1..s.size)
    BY <2>1 DEF BestPlace
  <2>5. BestPlace(s, more, g, p)
    <3> SUFFICES ASSUME NEW q \in (Eligible(s, g) \X (1..s.size)) \ {p}
                 PROVE  Above(more, p, q)
      BY <2>4 DEF BestPlace
    <3>1. Above(rs, p, q)
      BY <2>1 DEF BestPlace
    <3>2. more[p[1]] = rs[p[1]] /\ more[q[1]] = rs[q[1]]
      BY <2>3, <2>4
    <3> QED BY <3>1, <3>2 DEF Above
  <2>6. more[g].after.answer = [genes   |-> more[p[1]].candidates[p[2]],
                                fitness |-> more[p[1]].fitness[p[2]]]
    BY <2>1, <2>3, <2>4
  <2> QED BY <2>5, <2>6 DEF AnswersAt
<1> QED BY <1>1, <1>2, <1>3, <1>4

(* Generations told of have scores to compare.                              *)
LEMMA ToldScores ==
  ASSUME NEW s, Lawful(s), Sized(s), NEW rs, Told(s, rs), NEW g \in 1..Len(rs)
  PROVE  /\ rs[g].fitness \in [1..s.size -> Int]
         /\ rs[g].fitness = FitnessOf(s, At(s, rs, g - 1))
         /\ rs[g].candidates = FieldOf(At(s, rs, g - 1))
         /\ rs[g].after = ToldOf(s, AskedOf(At(s, rs, g - 1)), FieldOf(At(s, rs, g - 1)),
                                 FitnessOf(s, At(s, rs, g - 1)))
<1>1. Len(rs) \in Nat
  BY DEF Told, Lawful
<1>2. g - 1 \in 0..Len(rs)
  BY <1>1
<1>3. SoundAt(s, rs, g - 1) /\ FollowsAt(s, rs, g)
  BY <1>2 DEF Told
<1>4. FitnessOf(s, At(s, rs, g - 1)) \in [1..s.size -> Int]
  BY <1>3, FitnessIsScores
<1> QED BY <1>3, <1>4 DEF FollowsAt, OutcomeOf

(* The answer of a generation is the best of those that count, given that   *)
(* the one before it was.                                                   *)
LEMMA BestStays ==
  ASSUME NEW s, Lawful(s), NEW n \in Nat, NEW rs,
         \A g \in 1..(n + 1) : rs[g].fitness \in [1..s.size -> Int],
         n > 0 => AnswersAt(s, rs, n),
         NEW before, n > 0 => before = rs[n].after.answer, n = 0 => before = NoAnswer,
         rs[n + 1].after.answer
           = AnswerFor(s, rs[n + 1].candidates, before, rs[n + 1].fitness)
  PROVE  AnswersAt(s, rs, n + 1)
<1> DEFINE m == n + 1
           score(p) == rs[p[1]].fitness[p[2]]
           entry(p) == [genes |-> rs[p[1]].candidates[p[2]], fitness |-> score(p)]
           t == Top(rs[m].fitness)
           new == <<m, t>>
           Places == Eligible(s, m) \X (1..s.size)
<1>1. s.size \in Nat \ {0} /\ m \in 1..m /\ m \in Nat \ {0}
  BY DEF Lawful
<1>2. rs[m].fitness \in [1..s.size -> Int]
  BY <1>1
<1>3. FirstBest(rs[m].fitness, s.size, t)
  BY <1>1, <1>2, TopIsFirstBest
<1>4. t \in 1..s.size /\ new \in Places /\ new[1] = m /\ new[2] = t
  BY <1>1, <1>3 DEF FirstBest, Eligible
<1>5. \A q \in Places : /\ q[1] \in 1..m /\ q[2] \in 1..s.size /\ q = <<q[1], q[2]>>
                        /\ score(q) \in Int
  <2> SUFFICES ASSUME NEW q \in Places
               PROVE  /\ q[1] \in 1..m /\ q[2] \in 1..s.size /\ q = <<q[1], q[2]>>
                      /\ score(q) \in Int
    OBVIOUS
  <2>1. q[1] \in 1..m /\ q[2] \in 1..s.size /\ q = <<q[1], q[2]>>
    BY <1>1 DEF Eligible
  <2>2. rs[q[1]].fitness \in [1..s.size -> Int]
    BY <2>1
  <2> QED BY <2>1, <2>2
<1>6. \A q \in Places : q[1] = m => /\ score(q) <= score(new)
                                    /\ q # new => Above(rs, new, q)
  <2> SUFFICES ASSUME NEW q \in Places, q[1] = m
               PROVE  score(q) <= score(new) /\ (q # new => Above(rs, new, q))
    OBVIOUS
  <2>1. q[2] \in 1..s.size /\ (q # new => q[2] # t)
    BY <1>5
  <2>2. /\ rs[m].fitness[q[2]] <= rs[m].fitness[t]
        /\ (q[2] < t => rs[m].fitness[q[2]] < rs[m].fitness[t])
    BY <1>3, <2>1 DEF FirstBest
  <2>3. score(q) = rs[m].fitness[q[2]] /\ score(new) = rs[m].fitness[t]
    BY <1>4
  <2>4. score(q) \in Int /\ score(new) \in Int
    BY <1>4, <1>5
  <2>5. t \in Int /\ q[2] \in Int
    BY <1>4, <2>1
  <2>6. ASSUME q # new PROVE Above(rs, new, q)
    <3>1. q[2] < t \/ t < q[2]
      BY <2>1, <2>5, <2>6
    <3>2. CASE q[2] < t
      BY <1>4, <2>2, <2>3, <2>4, <3>2 DEF Above
    <3>3. CASE t < q[2]
      <4>1. score(new) > score(q) \/ score(new) = score(q)
        BY <2>2, <2>3, <2>4
      <4> QED BY <1>4, <3>3, <4>1 DEF Above
    <3> QED BY <3>1, <3>2, <3>3
  <2> QED BY <2>2, <2>3, <2>6
<1>7. \A p : BestPlace(s, rs, m, p) /\ rs[m].after.answer = entry(p) => AnswersAt(s, rs, m)
  BY DEF AnswersAt
<1>8. rs[m].after.answer = IF \/ s.opponents = "RoundRobin" \/ before = NoAnswer
                              \/ score(new) > before.fitness
                           THEN entry(new) ELSE before
  <2>1. new[1] = m /\ new[2] = t
    BY <1>4
  <2> HIDE DEF t, new
  <2>2. entry(new) = [genes |-> rs[m].candidates[t], fitness |-> rs[m].fitness[t]]
        /\ score(new) = rs[m].fitness[t] /\ entry(new).fitness = score(new)
    BY <2>1
  <2>3. AnswerFor(s, rs[m].candidates, before, rs[m].fitness)
          = IF \/ s.opponents = "RoundRobin" \/ before = NoAnswer
               \/ entry(new).fitness > before.fitness
            THEN entry(new) ELSE before
    BY <2>2 DEF AnswerFor, t
  <2> QED BY <2>2, <2>3
<1>9. CASE s.opponents = "RoundRobin" \/ n = 0
  <2>1. \A q \in Places : q[1] = m
    BY <1>5, <1>9 DEF Eligible, Lawful
  <2>2. BestPlace(s, rs, m, new)
    BY <1>4, <1>6, <2>1 DEF BestPlace
  <2>3. rs[m].after.answer = entry(new)
    BY <1>8, <1>9
  <2> QED BY <1>7, <2>2, <2>3
<1>10. CASE s.opponents = "Baseline" /\ n > 0
  <2>1. PICK p : BestPlace(s, rs, n, p) /\ rs[n].after.answer = entry(p)
    BY <1>10 DEF AnswersAt
  <2>2. Eligible(s, n) = 1..n /\ Eligible(s, m) = 1..m
    BY <1>10 DEF Eligible
  <2>3. p \in (1..n) \X (1..s.size) /\ p \in Places /\ p[1] \in 1..n
        /\ \A q \in ((1..n) \X (1..s.size)) \ {p} : Above(rs, p, q)
    BY <2>1, <2>2 DEF BestPlace
  <2>4. before = entry(p) /\ before # NoAnswer /\ before.fitness = score(p)
    <3>1. before = entry(p)
      BY <1>10, <2>1
    <3>2. "genes" \in DOMAIN entry(p) /\ "genes" \notin DOMAIN NoAnswer
      BY DEF NoAnswer
    <3> QED BY <3>1, <3>2
  <2>5. score(p) \in Int /\ score(new) \in Int /\ new[1] = m
    BY <1>4, <1>5, <2>3
  <2>6. \A q \in Places : q[1] # m => q \in (1..n) \X (1..s.size)
    BY <2>2, <1>5
  <2> HIDE DEF score, entry, new, Places
  <2>7. CASE score(new) > score(p)
    <3>1. ASSUME NEW q \in Places, q # new PROVE Above(rs, new, q)
      <4>1. CASE q[1] = m
        BY <1>6, <3>1, <4>1
      <4>2. CASE q[1] # m
        <5>1. q = p \/ Above(rs, p, q)
          BY <2>3, <2>6, <4>2
        <5>2. score(q) <= score(p) /\ score(q) \in Int
          BY <1>5, <2>5, <5>1 DEF Above, score
        <5>3. score(new) > score(q)
          BY <2>5, <2>7, <5>2
        <5> QED BY <5>3 DEF Above, score
      <4> QED BY <4>1, <4>2
    <3>2. BestPlace(s, rs, m, new)
      BY <1>4, <3>1 DEF BestPlace, Places
    <3>3. rs[m].after.answer = entry(new)
      BY <1>8, <2>4, <2>7
    <3> QED BY <1>7, <3>2, <3>3
  <2>8. CASE ~(score(new) > score(p))
    <3>1. ASSUME NEW q \in Places, q # p PROVE Above(rs, p, q)
      <4>1. CASE q[1] = m
        <5>1. score(q) <= score(new) /\ score(q) \in Int
          BY <1>5, <1>6, <4>1
        <5>2. score(p) > score(q) \/ score(p) = score(q)
          BY <2>5, <2>8, <5>1
        <5>3. p[1] < q[1]
          BY <2>3, <4>1
        <5> QED BY <5>2, <5>3 DEF Above, score
      <4>2. CASE q[1] # m
        BY <2>3, <2>6, <3>1, <4>2
      <4> QED BY <4>1, <4>2
    <3>2. BestPlace(s, rs, m, p)
      BY <2>3, <3>1 DEF BestPlace, Places
    <3>3. rs[m].after.answer = entry(p)
      BY <1>8, <1>10, <2>4, <2>8
    <3> QED BY <1>7, <3>2, <3>3
  <2> QED BY <2>7, <2>8
<1> QED BY <1>9, <1>10 DEF Lawful

(* One more generation, told of in its turn.                                *)
LEMMA ToldOneMore ==
  ASSUME NEW s, Lawful(s), Sized(s), NEW rs, Told(s, rs), Len(rs) < s.generations,
         \A g \in 1..Len(rs) : AnswersAt(s, rs, g),
         NEW more, more = Append(rs, OutcomeOf(s, At(s, rs, Len(rs))))
  PROVE  /\ Told(s, more) /\ Len(more) = Len(rs) + 1
         /\ \A g \in 1..Len(more) : AnswersAt(s, more, g)
         /\ \A g \in 0..Len(rs) : At(s, more, g) = At(s, rs, g)
<1> DEFINE n == Len(rs)
           m == n + 1
           mem == At(s, rs, n)
           e == OutcomeOf(s, mem)
           plan == PlanFor(s, n)
           total == Total(PlanFor(s, 0), s.size)
<1>1. /\ n \in Nat /\ IsList(rs, n) /\ s.generations \in Nat /\ m \in 0..s.generations
      /\ n \in 0..n /\ s.size \in Nat \ {0} /\ m \in 1..m /\ m - 1 = n
  BY DEF Told, Lawful
<1>2. /\ \A g \in 0..n : SoundAt(s, rs, g)
      /\ \A g \in 1..n : FollowsAt(s, rs, g)
  BY DEF Told
<1> HIDE DEF n
<1>3. /\ IsList(more, m) /\ Len(more) = m /\ more[m] = e
      /\ \A g \in 1..n : more[g] = rs[g]
  BY <1>1, AppendedAt DEF n
<1>4. /\ \A g \in 0..n : At(s, more, g) = At(s, rs, g)
      /\ \A g \in 0..n : SoundAt(s, more, g)
      /\ \A g \in 1..n : FollowsAt(s, more, g) /\ AnswersAt(s, more, g)
  <2>1. \A g \in 1..n : AnswersAt(s, rs, g)
    BY DEF n
  <2>2. /\ \A g \in 0..n : At(s, more, g) = At(s, rs, g)
        /\ \A g \in 0..n : SoundAt(s, rs, g) => SoundAt(s, more, g)
        /\ \A g \in 1..n : FollowsAt(s, rs, g) => FollowsAt(s, more, g)
        /\ \A g \in 1..n : AnswersAt(s, rs, g) => AnswersAt(s, more, g)
    <3>1. n \in Nat /\ \A g \in 1..n : more[g] = rs[g]
      BY <1>1, <1>3
    <3> QED BY ONLY <3>1, PrefixSuffices
  <2> QED BY <1>2, <2>1, <2>2
<1>5. FollowsAt(s, more, m)
  BY <1>1, <1>3, <1>4 DEF FollowsAt
<1>6. /\ IsList(FieldOf(mem), s.size)
      /\ Kin(s, AskedOf(mem).optimizer)
      /\ AskedOf(mem).baseline = s.base /\ AskedOf(mem).generation = n
      /\ AskedOf(mem).games = n * total /\ AskedOf(mem).answer = mem.answer
      /\ mem.generation = n /\ mem.baseline = s.base
      /\ (n = 0 => mem.answer = NoAnswer)
  BY <1>1, <1>2, FieldIsSized
<1>7. Len(FieldOf(mem)) = s.size
  BY <1>1, <1>6, ListLength
<1>8. GamesPerGeneration(plan, s.size) = total /\ total \in Nat
  <2>1. IsPlan(plan) /\ IsPlan(PlanFor(s, 0))
    BY PlansArePlans
  <2>2. Total(plan, s.size) = GamesPerGeneration(plan, s.size) /\ total \in Nat
    BY <1>1, <2>1, TotalIsRuns
  <2>3. Total(plan, s.size) = total
    BY TotalsAreEqual
  <2> QED BY <2>2, <2>3
<1>9. n * total + total = m * total
  <2> HIDE DEF total
  <2> QED BY <1>1, <1>8
<1> DEFINE after == ToldOf(s, AskedOf(mem), FieldOf(mem), FitnessOf(s, mem))
           tuned == Tell(AskedOf(mem).optimizer, FieldOf(mem), FitnessOf(s, mem))
           answer == AnswerFor(s, FieldOf(mem), mem.answer, FitnessOf(s, mem))
<1>10. after = Held(tuned, s.base, m, m * total, answer)
  <2> HIDE DEF tuned, answer, total, mem
  <2>1. ToldOf(s, AskedOf(mem), FieldOf(mem), FitnessOf(s, mem))
          = Held(tuned, s.base, n + 1, n * total + total, answer)
    BY <1>6, <1>7, <1>8 DEF ToldOf, tuned, answer
  <2> QED BY <1>9, <2>1
<1>11. Kin(s, tuned)
  BY <1>6, TellIsKin
<1>12. e.after = after /\ e.candidates = FieldOf(mem) /\ e.fitness = FitnessOf(s, mem)
  BY DEF OutcomeOf
<1>13. SoundAt(s, more, m)
  <2>1. At(s, more, m) = after
    BY <1>1, <1>3, <1>12 DEF At
  <2> HIDE DEF after, tuned, answer, total
  <2>2. At(s, more, m) = Held(tuned, s.base, m, m * total, answer)
    BY <1>10, <2>1
  <2> QED BY <1>1, <1>11, <2>2 DEF SoundAt, total
<1>14. Told(s, more)
  <2>1. ASSUME NEW g \in 0..m PROVE SoundAt(s, more, g)
    <3>1. g \in 0..n \/ g = m
      BY <1>1
    <3> QED BY <1>4, <1>13, <3>1
  <2>2. ASSUME NEW g \in 1..m PROVE FollowsAt(s, more, g)
    <3>1. g \in 1..n \/ g = m
      BY <1>1
    <3> QED BY <1>4, <1>5, <3>1
  <2> QED BY <1>1, <1>3, <2>1, <2>2 DEF Told
<1>15. AnswersAt(s, more, m)
  <2>1. \A g \in 1..m : more[g].fitness \in [1..s.size -> Int]
    <3>1. Len(more) = m
      BY <1>3
    <3> QED BY <1>14, <3>1, ToldScores
  <2>2. n > 0 => AnswersAt(s, more, n)
    <3>1. n > 0 => n \in 1..n
      BY <1>1
    <3> QED BY <1>4, <3>1
  <2>3. n > 0 => mem.answer = more[n].after.answer
    <3>1. n > 0 => n \in 1..n /\ At(s, rs, n) = rs[n].after
      BY <1>1 DEF At
    <3> QED BY <1>3, <3>1
  <2>4. after.answer = answer
    <3> HIDE DEF after, answer
    <3> QED BY <1>10 DEF Held
  <2>5. more[m].after.answer
          = AnswerFor(s, more[m].candidates, mem.answer, more[m].fitness)
    <3> HIDE DEF after, mem
    <3> QED BY <1>3, <1>12, <2>4
  <2> HIDE DEF mem
  <2> QED BY <1>1, <1>6, <2>1, <2>2, <2>3, <2>5, BestStays
<1>16. \A g \in 1..m : g \in 1..n \/ g = m
  BY <1>1
<1> QED BY <1>1, <1>3, <1>4, <1>14, <1>15, <1>16 DEF n

-----------------------------------------------------------------------------
(* The counting of games, step by step.  It starts from nothing.            *)
LEMMA CountingStarts ==
  ASSUME NEW plan, NEW cs, NEW base, NEW size \in Nat, IsList(cs, size),
         Total(plan, size) \in Nat
  PROVE  Counting(plan, cs, base, size, 0, [w \in Worker |-> Idle], Zeros(size))
<1> DEFINE jobs == [w \in Worker |-> Idle]
           sums == Zeros(size)
           total == Total(plan, size)
<1>1. IsFiniteSet(Worker) /\ Idle # Returned
  BY TuneRunAssumption
<1>2. Busy(jobs) = {}
  BY DEF Busy
<1>3. InHand(jobs) = {}
  BY <1>2 DEF InHand
<1>4. jobs \in [Worker -> Nat \union {Idle, Returned}]
  OBVIOUS
<1>5. \A w \in Worker : jobs[w] # Returned
  BY <1>1
<1>6. Claimed(0, total) = {}
  <2>1. total \in Nat
    OBVIOUS
  <2> HIDE DEF total
  <2>2. (IF 0 > total THEN total ELSE 0) = 0
    BY <2>1
  <2> QED BY <2>2 DEF Claimed
<1>7. sums \in [Worker -> [1..size -> Int]] /\ \A w \in Worker : \A c \in 1..size : sums[w][c] = 0
  BY DEF Zeros
<1> HIDE DEF jobs, sums, total
<1>8. ASSUME NEW c \in 1..size
      PROVE  SumOn(SumsOf(sums, c), Worker)
               = SumOn(CreditOf(plan, cs, base, c), Claimed(0, total) \ InHand(jobs))
  <2>1. /\ SumsOf(sums, c) \in [Worker -> Int]
        /\ \A w \in Worker : SumsOf(sums, c)[w] = 0
    BY <1>7 DEF SumsOf
  <2>2. SumOn(SumsOf(sums, c), Worker) = 0
    BY <1>1, <2>1, SumOfZeros
  <2>3. Claimed(0, total) \ InHand(jobs) = {}
    BY <1>6
  <2> QED BY <2>2, <2>3, SumOnNone
<1>9. Counting(plan, cs, base, size, 0, jobs, sums)
  BY <1>2, <1>4, <1>5, <1>7, <1>8 DEF Counting, total
<1> QED BY <1>9 DEF jobs, sums

(* A worker claims the next game: it is claimed, and in that worker's hand. *)
LEMMA CountingClaims ==
  ASSUME NEW plan, NEW cs, NEW base, NEW size \in Nat, Total(plan, size) \in Nat,
         NEW n, NEW jobs, NEW sums, Counting(plan, cs, base, size, n, jobs, sums),
         NEW w \in Worker, jobs[w] = Idle
  PROVE  Counting(plan, cs, base, size, n + 1,
                  [jobs EXCEPT ![w] = IF n >= Total(plan, size) THEN Returned ELSE n], sums)
<1> DEFINE total == Total(plan, size)
           taken == IF n >= total THEN Returned ELSE n
           after == [jobs EXCEPT ![w] = taken]
<1>1. Idle # Returned /\ Idle \notin Nat /\ Returned \notin Nat
  BY TuneRunAssumption
<1>2. /\ IsList(cs, size)
      /\ n \in Nat
      /\ jobs \in [Worker -> Nat \union {Idle, Returned}]
      /\ sums \in [Worker -> [1..size -> Int]]
      /\ \A v \in Busy(jobs) : jobs[v] < n /\ jobs[v] < total
      /\ \A v, x \in Busy(jobs) : jobs[v] = jobs[x] => v = x
      /\ \A v \in Worker : jobs[v] = Returned => n >= total
      /\ \A c \in 1..size :
           SumOn(SumsOf(sums, c), Worker)
             = SumOn(CreditOf(plan, cs, base, c), Claimed(n, total) \ InHand(jobs))
  BY DEF Counting
<1>3. total \in Nat
  OBVIOUS
<1> HIDE DEF total
<1>4. taken \in Nat \union {Idle, Returned} /\ (n >= total => taken = Returned)
      /\ (n < total => taken = n)
  BY <1>2, <1>3
<1> HIDE DEF taken
<1>5. /\ after \in [Worker -> Nat \union {Idle, Returned}]
      /\ after[w] = taken /\ \A v \in Worker \ {w} : after[v] = jobs[v]
  BY <1>2, <1>4
<1> HIDE DEF after
<1>6. w \notin Busy(jobs) /\ Busy(jobs) \subseteq Worker
  BY DEF Busy
<1>7. Busy(after) = IF n >= total THEN Busy(jobs) ELSE Busy(jobs) \union {w}
  <2>1. \A v \in Worker \ {w} : v \in Busy(after) <=> v \in Busy(jobs)
    BY <1>5 DEF Busy
  <2>2. w \in Busy(after) <=> n < total
    BY <1>1, <1>2, <1>3, <1>4, <1>5 DEF Busy
  <2>3. Busy(after) \subseteq Worker
    BY DEF Busy
  <2>4. CASE n >= total
    <3>1. w \notin Busy(after)
      BY <1>2, <1>3, <2>2, <2>4
    <3> QED BY <1>6, <2>1, <2>3, <2>4, <3>1
  <2>5. CASE n < total
    <3>1. w \in Busy(after) /\ ~(n >= total)
      BY <1>2, <1>3, <2>2, <2>5
    <3> QED BY <1>6, <2>1, <2>3, <3>1
  <2> QED BY <1>2, <1>3, <2>4, <2>5
<1>8. \A v \in Busy(jobs) : after[v] = jobs[v]
  BY <1>5, <1>6
<1>9. \A v \in Busy(jobs) : jobs[v] \in Nat
  BY <1>2 DEF Busy
<1>10. \A v \in Busy(after) : after[v] < n + 1 /\ after[v] < total
  BY <1>2, <1>3, <1>4, <1>5, <1>7, <1>8, <1>9
<1>11. \A v, x \in Busy(after) : after[v] = after[x] => v = x
  <2>1. \A v \in Busy(jobs) : after[v] # n
    BY <1>2, <1>8, <1>9
  <2>2. CASE n >= total
    BY <1>2, <1>7, <1>8, <2>2
  <2>3. CASE n < total
    <3>1. after[w] = n /\ Busy(after) = Busy(jobs) \union {w}
      BY <1>2, <1>3, <1>4, <1>5, <1>7, <2>3
    <3> QED BY <1>2, <1>8, <2>1, <3>1
  <2> QED BY <1>2, <1>3, <2>2, <2>3
<1>12. \A v \in Worker : after[v] = Returned => n + 1 >= total
  <2> SUFFICES ASSUME NEW v \in Worker, after[v] = Returned PROVE n >= total
    BY <1>2, <1>3
  <2>1. CASE v = w
    BY <1>1, <1>2, <1>3, <1>4, <1>5, <2>1
  <2>2. CASE v # w
    BY <1>2, <1>5, <2>2
  <2> QED BY <2>1, <2>2
<1>13. Claimed(n + 1, total) \ InHand(after) = Claimed(n, total) \ InHand(jobs)
  <2>1. CASE n >= total
    <3>1. Claimed(n + 1, total) = Claimed(n, total)
      BY <1>2, <1>3, <2>1 DEF Claimed
    <3>2. InHand(after) = InHand(jobs)
      BY <1>7, <1>8, <2>1 DEF InHand
    <3> QED BY <3>1, <3>2
  <2>2. CASE n < total
    <3>1. Claimed(n + 1, total) = Claimed(n, total) \union {n} /\ n \notin Claimed(n, total)
      BY <1>2, <1>3, <2>2 DEF Claimed
    <3>2. after[w] = n /\ Busy(after) = Busy(jobs) \union {w}
      BY <1>2, <1>3, <1>4, <1>5, <1>7, <2>2
    <3>3. InHand(after) = InHand(jobs) \union {n}
      BY <1>8, <3>2 DEF InHand
    <3> QED BY <3>1, <3>3
  <2> QED BY <1>2, <1>3, <2>1, <2>2
<1>14. n + 1 \in Nat
  BY <1>2
<1>15. Counting(plan, cs, base, size, n + 1, after, sums)
  BY <1>2, <1>5, <1>10, <1>11, <1>12, <1>13, <1>14 DEF Counting, total
<1> QED BY <1>15 DEF after, taken, total

(* A worker plays the game in its hand: out of the hand, into the sums.     *)
Added(sums, w, credit) == [sums EXCEPT ![w] = [c \in DOMAIN @ |-> @[c] + credit[c]]]

(* A game that is played leaves its worker's hand for the sums.             *)
LEMMA CountingPlays ==
  ASSUME NEW plan, NEW cs, NEW base, NEW size \in Nat, Total(plan, size) \in Nat,
         NEW n, NEW jobs, NEW sums, Counting(plan, cs, base, size, n, jobs, sums),
         NEW w \in Worker, jobs[w] \notin {Idle, Returned},
         NEW credit, credit = Credits(plan, cs, base, Job(plan, size, jobs[w]))
  PROVE  Counting(plan, cs, base, size, n, [jobs EXCEPT ![w] = Idle], Added(sums, w, credit))
<1> DEFINE total == Total(plan, size)
           after == [jobs EXCEPT ![w] = Idle]
           row == [c \in DOMAIN sums[w] |-> sums[w][c] + credit[c]]
           added == Added(sums, w, credit)
           j == jobs[w]
<1>1. Idle # Returned /\ IsFiniteSet(Worker) /\ MaxDecisions \in Nat
  BY TuneRunAssumption
<1>2. /\ IsList(cs, size)
      /\ n \in Nat
      /\ jobs \in [Worker -> Nat \union {Idle, Returned}]
      /\ sums \in [Worker -> [1..size -> Int]]
      /\ \A v \in Busy(jobs) : jobs[v] < n /\ jobs[v] < total
      /\ \A v, x \in Busy(jobs) : jobs[v] = jobs[x] => v = x
      /\ \A v \in Worker : jobs[v] = Returned => n >= total
      /\ \A c \in 1..size :
           SumOn(SumsOf(sums, c), Worker)
             = SumOn(CreditOf(plan, cs, base, c), Claimed(n, total) \ InHand(jobs))
  BY DEF Counting
<1>3. w \in Busy(jobs) /\ j \in Nat /\ j < n /\ j < total /\ total \in Nat
  <2>1. w \in Busy(jobs)
    BY DEF Busy
  <2>2. j \in Nat
    BY <1>2
  <2> QED BY <1>2, <2>1, <2>2
<1>4. DOMAIN cs = 1..size
  BY <1>2, ListLength
<1>5. \A c \in 1..size : credit[c] \in Int
  BY <1>1, <1>4, CreditsOfSeated
<1>6. /\ row \in [1..size -> Int]
      /\ \A c \in 1..size : row[c] = sums[w][c] + credit[c]
  <2>1. sums[w] \in [1..size -> Int]
    BY <1>2
  <2> QED BY <1>5, <2>1
<1>7. added = [sums EXCEPT ![w] = row]
  BY <1>2 DEF Added
<1> HIDE DEF added, row, total, j
<1>8. /\ added \in [Worker -> [1..size -> Int]]
      /\ added[w] = row /\ \A v \in Worker \ {w} : added[v] = sums[v]
  BY <1>2, <1>6, <1>7
<1>9. /\ after \in [Worker -> Nat \union {Idle, Returned}]
      /\ after[w] = Idle /\ \A v \in Worker \ {w} : after[v] = jobs[v]
  BY <1>2
<1> HIDE DEF after
<1>10. Busy(after) = Busy(jobs) \ {w}
  BY <1>9 DEF Busy
<1>11. \A v \in Busy(after) : v \in Busy(jobs) /\ after[v] = jobs[v]
  <2>1. Busy(jobs) \subseteq Worker
    BY DEF Busy
  <2> QED BY <1>9, <1>10, <2>1
<1>12. InHand(after) = InHand(jobs) \ {j}
  <2>1. \A v \in Busy(jobs) : jobs[v] = j <=> v = w
    BY <1>2, <1>3 DEF j
  <2>2. InHand(after) = {jobs[v] : v \in Busy(jobs) \ {w}}
    BY <1>10, <1>11 DEF InHand
  <2> QED BY <2>1, <2>2 DEF InHand
<1>13. j \in InHand(jobs) /\ j \in Claimed(n, total)
  <2>1. j \in InHand(jobs)
    BY <1>3 DEF InHand, j
  <2>2. j \in Claimed(n, total)
    BY <1>2, <1>3 DEF Claimed
  <2> QED BY <2>1, <2>2
<1>14. ASSUME NEW c \in 1..size
       PROVE  SumOn(SumsOf(added, c), Worker)
                = SumOn(CreditOf(plan, cs, base, c), Claimed(n, total) \ InHand(after))
  <2> DEFINE f == CreditOf(plan, cs, base, c)
             J == 0..(total - 1)
             T == Claimed(n, total) \ InHand(after)
  <2>1. f \in [J -> Int] /\ f[j] = credit[c]
    <3>1. /\ f \in [0..(total - 1) -> Int]
          /\ \A i \in 0..(total - 1) :
               f[i] = Credits(plan, cs, base, Job(plan, size, i))[c]
      <4>1. IsList(cs, size) /\ size \in Nat /\ c \in 1..size
        BY <1>2
      <4>2. f \in [0..(total - 1) -> Int]
        BY ONLY <4>1, CreditsCount DEF total
      <4>3. ASSUME NEW i \in 0..(Total(plan, size) - 1)
            PROVE  f[i] = Credits(plan, cs, base, Job(plan, size, i))[c]
        BY ONLY <4>1, CreditsCount
      <4> QED BY <4>2, <4>3 DEF total
    <3>2. j \in 0..(total - 1)
      BY <1>3
    <3>3. f[j] = Credits(plan, cs, base, Job(plan, size, j))[c]
      BY <3>1, <3>2
    <3> HIDE DEF f
    <3> QED BY <3>1, <3>3 DEF j
  <2>2. T \in SUBSET J /\ j \in T /\ T \ {j} = Claimed(n, total) \ InHand(jobs)
    <3>1. Claimed(n, total) \subseteq J
      BY <1>2, <1>3 DEF Claimed
    <3> QED BY <1>12, <1>13, <3>1
  <2>3. IsFiniteSet(J)
    BY <1>3, FS_Interval
  <2> HIDE DEF J, T, f
  <2>4. SumOn(f, T) = f[j] + SumOn(f, T \ {j}) /\ SumOn(f, T \ {j}) \in Int
    <3>1. T \ {j} \in SUBSET J
      BY <2>2
    <3>2. SumOn(f, T) = f[j] + SumOn(f, T \ {j})
      BY <2>1, <2>2, <2>3, SumOnWithout
    <3>3. SumOn(f, T \ {j}) \in Int
      BY <2>1, <2>3, <3>1, SumOnInt
    <3> QED BY <3>2, <3>3
  <2>5. /\ SumsOf(sums, c) \in [Worker -> Int] /\ SumsOf(added, c) \in [Worker -> Int]
        /\ SumsOf(added, c)[w] = SumsOf(sums, c)[w] + credit[c]
        /\ \A v \in Worker \ {w} : SumsOf(added, c)[v] = SumsOf(sums, c)[v]
    BY <1>2, <1>6, <1>8 DEF SumsOf
  <2>6. SumOn(SumsOf(added, c), Worker) = SumOn(SumsOf(sums, c), Worker) + credit[c]
    BY <1>1, <1>5, <2>5, SumOfChanged
  <2>7. SumOn(SumsOf(sums, c), Worker) = SumOn(f, T \ {j})
    BY <1>2, <2>2 DEF f
  <2>8. credit[c] \in Int
    BY <1>5
  <2> QED BY <2>1, <2>4, <2>6, <2>7, <2>8 DEF f, T
<1>15. \A v \in Busy(after) : after[v] < n /\ after[v] < total
  BY <1>2, <1>11
<1>16. \A v, x \in Busy(after) : after[v] = after[x] => v = x
  BY <1>2, <1>11
<1>17. \A v \in Worker : after[v] = Returned => n >= total
  BY <1>1, <1>2, <1>9
<1>18. Counting(plan, cs, base, size, n, after, added)
  BY <1>2, <1>8, <1>9, <1>14, <1>15, <1>16, <1>17 DEF Counting, total
<1> QED BY <1>18 DEF after, added

(* When all have returned, what they have adds up to what every game pays.  *)
AddedUp(cs, sums) == [c \in DOMAIN cs |-> SumFunction(SumsOf(sums, c))]

(* When every worker has returned, the sums are those of the whole list.    *)
LEMMA CountingEnds ==
  ASSUME NEW plan, NEW cs, NEW base, NEW size \in Nat, Total(plan, size) \in Nat,
         NEW n, NEW jobs, NEW sums, Counting(plan, cs, base, size, n, jobs, sums),
         \A w \in Worker : jobs[w] = Returned
  PROVE  AddedUp(cs, sums) = PlayedOut(plan, cs, base)
<1> DEFINE total == Total(plan, size)
<1>1. Worker # {} /\ IsFiniteSet(Worker)
  BY TuneRunAssumption
<1>2. /\ IsList(cs, size) /\ n \in Nat
      /\ sums \in [Worker -> [1..size -> Int]]
      /\ \A v \in Worker : jobs[v] = Returned => n >= total
      /\ \A c \in 1..size :
           SumOn(SumsOf(sums, c), Worker)
             = SumOn(CreditOf(plan, cs, base, c), Claimed(n, total) \ InHand(jobs))
  BY DEF Counting
<1>3. DOMAIN cs = 1..size
  BY <1>2, ListLength
<1>4. n >= total
  BY <1>1, <1>2
<1>5. InHand(jobs) = {}
  <2>1. Busy(jobs) = {}
    BY DEF Busy
  <2> QED BY <2>1 DEF InHand
<1>6. Claimed(n, total) = 0..(total - 1)
  <2>1. total \in Nat
    OBVIOUS
  <2> HIDE DEF total
  <2> QED BY <1>2, <1>4, <2>1 DEF Claimed
<1>7. Claimed(n, total) \ InHand(jobs) = 0..(total - 1)
  BY <1>5, <1>6
<1>8. ASSUME NEW c \in 1..size PROVE SumFunction(SumsOf(sums, c)) = PlayedOut(plan, cs, base)[c]
  <2>1. SumsOf(sums, c) \in [Worker -> Int]
    BY <1>2 DEF SumsOf
  <2>2. SumFunction(SumsOf(sums, c)) = SumOn(SumsOf(sums, c), Worker)
    BY <2>1, SumIsSumOn
  <2>3. SumOn(SumsOf(sums, c), Worker) = SumOn(CreditOf(plan, cs, base, c), 0..(total - 1))
    BY <1>2, <1>7
  <2>4. PlayedOut(plan, cs, base)[c] = SumOn(CreditOf(plan, cs, base, c), 0..(total - 1))
    BY <1>2, PlayedOutIsSum
  <2> QED BY <2>2, <2>3, <2>4
<1>9. PlayedOut(plan, cs, base) = [c \in 1..size |-> PlayedOut(plan, cs, base)[c]]
  BY <1>3 DEF PlayedOut
<1>10. [c \in 1..size |-> SumFunction(SumsOf(sums, c))]
         = [c \in 1..size |-> PlayedOut(plan, cs, base)[c]]
  BY <1>8
<1> QED BY <1>3, <1>9, <1>10 DEF AddedUp

-----------------------------------------------------------------------------
(* What the process holds is what a generation it was told of has left.     *)
LEMMA HeldIsTold ==
  ASSUME IInv, NEW g \in 0..Len(reports)
  PROVE  LET mem == At(setup, reports, g)
         IN  /\ IsList(FieldOf(mem), setup.size)
             /\ AskedOf(mem) = [mem EXCEPT !.optimizer = Ask(mem.optimizer).optimizer]
             /\ AskedOf(mem).baseline = setup.base /\ AskedOf(mem).generation = g
             /\ AskedOf(mem).games = g * Total(PlanFor(setup, 0), setup.size)
             /\ AskedOf(mem).answer = mem.answer
             /\ mem.baseline = setup.base /\ mem.generation = g
             /\ mem.games = g * Total(PlanFor(setup, 0), setup.size)
             /\ Kin(setup, mem.optimizer)
             /\ mem # Nothing /\ AskedOf(mem) # Nothing
             /\ Len(FieldOf(mem)) = setup.size /\ DOMAIN FieldOf(mem) = 1..setup.size
<1>1. Lawful(setup) /\ Sized(setup) /\ setup.size \in Nat
  BY SetupIsLawful DEF IInv, Lawful
<1>2. SoundAt(setup, reports, g)
  BY DEF IInv, Told
<1>3. LET mem == At(setup, reports, g)
      IN  /\ IsList(FieldOf(mem), setup.size)
          /\ AskedOf(mem) = [mem EXCEPT !.optimizer = Ask(mem.optimizer).optimizer]
          /\ AskedOf(mem).baseline = setup.base /\ AskedOf(mem).generation = g
          /\ AskedOf(mem).games = g * Total(PlanFor(setup, 0), setup.size)
          /\ AskedOf(mem).answer = mem.answer
          /\ mem.baseline = setup.base /\ mem.generation = g
          /\ mem.games = g * Total(PlanFor(setup, 0), setup.size)
          /\ Kin(setup, mem.optimizer)
          /\ mem # Nothing /\ AskedOf(mem) # Nothing
  BY <1>1, <1>2, FieldIsSized
<1>4. LET mem == At(setup, reports, g)
      IN  Len(FieldOf(mem)) = setup.size /\ DOMAIN FieldOf(mem) = 1..setup.size
  BY <1>1, <1>3, ListLength
<1> QED BY <1>3, <1>4

(* A generation has a whole number of games.                                *)
LEMMA GamesAreCounted ==
  ASSUME setup \in Setup, NEW g
  PROVE  Total(PlanFor(setup, g), setup.size) \in Nat /\ setup.size \in Nat \ {0}
<1>1. Lawful(setup) /\ setup.size \in Nat \ {0}
  BY SetupIsLawful DEF Lawful
<1> QED BY <1>1, PlansArePlans, TotalIsRuns

(* Every call that is not refused goes on from a generation told of, or     *)
(* starts the run.                                                          *)
LEMMA BegunIsTold ==
  ASSUME IInv, NEW call \in Calls, ~Refused(call)
  PROVE  \E g \in 0..Len(reports) : Begun(call) = At(setup, reports, g)
<1>1. setup \in Setup /\ Lawful(setup) /\ Sized(setup) /\ Len(reports) \in Nat
  BY SetupIsLawful DEF IInv, Told, Lawful
<1>2. CASE call = OwnCall(Nothing)
  <2>1. call.resume = Nothing /\ call.base = setup.base /\ Built(call) = Own(setup)
    BY <1>2 DEF OwnCall, Built, Own
  <2>2. Begun(call) = StartOf(setup)
    BY <2>1 DEF Begun, StartOf, Held
  <2>3. 0 \in 0..Len(reports) /\ At(setup, reports, 0) = StartOf(setup)
    BY <1>1 DEF At
  <2> QED BY <2>2, <2>3
<1>3. CASE disk # Nothing /\ call # OwnCall(Nothing)
  <2>1. PICK g \in 1..Len(reports) : disk = Checkpoint(At(setup, reports, g))
    BY <1>3 DEF IInv, Kept
  <2> DEFINE mem == At(setup, reports, g)
  <2>2. g \in 0..Len(reports)
    BY <1>1
  <2>3. SoundAt(setup, reports, g)
    BY <2>2 DEF IInv, Told
  <2>4. PICK o, n, a : mem = Held(o, setup.base, g, n, a) /\ Kin(setup, o)
    BY <2>3 DEF SoundAt
  <2> HIDE DEF mem
  <2>5. /\ disk.optimizer = Snapshot(o) /\ disk.generationsDone = g /\ disk.games = n
        /\ disk.baseline = setup.base /\ disk.answer = a
    BY <2>1, <2>4 DEF Checkpoint, Held, mem
  <2>6. call \in {OwnCall(disk),
                  [OwnCall(disk) EXCEPT !.base = disk.answer.genes],
                  [OwnCall(disk) EXCEPT !.strategy = IF @ = "ga" THEN "cma-es" ELSE "ga"],
                  [OwnCall(disk) EXCEPT !.size = @ + 1]}
    BY <1>3 DEF Calls
  <2>7. call.resume = disk
    BY <2>6 DEF OwnCall
  <2>8. call.base = setup.base /\ RestoreError(Built(call), Snapshot(o)) = "Ok"
    BY <1>3, <2>5, <2>7 DEF Refused
  <2>9. CASE call = OwnCall(disk) \/ call = [OwnCall(disk) EXCEPT !.base = disk.answer.genes]
    <3>1. Built(call) = Own(setup)
      <4>1. call.strategy = setup.strategy /\ call.size = setup.size
        BY <2>9 DEF OwnCall
      <4> QED BY <2>8, <4>1 DEF Built, Own
    <3>2. Restored(Built(call), disk.optimizer) = o
      BY <1>1, <2>4, <2>5, <3>1, RestoredIsTheSame
    <3>3. Begun(call) = mem
      BY <1>3, <2>4, <2>5, <2>7, <2>8, <3>2 DEF Begun, Held
    <3> QED BY <2>2, <3>3 DEF mem
  <2>10. CASE call = [OwnCall(disk) EXCEPT !.strategy = IF @ = "ga" THEN "cma-es" ELSE "ga"]
    <3> DEFINE other == IF setup.strategy = "ga" THEN "cma-es" ELSE "ga"
               t == [strategy |-> other, base |-> setup.base, size |-> setup.size,
                     seed |-> setup.seed]
    <3>1. call.strategy = other /\ call.size = setup.size
      BY <2>10 DEF OwnCall
    <3>2. Built(call) = Own(t)
      BY <2>8, <3>1 DEF Built, Own
    <3>3. Sized(t) /\ (setup.strategy = "ga") # (t.strategy = "ga")
      BY <1>1 DEF Sized
    <3> HIDE DEF t
    <3>4. RestoreError(Own(t), Snapshot(o)) # "Ok"
      BY <1>1, <2>4, <3>3, OtherIsRefused
    <3> QED BY <2>8, <3>2, <3>4
  <2>11. CASE call = [OwnCall(disk) EXCEPT !.size = @ + 1]
    <3> DEFINE t == [strategy |-> setup.strategy, base |-> setup.base,
                     size |-> setup.size + 1, seed |-> setup.seed]
    <3>1. call.strategy = setup.strategy /\ call.size = setup.size + 1
      BY <2>11 DEF OwnCall
    <3>2. Built(call) = Own(t)
      BY <2>8, <3>1 DEF Built, Own
    <3>3. Sized(t) /\ setup.size # t.size
      BY <1>1 DEF Sized
    <3> HIDE DEF t
    <3>4. RestoreError(Own(t), Snapshot(o)) # "Ok"
      BY <1>1, <2>4, <3>3, OtherIsRefused
    <3> QED BY <2>8, <3>2, <3>4
  <2> QED BY <2>6, <2>9, <2>10, <2>11
<1> QED BY <1>2, <1>3 DEF Calls

-----------------------------------------------------------------------------
(* The invariant is inductive: it holds at first, and each action keeps it. *)
LEMMA InitHolds == Init => IInv
<1> SUFFICES ASSUME Init PROVE IInv
  OBVIOUS
<1>1. /\ setup \in Setup /\ reports = <<>> /\ pc = "down" /\ memory = Nothing /\ disk = Nothing
  BY DEF Init
<1>2. Lawful(setup) /\ Sized(setup)
  BY <1>1, SetupIsLawful
<1>3. Len(reports) = 0 /\ IsList(reports, 0)
  BY <1>1 DEF IsList
<1>4. SoundAt(setup, reports, 0)
  <2>1. Kin(setup, Own(setup))
    BY <1>2, OwnIsKin
  <2>2. 0 * Total(PlanFor(setup, 0), setup.size) = 0
    BY <1>1, GamesAreCounted
  <2>3. At(setup, reports, 0) = Held(Own(setup), setup.base, 0, 0, NoAnswer)
    BY DEF At, StartOf
  <2> QED BY <2>1, <2>2, <2>3 DEF SoundAt
<1>5. Told(setup, reports)
  <2>1. 0 \in 0..setup.generations
    BY <1>2 DEF Lawful
  <2>2. \A g \in 0..Len(reports) : g = 0
    BY <1>3
  <2>3. \A g \in 1..Len(reports) : FALSE
    BY <1>3
  <2> QED BY <1>3, <1>4, <2>1, <2>2, <2>3 DEF Told
<1>6. \A g \in 1..Len(reports) : FALSE
  BY <1>3
<1> QED BY <1>1, <1>5, <1>6 DEF IInv, Holding, Kept

(* A call, the first or a resumed one, begins where some generation left    *)
(* off.                                                                     *)
LEMMA StartHolds == ASSUME IInv, Start PROVE IInv'
<1>1. PICK call \in Calls : ~Refused(call) /\ memory' = Begun(call)
  BY DEF Start
<1>2. /\ pc' = "generation"
      /\ UNCHANGED <<setup, reports, candidates, next, job, local, disk, result, crashes>>
  BY DEF Start
<1>3. PICK g \in 0..Len(reports) : Begun(call) = At(setup, reports, g)
  BY <1>1, BegunIsTold
<1>4. Holding(setup, reports, pc', memory', candidates)
  BY <1>1, <1>2, <1>3 DEF Holding
<1> QED BY <1>2, <1>4 DEF IInv

(* The games of a generation begin with none claimed and nothing in the     *)
(* sums.                                                                    *)
LEMMA AskHolds == ASSUME IInv, AskGeneration PROVE IInv'
<1>1. /\ pc = "generation" /\ memory.generation < setup.generations
      /\ pc' = "arena" /\ next' = 0 /\ job' = [w \in Worker |-> Idle]
      /\ memory' = [memory EXCEPT !.optimizer = Ask(memory.optimizer).optimizer]
      /\ candidates' = FieldOf(memory)
      /\ local' = Zeros(Len(Ask(memory.optimizer).candidates))
      /\ UNCHANGED <<setup, reports, disk, result, crashes>>
  BY DEF AskGeneration, FieldOf
<1>2. PICK g \in 0..Len(reports) : memory = At(setup, reports, g)
  BY <1>1 DEF IInv, Holding
<1>3. /\ IsList(FieldOf(memory), setup.size)
      /\ AskedOf(memory) = [memory EXCEPT !.optimizer = Ask(memory.optimizer).optimizer]
      /\ AskedOf(memory).baseline = setup.base /\ AskedOf(memory).generation = g
      /\ memory.generation = g
      /\ Kin(setup, memory.optimizer)
  BY <1>2, HeldIsTold
<1>4. memory' = AskedOf(memory) /\ g < setup.generations
  BY <1>1, <1>3
<1>5. setup \in Setup /\ Sized(setup) /\ setup.size \in Nat
  BY SetupIsLawful DEF IInv, Sized
<1>6. Len(Ask(memory.optimizer).candidates) = setup.size
  BY <1>3, <1>5, AskIsKin, ListLength
<1>7. Holding(setup, reports, pc', memory', candidates')
  BY <1>1, <1>2, <1>4 DEF Holding
<1>8. Plan' = PlanFor(setup, g) /\ memory'.baseline = setup.base
  BY <1>1, <1>3, <1>4 DEF Plan, PlanOf, PlanFor
<1>9. Counting(Plan', candidates', memory'.baseline, setup.size, 0,
               [w \in Worker |-> Idle], Zeros(setup.size))
  BY <1>1, <1>3, <1>5, <1>8, GamesAreCounted, CountingStarts
<1>10. Counting(Plan, candidates, memory.baseline, setup.size, next, job, local)'
  BY <1>1, <1>6, <1>9
<1> QED BY <1>1, <1>7, <1>10 DEF IInv

(* What an evaluation's workers are counting.                               *)
LEMMA ArenaCounts ==
  ASSUME IInv, pc = "arena"
  PROVE  /\ Counting(Plan, candidates, memory.baseline, setup.size, next, job, local)
         /\ setup.size \in Nat /\ Len(candidates) = setup.size
         /\ Total(Plan, setup.size) \in Nat /\ Jobs = Total(Plan, setup.size)
         /\ DOMAIN candidates = 1..setup.size
<1>1. Counting(Plan, candidates, memory.baseline, setup.size, next, job, local)
  BY DEF IInv
<1>2. setup.size \in Nat /\ IsList(candidates, setup.size)
  BY <1>1, SetupIsLawful DEF IInv, Lawful, Counting
<1>3. Len(candidates) = setup.size /\ DOMAIN candidates = 1..setup.size
  BY <1>2, ListLength
<1>4. Plan = PlanFor(setup, memory.generation)
  BY DEF Plan, PlanOf, PlanFor
<1>5. Total(Plan, setup.size) \in Nat
  BY <1>4, GamesAreCounted DEF IInv
<1> QED BY <1>1, <1>2, <1>3, <1>5 DEF Jobs

(* A claim takes the next game, or none when the list is used up.           *)
LEMMA ClaimHolds == ASSUME IInv, NEW w \in Worker, Claim(w) PROVE IInv'
<1>1. /\ pc = "arena" /\ job[w] = Idle
      /\ job' = [job EXCEPT ![w] = IF next >= Jobs THEN Returned ELSE next]
      /\ next' = next + 1
      /\ UNCHANGED <<setup, reports, pc, memory, candidates, local, disk, result, crashes>>
  BY DEF Claim
<1>2. /\ Counting(Plan, candidates, memory.baseline, setup.size, next, job, local)
      /\ setup.size \in Nat /\ Total(Plan, setup.size) \in Nat /\ Jobs = Total(Plan, setup.size)
  BY <1>1, ArenaCounts
<1>3. Counting(Plan, candidates, memory.baseline, setup.size, next + 1,
               [job EXCEPT ![w] = IF next >= Total(Plan, setup.size) THEN Returned ELSE next],
               local)
  BY <1>1, <1>2, CountingClaims
<1>4. Plan' = Plan
  BY <1>1 DEF Plan, PlanOf
<1>5. Counting(Plan, candidates, memory.baseline, setup.size, next, job, local)'
  BY <1>1, <1>2, <1>3, <1>4
<1> QED BY <1>1, <1>5 DEF IInv

(* A game played is credited once.                                          *)
LEMMA PlayHolds == ASSUME IInv, NEW w \in Worker, PlayJob(w) PROVE IInv'
<1> DEFINE credit == Credits(Plan, candidates, memory.baseline,
                             Job(Plan, Len(candidates), job[w]))
<1>1. /\ pc = "arena" /\ job[w] \notin {Idle, Returned}
      /\ local' = [local EXCEPT ![w] = [c \in DOMAIN @ |-> @[c] + credit[c]]]
      /\ job' = [job EXCEPT ![w] = Idle]
      /\ UNCHANGED <<setup, reports, pc, memory, candidates, next, disk, result, crashes>>
  BY DEF PlayJob
<1>2. /\ Counting(Plan, candidates, memory.baseline, setup.size, next, job, local)
      /\ setup.size \in Nat /\ Total(Plan, setup.size) \in Nat
      /\ Len(candidates) = setup.size
  BY <1>1, ArenaCounts
<1>3. credit = Credits(Plan, candidates, memory.baseline, Job(Plan, setup.size, job[w]))
  BY <1>2
<1> HIDE DEF credit
<1>4. Counting(Plan, candidates, memory.baseline, setup.size, next, [job EXCEPT ![w] = Idle],
               Added(local, w, credit))
  BY <1>1, <1>2, <1>3, CountingPlays
<1>5. Plan' = Plan
  BY <1>1 DEF Plan, PlanOf
<1>6. Counting(Plan, candidates, memory.baseline, setup.size, next, job, local)'
  BY <1>1, <1>4, <1>5 DEF Added
<1> QED BY <1>1, <1>6 DEF IInv

(* The end of a run changes nothing that was told.                          *)
LEMMA FinishHolds == ASSUME IInv, Finish PROVE IInv'
<1>1. /\ pc = "generation" /\ pc' = "finished"
      /\ UNCHANGED <<setup, reports, memory, candidates, next, job, local, disk, crashes>>
  BY DEF Finish
<1>2. Holding(setup, reports, pc', memory, candidates)
  BY <1>1 DEF IInv, Holding
<1> QED BY <1>1, <1>2 DEF IInv

(* A kill loses what the process holds and nothing that was told or kept.   *)
LEMMA CrashHolds == ASSUME IInv, Crash PROVE IInv'
<1>1. pc' = "down" /\ memory' = Nothing /\ UNCHANGED <<setup, reports, disk, result>>
  BY DEF Crash
<1>2. Holding(setup, reports, pc', memory', candidates')
  BY <1>1 DEF Holding
<1> QED BY <1>1, <1>2 DEF IInv

(* What the join, tell and the report make of an evaluation is what the     *)
(* generation before it makes of itself.                                    *)
LEMMA TellsOutcome ==
  ASSUME IInv, TellGeneration
  PROVE  \E g \in 0..Len(reports) :
           LET e == OutcomeOf(setup, At(setup, reports, g))
           IN  /\ g < setup.generations /\ memory' = e.after
               /\ g = Len(reports) => reports' = Append(reports, e)
               /\ g < Len(reports) => reports' = reports
<1>1. /\ pc = "arena" /\ \A w \in Worker : job[w] = Returned
      /\ memory' = Measurement(Joined)
      /\ reports' = SubSeq(reports, 1, memory.generation)
                      \o <<[candidates |-> candidates, fitness |-> Joined, after |-> memory']>>
                      \o SubSeq(reports, memory.generation + 2, Len(reports))
  BY DEF TellGeneration
<1>2. PICK g \in 0..Len(reports) : /\ g < setup.generations
                                   /\ memory = AskedOf(At(setup, reports, g))
                                   /\ candidates = FieldOf(At(setup, reports, g))
  BY <1>1 DEF IInv, Holding
<1> DEFINE mem == At(setup, reports, g)
           e == OutcomeOf(setup, mem)
           fits == FitnessOf(setup, mem)
<1>3. /\ AskedOf(mem).baseline = setup.base /\ AskedOf(mem).generation = g
      /\ mem.baseline = setup.base /\ mem.generation = g
  BY HeldIsTold
<1>4. memory.generation = g /\ memory.baseline = setup.base /\ Plan = PlanFor(setup, g)
  BY <1>2, <1>3 DEF Plan, PlanOf, PlanFor
<1>5. Joined = fits
  <2>1. /\ Counting(Plan, candidates, memory.baseline, setup.size, next, job, local)
        /\ setup.size \in Nat /\ Total(Plan, setup.size) \in Nat
    BY <1>1, ArenaCounts
  <2>2. AddedUp(candidates, local) = PlayedOut(Plan, candidates, memory.baseline)
    BY <1>1, <2>1, CountingEnds
  <2>3. Joined = AddedUp(candidates, local)
    BY DEF Joined, SumsOf, AddedUp
  <2> QED BY <1>2, <1>3, <1>4, <2>2, <2>3 DEF FitnessOf
<1>6. Measurement(fits) = ToldOf(setup, memory, candidates, fits)
  <2> DEFINE o1 == Tell(memory.optimizer, candidates, fits)
             n1 == memory.games + GamesPerGeneration(Plan, Len(candidates))
             a1 == AnswerFor(setup, candidates, memory.answer, fits)
  <2>1. memory = Held(memory.optimizer, memory.baseline, memory.generation, memory.games,
                      memory.answer)
    <3> DEFINE before == Ask(mem.optimizer).optimizer
    <3>1. memory = Held(before, mem.baseline, mem.generation, mem.games, mem.answer)
      BY <1>2 DEF AskedOf
    <3> HIDE DEF before, mem
    <3> QED BY <3>1 DEF Held
  <2>2. Answered(memory.answer, fits) = a1
    BY DEF Answered, AnswerFor
  <2>3. Measurement(fits) = [memory EXCEPT !.optimizer = o1, !.games = n1, !.answer = a1,
                                           !.generation = @ + 1]
    <3> HIDE DEF fits, a1
    <3> QED BY <2>2 DEF Measurement
  <2>4. ToldOf(setup, memory, candidates, fits)
          = Held(o1, memory.baseline, memory.generation + 1, n1, a1)
    <3>1. Plan = PlanFor(setup, memory.generation)
      BY <1>4
    <3> HIDE DEF fits
    <3> QED BY <3>1 DEF ToldOf
  <2> HIDE DEF o1, n1, a1, fits, mem
  <2> QED BY <2>1, <2>3, <2>4 DEF Held
<1>7. e.after = ToldOf(setup, memory, candidates, fits) /\ e.candidates = candidates
      /\ e.fitness = fits
  BY <1>2 DEF OutcomeOf
<1>8. memory' = e.after
  <2> HIDE DEF e, fits
  <2> QED BY <1>1, <1>5, <1>6, <1>7
<1>9. e = [candidates |-> candidates, fitness |-> Joined, after |-> memory']
  <2>1. e = [candidates |-> e.candidates, fitness |-> e.fitness, after |-> e.after]
    BY DEF OutcomeOf
  <2> HIDE DEF e, fits
  <2> QED BY <1>5, <1>7, <1>8, <2>1
<1>10. Told(setup, reports) /\ Len(reports) \in Nat /\ IsList(reports, Len(reports))
  BY SetupIsLawful DEF IInv, Told, Lawful
<1> HIDE DEF e, mem, fits
<1>11. reports' = Splice(reports, Len(reports), g, e)
  BY <1>1, <1>4, <1>9 DEF Splice
<1>12. g = Len(reports) => reports' = Append(reports, e)
  BY <1>10, <1>11, Spliced
<1>13. ASSUME g < Len(reports) PROVE reports' = reports
  <2>1. g + 1 \in 1..Len(reports) /\ (g + 1) - 1 = g
    BY <1>10, <1>13
  <2>2. reports[g + 1] = e
    BY <1>10, <2>1 DEF Told, FollowsAt, e, mem
  <2> QED BY <1>10, <1>11, <1>13, <2>2, Spliced
<1> QED BY <1>2, <1>8, <1>12, <1>13 DEF e, mem

(* A generation told is the one after some generation told before.          *)
LEMMA TellHolds == ASSUME IInv, TellGeneration PROVE IInv'
<1>1. /\ pc' = "generation" /\ setup' = setup
      /\ disk' \in {disk, Checkpoint(memory')}
  BY DEF TellGeneration
<1>2. PICK g \in 0..Len(reports) :
        LET e == OutcomeOf(setup, At(setup, reports, g))
        IN  /\ g < setup.generations /\ memory' = e.after
            /\ g = Len(reports) => reports' = Append(reports, e)
            /\ g < Len(reports) => reports' = reports
  BY TellsOutcome
<1> DEFINE n == Len(reports)
           e == OutcomeOf(setup, At(setup, reports, g))
<1>3. Lawful(setup) /\ Sized(setup) /\ Told(setup, reports) /\ n \in Nat
  BY SetupIsLawful DEF IInv, Told, Lawful
<1>4. \A i \in 1..n : AnswersAt(setup, reports, i)
  BY DEF IInv
<1>5. /\ Told(setup, reports') /\ Len(reports') >= n /\ Len(reports') >= g + 1
      /\ Len(reports') \in Nat
      /\ \A i \in 1..Len(reports') : AnswersAt(setup, reports', i)
      /\ \A i \in 0..n : At(setup, reports', i) = At(setup, reports, i)
  <2>1. CASE g = n
    <3>1. reports' = Append(reports, OutcomeOf(setup, At(setup, reports, Len(reports))))
      BY <1>2, <2>1
    <3>2. Len(reports) < setup.generations
      BY <1>2, <2>1
    <3>3. /\ Told(setup, reports') /\ Len(reports') = Len(reports) + 1
          /\ \A i \in 1..Len(reports') : AnswersAt(setup, reports', i)
          /\ \A i \in 0..Len(reports) : At(setup, reports', i) = At(setup, reports, i)
      BY <1>3, <1>4, <3>1, <3>2, ToldOneMore
    <3> QED BY <1>3, <2>1, <3>3
  <2>2. CASE g < n
    <3>1. reports' = reports
      BY <1>2, <2>2
    <3> QED BY <1>3, <1>4, <2>2, <3>1
  <2> QED BY <1>2, <1>3, <2>1, <2>2
<1>6. g + 1 \in 1..Len(reports') /\ g + 1 \in 0..Len(reports') /\ (g + 1) - 1 = g /\ g \in 0..n
  BY <1>3, <1>5
<1>7. At(setup, reports', g + 1) = memory'
  <2>1. FollowsAt(setup, reports', g + 1)
    BY <1>5, <1>6 DEF Told
  <2>2. reports'[g + 1] = e
    BY <1>5, <1>6, <2>1 DEF FollowsAt
  <2> HIDE DEF e
  <2>3. At(setup, reports', g + 1) = e.after
    BY <1>6, <2>2 DEF At
  <2> QED BY <1>2, <2>3 DEF e
<1>8. Holding(setup, reports', pc', memory', candidates')
  BY <1>1, <1>6, <1>7 DEF Holding
<1>9. Kept(setup, reports', disk')
  <2>1. CASE disk' = disk
    <3>1. disk = Nothing \/ \E i \in 1..n : disk = Checkpoint(At(setup, reports, i))
      BY DEF IInv, Kept
    <3>2. ASSUME NEW i \in 1..n, disk = Checkpoint(At(setup, reports, i))
          PROVE  Kept(setup, reports', disk)
      <4>1. i \in 0..n /\ i \in 1..Len(reports')
        BY <1>3, <1>5
      <4> QED BY <1>5, <3>2, <4>1 DEF Kept
    <3> QED BY <2>1, <3>1, <3>2 DEF Kept
  <2>2. CASE disk' = Checkpoint(memory')
    <3>1. disk' = Checkpoint(At(setup, reports', g + 1))
      BY <1>7, <2>2
    <3> QED BY <1>6, <3>1 DEF Kept
  <2> QED BY <1>1, <2>1, <2>2
<1> QED BY <1>1, <1>5, <1>8, <1>9 DEF IInv

(* Every step keeps the invariant.                                          *)
LEMMA NextHolds == ASSUME IInv, [Next]_vars PROVE IInv'
<1>1. CASE \E w \in Worker : Claim(w) \/ PlayJob(w)
  BY <1>1, ClaimHolds, PlayHolds
<1>2. CASE Start
  BY <1>2, StartHolds
<1>3. CASE AskGeneration
  BY <1>3, AskHolds
<1>4. CASE TellGeneration
  BY <1>4, TellHolds
<1>5. CASE Finish
  BY <1>5, FinishHolds
<1>6. CASE Crash
  BY <1>6, CrashHolds
<1>7. CASE UNCHANGED vars
  <2>1. /\ UNCHANGED <<setup, reports, pc, memory, candidates, next, job, local, disk>>
        /\ Plan' = Plan
    BY <1>7 DEF vars, Plan, PlanOf
  <2> QED BY <2>1 DEF IInv
<1> QED BY <1>1, <1>2, <1>3, <1>4, <1>5, <1>6, <1>7 DEF Next, Proceed

(* What holds of every run, however its threads and its kills fall.         *)
THEOREM RunIsSound == Spec => []IInv
<1>1. Init => IInv
  BY InitHolds
<1>2. IInv /\ [Next]_vars => IInv'
  BY NextHolds
<1> QED BY <1>1, <1>2, PTL DEF Spec

-----------------------------------------------------------------------------
(* Each game counts once, by the invariant.                                 *)
LEMMA CountsFollow == ASSUME IInv PROVE EachGameCountsOnce
<1> SUFFICES ASSUME pc = "arena" PROVE EachGameCountsOnce
  BY DEF EachGameCountsOnce
<1> DEFINE held == InHand(job)
           claimed == Claimed(next, Jobs)
           credit(j, c) == Credits(Plan, candidates, memory.baseline,
                                   Job(Plan, Len(candidates), j))[c]
<1>1. /\ Counting(Plan, candidates, memory.baseline, setup.size, next, job, local)
      /\ setup.size \in Nat /\ Len(candidates) = setup.size
      /\ Jobs \in Nat /\ Jobs = Total(Plan, setup.size)
      /\ DOMAIN candidates = 1..setup.size
  BY ArenaCounts
<1>2. /\ IsList(candidates, setup.size)
      /\ next \in Nat
      /\ job \in [Worker -> Nat \union {Idle, Returned}]
      /\ local \in [Worker -> [1..setup.size -> Int]]
      /\ \A w \in Busy(job) : job[w] < next /\ job[w] < Jobs
      /\ \A v, w \in Busy(job) : job[v] = job[w] => v = w
      /\ \A c \in 1..setup.size :
           SumOn(SumsOf(local, c), Worker)
             = SumOn(CreditOf(Plan, candidates, memory.baseline, c), claimed \ held)
  BY <1>1 DEF Counting
<1>3. Cardinality(held) = Cardinality(Busy(job))
  <2> DEFINE b == [w \in Busy(job) |-> job[w]]
  <2>1. b \in Bijection(Busy(job), held)
    BY <1>2 DEF InHand, Bijection, Injection, IsInjective, Surjection
  <2>2. IsFiniteSet(Busy(job))
    <3>1. IsFiniteSet(Worker) /\ Busy(job) \subseteq Worker
      BY TuneRunAssumption DEF Busy
    <3> QED BY <3>1, FS_Subset
  <2> HIDE DEF b
  <2>3. ExistsBijection(Busy(job), held)
    BY <2>1 DEF ExistsBijection
  <2> HIDE DEF held
  <2> QED BY <2>2, <2>3, FS_Bijection
<1>4. held \subseteq claimed
  <2> SUFFICES ASSUME NEW w \in Busy(job) PROVE job[w] \in claimed
    BY DEF InHand
  <2>1. job[w] \in Nat
    BY <1>2 DEF Busy
  <2>2. job[w] < next /\ job[w] < Jobs
    BY <1>2
  <2> QED BY <1>1, <1>2, <2>1, <2>2 DEF Claimed
<1>5. ASSUME NEW c \in DOMAIN candidates
      PROVE  Joined[c] = SumFunction([j \in claimed \ held |-> credit(j, c)])
  <2> DEFINE f == CreditOf(Plan, candidates, memory.baseline, c)
             T == claimed \ held
             over == [j \in T |-> credit(j, c)]
  <2>1. c \in 1..setup.size
    BY <1>1
  <2>2. Joined[c] = SumFunction(SumsOf(local, c))
    BY DEF Joined, SumsOf
  <2>3. SumsOf(local, c) \in [Worker -> Int]
    BY <1>2, <2>1 DEF SumsOf
  <2>4. SumFunction(SumsOf(local, c)) = SumOn(SumsOf(local, c), Worker)
    BY <2>3, SumIsSumOn
  <2>5. SumOn(SumsOf(local, c), Worker) = SumOn(f, T)
    BY <1>2, <2>1
  <2>6. SumOn(f, T) = SumFunction(over)
    <3>1. \A j \in T : j \in 0..(Total(Plan, Len(candidates)) - 1)
      BY <1>1, <1>2 DEF Claimed
    <3>2. \A j \in T : f[j] = credit(j, c)
      BY <3>1 DEF CreditOf
    <3> HIDE DEF f, T
    <3>3. over = [j \in T |-> f[j]]
      BY <3>2
    <3> QED BY <3>3 DEF SumOn
  <2> QED BY <2>2, <2>4, <2>5, <2>6
<1>6. held = {job[w] : w \in {v \in Worker : job[v] \notin {Idle, Returned}}}
      /\ Busy(job) = {v \in Worker : job[v] \notin {Idle, Returned}}
  BY DEF InHand, Busy
<1>7. claimed = 0..((IF next > Jobs THEN Jobs ELSE next) - 1)
  BY DEF Claimed
<1> HIDE DEF held, claimed
<1> QED BY <1>3, <1>4, <1>5, <1>6, <1>7 DEF EachGameCountsOnce

(* Whatever the threads do in whatever order, the games claimed so far are  *)
(* each in one worker's hands or in the sums, for their own candidates.     *)
THEOREM GamesCountOnce == Spec => []EachGameCountsOnce
<1>1. IInv => EachGameCountsOnce
  BY CountsFollow
<1> QED BY <1>1, RunIsSound, PTL

-----------------------------------------------------------------------------
(* No place is above another that is above it, so that the best is one.     *)
LEMMA BestIsOne ==
  ASSUME NEW s, Lawful(s), NEW n \in Nat \ {0}, NEW rs,
         \A g \in 1..n : rs[g].fitness \in [1..s.size -> Int],
         NEW p, BestPlace(s, rs, n, p), NEW q, BestPlace(s, rs, n, q)
  PROVE  p = q
<1> SUFFICES ASSUME p # q PROVE FALSE
  OBVIOUS
<1>1. /\ p \in Eligible(s, n) \X (1..s.size) /\ q \in Eligible(s, n) \X (1..s.size)
      /\ Above(rs, p, q) /\ Above(rs, q, p)
  BY DEF BestPlace
<1>2. Eligible(s, n) \subseteq 1..n
  BY DEF Eligible
<1>3. p[1] \in 1..n /\ p[2] \in 1..s.size /\ q[1] \in 1..n /\ q[2] \in 1..s.size
  BY <1>1, <1>2
<1>4. rs[p[1]].fitness[p[2]] \in Int /\ rs[q[1]].fitness[q[2]] \in Int
  BY <1>3
<1>5. s.size \in Nat
  BY DEF Lawful
<1> DEFINE a == rs[p[1]].fitness[p[2]]
           b == rs[q[1]].fitness[q[2]]
           i == p[1]
           j == q[1]
           k == p[2]
           l == q[2]
<1>6. /\ a > b \/ (a = b /\ (i < j \/ (i = j /\ k < l)))
      /\ b > a \/ (b = a /\ (j < i \/ (j = i /\ l < k)))
  BY <1>1 DEF Above
<1>7. a \in Int /\ b \in Int /\ i \in Int /\ j \in Int /\ k \in Int /\ l \in Int
  BY <1>3, <1>4, <1>5
<1> HIDE DEF a, b, i, j, k, l
<1> QED BY <1>6, <1>7

(* The answer is that of the best place, which the property chooses.        *)
LEMMA AnswerFollows == ASSUME IInv PROVE AnswerIsTheRuns
<1> SUFFICES ASSUME memory # Nothing, memory.generation > 0 PROVE AnswerIsTheRuns
  BY DEF AnswerIsTheRuns
<1> DEFINE n == memory.generation
           told == SubSeq(reports, 1, n)
<1>1. /\ setup \in Setup /\ Lawful(setup) /\ Sized(setup) /\ Told(setup, reports)
      /\ Len(reports) \in Nat /\ IsList(reports, Len(reports))
  BY SetupIsLawful DEF IInv, Told, Lawful
<1>2. PICK g \in 0..Len(reports) :
        memory = At(setup, reports, g) \/ memory = AskedOf(At(setup, reports, g))
  BY DEF IInv, Holding
<1>3. /\ n = g
      /\ memory.games = g * Total(PlanFor(setup, 0), setup.size)
      /\ memory.answer = At(setup, reports, g).answer
  BY <1>2, HeldIsTold
<1>4. g \in 1..Len(reports) /\ g \in Nat \ {0}
  BY <1>1, <1>3
<1>5. memory.answer = reports[g].after.answer
  BY <1>3, <1>4 DEF At
<1>6. memory.games = n * Total(PlanOf(0), setup.size)
  BY <1>3, PlanIsFor
<1>7. Len(told) = g /\ \A i \in 1..g : told[i] = reports[i]
  <2>1. reports \in Seq({reports[i] : i \in 1..Len(reports)})
    BY <1>1, ListLength
  <2>2. \A i \in 1..g : reports[i] \in {reports[j] : j \in 1..Len(reports)}
    BY <1>1, <1>4
  <2>3. /\ Len(SubSeq(reports, 1, g)) = (IF 1 <= g THEN g - 1 + 1 ELSE 0)
        /\ \A i \in 1..(g - 1 + 1) : SubSeq(reports, 1, g)[i] = reports[1 + i - 1]
    BY <1>4, <2>1, <2>2, SubSeqProperties
  <2>4. /\ (IF 1 <= g THEN g - 1 + 1 ELSE 0) = g /\ g - 1 + 1 = g
        /\ \A i \in 1..g : 1 + i - 1 = i
    BY <1>4
  <2> QED BY <1>3, <2>3, <2>4
<1> HIDE DEF told
<1>8. PICK p : /\ BestPlace(setup, reports, g, p)
               /\ reports[g].after.answer = [genes   |-> reports[p[1]].candidates[p[2]],
                                             fitness |-> reports[p[1]].fitness[p[2]]]
  BY <1>4 DEF IInv, AnswersAt
<1> DEFINE Places == Eligible(setup, g) \X (1..setup.size)
           above(a, b) == \/ told[a[1]].fitness[a[2]] > told[b[1]].fitness[b[2]]
                          \/ /\ told[a[1]].fitness[a[2]] = told[b[1]].fitness[b[2]]
                             /\ a[1] < b[1] \/ (a[1] = b[1] /\ a[2] < b[2])
           best == CHOOSE a \in Places : \A b \in Places \ {a} : above(a, b)
<1>9. \A a \in Places : told[a[1]] = reports[a[1]]
  BY <1>4, <1>7 DEF Eligible
<1>10. \A a, b \in Places : above(a, b) <=> Above(reports, a, b)
  BY <1>9 DEF Above
<1>11. \A a \in Places : (\A b \in Places \ {a} : above(a, b)) <=> BestPlace(setup, reports, g, a)
  <2> HIDE DEF above
  <2> QED BY <1>10 DEF BestPlace
<1>12. p \in Places
  BY <1>8 DEF BestPlace
<1>13. \A i \in 1..g : reports[i].fitness \in [1..setup.size -> Int]
  <2>1. \A i \in 1..g : i \in 1..Len(reports)
    BY <1>1, <1>4
  <2> QED BY <1>1, <2>1, ToldScores
<1>14. best = p
  <2> HIDE DEF above, Places
  <2>1. best \in Places /\ \A b \in Places \ {best} : above(best, b)
    BY <1>8, <1>11, <1>12
  <2>2. BestPlace(setup, reports, g, best)
    BY <1>11, <2>1
  <2> HIDE DEF best
  <2> QED BY <1>1, <1>4, <1>8, <1>13, <2>2, BestIsOne
<1>15. Uninterrupted!Answer(told) = [genes   |-> told[best[1]].candidates[best[2]],
                                    fitness |-> told[best[1]].fitness[best[2]]]
  BY <1>7 DEF Uninterrupted!Answer, Eligible
<1> HIDE DEF best
<1>16. Uninterrupted!Answer(told) = memory.answer
  BY <1>5, <1>8, <1>9, <1>12, <1>14, <1>15
<1> QED BY <1>6, <1>16 DEF AnswerIsTheRuns, told

(* The answer, and the games it has cost, are those of the whole run.       *)
THEOREM AnswerIsWhole == Spec => []AnswerIsTheRuns
<1>1. IInv => AnswerIsTheRuns
  BY AnswerFollows
<1> QED BY <1>1, RunIsSound, PTL

(* Against the baseline, equal genes meet equal games.                      *)
LEMMA ScoresFollow == ASSUME IInv PROVE SameGenesSameScore
<1> SUFFICES ASSUME setup.opponents = "Baseline", NEW g \in 1..Len(reports),
                    NEW c \in DOMAIN reports[g].candidates, NEW d \in DOMAIN reports[g].candidates,
                    reports[g].candidates[c] = reports[g].candidates[d]
             PROVE  reports[g].fitness[c] = reports[g].fitness[d]
  <2>1. DOMAIN reports = 1..Len(reports)
    BY ListLength, SetupIsLawful DEF IInv, Told, Lawful
  <2> QED BY <2>1 DEF SameGenesSameScore
<1> DEFINE mem == At(setup, reports, g - 1)
           cs == FieldOf(mem)
           plan == PlanFor(setup, mem.generation)
<1>1. /\ setup \in Setup /\ Lawful(setup) /\ Sized(setup) /\ Told(setup, reports)
      /\ Len(reports) \in Nat
  BY SetupIsLawful DEF IInv, Told, Lawful
<1>2. g - 1 \in 0..Len(reports)
  BY <1>1
<1>3. reports[g].candidates = cs /\ reports[g].fitness = PlayedOut(plan, cs, mem.baseline)
  BY <1>1, ToldScores DEF FitnessOf
<1>4. IsList(cs, setup.size) /\ DOMAIN cs = 1..setup.size /\ setup.size \in Nat \ {0}
  BY <1>1, <1>2, HeldIsTold DEF Lawful
<1>5. IsPlan(plan) /\ plan.opponents = "Baseline" /\ MaxDecisions \in Nat
  BY <1>1, PlansArePlans, TuneRunAssumption DEF PlanFor
<1> HIDE DEF cs, plan, mem
<1>6. c \in 1..setup.size /\ d \in 1..setup.size /\ cs[c] = cs[d]
  BY <1>3, <1>4
<1>7. c # Opponent /\ d # Opponent
  BY <1>4, <1>6 DEF Opponent
<1>8. /\ PlayedOut(plan, cs, mem.baseline)[c] = MetBy(plan, cs, mem.baseline, c, Opponent, plan.games)
      /\ PlayedOut(plan, cs, mem.baseline)[d] = MetBy(plan, cs, mem.baseline, d, Opponent, plan.games)
  BY <1>4, <1>5, <1>6, BaselineAddsUp
<1>9. MetBy(plan, cs, mem.baseline, c, Opponent, plan.games)
        = MetBy(plan, cs, mem.baseline, d, Opponent, plan.games)
  BY <1>4, <1>6, <1>7, SameGenesMeetTheSame
<1> QED BY <1>3, <1>8, <1>9

(* Against one opponent a score is the candidate's, not its place's or its  *)
(* threads'.                                                                *)
THEOREM ScoresAreTheGenes == Spec => []SameGenesSameScore
<1>1. IInv => SameGenesSameScore
  BY ScoresFollow
<1> QED BY <1>1, RunIsSound, PTL

-----------------------------------------------------------------------------
(* The abstract run's functions are these ones, whatever the abstract       *)
(* state.                                                                   *)
LEMMA CreditsAgree ==
  ASSUME NEW plan, NEW cs, NEW base, NEW game
  PROVE  Uninterrupted!Credits(plan, cs, base, game) = Credits(plan, cs, base, game)
<1>1. ASSUME NEW contexts, NEW seed PROVE Uninterrupted!Play(contexts, seed) = Play(contexts, seed)
  BY DEF Uninterrupted!Play, Play, Uninterrupted!Iterate, Iterate, Uninterrupted!Generator,
         Generator, Uninterrupted!Opening, Opening, Uninterrupted!StatusRewards, StatusRewards,
         Uninterrupted!NoRewards, NoRewards, Uninterrupted!Applied, Applied,
         Uninterrupted!SearchChoice, SearchChoice, Uninterrupted!Advance, Advance,
         Uninterrupted!Peek, Peek, Uninterrupted!Index, Index, Uninterrupted!Midpoint, Midpoint
<1> QED BY <1>1 DEF Uninterrupted!Credits, Credits, Uninterrupted!GameSeed, GameSeed,
                    Uninterrupted!Opponent, Opponent

(* The abstract run repairs as the program does.                            *)
LEMMA RepairsAgree ==
  /\ \A genes : Uninterrupted!Repair(genes) = Repair(genes)
  /\ \A genes : Uninterrupted!GeneScales(genes) = GeneScales(genes)
<1>1. ASSUME NEW genes PROVE Uninterrupted!Repair(genes) = Repair(genes)
  BY DEF Uninterrupted!Repair, Repair, Uninterrupted!Clamp, Clamp
<1>2. ASSUME NEW genes PROVE Uninterrupted!GeneScales(genes) = GeneScales(genes)
  BY DEF Uninterrupted!GeneScales, GeneScales, Uninterrupted!Magnitude, Magnitude
<1> QED BY <1>1, <1>2

(* It builds the same optimizer.                                            *)
LEMMA NewAgrees ==
  ASSUME NEW strategy, NEW base, NEW size, NEW seed
  PROVE  Uninterrupted!New(strategy, base, size, seed) = New(strategy, base, size, seed)
<1>1. Uninterrupted!GaNew(base, size, seed) = GaNew(base, size, seed)
  BY DEF Uninterrupted!GaNew, GaNew, Uninterrupted!Iterate, Iterate,
         Uninterrupted!GeneScales, GeneScales, Uninterrupted!Magnitude, Magnitude,
         Uninterrupted!Sampled, Sampled, Uninterrupted!WithGenerator, WithGenerator,
         Uninterrupted!StandardNormal, StandardNormal, Uninterrupted!Peek, Peek,
         Uninterrupted!Advance, Advance, Uninterrupted!Repair, Repair,
         Uninterrupted!Clamp, Clamp, Uninterrupted!Generator, Generator,
         Uninterrupted!NegInfinity, NegInfinity
<1>2. Uninterrupted!CmaNew(base, size, seed) = CmaNew(base, size, seed)
  BY RepairsAgree DEF Uninterrupted!CmaNew, CmaNew, Uninterrupted!Generator, Generator,
         Uninterrupted!NegInfinity, NegInfinity
<1> QED BY <1>1, <1>2 DEF Uninterrupted!New, New

(* It asks alike.                                                           *)
LEMMA AskAgrees == ASSUME NEW opt PROVE Uninterrupted!Ask(opt) = Ask(opt)
<1>1. Uninterrupted!GaAsk(opt) = GaAsk(opt)
  BY DEF Uninterrupted!GaAsk, GaAsk
<1>2. Uninterrupted!CmaAsk(opt) = CmaAsk(opt)
  BY DEF Uninterrupted!CmaAsk, CmaAsk, Uninterrupted!Iterate, Iterate,
         Uninterrupted!Sampled, Sampled, Uninterrupted!WithGenerator, WithGenerator,
         Uninterrupted!StandardNormal, StandardNormal, Uninterrupted!Peek, Peek,
         Uninterrupted!Advance, Advance
<1> QED BY <1>1, <1>2 DEF Uninterrupted!Ask, Ask

(* It tells alike.                                                          *)
LEMMA TellAgrees ==
  ASSUME NEW opt, NEW told, NEW fitness
  PROVE  Uninterrupted!Tell(opt, told, fitness) = Tell(opt, told, fitness)
<1>1. Uninterrupted!GaTell(opt, told, fitness) = GaTell(opt, told, fitness)
  BY DEF Uninterrupted!GaTell, GaTell, Uninterrupted!Ranked, Ranked,
         Uninterrupted!KeepBest, KeepBest,
         Uninterrupted!Child, Child, Uninterrupted!Tournament, Tournament,
         Uninterrupted!Iterate, Iterate, Uninterrupted!WithGenerator, WithGenerator,
         Uninterrupted!StandardNormal, StandardNormal, Uninterrupted!Peek, Peek,
         Uninterrupted!Advance, Advance, Uninterrupted!Below, Below,
         Uninterrupted!Index, Index
<1>2. Uninterrupted!CmaTell(opt, told, fitness) = CmaTell(opt, told, fitness)
  BY DEF Uninterrupted!CmaTell, CmaTell, Uninterrupted!Ranked, Ranked,
         Uninterrupted!KeepBest, KeepBest,
         Uninterrupted!FoldLeft, FoldLeft, Uninterrupted!MapThenFoldSet, MapThenFoldSet,
         Uninterrupted!Max, Max, Uninterrupted!Clamp, Clamp
<1> QED BY <1>1, <1>2 DEF Uninterrupted!Tell, Tell

(* It sums alike.                                                           *)
LEMMA SumsAgree == ASSUME NEW f PROVE Uninterrupted!SumFunction(f) = SumFunction(f)
BY DEF Uninterrupted!SumFunction, SumFunction, Uninterrupted!SumFunctionOnSet, SumFunctionOnSet,
       Uninterrupted!MapThenFoldSet, MapThenFoldSet,
       Uninterrupted!FoldFunctionOnSet, FoldFunctionOnSet

(* A matchup at a time, or a game at a time: the same sums.                 *)
LEMMA MeasuresAgree ==
  ASSUME NEW plan, IsPlan(plan), NEW n \in Nat \ {0}, NEW cs, IsList(cs, n)
  PROVE  Uninterrupted!Measured(plan, cs) = PlayedOut(plan, cs, setup.base)
<1> DEFINE base == setup.base
           rival(c) == IF plan.opponents = "Baseline"
                       THEN MetBy(plan, cs, base, c, Opponent, plan.games)
                       ELSE MetByAll(plan, cs, base, c, n)
<1>1. DOMAIN cs = 1..n /\ Len(cs) = n /\ MaxDecisions \in Nat
  BY ListLength, TuneRunAssumption
<1>2. ASSUME NEW c, NEW d, NEW games
      PROVE  Uninterrupted!Score(plan, cs, c, d, games) = MetBy(plan, cs, base, c, d, games)
  <2> DEFINE game(round) == IF d = Opponent \/ c < d THEN Matchup(c, d, round, games)
                                                     ELSE Matchup(d, c, round, games)
             rounds == [round \in 0..(games - 1) |-> Credits(plan, cs, base, game(round))[c]]
             others == [round \in 0..(games - 1) |->
                          Uninterrupted!Credits(plan, cs, base, game(round))[c]]
  <2>1. Uninterrupted!Score(plan, cs, c, d, games) = Uninterrupted!SumFunction(others)
    BY DEF Uninterrupted!Score, Uninterrupted!Opponent, Opponent, Uninterrupted!Matchup, Matchup
  <2>2. MetBy(plan, cs, base, c, d, games) = SumFunction(rounds)
    BY DEF MetBy
  <2>3. others = rounds
    <3> HIDE DEF game
    <3>1. \A round : Uninterrupted!Credits(plan, cs, base, game(round))
                       = Credits(plan, cs, base, game(round))
      BY CreditsAgree
    <3> QED BY <3>1
  <2> HIDE DEF rounds, others
  <2> QED BY <2>1, <2>2, <2>3, SumsAgree
<1>3. Uninterrupted!GamesPerPairing(plan, n) = GamesPerPairing(plan, n)
  BY DEF Uninterrupted!GamesPerPairing, GamesPerPairing, Uninterrupted!NextEven, NextEven,
         Uninterrupted!CeilDiv, CeilDiv, Uninterrupted!Less1, Less1
<1>4. ASSUME NEW c \in 1..n PROVE Uninterrupted!Measured(plan, cs)[c] = rival(c)
  <2> DEFINE G == GamesPerPairing(plan, n)
             score(d) == Uninterrupted!Score(plan, cs, c, d, G)
             met(d) == MetBy(plan, cs, base, c, d, G)
  <2>1. CASE plan.opponents = "Baseline"
    <3>1. Uninterrupted!Measured(plan, cs)[c]
            = Uninterrupted!Score(plan, cs, c, Opponent, plan.games)
      BY <1>1, <2>1 DEF Uninterrupted!Measured, Uninterrupted!Opponent, Opponent
    <3> QED BY <1>2, <2>1, <3>1
  <2>2. CASE plan.opponents # "Baseline"
    <3>1. Uninterrupted!Measured(plan, cs)[c]
            = Uninterrupted!SumFunction([d \in (1..n) \ {c} |-> score(d)])
      BY <1>1, <1>3, <2>2 DEF Uninterrupted!Measured
    <3>2. [d \in (1..n) \ {c} |-> score(d)] = [d \in (1..n) \ {c} |-> met(d)]
      <4>1. \A d : score(d) = met(d)
        BY <1>2
      <4> HIDE DEF score, met
      <4> QED BY <4>1
    <3>3. rival(c) = SumFunction([d \in (1..n) \ {c} |-> met(d)])
      BY <2>2 DEF MetByAll
    <3> HIDE DEF rival, score, met
    <3> QED BY <3>1, <3>2, <3>3, SumsAgree
  <2> QED BY <2>1, <2>2
<1>5. ASSUME NEW c \in 1..n PROVE PlayedOut(plan, cs, base)[c] = rival(c)
  <2>1. CASE plan.opponents = "Baseline"
    BY <1>1, <2>1, BaselineAddsUp
  <2>2. CASE plan.opponents = "RoundRobin"
    <3>1. plan.opponents # "Baseline"
      BY <2>2
    <3> QED BY <1>1, <2>2, <3>1, RoundRobinAddsUp
  <2> QED BY <2>1, <2>2 DEF IsPlan
<1> HIDE DEF rival, base
<1>6. \A c \in 1..n : Uninterrupted!Measured(plan, cs)[c] = PlayedOut(plan, cs, base)[c]
  BY <1>4, <1>5
<1>7. Uninterrupted!Measured(plan, cs) = [c \in 1..n |-> Uninterrupted!Measured(plan, cs)[c]]
  BY <1>1 DEF Uninterrupted!Measured
<1>8. PlayedOut(plan, cs, base) = [c \in 1..n |-> PlayedOut(plan, cs, base)[c]]
  BY <1>1 DEF PlayedOut
<1> QED BY <1>6, <1>7, <1>8 DEF base

-----------------------------------------------------------------------------
(* The abstract state: what the caller was told of, and the optimizer that  *)
(* the last generation left.                                                *)
OptimizerNow == IF reports = <<>> THEN Built(OwnCall(Nothing))
                ELSE reports[Len(reports)].after.optimizer

HistoryOf(rs) == [g \in DOMAIN rs |-> [candidates |-> rs[g].candidates,
                                       fitness    |-> rs[g].fitness]]

(* The optimizer that stands for the run is the one after the last          *)
(* generation told of.                                                      *)
LEMMA OptimizerIsTold == ASSUME IInv PROVE OptimizerNow = At(setup, reports, Len(reports)).optimizer
<1>1. IsList(reports, Len(reports)) /\ Len(reports) \in Nat
  BY SetupIsLawful DEF IInv, Told, Lawful
<1>2. CASE reports = <<>>
  <2>1. Len(reports) = 0
    BY <1>2
  <2>2. Built(OwnCall(Nothing)) = Own(setup)
    BY DEF Built, OwnCall, Own
  <2> QED BY <1>2, <2>1, <2>2 DEF OptimizerNow, At, StartOf, Held
<1>3. CASE reports # <<>>
  <2>1. Len(reports) # 0
    <3> SUFFICES ASSUME Len(reports) = 0 PROVE FALSE
      OBVIOUS
    <3>1. reports = [i \in 1..0 |-> reports[i]]
      BY <1>1 DEF IsList
    <3> QED BY <1>3, <3>1
  <2> QED BY <1>3, <2>1 DEF OptimizerNow, At
<1> QED BY <1>2, <1>3

(* The history has an entry for each generation told of.                    *)
LEMMA HistoryLength ==
  ASSUME NEW n \in Nat, NEW rs, IsList(rs, n)
  PROVE  Len(HistoryOf(rs)) = n
<1> DEFINE past == HistoryOf(rs)
<1>1. DOMAIN rs = 1..n
  BY ListLength
<1>2. DOMAIN past = 1..n /\ past = [g \in 1..n |-> past[g]]
  BY <1>1 DEF HistoryOf
<1> HIDE DEF past
<1>3. Len(past) = n
  BY <1>2, ListLength DEF IsList
<1> QED BY <1>3 DEF past

(* A generation told appends its entry to the history.                      *)
LEMMA HistoryGrows ==
  ASSUME NEW n \in Nat, NEW rs, IsList(rs, n), NEW e
  PROVE  /\ HistoryOf(Append(rs, e))
              = Append(HistoryOf(rs), [candidates |-> e.candidates, fitness |-> e.fitness])
         /\ Len(HistoryOf(rs)) = n
<1> DEFINE more == Append(rs, e)
           entry(g) == [candidates |-> rs[g].candidates, fitness |-> rs[g].fitness]
           new == [candidates |-> e.candidates, fitness |-> e.fitness]
           past == HistoryOf(rs)
           now == HistoryOf(more)
<1>1. DOMAIN rs = 1..n
  BY ListLength
<1>2. /\ IsList(more, n + 1) /\ more[n + 1] = e /\ \A g \in 1..n : more[g] = rs[g]
  BY AppendedAt
<1>3. DOMAIN more = 1..(n + 1)
  <2>1. n + 1 \in Nat
    OBVIOUS
  <2> HIDE DEF more
  <2> QED BY <1>2, <2>1, ListLength
<1>4. past = [g \in 1..n |-> entry(g)]
  BY <1>1 DEF HistoryOf
<1>5. IsList(past, n)
  <2> HIDE DEF entry, past
  <2> QED BY <1>4 DEF IsList
<1>6. Len(past) = n
  <2> HIDE DEF past
  <2> QED BY <1>5, ListLength
<1>7. /\ IsList(Append(past, new), n + 1) /\ Append(past, new)[n + 1] = new
      /\ \A g \in 1..n : Append(past, new)[g] = past[g]
  <2> HIDE DEF past, new
  <2> QED BY <1>5, AppendedAt
<1>8. now = [g \in 1..(n + 1) |-> [candidates |-> more[g].candidates, fitness |-> more[g].fitness]]
  BY <1>3 DEF HistoryOf
<1>9. ASSUME NEW g \in 1..(n + 1) PROVE now[g] = Append(past, new)[g]
  <2>1. CASE g = n + 1
    <3> HIDE DEF more, past
    <3> QED BY <1>2, <1>7, <1>8, <2>1
  <2>2. CASE g # n + 1
    <3>1. g \in 1..n
      BY <2>2
    <3>2. now[g] = [candidates |-> more[g].candidates, fitness |-> more[g].fitness]
      BY <1>8
    <3>3. past[g] = entry(g)
      BY <1>4, <3>1
    <3> HIDE DEF more, past, now, new
    <3> QED BY <1>2, <1>7, <3>1, <3>2, <3>3
  <2> QED BY <2>1, <2>2
<1>10. now = [g \in 1..(n + 1) |-> now[g]]
  <2> HIDE DEF more
  <2> QED BY <1>3 DEF HistoryOf
<1>11. Append(past, new) = [g \in 1..(n + 1) |-> Append(past, new)[g]]
  BY <1>7 DEF IsList
<1>12. now = Append(past, new)
  <2> HIDE DEF now, past, new
  <2> QED BY <1>9, <1>10, <1>11
<1> QED BY <1>6, <1>12

(* Telling the caller of a generation for the first time is the abstract    *)
(* run's generation; telling it again, after a kill, is nothing new.        *)
LEMMA TellingIsGeneration ==
  ASSUME IInv, TellGeneration
  PROVE  [Uninterrupted!Generation]_(Uninterrupted!vars)
<1>1. PICK g \in 0..Len(reports) :
        LET e == OutcomeOf(setup, At(setup, reports, g))
        IN  /\ g < setup.generations /\ memory' = e.after
            /\ g = Len(reports) => reports' = Append(reports, e)
            /\ g < Len(reports) => reports' = reports
  BY TellsOutcome
<1>2. setup' = setup
  BY DEF TellGeneration
<1>3. /\ IsList(reports, Len(reports)) /\ Len(reports) \in Nat /\ Lawful(setup)
      /\ setup \in Setup
  BY SetupIsLawful DEF IInv, Told, Lawful
<1>4. CASE g < Len(reports)
  <2>1. reports' = reports
    BY <1>1, <1>4
  <2> QED BY <1>2, <2>1 DEF Uninterrupted!vars, Built, OwnCall, Nothing
<1>5. CASE g = Len(reports)
  <2> DEFINE n == Len(reports)
             mem == At(setup, reports, n)
             e == OutcomeOf(setup, mem)
             opt == mem.optimizer
             cs == FieldOf(mem)
             fits == FitnessOf(setup, mem)
  <2>1. n < setup.generations /\ reports' = Append(reports, e) /\ n \in 0..Len(reports)
    BY <1>1, <1>3, <1>5
  <2>2. IInv'
    BY TellHolds
  <2>3. OptimizerNow = opt
    BY OptimizerIsTold
  <2>4. Len(reports') = n + 1 /\ reports'[n + 1] = e /\ reports' # <<>>
    <3> HIDE DEF e
    <3>1. Len(reports') = n + 1 /\ reports'[n + 1] = e
      BY <1>3, <2>1, AppendedAt
    <3> QED BY <1>3, <3>1
  <2>5. OptimizerNow' = Tell(Ask(opt).optimizer, cs, fits)
    <3>1. OptimizerNow' = e.after.optimizer
      <4> HIDE DEF e
      <4> QED BY <2>4 DEF OptimizerNow
    <3>2. e.after = ToldOf(setup, AskedOf(mem), cs, fits)
      BY DEF OutcomeOf
    <3>3. AskedOf(mem).optimizer = Ask(opt).optimizer
      BY DEF AskedOf, Held
    <3> HIDE DEF e, mem, cs, fits, opt
    <3>4. e.after.optimizer = Tell(AskedOf(mem).optimizer, cs, fits)
      BY <3>2 DEF ToldOf, Held
    <3> QED BY <3>1, <3>3, <3>4
  <2>6. /\ HistoryOf(reports)' = Append(HistoryOf(reports), [candidates |-> cs, fitness |-> fits])
        /\ Len(HistoryOf(reports)) = n
    <3>1. e.candidates = cs /\ e.fitness = fits
      BY DEF OutcomeOf
    <3> HIDE DEF e, cs, fits
    <3>2. /\ HistoryOf(Append(reports, e))
               = Append(HistoryOf(reports), [candidates |-> e.candidates, fitness |-> e.fitness])
          /\ Len(HistoryOf(reports)) = n
      BY <1>3, HistoryGrows
    <3>3. HistoryOf(reports)' = HistoryOf(reports')
      BY DEF HistoryOf
    <3> QED BY <2>1, <3>1, <3>2, <3>3
  <2>7. Uninterrupted!Plan = PlanFor(setup, n)
    <3>1. SeedSpace \in Nat \ {0} /\ setup.seed \in 0..(SeedSpace - 1)
      BY <1>3, TuneRunAssumption
    <3>2. (setup.seed + 0) % SeedSpace = setup.seed
      <4>1. (0 * SeedSpace + setup.seed) % SeedSpace = setup.seed
        BY <3>1, PlaceIsOne
      <4>2. 0 * SeedSpace + setup.seed = setup.seed + 0
        BY <3>1
      <4> QED BY <4>1, <4>2
    <3>3. Uninterrupted!Plan
            = [games |-> setup.games, opponents |-> setup.opponents,
               seed |-> (setup.seed + (IF setup.reseed THEN Len(HistoryOf(reports)) * OddFactor
                                       ELSE 0)) % SeedSpace]
      BY DEF Uninterrupted!Plan, HistoryOf
    <3> QED BY <2>6, <3>2, <3>3 DEF PlanFor
  <2>8. /\ IsList(cs, setup.size) /\ mem.baseline = setup.base /\ mem.generation = n
        /\ setup.size \in Nat \ {0} /\ IsPlan(PlanFor(setup, n))
    <3>1. setup.size \in Nat \ {0}
      BY <1>3 DEF Lawful
    <3> QED BY <1>3, <2>1, <3>1, HeldIsTold, PlansArePlans
  <2>9. Uninterrupted!Measured(Uninterrupted!Plan, cs) = fits
    <3> HIDE DEF cs, mem
    <3>1. fits = PlayedOut(PlanFor(setup, n), cs, setup.base)
      BY <2>8 DEF FitnessOf, cs, mem
    <3>2. Uninterrupted!Measured(PlanFor(setup, n), cs) = PlayedOut(PlanFor(setup, n), cs, setup.base)
      BY <2>8, MeasuresAgree
    <3> QED BY <2>7, <3>1, <3>2
  <2>10. Uninterrupted!Ask(opt) = Ask(opt)
    BY AskAgrees
  <2>11. [i \in DOMAIN Ask(opt).candidates |-> Uninterrupted!Repair(Ask(opt).candidates[i])] = cs
    <3> HIDE DEF opt
    <3>1. [i \in DOMAIN Ask(opt).candidates |-> Uninterrupted!Repair(Ask(opt).candidates[i])]
            = [i \in DOMAIN Ask(opt).candidates |-> Repair(Ask(opt).candidates[i])]
      BY RepairsAgree
    <3> QED BY <3>1 DEF FieldOf, opt
  <2>12. Uninterrupted!Tell(Ask(opt).optimizer, cs, fits) = Tell(Ask(opt).optimizer, cs, fits)
    BY TellAgrees
  <2>13. Len(HistoryOf(reports)') = Len(HistoryOf(reports)) + 1
    <3>1. IsList(reports', n + 1)
      <4> HIDE DEF e
      <4> QED BY <1>3, <2>1, AppendedAt
    <3>2. Len(HistoryOf(reports')) = n + 1
      <4>1. n + 1 \in Nat
        BY <1>3
      <4> QED BY <3>1, <4>1, HistoryLength
    <3>3. HistoryOf(reports)' = HistoryOf(reports')
      BY DEF HistoryOf
    <3> QED BY <2>6, <3>2, <3>3
  <2> HIDE DEF opt, cs, fits, n, mem
  <2>14. Uninterrupted!Generation
           <=> /\ Len(HistoryOf(reports)) < setup.generations
               /\ Len(HistoryOf(reports)') = Len(HistoryOf(reports)) + 1
               /\ \E asked \in {Uninterrupted!Ask(OptimizerNow)} :
                    \E those \in {[i \in DOMAIN asked.candidates |->
                                     Uninterrupted!Repair(asked.candidates[i])]} :
                      \E fitness \in {Uninterrupted!Measured(Uninterrupted!Plan, those)} :
                        /\ OptimizerNow' = Uninterrupted!Tell(asked.optimizer, those, fitness)
                        /\ HistoryOf(reports)'
                             = Append(HistoryOf(reports),
                                      [candidates |-> those, fitness |-> fitness])
               /\ UNCHANGED setup
    BY DEF Uninterrupted!Generation, OptimizerNow, HistoryOf
  <2>15. Uninterrupted!Generation
    BY <1>2, <2>1, <2>3, <2>5, <2>6, <2>9, <2>10, <2>11, <2>12, <2>13, <2>14
  <2> QED BY <2>15
<1> QED BY <1>3, <1>4, <1>5

(* Every step of the program is a generation of the abstract run, or a      *)
(* stutter.                                                                 *)
LEMMA StepsMap ==
  ASSUME IInv, [Next]_vars
  PROVE  [Uninterrupted!Generation]_(Uninterrupted!vars)
<1>1. CASE TellGeneration
  BY <1>1, TellingIsGeneration
<1>2. CASE UNCHANGED <<setup, reports>>
  BY <1>2 DEF Uninterrupted!vars, Built, OwnCall, Nothing
<1>3. TellGeneration \/ UNCHANGED <<setup, reports>>
  BY DEF Next, Proceed, vars, Claim, PlayJob, Start, AskGeneration, Finish, Crash
<1> QED BY <1>1, <1>2, <1>3

(* The program begins where the abstract run does.                          *)
LEMMA InitMaps == Init => Uninterrupted!Init
<1> SUFFICES ASSUME Init PROVE Uninterrupted!Init
  OBVIOUS
<1>1. setup \in Setup /\ reports = <<>>
  BY DEF Init
<1>2. Built(OwnCall(Nothing))
        = Uninterrupted!New(setup.strategy, setup.base, setup.size, setup.seed)
  BY NewAgrees DEF Built, OwnCall
<1> QED BY <1>1, <1>2 DEF Uninterrupted!Init

(* Whatever is killed when, whichever checkpoints the caller kept and       *)
(* whichever worker played what: the generations the caller is told of are  *)
(* those of the run nothing interrupts.                                     *)
THEOREM ResumedIsUninterrupted == Spec => ResumedRunIsTheRun
<1>1. Init => Uninterrupted!Init
  BY InitMaps
<1>2. IInv /\ [Next]_vars => [Uninterrupted!Generation]_(Uninterrupted!vars)
  BY StepsMap
<1> QED BY <1>1, <1>2, RunIsSound, PTL DEF Spec, ResumedRunIsTheRun, Uninterrupted!Spec
=============================================================================
