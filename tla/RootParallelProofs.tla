------------------------- MODULE RootParallelProofs -------------------------
(***************************************************************************)
(* What a pool of any size answers, reports and leaves behind: TLAPS proofs *)
(* about RootParallel.                                                     *)
(***************************************************************************)
EXTENDS RootParallel, RankProofs, SequenceTheorems, TLAPS

(* An armed tree is that of a thread which has not begun; once any thread   *)
(* of the call may have begun, the call ends only after all of them have.   *)
OnlyTheReadyAreArmed ==
  /\ DOMAIN pc = workers
  /\ DOMAIN armed = workers
  /\ pool = "called" => \A w \in workers : pc[w] = "ready"
  /\ pool = "running" => \A w \in workers : armed[w] => pc[w] = "ready"
  /\ NothingStaysArmed

LEMMA InitArmed == Init => OnlyTheReadyAreArmed
  BY DEF Init, OnlyTheReadyAreArmed, NothingStaysArmed

LEMMA StopKeepsDomain ==
  ASSUME NEW w \in workers, NEW reason, NEW choice,
         DOMAIN pc = workers, Stop(w, reason, choice)
  PROVE  /\ DOMAIN pc' = workers
         /\ pc'[w] = "stopped"
         /\ \A v \in workers \ {w} : pc'[v] = pc[v]
  BY DEF Stop

LEMMA AnswerKeepsDomain ==
  ASSUME NEW w \in workers, NEW reason,
         DOMAIN pc = workers, StopWithAnswer(w, reason)
  PROVE  /\ DOMAIN pc' = workers
         /\ pc'[w] = "stopped"
         /\ \A v \in workers \ {w} : pc'[v] = pc[v]
  BY StopKeepsDomain DEF StopWithAnswer

LEMMA NextArmed ==
  ASSUME OnlyTheReadyAreArmed, [Next]_vars
  PROVE  OnlyTheReadyAreArmed'
<1> USE DEF OnlyTheReadyAreArmed, NothingStaysArmed
<1>1. CASE Refuse
  BY <1>1 DEF Refuse
<1>2. CASE Spawn
  BY <1>2 DEF Spawn
<1>3. ASSUME NEW w \in workers, Start(w)
      PROVE  OnlyTheReadyAreArmed'
  <2>1. /\ DOMAIN pc' = workers
        /\ \A v \in workers \ {w} : pc'[v] = pc[v]
    BY <1>3, StopKeepsDomain DEF Start
  <2> QED BY <1>3, <2>1 DEF Start
<1>4. ASSUME NEW w \in workers, StopEarly(w)
      PROVE  OnlyTheReadyAreArmed'
  <2>1. /\ DOMAIN pc' = workers
        /\ \A v \in workers \ {w} : pc'[v] = pc[v]
    BY <1>4, AnswerKeepsDomain DEF StopEarly, StopOnBudget, StopOnCancel, StopOnDeadline
  <2> QED BY <1>4, <2>1 DEF StopEarly
<1>5. ASSUME NEW w \in workers, Iterate(w)
      PROVE  OnlyTheReadyAreArmed'
  <2>1. /\ DOMAIN pc' = workers
        /\ \A v \in workers \ {w} : pc'[v] = pc[v]
    BY <1>5, AnswerKeepsDomain DEF Iterate
  <2> QED BY <1>5, <2>1 DEF Iterate
<1>6. ASSUME NEW w \in workers, Panic(w)
      PROVE  OnlyTheReadyAreArmed'
  BY <1>6 DEF Panic
<1>7. CASE Cancel
  BY <1>7 DEF Cancel
<1>8. CASE JoinPanicked
  BY <1>8 DEF JoinPanicked, Joined
<1>9. CASE Merge
  BY <1>9 DEF Merge, Joined
<1>10. CASE UNCHANGED vars
  BY <1>10 DEF vars
<1> QED BY <1>1, <1>2, <1>3, <1>4, <1>5, <1>6, <1>7, <1>8, <1>9, <1>10
        DEF Next, Work

(* However a call ends, no worker's tree is armed, in a pool of any size:   *)
(* the refusal disarms every worker because no worker's search has, and a   *)
(* panic on one thread leaves the scope after every other thread began.     *)
THEOREM NothingLeftArmed == Spec => []NothingStaysArmed
<1>1. OnlyTheReadyAreArmed => NothingStaysArmed
  BY DEF OnlyTheReadyAreArmed
<1> QED BY InitArmed, NextArmed, <1>1, PTL DEF Spec

-----------------------------------------------------------------------------

(* A worker is one of a pool that is not empty, and its tree is one that    *)
(* iterations can have grown.                                               *)
Typed ==
  /\ \E n \in 1..MaxThreads : workers = 1..n
  /\ legal \in Seq(Choice) /\ legal # <<>>
  /\ DOMAIN pc = workers
  /\ DOMAIN results = workers
  /\ DOMAIN root = workers
  /\ \A w \in workers : WellFormed(root[w])

(* What the statistics of any number of trees are. *)
Statistical(stats) ==
  \A c \in Choice : /\ stats.visits[c] \in Nat
                    /\ stats.timesAvailable[c] \in Nat
                    /\ stats.reward[c] \in Int

LEMMA QuotientIsAnInteger ==
  ASSUME NEW x \in Int, NEW s \in Nat \ {0}, NEW v \in Nat, v # 0
  PROVE  (x * s) \div v \in Int
BY SMT

LEMMA StatisticsAreACandidate ==
  ASSUME NEW stats, Statistical(stats), NEW c \in Choice
  PROVE  Statistics(stats, c) \in Candidate(Int)
<1>1. /\ stats.visits[c] \in Nat
      /\ stats.timesAvailable[c] \in Nat
      /\ stats.reward[c] \in Int
      /\ Scale \in Nat \ {0}
  BY RootParallelAssumption DEF Statistical
<1>2. stats.visits[c] # 0 => (stats.reward[c] * Scale) \div stats.visits[c] \in Int
  BY <1>1, QuotientIsAnInteger
<1> QED BY <1>1, <1>2 DEF Statistics, Candidate

(* Candidates at places of an order of choices can be ranked.               *)
LEMMA CandidatesAreHonest ==
  ASSUME NEW stats, Statistical(stats), NEW order \in Seq(Choice),
         NEW places \in SUBSET DOMAIN order
  PROVE  /\ HonestOn(Candidates(places, order, stats), places)
         /\ DOMAIN Candidates(places, order, stats) = places
         /\ places \subseteq Nat
<1>1. DOMAIN order = 1..Len(order) /\ Len(order) \in Nat
  BY LenProperties
<1>2. IsFiniteSet(places) /\ places \subseteq Nat
  <2>1. places \in SUBSET (1..Len(order)) /\ IsFiniteSet(1..Len(order))
    BY <1>1, FS_Interval
  <2> QED BY <1>1, <2>1, FS_Subset
<1>3. ASSUME NEW i \in places
      PROVE  Candidates(places, order, stats)[i] \in Candidate(Int)
  <2>1. order[i] \in Choice
    BY <1>1
  <2> QED BY <2>1, StatisticsAreACandidate DEF Candidates
<1> QED BY <1>2, <1>3 DEF HonestOn, Candidates

LEMMA WellFormedIsStatistical ==
  ASSUME NEW t, WellFormed(t) PROVE Statistical(t)
BY DEF WellFormed, Root, Statistical

(* The sums over the pool are statistics, and are the worker's own where    *)
(* the pool has one.                                                        *)
LEMMA PooledIsStatistical ==
  ASSUME Typed
  PROVE  /\ Statistical(Pooled)
         /\ workers = {1} => \A c \in Choice : Statistics(Pooled, c) = Statistics(root[1], c)
<1>1. IsFiniteSet(workers)
  BY FS_Interval DEF Typed
<1>2. \A w \in workers : Statistical(root[w])
  BY WellFormedIsStatistical DEF Typed
<1>3. ASSUME NEW c \in Choice
      PROVE  /\ [w \in workers |-> root[w].visits[c]] \in [workers -> Nat]
             /\ [w \in workers |-> root[w].timesAvailable[c]] \in [workers -> Nat]
             /\ [w \in workers |-> root[w].reward[c]] \in [workers -> Int]
  BY <1>2 DEF Statistical
<1>4. ASSUME NEW c \in Choice
      PROVE  /\ Pooled.visits[c] \in Nat
             /\ Pooled.timesAvailable[c] \in Nat
             /\ Pooled.reward[c] \in Int
  BY <1>1, <1>3, SumOfNaturals, SumOfIntegers DEF Pooled
<1>5. ASSUME workers = {1}, NEW c \in Choice
      PROVE  /\ Pooled.visits[c] = root[1].visits[c]
             /\ Pooled.timesAvailable[c] = root[1].timesAvailable[c]
             /\ Pooled.reward[c] = root[1].reward[c]
  <2> DEFINE v == [w \in workers |-> root[w].visits[c]]
             a == [w \in workers |-> root[w].timesAvailable[c]]
             r == [w \in workers |-> root[w].reward[c]]
  <2>1. v \in [{1} -> Int] /\ a \in [{1} -> Int] /\ r \in [{1} -> Int]
    BY <1>3, <1>5
  <2>2. SumFunction(v) = v[1] /\ SumFunction(a) = a[1] /\ SumFunction(r) = r[1]
    <3> HIDE DEF v, a, r
    <3> QED BY <2>1, SumOfOne
  <2> QED BY <1>5, <2>2 DEF Pooled
<1> QED BY <1>4, <1>5 DEF Statistical, Statistics

(* No worker visited a choice more often than the pool.                     *)
LEMMA PooledDominates ==
  ASSUME Typed, NEW w \in workers, NEW c \in Choice
  PROVE  /\ root[w].visits[c] \in Nat
         /\ Pooled.visits[c] \in Nat
         /\ root[w].visits[c] <= Pooled.visits[c]
<1> DEFINE v == [u \in workers |-> root[u].visits[c]]
<1>1. IsFiniteSet(workers)
  BY FS_Interval DEF Typed
<1>2. v \in [workers -> Nat]
  BY WellFormedIsStatistical DEF Typed, Statistical
<1>3. SumFunction(v) \in Nat /\ v[w] <= SumFunction(v)
  <2> HIDE DEF v
  <2> QED BY <1>1, <1>2, SumOfNaturals
<1> QED BY <1>2, <1>3 DEF Pooled

-----------------------------------------------------------------------------

LEMMA OpenedIsSequence ==
  ASSUME NEW S \in SUBSET Choice, NEW opened \in SetToSeqs(S)
  PROVE  /\ opened \in Seq(Choice)
         /\ \A i \in DOMAIN opened : opened[i] \in S
         /\ IsInjective(opened)
<1>1. Cardinality(S) \in Nat
  BY RootParallelAssumption, FS_Subset, FS_CardinalityType
<1>2. opened \in [1..Cardinality(S) -> S]
  BY DEF SetToSeqs
<1>3. opened \in Seq(Choice)
  BY <1>1, <1>2, IsASeq
<1>4. IsInjective(opened)
  BY <1>2 DEF SetToSeqs, IsInjective
<1> QED BY <1>2, <1>3, <1>4

(* Children appended for choices that had none keep one child to a choice. *)
LEMMA GrownChildren ==
  ASSUME NEW kids \in Seq(Choice), IsInjective(kids),
         NEW S \in SUBSET (Choice \ ToSet(kids)), NEW opened \in SetToSeqs(S)
  PROVE  /\ kids \o opened \in Seq(Choice)
         /\ IsInjective(kids \o opened)
         /\ ToSet(kids) \subseteq ToSet(kids \o opened)
<1> DEFINE order == kids \o opened
<1>1. /\ opened \in Seq(Choice)
      /\ \A i \in DOMAIN opened : opened[i] \in S
      /\ IsInjective(opened)
  BY OpenedIsSequence
<1>2. /\ order \in Seq(Choice)
      /\ Len(order) = Len(kids) + Len(opened)
      /\ \A i \in 1..Len(kids) + Len(opened) :
           order[i] = IF i <= Len(kids) THEN kids[i] ELSE opened[i - Len(kids)]
  BY <1>1, ConcatProperties
<1>3. /\ DOMAIN kids = 1..Len(kids) /\ Len(kids) \in Nat
      /\ DOMAIN opened = 1..Len(opened) /\ Len(opened) \in Nat
      /\ DOMAIN order = 1..Len(order)
  BY <1>1, <1>2, LenProperties
<1> HIDE DEF order
<1>4. \A i \in DOMAIN kids : i \in DOMAIN order /\ order[i] = kids[i]
  BY <1>2, <1>3
<1>5. \A i \in DOMAIN order \ DOMAIN kids :
        i - Len(kids) \in DOMAIN opened /\ order[i] = opened[i - Len(kids)]
  BY <1>2, <1>3
<1>6. ASSUME NEW i \in DOMAIN order, NEW j \in DOMAIN order, order[i] = order[j]
      PROVE  i = j
  <2>1. i \in DOMAIN kids <=> j \in DOMAIN kids
    BY <1>1, <1>4, <1>5, <1>6 DEF ToSet
  <2>2. CASE i \in DOMAIN kids
    BY <1>4, <1>6, <2>1, <2>2 DEF IsInjective
  <2>3. CASE i \notin DOMAIN kids
    <3>1. i - Len(kids) = j - Len(kids)
      BY <1>1, <1>5, <1>6, <2>1, <2>3 DEF IsInjective
    <3> QED BY <1>3, <3>1
  <2> QED BY <2>2, <2>3
<1>7. IsInjective(order)
  BY <1>6 DEF IsInjective
<1>8. ToSet(kids) \subseteq ToSet(order)
  BY <1>4 DEF ToSet
<1> QED BY <1>2, <1>7, <1>8 DEF order

(* An iteration grows a well-formed root into another.                      *)
LEMMA IteratedIsWellFormed ==
  ASSUME NEW t, WellFormed(t), NEW world \in SUBSET Choice,
         NEW u \in Iterated(t, world)
  PROVE  WellFormed(u)
<1>1. /\ t \in Root /\ IsInjective(t.children)
      /\ \A c \in Choice : t.visits[c] > 0 => c \in ToSet(t.children)
  BY DEF WellFormed
<1>2. CASE world = {}
  <2>1. u = [t EXCEPT !.total = @ + 1]
    BY <1>2 DEF Iterated
  <2>2. /\ u \in Root
        /\ u.children = t.children
        /\ u.visits = t.visits
    <3>1. t.total + 1 \in Nat
      BY <1>1 DEF Root
    <3>2. u = [t EXCEPT !.total = t.total + 1]
      BY <2>1
    <3> QED BY <1>1, <3>1, <3>2 DEF Root
  <2> QED BY <1>1, <2>2 DEF WellFormed
<1>3. CASE world # {}
  <2>1. PICK opened \in SetToSeqs(world \ ToSet(t.children)) :
          \E c \in Selectable(t, t.children \o opened, world), r \in Reward :
            u = Selected(t, t.children \o opened, world, c, r)
    <3>1. PICK opened \in SetToSeqs(world \ ToSet(t.children)) :
            u \in SelectedIn(t, world, t.children \o opened)
      BY <1>3 DEF Iterated
    <3> QED BY <3>1 DEF SelectedIn
  <2> DEFINE order == t.children \o opened
  <2>2. PICK c \in Selectable(t, order, world), r \in Reward :
          u = Selected(t, order, world, c, r)
    BY <2>1
  <2>3. /\ t.children \in Seq(Choice)
        /\ t.visits \in [Choice -> Nat]
        /\ t.timesAvailable \in [Choice -> Nat]
        /\ t.reward \in [Choice -> Int]
        /\ t.total \in Nat
    BY <1>1 DEF Root
  <2>4. /\ order \in Seq(Choice)
        /\ IsInjective(order)
        /\ ToSet(t.children) \subseteq ToSet(order)
    <3>1. world \ ToSet(t.children) \in SUBSET (Choice \ ToSet(t.children))
      OBVIOUS
    <3> QED BY <1>1, <2>3, <3>1, GrownChildren
  <2> HIDE DEF order
  <2>5. c \in Choice /\ c \in ToSet(order)
    <3>1. CASE c \in world /\ t.visits[c] # 0
      BY <1>1, <2>3, <2>4, <3>1
    <3>2. CASE \E i \in DOMAIN order : c = order[i]
      BY <2>4, <3>2 DEF ToSet
    <3> QED BY <2>2, <3>1, <3>2 DEF Selectable
  <2>6. /\ u.children = order
        /\ u.visits \in [Choice -> Nat]
        /\ u.visits = [t.visits EXCEPT ![c] = @ + 1]
    BY <2>2, <2>3, <2>5 DEF Selected
  <2>7. u.timesAvailable \in [Choice -> Nat]
    <3>1. \A d \in Choice : t.timesAvailable[d] + (IF d \in world THEN 1 ELSE 0) \in Nat
      BY <2>3
    <3> QED BY <2>2, <3>1 DEF Selected
  <2>8. u.reward \in [Choice -> Int]
    <3>1. r \in Int
      BY <2>2, RootParallelAssumption
    <3> QED BY <2>2, <2>3, <2>5, <3>1 DEF Selected
  <2>9. u \in Root
    BY <2>2, <2>3, <2>4, <2>6, <2>7, <2>8 DEF Root, Selected
  <2>10. \A d \in Choice : u.visits[d] > 0 => d \in ToSet(u.children)
    BY <1>1, <2>3, <2>4, <2>5, <2>6
  <2> QED BY <2>4, <2>6, <2>9, <2>10 DEF WellFormed
<1> QED BY <1>2, <1>3

-----------------------------------------------------------------------------

(* The candidates among which a worker of tree t chooses.                   *)
Own(t) == Candidates(Playable(t.children), t.children, t)

LEMMA OwnAreHonest ==
  ASSUME NEW t, WellFormed(t)
  PROVE  /\ HonestOn(Own(t), DOMAIN Own(t))
         /\ DOMAIN Own(t) = Playable(t.children)
         /\ Playable(t.children) \subseteq Nat
         /\ \A i \in Playable(t.children) : Own(t)[i] = Statistics(t, t.children[i])
<1>1. Statistical(t) /\ t.children \in Seq(Choice)
  BY WellFormedIsStatistical DEF WellFormed, Root
<1>2. Playable(t.children) \in SUBSET DOMAIN t.children
  BY DEF Playable
<1>3. \A i \in Playable(t.children) : Own(t)[i] = Statistics(t, t.children[i])
  BY DEF Own, Candidates
<1> QED BY <1>1, <1>2, <1>3, CandidatesAreHonest DEF Own

(* What a worker's result says of the tree it was read from.                *)
Justified(r, t) ==
  /\ r \in [choice : ToSet(legal), stopReason : StopReason]
  /\ r.stopReason = "SingleChoice" <=> Len(legal) = 1
  /\ r.stopReason # "SingleChoice" /\ HasLeader(Own(t)) =>
       r.choice = t.children[Leader(Own(t))]
  /\ r.stopReason = "Proven" =>
       /\ HasLeader(Own(t))
       /\ \A c \in ToSet(legal) \ {r.choice} : t.visits[c] < MinEvidence

LEMMA JustifiedOfPosition ==
  ASSUME UNCHANGED legal, NEW r, NEW t
  PROVE  Justified(r, t)' <=> Justified(r, t)
<1>1. Playable(t.children)' = Playable(t.children)
  BY DEF Playable
<1>2. Own(t)' = Own(t)
  BY <1>1 DEF Own, Candidates
<1> QED BY <1>2 DEF Justified

(* A settled tree has a leader, and its rivals are short of the bar.        *)
LEMMA SettledStandsAlone ==
  ASSUME Typed, NEW t, WellFormed(t), Settled(t)
  PROVE  /\ HasLeader(Own(t))
         /\ \A c \in ToSet(legal) \ {t.children[Leader(Own(t))]} : t.visits[c] < MinEvidence
<1> DEFINE cs == Own(t)
           left == Target - t.total
<1>1. /\ left > 0
      /\ ToSet(legal) \subseteq ToSet(t.children)
      /\ Proven(cs, left)
  BY DEF Settled, Own
<1>2. left \in Nat
  <2>1. Target \in Nat /\ t.total \in Nat
    BY RootParallelAssumption DEF WellFormed, Root
  <2> QED BY <1>1, <2>1
<1>3. /\ DOMAIN cs = Playable(t.children)
      /\ DOMAIN cs \subseteq Nat
      /\ \A i \in DOMAIN cs : cs[i] = Statistics(t, t.children[i])
      /\ Statistical(t)
      /\ legal \in Seq(Choice)
  BY OwnAreHonest, WellFormedIsStatistical DEF Typed
<1> HIDE DEF cs, left
<1>4. \A c \in ToSet(legal) : \E i \in DOMAIN cs : t.children[i] = c
  BY <1>1, <1>3 DEF ToSet, Playable
<1>5. PICK i \in DOMAIN cs :
        /\ IsLeader(cs, i)
        /\ \A j \in DOMAIN cs \ {i} : cs[j].visits + left < MinEvidence
  <2>1. CASE OutOfReachPossible(left)
    BY <1>1, <2>1 DEF Proven, OutOfReach
  <2>2. CASE ~OutOfReachPossible(left)
    BY <1>1, <2>2 DEF Proven, IsLeader
  <2> QED BY <2>1, <2>2
<1>6. HasLeader(cs) /\ Leader(cs) = i
  <2>1. HasLeader(cs) /\ IsLeader(cs, Leader(cs)) /\ Leader(cs) \in DOMAIN cs
    BY <1>5, LeaderWasVisited DEF HasLeader
  <2> QED BY <1>3, <1>5, <2>1, LeaderIsUnique
<1>7. ASSUME NEW c \in ToSet(legal) \ {t.children[i]}
      PROVE  t.visits[c] < MinEvidence
  <2>1. PICK j \in DOMAIN cs : t.children[j] = c
    BY <1>4
  <2>2. cs[j].visits = t.visits[c]
    BY <1>3, <2>1 DEF Statistics
  <2>3. t.visits[c] \in Nat /\ MinEvidence \in Nat
    BY <1>3, MinEvidenceAssumption DEF Statistical, ToSet
  <2>4. cs[j].visits + left < MinEvidence
    BY <1>5, <1>7, <2>1
  <2> QED BY <1>2, <2>2, <2>3, <2>4
<1> QED BY <1>6, <1>7 DEF cs

(* However a worker that has choices stops, its result is justified.        *)
LEMMA AnswerIsJustified ==
  ASSUME Typed, Len(legal) # 1, NEW w \in workers, NEW t, WellFormed(t), root'[w] = t,
         NEW reason \in StopReason \ {"SingleChoice"},
         reason = "Proven" => Settled(t), StopWithAnswer(w, reason)
  PROVE  \E r : /\ Justified(r, t)
                /\ r.stopReason = reason
                /\ pc' = [pc EXCEPT ![w] = "stopped"]
                /\ results' = [results EXCEPT ![w] = r]
<1> DEFINE answer(c) == [choice |-> c, stopReason |-> reason]
<1>1. CASE HasLeader(Own(t))
  <2> DEFINE c == t.children[Leader(Own(t))]
  <2>1. /\ pc' = [pc EXCEPT ![w] = "stopped"]
        /\ results' = [results EXCEPT ![w] = answer(c)]
    BY <1>1 DEF StopWithAnswer, Stop, Own
  <2>2. c \in ToSet(legal)
    BY <1>1, LeaderWasVisited, OwnAreHonest DEF Playable
  <2>3. reason = "Proven" => \A d \in ToSet(legal) \ {c} : t.visits[d] < MinEvidence
    BY SettledStandsAlone
  <2>4. Justified(answer(c), t)
    BY <1>1, <2>2, <2>3 DEF Justified
  <2> QED BY <2>1, <2>4
<1>2. CASE ~HasLeader(Own(t))
  <2>1. PICK c \in ToSet(legal) : Stop(w, reason, c)
    BY <1>2 DEF StopWithAnswer, Own
  <2>2. reason # "Proven"
    BY <1>2, SettledStandsAlone
  <2>3. Justified(answer(c), t)
    BY <1>2, <2>1, <2>2 DEF Justified
  <2> QED BY <2>1, <2>3 DEF Stop
<1> QED BY <1>1, <1>2

-----------------------------------------------------------------------------

(* The candidates of the merge.                                             *)
Merging == Candidates(Slots(MergedOrder), MergedOrder, Pooled)

LEMMA MergingIsHonest ==
  ASSUME Typed
  PROVE  /\ HonestOn(Merging, DOMAIN Merging)
         /\ DOMAIN Merging = Slots(MergedOrder)
         /\ Slots(MergedOrder) \subseteq Nat
         /\ \A i \in Slots(MergedOrder) : /\ Merging[i] = Statistics(Pooled, MergedOrder[i])
                                          /\ MergedOrder[i] \in ToSet(legal)
         /\ \A c \in ToSet(legal) : \E i \in Slots(MergedOrder) : MergedOrder[i] = c
<1> DEFINE order == MergedOrder
<1>1. /\ root[1].children \in Seq(Choice)
      /\ legal \in Seq(Choice)
  <2>1. 1 \in workers
    BY RootParallelAssumption DEF Typed
  <2> QED BY <2>1 DEF Typed, WellFormed, Root
<1>2. /\ order \in Seq(Choice)
      /\ Len(order) = Len(root[1].children) + Len(legal)
      /\ \A i \in 1..Len(root[1].children) + Len(legal) :
           order[i] = IF i <= Len(root[1].children) THEN root[1].children[i]
                      ELSE legal[i - Len(root[1].children)]
  BY <1>1, ConcatProperties DEF MergedOrder
<1>3. /\ Len(root[1].children) \in Nat
      /\ DOMAIN legal = 1..Len(legal) /\ Len(legal) \in Nat
      /\ DOMAIN order = 1..Len(order)
  BY <1>1, <1>2, LenProperties
<1>4. Slots(order) \in SUBSET DOMAIN order
  BY DEF Slots, Playable
<1>5. \A i \in Slots(order) : /\ Merging[i] = Statistics(Pooled, order[i])
                              /\ order[i] \in ToSet(legal)
  BY DEF Merging, Candidates, Slots, Playable
<1>6. ASSUME NEW c \in ToSet(legal)
      PROVE  \E i \in Slots(order) : order[i] = c
  <2> DEFINE Places == {i \in DOMAIN order : order[i] = c}
  <2> HIDE DEF order
  <2>1. PICK k \in DOMAIN legal : legal[k] = c
    BY DEF ToSet
  <2>2. k + Len(root[1].children) \in Places
    <3> DEFINE l == Len(root[1].children)
               n == k + l
    <3>1. n \in 1..l + Len(legal) /\ ~(n <= l) /\ n - l = k
      <4>1. k \in 1..Len(legal) /\ Len(legal) \in Nat /\ l \in Nat
        BY <1>3
      <4> HIDE DEF l
      <4> QED BY <4>1
    <3>2. order[n] = legal[n - l]
      BY <1>2, <3>1
    <3> QED BY <1>2, <1>3, <2>1, <3>1, <3>2
  <2>3. PICK i \in Places : \A j \in Places : i <= j
    <3>1. Places \in SUBSET Nat
      BY <1>2, <1>3
    <3> HIDE DEF Places
    <3> QED BY <2>2, <3>1, LeastNatural
  <2>4. ASSUME NEW j \in 1..(i - 1)
        PROVE  order[j] # order[i]
    <3>1. i \in 1..Len(order) /\ Len(order) \in Nat /\ order[i] = c
      BY <1>2, <1>3, <2>3
    <3>2. j \in DOMAIN order /\ ~(i <= j)
      BY <1>3, <3>1
    <3> QED BY <2>3, <3>1, <3>2
  <2> QED BY <2>3, <2>4 DEF Slots, Playable
<1>7. /\ HonestOn(Merging, Slots(order))
      /\ DOMAIN Merging = Slots(order)
      /\ Slots(order) \subseteq Nat
  <2> HIDE DEF order
  <2>1. Statistical(Pooled)
    BY PooledIsStatistical
  <2>2. Merging = Candidates(Slots(order), order, Pooled)
    BY DEF Merging, order
  <2> QED BY <1>2, <1>4, <2>1, <2>2, CandidatesAreHonest
<1> QED BY <1>5, <1>6, <1>7

(* A pool of one worker has that worker's leader: its own children come     *)
(* first and are the only ones it visited.                                  *)
LEMMA PoolOfOneLeader ==
  ASSUME Typed, workers = {1}
  PROVE  /\ HasLeader(Merging) <=> HasLeader(Own(root[1]))
         /\ HasLeader(Merging) =>
              MergedOrder[Leader(Merging)] = root[1].children[Leader(Own(root[1]))]
<1> DEFINE order == MergedOrder
           kids  == root[1].children
           cs    == Merging
           own   == Own(root[1])
<1>1. /\ WellFormed(root[1])
      /\ kids \in Seq(Choice)
      /\ legal \in Seq(Choice)
      /\ IsInjective(kids)
      /\ \A c \in Choice : root[1].visits[c] > 0 => c \in ToSet(kids)
  BY DEF Typed, WellFormed, Root
<1>2. /\ order \in Seq(Choice)
      /\ Len(order) = Len(kids) + Len(legal)
      /\ \A i \in 1..Len(kids) + Len(legal) :
           order[i] = IF i <= Len(kids) THEN kids[i] ELSE legal[i - Len(kids)]
  BY <1>1, ConcatProperties DEF MergedOrder
<1>3. /\ DOMAIN kids = 1..Len(kids) /\ Len(kids) \in Nat
      /\ Len(legal) \in Nat
      /\ DOMAIN order = 1..Len(order)
  BY <1>1, <1>2, LenProperties
<1>4. /\ DOMAIN cs = Slots(order) /\ DOMAIN cs \subseteq Nat
      /\ \A i \in DOMAIN cs : cs[i] = Statistics(Pooled, order[i])
      /\ DOMAIN own = Playable(kids) /\ DOMAIN own \subseteq Nat
      /\ \A i \in DOMAIN own : own[i] = Statistics(root[1], kids[i])
  BY <1>1, MergingIsHonest, OwnAreHonest
<1> HIDE DEF order, kids, cs, own
<1>5. \A i \in DOMAIN kids : i \in DOMAIN order /\ order[i] = kids[i]
  BY <1>2, <1>3
<1>6. \A i \in DOMAIN own : i \in DOMAIN cs /\ order[i] = kids[i] /\ cs[i] = own[i]
  <2> SUFFICES ASSUME NEW i \in DOMAIN own
               PROVE  i \in DOMAIN cs /\ order[i] = kids[i] /\ cs[i] = own[i]
    OBVIOUS
  <2>1. i \in DOMAIN kids /\ kids[i] \in ToSet(legal) /\ kids[i] \in Choice
    BY <1>1, <1>4 DEF Playable
  <2>2. \A j \in 1..(i - 1) : j \in DOMAIN kids /\ order[j] # order[i]
    BY <1>1, <1>3, <1>5, <2>1 DEF IsInjective
  <2>3. i \in Slots(order)
    BY <1>5, <2>1, <2>2 DEF Slots, Playable
  <2>4. Statistics(Pooled, kids[i]) = Statistics(root[1], kids[i])
    BY <2>1, PooledIsStatistical
  <2> QED BY <1>4, <1>5, <2>1, <2>3, <2>4
<1>7. ASSUME NEW i \in DOMAIN cs, cs[i].visits > 0 PROVE i \in DOMAIN own
  <2>1. /\ i \in DOMAIN order /\ order[i] \in ToSet(legal) /\ order[i] \in Choice
        /\ \A j \in 1..(i - 1) : order[j] # order[i]
    BY <1>2, <1>4 DEF Slots, Playable
  <2>2. cs[i].visits = root[1].visits[order[i]]
    <3>1. cs[i] = Statistics(root[1], order[i])
      BY <1>4, <2>1, PooledIsStatistical
    <3> QED BY <3>1 DEF Statistics
  <2>3. order[i] \in ToSet(kids)
    BY <1>1, <1>7, <2>1, <2>2
  <2>4. PICK k \in DOMAIN kids : kids[k] = order[i]
    BY <2>3 DEF ToSet
  <2>5. i <= k
    BY <1>3, <1>5, <2>1, <2>4
  <2>6. i \in DOMAIN kids /\ kids[i] = order[i]
    BY <1>3, <1>5, <2>1, <2>4, <2>5
  <2> QED BY <1>4, <2>1, <2>6 DEF Playable
<1>8. \A i \in DOMAIN cs : IsLeader(cs, i) => i \in DOMAIN own /\ IsLeader(own, i)
  BY <1>6, <1>7 DEF IsLeader
<1>9. \A i \in DOMAIN own : IsLeader(own, i) => i \in DOMAIN cs /\ IsLeader(cs, i)
  BY <1>6, <1>7 DEF IsLeader
<1>10. HasLeader(cs) <=> HasLeader(own)
  BY <1>8, <1>9 DEF HasLeader
<1>11. ASSUME HasLeader(cs) PROVE order[Leader(cs)] = kids[Leader(own)]
  <2>1. /\ Leader(cs) \in DOMAIN cs /\ IsLeader(cs, Leader(cs))
        /\ Leader(own) \in DOMAIN own /\ IsLeader(own, Leader(own))
    BY <1>10, <1>11, LeaderWasVisited
  <2>2. Leader(cs) = Leader(own)
    BY <1>4, <1>9, <2>1, LeaderIsUnique
  <2> QED BY <1>6, <2>1, <2>2
<1> QED BY <1>10, <1>11 DEF order, kids, cs, own

-----------------------------------------------------------------------------

(* Every worker that stopped has a justified result.                        *)
PoolInv ==
  /\ Typed
  /\ \A w \in workers :
       /\ pc[w] = "running" => Len(legal) # 1
       /\ pc[w] = "stopped" => /\ Justified(results[w], root[w])
                               /\ results[w].stopReason = "Cancelled" => cancelled
  /\ MergedAnswerLeads
  /\ PoolOfOneIsItsSearcher
  /\ MergedReasonIsHonest

(* What merged_stop_reason makes of the reasons it is given.                *)
LEMMA ReasonOfPool ==
  ASSUME PoolInv, \A w \in workers : pc[w] = "stopped"
  PROVE  /\ MergedStopReason = "SingleChoice" <=> Len(legal) = 1
         /\ MergedStopReason = "Budget" =>
              \A w \in workers : results[w].stopReason \in {"Budget", "Proven"}
         /\ MergedStopReason # "Budget" =>
              \E w \in workers : results[w].stopReason = MergedStopReason
         /\ MergedStopReason = "Proven" => workers = {1}
         /\ workers = {1} => MergedStopReason = results[1].stopReason
<1> DEFINE reported(w) == results[w].stopReason
           ranks == {i \in DOMAIN Informative : \E w \in workers : reported(w) = Informative[i]}
           top == CHOOSE i \in ranks : \A j \in ranks : j <= i
<1>1. /\ 1 \in workers
      /\ \A w \in workers : /\ reported(w) \in StopReason
                            /\ reported(w) = "SingleChoice" <=> Len(legal) = 1
  BY RootParallelAssumption DEF PoolInv, Typed, Justified
<1>2. /\ DOMAIN Informative = 1..5
      /\ Informative[1] = "Budget" /\ Informative[2] = "Proven" /\ Informative[3] = "Deadline"
      /\ Informative[4] = "Cancelled" /\ Informative[5] = "SingleChoice"
  BY DEF Informative
<1> HIDE DEF reported
<1>3. \A w \in workers : \E i \in ranks : reported(w) = Informative[i]
  BY <1>1, <1>2 DEF StopReason
<1>4. top \in ranks /\ \A j \in ranks : j <= top
  <2>1. \E i \in ranks : \A j \in ranks : j <= i
    <3>1. ranks \in SUBSET (1..5) /\ ranks # {}
      BY <1>1, <1>2, <1>3
    <3> HIDE DEF ranks
    <3>2. \A j \in ranks : j = 1 \/ j = 2 \/ j = 3 \/ j = 4 \/ j = 5
      BY <3>1
    <3>3. CASE 5 \in ranks
      BY <3>1, <3>2, <3>3
    <3>4. CASE 5 \notin ranks /\ 4 \in ranks
      BY <3>1, <3>2, <3>4
    <3>5. CASE 5 \notin ranks /\ 4 \notin ranks /\ 3 \in ranks
      BY <3>1, <3>2, <3>5
    <3>6. CASE 5 \notin ranks /\ 4 \notin ranks /\ 3 \notin ranks /\ 2 \in ranks
      BY <3>1, <3>2, <3>6
    <3>7. CASE 5 \notin ranks /\ 4 \notin ranks /\ 3 \notin ranks /\ 2 \notin ranks
      <4>1. \A j \in ranks : j = 1
        BY <3>2, <3>7
      <4>2. PICK i \in ranks : TRUE
        BY <3>1
      <4> QED BY <4>1, <4>2
    <3> QED BY <3>3, <3>4, <3>5, <3>6, <3>7
  <2> HIDE DEF ranks
  <2> QED BY <2>1
<1> DEFINE reason == Informative[top]
<1>5. /\ top \in 1..5
      /\ \E w \in workers : reported(w) = reason
      /\ \A w \in workers : \E j \in 1..5 : j <= top /\ reported(w) = Informative[j]
  BY <1>2, <1>3, <1>4
<1>6. MergedStopReason = IF reason = "Proven" /\ Cardinality(workers) > 1 THEN "Budget" ELSE reason
  BY DEF MergedStopReason, reported
<1> HIDE DEF top, ranks
<1>7. /\ reason = "Budget" => top = 1
      /\ reason = "Proven" => top = 2
  BY <1>2, <1>5
<1>8. reason \in {"Budget", "Proven"} =>
        \A w \in workers : reported(w) \in {"Budget", "Proven"}
  <2> SUFFICES ASSUME reason \in {"Budget", "Proven"}, NEW w \in workers
               PROVE  reported(w) \in {"Budget", "Proven"}
    OBVIOUS
  <2>1. PICK j \in 1..5 : j <= top /\ reported(w) = Informative[j]
    BY <1>5
  <2>2. j = 1 \/ j = 2
    BY <1>7, <2>1
  <2> QED BY <1>2, <2>1, <2>2
<1>9. ~(Cardinality(workers) > 1) => workers = {1}
  <2>1. PICK n \in 1..MaxThreads : workers = 1..n
    BY DEF PoolInv, Typed
  <2>2. n \in Nat /\ n >= 1 /\ Cardinality(workers) = n
    BY <2>1, RootParallelAssumption, FS_Interval
  <2> QED BY <2>1, <2>2
<1>10. workers = {1} => Cardinality(workers) = 1
  BY FS_Singleton
<1>11. reason \in StopReason
  BY <1>1, <1>5
<1> HIDE DEF reason
<1>12. MergedStopReason = "SingleChoice" <=> Len(legal) = 1
  BY <1>1, <1>5, <1>6
<1>13. workers = {1} => MergedStopReason = results[1].stopReason
  BY <1>5, <1>6, <1>10 DEF reported
<1>14. MergedStopReason # "Budget" => \E w \in workers : results[w].stopReason = MergedStopReason
  BY <1>5, <1>6 DEF reported
<1>15. MergedStopReason = "Budget" => \A w \in workers : results[w].stopReason \in {"Budget", "Proven"}
  BY <1>6, <1>8 DEF reported
<1>16. MergedStopReason = "Proven" => workers = {1}
  BY <1>6, <1>9
<1> QED BY <1>12, <1>13, <1>14, <1>15, <1>16

(* What a merge answers.                                                    *)
LEMMA MergeAnswers ==
  ASSUME PoolInv, Merge
  PROVE  PoolInv'
<1> DEFINE stop == MergedStopReason
           led  == [choice |-> MergedOrder[Leader(Merging)], stopReason |-> stop]
<1>1. /\ UNCHANGED <<workers, legal, cancelled, pc, root, results>>
      /\ \A w \in workers : pc[w] = "stopped"
      /\ merged' = IF stop # "SingleChoice" /\ HasLeader(Merging) THEN led ELSE results[1]
  BY DEF Merge, Merging
<1>2. /\ Pooled' = Pooled
      /\ Contributed' = Contributed
  BY <1>1 DEF Pooled, Contributed
<1>3. /\ 1 \in workers
      /\ Justified(results[1], root[1])
      /\ results[1].stopReason = "Cancelled" => cancelled
      /\ WellFormed(root[1])
      /\ legal \in Seq(Choice)
      /\ Typed
  BY <1>1, RootParallelAssumption DEF PoolInv, Typed
<1>4. /\ stop = "SingleChoice" <=> Len(legal) = 1
      /\ stop = "Budget" => \A w \in workers : results[w].stopReason \in {"Budget", "Proven"}
      /\ stop # "Budget" => \E w \in workers : results[w].stopReason = stop
      /\ stop = "Proven" => workers = {1}
      /\ workers = {1} => stop = results[1].stopReason
  BY <1>1, ReasonOfPool
<1>5. /\ \A i \in DOMAIN Merging : /\ Merging[i] = Statistics(Pooled, MergedOrder[i])
                                   /\ MergedOrder[i] \in ToSet(legal)
      /\ \A c \in ToSet(legal) : \E i \in DOMAIN Merging : MergedOrder[i] = c
  BY <1>3, MergingIsHonest
<1>6. ASSUME NEW c \in ToSet(legal), Statistics(Pooled, c).visits > 0
      PROVE  HasLeader(Merging)
  <2>1. PICK i \in DOMAIN Merging : MergedOrder[i] = c
    BY <1>5
  <2>2. Merging[i].visits > 0
    BY <1>5, <1>6, <2>1
  <2> QED BY <1>3, <2>2, MergingIsHonest, LeaderExists
<1>7. ASSUME HasLeader(Merging)
      PROVE  /\ led.choice \in ToSet(legal)
             /\ Statistics(Pooled, led.choice).visits > 0
             /\ \A c \in ToSet(legal) : Statistics(Pooled, c).visits > 0 =>
                  ~Beats(Statistics(Pooled, c), Statistics(Pooled, led.choice))
  <2> DEFINE i == Leader(Merging)
  <2>1. i \in DOMAIN Merging /\ IsLeader(Merging, i) /\ Merging[i].visits > 0
    BY <1>7, LeaderWasVisited
  <2>2. led.choice = MergedOrder[i] /\ Merging[i] = Statistics(Pooled, led.choice)
    BY <1>5, <2>1
  <2> HIDE DEF i, led
  <2>3. ASSUME NEW c \in ToSet(legal), Statistics(Pooled, c).visits > 0
        PROVE  ~Beats(Statistics(Pooled, c), Statistics(Pooled, led.choice))
    <3>1. PICK j \in DOMAIN Merging : MergedOrder[j] = c
      BY <1>5
    <3>2. Merging[j] = Statistics(Pooled, c)
      BY <1>5, <3>1
    <3>3. Merging[i] \in Candidate(Int)
      BY <1>3, <2>1, MergingIsHonest DEF HonestOn
    <3>4. CASE j = i
      <4>1. ~Beats(Merging[i], Merging[i])
        BY <3>3, BeatsAsymmetric
      <4> QED BY <2>2, <3>2, <3>4, <4>1
    <3>5. CASE j # i
      BY <2>1, <2>2, <2>3, <3>1, <3>2, <3>5 DEF IsLeader
    <3> QED BY <3>4, <3>5
  <2> QED BY <1>5, <2>1, <2>2, <2>3
<1> DEFINE answer == merged'
           honest == /\ Contributed /\ answer.stopReason = "Budget" =>
                          \A w \in workers : results[w].stopReason \in {"Budget", "Proven"}
                     /\ answer.stopReason \in {"Cancelled", "Deadline"} =>
                          \E w \in workers : results[w].stopReason = answer.stopReason
                     /\ answer.stopReason = "Cancelled" => cancelled
                     /\ answer.stopReason = "Proven" =>
                          \A c \in ToSet(legal) \ {answer.choice} : Pooled.visits[c] < MinEvidence
<1>8. workers = {1} => answer = results[1]
  <2> SUFFICES ASSUME workers = {1}, stop # "SingleChoice", HasLeader(Merging)
               PROVE  led = results[1]
    BY <1>1
  <2>1. led.choice = results[1].choice
    BY <1>3, <1>4, PoolOfOneLeader DEF Justified
  <2>2. results[1] \in [choice : ToSet(legal), stopReason : StopReason]
    BY <1>3 DEF Justified
  <2> QED BY <1>4, <2>1, <2>2
<1>9. ASSUME answer.stopReason = "Proven", workers = {1}, NEW c \in ToSet(legal) \ {answer.choice}
      PROVE  Pooled.visits[c] < MinEvidence
  <2>1. root[1].visits[c] < MinEvidence
    BY <1>3, <1>8, <1>9 DEF Justified
  <2>2. c \in Choice
    BY <1>3, <1>9 DEF ToSet
  <2>3. Statistics(Pooled, c) = Statistics(root[1], c)
    BY <1>3, <1>9, <2>2, PooledIsStatistical
  <2> QED BY <2>1, <2>3 DEF Statistics
<1>10. /\ answer.choice \in ToSet(legal)
       /\ answer.stopReason # "SingleChoice" =>
            \A c \in ToSet(legal) : Statistics(Pooled, c).visits > 0 =>
              /\ Statistics(Pooled, answer.choice).visits > 0
              /\ ~Beats(Statistics(Pooled, c), Statistics(Pooled, answer.choice))
       /\ honest
  <2>1. CASE stop # "SingleChoice" /\ HasLeader(Merging)
    <3>1. answer = led /\ answer.stopReason = stop
      BY <1>1, <2>1
    <3> HIDE DEF led
    <3>2. answer.stopReason = "Cancelled" => cancelled
      BY <1>1, <1>4, <3>1 DEF PoolInv
    <3>3. honest
      BY <1>4, <1>9, <3>1, <3>2
    <3> QED BY <1>7, <2>1, <3>1, <3>3
  <2>2. CASE ~(stop # "SingleChoice" /\ HasLeader(Merging))
    <3>1. answer = results[1]
      BY <1>1, <2>2
    <3>2. /\ answer.choice \in ToSet(legal)
          /\ answer.stopReason = "SingleChoice" <=> stop = "SingleChoice"
      BY <1>3, <1>4, <3>1 DEF Justified
    <3>3. answer.stopReason # "SingleChoice" =>
            \A c \in ToSet(legal) : ~(Statistics(Pooled, c).visits > 0)
      BY <1>6, <2>2, <3>2
    <3>4. answer.stopReason # "SingleChoice" => ~Contributed
      BY <3>3 DEF Contributed, Statistics
    <3>5. answer.stopReason # "Proven"
      <4> SUFFICES ASSUME answer.stopReason = "Proven" PROVE FALSE
        OBVIOUS
      <4>1. /\ HasLeader(Own(root[1]))
            /\ answer.stopReason # "SingleChoice"
        BY <1>3, <3>1 DEF Justified
      <4> DEFINE i == Leader(Own(root[1]))
                 c == root[1].children[i]
      <4>2. /\ i \in Playable(root[1].children)
            /\ Own(root[1])[i] = Statistics(root[1], c)
            /\ Own(root[1])[i].visits > 0
        BY <1>3, <4>1, LeaderWasVisited, OwnAreHonest
      <4>3. c \in ToSet(legal) /\ c \in Choice
        BY <1>3, <4>2 DEF Playable, ToSet
      <4> HIDE DEF i, c
      <4>4. Statistics(Pooled, c).visits > 0
        <5>1. root[1].visits[c] > 0
          BY <4>2 DEF Statistics
        <5>2. root[1].visits[c] <= Pooled.visits[c] /\ root[1].visits[c] \in Nat
              /\ Pooled.visits[c] \in Nat
          BY <1>3, <4>3, PooledDominates
        <5> QED BY <5>1, <5>2 DEF Statistics
      <4> QED BY <3>3, <4>1, <4>3, <4>4
    <3>6. answer.stopReason \in {"Cancelled", "Deadline"} =>
            \E w \in workers : results[w].stopReason = answer.stopReason
      BY <1>3, <3>1
    <3>7. honest
      BY <1>3, <3>1, <3>4, <3>5, <3>6
    <3> QED BY <3>2, <3>3, <3>7
  <2> QED BY <2>1, <2>2
<1> HIDE DEF answer, stop, led
<1>11. MergedAnswerLeads'
  BY <1>1, <1>2, <1>10 DEF MergedAnswerLeads, Statistics, answer
<1>12. PoolOfOneIsItsSearcher'
  <2>1. PICK n \in 1..MaxThreads : workers = 1..n
    BY <1>3 DEF Typed
  <2>2. n \in Nat /\ Cardinality(workers) = n
    BY <2>1, RootParallelAssumption, FS_Interval
  <2>3. Cardinality(workers) = 1 => workers = {1}
    BY <2>1, <2>2
  <2> QED BY <1>1, <1>8, <2>3 DEF PoolOfOneIsItsSearcher, answer
<1>13. MergedReasonIsHonest'
  BY <1>1, <1>2, <1>10 DEF MergedReasonIsHonest, answer
<1>14. Typed'
  BY <1>1, <1>3 DEF Typed
<1>15. ASSUME NEW w \in workers PROVE Justified(results[w], root[w])'
  <2>1. Justified(results[w], root[w])
    BY <1>1 DEF PoolInv
  <2>2. Justified(results[w], root[w])' <=> Justified(results[w], root[w])
    BY <1>1, JustifiedOfPosition
  <2> QED BY <2>1, <2>2
<1> QED BY <1>1, <1>11, <1>12, <1>13, <1>14, <1>15 DEF PoolInv

LEMMA FreshIsWellFormed == WellFormed(Fresh)
<1>1. /\ <<>> \in Seq(Choice)
      /\ IsInjective(<<>>)
  BY EmptySeq DEF IsInjective
<1>2. [c \in Choice |-> 0] \in [Choice -> Nat] /\ [c \in Choice |-> 0] \in [Choice -> Int]
  OBVIOUS
<1> HIDE DEF IsInjective
<1>3. Fresh \in Root
  BY <1>1, <1>2 DEF Fresh, Root
<1>4. Fresh.children = <<>> /\ Fresh.visits = [c \in Choice |-> 0]
  BY DEF Fresh
<1> QED BY <1>1, <1>3, <1>4 DEF WellFormed

LEMMA PoolInvInit == Init => PoolInv
<1> SUFFICES ASSUME Init PROVE PoolInv
  OBVIOUS
<1>1. legal \in Seq(Choice) /\ legal # <<>>
  <2>1. legal \in UNION {[1..m -> Choice] : m \in 0..Cardinality(Choice)} /\ legal # <<>>
    BY DEF Init, BoundedSeq, SeqOf
  <2>2. Cardinality(Choice) \in Nat
    BY RootParallelAssumption, FS_CardinalityType
  <2> QED BY <2>1, <2>2, SeqDef
<1>2. /\ \E n \in 1..MaxThreads : workers = 1..n
      /\ DOMAIN pc = workers /\ DOMAIN results = workers /\ DOMAIN root = workers
      /\ \A w \in workers : pc[w] = "ready" /\ root[w] \in Retained \cup {Fresh}
      /\ pool = "called"
  BY DEF Init
<1>3. \A w \in workers : WellFormed(root[w])
  BY <1>2, RetainedAssumption, FreshIsWellFormed
<1> QED
  BY <1>1, <1>2, <1>3
     DEF PoolInv, Typed, MergedAnswerLeads, PoolOfOneIsItsSearcher, MergedReasonIsHonest

(* A step of one worker, that stops it with a justified result or does not  *)
(* stop it.                                                                 *)
LEMMA WorkerSteps ==
  ASSUME PoolInv, pool = "running", UNCHANGED <<pool, workers, legal, cancelled>>,
         NEW w \in workers,
         DOMAIN root' = workers, WellFormed(root'[w]),
         \A v \in workers \ {w} : root'[v] = root[v],
         \/ \E r : /\ Justified(r, root'[w])
                   /\ r.stopReason = "Cancelled" => cancelled
                   /\ pc' = [pc EXCEPT ![w] = "stopped"]
                   /\ results' = [results EXCEPT ![w] = r]
         \/ /\ pc'[w] # "stopped"
            /\ pc'[w] = "running" => Len(legal) # 1
            /\ DOMAIN pc' = workers
            /\ \A v \in workers \ {w} : pc'[v] = pc[v]
            /\ UNCHANGED results
  PROVE  PoolInv'
<1>1. Typed'
  BY DEF PoolInv, Typed
<1>2. (MergedAnswerLeads /\ PoolOfOneIsItsSearcher /\ MergedReasonIsHonest)'
  BY DEF MergedAnswerLeads, PoolOfOneIsItsSearcher, MergedReasonIsHonest
<1>3. ASSUME NEW v \in workers, pc'[v] = "stopped"
      PROVE  /\ Justified(results'[v], root'[v])
             /\ results'[v].stopReason = "Cancelled" => cancelled
  BY <1>3 DEF PoolInv, Typed
<1>4. ASSUME NEW v \in workers, pc'[v] = "running"
      PROVE  Len(legal) # 1
  BY <1>4 DEF PoolInv, Typed
<1>5. ASSUME NEW v \in workers, pc'[v] = "stopped"
      PROVE  Justified(results[v], root[v])'
  <2>1. Justified(results[v], root[v])' <=> Justified(results'[v], root'[v])
    BY JustifiedOfPosition
  <2> QED BY <1>3, <1>5, <2>1
<1> QED BY <1>1, <1>2, <1>3, <1>4, <1>5 DEF PoolInv

LEMMA NextPool ==
  ASSUME PoolInv, [Next]_vars
  PROVE  PoolInv'
<1> USE DEF StopReason
<1>1. ASSUME UNCHANGED <<workers, legal, pc, root, results>>,
             cancelled => cancelled',
             pool' # "answered" \/ UNCHANGED vars
      PROVE  PoolInv'
  <2>1. Typed'
    BY <1>1 DEF PoolInv, Typed
  <2>2. (MergedAnswerLeads /\ PoolOfOneIsItsSearcher /\ MergedReasonIsHonest)'
    <3>1. CASE pool' # "answered"
      BY <3>1 DEF MergedAnswerLeads, PoolOfOneIsItsSearcher, MergedReasonIsHonest
    <3>2. CASE UNCHANGED vars
      <4>1. UNCHANGED <<Pooled, Contributed>>
        BY <3>2 DEF vars, Pooled, Contributed
      <4>2. MergedAnswerLeads'
        BY <3>2, <4>1 DEF PoolInv, vars, MergedAnswerLeads, Statistics
      <4>3. PoolOfOneIsItsSearcher'
        BY <3>2 DEF PoolInv, vars, PoolOfOneIsItsSearcher
      <4>4. MergedReasonIsHonest'
        BY <3>2, <4>1 DEF PoolInv, vars, MergedReasonIsHonest
      <4> QED BY <4>2, <4>3, <4>4
    <3> QED BY <1>1, <3>1, <3>2
  <2>3. ASSUME NEW w \in workers, pc[w] = "stopped"
        PROVE  Justified(results[w], root[w])'
    <3>1. Justified(results[w], root[w])' <=> Justified(results[w], root[w])
      BY <1>1, JustifiedOfPosition
    <3> QED BY <2>3, <3>1 DEF PoolInv
  <2> QED BY <1>1, <2>1, <2>2, <2>3 DEF PoolInv
<1>2. CASE Refuse
  BY <1>1, <1>2 DEF Refuse
<1>3. CASE Spawn
  BY <1>1, <1>3 DEF Spawn
<1>4. CASE Cancel
  BY <1>1, <1>4 DEF Cancel
<1>5. CASE JoinPanicked
  BY <1>1, <1>5 DEF JoinPanicked
<1>6. CASE UNCHANGED vars
  BY <1>1, <1>6 DEF vars
<1>7. CASE Merge
  BY <1>7, MergeAnswers
<1>8. ASSUME NEW w \in workers, Start(w)
      PROVE  PoolInv'
  <2>1. /\ pool = "running" /\ UNCHANGED <<pool, workers, legal, cancelled>>
        /\ root' = [root EXCEPT ![w] = IF armed[w] THEN @ ELSE Fresh]
    BY <1>8 DEF Start
  <2>2. /\ DOMAIN root' = workers
        /\ WellFormed(root'[w])
        /\ \A v \in workers \ {w} : root'[v] = root[v]
    BY <2>1, FreshIsWellFormed DEF PoolInv, Typed
  <2>3. CASE Len(legal) = 1
    <3> DEFINE r == [choice |-> legal[1], stopReason |-> "SingleChoice"]
    <3>1. pc' = [pc EXCEPT ![w] = "stopped"] /\ results' = [results EXCEPT ![w] = r]
      BY <1>8, <2>3 DEF Start, Stop
    <3>2. r.choice \in ToSet(legal)
      <4>1. DOMAIN legal = 1..1
        BY <2>3, LenProperties DEF PoolInv, Typed
      <4> QED BY <4>1 DEF ToSet
    <3>3. Justified(r, root'[w])
      BY <2>3, <3>2 DEF Justified
    <3> QED BY <2>1, <2>2, <3>1, <3>3, WorkerSteps
  <2>4. CASE Len(legal) # 1
    <3>1. pc' = [pc EXCEPT ![w] = "running"] /\ UNCHANGED results
      BY <1>8, <2>4 DEF Start
    <3>2. /\ pc'[w] = "running" /\ DOMAIN pc' = workers
          /\ \A v \in workers \ {w} : pc'[v] = pc[v]
      BY <3>1 DEF PoolInv, Typed
    <3> QED BY <2>1, <2>2, <2>4, <3>1, <3>2, WorkerSteps
  <2> QED BY <2>3, <2>4
<1>9. ASSUME NEW w \in workers, StopEarly(w)
      PROVE  PoolInv'
  <2>1. /\ pool = "running" /\ Len(legal) # 1
        /\ UNCHANGED <<pool, workers, legal, cancelled, root>>
        /\ Typed /\ WellFormed(root[w])
    BY <1>9 DEF StopEarly, PoolInv, Typed
  <2>2. PICK reason \in {"Budget", "Deadline", "Cancelled"} :
          StopWithAnswer(w, reason) /\ (reason = "Cancelled" => cancelled)
    BY <1>9 DEF StopEarly, StopOnBudget, StopOnCancel, StopOnDeadline
  <2>3. \E r : /\ Justified(r, root[w])
               /\ r.stopReason = reason
               /\ pc' = [pc EXCEPT ![w] = "stopped"]
               /\ results' = [results EXCEPT ![w] = r]
    <3>1. root'[w] = root[w] /\ reason \in StopReason \ {"SingleChoice"} /\ reason # "Proven"
      BY <2>1
    <3> HIDE DEF StopReason
    <3> QED BY <2>1, <2>2, <3>1, AnswerIsJustified
  <2> QED BY <2>1, <2>2, <2>3, WorkerSteps DEF PoolInv, Typed
<1>10. ASSUME NEW w \in workers, Iterate(w)
       PROVE  PoolInv'
  <2>1. /\ pool = "running" /\ pc[w] = "running" /\ Len(legal) # 1
        /\ UNCHANGED <<pool, workers, legal, cancelled>>
        /\ Typed /\ WellFormed(root[w])
    BY <1>10 DEF Iterate, PoolInv, Typed
  <2>2. PICK world \in SUBSET Choice : \E t \in Iterated(root[w], world) :
          root' = [root EXCEPT ![w] = t]
    BY <1>10 DEF Iterate
  <2>3. PICK t \in Iterated(root[w], world) : root' = [root EXCEPT ![w] = t]
    BY <2>2
  <2>4. /\ WellFormed(t)
        /\ root'[w] = t /\ DOMAIN root' = workers
        /\ \A v \in workers \ {w} : root'[v] = root[v]
    BY <2>1, <2>3, IteratedIsWellFormed DEF Typed
  <2>5. CASE Settled(root'[w])
    <3>1. StopWithAnswer(w, "Proven") /\ Settled(t)
      BY <1>10, <2>4, <2>5 DEF Iterate
    <3>2. \E r : /\ Justified(r, t)
                 /\ r.stopReason = "Proven"
                 /\ pc' = [pc EXCEPT ![w] = "stopped"]
                 /\ results' = [results EXCEPT ![w] = r]
      BY <2>1, <2>4, <3>1, AnswerIsJustified
    <3> QED BY <2>1, <2>4, <3>2, WorkerSteps
  <2>6. CASE ~Settled(root'[w])
    <3>1. UNCHANGED <<pc, results>>
      BY <1>10, <2>6 DEF Iterate
    <3> QED BY <2>1, <2>4, <3>1, WorkerSteps DEF Typed
  <2> QED BY <2>5, <2>6
<1>11. ASSUME NEW w \in workers, Panic(w)
       PROVE  PoolInv'
  <2>1. /\ pool = "running" /\ UNCHANGED <<pool, workers, legal, cancelled, results>>
        /\ pc' = [pc EXCEPT ![w] = "panicked"]
        /\ root' = [root EXCEPT ![w] = Fresh]
    BY <1>11 DEF Panic
  <2>2. /\ DOMAIN root' = workers
        /\ WellFormed(root'[w])
        /\ \A v \in workers \ {w} : root'[v] = root[v]
    BY <2>1, FreshIsWellFormed DEF PoolInv, Typed
  <2>3. /\ pc'[w] = "panicked" /\ DOMAIN pc' = workers
        /\ \A v \in workers \ {w} : pc'[v] = pc[v]
    BY <2>1 DEF PoolInv, Typed
  <2> QED BY <2>1, <2>2, <2>3, WorkerSteps
<1> QED BY <1>2, <1>3, <1>4, <1>5, <1>6, <1>7, <1>8, <1>9, <1>10, <1>11 DEF Next, Work

(* Every state of a pool's call has every result justified by the tree it   *)
(* was read from, which nothing touches until the merge has read it.        *)
THEOREM PoolInvariant == Spec => []PoolInv
<1> QED BY PoolInvInit, NextPool, PTL DEF Spec

(* The answer of a pool is a choice of the position, and none of them       *)
(* outranks it on the sums of all the trees, for pools, trees and positions *)
(* of any size: the sums are read over the slots of legal choices, of which *)
(* each has one.                                                            *)
THEOREM MergedAnswerAlwaysLeads == Spec => []MergedAnswerLeads
<1>1. PoolInv => MergedAnswerLeads
  BY DEF PoolInv
<1> QED BY PoolInvariant, <1>1, PTL

(* A pool of one answers and reports as its only searcher does, on a tie as *)
(* well: that searcher's children come first in the merge, and what comes   *)
(* after them was never visited.                                            *)
THEOREM PoolOfOneAnswersAlike == Spec => []PoolOfOneIsItsSearcher
<1>1. PoolInv => PoolOfOneIsItsSearcher
  BY DEF PoolInv
<1> QED BY PoolInvariant, <1>1, PTL

(* The reason a pool reports is true of it as a whole.                      *)
THEOREM ReasonIsAlwaysHonest == Spec => []MergedReasonIsHonest
<1>1. PoolInv => MergedReasonIsHonest
  BY DEF PoolInv
<1> QED BY PoolInvariant, <1>1, PTL
=============================================================================
