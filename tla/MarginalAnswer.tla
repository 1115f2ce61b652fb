--------------------------- MODULE MarginalAnswer ---------------------------
(***************************************************************************)
(* What a simultaneous root answers, and what a pool of searches of one    *)
(* answers (extract_marginal and root_policy_into of src/search.rs, the    *)
(* extractions of src/duct.rs, merge of src/parallel.rs).                  *)
(*                                                                         *)
(* A worker's root is followed through iterations over the perspective     *)
(* player's own arms, some of which the real position does not offer, to   *)
(* an answer; when every worker has one the pool merges their roots.  The  *)
(* workers run one after the other, since nothing they gather is shared,   *)
(* and only the first one's own answer, to which the merge may fall back,  *)
(* is extracted.  Ranking the arms is the scan of RankScan, which is also  *)
(* followed over Candidates, the lists that other roots give it.           *)
(*                                                                         *)
(* Masses are integers: Unit stands for 1, and is large enough for a share *)
(* of it to be worth 1 on the average of all the iterations of a search.   *)
(***************************************************************************)
EXTENDS RankScan, SequencesExt, Functions

CONSTANTS
  Positions,      (* lists choices_for_into may give for the real position *)
  Worlds,         (* and for the states the searches sample                *)
  Reward,         (* what an iteration may pay the player                  *)
  MaxWorkers,     (* bound on the workers of a pool                        *)
  Iterations,     (* Config::iterations                                    *)
  MaxGathered,    (* bound on the iterations of all workers together       *)
  Unit,           (* the integer that stands for a probability of 1        *)
  NoAnswer        (* no answer yet                                         *)

ASSUME MarginalAnswerAssumption ==
  /\ Reward \subseteq Int
  /\ {MaxWorkers, Iterations, MaxGathered, Unit} \subseteq Nat \ {0}
  /\ \A world \in Positions \cup Worlds :
       /\ world \in Seq(ToSet(world)) \ {<<>>}
       /\ IsInjective(world)
  /\ \A world \in Worlds : Iterations * Len(world) <= Unit

VARIABLES
  phase,     (* "ranking" another root's list, or where the pool is        *)
  choices,   (* what the real position offers the player, in its order     *)
  mixes,     (* SimultaneousPolicy::mixes                                  *)
  sampled,   (* whether SimultaneousConfig::root_policy is Sampled         *)
  roots,     (* each worker's root: its visits and the player's arms       *)
  worker,    (* the worker at work                                         *)
  result,    (* the answer of the first worker                             *)
  merged     (* the answer of the pool                                     *)

config == <<choices, mixes, sampled>>
allVars == <<scan, phase, config, roots, worker, result, merged>>

(* A root is new, or was a joint child that was rolled out from once. *)
MarginalInit ==
  /\ choices \in Positions
  /\ \/ /\ phase = "ranking"
        /\ ScanInit
        /\ roots = <<>>
        /\ mixes = FALSE /\ sampled = FALSE
     \/ /\ mixes \in BOOLEAN /\ sampled \in BOOLEAN
        /\ phase = "gathering"
        /\ candidates = <<>> /\ next = 1 /\ leader = 0
        /\ \E n \in 1..MaxWorkers :
             roots \in [1..n -> [visits : {0, 1}, arms : {<<>>}]]
  /\ worker = 1
  /\ result = NoAnswer
  /\ merged = NoAnswer

-----------------------------------------------------------------------------

ChoicesOf(arms) == {arms[i].choice : i \in DOMAIN arms}

Offered(arm, list) == arm.choice \in ToSet(list)

(* The entries of a list at some of its places, in their order. *)
Subsequence(list, places) ==
  LET n  == Cardinality(places)
      at == CHOOSE f \in [1..n -> places] : \A j, k \in 1..n : j < k => f[j] < f[k]
  IN  [k \in 1..n |-> list[at[k]]]

(* Expanding the player's slot: an opportunity for each arm on offer, and an *)
(* arm for each choice that has none.                                        *)
Expanded(arms, world) ==
  LET unseen == Subsequence(world, {k \in DOMAIN world : world[k] \notin ChoicesOf(arms)})
  IN  [i \in DOMAIN arms |->
         IF Offered(arms[i], world)
         THEN [arms[i] EXCEPT !.timesAvailable = @ + 1] ELSE arms[i]]
        \o [k \in DOMAIN unseen |->
              [choice |-> unseen[k], visits |-> 0, timesAvailable |-> 1, reward |-> 0, mass |-> 0]]

(* The arms regret matching may weigh equally: those of positive regret,     *)
(* which a new arm does not have, or all on offer where there are none.      *)
Supports(arms, world) ==
  LET offer == {i \in DOMAIN arms : Offered(arms[i], world)}
      known == {i \in offer : arms[i].timesAvailable > 1}
  IN  {offer} \cup ((SUBSET known) \ {{}})

(* Duct tries an arm it knows nothing about first; regret matching may play  *)
(* any, for the sake of its floor.                                           *)
Playable(arms, world) ==
  LET offer == {i \in DOMAIN arms : Offered(arms[i], world)}
      new   == {i \in offer : arms[i].visits = 0}
  IN  IF mixes \/ new = {} THEN offer ELSE new

(* strategy_sum is given sigma, whose floor is not mixed in, and the arm     *)
(* that was played is given its visit and its reward.                        *)
Credited(arms, support, played, reward) ==
  [i \in DOMAIN arms |->
     [arms[i] EXCEPT
        !.mass   = IF mixes /\ i \in support THEN @ + Unit \div Cardinality(support) ELSE @,
        !.visits = IF i = played THEN @ + 1 ELSE @,
        !.reward = IF i = played THEN @ + reward ELSE @]]

-----------------------------------------------------------------------------

CandidateOf(visits, timesAvailable, reward) ==
  [visits         |-> visits,
   timesAvailable |-> timesAvailable,
   mean           |-> IF visits = 0 THEN 0 ELSE (reward * Unit) \div visits]

ArmCandidate(arm) == CandidateOf(arm.visits, arm.timesAvailable, arm.reward)

(* The arms that refresh_root_legal's mask admits. *)
LegalArms(arms) == Subsequence(arms, {i \in DOMAIN arms : Offered(arms[i], choices)})

Ranked(arms) == [i \in DOMAIN LegalArms(arms) |-> ArmCandidate(LegalArms(arms)[i])]

(* settled: an argmax over the legal arms, each choice having one, is proved *)
(* as a sequential root's is; nothing is where the answer is a draw.         *)
RootSettled(root) ==
  LET remaining == Iterations - root.visits
  IN  /\ remaining > 0
      /\ Len(LegalArms(root.arms)) = Len(choices)
      /\ ~mixes
      /\ Proven(Ranked(root.arms), remaining)

Gathered == SumFunction([w \in DOMAIN roots |-> roots[w].visits])

(* A search that ends is followed by its extraction, or by another search. *)
SearchEnds ==
  IF worker = 1
  THEN /\ phase' = "extracting"
       /\ candidates' = Ranked(roots'[1].arms)
       /\ UNCHANGED worker
  ELSE /\ phase' = IF worker = Len(roots) THEN "merging" ELSE phase
       /\ worker' = IF worker = Len(roots) THEN worker ELSE worker + 1
       /\ UNCHANGED candidates

Gather ==
  /\ phase = "gathering"
  /\ roots[worker].visits < Iterations
  /\ Gathered < MaxGathered
  /\ \E world \in Worlds : \E reward \in Reward :
       LET arms == Expanded(roots[worker].arms, world)
       IN  \E support \in IF mixes THEN Supports(arms, world) ELSE {{}} :
             \E played \in Playable(arms, world) :
               roots' = [roots EXCEPT ![worker] =
                           [visits |-> @.visits + 1,
                            arms   |-> Credited(arms, support, played, reward)]]
  /\ IF RootSettled(roots'[worker]) THEN SearchEnds ELSE UNCHANGED <<phase, candidates, worker>>
  /\ UNCHANGED <<next, leader, config, result, merged>>

(* The budget, the flag or the deadline ends a search after any iteration. *)
Stop ==
  /\ phase = "gathering"
  /\ UNCHANGED roots
  /\ SearchEnds
  /\ UNCHANGED <<next, leader, config, result, merged>>

(* The scan, over another root's list or over the legal arms. *)
Scan ==
  /\ phase \in {"ranking", "extracting"}
  /\ ScanNext
  /\ UNCHANGED <<phase, config, roots, worker, result, merged>>

-----------------------------------------------------------------------------

Total(weights) == SumFunction(weights)

(* weight_of: the mass an arm was given on the iterations that offered it,   *)
(* or everything for the arm that a pure policy plays.                       *)
WeightOf(arms, i, oneHot) ==
  IF mixes
  THEN arms[i].mass \div (IF arms[i].timesAvailable > 1 THEN arms[i].timesAvailable ELSE 1)
  ELSE IF i = oneHot THEN Unit ELSE 0

Weights(arms, oneHot) == [i \in DOMAIN arms |-> WeightOf(arms, i, oneHot)]

(* strategy_into, before it divides by the total: uniform if nothing weighs. *)
StrategyInto(arms, oneHot) ==
  LET weights == Weights(arms, oneHot)
  IN  IF Total(weights) > 0 THEN weights ELSE [i \in DOMAIN arms |-> 1]

(* The walk over the cumulated weights: what a draw of target returns, and   *)
(* all that may be returned, which changes where target passes an entry.     *)
Drawn(weights) ==
  LET upTo(i)  == Total([j \in 1..i |-> weights[j]])
      targets  == {0} \cup {upTo(i) + 1 : i \in DOMAIN weights}
      at(i, t) == weights[i] > 0 /\ upTo(i) >= t
  IN  {i \in DOMAIN weights : \E t \in targets : at(i, t) /\ \A j \in 1..(i - 1) : ~at(j, t)}

(* The first of the heaviest. *)
Heaviest(weights) ==
  CHOOSE i \in DOMAIN weights :
    /\ \A j \in DOMAIN weights : weights[j] <= weights[i]
    /\ \A j \in 1..(i - 1) : weights[j] < weights[i]

(* sample_root_arm: any legal arm if nothing weighs. *)
SampleRootArm(arms, oneHot) ==
  LET weights == Weights(arms, oneHot)
  IN  IF Total(weights) > 0 THEN Drawn(weights) ELSE DOMAIN arms

(* A mutant: the arm played most, whatever the mixture says. *)
BestArmPlayedMost(arms, oneHot) ==
  IF oneHot = 0 THEN {} ELSE {Heaviest([i \in DOMAIN arms |-> arms[i].visits])}

(* best_arm: the leader if nothing weighs. *)
BestArm(arms, oneHot) ==
  LET weights == Weights(arms, oneHot)
  IN  IF Total(weights) > 0 THEN {Heaviest(weights)} ELSE {oneHot} \ {0}

Answer(choice, candidate) ==
  [choice |-> choice, visits |-> candidate.visits, mean |-> candidate.mean]

(* extract_marginal: an arm, or a draw from the position's own list. *)
ExtractMarginal(root, oneHot) ==
  LET held  == LegalArms(root.arms)
      picks == IF sampled THEN SampleRootArm(held, oneHot) ELSE BestArm(held, oneHot)
  IN  IF picks # {}
      THEN {Answer(held[i].choice, ArmCandidate(held[i])) : i \in picks}
      ELSE {Answer(c, CandidateOf(0, 0, 0)) : c \in ToSet(choices)}

ExtractFirst ==
  /\ phase = "extracting"
  /\ Done
  /\ result' \in ExtractMarginal(roots[1], leader)
  /\ phase' = IF Len(roots) = 1 THEN "merging" ELSE "gathering"
  /\ worker' = IF Len(roots) = 1 THEN 1 ELSE 2
  /\ candidates' = <<>> /\ next' = 1 /\ leader' = 0
  /\ UNCHANGED <<config, roots, merged>>

-----------------------------------------------------------------------------

(* The first worker's order, then the position's for what it never saw. *)
MergedOrder ==
  LET first == LegalArms(roots[1].arms)
  IN  [i \in DOMAIN first |-> first[i].choice]
        \o Subsequence(choices, {k \in DOMAIN choices : choices[k] \notin ChoicesOf(first)})

(* What the workers' arms for a choice add up to. *)
Pooled(c) ==
  LET arms == UNION {{<<w, i>> : i \in {i \in DOMAIN roots[w].arms : roots[w].arms[i].choice = c}}
                       : w \in DOMAIN roots}
      arm(a) == roots[a[1]].arms[a[2]]
  IN  CandidateOf(SumFunction([a \in arms |-> arm(a).visits]),
                  SumFunction([a \in arms |-> arm(a).timesAvailable]),
                  SumFunction([a \in arms |-> arm(a).reward]))

(* One worker's strategy over every arm, of which the legal ones survive. *)
Shares(w) ==
  LET arms     == roots[w].arms
      strategy == StrategyInto(arms, 0)
  IN  [c \in ToSet(choices) |->
         SumFunction([i \in DOMAIN arms |-> IF arms[i].choice = c THEN strategy[i] ELSE 0])]

(* A mutant: shares are taken of all the mass, legal or not. *)
ShareTotalOfAllArms(w) == Total(StrategyInto(roots[w].arms, 0))

ShareTotal(w) == Total(Shares(w))

Product(S) == FoldFunction(LAMBDA x, y : x * y, 1, S)

(* spread, over a common denominator: a worker has as much of the strategy   *)
(* as its root has visits, if any mass of its own is legal.                  *)
MergedStrategy ==
  LET shares == [w \in DOMAIN roots |-> Shares(w)]
      total  == [w \in DOMAIN roots |-> ShareTotal(w)]
      heard  == {w \in DOMAIN roots : total[w] > 0}
  IN  [c \in ToSet(choices) |->
         Total([w \in heard |->
                  roots[w].visits * shares[w][c] * Product([v \in heard \ {w} |-> total[v]])])]

(* A mutant: the pooled leader answers unless the answer is to be drawn. *)
MergedBestByLeader(strategy, pool) ==
  IF mixes /\ sampled /\ Total(strategy) > 0 THEN Drawn(strategy) ELSE {Leader(pool)}

MergedBest(strategy, pool) ==
  IF mixes /\ Total(strategy) > 0
  THEN IF sampled THEN Drawn(strategy) ELSE {Heaviest(strategy)}
  ELSE {Leader(pool)}

(* merge, when no worker has visited a legal arm and otherwise. *)
Merge ==
  /\ phase = "merging"
  /\ phase' = "merged"
  /\ LET order    == MergedOrder
         pool     == [i \in DOMAIN order |-> Pooled(order[i])]
         strategy == IF mixes THEN [i \in DOMAIN order |-> MergedStrategy[order[i]]]
                     ELSE [i \in DOMAIN order |-> 0]
     IN  merged' \in IF HasLeader(pool)
                     THEN {Answer(order[i], pool[i]) : i \in MergedBest(strategy, pool)}
                     ELSE {result}
  /\ UNCHANGED <<scan, config, roots, worker, result>>

MarginalNext ==
  \/ Gather
  \/ Stop
  \/ Scan
  \/ ExtractFirst
  \/ Merge

MarginalSpec == MarginalInit /\ [][MarginalNext]_allVars

-----------------------------------------------------------------------------

(* leader_of, over the legal arms. *)
RootLeader(root) ==
  LET pool == Ranked(root.arms)
  IN  IF HasLeader(pool) THEN Leader(pool) ELSE 0

(* root_policy_into: the strategy over the arms legal here, by choice, or    *)
(* uniform over the position's own list where there are none.                *)
RootPolicy(root) ==
  LET held     == LegalArms(root.arms)
      strategy == StrategyInto(held, RootLeader(root))
  IN  IF held = <<>> THEN [c \in ToSet(choices) |-> 1]
      ELSE [c \in ChoicesOf(held) |->
              strategy[CHOOSE i \in DOMAIN held : held[i].choice = c]]

(* The search has something to say of the position: an arm of it was played  *)
(* or given mass.                                                            *)
Informed(root) ==
  \E i \in DOMAIN root.arms : /\ Offered(root.arms[i], choices)
                              /\ root.arms[i].visits > 0 \/ root.arms[i].mass > 0

-----------------------------------------------------------------------------

(* root_policy_into and the answer are two extractions from one root, said   *)
(* to be the same thing: the answer is one the reported strategy may play,   *)
(* the likeliest if it is not drawn, and a choice of the real position.      *)
AnswerIsReported ==
  result # NoAnswer /\ merged = NoAnswer =>
    LET policy == RootPolicy(roots[1])
    IN  /\ result.choice \in ToSet(choices)
        /\ Informed(roots[1]) =>
             /\ result.choice \in DOMAIN policy
             /\ policy[result.choice] > 0
             /\ ~sampled => \A c \in DOMAIN policy : policy[c] <= policy[result.choice]

(* merge normalises a worker's strategy over every arm of its tree and then  *)
(* over the legal ones; what comes of it is the mean of the strategies the   *)
(* workers would report for the position, weighted by their visits, so a     *)
(* worker is not heard less for what it learned of choices that are not      *)
(* there.                                                                    *)
PooledStrategyIsTheMean ==
  mixes /\ phase = "merging" =>
    LET heard  == {w \in DOMAIN roots : \E i \in DOMAIN roots[w].arms :
                     Offered(roots[w].arms[i], choices) /\ roots[w].arms[i].mass > 0}
        policy == [w \in heard |-> RootPolicy(roots[w])]
        said   == [w \in heard |-> Total(policy[w])]
        prob(w, c) == IF c \in DOMAIN policy[w]
                      THEN (policy[w][c] * Product(said)) \div said[w] ELSE 0
        mean   == [c \in ToSet(choices) |->
                     Total([w \in heard |-> roots[w].visits * prob(w, c)])]
        merge  == MergedStrategy
    IN  \A c, d \in ToSet(choices) : merge[c] * mean[d] = merge[d] * mean[c]

(* A pool of one worker answers as the search it is a pool of, or draws its  *)
(* answer from what that search would report.                                *)
PoolOfOneIsItsSearcher ==
  merged # NoAnswer /\ Len(roots) = 1 =>
    LET held   == LegalArms(roots[1].arms)
        policy == RootPolicy(roots[1])
    IN
    IF mixes /\ sampled
    THEN (\E i \in DOMAIN held : held[i].mass > 0) =>
           merged.choice \in DOMAIN policy /\ policy[merged.choice] > 0
    ELSE merged = result
=============================================================================
