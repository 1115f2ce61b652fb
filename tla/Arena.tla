------------------------------- MODULE Arena -------------------------------
(***************************************************************************)
(* What one evaluation of mcts-tune/src/arena.rs plays: the list of games  *)
(* a plan amounts to, in the order workers claim them, who sits where in   *)
(* each, what it is seeded with, and how one game is played.               *)
(*                                                                         *)
(* Scores are sums: every candidate of an evaluation has its sum divided   *)
(* by the same number of games, so sums compare as win rates do.  Rewards  *)
(* are whole, so that adding them up is exact.                             *)
(***************************************************************************)
EXTENDS Optimizers

CONSTANTS
  SeedSpace,     (* seeds wrap at SeedSpace (2^64 in the code)              *)
  MaxDecisions,  (* Match::max_decisions                                    *)
  ZeroSum        (* whether the two seats share a fixed reward              *)

NoRewards == <<>>
Midpoint  == 1            (* of rewards that range over 0..2                *)

-----------------------------------------------------------------------------
(* The game that is tuned for: a pile of one to four, of which a seat takes *)
(* one or two, and the last to take wins.  A game that is not zero sum pays *)
(* the loser too if the pile was large.                                     *)

Opening(rng) == [pile |-> 1 + Index(rng, 4), player |-> 1, large |-> Index(rng, 4) > 1]

(* Game::status: the rewards of the two seats, or who is to move.           *)
StatusRewards(state) ==
  IF state.pile > 0 THEN NoRewards
  ELSE [seat \in 1..2 |->
          IF seat # state.player THEN 2
          ELSE IF ZeroSum \/ ~state.large THEN 0 ELSE 1]

(* What a search with a context, the genes, finds best: drawn in part.      *)
SearchChoice(state, genes, rng) ==
  IF state.pile > 1 /\ genes[(state.pile % Len(genes)) + 1] > Peek(rng, 0) THEN 2 ELSE 1

Applied(state, choice) ==
  [state EXCEPT !.pile = @ - choice, !.player = 3 - @]

(* play: decisions until the game ends or MaxDecisions have been made; a    *)
(* game that is cut off pays both seats the midpoint.                       *)
Play(contexts, seed) ==
  LET opened == Generator(seed)
      played == Iterate(
        LAMBDA acc, d : IF StatusRewards(acc.state) # NoRewards THEN acc
                        ELSE [state |-> Applied(acc.state,
                                          SearchChoice(acc.state, contexts[acc.state.player], acc.rng)),
                              rng   |-> Advance(acc.rng, 1)],
        [state |-> Opening(opened), rng |-> Advance(opened, 1)], MaxDecisions)
      \* The status is read before a decision, so an end reached with the
      \* last of them is not seen.
      cut    == played.rng.drawn = 1 + MaxDecisions
  IN  IF cut THEN <<Midpoint, Midpoint>> ELSE StatusRewards(played.state)

-----------------------------------------------------------------------------
(* Evaluation: games, seed, opponents.                                      *)

CeilDiv(a, b) == (a + b - 1) \div b
NextEven(a)   == a + (a % 2)
Less1(n)      == IF n = 0 THEN 0 ELSE n - 1     \* saturating_sub(1)

GamesPerPairing(plan, n) ==
  NextEven(CeilDiv(plan.games, IF Less1(n) = 0 THEN 1 ELSE Less1(n)))

GamesPerCandidate(plan, n) ==
  IF plan.opponents = "Baseline" THEN plan.games ELSE GamesPerPairing(plan, n) * Less1(n)

GamesPerGeneration(plan, n) ==
  IF plan.opponents = "Baseline" THEN n * plan.games
  ELSE ((n * Less1(n)) \div 2) * GamesPerPairing(plan, n)

(* Every pair of candidates once, the lower index first.                    *)
Pairs(n) ==
  FlattenSeq([left \in 1..n |-> [k \in 1..(n - left) |-> <<left, left + k>>]])

Opponent == 0     \* the fixed opponent's place among the candidates

(* A matchup's games from its list: the left sits first in the first half.  *)
Matchup(left, right, round, games) ==
  [seats |-> IF round >= games \div 2 THEN <<right, left>> ELSE <<left, right>>,
   round |-> round]

(* Mutant of Job: a game is seeded by its place in the list.                *)
JobSeededByPlace(plan, n, j) ==
  IF plan.opponents = "Baseline"
  THEN [Matchup((j \div plan.games) + 1, Opponent, j % plan.games, plan.games)
          EXCEPT !.round = j]
  ELSE LET games == GamesPerPairing(plan, n)
           pair  == Pairs(n)[(j \div games) + 1]
       IN  [Matchup(pair[1], pair[2], j % games, games) EXCEPT !.round = j]

(* The job a worker has claimed, counting from zero.                        *)
Job(plan, n, j) ==
  IF plan.opponents = "Baseline"
  THEN Matchup((j \div plan.games) + 1, Opponent, j % plan.games, plan.games)
  ELSE LET games == GamesPerPairing(plan, n)
           pair  == Pairs(n)[(j \div games) + 1]
       IN  Matchup(pair[1], pair[2], j % games, games)

Total(plan, n) ==
  IF plan.opponents = "Baseline" THEN n * plan.games
  ELSE Len(Pairs(n)) * GamesPerPairing(plan, n)

GameSeed(plan, round) == (plan.seed + round) % SeedSpace

(* What playing a job adds to each candidate's sum.                         *)
Credits(plan, candidates, baseline, job) ==
  LET context(c) == IF c = Opponent THEN baseline ELSE candidates[c]
      rewards    == Play([seat \in 1..2 |-> context(job.seats[seat])], GameSeed(plan, job.round))
  IN  [c \in DOMAIN candidates |->
         IF job.seats[1] = c THEN rewards[1]
         ELSE IF job.seats[2] = c THEN rewards[2] ELSE 0]
=============================================================================
