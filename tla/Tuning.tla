------------------------------- MODULE Tuning -------------------------------
(***************************************************************************)
(* What mcts_tune::run promises: a run is the sequence of its generations, *)
(* each a function of the ones before.  Nothing here is interrupted, and   *)
(* nothing plays at the same time as anything else: a candidate's fitness  *)
(* is what its matchups sum to, and the answer is read off everything the  *)
(* run has measured.  TuneRun shows that the run with its threads, its     *)
(* kills and its checkpoints is this one.                                  *)
(***************************************************************************)
EXTENDS Arena

CONSTANTS
  Setup,      (* the runs a caller may ask for                              *)
  OddFactor   (* what spreads the generations' seeds                        *)

VARIABLES
  setup,      (* the run                                                    *)
  optimizer,  (* its optimizer                                              *)
  history     (* what it has measured, a generation at a time               *)

vars == <<setup, optimizer, history>>

(* Every generation plays seeds of its own if the run reseeds.              *)
Plan ==
  [games     |-> setup.games,
   opponents |-> setup.opponents,
   seed      |-> (setup.seed + (IF setup.reseed THEN Len(history) * OddFactor ELSE 0))
                   % SeedSpace]

(* A candidate against another: each of their games once, from both seats.  *)
Score(plan, candidates, c, d, games) ==
  SumFunction([round \in 0..(games - 1) |->
                 Credits(plan, candidates, setup.base,
                         IF d = Opponent \/ c < d THEN Matchup(c, d, round, games)
                                                  ELSE Matchup(d, c, round, games))[c]])

Measured(plan, candidates) ==
  [c \in DOMAIN candidates |->
     IF plan.opponents = "Baseline"
     THEN Score(plan, candidates, c, Opponent, plan.games)
     ELSE SumFunction([d \in DOMAIN candidates \ {c} |->
                         Score(plan, candidates, c, d,
                               GamesPerPairing(plan, Len(candidates)))])]

(* The answer of a run that has measured this much: against one opponent    *)
(* the best measurement ever, the first of equals; against each other the   *)
(* latest generation's, earlier ones having met another field.              *)
Answer(measured) ==
  LET latest  == Len(measured)
      eligible == IF setup.opponents = "Baseline" THEN 1..latest ELSE {latest}
      scores  == eligible \X (1..setup.size)
      above(p, q) == \/ measured[p[1]].fitness[p[2]] > measured[q[1]].fitness[q[2]]
                     \/ /\ measured[p[1]].fitness[p[2]] = measured[q[1]].fitness[q[2]]
                        /\ p[1] < q[1] \/ (p[1] = q[1] /\ p[2] < q[2])
      best == CHOOSE p \in scores : \A q \in scores \ {p} : above(p, q)
  IN  [genes   |-> measured[best[1]].candidates[best[2]],
       fitness |-> measured[best[1]].fitness[best[2]]]

Init ==
  /\ setup \in Setup
  /\ optimizer = New(setup.strategy, setup.base, setup.size, setup.seed)
  /\ history = <<>>

(* One generation: ask, repair, measure, tell.                              *)
Generation ==
  /\ Len(history) < setup.generations
  /\ Len(history') = Len(history) + 1
  /\ \E asked \in {Ask(optimizer)} :
       \E candidates \in {[i \in DOMAIN asked.candidates |-> Repair(asked.candidates[i])]} :
         \E fitness \in {Measured(Plan, candidates)} :
           /\ optimizer' = Tell(asked.optimizer, candidates, fitness)
           /\ history' = Append(history, [candidates |-> candidates, fitness |-> fitness])
  /\ UNCHANGED setup

Spec == Init /\ [][Generation]_vars
=============================================================================
