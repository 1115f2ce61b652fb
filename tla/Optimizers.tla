----------------------------- MODULE Optimizers -----------------------------
(***************************************************************************)
(* The two optimizers of mcts-tune as ask/tell state machines: the genetic *)
(* algorithm (mcts-tune/src/ga.rs) and CMA-ES (mcts-tune/src/cma.rs), with *)
(* the generator they own, and what a snapshot carries and a restore       *)
(* refuses.                                                                *)
(*                                                                         *)
(* Genes are whole numbers.  A generator is the seed it was built from and *)
(* the number of draws it has made: Stream says what each draw is.  The    *)
(* linear algebra of CMA-ES is kept to one step size and one path, in      *)
(* whole numbers: that they are functions of what was told, and travel     *)
(* with the snapshot, is what the run depends on.                          *)
(***************************************************************************)
EXTENDS Integers, Sequences, SequencesExt, TLC

CONSTANTS
  Stream,       (* Stream[s][n]: draw n of a generator seeded with s        *)
  DrawWidth,    (* a draw is below DrawWidth (2^64 in the code)             *)
  MaxGene,      (* Tunable::repair clamps a gene to 0..MaxGene              *)
  Elites,       (* GaParams::elites                                         *)
  Entrants,     (* GaParams::tournament                                     *)
  MutationRate  (* GaParams::mutation_rate, in draws out of DrawWidth       *)

(* Step(value, k) for k in 1..n, each value bound once for the step after.   *)
Iterate(Step(_, _), start, n) ==
  LET after[k \in 0..n] ==
        IF k = 0 THEN start
        ELSE CHOOSE r \in {Step(before, k) : before \in {after[k - 1]}} : TRUE
  IN  after[n]

NegInfinity == -1     (* below every fitness, which is never negative       *)

Clamp(x, low, high) == IF x < low THEN low ELSE IF x > high THEN high ELSE x

Repair(genes) == [i \in DOMAIN genes |-> Clamp(genes[i], 0, MaxGene)]

Magnitude(gene) == IF gene < 0 THEN -gene ELSE gene

(* A gene's own magnitude, and for a zero gene the median of the others.    *)
GeneScales(genes) ==
  LET magnitudes == [i \in DOMAIN genes |-> Magnitude(genes[i])]
      known      == SortSeq(SelectSeq(magnitudes, LAMBDA m : m # 0), <)
      typical    == IF known = <<>> THEN 1 ELSE known[Len(known) \div 2 + 1]
  IN  [i \in DOMAIN genes |-> IF magnitudes[i] # 0 THEN magnitudes[i] ELSE typical]

-----------------------------------------------------------------------------
(* Sampling: the value of the draw a generator makes next.                  *)

Generator(seed) == [seed |-> seed, drawn |-> 0]
Peek(rng, k)    == Stream[rng.seed][rng.drawn + k]
Advance(rng, k) == [rng EXCEPT !.drawn = @ + k]

Index(rng, len)   == (Peek(rng, 0) * len) \div DrawWidth
Below(rng, limit) == Peek(rng, 0) < limit

(* Box-Muller on two draws, to the nearest whole step: the first gives the  *)
(* size and the second, through the cosine, the sign.                       *)
StandardNormal(rng) ==
  LET size    == IF Peek(rng, 0) = 0 THEN 2 ELSE 1
      quarter == 4 * Peek(rng, 1)
      sign    == CASE quarter < DrawWidth \/ quarter > 3 * DrawWidth -> 1
                   [] quarter \in {DrawWidth, 3 * DrawWidth}         -> 0
                   [] OTHER                                          -> -1
  IN  size * sign

(* Fold over the genes of a vector with the generator threaded through:     *)
(* Each(i, rng) is the gene and the generator it leaves.                    *)
WithGenerator(Each(_, _), dimension, rng) ==
  Iterate(LAMBDA acc, i : LET step == Each(i, acc.rng)
                          IN  [genes |-> Append(acc.genes, step.gene), rng |-> step.rng],
          [genes |-> <<>>, rng |-> rng], dimension)

(* centre + scale * normal, gene by gene.                                   *)
Sampled(centre, scales, rng) ==
  WithGenerator(
    LAMBDA i, g : [gene |-> centre[i] + scales[i] * StandardNormal(g),
                   rng  |-> Advance(g, 2)],
    Len(centre), rng)

-----------------------------------------------------------------------------
(* Candidates by fitness, the highest first and ties in the order asked.    *)
Ranked(fitness) ==
  SortSeq([i \in DOMAIN fitness |-> i],
          LAMBDA i, j : fitness[i] > fitness[j] \/ (fitness[i] = fitness[j] /\ i < j))

(* The highest-scoring genes an optimizer has been told about.              *)
KeepBest(opt, genes, fitness) ==
  IF fitness > opt.bestFitness
  THEN [opt EXCEPT !.bestGenes = genes, !.bestFitness = fitness]
  ELSE opt

-----------------------------------------------------------------------------
(* Ga.  The seed itself is the first of the population.                     *)

GaNew(base, size, seed) ==
  LET scales == GeneScales(base)
      spread == Iterate(
        LAMBDA acc, k : LET drawn == Sampled(base, scales, acc.rng)
                        IN  [members |-> Append(acc.members, Repair(drawn.genes)),
                             rng     |-> drawn.rng],
        [members |-> <<base>>, rng |-> Generator(seed)], size - 1)
  IN  [strategy |-> "ga", size |-> size, scales |-> scales,
       population |-> spread.members, rng |-> spread.rng,
       bestGenes |-> base, bestFitness |-> NegInfinity]

GaAsk(ga) == [candidates |-> ga.population, optimizer |-> ga]

(* The rank a tournament picks: the fittest of Entrants draws, the first of *)
(* equals.                                                                  *)
Tournament(ranked, fitness, rng) ==
  Iterate(
    LAMBDA acc, k : LET challenger == ranked[1 + Index(acc.rng, Len(ranked))]
                    IN  [winner |-> IF acc.winner = 0 \/ fitness[challenger] > fitness[acc.winner]
                                    THEN challenger ELSE acc.winner,
                         rng    |-> Advance(acc.rng, 1)],
    [winner |-> 0, rng |-> rng], Entrants)

(* Uniform crossover, then additive mutation of each gene with its rate.    *)
Child(told, ranked, fitness, scales, rng) ==
  LET mother  == Tournament(ranked, fitness, rng)
      father  == Tournament(ranked, fitness, mother.rng)
      crossed == WithGenerator(
        LAMBDA i, g : [gene |-> IF Below(g, DrawWidth \div 2)
                                THEN told[mother.winner][i] ELSE told[father.winner][i],
                       rng  |-> Advance(g, 1)],
        Len(scales), father.rng)
  IN  WithGenerator(
        LAMBDA i, g : IF Below(g, MutationRate)
                      THEN [gene |-> crossed.genes[i] + scales[i] * StandardNormal(Advance(g, 1)),
                            rng  |-> Advance(g, 3)]
                      ELSE [gene |-> crossed.genes[i], rng |-> Advance(g, 1)],
        Len(scales), crossed.rng)

(* Breeds from the repaired genes it is told, not from what it proposed.    *)
GaTell(ga, told, fitness) ==
  LET ranked == Ranked(fitness)
      elites == [i \in 1..Elites |-> told[ranked[i]]]
      bred   == Iterate(
        LAMBDA acc, k : LET child == Child(told, ranked, fitness, ga.scales, acc.rng)
                        IN  [members |-> Append(acc.members, child.genes), rng |-> child.rng],
        [members |-> elites, rng |-> ga.rng], ga.size - Elites)
  IN  [KeepBest(ga, told[ranked[1]], fitness[ranked[1]])
         EXCEPT !.population = bred.members, !.rng = bred.rng]

GaState(ga) == [population |-> ga.population, rng |-> ga.rng,
                bestGenes |-> ga.bestGenes, bestFitness |-> ga.bestFitness]

(* Mutant of GaRestored: the generator stays the one the caller built.      *)
GaRestoredOwnDraws(ga, state) ==
  [ga EXCEPT !.population = state.population,
             !.bestGenes = state.bestGenes, !.bestFitness = state.bestFitness]

GaRestored(ga, state) ==
  [ga EXCEPT !.population = state.population, !.rng = state.rng,
             !.bestGenes = state.bestGenes, !.bestFitness = state.bestFitness]

-----------------------------------------------------------------------------
(* CmaEs.  sigma stands for the step size with the covariance and its       *)
(* decomposition, path for the two evolution paths.                         *)

CmaNew(base, size, seed) ==
  [strategy |-> "cma-es", size |-> size, scales |-> GeneScales(base),
   mean |-> base, sigma |-> 1, path |-> [i \in DOMAIN base |-> 0], generation |-> 0,
   rng |-> Generator(seed), bestGenes |-> base, bestFitness |-> NegInfinity]

(* Asking draws, so it moves the generator.                                 *)
CmaAsk(cma) ==
  LET steps == [i \in DOMAIN cma.mean |-> cma.sigma * cma.scales[i]]
      drawn == Iterate(
        LAMBDA acc, k : LET one == Sampled(cma.mean, steps, acc.rng)
                        IN  [members |-> Append(acc.members, one.genes), rng |-> one.rng],
        [members |-> <<>>, rng |-> cma.rng], cma.size)
  IN  [candidates |-> drawn.members, optimizer |-> [cma EXCEPT !.rng = drawn.rng]]

(* The mean moves to the weighted best half, the first counting most; the   *)
(* path remembers where it has been going, and the step size grows while    *)
(* the path is long, early steps being held to a longer one.                *)
CmaTell(cma, told, fitness) ==
  LET ranked     == Ranked(fitness)
      mu         == cma.size \div 2
      weight(r)  == mu + 1 - r
      total      == (mu * (mu + 1)) \div 2
      steps(r)   == [i \in DOMAIN cma.mean |-> told[ranked[r]][i] - cma.mean[i]]
      recombined == [i \in DOMAIN cma.mean |->
                       FoldLeft(LAMBDA acc, r : acc + weight(r) * steps(r)[i],
                                0, [r \in 1..mu |-> r]) \div total]
      path       == [i \in DOMAIN cma.mean |-> cma.path[i] \div 2 + recombined[i]]
      length     == FoldLeft(LAMBDA acc, p : acc + p * p, 0, path)
      long       == length > (IF cma.generation = 0 THEN 2 ELSE 1)
  IN  [KeepBest(cma, told[ranked[1]], fitness[ranked[1]])
         EXCEPT !.mean = [i \in DOMAIN @ |-> @[i] + recombined[i]],
                !.path = path,
                !.sigma = Clamp(IF long THEN @ + 1 ELSE @ - 1, 1, 3),
                !.generation = @ + 1]

CmaState(cma) == [size |-> cma.size, mean |-> cma.mean, sigma |-> cma.sigma,
                  path |-> cma.path, generation |-> cma.generation, rng |-> cma.rng,
                  bestGenes |-> cma.bestGenes, bestFitness |-> cma.bestFitness]

CmaRestored(cma, state) ==
  [cma EXCEPT !.mean = state.mean, !.sigma = state.sigma, !.path = state.path,
              !.generation = state.generation, !.rng = state.rng,
              !.bestGenes = state.bestGenes, !.bestFitness = state.bestFitness]

-----------------------------------------------------------------------------
(* The trait Optimizer.                                                     *)

New(strategy, base, size, seed) ==
  IF strategy = "ga" THEN GaNew(base, size, seed) ELSE CmaNew(base, size, seed)

Ask(opt) == IF opt.strategy = "ga" THEN GaAsk(opt) ELSE CmaAsk(opt)

Tell(opt, told, fitness) ==
  IF opt.strategy = "ga" THEN GaTell(opt, told, fitness) ELSE CmaTell(opt, told, fitness)

(* A snapshot is tagged with the strategy and the dimension it is of.       *)
Snapshot(opt) ==
  [strategy  |-> opt.strategy,
   dimension |-> Len(opt.scales),
   state     |-> IF opt.strategy = "ga" THEN GaState(opt) ELSE CmaState(opt)]

StateSize(snapshot) ==
  IF snapshot.strategy = "ga" THEN Len(snapshot.state.population) ELSE snapshot.state.size

(* Snapshot::open looks at the strategy, then at the dimension; the         *)
(* optimizer then at the size of a generation.  That the rows of a snapshot *)
(* are as long as its dimension (ga.rs:232, cma.rs:434) is not in question  *)
(* here: a caller passes back what Snapshot made.                           *)
RestoreError(opt, snapshot) ==
  IF snapshot.strategy # opt.strategy THEN "Strategy"
  ELSE IF snapshot.dimension # Len(opt.scales) THEN "Dimension"
  ELSE IF StateSize(snapshot) # opt.size THEN "Malformed"
  ELSE "Ok"

Restored(opt, snapshot) ==
  IF opt.strategy = "ga" THEN GaRestored(opt, snapshot.state)
                         ELSE CmaRestored(opt, snapshot.state)
=============================================================================
