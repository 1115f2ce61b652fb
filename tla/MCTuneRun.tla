----------------------------- MODULE MCTuneRun -----------------------------
(* Two genes of 0..5 and draws of six values.  A genetic algorithm of three *)
(* candidates and CMA-ES with its four, against the baseline and against    *)
(* each other, with the seeds of each generation and with the same ones.    *)
EXTENDS TuneRun

Streams == [s \in 0..3 |-> [n \in Nat |-> ((n * n + 3 * n + s * s + 5) % 17) % 6]]

Run(strategy, opponents, reseed, seed, generations) ==
  [strategy |-> strategy, size |-> IF strategy = "ga" THEN 3 ELSE 4,
   opponents |-> opponents, games |-> 2, reseed |-> reseed, seed |-> seed,
   base |-> <<0, 3>>, generations |-> generations]

Setups ==
  {Run("ga", "Baseline", TRUE, 0, 3), Run("cma-es", "Baseline", TRUE, 1, 2),
   Run("ga", "RoundRobin", TRUE, 1, 2), Run("cma-es", "Baseline", FALSE, 0, 2),
   Run("ga", "Baseline", FALSE, 0, 0)}
=============================================================================
