-------------------------- MODULE MCMarginalAnswer --------------------------
(* Every list of up to three candidates with honest means for the scan, and *)
(* pools of up to two workers at a position of which a sampled state may    *)
(* withhold a choice and to which it may add one.                           *)
EXTENDS MarginalAnswer

CONSTANTS left, right, other

Measured ==
  { c \in [visits : 1..3, timesAvailable : 1..4, mean : {0, 1}] :
      c.visits <= c.timesAvailable }

(* Node::mean_reward is 0.0 where there is no visit to divide by. *)
Unvisited == [visits : {0}, timesAvailable : 1..2, mean : {0}]

Lists == UNION { [1..n -> Measured \cup Unvisited] : n \in 0..3 }

SomePositions == {<<left, right>>}

SomeWorlds ==
  {<<left>>, <<other, right>>, <<left, other, right>>}
=============================================================================
