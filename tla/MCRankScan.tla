----------------------------- MODULE MCRankScan -----------------------------
(* Lists of up to three candidates over the evidence bar, or unvisited, one *)
(* or more of which were paid a NaN reward.                                 *)
EXTENDS RankScan

Measured ==
  [visits : {2}, timesAvailable : 2..4, mean : {0, 1, NaN}]

Unvisited == [visits : {0}, timesAvailable : 1..2, mean : {0}]

PoisonedLists == UNION { [1..n -> Measured \cup Unvisited] : n \in 0..3 }
=============================================================================
