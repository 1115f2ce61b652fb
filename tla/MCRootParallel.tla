--------------------------- MODULE MCRootParallel ---------------------------
(* Two workers at most, each with nothing armed or with a root that an      *)
(* earlier search left with a child visited once.                           *)
EXTENDS RootParallel

VisitedOnce(c) ==
  [children       |-> <<c>>,
   visits         |-> [d \in Choice |-> IF d = c THEN 1 ELSE 0],
   timesAvailable |-> [d \in Choice |-> IF d = c THEN 1 ELSE 0],
   reward         |-> [d \in Choice |-> IF d = c THEN 1 ELSE 0],
   total          |-> 2]

RetainedRoots == {VisitedOnce(c) : c \in Choice}

Symmetry == Permutations(Choice)
=============================================================================
