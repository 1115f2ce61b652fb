---------------------------- MODULE MCRetention ----------------------------
(* Games of three moves: a search, a move that goes unreported, a search    *)
(* that may be forced, and a reported move after it.                        *)
EXTENDS Retention, TLC

Symmetry == Permutations(Move)
=============================================================================
