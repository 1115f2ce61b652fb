---------------------------- MODULE MCSimulNode ----------------------------
(* Two players; no definition tells two choices of one of them apart. *)
EXTENDS SimulNode, TLC

CONSTANTS First, Second   (* the choices of each *)

TwoPlayers == <<First, Second>>

Interchangeable == Permutations(First) \cup Permutations(Second)
=============================================================================
