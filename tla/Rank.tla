-------------------------------- MODULE Rank --------------------------------
(***************************************************************************)
(* The one rule by which a root's answer is chosen, and the one bound by   *)
(* which it is proved (src/rank.rs, and `proven` of src/early_stop.rs).    *)
(*                                                                         *)
(* A candidate is a record [visits, timesAvailable, mean].  The code keeps *)
(* a cumulative reward and divides; the ranking reads only the quotient,   *)
(* so the quotient is the field.  A mean is an integer, standing for the   *)
(* place of an f64 in its order, or NaN, which orders against nothing.     *)
(*                                                                         *)
(* A set of candidates is a function from indices to candidates: the order *)
(* of the indices is the order in which the code scans.                    *)
(***************************************************************************)
EXTENDS Integers, FiniteSets

CONSTANTS
  MinEvidence,  (* MIN_EVIDENCE: selections that make a mean a measurement *)
  NaN           (* the mean of a candidate that was paid a NaN reward      *)

ASSUME MinEvidenceAssumption == MinEvidence \in Nat \ {0}
ASSUME NaNAssumption == NaN \notin Int

Candidate(Mean) == [visits : Nat, timesAvailable : Nat, mean : Mean]

Established(c) == c.visits >= MinEvidence

(* Opportunities, never fewer than the selections they carried, never 0. *)
Opportunities(c) ==
  IF c.timesAvailable > c.visits THEN c.timesAvailable
  ELSE IF c.visits > 0 THEN c.visits ELSE 1

RateAbove(a, b) == a.visits * Opportunities(b) > b.visits * Opportunities(a)

(* partial_cmp: a NaN is neither above nor below anything. *)
MeanAbove(a, b) == /\ a.mean # NaN
                   /\ b.mean # NaN
                   /\ a.mean > b.mean

MeanTied(a, b) == ~MeanAbove(a, b) /\ ~MeanAbove(b, a)

Beats(a, b) ==
  IF Established(a) # Established(b)
  THEN Established(a)
  ELSE MeanAbove(a, b) \/ (MeanTied(a, b) /\ RateAbove(a, b))

-----------------------------------------------------------------------------

(* What the scan of leader_of is for: i is the first maximum of cs among the *)
(* candidates the search visited.  RankScan models the scan itself.          *)
IsLeader(cs, i) ==
  /\ cs[i].visits > 0
  /\ \A j \in DOMAIN cs \ {i} : cs[j].visits > 0 =>
       /\ ~Beats(cs[j], cs[i])
       /\ j < i => Beats(cs[i], cs[j])

HasLeader(cs) == \E i \in DOMAIN cs : IsLeader(cs, i)

Leader(cs) == CHOOSE i \in DOMAIN cs : IsLeader(cs, i)

(* A mutant: a challenger that the iterations left carry just to the bar. *)
OutOfReachAtBar(leader, challenger, remaining) ==
  /\ Established(leader)
  /\ challenger.visits + remaining <= MinEvidence

(* The challenger cannot reach the evidence bar, and the leader is over it. *)
OutOfReach(leader, challenger, remaining) ==
  /\ Established(leader)
  /\ challenger.visits + remaining < MinEvidence

OutOfReachPossible(remaining) == remaining < MinEvidence

(* early_stop::proven.  Where no challenger can be out of reach, the only    *)
(* root that is proved is one with no challenger on it.                      *)
Proven(cs, remaining) ==
  IF OutOfReachPossible(remaining)
  THEN \E i \in DOMAIN cs :
         /\ IsLeader(cs, i)
         /\ \A j \in DOMAIN cs \ {i} : OutOfReach(cs[i], cs[j], remaining)
  ELSE \E i \in DOMAIN cs : DOMAIN cs = {i} /\ cs[i].visits > 0
=============================================================================
