------------------------------ MODULE RankScan ------------------------------
(***************************************************************************)
(* The scan of leader_of (src/rank.rs): one pass over the candidates in    *)
(* the order they are stored, keeping the incumbent on a tie.  Every root  *)
(* that answers with an argmax reads its answer off this loop: the         *)
(* sequential root, the simultaneous root under decoupled UCB1, the merge  *)
(* of a pool, and the early-termination proof.                             *)
(***************************************************************************)
EXTENDS Rank, Sequences

CONSTANTS
  Candidates  (* the candidate lists the scan may be given *)

ASSUME CandidatesAssumption ==
  \A cs \in Candidates : cs \in Seq(Candidate(Int \cup {NaN}))

VARIABLES
  candidates,  (* the list being scanned                       *)
  next,        (* index of the next candidate of the iterator   *)
  leader       (* index of the incumbent, 0 when there is none  *)

scan == <<candidates, next, leader>>

ScanInit ==
  /\ candidates \in Candidates
  /\ next = 1
  /\ leader = 0

Scanning == next \in DOMAIN candidates

(* An unvisited candidate has no estimate at all. *)
SkipUnvisited ==
  /\ Scanning
  /\ candidates[next].visits = 0
  /\ next' = next + 1
  /\ UNCHANGED <<candidates, leader>>

KeepIncumbent ==
  /\ Scanning
  /\ candidates[next].visits # 0
  /\ leader # 0
  /\ ~Beats(candidates[next], candidates[leader])
  /\ next' = next + 1
  /\ UNCHANGED <<candidates, leader>>

(* A mutant: a candidate that only ties the incumbent replaces it. *)
PromoteOnTie ==
  /\ Scanning
  /\ candidates[next].visits # 0
  /\ leader # 0 => ~Beats(candidates[leader], candidates[next])
  /\ next' = next + 1
  /\ leader' = next
  /\ UNCHANGED candidates

Promote ==
  /\ Scanning
  /\ candidates[next].visits # 0
  /\ leader # 0 => Beats(candidates[next], candidates[leader])
  /\ next' = next + 1
  /\ leader' = next
  /\ UNCHANGED candidates

ScanNext == SkipUnvisited \/ KeepIncumbent \/ Promote

ScanSpec == ScanInit /\ [][ScanNext]_scan

Done == ~Scanning

-----------------------------------------------------------------------------

(* The scan is an argmax: at the end the incumbent is the first maximum    *)
(* among the visited candidates, so the answer of a root, the answer of a  *)
(* merge and the proof that stops a search early all name one candidate.   *)
FirstMaximum ==
  Done => IF \E i \in DOMAIN candidates : candidates[i].visits > 0
          THEN leader # 0 /\ IsLeader(candidates, leader)
          ELSE leader = 0

(* mean_cmp orders a NaN mean equal to every other, "which leaves the rate  *)
(* to order the pair rather than letting one poisoned reward win or lose   *)
(* the root", and of beats the code says that "nothing depends on the      *)
(* order candidates happen to be stored in": among the candidates that     *)
(* hold an honest mean, none outranks an honest answer.                    *)
PoisonDecidesNothing ==
  LET Honest(i) == candidates[i].visits > 0 /\ candidates[i].mean # NaN
  IN  Done /\ leader # 0 /\ Honest(leader)
        => \A i \in DOMAIN candidates :
             Honest(i) => ~Beats(candidates[i], candidates[leader])
=============================================================================
