----------------------------- MODULE FullBudget -----------------------------
(***************************************************************************)
(* What a Proven answer claims (src/early_stop.rs, src/rank.rs): that the  *)
(* iterations it saved could not have changed it.  RootSearch returns such *)
(* an answer with iterations left; here the same tree goes on to spend     *)
(* them, as it would have with Config::early_termination off, in every     *)
(* way the worlds, the selection and the rewards may fall.                 *)
(***************************************************************************)
EXTENDS RootSearch

(* One of the iterations the proof saved. *)
SavedIteration ==
  /\ pc = "done"
  /\ stopReason = "Proven"
  /\ rootVisits < Target
  /\ \E world \in SUBSET Choice : Descend(world)
  /\ iterations' = iterations + 1
  /\ UNCHANGED <<pc, position, reused, mask, clock, stopReason, answer>>

CounterfactualNext == Next \/ SavedIteration

CounterfactualSpec == Init /\ [][CounterfactualNext]_vars

-----------------------------------------------------------------------------

(* However the saved iterations fall, the answer Proven was stamped on is   *)
(* the one the whole budget would have given: it leads the legal children   *)
(* at every point from the stop to the end of the budget.                   *)
ProvenStands ==
  LET candidates == CandidatesUnder(Legal)
  IN  pc = "done" /\ stopReason = "Proven"
        => \E i \in DOMAIN candidates :
             children[i] = answer /\ IsLeader(candidates, i)

-----------------------------------------------------------------------------

(* Why the proof is sound, as an inductive invariant: it stands on counts    *)
(* that no iteration can undo.  Each child is there once; the mask is this   *)
(* position's for as many children as it covers, which are the first; and    *)
(* from the stop on, the answer is over the bar and every other choice of    *)
(* the position has a child that the iterations left cannot carry to it, or  *)
(* there is no other choice.                                                 *)
Distinct == \A i, j \in DOMAIN children : children[i] = children[j] => i = j

MaskCoversPrefix ==
  pc # "begin" =>
    /\ Len(rootLegal) <= Len(children)
    /\ \A i \in 1..Len(rootLegal) : rootLegal[i] = (children[i] \in position)
    /\ rootLegal # <<>> =>
         (complete <=> position \subseteq {children[i] : i \in 1..Len(rootLegal)})

Certificate(a) ==
  /\ a \in position
  /\ position \subseteq Children
  /\ visits[a] > 0
  /\ \A c \in position \ {a} :
       /\ visits[a] >= MinEvidence
       /\ visits[c] + (Target - rootVisits) < MinEvidence

Certified ==
  stopReason = "Proven" =>
    /\ pc \in {"extract", "done"}
    /\ rootVisits <= Target
    /\ pc = "extract" => \E a \in position : Certificate(a)
    /\ pc = "done" => Certificate(answer)

IInv == TypeOK /\ Distinct /\ MaskCoversPrefix /\ Certified
=============================================================================
