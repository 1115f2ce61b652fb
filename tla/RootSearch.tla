----------------------------- MODULE RootSearch -----------------------------
(***************************************************************************)
(* One call of Searcher::search (src/search.rs) from the moment its root   *)
(* node exists: the loop, its four ways to stop, the legality mask, the    *)
(* early-termination proof of src/early_stop.rs and the extraction of the  *)
(* answer, at a sequential root.                                           *)
(*                                                                         *)
(* The tree below the root's children is abstracted: an iteration picks a  *)
(* child of the root among those its world offers and changes that child's *)
(* mean to any value at all, because the code confines neither the rewards *)
(* a game returns nor, through them, a mean.  UCB1 is abstracted to what   *)
(* `select` guarantees: an unvisited child is taken on sight, the first of *)
(* them first; among visited ones any may have the best score.             *)
(*                                                                         *)
(* The real position and the worlds determinization samples are sets of    *)
(* choices.  A choice list that repeats a choice has the set of its        *)
(* members; a position with one member stands for a list that repeats it,  *)
(* because a list of length one returns before the loop.                   *)
(***************************************************************************)
EXTENDS Rank, Sequences, SequencesExt

CONSTANTS
  Choice,            (* every choice any determinization can offer          *)
  Mean,              (* the values a mean may take                          *)
  Target,            (* Config::iterations, 0 when only time limits         *)
  EarlyTermination,  (* Config::early_termination                           *)
  PollPeriod,        (* DEADLINE_CHECK_MASK + 1                             *)
  TimeLimited,       (* whether Config::time_limit_ms is set                *)
  Cancellable,       (* whether the caller passed a cancel flag             *)
  MaxReused,         (* bound on the visits of a retained root              *)
  MaxIterations,     (* bound on the iterations of a search before its deadline *)
  None               (* no answer, no reason, not yet                       *)

StopReason == {"Proven", "Budget", "Deadline", "Cancelled"}

ASSUME RootSearchAssumption ==
  /\ IsFiniteSet(Choice)
  /\ Mean \subseteq Int
  /\ 0 \in Mean
  /\ Target \in Nat
  /\ PollPeriod \in Nat \ {0}
  /\ MaxReused \in Nat
  /\ MaxIterations \in Nat
  /\ {EarlyTermination, TimeLimited, Cancellable} \subseteq BOOLEAN
  /\ Target # 0 \/ TimeLimited
  /\ None \notin Choice \cup StopReason

VARIABLES
  pc,                (* where the search is                                 *)
  position,          (* the choices the real position offers                *)
  children,          (* the root's children, in the order they were made    *)
  visits,            (* Node::visits of each child                          *)
  timesAvailable,    (* Node::times_available of each child                 *)
  mean,              (* Node::mean_reward of each child                     *)
  rootVisits,        (* Node::visits of the root                            *)
  reused,            (* reused_iterations                                   *)
  iterations,        (* iterations_used                                     *)
  rootLegal,         (* Scratch::root_legal                                 *)
  complete,          (* Scratch::root_legal_complete                        *)
  cancelled,         (* iterations when the caller's flag was set, or None  *)
  expired,           (* iterations when the deadline passed, or None        *)
  stopReason,        (* why the loop broke                                  *)
  answer             (* SearchResult::choice                                *)

tree == <<children, visits, timesAvailable, mean, rootVisits>>
mask == <<rootLegal, complete>>
clock == <<cancelled, expired>>
vars == <<pc, position, tree, reused, iterations, mask, clock, stopReason, answer>>

Children == ToSet(children)

(* A mutant: the mask is not consulted. *)
CandidatesOffered(legal) ==
  [i \in DOMAIN children |->
     [visits         |-> visits[children[i]],
      timesAvailable |-> timesAvailable[children[i]],
      mean           |-> mean[children[i]]]]

(* The candidates a mask admits, as Rank sees them: child i of the root. *)
CandidatesUnder(legal) ==
  [i \in {i \in DOMAIN children : legal[i]} |->
     [visits         |-> visits[children[i]],
      timesAvailable |-> timesAvailable[children[i]],
      mean           |-> mean[children[i]]]]

-----------------------------------------------------------------------------

(* A root that reuse_subtree promoted, or a fresh one.  Below a root an     *)
(* iteration opens one child at most and takes an unvisited child on sight: *)
(* of the visits a promoted root holds, the first went past no child, and   *)
(* those that went past one opened the i-th child no sooner than the i-th.  *)
RetainedTree ==
  /\ rootVisits \in 0..MaxReused
  /\ \E kids \in SUBSET Choice : children \in SetToSeqs(kids)
  /\ visits \in [Choice -> 0..MaxReused]
  /\ \A c \in Choice \ Children : visits[c] = 0
  /\ SumFunction(visits) <= IF rootVisits = 0 THEN 0 ELSE rootVisits - 1
  /\ timesAvailable \in [Choice -> 0..MaxReused]
  /\ \A c \in Choice \ Children : timesAvailable[c] = 0
  /\ \A i \in DOMAIN children :
       /\ 1 <= visits[children[i]]
       /\ visits[children[i]] <= timesAvailable[children[i]]
       /\ timesAvailable[children[i]] <= SumFunction(visits) - i + 1
  /\ mean \in [Choice -> Mean]
  /\ \A c \in Choice \ Children : mean[c] = 0

(* The mask is left from an earlier search: any length, any contents. *)
Init ==
  /\ pc = "begin"
  /\ position \in (SUBSET Choice) \ {{}}
  /\ RetainedTree
  /\ reused = 0
  /\ iterations = 0
  /\ rootLegal \in UNION { [1..n -> BOOLEAN] : n \in 0..Cardinality(Choice) }
  /\ complete \in BOOLEAN
  /\ cancelled \in IF Cancellable THEN {None, 0} ELSE {None}
  /\ expired = None
  /\ stopReason = None
  /\ answer = None

-----------------------------------------------------------------------------

(* A mutant: the mask an earlier search left is kept. *)
BeginKeepingMask ==
  /\ pc = "begin"
  /\ pc' = "check"
  /\ reused' = rootVisits
  /\ iterations' = 0
  /\ UNCHANGED <<position, tree, mask, clock, stopReason, answer>>

(* The mask outlives the search and the tree, so it is cleared first. *)
Begin ==
  /\ pc = "begin"
  /\ pc' = "check"
  /\ rootLegal' = <<>>
  /\ complete' = FALSE
  /\ reused' = rootVisits
  /\ iterations' = 0
  /\ UNCHANGED <<position, tree, clock, stopReason, answer>>

(* Mutants: the budget is overrun by one; the flag is read as the clock is; *)
(* the clock is read before the first iteration and no more.                *)
SpentPast == Target # 0 /\ rootVisits > Target
CancelSeenPolled == cancelled # None /\ iterations % PollPeriod = 0
DeadlineSeenOnce == expired # None /\ iterations = 0

Spent == Target # 0 /\ rootVisits >= Target
CancelSeen == cancelled # None
PollsClock == iterations % PollPeriod = 0
DeadlineSeen == PollsClock /\ expired # None

(* Never reached where Target is below it: it keeps a search without an     *)
(* iteration budget finite until its deadline passes.                       *)
WithinBound ==
  iterations < IF expired = None THEN MaxIterations ELSE MaxIterations + PollPeriod

Break(reason) ==
  /\ pc = "check"
  /\ pc' = "extract"
  /\ stopReason' = reason
  /\ UNCHANGED <<position, tree, reused, iterations, mask, clock, answer>>

(* The three tests at the top of the loop, in the order the code makes them. *)
StopOnBudget == Spent /\ Break("Budget")

StopOnCancel == ~Spent /\ CancelSeen /\ Break("Cancelled")

StopOnDeadline == ~Spent /\ ~CancelSeen /\ DeadlineSeen /\ Break("Deadline")

Continue ==
  /\ pc = "check"
  /\ ~Spent /\ ~CancelSeen /\ ~DeadlineSeen
  /\ WithinBound
  /\ pc' = "iterate"
  /\ UNCHANGED <<position, tree, reused, iterations, mask, clock, stopReason, answer>>

-----------------------------------------------------------------------------

(* Node::expand at a root: a child for every choice of the world that has   *)
(* none, in the order the world listed them, and one more opportunity for   *)
(* every choice that has.  A new child starts with the one it was made at.  *)
Expand(world) ==
  /\ \E opened \in SetToSeqs(world \ Children) : children' = children \o opened
  /\ timesAvailable' =
       [c \in Choice |-> IF c \in world THEN timesAvailable[c] + 1
                                        ELSE timesAvailable[c]]

(* select: the first unvisited child the world offers, or else any of them. *)
Selectable(world) ==
  LET unvisited == {c \in world : visits[c] = 0}
      at(c)     == CHOOSE i \in DOMAIN children' : children'[i] = c
  IN  IF unvisited = {}
      THEN world
      ELSE {c \in unvisited : \A d \in unvisited : at(c) <= at(d)}

(* run_iteration at the root.  A world that is already over, or offers the  *)
(* player nothing, is credited to the root alone.                           *)
Descend(world) ==
  /\ rootVisits' = rootVisits + 1
  /\ IF world = {}
     THEN UNCHANGED <<children, visits, timesAvailable, mean>>
     ELSE /\ Expand(world)
          /\ \E c \in Selectable(world), m \in Mean :
               /\ visits' = [visits EXCEPT ![c] = @ + 1]
               /\ mean' = [mean EXCEPT ![c] = m]

(* refresh_root_legal: a mask of the candidates' number still describes     *)
(* them, because candidates are only appended within a search.              *)
RefreshRootLegal ==
  IF children' # <<>> /\ Len(rootLegal) = Len(children')
  THEN UNCHANGED mask
  ELSE /\ rootLegal' = [i \in DOMAIN children' |-> children'[i] \in position]
       /\ complete' = (position \subseteq ToSet(children'))

(* A mutant: choices without a child are forgotten. *)
SettledIncomplete ==
  LET remaining == Target - rootVisits
  IN  /\ remaining > 0
      /\ Len(rootLegal) = Len(children)
      /\ Proven(CandidatesUnder(rootLegal), remaining)

(* early_stop::settled, over the statistics the iteration left. *)
Settled ==
  LET remaining == Target - rootVisits
  IN  /\ remaining > 0
      /\ complete
      /\ Len(rootLegal) = Len(children)
      /\ Proven(CandidatesUnder(rootLegal), remaining)

Iterate ==
  /\ pc = "iterate"
  /\ \E world \in SUBSET Choice : Descend(world)
  /\ iterations' = iterations + 1
  /\ IF EarlyTermination /\ Target # 0
     THEN /\ RefreshRootLegal
          /\ pc' = IF Settled' THEN "extract" ELSE "check"
          /\ stopReason' = IF Settled' THEN "Proven" ELSE stopReason
     ELSE /\ pc' = "check"
          /\ UNCHANGED <<mask, stopReason>>
  /\ UNCHANGED <<position, reused, clock, answer>>

(* A mutant: there is no draw where no legal candidate was visited. *)
ExtractOrNothing ==
  /\ pc = "extract"
  /\ pc' = "done"
  /\ UNCHANGED <<position, tree, reused, iterations, clock, stopReason>>
  /\ RefreshRootLegal
  /\ LET candidates == CandidatesUnder(rootLegal')
     IN  answer' = IF HasLeader(candidates)
                   THEN children[Leader(candidates)]
                   ELSE answer

(* A mutant: the answer is the choice the search visited most. *)
ExtractMostVisited ==
  /\ pc = "extract"
  /\ pc' = "done"
  /\ UNCHANGED <<position, tree, reused, iterations, clock, stopReason>>
  /\ RefreshRootLegal
  /\ answer' \in {c \in position : \A d \in position : visits[d] <= visits[c]}

(* The last refresh, and the answer read off the legal candidates: the      *)
(* leader, or a uniform draw over the position's own list where no legal    *)
(* candidate was visited.                                                   *)
Extract ==
  /\ pc = "extract"
  /\ pc' = "done"
  /\ UNCHANGED <<position, tree, reused, iterations, clock, stopReason>>
  /\ RefreshRootLegal
  /\ LET candidates == CandidatesUnder(rootLegal')
     IN  IF HasLeader(candidates)
         THEN answer' = children[Leader(candidates)]
         ELSE answer' \in position

(* The search's environment: another thread, and time. *)
Cancel ==
  /\ Cancellable /\ cancelled = None
  /\ pc \in {"check", "iterate"}
  /\ cancelled' = iterations
  /\ UNCHANGED <<pc, position, tree, reused, iterations, mask, expired, stopReason, answer>>

Expire ==
  /\ TimeLimited /\ expired = None
  /\ pc \in {"check", "iterate"}
  /\ expired' = iterations
  /\ UNCHANGED <<pc, position, tree, reused, iterations, mask, cancelled, stopReason, answer>>

Search == \/ Begin
          \/ StopOnBudget \/ StopOnCancel \/ StopOnDeadline \/ Continue
          \/ Iterate
          \/ Extract

Next == Search \/ Cancel \/ Expire

Spec == Init /\ [][Next]_vars

(* The loop is sequential code that nothing blocks, and time passes. *)
TimedSpec == Spec /\ WF_vars(Search) /\ WF_vars(Expire)

-----------------------------------------------------------------------------

(* Types of the variables; a search that is over has a reason and an answer. *)
TypeOK ==
  /\ pc \in {"begin", "check", "iterate", "extract", "done"}
  /\ position \in SUBSET Choice
  /\ children \in Seq(Choice)
  /\ visits \in [Choice -> Nat]
  /\ timesAvailable \in [Choice -> Nat]
  /\ mean \in [Choice -> Mean]
  /\ rootVisits \in Nat
  /\ reused \in Nat
  /\ iterations \in Nat
  /\ rootLegal \in Seq(BOOLEAN)
  /\ complete \in BOOLEAN
  /\ cancelled \in Nat \cup {None}
  /\ expired \in Nat \cup {None}
  /\ stopReason \in IF pc \in {"extract", "done"} THEN StopReason ELSE {None}
  /\ answer \in IF pc = "done" THEN Choice ELSE {None}

(* SearchResult::choice is "always a choice legal in the state the search   *)
(* was called on, whatever the determinizations offered".                   *)
AnswerIsLegal == pc = "done" => answer \in position

Legal == [i \in DOMAIN children |-> children[i] \in position]

(* An answer no proof stamped leads the children the real position offers:  *)
(* the mask it was read through describes this position and these children, *)
(* not an earlier search's, nor the children of an earlier iteration.       *)
AnswerLeads ==
  LET candidates == CandidatesUnder(Legal)
      visited    == \E i \in DOMAIN candidates : candidates[i].visits > 0
  IN  pc = "done" /\ stopReason # "Proven" /\ visited
        => \E i \in DOMAIN candidates :
             children[i] = answer /\ IsLeader(candidates, i)

(* After the first refresh of a search a mask as long as the children is    *)
(* the mask of this position, and it is called complete exactly when no     *)
(* choice of the position is without a child.                               *)
MaskIsCurrent ==
  pc # "begin" /\ children # <<>> /\ Len(rootLegal) = Len(children)
    => rootLegal = Legal /\ (complete <=> position \subseteq Children)

(* Config::iterations bounds the root's visits, a retained tree's included: *)
(* a search reports Budget exactly when they are spent, spends none on a    *)
(* root that already holds them, and reports Proven only while some are     *)
(* left.                                                                    *)
BudgetIsExact ==
  pc # "begin" =>
    /\ rootVisits = reused + iterations
    /\ Target # 0 /\ iterations > 0 => rootVisits <= Target
    /\ stopReason = "Budget" => Target # 0 /\ rootVisits >= Target
    /\ pc = "extract" /\ stopReason = "Proven" =>
         rootVisits < Target /\ iterations > 0

(* A proof is only about the answer that is returned: what Proven stamps is *)
(* the leader of the legal candidates, over the evidence bar unless it is   *)
(* the only one there is, and no other legal choice is at or over the bar.  *)
ProvenAnswerStandsAlone ==
  pc = "done" /\ stopReason = "Proven" =>
    /\ position \subseteq Children
    /\ visits[answer] >= MinEvidence \/ position = {answer}
    /\ \A c \in position \ {answer} : visits[c] < MinEvidence

(* A cancelled search completes the iteration it is in and starts no other; *)
(* one past its deadline completes no more than the iterations between two  *)
(* readings of the clock; and both report what stopped them.                *)
StopsPromptly ==
  /\ CancelSeen => iterations <= cancelled + 1
  /\ expired # None => iterations <= expired + PollPeriod
  /\ stopReason = "Cancelled" => CancelSeen
  /\ stopReason = "Deadline" => expired # None

(* A search whose only limit is a time limit ends if time passes, although  *)
(* it reads the clock before few of its iterations and nobody cancels it.   *)
Termination == <>(pc = "done")
=============================================================================
