---------------------------- MODULE RootParallel ----------------------------
(***************************************************************************)
(* One call of RootParallel::search (src/parallel.rs) at a sequential      *)
(* root: a refusal on the pool's own thread, or a thread for each worker,  *)
(* the join, and the merge of the workers' roots into one answer.          *)
(*                                                                         *)
(* A worker is a search of its own, as RootSearch has it, in fewer steps:  *)
(* the tests before an iteration and the iteration are one step, because a *)
(* flag set between them is seen where one set just after is; the mask is  *)
(* the position's, as MaskIsCurrent says; a deadline is noticed at any     *)
(* test, each thread having its own.  Rewards are kept, because the merge  *)
(* adds them up before it divides.                                         *)
(***************************************************************************)
EXTENDS Rank, Sequences, SequencesExt, Functions

CONSTANTS
  Choice,        (* every choice any determinization can offer              *)
  Reward,        (* what a rollout may pay                                  *)
  MaxThreads,    (* bound on the workers of a pool                          *)
  Target,        (* Config::iterations, for each worker                     *)
  TimeLimited,   (* whether Config::time_limit_ms is set                    *)
  Retained,      (* the roots reuse_subtree may have kept                   *)
  Scale,         (* common multiple of the visits a choice may collect      *)
  None           (* no answer, no reason                                    *)

ASSUME RootParallelAssumption ==
  /\ IsFiniteSet(Choice)
  /\ Reward \subseteq Int
  /\ {MaxThreads, Target, Scale} \subseteq Nat \ {0}
  /\ TimeLimited \in BOOLEAN

(* A root: its children in the order they were made, with the selections,   *)
(* opportunities and rewards of each, and Node::visits of its own.          *)
Root == [children       : Seq(Choice),
         visits         : [Choice -> Nat],
         timesAvailable : [Choice -> Nat],
         reward         : [Choice -> Int],
         total          : Nat]

(* A choice has one child, and only a child was selected. *)
WellFormed(t) ==
  /\ t \in Root
  /\ IsInjective(t.children)
  /\ \A c \in Choice : t.visits[c] > 0 => c \in ToSet(t.children)

ASSUME RetainedAssumption == \A t \in Retained : WellFormed(t)

VARIABLES
  pool,        (* where the call is                                         *)
  workers,     (* the indices of the pool's workers                         *)
  legal,       (* the list choices_into gives for the real position         *)
  cancelled,   (* the caller's flag, which every worker reads               *)
  pc,          (* where each worker's thread is                             *)
  armed,       (* Searcher::tree_is_current of each worker                  *)
  root,        (* the root of each worker's tree                            *)
  results,     (* the SearchResult each thread is joined with               *)
  merged       (* the SearchResult of the pool                              *)

vars == <<pool, workers, legal, cancelled, pc, armed, root, results, merged>>

StopReason == {"SingleChoice", "Proven", "Budget", "Deadline", "Cancelled"}

Fresh == [children       |-> <<>>,
          visits         |-> [c \in Choice |-> 0],
          timesAvailable |-> [c \in Choice |-> 0],
          reward         |-> [c \in Choice |-> 0],
          total          |-> 0]

(* A worker's tree that is not armed is dropped unread, so any will do, and *)
(* an armed tree of no visits is as good as none.                           *)
Init ==
  /\ pool = "called"
  /\ \E n \in 1..MaxThreads : workers = 1..n
  /\ legal \in BoundedSeq(Choice, Cardinality(Choice)) \ {<<>>}
  /\ cancelled \in BOOLEAN
  /\ pc = [w \in workers |-> "ready"]
  /\ armed \in [workers -> BOOLEAN]
  /\ root \in [workers -> Retained \cup {Fresh}]
  /\ \A w \in workers : armed[w] <=> root[w] # Fresh
  /\ results = [w \in workers |-> None]
  /\ merged = None

-----------------------------------------------------------------------------

(* A mutant: the refusal is raised before the workers are disarmed. *)
RefuseArmed ==
  /\ pool = "called"
  /\ pool' = "panicked"
  /\ UNCHANGED <<workers, legal, cancelled, pc, armed, root, results, merged>>

(* search_workers refuses a config on the caller's thread, where no         *)
(* worker's search runs to consume its arming.                              *)
Refuse ==
  /\ pool = "called"
  /\ pool' = "panicked"
  /\ armed' = [w \in workers |-> FALSE]
  /\ UNCHANGED <<workers, legal, cancelled, pc, root, results, merged>>

Spawn ==
  /\ pool = "called"
  /\ pool' = "running"
  /\ UNCHANGED <<workers, legal, cancelled, pc, armed, root, results, merged>>

-----------------------------------------------------------------------------

(* What statistics say of one choice. *)
Statistics(stats, c) ==
  [visits         |-> stats.visits[c],
   timesAvailable |-> stats.timesAvailable[c],
   mean           |-> IF stats.visits[c] = 0 THEN 0
                      ELSE (stats.reward[c] * Scale) \div stats.visits[c]]

(* The candidates at some places of an order of choices. *)
Candidates(places, order, stats) == [i \in places |-> Statistics(stats, order[i])]

(* The places that hold a choice of the position. *)
Playable(order) == {i \in DOMAIN order : order[i] \in ToSet(legal)}

Stop(w, reason, choice) ==
  /\ pc' = [pc EXCEPT ![w] = "stopped"]
  /\ results' = [results EXCEPT ![w] = [choice |-> choice, stopReason |-> reason]]

(* root_answer: the leader of the legal children, or a uniform draw. *)
StopWithAnswer(w, reason) ==
  LET order      == root'[w].children
      candidates == Candidates(Playable(order), order, root'[w])
  IN  IF HasLeader(candidates)
      THEN Stop(w, reason, order[Leader(candidates)])
      ELSE \E c \in ToSet(legal) : Stop(w, reason, c)

(* Searcher::search takes the tree if it is armed, and disarms it; the      *)
(* forced-move return keeps it unless it was not.                           *)
Start(w) ==
  /\ pool = "running" /\ pc[w] = "ready"
  /\ armed' = [armed EXCEPT ![w] = FALSE]
  /\ root' = [root EXCEPT ![w] = IF armed[w] THEN @ ELSE Fresh]
  /\ IF Len(legal) = 1
     THEN Stop(w, "SingleChoice", legal[1])
     ELSE /\ pc' = [pc EXCEPT ![w] = "running"]
          /\ UNCHANGED results
  /\ UNCHANGED <<pool, workers, legal, cancelled, merged>>

Spent(w) == root[w].total >= Target

StopOnBudget(w) == Spent(w) /\ StopWithAnswer(w, "Budget")

StopOnCancel(w) == ~Spent(w) /\ cancelled /\ StopWithAnswer(w, "Cancelled")

StopOnDeadline(w) ==
  ~Spent(w) /\ ~cancelled /\ TimeLimited /\ StopWithAnswer(w, "Deadline")

StopEarly(w) ==
  /\ pool = "running" /\ pc[w] = "running"
  /\ UNCHANGED <<pool, workers, legal, cancelled, armed, root, merged>>
  /\ StopOnBudget(w) \/ StopOnCancel(w) \/ StopOnDeadline(w)

(* The choices of a world that an iteration may select: see RootSearch. *)
Selectable(t, order, world) ==
  LET unvisited == {c \in world : t.visits[c] = 0}
  IN  IF unvisited = {} THEN world
      ELSE {order[i] : i \in {i \in DOMAIN order :
                                /\ order[i] \in unvisited
                                /\ \A j \in 1..(i - 1) : order[j] \notin unvisited}}

Selected(t, order, world, c, r) ==
  [children       |-> order,
   visits         |-> [t.visits EXCEPT ![c] = @ + 1],
   timesAvailable |-> [d \in Choice |-> t.timesAvailable[d] + IF d \in world THEN 1 ELSE 0],
   reward         |-> [t.reward EXCEPT ![c] = @ + r],
   total          |-> t.total + 1]

SelectedIn(t, world, order) ==
  {Selected(t, order, world, c, r) : c \in Selectable(t, order, world), r \in Reward}

(* What an iteration over a world may make of a root. *)
Iterated(t, world) ==
  IF world = {}
  THEN {[t EXCEPT !.total = @ + 1]}
  ELSE UNION {SelectedIn(t, world, t.children \o opened) :
                opened \in SetToSeqs(world \ ToSet(t.children))}

(* early_stop::settled, over a mask that is this position's. *)
Settled(t) ==
  /\ Target - t.total > 0
  /\ ToSet(legal) \subseteq ToSet(t.children)
  /\ Proven(Candidates(Playable(t.children), t.children, t), Target - t.total)

Iterate(w) ==
  /\ pool = "running" /\ pc[w] = "running"
  /\ ~Spent(w) /\ ~cancelled
  /\ \E world \in SUBSET Choice : \E t \in Iterated(root[w], world) :
       root' = [root EXCEPT ![w] = t]
  /\ IF Settled(root'[w])
     THEN StopWithAnswer(w, "Proven")
     ELSE UNCHANGED <<pc, results>>
  /\ UNCHANGED <<pool, workers, legal, cancelled, armed, merged>>

(* The game panics on a worker's thread.  The tree it leaves is not armed,  *)
(* and is dropped before anything reads it: it is dropped here.             *)
Panic(w) ==
  /\ pool = "running" /\ pc[w] = "running"
  /\ pc' = [pc EXCEPT ![w] = "panicked"]
  /\ root' = [root EXCEPT ![w] = Fresh]
  /\ UNCHANGED <<pool, workers, legal, cancelled, armed, results, merged>>

Cancel ==
  /\ pool = "running" /\ ~cancelled
  /\ cancelled' = TRUE
  /\ UNCHANGED <<pool, workers, legal, pc, armed, root, results, merged>>

-----------------------------------------------------------------------------

Joined == \A w \in workers : pc[w] \in {"stopped", "panicked"}

(* The scope joins every thread before the panic of one leaves it. *)
JoinPanicked ==
  /\ pool = "running" /\ Joined
  /\ \E w \in workers : pc[w] = "panicked"
  /\ pool' = "panicked"
  /\ UNCHANGED <<workers, legal, cancelled, pc, armed, root, results, merged>>

(* A mutant: the position's order. *)
MergedOrderByPosition == legal

(* The order in which the merge asks for choices: the first worker's own,   *)
(* then the position's for what that worker never saw.                      *)
MergedOrder == root[1].children \o legal

(* Merged::slot: a choice has one entry, made where it was first asked for. *)
Slots(order) ==
  {i \in Playable(order) : \A j \in 1..(i - 1) : order[j] # order[i]}

Pooled ==
  [visits         |-> [c \in Choice |-> SumFunction([w \in workers |-> root[w].visits[c]])],
   timesAvailable |-> [c \in Choice |->
                         SumFunction([w \in workers |-> root[w].timesAvailable[c]])],
   reward         |-> [c \in Choice |-> SumFunction([w \in workers |-> root[w].reward[c]])]]

(* The most informative reason, as merged_stop_reason ranks them. *)
Informative == <<"Budget", "Proven", "Deadline", "Cancelled", "SingleChoice">>

(* A mutant: one worker's proof is reported for the pool. *)
MergedStopReasonProven ==
  LET ranks == {i \in DOMAIN Informative :
                  \E w \in workers : results[w].stopReason = Informative[i]}
  IN  Informative[CHOOSE i \in ranks : \A j \in ranks : j <= i]

(* A proof is about one tree, so no pool of several reports one. *)
MergedStopReason ==
  LET ranks  == {i \in DOMAIN Informative :
                   \E w \in workers : results[w].stopReason = Informative[i]}
      reason == Informative[CHOOSE i \in ranks : \A j \in ranks : j <= i]
  IN  IF reason = "Proven" /\ Cardinality(workers) > 1 THEN "Budget" ELSE reason

(* A mutant: the answer is the choice the workers visited most. *)
MergeMostVisited ==
  /\ pool = "running" /\ Joined
  /\ \A w \in workers : pc[w] = "stopped"
  /\ pool' = "answered"
  /\ \E c \in ToSet(legal) :
       /\ \A d \in ToSet(legal) : Pooled.visits[d] <= Pooled.visits[c]
       /\ merged' = [choice |-> c, stopReason |-> MergedStopReason]
  /\ UNCHANGED <<workers, legal, cancelled, pc, armed, root, results>>

(* merge: the first worker's own result where the move is forced or no      *)
(* worker visited a legal choice; the pooled leader otherwise.              *)
Merge ==
  /\ pool = "running" /\ Joined
  /\ \A w \in workers : pc[w] = "stopped"
  /\ pool' = "answered"
  /\ LET candidates == Candidates(Slots(MergedOrder), MergedOrder, Pooled)
     IN  merged' = IF MergedStopReason # "SingleChoice" /\ HasLeader(candidates)
                   THEN [choice     |-> MergedOrder[Leader(candidates)],
                         stopReason |-> MergedStopReason]
                   ELSE results[1]
  /\ UNCHANGED <<workers, legal, cancelled, pc, armed, root, results>>

Work(w) == Start(w) \/ StopEarly(w) \/ Iterate(w) \/ Panic(w)

Next ==
  \/ Refuse \/ Spawn
  \/ \E w \in workers : Work(w)
  \/ Cancel
  \/ JoinPanicked \/ Merge

Spec == Init /\ [][Next]_vars

-----------------------------------------------------------------------------

(* However a call ends, by refusal, by a worker's panic or with an answer,  *)
(* no worker's tree is left armed for a position the pool did not search.   *)
NothingStaysArmed ==
  pool \in {"panicked", "answered"} => \A w \in workers : ~armed[w]

(* The answer is a choice of the real position, though the trees it is      *)
(* pooled from hold choices of every world any worker sampled; once a       *)
(* worker has visited a legal choice, none of the position outranks it on   *)
(* the statistics of all the trees together.                                *)
MergedAnswerLeads ==
  LET sums(c) == Statistics(Pooled, c)
  IN  pool = "answered" =>
        /\ merged.choice \in ToSet(legal)
        /\ merged.stopReason # "SingleChoice" =>
             \A c \in ToSet(legal) : sums(c).visits > 0 =>
               /\ sums(merged.choice).visits > 0
               /\ ~Beats(sums(c), sums(merged.choice))

(* A pool of one worker answers as the Searcher it is a pool of, on a tie   *)
(* as well.                                                                 *)
PoolOfOneIsItsSearcher ==
  pool = "answered" /\ Cardinality(workers) = 1 => merged = results[1]

Contributed == \E c \in ToSet(legal) : Pooled.visits[c] > 0

(* What a pool that gathered anything reports is true of it as a whole:     *)
(* Budget means that every worker had its iterations, or proved that it     *)
(* needed no more; Cancelled and Deadline that one was cut short; Proven    *)
(* that no legal rival of the answer is anywhere near the evidence bar.     *)
MergedReasonIsHonest ==
  pool = "answered" =>
    LET reported == {results[w].stopReason : w \in workers}
        reason   == merged.stopReason
    IN  /\ Contributed /\ reason = "Budget" => reported \subseteq {"Budget", "Proven"}
        /\ reason \in {"Cancelled", "Deadline"} => reason \in reported
        /\ reason = "Cancelled" => cancelled
        /\ reason = "Proven" => \A c \in ToSet(legal) \ {merged.choice} :
                                  Pooled.visits[c] < MinEvidence
=============================================================================
