------------------------------ MODULE TuneRun ------------------------------
(***************************************************************************)
(* mcts_tune::run (mcts-tune/src/run.rs) as its process runs it: worker    *)
(* threads that claim the games of a generation from a shared counter, a   *)
(* process that may be killed between any two steps, and a caller that     *)
(* persists the checkpoint of a generation or does not, and calls again    *)
(* with what it has: sometimes with another strategy, another size of      *)
(* generation, or, as the doc warns, the last answer as the baseline.      *)
(*                                                                         *)
(* A worker's panic ends the run at the join, as a kill does.  reports is  *)
(* what the caller has last been told of each generation; only properties  *)
(* read it.                                                                *)
(***************************************************************************)
EXTENDS Arena, FiniteSets

CONSTANTS
  Setup,       (* the runs a caller may ask for                             *)
  OddFactor,   (* 0x9E37_79B9_7F4A_7C15, which spreads generations' seeds   *)
  Worker,      (* the threads of an evaluation                              *)
  MaxCrashes,  (* bound on the times the process is killed                  *)
  Idle,        (* a worker between two jobs                                 *)
  Returned     (* a worker that found no job left                           *)

ASSUME TuneRunAssumption ==
  /\ {DrawWidth, SeedSpace, MaxDecisions, Elites, Entrants} \subseteq Nat \ {0}
  /\ OddFactor % 2 = 1 /\ MaxCrashes \in Nat
  /\ IsFiniteSet(Worker) /\ Worker # {}
  /\ Idle # Returned /\ Idle \notin Nat /\ Returned \notin Nat
  /\ \A s \in Setup :
       /\ {s.games, s.size, s.generations} \subseteq Nat
       /\ s.games > 0 /\ s.size > Elites /\ s.size >= 2
       /\ s.seed \in 0..(SeedSpace - 1)
       /\ s.opponents \in {"Baseline", "RoundRobin"}

VARIABLES
  setup,       (* the run that is asked for                                 *)
  pc,          (* where the process is, "down" if there is none             *)
  memory,      (* what run holds from one generation to the next            *)
  candidates,  (* the repaired genes being measured                         *)
  next,        (* the AtomicUsize jobs are claimed from                     *)
  job,         (* the job each worker holds                                 *)
  local,       (* each worker's own sums                                    *)
  disk,        (* the checkpoint the caller persisted last                  *)
  result,      (* the TuneReport of a finished run                          *)
  crashes,
  reports

vars == <<setup, reports, pc, memory, candidates, next, job, local, disk, result, crashes>>

Nothing == <<>>     \* no checkpoint, no report, no memory

NoAnswer == <<>>

Parked == [w \in Worker |-> Returned]
Zeros(n) == [w \in Worker |-> [c \in 1..n |-> 0]]

Init ==
  /\ setup \in Setup
  /\ reports = <<>>
  /\ pc = "down"
  /\ memory = Nothing /\ disk = Nothing /\ result = Nothing
  /\ candidates = <<>> /\ next = 0 /\ job = Parked /\ local = Zeros(0)
  /\ crashes = 0

-----------------------------------------------------------------------------
(* What a caller passes to run: an optimizer built anew, the parameters to  *)
(* start from and perhaps a checkpoint.  The program compares nothing else, *)
(* so games, opponents, seeds and rates are the caller's to repeat: a call  *)
(* that changes one of them is accepted, and is another run.                *)
OwnCall(resume) ==
  [strategy |-> setup.strategy, size |-> setup.size, base |-> setup.base, resume |-> resume]

Calls ==
  {OwnCall(Nothing)} \union
  (IF disk = Nothing THEN {}
   ELSE {OwnCall(disk),
         [OwnCall(disk) EXCEPT !.base = disk.answer.genes],
         [OwnCall(disk) EXCEPT !.strategy = IF @ = "ga" THEN "cma-es" ELSE "ga"],
         [OwnCall(disk) EXCEPT !.size = @ + 1]})

Built(call) == New(call.strategy, call.base, call.size, setup.seed)

(* The baseline is compared first, then the optimizer restores or refuses.  *)
Refused(call) ==
  /\ call.resume # Nothing
  /\ \/ call.resume.baseline # call.base
     \/ RestoreError(Built(call), call.resume.optimizer) # "Ok"

(* Mutant of Begun: a resumed run answers from what it measures itself.     *)
BegunForgetting(call) ==
  IF call.resume = Nothing
  THEN [optimizer |-> Built(call), baseline |-> call.base,
        generation |-> 0, games |-> 0, answer |-> NoAnswer]
  ELSE [optimizer |-> Restored(Built(call), call.resume.optimizer), baseline |-> call.base,
        generation |-> call.resume.generationsDone, games |-> call.resume.games,
        answer |-> NoAnswer]

(* What run starts its loop with; a refused call leaves nothing behind.     *)
Begun(call) ==
  IF call.resume = Nothing
  THEN [optimizer |-> Built(call), baseline |-> call.base,
        generation |-> 0, games |-> 0, answer |-> NoAnswer]
  ELSE [optimizer |-> Restored(Built(call), call.resume.optimizer), baseline |-> call.base,
        generation |-> call.resume.generationsDone, games |-> call.resume.games,
        answer |-> call.resume.answer]

Start ==
  /\ pc = "down"
  /\ \E call \in Calls : ~Refused(call) /\ memory' = Begun(call)
  /\ pc' = "generation"
  /\ UNCHANGED <<setup, reports, candidates, next, job, local, disk, result, crashes>>

-----------------------------------------------------------------------------
(* The plan of a generation: its own seed if the run reseeds.               *)
PlanOf(generation) ==
  [games     |-> setup.games,
   opponents |-> setup.opponents,
   seed      |-> IF setup.reseed THEN (setup.seed + generation * OddFactor) % SeedSpace
                                 ELSE setup.seed]

Plan == PlanOf(memory.generation)
Jobs == Total(Plan, Len(candidates))

(* Ask, repair, and spawn the workers of the evaluation.                    *)
AskGeneration ==
  /\ pc = "generation" /\ memory.generation < setup.generations
  /\ \E asked \in {Ask(memory.optimizer)} :
       /\ memory' = [memory EXCEPT !.optimizer = asked.optimizer]
       /\ candidates' = [i \in DOMAIN asked.candidates |-> Repair(asked.candidates[i])]
       /\ local' = Zeros(Len(asked.candidates))
  /\ pc' = "arena" /\ next' = 0 /\ job' = [w \in Worker |-> Idle]
  /\ UNCHANGED <<setup, reports, disk, result, crashes>>

(* Mutant of Claim: a load and a store in place of fetch_add, so that the   *)
(* store of a slower worker can undo this one.                              *)
ClaimByLoadAndStore(w) ==
  /\ pc = "arena" /\ job[w] = Idle
  /\ job' = [job EXCEPT ![w] = IF next >= Jobs THEN Returned ELSE next]
  /\ next' \in {next, next + 1}
  /\ UNCHANGED <<setup, reports, pc, memory, candidates, local, disk, result, crashes>>

(* Mutant of Claim: only the worker that finds the list just used up sees   *)
(* that it is; the others, past its end, go on looking.                     *)
ClaimNoticesOnlyTheEnd(w) ==
  /\ pc = "arena" /\ job[w] = Idle
  /\ job' = [job EXCEPT ![w] = IF next = Jobs THEN Returned ELSE IF next > Jobs THEN Idle ELSE next]
  /\ next' = IF next > Jobs THEN next ELSE next + 1
  /\ UNCHANGED <<setup, reports, pc, memory, candidates, local, disk, result, crashes>>

(* fetch_add, and the end of a worker that finds the list used up.          *)
Claim(w) ==
  /\ pc = "arena" /\ job[w] = Idle
  /\ job' = [job EXCEPT ![w] = IF next >= Jobs THEN Returned ELSE next]
  /\ next' = next + 1
  /\ UNCHANGED <<setup, reports, pc, memory, candidates, local, disk, result, crashes>>

PlayJob(w) ==
  /\ pc = "arena" /\ job[w] \notin {Idle, Returned}
  /\ \E credit \in {Credits(Plan, candidates, memory.baseline,
                            Job(Plan, Len(candidates), job[w]))} :
       local' = [local EXCEPT ![w] = [c \in DOMAIN @ |-> @[c] + credit[c]]]
  /\ job' = [job EXCEPT ![w] = Idle]
  /\ UNCHANGED <<setup, reports, pc, memory, candidates, next, disk, result, crashes>>

(* The workers are joined and their sums added up.                          *)
Joined == [c \in DOMAIN candidates |-> SumFunction([w \in Worker |-> local[w][c]])]

(* The first candidate of the highest fitness.                              *)
Top(fitness) ==
  LET best[i \in 0..Len(fitness)] ==
        IF i = 0 THEN 0
        ELSE IF best[i - 1] = 0 \/ fitness[i] > fitness[best[i - 1]] THEN i ELSE best[i - 1]
  IN  best[Len(fitness)]

(* Opponents::Baseline keeps the highest, Opponents::RoundRobin the latest. *)
Answered(answer, fitness) ==
  LET top == [genes |-> candidates[Top(fitness)], fitness |-> fitness[Top(fitness)]]
  IN  IF \/ setup.opponents = "RoundRobin"
         \/ answer = NoAnswer
         \/ top.fitness > answer.fitness
      THEN top ELSE answer

Checkpoint(mem) ==
  [optimizer |-> Snapshot(mem.optimizer), generationsDone |-> mem.generation,
   games |-> mem.games, baseline |-> mem.baseline, answer |-> mem.answer]

Measurement(fitness) ==
  [memory EXCEPT !.optimizer = Tell(@, candidates, fitness),
                 !.games = @ + GamesPerGeneration(Plan, Len(candidates)),
                 !.answer = Answered(@, fitness),
                 !.generation = @ + 1]

(* The join, tell, and on_generation, where the caller persists the         *)
(* checkpoint if it will.                                                   *)
TellGeneration ==
  /\ pc = "arena" /\ \A w \in Worker : job[w] = Returned
  /\ \E fitness \in {Joined} :
       /\ memory' = Measurement(fitness)
       /\ reports' = SubSeq(reports, 1, memory.generation)
                       \o <<[candidates |-> candidates, fitness |-> fitness, after |-> memory']>>
                       \o SubSeq(reports, memory.generation + 2, Len(reports))
  /\ disk' \in {disk, Checkpoint(memory')}
  /\ pc' = "generation" /\ candidates' = <<>> /\ next' = 0 /\ local' = Zeros(0)
  /\ UNCHANGED <<setup, job, result, crashes>>

(* A run of no generations has only the parameters it started from.         *)
Finish ==
  /\ pc = "generation" /\ memory.generation >= setup.generations
  /\ result' = [answer |-> IF memory.answer # NoAnswer THEN memory.answer
                           ELSE [genes |-> memory.baseline, fitness |-> NegInfinity],
                generations |-> setup.generations, games |-> memory.games]
  /\ pc' = "finished"
  /\ UNCHANGED <<setup, reports, memory, candidates, next, job, local, disk, crashes>>

(* The process is killed: only what the caller persisted is left.           *)
Crash ==
  /\ pc \in {"generation", "arena"} /\ crashes < MaxCrashes
  /\ crashes' = crashes + 1
  /\ pc' = "down" /\ memory' = Nothing
  /\ candidates' = <<>> /\ next' = 0 /\ job' = Parked /\ local' = Zeros(0)
  /\ UNCHANGED <<setup, reports, disk, result>>

(* What the process does by itself, and the caller that calls again.        *)
Proceed ==
  \/ \E w \in Worker : Claim(w) \/ PlayJob(w)
  \/ Start
  \/ AskGeneration
  \/ TellGeneration
  \/ Finish

Next == Proceed \/ Crash

(* While something can proceed, something does: some thread is scheduled.   *)
Spec == Init /\ [][Next]_vars /\ WF_vars(Proceed)

-----------------------------------------------------------------------------
(* The run as its caller saw it, with the optimizer as the last generation  *)
(* it was told of left it.                                                  *)
Uninterrupted == INSTANCE Tuning WITH
  optimizer <- IF reports = <<>> THEN Built(OwnCall(Nothing))
               ELSE reports[Len(reports)].after.optimizer,
  history   <- [g \in DOMAIN reports |-> [candidates |-> reports[g].candidates,
                                          fitness    |-> reports[g].fitness]]

(* README.md says of a resumed run that it reproduces the uninterrupted one *)
(* exactly, generator state included: whatever is killed when, whichever    *)
(* checkpoints were kept and whichever worker played what, the generations  *)
(* a caller is told of are those of the run nothing ever interrupted.       *)
(* Rewards here add without rounding, as 0, 1/2 and 1 do; the workers' f64  *)
(* sums of others (arena.rs:307, 332) may round by who played what.         *)
ResumedRunIsTheRun == Uninterrupted!Spec

(* Workers claim games while others play (arena.rs:309): at any moment the  *)
(* games claimed so far are each either held by one worker or in the sums   *)
(* of one, credited to their own candidates and nobody else's.              *)
EachGameCountsOnce ==
  pc = "arena" =>
    LET held    == {job[w] : w \in {v \in Worker : job[v] \notin {Idle, Returned}}}
        claimed == 0..((IF next > Jobs THEN Jobs ELSE next) - 1)
        credit(j, c) == Credits(Plan, candidates, memory.baseline, Job(Plan, Len(candidates), j))[c]
    IN  /\ Cardinality(held) = Cardinality({v \in Worker : job[v] \notin {Idle, Returned}})
        /\ held \subseteq claimed
        /\ \A c \in DOMAIN candidates :
             Joined[c] = SumFunction([j \in claimed \ held |-> credit(j, c)])

(* The answer and the count of games are those of the whole run, the parts  *)
(* before an interruption included: against one baseline the best anyone    *)
(* measured, in a round robin the latest generation's, and every game that  *)
(* a generation which counts has cost.                                      *)
AnswerIsTheRuns ==
  memory # Nothing /\ memory.generation > 0 =>
    LET told == SubSeq(reports, 1, memory.generation)
    IN  /\ memory.answer = Uninterrupted!Answer(told)
        /\ memory.games = memory.generation * Total(PlanOf(0), setup.size)

(* Candidates play the same seeds (arena.rs:236), so a score is a candidate *)
(* and not its place in the generation: against one opponent, candidates    *)
(* with the same genes score the same, whoever played their games, where    *)
(* rewards add without rounding (see ResumedRunIsTheRun).                   *)
SameGenesSameScore ==
  setup.opponents = "Baseline" =>
    \A g \in DOMAIN reports : \A c, d \in DOMAIN reports[g].candidates :
      reports[g].candidates[c] = reports[g].candidates[d]
        => reports[g].fitness[c] = reports[g].fitness[d]

(* A run that is called again whenever it is killed, and is not killed for  *)
(* ever, ends.                                                              *)
RunEnds == <>(pc = "finished")
=============================================================================
