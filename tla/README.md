# A verification of `mcts`

TLA+ models of the Monte Carlo tree search library in `src/` (the `mcts` crate)
and of its tuner (`mcts-tune`), the TLC runs that check them on small instances,
and TLAPS proofs of what matters most for every instance.

## The system

The library searches a game the caller implements (`Game`): it samples a world
consistent with what a player knows, descends a tree of choices by UCB1, rolls
the game out, and backs the rewards up. Hidden information makes the choices a
node offers vary from iteration to iteration, which is what most of the
bookkeeping is about.

| Part | Source | State | Operations | What makes it hard |
|---|---|---|---|---|
| Ranking | `rank.rs` | none | `beats`, `leader_of`, `out_of_reach` | one order used by four argmaxes and a proof; NaN; boundaries of the evidence bar |
| Early termination | `early_stop.rs` | none | `settled`, `proven` | soundness against every future: worlds, selections, rewards |
| Search loop | `search.rs`, `budget.rs` | root node, mask, counters | `search` | budget over retained visits, cancel by another thread, a clock polled one iteration in 32, a mask cached by length |
| Retention | `search.rs`, `node.rs` | root, arming | `reuse_subtree`, `reuse_joint`, `take_tree`, `clear_tree`, `disarm` | a protocol across searches, forced moves, refusals and caught panics |
| Sequential nodes | `node.rs`, `select.rs` | children, counts, match bit, index | `expand`, `select`, `record` | availability against visits, the revisit fast path |
| Simultaneous nodes | `node.rs`, `duct.rs` | arms per player, joint children, stamps | `expand_marginals`, selection, backup | epoch stamps, growing keys, order of credit and record |
| Graph search | `graph/` | vertices, links, table | resolve, descend, back up, re-root | cycles, shared vertices, renumbering |
| Observed search | `observed/` | one tree per player | as `Searcher`, on every tree at once | aligned paths, keys that are not injective |
| Root parallelism | `parallel.rs` | a searcher per worker | `search`, reuse on all | merging different roots, stop reasons, refusal |
| Tuner | `mcts-tune/` | population or distribution, checkpoint | `run`, arena, optimizers | resuming after an interruption, the job queue |

How they interact: `Searcher::search` calls the game for worlds, choices and
rewards, `run_iteration` for the tree, `refresh_root_legal` and
`early_stop::settled` after an iteration, and answers with `rank::leader_of`.
`RootParallel` owns one `Searcher` per thread, shares the caller's cancel flag
with them, and merges their roots with the same `leader_of`. The caller owns
the game between searches and tells the searcher what was played through
`reuse_subtree` or `reuse_joint`. `ObservedSearcher` and `GraphSearcher` follow
the same protocol with other trees. The tuner (`mcts_tune::run`) asks an
optimizer for a generation of parameters, has the arena's threads play their
games, each between two `Searcher`s, tells the optimizer what they scored, and
hands its caller a checkpoint from which a later call resumes.

## Modules

### `Rank`, `RankScan`: the ranking

`Rank` holds the operators of `rank.rs` and `proven` of `early_stop.rs`, over
candidates `[visits, timesAvailable, mean]`. The code compares quotients, so
the quotient is the field; an integer stands for an `f64`'s place in its order
and the constant `NaN` for NaN, which orders against nothing. `IsLeader` is
what the scan is for; `RankScan` is the scan itself, one action per arm of its
loop, and `FirstMaximum` says that the two agree (checked in `marginal_answer`,
whose module extends `RankScan`).

### `MarginalAnswer`: a simultaneous root's answer, and a pool's

What is read off a simultaneous root, and by whom. A worker's root is followed
through iterations over the perspective player's arms: an iteration expands the
slot for the world it sampled, plays an arm, and under regret matching gives
mass to a set of arms. Worlds offer arms the position does not, so legality is
the position's and not the tree's. When the search ends (budget, flag, clock or
the proof of `settled_arms`) the scan of `RankScan` ranks the legal arms, and
`extract_marginal` answers with a draw or with the heaviest arm, or from the
position's list if it holds no arm. `root_policy_into` is the strategy the
caller could have asked for, computed by a walk of its own. With two workers
`merge` pools counts, and under a policy that mixes it renormalises each
worker's strategy over the legal arms and weights it by the worker's visits.

Kept: the order of arms, visits, opportunities, rewards, mass, and every
fallback (no arm, no visit, no mass). Abstracted: regrets, which are reals, to
the support they leave, any set of known arms weighed equally; masses are
integers over `Unit`, which every division in the run's bounds divides and
which is large enough for any share of it, averaged over all the iterations of a
search, to be worth 1 (`MarginalAnswerAssumption`: the code's shares are `f64`s
and do not round to zero either). `MaxGathered` bounds the iterations of all
workers together. The mask is computed from the position (that the cached one is current is `RootSearch`'s
`MaskIsCurrent`); workers run one after another, since they share nothing; stop
reasons are `RootParallel`'s.

The properties leave out two states, which the code treats differently on
purpose. Where every legal arm has zero mass, `sample_root_arm` draws uniformly
over them and `best_arm` answers their leader, while a pool of one answers its
pooled leader. Where a position's arms under `Duct` are known but none was
visited, `root_policy_into` reports them uniformly and the search draws from
the position's whole list.

### `RootSearch`: one search

The body of `Searcher::search` at a sequential root, from the moment a root
node exists. One action per test at the top of the loop, in the code's order,
one for an iteration with everything it runs afterwards (mask refresh and
proof), one for the extraction; `Cancel` and `Expire` are the other thread and
the clock, and may fall between a test and the iteration it let through.

Kept: the order in which children are made, each child's visits and
availability, the root's visits, the mask and its `complete` flag with whatever
an earlier search left in them, `reused_iterations`, the three stop tests.
Abstracted: what lies below a child is the mean it leaves there, which is any
value of `Mean`, because neither rewards nor means are confined; UCB1 is what
`select` guarantees (an unvisited child on sight, else any child the world
offers); worlds are sets of choices, any at all.

`FullBudget` extends it with the iterations that a `Proven` stop saved, taken in
every way they could have fallen. The flag and the clock are kept as the number
of iterations completed when they turned, so that lateness can be stated.

### `Retention`: the tree between searches

The arming protocol of `Searcher`: every exit of `search` (refusal, forced
move, no choices, a panic in the game, a whole search), `take_tree`,
`clear_tree`, and the two reuse calls, against a game that goes on. The caller
keeps the contract that the docs leave to it and breaks whatever they say is
safe to break: it forgets to report moves, has calls refused, catches panics,
uses the wrong one of the two calls. A tree is known by the position its root
describes, which the code cannot see and the properties are about.

### `ObservedSearch`: a tree for every observer

`ObservedSearcher`, whole: a game of hidden moves (`View`) and a hidden deck, a
tree per player whose edges are moves as that player observes them, and
searches with reported, unreported and forced moves between. One action per
level of the descent, where the code's loop comes round: the mover's tree is
expanded under its own keys and chooses, every other tree follows under its
own key and grows a scaffold where it must. The backup credits every tree's
path. A panic may fall between the mover's expansion and the others' following.
`reuse_subtree` re-roots all trees under their own keys or drops them all; a
forced move returns above the reset, as in the code.

A tree is a function from key paths to nodes, which carry visits, opportunities,
rewards and the player who moved into them. Each tree also carries what it
describes, which the code cannot see, and `playouts` is the bag of what it has
been shown since it was rooted: the specification against which visits and
rewards are checked. UCB1 is what `select` guarantees, as in `RootSearch`.
`Pushed` is `push_child` for a list of keys; `Unseen` keeps each choice it has
no child for once, wherever a game lists it twice, as `node.rs` does by pushing
before it looks for the next. `ObservedAssumption` says what a game must be: an
observer's view of a move is one of finitely many keys, a deck offers moves, and
rewards are there for every line that ends the game. Who is to act depends on
the number of moves alone (`Turn`). That is stricter than the trait, which asks
only that the actor be the same in every world that reaches one node
(`game.rs:601`): a game whose actor depends on which moves were seen is not
covered.

### `RootParallel`: a pool of searchers

A call of `RootParallel::search` at a sequential root: the refusal on the
caller's thread, the workers spawned, each a search reduced to what the pool
reads off it (the root's candidates, its visits, its stop reason, its arming),
the join that rethrows a panic, and the merge. A worker's steps are those of
`RootSearch` with the mask left out: an iteration gives one of its children a
visit, a proof may stop it, and the shared flag and the workers' own clocks may
stop it anywhere. Kept in the merge: the order in which trees are read, the
filter by the position's own choices, sums and visit-weighted means, and the
stop reason. A choice that appears in several trees has one slot, where it was
first met (`Slots`). Where no tree visited a legal choice, and where the move is
forced, the first worker's result is handed on whole, its stop reason included.
`RetainedAssumption` asks of the trees a pool starts from what iterations leave:
one child to a choice, and visits only of children. What a simultaneous root
adds to the merge is in `MarginalAnswer`.

### `SimulNode`: a node at which several players act at once

One node's level of an iteration: the marginals of each player expanded in
turn, the stamp that stands for legality, the bit that lets a revisit skip the
enumeration, a pick per player, the joint successor found by its packed key,
and the backup, which credits arms before it records the node. The arms of all
players lie in one array, as in the code, so that an arm grown for one player
moves those of the next. The game may panic wherever it is called, and the node
may become the root of a later search. What a level below does is left to it;
NaN scores are the case in which a player of `Duct` finds nothing to play.
Where a game says that choices are the same at the root (`SameAtRoot`), every
world of a search offers what the position searched does (`offers`), which may
be less than what worlds offered while the node was below the root: the guard
that every arm is a choice is then met on both sides. An override of
`choices_fixed` that answers yes below the root and no at it is not included;
`GraphSearch` has one.

### `GraphSearch`: vertices instead of nodes

The arena of `GraphSearcher`, its transposition table, the path stamps, the
descent, the backup, and `reuse_subtree` followed by the next search. One
action per level of the descent, which is where the code's loop comes round:
the vertex is expanded or its known links are taken as they are, a link is
chosen, its successor is the one it led to, the one the table finds, or a new
one, and the descent goes on, stops at a vertex without visits, or ends at a
vertex that is already on the path. Each vertex carries the position it was
made for, which the code does not keep and the properties are about. Keys keep
their contract (one key, one position); rewards are left out. `fixed` is the
game's answer to `choices_fixed`, position by position, at the root and below;
where it is yes below the root a position offers all its choices, and where it
is yes at the root every world offers what the position searched does
(`offers`), which may be some of what other worlds offered there. A search of a
position with a single choice returns at once (`BeginIteration` has no
iteration for it); below the root such positions are vertices like others. What a re-rooting
keeps is stated as what its walk computes, the least set of vertices that holds
the new root and whatever its members lead to (`Reachable`), and the survivors
keep their order where the code numbers them in the order of the walk
(`Numbering`): a number says nothing more than which vertex it is.

### `Optimizers`, `Arena`, `Tuning`, `TuneRun`: the tuner

`Optimizers` is the ask/tell interface with both strategies behind it: the
genetic algorithm draw by draw (tournaments, crossover, mutation, elites), and
CMA-ES in its control, with the covariance reduced to one step size and one
path, all in whole numbers. A generator is a seed and a number of draws;
`Stream` says what each draw is. A snapshot carries what the code's does, and a
restore refuses what the code's refuses.

`Arena` is one evaluation: the job list of each kind of opponents in the order
it is claimed, seats and seeds of a job, the game (a pile from which two seats
take turns, driven by the genes), and what a job credits to whom.

`Tuning` is the abstract specification: a run is the sequence of its
generations, each computed at once from the ones before; nothing is interrupted
and nothing is concurrent. `TuneRun` is the program: threads that claim jobs
from an atomic counter and add to sums of their own, the join, `tell`, the
checkpoint that the caller persists or does not, a kill at any step (a worker's
panic ends the run in the same way), and a caller that calls again with what it
has, now and then with another strategy, another size of generation, or the
last answer as the baseline, which are refused. The program compares nothing
else with the checkpoint (`run.rs:130`): a call that resumes with other games,
opponents, seeds or rates is accepted and is another run, so that a caller
repeats them is an assumption. Rewards are whole numbers, which add exactly, as
the 0, ½ and 1 of a won, drawn and lost game do; for rewards whose sums round,
the per-worker `f64` sums (`arena.rs:307`, `332`) depend on who played what, and
the two properties that say "whoever played what" (`SameGenesSameScore`,
`ResumedRunIsTheRun`) and their theorems hold only up to that. The checks a
restore makes of row lengths (`ga.rs:232`, `cma.rs:434`) are left out: the
snapshots passed back are those that `Snapshot` makes.

`ResumedRunIsTheRun` is the refinement
(`INSTANCE Tuning WITH`): the optimizer is the one after the last generation
the caller was told of, the history is what it was told, and a generation that
is measured again after a kill is a stutter, which holds only if it comes out
the same.

## Runs

| Run | Configuration | What it shows |
|---|---|---|
| `marginal_answer` | pools of one and two workers, three iterations between them, two arms of the position and one that only other worlds have, both policies, both root policies; every list of up to three candidates with visits 0 to 3 around a bar of 2 | the scan returns the first maximum; the answer is one the reported strategy plays, the likeliest if it is not drawn; the merged strategy is the visit-weighted mean of what the workers would report; a pool of one answers as its searcher |
| `rank_scan_poisoned` | lists of up to three candidates with NaN among the means | **violated**: of `<<NaN, x, y>>`, all with two visits, the scan returns `y` although `x` outranks it: `x` has the better mean but only the NaN candidate's rate and does not replace it, `y` has the higher rate and does |
| `root_search` | three choices, bar 3, budget 6, retained roots of up to six visits, any stale mask | the answer is legal and leads; the mask is current; the budget is exact; a Proven answer stands alone and stands whatever the saved iterations bring |
| `stopping` | two choices, no budget, a clock read every third iteration, cancel and expiry at any moment | the search ends if time passes, and promptly |
| `retention` | games of three moves over two moves | what is armed is this position's tree; a search grows its own position's tree; the root tells its round |
| `observed_search` | two seats, the second of which cannot tell the first's moves apart, three decks, games of up to three moves, three searches of a budget of 3, forced and missing moves, refusals, panics | trees stay aligned; a search grows its own position's trees unless a forced move spared older ones; each tree is what its observer saw of the same playouts; choices are made within their opportunities; the answer is the position's and leads |
| `observed_forced_move` | the same | **violated**: a forced move leaves an older position's trees to be armed |
| `root_parallel` | pools of one and two workers, two choices, bar 2, budget 3 each, retained roots, refusals, panics, a cancel and deadlines at any moment | nothing stays armed; the merged answer is legal and leads; a pool of one answers as its searcher; the reported reason is one the pool can stand for |
| `graph_search` | six positions, two players, two routes to one position, two cycles, one position without a key, one with a single choice; five iterations over two searches; stamps up to 3; four answers to `choices_fixed` | stamps are the path; links lead where choices do through merges and renumberings; the table is exact; the root has no parent and all else has one; visits are evidence; known choices are the choices |
| `simul_node` | two players with two choices each, up to four visits, one panic, both policies, the three settings of `CHOICES_ON_REVISIT` | keys keep naming the same choices; stamps are the offer; arms sum their successors; regret and strategy are sums over one window |
| `simul_panic` | one policy, up to three visits, one panic | **violated**: stamps of an iteration that panicked are read as the next one's |
| `tune_run` | two genes; a genetic algorithm of three candidates, against the baseline and in a round robin, and CMA-ES of four against the baseline, up to three generations, reseeded or not; two threads; one kill | every game counts once; the answer and the count of games are the whole run's; equal genes score equally; the run implements the uninterrupted one; it ends |

Bounds, and why they are enough. A bar of 3 and a budget of 6 let a leader pass
the bar with a visited rival below it and two iterations still to be saved:
every clause of the proof is decided both ways, and an off-by-one in it is
found. Three choices give a leader, a rival and a choice that only some worlds
offer. `MaxReused = 6` lets a promoted root hold anything from a first visit,
which goes past no child, to the whole budget, with which it answers without an
iteration; a root that holds more than the budget is left to `BudgetStaysExact`.
`PollPeriod = 3` in place of 32 puts two polls, and the iterations between
them, inside the bound on iterations. `MaxIterations` keeps a search without a
budget finite until the deadline passes, and then leaves it a whole poll period
to notice; where there is a budget it is never reached. Three moves are a
search, an unreported move and a reported one, the shortest history in which a stale tree can be armed. Choices
and moves are symmetric where the configuration declares it: no definition
tells one from another.

The graph's game is the smallest in which a transposition, a cycle through the
new root, a cycle that avoids it, a position reached by two movers and one
without a key all occur; `MaxStamp = 3` wraps the stamps within five
iterations; five iterations reach every position and leave the second search
two or more on what the first one built. A world is a set of choices, any one
that is not empty, so a position whose choices may change multiplies the states
by the worlds it may offer; the third position has three choices, and a game
that fixes nothing there either has thirty times the states. So the games of the
run are: one that fixes its choices at the root, one that fixes them everywhere,
one that fixes none but the third position's, below a root, and one that
answers `choices_fixed` position by position. The proofs are of any answer.
A budget of 3 over a bar of 2 lets two
workers disagree about who leads and lets one of them prove what the pool does
not answer. Four visits of a simultaneous node reveal every arm in every order,
so that either slot grows before and after joint successors are stored, and
leave iterations on both sides of a panic and of a promotion;
`KeyCapacity` is the number of choices, so the last index a key can hold is
used.

Three iterations are enough for one worker to reach a legal arm twice, or for
two workers to have met different arms with different masses; the worlds hold an
arm the position lacks, so legality, mass and opportunities come apart; `Unit`
is 36, which two and three arms, and up to three opportunities after them,
divide. For the observers, a budget of 3 over two choices visits one twice, so
a level below the root is expanded; three moves let a tree be re-rooted twice or
missed once; the decks give worlds in which the other seat has one answer, none,
or another one. One kill at any step, with any checkpoint kept or lost, is every
way to fall back by any number of generations; a second only repeats it. Two
workers race for the counter in every way; games of two, or of four in a round
robin of three, sit each candidate on both sides.

Fairness. `Termination` assumes weak fairness of the search's own steps
(`Search`), because the loop is sequential code that nothing blocks, and of
`Expire`, because time passes. Nothing is assumed of `Cancel`. A search with a
budget needs neither: `BudgetIsExact` bounds its iterations. `RunEnds` assumes
weak fairness of everything the tuning process does together (`Proceed`): the
threads take no lock and wait for nobody but at the join, so some thread can
always be scheduled. It includes the caller's calling again after a kill, which
is an assumption about the caller, and `MaxCrashes` says that kills end.

Deadlock is not checked: a search or a pool that has answered, a finished
tuning run, a scan that has ended and a game at its bound stop.

## Proofs

Every theorem holds for any value of the constants that satisfies the
assumptions their modules declare: a bar of at least one, finite choices,
integer means with 0 among them, games whose moves lead to positions, and for
the tuner `TuneRunAssumption`: some threads, finitely many, at least one elite,
populations larger than the elites, at least one game; for a simultaneous root
`MarginalAnswerAssumption`: lists of choices without repetition and not empty, at
least one worker and one iteration, and the scale of `Unit`. The theorems about a
search start from `Init`, whose retained roots are those
`RetainedTree` describes. `PROJECT.json` lists the results; this is how each
argument goes. Each module has one inductive invariant, a lemma per action that
keeps it, and the properties the runs check as its consequences.

**One search** (`RootAnswerProofs`). `InductiveInvariant` gives
`TypeInvariant`, `AnswerStaysLegal`, `MaskStaysCurrent`, `ProvenStandsAlone`
and `ProvenIsSound`. The argument of the last is counting. Means move with
rewards and bound nothing, so an invariant about who leads is not inductive.
What is inductive is `Certificate(a)`: the position's choices all have
children, `a` is over the bar (unless it is alone), and every other choice is
so far below it that the iterations left cannot carry it there. One iteration
gives one child one visit and takes one from the iterations left, so a
certificate survives it (`CertificateSurvives`); it makes its holder the one
leader (`CertificateLeads`); and it is what `proven` reads off the candidates
(`ProvenCertifies`), provided the mask is this position's. That last condition
is the second half of the invariant: the mask covers a prefix of the children,
which are distinct and only appended to (`MaskCoversPrefix`, `Distinct`), so a
mask of the right length is the right mask (`RefreshDescribes`).
`BudgetStaysExact` and `SearchStopsPromptly` have invariants of their own
(`BudgetInv`, `PromptInv`): an iteration is let through only with budget left,
only before the flag was set, and only before the poll that follows the
deadline (`NextPoll`). `AnswerAlwaysLeads` needs that a leader
exists at all, which is the next part's.

**The ranking** (`RankProofs`, and the scan of `RankScan` in the middle of
`RootAnswerProofs`). `BeatsAsymmetric` and
`BeatsNegativelyTransitive` make `beats` a strict weak order on honest
candidates (no NaN); the rate is a comparison of products, so its part rests on
two lemmas on the order of products. `LeaderExists` follows: a least set of
candidates without a leader would have one once its newest member is compared
with the leader of the rest. `ScanFindsFirstMaximum` has as invariant
that the incumbent is the first maximum of the prefix already scanned, and
negative transitivity carries it past a candidate that only the incumbent was
compared with. `LeaderIsUnique` makes `ScanReturnsTheLeader` of it: what the
other modules name with a `CHOOSE` is what the loop returns.
`EveryScanFindsFirstMaximum` says so of every scan that a simultaneous root
starts, which is where the loop is run.

**A simultaneous root, and a pool of them** (the rest of `RootAnswerProofs`),
for any positions, worlds and number of workers. `MarginalInv` keeps of each
root (`RootsOK`) that its arms are distinct choices, that an arm's opportunities
lie within its root's iterations, and that mass is only given under mixing, never
less than `Iterations` at a time, so that it still weighs something in any
average; and that a root that mixes has mass on some arm once it has arms. Of a
search it keeps which worker is where (`InPlace`), the incumbent of the prefix
scanned (`Ranking`) and that the result is an answer that the first root allows
for its leader (`Telling`). The scan stops at the leader that the caller would
compute for itself (`ScanEndsAtRootLeader`), so what is drawn, or is heaviest, is
an arm on which the reported policy puts mass (`PicksAreReported`,
`ExtractionIsReported`): `AnswerIsAlwaysReported`.

The merged strategy is computed in the code by a division per worker; the model
brings the quotients to one denominator, and so does the property, to another.
`TotalsOfTheHeard` says that each worker's denominator is its whole mass over the
legal arms, which is positive wherever it holds one, so no worker that is heard
is divided by zero; `SharesAreThePolicy` that what survives of its strategy is
the policy it would report; and `ProductOnWithout` takes one worker's denominator
out of the product of all. Two strategies with proportional numerators are equal:
`MergedStrategyIsTheMean`. With one worker the merge sums over one root
(`PooledOfOne`) in the order that the root has (`MergedOrderIs`), so its
candidates, its leader and its shares are the searcher's own
(`LeaderOfMore`, which allows for the choices that the root never met, and
`ScaledUpAgree`): `PoolOfOneEchoes`. `PoolInv` carries that from the merge on.

**Retention** (`RetentionProofs`), for games of any length, from
`RetentionInvariant`: until a move goes unreported the tree follows the game,
and nothing is armed after one has gone unreported.

**Pools** (`RootParallelProofs`), of any size. `NothingLeftArmed`: whatever ends
the call, a refusal on the pool's thread and a worker's panic included, no
worker's tree stays armed, because only a worker that has not started its search
can be armed and the call does not end before every worker has. `PoolInvariant`
adds that each tree has one child to a choice and visits only of children, and
that each result is justified by the tree it was read from: its answer leads
that tree, its reason is one that tree allows. From it, by the shape of `merge`
alone, `MergedAnswerAlwaysLeads`, `PoolOfOneAnswersAlike` (sums over one tree
are that tree's) and `ReasonIsAlwaysHonest`.

**Observers' trees** (`ObservedSearchProofs`), for any number of players, any
views and decks. The invariant has five parts: `Structure` (trees rooted
together, after as many moves, paths that stand at nodes they have),
`Describing` (what each tree describes, forced moves apart), `Warranted` (visits
of the mover's own moves within their opportunities, with one to spare along the
path that is yet to be credited), `Viewed` and `Answering`. They give
`TreesInStep`, `TreesDescribeThePosition`, `RatesAreRates`, `EachTreeSumsItsView`
and `ObservedAnswerLeads`. A panic between the mover's expansion and the others'
following leaves an opportunity without a visit, never the reverse, which is why
rates stay rates.

`Viewed` says of each tree and the bag of playouts it was shown (`Shows`) that a
node's visits and reward are sums over the playouts that pass through it as this
player sees them (`Share`), and one thing the property does not: that every
playout ends at a node the tree has. Nodes are closed under prefixes
(`PrefixClosed`), so nothing shown before passes through a node that is new, and
its zero visits are right. A backup adds one playout to the bag and credits the
prefixes of its path, which are just the nodes it passes through (`ShareGained`).
A re-rooting keeps the playouts that took the edge and cuts the first key of each,
so that what passes through a kept node is what passed through it before
(`KeptAt`, `ShareKept`, over `SumByGroups`: playouts that differ only in the
move that was cut fall together in the bag, and their counts add).

**Graphs** (`GraphSearchProofs`), of any game of sequential moves: any positions,
transpositions and cycles, keyed or not, with any number of choices each, and
any answer to `choices_fixed`. `GraphIsSound` keeps, of every vertex, that it is typed,
its key is none or its position's, and its links are distinct choices of its
position (`VertexOK`), all of them where it claims so, or at the root all that
the position searched offers (`KnownOK`); of every link, that it
is backed by opportunities and by its successor's visits and leads where its
choice does, never to the root (`LinkOK`); that every other vertex has a parent;
that the table is exact; and that no stamp is ahead of the counter. During a
descent, `PathOK`: the stamped vertices are the path, and every step could be
taken once more and led to a vertex of the path, so that the backup, which
credits each of them once, keeps every link backed. A re-rooting is the longest
step. What it keeps is the least closed set, so it excludes the root, which
nothing leads to, and each survivor but the new root has a parent among the
survivors, or the set without it would be closed too (`ReachableKept`). The
numbers are those of an arena, each vertex's own (`NumberingCounts`), and
clearing the links into the new root is what lets that vertex change the player
it counts for (`RerootedArena`). The six properties of the run follow.

**A simultaneous node** (`SimulNodeProofs`), with any number of players, of any
choices, however often the game panics. `NodeInvariant` keeps that the slots part
the array (`Layout`), that a slot's arms are distinct choices of its player
(`ArmsOK`), that a key is the arms it was packed from (`Names`), and the two sets
of books. A slot grows in the middle of the array, so the step that matters is
`ExpandSlot`: `GrownArray` says where each arm goes, `Spliced` that every slot
keeps its arms at the same distance from its start, and a key holds just those
distances. `PackedArms` is that unpacking inverts packing, which holds because no
slot has more arms than a field has values (`WidthBound`), so a key is one joint
choice's. The stamps are right because a node's visit count moves between any two
iterations that it records: nothing bears the count of an iteration about to
begin, until a panic leaves stamps and no visit. That a credited arm stays within
its opportunities needs the arms that were played to be among those stamped
(`TakenIsFresh`). The books agree because a backup adds one to one successor and
to the arms that it names, which are those it sums into (`TotalWithout`,
`TotalAgrees`).

**The tuner** (`TuneRunProofs`), for both strategies, any number of threads and
kills, any stream of draws and any run that may be asked for. The properties
speak of every generation there was, so the invariant does too. It has three
parts. First, the reports follow from one another: what is held after a
generation is a function (`OutcomeOf`) of what was held before it, and the
optimizer stays one of the run's strategy, size and scales (`SoundAt`,
`FollowsAt`, `Kin`). Second, what the process holds, and what the caller kept,
is what *some* generation left, not the last (`Holding`, `Kept`): a checkpoint
may be old by any number of generations, and a restored optimizer is the one
that was saved (`RestoredIsTheSame`), while a checkpoint of another run is
refused (`OtherIsRefused`). Third, during an evaluation, `Counting`: what the
threads have summed is the credit of the games claimed and in nobody's hand, and
no two threads hold one game. The three meet at the join: when every thread has
returned, all games were claimed and none is in hand, so the sums are those of
the whole list, whoever played what (`CountingEnds`), and the generation that is
told is the one `OutcomeOf` names. After a kill it was told before, and so is
told again alike. `GamesCountOnce` and `AnswerIsWhole` follow, the latter by
`TopIsFirstBest`: the answer kept so far is the first best of all places
(`AnswersAt`). `ScoresAreTheGenes` needs that the list is runs of consecutive
games, one per candidate (`BaselineAddsUp`), so a candidate's score is a
function of its genes and of the rounds.

`ResumedIsUninterrupted` is the refinement. `Tuning` measures a generation
matchup by matchup, `TuneRun` adds the credits of a job list; `MeasuresAgree`
says that these are the same numbers, in a round robin because the list holds
each pair of candidates once and each candidate is in one pair with each other
(`RoundRobinAddsUp`). A `TellGeneration` of a generation not told before is the
abstract `Generation`; one of a generation told before splices its own report
back into its place, which changes nothing (`Spliced`); every other step leaves
the reports alone. The operators that the two modules share are those of two
instances, so each is shown equal to its namesake (`AskAgrees`, `TellAgrees` and
their neighbours).

What a recursive definition computes for every input is out of reach of the
library's induction theorems, which take an operator as a parameter. Where a
proof needs no more than that a fact holds at each step, it takes a least
counterexample instead (`LeastNatural`, `MinimalSubset`): for sums
(`SumOfNaturals`, `SumsRecur`), for leaders, for what a walk leaves of a list
(`PassedSteps`), for the fields of a key (`FieldsRecur`, `ShiftsRecur`) and for
sums over parts of a set (`SumsOverPart`, `SumReindexed`, `SumByGroups`).

Every safety property of the passing runs is so proved for all values of the
constants. Only model-checked: liveness, `Termination` and `RunEnds`.

## Findings

1. `rank.rs`: NaN compares equal to everything, so it destroys the
   transitivity that the comments on `mean_cmp` and `beats` rely on. TLC's list
   is `<<NaN, x, y>>`, each visited twice: the NaN candidate, available three
   times, is the first incumbent; `x`, with mean 1 and available three times,
   ties with it on the mean and on the rate and does not replace it; `y`, with
   mean 0 and available twice, ties on the mean and replaces it on the rate. The
   scan ends with `y`, which `x` outranks. Rewards are not checked (`early_stop.rs` records why), so a game can pay one.
2. `observed/search.rs`: a forced move returns before trees that are not armed
   are reset. The next `reuse_subtree`, used as its doc asks, re-roots and arms
   trees of an earlier position. `Searcher` avoids this deliberately, and says
   so.
3. `node.rs`: an arm is legal if its stamp is its node's visit count. An
   iteration that panics leaves stamps and no visit; if the caller catches the
   panic and re-roots into the subtree, the next iteration reads them as its
   own, and may play what its world does not offer. The next record of the node
   ends it (`StampsAreTheOffer`).

Two remarks without a run. The doc of `Searcher::search` (`search.rs:803`)
promises the most visited root choice. The answer is the best mean over the
evidence bar, as `rank.rs` documents at length; the sentence is out of date. And
`merged_stop_reason` (`parallel.rs:566`) is documented as the most informative
reason any worker stopped for, but where no worker visited a legal choice the
merge returns the first worker's result (`parallel.rs:534`) with that worker's
reason, whatever the others stopped for; `MergedReasonIsHonest` says what may
still be relied on.

## What is left

To model: simultaneous vertices and `reuse_joint` in `GraphSearch`; the levels
of a sequential tree below its root as a module of their own, whose rule
`GraphSearch` and `ObservedSearch` follow already.

## Not modelled

* The graph searcher's loop, proof and answer: they are copies of the tree's,
  which `RootSearch` and `MarginalAnswer` model.
* Regrets, UCB1 values, the covariance of CMA-ES and its eigensolver
  (`eigen.rs`): floating-point arithmetic. The modules keep what their results
  decide and leave the value open, or reduce it to whole numbers. For the same
  reason the rounding of the arena's sums is not modelled.
* `graph/view.rs` and the other accessors: they only read.
* `util.rs`: a hash finds what it would find; a uniform draw is a
  nondeterministic choice.
* The game: rewards, worlds and rollouts are inputs.
