----------------------------- MODULE GraphSearch -----------------------------
(***************************************************************************)
(* GraphSearcher (src/graph/search.rs, src/graph/node.rs) over a game      *)
(* whose positions can be reached by more than one route and more than     *)
(* once: the arena of vertices, the links between them, the table that     *)
(* finds a vertex by key and mover, the path stamps that notice a          *)
(* repetition, and the re-rooting that renumbers it all.                   *)
(*                                                                         *)
(* The game is given by its positions.  Keys are kept to their contract: a *)
(* position has a key of its own, or none.  A position stands for whatever *)
(* worlds a search takes it for: its choices are those of all of them, and *)
(* what it offers when it is searched, and in one world, is some of them.  *)
(* Each vertex carries, besides what the code keeps, the position it was   *)
(* made for, which the properties are about.  Rewards are left out and UCB *)
(* is what `select` guarantees: an available link never taken, the first   *)
(* of them, or else any available one.  A vertex is a sequential one;      *)
(* simultaneous vertices are not here.                                     *)
(***************************************************************************)
EXTENDS Naturals, Sequences, FiniteSets, SequencesExt, Functions

CONSTANTS
  Position,       (* every position of the game                             *)
  Choice,         (* every choice of any position                           *)
  Move,           (* where a choice leads: a function from the pairs of a   *)
                  (* position and a choice it may offer                     *)
  PlayerAt,       (* the player to act at each position                     *)
  Keyless,        (* positions whose transposition_key is None              *)
  Start,          (* the position of the first search                       *)
  ChoicesFixed,   (* what games answer to choices_fixed: the positions for  *)
                  (* which it is true at a root, and below one              *)
  MaxStamp,       (* u32::MAX, after which stamps wrap                      *)
  MaxIterations,  (* bound on the iterations of all the searches            *)
  MaxSearches,    (* bound on the searches                                  *)
  None            (* UNRESOLVED, and the key of a vertex that has none      *)

ChoicesInto(p) == {c \in Choice : <<p, c>> \in DOMAIN Move}
Terminal(p) == ChoicesInto(p) = {}

ASSUME GraphSearchAssumption ==
  /\ DOMAIN Move \subseteq Position \X Choice
  /\ Range(Move) \subseteq Position
  /\ DOMAIN PlayerAt = Position
  /\ Start \in Position /\ ~Terminal(Start)
  /\ \A p \in Position : IsFiniteSet(ChoicesInto(p))
  /\ ChoicesFixed \subseteq [root : SUBSET Position, below : SUBSET Position]
  /\ MaxStamp \in Nat \ {0}
  /\ None \notin Position \cup Nat

VARIABLES
  here,       (* the position the search was called on                      *)
  offers,     (* the choices it offers                                      *)
  fixed,      (* the game's choices_fixed                                   *)
  vertices,   (* Graph::vertices, the root first                            *)
  table,      (* Graph::table: the vertices that can be found by key        *)
  stamp,      (* Graph::stamp                                               *)
  pc,         (* where the iteration is                                     *)
  state,      (* Scratch::state, the position the descent has reached       *)
  path,       (* Scratch::path                                              *)
  steps,      (* Scratch::steps                                             *)
  iterations, (* iterations so far                                          *)
  searches    (* searches so far                                            *)

graph == <<vertices, table, stamp>>
descent == <<state, path, steps>>
game == <<here, offers, fixed>>
vars == <<game, graph, pc, descent, iterations, searches>>

Root == 1

NewVertex(position, player, key) ==
  [position |-> position, player |-> player, key |-> key,
   visits |-> 0, stamp |-> 0, links |-> <<>>, linksMatchChoices |-> FALSE]

(* A link is pushed with the opportunity it was made at. *)
NewLink(choice) ==
  [choice |-> choice, target |-> None, visits |-> 0, timesAvailable |-> 1]

(* What a position may offer the player to act, if its worlds may differ.   *)
Offers(p) == IF p \in fixed.below THEN {ChoicesInto(p)} ELSE (SUBSET ChoicesInto(p)) \ {{}}

(* A graph of one unmerged root; the search makes it once it has a choice.  *)
FreshGraph(position) ==
  /\ vertices' = <<NewVertex(position, PlayerAt[position], None)>>
  /\ table' = {}
  /\ stamp' = 1

Init ==
  /\ here = Start
  /\ fixed \in ChoicesFixed
  /\ offers \in Offers(here)
  /\ vertices = <<NewVertex(Start, PlayerAt[Start], None)>>
  /\ table = {}
  /\ stamp = 1
  /\ pc = "idle"
  /\ state = Start
  /\ path = <<>>
  /\ steps = <<>>
  /\ iterations = 0
  /\ searches = 1

-----------------------------------------------------------------------------

(* A mutant: stamps are reissued while vertices still hold them. *)
StampsKept(s) == vertices

(* next_stamp: on wrapping, no vertex keeps a stamp that may come again. *)
StampsCleared(s) ==
  IF s = MaxStamp
  THEN [v \in DOMAIN vertices |-> [vertices[v] EXCEPT !.stamp = 0]]
  ELSE vertices

(* A search of a position with a single choice returns before this.         *)
BeginIteration ==
  /\ pc = "idle" /\ Cardinality(offers) > 1
  /\ iterations < MaxIterations
  /\ pc' = "descend"
  /\ stamp' = IF stamp = MaxStamp THEN 1 ELSE stamp + 1
  /\ vertices' = [StampsCleared(stamp) EXCEPT ![Root].stamp = stamp']
  /\ path' = <<Root>>
  /\ steps' = <<>>
  /\ state' = here
  /\ UNCHANGED <<game, table, iterations, searches>>

ReachTerminal ==
  /\ pc = "descend" /\ Terminal(state)
  /\ pc' = "backup"
  /\ UNCHANGED <<game, graph, descent, iterations, searches>>

-----------------------------------------------------------------------------

(* Game::choices_fixed, asked where the descent is.                         *)
Fixed(v) == state \in IF v = Root THEN fixed.root ELSE fixed.below

(* What the world offers there: at a root whose choices are fixed, what the *)
(* position searched offers.                                                *)
Offered(v) == IF v = Root /\ Fixed(v) THEN {offers} ELSE Offers(state)

Count(links, offered) ==
  [i \in DOMAIN links |-> IF links[i].choice \in offered
                          THEN [links[i] EXCEPT !.timesAvailable = @ + 1]
                          ELSE links[i]]

(* Mutants: one choice may be without a link after one was opened; and a    *)
(* link may be to a choice that the position does not offer.                *)
EveryChoiceLinkedButOne(isRoot, unseen) == isRoot \/ Cardinality(unseen) <= 2
EveryLinkAssumed(linked, offered) == TRUE

EveryChoiceLinked(isRoot, unseen) == isRoot \/ Cardinality(unseen) <= 1

EveryLinkIsAChoice(linked, offered) == linked \subseteq offered

(* Vertex::expand: an opportunity for every link the world offers, a link   *)
(* for every other choice at the root, for one of them elsewhere.           *)
Expanded(v, offered) ==
  LET vertex == vertices[v]
      linked == {vertex.links[i].choice : i \in DOMAIN vertex.links}
      unseen == offered \ linked
      opened == IF v = Root THEN SetToSeqs(unseen)
                ELSE IF unseen = {} THEN {<<>>}
                ELSE {<<c>> : c \in unseen}
  IN  { [vertex EXCEPT
           !.links = Count(vertex.links, offered) \o [j \in DOMAIN new |-> NewLink(new[j])],
           !.linksMatchChoices = /\ Fixed(v)
                                 /\ EveryChoiceLinked(v = Root, unseen)
                                 /\ EveryLinkIsAChoice(linked, offered)]
        : new \in opened }

(* A vertex whose links are known to be its choices is not enumerated. *)
Enumerated(v, offered) ==
  IF vertices[v].linksMatchChoices
  THEN {[vertices[v] EXCEPT !.links = Count(vertices[v].links, Choice)]}
  ELSE Expanded(v, offered)

(* select: the first available link never taken, or else any available one. *)
Selectable(links, available) ==
  LET untaken == {i \in available : links[i].visits = 0}
  IN  IF untaken = {} THEN available
      ELSE {i \in untaken : \A j \in untaken : i <= j}

Key(position) == IF position \in Keyless THEN None ELSE position

(* A mutant: a vertex is found by its key whoever moved into it. *)
LookupByKey(key, player) == {t \in table : vertices[t].key = key}

Lookup(key, player) ==
  {t \in table : vertices[t].key = key /\ vertices[t].player = player}

(* resolve: the vertex merged under the key for this mover, or a new one;   *)
(* a link that was taken before leads where it led.                         *)
Successor(link, position, mover) ==
  IF link.target # None THEN {link.target}
  ELSE IF Key(position) # None /\ Lookup(Key(position), mover) # {}
  THEN Lookup(Key(position), mover)
  ELSE {Len(vertices) + 1}

(* A vertex with the current stamp is on this iteration's path. *)
Repeats(vertex) == vertex.stamp = stamp

(* The arena once link i of a vertex at v, as enumerated, leads to target. *)
Linked(v, vertex, i, target, successor) ==
  LET link   == [vertex.links[i] EXCEPT !.target = target]
      linked == [vertices EXCEPT ![v] = [vertex EXCEPT !.links[i] = link]]
  IN  IF target > Len(vertices) THEN Append(linked, successor) ELSE linked

(* One level of run_iteration, below the choice of link i out of v. *)
Take(v, vertex, i, position) ==
  \E target \in Successor(vertex.links[i], position, PlayerAt[state]) :
    LET successor == NewVertex(position, PlayerAt[state], Key(position))
        arena     == Linked(v, vertex, i, target, successor)
    IN  /\ state' = position
        /\ steps' = Append(steps, i)
        /\ table' = IF target > Len(vertices) /\ Key(position) # None
                    THEN table \cup {target} ELSE table
        /\ IF Repeats(arena[target])
           THEN /\ vertices' = arena
                /\ path' = path
                /\ pc' = "backup"
           ELSE /\ vertices' = [arena EXCEPT ![target].stamp = stamp]
                /\ path' = Append(path, target)
                /\ pc' = IF arena[target].visits = 0 THEN "backup" ELSE "descend"

Descend ==
  /\ pc = "descend" /\ ~Terminal(state)
  /\ LET v == Last(path)
     IN  \E offered \in Offered(v) : \E vertex \in Enumerated(v, offered) :
           LET available == {i \in DOMAIN vertex.links :
                               \/ vertices[v].linksMatchChoices
                               \/ vertex.links[i].choice \in offered}
           IN  \E i \in Selectable(vertex.links, available) :
                 Take(v, vertex, i, Move[<<state, vertex.links[i].choice>>])
  /\ UNCHANGED <<game, stamp, iterations, searches>>

(* How often the path has entered a vertex, and taken link i out of it. *)
Entered(v) == Cardinality({d \in DOMAIN path : path[d] = v})
Taken(v, i) == Cardinality({d \in DOMAIN steps : path[d] = v /\ steps[d] = i})

Credited(v) ==
  [vertices[v] EXCEPT
     !.visits = @ + Entered(v),
     !.links  = [i \in DOMAIN vertices[v].links |->
                   [vertices[v].links[i] EXCEPT !.visits = @ + Taken(v, i)]]]

(* back_propagate: every vertex of the path and every link taken out of it. *)
BackUp ==
  /\ pc = "backup"
  /\ pc' = "idle"
  /\ vertices' = [v \in DOMAIN vertices |-> Credited(v)]
  /\ iterations' = iterations + 1
  /\ path' = <<>> /\ steps' = <<>> /\ state' = here
  /\ UNCHANGED <<game, table, stamp, searches>>

-----------------------------------------------------------------------------

Targets(v) ==
  {vertices[v].links[i].target : i \in DOMAIN vertices[v].links} \ {None}

Closed(S) == \A u \in S : Targets(u) \subseteq S

(* The vertices a breadth-first walk from v comes to: the least set that    *)
(* holds v and whatever its members lead to.                                *)
Reachable(v) ==
  {u \in DOMAIN vertices :
     \A S \in SUBSET DOMAIN vertices : v \in S /\ Closed(S) => u \in S}

(* Mutants: a link into the new root is left; or cleared with its visits    *)
(* left; the old root stays in the table of what can be found.              *)
ClearLinkNever(link) == link
ClearLinkTarget(link) == IF link.target = Root THEN [link EXCEPT !.target = None] ELSE link
RebuiltTableWithRoot(arena) == {v \in DOMAIN arena : arena[v].key # None}

(* Nothing reads the root as a successor: it accumulates another player.    *)
ClearLink(link) ==
  IF link.target = Root THEN [link EXCEPT !.target = None, !.visits = 0] ELSE link

RebuiltTable(arena) == {v \in DOMAIN arena \ {Root} : arena[v].key # None}

Renumbered(link, number) ==
  IF link.target = None THEN link ELSE [link EXCEPT !.target = number[link.target]]

(* The root first.  The code numbers the others as it finds them, here they *)
(* keep their order: nothing reads a number for more than whose it is.      *)
Numbering(kept, new) ==
  [v \in kept |-> IF v = new THEN Root
                  ELSE Root + Cardinality({u \in kept \ {new} : u <= v})]

Moved(vertex, number, isRoot) ==
  [vertex EXCEPT
     !.links = [i \in DOMAIN vertex.links |-> ClearLink(Renumbered(vertex.links[i], number))],
     !.linksMatchChoices = @ /\ ~isRoot,
     !.player = IF isRoot THEN PlayerAt[vertex.position] ELSE @]

(* reroot: what the new root reaches, renumbered. *)
Rerooted(new) ==
  LET kept   == Reachable(new)
      number == Numbering(kept, new)
  IN  [n \in 1..Cardinality(kept) |->
         Moved(vertices[CHOOSE v \in kept : number[v] = n], number, n = Root)]

(* The game goes on, the move is reported by reuse_subtree, and the next    *)
(* search begins: on the graph re-rooted, or on a fresh one where the root  *)
(* never took the choice.                                                   *)
PlayAndReuse(choice) ==
  /\ pc = "idle"
  /\ searches < MaxSearches
  /\ here' = Move[<<here, choice>>]
  /\ ~Terminal(here')
  /\ offers' \in Offers(here')
  /\ LET taken == {i \in DOMAIN vertices[Root].links :
                     /\ vertices[Root].links[i].choice = choice
                     /\ vertices[Root].links[i].target # None}
     IN  IF taken = {} THEN FreshGraph(here')
         ELSE /\ \E i \in taken : vertices' = Rerooted(vertices[Root].links[i].target)
              /\ table' = RebuiltTable(vertices')
              /\ stamp' = stamp
  /\ searches' = searches + 1
  /\ state' = here'
  /\ UNCHANGED <<fixed, pc, path, steps, iterations>>

Next ==
  \/ BeginIteration
  \/ ReachTerminal
  \/ Descend
  \/ BackUp
  \/ \E choice \in offers : PlayAndReuse(choice)

Spec == Init /\ [][Next]_vars

-----------------------------------------------------------------------------

(* The stamps are the path: a vertex holds the current stamp exactly when   *)
(* the descent has entered it, it is entered once, and stamps that wrapped  *)
(* or were kept through a re-rooting are never mistaken for this path's.    *)
StampsAreThePath ==
  pc # "idle" =>
    /\ IsInjective(path)
    /\ \A v \in DOMAIN vertices : vertices[v].stamp = stamp <=> v \in Range(path)
    /\ Len(steps) \in {Len(path) - 1, Len(path)}

(* A link leads to the vertex of the position its choice leads to, kept for *)
(* the player who makes that choice, through merges and renumberings; the   *)
(* descent is at the position of the vertex it is at.                       *)
LinksLeadWhereChoicesDo ==
  /\ \A v \in DOMAIN vertices : \A i \in DOMAIN vertices[v].links :
       LET link   == vertices[v].links[i]
           target == vertices[link.target]
       IN  link.target # None =>
             /\ target.position = Move[<<vertices[v].position, link.choice>>]
             /\ target.player = PlayerAt[vertices[v].position]
  /\ vertices[Root].position = here
  /\ pc = "descend" => state = vertices[Last(path)].position

(* Every position that can be merged is merged: the table finds each keyed  *)
(* vertex but the root, and no two vertices under one key and mover.        *)
TableIsExact ==
  /\ table = {v \in DOMAIN vertices \ {Root} : vertices[v].key # None}
  /\ \A v, w \in table :
       vertices[v].key = vertices[w].key /\ vertices[v].player = vertices[w].player => v = w

(* The root is nobody's successor, and every other vertex is somebody's: a  *)
(* re-rooting keeps neither a way back to the root nor a lost position.     *)
RootAloneHasNoParent ==
  {Root} = DOMAIN vertices \ UNION {Targets(v) : v \in DOMAIN vertices}

(* A link's visits are evidence: it was offered as often, its successor was *)
(* credited as often, and so no mean is read off a vertex without visits    *)
(* nor off a successor not resolved.                                        *)
VisitedLinksHaveEvidence ==
  \A v \in DOMAIN vertices : \A i \in DOMAIN vertices[v].links :
    LET link == vertices[v].links[i]
    IN  link.visits > 0 =>
          /\ link.visits <= link.timesAvailable
          /\ link.target # None
          /\ link.visits <= vertices[link.target].visits

(* A vertex that is descended without asking for its choices has exactly    *)
(* them, each once: at the root those of the position that is searched,     *)
(* whatever other worlds offered before it was the root.                    *)
KnownChoicesAreTheChoices ==
  \A v \in DOMAIN vertices :
    LET choices == [i \in DOMAIN vertices[v].links |-> vertices[v].links[i].choice]
    IN  /\ IsInjective(choices)
        /\ vertices[v].linksMatchChoices =>
             Range(choices) = IF v = Root THEN offers ELSE ChoicesInto(vertices[v].position)
=============================================================================
