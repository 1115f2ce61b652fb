--------------------------- MODULE ObservedSearch ---------------------------
(***************************************************************************)
(* ObservedSearcher (src/observed/search.rs, src/observed/node.rs): one    *)
(* tree for each player, whose edges are moves as that player observes     *)
(* them.  Every iteration samples one world; each mover chooses from its   *)
(* own tree, and every other tree follows under its own key.  Between      *)
(* searches the trees are kept, re-rooted under each player's key for the  *)
(* move, or dropped.                                                       *)
(*                                                                         *)
(* A position is what is hidden from everyone, the deck, and the moves     *)
(* made: who is to act depends on their number alone, as the contract of   *)
(* determinize_into asks, what is offered on the deck too.  A tree is a    *)
(* function from the key paths that have a node.                           *)
(*                                                                         *)
(* The caller keeps the contract of reuse_subtree: the state it passes is  *)
(* the one it passed to search, or the one the last report led to.         *)
(***************************************************************************)
EXTENDS Rank, Sequences, SequencesExt, Bags

CONSTANTS
  Player,        (* the seats                                               *)
  Move,          (* the moves of the game                                   *)
  View,          (* View[p][m]: how p observes another player's move m      *)
  Deck,          (* what no player knows                                    *)
  Turn(_),       (* who is to act after that many moves: the contract asks  *)
                 (* only that worlds agree on it wherever a node is reached *)
  Offered(_, _), (* Offered(deck, line): the choices, in their order        *)
  Ends(_),       (* the moves after which the game of a deck is over        *)
  MaxMoves,      (* the most moves a game has                               *)
  Outcome(_),    (* the rewards of a line that ends the game                *)
  Payoff,        (* the rewards a rollout may pay                           *)
  Floor,         (* Rewards::uniform(min_reward)                            *)
  Target,        (* Config::iterations                                      *)
  MaxSearches,   (* bound on the searches of a run                          *)
  MeanScale,     (* a multiple of every count of visits                     *)
  None           (* a placeholder's position; no answer, no search yet      *)

Key == Move \union UNION { {View[p][m] : m \in Move} : p \in Player }

Line == UNION {[1..n -> Move] : n \in 0..MaxMoves}

ASSUME ObservedAssumption ==
  /\ Player \subseteq Nat /\ DOMAIN View = Player /\ MaxMoves \in Nat
  /\ \A n \in 0..MaxMoves : Turn(n) \in Player
  /\ \A d \in Deck : Ends(d) \in 0..MaxMoves
  /\ \A d \in Deck, l \in Line : Offered(d, l) \in Seq(Move)
  /\ None \notin Seq(Key)
  /\ Payoff \subseteq [Player -> Nat] /\ Floor \in [Player -> Nat]
  /\ \A d \in Deck, l \in Line : Len(l) >= Ends(d) => Outcome(l) \in [Player -> Nat]
  /\ Target \in Nat \ {0} /\ MeanScale \in Nat
  /\ \A n \in 1..(2 * Target) : MeanScale % n = 0

VARIABLES
  position,  (* the real game: its deck and the moves made                  *)
  pc,        (* "idle", "loop", "descend", "rollout"                        *)
  trees,     (* ObservedSearcher::trees                                     *)
  armed,     (* ObservedSearcher::tree_is_current                           *)
  world,     (* Scratch::state                                              *)
  paths,     (* Scratch::paths, by keys instead of indices                  *)
  answer,    (* the SearchResult of the search that has just returned       *)
  searches,
  (* Of the rest only properties and the caller's contract read.            *)
  playouts,  (* what each tree has been shown since it was rooted           *)
  reported,  (* no move went unreported since the last search returned      *)
  grown,     (* what the last search's trees described when it began        *)
  spared     (* a forced move spared trees that were not armed, and no      *)
             (* search has dropped them since                               *)

vars == <<position, pc, trees, armed, world, paths, answer, searches,
          playouts, reported, grown, spared>>
scratch == <<world, paths>>
ghosts  == <<reported, grown, spared>>

(* An observer's key for a move; a player knows its own.                    *)
ObservedKey(observer, mover, m) == IF observer = mover THEN m ELSE View[observer][m]

(* What an observer has seen of a line of which the first move was made     *)
(* when `from` others had been.                                             *)
Seen(observer, line, from) ==
  [i \in DOMAIN line |-> ObservedKey(observer, Turn(from + i - 1), line[i])]

Mover(p) == Turn(Len(p.line))
Over(p)  == Len(p.line) >= Ends(p.deck)
Legal(p) == Offered(p.deck, p.line)
After(p, m) == [p EXCEPT !.line = Append(@, m)]

Elements(s) == {s[i] : i \in DOMAIN s}

(* The positions that determinize_into may sample: what the player has      *)
(* observed is left as it is, everything else may differ.                   *)
Possible(p) ==
  /\ Len(p.line) <= Ends(p.deck)
  /\ \A i \in DOMAIN p.line :
       p.line[i] \in Elements(Offered(p.deck, SubSeq(p.line, 1, i - 1)))
Worlds(p, observer) ==
  {w \in [deck : Deck, line : {l \in Line : Len(l) = Len(p.line)}] :
     /\ Possible(w)
     /\ Seen(observer, w.line, 0) = Seen(observer, p.line, 0)}

-----------------------------------------------------------------------------
(* A tree: what it describes, and its nodes.                                *)

Root == <<>>

NewNode(player) ==
  [visits |-> 0, available |-> 1, reward |-> 0, player |-> player, children |-> <<>>]

NewRoot(about, player) == [about |-> about, nodes |-> [at \in {Root} |-> NewNode(player)]]

Placeholder == NewRoot(None, 0)

Children(nodes, path) == nodes[path].children

(* push_child for each of some keys, each new child a node of its own.      *)
Pushed(nodes, path, keys, node) ==
  LET new == {Append(path, k) : k \in Elements(keys)}
  IN  [at \in DOMAIN nodes \union new |->
         IF at \in new THEN node
         ELSE IF at = path THEN [nodes[at] EXCEPT !.children = @ \o keys]
         ELSE nodes[at]]

(* Mutant of PushChildren: they are of the player before.                   *)
PushChildrenOfParent(nodes, path, keys, player) ==
  Pushed(nodes, path, keys, NewNode(nodes[path].player))

(* The new children are the last ones.                                      *)
PushChildren(nodes, path, keys, player) == Pushed(nodes, path, keys, NewNode(player))

(* The trees that do not choose: a scaffold, if the edge is new.            *)
FindOrPush(nodes, path, key, player) ==
  IF key \in Elements(Children(nodes, path)) THEN nodes
  ELSE PushChildren(nodes, path, <<key>>, player)

(* Mutant of Counted: only what the root is offered is counted.             *)
CountedAtRoot(nodes, path, keys) ==
  [at \in DOMAIN nodes |->
     IF path = Root /\ at \in {<<k>> : k \in Elements(keys) \intersect Elements(Children(nodes, path))}
     THEN [nodes[at] EXCEPT !.available = @ + 1] ELSE nodes[at]]

(* Each known child that is legal now has had one more opportunity.         *)
Counted(nodes, path, keys) ==
  [at \in DOMAIN nodes |->
     IF at \in {Append(path, k) : k \in Elements(keys) \intersect Elements(Children(nodes, path))}
     THEN [nodes[at] EXCEPT !.available = @ + 1] ELSE nodes[at]]

(* The elements of s that are not in S, each once, in their order.          *)
Without(s, S) ==
  LET kept[i \in 0..Len(s)] ==
        IF i = 0 THEN << >>
        ELSE IF s[i] \notin S \union Elements(kept[i - 1])
             THEN Append(kept[i - 1], s[i]) ELSE kept[i - 1]
  IN  kept[Len(s)]

Unseen(nodes, path, keys) == Without(keys, Elements(Children(nodes, path)))

(* The root grows a child for every key, another node for one of those it   *)
(* has not seen, whichever the reservoir keeps.                             *)
Expanded(nodes, path, keys, player) ==
  LET counted == Counted(nodes, path, keys)
      unseen  == Unseen(nodes, path, keys)
  IN  IF path = Root \/ unseen = <<>>
      THEN {PushChildren(counted, path, unseen, player)}
      ELSE {PushChildren(counted, path, <<k>>, player) : k \in Elements(unseen)}

(* The places of the children that are legal now.                           *)
Available(nodes, path, keys) ==
  {i \in DOMAIN Children(nodes, path) : Children(nodes, path)[i] \in Elements(keys)}

(* The first legal child without a visit, or else any legal one: UCB1 is    *)
(* over reals, and which it prefers is left open.                           *)
Selectable(nodes, path, keys) ==
  LET child     == Children(nodes, path)
      legal     == Available(nodes, path, keys)
      unvisited == {i \in legal : nodes[Append(path, child[i])].visits = 0}
  IN  {child[i] : i \in IF unvisited # {} THEN {Min(unvisited)} ELSE legal}

(* The path's nodes are credited, each with its own player's payoff.        *)
BackedUp(nodes, path, rewards) ==
  [at \in DOMAIN nodes |->
     IF IsPrefix(at, path)
     THEN [nodes[at] EXCEPT !.visits = @ + 1, !.reward = @ + rewards[nodes[at].player]]
     ELSE nodes[at]]

(* The child's subtree, the child now its root.                             *)
RerootAt(nodes, key) ==
  LET kept == {at \in DOMAIN nodes : at # Root /\ at[1] = key}
  IN  [at \in {Tail(k) : k \in kept} |->
         IF at = Root THEN [nodes[<<key>>] EXCEPT !.available = 1]
                      ELSE nodes[<<key>> \o at]]

-----------------------------------------------------------------------------

Init ==
  /\ position \in {[deck |-> d, line |-> <<>>] : d \in Deck}
  /\ pc = "idle"
  /\ trees = [p \in Player |-> Placeholder]
  /\ armed = FALSE
  /\ world = None /\ paths = [p \in Player |-> Root]
  /\ answer = None /\ searches = 0
  /\ playouts = [p \in Player |-> EmptyBag]
  /\ reported = TRUE /\ grown = None /\ spared = FALSE

(* A config or a status that is refused, or a perspective that is not the   *)
(* actor's, or a position whose choices cannot be read: the trees stay.     *)
Refuse ==
  /\ pc = "idle"
  /\ armed' = FALSE /\ answer' = None
  /\ UNCHANGED <<position, pc, trees, scratch, searches, playouts, ghosts>>

(* The return of a forced move is above the reset.                          *)
ForcedMove ==
  /\ pc = "idle" /\ ~Over(position) /\ Len(Legal(position)) = 1
  /\ armed' = FALSE /\ answer' = None /\ reported' = TRUE
  /\ spared' = (spared \/ (~armed /\ ~reported))
  /\ UNCHANGED <<position, pc, trees, scratch, searches, playouts, grown>>

(* Mutant of Started: the trees are continued, re-rooted or not.            *)
StartedAsKept(p) == trees[p]

(* Trees that were re-rooted are continued, their roots' rewards, another    *)
(* player's so far, from nothing; or else every tree is begun.              *)
Started(p) ==
  IF armed
  THEN [trees[p] EXCEPT !.nodes[Root].player = Mover(position), !.nodes[Root].reward = 0]
  ELSE NewRoot(Seen(p, position.line, 0), Mover(position))

Begin ==
  /\ pc = "idle" /\ searches < MaxSearches
  /\ ~Over(position) /\ Len(Legal(position)) > 1
  /\ pc' = "loop" /\ searches' = searches + 1
  /\ trees' = [p \in Player |-> Started(p)]
  /\ playouts' = IF armed THEN playouts ELSE [p \in Player |-> EmptyBag]
  /\ grown' = [p \in Player |-> trees'[p].about]
  /\ spared' = (spared /\ armed)
  /\ armed' = FALSE /\ answer' = None /\ reported' = TRUE
  /\ UNCHANGED <<position, scratch>>

-----------------------------------------------------------------------------
(* One iteration, a level of the descent at a time.                         *)

Perspective == Mover(position)

Determinize ==
  /\ pc = "loop" /\ trees[Perspective].nodes[Root].visits < Target
  /\ world' \in Worlds(position, Perspective)
  /\ paths' = [p \in Player |-> Root]
  /\ pc' = "descend"
  /\ UNCHANGED <<position, trees, armed, answer, searches, playouts, ghosts>>

(* The other trees follow under their own keys, new children and all.       *)
Followed(p, mover, m) ==
  [trees[p] EXCEPT !.nodes =
     FindOrPush(@, paths[p], ObservedKey(p, mover, m), mover)]

Descending == pc = "descend" /\ ~Over(world) /\ Legal(world) # <<>>

OwnKeys(p, legal) == [i \in DOMAIN legal |-> ObservedKey(p, p, legal[i])]

ExpandedForMover ==
  LET mover == Mover(world)
  IN  Expanded(trees[mover].nodes, paths[mover], OwnKeys(mover, Legal(world)), mover)

(* The mover expands its own tree, chooses from it, and all trees follow.   *)
Descend ==
  /\ Descending
  /\ LET mover == Mover(world)
     IN  \E nodes \in ExpandedForMover :
           \E m \in Selectable(nodes, paths[mover], OwnKeys(mover, Legal(world))) :
             /\ trees' = [p \in Player |->
                            IF p = mover THEN [trees[p] EXCEPT !.nodes = nodes]
                                         ELSE Followed(p, mover, m)]
             /\ paths' = [p \in Player |-> Append(paths[p], ObservedKey(p, mover, m))]
             /\ world' = After(world, m)
             /\ pc' = IF nodes[Append(paths[mover], m)].visits = 0 THEN "rollout" ELSE "descend"
  /\ UNCHANGED <<position, armed, answer, searches, playouts, ghosts>>

(* Every tree's path is credited.                                           *)
BackUp(rewards) ==
  /\ trees' = [p \in Player |-> [trees[p] EXCEPT !.nodes = BackedUp(@, paths[p], rewards)]]
  /\ playouts' = [p \in Player |->
       playouts[p] (+)
         SetToBag({[line    |-> SubSeq(world.line, Len(position.line) + 1, Len(world.line)),
                    rewards |-> rewards]})]
  /\ pc' = "loop" /\ world' = None /\ paths' = [p \in Player |-> Root]
  /\ UNCHANGED <<position, armed, answer, searches, ghosts>>

(* A new leaf is rolled out, a world that is over pays what it pays, and    *)
(* one that offers its mover nothing pays the floor.                        *)
EndIteration ==
  \/ pc = "rollout" /\ \E rewards \in Payoff : BackUp(rewards)
  \/ pc = "descend" /\ Over(world) /\ BackUp(Outcome(world.line))
  \/ pc = "descend" /\ ~Over(world) /\ Legal(world) = <<>> /\ BackUp(Floor)

CandidateOf(child, choice) ==
  [visits         |-> child.visits,
   timesAvailable |-> child.available,
   mean           |-> IF child.visits = 0 THEN 0
                      ELSE (child.reward * MeanScale) \div child.visits,
   choice         |-> choice]

CandidatesAt(places) ==
  LET root == trees[Perspective].nodes
  IN  [i \in places |->
         CandidateOf(root[<<Children(root, Root)[i]>>], Children(root, Root)[i])]

(* Mutant of Candidates: every child the sampled worlds have grown.         *)
CandidatesGrown == CandidatesAt(DOMAIN Children(trees[Perspective].nodes, Root))

(* The root's children whose keys the position's choices have.              *)
Candidates ==
  CandidatesAt(Available(trees[Perspective].nodes, Root,
                         OwnKeys(Perspective, Legal(position))))

(* What search returns: the leader, or a choice drawn when none was visited.*)
Answered ==
  IF HasLeader(Candidates)
  THEN {[choice |-> Candidates[Leader(Candidates)].choice,
         visits |-> Candidates[Leader(Candidates)].visits]}
  ELSE {[choice |-> m, visits |-> 0] : m \in Elements(Legal(position))}

(* The budget is spent, or a cancellation or the deadline comes before it.  *)
Finish ==
  /\ pc = "loop"
  /\ answer' \in Answered
  /\ pc' = "idle"
  /\ UNCHANGED <<position, trees, armed, scratch, searches, playouts, ghosts>>

(* The game panics and the caller catches it: when nothing has changed      *)
(* since the last step, or when the mover's tree has been expanded and the  *)
(* others have not followed.                                                *)
Panic ==
  /\ pc # "idle"
  /\ \/ UNCHANGED trees
     \/ /\ Descending
        /\ \E nodes \in ExpandedForMover :
             trees' = [trees EXCEPT ![Mover(world)].nodes = nodes]
  /\ pc' = "idle" /\ world' = None /\ paths' = [p \in Player |-> Root]
  /\ UNCHANGED <<position, armed, answer, searches, playouts, ghosts>>

-----------------------------------------------------------------------------
(* Between searches.                                                        *)

Dropped ==
  /\ trees' = [p \in Player |-> Placeholder]
  /\ playouts' = [p \in Player |-> EmptyBag]
  /\ armed' = FALSE

ClearTree ==
  /\ pc = "idle"
  /\ Dropped /\ answer' = None
  /\ UNCHANGED <<position, pc, scratch, searches, ghosts>>

Play(m) ==
  /\ pc = "idle" /\ ~Over(position) /\ m \in Elements(Legal(position))
  /\ position' = After(position, m) /\ answer' = None

Rerooted(p, m) ==
  LET key == ObservedKey(p, Mover(position), m)
  IN  [about |-> Append(trees[p].about, key), nodes |-> RerootAt(trees[p].nodes, key)]

(* The playouts a tree keeps: those that took the edge it is re-rooted at.  *)
Kept(p, m) ==
  LET own   == Mover(position)
      alike == {q \in DOMAIN playouts[p] :
                  q.line # <<>> /\ ObservedKey(p, own, q.line[1]) = ObservedKey(p, own, m)}
      cut(q) == [q EXCEPT !.line = Tail(@)]
  IN  [r \in {cut(q) : q \in alike} |->
         SumFunction([q \in {a \in alike : cut(a) = r} |-> playouts[p][q]])]

Has(p, m) == ObservedKey(p, Mover(position), m) \in Elements(Children(trees[p].nodes, Root))

(* Mutant of PlayAndReuse: only the mover's tree has to have the edge;      *)
(* another player's that has not stays where it was.                        *)
PlayAndReuseMovers(m) ==
  /\ reported /\ Play(m)
  /\ IF Has(Mover(position), m)
     THEN /\ armed' = TRUE
          /\ trees' = [p \in Player |-> IF Has(p, m) THEN Rerooted(p, m) ELSE trees[p]]
          /\ playouts' = [p \in Player |-> IF Has(p, m) THEN Kept(p, m) ELSE playouts[p]]
     ELSE Dropped
  /\ UNCHANGED <<pc, scratch, searches, ghosts>>

(* reuse_subtree: all the trees are re-rooted or none is kept.              *)
PlayAndReuse(m) ==
  /\ reported /\ Play(m)
  /\ IF \A p \in Player : Has(p, m)
     THEN /\ armed' = TRUE
          /\ trees' = [p \in Player |-> Rerooted(p, m)]
          /\ playouts' = [p \in Player |-> Kept(p, m)]
     ELSE Dropped
  /\ UNCHANGED <<pc, scratch, searches, ghosts>>

PlayUnreported(m) ==
  /\ ~armed /\ Play(m)
  /\ reported' = FALSE
  /\ UNCHANGED <<pc, trees, armed, scratch, searches, playouts, grown, spared>>

Next ==
  \/ Refuse \/ ForcedMove \/ Begin
  \/ Determinize \/ Descend \/ EndIteration \/ Finish \/ Panic
  \/ ClearTree
  \/ \E m \in Move : PlayAndReuse(m) \/ PlayUnreported(m)

Spec == Init /\ [][Next]_vars

-----------------------------------------------------------------------------

(* "Whether the retained trees describe the position about to be searched"  *)
(* (search.rs:72): armed trees are rooted, each of them, at that position   *)
(* as its player observed it.                                               *)
ArmedTreesDescribePosition ==
  armed => \A p \in Player : trees[p].about = Seen(p, position.line, 0)

(* Forced moves apart, whatever was refused, forgotten, missed or panicked, *)
(* the trees that are armed, and the trees a search grows, are this         *)
(* position's.                                                              *)
SearchesItsOwnPosition ==
  spared \/ /\ ArmedTreesDescribePosition
            /\ pc # "idle" => \A p \in Player : grown[p] = Seen(p, position.line, 0)

(* The trees stay in step (search.rs:467): all of them or none are rooted,  *)
(* after the same number of moves, and during a descent each stands at the  *)
(* node of the moves just made as its player observed them, although only   *)
(* the mover's has chosen and each is re-rooted under a key of its own.  A  *)
(* node is listed once by its parent, and a placeholder has grown nothing.  *)
TreesStayAligned ==
  /\ \A p \in Player :
       LET nodes == trees[p].nodes
       IN  /\ \A at \in DOMAIN nodes :
                /\ IsInjective(nodes[at].children)
                /\ at # Root => Front(at) \in DOMAIN nodes
                                /\ Last(at) \in Elements(nodes[Front(at)].children)
           /\ trees[p].about = None => DOMAIN nodes = {Root}
  /\ \A p, q \in Player :
       /\ trees[p].about = None <=> trees[q].about = None
       /\ trees[p].about # None => Len(trees[p].about) = Len(trees[q].about)
  /\ pc \in {"descend", "rollout"} =>
       \A p \in Player :
         /\ paths[p] = Seen(p, SubSeq(world.line, Len(position.line) + 1, Len(world.line)),
                            Len(position.line))
         /\ paths[p] \in DOMAIN trees[p].nodes

(* Each tree is what its observer saw of one and the same set of playouts:  *)
(* a node has a visit for each of those that pass through it as the         *)
(* observer sees them, and the sum of what they paid the player who made    *)
(* the last move to it, whoever's tree it is in.  Moves that look alike     *)
(* share a node, re-rooting keeps exactly the playouts that took the edge   *)
(* as seen, and nothing is lost to a panic.                                 *)
EachTreeIsItsObserversView ==
  spared \/ trees[CHOOSE p \in Player : TRUE].about = None \/
  \A p \in Player :
    LET nodes == trees[p].nodes
        from  == Len(trees[p].about)
        through(at) == {q \in DOMAIN playouts[p] : IsPrefix(at, Seen(p, q.line, from))}
        sum(at, Of(_)) == SumFunction([q \in through(at) |-> playouts[p][q] * Of(q)])
    IN  \A at \in DOMAIN nodes :
          /\ nodes[at].visits = sum(at, LAMBDA q : 1)
          /\ at # Root =>
               nodes[at].reward = sum(at, LAMBDA q : q.rewards[Turn(from + Len(at) - 1)])

(* A player's own moves are chosen no more often than they were there to    *)
(* choose, in its own tree, so a selection rate is a rate (rank.rs:137):    *)
(* through re-rooting, panics and worlds that offer less.                   *)
ChosenWithinOpportunities ==
  spared \/ \A p \in Player :
    trees[p].about # None =>
      \A at \in DOMAIN trees[p].nodes \ {Root} :
        Turn(Len(trees[p].about) + Len(at) - 1) = p =>
          trees[p].nodes[at].visits <= trees[p].nodes[at].available

(* The answer is a choice the position offers, read off the mover's own     *)
(* tree, and no other choice it offers ranks above it there, whichever      *)
(* worlds were sampled and whatever they offered.                           *)
AnswerLeads ==
  answer # None =>
    /\ answer.choice \in Elements(Legal(position))
    /\ \A i, j \in DOMAIN Candidates :
         Candidates[i].choice = answer.choice /\ Candidates[j].visits > 0 =>
           Candidates[i].visits > 0 /\ ~Beats(Candidates[j], Candidates[i])
=============================================================================
