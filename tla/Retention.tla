------------------------------ MODULE Retention ------------------------------
(***************************************************************************)
(* The tree a Searcher keeps between searches (src/search.rs), across a    *)
(* game: a search consumes the arming, reuse_subtree and reuse_joint set   *)
(* it, and a search that is not armed drops what was kept.                 *)
(*                                                                         *)
(* A tree is known by the position its root describes, whether the root    *)
(* carries the marginals of a simultaneous round, and the moves its root   *)
(* has a child for; what a search adds to it is any set of moves.  A move  *)
(* at a simultaneous position is the joint action that was resolved.       *)
(*                                                                         *)
(* The caller keeps the contract the doc of reuse_subtree leaves to it:    *)
(* the move it reports was made in the position the last search was of, or *)
(* the last report led to, and once it has reported one it reports the     *)
(* next.  It may forget to report at all, discard the tree, have a search  *)
(* refused or panic and catch the panic, or use the wrong call of the two. *)
(***************************************************************************)
EXTENDS Naturals, Sequences, FiniteSets

CONSTANTS
  Move,      (* the moves of the game                        *)
  MaxMoves,  (* bound on the length of a game                *)
  None       (* no tree, or no search yet                    *)

ASSUME RetentionAssumption ==
  /\ MaxMoves \in Nat
  /\ None \notin [about : Seq(Move), simul : BOOLEAN, children : SUBSET Move]

VARIABLES
  position,  (* the game so far: the moves that led here            *)
  round,     (* whether the position is sequential or simultaneous  *)
  legal,     (* what the position offers the searching player       *)
  root,      (* Searcher::root                                      *)
  armed,     (* Searcher::tree_is_current                           *)
  reported,  (* no move went unreported since the last search       *)
  returned,  (* the last call was a search, and it returned         *)
  grown      (* what the last search's tree described when it began *)

vars == <<position, round, legal, root, armed, reported, returned, grown>>
game == <<position, round, legal>>

Tree == [about : Seq(Move), simul : BOOLEAN, children : SUBSET Move]

NewRoot == [about |-> position, simul |-> FALSE, children |-> {}]

(* ensure_simul: the marginals of a simultaneous round, where they miss. *)
EnsureSimul(node) ==
  [node EXCEPT !.simul = node.simul \/ round = "simultaneous"]

Offers == {"one", "many"}
Rounds == {"sequential", "simultaneous"}

Init ==
  /\ position = <<>>
  /\ round \in Rounds
  /\ legal \in Offers
  /\ root = None
  /\ armed = FALSE
  /\ reported = TRUE
  /\ returned = FALSE
  /\ grown = None

-----------------------------------------------------------------------------

(* What is left of the tree once a search is past its checks. *)
Kept == IF armed THEN root ELSE None

(* A config, a status or a participant that is refused: the arming is gone, *)
(* the tree is the caller's still.                                          *)
Refuse ==
  /\ armed' = FALSE
  /\ returned' = FALSE
  /\ UNCHANGED <<game, root, reported, grown>>

(* A mutant: the forced move returns before the tree is dropped. *)
ForcedMoveKeeping ==
  /\ legal = "one"
  /\ armed' = FALSE
  /\ root' = IF root = None THEN None ELSE EnsureSimul(root)
  /\ reported' = TRUE
  /\ returned' = TRUE
  /\ UNCHANGED <<game, grown>>

(* A mutant: the forced move leaves the root as it was promoted. *)
ForcedMoveBare ==
  /\ legal = "one"
  /\ armed' = FALSE
  /\ root' = Kept
  /\ reported' = TRUE
  /\ returned' = TRUE
  /\ UNCHANGED <<game, grown>>

(* A single choice is returned before there is a root; the round of a root  *)
(* that was kept is installed on it.                                        *)
ForcedMove ==
  /\ legal = "one"
  /\ armed' = FALSE
  /\ root' = IF Kept = None THEN None ELSE EnsureSimul(Kept)
  /\ reported' = TRUE
  /\ returned' = TRUE
  /\ UNCHANGED <<game, grown>>

(* A search with a choice to make: none, some or all of its iterations.     *)
SearchFrom(started) ==
  /\ legal = "many"
  /\ armed' = FALSE
  /\ grown' = [at |-> position, about |-> started.about]
  /\ \E opened \in SUBSET Move :
       root' = [started EXCEPT !.children = @ \cup opened]
  /\ reported' = TRUE
  /\ UNCHANGED game

Started == IF Kept = None THEN NewRoot ELSE Kept

FullSearch == SearchFrom(EnsureSimul(Started)) /\ returned' = TRUE

(* The game panics during it, before or after the marginals are installed. *)
PanicInGame ==
  /\ \E started \in {Started, EnsureSimul(Started)} : SearchFrom(started)
  /\ returned' = FALSE

(* The position offers no choice at all, or reading its choices panics. *)
FailOnChoices ==
  /\ armed' = FALSE
  /\ root' = Kept
  /\ reported' = TRUE
  /\ returned' = FALSE
  /\ UNCHANGED <<game, grown>>

TakeOrClearTree ==
  /\ root' = None
  /\ armed' = FALSE
  /\ returned' = FALSE
  /\ UNCHANGED <<game, reported, grown>>

-----------------------------------------------------------------------------

(* The game goes on: to a position of either kind, with one choice or more. *)
Play(m) ==
  /\ Len(position) < MaxMoves
  /\ position' = Append(position, m)
  /\ round' \in Rounds
  /\ legal' \in Offers

(* A mutant: a miss leaves the tree where it was, and armed if it was. *)
RerootKeeping(m) ==
  \/ /\ m \in root.children
     /\ armed' = TRUE
     /\ \E simul \in {FALSE, round' = "simultaneous"}, children \in SUBSET Move :
          root' = [about    |-> Append(root.about, m),
                   simul    |-> simul,
                   children |-> children]
  \/ /\ m \notin root.children
     /\ UNCHANGED <<root, armed>>

(* reroot_at, reroot_at_joint: the child is promoted with all it has grown, *)
(* marginals only where an iteration descended into it; a miss drops all.   *)
Reroot(m) ==
  \/ /\ m \in root.children
     /\ armed' = TRUE
     /\ \E simul \in {FALSE, round' = "simultaneous"}, children \in SUBSET Move :
          root' = [about    |-> Append(root.about, m),
                   simul    |-> simul,
                   children |-> children]
  \/ /\ m \notin root.children
     /\ root' = None
     /\ armed' = FALSE

(* The move is played and reported: by reuse_subtree to a root that is not  *)
(* simultaneous, by reuse_joint to one that is.  Without a root, both       *)
(* return before they touch the arming.                                     *)
PlayAndReuse(m) ==
  /\ reported
  /\ Play(m)
  /\ IF root = None THEN UNCHANGED <<root, armed>> ELSE Reroot(m)
  /\ returned' = FALSE
  /\ UNCHANGED <<reported, grown>>

(* Reported by the wrong call of the two: a release build drops the tree.   *)
(* (A debug build panics before it changes anything; the report is still to *)
(* be made.)                                                                *)
PlayAndMistake(m) ==
  /\ reported
  /\ root # None
  /\ Play(m)
  /\ root' = None
  /\ armed' = FALSE
  /\ returned' = FALSE
  /\ UNCHANGED <<reported, grown>>

(* The caller forgets, or does not care to carry the tree forward. *)
PlayUnreported(m) ==
  /\ ~armed
  /\ Play(m)
  /\ reported' = FALSE
  /\ returned' = FALSE
  /\ UNCHANGED <<root, armed, grown>>

Next ==
  \/ Refuse \/ ForcedMove \/ FullSearch \/ PanicInGame \/ FailOnChoices
  \/ TakeOrClearTree
  \/ \E m \in Move : PlayAndReuse(m) \/ PlayAndMistake(m) \/ PlayUnreported(m)

Spec == Init /\ [][Next]_vars

-----------------------------------------------------------------------------

(* Types of the variables; an armed searcher holds a tree. *)
TypeOK ==
  /\ position \in Seq(Move)
  /\ round \in Rounds
  /\ legal \in Offers
  /\ root \in Tree \cup {None}
  /\ armed \in BOOLEAN
  /\ reported \in BOOLEAN
  /\ returned \in BOOLEAN
  /\ grown \in [at : Seq(Move), about : Seq(Move)] \cup {None}
  /\ armed => root # None

(* "Whether the retained tree describes the position about to be searched": *)
(* what an armed searcher holds is that position's tree, and no older one's. *)
ArmedDescribesPosition == armed /\ root # None => root.about = position

(* "Forgetting to leaves you with a correct search rather than one rooted   *)
(* at last turn's position": whatever moves went unreported, whatever was   *)
(* refused, discarded or panicked, no search grows another position's tree. *)
SearchesItsOwnPosition == grown # None => grown.about = grown.at

(* A search that returns, after any number of iterations or at once, leaves *)
(* a root that says truthfully whether its round is simultaneous: it is     *)
(* what the caller branches on to choose between reuse_subtree and          *)
(* reuse_joint.                                                             *)
RootTellsItsRound ==
  returned /\ root # None => root.simul = (round = "simultaneous")

(* Why: until a move goes unreported, the tree follows the game.            *)
TreeFollowsGame == reported /\ root # None => root.about = position

SimulOnlyWhereRound ==
  reported /\ root # None /\ root.simul => round = "simultaneous"

RetentionInv ==
  /\ TypeOK
  /\ ArmedDescribesPosition
  /\ SearchesItsOwnPosition
  /\ RootTellsItsRound
  /\ TreeFollowsGame
  /\ SimulOnlyWhereRound
  /\ armed => reported
=============================================================================
