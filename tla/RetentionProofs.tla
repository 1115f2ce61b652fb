--------------------------- MODULE RetentionProofs ---------------------------
(***************************************************************************)
(* Proofs about Retention, for every set of moves and games of any length: *)
(* the tree follows the game for as long as its moves are reported, so no  *)
(* search grows a tree of another position.                                *)
(***************************************************************************)
EXTENDS Retention, SequenceTheorems, TLAPS

LEMMA InitHolds == Init => RetentionInv
<1> SUFFICES ASSUME Init PROVE RetentionInv
  OBVIOUS
<1>1. TypeOK
  BY EmptySeq DEF Init, TypeOK
<1>2. QED
  BY <1>1
     DEF Init, RetentionInv, ArmedDescribesPosition, SearchesItsOwnPosition,
         RootTellsItsRound, TreeFollowsGame, SimulOnlyWhereRound

(* What a search starts from is of this position: a root it kept was armed. *)
LEMMA KeptDescribes ==
  ASSUME RetentionInv
  PROVE  /\ Kept \in Tree \cup {None}
         /\ Kept # None => /\ Kept.about = position
                           /\ Kept.simul => round = "simultaneous"
BY DEF Kept, RetentionInv, TypeOK, ArmedDescribesPosition, SimulOnlyWhereRound

LEMMA StartedDescribes ==
  ASSUME RetentionInv
  PROVE  /\ Started \in Tree
         /\ Started.about = position
         /\ Started.simul => round = "simultaneous"
<1>1. NewRoot \in Tree
  BY DEF NewRoot, Tree, RetentionInv, TypeOK
<1>2. NewRoot.about = position /\ NewRoot.simul = FALSE
  BY DEF NewRoot
<1>3. QED
  BY <1>1, <1>2, KeptDescribes DEF Started

(* Installing the marginals of this position's round tells it truthfully.   *)
LEMMA EnsureSimulTells ==
  ASSUME NEW node \in Tree, node.simul => round = "simultaneous"
  PROVE  /\ EnsureSimul(node) \in Tree
         /\ EnsureSimul(node).about = node.about
         /\ EnsureSimul(node).simul = (round = "simultaneous")
BY DEF EnsureSimul, Tree

LEMMA SearchHolds ==
  ASSUME RetentionInv, NEW started \in Tree, started.about = position,
         started.simul => round = "simultaneous",
         SearchFrom(started), returned' \in BOOLEAN,
         returned' => started.simul = (round = "simultaneous")
  PROVE  RetentionInv'
<1>1. PICK opened \in SUBSET Move :
        root' = [started EXCEPT !.children = @ \cup opened]
  BY DEF SearchFrom
<1>2. /\ root' \in Tree
      /\ root'.about = position
      /\ root'.simul = started.simul
  BY <1>1 DEF Tree
<1>3. root' # None
  BY <1>2, RetentionAssumption DEF Tree
<1>4. /\ armed' = FALSE /\ reported' = TRUE
      /\ grown' = [at |-> position, about |-> started.about]
      /\ position' = position /\ round' = round /\ legal' = legal
  BY DEF SearchFrom, game
<1>5. TypeOK'
  BY <1>2, <1>4 DEF RetentionInv, TypeOK
<1>6. QED
  BY <1>2, <1>3, <1>4, <1>5
     DEF RetentionInv, ArmedDescribesPosition, SearchesItsOwnPosition,
         RootTellsItsRound, TreeFollowsGame, SimulOnlyWhereRound

(* A reported move takes the tree to the position it takes the game to.     *)
LEMMA ReuseHolds ==
  ASSUME RetentionInv, NEW m \in Move, PlayAndReuse(m)
  PROVE  RetentionInv'
<1>1. /\ position' = Append(position, m) /\ position' \in Seq(Move)
      /\ round' \in Rounds /\ legal' \in Offers
      /\ reported /\ reported' = TRUE /\ returned' = FALSE /\ grown' = grown
  BY DEF PlayAndReuse, Play, RetentionInv, TypeOK
<1>2. CASE root' = None /\ armed' = FALSE
  BY <1>1, <1>2
     DEF RetentionInv, TypeOK, ArmedDescribesPosition, SearchesItsOwnPosition,
         RootTellsItsRound, TreeFollowsGame, SimulOnlyWhereRound
<1>3. CASE root # None /\ armed' = TRUE /\ m \in root.children
  <2>1. PICK simul \in {FALSE, round' = "simultaneous"}, children \in SUBSET Move :
          root' = [about    |-> Append(root.about, m),
                   simul    |-> simul,
                   children |-> children]
    BY <1>3 DEF PlayAndReuse, Reroot
  <2>2. root.about = position
    BY <1>1, <1>3 DEF RetentionInv, TreeFollowsGame
  <2>3. /\ root' \in Tree
        /\ root'.about = position'
        /\ root'.simul => round' = "simultaneous"
    BY <1>1, <2>1, <2>2 DEF Tree
  <2>4. root' # None
    BY <2>3, RetentionAssumption DEF Tree
  <2>5. QED
    BY <1>1, <1>3, <2>3, <2>4
       DEF RetentionInv, TypeOK, ArmedDescribesPosition, SearchesItsOwnPosition,
           RootTellsItsRound, TreeFollowsGame, SimulOnlyWhereRound
<1>4. QED
  BY <1>2, <1>3 DEF PlayAndReuse, Reroot, RetentionInv, TypeOK

(* Whatever moves go unreported and whatever calls are refused or panic,    *)
(* the invariant of the protocol holds.                                     *)
THEOREM RetentionInvariant == Spec => []RetentionInv
<1>1. RetentionInv /\ [Next]_vars => RetentionInv'
  <2> SUFFICES ASSUME RetentionInv, [Next]_vars PROVE RetentionInv'
    OBVIOUS
  <2>1. CASE ForcedMove
    <3>1. CASE Kept = None
      BY <2>1, <3>1
         DEF ForcedMove, game, RetentionInv, TypeOK, ArmedDescribesPosition,
             SearchesItsOwnPosition, RootTellsItsRound, TreeFollowsGame,
             SimulOnlyWhereRound
    <3>2. CASE Kept # None
      <4>1. Kept \in Tree /\ Kept.about = position
            /\ (Kept.simul => round = "simultaneous")
        BY <3>2, KeptDescribes
      <4>2. /\ root' \in Tree
            /\ root'.about = position
            /\ root'.simul = (round = "simultaneous")
        BY <2>1, <3>2, <4>1, EnsureSimulTells DEF ForcedMove
      <4>3. QED
        BY <2>1, <4>2
           DEF ForcedMove, game, RetentionInv, TypeOK, ArmedDescribesPosition,
               SearchesItsOwnPosition, RootTellsItsRound, TreeFollowsGame,
               SimulOnlyWhereRound
    <3>3. QED
      BY <3>1, <3>2
  <2>2. CASE FullSearch
    <3>1. Started \in Tree /\ Started.about = position
          /\ (Started.simul => round = "simultaneous")
      BY StartedDescribes
    <3>2. /\ EnsureSimul(Started) \in Tree
          /\ EnsureSimul(Started).about = position
          /\ EnsureSimul(Started).simul = (round = "simultaneous")
      BY <3>1, EnsureSimulTells
    <3>3. SearchFrom(EnsureSimul(Started)) /\ returned' = TRUE
      BY <2>2 DEF FullSearch
    <3>4. QED
      BY <3>2, <3>3, SearchHolds
  <2>3. CASE PanicInGame
    <3>1. PICK started \in {Started, EnsureSimul(Started)} : SearchFrom(started)
      BY <2>3 DEF PanicInGame
    <3>2. /\ started \in Tree
          /\ started.about = position
          /\ started.simul => round = "simultaneous"
      BY <3>1, StartedDescribes, EnsureSimulTells
    <3>3. QED
      BY <2>3, <3>1, <3>2, SearchHolds DEF PanicInGame
  <2>4. CASE FailOnChoices
    BY <2>4, KeptDescribes
       DEF FailOnChoices, game, RetentionInv, TypeOK, ArmedDescribesPosition,
           SearchesItsOwnPosition, RootTellsItsRound, TreeFollowsGame,
           SimulOnlyWhereRound
  <2>5. CASE Refuse
    BY <2>5
       DEF Refuse, game, RetentionInv, TypeOK, ArmedDescribesPosition,
           SearchesItsOwnPosition, RootTellsItsRound, TreeFollowsGame,
           SimulOnlyWhereRound
  <2>6. CASE TakeOrClearTree
    BY <2>6
       DEF TakeOrClearTree, game, RetentionInv, TypeOK, ArmedDescribesPosition,
           SearchesItsOwnPosition, RootTellsItsRound, TreeFollowsGame,
           SimulOnlyWhereRound
  <2>7. CASE UNCHANGED vars
    BY <2>7
       DEF vars, RetentionInv, TypeOK, ArmedDescribesPosition,
           SearchesItsOwnPosition, RootTellsItsRound, TreeFollowsGame,
           SimulOnlyWhereRound
  <2>8. ASSUME NEW m \in Move, PlayAndReuse(m) PROVE RetentionInv'
    BY <2>8, ReuseHolds
  <2>9. ASSUME NEW m \in Move, PlayAndMistake(m) \/ PlayUnreported(m)
        PROVE RetentionInv'
    <3>1. /\ position' \in Seq(Move) /\ round' \in Rounds /\ legal' \in Offers
          /\ grown' = grown /\ returned' = FALSE /\ armed' = FALSE
          /\ \/ root' = None /\ reported' = reported
             \/ root' = root /\ reported' = FALSE
      BY <2>9 DEF PlayAndMistake, PlayUnreported, Play, RetentionInv, TypeOK
    <3>2. TypeOK'
      BY <3>1 DEF RetentionInv, TypeOK
    <3>3. QED
      BY <3>1, <3>2
         DEF RetentionInv, ArmedDescribesPosition, SearchesItsOwnPosition,
             RootTellsItsRound, TreeFollowsGame, SimulOnlyWhereRound
  <2>10. QED
    BY <2>1, <2>2, <2>3, <2>4, <2>5, <2>6, <2>7, <2>8, <2>9 DEF Next
<1>2. QED
  BY <1>1, InitHolds, PTL DEF Spec

(* No search continues the tree of another position.                        *)
THEOREM SearchesOwnPosition == Spec => []SearchesItsOwnPosition
<1>1. RetentionInv => SearchesItsOwnPosition
  BY DEF RetentionInv
<1>2. QED
  BY <1>1, RetentionInvariant, PTL

(* An armed tree is that of the position about to be searched.              *)
THEOREM ArmedTreeIsCurrent == Spec => []ArmedDescribesPosition
<1>1. RetentionInv => ArmedDescribesPosition
  BY DEF RetentionInv
<1>2. QED
  BY <1>1, RetentionInvariant, PTL

(* What a returned search leaves says which of the two calls re-roots it.   *)
THEOREM RootTellsTruthfully == Spec => []RootTellsItsRound
<1>1. RetentionInv => RootTellsItsRound
  BY DEF RetentionInv
<1>2. QED
  BY <1>1, RetentionInvariant, PTL
=============================================================================
