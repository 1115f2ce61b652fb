------------------------------ MODULE SimulNode ------------------------------
(***************************************************************************)
(* A simultaneous node (src/node.rs, src/duct.rs, and its level of         *)
(* run_iteration in src/search.rs): one bandit per participant over arms   *)
(* kept in one flat array, legality read off a stamp, joint successors     *)
(* found by the packed indices of their arms, credit before record.  A     *)
(* simultaneous vertex of a graph runs the same code on the same block.    *)
(*                                                                         *)
(* The node is followed from its creation, below the root or as one,       *)
(* through iterations that descend into it, to the search of which it is   *)
(* the root.  The game may panic whenever it is called; what the caller    *)
(* can then do with the tree is what Retention says.  Rewards are left     *)
(* out: an arm carries how often it was weighed in a strategy and how      *)
(* often it was charged a regret.  Each joint successor also carries the   *)
(* choices it was made by, which the code does not keep and the properties *)
(* are about.                                                              *)
(***************************************************************************)
EXTENDS Naturals, Sequences, FiniteSets, SequencesExt, FiniteSetsExt

CONSTANTS
  Arity,        (* how many players act at the node                        *)
  ChoicesOf,    (* what each of them may choose in some world              *)
  KeyCapacity,  (* arms of one player that fit in a joint key              *)
  Policy,       (* the simultaneous policies to consider                   *)
  Revisit,      (* the settings of CHOICES_ON_REVISIT to consider: what     *)
                (* choices_fixed answers of this node's position, below the *)
                (* root and at one                                          *)
  MaxVisits,    (* bound on the visits of the node                         *)
  MaxPanics     (* bound on the panics of the game                         *)

Slot == 1..Arity

ASSUME SimulNodeAssumption ==
  /\ Arity \in Nat \ {0}
  /\ DOMAIN ChoicesOf = Slot
  /\ KeyCapacity \in Nat
  /\ \A s \in Slot : IsFiniteSet(ChoicesOf[s]) /\ Cardinality(ChoicesOf[s]) \in 1..KeyCapacity
  /\ Policy \subseteq {"Duct", "RegretMatching"}
  /\ Revisit \subseteq {"MayChange", "SameAtRoot", "SameEverywhere"}
  /\ {MaxVisits, MaxPanics} \subseteq Nat

VARIABLES
  policy,    (* SIMULTANEOUS_POLICY                                        *)
  revisit,   (* CHOICES_ON_REVISIT                                         *)
  offers,    (* what every world offers, where the game says they agree    *)
  isRoot,    (* Node::is_root                                              *)
  visits,    (* Node::visits, the epoch of the next stamp                  *)
  matched,   (* arms_match_choices                                         *)
  arms,      (* Simul::arm_stats and arm_choices, every slot's in one list *)
  starts,    (* Simul::starts, where each slot's arms begin                *)
  children,  (* the joint successors, with Simul::joint_keys               *)
  pc,        (* where the iteration is                                     *)
  world,     (* what the sampled world offers each participant             *)
  slot,      (* the slot being expanded                                    *)
  complete,  (* every_arm_is_a_choice                                      *)
  taken,     (* the joint successor descended into, 0 for none             *)
  stale,     (* a panic has left stamps of an iteration never recorded     *)
  panics     (* panics so far                                              *)

game == <<policy, revisit, offers>>
node == <<isRoot, visits, matched, arms, starts, children>>
iteration == <<world, slot, complete, taken>>
vars == <<game, node, pc, iteration, stale, panics>>

NoWorld == [s \in Slot |-> {}]

(* Slot s's arms are those from starts[s-1] + 1 to starts[s]. *)
SlotRange(s) == starts[s - 1] + 1 .. starts[s]

(* A game whose worlds agree at the root alone has them agree on what the   *)
(* position searched offers, which below the root other worlds may exceed.  *)
RootOffers ==
  IF revisit = "SameAtRoot"
  THEN {o \in [Slot -> SUBSET UNION {ChoicesOf[s] : s \in Slot}] :
          /\ \A s \in Slot : o[s] \subseteq ChoicesOf[s] /\ o[s] # {}
          /\ \E s \in Slot : Cardinality(o[s]) > 1}
  ELSE {ChoicesOf}

(* A node is made as a root, or below one with a first visit that rolls out. *)
Init ==
  /\ policy \in Policy
  /\ revisit \in Revisit
  /\ isRoot \in BOOLEAN
  /\ offers \in IF isRoot THEN RootOffers ELSE {ChoicesOf}
  /\ visits = IF isRoot THEN 0 ELSE 1
  /\ matched = FALSE
  /\ arms = <<>>
  /\ starts = [s \in 0..Arity |-> 0]
  /\ children = <<>>
  /\ pc = "idle"
  /\ world = NoWorld /\ slot = 1 /\ complete = TRUE /\ taken = 0
  /\ stale = FALSE
  /\ panics = 0

-----------------------------------------------------------------------------

Fixed == revisit = "SameEverywhere" \/ (revisit = "SameAtRoot" /\ isRoot)

(* What choices_for_into may list: nothing for some player is a game's      *)
(* mistake, for which a release build scores the least reward.              *)
Worlds ==
  IF Fixed THEN {offers}
  ELSE {w \in [Slot -> SUBSET UNION {ChoicesOf[s] : s \in Slot}] :
          \A s \in Slot : w[s] \subseteq ChoicesOf[s]}

(* An iteration that comes to the node, whose world is known by then. *)
Arrive ==
  /\ pc = "idle"
  /\ visits < MaxVisits
  /\ world' \in Worlds
  /\ slot' = 1 /\ complete' = TRUE /\ taken' = 0
  /\ pc' = IF matched THEN "stamp" ELSE "expand"
  /\ UNCHANGED <<game, node, stale, panics>>

(* mark_every_arm_available: what expanding would record. *)
StampAll ==
  /\ pc = "stamp"
  /\ arms' = [a \in DOMAIN arms |->
                [arms[a] EXCEPT !.timesAvailable = @ + 1, !.epoch = visits]]
  /\ pc' = "select"
  /\ UNCHANGED <<game, isRoot, visits, matched, starts, children, iteration, stale, panics>>

(* Every later slot moves along. *)
Shifted(s, grown) ==
  [t \in 0..Arity |-> IF t >= s THEN starts[t] + grown ELSE starts[t]]

(* Mutants: the bit is set without the game saying so, or on its word alone. *)
MatchedUnasked(everyArmIsAChoice) == everyArmIsAChoice
MatchedOnItsWord(everyArmIsAChoice) == Fixed

Matched(everyArmIsAChoice) == Fixed /\ everyArmIsAChoice

(* expand_marginals and grow_slot: an opportunity for each arm on offer that *)
(* has none this iteration, an arm for each choice without one, at the end   *)
(* of its slot and so in the middle of the array.                            *)
ExpandSlot ==
  /\ pc = "expand"
  /\ LET held   == SlotRange(slot)
         hit    == {a \in held : arms[a].choice \in world[slot] /\ arms[a].epoch # visits}
         unseen == world[slot] \ {arms[a].choice : a \in held}
         marked == [a \in DOMAIN arms |->
                      IF a \in hit
                      THEN [arms[a] EXCEPT !.timesAvailable = @ + 1, !.epoch = visits]
                      ELSE arms[a]]
         legal  == Cardinality(hit) + Cardinality(unseen)
         whole  == complete /\ legal = Cardinality(held) + Cardinality(unseen)
     IN  /\ \E order \in SetToSeqs(unseen) :
              arms' = SubSeq(marked, 1, starts[slot])
                        \o [i \in DOMAIN order |->
                              [choice |-> order[i], timesAvailable |-> 1, epoch |-> visits,
                               visits |-> 0, weighed |-> 0, charged |-> 0]]
                        \o SubSeq(marked, starts[slot] + 1, Len(marked))
         /\ starts' = Shifted(slot, Cardinality(unseen))
         /\ complete' = whole
         /\ slot' = IF legal > 0 /\ slot < Arity THEN slot + 1 ELSE slot
         /\ pc' = IF legal = 0 THEN "below" ELSE IF slot < Arity THEN "expand" ELSE "select"
         /\ matched' = IF legal = 0 THEN FALSE
                       ELSE IF slot = Arity THEN Matched(whole) ELSE matched
  /\ UNCHANGED <<game, isRoot, visits, children, world, taken, stale, panics>>

-----------------------------------------------------------------------------

(* The legality test. *)
Legal(s) == {a \in SlotRange(s) : arms[a].epoch = visits}

Unvisited(s) == {a \in Legal(s) : arms[a].visits = 0}

(* select_marginal: Duct prefers an arm it knows nothing about, and ranks    *)
(* the others by scores that rewards make anything; the floor of regret      *)
(* matching leaves no legal arm without a probability.                       *)
Selectable(s) == IF policy = "Duct" /\ Unvisited(s) # {} THEN Unvisited(s) ELSE Legal(s)

(* A mutant: the radix grows with the arms. *)
PackByLength(pick) ==
  MapThenSumSet(LAMBDA s : pick[s] * (IF s = 1 THEN 1 ELSE Cardinality(SlotRange(s - 1))), Slot)

(* JointKey::pack, of indices counted from 0 within each slot: every slot's *)
(* field lies above those of the slots before it.                           *)
Pack(pick) ==
  LET fields[s \in 1..Arity + 1] ==
        IF s > Arity THEN 0 ELSE pick[s] + KeyCapacity * fields[s + 1]
  IN  fields[1]

(* JointKey::arm: the fields below are shifted out, those above masked. *)
Arm(key, s) ==
  LET shifted[t \in Slot] ==
        IF t = 1 THEN key ELSE shifted[t - 1] \div KeyCapacity
  IN  shifted[s] % KeyCapacity

(* A strategy is summed over the iterations that offered the arm. *)
Weighed ==
  [a \in DOMAIN arms |->
     IF policy = "RegretMatching" /\ a \in UNION {Legal(s) : s \in Slot}
     THEN [arms[a] EXCEPT !.weighed = @ + 1] ELSE arms[a]]

(* The participants pick independently, and the successor of what they       *)
(* picked is found by its key or pushed.                                     *)
Select ==
  /\ pc = "select"
  /\ \E pick \in [Slot -> DOMAIN arms] :
       /\ \A s \in Slot : pick[s] \in Selectable(s)
       /\ LET key   == Pack([s \in Slot |-> pick[s] - starts[s - 1] - 1])
              found == {i \in DOMAIN children : children[i].key = key}
              joint == [key |-> key, visits |-> 0,
                        played |-> [s \in Slot |-> arms[pick[s]].choice]]
          IN  /\ children' = IF found = {} THEN Append(children, joint) ELSE children
              /\ taken' \in IF found = {} THEN {Len(children) + 1} ELSE found
  /\ arms' = Weighed
  /\ pc' = "below"
  /\ UNCHANGED <<game, isRoot, visits, matched, starts, world, slot, complete, stale, panics>>

(* Duct finds nothing to play when every score of a participant is NaN. *)
SelectNothing ==
  /\ pc = "select" /\ policy = "Duct"
  /\ \E s \in Slot : Unvisited(s) = {}
  /\ pc' = "below"
  /\ UNCHANGED <<game, node, iteration, stale, panics>>

(* A mutant: an index within a slot is taken for one in the whole array. *)
ArmAtInArray(s, relative) == 1 + relative

ArmAt(s, relative) == starts[s - 1] + 1 + relative

(* A mutant: the node has been recorded by the time its arms are credited. *)
CreditedAfterRecord(key) ==
  LET played == {ArmAt(s, Arm(key, s)) : s \in Slot}
  IN  [a \in DOMAIN arms |->
         [arms[a] EXCEPT
            !.visits = IF a \in played THEN @ + 1 ELSE @,
            !.charged = IF policy = "RegretMatching" /\ arms[a].epoch = visits + 1
                        THEN @ + 1 ELSE @]]

(* credit_marginals: a visit for the arms that were played, and the regret   *)
(* of not playing the others for those that were legal.                      *)
Credited(key) ==
  LET played == {ArmAt(s, Arm(key, s)) : s \in Slot}
  IN  [a \in DOMAIN arms |->
         [arms[a] EXCEPT
            !.visits = IF a \in played THEN @ + 1 ELSE @,
            !.charged = IF policy = "RegretMatching" /\ arms[a].epoch = visits
                        THEN @ + 1 ELSE @]]

(* The backup comes to the node: its arms, the node itself, the successor. *)
BackUp ==
  /\ pc = "below"
  /\ arms' = IF taken = 0 THEN arms ELSE Credited(children[taken].key)
  /\ children' = IF taken = 0 THEN children ELSE [children EXCEPT ![taken].visits = @ + 1]
  /\ visits' = visits + 1
  /\ stale' = FALSE
  /\ pc' = "idle"
  /\ world' = NoWorld /\ slot' = 1 /\ complete' = TRUE /\ taken' = 0
  /\ UNCHANGED <<game, isRoot, matched, starts, panics>>

-----------------------------------------------------------------------------

(* The game panics in choices_for_into or anywhere below, or a debug build   *)
(* does where a player has nothing to choose, and the caller catches it.     *)
(* The tree of a search that did not return is not continued, but a subtree  *)
(* of it is, once the caller reports the move that was played.               *)
Panic ==
  /\ pc \in {"expand", "below"}
  /\ panics < MaxPanics
  /\ panics' = panics + 1
  /\ stale' = TRUE
  /\ pc' = IF isRoot THEN "dropped" ELSE "idle"
  /\ world' = NoWorld /\ slot' = 1 /\ complete' = TRUE /\ taken' = 0
  /\ UNCHANGED <<game, node>>

(* The game comes to the node's position, and the tree is re-rooted at it:   *)
(* become_root.                                                              *)
Promote ==
  /\ pc = "idle" /\ ~isRoot
  /\ isRoot' = TRUE
  /\ matched' = FALSE
  /\ offers' \in RootOffers
  /\ UNCHANGED <<policy, revisit, visits, arms, starts, children, pc, iteration, stale, panics>>

Next ==
  \/ Arrive
  \/ StampAll
  \/ ExpandSlot
  \/ Select
  \/ SelectNothing
  \/ BackUp
  \/ Panic
  \/ Promote

Spec == Init /\ [][Next]_vars

-----------------------------------------------------------------------------

(* A stored key names, for ever, the arms of the choices its successor was   *)
(* made by, however the slots have grown since; no two arms are one choice's *)
(* and no two successors one joint choice's; and the slots part the array    *)
(* among the players, as debug_check_arms asserts.                           *)
KeysNameTheirArms ==
  /\ starts[0] = 0 /\ starts[Arity] = Len(arms)
  /\ \A s \in Slot : \A a \in SlotRange(s) : arms[a].choice \in ChoicesOf[s]
  /\ \A s \in Slot : \A a, b \in SlotRange(s) : arms[a].choice = arms[b].choice => a = b
  /\ \A i \in DOMAIN children : \A s \in Slot :
       arms[starts[s - 1] + 1 + Arm(children[i].key, s)].choice = children[i].played[s]
  /\ \A i, j \in DOMAIN children : children[i].played = children[j].played => i = j
  /\ taken # 0 => \A s \in Slot : children[taken].played[s] \in world[s] \/ stale

(* What may be selected is what the world offers, although nothing but a     *)
(* count tells the stamps of two iterations apart and although a node whose  *)
(* arms are known to match is not asked; a panic suspends this until the     *)
(* node is next recorded and no longer.                                      *)
StampsAreTheOffer ==
  pc = "select" /\ ~stale =>
    \A s \in Slot : {arms[a].choice : a \in Legal(s)} = world[s]

(* The two sets of books agree: an arm has the visits of the successors it   *)
(* was played into, whatever iterations were given up or scored as nothing.  *)
ArmsSumTheirChildren ==
  \A s \in Slot : \A a \in SlotRange(s) :
    arms[a].visits = MapThenSumSet(LAMBDA i : children[i].visits,
                       {i \in DOMAIN children : children[i].played[s] = arms[a].choice})

(* An arm's regret and its strategy are sums over the same iterations, all   *)
(* of them iterations that offered it, so that dividing by timesAvailable    *)
(* gives no more than a probability; unless the game has panicked.           *)
ArmCountsAgree ==
  panics = 0 => \A a \in DOMAIN arms :
    /\ arms[a].visits <= arms[a].timesAvailable
    /\ arms[a].weighed <= arms[a].timesAvailable
    /\ pc = "idle" => arms[a].charged = arms[a].weighed

(* The comment on avail_epoch: the stamp IS the legality test (node.rs:244). *)
StampIsTheLegalityTest ==
  pc = "select" => \A s \in Slot : {arms[a].choice : a \in Legal(s)} = world[s]
=============================================================================
