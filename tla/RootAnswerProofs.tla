-------------------------- MODULE RootAnswerProofs --------------------------
(***************************************************************************)
(* Proofs about what a root answers.  First the sequential root, with one  *)
(* search and its counterfactual continuation, for every set of choices,   *)
(* every evidence bar and every budget: the types, and that a Proven       *)
(* answer is the answer the whole budget would have given; a step of       *)
(* RootSearch is a step of FullBudget, so what holds of CounterfactualSpec *)
(* holds of Spec.  Then the scan that every root's answer is read off.     *)
(* Then the simultaneous root and the merge of a pool of them, for every   *)
(* list of choices, every set of worlds and every number of workers: what  *)
(* is answered is what is reported.                                        *)
(***************************************************************************)
EXTENDS FullBudget, MarginalAnswer, RankProofs, FiniteSetTheorems, SequenceTheorems, TLAPS

LEMMA OpenedIsSequence ==
  ASSUME NEW S \in SUBSET Choice, NEW opened \in SetToSeqs(S)
  PROVE  /\ opened \in Seq(Choice)
         /\ \A i \in DOMAIN opened : opened[i] \in S
         /\ \A i, j \in DOMAIN opened : opened[i] = opened[j] => i = j
<1>1. IsFiniteSet(S)
  BY RootSearchAssumption, FS_Subset
<1>2. Cardinality(S) \in Nat
  BY <1>1, FS_CardinalityType
<1>3. opened \in [1..Cardinality(S) -> S]
  BY DEF SetToSeqs
<1>4. opened \in Seq(Choice)
  BY <1>2, <1>3, IsASeq
<1>5. \A i, j \in DOMAIN opened : opened[i] = opened[j] => i = j
  BY <1>3 DEF SetToSeqs
<1>6. QED
  BY <1>3, <1>4, <1>5

-----------------------------------------------------------------------------

LEMMA SelectableOffered ==
  ASSUME NEW world PROVE Selectable(world) \subseteq world
BY DEF Selectable

(* The counterfactual iteration and the real one change the tree alike.    *)
LEMMA DescendTyped ==
  ASSUME TypeOK, NEW world \in SUBSET Choice, Descend(world)
  PROVE  /\ children' \in Seq(Choice)
         /\ visits' \in [Choice -> Nat]
         /\ timesAvailable' \in [Choice -> Nat]
         /\ mean' \in [Choice -> Mean]
         /\ rootVisits' \in Nat
<1>1. rootVisits' \in Nat
  BY DEF TypeOK, Descend
<1>2. CASE world = {}
  BY <1>1, <1>2 DEF TypeOK, Descend
<1>3. CASE world # {}
  <2>1. PICK opened \in SetToSeqs(world \ Children) : children' = children \o opened
    BY <1>3 DEF Descend, Expand
  <2>2. children' \in Seq(Choice)
    BY <2>1, OpenedIsSequence, ConcatProperties DEF TypeOK
  <2>3. timesAvailable' \in [Choice -> Nat]
    <3>1. timesAvailable' =
            [c \in Choice |-> IF c \in world THEN timesAvailable[c] + 1
                                             ELSE timesAvailable[c]]
      BY <1>3 DEF Descend, Expand
    <3>2. \A c \in Choice : timesAvailable[c] \in Nat
      BY DEF TypeOK
    <3>3. QED
      BY <3>1, <3>2
  <2>4. /\ visits' \in [Choice -> Nat]
        /\ mean' \in [Choice -> Mean]
    <3>1. PICK c \in Selectable(world), m \in Mean :
            /\ visits' = [visits EXCEPT ![c] = @ + 1]
            /\ mean' = [mean EXCEPT ![c] = m]
      BY <1>3 DEF Descend
    <3>2. visits \in [Choice -> Nat] /\ mean \in [Choice -> Mean]
      BY DEF TypeOK
    <3>3. c \in Choice
      BY <3>1, SelectableOffered
    <3>4. visits' \in [Choice -> Nat]
      BY <3>1, <3>2, <3>3
    <3>5. mean' \in [Choice -> Mean]
      BY <3>1, <3>2
    <3>6. QED
      BY <3>4, <3>5
  <2>5. QED
    BY <1>1, <2>2, <2>3, <2>4
<1>4. QED
  BY <1>2, <1>3

LEMMA RefreshTyped ==
  ASSUME TypeOK, children' \in Seq(Choice), RefreshRootLegal
  PROVE  /\ rootLegal' \in Seq(BOOLEAN)
         /\ complete' \in BOOLEAN
<1>1. CASE children' # <<>> /\ Len(rootLegal) = Len(children')
  BY <1>1 DEF TypeOK, RefreshRootLegal, mask
<1>2. CASE ~(children' # <<>> /\ Len(rootLegal) = Len(children'))
  <2>1. rootLegal' = [i \in DOMAIN children' |-> children'[i] \in position]
    BY <1>2 DEF RefreshRootLegal
  <2>2. DOMAIN children' = 1..Len(children') /\ Len(children') \in Nat
    OBVIOUS
  <2>3. rootLegal' \in Seq(BOOLEAN)
    BY <2>1, <2>2
  <2>4. QED
    BY <1>2, <2>3 DEF RefreshRootLegal
<1>3. QED
  BY <1>1, <1>2

(* Types hold of every search: no operation leaves a variable out of the   *)
(* set it was declared to range over, whatever the number of choices.      *)
THEOREM TypeInvariant == CounterfactualSpec => []TypeOK
<1>1. Init => TypeOK
  <2> SUFFICES ASSUME Init PROVE TypeOK
    OBVIOUS
  <2>1. children \in Seq(Choice)
    BY OpenedIsSequence DEF Init, RetainedTree
  <2>2. rootLegal \in Seq(BOOLEAN)
    <3>1. PICK n \in 0..Cardinality(Choice) : rootLegal \in [1..n -> BOOLEAN]
      BY DEF Init
    <3>2. n \in Nat
      BY RootSearchAssumption, FS_CardinalityType
    <3>3. QED
      BY <3>1, <3>2, IsASeq
  <2>3. MaxReused \in Nat /\ Cancellable \in BOOLEAN
    BY RootSearchAssumption
  <2>4. /\ rootVisits \in Nat
        /\ visits \in [Choice -> Nat]
        /\ timesAvailable \in [Choice -> Nat]
        /\ mean \in [Choice -> Mean]
    <3>1. 0..MaxReused \subseteq Nat
      BY <2>3
    <3>2. QED
      BY <3>1 DEF Init, RetainedTree
  <2>5. QED
    BY <2>1, <2>2, <2>3, <2>4 DEF Init, TypeOK
<1>2. TypeOK /\ [CounterfactualNext]_vars => TypeOK'
  <2> SUFFICES ASSUME TypeOK, [CounterfactualNext]_vars PROVE TypeOK'
    OBVIOUS
  <2> USE DEF TypeOK
  <2>1. CASE Begin
    <3>1. rootLegal' \in Seq(BOOLEAN)
      BY <2>1, EmptySeq DEF Begin
    <3>2. QED
      BY <2>1, <3>1 DEF Begin, tree, clock
  <2>2. ASSUME NEW reason \in StopReason, Break(reason) PROVE TypeOK'
    BY <2>2 DEF Break, tree, mask, clock
  <2>3. CASE Continue
    BY <2>3 DEF Continue, tree, mask, clock
  <2>4. CASE Iterate
    <3>1. PICK world \in SUBSET Choice : Descend(world)
      BY <2>4 DEF Iterate
    <3>2. /\ children' \in Seq(Choice)
          /\ visits' \in [Choice -> Nat]
          /\ timesAvailable' \in [Choice -> Nat]
          /\ mean' \in [Choice -> Mean]
          /\ rootVisits' \in Nat
      BY <3>1, DescendTyped
    <3>3. /\ rootLegal' \in Seq(BOOLEAN)
          /\ complete' \in BOOLEAN
      BY <2>4, <3>2, RefreshTyped DEF Iterate, mask
    <3>4. /\ iterations' \in Nat
          /\ UNCHANGED <<position, reused, clock, answer>>
          /\ answer = None
      BY <2>4 DEF Iterate
    <3>5. /\ pc' \in {"check", "extract"}
          /\ stopReason' \in IF pc' = "extract" THEN StopReason ELSE {None}
      BY <2>4 DEF Iterate, StopReason
    <3>6. QED
      BY <3>2, <3>3, <3>4, <3>5 DEF clock
  <2>5. CASE Extract
    <3>1. /\ rootLegal' \in Seq(BOOLEAN)
          /\ complete' \in BOOLEAN
      BY <2>5, RefreshTyped DEF Extract, tree
    <3>2. answer' \in Choice
      <4> DEFINE ranked == CandidatesUnder(rootLegal')
      <4>1. CASE HasLeader(ranked)
        <5>1. answer' = children[Leader(ranked)]
          BY <2>5, <4>1 DEF Extract
        <5>2. Leader(ranked) \in DOMAIN ranked
          BY <4>1 DEF HasLeader, Leader
        <5>3. DOMAIN ranked \subseteq DOMAIN children
          BY DEF CandidatesUnder
        <5>4. QED
          BY <5>1, <5>2, <5>3
      <4>2. CASE ~HasLeader(ranked)
        BY <2>5, <4>2 DEF Extract
      <4>3. QED
        BY <4>1, <4>2
    <3>3. /\ pc = "extract" /\ pc' = "done"
          /\ UNCHANGED <<position, tree, reused, iterations, clock, stopReason>>
      BY <2>5 DEF Extract
    <3>4. QED
      BY <3>1, <3>2, <3>3 DEF tree, clock
  <2>6. CASE Cancel
    BY <2>6 DEF Cancel, tree, mask
  <2>7. CASE Expire
    BY <2>7 DEF Expire, tree, mask
  <2>8. CASE SavedIteration
    BY <2>8, DescendTyped DEF SavedIteration, mask, clock
  <2>9. CASE UNCHANGED vars
    BY <2>9 DEF vars, tree, mask, clock
  <2>10. QED
    BY <2>1, <2>2, <2>3, <2>4, <2>5, <2>6, <2>7, <2>8, <2>9
       DEF CounterfactualNext, Next, Search, StopOnBudget, StopOnCancel,
           StopOnDeadline, StopReason
<1>3. QED
  BY <1>1, <1>2, PTL DEF CounterfactualSpec

-----------------------------------------------------------------------------

(* What an iteration leaves of the tree it found: children keep their       *)
(* places, none is there twice, and one of them gains one visit.            *)
LEMMA DescendGrows ==
  ASSUME TypeOK, Distinct, NEW world \in SUBSET Choice, Descend(world)
  PROVE  /\ Len(children) <= Len(children')
         /\ \A i \in DOMAIN children :
              i \in DOMAIN children' /\ children'[i] = children[i]
         /\ Distinct'
         /\ \A c \in Choice : visits[c] <= visits'[c] /\ visits'[c] <= visits[c] + 1
         /\ rootVisits' = rootVisits + 1
<1>1. rootVisits' = rootVisits + 1
  BY DEF Descend
<1>2. children \in Seq(Choice) /\ visits \in [Choice -> Nat]
  BY DEF TypeOK
<1>3. CASE world = {}
  BY <1>1, <1>2, <1>3 DEF Descend, Distinct
<1>4. CASE world # {}
  <2>1. PICK opened \in SetToSeqs(world \ Children) : children' = children \o opened
    BY <1>4 DEF Descend, Expand
  <2>2. /\ opened \in Seq(Choice)
        /\ \A i \in DOMAIN opened : opened[i] \notin Children
        /\ \A i, j \in DOMAIN opened : opened[i] = opened[j] => i = j
    BY OpenedIsSequence
  <2>3. /\ Len(children') = Len(children) + Len(opened)
        /\ \A i \in 1..Len(children') :
             children'[i] = IF i <= Len(children) THEN children[i]
                            ELSE opened[i - Len(children)]
        /\ children' \in Seq(Choice)
    BY <1>2, <2>1, <2>2, ConcatProperties
  <2>4. /\ DOMAIN children = 1..Len(children)
        /\ DOMAIN opened = 1..Len(opened)
        /\ DOMAIN children' = 1..Len(children')
        /\ Len(children) \in Nat
        /\ Len(opened) \in Nat
    BY <1>2, <2>2, <2>3, LenProperties
  <2>5. \A i \in DOMAIN children : i \in DOMAIN children' /\ children'[i] = children[i]
    BY <2>3, <2>4
  <2>6. ASSUME NEW i \in DOMAIN children', NEW j \in DOMAIN children',
               children'[i] = children'[j]
        PROVE  i = j
    <3>1. CASE i <= Len(children) /\ j <= Len(children)
      BY <2>3, <2>4, <2>6, <3>1 DEF Distinct
    <3>2. CASE i > Len(children) /\ j > Len(children)
      <4>1. opened[i - Len(children)] = opened[j - Len(children)]
        BY <2>3, <2>4, <2>6, <3>2
      <4>2. /\ i - Len(children) \in DOMAIN opened
            /\ j - Len(children) \in DOMAIN opened
        BY <2>3, <2>4, <3>2
      <4>3. i - Len(children) = j - Len(children)
        BY <2>2, <4>1, <4>2
      <4>4. QED
        BY <2>4, <4>3
    <3>3. CASE i <= Len(children) /\ j > Len(children)
      <4>1. children[i] = opened[j - Len(children)]
        BY <2>3, <2>4, <2>6, <3>3
      <4>2. i \in DOMAIN children /\ j - Len(children) \in DOMAIN opened
        BY <2>3, <2>4, <3>3
      <4>3. QED
        BY <2>2, <4>1, <4>2 DEF Children, ToSet
    <3>4. CASE i > Len(children) /\ j <= Len(children)
      <4>1. children[j] = opened[i - Len(children)]
        BY <2>3, <2>4, <2>6, <3>4
      <4>2. j \in DOMAIN children /\ i - Len(children) \in DOMAIN opened
        BY <2>3, <2>4, <3>4
      <4>3. QED
        BY <2>2, <4>1, <4>2 DEF Children, ToSet
    <3>5. QED
      BY <2>4, <3>1, <3>2, <3>3, <3>4
  <2>7. Distinct'
    BY <2>6 DEF Distinct
  <2>8. \A c \in Choice : visits[c] <= visits'[c] /\ visits'[c] <= visits[c] + 1
    <3>1. PICK d \in Selectable(world), m \in Mean :
            /\ visits' = [visits EXCEPT ![d] = @ + 1]
            /\ mean' = [mean EXCEPT ![d] = m]
      BY <1>4 DEF Descend
    <3>2. QED
      BY <1>2, <3>1
  <2>9. QED
    BY <1>1, <2>3, <2>4, <2>5, <2>7, <2>8
<1>5. QED
  BY <1>3, <1>4

(* A certificate survives the iteration it was issued against.              *)
LEMMA CertificateSurvives ==
  ASSUME TypeOK, Distinct, NEW world \in SUBSET Choice, Descend(world),
         UNCHANGED position, NEW a, Certificate(a)
  PROVE  Certificate(a)'
<1>1. /\ \A c \in Choice : visits[c] <= visits'[c] /\ visits'[c] <= visits[c] + 1
      /\ rootVisits' = rootVisits + 1
      /\ \A i \in DOMAIN children :
           i \in DOMAIN children' /\ children'[i] = children[i]
  BY DescendGrows
<1>2. Children \subseteq Children'
  BY <1>1 DEF Children, ToSet
<1>3. visits' \in [Choice -> Nat]
  BY DescendTyped
<1>4. a \in Choice /\ position \subseteq Choice
  BY DEF Certificate, TypeOK
<1>5. visits'[a] > 0
  BY <1>1, <1>3, <1>4 DEF Certificate, TypeOK
<1>6. ASSUME NEW c \in position \ {a}
      PROVE  /\ visits'[a] >= MinEvidence
             /\ visits'[c] + (Target - rootVisits') < MinEvidence
  <2>1. /\ visits[a] \in Nat /\ visits'[a] \in Nat
        /\ visits[c] \in Nat /\ visits'[c] \in Nat
        /\ rootVisits \in Nat
        /\ MinEvidence \in Nat /\ Target \in Nat
    BY <1>3, <1>4, MinEvidenceAssumption, RootSearchAssumption DEF TypeOK
  <2>2. /\ visits[a] >= MinEvidence
        /\ visits[c] + (Target - rootVisits) < MinEvidence
    BY DEF Certificate
  <2>3. /\ visits[a] <= visits'[a]
        /\ visits'[c] <= visits[c] + 1
        /\ rootVisits' = rootVisits + 1
    BY <1>1, <1>4
  <2>4. QED
    BY <2>1, <2>2, <2>3
<1>7. QED
  BY <1>2, <1>5, <1>6 DEF Certificate

-----------------------------------------------------------------------------

(* The mask is this position's, for these children.                         *)
MaskDescribes ==
  /\ rootLegal = Legal
  /\ complete <=> position \subseteq Children

(* The candidates of the root are the children the position offers.         *)
LEMMA LegalCandidates ==
  ASSUME TypeOK
  PROVE  /\ DOMAIN CandidatesUnder(Legal) =
              {i \in DOMAIN children : children[i] \in position}
         /\ \A i \in DOMAIN CandidatesUnder(Legal) :
              CandidatesUnder(Legal)[i].visits = visits[children[i]]
<1>1. {i \in DOMAIN children : Legal[i]} =
        {i \in DOMAIN children : children[i] \in position}
  BY DEF Legal
<1>2. QED
  BY <1>1 DEF CandidatesUnder

(* A certified choice is the leader, and nothing else is.                   *)
LEMMA CertificateLeads ==
  ASSUME TypeOK, Distinct, rootVisits <= Target, NEW a, Certificate(a)
  PROVE  \E i \in DOMAIN CandidatesUnder(Legal) :
           /\ children[i] = a
           /\ IsLeader(CandidatesUnder(Legal), i)
           /\ \A k \in DOMAIN CandidatesUnder(Legal) :
                IsLeader(CandidatesUnder(Legal), k) => k = i
<1> DEFINE cs == CandidatesUnder(Legal)
<1>1. PICK i \in DOMAIN children : children[i] = a
  BY DEF Certificate, Children, ToSet
<1>2. i \in DOMAIN cs /\ cs[i].visits = visits[a] /\ visits[a] > 0
  BY <1>1, LegalCandidates DEF Certificate
<1>3. ASSUME NEW j \in DOMAIN cs \ {i}
      PROVE  Beats(cs[i], cs[j]) /\ ~Beats(cs[j], cs[i])
  <2>1. /\ j \in DOMAIN children
        /\ children[j] \in position
        /\ cs[j].visits = visits[children[j]]
    BY <1>3, LegalCandidates
  <2>2. children[j] # a
    BY <1>1, <1>3, <2>1 DEF Distinct
  <2>3. /\ visits[a] >= MinEvidence
        /\ visits[children[j]] + (Target - rootVisits) < MinEvidence
    BY <2>1, <2>2 DEF Certificate
  <2>4. /\ visits[children[j]] \in Nat /\ rootVisits \in Nat
        /\ Target \in Nat /\ MinEvidence \in Nat
    BY <2>1, MinEvidenceAssumption, RootSearchAssumption DEF TypeOK
  <2>5. ~(visits[children[j]] >= MinEvidence)
    BY <2>3, <2>4
  <2>6. Established(cs[i]) /\ ~Established(cs[j])
    BY <1>2, <2>1, <2>3, <2>5 DEF Established
  <2>7. QED
    BY <2>6 DEF Beats
<1>4. IsLeader(cs, i)
  BY <1>2, <1>3 DEF IsLeader
<1>5. ASSUME NEW k \in DOMAIN cs, IsLeader(cs, k), k # i
      PROVE  FALSE
  <2>1. ~Beats(cs[i], cs[k])
    BY <1>2, <1>5 DEF IsLeader
  <2>2. QED
    BY <1>3, <1>5, <2>1
<1>6. QED
  BY <1>1, <1>2, <1>4, <1>5

(* What `proven` reads off the legal candidates is a certificate.           *)
LEMMA ProvenCertifies ==
  TypeOK /\ MaskDescribes /\ Settled
    => rootVisits < Target /\ \E a \in position : Certificate(a)
<1> SUFFICES ASSUME TypeOK, rootLegal = Legal,
                    complete => position \subseteq Children, Settled
             PROVE  rootVisits < Target /\ \E a \in position : Certificate(a)
  BY DEF MaskDescribes
<1> DEFINE cs == CandidatesUnder(Legal)
           remaining == Target - rootVisits
<1>1. /\ remaining > 0
      /\ position \subseteq Children
      /\ Proven(cs, remaining)
  BY DEF Settled
<1>2. rootVisits < Target
  BY <1>1, RootSearchAssumption DEF TypeOK
<1>3. ASSUME NEW c \in position
      PROVE  \E j \in DOMAIN cs : children[j] = c /\ cs[j].visits = visits[c]
  BY <1>1, LegalCandidates DEF Children, ToSet
<1>4. CASE OutOfReachPossible(remaining)
  <2>1. PICK i \in DOMAIN cs :
          /\ IsLeader(cs, i)
          /\ \A j \in DOMAIN cs \ {i} : OutOfReach(cs[i], cs[j], remaining)
    BY <1>1, <1>4 DEF Proven
  <2>2. /\ children[i] \in position
        /\ cs[i].visits = visits[children[i]]
        /\ visits[children[i]] > 0
    BY <2>1, LegalCandidates DEF IsLeader
  <2>3. ASSUME NEW c \in position \ {children[i]}
        PROVE  /\ visits[children[i]] >= MinEvidence
               /\ visits[c] + (Target - rootVisits) < MinEvidence
    <3>1. PICK j \in DOMAIN cs : children[j] = c /\ cs[j].visits = visits[c]
      BY <1>3, <2>3
    <3>2. OutOfReach(cs[i], cs[j], remaining)
      BY <2>1, <2>3, <3>1
    <3>3. QED
      BY <2>2, <3>1, <3>2 DEF OutOfReach, Established
  <2>4. Certificate(children[i])
    BY <1>1, <2>2, <2>3 DEF Certificate
  <2>5. QED
    BY <1>2, <2>2, <2>4
<1>5. CASE ~OutOfReachPossible(remaining)
  <2>1. PICK i \in DOMAIN cs : DOMAIN cs = {i} /\ cs[i].visits > 0
    BY <1>1, <1>5 DEF Proven
  <2>2. children[i] \in position /\ visits[children[i]] > 0
    BY <2>1, LegalCandidates
  <2>3. position \subseteq {children[i]}
    BY <1>3, <2>1
  <2>4. Certificate(children[i])
    BY <1>1, <2>2, <2>3 DEF Certificate
  <2>5. QED
    BY <1>2, <2>2, <2>4
<1>6. QED
  BY <1>4, <1>5

-----------------------------------------------------------------------------

(* A refresh leaves the mask of this position and these children, although  *)
(* it keeps the mask it has where that is long enough.                      *)
LEMMA RefreshDescribes ==
  ASSUME TypeOK, MaskCoversPrefix, pc # "begin",
         UNCHANGED position,
         children' \in Seq(Choice),
         Len(children) <= Len(children'),
         \A i \in DOMAIN children : children'[i] = children[i],
         RefreshRootLegal
  PROVE  MaskDescribes'
<1> USE DEF MaskDescribes
<1>1. /\ DOMAIN children = 1..Len(children)
      /\ DOMAIN children' = 1..Len(children')
      /\ DOMAIN rootLegal = 1..Len(rootLegal)
      /\ Len(children) \in Nat /\ Len(children') \in Nat /\ Len(rootLegal) \in Nat
  BY LenProperties DEF TypeOK
<1>2. CASE children' # <<>> /\ Len(rootLegal) = Len(children')
  <2>1. rootLegal' = rootLegal /\ complete' = complete
    BY <1>2 DEF RefreshRootLegal, mask
  <2>2. /\ Len(rootLegal) = Len(children')
        /\ Len(rootLegal) = Len(children)
        /\ \A i \in 1..Len(rootLegal) :
             rootLegal[i] = (children'[i] \in position)
    <3>1. /\ Len(rootLegal) <= Len(children)
          /\ \A i \in 1..Len(rootLegal) :
               rootLegal[i] = (children[i] \in position)
      BY DEF MaskCoversPrefix
    <3>2. /\ Len(rootLegal) = Len(children')
          /\ Len(rootLegal) = Len(children)
      <4>1. ASSUME NEW l \in Nat, NEW m \in Nat, NEW n \in Nat, l <= m, m <= n, l = n
            PROVE  l = m
        BY <4>1
      <4>2. QED
        BY <1>1, <1>2, <3>1, <4>1
    <3>3. \A i \in 1..Len(rootLegal) : children'[i] = children[i]
      BY <1>1, <3>2
    <3>4. QED
      BY <3>1, <3>2, <3>3
  <2>3. rootLegal # <<>>
    BY <1>1, <1>2, EmptySeq
  <2>4. complete <=> position \subseteq {children[i] : i \in 1..Len(rootLegal)}
    BY <2>3 DEF MaskCoversPrefix
  <2>5. {children[i] : i \in 1..Len(rootLegal)} = Children'
    BY <1>1, <2>2 DEF Children, ToSet
  <2>6. rootLegal = Legal'
    <3>1. Legal' = [i \in 1..Len(rootLegal) |-> children'[i] \in position]
      BY <1>1, <2>2 DEF Legal
    <3>2. rootLegal = [i \in 1..Len(rootLegal) |-> rootLegal[i]]
      BY <1>1 DEF TypeOK
    <3>3. QED
      BY <2>2, <3>1, <3>2
  <2>7. QED
    BY <2>1, <2>4, <2>5, <2>6
<1>3. CASE ~(children' # <<>> /\ Len(rootLegal) = Len(children'))
  BY <1>3 DEF RefreshRootLegal, Legal, Children
<1>4. QED
  BY <1>2, <1>3

(* A mask that describes the children describes a prefix of them.           *)
LEMMA DescribesCoversPrefix == TypeOK /\ MaskDescribes => MaskCoversPrefix
<1> SUFFICES ASSUME TypeOK, rootLegal = Legal,
                    complete <=> position \subseteq Children
             PROVE  MaskCoversPrefix
  BY DEF MaskDescribes
<1>1. /\ DOMAIN children = 1..Len(children)
      /\ DOMAIN rootLegal = 1..Len(rootLegal)
      /\ Len(children) \in Nat /\ Len(rootLegal) \in Nat
  BY LenProperties DEF TypeOK
<1>2. DOMAIN rootLegal = DOMAIN children
  BY DEF Legal
<1>3. Len(rootLegal) = Len(children)
  <2>1. ASSUME NEW m \in Nat, NEW n \in Nat, 1..m = 1..n, m < n PROVE FALSE
    <3>1. n \in 1..n /\ n \notin 1..m
      BY <2>1
    <3>2. QED
      BY <2>1, <3>1
  <2>2. ASSUME NEW m \in Nat, NEW n \in Nat, 1..m = 1..n PROVE m = n
    BY <2>1, <2>2
  <2>3. QED
    BY <1>1, <1>2, <2>2
<1>4. \A i \in 1..Len(rootLegal) : rootLegal[i] = (children[i] \in position)
  BY <1>1, <1>3 DEF Legal
<1>5. {children[i] : i \in 1..Len(rootLegal)} = Children
  BY <1>1, <1>3 DEF Children, ToSet
<1>6. QED
  BY <1>1, <1>3, <1>4, <1>5 DEF MaskCoversPrefix

(* The prefix a mask covers stays where it is while children are appended.  *)
LEMMA PrefixKept ==
  ASSUME TypeOK, MaskCoversPrefix, pc # "begin", UNCHANGED <<position, mask>>,
         children' \in Seq(Choice),
         Len(children) <= Len(children'),
         \A i \in DOMAIN children : children'[i] = children[i]
  PROVE  MaskCoversPrefix'
<1>1. /\ DOMAIN children = 1..Len(children)
      /\ Len(children) \in Nat /\ Len(children') \in Nat /\ Len(rootLegal) \in Nat
      /\ Len(rootLegal) <= Len(children)
  BY LenProperties DEF TypeOK, MaskCoversPrefix
<1>2. \A i \in 1..Len(rootLegal) : children'[i] = children[i]
  BY <1>1
<1>3. {children'[i] : i \in 1..Len(rootLegal)} = {children[i] : i \in 1..Len(rootLegal)}
  BY <1>2
<1>4. rootLegal' = rootLegal /\ complete' = complete /\ position' = position
  BY DEF mask
<1>5. Len(rootLegal) <= Len(children')
  BY <1>1
<1>6. \A i \in 1..Len(rootLegal) : rootLegal[i] = (children'[i] \in position)
  BY <1>2 DEF MaskCoversPrefix
<1>7. rootLegal # <<>> =>
        (complete <=> position \subseteq {children'[i] : i \in 1..Len(rootLegal)})
  BY <1>3 DEF MaskCoversPrefix
<1>8. QED
  BY <1>4, <1>5, <1>6, <1>7 DEF MaskCoversPrefix

-----------------------------------------------------------------------------

LEMMA InvInit == Init => Distinct /\ MaskCoversPrefix /\ Certified
<1> SUFFICES ASSUME Init PROVE Distinct /\ MaskCoversPrefix /\ Certified
  OBVIOUS
<1>1. Distinct
  <2>1. PICK kids \in SUBSET Choice : children \in SetToSeqs(kids)
    BY DEF Init, RetainedTree
  <2>2. QED
    BY <2>1, OpenedIsSequence DEF Distinct
<1>2. MaskCoversPrefix
  BY DEF Init, MaskCoversPrefix
<1>3. Certified
  BY RootSearchAssumption DEF Init, Certified, StopReason
<1>4. QED
  BY <1>1, <1>2, <1>3

(* An iteration that the proof ends leaves the certificate it was proved by. *)
LEMMA InvIterate ==
  ASSUME IInv, TypeOK', Iterate
  PROVE  Distinct' /\ MaskCoversPrefix' /\ Certified'
<1> USE DEF IInv
<1>1. PICK world \in SUBSET Choice : Descend(world)
  BY DEF Iterate
<1>2. /\ Len(children) <= Len(children')
      /\ \A i \in DOMAIN children : children'[i] = children[i]
      /\ Distinct'
  BY <1>1, DescendGrows
<1>3. /\ pc = "iterate"
      /\ UNCHANGED position
      /\ children' \in Seq(Choice)
      /\ stopReason # "Proven"
  BY DEF Iterate, TypeOK, Certified
<1>4. CASE EarlyTermination /\ Target # 0
  <2>1. MaskDescribes'
    BY <1>2, <1>3, <1>4, RefreshDescribes DEF Iterate
  <2>2. MaskCoversPrefix'
    BY <2>1, DescribesCoversPrefix, PTL
  <2>3. Certified'
    <3>1. CASE Settled'
      <4>1. (rootVisits < Target /\ \E a \in position : Certificate(a))'
        BY <2>1, <3>1, ProvenCertifies, PTL
      <4>2. pc' = "extract"
        BY <1>4, <3>1 DEF Iterate
      <4>3. rootVisits' <= Target
        BY <4>1, RootSearchAssumption DEF TypeOK
      <4>4. QED
        BY <4>1, <4>2, <4>3 DEF Certified
    <3>2. CASE ~Settled'
      BY <1>3, <1>4, <3>2 DEF Iterate, Certified
    <3>3. QED
      BY <3>1, <3>2
  <2>4. QED
    BY <1>2, <2>2, <2>3
<1>5. CASE ~(EarlyTermination /\ Target # 0)
  <2>1. MaskCoversPrefix'
    BY <1>2, <1>3, <1>5, PrefixKept DEF Iterate
  <2>2. Certified'
    BY <1>3, <1>5 DEF Iterate, Certified
  <2>3. QED
    BY <1>2, <2>1, <2>2
<1>6. QED
  BY <1>4, <1>5

LEMMA ExtractDescribes ==
  ASSUME IInv, Extract
  PROVE  MaskDescribes'
<1>1. pc = "extract" /\ UNCHANGED <<position, children>>
  BY DEF Extract, tree
<1>2. children \in Seq(Choice) /\ Len(children) \in Nat
  BY DEF IInv, TypeOK
<1>3. Len(children) <= Len(children')
  BY <1>1, <1>2
<1>4. QED
  BY <1>1, <1>2, <1>3, RefreshDescribes DEF Extract, IInv

(* The extraction reads the certified choice off the mask it refreshed.      *)
LEMMA InvExtract ==
  ASSUME IInv, TypeOK', Extract
  PROVE  Distinct' /\ MaskCoversPrefix' /\ Certified'
<1> USE DEF IInv
<1>1. /\ pc = "extract" /\ pc' = "done"
      /\ UNCHANGED <<position, children, visits, rootVisits, stopReason>>
  BY DEF Extract, tree
<1>2. Distinct'
  BY <1>1 DEF Distinct
<1>3. MaskDescribes'
  BY ExtractDescribes
<1>4. MaskCoversPrefix'
  BY <1>3, DescribesCoversPrefix, PTL
<1>5. ASSUME stopReason = "Proven"
      PROVE  Certificate(answer)'
  <2>1. PICK a \in position : Certificate(a)
    BY <1>1, <1>5 DEF Certified
  <2>2. rootLegal' = Legal
    BY <1>1, <1>3 DEF Legal, MaskDescribes
  <2>3. PICK i \in DOMAIN CandidatesUnder(Legal) :
           /\ children[i] = a
           /\ IsLeader(CandidatesUnder(Legal), i)
           /\ \A k \in DOMAIN CandidatesUnder(Legal) :
                IsLeader(CandidatesUnder(Legal), k) => k = i
    BY <1>5, <2>1, CertificateLeads DEF Certified
  <2>4. /\ HasLeader(CandidatesUnder(Legal))
        /\ Leader(CandidatesUnder(Legal)) = i
    BY <2>3 DEF HasLeader, Leader
  <2>5. answer' = a
    BY <2>2, <2>3, <2>4 DEF Extract
  <2>6. Certificate(a)'
    BY <1>1, <2>1 DEF Certificate, Children
  <2>7. QED
    BY <2>5, <2>6 DEF Certificate
<1>6. Certified'
  BY <1>1, <1>5 DEF Certified
<1>7. QED
  BY <1>2, <1>4, <1>6

(* The iterations the proof saved cannot revoke it while the budget lasts.   *)
LEMMA InvSaved ==
  ASSUME IInv, TypeOK', SavedIteration
  PROVE  Distinct' /\ MaskCoversPrefix' /\ Certified'
<1> USE DEF IInv
<1>1. PICK world \in SUBSET Choice : Descend(world)
  BY DEF SavedIteration
<1>2. /\ pc = "done" /\ stopReason = "Proven" /\ rootVisits < Target
      /\ UNCHANGED <<pc, position, mask, stopReason, answer>>
  BY DEF SavedIteration
<1>3. /\ Len(children) <= Len(children')
      /\ \A i \in DOMAIN children : children'[i] = children[i]
      /\ Distinct'
      /\ rootVisits' = rootVisits + 1
  BY <1>1, DescendGrows
<1>4. MaskCoversPrefix'
  BY <1>2, <1>3, PrefixKept DEF TypeOK
<1>5. Certificate(answer)'
  <2>1. Certificate(answer)
    BY <1>2 DEF Certified
  <2>2. UNCHANGED position /\ answer' = answer
    BY <1>2
  <2>3. QED
    BY <1>1, <2>1, <2>2, CertificateSurvives DEF Certificate
<1>6. rootVisits' <= Target
  BY <1>2, <1>3, RootSearchAssumption DEF TypeOK
<1>7. QED
  BY <1>2, <1>3, <1>4, <1>5, <1>6 DEF Certified

(* The inductive invariant: the mask covers a prefix of the children, and   *)
(* what stopReason says is certified by counts.                             *)
THEOREM InductiveInvariant == CounterfactualSpec => []IInv
<1>1. Init /\ TypeOK => IInv
  BY InvInit DEF IInv
<1>2. IInv /\ TypeOK' /\ [CounterfactualNext]_vars => IInv'
  <2> SUFFICES ASSUME IInv, TypeOK', [CounterfactualNext]_vars
               PROVE  Distinct' /\ MaskCoversPrefix' /\ Certified'
    BY DEF IInv
  <2>1. CASE Begin
    <3>1. /\ pc = "begin" /\ pc' = "check" /\ rootLegal' = <<>>
          /\ UNCHANGED <<position, children, stopReason>>
      BY <2>1 DEF Begin, tree
    <3>2. Distinct'
      BY <3>1 DEF IInv, Distinct
    <3>3. MaskCoversPrefix'
      <4>1. Len(rootLegal') = 0
        BY <3>1, EmptySeq
      <4>2. Len(children') \in Nat
        BY <3>1, LenProperties DEF IInv, TypeOK
      <4>3. QED
        BY <3>1, <4>1, <4>2 DEF MaskCoversPrefix
    <3>4. Certified'
      BY <3>1 DEF IInv, Certified
    <3>5. QED
      BY <3>2, <3>3, <3>4
  <2>2. ASSUME NEW reason \in StopReason \ {"Proven"}, Break(reason)
        PROVE  Distinct' /\ MaskCoversPrefix' /\ Certified'
    BY <2>2 DEF Break, tree, mask, IInv, Distinct, MaskCoversPrefix, Certified
  <2>3. CASE Continue
    BY <2>3 DEF Continue, tree, mask, IInv, Distinct, MaskCoversPrefix, Certified
  <2>4. CASE Iterate
    BY <2>4, InvIterate
  <2>5. CASE Extract
    BY <2>5, InvExtract
  <2>6. ASSUME UNCHANGED <<position, tree, mask, stopReason, answer>>, pc' = pc
        PROVE  Distinct' /\ MaskCoversPrefix' /\ Certified'
    BY <2>6 DEF tree, mask, IInv, Distinct, MaskCoversPrefix, Certified,
                Certificate, Children
  <2>7. CASE Cancel
    BY <2>6, <2>7 DEF Cancel
  <2>8. CASE Expire
    BY <2>6, <2>8 DEF Expire
  <2>9. CASE SavedIteration
    BY <2>9, InvSaved
  <2>10. CASE UNCHANGED vars
    BY <2>6, <2>10 DEF vars
  <2>11. QED
    BY <2>1, <2>2, <2>3, <2>4, <2>5, <2>7, <2>8, <2>9, <2>10
       DEF CounterfactualNext, Next, Search, StopOnBudget, StopOnCancel,
           StopOnDeadline, StopReason
<1>3. QED
  BY <1>1, <1>2, TypeInvariant, PTL DEF CounterfactualSpec

(* `settled` stops a search early only where the whole budget would answer  *)
(* the same: however the saved iterations fall, the answer still leads.     *)
THEOREM ProvenIsSound == CounterfactualSpec => []ProvenStands
<1>1. IInv => ProvenStands
  <2> SUFFICES ASSUME IInv, pc = "done", stopReason = "Proven"
               PROVE  \E i \in DOMAIN CandidatesUnder(Legal) :
                        /\ children[i] = answer
                        /\ IsLeader(CandidatesUnder(Legal), i)
    BY DEF ProvenStands
  <2>1. Certificate(answer) /\ rootVisits <= Target
    BY DEF IInv, Certified
  <2>2. QED
    BY <2>1, CertificateLeads DEF IInv
<1>2. QED
  BY <1>1, InductiveInvariant, PTL

-----------------------------------------------------------------------------

(* A search is a counterfactual search that saves nothing.                  *)
LEMMA SearchIsCounterfactual == Spec => CounterfactualSpec
<1>1. [Next]_vars => [CounterfactualNext]_vars
  BY DEF CounterfactualNext
<1>2. QED
  BY <1>1, PTL DEF Spec, CounterfactualSpec

(* What Proven stamps stands alone: every choice of the position has a      *)
(* child, and none but the answer is over the evidence bar.                 *)
THEOREM ProvenStandsAlone == Spec => []ProvenAnswerStandsAlone
<1>1. IInv => ProvenAnswerStandsAlone
  <2> SUFFICES ASSUME IInv, pc = "done", stopReason = "Proven"
               PROVE  /\ position \subseteq Children
                      /\ visits[answer] >= MinEvidence \/ position = {answer}
                      /\ \A c \in position \ {answer} : visits[c] < MinEvidence
    BY DEF ProvenAnswerStandsAlone
  <2>1. Certificate(answer) /\ rootVisits <= Target
    BY DEF IInv, Certified
  <2>2. visits[answer] >= MinEvidence \/ position = {answer}
    BY <2>1 DEF Certificate
  <2>3. ASSUME NEW c \in position \ {answer} PROVE visits[c] < MinEvidence
    <3>1. /\ visits[c] \in Nat /\ rootVisits \in Nat
          /\ Target \in Nat /\ MinEvidence \in Nat
      BY MinEvidenceAssumption, RootSearchAssumption DEF IInv, TypeOK
    <3>2. visits[c] + (Target - rootVisits) < MinEvidence
      BY <2>1 DEF Certificate
    <3>3. QED
      BY <2>1, <3>1, <3>2
  <2>4. QED
    BY <2>1, <2>2, <2>3 DEF Certificate
<1>2. QED
  BY <1>1, InductiveInvariant, SearchIsCounterfactual, PTL

(* The mask cached by its length is never a stale one.                      *)
THEOREM MaskStaysCurrent == Spec => []MaskIsCurrent
<1>1. IInv => MaskIsCurrent
  <2> SUFFICES ASSUME IInv, pc # "begin", children # <<>>,
                      Len(rootLegal) = Len(children)
               PROVE  rootLegal = Legal /\ (complete <=> position \subseteq Children)
    BY DEF MaskIsCurrent
  <2>1. /\ DOMAIN children = 1..Len(children)
        /\ DOMAIN rootLegal = 1..Len(rootLegal)
        /\ Len(rootLegal) \in Nat
    BY LenProperties DEF IInv, TypeOK
  <2>2. \A i \in 1..Len(rootLegal) : rootLegal[i] = (children[i] \in position)
    BY DEF IInv, MaskCoversPrefix
  <2>3. rootLegal = [i \in 1..Len(rootLegal) |-> rootLegal[i]]
    BY <2>1 DEF IInv, TypeOK
  <2>4. rootLegal = Legal
    BY <2>1, <2>2, <2>3 DEF Legal
  <2>5. rootLegal # <<>>
    BY <2>1, EmptySeq DEF IInv, TypeOK
  <2>6. complete <=> position \subseteq {children[i] : i \in 1..Len(rootLegal)}
    BY <2>5 DEF IInv, MaskCoversPrefix
  <2>7. {children[i] : i \in 1..Len(rootLegal)} = Children
    BY <2>1 DEF Children, ToSet
  <2>8. QED
    BY <2>4, <2>6, <2>7
<1>2. QED
  BY <1>1, InductiveInvariant, SearchIsCounterfactual, PTL

(* The answer is a choice the position offers, whatever worlds were sampled. *)
THEOREM AnswerStaysLegal == Spec => []AnswerIsLegal
<1>1. Init => AnswerIsLegal
  BY DEF Init, AnswerIsLegal
<1>2. IInv /\ AnswerIsLegal /\ [Next]_vars => AnswerIsLegal'
  <2> SUFFICES ASSUME IInv, AnswerIsLegal, [Next]_vars, pc' = "done"
               PROVE  answer' \in position'
    BY DEF AnswerIsLegal
  <2>1. CASE Extract
    <3>1. UNCHANGED <<position, children, tree>>
      BY <2>1 DEF Extract, tree
    <3>2. rootLegal' = Legal
      BY <2>1, <3>1, ExtractDescribes DEF MaskDescribes, Legal
    <3>3. CASE HasLeader(CandidatesUnder(Legal))
      <4>1. answer' = children[Leader(CandidatesUnder(Legal))]
        BY <2>1, <3>2, <3>3 DEF Extract
      <4>2. Leader(CandidatesUnder(Legal)) \in DOMAIN CandidatesUnder(Legal)
        BY <3>3 DEF HasLeader, Leader
      <4>3. QED
        BY <3>1, <4>1, <4>2, LegalCandidates DEF IInv
    <3>4. CASE ~HasLeader(CandidatesUnder(Legal))
      BY <2>1, <3>1, <3>2, <3>4 DEF Extract
    <3>5. QED
      BY <3>3, <3>4
  <2>2. CASE UNCHANGED vars
    BY <2>2 DEF vars, AnswerIsLegal
  <2>3. QED
    BY <2>1, <2>2 DEF Next, Search, Begin, StopOnBudget, StopOnCancel,
       StopOnDeadline, Break, Continue, Iterate, Cancel, Expire
<1>3. QED
  BY <1>1, <1>2, InductiveInvariant, SearchIsCounterfactual, PTL DEF Spec

-----------------------------------------------------------------------------

(* What the budget is counted in: the iterations of this search on top of    *)
(* the visits its root came with; an iteration is begun only within it.      *)
BudgetInv ==
  /\ BudgetIsExact
  /\ pc = "iterate" => ~Spent

LEMMA BudgetInvIterate ==
  ASSUME IInv, IInv', BudgetInv, Iterate
  PROVE  BudgetInv'
<1>1. PICK world \in SUBSET Choice : Descend(world)
  BY DEF Iterate
<1>2. /\ pc = "iterate" /\ pc' \in {"check", "extract"}
      /\ rootVisits' = rootVisits + 1 /\ iterations' = iterations + 1
      /\ reused' = reused
      /\ stopReason' \in {stopReason, "Proven"}
      /\ pc' = "check" => stopReason' = stopReason
      /\ pc' = "extract" => Settled'
  BY <1>1 DEF Iterate, Descend
<1>3. /\ rootVisits \in Nat /\ iterations \in Nat /\ reused \in Nat /\ Target \in Nat
      /\ stopReason = None
  BY <1>2, RootSearchAssumption DEF IInv, TypeOK
<1>4. /\ rootVisits' = reused' + iterations' /\ iterations' > 0
      /\ Target # 0 => rootVisits' <= Target
  BY <1>2, <1>3 DEF BudgetInv, BudgetIsExact, Spent
<1>5. pc' = "extract" => rootVisits' < Target
  <2> SUFFICES ASSUME pc' = "extract" PROVE rootVisits' < Target
    OBVIOUS
  <2>1. (Target - rootVisits') > 0
    BY <1>2 DEF Settled
  <2> QED BY <1>2, <1>3, <2>1
<1>6. stopReason' # "Budget"
  BY <1>2, <1>3, RootSearchAssumption DEF StopReason
<1> QED BY <1>2, <1>4, <1>5, <1>6 DEF BudgetInv, BudgetIsExact

(* Config::iterations bounds the root's visits, a retained tree's included, *)
(* for every budget: no search overruns it, none that reports Budget fell   *)
(* short of it, and a proof is only made while some of it is left.          *)
THEOREM BudgetStaysExact == CounterfactualSpec => []BudgetIsExact
<1>1. Init => BudgetInv
  BY DEF Init, BudgetInv, BudgetIsExact
<1>2. IInv /\ IInv' /\ BudgetInv /\ [CounterfactualNext]_vars => BudgetInv'
  <2> SUFFICES ASSUME IInv, IInv', BudgetInv, [CounterfactualNext]_vars PROVE BudgetInv'
    OBVIOUS
  <2> USE DEF BudgetInv, BudgetIsExact
  <2>1. /\ rootVisits \in Nat /\ iterations \in Nat /\ reused \in Nat /\ Target \in Nat
        /\ pc \in {"begin", "check", "iterate"} => stopReason = None
        /\ None \notin StopReason
    BY RootSearchAssumption DEF IInv, TypeOK
  <2>2. CASE Begin
    BY <2>1, <2>2 DEF Begin, tree, StopReason
  <2>3. CASE StopOnBudget
    BY <2>1, <2>3 DEF StopOnBudget, Break, tree, Spent
  <2>4. CASE StopOnCancel \/ StopOnDeadline
    BY <2>1, <2>4 DEF StopOnCancel, StopOnDeadline, Break, tree
  <2>5. CASE Continue
    BY <2>1, <2>5 DEF Continue, tree, Spent
  <2>6. CASE Iterate
    BY <2>6, BudgetInvIterate
  <2>7. CASE Extract
    BY <2>1, <2>7 DEF Extract, tree
  <2>8. CASE Cancel \/ Expire
    BY <2>8 DEF Cancel, Expire, tree, Spent
  <2>9. CASE SavedIteration
    <3>1. /\ rootVisits' = rootVisits + 1 /\ iterations' = iterations + 1
          /\ pc = "done" /\ rootVisits < Target
          /\ UNCHANGED <<pc, reused, stopReason>> /\ stopReason = "Proven"
      BY <2>9 DEF SavedIteration, Descend
    <3> QED BY <2>1, <3>1
  <2>10. CASE UNCHANGED vars
    BY <2>10 DEF vars, tree, Spent
  <2> QED BY <2>2, <2>3, <2>4, <2>5, <2>6, <2>7, <2>8, <2>9, <2>10
          DEF CounterfactualNext, Next, Search
<1>3. BudgetInv => BudgetIsExact
  BY DEF BudgetInv
<1> QED BY <1>1, <1>2, <1>3, InductiveInvariant, PTL DEF CounterfactualSpec

-----------------------------------------------------------------------------

(* The count of iterations at which the clock is next read, after one.      *)
NextPoll(n) == n - (n % PollPeriod) + PollPeriod

LEMMA NextPollPolls ==
  ASSUME NEW n \in Nat
  PROVE  /\ NextPoll(n) \in Nat
         /\ n < NextPoll(n) /\ NextPoll(n) <= n + PollPeriod
         /\ NextPoll(n) % PollPeriod = 0
<1>1. PollPeriod \in Nat \ {0}
  BY RootSearchAssumption
<1> DEFINE q == n \div PollPeriod
<1>2. q \in Nat /\ n % PollPeriod \in 0..(PollPeriod - 1)
      /\ n = PollPeriod * q + (n % PollPeriod)
  BY <1>1
<1>3. NextPoll(n) = PollPeriod * (q + 1)
  BY <1>1, <1>2 DEF NextPoll
<1>4. (PollPeriod * (q + 1)) % PollPeriod = 0
  <2> HIDE DEF q
  <2> QED BY <1>1, <1>2, Z3
<1> QED BY <1>1, <1>2, <1>3, <1>4 DEF NextPoll

(* A flag that is set is seen before another iteration begins; a deadline   *)
(* that passed is seen at the next reading of the clock, which is not past. *)
PromptInv ==
  /\ StopsPromptly
  /\ pc = "begin" => iterations = 0
  /\ CancelSeen /\ pc \in {"begin", "iterate"} => iterations <= cancelled
  /\ expired # None => iterations >= expired /\ iterations <= NextPoll(expired)
  /\ expired # None /\ pc = "iterate" => iterations < NextPoll(expired)

(* A search stops promptly for any poll period, whoever cancels it and      *)
(* whenever its time runs out, between two tests and during an iteration    *)
(* alike.                                                                   *)
THEOREM SearchStopsPromptly == Spec => []StopsPromptly
<1> USE DEF PromptInv, StopsPromptly, CancelSeen
<1>1. Init => PromptInv
  BY RootSearchAssumption DEF Init, StopReason
<1>2. TypeOK /\ TypeOK' /\ PromptInv /\ [Next]_vars => PromptInv'
  <2> SUFFICES ASSUME TypeOK, TypeOK', PromptInv, [Next]_vars PROVE PromptInv'
    OBVIOUS
  <2>1. /\ iterations \in Nat /\ PollPeriod \in Nat \ {0}
        /\ cancelled # None => cancelled \in Nat
        /\ expired # None => expired \in Nat
        /\ pc \in {"begin", "check", "iterate"} => stopReason = None
        /\ None \notin StopReason
    BY RootSearchAssumption DEF TypeOK
  <2>2. expired # None => /\ NextPoll(expired) \in Nat
                          /\ expired < NextPoll(expired)
                          /\ NextPoll(expired) <= expired + PollPeriod
                          /\ NextPoll(expired) % PollPeriod = 0
    BY <2>1, NextPollPolls
  <2>3. CASE Begin
    BY <2>1, <2>2, <2>3 DEF Begin, clock, StopReason
  <2>4. CASE StopOnBudget \/ StopOnCancel \/ StopOnDeadline
    BY <2>1, <2>2, <2>4
       DEF StopOnBudget, StopOnCancel, StopOnDeadline, Break, clock, DeadlineSeen
  <2>5. CASE Continue
    <3>1. /\ UNCHANGED <<iterations, cancelled, expired, stopReason>>
          /\ pc = "check" /\ pc' = "iterate"
          /\ cancelled = None
          /\ expired # None => iterations % PollPeriod # 0
      BY <2>5 DEF Continue, clock, DeadlineSeen, PollsClock
    <3>2. expired # None => iterations # NextPoll(expired)
      BY <2>2, <3>1
    <3> QED BY <2>1, <2>2, <3>1, <3>2
  <2>6. CASE Iterate
    <3>1. /\ UNCHANGED <<cancelled, expired>>
          /\ pc = "iterate" /\ pc' \in {"check", "extract"}
          /\ iterations' = iterations + 1
          /\ stopReason' \in {stopReason, "Proven"}
      BY <2>6 DEF Iterate, clock
    <3> QED BY <2>1, <2>2, <3>1 DEF StopReason
  <2>7. CASE Extract
    BY <2>1, <2>2, <2>7 DEF Extract, clock
  <2>8. CASE Cancel
    BY <2>1, <2>2, <2>8 DEF Cancel
  <2>9. CASE Expire
    <3>1. /\ UNCHANGED <<pc, iterations, cancelled, stopReason>>
          /\ expired = None /\ expired' = iterations
          /\ pc \in {"check", "iterate"}
      BY <2>9 DEF Expire
    <3>2. /\ NextPoll(iterations) \in Nat
          /\ iterations < NextPoll(iterations)
          /\ NextPoll(iterations) <= iterations + PollPeriod
      BY <2>1, NextPollPolls
    <3> QED BY <2>1, <3>1, <3>2
  <2>10. CASE UNCHANGED vars
    BY <2>10 DEF vars, clock
  <2> QED BY <2>3, <2>4, <2>5, <2>6, <2>7, <2>8, <2>9, <2>10 DEF Next, Search
<1>3. PromptInv => StopsPromptly
  OBVIOUS
<1> QED BY <1>1, <1>2, <1>3, TypeInvariant, SearchIsCounterfactual, PTL DEF Spec

-----------------------------------------------------------------------------

(* The legal children are honest candidates.                                *)
LEMMA LegalAreHonest ==
  ASSUME TypeOK
  PROVE  HonestOn(CandidatesUnder(Legal), DOMAIN CandidatesUnder(Legal))
<1> DEFINE cs == CandidatesUnder(Legal)
<1>1. DOMAIN cs \subseteq DOMAIN children
  BY LegalCandidates
<1>2. DOMAIN children = 1..Len(children) /\ Len(children) \in Nat
  BY LenProperties DEF TypeOK
<1>3. IsFiniteSet(DOMAIN children)
  BY <1>2, FS_Interval
<1>4. IsFiniteSet(DOMAIN cs) /\ DOMAIN cs \subseteq Nat
  BY <1>1, <1>2, <1>3, FS_Subset
<1>5. ASSUME NEW i \in DOMAIN cs PROVE cs[i] \in Candidate(Int)
  <2>1. children[i] \in Choice
    BY <1>1, <1>2, <1>5 DEF TypeOK
  <2>2. /\ visits[children[i]] \in Nat
        /\ timesAvailable[children[i]] \in Nat
        /\ mean[children[i]] \in Int
    BY <2>1, RootSearchAssumption DEF TypeOK
  <2>3. cs[i] = [visits         |-> visits[children[i]],
                 timesAvailable |-> timesAvailable[children[i]],
                 mean           |-> mean[children[i]]]
    BY DEF CandidatesUnder
  <2> QED BY <2>2, <2>3 DEF Candidate
<1>6. HonestOn(cs, DOMAIN cs)
  <2> HIDE DEF cs
  <2> QED BY <1>4, <1>5 DEF HonestOn
<1> QED BY <1>6

(* The answer of a search that no proof ended leads the legal children, of  *)
(* however many any was visited: the extraction reads the mask it has just  *)
(* refreshed, and among honest candidates there is always a leader.         *)
THEOREM AnswerAlwaysLeads == CounterfactualSpec => []AnswerLeads
<1>1. Init => AnswerLeads
  BY DEF Init, AnswerLeads
<1>2. IInv /\ AnswerLeads /\ [CounterfactualNext]_vars => AnswerLeads'
  <2> SUFFICES ASSUME IInv, AnswerLeads, [CounterfactualNext]_vars PROVE AnswerLeads'
    OBVIOUS
  <2>1. CASE Extract
    <3> DEFINE cs == CandidatesUnder(Legal)
    <3>1. /\ UNCHANGED <<position, children, visits, timesAvailable, mean>>
          /\ cs' = cs
      BY <2>1 DEF Extract, tree, CandidatesUnder, Legal
    <3>2. rootLegal' = Legal
      BY <2>1, <3>1, ExtractDescribes DEF MaskDescribes, Legal
    <3>3. ASSUME NEW k \in DOMAIN cs, cs[k].visits > 0
          PROVE  \E i \in DOMAIN cs : children[i] = answer' /\ IsLeader(cs, i)
      <4>1. /\ HasLeader(cs)
            /\ Leader(cs) \in DOMAIN cs
            /\ IsLeader(cs, Leader(cs))
        BY <3>3, LegalAreHonest, LeaderExists DEF IInv
      <4>2. answer' = children[Leader(cs)]
        BY <2>1, <3>2, <4>1 DEF Extract
      <4> QED BY <4>1, <4>2
    <3> HIDE DEF cs
    <3>4. AnswerLeads' <=>
            (pc' = "done" /\ stopReason' # "Proven" /\ (\E i \in DOMAIN cs : cs[i].visits > 0)
               => \E i \in DOMAIN cs : children[i] = answer' /\ IsLeader(cs, i))
      BY <3>1 DEF AnswerLeads, cs
    <3> QED BY <3>3, <3>4
  <2>2. CASE SavedIteration
    BY <2>2 DEF SavedIteration, AnswerLeads
  <2>3. CASE UNCHANGED vars
    BY <2>3 DEF vars, tree, AnswerLeads, CandidatesUnder, Legal
  <2>4. CASE Next /\ ~Extract
    <3>1. pc' # "done"
      BY <2>4 DEF Next, Search, Begin, StopOnBudget, StopOnCancel, StopOnDeadline, Break,
                  Continue, Iterate, Cancel, Expire
    <3> QED BY <3>1 DEF AnswerLeads
  <2> QED BY <2>1, <2>2, <2>3, <2>4 DEF CounterfactualNext
<1> QED BY <1>1, <1>2, InductiveInvariant, PTL DEF CounterfactualSpec

-----------------------------------------------------------------------------
(* The scan that a root's answer is read off, over any list with honest     *)
(* means: what every module names Leader(cs) is what that loop returns.     *)

(* The lists hold no NaN mean. *)
Honest == Candidates \subseteq Seq(Candidate(Int))

Visited(i) == candidates[i].visits # 0

(* Of the candidates that were scanned, the incumbent is the first maximum; *)
(* there is none as long as none was visited.                               *)
Scanned ==
  /\ candidates \in Seq(Candidate(Int))
  /\ next \in 1..(Len(candidates) + 1)
  /\ leader \in 0..(next - 1)
  /\ leader = 0 => \A i \in 1..(next - 1) : ~Visited(i)
  /\ leader # 0 => /\ Visited(leader)
                   /\ \A i \in 1..(next - 1) : Visited(i) =>
                        /\ ~Beats(candidates[i], candidates[leader])
                        /\ i < leader => Beats(candidates[leader], candidates[i])

(* The candidates of the list have their types. *)
LEMMA CandidateTyped ==
  ASSUME Scanned, NEW i \in 1..Len(candidates)
  PROVE  candidates[i] \in Candidate(Int) /\ candidates[i].visits \in Nat
<1>1. candidates[i] \in Candidate(Int)
  BY DEF Scanned
<1> QED BY <1>1 DEF Candidate

(* Before the first candidate there is nothing to be maximal among. *)
LEMMA ScannedInit == Honest /\ ScanInit => Scanned
<1> SUFFICES ASSUME Honest, ScanInit PROVE Scanned
  OBVIOUS
<1>1. candidates \in Seq(Candidate(Int)) /\ next = 1 /\ leader = 0
  BY DEF Honest, ScanInit
<1>2. Len(candidates) \in Nat
  BY <1>1
<1> QED BY <1>1, <1>2 DEF Scanned

(* Each candidate is passed over or takes the lead, and either way the      *)
(* incumbent is the first maximum of one candidate more.                    *)
LEMMA ScannedNext == Scanned /\ [ScanNext]_scan => Scanned'
<1> SUFFICES ASSUME Scanned, [ScanNext]_scan PROVE Scanned'
  OBVIOUS
<1>1. /\ candidates \in Seq(Candidate(Int))
      /\ Len(candidates) \in Nat
      /\ next \in 1..(Len(candidates) + 1)
      /\ leader \in 0..(next - 1)
  BY DEF Scanned
<1>2. CASE SkipUnvisited
  <2>1. /\ next \in 1..Len(candidates) /\ ~Visited(next)
        /\ next' = next + 1 /\ candidates' = candidates /\ leader' = leader
    BY <1>1, <1>2 DEF SkipUnvisited, Scanning, Visited
  <2> QED BY <1>1, <2>1 DEF Scanned, Visited
<1>3. CASE KeepIncumbent
  <2>1. /\ next \in 1..Len(candidates) /\ leader # 0
        /\ ~Beats(candidates[next], candidates[leader])
        /\ next' = next + 1 /\ candidates' = candidates /\ leader' = leader
    BY <1>1, <1>3 DEF KeepIncumbent, Scanning
  <2> QED BY <1>1, <2>1 DEF Scanned, Visited
<1>4. CASE Promote
  <2>1. /\ next \in 1..Len(candidates) /\ Visited(next)
        /\ leader # 0 => Beats(candidates[next], candidates[leader])
        /\ next' = next + 1 /\ candidates' = candidates /\ leader' = next
    BY <1>1, <1>4 DEF Promote, Scanning, Visited
  (* What the old incumbent was not beaten by, the new one beats. *)
  <2>2. ASSUME NEW i \in 1..(next - 1), Visited(i)
        PROVE  Beats(candidates[next], candidates[i])
    <3>1. leader # 0 /\ ~Beats(candidates[i], candidates[leader])
      BY <2>2 DEF Scanned
    <3>2. /\ candidates[i] \in Candidate(Int)
          /\ candidates[leader] \in Candidate(Int)
          /\ candidates[next] \in Candidate(Int)
      BY <1>1, <2>1, <3>1, CandidateTyped
    <3> QED BY <2>1, <3>1, <3>2, BeatsNegativelyTransitive
  <2>3. ASSUME NEW i \in 1..next, Visited(i)
        PROVE  ~Beats(candidates[i], candidates[next])
    <3>1. candidates[i] \in Candidate(Int) /\ candidates[next] \in Candidate(Int)
      BY <1>1, <2>1, CandidateTyped
    <3>2. CASE i = next
      BY <3>1, <3>2, BeatsAsymmetric
    <3>3. CASE i # next
      <4>1. Beats(candidates[next], candidates[i])
        BY <1>1, <2>2, <2>3, <3>3
      <4> QED BY <3>1, <4>1, BeatsAsymmetric
    <3> QED BY <3>2, <3>3
  <2> QED BY <1>1, <2>1, <2>2, <2>3 DEF Scanned, Visited
<1>5. CASE UNCHANGED scan
  BY <1>5 DEF scan, Scanned, Visited
<1> QED BY <1>2, <1>3, <1>4, <1>5 DEF ScanNext

(* At the end of the list, all the candidates were scanned. *)
LEMMA ScannedAnswers == Scanned => FirstMaximum
<1> SUFFICES ASSUME Scanned, Done
             PROVE  IF \E i \in DOMAIN candidates : candidates[i].visits > 0
                    THEN leader # 0 /\ IsLeader(candidates, leader)
                    ELSE leader = 0
  BY DEF FirstMaximum
<1>1. /\ candidates \in Seq(Candidate(Int))
      /\ Len(candidates) \in Nat
      /\ DOMAIN candidates = 1..Len(candidates)
      /\ next = Len(candidates) + 1
  BY DEF Scanned, Done, Scanning
<1>2. \A i \in DOMAIN candidates : Visited(i) <=> candidates[i].visits > 0
  BY <1>1, CandidateTyped DEF Visited
<1>3. CASE leader = 0
  BY <1>1, <1>2, <1>3 DEF Scanned
<1>4. CASE leader # 0
  <2>1. leader \in DOMAIN candidates /\ candidates[leader].visits > 0
    BY <1>1, <1>2, <1>4 DEF Scanned
  <2>2. IsLeader(candidates, leader)
    BY <1>1, <1>2, <1>4, <2>1 DEF Scanned, IsLeader
  <2> QED BY <1>4, <2>1, <2>2
<1> QED BY <1>3, <1>4

(* Whatever list of candidates with honest means the scan is given, it ends *)
(* at their first maximum, or at none if none was visited.                  *)
THEOREM ScanFindsFirstMaximum ==
  ASSUME Honest PROVE ScanSpec => []FirstMaximum
<1>1. ScanInit => Scanned
  BY ScannedInit
<1>2. Scanned /\ [ScanNext]_scan => Scanned'
  BY ScannedNext
<1>3. Scanned => FirstMaximum
  BY ScannedAnswers
<1> QED BY <1>1, <1>2, <1>3, PTL DEF ScanSpec

(* What the modules CHOOSE as Leader(cs) is what the scan returns, wherever *)
(* it returns a candidate.                                                  *)
THEOREM ScanReturnsTheLeader ==
  ASSUME Honest
  PROVE  ScanSpec => [](Done /\ leader # 0 => leader = Leader(candidates))
<1>1. ScanInit => Scanned
  BY ScannedInit
<1>2. Scanned /\ [ScanNext]_scan => Scanned'
  BY ScannedNext
<1>3. Scanned => (Done /\ leader # 0 => leader = Leader(candidates))
  <2> SUFFICES ASSUME Scanned, Done, leader # 0
               PROVE  leader = Leader(candidates)
    OBVIOUS
  <2>1. /\ Len(candidates) \in Nat
        /\ DOMAIN candidates = 1..Len(candidates)
        /\ leader \in DOMAIN candidates
        /\ Visited(leader)
    BY DEF Scanned, Done, Scanning
  <2>2. candidates[leader].visits > 0
    BY <2>1, CandidateTyped DEF Visited
  <2>3. IsLeader(candidates, leader)
    BY <2>1, <2>2, ScannedAnswers DEF FirstMaximum
  <2>4. Leader(candidates) \in DOMAIN candidates /\ IsLeader(candidates, Leader(candidates))
    BY <2>1, <2>3 DEF Leader
  <2> QED BY <2>1, <2>3, <2>4, LeaderIsUnique
<1> QED BY <1>1, <1>2, <1>3, PTL DEF ScanSpec

-----------------------------------------------------------------------------
(* Places of a list, and the entries at them.                               *)

(* The places, from the least on. *)
Lists(at, places) ==
  /\ at \in [1..Cardinality(places) -> places]
  /\ \A j, k \in 1..Cardinality(places) : j < k => at[j] < at[k]

LEMMA PlacesAreListed ==
  ASSUME NEW places, IsFiniteSet(places), places \subseteq Nat
  PROVE  \E at : Lists(at, places)
<1> DEFINE Unlisted == {U \in SUBSET places : ~ \E at : Lists(at, U)}
<1> SUFFICES ASSUME Unlisted # {} PROVE FALSE
  OBVIOUS
<1>1. PICK U \in Unlisted : \A V \in Unlisted : V \subseteq U => V = U
  <2>1. Unlisted \in SUBSET (SUBSET places)
    OBVIOUS
  <2>2. Unlisted # {}
    OBVIOUS
  <2>3. IsFiniteSet(places)
    OBVIOUS
  <2> HIDE DEF Unlisted
  <2> QED BY ONLY <2>1, <2>2, <2>3, MinimalSubset
<1>2. U \in SUBSET Nat /\ IsFiniteSet(U)
  BY <1>1, FS_Subset
<1>3. CASE U = {}
  <2>1. Cardinality(U) = 0
    BY <1>3, FS_EmptySet
  <2>2. Lists(<<>>, U)
    BY <1>3, <2>1 DEF Lists
  <2> QED BY <1>1, <2>2
<1>4. CASE U # {}
  <2>1. PICK x \in U : \A y \in U : x <= y
    BY <1>2, <1>4, LeastNatural
  <2> DEFINE V == U \ {x}
             n == Cardinality(V)
  <2>2. V \notin Unlisted /\ V \in SUBSET places
    BY <1>1, <2>1
  <2>3. PICK at : Lists(at, V)
    BY <2>2
  <2>4. n \in Nat /\ Cardinality(U) = n + 1
    <3>1. IsFiniteSet(V) /\ n = Cardinality(U) - 1
      BY ONLY <1>2, <2>1, FS_RemoveElement
    <3>2. Cardinality(U) \in Nat /\ n \in Nat
      BY ONLY <1>2, <3>1, FS_CardinalityType
    <3> QED BY <3>1, <3>2
  <2> DEFINE all == [k \in 1..(n + 1) |-> IF k = 1 THEN x ELSE at[k - 1]]
  <2>5. \A k \in 1..n : at[k] \in U /\ at[k] > x /\ at[k] \in Nat
    <3>1. at \in [1..n -> V] /\ V \subseteq U /\ x \notin V
      BY <2>3 DEF Lists
    <3> HIDE DEF V, n
    <3>2. ASSUME NEW k \in 1..n
          PROVE  at[k] \in U /\ at[k] # x
      BY <3>1
    <3>3. ASSUME NEW k \in 1..n
          PROVE  at[k] \in U /\ at[k] > x /\ at[k] \in Nat
      <4>1. at[k] \in U /\ at[k] # x /\ at[k] \in Nat /\ x \in Nat /\ x <= at[k]
        BY <1>2, <2>1, <3>2
      <4> QED BY <4>1
    <3> QED BY <3>3
  <2>6. \A j, k \in 1..n : j < k => at[j] < at[k]
    BY <2>3 DEF Lists
  <2> HIDE DEF V, n
  <2>7. ASSUME NEW k \in 1..(n + 1)
        PROVE  /\ all[k] \in U
               /\ k # 1 => k - 1 \in 1..n /\ all[k] = at[k - 1]
               /\ k = 1 => all[k] = x
    BY <2>1, <2>4, <2>5
  <2>8. ASSUME NEW j \in 1..(n + 1), NEW k \in 1..(n + 1), j < k
        PROVE  all[j] < all[k]
    <3>1. k # 1 /\ k - 1 \in 1..n /\ all[k] = at[k - 1]
      BY <2>4, <2>7, <2>8
    <3> HIDE DEF all
    <3>2. CASE j = 1
      BY <2>4, <2>5, <2>7, <3>1, <3>2
    <3>3. CASE j # 1
      <4>1. j - 1 \in 1..n /\ all[j] = at[j - 1] /\ j - 1 < k - 1
        BY <2>4, <2>7, <2>8, <3>3
      <4> QED BY <2>6, <3>1, <4>1
    <3> QED BY <3>2, <3>3
  <2>9. Lists(all, U)
    BY <2>4, <2>7, <2>8 DEF Lists
  <2> QED BY <1>1, <2>9
<1> QED BY <1>3, <1>4

(* A part of a list has the entries at its places, and each of them once.   *)
IsPart(sub, list, places, at) ==
  /\ at \in [1..Len(sub) -> places]
  /\ \A j, k \in 1..Len(sub) : at[j] = at[k] => j = k
  /\ \A p \in places : \E k \in 1..Len(sub) : at[k] = p
  /\ \A k \in 1..Len(sub) : sub[k] = list[at[k]]

LEMMA InjectionIsOnto ==
  ASSUME NEW S, NEW T, NEW f, f \in Injection(S, T), IsFiniteSet(T),
         Cardinality(S) = Cardinality(T)
  PROVE  f \in Surjection(S, T)
BY FS_Injection

LEMMA SubsequenceIsPart ==
  ASSUME NEW T, NEW list \in Seq(T), NEW places, places \subseteq DOMAIN list
  PROVE  /\ Subsequence(list, places) \in Seq(T)
         /\ \E at : IsPart(Subsequence(list, places), list, places, at)
         /\ Len(Subsequence(list, places)) = Cardinality(places)
<1> DEFINE n   == Cardinality(places)
           at  == CHOOSE f \in [1..n -> places] : \A j, k \in 1..n : j < k => f[j] < f[k]
           sub == Subsequence(list, places)
<1>1. /\ places \subseteq Nat /\ IsFiniteSet(places) /\ n \in Nat
      /\ \A p \in places : list[p] \in T
  <2>1. DOMAIN list = 1..Len(list) /\ Len(list) \in Nat
    BY LenProperties
  <2>2. IsFiniteSet(places)
    <3>1. IsFiniteSet(1..Len(list)) /\ places \subseteq (1..Len(list))
      BY <2>1, FS_Interval
    <3> QED BY ONLY <3>1, FS_Subset
  <2> QED BY <2>1, <2>2, FS_CardinalityType, ElementOfSeq
<1>2. at \in [1..n -> places] /\ \A j, k \in 1..n : j < k => at[j] < at[k]
  <2>1. \E f \in [1..n -> places] : \A j, k \in 1..n : j < k => f[j] < f[k]
    BY <1>1, PlacesAreListed DEF Lists
  <2> QED BY <2>1
<1>3. sub = [k \in 1..n |-> list[at[k]]]
  BY DEF Subsequence
<1> HIDE DEF at, sub, n
<1>4. sub \in Seq(T) /\ Len(sub) = n
  BY <1>1, <1>2, <1>3
<1>5. \A j, k \in 1..n : at[j] = at[k] => j = k
  <2> SUFFICES ASSUME NEW j \in 1..n, NEW k \in 1..n, at[j] = at[k], j # k PROVE FALSE
    OBVIOUS
  <2>1. j < k \/ k < j
    BY <1>1
  <2>2. at[j] \in Nat /\ at[k] \in Nat
    BY <1>1, <1>2
  <2> QED BY <1>2, <2>1, <2>2
<1>6. \A p \in places : \E k \in 1..n : at[k] = p
  <2>1. at \in Injection(1..n, places)
    BY <1>2, <1>5 DEF Injection, IsInjective
  <2>2. IsFiniteSet(1..n) /\ Cardinality(1..n) = Cardinality(places)
    BY <1>1, FS_Interval DEF n
  <2>3. at \in Surjection(1..n, places)
    <3> DEFINE I == 1..n
    <3>1. at \in Injection(I, places) /\ IsFiniteSet(places) /\ Cardinality(I) = Cardinality(places)
      BY <1>1, <2>1, <2>2
    <3> HIDE DEF I
    <3>2. at \in Surjection(I, places)
      BY ONLY <3>1, InjectionIsOnto
    <3> QED BY <3>2 DEF I
  <2> QED BY <2>3 DEF Surjection
<1>7. IsPart(sub, list, places, at)
  BY <1>2, <1>3, <1>4, <1>5, <1>6 DEF IsPart
<1> QED BY <1>4, <1>7 DEF sub, n

-----------------------------------------------------------------------------
(* The arms of a root.                                                      *)

Known == UNION {ToSet(world) : world \in Worlds}

Arm == [choice : Known, visits : Nat, timesAvailable : Nat, reward : Int, mass : Nat]

OneArmEach(arms) == \A i, j \in DOMAIN arms : arms[i].choice = arms[j].choice => i = j

(* An arm was offered in so many of a root's iterations, and if it was given *)
(* mass then enough of it to weigh in any mean over them.                    *)
ArmsOK(arms, n) ==
  /\ arms \in Seq(Arm)
  /\ OneArmEach(arms)
  /\ \A i \in DOMAIN arms :
       /\ arms[i].timesAvailable \in 1..n
       /\ arms[i].mass > 0 => mixes /\ arms[i].mass >= Iterations

Massive(arms) == \E i \in DOMAIN arms : arms[i].mass > 0

(* Each iteration of a policy that mixes gives mass to some arm.            *)
RootOK(root) ==
  /\ root.visits \in 0..Iterations
  /\ ArmsOK(root.arms, root.visits)
  /\ mixes /\ root.arms # <<>> => Massive(root.arms)

LEMMA ArmTyped ==
  ASSUME NEW arms \in Seq(Arm)
  PROVE  /\ Len(arms) \in Nat /\ DOMAIN arms = 1..Len(arms)
         /\ \A i \in DOMAIN arms :
              /\ arms[i] \in Arm /\ arms[i].choice \in Known
              /\ arms[i].visits \in Nat /\ arms[i].timesAvailable \in Nat
              /\ arms[i].reward \in Int /\ arms[i].mass \in Nat
<1>1. \A i \in DOMAIN arms : arms[i] \in Arm
  BY ElementOfSeq, LenProperties
<1> QED BY <1>1, LenProperties DEF Arm

(* Worlds are lists of distinct choices, and not empty.                     *)
LEMMA WorldTyped ==
  ASSUME NEW world \in Worlds
  PROVE  /\ world \in Seq(Known)
         /\ Len(world) \in Nat \ {0} /\ DOMAIN world = 1..Len(world)
         /\ \A i, j \in DOMAIN world : world[i] = world[j] => i = j
         /\ Iterations * Len(world) <= Unit
         /\ Iterations \in Nat \ {0} /\ Unit \in Nat \ {0}
<1>1. /\ world \in Seq(ToSet(world)) \ {<<>>} /\ IsInjective(world)
      /\ Iterations * Len(world) <= Unit
      /\ Iterations \in Nat \ {0} /\ Unit \in Nat \ {0}
  BY MarginalAnswerAssumption
<1>2. ToSet(world) \subseteq Known
  BY DEF Known
<1>3. Len(world) \in Nat /\ DOMAIN world = 1..Len(world) /\ Len(world) # 0
  BY <1>1, EmptySeq, LenProperties
<1>4. world \in Seq(Known)
  <2>1. \A i \in 1..Len(world) : world[i] \in Known
    BY <1>1, <1>2, <1>3, ElementOfSeq
  <2>2. world = [i \in 1..Len(world) |-> world[i]]
    BY <1>1, LenProperties
  <2> QED BY <1>3, <2>1, <2>2, IsASeq
<1> QED BY <1>1, <1>3, <1>4 DEF IsInjective

(* Expanding a slot: each arm on offer has one opportunity more, each choice *)
(* that had no arm has one, and something is on offer.                      *)
LEMMA ExpandedArms ==
  ASSUME NEW n \in Nat, NEW arms, ArmsOK(arms, n), NEW world \in Worlds
  PROVE  /\ ArmsOK(Expanded(arms, world), n + 1)
         /\ \E i \in DOMAIN Expanded(arms, world) : Offered(Expanded(arms, world)[i], world)
<1> DEFINE places == {k \in DOMAIN world : world[k] \notin ChoicesOf(arms)}
           unseen == Subsequence(world, places)
           old    == [i \in DOMAIN arms |->
                        IF Offered(arms[i], world)
                        THEN [arms[i] EXCEPT !.timesAvailable = @ + 1] ELSE arms[i]]
           Fresh(c) == [choice |-> c, visits |-> 0, timesAvailable |-> 1, reward |-> 0, mass |-> 0]
           new    == [k \in DOMAIN unseen |-> Fresh(unseen[k])]
           more   == Expanded(arms, world)
<1>1. /\ arms \in Seq(Arm) /\ OneArmEach(arms)
      /\ Len(arms) \in Nat /\ DOMAIN arms = 1..Len(arms)
      /\ \A i \in DOMAIN arms :
           /\ arms[i] \in Arm
           /\ arms[i].timesAvailable \in 1..n
           /\ arms[i].mass \in Nat
           /\ arms[i].mass > 0 => mixes /\ arms[i].mass >= Iterations
  BY ArmTyped DEF ArmsOK
<1>2. /\ world \in Seq(Known) /\ DOMAIN world = 1..Len(world) /\ Len(world) \in Nat \ {0}
      /\ \A i, j \in DOMAIN world : world[i] = world[j] => i = j
      /\ \A i \in DOMAIN world : world[i] \in Known /\ world[i] \in ToSet(world)
  BY WorldTyped, ElementOfSeq DEF ToSet
<1>3. unseen \in Seq(Known) /\ \E at : IsPart(unseen, world, places, at)
  BY <1>2, SubsequenceIsPart
<1>4. PICK at : IsPart(unseen, world, places, at)
  BY <1>3
<1>5. more = old \o new
  BY DEF Expanded
<1> HIDE DEF unseen, places, more
<1>6. /\ DOMAIN unseen = 1..Len(unseen) /\ Len(unseen) \in Nat
      /\ \A k \in DOMAIN unseen : unseen[k] \in Known /\ unseen[k] \notin ChoicesOf(arms)
      /\ \A j, k \in DOMAIN unseen : unseen[j] = unseen[k] => j = k
  <2>1. DOMAIN unseen = 1..Len(unseen) /\ Len(unseen) \in Nat
    BY <1>3, LenProperties
  <2>2. ASSUME NEW k \in DOMAIN unseen
        PROVE  /\ at[k] \in DOMAIN world /\ unseen[k] = world[at[k]]
               /\ world[at[k]] \notin ChoicesOf(arms)
    BY <1>4, <2>1 DEF IsPart, places
  <2>3. ASSUME NEW j \in DOMAIN unseen, NEW k \in DOMAIN unseen, unseen[j] = unseen[k]
        PROVE  j = k
    <3>1. at[j] = at[k]
      BY <1>2, <2>2, <2>3
    <3> QED BY <1>4, <2>1, <3>1 DEF IsPart
  <2> QED BY <1>2, <2>1, <2>2, <2>3
<1>7. /\ old \in Seq(Arm) /\ Len(old) = Len(arms)
      /\ \A i \in DOMAIN arms :
           /\ old[i].choice = arms[i].choice /\ old[i].mass = arms[i].mass
           /\ old[i].timesAvailable \in 1..(n + 1)
  <2>1. ASSUME NEW i \in DOMAIN arms
        PROVE  /\ old[i] \in Arm
               /\ old[i].choice = arms[i].choice /\ old[i].mass = arms[i].mass
               /\ old[i].timesAvailable \in 1..(n + 1)
    <3> DEFINE arm == arms[i]
    <3>1. arm \in Arm /\ arm.timesAvailable \in 1..n
      BY <1>1
    <3>2. old[i] = IF Offered(arm, world)
                   THEN [arm EXCEPT !.timesAvailable = @ + 1] ELSE arm
      OBVIOUS
    <3> HIDE DEF arm, old
    <3>3. CASE Offered(arm, world)
      <4>1. /\ old[i] \in Arm /\ old[i].choice = arm.choice /\ old[i].mass = arm.mass
            /\ old[i].timesAvailable = arm.timesAvailable + 1
        BY <3>1, <3>2, <3>3 DEF Arm
      <4> QED BY <3>1, <4>1 DEF arm
    <3>4. CASE ~Offered(arm, world)
      <4>1. old[i] = arm /\ arm.timesAvailable \in 1..(n + 1)
        BY <3>1, <3>2, <3>4
      <4> QED BY <3>1, <4>1 DEF arm
    <3> QED BY <3>3, <3>4
  <2>2. old = [i \in 1..Len(arms) |-> old[i]]
    BY <1>1
  <2>3. old \in [1..Len(arms) -> Arm]
    BY <1>1, <2>1, <2>2
  <2> HIDE DEF old
  <2>4. old \in Seq(Arm) /\ Len(old) = Len(arms)
    BY <1>1, <2>3
  <2> QED BY <2>1, <2>4
<1>8. /\ new \in Seq(Arm) /\ Len(new) = Len(unseen)
      /\ \A k \in DOMAIN unseen : /\ new[k].choice = unseen[k] /\ new[k].mass = 0
                                  /\ new[k].timesAvailable = 1
  <2>1. ASSUME NEW k \in DOMAIN unseen
        PROVE  /\ new[k] \in Arm /\ new[k].choice = unseen[k] /\ new[k].mass = 0
               /\ new[k].timesAvailable = 1
    BY <1>6 DEF Arm
  <2>2. new \in [1..Len(unseen) -> Arm]
    BY <1>6, <2>1
  <2> HIDE DEF new
  <2>3. new \in Seq(Arm) /\ Len(new) = Len(unseen)
    BY <1>6, <2>2
  <2> QED BY <2>1, <2>3
<1> HIDE DEF old, new
<1>9. /\ more \in Seq(Arm)
      /\ DOMAIN more = 1..(Len(arms) + Len(unseen))
      /\ \A i \in 1..Len(arms) : more[i] = old[i]
      /\ \A i \in (Len(arms) + 1)..(Len(arms) + Len(unseen)) : more[i] = new[i - Len(arms)]
  <2>1. old \in Seq(Arm) /\ new \in Seq(Arm)
    BY <1>7, <1>8
  <2>2. /\ more \in Seq(Arm) /\ Len(more) = Len(old) + Len(new)
        /\ \A i \in 1..(Len(old) + Len(new)) :
             more[i] = IF i <= Len(old) THEN old[i] ELSE new[i - Len(old)]
    BY ONLY <1>5, <2>1, ConcatProperties
  <2>3. DOMAIN more = 1..Len(more)
    BY <2>2, LenProperties
  <2> QED BY <1>1, <1>6, <1>7, <1>8, <2>2, <2>3
<1>10. ASSUME NEW i \in DOMAIN more
       PROVE  \/ /\ i \in DOMAIN arms /\ more[i] = old[i]
                 /\ more[i].choice = arms[i].choice
                 /\ arms[i].choice \in ChoicesOf(arms)
              \/ /\ i \notin DOMAIN arms /\ i - Len(arms) \in DOMAIN unseen
                 /\ more[i] = new[i - Len(arms)]
                 /\ more[i].choice = unseen[i - Len(arms)]
  <2>1. CASE i \in 1..Len(arms)
    BY <1>1, <1>7, <1>9, <2>1 DEF ChoicesOf
  <2>2. CASE i \notin 1..Len(arms)
    <3>1. i \in (Len(arms) + 1)..(Len(arms) + Len(unseen)) /\ i - Len(arms) \in 1..Len(unseen)
      BY <1>1, <1>6, <1>9, <2>2
    <3> QED BY <1>1, <1>6, <1>8, <1>9, <2>2, <3>1
  <2> QED BY <2>1, <2>2
<1>11. OneArmEach(more)
  <2> SUFFICES ASSUME NEW i \in DOMAIN more, NEW j \in DOMAIN more,
                      more[i].choice = more[j].choice
               PROVE  i = j
    BY DEF OneArmEach
  <2>1. i \in Nat /\ j \in Nat
    BY <1>1, <1>6, <1>9
  <2>2. CASE i \in DOMAIN arms /\ j \in DOMAIN arms
    BY <1>1, <1>10, <2>2 DEF OneArmEach
  <2>3. CASE i \notin DOMAIN arms /\ j \notin DOMAIN arms
    <3>1. i - Len(arms) = j - Len(arms)
      BY <1>6, <1>10, <2>3
    <3> QED BY <1>1, <2>1, <3>1
  <2>4. CASE ~(i \in DOMAIN arms <=> j \in DOMAIN arms)
    BY <1>6, <1>10, <2>4
  <2> QED BY <2>2, <2>3, <2>4
<1>12. ASSUME NEW i \in DOMAIN more
       PROVE  /\ more[i].timesAvailable \in 1..(n + 1)
              /\ more[i].mass > 0 => mixes /\ more[i].mass >= Iterations
  <2>1. CASE i \in DOMAIN arms
    <3>1. more[i] = old[i]
      BY <1>10, <2>1
    <3>2. more[i].timesAvailable \in 1..(n + 1) /\ more[i].mass = arms[i].mass
      BY <1>7, <2>1, <3>1
    <3> QED BY <1>1, <2>1, <3>2
  <2>2. CASE i \notin DOMAIN arms
    <3>1. more[i] = new[i - Len(arms)] /\ i - Len(arms) \in DOMAIN unseen
      BY <1>10, <2>2
    <3>2. more[i].timesAvailable = 1 /\ more[i].mass = 0
      BY <1>8, <3>1
    <3> QED BY <3>2
  <2> QED BY <2>1, <2>2
<1>13. \E i \in DOMAIN more : Offered(more[i], world)
  <2>1. 1 \in DOMAIN world /\ world[1] \in ToSet(world)
    BY <1>2
  <2>2. CASE world[1] \in ChoicesOf(arms)
    <3>1. PICK i \in DOMAIN arms : arms[i].choice = world[1]
      BY <2>2 DEF ChoicesOf
    <3>2. i \in DOMAIN more /\ more[i] = old[i]
      BY <1>1, <1>6, <1>9
    <3>3. more[i].choice = world[1]
      BY <1>7, <3>1, <3>2
    <3> QED BY <2>1, <3>2, <3>3 DEF Offered
  <2>3. CASE world[1] \notin ChoicesOf(arms)
    <3>1. 1 \in places
      BY <2>1, <2>3 DEF places
    <3>2. PICK k \in DOMAIN unseen : at[k] = 1
      BY <1>4, <1>6, <3>1 DEF IsPart
    <3>3. unseen[k] = world[1]
      BY <1>4, <1>6, <3>2 DEF IsPart
    <3>4. /\ Len(arms) + k \in (Len(arms) + 1)..(Len(arms) + Len(unseen))
          /\ (Len(arms) + k) - Len(arms) = k
      BY <1>1, <1>6
    <3>5. Len(arms) + k \in DOMAIN more /\ more[Len(arms) + k] = new[k]
      BY <1>1, <1>6, <1>9, <3>4
    <3>6. more[Len(arms) + k].choice = world[1]
      BY <1>8, <3>3, <3>5
    <3> QED BY <2>1, <3>5, <3>6 DEF Offered
  <2> QED BY <2>2, <2>3
<1> QED BY <1>9, <1>11, <1>12, <1>13 DEF more, ArmsOK

(* A share of Unit weighs something in the mean over a search.              *)
LEMMA ShareOfUnit ==
  ASSUME NEW k \in Nat \ {0}, NEW n \in Nat, NEW u \in Nat, n * k <= u
  PROVE  u \div k \in Nat /\ u \div k >= n
BY SMT

LEMMA ProductOfLess ==
  ASSUME NEW n \in Nat, NEW j \in Nat, NEW k \in Nat, j <= k
  PROVE  n * j <= n * k
BY SMT

(* No more arms are on offer than the world has choices.                    *)
LEMMA OfferIsBounded ==
  ASSUME NEW n, NEW arms, ArmsOK(arms, n), NEW world \in Worlds, NEW S,
         S \subseteq {i \in DOMAIN arms : Offered(arms[i], world)}
  PROVE  /\ IsFiniteSet(S) /\ Cardinality(S) \in Nat
         /\ Iterations * Cardinality(S) <= Unit
         /\ Cardinality(S) = 0 <=> S = {}
<1>1. /\ Len(arms) \in Nat /\ DOMAIN arms = 1..Len(arms) /\ OneArmEach(arms)
  BY ArmTyped DEF ArmsOK
<1>2. IsFiniteSet(S)
  <2>1. IsFiniteSet(1..Len(arms)) /\ S \subseteq 1..Len(arms)
    BY <1>1, FS_Interval
  <2> QED BY ONLY <2>1, FS_Subset
<1>3. Cardinality(S) \in Nat /\ (Cardinality(S) = 0 <=> S = {})
  BY <1>2, FS_CardinalityType, FS_EmptySet
<1>4. /\ Len(world) \in Nat /\ DOMAIN world = 1..Len(world)
      /\ Iterations \in Nat /\ Unit \in Nat /\ Iterations * Len(world) <= Unit
  BY WorldTyped
<1>5. Cardinality(S) <= Len(world)
  <2> DEFINE I == 1..Len(world)
             f == [i \in S |-> CHOOSE k \in I : world[k] = arms[i].choice]
  <2>1. ASSUME NEW i \in S PROVE f[i] \in I /\ world[f[i]] = arms[i].choice
    BY <1>4 DEF Offered, ToSet
  <2>2. IsFiniteSet(I) /\ Cardinality(I) = Len(world)
    <3> DEFINE n1 == Len(world)
    <3>1. n1 \in Nat
      BY <1>4
    <3> HIDE DEF n1
    <3>2. IsFiniteSet(1..n1) /\ Cardinality(1..n1) = n1
      BY ONLY <3>1, FS_Interval
    <3> QED BY <3>2 DEF n1
  <2>3. f \in [S -> I]
    BY <2>1
  <2> HIDE DEF f, I
  <2>4. ASSUME NEW i \in S, NEW j \in S, f[i] = f[j] PROVE i = j
    BY <1>1, <2>1, <2>4 DEF OneArmEach
  <2>5. f \in Injection(S, I)
    BY <2>3, <2>4 DEF Injection, IsInjective
  <2>6. Cardinality(S) <= Cardinality(I)
    BY ONLY <1>2, <2>2, <2>5, FS_Injection
  <2> QED BY <2>2, <2>6
<1>6. Iterations * Cardinality(S) <= Iterations * Len(world)
  BY <1>3, <1>4, <1>5, ProductOfLess
<1>7. Iterations * Cardinality(S) \in Nat /\ Iterations * Len(world) \in Nat
  BY <1>3, <1>4
<1> QED BY <1>2, <1>3, <1>4, <1>6, <1>7

(* What an iteration may weigh is on offer, and under a policy that mixes    *)
(* there is something.                                                       *)
LEMMA SupportIsOffered ==
  ASSUME NEW arms, NEW world,
         \E i \in DOMAIN arms : Offered(arms[i], world),
         NEW support \in IF mixes THEN Supports(arms, world) ELSE {{}}
  PROVE  /\ support \subseteq {i \in DOMAIN arms : Offered(arms[i], world)}
         /\ mixes => support # {}
<1>1. CASE mixes
  BY <1>1 DEF Supports
<1>2. CASE ~mixes
  BY <1>2
<1> QED BY <1>1, <1>2

LEMMA CreditedArms ==
  ASSUME NEW n \in Nat, NEW arms, ArmsOK(arms, n), NEW world \in Worlds,
         \E i \in DOMAIN arms : Offered(arms[i], world),
         NEW support \in IF mixes THEN Supports(arms, world) ELSE {{}},
         NEW played \in DOMAIN arms, NEW reward \in Reward
  PROVE  /\ ArmsOK(Credited(arms, support, played, reward), n)
         /\ mixes => Massive(Credited(arms, support, played, reward))
<1> DEFINE share == Unit \div Cardinality(support)
           more  == Credited(arms, support, played, reward)
<1>1. /\ support \subseteq {i \in DOMAIN arms : Offered(arms[i], world)}
      /\ mixes => support # {}
  BY ONLY SupportIsOffered, \E i \in DOMAIN arms : Offered(arms[i], world),
          support \in IF mixes THEN Supports(arms, world) ELSE {{}}
<1>2. /\ Cardinality(support) \in Nat /\ Iterations * Cardinality(support) <= Unit
      /\ Cardinality(support) = 0 <=> support = {}
  BY <1>1, OfferIsBounded
<1>3. Iterations \in Nat \ {0} /\ Unit \in Nat /\ reward \in Int
  BY MarginalAnswerAssumption
<1>4. support # {} => share \in Nat /\ share >= Iterations
  BY <1>2, <1>3, ShareOfUnit
<1>5. /\ arms \in Seq(Arm) /\ OneArmEach(arms)
      /\ Len(arms) \in Nat /\ DOMAIN arms = 1..Len(arms)
      /\ \A i \in DOMAIN arms :
           /\ arms[i] \in Arm
           /\ arms[i].timesAvailable \in 1..n
           /\ arms[i].mass > 0 => mixes /\ arms[i].mass >= Iterations
  BY ArmTyped DEF ArmsOK
<1>6. DOMAIN more = DOMAIN arms
  BY DEF Credited
<1>7. ASSUME NEW i \in DOMAIN arms
      PROVE  /\ more[i] \in Arm /\ more[i].choice = arms[i].choice
             /\ more[i].timesAvailable \in 1..n
             /\ more[i].mass > 0 => mixes /\ more[i].mass >= Iterations
             /\ mixes /\ i \in support => more[i].mass > 0
  <2> DEFINE arm == arms[i]
  <2>1. /\ arm \in Arm /\ arm.timesAvailable \in 1..n
        /\ arm.mass > 0 => mixes /\ arm.mass >= Iterations
        /\ arm.mass \in Nat /\ arm.visits \in Nat /\ arm.reward \in Int
    BY <1>5 DEF Arm
  <2>2. more[i] = [arm EXCEPT
           !.mass   = IF mixes /\ i \in support THEN @ + share ELSE @,
           !.visits = IF i = played THEN @ + 1 ELSE @,
           !.reward = IF i = played THEN @ + reward ELSE @]
    BY DEF Credited
  <2> HIDE DEF arm, more, share
  <2> DEFINE mass == IF mixes /\ i \in support THEN arm.mass + share ELSE arm.mass
  <2>3. /\ mass \in Nat
        /\ mass > 0 => mixes /\ mass >= Iterations
        /\ mixes /\ i \in support => mass > 0
    <3>1. CASE mixes /\ i \in support
      <4>1. share \in Nat /\ share >= Iterations
        BY <1>4, <3>1
      <4>2. mass = arm.mass + share
        BY <3>1
      <4> HIDE DEF mass
      <4> QED BY <1>3, <2>1, <3>1, <4>1, <4>2
    <3>2. CASE ~(mixes /\ i \in support)
      BY <2>1, <3>2
    <3> QED BY <3>1, <3>2
  <2>4. /\ more[i] \in Arm /\ more[i].choice = arm.choice
        /\ more[i].timesAvailable = arm.timesAvailable
        /\ more[i].mass = mass
    <3> DEFINE count == IF i = played THEN arm.visits + 1 ELSE arm.visits
               paid  == IF i = played THEN arm.reward + reward ELSE arm.reward
    <3>1. mass \in Nat /\ count \in Nat /\ paid \in Int
      BY <1>3, <2>1, <2>3
    <3>2. more[i] = [arm EXCEPT !.mass = mass, !.visits = count, !.reward = paid]
      BY <2>2
    <3> HIDE DEF mass, count, paid
    <3> QED BY <2>1, <3>1, <3>2 DEF Arm
  <2> HIDE DEF mass
  <2> QED BY <2>1, <2>3, <2>4 DEF arm
<1>8. more \in Seq(Arm)
  <2>1. more = [i \in DOMAIN arms |-> more[i]]
    BY DEF Credited
  <2> HIDE DEF more
  <2>2. more \in [1..Len(arms) -> Arm]
    BY <1>5, <1>7, <2>1
  <2> QED BY <1>5, <2>2
<1> HIDE DEF more
<1>9. ArmsOK(more, n)
  BY <1>5, <1>6, <1>7, <1>8 DEF ArmsOK, OneArmEach
<1>10. ASSUME mixes PROVE Massive(more)
  BY <1>1, <1>6, <1>7, <1>10 DEF Massive
<1> QED BY <1>9, <1>10 DEF more

(* The legal arms are those of the root that the position offers.           *)
LegalPlaces(arms) == {i \in DOMAIN arms : Offered(arms[i], choices)}

LegalHeld(held, arms) ==
  /\ held \in Seq(Arm) /\ OneArmEach(held)
  /\ \A k \in DOMAIN held : \E i \in LegalPlaces(arms) : held[k] = arms[i]
  /\ \A i \in LegalPlaces(arms) : \E k \in DOMAIN held : held[k] = arms[i]

LEMMA LegalArmsAreHeld ==
  ASSUME NEW n, NEW arms, ArmsOK(arms, n)
  PROVE  LegalHeld(LegalArms(arms), arms)
<1> DEFINE places == LegalPlaces(arms)
           held   == LegalArms(arms)
<1>1. arms \in Seq(Arm) /\ OneArmEach(arms) /\ places \subseteq DOMAIN arms
  BY DEF ArmsOK, LegalPlaces
<1>2. held = Subsequence(arms, places)
  BY DEF LegalArms, LegalPlaces
<1>3. held \in Seq(Arm) /\ \E at : IsPart(held, arms, places, at)
  BY <1>1, <1>2, SubsequenceIsPart
<1>4. PICK at : IsPart(held, arms, places, at)
  BY <1>3
<1> HIDE DEF held, places
<1>5. DOMAIN held = 1..Len(held)
  BY <1>3, LenProperties
<1>6. \A k \in DOMAIN held : at[k] \in places /\ held[k] = arms[at[k]]
  BY <1>4, <1>5 DEF IsPart
<1>7. OneArmEach(held)
  <2> SUFFICES ASSUME NEW j \in DOMAIN held, NEW k \in DOMAIN held,
                      held[j].choice = held[k].choice
               PROVE  j = k
    BY DEF OneArmEach
  <2>1. at[j] = at[k]
    BY <1>1, <1>6 DEF OneArmEach
  <2> QED BY <1>4, <1>5, <2>1 DEF IsPart
<1>8. \A i \in places : \E k \in DOMAIN held : held[k] = arms[i]
  BY <1>4, <1>5, <1>6 DEF IsPart
<1> QED BY <1>3, <1>6, <1>7, <1>8 DEF LegalHeld, held, places

-----------------------------------------------------------------------------
(* Weights, and what is read off them.                                      *)

LEMMA TotalOfWeights ==
  ASSUME NEW n \in Nat, NEW w \in [1..n -> Nat]
  PROVE  /\ Total(w) \in Nat
         /\ \A i \in 1..n : w[i] <= Total(w)
         /\ Total(w) > 0 <=> \E i \in 1..n : w[i] > 0
<1>1. IsFiniteSet(1..n)
  BY FS_Interval
<1>2. /\ Total(w) \in Nat
      /\ \A i \in 1..n : w[i] <= Total(w)
      /\ Total(w) > 0 => \E i \in 1..n : w[i] > 0
  <2> DEFINE I == 1..n
  <2>1. IsFiniteSet(I) /\ w \in [I -> Nat]
    BY <1>1
  <2> HIDE DEF I
  <2>2. /\ SumFunction(w) \in Nat
        /\ \A i \in I : w[i] <= SumFunction(w)
        /\ SumFunction(w) > 0 => \E i \in I : w[i] > 0
    BY ONLY <2>1, SumOfNaturals
  <2> QED BY <2>2 DEF Total, I
<1> QED BY <1>2

IsHeaviest(w, n, i) ==
  /\ i \in 1..n
  /\ \A j \in 1..n : w[j] <= w[i]
  /\ \A j \in 1..(i - 1) : w[j] < w[i]

(* There is one heaviest entry, the first.                                  *)
LEMMA HeaviestIs ==
  ASSUME NEW n \in Nat \ {0}, NEW w \in [1..n -> Nat]
  PROVE  /\ IsHeaviest(w, n, Heaviest(w))
         /\ \A i : IsHeaviest(w, n, i) => i = Heaviest(w)
<1>1. \A i \in 1..n : w[i] \in Nat /\ w[i] <= Total(w) /\ Total(w) \in Nat
  BY TotalOfWeights
<1> DEFINE below == {Total(w) - w[i] : i \in 1..n}
<1>2. below \in SUBSET Nat /\ below # {}
  <2>1. 1 \in 1..n
    OBVIOUS
  <2> QED BY <1>1, <2>1
<1>3. PICK b \in below : \A c \in below : b <= c
  <2> HIDE DEF below
  <2> QED BY <1>2, LeastNatural
<1>4. PICK m \in 1..n : b = Total(w) - w[m]
  BY <1>3
<1>5. \A j \in 1..n : w[j] <= w[m]
  <2> SUFFICES ASSUME NEW j \in 1..n PROVE w[j] <= w[m]
    OBVIOUS
  <2>1. b <= Total(w) - w[j]
    BY <1>3
  <2> QED BY <1>1, <1>4, <2>1
<1> DEFINE best == {i \in 1..n : w[i] = w[m]}
<1>6. best \in SUBSET Nat /\ best # {}
  <2>1. m \in best
    BY <1>4
  <2>2. best \subseteq Nat
    OBVIOUS
  <2> QED BY <2>1, <2>2
<1>7. PICK i \in best : \A j \in best : i <= j
  <2> HIDE DEF best
  <2> QED BY <1>6, LeastNatural
<1>8. IsHeaviest(w, n, i)
  <2>1. i \in 1..n /\ w[i] = w[m]
    BY <1>7
  <2>2. ASSUME NEW j \in 1..(i - 1) PROVE w[j] < w[i]
    <3>1. j \in 1..n /\ j < i
      BY <2>1
    <3>2. j \notin best
      BY <1>7, <2>1, <3>1
    <3>3. w[j] # w[m] /\ w[j] <= w[m]
      BY <1>5, <3>1, <3>2
    <3> QED BY <1>1, <2>1, <3>1, <3>3
  <2> QED BY <1>5, <2>1, <2>2 DEF IsHeaviest
<1>9. \A j, k : IsHeaviest(w, n, j) /\ IsHeaviest(w, n, k) => j = k
  <2> SUFFICES ASSUME NEW j, NEW k, IsHeaviest(w, n, j), IsHeaviest(w, n, k), j # k
               PROVE  FALSE
    OBVIOUS
  <2>1. j \in 1..n /\ k \in 1..n /\ w[j] <= w[k] /\ w[k] <= w[j]
    BY DEF IsHeaviest
  <2>2. CASE j < k
    <3>1. j \in 1..(k - 1)
      BY <2>1, <2>2
    <3> QED BY <1>1, <2>1, <3>1 DEF IsHeaviest
  <2>3. CASE k < j
    <3>1. k \in 1..(j - 1)
      BY <2>1, <2>3
    <3> QED BY <1>1, <2>1, <3>1 DEF IsHeaviest
  <2> QED BY <2>1, <2>2, <2>3
<1>10. IsHeaviest(w, n, Heaviest(w))
  <2>1. DOMAIN w = 1..n
    OBVIOUS
  <2> QED BY <1>8, <2>1 DEF Heaviest, IsHeaviest
<1> QED BY <1>9, <1>10

(* Whatever is drawn weighs something, and where something weighs anything  *)
(* something can be drawn.                                                  *)
LEMMA DrawnWeighs ==
  ASSUME NEW n \in Nat, NEW w \in [1..n -> Nat]
  PROVE  /\ \A i \in Drawn(w) : i \in 1..n /\ w[i] > 0
         /\ Total(w) > 0 => Drawn(w) # {}
<1> DEFINE upTo(i)  == Total([j \in 1..i |-> w[j]])
           targets  == {0} \cup {upTo(i) + 1 : i \in DOMAIN w}
           at(i, t) == w[i] > 0 /\ upTo(i) >= t
<1>1. Drawn(w) = {i \in DOMAIN w : \E t \in targets : at(i, t) /\ \A j \in 1..(i - 1) : ~at(j, t)}
  BY DEF Drawn
<1>2. \A i \in Drawn(w) : i \in 1..n /\ w[i] > 0
  <2> HIDE DEF targets
  <2> QED BY <1>1
<1>3. ASSUME Total(w) > 0
      PROVE  Drawn(w) # {}
  <2> DEFINE heavy == {i \in 1..n : w[i] > 0}
  <2>1. heavy \in SUBSET Nat /\ heavy # {}
    BY <1>3, TotalOfWeights
  <2>2. PICK i \in heavy : \A j \in heavy : i <= j
    <3> HIDE DEF heavy
    <3> QED BY <2>1, LeastNatural
  <2>3. i \in 1..n /\ w[i] > 0
    BY <2>2
  <2>4. upTo(i) >= 0
    <3> DEFINE v == [j \in 1..i |-> w[j]]
    <3>1. i \in Nat /\ v \in [1..i -> Nat]
      BY <2>3
    <3> HIDE DEF v
    <3>2. Total(v) \in Nat
      BY <3>1, TotalOfWeights
    <3> QED BY <3>2 DEF v
  <2>5. \A j \in 1..(i - 1) : ~(w[j] > 0)
    <3> SUFFICES ASSUME NEW j \in 1..(i - 1), w[j] > 0 PROVE FALSE
      OBVIOUS
    <3>1. j \in heavy /\ j < i /\ i \in Nat /\ j \in Nat
      BY <2>3
    <3> QED BY <2>2, <3>1
  <2> HIDE DEF upTo, heavy
  <2>6. at(i, 0) /\ \A j \in 1..(i - 1) : ~at(j, 0)
    BY <2>3, <2>4, <2>5
  <2>7. 0 \in targets
    OBVIOUS
  <2> HIDE DEF targets, at
  <2>8. i \in DOMAIN w
    BY <2>3
  <2> QED BY <1>1, <2>6, <2>7, <2>8
<1> QED BY <1>2, <1>3

(* What the arms of a root weigh: under a policy that mixes all that was    *)
(* given mass, and otherwise the one the answer is read off.                *)
Weighable(arms) ==
  /\ arms \in Seq(Arm)
  /\ \A i \in DOMAIN arms :
       /\ arms[i].timesAvailable \in 1..Iterations
       /\ arms[i].mass > 0 => arms[i].mass >= Iterations

LEMMA MeanShare ==
  ASSUME NEW m \in Nat, NEW k \in Nat \ {0}, m > 0 => m >= k
  PROVE  /\ m \div k \in Nat
         /\ m \div k > 0 <=> m > 0
BY SMT

LEMMA WeightsOfArms ==
  ASSUME NEW arms, Weighable(arms), NEW oneHot
  PROVE  /\ Len(arms) \in Nat /\ DOMAIN arms = 1..Len(arms)
         /\ Weights(arms, oneHot) \in [1..Len(arms) -> Nat]
         /\ \A i \in DOMAIN arms :
              IF mixes THEN Weights(arms, oneHot)[i] > 0 <=> arms[i].mass > 0
              ELSE Weights(arms, oneHot)[i] = IF i = oneHot THEN Unit ELSE 0
<1>1. /\ Len(arms) \in Nat /\ DOMAIN arms = 1..Len(arms)
      /\ \A i \in DOMAIN arms : /\ arms[i].mass \in Nat
                                /\ arms[i].timesAvailable \in 1..Iterations
                                /\ arms[i].mass > 0 => arms[i].mass >= Iterations
  BY ArmTyped DEF Weighable
<1>2. Iterations \in Nat \ {0} /\ Unit \in Nat \ {0}
  BY MarginalAnswerAssumption
<1>3. ASSUME NEW i \in DOMAIN arms, mixes
      PROVE  /\ WeightOf(arms, i, oneHot) \in Nat
             /\ WeightOf(arms, i, oneHot) > 0 <=> arms[i].mass > 0
  <2> DEFINE k == arms[i].timesAvailable
             m == arms[i].mass
  <2>1. k \in Nat \ {0} /\ m \in Nat /\ (m > 0 => m >= k)
    BY <1>1, <1>2
  <2>2. WeightOf(arms, i, oneHot) = m \div k
    <3>1. WeightOf(arms, i, oneHot) = m \div (IF k > 1 THEN k ELSE 1)
      BY <1>3 DEF WeightOf
    <3> HIDE DEF k, m
    <3>2. (IF k > 1 THEN k ELSE 1) = k
      BY <2>1
    <3> QED BY <3>1, <3>2
  <2> HIDE DEF k, m
  <2>3. m \div k \in Nat /\ (m \div k > 0 <=> m > 0)
    BY <2>1, MeanShare
  <2> QED BY <2>2, <2>3 DEF m
<1>4. ASSUME NEW i \in DOMAIN arms, ~mixes
      PROVE  /\ WeightOf(arms, i, oneHot) \in Nat
             /\ WeightOf(arms, i, oneHot) = IF i = oneHot THEN Unit ELSE 0
  BY <1>2, <1>4 DEF WeightOf
<1>5. \A i \in DOMAIN arms : WeightOf(arms, i, oneHot) \in Nat
  BY <1>3, <1>4
<1>6. /\ Weights(arms, oneHot) \in [1..Len(arms) -> Nat]
      /\ \A i \in DOMAIN arms : Weights(arms, oneHot)[i] = WeightOf(arms, i, oneHot)
  BY <1>1, <1>5 DEF Weights
<1> QED BY <1>1, <1>3, <1>4, <1>6

(* The arms of a root, and the legal ones among them, can be weighed.       *)
LEMMA RootsAreWeighable ==
  ASSUME NEW root, RootOK(root)
  PROVE  /\ Weighable(root.arms) /\ Weighable(LegalArms(root.arms))
         /\ LegalHeld(LegalArms(root.arms), root.arms)
<1>1. /\ root.visits \in 0..Iterations /\ ArmsOK(root.arms, root.visits)
      /\ Iterations \in Nat
  BY MarginalAnswerAssumption DEF RootOK
<1>2. LegalHeld(LegalArms(root.arms), root.arms)
  BY <1>1, LegalArmsAreHeld
<1>3. ASSUME NEW i \in DOMAIN root.arms
      PROVE  /\ root.arms[i].timesAvailable \in 1..Iterations
             /\ root.arms[i].mass > 0 => root.arms[i].mass >= Iterations
  <2>1. root.arms[i].timesAvailable \in 1..root.visits
    BY <1>1 DEF ArmsOK
  <2>2. root.arms[i].mass > 0 => root.arms[i].mass >= Iterations
    BY <1>1 DEF ArmsOK
  <2> QED BY <1>1, <2>1, <2>2
<1>4. Weighable(root.arms)
  BY <1>1, <1>3 DEF Weighable, ArmsOK
<1>5. Weighable(LegalArms(root.arms))
  BY <1>2, <1>3 DEF Weighable, LegalHeld, LegalPlaces
<1> QED BY <1>2, <1>4, <1>5

(* The candidates of a root have honest means, and the leader among them    *)
(* was visited if any legal arm was.                                        *)
LEMMA RankedIsHonest ==
  ASSUME NEW root, RootOK(root)
  PROVE  /\ Ranked(root.arms) \in Seq(Candidate(Int))
         /\ Len(Ranked(root.arms)) = Len(LegalArms(root.arms))
         /\ \A k \in DOMAIN LegalArms(root.arms) :
              Ranked(root.arms)[k] = ArmCandidate(LegalArms(root.arms)[k])
<1> DEFINE held == LegalArms(root.arms)
<1>1. held \in Seq(Arm)
  BY RootsAreWeighable DEF Weighable
<1> HIDE DEF held
<1>2. /\ Len(held) \in Nat /\ DOMAIN held = 1..Len(held)
      /\ \A k \in DOMAIN held : held[k].visits \in Nat /\ held[k].timesAvailable \in Nat
                                /\ held[k].reward \in Int
  BY <1>1, ArmTyped
<1>3. ASSUME NEW k \in DOMAIN held
      PROVE  ArmCandidate(held[k]) \in Candidate(Int)
  <2> DEFINE v == held[k].visits
             t == held[k].timesAvailable
             r == held[k].reward
             average == IF v = 0 THEN 0 ELSE (r * Unit) \div v
  <2>1. v \in Nat /\ t \in Nat /\ r \in Int /\ Unit \in Nat
    BY <1>2, MarginalAnswerAssumption
  <2>2. ArmCandidate(held[k]) = [visits |-> v, timesAvailable |-> t, mean |-> average]
    BY DEF ArmCandidate, CandidateOf
  <2> HIDE DEF v, t, r
  <2>3. average \in Int
    BY <2>1
  <2> HIDE DEF average
  <2> QED BY <2>1, <2>2, <2>3 DEF Candidate
<1> DEFINE pool == Ranked(root.arms)
<1>4. pool = [k \in 1..Len(held) |-> ArmCandidate(held[k])]
  BY <1>2 DEF Ranked, held
<1>5. pool \in [1..Len(held) -> Candidate(Int)]
  BY <1>2, <1>3, <1>4
<1>6. \A k \in DOMAIN held : pool[k] = ArmCandidate(held[k])
  BY <1>2, <1>4
<1> HIDE DEF pool
<1>7. pool \in Seq(Candidate(Int)) /\ Len(pool) = Len(held)
  BY <1>2, <1>5
<1> QED BY <1>6, <1>7 DEF pool, held

LEMMA RootLeaderIs ==
  ASSUME NEW root, RootOK(root)
  PROVE  /\ RootLeader(root) = 0 =>
              \A k \in DOMAIN LegalArms(root.arms) : LegalArms(root.arms)[k].visits = 0
         /\ RootLeader(root) # 0 =>
              /\ RootLeader(root) \in DOMAIN LegalArms(root.arms)
              /\ LegalArms(root.arms)[RootLeader(root)].visits > 0
              /\ IsLeader(Ranked(root.arms), RootLeader(root))
         /\ HasLeader(Ranked(root.arms)) <=> RootLeader(root) # 0
<1> DEFINE held == LegalArms(root.arms)
           pool == Ranked(root.arms)
<1>1. /\ held \in Seq(Arm)
      /\ pool \in Seq(Candidate(Int)) /\ Len(pool) = Len(held)
      /\ \A k \in DOMAIN held : pool[k] = ArmCandidate(held[k])
  BY RankedIsHonest, RootsAreWeighable DEF Weighable
<1>a. RootLeader(root) = IF HasLeader(pool) THEN Leader(pool) ELSE 0
  BY DEF RootLeader
<1> HIDE DEF held, pool
<1>2. /\ Len(held) \in Nat /\ DOMAIN held = 1..Len(held) /\ DOMAIN pool = 1..Len(held)
      /\ \A k \in DOMAIN held : held[k].visits \in Nat
      /\ \A k \in DOMAIN pool : pool[k] \in Candidate(Int)
  BY <1>1, ArmTyped, LenProperties, ElementOfSeq
<1>3. \A k \in DOMAIN held : pool[k].visits = held[k].visits
  <2>1. \A arm : ArmCandidate(arm).visits = arm.visits
    <3> SUFFICES ASSUME NEW arm PROVE ArmCandidate(arm).visits = arm.visits
      OBVIOUS
    <3> QED BY DEF ArmCandidate, CandidateOf
  <2> QED BY <1>1, <2>1
<1>4. HonestOn(pool, DOMAIN pool)
  <2>1. IsFiniteSet(1..Len(held)) /\ 1..Len(held) \subseteq Nat
    BY <1>2, FS_Interval
  <2> QED BY <1>2, <2>1 DEF HonestOn
<1>5. ASSUME ~HasLeader(pool), NEW k \in DOMAIN held PROVE held[k].visits = 0
  <2> SUFFICES ASSUME held[k].visits > 0 PROVE FALSE
    BY <1>2
  <2>1. k \in DOMAIN pool /\ pool[k].visits > 0
    BY <1>2, <1>3
  <2> QED BY <1>4, <1>5, <2>1, LeaderExists
<1>6. ASSUME HasLeader(pool)
      PROVE  /\ Leader(pool) \in DOMAIN held /\ Leader(pool) # 0
             /\ held[Leader(pool)].visits > 0 /\ IsLeader(pool, Leader(pool))
  <2>1. /\ Leader(pool) \in DOMAIN pool /\ IsLeader(pool, Leader(pool))
        /\ pool[Leader(pool)].visits > 0
    BY <1>6, LeaderWasVisited
  <2> QED BY <1>2, <1>3, <2>1
<1> QED BY <1>a, <1>5, <1>6 DEF held, pool

-----------------------------------------------------------------------------
(* The answer that is extracted from a root, against what is reported of it. *)

(* What AnswerIsReported says of an answer and the root it was read from.   *)
Reported(root, told) ==
  LET policy == RootPolicy(root)
  IN  /\ told.choice \in ToSet(choices)
      /\ Informed(root) =>
           /\ told.choice \in DOMAIN policy
           /\ policy[told.choice] > 0
           /\ ~sampled => \A c \in DOMAIN policy : policy[c] <= policy[told.choice]

(* A root with legal arms reports the strategy over them, by choice.        *)
LEMMA PolicyIsTheStrategy ==
  ASSUME NEW root, RootOK(root), NEW k \in DOMAIN LegalArms(root.arms)
  PROVE  /\ DOMAIN RootPolicy(root) = ChoicesOf(LegalArms(root.arms))
         /\ LegalArms(root.arms)[k].choice \in DOMAIN RootPolicy(root)
         /\ RootPolicy(root)[LegalArms(root.arms)[k].choice]
              = StrategyInto(LegalArms(root.arms), RootLeader(root))[k]
<1> DEFINE held     == LegalArms(root.arms)
           strategy == StrategyInto(held, RootLeader(root))
           c        == held[k].choice
<1>1. held # <<>> /\ OneArmEach(held)
  BY RootsAreWeighable DEF LegalHeld
<1>2. RootPolicy(root) = [d \in ChoicesOf(held) |->
                            strategy[CHOOSE i \in DOMAIN held : held[i].choice = d]]
  BY <1>1 DEF RootPolicy
<1>3. k \in DOMAIN held
  OBVIOUS
<1> HIDE DEF held, strategy
<1>4. c \in ChoicesOf(held)
  BY <1>3 DEF ChoicesOf
<1>5. (CHOOSE i \in DOMAIN held : held[i].choice = c) = k
  BY <1>1, <1>3 DEF OneArmEach
<1> QED BY <1>2, <1>4, <1>5 DEF held, strategy

(* The arms that an extraction may pick.                                    *)
Picks(root, oneHot) ==
  IF sampled THEN SampleRootArm(LegalArms(root.arms), oneHot)
  ELSE BestArm(LegalArms(root.arms), oneHot)

LEMMA ExtractionIs ==
  ASSUME NEW root, NEW oneHot, NEW told \in ExtractMarginal(root, oneHot)
  PROVE  \/ \E k \in Picks(root, oneHot) :
              told = Answer(LegalArms(root.arms)[k].choice,
                              ArmCandidate(LegalArms(root.arms)[k]))
         \/ /\ Picks(root, oneHot) = {}
            /\ told.choice \in ToSet(choices)
<1>1. CASE Picks(root, oneHot) # {}
  BY <1>1 DEF ExtractMarginal, Picks
<1>2. CASE Picks(root, oneHot) = {}
  <2>1. PICK c \in ToSet(choices) : told = Answer(c, CandidateOf(0, 0, 0))
    BY <1>2 DEF ExtractMarginal, Picks
  <2>2. told.choice = c
    BY <2>1 DEF Answer
  <2> QED BY <1>2, <2>2
<1> QED BY <1>1, <1>2

(* Every pick is a legal arm that the strategy may play, the likeliest if    *)
(* the answer is not drawn; and there is one if the search knows anything of *)
(* the position.                                                             *)
LEMMA PicksAreReported ==
  ASSUME NEW root, RootOK(root)
  PROVE  LET held     == LegalArms(root.arms)
             strategy == StrategyInto(held, RootLeader(root))
             picks    == Picks(root, RootLeader(root))
         IN  /\ \A k \in picks :
                  /\ k \in DOMAIN held /\ strategy[k] > 0
                  /\ ~sampled => \A j \in DOMAIN held : strategy[j] <= strategy[k]
             /\ Informed(root) => picks # {}
<1> DEFINE held     == LegalArms(root.arms)
           lead     == RootLeader(root)
           n        == Len(held)
           weights  == Weights(held, lead)
           strategy == StrategyInto(held, lead)
           picks    == Picks(root, lead)
<1>1. /\ n \in Nat /\ DOMAIN held = 1..n /\ weights \in [1..n -> Nat]
      /\ \A i \in DOMAIN held :
           IF mixes THEN weights[i] > 0 <=> held[i].mass > 0
           ELSE weights[i] = IF i = lead THEN Unit ELSE 0
  BY RootsAreWeighable, WeightsOfArms
<1>2. /\ lead # 0 => lead \in DOMAIN held
      /\ lead = 0 => \A k \in DOMAIN held : held[k].visits = 0
  BY RootLeaderIs
<1>3. strategy = IF Total(weights) > 0 THEN weights ELSE [i \in DOMAIN held |-> 1]
  BY DEF StrategyInto
<1>4. picks = IF sampled
              THEN IF Total(weights) > 0 THEN Drawn(weights) ELSE DOMAIN held
              ELSE IF Total(weights) > 0 THEN {Heaviest(weights)} ELSE {lead} \ {0}
  BY DEF Picks, SampleRootArm, BestArm
<1>5. Total(weights) > 0 <=> \E i \in 1..n : weights[i] > 0
  BY <1>1, TotalOfWeights
<1>6. ASSUME Informed(root)
      PROVE  \E k \in DOMAIN held : held[k].visits > 0 \/ held[k].mass > 0
  <2>1. PICK i \in DOMAIN root.arms :
          /\ Offered(root.arms[i], choices)
          /\ root.arms[i].visits > 0 \/ root.arms[i].mass > 0
    BY <1>6 DEF Informed
  <2>2. i \in LegalPlaces(root.arms)
    BY <2>1 DEF LegalPlaces
  <2>3. PICK k \in DOMAIN held : held[k] = root.arms[i]
    BY <2>2, RootsAreWeighable DEF LegalHeld
  <2> QED BY <2>1, <2>3
<1>7. ASSUME NEW k \in DOMAIN held, held[k].mass > 0 PROVE mixes
  <2>1. PICK i \in LegalPlaces(root.arms) : held[k] = root.arms[i]
    BY RootsAreWeighable DEF LegalHeld
  <2> QED BY <1>7, <2>1 DEF LegalPlaces, RootOK, ArmsOK
<1>a. \A k \in DOMAIN held : held[k].visits \in Nat /\ held[k].mass \in Nat
  BY RootsAreWeighable, ArmTyped DEF Weighable
<1> HIDE DEF held, lead, n, weights, strategy, picks
<1>8. CASE Total(weights) > 0
  <2>1. n # 0 /\ strategy = weights
    BY <1>1, <1>3, <1>5, <1>8
  <2>2. /\ IsHeaviest(weights, n, Heaviest(weights))
    BY <1>1, <2>1, HeaviestIs
  <2>3. /\ Heaviest(weights) \in 1..n
        /\ \A j \in 1..n : weights[j] <= weights[Heaviest(weights)]
        /\ weights[Heaviest(weights)] > 0
    <3>1. /\ Heaviest(weights) \in 1..n
          /\ \A j \in 1..n : weights[j] <= weights[Heaviest(weights)]
      BY <2>2 DEF IsHeaviest
    <3>2. PICK i \in 1..n : weights[i] > 0
      BY <1>5, <1>8
    <3> QED BY <1>1, <3>1, <3>2
  <2>4. CASE sampled
    <3>1. picks = Drawn(weights)
      BY <1>4, <1>8, <2>4
    <3>2. (\A i \in Drawn(weights) : i \in 1..n /\ weights[i] > 0) /\ Drawn(weights) # {}
      BY <1>1, <1>8, DrawnWeighs
    <3> QED BY <1>1, <2>1, <2>4, <3>1, <3>2 DEF held, lead, strategy, picks
  <2>5. CASE ~sampled
    <3>1. picks = {Heaviest(weights)}
      BY <1>4, <1>8, <2>5
    <3> QED BY <1>1, <2>1, <2>3, <3>1 DEF held, lead, strategy, picks
  <2> QED BY <2>4, <2>5
<1>9. CASE ~(Total(weights) > 0)
  <2>1. strategy = [i \in DOMAIN held |-> 1]
    BY <1>3, <1>9
  <2>2. \A k \in DOMAIN held : strategy[k] = 1
    BY <2>1
  <2>3. \A k \in picks : k \in DOMAIN held
    BY <1>2, <1>4, <1>9
  <2>4. ASSUME Informed(root) PROVE picks # {}
    <3>1. PICK k \in DOMAIN held : held[k].visits > 0 \/ held[k].mass > 0
      BY <1>6, <2>4
    <3>2. ~(held[k].mass > 0)
      <4> SUFFICES ASSUME held[k].mass > 0 PROVE FALSE
        OBVIOUS
      <4>1. mixes
        BY <1>7
      <4>2. weights[k] > 0
        BY <1>1, <4>1
      <4> QED BY <1>1, <1>5, <1>9, <4>2
    <3>3. lead # 0
      BY <1>2, <1>a, <3>1, <3>2
    <3> QED BY <1>4, <1>9, <3>1, <3>3
  <2> QED BY <2>2, <2>3, <2>4 DEF held, lead, strategy, picks
<1> QED BY <1>8, <1>9

LEMMA ExtractionIsReported ==
  ASSUME NEW root, RootOK(root), NEW told \in ExtractMarginal(root, RootLeader(root))
  PROVE  Reported(root, told)
<1> DEFINE held     == LegalArms(root.arms)
           strategy == StrategyInto(held, RootLeader(root))
           picks    == Picks(root, RootLeader(root))
           policy   == RootPolicy(root)
<1>1. /\ \A k \in picks :
           /\ k \in DOMAIN held /\ strategy[k] > 0
           /\ ~sampled => \A j \in DOMAIN held : strategy[j] <= strategy[k]
      /\ Informed(root) => picks # {}
  BY PicksAreReported
<1>2. \A k \in DOMAIN held : /\ DOMAIN policy = ChoicesOf(held)
                             /\ held[k].choice \in DOMAIN policy
                             /\ policy[held[k].choice] = strategy[k]
  BY PolicyIsTheStrategy
<1>3. \A k \in DOMAIN held : held[k].choice \in ToSet(choices)
  BY RootsAreWeighable DEF LegalHeld, LegalPlaces, Offered
<1>4. \/ \E k \in picks : told = Answer(held[k].choice, ArmCandidate(held[k]))
      \/ picks = {} /\ told.choice \in ToSet(choices)
  BY ExtractionIs
<1> HIDE DEF held, strategy, picks, policy
<1>5. CASE picks = {} /\ told.choice \in ToSet(choices)
  BY <1>1, <1>5 DEF Reported
<1>6. ASSUME NEW k \in picks, told = Answer(held[k].choice, ArmCandidate(held[k]))
      PROVE  Reported(root, told)
  <2>1. told.choice = held[k].choice /\ k \in DOMAIN held
    BY <1>1, <1>6 DEF Answer
  <2>2. /\ told.choice \in ToSet(choices)
        /\ told.choice \in DOMAIN policy /\ policy[told.choice] > 0
    BY <1>1, <1>2, <1>3, <2>1
  <2>3. ASSUME ~sampled, NEW c \in DOMAIN policy PROVE policy[c] <= policy[told.choice]
    <3>1. PICK j \in DOMAIN held : held[j].choice = c
      <4>1. c \in ChoicesOf(held)
        BY <1>2, <2>1, <2>3
      <4> QED BY <4>1 DEF ChoicesOf
    <3> QED BY <1>1, <1>2, <2>1, <2>3, <3>1
  <2> QED BY <2>2, <2>3 DEF Reported, policy
<1> QED BY <1>4, <1>5, <1>6

-----------------------------------------------------------------------------
(* The invariant.                                                           *)

Root == [visits : Nat, arms : Seq(Arm)]

RootsOK ==
  /\ choices \in Positions /\ mixes \in BOOLEAN /\ sampled \in BOOLEAN
  /\ roots \in Seq(Root)
  /\ \A w \in DOMAIN roots : RootOK(roots[w])

InPlace ==
  /\ phase \in {"ranking", "gathering", "extracting", "merging", "merged"}
  /\ phase # "ranking" => worker \in DOMAIN roots
  /\ phase = "gathering" => candidates = <<>> /\ next = 1 /\ leader = 0
  /\ phase = "extracting" => worker = 1 /\ candidates = Ranked(roots[1].arms)
  /\ phase # "merged" => merged = NoAnswer

(* The lists of other roots may hold what they may; an arm's mean is honest. *)
Ranking == phase # "ranking" \/ Honest => Scanned

(* The first worker has answered, and its answer is what its root gives.    *)
Told == phase \in {"merging", "merged"} \/ (phase = "gathering" /\ worker # 1)

Telling ==
  IF Told THEN result \in ExtractMarginal(roots[1], RootLeader(roots[1]))
  ELSE result = NoAnswer

MarginalInv == RootsOK /\ InPlace /\ Ranking /\ Telling

(* Nothing scanned is a scan that has not begun.                            *)
LEMMA NothingScanned ==
  ASSUME candidates = <<>>, next = 1, leader = 0
  PROVE  Scanned
<1>1. candidates \in Seq(Candidate(Int)) /\ Len(candidates) = 0
  BY EmptySeq
<1> QED BY <1>1 DEF Scanned

(* What a root's policy and its answer are depends on the root, on what the *)
(* position offers and on the configuration.                                *)
LEMMA SameRanking ==
  ASSUME choices' = choices
  PROVE  Ranked(roots[1].arms)' = Ranked(roots'[1].arms)
BY DEF Ranked, LegalArms

LEMMA SameExtraction ==
  ASSUME choices' = choices, mixes' = mixes, sampled' = sampled, roots'[1] = roots[1]
  PROVE  ExtractMarginal(roots[1], RootLeader(roots[1]))'
           = ExtractMarginal(roots[1], RootLeader(roots[1]))
BY DEF ExtractMarginal, RootLeader, Ranked, LegalArms, SampleRootArm, BestArm, Weights, WeightOf

LEMMA SameRoots ==
  ASSUME RootsOK, UNCHANGED config, roots' \in Seq(Root),
         \A w \in DOMAIN roots' : RootOK(roots'[w])
  PROVE  RootsOK'
BY DEF RootsOK, RootOK, ArmsOK, config

LEMMA MarginalInitHolds == MarginalInit => MarginalInv
<1> SUFFICES ASSUME MarginalInit PROVE MarginalInv
  OBVIOUS
<1>1. choices \in Positions /\ worker = 1 /\ result = NoAnswer /\ merged = NoAnswer
  BY DEF MarginalInit
<1>2. CASE phase = "ranking"
  <2>1. /\ ScanInit /\ roots = <<>> /\ mixes \in BOOLEAN /\ sampled \in BOOLEAN
    BY <1>2 DEF MarginalInit
  <2>2. roots \in Seq(Root) /\ Len(roots) = 0 /\ DOMAIN roots = {}
    BY <2>1, EmptySeq
  <2>3. RootsOK
    BY <1>1, <2>1, <2>2 DEF RootsOK
  <2>4. Ranking
    BY <1>2, <2>1, ScannedInit DEF Ranking
  <2> QED BY <1>1, <1>2, <2>2, <2>3, <2>4
          DEF MarginalInv, InPlace, Telling, Told
<1>3. CASE phase # "ranking"
  <2>1. /\ phase = "gathering" /\ mixes \in BOOLEAN /\ sampled \in BOOLEAN
        /\ candidates = <<>> /\ next = 1 /\ leader = 0
    BY <1>3 DEF MarginalInit
  <2>2. PICK n \in 1..MaxWorkers : roots \in [1..n -> [visits : {0, 1}, arms : {<<>>}]]
    BY <1>3 DEF MarginalInit
  <2>3. n \in Nat \ {0} /\ DOMAIN roots = 1..n
    BY <2>2, MarginalAnswerAssumption
  <2>4. ASSUME NEW w \in DOMAIN roots
        PROVE  roots[w] \in Root /\ RootOK(roots[w])
    <3>1. roots[w] \in [visits : {0, 1}, arms : {<<>>}]
      BY <2>2, <2>3
    <3>2. roots[w].visits \in {0, 1} /\ roots[w].arms = <<>>
      BY <3>1
    <3>3. roots[w].arms \in Seq(Arm) /\ DOMAIN roots[w].arms = {}
      BY <3>2, EmptySeq
    <3>4. roots[w] \in Root
      <4>1. roots[w] = [visits |-> roots[w].visits, arms |-> roots[w].arms]
        BY <3>1
      <4>2. roots[w].visits \in Nat
        BY <3>2
      <4> QED BY <3>3, <4>1, <4>2 DEF Root
    <3>5. ArmsOK(roots[w].arms, roots[w].visits)
      BY <3>3 DEF ArmsOK, OneArmEach
    <3>6. roots[w].visits \in 0..Iterations
      BY <3>2, MarginalAnswerAssumption
    <3> QED BY <3>2, <3>4, <3>5, <3>6 DEF RootOK
  <2>5. roots \in Seq(Root)
    <3>1. roots \in [1..n -> Root]
      BY <2>2, <2>3, <2>4
    <3> QED BY <2>3, <3>1
  <2>6. RootsOK
    BY <1>1, <2>1, <2>4, <2>5 DEF RootsOK
  <2>7. Ranking
    BY <2>1, NothingScanned DEF Ranking
  <2> QED BY <1>1, <2>1, <2>3, <2>6, <2>7
          DEF MarginalInv, InPlace, Telling, Told
<1> QED BY <1>2, <1>3

(* What an iteration makes of a root.                                       *)
LEMMA GatheredRoot ==
  ASSUME NEW root \in Root, RootOK(root), root.visits < Iterations,
         NEW world \in Worlds, NEW reward \in Reward,
         NEW support \in IF mixes THEN Supports(Expanded(root.arms, world), world) ELSE {{}},
         NEW played \in Playable(Expanded(root.arms, world), world)
  PROVE  LET more == [visits |-> root.visits + 1,
                      arms   |-> Credited(Expanded(root.arms, world), support, played, reward)]
         IN  more \in Root /\ RootOK(more)
<1> DEFINE arms     == Expanded(root.arms, world)
           credited == Credited(arms, support, played, reward)
           n        == root.visits + 1
<1>1. /\ root.visits \in Nat /\ n \in Nat /\ n \in 0..Iterations
      /\ ArmsOK(root.arms, root.visits)
  BY MarginalAnswerAssumption DEF RootOK, Root
<1>2. ArmsOK(arms, n) /\ \E i \in DOMAIN arms : Offered(arms[i], world)
  BY <1>1, ExpandedArms
<1>3. played \in DOMAIN arms
  BY DEF Playable
<1>4. support \in IF mixes THEN Supports(arms, world) ELSE {{}}
  OBVIOUS
<1> HIDE DEF arms, n
<1>5. ArmsOK(credited, n) /\ (mixes => Massive(credited))
  BY <1>1, <1>2, <1>3, <1>4, CreditedArms
<1> HIDE DEF credited
<1> DEFINE more == [visits |-> n, arms |-> credited]
<1>6. more \in Root
  BY <1>1, <1>5 DEF Root, ArmsOK
<1>7. RootOK(more)
  BY <1>1, <1>5 DEF RootOK
<1> QED BY <1>6, <1>7 DEF n, arms, credited

(* A search that ends leaves the pool where its answer is extracted, at the *)
(* next search or at the merge.                                             *)
LEMMA EndedInPlace ==
  ASSUME InPlace, Ranking, Telling, phase = "gathering", SearchEnds,
         UNCHANGED <<next, leader, config, result, merged>>,
         DOMAIN roots' = DOMAIN roots, 1 \in DOMAIN roots, Len(roots) \in Nat,
         DOMAIN roots = 1..Len(roots), RootOK(roots'[1]),
         worker # 1 => roots'[1] = roots[1]
  PROVE  InPlace' /\ Ranking' /\ Telling'
<1>1. /\ next = 1 /\ leader = 0 /\ worker \in DOMAIN roots /\ merged = NoAnswer /\ Scanned
      /\ candidates = <<>>
  BY DEF InPlace, Ranking
<1>2. choices' = choices /\ mixes' = mixes /\ sampled' = sampled
  BY DEF config
<1>3. CASE worker = 1
  <2>1. /\ phase' = "extracting" /\ worker' = 1
        /\ candidates' = Ranked(roots'[1].arms)
    BY <1>3 DEF SearchEnds
  <2>2. candidates' = Ranked(roots[1].arms)'
    BY <1>2, <2>1, SameRanking
  <2>3. InPlace'
    BY <1>1, <2>1, <2>2 DEF InPlace
  <2>4. Scanned'
    <3>1. candidates' \in Seq(Candidate(Int))
      BY <2>1, RankedIsHonest
    <3>2. Len(candidates') \in Nat
      BY <3>1, LenProperties
    <3>3. next' = 1 /\ leader' = 0
      BY <1>1
    <3> QED BY <3>1, <3>2, <3>3 DEF Scanned
  <2>5. result' = NoAnswer /\ ~Told'
    BY <1>3, <2>1 DEF Telling, Told
  <2> QED BY <2>3, <2>4, <2>5 DEF Ranking, Telling
<1>4. CASE worker # 1
  <2>1. /\ phase' = IF worker = Len(roots) THEN "merging" ELSE phase
        /\ worker' = IF worker = Len(roots) THEN worker ELSE worker + 1
        /\ candidates' = candidates
    BY <1>4 DEF SearchEnds
  <2>2. worker' \in DOMAIN roots' /\ worker' # 1
    BY <1>1, <1>4, <2>1
  <2>3. phase' \in {"gathering", "merging"}
    BY <2>1
  <2>4. InPlace'
    BY <1>1, <2>1, <2>2, <2>3 DEF InPlace
  <2>5. Scanned'
    BY <1>1, <2>1 DEF Scanned, Visited
  <2>6. Told /\ Told'
    BY <1>4, <2>2, <2>3 DEF Told
  <2>7. Telling'
    BY <1>2, <1>4, <2>6, SameExtraction DEF Telling
  <2> QED BY <2>4, <2>5, <2>7 DEF Ranking
<1> QED BY <1>3, <1>4

(* What RootsOK says of the list of roots.                                  *)
LEMMA RootsTyped ==
  ASSUME RootsOK
  PROVE  /\ Len(roots) \in Nat /\ DOMAIN roots = 1..Len(roots)
         /\ \A w \in DOMAIN roots : roots[w] \in Root /\ RootOK(roots[w])
BY LenProperties, ElementOfSeq DEF RootsOK

LEMMA MarginalGather == MarginalInv /\ Gather => MarginalInv'
<1> SUFFICES ASSUME MarginalInv, Gather PROVE MarginalInv'
  OBVIOUS
<1>1. /\ RootsOK /\ InPlace /\ Ranking /\ Telling
      /\ phase = "gathering" /\ roots[worker].visits < Iterations
      /\ UNCHANGED <<next, leader, config, result, merged>>
  BY DEF MarginalInv, Gather
<1>2. /\ worker \in DOMAIN roots /\ Len(roots) \in Nat /\ DOMAIN roots = 1..Len(roots)
      /\ \A w \in DOMAIN roots : roots[w] \in Root /\ RootOK(roots[w])
  BY <1>1, RootsTyped DEF InPlace
<1>3. \E more \in Root : RootOK(more) /\ roots' = [roots EXCEPT ![worker] = more]
  <2>1. PICK world \in Worlds, reward \in Reward :
          \E support \in IF mixes THEN Supports(Expanded(roots[worker].arms, world), world)
                         ELSE {{}} :
            \E played \in Playable(Expanded(roots[worker].arms, world), world) :
              roots' = [roots EXCEPT ![worker] =
                          [visits |-> @.visits + 1,
                           arms   |-> Credited(Expanded(roots[worker].arms, world),
                                               support, played, reward)]]
    BY DEF Gather
  <2>2. PICK support \in IF mixes THEN Supports(Expanded(roots[worker].arms, world), world)
                         ELSE {{}},
             played \in Playable(Expanded(roots[worker].arms, world), world) :
              roots' = [roots EXCEPT ![worker] =
                          [visits |-> @.visits + 1,
                           arms   |-> Credited(Expanded(roots[worker].arms, world),
                                               support, played, reward)]]
    BY <2>1
  <2> DEFINE more == [visits |-> roots[worker].visits + 1,
                      arms   |-> Credited(Expanded(roots[worker].arms, world),
                                          support, played, reward)]
  <2>3. more \in Root /\ RootOK(more)
    BY <1>1, <1>2, GatheredRoot
  <2>4. roots' = [roots EXCEPT ![worker] = more]
    BY <2>2
  <2> QED BY <2>3, <2>4
<1>4. PICK more \in Root : RootOK(more) /\ roots' = [roots EXCEPT ![worker] = more]
  BY <1>3
<1>5. /\ DOMAIN roots' = DOMAIN roots
      /\ roots'[worker] = more
      /\ \A w \in DOMAIN roots : w # worker => roots'[w] = roots[w]
  BY <1>2, <1>4 DEF RootsOK
<1>6. \A w \in DOMAIN roots' : RootOK(roots'[w])
  BY <1>2, <1>4, <1>5
<1>7. roots' \in Seq(Root)
  <2>1. roots \in Seq(Root)
    BY <1>1 DEF RootsOK
  <2> QED BY <1>2, <1>4, <2>1, ExceptSeq
<1>8. RootsOK'
  BY <1>1, <1>6, <1>7, SameRoots
<1>9. CASE SearchEnds
  <2>1. 1 \in DOMAIN roots
    BY <1>2
  <2>2. worker # 1 => roots'[1] = roots[1]
    BY <1>5, <2>1
  <2>3. RootOK(roots'[1])
    BY <1>5, <1>6, <2>1
  <2>4. InPlace' /\ Ranking' /\ Telling'
    BY <1>1, <1>2, <1>5, <1>9, <2>1, <2>2, <2>3, EndedInPlace
  <2> QED BY <1>8, <2>4 DEF MarginalInv
<1>10. CASE UNCHANGED <<phase, candidates, worker>>
  <2>1. choices' = choices /\ mixes' = mixes /\ sampled' = sampled
    BY <1>1 DEF config
  <2>2. InPlace'
    BY <1>1, <1>2, <1>5, <1>10 DEF InPlace
  <2>3. Ranking'
    BY <1>1, <1>10 DEF Ranking, Scanned, Visited
  <2>4. Told' = Told
    BY <1>10 DEF Told
  <2>5. Telling'
    <3>1. CASE Told
      <4>1. worker # 1 /\ 1 \in DOMAIN roots
        BY <1>1, <1>2, <3>1 DEF Told
      <4>2. roots'[1] = roots[1]
        BY <1>5, <4>1
      <4> QED BY <1>1, <2>1, <2>4, <3>1, <4>2, SameExtraction DEF Telling
    <3>2. CASE ~Told
      BY <1>1, <2>4, <3>2 DEF Telling
    <3> QED BY <3>1, <3>2
  <2> QED BY <1>8, <2>2, <2>3, <2>5 DEF MarginalInv
<1>11. SearchEnds \/ UNCHANGED <<phase, candidates, worker>>
  BY DEF Gather
<1> QED BY <1>9, <1>10, <1>11

LEMMA MarginalStop == MarginalInv /\ Stop => MarginalInv'
<1> SUFFICES ASSUME MarginalInv, Stop PROVE MarginalInv'
  OBVIOUS
<1>1. /\ RootsOK /\ InPlace /\ Ranking /\ Telling
      /\ phase = "gathering" /\ roots' = roots /\ SearchEnds
      /\ UNCHANGED <<next, leader, config, result, merged>>
  BY DEF MarginalInv, Stop
<1>2. /\ worker \in DOMAIN roots /\ Len(roots) \in Nat /\ DOMAIN roots = 1..Len(roots)
      /\ \A w \in DOMAIN roots : RootOK(roots[w])
  BY <1>1, RootsTyped DEF InPlace
<1>3. 1 \in DOMAIN roots /\ RootOK(roots'[1]) /\ DOMAIN roots' = DOMAIN roots
  BY <1>1, <1>2
<1>4. RootsOK'
  BY <1>1, <1>2, SameRoots DEF RootsOK
<1>5. InPlace' /\ Ranking' /\ Telling'
  BY <1>1, <1>2, <1>3, EndedInPlace
<1> QED BY <1>4, <1>5 DEF MarginalInv

LEMMA MarginalScan == MarginalInv /\ Scan => MarginalInv'
<1> SUFFICES ASSUME MarginalInv, Scan PROVE MarginalInv'
  OBVIOUS
<1>1. /\ RootsOK /\ InPlace /\ Ranking /\ Telling
      /\ phase \in {"ranking", "extracting"} /\ ScanNext
      /\ UNCHANGED <<phase, config, roots, worker, result, merged>>
  BY DEF MarginalInv, Scan
<1>2. choices' = choices /\ mixes' = mixes /\ sampled' = sampled
  BY <1>1 DEF config
<1>3. candidates' = candidates
  BY <1>1 DEF ScanNext, SkipUnvisited, KeepIncumbent, Promote
<1>4. RootsOK'
  BY <1>1, SameRoots DEF RootsOK
<1>5. InPlace'
  <2>1. candidates' = Ranked(roots[1].arms) => candidates' = Ranked(roots[1].arms)'
    BY <1>1, <1>2, SameRanking
  <2> QED BY <1>1, <1>3, <2>1 DEF InPlace
<1>6. Ranking'
  <2>1. Scanned => Scanned'
    BY <1>1, ScannedNext
  <2> QED BY <1>1, <2>1 DEF Ranking, Honest
<1>7. Telling'
  BY <1>1 DEF Telling, Told
<1> QED BY <1>4, <1>5, <1>6, <1>7 DEF MarginalInv

(* When the scan of a root's own arms ends, its incumbent is the arm that   *)
(* the root's strategy is read off.                                         *)
LEMMA ScanEndsAtRootLeader ==
  ASSUME NEW root, RootOK(root), Scanned, Done, candidates = Ranked(root.arms)
  PROVE  leader = RootLeader(root)
<1>1. FirstMaximum
  BY ScannedAnswers
<1>2. /\ Len(candidates) \in Nat /\ DOMAIN candidates = 1..Len(candidates)
      /\ leader # 0 => leader \in DOMAIN candidates
  BY DEF Scanned, Done, Scanning
<1>3. CASE \E i \in DOMAIN candidates : candidates[i].visits > 0
  <2>1. leader # 0 /\ IsLeader(candidates, leader)
    BY <1>1, <1>3 DEF FirstMaximum
  <2>2. HasLeader(candidates)
    BY <1>2, <2>1 DEF HasLeader
  <2>3. Leader(candidates) \in DOMAIN candidates /\ IsLeader(candidates, Leader(candidates))
    BY <2>2 DEF HasLeader, Leader
  <2>4. leader = Leader(candidates)
    BY <1>2, <2>1, <2>3, LeaderIsUnique
  <2> QED BY <2>2, <2>4 DEF RootLeader
<1>4. CASE ~ \E i \in DOMAIN candidates : candidates[i].visits > 0
  <2>1. leader = 0
    BY <1>1, <1>4 DEF FirstMaximum
  <2>2. ~HasLeader(candidates)
    BY <1>4 DEF HasLeader, IsLeader
  <2> QED BY <2>1, <2>2 DEF RootLeader
<1> QED BY <1>3, <1>4

LEMMA MarginalExtract == MarginalInv /\ ExtractFirst => MarginalInv'
<1> SUFFICES ASSUME MarginalInv, ExtractFirst PROVE MarginalInv'
  OBVIOUS
<1>1. /\ RootsOK /\ InPlace /\ Ranking /\ Telling
      /\ phase = "extracting" /\ Done
      /\ result' \in ExtractMarginal(roots[1], leader)
      /\ phase' = IF Len(roots) = 1 THEN "merging" ELSE "gathering"
      /\ worker' = IF Len(roots) = 1 THEN 1 ELSE 2
      /\ candidates' = <<>> /\ next' = 1 /\ leader' = 0
      /\ UNCHANGED <<config, roots, merged>>
  BY DEF MarginalInv, ExtractFirst
<1>2. choices' = choices /\ mixes' = mixes /\ sampled' = sampled
  BY <1>1 DEF config
<1>3. /\ worker = 1 /\ worker \in DOMAIN roots /\ merged = NoAnswer
      /\ candidates = Ranked(roots[1].arms) /\ Scanned
      /\ Len(roots) \in Nat /\ DOMAIN roots = 1..Len(roots) /\ RootOK(roots[1])
  BY <1>1, RootsTyped DEF InPlace, Ranking
<1>4. RootsOK'
  BY <1>1, SameRoots DEF RootsOK
<1>5. InPlace'
  BY <1>1, <1>3 DEF InPlace
<1>6. Scanned'
  <2>1. candidates' \in Seq(Candidate(Int)) /\ Len(candidates') = 0
    BY <1>1, EmptySeq
  <2> QED BY <1>1, <2>1 DEF Scanned
<1>7. leader = RootLeader(roots[1])
  BY <1>1, <1>3, ScanEndsAtRootLeader
<1>8. Told'
  BY <1>1 DEF Told
<1>9. Telling'
  <2>1. ExtractMarginal(roots[1], RootLeader(roots[1]))'
          = ExtractMarginal(roots[1], RootLeader(roots[1]))
    BY <1>1, <1>2, SameExtraction
  <2> QED BY <1>1, <1>7, <1>8, <2>1 DEF Telling
<1> QED BY <1>4, <1>5, <1>6, <1>9 DEF MarginalInv, Ranking

LEMMA MarginalMerge == MarginalInv /\ Merge => MarginalInv'
<1> SUFFICES ASSUME MarginalInv, Merge PROVE MarginalInv'
  OBVIOUS
<1>1. /\ RootsOK /\ InPlace /\ Ranking /\ Telling
      /\ phase = "merging" /\ phase' = "merged"
      /\ UNCHANGED <<scan, config, roots, worker, result>>
  BY DEF MarginalInv, Merge
<1>2. choices' = choices /\ mixes' = mixes /\ sampled' = sampled
  BY <1>1 DEF config
<1>3. RootsOK'
  BY <1>1, SameRoots DEF RootsOK
<1>4. InPlace'
  BY <1>1 DEF InPlace
<1>5. Ranking'
  BY <1>1 DEF Ranking, Scanned, Visited, scan
<1>6. Telling'
  <2>1. Told /\ Told'
    BY <1>1 DEF Told
  <2>2. ExtractMarginal(roots[1], RootLeader(roots[1]))'
          = ExtractMarginal(roots[1], RootLeader(roots[1]))
    BY <1>1, <1>2, SameExtraction
  <2> QED BY <1>1, <2>1, <2>2 DEF Telling
<1> QED BY <1>3, <1>4, <1>5, <1>6 DEF MarginalInv

LEMMA MarginalStutter == MarginalInv /\ UNCHANGED allVars => MarginalInv'
<1> SUFFICES ASSUME MarginalInv, UNCHANGED allVars PROVE MarginalInv'
  OBVIOUS
<1>1. /\ RootsOK /\ InPlace /\ Ranking /\ Telling
      /\ UNCHANGED <<candidates, next, leader, phase, config, roots, worker, result, merged>>
  BY DEF MarginalInv, allVars, scan
<1>2. choices' = choices /\ mixes' = mixes /\ sampled' = sampled
  BY <1>1 DEF config
<1>3. RootsOK'
  BY <1>1, SameRoots DEF RootsOK
<1>4. InPlace'
  <2>1. Ranked(roots[1].arms)' = Ranked(roots[1].arms)
    BY <1>1, <1>2, SameRanking
  <2> QED BY <1>1, <2>1 DEF InPlace
<1>5. Ranking'
  BY <1>1 DEF Ranking, Scanned, Visited, Honest
<1>6. Telling'
  <2>1. ExtractMarginal(roots[1], RootLeader(roots[1]))'
          = ExtractMarginal(roots[1], RootLeader(roots[1]))
    BY <1>1, <1>2, SameExtraction
  <2>2. Told' = Told
    BY <1>1 DEF Told
  <2> QED BY <1>1, <2>1, <2>2 DEF Telling
<1> QED BY <1>3, <1>4, <1>5, <1>6 DEF MarginalInv

LEMMA MarginalInvNext == MarginalInv /\ [MarginalNext]_allVars => MarginalInv'
BY MarginalGather, MarginalStop, MarginalScan, MarginalExtract, MarginalMerge, MarginalStutter
   DEF MarginalNext

(* extract_marginal and root_policy_into are two extractions from one root, *)
(* and tell one story: whatever the policy, the budget, the order in which  *)
(* the arms were met and the choices that only sampled worlds offer, the    *)
(* answer is a choice of the real position, one the reported strategy may   *)
(* play, and the likeliest where it is not drawn.                           *)
THEOREM AnswerIsAlwaysReported == MarginalSpec => []AnswerIsReported
<1>1. MarginalInit => MarginalInv
  BY MarginalInitHolds
<1>2. MarginalInv /\ [MarginalNext]_allVars => MarginalInv'
  BY MarginalInvNext
<1>3. MarginalInv => AnswerIsReported
  <2> SUFFICES ASSUME MarginalInv, result # NoAnswer, merged = NoAnswer
               PROVE  Reported(roots[1], result)
    BY DEF AnswerIsReported, Reported
  <2>1. Told /\ result \in ExtractMarginal(roots[1], RootLeader(roots[1]))
    BY DEF MarginalInv, Telling
  <2>2. RootOK(roots[1])
    <3>1. phase # "ranking"
      BY <2>1 DEF Told
    <3>2. worker \in DOMAIN roots
      BY <3>1 DEF MarginalInv, InPlace
    <3> QED BY <3>2, RootsTyped DEF MarginalInv
  <2> QED BY <2>1, <2>2, ExtractionIsReported
<1> QED BY <1>1, <1>2, <1>3, PTL DEF MarginalSpec

(* The scan itself, in the searches of a pool as over any other list.       *)
THEOREM EveryScanFindsFirstMaximum ==
  ASSUME Honest PROVE MarginalSpec => []FirstMaximum
<1>1. MarginalInit => MarginalInv
  BY MarginalInitHolds
<1>2. MarginalInv /\ [MarginalNext]_allVars => MarginalInv'
  BY MarginalInvNext
<1>3. MarginalInv => FirstMaximum
  BY ScannedAnswers DEF MarginalInv, Ranking
<1> QED BY <1>1, <1>2, <1>3, PTL DEF MarginalSpec

-----------------------------------------------------------------------------
(* What the merge makes of the workers' strategies.                         *)

(* A sum of which one entry is not zero is that entry.                      *)
LEMMA SumOfSpike ==
  ASSUME NEW S, IsFiniteSet(S), NEW f \in [S -> Int], NEW x \in S,
         \A y \in S : y # x => f[y] = 0
  PROVE  SumFunction(f) = f[x]
<1>1. SumFunction(f) = SumOn(f, S)
  BY SumIsSumOn
<1>2. SumOn(f, S) = f[x] + SumOn(f, S \ {x})
  BY SumOnWithout
<1>3. SumOn(f, S \ {x}) = 0
  BY SumOfZeros
<1> QED BY <1>1, <1>2, <1>3

LEMMA SumOfNothing ==
  ASSUME NEW S, IsFiniteSet(S), NEW f \in [S -> Int], \A y \in S : f[y] = 0
  PROVE  SumFunction(f) = 0
<1>1. SumFunction(f) = SumOn(f, S)
  BY SumIsSumOn
<1>2. SumOn(f, S) = 0
  BY SumOfZeros
<1> QED BY <1>1, <1>2

(* The position's choices are a finite set.                                 *)
LEMMA ChoicesTyped ==
  ASSUME choices \in Positions
  PROVE  /\ IsFiniteSet(ToSet(choices))
         /\ choices \in Seq(ToSet(choices))
         /\ \A i, j \in DOMAIN choices : choices[i] = choices[j] => i = j
         /\ Len(choices) \in Nat \ {0} /\ DOMAIN choices = 1..Len(choices)
<1>1. choices \in Seq(ToSet(choices)) \ {<<>>} /\ IsInjective(choices)
  BY MarginalAnswerAssumption
<1>2. /\ Len(choices) \in Nat /\ Len(choices) # 0
      /\ DOMAIN choices = 1..Len(choices)
  BY <1>1, EmptySeq, LenProperties
<1>3. IsFiniteSet(DOMAIN choices)
  BY <1>2, FS_Interval
<1>4. IsFiniteSet(ToSet(choices))
  <2> DEFINE I == DOMAIN choices
             T == ToSet(choices)
  <2>1. choices \in Surjection(I, T)
    <3>1. choices \in [I -> T]
      BY <1>1, <1>2, ElementOfSeq, LenProperties
    <3>2. \A c \in T : \E i \in I : choices[i] = c
      BY DEF ToSet
    <3> QED BY <3>1, <3>2 DEF Surjection
  <2>2. IsFiniteSet(I)
    BY <1>3
  <2> HIDE DEF I, T
  <2>3. IsFiniteSet(T)
    BY ONLY <2>1, <2>2, FS_Surjection
  <2> QED BY <2>3 DEF T
<1> QED BY <1>1, <1>2, <1>4 DEF IsInjective

(* A choice of the position has a legal arm, or the root has no arm for it. *)
LEMMA ArmOfAChoice ==
  ASSUME NEW root, RootOK(root), NEW c \in ToSet(choices)
  PROVE  /\ c \in ChoicesOf(LegalArms(root.arms)) =>
              \E k \in DOMAIN LegalArms(root.arms) : \E i \in DOMAIN root.arms :
                /\ LegalArms(root.arms)[k].choice = c
                /\ LegalArms(root.arms)[k] = root.arms[i]
                /\ \A j \in DOMAIN root.arms : root.arms[j].choice = c => j = i
         /\ c \notin ChoicesOf(LegalArms(root.arms)) =>
              \A j \in DOMAIN root.arms : root.arms[j].choice # c
<1> DEFINE held == LegalArms(root.arms)
<1>1. LegalHeld(held, root.arms) /\ OneArmEach(root.arms)
  BY RootsAreWeighable DEF RootOK, ArmsOK
<1> HIDE DEF held
<1>2. ASSUME c \in ChoicesOf(held)
      PROVE  \E k \in DOMAIN held : \E i \in DOMAIN root.arms :
               /\ held[k].choice = c /\ held[k] = root.arms[i]
               /\ \A j \in DOMAIN root.arms : root.arms[j].choice = c => j = i
  <2>1. PICK k \in DOMAIN held : held[k].choice = c
    BY <1>2 DEF ChoicesOf
  <2>2. PICK i \in LegalPlaces(root.arms) : held[k] = root.arms[i]
    BY <1>1, <2>1 DEF LegalHeld
  <2>3. i \in DOMAIN root.arms
    BY <2>2 DEF LegalPlaces
  <2> QED BY <1>1, <2>1, <2>2, <2>3 DEF OneArmEach
<1>3. ASSUME c \notin ChoicesOf(held), NEW j \in DOMAIN root.arms, root.arms[j].choice = c
      PROVE  FALSE
  <2>1. j \in LegalPlaces(root.arms)
    BY <1>3 DEF LegalPlaces, Offered
  <2>2. PICK k \in DOMAIN held : held[k] = root.arms[j]
    BY <1>1, <2>1 DEF LegalHeld
  <2> QED BY <1>3, <2>2 DEF ChoicesOf
<1> QED BY <1>2, <1>3 DEF held

(* Of one worker's strategy over every arm, what survives at a choice of    *)
(* the position is the weight of its legal arm.                             *)
LEMMA SharesAreWeights ==
  ASSUME choices \in Positions, mixes, NEW w, RootOK(roots[w]), NEW oneHot
  PROVE  /\ Shares(w) \in [ToSet(choices) -> Nat]
         /\ \A k \in DOMAIN LegalArms(roots[w].arms) :
              Shares(w)[LegalArms(roots[w].arms)[k].choice]
                = Weights(LegalArms(roots[w].arms), oneHot)[k]
         /\ \A c \in ToSet(choices) \ ChoicesOf(LegalArms(roots[w].arms)) : Shares(w)[c] = 0
<1> DEFINE arms     == roots[w].arms
           held     == LegalArms(arms)
           n        == Len(arms)
           weights  == Weights(arms, 0)
           strategy == StrategyInto(arms, 0)
           at(c)    == [i \in DOMAIN arms |-> IF arms[i].choice = c THEN strategy[i] ELSE 0]
<1>1. /\ n \in Nat /\ DOMAIN arms = 1..n /\ weights \in [1..n -> Nat]
      /\ \A i \in DOMAIN arms : weights[i] > 0 <=> arms[i].mass > 0
  BY RootsAreWeighable, WeightsOfArms
<1>2. n # 0 => Massive(arms)
  <2>1. n # 0 => arms # <<>>
    BY EmptySeq
  <2> QED BY <2>1 DEF RootOK
<1>3. strategy \in [1..n -> Nat] /\ \A i \in DOMAIN arms : strategy[i] = WeightOf(arms, i, 0)
  <2>1. weights = [i \in DOMAIN arms |-> WeightOf(arms, i, 0)]
    BY DEF Weights
  <2>2. strategy = IF Total(weights) > 0 THEN weights ELSE [i \in DOMAIN arms |-> 1]
    BY DEF StrategyInto
  <2> HIDE DEF weights, strategy, arms, n
  <2>3. CASE n = 0
    BY <1>1, <2>2, <2>3
  <2>4. CASE n # 0
    <3>1. PICK i \in DOMAIN arms : arms[i].mass > 0
      BY <1>2, <2>4 DEF Massive
    <3>2. Total(weights) > 0
      BY <1>1, <3>1, TotalOfWeights
    <3> QED BY <1>1, <2>1, <2>2, <3>2
  <2> QED BY <2>3, <2>4
<1>4. \A c \in ToSet(choices) : Shares(w)[c] = SumFunction(at(c))
  BY DEF Shares
<1>5. Shares(w) = [c \in ToSet(choices) |-> Shares(w)[c]]
  BY DEF Shares
<1>6. IsFiniteSet(1..n)
  BY <1>1, FS_Interval
<1>7. ASSUME NEW c \in ToSet(choices)
      PROVE  at(c) \in [1..n -> Nat] /\ SumFunction(at(c)) \in Nat
  <2> HIDE DEF strategy, arms, n
  <2>1. at(c) \in [1..n -> Nat]
    BY <1>1, <1>3
  <2> DEFINE f == at(c)
             I == 1..n
  <2>2. f \in [I -> Nat] /\ IsFiniteSet(I)
    BY <1>6, <2>1
  <2> HIDE DEF f, I
  <2>3. SumFunction(f) \in Nat
    BY ONLY <2>2, SumOfNaturals
  <2> QED BY <2>1, <2>3 DEF f
<1>8. ASSUME NEW k \in DOMAIN held
      PROVE  Shares(w)[held[k].choice] = Weights(held, oneHot)[k]
  <2> DEFINE c == held[k].choice
  <2>1. c \in ChoicesOf(held) /\ c \in ToSet(choices)
    <3>1. PICK i \in LegalPlaces(arms) : held[k] = arms[i]
      BY RootsAreWeighable DEF LegalHeld
    <3> QED BY <3>1 DEF ChoicesOf, LegalPlaces, Offered
  <2>2. PICK l \in DOMAIN held, i \in DOMAIN arms :
          /\ held[l].choice = c /\ held[l] = arms[i]
          /\ \A j \in DOMAIN arms : arms[j].choice = c => j = i
    BY <2>1, ArmOfAChoice
  <2>3. l = k
    BY <2>2, RootsAreWeighable DEF LegalHeld, OneArmEach
  <2>4. WeightOf(held, k, oneHot) = WeightOf(arms, i, 0)
    BY <2>2, <2>3 DEF WeightOf
  <2>5. Weights(held, oneHot)[k] = WeightOf(held, k, oneHot)
    BY DEF Weights
  <2> DEFINE f == at(c)
  <2>6. /\ f[i] = strategy[i]
        /\ \A j \in 1..n : j # i => f[j] = 0
    <3> HIDE DEF strategy, arms, n, held, c
    <3> QED BY <1>1, <2>2, <2>3 DEF c
  <2>7. f \in [1..n -> Int]
    <3>1. f \in [1..n -> Nat]
      BY <1>7, <2>1
    <3> HIDE DEF f, n
    <3> QED BY <3>1
  <2>8. i \in 1..n
    BY <1>1, <2>2
  <2>9. SumFunction(f) = f[i]
    <3> DEFINE I == 1..n
    <3>1. /\ IsFiniteSet(I) /\ f \in [I -> Int] /\ i \in I
          /\ \A j \in I : j # i => f[j] = 0
      BY <1>6, <2>6, <2>7, <2>8
    <3> HIDE DEF f, I
    <3> QED BY ONLY <3>1, SumOfSpike
  <2>10. Shares(w)[c] = SumFunction(f)
    BY <1>4, <2>1
  <2> HIDE DEF f, strategy, arms, held, c
  <2>11. Shares(w)[c] = Weights(held, oneHot)[k]
    BY <1>3, <2>2, <2>4, <2>5, <2>6, <2>9, <2>10
  <2> QED BY <2>11 DEF c
<1>9. ASSUME NEW c \in ToSet(choices) \ ChoicesOf(held)
      PROVE  Shares(w)[c] = 0
  <2>1. \A j \in DOMAIN arms : arms[j].choice # c
    BY <1>9, ArmOfAChoice
  <2> DEFINE f == at(c)
             I == 1..n
  <2>2. \A j \in I : f[j] = 0
    <3> HIDE DEF arms, strategy, n
    <3> QED BY <1>1, <2>1
  <2>3. f \in [I -> Int]
    <3>1. f \in [I -> Nat]
      BY <1>7
    <3> HIDE DEF f, I
    <3> QED BY <3>1
  <2>4. IsFiniteSet(I)
    BY <1>6
  <2>5. Shares(w)[c] = SumFunction(f)
    BY <1>4
  <2> HIDE DEF f, I
  <2>6. SumFunction(f) = 0
    BY ONLY <2>2, <2>3, <2>4, SumOfNothing
  <2> QED BY <2>5, <2>6
<1>10. Shares(w) \in [ToSet(choices) -> Nat]
  <2>1. \A c \in ToSet(choices) : Shares(w)[c] \in Nat
    BY <1>4, <1>7
  <2> QED BY <1>5, <2>1
<1> QED BY <1>8, <1>9, <1>10

-----------------------------------------------------------------------------
(* Products over finite sets, as the sums of RankProofs.                    *)
TimesPicked(f, g, T) == IF T = {} THEN 1 ELSE f[Picked(T)] * g[T \ {Picked(T)}]

ProductsOver(f, S) == CHOOSE g : g = [T \in SUBSET S |-> TimesPicked(f, g, T)]

LEMMA ProductUnfolds == ASSUME NEW f PROVE Product(f) = ProductsOver(f, DOMAIN f)[DOMAIN f]
BY DEF Product, FoldFunction, FoldFunctionOnSet, MapThenFoldSet,
       ProductsOver, TimesPicked, Picked

ProductsUpto(f, S, n, g) ==
  /\ g \in [Upto(S, n) -> Nat]
  /\ \A T \in Upto(S, n) : g[T] = TimesPicked(f, g, T)

LEMMA ProductsUptoExist ==
  ASSUME NEW S, IsFiniteSet(S), NEW f \in [S -> Nat], NEW n \in Nat
  PROVE  \E g : ProductsUpto(f, S, n, g)
<1> DEFINE Without == {m \in Nat : ~ \E g : ProductsUpto(f, S, m, g)}
<1> SUFFICES ASSUME Without # {} PROVE FALSE
  OBVIOUS
<1>1. PICK m \in Without : \A k \in Without : m <= k
  <2>1. Without \in SUBSET Nat
    OBVIOUS
  <2> HIDE DEF Without
  <2> QED BY <2>1, LeastNatural
<1>2. ASSUME NEW T \in SUBSET S
      PROVE  IsFiniteSet(T) /\ Cardinality(T) \in Nat /\ (Cardinality(T) = 0 <=> T = {})
  BY FS_Subset, FS_CardinalityType, FS_EmptySet
<1>3. CASE m = 0
  <2> DEFINE g == [T \in Upto(S, 0) |-> 1]
  <2>1. \A T \in Upto(S, 0) : T = {}
    BY <1>2 DEF Upto
  <2>2. ProductsUpto(f, S, 0, g)
    BY <2>1 DEF ProductsUpto, TimesPicked
  <2> QED BY <1>1, <1>3, <2>2
<1>4. CASE m # 0
  <2>1. m - 1 \in Nat /\ m - 1 \notin Without
    BY <1>1, <1>4
  <2>2. PICK g : ProductsUpto(f, S, m - 1, g)
    BY <2>1
  <2> DEFINE h == [T \in Upto(S, m) |-> TimesPicked(f, g, T)]
  <2>3. ASSUME NEW T \in Upto(S, m), T # {}
        PROVE  /\ Picked(T) \in S
               /\ T \ {Picked(T)} \in Upto(S, m - 1)
    <3>1. Picked(T) \in T /\ T \subseteq S /\ Cardinality(T) <= m
      BY <2>3, PickedIsIn DEF Upto
    <3>2. Cardinality(T \ {Picked(T)}) = Cardinality(T) - 1
      BY <1>2, <3>1, FS_RemoveElement
    <3> QED BY <1>1, <1>2, <3>1, <3>2 DEF Upto
  <2>4. ASSUME NEW T \in Upto(S, m) PROVE TimesPicked(f, g, T) \in Nat
    <3>1. CASE T = {}
      BY <3>1 DEF TimesPicked
    <3>2. CASE T # {}
      <4>1. f[Picked(T)] \in Nat /\ g[T \ {Picked(T)}] \in Nat
        BY <2>2, <2>3, <3>2 DEF ProductsUpto
      <4>2. f[Picked(T)] * g[T \ {Picked(T)}] \in Nat
        BY ONLY <4>1
      <4> QED BY <3>2, <4>2 DEF TimesPicked
    <3> QED BY <3>1, <3>2
  <2>5. \A T \in Upto(S, m - 1) : T \in Upto(S, m)
    BY <1>1, <1>2 DEF Upto
  <2>6. \A T \in Upto(S, m - 1) : h[T] = g[T]
    BY <2>2, <2>5 DEF ProductsUpto
  <2>7. ASSUME NEW T \in Upto(S, m) PROVE h[T] = TimesPicked(f, h, T)
    BY <2>3, <2>6 DEF TimesPicked
  <2>8. ProductsUpto(f, S, m, h)
    BY <2>4, <2>7 DEF ProductsUpto
  <2> QED BY <1>1, <2>8
<1> QED BY <1>3, <1>4

LEMMA ProductsRecur ==
  ASSUME NEW S, IsFiniteSet(S), NEW f \in [S -> Nat]
  PROVE  /\ \A T \in SUBSET S : ProductsOver(f, S)[T] = TimesPicked(f, ProductsOver(f, S), T)
         /\ \A T \in SUBSET S : ProductsOver(f, S)[T] \in Nat
<1>1. Cardinality(S) \in Nat /\ Upto(S, Cardinality(S)) = SUBSET S
  BY FS_Subset, FS_CardinalityType DEF Upto
<1>2. PICK g : ProductsUpto(f, S, Cardinality(S), g)
  BY <1>1, ProductsUptoExist
<1>3. g = [T \in SUBSET S |-> TimesPicked(f, g, T)]
  BY <1>1, <1>2 DEF ProductsUpto
<1>4. ProductsOver(f, S) = [T \in SUBSET S |-> TimesPicked(f, ProductsOver(f, S), T)]
  BY <1>3 DEF ProductsOver
<1> DEFINE F == ProductsOver(f, S)
           Wrong == {T \in SUBSET S : F[T] \notin Nat}
<1> HIDE DEF ProductsOver
<1>5. \A T \in SUBSET S : F[T] = TimesPicked(f, F, T)
  BY <1>4
<1> HIDE DEF F
<1>6. ASSUME Wrong # {} PROVE FALSE
  <2>1. PICK T \in Wrong : \A U \in Wrong : U \subseteq T => U = T
    <3>1. Wrong \in SUBSET (SUBSET S)
      OBVIOUS
    <3> HIDE DEF Wrong
    <3> QED BY <1>6, <3>1, MinimalSubset
  <2>2. T \in SUBSET S /\ F[T] \notin Nat /\ F[T] = TimesPicked(f, F, T)
    BY <1>5, <2>1
  <2>3. T # {}
    BY <2>2 DEF TimesPicked
  <2>4. Picked(T) \in T /\ T \ {Picked(T)} \notin Wrong
    BY <2>1, <2>3, PickedIsIn
  <2>5. f[Picked(T)] \in Nat /\ F[T \ {Picked(T)}] \in Nat
    BY <2>2, <2>4
  <2>6. f[Picked(T)] * F[T \ {Picked(T)}] \in Nat
    BY ONLY <2>5
  <2> QED BY <2>2, <2>3, <2>6 DEF TimesPicked
<1>7. \A T \in SUBSET S : F[T] \in Nat
  BY <1>6
<1> QED BY <1>5, <1>7 DEF F

ProductOn(f, T) == Product([x \in T |-> f[x]])

(* Two products over parts of one set take the same elements in the same    *)
(* order.                                                                   *)
LEMMA ProductsOverPart ==
  ASSUME NEW S, IsFiniteSet(S), NEW f \in [S -> Nat], NEW T \in SUBSET S
  PROVE  ProductOn(f, T) = ProductsOver(f, S)[T]
<1> DEFINE h == [x \in T |-> f[x]]
           F == ProductsOver(f, S)
           H == ProductsOver(h, T)
<1>1. IsFiniteSet(T) /\ h \in [T -> Nat]
  BY FS_Subset
<1>2. \A U \in SUBSET S : F[U] = TimesPicked(f, F, U)
  BY ProductsRecur
<1>3. \A U \in SUBSET T : H[U] = TimesPicked(h, H, U)
  <2> HIDE DEF h
  <2> QED BY <1>1, ProductsRecur
<1>4. ProductOn(f, T) = H[T]
  BY ProductUnfolds DEF ProductOn
<1> DEFINE Wrong == {U \in SUBSET T : F[U] # H[U]}
<1> HIDE DEF F, H
<1>5. ASSUME Wrong # {} PROVE FALSE
  <2>1. PICK U \in Wrong : \A V \in Wrong : V \subseteq U => V = U
    <3>1. Wrong \in SUBSET (SUBSET T)
      OBVIOUS
    <3> HIDE DEF Wrong
    <3> QED BY <1>1, <1>5, <3>1, MinimalSubset
  <2>2. U \in SUBSET T /\ F[U] # H[U]
    BY <2>1
  <2>3. F[U] = TimesPicked(f, F, U) /\ H[U] = TimesPicked(h, H, U)
    BY <1>2, <1>3, <2>2
  <2>4. U # {}
    BY <2>2, <2>3 DEF TimesPicked
  <2>5. Picked(U) \in U
    BY <2>4, PickedIsIn
  <2>6. U \ {Picked(U)} \notin Wrong
    BY <2>1, <2>5
  <2>7. F[U \ {Picked(U)}] = H[U \ {Picked(U)}]
    BY <2>2, <2>6
  <2>8. h[Picked(U)] = f[Picked(U)]
    BY <2>2, <2>5
  <2> QED BY <2>2, <2>3, <2>4, <2>7, <2>8 DEF TimesPicked
<1>6. F[T] = H[T]
  BY <1>5
<1> QED BY <1>4, <1>6 DEF F

(* The product of nothing is one.                                           *)
LEMMA ProductOnNone == ASSUME NEW f PROVE ProductOn(f, {}) = 1
<1> DEFINE h == [x \in {} |-> f[x]]
<1>1. h \in [{} -> Nat] /\ DOMAIN h = {} /\ IsFiniteSet({})
  BY FS_EmptySet
<1> HIDE DEF h
<1>2. ProductsOver(h, {})[{}] = TimesPicked(h, ProductsOver(h, {}), {})
  BY <1>1, ProductsRecur
<1>3. Product(h) = ProductsOver(h, {})[{}]
  BY <1>1, ProductUnfolds
<1> QED BY <1>2, <1>3 DEF h, ProductOn, TimesPicked

LEMMA FactorsCommute ==
  ASSUME NEW p \in Nat, NEW q \in Nat, NEW rest \in Nat
  PROVE  p * (q * rest) = q * (p * rest)
BY SMT

(* An element can be taken out of a product, whichever it is.               *)
LEMMA ProductOnWithout ==
  ASSUME NEW S, IsFiniteSet(S), NEW f \in [S -> Nat], NEW T \in SUBSET S, NEW x \in T
  PROVE  ProductOn(f, T) = f[x] * ProductOn(f, T \ {x}) /\ ProductOn(f, T \ {x}) \in Nat
<1> DEFINE F == ProductsOver(f, S)
<1>1. \A U \in SUBSET S : F[U] = ProductOn(f, U) /\ F[U] = TimesPicked(f, F, U) /\ F[U] \in Nat
  BY ProductsOverPart, ProductsRecur
<1> DEFINE Wrong == {U \in SUBSET S : ~ \A y \in U : F[U] = f[y] * F[U \ {y}]}
<1> HIDE DEF F
<1>2. ASSUME Wrong # {} PROVE FALSE
  <2>1. PICK U \in Wrong : \A V \in Wrong : V \subseteq U => V = U
    <3>1. Wrong \in SUBSET (SUBSET S)
      OBVIOUS
    <3> HIDE DEF Wrong
    <3> QED BY <1>2, <3>1, MinimalSubset
  <2>2. PICK y \in U : F[U] # f[y] * F[U \ {y}]
    BY <2>1
  <2> DEFINE p == Picked(U)
  <2>3. U \in SUBSET S /\ p \in U /\ F[U] = f[p] * F[U \ {p}]
    BY <1>1, <2>1, <2>2, PickedIsIn DEF TimesPicked
  <2> HIDE DEF p
  <2>4. y # p
    BY <2>2, <2>3
  <2>5. U \ {p} \notin Wrong /\ U \ {y} \notin Wrong
    BY <2>1, <2>2, <2>3
  <2>6. F[U \ {p}] = f[y] * F[(U \ {p}) \ {y}]
    BY <2>2, <2>3, <2>4, <2>5
  <2>7. F[U \ {y}] = f[p] * F[(U \ {y}) \ {p}]
    BY <2>2, <2>3, <2>4, <2>5
  <2>8. (U \ {p}) \ {y} = (U \ {y}) \ {p}
    OBVIOUS
  <2> DEFINE rest == F[(U \ {y}) \ {p}]
             a == F[U \ {p}]
             b == F[U \ {y}]
  <2>9. /\ f[y] \in Nat /\ f[p] \in Nat /\ rest \in Nat
    BY <1>1, <2>2, <2>3
  <2>10. a = f[y] * rest /\ b = f[p] * rest
    BY <2>6, <2>7, <2>8
  <2> HIDE DEF Wrong, rest, a, b
  <2>11. f[p] * (f[y] * rest) = f[y] * (f[p] * rest)
    BY ONLY <2>9, FactorsCommute
  <2>12. f[p] * a = f[y] * b
    BY ONLY <2>10, <2>11
  <2> QED BY <2>2, <2>3, <2>12 DEF a, b
<1>3. F[T] = f[x] * F[T \ {x}]
  BY <1>2
<1> QED BY <1>1, <1>3

-----------------------------------------------------------------------------
(* The merged strategy is the mean of what the workers would report.        *)

(* Entries that are zero can be left out of a sum.                          *)
LEMMA SumWithoutZeros ==
  ASSUME NEW S, IsFiniteSet(S), NEW f \in [S -> Int], NEW T \in SUBSET S,
         \A x \in S \ T : f[x] = 0
  PROVE  SumFunction(f) = SumOn(f, T)
<1> DEFINE Wrong == {U \in SUBSET S : T \subseteq U /\ SumOn(f, U) # SumOn(f, T)}
<1>1. ASSUME Wrong # {} PROVE FALSE
  <2>1. PICK U \in Wrong : \A V \in Wrong : V \subseteq U => V = U
    <3>1. Wrong \in SUBSET (SUBSET S)
      OBVIOUS
    <3> HIDE DEF Wrong
    <3> QED BY <1>1, <3>1, MinimalSubset
  <2>2. U \in SUBSET S /\ T \subseteq U /\ SumOn(f, U) # SumOn(f, T)
    BY <2>1
  <2>3. PICK x \in U : x \notin T
    BY <2>2
  <2>4. SumOn(f, U) = f[x] + SumOn(f, U \ {x}) /\ SumOn(f, U \ {x}) \in Int
    BY <2>2, SumOnWithout, SumOnInt
  <2>5. SumOn(f, U \ {x}) = SumOn(f, T)
    <3>1. U \ {x} \notin Wrong
      BY <2>1, <2>3
    <3> QED BY <2>2, <2>3, <3>1
  <2>6. f[x] = 0
    BY <2>2, <2>3
  <2> QED BY <2>2, <2>4, <2>5, <2>6
<1>2. SumOn(f, S) = SumOn(f, T)
  BY <1>1
<1>3. SumFunction(f) = SumOn(f, S)
  BY SumIsSumOn
<1> QED BY <1>2, <1>3

(* The workers whose searches gave mass to a choice of the position.        *)
HasMass(arms) == \E i \in DOMAIN arms : Offered(arms[i], choices) /\ arms[i].mass > 0

Heard == {w \in DOMAIN roots : HasMass(roots[w].arms)}

(* Such a worker's shares are the policy it would report, and any other's   *)
(* are nothing.                                                             *)
LEMMA SharesAreThePolicy ==
  ASSUME choices \in Positions, mixes, NEW w, RootOK(roots[w])
  PROVE  /\ HasMass(roots[w].arms) =>
              /\ RootPolicy(roots[w]) \in [DOMAIN RootPolicy(roots[w]) -> Nat]
              /\ DOMAIN RootPolicy(roots[w]) \subseteq ToSet(choices)
              /\ \A c \in ToSet(choices) :
                   Shares(w)[c] = IF c \in DOMAIN RootPolicy(roots[w])
                                  THEN RootPolicy(roots[w])[c] ELSE 0
              /\ Total(RootPolicy(roots[w])) = ShareTotal(w)
         /\ ShareTotal(w) \in Nat
         /\ ShareTotal(w) > 0 <=> HasMass(roots[w].arms)
         /\ ~HasMass(roots[w].arms) => \A c \in ToSet(choices) : Shares(w)[c] = 0
<1> DEFINE root    == roots[w]
           held    == LegalArms(root.arms)
           lead    == RootLeader(root)
           n       == Len(held)
           weights == Weights(held, lead)
           policy  == RootPolicy(root)
           C       == ToSet(choices)
           shares  == Shares(w)
<1>1. /\ n \in Nat /\ DOMAIN held = 1..n /\ weights \in [1..n -> Nat]
      /\ \A k \in DOMAIN held : weights[k] > 0 <=> held[k].mass > 0
  BY RootsAreWeighable, WeightsOfArms
<1>2. /\ IsFiniteSet(C) /\ shares \in [C -> Nat]
      /\ \A k \in DOMAIN held : shares[held[k].choice] = weights[k]
      /\ \A c \in C \ ChoicesOf(held) : shares[c] = 0
  <2> HIDE DEF lead
  <2>1. /\ Shares(w) \in [ToSet(choices) -> Nat]
        /\ \A k \in DOMAIN LegalArms(roots[w].arms) :
             Shares(w)[LegalArms(roots[w].arms)[k].choice]
               = Weights(LegalArms(roots[w].arms), lead)[k]
        /\ \A c \in ToSet(choices) \ ChoicesOf(LegalArms(roots[w].arms)) : Shares(w)[c] = 0
    BY ONLY SharesAreWeights, choices \in Positions, mixes, RootOK(roots[w])
  <2> QED BY <2>1, ChoicesTyped
<1>3. LegalHeld(held, root.arms)
  BY RootsAreWeighable
<1>4. /\ ChoicesOf(held) \subseteq C
      /\ HasMass(root.arms) <=> \E k \in DOMAIN held : held[k].mass > 0
  <2>1. \A k \in DOMAIN held : \E i \in DOMAIN root.arms :
          Offered(root.arms[i], choices) /\ held[k] = root.arms[i]
    BY <1>3 DEF LegalHeld, LegalPlaces
  <2>2. \A i \in DOMAIN root.arms : Offered(root.arms[i], choices) =>
          \E k \in DOMAIN held : held[k] = root.arms[i]
    BY <1>3 DEF LegalHeld, LegalPlaces
  <2> HIDE DEF held, root
  <2> QED BY <2>1, <2>2 DEF HasMass, ChoicesOf, Offered
<1>5. shares \in [C -> Int]
  <2> HIDE DEF shares, C
  <2> QED BY <1>2
<1>6. /\ ShareTotal(w) \in Nat
      /\ \A c \in C : shares[c] <= ShareTotal(w)
      /\ ShareTotal(w) > 0 => \E c \in C : shares[c] > 0
  <2> HIDE DEF shares, C
  <2>1. /\ SumFunction(shares) \in Nat
        /\ \A c \in C : shares[c] <= SumFunction(shares)
        /\ SumFunction(shares) > 0 => \E c \in C : shares[c] > 0
    BY ONLY <1>2, SumOfNaturals
  <2> QED BY <2>1 DEF ShareTotal, Total, shares
<1> HIDE DEF held, root, shares, weights, C, n
<1>7. ShareTotal(w) > 0 <=> HasMass(root.arms)
  <2>1. ASSUME ShareTotal(w) > 0 PROVE HasMass(root.arms)
    <3>1. PICK c \in C : shares[c] > 0
      BY <1>6, <2>1
    <3>2. PICK k \in DOMAIN held : held[k].choice = c
      BY <1>2, <3>1 DEF ChoicesOf
    <3> QED BY <1>1, <1>2, <1>4, <3>1, <3>2
  <2>2. ASSUME HasMass(root.arms) PROVE ShareTotal(w) > 0
    <3>1. PICK k \in DOMAIN held : held[k].mass > 0
      BY <1>4, <2>2
    <3>2. held[k].choice \in C
      BY <1>4, <3>1 DEF ChoicesOf
    <3>3. shares[held[k].choice] > 0 /\ shares[held[k].choice] \in Nat
      BY <1>1, <1>2, <3>1, <3>2
    <3> QED BY <1>6, <3>2, <3>3
  <2> QED BY <2>1, <2>2
<1>8. ASSUME ~HasMass(root.arms), NEW c \in C PROVE shares[c] = 0
  <2>1. shares[c] \in Nat /\ shares[c] <= ShareTotal(w)
    BY <1>2, <1>6
  <2> QED BY <1>6, <1>7, <1>8, <2>1
<1>9. ASSUME HasMass(root.arms)
      PROVE  /\ policy \in [DOMAIN policy -> Nat]
             /\ DOMAIN policy \subseteq C
             /\ \A c \in C : shares[c] = IF c \in DOMAIN policy THEN policy[c] ELSE 0
             /\ Total(policy) = ShareTotal(w)
  <2>1. PICK k \in DOMAIN held : held[k].mass > 0
    BY <1>4, <1>9
  <2>2. StrategyInto(held, lead) = weights
    <3>1. Total(weights) > 0
      BY <1>1, <2>1, TotalOfWeights
    <3> QED BY <3>1 DEF StrategyInto, weights
  <2>3. /\ DOMAIN policy = ChoicesOf(held)
        /\ \A j \in DOMAIN held : policy[held[j].choice] = weights[j]
    <3>1. \A j \in DOMAIN held : /\ DOMAIN policy = ChoicesOf(held)
                                 /\ policy[held[j].choice] = StrategyInto(held, lead)[j]
      BY PolicyIsTheStrategy DEF held, root
    <3> QED BY <2>1, <2>2, <3>1
  <2> HIDE DEF policy, lead
  <2>4. \A c \in DOMAIN policy : policy[c] = shares[c] /\ policy[c] \in Nat
    <3> SUFFICES ASSUME NEW c \in DOMAIN policy
                 PROVE  policy[c] = shares[c] /\ policy[c] \in Nat
      OBVIOUS
    <3>1. PICK j \in DOMAIN held : held[j].choice = c
      BY <2>3 DEF ChoicesOf
    <3> QED BY <1>1, <1>2, <2>3, <3>1
  <2>5. \A c \in C : shares[c] = IF c \in DOMAIN policy THEN policy[c] ELSE 0
    BY <1>2, <2>3, <2>4
  <2>6. policy = [c \in DOMAIN policy |-> policy[c]]
    <3> DEFINE strategy == StrategyInto(held, lead)
               at(c)    == CHOOSE i \in DOMAIN held : held[i].choice = c
    <3>1. policy = IF held = <<>> THEN [c \in C |-> 1]
                   ELSE [c \in ChoicesOf(held) |-> strategy[at(c)]]
      BY DEF policy, RootPolicy, held, lead, C
    <3> HIDE DEF strategy, at
    <3>2. CASE held = <<>>
      BY <3>1, <3>2
    <3>3. CASE held # <<>>
      BY <3>1, <3>3
    <3> QED BY <3>2, <3>3
  <2>7. Total(policy) = ShareTotal(w)
    <3> DEFINE D == DOMAIN policy
    <3>1. policy = [c \in D |-> shares[c]]
      BY <2>4, <2>6
    <3>2. IsFiniteSet(C) /\ shares \in [C -> Int] /\ D \in SUBSET C
          /\ \A c \in C \ D : shares[c] = 0
      BY <1>2, <1>4, <1>5, <2>3
    <3> HIDE DEF D
    <3>3. SumFunction(shares) = SumOn(shares, D)
      BY ONLY <3>2, SumWithoutZeros
    <3> QED BY <3>1, <3>3 DEF Total, ShareTotal, SumOn, shares
  <2>8. policy \in [DOMAIN policy -> Nat]
    BY <2>4, <2>6
  <2> QED BY <1>4, <2>3, <2>5, <2>7, <2>8
<1> QED BY <1>6, <1>7, <1>8, <1>9 DEF root, C, shares

(* The product of the other workers' totals, which is the denominator a      *)
(* worker's share is brought to.                                            *)
Apart(w) == Product([v \in Heard \ {w} |-> ShareTotal(v)])

LEMMA MergedStrategyIs ==
  ASSUME RootsOK, mixes
  PROVE  MergedStrategy =
           [c \in ToSet(choices) |->
              Total([w \in Heard |-> roots[w].visits * Shares(w)[c] * Apart(w)])]
<1> DEFINE shares == [w \in DOMAIN roots |-> Shares(w)]
           total  == [w \in DOMAIN roots |-> ShareTotal(w)]
           heard  == {w \in DOMAIN roots : total[w] > 0}
<1>1. heard = Heard
  <2>1. \A w \in DOMAIN roots : total[w] > 0 <=> HasMass(roots[w].arms)
    BY RootsTyped, SharesAreThePolicy DEF RootsOK
  <2> QED BY <2>1 DEF Heard
<1>2. Heard \subseteq DOMAIN roots
  BY DEF Heard
<1>3. ASSUME NEW w \in Heard
      PROVE  /\ shares[w] = Shares(w)
             /\ Product([v \in heard \ {w} |-> total[v]]) = Apart(w)
  <2>1. [v \in Heard \ {w} |-> total[v]] = [v \in Heard \ {w} |-> ShareTotal(v)]
    BY <1>2
  <2> QED BY <1>1, <1>2, <1>3, <2>1 DEF Apart
<1>4. MergedStrategy =
        [c \in ToSet(choices) |->
           Total([w \in heard |->
                    roots[w].visits * shares[w][c] * Product([v \in heard \ {w} |-> total[v]])])]
  BY DEF MergedStrategy
<1> HIDE DEF shares, total, heard
<1>5. ASSUME NEW c \in ToSet(choices)
      PROVE  [w \in heard |->
                roots[w].visits * shares[w][c] * Product([v \in heard \ {w} |-> total[v]])]
             = [w \in Heard |-> roots[w].visits * Shares(w)[c] * Apart(w)]
  BY <1>1, <1>3
<1> QED BY <1>4, <1>5

(* A numerator over one of the factors of the denominator.                  *)
LEMMA ShareOfProduct ==
  ASSUME NEW p \in Nat, NEW s \in Nat, s > 0, NEW rest \in Nat
  PROVE  (p * (s * rest)) \div s = p * rest
<1>1. p * (s * rest) = s * (p * rest) /\ p * rest \in Nat
  BY FactorsCommute
<1> DEFINE q == p * rest
<1>2. q \in Nat /\ p * (s * rest) = s * q
  BY <1>1
<1> HIDE DEF q
<1>3. (s * q) \div s = q
  BY <1>2
<1> QED BY <1>2, <1>3 DEF q

LEMMA ProductsAssociate ==
  ASSUME NEW v \in Nat, NEW p \in Nat, NEW rest \in Nat
  PROVE  v * (p * rest) = v * p * rest /\ v * p * rest \in Nat
BY SMT

(* A worker whose search heard of the position: what it says of it adds up  *)
(* to its total, and the product of every total is that times the others'.  *)
LEMMA TotalsOfTheHeard ==
  ASSUME RootsOK, mixes, NEW said,
         said = [w \in Heard |-> Total(RootPolicy(roots[w]))]
  PROVE  /\ IsFiniteSet(Heard)
         /\ \A w \in Heard : /\ said[w] \in Nat /\ said[w] > 0
                             /\ Apart(w) \in Nat
                             /\ Product(said) = said[w] * Apart(w)
<1>1. IsFiniteSet(Heard) /\ \A w \in Heard : RootOK(roots[w]) /\ HasMass(roots[w].arms)
  <2>1. IsFiniteSet(1..Len(roots))
    BY RootsTyped, FS_Interval
  <2>2. Heard \subseteq 1..Len(roots)
    BY RootsTyped DEF Heard
  <2>3. IsFiniteSet(Heard)
    <3> DEFINE I == 1..Len(roots)
    <3>1. IsFiniteSet(I) /\ Heard \subseteq I
      BY <2>1, <2>2
    <3> HIDE DEF I
    <3> QED BY ONLY <3>1, FS_Subset
  <2> QED BY <2>3, RootsTyped DEF Heard
<1>2. \A w \in Heard : said[w] = ShareTotal(w) /\ ShareTotal(w) \in Nat /\ ShareTotal(w) > 0
  BY <1>1, SharesAreThePolicy DEF RootsOK
<1>3. said \in [Heard -> Nat] /\ said = [w \in Heard |-> said[w]]
  BY <1>2
<1>4. ASSUME NEW w \in Heard
      PROVE  Product(said) = said[w] * Apart(w) /\ Apart(w) \in Nat
  <2>1. [v \in Heard \ {w} |-> said[v]] = [v \in Heard \ {w} |-> ShareTotal(v)]
    BY <1>2
  <2>2. Apart(w) = ProductOn(said, Heard \ {w})
    BY <2>1 DEF Apart, ProductOn
  <2>3. Product(said) = ProductOn(said, Heard)
    BY <1>3 DEF ProductOn
  <2>4. /\ ProductOn(said, Heard) = said[w] * ProductOn(said, Heard \ {w})
        /\ ProductOn(said, Heard \ {w}) \in Nat
    <3>1. Heard \in SUBSET Heard /\ said \in [Heard -> Nat] /\ IsFiniteSet(Heard) /\ w \in Heard
      BY <1>1, <1>3
    <3> QED BY ONLY <3>1, ProductOnWithout
  <2> QED BY <2>2, <2>3, <2>4
<1> QED BY <1>1, <1>2, <1>4

LEMMA MergeIsTheMean == MarginalInv => PooledStrategyIsTheMean
<1> SUFFICES ASSUME MarginalInv, mixes, phase = "merging"
             PROVE  PooledStrategyIsTheMean
  BY DEF PooledStrategyIsTheMean
<1>1. RootsOK /\ choices \in Positions
  BY DEF MarginalInv, RootsOK
<1> DEFINE heard   == {w \in DOMAIN roots : \E i \in DOMAIN roots[w].arms :
                         Offered(roots[w].arms[i], choices) /\ roots[w].arms[i].mass > 0}
           policy  == [w \in heard |-> RootPolicy(roots[w])]
           said    == [w \in heard |-> Total(policy[w])]
           prob(w, c) == IF c \in DOMAIN policy[w]
                         THEN (policy[w][c] * Product(said)) \div said[w] ELSE 0
           average == [c \in ToSet(choices) |->
                         Total([w \in heard |-> roots[w].visits * prob(w, c)])]
           merge   == MergedStrategy
<1>0. heard = Heard
  BY DEF Heard, HasMass
<1> HIDE DEF heard
<1>2. said = [w \in Heard |-> Total(RootPolicy(roots[w]))]
  BY <1>0
<1>3. /\ IsFiniteSet(Heard)
      /\ \A w \in Heard : /\ said[w] \in Nat /\ said[w] > 0
                          /\ Apart(w) \in Nat
                          /\ Product(said) = said[w] * Apart(w)
  <2> HIDE DEF said
  <2> QED BY <1>1, <1>2, TotalsOfTheHeard
<1>4. ASSUME NEW w \in Heard, NEW c \in ToSet(choices)
      PROVE  /\ Shares(w)[c] \in Nat /\ roots[w].visits \in Nat
             /\ prob(w, c) = Shares(w)[c] * Apart(w)
  <2>1. RootOK(roots[w]) /\ HasMass(roots[w].arms) /\ roots[w].visits \in Nat
    <3>1. w \in DOMAIN roots
      BY DEF Heard
    <3> QED BY <1>1, <3>1, RootsTyped DEF Heard, Root
  <2>2. policy[w] = RootPolicy(roots[w])
    BY <1>0
  <2>3. /\ policy[w] \in [DOMAIN policy[w] -> Nat]
        /\ Shares(w)[c] = IF c \in DOMAIN policy[w] THEN policy[w][c] ELSE 0
    BY <1>1, <2>1, <2>2, SharesAreThePolicy
  <2> HIDE DEF policy, said
  <2>4. CASE c \in DOMAIN policy[w]
    <3>1. policy[w][c] \in Nat /\ Shares(w)[c] = policy[w][c]
      BY <2>3, <2>4
    <3>2. (policy[w][c] * (said[w] * Apart(w))) \div said[w] = policy[w][c] * Apart(w)
      BY <1>3, <3>1, ShareOfProduct
    <3>3. prob(w, c) = (policy[w][c] * (said[w] * Apart(w))) \div said[w]
      BY <1>3, <2>4
    <3> HIDE DEF prob
    <3> QED BY <2>1, <3>1, <3>2, <3>3
  <2>5. CASE c \notin DOMAIN policy[w]
    <3>1. Shares(w)[c] = 0 /\ prob(w, c) = 0 /\ Apart(w) \in Nat
      BY <1>3, <2>3, <2>5
    <3> HIDE DEF prob
    <3> QED BY <2>1, <3>1
  <2> QED BY <2>4, <2>5
<1> HIDE DEF policy, said, prob
<1>5. ASSUME NEW c \in ToSet(choices)
      PROVE  merge[c] = average[c] /\ merge[c] \in Int
  <2> DEFINE f == [w \in Heard |-> roots[w].visits * Shares(w)[c] * Apart(w)]
             g == [w \in Heard |-> roots[w].visits * prob(w, c)]
  <2>1. ASSUME NEW w \in Heard PROVE f[w] = g[w] /\ f[w] \in Nat
    <3> DEFINE v == roots[w].visits
               p == Shares(w)[c]
               rest == Apart(w)
    <3>1. v \in Nat /\ p \in Nat /\ rest \in Nat /\ prob(w, c) = p * rest
      BY <1>3, <1>4
    <3>2. f[w] = v * p * rest /\ g[w] = v * prob(w, c)
      OBVIOUS
    <3> HIDE DEF v, p, rest, f, g
    <3>3. v * (p * rest) = v * p * rest /\ v * p * rest \in Nat
      BY ONLY <3>1, ProductsAssociate
    <3> QED BY <3>1, <3>2, <3>3
  <2>2. f = g
    BY <2>1
  <2>3. f \in [Heard -> Int]
    <3>1. \A w \in Heard : f[w] \in Int
      BY <2>1
    <3> QED BY <3>1
  <2>4. average[c] = Total(g)
    BY <1>0
  <2>5. merge[c] = Total(f)
    BY <1>1, MergedStrategyIs
  <2> HIDE DEF f, g, merge, average
  <2>6. Total(f) \in Int
    BY <1>3, <2>3, SumOfIntegers DEF Total
  <2> QED BY <2>2, <2>4, <2>5, <2>6
<1> HIDE DEF merge, average
<1>6. \A c, d \in ToSet(choices) : merge[c] * average[d] = merge[d] * average[c]
  <2> SUFFICES ASSUME NEW c \in ToSet(choices), NEW d \in ToSet(choices)
               PROVE  merge[c] * average[d] = merge[d] * average[c]
    OBVIOUS
  <2> DEFINE a == merge[c]
             b == merge[d]
  <2>1. a \in Int /\ b \in Int /\ average[c] = a /\ average[d] = b
    BY <1>5
  <2> HIDE DEF a, b
  <2>2. a * b = b * a
    BY <2>1
  <2> QED BY <2>1, <2>2 DEF a, b
<1> QED BY <1>6 DEF PooledStrategyIsTheMean, merge, average, policy, said, prob, heard

(* merge normalises a worker's strategy over every arm of its tree and then *)
(* over the legal ones.  Whatever the workers met, what comes of it is the  *)
(* mean of the strategies they would report for the position, weighted by   *)
(* their visits: no worker is heard less for what it learned of choices     *)
(* that are not there.                                                      *)
THEOREM MergedStrategyIsTheMean == MarginalSpec => []PooledStrategyIsTheMean
<1>1. MarginalInit => MarginalInv
  BY MarginalInitHolds
<1>2. MarginalInv /\ [MarginalNext]_allVars => MarginalInv'
  BY MarginalInvNext
<1>3. MarginalInv => PooledStrategyIsTheMean
  BY MergeIsTheMean
<1> QED BY <1>1, <1>2, <1>3, PTL DEF MarginalSpec

-----------------------------------------------------------------------------
(* A pool of one search, and the search.                                    *)

(* The order of a merge: the first worker's legal arms, and the rest of the *)
(* position's choices.                                                      *)
LEMMA MergedOrderIs ==
  ASSUME RootsOK, 1 \in DOMAIN roots
  PROVE  /\ MergedOrder \in Seq(ToSet(choices))
         /\ Len(LegalArms(roots[1].arms)) <= Len(MergedOrder)
         /\ \A k \in DOMAIN MergedOrder :
              IF k \in DOMAIN LegalArms(roots[1].arms)
              THEN MergedOrder[k] = LegalArms(roots[1].arms)[k].choice
              ELSE MergedOrder[k] \notin ChoicesOf(LegalArms(roots[1].arms))
<1> DEFINE held   == LegalArms(roots[1].arms)
           C      == ToSet(choices)
           places == {k \in DOMAIN choices : choices[k] \notin ChoicesOf(held)}
           rest   == Subsequence(choices, places)
           first  == [i \in DOMAIN held |-> held[i].choice]
<1>1. RootOK(roots[1]) /\ choices \in Positions
  BY RootsTyped DEF RootsOK
<1>2. /\ held \in Seq(Arm) /\ LegalHeld(held, roots[1].arms)
      /\ Len(held) \in Nat /\ DOMAIN held = 1..Len(held)
  BY <1>1, RootsAreWeighable, ArmTyped DEF Weighable
<1>3. choices \in Seq(C)
  BY <1>1, ChoicesTyped
<1>4. MergedOrder = first \o rest
  BY DEF MergedOrder
<1>5. places \subseteq DOMAIN choices
  OBVIOUS
<1>6. rest \in Seq(C) /\ \E at : IsPart(rest, choices, places, at)
  <2> HIDE DEF places, C
  <2> QED BY <1>3, <1>5, SubsequenceIsPart
<1>7. \A k \in 1..Len(rest) : rest[k] \notin ChoicesOf(held)
  <2>1. PICK at : IsPart(rest, choices, places, at)
    BY <1>6
  <2> HIDE DEF rest
  <2>2. \A k \in 1..Len(rest) : at[k] \in places /\ rest[k] = choices[at[k]]
    <3> HIDE DEF places
    <3> QED BY <2>1 DEF IsPart
  <2> QED BY <2>2
<1>8. \A i \in DOMAIN held : held[i].choice \in C
  BY <1>2 DEF LegalHeld, LegalPlaces, Offered
<1> HIDE DEF held, C, places, rest
<1>9. /\ first \in Seq(C) /\ Len(first) = Len(held)
      /\ \A i \in 1..Len(held) : first[i] = held[i].choice
  BY <1>2, <1>8
<1> HIDE DEF first
<1>10. /\ first \o rest \in Seq(C)
       /\ Len(first \o rest) = Len(first) + Len(rest)
       /\ \A k \in 1..(Len(first) + Len(rest)) :
            (first \o rest)[k] = IF k <= Len(first) THEN first[k] ELSE rest[k - Len(first)]
  BY <1>6, <1>9, ConcatProperties
<1>11. Len(rest) \in Nat /\ DOMAIN (first \o rest) = 1..(Len(first) + Len(rest))
  BY <1>6, <1>10, LenProperties
<1>12. ASSUME NEW k \in DOMAIN MergedOrder
       PROVE  IF k \in DOMAIN held THEN MergedOrder[k] = held[k].choice
              ELSE MergedOrder[k] \notin ChoicesOf(held)
  <2>1. k \in 1..(Len(held) + Len(rest))
    BY <1>4, <1>9, <1>11
  <2>2. CASE k <= Len(held)
    BY <1>2, <1>4, <1>9, <1>10, <2>1, <2>2
  <2>3. CASE k > Len(held)
    <3>1. k - Len(held) \in 1..Len(rest) /\ k \notin DOMAIN held
      BY <1>2, <1>11, <2>1, <2>3
    <3>2. MergedOrder[k] = rest[k - Len(held)]
      BY <1>2, <1>4, <1>9, <1>10, <2>1, <2>3
    <3> QED BY <1>7, <3>1, <3>2
  <2> QED BY <1>2, <2>1, <2>2, <2>3
<1> QED BY <1>2, <1>4, <1>9, <1>10, <1>11, <1>12 DEF held, C

(* What a pool of one adds up for a choice is its legal arm, or nothing.    *)
LEMMA PooledOfOne ==
  ASSUME RootsOK, Len(roots) = 1, NEW c \in ToSet(choices)
  PROVE  /\ \A k \in DOMAIN LegalArms(roots[1].arms) :
              LegalArms(roots[1].arms)[k].choice = c =>
                Pooled(c) = ArmCandidate(LegalArms(roots[1].arms)[k])
         /\ c \notin ChoicesOf(LegalArms(roots[1].arms)) => Pooled(c) = CandidateOf(0, 0, 0)
<1> DEFINE root   == roots[1]
           held   == LegalArms(root.arms)
           arms   == UNION {{<<w, i>> : i \in {i \in DOMAIN roots[w].arms :
                                                 roots[w].arms[i].choice = c}}
                              : w \in DOMAIN roots}
           count  == [a \in arms |-> roots[a[1]].arms[a[2]].visits]
           times  == [a \in arms |-> roots[a[1]].arms[a[2]].timesAvailable]
           reward == [a \in arms |-> roots[a[1]].arms[a[2]].reward]
<1>1. /\ DOMAIN roots = {1} /\ RootOK(root) /\ root.arms \in Seq(Arm)
  <2>1. 1..1 = {1}
    OBVIOUS
  <2>2. DOMAIN roots = {1}
    BY <2>1, RootsTyped
  <2>3. RootOK(roots[1]) /\ roots[1] \in Root
    BY <2>2, RootsTyped
  <2> QED BY <2>2, <2>3 DEF Root
<1>2. Pooled(c) = CandidateOf(SumFunction(count), SumFunction(times), SumFunction(reward))
  BY DEF Pooled
<1>3. LegalHeld(held, root.arms)
  BY <1>1, RootsAreWeighable
<1>4. \A k, l \in DOMAIN held : held[k].choice = held[l].choice => k = l
  BY <1>3 DEF LegalHeld, OneArmEach
<1>5. ASSUME NEW k \in DOMAIN held, held[k].choice = c
      PROVE  Pooled(c) = ArmCandidate(held[k])
  <2>1. c \in ChoicesOf(held)
    BY <1>5 DEF ChoicesOf
  <2>2. PICK l \in DOMAIN held, i \in DOMAIN root.arms :
          /\ held[l].choice = c /\ held[l] = root.arms[i]
          /\ \A j \in DOMAIN root.arms : root.arms[j].choice = c => j = i
    BY <1>1, <2>1, ArmOfAChoice
  <2>3. held[k] = root.arms[i] /\ root.arms[i].choice = c
    BY <1>4, <1>5, <2>2
  <2> DEFINE a == <<1, i>>
  <2>4. arms = {a}
    <3>1. {j \in DOMAIN roots[1].arms : roots[1].arms[j].choice = c} = {i}
      BY <2>2, <2>3
    <3>2. arms = {<<1, j>> : j \in {i}}
      BY <1>1, <3>1
    <3> QED BY <3>2
  <2>5. /\ root.arms[i].visits \in Nat /\ root.arms[i].timesAvailable \in Nat
        /\ root.arms[i].reward \in Int
    BY <1>1, <2>2, ArmTyped
  <2>6. a[1] = 1 /\ a[2] = i
    OBVIOUS
  <2> HIDE DEF arms, a
  <2>7. /\ count \in [{a} -> Int] /\ count[a] = root.arms[i].visits
        /\ times \in [{a} -> Int] /\ times[a] = root.arms[i].timesAvailable
        /\ reward \in [{a} -> Int] /\ reward[a] = root.arms[i].reward
    BY <2>4, <2>5, <2>6
  <2> HIDE DEF count, times, reward
  <2>8. /\ SumFunction(count) = count[a] /\ SumFunction(times) = times[a]
        /\ SumFunction(reward) = reward[a]
    BY <2>7, SumOfOne
  <2> QED BY <1>2, <2>3, <2>7, <2>8 DEF ArmCandidate
<1>6. ASSUME c \notin ChoicesOf(held)
      PROVE  Pooled(c) = CandidateOf(0, 0, 0)
  <2>1. \A j \in DOMAIN root.arms : root.arms[j].choice # c
    BY <1>1, <1>6, ArmOfAChoice
  <2>2. arms = {}
    BY <1>1, <2>1
  <2>3. IsFiniteSet({})
    BY FS_EmptySet
  <2> HIDE DEF arms
  <2>4. count \in [{} -> Int] /\ times \in [{} -> Int] /\ reward \in [{} -> Int]
    BY <2>2
  <2> HIDE DEF count, times, reward
  <2>5. SumFunction(count) = 0 /\ SumFunction(times) = 0 /\ SumFunction(reward) = 0
    BY <2>3, <2>4, SumOfNothing
  <2> QED BY <1>2, <2>5
<1> QED BY <1>5, <1>6 DEF held, root

(* Candidates that no one visited change nothing of who leads.              *)
LEMMA LeaderOfMore ==
  ASSUME NEW n \in Nat, NEW m \in Nat, n <= m,
         NEW cs, DOMAIN cs = 1..n, NEW ds, DOMAIN ds = 1..m,
         \A k \in 1..n : ds[k] = cs[k],
         \A k \in 1..m : k \notin 1..n => ds[k].visits = 0
  PROVE  /\ HasLeader(ds) <=> HasLeader(cs)
         /\ HasLeader(cs) => Leader(ds) = Leader(cs)
<1>1. \A k \in 1..n : k \in 1..m
  OBVIOUS
<1>2. ASSUME NEW i \in 1..m, IsLeader(ds, i)
      PROVE  i \in 1..n /\ IsLeader(cs, i)
  <2>1. i \in 1..n
    BY <1>2 DEF IsLeader
  <2> QED BY <1>1, <1>2, <2>1 DEF IsLeader
<1>3. ASSUME NEW i \in 1..n, IsLeader(cs, i)
      PROVE  IsLeader(ds, i)
  <2>1. ds[i].visits > 0
    BY <1>3 DEF IsLeader
  <2>2. ASSUME NEW j \in 1..m, j # i, ds[j].visits > 0
        PROVE  ~Beats(ds[j], ds[i]) /\ (j < i => Beats(ds[i], ds[j]))
    <3>1. j \in 1..n
      BY <2>2
    <3> QED BY <1>3, <2>2, <3>1 DEF IsLeader
  <2> QED BY <2>1, <2>2 DEF IsLeader
<1>4. HasLeader(ds) <=> HasLeader(cs)
  BY <1>1, <1>2, <1>3 DEF HasLeader
<1>5. ASSUME HasLeader(cs) PROVE Leader(ds) = Leader(cs)
  <2>1. Leader(cs) \in 1..n /\ IsLeader(cs, Leader(cs))
    BY <1>5 DEF HasLeader, Leader
  <2>2. Leader(ds) \in 1..m /\ IsLeader(ds, Leader(ds))
    BY <1>4, <1>5 DEF HasLeader, Leader
  <2>3. Leader(ds) \in 1..n /\ IsLeader(cs, Leader(ds))
    BY <1>2, <2>2
  <2>4. DOMAIN cs \subseteq Nat
    OBVIOUS
  <2> QED BY <2>1, <2>3, <2>4, LeaderIsUnique
<1> QED BY <1>4, <1>5

(* The merged strategy of a pool of one is that search's, as many times as   *)
(* it made visits.                                                           *)
LEMMA MergedStrategyOfOne ==
  ASSUME RootsOK, mixes, Len(roots) = 1, NEW c \in ToSet(choices)
  PROVE  MergedStrategy[c] = roots[1].visits * Shares(1)[c] /\ Shares(1)[c] \in Nat
<1>1. DOMAIN roots = {1} /\ RootOK(roots[1]) /\ roots[1].visits \in Nat
  <2>1. 1..1 = {1}
    OBVIOUS
  <2>2. DOMAIN roots = {1}
    BY <2>1, RootsTyped
  <2> QED BY <2>2, RootsTyped DEF Root
<1>2. Shares(1)[c] \in Nat
  <2>1. choices \in Positions
    BY DEF RootsOK
  <2> QED BY <1>1, <2>1, SharesAreWeights
<1> DEFINE v == roots[1].visits
           p == Shares(1)[c]
           f == [w \in Heard |-> roots[w].visits * Shares(w)[c] * Apart(w)]
<1>3. MergedStrategy[c] = Total(f)
  BY MergedStrategyIs
<1>4. CASE HasMass(roots[1].arms)
  <2>1. Heard = {1}
    BY <1>1, <1>4 DEF Heard
  <2>2. Apart(1) = 1
    <3>1. Heard \ {1} = {}
      BY <2>1
    <3> DEFINE g == [v1 \in {1} |-> ShareTotal(v1)]
    <3>2. [v1 \in {} |-> g[v1]] = [v1 \in {} |-> ShareTotal(v1)]
      OBVIOUS
    <3>3. Apart(1) = ProductOn(g, {})
      BY <3>1, <3>2 DEF Apart, ProductOn
    <3> HIDE DEF g
    <3> QED BY <3>3, ProductOnNone
  <2>3. f[1] = v * p * 1
    BY <2>1, <2>2
  <2>4. v \in Nat /\ p \in Nat
    BY <1>1, <1>2
  <2>5. f = [w \in {1} |-> f[w]]
    BY <2>1
  <2> HIDE DEF f, v, p
  <2>6. f[1] = v * p /\ v * p \in Nat
    BY <2>3, <2>4
  <2>7. f \in [{1} -> Int]
    BY <2>5, <2>6
  <2>8. SumFunction(f) = f[1]
    BY <2>7, SumOfOne
  <2> QED BY <1>2, <1>3, <2>6, <2>8 DEF Total, v, p
<1>5. CASE ~HasMass(roots[1].arms)
  <2>1. Heard = {}
    BY <1>1, <1>5 DEF Heard
  <2>2. f \in [{} -> Int] /\ IsFiniteSet({})
    BY <2>1, FS_EmptySet
  <2>3. p = 0
    <3>1. choices \in Positions
      BY DEF RootsOK
    <3> QED BY <1>1, <1>5, <3>1, SharesAreThePolicy
  <2> HIDE DEF f
  <2>4. SumFunction(f) = 0
    BY <2>2, SumOfNothing
  <2>5. v * 0 = 0
    BY <1>1
  <2> QED BY <1>2, <1>3, <2>3, <2>4, <2>5 DEF Total
<1> QED BY <1>4, <1>5

(* The weights of the merge, in its order: those of the legal arms, as many *)
(* times, and nothing for what the search never saw.                        *)
ScaledUp(strategy, weights, n, m, v) ==
  /\ strategy \in [1..m -> Nat]
  /\ \A k \in 1..m : strategy[k] = IF k \in 1..n THEN v * weights[k] ELSE 0

LEMMA ScaleKeepsOrder ==
  ASSUME NEW v \in Nat \ {0}, NEW a \in Nat, NEW b \in Nat
  PROVE  /\ v * a \in Nat
         /\ v * a > 0 <=> a > 0
         /\ a <= b => v * a <= v * b
         /\ a < b => v * a < v * b
BY SMT

(* They have a heaviest entry where those have, and play what those play.   *)
LEMMA ScaledUpAgree ==
  ASSUME NEW n \in Nat, NEW m \in Nat, n <= m, NEW v \in Nat \ {0},
         NEW weights \in [1..n -> Nat],
         NEW strategy, ScaledUp(strategy, weights, n, m, v)
  PROVE  /\ Total(strategy) > 0 <=> Total(weights) > 0
         /\ Total(weights) > 0 => Heaviest(strategy) = Heaviest(weights)
         /\ \A i \in Drawn(strategy) : i \in 1..n /\ weights[i] > 0
         /\ Total(weights) > 0 => Drawn(strategy) # {}
<1>1. /\ strategy \in [1..m -> Nat]
      /\ \A k \in 1..m : k \in 1..n =>
           strategy[k] = v * weights[k] /\ weights[k] \in Nat
      /\ \A k \in 1..m : k \notin 1..n => strategy[k] = 0
      /\ \A k \in 1..n : k \in 1..m
  BY DEF ScaledUp
<1>2. \A k \in 1..m : strategy[k] > 0 <=> k \in 1..n /\ weights[k] > 0
  BY <1>1, ScaleKeepsOrder
<1>3. /\ Total(strategy) > 0 <=> \E k \in 1..m : strategy[k] > 0
      /\ Total(weights) > 0 <=> \E k \in 1..n : weights[k] > 0
  BY <1>1, TotalOfWeights
<1>4. Total(strategy) > 0 <=> Total(weights) > 0
  BY <1>1, <1>2, <1>3
<1>5. \A i \in Drawn(strategy) : i \in 1..n /\ weights[i] > 0
  <2>1. \A i \in Drawn(strategy) : i \in 1..m /\ strategy[i] > 0
    BY <1>1, DrawnWeighs
  <2> QED BY <1>2, <2>1
<1>6. Total(weights) > 0 => Drawn(strategy) # {}
  BY <1>1, <1>4, DrawnWeighs
<1>7. ASSUME Total(weights) > 0 PROVE Heaviest(strategy) = Heaviest(weights)
  <2> DEFINE h == Heaviest(weights)
  <2>1. n \in Nat \ {0} /\ m \in Nat \ {0}
    BY <1>3, <1>7
  <2>2. IsHeaviest(weights, n, h)
    BY <2>1, HeaviestIs
  <2> HIDE DEF h
  <2>3. /\ h \in 1..n /\ h \in 1..m
        /\ \A j \in 1..n : weights[j] <= weights[h]
        /\ \A j \in 1..(h - 1) : weights[j] < weights[h]
    BY <1>1, <2>2 DEF IsHeaviest
  <2>4. strategy[h] = v * weights[h] /\ strategy[h] \in Nat /\ weights[h] \in Nat
    BY <1>1, <2>3
  <2>5. ASSUME NEW j \in 1..m PROVE strategy[j] <= strategy[h]
    <3>1. CASE j \in 1..n
      BY <1>1, <2>3, <2>4, <3>1, ScaleKeepsOrder
    <3>2. CASE j \notin 1..n
      BY <1>1, <2>4, <3>2
    <3> QED BY <3>1, <3>2
  <2>6. ASSUME NEW j \in 1..(h - 1) PROVE strategy[j] < strategy[h]
    <3>1. j \in 1..n /\ j \in 1..m /\ weights[j] < weights[h]
      BY <2>3
    <3>2. strategy[j] = v * weights[j] /\ weights[j] \in Nat
      BY <1>1, <3>1
    <3> DEFINE a == weights[j]
               b == weights[h]
    <3>3. a \in Nat /\ b \in Nat /\ a < b
      BY <2>4, <3>1, <3>2
    <3> HIDE DEF a, b
    <3>4. v * a < v * b
      BY ONLY v \in Nat \ {0}, <3>3, ScaleKeepsOrder
    <3> QED BY <2>4, <3>2, <3>4 DEF a, b
  <2>7. IsHeaviest(strategy, m, h)
    BY <2>3, <2>5, <2>6 DEF IsHeaviest
  <2> QED BY <1>1, <2>1, <2>7, HeaviestIs DEF h
<1> QED BY <1>4, <1>5, <1>6, <1>7

(* What the merge of one root answers, against that root's own answer.      *)
Echoed(told) ==
  LET held   == LegalArms(roots[1].arms)
      policy == RootPolicy(roots[1])
  IN  IF mixes /\ sampled
      THEN (\E i \in DOMAIN held : held[i].mass > 0) =>
             told.choice \in DOMAIN policy /\ policy[told.choice] > 0
      ELSE told = result

LEMMA MergeOfOneEchoes ==
  ASSUME RootsOK, Len(roots) = 1,
         result \in ExtractMarginal(roots[1], RootLeader(roots[1])),
         NEW order, order = MergedOrder,
         NEW pool, pool = [i \in DOMAIN order |-> Pooled(order[i])],
         NEW strategy,
         strategy = IF mixes THEN [i \in DOMAIN order |-> MergedStrategy[order[i]]]
                    ELSE [i \in DOMAIN order |-> 0],
         NEW told \in IF HasLeader(pool)
                        THEN {Answer(order[i], pool[i]) : i \in MergedBest(strategy, pool)}
                        ELSE {result}
  PROVE  Echoed(told)
<1> DEFINE root    == roots[1]
           held    == LegalArms(root.arms)
           lead    == RootLeader(root)
           n       == Len(held)
           m       == Len(order)
           weights == Weights(held, lead)
           policy  == RootPolicy(root)
           picks   == Picks(root, lead)
<1>1. 1 \in DOMAIN roots /\ RootOK(root) /\ root.visits \in Nat /\ choices \in Positions
  BY RootsTyped DEF Root, RootsOK
<1>2. /\ n \in Nat /\ DOMAIN held = 1..n /\ weights \in [1..n -> Nat]
      /\ \A i \in DOMAIN held :
           IF mixes THEN weights[i] > 0 <=> held[i].mass > 0
           ELSE weights[i] = IF i = lead THEN Unit ELSE 0
      /\ \A i \in DOMAIN held : held[i].visits \in Nat
  <2>1. Weighable(held)
    BY <1>1, RootsAreWeighable
  <2>2. /\ n \in Nat /\ DOMAIN held = 1..n /\ weights \in [1..n -> Nat]
        /\ \A i \in DOMAIN held :
             IF mixes THEN weights[i] > 0 <=> held[i].mass > 0
             ELSE weights[i] = IF i = lead THEN Unit ELSE 0
    BY <2>1, WeightsOfArms
  <2>3. held \in Seq(Arm)
    BY <2>1 DEF Weighable
  <2> HIDE DEF held
  <2>4. \A i \in DOMAIN held : held[i].visits \in Nat
    BY <2>3, ArmTyped
  <2> QED BY <2>2, <2>4
<1>3. /\ order \in Seq(ToSet(choices)) /\ n <= m
      /\ \A k \in DOMAIN order :
           IF k \in DOMAIN held THEN order[k] = held[k].choice
           ELSE order[k] \notin ChoicesOf(held)
  BY <1>1, MergedOrderIs
<1>4. m \in Nat /\ DOMAIN order = 1..m /\ \A k \in 1..m : order[k] \in ToSet(choices)
  BY <1>3, ElementOfSeq, LenProperties
<1>5. /\ HasLeader(Ranked(root.arms)) <=> lead # 0
      /\ lead # 0 => lead \in DOMAIN held /\ held[lead].visits > 0
      /\ lead # 0 => Leader(Ranked(root.arms)) = lead
  BY <1>1, RootLeaderIs DEF RootLeader
<1>6. /\ DOMAIN Ranked(root.arms) = 1..n
      /\ \A k \in 1..n : Ranked(root.arms)[k] = ArmCandidate(held[k])
  <2>1. /\ Ranked(root.arms) \in Seq(Candidate(Int)) /\ Len(Ranked(root.arms)) = n
        /\ \A k \in DOMAIN held : Ranked(root.arms)[k] = ArmCandidate(held[k])
    BY <1>1, RankedIsHonest
  <2> QED BY <1>2, <2>1, LenProperties
<1>7. LegalHeld(held, root.arms) /\ ArmsOK(root.arms, root.visits)
  BY <1>1, RootsAreWeighable DEF RootOK
<1>8. \/ \E k \in picks : result = Answer(held[k].choice, ArmCandidate(held[k]))
      \/ picks = {}
  BY ExtractionIs
<1>9. picks = IF sampled
              THEN IF Total(weights) > 0 THEN Drawn(weights) ELSE DOMAIN held
              ELSE IF Total(weights) > 0 THEN {Heaviest(weights)} ELSE {lead} \ {0}
  BY DEF Picks, SampleRootArm, BestArm
<1>10. \A k \in DOMAIN held : /\ held[k].choice \in DOMAIN policy
                              /\ policy[held[k].choice] = StrategyInto(held, lead)[k]
  BY <1>1, PolicyIsTheStrategy
<1>11. Total(weights) > 0 => StrategyInto(held, lead) = weights
  BY DEF StrategyInto
<1>12. Reported(root, result)
  BY <1>1, ExtractionIsReported
<1>13. Echoed(told) <=>
         IF mixes /\ sampled
         THEN (\E i \in DOMAIN held : held[i].mass > 0) =>
                told.choice \in DOMAIN policy /\ policy[told.choice] > 0
         ELSE told = result
  BY DEF Echoed
<1>14. (\E i \in DOMAIN held : held[i].mass > 0) => Informed(root)
  BY <1>7 DEF Informed, LegalHeld, LegalPlaces
<1> HIDE DEF n, m, weights, policy, picks, lead
<1>15. \A k \in 1..n : pool[k] = ArmCandidate(held[k]) /\ order[k] = held[k].choice /\ k \in 1..m
  <2> SUFFICES ASSUME NEW k \in 1..n
               PROVE  pool[k] = ArmCandidate(held[k]) /\ order[k] = held[k].choice /\ k \in 1..m
    OBVIOUS
  <2>1. k \in 1..m /\ k \in DOMAIN held
    BY <1>2, <1>3, <1>4
  <2>2. order[k] = held[k].choice /\ order[k] \in ToSet(choices)
    BY <1>3, <1>4, <2>1
  <2>3. Pooled(order[k]) = ArmCandidate(held[k])
    BY <2>1, <2>2, PooledOfOne
  <2> QED BY <1>4, <2>1, <2>2, <2>3
<1>16. \A k \in 1..m : k \notin 1..n => pool[k].visits = 0
  <2> SUFFICES ASSUME NEW k \in 1..m, k \notin 1..n PROVE pool[k].visits = 0
    OBVIOUS
  <2>1. order[k] \in ToSet(choices) /\ order[k] \notin ChoicesOf(held)
    BY <1>2, <1>3, <1>4
  <2>2. Pooled(order[k]) = CandidateOf(0, 0, 0)
    BY <2>1, PooledOfOne
  <2> QED BY <1>4, <2>2 DEF CandidateOf
<1>17. /\ HasLeader(pool) <=> lead # 0
       /\ lead # 0 => Leader(pool) = lead
  <2> DEFINE ranked == Ranked(root.arms)
  <2>1. DOMAIN pool = 1..m
    BY <1>4
  <2>2. /\ n \in Nat /\ m \in Nat /\ n <= m
        /\ DOMAIN ranked = 1..n
        /\ \A k \in 1..n : pool[k] = ranked[k]
    BY <1>2, <1>3, <1>4, <1>6, <1>15
  <2> HIDE DEF ranked
  <2>3. /\ HasLeader(pool) <=> HasLeader(ranked)
        /\ HasLeader(ranked) => Leader(pool) = Leader(ranked)
    BY ONLY <1>16, <2>1, <2>2, LeaderOfMore
  <2> QED BY <1>5, <2>3 DEF ranked
<1> HIDE DEF held
<1>18. CASE lead = 0
  <2>1. told = result
    BY <1>17, <1>18
  <2>2. Informed(root) => result.choice \in DOMAIN policy /\ policy[result.choice] > 0
    BY <1>12 DEF Reported, policy
  <2> QED BY <1>13, <1>14, <2>1, <2>2
<1>19. ASSUME lead # 0
       PROVE  /\ lead \in 1..n
              /\ \E i \in MergedBest(strategy, pool) : told = Answer(order[i], pool[i])
  BY <1>2, <1>5, <1>17, <1>19
<1>20. CASE lead # 0 /\ ~mixes
  <2>1. MergedBest(strategy, pool) = {lead}
    BY <1>17, <1>20 DEF MergedBest
  <2>2. told = Answer(held[lead].choice, ArmCandidate(held[lead]))
    BY <1>15, <1>19, <1>20, <2>1
  <2>3. \A i \in 1..n : weights[i] = IF i = lead THEN Unit ELSE 0
    BY <1>2, <1>20
  <2>4. Unit \in Nat /\ Unit > 0
    BY MarginalAnswerAssumption
  <2>5. Total(weights) > 0 /\ n \in Nat \ {0}
    BY <1>2, <1>19, <1>20, <2>3, <2>4, TotalOfWeights
  <2>6. picks = {lead}
    <3>1. CASE sampled
      <4>1. (\A i \in Drawn(weights) : i \in 1..n /\ weights[i] > 0) /\ Drawn(weights) # {}
        BY <1>2, <2>5, DrawnWeighs
      <4>2. \A i \in Drawn(weights) : i = lead
        BY <2>3, <4>1
      <4> QED BY <1>9, <2>5, <3>1, <4>1, <4>2
    <3>2. CASE ~sampled
      <4>1. IsHeaviest(weights, n, Heaviest(weights))
        BY <1>2, <2>5, HeaviestIs
      <4>2. Heaviest(weights) \in 1..n /\ weights[lead] <= weights[Heaviest(weights)]
        BY <1>19, <1>20, <4>1 DEF IsHeaviest
      <4>3. Heaviest(weights) = lead
        BY <1>19, <1>20, <2>3, <2>4, <4>2
      <4> QED BY <1>9, <2>5, <3>2, <4>3
    <3> QED BY <3>1, <3>2
  <2>7. told = result
    BY <1>8, <2>2, <2>6
  <2> QED BY <1>13, <1>20, <2>7
<1>21. CASE lead # 0 /\ mixes
  <2> DEFINE v == root.visits
  <2>1. v \in Nat \ {0}
    <3>1. PICK i \in DOMAIN root.arms : held[lead] = root.arms[i]
      BY <1>2, <1>7, <1>19, <1>21 DEF LegalHeld, LegalPlaces
    <3>2. root.arms[i].timesAvailable \in 1..root.visits
      BY <1>7 DEF ArmsOK
    <3> QED BY <1>1, <3>2
  <2>2. ASSUME NEW k \in 1..m
        PROVE  /\ strategy[k] = v * Shares(1)[order[k]]
               /\ Shares(1)[order[k]] \in Nat
               /\ k \in 1..n => Shares(1)[order[k]] = weights[k]
               /\ k \notin 1..n => Shares(1)[order[k]] = 0
    <3>1. order[k] \in ToSet(choices)
      BY <1>4
    <3>2. strategy[k] = MergedStrategy[order[k]]
      BY <1>4, <1>21
    <3>3. /\ MergedStrategy[order[k]] = v * Shares(1)[order[k]]
          /\ Shares(1)[order[k]] \in Nat
      BY <1>21, <3>1, MergedStrategyOfOne
    <3>4. /\ \A j \in DOMAIN held : Shares(1)[held[j].choice] = weights[j]
          /\ \A c \in ToSet(choices) \ ChoicesOf(held) : Shares(1)[c] = 0
      <4>1. choices \in Positions /\ mixes /\ RootOK(roots[1])
        BY <1>1, <1>21
      <4>2. /\ \A j \in DOMAIN LegalArms(roots[1].arms) :
                 Shares(1)[LegalArms(roots[1].arms)[j].choice]
                   = Weights(LegalArms(roots[1].arms), lead)[j]
            /\ \A c \in ToSet(choices) \ ChoicesOf(LegalArms(roots[1].arms)) : Shares(1)[c] = 0
        BY ONLY <4>1, SharesAreWeights
      <4> QED BY <4>2 DEF held, weights
    <3> QED BY <1>2, <1>3, <1>4, <3>1, <3>2, <3>3, <3>4
  <2>3. ScaledUp(strategy, weights, n, m, v)
    <3>1. \A k \in 1..m : /\ strategy[k] = IF k \in 1..n THEN v * weights[k] ELSE 0
                          /\ strategy[k] \in Nat
      <4> HIDE DEF v
      <4>1. \A a \in Nat : v * a \in Nat /\ v * 0 = 0
        BY <2>1, ScaleKeepsOrder
      <4> QED BY <2>2, <4>1
    <3>2. strategy = [k \in 1..m |-> strategy[k]]
      BY <1>4, <1>21
    <3>3. strategy \in [1..m -> Nat]
      BY <3>1, <3>2
    <3> QED BY <3>1, <3>3 DEF ScaledUp
  <2> HIDE DEF v
  <2>4. /\ Total(strategy) > 0 <=> Total(weights) > 0
        /\ Total(weights) > 0 => Heaviest(strategy) = Heaviest(weights)
        /\ \A i \in Drawn(strategy) : i \in 1..n /\ weights[i] > 0
    <3>1. /\ n \in Nat /\ m \in Nat /\ n <= m /\ v \in Nat \ {0}
          /\ weights \in [1..n -> Nat]
      BY <1>2, <1>3, <1>4, <2>1
    <3> QED BY ONLY <2>3, <3>1, ScaledUpAgree
  <2>5. PICK i \in MergedBest(strategy, pool) : told = Answer(order[i], pool[i])
    BY <1>19, <1>21
  <2>6. CASE Total(weights) > 0 /\ sampled
    <3>1. i \in 1..n /\ weights[i] > 0
      BY <1>21, <2>4, <2>5, <2>6 DEF MergedBest
    <3>2. told.choice = held[i].choice
      BY <1>15, <2>5, <3>1 DEF Answer
    <3>3. told.choice \in DOMAIN policy /\ policy[told.choice] = weights[i]
      BY <1>2, <1>10, <1>11, <2>6, <3>1, <3>2
    <3> QED BY <1>13, <1>21, <2>6, <3>1, <3>3
  <2>7. CASE Total(weights) > 0 /\ ~sampled
    <3>1. i = Heaviest(weights) /\ picks = {Heaviest(weights)}
      BY <1>9, <1>21, <2>4, <2>5, <2>7 DEF MergedBest
    <3>2. n \in Nat \ {0}
      BY <1>2, <1>19, <1>21
    <3>3. i \in 1..n
      BY <1>2, <3>1, <3>2, HeaviestIs DEF IsHeaviest
    <3>4. told = Answer(held[i].choice, ArmCandidate(held[i]))
      BY <1>15, <2>5, <3>3
    <3>5. told = result
      BY <1>8, <3>1, <3>4
    <3> QED BY <1>13, <2>7, <3>5
  <2>8. CASE ~(Total(weights) > 0) /\ sampled
    <3>1. \A k \in DOMAIN held : ~(held[k].mass > 0)
      BY <1>2, <1>21, <2>8, TotalOfWeights
    <3> QED BY <1>13, <1>21, <2>8, <3>1
  <2>9. CASE ~(Total(weights) > 0) /\ ~sampled
    <3>1. i = lead /\ picks = {lead}
      BY <1>9, <1>17, <1>21, <2>4, <2>5, <2>9 DEF MergedBest
    <3>2. told = Answer(held[lead].choice, ArmCandidate(held[lead]))
      BY <1>15, <1>19, <1>21, <2>5, <3>1
    <3>3. told = result
      BY <1>8, <3>1, <3>2
    <3> QED BY <1>13, <2>9, <3>3
  <2> QED BY <2>6, <2>7, <2>8, <2>9
<1> QED BY <1>18, <1>20, <1>21

PoolInv == MarginalInv /\ PoolOfOneIsItsSearcher

LEMMA SamePool ==
  ASSUME choices' = choices, mixes' = mixes, sampled' = sampled, roots' = roots,
         merged' = merged, result' = result
  PROVE  PoolOfOneIsItsSearcher => PoolOfOneIsItsSearcher'
BY DEF PoolOfOneIsItsSearcher, RootPolicy, RootLeader, Ranked, LegalArms, StrategyInto,
       Weights, WeightOf

LEMMA PoolInvNext == PoolInv /\ [MarginalNext]_allVars => PoolInv'
<1> SUFFICES ASSUME PoolInv, [MarginalNext]_allVars PROVE PoolInv'
  OBVIOUS
<1>1. MarginalInv /\ PoolOfOneIsItsSearcher /\ MarginalInv'
  BY MarginalInvNext DEF PoolInv
<1>2. phase' # "merged" => PoolOfOneIsItsSearcher'
  BY <1>1 DEF MarginalInv, InPlace, PoolOfOneIsItsSearcher
<1>3. CASE Gather \/ Stop
  <2>1. phase = "gathering" /\ (SearchEnds \/ phase' = phase)
    BY <1>3 DEF Gather, Stop
  <2>2. phase' # "merged"
    BY <2>1 DEF SearchEnds
  <2> QED BY <1>1, <1>2, <2>2 DEF PoolInv
<1>4. CASE Scan
  BY <1>1, <1>2, <1>4 DEF Scan, PoolInv
<1>5. CASE ExtractFirst
  BY <1>1, <1>2, <1>5 DEF ExtractFirst, PoolInv
<1>6. CASE Merge
  <2>1. /\ phase = "merging" /\ choices' = choices /\ mixes' = mixes /\ sampled' = sampled
        /\ roots' = roots /\ result' = result
    BY <1>6 DEF Merge, config
  <2> DEFINE order    == MergedOrder
             pool     == [i \in DOMAIN order |-> Pooled(order[i])]
             strategy == IF mixes THEN [i \in DOMAIN order |-> MergedStrategy[order[i]]]
                         ELSE [i \in DOMAIN order |-> 0]
  <2>2. merged' \in IF HasLeader(pool)
                    THEN {Answer(order[i], pool[i]) : i \in MergedBest(strategy, pool)}
                    ELSE {result}
    BY <1>6 DEF Merge
  <2>3. RootsOK /\ result \in ExtractMarginal(roots[1], RootLeader(roots[1]))
    BY <1>1, <2>1 DEF MarginalInv, Telling, Told
  <2>4. Len(roots) = 1 => Echoed(merged')
    <3> DEFINE answers == IF HasLeader(pool)
                          THEN {Answer(order[i], pool[i]) : i \in MergedBest(strategy, pool)}
                          ELSE {result}
    <3>1. \A told \in answers : Len(roots) = 1 => Echoed(told)
      BY <2>3, MergeOfOneEchoes
    <3>2. merged' \in answers
      BY <2>2
    <3> HIDE DEF answers
    <3> QED BY <3>1, <3>2
  <2>5. Echoed(merged') => (Len(roots) = 1 => PoolOfOneIsItsSearcher')
    BY <2>1 DEF Echoed, PoolOfOneIsItsSearcher, RootPolicy, RootLeader, Ranked, LegalArms,
                StrategyInto, Weights, WeightOf
  <2>6. PoolOfOneIsItsSearcher'
    BY <2>1, <2>4, <2>5 DEF PoolOfOneIsItsSearcher
  <2> QED BY <1>1, <2>6 DEF PoolInv
<1>7. CASE UNCHANGED allVars
  BY <1>1, <1>7, SamePool DEF PoolInv, allVars, config
<1> QED BY <1>3, <1>4, <1>5, <1>6, <1>7 DEF MarginalNext

(* A pool of one worker answers as the search it is a pool of.  Where the   *)
(* answer is drawn it is drawn from what that search would report, as soon  *)
(* as a choice of the position was given mass.                              *)
THEOREM PoolOfOneEchoes == MarginalSpec => []PoolOfOneIsItsSearcher
<1>1. MarginalInit => PoolInv
  BY MarginalInitHolds DEF MarginalInit, PoolInv, PoolOfOneIsItsSearcher
<1>2. PoolInv /\ [MarginalNext]_allVars => PoolInv'
  BY PoolInvNext
<1>3. PoolInv => PoolOfOneIsItsSearcher
  BY DEF PoolInv
<1> QED BY <1>1, <1>2, <1>3, PTL DEF MarginalSpec
=============================================================================
