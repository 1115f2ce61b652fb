------------------------- MODULE GraphSearchProofs -------------------------
(***************************************************************************)
(* What GraphSearch keeps for any game, however many positions it has and  *)
(* by however many routes they are reached.                                *)
(***************************************************************************)
EXTENDS GraphSearch, FiniteSetTheorems, SequenceTheorems, TLAPS

Link == [choice : Choice, target : Nat \cup {None}, visits : Nat, timesAvailable : Nat]

Vertex == [position : Position, player : Range(PlayerAt), key : Position \cup {None},
           visits : Nat, stamp : Nat, links : Seq(Link), linksMatchChoices : BOOLEAN]

(* What a vertex says of its position.                                      *)
VertexOK(vertex) ==
  /\ vertex \in Vertex
  /\ vertex.key \in {None, vertex.position}
  /\ \A i \in DOMAIN vertex.links : vertex.links[i].choice \in ChoicesInto(vertex.position)
  /\ \A i, j \in DOMAIN vertex.links :
       vertex.links[i].choice = vertex.links[j].choice => i = j

(* What a vertex says it knows: that its links are these choices.           *)
LinkedChoices(vertex) == {vertex.links[i].choice : i \in DOMAIN vertex.links}

Knows(vertex, choices) == vertex.linksMatchChoices => LinkedChoices(vertex) = choices

(* The choices that are meant: at the root, those of the position searched. *)
KnownOK(vs, rootOffers) ==
  \A v \in DOMAIN vs :
    Knows(vs[v], IF v = Root THEN rootOffers ELSE ChoicesInto(vs[v].position))

SameChoices(old, now) ==
  /\ now.linksMatchChoices => old.linksMatchChoices
  /\ DOMAIN now.links = DOMAIN old.links
  /\ \A i \in DOMAIN old.links : now.links[i].choice = old.links[i].choice

(* What a link out of a position says of where it leads.                    *)
LinkOK(vs, position, link) ==
  /\ link.visits <= link.timesAvailable
  /\ link.target # None =>
       /\ link.target \in DOMAIN vs \ {Root}
       /\ vs[link.target].position = Move[<<position, link.choice>>]
       /\ vs[link.target].player = PlayerAt[position]
       /\ link.visits <= vs[link.target].visits
  /\ link.target = None => link.visits = 0

HasParent(vs, u) ==
  \E v \in DOMAIN vs : \E i \in DOMAIN vs[v].links : vs[v].links[i].target = u

ArenaOK(vs) ==
  /\ vs \in Seq(Vertex)
  /\ Root \in DOMAIN vs
  /\ \A v \in DOMAIN vs : VertexOK(vs[v])
  /\ \A v \in DOMAIN vs : \A i \in DOMAIN vs[v].links :
       LinkOK(vs, vs[v].position, vs[v].links[i])
  /\ \A u \in DOMAIN vs \ {Root} : HasParent(vs, u)

TableOK(vs, found) ==
  /\ found = {v \in DOMAIN vs \ {Root} : vs[v].key # None}
  /\ \A v, w \in found : vs[v].key = vs[w].key /\ vs[v].player = vs[w].player => v = w

-----------------------------------------------------------------------------

LEMMA NoneIsNoNumber == \A n \in Nat : n # None
BY GraphSearchAssumption DEF GraphSearchAssumption

LEMMA SameChoicesKnown ==
  ASSUME NEW old, NEW now, SameChoices(old, now), NEW choices, Knows(old, choices)
  PROVE  Knows(now, choices)
BY DEF SameChoices, Knows, LinkedChoices

(* A vertex of an arena knows what it knew, or that it does not know.       *)
LEMMA KnownKept ==
  ASSUME NEW vs, NEW ws, NEW rootOffers, KnownOK(vs, rootOffers),
         \A u \in DOMAIN ws :
           \/ ~ws[u].linksMatchChoices
           \/ /\ u \in DOMAIN vs
              /\ ws[u].position = vs[u].position
              /\ SameChoices(vs[u], ws[u])
  PROVE  KnownOK(ws, rootOffers)
<1> SUFFICES ASSUME NEW u \in DOMAIN ws
             PROVE  Knows(ws[u], IF u = Root THEN rootOffers ELSE ChoicesInto(ws[u].position))
  BY DEF KnownOK
<1> DEFINE choices == IF u = Root THEN rootOffers ELSE ChoicesInto(ws[u].position)
<1>1. CASE ~ws[u].linksMatchChoices
  BY <1>1 DEF Knows
<1>2. CASE u \in DOMAIN vs /\ ws[u].position = vs[u].position /\ SameChoices(vs[u], ws[u])
  <2>1. Knows(vs[u], choices)
    BY <1>2 DEF KnownOK
  <2> HIDE DEF choices
  <2>2. Knows(ws[u], choices)
    BY <1>2, <2>1, SameChoicesKnown
  <2> QED BY <2>2 DEF choices
<1> QED BY <1>1, <1>2

(* One level of a descent.                                                  *)

LEMMA NewVertexOK ==
  ASSUME NEW p \in Position, NEW player \in Range(PlayerAt), NEW key \in {None, p}
  PROVE  VertexOK(NewVertex(p, player, key))
<1> DEFINE vertex == NewVertex(p, player, key)
<1>1. <<>> \in Seq(Link) /\ DOMAIN <<>> = {}
  OBVIOUS
<1>2. /\ vertex \in Vertex /\ vertex.position = p /\ vertex.key = key
      /\ vertex.links = <<>> /\ vertex.linksMatchChoices = FALSE
  BY <1>1 DEF NewVertex, Vertex
<1> HIDE DEF vertex
<1>3. DOMAIN vertex.links = {}
  BY <1>1, <1>2
<1>4. VertexOK(vertex)
  BY <1>2, <1>3 DEF VertexOK
<1> QED BY <1>4 DEF vertex

LEMMA CountedLinks ==
  ASSUME NEW links \in Seq(Link), NEW offered
  PROVE  /\ Count(links, offered) \in Seq(Link)
         /\ DOMAIN Count(links, offered) = DOMAIN links
         /\ Len(Count(links, offered)) = Len(links)
         /\ \A i \in DOMAIN links :
              LET link == Count(links, offered)[i]
              IN  /\ link.choice = links[i].choice
                  /\ link.target = links[i].target
                  /\ link.visits = links[i].visits
                  /\ link.timesAvailable =
                       links[i].timesAvailable + IF links[i].choice \in offered THEN 1 ELSE 0
<1> DEFINE counted == Count(links, offered)
<1>1. /\ DOMAIN links = 1..Len(links) /\ Len(links) \in Nat
      /\ \A i \in DOMAIN links : links[i] \in Link
  BY ElementOfSeq, LenProperties
<1>2. ASSUME NEW i \in DOMAIN links
      PROVE  LET link == counted[i]
             IN  /\ link \in Link
                 /\ link.choice = links[i].choice
                 /\ link.target = links[i].target
                 /\ link.visits = links[i].visits
                 /\ link.timesAvailable =
                      links[i].timesAvailable + IF links[i].choice \in offered THEN 1 ELSE 0
  <2>1. links[i] \in Link
    BY <1>1
  <2>2. counted[i] = IF links[i].choice \in offered
                     THEN [links[i] EXCEPT !.timesAvailable = links[i].timesAvailable + 1]
                     ELSE links[i]
    BY DEF Count
  <2> DEFINE old == links[i]
             now == counted[i]
  <2> HIDE DEF counted
  <2>3. /\ old \in Link
        /\ now = IF old.choice \in offered
                 THEN [old EXCEPT !.timesAvailable = old.timesAvailable + 1]
                 ELSE old
    BY <2>1, <2>2
  <2> HIDE DEF old, now
  <2>4. /\ now \in Link /\ now.choice = old.choice
        /\ now.target = old.target /\ now.visits = old.visits
        /\ now.timesAvailable = old.timesAvailable + IF old.choice \in offered THEN 1 ELSE 0
    <3> DEFINE more == old.timesAvailable + 1
    <3>1. CASE old.choice \in offered
      <4>1. more \in Nat
        BY <2>3 DEF Link
      <4>2. now = [old EXCEPT !.timesAvailable = more]
        BY <2>3, <3>1
      <4> HIDE DEF more
      <4>3. now \in Link /\ now.choice = old.choice /\ now.target = old.target
            /\ now.visits = old.visits /\ now.timesAvailable = more
        BY <2>3, <4>1, <4>2 DEF Link
      <4> QED BY <3>1, <4>3 DEF more
    <3>2. CASE old.choice \notin offered
      BY <2>3, <3>2 DEF Link
    <3> QED BY <3>1, <3>2
  <2> QED BY <2>4 DEF old, now
<1>3. counted = [i \in 1..Len(links) |-> counted[i]]
  BY <1>1 DEF Count
<1>4. DOMAIN counted = DOMAIN links
  BY DEF Count
<1> HIDE DEF counted
<1>5. \A i \in 1..Len(links) : counted[i] \in Link
  BY <1>1, <1>2
<1>6. counted \in Seq(Link) /\ Len(counted) = Len(links)
  <2>1. counted \in [1..Len(links) -> Link]
    BY <1>3, <1>5
  <2>2. counted \in Seq(Link)
    BY <2>1, <1>1, IsASeq
  <2> QED BY <1>1, <1>4, <2>2, LenProperties
<1>7. \A i \in DOMAIN links :
        /\ counted[i].choice = links[i].choice
        /\ counted[i].target = links[i].target
        /\ counted[i].visits = links[i].visits
        /\ counted[i].timesAvailable =
             links[i].timesAvailable + IF links[i].choice \in offered THEN 1 ELSE 0
  BY <1>2
<1> QED BY <1>4, <1>6, <1>7 DEF counted

LEMMA OpenedIsSequence ==
  ASSUME NEW S \in SUBSET Choice, IsFiniteSet(S), NEW opened \in SetToSeqs(S)
  PROVE  /\ opened \in Seq(Choice)
         /\ \A i \in DOMAIN opened : opened[i] \in S
         /\ \A i, j \in DOMAIN opened : opened[i] = opened[j] => i = j
         /\ \A c \in S : \E i \in DOMAIN opened : opened[i] = c
<1> DEFINE n == Cardinality(S)
<1>1. n \in Nat
  BY FS_CardinalityType
<1>2. opened \in [1..n -> S] /\ \A i, j \in 1..n : i # j => opened[i] # opened[j]
  BY DEF SetToSeqs
<1>3. opened \in Seq(Choice)
  BY <1>1, <1>2, IsASeq
<1>4. \A c \in S : \E i \in 1..n : opened[i] = c
  <2>1. opened \in Injection(1..n, S)
    BY <1>2 DEF Injection, IsInjective
  <2>2. IsFiniteSet(1..n) /\ Cardinality(1..n) = n
    <3>1. 1 \in Int /\ n \in Int
      BY <1>1
    <3> HIDE DEF n
    <3> QED BY <1>1, <3>1, FS_Interval
  <2>3. opened \in Surjection(1..n, S)
    BY <2>1, <2>2, FS_Injection
  <2> QED BY <2>3 DEF Surjection
<1> QED BY <1>2, <1>3, <1>4

(* The links of a vertex once choices are opened.                           *)
Grown(links, offered, new) ==
  Count(links, offered) \o [j \in DOMAIN new |-> NewLink(new[j])]

LEMMA GrownLinks ==
  ASSUME NEW links \in Seq(Link), NEW offered, NEW new \in Seq(Choice)
  PROVE  /\ Grown(links, offered, new) \in Seq(Link)
         /\ DOMAIN Grown(links, offered, new) = 1..(Len(links) + Len(new))
         /\ \A i \in DOMAIN links :
              Grown(links, offered, new)[i] = Count(links, offered)[i]
         /\ \A j \in DOMAIN new :
              Grown(links, offered, new)[Len(links) + j] = NewLink(new[j])
<1> DEFINE made == [j \in DOMAIN new |-> NewLink(new[j])]
           old  == Count(links, offered)
           all  == old \o made
<1>1. /\ old \in Seq(Link)
      /\ Len(old) = Len(links)
      /\ DOMAIN links = 1..Len(links) /\ Len(links) \in Nat
      /\ DOMAIN new = 1..Len(new) /\ Len(new) \in Nat
      /\ \A j \in DOMAIN new : new[j] \in Choice
  BY CountedLinks, LenProperties, ElementOfSeq
<1>2. made \in Seq(Link) /\ DOMAIN made = 1..Len(new) /\ Len(made) = Len(new)
  <2>1. \A j \in DOMAIN new : NewLink(new[j]) \in Link
    BY <1>1 DEF NewLink, Link
  <2>2. made \in [1..Len(new) -> Link]
    BY <1>1, <2>1
  <2>3. made \in Seq(Link)
    BY <1>1, <2>2, IsASeq
  <2>4. DOMAIN made = 1..Len(new)
    BY <1>1
  <2> QED BY <1>1, <2>3, <2>4, LenProperties
<1>3. \A j \in DOMAIN new : made[j] = NewLink(new[j])
  OBVIOUS
<1> HIDE DEF made, old
<1>4. /\ all \in Seq(Link)
      /\ Len(all) = Len(old) + Len(made)
      /\ \A i \in 1..Len(old) + Len(made) :
           all[i] = IF i <= Len(old) THEN old[i] ELSE made[i - Len(old)]
  BY <1>1, <1>2, ConcatProperties
<1>5. DOMAIN all = 1..(Len(links) + Len(new))
  BY <1>1, <1>2, <1>4, LenProperties
<1> HIDE DEF all
<1>6. \A i \in DOMAIN links : all[i] = old[i]
  BY <1>1, <1>2, <1>4
<1>7. ASSUME NEW j \in DOMAIN new PROVE all[Len(links) + j] = made[j]
  <2> DEFINE at == Len(links) + j
  <2>1. at \in 1..Len(old) + Len(made) /\ ~(at <= Len(old)) /\ at - Len(old) = j
    BY <1>1, <1>2
  <2> HIDE DEF at
  <2>2. all[at] = made[at - Len(old)]
    BY <1>4, <2>1
  <2> QED BY <2>1, <2>2 DEF at
<1> QED BY <1>3, <1>4, <1>5, <1>6, <1>7 DEF all, old, made, Grown

(* What enumerating a vertex's choices makes of it: every link it had, with *)
(* an opportunity for what the world offers, and new ones.                  *)
EnumeratedAs(old, vertex, offered) ==
  /\ VertexOK(vertex)
  /\ vertex.position = old.position
  /\ vertex.player = old.player
  /\ vertex.key = old.key
  /\ vertex.visits = old.visits
  /\ vertex.stamp = old.stamp
  /\ \A i \in DOMAIN old.links :
       /\ i \in DOMAIN vertex.links
       /\ vertex.links[i].choice = old.links[i].choice
       /\ vertex.links[i].target = old.links[i].target
       /\ vertex.links[i].visits = old.links[i].visits
       /\ vertex.links[i].timesAvailable >= old.links[i].timesAvailable
       /\ old.linksMatchChoices \/ vertex.links[i].choice \in offered =>
            vertex.links[i].timesAvailable > old.links[i].timesAvailable
  /\ \A i \in DOMAIN vertex.links \ DOMAIN old.links :
       /\ vertex.links[i].target = None
       /\ vertex.links[i].visits = 0
       /\ vertex.links[i].timesAvailable = 1

(* A vertex that knows its choices only counts.                             *)
LEMMA KnownEnumerated ==
  ASSUME NEW v, VertexOK(vertices[v]), vertices[v].linksMatchChoices,
         NEW offered, NEW vertex \in Enumerated(v, offered)
  PROVE  EnumeratedAs(vertices[v], vertex, offered) /\ SameChoices(vertices[v], vertex)
<1> DEFINE old == vertices[v]
           links == Count(old.links, Choice)
<1>1. /\ old \in Vertex /\ old.links \in Seq(Link)
      /\ \A i \in DOMAIN old.links : old.links[i].timesAvailable \in Nat
      /\ \A i \in DOMAIN old.links : old.links[i].choice \in Choice
  <2>1. old.links \in Seq(Link)
    BY DEF VertexOK, Vertex
  <2>2. \A i \in DOMAIN old.links : old.links[i] \in Link
    BY <2>1, ElementOfSeq, LenProperties
  <2> QED BY <2>1, <2>2 DEF VertexOK, Link
<1>2. vertex = [old EXCEPT !.links = links]
  BY DEF Enumerated
<1>3. /\ links \in Seq(Link)
      /\ DOMAIN links = DOMAIN old.links
      /\ \A i \in DOMAIN old.links :
           /\ links[i].choice = old.links[i].choice
           /\ links[i].target = old.links[i].target
           /\ links[i].visits = old.links[i].visits
           /\ links[i].timesAvailable = old.links[i].timesAvailable + 1
  BY <1>1, CountedLinks
<1> HIDE DEF links
<1>4. /\ vertex \in Vertex /\ vertex.links = links
      /\ vertex.position = old.position
      /\ vertex.player = old.player
      /\ vertex.key = old.key
      /\ vertex.visits = old.visits
      /\ vertex.stamp = old.stamp
      /\ vertex.linksMatchChoices = old.linksMatchChoices
  BY <1>1, <1>2, <1>3 DEF Vertex
<1>5. VertexOK(vertex)
  BY <1>3, <1>4 DEF VertexOK
<1> HIDE DEF old
<1>6. EnumeratedAs(old, vertex, offered)
  BY <1>1, <1>3, <1>4, <1>5 DEF EnumeratedAs
<1>7. SameChoices(old, vertex)
  BY <1>3, <1>4 DEF SameChoices
<1> QED BY <1>6, <1>7 DEF old

(* Others gain a link for each choice that is opened.                       *)
LEMMA UnknownEnumerated ==
  ASSUME GraphSearchAssumption,
         NEW v, VertexOK(vertices[v]), ~vertices[v].linksMatchChoices,
         vertices[v].position = state,
         v = Root => offers \subseteq ChoicesInto(state),
         NEW offered \in Offered(v), NEW vertex \in Enumerated(v, offered)
  PROVE  /\ EnumeratedAs(vertices[v], vertex, offered)
         /\ Knows(vertex, IF v = Root THEN offers ELSE ChoicesInto(state))
<1> DEFINE old    == vertices[v]
           linked == {old.links[i].choice : i \in DOMAIN old.links}
           unseen == offered \ linked
<1>1. /\ old \in Vertex /\ old.links \in Seq(Link)
      /\ \A i \in DOMAIN old.links : old.links[i].timesAvailable \in Nat
      /\ DOMAIN old.links = 1..Len(old.links) /\ Len(old.links) \in Nat
  <2>1. old.links \in Seq(Link)
    BY DEF VertexOK, Vertex
  <2>2. \A i \in DOMAIN old.links : old.links[i] \in Link
    BY <2>1, ElementOfSeq, LenProperties
  <2> QED BY <2>1, <2>2, LenProperties DEF VertexOK, Link
<1>2. /\ offered \subseteq ChoicesInto(state)
      /\ Fixed(v) => offered = IF v = Root THEN offers ELSE ChoicesInto(state)
  BY DEF Offered, Offers, Fixed
<1>3. IsFiniteSet(ChoicesInto(state)) /\ ChoicesInto(state) \subseteq Choice
  <2>1. old.position \in Position
    BY <1>1 DEF Vertex
  <2>2. state \in Position
    BY <2>1
  <2>3. IsFiniteSet(ChoicesInto(state))
    BY <2>2 DEF GraphSearchAssumption
  <2> QED BY <2>3 DEF ChoicesInto
<1>4. IsFiniteSet(unseen) /\ unseen \in SUBSET Choice /\ Cardinality(unseen) \in Nat
  BY <1>2, <1>3, FS_Subset, FS_CardinalityType
<1>5. PICK new \in IF v = Root THEN SetToSeqs(unseen)
                   ELSE IF unseen = {} THEN {<<>>}
                   ELSE {<<c>> : c \in unseen} :
        vertex = [old EXCEPT
           !.links = Grown(old.links, offered, new),
           !.linksMatchChoices = /\ Fixed(v)
                                 /\ EveryChoiceLinked(v = Root, unseen)
                                 /\ EveryLinkIsAChoice(linked, offered)]
  BY DEF Enumerated, Expanded, Grown
<1> DEFINE links == Grown(old.links, offered, new)
           n     == Len(old.links)
           known == /\ Fixed(v)
                    /\ EveryChoiceLinked(v = Root, unseen)
                    /\ EveryLinkIsAChoice(linked, offered)
<1>6. /\ new \in Seq(Choice)
      /\ \A j \in DOMAIN new : new[j] \in unseen
      /\ \A i, j \in DOMAIN new : new[i] = new[j] => i = j
      /\ v = Root \/ Cardinality(unseen) <= 1 =>
           \A c \in unseen : \E j \in DOMAIN new : new[j] = c
  <2> HIDE DEF unseen, links, known
  <2>1. CASE v = Root
    BY <1>4, <1>5, <2>1, OpenedIsSequence
  <2>2. CASE v # Root /\ unseen = {}
    BY <1>5, <2>2
  <2>3. CASE v # Root /\ unseen # {}
    <3>1. PICK c \in unseen : new = <<c>>
      BY <1>5, <2>3
    <3>2. new \in Seq(Choice) /\ DOMAIN new = {1} /\ new[1] = c
      BY <1>4, <3>1
    <3>3. ASSUME Cardinality(unseen) <= 1, NEW d \in unseen PROVE d = c
      <4>1. Cardinality(unseen) = 1
        BY <1>4, <2>3, <3>3, FS_EmptySet
      <4> QED BY <1>4, <4>1, FS_Singleton
    <3> QED BY <2>3, <3>2, <3>3
  <2> QED BY <2>1, <2>2, <2>3
<1>7. /\ links \in Seq(Link)
      /\ DOMAIN links = 1..(Len(old.links) + Len(new))
      /\ \A i \in DOMAIN old.links :
           /\ links[i].choice = old.links[i].choice
           /\ links[i].target = old.links[i].target
           /\ links[i].visits = old.links[i].visits
           /\ links[i].timesAvailable =
                old.links[i].timesAvailable + IF old.links[i].choice \in offered THEN 1 ELSE 0
      /\ \A j \in DOMAIN new : links[Len(old.links) + j] = NewLink(new[j])
  <2> DEFINE counted == Count(old.links, offered)
             had     == old.links
  <2>0. had \in Seq(Link) /\ new \in Seq(Choice)
    BY <1>1, <1>6
  <2> HIDE DEF had
  <2>g. /\ Grown(had, offered, new) \in Seq(Link)
        /\ DOMAIN Grown(had, offered, new) = 1..(Len(had) + Len(new))
        /\ \A i \in DOMAIN had : Grown(had, offered, new)[i] = Count(had, offered)[i]
        /\ \A j \in DOMAIN new : Grown(had, offered, new)[Len(had) + j] = NewLink(new[j])
    BY <2>0, GrownLinks
  <2>1. /\ links \in Seq(Link)
        /\ DOMAIN links = 1..(Len(old.links) + Len(new))
        /\ \A i \in DOMAIN old.links : links[i] = counted[i]
        /\ \A j \in DOMAIN new : links[Len(old.links) + j] = NewLink(new[j])
    BY <2>g DEF had
  <2>2. \A i \in DOMAIN old.links :
           /\ counted[i].choice = old.links[i].choice
           /\ counted[i].target = old.links[i].target
           /\ counted[i].visits = old.links[i].visits
           /\ counted[i].timesAvailable =
                old.links[i].timesAvailable + IF old.links[i].choice \in offered THEN 1 ELSE 0
    BY <1>1, CountedLinks
  <2> HIDE DEF links, counted
  <2> QED BY <2>1, <2>2
<1>8. /\ DOMAIN new = 1..Len(new) /\ Len(new) \in Nat
      /\ DOMAIN old.links = 1..n /\ n \in Nat
      /\ DOMAIN links = 1..(n + Len(new))
      /\ \A j \in DOMAIN new : links[n + j] = NewLink(new[j])
  BY <1>1, <1>6, <1>7, LenProperties
<1> HIDE DEF links, n
<1>9. \A i \in DOMAIN links \ DOMAIN old.links :
        i - n \in DOMAIN new /\ links[i] = NewLink(new[i - n])
  <2> SUFFICES ASSUME NEW i \in DOMAIN links \ DOMAIN old.links
               PROVE  i - n \in DOMAIN new /\ links[i] = NewLink(new[i - n])
    OBVIOUS
  <2>1. i - n \in DOMAIN new /\ n + (i - n) = i
    BY <1>8
  <2> QED BY <1>8, <2>1
<1>10. \A i \in DOMAIN old.links : i \in DOMAIN links
  BY <1>8
<1>11. /\ vertex \in Vertex /\ vertex.links = links
       /\ vertex.position = old.position
       /\ vertex.player = old.player
       /\ vertex.key = old.key
       /\ vertex.visits = old.visits
       /\ vertex.stamp = old.stamp
       /\ vertex.linksMatchChoices = known
  <2>1. known \in BOOLEAN
    OBVIOUS
  <2>2. vertex = [old EXCEPT !.links = links, !.linksMatchChoices = known]
    BY <1>5 DEF links
  <2> HIDE DEF known
  <2> QED BY <1>1, <1>7, <2>1, <2>2 DEF Vertex
<1>12. VertexOK(vertex)
  <2>1. vertex.key \in {None, vertex.position}
    BY <1>11 DEF VertexOK
  <2>2. \A i \in DOMAIN links : links[i].choice \in ChoicesInto(old.position)
    <3> SUFFICES ASSUME NEW i \in DOMAIN links
                 PROVE  links[i].choice \in ChoicesInto(old.position)
      OBVIOUS
    <3>1. CASE i \in DOMAIN old.links
      BY <1>7, <3>1 DEF VertexOK
    <3>2. CASE i \notin DOMAIN old.links
      BY <1>2, <1>6, <1>9, <3>2 DEF NewLink
    <3> QED BY <3>1, <3>2
  <2>3. \A i \in DOMAIN links \ DOMAIN old.links :
           \A j \in DOMAIN old.links : links[i].choice # links[j].choice
    <3> SUFFICES ASSUME NEW i \in DOMAIN links \ DOMAIN old.links,
                        NEW j \in DOMAIN old.links
                 PROVE  links[i].choice # links[j].choice
      OBVIOUS
    <3>1. links[i].choice \in unseen
      BY <1>6, <1>9 DEF NewLink
    <3>2. links[j].choice \in linked
      BY <1>7
    <3> QED BY <3>1, <3>2
  <2>4. ASSUME NEW i \in DOMAIN links, NEW j \in DOMAIN links,
               links[i].choice = links[j].choice
        PROVE  i = j
    <3>1. CASE i \in DOMAIN old.links /\ j \in DOMAIN old.links
      BY <1>7, <2>4, <3>1 DEF VertexOK
    <3>2. CASE i \notin DOMAIN old.links /\ j \notin DOMAIN old.links
      <4>1. i - n = j - n
        BY <1>6, <1>9, <2>4, <3>2 DEF NewLink
      <4> QED BY <1>8, <4>1
    <3> QED BY <2>3, <2>4, <3>1, <3>2
  <2> QED BY <1>11, <2>1, <2>2, <2>4 DEF VertexOK
<1>k. ASSUME known PROVE {links[i].choice : i \in DOMAIN links} = offered
  <2>1. ASSUME NEW i \in DOMAIN links PROVE links[i].choice \in offered
    <3>1. CASE i \in DOMAIN old.links
      BY <1>7, <1>k, <3>1 DEF EveryLinkIsAChoice
    <3>2. CASE i \notin DOMAIN old.links
      BY <1>6, <1>9, <3>2 DEF NewLink
    <3> QED BY <3>1, <3>2
  <2>2. ASSUME NEW c \in offered PROVE \E i \in DOMAIN links : links[i].choice = c
    <3>2. CASE c \in linked
      <4>1. PICK i \in DOMAIN old.links : old.links[i].choice = c
        BY <3>2
      <4> QED BY <1>7, <1>10, <4>1
    <3>3. CASE c \notin linked
      <4>1. PICK j \in DOMAIN new : new[j] = c
        BY <1>6, <1>k, <2>2, <3>3 DEF EveryChoiceLinked
      <4>2. n + j \in DOMAIN links
        BY <1>8, <4>1
      <4>3. links[n + j].choice = c
        <5>1. links[n + j] = NewLink(new[j])
          BY <1>8
        <5>2. NewLink(new[j]).choice = new[j]
          BY DEF NewLink
        <5> QED BY <4>1, <5>1, <5>2
      <4> HIDE DEF known
      <4> QED BY <4>2, <4>3
    <3> QED BY <3>2, <3>3
  <2> QED BY <2>1, <2>2
<1>l. Knows(vertex, IF v = Root THEN offers ELSE ChoicesInto(state))
  <2> SUFFICES ASSUME known
               PROVE  LinkedChoices(vertex) = IF v = Root THEN offers ELSE ChoicesInto(state)
    BY <1>11 DEF Knows
  <2>1. LinkedChoices(vertex) = offered
    BY <1>11, <1>k DEF LinkedChoices
  <2> QED BY <1>2, <2>1
<1>13. \A i \in DOMAIN links \ DOMAIN old.links :
         links[i].target = None /\ links[i].visits = 0 /\ links[i].timesAvailable = 1
  BY <1>9 DEF NewLink
<1>14. ~old.linksMatchChoices
  OBVIOUS
<1> HIDE DEF old
<1>15. \A i \in DOMAIN old.links :
       /\ i \in DOMAIN links
       /\ links[i].choice = old.links[i].choice
       /\ links[i].target = old.links[i].target
       /\ links[i].visits = old.links[i].visits
       /\ links[i].timesAvailable >= old.links[i].timesAvailable
       /\ old.linksMatchChoices \/ links[i].choice \in offered =>
            links[i].timesAvailable > old.links[i].timesAvailable
  BY <1>1, <1>7, <1>10, <1>14
<1>16. EnumeratedAs(old, vertex, offered)
  BY <1>11, <1>12, <1>13, <1>15 DEF EnumeratedAs
<1> QED BY <1>16, <1>l DEF old

-----------------------------------------------------------------------------

(* What an arena may become: more vertices, each of the old ones of the     *)
(* same position and mover, visited no less, its links leading where they   *)
(* did.                                                                     *)
Extends(vs, ws) ==
  /\ ws \in Seq(Vertex)
  /\ DOMAIN vs \subseteq DOMAIN ws
  /\ \A u \in DOMAIN vs :
       /\ VertexOK(ws[u])
       /\ ws[u].position = vs[u].position
       /\ ws[u].player = vs[u].player
       /\ vs[u].visits <= ws[u].visits
       /\ \A i \in DOMAIN vs[u].links :
            /\ i \in DOMAIN ws[u].links
            /\ vs[u].links[i].target # None =>
                 ws[u].links[i].target = vs[u].links[i].target

LEMMA ArenaTyped ==
  ASSUME NEW vs, ArenaOK(vs)
  PROVE  /\ DOMAIN vs = 1..Len(vs) /\ Len(vs) \in Nat
         /\ vs = [u \in 1..Len(vs) |-> vs[u]]
         /\ \A u \in DOMAIN vs :
              /\ vs[u] \in Vertex
              /\ vs[u].visits \in Nat
              /\ vs[u].stamp \in Nat
              /\ vs[u].position \in Position
              /\ vs[u].links \in Seq(Link)
              /\ DOMAIN vs[u].links = 1..Len(vs[u].links)
              /\ Len(vs[u].links) \in Nat
              /\ \A i \in DOMAIN vs[u].links : vs[u].links[i] \in Link
<1>1. DOMAIN vs = 1..Len(vs) /\ Len(vs) \in Nat
  BY LenProperties DEF ArenaOK
<1>2. vs = [u \in 1..Len(vs) |-> vs[u]]
  BY <1>1 DEF ArenaOK
<1>3. ASSUME NEW u \in DOMAIN vs
      PROVE  /\ vs[u] \in Vertex
             /\ vs[u].visits \in Nat
             /\ vs[u].stamp \in Nat
             /\ vs[u].position \in Position
             /\ vs[u].links \in Seq(Link)
             /\ DOMAIN vs[u].links = 1..Len(vs[u].links)
             /\ Len(vs[u].links) \in Nat
             /\ \A i \in DOMAIN vs[u].links : vs[u].links[i] \in Link
  <2>1. vs[u] \in Vertex
    BY DEF ArenaOK, VertexOK
  <2>2. /\ vs[u].visits \in Nat /\ vs[u].stamp \in Nat
        /\ vs[u].position \in Position /\ vs[u].links \in Seq(Link)
    BY <2>1 DEF Vertex
  <2> QED BY <2>1, <2>2, LenProperties, ElementOfSeq
<1> QED BY <1>1, <1>2, <1>3

(* A link still leads where its choice does.                                *)
LEMMA LinkKept ==
  ASSUME NEW vs, NEW ws, ArenaOK(vs), Extends(vs, ws), NEW p, NEW link \in Link,
         LinkOK(vs, p, link)
  PROVE  LinkOK(ws, p, link)
<1>1. CASE link.target = None
  BY <1>1 DEF LinkOK
<1>2. CASE link.target # None
  <2> DEFINE t == link.target
  <2>1. /\ t \in DOMAIN vs /\ t # Root
        /\ vs[t].position = Move[<<p, link.choice>>]
        /\ vs[t].player = PlayerAt[p]
        /\ link.visits <= vs[t].visits
    BY <1>2 DEF LinkOK
  <2>2. /\ t \in DOMAIN ws
        /\ ws[t].position = vs[t].position
        /\ ws[t].player = vs[t].player
        /\ vs[t].visits <= ws[t].visits
    BY <2>1 DEF Extends
  <2>3. link.visits \in Nat /\ vs[t].visits \in Nat /\ ws[t].visits \in Nat
    <3>1. ws[t] \in Vertex
      BY <2>1 DEF Extends, VertexOK
    <3> QED BY <2>1, <3>1, ArenaTyped DEF Link, Vertex
  <2>4. link.visits <= ws[t].visits
    BY <2>1, <2>2, <2>3
  <2>5. link.visits <= link.timesAvailable
    BY DEF LinkOK
  <2> HIDE DEF t
  <2> QED BY <1>2, <2>1, <2>2, <2>4, <2>5 DEF LinkOK, t
<1> QED BY <1>1, <1>2

LEMMA ExtendedArena ==
  ASSUME NEW vs, NEW ws, ArenaOK(vs), Extends(vs, ws),
         \A u \in DOMAIN ws \ DOMAIN vs :
           VertexOK(ws[u]) /\ DOMAIN ws[u].links = {} /\ HasParent(ws, u),
         \A u \in DOMAIN vs : \A i \in DOMAIN ws[u].links :
           LinkOK(ws, ws[u].position, ws[u].links[i])
  PROVE  ArenaOK(ws)
<1>1. ws \in Seq(Vertex) /\ Root \in DOMAIN ws
  BY DEF ArenaOK, Extends
<1>2. \A u \in DOMAIN ws : VertexOK(ws[u])
  BY DEF Extends
<1>3. \A u \in DOMAIN ws : \A i \in DOMAIN ws[u].links :
        LinkOK(ws, ws[u].position, ws[u].links[i])
  OBVIOUS
<1>4. ASSUME NEW u \in DOMAIN ws \ {Root} PROVE HasParent(ws, u)
  <2>1. CASE u \in DOMAIN vs
    <3>1. PICK v \in DOMAIN vs : \E i \in DOMAIN vs[v].links : vs[v].links[i].target = u
      BY <2>1 DEF ArenaOK, HasParent
    <3>2. PICK i \in DOMAIN vs[v].links : vs[v].links[i].target = u
      BY <3>1
    <3>3. u # None
      <4>1. u \in Nat
        BY <2>1, ArenaTyped
      <4>2. LinkOK(vs, vs[v].position, vs[v].links[i])
        BY <3>1, <3>2 DEF ArenaOK
      <4>3. vs[v].links[i].target \in Nat \cup {None}
        BY <3>1, <3>2, ArenaTyped DEF Link
      <4> QED BY <4>1, NoneIsNoNumber
    <3>4. i \in DOMAIN ws[v].links /\ ws[v].links[i].target = u
      BY <3>1, <3>2, <3>3 DEF Extends
    <3> QED BY <3>1, <3>4 DEF HasParent, Extends
  <2>2. CASE u \notin DOMAIN vs
    BY <2>2
  <2> QED BY <2>1, <2>2
<1> QED BY <1>1, <1>2, <1>3, <1>4 DEF ArenaOK

Restamped(vs, number) == [u \in DOMAIN vs |-> [vs[u] EXCEPT !.stamp = number[u]]]

(* New stamps change nothing else.                                          *)
LEMMA RestampedArena ==
  ASSUME NEW vs, ArenaOK(vs), NEW number, \A u \in DOMAIN vs : number[u] \in Nat,
         NEW ws, ws = Restamped(vs, number)
  PROVE  /\ ArenaOK(ws)
         /\ DOMAIN ws = DOMAIN vs
         /\ \A found : TableOK(vs, found) => TableOK(ws, found)
         /\ \A u \in DOMAIN vs :
              /\ ws[u].stamp = number[u]
              /\ ws[u].position = vs[u].position
              /\ ws[u].visits = vs[u].visits
              /\ ws[u].links = vs[u].links
              /\ ws[u].linksMatchChoices = vs[u].linksMatchChoices
<1>1. ASSUME NEW u \in DOMAIN vs
      PROVE  /\ ws[u] \in Vertex
             /\ ws[u].stamp = number[u]
             /\ ws[u].position = vs[u].position
             /\ ws[u].player = vs[u].player
             /\ ws[u].key = vs[u].key
             /\ ws[u].visits = vs[u].visits
             /\ ws[u].links = vs[u].links
             /\ ws[u].linksMatchChoices = vs[u].linksMatchChoices
  <2>1. vs[u] \in Vertex
    BY ArenaTyped
  <2>2. ws[u] = [vs[u] EXCEPT !.stamp = number[u]]
    BY DEF Restamped
  <2> QED BY <2>1, <2>2 DEF Vertex
<1>2. DOMAIN ws = DOMAIN vs
  BY DEF Restamped
<1>3. ws \in Seq(Vertex)
  <2>1. DOMAIN vs = 1..Len(vs) /\ Len(vs) \in Nat
    BY ArenaTyped
  <2>2. ws \in [1..Len(vs) -> Vertex]
    BY <1>1, <2>1 DEF Restamped
  <2> QED BY <2>1, <2>2, IsASeq
<1>4. Extends(vs, ws)
  <2>1. ASSUME NEW u \in DOMAIN vs PROVE VertexOK(ws[u])
    <3>1. VertexOK(vs[u])
      BY DEF ArenaOK
    <3> QED BY <1>1, <3>1 DEF VertexOK
  <2>2. \A u \in DOMAIN vs : vs[u].visits \in Nat
    BY ArenaTyped
  <2> QED BY <1>1, <1>2, <1>3, <2>1, <2>2 DEF Extends
<1>5. ASSUME NEW u \in DOMAIN vs, NEW i \in DOMAIN ws[u].links
      PROVE  LinkOK(ws, ws[u].position, ws[u].links[i])
  <2>1. LinkOK(vs, vs[u].position, vs[u].links[i]) /\ vs[u].links[i] \in Link
    BY <1>1, ArenaTyped DEF ArenaOK
  <2>2. LinkOK(ws, vs[u].position, vs[u].links[i])
    BY <1>4, <2>1, LinkKept
  <2> QED BY <1>1, <2>2
<1>6. ArenaOK(ws)
  BY <1>2, <1>4, <1>5, ExtendedArena
<1>7. \A found : TableOK(vs, found) => TableOK(ws, found)
  BY <1>1, <1>2 DEF TableOK
<1> QED BY <1>1, <1>2, <1>6, <1>7

-----------------------------------------------------------------------------

(* Link i of a vertex leads to a successor.                                 *)
Retargeted(vertex, i, target) ==
  [vertex EXCEPT !.links[i] = [vertex.links[i] EXCEPT !.target = target]]

LEMMA RetargetedVertex ==
  ASSUME NEW vertex, VertexOK(vertex), NEW i \in DOMAIN vertex.links, NEW target \in Nat
  PROVE  LET changed == Retargeted(vertex, i, target)
         IN  /\ VertexOK(changed)
             /\ changed.position = vertex.position
             /\ changed.player = vertex.player
             /\ changed.key = vertex.key
             /\ changed.visits = vertex.visits
             /\ changed.stamp = vertex.stamp
             /\ SameChoices(vertex, changed)
             /\ DOMAIN changed.links = DOMAIN vertex.links
             /\ \A j \in DOMAIN vertex.links : j # i => changed.links[j] = vertex.links[j]
             /\ changed.links[i].choice = vertex.links[i].choice
             /\ changed.links[i].target = target
             /\ changed.links[i].visits = vertex.links[i].visits
             /\ changed.links[i].timesAvailable = vertex.links[i].timesAvailable
<1> DEFINE link    == [vertex.links[i] EXCEPT !.target = target]
           links   == [vertex.links EXCEPT ![i] = link]
           changed == Retargeted(vertex, i, target)
<1>1. /\ vertex \in Vertex /\ vertex.links \in Seq(Link)
      /\ vertex.links[i] \in Link
  <2>1. vertex \in Vertex /\ vertex.links \in Seq(Link)
    BY DEF VertexOK, Vertex
  <2> QED BY <2>1, ElementOfSeq, LenProperties
<1>2. /\ link \in Link
      /\ link.choice = vertex.links[i].choice
      /\ link.target = target
      /\ link.visits = vertex.links[i].visits
      /\ link.timesAvailable = vertex.links[i].timesAvailable
  BY <1>1 DEF Link
<1> HIDE DEF link
<1>3. /\ links \in Seq(Link)
      /\ DOMAIN links = DOMAIN vertex.links
      /\ links[i] = link
      /\ \A j \in DOMAIN vertex.links : j # i => links[j] = vertex.links[j]
  BY <1>1, <1>2
<1>4. changed = [vertex EXCEPT !.links = links]
  BY <1>1 DEF Retargeted, link, Vertex
<1> HIDE DEF links, changed
<1>5. /\ changed \in Vertex /\ changed.links = links
      /\ changed.position = vertex.position
      /\ changed.player = vertex.player
      /\ changed.key = vertex.key
      /\ changed.visits = vertex.visits
      /\ changed.stamp = vertex.stamp
      /\ changed.linksMatchChoices = vertex.linksMatchChoices
  BY <1>1, <1>3, <1>4 DEF Vertex
<1>6. \A j \in DOMAIN links : links[j].choice = vertex.links[j].choice
  BY <1>2, <1>3
<1>7. VertexOK(changed)
  BY <1>3, <1>5, <1>6 DEF VertexOK
<1>8. SameChoices(vertex, changed)
  BY <1>3, <1>5, <1>6 DEF SameChoices
<1> QED BY <1>2, <1>3, <1>5, <1>7, <1>8 DEF changed

(* Where a link leads, and what the arena and the table are once it does.   *)
LEMMA SuccessorKnown ==
  ASSUME GraphSearchAssumption, ArenaOK(vertices), TableOK(vertices, table),
         NEW from \in Position, NEW choice \in ChoicesInto(from),
         NEW link \in Link, link.choice = choice, LinkOK(vertices, from, link),
         NEW target \in Successor(link, Move[<<from, choice>>], PlayerAt[from])
  PROVE  /\ target \in DOMAIN vertices \/ target = Len(vertices) + 1
         /\ link.target # None => target = link.target
         /\ target # Root
         /\ target \in DOMAIN vertices =>
              /\ vertices[target].position = Move[<<from, choice>>]
              /\ vertices[target].player = PlayerAt[from]
         /\ target \notin DOMAIN vertices =>
              \A v \in table :
                ~ /\ vertices[v].key = Key(Move[<<from, choice>>])
                  /\ vertices[v].player = PlayerAt[from]
                  /\ vertices[v].key # None
<1> DEFINE position == Move[<<from, choice>>]
<1>1. position \in Position /\ position # None
  BY DEF GraphSearchAssumption, ChoicesInto, Range
<1>2. /\ DOMAIN vertices = 1..Len(vertices) /\ Len(vertices) \in Nat
      /\ Len(vertices) >= 1
  BY ArenaTyped DEF ArenaOK, Root
<1>3. CASE link.target # None
  <2>1. target = link.target
    BY <1>3 DEF Successor
  <2> QED BY <1>3, <2>1 DEF LinkOK
<1>4. CASE link.target = None /\ Key(position) # None /\ Lookup(Key(position), PlayerAt[from]) # {}
  <2>1. target \in Lookup(Key(position), PlayerAt[from])
    BY <1>4 DEF Successor
  <2>2. /\ target \in table
        /\ vertices[target].key = Key(position)
        /\ vertices[target].player = PlayerAt[from]
    BY <2>1 DEF Lookup
  <2>3. target \in DOMAIN vertices \ {Root}
    BY <2>2 DEF TableOK
  <2>4. Key(position) = position
    BY <1>4 DEF Key
  <2>5. vertices[target].key \in {None, vertices[target].position}
    BY <2>3 DEF ArenaOK, VertexOK
  <2> QED BY <1>1, <1>4, <2>2, <2>3, <2>4, <2>5
<1>5. CASE /\ link.target = None
           /\ Key(position) = None \/ Lookup(Key(position), PlayerAt[from]) = {}
  <2>1. target = Len(vertices) + 1
    BY <1>5 DEF Successor
  <2>2. target \notin DOMAIN vertices /\ target # Root
    BY <1>2, <2>1 DEF Root
  <2>3. \A v \in table :
          ~ /\ vertices[v].key = Key(position)
            /\ vertices[v].player = PlayerAt[from]
            /\ vertices[v].key # None
    BY <1>5 DEF Lookup
  <2> QED BY <1>5, <2>1, <2>2, <2>3
<1> QED BY <1>3, <1>4, <1>5

TableAfter(target, position) ==
  IF target > Len(vertices) /\ Key(position) # None THEN table \cup {target} ELSE table

(* The choice of a link at a position, its successor, and the arena then.    *)
Chosen(from, v, offered, vertex, i, position, target, arena) ==
  /\ from = vertices[v].position
  /\ EnumeratedAs(vertices[v], vertex, offered)
  /\ i \in DOMAIN vertex.links
  /\ position = Move[<<from, vertex.links[i].choice>>]
  /\ target \in Successor(vertex.links[i], position, PlayerAt[from])
  /\ arena = Linked(v, vertex, i, target, NewVertex(position, PlayerAt[from], Key(position)))

LinkedAs(v, vertex, i, position, target, arena) ==
  /\ ArenaOK(arena)
  /\ TableOK(arena, TableAfter(target, position))
  /\ DOMAIN arena = DOMAIN vertices \cup {target}
  /\ target # Root
  /\ arena[target].position = position
  /\ target \notin DOMAIN vertices => arena[target].stamp = 0
  /\ \A u \in DOMAIN vertices : arena[u].stamp = vertices[u].stamp
  /\ \A u \in DOMAIN vertices : arena[u].position = vertices[u].position
  /\ \A u \in DOMAIN vertices \ {v} : arena[u] = vertices[u]
  /\ i \in DOMAIN arena[v].links
  /\ arena[v].links[i].target = target
  /\ arena[v].links[i].visits = vertex.links[i].visits
  /\ arena[v].links[i].timesAvailable = vertex.links[i].timesAvailable
  /\ SameChoices(vertex, arena[v])
  /\ target \notin DOMAIN vertices => ~arena[target].linksMatchChoices

LEMMA LinkedArena ==
  ASSUME GraphSearchAssumption, ArenaOK(vertices), TableOK(vertices, table),
         NEW v \in DOMAIN vertices, NEW from, NEW offered, NEW vertex, NEW i,
         NEW position, NEW target, NEW arena,
         Chosen(from, v, offered, vertex, i, position, target, arena)
  PROVE  LinkedAs(v, vertex, i, position, target, arena)
<1> DEFINE changed   == Retargeted(vertex, i, target)
           successor == NewVertex(position, PlayerAt[from], Key(position))
           linked    == [vertices EXCEPT ![v] = changed]
           n         == Len(vertices)
           choice    == vertex.links[i].choice
<1>1. /\ DOMAIN vertices = 1..n /\ n \in Nat
      /\ \A u \in DOMAIN vertices : vertices[u] \in Vertex /\ vertices[u].visits \in Nat
      /\ from \in Position /\ from = vertices[v].position
      /\ i \in DOMAIN vertex.links
  BY ArenaTyped DEF Chosen
<1>2. /\ VertexOK(vertex)
      /\ vertex.position = from
      /\ vertex.player = vertices[v].player
      /\ vertex.key = vertices[v].key
      /\ vertex.visits = vertices[v].visits
      /\ vertex.stamp = vertices[v].stamp
  BY DEF EnumeratedAs, Chosen
<1>3. /\ \A j \in DOMAIN vertex.links : vertex.links[j] \in Link
      /\ \A j \in DOMAIN vertices[v].links : vertices[v].links[j] \in Link
  <2>1. vertex.links \in Seq(Link)
    BY <1>2 DEF VertexOK, Vertex
  <2> QED BY <2>1, ArenaTyped, ElementOfSeq, LenProperties
(* The links are those of before, or new ones, which lead nowhere.          *)
<1>4. ASSUME NEW j \in DOMAIN vertex.links PROVE LinkOK(vertices, from, vertex.links[j])
  <2>1. CASE j \in DOMAIN vertices[v].links
    <3> DEFINE old == vertices[v].links[j]
               now == vertex.links[j]
    <3>1. LinkOK(vertices, from, old) /\ old \in Link /\ now \in Link
      BY <1>1, <1>3, <2>1 DEF ArenaOK
    <3>2. /\ now.choice = old.choice /\ now.target = old.target /\ now.visits = old.visits
          /\ now.timesAvailable >= old.timesAvailable
      BY <2>1 DEF EnumeratedAs, Chosen
    <3>3. now.visits \in Nat /\ now.timesAvailable \in Nat /\ old.timesAvailable \in Nat
      BY <3>1 DEF Link
    <3> HIDE DEF old, now
    <3>4. LinkOK(vertices, from, now)
      BY <3>1, <3>2, <3>3 DEF LinkOK
    <3> QED BY <3>4 DEF now
  <2>2. CASE j \notin DOMAIN vertices[v].links
    <3>1. /\ vertex.links[j].target = None
          /\ vertex.links[j].visits = 0
          /\ vertex.links[j].timesAvailable = 1
      BY <2>2 DEF EnumeratedAs, Chosen
    <3> QED BY <3>1 DEF LinkOK
  <2> QED BY <2>1, <2>2
<1>5. choice \in ChoicesInto(from) /\ position = Move[<<from, choice>>]
  BY <1>1, <1>2 DEF VertexOK, Chosen
<1>6. position \in Position /\ Key(position) \in {None, position}
      /\ PlayerAt[from] \in Range(PlayerAt)
  BY <1>1, <1>5 DEF GraphSearchAssumption, ChoicesInto, Range, Key
<1>7. /\ target \in DOMAIN vertices \/ target = n + 1
      /\ vertex.links[i].target # None => target = vertex.links[i].target
      /\ target # Root
      /\ target \in DOMAIN vertices =>
           vertices[target].position = position /\ vertices[target].player = PlayerAt[from]
      /\ target \notin DOMAIN vertices =>
           \A u \in table :
             ~ /\ vertices[u].key = Key(position)
               /\ vertices[u].player = PlayerAt[from]
               /\ vertices[u].key # None
  <2> DEFINE link == vertex.links[i]
  <2>1. /\ link \in Link /\ LinkOK(vertices, from, link) /\ link.choice = choice
        /\ target \in Successor(link, Move[<<from, choice>>], PlayerAt[from])
    BY <1>1, <1>3, <1>4 DEF Chosen
  <2> HIDE DEF link, choice
  <2>2. /\ target \in DOMAIN vertices \/ target = Len(vertices) + 1
        /\ link.target # None => target = link.target
        /\ target # Root
        /\ target \in DOMAIN vertices =>
             /\ vertices[target].position = Move[<<from, choice>>]
             /\ vertices[target].player = PlayerAt[from]
        /\ target \notin DOMAIN vertices =>
             \A u \in table :
               ~ /\ vertices[u].key = Key(Move[<<from, choice>>])
                 /\ vertices[u].player = PlayerAt[from]
                 /\ vertices[u].key # None
    <3>1. from \in Position /\ choice \in ChoicesInto(from)
          /\ ArenaOK(vertices) /\ TableOK(vertices, table)
      BY <1>1, <1>5
    <3> QED BY <2>1, <3>1, SuccessorKnown
  <2> QED BY <1>5, <2>2 DEF link
<1>8. target \in Nat
  BY <1>1, <1>7
<1>9. /\ VertexOK(changed)
      /\ changed.position = vertex.position
      /\ changed.player = vertex.player
      /\ changed.key = vertex.key
      /\ changed.visits = vertex.visits
      /\ changed.stamp = vertex.stamp
      /\ SameChoices(vertex, changed)
      /\ DOMAIN changed.links = DOMAIN vertex.links
      /\ \A j \in DOMAIN vertex.links : j # i => changed.links[j] = vertex.links[j]
      /\ changed.links[i].choice = vertex.links[i].choice
      /\ changed.links[i].target = target
      /\ changed.links[i].visits = vertex.links[i].visits
      /\ changed.links[i].timesAvailable = vertex.links[i].timesAvailable
  BY <1>1, <1>2, <1>8, RetargetedVertex
<1>10. /\ VertexOK(successor)
       /\ successor.position = position /\ successor.player = PlayerAt[from]
       /\ successor.key = Key(position) /\ successor.visits = 0 /\ successor.stamp = 0
       /\ DOMAIN successor.links = {} /\ ~successor.linksMatchChoices
  <2>1. VertexOK(successor)
    BY <1>6, NewVertexOK
  <2> QED BY <2>1 DEF NewVertex
<1>11. arena = IF target > n THEN Append(linked, successor) ELSE linked
  BY DEF Linked, Retargeted, Chosen
<1> HIDE DEF changed, successor, choice
<1>12. linked \in Seq(Vertex) /\ Len(linked) = n
  <2>1. vertices \in Seq(Vertex) /\ changed \in Vertex
    BY <1>9 DEF ArenaOK, VertexOK
  <2> QED BY <2>1
<1>13. /\ arena \in Seq(Vertex)
       /\ DOMAIN arena = DOMAIN vertices \cup {target}
       /\ arena[v] = changed
       /\ \A u \in DOMAIN vertices \ {v} : arena[u] = vertices[u]
       /\ target \notin DOMAIN vertices => arena[target] = successor
  <2>1. CASE target \in DOMAIN vertices
    <3>1. arena = linked
      <4>1. ~ (target > n)
        BY <1>1, <2>1
      <4> HIDE DEF linked, n
      <4> QED BY <1>11, <4>1
    <3>2. DOMAIN linked = DOMAIN vertices
      OBVIOUS
    <3> QED BY <1>12, <2>1, <3>1, <3>2
  <2>2. CASE target \notin DOMAIN vertices
    <3>1. arena = Append(linked, successor) /\ target = n + 1
      BY <1>1, <1>7, <1>11, <2>2
    <3>2. successor \in Vertex
      BY <1>10 DEF VertexOK
    <3>3. \A u \in 1..n : linked[u] = IF u = v THEN changed ELSE vertices[u]
      BY <1>1
    <3>n. n \in Nat
      BY <1>1
    <3> HIDE DEF linked, n
    <3>4. /\ Append(linked, successor) \in Seq(Vertex)
          /\ Len(Append(linked, successor)) = n + 1
          /\ \A u \in 1..n : Append(linked, successor)[u] = linked[u]
          /\ Append(linked, successor)[n + 1] = successor
      BY <1>12, <3>2, <3>n, AppendProperties
    <3>5. DOMAIN arena = 1..(n + 1)
      BY <3>1, <3>4, LenProperties
    <3>6. v \in 1..n /\ DOMAIN vertices = 1..n
      BY <1>1
    <3>7. 1..(n + 1) = (1..n) \cup {n + 1}
      BY <3>n
    <3> QED BY <3>1, <3>3, <3>4, <3>5, <3>6, <3>7
  <2> QED BY <2>1, <2>2
<1> HIDE DEF linked
<1>t. /\ arena[target].position = position
      /\ arena[target].player = PlayerAt[from]
      /\ target \notin DOMAIN vertices => arena[target].stamp = 0
  <2>1. CASE target \notin DOMAIN vertices
    BY <1>10, <1>13, <2>1
  <2>2. CASE target \in DOMAIN vertices /\ target # v
    <3>1. arena[target] = vertices[target]
      BY <1>13, <2>2
    <3> QED BY <1>7, <2>2, <3>1
  <2>3. CASE target = v
    <3>1. arena[target].position = vertices[v].position /\ arena[target].player = vertices[v].player
      BY <1>1, <1>2, <1>9, <1>13, <2>3
    <3> QED BY <1>7, <2>3, <3>1
  <2> QED BY <2>1, <2>2, <2>3
<1>14. Extends(vertices, arena)
  <2>1. \A u \in DOMAIN vertices : VertexOK(arena[u])
    BY <1>9, <1>13 DEF ArenaOK
  <2>2. \A u \in DOMAIN vertices :
          /\ arena[u].position = vertices[u].position
          /\ arena[u].player = vertices[u].player
          /\ vertices[u].visits <= arena[u].visits
    BY <1>1, <1>2, <1>9, <1>13
  <2>3. ASSUME NEW u \in DOMAIN vertices, NEW j \in DOMAIN vertices[u].links
        PROVE  /\ j \in DOMAIN arena[u].links
               /\ vertices[u].links[j].target # None =>
                    arena[u].links[j].target = vertices[u].links[j].target
    <3>1. CASE u # v
      BY <1>13, <3>1
    <3>2. CASE u = v
      <4>1. j \in DOMAIN vertex.links /\ vertex.links[j].target = vertices[v].links[j].target
        BY <3>2 DEF EnumeratedAs, Chosen
      <4> QED BY <1>7, <1>9, <1>13, <3>2, <4>1
    <3> QED BY <3>1, <3>2
  <2> QED BY <1>13, <2>1, <2>2, <2>3 DEF Extends
<1>15. \A u \in DOMAIN arena \ DOMAIN vertices :
         VertexOK(arena[u]) /\ DOMAIN arena[u].links = {} /\ HasParent(arena, u)
  <2>1. HasParent(arena, target)
    BY <1>1, <1>9, <1>13 DEF HasParent
  <2> QED BY <1>10, <1>13, <2>1
<1>16. ASSUME NEW u \in DOMAIN vertices, NEW j \in DOMAIN arena[u].links
       PROVE  LinkOK(arena, arena[u].position, arena[u].links[j])
  <2>1. CASE u # v
    <3>1. LinkOK(vertices, vertices[u].position, vertices[u].links[j]) /\ vertices[u].links[j] \in Link
      BY <1>13, <2>1, ArenaTyped DEF ArenaOK
    <3>2. LinkOK(arena, vertices[u].position, vertices[u].links[j])
      BY <1>14, <3>1, LinkKept
    <3> QED BY <1>13, <2>1, <3>2
  <2>2. CASE u = v /\ j # i
    <3>1. LinkOK(vertices, from, vertex.links[j]) /\ vertex.links[j] \in Link
      BY <1>3, <1>4, <1>9, <1>13, <2>2
    <3>2. LinkOK(arena, from, vertex.links[j])
      BY <1>14, <3>1, LinkKept
    <3> QED BY <1>2, <1>9, <1>13, <2>2, <3>2
  <2>3. CASE u = v /\ j = i
    <3> DEFINE link == vertex.links[i]
               now  == arena[v].links[i]
    <3>1. LinkOK(vertices, from, link) /\ link \in Link
      BY <1>1, <1>3, <1>4
    <3>2. LinkOK(arena, from, link)
      BY <1>14, <3>1, LinkKept
    <3>3. /\ now.choice = choice /\ now.target = target
          /\ now.visits = link.visits /\ now.timesAvailable = link.timesAvailable
      BY <1>9, <1>13 DEF choice
    <3>4. /\ target \in DOMAIN arena \ {Root}
          /\ arena[target].position = position
          /\ arena[target].player = PlayerAt[from]
      BY <1>7, <1>13, <1>t
    <3>5. link.visits <= arena[target].visits
      <4>1. CASE link.target # None
        BY <1>7, <3>2, <4>1 DEF LinkOK
      <4>2. CASE link.target = None
        <5>1. link.visits = 0
          BY <3>1, <4>2 DEF LinkOK
        <5>2. arena[target].visits \in Nat
          <6>1. arena[target] \in Vertex
            BY <1>13, <3>4, ElementOfSeq, LenProperties
          <6> QED BY <6>1 DEF Vertex
        <5> QED BY <5>1, <5>2
      <4> QED BY <4>1, <4>2
    <3>6. link.visits <= link.timesAvailable
      BY <3>1 DEF LinkOK
    <3>7. target # None
      BY <1>8, NoneIsNoNumber
    <3>8. arena[u].position = from /\ arena[u].links[j] = now
      BY <1>2, <1>9, <1>13, <2>3
    <3> HIDE DEF now, link
    <3>9. LinkOK(arena, from, now)
      BY <1>5, <3>3, <3>4, <3>5, <3>6, <3>7 DEF LinkOK
    <3> QED BY <3>8, <3>9
  <2> QED BY <2>1, <2>2, <2>3
<1>17. ArenaOK(arena)
  BY <1>14, <1>15, <1>16, ExtendedArena
<1>18. TableOK(arena, TableAfter(target, position))
  <2>1. \A u \in DOMAIN vertices :
          arena[u].key = vertices[u].key /\ arena[u].player = vertices[u].player
    BY <1>2, <1>9, <1>13
  <2>2. CASE target \in DOMAIN vertices
    <3>1. TableAfter(target, position) = table /\ DOMAIN arena = DOMAIN vertices
      BY <1>1, <1>13, <2>2 DEF TableAfter
    <3> QED BY <2>1, <3>1 DEF TableOK
  <2>3. CASE target \notin DOMAIN vertices
    <3>1. target > Len(vertices)
      BY <1>1, <1>7, <2>3
    <3>2. arena[target].key = Key(position) /\ arena[target].player = PlayerAt[from]
      BY <1>10, <1>13, <2>3
    <3>3. TableAfter(target, position) = {u \in DOMAIN arena \ {Root} : arena[u].key # None}
      BY <1>7, <1>13, <2>1, <2>3, <3>1, <3>2 DEF TableAfter, TableOK
    <3>4. \A u \in TableAfter(target, position) : u \in table \/ u = target
      BY DEF TableAfter
    <3>5. \A u \in table : /\ u \in DOMAIN vertices /\ vertices[u].key # None
                           /\ ~ (arena[u].key = Key(position) /\ arena[u].player = PlayerAt[from])
      BY <1>7, <2>1, <2>3 DEF TableOK
    <3>6. \A u, w \in table :
            arena[u].key = arena[w].key /\ arena[u].player = arena[w].player => u = w
      BY <2>1, <3>5 DEF TableOK
    <3>7. \A u, w \in TableAfter(target, position) :
            arena[u].key = arena[w].key /\ arena[u].player = arena[w].player => u = w
      BY <3>2, <3>4, <3>5, <3>6
    <3> QED BY <3>3, <3>7 DEF TableOK
  <2> QED BY <2>2, <2>3
<1>19. /\ arena[target].position = position
       /\ target \notin DOMAIN vertices => arena[target].stamp = 0
       /\ \A u \in DOMAIN vertices : arena[u].stamp = vertices[u].stamp
       /\ \A u \in DOMAIN vertices : arena[u].position = vertices[u].position
  BY <1>1, <1>2, <1>9, <1>13, <1>t
<1>20. /\ SameChoices(vertex, arena[v])
       /\ target \notin DOMAIN vertices => ~arena[target].linksMatchChoices
  <2>1. arena[v] = changed /\ SameChoices(vertex, changed)
    BY <1>9, <1>13
  <2> QED BY <1>10, <1>13, <2>1
<1>21. /\ i \in DOMAIN arena[v].links
       /\ arena[v].links[i].target = target
       /\ arena[v].links[i].visits = vertex.links[i].visits
       /\ arena[v].links[i].timesAvailable = vertex.links[i].timesAvailable
  BY <1>1, <1>9, <1>13
<1> QED BY <1>7, <1>13, <1>17, <1>18, <1>19, <1>20, <1>21 DEF LinkedAs

-----------------------------------------------------------------------------

(* During an iteration: the path is marked, and each step was there to be   *)
(* taken one more time and led to a vertex of the path.                     *)
PathOK ==
  /\ path \in Seq(DOMAIN vertices) /\ path # <<>>
  /\ \A d, e \in DOMAIN path : path[d] = path[e] => d = e
  /\ \A v \in DOMAIN vertices : vertices[v].stamp = stamp <=> \E d \in DOMAIN path : path[d] = v
  /\ steps \in Seq(Nat)
  /\ Len(steps) \in {Len(path) - 1, Len(path)}
  /\ \A d \in DOMAIN steps :
       LET links == vertices[path[d]].links
       IN  /\ steps[d] \in DOMAIN links
           /\ links[steps[d]].visits < links[steps[d]].timesAvailable
           /\ \E e \in DOMAIN path : links[steps[d]].target = path[e]

StampsOK ==
  /\ stamp \in 1..MaxStamp
  /\ \A v \in DOMAIN vertices : vertices[v].stamp <= stamp

Inv ==
  /\ ArenaOK(vertices)
  /\ TableOK(vertices, table)
  /\ vertices[Root].position = here
  /\ offers \subseteq ChoicesInto(here)
  /\ KnownOK(vertices, offers)
  /\ StampsOK
  /\ pc \in {"idle", "descend", "backup"}
  /\ pc # "idle" => PathOK
  /\ pc = "descend" => Len(steps) = Len(path) - 1 /\ state = vertices[Last(path)].position

LEMMA InitInv == Init => Inv
<1> SUFFICES ASSUME Init PROVE Inv
  OBVIOUS
<1> USE GraphSearchAssumption
<1> DEFINE vertex == NewVertex(Start, PlayerAt[Start], None)
<1>1. VertexOK(vertex) /\ vertex.key = None /\ vertex.stamp = 0
      /\ vertex.position = Start /\ DOMAIN vertex.links = {} /\ ~vertex.linksMatchChoices
  <2>1. Start \in Position /\ PlayerAt[Start] \in Range(PlayerAt)
    BY DEF GraphSearchAssumption, Range
  <2>2. VertexOK(vertex)
    BY <2>1, NewVertexOK
  <2> QED BY <2>2 DEF NewVertex
<1> HIDE DEF vertex
<1>2. vertices = <<vertex>> /\ table = {} /\ stamp = 1 /\ pc = "idle" /\ here = Start
  BY DEF Init, vertex
<1>3. vertices \in Seq(Vertex) /\ DOMAIN vertices = {1} /\ vertices[1] = vertex
  BY <1>1, <1>2 DEF VertexOK
<1>4. ArenaOK(vertices)
  BY <1>1, <1>3 DEF ArenaOK, Root
<1>5. TableOK(vertices, table)
  BY <1>2, <1>3 DEF TableOK, Root
<1>6. StampsOK
  BY <1>1, <1>2, <1>3 DEF StampsOK, GraphSearchAssumption
<1>7. offers \subseteq ChoicesInto(here)
  BY DEF Init, Offers
<1>8. KnownOK(vertices, offers)
  BY <1>1, <1>3 DEF KnownOK, Knows
<1> QED BY <1>1, <1>2, <1>3, <1>4, <1>5, <1>6, <1>7, <1>8 DEF Inv, Root

LEMMA BeginStep == Inv /\ BeginIteration => Inv'
<1> SUFFICES ASSUME Inv, BeginIteration PROVE Inv'
  OBVIOUS
<1> DEFINE number == [u \in DOMAIN vertices |->
                        IF u = Root THEN stamp'
                        ELSE IF stamp = MaxStamp THEN 0 ELSE vertices[u].stamp]
<1>1. /\ ArenaOK(vertices) /\ TableOK(vertices, table) /\ Root \in DOMAIN vertices
      /\ vertices[Root].position = here
      /\ offers \subseteq ChoicesInto(here) /\ KnownOK(vertices, offers)
      /\ stamp \in 1..MaxStamp /\ MaxStamp \in Nat
      /\ \A u \in DOMAIN vertices : vertices[u].stamp <= stamp /\ vertices[u].stamp \in Nat
      /\ \A u \in DOMAIN vertices : vertices[u] \in Vertex
  BY GraphSearchAssumption, ArenaTyped DEF Inv, StampsOK, ArenaOK, GraphSearchAssumption
<1>2. /\ stamp' = IF stamp = MaxStamp THEN 1 ELSE stamp + 1
      /\ vertices' = [StampsCleared(stamp) EXCEPT ![Root].stamp = stamp']
      /\ path' = <<Root>> /\ steps' = <<>> /\ state' = here /\ here' = here
      /\ offers' = offers /\ table' = table /\ pc' = "descend"
  BY DEF BeginIteration, game
<1>3. stamp' \in 1..MaxStamp /\ stamp' \in Nat
  BY <1>1, <1>2
<1>4. \A u \in DOMAIN vertices : number[u] \in Nat
  BY <1>1, <1>3
<1>5. vertices' = Restamped(vertices, number)
  <2>0. SUFFICES vertices' = [u \in DOMAIN vertices |-> [vertices[u] EXCEPT !.stamp = number[u]]]
    BY DEF Restamped
  <2>1. CASE stamp = MaxStamp
    <3>1. \A u \in DOMAIN vertices :
            StampsCleared(stamp)[u] = [vertices[u] EXCEPT !.stamp = 0]
      BY <2>1 DEF StampsCleared
    <3>2. DOMAIN StampsCleared(stamp) = DOMAIN vertices
      BY <2>1 DEF StampsCleared
    <3>3. vertices' = [u \in DOMAIN vertices |->
                         IF u = Root THEN [StampsCleared(stamp)[Root] EXCEPT !.stamp = stamp']
                         ELSE StampsCleared(stamp)[u]]
      BY <1>2, <2>1, <3>2 DEF StampsCleared
    <3>4. [StampsCleared(stamp)[Root] EXCEPT !.stamp = stamp']
            = [vertices[Root] EXCEPT !.stamp = stamp']
      BY <1>1, <3>1 DEF Vertex
    <3>5. \A u \in DOMAIN vertices :
            (IF u = Root THEN [StampsCleared(stamp)[Root] EXCEPT !.stamp = stamp']
             ELSE StampsCleared(stamp)[u])
            = [vertices[u] EXCEPT !.stamp = number[u]]
      BY <2>1, <3>1, <3>4
    <3> HIDE DEF number
    <3> QED BY <3>3, <3>5
  <2>2. CASE stamp # MaxStamp
    <3>1. vertices' = [vertices EXCEPT ![Root].stamp = stamp']
      BY <1>2, <2>2 DEF StampsCleared
    <3>2. vertices' = [u \in DOMAIN vertices |->
                         IF u = Root THEN [vertices[Root] EXCEPT !.stamp = stamp']
                         ELSE vertices[u]]
      BY <1>1, <3>1, ArenaTyped
    <3>3. \A u \in DOMAIN vertices :
            [vertices[u] EXCEPT !.stamp = vertices[u].stamp] = vertices[u]
      BY <1>1 DEF Vertex
    <3>4. \A u \in DOMAIN vertices :
            (IF u = Root THEN [vertices[Root] EXCEPT !.stamp = stamp'] ELSE vertices[u])
            = [vertices[u] EXCEPT !.stamp = number[u]]
      BY <2>2, <3>3
    <3> HIDE DEF number
    <3> QED BY <3>2, <3>4
  <2> QED BY <2>1, <2>2
<1>6. \A u \in DOMAIN vertices : u # Root => number[u] < stamp'
  BY <1>1, <1>2, <1>3
<1>r. number[Root] = stamp'
  BY <1>1
<1> HIDE DEF number
<1>7. /\ ArenaOK(vertices')
      /\ \A found : TableOK(vertices, found) => TableOK(vertices', found)
      /\ \A u \in DOMAIN vertices :
           /\ vertices'[u].stamp = number[u]
           /\ vertices'[u].position = vertices[u].position
           /\ vertices'[u].links = vertices[u].links
           /\ vertices'[u].linksMatchChoices = vertices[u].linksMatchChoices
  BY <1>1, <1>4, <1>5, RestampedArena
<1>8. DOMAIN vertices' = DOMAIN vertices
  BY <1>5 DEF Restamped
<1>9. StampsOK'
  BY <1>1, <1>3, <1>4, <1>6, <1>7, <1>8, <1>r DEF StampsOK
<1>10. PathOK'
  <2>1. path' \in Seq(DOMAIN vertices') /\ path' # <<>> /\ DOMAIN path' = {1} /\ path'[1] = Root
        /\ Len(path') = 1
    BY <1>1, <1>2, <1>8
  <2>2. steps' \in Seq(Nat) /\ Len(steps') = 0 /\ DOMAIN steps' = {}
    BY <1>2
  <2>3. ASSUME NEW u \in DOMAIN vertices'
        PROVE  vertices'[u].stamp = stamp' <=> \E d \in DOMAIN path' : path'[d] = u
    <3>1. vertices'[u].stamp = stamp' <=> u = Root
      BY <1>3, <1>4, <1>6, <1>7, <1>8, <1>r
    <3> QED BY <2>1, <3>1
  <2> QED BY <2>1, <2>2, <2>3 DEF PathOK
<1>11. Len(steps') = Len(path') - 1 /\ Last(path') = Root
  BY <1>2 DEF Last
<1>12. vertices'[Root].position = here
  BY <1>1, <1>7
<1>13. KnownOK(vertices', offers')
  <2>1. \A u \in DOMAIN vertices' :
          u \in DOMAIN vertices /\ SameChoices(vertices[u], vertices'[u])
    BY <1>7, <1>8 DEF SameChoices
  <2>2. KnownOK(vertices', offers)
    BY <1>1, <1>7, <2>1, KnownKept
  <2> QED BY <1>2, <2>2
<1> QED BY <1>1, <1>2, <1>7, <1>9, <1>10, <1>11, <1>12, <1>13 DEF Inv


(* The rest of the level, once the arena is linked.                         *)
Entering(i, position, target, arena) ==
  /\ state' = position
  /\ steps' = Append(steps, i)
  /\ table' = TableAfter(target, position)
  /\ IF Repeats(arena[target])
     THEN /\ vertices' = arena
          /\ path' = path
          /\ pc' = "backup"
     ELSE /\ vertices' = [arena EXCEPT ![target].stamp = stamp]
          /\ path' = Append(path, target)
          /\ pc' = IF arena[target].visits = 0 THEN "backup" ELSE "descend"

LEMMA LastOfPath ==
  ASSUME Inv, pc # "idle"
  PROVE  /\ Len(path) \in Nat \ {0} /\ DOMAIN path = 1..Len(path)
         /\ Len(path) \in DOMAIN path /\ Last(path) = path[Len(path)]
         /\ \A d \in DOMAIN path : path[d] \in DOMAIN vertices
         /\ Last(path) \in DOMAIN vertices
<1>1. path \in Seq(DOMAIN vertices) /\ path # <<>>
  BY DEF Inv, PathOK
<1>2. Len(path) \in Nat \ {0} /\ DOMAIN path = 1..Len(path) /\ Len(path) \in DOMAIN path
  BY <1>1, EmptySeq, LenProperties
<1>3. \A d \in DOMAIN path : path[d] \in DOMAIN vertices
  BY <1>1, <1>2, ElementOfSeq
<1> QED BY <1>2, <1>3 DEF Last

LEMMA DescendChooses ==
  ASSUME Inv, Descend
  PROVE  \E offered, vertex, i, position, target, arena :
           /\ Chosen(state, Last(path), offered, vertex, i, position, target, arena)
           /\ vertex.links[i].visits < vertex.links[i].timesAvailable
           /\ Knows(vertex, IF Last(path) = Root THEN offers ELSE ChoicesInto(state))
           /\ Entering(i, position, target, arena)
<1> DEFINE v == Last(path)
<1>1. /\ v \in DOMAIN vertices /\ state = vertices[v].position
      /\ ArenaOK(vertices) /\ VertexOK(vertices[v])
      /\ v = Root => offers \subseteq ChoicesInto(state)
      /\ Knows(vertices[v], IF v = Root THEN offers ELSE ChoicesInto(state))
  BY LastOfPath DEF Descend, Inv, ArenaOK, KnownOK
<1>2. PICK offered \in Offered(v) : \E vertex \in Enumerated(v, offered) :
         LET available == {i \in DOMAIN vertex.links :
                             \/ vertices[v].linksMatchChoices
                             \/ vertex.links[i].choice \in offered}
         IN  \E i \in Selectable(vertex.links, available) :
               Take(v, vertex, i, Move[<<state, vertex.links[i].choice>>])
  BY DEF Descend
<1>3. PICK vertex \in Enumerated(v, offered) :
         LET available == {i \in DOMAIN vertex.links :
                             \/ vertices[v].linksMatchChoices
                             \/ vertex.links[i].choice \in offered}
         IN  \E i \in Selectable(vertex.links, available) :
               Take(v, vertex, i, Move[<<state, vertex.links[i].choice>>])
  BY <1>2
<1> DEFINE available == {i \in DOMAIN vertex.links :
                           \/ vertices[v].linksMatchChoices
                           \/ vertex.links[i].choice \in offered}
<1>4. PICK i \in Selectable(vertex.links, available) :
         Take(v, vertex, i, Move[<<state, vertex.links[i].choice>>])
  BY <1>3
<1> DEFINE position == Move[<<state, vertex.links[i].choice>>]
<1>5. PICK target \in Successor(vertex.links[i], position, PlayerAt[state]) :
         LET successor == NewVertex(position, PlayerAt[state], Key(position))
             arena     == Linked(v, vertex, i, target, successor)
         IN  Entering(i, position, target, arena)
  <2> HIDE DEF available
  <2> QED BY <1>4 DEF Take, Entering, TableAfter
<1> DEFINE arena == Linked(v, vertex, i, target,
                           NewVertex(position, PlayerAt[state], Key(position)))
<1>6. /\ EnumeratedAs(vertices[v], vertex, offered)
      /\ Knows(vertex, IF v = Root THEN offers ELSE ChoicesInto(state))
  <2> DEFINE choices == IF v = Root THEN offers ELSE ChoicesInto(state)
  <2> HIDE DEF v
  <2>1. CASE vertices[v].linksMatchChoices
    <3>1. EnumeratedAs(vertices[v], vertex, offered) /\ SameChoices(vertices[v], vertex)
      BY <1>1, <1>3, <2>1, KnownEnumerated
    <3>2. Knows(vertices[v], choices)
      BY <1>1
    <3> HIDE DEF choices
    <3>3. Knows(vertex, choices)
      BY <3>1, <3>2, SameChoicesKnown
    <3> QED BY <3>1, <3>3 DEF choices
  <2>2. CASE ~vertices[v].linksMatchChoices
    BY <1>1, <1>2, <1>3, <2>2, UnknownEnumerated, GraphSearchAssumption
  <2> QED BY <2>1, <2>2
<1>7. i \in available
  BY DEF Selectable
<1>8. Chosen(state, v, offered, vertex, i, position, target, arena)
  <2> HIDE DEF v
  <2> QED BY <1>1, <1>6, <1>7 DEF Chosen
<1>9. vertex.links[i].visits < vertex.links[i].timesAvailable
  <2>1. CASE i \in DOMAIN vertices[v].links
    <3> DEFINE old == vertices[v].links[i]
               now == vertex.links[i]
    <3>1. now.visits = old.visits /\ now.timesAvailable > old.timesAvailable
      BY <1>6, <1>7, <2>1 DEF EnumeratedAs
    <3>2. LinkOK(vertices, vertices[v].position, old) /\ old \in Link
      BY <1>1, <2>1, ArenaTyped DEF ArenaOK
    <3>3. now \in Link
      <4>1. vertex.links \in Seq(Link)
        BY <1>6 DEF EnumeratedAs, VertexOK, Vertex
      <4> QED BY <1>7, <4>1, ElementOfSeq, LenProperties
    <3>4. /\ old.visits <= old.timesAvailable
          /\ old.visits \in Nat /\ old.timesAvailable \in Nat /\ now.timesAvailable \in Nat
      BY <3>2, <3>3 DEF Link, LinkOK
    <3> HIDE DEF old, now
    <3>5. now.visits < now.timesAvailable
      BY <3>1, <3>4
    <3> QED BY <3>5 DEF now
  <2>2. CASE i \notin DOMAIN vertices[v].links
    <3>1. vertex.links[i].visits = 0 /\ vertex.links[i].timesAvailable = 1
      BY <1>6, <1>7, <2>2 DEF EnumeratedAs
    <3> QED BY <3>1
  <2> QED BY <2>1, <2>2
<1>10. Entering(i, position, target, arena)
  BY <1>5
<1> HIDE DEF v, position, arena
<1>11. \E p, a : /\ Chosen(state, v, offered, vertex, i, p, target, a)
                 /\ Entering(i, p, target, a)
  BY <1>8, <1>10
<1> QED BY <1>6, <1>9, <1>11 DEF v

(* A step to i, out of the last vertex of the path.                         *)
LEMMA StepsTaken ==
  ASSUME Inv, pc = "descend", NEW i \in Nat
  PROVE  /\ Append(steps, i) \in Seq(Nat)
         /\ Len(Append(steps, i)) = Len(path)
         /\ DOMAIN Append(steps, i) = DOMAIN path
         /\ Append(steps, i)[Len(path)] = i
         /\ \A d \in DOMAIN path : d # Len(path) =>
              d \in DOMAIN steps /\ Append(steps, i)[d] = steps[d]
<1>1. /\ steps \in Seq(Nat) /\ Len(steps) = Len(path) - 1
      /\ Len(path) \in Nat \ {0} /\ DOMAIN path = 1..Len(path)
  BY LastOfPath DEF Inv, PathOK
<1>2. /\ Append(steps, i) \in Seq(Nat)
      /\ Len(Append(steps, i)) = Len(steps) + 1
      /\ \A d \in 1..Len(steps) : Append(steps, i)[d] = steps[d]
      /\ Append(steps, i)[Len(steps) + 1] = i
  BY <1>1, AppendProperties
<1>3. DOMAIN Append(steps, i) = 1..(Len(steps) + 1) /\ DOMAIN steps = 1..Len(steps)
  BY <1>1, <1>2, LenProperties
<1> QED BY <1>1, <1>2, <1>3

LEMMA DescendStep == Inv /\ Descend => Inv'
<1> SUFFICES ASSUME Inv, Descend PROVE Inv'
  OBVIOUS
<1> DEFINE v == Last(path)
           n == Len(path)
<1>1. PICK offered, vertex, i, position, target, arena :
        /\ Chosen(state, v, offered, vertex, i, position, target, arena)
        /\ vertex.links[i].visits < vertex.links[i].timesAvailable
        /\ Knows(vertex, IF v = Root THEN offers ELSE ChoicesInto(state))
        /\ Entering(i, position, target, arena)
  BY DescendChooses
<1>2. /\ ArenaOK(vertices) /\ TableOK(vertices, table) /\ PathOK
      /\ pc = "descend" /\ Len(steps) = n - 1
      /\ here' = here /\ offers' = offers /\ stamp' = stamp
      /\ offers \subseteq ChoicesInto(here) /\ KnownOK(vertices, offers)
      /\ vertices[Root].position = here /\ Root \in DOMAIN vertices
      /\ stamp \in Nat \ {0} /\ StampsOK
      /\ \A u \in DOMAIN vertices : vertices[u].stamp <= stamp
  BY GraphSearchAssumption DEF Inv, Descend, StampsOK, ArenaOK, GraphSearchAssumption, game
<1>3. /\ n \in Nat \ {0} /\ DOMAIN path = 1..n /\ n \in DOMAIN path /\ v = path[n]
      /\ \A d \in DOMAIN path : path[d] \in DOMAIN vertices
      /\ v \in DOMAIN vertices
  BY <1>2, LastOfPath
<1>4. /\ ArenaOK(arena)
      /\ TableOK(arena, TableAfter(target, position))
      /\ DOMAIN arena = DOMAIN vertices \cup {target}
      /\ target # Root
      /\ arena[target].position = position
      /\ target \notin DOMAIN vertices => arena[target].stamp = 0
      /\ \A u \in DOMAIN vertices : arena[u].stamp = vertices[u].stamp
      /\ \A u \in DOMAIN vertices : arena[u].position = vertices[u].position
      /\ \A u \in DOMAIN vertices \ {v} : arena[u] = vertices[u]
      /\ i \in DOMAIN arena[v].links
      /\ arena[v].links[i].target = target
      /\ arena[v].links[i].visits = vertex.links[i].visits
      /\ arena[v].links[i].timesAvailable = vertex.links[i].timesAvailable
      /\ SameChoices(vertex, arena[v])
      /\ target \notin DOMAIN vertices => ~arena[target].linksMatchChoices
  <2> HIDE DEF v, n
  <2>1. /\ ArenaOK(vertices) /\ TableOK(vertices, table) /\ v \in DOMAIN vertices
        /\ Chosen(state, v, offered, vertex, i, position, target, arena)
    BY <1>1, <1>2, <1>3
  <2>2. LinkedAs(v, vertex, i, position, target, arena)
    BY <2>1, LinkedArena, GraphSearchAssumption
  <2> QED BY <2>2 DEF LinkedAs
<1>5. i \in Nat /\ arena[v].links[i].visits < arena[v].links[i].timesAvailable
  <2>1. DOMAIN arena[v].links \subseteq Nat
    BY <1>3, <1>4, ArenaTyped
  <2> QED BY <1>1, <1>4, <2>1
<1>6. /\ state' = position /\ steps' = Append(steps, i)
      /\ table' = TableAfter(target, position)
  BY <1>1 DEF Entering
<1>7. /\ steps' \in Seq(Nat)
      /\ Len(steps') = n
      /\ DOMAIN steps' = DOMAIN path
      /\ steps'[n] = i
      /\ \A d \in DOMAIN path : d # n => d \in DOMAIN steps /\ steps'[d] = steps[d]
  BY <1>2, <1>5, <1>6, StepsTaken
<1> HIDE DEF v, n
(* The steps, in the arena as it is linked.                                 *)
<1>8. ASSUME NEW d \in DOMAIN steps'
      PROVE  LET links == arena[path[d]].links
             IN  /\ steps'[d] \in DOMAIN links
                 /\ links[steps'[d]].visits < links[steps'[d]].timesAvailable
                 /\ \/ links[steps'[d]].target = target
                    \/ \E e \in DOMAIN path : links[steps'[d]].target = path[e]
  <2>1. CASE d = n
    BY <1>3, <1>4, <1>5, <1>7, <2>1
  <2>2. CASE d # n
    <3>1. d \in DOMAIN path /\ d \in DOMAIN steps /\ steps'[d] = steps[d]
      BY <1>7, <2>2
    <3>2. path[d] # v /\ path[d] \in DOMAIN vertices
      BY <1>2, <1>3, <2>2, <3>1 DEF PathOK
    <3>3. arena[path[d]] = vertices[path[d]]
      BY <1>4, <3>2
    <3> QED BY <1>2, <3>1, <3>3 DEF PathOK
  <2> QED BY <2>1, <2>2
<1>9. /\ \A d, e \in DOMAIN path : path[d] = path[e] => d = e
      /\ \A u \in DOMAIN arena : arena[u].stamp = stamp <=> \E d \in DOMAIN path : path[d] = u
  <2>1. \A u \in DOMAIN vertices : arena[u].stamp = stamp <=> \E d \in DOMAIN path : path[d] = u
    BY <1>2, <1>4 DEF PathOK
  <2>2. target \notin DOMAIN vertices =>
          (arena[target].stamp = stamp <=> \E d \in DOMAIN path : path[d] = target)
    BY <1>2, <1>3, <1>4
  <2> QED BY <1>2, <1>4, <2>1, <2>2 DEF PathOK
<1>k. KnownOK(arena, offers)
  <2> SUFFICES ASSUME NEW u \in DOMAIN arena
               PROVE  Knows(arena[u], IF u = Root THEN offers ELSE ChoicesInto(arena[u].position))
    BY DEF KnownOK
  <2>1. CASE u = v
    <3> DEFINE choices == IF v = Root THEN offers ELSE ChoicesInto(state)
    <3>1. arena[v].position = state
      BY <1>1, <1>3, <1>4 DEF Chosen
    <3>2. Knows(vertex, choices) /\ SameChoices(vertex, arena[v])
      BY <1>1, <1>4
    <3> HIDE DEF choices
    <3>3. Knows(arena[v], choices)
      BY <3>2, SameChoicesKnown
    <3> QED BY <2>1, <3>1, <3>3 DEF choices
  <2>2. CASE u \in DOMAIN vertices /\ u # v
    BY <1>2, <1>4, <2>2 DEF KnownOK
  <2>3. CASE u \notin DOMAIN vertices
    BY <1>4, <2>3 DEF Knows
  <2> QED BY <2>1, <2>2, <2>3
<1>10. CASE Repeats(arena[target])
  <2>1. vertices' = arena /\ path' = path /\ pc' = "backup"
    BY <1>1, <1>10 DEF Entering
  <2>2. \E e \in DOMAIN path : path[e] = target
    BY <1>4, <1>9, <1>10 DEF Repeats
  <2>3. PathOK'
    <3>1. path' \in Seq(DOMAIN vertices') /\ path' # <<>>
      <4>1. path \in Seq(DOMAIN vertices) /\ path # <<>>
        BY <1>2 DEF PathOK
      <4>2. \A d \in 1..n : path[d] \in DOMAIN arena
        BY <1>3, <1>4
      <4>3. path \in [1..n -> DOMAIN arena]
        BY <1>3, <4>1, <4>2, LenProperties DEF n
      <4> QED BY <1>3, <2>1, <4>1, <4>3, IsASeq
    <3>2. \A d \in DOMAIN steps' :
            LET links == vertices'[path'[d]].links
            IN  /\ steps'[d] \in DOMAIN links
                /\ links[steps'[d]].visits < links[steps'[d]].timesAvailable
                /\ \E e \in DOMAIN path' : links[steps'[d]].target = path'[e]
      BY <1>8, <2>1, <2>2
    <3>3. Len(steps') \in {Len(path') - 1, Len(path')}
      BY <1>7, <2>1 DEF n
    <3> QED BY <1>2, <1>7, <1>9, <2>1, <3>1, <3>2, <3>3 DEF PathOK
  <2>4. StampsOK'
    <3>1. \A u \in DOMAIN arena : arena[u].stamp <= stamp
      BY <1>2, <1>4
    <3> QED BY <1>2, <2>1, <3>1 DEF StampsOK
  <2>5. vertices'[Root].position = here'
    BY <1>2, <1>4, <2>1
  <2>6. ArenaOK(vertices') /\ TableOK(vertices', table')
    BY <1>4, <1>6, <2>1
  <2> QED BY <1>2, <1>k, <2>1, <2>3, <2>4, <2>5, <2>6 DEF Inv
<1>11. CASE ~Repeats(arena[target])
  <2> DEFINE number == [u \in DOMAIN arena |-> IF u = target THEN stamp ELSE arena[u].stamp]
  <2>1. /\ vertices' = [arena EXCEPT ![target].stamp = stamp]
        /\ path' = Append(path, target)
        /\ pc' \in {"backup", "descend"}
    BY <1>1, <1>11 DEF Entering
  <2>2. \A u \in DOMAIN arena : arena[u] \in Vertex /\ arena[u].stamp \in Nat
    BY <1>4, ArenaTyped
  <2>3. vertices' = Restamped(arena, number)
    <3>1. vertices' = [u \in DOMAIN arena |->
                         IF u = target THEN [arena[target] EXCEPT !.stamp = stamp] ELSE arena[u]]
      BY <1>4, <2>1, ArenaTyped
    <3>2. \A u \in DOMAIN arena : [arena[u] EXCEPT !.stamp = arena[u].stamp] = arena[u]
      BY <2>2 DEF Vertex
    <3>3. \A u \in DOMAIN arena :
            (IF u = target THEN [arena[target] EXCEPT !.stamp = stamp] ELSE arena[u])
            = [arena[u] EXCEPT !.stamp = number[u]]
      BY <3>2
    <3> HIDE DEF number
    <3> QED BY <3>1, <3>3 DEF Restamped
  <2>4. /\ \A u \in DOMAIN arena : number[u] \in Nat
        /\ \A u \in DOMAIN arena : number[u] = IF u = target THEN stamp ELSE arena[u].stamp
    BY <1>2, <2>2
  <2> HIDE DEF number
  <2>5. /\ ArenaOK(vertices')
        /\ DOMAIN vertices' = DOMAIN arena
        /\ \A found : TableOK(arena, found) => TableOK(vertices', found)
        /\ \A u \in DOMAIN arena :
             /\ vertices'[u].stamp = number[u]
             /\ vertices'[u].position = arena[u].position
             /\ vertices'[u].links = arena[u].links
             /\ vertices'[u].linksMatchChoices = arena[u].linksMatchChoices
    BY <1>4, <2>3, <2>4, RestampedArena
  <2>6. /\ path' \in Seq(DOMAIN vertices')
        /\ Len(path') = n + 1
        /\ DOMAIN path' = 1..(n + 1)
        /\ \A d \in DOMAIN path : path'[d] = path[d]
        /\ path'[n + 1] = target
        /\ path' # <<>>
    <3>1. path \in Seq(DOMAIN arena)
      <4>1. path \in Seq(DOMAIN vertices)
        BY <1>2 DEF PathOK
      <4>2. path \in [1..n -> DOMAIN arena]
        BY <1>3, <1>4, <4>1, LenProperties DEF n
      <4> QED BY <1>3, <4>2, IsASeq
    <3>2. target \in DOMAIN arena
      BY <1>4
    <3>3. /\ Append(path, target) \in Seq(DOMAIN arena)
          /\ Len(Append(path, target)) = n + 1
          /\ \A d \in 1..n : Append(path, target)[d] = path[d]
          /\ Append(path, target)[n + 1] = target
          /\ Append(path, target) # <<>>
      BY <3>1, <3>2, AppendProperties DEF n
    <3>4. DOMAIN Append(path, target) = 1..(n + 1)
      BY <3>3, LenProperties
    <3> QED BY <1>3, <2>1, <2>5, <3>3, <3>4
  <2>7. \A d \in DOMAIN path : path[d] # target
    BY <1>4, <1>9, <1>11 DEF Repeats
  <2>8. \A d \in DOMAIN path' : d \in DOMAIN path \/ d = n + 1
    BY <1>3, <2>6
  <2>9. \A d \in DOMAIN path : d \in DOMAIN path'
    BY <1>3, <2>6
  <2>10. n + 1 \in DOMAIN path'
    BY <1>3, <2>6
  <2>11. \A d, e \in DOMAIN path' : path'[d] = path'[e] => d = e
    BY <1>9, <2>6, <2>7, <2>8
  <2>12. \A u \in DOMAIN vertices' :
           vertices'[u].stamp = stamp <=> \E d \in DOMAIN path' : path'[d] = u
    <3> SUFFICES ASSUME NEW u \in DOMAIN arena
                 PROVE  vertices'[u].stamp = stamp <=> \E d \in DOMAIN path' : path'[d] = u
      BY <2>5
    <3>1. CASE u = target
      BY <2>4, <2>5, <2>6, <2>10, <3>1
    <3>2. CASE u # target
      <4>1. vertices'[u].stamp = stamp <=> \E d \in DOMAIN path : path[d] = u
        BY <1>9, <2>4, <2>5, <3>2
      <4>2. (\E d \in DOMAIN path' : path'[d] = u) <=> \E d \in DOMAIN path : path[d] = u
        BY <2>6, <2>8, <2>9, <3>2
      <4> QED BY <4>1, <4>2
    <3> QED BY <3>1, <3>2
  <2>13. ASSUME NEW d \in DOMAIN steps'
         PROVE  LET links == vertices'[path'[d]].links
                IN  /\ steps'[d] \in DOMAIN links
                    /\ links[steps'[d]].visits < links[steps'[d]].timesAvailable
                    /\ \E e \in DOMAIN path' : links[steps'[d]].target = path'[e]
    <3>1. d \in DOMAIN path /\ path'[d] = path[d] /\ path[d] \in DOMAIN arena
      BY <1>3, <1>4, <1>7, <2>6
    <3>2. vertices'[path'[d]].links = arena[path[d]].links
      BY <2>5, <3>1
    <3>3. \A e \in DOMAIN path : e \in DOMAIN path' /\ path'[e] = path[e]
      BY <2>6, <2>9
    <3> QED BY <1>8, <2>6, <2>10, <3>2, <3>3
  <2>14. Len(steps') = Len(path') - 1
    BY <1>3, <1>7, <2>6
  <2>15. PathOK'
    BY <1>2, <1>7, <2>6, <2>11, <2>12, <2>13, <2>14 DEF PathOK
  <2>16. StampsOK'
    <3>1. \A u \in DOMAIN arena : number[u] <= stamp
      BY <1>2, <1>4, <2>4
    <3> QED BY <1>2, <2>5, <3>1 DEF StampsOK
  <2>17. vertices'[Root].position = here'
    BY <1>2, <1>4, <2>5
  <2>18. state' = vertices'[Last(path')].position
    <3>1. Last(path') = target
      BY <2>6 DEF Last
    <3> QED BY <1>4, <1>6, <2>5, <3>1
  <2>19. KnownOK(vertices', offers')
    <3>1. \A u \in DOMAIN vertices' :
            u \in DOMAIN arena /\ SameChoices(arena[u], vertices'[u])
      BY <2>5 DEF SameChoices
    <3>2. KnownOK(vertices', offers)
      BY <1>k, <2>5, <3>1, KnownKept
    <3> QED BY <1>2, <3>2
  <2> QED BY <1>2, <1>4, <1>6, <2>1, <2>5, <2>14, <2>15, <2>16, <2>17, <2>18, <2>19 DEF Inv
<1> QED BY <1>10, <1>11

-----------------------------------------------------------------------------

(* The backup.                                                              *)

LEMMA CountOfOne ==
  ASSUME NEW S, \A x, y \in S : x = y
  PROVE  Cardinality(S) = IF S = {} THEN 0 ELSE 1
<1>1. CASE S = {}
  BY <1>1, FS_EmptySet
<1>2. CASE S # {}
  <2>1. PICK x \in S : S = {x}
    BY <1>2
  <2> QED BY <1>2, <2>1, FS_Singleton
<1> QED BY <1>1, <1>2

OnPath(v) == \E d \in DOMAIN path : path[d] = v
IsTaken(v, i) == \E d \in DOMAIN steps : path[d] = v /\ steps[d] = i

LEMMA CreditOnce ==
  ASSUME Inv, pc # "idle", NEW v, NEW i
  PROVE  /\ Entered(v) = IF OnPath(v) THEN 1 ELSE 0
         /\ Taken(v, i) = IF IsTaken(v, i) THEN 1 ELSE 0
<1>1. /\ \A d, e \in DOMAIN path : path[d] = path[e] => d = e
      /\ DOMAIN steps \subseteq DOMAIN path
  <2>1. /\ \A d, e \in DOMAIN path : path[d] = path[e] => d = e
        /\ steps \in Seq(Nat) /\ Len(steps) \in {Len(path) - 1, Len(path)}
    BY DEF Inv, PathOK
  <2>2. /\ DOMAIN path = 1..Len(path) /\ Len(path) \in Nat
        /\ DOMAIN steps = 1..Len(steps) /\ Len(steps) \in Nat
    BY <2>1, LastOfPath, LenProperties
  <2> DEFINE m == Len(steps)
             n == Len(path)
  <2>3. m \in Nat /\ n \in Nat /\ m \in {n - 1, n}
    BY <2>1, <2>2
  <2>4. DOMAIN path = 1..n /\ DOMAIN steps = 1..m
    BY <2>2
  <2> HIDE DEF m, n
  <2>5. 1..m \subseteq 1..n
    BY <2>3
  <2> QED BY <2>1, <2>4, <2>5
<1>2. Entered(v) = IF OnPath(v) THEN 1 ELSE 0
  <2> DEFINE S == {d \in DOMAIN path : path[d] = v}
  <2>1. \A x, y \in S : x = y
    BY <1>1
  <2>2. S = {} <=> ~OnPath(v)
    BY DEF OnPath
  <2> HIDE DEF S
  <2>3. Cardinality(S) = IF S = {} THEN 0 ELSE 1
    BY <2>1, CountOfOne
  <2> QED BY <2>2, <2>3 DEF Entered, S
<1>3. Taken(v, i) = IF IsTaken(v, i) THEN 1 ELSE 0
  <2> DEFINE S == {d \in DOMAIN steps : path[d] = v /\ steps[d] = i}
  <2>1. \A x, y \in S : x = y
    BY <1>1
  <2>2. S = {} <=> ~IsTaken(v, i)
    BY DEF IsTaken
  <2> HIDE DEF S
  <2>3. Cardinality(S) = IF S = {} THEN 0 ELSE 1
    BY <2>1, CountOfOne
  <2> QED BY <2>2, <2>3 DEF Taken, S
<1> QED BY <1>2, <1>3

LEMMA CreditedVertex ==
  ASSUME Inv, pc # "idle", NEW v \in DOMAIN vertices
  PROVE  LET vertex == vertices[v]
             after  == Credited(v)
         IN  /\ after \in Vertex
             /\ after.position = vertex.position
             /\ after.player = vertex.player
             /\ after.key = vertex.key
             /\ after.stamp = vertex.stamp
             /\ after.linksMatchChoices = vertex.linksMatchChoices
             /\ after.visits = vertex.visits + (IF OnPath(v) THEN 1 ELSE 0)
             /\ DOMAIN after.links = DOMAIN vertex.links
             /\ \A i \in DOMAIN vertex.links :
                  /\ after.links[i] \in Link
                  /\ after.links[i].choice = vertex.links[i].choice
                  /\ after.links[i].target = vertex.links[i].target
                  /\ after.links[i].timesAvailable = vertex.links[i].timesAvailable
                  /\ after.links[i].visits =
                       vertex.links[i].visits + (IF IsTaken(v, i) THEN 1 ELSE 0)
<1> DEFINE vertex == vertices[v]
           links  == [i \in DOMAIN vertex.links |->
                        [vertex.links[i] EXCEPT !.visits = @ + Taken(v, i)]]
           after  == Credited(v)
<1>1. /\ vertex \in Vertex /\ vertex.visits \in Nat /\ vertex.links \in Seq(Link)
      /\ DOMAIN vertex.links = 1..Len(vertex.links) /\ Len(vertex.links) \in Nat
      /\ \A i \in DOMAIN vertex.links : vertex.links[i] \in Link
  BY ArenaTyped DEF Inv
<1>2. /\ Entered(v) = IF OnPath(v) THEN 1 ELSE 0
      /\ \A i : Taken(v, i) = IF IsTaken(v, i) THEN 1 ELSE 0
  BY CreditOnce
<1>3. ASSUME NEW i \in DOMAIN vertex.links
      PROVE  /\ links[i] \in Link
             /\ links[i].choice = vertex.links[i].choice
             /\ links[i].target = vertex.links[i].target
             /\ links[i].timesAvailable = vertex.links[i].timesAvailable
             /\ links[i].visits = vertex.links[i].visits + (IF IsTaken(v, i) THEN 1 ELSE 0)
  <2> DEFINE link == vertex.links[i]
  <2>1. link \in Link /\ link.visits \in Nat
    BY <1>1 DEF Link
  <2>2. links[i] = [link EXCEPT !.visits = link.visits + Taken(v, i)]
    OBVIOUS
  <2>3. Taken(v, i) \in Nat
    BY <1>2
  <2> HIDE DEF link, links
  <2>4. /\ links[i] \in Link
        /\ links[i].choice = link.choice
        /\ links[i].target = link.target
        /\ links[i].timesAvailable = link.timesAvailable
        /\ links[i].visits = link.visits + Taken(v, i)
    BY <2>1, <2>2, <2>3 DEF Link
  <2> QED BY <1>2, <2>4 DEF link
<1>4. links = [i \in 1..Len(vertex.links) |-> links[i]]
  BY <1>1
<1>5. after = [vertex EXCEPT !.visits = vertex.visits + Entered(v), !.links = links]
  BY <1>1 DEF Credited
<1> HIDE DEF links, after
<1>6. links \in Seq(Link) /\ DOMAIN links = DOMAIN vertex.links
  <2> DEFINE n == Len(vertex.links)
  <2>1. n \in Nat /\ \A i \in 1..n : links[i] \in Link
    BY <1>1, <1>3
  <2>2. links = [i \in 1..n |-> links[i]] /\ DOMAIN vertex.links = 1..n
    BY <1>1, <1>4
  <2> HIDE DEF n
  <2>3. links \in [1..n -> Link]
    BY <2>1, <2>2
  <2>4. links \in Seq(Link)
    BY <2>1, <2>3, IsASeq
  <2> QED BY <2>2, <2>4
<1>7. Entered(v) \in Nat /\ vertex.visits + Entered(v) \in Nat
  BY <1>1, <1>2
<1> DEFINE n == vertex.visits + Entered(v)
<1>8. /\ after \in Vertex
      /\ after.position = vertex.position
      /\ after.player = vertex.player
      /\ after.key = vertex.key
      /\ after.stamp = vertex.stamp
      /\ after.linksMatchChoices = vertex.linksMatchChoices
      /\ after.visits = n
      /\ after.links = links
  <2>1. vertex \in Vertex /\ links \in Seq(Link) /\ n \in Nat
    BY <1>1, <1>6, <1>7
  <2>2. after = [vertex EXCEPT !.visits = n, !.links = links]
    BY <1>5
  <2> HIDE DEF vertex, n
  <2> QED BY <2>1, <2>2 DEF Vertex
<1>9. after.visits = vertex.visits + (IF OnPath(v) THEN 1 ELSE 0)
  BY <1>2, <1>8
<1> QED BY <1>3, <1>6, <1>8, <1>9 DEF after

LEMMA BackUpStep == Inv /\ BackUp => Inv'
<1> SUFFICES ASSUME Inv, BackUp PROVE Inv'
  OBVIOUS
<1>1. /\ ArenaOK(vertices) /\ TableOK(vertices, table) /\ PathOK /\ pc = "backup"
      /\ vertices[Root].position = here /\ Root \in DOMAIN vertices
      /\ offers \subseteq ChoicesInto(here) /\ KnownOK(vertices, offers)
      /\ StampsOK
  BY DEF Inv, BackUp, ArenaOK
<1>2. /\ vertices' = [v \in DOMAIN vertices |-> Credited(v)]
      /\ pc' = "idle" /\ here' = here /\ offers' = offers /\ table' = table /\ stamp' = stamp
  BY DEF BackUp, game
<1>3. \A v \in DOMAIN vertices :
        /\ vertices[v].visits \in Nat
        /\ \A i \in DOMAIN vertices[v].links : vertices[v].links[i] \in Link
  BY <1>1, ArenaTyped
<1>4. ASSUME NEW v \in DOMAIN vertices
      PROVE  /\ vertices'[v] \in Vertex
             /\ vertices'[v].position = vertices[v].position
             /\ vertices'[v].player = vertices[v].player
             /\ vertices'[v].key = vertices[v].key
             /\ vertices'[v].stamp = vertices[v].stamp
             /\ vertices'[v].linksMatchChoices = vertices[v].linksMatchChoices
             /\ vertices'[v].visits = vertices[v].visits + (IF OnPath(v) THEN 1 ELSE 0)
             /\ DOMAIN vertices'[v].links = DOMAIN vertices[v].links
             /\ \A i \in DOMAIN vertices[v].links :
                  /\ vertices'[v].links[i] \in Link
                  /\ vertices'[v].links[i].choice = vertices[v].links[i].choice
                  /\ vertices'[v].links[i].target = vertices[v].links[i].target
                  /\ vertices'[v].links[i].timesAvailable = vertices[v].links[i].timesAvailable
                  /\ vertices'[v].links[i].visits =
                       vertices[v].links[i].visits + (IF IsTaken(v, i) THEN 1 ELSE 0)
  <2>1. vertices'[v] = Credited(v)
    BY <1>2
  <2> QED BY <1>1, <2>1, CreditedVertex
<1>5. DOMAIN vertices' = DOMAIN vertices
  BY <1>2
<1>6. vertices' \in Seq(Vertex)
  <2>1. DOMAIN vertices = 1..Len(vertices) /\ Len(vertices) \in Nat
    BY <1>1, ArenaTyped
  <2>2. \A v \in DOMAIN vertices : Credited(v) \in Vertex
    BY <1>2, <1>4
  <2>3. vertices' \in [1..Len(vertices) -> Vertex]
    BY <1>2, <2>1, <2>2
  <2> QED BY <2>1, <2>3, IsASeq
<1>7. Extends(vertices, vertices')
  <2>1. ASSUME NEW v \in DOMAIN vertices PROVE VertexOK(vertices'[v])
    <3>1. VertexOK(vertices[v])
      BY <1>1 DEF ArenaOK
    <3> QED BY <1>4, <3>1 DEF VertexOK
  <2>2. \A v \in DOMAIN vertices : vertices[v].visits <= vertices'[v].visits
    BY <1>3, <1>4
  <2> QED BY <1>4, <1>5, <1>6, <2>1, <2>2 DEF Extends
<1>8. ASSUME NEW v \in DOMAIN vertices, NEW i \in DOMAIN vertices'[v].links
      PROVE  LinkOK(vertices', vertices'[v].position, vertices'[v].links[i])
  <2> DEFINE link  == vertices[v].links[i]
             after == vertices'[v].links[i]
             p     == vertices[v].position
  <2>1. /\ i \in DOMAIN vertices[v].links /\ link \in Link /\ LinkOK(vertices, p, link)
        /\ after \in Link
        /\ after.choice = link.choice /\ after.target = link.target
        /\ after.timesAvailable = link.timesAvailable
        /\ after.visits = link.visits + (IF IsTaken(v, i) THEN 1 ELSE 0)
        /\ vertices'[v].position = p
        /\ link.visits \in Nat /\ link.timesAvailable \in Nat
    <3>1. i \in DOMAIN vertices[v].links
      BY <1>4
    <3> QED BY <1>1, <1>3, <1>4, <3>1 DEF ArenaOK, Link
  <2>2. LinkOK(vertices', p, link)
    BY <1>1, <1>7, <2>1, LinkKept
  <2>3. CASE ~IsTaken(v, i)
    <3>1. after.visits = link.visits
      BY <2>1, <2>3
    <3> HIDE DEF after, link, p
    <3>2. LinkOK(vertices', p, after)
      BY <2>1, <2>2, <3>1 DEF LinkOK
    <3> QED BY <2>1, <3>2 DEF after
  <2>4. CASE IsTaken(v, i)
    <3>1. PICK d \in DOMAIN steps : path[d] = v /\ steps[d] = i
      BY <2>4 DEF IsTaken
    <3>2. link.visits < link.timesAvailable /\ OnPath(link.target)
      BY <1>1, <3>1 DEF PathOK, OnPath
    <3>3. link.target \in DOMAIN vertices
      BY <1>1, <3>2, LastOfPath DEF OnPath
    <3>4. link.target \in Nat
      BY <1>1, <3>3, ArenaTyped
    <3>5. link.target # None
      BY <3>4, NoneIsNoNumber
    <3>6. link.visits <= vertices[link.target].visits
      BY <2>1, <3>5 DEF LinkOK
    <3>7. vertices'[link.target].visits = vertices[link.target].visits + 1
      BY <1>4, <3>2, <3>3
    <3>8. vertices[link.target].visits \in Nat
      BY <1>3, <3>3
    <3>9. after.visits = link.visits + 1
      BY <2>1, <2>4
    <3> HIDE DEF after, link, p
    <3>10. /\ after.visits <= after.timesAvailable
           /\ after.visits <= vertices'[after.target].visits
      BY <2>1, <3>2, <3>6, <3>7, <3>8, <3>9
    <3>11. LinkOK(vertices', p, after)
      BY <2>1, <2>2, <3>5, <3>10 DEF LinkOK
    <3> QED BY <2>1, <3>11 DEF after
  <2> QED BY <2>3, <2>4
<1>9. ArenaOK(vertices')
  BY <1>1, <1>5, <1>7, <1>8, ExtendedArena
<1>10. TableOK(vertices', table')
  BY <1>1, <1>2, <1>4, <1>5 DEF TableOK
<1>11. StampsOK'
  BY <1>1, <1>2, <1>4, <1>5 DEF StampsOK
<1>12. vertices'[Root].position = here'
  BY <1>1, <1>2, <1>4
<1>13. KnownOK(vertices', offers')
  <2>1. \A u \in DOMAIN vertices' :
          u \in DOMAIN vertices /\ SameChoices(vertices[u], vertices'[u])
    BY <1>4, <1>5 DEF SameChoices
  <2>2. KnownOK(vertices', offers)
    BY <1>1, <1>4, <1>5, <2>1, KnownKept
  <2> QED BY <1>2, <2>2
<1> QED BY <1>1, <1>2, <1>9, <1>10, <1>11, <1>12, <1>13 DEF Inv

(* A step that ends the descent, or changes nothing.                        *)
LEMMA ReachTerminalStep == Inv /\ ReachTerminal => Inv'
<1> SUFFICES ASSUME Inv, ReachTerminal PROVE Inv'
  OBVIOUS
<1>1. /\ vertices' = vertices /\ table' = table /\ stamp' = stamp /\ here' = here
      /\ path' = path /\ steps' = steps /\ pc = "descend" /\ pc' = "backup" /\ offers' = offers
  BY DEF ReachTerminal, graph, descent, game
<1> QED BY <1>1 DEF Inv, PathOK, StampsOK

LEMMA StutterStep == Inv /\ UNCHANGED vars => Inv'
<1> SUFFICES ASSUME Inv, UNCHANGED vars PROVE Inv'
  OBVIOUS
<1>1. /\ vertices' = vertices /\ table' = table /\ stamp' = stamp /\ here' = here
      /\ path' = path /\ steps' = steps /\ pc' = pc /\ state' = state /\ offers' = offers
  BY DEF vars, graph, descent, game
<1> QED BY <1>1 DEF Inv, PathOK, StampsOK

-----------------------------------------------------------------------------

(* A re-rooting.                                                            *)

LEMMA ReachableKept ==
  ASSUME ArenaOK(vertices), NEW new \in DOMAIN vertices \ {Root}
  PROVE  /\ Reachable(new) \subseteq DOMAIN vertices \ {Root}
         /\ new \in Reachable(new)
         /\ Closed(Reachable(new))
         /\ \A u \in Reachable(new) \ {new} : \E v \in Reachable(new) : u \in Targets(v)
<1> DEFINE kept == Reachable(new)
<1>1. kept \subseteq DOMAIN vertices /\ new \in kept
  BY DEF Reachable
<1>2. \A v \in DOMAIN vertices : Targets(v) \subseteq DOMAIN vertices \ {Root}
  <2> SUFFICES ASSUME NEW v \in DOMAIN vertices, NEW i \in DOMAIN vertices[v].links,
                      vertices[v].links[i].target # None
               PROVE  vertices[v].links[i].target \in DOMAIN vertices \ {Root}
    BY DEF Targets
  <2>1. LinkOK(vertices, vertices[v].position, vertices[v].links[i])
    BY DEF ArenaOK
  <2> QED BY <2>1 DEF LinkOK
<1>3. \A S \in SUBSET DOMAIN vertices : new \in S /\ Closed(S) => kept \subseteq S
  BY DEF Reachable
<1>4. kept \subseteq DOMAIN vertices \ {Root}
  <2> DEFINE S == DOMAIN vertices \ {Root}
  <2>1. S \in SUBSET DOMAIN vertices /\ new \in S /\ Closed(S)
    BY <1>2 DEF Closed
  <2> HIDE DEF kept
  <2> QED BY <1>3, <2>1
<1>5. Closed(kept)
  <2> SUFFICES ASSUME NEW u \in kept, NEW t \in Targets(u) PROVE t \in kept
    BY DEF Closed
  <2>1. t \in DOMAIN vertices
    BY <1>1, <1>2
  <2>2. ASSUME NEW S \in SUBSET DOMAIN vertices, new \in S, Closed(S) PROVE t \in S
    <3>1. u \in S
      BY <1>3, <2>2
    <3> QED BY <2>2, <3>1 DEF Closed
  <2> QED BY <2>1, <2>2 DEF Reachable
<1>6. ASSUME NEW u \in kept \ {new} PROVE \E v \in kept : u \in Targets(v)
  <2> SUFFICES ASSUME \A v \in kept : u \notin Targets(v) PROVE FALSE
    OBVIOUS
  <2> DEFINE S == kept \ {u}
  <2>1. Closed(S)
    BY <1>5 DEF Closed
  <2>2. S \in SUBSET DOMAIN vertices /\ new \in S /\ u \notin S
    BY <1>1
  <2> HIDE DEF kept, S
  <2> QED BY <1>3, <2>1, <2>2
<1> QED BY <1>1, <1>4, <1>5, <1>6

(* The numbers are those of an arena, each vertex's its own, the root's the *)
(* new root's.                                                              *)
LEMMA NumberingCounts ==
  ASSUME NEW kept \in SUBSET Nat, IsFiniteSet(kept), NEW new \in kept
  PROVE  LET number == Numbering(kept, new)
         IN  /\ DOMAIN number = kept
             /\ Cardinality(kept) \in Nat \ {0}
             /\ \A v \in kept : number[v] \in 1..Cardinality(kept)
             /\ \A v \in kept : number[v] = Root <=> v = new
             /\ \A v, w \in kept : number[v] = number[w] => v = w
             /\ \A n \in 1..Cardinality(kept) : \E v \in kept : number[v] = n
<1> DEFINE others   == kept \ {new}
           below(v) == {u \in others : u <= v}
           number   == Numbering(kept, new)
           n        == Cardinality(kept)
<1>1. n \in Nat /\ Cardinality(others) = n - 1 /\ IsFiniteSet(others) /\ n # 0
  BY FS_CardinalityType, FS_RemoveElement, FS_EmptySet
<1>2. ASSUME NEW v \in kept
      PROVE  /\ IsFiniteSet(below(v)) /\ Cardinality(below(v)) \in Nat
             /\ Cardinality(below(v)) <= n - 1
  <2>1. below(v) \subseteq others
    OBVIOUS
  <2> HIDE DEF below, others, n
  <2> QED BY <1>1, <2>1, FS_Subset, FS_CardinalityType
<1>3. ASSUME NEW v \in others PROVE Cardinality(below(v)) # 0
  <2>1. v \in below(v)
    OBVIOUS
  <2>2. v \in kept
    OBVIOUS
  <2> HIDE DEF below, others
  <2> QED BY <1>2, <2>1, <2>2, FS_EmptySet
<1>4. ASSUME NEW v \in others, NEW w \in others, v < w
      PROVE  Cardinality(below(v)) < Cardinality(below(w))
  <2>1. v \in Nat /\ w \in Nat
    OBVIOUS
  <2>2. below(v) \subseteq below(w)
    <3> SUFFICES ASSUME NEW u \in others, u <= v PROVE u <= w
      OBVIOUS
    <3> QED BY <1>4, <2>1
  <2>3. w \in below(w) /\ w \notin below(v)
    BY <1>4, <2>1
  <2>4. w \in kept
    OBVIOUS
  <2> HIDE DEF below, others
  <2>5. below(v) # below(w)
    BY <2>3
  <2>6. v \in kept
    BY DEF others
  <2>7. /\ IsFiniteSet(below(w))
        /\ Cardinality(below(v)) \in Nat /\ Cardinality(below(w)) \in Nat
    BY <1>2, <2>4, <2>6
  <2>8. /\ Cardinality(below(v)) <= Cardinality(below(w))
        /\ Cardinality(below(v)) # Cardinality(below(w))
    BY <2>2, <2>5, <2>7, FS_Subset
  <2> QED BY <2>7, <2>8
<1>5. DOMAIN number = kept /\ number[new] = 1
  BY DEF Numbering, Root
<1>6. \A v \in others : number[v] = 1 + Cardinality(below(v))
  BY DEF Numbering, Root
<1>7. \A v \in kept : v = new \/ v \in others
  OBVIOUS
<1>8. others \subseteq kept /\ new \notin others
  OBVIOUS
<1>9. \A v \in others : v \in Nat
  OBVIOUS
<1> HIDE DEF below, others, number, n
<1>10. \A v \in others : number[v] \in 2..n
  BY <1>1, <1>2, <1>3, <1>6, <1>8
<1>11. \A v \in kept : number[v] \in 1..n
  BY <1>1, <1>5, <1>7, <1>10
<1>12. \A v \in kept : number[v] = Root <=> v = new
  BY <1>1, <1>5, <1>7, <1>10 DEF Root
<1>13. ASSUME NEW v \in kept, NEW w \in kept, number[v] = number[w] PROVE v = w
  <2>1. CASE v = new \/ w = new
    BY <1>12, <1>13, <2>1
  <2>2. CASE v \in others /\ w \in others
    <3>1. Cardinality(below(v)) = Cardinality(below(w))
      BY <1>2, <1>6, <1>8, <1>13, <2>2
    <3>2. ~(v < w) /\ ~(w < v)
      BY <1>2, <1>4, <1>8, <2>2, <3>1
    <3> QED BY <1>9, <2>2, <3>2
  <2> QED BY <1>7, <2>1, <2>2
<1>14. ASSUME NEW k \in 1..n PROVE \E v \in kept : number[v] = k
  <2>1. number \in [kept -> 1..n]
    BY <1>5, <1>11 DEF number, Numbering
  <2>2. number \in Injection(kept, 1..n)
    BY <1>13, <2>1 DEF Injection, IsInjective
  <2>3. IsFiniteSet(1..n) /\ Cardinality(1..n) = n
    BY <1>1, FS_Interval
  <2>4. number \in Surjection(kept, 1..n)
    BY <2>2, <2>3, FS_Injection DEF n
  <2> QED BY <2>4 DEF Surjection
<1> QED BY <1>1, <1>5, <1>11, <1>12, <1>13, <1>14 DEF number, n


(* A link once its target is renumbered.                                    *)
LEMMA MovedLink ==
  ASSUME NEW link \in Link, NEW number,
         link.target # None => number[link.target] \in Nat
  PROVE  LET moved == ClearLink(Renumbered(link, number))
         IN  /\ moved \in Link
             /\ moved.choice = link.choice
             /\ moved.timesAvailable = link.timesAvailable
             /\ link.target = None => moved = link
             /\ link.target # None /\ number[link.target] = Root =>
                  moved.target = None /\ moved.visits = 0
             /\ link.target # None /\ number[link.target] # Root =>
                  moved.target = number[link.target] /\ moved.visits = link.visits
<1> DEFINE moved == ClearLink(Renumbered(link, number))
           t     == number[link.target]
<1>0. Root \in Nat /\ Root # None
  BY NoneIsNoNumber DEF Root
<1>1. CASE link.target = None
  <2>1. moved = link
    BY <1>0, <1>1 DEF ClearLink, Renumbered
  <2> QED BY <1>1, <2>1
<1>2. CASE link.target # None
  <2>1. Renumbered(link, number) = [link EXCEPT !.target = t]
    BY <1>2 DEF Renumbered
  <2>2. t \in Nat
    BY <1>2
  <2> DEFINE now == Renumbered(link, number)
  <2> HIDE DEF t
  <2>3. /\ now \in Link /\ now.target = t
        /\ now.choice = link.choice /\ now.timesAvailable = link.timesAvailable
        /\ now.visits = link.visits
    BY <2>1, <2>2 DEF Link
  <2>4. moved = IF now.target = Root THEN [now EXCEPT !.target = None, !.visits = 0] ELSE now
    BY DEF ClearLink
  <2> HIDE DEF now, moved
  <2>5. CASE t = Root
    <3>1. moved = [now EXCEPT !.target = None, !.visits = 0]
      BY <2>3, <2>4, <2>5
    <3>2. /\ moved \in Link /\ moved.choice = now.choice
          /\ moved.timesAvailable = now.timesAvailable
          /\ moved.target = None /\ moved.visits = 0
      BY <2>3, <3>1 DEF Link
    <3> QED BY <1>2, <2>3, <2>5, <3>2 DEF moved, now, t
  <2>6. CASE t # Root
    <3>1. moved = now
      BY <2>3, <2>4, <2>6
    <3> QED BY <1>2, <2>3, <2>6, <3>1 DEF moved, now, t
  <2> QED BY <2>5, <2>6
<1> QED BY <1>1, <1>2

(* A vertex once it is renumbered.                                          *)
MovedAs(vertex, moved, number, isRoot) ==
  /\ VertexOK(moved)
  /\ moved.position = vertex.position
  /\ moved.player = IF isRoot THEN PlayerAt[vertex.position] ELSE vertex.player
  /\ moved.key = vertex.key
  /\ moved.visits = vertex.visits
  /\ moved.stamp = vertex.stamp
  /\ DOMAIN moved.links = DOMAIN vertex.links
  /\ \A i \in DOMAIN vertex.links :
       moved.links[i] = ClearLink(Renumbered(vertex.links[i], number))
  /\ SameChoices(vertex, moved)
  /\ isRoot => ~moved.linksMatchChoices

LEMMA MovedVertex ==
  ASSUME NEW vertex, VertexOK(vertex), NEW isRoot \in BOOLEAN, NEW number,
         \A i \in DOMAIN vertex.links :
           vertex.links[i].target # None => number[vertex.links[i].target] \in Nat
  PROVE  MovedAs(vertex, Moved(vertex, number, isRoot), number, isRoot)
<1> DEFINE after(i) == ClearLink(Renumbered(vertex.links[i], number))
           links == [i \in DOMAIN vertex.links |-> after(i)]
           known == vertex.linksMatchChoices /\ ~isRoot
           player == IF isRoot THEN PlayerAt[vertex.position] ELSE vertex.player
           moved == Moved(vertex, number, isRoot)
<1>1. /\ vertex \in Vertex /\ vertex.position \in Position /\ vertex.links \in Seq(Link)
      /\ vertex.linksMatchChoices \in BOOLEAN /\ vertex.player \in Range(PlayerAt)
  BY DEF VertexOK, Vertex
<1>2. /\ DOMAIN vertex.links = 1..Len(vertex.links) /\ Len(vertex.links) \in Nat
      /\ \A i \in DOMAIN vertex.links : vertex.links[i] \in Link
  BY <1>1, LenProperties, ElementOfSeq
<1>3. \A i \in DOMAIN vertex.links : after(i) \in Link /\ after(i).choice = vertex.links[i].choice
  BY <1>2, MovedLink
<1>4. moved = [vertex EXCEPT !.links = links, !.linksMatchChoices = known, !.player = player]
  BY <1>1 DEF Moved
<1>5. player \in Range(PlayerAt)
  BY <1>1, GraphSearchAssumption DEF GraphSearchAssumption, Range
<1>6. /\ DOMAIN links = DOMAIN vertex.links
      /\ \A i \in DOMAIN vertex.links : links[i] = after(i)
  OBVIOUS
<1>7. links \in Seq(Link)
  <2> DEFINE n == Len(vertex.links)
  <2>1. n \in Nat /\ \A i \in 1..n : after(i) \in Link
    BY <1>2, <1>3
  <2>2. links = [i \in 1..n |-> after(i)]
    BY <1>2
  <2> HIDE DEF n, after, links
  <2>3. links \in [1..n -> Link]
    BY <2>1, <2>2
  <2> QED BY <2>1, <2>3, IsASeq
<1>8. known \in BOOLEAN /\ (known => vertex.linksMatchChoices) /\ (isRoot => ~known)
  BY <1>1
<1> HIDE DEF after, links, known, player, moved
<1>9. /\ moved \in Vertex
      /\ moved.position = vertex.position
      /\ moved.player = player
      /\ moved.key = vertex.key
      /\ moved.visits = vertex.visits
      /\ moved.stamp = vertex.stamp
      /\ moved.links = links
      /\ moved.linksMatchChoices = known
  BY <1>1, <1>4, <1>5, <1>7, <1>8 DEF Vertex
<1>10. VertexOK(moved)
  <2>1. \A i \in DOMAIN vertex.links : links[i].choice = vertex.links[i].choice
    BY <1>3, <1>6
  <2> QED BY <1>6, <1>8, <1>9, <2>1 DEF VertexOK
<1>11. \A i \in DOMAIN vertex.links :
         moved.links[i] = ClearLink(Renumbered(vertex.links[i], number))
  BY <1>6, <1>9 DEF after
<1>12. SameChoices(vertex, moved) /\ (isRoot => ~moved.linksMatchChoices)
  BY <1>3, <1>6, <1>8, <1>9 DEF SameChoices
<1> QED BY <1>6, <1>9, <1>10, <1>11, <1>12 DEF MovedAs, player, moved


(* The arena re-rooted at a vertex the root leads to, as an arena: each     *)
(* number is that of a vertex kept, and each vertex kept has one.           *)
LEMMA RerootedVertices ==
  ASSUME ArenaOK(vertices), NEW new \in DOMAIN vertices \ {Root}
  PROVE  LET kept   == Reachable(new)
             number == Numbering(kept, new)
             ws     == Rerooted(new)
         IN  /\ DOMAIN ws = 1..Cardinality(kept)
             /\ Root \in DOMAIN ws
             /\ \A v \in kept : number[v] \in DOMAIN ws
             /\ \A v \in kept : number[v] = Root <=> v = new
             /\ \A n \in DOMAIN ws : \E v \in kept : number[v] = n
             /\ \A v \in kept :
                  MovedAs(vertices[v], ws[number[v]], number, number[v] = Root)
<1> DEFINE kept   == Reachable(new)
           number == Numbering(kept, new)
           ws     == Rerooted(new)
           n      == Cardinality(kept)
           Old(k) == CHOOSE v \in kept : number[v] = k
<1>1. /\ kept \subseteq DOMAIN vertices \ {Root} /\ new \in kept /\ Closed(kept)
  BY ReachableKept
<1>2. DOMAIN vertices = 1..Len(vertices) /\ Len(vertices) \in Nat
  BY ArenaTyped
<1>3. kept \in SUBSET Nat /\ IsFiniteSet(kept)
  <2>1. IsFiniteSet(1..Len(vertices))
    BY <1>2, FS_Interval
  <2> HIDE DEF kept
  <2> QED BY <1>1, <1>2, <2>1, FS_Subset
<1>4. /\ DOMAIN number = kept
      /\ n \in Nat \ {0}
      /\ \A v \in kept : number[v] \in 1..n
      /\ \A v \in kept : number[v] = Root <=> v = new
      /\ \A v, w \in kept : number[v] = number[w] => v = w
      /\ \A k \in 1..n : \E v \in kept : number[v] = k
  <2> HIDE DEF kept
  <2> QED BY <1>1, <1>3, NumberingCounts
<1>5. ws = [k \in 1..n |-> Moved(vertices[Old(k)], number, k = Root)]
  BY DEF Rerooted
<1> HIDE DEF kept, number, ws, n
<1>6. \A v \in kept : Old(number[v]) = v
  BY <1>4
<1>7. DOMAIN ws = 1..n /\ Root \in 1..n
  BY <1>4, <1>5 DEF Root
<1>8. ASSUME NEW v \in kept
      PROVE  MovedAs(vertices[v], ws[number[v]], number, number[v] = Root)
  <2>1. ws[number[v]] = Moved(vertices[v], number, number[v] = Root)
    BY <1>4, <1>5, <1>6
  <2>2. VertexOK(vertices[v])
    BY <1>1 DEF ArenaOK
  <2>3. \A i \in DOMAIN vertices[v].links :
          vertices[v].links[i].target # None => number[vertices[v].links[i].target] \in Nat
    <3> SUFFICES ASSUME NEW i \in DOMAIN vertices[v].links, vertices[v].links[i].target # None
                 PROVE  number[vertices[v].links[i].target] \in Nat
      OBVIOUS
    <3>1. vertices[v].links[i].target \in kept
      BY <1>1 DEF Closed, Targets
    <3> QED BY <1>4, <3>1
  <2> DEFINE isRoot == number[v] = Root
  <2>4. isRoot \in BOOLEAN
    OBVIOUS
  <2>5. ws[number[v]] = Moved(vertices[v], number, isRoot)
    BY <2>1
  <2> HIDE DEF isRoot
  <2>6. MovedAs(vertices[v], Moved(vertices[v], number, isRoot), number, isRoot)
    BY <2>2, <2>3, <2>4, MovedVertex
  <2> QED BY <2>5, <2>6 DEF isRoot
<1> QED BY <1>4, <1>7, <1>8 DEF kept, number, ws, n

(* A re-rooting keeps what an arena is, and the table rebuilt is exact.     *)
LEMMA RerootedArena ==
  ASSUME ArenaOK(vertices), TableOK(vertices, table), NEW new \in DOMAIN vertices \ {Root}
  PROVE  /\ ArenaOK(Rerooted(new))
         /\ TableOK(Rerooted(new), RebuiltTable(Rerooted(new)))
         /\ Rerooted(new)[Root].position = vertices[new].position
         /\ \A u \in DOMAIN Rerooted(new) :
              \E v \in DOMAIN vertices : Rerooted(new)[u].stamp = vertices[v].stamp
         /\ \A rootOffers : KnownOK(vertices, offers) => KnownOK(Rerooted(new), rootOffers)
<1> DEFINE kept   == Reachable(new)
           number == Numbering(kept, new)
           ws     == Rerooted(new)
<1>1. /\ kept \subseteq DOMAIN vertices \ {Root} /\ new \in kept /\ Closed(kept)
      /\ \A u \in kept \ {new} : \E v \in kept : u \in Targets(v)
  BY ReachableKept
<1>2. /\ DOMAIN ws = 1..Cardinality(kept)
      /\ Root \in DOMAIN ws
      /\ \A v \in kept : number[v] \in DOMAIN ws
      /\ \A v \in kept : number[v] = Root <=> v = new
      /\ \A n \in DOMAIN ws : \E v \in kept : number[v] = n
      /\ \A v \in kept : MovedAs(vertices[v], ws[number[v]], number, number[v] = Root)
  BY RerootedVertices
<1> HIDE DEF kept, number, ws
<1>3. \A v \in kept :
        /\ v \in DOMAIN vertices /\ v # Root
        /\ \A i \in DOMAIN vertices[v].links :
             /\ vertices[v].links[i] \in Link
             /\ LinkOK(vertices, vertices[v].position, vertices[v].links[i])
             /\ vertices[v].links[i].target # None => vertices[v].links[i].target \in kept
  <2> SUFFICES ASSUME NEW v \in kept, NEW i \in DOMAIN vertices[v].links
               PROVE  /\ vertices[v].links[i] \in Link
                      /\ LinkOK(vertices, vertices[v].position, vertices[v].links[i])
                      /\ vertices[v].links[i].target # None => vertices[v].links[i].target \in kept
    BY <1>1
  <2>1. v \in DOMAIN vertices
    BY <1>1
  <2>2. vertices[v].links[i].target # None => vertices[v].links[i].target \in kept
    BY <1>1 DEF Closed, Targets
  <2> QED BY <2>1, <2>2, ArenaTyped DEF ArenaOK
<1>4. \A v \in kept :
        /\ VertexOK(ws[number[v]])
        /\ ws[number[v]].position = vertices[v].position
        /\ v # new => ws[number[v]].player = vertices[v].player
        /\ ws[number[v]].key = vertices[v].key
        /\ ws[number[v]].visits = vertices[v].visits
        /\ ws[number[v]].stamp = vertices[v].stamp
        /\ DOMAIN ws[number[v]].links = DOMAIN vertices[v].links
        /\ \A i \in DOMAIN vertices[v].links :
             ws[number[v]].links[i] = ClearLink(Renumbered(vertices[v].links[i], number))
  BY <1>2 DEF MovedAs
<1>5. ASSUME NEW v \in kept, NEW i \in DOMAIN vertices[v].links
      PROVE  LET link  == vertices[v].links[i]
                 moved == ws[number[v]].links[i]
             IN  /\ moved \in Link
                 /\ moved.choice = link.choice
                 /\ moved.timesAvailable = link.timesAvailable
                 /\ link.target = None => moved = link
                 /\ link.target # None /\ number[link.target] = Root =>
                      moved.target = None /\ moved.visits = 0
                 /\ link.target # None /\ number[link.target] # Root =>
                      moved.target = number[link.target] /\ moved.visits = link.visits
  <2> DEFINE link == vertices[v].links[i]
  <2>1. /\ link \in Link
        /\ link.target # None => link.target \in kept
        /\ ws[number[v]].links[i] = ClearLink(Renumbered(link, number))
    BY <1>3, <1>4
  <2>2. link.target # None => number[link.target] \in Nat
    BY <1>2, <2>1
  <2> HIDE DEF link
  <2>3. LET moved == ClearLink(Renumbered(link, number))
         IN  /\ moved \in Link
             /\ moved.choice = link.choice
             /\ moved.timesAvailable = link.timesAvailable
             /\ link.target = None => moved = link
             /\ link.target # None /\ number[link.target] = Root =>
                  moved.target = None /\ moved.visits = 0
             /\ link.target # None /\ number[link.target] # Root =>
                  moved.target = number[link.target] /\ moved.visits = link.visits
    BY <2>1, <2>2, MovedLink
  <2> QED BY <2>1, <2>3 DEF link
<1>6. ASSUME NEW v \in kept, NEW i \in DOMAIN vertices[v].links
      PROVE  LinkOK(ws, vertices[v].position, ws[number[v]].links[i])
  <2> DEFINE link  == vertices[v].links[i]
             moved == ws[number[v]].links[i]
             p     == vertices[v].position
  <2>1. /\ moved \in Link
        /\ moved.choice = link.choice
        /\ moved.timesAvailable = link.timesAvailable
        /\ link.target = None => moved = link
        /\ link.target # None /\ number[link.target] = Root =>
             moved.target = None /\ moved.visits = 0
        /\ link.target # None /\ number[link.target] # Root =>
             moved.target = number[link.target] /\ moved.visits = link.visits
    BY <1>5
  <2>2. /\ link \in Link /\ LinkOK(vertices, p, link)
        /\ link.target # None => link.target \in kept
    BY <1>3
  <2> HIDE DEF link, moved, p
  <2>3. LinkOK(ws, p, moved)
    <3>1. CASE link.target = None
      BY <2>1, <2>2, <3>1 DEF LinkOK
    <3>2. CASE link.target # None /\ number[link.target] = Root
      <4>1. 0 <= moved.timesAvailable
        BY <2>1 DEF Link
      <4> QED BY <2>1, <3>2, <4>1 DEF LinkOK
    <3>3. CASE link.target # None /\ number[link.target] # Root
      <4>1. /\ number[link.target] \in DOMAIN ws
            /\ ws[number[link.target]].position = vertices[link.target].position
            /\ ws[number[link.target]].player = vertices[link.target].player
            /\ ws[number[link.target]].visits = vertices[link.target].visits
        BY <1>2, <1>4, <2>2, <3>3
      <4>2. /\ link.visits <= link.timesAvailable
            /\ vertices[link.target].position = Move[<<p, link.choice>>]
            /\ vertices[link.target].player = PlayerAt[p]
            /\ link.visits <= vertices[link.target].visits
        BY <2>2, <3>3 DEF LinkOK
      <4>3. moved.target # None
        <5>1. number[link.target] \in Nat
          BY <1>2, <4>1
        <5> QED BY <2>1, <3>3, <5>1, NoneIsNoNumber
      <4> QED BY <2>1, <3>3, <4>1, <4>2, <4>3 DEF LinkOK
    <3> QED BY <3>1, <3>2, <3>3
  <2> QED BY <2>3 DEF moved, p
<1>7. ws \in Seq(Vertex)
  <2> DEFINE n == Cardinality(kept)
  <2>1. n \in Nat
    <3>1. DOMAIN vertices = 1..Len(vertices) /\ Len(vertices) \in Nat
      BY ArenaTyped
    <3>2. IsFiniteSet(1..Len(vertices))
      BY <3>1, FS_Interval
    <3>3. kept \in SUBSET (1..Len(vertices))
      BY <1>1, <3>1
    <3> QED BY <3>2, <3>3, FS_Subset, FS_CardinalityType
  <2>2. \A k \in DOMAIN ws : ws[k] \in Vertex
    BY <1>2, <1>4 DEF VertexOK
  <2>3. ws = [k \in DOMAIN ws |-> ws[k]]
    BY DEF ws, Rerooted
  <2>4. DOMAIN ws = 1..n
    BY <1>2
  <2> HIDE DEF n
  <2>5. ws \in [1..n -> Vertex]
    BY <2>2, <2>3, <2>4
  <2> QED BY <2>1, <2>5, IsASeq
<1>8. \A u \in DOMAIN ws : VertexOK(ws[u])
  BY <1>2, <1>4
<1>9. ASSUME NEW u \in DOMAIN ws, NEW i \in DOMAIN ws[u].links
      PROVE  LinkOK(ws, ws[u].position, ws[u].links[i])
  <2>1. PICK v \in kept : number[v] = u
    BY <1>2
  <2>2. i \in DOMAIN vertices[v].links /\ ws[u].position = vertices[v].position
    BY <1>4, <2>1
  <2> QED BY <1>6, <2>1, <2>2
<1>10. ASSUME NEW u \in DOMAIN ws \ {Root} PROVE HasParent(ws, u)
  <2>1. PICK t \in kept : number[t] = u
    BY <1>2
  <2>2. t # new
    BY <1>2, <2>1
  <2>3. PICK v \in kept : t \in Targets(v)
    BY <1>1, <2>1, <2>2
  <2>4. PICK i \in DOMAIN vertices[v].links :
          vertices[v].links[i].target = t /\ t # None
    BY <2>3 DEF Targets
  <2>5. ws[number[v]].links[i].target = u
    BY <1>5, <2>1, <2>3, <2>4
  <2>6. number[v] \in DOMAIN ws /\ i \in DOMAIN ws[number[v]].links
    BY <1>2, <1>4, <2>3, <2>4
  <2> QED BY <2>5, <2>6 DEF HasParent
<1>11. ArenaOK(ws)
  BY <1>2, <1>7, <1>8, <1>9, <1>10 DEF ArenaOK
<1>12. TableOK(ws, RebuiltTable(ws))
  <2> DEFINE found == RebuiltTable(ws)
  <2>1. found = {v \in DOMAIN ws \ {Root} : ws[v].key # None}
    BY DEF RebuiltTable
  <2>2. ASSUME NEW u \in found, NEW w \in found,
               ws[u].key = ws[w].key, ws[u].player = ws[w].player
        PROVE  u = w
    <3>1. /\ u \in DOMAIN ws /\ u # Root /\ ws[u].key # None
          /\ w \in DOMAIN ws /\ w # Root /\ ws[w].key # None
      BY <2>1
    <3>2. PICK x \in kept : number[x] = u
      BY <1>2, <3>1
    <3>3. PICK y \in kept : number[y] = w
      BY <1>2, <3>1
    <3>4. x # new /\ y # new
      BY <1>2, <3>1, <3>2, <3>3
    <3>5. /\ vertices[x].key = vertices[y].key /\ vertices[x].key # None
          /\ vertices[x].player = vertices[y].player
      BY <1>4, <2>2, <3>1, <3>2, <3>3, <3>4
    <3>6. x \in table /\ y \in table
      BY <1>3, <3>2, <3>3, <3>5 DEF TableOK
    <3> QED BY <3>2, <3>3, <3>5, <3>6 DEF TableOK
  <2> QED BY <2>1, <2>2 DEF TableOK
<1>13. ws[Root].position = vertices[new].position
  BY <1>1, <1>2, <1>4
<1>14. ASSUME NEW u \in DOMAIN ws PROVE \E v \in DOMAIN vertices : ws[u].stamp = vertices[v].stamp
  <2>1. PICK v \in kept : number[v] = u
    BY <1>2
  <2> QED BY <1>3, <1>4, <2>1
<1>15. ASSUME NEW rootOffers, KnownOK(vertices, offers) PROVE KnownOK(ws, rootOffers)
  <2> SUFFICES ASSUME NEW u \in DOMAIN ws
               PROVE  Knows(ws[u], IF u = Root THEN rootOffers ELSE ChoicesInto(ws[u].position))
    BY DEF KnownOK
  <2>1. PICK v \in kept : number[v] = u
    BY <1>2
  <2>2. /\ ws[u].position = vertices[v].position
        /\ SameChoices(vertices[v], ws[u])
        /\ u = Root => ~ws[u].linksMatchChoices
    BY <1>2, <2>1 DEF MovedAs
  <2>3. CASE u = Root
    BY <2>2, <2>3 DEF Knows
  <2>4. CASE u # Root
    <3> DEFINE choices == ChoicesInto(vertices[v].position)
    <3>1. Knows(vertices[v], choices)
      BY <1>3, <1>15, <2>1 DEF KnownOK
    <3> HIDE DEF choices
    <3>2. Knows(ws[u], choices)
      BY <2>2, <3>1, SameChoicesKnown
    <3> QED BY <2>2, <2>4, <3>2 DEF choices
  <2> QED BY <2>3, <2>4
<1> QED BY <1>11, <1>12, <1>13, <1>14, <1>15 DEF ws


LEMMA ReuseStep ==
  ASSUME Inv, NEW choice \in ChoicesInto(here), PlayAndReuse(choice)
  PROVE  Inv'
<1> DEFINE links == vertices[Root].links
           taken == {i \in DOMAIN links : links[i].choice = choice /\ links[i].target # None}
<1>1. /\ ArenaOK(vertices) /\ TableOK(vertices, table) /\ StampsOK
      /\ vertices[Root].position = here /\ Root \in DOMAIN vertices /\ pc = "idle"
      /\ KnownOK(vertices, offers)
  BY DEF Inv, PlayAndReuse, ArenaOK
<1>o. offers' \subseteq ChoicesInto(here')
  BY DEF PlayAndReuse, Offers
<1>2. /\ here' = Move[<<here, choice>>] /\ pc' = pc
      /\ IF taken = {} THEN FreshGraph(here')
         ELSE /\ \E i \in taken : vertices' = Rerooted(links[i].target)
              /\ table' = RebuiltTable(vertices')
              /\ stamp' = stamp
  BY DEF PlayAndReuse
<1>3. CASE taken = {}
  <2> DEFINE p      == here'
             vertex == NewVertex(p, PlayerAt[p], None)
  <2>1. /\ <<here, choice>> \in DOMAIN Move
        /\ vertices' = <<vertex>> /\ table' = {} /\ stamp' = 1
    BY <1>2, <1>3 DEF FreshGraph, ChoicesInto
  <2>2. p \in Position /\ PlayerAt[p] \in Range(PlayerAt)
    BY <1>2, <2>1, GraphSearchAssumption DEF GraphSearchAssumption, Range
  <2>3. VertexOK(vertex)
    BY <2>2, NewVertexOK
  <2>4. /\ vertex.key = None /\ vertex.stamp = 0 /\ vertex.position = p
        /\ DOMAIN vertex.links = {} /\ ~vertex.linksMatchChoices
    BY DEF NewVertex
  <2> HIDE DEF vertex, p
  <2>5. /\ vertices' \in Seq(Vertex) /\ DOMAIN vertices' = {1} /\ vertices'[1] = vertex
    BY <2>1, <2>3 DEF VertexOK
  <2>6. ArenaOK(vertices')
    BY <2>3, <2>4, <2>5 DEF ArenaOK, Root
  <2>7. TableOK(vertices', table')
    BY <2>1, <2>5 DEF TableOK, Root
  <2>8. StampsOK'
    BY <2>1, <2>4, <2>5, GraphSearchAssumption DEF StampsOK, GraphSearchAssumption
  <2>9. vertices'[Root].position = here'
    BY <2>4, <2>5 DEF Root, p
  <2>10. KnownOK(vertices', offers')
    BY <2>4, <2>5 DEF KnownOK, Knows
  <2> QED BY <1>1, <1>2, <1>o, <2>6, <2>7, <2>8, <2>9, <2>10 DEF Inv
<1>4. CASE taken # {}
  <2>1. PICK i \in taken : vertices' = Rerooted(links[i].target)
    BY <1>2, <1>4
  <2> DEFINE new == links[i].target
  <2>2. /\ table' = RebuiltTable(vertices') /\ stamp' = stamp
    BY <1>2, <1>4
  <2>3. i \in DOMAIN links /\ links[i].choice = choice /\ links[i].target # None
    OBVIOUS
  <2>4. LinkOK(vertices, here, links[i])
    BY <1>1, <2>3 DEF ArenaOK
  <2>5. /\ new \in DOMAIN vertices \ {Root}
        /\ vertices[new].position = here'
    BY <1>2, <2>3, <2>4 DEF LinkOK
  <2>6. vertices' = Rerooted(new)
    BY <2>1
  <2> HIDE DEF new
  <2>7. /\ ArenaOK(vertices')
        /\ TableOK(vertices', table')
        /\ vertices'[Root].position = here'
        /\ \A u \in DOMAIN vertices' :
             \E v \in DOMAIN vertices : vertices'[u].stamp = vertices[v].stamp
        /\ KnownOK(vertices', offers')
    BY <1>1, <2>2, <2>5, <2>6, RerootedArena
  <2>8. StampsOK'
    BY <1>1, <2>2, <2>7 DEF StampsOK
  <2> QED BY <1>1, <1>2, <1>o, <2>7, <2>8 DEF Inv
<1> QED BY <1>3, <1>4

-----------------------------------------------------------------------------

LEMMA NextInv == Inv /\ [Next]_vars => Inv'
<1> SUFFICES ASSUME Inv, [Next]_vars PROVE Inv'
  OBVIOUS
<1>1. CASE BeginIteration
  BY <1>1, BeginStep
<1>2. CASE ReachTerminal
  BY <1>2, ReachTerminalStep
<1>3. CASE Descend
  BY <1>3, DescendStep
<1>4. CASE BackUp
  BY <1>4, BackUpStep
<1>5. ASSUME NEW choice \in offers, PlayAndReuse(choice) PROVE Inv'
  <2>1. choice \in ChoicesInto(here)
    BY DEF Inv
  <2> QED BY <1>5, <2>1, ReuseStep
<1>6. CASE UNCHANGED vars
  BY <1>6, StutterStep
<1> QED BY <1>1, <1>2, <1>3, <1>4, <1>5, <1>6 DEF Next

(* Whatever the game and whatever is searched, the graph GraphSearcher      *)
(* keeps between its loops (graph/search.rs, run_iteration, reuse_subtree)  *)
(* is of the shape its descent, its backup and its re-rooting rely on: each *)
(* vertex typed and of its position, each link backed and leading where its *)
(* choice does, the table exact, no stamp ahead of the counter.             *)
THEOREM GraphIsSound == Spec => []Inv
<1> QED BY InitInv, NextInv, PTL DEF Spec

(* The guard of a repetition: in run_iteration a vertex holds the stamp of  *)
(* this iteration exactly when the path has entered it, and no vertex is    *)
(* entered twice, through wrapped stamps and re-rootings.                   *)
THEOREM StampsAlwaysAreThePath == Spec => []StampsAreThePath
<1>1. Inv => StampsAreThePath
  BY DEF Inv, PathOK, StampsAreThePath, IsInjective, Range
<1> QED BY <1>1, GraphIsSound, PTL

(* resolve, merges and reroot never leave a link astray: it leads to the    *)
(* vertex of the position its choice leads to, kept for the player who      *)
(* makes the choice, and the descent is where its path says.                *)
THEOREM LinksAlwaysLeadWhereChoicesDo == Spec => []LinksLeadWhereChoicesDo
<1>1. Inv => LinksLeadWhereChoicesDo
  BY DEF Inv, ArenaOK, LinkOK, LinksLeadWhereChoicesDo
<1> QED BY <1>1, GraphIsSound, PTL

(* Graph::table, grown by resolve and rebuilt by reroot, finds each keyed   *)
(* vertex but the root, and never two under one key and mover.              *)
THEOREM TableStaysExact == Spec => []TableIsExact
<1>1. Inv => TableIsExact
  BY DEF Inv, TableOK, TableIsExact
<1> QED BY <1>1, GraphIsSound, PTL

(* No cycle of the game leads back to the root, whose visits nobody reads   *)
(* as a successor's, and reroot drops every vertex its root does not reach. *)
THEOREM RootAloneNeverHasAParent == Spec => []RootAloneHasNoParent
<1>1. ASSUME Inv PROVE RootAloneHasNoParent
  <2>1. ArenaOK(vertices) /\ Root \in DOMAIN vertices
    BY <1>1 DEF Inv, ArenaOK
  <2>2. ASSUME NEW v \in DOMAIN vertices PROVE Root \notin Targets(v)
    <3> SUFFICES ASSUME NEW i \in DOMAIN vertices[v].links,
                        vertices[v].links[i].target = Root, Root # None
                 PROVE  FALSE
      BY DEF Targets
    <3>1. LinkOK(vertices, vertices[v].position, vertices[v].links[i])
      BY <2>1 DEF ArenaOK
    <3> QED BY <3>1 DEF LinkOK
  <2>3. ASSUME NEW u \in DOMAIN vertices \ {Root}
        PROVE  \E v \in DOMAIN vertices : u \in Targets(v)
    <3>1. PICK v \in DOMAIN vertices :
            \E i \in DOMAIN vertices[v].links : vertices[v].links[i].target = u
      BY <2>1 DEF ArenaOK, HasParent
    <3>2. u # None
      <4>1. u \in Nat
        BY <2>1, ArenaTyped
      <4> QED BY <4>1, NoneIsNoNumber
    <3> QED BY <3>1, <3>2 DEF Targets
  <2> QED BY <2>1, <2>2, <2>3 DEF RootAloneHasNoParent
<1> QED BY <1>1, GraphIsSound, PTL

(* A link's visits are evidence wherever UCB and the answer read them: each *)
(* was an opportunity, and each credited a successor the link still names,  *)
(* after back_propagate through a path with merges and after ClearLink.     *)
THEOREM VisitedLinksAlwaysHaveEvidence == Spec => []VisitedLinksHaveEvidence
<1>1. ASSUME Inv PROVE VisitedLinksHaveEvidence
  <2> SUFFICES ASSUME NEW v \in DOMAIN vertices, NEW i \in DOMAIN vertices[v].links,
                      vertices[v].links[i].visits > 0
               PROVE  LET link == vertices[v].links[i]
                      IN  /\ link.visits <= link.timesAvailable
                          /\ link.target # None
                          /\ link.visits <= vertices[link.target].visits
    BY DEF VisitedLinksHaveEvidence
  <2>1. LinkOK(vertices, vertices[v].position, vertices[v].links[i])
    BY <1>1 DEF Inv, ArenaOK
  <2>2. vertices[v].links[i].visits # 0
    OBVIOUS
  <2> QED BY <2>1, <2>2 DEF LinkOK
<1> QED BY <1>1, GraphIsSound, PTL

(* A vertex whose choices expand no longer enumerates has exactly the       *)
(* choices of its position, or at the root those of the position searched,  *)
(* each once, through merges and re-rootings.                               *)
THEOREM KnownChoicesAlwaysAreTheChoices == Spec => []KnownChoicesAreTheChoices
<1>1. ASSUME Inv PROVE KnownChoicesAreTheChoices
  <2> SUFFICES ASSUME NEW v \in DOMAIN vertices
               PROVE  LET choices == [i \in DOMAIN vertices[v].links |->
                                        vertices[v].links[i].choice]
                      IN  /\ IsInjective(choices)
                          /\ vertices[v].linksMatchChoices =>
                               Range(choices) = IF v = Root THEN offers
                                                ELSE ChoicesInto(vertices[v].position)
    BY DEF KnownChoicesAreTheChoices
  <2> DEFINE links   == vertices[v].links
             choices == [i \in DOMAIN links |-> links[i].choice]
  <2>1. \A i, j \in DOMAIN links : links[i].choice = links[j].choice => i = j
    BY <1>1 DEF Inv, ArenaOK, VertexOK
  <2>2. Knows(vertices[v], IF v = Root THEN offers ELSE ChoicesInto(vertices[v].position))
    BY <1>1 DEF Inv, KnownOK
  <2>3. /\ DOMAIN choices = DOMAIN links
        /\ \A i \in DOMAIN links : choices[i] = links[i].choice
        /\ LinkedChoices(vertices[v]) = {links[i].choice : i \in DOMAIN links}
    BY DEF LinkedChoices
  <2> HIDE DEF links, choices
  <2>4. IsInjective(choices)
    BY <2>1, <2>3 DEF IsInjective
  <2>5. Range(choices) = LinkedChoices(vertices[v])
    BY <2>3 DEF Range
  <2> QED BY <2>2, <2>4, <2>5 DEF links, choices, Knows
<1> QED BY <1>1, GraphIsSound, PTL
=============================================================================
