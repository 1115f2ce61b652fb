------------------------ MODULE ObservedSearchProofs ------------------------
(***************************************************************************)
(* What ObservedSearch keeps for any players, moves, views and decks.      *)
(***************************************************************************)
EXTENDS ObservedSearch, RankProofs, SequenceTheorems

-----------------------------------------------------------------------------
(* Keys, lines and what is seen of them.                                    *)

LEMMA LineIsASequence ==
  ASSUME NEW line \in Line
  PROVE  line \in Seq(Move) /\ Len(line) \in 0..MaxMoves
BY DEF Line

LEMMA SequenceIsALine ==
  ASSUME NEW line \in Seq(Move), Len(line) <= MaxMoves, MaxMoves \in Nat
  PROVE  line \in Line
BY LenProperties DEF Line

LEMMA KeyOfAMove ==
  ASSUME NEW observer \in Player, NEW mover, NEW m \in Move
  PROVE  ObservedKey(observer, mover, m) \in Key
BY DEF ObservedKey, Key

LEMMA SeenIsASequence ==
  ASSUME NEW observer \in Player, NEW line \in Seq(Move), NEW from \in Nat
  PROVE  /\ Seen(observer, line, from) \in Seq(Key)
         /\ Len(Seen(observer, line, from)) = Len(line)
<1> DEFINE key(i) == ObservedKey(observer, Turn(from + i - 1), line[i])
<1>1. Len(line) \in Nat /\ DOMAIN line = 1..Len(line)
  BY LenProperties
<1>2. \A i \in 1..Len(line) : key(i) \in Key
  BY KeyOfAMove, ElementOfSeq
<1>3. Seen(observer, line, from) = [i \in 1..Len(line) |-> key(i)]
  BY <1>1 DEF Seen
<1> HIDE DEF key
<1>4. [i \in 1..Len(line) |-> key(i)] \in Seq(Key)
  BY <1>1, <1>2, IsASeq
<1> QED BY <1>1, <1>3, <1>4, LenProperties

(* A line that has grown by a move has been seen to grow by its key.        *)
LEMMA SeenAppend ==
  ASSUME NEW observer \in Player, NEW line \in Seq(Move), NEW from \in Nat, NEW m \in Move
  PROVE  Seen(observer, Append(line, m), from)
           = Append(Seen(observer, line, from), ObservedKey(observer, Turn(from + Len(line)), m))
<1> DEFINE longer == Append(line, m)
           key    == ObservedKey(observer, Turn(from + Len(line)), m)
           seen   == Seen(observer, line, from)
<1>1. /\ longer \in Seq(Move) /\ Len(line) \in Nat /\ Len(longer) = Len(line) + 1
      /\ \A i \in 1..Len(line) : longer[i] = line[i]
      /\ longer[Len(line) + 1] = m
      /\ DOMAIN line = 1..Len(line) /\ DOMAIN longer = 1..Len(longer)
  BY AppendProperties, LenProperties
<1>2. seen \in Seq(Key) /\ Len(seen) = Len(line) /\ key \in Key
  BY SeenIsASequence, KeyOfAMove
<1>3. /\ Seen(observer, longer, from) \in Seq(Key)
      /\ Len(Seen(observer, longer, from)) = Len(line) + 1
  BY <1>1, SeenIsASequence
<1>4. /\ Append(seen, key) \in Seq(Key)
      /\ Len(Append(seen, key)) = Len(line) + 1
      /\ \A i \in 1..Len(line) : Append(seen, key)[i] = seen[i]
      /\ Append(seen, key)[Len(line) + 1] = key
  BY <1>2, AppendProperties
<1>a. \A i \in 1..(Len(line) + 1) : i \in 1..Len(line) \/ i = Len(line) + 1
  BY <1>1
<1>5. ASSUME NEW i \in 1..(Len(line) + 1)
      PROVE  Seen(observer, longer, from)[i] = Append(seen, key)[i]
  <2>1. Seen(observer, longer, from)[i] = ObservedKey(observer, Turn(from + i - 1), longer[i])
    BY <1>1 DEF Seen
  <2>2. CASE i \in 1..Len(line)
    <3>1. seen[i] = ObservedKey(observer, Turn(from + i - 1), line[i])
      BY <1>1, <2>2 DEF Seen
    <3> QED BY <1>1, <1>4, <2>1, <2>2, <3>1
  <2>3. CASE i = Len(line) + 1
    <3>1. from + i - 1 = from + Len(line)
      BY <1>1, <2>3
    <3> QED BY <1>1, <1>4, <2>1, <2>3, <3>1
  <2> QED BY <1>a, <2>2, <2>3
<1> HIDE DEF longer, key, seen
<1>6. Seen(observer, longer, from) = Append(seen, key)
  BY <1>3, <1>4, <1>5, SeqEqual
<1> QED BY <1>6 DEF longer, key, seen

-----------------------------------------------------------------------------
(* Without leaves the elements that are not in the set, each once.          *)

(* How it comes to its result: what it has kept of the first i elements.    *)
Steps(s, S, f, n) ==
  /\ f = [i \in 0..n |-> f[i]] /\ f[0] = << >>
  /\ \A i \in 1..n : f[i] = IF s[i] \notin S \union Elements(f[i - 1])
                            THEN Append(f[i - 1], s[i]) ELSE f[i - 1]

Passed(s, S) ==
  CHOOSE f : f = [i \in 0..Len(s) |->
                   IF i = 0 THEN << >>
                   ELSE IF s[i] \notin S \union Elements(f[i - 1])
                        THEN Append(f[i - 1], s[i]) ELSE f[i - 1]]

LEMMA StepsExist ==
  ASSUME NEW s, NEW S, NEW n \in Nat
  PROVE  \E f : Steps(s, S, f, n)
<1> DEFINE Missing == {k \in Nat : ~ \E f : Steps(s, S, f, k)}
<1> SUFFICES ASSUME Missing # {} PROVE FALSE
  OBVIOUS
<1>1. PICK k \in Missing : \A j \in Missing : k <= j
  <2>1. Missing \in SUBSET Nat
    OBVIOUS
  <2> HIDE DEF Missing
  <2> QED BY <2>1, LeastNatural
<1>2. k # 0
  <2>1. Steps(s, S, [i \in {0} |-> << >>], 0)
    BY DEF Steps
  <2> QED BY <2>1
<1>3. k \in Nat /\ k - 1 \in Nat /\ k - 1 \notin Missing
  BY <1>1, <1>2
<1>4. PICK g : Steps(s, S, g, k - 1)
  BY <1>3
<1> DEFINE f == [i \in 0..k |->
                   IF i < k THEN g[i]
                   ELSE IF s[k] \notin S \union Elements(g[k - 1])
                        THEN Append(g[k - 1], s[k]) ELSE g[k - 1]]
<1>5. f = [i \in 0..k |-> f[i]] /\ f[0] = << >>
  BY <1>2, <1>3, <1>4 DEF Steps
<1>6. ASSUME NEW i \in 1..k
      PROVE  f[i] = IF s[i] \notin S \union Elements(f[i - 1])
                    THEN Append(f[i - 1], s[i]) ELSE f[i - 1]
  <2>1. f[i - 1] = g[i - 1]
    BY <1>3
  <2>2. CASE i < k
    <3>1. i \in 1..(k - 1) /\ f[i] = g[i]
      BY <1>3, <2>2
    <3> QED BY <1>4, <2>1, <3>1 DEF Steps
  <2>3. CASE i = k
    BY <1>3, <2>1, <2>3
  <2> QED BY <1>3, <2>2, <2>3
<1> HIDE DEF f
<1>7. Steps(s, S, f, k)
  BY <1>5, <1>6 DEF Steps
<1> QED BY <1>1, <1>7

LEMMA PassedSteps ==
  ASSUME NEW s, NEW S, Len(s) \in Nat
  PROVE  Steps(s, S, Passed(s, S), Len(s))
<1>1. PICK f : Steps(s, S, f, Len(s))
  BY StepsExist
<1> DEFINE F(g) == [i \in 0..Len(s) |->
                     IF i = 0 THEN << >>
                     ELSE IF s[i] \notin S \union Elements(g[i - 1])
                          THEN Append(g[i - 1], s[i]) ELSE g[i - 1]]
<1>2. f = F(f)
  <2>1. ASSUME NEW i \in 0..Len(s)
        PROVE  f[i] = IF i = 0 THEN << >>
                      ELSE IF s[i] \notin S \union Elements(f[i - 1])
                           THEN Append(f[i - 1], s[i]) ELSE f[i - 1]
    <3>1. i = 0 \/ i \in 1..Len(s)
      OBVIOUS
    <3> QED BY <1>1, <3>1 DEF Steps
  <2>2. f = [i \in 0..Len(s) |-> f[i]]
    BY <1>1 DEF Steps
  <2> QED BY <2>1, <2>2
<1>3. Passed(s, S) = F(Passed(s, S))
  BY <1>2 DEF Passed
<1>4. \A i \in 1..Len(s) : i \in 0..Len(s) /\ i # 0
  OBVIOUS
<1> DEFINE p == Passed(s, S)
<1>5. p = F(p)
  BY <1>3
<1> HIDE DEF p
<1>6. p = [i \in 0..Len(s) |-> p[i]] /\ p[0] = << >>
  BY <1>5
<1>7. ASSUME NEW i \in 1..Len(s)
      PROVE  p[i] = IF s[i] \notin S \union Elements(p[i - 1])
                    THEN Append(p[i - 1], s[i]) ELSE p[i - 1]
  BY <1>4, <1>5
<1>8. Steps(s, S, p, Len(s))
  BY <1>6, <1>7 DEF Steps
<1> QED BY <1>8 DEF p

LEMMA PassedElements ==
  ASSUME NEW T, NEW s \in Seq(T), NEW S
  PROVE  LET t == Passed(s, S)[Len(s)]
         IN  /\ t \in Seq(T)
             /\ Elements(t) = Elements(s) \ S
             /\ IsInjective(t)
<1> DEFINE f == Passed(s, S)
           Met(i) == {s[j] : j \in 1..i}
           Right(i) == /\ f[i] \in Seq(T)
                       /\ Elements(f[i]) = Met(i) \ S
                       /\ IsInjective(f[i])
           Wrong == {i \in 0..Len(s) : ~Right(i)}
<1>1. /\ Len(s) \in Nat /\ DOMAIN s = 1..Len(s)
      /\ \A i \in 1..Len(s) : s[i] \in T
  BY LenProperties, ElementOfSeq
<1>2. Steps(s, S, f, Len(s))
  BY <1>1, PassedSteps
<1>3. Wrong = {}
  <2> SUFFICES ASSUME Wrong # {} PROVE FALSE
    OBVIOUS
  <2>1. PICK k \in Wrong : \A j \in Wrong : k <= j
    <3>1. Wrong \in SUBSET Nat
      BY <1>1
    <3> HIDE DEF Wrong
    <3> QED BY <3>1, LeastNatural
  <2>2. Right(0)
    <3>1. f[0] = << >> /\ Met(0) = {}
      BY <1>2 DEF Steps
    <3> HIDE DEF f, Met
    <3>2. f[0] \in Seq(T) /\ Elements(f[0]) = {} /\ IsInjective(f[0])
      BY <3>1 DEF Elements, IsInjective
    <3> QED BY <3>1, <3>2
  <2>3. k \in 1..Len(s) /\ k - 1 \in 0..Len(s) /\ ~(k <= k - 1)
    BY <1>1, <2>1, <2>2
  <2>4. Right(k - 1)
    BY <2>1, <2>3
  <2> DEFINE before == f[k - 1]
  <2>5. before \in Seq(T) /\ Elements(before) = Met(k - 1) \ S
    BY <2>4
  <2>9. IsInjective(before)
    BY <2>4
  <2>6. /\ Met(k) = Met(k - 1) \union {s[k]}
        /\ f[k] = IF s[k] \notin S \union Elements(before) THEN Append(before, s[k]) ELSE before
    <3>1. f[k] = IF s[k] \notin S \union Elements(before) THEN Append(before, s[k]) ELSE before
      BY <1>2, <2>3 DEF Steps
    <3>2. \A j \in 1..k : j \in 1..(k - 1) \/ j = k
      BY <2>3
    <3>3. 1..(k - 1) \subseteq 1..k /\ k \in 1..k
      BY <2>3
    <3> QED BY <3>1, <3>2, <3>3
  <2>7. CASE s[k] \in S \union Elements(before)
    <3>1. f[k] = before
      BY <2>6, <2>7
    <3> HIDE DEF f, Met, before
    <3>2. Met(k) \ S = Met(k - 1) \ S
      BY <2>5, <2>6, <2>7
    <3> QED BY <2>1, <2>5, <2>9, <3>1, <3>2
  <2>8. CASE s[k] \notin S \union Elements(before)
    <3>1. /\ f[k] \in Seq(T) /\ Len(before) \in Nat
          /\ DOMAIN before = 1..Len(before) /\ DOMAIN f[k] = 1..(Len(before) + 1)
          /\ \A i \in 1..Len(before) : f[k][i] = before[i]
          /\ f[k][Len(before) + 1] = s[k]
      <4> HIDE DEF f
      <4> QED BY <1>1, <2>3, <2>5, <2>6, <2>8, AppendProperties, LenProperties
    <3>2. \A i \in DOMAIN f[k] : i \in DOMAIN before \/ i = Len(before) + 1
      BY <3>1
    <3>3. DOMAIN before \subseteq DOMAIN f[k] /\ Len(before) + 1 \in DOMAIN f[k]
      BY <3>1
    <3> HIDE DEF f, before, Met
    <3>4. Elements(f[k]) = Elements(before) \union {s[k]}
      BY <3>1, <3>2, <3>3 DEF Elements
    <3>5. Elements(f[k]) = Met(k) \ S
      BY <2>5, <2>6, <2>8, <3>4
    <3>6. IsInjective(f[k])
      BY <2>8, <2>9, <3>1, <3>2 DEF IsInjective, Elements
    <3> QED BY <2>1, <3>1, <3>5, <3>6
  <2> QED BY <2>7, <2>8
<1>4. Met(Len(s)) = Elements(s)
  BY <1>1 DEF Elements
<1>5. Len(s) \in 0..Len(s)
  BY <1>1
<1>6. Right(Len(s))
  BY <1>3, <1>5
<1> QED BY <1>4, <1>6

LEMMA UnseenElements ==
  ASSUME NEW nodes, NEW path, NEW keys \in Seq(Key)
  PROVE  LET unseen == Unseen(nodes, path, keys)
         IN  /\ unseen \in Seq(Key)
             /\ Elements(unseen) = Elements(keys) \ Elements(Children(nodes, path))
             /\ IsInjective(unseen)
<1> DEFINE S == Elements(Children(nodes, path))
<1>1. Unseen(nodes, path, keys) = Passed(keys, S)[Len(keys)]
  BY DEF Unseen, Without, Passed
<1> HIDE DEF S
<1>2. LET t == Passed(keys, S)[Len(keys)]
      IN  /\ t \in Seq(Key)
          /\ Elements(t) = Elements(keys) \ S
          /\ IsInjective(t)
  BY PassedElements
<1> QED BY <1>1, <1>2 DEF S

LEMMA ElementsOfConcat ==
  ASSUME NEW T, NEW s \in Seq(T), NEW t \in Seq(T)
  PROVE  /\ Elements(s \o t) = Elements(s) \union Elements(t)
         /\ IsInjective(s) /\ IsInjective(t) /\ Elements(s) \intersect Elements(t) = {}
              => IsInjective(s \o t)
<1> DEFINE u == s \o t
           m == Len(s)
           n == Len(t)
<1>1. /\ u \in Seq(T) /\ m \in Nat /\ n \in Nat /\ Len(u) = m + n
      /\ \A i \in 1..(m + n) : u[i] = IF i <= m THEN s[i] ELSE t[i - m]
      /\ DOMAIN s = 1..m /\ DOMAIN t = 1..n /\ DOMAIN u = 1..(m + n)
  BY ConcatProperties, LenProperties
<1> HIDE DEF u, m, n
<1>2. /\ \A i \in DOMAIN s : i \in DOMAIN u /\ u[i] = s[i]
      /\ \A i \in DOMAIN t : i + m \in DOMAIN u /\ u[i + m] = t[i]
      /\ \A i \in DOMAIN u : \/ i \in DOMAIN s
                             \/ i - m \in DOMAIN t /\ u[i] = t[i - m] /\ i = (i - m) + m
  BY <1>1
<1>3. Elements(u) = Elements(s) \union Elements(t)
  BY <1>2 DEF Elements
<1>4. ASSUME IsInjective(s), IsInjective(t), Elements(s) \intersect Elements(t) = {}
      PROVE  IsInjective(u)
  BY <1>2, <1>4 DEF IsInjective, Elements
<1> QED BY <1>3, <1>4 DEF u

LEMMA ElementsOfOne ==
  ASSUME NEW k
  PROVE  Elements(<<k>>) = {k} /\ IsInjective(<<k>>)
<1>1. DOMAIN <<k>> = {1} /\ <<k>>[1] = k
  OBVIOUS
<1> QED BY <1>1 DEF Elements, IsInjective

-----------------------------------------------------------------------------
(* What the operations of a node keep of a tree.                            *)

Node == [visits : Nat, available : Nat, reward : Nat, player : Nat, children : Seq(Key)]

(* A node is there if and only if its parent lists it, once.                *)
IsTree(nodes) ==
  /\ Root \in DOMAIN nodes
  /\ nodes \in [DOMAIN nodes -> Node]
  /\ \A at \in DOMAIN nodes :
       /\ at \in Seq(Key)
       /\ IsInjective(nodes[at].children)
       /\ \A k \in Elements(nodes[at].children) : Append(at, k) \in DOMAIN nodes
       /\ at # Root => Front(at) \in DOMAIN nodes
                       /\ Last(at) \in Elements(nodes[Front(at)].children)

LEMMA FrontOfAppend ==
  ASSUME NEW at \in Seq(Key), NEW k \in Key
  PROVE  Front(Append(at, k)) = at /\ Last(Append(at, k)) = k /\ Append(at, k) # Root
<1> DEFINE long == Append(at, k)
           n    == Len(at)
<1>1. /\ n \in Nat /\ long \in Seq(Key) /\ Len(long) = n + 1 /\ long # << >>
      /\ \A i \in 1..n : long[i] = at[i]
      /\ long[n + 1] = k
      /\ at \in [1..n -> Key]
  BY AppendProperties, LenProperties
<1>2. Last(long) = k
  BY <1>1 DEF Last
<1> HIDE DEF long
<1>3. /\ SubSeq(long, 1, n) \in Seq(Key)
      /\ Len(SubSeq(long, 1, n)) = n
      /\ \A i \in 1..n : SubSeq(long, 1, n)[i] = long[i]
  <2>1. \A i \in 1..n : long[i] \in Key
    BY <1>1
  <2>2. /\ SubSeq(long, 1, n) \in Seq(Key)
        /\ Len(SubSeq(long, 1, n)) = IF 1 <= n THEN n - 1 + 1 ELSE 0
        /\ \A i \in 1 .. n - 1 + 1 : SubSeq(long, 1, n)[i] = long[1 + i - 1]
    <3> HIDE DEF n
    <3> QED BY <1>1, <2>1, SubSeqProperties
  <2> HIDE DEF n
  <2> QED BY <1>1, <2>2
<1>4. SubSeq(long, 1, n) = at
  BY <1>1, <1>3, SeqEqual
<1>5. Front(long) = at
  <2>1. Len(long) - 1 = n
    BY <1>1
  <2> QED BY <1>4, <2>1 DEF Front
<1> QED BY <1>1, <1>2, <1>5 DEF long, Root

LEMMA ChildIsListed ==
  ASSUME NEW nodes, IsTree(nodes), NEW at \in Seq(Key), NEW k \in Key
  PROVE  Append(at, k) \in DOMAIN nodes
           <=> at \in DOMAIN nodes /\ k \in Elements(nodes[at].children)
BY FrontOfAppend DEF IsTree

(* The same, in the terms in which the operations are reasoned about.       *)
LEMMA TreeOfChildren ==
  ASSUME NEW nodes, Root \in DOMAIN nodes, nodes \in [DOMAIN nodes -> Node],
         DOMAIN nodes \subseteq Seq(Key),
         \A at \in DOMAIN nodes : IsInjective(nodes[at].children),
         \A at \in Seq(Key), k \in Key :
           Append(at, k) \in DOMAIN nodes
             <=> at \in DOMAIN nodes /\ k \in Elements(nodes[at].children)
  PROVE  IsTree(nodes)
<1> SUFFICES ASSUME NEW at \in DOMAIN nodes
             PROVE  /\ \A k \in Elements(nodes[at].children) : Append(at, k) \in DOMAIN nodes
                    /\ at # Root => Front(at) \in DOMAIN nodes
                                    /\ Last(at) \in Elements(nodes[Front(at)].children)
  BY DEF IsTree
<1>1. at \in Seq(Key) /\ nodes[at].children \in Seq(Key)
  BY DEF Node
<1>2. \A k \in Elements(nodes[at].children) : k \in Key
  BY <1>1, LenProperties, ElementOfSeq DEF Elements
<1>3. ASSUME at # Root
      PROVE  Front(at) \in DOMAIN nodes /\ Last(at) \in Elements(nodes[Front(at)].children)
  <2>1. PICK up \in Seq(Key), k \in Key : at = Append(up, k)
    BY <1>1, <1>3, SequenceEmptyOrAppend DEF Root
  <2> QED BY <2>1, FrontOfAppend
<1> QED BY <1>1, <1>2, <1>3

(* What a node has counted.                                                 *)
Counts(node) == <<node.visits, node.available, node.reward, node.player>>

LEMMA NewNodeIsANode ==
  ASSUME NEW player \in Nat
  PROVE  /\ NewNode(player) \in Node
         /\ NewNode(player).children = << >>
         /\ NewNode(player).visits = 0 /\ NewNode(player).available = 1
         /\ NewNode(player).reward = 0 /\ NewNode(player).player = player
         /\ Elements(NewNode(player).children) = {}
         /\ IsInjective(NewNode(player).children)
<1>1. << >> \in Seq(Key) /\ DOMAIN << >> = {}
  OBVIOUS
<1> QED BY <1>1 DEF NewNode, Node, Elements, IsInjective

LEMMA NewRootIsATree ==
  ASSUME NEW about, NEW player \in Nat
  PROVE  /\ NewRoot(about, player).about = about
         /\ IsTree(NewRoot(about, player).nodes)
         /\ DOMAIN NewRoot(about, player).nodes = {Root}
         /\ NewRoot(about, player).nodes[Root] = NewNode(player)
         /\ Children(NewRoot(about, player).nodes, Root) = << >>
<1> DEFINE nodes == NewRoot(about, player).nodes
<1>1. NewRoot(about, player).about = about /\ nodes = [at \in {Root} |-> NewNode(player)]
  BY DEF NewRoot
<1>2. DOMAIN nodes = {Root} /\ nodes[Root] = NewNode(player) /\ Root \in Seq(Key)
  BY <1>1 DEF Root
<1> HIDE DEF nodes
<1>3. IsTree(nodes)
  BY <1>1, <1>2, NewNodeIsANode DEF IsTree
<1> QED BY <1>1, <1>2, <1>3, NewNodeIsANode DEF Children, nodes

LEMMA KeysAreKeys ==
  ASSUME NEW keys \in Seq(Key)
  PROVE  Elements(keys) \subseteq Key
BY LenProperties, ElementOfSeq DEF Elements

NewPaths(path, keys) == {Append(path, k) : k \in Elements(keys)}

(* pushed is a tree with new nodes after those it had at path.              *)
PushedOnto(nodes, pushed, path, keys, player) ==
  /\ IsTree(pushed)
  /\ DOMAIN pushed = DOMAIN nodes \union NewPaths(path, keys)
  /\ \A at \in DOMAIN nodes : Counts(pushed[at]) = Counts(nodes[at])
  /\ \A at \in NewPaths(path, keys) : at \notin DOMAIN nodes /\ pushed[at] = NewNode(player)

LEMMA PushChildrenTree ==
  ASSUME NEW nodes, IsTree(nodes), NEW path \in DOMAIN nodes, NEW player \in Nat,
         NEW keys \in Seq(Key), IsInjective(keys),
         Elements(keys) \intersect Elements(nodes[path].children) = {}
  PROVE  PushedOnto(nodes, PushChildren(nodes, path, keys, player), path, keys, player)
<1> DEFINE pushed == PushChildren(nodes, path, keys, player)
           new    == NewPaths(path, keys)
           longer == nodes[path].children \o keys
<1>1. /\ path \in Seq(Key) /\ Elements(keys) \subseteq Key
      /\ nodes[path] \in Node /\ nodes[path].children \in Seq(Key)
      /\ nodes \in [DOMAIN nodes -> Node] /\ DOMAIN nodes \subseteq Seq(Key)
      /\ Root \in DOMAIN nodes /\ IsInjective(nodes[path].children)
  BY KeysAreKeys DEF IsTree, Node
<1>2. /\ DOMAIN pushed = DOMAIN nodes \union new
      /\ \A at \in new : pushed[at] = NewNode(player)
      /\ \A at \in DOMAIN nodes \ (new \union {path}) : pushed[at] = nodes[at]
      /\ path \notin new => pushed[path] = [nodes[path] EXCEPT !.children = longer]
      /\ pushed = [at \in DOMAIN pushed |-> pushed[at]]
  BY DEF PushChildren, Pushed, NewPaths
<1>3. /\ longer \in Seq(Key) /\ IsInjective(longer)
      /\ Elements(longer) = Elements(nodes[path].children) \union Elements(keys)
  BY <1>1, ElementsOfConcat
<1>4. \A k \in Elements(keys) : Append(path, k) \notin DOMAIN nodes
  BY <1>1, ChildIsListed
<1>5. new \intersect DOMAIN nodes = {} /\ path \notin new
  BY <1>4 DEF NewPaths
<1> HIDE DEF pushed, new, longer
<1>6. /\ pushed[path] \in Node
      /\ pushed[path].children = longer
      /\ Counts(pushed[path]) = Counts(nodes[path])
  BY <1>1, <1>2, <1>3, <1>5 DEF Node, Counts
<1>7. \A at \in DOMAIN nodes \ {path} : pushed[at] = nodes[at]
  BY <1>2, <1>5
<1>8. new \subseteq Seq(Key)
  <2>1. \A k \in Elements(keys) : Append(path, k) \in Seq(Key)
    BY <1>1, AppendProperties
  <2> QED BY <2>1 DEF new, NewPaths
<1>9. pushed \in [DOMAIN pushed -> Node]
  <2>1. ASSUME NEW at \in DOMAIN pushed
        PROVE  pushed[at] \in Node
    BY <1>1, <1>2, <1>6, <1>7, NewNodeIsANode
  <2> QED BY <1>2, <2>1
<1>10. ASSUME NEW at \in DOMAIN pushed
       PROVE  IsInjective(pushed[at].children)
  <2>1. CASE at \in new
    BY <1>2, <2>1, NewNodeIsANode
  <2>2. CASE at = path
    BY <1>3, <1>6, <2>2
  <2>3. CASE at \in DOMAIN nodes \ {path}
    BY <1>7, <2>3 DEF IsTree
  <2> QED BY <1>2, <2>1, <2>2, <2>3
<1>11. ASSUME NEW at \in Seq(Key), NEW k \in Key
       PROVE  Append(at, k) \in DOMAIN pushed
                <=> at \in DOMAIN pushed /\ k \in Elements(pushed[at].children)
  <2>1. Append(at, k) \in new <=> at = path /\ k \in Elements(keys)
    BY <1>1, AppendInjective DEF new, NewPaths
  <2>2. Append(at, k) \in DOMAIN nodes
          <=> at \in DOMAIN nodes /\ k \in Elements(nodes[at].children)
    BY ChildIsListed
  <2>3. CASE at = path
    BY <1>2, <1>3, <1>6, <2>1, <2>2, <2>3
  <2>4. CASE at \in new
    BY <1>2, <1>5, <2>1, <2>2, <2>4, NewNodeIsANode
  <2>5. CASE at \notin new /\ at # path
    BY <1>2, <1>7, <2>1, <2>2, <2>5
  <2> QED BY <2>3, <2>4, <2>5
<1>12. IsTree(pushed)
  <2>1. Root \in DOMAIN pushed /\ DOMAIN pushed \subseteq Seq(Key)
    BY <1>1, <1>2, <1>8
  <2> QED BY <1>9, <1>10, <1>11, <2>1, TreeOfChildren
<1>13. \A at \in DOMAIN nodes : Counts(pushed[at]) = Counts(nodes[at])
  BY <1>6, <1>7
<1> QED BY <1>2, <1>5, <1>12, <1>13 DEF pushed, new, PushedOnto

(* A step that changes no node's children leaves a tree a tree.             *)
LEMMA SameShape ==
  ASSUME NEW nodes, IsTree(nodes), NEW other \in [DOMAIN nodes -> Node],
         \A at \in DOMAIN nodes : other[at].children = nodes[at].children
  PROVE  IsTree(other)
<1>1. DOMAIN other = DOMAIN nodes
  OBVIOUS
<1> SUFFICES ASSUME NEW at \in DOMAIN nodes
             PROVE  /\ \A k \in Elements(other[at].children) : Append(at, k) \in DOMAIN nodes
                    /\ at # Root => Last(at) \in Elements(other[Front(at)].children)
  BY <1>1 DEF IsTree
<1>2. at # Root => Front(at) \in DOMAIN nodes
  BY DEF IsTree
<1> QED BY <1>2 DEF IsTree

LEMMA CountedTree ==
  ASSUME NEW nodes, IsTree(nodes), NEW path \in DOMAIN nodes, NEW keys \in Seq(Key)
  PROVE  LET counted == Counted(nodes, path, keys)
         IN  /\ IsTree(counted)
             /\ DOMAIN counted = DOMAIN nodes
             /\ \A at \in DOMAIN nodes :
                  /\ counted[at].children = nodes[at].children
                  /\ counted[at].visits = nodes[at].visits
                  /\ counted[at].player = nodes[at].player
                  /\ counted[at].reward = nodes[at].reward
                  /\ counted[at].available >= nodes[at].available
             /\ \A k \in Elements(keys) :
                  Append(path, k) \in DOMAIN nodes =>
                    counted[Append(path, k)].available = nodes[Append(path, k)].available + 1
<1> DEFINE counted == Counted(nodes, path, keys)
           again   == {Append(path, k) :
                         k \in Elements(keys) \intersect Elements(Children(nodes, path))}
<1>1. nodes \in [DOMAIN nodes -> Node] /\ path \in Seq(Key) /\ Elements(keys) \subseteq Key
  BY KeysAreKeys DEF IsTree
<1>2. /\ DOMAIN counted = DOMAIN nodes
      /\ counted = [at \in DOMAIN counted |-> counted[at]]
      /\ \A at \in DOMAIN nodes :
           counted[at] = IF at \in again
                         THEN [nodes[at] EXCEPT !.available = nodes[at].available + 1]
                         ELSE nodes[at]
  BY DEF Counted
<1> HIDE DEF counted, again
<1>3. ASSUME NEW at \in DOMAIN nodes
      PROVE  /\ counted[at] \in Node
             /\ counted[at].children = nodes[at].children
             /\ counted[at].visits = nodes[at].visits
             /\ counted[at].player = nodes[at].player
             /\ counted[at].reward = nodes[at].reward
             /\ counted[at].available
                  = nodes[at].available + (IF at \in again THEN 1 ELSE 0)
  <2>1. nodes[at] \in Node
    BY <1>1
  <2>2. CASE at \in again
    <3>1. counted[at] = [nodes[at] EXCEPT !.available = nodes[at].available + 1]
      BY <1>2, <2>2
    <3> QED BY <2>1, <2>2, <3>1 DEF Node
  <2>3. CASE at \notin again
    BY <1>2, <2>1, <2>3 DEF Node
  <2> QED BY <2>2, <2>3
<1>4. \A at \in DOMAIN nodes : nodes[at].available \in Nat
  BY <1>1 DEF Node
<1>5. IsTree(counted)
  <2>1. counted \in [DOMAIN nodes -> Node]
    BY <1>2, <1>3
  <2> QED BY <1>3, <2>1, SameShape
<1>6. ASSUME NEW k \in Elements(keys), Append(path, k) \in DOMAIN nodes
      PROVE  counted[Append(path, k)].available = nodes[Append(path, k)].available + 1
  <2>1. k \in Elements(nodes[path].children)
    BY <1>1, <1>6, ChildIsListed
  <2>2. Append(path, k) \in again
    BY <2>1 DEF again, Children
  <2> QED BY <1>3, <1>6, <2>2
<1>7. \A at \in DOMAIN nodes : counted[at].available >= nodes[at].available
  BY <1>3, <1>4
<1> QED BY <1>2, <1>3, <1>5, <1>6, <1>7 DEF counted

(* more has the nodes of a tree, none of them visited or paid again or of   *)
(* another player, and besides them only new nodes, a level below path.     *)
Extends(nodes, more, path, player) ==
  /\ IsTree(more)
  /\ DOMAIN nodes \subseteq DOMAIN more
  /\ \A at \in DOMAIN nodes : /\ more[at].visits = nodes[at].visits
                              /\ more[at].player = nodes[at].player
                              /\ more[at].reward = nodes[at].reward
                              /\ more[at].available >= nodes[at].available
  /\ \A at \in DOMAIN more \ DOMAIN nodes :
       more[at] = NewNode(player) /\ Len(at) = Len(path) + 1

LEMMA NewPathsAreBelow ==
  ASSUME NEW path \in Seq(Key), NEW keys \in Seq(Key)
  PROVE  \A at \in NewPaths(path, keys) : Len(at) = Len(path) + 1
BY KeysAreKeys, AppendProperties DEF NewPaths

LEMMA ExpandedTree ==
  ASSUME NEW nodes, IsTree(nodes), NEW path \in DOMAIN nodes, NEW player \in Nat,
         NEW keys \in Seq(Key),
         NEW more \in Expanded(nodes, path, keys, player)
  PROVE  /\ Extends(nodes, more, path, player)
         /\ \A k \in Elements(keys) :
              Append(path, k) \in DOMAIN nodes =>
                more[Append(path, k)].available = nodes[Append(path, k)].available + 1
<1> DEFINE unseen  == Unseen(nodes, path, keys)
           counted == Counted(nodes, path, keys)
           known   == Elements(nodes[path].children)
<1>1. /\ unseen \in Seq(Key) /\ IsInjective(unseen)
      /\ Elements(unseen) = Elements(keys) \ known
  BY UnseenElements DEF Children
<1> DEFINE News == IF path = Root \/ unseen = << >> THEN {unseen}
                   ELSE {<<k>> : k \in Elements(unseen)}
<1>2. PICK new \in News : more = PushChildren(counted, path, new, player)
  <2>1. CASE path = Root \/ unseen = << >>
    BY <2>1 DEF Expanded
  <2>2. CASE ~(path = Root \/ unseen = << >>)
    <3>1. more \in {PushChildren(counted, path, <<k>>, player) : k \in Elements(unseen)}
      BY <2>2 DEF Expanded
    <3> HIDE DEF counted, unseen
    <3>2. PICK k \in Elements(unseen) : more = PushChildren(counted, path, <<k>>, player)
      BY <3>1
    <3> QED BY <2>2, <3>2
  <2> QED BY <2>1, <2>2
<1> HIDE DEF unseen
<1>3. /\ new \in Seq(Key) /\ IsInjective(new)
      /\ Elements(new) \intersect known = {}
  <2>1. CASE new = unseen
    BY <1>1, <2>1
  <2>2. ASSUME NEW k \in Elements(unseen), new = <<k>>
        PROVE  new \in Seq(Key) /\ IsInjective(new) /\ Elements(new) \intersect known = {}
    <3>1. k \in Key /\ k \notin known
      BY <1>1, KeysAreKeys
    <3>2. <<k>> \in Seq(Key)
      BY <3>1
    <3> QED BY <2>2, <3>1, <3>2, ElementsOfOne
  <2> QED BY <1>2, <2>1, <2>2
<1> HIDE DEF counted
<1>4. /\ IsTree(counted) /\ DOMAIN counted = DOMAIN nodes
      /\ \A at \in DOMAIN nodes :
           /\ counted[at].children = nodes[at].children
           /\ counted[at].visits = nodes[at].visits
           /\ counted[at].player = nodes[at].player
           /\ counted[at].reward = nodes[at].reward
           /\ counted[at].available >= nodes[at].available
      /\ \A k \in Elements(keys) :
           Append(path, k) \in DOMAIN nodes =>
             counted[Append(path, k)].available = nodes[Append(path, k)].available + 1
  BY CountedTree DEF counted
<1>5. Elements(new) \intersect Elements(counted[path].children) = {}
  BY <1>3, <1>4
<1> HIDE DEF known
<1>b. path \in DOMAIN counted /\ IsTree(counted)
  BY <1>4
<1>6. PushedOnto(counted, more, path, new, player)
  <2> HIDE DEF News
  <2> QED BY <1>2, <1>3, <1>5, <1>b, PushChildrenTree
<1>7. \A at \in DOMAIN nodes : /\ more[at].visits = counted[at].visits
                               /\ more[at].player = counted[at].player
                               /\ more[at].reward = counted[at].reward
                               /\ more[at].available = counted[at].available
  BY <1>4, <1>6 DEF Counts, PushedOnto
<1>8. \A at \in DOMAIN more \ DOMAIN nodes :
        more[at] = NewNode(player) /\ Len(at) = Len(path) + 1
  <2>1. path \in Seq(Key)
    BY DEF IsTree
  <2> QED BY <1>3, <1>4, <1>6, <2>1, NewPathsAreBelow DEF PushedOnto
<1>9. Extends(nodes, more, path, player)
  BY <1>4, <1>6, <1>7, <1>8 DEF Extends, PushedOnto
<1> QED BY <1>4, <1>7, <1>9

LEMMA FindOrPushTree ==
  ASSUME NEW nodes, IsTree(nodes), NEW path \in DOMAIN nodes, NEW player \in Nat,
         NEW key \in Key
  PROVE  LET found == FindOrPush(nodes, path, key, player)
         IN  Extends(nodes, found, path, player) /\ Append(path, key) \in DOMAIN found
<1> DEFINE found == FindOrPush(nodes, path, key, player)
<1>1. path \in Seq(Key) /\ nodes \in [DOMAIN nodes -> Node]
  BY DEF IsTree
<1>2. CASE key \in Elements(nodes[path].children)
  <2>1. found = nodes /\ Append(path, key) \in DOMAIN nodes
    BY <1>1, <1>2, ChildIsListed DEF FindOrPush, Children
  <2>2. \A at \in DOMAIN nodes : nodes[at].available \in Nat
    BY <1>1 DEF Node
  <2> HIDE DEF found
  <2>3. \A at \in DOMAIN nodes : nodes[at].available >= nodes[at].available
    BY <2>2
  <2> QED BY <2>1, <2>3 DEF Extends, found
<1>3. CASE key \notin Elements(nodes[path].children)
  <2>1. found = PushChildren(nodes, path, <<key>>, player)
    BY <1>3 DEF FindOrPush, Children
  <2>2. <<key>> \in Seq(Key) /\ Elements(<<key>>) = {key} /\ IsInjective(<<key>>)
    BY ElementsOfOne
  <2> HIDE DEF found
  <2>3. PushedOnto(nodes, found, path, <<key>>, player)
    BY <1>3, <2>1, <2>2, PushChildrenTree
  <2>4. \A at \in DOMAIN nodes : /\ found[at].visits = nodes[at].visits
                                 /\ found[at].player = nodes[at].player
                                 /\ found[at].reward = nodes[at].reward
                                 /\ found[at].available = nodes[at].available
                                 /\ nodes[at].available \in Nat
    BY <1>1, <2>3 DEF Counts, Node, PushedOnto
  <2>5. \A at \in DOMAIN nodes : found[at].available >= nodes[at].available
    BY <2>4
  <2>6. Append(path, key) \in DOMAIN found
    BY <2>2, <2>3 DEF PushedOnto, NewPaths
  <2>7. \A at \in NewPaths(path, <<key>>) : Len(at) = Len(path) + 1
    BY <1>1, <2>2, NewPathsAreBelow
  <2> QED BY <2>3, <2>4, <2>5, <2>6, <2>7 DEF Extends, PushedOnto, found
<1> QED BY <1>2, <1>3

LEMMA PrefixOfAppend ==
  ASSUME NEW at \in Seq(Key), NEW path \in Seq(Key), NEW k \in Key,
         IsPrefix(at, Append(path, k))
  PROVE  IsPrefix(at, path) \/ at = Append(path, k)
<1> DEFINE long == Append(path, k)
           m    == Len(at)
           n    == Len(path)
<1>1. /\ long \in Seq(Key) /\ Len(long) = n + 1 /\ \A i \in 1..n : long[i] = path[i]
      /\ m \in Nat /\ n \in Nat
  BY AppendProperties, LenProperties
<1>2. m <= n + 1 /\ SubSeq(at, 1, m) = SubSeq(long, 1, m) /\ SubSeq(at, 1, m) = at
  <2>1. SubSeq(at, 1, m) = at
    BY SubSeqFull
  <2> HIDE DEF m, n, long
  <2>2. IsPrefix(at, long)
    BY DEF long
  <2> QED BY <1>1, <2>1, <2>2 DEF IsPrefix, m
<1>3. CASE m = n + 1
  <2>1. SubSeq(long, 1, Len(long)) = long
    BY <1>1, SubSeqFull
  <2> HIDE DEF m, n, long
  <2> QED BY <1>1, <1>2, <1>3, <2>1 DEF long
<1>4. CASE m # n + 1
  <2> HIDE DEF m, n, long
  <2>1. m <= n
    BY <1>1, <1>2, <1>4
  <2>2. m \in Int /\ 1 \in Int /\ \A i \in 1..m : i \in 1..n /\ long[i] = path[i]
    BY <1>1, <2>1
  <2>3. \A i \in 1..m : long[i] \in Key /\ path[i] \in Key
    BY <1>1, <2>2, ElementOfSeq DEF n
  <2>4. /\ SubSeq(long, 1, m) \in Seq(Key) /\ SubSeq(path, 1, m) \in Seq(Key)
        /\ Len(SubSeq(long, 1, m)) = IF 1 <= m THEN m - 1 + 1 ELSE 0
        /\ Len(SubSeq(path, 1, m)) = IF 1 <= m THEN m - 1 + 1 ELSE 0
        /\ \A i \in 1..(m - 1 + 1) : SubSeq(long, 1, m)[i] = long[1 + i - 1]
        /\ \A i \in 1..(m - 1 + 1) : SubSeq(path, 1, m)[i] = path[1 + i - 1]
    BY <2>2, <2>3, SubSeqProperties
  <2>5. /\ Len(SubSeq(long, 1, m)) = m /\ Len(SubSeq(path, 1, m)) = m
        /\ \A i \in 1..m : SubSeq(long, 1, m)[i] = SubSeq(path, 1, m)[i]
    BY <1>1, <2>2, <2>4
  <2>6. SubSeq(long, 1, m) = SubSeq(path, 1, m)
    BY <2>4, <2>5, SeqEqual
  <2> QED BY <1>2, <2>1, <2>6 DEF IsPrefix, m, n
<1> QED BY <1>3, <1>4

LEMMA PrefixOfRoot ==
  ASSUME NEW at \in Seq(Key), IsPrefix(at, Root)
  PROVE  at = Root
<1>1. Len(at) <= 0
  BY EmptySeq DEF IsPrefix, Root
<1> QED BY <1>1, EmptySeq DEF Root

LEMMA BackedUpTree ==
  ASSUME NEW nodes, IsTree(nodes), NEW path, NEW rewards \in [Player -> Nat],
         \A at \in DOMAIN nodes : nodes[at].player \in Player
  PROVE  LET backed == BackedUp(nodes, path, rewards)
         IN  /\ IsTree(backed) /\ DOMAIN backed = DOMAIN nodes
             /\ \A at \in DOMAIN nodes :
                  /\ backed[at].player = nodes[at].player
                  /\ backed[at].available = nodes[at].available
                  /\ backed[at].visits
                       = IF IsPrefix(at, path) THEN nodes[at].visits + 1 ELSE nodes[at].visits
                  /\ backed[at].reward
                       = nodes[at].reward
                         + (IF IsPrefix(at, path) THEN rewards[nodes[at].player] ELSE 0)
<1> DEFINE backed == BackedUp(nodes, path, rewards)
<1>1. nodes \in [DOMAIN nodes -> Node]
  BY DEF IsTree
<1>2. ASSUME NEW at \in DOMAIN nodes
      PROVE  /\ backed[at] \in Node
             /\ backed[at].children = nodes[at].children
             /\ backed[at].player = nodes[at].player
             /\ backed[at].available = nodes[at].available
             /\ backed[at].visits
                  = IF IsPrefix(at, path) THEN nodes[at].visits + 1 ELSE nodes[at].visits
             /\ backed[at].reward
                  = nodes[at].reward
                    + (IF IsPrefix(at, path) THEN rewards[nodes[at].player] ELSE 0)
  <2> DEFINE node == nodes[at]
  <2>1. node \in Node /\ rewards[node.player] \in Nat
    BY <1>1
  <2>2. CASE IsPrefix(at, path)
    <3>1. backed[at] = [node EXCEPT !.visits = node.visits + 1,
                                    !.reward = node.reward + rewards[node.player]]
      BY <2>2 DEF BackedUp
    <3>2. node.visits + 1 \in Nat /\ node.reward + rewards[node.player] \in Nat
      BY <2>1 DEF Node
    <3> HIDE DEF backed, node
    <3>3. /\ backed[at] \in Node
          /\ backed[at].children = node.children
          /\ backed[at].player = node.player
          /\ backed[at].available = node.available
          /\ backed[at].visits = node.visits + 1
          /\ backed[at].reward = node.reward + rewards[node.player]
      BY <2>1, <3>1, <3>2 DEF Node
    <3> QED BY <2>2, <3>3 DEF node
  <2>3. CASE ~IsPrefix(at, path)
    <3>1. backed[at] = node
      BY <2>3 DEF BackedUp
    <3>2. node.reward + 0 = node.reward
      BY <2>1 DEF Node
    <3> QED BY <2>1, <2>3, <3>1, <3>2
  <2> QED BY <2>2, <2>3
<1>3. backed \in [DOMAIN nodes -> Node] /\ DOMAIN backed = DOMAIN nodes
  <2>1. backed = [at \in DOMAIN nodes |-> backed[at]]
    BY DEF BackedUp
  <2> HIDE DEF backed
  <2> QED BY <1>2, <2>1
<1> HIDE DEF backed
<1>4. IsTree(backed)
  BY <1>2, <1>3, SameShape
<1> QED BY <1>2, <1>3, <1>4 DEF backed

(* The paths of a tree below one of its root's edges.                       *)
LEMMA Below ==
  ASSUME NEW key \in Key, NEW at \in Seq(Key)
  PROVE  LET down == <<key>> \o at
         IN  /\ down \in Seq(Key) /\ down # Root /\ down[1] = key
             /\ Tail(down) = at /\ Len(down) = Len(at) + 1
             /\ \A k \in Key : <<key>> \o Append(at, k) = Append(down, k)
<1> DEFINE down == <<key>> \o at
<1>1. <<key>> \in Seq(Key) /\ Len(<<key>>) = 1 /\ <<key>>[1] = key /\ Len(at) \in Nat
  BY LenProperties
<1>2. /\ down \in Seq(Key) /\ Len(down) = Len(at) + 1
      /\ \A i \in 1..(1 + Len(at)) : down[i] = IF i <= 1 THEN key ELSE at[i - 1]
  BY <1>1, ConcatProperties
<1> HIDE DEF down
<1>3. down # << >> /\ down[1] = key
  BY <1>1, <1>2, EmptySeq
<1>4. Tail(down) = at
  <2>1. /\ Tail(down) \in Seq(Key) /\ Len(Tail(down)) = Len(at)
        /\ \A i \in 1..Len(Tail(down)) : Tail(down)[i] = down[i + 1]
    BY <1>1, <1>2, <1>3, HeadTailProperties
  <2>2. \A i \in 1..Len(Tail(down)) : Tail(down)[i] = at[i]
    BY <1>1, <1>2, <2>1
  <2> QED BY <2>1, <2>2, SeqEqual
<1>5. ASSUME NEW k \in Key
      PROVE  <<key>> \o Append(at, k) = Append(down, k)
  <2>1. <<k>> \in Seq(Key)
    OBVIOUS
  <2>2. <<key>> \o Append(at, k) = <<key>> \o (at \o <<k>>)
    BY AppendIsConcat
  <2>3. Append(down, k) = down \o <<k>>
    BY <1>2, AppendIsConcat
  <2>4. (<<key>> \o at) \o <<k>> = <<key>> \o (at \o <<k>>)
    BY <1>1, <2>1, ConcatAssociative
  <2> QED BY <2>2, <2>3, <2>4 DEF down
<1> QED BY <1>2, <1>3, <1>4, <1>5 DEF down, Root

LEMMA StartsBelow ==
  ASSUME NEW long \in Seq(Key), long # Root
  PROVE  /\ long[1] \in Key /\ Tail(long) \in Seq(Key)
         /\ long = <<long[1]>> \o Tail(long)
<1> DEFINE key  == long[1]
           rest == Tail(long)
<1>1. /\ key \in Key /\ rest \in Seq(Key) /\ Len(rest) = Len(long) - 1
      /\ \A i \in 1..Len(rest) : rest[i] = long[i + 1]
      /\ Len(long) \in Nat \ {0}
  BY HeadTailProperties, EmptySeq, ElementOfSeq DEF Root
<1>2. <<key>> \in Seq(Key) /\ Len(<<key>>) = 1 /\ <<key>>[1] = key
  BY <1>1
<1> HIDE DEF key, rest
<1>3. /\ <<key>> \o rest \in Seq(Key) /\ Len(<<key>> \o rest) = 1 + Len(rest)
      /\ \A i \in 1..(1 + Len(rest)) :
           (<<key>> \o rest)[i] = IF i <= 1 THEN <<key>>[i] ELSE rest[i - 1]
  BY <1>1, <1>2, ConcatProperties
<1>4. ASSUME NEW i \in 1..Len(long)
      PROVE  (<<key>> \o rest)[i] = long[i]
  <2>1. CASE i = 1
    BY <1>1, <1>2, <1>3, <2>1 DEF key
  <2>2. CASE i # 1
    <3>1. i - 1 \in 1..Len(rest) /\ (i - 1) + 1 = i /\ i \in 1..(1 + Len(rest)) /\ ~(i <= 1)
      BY <1>1, <2>2
    <3> QED BY <1>1, <1>3, <3>1
  <2> QED BY <2>1, <2>2
<1>5. Len(<<key>> \o rest) = Len(long)
  BY <1>1, <1>3
<1>6. <<key>> \o rest = long
  BY <1>3, <1>4, <1>5, SeqEqual
<1> QED BY <1>1, <1>6 DEF key, rest

LEMMA RerootTree ==
  ASSUME NEW nodes, IsTree(nodes), NEW key \in Elements(Children(nodes, Root))
  PROVE  LET rerooted == RerootAt(nodes, key)
         IN  /\ IsTree(rerooted)
             /\ key \in Key
             /\ \A at \in DOMAIN rerooted :
                  /\ at \in Seq(Key)
                  /\ <<key>> \o at \in DOMAIN nodes
                  /\ at # Root => rerooted[at] = nodes[<<key>> \o at]
                  /\ rerooted[at].player = nodes[<<key>> \o at].player
                  /\ rerooted[at].visits = nodes[<<key>> \o at].visits
             /\ \A at \in Seq(Key) : <<key>> \o at \in DOMAIN nodes => at \in DOMAIN rerooted
<1> DEFINE rerooted == RerootAt(nodes, key)
           kept     == {at \in DOMAIN nodes : at # Root /\ at[1] = key}
           down(at) == <<key>> \o at
<1>1. /\ nodes \in [DOMAIN nodes -> Node] /\ DOMAIN nodes \subseteq Seq(Key)
      /\ Root \in DOMAIN nodes /\ nodes[Root].children \in Seq(Key)
      /\ Root \in Seq(Key)
  BY DEF IsTree, Node
<1>2. key \in Key
  BY <1>1, KeysAreKeys DEF Children
<1>3. Append(Root, key) \in DOMAIN nodes /\ Append(Root, key) = <<key>> /\ down(Root) = <<key>>
  <2>1. Append(Root, key) \in DOMAIN nodes
    BY DEF IsTree, Children
  <2>2. <<key>> \in Seq(Key)
    BY <1>2
  <2>3. Append(Root, key) = <<key>> /\ down(Root) = <<key>>
    BY <2>2, ConcatEmptySeq DEF Root
  <2> QED BY <2>1, <2>3
<1>4. \A at \in Seq(Key) : /\ down(at) \in Seq(Key) /\ down(at) # Root /\ down(at)[1] = key
                           /\ Tail(down(at)) = at
                           /\ \A k \in Key : down(Append(at, k)) = Append(down(at), k)
  BY <1>2, Below
<1>5. \A long \in kept : Tail(long) \in Seq(Key) /\ long = down(Tail(long))
  BY <1>1, StartsBelow
<1> HIDE DEF down
<1>6. \A at : at \in {Tail(k) : k \in kept} <=> at \in Seq(Key) /\ down(at) \in DOMAIN nodes
  <2>1. ASSUME NEW long \in kept
        PROVE  Tail(long) \in Seq(Key) /\ down(Tail(long)) \in DOMAIN nodes
    BY <1>5
  <2>2. ASSUME NEW at \in Seq(Key), down(at) \in DOMAIN nodes
        PROVE  \E long \in kept : at = Tail(long)
    BY <1>4, <2>2
  <2> HIDE DEF kept
  <2> QED BY <2>1, <2>2
<1>7. /\ DOMAIN rerooted = {Tail(k) : k \in kept}
      /\ rerooted = [at \in DOMAIN rerooted |-> rerooted[at]]
      /\ \A at \in DOMAIN rerooted :
           rerooted[at] = IF at = Root THEN [nodes[<<key>>] EXCEPT !.available = 1]
                          ELSE nodes[<<key>> \o at]
  BY DEF RerootAt
<1> HIDE DEF rerooted, kept
<1>8. \A at : at \in DOMAIN rerooted <=> at \in Seq(Key) /\ down(at) \in DOMAIN nodes
  BY <1>6, <1>7
<1>9. ASSUME NEW at \in DOMAIN rerooted
      PROVE  /\ rerooted[at] \in Node
             /\ rerooted[at].children = nodes[down(at)].children
             /\ rerooted[at].player = nodes[down(at)].player
             /\ rerooted[at].visits = nodes[down(at)].visits
             /\ at # Root => rerooted[at] = nodes[down(at)]
  <2>1. nodes[down(at)] \in Node
    BY <1>1, <1>8
  <2>2. CASE at = Root
    <3>1. rerooted[at] = [nodes[down(at)] EXCEPT !.available = 1]
      BY <1>3, <1>7, <2>2
    <3> QED BY <2>1, <2>2, <3>1 DEF Node
  <2>3. CASE at # Root
    <3>1. rerooted[at] = nodes[down(at)]
      BY <1>7, <2>3 DEF down
    <3> QED BY <2>1, <3>1
  <2> QED BY <2>2, <2>3
<1>10. IsTree(rerooted)
  <2>1. Root \in DOMAIN rerooted /\ DOMAIN rerooted \subseteq Seq(Key)
    BY <1>1, <1>3, <1>8
  <2>2. rerooted \in [DOMAIN rerooted -> Node]
    BY <1>7, <1>9
  <2>3. \A at \in DOMAIN rerooted : IsInjective(rerooted[at].children)
    BY <1>8, <1>9 DEF IsTree
  <2>4. ASSUME NEW at \in Seq(Key), NEW k \in Key
        PROVE  Append(at, k) \in DOMAIN rerooted
                 <=> at \in DOMAIN rerooted /\ k \in Elements(rerooted[at].children)
    <3>1. Append(at, k) \in Seq(Key)
      BY AppendProperties
    <3>2. Append(at, k) \in DOMAIN rerooted <=> Append(down(at), k) \in DOMAIN nodes
      BY <1>4, <1>8, <3>1
    <3>3. Append(down(at), k) \in DOMAIN nodes
            <=> down(at) \in DOMAIN nodes /\ k \in Elements(nodes[down(at)].children)
      BY <1>4, ChildIsListed
    <3> QED BY <1>8, <1>9, <3>2, <3>3
  <2> QED BY <2>1, <2>2, <2>3, <2>4, TreeOfChildren
<1> QED BY <1>2, <1>8, <1>9, <1>10 DEF rerooted, down

-----------------------------------------------------------------------------
(* What a tree has been shown.                                              *)

LEMMA PrefixElements ==
  ASSUME NEW s \in Seq(Key), NEW t \in Seq(Key)
  PROVE  IsPrefix(s, t) <=> Len(s) <= Len(t) /\ \A i \in 1..Len(s) : s[i] = t[i]
<1> DEFINE m == Len(s)
           n == Len(t)
<1>1. /\ m \in Nat /\ n \in Nat /\ SubSeq(s, 1, m) = s
      /\ \A i \in 1..m : s[i] \in Key
      /\ \A i \in 1..n : t[i] \in Key
  BY LenProperties, ElementOfSeq, SubSeqFull
<1>2. IsPrefix(s, t) <=> m <= n /\ s = SubSeq(t, 1, m)
  BY <1>1 DEF IsPrefix
<1> HIDE DEF m, n
<1>3. ASSUME m <= n
      PROVE  s = SubSeq(t, 1, m) <=> \A i \in 1..m : s[i] = t[i]
  <2>1. \A i \in 1..m : t[i] \in Key
    BY <1>1, <1>3
  <2>2. /\ SubSeq(t, 1, m) \in Seq(Key)
        /\ Len(SubSeq(t, 1, m)) = IF 1 <= m THEN m - 1 + 1 ELSE 0
        /\ \A i \in 1..(m - 1 + 1) : SubSeq(t, 1, m)[i] = t[1 + i - 1]
    BY <1>1, <2>1, SubSeqProperties
  <2>3. Len(SubSeq(t, 1, m)) = m /\ \A i \in 1..m : SubSeq(t, 1, m)[i] = t[i]
    BY <1>1, <2>2
  <2>4. ASSUME \A i \in 1..m : s[i] = t[i]
        PROVE  s = SubSeq(t, 1, m)
    BY <2>2, <2>3, <2>4, SeqEqual DEF m
  <2> QED BY <2>3, <2>4
<1> QED BY <1>2, <1>3 DEF m, n

LEMMA PrefixBelow ==
  ASSUME NEW key \in Key, NEW other \in Key, NEW at \in Seq(Key), NEW s \in Seq(Key)
  PROVE  /\ IsPrefix(<<key>> \o at, <<other>> \o s) <=> key = other /\ IsPrefix(at, s)
         /\ ~IsPrefix(<<key>> \o at, << >>)
<1> DEFINE down == <<key>> \o at
           long == <<other>> \o s
           m    == Len(at)
           n    == Len(s)
<1>1. /\ down \in Seq(Key) /\ long \in Seq(Key) /\ m \in Nat /\ n \in Nat
      /\ Len(down) = 1 + m /\ Len(long) = 1 + n
      /\ \A i \in 1..(1 + m) : down[i] = IF i <= 1 THEN key ELSE at[i - 1]
      /\ \A i \in 1..(1 + n) : long[i] = IF i <= 1 THEN other ELSE s[i - 1]
  <2>1. ASSUME NEW k \in Key, NEW t \in Seq(Key)
        PROVE  /\ <<k>> \o t \in Seq(Key) /\ Len(t) \in Nat /\ Len(<<k>> \o t) = 1 + Len(t)
               /\ \A i \in 1..(1 + Len(t)) : (<<k>> \o t)[i] = IF i <= 1 THEN k ELSE t[i - 1]
    <3>1. <<k>> \in Seq(Key) /\ Len(<<k>>) = 1 /\ <<k>>[1] = k /\ Len(t) \in Nat
      BY LenProperties
    <3>2. /\ <<k>> \o t \in Seq(Key) /\ Len(<<k>> \o t) = 1 + Len(t)
          /\ \A i \in 1..(1 + Len(t)) : (<<k>> \o t)[i] = IF i <= 1 THEN <<k>>[i] ELSE t[i - 1]
      BY <3>1, ConcatProperties
    <3>3. \A i \in 1..(1 + Len(t)) : i <= 1 => <<k>>[i] = k
      BY <3>1
    <3> QED BY <3>1, <3>2, <3>3
  <2> QED BY <2>1
<1> HIDE DEF down, long
<1>2. IsPrefix(down, long)
        <=> 1 + m <= 1 + n /\ \A i \in 1..(1 + m) : down[i] = long[i]
  <2>1. IsPrefix(down, long)
          <=> Len(down) <= Len(long) /\ \A i \in 1..Len(down) : down[i] = long[i]
    BY ONLY <1>1, PrefixElements
  <2> QED BY <1>1, <2>1
<1>3. IsPrefix(at, s) <=> m <= n /\ \A i \in 1..m : at[i] = s[i]
  BY PrefixElements
<1> HIDE DEF m, n
<1>4. ASSUME m <= n
      PROVE  (\A i \in 1..(1 + m) : down[i] = long[i])
               <=> key = other /\ \A i \in 1..m : at[i] = s[i]
  <2>1. ASSUME \A i \in 1..(1 + m) : down[i] = long[i]
        PROVE  key = other /\ \A i \in 1..m : at[i] = s[i]
    <3>1. key = other
      <4>1. 1 \in 1..(1 + m) /\ 1 \in 1..(1 + n)
        BY <1>1
      <4> QED BY <1>1, <2>1, <4>1
    <3>2. ASSUME NEW i \in 1..m PROVE at[i] = s[i]
      <4>1. /\ i + 1 \in 1..(1 + m) /\ i + 1 \in 1..(1 + n) /\ ~(i + 1 <= 1)
            /\ (i + 1) - 1 = i
        BY <1>1, <1>4
      <4> QED BY <1>1, <2>1, <4>1
    <3> QED BY <3>1, <3>2
  <2>2. ASSUME key = other, \A i \in 1..m : at[i] = s[i], NEW i \in 1..(1 + m)
        PROVE  down[i] = long[i]
    <3>1. i \in 1..(1 + n) /\ (i <= 1 \/ i - 1 \in 1..m)
      BY <1>1, <1>4
    <3> QED BY <1>1, <2>2, <3>1
  <2> QED BY <2>1, <2>2
<1>5. 1 + m <= 1 + n <=> m <= n
  BY <1>1
<1>6. ~IsPrefix(down, << >>)
  <2>1. Len(<< >>) = 0 /\ ~(1 + m <= 0)
    BY <1>1
  <2> QED BY <1>1, <2>1 DEF IsPrefix
<1> QED BY <1>2, <1>3, <1>4, <1>5, <1>6 DEF down, long

(* What is above a node is there.                                           *)
LEMMA PrefixClosed ==
  ASSUME NEW nodes, IsTree(nodes), NEW low \in DOMAIN nodes, NEW at \in Seq(Key),
         IsPrefix(at, low)
  PROVE  at \in DOMAIN nodes
<1> DEFINE Bad(n) == \E s \in DOMAIN nodes : Len(s) = n /\ IsPrefix(at, s)
           Wrong == {n \in Nat : Bad(n)}
<1> SUFFICES ASSUME at \notin DOMAIN nodes PROVE FALSE
  OBVIOUS
<1>1. Wrong # {} /\ Wrong \in SUBSET Nat
  <2>1. low \in Seq(Key)
    BY DEF IsTree
  <2>2. Len(low) \in Nat
    BY <2>1, LenProperties
  <2> QED BY <2>2
<1>2. PICK n \in Wrong : \A k \in Wrong : n <= k
  <2> HIDE DEF Wrong
  <2> QED BY <1>1, LeastNatural
<1>3. PICK s \in DOMAIN nodes : Len(s) = n /\ IsPrefix(at, s)
  BY <1>2
<1>4. s \in Seq(Key) /\ s # at
  BY <1>3 DEF IsTree
<1>5. s # Root
  BY <1>3, <1>4, PrefixOfRoot
<1>6. PICK up \in Seq(Key), k \in Key : s = Append(up, k)
  BY <1>4, <1>5, SequenceEmptyOrAppend DEF Root
<1>7. up \in DOMAIN nodes
  BY <1>6, ChildIsListed
<1>8. IsPrefix(at, up) /\ Len(up) \in Nat /\ n = Len(up) + 1
  BY <1>3, <1>4, <1>6, PrefixOfAppend, AppendProperties, LenProperties
<1>9. Len(up) \in Wrong
  BY <1>7, <1>8
<1> HIDE DEF Wrong
<1> QED BY <1>2, <1>8, <1>9

(* A line as it is seen, and as it is seen after its first move.            *)
LEMMA SeenCut ==
  ASSUME NEW p \in Player, NEW line \in Seq(Move), line # << >>, NEW from \in Nat
  PROVE  /\ Tail(line) \in Seq(Move) /\ line[1] \in Move
         /\ Seen(p, line, from)
              = <<ObservedKey(p, Turn(from), line[1])>> \o Seen(p, Tail(line), from + 1)
<1> DEFINE rest == Tail(line)
           seen == Seen(p, line, from)
           n    == Len(rest)
<1>1. /\ rest \in Seq(Move) /\ line[1] \in Move /\ n \in Nat /\ Len(line) = n + 1
      /\ \A i \in 1..n : rest[i] = line[i + 1]
      /\ DOMAIN rest = 1..n /\ DOMAIN line = 1..(n + 1)
  <2>1. /\ rest \in Seq(Move) /\ n = Len(line) - 1 /\ Len(line) \in Nat \ {0}
        /\ \A i \in 1..n : rest[i] = line[i + 1]
    BY HeadTailProperties, EmptySeq
  <2>2. line[1] \in Move
    BY <2>1, ElementOfSeq
  <2>3. DOMAIN rest = 1..n /\ DOMAIN line = 1..Len(line) /\ n \in Nat
    BY <2>1, LenProperties
  <2> HIDE DEF rest, n
  <2> QED BY <2>1, <2>2, <2>3
<1> HIDE DEF rest
<1>2. /\ seen \in Seq(Key) /\ Len(seen) = n + 1
      /\ Seen(p, rest, from + 1) \in Seq(Key) /\ Len(Seen(p, rest, from + 1)) = n
  BY <1>1, SeenIsASequence
<1>3. seen # Root /\ Len(Tail(seen)) = n
  BY <1>1, <1>2, HeadTailProperties, EmptySeq DEF Root
<1>4. /\ seen = <<seen[1]>> \o Tail(seen) /\ Tail(seen) \in Seq(Key)
      /\ \A i \in 1..n : Tail(seen)[i] = seen[i + 1]
  BY <1>2, <1>3, StartsBelow, HeadTailProperties DEF Root
<1>5. \A i \in 1..(n + 1) : seen[i] = ObservedKey(p, Turn(from + i - 1), line[i])
  BY <1>1 DEF Seen
<1>6. seen[1] = ObservedKey(p, Turn(from), line[1])
  <2>1. 1 \in 1..(n + 1) /\ from + 1 - 1 = from
    BY <1>1
  <2> QED BY <1>5, <2>1
<1>7. ASSUME NEW i \in 1..n
      PROVE  Tail(seen)[i] = Seen(p, rest, from + 1)[i]
  <2>1. i + 1 \in 1..(n + 1) /\ from + (i + 1) - 1 = (from + 1) + i - 1
    BY <1>1
  <2>2. Seen(p, rest, from + 1)[i] = ObservedKey(p, Turn((from + 1) + i - 1), rest[i])
    BY <1>1 DEF Seen
  <2> QED BY <1>1, <1>4, <1>5, <2>1, <2>2
<1> HIDE DEF n, seen
<1>8. Tail(seen) = Seen(p, rest, from + 1)
  BY <1>2, <1>3, <1>4, <1>7, SeqEqual
<1> QED BY <1>1, <1>4, <1>6, <1>8 DEF rest, seen

(* What a tree has been shown: playouts, each as often as it was.           *)
Played == [line : Seq(Move), rewards : [Player -> Nat]]

IsShown(b) ==
  /\ b \in [DOMAIN b -> Nat]
  /\ IsFiniteSet(DOMAIN b) /\ DOMAIN b \subseteq Played

Through(p, b, from, at) == {q \in DOMAIN b : IsPrefix(at, Seen(p, q.line, from))}

Weights(b, of) == [q \in DOMAIN b |-> b[q] * of[q]]

Share(p, b, from, at, of) == SumOn(Weights(b, of), Through(p, b, from, at))

LEMMA ShareIsThePropertys ==
  ASSUME NEW p, NEW b, NEW from, NEW at, NEW of
  PROVE  Share(p, b, from, at, of)
           = SumFunction([q \in Through(p, b, from, at) |-> b[q] * of[q]])
<1>1. [q \in Through(p, b, from, at) |-> Weights(b, of)[q]]
        = [q \in Through(p, b, from, at) |-> b[q] * of[q]]
  BY DEF Weights, Through
<1> QED BY <1>1 DEF Share, SumOn

LEMMA WeightsAreNumbers ==
  ASSUME NEW b, IsShown(b), NEW of \in [Played -> Nat], NEW p, NEW from, NEW at
  PROVE  /\ Weights(b, of) \in [DOMAIN b -> Int]
         /\ IsFiniteSet(DOMAIN b)
         /\ Through(p, b, from, at) \in SUBSET DOMAIN b
         /\ Share(p, b, from, at, of) \in Int
<1>1. IsFiniteSet(DOMAIN b) /\ Through(p, b, from, at) \in SUBSET DOMAIN b
  BY DEF IsShown, Through
<1>2. ASSUME NEW q \in DOMAIN b PROVE b[q] * of[q] \in Int
  <2>1. b[q] \in Nat /\ of[q] \in Nat
    BY DEF IsShown
  <2> QED BY <2>1
<1>3. Weights(b, of) \in [DOMAIN b -> Int]
  BY <1>2 DEF Weights
<1> QED BY <1>1, <1>3, SumOnInt DEF Share

(* Nothing that was shown passes through, and nothing is owed.              *)
LEMMA ShareOfNone ==
  ASSUME NEW p, NEW b, NEW from, NEW at, NEW of, Through(p, b, from, at) = {}
  PROVE  Share(p, b, from, at, of) = 0
BY SumOnNone DEF Share

(* Another playout adds what it pays to what it passes through.             *)
LEMMA ShareGained ==
  ASSUME NEW b, IsShown(b), NEW r \in Played
  PROVE  LET more == b (+) SetToBag({r})
         IN  /\ IsShown(more) /\ DOMAIN more = DOMAIN b \union {r}
             /\ \A p, from, at, of : of \in [Played -> Nat] =>
                  Share(p, more, from, at, of)
                    = Share(p, b, from, at, of)
                      + (IF IsPrefix(at, Seen(p, r.line, from)) THEN of[r] ELSE 0)
<1> DEFINE more == b (+) SetToBag({r})
<1>1. /\ DOMAIN more = DOMAIN b \union {r}
      /\ more = [q \in DOMAIN more |-> more[q]]
      /\ \A q \in DOMAIN b \ {r} : more[q] = b[q] + 0
      /\ more[r] = (IF r \in DOMAIN b THEN b[r] ELSE 0) + 1
  BY DEF (+), SetToBag
<1>2. \A q \in DOMAIN b : b[q] \in Nat
  BY DEF IsShown
<1> HIDE DEF more
<1>3. \A q \in DOMAIN b \ {r} : more[q] = b[q]
  BY <1>1, <1>2
<1>4. IsShown(more)
  <2>1. more[r] \in Nat
    BY <1>1, <1>2
  <2>2. more \in [DOMAIN more -> Nat]
    BY <1>1, <1>2, <1>3, <2>1
  <2>3. IsFiniteSet(DOMAIN more)
    BY <1>1, FS_AddElement DEF IsShown
  <2> QED BY <1>1, <2>2, <2>3 DEF IsShown
<1>5. ASSUME NEW p, NEW from, NEW at, NEW of \in [Played -> Nat]
      PROVE  Share(p, more, from, at, of)
               = Share(p, b, from, at, of)
                 + (IF IsPrefix(at, Seen(p, r.line, from)) THEN of[r] ELSE 0)
  <2> DEFINE T == Through(p, more, from, at)
             U == Through(p, b, from, at)
             f == Weights(b, of)
             g == Weights(more, of)
  <2>1. /\ f \in [DOMAIN b -> Int] /\ g \in [DOMAIN more -> Int]
        /\ T \in SUBSET DOMAIN more /\ U \in SUBSET DOMAIN b
        /\ IsFiniteSet(DOMAIN b) /\ IsFiniteSet(DOMAIN more)
        /\ Share(p, b, from, at, of) \in Int
        /\ Share(p, b, from, at, of) = SumOn(f, U)
        /\ Share(p, more, from, at, of) = SumOn(g, T)
    BY <1>4, WeightsAreNumbers DEF Share
  <2>2. /\ r \in T <=> IsPrefix(at, Seen(p, r.line, from))
        /\ r \in U <=> r \in DOMAIN b /\ r \in T
        /\ T \ {r} = U \ {r}
    BY <1>1 DEF Through
  <2>3. \A q \in U \ {r} : g[q] = f[q]
    BY <1>1, <1>3 DEF Through, Weights
  <2>4. of[r] \in Nat
    OBVIOUS
  <2>5. SumOn(g, T \ {r}) = SumOn(f, U \ {r})
    <3>1. [q \in T \ {r} |-> g[q]] = [q \in U \ {r} |-> f[q]]
      BY <2>2, <2>3
    <3> QED BY <3>1 DEF SumOn
  <2> HIDE DEF T, U
  <2>6. CASE r \notin T
    <3>1. T \ {r} = T /\ U \ {r} = U
      BY <2>2, <2>6
    <3> DEFINE a == Share(p, b, from, at, of)
    <3>2. a + 0 = a
      <4>1. a \in Int
        BY <2>1
      <4> HIDE DEF a
      <4> QED BY <4>1
    <3>3. SumOn(g, T) = SumOn(f, U)
      BY <2>5, <3>1
    <3> HIDE DEF f, g
    <3> QED BY <2>1, <2>2, <2>6, <3>2, <3>3
  <2>7. CASE r \in T /\ r \in DOMAIN b
    <3>1. g[r] = f[r] + of[r]
      <4> DEFINE n == b[r]
                 c == of[r]
      <4>1. n \in Nat /\ c \in Nat
        BY <1>2, <2>4, <2>7
      <4>2. g[r] = (n + 1) * c /\ f[r] = n * c
        BY <1>1, <2>7 DEF Weights
      <4> HIDE DEF n, c
      <4>3. (n + 1) * c = (n * c) + c
        BY <4>1
      <4> QED BY <4>2, <4>3 DEF c
    <3> HIDE DEF f, g
    <3>2. SumOn(g, T) = g[r] + SumOn(g, T \ {r})
      BY <2>1, <2>7, SumOnWithout
    <3>3. SumOn(f, U) = f[r] + SumOn(f, U \ {r}) /\ SumOn(f, U \ {r}) \in Int
      BY <2>1, <2>2, <2>7, SumOnWithout, SumOnInt
    <3>4. f[r] \in Int
      BY <2>1, <2>7
    <3>5. SumOn(g, T) = SumOn(f, U) + of[r]
      BY <2>4, <2>5, <3>1, <3>2, <3>3, <3>4
    <3> QED BY <2>1, <2>2, <2>7, <3>5
  <2>8. CASE r \in T /\ r \notin DOMAIN b
    <3>1. g[r] = of[r]
      <4>1. g[r] = (0 + 1) * of[r]
        BY <1>1, <2>8 DEF Weights
      <4> QED BY <2>4, <4>1
    <3> HIDE DEF f, g
    <3>2. SumOn(g, T) = g[r] + SumOn(g, T \ {r})
      BY <2>1, <2>8, SumOnWithout
    <3>3. U \ {r} = U
      BY <2>2, <2>8
    <3>4. SumOn(g, T) = SumOn(f, U) + of[r]
      BY <2>1, <2>4, <2>5, <3>1, <3>2, <3>3
    <3> QED BY <2>1, <2>2, <2>8, <3>4
  <2> QED BY <2>6, <2>7, <2>8
<1> QED BY <1>1, <1>4, <1>5 DEF more

(* What of a line is left after its first move.                             *)
Cut(q) == [q EXCEPT !.line = Tail(q.line)]

Alike(p, b, from, key) ==
  {q \in DOMAIN b : q.line # << >> /\ ObservedKey(p, Turn(from), q.line[1]) = key}

OfCut(p, b, from, key, r) == {q \in Alike(p, b, from, key) : Cut(q) = r}

CutBag(p, b, from, key) ==
  [r \in {Cut(q) : q \in Alike(p, b, from, key)} |->
     SumFunction([q \in OfCut(p, b, from, key, r) |-> b[q]])]

LEMMA KeptIsCut ==
  ASSUME NEW p, NEW m, NEW from, Turn(from) = Mover(position)
  PROVE  Kept(p, m) = CutBag(p, playouts[p], from, ObservedKey(p, Mover(position), m))
BY DEF Kept, CutBag, OfCut, Alike, Cut

LEMMA CutOfAlike ==
  ASSUME NEW p \in Player, NEW b, IsShown(b), NEW from \in Nat, NEW key \in Key,
         NEW q \in Alike(p, b, from, key)
  PROVE  /\ q \in DOMAIN b /\ q \in Played
         /\ Cut(q) \in Played /\ Cut(q).rewards = q.rewards
         /\ Seen(p, Cut(q).line, from + 1) \in Seq(Key)
         /\ Seen(p, q.line, from) = <<key>> \o Seen(p, Cut(q).line, from + 1)
<1>1. q \in DOMAIN b /\ q \in Played /\ q.line \in Seq(Move) /\ q.line # << >>
  BY DEF Alike, IsShown, Played
<1>2. /\ Tail(q.line) \in Seq(Move)
      /\ Seen(p, q.line, from) = <<key>> \o Seen(p, Tail(q.line), from + 1)
  BY <1>1, SeenCut DEF Alike
<1>3. Cut(q) \in Played /\ Cut(q).line = Tail(q.line) /\ Cut(q).rewards = q.rewards
  BY <1>1, <1>2 DEF Cut, Played
<1>4. Seen(p, Tail(q.line), from + 1) \in Seq(Key)
  <2>1. from + 1 \in Nat
    OBVIOUS
  <2> QED BY <1>2, <2>1, SeenIsASequence
<1> QED BY <1>1, <1>2, <1>3, <1>4

(* kept has all of b that passes through an edge, with what it paid.        *)
KeptAt(p, b, from, key, kept) ==
  /\ IsShown(kept)
  /\ \A r \in DOMAIN kept : \E q \in DOMAIN b :
       Seen(p, q.line, from) = <<key>> \o Seen(p, r.line, from + 1)
  /\ \A at \in Seq(Key), of \in [Played -> Nat] :
       (\A q, r \in Played : q.rewards = r.rewards => of[q] = of[r]) =>
         Share(p, kept, from + 1, at, of) = Share(p, b, from, <<key>> \o at, of)

(* What re-rooting keeps of what was shown is what passes through the       *)
(* edge's child, with all that it paid.                                     *)
LEMMA ShareKept ==
  ASSUME NEW p \in Player, NEW b, IsShown(b), NEW from \in Nat, NEW key \in Key
  PROVE  KeptAt(p, b, from, key, CutBag(p, b, from, key))
<1> DEFINE alike == Alike(p, b, from, key)
           kept  == CutBag(p, b, from, key)
           group(r) == OfCut(p, b, from, key, r)
<1>1. /\ alike \in SUBSET DOMAIN b /\ IsFiniteSet(DOMAIN b) /\ IsFiniteSet(alike)
      /\ \A q \in DOMAIN b : b[q] \in Nat
  BY FS_Subset DEF Alike, IsShown
<1>2. /\ DOMAIN kept = {Cut(q) : q \in alike}
      /\ kept = [r \in DOMAIN kept |-> kept[r]]
      /\ \A r \in DOMAIN kept : kept[r] = SumFunction([q \in group(r) |-> b[q]])
  BY DEF CutBag
<1>3. \A r : group(r) \in SUBSET alike
  BY DEF OfCut
<1>4. \A q \in alike : /\ q \in DOMAIN b /\ q \in Played
                       /\ Cut(q) \in Played /\ Cut(q).rewards = q.rewards
                       /\ Seen(p, Cut(q).line, from + 1) \in Seq(Key)
                       /\ Seen(p, q.line, from) = <<key>> \o Seen(p, Cut(q).line, from + 1)
  BY CutOfAlike
<1>5. \A r : \A q \in group(r) : q \in alike /\ Cut(q) = r
  BY DEF OfCut
<1> HIDE DEF kept, alike
<1>6. IsShown(kept)
  <2>1. IsFiniteSet(DOMAIN kept)
    <3>1. IsFiniteSet({Cut(q) : q \in alike})
      <4> DEFINE cut == [q \in alike |-> Cut(q)]
      <4>1. cut \in Surjection(alike, {Cut(q) : q \in alike})
        BY DEF Surjection
      <4> QED BY <1>1, <4>1, FS_Surjection
    <3> QED BY <1>2, <3>1
  <2>2. ASSUME NEW r \in DOMAIN kept PROVE kept[r] \in Nat
    <3> DEFINE h == [q \in group(r) |-> b[q]]
               G == group(r)
    <3>1. h \in [G -> Nat] /\ IsFiniteSet(G)
      BY <1>1, <1>3, FS_Subset
    <3>2. kept[r] = SumFunction(h)
      BY <1>2
    <3> HIDE DEF h, G
    <3> QED BY <3>1, <3>2, SumOfNaturals
  <2>3. DOMAIN kept \subseteq Played
    BY <1>2, <1>4
  <2>4. kept \in [DOMAIN kept -> Nat]
    BY <1>2, <2>2
  <2> QED BY <2>1, <2>3, <2>4 DEF IsShown
<1>7. ASSUME NEW r \in DOMAIN kept
      PROVE  \E q \in DOMAIN b : Seen(p, q.line, from) = <<key>> \o Seen(p, r.line, from + 1)
  BY <1>2, <1>4
<1>8. ASSUME NEW at \in Seq(Key), NEW of \in [Played -> Nat],
             \A q, r \in Played : q.rewards = r.rewards => of[q] = of[r]
      PROVE  Share(p, kept, from + 1, at, of) = Share(p, b, from, <<key>> \o at, of)
  <2> DEFINE S == Through(p, b, from, <<key>> \o at)
             D == Through(p, kept, from + 1, at)
             w == Weights(b, of)
             v == Weights(kept, of)
             f == [q \in S |-> w[q]]
             cut == [q \in S |-> Cut(q)]
  <2>1. /\ w \in [DOMAIN b -> Int] /\ v \in [DOMAIN kept -> Int]
        /\ S \in SUBSET DOMAIN b /\ D \in SUBSET DOMAIN kept
        /\ IsFiniteSet(S) /\ IsFiniteSet(D)
        /\ Share(p, b, from, <<key>> \o at, of) = SumOn(w, S)
        /\ Share(p, kept, from + 1, at, of) = SumOn(v, D)
    BY <1>6, WeightsAreNumbers, FS_Subset DEF Share
  <2>2. ASSUME NEW q \in S
        PROVE  q \in alike
    <3>1. /\ q \in DOMAIN b /\ IsPrefix(<<key>> \o at, Seen(p, q.line, from))
          /\ q \in Played /\ q.line \in Seq(Move)
      BY DEF Through, IsShown, Played
    <3>2. q.line # << >>
      <4>1. Seen(p, << >>, from) = << >>
        BY DEF Seen
      <4> QED BY <3>1, <4>1, PrefixBelow
    <3>3. /\ Seen(p, q.line, from)
               = <<ObservedKey(p, Turn(from), q.line[1])>> \o Seen(p, Tail(q.line), from + 1)
          /\ ObservedKey(p, Turn(from), q.line[1]) \in Key
          /\ Seen(p, Tail(q.line), from + 1) \in Seq(Key)
      <4>1. from + 1 \in Nat
        OBVIOUS
      <4> QED BY <3>1, <3>2, <4>1, SeenCut, KeyOfAMove, SeenIsASequence
    <3>4. ObservedKey(p, Turn(from), q.line[1]) = key
      BY <3>1, <3>3, PrefixBelow
    <3> QED BY <3>1, <3>2, <3>4 DEF alike, Alike
  <2>3. ASSUME NEW q \in alike
        PROVE  q \in S <=> Cut(q) \in D
    <3>1. q \in S <=> IsPrefix(<<key>> \o at, <<key>> \o Seen(p, Cut(q).line, from + 1))
      BY <1>4 DEF Through
    <3>2. Cut(q) \in D <=> IsPrefix(at, Seen(p, Cut(q).line, from + 1))
      BY <1>2 DEF Through
    <3> QED BY <1>4, <3>1, <3>2, PrefixBelow
  <2> HIDE DEF S, D, w, v
  <2>4. ASSUME NEW d \in D
        PROVE  {q \in S : cut[q] = d} = group(d)
    BY <2>2, <2>3 DEF OfCut, alike
  <2>5. \A q \in S : cut[q] \in D \/ f[q] = 0
    BY <2>2, <2>3
  <2>6. f \in [S -> Int]
    BY <2>1
  <2>7. SumOn(f, S) = SumOn(GroupSums(f, S, cut, D), D)
    <3> HIDE DEF f, cut
    <3> QED BY <2>1, <2>5, <2>6, SumByGroups
  <2>8. SumOn(f, S) = SumOn(w, S)
    <3>1. [q \in S |-> f[q]] = [q \in S |-> w[q]]
      OBVIOUS
    <3> QED BY <3>1 DEF SumOn
  <2>9. ASSUME NEW d \in D
        PROVE  SumOn(f, group(d)) = v[d]
    <3> DEFINE G == group(d)
               c == of[d]
               h == [q \in G |-> b[q]]
               g == [q \in G |-> f[q]]
    <3>1. /\ d \in DOMAIN kept /\ d \in Played /\ c \in Nat
          /\ G \in SUBSET alike /\ G \in SUBSET S /\ IsFiniteSet(G)
      BY <1>3, <1>6, <2>1, <2>4, FS_Subset DEF IsShown
    <3>2. ASSUME NEW q \in G
          PROVE  g[q] = h[q] * c /\ h[q] \in Int
      <4>1. /\ q \in alike /\ q \in S /\ q \in DOMAIN b /\ q \in Played /\ b[q] \in Nat
            /\ q.rewards = d.rewards
        BY <1>1, <1>4, <1>5, <3>1
      <4>2. of[q] = c
        BY <1>8, <3>1, <4>1
      <4>3. g[q] = b[q] * of[q]
        BY <4>1 DEF w, Weights
      <4> QED BY <4>1, <4>2, <4>3
    <3>3. h \in [G -> Int] /\ g \in [G -> Int] /\ c \in Int
      <4>1. h = [q \in G |-> h[q]] /\ g = [q \in G |-> g[q]]
        OBVIOUS
      <4>2. \A q \in G : h[q] \in Int /\ g[q] = h[q] * c
        BY <3>2
      <4>3. c \in Int
        BY <3>1
      <4> HIDE DEF h, g, G, c
      <4>4. \A q \in G : g[q] \in Int
        BY <4>2, <4>3
      <4> QED BY <4>1, <4>2, <4>3, <4>4
    <3>4. SumOn(f, G) = SumFunction(g)
      BY DEF SumOn
    <3>5. SumFunction(h) = kept[d]
      BY <1>2, <3>1
    <3>6. v[d] = kept[d] * c
      BY <3>1 DEF v, Weights
    <3> HIDE DEF G, c, h, g
    <3>7. SumFunction(g) = SumOn(g, G) /\ SumFunction(h) = SumOn(h, G)
      BY <3>3, SumIsSumOn
    <3>8. SumOn(g, G) = SumOn(h, G) * c
      BY <3>1, <3>2, <3>3, SumScaled
    <3>9. SumOn(f, G) = v[d]
      BY <3>4, <3>5, <3>6, <3>7, <3>8
    <3> QED BY <3>9 DEF G
  <2> HIDE DEF f, cut
  <2>10. SumOn(GroupSums(f, S, cut, D), D) = SumOn(v, D)
    <3>1. \A d \in D : GroupSums(f, S, cut, D)[d] = v[d]
      BY <2>4, <2>9 DEF GroupSums
    <3>2. [d \in D |-> GroupSums(f, S, cut, D)[d]] = [d \in D |-> v[d]]
      BY <3>1
    <3> QED BY <3>2 DEF SumOn
  <2> QED BY <2>1, <2>7, <2>8, <2>10
<1> QED BY <1>6, <1>7, <1>8 DEF kept, KeptAt

(* The payments of a playout: one for each visit, or what it paid a player. *)
Once == [q \in Played |-> 1]

PaidTo(player) == [q \in Played |-> q.rewards[player]]

LEMMA PaymentsAreNumbers ==
  /\ Once \in [Played -> Nat] /\ \A q, r \in Played : Once[q] = Once[r]
  /\ \A player \in Player :
       /\ PaidTo(player) \in [Played -> Nat]
       /\ \A q \in Played : PaidTo(player)[q] = q.rewards[player]
       /\ \A q, r \in Played : q.rewards = r.rewards => PaidTo(player)[q] = PaidTo(player)[r]
<1>1. ASSUME NEW player \in Player
      PROVE  PaidTo(player) \in [Played -> Nat]
  <2>1. \A q \in Played : q.rewards[player] \in Nat
    BY DEF Played
  <2> QED BY <2>1 DEF PaidTo
<1>2. Once \in [Played -> Nat]
  BY DEF Once
<1> QED BY <1>1, <1>2 DEF Once, PaidTo

(* The nodes are the view of what was shown: all that was shown ends at one *)
(* of them, and each has the visits and the rewards of what passes through, *)
(* the rewards of the player who made the last move to it.                  *)
Shows(p, nodes, from, b) ==
  /\ IsShown(b)
  /\ \A q \in DOMAIN b : Seen(p, q.line, from) \in DOMAIN nodes
  /\ \A at \in DOMAIN nodes :
       /\ nodes[at].visits = Share(p, b, from, at, Once)
       /\ at # Root =>
            /\ nodes[at].player = Turn(from + Len(at) - 1)
            /\ nodes[at].reward = Share(p, b, from, at, PaidTo(nodes[at].player))

LEMMA ShowsNothing ==
  ASSUME NEW p, NEW nodes, NEW from,
         DOMAIN nodes = {Root}, nodes[Root].visits = 0
  PROVE  Shows(p, nodes, from, EmptyBag)
<1>1. DOMAIN EmptyBag = {} /\ EmptyBag \in [{} -> Nat]
  BY DEF EmptyBag, SetToBag
<1>2. IsShown(EmptyBag)
  BY <1>1, FS_EmptySet DEF IsShown
<1>3. Through(p, EmptyBag, from, Root) = {}
  BY <1>1 DEF Through
<1>4. Share(p, EmptyBag, from, Root, Once) = 0
  BY <1>3, ShareOfNone
<1> QED BY <1>1, <1>2, <1>4 DEF Shows

(* New nodes have been shown nothing.                                       *)
LEMMA ShowsExtended ==
  ASSUME NEW p, NEW nodes, IsTree(nodes), NEW from \in Nat, NEW b,
         Shows(p, nodes, from, b),
         NEW more, NEW path \in Seq(Key), NEW player \in Nat,
         Extends(nodes, more, path, player), player = Turn(from + Len(path))
  PROVE  Shows(p, more, from, b)
<1>1. IsShown(b) /\ \A q \in DOMAIN b : Seen(p, q.line, from) \in DOMAIN nodes
  BY DEF Shows
<1>2. \A q \in DOMAIN b : Seen(p, q.line, from) \in DOMAIN more
  BY <1>1 DEF Extends
<1>3. ASSUME NEW at \in DOMAIN more
      PROVE  /\ more[at].visits = Share(p, b, from, at, Once)
             /\ at # Root =>
                  /\ more[at].player = Turn(from + Len(at) - 1)
                  /\ more[at].reward = Share(p, b, from, at, PaidTo(more[at].player))
  <2>1. CASE at \in DOMAIN nodes
    <3>1. /\ more[at].visits = nodes[at].visits /\ more[at].player = nodes[at].player
          /\ more[at].reward = nodes[at].reward
      BY <2>1 DEF Extends
    <3> QED BY <2>1, <3>1 DEF Shows
  <2>2. CASE at \notin DOMAIN nodes
    <3>1. /\ more[at].visits = 0 /\ more[at].player = player /\ more[at].reward = 0
          /\ Len(at) = Len(path) + 1 /\ at \in Seq(Key)
      BY <2>2, NewNodeIsANode DEF Extends, IsTree
    <3>2. Through(p, b, from, at) = {}
      BY <1>1, <2>2, <3>1, PrefixClosed DEF Through
    <3>3. from + Len(at) - 1 = from + Len(path)
      BY <3>1, LenProperties
    <3> QED BY <3>1, <3>2, <3>3, ShareOfNone
  <2> QED BY <2>1, <2>2
<1> QED BY <1>1, <1>2, <1>3 DEF Shows

(* A playout is backed up along all that it passes through.                 *)
LEMMA ShowsBackedUp ==
  ASSUME NEW p, NEW nodes, NEW from, NEW b, Shows(p, nodes, from, b),
         NEW rewards \in [Player -> Nat], NEW line \in Seq(Move),
         NEW path, path = Seen(p, line, from), path \in DOMAIN nodes,
         \A at \in DOMAIN nodes : nodes[at].player \in Player,
         NEW backed, DOMAIN backed = DOMAIN nodes,
         \A at \in DOMAIN nodes :
           /\ backed[at].player = nodes[at].player
           /\ backed[at].visits
                = IF IsPrefix(at, path) THEN nodes[at].visits + 1 ELSE nodes[at].visits
           /\ backed[at].reward
                = nodes[at].reward
                  + (IF IsPrefix(at, path) THEN rewards[nodes[at].player] ELSE 0)
  PROVE  Shows(p, backed, from, b (+) SetToBag({[line |-> line, rewards |-> rewards]}))
<1> DEFINE r    == [line |-> line, rewards |-> rewards]
           more == b (+) SetToBag({r})
<1>1. r \in Played /\ r.line = line /\ r.rewards = rewards /\ IsShown(b)
  BY DEF Played, Shows
<1> HIDE DEF r
<1>2. /\ IsShown(more) /\ DOMAIN more = DOMAIN b \union {r}
      /\ \A at, of : of \in [Played -> Nat] =>
           Share(p, more, from, at, of)
             = Share(p, b, from, at, of) + (IF IsPrefix(at, path) THEN of[r] ELSE 0)
  <2>1. /\ IsShown(more) /\ DOMAIN more = DOMAIN b \union {r}
        /\ \A o, n, at, of : of \in [Played -> Nat] =>
             Share(o, more, n, at, of)
               = Share(o, b, n, at, of) + (IF IsPrefix(at, Seen(o, r.line, n)) THEN of[r] ELSE 0)
    BY ONLY <1>1, ShareGained
  <2> HIDE DEF more
  <2> QED BY <1>1, <2>1
<1> HIDE DEF more
<1>3. \A q \in DOMAIN more : Seen(p, q.line, from) \in DOMAIN backed
  BY <1>1, <1>2 DEF Shows
<1>4. ASSUME NEW at \in DOMAIN nodes
      PROVE  backed[at].visits = Share(p, more, from, at, Once)
  <2> DEFINE old == Share(p, b, from, at, Once)
  <2>1. Once \in [Played -> Nat] /\ Once[r] = 1 /\ old \in Int
    <3>1. Once \in [Played -> Nat]
      BY PaymentsAreNumbers
    <3> QED BY <1>1, <3>1, WeightsAreNumbers DEF Once
  <2>2. Share(p, more, from, at, Once) = old + (IF IsPrefix(at, path) THEN 1 ELSE 0)
    BY <1>2, <2>1
  <2>3. nodes[at].visits = old
    BY DEF Shows
  <2>4. backed[at].visits
          = IF IsPrefix(at, path) THEN nodes[at].visits + 1 ELSE nodes[at].visits
    OBVIOUS
  <2> HIDE DEF old
  <2> QED BY <2>1, <2>2, <2>3, <2>4
<1>5. ASSUME NEW at \in DOMAIN nodes, at # Root
      PROVE  /\ backed[at].player = Turn(from + Len(at) - 1)
             /\ backed[at].reward = Share(p, more, from, at, PaidTo(backed[at].player))
  <2> DEFINE player == nodes[at].player
             old    == Share(p, b, from, at, PaidTo(player))
  <2>1. player \in Player
    OBVIOUS
  <2>2. /\ PaidTo(player) \in [Played -> Nat] /\ PaidTo(player)[r] = rewards[player]
    BY <1>1, <2>1, PaymentsAreNumbers
  <2>3. Share(p, more, from, at, PaidTo(player))
          = old + (IF IsPrefix(at, path) THEN rewards[player] ELSE 0)
    BY <1>2, <2>2
  <2>4. nodes[at].reward = old /\ player = Turn(from + Len(at) - 1)
    BY <1>5 DEF Shows
  <2>5. backed[at].player = player
    OBVIOUS
  <2> QED BY <2>3, <2>4, <2>5
<1>6. Shows(p, backed, from, more)
  BY <1>2, <1>3, <1>4, <1>5 DEF Shows
<1> QED BY <1>6 DEF more, r

(* The child's subtree is the view of what passed through the child.        *)
LEMMA ShowsRerooted ==
  ASSUME NEW p \in Player, NEW nodes, IsTree(nodes), NEW from \in Nat, NEW b,
         Shows(p, nodes, from, b), \A at \in DOMAIN nodes : nodes[at].player \in Player,
         NEW key \in Key, NEW new, IsTree(new),
         \A at \in DOMAIN new :
           /\ <<key>> \o at \in DOMAIN nodes
           /\ at # Root => new[at] = nodes[<<key>> \o at]
           /\ new[at].visits = nodes[<<key>> \o at].visits,
         \A at \in Seq(Key) : <<key>> \o at \in DOMAIN nodes => at \in DOMAIN new
  PROVE  Shows(p, new, from + 1, CutBag(p, b, from, key))
<1> DEFINE kept == CutBag(p, b, from, key)
<1>1. IsShown(b)
  BY DEF Shows
<1>2. /\ IsShown(kept)
      /\ \A r \in DOMAIN kept : \E q \in DOMAIN b :
           Seen(p, q.line, from) = <<key>> \o Seen(p, r.line, from + 1)
      /\ \A at \in Seq(Key), of \in [Played -> Nat] :
           (\A q, r \in Played : q.rewards = r.rewards => of[q] = of[r]) =>
             Share(p, kept, from + 1, at, of) = Share(p, b, from, <<key>> \o at, of)
  <2>1. KeptAt(p, b, from, key, kept)
    BY <1>1, ShareKept
  <2> HIDE DEF kept
  <2> QED BY <2>1 DEF KeptAt
<1> HIDE DEF kept
<1>3. ASSUME NEW r \in DOMAIN kept
      PROVE  Seen(p, r.line, from + 1) \in DOMAIN new
  <2>1. r.line \in Seq(Move) /\ from + 1 \in Nat
    BY <1>2 DEF IsShown, Played
  <2>2. Seen(p, r.line, from + 1) \in Seq(Key)
    BY <2>1, SeenIsASequence
  <2>3. <<key>> \o Seen(p, r.line, from + 1) \in DOMAIN nodes
    BY <1>2 DEF Shows
  <2> QED BY <2>2, <2>3
<1>4. ASSUME NEW at \in DOMAIN new
      PROVE  /\ new[at].visits = Share(p, kept, from + 1, at, Once)
             /\ at # Root =>
                  /\ new[at].player = Turn(from + 1 + Len(at) - 1)
                  /\ new[at].reward = Share(p, kept, from + 1, at, PaidTo(new[at].player))
  <2> DEFINE down == <<key>> \o at
  <2>1. /\ at \in Seq(Key) /\ down \in DOMAIN nodes /\ down # Root
        /\ Len(down) = Len(at) + 1 /\ Len(at) \in Nat
        /\ new[at].visits = nodes[down].visits
        /\ at # Root => new[at] = nodes[down]
        /\ nodes[down].player \in Player
    BY Below, LenProperties DEF IsTree
  <2>2. /\ nodes[down].visits = Share(p, b, from, down, Once)
        /\ nodes[down].player = Turn(from + Len(down) - 1)
        /\ nodes[down].reward = Share(p, b, from, down, PaidTo(nodes[down].player))
    BY <2>1 DEF Shows
  <2>3. /\ Share(p, kept, from + 1, at, Once) = Share(p, b, from, down, Once)
        /\ Share(p, kept, from + 1, at, PaidTo(nodes[down].player))
             = Share(p, b, from, down, PaidTo(nodes[down].player))
    <3>1. Once \in [Played -> Nat] /\ \A q, r \in Played : Once[q] = Once[r]
      BY PaymentsAreNumbers
    <3>2. /\ PaidTo(nodes[down].player) \in [Played -> Nat]
          /\ \A q, r \in Played : q.rewards = r.rewards =>
               PaidTo(nodes[down].player)[q] = PaidTo(nodes[down].player)[r]
      BY <2>1, PaymentsAreNumbers
    <3> QED BY <1>2, <2>1, <3>1, <3>2
  <2> HIDE DEF down
  <2>4. from + 1 + Len(at) - 1 = from + Len(down) - 1
    BY <2>1
  <2> QED BY <2>1, <2>2, <2>3, <2>4
<1> QED BY <1>2, <1>3, <1>4 DEF Shows, kept

-----------------------------------------------------------------------------
(* The inductive invariant.                                                 *)

Descent == pc \in {"descend", "rollout"}

Made == SubSeq(world.line, Len(position.line) + 1, Len(world.line))

PositionOK == position \in [deck : Deck, line : Line] /\ Len(position.line) <= Ends(position.deck)

WorldOK ==
  Descent => /\ world \in [deck : Deck, line : Line]
             /\ Len(world.line) \in Len(position.line)..Ends(world.deck)

TreesOK ==
  /\ trees = [p \in Player |-> [about |-> trees[p].about, nodes |-> trees[p].nodes]]
  /\ \A p \in Player : /\ IsTree(trees[p].nodes)
                       /\ trees[p].about = None \/ trees[p].about \in Seq(Key)
                       /\ trees[p].about = None => DOMAIN trees[p].nodes = {Root}

OwnersOK ==
  \A p \in Player : trees[p].about # None =>
    \A at \in DOMAIN trees[p].nodes : trees[p].nodes[at].player \in Player

InStep ==
  /\ \A p, q \in Player : /\ trees[p].about = None <=> trees[q].about = None
                          /\ trees[p].about # None => Len(trees[p].about) = Len(trees[q].about)
  /\ armed \/ pc # "idle" => \A p \in Player : trees[p].about # None

PathsOK ==
  /\ paths \in [Player -> Seq(Key)]
  /\ \A p \in Player : /\ paths[p] \in DOMAIN trees[p].nodes
                       /\ paths[p] = IF Descent THEN Seen(p, Made, Len(position.line)) ELSE Root

Structure ==
  /\ pc \in {"idle", "loop", "descend", "rollout"}
  /\ PositionOK /\ WorldOK /\ TreesOK /\ OwnersOK /\ InStep /\ PathsOK

(* While every move has been reported, a tree that has grown anything is    *)
(* this position's: it is what a report needs to re-root it.                *)
Describing ==
  spared \/
    /\ armed => \A p \in Player : trees[p].about = Seen(p, position.line, 0)
    /\ reported => \A p \in Player : \/ DOMAIN trees[p].nodes = {Root}
                                     \/ trees[p].about = Seen(p, position.line, 0)
    /\ pc # "idle" => \A p \in Player : /\ grown[p] = trees[p].about
                                        /\ trees[p].about = Seen(p, position.line, 0)

(* A node on the path has had an opportunity that it is yet to be credited  *)
(* a visit for.                                                             *)
Opportune(nodes, path, from, player) ==
  \A at \in DOMAIN nodes \ {Root} : Turn(from + Len(at) - 1) = player =>
    /\ nodes[at].visits <= nodes[at].available
    /\ IsPrefix(at, path) => nodes[at].visits < nodes[at].available

Warranted ==
  spared \/ \A p \in Player :
    trees[p].about # None =>
      Opportune(trees[p].nodes, paths[p], Len(trees[p].about), p)

(* What the search has shown a tree since it was rooted is what the tree    *)
(* holds.                                                                   *)
Viewed ==
  spared \/ \A p \in Player :
    trees[p].about # None =>
      Shows(p, trees[p].nodes, Len(trees[p].about), playouts[p])

Answering == (pc # "idle" => answer = None) /\ AnswerLeads

Inv == Structure /\ Describing /\ Warranted /\ Viewed /\ Answering

-----------------------------------------------------------------------------
(* The steps.                                                               *)

(* What a position or a world offers; a player's key for its own move is    *)
(* the move.                                                                *)
LEMMA LegalMoves ==
  ASSUME NEW p \in [deck : Deck, line : Line]
  PROVE  /\ Legal(p) \in Seq(Move)
         /\ Elements(Legal(p)) \subseteq Move
         /\ Mover(p) \in Player
         /\ p.line \in Seq(Move) /\ Len(p.line) \in 0..MaxMoves
         /\ Ends(p.deck) \in 0..MaxMoves
<1>1. p.deck \in Deck /\ p.line \in Line
  OBVIOUS
<1>2. p.line \in Seq(Move) /\ Len(p.line) \in 0..MaxMoves
  BY <1>1, LineIsASequence
<1>3. Legal(p) \in Seq(Move)
  BY <1>1, ObservedAssumption DEF Legal
<1>4. Elements(Legal(p)) \subseteq Move
  BY <1>3, LenProperties, ElementOfSeq DEF Elements
<1> QED BY <1>1, <1>2, <1>3, <1>4, ObservedAssumption DEF Mover

LEMMA OwnKeysAreMoves ==
  ASSUME NEW p, NEW legal \in Seq(Move)
  PROVE  OwnKeys(p, legal) = legal /\ legal \in Seq(Key)
<1>1. legal = [i \in DOMAIN legal |-> legal[i]]
  BY LenProperties
<1>2. Move \subseteq Key
  BY DEF Key
<1> QED BY <1>1, <1>2, SeqMonotonic DEF OwnKeys, ObservedKey

LEMMA SelectableIsLegal ==
  ASSUME NEW nodes, IsTree(nodes), NEW path \in DOMAIN nodes, NEW keys,
         NEW m \in Selectable(nodes, path, keys)
  PROVE  m \in Elements(keys) /\ m \in Elements(nodes[path].children)
<1> DEFINE child     == Children(nodes, path)
           legal     == Available(nodes, path, keys)
           unvisited == {i \in legal : nodes[Append(path, child[i])].visits = 0}
<1>1. PICK i \in IF unvisited # {} THEN {Min(unvisited)} ELSE legal : m = child[i]
  BY DEF Selectable
<1>2. \A j \in legal : j \in DOMAIN child /\ child[j] \in Elements(keys)
  BY DEF Available
<1>3. DOMAIN child \in SUBSET Nat
  <2>1. child \in Seq(Key)
    BY DEF Children, IsTree, Node
  <2>2. DOMAIN child = 1..Len(child) /\ Len(child) \in Nat
    BY <2>1, LenProperties
  <2> QED BY <2>2
<1> HIDE DEF child, legal
<1>4. unvisited # {} => Min(unvisited) \in unvisited
  <2>1. unvisited \in SUBSET Nat
    BY <1>2, <1>3
  <2> HIDE DEF unvisited
  <2>2. ASSUME unvisited # {}
        PROVE  \E n \in unvisited : \A j \in unvisited : n <= j
    BY <2>1, <2>2, LeastNatural
  <2> QED BY <2>2 DEF Min
<1>5. i \in legal
  BY <1>1, <1>4
<1> QED BY <1>1, <1>2, <1>5 DEF child, Children, Elements

LEMMA SeenMade ==
  ASSUME PositionOK, WorldOK, Descent, NEW m \in Move, NEW p \in Player,
         Len(world.line) < Ends(world.deck)
  PROVE  LET line == Append(world.line, m)
         IN  /\ line \in Line /\ Len(line) = Len(world.line) + 1
             /\ Seen(p, SubSeq(line, Len(position.line) + 1, Len(line)), Len(position.line))
                  = Append(Seen(p, Made, Len(position.line)), ObservedKey(p, Mover(world), m))
<1> DEFINE old  == world.line
           line == Append(old, m)
           a    == Len(position.line)
           n    == Len(old)
           made == SubSeq(line, a + 1, n + 1)
<1>1. /\ old \in Seq(Move) /\ n \in Nat /\ a \in Nat /\ a <= n /\ n + 1 <= MaxMoves
      /\ MaxMoves \in Nat
  <2>1. world \in [deck : Deck, line : Line] /\ position \in [deck : Deck, line : Line]
    BY DEF PositionOK, WorldOK
  <2>2. n \in a..Ends(world.deck)
    BY DEF WorldOK
  <2>3. /\ old \in Seq(Move) /\ n \in 0..MaxMoves /\ Ends(world.deck) \in 0..MaxMoves
        /\ a \in 0..MaxMoves
    BY <2>1, LegalMoves
  <2> HIDE DEF old, n, a
  <2>4. n < Ends(world.deck)
    BY DEF n, old
  <2>5. MaxMoves \in Nat
    BY ObservedAssumption
  <2> QED BY <2>2, <2>3, <2>4, <2>5
<1>2. /\ line \in Seq(Move) /\ Len(line) = n + 1
      /\ \A i \in 1..n : line[i] = old[i]
      /\ line[n + 1] = m
      /\ \A i \in 1..n : old[i] \in Move
  BY <1>1, AppendProperties, ElementOfSeq
<1>3. line \in Line
  BY <1>1, <1>2, SequenceIsALine
<1> HIDE DEF line, old, a, n
<1>4. Made = SubSeq(old, a + 1, n)
  BY DEF Made, old, a, n
<1>5. /\ Made \in Seq(Move) /\ Len(Made) = n - a
      /\ \A i \in 1..(n - a) : Made[i] = old[a + i]
  <2>1. a + 1 \in Int /\ n \in Int /\ \A i \in (a + 1)..n : old[i] \in Move
    BY <1>1, <1>2
  <2>2. /\ SubSeq(old, a + 1, n) \in Seq(Move)
        /\ Len(SubSeq(old, a + 1, n)) = IF a + 1 <= n THEN n - (a + 1) + 1 ELSE 0
        /\ \A i \in 1..(n - (a + 1) + 1) : SubSeq(old, a + 1, n)[i] = old[(a + 1) + i - 1]
    BY <2>1, SubSeqProperties
  <2> QED BY <1>1, <1>4, <2>2
<1>6. /\ made \in Seq(Move) /\ Len(made) = n - a + 1
      /\ \A i \in 1..(n - a + 1) : made[i] = line[a + i]
  <2>1. a + 1 \in Int /\ n + 1 \in Int /\ \A i \in (a + 1)..(n + 1) : line[i] \in Move
    BY <1>1, <1>2
  <2>2. /\ SubSeq(line, a + 1, n + 1) \in Seq(Move)
        /\ Len(SubSeq(line, a + 1, n + 1)) = IF a + 1 <= n + 1 THEN (n + 1) - (a + 1) + 1 ELSE 0
        /\ \A i \in 1..((n + 1) - (a + 1) + 1) :
             SubSeq(line, a + 1, n + 1)[i] = line[(a + 1) + i - 1]
    BY <2>1, SubSeqProperties
  <2> QED BY <1>1, <2>2
<1> HIDE DEF made
<1>7. made = Append(Made, m)
  <2>1. /\ Append(Made, m) \in Seq(Move) /\ Len(Append(Made, m)) = n - a + 1
        /\ \A i \in 1..(n - a) : Append(Made, m)[i] = Made[i]
        /\ Append(Made, m)[n - a + 1] = m
    BY <1>5, AppendProperties
  <2>2. ASSUME NEW i \in 1..(n - a + 1)
        PROVE  made[i] = Append(Made, m)[i]
    <3>1. CASE i = n - a + 1
      BY <1>1, <1>2, <1>6, <2>1, <3>1
    <3>2. CASE i # n - a + 1
      <4>1. i \in 1..(n - a) /\ a + i \in 1..n
        BY <1>1, <3>2
      <4> QED BY <1>2, <1>5, <1>6, <2>1, <4>1
    <3> QED BY <3>1, <3>2
  <2> QED BY <1>6, <2>1, <2>2, SeqEqual
<1>8. Seen(p, made, a) = Append(Seen(p, Made, a), ObservedKey(p, Mover(world), m))
  <2>1. Seen(p, Append(Made, m), a)
          = Append(Seen(p, Made, a), ObservedKey(p, Turn(a + Len(Made)), m))
    BY <1>1, <1>5, SeenAppend
  <2>2. a + Len(Made) = n
    BY <1>1, <1>5
  <2>3. Turn(n) = Mover(world)
    BY DEF Mover, n, old
  <2> QED BY <1>7, <2>1, <2>2, <2>3
<1> QED BY <1>2, <1>3, <1>8 DEF line, old, a, n, made

(* A level of the descent: every tree gains the nodes it lacked, and stands *)
(* at the one of the move as its player sees it; what the mover's tree had  *)
(* there has had one more opportunity.                                      *)
LEMMA DescendStep ==
  ASSUME Structure, Descend
  PROVE  \E m \in Move :
           LET mover == Mover(world)
           IN  /\ mover \in Player
               /\ Len(world.line) < Ends(world.deck)
               /\ world' = After(world, m)
               /\ pc' \in {"descend", "rollout"}
               /\ trees' = [p \in Player |-> [about |-> trees'[p].about, nodes |-> trees'[p].nodes]]
               /\ \A p \in Player :
                    /\ trees'[p].about = trees[p].about
                    /\ Extends(trees[p].nodes, trees'[p].nodes, paths[p], mover)
                    /\ paths'[p] = Append(paths[p], ObservedKey(p, mover, m))
                    /\ paths'[p] \in DOMAIN trees'[p].nodes
               /\ paths' = [p \in Player |-> paths'[p]]
               /\ LET at == paths'[mover]
                  IN  at \in DOMAIN trees[mover].nodes =>
                        trees'[mover].nodes[at].available = trees[mover].nodes[at].available + 1
<1> DEFINE mover == Mover(world)
           legal == Legal(world)
           keys  == OwnKeys(mover, legal)
           path  == paths[mover]
<1>1. /\ pc = "descend" /\ ~Over(world)
      /\ Descent /\ world \in [deck : Deck, line : Line]
  BY DEF Structure, WorldOK, Descend, Descending, Descent
<1>2. /\ mover \in Player /\ legal \in Seq(Move)
      /\ Elements(legal) \subseteq Move
      /\ Len(world.line) < Ends(world.deck)
  <2>1. /\ mover \in Player /\ legal \in Seq(Move)
        /\ Elements(legal) \subseteq Move /\ MaxMoves \in Nat
        /\ Len(world.line) \in 0..MaxMoves /\ Ends(world.deck) \in 0..MaxMoves
    BY <1>1, LegalMoves, ObservedAssumption
  <2>2. ~(Len(world.line) >= Ends(world.deck))
    BY <1>1 DEF Over
  <2> HIDE DEF mover, legal
  <2>3. Len(world.line) < Ends(world.deck)
    BY <2>1, <2>2
  <2> QED BY <2>1, <2>3
<1> HIDE DEF mover, legal
<1>3. keys = legal /\ keys \in Seq(Key) /\ mover \in Nat
  BY <1>2, OwnKeysAreMoves, ObservedAssumption
<1> DEFINE Taken(nodes, m) ==
        /\ trees' = [p \in Player |->
                       IF p = mover THEN [trees[p] EXCEPT !.nodes = nodes]
                                    ELSE Followed(p, mover, m)]
        /\ paths' = [p \in Player |-> Append(paths[p], ObservedKey(p, mover, m))]
        /\ world' = After(world, m)
        /\ pc' \in {"descend", "rollout"}
<1>a. PICK nodes \in Expanded(trees[mover].nodes, path, keys, mover) :
        \E m \in Selectable(nodes, path, keys) : Taken(nodes, m)
  BY DEF Descend, ExpandedForMover, mover, legal
<1>b. PICK m \in Selectable(nodes, path, keys) : Taken(nodes, m)
  BY <1>a
<1>4. /\ trees' = [p \in Player |->
                       IF p = mover THEN [trees[p] EXCEPT !.nodes = nodes]
                                    ELSE Followed(p, mover, m)]
        /\ paths' = [p \in Player |-> Append(paths[p], ObservedKey(p, mover, m))]
        /\ world' = After(world, m)
        /\ pc' \in {"descend", "rollout"}
  BY <1>b
<1> HIDE DEF Taken
<1> HIDE DEF keys
<1>5. /\ \A p \in Player : /\ IsTree(trees[p].nodes)
                           /\ paths[p] \in DOMAIN trees[p].nodes /\ paths[p] \in Seq(Key)
                           /\ trees[p] = [about |-> trees[p].about, nodes |-> trees[p].nodes]
  BY DEF Structure, TreesOK, PathsOK
<1>6. /\ Extends(trees[mover].nodes, nodes, path, mover)
      /\ \A k \in Elements(keys) :
           Append(path, k) \in DOMAIN trees[mover].nodes =>
             nodes[Append(path, k)].available
               = trees[mover].nodes[Append(path, k)].available + 1
  <2> DEFINE old == trees[mover].nodes
  <2>1. nodes \in Expanded(old, path, keys, mover) /\ IsTree(old) /\ path \in DOMAIN old
    BY <1>2, <1>5
  <2> HIDE DEF old, path
  <2>2. /\ Extends(old, nodes, path, mover)
        /\ \A k \in Elements(keys) :
             Append(path, k) \in DOMAIN old =>
               nodes[Append(path, k)].available = old[Append(path, k)].available + 1
    <3>1. mover \in Nat /\ keys \in Seq(Key)
      BY <1>3
    <3> HIDE DEF mover
    <3>2. IsTree(old) /\ path \in DOMAIN old /\ nodes \in Expanded(old, path, keys, mover)
      BY <2>1
    <3> QED BY ONLY <3>1, <3>2, ExpandedTree
  <2> QED BY <2>2 DEF old, path
<1>7. /\ m \in Elements(keys) /\ m \in Move
      /\ Append(path, m) \in DOMAIN nodes
  <2>1. IsTree(nodes) /\ path \in DOMAIN nodes
    BY <1>2, <1>5, <1>6 DEF Extends
  <2>2. m \in Elements(keys) /\ m \in Elements(nodes[path].children)
    BY <2>1, SelectableIsLegal
  <2>3. Append(path, m) \in DOMAIN nodes
    BY <2>1, <2>2 DEF IsTree
  <2> QED BY <1>2, <1>3, <2>2, <2>3
<1>8. ASSUME NEW p \in Player
      PROVE  /\ trees'[p].about = trees[p].about
             /\ trees'[p] = [about |-> trees'[p].about, nodes |-> trees'[p].nodes]
             /\ Extends(trees[p].nodes, trees'[p].nodes, paths[p], mover)
             /\ Append(paths[p], ObservedKey(p, mover, m)) \in DOMAIN trees'[p].nodes
  <2>1. CASE p = mover
    <3>1. trees'[p] = [trees[p] EXCEPT !.nodes = nodes]
      BY <1>4, <2>1
    <3>2. /\ trees'[p].about = trees[p].about /\ trees'[p].nodes = nodes
          /\ trees'[p] = [about |-> trees'[p].about, nodes |-> trees'[p].nodes]
      BY <1>5, <3>1
    <3>3. ObservedKey(p, mover, m) = m
      BY <2>1 DEF ObservedKey
    <3> QED BY <1>6, <1>7, <2>1, <3>2, <3>3
  <2>2. CASE p # mover
    <3> DEFINE key   == ObservedKey(p, mover, m)
               found == FindOrPush(trees[p].nodes, paths[p], key, mover)
    <3>1. trees'[p] = [trees[p] EXCEPT !.nodes = found]
      BY <1>4, <2>2 DEF Followed
    <3>2. key \in Key
      BY <1>7, KeyOfAMove
    <3> HIDE DEF key
    <3>3. Extends(trees[p].nodes, found, paths[p], mover) /\ Append(paths[p], key) \in DOMAIN found
      BY <1>3, <1>5, <3>2, FindOrPushTree
    <3> HIDE DEF found
    <3>4. /\ trees'[p].about = trees[p].about /\ trees'[p].nodes = found
          /\ trees'[p] = [about |-> trees'[p].about, nodes |-> trees'[p].nodes]
      BY <1>5, <3>1
    <3> QED BY <3>3, <3>4 DEF key
  <2> QED BY <2>1, <2>2
<1>9. trees' = [p \in Player |-> [about |-> trees'[p].about, nodes |-> trees'[p].nodes]]
  <2>1. trees' = [p \in Player |-> trees'[p]]
    BY <1>4
  <2> QED BY <1>8, <2>1
<1>10. \A p \in Player : paths'[p] = Append(paths[p], ObservedKey(p, mover, m))
  BY <1>4
<1>11. paths'[mover] = Append(path, m) /\ trees'[mover].nodes = nodes
  <2>1. trees'[mover] = [trees[mover] EXCEPT !.nodes = nodes]
    BY <1>2, <1>4
  <2>2. trees'[mover].nodes = nodes
    BY <1>2, <1>5, <2>1
  <2> QED BY <1>2, <1>10, <2>2 DEF ObservedKey
<1>12. LET at == paths'[mover]
       IN  at \in DOMAIN trees[mover].nodes =>
             trees'[mover].nodes[at].available = trees[mover].nodes[at].available + 1
  BY <1>6, <1>7, <1>11
<1>13. paths' = [p \in Player |-> paths'[p]]
  BY <1>4
<1> QED BY <1>2, <1>4, <1>7, <1>8, <1>9, <1>10, <1>12, <1>13 DEF mover

Records(ts) == ts = [p \in Player |-> [about |-> ts[p].about, nodes |-> ts[p].nodes]]

LEMMA ExtendsItself ==
  ASSUME NEW nodes, IsTree(nodes), NEW path, NEW player
  PROVE  Extends(nodes, nodes, path, player)
<1>1. \A at \in DOMAIN nodes : nodes[at].available \in Nat
  BY DEF IsTree, Node
<1>2. \A at \in DOMAIN nodes : nodes[at].available >= nodes[at].available
  BY <1>1
<1> QED BY <1>2 DEF Extends

LEMMA BeginStep ==
  ASSUME Structure, Begin
  PROVE  /\ Records(trees')
         /\ \A p \in Player :
              /\ trees'[p].about = IF armed THEN trees[p].about ELSE Seen(p, position.line, 0)
              /\ IsTree(trees'[p].nodes)
              /\ armed => /\ DOMAIN trees'[p].nodes = DOMAIN trees[p].nodes
                          /\ trees'[p].nodes[Root].visits = trees[p].nodes[Root].visits
                          /\ \A at \in DOMAIN trees[p].nodes \ {Root} :
                               trees'[p].nodes[at] = trees[p].nodes[at]
              /\ ~armed => /\ DOMAIN trees'[p].nodes = {Root}
                           /\ trees'[p].nodes[Root].visits = 0
              /\ \A at \in DOMAIN trees'[p].nodes : trees'[p].nodes[at].player \in Player
<1>1. trees' = [p \in Player |-> Started(p)]
  BY DEF Begin
<1> DEFINE mover == Mover(position)
<1>2. mover \in Player /\ mover \in Nat
  BY LegalMoves, ObservedAssumption DEF Structure, PositionOK
<1> HIDE DEF mover
<1>3. ASSUME NEW p \in Player
      PROVE  /\ trees'[p] = [about |-> trees'[p].about, nodes |-> trees'[p].nodes]
             /\ trees'[p].about = IF armed THEN trees[p].about ELSE Seen(p, position.line, 0)
             /\ IsTree(trees'[p].nodes)
             /\ armed => /\ DOMAIN trees'[p].nodes = DOMAIN trees[p].nodes
                         /\ trees'[p].nodes[Root].visits = trees[p].nodes[Root].visits
                         /\ \A at \in DOMAIN trees[p].nodes \ {Root} :
                              trees'[p].nodes[at] = trees[p].nodes[at]
             /\ ~armed => /\ DOMAIN trees'[p].nodes = {Root}
                          /\ trees'[p].nodes[Root].visits = 0
             /\ \A at \in DOMAIN trees'[p].nodes : trees'[p].nodes[at].player \in Player
  <2>1. CASE ~armed
    <3>1. trees'[p] = NewRoot(Seen(p, position.line, 0), mover)
      BY <1>1, <2>1 DEF Started, mover
    <3>2. /\ trees'[p].about = Seen(p, position.line, 0)
          /\ IsTree(trees'[p].nodes)
          /\ DOMAIN trees'[p].nodes = {Root}
          /\ trees'[p].nodes[Root] = NewNode(mover)
      BY <1>2, <3>1, NewRootIsATree
    <3>3. trees'[p] = [about |-> trees'[p].about, nodes |-> trees'[p].nodes]
      BY <3>1 DEF NewRoot
    <3>4. NewNode(mover).player = mover /\ NewNode(mover).visits = 0
      BY DEF NewNode
    <3> QED BY <1>2, <2>1, <3>2, <3>3, <3>4
  <2>2. CASE armed
    <3> DEFINE old == trees[p].nodes
               new == [old EXCEPT ![Root] = [old[Root] EXCEPT !.player = mover, !.reward = 0]]
    <3>1. /\ trees[p] = [about |-> trees[p].about, nodes |-> old]
          /\ IsTree(old) /\ Root \in DOMAIN old /\ old \in [DOMAIN old -> Node]
      BY DEF Structure, TreesOK, IsTree
    <3>2. trees'[p] = [trees[p] EXCEPT !.nodes = new]
      <4>1. trees'[p] = [trees[p] EXCEPT !.nodes[Root].player = mover, !.nodes[Root].reward = 0]
        BY <1>1, <2>2 DEF Started, mover
      <4> QED BY <3>1, <4>1
    <3>3. /\ trees'[p] = [about |-> trees'[p].about, nodes |-> trees'[p].nodes]
          /\ trees'[p].about = trees[p].about /\ trees'[p].nodes = new
      BY <3>1, <3>2
    <3>4. old[Root] \in Node
      BY <3>1
    <3>5. /\ new \in [DOMAIN old -> Node] /\ DOMAIN new = DOMAIN old
          /\ new[Root].player = mover /\ new[Root].visits = old[Root].visits
          /\ \A at \in DOMAIN old \ {Root} : new[at] = old[at]
          /\ \A at \in DOMAIN old : new[at].children = old[at].children
      <4> DEFINE root == [old[Root] EXCEPT !.player = mover, !.reward = 0]
      <4>1. /\ root \in Node /\ root.player = mover /\ root.children = old[Root].children
            /\ root.visits = old[Root].visits
        BY <1>2, <3>4 DEF Node
      <4> HIDE DEF old, root
      <4>2. [old EXCEPT ![Root] = root] \in [DOMAIN old -> Node]
        BY <3>1, <4>1
      <4> QED BY <3>1, <4>1, <4>2 DEF root
    <3> HIDE DEF new
    <3>6. IsTree(new)
      <4> HIDE DEF old
      <4> QED BY <3>1, <3>5, SameShape
    <3>7. trees[p].about # None
      BY <2>2 DEF Structure, InStep
    <3>8. \A at \in DOMAIN new : new[at].player \in Player
      BY <1>2, <3>5, <3>7 DEF Structure, OwnersOK
    <3> QED BY <2>2, <3>3, <3>5, <3>6, <3>8
  <2> QED BY <2>1, <2>2
<1>4. trees' = [p \in Player |-> trees'[p]]
  BY <1>1
<1>5. Records(trees')
  BY <1>3, <1>4 DEF Records
<1> QED BY <1>3, <1>5

LEMMA EndIterationStep ==
  ASSUME Structure, EndIteration
  PROVE  /\ Records(trees')
         /\ \A p \in Player :
              /\ trees'[p].about = trees[p].about
              /\ IsTree(trees'[p].nodes)
              /\ DOMAIN trees'[p].nodes = DOMAIN trees[p].nodes
              /\ \A at \in DOMAIN trees[p].nodes :
                   LET new == trees'[p].nodes[at]
                       old == trees[p].nodes[at]
                   IN  /\ new.player = old.player
                       /\ new.available = old.available
                       /\ new.visits = IF IsPrefix(at, paths[p])
                                       THEN old.visits + 1 ELSE old.visits
         /\ \E rewards \in [Player -> Nat] :
              /\ playouts' = [p \in Player |->
                                playouts[p] (+) SetToBag({[line |-> Made, rewards |-> rewards]})]
              /\ \A p \in Player : \A at \in DOMAIN trees[p].nodes :
                   LET old == trees[p].nodes[at]
                   IN  trees'[p].nodes[at].reward
                         = old.reward
                           + (IF IsPrefix(at, paths[p]) THEN rewards[old.player] ELSE 0)
         /\ Descent
         /\ pc' = "loop" /\ paths' = [p \in Player |-> Root]
         /\ UNCHANGED <<position, armed, answer, searches, ghosts>>
<1>1. PICK rewards \in [Player -> Nat] : BackUp(rewards)
  <2>1. CASE pc = "rollout" /\ \E rewards \in Payoff : BackUp(rewards)
    BY <2>1, ObservedAssumption
  <2>2. CASE pc = "descend" /\ Over(world) /\ BackUp(Outcome(world.line))
    <3>1. world.deck \in Deck /\ world.line \in Line
      BY <2>2 DEF Structure, WorldOK, Descent
    <3>2. Len(world.line) >= Ends(world.deck)
      BY <2>2 DEF Over
    <3> QED BY <2>2, <3>1, <3>2, ObservedAssumption
  <2>3. CASE pc = "descend" /\ ~Over(world) /\ Legal(world) = <<>> /\ BackUp(Floor)
    BY <2>3, ObservedAssumption
  <2> QED BY <2>1, <2>2, <2>3 DEF EndIteration
<1>2. pc # "idle"
  BY DEF EndIteration
<1>3. ASSUME NEW p \in Player
      PROVE  /\ trees'[p].about = trees[p].about
             /\ trees'[p] = [about |-> trees'[p].about, nodes |-> trees'[p].nodes]
             /\ trees'[p].nodes = BackedUp(trees[p].nodes, paths[p], rewards)
  <2>1. trees'[p] = [trees[p] EXCEPT !.nodes = BackedUp(trees[p].nodes, paths[p], rewards)]
    BY <1>1 DEF BackUp
  <2>2. trees[p] = [about |-> trees[p].about, nodes |-> trees[p].nodes]
    BY DEF Structure, TreesOK
  <2> QED BY <2>1, <2>2
<1>4. ASSUME NEW p \in Player
      PROVE  /\ IsTree(trees'[p].nodes)
             /\ DOMAIN trees'[p].nodes = DOMAIN trees[p].nodes
             /\ \A at \in DOMAIN trees[p].nodes :
                  /\ trees'[p].nodes[at].player = trees[p].nodes[at].player
                  /\ trees'[p].nodes[at].available = trees[p].nodes[at].available
                  /\ trees'[p].nodes[at].visits
                       = IF IsPrefix(at, paths[p]) THEN trees[p].nodes[at].visits + 1
                         ELSE trees[p].nodes[at].visits
                  /\ trees'[p].nodes[at].reward
                       = trees[p].nodes[at].reward
                         + (IF IsPrefix(at, paths[p])
                            THEN rewards[trees[p].nodes[at].player] ELSE 0)
  <2> DEFINE old == trees[p].nodes
             new == BackedUp(old, paths[p], rewards)
  <2>1. IsTree(old) /\ \A at \in DOMAIN old : old[at].player \in Player
    BY <1>2 DEF Structure, TreesOK, OwnersOK, InStep
  <2>2. trees'[p].nodes = new
    BY <1>3
  <2> HIDE DEF old
  <2>3. /\ IsTree(new) /\ DOMAIN new = DOMAIN old
        /\ \A at \in DOMAIN old :
             /\ new[at].player = old[at].player
             /\ new[at].available = old[at].available
             /\ new[at].visits
                  = IF IsPrefix(at, paths[p]) THEN old[at].visits + 1 ELSE old[at].visits
             /\ new[at].reward
                  = old[at].reward
                    + (IF IsPrefix(at, paths[p]) THEN rewards[old[at].player] ELSE 0)
    BY <2>1, BackedUpTree
  <2> HIDE DEF new
  <2> QED BY <2>2, <2>3 DEF old
<1>5. Records(trees')
  <2>1. trees' = [p \in Player |-> trees'[p]]
    BY <1>1 DEF BackUp
  <2> QED BY <1>3, <2>1 DEF Records
<1>6. /\ pc' = "loop" /\ paths' = [p \in Player |-> Root]
      /\ UNCHANGED <<position, armed, answer, searches, ghosts>>
  BY <1>1 DEF BackUp
<1>7. playouts' = [p \in Player |->
                     playouts[p] (+) SetToBag({[line |-> Made, rewards |-> rewards]})]
  BY <1>1 DEF BackUp, Made
<1>8. Descent
  BY DEF EndIteration, Descent
<1> QED BY <1>3, <1>4, <1>5, <1>6, <1>7, <1>8

(* A panic leaves in every tree what was there, and at most new nodes.      *)
LEMMA PanicStep ==
  ASSUME Structure, Panic
  PROVE  /\ Records(trees')
         /\ \A p \in Player : /\ trees'[p].about = trees[p].about
                              /\ \E player \in Player :
                                   /\ Extends(trees[p].nodes, trees'[p].nodes, paths[p], player)
                                   /\ \/ trees'[p].nodes = trees[p].nodes
                                      \/ Descent /\ player = Mover(world)
         /\ pc' = "idle" /\ paths' = [p \in Player |-> Root]
         /\ UNCHANGED <<position, armed, answer, searches, playouts, ghosts>>
<1>1. /\ Records(trees)
      /\ \A p \in Player : IsTree(trees[p].nodes)
      /\ \A p \in Player : trees[p] = [about |-> trees[p].about, nodes |-> trees[p].nodes]
      /\ Mover(position) \in Player
  BY LegalMoves DEF Structure, TreesOK, Records, PositionOK
<1>2. CASE trees' = trees
  BY <1>1, <1>2, ExtendsItself DEF Panic
<1>3. CASE /\ Descending
           /\ \E nodes \in ExpandedForMover :
                trees' = [trees EXCEPT ![Mover(world)].nodes = nodes]
  <2> DEFINE mover == Mover(world)
             keys  == OwnKeys(mover, Legal(world))
             old   == trees[mover].nodes
             path  == paths[mover]
  <2>1. PICK nodes \in ExpandedForMover : trees' = [trees EXCEPT ![mover].nodes = nodes]
    BY <1>3
  <2>2. world \in [deck : Deck, line : Line]
    BY <1>3 DEF Structure, WorldOK, Descent, Descending
  <2>3. mover \in Player /\ mover \in Nat /\ keys \in Seq(Key)
    BY <2>2, LegalMoves, OwnKeysAreMoves, ObservedAssumption
  <2>4. nodes \in Expanded(old, path, keys, mover)
    BY DEF ExpandedForMover
  <2>5. IsTree(old) /\ path \in DOMAIN old
    BY <1>1, <2>3 DEF Structure, PathsOK
  <2> HIDE DEF mover, keys, old, path
  <2>6. Extends(old, nodes, path, mover)
    BY <2>3, <2>4, <2>5, ExpandedTree
  <2>7. ASSUME NEW p \in Player
        PROVE  /\ trees'[p].about = trees[p].about
               /\ trees'[p] = [about |-> trees'[p].about, nodes |-> trees'[p].nodes]
               /\ Extends(trees[p].nodes, trees'[p].nodes, paths[p], mover)
    <3>1. trees = [q \in Player |-> trees[q]]
      BY <1>1 DEF Records
    <3>2. trees'[p] = IF p = mover THEN [trees[p] EXCEPT !.nodes = nodes] ELSE trees[p]
      BY <2>1, <3>1
    <3> QED BY <1>1, <2>6, <3>2, ExtendsItself DEF old, path
  <2>8. Records(trees')
    <3>1. trees' = [p \in Player |-> trees'[p]]
      BY <1>1, <2>1 DEF Records
    <3> QED BY <2>7, <3>1 DEF Records
  <2>9. Descent
    BY <1>3 DEF Descending, Descent
  <2> QED BY <2>3, <2>7, <2>8, <2>9 DEF Panic, mover
<1> QED BY <1>2, <1>3 DEF Panic

(* What the trees are after a move is reported or only made.                *)
LEMMA PlayStep ==
  ASSUME Structure, NEW m \in Move, Play(m)
  PROVE  /\ PositionOK' /\ position'.line = Append(position.line, m)
         /\ position.line \in Seq(Move) /\ Len(position.line) \in Nat
         /\ pc = "idle" /\ answer' = None
<1>1. /\ position \in [deck : Deck, line : Line] /\ m \in Elements(Legal(position))
      /\ position' = [position EXCEPT !.line = Append(position.line, m)]
      /\ ~Over(position) /\ pc = "idle" /\ answer' = None
  BY DEF Structure, PositionOK, Play, After
<1>2. /\ position.line \in Seq(Move) /\ Len(position.line) \in 0..MaxMoves /\ MaxMoves \in Nat
      /\ Ends(position.deck) \in 0..MaxMoves
  BY <1>1, LegalMoves, ObservedAssumption
<1>3. Len(position.line) < Ends(position.deck)
  BY <1>1, <1>2 DEF Over
<1>4. Append(position.line, m) \in Seq(Move) /\ Len(Append(position.line, m)) = Len(position.line) + 1
  BY <1>2, AppendProperties
<1>5. Append(position.line, m) \in Line
  <2>1. Len(position.line) + 1 <= MaxMoves
    BY <1>2, <1>3
  <2> QED BY <1>2, <1>4, <2>1, SequenceIsALine
<1>6. /\ position' \in [deck : Deck, line : Line]
      /\ position'.line = Append(position.line, m) /\ position'.deck = position.deck
  BY <1>1, <1>5
<1>7. Len(position'.line) <= Ends(position'.deck)
  BY <1>2, <1>3, <1>4, <1>6
<1> QED BY <1>1, <1>2, <1>6, <1>7 DEF PositionOK

LEMMA RerootStep ==
  ASSUME Structure, NEW m \in Move, Play(m),
         \A p \in Player : Has(p, m),
         trees' = [p \in Player |-> Rerooted(p, m)]
  PROVE  /\ Records(trees')
         /\ \A p \in Player :
              LET key == ObservedKey(p, Mover(position), m)
              IN  /\ key \in Key
                  /\ trees[p].about # None
                  /\ trees'[p].about = Append(trees[p].about, key)
                  /\ IsTree(trees'[p].nodes)
                  /\ \A at \in DOMAIN trees'[p].nodes :
                       /\ at \in Seq(Key)
                       /\ <<key>> \o at \in DOMAIN trees[p].nodes
                       /\ at # Root => trees'[p].nodes[at] = trees[p].nodes[<<key>> \o at]
                       /\ trees'[p].nodes[at].player = trees[p].nodes[<<key>> \o at].player
                       /\ trees'[p].nodes[at].visits = trees[p].nodes[<<key>> \o at].visits
                  /\ \A at \in Seq(Key) :
                       <<key>> \o at \in DOMAIN trees[p].nodes => at \in DOMAIN trees'[p].nodes
<1>1. ASSUME NEW p \in Player
      PROVE  /\ trees'[p].about = Append(trees[p].about, ObservedKey(p, Mover(position), m))
             /\ trees'[p] = [about |-> trees'[p].about, nodes |-> trees'[p].nodes]
             /\ trees'[p].nodes = RerootAt(trees[p].nodes, ObservedKey(p, Mover(position), m))
  BY DEF Rerooted
<1>2. Records(trees')
  <2>1. trees' = [p \in Player |-> trees'[p]]
    OBVIOUS
  <2> QED BY <1>1, <2>1 DEF Records
<1>3. ASSUME NEW p \in Player
      PROVE  LET key == ObservedKey(p, Mover(position), m)
             IN  /\ key \in Key
                 /\ trees[p].about # None
                 /\ IsTree(trees'[p].nodes)
                 /\ \A at \in DOMAIN trees'[p].nodes :
                      /\ at \in Seq(Key)
                      /\ <<key>> \o at \in DOMAIN trees[p].nodes
                      /\ at # Root => trees'[p].nodes[at] = trees[p].nodes[<<key>> \o at]
                      /\ trees'[p].nodes[at].player = trees[p].nodes[<<key>> \o at].player
                      /\ trees'[p].nodes[at].visits = trees[p].nodes[<<key>> \o at].visits
                 /\ \A at \in Seq(Key) :
                      <<key>> \o at \in DOMAIN trees[p].nodes => at \in DOMAIN trees'[p].nodes
  <2> DEFINE key == ObservedKey(p, Mover(position), m)
             old == trees[p].nodes
             new == RerootAt(old, key)
  <2>1. key \in Elements(Children(old, Root)) /\ IsTree(old)
    BY DEF Has, Structure, TreesOK
  <2>2. trees'[p].nodes = new
    BY <1>1
  <2>3. trees[p].about # None
    <3>1. Append(Root, key) \in DOMAIN old /\ Root \in Seq(Key) /\ key \in Key
      <4>1. Root \in Seq(Key) /\ Children(old, Root) \in Seq(Key)
        BY <2>1 DEF IsTree, Node, Children
      <4> QED BY <2>1, <4>1, KeysAreKeys DEF IsTree, Children
    <3>2. Append(Root, key) # Root
      BY <3>1, FrontOfAppend
    <3>3. trees[p].about = None => DOMAIN old = {Root}
      BY DEF Structure, TreesOK
    <3> HIDE DEF key, old
    <3> QED BY <3>1, <3>2, <3>3
  <2> HIDE DEF key, old
  <2>4. /\ IsTree(new) /\ key \in Key
        /\ \A at \in DOMAIN new :
             /\ at \in Seq(Key)
             /\ <<key>> \o at \in DOMAIN old
             /\ at # Root => new[at] = old[<<key>> \o at]
             /\ new[at].player = old[<<key>> \o at].player
             /\ new[at].visits = old[<<key>> \o at].visits
        /\ \A at \in Seq(Key) : <<key>> \o at \in DOMAIN old => at \in DOMAIN new
    BY <2>1, RerootTree
  <2> HIDE DEF new
  <2> QED BY <2>2, <2>3, <2>4 DEF key, old
<1> QED BY <1>1, <1>2, <1>3

LEMMA DroppedStep ==
  ASSUME Dropped
  PROVE  /\ Records(trees') /\ ~armed'
         /\ \A p \in Player : /\ trees'[p].about = None
                              /\ IsTree(trees'[p].nodes)
                              /\ DOMAIN trees'[p].nodes = {Root}
<1>1. trees' = [p \in Player |-> Placeholder] /\ armed' = FALSE
  BY DEF Dropped
<1>2. /\ Placeholder.about = None /\ IsTree(Placeholder.nodes)
      /\ DOMAIN Placeholder.nodes = {Root}
      /\ Placeholder = [about |-> Placeholder.about, nodes |-> Placeholder.nodes]
  <2>1. 0 \in Nat
    OBVIOUS
  <2>2. /\ Placeholder.about = None /\ IsTree(Placeholder.nodes)
        /\ DOMAIN Placeholder.nodes = {Root}
    BY <2>1, NewRootIsATree DEF Placeholder
  <2>3. Placeholder = [about |-> Placeholder.about, nodes |-> Placeholder.nodes]
    BY DEF Placeholder, NewRoot
  <2> QED BY <2>2, <2>3
<1> HIDE DEF Placeholder
<1> QED BY <1>1, <1>2 DEF Records

-----------------------------------------------------------------------------
(* The structure of the trees is kept.                                      *)

(* A step of a search leaves each tree what it describes, and a tree.       *)
LEMMA TreesGrown ==
  ASSUME Structure, Records(trees'),
         \A p \in Player : trees'[p].about = trees[p].about /\ IsTree(trees'[p].nodes),
         \/ pc # "idle"
         \/ \A p \in Player : trees'[p].nodes = trees[p].nodes
  PROVE  TreesOK'
<1>1. ASSUME NEW p \in Player
      PROVE  trees'[p].about = None => DOMAIN trees'[p].nodes = {Root}
  BY DEF Structure, TreesOK, InStep
<1>2. \A p \in Player : trees'[p].about = None \/ trees'[p].about \in Seq(Key)
  BY DEF Structure, TreesOK
<1> QED BY <1>1, <1>2 DEF TreesOK, Records

LEMMA OwnersExtended ==
  ASSUME Structure, NEW p \in Player, NEW player \in Player,
         trees'[p].about = trees[p].about,
         NEW path, Extends(trees[p].nodes, trees'[p].nodes, path, player),
         trees'[p].about # None
  PROVE  \A at \in DOMAIN trees'[p].nodes : trees'[p].nodes[at].player \in Player
<1> SUFFICES ASSUME NEW at \in DOMAIN trees'[p].nodes
             PROVE  trees'[p].nodes[at].player \in Player
  OBVIOUS
<1>1. CASE at \in DOMAIN trees[p].nodes
  BY <1>1 DEF Extends, Structure, OwnersOK
<1>2. CASE at \notin DOMAIN trees[p].nodes
  BY <1>2 DEF Extends, NewNode
<1> QED BY <1>1, <1>2

(* A step between searches that touches no tree.                            *)
LEMMA QuietStructure ==
  ASSUME Structure, UNCHANGED <<trees, paths, pc>>, pc = "idle", PositionOK',
         armed' => armed
  PROVE  Structure'
<1>1. ~Descent /\ ~Descent'
  BY DEF Descent
<1>2. WorldOK'
  BY <1>1 DEF WorldOK
<1>3. TreesOK' /\ OwnersOK'
  BY DEF Structure, TreesOK, OwnersOK
<1>4. InStep'
  BY DEF Structure, InStep
<1>5. PathsOK'
  BY <1>1 DEF Structure, PathsOK
<1> QED BY <1>2, <1>3, <1>4, <1>5 DEF Structure

LEMMA RootIsThere ==
  ASSUME NEW nodes, IsTree(nodes)
  PROVE  Root \in DOMAIN nodes /\ Root \in Seq(Key)
BY DEF IsTree

(* A step to outside the descent after which the trees are as they were     *)
(* described.                                                               *)
LEMMA EndedStructure ==
  ASSUME Structure, pc # "idle", pc' \in {"idle", "loop"}, UNCHANGED <<position, armed>>,
         paths' = [p \in Player |-> Root], Records(trees'),
         \A p \in Player : trees'[p].about = trees[p].about /\ IsTree(trees'[p].nodes),
         OwnersOK'
  PROVE  Structure'
<1>1. ~Descent'
  BY DEF Descent
<1>2. WorldOK' /\ PositionOK'
  BY <1>1 DEF WorldOK, Structure, PositionOK
<1>3. TreesOK'
  BY TreesGrown
<1>4. InStep'
  BY DEF Structure, InStep
<1>5. PathsOK'
  BY <1>1, RootIsThere DEF PathsOK
<1> QED BY <1>2, <1>3, <1>4, <1>5 DEF Structure

LEMMA StructureInit == Init => Structure
<1> SUFFICES ASSUME Init PROVE Structure
  OBVIOUS
<1>1. PositionOK
  <2>1. << >> \in Seq(Move) /\ Len(<< >>) = 0
    BY EmptySeq
  <2>2. << >> \in Line
    <3>1. MaxMoves \in Nat
      BY ObservedAssumption
    <3>2. Len(<< >>) <= MaxMoves
      BY <2>1, <3>1
    <3> QED BY <2>1, <3>1, <3>2, SequenceIsALine
  <2>3. PICK d \in Deck : position = [deck |-> d, line |-> << >>]
    BY DEF Init
  <2>4. 0 <= Ends(d)
    <3>1. Ends(d) \in 0..MaxMoves /\ MaxMoves \in Nat
      BY ObservedAssumption
    <3> QED BY <3>1
  <2> QED BY <2>1, <2>2, <2>3, <2>4 DEF PositionOK
<1>2. ~Descent /\ pc = "idle" /\ ~armed
  BY DEF Init, Descent
<1>3. /\ Records(trees)
      /\ \A p \in Player : /\ trees[p].about = None /\ IsTree(trees[p].nodes)
                           /\ DOMAIN trees[p].nodes = {Root}
  <2>1. 0 \in Nat
    OBVIOUS
  <2>2. /\ Placeholder.about = None /\ IsTree(Placeholder.nodes)
        /\ DOMAIN Placeholder.nodes = {Root}
    BY <2>1, NewRootIsATree DEF Placeholder
  <2>3. Placeholder = [about |-> Placeholder.about, nodes |-> Placeholder.nodes]
    BY DEF Placeholder, NewRoot
  <2> HIDE DEF Placeholder
  <2> QED BY <2>2, <2>3 DEF Init, Records
<1>4. paths = [p \in Player |-> Root]
  BY DEF Init
<1>5. PathsOK
  BY <1>2, <1>3, <1>4, RootIsThere DEF PathsOK
<1> QED BY <1>1, <1>2, <1>3, <1>5
        DEF Structure, WorldOK, TreesOK, Records, OwnersOK, InStep

LEMMA StructureStep == Structure /\ [Next]_vars => Structure'
<1> SUFFICES ASSUME Structure, [Next]_vars PROVE Structure'
  OBVIOUS
<1>1. CASE UNCHANGED vars
  <2>1. Descent' <=> Descent
    BY <1>1 DEF vars, Descent
  <2>2. Descent => Made' = Made
    BY <1>1 DEF vars, Made
  <2> QED BY <1>1, <2>1, <2>2
          DEF vars, Structure, PositionOK, WorldOK, TreesOK, OwnersOK, InStep, PathsOK
<1>2. CASE Refuse \/ ForcedMove
  BY <1>2, QuietStructure DEF Refuse, ForcedMove, Structure, PositionOK, scratch
<1>3. CASE Begin
  <2>1. /\ pc' = "loop" /\ UNCHANGED <<position, world, paths>> /\ ~armed'
        /\ ~Descent /\ ~Descent'
    BY <1>3 DEF Begin, scratch, Descent
  <2>2. /\ Records(trees')
        /\ \A p \in Player :
             /\ trees'[p].about = IF armed THEN trees[p].about ELSE Seen(p, position.line, 0)
             /\ IsTree(trees'[p].nodes)
             /\ \A at \in DOMAIN trees'[p].nodes : trees'[p].nodes[at].player \in Player
    BY <1>3, BeginStep
  <2>3. position.line \in Seq(Move)
    BY LegalMoves DEF Structure, PositionOK
  <2>4. \A p \in Player : /\ Seen(p, position.line, 0) \in Seq(Key)
                          /\ Len(Seen(p, position.line, 0)) = Len(position.line)
    BY <2>3, SeenIsASequence
  <2>5. \A p \in Player : trees'[p].about \in Seq(Key) /\ trees'[p].about # None
    BY <2>2, <2>4, ObservedAssumption DEF Structure, TreesOK, InStep
  <2>6. \A p, q \in Player : Len(trees'[p].about) = Len(trees'[q].about)
    BY <2>2, <2>4 DEF Structure, InStep
  <2>7. TreesOK' /\ OwnersOK' /\ InStep'
    BY <2>2, <2>5, <2>6 DEF TreesOK, Records, OwnersOK, InStep
  <2>8. PathsOK'
    <3>1. \A p \in Player : paths[p] = Root
      BY <2>1 DEF Structure, PathsOK
    <3> QED BY <2>1, <2>2, <3>1, RootIsThere DEF PathsOK, Structure
  <2> QED BY <2>1, <2>7, <2>8 DEF Structure, PositionOK, WorldOK
<1>4. CASE Determinize
  <2>1. /\ pc = "loop" /\ pc' = "descend" /\ UNCHANGED <<position, trees, armed>>
        /\ world' \in Worlds(position, Perspective) /\ paths' = [p \in Player |-> Root]
        /\ Descent'
    BY <1>4 DEF Determinize, Descent
  <2>2. /\ position' = position /\ PositionOK
        /\ world' \in [deck : Deck, line : Line]
        /\ Len(world'.line) = Len(position.line) /\ Len(world'.line) <= Ends(world'.deck)
    BY <2>1 DEF Worlds, Possible, Structure
  <2>3. /\ Len(world'.line) \in Nat /\ Ends(world'.deck) \in Nat
        /\ world'.line \in Seq(Move)
    BY <2>2, LegalMoves, ObservedAssumption
  <2>4. WorldOK' /\ PositionOK'
    BY <2>2, <2>3 DEF WorldOK, PositionOK
  <2>5. \A p \in Player : paths'[p] = Seen(p, Made', Len(position'.line))
    <3>1. Made' = << >>
      <4>1. /\ Len(position'.line) + 1 \in Int /\ Len(world'.line) \in Int
            /\ Len(world'.line) < Len(position'.line) + 1
        BY <2>2, <2>3
      <4> QED BY <4>1, SubSeqEmpty DEF Made
    <3>2. ASSUME NEW p \in Player, NEW n PROVE Seen(p, << >>, n) = << >>
      BY DEF Seen
    <3> QED BY <2>1, <3>1, <3>2 DEF Root
  <2>6. PathsOK'
    BY <2>1, <2>5, RootIsThere DEF PathsOK, Structure, TreesOK
  <2>7. TreesOK' /\ OwnersOK' /\ InStep'
    BY <2>1 DEF Structure, TreesOK, OwnersOK, InStep
  <2> QED BY <2>1, <2>4, <2>6, <2>7 DEF Structure
<1>5. CASE Descend
  <2>1. PICK m \in Move :
          /\ Mover(world) \in Player
          /\ Len(world.line) < Ends(world.deck)
          /\ world' = After(world, m)
          /\ pc' \in {"descend", "rollout"}
          /\ Records(trees')
          /\ \A p \in Player :
               /\ trees'[p].about = trees[p].about
               /\ Extends(trees[p].nodes, trees'[p].nodes, paths[p], Mover(world))
               /\ paths'[p] = Append(paths[p], ObservedKey(p, Mover(world), m))
               /\ paths'[p] \in DOMAIN trees'[p].nodes
          /\ paths' = [p \in Player |-> paths'[p]]
    BY <1>5, DescendStep DEF Records
  <2>2. /\ UNCHANGED <<position, armed>> /\ pc = "descend" /\ Descent /\ Descent'
    BY <1>5, <2>1 DEF Descend, Descending, Descent
  <2>3. /\ PositionOK /\ WorldOK /\ world \in [deck : Deck, line : Line]
        /\ position' = position
    BY <2>2 DEF Structure, WorldOK
  <2> DEFINE line == Append(world.line, m)
  <2>4. /\ line \in Line /\ Len(line) = Len(world.line) + 1
        /\ \A p \in Player :
             Seen(p, SubSeq(line, Len(position.line) + 1, Len(line)), Len(position.line))
               = Append(Seen(p, Made, Len(position.line)), ObservedKey(p, Mover(world), m))
    <3>1. PICK p \in Player : TRUE
      BY <2>1
    <3> QED BY <2>1, <2>2, <2>3, <3>1, SeenMade
  <2>5. /\ world' \in [deck : Deck, line : Line] /\ world'.line = line
        /\ world'.deck = world.deck
    <3>1. world' = [world EXCEPT !.line = line]
      BY <2>1 DEF After
    <3> HIDE DEF line
    <3> QED BY <2>3, <2>4, <3>1
  <2>6. WorldOK' /\ PositionOK'
    <3>1. /\ Len(world.line) \in Nat /\ Len(position.line) \in Nat
          /\ Ends(world.deck) \in Nat /\ Len(world.line) \in Len(position.line)..Ends(world.deck)
      BY <2>2, <2>3, LegalMoves, ObservedAssumption DEF PositionOK, WorldOK
    <3>2. Len(line) \in Len(position.line)..Ends(world.deck)
      <4> HIDE DEF line
      <4> QED BY <2>1, <2>4, <3>1
    <3> HIDE DEF line
    <3> QED BY <2>3, <2>5, <3>2 DEF WorldOK, PositionOK
  <2>7. PathsOK'
    <3>1. ASSUME NEW p \in Player
          PROVE  paths'[p] = Seen(p, Made', Len(position'.line)) /\ paths'[p] \in Seq(Key)
      <4>1. Made' = SubSeq(line, Len(position.line) + 1, Len(line))
        BY <2>3, <2>5 DEF Made
      <4>2. paths[p] = Seen(p, Made, Len(position.line))
        BY <2>2 DEF Structure, PathsOK
      <4>3. paths'[p] \in Seq(Key)
        BY <2>1 DEF Extends, IsTree
      <4> HIDE DEF line
      <4> QED BY <2>1, <2>3, <2>4, <4>1, <4>2, <4>3
    <3> QED BY <2>1, <2>2, <3>1 DEF PathsOK
  <2>8. TreesOK'
    BY <2>1, <2>2, TreesGrown DEF Extends
  <2>9. OwnersOK'
    BY <2>1, OwnersExtended DEF OwnersOK
  <2>10. InStep'
    BY <2>1, <2>2 DEF Structure, InStep
  <2> QED BY <2>1, <2>6, <2>7, <2>8, <2>9, <2>10 DEF Structure
<1>6. CASE EndIteration
  <2>1. pc # "idle"
    BY <1>6 DEF EndIteration
  <2>2. /\ Records(trees')
        /\ \A p \in Player :
             /\ trees'[p].about = trees[p].about
             /\ IsTree(trees'[p].nodes)
             /\ DOMAIN trees'[p].nodes = DOMAIN trees[p].nodes
             /\ \A at \in DOMAIN trees[p].nodes :
                  trees'[p].nodes[at].player = trees[p].nodes[at].player
        /\ pc' = "loop" /\ paths' = [p \in Player |-> Root]
        /\ UNCHANGED <<position, armed>>
    BY <1>6, EndIterationStep
  <2>3. OwnersOK'
    BY <2>2 DEF Structure, OwnersOK
  <2> QED BY <2>1, <2>2, <2>3, EndedStructure
<1>7. CASE Finish
  <2>1. /\ pc = "loop" /\ pc' = "idle" /\ UNCHANGED <<position, trees, armed, world, paths>>
        /\ ~Descent
    BY <1>7 DEF Finish, scratch, Descent
  <2>2. ~Descent'
    BY <2>1 DEF Descent
  <2> QED BY <2>1, <2>2
          DEF Structure, PositionOK, WorldOK, TreesOK, OwnersOK, InStep, PathsOK
<1>8. CASE Panic
  <2>1. /\ Records(trees')
        /\ \A p \in Player : /\ trees'[p].about = trees[p].about
                             /\ \E player \in Player :
                                  Extends(trees[p].nodes, trees'[p].nodes, paths[p], player)
        /\ pc' = "idle" /\ paths' = [p \in Player |-> Root]
        /\ UNCHANGED <<position, armed>>
    BY <1>8, PanicStep
  <2>2. pc # "idle"
    BY <1>8 DEF Panic
  <2>3. OwnersOK'
    BY <2>1, OwnersExtended DEF OwnersOK
  <2>4. \A p \in Player : IsTree(trees'[p].nodes)
    BY <2>1 DEF Extends
  <2> QED BY <2>1, <2>2, <2>3, <2>4, EndedStructure
<1>9. ASSUME Dropped, pc = "idle", pc' = "idle", paths' = paths, PositionOK'
      PROVE  Structure'
  <2>1. /\ Records(trees') /\ ~armed'
        /\ \A p \in Player : /\ trees'[p].about = None
                             /\ IsTree(trees'[p].nodes)
                             /\ DOMAIN trees'[p].nodes = {Root}
    BY <1>9, DroppedStep
  <2>2. ~Descent /\ ~Descent'
    BY <1>9 DEF Descent
  <2>3. PathsOK'
    BY <1>9, <2>1, <2>2 DEF Structure, PathsOK
  <2> QED BY <1>9, <2>1, <2>2, <2>3
          DEF Structure, WorldOK, TreesOK, Records, OwnersOK, InStep
<1>10. CASE ClearTree
  BY <1>9, <1>10 DEF ClearTree, scratch, Structure, PositionOK
<1>11. ASSUME NEW m \in Move, PlayAndReuse(m)
       PROVE  Structure'
  <2>1. Play(m) /\ UNCHANGED <<pc, world, paths>>
    BY <1>11 DEF PlayAndReuse, scratch
  <2>2. PositionOK' /\ pc = "idle" /\ pc' = "idle"
    BY <2>1, PlayStep
  <2>3. CASE \A p \in Player : Has(p, m)
    <3>1. trees' = [p \in Player |-> Rerooted(p, m)]
      BY <1>11, <2>3 DEF PlayAndReuse
    <3>2. /\ Records(trees')
          /\ \A p \in Player :
               LET key == ObservedKey(p, Mover(position), m)
               IN  /\ key \in Key
                   /\ trees[p].about # None
                   /\ trees'[p].about = Append(trees[p].about, key)
                   /\ IsTree(trees'[p].nodes)
                   /\ \A at \in DOMAIN trees'[p].nodes :
                        /\ <<key>> \o at \in DOMAIN trees[p].nodes
                        /\ trees'[p].nodes[at].player = trees[p].nodes[<<key>> \o at].player
      BY <2>1, <2>3, <3>1, RerootStep
    <3>3. ASSUME NEW p \in Player
          PROVE  /\ trees'[p].about \in Seq(Key) /\ trees'[p].about # None
                 /\ Len(trees'[p].about) = Len(trees[p].about) + 1
                 /\ \A at \in DOMAIN trees'[p].nodes : trees'[p].nodes[at].player \in Player
      <4>1. trees[p].about \in Seq(Key)
        BY <3>2 DEF Structure, TreesOK
      <4>2. trees'[p].about \in Seq(Key) /\ Len(trees'[p].about) = Len(trees[p].about) + 1
        <5> DEFINE key == ObservedKey(p, Mover(position), m)
        <5>1. key \in Key /\ trees'[p].about = Append(trees[p].about, key)
          BY <3>2
        <5> HIDE DEF key
        <5> QED BY <4>1, <5>1, AppendProperties
      <4>3. \A at \in DOMAIN trees[p].nodes : trees[p].nodes[at].player \in Player
        BY <3>2 DEF Structure, OwnersOK
      <4>4. trees'[p].about # None
        BY <4>2, ObservedAssumption
      <4>5. ASSUME NEW at \in DOMAIN trees'[p].nodes
            PROVE  trees'[p].nodes[at].player \in Player
        <5> DEFINE key == ObservedKey(p, Mover(position), m)
        <5>1. /\ <<key>> \o at \in DOMAIN trees[p].nodes
              /\ trees'[p].nodes[at].player = trees[p].nodes[<<key>> \o at].player
          BY <3>2
        <5> HIDE DEF key
        <5> QED BY <5>1, <4>3
      <4> QED BY <4>2, <4>4, <4>5
    <3>4. TreesOK' /\ OwnersOK'
      BY <3>2, <3>3 DEF TreesOK, Records, OwnersOK
    <3>5. InStep'
      BY <3>2, <3>3 DEF Structure, InStep
    <3>6. ~Descent /\ ~Descent'
      BY <2>2 DEF Descent
    <3>7. PathsOK'
      BY <2>1, <3>2, <3>6, RootIsThere DEF Structure, PathsOK
    <3> QED BY <2>2, <3>4, <3>5, <3>6, <3>7 DEF Structure, WorldOK
  <2>4. CASE ~ \A p \in Player : Has(p, m)
    BY <1>9, <1>11, <2>1, <2>2, <2>4 DEF PlayAndReuse
  <2> QED BY <2>3, <2>4
<1>12. ASSUME NEW m \in Move, PlayUnreported(m)
       PROVE  Structure'
  <2>1. Play(m) /\ UNCHANGED <<trees, paths, pc, armed>>
    BY <1>12 DEF PlayUnreported, scratch
  <2> QED BY <2>1, PlayStep, QuietStructure
<1> QED BY <1>1, <1>2, <1>3, <1>4, <1>5, <1>6, <1>7, <1>8, <1>10, <1>11, <1>12 DEF Next

-----------------------------------------------------------------------------
(* What the trees describe, unless a forced move has spared them.           *)

Grew == Determinize \/ Descend \/ EndIteration \/ Finish \/ Panic

(* A step of a search leaves the position, and what is described, alone.    *)
LEMMA GrewKeeps ==
  ASSUME Structure, Grew
  PROVE  /\ pc # "idle" /\ UNCHANGED <<position, armed, ghosts>>
         /\ \A p \in Player : trees'[p].about = trees[p].about
<1>1. CASE Determinize
  BY <1>1 DEF Determinize
<1>2. CASE Descend
  BY <1>2, DescendStep DEF Descend, Descending
<1>3. CASE EndIteration
  BY <1>3, EndIterationStep DEF EndIteration
<1>4. CASE Finish
  BY <1>4 DEF Finish
<1>5. CASE Panic
  BY <1>5, PanicStep DEF Panic
<1> QED BY <1>1, <1>2, <1>3, <1>4, <1>5 DEF Grew

LEMMA DescribingStep == Structure /\ Describing /\ [Next]_vars => Describing'
<1> SUFFICES ASSUME Structure, Describing, [Next]_vars, ~spared'
             PROVE  Describing'
  BY DEF Describing
<1>1. CASE UNCHANGED vars
  BY <1>1 DEF vars, ghosts, Describing
<1>2. CASE Refuse
  BY <1>2 DEF Refuse, ghosts, Describing
<1>3. CASE ForcedMove
  <2>1. ~spared /\ (armed \/ reported) /\ ~armed'
    BY <1>3 DEF ForcedMove
  <2>2. /\ UNCHANGED <<position, trees, pc, grown>> /\ pc = "idle"
    BY <1>3 DEF ForcedMove
  <2> QED BY <2>1, <2>2 DEF Describing
<1>4. CASE Begin
  <2>1. /\ \A p \in Player : trees'[p].about = IF armed THEN trees[p].about
                                               ELSE Seen(p, position.line, 0)
        /\ \A p \in Player : grown'[p] = trees'[p].about
        /\ ~armed' /\ position' = position /\ spared' = (spared /\ armed)
    BY <1>4, BeginStep DEF Begin
  <2>2. \A p \in Player : trees'[p].about = Seen(p, position'.line, 0)
    BY <2>1 DEF Describing
  <2> QED BY <2>1, <2>2 DEF Describing
<1>5. CASE Grew
  <2>1. /\ pc # "idle" /\ UNCHANGED <<position, armed, reported, grown, spared>>
        /\ \A p \in Player : trees'[p].about = trees[p].about
    BY <1>5, GrewKeeps DEF ghosts
  <2>2. \A p \in Player : /\ grown'[p] = trees'[p].about
                          /\ trees'[p].about = Seen(p, position'.line, 0)
    BY <2>1 DEF Describing
  <2> QED BY <2>2 DEF Describing
<1>6. CASE ClearTree
  BY <1>6, DroppedStep DEF ClearTree, Describing
<1>7. ASSUME NEW m \in Move, PlayAndReuse(m)
      PROVE  Describing'
  <2>1. /\ reported /\ Play(m) /\ UNCHANGED <<pc, reported, spared>> /\ pc = "idle"
        /\ position'.line = Append(position.line, m)
        /\ position.line \in Seq(Move) /\ Len(position.line) \in Nat
    BY <1>7, PlayStep DEF PlayAndReuse, ghosts
  <2>2. CASE \A p \in Player : Has(p, m)
    <3>1. trees' = [p \in Player |-> Rerooted(p, m)]
      BY <1>7, <2>2 DEF PlayAndReuse
    <3>2. ASSUME NEW p \in Player
          PROVE  trees'[p].about = Seen(p, position'.line, 0)
      <4> DEFINE key == ObservedKey(p, Mover(position), m)
      <4>1. /\ key \in Key
            /\ trees'[p].about = Append(trees[p].about, key)
            /\ IsTree(trees'[p].nodes)
            /\ \A at \in DOMAIN trees'[p].nodes : <<key>> \o at \in DOMAIN trees[p].nodes
        BY <2>1, <2>2, <3>1, RerootStep
      <4>2. Seen(p, Append(position.line, m), 0)
              = Append(Seen(p, position.line, 0), ObservedKey(p, Turn(0 + Len(position.line)), m))
        BY <2>1, SeenAppend
      <4>3. ObservedKey(p, Turn(0 + Len(position.line)), m) = key
        BY <2>1 DEF Mover
      <4> HIDE DEF key
      <4>4. <<key>> \o Root \in DOMAIN trees[p].nodes /\ <<key>> \o Root # Root
        BY <4>1, RootIsThere, Below
      <4>5. trees[p].about = Seen(p, position.line, 0)
        BY <2>1, <4>4 DEF Describing
      <4> QED BY <2>1, <4>1, <4>2, <4>3, <4>5
    <3> QED BY <2>1, <3>2 DEF Describing
  <2>3. CASE ~ \A p \in Player : Has(p, m)
    BY <1>7, <2>1, <2>3, DroppedStep DEF PlayAndReuse, Describing
  <2> QED BY <2>2, <2>3
<1>8. ASSUME NEW m \in Move, PlayUnreported(m)
      PROVE  Describing'
  BY <1>8 DEF PlayUnreported, Play, Describing
<1> QED BY <1>1, <1>2, <1>3, <1>4, <1>5, <1>6, <1>7, <1>8 DEF Next, Grew

-----------------------------------------------------------------------------
(* The opportunities of a player's own moves.                               *)

(* What a path has besides new nodes and those it had, visited no more and  *)
(* offered no less, as long as it ends at none of them.                     *)
LEMMA OpportuneExtended ==
  ASSUME NEW nodes, IsTree(nodes), NEW more, NEW mover,
         NEW path, Extends(nodes, more, path, mover), NEW from, NEW player,
         Opportune(nodes, path, from, player)
  PROVE  /\ Opportune(more, Root, from, player)
         /\ \A longer :
              (\A at \in DOMAIN nodes \ {Root} :
                 Turn(from + Len(at) - 1) = player /\ IsPrefix(at, longer) =>
                   \/ IsPrefix(at, path)
                   \/ more[at].available = nodes[at].available + 1)
              => Opportune(more, longer, from, player)
<1>1. ASSUME NEW at \in DOMAIN nodes
      PROVE  /\ nodes[at].visits \in Nat /\ nodes[at].available \in Nat
             /\ more[at].available \in Nat
             /\ more[at].visits = nodes[at].visits /\ more[at].available >= nodes[at].available
  BY DEF Extends, IsTree, Node
<1>2. ASSUME NEW at \in DOMAIN more \ DOMAIN nodes
      PROVE  more[at].visits = 0 /\ more[at].available = 1
  BY DEF Extends, NewNode
<1>3. ASSUME NEW at \in DOMAIN more \ {Root}
      PROVE  ~IsPrefix(at, Root)
  BY PrefixOfRoot DEF Extends, IsTree
<1>4. ASSUME NEW longer,
             \A at \in DOMAIN nodes \ {Root} :
               Turn(from + Len(at) - 1) = player /\ IsPrefix(at, longer) =>
                 \/ IsPrefix(at, path)
                 \/ more[at].available = nodes[at].available + 1
      PROVE  Opportune(more, longer, from, player)
  <2> SUFFICES ASSUME NEW at \in DOMAIN more \ {Root}, Turn(from + Len(at) - 1) = player
               PROVE  /\ more[at].visits <= more[at].available
                      /\ IsPrefix(at, longer) => more[at].visits < more[at].available
    BY DEF Opportune
  <2>1. CASE at \in DOMAIN nodes
    <3>1. /\ nodes[at].visits <= nodes[at].available
          /\ IsPrefix(at, path) => nodes[at].visits < nodes[at].available
      BY <2>1 DEF Opportune
    <3>2. IsPrefix(at, longer) => \/ IsPrefix(at, path)
                                  \/ more[at].available = nodes[at].available + 1
      BY <1>4, <2>1
    <3> QED BY <1>1, <2>1, <3>1, <3>2
  <2>2. CASE at \notin DOMAIN nodes
    BY <1>2, <2>2
  <2> QED BY <2>1, <2>2
<1>5. Opportune(more, Root, from, player)
  <2>1. \A at \in DOMAIN nodes \ {Root} : ~IsPrefix(at, Root)
    BY <1>3 DEF Extends
  <2> QED BY <1>4, <2>1
<1> QED BY <1>4, <1>5

(* A placeholder or a new root has no node that was chosen.                 *)
LEMMA OpportuneRoot ==
  ASSUME NEW nodes, DOMAIN nodes = {Root}, NEW path, NEW from, NEW player
  PROVE  Opportune(nodes, path, from, player)
BY DEF Opportune

LEMMA WarrantedDescend ==
  ASSUME Structure, Describing, Warranted, Descend
  PROVE  Warranted'
<1>1. spared' = spared
  BY DEF Descend, ghosts
<1> SUFFICES ASSUME ~spared, NEW p \in Player
             PROVE  Opportune(trees'[p].nodes, paths'[p], Len(trees'[p].about), p)
  BY <1>1 DEF Warranted
<1> DEFINE mover == Mover(world)
           old   == trees[p].nodes
           new   == trees'[p].nodes
           path  == paths[p]
           from  == Len(trees[p].about)
<1>2. PICK m \in Move :
        /\ mover \in Player
        /\ trees'[p].about = trees[p].about
        /\ Extends(old, new, path, mover)
        /\ paths'[p] = Append(path, ObservedKey(p, mover, m))
        /\ LET at == paths'[mover]
           IN  at \in DOMAIN trees[mover].nodes =>
                 trees'[mover].nodes[at].available = trees[mover].nodes[at].available + 1
  BY DescendStep
<1> DEFINE key == ObservedKey(p, mover, m)
<1>3. key \in Key /\ path \in Seq(Key) /\ IsTree(old) /\ DOMAIN old \subseteq Seq(Key)
  BY KeyOfAMove DEF Structure, TreesOK, PathsOK, IsTree
<1>4. Descent /\ pc # "idle"
  BY DEF Descend, Descending, Descent
<1>5. trees[p].about # None /\ trees[p].about = Seen(p, position.line, 0)
  BY <1>4 DEF Structure, InStep, Describing
<1>6. Opportune(old, path, from, p)
  BY <1>5 DEF Warranted
<1>7. from = Len(position.line) /\ from + Len(path) = Len(world.line) /\ from \in Nat
  <2>1. /\ position \in [deck : Deck, line : Line] /\ world \in [deck : Deck, line : Line]
        /\ Len(world.line) \in Len(position.line)..Ends(world.deck)
    BY <1>4 DEF Structure, PositionOK, WorldOK
  <2>2. /\ position.line \in Seq(Move) /\ world.line \in Seq(Move)
        /\ Len(position.line) \in Nat /\ Len(world.line) \in Nat
    BY <2>1, LegalMoves, LenProperties
  <2>3. from = Len(position.line)
    BY <1>5, <2>2, SeenIsASequence
  <2>4. Made \in Seq(Move) /\ Len(Made) = Len(world.line) - Len(position.line)
    <3> DEFINE a == Len(position.line)
               n == Len(world.line)
    <3>1. a \in Nat /\ n \in Nat /\ a <= n /\ \A i \in 1..n : world.line[i] \in Move
      BY <2>1, <2>2, ElementOfSeq
    <3>2. Made = SubSeq(world.line, a + 1, n)
      BY DEF Made
    <3> HIDE DEF a, n
    <3>3. \A i \in (a + 1)..n : world.line[i] \in Move
      BY <3>1
    <3>4. /\ SubSeq(world.line, a + 1, n) \in Seq(Move)
          /\ Len(SubSeq(world.line, a + 1, n)) = IF a + 1 <= n THEN n - (a + 1) + 1 ELSE 0
      BY <3>1, <3>3, SubSeqProperties
    <3>5. Len(Made) = n - a
      BY <3>1, <3>2, <3>4
    <3> QED BY <3>2, <3>4, <3>5 DEF a, n
  <2>5. path = Seen(p, Made, Len(position.line))
    BY <1>4 DEF Structure, PathsOK
  <2>6. Len(path) = Len(Made)
    <3>1. Len(Seen(p, Made, Len(position.line))) = Len(Made)
      BY <2>2, <2>4, SeenIsASequence
    <3> QED BY <2>5, <3>1
  <2> HIDE DEF from, path
  <2> QED BY <2>2, <2>3, <2>4, <2>6
<1>8. ASSUME NEW at \in DOMAIN old \ {Root}, Turn(from + Len(at) - 1) = p,
             IsPrefix(at, Append(path, key))
      PROVE  IsPrefix(at, path) \/ new[at].available = old[at].available + 1
  <2>1. CASE at = Append(path, key)
    <3>1. Len(at) = Len(path) + 1 /\ Len(path) \in Nat
      <4> HIDE DEF path, key
      <4> QED BY <1>3, <2>1, AppendProperties, LenProperties
    <3>2. from + Len(at) - 1 = Len(world.line)
      <4> HIDE DEF path, from
      <4> QED BY <1>7, <3>1
    <3>3. p = mover
      BY <1>8, <3>2 DEF Mover
    <3> QED BY <1>2, <2>1, <3>3
  <2>2. CASE at # Append(path, key)
    <3> HIDE DEF path, key, old
    <3> QED BY <1>3, <1>8, <2>2, PrefixOfAppend
  <2> QED BY <2>1, <2>2
<1> HIDE DEF old, new, path, from, mover, key
<1>9. Opportune(new, Append(path, key), from, p)
  BY <1>2, <1>3, <1>6, <1>8, OpportuneExtended
<1> QED BY <1>2, <1>9 DEF new, path, from, mover, key

LEMMA WarrantedStep == Structure /\ Describing /\ Warranted /\ [Next]_vars => Warranted'
<1> SUFFICES ASSUME Structure, Describing, Warranted, [Next]_vars, ~spared'
             PROVE  Warranted'
  BY DEF Warranted
<1>1. ASSUME UNCHANGED <<trees, paths, spared>>
      PROVE  Warranted'
  BY <1>1 DEF Warranted
<1>2. CASE UNCHANGED vars \/ Refuse \/ Finish \/ \E m \in Move : PlayUnreported(m)
  BY <1>1, <1>2 DEF vars, ghosts, scratch, Refuse, Finish, PlayUnreported
<1>3. CASE ForcedMove
  <2>1. ~spared /\ UNCHANGED <<trees, paths>>
    BY <1>3 DEF ForcedMove, scratch
  <2> QED BY <2>1 DEF Warranted
<1>4. CASE Begin
  <2>1. /\ \A p \in Player :
             /\ armed => /\ trees'[p].about = trees[p].about
                         /\ DOMAIN trees'[p].nodes = DOMAIN trees[p].nodes
                         /\ \A at \in DOMAIN trees[p].nodes \ {Root} :
                              trees'[p].nodes[at] = trees[p].nodes[at]
             /\ ~armed => DOMAIN trees'[p].nodes = {Root}
        /\ paths' = paths /\ (spared' <=> spared /\ armed)
    BY <1>4, BeginStep DEF Begin, scratch
  <2>2. CASE armed
    BY <2>1, <2>2 DEF Warranted, Opportune
  <2>3. CASE ~armed
    BY <2>1, <2>3, OpportuneRoot DEF Warranted
  <2> QED BY <2>2, <2>3
<1>5. CASE Determinize
  <2>1. paths' = paths /\ UNCHANGED <<trees, spared>>
    <3>1. paths \in [Player -> Seq(Key)] /\ \A p \in Player : paths[p] = Root
      BY <1>5 DEF Determinize, Structure, PathsOK, Descent
    <3>2. paths' = [p \in Player |-> Root] /\ UNCHANGED <<trees, spared>>
      BY <1>5 DEF Determinize, ghosts
    <3> QED BY <3>1, <3>2
  <2> QED BY <1>1, <2>1
<1>6. CASE Descend
  BY <1>6, WarrantedDescend
<1>7. CASE EndIteration
  <2>1. UNCHANGED spared /\ \A p \in Player : paths'[p] = Root
    BY <1>7, EndIterationStep DEF ghosts
  <2>2. ASSUME NEW p \in Player, trees'[p].about # None,
               NEW at \in DOMAIN trees'[p].nodes \ {Root},
               Turn(Len(trees'[p].about) + Len(at) - 1) = p
        PROVE  /\ trees'[p].nodes[at].visits <= trees'[p].nodes[at].available
               /\ ~IsPrefix(at, paths'[p])
    <3> DEFINE old == trees[p].nodes[at]
               new == trees'[p].nodes[at]
    <3>1. /\ trees'[p].about = trees[p].about /\ at \in DOMAIN trees[p].nodes \ {Root}
          /\ IsTree(trees'[p].nodes)
          /\ new.available = old.available
          /\ new.visits = IF IsPrefix(at, paths[p]) THEN old.visits + 1 ELSE old.visits
      BY <1>7, <2>2, EndIterationStep
    <3>2. /\ old.visits <= old.available
          /\ IsPrefix(at, paths[p]) => old.visits < old.available
      BY <2>1, <2>2, <3>1 DEF Warranted, Opportune
    <3>3. old.visits \in Nat /\ old.available \in Nat
      BY <3>1 DEF Structure, TreesOK, IsTree, Node
    <3>4. ~IsPrefix(at, paths'[p])
      BY <2>1, <2>2, <3>1, PrefixOfRoot DEF IsTree
    <3> HIDE DEF old, new
    <3>5. new.visits <= new.available
      BY <3>1, <3>2, <3>3
    <3> QED BY <3>4, <3>5 DEF new
  <2> QED BY <2>2 DEF Warranted, Opportune
<1>8. CASE Panic
  <2>1. UNCHANGED spared /\ paths' = [p \in Player |-> Root]
    BY <1>8, PanicStep DEF ghosts
  <2>2. ASSUME NEW p \in Player, trees'[p].about # None
        PROVE  Opportune(trees'[p].nodes, paths'[p], Len(trees'[p].about), p)
    <3> DEFINE old == trees[p].nodes
               new == trees'[p].nodes
               from == Len(trees[p].about)
    <3>1. PICK player \in Player : Extends(old, new, paths[p], player)
      BY <1>8, PanicStep
    <3>2. trees'[p].about = trees[p].about /\ IsTree(old)
      BY <1>8, PanicStep DEF Structure, TreesOK
    <3>3. Opportune(old, paths[p], from, p)
      BY <2>1, <2>2, <3>2 DEF Warranted
    <3> HIDE DEF old, new, from
    <3>4. Opportune(new, Root, from, p)
      BY <3>1, <3>2, <3>3, OpportuneExtended
    <3> QED BY <2>1, <3>2, <3>4 DEF new, from
  <2> QED BY <2>2 DEF Warranted
<1>9. CASE ClearTree
  BY <1>9, DroppedStep DEF ClearTree, Warranted
<1>10. ASSUME NEW m \in Move, PlayAndReuse(m)
       PROVE  Warranted'
  <2>1. Play(m) /\ UNCHANGED <<paths, spared>> /\ pc = "idle"
    BY <1>10, PlayStep DEF PlayAndReuse, scratch, ghosts
  <2>2. CASE \A p \in Player : Has(p, m)
    <3>1. trees' = [p \in Player |-> Rerooted(p, m)]
      BY <1>10, <2>2 DEF PlayAndReuse
    <3>2. ASSUME NEW p \in Player,
                 NEW at \in DOMAIN trees'[p].nodes \ {Root},
                 Turn(Len(trees'[p].about) + Len(at) - 1) = p
          PROVE  /\ trees'[p].nodes[at].visits <= trees'[p].nodes[at].available
                 /\ ~IsPrefix(at, paths'[p])
      <4> DEFINE key  == ObservedKey(p, Mover(position), m)
                 old  == trees[p].nodes
                 new  == trees'[p].nodes
                 from == Len(trees[p].about)
                 down == <<key>> \o at
      <4>1. /\ key \in Key /\ trees[p].about # None
            /\ trees'[p].about = Append(trees[p].about, key)
            /\ at \in Seq(Key) /\ down \in DOMAIN old /\ new[at] = old[down]
        BY <2>1, <2>2, <3>1, <3>2, RerootStep
      <4>2. trees[p].about \in Seq(Key)
        BY <4>1 DEF Structure, TreesOK
      <4>3. ~IsPrefix(at, paths'[p])
        <5>1. paths'[p] = Root
          BY <2>1 DEF Structure, PathsOK, Descent
        <5> QED BY <3>2, <4>1, <5>1, PrefixOfRoot
      <4> HIDE DEF key
      <4>4. down # Root /\ Len(down) = Len(at) + 1 /\ Len(at) \in Nat
        BY <4>1, Below, LenProperties
      <4>5. Len(trees'[p].about) = from + 1 /\ from \in Nat
        BY <4>1, <4>2, AppendProperties, LenProperties
      <4> HIDE DEF down, from
      <4>6. Len(trees'[p].about) + Len(at) - 1 = from + Len(down) - 1
        BY <4>4, <4>5
      <4>7. Opportune(old, paths[p], from, p)
        BY <2>1, <4>1 DEF Warranted, from
      <4>8. old[down].visits <= old[down].available
        BY <3>2, <4>1, <4>4, <4>6, <4>7 DEF Opportune
      <4> QED BY <4>1, <4>3, <4>8
    <3> QED BY <3>2 DEF Warranted, Opportune
  <2>3. CASE ~ \A p \in Player : Has(p, m)
    BY <1>10, <2>3, DroppedStep DEF PlayAndReuse, Warranted
  <2> QED BY <2>2, <2>3
<1> QED BY <1>2, <1>3, <1>4, <1>5, <1>6, <1>7, <1>8, <1>9, <1>10 DEF Next

-----------------------------------------------------------------------------
(* What the trees have been shown.                                          *)

(* Trees that are this position's were rooted after its moves.              *)
LEMMA RootedHere ==
  ASSUME Structure, NEW p \in Player, trees[p].about = Seen(p, position.line, 0)
  PROVE  /\ Len(trees[p].about) = Len(position.line) /\ Len(position.line) \in Nat
         /\ position.line \in Seq(Move)
<1>1. position.line \in Seq(Move)
  BY LegalMoves DEF Structure, PositionOK
<1> QED BY <1>1, SeenIsASequence, LenProperties

(* The moves of a descent are as many as its paths are long.                *)
LEMMA MadeIsALine ==
  ASSUME Structure, Descent
  PROVE  /\ Made \in Seq(Move) /\ Mover(world) \in Player
         /\ \A p \in Player : Len(position.line) + Len(paths[p]) = Len(world.line)
<1> DEFINE a == Len(position.line)
           n == Len(world.line)
<1>1. /\ position \in [deck : Deck, line : Line] /\ world \in [deck : Deck, line : Line]
      /\ n \in a..Ends(world.deck)
  BY DEF Structure, PositionOK, WorldOK
<1>2. /\ position.line \in Seq(Move) /\ world.line \in Seq(Move) /\ a \in Nat /\ n \in Nat
      /\ Mover(world) \in Player
  BY <1>1, LegalMoves, LenProperties
<1>3. \A i \in 1..n : world.line[i] \in Move
  BY <1>2, ElementOfSeq
<1>4. Made = SubSeq(world.line, a + 1, n)
  BY DEF Made
<1> HIDE DEF a, n
<1>5. a <= n /\ \A i \in (a + 1)..n : world.line[i] \in Move
  BY <1>1, <1>2, <1>3
<1>6. /\ SubSeq(world.line, a + 1, n) \in Seq(Move)
      /\ Len(SubSeq(world.line, a + 1, n)) = IF a + 1 <= n THEN n - (a + 1) + 1 ELSE 0
  BY <1>2, <1>5, SubSeqProperties
<1>7. Made \in Seq(Move) /\ Len(Made) = n - a
  BY <1>2, <1>4, <1>5, <1>6
<1>8. ASSUME NEW p \in Player PROVE a + Len(paths[p]) = n
  <2>1. paths[p] = Seen(p, Made, a)
    BY DEF Structure, PathsOK, a
  <2>2. Len(paths[p]) = Len(Made)
    BY <1>2, <1>7, <2>1, SeenIsASequence
  <2> QED BY <1>2, <1>7, <2>2
<1> QED BY <1>2, <1>7, <1>8 DEF a, n

(* New nodes of a descent are of the player who is to move in its world.    *)
LEMMA ViewedGrowing ==
  ASSUME Structure, Describing, Viewed, ~spared, Descent, NEW p \in Player,
         trees'[p].about = trees[p].about, playouts'[p] = playouts[p],
         Extends(trees[p].nodes, trees'[p].nodes, paths[p], Mover(world))
  PROVE  Shows(p, trees'[p].nodes, Len(trees'[p].about), playouts'[p])
<1> DEFINE from == Len(trees[p].about)
           old  == trees[p].nodes
           new  == trees'[p].nodes
           path == paths[p]
           mover == Mover(world)
<1>1. pc # "idle"
  BY DEF Descent
<1>2. trees[p].about # None /\ trees[p].about = Seen(p, position.line, 0)
  BY <1>1 DEF Structure, InStep, Describing
<1>3. from = Len(position.line) /\ from \in Nat
  BY <1>2, RootedHere
<1>4. mover \in Nat /\ mover = Turn(Len(world.line)) /\ from + Len(path) = Len(world.line)
  BY <1>3, MadeIsALine, ObservedAssumption DEF Mover
<1>5. Shows(p, old, from, playouts[p])
  BY <1>2 DEF Viewed
<1>6. IsTree(old) /\ path \in Seq(Key) /\ Extends(old, new, path, mover)
  BY DEF Structure, TreesOK, PathsOK
<1> HIDE DEF from, old, new, path, mover
<1>7. Shows(p, new, from, playouts[p])
  BY <1>3, <1>4, <1>5, <1>6, ShowsExtended
<1> QED BY <1>7 DEF from, new

LEMMA ViewedBegin ==
  ASSUME Structure, Viewed, Begin, ~spared'
  PROVE  Viewed'
<1> SUFFICES ASSUME NEW p \in Player
             PROVE  Shows(p, trees'[p].nodes, Len(trees'[p].about), playouts'[p])
  BY DEF Viewed
<1>1. /\ trees'[p].about = IF armed THEN trees[p].about ELSE Seen(p, position.line, 0)
      /\ armed => /\ DOMAIN trees'[p].nodes = DOMAIN trees[p].nodes
                  /\ trees'[p].nodes[Root].visits = trees[p].nodes[Root].visits
                  /\ \A at \in DOMAIN trees[p].nodes \ {Root} :
                       trees'[p].nodes[at] = trees[p].nodes[at]
      /\ ~armed => DOMAIN trees'[p].nodes = {Root} /\ trees'[p].nodes[Root].visits = 0
  BY BeginStep
<1>2. /\ playouts' = IF armed THEN playouts ELSE [q \in Player |-> EmptyBag]
      /\ spared' = (spared /\ armed)
  BY DEF Begin
<1>3. CASE ~armed
  <2>1. playouts'[p] = EmptyBag
    BY <1>2, <1>3
  <2> QED BY <1>1, <1>3, <2>1, ShowsNothing
<1>4. CASE armed
  <2> DEFINE from == Len(trees[p].about)
             b    == playouts[p]
             old  == trees[p].nodes
             new  == trees'[p].nodes
  <2>1. Shows(p, old, from, b)
    BY <1>2, <1>4 DEF Viewed, Structure, InStep
  <2>2. /\ DOMAIN new = DOMAIN old /\ new[Root].visits = old[Root].visits
        /\ \A at \in DOMAIN old \ {Root} : new[at] = old[at]
    BY <1>1, <1>4
  <2>3. playouts'[p] = b /\ Len(trees'[p].about) = from
    BY <1>1, <1>2, <1>4
  <2> HIDE DEF from, b, old, new
  <2>4. \A at \in DOMAIN old : new[at].visits = old[at].visits
    BY <2>2
  <2>5. Shows(p, new, from, b)
    BY <2>1, <2>2, <2>4 DEF Shows
  <2> QED BY <2>3, <2>5 DEF new
<1> QED BY <1>3, <1>4

LEMMA ViewedEnd ==
  ASSUME Structure, Describing, Viewed, EndIteration
  PROVE  Viewed'
<1>1. spared' = spared /\ Descent
  BY EndIterationStep DEF ghosts
<1> SUFFICES ASSUME ~spared, NEW p \in Player
             PROVE  Shows(p, trees'[p].nodes, Len(trees'[p].about), playouts'[p])
  BY <1>1 DEF Viewed
<1> DEFINE from == Len(trees[p].about)
           b    == playouts[p]
           old  == trees[p].nodes
           new  == trees'[p].nodes
           path == paths[p]
           line == Made
<1>2. PICK rewards \in [Player -> Nat] :
        /\ playouts' = [q \in Player |->
                          playouts[q] (+) SetToBag({[line |-> Made, rewards |-> rewards]})]
        /\ \A q \in Player : \A at \in DOMAIN trees[q].nodes :
             trees'[q].nodes[at].reward
               = trees[q].nodes[at].reward
                 + (IF IsPrefix(at, paths[q]) THEN rewards[trees[q].nodes[at].player] ELSE 0)
  BY EndIterationStep
<1>3. playouts'[p] = b (+) SetToBag({[line |-> line, rewards |-> rewards]})
  BY <1>2
<1>4. /\ DOMAIN new = DOMAIN old
      /\ \A at \in DOMAIN old :
           /\ new[at].player = old[at].player
           /\ new[at].visits
                = IF IsPrefix(at, path) THEN old[at].visits + 1 ELSE old[at].visits
           /\ new[at].reward
                = old[at].reward + (IF IsPrefix(at, path) THEN rewards[old[at].player] ELSE 0)
      /\ trees'[p].about = trees[p].about
  BY <1>2, EndIterationStep
<1>5. pc # "idle"
  BY <1>1 DEF Descent
<1>6. trees[p].about # None /\ trees[p].about = Seen(p, position.line, 0)
  BY <1>5 DEF Structure, InStep, Describing
<1>7. from = Len(position.line)
  BY <1>6, RootedHere
<1>8. /\ Shows(p, old, from, b) /\ \A at \in DOMAIN old : old[at].player \in Player
  BY <1>6 DEF Viewed, Structure, OwnersOK
<1>9. line \in Seq(Move) /\ path = Seen(p, line, from) /\ path \in DOMAIN old
  BY <1>1, <1>7, MadeIsALine DEF Structure, PathsOK
<1> HIDE DEF from, b, old, new, path, line
<1>10. Shows(p, new, from, b (+) SetToBag({[line |-> line, rewards |-> rewards]}))
  BY <1>4, <1>8, <1>9, ShowsBackedUp
<1> QED BY <1>3, <1>4, <1>10 DEF new, from

LEMMA ViewedReused ==
  ASSUME Structure, Describing, Viewed, ~spared, NEW m \in Move, PlayAndReuse(m),
         \A p \in Player : Has(p, m), NEW p \in Player
  PROVE  Shows(p, trees'[p].nodes, Len(trees'[p].about), playouts'[p])
<1> DEFINE key  == ObservedKey(p, Mover(position), m)
           from == Len(trees[p].about)
           b    == playouts[p]
           old  == trees[p].nodes
           new  == trees'[p].nodes
<1>1. /\ reported /\ Play(m)
      /\ trees' = [q \in Player |-> Rerooted(q, m)]
      /\ playouts' = [q \in Player |-> Kept(q, m)]
  BY DEF PlayAndReuse
<1>2. /\ key \in Key /\ trees[p].about # None
      /\ trees'[p].about = Append(trees[p].about, key)
      /\ IsTree(new)
      /\ \A at \in DOMAIN new :
           /\ <<key>> \o at \in DOMAIN old
           /\ at # Root => new[at] = old[<<key>> \o at]
           /\ new[at].visits = old[<<key>> \o at].visits
      /\ \A at \in Seq(Key) : <<key>> \o at \in DOMAIN old => at \in DOMAIN new
  BY <1>1, RerootStep
<1>3. trees[p].about = Seen(p, position.line, 0)
  <2>1. <<key>> \o Root \in DOMAIN old /\ <<key>> \o Root # Root
    <3> HIDE DEF key
    <3> QED BY <1>2, RootIsThere, Below
  <2> QED BY <1>1, <2>1 DEF Describing
<1>4. from = Len(position.line) /\ from \in Nat
  BY <1>3, RootedHere
<1>5. playouts'[p] = CutBag(p, b, from, key)
  <2>1. Turn(from) = Mover(position)
    BY <1>4 DEF Mover
  <2>2. playouts'[p] = Kept(p, m)
    BY <1>1
  <2> QED BY <2>1, <2>2, KeptIsCut
<1>6. Len(trees'[p].about) = from + 1
  <2>1. trees[p].about \in Seq(Key)
    BY <1>2 DEF Structure, TreesOK
  <2> HIDE DEF key
  <2> QED BY <1>2, <2>1, AppendProperties
<1>7. /\ Shows(p, old, from, b) /\ IsTree(old)
      /\ \A at \in DOMAIN old : old[at].player \in Player
  BY <1>2 DEF Viewed, Structure, OwnersOK, TreesOK
<1> HIDE DEF key, from, b, old, new
<1>8. Shows(p, new, from + 1, CutBag(p, b, from, key))
  BY <1>2, <1>4, <1>7, ShowsRerooted
<1> QED BY <1>5, <1>6, <1>8 DEF new

LEMMA ViewedStep == Structure /\ Describing /\ Viewed /\ [Next]_vars => Viewed'
<1> SUFFICES ASSUME Structure, Describing, Viewed, [Next]_vars, ~spared'
             PROVE  Viewed'
  BY DEF Viewed
<1>1. ASSUME UNCHANGED <<trees, playouts>>, ~spared
      PROVE  Viewed'
  BY <1>1 DEF Viewed
<1>2. CASE UNCHANGED vars \/ Refuse \/ Determinize \/ Finish \/ \E m \in Move : PlayUnreported(m)
  BY <1>1, <1>2 DEF vars, ghosts, Refuse, Determinize, Finish, PlayUnreported
<1>3. CASE ForcedMove
  BY <1>1, <1>3 DEF ForcedMove
<1>4. CASE Begin
  BY <1>4, ViewedBegin
<1>5. CASE Descend
  <2>1. ~spared /\ playouts' = playouts /\ Descent
    BY <1>5 DEF Descend, Descending, Descent, ghosts
  <2>2. ASSUME NEW p \in Player
        PROVE  Shows(p, trees'[p].nodes, Len(trees'[p].about), playouts'[p])
    <3>1. /\ trees'[p].about = trees[p].about
          /\ Extends(trees[p].nodes, trees'[p].nodes, paths[p], Mover(world))
      BY <1>5, DescendStep
    <3> QED BY <2>1, <3>1, ViewedGrowing
  <2> QED BY <2>2 DEF Viewed
<1>6. CASE EndIteration
  BY <1>6, ViewedEnd
<1>7. CASE Panic
  <2>1. ~spared /\ playouts' = playouts
    BY <1>7, PanicStep DEF ghosts
  <2>2. ASSUME NEW p \in Player, trees'[p].about # None
        PROVE  Shows(p, trees'[p].nodes, Len(trees'[p].about), playouts'[p])
    <3>1. trees'[p].about = trees[p].about
      BY <1>7, PanicStep
    <3>2. CASE trees'[p].nodes = trees[p].nodes
      BY <2>1, <2>2, <3>1, <3>2 DEF Viewed
    <3>3. CASE /\ Descent
               /\ Extends(trees[p].nodes, trees'[p].nodes, paths[p], Mover(world))
      BY <2>1, <3>1, <3>3, ViewedGrowing
    <3> QED BY <1>7, <3>2, <3>3, PanicStep
  <2> QED BY <2>2 DEF Viewed
<1>8. CASE ClearTree
  BY <1>8, DroppedStep DEF ClearTree, Viewed
<1>9. ASSUME NEW m \in Move, PlayAndReuse(m)
      PROVE  Viewed'
  <2>1. ~spared
    BY <1>9 DEF PlayAndReuse, ghosts
  <2>2. CASE \A p \in Player : Has(p, m)
    BY <1>9, <2>1, <2>2, ViewedReused DEF Viewed
  <2>3. CASE ~ \A p \in Player : Has(p, m)
    BY <1>9, <2>3, DroppedStep DEF PlayAndReuse, Viewed
  <2> QED BY <2>2, <2>3
<1> QED BY <1>2, <1>3, <1>4, <1>5, <1>6, <1>7, <1>8, <1>9 DEF Next

-----------------------------------------------------------------------------
(* The answer.                                                              *)
(* What the ranking reads of a candidate.                                   *)
Measured(c) == [visits |-> c.visits, timesAvailable |-> c.timesAvailable, mean |-> c.mean]

LEMMA MeasuredBeats ==
  ASSUME NEW a, NEW b
  PROVE  Beats(Measured(a), Measured(b)) <=> Beats(a, b)
<1>1. /\ Established(Measured(a)) = Established(a) /\ Established(Measured(b)) = Established(b)
      /\ RateAbove(Measured(a), Measured(b)) = RateAbove(a, b)
      /\ MeanAbove(Measured(a), Measured(b)) = MeanAbove(a, b)
      /\ MeanAbove(Measured(b), Measured(a)) = MeanAbove(b, a)
  BY DEF Measured, Established, RateAbove, Opportunities, MeanAbove
<1> QED BY <1>1 DEF Beats, MeanTied

(* The leader is there as soon as a candidate was visited, is one of those  *)
(* that were, and none of them ranks above it.                              *)
LEMMA MeasuredLeader ==
  ASSUME NEW cs, NEW places, cs = [i \in places |-> cs[i]],
         IsFiniteSet(places), places \subseteq Nat,
         \A i \in places : Measured(cs[i]) \in Candidate(Int)
  PROVE  /\ (\E k \in places : cs[k].visits > 0) => HasLeader(cs)
         /\ HasLeader(cs) => /\ Leader(cs) \in places
                             /\ cs[Leader(cs)].visits > 0
                             /\ \A j \in places : cs[j].visits > 0 => ~Beats(cs[j], cs[Leader(cs)])
<1> DEFINE ms == [i \in places |-> Measured(cs[i])]
<1>1. DOMAIN ms = places /\ DOMAIN cs = places /\ \A i \in places : ms[i] = Measured(cs[i])
  OBVIOUS
<1>2. HonestOn(ms, DOMAIN ms)
  BY <1>1 DEF HonestOn
<1>3. \A i \in places : ms[i].visits = cs[i].visits /\ cs[i].visits \in Nat
  BY <1>1 DEF Measured, Candidate
<1>4. \A i, j \in places : Beats(ms[i], ms[j]) <=> Beats(cs[i], cs[j])
  BY <1>1, MeasuredBeats
<1> HIDE DEF ms
<1>5. \A i \in places : IsLeader(ms, i) <=> IsLeader(cs, i)
  BY <1>1, <1>3, <1>4 DEF IsLeader
<1>6. ASSUME NEW k \in places, cs[k].visits > 0
      PROVE  HasLeader(cs)
  <2>1. HasLeader(ms)
    BY <1>1, <1>2, <1>3, <1>6, LeaderExists
  <2> QED BY <1>1, <1>5, <2>1 DEF HasLeader
<1>7. ASSUME HasLeader(cs)
      PROVE  /\ Leader(cs) \in places
             /\ cs[Leader(cs)].visits > 0
             /\ \A j \in places : cs[j].visits > 0 => ~Beats(cs[j], cs[Leader(cs)])
  <2>1. /\ Leader(cs) \in places /\ IsLeader(cs, Leader(cs)) /\ cs[Leader(cs)].visits > 0
    BY <1>1, <1>7, LeaderWasVisited
  <2>2. Measured(cs[Leader(cs)]) \in Candidate(Int)
    BY <2>1
  <2>3. ~Beats(cs[Leader(cs)], cs[Leader(cs)])
    BY <2>2, BeatsAsymmetric, MeasuredBeats
  <2> QED BY <1>1, <2>1, <2>3 DEF IsLeader
<1> QED BY <1>6, <1>7

(* What the answer is read off: candidates the ranking orders, of which no  *)
(* two are of one choice.                                                   *)
LEMMA CandidatesHonest ==
  ASSUME Structure
  PROVE  \E places :
           /\ Candidates = [i \in places |-> Candidates[i]]
           /\ IsFiniteSet(places) /\ places \subseteq Nat
           /\ \A i \in places :
                /\ Measured(Candidates[i]) \in Candidate(Int)
                /\ Candidates[i].choice \in Elements(Legal(position))
                /\ \A j \in places : Candidates[i].choice = Candidates[j].choice => i = j
<1> DEFINE nodes  == trees[Perspective].nodes
           child  == Children(nodes, Root)
           places == Available(nodes, Root, OwnKeys(Perspective, Legal(position)))
<1>1. Perspective \in Player /\ Legal(position) \in Seq(Move)
  BY LegalMoves DEF Structure, PositionOK, Perspective
<1>2. OwnKeys(Perspective, Legal(position)) = Legal(position)
  BY <1>1, OwnKeysAreMoves
<1>3. IsTree(nodes)
  BY <1>1 DEF Structure, TreesOK
<1>4. Candidates = [i \in places |-> CandidateOf(nodes[<<child[i]>>], child[i])]
  BY DEF Candidates, CandidatesAt
<1>5. places \subseteq DOMAIN child /\ \A i \in places : child[i] \in Elements(Legal(position))
  BY <1>2 DEF Available
<1> HIDE DEF nodes
<1>6. /\ Root \in DOMAIN nodes /\ child \in Seq(Key) /\ IsInjective(child)
      /\ \A k \in Elements(child) : Append(Root, k) \in DOMAIN nodes
  BY <1>3 DEF IsTree, Node, Children
<1> HIDE DEF child, places
<1>7. DOMAIN child = 1..Len(child) /\ Len(child) \in Nat /\ \A i \in DOMAIN child : child[i] \in Key
  BY <1>6, LenProperties, ElementOfSeq
<1>8. IsFiniteSet(places) /\ places \subseteq Nat
  <2>1. IsFiniteSet(1..Len(child)) /\ 1..Len(child) \subseteq Nat
    BY <1>7, FS_Interval
  <2> QED BY <1>5, <1>7, <2>1, FS_Subset
<1>9. ASSUME NEW i \in places
      PROVE  Measured(Candidates[i]) \in Candidate(Int) /\ Candidates[i].choice = child[i]
  <2> DEFINE node == nodes[<<child[i]>>]
  <2>1. node \in Node
    <3>1. child[i] \in Elements(child) /\ child[i] \in Key
      BY <1>5, <1>7 DEF Elements
    <3>2. Append(Root, child[i]) = <<child[i]>>
      BY <3>1 DEF Root
    <3> QED BY <1>3, <1>6, <3>1, <3>2 DEF IsTree
  <2>2. Candidates[i] = CandidateOf(node, child[i])
    BY <1>4
  <2> HIDE DEF node
  <2>3. (node.reward * MeanScale) \div node.visits \in Int \/ node.visits = 0
    <3>1. node.reward \in Nat /\ node.visits \in Nat /\ MeanScale \in Nat
      BY <2>1, ObservedAssumption DEF Node
    <3>2. node.reward * MeanScale \in Nat
      BY <3>1
    <3> HIDE DEF CandidateOf
    <3> QED BY <3>1, <3>2
  <2>4. /\ Candidates[i].visits = node.visits /\ Candidates[i].timesAvailable = node.available
        /\ Candidates[i].mean \in Int /\ Candidates[i].choice = child[i]
    BY <2>2, <2>3 DEF CandidateOf
  <2> QED BY <2>1, <2>4 DEF Measured, Candidate, Node
<1>10. \A i, j \in places : child[i] = child[j] => i = j
  BY <1>5, <1>6 DEF IsInjective
<1>11. Candidates = [i \in places |-> Candidates[i]]
  BY <1>4
<1>12. \A i \in places : Candidates[i].choice \in Elements(Legal(position))
  BY <1>5, <1>9
<1> HIDE DEF Candidates
<1> QED BY <1>8, <1>9, <1>10, <1>11, <1>12

LEMMA AnsweredLeads ==
  ASSUME Structure, NEW a \in Answered
  PROVE  /\ a.choice \in Elements(Legal(position))
         /\ \A i, j \in DOMAIN Candidates :
              Candidates[i].choice = a.choice /\ Candidates[j].visits > 0 =>
                Candidates[i].visits > 0 /\ ~Beats(Candidates[j], Candidates[i])
<1> DEFINE cs == Candidates
<1>1. PICK places :
        /\ cs = [i \in places |-> cs[i]]
        /\ IsFiniteSet(places) /\ places \subseteq Nat
        /\ \A i \in places :
             /\ Measured(cs[i]) \in Candidate(Int)
             /\ cs[i].choice \in Elements(Legal(position))
             /\ \A j \in places : cs[i].choice = cs[j].choice => i = j
  BY CandidatesHonest
<1>2. DOMAIN cs = places
  BY <1>1
<1>3. \/ HasLeader(cs) /\ a.choice = cs[Leader(cs)].choice
      \/ ~HasLeader(cs) /\ a.choice \in Elements(Legal(position))
  BY DEF Answered
<1> HIDE DEF cs
<1>4. /\ (\E k \in places : cs[k].visits > 0) => HasLeader(cs)
      /\ HasLeader(cs) => /\ Leader(cs) \in places
                          /\ cs[Leader(cs)].visits > 0
                          /\ \A j \in places : cs[j].visits > 0 => ~Beats(cs[j], cs[Leader(cs)])
  BY <1>1, MeasuredLeader
<1>5. CASE HasLeader(cs)
  <2>1. a.choice = cs[Leader(cs)].choice /\ Leader(cs) \in places
    BY <1>3, <1>4, <1>5
  <2>2. \A i \in places : cs[i].choice = a.choice => i = Leader(cs)
    BY <1>1, <2>1
  <2> QED BY <1>1, <1>2, <1>4, <1>5, <2>1, <2>2 DEF cs
<1>6. CASE ~HasLeader(cs)
  BY <1>2, <1>3, <1>4, <1>6 DEF cs
<1> QED BY <1>5, <1>6

LEMMA AnsweringStep == Structure /\ Answering /\ [Next]_vars => Answering'
<1> SUFFICES ASSUME Structure, Answering, [Next]_vars PROVE Answering'
  OBVIOUS
<1>1. ASSUME answer' = None PROVE Answering'
  BY <1>1 DEF Answering, AnswerLeads
<1>2. CASE UNCHANGED vars
  <2>1. UNCHANGED <<answer, pc, position, trees>>
    BY <1>2 DEF vars
  <2>2. Candidates' = Candidates /\ Legal(position)' = Legal(position)
    BY <2>1 DEF Candidates, CandidatesAt, Perspective, Legal, Mover, Available, Children
  <2> QED BY <2>1, <2>2 DEF Answering, AnswerLeads
<1>3. CASE Refuse \/ ForcedMove \/ Begin \/ ClearTree
  BY <1>1, <1>3 DEF Refuse, ForcedMove, Begin, ClearTree
<1>4. CASE Determinize \/ Descend \/ EndIteration \/ Panic
  <2>1. pc # "idle" /\ answer' = answer
    BY <1>4, EndIterationStep, PanicStep
       DEF Determinize, Descend, Descending, EndIteration, Panic
  <2> QED BY <1>1, <2>1 DEF Answering
<1>5. CASE Finish
  <2>1. UNCHANGED <<position, trees>> /\ answer' \in Answered /\ pc' = "idle"
    BY <1>5 DEF Finish
  <2>2. Candidates' = Candidates /\ Legal(position)' = Legal(position)
    BY <2>1 DEF Candidates, CandidatesAt, Perspective, Legal, Mover, Available, Children
  <2>3. /\ answer'.choice \in Elements(Legal(position))
        /\ \A i, j \in DOMAIN Candidates :
             Candidates[i].choice = answer'.choice /\ Candidates[j].visits > 0 =>
               Candidates[i].visits > 0 /\ ~Beats(Candidates[j], Candidates[i])
    BY <2>1, AnsweredLeads
  <2> QED BY <2>1, <2>2, <2>3 DEF Answering, AnswerLeads
<1>6. ASSUME NEW m \in Move, PlayAndReuse(m) \/ PlayUnreported(m)
      PROVE  Answering'
  <2>1. answer' = None
    BY <1>6 DEF PlayAndReuse, PlayUnreported, Play
  <2> QED BY <1>1, <2>1
<1> QED BY <1>2, <1>3, <1>4, <1>5, <1>6 DEF Next

-----------------------------------------------------------------------------
(* What follows for every behaviour.                                        *)

LEMMA InvInit == Init => Inv
<1> SUFFICES ASSUME Init PROVE Inv
  OBVIOUS
<1>1. Structure
  BY StructureInit
<1>2. /\ pc = "idle" /\ ~armed /\ answer = None
      /\ \A p \in Player : trees[p].about = None /\ DOMAIN trees[p].nodes = {Root}
  <2>1. Placeholder.about = None /\ DOMAIN Placeholder.nodes = {Root}
    BY DEF Placeholder, NewRoot
  <2> QED BY <2>1 DEF Init
<1>3. Describing
  BY <1>2 DEF Describing
<1>4. Warranted
  BY <1>2 DEF Warranted
<1>5. Answering
  BY <1>2 DEF Answering, AnswerLeads
<1>6. Viewed
  BY <1>2 DEF Viewed
<1> QED BY <1>1, <1>3, <1>4, <1>5, <1>6 DEF Inv

LEMMA InvStep == Inv /\ [Next]_vars => Inv'
BY StructureStep, DescribingStep, WarrantedStep, ViewedStep, AnsweringStep DEF Inv

LEMMA InvAlways == Spec => []Inv
<1>1. Init => Inv
  BY InvInit
<1>2. Inv /\ [Next]_vars => Inv'
  BY InvStep
<1> QED BY <1>1, <1>2, PTL DEF Spec

(* Forced moves apart, armed trees are rooted at the position to be         *)
(* searched as their players observed it, and a search grows trees of its   *)
(* own position only, whatever was refused, cleared, missed or panicked in  *)
(* between: tree_is_current (search.rs:72) is cleared wherever it has to be.*)
THEOREM TreesDescribeThePosition == Spec => []SearchesItsOwnPosition
<1>1. Inv => SearchesItsOwnPosition
  BY DEF Inv, Describing, SearchesItsOwnPosition, ArmedTreesDescribePosition
<1> QED BY <1>1, InvAlways, PTL

(* All the trees or none are rooted, after as many moves; during a descent  *)
(* each stands at a node it has, the one of the moves just made as its      *)
(* player saw them; every node is listed once, by a parent that is there:   *)
(* the debug assertion of search.rs:467 holds for any game.                 *)
THEOREM TreesInStep == Spec => []TreesStayAligned
<1>1. Inv => TreesStayAligned
  <2> SUFFICES ASSUME Inv PROVE TreesStayAligned
    OBVIOUS
  <2>1. /\ \A p \in Player : /\ IsTree(trees[p].nodes)
                             /\ trees[p].about = None => DOMAIN trees[p].nodes = {Root}
        /\ \A p, q \in Player :
             /\ trees[p].about = None <=> trees[q].about = None
             /\ trees[p].about # None => Len(trees[p].about) = Len(trees[q].about)
    BY DEF Inv, Structure, TreesOK, InStep
  <2>2. pc \in {"descend", "rollout"} =>
          \A p \in Player : /\ paths[p] = Seen(p, Made, Len(position.line))
                            /\ paths[p] \in DOMAIN trees[p].nodes
    BY DEF Inv, Structure, PathsOK, Descent
  <2> QED BY <2>1, <2>2 DEF TreesStayAligned, IsTree, Made
<1> QED BY <1>1, InvAlways, PTL

(* A player's own moves are chosen no more often than its own tree counts   *)
(* that they were there to choose, so the selection rate of rank.rs:137 is  *)
(* at most one, whatever the worlds offer, re-rooting and panics included.  *)
THEOREM RatesAreRates == Spec => []ChosenWithinOpportunities
<1>1. Inv => ChosenWithinOpportunities
  BY DEF Inv, Warranted, Opportune, ChosenWithinOpportunities
<1> QED BY <1>1, InvAlways, PTL

(* The answer is a choice the position offers, and by the mover's own tree  *)
(* no other choice it offers, visited in any world, ranks above it.         *)
THEOREM ObservedAnswerLeads == Spec => []AnswerLeads
<1>1. Inv => AnswerLeads
  BY DEF Inv, Answering
<1> QED BY <1>1, InvAlways, PTL

(* Each tree is what its observer saw of one and the same playouts: a node  *)
(* has a visit for each that passes through it as the observer sees them,   *)
(* and the sum of what they paid the player of the last move to it.  No     *)
(* re-rooting keeps a playout that took another edge or drops one that took *)
(* this one, and no panic leaves a visit behind.                            *)
THEOREM EachTreeSumsItsView == Spec => []EachTreeIsItsObserversView
<1>1. Inv => EachTreeIsItsObserversView
  <2> SUFFICES ASSUME Inv, ~spared, trees[CHOOSE p \in Player : TRUE].about # None,
                      NEW p \in Player, NEW at \in DOMAIN trees[p].nodes
               PROVE  LET from == Len(trees[p].about)
                          through == {q \in DOMAIN playouts[p] : IsPrefix(at, Seen(p, q.line, from))}
                          node == trees[p].nodes[at]
                      IN  /\ node.visits = SumFunction([q \in through |-> playouts[p][q] * 1])
                          /\ at # Root =>
                               node.reward = SumFunction([q \in through |->
                                 playouts[p][q] * q.rewards[Turn(from + Len(at) - 1)]])
    BY DEF EachTreeIsItsObserversView
  <2> DEFINE from == Len(trees[p].about)
             b    == playouts[p]
             node == trees[p].nodes[at]
             through == Through(p, b, from, at)
  <2>1. trees[p].about # None
    BY DEF Inv, Structure, InStep
  <2>2. /\ IsShown(b)
        /\ node.visits = Share(p, b, from, at, Once)
        /\ at # Root => /\ node.player = Turn(from + Len(at) - 1)
                        /\ node.reward = Share(p, b, from, at, PaidTo(node.player))
    BY <2>1 DEF Inv, Viewed, Shows
  <2>3. through \subseteq Played /\ through = {q \in DOMAIN b : IsPrefix(at, Seen(p, q.line, from))}
    BY <2>2 DEF Through, IsShown
  <2> HIDE DEF from, b, node
  <2>4. node.visits = SumFunction([q \in through |-> b[q] * 1])
    <3>1. [q \in through |-> b[q] * Once[q]] = [q \in through |-> b[q] * 1]
      BY <2>3 DEF Once
    <3> QED BY <2>2, <3>1, ShareIsThePropertys
  <2>5. ASSUME at # Root
        PROVE  node.reward = SumFunction([q \in through |->
                               b[q] * q.rewards[Turn(from + Len(at) - 1)]])
    <3> DEFINE player == node.player
    <3>1. [q \in through |-> b[q] * PaidTo(player)[q]]
            = [q \in through |-> b[q] * q.rewards[player]]
      BY <2>3 DEF PaidTo
    <3> QED BY <2>2, <2>5, <3>1, ShareIsThePropertys
  <2> QED BY <2>3, <2>4, <2>5 DEF from, b, node
<1> QED BY <1>1, InvAlways, PTL
=============================================================================
