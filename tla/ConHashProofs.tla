--------------------------- MODULE ConHashProofs ---------------------------
(***************************************************************************)
(* Theorems about the consistent hash of ConHashSpec: the ring stays       *)
(* sorted by unique ids, and which keys a join and a leave move; and about *)
(* the list it is kept in (LinkListSpec).                                  *)
(***************************************************************************)
EXTENDS ConHashSpec, LinkListSpec, SequenceFacts

Sorted(r) == \A i, j \in DOMAIN r : i < j => r[i].id < r[j].id

Rings == Seq(RingNode(Servers))

LEMMA FirstOfLeast ==
    ASSUME NEW I \in SUBSET Nat
    PROVE  /\ I = {} => FirstOf(I) = 0
           /\ I # {} => FirstOf(I) \in I /\ \A i \in I : FirstOf(I) <= i
  <1>1. ASSUME I # {} PROVE FirstOf(I) \in I /\ \A i \in I : FirstOf(I) <= i
    <2>1. PICK m \in I : \A i \in I : m <= i
      BY <1>1, LeastNatural
    <2>2. Min(I) \in I /\ \A i \in I : Min(I) <= i
      BY <2>1 DEF Min
    <2> QED BY <1>1, <2>2 DEF FirstOf
  <1> QED BY <1>1 DEF FirstOf

LEMMA RingShape ==
    ASSUME NEW r \in Rings
    PROVE  /\ Len(r) \in Nat /\ DOMAIN r = 1 .. Len(r)
           /\ \A i \in 1 .. Len(r) : r[i] \in RingNode(Servers) /\ r[i].id \in Nat
           /\ r # <<>> => Len(r) >= 1
           /\ Len(r) >= 1 => r # <<>>
  <1>1. Len(r) \in Nat /\ r \in [1 .. Len(r) -> RingNode(Servers)]
    BY LenProperties DEF Rings
  <1>2. \A i \in 1 .. Len(r) : r[i] \in RingNode(Servers) /\ r[i].id \in Nat
    BY <1>1 DEF RingNode
  <1>3. r # <<>> <=> Len(r) >= 1
    BY <1>1, EmptySeq DEF Rings
  <1> QED BY <1>1, <1>2, <1>3

-----------------------------------------------------------------------------
(* The pass that finds a unique id.                                        *)

\* g records the ids tried over the first m nodes.
TriedUpTo(r, hash, m, g) ==
    /\ DOMAIN g = 0 .. m
    /\ g[0] = hash
    /\ \A i \in 1 .. m : g[i] = Pushed(r[i], g[i - 1])

LEMMA TriedExists ==
    ASSUME NEW r, NEW hash, NEW n \in Nat
    PROVE  \E g : TriedUpTo(r, hash, n, g)
  <1> DEFINE Missing == {m \in Nat : ~ \E g : TriedUpTo(r, hash, m, g)}
  <1>1. ASSUME Missing # {} PROVE FALSE
    <2>1. PICK m \in Missing : \A x \in Missing : m <= x
      <3>1. Missing \in SUBSET Nat
        OBVIOUS
      <3> QED BY <1>1, <3>1, LeastNatural
    <2>2. CASE m = 0
      <3>1. TriedUpTo(r, hash, 0, [i \in 0 .. 0 |-> hash])
        BY DEF TriedUpTo
      <3> QED BY <2>1, <2>2, <3>1
    <2>3. CASE m # 0
      <3>1. m - 1 \in Nat /\ ~ (m <= m - 1)
        BY <2>3
      <3>2. m - 1 \notin Missing
        BY <2>1, <3>1
      <3>3. PICK g : TriedUpTo(r, hash, m - 1, g)
        BY <3>1, <3>2
      <3> DEFINE h == [i \in 0 .. m |-> IF i = m THEN Pushed(r[m], g[m - 1]) ELSE g[i]]
      <3>4. h[0] = hash /\ DOMAIN h = 0 .. m
        BY <2>3, <3>3 DEF TriedUpTo
      <3>5. ASSUME NEW i \in 1 .. m PROVE h[i] = Pushed(r[i], h[i - 1])
        <4>1. i - 1 \in 0 .. m /\ i - 1 # m /\ h[i - 1] = g[i - 1]
          BY <3>1
        <4>2. CASE i = m
          BY <4>1, <4>2
        <4>3. CASE i # m
          <5>1. i \in 1 .. m - 1 /\ h[i] = g[i]
            BY <4>3
          <5> QED BY <3>3, <4>1, <5>1 DEF TriedUpTo
        <4> QED BY <4>2, <4>3
      <3> HIDE DEF h
      <3>6. TriedUpTo(r, hash, m, h)
        BY <3>4, <3>5 DEF TriedUpTo
      <3> QED BY <2>1, <3>6
    <2> QED BY <2>2, <2>3
  <1> QED BY <1>1

LEMMA TriedIs ==
    ASSUME NEW r \in Rings, NEW hash
    PROVE  TriedUpTo(r, hash, Len(r), Tried(r, hash))
  <1> DEFINE body(f) == [i \in 0 .. Len(r) |->
                            IF i = 0 THEN hash ELSE Pushed(r[i], f[i - 1])]
  <1>1. PICK g : TriedUpTo(r, hash, Len(r), g)
    BY TriedExists, RingShape
  <1>a. PICK k : k = [i \in DOMAIN g |-> g[i]]
    OBVIOUS
  <1>2. k = body(k)
    <2>1. DOMAIN k = 0 .. Len(r) /\ \A i \in 0 .. Len(r) : k[i] = g[i]
      BY <1>1, <1>a DEF TriedUpTo
    <2>2. \A i \in 0 .. Len(r) : k[i] = IF i = 0 THEN hash ELSE Pushed(r[i], k[i - 1])
      BY <1>1, <2>1, RingShape DEF TriedUpTo
    <2> QED BY <1>a, <2>1, <2>2
  <1>3. Tried(r, hash) = CHOOSE f : f = body(f)
    BY DEF Tried
  <1>4. Tried(r, hash) = body(Tried(r, hash))
    BY <1>2, <1>3
  <1> QED BY <1>4, RingShape DEF TriedUpTo

LEMMA NoWrap ==
    ASSUME NEW a \in Nat, NEW m \in Nat, a < m
    PROVE  a % m = a
  OBVIOUS

LEMMA Multiples ==
    ASSUME NEW a \in Nat, NEW b \in Nat, NEW c \in Nat, a <= b
    PROVE  a * c \in Nat /\ a * c <= b * c /\ (a + 1) * c = a * c + c
  OBVIOUS

\* After i nodes the id tried is none of theirs: an id pushed on is above the
\* node that had it, and so above all nodes before.
Passed(r, g, hash, i) ==
    /\ g[i] \in Nat
    /\ g[i] <= hash + i * HASH_INCREMENT
    /\ \A j \in 1 .. i : g[i] # r[j].id

LEMMA UniqueFresh ==
    ASSUME NEW r \in Rings, Sorted(r), NEW hash \in Nat,
           hash + Len(r) * HASH_INCREMENT < HASH_MAX
    PROVE  UniqueId(r, hash) \in Nat /\ UniqueId(r, hash) \notin Ids(r)
  <1> DEFINE g == Tried(r, hash)
             Bad == {i \in 0 .. Len(r) : ~ Passed(r, g, hash, i)}
  <1>1. TriedUpTo(r, hash, Len(r), g)
    BY TriedIs
  <1> HIDE DEF g
  <1>2. Len(r) \in Nat /\ DOMAIN r = 1 .. Len(r) /\ \A i \in 1 .. Len(r) : r[i].id \in Nat
    BY RingShape
  <1>3. ASSUME Bad # {} PROVE FALSE
    <2>1. PICK i \in Bad : \A x \in Bad : i <= x
      <3>1. Bad \in SUBSET Nat
        BY <1>2
      <3> QED BY <1>3, <3>1, LeastNatural
    <2>2. i \in 0 .. Len(r) /\ ~ Passed(r, g, hash, i)
      BY <2>1
    <2>3. CASE i = 0
      BY <1>1, <2>2, <2>3, HashConstants DEF Passed, TriedUpTo
    <2>4. CASE i # 0
      <3>1. i \in 1 .. Len(r) /\ i - 1 \in 0 .. Len(r) /\ ~ (i <= i - 1)
        BY <1>2, <2>2, <2>4
      <3>2. Passed(r, g, hash, i - 1)
        BY <2>1, <3>1
      <3>3. g[i] = Pushed(r[i], g[i - 1])
        BY <1>1, <3>1 DEF TriedUpTo
      <3>4. r[i].id \in Nat /\ \A j \in 1 .. i - 1 : r[j].id \in Nat /\ r[j].id < r[i].id
        <4>1. \A j \in 1 .. i - 1 : j \in 1 .. Len(r) /\ j < i
          BY <1>2, <3>1
        <4> HIDE DEF Bad
        <4> QED BY <1>2, <3>1, <4>1 DEF Sorted
      <3>5. /\ (i - 1) * HASH_INCREMENT \in Nat /\ i * HASH_INCREMENT \in Nat
            /\ i * HASH_INCREMENT = (i - 1) * HASH_INCREMENT + HASH_INCREMENT
            /\ i * HASH_INCREMENT <= Len(r) * HASH_INCREMENT
            /\ Len(r) * HASH_INCREMENT \in Nat
        <4>1. /\ i - 1 \in Nat /\ i \in Nat /\ HASH_INCREMENT \in Nat
              /\ (i - 1) + 1 = i /\ i <= Len(r)
          BY <1>2, <3>1, HashConstants
        <4>2. (i - 1) * HASH_INCREMENT \in Nat /\ i * HASH_INCREMENT = (i - 1) * HASH_INCREMENT + HASH_INCREMENT
          BY <4>1, Multiples
        <4>3. i * HASH_INCREMENT \in Nat /\ i * HASH_INCREMENT <= Len(r) * HASH_INCREMENT
          BY <4>1, <1>2, Multiples, Zenon
        <4>4. Len(r) * HASH_INCREMENT \in Nat
          BY <4>1, <1>2, Multiples
        <4> QED BY <4>2, <4>3, <4>4
      <3>6. CASE r[i].id = g[i - 1]
        <4> DEFINE before == (i - 1) * HASH_INCREMENT
                   now    == i * HASH_INCREMENT
                   all    == Len(r) * HASH_INCREMENT
        <4>a. /\ before \in Nat /\ now \in Nat /\ all \in Nat
              /\ now = before + HASH_INCREMENT /\ now <= all
              /\ hash + all < HASH_MAX
              /\ g[i - 1] \in Nat /\ g[i - 1] <= hash + before
          BY <3>2, <3>5 DEF Passed
        <4> HIDE DEF before, now, all, Bad
        <4>1. /\ g[i - 1] + HASH_INCREMENT \in Nat
              /\ g[i - 1] + HASH_INCREMENT < HASH_MAX
              /\ g[i - 1] + HASH_INCREMENT <= hash + now
          BY <4>a, HashConstants
        <4>2. g[i] = g[i - 1] + HASH_INCREMENT
          BY <3>3, <3>6, <4>1, NoWrap, HashConstants DEF Pushed
        <4>3. \A j \in 1 .. i : g[i] # r[j].id
          BY <3>1, <3>4, <3>6, <4>2, HashConstants
        <4> QED BY <2>2, <4>1, <4>2, <4>3 DEF Passed, now
      <3>7. CASE r[i].id # g[i - 1]
        <4>1. g[i] = g[i - 1]
          BY <3>3, <3>7 DEF Pushed
        <4>2. \A j \in 1 .. i : g[i] # r[j].id
          BY <3>1, <3>2, <3>7, <4>1 DEF Passed
        <4> QED BY <2>2, <3>2, <3>5, <4>1, <4>2, HashConstants DEF Passed
      <3> QED BY <3>6, <3>7
    <2> QED BY <2>3, <2>4
  <1>4. Passed(r, g, hash, Len(r))
    BY <1>2, <1>3
  <1> QED BY <1>2, <1>4 DEF Passed, UniqueId, Ids, g

-----------------------------------------------------------------------------
(* What an insertion and a removal make of a sorted ring.                  *)

RingNodes(r) == {r[i] : i \in DOMAIN r}

\* d is the ring c and the node e, wherever it is linked in.
Extends(c, d, e) ==
    /\ Sorted(c) /\ Sorted(d)
    /\ RingNodes(d) = RingNodes(c) \cup {e}
    /\ e.id \notin Ids(c)

\* Where the nodes of c are in d, and those of d in c.
Shifted(c, d, p, e) ==
    /\ p \in 1 .. Len(d) /\ Len(d) = Len(c) + 1 /\ d[p] = e
    /\ \A i \in 1 .. p - 1 : i \in 1 .. Len(c) /\ i \in 1 .. Len(d) /\ d[i] = c[i]
    /\ \A i \in p .. Len(c) : i \in 1 .. Len(c) /\ i + 1 \in 1 .. Len(d) /\ d[i + 1] = c[i]
    /\ \A i \in 1 .. Len(d) : \/ i \in 1 .. p - 1
                              \/ i = p
                              \/ i - 1 \in p .. Len(c)

LEMMA LinkedShape ==
    ASSUME NEW c \in Rings, NEW d \in Rings, NEW p, NEW e, LinkedIn(c, d, p, e)
    PROVE  Shifted(c, d, p, e)
  <1>1. Len(c) \in Nat /\ Len(d) \in Nat
    BY RingShape
  <1> QED BY <1>1 DEF LinkedIn, Shifted

LEMMA LinkedNodes ==
    ASSUME NEW c \in Rings, NEW d \in Rings, NEW p, NEW e, LinkedIn(c, d, p, e)
    PROVE  RingNodes(d) = RingNodes(c) \cup {e}
  <1>0. Shifted(c, d, p, e)
    BY LinkedShape
  <1>1. /\ Len(c) \in Nat /\ Len(d) \in Nat
        /\ DOMAIN c = 1 .. Len(c) /\ DOMAIN d = 1 .. Len(d)
    BY RingShape
  <1>2. ASSUME NEW x \in RingNodes(d) PROVE x \in RingNodes(c) \cup {e}
    <2>1. PICK i \in 1 .. Len(d) : x = d[i]
      BY <1>1 DEF RingNodes
    <2>2. CASE i \in 1 .. p - 1
      BY <1>1, <2>1, <2>2, <1>0 DEF Shifted, RingNodes
    <2>3. CASE i = p
      BY <2>1, <2>3, <1>0 DEF Shifted
    <2>4. CASE i - 1 \in p .. Len(c)
      <3>1. i - 1 \in 1 .. Len(c) /\ d[(i - 1) + 1] = c[i - 1]
        BY <2>4, <1>0 DEF Shifted
      <3>2. (i - 1) + 1 = i
        OBVIOUS
      <3> QED BY <1>1, <2>1, <3>1, <3>2 DEF RingNodes
    <2> QED BY <2>1, <2>2, <2>3, <2>4, <1>0 DEF Shifted
  <1>3. ASSUME NEW x \in RingNodes(c) PROVE x \in RingNodes(d)
    <2>1. PICK i \in 1 .. Len(c) : x = c[i]
      BY <1>1 DEF RingNodes
    <2>2. i \in 1 .. p - 1 \/ i \in p .. Len(c)
      BY <1>1, <1>0 DEF Shifted
    <2>3. \E j \in 1 .. Len(d) : d[j] = c[i]
      BY <2>2, <1>0 DEF Shifted
    <2> QED BY <1>1, <2>1, <2>3 DEF RingNodes
  <1>4. e \in RingNodes(d)
    BY <1>1, <1>0 DEF Shifted, RingNodes
  <1> QED BY <1>2, <1>3, <1>4

\* Linked in where the ids below it end, a new node keeps the ring sorted.
LEMMA InsertedSorted ==
    ASSUME NEW c \in Rings, NEW d \in Rings, NEW p, NEW e, LinkedIn(c, d, p, e),
           Sorted(c), e.id \notin Ids(c),
           \A i \in 1 .. p - 1 : c[i].id < e.id,
           \A i \in p .. Len(c) : e.id < c[i].id
    PROVE  Extends(c, d, e)
  <1>0. Shifted(c, d, p, e)
    BY LinkedShape
  <1>1. /\ Len(c) \in Nat /\ Len(d) \in Nat
        /\ DOMAIN c = 1 .. Len(c) /\ DOMAIN d = 1 .. Len(d)
        /\ \A i \in 1 .. Len(c) : c[i].id \in Nat
        /\ \A i \in 1 .. Len(d) : d[i].id \in Nat
    BY RingShape
  <1>2. ASSUME NEW i \in 1 .. Len(d), NEW j \in 1 .. Len(d), i < j
        PROVE  d[i].id < d[j].id
    <2>1. CASE j \in 1 .. p - 1
      <3>1. i \in 1 .. p - 1
        BY <1>1, <1>2, <2>1, <1>0 DEF Shifted
      <3> QED BY <1>1, <1>2, <2>1, <3>1, <1>0 DEF Shifted, Sorted
    <2>2. CASE j = p
      <3>1. i \in 1 .. p - 1
        BY <1>1, <1>2, <2>2, <1>0 DEF Shifted
      <3> QED BY <2>2, <3>1, <1>0 DEF Shifted
    <2>3. CASE j - 1 \in p .. Len(c)
      <3>1. /\ j - 1 \in 1 .. Len(c) /\ d[j] = c[j - 1] /\ e.id < c[j - 1].id
            /\ p \in Nat /\ d[p] = e
        <4>1. d[(j - 1) + 1] = c[j - 1] /\ j - 1 \in 1 .. Len(c) /\ p \in 1 .. Len(d) /\ d[p] = e
          BY <2>3, <1>0 DEF Shifted
        <4> QED BY <1>1, <2>3, <4>1
      <3>2. CASE i \in 1 .. p - 1
        <4>1. i \in 1 .. Len(c) /\ d[i] = c[i] /\ i < j - 1
          BY <1>1, <2>3, <3>1, <3>2, <1>0 DEF Shifted
        <4> QED BY <1>1, <3>1, <4>1 DEF Sorted
      <3>3. CASE i = p
        BY <3>1, <3>3
      <3>4. CASE i - 1 \in p .. Len(c)
        <4>1. i - 1 \in 1 .. Len(c) /\ d[(i - 1) + 1] = c[i - 1]
          BY <3>4, <1>0 DEF Shifted
        <4>2. d[i] = c[i - 1] /\ i - 1 < j - 1
          BY <1>2, <4>1
        <4> QED BY <1>1, <3>1, <4>1, <4>2 DEF Sorted
      <3> QED BY <3>2, <3>3, <3>4, <1>0 DEF Shifted
    <2> QED BY <2>1, <2>2, <2>3, <1>0 DEF Shifted
  <1>3. Sorted(d)
    BY <1>1, <1>2 DEF Sorted
  <1> QED BY <1>3, LinkedNodes DEF Extends

\* Taking a node out of a sorted ring leaves a sorted ring without its id.
LEMMA RemovedSorted ==
    ASSUME NEW c \in Rings, NEW d \in Rings, NEW p, NEW e, LinkedIn(c, d, p, e),
           Sorted(d)
    PROVE  Extends(c, d, e)
  <1>0. Shifted(c, d, p, e)
    BY LinkedShape
  <1>1. /\ Len(c) \in Nat /\ Len(d) \in Nat
        /\ DOMAIN c = 1 .. Len(c) /\ DOMAIN d = 1 .. Len(d)
        /\ \A i \in 1 .. Len(c) : c[i].id \in Nat
        /\ \A i \in 1 .. Len(d) : d[i].id \in Nat
        /\ p \in 1 .. Len(d) /\ d[p] = e
    BY RingShape, <1>0 DEF Shifted
  <1> DEFINE at(i) == IF i < p THEN i ELSE i + 1
  <1>2. ASSUME NEW i \in 1 .. Len(c)
        PROVE  at(i) \in 1 .. Len(d) /\ d[at(i)] = c[i] /\ at(i) # p
    <2>1. CASE i \in 1 .. p - 1
      BY <1>1, <2>1, <1>0 DEF Shifted
    <2>2. CASE i \in p .. Len(c)
      BY <1>1, <2>2, <1>0 DEF Shifted
    <2> QED BY <1>1, <2>1, <2>2
  <1>3. \A i, j \in 1 .. Len(c) : i < j => at(i) < at(j)
    BY <1>1
  <1> HIDE DEF at
  <1>4. Sorted(c)
    BY <1>1, <1>2, <1>3 DEF Sorted
  <1>5. \A i \in 1 .. Len(d) : i # p => d[i].id # e.id
    <2>1. p \in DOMAIN d /\ d[p].id = e.id /\ DOMAIN d = 1 .. Len(d)
      BY <1>1
    <2>2. \A i \in 1 .. Len(d) : d[i].id \in Int /\ (i < p \/ i = p \/ p < i)
      BY <1>1
    <2>3. \A i \in 1 .. Len(d) : i < p => d[i].id < e.id
      BY <2>1 DEF Sorted
    <2>4. \A i \in 1 .. Len(d) : p < i => e.id < d[i].id
      BY <2>1 DEF Sorted
    <2> QED BY <2>1, <2>2, <2>3, <2>4
  <1>6. e.id \notin Ids(c)
    BY <1>1, <1>2, <1>5 DEF Ids
  <1> QED BY <1>4, <1>6, LinkedNodes DEF Extends

\* 74-102 puts a node with a new id into a sorted ring, which stays sorted.
LEMMA NodeInserted ==
    ASSUME NEW r \in Rings, NEW node \in RingNode(Servers),
           Sorted(r), node.id \notin Ids(r)
    PROVE  /\ InsertNode(r, node) \in Rings
           /\ Len(InsertNode(r, node)) = Len(r) + 1
           /\ Extends(r, InsertNode(r, node), node)
  <1> DEFINE I == {i \in DOMAIN r : node.id < r[i].id}
             d == InsertNode(r, node)
  <1>1. /\ Len(r) \in Nat /\ DOMAIN r = 1 .. Len(r) /\ node.id \in Nat
        /\ \A i \in 1 .. Len(r) : r[i].id \in Nat
    BY RingShape DEF RingNode
  <1>2. \A i \in 1 .. Len(r) : r[i].id # node.id
    BY <1>1 DEF Ids
  <1>3. I \in SUBSET Nat
    BY <1>1
  <1>4. CASE I = {}
    <2>1. d = Append(r, node)
      BY <1>4, <1>3, FirstOfLeast DEF InsertNode
    <2>2. d \in Rings /\ LinkedIn(r, d, Len(r) + 1, node)
      BY <2>1, AppendLinksIn DEF Rings
    <2>3. /\ \A i \in 1 .. (Len(r) + 1) - 1 : r[i].id < node.id
          /\ \A i \in Len(r) + 1 .. Len(r) : node.id < r[i].id
      BY <1>1, <1>2, <1>4
    <2> HIDE DEF d, I
    <2>4. Extends(r, d, node)
      BY <2>2, <2>3, InsertedSorted
    <2> QED BY <2>2, <2>4 DEF LinkedIn, d
  <1>5. CASE I # {}
    <2>1. PICK q : q = FirstOf(I)
      OBVIOUS
    <2>2. q \in I /\ \A i \in I : q <= i
      BY <1>3, <1>5, <2>1, FirstOfLeast
    <2>3. q \in 1 .. Len(r) /\ node.id < r[q].id
      BY <1>1, <2>2
    <2>4. d = InsertAt(r, q, node)
      BY <2>1, <2>3 DEF InsertNode
    <2>5. d \in Rings /\ LinkedIn(r, d, q, node)
      <3>1. r \in Seq(RingNode(Servers)) /\ q \in 1 .. Len(r) + 1
        BY <1>1, <2>3 DEF Rings
      <3> QED BY <2>4, <3>1, InsertLinksIn DEF Rings
    <2>6. \A i \in 1 .. q - 1 : r[i].id < node.id
      BY <1>1, <1>2, <2>2, <2>3
    <2>7. \A i \in q .. Len(r) : node.id < r[i].id
      <3>1. \A i \in q .. Len(r) : i \in 1 .. Len(r) /\ (i = q \/ q < i)
        BY <1>1, <2>3
      <3>2. \A i \in q .. Len(r) : i = q \/ r[q].id < r[i].id
        BY <1>1, <2>3, <3>1 DEF Sorted
      <3> QED BY <1>1, <2>3, <3>1, <3>2
    <2> HIDE DEF d, I
    <2>8. Extends(r, d, node)
      BY <2>5, <2>6, <2>7, InsertedSorted
    <2> QED BY <2>5, <2>8 DEF LinkedIn, d
  <1> QED BY <1>4, <1>5

\* A server that joins: one more node, with an id no other has.
LEMMA ServerJoins ==
    ASSUME NEW r \in Rings, Sorted(r), Len(r) < MaxNodes, NEW s \in Servers
    PROVE  \E e \in RingNode(Servers) :
              /\ e.info = s
              /\ ConhashAddNode(r, s, Hash[s]) \in Rings
              /\ Len(ConhashAddNode(r, s, Hash[s])) = Len(r) + 1
              /\ Extends(r, ConhashAddNode(r, s, Hash[s]), e)
  <1>1. Hash[s] \in Nat /\ Hash[s] < HashBound
    BY ServersAssumption, BoundAssumption
  <1>2. Hash[s] + Len(r) * HASH_INCREMENT < HASH_MAX
    <2> DEFINE here == Len(r) * HASH_INCREMENT
               most == MaxNodes * HASH_INCREMENT
    <2>1. /\ Len(r) \in Nat /\ MaxNodes \in Nat /\ HASH_INCREMENT \in Nat
          /\ Len(r) <= MaxNodes /\ MaxNodes <= MaxNodes
      BY RingShape, BoundAssumption, HashConstants
    <2>2. here \in Nat /\ most \in Nat /\ here <= most
      BY <2>1, Multiples, Zenon
    <2>3. HashBound \in Nat /\ HashBound + most < HASH_MAX /\ HASH_MAX \in Nat
      BY BoundAssumption, HashConstants
    <2> HIDE DEF here, most
    <2>4. Hash[s] + here < HASH_MAX
      BY <1>1, <2>2, <2>3
    <2> QED BY <2>4 DEF here
  <1>3. UniqueId(r, Hash[s]) \in Nat /\ UniqueId(r, Hash[s]) \notin Ids(r)
    BY <1>1, <1>2, UniqueFresh
  <1> DEFINE e == [id |-> UniqueId(r, Hash[s]), info |-> s]
  <1>4. e \in RingNode(Servers) /\ e.id \notin Ids(r) /\ e.info = s
    BY <1>3 DEF RingNode
  <1>5. ConhashAddNode(r, s, Hash[s]) = InsertNode(r, e)
    BY DEF ConhashAddNode
  <1> HIDE DEF e
  <1> QED BY <1>4, <1>5, NodeInserted

\* A node that leaves: the ring was the one left and that node.
LEMMA ServerLeaves ==
    ASSUME NEW r \in Rings, Sorted(r), NEW id \in Ids(r)
    PROVE  \E p \in 1 .. Len(r) :
              /\ r[p].id = id
              /\ ConhashRemoveNode(r, id) \in Rings
              /\ LinkedIn(ConhashRemoveNode(r, id), r, p, r[p])
              /\ Extends(ConhashRemoveNode(r, id), r, r[p])
  <1> DEFINE I == {i \in DOMAIN r : r[i].id = id}
             d == ConhashRemoveNode(r, id)
  <1>1. Len(r) \in Nat /\ DOMAIN r = 1 .. Len(r)
    BY RingShape
  <1>2. I \in SUBSET Nat /\ I # {}
    BY <1>1 DEF Ids
  <1>3. PICK p : p = FirstOf(I)
    OBVIOUS
  <1>4. p \in 1 .. Len(r) /\ r[p].id = id
    BY <1>1, <1>2, <1>3, FirstOfLeast
  <1>5. d = RemoveAt(r, p)
    BY <1>3, <1>4 DEF ConhashRemoveNode
  <1>6. d \in Rings /\ LinkedIn(d, r, p, r[p])
    BY <1>4, <1>5, RemoveUnlinks DEF Rings
  <1> HIDE DEF d, I
  <1>7. Extends(d, r, r[p])
    BY <1>6, RemovedSorted
  <1> QED BY <1>4, <1>6, <1>7 DEF d

-----------------------------------------------------------------------------
(* The ring stays sorted.                                                  *)

\* The inductive invariant: the ids are unique because the pass over a sorted
\* ring finds a new one, and the ring is sorted because the ids are unique.
RingInv == TypeOK /\ RingSorted

LEMMA InvOfRing ==
    RingInv <=> ring \in Rings /\ Sorted(ring) /\ Len(ring) <= MaxNodes
  BY DEF RingInv, TypeOK, RingSorted, Sorted, Rings

LEMMA InitRing ==
    Init => RingInv
  <1> SUFFICES ASSUME Init PROVE RingInv
    OBVIOUS
  <1>1. ring = <<>>
    BY DEF Init
  <1>2. ring \in Rings /\ Len(ring) = 0 /\ DOMAIN ring = {}
    BY <1>1 DEF Rings
  <1> QED BY <1>2, InvOfRing, BoundAssumption DEF Sorted

LEMMA RingInductive ==
    RingInv /\ [Next]_ring => RingInv'
  <1> SUFFICES ASSUME RingInv, [Next]_ring PROVE RingInv'
    OBVIOUS
  <1>1. ring \in Rings /\ Sorted(ring) /\ Len(ring) <= MaxNodes
    BY InvOfRing
  <1>2. ASSUME ring' \in Rings, Sorted(ring'), Len(ring') <= MaxNodes PROVE RingInv'
    BY <1>2 DEF RingInv, TypeOK, RingSorted, Sorted, Rings
  <1>3. ASSUME NEW s \in Servers, Join(s) PROVE RingInv'
    <2>1. Len(ring) < MaxNodes /\ ring' = ConhashAddNode(ring, s, Hash[s])
      BY <1>3 DEF Join
    <2>2. ring' \in Rings /\ Len(ring') = Len(ring) + 1 /\ Sorted(ring')
      BY <1>1, <2>1, ServerJoins DEF Extends
    <2>3. Len(ring') <= MaxNodes
      BY <1>1, <2>1, <2>2, RingShape, BoundAssumption
    <2> QED BY <1>2, <2>2, <2>3
  <1>4. ASSUME NEW id \in Ids(ring), Leave(id) PROVE RingInv'
    <2>1. ring' = ConhashRemoveNode(ring, id)
      BY <1>4 DEF Leave
    <2>2. PICK p \in 1 .. Len(ring) :
            ring' \in Rings /\ LinkedIn(ring', ring, p, ring[p]) /\ Extends(ring', ring, ring[p])
      BY <1>1, <2>1, ServerLeaves
    <2>3. Len(ring') \in Nat /\ Len(ring) = Len(ring') + 1
      BY <2>2, RingShape DEF LinkedIn
    <2>4. Len(ring') <= MaxNodes
      BY <1>1, <2>3, BoundAssumption
    <2> QED BY <1>2, <2>2, <2>4 DEF Extends
  <1>5. CASE UNCHANGED ring
    BY <1>5 DEF RingInv, TypeOK, RingSorted
  <1> QED BY <1>3, <1>4, <1>5 DEF Next

\* The ring is a sequence of nodes, one per server that joined, never more than
\* the bound (conhash.c:49-126).
THEOREM RingTypeCorrect == Spec => []TypeOK
  <1>1. RingInv => TypeOK
    BY DEF RingInv
  <1> QED BY <1>1, InitRing, RingInductive, PTL DEF Spec

\* Ids stay unique and the ring sorted, for every number of servers below the
\* bound and every hash function: the one pass of conhash.c:58-71 is enough.
THEOREM RingStaysSorted == Spec => []RingSorted
  <1>1. RingInv => RingSorted
    BY DEF RingInv
  <1> QED BY <1>1, InitRing, RingInductive, PTL DEF Spec

-----------------------------------------------------------------------------
(* Which node owns a key, without positions.                               *)

\* x has the least id from k on, or no id is and x has the least of all.
IsOwner(r, k, x) ==
    /\ x \in RingNodes(r)
    /\ \/ k <= x.id /\ \A y \in RingNodes(r) : k <= y.id => x.id <= y.id
       \/ \A y \in RingNodes(r) : y.id < k /\ x.id <= y.id

LEMMA RightPosIs ==
    ASSUME NEW r \in Rings, r # <<>>, NEW k \in Nat
    PROVE  /\ RightPos(r, k) \in 1 .. Len(r)
           /\ \/ /\ k <= r[RightPos(r, k)].id
                 /\ \A i \in 1 .. Len(r) : k <= r[i].id => RightPos(r, k) <= i
              \/ /\ RightPos(r, k) = 1
                 /\ \A i \in 1 .. Len(r) : r[i].id < k
  <1> DEFINE I == {i \in DOMAIN r : k <= r[i].id}
  <1>1. /\ Len(r) \in Nat /\ DOMAIN r = 1 .. Len(r) /\ Len(r) >= 1
        /\ \A i \in 1 .. Len(r) : r[i].id \in Nat
    BY RingShape
  <1>2. I \in SUBSET Nat
    BY <1>1
  <1>3. PICK q : q = FirstOf(I)
    OBVIOUS
  <1>4. CASE I = {}
    <2>1. q = 0
      BY <1>2, <1>3, <1>4, FirstOfLeast
    <2>2. RightPos(r, k) = 1
      BY <1>3, <2>1 DEF RightPos
    <2> QED BY <1>1, <1>4, <2>2
  <1>5. CASE I # {}
    <2>1. q \in I /\ \A i \in I : q <= i
      BY <1>2, <1>3, <1>5, FirstOfLeast
    <2>2. q # 0
      BY <1>1, <2>1
    <2>3. RightPos(r, k) = q
      BY <1>3, <2>2 DEF RightPos
    <2> QED BY <1>1, <2>1, <2>3
  <1> QED BY <1>4, <1>5

LEMMA OwnerIs ==
    ASSUME NEW r \in Rings, Sorted(r), r # <<>>, NEW k \in Nat
    PROVE  IsOwner(r, k, Owner(r, k))
  <1>1. PICK q : q = RightPos(r, k)
    OBVIOUS
  <1>2. /\ Len(r) \in Nat /\ DOMAIN r = 1 .. Len(r) /\ Len(r) >= 1
        /\ \A i \in 1 .. Len(r) : r[i].id \in Nat
    BY RingShape
  <1>3. Owner(r, k) = r[q]
    BY <1>1 DEF Owner, ConhashGetNode
  <1>4. q \in 1 .. Len(r)
    BY <1>1, RightPosIs
  <1>5. \A i \in 1 .. Len(r) : q <= i => r[q].id <= r[i].id
    <2>1. \A i \in 1 .. Len(r) : q <= i => q = i \/ q < i
      BY <1>2, <1>4
    <2> QED BY <1>2, <1>4, <2>1 DEF Sorted
  <1>6. CASE k <= r[q].id /\ \A i \in 1 .. Len(r) : k <= r[i].id => q <= i
    BY <1>2, <1>3, <1>4, <1>5, <1>6 DEF IsOwner, RingNodes
  <1>7. CASE q = 1 /\ \A i \in 1 .. Len(r) : r[i].id < k
    <2>1. \A i \in 1 .. Len(r) : r[q].id <= r[i].id
      BY <1>2, <1>5, <1>7
    <2> QED BY <1>2, <1>3, <1>4, <1>7, <2>1 DEF IsOwner, RingNodes
  <1> QED BY <1>1, <1>6, <1>7, RightPosIs

\* Ids tell nodes apart.
LEMMA IdsIdentify ==
    ASSUME NEW r \in Rings, Sorted(r),
           NEW x \in RingNodes(r), NEW y \in RingNodes(r)
    PROVE  /\ x.id \in Nat /\ x.id \in Ids(r)
           /\ x.id = y.id => x = y
  <1>1. /\ Len(r) \in Nat /\ DOMAIN r = 1 .. Len(r)
        /\ \A i \in 1 .. Len(r) : r[i].id \in Nat
    BY RingShape
  <1>2. PICK i \in 1 .. Len(r) : x = r[i]
    BY <1>1 DEF RingNodes
  <1>3. PICK j \in 1 .. Len(r) : y = r[j]
    BY <1>1 DEF RingNodes
  <1>4. i < j \/ i = j \/ j < i
    BY <1>1
  <1> QED BY <1>1, <1>2, <1>3, <1>4 DEF Sorted, Ids

LEMMA OneOwner ==
    ASSUME NEW r \in Rings, Sorted(r), NEW k \in Nat,
           NEW x, IsOwner(r, k, x), NEW y, IsOwner(r, k, y)
    PROVE  x = y
  <1>1. x \in RingNodes(r) /\ y \in RingNodes(r)
    BY DEF IsOwner
  <1>2. x.id \in Nat /\ y.id \in Nat
    BY <1>1, IdsIdentify
  <1>3. x.id = y.id
    BY <1>1, <1>2 DEF IsOwner
  <1> QED BY <1>1, <1>3, IdsIdentify

\* A key is owned by the first id from it on, round the ring (conhash.c:128-151).
THEOREM OwnerCorrect == Spec => []OwnerIsSuccessor
  <1>1. ASSUME RingInv PROVE OwnerIsSuccessor
    <2>1. ring \in Rings /\ Sorted(ring)
      BY <1>1, InvOfRing
    <2> SUFFICES ASSUME ring # <<>>, NEW k \in RingKeys
                 PROVE  LET from == {id \in Ids(ring) : id >= k}
                            candidates == IF from = {} THEN Ids(ring) ELSE from
                        IN  /\ Owner(ring, k).id \in candidates
                            /\ \A id \in candidates : Owner(ring, k).id <= id
      BY DEF OwnerIsSuccessor
    <2>2. PICK x : x = Owner(ring, k)
      OBVIOUS
    <2>3. k \in Nat /\ IsOwner(ring, k, x)
      BY <2>1, <2>2, OwnerIs, RingKeysAssumption
    <2>4. x.id \in Nat /\ x.id \in Ids(ring)
      BY <2>1, <2>3, IdsIdentify DEF IsOwner
    <2>5. \A id \in Ids(ring) : id \in Nat /\ \E y \in RingNodes(ring) : y.id = id
      BY <2>1, RingShape DEF Ids, RingNodes
    <2>6. CASE k <= x.id /\ \A y \in RingNodes(ring) : k <= y.id => x.id <= y.id
      BY <2>2, <2>3, <2>4, <2>5, <2>6
    <2>7. CASE \A y \in RingNodes(ring) : y.id < k /\ x.id <= y.id
      BY <2>2, <2>3, <2>4, <2>5, <2>7
    <2> QED BY <2>3, <2>6, <2>7 DEF IsOwner
  <1> QED BY <1>1, InitRing, RingInductive, PTL DEF Spec

-----------------------------------------------------------------------------
(* Which keys a join and a leave move.                                     *)

LEMMA NonEmpty ==
    ASSUME NEW r \in Rings, NEW x \in RingNodes(r)
    PROVE  r # <<>>
  <1>1. Len(r) \in Nat /\ DOMAIN r = 1 .. Len(r)
    BY RingShape
  <1> QED BY <1>1, RingShape DEF RingNodes

LEMMA JoinOwner ==
    ASSUME NEW c \in Rings, NEW d \in Rings, NEW e, Extends(c, d, e),
           c # <<>>, NEW k \in Nat
    PROVE  Owner(d, k) = Owner(c, k) \/ Owner(d, k).id \notin Ids(c)
  <1>1. PICK x : x = Owner(d, k)
    OBVIOUS
  <1>2. d # <<>>
    BY NonEmpty DEF Extends
  <1>3. IsOwner(d, k, x) /\ IsOwner(c, k, Owner(c, k))
    BY <1>1, <1>2, OwnerIs DEF Extends
  <1>4. CASE x = e
    BY <1>1, <1>4 DEF Extends
  <1>5. CASE x # e
    <2>1. IsOwner(c, k, x)
      BY <1>3, <1>5 DEF IsOwner, Extends
    <2> QED BY <1>1, <1>3, <2>1, OneOwner DEF Extends
  <1> QED BY <1>4, <1>5

\* One step of the iterator, onwards and back.
LEMMA OneStep ==
    ASSUME NEW r \in Rings, NEW p \in 1 .. Len(r)
    PROVE  /\ Steps(r, p, 1) = IF p = Len(r) THEN 1 ELSE p + 1
           /\ Steps(r, p, -1) = IF p = 1 THEN Len(r) ELSE p - 1
  <1>1. PICK n \in Nat : n = Len(r) /\ n >= 1 /\ p \in 1 .. n
    BY RingShape
  <1>2. (p - 1 + 1) % n = IF p = n THEN 0 ELSE p
    BY <1>1
  <1>3. (p - 1 + (-1)) % n = IF p = 1 THEN n - 1 ELSE p - 2
    BY <1>1
  <1> QED BY <1>1, <1>2, <1>3 DEF Steps

\* The positions of the owner and the backup of a key.
PlacedAt(r, k, p, q) ==
    /\ p \in 1 .. Len(r) /\ q \in 1 .. Len(r)
    /\ q = IF p = Len(r) THEN 1 ELSE p + 1
    /\ q # p /\ r[q].id # r[p].id
    /\ Backup(r, k) = r[q] /\ Owner(r, k) = r[p]

LEMMA BackupPos ==
    ASSUME NEW r \in Rings, Sorted(r), Len(r) >= 2, NEW k \in Nat
    PROVE  \E q : PlacedAt(r, k, RightPos(r, k), q)
  <1>0. PICK p : p = RightPos(r, k)
    OBVIOUS
  <1>1. /\ Len(r) \in Nat /\ DOMAIN r = 1 .. Len(r) /\ r # <<>>
        /\ \A i \in 1 .. Len(r) : r[i].id \in Nat
    BY RingShape
  <1>2. p \in 1 .. Len(r)
    BY <1>0, <1>1, RightPosIs
  <1>3. PICK q : q = IF p = Len(r) THEN 1 ELSE p + 1
    OBVIOUS
  <1>4. q \in 1 .. Len(r) /\ q # p /\ (q < p \/ p < q)
    <2>1. PICK n : n = Len(r)
      OBVIOUS
    <2>2. n \in Nat /\ n >= 2 /\ p \in 1 .. n
      BY <1>1, <1>2, <2>1
    <2>3. q = IF p = n THEN 1 ELSE p + 1
      BY <1>3, <2>1
    <2>4. q \in 1 .. n /\ q # p /\ (q < p \/ p < q)
      BY <2>2, <2>3
    <2> QED BY <2>1, <2>4
  <1>5. r[q].id # r[p].id
    BY <1>1, <1>2, <1>4 DEF Sorted
  <1>6. Steps(r, p, 1) = q
    BY <1>2, <1>3, OneStep
  <1>7. Backup(r, k) = r[q] /\ Owner(r, k) = r[p]
    BY <1>0, <1>1, <1>5, <1>6 DEF Backup, Owner, ConhashGetNode, ConhashGetNodeAfter, NodeAway
  <1> QED BY <1>0, <1>2, <1>3, <1>4, <1>5, <1>7 DEF PlacedAt

LEMMA LeaveOwner ==
    ASSUME NEW c \in Rings, NEW d \in Rings, NEW p, LinkedIn(c, d, p, d[p]),
           Extends(c, d, d[p]), c # <<>>, NEW k \in Nat
    PROVE  Owner(c, k) = IF Owner(d, k).id \in Ids(c) THEN Owner(d, k) ELSE Backup(d, k)
  <1>1. PICK x : x = Owner(d, k)
    OBVIOUS
  <1>2. /\ Len(c) \in Nat /\ Len(d) \in Nat /\ DOMAIN d = 1 .. Len(d) /\ Len(c) >= 1
        /\ Len(d) = Len(c) + 1 /\ p \in 1 .. Len(d)
        /\ \A i \in 1 .. Len(d) : d[i].id \in Nat
    BY RingShape DEF LinkedIn
  <1>3. d # <<>> /\ Sorted(c) /\ Sorted(d) /\ d[p].id \notin Ids(c)
        /\ RingNodes(d) = RingNodes(c) \cup {d[p]}
    BY <1>2, RingShape DEF Extends
  <1>4. IsOwner(d, k, x) /\ IsOwner(c, k, Owner(c, k))
    BY <1>1, <1>3, OwnerIs
  <1>5. CASE x # d[p]
    <2>1. IsOwner(c, k, x) /\ x \in RingNodes(c)
      BY <1>3, <1>4, <1>5 DEF IsOwner
    <2>2. x = Owner(c, k) /\ x.id \in Ids(c)
      BY <1>3, <1>4, <2>1, OneOwner, IdsIdentify
    <2> QED BY <1>1, <2>2
  <1>6. CASE x = d[p]
    <2>1. PICK m \in 1 .. Len(d) : m = RightPos(d, k)
      BY <1>3, RightPosIs
    <2>2. PICK q \in 1 .. Len(d) : PlacedAt(d, k, m, q)
      <3>1. Len(d) >= 2
        BY <1>2
      <3>2. \E q : PlacedAt(d, k, m, q)
        BY <1>3, <2>1, <3>1, BackupPos
      <3> QED BY <3>2 DEF PlacedAt
    <2>3. m = p
      <3>1. d[m] = d[p]
        BY <1>1, <1>6, <2>2 DEF PlacedAt
      <3>2. m < p \/ m = p \/ p < m
        BY <1>2
      <3>3. \A i, j \in 1 .. Len(d) : i < j => d[i].id # d[j].id
        <4>1. \A i, j \in 1 .. Len(d) : i < j => d[i].id < d[j].id
          BY <1>2, <1>3 DEF Sorted
        <4> QED BY <1>2, <4>1
      <3> QED BY <1>2, <3>1, <3>2, <3>3
    <2>4. /\ d[q] \in RingNodes(c) /\ d[q] # d[p]
          /\ \A y \in RingNodes(c) : \E i \in 1 .. Len(d) : i # p /\ y = d[i]
      <3>1. \A y \in RingNodes(c) : y # d[p]
        BY <1>3, IdsIdentify
      <3>2. q # m /\ d[q] # d[p] /\ d[q] \in RingNodes(d)
        <4>1. q # m /\ d[q] # d[m]
          BY <2>2 DEF PlacedAt
        <4> QED BY <1>2, <2>3, <4>1 DEF RingNodes
      <3>3. \A y \in RingNodes(c) : \E i \in 1 .. Len(d) : y = d[i]
        BY <1>2, <1>3 DEF RingNodes
      <3> QED BY <1>3, <3>1, <3>2, <3>3
    <2>5. \A i, j \in 1 .. Len(d) : (i <= j => d[i].id <= d[j].id) /\ (i < j => d[i].id < d[j].id)
      <3>1. \A i, j \in 1 .. Len(d) : i <= j => i = j \/ i < j
        BY <1>2
      <3>2. \A i, j \in 1 .. Len(d) : i < j => d[i].id < d[j].id
        BY <1>2, <1>3 DEF Sorted
      <3>3. ASSUME NEW i \in 1 .. Len(d), NEW j \in 1 .. Len(d), i <= j PROVE d[i].id <= d[j].id
        <4>1. CASE i = j
          BY <1>2, <4>1
        <4>2. CASE i < j
          <5>1. d[i].id < d[j].id /\ d[i].id \in Nat /\ d[j].id \in Nat
            BY <1>2, <3>2, <4>2
          <5> QED BY <5>1
        <4> QED BY <3>1, <3>3, <4>1, <4>2
      <3> QED BY <3>2, <3>3
    <2>6. IsOwner(c, k, d[q])
      <3>1. CASE k <= d[m].id /\ \A i \in 1 .. Len(d) : k <= d[i].id => m <= i
        <4>1. CASE m = Len(d)
          <5>1. q = 1 /\ \A i \in 1 .. Len(d) : i # p => d[i].id < k /\ d[q].id <= d[i].id
            BY <1>2, <2>2, <2>3, <2>5, <3>1, <4>1 DEF PlacedAt
          <5> QED BY <2>4, <5>1 DEF IsOwner
        <4>2. CASE m # Len(d)
          <5>1. q = m + 1 /\ k <= d[q].id
            BY <1>2, <2>2, <2>5, <3>1, <4>2 DEF PlacedAt
          <5>2. \A i \in 1 .. Len(d) : i # p /\ k <= d[i].id => d[q].id <= d[i].id
            <6>1. \A i \in 1 .. Len(d) : i # p /\ k <= d[i].id => q <= i
              BY <2>3, <3>1, <5>1
            <6> QED BY <2>5, <6>1
          <5> QED BY <2>4, <5>1, <5>2 DEF IsOwner
        <4> QED BY <4>1, <4>2
      <3>2. CASE m = 1 /\ \A i \in 1 .. Len(d) : d[i].id < k
        <4>1. q = 2 /\ \A i \in 1 .. Len(d) : i # p => q <= i
          BY <1>2, <2>2, <2>3, <3>2 DEF PlacedAt
        <4>2. \A i \in 1 .. Len(d) : i # p => d[q].id <= d[i].id
          BY <2>5, <4>1
        <4> QED BY <2>4, <3>2, <4>2 DEF IsOwner
      <3>3. \/ k <= d[m].id /\ \A i \in 1 .. Len(d) : k <= d[i].id => m <= i
            \/ m = 1 /\ \A i \in 1 .. Len(d) : d[i].id < k
        BY <1>3, <2>1, RightPosIs
      <3> QED BY <3>1, <3>2, <3>3
    <2>7. Owner(c, k) = d[q]
      BY <1>3, <1>4, <2>6, OneOwner
    <2> QED BY <1>1, <1>3, <1>6, <2>2, <2>7 DEF PlacedAt
  <1> QED BY <1>5, <1>6

\* A server that joins takes keys over only for itself (conhash.c:49-103): no
\* key changes hands between two servers that were in the ring.
THEOREM JoinTakesOnlyItsKeys == Spec => JoinTakesOnly
  <1>1. ASSUME RingInv, [Next]_ring PROVE [JoinMoves]_ring
    <2>1. ring \in Rings /\ Sorted(ring) /\ Len(ring) \in Nat
      BY <1>1, InvOfRing, RingShape
    <2>2. ASSUME NEW s \in Servers, Join(s) PROVE JoinMoves
      <3>1. Len(ring) < MaxNodes /\ ring' = ConhashAddNode(ring, s, Hash[s])
        BY <2>2 DEF Join
      <3>2. PICK e : ring' \in Rings /\ Extends(ring, ring', e)
        BY <2>1, <3>1, ServerJoins
      <3>3. PICK d \in Rings : d = ring' /\ Extends(ring, d, e)
        BY <3>2
      <3>4. ring # <<>> => \A k \in RingKeys :
              Owner(d, k) = Owner(ring, k) \/ Owner(d, k).id \notin Ids(ring)
        BY <2>1, <3>3, JoinOwner, RingKeysAssumption
      <3> QED BY <3>3, <3>4 DEF JoinMoves
    <2>3. ASSUME NEW id \in Ids(ring), Leave(id) PROVE JoinMoves
      <3>1. ring' = ConhashRemoveNode(ring, id)
        BY <2>3 DEF Leave
      <3>2. PICK p : ring' \in Rings /\ Extends(ring', ring, ring[p])
        BY <2>1, <3>1, ServerLeaves
      <3>3. PICK c \in Rings : c = ring' /\ RingNodes(c) \subseteq RingNodes(ring)
        BY <3>2 DEF Extends
      <3>4. Ids(c) \subseteq Ids(ring)
        BY <3>3 DEF Ids, RingNodes
      <3> QED BY <3>3, <3>4 DEF JoinMoves
    <2> QED BY <1>1, <2>2, <2>3 DEF Next
  <1> QED BY <1>1, InitRing, RingInductive, PTL DEF Spec, JoinTakesOnly

\* When a server leaves (conhash.c:108-126), its keys go to the server that holds
\* their copies, and no other key moves.
THEOREM LeaveGivesToBackup == Spec => LeaveGoesToBackup
  <1>1. ASSUME RingInv, [Next]_ring PROVE [LeaveMoves]_ring
    <2>1. ring \in Rings /\ Sorted(ring) /\ Len(ring) \in Nat
      BY <1>1, InvOfRing, RingShape
    <2>2. ASSUME NEW s \in Servers, Join(s) PROVE LeaveMoves
      <3>1. Len(ring) < MaxNodes /\ ring' = ConhashAddNode(ring, s, Hash[s])
        BY <2>2 DEF Join
      <3>2. Len(ring') = Len(ring) + 1
        BY <2>1, <3>1, ServerJoins
      <3> QED BY <2>1, <3>2 DEF LeaveMoves
    <2>3. ASSUME NEW id \in Ids(ring), Leave(id) PROVE LeaveMoves
      <3>1. ring' = ConhashRemoveNode(ring, id)
        BY <2>3 DEF Leave
      <3>2. PICK p : /\ ring' \in Rings /\ LinkedIn(ring', ring, p, ring[p])
                     /\ Extends(ring', ring, ring[p])
        BY <2>1, <3>1, ServerLeaves
      <3>3. PICK c \in Rings : /\ c = ring' /\ LinkedIn(c, ring, p, ring[p])
                               /\ Extends(c, ring, ring[p])
        BY <3>2
      <3>4. c # <<>> => \A k \in RingKeys :
              Owner(c, k) = IF Owner(ring, k).id \in Ids(c)
                            THEN Owner(ring, k) ELSE Backup(ring, k)
        BY <2>1, <3>3, LeaveOwner, RingKeysAssumption
      <3> QED BY <3>3, <3>4 DEF LeaveMoves
    <2> QED BY <1>1, <2>2, <2>3 DEF Next
  <1> QED BY <1>1, InitRing, RingInductive, PTL DEF Spec, LeaveGoesToBackup

\* Searching for an id of the ring finds its node.
LEMMA RightPosOfId ==
    ASSUME NEW r \in Rings, Sorted(r), NEW q \in 1 .. Len(r)
    PROVE  RightPos(r, r[q].id) = q
  <1>1. /\ Len(r) \in Nat /\ DOMAIN r = 1 .. Len(r) /\ r # <<>>
        /\ \A i \in 1 .. Len(r) : r[i].id \in Nat
    BY RingShape
  <1>2. PICK k \in Nat : k = r[q].id
    BY <1>1
  <1>3. PICK p \in 1 .. Len(r) :
          /\ p = RightPos(r, k)
          /\ \/ k <= r[p].id /\ \A i \in 1 .. Len(r) : k <= r[i].id => p <= i
             \/ p = 1 /\ \A i \in 1 .. Len(r) : r[i].id < k
    BY <1>1, RightPosIs
  <1>4. k <= r[p].id /\ p <= q
    BY <1>1, <1>2, <1>3
  <1>5. ~ (p < q)
    BY <1>1, <1>2, <1>4 DEF Sorted
  <1> QED BY <1>1, <1>2, <1>3, <1>4, <1>5

\* With two servers every key has its copy on another server, and the node before
\* the backup is the owner (conhash.c:153-231): where a server's keys are copied
\* to and where its own copies come from agree.
THEOREM BackupCorrect == Spec => []BackupIsNext
  <1>1. ASSUME RingInv PROVE BackupIsNext
    <2>1. ring \in Rings /\ Sorted(ring)
      BY <1>1, InvOfRing
    <2> SUFFICES ASSUME Len(ring) >= 2, NEW k \in RingKeys
                 PROVE  /\ Backup(ring, k) # NULL /\ Backup(ring, k) # Owner(ring, k)
                        /\ ConhashGetNodeBefore(ring, Backup(ring, k).id, 1) = Owner(ring, k)
      BY DEF BackupIsNext
    <2>2. PICK p, q : PlacedAt(ring, k, p, q)
      BY <2>1, BackupPos, RingKeysAssumption
    <2>3. /\ ring # <<>> /\ Len(ring) \in Nat
          /\ p \in 1 .. Len(ring) /\ q \in 1 .. Len(ring)
          /\ ring[q] \in RingNode(Servers) /\ ring[q].id # ring[p].id
          /\ Backup(ring, k) = ring[q] /\ Owner(ring, k) = ring[p]
      BY <2>1, <2>2, RingShape DEF PlacedAt
    <2>4. RightPos(ring, ring[q].id) = q
      BY <2>1, <2>3, RightPosOfId
    <2>5. Steps(ring, q, -1) = p
      <3>1. Steps(ring, q, -1) = IF q = 1 THEN Len(ring) ELSE q - 1
        BY <2>1, <2>3, OneStep
      <3>2. p = IF q = 1 THEN Len(ring) ELSE q - 1
        <4>1. CASE p = Len(ring)
          BY <2>2, <4>1 DEF PlacedAt
        <4>2. CASE p # Len(ring)
          BY <2>2, <2>3, <4>2 DEF PlacedAt
        <4> QED BY <4>1, <4>2
      <3> QED BY <3>1, <3>2
    <2>6. ConhashGetNodeBefore(ring, ring[q].id, 1) = ring[p]
      BY <2>3, <2>4, <2>5 DEF ConhashGetNodeBefore, NodeAway
    <2> QED BY <2>3, <2>6, NullAssumption
  <1> QED BY <1>1, InitRing, RingInductive, PTL DEF Spec

-----------------------------------------------------------------------------
(* The ring is kept in the circular list of src/linklist.c, and ConHash    *)
(* takes that for a sequence.  That it is one is proved here of the list   *)
(* of LinkListSpec, circular or not.                                       *)

\* What the pointers of the node at position i of s must be, in a circular list and
\* in one that is not.
NextIn(s, circ, i) == IF i < Len(s) THEN s[i + 1] ELSE IF circ THEN s[1] ELSE NullPtr
PrevIn(s, circ, i) == IF i > 1 THEN s[i - 1] ELSE IF circ THEN s[Len(s)] ELSE NullPtr

Injective(s) == \A i, j \in 1 .. Len(s) : s[i] = s[j] => i = j

Memory == [Addr -> NodeOf(Data) \cup {Free}]

\* The list l has the nodes of s, in order.
IsList(l, circ, s) ==
    /\ s \in Seq(Addr) /\ Injective(s)
    /\ l = [cnt |-> Len(s), first |-> l.first, last |-> l.last, node |-> l.node]
    /\ l.first \in Pointer /\ l.last \in Pointer /\ l.node \in Memory
    /\ \A a \in Addr : l.node[a] # Free <=> \E i \in 1 .. Len(s) : s[i] = a
    /\ \A i \in 1 .. Len(s) :
          /\ l.node[s[i]].next = NextIn(s, circ, i)
          /\ l.node[s[i]].prev = PrevIn(s, circ, i)
    /\ Len(s) > 0 => l.first = s[1] /\ l.last = s[Len(s)]
    /\ Len(s) = 0 /\ ~ circ => l.first = NullPtr /\ l.last = NullPtr

\* The neighbours of a node whose sequence another was put into.
LEMMA Neighbours ==
    ASSUME NullPtr \notin Addr, NEW c \in Seq(Addr), NEW d \in Seq(Addr), NEW p, NEW new,
           LinkedIn(c, d, p, new), Injective(d), NEW circ \in BOOLEAN,
           NEW j \in 1 .. Len(c), NEW i, i = IF j < p THEN j ELSE j + 1
    PROVE  /\ i \in 1 .. Len(d) /\ i # p /\ d[i] = c[j]
           /\ NextIn(d, circ, i) =
                 IF c[j] = PrevIn(d, circ, p) THEN new ELSE NextIn(c, circ, j)
           /\ PrevIn(d, circ, i) =
                 IF c[j] = NextIn(d, circ, p) THEN new ELSE PrevIn(c, circ, j)
           /\ c[j] = PrevIn(d, circ, p) => NextIn(c, circ, j) = NextIn(d, circ, p)
           /\ c[j] = NextIn(d, circ, p) => PrevIn(c, circ, j) = PrevIn(d, circ, p)
  <1> DEFINE n == Len(c)
  <1>1. /\ n \in Nat /\ Len(d) = n + 1 /\ p \in 1 .. n + 1 /\ n >= 1
        /\ \A x \in 1 .. n : c[x] \in Addr
        /\ \A x \in 1 .. n + 1 : d[x] \in Addr
        /\ \A x \in 1 .. n + 1 : d[x] = IF x < p THEN c[x] ELSE IF x = p THEN new ELSE c[x - 1]
    BY LenProperties DEF LinkedIn
  <1>2. i \in 1 .. n + 1 /\ i # p /\ d[i] = c[j]
    BY <1>1
  <1>3. \A x, y \in 1 .. n + 1 : d[x] = d[y] => x = y
    BY <1>1 DEF Injective
  <1>4. d[p] = new
    BY <1>1
  <1> HIDE DEF n
  <1>5. /\ NextIn(d, circ, i) = IF i < n + 1 THEN d[i + 1] ELSE IF circ THEN d[1] ELSE NullPtr
        /\ PrevIn(d, circ, i) = IF i > 1 THEN d[i - 1] ELSE IF circ THEN d[n + 1] ELSE NullPtr
        /\ NextIn(d, circ, p) = IF p < n + 1 THEN d[p + 1] ELSE IF circ THEN d[1] ELSE NullPtr
        /\ PrevIn(d, circ, p) = IF p > 1 THEN d[p - 1] ELSE IF circ THEN d[n + 1] ELSE NullPtr
        /\ NextIn(c, circ, j) = IF j < n THEN c[j + 1] ELSE IF circ THEN c[1] ELSE NullPtr
        /\ PrevIn(c, circ, j) = IF j > 1 THEN c[j - 1] ELSE IF circ THEN c[n] ELSE NullPtr
    BY <1>1 DEF NextIn, PrevIn, n
  \* The position before p, and that behind it, round the ring.
  <1> DEFINE before == IF p > 1 THEN p - 1 ELSE n + 1
             behind == IF p < n + 1 THEN p + 1 ELSE 1
  <1>6. /\ before \in 1 .. n + 1 /\ behind \in 1 .. n + 1
        /\ p > 1 \/ circ => PrevIn(d, circ, p) = d[before]
        /\ p = 1 /\ ~ circ => PrevIn(d, circ, p) = NullPtr
        /\ p < n + 1 \/ circ => NextIn(d, circ, p) = d[behind]
        /\ p = n + 1 /\ ~ circ => NextIn(d, circ, p) = NullPtr
    BY <1>1, <1>5
  <1>7. /\ c[j] = PrevIn(d, circ, p) <=> i = before /\ (p > 1 \/ circ)
        /\ c[j] = NextIn(d, circ, p) <=> i = behind /\ (p < n + 1 \/ circ)
    <2>1. d[i] # NullPtr
      BY <1>1, <1>2
    <2> QED BY <1>1, <1>2, <1>3, <1>6, <2>1
  <1>8. NextIn(d, circ, i) = IF i = before /\ (p > 1 \/ circ) THEN new ELSE NextIn(c, circ, j)
    <2>1. CASE i = p - 1
      BY <1>1, <1>2, <1>4, <1>5, <2>1
    <2>2. CASE i = n + 1
      BY <1>1, <1>2, <1>4, <1>5, <2>2
    <2>3. CASE i # p - 1 /\ i # n + 1
      <3>1. CASE j < p
        BY <1>1, <1>2, <1>5, <2>3, <3>1
      <3>2. CASE j >= p
        BY <1>1, <1>2, <1>5, <2>3, <3>2
      <3> QED BY <1>1, <3>1, <3>2
    <2> QED BY <2>1, <2>2, <2>3
  <1>9. PrevIn(d, circ, i)
        = IF i = behind /\ (p < n + 1 \/ circ) THEN new ELSE PrevIn(c, circ, j)
    <2>1. CASE i = p + 1
      BY <1>1, <1>2, <1>4, <1>5, <2>1
    <2>2. CASE i = 1
      BY <1>1, <1>2, <1>4, <1>5, <2>2
    <2>3. CASE i # p + 1 /\ i # 1
      <3>1. CASE j < p
        BY <1>1, <1>2, <1>5, <2>3, <3>1
      <3>2. CASE j >= p
        BY <1>1, <1>2, <1>5, <2>3, <3>2
      <3> QED BY <1>1, <3>1, <3>2
    <2> QED BY <2>1, <2>2, <2>3
  <1>10. i = before /\ (p > 1 \/ circ) => NextIn(c, circ, j) = NextIn(d, circ, p)
    BY <1>1, <1>2, <1>5
  <1>11. i = behind /\ (p < n + 1 \/ circ) => PrevIn(c, circ, j) = PrevIn(d, circ, p)
    BY <1>1, <1>2, <1>5
  <1> HIDE DEF before, behind
  <1> QED BY <1>1, <1>2, <1>7, <1>8, <1>9, <1>10, <1>11

\* What Spelled reads off the pointers is the sequence.
LEMMA SpelledIs ==
    ASSUME NEW s, IsList(list, circular, s)
    PROVE  Spelled = s
  <1> DEFINE n == Len(s)
             Follow(at, i) == IF i = 1 THEN list.first
                              ELSE IF at[i - 1] \in Nodes(list)
                                   THEN list.node[at[i - 1]].next ELSE NullPtr
             at == CHOOSE f : f = [i \in 1 .. n |-> Follow(f, i)]
  <1>1. n \in Nat /\ s \in [1 .. n -> Addr] /\ list.cnt = n
    BY LenProperties DEF IsList
  <1>2. ASSUME NEW i \in 1 .. n PROVE s[i] = Follow(s, i)
    <2>1. CASE i = 1
      BY <1>1, <2>1 DEF IsList
    <2>2. CASE i # 1
      <3>1. i - 1 \in 1 .. n /\ i - 1 < n /\ (i - 1) + 1 = i
        BY <1>1, <2>2
      <3>2. s[i - 1] \in Nodes(list)
        BY <1>1, <3>1 DEF IsList, Nodes
      <3>3. list.node[s[i - 1]].next = s[i]
        BY <3>1 DEF IsList, NextIn
      <3> QED BY <2>2, <3>2, <3>3
    <2> QED BY <2>1, <2>2
  <1>3. s = [i \in 1 .. n |-> Follow(s, i)]
    <2> HIDE DEF Follow
    <2> QED BY <1>1, <1>2
  <1>4. at = [i \in 1 .. n |-> Follow(at, i)]
    BY <1>3
  <1>5. Spelled = at
    BY <1>1 DEF Spelled
  <1> HIDE DEF at
  <1>6. \A i \in 1 .. n : at[i] = Follow(at, i)
    <2> HIDE DEF Follow
    <2> QED BY <1>4
  <1> DEFINE T == {i \in 0 .. n : i = 0 \/ at[i] = s[i]}
  <1>7. 0 \in T
    BY <1>1
  <1>8. ASSUME NEW i \in 1 .. n, i - 1 \in T PROVE i \in T
    <2>1. at[i] = Follow(at, i) /\ s[i] = Follow(s, i)
      BY <1>2, <1>6
    <2>2. i # 1 => at[i - 1] = s[i - 1]
      BY <1>8
    <2>3. at[i] = s[i]
      BY <2>1, <2>2
    <2> QED BY <2>3
  <1> HIDE DEF T
  <1>9. \A i \in 0 .. n : i \in T
    BY <1>1, <1>7, <1>8, Upwards
  <1>10. \A i \in 1 .. n : at[i] = s[i]
    BY <1>9 DEF T
  <1> HIDE DEF n, Follow
  <1> QED BY <1>1, <1>4, <1>5, <1>10

\* l becomes m by linking in a node at new, between those at P and N.
Joined(l, m, new, d, P, N) ==
    /\ m = [cnt |-> l.cnt + 1, first |-> m.first, last |-> m.last, node |-> m.node]
    /\ m.node \in Memory
    /\ m.node[new] # Free
    /\ m.node[new].prev = P /\ m.node[new].next = N /\ m.node[new].data = d
    /\ \A a \in Addr \ {new} :
          /\ m.node[a] = Free <=> l.node[a] = Free
          /\ l.node[a] # Free =>
                /\ m.node[a].next = IF a = P THEN new ELSE l.node[a].next
                /\ m.node[a].prev = IF a = N THEN new ELSE l.node[a].prev
                /\ m.node[a].data = l.node[a].data

\* l becomes m by taking out the node at old, between those at P and N.
Parted(l, m, old, P, N) ==
    /\ m = [cnt |-> l.cnt - 1, first |-> m.first, last |-> m.last, node |-> m.node]
    /\ m.node \in Memory
    /\ m.node[old] = Free
    /\ \A a \in Addr \ {old} :
          /\ m.node[a] = Free <=> l.node[a] = Free
          /\ l.node[a] # Free =>
                /\ m.node[a].next = IF a = P THEN N ELSE l.node[a].next
                /\ m.node[a].prev = IF a = N THEN P ELSE l.node[a].prev
                /\ m.node[a].data = l.node[a].data

\* Where the element at j goes when another is put in at p, and where one at i was.
Up(p, j)   == IF j < p THEN j ELSE j + 1
Down(p, i) == IF i < p THEN i ELSE i - 1

\* The positions of a sequence and of one with another element put in.
ShiftedBy(c, d, p, e) ==
    /\ Len(c) \in Nat /\ Len(d) = Len(c) + 1 /\ p \in 1 .. Len(d) /\ d[p] = e
    /\ \A j \in 1 .. Len(c) :
          Up(p, j) \in 1 .. Len(d) /\ Up(p, j) # p /\ d[Up(p, j)] = c[j]
    /\ \A i \in 1 .. Len(d) : i # p =>
          Down(p, i) \in 1 .. Len(c) /\ i = Up(p, Down(p, i)) /\ d[i] = c[Down(p, i)]
    /\ Injective(d) <=> Injective(c) /\ \A j \in 1 .. Len(c) : c[j] # e

LEMMA PlacesShift ==
    ASSUME NEW S, NEW c \in Seq(S), NEW d \in Seq(S), NEW p, NEW new, LinkedIn(c, d, p, new)
    PROVE  ShiftedBy(c, d, p, new)
  <1> DEFINE n == Len(c)
  <1>1. /\ n \in Nat /\ Len(d) = n + 1 /\ p \in 1 .. n + 1
        /\ \A x \in 1 .. n + 1 : d[x] = IF x < p THEN c[x] ELSE IF x = p THEN new ELSE c[x - 1]
    BY LenProperties DEF LinkedIn
  <1> HIDE DEF n
  <1>2. ASSUME NEW j \in 1 .. n
        PROVE  Up(p, j) \in 1 .. n + 1 /\ Up(p, j) # p /\ d[Up(p, j)] = c[j]
    <2>1. CASE j < p
      BY <1>1, <2>1 DEF Up
    <2>2. CASE ~ (j < p)
      BY <1>1, <2>2 DEF Up
    <2> QED BY <2>1, <2>2
  <1>3. ASSUME NEW i \in 1 .. n + 1, i # p
        PROVE  Down(p, i) \in 1 .. n /\ i = Up(p, Down(p, i)) /\ d[i] = c[Down(p, i)]
    <2>1. CASE i < p
      BY <1>1, <2>1 DEF Up, Down
    <2>2. CASE ~ (i < p)
      BY <1>1, <1>3, <2>2 DEF Up, Down
    <2> QED BY <2>1, <2>2
  <1>4. d[p] = new
    BY <1>1
  <1>5. ASSUME Injective(d) PROVE Injective(c) /\ \A j \in 1 .. n : c[j] # new
    <2>1. \A x, y \in 1 .. n + 1 : d[x] = d[y] => x = y
      BY <1>1, <1>5 DEF Injective
    <2>2. ASSUME NEW x \in 1 .. n, NEW y \in 1 .. n, c[x] = c[y] PROVE x = y
      <3>1. Up(p, x) = Up(p, y)
        BY <1>2, <2>1, <2>2
      <3> QED BY <1>1, <3>1 DEF Up
    <2>3. ASSUME NEW x \in 1 .. n PROVE c[x] # new
      BY <1>1, <1>2, <1>4, <2>1
    <2> QED BY <2>2, <2>3 DEF Injective, n
  <1>6. ASSUME Injective(c), \A j \in 1 .. n : c[j] # new PROVE Injective(d)
    <2>1. \A x, y \in 1 .. n : c[x] = c[y] => x = y
      BY <1>6 DEF Injective, n
    <2>2. ASSUME NEW x \in 1 .. n + 1, NEW y \in 1 .. n + 1, d[x] = d[y], x # p, y # p
          PROVE  x = y
      <3>1. Down(p, x) = Down(p, y) /\ x = Up(p, Down(p, x)) /\ y = Up(p, Down(p, y))
        BY <1>3, <2>1, <2>2
      <3> QED BY <3>1
    <2>3. ASSUME NEW x \in 1 .. n + 1, x # p PROVE d[x] # d[p]
      <3> QED BY <1>3, <1>4, <1>6, <2>3
    <2>4. \A x, y \in 1 .. n + 1 : d[x] = d[y] => x = y
      BY <2>2, <2>3
    <2> QED BY <1>1, <2>4 DEF Injective
  <1> QED BY <1>1, <1>2, <1>3, <1>4, <1>5, <1>6 DEF n, ShiftedBy

\* The two have the same elements but for the one put in.
Has(s, a) == \E i \in 1 .. Len(s) : s[i] = a
SameBut(c, d, e) == \A a : a # e => (Has(c, a) <=> Has(d, a))

LEMMA SameElements ==
    ASSUME NEW S, NEW c \in Seq(S), NEW d \in Seq(S), NEW p, NEW new, LinkedIn(c, d, p, new)
    PROVE  SameBut(c, d, new)
  <1> SUFFICES ASSUME NEW a, a # new PROVE Has(c, a) <=> Has(d, a)
    BY DEF SameBut
  <1>1. ShiftedBy(c, d, p, new)
    BY PlacesShift, Zenon
  <1>2. ASSUME NEW i \in 1 .. Len(c), c[i] = a PROVE \E j \in 1 .. Len(d) : d[j] = a
    <2>1. Up(p, i) \in 1 .. Len(d) /\ d[Up(p, i)] = a
      BY <1>1, <1>2 DEF ShiftedBy
    <2> QED BY <2>1
  <1>3. ASSUME NEW i \in 1 .. Len(d), d[i] = a PROVE \E j \in 1 .. Len(c) : c[j] = a
    <2>1. i # p
      BY <1>1, <1>3 DEF ShiftedBy
    <2>2. Down(p, i) \in 1 .. Len(c) /\ c[Down(p, i)] = a
      BY <1>1, <1>3, <2>1 DEF ShiftedBy
    <2> QED BY <2>2
  <1> QED BY <1>2, <1>3 DEF Has

\* A list stays one when a node is linked in between its neighbours.
LEMMA JoinedIsList ==
    ASSUME NullPtr \notin Addr, Free \notin NodeOf(Data), NEW circ \in BOOLEAN,
           NEW l, NEW s \in Seq(Addr), IsList(l, circ, s),
           NEW t \in Seq(Addr), NEW p, NEW new \in Addr, l.node[new] = Free,
           LinkedIn(s, t, p, new),
           NEW m, NEW d \in Data, Joined(l, m, new, d, PrevIn(t, circ, p), NextIn(t, circ, p)),
           m.first = t[1], m.last = t[Len(t)]
    PROVE  IsList(m, circ, t)
  <1>1. ShiftedBy(s, t, p, new)
    BY PlacesShift, Zenon
  <1>2. /\ l.cnt = Len(s)
        /\ \A a \in Addr : l.node[a] # Free <=> \E i \in 1 .. Len(s) : s[i] = a
        /\ \A j \in 1 .. Len(s) : /\ l.node[s[j]].next = NextIn(s, circ, j)
                                  /\ l.node[s[j]].prev = PrevIn(s, circ, j)
    BY DEF IsList
  <1>3. /\ \A j \in 1 .. Len(s) : s[j] \in Addr
        /\ \A j \in 1 .. Len(t) : t[j] \in Addr
    BY LenProperties
  <1>4. \A j \in 1 .. Len(s) : l.node[s[j]] # Free /\ s[j] # new
    BY <1>2, <1>3
  <1>5. Injective(t)
    BY <1>1, <1>4 DEF IsList, ShiftedBy
  <1>6. m = [cnt |-> Len(t), first |-> m.first, last |-> m.last, node |-> m.node]
    BY <1>1, <1>2 DEF Joined, ShiftedBy
  <1>7. m.first \in Pointer /\ m.last \in Pointer /\ m.node \in Memory
    BY <1>1, <1>3 DEF Joined, Pointer, ShiftedBy
  <1>8. m.node[new] # Free
    BY DEF Joined
  <1>9. ASSUME NEW a \in Addr PROVE m.node[a] # Free <=> \E i \in 1 .. Len(t) : t[i] = a
    <2>1. CASE a = new
      BY <1>1, <1>8, <2>1 DEF ShiftedBy
    <2>2. CASE a # new
      <3>1. m.node[a] # Free <=> Has(s, a)
        BY <1>2, <2>2 DEF Joined, Has
      <3>2. SameBut(s, t, new)
        BY SameElements, Zenon
      <3>3. m.node[a] # Free <=> Has(t, a)
        BY <2>2, <3>1, <3>2 DEF SameBut
      <3> QED BY <3>3 DEF Has
    <2> QED BY <2>1, <2>2
  <1>10. ASSUME NEW i \in 1 .. Len(t)
         PROVE  m.node[t[i]].next = NextIn(t, circ, i) /\ m.node[t[i]].prev = PrevIn(t, circ, i)
    <2>1. CASE i = p
      BY <1>1, <2>1 DEF Joined, ShiftedBy
    <2>2. CASE i # p
      <3>1. PICK j : j = Down(p, i)
        OBVIOUS
      <3>2. j \in 1 .. Len(s) /\ i = (IF j < p THEN j ELSE j + 1) /\ t[i] = s[j]
        BY <1>1, <2>2, <3>1 DEF Up, ShiftedBy
      <3>3. /\ NextIn(t, circ, i) =
                 IF s[j] = PrevIn(t, circ, p) THEN new ELSE NextIn(s, circ, j)
            /\ PrevIn(t, circ, i) =
                 IF s[j] = NextIn(t, circ, p) THEN new ELSE PrevIn(s, circ, j)
        BY <1>5, <3>2, Neighbours
      <3>4. s[j] \in Addr \ {new} /\ l.node[s[j]] # Free
        BY <1>3, <1>4, <3>2
      <3>5. /\ m.node[s[j]].next = IF s[j] = PrevIn(t, circ, p) THEN new ELSE l.node[s[j]].next
            /\ m.node[s[j]].prev = IF s[j] = NextIn(t, circ, p) THEN new ELSE l.node[s[j]].prev
        BY <3>4 DEF Joined
      <3> QED BY <1>2, <3>2, <3>3, <3>5
    <2> QED BY <2>1, <2>2
  <1> QED BY <1>1, <1>5, <1>6, <1>7, <1>9, <1>10 DEF IsList, ShiftedBy

\* And when a node is taken out from between its neighbours.
LEMMA PartedIsList ==
    ASSUME NullPtr \notin Addr, Free \notin NodeOf(Data), NEW circ \in BOOLEAN,
           NEW l, NEW t \in Seq(Addr), IsList(l, circ, t),
           NEW s \in Seq(Addr), NEW p, NEW old \in Addr, LinkedIn(s, t, p, old),
           NEW m, Parted(l, m, old, PrevIn(t, circ, p), NextIn(t, circ, p)),
           m.first \in Pointer, m.last \in Pointer,
           Len(s) > 0 => m.first = s[1] /\ m.last = s[Len(s)],
           Len(s) = 0 /\ ~ circ => m.first = NullPtr /\ m.last = NullPtr
    PROVE  IsList(m, circ, s)
  <1>1. ShiftedBy(s, t, p, old)
    BY PlacesShift, Zenon
  <1>2. /\ l.cnt = Len(t)
        /\ \A a \in Addr : l.node[a] # Free <=> \E i \in 1 .. Len(t) : t[i] = a
        /\ \A j \in 1 .. Len(t) : /\ l.node[t[j]].next = NextIn(t, circ, j)
                                  /\ l.node[t[j]].prev = PrevIn(t, circ, j)
        /\ Injective(t)
    BY DEF IsList
  <1>3. /\ \A j \in 1 .. Len(s) : s[j] \in Addr
        /\ \A j \in 1 .. Len(t) : t[j] \in Addr
    BY LenProperties
  <1>4. Injective(s) /\ \A j \in 1 .. Len(s) : s[j] # old
    BY <1>1, <1>2 DEF ShiftedBy
  <1>5. /\ m = [cnt |-> Len(s), first |-> m.first, last |-> m.last, node |-> m.node]
        /\ m.node \in Memory
    BY <1>1, <1>2 DEF Parted, ShiftedBy
  <1>6. ASSUME NEW a \in Addr PROVE m.node[a] # Free <=> \E i \in 1 .. Len(s) : s[i] = a
    <2>1. CASE a = old
      BY <1>4, <2>1 DEF Parted
    <2>2. CASE a # old
      <3>1. m.node[a] # Free <=> Has(t, a)
        BY <1>2, <2>2 DEF Parted, Has
      <3>2. SameBut(s, t, old)
        BY SameElements, Zenon
      <3>3. m.node[a] # Free <=> Has(s, a)
        BY <2>2, <3>1, <3>2 DEF SameBut
      <3> QED BY <3>3 DEF Has
    <2> QED BY <2>1, <2>2
  <1>7. ASSUME NEW j \in 1 .. Len(s)
        PROVE  m.node[s[j]].next = NextIn(s, circ, j) /\ m.node[s[j]].prev = PrevIn(s, circ, j)
    <2>1. PICK i : i = IF j < p THEN j ELSE j + 1
      OBVIOUS
    <2>2. i \in 1 .. Len(t) /\ t[i] = s[j]
      BY <1>1, <2>1 DEF Up, ShiftedBy
    <2>3. /\ NextIn(t, circ, i) =
               IF s[j] = PrevIn(t, circ, p) THEN old ELSE NextIn(s, circ, j)
          /\ PrevIn(t, circ, i) =
               IF s[j] = NextIn(t, circ, p) THEN old ELSE PrevIn(s, circ, j)
          /\ s[j] = PrevIn(t, circ, p) => NextIn(s, circ, j) = NextIn(t, circ, p)
          /\ s[j] = NextIn(t, circ, p) => PrevIn(s, circ, j) = PrevIn(t, circ, p)
      BY <1>2, <2>1, Neighbours
    <2>4. s[j] \in Addr \ {old} /\ l.node[s[j]] # Free
      BY <1>2, <1>3, <1>4, <2>2
    <2>5. /\ m.node[s[j]].next
             = IF s[j] = PrevIn(t, circ, p) THEN NextIn(t, circ, p) ELSE l.node[s[j]].next
          /\ m.node[s[j]].prev
             = IF s[j] = NextIn(t, circ, p) THEN PrevIn(t, circ, p) ELSE l.node[s[j]].prev
      BY <2>4 DEF Parted
    <2> QED BY <1>2, <2>2, <2>3, <2>5
  <1> QED BY <1>4, <1>5, <1>6, <1>7 DEF IsList

-----------------------------------------------------------------------------
(* What the functions of linklist.c do to the memory.                      *)

\* The heads and memories of lists.
Store == [cnt : Nat, first : Pointer, last : Pointer, node : Memory]

NewIn(f, new, d)    == [f EXCEPT ![new] = [prev |-> NullPtr, data |-> d, next |-> NullPtr]]
NextSet(f, a, x)    == [f EXCEPT ![a].next = x]
PrevSet(f, a, x)    == [f EXCEPT ![a].prev = x]

\* From f to g the node at a has got x as its next, and that at b has got y as its
\* previous.
Wrote(f, g, a, x, b, y) ==
    /\ g \in Memory
    /\ \A c \in Addr :
          /\ g[c] = Free <=> f[c] = Free
          /\ f[c] # Free => /\ g[c].next = IF c = a THEN x ELSE f[c].next
                            /\ g[c].prev = IF c = b THEN y ELSE f[c].prev
                            /\ g[c].data = f[c].data

\* What one write to a node, and a new node, do to the memory.
LEMMA NextWritten ==
    ASSUME NullPtr \notin Addr, Free \notin NodeOf(Data), NEW f \in Memory,
           NEW a \in Addr, f[a] # Free, NEW x \in Pointer
    PROVE  Wrote(f, NextSet(f, a, x), a, x, NullPtr, NullPtr)
  <1>1. f[a] \in NodeOf(Data)
    BY DEF Memory
  <1>2. PICK e : e = [f[a] EXCEPT !.next = x]
    OBVIOUS
  <1>3. e \in NodeOf(Data) /\ e.next = x /\ e.prev = f[a].prev /\ e.data = f[a].data
    BY <1>1, <1>2 DEF NodeOf
  <1>4. NextSet(f, a, x) = [f EXCEPT ![a] = e]
    BY <1>2 DEF NextSet
  <1> QED BY <1>3, <1>4 DEF Memory, Wrote

LEMMA PrevWritten ==
    ASSUME NullPtr \notin Addr, Free \notin NodeOf(Data), NEW f \in Memory,
           NEW b \in Addr, f[b] # Free, NEW y \in Pointer
    PROVE  Wrote(f, PrevSet(f, b, y), NullPtr, NullPtr, b, y)
  <1>1. f[b] \in NodeOf(Data)
    BY DEF Memory
  <1>2. PICK e : e = [f[b] EXCEPT !.prev = y]
    OBVIOUS
  <1>3. e \in NodeOf(Data) /\ e.prev = y /\ e.next = f[b].next /\ e.data = f[b].data
    BY <1>1, <1>2 DEF NodeOf
  <1>4. PrevSet(f, b, y) = [f EXCEPT ![b] = e]
    BY <1>2 DEF PrevSet
  <1> QED BY <1>3, <1>4 DEF Memory, Wrote

LEMMA NewWritten ==
    ASSUME Free \notin NodeOf(Data), NEW f \in Memory, NEW new \in Addr, NEW d \in Data,
           NEW g, g = NewIn(f, new, d)
    PROVE  /\ g \in Memory
           /\ g[new] # Free /\ g[new].next = NullPtr /\ g[new].prev = NullPtr /\ g[new].data = d
           /\ \A b \in Addr \ {new} : g[b] = f[b]
  <1>1. PICK e : e = [prev |-> NullPtr, data |-> d, next |-> NullPtr]
    OBVIOUS
  <1>2. e \in NodeOf(Data) /\ e.prev = NullPtr /\ e.next = NullPtr /\ e.data = d
    BY <1>1 DEF NodeOf, Pointer
  <1>3. g = [f EXCEPT ![new] = e]
    BY <1>1 DEF NewIn
  <1> QED BY <1>2, <1>3 DEF Memory

\* create_node leaves the head as it is.
LEMMA NewNodeIs ==
    ASSUME NEW l \in Store, NEW new, NEW d
    PROVE  NewNode(l, new, d)
           = [cnt |-> l.cnt, first |-> l.first, last |-> l.last, node |-> NewIn(l.node, new, d)]
  BY DEF NewNode, NewIn, Store

\* The functions that put in a node join it to its neighbours.
LEMMA PushedBack ==
    ASSUME NullPtr \notin Addr, Free \notin NodeOf(Data),
           NEW l \in Store, NEW new \in Unused(l), NEW d \in Data,
           l.cnt > 0, l.last \in Nodes(l),
           NEW m, m = LinklistPushBack(l, new, d)
    PROVE  Joined(l, m, new, d, l.last, NullPtr) /\ m.first = l.first /\ m.last = new
  <1>1. PICK f, e, m0, g0 :
            f = l.node /\ e = l.last /\ m0 = NewNode(l, new, d) /\ g0 = NewIn(f, new, d)
    OBVIOUS
  <1>2. m = [m0 EXCEPT !.node[e].next = new, !.node[new].prev = e, !.last = new, !.cnt = @ + 1]
    BY <1>1 DEF LinklistPushBack
  <1>3. m0 = [cnt |-> l.cnt, first |-> l.first, last |-> l.last, node |-> g0]
    BY <1>1, NewNodeIs
  <1>4. /\ f \in Memory /\ new \in Addr /\ f[new] = Free
        /\ e \in Addr /\ f[e] # Free
    BY <1>1 DEF Store, Memory, Nodes, Unused
  <1>5. /\ g0 \in Memory
        /\ g0[new] # Free /\ g0[new].next = NullPtr /\ g0[new].prev = NullPtr /\ g0[new].data = d
        /\ \A b \in Addr \ {new} : g0[b] = f[b]
    BY <1>1, <1>4, NewWritten
  <1>6. PICK g1, g2 :
            g1 = NextSet(g0, e, new) /\ g2 = PrevSet(g1, new, e)
    OBVIOUS
  <1>7. Wrote(g0, g1, e, new, NullPtr, NullPtr)
    <2>1. g0 \in Memory /\ e \in Addr /\ g0[e] # Free /\ new \in Pointer
      BY <1>4, <1>5 DEF Wrote, Pointer
    <2> QED BY <1>6, <2>1, NextWritten
  <1>8. Wrote(g1, g2, NullPtr, NullPtr, new, e)
    <2>1. g1 \in Memory /\ new \in Addr /\ g1[new] # Free /\ e \in Pointer
      BY <1>4, <1>5, <1>7 DEF Wrote, Pointer
    <2> QED BY <1>6, <2>1, PrevWritten
  <1>9. m = [cnt |-> l.cnt + 1, first |-> l.first, last |-> new, node |-> g2]
    <2>1. g2 = [g0 EXCEPT ![e].next = new, ![new].prev = e]
      BY <1>6 DEF NextSet, PrevSet
    <2> QED BY <1>2, <1>3, <2>1
  <1>10. /\ g2 \in Memory /\ g2[new] # Free
         /\ g2[new].prev = e /\ g2[new].next = NullPtr /\ g2[new].data = d
    BY <1>4, <1>5, <1>7, <1>8 DEF Wrote
  <1>11. ASSUME NEW a \in Addr \ {new}
         PROVE  /\ g2[a] = Free <=> f[a] = Free
                /\ f[a] # Free => /\ g2[a].next = IF a = e THEN new ELSE f[a].next
                                  /\ g2[a].prev = IF a = NullPtr THEN new ELSE f[a].prev
                                  /\ g2[a].data = f[a].data
    <2>1. g0[a] = f[a] /\ a # NullPtr
      BY <1>5
    <2> QED BY <1>4, <1>7, <1>8, <2>1 DEF Wrote
  <1> QED BY <1>1, <1>9, <1>10, <1>11 DEF Joined

LEMMA PushedHead ==
    ASSUME NullPtr \notin Addr, Free \notin NodeOf(Data),
           NEW l \in Store, NEW new \in Unused(l), NEW d \in Data,
           l.cnt > 0, l.first \in Nodes(l),
           NEW m, m = LinklistPushHead(l, new, d)
    PROVE  Joined(l, m, new, d, NullPtr, l.first) /\ m.first = new /\ m.last = l.last
  <1>1. PICK f, e, m0, g0 :
            f = l.node /\ e = l.first /\ m0 = NewNode(l, new, d) /\ g0 = NewIn(f, new, d)
    OBVIOUS
  <1>2. m = [m0 EXCEPT !.node[e].prev = new, !.node[new].next = e, !.first = new, !.cnt = @ + 1]
    BY <1>1 DEF LinklistPushHead
  <1>3. m0 = [cnt |-> l.cnt, first |-> l.first, last |-> l.last, node |-> g0]
    BY <1>1, NewNodeIs
  <1>4. /\ f \in Memory /\ new \in Addr /\ f[new] = Free
        /\ e \in Addr /\ f[e] # Free
    BY <1>1 DEF Store, Memory, Nodes, Unused
  <1>5. /\ g0 \in Memory
        /\ g0[new] # Free /\ g0[new].next = NullPtr /\ g0[new].prev = NullPtr /\ g0[new].data = d
        /\ \A b \in Addr \ {new} : g0[b] = f[b]
    BY <1>1, <1>4, NewWritten
  <1>6. PICK g1, g2 :
            g1 = PrevSet(g0, e, new) /\ g2 = NextSet(g1, new, e)
    OBVIOUS
  <1>7. Wrote(g0, g1, NullPtr, NullPtr, e, new)
    <2>1. g0 \in Memory /\ e \in Addr /\ g0[e] # Free /\ new \in Pointer
      BY <1>4, <1>5 DEF Wrote, Pointer
    <2> QED BY <1>6, <2>1, PrevWritten
  <1>8. Wrote(g1, g2, new, e, NullPtr, NullPtr)
    <2>1. g1 \in Memory /\ new \in Addr /\ g1[new] # Free /\ e \in Pointer
      BY <1>4, <1>5, <1>7 DEF Wrote, Pointer
    <2> QED BY <1>6, <2>1, NextWritten
  <1>9. m = [cnt |-> l.cnt + 1, first |-> new, last |-> l.last, node |-> g2]
    <2>1. g2 = [g0 EXCEPT ![e].prev = new, ![new].next = e]
      BY <1>6 DEF NextSet, PrevSet
    <2> QED BY <1>2, <1>3, <2>1
  <1>10. /\ g2 \in Memory /\ g2[new] # Free
         /\ g2[new].prev = NullPtr /\ g2[new].next = e /\ g2[new].data = d
    BY <1>4, <1>5, <1>7, <1>8 DEF Wrote
  <1>11. ASSUME NEW a \in Addr \ {new}
         PROVE  /\ g2[a] = Free <=> f[a] = Free
                /\ f[a] # Free => /\ g2[a].next = IF a = NullPtr THEN new ELSE f[a].next
                                  /\ g2[a].prev = IF a = e THEN new ELSE f[a].prev
                                  /\ g2[a].data = f[a].data
    <2>1. g0[a] = f[a] /\ a # NullPtr
      BY <1>5
    <2> QED BY <1>4, <1>7, <1>8, <2>1 DEF Wrote
  <1> QED BY <1>1, <1>9, <1>10, <1>11 DEF Joined

\* The first node of a list.
LEMMA PushedFirst ==
    ASSUME NullPtr \notin Addr, Free \notin NodeOf(Data),
           NEW l \in Store, NEW new \in Unused(l), NEW d \in Data,
           l.cnt = 0,
           NEW m, m \in {LinklistPushBack(l, new, d), LinklistPushHead(l, new, d)}
    PROVE  Joined(l, m, new, d, NullPtr, NullPtr) /\ m.first = new /\ m.last = new
  <1>1. PICK f, m0, g0 :
            f = l.node /\ m0 = NewNode(l, new, d) /\ g0 = NewIn(f, new, d)
    OBVIOUS
  <1>2. m = [m0 EXCEPT !.first = new, !.last = new, !.cnt = 1]
    BY <1>1 DEF LinklistPushBack, LinklistPushHead
  <1>3. m0 = [cnt |-> l.cnt, first |-> l.first, last |-> l.last, node |-> g0]
    BY <1>1, NewNodeIs
  <1>4. /\ f \in Memory /\ new \in Addr /\ f[new] = Free
    BY <1>1 DEF Store, Memory, Nodes, Unused
  <1>5. /\ g0 \in Memory
        /\ g0[new] # Free /\ g0[new].next = NullPtr /\ g0[new].prev = NullPtr /\ g0[new].data = d
        /\ \A b \in Addr \ {new} : g0[b] = f[b]
    BY <1>1, <1>4, NewWritten
  <1>6. m = [cnt |-> 1, first |-> new, last |-> new, node |-> g0]
    BY <1>2, <1>3
  <1> QED BY <1>1, <1>4, <1>5, <1>6 DEF Joined, Wrote

\* Linking in behind a node that is not the last, and before one that is not the first.
LEMMA LinkedAfter ==
    ASSUME NullPtr \notin Addr, Free \notin NodeOf(Data),
           NEW l \in Store, NEW new \in Unused(l), NEW d \in Data,
           NEW i \in Nodes(l), l.node[i].next \in Nodes(l),
           NEW m, m = LinkAfter(l, i, new, d)
    PROVE  Joined(l, m, new, d, i, l.node[i].next) /\ m.first = l.first /\ m.last = l.last
  <1>1. PICK f, e, m0, g0 :
            /\ f = l.node /\ e = l.node[i].next
            /\ m0 = NewNode(l, new, d) /\ g0 = NewIn(f, new, d)
    OBVIOUS
  <1>1a. PICK m2 : m2 = [m0 EXCEPT !.node[new].prev = i, !.node[new].next = e]
    OBVIOUS
  <1>2. m = [m2 EXCEPT !.node[e].prev = new, !.node[i].next = new, !.cnt = @ + 1]
    BY <1>1, <1>1a DEF LinkAfter
  <1>3. m0 = [cnt |-> l.cnt, first |-> l.first, last |-> l.last, node |-> g0]
    BY <1>1, NewNodeIs
  <1>4. /\ f \in Memory /\ new \in Addr /\ f[new] = Free
        /\ e \in Addr /\ f[e] # Free
        /\ i \in Addr /\ f[i] # Free
    BY <1>1 DEF Store, Memory, Nodes, Unused
  <1>5. /\ g0 \in Memory
        /\ g0[new] # Free /\ g0[new].next = NullPtr /\ g0[new].prev = NullPtr /\ g0[new].data = d
        /\ \A b \in Addr \ {new} : g0[b] = f[b]
    BY <1>1, <1>4, NewWritten
  <1>6. PICK g1, g2, g3, g4 :
            g1 = PrevSet(g0, new, i) /\ g2 = NextSet(g1, new, e)
            /\ g3 = PrevSet(g2, e, new) /\ g4 = NextSet(g3, i, new)
    OBVIOUS
  <1>7. Wrote(g0, g1, NullPtr, NullPtr, new, i)
    <2>1. g0 \in Memory /\ new \in Addr /\ g0[new] # Free /\ i \in Pointer
      BY <1>4, <1>5 DEF Wrote, Pointer
    <2> QED BY <1>6, <2>1, PrevWritten
  <1>8. Wrote(g1, g2, new, e, NullPtr, NullPtr)
    <2>1. g1 \in Memory /\ new \in Addr /\ g1[new] # Free /\ e \in Pointer
      BY <1>4, <1>5, <1>7 DEF Wrote, Pointer
    <2> QED BY <1>6, <2>1, NextWritten
  <1>9. Wrote(g2, g3, NullPtr, NullPtr, e, new)
    <2>1. g2 \in Memory /\ e \in Addr /\ g2[e] # Free /\ new \in Pointer
      BY <1>4, <1>5, <1>7, <1>8 DEF Wrote, Pointer
    <2> QED BY <1>6, <2>1, PrevWritten
  <1>10. Wrote(g3, g4, i, new, NullPtr, NullPtr)
    <2>1. g3 \in Memory /\ i \in Addr /\ g3[i] # Free /\ new \in Pointer
      BY <1>4, <1>5, <1>7, <1>8, <1>9 DEF Wrote, Pointer
    <2> QED BY <1>6, <2>1, NextWritten
  <1>11. m = [cnt |-> l.cnt + 1, first |-> l.first, last |-> l.last, node |-> g4]
    <2>1. m2 = [cnt |-> l.cnt, first |-> l.first, last |-> l.last, node |-> g2]
      <3>1. g2 = [g0 EXCEPT ![new].prev = i, ![new].next = e]
        BY <1>6 DEF NextSet, PrevSet
      <3> QED BY <1>1a, <1>3, <3>1
    <2>3. g4 = [g2 EXCEPT ![e].prev = new, ![i].next = new]
      BY <1>6 DEF NextSet, PrevSet
    <2> QED BY <1>2, <2>1, <2>3
  <1> QED BY <1>1, <1>4, <1>5, <1>7, <1>8, <1>9, <1>10, <1>11 DEF Joined, Wrote

LEMMA LinkedBefore ==
    ASSUME NullPtr \notin Addr, Free \notin NodeOf(Data),
           NEW l \in Store, NEW new \in Unused(l), NEW d \in Data,
           NEW i \in Nodes(l), l.node[i].prev \in Nodes(l),
           NEW m, m = LinkBefore(l, i, new, d)
    PROVE  Joined(l, m, new, d, l.node[i].prev, i) /\ m.first = l.first /\ m.last = l.last
  <1>1. PICK f, e, m0, g0 :
            /\ f = l.node /\ e = l.node[i].prev
            /\ m0 = NewNode(l, new, d) /\ g0 = NewIn(f, new, d)
    OBVIOUS
  <1>1a. PICK m2 : m2 = [m0 EXCEPT !.node[new].next = i, !.node[new].prev = e]
    OBVIOUS
  <1>2. m = [m2 EXCEPT !.node[e].next = new, !.node[i].prev = new, !.cnt = @ + 1]
    BY <1>1, <1>1a DEF LinkBefore
  <1>3. m0 = [cnt |-> l.cnt, first |-> l.first, last |-> l.last, node |-> g0]
    BY <1>1, NewNodeIs
  <1>4. /\ f \in Memory /\ new \in Addr /\ f[new] = Free
        /\ e \in Addr /\ f[e] # Free
        /\ i \in Addr /\ f[i] # Free
    BY <1>1 DEF Store, Memory, Nodes, Unused
  <1>5. /\ g0 \in Memory
        /\ g0[new] # Free /\ g0[new].next = NullPtr /\ g0[new].prev = NullPtr /\ g0[new].data = d
        /\ \A b \in Addr \ {new} : g0[b] = f[b]
    BY <1>1, <1>4, NewWritten
  <1>6. PICK g1, g2, g3, g4 :
            g1 = NextSet(g0, new, i) /\ g2 = PrevSet(g1, new, e)
            /\ g3 = NextSet(g2, e, new) /\ g4 = PrevSet(g3, i, new)
    OBVIOUS
  <1>7. Wrote(g0, g1, new, i, NullPtr, NullPtr)
    <2>1. g0 \in Memory /\ new \in Addr /\ g0[new] # Free /\ i \in Pointer
      BY <1>4, <1>5 DEF Wrote, Pointer
    <2> QED BY <1>6, <2>1, NextWritten
  <1>8. Wrote(g1, g2, NullPtr, NullPtr, new, e)
    <2>1. g1 \in Memory /\ new \in Addr /\ g1[new] # Free /\ e \in Pointer
      BY <1>4, <1>5, <1>7 DEF Wrote, Pointer
    <2> QED BY <1>6, <2>1, PrevWritten
  <1>9. Wrote(g2, g3, e, new, NullPtr, NullPtr)
    <2>1. g2 \in Memory /\ e \in Addr /\ g2[e] # Free /\ new \in Pointer
      BY <1>4, <1>5, <1>7, <1>8 DEF Wrote, Pointer
    <2> QED BY <1>6, <2>1, NextWritten
  <1>10. Wrote(g3, g4, NullPtr, NullPtr, i, new)
    <2>1. g3 \in Memory /\ i \in Addr /\ g3[i] # Free /\ new \in Pointer
      BY <1>4, <1>5, <1>7, <1>8, <1>9 DEF Wrote, Pointer
    <2> QED BY <1>6, <2>1, PrevWritten
  <1>11. m = [cnt |-> l.cnt + 1, first |-> l.first, last |-> l.last, node |-> g4]
    <2>1. m2 = [cnt |-> l.cnt, first |-> l.first, last |-> l.last, node |-> g2]
      <3>1. g2 = [g0 EXCEPT ![new].next = i, ![new].prev = e]
        BY <1>6 DEF NextSet, PrevSet
      <3> QED BY <1>1a, <1>3, <3>1
    <2>3. g4 = [g2 EXCEPT ![e].next = new, ![i].prev = new]
      BY <1>6 DEF NextSet, PrevSet
    <2> QED BY <1>2, <2>1, <2>3
  <1> QED BY <1>1, <1>4, <1>5, <1>7, <1>8, <1>9, <1>10, <1>11 DEF Joined, Wrote

\* The same of the circular list, whose ends are joined anew.
LEMMA CirPushedBack ==
    ASSUME NullPtr \notin Addr, Free \notin NodeOf(Data),
           NEW l \in Store, NEW new \in Unused(l), NEW d \in Data,
           l.cnt > 0, l.first \in Nodes(l), l.last \in Nodes(l),
           NEW m, m = CirLinklistPushBack(l, new, d)
    PROVE  Joined(l, m, new, d, l.last, l.first) /\ m.first = l.first /\ m.last = new
  <1>1. PICK f, b, e, m0, g0 :
            /\ f = l.node /\ b = l.first /\ e = l.last
            /\ m0 = NewNode(l, new, d) /\ g0 = NewIn(f, new, d)
    OBVIOUS
  <1>1a. PICK m2 : m2 = [m0 EXCEPT !.node[e].next = new, !.node[new].prev = e]
    OBVIOUS
  <1>2. m = [m2 EXCEPT !.node[new].next = b, !.node[b].prev = new,
                       !.last = new, !.cnt = @ + 1]
    BY <1>1, <1>1a DEF CirLinklistPushBack
  <1>3. m0 = [cnt |-> l.cnt, first |-> l.first, last |-> l.last, node |-> g0]
    BY <1>1, NewNodeIs
  <1>4. /\ f \in Memory /\ new \in Addr /\ f[new] = Free
        /\ b \in Addr /\ f[b] # Free
        /\ e \in Addr /\ f[e] # Free
    BY <1>1 DEF Store, Memory, Nodes, Unused
  <1>5. /\ g0 \in Memory
        /\ g0[new] # Free /\ g0[new].next = NullPtr /\ g0[new].prev = NullPtr /\ g0[new].data = d
        /\ \A c \in Addr \ {new} : g0[c] = f[c]
    BY <1>1, <1>4, NewWritten
  <1>6. PICK g1, g2, g3, g4 :
            g1 = NextSet(g0, e, new) /\ g2 = PrevSet(g1, new, e)
            /\ g3 = NextSet(g2, new, b) /\ g4 = PrevSet(g3, b, new)
    OBVIOUS
  <1>7. Wrote(g0, g1, e, new, NullPtr, NullPtr)
    <2>1. g0 \in Memory /\ e \in Addr /\ g0[e] # Free /\ new \in Pointer
      BY <1>4, <1>5 DEF Wrote, Pointer
    <2> QED BY <1>6, <2>1, NextWritten
  <1>8. Wrote(g1, g2, NullPtr, NullPtr, new, e)
    <2>1. g1 \in Memory /\ new \in Addr /\ g1[new] # Free /\ e \in Pointer
      BY <1>4, <1>5, <1>7 DEF Wrote, Pointer
    <2> QED BY <1>6, <2>1, PrevWritten
  <1>9. Wrote(g2, g3, new, b, NullPtr, NullPtr)
    <2>1. g2 \in Memory /\ new \in Addr /\ g2[new] # Free /\ b \in Pointer
      BY <1>4, <1>5, <1>7, <1>8 DEF Wrote, Pointer
    <2> QED BY <1>6, <2>1, NextWritten
  <1>10. Wrote(g3, g4, NullPtr, NullPtr, b, new)
    <2>1. g3 \in Memory /\ b \in Addr /\ g3[b] # Free /\ new \in Pointer
      BY <1>4, <1>5, <1>7, <1>8, <1>9 DEF Wrote, Pointer
    <2> QED BY <1>6, <2>1, PrevWritten
  <1>11. m = [cnt |-> l.cnt + 1, first |-> l.first, last |-> new, node |-> g4]
    <2>1. m2 = [cnt |-> l.cnt, first |-> l.first, last |-> l.last, node |-> g2]
      <3>1. g2 = [g0 EXCEPT ![e].next = new, ![new].prev = e]
        BY <1>6 DEF NextSet, PrevSet
      <3> QED BY <1>1a, <1>3, <3>1
    <2>3. g4 = [g2 EXCEPT ![new].next = b, ![b].prev = new]
      BY <1>6 DEF NextSet, PrevSet
    <2> QED BY <1>2, <2>1, <2>3
  <1> QED BY <1>1, <1>4, <1>5, <1>7, <1>8, <1>9, <1>10, <1>11 DEF Joined, Wrote

LEMMA CirPushedHead ==
    ASSUME NullPtr \notin Addr, Free \notin NodeOf(Data),
           NEW l \in Store, NEW new \in Unused(l), NEW d \in Data,
           l.cnt > 0, l.first \in Nodes(l), l.last \in Nodes(l),
           NEW m, m = CirLinklistPushHead(l, new, d)
    PROVE  Joined(l, m, new, d, l.last, l.first) /\ m.first = new /\ m.last = l.last
  <1>1. PICK f, b, e, m0, g0 :
            /\ f = l.node /\ b = l.first /\ e = l.last
            /\ m0 = NewNode(l, new, d) /\ g0 = NewIn(f, new, d)
    OBVIOUS
  <1>1a. PICK m2 : m2 = [m0 EXCEPT !.node[b].prev = new, !.node[new].next = b]
    OBVIOUS
  <1>2. m = [m2 EXCEPT !.node[new].prev = e, !.node[e].next = new,
                       !.first = new, !.cnt = @ + 1]
    BY <1>1, <1>1a DEF CirLinklistPushHead
  <1>3. m0 = [cnt |-> l.cnt, first |-> l.first, last |-> l.last, node |-> g0]
    BY <1>1, NewNodeIs
  <1>4. /\ f \in Memory /\ new \in Addr /\ f[new] = Free
        /\ b \in Addr /\ f[b] # Free
        /\ e \in Addr /\ f[e] # Free
    BY <1>1 DEF Store, Memory, Nodes, Unused
  <1>5. /\ g0 \in Memory
        /\ g0[new] # Free /\ g0[new].next = NullPtr /\ g0[new].prev = NullPtr /\ g0[new].data = d
        /\ \A c \in Addr \ {new} : g0[c] = f[c]
    BY <1>1, <1>4, NewWritten
  <1>6. PICK g1, g2, g3, g4 :
            g1 = PrevSet(g0, b, new) /\ g2 = NextSet(g1, new, b)
            /\ g3 = PrevSet(g2, new, e) /\ g4 = NextSet(g3, e, new)
    OBVIOUS
  <1>7. Wrote(g0, g1, NullPtr, NullPtr, b, new)
    <2>1. g0 \in Memory /\ b \in Addr /\ g0[b] # Free /\ new \in Pointer
      BY <1>4, <1>5 DEF Wrote, Pointer
    <2> QED BY <1>6, <2>1, PrevWritten
  <1>8. Wrote(g1, g2, new, b, NullPtr, NullPtr)
    <2>1. g1 \in Memory /\ new \in Addr /\ g1[new] # Free /\ b \in Pointer
      BY <1>4, <1>5, <1>7 DEF Wrote, Pointer
    <2> QED BY <1>6, <2>1, NextWritten
  <1>9. Wrote(g2, g3, NullPtr, NullPtr, new, e)
    <2>1. g2 \in Memory /\ new \in Addr /\ g2[new] # Free /\ e \in Pointer
      BY <1>4, <1>5, <1>7, <1>8 DEF Wrote, Pointer
    <2> QED BY <1>6, <2>1, PrevWritten
  <1>10. Wrote(g3, g4, e, new, NullPtr, NullPtr)
    <2>1. g3 \in Memory /\ e \in Addr /\ g3[e] # Free /\ new \in Pointer
      BY <1>4, <1>5, <1>7, <1>8, <1>9 DEF Wrote, Pointer
    <2> QED BY <1>6, <2>1, NextWritten
  <1>11. m = [cnt |-> l.cnt + 1, first |-> new, last |-> l.last, node |-> g4]
    <2>1. m2 = [cnt |-> l.cnt, first |-> l.first, last |-> l.last, node |-> g2]
      <3>1. g2 = [g0 EXCEPT ![b].prev = new, ![new].next = b]
        BY <1>6 DEF NextSet, PrevSet
      <3> QED BY <1>1a, <1>3, <3>1
    <2>3. g4 = [g2 EXCEPT ![new].prev = e, ![e].next = new]
      BY <1>6 DEF NextSet, PrevSet
    <2> QED BY <1>2, <2>1, <2>3
  <1> QED BY <1>1, <1>4, <1>5, <1>7, <1>8, <1>9, <1>10, <1>11 DEF Joined, Wrote

LEMMA CirPushedFirst ==
    ASSUME NullPtr \notin Addr, Free \notin NodeOf(Data),
           NEW l \in Store, NEW new \in Unused(l), NEW d \in Data,
           l.cnt = 0,
           NEW m,
           m \in {CirLinklistPushBack(l, new, d), CirLinklistPushHead(l, new, d)}
    PROVE  Joined(l, m, new, d, new, new) /\ m.first = new /\ m.last = new
  <1>1. PICK f, m0, g0 :
            f = l.node /\ m0 = NewNode(l, new, d) /\ g0 = NewIn(f, new, d)
    OBVIOUS
  <1>2. m = [m0 EXCEPT !.first = new, !.last = new, !.cnt = 1,
                       !.node[new].prev = new, !.node[new].next = new]
    BY <1>1 DEF CirLinklistPushBack, CirLinklistPushHead
  <1>3. m0 = [cnt |-> l.cnt, first |-> l.first, last |-> l.last, node |-> g0]
    BY <1>1, NewNodeIs
  <1>4. /\ f \in Memory /\ new \in Addr /\ f[new] = Free
    BY <1>1 DEF Store, Memory, Nodes, Unused
  <1>5. /\ g0 \in Memory
        /\ g0[new] # Free /\ g0[new].next = NullPtr /\ g0[new].prev = NullPtr /\ g0[new].data = d
        /\ \A b \in Addr \ {new} : g0[b] = f[b]
    BY <1>1, <1>4, NewWritten
  <1>6. PICK g1, g2 :
            g1 = PrevSet(g0, new, new) /\ g2 = NextSet(g1, new, new)
    OBVIOUS
  <1>7. Wrote(g0, g1, NullPtr, NullPtr, new, new)
    <2>1. g0 \in Memory /\ new \in Addr /\ g0[new] # Free /\ new \in Pointer
      BY <1>4, <1>5 DEF Wrote, Pointer
    <2> QED BY <1>6, <2>1, PrevWritten
  <1>8. Wrote(g1, g2, new, new, NullPtr, NullPtr)
    <2>1. g1 \in Memory /\ new \in Addr /\ g1[new] # Free /\ new \in Pointer
      BY <1>4, <1>5, <1>7 DEF Wrote, Pointer
    <2> QED BY <1>6, <2>1, NextWritten
  <1>9. m = [cnt |-> 1, first |-> new, last |-> new, node |-> g2]
    BY <1>2, <1>3, <1>6 DEF NextSet, PrevSet
  <1> QED BY <1>1, <1>4, <1>5, <1>7, <1>8, <1>9 DEF Joined, Wrote

\* A list in memory.
HeadOf(c, first, last, f) == [cnt |-> c, first |-> first, last |-> last, node |-> f]

\* A node between P and N is freed, and they are told of each other.
LEMMA Freeing ==
    ASSUME Free \notin NodeOf(Data),
           NEW l \in Store, NEW i \in Addr, NEW P, NEW N, NEW g, Wrote(l.node, g, P, N, N, P),
           NEW b, NEW e, NEW m, m = Freed(HeadOf(l.cnt, b, e, g), i)
    PROVE  Parted(l, m, i, P, N)
  <1>1. m = [cnt |-> l.cnt - 1, first |-> b, last |-> e, node |-> [g EXCEPT ![i] = Free]]
    BY DEF Freed, HeadOf
  <1>2. g \in Memory
    BY DEF Wrote
  <1> DEFINE h == [g EXCEPT ![i] = Free]
  <1>3. h \in Memory /\ h[i] = Free /\ \A a \in Addr \ {i} : h[a] = g[a]
    BY <1>2 DEF Memory
  <1> HIDE DEF h
  <1>4. m = [cnt |-> l.cnt - 1, first |-> b, last |-> e, node |-> h]
    BY <1>1 DEF h
  <1> QED BY <1>3, <1>4 DEF Parted, Wrote

\* Deleting takes the node out, and moves the ends of the list off it.
LEMMA Deleted ==
    ASSUME NullPtr \notin Addr, Free \notin NodeOf(Data),
           NEW l \in Store, l.cnt > 0, NEW i \in Nodes(l),
           NEW P, P = l.node[i].prev, P \in Nodes(l) \cup {NullPtr},
           NEW N, N = l.node[i].next, N \in Nodes(l) \cup {NullPtr},
           l.cnt = 1 <=> P = NullPtr /\ N = NullPtr,
           NEW m, m = LinklistDelete(l, i)
    PROVE  /\ Parted(l, m, i, P, N)
           /\ m.first = IF P = NullPtr THEN N ELSE l.first
           /\ m.last = IF N = NullPtr THEN P ELSE l.last
  <1>0. PICK f, c, x, y : f = l.node /\ c = l.cnt /\ x = l.first /\ y = l.last
    OBVIOUS
  <1>1. l = [cnt |-> c, first |-> x, last |-> y, node |-> f]
    BY <1>0 DEF Store
  <1>2. /\ l.cnt \in Nat /\ f \in Memory /\ i \in Addr /\ f[i] # Free
        /\ P # NullPtr => P \in Addr /\ f[P] # Free
        /\ N # NullPtr => N \in Addr /\ f[N] # Free
        /\ P \in Pointer /\ N \in Pointer /\ NullPtr \in Pointer
    BY <1>0 DEF Store, Nodes, Pointer
  <1>3. PICK k : k = CASE l.cnt <= 1  -> [l EXCEPT !.first = NullPtr, !.last = NullPtr]
                 [] l.cnt > 1 /\ P = NullPtr -> [l EXCEPT !.node[N].prev = NullPtr, !.first = N]
                 [] l.cnt > 1 /\ P # NullPtr /\ N = NullPtr ->
                       [l EXCEPT !.node[P].next = NullPtr, !.last = P]
                 [] OTHER -> [l EXCEPT !.node[P].next = N, !.node[N].prev = P]
    OBVIOUS
  <1>8. m = Freed(k, i)
    BY <1>3 DEF LinklistDelete
  <1>4. CASE l.cnt = 1
    <2>1. k = [l EXCEPT !.first = NullPtr, !.last = NullPtr]
      BY <1>3, <1>4
    <2>2. k = HeadOf(c, NullPtr, NullPtr, f)
      BY <1>1, <2>1 DEF HeadOf
    <2>3. Wrote(f, f, P, N, N, P)
      BY <1>2, <1>4 DEF Wrote
    <2>4. Parted(l, m, i, P, N) /\ m.first = NullPtr /\ m.last = NullPtr
      <3>1. m = Freed(HeadOf(l.cnt, NullPtr, NullPtr, f), i)
        BY <1>0, <1>8, <2>2
      <3>2. Wrote(l.node, f, P, N, N, P)
        BY <1>0, <2>3
      <3>3. Parted(l, m, i, P, N)
        BY <1>2, <3>1, <3>2, Freeing
      <3> QED BY <3>1, <3>3 DEF Freed, HeadOf
    <2> QED BY <1>0, <1>2, <1>4, <2>4
  <1>5. CASE l.cnt > 1 /\ P = NullPtr
    <2>1. PICK g : g = PrevSet(f, N, NullPtr)
      OBVIOUS
    <2>2. k = [l EXCEPT !.node[N].prev = NullPtr, !.first = N]
      BY <1>2, <1>3, <1>5
    <2>3. k = HeadOf(c, N, y, g)
      BY <1>1, <2>1, <2>2 DEF PrevSet, HeadOf
    <2>4. N \in Addr /\ f[N] # Free
      BY <1>2, <1>5
    <2>5. Wrote(f, g, NullPtr, NullPtr, N, NullPtr)
      BY <1>2, <2>1, <2>4, PrevWritten
    <2>6. Wrote(f, g, P, N, N, P)
      BY <1>5, <2>5 DEF Wrote
    <2>7. Parted(l, m, i, P, N) /\ m.first = N /\ m.last = y
      <3>1. m = Freed(HeadOf(l.cnt, N, y, g), i)
        BY <1>0, <1>8, <2>3
      <3>2. Wrote(l.node, g, P, N, N, P)
        BY <1>0, <2>6
      <3>3. Parted(l, m, i, P, N)
        BY <1>2, <3>1, <3>2, Freeing
      <3> QED BY <3>1, <3>3 DEF Freed, HeadOf
    <2> QED BY <1>0, <1>2, <1>5, <2>7
  <1>6. CASE l.cnt > 1 /\ P # NullPtr /\ N = NullPtr
    <2>1. PICK g : g = NextSet(f, P, NullPtr)
      OBVIOUS
    <2>2. k = [l EXCEPT !.node[P].next = NullPtr, !.last = P]
      BY <1>2, <1>3, <1>6
    <2>3. k = HeadOf(c, x, P, g)
      BY <1>1, <2>1, <2>2 DEF NextSet, HeadOf
    <2>4. P \in Addr /\ f[P] # Free
      BY <1>2, <1>6
    <2>5. Wrote(f, g, P, NullPtr, NullPtr, NullPtr)
      BY <1>2, <2>1, <2>4, NextWritten
    <2>6. Wrote(f, g, P, N, N, P)
      BY <1>6, <2>5 DEF Wrote
    <2>7. Parted(l, m, i, P, N) /\ m.first = x /\ m.last = P
      <3>1. m = Freed(HeadOf(l.cnt, x, P, g), i)
        BY <1>0, <1>8, <2>3
      <3>2. Wrote(l.node, g, P, N, N, P)
        BY <1>0, <2>6
      <3>3. Parted(l, m, i, P, N)
        BY <1>2, <3>1, <3>2, Freeing
      <3> QED BY <3>1, <3>3 DEF Freed, HeadOf
    <2> QED BY <1>0, <1>2, <1>6, <2>7
  <1>7. CASE l.cnt > 1 /\ P # NullPtr /\ N # NullPtr
    <2>1. PICK e, g : e = NextSet(f, P, N) /\ g = PrevSet(e, N, P)
      OBVIOUS
    <2>2. k = [l EXCEPT !.node[P].next = N, !.node[N].prev = P]
      BY <1>2, <1>3, <1>7
    <2>3. g = [f EXCEPT ![P].next = N, ![N].prev = P]
      BY <2>1 DEF NextSet, PrevSet
    <2>4. k = HeadOf(c, x, y, g)
      BY <1>1, <2>2, <2>3 DEF HeadOf
    <2>5. Wrote(f, e, P, N, NullPtr, NullPtr)
      BY <1>2, <1>7, <2>1, NextWritten
    <2>6. e \in Memory /\ N \in Addr /\ e[N] # Free
      BY <1>2, <1>7, <2>5 DEF Wrote
    <2>7. Wrote(e, g, NullPtr, NullPtr, N, P)
      BY <1>2, <2>1, <2>6, PrevWritten
    <2>8. Wrote(f, g, P, N, N, P)
      BY <1>2, <2>5, <2>7 DEF Wrote
    <2>9. Parted(l, m, i, P, N) /\ m.first = x /\ m.last = y
      <3>1. m = Freed(HeadOf(l.cnt, x, y, g), i)
        BY <1>0, <1>8, <2>4
      <3>2. Wrote(l.node, g, P, N, N, P)
        BY <1>0, <2>8
      <3>3. Parted(l, m, i, P, N)
        BY <1>2, <3>1, <3>2, Freeing
      <3> QED BY <3>1, <3>3 DEF Freed, HeadOf
    <2> QED BY <1>0, <1>2, <1>7, <2>9
  <1> QED BY <1>0, <1>4, <1>5, <1>6, <1>7 DEF Store

LEMMA CirDeleted ==
    ASSUME NullPtr \notin Addr, Free \notin NodeOf(Data),
           NEW l \in Store, l.cnt > 0, NEW i \in Nodes(l),
           NEW P, P = l.node[i].prev, P \in Nodes(l),
           NEW N, N = l.node[i].next, N \in Nodes(l),
           NEW m, m = CirLinklistDelete(l, i)
    PROVE  /\ Parted(l, m, i, P, N)
           /\ m.first = IF i = l.first THEN N ELSE l.first
           /\ m.last = IF i # l.first /\ i = l.last THEN P ELSE l.last
  <1>0. PICK f, c, x, y, e, g :
            /\ f = l.node /\ c = l.cnt /\ x = l.first /\ y = l.last
            /\ e = NextSet(f, P, N) /\ g = PrevSet(e, N, P)
    OBVIOUS
  <1>1. l = [cnt |-> c, first |-> x, last |-> y, node |-> f]
    BY <1>0 DEF Store
  <1>2. /\ f \in Memory /\ i \in Addr
        /\ P \in Addr /\ f[P] # Free /\ N \in Addr /\ f[N] # Free
        /\ P \in Pointer /\ N \in Pointer
    BY <1>0 DEF Store, Nodes, Pointer
  <1>3. PICK k0 : k0 = CASE i = l.first -> [l EXCEPT !.first = N]
                         [] i # l.first /\ i = l.last -> [l EXCEPT !.last = P]
                         [] OTHER -> l
    OBVIOUS
  <1>12. PICK k : k = [k0 EXCEPT !.node[P].next = N, !.node[N].prev = P]
    OBVIOUS
  <1>13. m = Freed(k, i)
    BY <1>3, <1>12 DEF CirLinklistDelete
  <1> DEFINE first == IF i = x THEN N ELSE x
             last  == IF i # x /\ i = y THEN P ELSE y
  <1>4. k0 = [cnt |-> c, first |-> first, last |-> last, node |-> f]
    <2>1. CASE i = l.first
      <3>1. k0 = [l EXCEPT !.first = N]
        BY <1>3, <2>1
      <3> QED BY <1>0, <1>1, <2>1, <3>1 DEF first, last
    <2>2. CASE i # l.first /\ i = l.last
      <3>1. k0 = [l EXCEPT !.last = P]
        BY <1>3, <2>2
      <3> QED BY <1>0, <1>1, <2>2, <3>1 DEF first, last
    <2>3. CASE i # l.first /\ i # l.last
      <3>1. k0 = l
        BY <1>3, <2>3
      <3> QED BY <1>0, <1>1, <2>3, <3>1 DEF first, last
    <2> QED BY <2>1, <2>2, <2>3
  <1> HIDE DEF first, last
  <1>5. g = [f EXCEPT ![P].next = N, ![N].prev = P]
    BY <1>0 DEF NextSet, PrevSet
  <1>6. k = HeadOf(c, first, last, g)
    BY <1>4, <1>5, <1>12 DEF HeadOf
  <1>7. Wrote(f, e, P, N, NullPtr, NullPtr)
    BY <1>0, <1>2, NextWritten
  <1>8. e \in Memory /\ e[N] # Free
    BY <1>2, <1>7 DEF Wrote
  <1>9. Wrote(e, g, NullPtr, NullPtr, N, P)
    BY <1>0, <1>2, <1>8, PrevWritten
  <1>10. Wrote(f, g, P, N, N, P)
    BY <1>2, <1>7, <1>9 DEF Wrote
  <1>11. Parted(l, m, i, P, N) /\ m.first = first /\ m.last = last
    <2>1. m = Freed(HeadOf(l.cnt, first, last, g), i)
      BY <1>0, <1>13, <1>6
    <2>2. Wrote(l.node, g, P, N, N, P)
      BY <1>0, <1>10
    <2>3. Parted(l, m, i, P, N)
      BY <1>2, <2>1, <2>2, Freeing
    <2> QED BY <2>1, <2>3 DEF Freed, HeadOf
  <1> QED BY <1>0, <1>11 DEF first, last

-----------------------------------------------------------------------------
(* What they do to the list.                                               *)

\* What a list is made of.
LEMMA ListStore ==
    ASSUME NEW l, NEW circ, NEW s, IsList(l, circ, s)
    PROVE  /\ s \in Seq(Addr) /\ Injective(s)
           /\ Len(s) \in Nat /\ l.cnt = Len(s) /\ l \in Store
           /\ \A i \in 1 .. Len(s) : s[i] \in Addr /\ s[i] \in Nodes(l)
           /\ \A a \in Nodes(l) : \E i \in 1 .. Len(s) : s[i] = a
           /\ Len(s) > 0 => l.first = s[1] /\ l.last = s[Len(s)]
  <1>1. s \in Seq(Addr) /\ Len(s) \in Nat /\ \A i \in 1 .. Len(s) : s[i] \in Addr
    BY LenProperties DEF IsList
  <1>2. l.cnt = Len(s) /\ l \in Store
    BY <1>1 DEF IsList, Store
  <1> QED BY <1>1, <1>2 DEF IsList, Nodes

\* The neighbours of a new node.
NewBeside(n, s, t, p, new, circ) ==
    /\ n \in Nat /\ p \in 1 .. n + 1
    /\ p > 1 => PrevIn(t, circ, p) = s[p - 1]
    /\ p = 1 /\ circ /\ n > 0 => PrevIn(t, circ, p) = s[n]
    /\ p = 1 /\ ~ circ => PrevIn(t, circ, p) = NullPtr
    /\ p <= n => NextIn(t, circ, p) = s[p]
    /\ p = n + 1 /\ circ /\ n > 0 => NextIn(t, circ, p) = s[1]
    /\ p = n + 1 /\ ~ circ => NextIn(t, circ, p) = NullPtr
    /\ n = 0 /\ circ => PrevIn(t, circ, p) = new /\ NextIn(t, circ, p) = new
    /\ t[1] = IF p = 1 THEN new ELSE s[1]
    /\ t[Len(t)] = IF p = n + 1 THEN new ELSE s[n]

LEMMA NewNeighbours ==
    ASSUME NEW s \in Seq(Addr), NEW t \in Seq(Addr), NEW p, NEW new, LinkedIn(s, t, p, new),
           NEW circ
    PROVE  NewBeside(Len(s), s, t, p, new, circ)
  <1>0. PICK n : n = Len(s)
    OBVIOUS
  <1>1. /\ n \in Nat /\ Len(t) = n + 1 /\ p \in 1 .. n + 1
        /\ \A x \in 1 .. n + 1 : t[x] = IF x < p THEN s[x] ELSE IF x = p THEN new ELSE s[x - 1]
    BY <1>0, LenProperties DEF LinkedIn
  <1>2. /\ PrevIn(t, circ, p) = IF p > 1 THEN t[p - 1] ELSE IF circ THEN t[n + 1] ELSE NullPtr
        /\ NextIn(t, circ, p) = IF p < n + 1 THEN t[p + 1] ELSE IF circ THEN t[1] ELSE NullPtr
    BY <1>1 DEF PrevIn, NextIn
  <1>3. t[1] = IF p = 1 THEN new ELSE s[1]
    BY <1>1
  <1>4. t[n + 1] = IF p = n + 1 THEN new ELSE s[n]
    BY <1>1
  <1>5. p > 1 => t[p - 1] = s[p - 1]
    BY <1>1
  <1>6. p < n + 1 => t[p + 1] = s[p]
    BY <1>1
  <1> QED BY <1>0, <1>1, <1>2, <1>3, <1>4, <1>5, <1>6 DEF NewBeside

\* The list m has a node more than l, at new, in place p, with data d.
Grown(l, m, circ, s, p, new, d) ==
    LET t == InsertAt(s, p, new)
    IN  /\ p \in 1 .. Len(s) + 1
        /\ t \in Seq(Addr) /\ LinkedIn(s, t, p, new) /\ IsList(m, circ, t)
        /\ m.node[new].data = d
        /\ \A i \in 1 .. Len(s) : m.node[s[i]].data = l.node[s[i]].data

\* A node joined to the neighbours of its place makes the list longer by it.
LEMMA JoinedGrows ==
    ASSUME NullPtr \notin Addr, Free \notin NodeOf(Data), NEW circ \in BOOLEAN,
           NEW l, NEW s, IsList(l, circ, s), NEW new \in Unused(l), NEW d \in Data,
           NEW p \in 1 .. Len(s) + 1, NEW m, NEW P, NEW N, Joined(l, m, new, d, P, N),
           P = IF p > 1 THEN s[p - 1]
               ELSE IF ~ circ THEN NullPtr ELSE IF Len(s) = 0 THEN new ELSE s[Len(s)],
           N = IF p <= Len(s) THEN s[p]
               ELSE IF ~ circ THEN NullPtr ELSE IF Len(s) = 0 THEN new ELSE s[1],
           m.first = IF p = 1 THEN new ELSE s[1],
           m.last = IF p = Len(s) + 1 THEN new ELSE s[Len(s)]
    PROVE  Grown(l, m, circ, s, p, new, d)
  <1>1. PICK t : t = InsertAt(s, p, new)
    OBVIOUS
  <1>2. new \in Addr /\ l.node[new] = Free
    BY DEF Unused, Nodes
  <1>3. s \in Seq(Addr) /\ \A i \in 1 .. Len(s) : s[i] \in Addr /\ l.node[s[i]] # Free
    BY ListStore DEF Nodes
  <1>4. t \in Seq(Addr) /\ LinkedIn(s, t, p, new)
    BY <1>1, <1>2, <1>3, InsertLinksIn
  <1>5. /\ P = PrevIn(t, circ, p) /\ N = NextIn(t, circ, p)
        /\ m.first = t[1] /\ m.last = t[Len(t)]
    <2>1. PICK n : n = Len(s)
      OBVIOUS
    <2>2. NewBeside(n, s, t, p, new, circ)
      BY <1>3, <1>4, <2>1, NewNeighbours
    <2>3. P = PrevIn(t, circ, p)
      <3>1. CASE p > 1
        BY <2>2, <3>1 DEF NewBeside
      <3>2. CASE p = 1 /\ ~ circ
        BY <2>2, <3>2 DEF NewBeside
      <3>3. CASE p = 1 /\ circ /\ n = 0
        BY <2>1, <2>2, <3>3 DEF NewBeside
      <3>4. CASE p = 1 /\ circ /\ n > 0
        BY <2>1, <2>2, <3>4 DEF NewBeside
      <3> QED BY <2>2, <3>1, <3>2, <3>3, <3>4 DEF NewBeside
    <2>4. N = NextIn(t, circ, p)
      <3>1. CASE p <= n
        BY <2>1, <2>2, <3>1 DEF NewBeside
      <3>2. CASE p = n + 1 /\ ~ circ
        BY <2>1, <2>2, <3>2 DEF NewBeside
      <3>3. CASE p = n + 1 /\ circ /\ n = 0
        BY <2>1, <2>2, <3>3 DEF NewBeside
      <3>4. CASE p = n + 1 /\ circ /\ n > 0
        BY <2>1, <2>2, <3>4 DEF NewBeside
      <3> QED BY <2>2, <3>1, <3>2, <3>3, <3>4 DEF NewBeside
    <2>5. m.first = t[1] /\ m.last = t[Len(t)]
      BY <2>1, <2>2 DEF NewBeside
    <2> QED BY <2>3, <2>4, <2>5
  <1>6. IsList(m, circ, t)
    BY <1>2, <1>3, <1>4, <1>5, JoinedIsList
  <1>7. ASSUME NEW i \in 1 .. Len(s) PROVE m.node[s[i]].data = l.node[s[i]].data
    BY <1>2, <1>3 DEF Joined
  <1>8. m.node[new].data = d
    BY DEF Joined
  <1> QED BY <1>1, <1>4, <1>6, <1>7, <1>8 DEF Grown

\* So do the four calls that insert, at the place their names say, for both lists.
LEMMA BackGrows ==
    ASSUME NullPtr \notin Addr, Free \notin NodeOf(Data), circular \in BOOLEAN,
           NEW l, NEW s, IsList(l, circular, s), NEW new \in Unused(l), NEW d \in Data
    PROVE  Grown(l, PushBackOf(l, new, d), circular, s, Len(s) + 1, new, d)
  <1>1. PICK m : m = PushBackOf(l, new, d)
    OBVIOUS
  <1>2. PICK n : n = Len(s)
    OBVIOUS
  <1>3. /\ n \in Nat /\ l.cnt = n /\ l \in Store
        /\ \A i \in 1 .. n : s[i] \in Nodes(l)
        /\ n > 0 => l.first = s[1] /\ l.last = s[n]
    BY <1>2, ListStore
  <1>4. CASE ~ circular /\ n = 0
    <2>1. m = LinklistPushBack(l, new, d)
      BY <1>1, <1>4 DEF PushBackOf
    <2>2. Joined(l, m, new, d, NullPtr, NullPtr) /\ m.first = new /\ m.last = new
      BY <1>3, <1>4, <2>1, PushedFirst
    <2>3. ~ (n + 1 > 1) /\ ~ (n + 1 <= n) /\ n + 1 = 1 /\ n + 1 \in 1 .. n + 1
      BY <1>4
    <2> QED BY <1>1, <1>2, <1>4, <2>2, <2>3, JoinedGrows
  <1>5. CASE ~ circular /\ n > 0
    <2>1. m = LinklistPushBack(l, new, d)
      BY <1>1, <1>5 DEF PushBackOf
    <2>2. Joined(l, m, new, d, l.last, NullPtr) /\ m.first = l.first /\ m.last = new
      BY <1>3, <1>5, <2>1, PushedBack
    <2>3. n + 1 > 1 /\ (n + 1) - 1 = n /\ ~ (n + 1 <= n) /\ n + 1 # 1 /\ n + 1 \in 1 .. n + 1
      BY <1>3, <1>5
    <2> QED BY <1>1, <1>2, <1>3, <1>5, <2>2, <2>3, JoinedGrows
  <1>6. CASE circular /\ n = 0
    <2>1. m = CirLinklistPushBack(l, new, d)
      BY <1>1, <1>6 DEF PushBackOf
    <2>2. Joined(l, m, new, d, new, new) /\ m.first = new /\ m.last = new
      BY <1>3, <1>6, <2>1, CirPushedFirst
    <2>3. ~ (n + 1 > 1) /\ ~ (n + 1 <= n) /\ n + 1 = 1 /\ n + 1 \in 1 .. n + 1
      BY <1>6
    <2> QED BY <1>1, <1>2, <1>6, <2>2, <2>3, JoinedGrows
  <1>7. CASE circular /\ n > 0
    <2>1. m = CirLinklistPushBack(l, new, d)
      BY <1>1, <1>7 DEF PushBackOf
    <2>2. Joined(l, m, new, d, l.last, l.first) /\ m.first = l.first /\ m.last = new
      BY <1>3, <1>7, <2>1, CirPushedBack
    <2>3. /\ n + 1 > 1 /\ (n + 1) - 1 = n /\ ~ (n + 1 <= n)
          /\ n + 1 # 1 /\ n + 1 \in 1 .. n + 1 /\ n # 0
      BY <1>3, <1>7
    <2> QED BY <1>1, <1>2, <1>3, <1>7, <2>2, <2>3, JoinedGrows
  <1> QED BY <1>3, <1>4, <1>5, <1>6, <1>7

LEMMA HeadGrows ==
    ASSUME NullPtr \notin Addr, Free \notin NodeOf(Data), circular \in BOOLEAN,
           NEW l, NEW s, IsList(l, circular, s), NEW new \in Unused(l), NEW d \in Data
    PROVE  Grown(l, PushHeadOf(l, new, d), circular, s, 1, new, d)
  <1>1. PICK m : m = PushHeadOf(l, new, d)
    OBVIOUS
  <1>2. PICK n : n = Len(s)
    OBVIOUS
  <1>3. /\ n \in Nat /\ l.cnt = n /\ l \in Store
        /\ \A i \in 1 .. n : s[i] \in Nodes(l)
        /\ n > 0 => l.first = s[1] /\ l.last = s[n]
    BY <1>2, ListStore
  <1>4. CASE ~ circular /\ n = 0
    <2>1. m = LinklistPushHead(l, new, d)
      BY <1>1, <1>4 DEF PushHeadOf
    <2>2. Joined(l, m, new, d, NullPtr, NullPtr) /\ m.first = new /\ m.last = new
      BY <1>3, <1>4, <2>1, PushedFirst
    <2>3. ~ (1 > 1) /\ ~ (1 <= n) /\ 1 = n + 1 /\ 1 \in 1 .. n + 1
      BY <1>4
    <2> QED BY <1>1, <1>2, <1>4, <2>2, <2>3, JoinedGrows
  <1>5. CASE ~ circular /\ n > 0
    <2>1. m = LinklistPushHead(l, new, d)
      BY <1>1, <1>5 DEF PushHeadOf
    <2>2. Joined(l, m, new, d, NullPtr, l.first) /\ m.first = new /\ m.last = l.last
      BY <1>3, <1>5, <2>1, PushedHead
    <2>3. ~ (1 > 1) /\ 1 <= n /\ 1 # n + 1 /\ 1 \in 1 .. n + 1
      BY <1>3, <1>5
    <2> QED BY <1>1, <1>2, <1>3, <1>5, <2>2, <2>3, JoinedGrows
  <1>6. CASE circular /\ n = 0
    <2>1. m = CirLinklistPushHead(l, new, d)
      BY <1>1, <1>6 DEF PushHeadOf
    <2>2. Joined(l, m, new, d, new, new) /\ m.first = new /\ m.last = new
      BY <1>3, <1>6, <2>1, CirPushedFirst
    <2>3. ~ (1 > 1) /\ ~ (1 <= n) /\ 1 = n + 1 /\ 1 \in 1 .. n + 1
      BY <1>6
    <2> QED BY <1>1, <1>2, <1>6, <2>2, <2>3, JoinedGrows
  <1>7. CASE circular /\ n > 0
    <2>1. m = CirLinklistPushHead(l, new, d)
      BY <1>1, <1>7 DEF PushHeadOf
    <2>2. Joined(l, m, new, d, l.last, l.first) /\ m.first = new /\ m.last = l.last
      BY <1>3, <1>7, <2>1, CirPushedHead
    <2>3. ~ (1 > 1) /\ 1 <= n /\ 1 # n + 1 /\ 1 \in 1 .. n + 1 /\ n # 0
      BY <1>3, <1>7
    <2> QED BY <1>1, <1>2, <1>3, <1>7, <2>2, <2>3, JoinedGrows
  <1> QED BY <1>3, <1>4, <1>5, <1>6, <1>7

LEMMA AfterGrows ==
    ASSUME NullPtr \notin Addr, Free \notin NodeOf(Data), circular \in BOOLEAN,
           NEW l, NEW s, IsList(l, circular, s), NEW new \in Unused(l), NEW d \in Data,
           NEW i \in 1 .. Len(s), it = s[i]
    PROVE  Grown(l, InsertAfterOf(l, new, d), circular, s, i + 1, new, d)
  <1>1. PICK m : m = InsertAfterOf(l, new, d)
    OBVIOUS
  <1>2. PICK n : n = Len(s)
    OBVIOUS
  <1>3. /\ n \in Nat /\ l \in Store /\ i \in 1 .. n /\ n > 0
        /\ \A j \in 1 .. n : s[j] \in Nodes(l)
        /\ l.first = s[1] /\ l.last = s[n]
    BY <1>2, ListStore
  <1>4. \A x, y \in 1 .. n : s[x] = s[y] => x = y
    BY <1>2 DEF IsList, Injective
  <1>5. CASE i = n
    <2>1. m = PushBackOf(l, new, d)
      BY <1>1, <1>3, <1>5 DEF InsertAfterOf, PushBackOf, LinklistInsertAfter,
                              CirLinklistInsertAfter
    <2> QED BY <1>1, <1>2, <1>5, <2>1, BackGrows
  <1>6. CASE i # n
    <2>1. it # l.last
      BY <1>3, <1>4, <1>6
    <2>2. m = LinkAfter(l, it, new, d)
      BY <1>1, <2>1 DEF InsertAfterOf, LinklistInsertAfter,
                        CirLinklistInsertAfter
    <2>3. i + 1 \in 1 .. n /\ i < n /\ i + 1 > 1 /\ (i + 1) - 1 = i /\ i + 1 # 1
          /\ i + 1 # n + 1 /\ i + 1 <= n /\ i + 1 \in 1 .. n + 1
      BY <1>3, <1>6
    <2>4. l.node[it].next = s[i + 1]
      BY <1>2, <2>3 DEF IsList, NextIn
    <2>5. it \in Nodes(l) /\ l.node[it].next \in Nodes(l)
      BY <1>3, <2>3, <2>4
    <2>6. Joined(l, m, new, d, it, s[i + 1]) /\ m.first = l.first /\ m.last = l.last
      BY <1>3, <2>2, <2>4, <2>5, LinkedAfter
    <2> QED BY <1>1, <1>2, <1>3, <2>3, <2>6, JoinedGrows
  <1> QED BY <1>5, <1>6

LEMMA BeforeGrows ==
    ASSUME NullPtr \notin Addr, Free \notin NodeOf(Data), circular \in BOOLEAN,
           NEW l, NEW s, IsList(l, circular, s), NEW new \in Unused(l), NEW d \in Data,
           NEW i \in 1 .. Len(s), it = s[i]
    PROVE  Grown(l, InsertBeforeOf(l, new, d), circular, s, i, new, d)
  <1>1. PICK m : m = InsertBeforeOf(l, new, d)
    OBVIOUS
  <1>2. PICK n : n = Len(s)
    OBVIOUS
  <1>3. /\ n \in Nat /\ l \in Store /\ i \in 1 .. n /\ n > 0
        /\ \A j \in 1 .. n : s[j] \in Nodes(l)
        /\ l.first = s[1] /\ l.last = s[n]
    BY <1>2, ListStore
  <1>4. \A x, y \in 1 .. n : s[x] = s[y] => x = y
    BY <1>2 DEF IsList, Injective
  <1>5. CASE i = 1
    <2>1. m = PushHeadOf(l, new, d)
      BY <1>1, <1>3, <1>5 DEF InsertBeforeOf, PushHeadOf, LinklistInsertBefore,
                              CirLinklistInsertBefore
    <2> QED BY <1>1, <1>5, <2>1, HeadGrows
  <1>6. CASE i # 1
    <2>1. it # l.first
      BY <1>3, <1>4, <1>6
    <2>2. m = LinkBefore(l, it, new, d)
      BY <1>1, <2>1 DEF InsertBeforeOf, LinklistInsertBefore,
                        CirLinklistInsertBefore
    <2>3. i - 1 \in 1 .. n /\ i > 1 /\ i <= n /\ i # n + 1 /\ i \in 1 .. n + 1
      BY <1>3, <1>6
    <2>4. l.node[it].prev = s[i - 1]
      BY <1>2, <2>3 DEF IsList, PrevIn
    <2>5. it \in Nodes(l) /\ l.node[it].prev \in Nodes(l)
      BY <1>3, <2>3, <2>4
    <2>6. Joined(l, m, new, d, s[i - 1], it) /\ m.first = l.first /\ m.last = l.last
      BY <1>3, <2>2, <2>4, <2>5, LinkedBefore
    <2> QED BY <1>1, <1>2, <1>3, <1>6, <2>3, <2>6, JoinedGrows
  <1> QED BY <1>5, <1>6

\* The list m has a node less than l, that in place p.
Shrunk(l, m, circ, s, p) ==
    LET r == RemoveAt(s, p)
    IN  /\ r \in Seq(Addr) /\ LinkedIn(r, s, p, s[p]) /\ IsList(m, circ, r)
        /\ \A i \in 1 .. Len(r) : m.node[r[i]].data = l.node[r[i]].data

\* Deleting makes it shorter, for both lists.
LEMMA DeleteShrinks ==
    ASSUME NullPtr \notin Addr, Free \notin NodeOf(Data), circular \in BOOLEAN,
           NEW l, NEW s, IsList(l, circular, s), NEW p \in 1 .. Len(s), it = s[p]
    PROVE  Shrunk(l, DeleteOf(l), circular, s, p)
  <1>1. PICK m : m = DeleteOf(l)
    OBVIOUS
  <1>2. PICK n : n = Len(s)
    OBVIOUS
  <1>3. /\ n \in Nat /\ l \in Store /\ p \in 1 .. n /\ n > 0 /\ l.cnt = n /\ s \in Seq(Addr)
        /\ \A j \in 1 .. n : s[j] \in Nodes(l) /\ s[j] \in Addr
        /\ l.first = s[1] /\ l.last = s[n]
    BY <1>2, ListStore
  <1>4. \A x, y \in 1 .. n : s[x] = s[y] => x = y
    BY <1>2 DEF IsList, Injective
  <1>5. PICK r : r = RemoveAt(s, p)
    OBVIOUS
  <1>6. r \in Seq(Addr) /\ LinkedIn(r, s, p, s[p])
    BY <1>2, <1>3, <1>5, RemoveUnlinks
  <1>7. /\ Len(r) = n - 1
        /\ \A j \in 1 .. n - 1 : r[j] = IF j < p THEN s[j] ELSE s[j + 1]
    <2>1. Len(r) \in Nat /\ n = Len(r) + 1
      BY <1>2, <1>6, LenProperties DEF LinkedIn
    <2>2. ASSUME NEW j \in 1 .. n - 1 PROVE r[j] = IF j < p THEN s[j] ELSE s[j + 1]
      <3>1. CASE j < p
        BY <1>2, <1>3, <1>6, <2>2, <3>1 DEF LinkedIn
      <3>2. CASE ~ (j < p)
        <4>1. j + 1 \in 1 .. Len(s) /\ ~ (j + 1 < p) /\ j + 1 # p /\ (j + 1) - 1 = j
          BY <1>2, <1>3, <2>2, <3>2
        <4>2. s[j + 1] = r[(j + 1) - 1]
          BY <1>6, <4>1 DEF LinkedIn
        <4> QED BY <3>2, <4>1, <4>2
      <3> QED BY <3>1, <3>2
    <2> QED BY <1>3, <2>1, <2>2
  <1>8. PICK P, N : P = l.node[it].prev /\ N = l.node[it].next
    OBVIOUS
  <1>9. P = PrevIn(s, circular, p) /\ N = NextIn(s, circular, p)
    BY <1>8 DEF IsList
  <1>10. /\ P = IF p > 1 THEN s[p - 1] ELSE IF circular THEN s[n] ELSE NullPtr
         /\ N = IF p < n THEN s[p + 1] ELSE IF circular THEN s[1] ELSE NullPtr
    BY <1>2, <1>9 DEF PrevIn, NextIn
  <1>11. it \in Nodes(l) /\ it \in Addr /\ \A j \in 1 .. n : s[j] # NullPtr
    BY <1>2, <1>3
  <1>12. /\ Parted(l, m, it, P, N)
         /\ m.first \in Pointer /\ m.last \in Pointer
         /\ n > 1 => m.first = r[1] /\ m.last = r[n - 1]
         /\ n = 1 /\ ~ circular => m.first = NullPtr /\ m.last = NullPtr
    <2>1. /\ n > 1 => r[1] = IF p = 1 THEN s[2] ELSE s[1]
          /\ n > 1 => r[n - 1] = IF p = n THEN s[n - 1] ELSE s[n]
      <3>1. n > 1 => r[1] = IF p = 1 THEN s[2] ELSE s[1]
        BY <1>3, <1>7
      <3>2. n > 1 => r[n - 1] = IF p = n THEN s[n - 1] ELSE s[n]
        BY <1>3, <1>7
      <3> QED BY <3>1, <3>2
    <2>2. CASE ~ circular
      <3>1. m = LinklistDelete(l, it)
        BY <1>1, <2>2 DEF DeleteOf
      <3>2. /\ P = IF p > 1 THEN s[p - 1] ELSE NullPtr
            /\ N = IF p < n THEN s[p + 1] ELSE NullPtr
        BY <1>10, <2>2
      <3>3. P \in Nodes(l) \cup {NullPtr} /\ N \in Nodes(l) \cup {NullPtr}
        BY <1>3, <3>2
      <3>4. (P = NullPtr <=> p = 1) /\ (N = NullPtr <=> p = n)
        BY <1>3, <1>11, <3>2
      <3>5. n = 1 <=> P = NullPtr /\ N = NullPtr
        BY <1>3, <3>4
      <3>6. /\ Parted(l, m, it, P, N)
            /\ m.first = IF P = NullPtr THEN N ELSE l.first
            /\ m.last = IF N = NullPtr THEN P ELSE l.last
        BY <1>3, <1>8, <1>11, <3>1, <3>3, <3>5, Deleted
      <3>7. m.first = (IF p = 1 THEN IF 1 < n THEN s[2] ELSE NullPtr ELSE s[1])
            /\ m.last = (IF p = n THEN IF n > 1 THEN s[n - 1] ELSE NullPtr ELSE s[n])
        BY <1>3, <3>2, <3>4, <3>6
      <3>8. m.first \in Pointer /\ m.last \in Pointer
        BY <1>3, <3>7 DEF Pointer
      <3> QED BY <1>3, <2>1, <2>2, <3>6, <3>7, <3>8
    <2>3. CASE circular
      <3>1. m = CirLinklistDelete(l, it)
        BY <1>1, <2>3 DEF DeleteOf
      <3>2. /\ P = IF p > 1 THEN s[p - 1] ELSE s[n]
            /\ N = IF p < n THEN s[p + 1] ELSE s[1]
        BY <1>10, <2>3
      <3>3. P \in Nodes(l) /\ N \in Nodes(l)
        BY <1>3, <3>2
      <3>4. (it = l.first <=> p = 1) /\ (it = l.last <=> p = n)
        BY <1>2, <1>3, <1>4
      <3>5. /\ Parted(l, m, it, P, N)
            /\ m.first = IF it = l.first THEN N ELSE l.first
            /\ m.last = IF it # l.first /\ it = l.last THEN P ELSE l.last
        BY <1>3, <1>8, <1>11, <3>1, <3>3, CirDeleted
      <3>6. m.first = (IF p = 1 THEN IF 1 < n THEN s[2] ELSE s[1] ELSE s[1])
            /\ m.last = (IF p # 1 /\ p = n THEN s[n - 1] ELSE s[n])
        BY <1>3, <3>2, <3>4, <3>5
      <3>7. m.first \in Pointer /\ m.last \in Pointer
        BY <1>3, <3>6 DEF Pointer
      <3>8. n > 1 => m.first = r[1] /\ m.last = r[n - 1]
        BY <1>3, <2>1, <3>6
      <3> QED BY <2>3, <3>5, <3>7, <3>8
    <2> QED BY <2>2, <2>3
  <1>13. IsList(m, circular, r)
    <2>1. Len(r) > 0 => m.first = r[1] /\ m.last = r[Len(r)]
      BY <1>3, <1>7, <1>12
    <2>2. Len(r) = 0 /\ ~ circular => m.first = NullPtr /\ m.last = NullPtr
      BY <1>3, <1>7, <1>12
    <2>3. Parted(l, m, it, PrevIn(s, circular, p), NextIn(s, circular, p))
      BY <1>9, <1>12
    <2>4. LinkedIn(r, s, p, it)
      BY <1>6
    <2> QED BY <1>3, <1>6, <1>11, <1>12, <2>1, <2>2, <2>3, <2>4, PartedIsList
  <1>14. ASSUME NEW i \in 1 .. Len(r) PROVE m.node[r[i]].data = l.node[r[i]].data
    <2>1. PICK j \in 1 .. n : j # p /\ r[i] = s[j]
      <3>1. i \in 1 .. n - 1 /\ i \in 1 .. n /\ i + 1 \in 1 .. n
        BY <1>3, <1>7
      <3>2. CASE i < p
        BY <1>7, <3>1, <3>2
      <3>3. CASE ~ (i < p)
        <4>1. i + 1 # p /\ r[i] = s[i + 1]
          BY <1>3, <1>7, <3>1, <3>3
        <4> QED BY <3>1, <4>1
      <3> QED BY <3>2, <3>3
    <2>2. s[j] # it /\ s[j] \in Addr /\ l.node[s[j]] # Free
      BY <1>2, <1>3, <1>4, <2>1 DEF Nodes
    <2> QED BY <1>12, <2>1, <2>2 DEF Parted
  <1> QED BY <1>1, <1>5, <1>6, <1>13, <1>14 DEF Shrunk

-----------------------------------------------------------------------------
(* The inductive invariant.                                                *)

\* The list is one, and without a circle no iterator is left on a node that is gone.
Linked ==
    /\ circular \in BOOLEAN /\ fault \in BOOLEAN /\ it \in Pointer
    /\ \E s : IsList(list, circular, s)
    /\ ~ circular => it \in Nodes(list) \cup {NullPtr}

\* The invariant has all of WellLinked.
LEMMA LinkedWell == ASSUME Linked PROVE WellLinked
  <1>1. PICK s : IsList(list, circular, s)
    BY DEF Linked
  <1>2. /\ s \in Seq(Addr) /\ Injective(s) /\ Len(s) \in Nat
        /\ list.cnt = Len(s) /\ list \in Store
        /\ \A i \in 1 .. Len(s) : s[i] \in Addr /\ s[i] \in Nodes(list)
        /\ \A a \in Nodes(list) : \E i \in 1 .. Len(s) : s[i] = a
        /\ Len(s) > 0 => list.first = s[1] /\ list.last = s[Len(s)]
    BY <1>1, ListStore
  <1>3. Spelled = s
    BY <1>1, SpelledIs
  <1>4. ListTypeOK
    BY <1>2 DEF Linked, ListTypeOK, Store, Memory
  <1>5. \A i, j \in 1 .. list.cnt : Spelled[i] = Spelled[j] => i = j
    BY <1>2, <1>3 DEF Injective
  <1>6. {Spelled[i] : i \in 1 .. list.cnt} = Nodes(list)
    BY <1>2, <1>3
  <1>7. list.cnt = 0 /\ ~ circular => list.first = NullPtr /\ list.last = NullPtr
    BY <1>1, <1>2 DEF IsList
  <1>8. ASSUME list.cnt > 0
        PROVE  /\ list.first = Spelled[1] /\ list.last = Spelled[list.cnt]
               /\ list.node[list.first].prev = IF circular THEN list.last ELSE NullPtr
               /\ list.node[list.last].next = IF circular THEN list.first ELSE NullPtr
               /\ \A i \in 2 .. list.cnt : list.node[Spelled[i]].prev = Spelled[i - 1]
    <2>1. 1 \in 1 .. Len(s) /\ Len(s) \in 1 .. Len(s)
      BY <1>2, <1>8
    <2>2. list.node[s[1]].prev = IF circular THEN s[Len(s)] ELSE NullPtr
      BY <1>1, <2>1 DEF IsList, PrevIn
    <2>3. list.node[s[Len(s)]].next = IF circular THEN s[1] ELSE NullPtr
      BY <1>1, <1>2, <2>1 DEF IsList, NextIn
    <2>4. \A i \in 2 .. Len(s) : list.node[s[i]].prev = s[i - 1]
      BY <1>1, <1>2 DEF IsList, PrevIn
    <2>5. list.first = s[1] /\ list.last = s[Len(s)]
      BY <1>2, <1>8
    <2> QED BY <1>2, <1>3, <2>2, <2>3, <2>4, <2>5
  <1> QED BY <1>4, <1>5, <1>6, <1>7, <1>8 DEF WellLinked

\* It holds of a new list.
LEMMA InitLinked ==
    ASSUME NullPtr \notin Addr, ListInit
    PROVE  IsList(list, circular, <<>>) /\ Linked
  <1>1. PICK s : s = <<>>
    OBVIOUS
  <1>2. s \in Seq(Addr) /\ Len(s) = 0
    BY <1>1
  <1>3. list = [cnt |-> 0, first |-> NullPtr, last |-> NullPtr, node |-> [a \in Addr |-> Free]]
    BY DEF ListInit, LinklistCreate
  <1>4. IsList(list, circular, s)
    BY <1>2, <1>3 DEF IsList, Injective, Memory, Pointer
  <1> QED BY <1>1, <1>4 DEF Linked, ListInit, Pointer

\* Where a call moves an iterator.
LEMMA NodeAt ==
    ASSUME NEW l, NEW circ, NEW s, IsList(l, circ, s), NEW a \in Nodes(l)
    PROVE  \E p \in 1 .. Len(s) : /\ a = s[p]
                                  /\ l.node[a].next = NextIn(s, circ, p)
                                  /\ l.node[a].prev = PrevIn(s, circ, p)
  <1>1. PICK p \in 1 .. Len(s) : s[p] = a
    BY DEF IsList, Nodes
  <1> QED BY <1>1 DEF IsList

\* The nodes in memory afterwards.
LEMMA GrownNodes ==
    ASSUME NEW l, NEW circ, NEW s, IsList(l, circ, s), NEW m, NEW p, NEW new, NEW d,
           Grown(l, m, circ, s, p, new, d)
    PROVE  Nodes(m) = Nodes(l) \cup {new}
  <1>1. PICK t : t = InsertAt(s, p, new)
    OBVIOUS
  <1>2. t \in Seq(Addr) /\ LinkedIn(s, t, p, new) /\ IsList(m, circ, t)
    BY <1>1 DEF Grown
  <1>3. s \in Seq(Addr)
    BY DEF IsList
  <1>4. ShiftedBy(s, t, p, new)
    BY <1>2, <1>3, PlacesShift, Zenon
  <1>5. /\ \A i \in 1 .. Len(s) : s[i] \in Nodes(l)
        /\ \A a \in Nodes(l) : \E i \in 1 .. Len(s) : s[i] = a
        /\ \A i \in 1 .. Len(t) : t[i] \in Nodes(m)
        /\ \A a \in Nodes(m) : \E i \in 1 .. Len(t) : t[i] = a
    BY <1>2, ListStore
  <1>6. ASSUME NEW a \in Nodes(m) PROVE a \in Nodes(l) \cup {new}
    <2>1. PICK i \in 1 .. Len(t) : t[i] = a
      BY <1>5
    <2>2. CASE i = p
      BY <1>4, <2>1, <2>2 DEF ShiftedBy
    <2>3. CASE i # p
      <3>1. Down(p, i) \in 1 .. Len(s) /\ t[i] = s[Down(p, i)]
        BY <1>4, <2>3 DEF ShiftedBy
      <3> QED BY <1>5, <2>1, <3>1
    <2> QED BY <2>2, <2>3
  <1>7. ASSUME NEW a \in Nodes(l) \cup {new} PROVE a \in Nodes(m)
    <2>1. CASE a = new
      <3>1. p \in 1 .. Len(t) /\ t[p] = a
        BY <1>4, <2>1 DEF ShiftedBy
      <3> QED BY <1>5, <3>1
    <2>2. CASE a \in Nodes(l)
      <3>1. PICK i \in 1 .. Len(s) : s[i] = a
        BY <1>5, <2>2
      <3>2. Up(p, i) \in 1 .. Len(t) /\ t[Up(p, i)] = a
        BY <1>4, <3>1 DEF ShiftedBy
      <3> QED BY <1>5, <3>2
    <2> QED BY <2>1, <2>2
  <1> QED BY <1>6, <1>7

LEMMA ShrunkNodes ==
    ASSUME NEW l, NEW circ, NEW s, IsList(l, circ, s), NEW m, NEW p, Shrunk(l, m, circ, s, p)
    PROVE  Nodes(m) = Nodes(l) \ {s[p]}
  <1>1. PICK r : r = RemoveAt(s, p)
    OBVIOUS
  <1>2. r \in Seq(Addr) /\ LinkedIn(r, s, p, s[p]) /\ IsList(m, circ, r)
    BY <1>1 DEF Shrunk
  <1>3. s \in Seq(Addr) /\ Injective(s)
    BY DEF IsList
  <1>4. ShiftedBy(r, s, p, s[p])
    BY <1>2, <1>3, PlacesShift, Zenon
  <1>5. /\ \A i \in 1 .. Len(s) : s[i] \in Nodes(l)
        /\ \A a \in Nodes(l) : \E i \in 1 .. Len(s) : s[i] = a
        /\ \A i \in 1 .. Len(r) : r[i] \in Nodes(m)
        /\ \A a \in Nodes(m) : \E i \in 1 .. Len(r) : r[i] = a
    <2>1. /\ \A i \in 1 .. Len(s) : s[i] \in Nodes(l)
          /\ \A a \in Nodes(l) : \E i \in 1 .. Len(s) : s[i] = a
      BY ListStore
    <2>2. /\ \A i \in 1 .. Len(r) : r[i] \in Nodes(m)
          /\ \A a \in Nodes(m) : \E i \in 1 .. Len(r) : r[i] = a
      BY <1>2, ListStore
    <2> QED BY <2>1, <2>2
  <1>6. ASSUME NEW a \in Nodes(m) PROVE a \in Nodes(l) \ {s[p]}
    BY <1>3, <1>4, <1>5 DEF ShiftedBy
  <1>7. ASSUME NEW a \in Nodes(l) \ {s[p]} PROVE a \in Nodes(m)
    <2>1. PICK i \in 1 .. Len(s) : s[i] = a
      BY <1>5
    <2>2. Down(p, i) \in 1 .. Len(r) /\ s[i] = r[Down(p, i)]
      BY <1>4, <1>7, <2>1 DEF ShiftedBy
    <2> QED BY <1>5, <2>1, <2>2
  <1> QED BY <1>6, <1>7

\* So the invariant stays.
LEMMA Inserts ==
    ASSUME NullPtr \notin Addr, Free \notin NodeOf(Data), Linked,
           NEW s, IsList(list, circular, s), NEW p, NEW d \in Data,
           NEW new \in Unused(list),
           Grown(list, list', circular, s, p, new, d), UNCHANGED <<circular, it, fault>>
    PROVE  Linked'
  <1>1. IsList(list', circular', InsertAt(s, p, new))
    BY DEF Grown
  <1>2. Nodes(list') = Nodes(list) \cup {new}
    BY GrownNodes
  <1>3. Nodes(list)' = Nodes(list')
    BY DEF Nodes
  <1>4. /\ circular' \in BOOLEAN /\ fault' \in BOOLEAN /\ it' \in Pointer
        /\ ~ circular' => it' \in Nodes(list') \cup {NullPtr}
    BY <1>2 DEF Linked
  <1> QED BY <1>1, <1>3, <1>4 DEF Linked

LEMMA Deletes ==
    ASSUME NullPtr \notin Addr, Free \notin NodeOf(Data), Linked,
           NEW s, IsList(list, circular, s), NEW p \in 1 .. Len(s), it = s[p],
           Shrunk(list, list', circular, s, p), it' = list.node[it].next,
           UNCHANGED <<circular, fault>>
    PROVE  Linked'
  <1>1. IsList(list', circular', RemoveAt(s, p))
    BY DEF Shrunk
  <1>2. Nodes(list') = Nodes(list) \ {it}
    BY ShrunkNodes
  <1>3. Nodes(list)' = Nodes(list')
    BY DEF Nodes
  <1>4. /\ s \in Seq(Addr) /\ Injective(s) /\ Len(s) \in Nat
        /\ \A i \in 1 .. Len(s) : s[i] \in Addr /\ s[i] \in Nodes(list)
    BY ListStore
  <1>5. it' = NextIn(s, circular, p)
    BY DEF IsList
  <1>6. it' \in Pointer
    BY <1>4, <1>5 DEF NextIn, Pointer
  <1>7. ASSUME ~ circular PROVE it' \in Nodes(list') \cup {NullPtr}
    <2>1. CASE p = Len(s)
      BY <1>5, <1>7, <2>1 DEF NextIn
    <2>2. CASE p # Len(s)
      <3>1. p + 1 \in 1 .. Len(s) /\ p < Len(s) /\ p + 1 # p
        BY <1>4, <2>2
      <3>2. it' = s[p + 1] /\ s[p + 1] # it
        BY <1>4, <1>5, <3>1 DEF NextIn, Injective
      <3> QED BY <1>2, <1>4, <3>1, <3>2
    <2> QED BY <2>1, <2>2
  <1>8. circular' \in BOOLEAN /\ fault' \in BOOLEAN
    BY DEF Linked
  <1> QED BY <1>1, <1>3, <1>6, <1>7, <1>8 DEF Linked

\* The list stays as it is.
LEMMA Stays ==
    ASSUME Linked, UNCHANGED <<circular, list>>, fault' \in BOOLEAN,
           it' \in Pointer, ~ circular => it' \in Nodes(list) \cup {NullPtr}
    PROVE  Linked'
  <1>1. Nodes(list)' = Nodes(list)
    BY DEF Nodes
  <1> QED BY <1>1 DEF Linked

\* Every call keeps the invariant.
LEMMA LinkedStep ==
    ASSUME NullPtr \notin Addr, Free \notin NodeOf(Data), Linked, [ListNext]_vars
    PROVE  Linked'
  <1>1. PICK s : IsList(list, circular, s)
    BY DEF Linked
  <1>2. /\ s \in Seq(Addr) /\ Len(s) \in Nat
        /\ \A i \in 1 .. Len(s) : s[i] \in Addr /\ s[i] \in Nodes(list)
        /\ \A a \in Nodes(list) : \E i \in 1 .. Len(s) : s[i] = a
        /\ Len(s) > 0 => list.first = s[1] /\ list.last = s[Len(s)]
    BY <1>1, ListStore
  <1>3. circular \in BOOLEAN /\ fault \in BOOLEAN /\ it \in Pointer
        /\ (~ circular => it \in Nodes(list) \cup {NullPtr})
    BY DEF Linked
  <1>4. CASE UNCHANGED <<circular, list, it, fault>>
    BY <1>3, <1>4, Stays
  <1>5. ASSUME NEW d \in Data, PushBack(d) PROVE Linked'
    <2>1. CASE list' = list
      BY <1>4, <1>5, <2>1 DEF PushBack, Refuse, Return
    <2>2. CASE \E new \in Unused(list) :
                  Return(Call("push_back", d, 0), PushBackOf(list, new, d), it)
      <3>1. PICK new \in Unused(list) : list' = PushBackOf(list, new, d)
        BY <2>2 DEF Return
      <3>2. Grown(list, list', circular, s, Len(s) + 1, new, d)
        BY <1>1, <1>3, <3>1, BackGrows
      <3> QED BY <1>1, <2>2, <3>2, Inserts DEF Return
    <2> QED BY <1>5, <2>1, <2>2 DEF PushBack, Refuse, Return
  <1>6. ASSUME NEW d \in Data, PushHead(d) PROVE Linked'
    <2>1. CASE list' = list
      BY <1>4, <1>6, <2>1 DEF PushHead, Refuse, Return
    <2>2. CASE \E new \in Unused(list) :
                  Return(Call("push_head", d, 0), PushHeadOf(list, new, d), it)
      <3>1. PICK new \in Unused(list) : list' = PushHeadOf(list, new, d)
        BY <2>2 DEF Return
      <3>2. Grown(list, list', circular, s, 1, new, d)
        BY <1>1, <1>3, <3>1, HeadGrows
      <3> QED BY <1>1, <2>2, <3>2, Inserts DEF Return
    <2> QED BY <1>6, <2>1, <2>2 DEF PushHead, Refuse, Return
  <1>7. ASSUME NEW d \in Data, InsertAfter(d) PROVE Linked'
    <2>1. CASE list' = list
      BY <1>4, <1>7, <2>1 DEF InsertAfter, Refuse, Return
    <2>2. CASE OnNode /\ \E new \in Unused(list) :
                  Return(Call("insert_after", d, 0),
                              InsertAfterOf(list, new, d), it)
      <3>1. PICK new \in Unused(list) : list' = InsertAfterOf(list, new, d)
        BY <2>2 DEF Return
      <3>2. PICK i \in 1 .. Len(s) : it = s[i]
        BY <1>2, <2>2 DEF OnNode
      <3>3. Grown(list, list', circular, s, i + 1, new, d)
        BY <1>1, <1>3, <3>1, <3>2, AfterGrows
      <3> QED BY <1>1, <2>2, <3>3, Inserts DEF Return
    <2> QED BY <1>7, <2>1, <2>2 DEF InsertAfter, Refuse, Return
  <1>8. ASSUME NEW d \in Data, InsertBefore(d) PROVE Linked'
    <2>1. CASE list' = list
      BY <1>4, <1>8, <2>1 DEF InsertBefore, Refuse, Return
    <2>2. CASE OnNode /\ \E new \in Unused(list) :
                  Return(Call("insert_before", d, 0),
                              InsertBeforeOf(list, new, d), it)
      <3>1. PICK new \in Unused(list) : list' = InsertBeforeOf(list, new, d)
        BY <2>2 DEF Return
      <3>2. PICK i \in 1 .. Len(s) : it = s[i]
        BY <1>2, <2>2 DEF OnNode
      <3>3. Grown(list, list', circular, s, i, new, d)
        BY <1>1, <1>3, <3>1, <3>2, BeforeGrows
      <3> QED BY <1>1, <2>2, <3>3, Inserts DEF Return
    <2> QED BY <1>8, <2>1, <2>2 DEF InsertBefore, Refuse, Return
  <1>9. ASSUME Delete PROVE Linked'
    <2>1. CASE list' = list /\ it' = it
      BY <1>4, <1>9, <2>1 DEF Delete, Refuse, Return
    <2>2. CASE OnNode /\ Return(Call("delete", NoCall, 0), DeleteOf(list),
                                          DeletedNext(list, it))
      <3>1. PICK i \in 1 .. Len(s) : it = s[i]
        BY <1>2, <2>2 DEF OnNode
      <3>2. Shrunk(list, list', circular, s, i)
        BY <1>1, <1>3, <2>2, <3>1, DeleteShrinks DEF Return
      <3> QED BY <1>1, <2>2, <3>1, <3>2, Deletes DEF Return, DeletedNext
    <2> QED BY <1>9, <2>1, <2>2 DEF Delete, Refuse, Return
  <1>10. ASSUME UNCHANGED <<circular, list, fault>>,
                \/ it' \in {list.first, list.last}
                \/ OnNode /\ it' \in {list.node[it].next, list.node[it].prev}
         PROVE  Linked'
    <2>1. list.first \in Pointer /\ list.last \in Pointer
      BY <1>1 DEF IsList
    <2>2. ~ circular => list.first \in Nodes(list) \cup {NullPtr}
                        /\ list.last \in Nodes(list) \cup {NullPtr}
      BY <1>1, <1>2 DEF IsList
    <2>3. ASSUME NEW i \in 1 .. Len(s),
                 NEW x \in {NextIn(s, circular, i), PrevIn(s, circular, i)}
          PROVE  x \in Pointer /\ (~ circular => x \in Nodes(list) \cup {NullPtr})
      BY <1>2 DEF NextIn, PrevIn, Pointer
    <2>4. OnNode => \E i \in 1 .. Len(s) :
                             /\ list.node[it].next = NextIn(s, circular, i)
                             /\ list.node[it].prev = PrevIn(s, circular, i)
      BY <1>1, NodeAt DEF OnNode
    <2>5. it' \in Pointer /\ (~ circular => it' \in Nodes(list) \cup {NullPtr})
      <3>1. CASE it' \in {list.first, list.last}
        BY <2>1, <2>2, <3>1
      <3>2. CASE OnNode /\ it' \in {list.node[it].next, list.node[it].prev}
        BY <2>3, <2>4, <3>2
      <3> QED BY <1>10, <3>1, <3>2
    <2> QED BY <1>3, <1>10, <2>5, Stays
  <1>11. ASSUME Begin \/ ToTail PROVE Linked'
    <2>1. /\ circular' = circular /\ list' = list /\ fault' = fault
          /\ it' \in {list.first, list.last}
      BY <1>11 DEF Begin, ToTail, Return, LinklistIteratorSetBegin,
                   LinklistIteratorSetTail
    <2>2. UNCHANGED <<circular, list, fault>>
      BY <2>1
    <2>3. \/ it' \in {list.first, list.last}
          \/ OnNode /\ it' \in {list.node[it].next, list.node[it].prev}
      BY <2>1
    <2> QED BY <1>10, <2>2, <2>3
  <1>12. ASSUME ToNext \/ ToPrev PROVE Linked'
    BY <1>10, <1>12 DEF ToNext, ToPrev, Return, LinklistIteratorToNext,
                        LinklistIteratorToPrev
  <1>13. ASSUME UseFreed PROVE Linked'
    BY <1>3, <1>13, Stays DEF UseFreed
  <1>14. CASE UNCHANGED vars
    BY <1>4, <1>14 DEF vars
  <1> QED BY <1>5, <1>6, <1>7, <1>8, <1>9, <1>11, <1>12, <1>13, <1>14 DEF ListNext

\* The pointers of both lists spell every node once, forwards and backwards, after
\* every call (linklist.c:43-452), whatever the addresses and the data are: NULL is
\* no address, and what is at an address with no node is no node.
THEOREM ListsWellLinked ==
    ListSpec => []WellLinked
  <1>1. ListInit => Linked
    BY InitLinked, AddrAssumption
  <1>2. Linked /\ [ListNext]_vars => Linked'
    BY LinkedStep, AddrAssumption, FreeAssumption
  <1>3. Linked => WellLinked
    BY LinkedWell
  <1> QED BY <1>1, <1>2, <1>3, PTL DEF ListSpec

-----------------------------------------------------------------------------
(* The list implements a sequence with an iterator.                        *)

\* The data of the nodes of s, in order, and the position of an address.
ItemsOf(l, s) == [i \in 1 .. Len(s) |-> l.node[s[i]].data]
PosOf(s, a) == IF \E i \in 1 .. Len(s) : s[i] = a
               THEN CHOOSE i \in 1 .. Len(s) : s[i] = a ELSE 0

Items == [i \in 1 .. list.cnt |-> list.node[Spelled[i]].data]

\* An address that a list has once is found at its place.
LEMMA PosIs ==
    ASSUME NEW s, Injective(s), NEW i \in 1 .. Len(s)
    PROVE  PosOf(s, s[i]) = i
  <1>1. PICK k : k = CHOOSE j \in 1 .. Len(s) : s[j] = s[i]
    OBVIOUS
  <1>2. k \in 1 .. Len(s) /\ s[k] = s[i]
    BY <1>1
  <1> QED BY <1>1, <1>2 DEF PosOf, Injective

\* What the refinement mapping shows of a list.
Shown(s) ==
    IsList(list, circular, s) =>
       Items = ItemsOf(list, s) /\ Position = PosOf(s, it)

\* The mapping shows the data of the nodes, and where the iterator is.
LEMMA ShownIs == \A s : Shown(s)
  <1> SUFFICES ASSUME NEW s, IsList(list, circular, s)
               PROVE  Items = ItemsOf(list, s) /\ Position = PosOf(s, it)
    BY DEF Shown
  <1>1. Spelled = s
    BY SpelledIs
  <1>2. /\ list.cnt = Len(s)
        /\ \A i \in 1 .. Len(s) : s[i] \in Nodes(list)
        /\ \A a \in Nodes(list) : \E i \in 1 .. Len(s) : s[i] = a
    BY ListStore
  <1>3. Items = ItemsOf(list, s)
    BY <1>1, <1>2 DEF Items, ItemsOf
  <1>4. Position = IF it \in Nodes(list)
                        THEN CHOOSE i \in 1 .. Len(s) : s[i] = it ELSE 0
    BY <1>1, <1>2 DEF Position, OnNode
  <1> QED BY <1>2, <1>3, <1>4 DEF PosOf

LEMMA ShownNext == ASSUME NEW t PROVE Shown(t)'
  <1>1. (\A s : Shown(s))'
    BY ShownIs, PTL
  <1> QED BY <1>1

\* They are data.
LEMMA DataOfNodes ==
    ASSUME Free \notin NodeOf(Data), NEW h, NEW circ, NEW u, IsList(h, circ, u)
    PROVE  ItemsOf(h, u) \in Seq(Data)
  <1>1. ASSUME NEW i \in 1 .. Len(u) PROVE h.node[u[i]].data \in Data
    <2>1. u[i] \in Addr /\ h.node[u[i]] # Free
      BY ListStore DEF Nodes
    <2>2. h.node[u[i]] \in NodeOf(Data)
      BY <2>1 DEF IsList, Memory
    <2> QED BY <2>2 DEF NodeOf
  <1>2. Len(u) \in Nat
    BY LenProperties DEF IsList
  <1> QED BY <1>1, <1>2 DEF ItemsOf

\* The data, and the place of an address, once a node is put in.
LEMMA GrownItems ==
    ASSUME Free \notin NodeOf(Data),
           NEW l, NEW circ, NEW s, IsList(l, circ, s), NEW m, NEW p, NEW new \in Addr,
           NEW d \in Data, Grown(l, m, circ, s, p, new, d), NEW t, t = InsertAt(s, p, new)
    PROVE  /\ ItemsOf(l, s) \in Seq(Data) /\ ItemsOf(m, t) \in Seq(Data)
           /\ LinkedIn(ItemsOf(l, s), ItemsOf(m, t), p, d)
  <1>1. s \in Seq(Addr) /\ t \in Seq(Addr) /\ Len(s) \in Nat /\ Len(t) \in Nat
        /\ LinkedIn(s, t, p, new) /\ IsList(m, circ, t)
    BY LenProperties DEF Grown, IsList
  <1>2. ASSUME NEW h, NEW u, IsList(h, circ, u) PROVE ItemsOf(h, u) \in Seq(Data)
    BY <1>2, DataOfNodes
  <1>3. PICK n : n = Len(s)
    OBVIOUS
  <1>4. /\ n \in Nat /\ Len(t) = n + 1 /\ p \in 1 .. n + 1
        /\ \A x \in 1 .. n + 1 : t[x] = IF x < p THEN s[x] ELSE IF x = p THEN new ELSE s[x - 1]
    BY <1>1, <1>3 DEF LinkedIn
  <1>5. /\ m.node[new].data = d
        /\ \A i \in 1 .. n : m.node[s[i]].data = l.node[s[i]].data
    BY <1>3 DEF Grown
  <1>6. PICK a, b : a = ItemsOf(l, s) /\ b = ItemsOf(m, t)
    OBVIOUS
  <1>7. /\ a \in Seq(Data) /\ b \in Seq(Data)
    BY <1>1, <1>2, <1>6
  <1>8. /\ Len(a) = n /\ \A i \in 1 .. n : a[i] = l.node[s[i]].data
        /\ Len(b) = n + 1 /\ \A i \in 1 .. n + 1 : b[i] = m.node[t[i]].data
    BY <1>3, <1>4, <1>6 DEF ItemsOf
  <1>9. ASSUME NEW x \in 1 .. n + 1
        PROVE  b[x] = IF x < p THEN a[x] ELSE IF x = p THEN d ELSE a[x - 1]
    <2>1. CASE x < p
      BY <1>4, <1>5, <1>8, <2>1
    <2>2. CASE x = p
      BY <1>4, <1>5, <1>8, <2>2
    <2>3. CASE x > p
      <3>1. x - 1 \in 1 .. n
        BY <1>4, <2>3
      <3> QED BY <1>4, <1>5, <1>8, <2>3, <3>1
    <2> QED BY <1>4, <2>1, <2>2, <2>3
  <1>10. LinkedIn(a, b, p, d)
    BY <1>4, <1>8, <1>9 DEF LinkedIn
  <1> QED BY <1>6, <1>7, <1>10

LEMMA GrownPlace ==
    ASSUME NEW l, NEW circ, NEW s, IsList(l, circ, s), NEW m, NEW p, NEW new, NEW d,
           Grown(l, m, circ, s, p, new, d), NEW t, t = InsertAt(s, p, new), NEW a
    PROVE  PosOf(t, a) = IF a = new THEN p
                         ELSE IF PosOf(s, a) = 0 THEN 0 ELSE Up(p, PosOf(s, a))
  <1>1. /\ t \in Seq(Addr) /\ LinkedIn(s, t, p, new) /\ IsList(m, circ, t)
        /\ Injective(t) /\ s \in Seq(Addr) /\ Injective(s)
    BY DEF Grown, IsList
  <1>2. ShiftedBy(s, t, p, new)
    BY <1>1, PlacesShift, Zenon
  <1>3. CASE a = new
    <2>1. p \in 1 .. Len(t) /\ t[p] = a
      BY <1>2, <1>3 DEF ShiftedBy
    <2> QED BY <1>1, <1>3, <2>1, PosIs
  <1>4. CASE a # new /\ \E i \in 1 .. Len(s) : s[i] = a
    <2>1. PICK i \in 1 .. Len(s) : s[i] = a
      BY <1>4
    <2>2. Up(p, i) \in 1 .. Len(t) /\ t[Up(p, i)] = a
      BY <1>2, <2>1 DEF ShiftedBy
    <2>3. PosOf(s, a) = i /\ PosOf(t, a) = Up(p, i)
      BY <1>1, <2>1, <2>2, PosIs
    <2> QED BY <1>4, <2>1, <2>3
  <1>5. CASE a # new /\ ~ \E i \in 1 .. Len(s) : s[i] = a
    <2>1. ~ \E i \in 1 .. Len(t) : t[i] = a
      BY <1>2, <1>5 DEF ShiftedBy
    <2> QED BY <1>5, <2>1 DEF PosOf
  <1> QED BY <1>3, <1>4, <1>5

\* The data once a node is taken out.
LEMMA ShrunkItems ==
    ASSUME Free \notin NodeOf(Data),
           NEW l, NEW circ, NEW s, IsList(l, circ, s), NEW m, NEW p \in 1 .. Len(s),
           Shrunk(l, m, circ, s, p), NEW r, r = RemoveAt(s, p)
    PROVE  ItemsOf(m, r) = RemoveAt(ItemsOf(l, s), p) /\ Len(ItemsOf(m, r)) = Len(s) - 1
  <1>1. s \in Seq(Addr) /\ r \in Seq(Addr) /\ Len(s) \in Nat /\ Len(r) \in Nat
        /\ LinkedIn(r, s, p, s[p]) /\ IsList(m, circ, r)
    BY LenProperties DEF Shrunk, IsList
  <1>2. ASSUME NEW h, NEW u, IsList(h, circ, u) PROVE ItemsOf(h, u) \in Seq(Data)
    BY <1>2, DataOfNodes
  <1>3. PICK n : n = Len(r)
    OBVIOUS
  <1>4. /\ n \in Nat /\ Len(s) = n + 1 /\ p \in 1 .. n + 1
        /\ \A x \in 1 .. n + 1 : s[x] = IF x < p THEN r[x] ELSE IF x = p THEN s[p] ELSE r[x - 1]
    BY <1>1, <1>3 DEF LinkedIn
  <1>5. \A i \in 1 .. n : m.node[r[i]].data = l.node[r[i]].data
    BY <1>3 DEF Shrunk
  <1>6. PICK a, b : a = ItemsOf(m, r) /\ b = ItemsOf(l, s)
    OBVIOUS
  <1>7. /\ a \in Seq(Data) /\ b \in Seq(Data)
    BY <1>1, <1>2, <1>6
  <1>8. /\ Len(a) = n /\ \A i \in 1 .. n : a[i] = m.node[r[i]].data
        /\ Len(b) = n + 1 /\ \A i \in 1 .. n + 1 : b[i] = l.node[s[i]].data
    BY <1>3, <1>4, <1>6 DEF ItemsOf
  <1>9. ASSUME NEW x \in 1 .. n + 1
        PROVE  b[x] = IF x < p THEN a[x] ELSE IF x = p THEN b[p] ELSE a[x - 1]
    <2>1. CASE x < p
      BY <1>4, <1>5, <1>8, <2>1
    <2>2. CASE x = p
      BY <2>2
    <2>3. CASE x > p
      <3>1. x - 1 \in 1 .. n
        BY <1>4, <2>3
      <3> QED BY <1>4, <1>5, <1>8, <2>3, <3>1
    <2> QED BY <1>4, <2>1, <2>2, <2>3
  <1>10. LinkedIn(a, b, p, b[p])
    BY <1>4, <1>8, <1>9 DEF LinkedIn
  <1>11. a = RemoveAt(b, p)
    BY <1>7, <1>10, RemovedAgain
  <1> QED BY <1>4, <1>6, <1>8, <1>11

\* The iterator goes to the item behind the deleted one.
LEMMA DeletedPlace ==
    ASSUME NullPtr \notin Addr, NEW circ \in BOOLEAN,
           NEW l, NEW s, IsList(l, circ, s), NEW m, NEW p \in 1 .. Len(s),
           Shrunk(l, m, circ, s, p), NEW r, r = RemoveAt(s, p)
    PROVE  PosOf(r, NextIn(s, circ, p))
           = IF p <= Len(r) THEN p ELSE IF circ /\ Len(r) > 0 THEN 1 ELSE 0
  <1>1. /\ s \in Seq(Addr) /\ r \in Seq(Addr) /\ LinkedIn(r, s, p, s[p])
        /\ Injective(r) /\ Injective(s)
    BY DEF Shrunk, IsList
  <1>2. PICK n : n = Len(r)
    OBVIOUS
  <1>3. /\ n \in Nat /\ Len(s) = n + 1 /\ p \in 1 .. n + 1
        /\ \A x \in 1 .. n + 1 : s[x] = IF x < p THEN r[x] ELSE IF x = p THEN s[p] ELSE r[x - 1]
        /\ \A x \in 1 .. n : r[x] \in Addr
    BY <1>1, <1>2, LenProperties DEF LinkedIn
  <1>4. CASE p <= n
    <2>1. p + 1 \in 1 .. n + 1 /\ (p + 1) - 1 = p /\ p \in 1 .. n /\ p < n + 1
      BY <1>3, <1>4
    <2>2. NextIn(s, circ, p) = r[p]
      BY <1>3, <2>1 DEF NextIn
    <2>3. PosOf(r, r[p]) = p
      BY <1>1, <1>2, <2>1, PosIs
    <2> QED BY <1>2, <1>4, <2>2, <2>3
  <1>5. CASE p = n + 1 /\ circ /\ n > 0
    <2>1. 1 \in 1 .. n /\ 1 \in 1 .. n + 1 /\ 1 < p
      BY <1>3, <1>5
    <2>2. NextIn(s, circ, p) = r[1]
      BY <1>3, <1>5, <2>1 DEF NextIn
    <2>3. PosOf(r, NextIn(s, circ, p)) = 1
      BY <1>1, <1>2, <2>1, <2>2, PosIs
    <2>4. ~ (p <= Len(r)) /\ Len(r) > 0
      BY <1>2, <1>3, <1>5
    <2> QED BY <1>5, <2>3, <2>4
  <1>6. CASE p = n + 1 /\ ~ (circ /\ n > 0)
    <2>1. \A i \in 1 .. n : r[i] # NextIn(s, circ, p)
      BY <1>3, <1>6 DEF NextIn
    <2> QED BY <1>2, <1>3, <1>6, <2>1 DEF PosOf
  <1> QED BY <1>3, <1>4, <1>5, <1>6

\* What a call that puts in an item does, seen as a sequence with an iterator.
ItemIn(a, b, p, d) ==
    /\ a \in Seq(Data) /\ b \in Seq(Data) /\ Items = a /\ Items' = b
    /\ LinkedIn(a, b, p, d)
    /\ Position \in 0 .. Len(a)
    /\ \/ Position = 0 /\ Position' = 0
       \/ circular /\ Position = 0 /\ Position' = p
       \/ Position # 0 /\ Position' = Up(p, Position)

LEMMA GrownShows ==
    ASSUME NullPtr \notin Addr, Free \notin NodeOf(Data), Linked,
           NEW s, IsList(list, circular, s), NEW p, NEW d \in Data,
           NEW new \in Unused(list),
           Grown(list, list', circular, s, p, new, d), circular' = circular, it' = it
    PROVE  \E a, b : ItemIn(a, b, p, d) /\ Len(a) = Len(s) /\ Position = PosOf(s, it)
  <1>1. PICK t : t = InsertAt(s, p, new)
    OBVIOUS
  <1>2. IsList(list', circular', t) /\ new \in Addr
    BY <1>1 DEF Grown, Unused
  <1>3. Items = ItemsOf(list, s) /\ Position = PosOf(s, it)
    BY ShownIs DEF Shown
  <1>4. Items' = ItemsOf(list', t) /\ Position' = PosOf(t, it)
    BY <1>2, ShownNext DEF Shown
  <1>5. PICK a, b, k : a = ItemsOf(list, s) /\ b = ItemsOf(list', t) /\ k = PosOf(s, it)
    OBVIOUS
  <1>6. a \in Seq(Data) /\ b \in Seq(Data) /\ LinkedIn(a, b, p, d)
    BY <1>1, <1>2, <1>5, GrownItems
  <1>7. Len(a) = Len(s) /\ Len(s) \in Nat
    BY <1>5, ListStore DEF ItemsOf
  <1>8. k \in 0 .. Len(s)
    BY <1>5, <1>7 DEF PosOf
  <1>9. PosOf(t, it) = IF it = new THEN p ELSE IF k = 0 THEN 0 ELSE Up(p, k)
    BY <1>1, <1>5, GrownPlace
  <1>10. ASSUME it = new PROVE circular /\ k = 0
    <2>1. it \notin Nodes(list) /\ it # NullPtr
      BY <1>2, <1>10 DEF Unused
    <2>2. \A i \in 1 .. Len(s) : s[i] # it
      BY <2>1, ListStore
    <2> QED BY <1>5, <2>1, <2>2 DEF Linked, PosOf
  <1> QED BY <1>3, <1>4, <1>5, <1>6, <1>7, <1>8, <1>9, <1>10 DEF ItemIn

\* The actions of the sequence, as far as they concern it and the iterator.
LEMMA InitIs ==
    ASSUME circular \in BOOLEAN, Items = <<>>, Position = 0, call = NoCall
    PROVE  Abstract!Init
  BY DEF Items, Abstract!Init

\* The four inserts, seen so, are those of the sequence.
LEMMA PushBackIs ==
    ASSUME NEW d \in Data, NEW a, NEW b, ItemIn(a, b, Len(a) + 1, d),
           call' = Call("push_back", d, 0)
    PROVE  Abstract!PushBack(d)
  <1>1. b = Append(a, d) /\ Len(b) = Len(a) + 1 /\ Len(a) \in Nat
    <2>1. a \in Seq(Data) /\ b \in Seq(Data) /\ LinkedIn(a, b, Len(a) + 1, d)
      BY DEF ItemIn
    <2>2. PICK q : q = Len(a) + 1
      OBVIOUS
    <2>3. b = Append(a, d)
      BY <2>1, <2>2, LinkedAgain
    <2> QED BY <2>1, <2>3, LenProperties DEF LinkedIn
  <1>2. Items' = Append(Items, d)
    BY <1>1 DEF ItemIn
  <1>3. \/ Position' = Position
        \/ circular /\ Position = 0 /\ Position' = Len(Items')
    BY <1>1 DEF ItemIn, Up
  <1> QED BY <1>2, <1>3 DEF Items, Abstract!PushBack, Abstract!Landed, Call,
                            Abstract!Call

LEMMA PushHeadIs ==
    ASSUME NEW d \in Data, NEW a, NEW b, ItemIn(a, b, 1, d),
           call' = Call("push_head", d, 0)
    PROVE  Abstract!PushHead(d)
  <1>1. Items' = <<d>> \o Items
    BY HeadAgain DEF ItemIn
  <1>2. \/ Position' = IF Position = 0 THEN 0 ELSE Position + 1
        \/ circular /\ Position = 0 /\ Position' = 1
    <2>1. Position \in Nat
      BY LenProperties DEF ItemIn
    <2> QED BY <2>1 DEF ItemIn, Up
  <1> QED BY <1>1, <1>2 DEF Items, Abstract!PushHead, Abstract!Landed, Call,
                            Abstract!Call

LEMMA InsertAfterIs ==
    ASSUME NEW d \in Data, NEW a, NEW b, NEW p, ItemIn(a, b, p + 1, d), Position = p,
           p # 0, call' = Call("insert_after", d, 0)
    PROVE  Abstract!InsertAfter(d)
  <1>1. Items' = InsertAt(Items, Position + 1, d)
    BY LinkedAgain DEF ItemIn
  <1>2. Position # 0 /\ Position' = Position
    <2>1. p \in Nat
      BY LenProperties DEF ItemIn
    <2> QED BY <2>1 DEF ItemIn, Up
  <1> QED BY <1>1, <1>2 DEF Items, Abstract!InsertAfter, Call, Abstract!Call,
                            InsertAt, Abstract!InsertAt

LEMMA InsertBeforeIs ==
    ASSUME NEW d \in Data, NEW a, NEW b, NEW p, ItemIn(a, b, p, d), Position = p,
           p # 0, call' = Call("insert_before", d, 0)
    PROVE  Abstract!InsertBefore(d)
  <1>1. Items' = InsertAt(Items, Position, d)
    BY LinkedAgain DEF ItemIn
  <1>2. Position # 0 /\ Position' = Position + 1
    <2>1. p \in Nat
      BY LenProperties DEF ItemIn
    <2> QED BY <2>1 DEF ItemIn, Up
  <1> QED BY <1>1, <1>2 DEF Items, Abstract!InsertBefore, Call, Abstract!Call,
                            InsertAt, Abstract!InsertAt

\* A call that leaves the list as it is, and may move the iterator.
LEMMA StaysShows ==
    ASSUME NEW s, IsList(list, circular, s), circular' = circular, list' = list
    PROVE  /\ Items' = Items /\ Items = ItemsOf(list, s) /\ Len(Items) = Len(s)
           /\ Position = PosOf(s, it) /\ Position' = PosOf(s, it')
  <1>1. Items = ItemsOf(list, s) /\ Position = PosOf(s, it)
    BY ShownIs DEF Shown
  <1>2. Items' = ItemsOf(list, s) /\ Position' = PosOf(s, it')
    BY ShownNext DEF Shown
  <1>3. Len(s) \in Nat
    BY ListStore
  <1> QED BY <1>1, <1>2, <1>3 DEF ItemsOf

\* Calls that fail, move the iterator, or are lost at an end without memory.
LEMMA RefusedIs ==
    ASSUME Linked, NEW op \in {"push_back", "push_head", "insert_after", "insert_before",
                               "delete"},
           NEW d \in Data \cup {NoCall}, Refuse(op, d)
    PROVE  Abstract!Refused /\ circular' = circular
  <1>1. PICK s : IsList(list, circular, s)
    BY DEF Linked
  <1>2. Items' = Items /\ Position' = Position
    BY <1>1, StaysShows DEF Refuse, Return
  <1>3. call' = [op |-> op, data |-> d, ret |-> -1] /\ circular' = circular
    BY DEF Refuse, Return, Call
  <1> QED BY <1>2, <1>3 DEF Items, Abstract!Refused

LEMMA MoveIs ==
    ASSUME Linked, NEW s, IsList(list, circular, s), NEW op, NEW i,
           Return(Call(op, NoCall, 0), list, i)
    PROVE  Abstract!Move(op, PosOf(s, i)) /\ circular' = circular
  <1>1. Items' = Items /\ Position' = PosOf(s, i)
    BY StaysShows DEF Return
  <1>2. call' = Call(op, NoCall, 0) /\ circular' = circular
    BY DEF Return
  <1> QED BY <1>1, <1>2 DEF Items, Abstract!Move, Call, Abstract!Call

LEMMA LostIs ==
    ASSUME NEW d, NEW op, Items' = Items, Position' = Position, Position # 0,
           \/ Position = Len(Items) /\ op = "insert_after"
           \/ Position = 1 /\ op = "insert_before",
           call' = Call(op, d, 0)
    PROVE  Abstract!Lost(d)
  BY DEF Items, Abstract!Lost, Call, Abstract!Call

\* A delete is that of the sequence.
LEMMA DeleteIs ==
    ASSUME NullPtr \notin Addr, Free \notin NodeOf(Data), circular \in BOOLEAN,
           NEW s, IsList(list, circular, s), NEW p \in 1 .. Len(s), it = s[p],
           Shrunk(list, list', circular, s, p), it' = list.node[it].next,
           circular' = circular, call' = Call("delete", NoCall, 0)
    PROVE  Abstract!Delete
  <1>1. PICK r : r = RemoveAt(s, p)
    OBVIOUS
  <1>2. IsList(list', circular', r)
    BY <1>1 DEF Shrunk
  <1>3. Items = ItemsOf(list, s) /\ Position = PosOf(s, it)
    BY ShownIs DEF Shown
  <1>4. Items' = ItemsOf(list', r) /\ Position' = PosOf(r, it')
    BY <1>2, ShownNext DEF Shown
  <1>5. Items' = RemoveAt(Items, p) /\ Len(Items') = Len(s) - 1 /\ Len(Items') = Len(r)
    <2>1. /\ ItemsOf(list', r) = RemoveAt(ItemsOf(list, s), p)
          /\ Len(ItemsOf(list', r)) = Len(s) - 1
      BY <1>1, ShrunkItems
    <2>2. Len(r) \in Nat
      BY <1>2, ListStore
    <2>3. Len(ItemsOf(list', r)) = Len(r)
      BY <2>2 DEF ItemsOf
    <2> QED BY <1>3, <1>4, <2>1, <2>3
  <1>6. Position = p
    BY <1>3, PosIs DEF IsList
  <1>7. it' = NextIn(s, circular, p)
    BY DEF IsList
  <1>8. Position' = IF p <= Len(r) THEN p ELSE IF circular /\ Len(r) > 0 THEN 1 ELSE 0
    BY <1>1, <1>4, <1>7, DeletedPlace
  <1>9. Len(Items') > 0 <=> Items' # <<>>
    <2>1. Items' \in Seq(Data)
      BY <1>2, <1>4, DataOfNodes
    <2> QED BY <2>1, EmptySeq, LenProperties
  <1>10. /\ Position # 0
         /\ Items' = RemoveAt(Items, Position)
         /\ Position' = IF Position <= Len(Items') THEN Position
                             ELSE IF circular /\ Items' # <<>> THEN 1 ELSE 0
    BY <1>5, <1>6, <1>8, <1>9
  <1> QED BY <1>10 DEF Items, Abstract!Delete, Call, Abstract!Call, RemoveAt,
                       Abstract!RemoveAt

\* Every call is one of the sequence with an iterator.
LEMMA ListMaps ==
    ASSUME NullPtr \notin Addr, Free \notin NodeOf(Data), Linked, ListNext
    PROVE  [Abstract!Next]_Abstract!vars
  <1>1. PICK s : IsList(list, circular, s)
    BY DEF Linked
  <1>2. /\ s \in Seq(Addr) /\ Len(s) \in Nat /\ Injective(s)
        /\ \A i \in 1 .. Len(s) : s[i] \in Addr /\ s[i] \in Nodes(list)
        /\ \A a \in Nodes(list) : \E i \in 1 .. Len(s) : s[i] = a
        /\ Len(s) > 0 => list.first = s[1] /\ list.last = s[Len(s)]
    BY <1>1, ListStore
  <1>3. Len(Items) = Len(s) /\ Position = PosOf(s, it)
    BY <1>1, <1>2, ShownIs DEF Shown, ItemsOf
  <1>4. circular \in BOOLEAN
    BY DEF Linked
  <1>5. ASSUME NEW op \in {"push_back", "push_head", "insert_after", "insert_before", "delete"},
               NEW d \in Data \cup {NoCall}, Refuse(op, d)
        PROVE  Abstract!Next
    BY <1>5, RefusedIs DEF Abstract!Next
  <1>6. ASSUME NEW op, NEW d \in Data, Return(Call(op, d, 0), list, it),
               NEW i \in 1 .. Len(s), it = s[i],
               \/ i = Len(s) /\ op = "insert_after"
               \/ i = 1 /\ op = "insert_before"
        PROVE  Abstract!Next
    <2>1. /\ Items' = Items /\ Position' = Position /\ Position = i
          /\ circular' = circular /\ call' = Call(op, d, 0)
      BY <1>1, <1>2, <1>3, <1>6, StaysShows, PosIs DEF Return
    <2>2. Abstract!Lost(d)
      BY <1>3, <1>6, <2>1, LostIs
    <2> QED BY <2>1, <2>2 DEF Abstract!Next
  <1>7. ASSUME NEW d \in Data, PushBack(d) PROVE Abstract!Next
    <2>1. CASE Refuse("push_back", d)
      BY <1>5, <2>1
    <2>2. ASSUME NEW new \in Unused(list),
                 Return(Call("push_back", d, 0), PushBackOf(list, new, d), it)
          PROVE  Abstract!Next
      <3>1. /\ list' = PushBackOf(list, new, d) /\ circular' = circular /\ it' = it
            /\ call' = Call("push_back", d, 0)
        BY <2>2 DEF Return
      <3>2. Grown(list, list', circular, s, Len(s) + 1, new, d)
        BY <1>1, <1>4, <3>1, BackGrows
      <3>3. PICK a, b : ItemIn(a, b, Len(s) + 1, d) /\ Len(a) = Len(s)
        BY <1>1, <3>1, <3>2, GrownShows
      <3>4. Abstract!PushBack(d)
        BY <3>1, <3>3, PushBackIs
      <3> QED BY <3>1, <3>4 DEF Abstract!Next
    <2> QED BY <1>7, <2>1, <2>2 DEF PushBack
  <1>8. ASSUME NEW d \in Data, PushHead(d) PROVE Abstract!Next
    <2>1. CASE Refuse("push_head", d)
      BY <1>5, <2>1
    <2>2. ASSUME NEW new \in Unused(list),
                 Return(Call("push_head", d, 0), PushHeadOf(list, new, d), it)
          PROVE  Abstract!Next
      <3>1. /\ list' = PushHeadOf(list, new, d) /\ circular' = circular /\ it' = it
            /\ call' = Call("push_head", d, 0)
        BY <2>2 DEF Return
      <3>2. Grown(list, list', circular, s, 1, new, d)
        BY <1>1, <1>4, <3>1, HeadGrows
      <3>3. PICK a, b : ItemIn(a, b, 1, d)
        BY <1>1, <3>1, <3>2, GrownShows
      <3>4. Abstract!PushHead(d)
        BY <3>1, <3>3, PushHeadIs
      <3> QED BY <3>1, <3>4 DEF Abstract!Next
    <2> QED BY <1>8, <2>1, <2>2 DEF PushHead
  <1>9. ASSUME NEW d \in Data, InsertAfter(d) PROVE Abstract!Next
    <2>1. CASE Refuse("insert_after", d)
      BY <1>5, <2>1
    <2>2. ASSUME OnNode PROVE \E i \in 1 .. Len(s) : it = s[i]
      BY <1>2, <2>2 DEF OnNode
    <2>3. ASSUME OnNode, NEW new \in Unused(list),
                 Return(Call("insert_after", d, 0),
                             InsertAfterOf(list, new, d), it)
          PROVE  Abstract!Next
      <3>1. /\ list' = InsertAfterOf(list, new, d) /\ circular' = circular /\ it' = it
            /\ call' = Call("insert_after", d, 0)
        BY <2>3 DEF Return
      <3>2. PICK i \in 1 .. Len(s) : it = s[i]
        BY <2>2, <2>3
      <3>3. Grown(list, list', circular, s, i + 1, new, d)
        BY <1>1, <1>4, <3>1, <3>2, AfterGrows
      <3>4. PICK a, b : ItemIn(a, b, i + 1, d)
        BY <1>1, <3>1, <3>3, GrownShows
      <3>5. Position = i /\ i # 0
        BY <1>2, <1>3, <3>2, PosIs
      <3>6. Abstract!InsertAfter(d)
        BY <3>1, <3>4, <3>5, InsertAfterIs
      <3> QED BY <3>1, <3>6 DEF Abstract!Next
    <2>4. CASE /\ OnNode /\ it = list.last
               /\ Return(Call("insert_after", d, 0), list, it)
      <3>1. PICK i \in 1 .. Len(s) : it = s[i]
        BY <2>2, <2>4
      <3>2. i = Len(s)
        BY <1>2, <2>4, <3>1 DEF Injective
      <3> QED BY <1>6, <2>4, <3>1, <3>2
    <2> QED BY <1>9, <2>1, <2>3, <2>4 DEF InsertAfter
  <1>10. ASSUME NEW d \in Data, InsertBefore(d) PROVE Abstract!Next
    <2>1. CASE Refuse("insert_before", d)
      BY <1>5, <2>1
    <2>2. ASSUME OnNode PROVE \E i \in 1 .. Len(s) : it = s[i]
      BY <1>2, <2>2 DEF OnNode
    <2>3. ASSUME OnNode, NEW new \in Unused(list),
                 Return(Call("insert_before", d, 0),
                             InsertBeforeOf(list, new, d), it)
          PROVE  Abstract!Next
      <3>1. /\ list' = InsertBeforeOf(list, new, d) /\ circular' = circular /\ it' = it
            /\ call' = Call("insert_before", d, 0)
        BY <2>3 DEF Return
      <3>2. PICK i \in 1 .. Len(s) : it = s[i]
        BY <2>2, <2>3
      <3>3. Grown(list, list', circular, s, i, new, d)
        BY <1>1, <1>4, <3>1, <3>2, BeforeGrows
      <3>4. PICK a, b : ItemIn(a, b, i, d)
        BY <1>1, <3>1, <3>3, GrownShows
      <3>5. Position = i /\ i # 0
        BY <1>2, <1>3, <3>2, PosIs
      <3>6. Abstract!InsertBefore(d)
        BY <3>1, <3>4, <3>5, InsertBeforeIs
      <3> QED BY <3>1, <3>6 DEF Abstract!Next
    <2>4. CASE /\ OnNode /\ it = list.first
               /\ Return(Call("insert_before", d, 0), list, it)
      <3>1. PICK i \in 1 .. Len(s) : it = s[i]
        BY <2>2, <2>4
      <3>2. i = 1
        BY <1>2, <2>4, <3>1 DEF Injective
      <3> QED BY <1>6, <2>4, <3>1, <3>2
    <2> QED BY <1>10, <2>1, <2>3, <2>4 DEF InsertBefore
  <1>11. ASSUME Delete PROVE Abstract!Next
    <2>1. CASE Refuse("delete", NoCall)
      BY <1>5, <2>1
    <2>2. CASE OnNode /\ Return(Call("delete", NoCall, 0), DeleteOf(list),
                                          DeletedNext(list, it))
      <3>1. PICK i \in 1 .. Len(s) : it = s[i]
        BY <1>2, <2>2 DEF OnNode
      <3>2. /\ list' = DeleteOf(list) /\ it' = list.node[it].next
            /\ circular' = circular /\ call' = Call("delete", NoCall, 0)
        BY <2>2 DEF Return, DeletedNext
      <3>3. Shrunk(list, list', circular, s, i)
        BY <1>1, <1>4, <3>1, <3>2, DeleteShrinks
      <3>4. Abstract!Delete
        BY <1>1, <1>4, <3>1, <3>2, <3>3, DeleteIs
      <3> QED BY <3>2, <3>4 DEF Abstract!Next
    <2> QED BY <1>11, <2>1, <2>2 DEF Delete
  <1>12. ASSUME NEW op, NEW i, Return(Call(op, NoCall, 0), list, i)
         PROVE  Abstract!Move(op, PosOf(s, i)) /\ circular' = circular
    BY <1>1, <1>12, MoveIs
  <1>13. Items = <<>> <=> Len(s) = 0
    <2>1. Items \in Seq(Data)
      BY <1>1, DataOfNodes, ShownIs DEF Shown
    <2> QED BY <1>3, <2>1, EmptySeq
  <1>14. ASSUME Begin PROVE Abstract!Next
    <2>1. PosOf(s, list.first) = IF Items = <<>> THEN 0 ELSE 1
      <3>1. CASE Len(s) = 0
        BY <1>13, <3>1 DEF PosOf
      <3>2. CASE Len(s) > 0
        BY <1>2, <1>13, <3>2, PosIs
      <3> QED BY <1>2, <3>1, <3>2
    <2>2. Abstract!Move("begin", PosOf(s, list.first)) /\ circular' = circular
      BY <1>12, <1>14 DEF Begin, LinklistIteratorSetBegin
    <2> QED BY <2>1, <2>2 DEF Abstract!Next, Items
  <1>15. ASSUME ToTail PROVE Abstract!Next
    <2>1. PosOf(s, list.last) = Len(Items)
      <3>1. CASE Len(s) = 0
        BY <1>3, <3>1 DEF PosOf
      <3>2. CASE Len(s) > 0
        BY <1>2, <1>3, <3>2, PosIs
      <3> QED BY <1>2, <3>1, <3>2
    <2>2. Abstract!Move("tail", PosOf(s, list.last)) /\ circular' = circular
      BY <1>12, <1>15 DEF ToTail, LinklistIteratorSetTail
    <2> QED BY <2>1, <2>2 DEF Abstract!Next, Items
  <1>16. ASSUME NEW i \in 1 .. Len(s)
         PROVE  /\ PosOf(s, NextIn(s, circular, i)) = Abstract!After(i, Len(s))
                /\ PosOf(s, PrevIn(s, circular, i)) = Abstract!Before(i, Len(s))
    <2>1. PosOf(s, NullPtr) = 0
      BY <1>2 DEF PosOf
    <2>2. \A j \in 1 .. Len(s) : PosOf(s, s[j]) = j
      BY <1>2, PosIs
    <2>3. PosOf(s, NextIn(s, circular, i)) = Abstract!After(i, Len(s))
      BY <1>2, <2>1, <2>2 DEF NextIn, Abstract!After
    <2>4. PosOf(s, PrevIn(s, circular, i)) = Abstract!Before(i, Len(s))
      BY <1>2, <2>1, <2>2 DEF PrevIn, Abstract!Before
    <2> QED BY <2>3, <2>4
  <1>17. ASSUME OnNode
         PROVE  \E i \in 1 .. Len(s) :
                   /\ Position = i /\ i # 0
                   /\ list.node[it].next = NextIn(s, circular, i)
                   /\ list.node[it].prev = PrevIn(s, circular, i)
    <2>1. PICK i \in 1 .. Len(s) : /\ it = s[i]
                                   /\ list.node[it].next = NextIn(s, circular, i)
                                   /\ list.node[it].prev = PrevIn(s, circular, i)
      BY <1>1, <1>17, NodeAt DEF OnNode
    <2>2. Position = i /\ i # 0
      BY <1>2, <1>3, <2>1, PosIs
    <2> QED BY <2>1, <2>2
  <1>18. ASSUME ToNext PROVE Abstract!Next
    <2>1. PICK i \in 1 .. Len(s) : /\ Position = i /\ i # 0
                                   /\ list.node[it].next = NextIn(s, circular, i)
      BY <1>17, <1>18 DEF ToNext
    <2>2. Abstract!Move("next", PosOf(s, NextIn(s, circular, i))) /\ circular' = circular
      BY <1>12, <1>18, <2>1 DEF ToNext, LinklistIteratorToNext
    <2>3. Abstract!Move("next", Abstract!After(Position, Len(Items)))
      BY <1>3, <1>16, <2>1, <2>2
    <2> QED BY <2>1, <2>2, <2>3 DEF Abstract!Next, Items
  <1>19. ASSUME ToPrev PROVE Abstract!Next
    <2>1. PICK i \in 1 .. Len(s) : /\ Position = i /\ i # 0
                                   /\ list.node[it].prev = PrevIn(s, circular, i)
      BY <1>17, <1>19 DEF ToPrev
    <2>2. Abstract!Move("prev", PosOf(s, PrevIn(s, circular, i))) /\ circular' = circular
      BY <1>12, <1>19, <2>1 DEF ToPrev, LinklistIteratorToPrev
    <2>3. Abstract!Move("prev", Abstract!Before(Position, Len(Items)))
      BY <1>3, <1>16, <2>1, <2>2
    <2> QED BY <2>1, <2>2, <2>3 DEF Abstract!Next, Items
  <1>20. ASSUME UseFreed PROVE UNCHANGED Abstract!vars
    <2>1. Items' = Items /\ Position' = Position
      BY <1>1, <1>20, StaysShows DEF UseFreed
    <2> QED BY <1>20, <2>1 DEF Abstract!vars, UseFreed, Items
  <1> QED BY <1>7, <1>8, <1>9, <1>10, <1>11, <1>14, <1>15, <1>18, <1>19, <1>20 DEF ListNext

\* Nothing else shows.
LEMMA ListStutters ==
    ASSUME Linked, UNCHANGED vars
    PROVE  UNCHANGED Abstract!vars
  <1>1. PICK s : IsList(list, circular, s)
    BY DEF Linked
  <1>2. circular' = circular /\ list' = list /\ it' = it /\ call' = call
    BY DEF vars
  <1>3. Items' = Items /\ Position' = Position
    BY <1>1, <1>2, StaysShows
  <1> QED BY <1>2, <1>3 DEF Abstract!vars, Items

\* A new list is the empty sequence.
LEMMA InitMaps == ASSUME NullPtr \notin Addr, ListInit PROVE Abstract!Init
  <1>1. PICK s : s = <<>>
    OBVIOUS
  <1>2. Items = ItemsOf(list, s) /\ Position = PosOf(s, it)
    BY <1>1, InitLinked, ShownIs DEF Shown
  <1>3. Items = <<>> /\ Position = 0
    BY <1>1, <1>2 DEF ItemsOf, PosOf
  <1> QED BY <1>3, InitIs DEF ListInit

\* Every call does to the list what it does to a sequence with one iterator
\* (linklist.c:43-452): inserts and deletes at the place it names, the iterator on
\* its item or behind the deleted one, and nothing when it returns -1.
THEOREM ListsAreSequences ==
    ListSpec => ImplementsList
  <1>1. ListInit => Linked /\ Abstract!Init
    BY InitLinked, InitMaps, AddrAssumption
  <1>2. Linked /\ [ListNext]_vars => Linked' /\ [Abstract!Next]_Abstract!vars
    BY LinkedStep, ListMaps, ListStutters, AddrAssumption, FreeAssumption
  <1> QED BY <1>1, <1>2, PTL DEF ListSpec, ImplementsList, Abstract!Spec
=============================================================================
