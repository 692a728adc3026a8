--------------------------- MODULE ClusterProofs ---------------------------
(***************************************************************************)
(* Theorems about Cluster: the types, one node for a server among them,    *)
(* that clients and servers stay in step while no server is slow, and that *)
(* a ring that has been renewed has the servers of the list; and, for one  *)
(* client, that the copies of a record agree and a get tells what was put. *)
(***************************************************************************)
EXTENDS Cluster, FiniteSetTheorems, SequenceFacts

Rings == Seq(Node)

\* One node for a server.
Single(r) == \A i, j \in DOMAIN r : r[i].info = r[j].info => i = j

LEMMA RingIs ==
    ASSUME NEW r \in Rings
    PROVE  /\ Len(r) \in Nat /\ DOMAIN r = 1 .. Len(r)
           /\ \A i \in 1 .. Len(r) : r[i] \in Node /\ r[i].id \in Nat /\ r[i].info \in Servers
           /\ r # <<>> <=> Len(r) >= 1
  <1>1. Len(r) \in Nat /\ r \in [1 .. Len(r) -> Node]
    BY LenProperties DEF Rings
  <1>2. \A i \in 1 .. Len(r) :
           r[i] \in Node /\ r[i].id \in Nat /\ r[i].info \in Servers
    BY <1>1 DEF Node, RingNode
  <1>3. r # <<>> <=> Len(r) >= 1
    BY <1>1, EmptySeq DEF Rings
  <1> QED BY <1>1, <1>2, <1>3

\* A ring with one node for a server has as many nodes as servers.
LEMMA SingleCardinality ==
    ASSUME NEW r \in Rings, Single(r)
    PROVE  Cardinality(RingServers(r)) = Len(r)
  <1> DEFINE f == [i \in 1 .. Len(r) |-> r[i].info]
             S == RingServers(r)
  <1>1. Len(r) \in Nat /\ DOMAIN r = 1 .. Len(r)
    BY RingIs
  <1>2. f \in Bijection(1 .. Len(r), S)
    <2>1. f \in [1 .. Len(r) -> S]
      BY <1>1 DEF RingServers
    <2>2. IsInjective(f)
      BY <1>1 DEF IsInjective, Single
    <2>3. \A s \in S : \E i \in 1 .. Len(r) : f[i] = s
      BY <1>1 DEF RingServers
    <2> QED BY <2>1, <2>2, <2>3 DEF Bijection, Injection, Surjection
  <1>3. ExistsBijection(1 .. Len(r), S)
    BY <1>2 DEF ExistsBijection
  <1>4. IsFiniteSet(1 .. Len(r)) /\ Cardinality(1 .. Len(r)) = Len(r)
    <2>1. 1 \in Int /\ Len(r) \in Int /\ IF 1 > Len(r) THEN Len(r) = 0 ELSE Len(r) - 1 + 1 = Len(r)
      BY <1>1
    <2>2. /\ IsFiniteSet(1 .. Len(r))
          /\ Cardinality(1 .. Len(r)) = IF 1 > Len(r) THEN 0 ELSE Len(r) - 1 + 1
      BY <2>1, FS_Interval
    <2> QED BY <2>1, <2>2
  <1> HIDE DEF f, S
  <1>5. Cardinality(S) = Len(r)
    BY <1>3, <1>4, FS_Bijection
  <1> QED BY <1>5 DEF S

-----------------------------------------------------------------------------
(* What adding a node does to a ring.                                      *)

\* The ids that are tried for a new node, each with what the node it met made of it.
LEMMA UniqueIdIs ==
    ASSUME NEW r \in Rings, NEW h \in Nat
    PROVE  /\ UniqueId(r, h) \in Nat
           /\ \E t : /\ t[0] = h /\ UniqueId(r, h) = t[Len(r)]
                   /\ \A i \in 1 .. Len(r) :
                         t[i - 1] \in Nat /\ t[i] = Pushed(r[i], t[i - 1])
  <1> DEFINE n == Len(r)
             F == [i \in 1 .. n |-> [x \in Nat |-> Pushed(r[i], x)]]
             body(f) == [i \in 0 .. n |-> IF i = 0 THEN h ELSE Pushed(r[i], f[i - 1])]
  <1>1. n \in Nat /\ \A i \in 1 .. n : r[i].id \in Nat
    BY RingIs
  <1>2. \A x \in Nat : (x + HASH_INCREMENT) % HASH_MAX \in Nat
    BY HashConstants
  <1>3. \A i \in 1 .. n, x \in Nat : Pushed(r[i], x) \in Nat
    BY <1>1, <1>2 DEF Pushed
  <1>4. \A i \in 1 .. n : F[i] \in [Nat -> Nat]
    BY <1>3
  <1> HIDE DEF n
  <1>5. PICK k : k \in [0 .. n -> Nat] /\ Iterate(k, h, F, n)
    <2> HIDE DEF F
    <2> QED BY <1>1, <1>4, Iterates
  <1>6. k = body(k)
    <2>1. ASSUME NEW i \in 1 .. n PROVE k[i] = Pushed(r[i], k[i - 1])
      <3>1. i - 1 \in 0 .. n /\ k[i - 1] \in Nat
        BY <1>1, <1>5
      <3>2. F[i] = [x \in Nat |-> Pushed(r[i], x)]
        OBVIOUS
      <3>3. k[i] = F[i][k[i - 1]]
        BY <1>5 DEF Iterate
      <3> HIDE DEF F
      <3> QED BY <3>1, <3>2, <3>3
    <2> QED BY <1>1, <1>5, <2>1 DEF Iterate
  <1>7. PICK t : t = Tried(r, h)
    OBVIOUS
  <1>8. t = body(t)
    <2>1. t = CHOOSE f : f = body(f)
      BY <1>7 DEF Tried, n
    <2> QED BY <1>6, <2>1
  <1> DEFINE T == {i \in 0 .. n : t[i] \in Nat}
  <1>9. 0 \in T
    BY <1>1, <1>8
  <1>10. ASSUME NEW i \in 1 .. n, i - 1 \in T PROVE i \in T
    <2>1. t[i - 1] \in Nat /\ t[i] = Pushed(r[i], t[i - 1])
      BY <1>1, <1>8, <1>10
    <2> QED BY <1>1, <1>3, <2>1
  <1> HIDE DEF T
  <1>11. \A i \in 0 .. n : i \in T
    BY <1>1, <1>9, <1>10, Upwards
  <1>12. t[n] \in Nat /\ \A i \in 1 .. n : t[i - 1] \in Nat
    <2>1. \A i \in 1 .. n : i - 1 \in 0 .. n
      BY <1>1
    <2> QED BY <1>1, <1>11, <2>1 DEF T
  <1>13. t[0] = h /\ \A i \in 1 .. n : t[i] = Pushed(r[i], t[i - 1])
    BY <1>1, <1>8
  <1> QED BY <1>7, <1>12, <1>13 DEF UniqueId, n

LEMMA InsertNodeLinks ==
    ASSUME NEW r \in Rings, NEW node \in Node
    PROVE  /\ InsertNode(r, node) \in Rings
           /\ \E p : LinkedIn(r, InsertNode(r, node), p, node)
  <1> DEFINE I == {i \in DOMAIN r : node.id < r[i].id}
  <1>1. Len(r) \in Nat /\ DOMAIN r = 1 .. Len(r) /\ I \in SUBSET (1 .. Len(r))
    BY RingIs
  <1>2. CASE FirstOf(I) = 0
    <2>1. InsertNode(r, node) = Append(r, node)
      BY <1>2 DEF InsertNode
    <2> QED BY <2>1, AppendLinksIn DEF Rings
  <1>3. CASE FirstOf(I) # 0
    <2>1. PICK q : q = FirstOf(I)
      OBVIOUS
    <2>2. I # {} /\ q = Min(I)
      BY <1>3, <2>1 DEF FirstOf
    <2>3. q \in 1 .. Len(r) + 1
      <3>1. I \in SUBSET Nat
        BY <1>1
      <3> HIDE DEF I
      <3>2. q \in I
        BY <2>2, <3>1, MinIsLeast
      <3> QED BY <1>1, <3>2
    <2>4. InsertNode(r, node) = InsertAt(r, q, node)
      BY <1>3, <2>1 DEF InsertNode
    <2> QED BY <2>3, <2>4, InsertLinksIn DEF Rings
  <1> QED BY <1>2, <1>3

\* Two rings, one of which has one more node.
LEMMA LinkedNode ==
    ASSUME NEW r \in Rings, NEW d \in Rings, NEW p, NEW node \in Node, LinkedIn(r, d, p, node)
    PROVE  /\ d # <<>>
           /\ RingServers(d) = RingServers(r) \cup {node.info}
           /\ Single(r) /\ node.info \notin RingServers(r) => Single(d)
           /\ Single(d) => Single(r)
  <1>1. /\ Len(r) \in Nat /\ DOMAIN r = 1 .. Len(r) /\ DOMAIN d = 1 .. Len(d)
        /\ Len(d) = Len(r) + 1 /\ p \in 1 .. Len(d)
    BY RingIs DEF LinkedIn
  <1>2. \A i \in 1 .. Len(d) :
           d[i] = IF i < p THEN r[i] ELSE IF i = p THEN node ELSE r[i - 1]
    BY DEF LinkedIn
  <1> DEFINE to(i) == IF i < p THEN i ELSE i + 1
  <1>3. \A i \in 1 .. Len(r) : to(i) \in 1 .. Len(d) /\ to(i) # p /\ d[to(i)] = r[i]
    BY <1>1, <1>2
  <1>4. \A i \in 1 .. Len(d) : i # p => \E j \in 1 .. Len(r) : i = to(j)
    <2>1. ASSUME NEW i \in 1 .. Len(d), i # p PROVE \E j \in 1 .. Len(r) : i = to(j)
      <3>1. CASE i < p
        BY <1>1, <3>1
      <3>2. CASE ~ (i < p)
        <4>1. i - 1 \in 1 .. Len(r) /\ i = to(i - 1)
          BY <1>1, <2>1, <3>2
        <4> QED BY <4>1
      <3> QED BY <3>1, <3>2
    <2> QED BY <2>1
  <1>5. d[p] = node
    BY <1>1, <1>2
  <1>6. d # <<>>
    BY <1>1, RingIs
  <1>7. RingServers(d) = RingServers(r) \cup {node.info}
    <2>1. \A i \in DOMAIN d : d[i].info \in RingServers(r) \cup {node.info}
      <3>1. ASSUME NEW i \in DOMAIN d PROVE d[i].info \in RingServers(r) \cup {node.info}
        <4>1. CASE i = p
          BY <1>5, <4>1
        <4>2. CASE i # p
          <5>1. PICK j \in 1 .. Len(r) : i = to(j)
            BY <1>1, <1>4, <4>2
          <5>2. d[i] = r[j]
            BY <1>3, <5>1
          <5> QED BY <1>1, <5>2 DEF RingServers
        <4> QED BY <4>1, <4>2
      <3> QED BY <3>1
    <2>2. \A i \in DOMAIN r : r[i].info \in RingServers(d)
      BY <1>1, <1>3 DEF RingServers
    <2>3. node.info \in RingServers(d)
      BY <1>1, <1>5 DEF RingServers
    <2> QED BY <2>1, <2>2, <2>3 DEF RingServers
  <1>8. ASSUME Single(d) PROVE Single(r)
    <2>1. ASSUME NEW i \in DOMAIN r, NEW j \in DOMAIN r, r[i].info = r[j].info PROVE i = j
      <3>1. to(i) = to(j)
        BY <1>1, <1>3, <1>8, <2>1 DEF Single
      <3> QED BY <1>1, <3>1
    <2> QED BY <2>1 DEF Single
  <1>9. ASSUME Single(r), node.info \notin RingServers(r) PROVE Single(d)
    <2>1. \A i \in 1 .. Len(r) : r[i].info # node.info
      BY <1>1, <1>9 DEF RingServers
    <2>2. ASSUME NEW i \in DOMAIN d, NEW j \in DOMAIN d, d[i].info = d[j].info PROVE i = j
      <3>a. ASSUME NEW x \in DOMAIN d, x # p PROVE d[x].info # node.info
        <4>1. PICK k \in 1 .. Len(r) : x = to(k)
          BY <1>1, <1>4, <3>a
        <4> QED BY <1>3, <2>1, <4>1
      <3>1. CASE i = p \/ j = p
        BY <1>5, <2>2, <3>a, <3>1
      <3>2. CASE i # p /\ j # p
        <4>0. PICK k \in 1 .. Len(r) : i = to(k)
          BY <1>1, <1>4, <3>2
        <4>a. PICK l \in 1 .. Len(r) : j = to(l)
          BY <1>1, <1>4, <3>2
        <4>1. i = to(k) /\ j = to(l)
          BY <4>0, <4>a
        <4>2. r[k].info = r[l].info
          BY <1>3, <2>2, <4>1
        <4> QED BY <1>1, <1>9, <4>1, <4>2 DEF Single
      <3> QED BY <3>1, <3>2
    <2> QED BY <2>2 DEF Single
  <1> QED BY <1>6, <1>7, <1>8, <1>9

\* One step of AddAll.
AddOne(was, s, hash) ==
    IF s \in RingServers(was) THEN was ELSE ConhashAddNode(was, s, hash[s])

LEMMA AddOneIs ==
    ASSUME NEW r \in Rings, NEW s \in Servers, NEW hash \in [Servers -> Nat]
    PROVE  /\ AddOne(r, s, hash) \in Rings
           /\ RingServers(AddOne(r, s, hash)) = RingServers(r) \cup {s}
           /\ Single(r) => Single(AddOne(r, s, hash))
  <1>1. CASE s \in RingServers(r)
    BY <1>1 DEF AddOne
  <1>2. CASE s \notin RingServers(r)
    <2>1. PICK node : node = [id |-> UniqueId(r, hash[s]), info |-> s]
      OBVIOUS
    <2>2. node \in Node /\ node.info = s
      <3>1. UniqueId(r, hash[s]) \in Nat
        <4>1. hash[s] \in Nat
          OBVIOUS
        <4> QED BY <4>1, UniqueIdIs
      <3> QED BY <2>1, <3>1 DEF Node, RingNode
    <2>3. PICK d : d = InsertNode(r, node)
      OBVIOUS
    <2>4. AddOne(r, s, hash) = d
      BY <1>2, <2>1, <2>3 DEF AddOne, ConhashAddNode
    <2>5. d \in Rings /\ \E p : LinkedIn(r, d, p, node)
      BY <2>2, <2>3, InsertNodeLinks
    <2>6. /\ RingServers(d) = RingServers(r) \cup {s}
          /\ Single(r) => Single(d)
      BY <1>2, <2>2, <2>5, LinkedNode
    <2> QED BY <2>4, <2>5, <2>6
  <1> QED BY <1>1, <1>2

\* The rings while servers are added, one after another.
Added(t, r, list, hash) ==
    /\ t[0] = r
    /\ \A i \in 1 .. Len(list) : t[i - 1] \in Rings => t[i] = AddOne(t[i - 1], list[i], hash)

LEMMA AddAllRuns ==
    ASSUME NEW r \in Rings, NEW list \in Seq(Servers), NEW hash \in [Servers -> Nat]
    PROVE  \E t : Added(t, r, list, hash) /\ AddAll(r, list, hash) = t[Len(list)]
  <1> DEFINE n == Len(list)
             add == [s \in Servers |-> [was \in Seq(RingNode(Servers)) |->
                       IF s \in RingServers(was) THEN was ELSE ConhashAddNode(was, s, hash[s])]]
             F == [i \in 1 .. n |-> add[list[i]]]
             body(f) == [i \in 0 .. n |-> IF i = 0 THEN r ELSE add[list[i]][f[i - 1]]]
  <1>1. n \in Nat /\ DOMAIN list = 1 .. n /\ \A i \in 1 .. n : list[i] \in Servers
    BY LenProperties
  <1>2. ASSUME NEW i \in 1 .. n, NEW was \in Rings
        PROVE  add[list[i]][was] = AddOne(was, list[i], hash)
    <2>1. was \in Seq(RingNode(Servers)) /\ list[i] \in Servers
      BY <1>1 DEF Rings, Node
    <2> QED BY <2>1 DEF AddOne
  <1>3. ASSUME NEW i \in 1 .. n PROVE F[i] = add[list[i]] /\ F[i] \in [Rings -> Rings]
    <2>1. PICK s \in Servers : s = list[i]
      BY <1>1
    <2>2. \A was \in Rings : AddOne(was, s, hash) \in Rings
      BY AddOneIs
    <2>3. add[s] = [was \in Rings |-> AddOne(was, s, hash)]
      BY DEF AddOne, Rings, Node
    <2> QED BY <2>1, <2>2, <2>3
  <1> HIDE DEF n, add, F
  <1>4. PICK k : k \in [0 .. n -> Rings] /\ Iterate(k, r, F, n)
    BY <1>1, <1>3, Iterates
  <1>5. ASSUME NEW i \in 1 .. n
        PROVE  i - 1 \in 0 .. n /\ k[i - 1] \in Rings /\ k[i] = AddOne(k[i - 1], list[i], hash)
    <2>1. i - 1 \in 0 .. n /\ k[i - 1] \in Rings
      BY <1>1, <1>4
    <2>2. k[i] = F[i][k[i - 1]]
      BY <1>4 DEF Iterate
    <2> QED BY <1>2, <1>3, <2>1, <2>2
  <1>6. k = body(k)
    <2>1. \A i \in 1 .. n : k[i] = add[list[i]][k[i - 1]]
      BY <1>2, <1>5
    <2>2. k = [i \in 0 .. n |-> k[i]]
      BY <1>4
    <2>3. ASSUME NEW i \in 0 .. n PROVE k[i] = IF i = 0 THEN r ELSE add[list[i]][k[i - 1]]
      <3>1. CASE i = 0
        BY <1>4, <3>1 DEF Iterate
      <3>2. CASE i # 0
        <4>1. i \in 1 .. n
          BY <1>1, <3>2
        <4> QED BY <2>1, <3>2, <4>1
      <3> QED BY <3>1, <3>2
    <2> QED BY <2>2, <2>3, Zenon
  <1>7. PICK t : t = CHOOSE f : f = body(f)
    OBVIOUS
  <1>8. t = body(t)
    BY <1>6, <1>7
  <1>9. AddAll(r, list, hash) = t[n]
    BY <1>7 DEF AddAll, n, add
  <1>10. t[0] = r /\ \A i \in 1 .. n : t[i] = add[list[i]][t[i - 1]]
    BY <1>1, <1>8
  <1>11. Added(t, r, list, hash)
    BY <1>2, <1>10 DEF Added, n
  <1> QED BY <1>9, <1>11 DEF n

\* A ring after servers have been added has those it had and those added.
LEMMA AddAllIs ==
    ASSUME NEW r \in Rings, NEW list \in Seq(Servers), NEW hash \in [Servers -> Nat]
    PROVE  /\ AddAll(r, list, hash) \in Rings
           /\ RingServers(AddAll(r, list, hash)) = RingServers(r) \cup RangeOf(list)
           /\ Single(r) => Single(AddAll(r, list, hash))
           /\ RangeOf(list) \subseteq RingServers(r) => AddAll(r, list, hash) = r
  <1>1. PICK n \in Nat : n = Len(list) /\ DOMAIN list = 1 .. n /\ \A i \in 1 .. n : list[i] \in Servers
    BY LenProperties
  <1>2. PICK t : Added(t, r, list, hash) /\ AddAll(r, list, hash) = t[n]
    BY <1>1, AddAllRuns
  <1> DEFINE T == {i \in 0 .. n :
                     /\ t[i] \in Rings
                     /\ RingServers(t[i]) = RingServers(r) \cup {list[j] : j \in 1 .. i}
                     /\ Single(r) => Single(t[i])
                     /\ RangeOf(list) \subseteq RingServers(r) => t[i] = r}
  <1>3. 0 \in T
    BY <1>1, <1>2 DEF Added
  <1>4. ASSUME NEW i \in 1 .. n, i - 1 \in T PROVE i \in T
    <2>1. /\ t[i - 1] \in Rings /\ (Single(r) => Single(t[i - 1]))
          /\ RingServers(t[i - 1]) = RingServers(r) \cup {list[j] : j \in 1 .. i - 1}
      BY <1>4
    <2>2. t[i] = AddOne(t[i - 1], list[i], hash)
      BY <1>1, <1>2, <2>1 DEF Added
    <2>3. /\ t[i] \in Rings /\ (Single(r) => Single(t[i]))
          /\ RingServers(t[i]) = RingServers(t[i - 1]) \cup {list[i]}
      BY <1>1, <2>1, <2>2, AddOneIs
    <2>4. {list[j] : j \in 1 .. i} = {list[j] : j \in 1 .. i - 1} \cup {list[i]}
      <3>1. \A j \in 1 .. i : j \in 1 .. i - 1 \/ j = i
        OBVIOUS
      <3> QED BY <3>1
    <2>5. ASSUME RangeOf(list) \subseteq RingServers(r) PROVE t[i] = r
      <3>1. t[i - 1] = r
        BY <1>4, <2>5
      <3>2. list[i] \in RingServers(r)
        BY <1>1, <2>5 DEF RangeOf
      <3> QED BY <2>2, <3>1, <3>2 DEF AddOne
    <2> QED BY <2>1, <2>3, <2>4, <2>5
  <1> HIDE DEF T
  <1>5. n \in T
    <2>1. \A i \in 0 .. n : i \in T
      BY <1>1, <1>3, <1>4, Upwards
    <2> QED BY <1>1, <2>1
  <1> QED BY <1>1, <1>2, <1>5 DEF T, RangeOf

-----------------------------------------------------------------------------
(* Ids are unique and sorted, if none is pushed round the end of the ring. *)

Sorted(r) == \A i, j \in DOMAIN r : i < j => r[i].id < r[j].id

LEMMA Multiples ==
    ASSUME NEW a \in Nat, NEW b \in Nat, NEW c \in Nat, a <= b
    PROVE  a * c \in Nat /\ b * c \in Nat /\ a * c <= b * c /\ (a + 1) * c = a * c + c
  OBVIOUS

LEMMA NoWrap ==
    ASSUME NEW a \in Nat, NEW m \in Nat, a < m
    PROVE  a % m = a
  OBVIOUS

\* An id that a node pushes on is above that node, and so above all before it.
LEMMA UniqueFresh ==
    ASSUME NEW r \in Rings, Sorted(r), NEW h \in Nat, NEW n \in Nat, Len(r) <= n,
           h + n * HASH_INCREMENT < HASH_MAX
    PROVE  \A i \in DOMAIN r : UniqueId(r, h) # r[i].id
  <1>1. /\ Len(r) \in Nat /\ DOMAIN r = 1 .. Len(r) /\ HASH_INCREMENT \in Nat \ {0}
        /\ HASH_MAX \in Nat /\ \A i \in 1 .. Len(r) : r[i].id \in Nat
    BY RingIs, HashConstants
  <1>2. PICK t : /\ t[0] = h /\ UniqueId(r, h) = t[Len(r)]
                 /\ \A i \in 1 .. Len(r) :
                       t[i - 1] \in Nat /\ t[i] = Pushed(r[i], t[i - 1])
    BY UniqueIdIs
  <1> DEFINE T == {i \in 0 .. Len(r) : /\ t[i] \in Nat /\ t[i] <= h + i * HASH_INCREMENT
                                       /\ \A j \in 1 .. i : t[i] # r[j].id}
  <1>3. 0 \in T
    BY <1>1, <1>2
  <1>4. ASSUME NEW i \in 1 .. Len(r), i - 1 \in T PROVE i \in T
    <2>1. /\ t[i - 1] \in Nat /\ t[i - 1] <= h + (i - 1) * HASH_INCREMENT
          /\ \A j \in 1 .. i - 1 : t[i - 1] # r[j].id
      BY <1>4
    <2> HIDE DEF T
    <2>2. \A j \in 1 .. i - 1 : j \in 1 .. Len(r) /\ r[j].id \in Nat /\ r[j].id < r[i].id
      <3>1. \A j \in 1 .. i - 1 : j \in 1 .. Len(r) /\ j < i
        BY <1>1
      <3> QED BY <1>1, <3>1 DEF Sorted
    <2>3. PICK before \in Nat, now \in Nat, all \in Nat :
             /\ before = (i - 1) * HASH_INCREMENT /\ now = i * HASH_INCREMENT
             /\ all = n * HASH_INCREMENT /\ now = before + HASH_INCREMENT /\ now <= all
      <3>1. i - 1 \in Nat /\ i \in Nat /\ (i - 1) + 1 = i /\ i <= n /\ i - 1 <= i
        BY <1>1
      <3>2. /\ (i - 1) * HASH_INCREMENT \in Nat /\ i * HASH_INCREMENT \in Nat
            /\ i * HASH_INCREMENT = (i - 1) * HASH_INCREMENT + HASH_INCREMENT
        BY <1>1, <3>1, Multiples
      <3>3. n * HASH_INCREMENT \in Nat /\ i * HASH_INCREMENT <= n * HASH_INCREMENT
        BY <1>1, <3>1, Multiples
      <3> QED BY <3>2, <3>3
    <2>4. h + all < HASH_MAX /\ t[i - 1] <= h + before
      BY <2>1, <2>3
    <2>5. CASE r[i].id # t[i - 1]
      <3>1. t[i] = t[i - 1]
        BY <1>2, <2>5 DEF Pushed
      <3>2. t[i] \in Nat /\ t[i] <= h + now
        BY <1>1, <2>1, <2>3, <2>4, <3>1
      <3>3. \A j \in 1 .. i : t[i] # r[j].id
        BY <2>1, <2>5, <3>1
      <3> QED BY <2>3, <3>2, <3>3 DEF T
    <2>6. CASE r[i].id = t[i - 1]
      <3>1. PICK x \in Nat : x = t[i - 1] + HASH_INCREMENT
        BY <1>1, <2>1
      <3>2. x < HASH_MAX /\ x <= h + now
        <4>1. \A y, b, d, a, m \in Nat :
                 y <= h + b /\ b + d <= a /\ h + a < m => y + d < m /\ y + d <= h + (b + d)
          OBVIOUS
        <4>2. PICK y \in Nat : y = t[i - 1] /\ y <= h + before
          BY <2>1, <2>4
        <4>3. before + HASH_INCREMENT <= all /\ h + now = h + (before + HASH_INCREMENT)
          BY <2>3
        <4>4. y + HASH_INCREMENT < HASH_MAX /\ y + HASH_INCREMENT <= h + (before + HASH_INCREMENT)
          BY <1>1, <2>4, <4>1, <4>2, <4>3
        <4> QED BY <3>1, <4>2, <4>3, <4>4, Zenon
      <3>3. t[i] = x
        BY <1>1, <1>2, <2>6, <3>1, <3>2, NoWrap DEF Pushed
      <3>4. ASSUME NEW j \in 1 .. i PROVE x # r[j].id
        <4>1. r[j].id \in Nat /\ r[j].id <= t[i - 1]
          <5>1. j \in 1 .. i - 1 \/ j = i
            OBVIOUS
          <5> QED BY <1>1, <2>1, <2>2, <2>6, <5>1
        <4> QED BY <1>1, <2>1, <3>1, <4>1
      <3> QED BY <2>3, <3>2, <3>3, <3>4 DEF T
    <2> QED BY <2>5, <2>6
  <1> HIDE DEF T
  <1>5. Len(r) \in T
    <2>1. \A i \in 0 .. Len(r) : i \in T
      BY <1>1, <1>3, <1>4, Upwards
    <2> QED BY <1>1, <2>1
  <1> QED BY <1>1, <1>2, <1>5 DEF T

\* A node with an id of its own is put where the ids below it end.
LEMMA InsertSorted ==
    ASSUME NEW r \in Rings, Sorted(r), NEW node \in Node, \A i \in DOMAIN r : node.id # r[i].id
    PROVE  Sorted(InsertNode(r, node)) /\ Len(InsertNode(r, node)) = Len(r) + 1
  <1> DEFINE I == {i \in DOMAIN r : node.id < r[i].id}
  <1>1. /\ Len(r) \in Nat /\ DOMAIN r = 1 .. Len(r) /\ node.id \in Nat
        /\ I \in SUBSET Nat /\ I \subseteq 1 .. Len(r) /\ \A i \in 1 .. Len(r) : r[i].id \in Nat
    BY RingIs DEF Node, RingNode
  <1>2. PICK d : d = InsertNode(r, node)
    OBVIOUS
  <1>3. PICK p : /\ LinkedIn(r, d, p, node)
                 /\ \A i \in 1 .. Len(r) : IF i < p THEN r[i].id < node.id ELSE node.id < r[i].id
    <2>1. PICK q : q = FirstOf(I)
      OBVIOUS
    <2>2. CASE q = 0
      <3>1. I = {}
        <4>1. I # {} => Min(I) \in 1 .. Len(r)
          <5> HIDE DEF I
          <5> QED BY <1>1, MinIsLeast
        <4> QED BY <2>1, <2>2, <4>1 DEF FirstOf
      <3>2. d = Append(r, node)
        BY <1>2, <2>1, <2>2 DEF InsertNode
      <3>3. LinkedIn(r, d, Len(r) + 1, node)
        BY <3>2, AppendLinksIn DEF Rings
      <3>4. \A i \in 1 .. Len(r) : i < Len(r) + 1 /\ r[i].id < node.id
        BY <1>1, <3>1
      <3> QED BY <3>3, <3>4
    <2>3. CASE q # 0
      <3>1. I # {} /\ q = Min(I)
        BY <2>1, <2>3 DEF FirstOf
      <3>2. q \in I /\ \A i \in I : q <= i
        <4> HIDE DEF I
        <4> QED BY <1>1, <3>1, MinIsLeast
      <3>3. d = InsertAt(r, q, node)
        BY <1>2, <2>1, <2>3 DEF InsertNode
      <3>4. q \in 1 .. Len(r) + 1 /\ q \in 1 .. Len(r)
        BY <1>1, <3>2
      <3>5. LinkedIn(r, d, q, node)
        BY <3>3, <3>4, InsertLinksIn DEF Rings
      <3>6. ASSUME NEW i \in 1 .. Len(r)
            PROVE  IF i < q THEN r[i].id < node.id ELSE node.id < r[i].id
        <4>1. CASE i < q
          <5>1. i \notin I
            BY <1>1, <3>2, <3>4, <4>1
          <5> QED BY <1>1, <4>1, <5>1
        <4>2. CASE ~ (i < q)
          <5>1. i = q \/ r[q].id < r[i].id
            BY <1>1, <3>4, <4>2 DEF Sorted
          <5>2. node.id < r[q].id
            BY <3>2
          <5> QED BY <1>1, <3>4, <4>2, <5>1, <5>2
        <4> QED BY <4>1, <4>2
      <3> QED BY <3>5, <3>6
    <2> QED BY <2>2, <2>3
  <1>4. d \in Rings /\ Len(d) = Len(r) + 1 /\ DOMAIN d = 1 .. Len(d) /\ p \in 1 .. Len(d)
    BY <1>2, <1>3, InsertNodeLinks, RingIs DEF LinkedIn
  <1>5. \A i \in 1 .. Len(d) :
           d[i] = IF i < p THEN r[i] ELSE IF i = p THEN node ELSE r[i - 1]
    BY <1>3 DEF LinkedIn
  <1>6. ASSUME NEW i \in DOMAIN d, NEW j \in DOMAIN d, i < j PROVE d[i].id < d[j].id
    <2>1. i \in 1 .. Len(r) + 1 /\ j \in 1 .. Len(r) + 1 /\ p \in 1 .. Len(r) + 1
      BY <1>4
    <2>2. CASE j < p
      <3>1. i \in 1 .. Len(r) /\ j \in 1 .. Len(r) /\ i < p
        BY <1>1, <1>6, <2>1, <2>2
      <3> QED BY <1>1, <1>4, <1>5, <1>6, <2>2, <3>1 DEF Sorted
    <2>3. CASE j = p
      <3>1. i \in 1 .. Len(r) /\ i < p
        BY <1>1, <1>6, <2>1, <2>3
      <3> QED BY <1>3, <1>4, <1>5, <2>3, <3>1
    <2>4. CASE j > p
      <3>1. j - 1 \in 1 .. Len(r) /\ ~ (j - 1 < p) /\ d[j] = r[j - 1]
        BY <1>1, <1>4, <1>5, <2>1, <2>4
      <3>2. CASE i < p
        <4>1. i \in 1 .. Len(r) /\ i < j - 1 /\ d[i] = r[i]
          BY <1>1, <1>4, <1>5, <2>1, <2>4, <3>1, <3>2
        <4> QED BY <1>1, <3>1, <4>1 DEF Sorted
      <3>3. CASE i = p
        BY <1>3, <1>4, <1>5, <3>1, <3>3
      <3>4. CASE i > p
        <4>1. i - 1 \in 1 .. Len(r) /\ i - 1 < j - 1 /\ d[i] = r[i - 1]
          BY <1>1, <1>4, <1>5, <1>6, <2>1, <3>4
        <4> QED BY <1>1, <3>1, <4>1 DEF Sorted
      <3> QED BY <2>1, <3>2, <3>3, <3>4
    <2> QED BY <2>1, <2>2, <2>3, <2>4
  <1> QED BY <1>2, <1>4, <1>6 DEF Sorted

\* The ids of a client's first ring.
LEMMA AddAllSorted ==
    ASSUME NEW list \in Seq(Servers), NEW hash \in [Servers -> Nat],
           \A s \in Servers : hash[s] + Len(list) * HASH_INCREMENT < HASH_MAX
    PROVE  Sorted(AddAll(<<>>, list, hash))
  <1>1. PICK n \in Nat : n = Len(list) /\ DOMAIN list = 1 .. n /\ \A i \in 1 .. n : list[i] \in Servers
    BY LenProperties
  <1>2. <<>> \in Rings
    BY EmptySeq DEF Rings
  <1>3. PICK t : Added(t, <<>>, list, hash) /\ AddAll(<<>>, list, hash) = t[n]
    BY <1>1, <1>2, AddAllRuns
  <1> DEFINE T == {i \in 0 .. n : t[i] \in Rings /\ Sorted(t[i]) /\ Len(t[i]) <= i}
  <1>4. 0 \in T
    <2>1. t[0] = <<>> /\ Sorted(<<>>) /\ Len(<<>>) = 0
      BY <1>3 DEF Added, Sorted
    <2> QED BY <1>2, <2>1
  <1>5. ASSUME NEW i \in 1 .. n, i - 1 \in T PROVE i \in T
    <2>1. PICK r \in Rings : r = t[i - 1] /\ Sorted(r) /\ Len(r) <= i - 1 /\ Len(r) \in Nat
      BY <1>5, RingIs
    <2>2. PICK s \in Servers : s = list[i]
      BY <1>1
    <2>3. t[i] = AddOne(r, s, hash) /\ t[i] \in Rings
      <3>1. t[i] = AddOne(r, s, hash)
        BY <1>1, <1>3, <2>1, <2>2 DEF Added
      <3> QED BY <3>1, AddOneIs
    <2>4. CASE s \in RingServers(r)
      BY <2>1, <2>3, <2>4 DEF AddOne
    <2>5. CASE s \notin RingServers(r)
      <3>1. PICK h \in Nat : h = hash[s] /\ h + n * HASH_INCREMENT < HASH_MAX
        BY <1>1
      <3>2. PICK node : node = [id |-> UniqueId(r, h), info |-> s]
        OBVIOUS
      <3>3. node \in Node /\ node.id = UniqueId(r, h)
        BY <3>2, UniqueIdIs DEF Node, RingNode
      <3>4. \A j \in DOMAIN r : node.id # r[j].id
        <4>1. Len(r) <= n
          BY <2>1
        <4> QED BY <2>1, <3>1, <3>3, <4>1, UniqueFresh
      <3>5. t[i] = InsertNode(r, node)
        BY <2>3, <2>5, <3>1, <3>2 DEF AddOne, ConhashAddNode
      <3>6. Sorted(t[i]) /\ Len(t[i]) = Len(r) + 1
        BY <2>1, <3>3, <3>4, <3>5, InsertSorted
      <3>7. Len(t[i]) <= i
        BY <2>1, <3>6
      <3> QED BY <2>3, <3>6, <3>7
    <2> QED BY <2>4, <2>5
  <1> HIDE DEF T
  <1>6. n \in T
    <2>1. \A i \in 0 .. n : i \in T
      BY <1>1, <1>4, <1>5, Upwards
    <2> QED BY <1>1, <2>1
  <1> QED BY <1>3, <1>6 DEF T

-----------------------------------------------------------------------------
(* What removing the nodes of servers that have left does to a ring.       *)

\* A walk along a ring of one node for a server, that stops at 0.
Walks == {w \in [ring : Rings, at : Nat] : w.at <= Len(w.ring)}

LEMMA RoundIs ==
    ASSUME NEW w \in Walks, w.at # 0, NEW listed
    PROVE  /\ Round(w, listed) \in Walks
           /\ Single(w.ring) => Single(Round(w, listed).ring)
           /\ RingServers(Round(w, listed).ring) \subseteq RingServers(w.ring)
           /\ RingServers(w.ring) \subseteq listed => Round(w, listed).ring = w.ring
  <1> DEFINE rest == IF w.ring[w.at].info \in listed THEN w.ring
                     ELSE RemoveAt(w.ring, w.at)
             at   == IF w.at > Len(rest) THEN 1 ELSE w.at
  <1>1. w.ring \in Rings /\ w.at \in 1 .. Len(w.ring)
    BY RingIs DEF Walks
  <1>2. /\ rest \in Rings /\ (Single(w.ring) => Single(rest))
        /\ RingServers(rest) \subseteq RingServers(w.ring)
    <2>1. PICK d : d = RemoveAt(w.ring, w.at)
      OBVIOUS
    <2>2. d \in Rings /\ LinkedIn(d, w.ring, w.at, w.ring[w.at])
      BY <1>1, <2>1, RemoveUnlinks DEF Rings
    <2>3. w.ring[w.at] \in Node
      BY <1>1, RingIs
    <2>4. (Single(w.ring) => Single(d)) /\ RingServers(d) \subseteq RingServers(w.ring)
      BY <1>1, <2>2, <2>3, LinkedNode
    <2> QED BY <1>1, <2>1, <2>2, <2>4
  <1>3. Len(rest) \in Nat /\ (RingServers(w.ring) \subseteq listed => rest = w.ring)
    <2>1. w.ring[w.at].info \in RingServers(w.ring)
      BY <1>1, RingIs DEF RingServers
    <2> QED BY <1>2, <2>1, RingIs
  <1>4. Round(w, listed) = [ring |-> rest, at |-> IF at >= Len(rest) THEN 0 ELSE at + 1]
    BY DEF Round
  <1> HIDE DEF rest
  <1>5. at \in Nat /\ (IF at >= Len(rest) THEN 0 ELSE at + 1) \in Nat
        /\ (IF at >= Len(rest) THEN 0 ELSE at + 1) <= Len(rest)
    BY <1>1, <1>3, RingIs
  <1> HIDE DEF at
  <1> QED BY <1>2, <1>3, <1>4, <1>5 DEF Walks

\* The rounds of the walk, one after another.
MostRounds(r) == Len(r) * (Len(r) + 1)
Rounds(t, r, list) ==
    /\ t[0] = [ring |-> r, at |-> 1]
    /\ \A i \in 1 .. MostRounds(r) : t[i - 1] \in Walks =>
          t[i] = IF t[i - 1].at = 0 THEN t[i - 1] ELSE Round(t[i - 1], RangeOf(list))

LEMMA RemoveGoneRuns ==
    ASSUME NEW r \in Rings, r # <<>>, NEW list
    PROVE  /\ MostRounds(r) \in Nat /\ MostRounds(r) >= Len(r)
           /\ [ring |-> r, at |-> 1] \in Walks
           /\ \E t : Rounds(t, r, list) /\ RemoveGone(r, list) = t[MostRounds(r)].ring
  <1> DEFINE n == Len(r) * (Len(r) + 1)
             go == [walk \in [ring : Seq(RingNode(Servers)), at : Nat] |->
                      IF walk.at = 0 THEN walk ELSE Round(walk, RangeOf(list))]
             start == [ring |-> r, at |-> 1]
             GoWalks == [walk \in Walks |-> go[walk]]
             F == [i \in 1 .. n |-> GoWalks]
             body(f) == [i \in 0 .. n |-> IF i = 0 THEN start ELSE go[f[i - 1]]]
  <1>1. n \in Nat /\ n >= Len(r) /\ start \in Walks
    <2>1. Len(r) \in Nat /\ Len(r) >= 1
      BY RingIs
    <2>2. \A m \in Nat : m * (m + 1) \in Nat /\ m * (m + 1) >= m
      OBVIOUS
    <2> QED BY <2>1, <2>2 DEF Walks
  <1>2. ASSUME NEW w \in Walks
        PROVE  /\ go[w] = IF w.at = 0 THEN w ELSE Round(w, RangeOf(list))
               /\ go[w] \in Walks
    <2>1. w \in [ring : Seq(RingNode(Servers)), at : Nat]
      BY DEF Walks, Rings, Node
    <2>2. go[w] = IF w.at = 0 THEN w ELSE Round(w, RangeOf(list))
      BY <2>1
    <2> HIDE DEF go
    <2> QED BY <2>2, RoundIs
  <1> HIDE DEF n, go, start
  <1>3. \A i \in 1 .. n : F[i] \in [Walks -> Walks]
    BY <1>2
  <1>4. PICK k : k \in [0 .. n -> Walks] /\ Iterate(k, start, F, n)
    <2> HIDE DEF F
    <2> QED BY <1>1, <1>3, Iterates
  <1>5. k = body(k)
    <2>1. ASSUME NEW i \in 1 .. n PROVE k[i] = go[k[i - 1]]
      <3>1. i - 1 \in 0 .. n /\ k[i - 1] \in Walks
        BY <1>1, <1>4
      <3>2. F[i] = GoWalks /\ k[i] = F[i][k[i - 1]]
        BY <1>4 DEF Iterate
      <3> QED BY <3>1, <3>2
    <2>2. k = [i \in 0 .. n |-> k[i]]
      BY <1>4
    <2>3. ASSUME NEW i \in 0 .. n PROVE k[i] = IF i = 0 THEN start ELSE go[k[i - 1]]
      <3>1. CASE i = 0
        BY <1>4, <3>1 DEF Iterate
      <3>2. CASE i # 0
        <4>1. i \in 1 .. n
          BY <1>1, <3>2
        <4> QED BY <2>1, <3>2, <4>1
      <3> QED BY <3>1, <3>2
    <2> QED BY <2>2, <2>3, Zenon
  <1>6. PICK t : t = CHOOSE f : f = body(f)
    OBVIOUS
  <1>7. t = body(t)
    BY <1>5, <1>6
  <1>8. RemoveGone(r, list) = t[n].ring
    BY <1>6 DEF RemoveGone, n, go, start
  <1>9. t[0] = start /\ \A i \in 1 .. n : t[i] = go[t[i - 1]]
    BY <1>1, <1>7
  <1>10. n = MostRounds(r)
    BY DEF n, MostRounds
  <1>11. Rounds(t, r, list)
    BY <1>2, <1>9, <1>10 DEF Rounds, start
  <1> QED BY <1>1, <1>8, <1>10, <1>11 DEF start

LEMMA RemoveGoneIs ==
    ASSUME NEW r \in Rings, r # <<>>, NEW list
    PROVE  /\ RemoveGone(r, list) \in Rings
           /\ Single(r) => Single(RemoveGone(r, list))
           /\ RingServers(RemoveGone(r, list)) \subseteq RingServers(r)
           /\ RingServers(r) \subseteq RangeOf(list) => RemoveGone(r, list) = r
  <1>1. PICK t : Rounds(t, r, list) /\ RemoveGone(r, list) = t[MostRounds(r)].ring
    BY RemoveGoneRuns
  <1>2. PICK n \in Nat : n = MostRounds(r)
    BY RemoveGoneRuns
  <1> DEFINE T == {i \in 0 .. n : /\ t[i] \in Walks /\ (Single(r) => Single(t[i].ring))
                                  /\ RingServers(t[i].ring) \subseteq RingServers(r)
                                  /\ (RingServers(r) \subseteq RangeOf(list) => t[i].ring = r)}
  <1>3. 0 \in T
    <2>1. t[0] = [ring |-> r, at |-> 1] /\ t[0] \in Walks
      BY <1>1, RemoveGoneRuns DEF Rounds
    <2>2. t[0].ring = r
      BY <2>1
    <2> QED BY <2>1, <2>2
  <1>4. ASSUME NEW i \in 1 .. n, i - 1 \in T PROVE i \in T
    <2>1. t[i] = IF t[i - 1].at = 0 THEN t[i - 1] ELSE Round(t[i - 1], RangeOf(list))
      BY <1>1, <1>2, <1>4 DEF Rounds
    <2>2. PICK w \in Walks : w = t[i - 1] /\ (Single(r) => Single(w.ring))
                              /\ RingServers(w.ring) \subseteq RingServers(r)
                              /\ (RingServers(r) \subseteq RangeOf(list) => w.ring = r)
      BY <1>4
    <2>3. PICK v : v = t[i]
      OBVIOUS
    <2>4. /\ v \in Walks /\ (Single(w.ring) => Single(v.ring))
          /\ RingServers(v.ring) \subseteq RingServers(w.ring)
          /\ RingServers(w.ring) \subseteq RangeOf(list) => v.ring = w.ring
      BY <2>1, <2>2, <2>3, RoundIs
    <2> QED BY <2>2, <2>3, <2>4
  <1> HIDE DEF T
  <1>5. n \in T
    <2>1. \A i \in 0 .. n : i \in T
      BY <1>3, <1>4, Upwards
    <2> QED BY <2>1
  <1> QED BY <1>1, <1>2, <1>5 DEF T, Walks

\* A ring, or what is left without one node whose server is not listed.
Less(r, list, rest) ==
    rest = r \/ \E p \in DOMAIN r : r[p].info \notin RangeOf(list) /\ rest = RemoveAt(r, p)

\* If no two servers of the ring are missing on the list, the one that is goes.
LEMMA OneGone ==
    ASSUME NEW r \in Rings, r # <<>>, NEW list,
           \A i, j \in DOMAIN r :
              r[i].info \notin RangeOf(list) /\ r[j].info \notin RangeOf(list) => i = j
    PROVE  RingServers(RemoveGone(r, list)) \subseteq RangeOf(list) /\ Less(r, list, RemoveGone(r, list))
  <1> DEFINE Listed(q) == RingServers(q) \subseteq RangeOf(list)
             Comes(w, i) == w.ring = r /\ w.at = i + 1
                              /\ \E p \in i + 1 .. Len(r) : r[p].info \notin RangeOf(list)
  <1>0. Len(r) \in Nat /\ DOMAIN r = 1 .. Len(r) /\ Len(r) >= 1
    BY RingIs
  <1>1. PICK t : Rounds(t, r, list) /\ RemoveGone(r, list) = t[MostRounds(r)].ring
    BY RemoveGoneRuns
  <1>2. PICK n \in Nat : n = MostRounds(r) /\ n >= Len(r)
    BY RemoveGoneRuns
  <1> DEFINE T == {i \in 0 .. n : /\ t[i] \in Walks /\ Less(r, list, t[i].ring)
                                  /\ Listed(t[i].ring) \/ Comes(t[i], i)}
  <1>3. 0 \in T
    <2>1. t[0] = [ring |-> r, at |-> 1] /\ t[0] \in Walks
      BY <1>1, RemoveGoneRuns DEF Rounds
    <2>2. t[0].ring = r /\ t[0].at = 1
      BY <2>1
    <2>3. /\ Listed(r) \/ \E p \in 1 .. Len(r) : r[p].info \notin RangeOf(list)
          /\ Less(r, list, r)
      BY <1>0 DEF RingServers, Less
    <2> QED BY <2>1, <2>2, <2>3
  <1>4. ASSUME NEW i \in 1 .. n, i - 1 \in T PROVE i \in T
    <2>1. PICK w \in Walks : /\ w = t[i - 1] /\ Less(r, list, w.ring)
                             /\ Listed(w.ring) \/ Comes(w, i - 1)
      BY <1>4
    <2>2. t[i] = IF w.at = 0 THEN w ELSE Round(w, RangeOf(list))
      BY <1>1, <1>2, <2>1 DEF Rounds
    <2>3. t[i] \in Walks
      BY <2>2, RoundIs
    <2>4. CASE w.at = 0
      <3>1. ~ Comes(w, i - 1)
        BY <2>4
      <3> QED BY <2>1, <2>2, <2>3, <2>4, <3>1
    <2>5. CASE w.at # 0
      <3>1. w.ring \in Rings /\ w.at \in 1 .. Len(w.ring) /\ DOMAIN w.ring = 1 .. Len(w.ring)
            /\ Len(w.ring) \in Nat
        BY <2>5, RingIs DEF Walks
      <3>2. CASE w.ring[w.at].info \in RangeOf(list)
        <4>1. t[i] = [ring |-> w.ring, at |-> IF w.at >= Len(w.ring) THEN 0 ELSE w.at + 1]
          BY <2>2, <2>5, <3>1, <3>2 DEF Round
        <4>2. t[i].ring = w.ring /\ t[i].at = IF w.at >= Len(w.ring) THEN 0 ELSE w.at + 1
          BY <4>1
        <4>3. CASE Listed(w.ring)
          BY <2>1, <2>3, <4>2, <4>3
        <4>4. CASE Comes(w, i - 1)
          <5>1. w.ring = r /\ w.at = i
            BY <4>4
          <5>2. PICK p \in i .. Len(r) : r[p].info \notin RangeOf(list)
            BY <4>4
          <5>3. p # i
            BY <3>2, <5>1, <5>2
          <5>4. p \in i + 1 .. Len(r) /\ t[i].at = i + 1
            BY <1>0, <4>2, <5>1, <5>2, <5>3
          <5> QED BY <2>1, <2>3, <4>2, <5>1, <5>2, <5>4
        <4> QED BY <2>1, <4>3, <4>4
      <3>3. CASE w.ring[w.at].info \notin RangeOf(list)
        <4>1. ~ Listed(w.ring)
          BY <3>1, <3>3 DEF RingServers
        <4>2. w.ring = r /\ w.at = i
          BY <2>1, <4>1
        <4>3. PICK d : d = RemoveAt(r, i)
          OBVIOUS
        <4>4. t[i].ring = d
          BY <2>2, <2>5, <3>3, <4>2, <4>3 DEF Round
        <4>5. d \in Rings /\ LinkedIn(d, r, i, r[i])
          BY <3>1, <4>2, <4>3, RemoveUnlinks DEF Rings
        <4>6. ASSUME NEW j \in DOMAIN d PROVE d[j].info \in RangeOf(list)
          <5>1. \E m \in DOMAIN r : m # i /\ d[j] = r[m]
            <6>1. DOMAIN d = 1 .. Len(d) /\ Len(d) \in Nat /\ Len(r) = Len(d) + 1
              BY <4>5, RingIs DEF LinkedIn
            <6>2. CASE j < i
              BY <1>0, <4>5, <6>1, <6>2 DEF LinkedIn
            <6>3. CASE j >= i
              <7>1. j + 1 \in DOMAIN r /\ j + 1 # i /\ j + 1 \in i + 1 .. Len(r)
                BY <1>0, <6>1, <6>3
              <7> QED BY <4>5, <6>1, <6>3, <7>1 DEF LinkedIn
            <6> QED BY <6>1, <6>2, <6>3
          <5> QED BY <3>1, <3>3, <4>2, <5>1
        <4>7. Listed(d)
          BY <4>6 DEF RingServers
        <4>8. Less(r, list, d)
          BY <3>1, <3>3, <4>2, <4>3 DEF Less
        <4> QED BY <2>3, <4>4, <4>7, <4>8
      <3> QED BY <3>2, <3>3
    <2> QED BY <2>4, <2>5
  <1> HIDE DEF T
  <1>5. n \in T
    <2>1. \A i \in 0 .. n : i \in T
      BY <1>3, <1>4, Upwards
    <2> QED BY <2>1
  <1>6. ~ Comes(t[n], n)
    BY <1>0, <1>2
  <1> QED BY <1>1, <1>2, <1>5, <1>6 DEF T

\* A client that renews its ring for a list of servers has a node for each of them,
\* and one for a server.
LEMMA RenewIs ==
    ASSUME NEW r \in Rings, r # <<>>, NEW list \in Seq(Servers), list # <<>>,
           NEW hash \in [Servers -> Nat]
    PROVE  /\ Renew(r, list, hash) \in Rings \ {<<>>}
           /\ RangeOf(list) \subseteq RingServers(Renew(r, list, hash))
           /\ RingServers(Renew(r, list, hash)) \subseteq RingServers(r) \cup RangeOf(list)
           /\ Single(r) => Single(Renew(r, list, hash))
           /\ (\A i, j \in DOMAIN r :
                 r[i].info \notin RangeOf(list) /\ r[j].info \notin RangeOf(list) => i = j)
                 => /\ RingServers(Renew(r, list, hash)) = RangeOf(list)
                    /\ RangeOf(list) \subseteq RingServers(r) => Less(r, list, Renew(r, list, hash))
           /\ RingServers(r) = RangeOf(list) => Renew(r, list, hash) = r
  <1>1. PICK kept : kept = RemoveGone(r, list)
    OBVIOUS
  <1>2. /\ kept \in Rings /\ (Single(r) => Single(kept))
        /\ RingServers(kept) \subseteq RingServers(r)
        /\ RingServers(r) \subseteq RangeOf(list) => kept = r
    BY <1>1, RemoveGoneIs
  <1>3. PICK new : new = AddAll(kept, list, hash)
    OBVIOUS
  <1>4. /\ new \in Rings /\ (Single(kept) => Single(new))
        /\ RingServers(new) = RingServers(kept) \cup RangeOf(list)
        /\ RangeOf(list) \subseteq RingServers(kept) => new = kept
    BY <1>2, <1>3, AddAllIs
  <1>5. new # <<>>
    <2>1. Len(list) \in Nat \ {0} /\ DOMAIN list = 1 .. Len(list)
      BY LenProperties, EmptySeq
    <2>2. list[1] \in RangeOf(list)
      BY <2>1 DEF RangeOf
    <2>3. RingServers(new) # {}
      BY <1>4, <2>2
    <2>4. DOMAIN new # {}
      BY <2>3 DEF RingServers
    <2> QED BY <1>4, <2>4, RingIs
  <1>6. (\A i, j \in DOMAIN r :
           r[i].info \notin RangeOf(list) /\ r[j].info \notin RangeOf(list) => i = j)
           => RingServers(kept) \subseteq RangeOf(list) /\ Less(r, list, kept)
    BY <1>1, OneGone
  <1>7. ASSUME Less(r, list, kept), RangeOf(list) \subseteq RingServers(r) PROVE new = kept
    <2>1. CASE kept = r
      BY <1>4, <1>7, <2>1
    <2>2. ASSUME NEW p \in DOMAIN r, r[p].info \notin RangeOf(list), kept = RemoveAt(r, p)
          PROVE  new = kept
      <3>1. p \in 1 .. Len(r) /\ r[p] \in Node
        BY RingIs
      <3>2. LinkedIn(kept, r, p, r[p])
        BY <2>2, <3>1, RemoveUnlinks DEF Rings
      <3>3. RingServers(r) = RingServers(kept) \cup {r[p].info}
        BY <1>2, <3>1, <3>2, LinkedNode
      <3>4. RangeOf(list) \subseteq RingServers(kept)
        BY <1>7, <2>2, <3>3
      <3> QED BY <1>4, <3>4
    <2> QED BY <1>7, <2>1, <2>2 DEF Less
  <1>8. (\A i, j \in DOMAIN r :
           r[i].info \notin RangeOf(list) /\ r[j].info \notin RangeOf(list) => i = j)
           => /\ RingServers(new) = RangeOf(list)
              /\ RangeOf(list) \subseteq RingServers(r) => Less(r, list, new)
    BY <1>4, <1>6, <1>7
  <1>9. /\ new \in Rings \ {<<>>} /\ RangeOf(list) \subseteq RingServers(new)
        /\ RingServers(new) \subseteq RingServers(r) \cup RangeOf(list)
        /\ (Single(r) => Single(new)) /\ (RingServers(r) = RangeOf(list) => new = r)
    BY <1>2, <1>4, <1>5
  <1> QED BY <1>1, <1>3, <1>8, <1>9 DEF Renew

-----------------------------------------------------------------------------
(* The owner of a key, the node after it, and what is left of them when a  *)
(* node goes.                                                              *)

\* The position that a lookup ends at.
AtRight(r, k, m) ==
    /\ m \in DOMAIN r
    /\ IF \E i \in DOMAIN r : k <= r[i].id
       THEN k <= r[m].id /\ \A i \in DOMAIN r : k <= r[i].id => m <= i
       ELSE m = 1

LEMMA RightPosIs ==
    ASSUME NEW r \in Rings, r # <<>>, NEW k
    PROVE  /\ AtRight(r, k, RightPos(r, k))
           /\ \A m : AtRight(r, k, m) => m = RightPos(r, k)
  <1> DEFINE I == {i \in DOMAIN r : k <= r[i].id}
  <1>1. /\ Len(r) \in Nat \ {0} /\ DOMAIN r = 1 .. Len(r)
        /\ I \in SUBSET Nat /\ I \subseteq DOMAIN r
    BY RingIs
  <1>2. PICK p : p = RightPos(r, k)
    OBVIOUS
  <1>3. p = IF I = {} THEN 1 ELSE Min(I)
    <2>1. I # {} => Min(I) \in 1 .. Len(r)
      <3> HIDE DEF I
      <3> QED BY <1>1, MinIsLeast
    <2>2. PICK m : m = FirstOf(I)
      OBVIOUS
    <2>3. p = IF m = 0 THEN 1 ELSE m
      BY <1>2, <2>2 DEF RightPos
    <2> QED BY <2>1, <2>2, <2>3 DEF FirstOf
  <1>4. I # {} => Min(I) \in I /\ \A i \in I : Min(I) <= i
    <2> HIDE DEF I
    <2> QED BY <1>1, MinIsLeast
  <1>5. AtRight(r, k, p)
    BY <1>1, <1>3, <1>4 DEF AtRight
  <1>6. ASSUME NEW m, AtRight(r, k, m) PROVE m = p
    BY <1>1, <1>5, <1>6 DEF AtRight
  <1> QED BY <1>2, <1>5, <1>6

LEMMA NextPos ==
    ASSUME NEW r \in Rings, NEW p \in 1 .. Len(r)
    PROVE  Steps(r, p, 1) = IF p = Len(r) THEN 1 ELSE p + 1
  <1>1. PICK n \in Nat \ {0} : n = Len(r) /\ p \in 1 .. n
    BY RingIs
  <1>2. (p - 1 + 1) % n = IF p = n THEN 0 ELSE p
    BY <1>1
  <1> QED BY <1>1, <1>2 DEF Steps

\* The owner of a key and the next are among the servers of a ring.
LEMMA NodesOfRing ==
    ASSUME NEW r \in Rings, r # <<>>, NEW k
    PROVE  /\ ConhashGetNode(r, k).info \in RingServers(r)
           /\ LET n == ConhashGetNodeAfter(r, k, 1) IN n # NULL => n.info \in RingServers(r)
  <1>1. Len(r) \in Nat \ {0} /\ DOMAIN r = 1 .. Len(r)
    BY RingIs
  <1>2. PICK p : p = RightPos(r, k)
    OBVIOUS
  <1>3. p \in 1 .. Len(r)
    BY <1>1, <1>2, RightPosIs DEF AtRight
  <1>4. PICK q : q = Steps(r, p, 1)
    OBVIOUS
  <1>5. q \in 1 .. Len(r)
    BY <1>1, <1>3, <1>4, NextPos
  <1>6. ConhashGetNode(r, k) = r[p] /\ ConhashGetNodeAfter(r, k, 1) \in {r[q], NULL}
    BY <1>2, <1>4 DEF ConhashGetNode, ConhashGetNodeAfter, NodeAway
  <1>7. r[p].info \in RingServers(r) /\ r[q].info \in RingServers(r)
    BY <1>1, <1>3, <1>5 DEF RingServers
  <1> QED BY <1>6, <1>7

LEMMA RemoveSorted ==
    ASSUME NEW r \in Rings, Sorted(r), NEW p \in DOMAIN r
    PROVE  Sorted(RemoveAt(r, p))
  <1>1. PICK d : d = RemoveAt(r, p)
    OBVIOUS
  <1>2. d \in Rings /\ LinkedIn(d, r, p, r[p])
    BY <1>1, RingIs, RemoveUnlinks DEF Rings
  <1>3. /\ Len(d) \in Nat /\ Len(r) = Len(d) + 1 /\ DOMAIN d = 1 .. Len(d)
        /\ DOMAIN r = 1 .. Len(r) /\ p \in 1 .. Len(r)
    BY <1>2, RingIs DEF LinkedIn
  <1> DEFINE to(i) == IF i < p THEN i ELSE i + 1
  <1>4. \A i \in 1 .. Len(d) : to(i) \in 1 .. Len(r) /\ d[i] = r[to(i)]
    <2>1. ASSUME NEW i \in 1 .. Len(d) PROVE to(i) \in 1 .. Len(r) /\ d[i] = r[to(i)]
      <3>1. CASE i < p
        BY <1>2, <1>3, <3>1 DEF LinkedIn
      <3>2. CASE ~ (i < p)
        <4>1. i + 1 \in 1 .. Len(r) /\ ~ (i + 1 < p) /\ i + 1 # p /\ i + 1 - 1 = i
          BY <1>3, <3>2
        <4> QED BY <1>2, <3>2, <4>1 DEF LinkedIn
      <3> QED BY <3>1, <3>2
    <2> QED BY <2>1
  <1>5. \A i, j \in 1 .. Len(d) : i < j => to(i) < to(j)
    BY <1>3
  <1> HIDE DEF to
  <1> QED BY <1>1, <1>3, <1>4, <1>5 DEF Sorted

\* When a node goes the node after it gets its keys, and no other key moves.
LEMMA OwnerGone ==
    ASSUME NEW r \in Rings, Sorted(r), Single(r), NEW p \in DOMAIN r,
           RemoveAt(r, p) # <<>>, NEW k \in Int,
           NEW o, o = ConhashGetNode(r, k), NEW n, n = ConhashGetNodeAfter(r, k, 1)
    PROVE  /\ o.info # r[p].info => ConhashGetNode(RemoveAt(r, p), k) = o
           /\ o.info = r[p].info => /\ n # NULL /\ n.info # r[p].info
                                    /\ ConhashGetNode(RemoveAt(r, p), k) = n
  <1>1. PICK d : d = RemoveAt(r, p)
    OBVIOUS
  <1>2. d \in Rings /\ d # <<>> /\ LinkedIn(d, r, p, r[p])
    BY <1>1, RingIs, RemoveUnlinks DEF Rings
  <1>3. /\ Len(d) \in Nat \ {0} /\ Len(r) = Len(d) + 1 /\ DOMAIN d = 1 .. Len(d)
        /\ DOMAIN r = 1 .. Len(r) /\ p \in 1 .. Len(r) /\ r # <<>>
        /\ \A i \in 1 .. Len(r) : r[i].id \in Nat /\ r[i] \in Node
    BY <1>2, RingIs DEF LinkedIn
  <1>4. \A i \in 1 .. Len(d) : d[i] = IF i < p THEN r[i] ELSE r[i + 1]
    <2>1. \A i \in 1 .. Len(d) : i < p => d[i] = r[i]
      BY <1>2, <1>3 DEF LinkedIn
    <2>2. ASSUME NEW i \in 1 .. Len(d), ~ (i < p) PROVE d[i] = r[i + 1]
      <3>1. i + 1 \in 1 .. Len(r) /\ ~ (i + 1 < p) /\ i + 1 # p /\ i + 1 - 1 = i
        BY <1>3, <2>2
      <3> QED BY <1>2, <3>1 DEF LinkedIn
    <2> QED BY <2>1, <2>2
  <1>5. PICK m : m = RightPos(r, k)
    OBVIOUS
  <1>6. AtRight(r, k, m) /\ m \in 1 .. Len(r) /\ o = r[m]
    BY <1>3, <1>5, RightPosIs DEF AtRight, ConhashGetNode
  <1>7. PICK q : q = IF m = Len(r) THEN 1 ELSE m + 1
    OBVIOUS
  <1>8. q \in 1 .. Len(r) /\ q # m
    BY <1>3, <1>6, <1>7
  <1>9. n = r[q] /\ n # NULL
    <2>1. r[q].id # r[m].id
      BY <1>3, <1>6, <1>8 DEF Sorted
    <2>2. q = Steps(r, m, 1)
      BY <1>6, <1>7, NextPos
    <2>3. n = r[q]
      BY <1>3, <1>5, <2>1, <2>2 DEF ConhashGetNodeAfter, NodeAway
    <2>4. r[q] \in Node
      BY <1>3, <1>8
    <2> QED BY <2>3, <2>4, ClusterAssumption DEF Node
  <1>10. ASSUME NEW x, AtRight(d, k, x) PROVE ConhashGetNode(d, k) = d[x]
    BY <1>2, <1>10, RightPosIs DEF ConhashGetNode
  <1>11. CASE m # p
    <2>1. PICK x : x = IF m < p THEN m ELSE m - 1
      OBVIOUS
    <2>2. x \in 1 .. Len(d) /\ d[x] = r[m]
      <3>1. CASE m < p
        <4>1. x = m /\ x \in 1 .. Len(d)
          BY <1>3, <1>6, <2>1, <3>1
        <4> QED BY <1>4, <3>1, <4>1
      <3>2. CASE ~ (m < p)
        <4>1. x = m - 1 /\ x \in 1 .. Len(d) /\ ~ (x < p) /\ x + 1 = m
          BY <1>3, <1>6, <1>11, <2>1, <3>2
        <4> QED BY <1>4, <4>1
      <3> QED BY <3>1, <3>2
    <2>3. AtRight(d, k, x)
      <3>1. CASE \E i \in 1 .. Len(r) : k <= r[i].id
        <4>1. k <= r[m].id /\ \A i \in 1 .. Len(r) : k <= r[i].id => m <= i
          BY <1>3, <1>6, <3>1 DEF AtRight
        <4>2. ASSUME NEW i \in 1 .. Len(d), k <= d[i].id PROVE x <= i
          <5>1. CASE i < p
            <6>1. i \in 1 .. Len(r) /\ k <= r[i].id
              BY <1>3, <1>4, <4>2, <5>1
            <6>2. m <= i
              BY <4>1, <6>1
            <6> QED BY <1>3, <1>6, <2>1, <5>1, <6>2
          <5>2. CASE ~ (i < p)
            <6>1. i + 1 \in 1 .. Len(r) /\ k <= r[i + 1].id
              BY <1>3, <1>4, <4>2, <5>2
            <6>2. m <= i + 1
              BY <4>1, <6>1
            <6> QED BY <1>3, <1>6, <1>11, <2>1, <5>2, <6>2
          <5> QED BY <5>1, <5>2
        <4> QED BY <1>3, <2>2, <4>1, <4>2 DEF AtRight
      <3>2. CASE ~ \E i \in 1 .. Len(r) : k <= r[i].id
        <4>1. m = 1
          BY <1>3, <1>6, <3>2 DEF AtRight
        <4>2. x = 1
          BY <1>3, <1>11, <2>1, <4>1
        <4>3. ASSUME NEW i \in 1 .. Len(d) PROVE ~ (k <= d[i].id)
          <5>1. \E j \in 1 .. Len(r) : d[i] = r[j]
            <6>1. i \in 1 .. Len(r) /\ i + 1 \in 1 .. Len(r)
              BY <1>3
            <6> QED BY <1>4, <6>1
          <5> QED BY <3>2, <5>1
        <4> QED BY <1>3, <2>2, <4>2, <4>3 DEF AtRight
      <3> QED BY <3>1, <3>2
    <2>4. o.info # r[p].info
      BY <1>3, <1>6, <1>11 DEF Single
    <2> QED BY <1>1, <1>6, <1>10, <2>2, <2>3, <2>4
  <1>12. CASE m = p
    <2>1. n.info # r[p].info
      BY <1>3, <1>8, <1>9, <1>12 DEF Single
    <2>2. PICK x : x = IF m = Len(r) THEN 1 ELSE m
      OBVIOUS
    <2>3. x \in 1 .. Len(d) /\ d[x] = r[q]
      BY <1>3, <1>4, <1>6, <1>7, <1>12, <2>2
    <2>4. AtRight(d, k, x)
      <3>1. CASE \E i \in 1 .. Len(r) : k <= r[i].id
        <4>1. k <= r[m].id /\ \A i \in 1 .. Len(r) : k <= r[i].id => m <= i
          BY <1>3, <1>6, <3>1 DEF AtRight
        <4>2. \A i \in 1 .. Len(d) : i < m => ~ (k <= d[i].id)
          <5>1. ASSUME NEW i \in 1 .. Len(d), i < m PROVE ~ (k <= d[i].id)
            <6>1. i \in 1 .. Len(r) /\ d[i] = r[i] /\ ~ (m <= i)
              BY <1>3, <1>4, <1>6, <1>12, <5>1
            <6> QED BY <4>1, <6>1
          <5> QED BY <5>1
        <4>3. CASE m = Len(r)
          <5>1. \A i \in 1 .. Len(d) : i < m
            BY <1>3, <4>3
          <5> QED BY <1>3, <2>2, <2>3, <4>2, <4>3, <5>1 DEF AtRight
        <4>4. CASE m # Len(r)
          <5>1. r[m].id < r[q].id /\ q = m + 1 /\ x = m
            <6>1. q = m + 1 /\ x = m
              BY <1>7, <2>2, <4>4
            <6>2. m < q
              BY <1>3, <1>6, <6>1
            <6> QED BY <1>3, <1>6, <1>8, <6>1, <6>2 DEF Sorted
          <5>2. k <= d[x].id
            <6>1. \A a, b \in Nat : k <= a /\ a < b => k <= b
              OBVIOUS
            <6> QED BY <1>3, <1>6, <1>8, <2>3, <4>1, <5>1, <6>1
          <5>3. \A i \in 1 .. Len(d) : k <= d[i].id => x <= i
            <6>1. \A i \in 1 .. Len(d) : x <= i \/ i < m
              BY <1>3, <1>6, <5>1
            <6> QED BY <4>2, <6>1
          <5> QED BY <1>3, <2>3, <5>2, <5>3 DEF AtRight
        <4> QED BY <4>3, <4>4
      <3>2. CASE ~ \E i \in 1 .. Len(r) : k <= r[i].id
        <4>1. m = 1 /\ x = 1
          BY <1>3, <1>6, <2>2, <3>2 DEF AtRight
        <4>2. ASSUME NEW i \in 1 .. Len(d) PROVE ~ (k <= d[i].id)
          <5>1. \E j \in 1 .. Len(r) : d[i] = r[j]
            <6>1. i \in 1 .. Len(r) /\ i + 1 \in 1 .. Len(r)
              BY <1>3
            <6> QED BY <1>4, <6>1
          <5> QED BY <3>2, <5>1
        <4> QED BY <1>3, <2>3, <4>1, <4>2 DEF AtRight
      <3> QED BY <3>1, <3>2
    <2> QED BY <1>1, <1>6, <1>9, <1>10, <1>12, <2>1, <2>3, <2>4
  <1> QED BY <1>11, <1>12

-----------------------------------------------------------------------------
(* Types.                                                                  *)

Codes == {"UPDATE", "GET_OK", "NONE", "PUT_OK", "DELETE_OK", "ERROR", "UNAVAILABLE"}
Places == {"idle", "ask", "list", "master", "act", "backup", "owner", "killed"}

\* Requests, and those a user makes; what is answered and told.
Requests ==
    {r \in [op : {"LIST", "PUT", "GET", "DELETE"}, key : Keys \cup {None},
            val : Values \cup {None}] :
        /\ r.op # "LIST" => r.key \in Keys
        /\ r.op = "PUT" => r.val \in Values}
Commands == {r \in Requests : r.op # "LIST"}
Msgs ==
    {m \in [code : Codes, val : Seq(Servers) \cup Values \cup {None}] :
        IsMsg(m) /\ (m.code = "UPDATE" => m.val # <<>>)}

ServersTyped ==
    /\ members \in Seq(Servers) /\ up \subseteq Servers /\ left \subseteq Servers
    /\ up # {} /\ up \subseteq RangeOf(members)
    /\ file \in [Servers -> [Keys -> Values \cup {None}]]
RequestsTyped == requests \in [Pairs -> Seq(Requests)]
AnswersTyped == answers \in [Pairs -> Seq(Msgs)]
RingsTyped == ring \in [Clients -> Rings \ {<<>>}] /\ \A c \in Clients : Single(ring[c])
SocketsTyped ==
    /\ conn \in [Clients -> SUBSET Servers] /\ timed \in [Clients -> SUBSET Servers]
    /\ broken \in [Clients -> SUBSET Servers]
PlaceTyped ==
    /\ pc \in [Clients -> Places]
    /\ tries \in [Clients -> 0 .. MaxTry] /\ usedMaster \in [Clients -> BOOLEAN]
    /\ asked \in [Clients -> Servers \cup {None}]
    /\ cmd \in [Clients -> Commands \cup {NoCmd}]
    /\ \A c \in Clients :
          /\ pc[c] \in {"ask", "list"} => tries[c] # 0
          /\ pc[c] = "list" => asked[c] \in Servers
          /\ pc[c] # "idle" => cmd[c] \in Commands
ToldTyped ==
    /\ buffer \in [Clients -> Msgs] /\ said \in [Clients -> Msgs]
    /\ puts \in Seq(Keys) /\ Len(puts) <= world.puts
    /\ may \in [Keys -> SUBSET (Values \cup {None})]

Typed ==
    /\ world \in Worlds
    /\ ServersTyped /\ RequestsTyped /\ AnswersTyped /\ RingsTyped /\ SocketsTyped
    /\ PlaceTyped /\ ToldTyped

LEMMA WorldIs ==
    ASSUME world \in Worlds
    PROVE  /\ world.online \in Seq(Servers) /\ world.online # <<>>
           /\ world.puts \in Nat /\ world.keys \subseteq Keys
           /\ None \notin Values
  <1>1. world \in [online : {l \in Seq(Servers) : l # <<>> /\ IsInjective(l)},
                   slow : SUBSET Servers, keys : SUBSET Keys,
                   puts : Nat, joins : Nat, leaves : Nat, late : Nat]
    BY ClusterAssumption
  <1> QED BY <1>1, ClusterAssumption DEF Values

LEMMA HashIs ==
    ASSUME NEW hash \in HashChoices
    PROVE  hash \in [Servers -> Nat]
  <1>1. /\ hash \in [Servers -> UNION {Hashes[s] : s \in Servers}]
        /\ \A s \in Servers : hash[s] \in Hashes[s]
    BY DEF HashChoices
  <1>2. \A s \in Servers : Hashes[s] \subseteq Nat
    BY ClusterAssumption
  <1> QED BY <1>1, <1>2

LEMMA SilentIs == Silent \in Msgs /\ Msg("UNAVAILABLE", None) \in Msgs
  BY DEF Silent, Msg, Msgs, Codes, IsMsg

LEMMA TypedGivesTypeOK ==
    ASSUME Typed
    PROVE  TypeOK
  <1>1. \A p \in Pairs : \A i \in DOMAIN answers[p] : IsMsg(answers[p][i])
    <2>1. ASSUME NEW p \in Pairs, NEW i \in DOMAIN answers[p] PROVE IsMsg(answers[p][i])
      <3>1. answers[p] \in Seq(Msgs)
        BY DEF Typed, AnswersTyped
      <3>2. answers[p][i] \in Msgs
        BY <3>1
      <3> QED BY <3>2 DEF Msgs
    <2> QED BY <2>1
  <1>2. ASSUME NEW c \in Clients
        PROVE  /\ ring[c] \in Seq(Node) \ {<<>>}
               /\ Cardinality(RingServers(ring[c])) = Len(ring[c])
    <2>1. ring[c] \in Rings \ {<<>>} /\ Single(ring[c])
      BY DEF Typed, RingsTyped
    <2> QED BY <2>1, SingleCardinality DEF Rings
  <1>3. \A c \in Clients :
           conn[c] \cup timed[c] \cup broken[c] \subseteq Servers
    BY DEF Typed, SocketsTyped
  <1>4. \A c \in Clients : asked[c] \in Servers \cup {None}
    BY DEF Typed, PlaceTyped
  <1>5. /\ usedMaster \in [Clients -> BOOLEAN] /\ tries \in [Clients -> 0 .. MaxTry]
        /\ pc \in [Clients -> {"idle", "ask", "list", "master", "act", "backup", "owner",
                               "killed"}]
    BY DEF Typed, PlaceTyped, Places
  <1>6. \A c \in Clients : IsMsg(said[c]) /\ IsMsg(buffer[c])
    <2>1. \A c \in Clients : said[c] \in Msgs /\ buffer[c] \in Msgs
      BY DEF Typed, ToldTyped
    <2> QED BY <2>1 DEF Msgs
  <1>7. /\ members \in Seq(Servers) /\ up \subseteq Servers /\ left \subseteq Servers
        /\ file \in [Servers -> [Keys -> Values \cup {None}]]
    BY DEF Typed, ServersTyped
  <1>8. puts \in Seq(Keys) /\ world \in Worlds /\ may \in [Keys -> SUBSET (Values \cup {None})]
    BY DEF Typed, ToldTyped
  <1> QED BY <1>1, <1>2, <1>3, <1>4, <1>5, <1>6, <1>7, <1>8 DEF TypeOK

LEMMA InitTyped == Init => Typed
  <1> SUFFICES ASSUME Init PROVE Typed
    OBVIOUS
  <1>1. world \in Worlds
    BY DEF Init
  <1>2. /\ world.online \in Seq(Servers) /\ world.online # <<>> /\ world.puts \in Nat
        /\ DOMAIN world.online = 1 .. Len(world.online) /\ Len(world.online) \in Nat \ {0}
    BY <1>1, WorldIs, LenProperties, EmptySeq
  <1>3. ServersTyped
    <2>a. \A i \in 1 .. Len(world.online) : world.online[i] \in Servers
      BY <1>2
    <2>1. RangeOf(world.online) \subseteq Servers /\ RangeOf(world.online) # {}
      <3>1. 1 \in DOMAIN world.online
        BY <1>2
      <3> QED BY <1>2, <2>a, <3>1 DEF RangeOf
    <2> QED BY <1>2, <2>1 DEF Init, ServersTyped
  <1>4. RequestsTyped /\ AnswersTyped
    BY EmptySeq DEF Init, RequestsTyped, AnswersTyped
  <1>5. RingsTyped
    <2>1. ASSUME NEW h \in HashChoices
          PROVE  /\ AddAll(<<>>, world.online, h) \in Rings \ {<<>>}
                 /\ Single(AddAll(<<>>, world.online, h))
      <3>1. h \in [Servers -> Nat] /\ <<>> \in Rings /\ Single(<<>>)
        BY HashIs, EmptySeq DEF Rings, Single
      <3>2. PICK r : r = AddAll(<<>>, world.online, h)
        OBVIOUS
      <3>3. r \in Rings /\ RangeOf(world.online) \subseteq RingServers(r) /\ Single(r)
        BY <1>2, <3>1, <3>2, AddAllIs
      <3>4. DOMAIN r # {}
        <4>1. world.online[1] \in RingServers(r)
          BY <1>2, <3>3 DEF RangeOf
        <4> QED BY <4>1 DEF RingServers
      <3>5. r # <<>>
        BY <3>3, <3>4, RingIs
      <3> QED BY <3>2, <3>3, <3>5
    <2>2. ring \in [Clients -> {AddAll(<<>>, world.online, h) : h \in HashChoices}]
      BY DEF Init
    <2> QED BY <2>1, <2>2 DEF RingsTyped
  <1>6. SocketsTyped
    <2>1. up \subseteq Servers
      BY <1>3 DEF ServersTyped
    <2> QED BY <2>1 DEF Init, SocketsTyped
  <1>7. PlaceTyped
    BY ClusterAssumption DEF Init, PlaceTyped, Places
  <1>8. ToldTyped
    BY <1>2, SilentIs, EmptySeq DEF Init, ToldTyped
  <1> QED BY <1>1, <1>3, <1>4, <1>5, <1>6, <1>7, <1>8 DEF Typed

-----------------------------------------------------------------------------
(* What a step does to the types.                                          *)

LEMMA ClientServers ==
    ASSUME RingsTyped, NEW c \in Clients
    PROVE  Owner(c) \in Servers /\ Backup(c) \subseteq Servers
  <1>1. PICK r : r = ring[c]
    OBVIOUS
  <1>2. r \in Rings /\ r # <<>>
    BY <1>1 DEF RingsTyped
  <1>3. RingServers(r) \subseteq Servers
    BY <1>2, RingIs DEF RingServers
  <1>4. ConhashGetNode(r, cmd[c].key).info \in Servers
    BY <1>2, <1>3, NodesOfRing
  <1>5. PICK n : n = ConhashGetNodeAfter(r, cmd[c].key, 1)
    OBVIOUS
  <1>6. n # NULL => n.info \in Servers
    BY <1>2, <1>3, <1>5, NodesOfRing
  <1>7. Backup(c) \subseteq {n.info} /\ (n = NULL => Backup(c) = {})
    BY <1>1, <1>5 DEF Backup
  <1> QED BY <1>1, <1>4, <1>6, <1>7 DEF Owner

LEMMA SendIs ==
    ASSUME RequestsTyped, SocketsTyped, NEW c \in Clients, NEW S, NEW r \in Requests,
           SendMsg(c, S, r), Requests' = Requests
    PROVE  RequestsTyped' /\ broken' \in [Clients -> SUBSET Servers]
  <1>1. \A p \in Pairs : requests[p] \in Seq(Requests) /\ Append(requests[p], r) \in Seq(Requests)
    BY AppendProperties DEF RequestsTyped
  <1>2. requests' \in [Pairs -> Seq(Requests)]
    BY <1>1 DEF SendMsg
  <1>3. {s \in S : Usable(c, s) /\ s \notin up} \subseteq Servers
    BY DEF Usable, SocketsTyped
  <1>4. broken' \in [Clients -> SUBSET Servers]
    BY <1>3 DEF SendMsg, SocketsTyped
  <1>5. requests' \in [Pairs -> Seq(Requests')]
    BY <1>2
  <1> QED BY <1>4, <1>5 DEF RequestsTyped

\* What is left of a sequence after its first elements.
LEMMA RestIs ==
    ASSUME NEW S, NEW q \in Seq(S), q # <<>>, NEW k \in 1 .. Len(q)
    PROVE  /\ SubSeq(q, k + 1, Len(q)) \in Seq(S)
           /\ Len(SubSeq(q, k + 1, Len(q))) = Len(q) - k
           /\ Head(q) \in S
  <1>1. Len(q) \in Nat /\ k \in Nat /\ k + 1 \in 1 .. Len(q) + 1
    BY LenProperties
  <1>2. /\ SubSeq(q, k + 1, Len(q)) \in Seq(S)
        /\ Len(SubSeq(q, k + 1, Len(q))) = Len(q) + 1 - (k + 1)
    BY <1>1, Slices
  <1> QED BY <1>1, <1>2, HeadTailProperties

LEMMA RecvIs ==
    ASSUME AnswersTyped, NEW c \in Clients, NEW s \in Servers, RecvMsg(c, s), Msgs' = Msgs
    PROVE  AnswersTyped' /\ Head(answers[<<c, s>>]) \in Msgs
  <1>1. PICK q : q = answers[<<c, s>>]
    OBVIOUS
  <1>2. q \in Seq(Msgs) /\ <<c, s>> \in Pairs /\ q # <<>>
    BY <1>1 DEF AnswersTyped, Pairs, RecvMsg
  <1>3. PICK k \in 1 .. Len(q) :
           answers' = [answers EXCEPT ![<<c, s>>] = SubSeq(q, k + 1, Len(q))]
    BY <1>1, <1>2 DEF RecvMsg, AnswersTyped
  <1>4. SubSeq(q, k + 1, Len(q)) \in Seq(Msgs) /\ Head(q) \in Msgs
    BY <1>2, RestIs
  <1>5. answers' \in [Pairs -> Seq(Msgs)]
    BY <1>3, <1>4 DEF AnswersTyped
  <1>6. answers' \in [Pairs -> Seq(Msgs')]
    BY <1>5
  <1> QED BY <1>1, <1>4, <1>6 DEF AnswersTyped

LEMMA SetsKept ==
    ASSUME world' = world
    PROVE  /\ Values' = Values /\ Requests' = Requests /\ Commands' = Commands /\ Msgs' = Msgs
           /\ world.puts' = world.puts
  <1>1. Values' = Values
    BY DEF Values
  <1>2. Requests' = Requests
    BY <1>1 DEF Requests
  <1> QED BY <1>1, <1>2 DEF Commands, Msgs, IsMsg

LEMMA PartsKept ==
    ASSUME Typed, world' = world
    PROVE  /\ UNCHANGED serverVars => ServersTyped'
           /\ UNCHANGED requests => RequestsTyped'
           /\ UNCHANGED answers => AnswersTyped'
           /\ UNCHANGED ring => RingsTyped'
           /\ UNCHANGED <<conn, timed, broken>> => SocketsTyped'
           /\ UNCHANGED <<pc, tries, usedMaster, asked, cmd>> => PlaceTyped'
           /\ UNCHANGED <<buffer, said, puts, may>> => ToldTyped'
           /\ world' \in Worlds
  <1> USE SetsKept
  <1>1. UNCHANGED serverVars => ServersTyped'
    BY DEF Typed, ServersTyped, serverVars
  <1>2. UNCHANGED requests => RequestsTyped'
    BY DEF Typed, RequestsTyped
  <1>3. UNCHANGED answers => AnswersTyped'
    BY DEF Typed, AnswersTyped
  <1>4. UNCHANGED ring => RingsTyped'
    BY DEF Typed, RingsTyped
  <1>5. UNCHANGED <<conn, timed, broken>> => SocketsTyped'
    BY DEF Typed, SocketsTyped
  <1>6. UNCHANGED <<pc, tries, usedMaster, asked, cmd>> => PlaceTyped'
    BY DEF Typed, PlaceTyped
  <1>7. UNCHANGED <<buffer, said, puts, may>> => ToldTyped'
    BY DEF Typed, ToldTyped
  <1> QED BY <1>1, <1>2, <1>3, <1>4, <1>5, <1>6, <1>7 DEF Typed

\* The answer to a request.
LEMMA RespondIs ==
    ASSUME ServersTyped, world \in Worlds, NEW s \in Servers, NEW r \in Requests
    PROVE  Respond(s, r) \in Msgs
  <1>1. CASE r.op = "LIST"
    <2>1. members # <<>>
      BY DEF ServersTyped, RangeOf
    <2> QED BY <1>1, <2>1 DEF Respond, Msg, Msgs, Codes, IsMsg, ServersTyped
  <1>2. CASE r.op = "PUT"
    BY <1>2 DEF Respond, Msg, Msgs, Codes, IsMsg
  <1>3. CASE r.op = "GET"
    <2>1. PICK v : v = file[s][r.key]
      OBVIOUS
    <2>2. v \in Values \cup {None}
      BY <1>3, <2>1 DEF ServersTyped, Requests
    <2>3. Respond(s, r) = IF v = None THEN Msg("ERROR", None) ELSE Msg("GET_OK", v)
      BY <1>3, <2>1 DEF Respond, GetValue, OkCode
    <2> QED BY <2>2, <2>3 DEF Msg, Msgs, Codes, IsMsg
  <1>4. CASE r.op = "DELETE"
    <2>1. Respond(s, r) \in {Msg("ERROR", None), Msg("DELETE_OK", None)}
      BY <1>4 DEF Respond, OkCode
    <2> QED BY <2>1 DEF Msg, Msgs, Codes, IsMsg
  <1> QED BY <1>1, <1>2, <1>3, <1>4 DEF Requests

LEMMA HandleTyped ==
    ASSUME Typed, world' = world, NEW c \in Clients, NEW s \in Servers, Handle(c, s)
    PROVE  Typed'
  <1> USE SetsKept
  <1>1. PICK q : q = requests[<<c, s>>]
    OBVIOUS
  <1>2. <<c, s>> \in Pairs /\ q \in Seq(Requests) /\ DOMAIN q = 1 .. Len(q)
    BY <1>1, LenProperties DEF Typed, RequestsTyped, Pairs
  <1>3. PICK i \in DOMAIN q :
          /\ requests' = [requests EXCEPT ![<<c, s>>] = RemoveAt(q, i)]
          /\ answers' = [answers EXCEPT ![<<c, s>>] = Append(@, Respond(s, q[i]))]
          /\ file' = [file EXCEPT ![s] =
                        CASE q[i].op = "PUT"    -> PutKeyValue(@, q[i].key, q[i].val)
                          [] q[i].op = "DELETE" -> DelKeyValue(@, q[i].key)
                          [] OTHER              -> @]
    BY <1>1, <1>2 DEF Handle, Typed, RequestsTyped
  <1>4. PICK r \in Requests : r = q[i]
    BY <1>2, <1>3
  <1>5. RequestsTyped'
    <2>1. RemoveAt(q, i) \in Seq(Requests)
      BY <1>2, RemoveUnlinks
    <2>2. requests' \in [Pairs -> Seq(Requests)]
      BY <1>3, <2>1 DEF Typed, RequestsTyped
    <2>3. requests' \in [Pairs -> Seq(Requests')]
      BY <2>2
    <2> QED BY <2>3 DEF RequestsTyped
  <1>6. AnswersTyped'
    <2>1. PICK m : m = Respond(s, r)
      OBVIOUS
    <2>2. m \in Msgs
      BY <2>1, RespondIs DEF Typed
    <2>3. answers[<<c, s>>] \in Seq(Msgs)
      BY <1>2 DEF Typed, AnswersTyped
    <2>4. Append(answers[<<c, s>>], m) \in Seq(Msgs)
      BY <2>2, <2>3, AppendProperties
    <2>5. answers' = [answers EXCEPT ![<<c, s>>] = Append(answers[<<c, s>>], m)]
      BY <1>2, <1>3, <1>4, <2>1 DEF Typed, AnswersTyped
    <2>6. answers' \in [Pairs -> Seq(Msgs)]
      BY <2>4, <2>5 DEF Typed, AnswersTyped
    <2>7. answers' \in [Pairs -> Seq(Msgs')]
      BY <2>6
    <2> QED BY <2>7 DEF AnswersTyped
  <1>7. ServersTyped'
    <2>1. file \in [Servers -> [Keys -> Values \cup {None}]]
      BY DEF Typed, ServersTyped
    <2>2. PICK f : f = file[s]
      OBVIOUS
    <2>3. f \in [Keys -> Values \cup {None}]
      BY <2>1, <2>2
    <2>4. /\ PutKeyValue(f, r.key, r.val) \in [Keys -> Values \cup {None}] \/ r.op # "PUT"
          /\ DelKeyValue(f, r.key) \in [Keys -> Values \cup {None}]
      BY <2>3 DEF PutKeyValue, DelKeyValue, Requests
    <2>5. \E g \in [Keys -> Values \cup {None}] : file' = [file EXCEPT ![s] = g]
      <3>1. CASE r.op = "PUT"
        <4>1. file' = [file EXCEPT ![s] = PutKeyValue(f, r.key, r.val)]
          BY <1>3, <1>4, <2>1, <2>2, <3>1
        <4> QED BY <2>4, <3>1, <4>1
      <3>2. CASE r.op = "DELETE"
        <4>1. file' = [file EXCEPT ![s] = DelKeyValue(f, r.key)]
          BY <1>3, <1>4, <2>1, <2>2, <3>2
        <4> QED BY <2>4, <4>1
      <3>3. CASE r.op \notin {"PUT", "DELETE"}
        <4>1. file' = [file EXCEPT ![s] = f]
          BY <1>3, <1>4, <2>1, <2>2, <3>3
        <4> QED BY <2>3, <4>1
      <3> QED BY <3>1, <3>2, <3>3
    <2>6. file' \in [Servers -> [Keys -> Values \cup {None}]]
      BY <2>1, <2>5
    <2>7. file' \in [Servers -> [Keys -> Values' \cup {None}]]
      BY <2>6
    <2>8. UNCHANGED <<members, up, left>>
      BY DEF Handle
    <2> QED BY <2>7, <2>8 DEF Typed, ServersTyped
  <1>8. UNCHANGED <<conn, timed, broken, ring, usedMaster, tries, said, puts, may,
                    pc, asked, cmd, buffer>>
    BY DEF Handle, ringVars, userVars
  <1> QED BY <1>5, <1>6, <1>7, <1>8, PartsKept DEF Typed

\* A server joins, dies, or leaves the list.
LEMMA ServersStepTyped ==
    ASSUME Typed, world' = world, NEW s \in Servers, Join(s) \/ Die(s) \/ Unlist(s)
    PROVE  Typed'
  <1> USE SetsKept
  <1>1. UNCHANGED <<file, answers, conn, timed, broken, ring, usedMaster, tries,
                    said, puts, may, pc, asked, cmd, buffer>>
    BY DEF Join, Die, Unlist, clientVars, ringVars, userVars
  <1>2. RequestsTyped'
    <2>1. CASE UNCHANGED requests
      BY <2>1, PartsKept
    <2>2. CASE requests' = [p \in Pairs |-> IF p[2] = s THEN <<>> ELSE requests[p]]
      <3>1. \A p \in Pairs : requests[p] \in Seq(Requests) /\ <<>> \in Seq(Requests)
        BY EmptySeq DEF Typed, RequestsTyped
      <3>2. requests' \in [Pairs -> Seq(Requests)]
        BY <2>2, <3>1
      <3>3. requests' \in [Pairs -> Seq(Requests')]
        BY <3>2
      <3> QED BY <3>3 DEF RequestsTyped
    <2> QED BY <2>1, <2>2 DEF Join, Die, Unlist
  <1>3. members \in Seq(Servers) /\ DOMAIN members = 1 .. Len(members) /\ Len(members) \in Nat
        /\ up \subseteq Servers /\ left \subseteq Servers /\ up # {} /\ up \subseteq RangeOf(members)
    BY LenProperties DEF Typed, ServersTyped
  <1>4. /\ members' \in Seq(Servers) /\ up' \subseteq Servers /\ left' \subseteq Servers
        /\ up' # {} /\ up' \subseteq RangeOf(members')
    <2>1. CASE Join(s)
      <3>1. PICK l : l = Append(members, s)
        OBVIOUS
      <3>2. l \in Seq(Servers) /\ LinkedIn(members, l, Len(members) + 1, s)
        BY <1>3, <3>1, AppendLinksIn
      <3>3. DOMAIN l = 1 .. Len(l) /\ Len(l) = Len(members) + 1 /\ l[Len(l)] = s
            /\ \A i \in 1 .. Len(members) : l[i] = members[i]
        BY <1>3, <3>2, LenProperties DEF LinkedIn
      <3>4. up \cup {s} \subseteq RangeOf(l)
        BY <1>3, <3>3 DEF RangeOf
      <3> QED BY <1>3, <2>1, <3>1, <3>2, <3>4 DEF Join
    <2>2. CASE Die(s)
      <3>1. up \ {s} # {}
        <4>1. ASSUME up = {s} PROVE FALSE
          <5>1. Cardinality({s}) = 1
            BY FS_Singleton
          <5> QED BY <2>2, <4>1, <5>1 DEF Die
        <4> QED BY <2>2, <4>1 DEF Die
      <3> QED BY <1>3, <2>2, <3>1 DEF Die
    <2>3. CASE Unlist(s)
      <3>1. PICK i \in DOMAIN members : members[i] = s /\ members' = RemoveAt(members, i)
        BY <2>3 DEF Unlist
      <3>2. PICK l : l = RemoveAt(members, i)
        OBVIOUS
      <3>3. l \in Seq(Servers) /\ LinkedIn(l, members, i, s)
        BY <1>3, <3>1, <3>2, RemoveUnlinks
      <3>4. Len(members) = Len(l) + 1 /\ DOMAIN l = 1 .. Len(l) /\ Len(l) \in Nat
        BY <3>3, LenProperties DEF LinkedIn
      <3>5. up \subseteq RangeOf(l)
        <4>1. ASSUME NEW u \in up PROVE u \in RangeOf(l)
          <5>1. PICK j \in 1 .. Len(members) : members[j] = u
            BY <1>3 DEF RangeOf
          <5>2. j # i
            BY <2>3, <3>1, <5>1 DEF Unlist
          <5>3. \E k \in 1 .. Len(l) : l[k] = u
            <6>1. CASE j < i
              <7>1. j \in 1 .. Len(l) /\ l[j] = members[j]
                BY <1>3, <3>1, <3>3, <3>4, <6>1 DEF LinkedIn
              <7> QED BY <5>1, <7>1
            <6>2. CASE i < j
              <7>1. j - 1 \in 1 .. Len(l) /\ l[j - 1] = members[j]
                BY <1>3, <3>1, <3>3, <3>4, <6>2 DEF LinkedIn
              <7> QED BY <5>1, <7>1
            <6> QED BY <1>3, <5>2, <6>1, <6>2
          <5> QED BY <3>4, <5>3 DEF RangeOf
        <4> QED BY <4>1
      <3> QED BY <1>3, <2>3, <3>1, <3>2, <3>3, <3>5 DEF Unlist
    <2> QED BY <2>1, <2>2, <2>3
  <1>5. ServersTyped'
    BY <1>1, <1>4 DEF Typed, ServersTyped
  <1> QED BY <1>1, <1>2, <1>5, PartsKept DEF Typed

\* A user types a command.
LEMMA CommandTyped ==
    ASSUME Typed, world' = world, NEW c \in Clients, NEW op \in {"PUT", "GET", "DELETE"},
           NEW k \in Keys, Command(c, op, k)
    PROVE  Typed'
  <1> USE SetsKept
  <1>1. UNCHANGED <<serverVars, requests, answers, conn, timed, broken, ring, usedMaster,
                    may, asked>>
    BY DEF Command, netVars
  <1>2. PICK l : l = puts'
    OBVIOUS
  <1>3. l \in Seq(Keys) /\ Len(l) \in Nat /\ Len(l) <= world.puts
        /\ (op = "PUT" => Len(l) \in Values)
    <2>1. puts \in Seq(Keys) /\ Len(puts) \in Nat /\ Len(puts) <= world.puts
          /\ world.puts \in Nat
      BY WorldIs, LenProperties DEF Typed, ToldTyped
    <2>2. CASE op = "PUT"
      <3>1. l = Append(puts, k) /\ Len(puts) < world.puts
        BY <1>2, <2>2 DEF Command
      <3>2. l \in Seq(Keys) /\ Len(l) = Len(puts) + 1
        BY <2>1, <3>1, AppendProperties
      <3> QED BY <2>1, <3>1, <3>2 DEF Values
    <2>3. CASE op # "PUT"
      BY <1>2, <2>1, <2>3 DEF Command
    <2> QED BY <2>2, <2>3
  <1>4. PICK r : r = Req(op, k, IF op = "PUT" THEN Len(l) ELSE None)
    OBVIOUS
  <1>5. r \in Commands
    BY <1>3, <1>4 DEF Commands, Requests, Req
  <1>6. cmd' = [cmd EXCEPT ![c] = r] /\ pc' = [pc EXCEPT ![c] = "ask"]
        /\ tries' = [tries EXCEPT ![c] = MaxTry] /\ buffer' = [buffer EXCEPT ![c] = Silent]
        /\ said' = [said EXCEPT ![c] = Silent]
    BY <1>2, <1>4 DEF Command, Tell
  <1>7. PlaceTyped'
    <2>1. cmd' \in [Clients -> Commands \cup {NoCmd}]
      BY <1>5, <1>6 DEF Typed, PlaceTyped
    <2>2. MaxTry \in Nat \ {0}
      BY ClusterAssumption
    <2>3. /\ pc' \in [Clients -> Places] /\ tries' \in [Clients -> 0 .. MaxTry]
          /\ \A d \in Clients :
                /\ pc'[d] \in {"ask", "list"} => tries'[d] # 0
                /\ pc'[d] = "list" => asked[d] \in Servers
                /\ pc'[d] # "idle" => cmd'[d] \in Commands
      BY <1>5, <1>6, <2>2 DEF Typed, PlaceTyped, Places
    <2> QED BY <1>1, <2>1, <2>3 DEF Typed, PlaceTyped
  <1>8. ToldTyped'
    <2>1. /\ buffer' \in [Clients -> Msgs] /\ said' \in [Clients -> Msgs]
      BY <1>6, SilentIs DEF Typed, ToldTyped
    <2> QED BY <1>1, <1>2, <1>3, <2>1 DEF Typed, ToldTyped
  <1> QED BY <1>1, <1>7, <1>8, PartsKept DEF Typed

\* The client asks a server for the list, and the list comes or does not.
LEMMA ListStepTyped ==
    ASSUME Typed, world' = world, NEW c \in Clients, Ask(c) \/ ListCome(c) \/ ListFails(c)
    PROVE  Typed'
  <1> USE SetsKept
  <1>1. UNCHANGED <<serverVars, usedMaster, said, puts, may, cmd, buffer>>
    BY DEF Ask, ListCome, ListFails, ringVars, userVars
  <1>2. RingsTyped /\ RequestsTyped /\ AnswersTyped /\ SocketsTyped /\ PlaceTyped /\ ServersTyped
    BY DEF Typed
  <1>3. CASE Ask(c)
    <2>1. PICK s \in RingServers(ring[c]) :
             /\ SendMsg(c, {s}, Req("LIST", None, None))
             /\ asked' = [asked EXCEPT ![c] = s]
             /\ timed' = [timed EXCEPT ![c] = @ \cup ({s} \cap conn[c])]
      BY <1>3 DEF Ask
    <2>2. s \in Servers
      <3>1. ring[c] \in Rings
        BY <1>2 DEF RingsTyped
      <3> QED BY <3>1, RingIs DEF RingServers
    <2>3. Req("LIST", None, None) \in Requests
      BY DEF Requests, Req
    <2>4. RequestsTyped' /\ broken' \in [Clients -> SUBSET Servers]
      BY <1>2, <2>1, <2>3, SendIs
    <2>5. UNCHANGED <<answers, conn, ring, tries>> /\ pc' = [pc EXCEPT ![c] = "list"]
          /\ pc[c] = "ask"
      BY <1>3 DEF Ask, ringVars
    <2>6. SocketsTyped'
      BY <1>2, <2>1, <2>2, <2>4, <2>5 DEF SocketsTyped
    <2>7. PlaceTyped'
      BY <1>1, <1>2, <2>1, <2>2, <2>5 DEF PlaceTyped, Places
    <2> QED BY <1>1, <2>4, <2>5, <2>6, <2>7, PartsKept DEF Typed
  <1>4. ASSUME tries' = [tries EXCEPT ![c] = @ - 1], pc[c] = "list",
               pc' = [pc EXCEPT ![c] = IF tries'[c] = 0 THEN "master" ELSE "ask"],
               UNCHANGED asked
        PROVE  PlaceTyped'
    <2>1. PICK t : t = tries[c]
      OBVIOUS
    <2>2. t \in 1 .. MaxTry /\ t - 1 \in 0 .. MaxTry
      BY <1>2, <1>4, <2>1, ClusterAssumption DEF PlaceTyped
    <2>3. tries' = [tries EXCEPT ![c] = t - 1] /\ tries'[c] = t - 1
      BY <1>2, <1>4, <2>1 DEF PlaceTyped
    <2>4. pc' = [pc EXCEPT ![c] = IF t - 1 = 0 THEN "master" ELSE "ask"]
      BY <1>4, <2>3
    <2>5. /\ pc' \in [Clients -> Places] /\ tries' \in [Clients -> 0 .. MaxTry]
          /\ \A d \in Clients : pc'[d] \in {"ask", "list"} => tries'[d] # 0
      BY <1>2, <2>2, <2>3, <2>4 DEF PlaceTyped, Places
    <2>6. \A d \in Clients :
             /\ pc'[d] = "list" => asked[d] \in Servers
             /\ pc'[d] # "idle" => cmd[d] \in Commands
      BY <1>2, <1>4, <2>4 DEF PlaceTyped
    <2> QED BY <1>1, <1>2, <1>4, <2>5, <2>6 DEF PlaceTyped
  <1>5. CASE ListCome(c)
    <2>1. asked[c] \in Servers /\ pc[c] = "list" /\ RecvMsg(c, asked[c])
      BY <1>2, <1>5 DEF ListCome, PlaceTyped
    <2>2. AnswersTyped' /\ Head(answers[<<c, asked[c]>>]) \in Msgs
      BY <1>2, <2>1, RecvIs
    <2>3. PICK m \in Msgs : m = Head(answers[<<c, asked[c]>>])
      BY <2>2
    <2>4. UNCHANGED <<requests, timed, broken, asked>>
      BY <1>5 DEF ListCome
    <2>5. CASE m.code = "UPDATE"
      <3>1. PICK hash \in HashChoices : ring' = [ring EXCEPT ![c] = Renew(@, m.val, hash)]
        BY <1>5, <2>3, <2>5 DEF ListCome
      <3>2. /\ conn' = [conn EXCEPT ![c] = @ \cup (up \cap (RangeOf(m.val) \ RingServers(ring[c])))]
            /\ pc' = [pc EXCEPT ![c] = "act"] /\ UNCHANGED tries
        BY <1>5, <2>3, <2>5 DEF ListCome
      <3>3. m.val \in Seq(Servers) /\ m.val # <<>>
        BY <2>5 DEF Msgs, IsMsg
      <3>4. PICK r : r = ring[c]
        OBVIOUS
      <3>5. r \in Rings /\ r # <<>> /\ Single(r)
        BY <1>2, <3>4 DEF RingsTyped
      <3>6. PICK new : new = Renew(r, m.val, hash)
        OBVIOUS
      <3>7. new \in Rings \ {<<>>} /\ Single(new)
        BY <3>3, <3>5, <3>6, HashIs, RenewIs
      <3>8. ring' = [ring EXCEPT ![c] = new]
        BY <1>2, <3>1, <3>4, <3>6 DEF RingsTyped
      <3>9. RingsTyped'
        BY <1>2, <3>7, <3>8 DEF RingsTyped
      <3>10. SocketsTyped'
        BY <1>2, <2>4, <3>2 DEF SocketsTyped, ServersTyped
      <3>11. PlaceTyped'
        BY <1>1, <1>2, <2>1, <2>4, <3>2 DEF PlaceTyped, Places
      <3> QED BY <1>1, <2>2, <2>4, <3>9, <3>10, <3>11, PartsKept DEF Typed
    <2>6. CASE m.code # "UPDATE"
      <3>1. /\ tries' = [tries EXCEPT ![c] = @ - 1]
            /\ pc' = [pc EXCEPT ![c] = IF tries'[c] = 0 THEN "master" ELSE "ask"]
            /\ UNCHANGED <<ring, conn>>
        BY <1>5, <2>3, <2>6 DEF ListCome
      <3>2. PlaceTyped'
        BY <1>4, <2>1, <2>4, <3>1
      <3> QED BY <1>1, <2>2, <2>4, <3>1, <3>2, PartsKept DEF Typed
    <2> QED BY <2>5, <2>6
  <1>6. CASE ListFails(c)
    <2>1. UNCHANGED <<requests, answers, conn, timed, broken, ring, asked>>
      BY <1>6 DEF ListFails, RecvFails
    <2>2. PlaceTyped'
      BY <1>4, <1>6, <2>1 DEF ListFails
    <2> QED BY <1>1, <2>1, <2>2, PartsKept DEF Typed
  <1> QED BY <1>3, <1>5, <1>6

\* The client gives up, is killed, or sends its command and takes the answers.
LEMMA ActStepTyped ==
    ASSUME Typed, world' = world, NEW c \in Clients,
           AskMaster(c) \/ Killed(c) \/ Act(c) \/ BackupAnswer(c) \/ OwnerAnswer(c)
    PROVE  Typed'
  <1> USE SetsKept
  <1>1. UNCHANGED <<serverVars, conn, timed, ring, tries, puts, asked, cmd>>
    BY DEF AskMaster, Killed, Act, BackupAnswer, OwnerAnswer, netVars, ringVars, userVars
  <1>2. RingsTyped /\ RequestsTyped /\ AnswersTyped /\ SocketsTyped /\ PlaceTyped /\ ToldTyped
    BY DEF Typed
  <1>3. Owner(c) \in Servers /\ Backup(c) \subseteq Servers
    BY <1>2, ClientServers
  <1>4. ASSUME NEW p \in {"idle", "killed", "owner", "backup"}, pc' = [pc EXCEPT ![c] = p],
               pc[c] # "idle",
               usedMaster' \in [Clients -> BOOLEAN]
        PROVE  PlaceTyped'
    <2>1. /\ pc' \in [Clients -> Places] /\ tries' \in [Clients -> 0 .. MaxTry]
          /\ asked' \in [Clients -> Servers \cup {None}]
          /\ cmd' \in [Clients -> Commands' \cup {NoCmd}]
      BY <1>1, <1>2, <1>4 DEF PlaceTyped, Places
    <2>2. \A d \in Clients :
             /\ pc'[d] \in {"ask", "list"} => tries'[d] # 0
             /\ pc'[d] = "list" => asked'[d] \in Servers
             /\ pc'[d] # "idle" => cmd'[d] \in Commands'
      BY <1>1, <1>2, <1>4 DEF PlaceTyped
    <2> QED BY <1>4, <2>1, <2>2 DEF PlaceTyped
  <1>5. CASE AskMaster(c)
    <2>1. /\ UNCHANGED <<requests, answers, broken, may, buffer>>
          /\ usedMaster' = [usedMaster EXCEPT ![c] = TRUE]
          /\ said' = [said EXCEPT ![c] = Msg("UNAVAILABLE", None)]
          /\ pc' = [pc EXCEPT ![c] = "idle"] /\ pc[c] = "master"
      BY <1>5 DEF AskMaster, netVars, Tell
    <2>2. usedMaster' \in [Clients -> BOOLEAN]
      BY <1>2, <2>1 DEF PlaceTyped
    <2>3. PlaceTyped'
      BY <1>4, <2>1, <2>2
    <2>4. ToldTyped'
      BY <1>1, <1>2, <2>1, SilentIs DEF ToldTyped
    <2> QED BY <1>1, <2>1, <2>3, <2>4, PartsKept DEF Typed
  <1>6. CASE Killed(c)
    <2>1. /\ UNCHANGED <<requests, answers, broken, usedMaster, may, said, buffer>>
          /\ pc' = [pc EXCEPT ![c] = "killed"] /\ pc[c] # "idle"
      BY <1>6 DEF Killed, netVars, ringVars, userVars
    <2>2. PlaceTyped'
      BY <1>2, <1>4, <2>1 DEF PlaceTyped
    <2> QED BY <1>1, <2>1, <2>2, PartsKept DEF Typed
  <1>7. CASE Act(c)
    <2>1. /\ SendMsg(c, {Owner(c)} \cup Backup(c), cmd[c]) /\ pc[c] = "act"
          /\ pc' = [pc EXCEPT ![c] = IF Backup(c) = {} THEN "owner" ELSE "backup"]
          /\ UNCHANGED <<answers, usedMaster, may, said, buffer>>
      BY <1>7 DEF Act, ringVars, userVars
    <2>2. cmd[c] \in Requests
      BY <1>2, <2>1 DEF PlaceTyped, Commands
    <2>3. RequestsTyped' /\ broken' \in [Clients -> SUBSET Servers]
      BY <1>2, <2>1, <2>2, SendIs
    <2>4. SocketsTyped'
      BY <1>1, <1>2, <2>3 DEF SocketsTyped
    <2>5. PlaceTyped'
      BY <1>2, <1>4, <2>1 DEF PlaceTyped
    <2> QED BY <1>1, <2>1, <2>3, <2>4, <2>5, PartsKept DEF Typed
  <1>8. CASE BackupAnswer(c)
    <2>1. /\ pc[c] = "backup" /\ pc' = [pc EXCEPT ![c] = "owner"]
          /\ UNCHANGED <<requests, broken, usedMaster, may, said>>
      BY <1>8 DEF BackupAnswer, ringVars, userVars
    <2>2. PICK s \in Backup(c) :
             \/ RecvMsg(c, s) /\ buffer' = [buffer EXCEPT ![c] = Head(answers[<<c, s>>])]
             \/ RecvFails(c, s) /\ UNCHANGED buffer
      BY <1>8 DEF BackupAnswer
    <2>3. AnswersTyped' /\ ToldTyped'
      <3>1. CASE RecvMsg(c, s) /\ buffer' = [buffer EXCEPT ![c] = Head(answers[<<c, s>>])]
        <4>1. AnswersTyped' /\ Head(answers[<<c, s>>]) \in Msgs
          BY <1>2, <1>3, <3>1, RecvIs
        <4> QED BY <1>1, <1>2, <2>1, <3>1, <4>1 DEF ToldTyped
      <3>2. CASE RecvFails(c, s) /\ UNCHANGED buffer
        BY <1>1, <2>1, <3>2, PartsKept DEF RecvFails
      <3> QED BY <2>2, <3>1, <3>2
    <2>4. PlaceTyped'
      BY <1>2, <1>4, <2>1 DEF PlaceTyped
    <2> QED BY <1>1, <2>1, <2>3, <2>4, PartsKept DEF Typed
  <1>9. CASE OwnerAnswer(c)
    <2>1. /\ pc[c] = "owner" /\ pc' = [pc EXCEPT ![c] = "idle"]
          /\ UNCHANGED <<requests, broken, usedMaster, buffer>>
          /\ may' = Learnt(c, said'[c])
      BY <1>9 DEF OwnerAnswer, ringVars
    <2>2. AnswersTyped' /\ \E m \in Msgs : said' = [said EXCEPT ![c] = m]
      <3>1. CASE RecvMsg(c, Owner(c)) /\ Tell(c, Head(answers[<<c, Owner(c)>>]))
        <4>1. AnswersTyped' /\ Head(answers[<<c, Owner(c)>>]) \in Msgs
          BY <1>2, <1>3, <3>1, RecvIs
        <4> QED BY <3>1, <4>1 DEF Tell
      <3>2. CASE RecvFails(c, Owner(c)) /\ Tell(c, buffer[c])
        <4>1. AnswersTyped'
          BY <3>2, PartsKept DEF RecvFails
        <4> QED BY <1>2, <3>2, <4>1 DEF Tell, ToldTyped
      <3> QED BY <1>9, <3>1, <3>2 DEF OwnerAnswer
    <2>3. may' \in [Keys -> SUBSET (Values \cup {None})]
      <3>1. cmd[c] \in Commands
        BY <1>2, <2>1 DEF PlaceTyped
      <3>2. PICK new : new = IF cmd[c].op = "PUT" THEN cmd[c].val ELSE None
        OBVIOUS
      <3>3. new \in Values \cup {None}
        BY <3>1, <3>2 DEF Commands, Requests
      <3>4. PICK T : T = Learnt(c, said'[c])
        OBVIOUS
      <3>5. \/ T = may
            \/ \E N \in {{new}, may[cmd[c].key] \cup {new}} : T = [may EXCEPT ![cmd[c].key] = N]
        BY <1>2, <3>1, <3>2, <3>4 DEF Learnt, Commands, Requests, ToldTyped
      <3>6. T \in [Keys -> SUBSET (Values \cup {None})]
        BY <1>2, <3>1, <3>3, <3>5 DEF ToldTyped, Commands, Requests
      <3> QED BY <2>1, <3>4, <3>6
    <2>4. ToldTyped'
      BY <1>1, <1>2, <2>1, <2>2, <2>3 DEF ToldTyped
    <2>5. PlaceTyped'
      BY <1>2, <1>4, <2>1 DEF PlaceTyped
    <2> QED BY <1>1, <2>1, <2>2, <2>4, <2>5, PartsKept DEF Typed
  <1> QED BY <1>5, <1>6, <1>7, <1>8, <1>9

LEMMA TypedStep ==
    ASSUME Typed, [Next]_vars
    PROVE  Typed' /\ world' = world
  <1>1. CASE Next
    <2>1. world' = world
      BY <1>1 DEF Next
    <2> QED BY <1>1, <2>1, CommandTyped, HandleTyped, ServersStepTyped, ListStepTyped,
               ActStepTyped DEF Next, ClientStep
  <1>2. CASE UNCHANGED vars
    <2>1. /\ UNCHANGED <<serverVars, requests, answers, ring, conn, timed, broken, pc, tries,
                         usedMaster, asked, cmd, buffer, said, puts, may, world>>
      BY <1>2 DEF vars, netVars, ringVars, userVars
    <2> QED BY <2>1, PartsKept DEF Typed
  <1> QED BY <1>1, <1>2

\* Types: among them, a client's ring has one node for a server (dbclient.c:159-188),
\* it makes at most max_try attempts (dbclient.c:77-109), and what servers answer
\* and users are told are messages of the right form.
THEOREM TypeCorrect == Spec => []TypeOK
  <1>1. Typed /\ [Next]_vars => Typed'
    BY TypedStep
  <1>2. Typed => TypeOK
    BY TypedGivesTypeOK
  <1> QED BY InitTyped, <1>1, <1>2, PTL DEF Spec

-----------------------------------------------------------------------------
(* Clients and servers stay in step.                                       *)

\* The servers whose answer a client waits for.
Waited(c) ==
    CASE pc[c] = "list"   -> {asked[c]}
      [] pc[c] = "backup" -> {Owner(c)} \cup Backup(c)
      [] pc[c] = "owner"  -> {Owner(c)}
      [] OTHER            -> {}

Quiet(c, s) == requests[<<c, s>>] = <<>> /\ answers[<<c, s>>] = <<>>

\* At most one request or answer between a client and a server, and only if the
\* client waits for it.
OneWith(c) ==
    \A s \in Servers :
        /\ Len(requests[<<c, s>>]) + Len(answers[<<c, s>>]) <= 1
        /\ s \notin Waited(c) \cap conn[c] => Quiet(c, s)
        /\ s \notin up => requests[<<c, s>>] = <<>>

WasPut(v, k) == v \in 1 .. Len(puts) /\ puts[v] = k

\* A value that a file holds or that a request puts was put for the key.
ValuesFit ==
    /\ \A s \in Servers, k \in Keys : file[s][k] # None => WasPut(file[s][k], k)
    /\ \A p \in Pairs : \A i \in DOMAIN requests[p] :
          requests[p][i].op = "PUT" => WasPut(requests[p][i].val, requests[p][i].key)
    /\ \A c \in Clients : cmd[c].op = "PUT" => WasPut(cmd[c].val, cmd[c].key)

\* What is on its way to and from a client that waits for its command, and what
\* it has got, belongs to the command.
OfTheCommand(c) ==
    /\ pc[c] \in {"backup", "owner"} => \A s \in Servers :
          /\ \A i \in DOMAIN requests[<<c, s>>] : requests[<<c, s>>][i] = cmd[c]
          /\ \A i \in DOMAIN answers[<<c, s>>] : answers[<<c, s>>][i].code = "GET_OK" =>
                cmd[c].op = "GET" /\ WasPut(answers[<<c, s>>][i].val, cmd[c].key)
    /\ pc[c] # "idle" => buffer[c].code # "GET_OK"
    /\ pc[c] = "idle" /\ cmd[c].op = "GET" /\ said[c].code = "GET_OK" =>
          WasPut(said[c].val, cmd[c].key)

InStep == ValuesFit /\ \A c \in Clients : OneWith(c) /\ OfTheCommand(c)

LEMMA PairIs ==
    ASSUME Typed, NEW c \in Clients, NEW s \in Servers
    PROVE  /\ <<c, s>> \in Pairs
           /\ requests[<<c, s>>] \in Seq(Requests) /\ answers[<<c, s>>] \in Seq(Msgs)
           /\ Len(requests[<<c, s>>]) \in Nat /\ Len(answers[<<c, s>>]) \in Nat
           /\ requests[<<c, s>>] = <<>> <=> Len(requests[<<c, s>>]) = 0
           /\ answers[<<c, s>>] = <<>> <=> Len(answers[<<c, s>>]) = 0
  <1>1. <<c, s>> \in Pairs
    BY DEF Pairs
  <1>2. requests[<<c, s>>] \in Seq(Requests) /\ answers[<<c, s>>] \in Seq(Msgs)
    BY <1>1 DEF Typed, RequestsTyped, AnswersTyped
  <1>3. ASSUME NEW S, NEW q \in Seq(S) PROVE Len(q) \in Nat /\ (q = <<>> <=> Len(q) = 0)
    BY LenProperties, EmptySeq
  <1> QED BY <1>1, <1>2, <1>3

\* The sequence of one element.
LEMMA AppendOne ==
    ASSUME NEW S, NEW m \in S
    PROVE  /\ Append(<<>>, m) = <<m>> /\ Len(<<m>>) = 1 /\ DOMAIN <<m>> = {1} /\ <<m>>[1] = m
           /\ <<m>> # <<>>
  OBVIOUS

\* A client receives the one answer there is, or there is none to come.
LEMMA RecvOne ==
    ASSUME Typed, NEW c \in Clients, OneWith(c), NEW s \in Servers, RecvMsg(c, s)
    PROVE  /\ answers' = [answers EXCEPT ![<<c, s>>] = <<>>]
           /\ requests[<<c, s>>] = <<>>
           /\ DOMAIN answers[<<c, s>>] = {1} /\ Head(answers[<<c, s>>]) = answers[<<c, s>>][1]
  <1>1. PICK q : q = answers[<<c, s>>]
    OBVIOUS
  <1>2. q \in Seq(Msgs) /\ q # <<>> /\ Len(q) = 1 /\ requests[<<c, s>>] = <<>>
    <2>1. Len(requests[<<c, s>>]) + Len(q) <= 1
      BY <1>1 DEF OneWith
    <2>2. q # <<>>
      BY <1>1 DEF RecvMsg
    <2>3. /\ q \in Seq(Msgs) /\ Len(q) \in Nat /\ (q = <<>> <=> Len(q) = 0)
          /\ Len(requests[<<c, s>>]) \in Nat
          /\ (requests[<<c, s>>] = <<>> <=> Len(requests[<<c, s>>]) = 0)
      BY <1>1, PairIs
    <2>4. Len(q) = 1 /\ Len(requests[<<c, s>>]) = 0
      <3>1. \A a, b \in Nat : a + b <= 1 /\ b # 0 => b = 1 /\ a = 0
        OBVIOUS
      <3>2. Len(q) # 0
        BY <2>2, <2>3
      <3> QED BY <2>1, <2>3, <3>1, <3>2
    <2> QED BY <2>2, <2>3, <2>4
  <1>3. PICK k \in 1 .. Len(q) :
           answers' = [answers EXCEPT ![<<c, s>>] = SubSeq(q, k + 1, Len(q))]
    BY <1>1, PairIs DEF RecvMsg, Typed, AnswersTyped
  <1>4. SubSeq(q, k + 1, Len(q)) = <<>>
    <2>1. k = 1
      BY <1>2
    <2> QED BY <1>2, <2>1, SubSeqEmpty
  <1>5. DOMAIN q = {1} /\ Head(q) = q[1]
    BY <1>2, LenProperties
  <1> QED BY <1>1, <1>2, <1>3, <1>4, <1>5

LEMMA RecvNone ==
    ASSUME NEW c \in Clients, OneWith(c), NEW s \in Servers, RecvFails(c, s),
           world.slow = {}
    PROVE  Quiet(c, s) /\ UNCHANGED answers
  <1>1. CASE ~ Usable(c, s)
    BY <1>1 DEF Usable, OneWith, RecvFails
  <1>2. CASE Usable(c, s)
    BY <1>2 DEF OneWith, RecvFails, Quiet
  <1> QED BY <1>1, <1>2

\* Of a client to which nothing is on its way: a request sent to some servers.
LEMMA SendOne ==
    ASSUME Typed, NEW c \in Clients, \A s \in Servers : Quiet(c, s),
           NEW S, NEW r \in Requests, SendMsg(c, S, r), UNCHANGED answers
    PROVE  /\ \A s \in Servers :
                 /\ answers'[<<c, s>>] = <<>>
                 /\ requests'[<<c, s>>] =
                      IF s \in S \cap conn[c] \cap up THEN <<r>> ELSE <<>>
           /\ \A d \in Clients \ {c}, s \in Servers : requests'[<<d, s>>] = requests[<<d, s>>]
  <1>1. ASSUME NEW d \in Clients, NEW s \in Servers
        PROVE  requests'[<<d, s>>] =
                 IF d = c /\ s \in S \cap conn[c] \cap up
                 THEN Append(requests[<<d, s>>], r) ELSE requests[<<d, s>>]
    <2>1. <<d, s>> \in Pairs /\ <<d, s>>[1] = d /\ <<d, s>>[2] = s
      BY DEF Pairs
    <2> QED BY <2>1 DEF SendMsg, Usable
  <1>2. ASSUME NEW s \in Servers
        PROVE  /\ answers'[<<c, s>>] = <<>>
               /\ requests'[<<c, s>>] = IF s \in S \cap conn[c] \cap up THEN <<r>> ELSE <<>>
    <2>1. Quiet(c, s)
      OBVIOUS
    <2>2. answers'[<<c, s>>] = <<>> /\ requests[<<c, s>>] = <<>>
      BY <2>1 DEF Quiet
    <2>3. Append(<<>>, r) = <<r>>
      BY AppendOne
    <2>4. requests'[<<c, s>>] = IF s \in S \cap conn[c] \cap up
                                THEN Append(requests[<<c, s>>], r) ELSE requests[<<c, s>>]
      BY <1>1
    <2> QED BY <2>2, <2>3, <2>4, Zenon
  <1> QED BY <1>1, <1>2

-----------------------------------------------------------------------------
(* What a step of one client leaves to the others.                         *)

Frame(c) ==
    /\ \A v, k : WasPut(v, k) => WasPut(v, k)'
    /\ \A d \in Clients \ {c} :
          /\ pc'[d] = pc[d] /\ asked'[d] = asked[d] /\ ring'[d] = ring[d] /\ cmd'[d] = cmd[d]
          /\ conn'[d] = conn[d] /\ buffer'[d] = buffer[d] /\ said'[d] = said[d]
          /\ \A s \in Servers : /\ requests'[<<d, s>>] = requests[<<d, s>>]
                                /\ answers'[<<d, s>>] = answers[<<d, s>>]

LEMMA FrameKeeps ==
    ASSUME NEW c \in Clients, Frame(c), UNCHANGED up,
           NEW d \in Clients, d # c, OneWith(d), OfTheCommand(d)
    PROVE  OneWith(d)' /\ OfTheCommand(d)'
  <1>1. Waited(d)' = Waited(d)
    BY DEF Frame, Waited, Owner, Backup
  <1>2. OneWith(d)'
    BY <1>1 DEF Frame, OneWith, Quiet
  <1>3. OfTheCommand(d)'
    BY DEF Frame, OfTheCommand
  <1> QED BY <1>2, <1>3

\* A value that was put stays put.
LEMMA PutsGrow ==
    ASSUME Typed, UNCHANGED puts \/ \E k \in Keys : puts' = Append(puts, k)
    PROVE  \A v, k : WasPut(v, k) => WasPut(v, k)'
  <1>1. CASE UNCHANGED puts
    BY <1>1 DEF WasPut
  <1>2. ASSUME NEW k \in Keys, puts' = Append(puts, k) PROVE \A v, l : WasPut(v, l) => WasPut(v, l)'
    <2>1. PICK q : q = Append(puts, k)
      OBVIOUS
    <2>2. Len(q) = Len(puts) + 1 /\ Len(puts) \in Nat /\ \A i \in 1 .. Len(puts) : q[i] = puts[i]
      BY <2>1, AppendProperties, LenProperties DEF Typed, ToldTyped
    <2> QED BY <1>2, <2>1, <2>2 DEF WasPut
  <1> QED BY <1>1, <1>2

\* The steps of a client leave the others alone.
LEMMA ClientFrame ==
    ASSUME Typed, NEW c \in Clients,
           ClientStep(c) \/ \E op \in {"PUT", "GET", "DELETE"}, k \in Keys : Command(c, op, k)
    PROVE  Frame(c) /\ UNCHANGED <<members, up, left, file>>
  <1>1. UNCHANGED serverVars
    BY DEF ClientStep, Ask, Killed, ListCome, ListFails, AskMaster, Act, BackupAnswer,
           OwnerAnswer, Command
  <1>2. UNCHANGED puts \/ \E k \in Keys : puts' = Append(puts, k)
    BY DEF ClientStep, Ask, Killed, ListCome, ListFails, AskMaster, Act, BackupAnswer,
           OwnerAnswer, Command, userVars
  <1> DEFINE Same(d) ==
        /\ pc'[d] = pc[d] /\ asked'[d] = asked[d] /\ ring'[d] = ring[d] /\ cmd'[d] = cmd[d]
        /\ conn'[d] = conn[d] /\ buffer'[d] = buffer[d] /\ said'[d] = said[d]
  <1>3. \A d \in Clients \ {c} : Same(d)
    <2>1. ASSUME NEW op \in {"PUT", "GET", "DELETE"}, NEW k \in Keys, Command(c, op, k)
          PROVE  \A d \in Clients \ {c} : Same(d)
      BY <2>1 DEF Command, Tell, netVars, Typed, PlaceTyped, ToldTyped
    <2>2. CASE Ask(c) \/ ListFails(c) \/ Act(c) \/ Killed(c)
      BY <2>2 DEF Ask, ListFails, Act, Killed, netVars, ringVars, userVars, Typed, PlaceTyped
    <2>3. CASE ListCome(c)
      BY <2>3 DEF ListCome, userVars, Typed, PlaceTyped, RingsTyped, SocketsTyped
    <2>4. CASE AskMaster(c) \/ BackupAnswer(c) \/ OwnerAnswer(c)
      BY <2>4 DEF AskMaster, BackupAnswer, OwnerAnswer, Tell, netVars, ringVars, userVars,
                  Typed, PlaceTyped, ToldTyped
    <2> QED BY <2>1, <2>2, <2>3, <2>4 DEF ClientStep
  <1>4. \A d \in Clients \ {c}, s \in Servers : requests'[<<d, s>>] = requests[<<d, s>>]
    <2>1. \A d \in Clients \ {c}, s \in Servers :
             <<d, s>> \in Pairs /\ <<d, s>>[1] = d
      BY DEF Pairs
    <2>2. CASE UNCHANGED requests
      BY <2>2
    <2>3. ASSUME NEW S, NEW r, SendMsg(c, S, r)
          PROVE  \A d \in Clients \ {c}, s \in Servers : requests'[<<d, s>>] = requests[<<d, s>>]
      BY <2>1, <2>3 DEF SendMsg
    <2>4. UNCHANGED requests \/ Ask(c) \/ Act(c)
      BY DEF ClientStep, Killed, ListCome, ListFails, AskMaster, BackupAnswer,
             OwnerAnswer, Command, netVars
    <2> QED BY <2>2, <2>3, <2>4 DEF Ask, Act
  <1>5. \A d \in Clients \ {c}, s \in Servers : answers'[<<d, s>>] = answers[<<d, s>>]
    <2>1. CASE UNCHANGED answers
      BY <2>1
    <2>2. ASSUME NEW t, RecvMsg(c, t)
          PROVE  \A d \in Clients \ {c}, s \in Servers : answers'[<<d, s>>] = answers[<<d, s>>]
      <3>1. PICK q : answers' = [answers EXCEPT ![<<c, t>>] = q]
        BY <2>2 DEF RecvMsg
      <3>2. \A d \in Clients \ {c}, s \in Servers : <<d, s>> \in Pairs /\ <<d, s>> # <<c, t>>
        BY DEF Pairs
      <3> QED BY <3>1, <3>2 DEF Typed, AnswersTyped
    <2>3. UNCHANGED answers \/ \E t : RecvMsg(c, t)
      BY DEF ClientStep, Ask, Killed, ListCome, ListFails, AskMaster, Act, BackupAnswer,
             OwnerAnswer, Command, netVars, RecvFails
    <2> QED BY <2>1, <2>2, <2>3
  <1>6. \A v, k : WasPut(v, k) => WasPut(v, k)'
    BY <1>2, PutsGrow
  <1> QED BY <1>1, <1>3, <1>4, <1>5, <1>6 DEF Frame, serverVars

-----------------------------------------------------------------------------
(* What a step does to its own client.                                     *)

LEMMA QuietOneWith ==
    ASSUME NEW c \in Clients, \A s \in Servers : Quiet(c, s)'
    PROVE  OneWith(c)' /\ (pc'[c] # "idle" /\ buffer'[c].code # "GET_OK" => OfTheCommand(c)')
  <1>1. Len(<<>>) + Len(<<>>) <= 1 /\ DOMAIN <<>> = {}
    OBVIOUS
  <1>2. OneWith(c)'
    BY <1>1 DEF OneWith, Quiet
  <1>3. ASSUME pc'[c] # "idle", buffer'[c].code # "GET_OK" PROVE OfTheCommand(c)'
    BY <1>1, <1>3 DEF OfTheCommand, Quiet
  <1> QED BY <1>2, <1>3

\* A client that waits for no one has nothing on its way.
LEMMA NoneWaited ==
    ASSUME NEW c \in Clients, OneWith(c),
           pc[c] \in {"idle", "ask", "master", "act", "killed"}
    PROVE  \A s \in Servers : Quiet(c, s)
  <1>1. Waited(c) = {}
    BY DEF Waited
  <1> QED BY <1>1 DEF OneWith

\* What is on its way after the client has sent its request or asked for the list.
LEMMA SendSteps ==
    ASSUME Typed, NEW c \in Clients, OneWith(c), OfTheCommand(c), Ask(c) \/ Act(c)
    PROVE  OneWith(c)' /\ OfTheCommand(c)'
  <1>1. pc[c] \in {"ask", "act"} /\ UNCHANGED <<answers, conn, ring, cmd, buffer, up>>
    BY DEF Ask, Act, ringVars, serverVars
  <1>2. \A s \in Servers : Quiet(c, s)
    BY <1>1, NoneWaited
  <1>3. buffer[c].code # "GET_OK"
    BY <1>1 DEF OfTheCommand
  <1>4. PICK S : \E r \in Requests :
           /\ SendMsg(c, S, r) /\ S = Waited(c)' /\ pc'[c] # "idle"
           /\ pc'[c] \in {"backup", "owner"} => r = cmd[c]
    <2>1. CASE Ask(c)
      <3>1. PICK s : SendMsg(c, {s}, Req("LIST", None, None)) /\ asked' = [asked EXCEPT ![c] = s]
        BY <2>1 DEF Ask
      <3>2. pc'[c] = "list" /\ asked'[c] = s
        BY <2>1, <3>1 DEF Ask, Typed, PlaceTyped
      <3>3. Req("LIST", None, None) \in Requests
        BY DEF Requests, Req
      <3>4. {s} = Waited(c)'
        BY <3>2 DEF Waited
      <3> QED BY <3>1, <3>2, <3>3, <3>4
    <2>2. CASE Act(c)
      <3>1. SendMsg(c, {Owner(c)} \cup Backup(c), cmd[c]) /\ pc[c] = "act"
            /\ pc' = [pc EXCEPT ![c] = IF Backup(c) = {} THEN "owner" ELSE "backup"]
        BY <2>2 DEF Act
      <3>2. pc'[c] = IF Backup(c) = {} THEN "owner" ELSE "backup"
        BY <3>1 DEF Typed, PlaceTyped
      <3>3. cmd[c] \in Requests
        BY <3>1 DEF Typed, PlaceTyped, Commands
      <3>4. Owner(c)' = Owner(c) /\ Backup(c)' = Backup(c)
        BY <1>1 DEF Owner, Backup
      <3>5. {Owner(c)} \cup Backup(c) = Waited(c)'
        BY <3>2, <3>4 DEF Waited
      <3> QED BY <3>1, <3>2, <3>3, <3>5
    <2> QED BY <2>1, <2>2
  <1>a. PICK r \in Requests :
           /\ SendMsg(c, S, r) /\ S = Waited(c)' /\ pc'[c] # "idle"
           /\ pc'[c] \in {"backup", "owner"} => r = cmd[c]
    BY <1>4
  <1>5. \A s \in Servers :
           /\ answers'[<<c, s>>] = <<>>
           /\ requests'[<<c, s>>] = IF s \in S \cap conn[c] \cap up THEN <<r>> ELSE <<>>
    BY <1>1, <1>2, <1>a, SendOne
  <1>6. /\ Len(<<>>) + Len(<<>>) <= 1 /\ Len(<<r>>) + Len(<<>>) <= 1
        /\ DOMAIN <<>> = {} /\ DOMAIN <<r>> = {1} /\ <<r>>[1] = r
    OBVIOUS
  <1>7. OneWith(c)'
    <2>1. ASSUME NEW s \in Servers
          PROVE  /\ Len(requests'[<<c, s>>]) + Len(answers'[<<c, s>>]) <= 1
                 /\ s \notin Waited(c)' \cap conn'[c] => Quiet(c, s)'
                 /\ s \notin up' => requests'[<<c, s>>] = <<>>
      <3>1. CASE s \in S \cap conn[c] \cap up
        BY <1>1, <1>a, <1>5, <1>6, <3>1
      <3>2. CASE s \notin S \cap conn[c] \cap up
        BY <1>5, <1>6, <3>2 DEF Quiet
      <3> QED BY <3>1, <3>2
    <2> QED BY <2>1 DEF OneWith
  <1>8. OfTheCommand(c)'
    <2>1. ASSUME pc'[c] \in {"backup", "owner"}, NEW s \in Servers
          PROVE  /\ \A i \in DOMAIN requests'[<<c, s>>] : requests'[<<c, s>>][i] = cmd'[c]
                 /\ DOMAIN answers'[<<c, s>>] = {}
      <3>1. r = cmd'[c]
        BY <1>1, <1>a, <2>1
      <3>2. CASE s \in S \cap conn[c] \cap up
        BY <1>5, <1>6, <3>1, <3>2
      <3>3. CASE s \notin S \cap conn[c] \cap up
        BY <1>5, <1>6, <3>3
      <3> QED BY <3>2, <3>3
    <2> QED BY <1>1, <1>3, <1>a, <2>1 DEF OfTheCommand
  <1> QED BY <1>7, <1>8

\* An answer to the client has come, or will not.
LEMMA GotOrNot ==
    ASSUME Typed, NEW c \in Clients, OneWith(c), NEW s \in Servers, world.slow = {},
           UNCHANGED requests, RecvMsg(c, s) \/ RecvFails(c, s)
    PROVE  /\ Quiet(c, s)'
           /\ \A t \in Servers \ {s} : answers'[<<c, t>>] = answers[<<c, t>>]
  <1>1. CASE RecvMsg(c, s)
    <2>1. answers' = [answers EXCEPT ![<<c, s>>] = <<>>] /\ requests[<<c, s>>] = <<>>
      BY <1>1, RecvOne
    <2>2. \A t \in Servers : <<c, t>> \in Pairs
      BY DEF Pairs
    <2>3. answers'[<<c, s>>] = <<>>
          /\ \A t \in Servers \ {s} : answers'[<<c, t>>] = answers[<<c, t>>]
      BY <2>1, <2>2 DEF Typed, AnswersTyped
    <2> QED BY <2>1, <2>3 DEF Quiet
  <1>2. CASE RecvFails(c, s)
    BY <1>2, RecvNone DEF Quiet
  <1> QED BY <1>1, <1>2

LEMMA QuietSteps ==
    ASSUME Typed, NEW c \in Clients, OneWith(c), OfTheCommand(c), world.slow = {},
           \/ ListCome(c) \/ ListFails(c) \/ AskMaster(c) \/ Killed(c)
           \/ \E op \in {"PUT", "GET", "DELETE"}, k \in Keys : Command(c, op, k)
    PROVE  OneWith(c)' /\ OfTheCommand(c)'
  <1>1. CASE ListCome(c) \/ ListFails(c)
    <2>1. pc[c] = "list" /\ UNCHANGED <<requests, buffer>>
          /\ (RecvMsg(c, asked[c]) \/ RecvFails(c, asked[c]))
      BY <1>1 DEF ListCome, ListFails
    <2>2. PICK s \in Servers : s = asked[c]
      BY <2>1 DEF Typed, PlaceTyped
    <2>3. /\ Quiet(c, s)'
          /\ \A t \in Servers \ {s} : answers'[<<c, t>>] = answers[<<c, t>>]
      BY <2>1, <2>2, GotOrNot
    <2>4. \A t \in Servers \ {s} : Quiet(c, t)
      <3>1. Waited(c) = {s}
        BY <2>1, <2>2 DEF Waited
      <3> QED BY <3>1 DEF OneWith
    <2>5. \A t \in Servers : Quiet(c, t)'
      BY <2>1, <2>3, <2>4 DEF Quiet
    <2>6. pc'[c] \in {"act", "master", "ask"} /\ buffer'[c].code # "GET_OK"
      BY <1>1, <2>1 DEF ListCome, ListFails, OfTheCommand, Typed, PlaceTyped
    <2> QED BY <2>5, <2>6, QuietOneWith
  <1>2. CASE AskMaster(c)
    <2>1. pc[c] = "master" /\ UNCHANGED <<requests, answers>>
      BY <1>2 DEF AskMaster, netVars
    <2>2. \A s \in Servers : Quiet(c, s)'
      BY <2>1, NoneWaited DEF Quiet
    <2>3. pc'[c] = "idle" /\ said'[c] = Msg("UNAVAILABLE", None)
      BY <1>2 DEF AskMaster, Tell, Typed, PlaceTyped, ToldTyped
    <2>4. OfTheCommand(c)'
      BY <2>3 DEF OfTheCommand, Msg
    <2> QED BY <2>2, <2>4, QuietOneWith
  <1>3. CASE Killed(c)
    <2>1. pc[c] \in {"ask", "act", "master"} /\ UNCHANGED <<requests, answers, buffer>>
      BY <1>3 DEF Killed, netVars
    <2>2. \A s \in Servers : Quiet(c, s)'
      BY <2>1, NoneWaited DEF Quiet
    <2>3. pc'[c] = "killed" /\ buffer'[c].code # "GET_OK"
      BY <1>3, <2>1 DEF Killed, Typed, PlaceTyped, OfTheCommand
    <2> QED BY <2>2, <2>3, QuietOneWith
  <1>4. ASSUME NEW op \in {"PUT", "GET", "DELETE"}, NEW k \in Keys, Command(c, op, k)
        PROVE  OneWith(c)' /\ OfTheCommand(c)'
    <2>1. pc[c] = "idle" /\ UNCHANGED <<requests, answers>>
      BY <1>4 DEF Command, netVars
    <2>2. \A s \in Servers : Quiet(c, s)'
      BY <2>1, NoneWaited DEF Quiet
    <2>3. pc'[c] = "ask" /\ buffer'[c] = Silent
      BY <1>4 DEF Command, Typed, PlaceTyped, ToldTyped
    <2>4. buffer'[c].code # "GET_OK"
      BY <2>3 DEF Silent, Msg
    <2> QED BY <2>2, <2>3, <2>4, QuietOneWith
  <1> QED BY <1>1, <1>2, <1>3, <1>4

\* The answers to a command.
LEMMA AnswerSteps ==
    ASSUME Typed, NEW c \in Clients, OneWith(c), OfTheCommand(c), world.slow = {},
           BackupAnswer(c) \/ OwnerAnswer(c)
    PROVE  OneWith(c)' /\ OfTheCommand(c)'
  <1>1. UNCHANGED <<requests, conn, ring, cmd, up, puts>>
    BY DEF BackupAnswer, OwnerAnswer, ringVars, serverVars, userVars
  <1>2. Owner(c) \in Servers /\ Backup(c) \subseteq Servers
    BY ClientServers DEF Typed
  <1>3. \A v, k : WasPut(v, k)' = WasPut(v, k)
    BY <1>1 DEF WasPut
  <1>4. ASSUME NEW s \in Servers, RecvMsg(c, s), pc[c] \in {"backup", "owner"},
               Head(answers[<<c, s>>]).code = "GET_OK"
        PROVE  cmd[c].op = "GET" /\ WasPut(Head(answers[<<c, s>>]).val, cmd[c].key)
    <2>1. DOMAIN answers[<<c, s>>] = {1} /\ Head(answers[<<c, s>>]) = answers[<<c, s>>][1]
      BY <1>4, RecvOne
    <2> QED BY <1>4, <2>1 DEF OfTheCommand
  <1>5. CASE BackupAnswer(c)
    <2>1. pc[c] = "backup" /\ pc'[c] = "owner"
      BY <1>5 DEF BackupAnswer, Typed, PlaceTyped
    <2>2. PICK s \in Backup(c) :
             \/ RecvMsg(c, s) /\ buffer' = [buffer EXCEPT ![c] = Head(answers[<<c, s>>])]
             \/ RecvFails(c, s) /\ UNCHANGED buffer
      BY <1>5 DEF BackupAnswer
    <2>3. s \in Servers /\ Backup(c) = {s} /\ cmd[c].op # "GET"
      BY <1>2, <2>2 DEF Backup
    <2>4. Quiet(c, s)' /\ \A t \in Servers \ {s} : answers'[<<c, t>>] = answers[<<c, t>>]
      BY <1>1, <2>2, <2>3, GotOrNot
    <2>5. Waited(c) = {Owner(c), s} /\ Waited(c)' = {Owner(c)}
      BY <1>1, <2>1, <2>3 DEF Waited, Owner
    <2>6. OneWith(c)'
      <3>1. ASSUME NEW t \in Servers
            PROVE  /\ Len(requests'[<<c, t>>]) + Len(answers'[<<c, t>>]) <= 1
                   /\ t \notin Waited(c)' \cap conn'[c] => Quiet(c, t)'
                   /\ t \notin up' => requests'[<<c, t>>] = <<>>
        <4>1. CASE t = s
          <5>1. Len(<<>>) + Len(<<>>) <= 1
            OBVIOUS
          <5> QED BY <2>4, <4>1, <5>1 DEF Quiet
        <4>2. CASE t # s
          <5>1. requests'[<<c, t>>] = requests[<<c, t>>] /\ answers'[<<c, t>>] = answers[<<c, t>>]
            BY <1>1, <2>4, <4>2
          <5>2. t \notin Waited(c)' \cap conn'[c] => t \notin Waited(c) \cap conn[c]
            BY <1>1, <2>5, <4>2
          <5> QED BY <1>1, <5>1, <5>2 DEF OneWith, Quiet
        <4> QED BY <4>1, <4>2
      <3> QED BY <3>1 DEF OneWith
    <2>7. buffer'[c].code # "GET_OK"
      <3>1. CASE RecvMsg(c, s) /\ buffer' = [buffer EXCEPT ![c] = Head(answers[<<c, s>>])]
        <4>1. buffer'[c] = Head(answers[<<c, s>>])
          BY <3>1 DEF Typed, ToldTyped
        <4> QED BY <1>4, <2>1, <2>3, <3>1, <4>1
      <3>2. CASE UNCHANGED buffer
        BY <2>1, <3>2 DEF OfTheCommand
      <3> QED BY <2>2, <3>1, <3>2
    <2>8. OfTheCommand(c)'
      <3>1. ASSUME NEW t \in Servers
            PROVE  /\ \A i \in DOMAIN requests'[<<c, t>>] : requests'[<<c, t>>][i] = cmd'[c]
                   /\ \A i \in DOMAIN answers'[<<c, t>>] :
                         answers'[<<c, t>>][i].code = "GET_OK" =>
                            cmd'[c].op = "GET" /\ WasPut(answers'[<<c, t>>][i].val, cmd[c].key)
        <4>1. CASE t = s
          <5>1. DOMAIN <<>> = {}
            OBVIOUS
          <5> QED BY <2>4, <4>1, <5>1 DEF Quiet
        <4>2. CASE t # s
          <5>1. requests'[<<c, t>>] = requests[<<c, t>>] /\ answers'[<<c, t>>] = answers[<<c, t>>]
            BY <1>1, <2>4, <4>2
          <5> QED BY <1>1, <2>1, <5>1 DEF OfTheCommand
        <4> QED BY <4>1, <4>2
      <3> QED BY <1>1, <2>1, <2>7, <3>1 DEF OfTheCommand, WasPut
    <2> QED BY <2>6, <2>8
  <1>6. CASE OwnerAnswer(c)
    <2>1. pc[c] = "owner" /\ pc'[c] = "idle" /\ UNCHANGED buffer
      BY <1>6 DEF OwnerAnswer, Typed, PlaceTyped
    <2>2. PICK s \in Servers : s = Owner(c)
      BY <1>2
    <2>3. \/ RecvMsg(c, s) /\ said' = [said EXCEPT ![c] = Head(answers[<<c, s>>])]
          \/ RecvFails(c, s) /\ said' = [said EXCEPT ![c] = buffer[c]]
      BY <1>6, <2>2 DEF OwnerAnswer, Tell
    <2>4. Quiet(c, s)' /\ \A t \in Servers \ {s} : answers'[<<c, t>>] = answers[<<c, t>>]
      BY <1>1, <2>3, GotOrNot
    <2>5. \A t \in Servers : Quiet(c, t)'
      <3>1. Waited(c) = {s}
        BY <2>1, <2>2 DEF Waited
      <3>2. \A t \in Servers \ {s} : Quiet(c, t)
        BY <3>1 DEF OneWith
      <3> QED BY <1>1, <2>4, <3>2 DEF Quiet
    <2>6. said'[c].code = "GET_OK" => WasPut(said'[c].val, cmd[c].key)
      <3>1. CASE RecvMsg(c, s) /\ said' = [said EXCEPT ![c] = Head(answers[<<c, s>>])]
        <4>1. said'[c] = Head(answers[<<c, s>>])
          BY <3>1 DEF Typed, ToldTyped
        <4> QED BY <1>4, <2>1, <3>1, <4>1
      <3>2. CASE said' = [said EXCEPT ![c] = buffer[c]]
        <4>1. said'[c] = buffer[c]
          BY <3>2 DEF Typed, ToldTyped
        <4> QED BY <2>1, <4>1 DEF OfTheCommand
      <3> QED BY <2>3, <3>1, <3>2
    <2>7. OfTheCommand(c)'
      BY <1>1, <2>1, <2>6 DEF OfTheCommand, WasPut
    <2> QED BY <2>5, <2>7, QuietOneWith
  <1> QED BY <1>5, <1>6

-----------------------------------------------------------------------------
(* What a step of a server does.                                           *)

\* A record that is read was put for the key.
LEMMA RespondFits ==
    ASSUME NEW s \in Servers, NEW r \in Requests, ValuesFit,
           Respond(s, r).code = "GET_OK"
    PROVE  r.op = "GET" /\ WasPut(Respond(s, r).val, r.key)
  <1>1. r.op = "GET"
    BY DEF Respond, Msg, OkCode, Requests
  <1>2. r.key \in Keys
    BY <1>1 DEF Requests
  <1>3. PICK v : v = file[s][r.key]
    OBVIOUS
  <1>4. Respond(s, r) = IF v = None THEN Msg("ERROR", None) ELSE Msg("GET_OK", v)
    BY <1>1, <1>3 DEF Respond, GetValue, OkCode
  <1>5. v # None /\ Respond(s, r).val = v
    BY <1>4 DEF Msg
  <1> QED BY <1>1, <1>2, <1>3, <1>5 DEF ValuesFit

\* A worker takes the one request of the client, and its answer is the one on its way.
LEMMA HandleOne ==
    ASSUME Typed, NEW c \in Clients, NEW s \in Servers, OneWith(c), Handle(c, s)
    PROVE  \E r \in Requests :
              /\ DOMAIN requests[<<c, s>>] = {1} /\ r = requests[<<c, s>>][1]
              /\ requests' = [requests EXCEPT ![<<c, s>>] = <<>>]
              /\ answers' = [answers EXCEPT ![<<c, s>>] = <<Respond(s, r)>>]
              /\ file' = [file EXCEPT ![s] =
                            CASE r.op = "PUT"    -> PutKeyValue(@, r.key, r.val)
                              [] r.op = "DELETE" -> DelKeyValue(@, r.key)
                              [] OTHER           -> @]
  <1>1. PICK q : q = requests[<<c, s>>]
    OBVIOUS
  <1>2. /\ <<c, s>> \in Pairs /\ q \in Seq(Requests) /\ Len(q) \in Nat
        /\ DOMAIN q = 1 .. Len(q) /\ answers[<<c, s>>] \in Seq(Msgs)
        /\ (answers[<<c, s>>] = <<>> <=> Len(answers[<<c, s>>]) = 0)
        /\ Len(answers[<<c, s>>]) \in Nat
    BY <1>1, PairIs, LenProperties
  <1>3. PICK i \in DOMAIN q :
          /\ requests' = [requests EXCEPT ![<<c, s>>] = RemoveAt(q, i)]
          /\ answers' = [answers EXCEPT ![<<c, s>>] = Append(@, Respond(s, q[i]))]
          /\ file' = [file EXCEPT ![s] =
                        CASE q[i].op = "PUT"    -> PutKeyValue(@, q[i].key, q[i].val)
                          [] q[i].op = "DELETE" -> DelKeyValue(@, q[i].key)
                          [] OTHER              -> @]
    BY <1>1, <1>2 DEF Handle, Typed, RequestsTyped
  <1>4. Len(q) = 1 /\ Len(answers[<<c, s>>]) = 0
    <2>1. Len(q) + Len(answers[<<c, s>>]) <= 1
      BY <1>1 DEF OneWith
    <2>2. Len(q) # 0
      BY <1>2, <1>3
    <2>3. \A a, b \in Nat : a + b <= 1 /\ a # 0 => a = 1 /\ b = 0
      OBVIOUS
    <2> QED BY <1>2, <2>1, <2>2, <2>3
  <1>5. i = 1 /\ answers[<<c, s>>] = <<>> /\ DOMAIN q = {1}
    BY <1>2, <1>3, <1>4
  <1>6. RemoveAt(q, 1) = <<>>
    <2>1. PICK l : l = RemoveAt(q, 1)
      OBVIOUS
    <2>2. l \in Seq(Requests) /\ LinkedIn(l, q, 1, q[1])
      BY <1>2, <1>5, <2>1, RemoveUnlinks
    <2>3. Len(l) \in Nat /\ 1 = Len(l) + 1
      BY <1>4, <2>2, LenProperties DEF LinkedIn
    <2>4. Len(l) = 0
      BY <2>3
    <2> QED BY <2>1, <2>2, <2>4, EmptySeq
  <1>7. PICK r \in Requests : r = q[1]
    BY <1>2, <1>5
  <1>8. PICK m : m = Respond(s, r)
    OBVIOUS
  <1>9. answers' = [answers EXCEPT ![<<c, s>>] = <<m>>]
    <2>1. m \in Msgs
      BY <1>8, RespondIs DEF Typed
    <2>2. answers' = [answers EXCEPT ![<<c, s>>] = Append(<<>>, m)]
      BY <1>2, <1>3, <1>5, <1>7, <1>8 DEF Typed, AnswersTyped
    <2> QED BY <2>1, <2>2, AppendOne
  <1> QED BY <1>1, <1>3, <1>5, <1>6, <1>7, <1>8, <1>9

LEMMA HandleStep ==
    ASSUME Typed, NEW c \in Clients, NEW s \in Servers, InStep, Handle(c, s)
    PROVE  InStep'
  <1>1. OneWith(c) /\ OfTheCommand(c) /\ ValuesFit
    BY DEF InStep
  <1>2. PICK r \in Requests :
           /\ DOMAIN requests[<<c, s>>] = {1} /\ r = requests[<<c, s>>][1]
           /\ requests' = [requests EXCEPT ![<<c, s>>] = <<>>]
           /\ answers' = [answers EXCEPT ![<<c, s>>] = <<Respond(s, r)>>]
           /\ file' = [file EXCEPT ![s] =
                         CASE r.op = "PUT"    -> PutKeyValue(@, r.key, r.val)
                           [] r.op = "DELETE" -> DelKeyValue(@, r.key)
                           [] OTHER           -> @]
    BY <1>1, HandleOne
  <1>3. UNCHANGED <<members, up, left, conn, ring, puts, said, pc, asked, cmd, buffer>>
    BY DEF Handle, ringVars, userVars
  <1>4. <<c, s>> \in Pairs /\ \A d \in Clients, t \in Servers : <<d, t>> \in Pairs
    BY DEF Pairs
  <1>5. /\ requests'[<<c, s>>] = <<>> /\ answers'[<<c, s>>] = <<Respond(s, r)>>
        /\ \A d \in Clients, t \in Servers : <<d, t>> # <<c, s>> =>
              requests'[<<d, t>>] = requests[<<d, t>>] /\ answers'[<<d, t>>] = answers[<<d, t>>]
    BY <1>2, <1>4 DEF Typed, RequestsTyped, AnswersTyped
  <1>6. \A v, k : WasPut(v, k)' = WasPut(v, k)
    BY <1>3 DEF WasPut
  <1>7. ASSUME NEW d \in Clients, d # c PROVE OneWith(d)' /\ OfTheCommand(d)'
    <2>1. OneWith(d) /\ OfTheCommand(d)
      BY DEF InStep
    <2>2. Frame(c)
      BY <1>3, <1>5, <1>6 DEF Frame
    <2> QED BY <1>3, <1>7, <2>1, <2>2, FrameKeeps
  <1>8. PICK m : m = Respond(s, r)
    OBVIOUS
  <1>9. Len(<<>>) + Len(<<m>>) <= 1 /\ DOMAIN <<>> = {} /\ DOMAIN <<m>> = {1} /\ <<m>>[1] = m
    OBVIOUS
  <1>10. OneWith(c)'
    <2>1. Waited(c)' = Waited(c)
      BY <1>3 DEF Waited, Owner, Backup
    <2>2. requests[<<c, s>>] # <<>>
      BY <1>2
    <2>3. s \in up /\ s \in Waited(c) \cap conn[c]
      BY <1>1, <2>2 DEF OneWith, Quiet
    <2>4. ASSUME NEW t \in Servers
          PROVE  /\ Len(requests'[<<c, t>>]) + Len(answers'[<<c, t>>]) <= 1
                 /\ t \notin Waited(c)' \cap conn'[c] => Quiet(c, t)'
                 /\ t \notin up' => requests'[<<c, t>>] = <<>>
      <3>1. CASE t = s
        BY <1>3, <1>5, <1>8, <1>9, <2>1, <2>3, <3>1
      <3>2. CASE t # s
        <4>1. requests'[<<c, t>>] = requests[<<c, t>>] /\ answers'[<<c, t>>] = answers[<<c, t>>]
          BY <1>5, <3>2
        <4> QED BY <1>1, <1>3, <2>1, <4>1 DEF OneWith, Quiet
      <3> QED BY <3>1, <3>2
    <2> QED BY <2>4 DEF OneWith
  <1>11. OfTheCommand(c)'
    <2>1. ASSUME NEW t \in Servers, pc[c] \in {"backup", "owner"}
          PROVE  /\ \A i \in DOMAIN requests'[<<c, t>>] : requests'[<<c, t>>][i] = cmd[c]
                 /\ \A i \in DOMAIN answers'[<<c, t>>] :
                       answers'[<<c, t>>][i].code = "GET_OK" =>
                          cmd[c].op = "GET" /\ WasPut(answers'[<<c, t>>][i].val, cmd[c].key)
      <3>1. CASE t = s
        <4>1. r = cmd[c]
          BY <1>1, <1>2, <2>1 DEF OfTheCommand
        <4>2. m.code = "GET_OK" => cmd[c].op = "GET" /\ WasPut(m.val, cmd[c].key)
          BY <1>1, <1>8, <4>1, RespondFits
        <4>3. requests'[<<c, t>>] = <<>> /\ answers'[<<c, t>>] = <<m>>
          BY <1>5, <1>8, <3>1
        <4> QED BY <1>9, <4>2, <4>3
      <3>2. CASE t # s
        <4>1. requests'[<<c, t>>] = requests[<<c, t>>] /\ answers'[<<c, t>>] = answers[<<c, t>>]
          BY <1>5, <3>2
        <4> QED BY <1>1, <2>1, <4>1 DEF OfTheCommand
      <3> QED BY <3>1, <3>2
    <2>2. pc[c] # "idle" => buffer[c].code # "GET_OK"
      BY <1>1 DEF OfTheCommand
    <2>3. pc[c] = "idle" /\ cmd[c].op = "GET" /\ said[c].code = "GET_OK" =>
             WasPut(said[c].val, cmd[c].key)
      BY <1>1 DEF OfTheCommand
    <2> QED BY <1>3, <2>1, <2>2, <2>3 DEF OfTheCommand, WasPut
  <1>12. ValuesFit'
    <2>1. r.op = "PUT" => WasPut(r.val, r.key)
      BY <1>1, <1>2, <1>4 DEF ValuesFit
    <2>2. ASSUME NEW t \in Servers, NEW k \in Keys, file'[t][k] # None
          PROVE  WasPut(file'[t][k], k)
      <3>0. file \in [Servers -> [Keys -> Values \cup {None}]]
        BY DEF Typed, ServersTyped
      <3>1. CASE t # s
        <4>1. file'[t] = file[t]
          BY <1>2, <3>0, <3>1
        <4> QED BY <1>1, <2>2, <4>1 DEF ValuesFit
      <3>2. CASE t = s
        <4>1. PICK f : f = file[s]
          OBVIOUS
        <4>2. f \in [Keys -> Values \cup {None}]
          BY <3>0, <4>1
        <4>3. \A l \in Keys : f[l] # None => WasPut(f[l], l)
          BY <1>1, <4>1 DEF ValuesFit
        <4>4. CASE r.op = "PUT"
          <5>1. file'[s] = [f EXCEPT ![r.key] = r.val]
            BY <1>2, <3>0, <4>1, <4>4 DEF PutKeyValue
          <5> QED BY <2>1, <2>2, <3>2, <4>2, <4>3, <4>4, <5>1
        <4>5. CASE r.op = "DELETE"
          <5>1. file'[s] = [f EXCEPT ![r.key] = None]
            BY <1>2, <3>0, <4>1, <4>5 DEF DelKeyValue
          <5> QED BY <2>2, <3>2, <4>2, <4>3, <5>1
        <4>6. CASE r.op \notin {"PUT", "DELETE"}
          <5>1. file'[s] = f
            BY <1>2, <3>0, <4>1, <4>6
          <5> QED BY <2>2, <3>2, <4>3, <5>1
        <4> QED BY <4>4, <4>5, <4>6
      <3> QED BY <3>1, <3>2
    <2>3. ASSUME NEW p \in Pairs, NEW i \in DOMAIN requests'[p], requests'[p][i].op = "PUT"
          PROVE  WasPut(requests'[p][i].val, requests'[p][i].key)
      <3>1. requests'[p] = IF p = <<c, s>> THEN <<>> ELSE requests[p]
        BY <1>2 DEF Typed, RequestsTyped
      <3>2. p # <<c, s>>
        BY <1>9, <2>3, <3>1
      <3> QED BY <1>1, <2>3, <3>1, <3>2 DEF ValuesFit
    <2>4. \A d \in Clients : cmd[d].op = "PUT" => WasPut(cmd[d].val, cmd[d].key)
      BY <1>1 DEF ValuesFit
    <2> QED BY <1>3, <2>2, <2>3, <2>4 DEF ValuesFit, WasPut
  <1> QED BY <1>7, <1>10, <1>11, <1>12 DEF InStep

\* A server joins, dies, or leaves the list.
LEMMA ServersStep ==
    ASSUME Typed, NEW s \in Servers, InStep, Join(s) \/ Die(s) \/ Unlist(s)
    PROVE  InStep'
  <1>1. UNCHANGED <<file, answers, conn, ring, puts, said, pc, asked, cmd, buffer>>
    BY DEF Join, Die, Unlist, clientVars, ringVars, userVars
  <1>2. \A p \in Pairs : requests'[p] \in {requests[p], <<>>}
    BY DEF Join, Die, Unlist
  <1>3. \A d \in Clients, t \in Servers :
           <<d, t>> \in Pairs /\ (t \notin up' => t \notin up \/ requests'[<<d, t>>] = <<>>)
    BY DEF Join, Die, Unlist, Pairs
  <1>4. DOMAIN <<>> = {} /\ Len(<<>>) = 0
    OBVIOUS
  <1>5. ASSUME NEW d \in Clients PROVE OneWith(d)' /\ OfTheCommand(d)'
    <2>1. OneWith(d) /\ OfTheCommand(d)
      BY DEF InStep
    <2>2. Waited(d)' = Waited(d)
      BY <1>1 DEF Waited, Owner, Backup
    <2>3. ASSUME NEW t \in Servers
          PROVE  /\ Len(requests'[<<d, t>>]) + Len(answers'[<<d, t>>]) <= 1
                 /\ t \notin Waited(d)' \cap conn'[d] => Quiet(d, t)'
                 /\ t \notin up' => requests'[<<d, t>>] = <<>>
                 /\ pc[d] \in {"backup", "owner"} =>
                      \A i \in DOMAIN requests'[<<d, t>>] : requests'[<<d, t>>][i] = cmd[d]
      <3>1. CASE requests'[<<d, t>>] = requests[<<d, t>>]
        BY <1>1, <1>3, <2>1, <2>2, <3>1 DEF OneWith, Quiet, OfTheCommand
      <3>2. CASE requests'[<<d, t>>] = <<>>
        <4>1. Len(answers[<<d, t>>]) <= 1
          <5>1. \A a, b \in Nat : a + b <= 1 => b <= 1
            OBVIOUS
          <5> QED BY <2>1, <5>1, PairIs DEF OneWith
        <4>2. 0 + Len(answers[<<d, t>>]) = Len(answers[<<d, t>>])
          BY PairIs
        <4> QED BY <1>1, <1>4, <2>1, <2>2, <3>2, <4>1, <4>2 DEF OneWith, Quiet
      <3> QED BY <1>2, <1>3, <3>1, <3>2
    <2>4. OneWith(d)'
      BY <2>3 DEF OneWith
    <2>5. OfTheCommand(d)'
      BY <1>1, <2>1, <2>3 DEF OfTheCommand, WasPut
    <2> QED BY <2>4, <2>5
  <1>6. ValuesFit'
    <2>1. \A p \in Pairs : \A i \in DOMAIN requests'[p] :
             requests'[p][i].op = "PUT" => WasPut(requests'[p][i].val, requests'[p][i].key)
      <3>1. ASSUME NEW p \in Pairs, NEW i \in DOMAIN requests'[p], requests'[p][i].op = "PUT"
            PROVE  WasPut(requests'[p][i].val, requests'[p][i].key)
        <4>1. requests'[p] = requests[p]
          BY <1>2, <1>4, <3>1
        <4> QED BY <3>1, <4>1 DEF InStep, ValuesFit
      <3> QED BY <3>1
    <2> QED BY <1>1, <2>1 DEF InStep, ValuesFit, WasPut
  <1> QED BY <1>5, <1>6 DEF InStep

\* What a client sends is its command or a request for the list.
LEMMA ClientFits ==
    ASSUME Typed, NEW c \in Clients, ValuesFit,
           ClientStep(c) \/ \E op \in {"PUT", "GET", "DELETE"}, k \in Keys : Command(c, op, k)
    PROVE  ValuesFit'
  <1> DEFINE Will(v, k) == v \in 1 .. Len(puts') /\ puts'[v] = k
  <1>1. UNCHANGED file /\ \A v, k : WasPut(v, k) => Will(v, k)
    <2>1. UNCHANGED file /\ \A v, k : WasPut(v, k) => WasPut(v, k)'
      BY ClientFrame DEF Frame
    <2> QED BY <2>1 DEF WasPut
  <1> HIDE DEF Will
  <1>2. \A s \in Servers, k \in Keys : file'[s][k] # None => Will(file'[s][k], k)
    BY <1>1 DEF ValuesFit
  <1>3. \A d \in Clients : cmd'[d].op = "PUT" => Will(cmd'[d].val, cmd'[d].key)
    <2>1. CASE UNCHANGED cmd
      BY <1>1, <2>1 DEF ValuesFit
    <2>2. ASSUME NEW op \in {"PUT", "GET", "DELETE"}, NEW k \in Keys, Command(c, op, k)
          PROVE  \A d \in Clients : cmd'[d].op = "PUT" => Will(cmd'[d].val, cmd'[d].key)
      <3>1. PICK r : r = Req(op, k, IF op = "PUT" THEN Len(puts') ELSE None)
        OBVIOUS
      <3>2. cmd' = [cmd EXCEPT ![c] = r]
        BY <2>2, <3>1 DEF Command
      <3>3. r.op = "PUT" => Will(r.val, r.key)
        <4>1. SUFFICES ASSUME r.op = "PUT" PROVE Will(r.val, r.key)
          OBVIOUS
        <4>2. op = "PUT" /\ r.val = Len(puts') /\ r.key = k
          BY <3>1, <4>1 DEF Req
        <4>3. PICK q : q = Append(puts, k)
          OBVIOUS
        <4>4. puts' = q
          BY <2>2, <4>2, <4>3 DEF Command
        <4>5. Len(q) = Len(puts) + 1 /\ Len(puts) \in Nat /\ q[Len(puts) + 1] = k
          BY <4>3, AppendProperties, LenProperties DEF Typed, ToldTyped
        <4> QED BY <4>2, <4>4, <4>5 DEF Will
      <3>4. \A d \in Clients : cmd'[d] = r \/ cmd'[d] = cmd[d]
        BY <3>2 DEF Typed, PlaceTyped
      <3> QED BY <1>1, <3>3, <3>4 DEF ValuesFit
    <2>3. UNCHANGED cmd \/ \E op \in {"PUT", "GET", "DELETE"}, k \in Keys : Command(c, op, k)
      BY DEF ClientStep, Ask, Killed, ListCome, ListFails, AskMaster, Act, BackupAnswer,
             OwnerAnswer
    <2> QED BY <2>1, <2>2, <2>3
  <1>4. ASSUME NEW p \in Pairs, NEW i \in DOMAIN requests'[p], requests'[p][i].op = "PUT"
        PROVE  Will(requests'[p][i].val, requests'[p][i].key)
    <2>1. CASE requests'[p] = requests[p]
      BY <1>1, <1>4, <2>1 DEF ValuesFit
    <2>2. ASSUME NEW r \in Requests, r.op = "PUT" => Will(r.val, r.key),
                 requests'[p] = Append(requests[p], r)
          PROVE  Will(requests'[p][i].val, requests'[p][i].key)
      <3>1. requests[p] \in Seq(Requests)
        BY DEF Typed, RequestsTyped
      <3>2. PICK q : q = Append(requests[p], r)
        OBVIOUS
      <3>3. /\ Len(requests[p]) \in Nat /\ DOMAIN requests[p] = 1 .. Len(requests[p])
            /\ DOMAIN q = 1 .. Len(requests[p]) + 1 /\ q[Len(requests[p]) + 1] = r
            /\ \A j \in 1 .. Len(requests[p]) : q[j] = requests[p][j]
        BY <3>1, <3>2, AppendProperties, LenProperties
      <3>4. CASE i = Len(requests[p]) + 1
        BY <1>4, <2>2, <3>2, <3>3, <3>4
      <3>5. CASE i # Len(requests[p]) + 1
        <4>1. i \in 1 .. Len(requests[p]) /\ requests'[p][i] = requests[p][i]
          BY <2>2, <3>2, <3>3, <3>5
        <4> QED BY <1>1, <1>4, <3>3, <4>1 DEF ValuesFit
      <3> QED BY <3>4, <3>5
    <2>3. \/ requests'[p] = requests[p]
          \/ \E r \in Requests : /\ r.op = "PUT" => Will(r.val, r.key)
                                 /\ requests'[p] = Append(requests[p], r)
      <3>1. CASE UNCHANGED requests
        BY <3>1
      <3>2. CASE Ask(c)
        <4>1. requests'[p] \in {requests[p], Append(requests[p], Req("LIST", None, None))}
          BY <3>2 DEF Ask, SendMsg
        <4>2. Req("LIST", None, None) \in Requests /\ Req("LIST", None, None).op # "PUT"
          BY DEF Req, Requests
        <4> QED BY <4>1, <4>2
      <3>3. CASE Act(c)
        <4>1. requests'[p] \in {requests[p], Append(requests[p], cmd[c])} /\ pc[c] = "act"
          BY <3>3 DEF Act, SendMsg
        <4>2. cmd[c] \in Requests /\ (cmd[c].op = "PUT" => Will(cmd[c].val, cmd[c].key))
          BY <1>1, <4>1 DEF Typed, PlaceTyped, Commands, ValuesFit
        <4> QED BY <4>1, <4>2
      <3>4. UNCHANGED requests \/ Ask(c) \/ Act(c)
        BY DEF ClientStep, Killed, ListCome, ListFails, AskMaster, BackupAnswer,
               OwnerAnswer, Command, netVars
      <3> QED BY <3>1, <3>2, <3>3, <3>4
    <2> QED BY <2>1, <2>2, <2>3
  <1> QED BY <1>2, <1>3, <1>4 DEF ValuesFit, WasPut, Will

-----------------------------------------------------------------------------

LEMMA InitInStep == Init => InStep
  <1> SUFFICES ASSUME Init PROVE InStep
    OBVIOUS
  <1>1. Len(<<>>) + Len(<<>>) <= 1 /\ DOMAIN <<>> = {}
    OBVIOUS
  <1>2. \A c \in Clients, s \in Servers :
           <<c, s>> \in Pairs /\ requests[<<c, s>>] = <<>> /\ answers[<<c, s>>] = <<>>
    BY DEF Init, Pairs
  <1>3. ASSUME NEW c \in Clients PROVE OneWith(c) /\ OfTheCommand(c)
    <2>1. pc[c] = "idle" /\ cmd[c] = NoCmd
      BY DEF Init
    <2>2. OneWith(c)
      BY <1>1, <1>2 DEF OneWith, Quiet
    <2>3. cmd[c].op = "NONE"
      BY <2>1 DEF NoCmd
    <2>4. /\ pc[c] \notin {"backup", "owner"} /\ cmd[c].op # "GET"
          /\ pc[c] # "idle" => buffer[c].code # "GET_OK"
      BY <2>1, <2>3
    <2>5. OfTheCommand(c)
      BY <2>4 DEF OfTheCommand
    <2> QED BY <2>2, <2>5
  <1>4. ValuesFit
    BY <1>1 DEF Init, ValuesFit, NoCmd
  <1> QED BY <1>3, <1>4 DEF InStep

LEMMA InStepStep ==
    ASSUME Typed, world.slow = {}, InStep, [Next]_vars
    PROVE  InStep'
  <1>1. ASSUME NEW c \in Clients,
               ClientStep(c) \/ \E op \in {"PUT", "GET", "DELETE"}, k \in Keys : Command(c, op, k)
        PROVE  InStep'
    <2>1. \A d \in Clients : OneWith(d) /\ OfTheCommand(d)
      BY DEF InStep
    <2>2. ValuesFit'
      BY <1>1, ClientFits DEF InStep
    <2>3. Frame(c) /\ UNCHANGED up
      BY <1>1, ClientFrame
    <2>4. \A d \in Clients \ {c} : OneWith(d)' /\ OfTheCommand(d)'
      BY <2>1, <2>3, FrameKeeps
    <2>5. OneWith(c)' /\ OfTheCommand(c)'
      BY <1>1, <2>1, SendSteps, QuietSteps, AnswerSteps DEF ClientStep
    <2> QED BY <2>2, <2>4, <2>5 DEF InStep
  <1>2. CASE Next
    BY <1>1, <1>2, HandleStep, ServersStep DEF Next
  <1>3. CASE UNCHANGED vars
    <2>1. UNCHANGED <<members, up, left, file, requests, answers, conn, ring, said, puts, pc,
                      asked, cmd, buffer>>
      BY <1>3 DEF vars, serverVars, netVars, ringVars, userVars
    <2>2. \A c \in Clients : Waited(c)' = Waited(c)
      BY <2>1 DEF Waited, Owner, Backup
    <2>3. ValuesFit'
      BY <2>1 DEF InStep, ValuesFit, WasPut
    <2>4. ASSUME NEW c \in Clients PROVE OneWith(c)' /\ OfTheCommand(c)'
      <3>1. OneWith(c) /\ OfTheCommand(c)
        BY DEF InStep
      <3>2. \A v, k : WasPut(v, k)' <=> WasPut(v, k)
        BY <2>1 DEF WasPut
      <3>3. OneWith(c)'
        BY <2>1, <2>2, <3>1 DEF OneWith, Quiet
      <3>4. OfTheCommand(c)'
        BY <2>1, <3>1, <3>2 DEF OfTheCommand
      <3> QED BY <3>3, <3>4
    <2> QED BY <2>3, <2>4 DEF InStep
  <1> QED BY <1>2, <1>3

\* While no server is slow, no answer to a command is left for the next one to take,
\* and a value that a user is told for a key was put for it, by whichever client,
\* and whichever servers join and die (dbclient.c:102, 284-299, 312-318).
THEOREM AnswersStayInStep == Spec => []AnswersInStep
  <1> DEFINE IInv == Typed /\ (world.slow = {} => InStep)
  <1>1. Init => IInv
    BY InitTyped, InitInStep
  <1>2. IInv /\ [Next]_vars => IInv'
    <2> SUFFICES ASSUME IInv, [Next]_vars PROVE IInv'
      OBVIOUS
    <2>1. Typed' /\ world' = world
      BY TypedStep
    <2>2. world.slow = {} => InStep'
      BY InStepStep
    <2> QED BY <2>1, <2>2
  <1>3. IInv => AnswersInStep
    <2> SUFFICES ASSUME IInv, world.slow = {}
                 PROVE  /\ \A c \in Clients, s \in up :
                              Idle(c) => requests[<<c, s>>] = <<>> /\ answers[<<c, s>>] = <<>>
                        /\ ValueOfKey
      BY DEF AnswersInStep
    <2>1. ASSUME NEW c \in Clients, NEW s \in up, Idle(c) PROVE Quiet(c, s)
      <3>1. s \in Servers
        BY DEF Typed, ServersTyped
      <3> QED BY <2>1, <3>1, NoneWaited DEF InStep, Idle
    <2>2. ValueOfKey
      BY DEF InStep, OfTheCommand, ValueOfKey, Idle, WasPut
    <2> QED BY <2>1, <2>2 DEF Quiet
  <1> HIDE DEF IInv
  <1> QED BY <1>1, <1>2, <1>3, PTL DEF Spec

-----------------------------------------------------------------------------
(* A client that has renewed its ring has the servers of the list.         *)

\* What the lists on their way, and the rings made of those that came, may have.
Lists == {l \in Clients \X Servers \X Nat :
            /\ l[3] \in DOMAIN answers[<<l[1], l[2]>>]
            /\ answers[<<l[1], l[2]>>][l[3]].code = "UPDATE"}
ListOf(l) == RangeOf(answers[<<l[1], l[2]>>][l[3]].val)

Fresh ==
    /\ IsFiniteSet(left)
    /\ RangeOf(world.online) \subseteq up \cup left
    /\ RangeOf(members) \subseteq up \cup left
    /\ \A c \in Clients : RingServers(ring[c]) \subseteq up \cup left
    /\ \A l \in Lists : /\ ListOf(l) \subseteq up \cup left
                        /\ RangeOf(world.online) \subseteq ListOf(l) \cup left

\* A list on its way to a client is not older than the ring it has.
InTime == \A l \in Lists : RingServers(ring[l[1]]) \subseteq ListOf(l) \cup left

LEMMA InitFresh == Init => Fresh /\ InTime /\ Lists = {}
  <1> SUFFICES ASSUME Init PROVE Fresh /\ InTime /\ Lists = {}
    OBVIOUS
  <1>1. Lists = {}
    <2>1. \A c \in Clients, s \in Servers : answers[<<c, s>>] = <<>>
      BY DEF Init, Pairs
    <2>2. DOMAIN <<>> = {}
      OBVIOUS
    <2> QED BY <2>1, <2>2 DEF Lists
  <1>2. IsFiniteSet(left)
    BY FS_EmptySet DEF Init
  <1>3. ASSUME NEW c \in Clients PROVE RingServers(ring[c]) \subseteq up \cup left
    <2>1. PICK h \in HashChoices : ring[c] = AddAll(<<>>, world.online, h)
      BY DEF Init
    <2>2. world.online \in Seq(Servers)
      BY WorldIs DEF Init
    <2>3. RingServers(ring[c]) = RingServers(<<>>) \cup RangeOf(world.online)
      BY <2>1, <2>2, HashIs, EmptySeq, AddAllIs DEF Rings
    <2>4. RingServers(<<>>) = {}
      BY DEF RingServers
    <2> QED BY <2>3, <2>4 DEF Init
  <1> QED BY <1>1, <1>2, <1>3 DEF Fresh, InTime, Init

\* What is received is taken off the lists on their way.
LEMMA RecvLists ==
    ASSUME Typed, NEW c \in Clients, NEW s \in Servers, RecvMsg(c, s)
    PROVE  \A l \in Lists' : \E k \in Lists : k[1] = l[1] /\ ListOf(l)' = ListOf(k)
  <1>1. PICK q : q = answers[<<c, s>>]
    OBVIOUS
  <1>2. q \in Seq(Msgs) /\ <<c, s>> \in Pairs /\ q # <<>>
    BY <1>1 DEF Typed, AnswersTyped, Pairs, RecvMsg
  <1>3. PICK k \in 1 .. Len(q) :
           answers' = [answers EXCEPT ![<<c, s>>] = SubSeq(q, k + 1, Len(q))]
    BY <1>1, <1>2 DEF RecvMsg, Typed, AnswersTyped
  <1>4. PICK b : b = SubSeq(q, k + 1, Len(q))
    OBVIOUS
  <1>5. /\ Len(q) \in Nat /\ DOMAIN q = 1 .. Len(q) /\ b \in Seq(Msgs)
        /\ Len(b) = Len(q) - k /\ DOMAIN b = 1 .. Len(b)
    BY <1>2, <1>4, RestIs, LenProperties
  <1>6. ASSUME NEW i \in DOMAIN b PROVE i + k \in DOMAIN q /\ b[i] = q[i + k]
    <2>1. k + 1 \in 1 .. Len(q) + 1 /\ k \in Nat /\ i \in 1 .. Len(q) - k
          /\ i \in 1 .. Len(q) + 1 - (k + 1) /\ i + (k + 1) - 1 = i + k
      BY <1>5
    <2>2. b[i] = q[i + (k + 1) - 1]
      BY <1>2, <1>4, <2>1, Slices
    <2> QED BY <1>5, <2>1, <2>2
  <1>7. ASSUME NEW l \in Lists'
        PROVE  \E m \in Lists : m[1] = l[1] /\ ListOf(l)' = ListOf(m)
    <2>1. PICK d \in Clients, t \in Servers, i \in Nat :
             /\ l = <<d, t, i>> /\ i \in DOMAIN answers'[<<d, t>>]
             /\ answers'[<<d, t>>][i].code = "UPDATE"
      BY <1>7 DEF Lists
    <2>2. <<d, t>> \in Pairs /\ l[1] = d /\ l[2] = t /\ l[3] = i
      BY <2>1 DEF Pairs
    <2>3. CASE <<d, t>> = <<c, s>>
      <3>1. answers'[<<d, t>>] = b
        BY <1>2, <1>3, <1>4, <2>3 DEF Typed, AnswersTyped
      <3>2. i + k \in Nat /\ i + k \in DOMAIN answers[<<d, t>>]
            /\ answers'[<<d, t>>][i] = answers[<<d, t>>][i + k]
        <4>1. answers[<<d, t>>] = q /\ i \in DOMAIN b
          BY <1>1, <2>1, <2>3, <3>1
        <4> QED BY <1>5, <1>6, <2>1, <3>1, <4>1
      <3>3. PICK m : m = <<d, t, i + k>>
        OBVIOUS
      <3>4. m \in Lists /\ m[1] = d /\ m[2] = t /\ m[3] = i + k
        BY <2>1, <3>2, <3>3 DEF Lists
      <3> QED BY <2>2, <3>2, <3>4 DEF ListOf
    <2>4. CASE <<d, t>> # <<c, s>>
      <3>1. answers'[<<d, t>>] = answers[<<d, t>>]
        BY <1>3, <2>2, <2>4 DEF Typed, AnswersTyped
      <3>2. l \in Lists
        BY <2>1, <3>1 DEF Lists
      <3> QED BY <2>2, <3>1, <3>2 DEF ListOf
    <2> QED BY <2>3, <2>4
  <1> QED BY <1>7

\* A server answers with the list it has.
LEMMA HandleLists ==
    ASSUME Typed, NEW c \in Clients, NEW s \in Servers, Handle(c, s)
    PROVE  \A l \in Lists' : \/ \E k \in Lists : k[1] = l[1] /\ ListOf(l)' = ListOf(k)
                             \/ ListOf(l)' = RangeOf(members)
  <1>1. PICK q : q = answers[<<c, s>>]
    OBVIOUS
  <1>2. /\ <<c, s>> \in Pairs /\ requests[<<c, s>>] \in Seq(Requests)
        /\ q \in Seq(Msgs) /\ Len(q) \in Nat /\ DOMAIN q = 1 .. Len(q)
    BY <1>1, PairIs, LenProperties
  <1>3. PICK i \in DOMAIN requests[<<c, s>>] :
           answers' = [answers EXCEPT ![<<c, s>>] = Append(q, Respond(s, requests[<<c, s>>][i]))]
    BY <1>1, <1>2 DEF Handle, Typed, AnswersTyped
  <1>4. PICK r \in Requests : r = requests[<<c, s>>][i]
    BY <1>2, <1>3
  <1>5. PICK m \in Msgs : m = Respond(s, r)
    BY RespondIs DEF Typed
  <1>6. m.code = "UPDATE" => m.val = members
    <2>1. CASE r.op = "LIST"
      BY <1>5, <2>1 DEF Respond, Msg
    <2>2. CASE r.op = "PUT"
      BY <1>5, <2>2 DEF Respond, Msg
    <2>3. CASE r.op \in {"GET", "DELETE"}
      <3>1. m.code \in {"ERROR", "GET_OK", "DELETE_OK"}
        BY <1>5, <2>3 DEF Respond, Msg, OkCode
      <3> QED BY <3>1
    <2> QED BY <2>1, <2>2, <2>3 DEF Requests
  <1>7. PICK b : b = Append(q, m)
    OBVIOUS
  <1>8. /\ DOMAIN b = 1 .. Len(q) + 1 /\ b[Len(q) + 1] = m
        /\ \A j \in 1 .. Len(q) : b[j] = q[j]
    BY <1>2, <1>7, AppendProperties
  <1>9. ASSUME NEW l \in Lists'
        PROVE  \/ \E k \in Lists : k[1] = l[1] /\ ListOf(l)' = ListOf(k)
               \/ ListOf(l)' = RangeOf(members)
    <2>1. PICK d \in Clients, t \in Servers, j \in Nat :
             /\ l = <<d, t, j>> /\ j \in DOMAIN answers'[<<d, t>>]
             /\ answers'[<<d, t>>][j].code = "UPDATE"
      BY <1>9 DEF Lists
    <2>2. <<d, t>> \in Pairs /\ l[1] = d /\ l[2] = t /\ l[3] = j
      BY <2>1 DEF Pairs
    <2>3. CASE answers'[<<d, t>>] = b /\ <<d, t>> = <<c, s>> /\ j = Len(q) + 1
      BY <1>6, <1>8, <2>1, <2>2, <2>3 DEF ListOf
    <2>4. CASE /\ j \in DOMAIN answers[<<d, t>>]
               /\ answers'[<<d, t>>][j] = answers[<<d, t>>][j]
      <3>1. l \in Lists
        BY <2>1, <2>2, <2>4 DEF Lists
      <3> QED BY <2>2, <2>4, <3>1 DEF ListOf
    <2>5. CASE <<d, t>> = <<c, s>>
      <3>1. answers'[<<d, t>>] = b /\ answers[<<d, t>>] = q
        BY <1>1, <1>2, <1>3, <1>4, <1>5, <1>7, <2>5 DEF Typed, AnswersTyped
      <3>2. j \in 1 .. Len(q) \/ j = Len(q) + 1
        BY <1>2, <1>8, <2>1, <3>1
      <3> QED BY <1>2, <1>8, <2>3, <2>4, <2>5, <3>1, <3>2
    <2>6. CASE <<d, t>> # <<c, s>>
      <3>1. answers'[<<d, t>>] = answers[<<d, t>>]
        BY <1>3, <2>2, <2>6 DEF Typed, AnswersTyped
      <3> QED BY <2>1, <2>4, <3>1
    <2> QED BY <2>5, <2>6
  <1> QED BY <1>9

\* No other step puts a list on its way.
LEMMA ListsStep ==
    ASSUME Typed, [Next]_vars
    PROVE  \A l \in Lists' : \/ \E k \in Lists : k[1] = l[1] /\ ListOf(l)' = ListOf(k)
                             \/ ListOf(l)' = RangeOf(members)
  <1>1. CASE UNCHANGED answers
    BY <1>1 DEF Lists, ListOf
  <1>2. ASSUME NEW c \in Clients, ClientStep(c)
        PROVE  UNCHANGED answers \/ \E s \in Servers : RecvMsg(c, s)
    <2>1. CASE Ask(c) \/ Killed(c) \/ AskMaster(c) \/ Act(c)
      BY <2>1 DEF Ask, Killed, AskMaster, Act, netVars
    <2>2. CASE ListCome(c) \/ ListFails(c)
      BY <2>2 DEF ListCome, ListFails, RecvFails, Typed, PlaceTyped
    <2>3. CASE BackupAnswer(c) \/ OwnerAnswer(c)
      <3>1. Owner(c) \in Servers /\ Backup(c) \subseteq Servers
        BY <2>3, ClientServers DEF BackupAnswer, OwnerAnswer, Typed
      <3> QED BY <2>3, <3>1 DEF BackupAnswer, OwnerAnswer, RecvFails
    <2> QED BY <1>2, <2>1, <2>2, <2>3 DEF ClientStep
  <1>3. ASSUME NEW s \in Servers, Join(s) \/ Die(s) \/ Unlist(s) PROVE UNCHANGED answers
    BY <1>3 DEF Join, Die, Unlist, clientVars
  <1>4. \A c \in Clients, op \in {"PUT", "GET", "DELETE"}, k \in Keys :
           Command(c, op, k) => UNCHANGED answers
    BY DEF Command, netVars
  <1>5. CASE UNCHANGED vars
    BY <1>1, <1>5 DEF vars, netVars
  <1> QED BY <1>1, <1>2, <1>3, <1>4, <1>5, RecvLists, HandleLists DEF Next

\* A server that is taken off the list.
LEMMA UnlistIs ==
    ASSUME Typed, NEW s \in Servers, Unlist(s)
    PROVE  RangeOf(members') \subseteq RangeOf(members)
  <1>1. members \in Seq(Servers) /\ DOMAIN members = 1 .. Len(members) /\ Len(members) \in Nat
    BY LenProperties DEF Typed, ServersTyped
  <1>2. PICK i \in DOMAIN members : members' = RemoveAt(members, i)
    BY DEF Unlist
  <1>3. PICK l : l = RemoveAt(members, i)
    OBVIOUS
  <1>4. l \in Seq(Servers) /\ LinkedIn(l, members, i, members[i])
    BY <1>1, <1>3, RemoveUnlinks
  <1>5. Len(members) = Len(l) + 1 /\ DOMAIN l = 1 .. Len(l) /\ Len(l) \in Nat
    BY <1>4, LenProperties DEF LinkedIn
  <1>6. ASSUME NEW j \in DOMAIN l PROVE l[j] \in RangeOf(members)
    <2>1. CASE j < i
      <3>1. j \in 1 .. Len(members) /\ members[j] = l[j]
        BY <1>4, <1>5, <2>1 DEF LinkedIn
      <3> QED BY <1>1, <3>1 DEF RangeOf
    <2>2. CASE j >= i
      <3>1. j + 1 \in 1 .. Len(members) /\ members[j + 1] = l[j]
        BY <1>1, <1>4, <1>5, <2>2 DEF LinkedIn
      <3> QED BY <1>1, <3>1 DEF RangeOf
    <2> QED BY <1>1, <1>5, <2>1, <2>2
  <1> QED BY <1>2, <1>3, <1>6 DEF RangeOf

\* Every server that was on a list runs or has left.
LEMMA ServersKnown ==
    ASSUME Typed, Fresh, [Next]_vars
    PROVE  /\ IsFiniteSet(left') /\ left \subseteq left' /\ up \cup left \subseteq up' \cup left'
           /\ RangeOf(members') \subseteq up' \cup left'
  <1>1. IsFiniteSet(left) /\ RangeOf(members) \subseteq up \cup left
    BY DEF Fresh
  <1>2. members \in Seq(Servers) /\ DOMAIN members = 1 .. Len(members) /\ Len(members) \in Nat
    BY LenProperties DEF Typed, ServersTyped
  <1>3. CASE UNCHANGED <<members, up, left>>
    BY <1>1, <1>3
  <1>4. ASSUME NEW s \in Servers, Join(s) PROVE RangeOf(members') \subseteq RangeOf(members) \cup {s}
    <2>1. PICK l : l = Append(members, s)
      OBVIOUS
    <2>2. /\ DOMAIN l = 1 .. Len(members) + 1 /\ l[Len(members) + 1] = s
          /\ \A i \in 1 .. Len(members) : l[i] = members[i]
      BY <1>2, <2>1, AppendProperties
    <2>3. \A i \in DOMAIN l : i \in DOMAIN members \/ i = Len(members) + 1
      BY <1>2, <2>2
    <2>4. RangeOf(l) \subseteq RangeOf(members) \cup {s}
      BY <1>2, <2>2, <2>3 DEF RangeOf
    <2> QED BY <1>4, <2>1, <2>4 DEF Join
  <1>5. ASSUME NEW s \in Servers, Join(s) \/ Die(s) \/ Unlist(s)
        PROVE  /\ IsFiniteSet(left') /\ left \subseteq left' /\ up \cup left \subseteq up' \cup left'
               /\ RangeOf(members') \subseteq up' \cup left'
    <2>1. CASE Join(s)
      BY <1>1, <1>4, <2>1 DEF Join
    <2>2. CASE Die(s)
      <3>1. left' = left \cup {s} /\ up' = up \ {s} /\ UNCHANGED members
        BY <2>2 DEF Die
      <3>2. IsFiniteSet(left')
        BY <1>1, <3>1, FS_AddElement
      <3> QED BY <1>1, <3>1, <3>2
    <2>3. CASE Unlist(s)
      BY <1>1, <2>3, UnlistIs DEF Unlist
    <2> QED BY <1>5, <2>1, <2>2, <2>3
  <1>6. CASE UNCHANGED vars
    BY <1>3, <1>6 DEF vars, serverVars
  <1>7. \A c \in Clients, s \in Servers : Handle(c, s) => UNCHANGED <<members, up, left>>
    BY DEF Handle
  <1> QED BY <1>3, <1>5, <1>6, <1>7, ClientFrame DEF Next

\* A ring changes when a list has come, for which the client waits.
LEMMA RingsStep ==
    ASSUME Typed, [Next]_vars, NEW c \in Clients
    PROVE  /\ \/ ring'[c] = ring[c]
              \/ pc'[c] = "act" /\ \E l \in Lists :
                    /\ RingServers(ring'[c]) \subseteq RingServers(ring[c]) \cup ListOf(l)
                    /\ RingServers(ring[c]) = ListOf(l) => ring'[c] = ring[c]
           /\ pc[c] = "list" /\ pc'[c] = "act" => \E l \in Lists :
                 /\ l[1] = c /\ ListOf(l) = RangeOf(Head(answers[<<c, asked[c]>>]).val)
                 /\ (\A i, j \in DOMAIN ring[c] :
                       ring[c][i].info \notin ListOf(l) /\ ring[c][j].info \notin ListOf(l) => i = j)
                       => RingServers(ring'[c]) = ListOf(l)
           /\ ring'[c] # ring[c] =>
                 /\ pc[c] = "list" /\ pc'[c] = "act"
                 /\ \E l \in Lists, list \in Seq(Servers), hash \in HashChoices :
                       /\ l[1] = c /\ list # <<>> /\ ListOf(l) = RangeOf(list)
                       /\ ring'[c] = Renew(ring[c], list, hash)
  <1>1. CASE ring'[c] = ring[c] /\ (pc'[c] = pc[c] \/ pc[c] # "list" \/ pc'[c] # "act")
    BY <1>1
  <1>2. CASE ListCome(c)
    <2>1. asked[c] \in Servers /\ RecvMsg(c, asked[c]) /\ pc \in [Clients -> Places]
      BY <1>2 DEF ListCome, Typed, PlaceTyped
    <2>2. PICK q : q = answers[<<c, asked[c]>>]
      OBVIOUS
    <2>3. q \in Seq(Msgs) /\ q # <<>> /\ <<c, asked[c]>> \in Pairs
      BY <2>1, <2>2 DEF Typed, AnswersTyped, Pairs, RecvMsg
    <2>4. 1 \in DOMAIN q /\ Head(q) = q[1] /\ q[1] \in Msgs
      BY <2>3, EmptySeq, LenProperties
    <2>5. PICK m \in Msgs : m = Head(q)
      BY <2>4
    <2>6. CASE m.code # "UPDATE"
      <3>1. UNCHANGED ring /\ pc' = [pc EXCEPT ![c] = IF tries'[c] = 0 THEN "master" ELSE "ask"]
        BY <1>2, <2>2, <2>5, <2>6 DEF ListCome
      <3>2. pc'[c] # "act"
        BY <2>1, <3>1
      <3> QED BY <1>1, <3>1, <3>2
    <2>7. CASE m.code = "UPDATE"
      <3>1. PICK hash \in HashChoices : ring' = [ring EXCEPT ![c] = Renew(@, m.val, hash)]
        BY <1>2, <2>2, <2>5, <2>7 DEF ListCome
      <3>2. pc' = [pc EXCEPT ![c] = "act"]
        BY <1>2, <2>2, <2>5, <2>7 DEF ListCome
      <3>3. m.val \in Seq(Servers) /\ m.val # <<>>
        BY <2>7 DEF Msgs, IsMsg
      <3>4. PICK r : r = ring[c]
        OBVIOUS
      <3>5. r \in Rings /\ r # <<>>
        BY <3>4 DEF Typed, RingsTyped
      <3>6. PICK new : new = Renew(r, m.val, hash)
        OBVIOUS
      <3>7. /\ RingServers(new) \subseteq RingServers(r) \cup RangeOf(m.val)
            /\ (\A i, j \in DOMAIN r :
                  r[i].info \notin RangeOf(m.val) /\ r[j].info \notin RangeOf(m.val) => i = j)
                  => RingServers(new) = RangeOf(m.val)
            /\ RingServers(r) = RangeOf(m.val) => new = r
        BY <3>3, <3>5, <3>6, HashIs, RenewIs
      <3>8. ring'[c] = new /\ pc'[c] = "act"
        BY <2>1, <3>1, <3>2, <3>4, <3>6 DEF Typed, RingsTyped
      <3>9. PICK l : l = <<c, asked[c], 1>>
        OBVIOUS
      <3>10. l \in Lists /\ l[1] = c /\ ListOf(l) = RangeOf(m.val)
        <4>1. l[1] = c /\ l[2] = asked[c] /\ l[3] = 1
          BY <3>9
        <4>2. l \in Clients \X Servers \X Nat
          BY <2>1, <3>9
        <4> QED BY <2>2, <2>4, <2>5, <2>7, <4>1, <4>2 DEF Lists, ListOf
      <3>11. pc[c] = "list"
        BY <1>2 DEF ListCome
      <3>12. \E i \in Lists, list \in Seq(Servers), h \in HashChoices :
               /\ i[1] = c /\ list # <<>> /\ ListOf(i) = RangeOf(list)
               /\ ring'[c] = Renew(ring[c], list, h)
        BY <3>1, <3>3, <3>4, <3>6, <3>8, <3>10
      <3> QED BY <2>2, <2>5, <3>4, <3>7, <3>8, <3>10, <3>11, <3>12
    <2> QED BY <2>6, <2>7
  <1>3. ASSUME ClientStep(c), ~ ListCome(c)
        PROVE  ring'[c] = ring[c] /\ (pc'[c] = pc[c] \/ pc[c] # "list" \/ pc'[c] # "act")
    <2>1. UNCHANGED ring
      BY <1>3 DEF ClientStep, Ask, Killed, ListFails, AskMaster, Act, BackupAnswer, OwnerAnswer,
                  ringVars
    <2>2. CASE ListFails(c)
      <3>1. pc'[c] # "act"
        BY <2>2 DEF ListFails, Typed, PlaceTyped
      <3> QED BY <2>1, <3>1
    <2>3. CASE ~ ListFails(c)
      <3>1. pc[c] # "list" \/ pc'[c] # "act"
        BY <1>3, <2>3 DEF ClientStep, Ask, Killed, AskMaster, Act, BackupAnswer, OwnerAnswer,
                          Typed, PlaceTyped
      <3> QED BY <2>1, <3>1
    <2> QED BY <2>2, <2>3
  <1>4. ASSUME NEW d \in Clients \ {c},
               ClientStep(d) \/ \E op \in {"PUT", "GET", "DELETE"}, k \in Keys : Command(d, op, k)
        PROVE  ring'[c] = ring[c] /\ pc'[c] = pc[c]
    BY <1>4, ClientFrame DEF Frame
  <1>5. ASSUME NEW op \in {"PUT", "GET", "DELETE"}, NEW k \in Keys, Command(c, op, k)
        PROVE  ring'[c] = ring[c] /\ pc[c] # "list"
    BY <1>5 DEF Command
  <1>6. ASSUME NEW d \in Clients, NEW s \in Servers,
               Handle(d, s) \/ Join(s) \/ Die(s) \/ Unlist(s)
        PROVE  ring'[c] = ring[c] /\ pc'[c] = pc[c]
    BY <1>6 DEF Handle, Join, Die, Unlist, clientVars, ringVars
  <1>7. CASE UNCHANGED vars
    BY <1>1, <1>7 DEF vars, ringVars
  <1> QED BY <1>1, <1>2, <1>3, <1>4, <1>5, <1>6, <1>7 DEF Next

LEMMA FreshStep ==
    ASSUME Typed, Fresh, [Next]_vars, world' = world
    PROVE  Fresh'
  <1>1. /\ IsFiniteSet(left') /\ left \subseteq left' /\ up \cup left \subseteq up' \cup left'
        /\ RangeOf(members') \subseteq up' \cup left'
    BY ServersKnown
  <1>2. RangeOf(world.online) \subseteq up \cup left /\ RangeOf(members) \subseteq up \cup left
        /\ up \subseteq RangeOf(members)
    BY DEF Fresh, Typed, ServersTyped
  <1>3. ASSUME NEW c \in Clients PROVE RingServers(ring'[c]) \subseteq up' \cup left'
    <2>1. RingServers(ring[c]) \subseteq up \cup left
      BY DEF Fresh
    <2>2. \/ ring'[c] = ring[c]
          \/ \E l \in Lists : RingServers(ring'[c]) \subseteq RingServers(ring[c]) \cup ListOf(l)
      BY RingsStep
    <2> QED BY <1>1, <2>1, <2>2 DEF Fresh
  <1>4. ASSUME NEW l \in Lists'
        PROVE  /\ ListOf(l)' \subseteq up' \cup left'
               /\ RangeOf(world.online) \subseteq ListOf(l)' \cup left'
    <2>1. PICK L : L = ListOf(l)'
      OBVIOUS
    <2>2. \/ \E k \in Lists : L = ListOf(k)
          \/ L = RangeOf(members)
      BY <1>4, <2>1, ListsStep
    <2>3. L \subseteq up \cup left /\ RangeOf(world.online) \subseteq L \cup left
      BY <1>2, <2>2 DEF Fresh
    <2> QED BY <1>1, <2>1, <2>3
  <1> QED BY <1>1, <1>2, <1>3, <1>4 DEF Fresh

LEMMA InTimeStep ==
    ASSUME Typed, Fresh, InTime, InStep', [Next]_vars, world' = world
    PROVE  InTime'
  <1>1. left \subseteq left' /\ up \subseteq RangeOf(members)
    BY ServersKnown DEF Typed, ServersTyped
  <1>2. ASSUME NEW l \in Lists' PROVE RingServers(ring'[l[1]]) \subseteq ListOf(l)' \cup left'
    <2>1. l[1] \in Clients /\ l[2] \in Servers /\ l[3] \in DOMAIN answers'[<<l[1], l[2]>>]
      BY <1>2 DEF Lists
    <2>2. PICK c \in Clients : c = l[1]
      BY <2>1
    <2>3. PICK L : L = ListOf(l)'
      OBVIOUS
    <2>4. pc'[c] # "act"
      <3>1. SUFFICES ASSUME pc'[c] = "act" PROVE FALSE
        OBVIOUS
      <3>2. Waited(c)' = {}
        BY <3>1 DEF Waited
      <3>3. answers'[<<c, l[2]>>] = <<>>
        BY <2>1, <3>2 DEF InStep, OneWith, Quiet
      <3>4. DOMAIN <<>> = {}
        OBVIOUS
      <3> QED BY <2>1, <2>2, <3>3, <3>4
    <2>5. ring'[c] = ring[c]
      BY <2>4, RingsStep
    <2>6. \/ \E k \in Lists : k[1] = c /\ L = ListOf(k)
          \/ L = RangeOf(members)
      BY <1>2, <2>2, <2>3, ListsStep
    <2>7. RingServers(ring[c]) \subseteq up \cup left
      BY DEF Fresh
    <2>8. RingServers(ring[c]) \subseteq L \cup left
      BY <1>1, <2>6, <2>7 DEF InTime
    <2> QED BY <1>1, <2>2, <2>3, <2>5, <2>8
  <1> QED BY <1>2 DEF InTime

LEMMA OneLeft ==
    ASSUME IsFiniteSet(left), Cardinality(left) < 2
    PROVE  \A x, y \in left : x = y
  <1>1. IsFiniteSet(left) /\ Cardinality(left) \in Nat
    BY FS_CardinalityType
  <1>2. ASSUME NEW x \in left, NEW y \in left, x # y PROVE FALSE
    <2>1. /\ IsFiniteSet(left \ {x}) /\ Cardinality(left \ {x}) = Cardinality(left) - 1
      BY <1>1, FS_RemoveElement
    <2>2. Cardinality(left \ {x}) = 0
      BY <1>1, <2>1, FS_CardinalityType
    <2> QED BY <1>2, <2>1, <2>2, FS_EmptySet
  <1> QED BY <1>2

\* A ring that has been renewed has the servers of the list that came and no others,
\* though the loop that removes skips nodes, as long as no two servers have left and
\* the list is not older than the ring (dbclient.c:141-198).
THEOREM RingsFollow == Spec => RingFollowsList
  <1> DEFINE IInv == Typed /\ Fresh /\ (world.slow = {} => InStep /\ InTime)
             Follows(c) ==
                 pc[c] = "list" /\ pc'[c] = "act" /\ Cardinality(left) < 2
                     /\ (Joined = {} \/ world.slow = {}) =>
                    RingServers(ring'[c]) = RangeOf(Head(answers[<<c, asked[c]>>]).val)
  <1>1. Init => IInv
    BY InitTyped, InitInStep, InitFresh
  <1>2. IInv /\ [Next]_vars => IInv'
    <2> SUFFICES ASSUME IInv, [Next]_vars PROVE IInv'
      OBVIOUS
    <2>1. Typed' /\ world' = world
      BY TypedStep
    <2>2. Fresh'
      BY <2>1, FreshStep
    <2>3. world.slow = {} => InStep' /\ InTime'
      BY <2>1, InStepStep, InTimeStep
    <2> QED BY <2>1, <2>2, <2>3
  <1>3. IInv /\ [Next]_vars => \A c \in Clients : Follows(c)
    <2> SUFFICES ASSUME IInv, [Next]_vars, NEW c \in Clients,
                        pc[c] = "list", pc'[c] = "act", Cardinality(left) < 2,
                        Joined = {} \/ world.slow = {}
                 PROVE  RingServers(ring'[c]) = RangeOf(Head(answers[<<c, asked[c]>>]).val)
      OBVIOUS
    <2>2. PICK l \in Lists :
             /\ l[1] = c /\ ListOf(l) = RangeOf(Head(answers[<<c, asked[c]>>]).val)
             /\ (\A i, j \in DOMAIN ring[c] :
                   ring[c][i].info \notin ListOf(l) /\ ring[c][j].info \notin ListOf(l) => i = j)
                   => RingServers(ring'[c]) = ListOf(l)
      BY RingsStep
    <2>3. RingServers(ring[c]) \subseteq ListOf(l) \cup left
      <3>1. CASE world.slow = {}
        BY <2>2, <3>1 DEF InTime
      <3>2. CASE Joined = {}
        BY <2>2, <3>2 DEF Fresh, Joined
      <3> QED BY <3>1, <3>2
    <2>4. \A x, y \in left : x = y
      BY OneLeft DEF Fresh
    <2>5. ASSUME NEW i \in DOMAIN ring[c], NEW j \in DOMAIN ring[c],
                 ring[c][i].info \notin ListOf(l), ring[c][j].info \notin ListOf(l)
          PROVE  i = j
      <3>1. ring[c][i].info \in left /\ ring[c][j].info \in left
        BY <2>3, <2>5 DEF RingServers
      <3> QED BY <2>4, <2>5, <3>1 DEF Typed, RingsTyped, Single
    <2> QED BY <2>2, <2>5
  <1> HIDE DEF IInv
  <1>4. IInv /\ [Next]_vars => [\A c \in Clients : Follows(c)]_vars
    BY <1>3
  <1> QED BY <1>1, <1>2, <1>4, PTL DEF Spec, RingFollowsList

-----------------------------------------------------------------------------
(* The two copies of a record.                                             *)

\* No server has come or gone.
SameServers == left = {} /\ Joined = {}

\* A client has every server in its ring and a socket to it.
Settled ==
    SameServers => \A c \in Clients : RingServers(ring[c]) = up /\ up \subseteq conn[c]

\* What the file of a server will hold once it has handled what a client has sent it.
Effect(q, k, v) ==
    IF q = <<>> \/ q[1].op \notin {"PUT", "DELETE"} \/ q[1].key # k THEN v
    ELSE IF q[1].op = "PUT" THEN q[1].val ELSE None
Coming(c, s, k) == Effect(requests[<<c, s>>], k, file[s][k])

Copied(c) ==
    \A k \in Keys :
        LET n == ConhashGetNodeAfter(ring[c], k, 1)
        IN  n # NULL => Coming(c, n.info, k) = Coming(c, ConhashGetNode(ring[c], k).info, k)

\* No socket is ever closed.
LEMMA SocketsKept ==
    ASSUME Typed, [Next]_vars, NEW c \in Clients
    PROVE  conn[c] \subseteq conn'[c]
  <1>1. CASE UNCHANGED conn
    BY <1>1
  <1>2. ASSUME NEW d \in Clients, ListCome(d) PROVE conn[c] \subseteq conn'[c]
    BY <1>2 DEF ListCome, Typed, SocketsTyped
  <1>3. UNCHANGED conn \/ \E d \in Clients : ListCome(d)
    BY DEF Next, Command, ClientStep, Ask, Killed, ListFails, AskMaster, Act, BackupAnswer,
           OwnerAnswer, Handle, Join, Die, Unlist, clientVars, netVars, vars
  <1> QED BY <1>1, <1>2, <1>3

\* While no server comes or goes, every list is that of the servers there are, and a
\* renewed ring is the one before.
LEMMA SameStep ==
    ASSUME Typed, Fresh, Fresh', Settled, [Next]_vars, world' = world, SameServers'
    PROVE  /\ SameServers /\ up' = up
           /\ \A c \in Clients : ring'[c] = ring[c] /\ conn[c] \subseteq conn'[c]
  <1>1. RangeOf(world.online) \subseteq up \cup left
    BY DEF Fresh
  <1>2. left \subseteq left' /\ up \cup left \subseteq up' \cup left'
    BY ServersKnown
  <1>3. left = {} /\ left' = {} /\ up = RangeOf(world.online) /\ up' = RangeOf(world.online)
    BY <1>1, <1>2 DEF Fresh, SameServers, Joined
  <1>4. SameServers
    BY <1>3 DEF SameServers, Joined
  <1>5. ASSUME NEW c \in Clients PROVE ring'[c] = ring[c]
    <2>1. RingServers(ring[c]) = up
      BY <1>4 DEF Settled
    <2>2. \A l \in Lists : ListOf(l) = up
      BY <1>3 DEF Fresh
    <2> QED BY <2>1, <2>2, RingsStep
  <1>6. \A c \in Clients : conn[c] \subseteq conn'[c]
    BY SocketsKept
  <1> QED BY <1>3, <1>4, <1>5, <1>6

LEMMA InitSettled == Init => Settled
  <1> SUFFICES ASSUME Init, NEW c \in Clients
               PROVE  RingServers(ring[c]) = up /\ up \subseteq conn[c]
    BY DEF Settled
  <1>1. PICK h \in HashChoices : ring[c] = AddAll(<<>>, world.online, h)
    BY DEF Init
  <1>2. world.online \in Seq(Servers)
    BY WorldIs DEF Init
  <1>3. RingServers(ring[c]) = RingServers(<<>>) \cup RangeOf(world.online)
    BY <1>1, <1>2, HashIs, EmptySeq, AddAllIs DEF Rings
  <1>4. RingServers(<<>>) = {}
    BY DEF RingServers
  <1> QED BY <1>3, <1>4 DEF Init

LEMMA SettledStep ==
    ASSUME Typed, Fresh, Fresh', Settled, [Next]_vars, world' = world
    PROVE  Settled'
  <1>1. CASE ~ SameServers'
    BY <1>1 DEF Settled
  <1>2. CASE SameServers'
    <2>1. /\ SameServers /\ up' = up
          /\ \A c \in Clients : ring'[c] = ring[c] /\ conn[c] \subseteq conn'[c]
      BY <1>2, SameStep
    <2> QED BY <2>1 DEF Settled
  <1> QED BY <1>1, <1>2

\* A server that handles the request of a client has then what was coming.
LEMMA HandleComing ==
    ASSUME Typed, NEW c \in Clients, NEW s \in Servers, OneWith(c), Handle(c, s)
    PROVE  \A t \in Servers, k \in Keys : Coming(c, t, k)' = Coming(c, t, k)
  <1>1. PICK r \in Requests :
           /\ DOMAIN requests[<<c, s>>] = {1} /\ r = requests[<<c, s>>][1]
           /\ requests' = [requests EXCEPT ![<<c, s>>] = <<>>]
           /\ file' = [file EXCEPT ![s] =
                         CASE r.op = "PUT"    -> PutKeyValue(@, r.key, r.val)
                           [] r.op = "DELETE" -> DelKeyValue(@, r.key)
                           [] OTHER           -> @]
    BY HandleOne
  <1>2. file \in [Servers -> [Keys -> Values \cup {None}]]
    BY DEF Typed, ServersTyped
  <1>3. \A t \in Servers : <<c, t>> \in Pairs /\ (t # s => <<c, t>> # <<c, s>>)
    BY DEF Pairs
  <1>4. ASSUME NEW t \in Servers, t # s, NEW k \in Keys
        PROVE  requests'[<<c, t>>] = requests[<<c, t>>] /\ file'[t][k] = file[t][k]
    BY <1>1, <1>2, <1>3, <1>4 DEF Typed, RequestsTyped
  <1>5. requests'[<<c, s>>] = <<>> /\ requests[<<c, s>>] # <<>>
    <2>1. requests'[<<c, s>>] = <<>>
      BY <1>1, <1>3 DEF Typed, RequestsTyped
    <2>2. DOMAIN <<>> = {}
      OBVIOUS
    <2> QED BY <1>1, <2>1, <2>2
  <1>6. ASSUME NEW k \in Keys
        PROVE  file'[s][k] = IF r.op \notin {"PUT", "DELETE"} \/ r.key # k THEN file[s][k]
                             ELSE IF r.op = "PUT" THEN r.val ELSE None
    BY <1>1, <1>2 DEF PutKeyValue, DelKeyValue
  <1>7. ASSUME NEW k \in Keys PROVE Coming(c, s, k)' = Coming(c, s, k)
    BY <1>1, <1>5, <1>6 DEF Coming, Effect
  <1>8. ASSUME NEW t \in Servers, t # s, NEW k \in Keys PROVE Coming(c, t, k)' = Coming(c, t, k)
    BY <1>4, <1>8 DEF Coming
  <1> QED BY <1>7, <1>8

\* What is coming once a client that nothing is on its way to has sent a request.
LEMMA SendComing ==
    ASSUME Typed, NEW c \in Clients, \A s \in Servers : Quiet(c, s),
           NEW S, NEW r \in Requests, SendMsg(c, S, r), UNCHANGED <<answers, file>>
    PROVE  \A s \in Servers, k \in Keys :
              /\ Coming(c, s, k) = file[s][k]
              /\ Coming(c, s, k)' = IF s \in S \cap conn[c] \cap up
                                    THEN Effect(<<r>>, k, file[s][k]) ELSE file[s][k]
  <1>1. ASSUME NEW s \in Servers
        PROVE  /\ requests[<<c, s>>] = <<>>
               /\ requests'[<<c, s>>] = IF s \in S \cap conn[c] \cap up THEN <<r>> ELSE <<>>
    BY SendOne DEF Quiet
  <1>2. \A k, v : Effect(<<>>, k, v) = v
    BY DEF Effect
  <1> QED BY <1>1, <1>2 DEF Coming

\* A step of the only client, or of a server, leaves the copies of a record the
\* same once what was sent has been handled.
LEMMA CopiedStep ==
    ASSUME Typed, Fresh, Fresh', Settled, InStep, [Next]_vars, world' = world, SameServers',
           NEW c \in Clients, \A d \in Clients : d = c, Copied(c)
    PROVE  Copied(c)'
  <1>1. /\ SameServers /\ up' = up /\ ring'[c] = ring[c] /\ OneWith(c)
        /\ RingServers(ring[c]) = up /\ up \subseteq conn[c] /\ up \subseteq Servers
    BY SameStep DEF Settled, InStep, Typed, ServersTyped
  <1>2. PICK r : r = ring[c]
    OBVIOUS
  <1>3. r \in Rings /\ r # <<>>
    BY <1>2 DEF Typed, RingsTyped
  <1> DEFINE First(k) == ConhashGetNode(r, k).info
             Second(k) == ConhashGetNodeAfter(r, k, 1)
  <1>4. \A k : First(k) \in up /\ (Second(k) # NULL => Second(k).info \in up)
    BY <1>1, <1>2, <1>3, NodesOfRing
  <1>5. \A k \in Keys : Second(k) # NULL => Coming(c, Second(k).info, k) = Coming(c, First(k), k)
    BY <1>2 DEF Copied
  <1>6. SUFFICES ASSUME NEW k \in Keys, Second(k) # NULL, NEW s \in up, s = First(k),
                        NEW t \in up, t = Second(k).info
                 PROVE  Coming(c, t, k)' = Coming(c, s, k)'
    BY <1>1, <1>2, <1>4 DEF Copied
  <1>7. Coming(c, t, k) = Coming(c, s, k) /\ s \in Servers /\ t \in Servers
    BY <1>1, <1>5, <1>6
  <1>8. CASE /\ Coming(c, s, k)' = Coming(c, s, k)
             /\ Coming(c, t, k)' = Coming(c, t, k)
    BY <1>7, <1>8
  <1>9. CASE UNCHANGED <<requests, file>>
    <2>1. Coming(c, s, k)' = Coming(c, s, k) /\ Coming(c, t, k)' = Coming(c, t, k)
      BY <1>9 DEF Coming
    <2> QED BY <1>8, <2>1
  <1>10. ASSUME NEW d \in Clients, NEW u \in Servers, Handle(d, u)
         PROVE  Coming(c, t, k)' = Coming(c, s, k)'
    <2>1. Handle(c, u)
      BY <1>10
    <2> QED BY <1>1, <1>7, <1>8, <2>1, HandleComing
  <1>11. CASE Ask(c)
    <2>1. \A u \in Servers : Quiet(c, u)
      BY <1>1, <1>11, NoneWaited DEF Ask
    <2>2. PICK S : SendMsg(c, S, Req("LIST", None, None)) /\ UNCHANGED <<answers, file>>
      BY <1>11 DEF Ask, serverVars
    <2>3. PICK m \in Requests : m = Req("LIST", None, None)
      BY DEF Requests, Req
    <2>4. m.op = "LIST"
      BY <2>3 DEF Req
    <2>5. \A v : Effect(<<m>>, k, v) = v
      BY <2>4 DEF Effect
    <2> QED BY <1>7, <1>8, <2>1, <2>2, <2>3, <2>5, SendComing
  <1>12. CASE Act(c)
    <2>1. \A u \in Servers : Quiet(c, u)
      BY <1>1, <1>12, NoneWaited DEF Act
    <2>2. PICK m \in Requests : m = cmd[c] /\ m.key \in Keys /\ m.op # "LIST"
      BY <1>12 DEF Act, Typed, PlaceTyped, Commands, Requests
    <2>3. PICK S : S = {Owner(c)} \cup Backup(c)
      OBVIOUS
    <2>4. SendMsg(c, S, m) /\ UNCHANGED <<answers, file>>
      BY <1>12, <2>2, <2>3 DEF Act, serverVars
    <2>5. \A u \in {s, t} : /\ Coming(c, u, k) = file[u][k]
                            /\ Coming(c, u, k)' = IF u \in S \cap conn[c] \cap up
                                                  THEN Effect(<<m>>, k, file[u][k]) ELSE file[u][k]
      BY <1>7, <2>1, <2>2, <2>4, SendComing
    <2>6. CASE m.op \notin {"PUT", "DELETE"} \/ m.key # k
      <3>1. \A v : Effect(<<m>>, k, v) = v
        BY <2>6 DEF Effect
      <3> QED BY <1>7, <2>5, <3>1
    <2>7. CASE m.op \in {"PUT", "DELETE"} /\ m.key = k
      <3>1. Owner(c) = s
        BY <1>2, <1>6, <2>2, <2>7 DEF Owner, First
      <3>2. t \in Backup(c)
        BY <1>2, <1>6, <2>2, <2>7 DEF Backup, Second
      <3>3. s \in S \cap conn[c] \cap up /\ t \in S \cap conn[c] \cap up
        BY <1>1, <2>3, <3>1, <3>2
      <3>4. \A v, w : Effect(<<m>>, k, v) = Effect(<<m>>, k, w)
        BY <2>7 DEF Effect
      <3> QED BY <2>5, <3>3, <3>4
    <2> QED BY <2>6, <2>7
  <1>13. ASSUME NEW u \in Servers, Join(u) \/ Die(u) \/ Unlist(u)
         PROVE  UNCHANGED <<requests, file>>
    <2>1. Unlist(u)
      BY <1>1, <1>13 DEF Join, Die
    <2> QED BY <2>1 DEF Unlist
  <1>14. ASSUME NEW d \in Clients, ClientStep(d), ~ Ask(c), ~ Act(c)
         PROVE  UNCHANGED <<requests, file>>
    <2>1. ClientStep(c)
      BY <1>14
    <2> QED BY <1>14, <2>1 DEF ClientStep, Killed, ListCome, ListFails, AskMaster, BackupAnswer,
                               OwnerAnswer, netVars, serverVars
  <1>15. \A d \in Clients, op \in {"PUT", "GET", "DELETE"}, l \in Keys :
            Command(d, op, l) => UNCHANGED <<requests, file>>
    BY DEF Command, netVars, serverVars
  <1>16. CASE UNCHANGED vars
    BY <1>9, <1>16 DEF vars, netVars, serverVars
  <1> QED BY <1>9, <1>10, <1>11, <1>12, <1>13, <1>14, <1>15, <1>16 DEF Next

LEMMA InitCopied == Init => \A c \in Clients : Copied(c)
  <1> SUFFICES ASSUME Init, NEW c \in Clients PROVE Copied(c)
    OBVIOUS
  <1>1. PICK r : r = ring[c]
    OBVIOUS
  <1>2. r \in Rings /\ r # <<>>
    BY <1>1, InitTyped DEF Typed, RingsTyped
  <1>3. RingServers(r) \subseteq Servers
    BY <1>2, RingIs DEF RingServers
  <1>4. ASSUME NEW s \in Servers, NEW k \in Keys PROVE Coming(c, s, k) = None
    <2>1. requests[<<c, s>>] = <<>> /\ file[s][k] = None
      BY DEF Init, Pairs
    <2> QED BY <2>1 DEF Coming, Effect
  <1>5. \A k \in Keys : LET n == ConhashGetNodeAfter(r, k, 1)
                        IN  ConhashGetNode(r, k).info \in Servers
                            /\ (n # NULL => n.info \in Servers)
    BY <1>2, <1>3, NodesOfRing
  <1> QED BY <1>1, <1>4, <1>5 DEF Copied

\* While no server comes or goes and none is slow, a put or delete of the only client
\* leaves both copies of a record the same, the one at the owner of the key and the one
\* at the next server (dbclient.c:280-299, 333-350).
THEOREM CopiesAgree ==
    ASSUME \A c, d \in Clients : c = d
    PROVE  Spec => []TwoCopies
  <1> DEFINE Settling == Typed /\ Fresh /\ Settled
             Going == InStep /\ (SameServers => \A c \in Clients : Copied(c))
             IInv == Settling /\ (world.slow = {} => Going)
  <1>1. Init => IInv
    BY InitTyped, InitFresh, InitSettled, InitInStep, InitCopied
  <1>2. IInv /\ [Next]_vars => IInv'
    <2> SUFFICES ASSUME IInv, [Next]_vars PROVE IInv'
      OBVIOUS
    <2>1. Typed' /\ world' = world
      BY TypedStep
    <2>2. Fresh'
      BY <2>1, FreshStep
    <2>3. Settled'
      BY <2>1, <2>2, SettledStep
    <2>4. ASSUME world.slow = {} PROVE Going'
      <3>1. InStep'
        BY <2>4, InStepStep
      <3>2. ASSUME SameServers', NEW c \in Clients PROVE Copied(c)'
        <4>1. SameServers
          BY <2>1, <2>2, <3>2, SameStep
        <4>2. Copied(c) /\ InStep /\ \A d \in Clients : d = c
          BY <2>4, <4>1
        <4> QED BY <2>1, <2>2, <3>2, <4>2, CopiedStep
      <3> QED BY <3>1, <3>2
    <2> QED BY <2>1, <2>2, <2>3, <2>4
  <1>3. IInv => TwoCopies
    <2> SUFFICES ASSUME IInv, left = {}, Joined = {}, world.slow = {},
                        \A c \in Clients : Idle(c),
                        NEW c \in Clients, NEW k \in Keys,
                        NEW n, n = ConhashGetNodeAfter(ring[c], k, 1), n # NULL
                 PROVE  file[n.info][k] = file[ConhashGetNode(ring[c], k).info][k]
      BY DEF TwoCopies
    <2>1. InStep /\ SameServers /\ Copied(c)
      BY DEF SameServers
    <2>2. PICK r : r = ring[c]
      OBVIOUS
    <2>3. r \in Rings /\ r # <<>>
      BY <2>2 DEF Typed, RingsTyped
    <2>4. RingServers(r) \subseteq Servers
      BY <2>3, RingIs DEF RingServers
    <2>5. PICK s \in Servers : s = ConhashGetNode(r, k).info
      BY <2>3, <2>4, NodesOfRing
    <2>6. PICK t \in Servers : t = n.info
      BY <2>2, <2>3, <2>4, NodesOfRing
    <2>7. \A u \in Servers : requests[<<c, u>>] = <<>>
      BY <2>1, NoneWaited DEF InStep, Idle, Quiet
    <2>8. Coming(c, s, k) = file[s][k] /\ Coming(c, t, k) = file[t][k]
      BY <2>7 DEF Coming, Effect
    <2>9. Coming(c, t, k) = Coming(c, s, k)
      BY <2>1, <2>2, <2>5, <2>6 DEF Copied
    <2> QED BY <2>2, <2>5, <2>6, <2>8, <2>9
  <1> HIDE DEF IInv
  <1> QED BY <1>1, <1>2, <1>3, PTL DEF Spec

-----------------------------------------------------------------------------
(* What a get tells.                                                       *)

\* No server has joined or is slow, and at most one has died.
FewGone == Joined = {} /\ world.slow = {} /\ \A s, t \in left : s = t

\* Nodes are sorted by distinct ids; the servers that are listed are in every ring
\* and on every list on its way, and a list tells no server that the ring has not.
Abreast ==
    /\ up \cap left = {}
    /\ \A c \in Clients :
          /\ Sorted(ring[c]) /\ up \subseteq conn[c]
          /\ RangeOf(members) \subseteq RingServers(ring[c])
    /\ \A l \in Lists :
          RangeOf(members) \subseteq ListOf(l) /\ ListOf(l) \subseteq RingServers(ring[l[1]])

\* The servers whose record a get may read from now on: the owner, and the next
\* server as long as it may become the owner, or is while the owner is not known
\* to have died.
First(c, k) == ConhashGetNode(ring[c], k).info
Second(c, k) ==
    LET n == ConhashGetNodeAfter(ring[c], k, 1) IN IF n = NULL THEN {} ELSE {n.info}
Keepers(c, k) ==
    IF left # {} /\ First(c, k) \in up THEN {First(c, k)}
    ELSE ({First(c, k)} \cup Second(c, k)) \cap up

\* What their records are to hold once what was sent has been handled.
Writes(c, k) == pc[c] \in {"backup", "owner"} /\ cmd[c].op \in {"PUT", "DELETE"} /\ cmd[c].key = k
Written(c) == IF cmd[c].op = "PUT" THEN cmd[c].val ELSE None
Due(c, k) == IF Writes(c, k) THEN {Written(c)} ELSE may[k]
KeptWell(c) == \A k \in Keys : \A s \in Keepers(c, k) : Coming(c, s, k) \in Due(c, k)

\* What a user who gets a record is told, or will be.
Right(m, k) == (m.code = "GET_OK" => m.val \in may[k]) /\ (m.code = "ERROR" => None \in may[k])
GetsRight(c) ==
    cmd[c].op = "GET" =>
        /\ pc[c] # "idle" => buffer[c] = Silent /\ pc[c] # "backup"
        /\ pc[c] = "idle" => Right(said[c], cmd[c].key)
        /\ pc[c] = "owner" => \A s \in Servers : \A i \in DOMAIN answers[<<c, s>>] :
              Right(answers[<<c, s>>][i], cmd[c].key)

\* Servers only go.
LEMMA FewStep ==
    ASSUME Typed, Fresh, [Next]_vars, world' = world, FewGone'
    PROVE  /\ FewGone /\ up' \subseteq up /\ RangeOf(members') \subseteq RangeOf(members)
           /\ UNCHANGED <<up, left>> \/ \E s \in Servers : Die(s)
  <1>1. left \subseteq left' /\ up \cup left \subseteq up' \cup left'
    BY ServersKnown
  <1>2. FewGone
    BY <1>1 DEF FewGone, Joined
  <1>3. ASSUME NEW s \in Servers PROVE ~ Join(s)
    <2>1. SUFFICES ASSUME Join(s) PROVE FALSE
      OBVIOUS
    <2>2. s \notin RangeOf(world.online)
      BY <2>1 DEF Join, Fresh
    <2>3. s \in up'
      BY <2>1 DEF Join
    <2> QED BY <2>2, <2>3 DEF FewGone, Joined
  <1>4. CASE UNCHANGED <<members, up, left>>
    BY <1>2, <1>4
  <1>5. ASSUME NEW s \in Servers, Die(s) \/ Unlist(s)
        PROVE  /\ up' \subseteq up /\ RangeOf(members') \subseteq RangeOf(members)
               /\ UNCHANGED <<up, left>> \/ \E t \in Servers : Die(t)
    <2>1. CASE Die(s)
      BY <2>1 DEF Die
    <2>2. CASE Unlist(s)
      BY <2>2, UnlistIs DEF Unlist
    <2> QED BY <1>5, <2>1, <2>2
  <1>6. CASE UNCHANGED vars
    BY <1>4, <1>6 DEF vars, serverVars
  <1>7. \A c \in Clients, s \in Servers : Handle(c, s) => UNCHANGED <<members, up, left>>
    BY DEF Handle
  <1> QED BY <1>2, <1>3, <1>4, <1>5, <1>6, <1>7, ClientFrame DEF Next

\* A ring that is renewed may lose the node of the server that has died, and keeps
\* those of all that are listed.
LEMMA RingLess ==
    ASSUME Typed, InTime, Abreast, FewGone, [Next]_vars, NEW c \in Clients
    PROVE  /\ RangeOf(members) \subseteq RingServers(ring'[c])
           /\ \/ ring'[c] = ring[c]
              \/ \E p \in DOMAIN ring[c] :
                    ring[c][p].info \in left /\ ring'[c] = RemoveAt(ring[c], p)
  <1>1. CASE ring'[c] = ring[c]
    BY <1>1 DEF Abreast
  <1>2. CASE ring'[c] # ring[c]
    <2>1. PICK l \in Lists, list \in Seq(Servers), hash \in HashChoices :
             /\ l[1] = c /\ list # <<>> /\ ListOf(l) = RangeOf(list)
             /\ ring'[c] = Renew(ring[c], list, hash)
      BY <1>2, RingsStep
    <2>2. PICK r : r = ring[c]
      OBVIOUS
    <2>3. r \in Rings /\ r # <<>> /\ Single(r)
      BY <2>2 DEF Typed, RingsTyped
    <2>4. RingServers(r) \subseteq RangeOf(list) \cup left
      BY <2>1, <2>2 DEF InTime
    <2>5. RangeOf(members) \subseteq RangeOf(list) /\ RangeOf(list) \subseteq RingServers(r)
      BY <2>1, <2>2 DEF Abreast
    <2>6. \A i \in DOMAIN r : r[i].info \notin RangeOf(list) => r[i].info \in left
      BY <2>4 DEF RingServers
    <2>7. \A i, j \in DOMAIN r :
             r[i].info \notin RangeOf(list) /\ r[j].info \notin RangeOf(list) => i = j
      BY <2>3, <2>6 DEF FewGone, Single
    <2>8. PICK new : new = Renew(r, list, hash)
      OBVIOUS
    <2>9. RingServers(new) = RangeOf(list) /\ Less(r, list, new)
      BY <2>1, <2>3, <2>5, <2>7, <2>8, HashIs, RenewIs
    <2> QED BY <2>1, <2>2, <2>5, <2>6, <2>8, <2>9 DEF Less
  <1> QED BY <1>1, <1>2

LEMMA AbreastStep ==
    ASSUME Typed, Typed', Fresh, InTime, InStep', Abreast, [Next]_vars, world' = world, FewGone'
    PROVE  Abreast'
  <1>1. /\ FewGone /\ up' \subseteq up /\ RangeOf(members') \subseteq RangeOf(members)
        /\ UNCHANGED <<up, left>> \/ \E s \in Servers : Die(s)
    BY FewStep
  <1>2. up' \cap left' = {}
    BY <1>1 DEF Abreast, Die
  <1>3. ASSUME NEW c \in Clients
        PROVE  /\ Sorted(ring'[c]) /\ up' \subseteq conn'[c]
               /\ RangeOf(members') \subseteq RingServers(ring'[c])
    <2>1. /\ RangeOf(members) \subseteq RingServers(ring'[c])
          /\ \/ ring'[c] = ring[c]
             \/ \E p \in DOMAIN ring[c] : ring'[c] = RemoveAt(ring[c], p)
      BY <1>1, RingLess
    <2>2. ring[c] \in Rings /\ Sorted(ring[c])
      BY DEF Typed, RingsTyped, Abreast
    <2>3. Sorted(ring'[c])
      BY <2>1, <2>2, RemoveSorted
    <2>4. up' \subseteq conn'[c]
      BY <1>1, SocketsKept DEF Abreast
    <2> QED BY <1>1, <2>1, <2>3, <2>4
  <1>4. ASSUME NEW l \in Lists'
        PROVE  RangeOf(members') \subseteq ListOf(l)' /\ ListOf(l)' \subseteq RingServers(ring'[l[1]])
    <2>1. l[1] \in Clients /\ l[2] \in Servers /\ l[3] \in DOMAIN answers'[<<l[1], l[2]>>]
      BY <1>4 DEF Lists
    <2>2. PICK c \in Clients : c = l[1]
      BY <2>1
    <2>3. PICK L : L = ListOf(l)'
      OBVIOUS
    <2>4. pc'[c] # "act"
      <3>1. SUFFICES ASSUME pc'[c] = "act" PROVE FALSE
        OBVIOUS
      <3>2. Waited(c)' = {}
        BY <3>1 DEF Waited
      <3>3. answers'[<<c, l[2]>>] = <<>>
        BY <2>1, <3>2 DEF InStep, OneWith, Quiet
      <3>4. DOMAIN <<>> = {}
        OBVIOUS
      <3> QED BY <2>1, <2>2, <3>3, <3>4
    <2>5. ring'[c] = ring[c]
      BY <2>4, RingsStep
    <2>6. \/ \E k \in Lists : k[1] = c /\ L = ListOf(k)
          \/ L = RangeOf(members)
      BY <1>4, <2>2, <2>3, ListsStep
    <2>7. RangeOf(members) \subseteq L /\ L \subseteq RingServers(ring[c])
      BY <2>6 DEF Abreast
    <2> QED BY <1>1, <2>2, <2>3, <2>5, <2>7
  <1> QED BY <1>2, <1>3, <1>4 DEF Abreast

\* The owner and the next server of a key.
LEMMA OwnersOfRing ==
    ASSUME Typed, Fresh, NEW c \in Clients, NEW k
    PROVE  /\ First(c, k) \in RingServers(ring[c]) /\ Second(c, k) \subseteq RingServers(ring[c])
           /\ RingServers(ring[c]) \subseteq up \cup left /\ up \subseteq Servers
           /\ Keepers(c, k) \subseteq up \cap ({First(c, k)} \cup Second(c, k))
  <1>1. PICK r : r = ring[c]
    OBVIOUS
  <1>2. r \in Rings /\ r # <<>>
    BY <1>1 DEF Typed, RingsTyped
  <1>3. First(c, k) \in RingServers(r) /\ Second(c, k) \subseteq RingServers(r)
    BY <1>1, <1>2, NodesOfRing DEF First, Second
  <1>4. RingServers(ring[c]) \subseteq up \cup left /\ up \subseteq Servers
    BY DEF Fresh, Typed, ServersTyped
  <1> QED BY <1>1, <1>3, <1>4 DEF Keepers

\* A server dies whose next server becomes the owner, or a client takes its node off
\* its ring: no other server becomes one whose record may be read.
LEMMA KeepersStep ==
    ASSUME Typed, Typed', Fresh, InTime, Abreast, Abreast', [Next]_vars, world' = world, FewGone',
           NEW c \in Clients, NEW k \in Keys
    PROVE  Keepers(c, k)' \subseteq Keepers(c, k)
  <1>1. /\ FewGone /\ up' \subseteq up /\ left \subseteq left'
        /\ UNCHANGED <<up, left>> \/ \E s \in Servers : Die(s)
    BY FewStep, ServersKnown
  <1>2. CASE ring'[c] = ring[c]
    <2>1. First(c, k)' = First(c, k) /\ Second(c, k)' = Second(c, k)
      BY <1>2 DEF First, Second
    <2>2. CASE UNCHANGED <<up, left>>
      BY <2>1, <2>2 DEF Keepers
    <2>3. ASSUME NEW s \in Servers, Die(s) PROVE Keepers(c, k)' \subseteq Keepers(c, k)
      <3>1. s \in up /\ left' = left \cup {s} /\ up' \subseteq up
        BY <2>3 DEF Die
      <3>2. left = {}
        BY <1>1, <3>1 DEF FewGone, Abreast
      <3> QED BY <2>1, <3>1, <3>2 DEF Keepers
    <2> QED BY <1>1, <2>2, <2>3
  <1>3. ASSUME NEW p \in DOMAIN ring[c], ring[c][p].info \in left,
               ring'[c] = RemoveAt(ring[c], p)
        PROVE  Keepers(c, k)' \subseteq Keepers(c, k)
    <2>1. PICK r : r = ring[c]
      OBVIOUS
    <2>2. PICK x \in left : x = r[p].info
      BY <1>3, <2>1
    <2>3. PICK o : o = ConhashGetNode(r, k)
      OBVIOUS
    <2>4. PICK n : n = ConhashGetNodeAfter(r, k, 1)
      OBVIOUS
    <2>5. r \in Rings /\ Single(r) /\ Sorted(r) /\ p \in DOMAIN r /\ k \in Int
      BY <1>3, <2>1, ClusterAssumption DEF Typed, RingsTyped, Abreast
    <2>6. ring'[c] = RemoveAt(r, p) /\ RemoveAt(r, p) # <<>>
      BY <1>3, <2>1 DEF Typed, RingsTyped
    <2>7. /\ o.info # x => ConhashGetNode(RemoveAt(r, p), k) = o
          /\ o.info = x => /\ n # NULL /\ n.info # x
                           /\ ConhashGetNode(RemoveAt(r, p), k) = n
      BY <2>2, <2>3, <2>4, <2>5, <2>6, OwnerGone
    <2>8. /\ First(c, k) = o.info /\ First(c, k)' = ConhashGetNode(RemoveAt(r, p), k).info
          /\ n # NULL => Second(c, k) = {n.info}
      BY <2>1, <2>3, <2>4, <2>6 DEF First, Second
    <2>9. \A s \in RingServers(ring[c]) : s # x => s \in up
      BY <1>1, OwnersOfRing DEF FewGone
    <2>10. left' # {} /\ x \notin up
      BY <1>1, <2>2 DEF Abreast
    <2>11. CASE UNCHANGED <<up, left>>
      <3>1. CASE o.info # x
        <4>1. o.info \in up
          BY <2>8, <2>9, <3>1, OwnersOfRing
        <4> QED BY <2>7, <2>8, <2>11, <3>1, <4>1 DEF Keepers
      <3>2. CASE o.info = x
        <4>1. n.info \in up
          BY <2>7, <2>8, <2>9, <3>2, OwnersOfRing
        <4>2. First(c, k)' = n.info /\ n.info \in Keepers(c, k)
          BY <2>7, <2>8, <2>10, <3>2, <4>1 DEF Keepers
        <4>3. Keepers(c, k)' = {n.info}
          BY <2>10, <2>11, <4>1, <4>2 DEF Keepers
        <4> QED BY <4>2, <4>3
      <3> QED BY <3>1, <3>2
    <2>12. ASSUME NEW s \in Servers, Die(s) PROVE FALSE
      <3>1. s \in up /\ s \in left' /\ x \in left'
        BY <2>12 DEF Die
      <3> QED BY <2>10, <3>1 DEF FewGone
    <2> QED BY <1>1, <2>11, <2>12
  <1> QED BY <1>1, <1>2, <1>3, RingLess

\* What a step of a client that sends nothing does.
LEMMA DueStep ==
    ASSUME Typed, NEW c \in Clients, NEW k \in Keys,
           \/ Killed(c) \/ ListCome(c) \/ ListFails(c) \/ AskMaster(c)
           \/ BackupAnswer(c) \/ OwnerAnswer(c)
           \/ \E op \in {"PUT", "GET", "DELETE"}, l \in Keys : Command(c, op, l)
    PROVE  UNCHANGED <<requests, file>> /\ Due(c, k) \subseteq Due(c, k)'
  <1>1. UNCHANGED <<requests, file>>
    BY DEF Killed, ListCome, ListFails, AskMaster, BackupAnswer, OwnerAnswer, Command,
           netVars, serverVars
  <1>2. pc \in [Clients -> Places] /\ cmd \in [Clients -> Commands \cup {NoCmd}]
    BY DEF Typed, PlaceTyped
  <1>3. CASE Killed(c) \/ ListCome(c) \/ ListFails(c) \/ AskMaster(c)
    <2>1. pc[c] \notin {"backup", "owner"} /\ pc'[c] \notin {"backup", "owner"}
      BY <1>2, <1>3 DEF Killed, ListCome, ListFails, AskMaster
    <2>2. UNCHANGED may
      BY <1>3 DEF Killed, ListCome, ListFails, AskMaster, userVars
    <2> QED BY <1>1, <2>1, <2>2 DEF Due, Writes
  <1>4. CASE \E op \in {"PUT", "GET", "DELETE"}, l \in Keys : Command(c, op, l)
    <2>1. pc[c] \notin {"backup", "owner"} /\ pc'[c] \notin {"backup", "owner"} /\ UNCHANGED may
      BY <1>2, <1>4 DEF Command
    <2> QED BY <1>1, <2>1 DEF Due, Writes
  <1>5. CASE BackupAnswer(c)
    <2>1. pc[c] = "backup" /\ pc'[c] = "owner" /\ UNCHANGED <<cmd, may>>
      BY <1>2, <1>5 DEF BackupAnswer, userVars
    <2> QED BY <1>1, <2>1 DEF Due, Writes, Written
  <1>6. CASE OwnerAnswer(c)
    <2>1. pc[c] = "owner" /\ pc'[c] = "idle" /\ UNCHANGED cmd /\ may' = Learnt(c, said'[c])
      BY <1>2, <1>6 DEF OwnerAnswer
    <2>2. cmd[c].op \in {"PUT", "GET", "DELETE"} /\ may \in [Keys -> SUBSET (Values \cup {None})]
      BY <2>1 DEF Typed, PlaceTyped, ToldTyped, Commands, Requests
    <2>3. Due(c, k)' = may'[k]
      BY <2>1 DEF Due, Writes
    <2>4. CASE cmd[c].op = "GET"
      <3>1. may' = may
        BY <2>1, <2>4 DEF Learnt
      <3> QED BY <1>1, <2>3, <2>4, <3>1 DEF Due, Writes
    <2>5. CASE cmd[c].op # "GET"
      <3>1. PICK S : may' = [may EXCEPT ![cmd[c].key] = S] /\ Written(c) \in S
        <4>1. may' = [may EXCEPT ![cmd[c].key] =
                        IF said'[c].code = OkCode[cmd[c].op] THEN {Written(c)}
                        ELSE @ \cup {Written(c)}]
          BY <2>1, <2>5 DEF Learnt, Written
        <4> QED BY <4>1
      <3>2. CASE cmd[c].key = k
        <4>1. may'[k] = S /\ Due(c, k) = {Written(c)}
          BY <2>1, <2>2, <2>5, <3>1, <3>2 DEF Due, Writes
        <4> QED BY <1>1, <2>3, <3>1, <4>1
      <3>3. CASE cmd[c].key # k
        <4>1. may'[k] = may[k] /\ Due(c, k) = may[k]
          BY <2>2, <3>1, <3>3 DEF Due, Writes
        <4> QED BY <1>1, <2>3, <4>1
      <3> QED BY <3>2, <3>3
    <2> QED BY <2>4, <2>5
  <1> QED BY <1>3, <1>4, <1>5, <1>6

\* The only client writes a record at every server where it may be read.
LEMMA KeptStep ==
    ASSUME Typed, Typed', Fresh, InTime, InStep, Abreast, Abreast', [Next]_vars, world' = world,
           FewGone', NEW c \in Clients, \A d \in Clients : d = c, KeptWell(c)
    PROVE  KeptWell(c)'
  <1>1. up' \subseteq up /\ (\A s \in Servers : Join(s) => FALSE) /\ OneWith(c) /\ up \subseteq conn[c]
    <2>1. up' \subseteq up
      BY FewStep
    <2>2. ASSUME NEW s \in Servers, Join(s) PROVE FALSE
      BY <2>1, <2>2 DEF Join
    <2> QED BY <2>1, <2>2 DEF InStep, Abreast
  <1>2. SUFFICES ASSUME NEW k \in Keys, NEW s \in Keepers(c, k), s \in Keepers(c, k)'
                 PROVE  Coming(c, s, k)' \in Due(c, k)'
    BY KeepersStep DEF KeptWell
  <1>3. /\ Coming(c, s, k) \in Due(c, k)
        /\ s \in up /\ s \in up' /\ s \in Servers /\ s \in {First(c, k)} \cup Second(c, k)
    <2>1. Keepers(c, k)' \subseteq up'
      BY DEF Keepers
    <2> QED BY <1>2, <2>1, OwnersOfRing DEF KeptWell
  <1>4. CASE Coming(c, s, k)' = Coming(c, s, k) /\ Due(c, k) \subseteq Due(c, k)'
    BY <1>3, <1>4
  <1>5. CASE UNCHANGED <<pc, cmd, may>> /\ Coming(c, s, k)' = Coming(c, s, k)
    <2>1. Due(c, k)' = Due(c, k)
      BY <1>5 DEF Due, Writes, Written
    <2> QED BY <1>4, <1>5, <2>1
  <1>6. ASSUME NEW d \in Clients, NEW u \in Servers, Handle(d, u)
        PROVE  Coming(c, s, k)' \in Due(c, k)'
    <2>1. Handle(c, u)
      BY <1>6
    <2>2. UNCHANGED <<pc, cmd, may>>
      BY <1>6 DEF Handle, userVars
    <2> QED BY <1>1, <1>3, <1>5, <2>1, <2>2, HandleComing
  <1>7. ASSUME NEW u \in Servers, Die(u) \/ Unlist(u)
        PROVE  Coming(c, s, k)' \in Due(c, k)'
    <2>1. UNCHANGED <<pc, cmd, may, file>>
      BY <1>7 DEF Die, Unlist, clientVars, userVars
    <2>2. requests'[<<c, s>>] = requests[<<c, s>>]
      <3>1. <<c, s>> \in Pairs /\ <<c, s>>[2] = s
        BY <1>3 DEF Pairs
      <3> QED BY <1>3, <1>7, <3>1 DEF Die, Unlist
    <2> QED BY <1>5, <2>1, <2>2 DEF Coming
  <1>8. CASE Ask(c)
    <2>1. \A u \in Servers : Quiet(c, u)
      BY <1>1, <1>8, NoneWaited DEF Ask
    <2>2. PICK S : SendMsg(c, S, Req("LIST", None, None)) /\ UNCHANGED <<answers, file>>
      BY <1>8 DEF Ask, serverVars
    <2>3. PICK m \in Requests : m = Req("LIST", None, None)
      BY DEF Requests, Req
    <2>4. m.op = "LIST"
      BY <2>3 DEF Req
    <2>5. \A v : Effect(<<m>>, k, v) = v
      BY <2>4 DEF Effect
    <2>6. Coming(c, s, k)' = Coming(c, s, k)
      BY <1>3, <2>1, <2>2, <2>3, <2>5, SendComing
    <2>7. pc[c] = "ask" /\ pc'[c] = "list" /\ UNCHANGED may
      BY <1>8 DEF Ask, userVars, Typed, PlaceTyped
    <2>8. Due(c, k)' = Due(c, k)
      BY <2>7 DEF Due, Writes
    <2> QED BY <1>4, <2>6, <2>8
  <1>9. CASE Act(c)
    <2>1. \A u \in Servers : Quiet(c, u)
      BY <1>1, <1>9, NoneWaited DEF Act
    <2>2. PICK m \in Requests : m = cmd[c] /\ m.key \in Keys /\ m.op # "LIST"
      BY <1>9 DEF Act, Typed, PlaceTyped, Commands, Requests
    <2>3. PICK S : S = {Owner(c)} \cup Backup(c)
      OBVIOUS
    <2>4. SendMsg(c, S, m) /\ UNCHANGED <<answers, file>>
      BY <1>9, <2>2, <2>3 DEF Act, serverVars
    <2>5. /\ Coming(c, s, k) = file[s][k]
          /\ Coming(c, s, k)' = IF s \in S \cap conn[c] \cap up
                                THEN Effect(<<m>>, k, file[s][k]) ELSE file[s][k]
      BY <1>3, <2>1, <2>2, <2>4, SendComing
    <2>6. pc[c] = "act" /\ pc'[c] \in {"backup", "owner"} /\ UNCHANGED <<cmd, may>>
      BY <1>9 DEF Act, userVars, Typed, PlaceTyped
    <2>7. CASE m.op \notin {"PUT", "DELETE"} \/ m.key # k
      <3>1. \A v : Effect(<<m>>, k, v) = v
        BY <2>7 DEF Effect
      <3>2. Due(c, k)' = may[k] /\ Due(c, k) = may[k]
        BY <2>2, <2>6, <2>7 DEF Due, Writes
      <3> QED BY <1>4, <2>5, <3>1, <3>2
    <2>8. CASE m.op \in {"PUT", "DELETE"} /\ m.key = k
      <3>1. S = {First(c, k)} \cup Second(c, k)
        BY <2>2, <2>3, <2>8 DEF Owner, Backup, First, Second
      <3>2. s \in S \cap conn[c] \cap up
        BY <1>1, <1>3, <3>1
      <3>3. \A v : Effect(<<m>>, k, v) = Written(c)'
        BY <2>2, <2>6, <2>8 DEF Effect, Written
      <3>4. Due(c, k)' = {Written(c)'}
        BY <2>2, <2>6, <2>8 DEF Due, Writes
      <3> QED BY <2>5, <3>2, <3>3, <3>4
    <2> QED BY <2>7, <2>8
  <1>10. ASSUME NEW d \in Clients,
                \/ ClientStep(d) /\ ~ Ask(c) /\ ~ Act(c)
                \/ \E op \in {"PUT", "GET", "DELETE"}, l \in Keys : Command(d, op, l)
         PROVE  Coming(c, s, k)' \in Due(c, k)'
    <2>1. UNCHANGED <<requests, file>> /\ Due(c, k) \subseteq Due(c, k)'
      <3>1. d = c
        OBVIOUS
      <3> QED BY <1>10, <3>1, DueStep DEF ClientStep
    <2> QED BY <1>4, <2>1 DEF Coming
  <1>11. CASE UNCHANGED vars
    <2>1. UNCHANGED <<pc, cmd, may, requests, file>>
      BY <1>11 DEF vars, netVars, serverVars, userVars
    <2> QED BY <1>5, <2>1 DEF Coming
  <1> QED BY <1>1, <1>6, <1>7, <1>8, <1>9, <1>10, <1>11 DEF Next

\* A server that answers a get has the record it is to hold.
LEMMA HandleRight ==
    ASSUME Typed, Fresh, InStep, Abreast, NEW c \in Clients, KeptWell(c), GetsRight(c),
           NEW s \in Servers, Handle(c, s)
    PROVE  GetsRight(c)'
  <1>1. UNCHANGED <<pc, cmd, buffer, said, may>>
    BY DEF Handle, userVars
  <1>2. SUFFICES ASSUME cmd[c].op = "GET", pc[c] = "owner", NEW k, k = cmd[c].key
                 PROVE  \A t \in Servers : \A i \in DOMAIN answers'[<<c, t>>] :
                           Right(answers'[<<c, t>>][i], k)
    BY <1>1 DEF GetsRight, Right
  <1>3. k \in Keys
    BY <1>2 DEF Typed, PlaceTyped, Commands, Requests
  <1>4. OneWith(c) /\ OfTheCommand(c)
    BY DEF InStep
  <1>5. PICK r \in Requests :
           /\ DOMAIN requests[<<c, s>>] = {1} /\ r = requests[<<c, s>>][1]
           /\ answers' = [answers EXCEPT ![<<c, s>>] = <<Respond(s, r)>>]
    BY <1>4, HandleOne
  <1>6. r = cmd[c]
    BY <1>2, <1>4, <1>5 DEF OfTheCommand
  <1>7. s = First(c, k)
    <2>1. requests[<<c, s>>] # <<>>
      BY <1>5
    <2>2. s \in Waited(c)
      BY <1>4, <2>1 DEF OneWith, Quiet
    <2> QED BY <1>2, <2>2 DEF Waited, Owner, First
  <1>8. file[s][k] \in may[k]
    <2>1. s \in Keepers(c, k)
      BY <1>7 DEF Handle, Keepers
    <2>2. Coming(c, s, k) \in may[k]
      BY <1>2, <1>3, <2>1 DEF KeptWell, Due, Writes
    <2>3. Coming(c, s, k) = file[s][k]
      BY <1>2, <1>5, <1>6 DEF Coming, Effect
    <2> QED BY <2>2, <2>3
  <1>9. PICK m : m = Respond(s, r)
    OBVIOUS
  <1>10. Right(m, k)
    <2>1. m = IF file[s][k] = None THEN Msg("ERROR", None) ELSE Msg("GET_OK", file[s][k])
      BY <1>2, <1>6, <1>9 DEF Respond, GetValue, OkCode
    <2> QED BY <1>8, <2>1 DEF Right, Msg
  <1>11. DOMAIN <<m>> = {1} /\ <<m>>[1] = m
    OBVIOUS
  <1>12. ASSUME NEW t \in Servers
         PROVE  answers'[<<c, t>>] = IF t = s THEN <<m>> ELSE answers[<<c, t>>]
    <2>1. <<c, t>> \in Pairs /\ (<<c, t>> = <<c, s>> <=> t = s)
      BY DEF Pairs
    <2> QED BY <1>5, <1>9, <2>1 DEF Typed, AnswersTyped
  <1> QED BY <1>2, <1>10, <1>11, <1>12 DEF GetsRight

LEMMA GetsStep ==
    ASSUME Typed, Typed', Fresh, InStep, Abreast, [Next]_vars, world' = world, FewGone',
           NEW c \in Clients, \A d \in Clients : d = c, KeptWell(c), GetsRight(c)
    PROVE  GetsRight(c)'
  <1>1. OneWith(c) /\ FewGone
    BY FewStep DEF InStep
  <1>2. pc \in [Clients -> Places] /\ cmd \in [Clients -> Commands \cup {NoCmd}]
        /\ buffer \in [Clients -> Msgs] /\ said \in [Clients -> Msgs]
    BY DEF Typed, PlaceTyped, ToldTyped
  <1>3. \A k : Right(Silent, k)' /\ Right(Msg("UNAVAILABLE", None), k)'
    BY DEF Right, Silent, Msg
  <1>4. CASE UNCHANGED <<pc, cmd, buffer, said, may, answers>>
    BY <1>4 DEF GetsRight, Right
  <1>5. CASE Ask(c) \/ Killed(c) \/ ListCome(c) \/ ListFails(c)
    <2>1. /\ pc[c] \in {"ask", "list", "act", "master"} /\ UNCHANGED <<cmd, buffer>>
          /\ pc'[c] \in {"ask", "list", "act", "master", "killed"}
      BY <1>2, <1>5 DEF Ask, Killed, ListCome, ListFails
    <2> QED BY <2>1 DEF GetsRight
  <1>6. CASE AskMaster(c)
    <2>1. pc'[c] = "idle" /\ said'[c] = Msg("UNAVAILABLE", None)
      BY <1>2, <1>6 DEF AskMaster, Tell
    <2> QED BY <1>3, <2>1 DEF GetsRight
  <1>7. CASE Act(c)
    <2>1. SUFFICES ASSUME cmd'[c].op = "GET" PROVE GetsRight(c)'
      BY DEF GetsRight
    <2>2. UNCHANGED <<cmd, buffer, answers>> /\ pc[c] = "act"
      BY <1>7 DEF Act
    <2>3. pc'[c] = "owner"
      BY <1>2, <1>7, <2>1, <2>2 DEF Act, Backup
    <2>4. buffer[c] = Silent
      BY <2>1, <2>2 DEF GetsRight
    <2>5. \A s \in Servers : answers'[<<c, s>>] = <<>>
      BY <1>1, <2>2, NoneWaited DEF Quiet
    <2>6. DOMAIN <<>> = {}
      OBVIOUS
    <2> QED BY <2>2, <2>3, <2>4, <2>5, <2>6 DEF GetsRight
  <1>8. CASE BackupAnswer(c)
    <2>1. pc[c] = "backup" /\ UNCHANGED cmd
      BY <1>8 DEF BackupAnswer
    <2> QED BY <2>1 DEF GetsRight
  <1>9. CASE OwnerAnswer(c)
    <2>1. SUFFICES ASSUME cmd'[c].op = "GET", NEW k, k = cmd[c].key PROVE GetsRight(c)'
      BY DEF GetsRight
    <2>2. pc[c] = "owner" /\ pc'[c] = "idle" /\ UNCHANGED cmd /\ may' = Learnt(c, said'[c])
      BY <1>2, <1>9 DEF OwnerAnswer
    <2>3. UNCHANGED may
      BY <2>1, <2>2 DEF Learnt
    <2>4. PICK s \in Servers : s = Owner(c)
      BY ClientServers DEF Typed
    <2>5. CASE RecvMsg(c, s) /\ Tell(c, Head(answers[<<c, s>>]))
      <3>1. DOMAIN answers[<<c, s>>] = {1} /\ Head(answers[<<c, s>>]) = answers[<<c, s>>][1]
        BY <1>1, <2>5, RecvOne
      <3>2. said'[c] = answers[<<c, s>>][1]
        BY <1>2, <2>5, <3>1 DEF Tell
      <3>3. Right(said'[c], k)
        BY <2>1, <2>2, <3>1, <3>2 DEF GetsRight
      <3> QED BY <2>1, <2>2, <2>3, <3>3 DEF GetsRight, Right
    <2>6. CASE Tell(c, buffer[c])
      <3>1. said'[c] = Silent
        BY <1>2, <2>1, <2>2, <2>6 DEF Tell, GetsRight
      <3> QED BY <1>3, <2>2, <3>1 DEF GetsRight
    <2> QED BY <1>9, <2>4, <2>5, <2>6 DEF OwnerAnswer
  <1>10. ASSUME NEW op \in {"PUT", "GET", "DELETE"}, NEW k \in Keys, Command(c, op, k)
         PROVE  GetsRight(c)'
    <2>1. pc'[c] = "ask" /\ buffer'[c] = Silent
      BY <1>2, <1>10 DEF Command
    <2> QED BY <2>1 DEF GetsRight
  <1>11. ASSUME NEW d \in Clients,
                ClientStep(d) \/ \E op \in {"PUT", "GET", "DELETE"}, k \in Keys : Command(d, op, k)
         PROVE  GetsRight(c)'
    <2>1. d = c
      OBVIOUS
    <2> QED BY <1>5, <1>6, <1>7, <1>8, <1>9, <1>10, <1>11, <2>1 DEF ClientStep
  <1>12. ASSUME NEW d \in Clients, NEW s \in Servers, Handle(d, s)
         PROVE  GetsRight(c)'
    <2>1. d = c
      OBVIOUS
    <2> QED BY <1>12, <2>1, HandleRight
  <1>13. ASSUME NEW s \in Servers, Join(s) \/ Die(s) \/ Unlist(s)
         PROVE  UNCHANGED <<pc, cmd, buffer, said, may, answers>>
    BY <1>13 DEF Join, Die, Unlist, clientVars, userVars
  <1>14. CASE UNCHANGED vars
    BY <1>4, <1>14 DEF vars, netVars, userVars
  <1> QED BY <1>4, <1>11, <1>12, <1>13, <1>14 DEF Next

LEMMA InitAbreast ==
    ASSUME Init, \A s \in Servers : \A h \in Hashes[s] :
                    h + Len(world.online) * HASH_INCREMENT < HASH_MAX
    PROVE  Abreast
  <1>1. PICK list \in Seq(Servers) : list = world.online
    BY WorldIs DEF Init
  <1>2. up = RangeOf(list) /\ left = {} /\ members = list /\ Lists = {}
    BY <1>1, InitFresh DEF Init
  <1>3. ASSUME NEW c \in Clients
        PROVE  /\ Sorted(ring[c]) /\ up \subseteq conn[c]
               /\ RangeOf(list) \subseteq RingServers(ring[c])
    <2>1. PICK hash \in HashChoices : ring[c] = AddAll(<<>>, list, hash)
      BY <1>1 DEF Init
    <2>2. hash \in [Servers -> Nat] /\ \A s \in Servers : hash[s] \in Hashes[s]
      BY HashIs DEF HashChoices
    <2>3. \A s \in Servers : hash[s] + Len(list) * HASH_INCREMENT < HASH_MAX
      BY <1>1, <2>2
    <2>4. Sorted(ring[c])
      BY <2>1, <2>2, <2>3, AddAllSorted
    <2>5. RangeOf(list) \subseteq RingServers(ring[c])
      <3>1. <<>> \in Rings
        BY EmptySeq DEF Rings
      <3> QED BY <2>1, <2>2, <3>1, AddAllIs
    <2> QED BY <2>4, <2>5 DEF Init
  <1> QED BY <1>2, <1>3 DEF Abreast

LEMMA InitKept == Init => \A c \in Clients : KeptWell(c) /\ GetsRight(c)
  <1> SUFFICES ASSUME Init, NEW c \in Clients PROVE KeptWell(c) /\ GetsRight(c)
    OBVIOUS
  <1>1. pc[c] = "idle" /\ cmd[c].op # "GET"
    BY DEF Init, NoCmd
  <1>2. ASSUME NEW k \in Keys, NEW s \in Keepers(c, k) PROVE Coming(c, s, k) \in Due(c, k)
    <2>1. s \in Servers
      BY InitTyped DEF Keepers, Init, Typed, ServersTyped
    <2>2. requests[<<c, s>>] = <<>> /\ file[s][k] = None /\ may[k] = {None}
      BY <2>1 DEF Init, Pairs
    <2> QED BY <1>1, <2>2 DEF Coming, Effect, Due, Writes
  <1> QED BY <1>1, <1>2 DEF KeptWell, GetsRight

\* While none joins, none is slow and no second server dies, the user of the only client
\* who gets a record is told what was put last, or what a put or delete whose success
\* was not told may have left there: also when the owner has died, whose successor has
\* the second copy (dbclient.c:280-299, 311-318, 333-350).  No id is to wrap, which those
\* HashPJW returns, below 2^28, do not (hash.c:30), or a node might have the id of the
\* owner and count as none (conhash.c:186).
THEOREM GetsAreRight ==
    ASSUME \A c, d \in Clients : c = d,
           \A w \in Worlds, s \in Servers : \A h \in Hashes[s] :
              h + Len(w.online) * HASH_INCREMENT < HASH_MAX
    PROVE  Spec => []GetsWhatWasPut
  <1> DEFINE Following == InStep /\ InTime
             Getting == Abreast /\ \A c \in Clients : KeptWell(c) /\ GetsRight(c)
             IInv == /\ Typed /\ Fresh
                     /\ world.slow = {} => Following
                     /\ FewGone => Getting
  <1>1. Init => IInv
    <2> SUFFICES ASSUME Init PROVE IInv
      OBVIOUS
    <2>1. Abreast
      BY InitAbreast DEF Init
    <2> QED BY <2>1, InitTyped, InitFresh, InitInStep, InitKept
  <1>2. IInv /\ [Next]_vars => IInv'
    <2> SUFFICES ASSUME IInv, [Next]_vars PROVE IInv'
      OBVIOUS
    <2>1. Typed' /\ world' = world
      BY TypedStep
    <2>2. Fresh'
      BY <2>1, FreshStep
    <2>3. ASSUME world.slow = {} PROVE Following'
      <3>1. InStep'
        BY <2>3, InStepStep
      <3> QED BY <2>1, <2>3, <3>1, InTimeStep
    <2>4. ASSUME FewGone' PROVE Getting'
      <3>1. FewGone
        BY <2>1, <2>4, FewStep
      <3>2. Following /\ Following' /\ Getting
        BY <2>3, <3>1 DEF FewGone
      <3>3. Abreast'
        BY <2>1, <2>4, <3>2, AbreastStep
      <3>4. ASSUME NEW c \in Clients PROVE KeptWell(c)' /\ GetsRight(c)'
        <4>1. KeptWell(c) /\ GetsRight(c) /\ \A d \in Clients : d = c
          BY <3>2
        <4>2. KeptWell(c)'
          BY <2>1, <2>4, <3>2, <3>3, <4>1, KeptStep
        <4>3. GetsRight(c)'
          BY <2>1, <2>4, <3>2, <4>1, GetsStep
        <4> QED BY <4>2, <4>3
      <3> QED BY <3>3, <3>4
    <2> QED BY <2>1, <2>2, <2>3, <2>4
  <1>3. IInv => GetsWhatWasPut
    <2> SUFFICES ASSUME IInv, Cardinality(left) < 2, Joined = {}, world.slow = {},
                        NEW c \in Clients, Idle(c), cmd[c].op = "GET"
                 PROVE  Right(said[c], cmd[c].key)
      BY DEF GetsWhatWasPut, Right
    <2>1. FewGone
      BY OneLeft DEF FewGone, Fresh
    <2> QED BY <2>1 DEF GetsRight, Idle
  <1> HIDE DEF IInv
  <1> QED BY <1>1, <1>2, <1>3, PTL DEF Spec
=============================================================================
