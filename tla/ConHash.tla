------------------------------- MODULE ConHash -------------------------------
(***************************************************************************)
(* The consistent hash of src/conhash.c, as operators on rings.  A ring is *)
(* the sequence of the nodes of the circular list, from the first on; a    *)
(* node has an id and the server it stands for.                            *)
(***************************************************************************)
EXTENDS Integers, Sequences, SequencesExt

CONSTANTS
    HASH_MAX,           \* ids are taken modulo this, 2^32
    HASH_INCREMENT,     \* the step to the next id to try, 65536
    NULL                \* no node

ASSUME HashConstants ==
    /\ HASH_MAX \in Nat \ {0}
    /\ HASH_INCREMENT \in Nat \ {0}

RingNode(S) == [id : Nat, info : S]

Ids(ring) == {ring[i].id : i \in DOMAIN ring}

\* 54-71: one pass over the ring from the hash of the server on; every node
\* that has the id pushes it on, and no node is looked at twice.
Pushed(node, id) == IF node.id = id THEN (id + HASH_INCREMENT) % HASH_MAX ELSE id

\* The ids tried: id[i] is the one after the first i nodes.
Tried(ring, hash) ==
    LET id[i \in 0 .. Len(ring)] == IF i = 0 THEN hash ELSE Pushed(ring[i], id[i - 1])
    IN  id

UniqueId(ring, hash) == Tried(ring, hash)[Len(ring)]

\* The least of a set of positions, 0 of the empty set.
FirstOf(I) == IF I = {} THEN 0 ELSE Min(I)

\* Mutant: the node takes the place of the first bigger one.
InsertReplaces(ring, node) ==
    LET p == FirstOf({i \in DOMAIN ring : node.id < ring[i].id})
    IN  IF p = 0 THEN Append(ring, node) ELSE [ring EXCEPT ![p] = node]

\* 74-102: before the first bigger id, else at the tail.
InsertNode(ring, node) ==
    LET p == FirstOf({i \in DOMAIN ring : node.id < ring[i].id})
    IN  IF p = 0 THEN Append(ring, node) ELSE InsertAt(ring, p, node)

\* Mutant: the hash is used as it is, without the pass of 58-71.
AddNodeUnprobed(ring, server, hash) ==
    InsertNode(ring, [id |-> hash, info |-> server])

\* Mutant: the hash is copied where the server belongs.
AddNodeInfoLost(ring, server, hash) ==
    InsertNode(ring, [id |-> UniqueId(ring, hash), info |-> hash])

\* hash is HashPJW of the server's address and port, modulo HASH_MAX.
ConhashAddNode(ring, server, hash) ==
    InsertNode(ring, [id |-> UniqueId(ring, hash), info |-> server])

ConhashRemoveNode(ring, id) ==
    LET p == FirstOf({i \in DOMAIN ring : ring[i].id = id})
    IN  IF p = 0 THEN ring ELSE RemoveAt(ring, p)

\* Mutant: a key beyond the last id stays with the last node.
RightPosNoWrap(ring, key) ==
    LET p == FirstOf({i \in DOMAIN ring : key <= ring[i].id})
    IN  IF p = 0 THEN Len(ring) ELSE p

\* 135-150 (and 162-179, 202-219): the first id from the key on, round the
\* ring.
RightPos(ring, key) ==
    LET p == FirstOf({i \in DOMAIN ring : key <= ring[i].id})
    IN  IF p = 0 THEN 1 ELSE p

ConhashGetNode(ring, key) ==
    IF ring = <<>> THEN NULL ELSE ring[RightPos(ring, key)]

\* n steps of the iterator from position p, onwards or, with -n, back.
Steps(ring, p, n) == ((p - 1 + n) % Len(ring)) + 1

\* The node n steps from the right one; NULL when that has the same id.
NodeAway(ring, key, n) ==
    IF ring = <<>> THEN NULL
    ELSE LET p == RightPos(ring, key)
             q == Steps(ring, p, n)
         IN  IF ring[q].id # ring[p].id THEN ring[q] ELSE NULL

\* Mutant: one step too many.
GetNodeAfterNext(ring, key, n) == NodeAway(ring, key, n + 1)

ConhashGetNodeAfter(ring, key, n)  == NodeAway(ring, key, n)
ConhashGetNodeBefore(ring, key, n) == NodeAway(ring, key, -n)
=============================================================================
