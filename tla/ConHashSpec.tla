---------------------------- MODULE ConHashSpec ----------------------------
(***************************************************************************)
(* A consistent hash driven as src/dbclient.c drives it: servers join and  *)
(* leave in any order, keys are looked up in between.                      *)
(***************************************************************************)
EXTENDS ConHash

CONSTANTS
    Servers,        \* the servers that join
    HashBound,      \* HashPJW is below this, 2^28
    Hash,           \* the hash of every server's address and port
    RingKeys,       \* the keys looked up
    MaxNodes        \* bound: nodes in the ring

ASSUME ServersAssumption == Hash \in [Servers -> 0 .. HashBound - 1]
ASSUME RingKeysAssumption == RingKeys \subseteq Nat
ASSUME NullAssumption == NULL \notin RingNode(Servers)

\* Far below the point where ids wrap round: 28 000 nodes of one hash.
ASSUME BoundAssumption ==
    /\ HashBound \in Nat /\ MaxNodes \in Nat
    /\ HashBound + MaxNodes * HASH_INCREMENT < HASH_MAX

VARIABLE ring

Init == ring = <<>>

Join(s) ==
    /\ Len(ring) < MaxNodes
    /\ ring' = ConhashAddNode(ring, s, Hash[s])

Leave(id) == ring' = ConhashRemoveNode(ring, id)

Next ==
    \/ \E s \in Servers : Join(s)
    \/ \E id \in Ids(ring) : Leave(id)

Spec == Init /\ [][Next]_ring

-----------------------------------------------------------------------------
TypeOK == ring \in Seq(RingNode(Servers)) /\ Len(ring) <= MaxNodes

\* Ids are unique and the ring is sorted by them, however many servers have the
\* same hash: the pass of conhash.c:58-71 looks at every node once only, and
\* relies on the order that 80-102 keeps.
RingSorted ==
    \A i, j \in DOMAIN ring : i < j => ring[i].id < ring[j].id

\* Put, get and delete of a key go to its owner, put and delete to the backup
\* as well (dbclient.c:279-290, 311-315, 336-347).
Owner(r, k)  == ConhashGetNode(r, k)
Backup(r, k) == ConhashGetNodeAfter(r, k, 1)

\* A key belongs to the node with the least id from the key on, or else to the
\* one with the least id of all (conhash.c:128-151).
OwnerIsSuccessor ==
    ring # <<>> => \A k \in RingKeys :
        LET from == {id \in Ids(ring) : id >= k}
            candidates == IF from = {} THEN Ids(ring) ELSE from
        IN  /\ Owner(ring, k).id \in candidates
            /\ \A id \in candidates : Owner(ring, k).id <= id

\* With two servers or more every key has a backup on another server; the node
\* before the backup is the owner (conhash.c:153-231).
BackupIsNext ==
    Len(ring) >= 2 => \A k \in RingKeys :
        /\ Backup(ring, k) # NULL /\ Backup(ring, k) # Owner(ring, k)
        /\ ConhashGetNodeBefore(ring, Backup(ring, k).id, 1) = Owner(ring, k)

\* A server that joins takes keys over, and no key changes hands between two
\* servers that were there: of the records stored so far, only those it takes
\* over are out of reach.
JoinMoves ==
    Ids(ring') \ Ids(ring) # {} /\ ring # <<>> =>
        \A k \in RingKeys :
            Owner(ring', k) = Owner(ring, k) \/ Owner(ring', k).id \notin Ids(ring)

JoinTakesOnly == [][JoinMoves]_ring

\* When a server leaves, its keys, and no others, go to another server, and it
\* is the one that holds their copies.
LeaveMoves ==
    Len(ring') < Len(ring) /\ ring' # <<>> =>
        \A k \in RingKeys :
            Owner(ring', k) = IF Owner(ring, k).id \in Ids(ring')
                              THEN Owner(ring, k) ELSE Backup(ring, k)

LeaveGoesToBackup == [][LeaveMoves]_ring
=============================================================================
