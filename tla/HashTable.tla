----------------------------- MODULE HashTable -----------------------------
(***************************************************************************)
(* The general hash table of src/hash.c, as operators on table values.     *)
(* A table is an array of singly linked chains; it carries the hash        *)
(* function it was created with.  hashfun[k] is the bucket of key k, that  *)
(* is hashfun(key) % length in the code.  A chain is the sequence of its   *)
(* nodes from the pointer in the bucket on.                                *)
(***************************************************************************)
EXTENDS Naturals, Sequences, SequencesExt

Node(K, V) == [key : K, val : V]

\* t is a table with keys in K and values in V.
IsTable(t, K, V) ==
    /\ t = [hashfun |-> t.hashfun, chain |-> t.chain]
    /\ t.chain \in [DOMAIN t.chain -> Seq(Node(K, V))]
    /\ t.hashfun \in [K -> DOMAIN t.chain]

HashCreateTable(length, hashfun) ==
    [hashfun |-> hashfun, chain |-> [i \in 0 .. length - 1 |-> <<>>]]

\* The chain that the calls below walk for key k.
Chain(t, k) == t.chain[t.hashfun[k]]

\* The position of the first node with key k, 0 when there is none.
Find(chain, k) == SelectInSeq(chain, LAMBDA node : node.key = k)

\* HashGetValue returned something other than 0.
HashHas(t, k) == Find(Chain(t, k), k) # 0

\* Mutant: the loop of hash.c:156 runs on to the last matching node.
GetLastMatch(t, k) ==
    LET c == Chain(t, k)
    IN  c[CHOOSE i \in DOMAIN c :
              /\ c[i].key = k
              /\ \A j \in i + 1 .. Len(c) : c[j].key # k].val

\* What HashGetValue copies into its buffer when HashHas(t, k).
HashGetValue(t, k) == Chain(t, k)[Find(Chain(t, k), k)].val

\* The table with the chain of key k replaced.
SetChain(t, k, chain) ==
    [t EXCEPT !.chain = [t.chain EXCEPT ![t.hashfun[k]] = chain]]

\* Mutant: the value is copied where the key belongs (hash.c:86).
AddNodeKeyLost(t, k, v) ==
    SetChain(t, k, <<[key |-> v, val |-> v]>> \o Chain(t, k))

\* The new node goes after the first node of the chain, whatever its key.
HashAddNode(t, k, v) ==
    LET c   == Chain(t, k)
        new == [key |-> k, val |-> v]
    IN  SetChain(t, k, IF c = <<>> THEN <<new>> ELSE InsertAt(c, 2, new))

HashAddNode_tail(t, k, v) ==
    SetChain(t, k, Append(Chain(t, k), [key |-> k, val |-> v]))

\* Mutant: the head of the chain goes without the comparison of hash.c:184.
DeleteHead(t, k) == IF HashHas(t, k) THEN SetChain(t, k, Tail(Chain(t, k))) ELSE t

\* Unlinks the first node with key k; a missing key leaves the table alone.
HashDelete(t, k) ==
    IF HashHas(t, k)
    THEN SetChain(t, k, RemoveAt(Chain(t, k), Find(Chain(t, k), k)))
    ELSE t

\* No key is bound twice.
KeysUnique(t) ==
    \A b \in DOMAIN t.chain :
        \A i, j \in DOMAIN t.chain[b] :
            t.chain[b][i].key = t.chain[b][j].key => i = j
=============================================================================
