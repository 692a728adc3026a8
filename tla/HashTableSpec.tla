--------------------------- MODULE HashTableSpec ---------------------------
(***************************************************************************)
(* One hash table of src/hash.c driven through its interface: any call, on *)
(* any key, in any order.  The chains are what the pointers of the code    *)
(* spell; the keys of one bucket share a chain.                            *)
(***************************************************************************)
EXTENDS HashTable

CONSTANTS
    HashKeys,       \* the keys the callers use
    Values,         \* the values they bind
    Length,         \* the number of buckets
    HashFun,        \* the bucket of every key
    NoCall,         \* no call, or no value
    MaxNodes        \* bound: nodes in one bucket

ASSUME LengthAssumption == Length \in Nat \ {0}
ASSUME HashFunAssumption == HashFun \in [HashKeys -> 0 .. Length - 1]

VARIABLES
    table,
    call        \* the last call: its name, its key, and the value it binds

tableVars == <<table, call>>

Call(op, k, v) == [op |-> op, key |-> k, val |-> v]

TableInit ==
    /\ table = HashCreateTable(Length, HashFun)
    /\ call = NoCall

Room(k) == Len(Chain(table, k)) < MaxNodes

Add(k, v) ==
    /\ Room(k)
    /\ table' = HashAddNode(table, k, v)
    /\ call' = Call("add", k, v)

AddTail(k, v) ==
    /\ Room(k)
    /\ table' = HashAddNode_tail(table, k, v)
    /\ call' = Call("add_tail", k, v)

Delete(k) ==
    /\ table' = HashDelete(table, k)
    /\ call' = Call("delete", k, NoCall)

TableNext ==
    \E k \in HashKeys :
        \/ \E v \in Values : Add(k, v) \/ AddTail(k, v)
        \/ Delete(k)

TableSpec == TableInit /\ [][TableNext]_tableVars

-----------------------------------------------------------------------------
\* The values that a chain binds to k, in the order in which lookups and deletes
\* meet them.
BoundIn(c, k) ==
    LET bound[i \in 0 .. Len(c)] ==
            IF i = 0 THEN <<>>
            ELSE IF c[i].key = k THEN Append(bound[i - 1], c[i].val)
            ELSE bound[i - 1]
    IN  bound[Len(c)]

BoundTo(t, k) == BoundIn(Chain(t, k), k)

AbstractTable ==
    INSTANCE KeyBindings WITH bindings <- [k \in HashKeys |-> BoundTo(table, k)]

\* The chains, shared by all the keys of a bucket and relinked by every call,
\* behave as one sequence of bindings per key, and a call changes the bindings
\* of the key it is called with and of no other.
KeysIndependent == AbstractTable!Spec

\* HashGetValue (hash.c:145-166) finds a key exactly when it is bound, and
\* copies out the first of its bindings.
LookupIsFirstBinding ==
    \A k \in HashKeys :
        /\ HashHas(table, k) <=> BoundTo(table, k) # <<>>
        /\ HashHas(table, k) => HashGetValue(table, k) = Head(BoundTo(table, k))

\* hash.h:62 and hash.c:73 say that HashAddNode inserts on the head of the
\* chain, so that a lookup right after it returns the value just added.
AddedIsFoundNext ==
    [][call'.op = "add" => HashGetValue(table', call'.key) = call'.val]_tableVars
=============================================================================
