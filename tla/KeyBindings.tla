---------------------------- MODULE KeyBindings ----------------------------
(***************************************************************************)
(* What the hash table of src/hash.c promises, key by key: a key has a     *)
(* sequence of bindings, a lookup sees the first, a delete drops the       *)
(* first, a tail insert is a queue's append.  A plain insert is promised   *)
(* no more than the first or the second place among the bindings of its    *)
(* key, and no call on one key ever changes what another key is bound to.  *)
(***************************************************************************)
EXTENDS Naturals, Sequences, SequencesExt

CONSTANTS HashKeys, Values, NoCall

VARIABLES bindings, call

vars == <<bindings, call>>

Call(op, k, v) == [op |-> op, key |-> k, val |-> v]

TypeOK == bindings \in [HashKeys -> Seq(Values)]

Init ==
    /\ bindings = [k \in HashKeys |-> <<>>]
    /\ call = NoCall

Add(k, v) ==
    \E p \in 1 .. 2 :
        /\ p <= Len(bindings[k]) + 1
        /\ bindings' = [bindings EXCEPT ![k] = InsertAt(@, p, v)]
    /\ call' = Call("add", k, v)

AddTail(k, v) ==
    /\ bindings' = [bindings EXCEPT ![k] = Append(@, v)]
    /\ call' = Call("add_tail", k, v)

Delete(k) ==
    /\ bindings' = [bindings EXCEPT ![k] = IF @ = <<>> THEN @ ELSE Tail(@)]
    /\ call' = Call("delete", k, NoCall)

Next ==
    \E k \in HashKeys :
        \/ \E v \in Values : Add(k, v) \/ AddTail(k, v)
        \/ Delete(k)

Spec == Init /\ [][Next]_vars
=============================================================================
