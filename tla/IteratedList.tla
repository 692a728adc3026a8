---------------------------- MODULE IteratedList ----------------------------
(***************************************************************************)
(* What the lists of src/linklist.c promise: a sequence, and an iterator   *)
(* that stands at one of its positions or nowhere (0).                     *)
(***************************************************************************)
EXTENDS Integers, Sequences, SequencesExt

CONSTANTS Data, NoCall

VARIABLES circular, items, pos, call

vars == <<circular, items, pos, call>>

Call(op, d, ret) == [op |-> op, data |-> d, ret |-> ret]

\* The neighbours of a position; off the ends of a list that is not circular
\* there is none.
After(p, n)  == IF p < n THEN p + 1 ELSE IF circular THEN 1 ELSE 0
Before(p, n) == IF p > 1 THEN p - 1 ELSE IF circular THEN n ELSE 0

Init ==
    /\ circular \in BOOLEAN
    /\ items = <<>> /\ pos = 0
    /\ call = NoCall

\* The iterator stays on its item.  One that is nowhere on a circular list was
\* left on a node that is gone: it is at the new item, at p, when that has the
\* address of the old one.
Landed(p) == circular /\ pos = 0 /\ pos' = p

PushBack(d) ==
    /\ items' = Append(items, d)
    /\ pos' = pos \/ Landed(Len(items'))
    /\ call' = Call("push_back", d, 0)

PushHead(d) ==
    /\ items' = <<d>> \o items
    /\ pos' = (IF pos = 0 THEN 0 ELSE pos + 1) \/ Landed(1)
    /\ call' = Call("push_head", d, 0)

\* An insert at an end is a push, and comes to nothing when that has no memory.
Lost(d) ==
    /\ \/ pos = Len(items) /\ call' = Call("insert_after", d, 0)
       \/ pos = 1 /\ call' = Call("insert_before", d, 0)
    /\ pos # 0
    /\ UNCHANGED <<items, pos>>

InsertAfter(d) ==
    /\ pos # 0
    /\ items' = InsertAt(items, pos + 1, d) /\ pos' = pos
    /\ call' = Call("insert_after", d, 0)

InsertBefore(d) ==
    /\ pos # 0
    /\ items' = InsertAt(items, pos, d) /\ pos' = pos + 1
    /\ call' = Call("insert_before", d, 0)

\* The iterator goes to the item behind the deleted one.
Delete ==
    /\ pos # 0
    /\ items' = RemoveAt(items, pos)
    /\ pos' = IF pos <= Len(items') THEN pos
              ELSE IF circular /\ items' # <<>> THEN 1 ELSE 0
    /\ call' = Call("delete", NoCall, 0)

\* A call that returns -1 has no effect.
Refused ==
    /\ call' \in [op : {"push_back", "push_head", "insert_after", "insert_before",
                        "delete"},
                  data : Data \cup {NoCall}, ret : {-1}]
    /\ UNCHANGED <<items, pos>>

Move(op, p) ==
    /\ pos' = p
    /\ call' = Call(op, NoCall, 0)
    /\ UNCHANGED items

Next ==
    /\ \/ \E d \in Data : PushBack(d) \/ PushHead(d) \/ InsertAfter(d) \/ InsertBefore(d)
       \/ Delete
       \/ Refused
       \/ \E d \in Data : Lost(d)
       \/ Move("begin", IF items = <<>> THEN 0 ELSE 1)
       \/ Move("tail", Len(items))
       \/ pos # 0 /\ Move("next", After(pos, Len(items)))
       \/ pos # 0 /\ Move("prev", Before(pos, Len(items)))
    /\ UNCHANGED circular

Spec == Init /\ [][Next]_vars
=============================================================================
