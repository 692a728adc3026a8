----------------------------- MODULE TaskQueue -----------------------------
(***************************************************************************)
(* What the dispatch of src/dbserver.c promises for one worker: a queue    *)
(* whose tasks are handled one by one, in the order they arrived.          *)
(***************************************************************************)
EXTENDS Integers, Sequences

VARIABLES arrived, queue, handled

vars == <<arrived, queue, handled>>

Init == arrived = 0 /\ queue = <<>> /\ handled = <<>>

Arrive ==
    /\ arrived' = arrived + 1
    /\ queue' = Append(queue, arrived')
    /\ UNCHANGED handled

Handle ==
    /\ queue # <<>>
    /\ handled' = Append(handled, Head(queue))
    /\ queue' = Tail(queue)
    /\ UNCHANGED arrived

Safety == Init /\ [][Arrive \/ Handle]_vars

Spec == Safety /\ WF_vars(Handle)
=============================================================================
