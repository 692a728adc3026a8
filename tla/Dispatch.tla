------------------------------ MODULE Dispatch ------------------------------
(***************************************************************************)
(* The task queue of one worker of src/dbserver.c, at the grain of single  *)
(* reads and writes: the event thread appends in recv_callback_fn, the     *)
(* worker empties the queue in Thread_DB, a semaphore wakes it, and no     *)
(* lock orders the two.  The queue is a chain of thread_msg_table; workers *)
(* have chains and semaphores of their own (my_hash is the identity).      *)
(*                                                                         *)
(* Tasks are numbered as they arrive, and a number is also the address of  *)
(* the node that carries the task, 0 the null pointer.                     *)
(***************************************************************************)
EXTENDS Integers, Sequences

CONSTANTS
    Clients,        \* bound: clients that send requests to this worker
    MaxTasks,       \* bound: requests for this worker
    MaxLeft         \* bound: posts that a server before, on the same port, has
                    \* left in the named semaphore

ASSUME DispatchAssumption ==
    Clients \in Nat \ {0} /\ MaxTasks \in Nat /\ MaxLeft \in Nat

VARIABLES
    sem,            \* the semaphore
    head, next,     \* the chain: first node, and successor of every node
    live,           \* the nodes allocated and not freed
    cb, task, link, \* event thread: position, new task, node it has walked to
    pc, nptr, nextp,\* worker: position, the node it removes and its successor
    handled,        \* the tasks given to RequestConduct, in order
    senders,        \* how many clients there are, each with one request at a time
    fault           \* freed memory was used

chain  == <<head, next, live>>
event  == <<cb, task, link>>
worker == <<pc, nptr, nextp>>
vars   == <<sem, chain, event, worker, handled, senders, fault>>

Init ==
    /\ sem \in 0 .. MaxLeft
    /\ head = 0 /\ next = [t \in 1 .. MaxTasks |-> 0] /\ live = {}
    /\ cb = "idle" /\ task = 0 /\ link = 0
    /\ pc = "wait" /\ nptr = 0 /\ nextp = 0
    /\ handled = <<>> /\ senders \in 1 .. Clients
    /\ fault = FALSE

-----------------------------------------------------------------------------
(* The event thread.                                                       *)

\* A request for this worker arrives; a client sends its next one only when it
\* has been answered.
Receive ==
    /\ cb = "idle" /\ task < MaxTasks
    /\ task - Len(handled) < senders
    /\ cb' = "first" /\ task' = task + 1
    /\ UNCHANGED <<sem, chain, link, worker, handled, senders, fault>>

\* HashAddNode_tail: the chain is empty, or is walked from its first node.
ReadHead ==
    /\ cb = "first"
    /\ link' = head
    /\ cb' = IF head = 0 THEN "set_head" ELSE "walk"
    /\ UNCHANGED <<sem, chain, task, worker, handled, senders, fault>>

SetHead ==
    /\ cb = "set_head"
    /\ head' = task /\ live' = live \cup {task}
    /\ cb' = "post"
    /\ UNCHANGED <<sem, next, task, link, worker, handled, senders, fault>>

Walk ==
    /\ cb = "walk"
    /\ link \in live
    /\ IF next[link] # 0 THEN link' = next[link] /\ UNCHANGED cb
                         ELSE cb' = "append" /\ UNCHANGED link
    /\ UNCHANGED <<sem, chain, task, worker, handled, senders, fault>>

\* Mutant: the node goes behind the first one, as in HashAddNode.
AppendBehindFirst ==
    /\ cb = "append"
    /\ link \in live /\ head # 0
    /\ next' = [next EXCEPT ![task] = next[head], ![head] = task]
    /\ live' = live \cup {task}
    /\ cb' = "post"
    /\ UNCHANGED <<sem, head, task, link, worker, handled, senders, fault>>

AppendNode ==
    /\ cb = "append"
    /\ link \in live
    /\ next' = [next EXCEPT ![link] = task] /\ live' = live \cup {task}
    /\ cb' = "post"
    /\ UNCHANGED <<sem, head, task, link, worker, handled, senders, fault>>

\* The node walked to has been removed and freed.
UseFreed ==
    /\ cb \in {"walk", "append"}
    /\ link \notin live
    /\ fault' = TRUE
    /\ UNCHANGED <<sem, chain, event, worker, handled, senders>>

Post ==
    /\ cb = "post"
    /\ sem' = sem + 1
    /\ cb' = "idle"
    /\ UNCHANGED <<chain, task, link, worker, handled, senders, fault>>

\* Mutant: the semaphore is posted before the task is added.
EventStepEarlyPost ==
    \/ /\ cb = "first"
       /\ link' = head /\ sem' = sem + 1
       /\ cb' = IF head = 0 THEN "set_head" ELSE "walk"
       /\ UNCHANGED <<chain, task, worker, handled, senders, fault>>
    \/ SetHead \/ Walk \/ AppendNode \/ UseFreed
    \/ /\ cb = "post" /\ cb' = "idle"
       /\ UNCHANGED <<sem, chain, task, link, worker, handled, senders, fault>>

\* recv_callback_fn after RecvMsg and AnalyseMsg.
EventStep == ReadHead \/ SetHead \/ Walk \/ AppendNode \/ UseFreed \/ Post

-----------------------------------------------------------------------------
(* The worker.                                                             *)

\* Mutant: the worker does not wait for a post.
SemTake ==
    /\ pc = "wait"
    /\ sem' = sem - 1
    /\ pc' = "get"
    /\ UNCHANGED <<chain, event, nptr, nextp, handled, senders, fault>>

SemWait ==
    /\ pc = "wait" /\ sem > 0
    /\ sem' = sem - 1
    /\ pc' = "get"
    /\ UNCHANGED <<chain, event, nptr, nextp, handled, senders, fault>>

\* HashGetValue: the first node of the chain, or none.
GetTask ==
    /\ pc = "get"
    /\ nptr' = head
    /\ pc' = IF head = 0 THEN "wait" ELSE "load"
    /\ UNCHANGED <<sem, chain, event, nextp, handled, senders, fault>>

\* HashDelete copies the pointer of the node to the head of the chain: a read ...
LoadNext ==
    /\ pc = "load"
    /\ nextp' = next[nptr]
    /\ pc' = "store"
    /\ UNCHANGED <<sem, chain, event, nptr, handled, senders, fault>>

\* Mutant: the node stays at the head of the chain.
StoreSame ==
    /\ pc = "store"
    /\ pc' = "free"
    /\ UNCHANGED <<sem, chain, event, nptr, nextp, handled, senders, fault>>

\* ... and a write,
StoreHead ==
    /\ pc = "store"
    /\ head' = nextp
    /\ pc' = "free"
    /\ UNCHANGED <<sem, next, live, event, nptr, nextp, handled, senders, fault>>

\* and frees the node.
FreeNode ==
    /\ pc = "free"
    /\ live' = live \ {nptr}
    /\ pc' = "conduct"
    /\ UNCHANGED <<sem, head, next, event, nptr, nextp, handled, senders, fault>>

\* RequestConduct handles the task and answers.
Conduct ==
    /\ pc = "conduct"
    /\ handled' = Append(handled, nptr)
    /\ pc' = "get"
    /\ UNCHANGED <<sem, chain, event, nptr, nextp, senders, fault>>

Thread_DB == SemWait \/ GetTask \/ LoadNext \/ StoreHead \/ FreeNode \/ Conduct

Next == ~ fault /\ (Receive \/ EventStep \/ Thread_DB)

Spec == Init /\ [][Next]_vars

\* Both threads go on when they can; nobody has to send.
FairSpec ==
    /\ Spec
    /\ WF_vars(~ fault /\ EventStep)
    /\ WF_vars(~ fault /\ Thread_DB)

-----------------------------------------------------------------------------
Nodes == 0 .. MaxTasks

TypeOK ==
    /\ sem \in Nat
    /\ head \in Nodes /\ next \in [1 .. MaxTasks -> Nodes] /\ live \subseteq 1 .. MaxTasks
    /\ cb \in {"idle", "first", "set_head", "walk", "append", "post"}
    /\ task \in Nodes /\ link \in Nodes
    /\ pc \in {"wait", "get", "load", "store", "free", "conduct"}
    /\ nptr \in Nodes /\ nextp \in Nodes
    /\ handled \in Seq(1 .. MaxTasks) /\ senders \in 1 .. Clients
    /\ fault \in BOOLEAN

\* However appends and removals meet, short of the use of freed memory, a worker
\* handles tasks at most once and in the order of their arrival (dbserver.c:290-295).
HandledInOrder == \A i, j \in DOMAIN handled : i < j => handled[i] < handled[j]

\* A worker that sleeps with nothing to wake it has nothing to do, although it
\* empties the queue for one post and then waits for posts already spent
\* (dbserver.c:287-296, 375): only a task whose post is still to come may be queued.
NoneLeftBehind ==
    pc = "wait" /\ sem = 0 /\ cb # "post" => head = 0

\* The tasks from the node h on, along the links.
From(links, h) ==
    LET from[n \in Nodes] ==
            [t \in Nodes |-> IF t = 0 \/ n = 0 THEN <<>>
                             ELSE <<t>> \o from[n - 1][links[t]]]
    IN  from[MaxTasks][h]

Queue == From(next, head)

\* "add task to thread's queue" (dbserver.c:368): a task that was added is on the
\* queue, in the worker's hands, or handled.
NoneLost ==
    \A t \in 1 .. task :
        \/ t = task /\ cb \notin {"idle", "post"}
        \/ \E i \in DOMAIN Queue : Queue[i] = t
        \/ pc \in {"free", "conduct"} /\ t = nptr
        \/ \E i \in DOMAIN handled : handled[i] = t

Added == IF cb \in {"idle", "post"} THEN task ELSE task - 1

Removing == IF pc \in {"free", "conduct"} THEN <<nptr>> ELSE <<>>

\* The queue that one client sees.
Abstract ==
    INSTANCE TaskQueue WITH
        arrived <- IF senders = 1 THEN Added ELSE 0,
        queue   <- IF senders = 1 THEN Removing \o Queue ELSE <<>>,
        handled <- IF senders = 1 THEN handled ELSE <<>>

\* With one request at a time for a worker, the chain, its unlocked updates and
\* the semaphore are a queue that loses nothing and is always emptied.
ImplementsQueue == Abstract!Spec
=============================================================================
