--------------------------- MODULE DispatchProofs ---------------------------
(***************************************************************************)
(* Proofs about Dispatch, for every number of clients, requests and posts  *)
(* left over: the types, the order of handling, that a sleeping worker has *)
(* nothing to do, and that the chain of one client is a queue.             *)
(*                                                                         *)
(* Dispatch takes the entries of one worker in thread_msg_table as a queue *)
(* by itself, whatever the other workers' entries do.  That calls made one *)
(* at a time allow this is a fact about the table of src/hash.c, proved at *)
(* the end: HashTableSpec, for all keys, values and hash functions.        *)
(***************************************************************************)
EXTENDS Dispatch, HashTableSpec, SequenceFacts, TLAPS

\* The elements of a sequence.
LEMMA ElementsOf ==
  ASSUME NEW S, NEW s \in Seq(S)
  PROVE  \A i \in DOMAIN s : s[i] \in S
  OBVIOUS

Holding == pc \in {"load", "store", "free", "conduct"}

\* Every address in use is that of a task added so far; links lead to later tasks.
Linked ==
    /\ cb # "idle" => task > 0
    /\ live \subseteq 1 .. Added
    /\ head \in 0 .. Added /\ nptr \in 0 .. Added
    /\ \A t \in 1 .. MaxTasks : next[t] = 0 \/ (t < next[t] /\ next[t] <= Added)

\* The worker holds the first node until it has stored the head; no task is
\* stored as the first while it does.
Held ==
    /\ Holding => nptr > 0
    /\ pc \in {"load", "store"} => head = nptr
    /\ cb = "set_head" => head = 0
    /\ pc = "store" => nextp = 0 \/ (nptr < nextp /\ nextp <= Added)
    /\ pc \in {"free", "conduct"} => head = 0 \/ nptr < head

\* What was handled came before what is first in the queue or in hand.
Older ==
    \A i \in DOMAIN handled :
        /\ handled[i] <= Added
        /\ head # 0 => handled[i] < head
        /\ Holding => handled[i] < nptr

IInv == TypeOK /\ Linked /\ Held /\ Older /\ HandledInOrder /\ NoneLeftBehind

\* The initial states satisfy the invariant.
LEMMA InitIInv == Init => IInv
<1>. SUFFICES ASSUME Init PROVE IInv
  OBVIOUS
<1>1. TypeOK
  <2>1. handled \in Seq(1 .. MaxTasks)
    BY DEF Init
  <2>2. sem \in Nat /\ head \in Nodes /\ next \in [1 .. MaxTasks -> Nodes]
    BY DispatchAssumption DEF Init, Nodes
  <2>. QED
    BY <2>1, <2>2, DispatchAssumption DEF Init, TypeOK, Nodes
<1>2. Linked /\ Held /\ NoneLeftBehind
  BY DispatchAssumption DEF Init, Linked, Held, Holding, NoneLeftBehind, Added
<1>3. Older /\ HandledInOrder
  BY DEF Init, Older, HandledInOrder
<1>. QED
  BY <1>1, <1>2, <1>3 DEF IInv

\* The types after a step of the event thread.
LEMMA EventTypes == IInv /\ (Receive \/ EventStep) => TypeOK'
<1>. SUFFICES ASSUME IInv, Receive \/ EventStep PROVE TypeOK'
  OBVIOUS
<1>0. TypeOK /\ (cb # "idle" => task \in 1 .. MaxTasks)
  BY DispatchAssumption DEF IInv, TypeOK, Nodes, Linked
<1>1. CASE Receive
  BY <1>0, <1>1, DispatchAssumption DEF TypeOK, Nodes, Receive, chain, worker
<1>2. CASE ReadHead
  BY <1>0, <1>2, DispatchAssumption DEF TypeOK, Nodes, ReadHead, chain, worker
<1>3. CASE SetHead
  BY <1>0, <1>3, DispatchAssumption DEF TypeOK, Nodes, SetHead, worker
<1>4. CASE Walk
  BY <1>0, <1>4, DispatchAssumption DEF TypeOK, Nodes, Walk, chain, worker
<1>5. CASE AppendNode
  BY <1>0, <1>5, DispatchAssumption DEF TypeOK, Nodes, AppendNode, worker
<1>6. CASE UseFreed
  BY <1>0, <1>6, DispatchAssumption DEF TypeOK, Nodes, UseFreed, chain, event, worker
<1>7. CASE Post
  BY <1>0, <1>7, DispatchAssumption DEF TypeOK, Nodes, Post, chain, worker
<1>. QED
  BY <1>1, <1>2, <1>3, <1>4, <1>5, <1>6, <1>7 DEF EventStep

\* The types after a step of the worker.
LEMMA WorkerTypes == IInv /\ Thread_DB => TypeOK'
<1>. SUFFICES ASSUME IInv, Thread_DB PROVE TypeOK'
  OBVIOUS
<1>0. TypeOK /\ (Holding => nptr \in 1 .. MaxTasks)
  BY DispatchAssumption DEF IInv, TypeOK, Nodes, Held
<1>1. CASE SemWait
  BY <1>0, <1>1 DEF TypeOK, Nodes, SemWait, chain, event
<1>2. CASE GetTask
  BY <1>0, <1>2 DEF TypeOK, Nodes, GetTask, chain, event
<1>3. CASE LoadNext
  BY <1>0, <1>3 DEF TypeOK, Nodes, LoadNext, chain, event, Holding
<1>4. CASE StoreHead
  BY <1>0, <1>4 DEF TypeOK, Nodes, StoreHead, event
<1>5. CASE FreeNode
  BY <1>0, <1>5 DEF TypeOK, Nodes, FreeNode, event
<1>6. CASE Conduct
  BY <1>0, <1>6 DEF TypeOK, Nodes, Conduct, chain, event, Holding
<1>. QED
  BY <1>1, <1>2, <1>3, <1>4, <1>5, <1>6 DEF Thread_DB

\* A step of the event thread keeps the rest of the invariant.
LEMMA EventKeeps ==
  IInv /\ (Receive \/ EventStep) => (Linked /\ Held /\ Older /\ HandledInOrder /\ NoneLeftBehind)'
<1>. SUFFICES ASSUME IInv, Receive \/ EventStep
              PROVE  (Linked /\ Held /\ Older /\ HandledInOrder /\ NoneLeftBehind)'
  OBVIOUS
<1>0. /\ TypeOK /\ Linked /\ Held /\ Older /\ HandledInOrder /\ NoneLeftBehind
      /\ pc' = pc /\ nptr' = nptr /\ nextp' = nextp /\ handled' = handled
      /\ \A i \in DOMAIN handled : handled[i] \in 1 .. MaxTasks
  <2>1. pc' = pc /\ nptr' = nptr /\ nextp' = nextp /\ handled' = handled
    BY DEF Receive, EventStep, ReadHead, SetHead, Walk, AppendNode, UseFreed, Post,
           worker
  <2>2. \A i \in DOMAIN handled : handled[i] \in 1 .. MaxTasks
    <3>1. handled \in Seq(1 .. MaxTasks)
      BY DEF IInv, TypeOK
    <3>. QED
      BY <3>1, ElementsOf
  <2>. QED
    BY <2>1, <2>2 DEF IInv
<1>. USE DispatchAssumption DEF TypeOK, Nodes, Linked, Held, Holding, Older, Added
<1>1. CASE Receive
  <2>1. Linked'
    BY <1>0, <1>1 DEF Receive, chain
  <2>2. Held'
    BY <1>0, <1>1 DEF Receive, chain
  <2>3. Older'
    BY <1>0, <1>1 DEF Receive, chain
  <2>4. NoneLeftBehind'
    BY <1>0, <1>1 DEF Receive, chain, NoneLeftBehind
  <2>. QED
    BY <1>0, <2>1, <2>2, <2>3, <2>4 DEF HandledInOrder
<1>2. CASE ReadHead
  <2>1. Linked'
    BY <1>0, <1>2 DEF ReadHead, chain
  <2>2. Held'
    BY <1>0, <1>2 DEF ReadHead, chain
  <2>3. Older'
    BY <1>0, <1>2 DEF ReadHead, chain
  <2>4. NoneLeftBehind'
    BY <1>0, <1>2 DEF ReadHead, chain, NoneLeftBehind
  <2>. QED
    BY <1>0, <2>1, <2>2, <2>3, <2>4 DEF HandledInOrder
<1>3. CASE SetHead
  <2>1. Linked'
    BY <1>0, <1>3 DEF SetHead
  <2>2. Held'
    BY <1>0, <1>3 DEF SetHead
  <2>3. Older'
    <3>1. Added' = task /\ head' = task /\ Added = task - 1 /\ task \in Nat
      BY <1>0, <1>3 DEF SetHead
    <3>2. ASSUME NEW i \in DOMAIN handled
          PROVE  handled[i] <= task /\ handled[i] < task /\ (Holding => handled[i] < nptr)
      <4>1. handled[i] \in Int /\ handled[i] <= Added /\ (Holding => handled[i] < nptr)
        BY <1>0
      <4> HIDE DEF Holding, Added
      <4>. QED
        BY <3>1, <4>1
    <3>. QED
      BY <1>0, <3>1, <3>2
  <2>4. NoneLeftBehind'
    BY <1>0, <1>3 DEF SetHead, NoneLeftBehind
  <2>. QED
    BY <1>0, <2>1, <2>2, <2>3, <2>4 DEF HandledInOrder
<1>4. CASE Walk
  <2>1. Linked'
    BY <1>0, <1>4 DEF Walk, chain
  <2>2. Held'
    BY <1>0, <1>4 DEF Walk, chain
  <2>3. Older'
    BY <1>0, <1>4 DEF Walk, chain
  <2>4. NoneLeftBehind'
    BY <1>0, <1>4 DEF Walk, chain, NoneLeftBehind
  <2>. QED
    BY <1>0, <2>1, <2>2, <2>3, <2>4 DEF HandledInOrder
<1>5. CASE AppendNode
  <2>1. Linked'
    BY <1>0, <1>5 DEF AppendNode
  <2>2. Held'
    BY <1>0, <1>5 DEF AppendNode
  <2>3. Older'
    BY <1>0, <1>5 DEF AppendNode
  <2>4. NoneLeftBehind'
    BY <1>0, <1>5 DEF AppendNode, NoneLeftBehind
  <2>. QED
    BY <1>0, <2>1, <2>2, <2>3, <2>4 DEF HandledInOrder
<1>6. CASE UseFreed
  <2>1. Linked'
    BY <1>0, <1>6 DEF UseFreed, chain, event
  <2>2. Held'
    BY <1>0, <1>6 DEF UseFreed, chain, event
  <2>3. Older'
    BY <1>0, <1>6 DEF UseFreed, chain, event
  <2>4. NoneLeftBehind'
    BY <1>0, <1>6 DEF UseFreed, chain, event, NoneLeftBehind
  <2>. QED
    BY <1>0, <2>1, <2>2, <2>3, <2>4 DEF HandledInOrder
<1>7. CASE Post
  <2>1. Linked'
    BY <1>0, <1>7 DEF Post, chain
  <2>2. Held'
    BY <1>0, <1>7 DEF Post, chain
  <2>3. Older'
    BY <1>0, <1>7 DEF Post, chain
  <2>4. NoneLeftBehind'
    BY <1>0, <1>7 DEF Post, chain, NoneLeftBehind
  <2>. QED
    BY <1>0, <2>1, <2>2, <2>3, <2>4 DEF HandledInOrder
<1>. QED
  BY <1>1, <1>2, <1>3, <1>4, <1>5, <1>6, <1>7 DEF EventStep

\* A step of the worker keeps the rest of the invariant.
LEMMA WorkerKeeps ==
  IInv /\ Thread_DB => (Linked /\ Held /\ Older /\ HandledInOrder /\ NoneLeftBehind)'
<1>. SUFFICES ASSUME IInv, Thread_DB
              PROVE  (Linked /\ Held /\ Older /\ HandledInOrder /\ NoneLeftBehind)'
  OBVIOUS
<1>0. /\ TypeOK /\ Linked /\ Held /\ Older /\ HandledInOrder /\ NoneLeftBehind
      /\ next' = next /\ cb' = cb /\ task' = task /\ link' = link
      /\ \A i \in DOMAIN handled : handled[i] \in 1 .. MaxTasks
  <2>1. next' = next /\ cb' = cb /\ task' = task /\ link' = link
    BY DEF Thread_DB, SemWait, GetTask, LoadNext, StoreHead, FreeNode, Conduct,
           chain, event
  <2>2. \A i \in DOMAIN handled : handled[i] \in 1 .. MaxTasks
    <3>1. handled \in Seq(1 .. MaxTasks)
      BY DEF IInv, TypeOK
    <3>. QED
      BY <3>1, ElementsOf
  <2>. QED
    BY <2>1, <2>2 DEF IInv
<1>1. CASE Conduct
  <2>1. /\ UNCHANGED <<head, live, nptr, nextp>> /\ Added' = Added
        /\ pc = "conduct" /\ pc' = "get" /\ handled' = Append(handled, nptr)
    BY <1>0, <1>1 DEF Conduct, chain, event, Added
  <2>2. nptr \in 1 .. MaxTasks /\ nptr <= Added
    BY <1>0, <2>1, DispatchAssumption DEF TypeOK, Nodes, Linked, Held, Holding, Added
  <2>3. /\ handled \in Seq(1 .. MaxTasks)
        /\ DOMAIN handled' = 1 .. Len(handled) + 1
        /\ \A i \in DOMAIN handled' :
             \/ i \in DOMAIN handled /\ handled'[i] = handled[i] /\ handled[i] < nptr
             \/ i = Len(handled) + 1 /\ handled'[i] = nptr
    BY <1>0, <2>1, <2>2 DEF TypeOK, Older, Holding
  <2>4. Linked' /\ Held' /\ NoneLeftBehind'
    BY <1>0, <2>1 DEF Linked, Held, Holding, NoneLeftBehind
  <2>5. Older'
    BY <1>0, <2>1, <2>2, <2>3, DispatchAssumption
    DEF TypeOK, Nodes, Linked, Held, Older, Holding, Added
  <2>6. HandledInOrder'
    <3>. SUFFICES ASSUME NEW i \in DOMAIN handled', NEW j \in DOMAIN handled', i < j
                  PROVE  handled'[i] < handled'[j]
      BY DEF HandledInOrder
    <3>1. i \in DOMAIN handled /\ handled'[i] = handled[i] /\ handled[i] < nptr
      BY <2>3
    <3>. QED
      BY <1>0, <2>3, <3>1 DEF HandledInOrder
  <2>. QED
    BY <2>4, <2>5, <2>6
<1>2. CASE SemWait
  <2>1. Linked'
    BY <1>0, <1>2, DispatchAssumption
    DEF TypeOK, Nodes, Linked, Held, Holding, Older, Added, SemWait, chain, event
  <2>2. Held'
    BY <1>0, <1>2, DispatchAssumption
    DEF TypeOK, Nodes, Linked, Held, Holding, Older, Added, SemWait, chain, event
  <2>3. Older'
    BY <1>0, <1>2, DispatchAssumption
    DEF TypeOK, Nodes, Linked, Held, Holding, Older, Added, SemWait, chain, event
  <2>4. NoneLeftBehind'
    BY <1>0, <1>2, DispatchAssumption
    DEF TypeOK, Nodes, Linked, Held, Holding, Older, Added, NoneLeftBehind, SemWait, chain, event
  <2>5. HandledInOrder'
    BY <1>0, <1>2 DEF HandledInOrder, SemWait
  <2>. QED
    BY <2>1, <2>2, <2>3, <2>4, <2>5
<1>3. CASE GetTask
  <2>1. Linked'
    BY <1>0, <1>3, DispatchAssumption
    DEF TypeOK, Nodes, Linked, Held, Holding, Older, Added, GetTask, chain, event
  <2>2. Held'
    BY <1>0, <1>3, DispatchAssumption
    DEF TypeOK, Nodes, Linked, Held, Holding, Older, Added, GetTask, chain, event
  <2>3. Older'
    BY <1>0, <1>3, DispatchAssumption
    DEF TypeOK, Nodes, Linked, Held, Holding, Older, Added, GetTask, chain, event
  <2>4. NoneLeftBehind'
    BY <1>0, <1>3, DispatchAssumption
    DEF TypeOK, Nodes, Linked, Held, Holding, Older, Added, NoneLeftBehind, GetTask, chain, event
  <2>5. HandledInOrder'
    BY <1>0, <1>3 DEF HandledInOrder, GetTask
  <2>. QED
    BY <2>1, <2>2, <2>3, <2>4, <2>5
<1>4. CASE LoadNext
  <2>1. Linked'
    BY <1>0, <1>4, DispatchAssumption
    DEF TypeOK, Nodes, Linked, Held, Holding, Older, Added, LoadNext, chain, event
  <2>2. Held'
    BY <1>0, <1>4, DispatchAssumption
    DEF TypeOK, Nodes, Linked, Held, Holding, Older, Added, LoadNext, chain, event
  <2>3. Older'
    BY <1>0, <1>4, DispatchAssumption
    DEF TypeOK, Nodes, Linked, Held, Holding, Older, Added, LoadNext, chain, event
  <2>4. NoneLeftBehind'
    BY <1>0, <1>4, DispatchAssumption
    DEF TypeOK, Nodes, Linked, Held, Holding, Older, Added, NoneLeftBehind, LoadNext, chain, event
  <2>5. HandledInOrder'
    BY <1>0, <1>4 DEF HandledInOrder, LoadNext
  <2>. QED
    BY <2>1, <2>2, <2>3, <2>4, <2>5
<1>5. CASE StoreHead
  <2>1. Linked'
    BY <1>0, <1>5, DispatchAssumption
    DEF TypeOK, Nodes, Linked, Held, Holding, Older, Added, StoreHead, event
  <2>2. Held'
    BY <1>0, <1>5, DispatchAssumption
    DEF TypeOK, Nodes, Linked, Held, Holding, Older, Added, StoreHead, event
  <2>3. Older'
    BY <1>0, <1>5, DispatchAssumption
    DEF TypeOK, Nodes, Linked, Held, Holding, Older, Added, StoreHead, event
  <2>4. NoneLeftBehind'
    BY <1>0, <1>5, DispatchAssumption
    DEF TypeOK, Nodes, Linked, Held, Holding, Older, Added, NoneLeftBehind, StoreHead, event
  <2>5. HandledInOrder'
    BY <1>0, <1>5 DEF HandledInOrder, StoreHead
  <2>. QED
    BY <2>1, <2>2, <2>3, <2>4, <2>5
<1>6. CASE FreeNode
  <2>1. Linked'
    BY <1>0, <1>6, DispatchAssumption
    DEF TypeOK, Nodes, Linked, Held, Holding, Older, Added, FreeNode, event
  <2>2. Held'
    BY <1>0, <1>6, DispatchAssumption
    DEF TypeOK, Nodes, Linked, Held, Holding, Older, Added, FreeNode, event
  <2>3. Older'
    BY <1>0, <1>6, DispatchAssumption
    DEF TypeOK, Nodes, Linked, Held, Holding, Older, Added, FreeNode, event
  <2>4. NoneLeftBehind'
    BY <1>0, <1>6, DispatchAssumption
    DEF TypeOK, Nodes, Linked, Held, Holding, Older, Added, NoneLeftBehind, FreeNode, event
  <2>5. HandledInOrder'
    BY <1>0, <1>6 DEF HandledInOrder, FreeNode
  <2>. QED
    BY <2>1, <2>2, <2>3, <2>4, <2>5
<1>. QED
  BY <1>1, <1>2, <1>3, <1>4, <1>5, <1>6 DEF Thread_DB

\* The invariant is inductive.
LEMMA NextIInv == IInv /\ [Next]_vars => IInv'
<1>. SUFFICES ASSUME IInv, [Next]_vars PROVE IInv'
  OBVIOUS
<1>1. CASE Receive \/ EventStep
  BY <1>1, EventTypes, EventKeeps DEF IInv
<1>2. CASE Thread_DB
  BY <1>2, WorkerTypes, WorkerKeeps DEF IInv
<1>3. CASE UNCHANGED vars
  BY <1>3
  DEF IInv, TypeOK, Linked, Held, Holding, Older, HandledInOrder, NoneLeftBehind,
      Added, vars, chain, event, worker
<1>. QED
  BY <1>1, <1>2, <1>3 DEF Next

\* It holds in every reachable state.
LEMMA Invariant == Spec => []IInv
  BY InitIInv, NextIInv, PTL DEF Spec

\* The variables of the queue keep their types: no address but those of tasks is
\* ever followed (hash.c:109-203, dbserver.c:287-296).
THEOREM TypeCorrect == Spec => []TypeOK
<1>1. IInv => TypeOK
  BY DEF IInv
<1>. QED
  BY <1>1, Invariant, PTL

\* Up to the first use of freed memory a worker handles every task at most once and
\* in the order of arrival (dbserver.c:290-295), for any number of requests under way.
THEOREM InOrder == Spec => []HandledInOrder
<1>1. IInv => HandledInOrder
  BY DEF IInv
<1>. QED
  BY <1>1, Invariant, PTL

\* A worker that sleeps with nothing to wake it has an empty queue, although one post
\* may stand for many tasks and many posts for none (dbserver.c:287-296, 375).
THEOREM NoTaskLeft == Spec => []NoneLeftBehind
<1>1. IInv => NoneLeftBehind
  BY DEF IInv
<1>. QED
  BY <1>1, Invariant, PTL

-----------------------------------------------------------------------------
(* With one client the chain is a queue.                                   *)

\* At most one task is under way: it is the only node of the chain, or in the
\* worker's hands, and the event thread never walks the chain.
One ==
    /\ \A t \in 1 .. MaxTasks : next[t] = 0
    /\ cb \notin {"walk", "append"}
    /\ nextp = 0
    /\ IF Added = Len(handled)
       THEN head = 0 /\ pc \in {"wait", "get"}
       ELSE /\ Added = Len(handled) + 1 /\ cb \in {"idle", "post"}
            /\ IF pc \in {"free", "conduct"} THEN head = 0 /\ nptr = Added
               ELSE head = Added

OneSender == senders = 1 => One

\* A step with one client.
LEMMA OneStep ==
  ASSUME IInv, OneSender, [Next]_vars
  PROVE  OneSender'
<1>0. /\ senders' = senders /\ TypeOK /\ Linked /\ Held
      /\ handled \in Seq(1 .. MaxTasks) /\ Len(handled) \in Nat
      /\ task \in Nat /\ head \in Nat /\ nptr \in Nat
  <2>1. handled \in Seq(1 .. MaxTasks)
    BY DEF IInv, TypeOK
  <2>2. senders' = senders
    BY DEF Next, Receive, EventStep, ReadHead, SetHead, Walk, AppendNode, UseFreed, Post,
           Thread_DB, SemWait, GetTask, LoadNext, StoreHead, FreeNode, Conduct, vars
  <2>. QED
    BY <2>1, <2>2, LenProperties, DispatchAssumption DEF IInv, TypeOK, Nodes
<1>. SUFFICES ASSUME senders = 1 PROVE One'
  BY <1>0 DEF OneSender
<1>1. One
  BY DEF OneSender
<1>2. CASE UNCHANGED vars
  BY <1>1, <1>2 DEF One, vars, chain, event, worker, Added
<1>3. CASE Receive
  BY <1>0, <1>1, <1>3 DEF One, Added, Receive, chain, worker
<1>4. CASE ReadHead
  BY <1>0, <1>1, <1>4 DEF One, Added, ReadHead, chain, worker
<1>5. CASE SetHead
  BY <1>0, <1>1, <1>5 DEF One, Added, SetHead, worker
<1>6. CASE Walk \/ AppendNode \/ UseFreed
  BY <1>1, <1>6 DEF One, Walk, AppendNode, UseFreed
<1>7. CASE Post
  BY <1>0, <1>1, <1>7 DEF One, Added, Post, chain, worker
<1>8. CASE SemWait
  BY <1>0, <1>1, <1>8 DEF One, Added, SemWait, chain, event
<1>9. CASE GetTask
  BY <1>0, <1>1, <1>9 DEF One, Added, GetTask, chain, event
<1>10. CASE LoadNext
  <2>1. nptr \in 1 .. MaxTasks
    BY <1>0, <1>10, DispatchAssumption DEF LoadNext, Held, Holding, TypeOK, Nodes
  <2>. QED
    BY <1>0, <1>1, <1>10, <2>1 DEF One, Added, LoadNext, chain, event
<1>11. CASE StoreHead
  BY <1>0, <1>1, <1>11 DEF One, Added, StoreHead, event, Held
<1>12. CASE FreeNode
  BY <1>0, <1>1, <1>12 DEF One, Added, FreeNode, event
<1>13. CASE Conduct
  <2>1. Len(handled') = Len(handled) + 1
    <3>1. handled' = Append(handled, nptr) /\ nptr \in 1 .. MaxTasks
      BY <1>0, <1>13, DispatchAssumption DEF Conduct, Held, Holding, TypeOK, Nodes
    <3>. QED
      BY <1>0, <3>1, AppendProperties
  <2>. QED
    BY <1>0, <1>1, <1>13, <2>1 DEF One, Added, Conduct, chain, event
<1>. QED
  BY <1>2, <1>3, <1>4, <1>5, <1>6, <1>7, <1>8, <1>9, <1>10, <1>11, <1>12, <1>13
  DEF Next, EventStep, Thread_DB

\* The tasks along links that go nowhere.
LEMMA FromIs ==
  ASSUME NEW links \in [1 .. MaxTasks -> Nodes], NEW h \in Nodes, h # 0 => links[h] = 0
  PROVE  From(links, h) = IF h = 0 THEN <<>> ELSE <<h>>
<1> DEFINE Row(f, n) == [t \in Nodes |-> IF t = 0 \/ n = 0 THEN <<>>
                                         ELSE <<t>> \o f[n - 1][links[t]]]
           D == [Nodes -> Seq(Nodes)]
           F == [i \in 1 .. MaxTasks |-> [r \in D |->
                   [t \in Nodes |-> IF t = 0 THEN <<>> ELSE <<t>> \o r[links[t]]]]]
           d == [t \in Nodes |-> <<>>]
           from == CHOOSE f : f = [n \in Nodes |-> Row(f, n)]
<1>1. MaxTasks \in Nat /\ Nodes = 0 .. MaxTasks
  BY DispatchAssumption DEF Nodes
<1>2. d \in D
  OBVIOUS
<1>3. ASSUME NEW i \in 1 .. MaxTasks PROVE F[i] \in [D -> D]
  <2>1. ASSUME NEW r \in D, NEW t \in Nodes, t # 0 PROVE <<t>> \o r[links[t]] \in Seq(Nodes)
    <3>1. PICK s \in Seq(Nodes) : s = r[links[t]]
      BY <1>1, <2>1
    <3>2. <<t>> \in Seq(Nodes)
      OBVIOUS
    <3>. QED
      BY <3>1, <3>2, ConcatProperties
  <2>2. <<>> \in Seq(Nodes)
    OBVIOUS
  <2>. QED
    BY <2>1, <2>2
<1>4. PICK g : g \in [0 .. MaxTasks -> D] /\ Iterate(g, d, F, MaxTasks)
  <2> HIDE DEF D, F, d
  <2>. QED
    BY <1>1, <1>2, <1>3, Iterates
<1>5. g = [n \in Nodes |-> Row(g, n)]
  <2>1. ASSUME NEW n \in Nodes PROVE g[n] = Row(g, n)
    <3>1. CASE n = 0
      BY <1>4, <3>1 DEF Iterate
    <3>2. CASE n # 0
      <4>1. n \in 1 .. MaxTasks /\ n - 1 \in 0 .. MaxTasks
        BY <1>1, <3>2
      <4>2. g[n] = F[n][g[n - 1]] /\ g[n - 1] \in D
        BY <1>4, <4>1 DEF Iterate
      <4>. QED
        BY <3>2, <4>1, <4>2
    <3>. QED
      BY <3>1, <3>2
  <2>. QED
    BY <1>1, <1>4, <2>1
<1>6. from = [n \in Nodes |-> Row(from, n)]
  BY <1>5
<1>7. From(links, h) = from[MaxTasks][h]
  BY DEF From
<1> HIDE DEF from, D, F, d
<1>8. \A n \in Nodes, t \in Nodes :
        from[n][t] = IF t = 0 \/ n = 0 THEN <<>> ELSE <<t>> \o from[n - 1][links[t]]
  <2>1. \A n \in Nodes : from[n] = Row(from, n)
    <3> HIDE DEF Row
    <3>. QED
      BY <1>6
  <2>2. ASSUME NEW n \in Nodes, NEW t \in Nodes
        PROVE  from[n][t] = IF t = 0 \/ n = 0 THEN <<>> ELSE <<t>> \o from[n - 1][links[t]]
    <3>1. from[n] = Row(from, n)
      BY <2>1
    <3>2. Row(from, n)[t] = IF t = 0 \/ n = 0 THEN <<>> ELSE <<t>> \o from[n - 1][links[t]]
      OBVIOUS
    <3> HIDE DEF Row
    <3>. QED
      BY <3>1, <3>2, Zenon
  <2>. QED
    BY <2>2
<1>9. CASE h = 0
  <2>1. MaxTasks \in Nodes /\ 0 \in Nodes
    BY <1>1
  <2>2. from[MaxTasks][0] = <<>>
    BY <1>8, <2>1
  <2>. QED
    BY <1>7, <1>9, <2>2
<1>10. CASE h # 0
  <2>1. MaxTasks \in Nodes /\ MaxTasks # 0 /\ MaxTasks - 1 \in Nodes /\ 0 \in Nodes
    BY <1>1, <1>10
  <2>2. from[MaxTasks][h] = <<h>> \o from[MaxTasks - 1][links[h]]
    BY <1>8, <1>10, <2>1
  <2>3. from[MaxTasks - 1][links[h]] = <<>>
    BY <1>8, <1>10, <2>1
  <2>4. <<h>> \o <<>> = <<h>>
    OBVIOUS
  <2>. QED
    BY <1>7, <1>10, <2>2, <2>3, <2>4
<1>. QED
  BY <1>9, <1>10

\* The queue, and what the worker has of it in hand.
Short == Removing \o Queue = IF Added = Len(handled) THEN <<>> ELSE <<Added>>

LEMMA QueueIsShort == TypeOK /\ One => Short
<1>. SUFFICES ASSUME TypeOK, One PROVE Short
  OBVIOUS
<1>1. next \in [1 .. MaxTasks -> Nodes] /\ head \in Nodes /\ (head # 0 => next[head] = 0)
  BY DispatchAssumption DEF TypeOK, One, Nodes
<1>2. Queue = IF head = 0 THEN <<>> ELSE <<head>>
  <2>1. PICK links \in [1 .. MaxTasks -> Nodes], h \in Nodes : links = next /\ h = head
    BY <1>1
  <2>. QED
    BY <1>1, <2>1, FromIs DEF Queue
<1>3. CASE Added = Len(handled)
  <2>1. Removing = <<>> /\ Queue = <<>>
    BY <1>2, <1>3 DEF One, Removing
  <2>. QED
    BY <1>3, <2>1 DEF Short
<1>4. CASE Added # Len(handled) /\ pc \in {"free", "conduct"}
  <2>1. Removing = <<Added>> /\ Queue = <<>>
    BY <1>2, <1>4 DEF One, Removing
  <2>. QED
    BY <1>4, <2>1 DEF Short
<1>5. CASE Added # Len(handled) /\ pc \notin {"free", "conduct"}
  <2>1. Added > 0
    <3>1. Len(handled) \in Nat /\ Added = Len(handled) + 1
      BY <1>5, LenProperties DEF One, TypeOK
    <3>. QED
      BY <3>1
  <2>2. Removing = <<>> /\ Queue = <<Added>>
    BY <1>2, <1>5, <2>1 DEF One, Removing
  <2>. QED
    BY <1>5, <2>2 DEF Short
<1>. QED
  BY <1>3, <1>4, <1>5

\* Every step adds a task, gives one to RequestConduct, or is none of the queue's.
LEMMA OneCounts ==
  ASSUME IInv, One, senders = 1, [Next]_vars
  PROVE  /\ senders' = senders
         /\ \/ Added' = Added /\ handled' = handled
            \/ Added' = Added + 1 /\ handled' = handled /\ Added = Len(handled)
            \/ /\ Added' = Added /\ handled' = Append(handled, Added)
               /\ Added = Len(handled) + 1
<1>0. task \in Nat /\ Len(handled) \in Nat
  BY LenProperties, DispatchAssumption DEF IInv, TypeOK, Nodes
<1>1. CASE UNCHANGED vars
  BY <1>1 DEF vars, event, Added
<1>2. CASE Receive
  BY <1>0, <1>2 DEF Added, Receive
<1>3. CASE ReadHead
  BY <1>3 DEF Added, ReadHead, worker
<1>4. CASE SetHead
  BY <1>0, <1>4 DEF One, Added, SetHead, worker
<1>5. CASE Walk \/ AppendNode \/ UseFreed
  BY <1>5 DEF One, Walk, AppendNode, UseFreed
<1>6. CASE Post
  BY <1>6 DEF Added, Post, worker
<1>7. CASE SemWait \/ GetTask \/ LoadNext \/ StoreHead \/ FreeNode
  BY <1>7 DEF Added, SemWait, GetTask, LoadNext, StoreHead, FreeNode, event
<1>8. CASE Conduct
  BY <1>0, <1>8 DEF One, Added, Conduct, event
<1>. QED
  BY <1>1, <1>2, <1>3, <1>4, <1>5, <1>6, <1>7, <1>8 DEF Next, EventStep, Thread_DB

QueueInv == IInv /\ OneSender /\ (senders = 1 => Short)

\* Every step of the threads is one of the queue, or none.
LEMMA QueueStep ==
  QueueInv /\ QueueInv' /\ [Next]_vars => [Abstract!Arrive \/ Abstract!Handle]_Abstract!vars
<1>. SUFFICES ASSUME QueueInv, QueueInv', [Next]_vars
              PROVE  [Abstract!Arrive \/ Abstract!Handle]_Abstract!vars
  OBVIOUS
<1>1. CASE senders # 1
  <2>1. senders' = senders
    BY DEF Next, Receive, EventStep, ReadHead, SetHead, Walk, AppendNode, UseFreed, Post,
           Thread_DB, SemWait, GetTask, LoadNext, StoreHead, FreeNode, Conduct, vars
  <2>. QED
    BY <1>1, <2>1 DEF Abstract!vars
<1>2. CASE senders = 1
  <2>1. /\ senders' = senders
        /\ \/ Added' = Added /\ handled' = handled
           \/ Added' = Added + 1 /\ handled' = handled /\ Added = Len(handled)
           \/ /\ Added' = Added /\ handled' = Append(handled, Added)
              /\ Added = Len(handled) + 1
    BY <1>2, OneCounts DEF QueueInv, OneSender
  <2>2. /\ Removing \o Queue = IF Added = Len(handled) THEN <<>> ELSE <<Added>>
        /\ (Removing \o Queue)' = IF Added' = Len(handled') THEN <<>> ELSE <<Added'>>
    BY <1>2, <2>1 DEF QueueInv, Short
  <2>3. handled \in Seq(1 .. MaxTasks) /\ Len(handled) \in Nat /\ Added \in Int
    BY LenProperties, DispatchAssumption DEF QueueInv, IInv, TypeOK, Nodes, Added
  <2>4. PICK q, r : q = Removing \o Queue /\ r = (Removing \o Queue)'
    OBVIOUS
  <2>. HIDE DEF Added, Removing, Queue
  <2>5. CASE Added' = Added /\ handled' = handled
    <3>1. r = q
      BY <2>2, <2>4, <2>5
    <3>. QED
      BY <1>2, <2>1, <2>4, <2>5, <3>1 DEF Abstract!vars
  <2>6. CASE Added' = Added + 1 /\ handled' = handled /\ Added = Len(handled)
    <3>1. q = <<>> /\ r = <<Added + 1>>
      BY <2>2, <2>3, <2>4, <2>6
    <3>2. r = Append(q, Added + 1)
      BY <3>1
    <3>3. Abstract!Arrive
      BY <1>2, <2>1, <2>4, <2>6, <3>2 DEF Abstract!Arrive
    <3>. QED
      BY <3>3
  <2>7. CASE Added' = Added /\ handled' = Append(handled, Added) /\ Added = Len(handled) + 1
    <3>1. Len(handled') = Len(handled) + 1
      BY <2>3, <2>7
    <3>2. q = <<Added>> /\ r = <<>>
      BY <2>2, <2>3, <2>4, <2>7, <3>1
    <3>3. q # <<>> /\ Head(q) = Added /\ r = Tail(q)
      BY <3>2
    <3>4. Abstract!Handle
      BY <1>2, <2>1, <2>4, <2>7, <3>3 DEF Abstract!Handle
    <3>. QED
      BY <3>4
  <2>. QED
    BY <2>1, <2>5, <2>6, <2>7
<1>. QED
  BY <1>1, <1>2

\* With one request at a time for a worker, the chain and its unlocked updates are a
\* queue that loses nothing: every step of the event thread and of the worker adds a
\* task at the end, takes the first, or is no step of the queue.
THEOREM ChainIsQueue == Spec => Abstract!Safety
<1>1. Init => QueueInv /\ Abstract!Init
  <2>. SUFFICES ASSUME Init PROVE QueueInv /\ Abstract!Init
    OBVIOUS
  <2>1. IInv
    BY InitIInv
  <2>2. One /\ Added = 0
    BY DispatchAssumption DEF Init, One, Added
  <2>3. Short
    BY <2>1, <2>2, QueueIsShort DEF IInv
  <2>4. handled = <<>> /\ Len(handled) = 0
    BY DEF Init
  <2>5. Removing \o Queue = <<>>
    BY <2>2, <2>3, <2>4 DEF Short
  <2>. QED
    BY <2>1, <2>2, <2>3, <2>4, <2>5 DEF QueueInv, OneSender, Abstract!Init
<1>2. QueueInv /\ [Next]_vars => QueueInv'
  <2>. SUFFICES ASSUME QueueInv, [Next]_vars PROVE QueueInv'
    OBVIOUS
  <2>1. IInv'
    BY NextIInv DEF QueueInv
  <2>2. OneSender'
    BY OneStep DEF QueueInv
  <2>3. (TypeOK /\ One => Short)'
    BY QueueIsShort, PTL
  <2>. QED
    BY <2>1, <2>2, <2>3 DEF QueueInv, OneSender, IInv
<1>3. QueueInv /\ QueueInv' /\ [Next]_vars => [Abstract!Arrive \/ Abstract!Handle]_Abstract!vars
  BY QueueStep
<1>. QED
  BY <1>1, <1>2, <1>3, PTL DEF Spec, Abstract!Safety

-----------------------------------------------------------------------------
(* The hash table.                                                         *)

\* g[i] is what the first i nodes of the chain c bind to k.
Bound(g, c, k, V) ==
    /\ g \in [0 .. Len(c) -> Seq(V)]
    /\ g[0] = <<>>
    /\ \A i \in 1 .. Len(c) :
          g[i] = IF c[i].key = k THEN Append(g[i - 1], c[i].val) ELSE g[i - 1]

\* The nodes of a chain.
LEMMA NodesOf ==
    ASSUME NEW K, NEW V, NEW c \in Seq(Node(K, V))
    PROVE  Len(c) \in Nat /\ \A i \in 1 .. Len(c) : c[i].val \in V
  <1>1. Len(c) \in Nat /\ c \in [1 .. Len(c) -> Node(K, V)]
    BY LenProperties
  <1>2. ASSUME NEW i \in 1 .. Len(c) PROVE c[i].val \in V
    <2>1. c[i] \in Node(K, V)
      BY <1>1
    <2> QED BY <2>1 DEF Node
  <1> QED BY <1>1, <1>2

\* BoundIn is the last of them.
LEMMA BoundIs ==
    ASSUME NEW K, NEW V, NEW c \in Seq(Node(K, V)), NEW k
    PROVE  \E g : Bound(g, c, k, V) /\ BoundIn(c, k) = g[Len(c)]
  <1>1. Len(c) \in Nat /\ \A i \in 1 .. Len(c) : c[i].val \in V
    BY NodesOf
  <1> DEFINE F == [i \in 1 .. Len(c) |-> [b \in Seq(V) |->
                     IF c[i].key = k THEN Append(b, c[i].val) ELSE b]]
             Step(g, i) == IF i = 0 THEN <<>>
                           ELSE IF c[i].key = k THEN Append(g[i - 1], c[i].val)
                           ELSE g[i - 1]
             h == CHOOSE g : g = [i \in 0 .. Len(c) |-> Step(g, i)]
  <1>2. \A i \in 1 .. Len(c) : F[i] \in [Seq(V) -> Seq(V)]
    BY <1>1, AppendProperties
  <1>3. <<>> \in Seq(V)
    OBVIOUS
  <1>4. PICK g : g \in [0 .. Len(c) -> Seq(V)] /\ Iterate(g, <<>>, F, Len(c))
    <2> HIDE DEF F
    <2> QED BY <1>1, <1>2, <1>3, Iterates
  <1>5. g = [i \in 0 .. Len(c) |-> Step(g, i)]
    <2>1. \A i \in 0 .. Len(c) : i # 0 => i \in 1 .. Len(c) /\ i - 1 \in 0 .. Len(c)
      BY <1>1
    <2> QED BY <1>4, <2>1 DEF Iterate
  <1>6. h = [i \in 0 .. Len(c) |-> Step(h, i)]
    BY <1>5
  <1>7. BoundIn(c, k) = h[Len(c)]
    BY DEF BoundIn
  <1> HIDE DEF h
  <1>8. \A i \in 0 .. Len(c) : h[i] = Step(h, i)
    <2> HIDE DEF Step
    <2> QED BY <1>6
  <1>9. 0 \in 0 .. Len(c) /\ \A i \in 1 .. Len(c) : i \in 0 .. Len(c) /\ i # 0
    BY <1>1
  <1>10. h[0] = <<>>
    BY <1>8, <1>9
  <1>11. \A i \in 1 .. Len(c) :
            h[i] = IF c[i].key = k THEN Append(h[i - 1], c[i].val) ELSE h[i - 1]
    BY <1>8, <1>9
  <1> DEFINE T == {i \in 0 .. Len(c) : h[i] \in Seq(V)}
  <1>12. 0 \in T
    BY <1>3, <1>9, <1>10
  <1>13. ASSUME NEW i \in 1 .. Len(c), i - 1 \in T PROVE i \in T
    <2>1. h[i - 1] \in Seq(V) /\ c[i].val \in V
      BY <1>1, <1>13
    <2>2. Append(h[i - 1], c[i].val) \in Seq(V)
      BY <2>1, AppendProperties
    <2> QED BY <1>9, <1>11, <2>1, <2>2
  <1>14. \A i \in 0 .. Len(c) : h[i] \in Seq(V)
    <2> HIDE DEF T
    <2>1. \A i \in 0 .. Len(c) : i \in T
      BY <1>1, <1>12, <1>13, Upwards
    <2> QED BY <2>1 DEF T
  <1>15. h \in [0 .. Len(c) -> Seq(V)]
    BY <1>6, <1>14
  <1> QED BY <1>7, <1>10, <1>11, <1>15 DEF Bound

\* Nodes bind no more values than they are.
LEMMA BoundLength ==
    ASSUME NEW K, NEW V, NEW c \in Seq(Node(K, V)), NEW k,
           NEW g, Bound(g, c, k, V), NEW n \in 0 .. Len(c)
    PROVE  Len(g[n]) \in 0 .. n
  <1>1. Len(c) \in Nat /\ \A i \in 1 .. Len(c) : c[i].val \in V
    BY NodesOf
  <1> DEFINE T == {i \in 0 .. Len(c) : Len(g[i]) \in 0 .. i}
  <1>2. 0 \in T
    BY <1>1 DEF Bound
  <1>3. ASSUME NEW i \in 1 .. Len(c), i - 1 \in T PROVE i \in T
    <2>0. i \in 0 .. Len(c) /\ i - 1 \in 0 .. Len(c)
      BY <1>1
    <2>1. g[i - 1] \in Seq(V) /\ Len(g[i - 1]) \in 0 .. i - 1
      BY <1>3, <2>0 DEF Bound
    <2>2. Len(Append(g[i - 1], c[i].val)) = Len(g[i - 1]) + 1
      BY <1>1, <2>1, AppendProperties
    <2>3. g[i] = Append(g[i - 1], c[i].val) \/ g[i] = g[i - 1]
      BY DEF Bound
    <2> QED BY <2>0, <2>1, <2>2, <2>3
  <1> HIDE DEF T
  <1>4. n \in T
    BY <1>1, <1>2, <1>3, Upwards
  <1> QED BY <1>4 DEF T

\* An element put into a sequence stays where it is when both grow at the end.
LEMMA AppendLinked ==
    ASSUME NEW V, NEW a \in Seq(V), NEW b \in Seq(V), NEW q, NEW v, LinkedIn(a, b, q, v),
           NEW w \in V
    PROVE  LinkedIn(Append(a, w), Append(b, w), q, v)
  <1>1. PICK x, y : x = Append(a, w) /\ y = Append(b, w)
    OBVIOUS
  <1>2. /\ Len(a) \in Nat /\ Len(b) = Len(a) + 1 /\ Len(x) = Len(a) + 1 /\ Len(y) = Len(b) + 1
        /\ \A i \in 1 .. Len(a) + 1 : x[i] = IF i = Len(a) + 1 THEN w ELSE a[i]
        /\ \A i \in 1 .. Len(b) + 1 : y[i] = IF i = Len(b) + 1 THEN w ELSE b[i]
    BY <1>1, AppendProperties, LenProperties DEF LinkedIn
  <1>3. q \in 1 .. Len(b) /\ \A i \in 1 .. Len(b) :
           b[i] = IF i < q THEN a[i] ELSE IF i = q THEN v ELSE a[i - 1]
    BY DEF LinkedIn
  <1>4. ASSUME NEW i \in 1 .. Len(y)
        PROVE  y[i] = IF i < q THEN x[i] ELSE IF i = q THEN v ELSE x[i - 1]
    <2>1. CASE i = Len(b) + 1
      BY <1>2, <1>3, <2>1
    <2>2. CASE i # Len(b) + 1
      <3>1. i \in 1 .. Len(b) /\ y[i] = b[i]
        BY <1>2, <2>2
      <3>2. CASE i < q
        BY <1>2, <1>3, <3>1, <3>2
      <3>3. CASE i = q
        BY <1>2, <1>3, <3>1, <3>3
      <3>4. CASE i > q
        <4>1. i - 1 \in 1 .. Len(a) /\ x[i - 1] = a[i - 1]
          BY <1>2, <1>3, <3>1, <3>4
        <4> QED BY <1>2, <1>3, <3>1, <3>4, <4>1
      <3> QED BY <1>3, <3>1, <3>2, <3>3, <3>4
    <2> QED BY <2>1, <2>2
  <1>5. LinkedIn(x, y, q, v)
    BY <1>2, <1>3, <1>4 DEF LinkedIn
  <1> QED BY <1>1, <1>5

\* A node linked into a chain is linked into what the chain binds to its key, and
\* leaves what it binds to any other key.
LEMMA BoundLinked ==
    ASSUME NEW K, NEW V, NEW c \in Seq(Node(K, V)), NEW d \in Seq(Node(K, V)),
           NEW p, NEW e \in Node(K, V), LinkedIn(c, d, p, e),
           NEW k, NEW g, NEW h, Bound(g, c, k, V), Bound(h, d, k, V)
    PROVE  /\ p - 1 \in 0 .. Len(c) /\ h[p - 1] = g[p - 1]
           /\ e.key # k => h[Len(d)] = g[Len(c)]
           /\ e.key = k => LinkedIn(g[Len(c)], h[Len(d)], Len(g[p - 1]) + 1, e.val)
  <1> DEFINE n == Len(c)
             q == Len(g[p - 1]) + 1
             Linked1(i) == IF e.key # k THEN h[i + 1] = g[i] ELSE LinkedIn(g[i], h[i + 1], q, e.val)
  <1>1. /\ n \in Nat /\ Len(d) = n + 1 /\ p \in 1 .. n + 1 /\ e.val \in V
        /\ \A i \in 1 .. n : c[i].val \in V
    BY NodesOf DEF LinkedIn, Node
  <1>2. \A i \in 1 .. n + 1 : d[i] = IF i < p THEN c[i] ELSE IF i = p THEN e ELSE c[i - 1]
    BY <1>1 DEF LinkedIn
  <1>3. /\ \A i \in 0 .. n : g[i] \in Seq(V)
        /\ \A i \in 1 .. n :
              g[i] = IF c[i].key = k THEN Append(g[i - 1], c[i].val) ELSE g[i - 1]
    BY DEF Bound
  <1>4. /\ \A i \in 0 .. n + 1 : h[i] \in Seq(V)
        /\ \A i \in 1 .. n + 1 :
              h[i] = IF d[i].key = k THEN Append(h[i - 1], d[i].val) ELSE h[i - 1]
    BY <1>1 DEF Bound
  <1>5. g[0] = <<>> /\ h[0] = <<>>
    BY DEF Bound
  <1> HIDE DEF n
  <1>6. ASSUME p - 1 \in 0 .. n, h[p - 1] = g[p - 1] PROVE Linked1(p - 1)
    <2>1. (p - 1) + 1 = p /\ p \in 1 .. n + 1 /\ d[p] = e
      BY <1>1, <1>2
    <2>2. h[p] = IF e.key = k THEN Append(g[p - 1], e.val) ELSE g[p - 1]
      BY <1>4, <1>6, <2>1
    <2>3. LinkedIn(g[p - 1], Append(g[p - 1], e.val), q, e.val)
      BY <1>1, <1>3, <1>6, AppendLinksIn
    <2> HIDE DEF q
    <2> QED BY <2>1, <2>2, <2>3
  <1>7. ASSUME NEW i \in 1 .. n, i >= p, Linked1(i - 1) PROVE Linked1(i)
    <2>1. i + 1 \in 1 .. n + 1 /\ (i + 1) - 1 = i /\ (i - 1) + 1 = i /\ i - 1 \in 0 .. n /\ i \in 0 .. n + 1
      BY <1>1, <1>7
    <2>2. d[i + 1] = c[i]
      BY <1>1, <1>2, <1>7, <2>1
    <2>3. h[i + 1] = IF c[i].key = k THEN Append(h[i], c[i].val) ELSE h[i]
      BY <1>4, <2>1, <2>2
    <2>4. g[i] = IF c[i].key = k THEN Append(g[i - 1], c[i].val) ELSE g[i - 1]
      BY <1>3
    <2>5. CASE e.key # k
      <3>1. h[i] = g[i - 1]
        BY <1>7, <2>1, <2>5
      <3> QED BY <2>3, <2>4, <2>5, <3>1
    <2>6. CASE e.key = k
      <3>1. LinkedIn(g[i - 1], h[i], q, e.val)
        BY <1>7, <2>1, <2>6
      <3>2. g[i - 1] \in Seq(V) /\ h[i] \in Seq(V) /\ c[i].val \in V
        BY <1>1, <1>3, <1>4, <2>1
      <3> HIDE DEF q
      <3>3. LinkedIn(Append(g[i - 1], c[i].val), Append(h[i], c[i].val), q, e.val)
        BY <3>1, <3>2, AppendLinked
      <3> QED BY <2>3, <2>4, <2>6, <3>1, <3>3
    <2> QED BY <2>5, <2>6
  <1> HIDE DEF Linked1, q
  <1> DEFINE T == {i \in 0 .. n : (i < p => h[i] = g[i]) /\ (i >= p - 1 => Linked1(i))}
  <1>8. 0 \in T
    <2>1. 0 \in 0 .. n
      BY <1>1
    <2>2. 0 >= p - 1 => p - 1 = 0
      BY <1>1
    <2> QED BY <1>5, <1>6, <2>1, <2>2
  <1>9. ASSUME NEW i \in 1 .. n, i - 1 \in T PROVE i \in T
    <2>1. i < p => h[i] = g[i]
      <3>1. HAVE i < p
      <3>2. i - 1 < p /\ i \in 1 .. n + 1 /\ d[i] = c[i]
        BY <1>1, <1>2, <3>1
      <3>3. h[i - 1] = g[i - 1]
        BY <1>9, <3>2
      <3> QED BY <1>3, <1>4, <3>2, <3>3
    <2>2. i >= p - 1 => Linked1(i)
      <3>1. HAVE i >= p - 1
      <3>2. CASE i = p - 1
        BY <1>1, <1>6, <2>1, <3>2
      <3>3. CASE i >= p
        <4>1. i - 1 >= p - 1
          BY <1>1, <3>3
        <4> QED BY <1>7, <1>9, <3>3, <4>1
      <3> QED BY <1>1, <3>1, <3>2, <3>3
    <2>3. i \in 0 .. n
      BY <1>1
    <2> QED BY <2>1, <2>2, <2>3
  <1> HIDE DEF T
  <1>10. n \in T /\ p - 1 \in T
    <2>1. \A i \in 0 .. n : i \in T
      BY <1>1, <1>8, <1>9, Upwards
    <2>2. n \in 0 .. n /\ p - 1 \in 0 .. n
      BY <1>1
    <2> QED BY <2>1, <2>2
  <1>11. Linked1(n) /\ p - 1 \in 0 .. n /\ h[p - 1] = g[p - 1]
    BY <1>1, <1>10 DEF T
  <1> QED BY <1>1, <1>11 DEF Linked1, q, n

\* Find returns the position of the first node with key k: before it nothing is
\* bound to k, and its value is the first of those bound.
LEMMA FirstBound ==
    ASSUME NEW K, NEW V, NEW c \in Seq(Node(K, V)), NEW k,
           NEW g, Bound(g, c, k, V), NEW f, f = Find(c, k)
    PROVE  /\ f \in 0 .. Len(c)
           /\ f = 0 => g[Len(c)] = <<>>
           /\ f # 0 => /\ c[f].key = k /\ g[f - 1] = <<>>
                       /\ g[Len(c)] # <<>> /\ Head(g[Len(c)]) = c[f].val
  <1>1. Len(c) \in Nat /\ \A i \in 1 .. Len(c) : c[i].val \in V
    BY NodesOf
  <1>2. /\ f \in 0 .. Len(c)
        /\ f # 0 => c[f].key = k
        /\ \A i \in 1 .. Len(c) : c[i].key = k => f # 0 /\ f <= i
    <2>1. f = FirstKey(c, k)
      BY DEF Find, SelectInSeq, Min, FirstKey, Min
    <2> QED BY <1>1, <2>1, FirstWithKey
  <1>3. /\ \A i \in 0 .. Len(c) : g[i] \in Seq(V)
        /\ g[0] = <<>>
        /\ \A i \in 1 .. Len(c) :
              g[i] = IF c[i].key = k THEN Append(g[i - 1], c[i].val) ELSE g[i - 1]
    BY DEF Bound
  <1> DEFINE Right(i) == IF f = 0 \/ i < f THEN g[i] = <<>>
                         ELSE g[i] # <<>> /\ Head(g[i]) = c[f].val
             T == {i \in 0 .. Len(c) : Right(i)}
  <1>4. 0 \in T
    BY <1>1, <1>2, <1>3
  <1>5. ASSUME NEW i \in 1 .. Len(c), i - 1 \in T PROVE i \in T
    <2>1. i \in 0 .. Len(c) /\ i - 1 \in 0 .. Len(c) /\ Right(i - 1)
      BY <1>1, <1>5
    <2>2. CASE f = 0 \/ i < f
      <3>1. c[i].key # k /\ (f = 0 \/ i - 1 < f)
        BY <1>2, <2>2
      <3> QED BY <1>3, <2>1, <2>2, <3>1
    <2>3. CASE f # 0 /\ i = f
      <3>1. g[i - 1] = <<>> /\ c[i].key = k /\ c[i].val \in V
        BY <1>1, <1>2, <2>1, <2>3
      <3>2. g[i] = Append(g[i - 1], c[f].val)
        BY <1>3, <2>3, <3>1
      <3>3. Append(<<>>, c[f].val) # <<>> /\ Head(Append(<<>>, c[f].val)) = c[f].val
        OBVIOUS
      <3> QED BY <2>1, <2>3, <3>1, <3>2, <3>3
    <2>4. CASE f # 0 /\ i > f
      <3>1. g[i - 1] # <<>> /\ Head(g[i - 1]) = c[f].val
        BY <1>2, <2>1, <2>4
      <3>2. PICK b \in Seq(V) : b = g[i - 1]
        BY <1>3, <2>1
      <3>3. PICK v \in V : v = c[i].val
        BY <1>1
      <3>4. Append(b, v) # <<>> /\ Head(Append(b, v)) = Head(b)
        <4>1. Len(b) \in Nat /\ Len(b) > 0
          BY <3>1, <3>2, EmptySeq, LenProperties
        <4> QED BY <4>1, AppendProperties
      <3>5. g[i] = b \/ g[i] = Append(b, v)
        BY <1>3, <3>2, <3>3
      <3>6. g[i] # <<>> /\ Head(g[i]) = c[f].val
        BY <3>1, <3>2, <3>4, <3>5
      <3>7. ~ (f = 0 \/ i < f)
        BY <1>2, <2>4
      <3> QED BY <2>1, <3>6, <3>7
    <2> QED BY <1>2, <2>2, <2>3, <2>4
  <1> HIDE DEF T
  <1>6. \A i \in 0 .. Len(c) : i \in T
    BY <1>1, <1>4, <1>5, Upwards
  <1>7. Right(Len(c)) /\ (f # 0 => Right(f - 1))
    BY <1>1, <1>2, <1>6 DEF T
  <1> QED BY <1>1, <1>2, <1>7

-----------------------------------------------------------------------------
(* Any calls on any keys.                                                  *)

\* A table of this hash function.
Fits(t) == IsTable(t, HashKeys, Values) /\ t.hashfun = HashFun

\* The chain of a key.
LEMMA ChainTyped ==
    ASSUME NEW t, Fits(t), NEW k \in HashKeys
    PROVE  Chain(t, k) \in Seq(Node(HashKeys, Values))
  BY DEF Fits, IsTable, Chain

\* A call replaces the chain of one bucket, and nothing else.
LEMMA ChainReplaced ==
    ASSUME NEW t, Fits(t), NEW k \in HashKeys,
           NEW d \in Seq(Node(HashKeys, Values)),
           NEW u, u = SetChain(t, k, d)
    PROVE  /\ Fits(u)
           /\ \A x \in HashKeys : Chain(u, x) =
                 IF HashFun[x] = HashFun[k] THEN d ELSE Chain(t, x)
  <1> DEFINE ch == [t.chain EXCEPT ![t.hashfun[k]] = d]
  <1>1. /\ t = [hashfun |-> t.hashfun, chain |-> t.chain]
        /\ t.chain \in [DOMAIN t.chain -> Seq(Node(HashKeys, Values))]
        /\ t.hashfun \in [HashKeys -> DOMAIN t.chain]
        /\ t.hashfun = HashFun
    BY DEF Fits, IsTable
  <1>2. u = [hashfun |-> t.hashfun, chain |-> ch]
    BY <1>1 DEF SetChain
  <1>3. DOMAIN ch = DOMAIN t.chain /\ ch \in [DOMAIN ch -> Seq(Node(HashKeys, Values))]
        /\ \A b \in DOMAIN t.chain : ch[b] = IF b = HashFun[k] THEN d ELSE t.chain[b]
    BY <1>1
  <1> HIDE DEF ch
  <1>4. u.hashfun = t.hashfun /\ u.chain = ch
    BY <1>2
  <1>5. Fits(u)
    BY <1>1, <1>2, <1>3, <1>4 DEF Fits, IsTable
  <1>6. \A x \in HashKeys : HashFun[x] \in DOMAIN t.chain
    BY <1>1
  <1> QED BY <1>1, <1>3, <1>4, <1>5, <1>6 DEF Chain

\* The bindings a chain has are a sequence of values.
LEMMA BoundTyped ==
    ASSUME NEW t, Fits(t), NEW k \in HashKeys
    PROVE  BoundTo(t, k) \in Seq(Values)
  <1>1. PICK c \in Seq(Node(HashKeys, Values)) : c = Chain(t, k)
    BY ChainTyped
  <1>2. PICK g : Bound(g, c, k, Values) /\ BoundIn(c, k) = g[Len(c)]
    BY BoundIs
  <1>3. Len(c) \in 0 .. Len(c)
    BY LenProperties
  <1> QED BY <1>1, <1>2, <1>3 DEF Bound, BoundTo

\* The bindings of the keys after a node of key k was linked into its chain.
LEMMA LinkedBindings ==
    ASSUME NEW t, Fits(t), NEW k \in HashKeys,
           NEW d \in Seq(Node(HashKeys, Values)),
           NEW u, u = SetChain(t, k, d),
           NEW p, NEW e \in Node(HashKeys, Values), e.key = k,
           LinkedIn(Chain(t, k), d, p, e)
    PROVE  /\ Fits(u)
           /\ \A x \in HashKeys \ {k} : BoundTo(u, x) = BoundTo(t, x)
           /\ \E q \in 1 .. p :
                 /\ LinkedIn(BoundTo(t, k), BoundTo(u, k), q, e.val)
                 /\ p = Len(d) => q = Len(BoundTo(t, k)) + 1
                 /\ p = Find(d, k) => q = 1
  <1>1. PICK c \in Seq(Node(HashKeys, Values)) : c = Chain(t, k)
    BY ChainTyped
  <1>2. /\ Fits(u)
        /\ \A x \in HashKeys : Chain(u, x) =
              IF HashFun[x] = HashFun[k] THEN d ELSE Chain(t, x)
    BY ChainReplaced
  <1>3. t.hashfun = HashFun
    BY DEF Fits
  <1>4. ASSUME NEW x \in HashKeys \ {k}
        PROVE  BoundTo(u, x) = BoundTo(t, x)
    <2>1. CASE HashFun[x] # HashFun[k]
      BY <1>2, <2>1 DEF BoundTo
    <2>2. CASE HashFun[x] = HashFun[k]
      <3>1. Chain(u, x) = d /\ Chain(t, x) = c
        BY <1>1, <1>2, <1>3, <2>2 DEF Chain
      <3>2. PICK g : Bound(g, c, x, Values) /\ BoundIn(c, x) = g[Len(c)]
        BY BoundIs
      <3>3. PICK h : Bound(h, d, x, Values) /\ BoundIn(d, x) = h[Len(d)]
        BY BoundIs
      <3>4. h[Len(d)] = g[Len(c)]
        BY <1>1, <3>2, <3>3, BoundLinked
      <3> QED BY <3>1, <3>2, <3>3, <3>4 DEF BoundTo
    <2> QED BY <2>1, <2>2
  <1>5. PICK g : Bound(g, c, k, Values) /\ BoundIn(c, k) = g[Len(c)]
    BY BoundIs
  <1>6. PICK h : Bound(h, d, k, Values) /\ BoundIn(d, k) = h[Len(d)]
    BY BoundIs
  <1>7. LinkedIn(g[Len(c)], h[Len(d)], Len(g[p - 1]) + 1, e.val)
    BY <1>1, <1>5, <1>6, BoundLinked
  <1>8. BoundTo(t, k) = g[Len(c)] /\ BoundTo(u, k) = h[Len(d)]
    BY <1>1, <1>2, <1>5, <1>6 DEF BoundTo
  <1>9. Len(c) \in Nat /\ p \in 1 .. Len(c) + 1 /\ Len(d) = Len(c) + 1
    BY <1>1, LenProperties DEF LinkedIn
  <1>10. Len(g[p - 1]) + 1 \in 1 .. p
    <2>1. p - 1 \in 0 .. Len(c) /\ (p - 1) + 1 = p
      BY <1>9
    <2>2. Len(g[p - 1]) \in 0 .. p - 1
      BY <1>5, <2>1, BoundLength
    <2> QED BY <1>9, <2>2
  <1>11. p = Len(d) => Len(g[p - 1]) + 1 = Len(BoundTo(t, k)) + 1
    BY <1>8, <1>9
  <1>12. ASSUME p = Find(d, k) PROVE Len(g[p - 1]) + 1 = 1
    <2>1. h[p - 1] = g[p - 1]
      BY <1>1, <1>5, <1>6, BoundLinked
    <2>2. h[p - 1] = <<>>
      BY <1>6, <1>9, <1>12, FirstBound
    <2> QED BY <2>1, <2>2
  <1> QED BY <1>2, <1>4, <1>7, <1>8, <1>10, <1>11, <1>12


\* One step of the table, as the bindings see it: k's change as told, no other's do.
LEMMA BindingsStep ==
    ASSUME NEW k \in HashKeys, NEW b,
           \A x \in HashKeys \ {k} : BoundTo(table', x) = BoundTo(table, x),
           BoundTo(table', k) = b
    PROVE  [x \in HashKeys |-> BoundTo(table', x)] =
               [[x \in HashKeys |-> BoundTo(table, x)] EXCEPT ![k] = b]
  OBVIOUS

\* HashAddNode: the first or the second place among the bindings of its key.
LEMMA AddStep ==
    ASSUME Fits(table), NEW k \in HashKeys, NEW v \in Values, Add(k, v)
    PROVE  Fits(table') /\ AbstractTable!Add(k, v)
  <1> DEFINE c == Chain(table, k)
             e == [key |-> k, val |-> v]
             d == IF c = <<>> THEN <<e>> ELSE InsertAt(c, 2, e)
  <1>1. c \in Seq(Node(HashKeys, Values))
    BY ChainTyped
  <1>2. e \in Node(HashKeys, Values) /\ e.key = k /\ e.val = v
    BY DEF Node
  <1>3. table' = SetChain(table, k, d)
    BY DEF Add, HashAddNode, InsertAt, InsertAt
  <1> HIDE DEF c, e
  <1>4. PICK p \in {1, 2} : LinkedIn(c, d, p, e)
    BY <1>1, <1>2, SecondLinksIn
  <1>5. d \in Seq(Node(HashKeys, Values))
    BY <1>1, <1>2, SecondLinksIn
  <1> HIDE DEF d
  <1>6. /\ Fits(table')
        /\ \A x \in HashKeys \ {k} : BoundTo(table', x) = BoundTo(table, x)
        /\ \E q \in 1 .. p : LinkedIn(BoundTo(table, k), BoundTo(table', k), q, v)
    BY <1>1, <1>2, <1>3, <1>4, <1>5, LinkedBindings DEF c
  <1>7. PICK q \in 1 .. p : LinkedIn(BoundTo(table, k), BoundTo(table', k), q, v)
    BY <1>6
  <1>8. BoundTo(table, k) \in Seq(Values) /\ BoundTo(table', k) \in Seq(Values)
    BY <1>6, BoundTyped
  <1>9. /\ BoundTo(table', k) = InsertAt(BoundTo(table, k), q, v)
        /\ q <= Len(BoundTo(table, k)) + 1 /\ q \in 1 .. 2
    <2>1. PICK x \in Seq(Values), y \in Seq(Values) :
             x = BoundTo(table, k) /\ y = BoundTo(table', k)
      BY <1>8
    <2>2. LinkedIn(x, y, q, v) /\ Len(x) \in Nat
      BY <1>7, <2>1, LenProperties
    <2>3. y = InsertAt(x, q, v)
      BY <2>2, LinkedAgain
    <2>4. q <= Len(x) + 1 /\ q \in 1 .. 2
      BY <1>4, <2>2 DEF LinkedIn
    <2> QED BY <2>1, <2>3, <2>4
  <1>10. call' = AbstractTable!Call("add", k, v)
    BY DEF Add, Call, AbstractTable!Call
  <1> QED BY <1>6, <1>9, <1>10, BindingsStep
      DEF AbstractTable!Add, AbstractTable!InsertAt, InsertAt

\* HashAddNode_tail: the last place.
LEMMA AddTailStep ==
    ASSUME Fits(table), NEW k \in HashKeys, NEW v \in Values, AddTail(k, v)
    PROVE  Fits(table') /\ AbstractTable!AddTail(k, v)
  <1> DEFINE e == [key |-> k, val |-> v]
  <1>1. PICK c \in Seq(Node(HashKeys, Values)) : c = Chain(table, k)
    BY ChainTyped
  <1>2. e \in Node(HashKeys, Values) /\ e.key = k /\ e.val = v
    BY DEF Node
  <1>3. table' = SetChain(table, k, Append(c, e))
    BY <1>1 DEF AddTail, HashAddNode_tail
  <1> HIDE DEF e
  <1>4. PICK d : d = Append(c, e)
    OBVIOUS
  <1>5. /\ d \in Seq(Node(HashKeys, Values)) /\ LinkedIn(c, d, Len(c) + 1, e)
        /\ Len(d) = Len(c) + 1
    BY <1>2, <1>4, AppendLinksIn DEF LinkedIn
  <1>6. /\ Fits(table')
        /\ \A x \in HashKeys \ {k} : BoundTo(table', x) = BoundTo(table, x)
        /\ LinkedIn(BoundTo(table, k), BoundTo(table', k),
                    Len(BoundTo(table, k)) + 1, v)
    <2>1. PICK p : p = Len(d)
      OBVIOUS
    <2>2. LinkedIn(Chain(table, k), d, p, e) /\ table' = SetChain(table, k, d)
      BY <1>1, <1>3, <1>4, <1>5, <2>1
    <2> QED BY <1>2, <1>5, <2>1, <2>2, LinkedBindings
  <1>7. BoundTo(table, k) \in Seq(Values) /\ BoundTo(table', k) \in Seq(Values)
    BY <1>6, BoundTyped
  <1>8. BoundTo(table', k) = Append(BoundTo(table, k), v)
    BY <1>6, <1>7, LinkedAgain
  <1>9. call' = AbstractTable!Call("add_tail", k, v)
    BY DEF AddTail, Call, AbstractTable!Call
  <1> QED BY <1>6, <1>8, <1>9, BindingsStep DEF AbstractTable!AddTail

\* HashDelete: the first binding goes; without one nothing changes.
LEMMA DeleteStep ==
    ASSUME Fits(table), NEW k \in HashKeys, Delete(k)
    PROVE  Fits(table') /\ AbstractTable!Delete(k)
  <1>1. PICK c \in Seq(Node(HashKeys, Values)) : c = Chain(table, k)
    BY ChainTyped
  <1>2. PICK g : Bound(g, c, k, Values) /\ BoundIn(c, k) = g[Len(c)]
    BY BoundIs
  <1>3. PICK f : f = Find(c, k)
    OBVIOUS
  <1>4. call' = AbstractTable!Call("delete", k, NoCall)
    BY DEF Delete, Call, AbstractTable!Call
  <1>5. BoundTo(table, k) = g[Len(c)]
    BY <1>1, <1>2 DEF BoundTo
  <1>6. CASE f = 0
    <2>1. table' = table
      BY <1>1, <1>3, <1>6 DEF Delete, HashDelete, HashHas
    <2>2. BoundTo(table, k) = <<>>
      BY <1>2, <1>3, <1>5, <1>6, FirstBound
    <2> QED BY <1>4, <2>1, <2>2, BindingsStep DEF AbstractTable!Delete
  <1>7. CASE f # 0
    <2>1. f \in 1 .. Len(c) /\ c[f].key = k /\ g[Len(c)] # <<>>
      BY <1>2, <1>3, <1>7, FirstBound
    <2>2. PICK d : d = RemoveAt(c, f)
      OBVIOUS
    <2>3. table' = SetChain(table, k, d)
      BY <1>1, <1>3, <1>7, <2>2
      DEF Delete, HashDelete, HashHas, RemoveAt, RemoveAt
    <2>4. d \in Seq(Node(HashKeys, Values)) /\ LinkedIn(d, c, f, c[f])
      BY <2>1, <2>2, RemoveUnlinks
    <2>5. Fits(table') /\ Chain(table', k) = d
      BY <2>3, <2>4, ChainReplaced
    <2>6. table = SetChain(table', k, c)
      BY <1>1, <2>3 DEF SetChain, Chain, Fits, IsTable
    <2>7. PICK e \in Node(HashKeys, Values) : e = c[f]
      BY <2>1
    <2>8. /\ \A x \in HashKeys \ {k} : BoundTo(table, x) = BoundTo(table', x)
          /\ LinkedIn(BoundTo(table', k), BoundTo(table, k), 1, e.val)
      BY <1>3, <2>1, <2>4, <2>5, <2>6, <2>7, LinkedBindings
    <2>9. BoundTo(table, k) \in Seq(Values) /\ BoundTo(table', k) \in Seq(Values)
      BY <2>5, BoundTyped
    <2>10. e.val \in Values
      BY <2>7 DEF Node
    <2>11. /\ BoundTo(table, k) # <<>>
           /\ BoundTo(table', k) = Tail(BoundTo(table, k))
      BY <2>8, <2>9, <2>10, LinkedAgain
    <2> QED BY <1>4, <2>5, <2>8, <2>11, BindingsStep DEF AbstractTable!Delete
  <1> QED BY <1>6, <1>7

\* The table is a table of its hash function, as it was created.
LEMMA InitFits ==
    ASSUME HashFun \in [HashKeys -> 0 .. Length - 1], TableInit
    PROVE  Fits(table) /\ AbstractTable!Init
  <1>1. table.hashfun = HashFun /\ table.chain = [i \in 0 .. Length - 1 |-> <<>>]
    BY DEF TableInit, HashCreateTable
  <1>2. Fits(table)
    <2>1. table = [hashfun |-> table.hashfun, chain |-> table.chain]
      BY DEF TableInit, HashCreateTable
    <2>2. DOMAIN table.chain = 0 .. Length - 1
          /\ table.chain \in [0 .. Length - 1 -> Seq(Node(HashKeys, Values))]
      BY <1>1
    <2> QED BY <1>1, <2>1, <2>2 DEF Fits, IsTable
  <1>3. ASSUME NEW k \in HashKeys PROVE BoundTo(table, k) = <<>>
    <2>0. PICK N : N = Node(HashKeys, Values)
      OBVIOUS
    <2>1. PICK c : c = <<>>
      OBVIOUS
    <2>5. c \in Seq(N)
      BY <2>1
    <2>2. Chain(table, k) = c
      BY <1>1, <2>1 DEF Chain
    <2>3. PICK g : Bound(g, c, k, Values) /\ BoundIn(c, k) = g[Len(c)]
      BY <2>0, <2>5, BoundIs
    <2>4. g[Len(c)] = <<>>
      BY <2>1, <2>3 DEF Bound
    <2> QED BY <2>2, <2>3, <2>4 DEF BoundTo
  <1> QED BY <1>2, <1>3 DEF TableInit, AbstractTable!Init

\* Every step is a step of the bindings.
LEMMA TableStep ==
    ASSUME Fits(table), [TableNext]_tableVars
    PROVE  Fits(table') /\ [AbstractTable!Next]_AbstractTable!vars
  <1>1. CASE UNCHANGED tableVars
    BY <1>1 DEF tableVars, AbstractTable!vars
  <1>2. CASE TableNext
    BY <1>2, AddStep, AddTailStep, DeleteStep DEF TableNext, AbstractTable!Next
  <1> QED BY <1>1, <1>2

\* A lookup in any such table.
LEMMA LookupIs ==
    ASSUME Fits(table)
    PROVE  LookupIsFirstBinding
  <1> SUFFICES ASSUME NEW k \in HashKeys
               PROVE  /\ HashHas(table, k) <=> BoundTo(table, k) # <<>>
                      /\ HashHas(table, k) =>
                            HashGetValue(table, k) = Head(BoundTo(table, k))
    BY DEF LookupIsFirstBinding
  <1>1. PICK c \in Seq(Node(HashKeys, Values)) : c = Chain(table, k)
    BY ChainTyped
  <1>2. PICK g : Bound(g, c, k, Values) /\ BoundIn(c, k) = g[Len(c)]
    BY BoundIs
  <1>3. PICK f : f = Find(c, k)
    OBVIOUS
  <1>4. /\ f = 0 => g[Len(c)] = <<>>
        /\ f # 0 => g[Len(c)] # <<>> /\ Head(g[Len(c)]) = c[f].val
    BY <1>2, <1>3, FirstBound
  <1> QED BY <1>1, <1>2, <1>3, <1>4
      DEF HashHas, HashGetValue, BoundTo

\* For all keys, values and hash functions, HashGetValue (hash.c:145-166) finds a key
\* exactly when it is bound, and copies out the first of its bindings.
THEOREM LookupsAreFirst ==
    TableSpec => []LookupIsFirstBinding
  <1>1. TableInit => Fits(table)
    BY InitFits, HashFunAssumption
  <1>2. Fits(table) /\ [TableNext]_tableVars => Fits(table)'
    BY TableStep
  <1>3. Fits(table) => LookupIsFirstBinding
    BY LookupIs
  <1> QED BY <1>1, <1>2, <1>3, PTL DEF TableSpec

\* The chains that keys share, relinked by every call of hash.c, behave as one sequence
\* of bindings for every key, and a call changes those of no key but its own.
THEOREM BindingsIndependent ==
    TableSpec => KeysIndependent
  <1>1. TableInit => Fits(table) /\ AbstractTable!Init
    BY InitFits, HashFunAssumption
  <1>2. Fits(table) /\ [TableNext]_tableVars =>
            Fits(table)' /\ [AbstractTable!Next]_AbstractTable!vars
    BY TableStep
  <1> QED BY <1>1, <1>2, PTL DEF TableSpec, KeysIndependent, AbstractTable!Spec
=============================================================================
