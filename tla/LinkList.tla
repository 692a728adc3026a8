------------------------------ MODULE LinkList ------------------------------
(***************************************************************************)
(* The doubly linked list of src/linklist.c and its circular form, pointer *)
(* by pointer.  A list is its head (node count, first and last node) and   *)
(* the nodes in memory; a node has the data between its two pointers.  An  *)
(* iterator is the address of a node, or NULL.                             *)
(***************************************************************************)
EXTENDS Integers, Sequences

CONSTANTS
    Addr,       \* addresses of nodes
    NullPtr,    \* the null pointer, NULL
    Free        \* what is at an address where no node is

ASSUME AddrAssumption == NullPtr \notin Addr

Pointer == Addr \cup {NullPtr}
NodeOf(D) == [prev : Pointer, data : D, next : Pointer]

Nodes(l)  == {a \in Addr : l.node[a] # Free}
Unused(l) == Addr \ Nodes(l)

LinklistCreate ==
    [cnt |-> 0, first |-> NullPtr, last |-> NullPtr, node |-> [a \in Addr |-> Free]]

NewNode(l, new, data) ==
    [l EXCEPT !.node[new] = [prev |-> NullPtr, data |-> data, next |-> NullPtr]]

LinklistGetSize(l)           == l.cnt
LinklistIteratorSetBegin(l)  == l.first
LinklistIteratorSetTail(l)   == l.last
LinklistIteratorAtEnd(l, it) == it = l.last
LinklistIteratorAtHead(l, it) == it = l.first
LinklistIteratorToNext(l, it) == l.node[it].next
LinklistIteratorToPrev(l, it) == l.node[it].prev
LinklistGetDataPtr(l, it)    == l.node[it].data

\* Mutant: the link back of 64 is forgotten.
PushBackOneWay(l, new, data) ==
    LET m == NewNode(l, new, data)
    IN  IF l.cnt = 0 THEN [m EXCEPT !.first = new, !.last = new, !.cnt = 1]
        ELSE [m EXCEPT !.node[l.last].next = new, !.last = new, !.cnt = @ + 1]

LinklistPushBack(l, new, data) ==
    LET m == NewNode(l, new, data)
    IN  IF l.cnt = 0
        THEN [m EXCEPT !.first = new, !.last = new, !.cnt = 1]
        ELSE [m EXCEPT !.node[l.last].next = new, !.node[new].prev = l.last,
                       !.last = new, !.cnt = @ + 1]

LinklistPushHead(l, new, data) ==
    LET m == NewNode(l, new, data)
    IN  IF l.cnt = 0
        THEN [m EXCEPT !.first = new, !.last = new, !.cnt = 1]
        ELSE [m EXCEPT !.node[l.first].prev = new, !.node[new].next = l.first,
                       !.first = new, !.cnt = @ + 1]

\* 130-137 and 377-384; 162-169 and 409-416: between two nodes.
LinkAfter(l, it, new, data) ==
    LET m == NewNode(l, new, data)
        oldnext == l.node[it].next
    IN  [m EXCEPT !.node[new].prev = it, !.node[new].next = oldnext,
                  !.node[oldnext].prev = new, !.node[it].next = new, !.cnt = @ + 1]

LinkBefore(l, it, new, data) ==
    LET m == NewNode(l, new, data)
        oldprev == l.node[it].prev
    IN  [m EXCEPT !.node[new].next = it, !.node[new].prev = oldprev,
                  !.node[oldprev].next = new, !.node[it].prev = new, !.cnt = @ + 1]

\* At the ends the node is made by the push; the one made before it (122, 154,
\* 369, 401) is never linked in nor freed.
LinklistInsertAfter(l, it, new, data) ==
    IF it = l.last THEN LinklistPushBack(l, new, data) ELSE LinkAfter(l, it, new, data)

LinklistInsertBefore(l, it, new, data) ==
    IF it = l.first THEN LinklistPushHead(l, new, data) ELSE LinkBefore(l, it, new, data)

Freed(l, it) == [l EXCEPT !.node[it] = Free, !.cnt = @ - 1]

\* The iterator goes to the next node: DeletedNext.
LinklistDelete(l, it) ==
    LET prev == l.node[it].prev
        next == l.node[it].next
        m    == CASE l.cnt <= 1  -> [l EXCEPT !.first = NullPtr, !.last = NullPtr]
                  [] l.cnt > 1 /\ prev = NullPtr ->
                        [l EXCEPT !.node[next].prev = NullPtr, !.first = next]
                  [] l.cnt > 1 /\ prev # NullPtr /\ next = NullPtr ->
                        [l EXCEPT !.node[prev].next = NullPtr, !.last = prev]
                  [] OTHER ->
                        [l EXCEPT !.node[prev].next = next, !.node[next].prev = prev]
    IN  Freed(m, it)

DeletedNext(l, it) == l.node[it].next

-----------------------------------------------------------------------------
(* The circular list: last and first are neighbours.                       *)

CirLinklistPushBack(l, new, data) ==
    LET m == NewNode(l, new, data)
    IN  IF l.cnt = 0
        THEN [m EXCEPT !.first = new, !.last = new, !.cnt = 1,
                       !.node[new].prev = new, !.node[new].next = new]
        ELSE [m EXCEPT !.node[l.last].next = new, !.node[new].prev = l.last,
                       !.node[new].next = l.first, !.node[l.first].prev = new,
                       !.last = new, !.cnt = @ + 1]

\* Mutant: first stays where it was (350 forgotten).
CirPushHeadNotFirst(l, new, data) ==
    LET m == NewNode(l, new, data)
    IN  IF l.cnt = 0
        THEN [m EXCEPT !.first = new, !.last = new, !.cnt = 1,
                       !.node[new].prev = new, !.node[new].next = new]
        ELSE [m EXCEPT !.node[l.first].prev = new, !.node[new].next = l.first,
                       !.node[new].prev = l.last, !.node[l.last].next = new,
                       !.cnt = @ + 1]

CirLinklistPushHead(l, new, data) ==
    LET m == NewNode(l, new, data)
    IN  IF l.cnt = 0
        THEN [m EXCEPT !.first = new, !.last = new, !.cnt = 1,
                       !.node[new].prev = new, !.node[new].next = new]
        ELSE [m EXCEPT !.node[l.first].prev = new, !.node[new].next = l.first,
                       !.node[new].prev = l.last, !.node[l.last].next = new,
                       !.first = new, !.cnt = @ + 1]

CirLinklistInsertAfter(l, it, new, data) ==
    IF it = l.last THEN CirLinklistPushBack(l, new, data) ELSE LinkAfter(l, it, new, data)

CirLinklistInsertBefore(l, it, new, data) ==
    IF it = l.first THEN CirLinklistPushHead(l, new, data) ELSE LinkBefore(l, it, new, data)

\* The only node is its own neighbour: first and last stay on it once freed.
CirLinklistDelete(l, it) ==
    LET prev == l.node[it].prev
        next == l.node[it].next
        m    == CASE it = l.first -> [l EXCEPT !.first = next]
                  [] it # l.first /\ it = l.last -> [l EXCEPT !.last = prev]
                  [] OTHER -> l
    IN  Freed([m EXCEPT !.node[prev].next = next, !.node[next].prev = prev], it)
=============================================================================
