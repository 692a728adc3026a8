---------------------------- MODULE LinkListSpec ----------------------------
(***************************************************************************)
(* A list of src/linklist.c, circular or not, and one iterator on it,      *)
(* driven through the interface.                                           *)
(***************************************************************************)
EXTENDS LinkList

CONSTANTS
    Data,           \* the data of nodes
    NoCall          \* no call, or no data

ASSUME FreeAssumption == Free \notin NodeOf(Data)

VARIABLES
    circular,       \* which of the two lists this is
    list, it,
    call,           \* the last call, its data and what it returned
    fault           \* a call has touched freed memory

vars == <<circular, list, it, call, fault>>

Call(op, d, ret) == [op |-> op, data |-> d, ret |-> ret]

ListInit ==
    /\ circular \in BOOLEAN
    /\ list = LinklistCreate
    /\ it = NullPtr
    /\ call = NoCall
    /\ fault = FALSE

\* The functions of the list this is.
PushBackOf(l, new, d) ==
    IF circular THEN CirLinklistPushBack(l, new, d) ELSE LinklistPushBack(l, new, d)
PushHeadOf(l, new, d) ==
    IF circular THEN CirLinklistPushHead(l, new, d) ELSE LinklistPushHead(l, new, d)
InsertAfterOf(l, new, d) ==
    IF circular THEN CirLinklistInsertAfter(l, it, new, d)
                ELSE LinklistInsertAfter(l, it, new, d)
InsertBeforeOf(l, new, d) ==
    IF circular THEN CirLinklistInsertBefore(l, it, new, d)
                ELSE LinklistInsertBefore(l, it, new, d)
DeleteOf(l) == IF circular THEN CirLinklistDelete(l, it) ELSE LinklistDelete(l, it)

\* A call returns, and leaves the list and the iterator as given.
Return(c, l, i) ==
    /\ call' = c /\ list' = l /\ it' = i
    /\ UNCHANGED <<circular, fault>>

\* NULL for an iterator, or for the new node: any malloc may fail.
Refuse(op, d) == Return(Call(op, d, -1), list, it)

PushBack(d) ==
    \/ \E new \in Unused(list) :
          Return(Call("push_back", d, 0), PushBackOf(list, new, d), it)
    \/ Refuse("push_back", d)

PushHead(d) ==
    \/ \E new \in Unused(list) :
          Return(Call("push_head", d, 0), PushHeadOf(list, new, d), it)
    \/ Refuse("push_head", d)

OnNode == it \in Nodes(list)

\* At an end of the list an insert becomes a push, whose result is ignored.
InsertAfter(d) ==
    \/ OnNode /\ \E new \in Unused(list) :
          Return(Call("insert_after", d, 0), InsertAfterOf(list, new, d), it)
    \/ it = NullPtr /\ Refuse("insert_after", d)
    \/ OnNode /\ Refuse("insert_after", d)
    \/ OnNode /\ it = list.last
       /\ Return(Call("insert_after", d, 0), list, it)

InsertBefore(d) ==
    \/ OnNode /\ \E new \in Unused(list) :
          Return(Call("insert_before", d, 0), InsertBeforeOf(list, new, d), it)
    \/ it = NullPtr /\ Refuse("insert_before", d)
    \/ OnNode /\ Refuse("insert_before", d)
    \/ OnNode /\ it = list.first
       /\ Return(Call("insert_before", d, 0), list, it)

Delete ==
    \/ OnNode /\ Return(Call("delete", NoCall, 0), DeleteOf(list), DeletedNext(list, it))
    \/ it = NullPtr /\ Refuse("delete", NoCall)

\* Callers look at the size, or at the end, before they move on.
Begin  == Return(Call("begin", NoCall, 0), list, LinklistIteratorSetBegin(list))
ToTail == Return(Call("tail", NoCall, 0), list, LinklistIteratorSetTail(list))
ToNext == OnNode /\ Return(Call("next", NoCall, 0), list, LinklistIteratorToNext(list, it))
ToPrev == OnNode /\ Return(Call("prev", NoCall, 0), list, LinklistIteratorToPrev(list, it))

\* Insert, delete and move read the node of an iterator that is not NULL; so
\* does a caller that set the iterator on a list and asks for the data.
UseFreed ==
    /\ it # NullPtr /\ ~ OnNode
    /\ fault' = TRUE
    /\ UNCHANGED <<circular, list, it, call>>

ListNext ==
    /\ ~ fault
    /\ \/ \E d \in Data : PushBack(d) \/ PushHead(d) \/ InsertAfter(d) \/ InsertBefore(d)
       \/ Delete
       \/ Begin \/ ToTail \/ ToNext \/ ToPrev
       \/ UseFreed

ListSpec == ListInit /\ [][ListNext]_vars

-----------------------------------------------------------------------------
ListTypeOK ==
    /\ circular \in BOOLEAN /\ fault \in BOOLEAN
    /\ list.cnt \in Nat
    /\ list.first \in Pointer /\ list.last \in Pointer /\ it \in Pointer
    /\ list.node \in [Addr -> NodeOf(Data) \cup {Free}]

\* The addresses from the first node on, as many as the count says.
Spelled ==
    LET at[i \in 1 .. list.cnt] ==
            IF i = 1 THEN list.first
            ELSE IF at[i - 1] \in Nodes(list) THEN list.node[at[i - 1]].next ELSE NullPtr
    IN  at

\* Following the pointers from the first node one meets every allocated node
\* once and ends at the last; back pointers mirror them, and the ends are open
\* in one list and joined in the other.  Every call relinks up to six pointers,
\* with paths of its own at the ends (linklist.c:43-452); a caller that sets an
\* iterator on an empty list must get NULL.
WellLinked ==
    LET n == list.cnt
        ends == IF circular THEN list.first ELSE NullPtr
        back == IF circular THEN list.last ELSE NullPtr
    IN  /\ ListTypeOK
        /\ \A i, j \in 1 .. n : Spelled[i] = Spelled[j] => i = j
        /\ {Spelled[i] : i \in 1 .. n} = Nodes(list)
        /\ n = 0 /\ ~ circular => list.first = NullPtr /\ list.last = NullPtr
        /\ n > 0 =>
              /\ list.first = Spelled[1] /\ list.last = Spelled[n]
              /\ list.node[list.first].prev = back
              /\ list.node[list.last].next = ends
              /\ \A i \in 2 .. n : list.node[Spelled[i]].prev = Spelled[i - 1]

Position == IF OnNode THEN CHOOSE i \in 1 .. list.cnt : Spelled[i] = it ELSE 0

Abstract ==
    INSTANCE IteratedList WITH
        items <- [i \in 1 .. list.cnt |-> list.node[Spelled[i]].data],
        pos   <- Position

\* Through all relinking the list behaves as a sequence with one iterator: what
\* a call inserts or deletes is what its comment says, the iterator stays on its
\* item, and a call that returns -1 has no effect.
ImplementsList == Abstract!Spec

\* "Functions has same usage as linklist" (linklist.h:166): what is safe on a list
\* that has been emptied is safe on a circular one.
SafeOnEmptied == ~ fault

\* "return : if SUCCESS return 0, if FAILURE return -1" (linklist.h:72-73, 82-83): an
\* insert that returns 0 has inserted.
ReturnTells ==
    [][call'.op \in {"insert_after", "insert_before"} /\ call'.ret = 0
          => list'.cnt = list.cnt + 1]_vars
=============================================================================
