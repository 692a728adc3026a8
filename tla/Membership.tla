----------------------------- MODULE Membership -----------------------------
(***************************************************************************)
(* The master (src/master.c) and what the data servers do with it          *)
(* (src/dbserver.c 302-340, 450-468): registration, one heartbeat thread   *)
(* per server, and the pushes of the list of servers.                      *)
(*                                                                         *)
(* A server stands for one run of a data server and its connection.  The   *)
(* node it has in server_list and in sockfd_list bears its name, so an     *)
(* iterator is the server whose node it points to.  A step of a thread     *)
(* reads one node, sends one message or makes one call on a list.          *)
(***************************************************************************)
EXTENDS Integers, Sequences, SequencesExt

CONSTANTS
    Servers,
    Info,               \* the address and port of every server
    NULL,               \* the null pointer
    Event,              \* the event thread of the master
    Worlds              \* what may happen, a record for every case to check:
                        \*   servers   those that start
                        \*   threads   MAX_SERVER_THREAD
                        \*   calm      servers start and die and clients ask one at a
                        \*             time, when all is Quiet
                        \*   slow      servers that may answer a heartbeat too late
                        \*   coalesce  one recv may return several messages
                        \*   readers   clients ask the master for the list

Infos   == {Info[d] : d \in Servers}
Threads == Servers \cup {Event}

ASSUME MembershipAssumption ==
    /\ DOMAIN Info = Servers
    /\ NULL \notin Threads /\ Event \notin Servers
    /\ Worlds \subseteq [servers : SUBSET Servers, threads : Nat, calm : BOOLEAN,
                        slow : SUBSET Servers, coalesce : BOOLEAN, readers : BOOLEAN]

VARIABLES
    server_list, sockfd_list,   \* master: the nodes of its two lists
    usable_tid,                 \* master: threads started so far
    listmutex,                  \* master: the thread that holds it, or NULL
    pc,                         \* master: where every thread is
    size, it, data,             \* push_list: nodes to copy, iterator, copies
    sstate,                     \* server: "off", "new", "up" or "gone"
    servers,                    \* server: its list
    toMaster, toServer,         \* the two directions of a connection
    reset,                      \* the peer is gone and has been sent to
    fault,                      \* "none", or what has ended the master
    world                       \* the case

lists  == <<server_list, sockfd_list>>
locals == <<size, it, data>>
peers  == <<sstate, servers, toMaster>>
vars   == <<lists, usable_tid, listmutex, pc, locals, peers, toServer, reset, fault, world>>

Msg(code)    == [code |-> code, list |-> <<>>]
Update(list) == [code |-> "UPDATE_SERVER_LIST", list |-> list]

Init ==
    /\ server_list = <<>> /\ sockfd_list = <<>>
    /\ usable_tid = 0
    /\ listmutex = NULL
    /\ pc = [t \in Threads |-> "none"]
    /\ size = [t \in Threads |-> 0]
    /\ it = [t \in Threads |-> NULL]
    /\ data = [t \in Threads |-> <<>>]
    /\ sstate = [d \in Servers |-> "off"]
    /\ servers = [d \in Servers |-> <<>>]
    /\ toMaster = [d \in Servers |-> <<>>] /\ toServer = [d \in Servers |-> <<>>]
    /\ reset = {}
    /\ fault = "none"
    /\ world \in Worlds

First(l) == IF l = <<>> THEN NULL ELSE Head(l)
NextOf(l, node) ==
    LET i == CHOOSE j \in DOMAIN l : l[j] = node
    IN  IF i = Len(l) THEN NULL ELSE l[i + 1]

Pending(q, code) == \E i \in DOMAIN q : q[i].code = code

\* Nothing is under way: no thread but those between heartbeats, no list and no
\* registration on its way, and who has gone is off the lists.
Quiet ==
    /\ pc[Event] = "none"
    /\ \A d \in Servers : pc[d] \in {"none", "sleep", "await", "done"}
    /\ \A d \in Servers :
          /\ sstate[d] # "new"
          /\ sstate[d] = "gone" => pc[d] \in {"none", "done"}
          /\ ~ Pending(toServer[d], "UPDATE_SERVER_LIST")

-----------------------------------------------------------------------------
(* The data servers.                                                       *)

\* A server connects and sends NEW_SERVER; no two at one address live together.
Start(d) ==
    /\ sstate[d] = "off" /\ d \in world.servers
    /\ world.calm => Quiet
    /\ \A e \in Servers \ {d} : Info[e] = Info[d] => sstate[e] \in {"off", "gone"}
    /\ sstate' = [sstate EXCEPT ![d] = "new"]
    /\ toMaster' = [toMaster EXCEPT ![d] = <<Msg("NEW_SERVER")>>]
    /\ UNCHANGED <<lists, usable_tid, listmutex, pc, locals, servers, toServer, reset, fault>>

\* One recv returns what has come; only the first message of it is analysed.
Receive(d) ==
    /\ toServer[d] # <<>>
    /\ \E k \in 1 .. (IF world.coalesce THEN Len(toServer[d]) ELSE 1) :
          toServer' = [toServer EXCEPT ![d] = SubSeq(@, k + 1, Len(@))]

master == <<lists, usable_tid, listmutex, pc, locals, reset, fault>>

\* The answer to NEW_SERVER is MASTER_OK, or the server exits.
Register(d) ==
    /\ sstate[d] = "new"
    /\ Receive(d)
    /\ sstate' = [sstate EXCEPT ![d] =
                    IF Head(toServer[d]).code = "MASTER_OK" THEN "up" ELSE "gone"]
    /\ UNCHANGED <<master, servers, toMaster>>

\* Mutant: an empty or shorter list is taken for a mistake and left alone.
TakeLonger(d) ==
    /\ Head(toServer[d]).code = "UPDATE_SERVER_LIST"
    /\ servers' = [servers EXCEPT ![d] =
                     IF Len(Head(toServer[d]).list) < Len(@) THEN @ ELSE Head(toServer[d]).list]
    /\ UNCHANGED toMaster

TakeList(d) ==
    /\ Head(toServer[d]).code = "UPDATE_SERVER_LIST"
    /\ servers' = [servers EXCEPT ![d] = Head(toServer[d]).list]
    /\ UNCHANGED toMaster

AnswerBeat(d) ==
    /\ Head(toServer[d]).code = "HEART_BEAT"
    /\ toMaster' = [toMaster EXCEPT ![d] = Append(@, Msg("HEART_BEAT_OK"))]
    /\ UNCHANGED servers

Thread_heartbeat(d) ==
    /\ sstate[d] = "up"
    /\ Receive(d)
    /\ TakeList(d) \/ AnswerBeat(d)
    /\ UNCHANGED <<master, sstate>>

Die(d) ==
    /\ sstate[d] \in {"new", "up"}
    /\ world.calm => Quiet
    /\ sstate' = [sstate EXCEPT ![d] = "gone"]
    /\ toServer' = [toServer EXCEPT ![d] = <<>>]
    /\ servers' = [servers EXCEPT ![d] = <<>>]
    /\ UNCHANGED <<master, toMaster>>

-----------------------------------------------------------------------------
(* The master's event thread: recv_callback_fn.                            *)

\* Mutant: the upper limit is not looked at.
NewServerUncapped(d) ==
    /\ pc[Event] = "none" /\ pc[d] = "none"
    /\ toMaster[d] # <<>>
    /\ toMaster' = [toMaster EXCEPT ![d] = Tail(@)]
    /\ sockfd_list' = Append(sockfd_list, d)
    /\ usable_tid' = usable_tid + 1 /\ pc' = [pc EXCEPT ![d] = "add"]
    /\ UNCHANGED <<server_list, listmutex, locals, sstate, servers, toServer, reset, fault>>

NewServer(d) ==
    /\ pc[Event] = "none" /\ pc[d] = "none"
    /\ toMaster[d] # <<>>
    /\ toMaster' = [toMaster EXCEPT ![d] = Tail(@)]
    /\ sockfd_list' = Append(sockfd_list, d)
    /\ \/ /\ usable_tid < world.threads
          /\ usable_tid' = usable_tid + 1 /\ pc' = [pc EXCEPT ![d] = "add"]
       \/ usable_tid >= world.threads /\ UNCHANGED <<usable_tid, pc>>
    /\ UNCHANGED <<server_list, listmutex, locals, sstate, servers, toServer, reset, fault>>

\* Goes to walk the list of servers.
BeginWalk(t) ==
    /\ size' = [size EXCEPT ![t] = Len(server_list)]
    /\ it' = [it EXCEPT ![t] = First(server_list)]
    /\ data' = [data EXCEPT ![t] = <<>>]
    /\ pc' = [pc EXCEPT ![t] = "walk"]

\* The local variables of a push or an answer that is done.
Cleared(t) ==
    /\ size' = [size EXCEPT ![t] = 0]
    /\ it' = [it EXCEPT ![t] = NULL]
    /\ data' = [data EXCEPT ![t] = <<>>]

net == <<peers, toServer, reset>>

GetServerList ==
    /\ world.readers /\ pc[Event] = "none"
    /\ world.calm => Quiet
    /\ BeginWalk(Event)
    /\ UNCHANGED <<lists, usable_tid, listmutex, net, fault>>

\* The walk: a node a step, as many as there were, without listmutex.
CopyNode(t) ==
    /\ pc[t] = "walk" /\ Len(data[t]) < size[t]
    /\ it[t] \in Range(server_list)
    /\ data' = [data EXCEPT ![t] = Append(@, Info[it[t]])]
    /\ it' = [it EXCEPT ![t] = NextOf(server_list, @)]
    /\ UNCHANGED <<lists, usable_tid, listmutex, pc, size, net, fault>>

\* The list has become shorter than it was, or the node has been freed.
WalkLost(t) ==
    /\ pc[t] = "walk" /\ Len(data[t]) < size[t]
    /\ it[t] \notin Range(server_list)
    /\ fault' = "walk"
    /\ UNCHANGED <<lists, usable_tid, listmutex, pc, locals, net>>

ServerListOk ==
    /\ pc[Event] = "walk" /\ Len(data[Event]) = size[Event]
    /\ pc' = [pc EXCEPT ![Event] = "none"]
    /\ Cleared(Event)
    /\ UNCHANGED <<lists, usable_tid, listmutex, net, fault>>

EventThread ==
    \/ \E d \in Servers : NewServer(d)
    \/ GetServerList \/ CopyNode(Event) \/ WalkLost(Event) \/ ServerListOk

-----------------------------------------------------------------------------
(* The thread of a server: Thread_Server and push_list.                    *)

\* A send to a peer that has gone is answered by a reset, and the next one may
\* raise SIGPIPE.
SendMsg(d, m) ==
    \/ /\ sstate[d] # "gone"
       /\ toServer' = [toServer EXCEPT ![d] = Append(@, m)]
       /\ UNCHANGED <<reset, fault>>
    \/ /\ sstate[d] = "gone"
       /\ reset' = reset \cup {d}
       /\ fault' \in IF d \in reset THEN {fault, "sigpipe"} ELSE {fault}
       /\ UNCHANGED toServer

Goto(d, from, to) == pc[d] = from /\ pc' = [pc EXCEPT ![d] = to]

AddServer(d) ==
    /\ Goto(d, "add", "ok")
    /\ server_list' = Append(server_list, d)
    /\ UNCHANGED <<sockfd_list, usable_tid, listmutex, locals, net, fault>>

MasterOk(d) ==
    /\ Goto(d, "ok", "push")
    /\ SendMsg(d, Msg("MASTER_OK"))
    /\ UNCHANGED <<lists, usable_tid, listmutex, locals, peers>>

\* push_list, at registration (108) and after a server went (167).
PushBegin(d) ==
    /\ pc[d] = "push"
    /\ BeginWalk(d)
    /\ UNCHANGED <<lists, usable_tid, listmutex, net, fault>>

PushStart(d) ==
    /\ Goto(d, "walk", "send")
    /\ Len(data[d]) = size[d]
    /\ it' = [it EXCEPT ![d] = First(sockfd_list)]
    /\ UNCHANGED <<lists, usable_tid, listmutex, size, data, net, fault>>

\* Where a thread goes that has pushed: on to its heartbeats, or to its end.
Pushed(d) == IF d \in Range(sockfd_list) THEN "sleep" ELSE "close"

PushSend(d) ==
    /\ pc[d] = "send"
    /\ it[d] \in Range(sockfd_list)
    /\ SendMsg(it[d], Update(data[d]))
    /\ IF it[d] = Last(sockfd_list)
       THEN pc' = [pc EXCEPT ![d] = Pushed(d)] /\ Cleared(d)
       ELSE it' = [it EXCEPT ![d] = NextOf(sockfd_list, @)] /\ UNCHANGED <<pc, size, data>>
    /\ UNCHANGED <<lists, usable_tid, listmutex, peers>>

PushLost(d) ==
    /\ pc[d] = "send"
    /\ it[d] \notin Range(sockfd_list)
    /\ fault' = "push"
    /\ UNCHANGED <<lists, usable_tid, listmutex, pc, locals, net>>

HeartBeat(d) ==
    /\ Goto(d, "sleep", "await")
    /\ SendMsg(d, Msg("HEART_BEAT"))
    /\ UNCHANGED <<lists, usable_tid, listmutex, locals, peers>>

HeartBeatOk(d) ==
    /\ Goto(d, "await", "sleep")
    /\ toMaster[d] # <<>>
    /\ toMaster' = [toMaster EXCEPT ![d] = Tail(@)]
    /\ UNCHANGED <<lists, usable_tid, listmutex, locals, sstate, servers, toServer, reset, fault>>

\* End-of-file, or no answer for 3 seconds: the server is slow, or a recv of
\* its own has swallowed the heartbeat.
Down(d) ==
    /\ Goto(d, "await", "lock")
    /\ toMaster[d] = <<>>
    /\ \/ sstate[d] = "gone"
       \/ d \in world.slow
       \/ ~ Pending(toServer[d], "HEART_BEAT")
    /\ UNCHANGED <<lists, usable_tid, listmutex, locals, net, fault>>

\* Mutant: the loop goes on after a deletion.
UnlistEvery(d) ==
    /\ Goto(d, "lock", "unlist")
    /\ listmutex = NULL /\ listmutex' = d
    /\ server_list' = SelectSeq(server_list, LAMBDA e : Info[e] # Info[d])
    /\ UNCHANGED <<sockfd_list, usable_tid, locals, net, fault>>

\* 136-155: the first node of one of the servers S is deleted, if there is one.
DeleteFirst(l, S) ==
    LET i == SelectInSeq(l, LAMBDA e : e \in S)
    IN  IF i = 0 THEN l ELSE RemoveAt(l, i)

\* Under listmutex: the first server with the address is taken off one list,
UnlistServer(d) ==
    /\ Goto(d, "lock", "unlist")
    /\ listmutex = NULL /\ listmutex' = d
    /\ server_list' = DeleteFirst(server_list, {e \in Servers : Info[e] = Info[d]})
    /\ UNCHANGED <<sockfd_list, usable_tid, locals, net, fault>>

\* Mutant: the descriptor stays on its list.
UnlistSockfdKept(d) ==
    /\ Goto(d, "unlist", "unlisted")
    /\ listmutex' = NULL
    /\ UNCHANGED <<lists, usable_tid, locals, net, fault>>

\* and the descriptor off the other.
UnlistSockfd(d) ==
    /\ Goto(d, "unlist", "unlisted")
    /\ listmutex' = NULL
    /\ sockfd_list' = DeleteFirst(sockfd_list, {d})
    /\ UNCHANGED <<server_list, usable_tid, locals, net, fault>>

\* Mutant: the list is pushed when nobody is left, too.
UnlistedAlways(d) ==
    /\ Goto(d, "unlisted", "push")
    /\ UNCHANGED <<lists, usable_tid, listmutex, locals, net, fault>>

Unlisted(d) ==
    /\ Goto(d, "unlisted", IF sockfd_list = <<>> THEN "close" ELSE "push")
    /\ UNCHANGED <<lists, usable_tid, listmutex, locals, net, fault>>

CloseSocket(d) ==
    /\ Goto(d, "close", "done")
    /\ UNCHANGED <<lists, usable_tid, listmutex, locals, net, fault>>

Thread_Server(d) ==
    \/ AddServer(d) \/ MasterOk(d)
    \/ PushBegin(d) \/ CopyNode(d) \/ WalkLost(d) \/ PushStart(d) \/ PushSend(d) \/ PushLost(d)
    \/ HeartBeat(d) \/ HeartBeatOk(d) \/ Down(d)
    \/ UnlistServer(d) \/ UnlistSockfd(d) \/ Unlisted(d) \/ CloseSocket(d)

Next ==
    /\ fault = "none"
    /\ \/ \E d \in Servers : \/ Start(d) \/ Register(d) \/ Thread_heartbeat(d) \/ Die(d)
                             \/ Thread_Server(d)
       \/ EventThread
    /\ UNCHANGED world

Spec == Init /\ [][Next]_vars

\* The event loop and the threads of the master run, and nothing is asked of the
\* servers.
FairSpec ==
    /\ Spec
    /\ WF_vars(fault = "none" /\ EventThread /\ UNCHANGED world)
    /\ \A d \in Servers : WF_vars(fault = "none" /\ Thread_Server(d) /\ UNCHANGED world)

-----------------------------------------------------------------------------
Messages ==
    [code : {"MASTER_OK", "HEART_BEAT", "UPDATE_SERVER_LIST", "NEW_SERVER",
             "HEART_BEAT_OK"}, list : Seq(Infos)]

TypeOK ==
    /\ server_list \in Seq(Servers) /\ sockfd_list \in Seq(Servers)
    /\ usable_tid \in 0 .. world.threads
    /\ listmutex \in Servers \cup {NULL}
    /\ pc \in [Threads -> {"none", "add", "ok", "push", "walk", "send", "sleep", "await",
                           "lock", "unlist", "unlisted", "close", "done"}]
    /\ size \in [Threads -> Nat]
    /\ it \in [Threads -> Servers \cup {NULL}]
    /\ data \in [Threads -> Seq(Infos)]
    /\ sstate \in [Servers -> {"off", "new", "up", "gone"}]
    /\ servers \in [Servers -> Seq(Infos)]
    /\ toMaster \in [Servers -> Seq(Messages)] /\ toServer \in [Servers -> Seq(Messages)]
    /\ reset \subseteq Servers
    /\ fault \in {"none", "walk", "push", "sigpipe"}
    /\ world \in Worlds

Listing == [i \in DOMAIN server_list |-> Info[server_list[i]]]

\* Servers come and go one at a time, every answer comes within its 3 seconds, and
\* no recv returns two messages.
Orderly == world.calm /\ world.slow = {} /\ ~ world.coalesce

\* Pushes by several threads, of lists that each has copied for itself, add up:
\* when nothing is under way every server has the master's list, and it is the
\* list of the servers that are up, as long as things happen in order
\* (master.c:48, 70, 108, 167).
AgreeWhenQuiet ==
    Orderly /\ Quiet /\ fault = "none" =>
        /\ Range(Listing) = {Info[d] : d \in {e \in Servers : sstate[e] = "up"}}
        /\ \A d \in Servers : sstate[d] = "up" => servers[d] = Listing

\* A server that is up and in its heartbeats stays on both lists, whatever other
\* servers come and go, one at its own address before it included (master.c:136-146
\* deletes by address).
LiveListed ==
    \A d \in Servers :
        sstate[d] = "up" /\ pc[d] \in {"sleep", "await"} =>
            Info[d] \in Range(Listing) /\ d \in Range(sockfd_list)

\* push_list reads lists that other threads may shorten (master.c:50-75); when
\* things happen in order no read meets a node that is gone, and no dead peer is
\* sent to twice.
MasterLives == Orderly => fault = "none"

\* The descriptor of a server that has gone is off its list in the end, and so is
\* the address unless a server lives there again, whatever else happens on the
\* lists, unless the master itself has ended.
DeadLeave ==
    \A d \in Servers :
        sstate[d] = "gone" /\ d \in Range(sockfd_list)
            ~> \/ fault # "none"
               \/ /\ d \notin Range(sockfd_list)
                  /\ \/ Info[d] \notin Range(Listing)
                     \/ \E e \in Servers : Info[e] = Info[d] /\ sstate[e] # "gone"

\* "tell master this is a new server" (dbserver.c:451): a server that tells the
\* master is answered first; it does not exit over what the master sends others.
NoneTurnedAway ==
    [][\A d \in Servers : Register(d) => sstate'[d] = "up"]_vars

\* "!!!One server (%s:%d) down." (master.c:130) is true of the server.
DownIsDown ==
    [][\A d \in Servers : Down(d) => sstate[d] = "gone"]_vars
=============================================================================
