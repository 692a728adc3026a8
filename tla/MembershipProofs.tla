-------------------------- MODULE MembershipProofs --------------------------
(***************************************************************************)
(* Theorems about the master of Membership, its lists and the servers on   *)
(* them.                                                                   *)
(***************************************************************************)
EXTENDS Membership, SequenceFacts

USE DEF Goto

-----------------------------------------------------------------------------
(* Lists.                                                                  *)

\* The first position of a set of positions.
LEMMA FirstPosition ==
    ASSUME NEW n \in Nat, NEW I \in SUBSET (1 .. n), I # {}
    PROVE  Min(I) \in I
  <1>1. I \in SUBSET Nat
    OBVIOUS
  <1>2. PICK m \in I : \A j \in I : m <= j
    BY <1>1, LeastNatural
  <1> QED BY <1>2 DEF Min

\* What is left of a list of servers without the node at p.
LEMMA RestOfList ==
    ASSUME NEW l \in Seq(Servers), NEW p \in 1 .. Len(l)
    PROVE  /\ RemoveAt(l, p) \in Seq(Servers) /\ Len(RemoveAt(l, p)) = Len(l) - 1
           /\ \A i \in 1 .. Len(l) - 1 : RemoveAt(l, p)[i] = IF i < p THEN l[i] ELSE l[i + 1]
  <1> DEFINE r == RemoveAt(l, p)
  <1>1. r \in Seq(Servers) /\ LinkedIn(r, l, p, l[p])
    BY RemoveUnlinks
  <1> HIDE DEF r
  <1>2. /\ Len(l) \in Nat /\ Len(r) \in Nat /\ Len(l) = Len(r) + 1 /\ p \in Nat /\ p >= 1
        /\ \A i \in 1 .. Len(l) : l[i] = IF i < p THEN r[i] ELSE IF i = p THEN l[p] ELSE r[i - 1]
    BY <1>1 DEF LinkedIn
  <1>3. Len(r) = Len(l) - 1
    BY <1>2
  <1>4. ASSUME NEW i \in 1 .. Len(l) - 1 PROVE r[i] = IF i < p THEN l[i] ELSE l[i + 1]
    <2>1. CASE i < p
      <3>1. i \in 1 .. Len(l)
        BY <1>2
      <3> QED BY <1>2, <2>1, <3>1
    <2>2. CASE ~ (i < p)
      <3>1. i + 1 \in 1 .. Len(l) /\ ~ (i + 1 < p) /\ i + 1 # p /\ i + 1 - 1 = i
        BY <1>2, <2>2
      <3>2. l[i + 1] = r[i + 1 - 1]
        <4>1. \A k \in 1 .. Len(l) : ~ (k < p) /\ k # p => l[k] = r[k - 1]
          BY <1>2
        <4>2. \A k \in 1 .. Len(l) : k = i + 1 => l[k] = r[i + 1 - 1]
          BY <3>1, <4>1
        <4> QED BY <3>1, <4>2
      <3> QED BY <2>2, <3>1, <3>2
    <2> QED BY <2>1, <2>2
  <1> QED BY <1>1, <1>3, <1>4 DEF r

\* The others are left, each once.
LEMMA RestIsRest ==
    ASSUME NEW l \in Seq(Servers), \A i, j \in DOMAIN l : l[i] = l[j] => i = j,
           NEW p \in 1 .. Len(l), NEW r, r = RemoveAt(l, p)
    PROVE  /\ \A i, j \in DOMAIN r : r[i] = r[j] => i = j
           /\ l[p] \notin Range(r)
           /\ \A e \in Servers \ {l[p]} : e \in Range(r) <=> e \in Range(l)
  <1>1. /\ Len(l) \in Nat /\ DOMAIN l = 1 .. Len(l) /\ DOMAIN r = 1 .. Len(l) - 1
        /\ \A i \in 1 .. Len(l) - 1 : r[i] = IF i < p THEN l[i] ELSE l[i + 1]
    <2>1. /\ RemoveAt(l, p) \in Seq(Servers) /\ Len(RemoveAt(l, p)) = Len(l) - 1
          /\ \A i \in 1 .. Len(l) - 1 : RemoveAt(l, p)[i] = IF i < p THEN l[i] ELSE l[i + 1]
      BY RestOfList
    <2>2. r \in Seq(Servers) /\ Len(r) = Len(l) - 1
      BY <2>1
    <2>3. DOMAIN r = 1 .. Len(l) - 1
      BY <2>2
    <2> QED BY <2>1, <2>3
  <1>2. l[p] \notin Range(r)
    <2>1. ASSUME NEW i \in DOMAIN r PROVE r[i] # l[p]
      <3>1. i \in 1 .. Len(l) - 1 /\ r[i] = IF i < p THEN l[i] ELSE l[i + 1]
        BY <1>1
      <3>2. i \in DOMAIN l /\ i + 1 \in DOMAIN l /\ p \in DOMAIN l
        BY <1>1, <3>1
      <3>3. CASE i < p
        BY <3>1, <3>2, <3>3
      <3>4. CASE ~ (i < p)
        <4>1. i + 1 # p
          BY <1>1, <3>1, <3>4
        <4> QED BY <3>1, <3>2, <3>4, <4>1
      <3> QED BY <3>3, <3>4
    <2> QED BY <2>1 DEF Range
  <1>3. \A e \in Servers \ {l[p]} : e \in Range(r) <=> e \in Range(l)
    <2>1. ASSUME NEW i \in 1 .. Len(l), i # p
          PROVE  \E j \in DOMAIN r : r[j] = l[i]
      <3>1. CASE i < p
        BY <1>1, <3>1
      <3>2. CASE ~ (i < p)
        <4>1. i - 1 \in DOMAIN r /\ ~ (i - 1 < p) /\ i - 1 + 1 = i
          BY <1>1, <2>1, <3>2
        <4> QED BY <1>1, <4>1
      <3> QED BY <3>1, <3>2
    <2>2. \A j \in DOMAIN r : \E i \in DOMAIN l : l[i] = r[j]
      BY <1>1
    <2> QED BY <1>1, <2>1, <2>2 DEF Range
  <1>4. ASSUME NEW i \in DOMAIN r, NEW j \in DOMAIN r, r[i] = r[j] PROVE i = j
    <2> DEFINE at(m) == IF m < p THEN m ELSE m + 1
    <2>1. \A m \in 1 .. Len(l) - 1 : at(m) \in 1 .. Len(l) /\ r[m] = l[at(m)]
      BY <1>1
    <2>2. at(i) = at(j)
      <3> HIDE DEF at
      <3> QED BY <1>1, <1>4, <2>1
    <2> QED BY <1>1, <2>2
  <1> QED BY <1>2, <1>3, <1>4

\* The server of an address is deleted: one node with that address goes.
LEMMA ServerDeleted ==
    ASSUME server_list \in Seq(Servers), NEW d \in Servers, UnlistServer(d)
    PROVE  \/ /\ server_list' = server_list
              /\ \A i \in 1 .. Len(server_list) : Info[server_list[i]] # Info[d]
           \/ \E p \in 1 .. Len(server_list) :
                 Info[server_list[p]] = Info[d] /\ server_list' = RemoveAt(server_list, p)
  <1> DEFINE l == server_list
             I == {i \in 1 .. Len(l) : l[i] \in {e \in Servers : Info[e] = Info[d]}}
             p == IF I # {} THEN Min(I) ELSE 0
  <1>1. server_list' = IF p = 0 THEN l ELSE RemoveAt(l, p)
    BY DEF UnlistServer, DeleteFirst, SelectInSeq
  <1>2. Len(l) \in Nat /\ I \in SUBSET (1 .. Len(l))
    OBVIOUS
  <1>3. CASE I = {}
    BY <1>1, <1>3
  <1>4. CASE I # {}
    <2>1. Min(I) \in I
      BY <1>2, <1>4, FirstPosition
    <2>2. p \in I /\ p # 0
      BY <1>2, <1>4, <2>1
    <2> HIDE DEF p
    <2> QED BY <1>1, <2>2
  <1> QED BY <1>3, <1>4

\* A descriptor is deleted.
LEMMA SockfdDeleted ==
    ASSUME sockfd_list \in Seq(Servers), NEW d \in Servers, UnlistSockfd(d)
    PROVE  \/ sockfd_list' = sockfd_list /\ \A i \in 1 .. Len(sockfd_list) : sockfd_list[i] # d
           \/ \E p \in 1 .. Len(sockfd_list) :
                 sockfd_list[p] = d /\ sockfd_list' = RemoveAt(sockfd_list, p)
  <1> DEFINE l == sockfd_list
             I == {i \in 1 .. Len(l) : l[i] \in {d}}
             p == IF I # {} THEN Min(I) ELSE 0
  <1>1. sockfd_list' = IF p = 0 THEN l ELSE RemoveAt(l, p)
    BY DEF UnlistSockfd, DeleteFirst, SelectInSeq
  <1>2. Len(l) \in Nat /\ I \in SUBSET (1 .. Len(l))
    OBVIOUS
  <1>3. CASE I = {}
    BY <1>1, <1>3
  <1>4. CASE I # {}
    <2>1. Min(I) \in I
      BY <1>2, <1>4, FirstPosition
    <2>2. p \in I /\ p # 0
      BY <1>2, <1>4, <2>1
    <2> HIDE DEF p
    <2> QED BY <1>1, <2>2
  <1> QED BY <1>3, <1>4

\* The first node and the next one are nodes, or there is none.
LEMMA NodesOfList ==
    ASSUME NEW l \in Seq(Servers)
    PROVE  /\ First(l) \in Servers \cup {NULL}
           /\ \A d \in Servers : d \in Range(l) => NextOf(l, d) \in Servers \cup {NULL}
           /\ Range(l) \subseteq Servers
  <1>1. First(l) \in Servers \cup {NULL}
    BY DEF First
  <1>2. Range(l) \subseteq Servers
    BY DEF Range
  <1>3. ASSUME NEW d \in Servers, d \in Range(l)
        PROVE  NextOf(l, d) \in Servers \cup {NULL}
    <2> DEFINE i == CHOOSE j \in DOMAIN l : l[j] = d
    <2>1. i \in DOMAIN l
      BY <1>3 DEF Range
    <2> HIDE DEF i
    <2>2. i # Len(l) => i + 1 \in DOMAIN l
      BY <2>1
    <2>3. i # Len(l) => l[i + 1] \in Servers
      BY <2>2
    <2> QED BY <2>3 DEF NextOf, i
  <1> QED BY <1>1, <1>2, <1>3

-----------------------------------------------------------------------------
(* Types.                                                                  *)

\* The two lists, the list of a push, and where a thread is.
LEMMA InitTyped == Init => TypeOK
  <1> SUFFICES ASSUME Init PROVE TypeOK
    OBVIOUS
  <1>1. /\ server_list \in Seq(Servers) /\ sockfd_list \in Seq(Servers)
        /\ size \in [Threads -> Nat] /\ it \in [Threads -> Servers \cup {NULL}]
        /\ data \in [Threads -> Seq(Infos)] /\ servers \in [Servers -> Seq(Infos)]
        /\ toMaster \in [Servers -> Seq(Messages)] /\ toServer \in [Servers -> Seq(Messages)]
    BY DEF Init
  <1>2. world \in Worlds /\ world.threads \in Nat
    BY MembershipAssumption DEF Init
  <1>3. usable_tid \in 0 .. world.threads
    BY <1>2 DEF Init
  <1> QED BY <1>1, <1>2, <1>3 DEF Init, TypeOK

\* A send keeps the types.
LEMMA SendTyped ==
    ASSUME TypeOK, NEW d \in Servers, NEW m \in Messages, SendMsg(d, m)
    PROVE  /\ toServer' \in [Servers -> Seq(Messages)] /\ reset' \subseteq Servers
           /\ fault' \in {"none", "walk", "push", "sigpipe"}
  <1>1. /\ toServer \in [Servers -> Seq(Messages)] /\ reset \subseteq Servers
        /\ fault \in {"none", "walk", "push", "sigpipe"}
    BY DEF TypeOK
  <1>2. CASE sstate[d] # "gone"
    <2>1. Append(toServer[d], m) \in Seq(Messages)
      BY <1>1
    <2> QED BY <1>1, <1>2, <2>1 DEF SendMsg
  <1>3. CASE sstate[d] = "gone"
    BY <1>1, <1>3 DEF SendMsg
  <1> QED BY <1>2, <1>3

\* The messages that are sent.
LEMMA MessagesTyped ==
    /\ \A code \in {"MASTER_OK", "HEART_BEAT", "NEW_SERVER", "HEART_BEAT_OK"} :
          Msg(code) \in Messages
    /\ \A list \in Seq(Infos) : Update(list) \in Messages
  BY DEF Msg, Update, Messages

\* The steps of the data servers.
LEMMA ServerTyped ==
    ASSUME TypeOK, UNCHANGED world, NEW d \in Servers,
           Start(d) \/ Register(d) \/ Thread_heartbeat(d) \/ Die(d)
    PROVE  TypeOK'
  <1>1. CASE Start(d)
    <2>1. <<Msg("NEW_SERVER")>> \in Seq(Messages)
      BY MessagesTyped
    <2> QED BY <1>1, <2>1 DEF Start, TypeOK, lists, locals
  <1>2. ASSUME Receive(d)
        PROVE  /\ toServer' \in [Servers -> Seq(Messages)]
               /\ Head(toServer[d]) \in Messages /\ Head(toServer[d]).list \in Seq(Infos)
    <2>1. toServer[d] \in Seq(Messages) /\ toServer[d] # <<>>
      BY <1>2 DEF TypeOK, Receive
    <2>2. Head(toServer[d]) \in Messages
      BY <2>1
    <2>3. PICK k \in 1 .. (IF world.coalesce THEN Len(toServer[d]) ELSE 1) :
             toServer' = [toServer EXCEPT ![d] = SubSeq(@, k + 1, Len(@))]
      BY <1>2 DEF Receive
    <2>4. SubSeq(toServer[d], k + 1, Len(toServer[d])) \in Seq(Messages)
      BY <2>1
    <2>5. toServer \in [Servers -> Seq(Messages)]
      BY DEF TypeOK
    <2>6. toServer' \in [Servers -> Seq(Messages)]
      BY <2>3, <2>4, <2>5
    <2> QED BY <2>2, <2>6 DEF Messages
  <1>3. CASE Register(d)
    BY <1>2, <1>3 DEF Register, TypeOK, master, lists, locals
  <1>4. CASE Thread_heartbeat(d)
    <2>1. servers' \in [Servers -> Seq(Infos)] /\ toMaster' \in [Servers -> Seq(Messages)]
      <3>1. CASE TakeList(d)
        BY <1>2, <1>4, <3>1 DEF Thread_heartbeat, TakeList, TypeOK
      <3>2. CASE AnswerBeat(d)
        <4>1. toMaster[d] \in Seq(Messages)
          BY DEF TypeOK
        <4>2. Append(toMaster[d], Msg("HEART_BEAT_OK")) \in Seq(Messages)
          BY <4>1, MessagesTyped
        <4> QED BY <3>2, <4>2 DEF AnswerBeat, TypeOK
      <3> QED BY <1>4, <3>1, <3>2 DEF Thread_heartbeat
    <2> QED BY <1>2, <1>4, <2>1 DEF Thread_heartbeat, TypeOK, master, lists, locals
  <1>5. CASE Die(d)
    <2>1. <<>> \in Seq(Messages) /\ <<>> \in Seq(Infos)
      OBVIOUS
    <2> QED BY <1>5, <2>1 DEF Die, TypeOK, master, lists, locals
  <1> QED BY <1>1, <1>3, <1>4, <1>5

\* A step of a walk.
LEMMA WalkTyped ==
    ASSUME TypeOK, UNCHANGED world, NEW t \in Threads, CopyNode(t) \/ WalkLost(t)
    PROVE  TypeOK'
  <1>1. CASE CopyNode(t)
    <2>1. /\ server_list \in Seq(Servers) /\ it[t] \in Range(server_list) /\ it[t] \in Servers
      BY <1>1, NodesOfList DEF CopyNode, TypeOK
    <2>2. NextOf(server_list, it[t]) \in Servers \cup {NULL}
      BY <2>1, NodesOfList
    <2>3. Append(data[t], Info[it[t]]) \in Seq(Infos)
      <3>1. data[t] \in Seq(Infos) /\ Info[it[t]] \in Infos
        BY <2>1 DEF TypeOK, Infos
      <3> QED BY <3>1
    <2> QED BY <1>1, <2>2, <2>3 DEF CopyNode, TypeOK, lists, net, peers
  <1>2. CASE WalkLost(t)
    BY <1>2 DEF WalkLost, TypeOK, lists, locals, net, peers
  <1> QED BY <1>1, <1>2

\* The start and the end of a walk.
LEMMA WalkVarsTyped ==
    ASSUME TypeOK, NEW t \in Threads
    PROVE  /\ BeginWalk(t) => /\ size' \in [Threads -> Nat]
                              /\ it' \in [Threads -> Servers \cup {NULL}]
                              /\ data' \in [Threads -> Seq(Infos)]
           /\ Cleared(t) => /\ size' \in [Threads -> Nat]
                            /\ it' \in [Threads -> Servers \cup {NULL}]
                            /\ data' \in [Threads -> Seq(Infos)]
  <1>1. Len(server_list) \in Nat /\ First(server_list) \in Servers \cup {NULL}
    BY NodesOfList DEF TypeOK
  <1>2. <<>> \in Seq(Infos)
    OBVIOUS
  <1>3. /\ size \in [Threads -> Nat] /\ it \in [Threads -> Servers \cup {NULL}]
        /\ data \in [Threads -> Seq(Infos)]
    BY DEF TypeOK
  <1>4. CASE BeginWalk(t)
    BY <1>1, <1>2, <1>3, <1>4 DEF BeginWalk
  <1>5. CASE Cleared(t)
    BY <1>1, <1>2, <1>3, <1>5 DEF Cleared
  <1> QED BY <1>4, <1>5, Zenon

\* The event thread.
LEMMA EventTyped ==
    ASSUME TypeOK, UNCHANGED world, EventThread
    PROVE  TypeOK'
  <1>1. Event \in Threads
    BY DEF Threads
  <1>2. ASSUME NEW d \in Servers, NewServer(d) PROVE TypeOK'
    <2>1. d \in Threads /\ toMaster[d] \in Seq(Messages) /\ toMaster[d] # <<>>
      BY <1>2 DEF NewServer, TypeOK, Threads
    <2>2. Tail(toMaster[d]) \in Seq(Messages) /\ Append(sockfd_list, d) \in Seq(Servers)
      BY <2>1 DEF TypeOK
    <2>3. toMaster' \in [Servers -> Seq(Messages)] /\ sockfd_list' \in Seq(Servers)
      BY <1>2, <2>2 DEF NewServer, TypeOK
    <2>4. usable_tid' \in 0 .. world'.threads
      <3>1. usable_tid \in 0 .. world.threads /\ world.threads \in Nat /\ world' = world
        BY MembershipAssumption DEF TypeOK
      <3> QED BY <1>2, <3>1 DEF NewServer
    <2> QED BY <1>2, <2>1, <2>3, <2>4 DEF NewServer, TypeOK, locals
  <1>3. CASE GetServerList
    <2>1. BeginWalk(Event)
      BY <1>3 DEF GetServerList
    <2>2. /\ size' \in [Threads -> Nat] /\ it' \in [Threads -> Servers \cup {NULL}]
          /\ data' \in [Threads -> Seq(Infos)]
      BY <1>1, <2>1, WalkVarsTyped
    <2>3. pc' = [pc EXCEPT ![Event] = "walk"]
      BY <2>1 DEF BeginWalk
    <2> QED BY <1>1, <1>3, <2>2, <2>3 DEF GetServerList, TypeOK, lists, net, peers
  <1>4. CASE ServerListOk
    BY <1>1, <1>4, WalkVarsTyped DEF ServerListOk, TypeOK, lists, net, peers
  <1> QED BY <1>1, <1>2, <1>3, <1>4, WalkTyped DEF EventThread

\* The thread of a server.
LEMMA ThreadTyped ==
    ASSUME TypeOK, UNCHANGED world, NEW d \in Servers, Thread_Server(d)
    PROVE  TypeOK'
  <1>1. d \in Threads
    BY DEF Threads
  <1>2. CASE AddServer(d)
    <2>1. Append(server_list, d) \in Seq(Servers)
      BY DEF TypeOK
    <2> QED BY <1>1, <1>2, <2>1 DEF AddServer, TypeOK, locals, net, peers
  <1>3. CASE MasterOk(d) \/ HeartBeat(d)
    <2>1. /\ toServer' \in [Servers -> Seq(Messages)] /\ reset' \subseteq Servers
          /\ fault' \in {"none", "walk", "push", "sigpipe"}
      BY <1>3, SendTyped, MessagesTyped DEF MasterOk, HeartBeat
    <2> QED BY <1>1, <1>3, <2>1 DEF MasterOk, HeartBeat, TypeOK, lists, locals, peers
  <1>4. CASE PushBegin(d)
    <2>1. BeginWalk(d)
      BY <1>4 DEF PushBegin
    <2>2. /\ size' \in [Threads -> Nat] /\ it' \in [Threads -> Servers \cup {NULL}]
          /\ data' \in [Threads -> Seq(Infos)]
      BY <1>1, <2>1, WalkVarsTyped
    <2>3. pc' = [pc EXCEPT ![d] = "walk"]
      BY <2>1 DEF BeginWalk
    <2> QED BY <1>1, <1>4, <2>2, <2>3 DEF PushBegin, TypeOK, lists, net, peers
  <1>5. CASE PushStart(d)
    <2>1. First(sockfd_list) \in Servers \cup {NULL}
      BY NodesOfList DEF TypeOK
    <2> QED BY <1>1, <1>5, <2>1 DEF PushStart, TypeOK, lists, net, peers
  <1>6. CASE PushSend(d)
    <2>1. /\ sockfd_list \in Seq(Servers) /\ it[d] \in Range(sockfd_list)
          /\ it[d] \in Servers /\ data[d] \in Seq(Infos)
      BY <1>1, <1>6, NodesOfList DEF PushSend, TypeOK
    <2>2. /\ toServer' \in [Servers -> Seq(Messages)] /\ reset' \subseteq Servers
          /\ fault' \in {"none", "walk", "push", "sigpipe"}
      BY <1>6, <2>1, SendTyped, MessagesTyped DEF PushSend
    <2>3. CASE it[d] = Last(sockfd_list)
      <3>1. pc' = [pc EXCEPT ![d] = Pushed(d)] /\ Cleared(d)
        BY <1>6, <2>3 DEF PushSend
      <3>2. /\ size' \in [Threads -> Nat] /\ it' \in [Threads -> Servers \cup {NULL}]
            /\ data' \in [Threads -> Seq(Infos)]
        BY <1>1, <3>1, WalkVarsTyped
      <3>3. Pushed(d) \in {"sleep", "close"}
        BY DEF Pushed
      <3> QED BY <1>1, <1>6, <2>2, <3>1, <3>2, <3>3 DEF PushSend, TypeOK, lists, peers
    <2>4. CASE it[d] # Last(sockfd_list)
      <3>1. NextOf(sockfd_list, it[d]) \in Servers \cup {NULL}
        BY <2>1, NodesOfList
      <3>2. it' = [it EXCEPT ![d] = NextOf(sockfd_list, @)] /\ UNCHANGED <<pc, size, data>>
        BY <1>6, <2>4 DEF PushSend
      <3> QED BY <1>1, <1>6, <2>2, <3>1, <3>2 DEF PushSend, TypeOK, lists, peers
    <2> QED BY <2>3, <2>4
  <1>7. CASE PushLost(d)
    BY <1>7 DEF PushLost, TypeOK, lists, locals, net, peers
  <1>8. CASE HeartBeatOk(d)
    <2>1. Tail(toMaster[d]) \in Seq(Messages)
      BY <1>8 DEF HeartBeatOk, TypeOK
    <2> QED BY <1>1, <1>8, <2>1 DEF HeartBeatOk, TypeOK, lists, locals
  <1>9. CASE Down(d) \/ Unlisted(d) \/ CloseSocket(d)
    BY <1>1, <1>9 DEF Down, Unlisted, CloseSocket, TypeOK, lists, locals, net, peers
  <1>10. CASE UnlistServer(d)
    <2>1. server_list' \in Seq(Servers)
      <3>1. server_list \in Seq(Servers)
        BY DEF TypeOK
      <3>2. \/ server_list' = server_list
            \/ \E p \in 1 .. Len(server_list) : server_list' = RemoveAt(server_list, p)
        BY <1>10, <3>1, ServerDeleted
      <3> QED BY <3>1, <3>2, RestOfList
    <2> QED BY <1>1, <1>10, <2>1 DEF UnlistServer, TypeOK, locals, net, peers
  <1>11. CASE UnlistSockfd(d)
    <2>1. sockfd_list' \in Seq(Servers)
      <3>1. sockfd_list \in Seq(Servers)
        BY DEF TypeOK
      <3>2. \/ sockfd_list' = sockfd_list
            \/ \E p \in 1 .. Len(sockfd_list) : sockfd_list' = RemoveAt(sockfd_list, p)
        BY <1>11, <3>1, SockfdDeleted
      <3> QED BY <3>1, <3>2, RestOfList
    <2> QED BY <1>1, <1>11, <2>1 DEF UnlistSockfd, TypeOK, locals, net, peers
  <1> QED BY <1>1, <1>2, <1>3, <1>4, <1>5, <1>6, <1>7, <1>8, <1>9, <1>10, <1>11, WalkTyped
          DEF Thread_Server

\* src/master.c, src/dbserver.c 302-340: the variables keep their types, for any
\* number of servers and threads and whatever comes in between.
LEMMA TypeInductive ==
    ASSUME TypeOK, [Next]_vars
    PROVE  TypeOK'
  <1>1. ASSUME NEW d \in Servers, Start(d) \/ Register(d) \/ Thread_heartbeat(d) \/ Die(d),
               UNCHANGED world
        PROVE  TypeOK'
    BY <1>1, ServerTyped
  <1>2. ASSUME NEW d \in Servers, Thread_Server(d), UNCHANGED world
        PROVE  TypeOK'
    BY <1>2, ThreadTyped
  <1>3. CASE EventThread /\ UNCHANGED world
    BY <1>3, EventTyped
  <1>4. CASE UNCHANGED vars
    BY <1>4 DEF vars, TypeOK, lists, locals, peers
  <1> QED BY <1>1, <1>2, <1>3, <1>4 DEF Next

-----------------------------------------------------------------------------
(* The lists.                                                              *)

\* No descriptor is on its list twice.
Unique == \A i, j \in DOMAIN sockfd_list : sockfd_list[i] = sockfd_list[j] => i = j

\* How far a server and its thread have come, and whether its descriptor is listed.
KnownAs(d) ==
    /\ sstate[d] = "off" => pc[d] = "none" /\ toMaster[d] = <<>> /\ d \notin Range(sockfd_list)
    /\ pc[d] = "none" =>
          /\ sstate[d] # "up" /\ ~ Pending(toServer[d], "MASTER_OK")
          /\ Len(toMaster[d]) <= 1
          /\ toMaster[d] # <<>> => d \notin Range(sockfd_list)
    /\ pc[d] \in {"add", "ok", "sleep", "await", "lock", "unlist"} => d \in Range(sockfd_list)
    /\ pc[d] = "unlisted" => d \notin Range(sockfd_list)

\* The threads that have put an address on the list and not taken one off.
Holds(d) ==
    /\ pc[d] \in {"ok", "push", "walk", "send", "sleep", "await", "lock"}
    /\ d \in Range(sockfd_list)
Holders == {d \in Servers : Holds(d)}

\* Each of them has a node with its address, though perhaps not the one it made.
Assigns(f) ==
    /\ f \in [Holders -> DOMAIN server_list]
    /\ \A d, e \in Holders : f[d] = f[e] => d = e
    /\ \A d \in Holders : Info[server_list[f[d]]] = Info[d]

ListInv ==
    /\ TypeOK /\ Unique
    /\ \A d \in Servers : KnownAs(d)
    /\ \E f : Assigns(f)

\* The steps that leave the lists alone and every thread a holder or not.
LEMMA HoldersKeep ==
    ASSUME ListInv, TypeOK', UNCHANGED <<server_list, sockfd_list>>,
           \A d \in Servers : KnownAs(d)' /\ (Holds(d)' <=> Holds(d))
    PROVE  ListInv'
  <1>1. Unique'
    BY DEF ListInv, Unique
  <1>2. Holders' = Holders
    BY DEF Holders
  <1>3. PICK f : Assigns(f)
    BY DEF ListInv
  <1>4. Assigns(f)'
    BY <1>2, <1>3 DEF Assigns
  <1> QED BY <1>1, <1>4 DEF ListInv

\* The steps of others: a server about which nothing changes.
LEMMA KnownKeeps ==
    ASSUME NEW d \in Servers, KnownAs(d),
           sstate'[d] = sstate[d], pc'[d] = pc[d], toMaster'[d] = toMaster[d],
           d \in Range(sockfd_list') <=> d \in Range(sockfd_list),
           Pending(toServer'[d], "MASTER_OK") => Pending(toServer[d], "MASTER_OK")
    PROVE  KnownAs(d)'
  BY DEF KnownAs

\* Steps that move no thread of a server.
LEMMA StillKeeps ==
    ASSUME ListInv, TypeOK', UNCHANGED <<server_list, sockfd_list, sstate, toMaster>>,
           \A d \in Servers : /\ pc'[d] = pc[d]
                              /\ Pending(toServer'[d], "MASTER_OK")
                                    => Pending(toServer[d], "MASTER_OK")
    PROVE  ListInv'
  <1>1. \A d \in Servers : KnownAs(d)'
    BY KnownKeeps DEF ListInv
  <1>2. \A d \in Servers : Holds(d)' <=> Holds(d)
    BY DEF Holds
  <1> QED BY <1>1, <1>2, HoldersKeep

\* Steps that move one.
LEMMA MoveKeeps ==
    ASSUME ListInv, TypeOK', UNCHANGED <<server_list, sockfd_list, sstate>>,
           NEW d \in Servers, NEW to, pc' = [pc EXCEPT ![d] = to],
           pc[d] # "none", to # "none",
           to \in {"add", "ok", "sleep", "await", "lock", "unlist"} => d \in Range(sockfd_list),
           to = "unlisted" => d \notin Range(sockfd_list),
           d \in Range(sockfd_list) =>
              (to \in {"ok", "push", "walk", "send", "sleep", "await", "lock"} <=>
               pc[d] \in {"ok", "push", "walk", "send", "sleep", "await", "lock"}),
           \A e \in Servers \ {d} :
              /\ toMaster'[e] = toMaster[e]
              /\ Pending(toServer'[e], "MASTER_OK") => Pending(toServer[e], "MASTER_OK")
    PROVE  ListInv'
  <1>1. d \in Threads /\ pc \in [Threads -> {"none", "add", "ok", "push", "walk", "send",
           "sleep", "await", "lock", "unlist", "unlisted", "close", "done"}]
    BY DEF Threads, ListInv, TypeOK
  <1>2. pc'[d] = to /\ \A e \in Servers \ {d} : pc'[e] = pc[e]
    BY <1>1 DEF Threads
  <1>3. sstate[d] # "off"
    BY DEF ListInv, KnownAs
  <1>4. KnownAs(d)'
    BY <1>2, <1>3 DEF KnownAs
  <1>5. \A e \in Servers \ {d} : KnownAs(e)'
    BY <1>2, KnownKeeps DEF ListInv
  <1>6. \A e \in Servers : Holds(e)' <=> Holds(e)
    BY <1>2 DEF Holds
  <1> QED BY <1>4, <1>5, <1>6, HoldersKeep

\* Only MasterOk sends MASTER_OK, and only to its own server.
LEMMA SendPends ==
    ASSUME TypeOK, NEW d \in Servers, NEW m \in Messages, SendMsg(d, m)
    PROVE  \A e \in Servers : Pending(toServer'[e], "MASTER_OK") =>
              Pending(toServer[e], "MASTER_OK") \/ (e = d /\ m.code = "MASTER_OK")
  <1>1. CASE toServer' = [toServer EXCEPT ![d] = Append(@, m)]
    <2> SUFFICES ASSUME NEW e \in Servers, Pending(toServer'[e], "MASTER_OK")
                 PROVE  Pending(toServer[e], "MASTER_OK") \/ (e = d /\ m.code = "MASTER_OK")
      OBVIOUS
    <2>1. CASE e = d
      <3>1. toServer[d] \in Seq(Messages) /\ toServer'[e] = Append(toServer[d], m)
        BY <1>1, <2>1 DEF TypeOK
      <3> QED BY <2>1, <3>1 DEF Pending
    <2>2. CASE e # d
      <3>1. toServer'[e] = toServer[e]
        BY <1>1, <2>2 DEF TypeOK
      <3> QED BY <3>1
    <2> QED BY <2>1, <2>2
  <1>2. CASE toServer' = toServer
    BY <1>2
  <1> QED BY <1>1, <1>2 DEF SendMsg

\* What a recv leaves was there before.
LEMMA ReceivePends ==
    ASSUME TypeOK, NEW d \in Servers, Receive(d)
    PROVE  \A e \in Servers : Pending(toServer'[e], "MASTER_OK")
                                 => Pending(toServer[e], "MASTER_OK")
  <1>1. PICK k \in 1 .. (IF world.coalesce THEN Len(toServer[d]) ELSE 1) :
           toServer' = [toServer EXCEPT ![d] = SubSeq(@, k + 1, Len(@))]
    BY DEF Receive
  <1>2. toServer[d] \in Seq(Messages) /\ Len(toServer[d]) \in Nat /\ k \in Nat
    BY DEF TypeOK
  <1> SUFFICES ASSUME NEW e \in Servers, Pending(toServer'[e], "MASTER_OK")
               PROVE  Pending(toServer[e], "MASTER_OK")
    OBVIOUS
  <1>3. CASE e = d
    <2> DEFINE q == toServer[d]
               r == SubSeq(q, k + 1, Len(q))
    <2>1. toServer'[e] = r
      BY <1>1, <1>3 DEF TypeOK
    <2>2. \A i \in DOMAIN r : k + i \in DOMAIN q /\ r[i] = q[k + i]
      BY <1>2
    <2> HIDE DEF r
    <2> QED BY <1>3, <2>1, <2>2 DEF Pending
  <1>4. CASE e # d
    <2>1. toServer'[e] = toServer[e]
      BY <1>1, <1>4 DEF TypeOK
    <2> QED BY <2>1
  <1> QED BY <1>3, <1>4

\* The initial states.
LEMMA InitListed == Init => ListInv
  <1> SUFFICES ASSUME Init PROVE ListInv
    OBVIOUS
  <1>1. TypeOK
    BY InitTyped
  <1>2. Range(sockfd_list) = {} /\ DOMAIN sockfd_list = {}
    BY DEF Init, Range
  <1>3. \A d \in Servers : d \in Threads /\ pc[d] = "none"
    BY DEF Init, Threads
  <1>4. \A d \in Servers : KnownAs(d)
    BY <1>2, <1>3 DEF Init, KnownAs, Pending
  <1>5. Holders = {}
    BY <1>2 DEF Holders, Holds
  <1>6. Assigns([d \in {} |-> 0])
    BY <1>5 DEF Assigns
  <1> QED BY <1>1, <1>2, <1>4, <1>6 DEF ListInv, Unique

\* The steps of the data servers.
LEMMA ServerListed ==
    ASSUME ListInv, TypeOK', NEW d \in Servers,
           Start(d) \/ Register(d) \/ Thread_heartbeat(d) \/ Die(d)
    PROVE  ListInv'
  <1>1. /\ UNCHANGED <<server_list, sockfd_list>> /\ pc' = pc
        /\ TypeOK /\ \A e \in Servers : KnownAs(e)
    BY DEF ListInv, Start, Register, Thread_heartbeat, Die, master, lists
  <1>2. \A e \in Servers : Holds(e)' <=> Holds(e)
    BY <1>1 DEF Holds
  <1>3. CASE Start(d)
    <2>1. /\ toServer' = toServer /\ sstate[d] = "off"
          /\ sstate' = [sstate EXCEPT ![d] = "new"]
          /\ toMaster' = [toMaster EXCEPT ![d] = <<Msg("NEW_SERVER")>>]
      BY <1>3 DEF Start
    <2>2. sstate'[d] = "new" /\ toMaster'[d] = <<Msg("NEW_SERVER")>>
      BY <1>1, <2>1 DEF TypeOK
    <2>3. KnownAs(d)'
      <3>1. pc[d] = "none" /\ d \notin Range(sockfd_list) /\ ~ Pending(toServer[d], "MASTER_OK")
        BY <1>1, <2>1 DEF KnownAs
      <3>2. Len(toMaster'[d]) <= 1
        BY <2>2
      <3> QED BY <1>1, <2>1, <2>2, <3>1, <3>2 DEF KnownAs
    <2>4. \A e \in Servers \ {d} : sstate'[e] = sstate[e] /\ toMaster'[e] = toMaster[e]
      BY <1>1, <2>1 DEF TypeOK
    <2>5. \A e \in Servers \ {d} : KnownAs(e)'
      BY <1>1, <2>1, <2>4, KnownKeeps
    <2> QED BY <1>1, <1>2, <2>3, <2>5, HoldersKeep
  <1>4. ASSUME Receive(d), pc[d] # "none", sstate[d] # "off", sstate'[d] # "off",
               \A e \in Servers \ {d} : sstate'[e] = sstate[e] /\ toMaster'[e] = toMaster[e]
        PROVE  ListInv'
    <2>1. \A e \in Servers \ {d} : KnownAs(e)'
      BY <1>1, <1>4, ReceivePends, KnownKeeps
    <2>2. KnownAs(d)'
      BY <1>1, <1>4 DEF KnownAs
    <2> QED BY <1>1, <1>2, <2>1, <2>2, HoldersKeep
  <1>5. CASE Register(d)
    <2>1. /\ Receive(d) /\ toMaster' = toMaster /\ sstate[d] = "new"
          /\ sstate' = [sstate EXCEPT ![d] =
                IF Head(toServer[d]).code = "MASTER_OK" THEN "up" ELSE "gone"]
      BY <1>5 DEF Register
    <2>2. sstate'[d] \in {"up", "gone"} /\ \A e \in Servers \ {d} : sstate'[e] = sstate[e]
      BY <1>1, <2>1 DEF TypeOK
    <2>3. CASE pc[d] # "none"
      BY <1>4, <2>1, <2>2, <2>3
    <2>4. CASE pc[d] = "none"
      <3>1. ~ Pending(toServer[d], "MASTER_OK")
        BY <1>1, <2>4 DEF KnownAs
      <3>2. toServer[d] \in Seq(Messages) /\ toServer[d] # <<>>
        BY <1>1, <2>1 DEF TypeOK, Receive
      <3>3. Head(toServer[d]) = toServer[d][1] /\ 1 \in DOMAIN toServer[d]
        BY <3>2
      <3>4. Head(toServer[d]).code # "MASTER_OK"
        BY <3>1, <3>3 DEF Pending
      <3>5. sstate'[d] = "gone"
        BY <1>1, <2>1, <3>4 DEF TypeOK
      <3>6. KnownAs(d)'
        BY <1>1, <2>1, <2>4, <3>5, ReceivePends DEF KnownAs
      <3>7. \A e \in Servers \ {d} : KnownAs(e)'
        BY <1>1, <2>1, <2>2, ReceivePends, KnownKeeps
      <3> QED BY <1>1, <1>2, <3>6, <3>7, HoldersKeep
    <2> QED BY <2>3, <2>4
  <1>6. CASE Thread_heartbeat(d)
    <2>1. Receive(d) /\ sstate' = sstate /\ sstate[d] = "up"
      BY <1>6 DEF Thread_heartbeat
    <2>2. pc[d] # "none"
      BY <1>1, <2>1 DEF KnownAs
    <2>3. \A e \in Servers \ {d} : toMaster'[e] = toMaster[e]
      BY <1>1, <1>6 DEF Thread_heartbeat, TakeList, AnswerBeat, TypeOK
    <2> QED BY <1>4, <2>1, <2>2, <2>3
  <1>7. CASE Die(d)
    <2>1. /\ sstate' = [sstate EXCEPT ![d] = "gone"] /\ sstate[d] # "off"
          /\ toServer' = [toServer EXCEPT ![d] = <<>>] /\ toMaster' = toMaster
      BY <1>7 DEF Die
    <2>2. sstate'[d] = "gone" /\ toServer'[d] = <<>>
      BY <1>1, <2>1 DEF TypeOK
    <2>3. KnownAs(d)'
      BY <1>1, <2>1, <2>2 DEF KnownAs, Pending
    <2>4. \A e \in Servers \ {d} : sstate'[e] = sstate[e] /\ toServer'[e] = toServer[e]
      BY <1>1, <2>1 DEF TypeOK
    <2>5. \A e \in Servers \ {d} : KnownAs(e)'
      BY <1>1, <2>1, <2>4, KnownKeeps
    <2> QED BY <1>1, <1>2, <2>3, <2>5, HoldersKeep
  <1> QED BY <1>3, <1>5, <1>6, <1>7

\* A new descriptor is listed; its thread, if it is started, has no node yet.
LEMMA NewServerListed ==
    ASSUME ListInv, TypeOK', NEW d \in Servers, NewServer(d)
    PROVE  ListInv'
  <1>1. /\ TypeOK /\ pc[d] = "none" /\ toMaster[d] # <<>> /\ sstate' = sstate
        /\ toMaster' = [toMaster EXCEPT ![d] = Tail(@)] /\ toServer' = toServer
        /\ sockfd_list' = Append(sockfd_list, d) /\ server_list' = server_list
        /\ pc' = pc \/ pc' = [pc EXCEPT ![d] = "add"]
        /\ \A e \in Servers : KnownAs(e)
    BY DEF ListInv, NewServer
  <1>2. /\ d \notin Range(sockfd_list) /\ sstate[d] # "off" /\ Len(toMaster[d]) <= 1
        /\ sstate[d] # "up" /\ ~ Pending(toServer[d], "MASTER_OK")
    BY <1>1 DEF KnownAs
  <1>3. sockfd_list \in Seq(Servers) /\ toMaster[d] \in Seq(Messages)
    BY <1>1 DEF TypeOK
  <1>4. toMaster'[d] = <<>> /\ \A e \in Servers \ {d} : toMaster'[e] = toMaster[e]
    <2>1. Tail(toMaster[d]) = <<>>
      BY <1>1, <1>2, <1>3
    <2> QED BY <1>1, <2>1 DEF TypeOK
  <1>5. pc'[d] \in {"none", "add"} /\ \A e \in Servers \ {d} : pc'[e] = pc[e]
    BY <1>1 DEF TypeOK, Threads
  <1>6. /\ d \in Range(sockfd_list')
        /\ \A e \in Servers \ {d} : e \in Range(sockfd_list') <=> e \in Range(sockfd_list)
    BY <1>1, <1>3 DEF Range
  <1>7. Unique'
    <2>1. /\ \A i \in DOMAIN sockfd_list : sockfd_list[i] # d
          /\ \A i, j \in DOMAIN sockfd_list : sockfd_list[i] = sockfd_list[j] => i = j
      BY <1>2 DEF Range, ListInv, Unique
    <2> QED BY <1>1, <1>3, <2>1 DEF Unique
  <1>8. KnownAs(d)'
    BY <1>1, <1>2, <1>4, <1>5, <1>6 DEF KnownAs
  <1>9. \A e \in Servers \ {d} : KnownAs(e)'
    BY <1>1, <1>4, <1>5, <1>6, KnownKeeps
  <1>10. Holders' = Holders
    BY <1>1, <1>5, <1>6 DEF Holders, Holds
  <1>11. PICK f : Assigns(f)
    BY DEF ListInv
  <1>12. Assigns(f)'
    BY <1>1, <1>10, <1>11 DEF Assigns
  <1> QED BY <1>7, <1>8, <1>9, <1>12 DEF ListInv

\* A thread puts its node on the list, and holds it.
LEMMA AddServerListed ==
    ASSUME ListInv, TypeOK', NEW d \in Servers, AddServer(d)
    PROVE  ListInv'
  <1>1. /\ TypeOK /\ pc[d] = "add" /\ pc' = [pc EXCEPT ![d] = "ok"]
        /\ server_list' = Append(server_list, d) /\ sockfd_list' = sockfd_list
        /\ UNCHANGED <<sstate, toMaster, toServer>> /\ \A e \in Servers : KnownAs(e)
    BY DEF ListInv, AddServer, net, peers
  <1>2. pc'[d] = "ok" /\ \A e \in Servers \ {d} : pc'[e] = pc[e]
    BY <1>1 DEF TypeOK, Threads
  <1>3. d \in Range(sockfd_list) /\ sstate[d] # "off"
    BY <1>1 DEF KnownAs
  <1>4. KnownAs(d)' /\ \A e \in Servers \ {d} : KnownAs(e)'
    BY <1>1, <1>2, <1>3, KnownKeeps DEF KnownAs
  <1>5. d \notin Holders /\ Holders' = Holders \cup {d}
    BY <1>1, <1>2, <1>3 DEF Holders, Holds
  <1>6. PICK f : Assigns(f)
    BY DEF ListInv
  <1> DEFINE n == Len(server_list)
             g == [e \in Holders \cup {d} |-> IF e = d THEN n + 1 ELSE f[e]]
  <1>7. /\ n \in Nat /\ DOMAIN server_list = 1 .. n /\ DOMAIN server_list' = 1 .. n + 1
        /\ server_list'[n + 1] = d /\ \A i \in 1 .. n : server_list'[i] = server_list[i]
    <2>1. server_list \in Seq(Servers)
      BY <1>1 DEF TypeOK
    <2>2. PICK l : l = server_list
      OBVIOUS
    <2>3. l \in Seq(Servers) /\ server_list' = Append(l, d) /\ n = Len(l)
      BY <1>1, <2>1, <2>2
    <2>4. /\ Len(l) \in Nat /\ DOMAIN l = 1 .. Len(l) /\ Len(Append(l, d)) = Len(l) + 1
          /\ DOMAIN Append(l, d) = 1 .. Len(l) + 1 /\ Append(l, d)[Len(l) + 1] = d
          /\ \A i \in 1 .. Len(l) : Append(l, d)[i] = l[i]
      BY <2>3
    <2> HIDE DEF n
    <2> QED BY <2>2, <2>3, <2>4
  <1> HIDE DEF n
  <1>8. \A e \in Holders : f[e] \in 1 .. n /\ Info[server_list[f[e]]] = Info[e]
    BY <1>6, <1>7 DEF Assigns
  <1>9. g[d] = n + 1 /\ \A e \in Holders : g[e] = f[e] /\ e # d
    BY <1>5
  <1> HIDE DEF g
  <1>10. PICK h : h = g
    OBVIOUS
  <1>11. h \in [Holders \cup {d} -> 1 .. n + 1]
    <2>1. \A e \in Holders \cup {d} : g[e] \in 1 .. n + 1
      BY <1>7, <1>8, <1>9
    <2> QED BY <1>10, <2>1 DEF g
  <1>12. ASSUME NEW a \in Holders \cup {d}, NEW b \in Holders \cup {d}, h[a] = h[b]
         PROVE  a = b
    <2>1. \A e \in Holders : h[e] # n + 1
      BY <1>7, <1>8, <1>9, <1>10
    <2> QED BY <1>6, <1>9, <1>10, <1>12, <2>1 DEF Assigns
  <1>13. \A e \in Holders \cup {d} : Info[server_list'[h[e]]] = Info[e]
    BY <1>7, <1>8, <1>9, <1>10
  <1>14. Assigns(h)'
    BY <1>5, <1>7, <1>11, <1>12, <1>13 DEF Assigns
  <1>15. Unique'
    BY <1>1 DEF ListInv, Unique
  <1> QED BY <1>4, <1>14, <1>15 DEF ListInv

\* A node with the address of a thread goes; whoever held it takes over the node
\* the thread held.
LEMMA UnlistServerListed ==
    ASSUME ListInv, TypeOK', NEW d \in Servers, UnlistServer(d)
    PROVE  ListInv'
  <1>1. /\ TypeOK /\ pc[d] = "lock" /\ pc' = [pc EXCEPT ![d] = "unlist"]
        /\ sockfd_list' = sockfd_list
        /\ UNCHANGED <<sstate, toMaster, toServer>> /\ \A e \in Servers : KnownAs(e)
    BY DEF ListInv, UnlistServer, net, peers
  <1>2. pc'[d] = "unlist" /\ \A e \in Servers \ {d} : pc'[e] = pc[e]
    BY <1>1 DEF TypeOK, Threads
  <1>3. d \in Range(sockfd_list) /\ sstate[d] # "off"
    BY <1>1 DEF KnownAs
  <1>4. KnownAs(d)' /\ \A e \in Servers \ {d} : KnownAs(e)'
    BY <1>1, <1>2, <1>3, KnownKeeps DEF KnownAs
  <1>5. d \in Holders /\ Holders' = Holders \ {d}
    BY <1>1, <1>2, <1>3 DEF Holders, Holds
  <1>6. PICK f : Assigns(f)
    BY DEF ListInv
  <1>7. PICK l \in Seq(Servers) : l = server_list
    BY <1>1 DEF TypeOK
  <1>8. /\ Len(l) \in Nat /\ DOMAIN l = 1 .. Len(l)
        /\ \A e \in Holders : f[e] \in 1 .. Len(l) /\ Info[l[f[e]]] = Info[e]
        /\ \A a, b \in Holders : f[a] = f[b] => a = b
    BY <1>6, <1>7 DEF Assigns
  <1>9. PICK p \in 1 .. Len(l) : Info[l[p]] = Info[d] /\ server_list' = RemoveAt(l, p)
    <2>1. ~ \A i \in 1 .. Len(l) : Info[l[i]] # Info[d]
      BY <1>5, <1>8
    <2> QED BY <1>7, <2>1, ServerDeleted
  <1>10. PICK r \in Seq(Servers) : r = server_list'
    BY <1>9, RestOfList
  <1>11. /\ Len(r) = Len(l) - 1 /\ DOMAIN r = 1 .. Len(l) - 1
         /\ \A i \in 1 .. Len(l) - 1 : r[i] = IF i < p THEN l[i] ELSE l[i + 1]
    <2>1. /\ Len(RemoveAt(l, p)) = Len(l) - 1
          /\ \A i \in 1 .. Len(l) - 1 : RemoveAt(l, p)[i] = IF i < p THEN l[i] ELSE l[i + 1]
      BY RestOfList
    <2>2. r = RemoveAt(l, p) /\ DOMAIN r = 1 .. Len(r)
      BY <1>9, <1>10
    <2>3. DOMAIN r = 1 .. Len(l) - 1
      BY <2>1, <2>2
    <2> QED BY <2>1, <2>2, <2>3
  <1> DEFINE q(e) == IF f[e] = p THEN f[d] ELSE f[e]
             g == [e \in Holders \ {d} |-> IF q(e) < p THEN q(e) ELSE q(e) - 1]
  <1>12. ASSUME NEW e \in Holders \ {d}
         PROVE  q(e) \in 1 .. Len(l) /\ q(e) # p /\ Info[l[q(e)]] = Info[e]
    <2>1. f[e] # f[d]
      BY <1>5, <1>8
    <2> QED BY <1>5, <1>8, <1>9, <2>1
  <1>13. ASSUME NEW a \in Holders \ {d}, NEW b \in Holders \ {d}, q(a) = q(b)
         PROVE  a = b
    BY <1>5, <1>8, <1>13
  <1> HIDE DEF q
  <1>14. ASSUME NEW e \in Holders \ {d}
         PROVE  /\ g[e] \in 1 .. Len(l) - 1 /\ Info[r[g[e]]] = Info[e]
                /\ q(e) = IF g[e] < p THEN g[e] ELSE g[e] + 1
    <2>1. g[e] = IF q(e) < p THEN q(e) ELSE q(e) - 1
      OBVIOUS
    <2> HIDE DEF g
    <2>2. /\ g[e] \in 1 .. Len(l) - 1
          /\ q(e) = IF g[e] < p THEN g[e] ELSE g[e] + 1
      BY <1>8, <1>12, <2>1
    <2>3. r[g[e]] = l[q(e)]
      BY <1>11, <2>2
    <2> QED BY <1>12, <2>2, <2>3
  <1>15. PICK h : h = g
    OBVIOUS
  <1>16. h \in [Holders \ {d} -> 1 .. Len(l) - 1]
    BY <1>14, <1>15
  <1> HIDE DEF g
  <1>17. ASSUME NEW a \in Holders \ {d}, NEW b \in Holders \ {d}, h[a] = h[b]
         PROVE  a = b
    BY <1>13, <1>14, <1>15, <1>17
  <1>18. \A e \in Holders \ {d} : Info[r[h[e]]] = Info[e]
    BY <1>14, <1>15
  <1>19. Assigns(h)'
    BY <1>5, <1>10, <1>11, <1>16, <1>17, <1>18 DEF Assigns
  <1>20. Unique'
    BY <1>1 DEF ListInv, Unique
  <1> QED BY <1>4, <1>19, <1>20 DEF ListInv

\* A thread takes its descriptor off the other list.
LEMMA UnlistSockfdListed ==
    ASSUME ListInv, TypeOK', NEW d \in Servers, UnlistSockfd(d)
    PROVE  ListInv'
  <1>1. /\ TypeOK /\ pc[d] = "unlist" /\ pc' = [pc EXCEPT ![d] = "unlisted"]
        /\ server_list' = server_list
        /\ UNCHANGED <<sstate, toMaster, toServer>> /\ \A e \in Servers : KnownAs(e)
    BY DEF ListInv, UnlistSockfd, net, peers
  <1>2. pc'[d] = "unlisted" /\ \A e \in Servers \ {d} : pc'[e] = pc[e]
    BY <1>1 DEF TypeOK, Threads
  <1>3. PICK l \in Seq(Servers) : l = sockfd_list
    BY <1>1 DEF TypeOK
  <1>4. d \in Range(l) /\ sstate[d] # "off"
    BY <1>1, <1>3 DEF KnownAs
  <1>5. /\ Len(l) \in Nat /\ DOMAIN l = 1 .. Len(l)
        /\ \A i, j \in 1 .. Len(l) : l[i] = l[j] => i = j
    BY <1>3 DEF ListInv, Unique
  <1>6. PICK p \in 1 .. Len(l) : l[p] = d /\ sockfd_list' = RemoveAt(l, p)
    <2>1. ~ \A i \in 1 .. Len(l) : l[i] # d
      BY <1>4, <1>5 DEF Range
    <2> QED BY <1>3, <2>1, SockfdDeleted
  <1>7. PICK r \in Seq(Servers) : r = sockfd_list'
    BY <1>6, RestOfList
  <1>8. /\ \A i, j \in DOMAIN r : r[i] = r[j] => i = j
        /\ d \notin Range(r) /\ \A e \in Servers \ {d} : e \in Range(r) <=> e \in Range(l)
    <2>1. \A i, j \in DOMAIN l : l[i] = l[j] => i = j
      BY <1>5
    <2> QED BY <1>6, <1>7, <2>1, RestIsRest
  <1>9. d \notin Range(r)
    BY <1>8
  <1>10. \A e \in Servers \ {d} : e \in Range(r) <=> e \in Range(l)
    BY <1>8
  <1>11. Unique'
    BY <1>7, <1>8 DEF Unique
  <1>12. KnownAs(d)'
    BY <1>1, <1>2, <1>4, <1>7, <1>9 DEF KnownAs
  <1>13. \A e \in Servers \ {d} : KnownAs(e)'
    BY <1>1, <1>2, <1>3, <1>7, <1>10, KnownKeeps
  <1>14. Holders' = Holders
    BY <1>1, <1>2, <1>3, <1>7, <1>10 DEF Holders, Holds
  <1>15. PICK f : Assigns(f)
    BY DEF ListInv
  <1>16. Assigns(f)'
    BY <1>1, <1>14, <1>15 DEF Assigns
  <1> QED BY <1>11, <1>12, <1>13, <1>16 DEF ListInv

\* The other steps of the thread of a server: the lists stay as they are.
LEMMA ThreadListed ==
    ASSUME ListInv, TypeOK', NEW d \in Servers, Thread_Server(d)
    PROVE  ListInv'
  <1>1. TypeOK /\ \A e \in Servers : KnownAs(e)
    BY DEF ListInv
  <1>2. d \in Threads
    BY DEF Threads
  <1>3. CASE MasterOk(d)
    <2>1. /\ UNCHANGED <<server_list, sockfd_list, sstate, toMaster>>
          /\ pc[d] = "ok" /\ pc' = [pc EXCEPT ![d] = "push"] /\ SendMsg(d, Msg("MASTER_OK"))
      BY <1>3 DEF MasterOk, lists, peers
    <2>2. Msg("MASTER_OK") \in Messages
      BY MessagesTyped
    <2>3. \A e \in Servers \ {d} : Pending(toServer'[e], "MASTER_OK")
                                      => Pending(toServer[e], "MASTER_OK")
      BY <1>1, <2>1, <2>2, SendPends
    <2> QED BY <2>1, <2>3, MoveKeeps
  <1>4. CASE PushBegin(d)
    BY <1>4, MoveKeeps DEF PushBegin, BeginWalk, lists, net, peers
  <1>5. CASE PushStart(d)
    BY <1>5, MoveKeeps DEF PushStart, lists, net, peers
  <1>6. CASE PushSend(d)
    <2>1. /\ UNCHANGED <<server_list, sockfd_list, sstate, toMaster>> /\ pc[d] = "send"
          /\ it[d] \in Servers /\ SendMsg(it[d], Update(data[d]))
          /\ pc' = pc \/ pc' = [pc EXCEPT ![d] = Pushed(d)]
      <3>1. it[d] \in Servers
        BY <1>1, <1>6, NodesOfList DEF PushSend, TypeOK
      <3> QED BY <1>6, <3>1 DEF PushSend, lists, peers
    <2>2. Update(data[d]) \in Messages /\ Update(data[d]).code # "MASTER_OK"
      <3>1. data[d] \in Seq(Infos)
        BY <1>1, <1>2 DEF TypeOK
      <3> QED BY <3>1 DEF Update, Messages
    <2>3. \A e \in Servers : Pending(toServer'[e], "MASTER_OK")
                                => Pending(toServer[e], "MASTER_OK")
      BY <1>1, <2>1, <2>2, SendPends
    <2>4. CASE pc' = pc
      BY <2>1, <2>3, <2>4, StillKeeps
    <2>5. CASE pc' = [pc EXCEPT ![d] = Pushed(d)]
      <3>1. PICK to : to = Pushed(d)
        OBVIOUS
      <3>2. /\ to \in {"sleep", "close"}
            /\ to = "sleep" <=> d \in Range(sockfd_list)
        BY <3>1 DEF Pushed
      <3>3. pc' = [pc EXCEPT ![d] = to]
        BY <2>5, <3>1
      <3> QED BY <2>1, <2>3, <3>2, <3>3, MoveKeeps
    <2> QED BY <2>1, <2>4, <2>5
  <1>7. CASE HeartBeat(d)
    <2>1. /\ UNCHANGED <<server_list, sockfd_list, sstate, toMaster>>
          /\ pc[d] = "sleep" /\ pc' = [pc EXCEPT ![d] = "await"]
          /\ SendMsg(d, Msg("HEART_BEAT"))
      BY <1>7 DEF HeartBeat, lists, peers
    <2>2. Msg("HEART_BEAT") \in Messages
      BY MessagesTyped
    <2>3. \A e \in Servers \ {d} : Pending(toServer'[e], "MASTER_OK")
                                      => Pending(toServer[e], "MASTER_OK")
      BY <1>1, <2>1, <2>2, SendPends
    <2>4. d \in Range(sockfd_list)
      BY <1>1, <2>1 DEF KnownAs
    <2> QED BY <2>1, <2>3, <2>4, MoveKeeps
  <1>8. CASE HeartBeatOk(d)
    <2>1. /\ UNCHANGED <<server_list, sockfd_list, sstate, toServer>>
          /\ pc[d] = "await" /\ pc' = [pc EXCEPT ![d] = "sleep"]
          /\ toMaster' = [toMaster EXCEPT ![d] = Tail(@)]
      BY <1>8 DEF HeartBeatOk, lists
    <2>2. \A e \in Servers \ {d} : toMaster'[e] = toMaster[e]
      BY <1>1, <2>1 DEF TypeOK
    <2>3. d \in Range(sockfd_list)
      BY <1>1, <2>1 DEF KnownAs
    <2> QED BY <2>1, <2>2, <2>3, MoveKeeps
  <1>9. CASE Down(d)
    <2>1. /\ UNCHANGED <<server_list, sockfd_list, sstate, toMaster, toServer>>
          /\ pc[d] = "await" /\ pc' = [pc EXCEPT ![d] = "lock"]
      BY <1>9 DEF Down, lists, net, peers
    <2>2. d \in Range(sockfd_list)
      BY <1>1, <2>1 DEF KnownAs
    <2> QED BY <2>1, <2>2, MoveKeeps
  <1>10. CASE Unlisted(d)
    <2>1. /\ UNCHANGED <<server_list, sockfd_list, sstate, toMaster, toServer>>
          /\ pc[d] = "unlisted"
          /\ pc' = [pc EXCEPT ![d] = "close"] \/ pc' = [pc EXCEPT ![d] = "push"]
      BY <1>10 DEF Unlisted, lists, net, peers
    <2>2. d \notin Range(sockfd_list)
      BY <1>1, <2>1 DEF KnownAs
    <2>3. CASE pc' = [pc EXCEPT ![d] = "close"]
      BY <2>1, <2>2, <2>3, MoveKeeps
    <2>4. CASE pc' = [pc EXCEPT ![d] = "push"]
      BY <2>1, <2>2, <2>4, MoveKeeps
    <2> QED BY <2>1, <2>3, <2>4
  <1>11. CASE CloseSocket(d)
    <2>1. /\ UNCHANGED <<server_list, sockfd_list, sstate, toMaster, toServer>>
          /\ pc[d] = "close" /\ pc' = [pc EXCEPT ![d] = "done"]
      BY <1>11 DEF CloseSocket, lists, net, peers
    <2> QED BY <2>1, MoveKeeps
  <1>12. CASE CopyNode(d) \/ WalkLost(d) \/ PushLost(d)
    BY <1>12, StillKeeps DEF CopyNode, WalkLost, PushLost, lists, net, peers
  <1> QED BY <1>3, <1>4, <1>5, <1>6, <1>7, <1>8, <1>9, <1>10, <1>11, <1>12,
             AddServerListed, UnlistServerListed, UnlistSockfdListed DEF Thread_Server

\* The invariant is kept by every step.
LEMMA ListInductive == ListInv /\ [Next]_vars => ListInv'
  <1> SUFFICES ASSUME ListInv, [Next]_vars PROVE ListInv'
    OBVIOUS
  <1>1. TypeOK'
    BY TypeInductive DEF ListInv
  <1>2. ASSUME NEW d \in Servers, Start(d) \/ Register(d) \/ Thread_heartbeat(d) \/ Die(d)
        PROVE  ListInv'
    BY <1>1, <1>2, ServerListed
  <1>3. ASSUME NEW d \in Servers, Thread_Server(d)
        PROVE  ListInv'
    BY <1>1, <1>3, ThreadListed
  <1>4. ASSUME NEW d \in Servers, NewServer(d)
        PROVE  ListInv'
    BY <1>1, <1>4, NewServerListed
  <1>5. CASE GetServerList \/ CopyNode(Event) \/ WalkLost(Event) \/ ServerListOk
    <2>1. /\ UNCHANGED <<server_list, sockfd_list, sstate, toMaster, toServer>>
          /\ \A t \in Servers : pc'[t] = pc[t]
      <3>1. DOMAIN pc = Threads /\ \A t \in Servers : t \in Threads /\ t # Event
        BY MembershipAssumption DEF ListInv, TypeOK, Threads
      <3>2. \A to : \A t \in Servers : [pc EXCEPT ![Event] = to][t] = pc[t]
        BY <3>1
      <3> QED BY <1>5, <3>2 DEF GetServerList, BeginWalk, CopyNode, WalkLost, ServerListOk,
                                lists, net, peers
    <2> QED BY <1>1, <2>1, StillKeeps
  <1>6. CASE UNCHANGED vars
    BY <1>1, <1>6, StillKeeps DEF vars, lists, peers
  <1> QED BY <1>2, <1>3, <1>4, <1>5, <1>6 DEF Next, EventThread

-----------------------------------------------------------------------------
(* The theorems.                                                           *)

\* The master's variables keep their types and no thread is started beyond
\* MAX_SERVER_THREAD (master.c:199-215), whatever the servers do.
THEOREM TypeCorrect == Spec => []TypeOK
  <1> QED BY InitTyped, TypeInductive, PTL DEF Spec

\* A server that is up and answers its heartbeats stays on both lists, whatever
\* other servers come and go, one at its own address before it included
\* (master.c:136-155): every thread between its registration and its end has a node
\* with its address, so the one another thread deletes is not the last.
THEOREM LiveStayListed == Spec => []LiveListed
  <1>1. ListInv => LiveListed
    <2> SUFFICES ASSUME ListInv, NEW d \in Servers, pc[d] \in {"sleep", "await"}
                 PROVE  Info[d] \in Range(Listing) /\ d \in Range(sockfd_list)
      BY DEF LiveListed
    <2>1. d \in Range(sockfd_list)
      BY DEF ListInv, KnownAs
    <2>2. d \in Holders
      BY <2>1 DEF Holders, Holds
    <2>3. PICK f : Assigns(f)
      BY DEF ListInv
    <2>4. f[d] \in DOMAIN server_list /\ Info[server_list[f[d]]] = Info[d]
      BY <2>2, <2>3 DEF Assigns
    <2>5. Info[d] \in Range(Listing)
      BY <2>4 DEF Range, Listing
    <2> QED BY <2>1, <2>5
  <1> QED BY <1>1, InitListed, ListInductive, PTL DEF Spec

-----------------------------------------------------------------------------
(* Orderly worlds: what has been sent.                                     *)

\* There is no more than one heartbeat.
OneBeat(q) ==
    \A i, j \in DOMAIN q : q[i].code = "HEART_BEAT" /\ q[j].code = "HEART_BEAT" => i = j

\* The last list on its way to a server that has s, or s if none is, is l.
Brings(q, s, l) ==
    \/ \E i \in DOMAIN q :
          /\ q[i] = Update(l)
          /\ \A j \in DOMAIN q : j > i => q[j].code # "UPDATE_SERVER_LIST"
    \/ ~ Pending(q, "UPDATE_SERVER_LIST") /\ s = l

\* What a message changes that is sent.
LEMMA SentPends ==
    ASSUME NEW q \in Seq(Messages), NEW m \in Messages
    PROVE  /\ Append(q, m) # <<>> /\ (q # <<>> => Head(Append(q, m)) = Head(q))
           /\ q = <<>> => Head(Append(q, m)) = m
           /\ \A code : Pending(Append(q, m), code) <=> Pending(q, code) \/ m.code = code
           /\ OneBeat(q) /\ (m.code = "HEART_BEAT" => ~ Pending(q, "HEART_BEAT"))
                 => OneBeat(Append(q, m))
  <1> DEFINE r == Append(q, m)
             n == Len(q)
  <1>1. /\ n \in Nat /\ DOMAIN q = 1 .. n /\ DOMAIN r = 1 .. n + 1 /\ r \in Seq(Messages)
        /\ r[n + 1] = m /\ \A i \in 1 .. n : r[i] = q[i]
    OBVIOUS
  <1>2. r # <<>> /\ (q # <<>> => Head(r) = Head(q)) /\ (q = <<>> => Head(r) = m)
    OBVIOUS
  <1> HIDE DEF r, n
  <1>3. ASSUME NEW code
        PROVE  Pending(r, code) <=> Pending(q, code) \/ m.code = code
    <2>1. Pending(q, code) => Pending(r, code)
      BY <1>1 DEF Pending
    <2>2. m.code = code => Pending(r, code)
      <3>1. n + 1 \in DOMAIN r
        BY <1>1
      <3> QED BY <1>1, <3>1 DEF Pending
    <2>3. ASSUME NEW i \in DOMAIN r, r[i].code = code
          PROVE  Pending(q, code) \/ m.code = code
      <3>1. CASE i = n + 1
        BY <1>1, <2>3, <3>1
      <3>2. CASE i \in 1 .. n
        BY <1>1, <2>3, <3>2 DEF Pending
      <3> QED BY <1>1, <3>1, <3>2
    <2> QED BY <2>1, <2>2, <2>3 DEF Pending
  <1>4. ASSUME OneBeat(q), m.code = "HEART_BEAT" => ~ Pending(q, "HEART_BEAT"),
               NEW i \in DOMAIN r, NEW j \in DOMAIN r,
               r[i].code = "HEART_BEAT", r[j].code = "HEART_BEAT"
        PROVE  i = j
    <2>1. \A k \in 1 .. n : r[k].code = "HEART_BEAT" => m.code # "HEART_BEAT"
      BY <1>1, <1>4 DEF Pending
    <2>2. i \in 1 .. n <=> j \in 1 .. n
      BY <1>1, <1>4, <2>1
    <2>3. CASE i \in 1 .. n
      BY <1>1, <1>4, <2>2, <2>3 DEF OneBeat
    <2> QED BY <1>1, <2>2, <2>3
  <1>5. OneBeat(q) /\ (m.code = "HEART_BEAT" => ~ Pending(q, "HEART_BEAT")) => OneBeat(r)
    BY <1>4 DEF OneBeat
  <1> QED BY <1>2, <1>3, <1>5 DEF r

\* What a message changes that is received.
LEMMA ReceivedPends ==
    ASSUME NEW q \in Seq(Messages), q # <<>>
    PROVE  /\ Tail(q) \in Seq(Messages) /\ Head(q) \in Messages
           /\ \A code : Pending(q, code) <=> Pending(Tail(q), code) \/ Head(q).code = code
           /\ OneBeat(q) => /\ OneBeat(Tail(q))
                            /\ Head(q).code = "HEART_BEAT" => ~ Pending(Tail(q), "HEART_BEAT")
  <1> DEFINE r == Tail(q)
             n == Len(q)
  <1>1. /\ n \in Nat /\ n >= 1 /\ DOMAIN q = 1 .. n /\ DOMAIN r = 1 .. n - 1
        /\ r \in Seq(Messages) /\ Head(q) = q[1] /\ \A i \in 1 .. n - 1 : r[i] = q[i + 1]
    OBVIOUS
  <1>2. Head(q) \in Messages
    OBVIOUS
  <1> HIDE DEF r, n
  <1>3. \A i \in 2 .. n : i - 1 \in DOMAIN r /\ r[i - 1] = q[i]
    <2> TAKE i \in 2 .. n
    <2>1. i - 1 \in 1 .. n - 1 /\ i - 1 + 1 = i
      BY <1>1
    <2> QED BY <1>1, <2>1
  <1>4. ASSUME NEW code
        PROVE  Pending(q, code) <=> Pending(r, code) \/ Head(q).code = code
    <2>1. Pending(r, code) => Pending(q, code)
      <3>1. \A i \in DOMAIN r : i + 1 \in DOMAIN q /\ r[i] = q[i + 1]
        BY <1>1
      <3> QED BY <3>1 DEF Pending
    <2>2. Head(q).code = code => Pending(q, code)
      <3>1. 1 \in DOMAIN q
        BY <1>1
      <3> QED BY <1>1, <3>1 DEF Pending
    <2>3. ASSUME NEW i \in DOMAIN q, q[i].code = code, Head(q).code # code
          PROVE  Pending(r, code)
      <3>1. i # 1 /\ i \in 2 .. n
        BY <1>1, <2>3
      <3> QED BY <1>3, <2>3, <3>1 DEF Pending
    <2> QED BY <2>1, <2>2, <2>3 DEF Pending
  <1>5. ASSUME OneBeat(q)
        PROVE  OneBeat(r) /\ (Head(q).code = "HEART_BEAT" => ~ Pending(r, "HEART_BEAT"))
    <2>1. OneBeat(r)
      <3> SUFFICES ASSUME NEW i \in DOMAIN r, NEW j \in DOMAIN r,
                          r[i].code = "HEART_BEAT", r[j].code = "HEART_BEAT"
                   PROVE  i = j
        BY DEF OneBeat
      <3>1. /\ i + 1 \in DOMAIN q /\ r[i] = q[i + 1]
            /\ j + 1 \in DOMAIN q /\ r[j] = q[j + 1]
        BY <1>1
      <3>2. i + 1 = j + 1
        BY <1>5, <3>1 DEF OneBeat
      <3> QED BY <1>1, <3>2
    <2>2. ASSUME q[1].code = "HEART_BEAT", NEW i \in DOMAIN r, r[i].code = "HEART_BEAT"
          PROVE  FALSE
      <3>1. i + 1 \in DOMAIN q /\ 1 \in DOMAIN q /\ r[i] = q[i + 1] /\ i + 1 # 1
        BY <1>1
      <3> QED BY <1>5, <2>2, <3>1 DEF OneBeat
    <2> QED BY <1>1, <2>1, <2>2 DEF Pending
  <1> QED BY <1>1, <1>2, <1>4, <1>5 DEF r

\* A list that is sent is the last; another message does not matter.
LEMMA SentBrings ==
    ASSUME NEW q \in Seq(Messages), NEW m \in Messages, NEW s, NEW l
    PROVE  /\ m = Update(l) => Brings(Append(q, m), s, l)
           /\ m.code # "UPDATE_SERVER_LIST" /\ Brings(q, s, l) => Brings(Append(q, m), s, l)
  <1> DEFINE r == Append(q, m)
             n == Len(q)
  <1>1. /\ n \in Nat /\ DOMAIN q = 1 .. n /\ DOMAIN r = 1 .. n + 1
        /\ r[n + 1] = m /\ \A i \in 1 .. n : r[i] = q[i]
    OBVIOUS
  <1>2. \A code : Pending(r, code) <=> Pending(q, code) \/ m.code = code
    BY SentPends
  <1> HIDE DEF r, n
  <1>3. m = Update(l) => Brings(r, s, l)
    <2>1. n + 1 \in DOMAIN r /\ \A j \in DOMAIN r : ~ (j > n + 1)
      BY <1>1
    <2> QED BY <1>1, <2>1 DEF Brings
  <1>4. ASSUME m.code # "UPDATE_SERVER_LIST", Brings(q, s, l)
        PROVE  Brings(r, s, l)
    <2>1. ASSUME NEW i \in DOMAIN q, q[i] = Update(l),
                 \A j \in DOMAIN q : j > i => q[j].code # "UPDATE_SERVER_LIST"
          PROVE  Brings(r, s, l)
      <3>1. i \in DOMAIN r /\ r[i] = q[i]
        BY <1>1
      <3>2. ASSUME NEW j \in DOMAIN r, j > i PROVE r[j].code # "UPDATE_SERVER_LIST"
        <4>1. CASE j \in 1 .. n
          BY <1>1, <2>1, <3>2, <4>1
        <4>2. CASE j = n + 1
          BY <1>1, <1>4, <4>2
        <4> QED BY <1>1, <4>1, <4>2
      <3> QED BY <2>1, <3>1, <3>2 DEF Brings
    <2>2. CASE ~ Pending(q, "UPDATE_SERVER_LIST") /\ s = l
      BY <1>2, <1>4, <2>2 DEF Brings
    <2> QED BY <1>4, <2>1, <2>2 DEF Brings
  <1> QED BY <1>3, <1>4 DEF r

\* A list that is received takes the place of the one before.
LEMMA ReceivedBrings ==
    ASSUME NEW q \in Seq(Messages), q # <<>>, NEW s, NEW t, NEW l, Brings(q, s, l),
           Head(q).code = "UPDATE_SERVER_LIST" => t = Head(q).list,
           Head(q).code # "UPDATE_SERVER_LIST" => t = s
    PROVE  Brings(Tail(q), t, l)
  <1> DEFINE r == Tail(q)
             n == Len(q)
  <1>1. /\ n \in Nat /\ n >= 1 /\ DOMAIN q = 1 .. n /\ DOMAIN r = 1 .. n - 1
        /\ Head(q) = q[1] /\ \A i \in 1 .. n - 1 : r[i] = q[i + 1]
    OBVIOUS
  <1>2. \A code : Pending(q, code) <=> Pending(r, code) \/ Head(q).code = code
    BY ReceivedPends
  <1> HIDE DEF r, n
  <1>3. ASSUME NEW i \in DOMAIN q, q[i] = Update(l),
               \A j \in DOMAIN q : j > i => q[j].code # "UPDATE_SERVER_LIST"
        PROVE  Brings(r, t, l)
    <2>1. CASE i = 1
      <3>1. t = l
        BY <1>1, <1>3, <2>1 DEF Update
      <3>2. \A j \in DOMAIN r : r[j].code # "UPDATE_SERVER_LIST"
        <4> TAKE j \in DOMAIN r
        <4>1. j + 1 \in DOMAIN q /\ j + 1 > i /\ r[j] = q[j + 1]
          BY <1>1, <2>1
        <4> QED BY <1>3, <4>1
      <3> QED BY <3>1, <3>2 DEF Brings, Pending
    <2>2. CASE i # 1
      <3>1. i - 1 \in DOMAIN r /\ i - 1 + 1 = i
        BY <1>1, <2>2
      <3>2. r[i - 1] = q[i]
        BY <1>1, <3>1
      <3>3. ASSUME NEW j \in DOMAIN r, j > i - 1 PROVE r[j].code # "UPDATE_SERVER_LIST"
        <4>1. j + 1 \in DOMAIN q /\ j + 1 > i /\ r[j] = q[j + 1]
          BY <1>1, <3>3
        <4> QED BY <1>3, <4>1
      <3> QED BY <1>3, <3>1, <3>2, <3>3 DEF Brings
    <2> QED BY <2>1, <2>2
  <1>4. CASE ~ Pending(q, "UPDATE_SERVER_LIST") /\ s = l
    BY <1>2, <1>4 DEF Brings, r
  <1> QED BY <1>3, <1>4 DEF Brings, r

-----------------------------------------------------------------------------
(* Orderly worlds: the invariant.                                          *)

\* Something is under way for a server.
Busy(d) ==
    \/ sstate[d] = "new"
    \/ pc[d] \notin {"none", "sleep", "await", "done"}
    \/ sstate[d] = "gone" /\ pc[d] # "done"

Pushing == {"push", "walk", "send"}

\* Where a thread is tells whether its server lives and is listed.
StageOK(d) ==
    /\ pc[d] = "none" => sstate[d] # "gone"
    /\ pc[d] \in {"add", "ok"} => sstate[d] = "new"
    /\ pc[d] \in Pushing =>
          sockfd_list # <<>> /\ (sstate[d] = "gone" <=> d \notin Range(sockfd_list))
    /\ pc[d] \in {"lock", "unlist", "unlisted", "close", "done"} => sstate[d] = "gone"
    /\ pc[d] \in {"close", "done"} => d \notin Range(sockfd_list)

\* A heartbeat is on its way or answered while the thread waits, and none is
\* otherwise; one at most was sent to a server that has gone.
BeatOK(d) ==
    /\ pc[d] # "await" => ~ Pending(toServer[d], "HEART_BEAT")
    /\ pc[d] \notin {"none", "await"} => toMaster[d] = <<>>
    /\ pc[d] = "await" => Len(toMaster[d]) <= 1
    /\ pc[d] = "await" /\ sstate[d] # "gone" =>
          (toMaster[d] = <<>> <=> Pending(toServer[d], "HEART_BEAT"))
    /\ OneBeat(toServer[d])
    /\ d \in reset => /\ sstate[d] = "gone" /\ pc[d] # "sleep"
                      /\ pc[d] = "await" => toMaster[d] = <<>>

\* The first message to a server is MASTER_OK.
QueueOK(d) ==
    IF sstate[d] = "new" /\ pc[d] \notin {"none", "add", "ok"}
    THEN toServer[d] # <<>> /\ Head(toServer[d]).code = "MASTER_OK"
    ELSE sstate[d] # "up" => toServer[d] = <<>>

\* Two servers that live or are listed have two addresses.
Present(d) == sstate[d] \in {"new", "up"} \/ d \in Range(server_list)
Apart == \A d, e \in Servers : Present(d) /\ Present(e) /\ Info[d] = Info[e] => d = e

\* The list has the node of every thread that has put one there, once.
NodesOK ==
    /\ \A i, j \in DOMAIN server_list : server_list[i] = server_list[j] => i = j
    /\ \A d \in Servers : d \in Range(server_list) <=> Holds(d)

\* One thing is under way at a time.
OneBusy ==
    /\ \A d, e \in Servers : Busy(d) /\ Busy(e) => d = e
    /\ pc[Event] # "none" => \A d \in Servers : ~ Busy(d)

\* A walk has copied the first nodes and stands at the next.
WalkOK(t) ==
    pc[t] = "walk" =>
        /\ size[t] = Len(server_list) /\ Len(data[t]) <= size[t]
        /\ \A i \in 1 .. Len(data[t]) : data[t][i] = Info[server_list[i]]
        /\ Len(data[t]) < size[t] => it[t] = server_list[Len(data[t]) + 1]

\* A server has the list, or is about to.
Told(d, l) == Brings(toServer[d], servers[d], l)

\* A push has told the servers before the one it is at.
SendOK(d) ==
    pc[d] = "send" =>
        /\ data[d] = Listing
        /\ \E p \in DOMAIN sockfd_list :
              /\ it[d] = sockfd_list[p]
              /\ \A i \in 1 .. p - 1 : Told(sockfd_list[i], Listing)

\* All are told the list, but while it is being changed or pushed.
Changing == {"ok", "unlist", "unlisted"} \cup Pushing
ToldOK ==
    (\A d \in Servers : pc[d] \notin Changing) =>
        \A d \in Servers : pc[d] \in {"sleep", "await"} /\ sstate[d] # "gone"
                              => Told(d, Listing)

OneOK(d) == StageOK(d) /\ BeatOK(d) /\ QueueOK(d) /\ SendOK(d)

OrderInv ==
    /\ ListInv
    /\ \A d \in Servers : OneOK(d)
    /\ Apart /\ NodesOK /\ OneBusy
    /\ \A t \in Threads : WalkOK(t)
    /\ ToldOK
    /\ fault = "none"

\* Nothing of a server changes, nor the lists, nor who is told.
LEMMA OneKeeps ==
    ASSUME TypeOK, NEW d \in Servers, OneOK(d),
           sstate'[d] = sstate[d], pc'[d] = pc[d], toMaster'[d] = toMaster[d],
           toServer'[d] = toServer[d], d \in reset' <=> d \in reset,
           it'[d] = it[d], data'[d] = data[d],
           \/ pc[d] \notin Pushing /\ (d \in Range(sockfd_list') <=> d \in Range(sockfd_list))
           \/ /\ UNCHANGED <<server_list, sockfd_list>>
              /\ \A e \in Range(sockfd_list) : \A l : Told(e, l) => Told(e, l)'
    PROVE  OneOK(d)'
  <1>1. StageOK(d)'
    BY DEF OneOK, StageOK
  <1>2. BeatOK(d)'
    BY DEF OneOK, BeatOK
  <1>3. QueueOK(d)'
    BY DEF OneOK, QueueOK
  <1>4. SendOK(d)'
    <2>1. CASE pc[d] # "send"
      BY <2>1 DEF SendOK
    <2>2. CASE pc[d] = "send"
      <3>1. /\ UNCHANGED <<server_list, sockfd_list>>
            /\ \A e \in Range(sockfd_list) : \A l : Told(e, l) => Told(e, l)'
        BY <2>2 DEF Pushing
      <3>2. PICK l : l = Listing
        OBVIOUS
      <3>3. Listing' = l
        BY <3>1, <3>2 DEF Listing
      <3>4. PICK p \in DOMAIN sockfd_list :
               /\ it[d] = sockfd_list[p] /\ data[d] = l
               /\ \A i \in 1 .. p - 1 : Told(sockfd_list[i], l)
        BY <2>2, <3>2 DEF OneOK, SendOK
      <3>5. \A i \in 1 .. p - 1 : sockfd_list[i] \in Range(sockfd_list)
        <4>1. sockfd_list \in Seq(Servers)
          BY DEF TypeOK
        <4>2. \A i \in 1 .. p - 1 : i \in DOMAIN sockfd_list
          BY <4>1
        <4> QED BY <4>2 DEF Range
      <3>6. \A i \in 1 .. p - 1 : Told(sockfd_list[i], l)'
        BY <3>1, <3>4, <3>5
      <3> QED BY <3>1, <3>3, <3>4, <3>6 DEF SendOK
    <2> QED BY <2>1, <2>2
  <1> QED BY <1>1, <1>2, <1>3, <1>4 DEF OneOK

\* A walk goes on as it was.
LEMMA WalkKeeps ==
    ASSUME NEW t \in Threads, WalkOK(t), pc'[t] = pc[t], size'[t] = size[t],
           it'[t] = it[t], data'[t] = data[t], pc[t] = "walk" => server_list' = server_list
    PROVE  WalkOK(t)'
  BY DEF WalkOK

\* Steps that begin nothing.
LEMMA BusyKeeps ==
    ASSUME OneBusy, \A d \in Servers : Busy(d)' => Busy(d), pc'[Event] = pc[Event]
    PROVE  OneBusy'
  BY DEF OneBusy

LEMMA ApartKeeps ==
    ASSUME Apart, \A d \in Servers : Present(d)' => Present(d)
    PROVE  Apart'
  BY DEF Apart

LEMMA NodesKeep ==
    ASSUME NodesOK, server_list' = server_list, \A d \in Servers : Holds(d)' <=> Holds(d)
    PROVE  NodesOK'
  BY DEF NodesOK

\* Nothing is under way when all is quiet.
LEMMA QuietNotBusy ==
    ASSUME Quiet, NEW d \in Servers, StageOK(d)
    PROVE  ~ Busy(d)
  BY DEF Quiet, Busy, StageOK

\* A server starts.
LEMMA StartOrdered ==
    ASSUME OrderInv, Orderly, ListInv', NEW d \in Servers, Start(d)
    PROVE  OrderInv'
  <1>1. /\ TypeOK /\ \A e \in Servers : OneOK(e) /\ KnownAs(e)
        /\ Quiet /\ sstate[d] = "off" /\ sstate' = [sstate EXCEPT ![d] = "new"]
        /\ toMaster' = [toMaster EXCEPT ![d] = <<Msg("NEW_SERVER")>>]
        /\ \A e \in Servers \ {d} : Info[e] = Info[d] => sstate[e] \in {"off", "gone"}
        /\ UNCHANGED <<server_list, sockfd_list, pc, size, it, data, servers, toServer, reset,
                       fault>>
    BY DEF OrderInv, ListInv, Start, Orderly, lists, locals
  <1>2. /\ sstate'[d] = "new" /\ toMaster'[d] = <<Msg("NEW_SERVER")>>
        /\ \A e \in Servers \ {d} : sstate'[e] = sstate[e] /\ toMaster'[e] = toMaster[e]
    BY <1>1 DEF TypeOK
  <1>3. pc[d] = "none" /\ ~ Holds(d)
    BY <1>1 DEF KnownAs, Holds
  <1>4. ASSUME NEW e \in Servers, NEW l, Told(e, l) PROVE Told(e, l)'
    BY <1>1, <1>4 DEF Told
  <1>5. OneOK(d)'
    <2>1. StageOK(d)' /\ QueueOK(d)'
      BY <1>1, <1>2, <1>3 DEF OneOK, StageOK, QueueOK, Pushing
    <2>2. BeatOK(d)'
      BY <1>1, <1>2, <1>3 DEF OneOK, BeatOK
    <2>3. SendOK(d)'
      BY <1>1, <1>3 DEF SendOK
    <2> QED BY <2>1, <2>2, <2>3 DEF OneOK
  <1>6. \A e \in Servers \ {d} : OneOK(e)'
    <2> TAKE e \in Servers \ {d}
    <2>1. \A f \in Range(sockfd_list) : \A l : Told(f, l) => Told(f, l)'
      BY <1>1, <1>4, NodesOfList DEF TypeOK
    <2> QED BY <1>1, <1>2, <2>1, OneKeeps
  <1>7. Apart'
    <2>1. \A e \in Servers : e \in Range(server_list) => sstate[e] = "up"
      <3> TAKE e \in Servers
      <3>1. e \in Range(server_list) => pc[e] \in {"sleep", "await"}
        BY <1>1 DEF OrderInv, NodesOK, Holds, Quiet
      <3>2. ~ Busy(e)
        BY <1>1, QuietNotBusy DEF OneOK
      <3>3. sstate[e] \in {"off", "new", "up", "gone"}
        BY <1>1 DEF TypeOK
      <3> QED BY <1>1, <3>1, <3>2, <3>3 DEF Busy, KnownAs
    <2>2. \A e \in Servers \ {d} : Present(e)' => Present(e) /\ Info[e] # Info[d]
      BY <1>1, <1>2, <2>1 DEF Present
    <2> QED BY <2>2 DEF OrderInv, Apart
  <1>8. NodesOK' /\ \A t \in Threads : WalkOK(t)'
    BY <1>1, NodesKeep, WalkKeeps DEF OrderInv, Holds
  <1>9. OneBusy'
    <2>1. \A e \in Servers \ {d} : ~ Busy(e)'
      <3> TAKE e \in Servers \ {d}
      <3>1. ~ Busy(e)
        BY <1>1, QuietNotBusy DEF OneOK
      <3> QED BY <1>1, <1>2, <3>1 DEF Busy
    <2> QED BY <1>1, <2>1 DEF OneBusy, Quiet
  <1>10. ToldOK'
    <2>1. PICK l : l = Listing
      OBVIOUS
    <2>2. Listing' = l
      BY <1>1, <2>1 DEF Listing
    <2>3. \A e \in Servers : pc'[e] = pc[e] /\ (sstate'[e] = sstate[e] \/ pc[e] = "none")
      BY <1>1, <1>2, <1>3
    <2> QED BY <1>4, <2>1, <2>2, <2>3 DEF OrderInv, ToldOK
  <1> QED BY <1>1, <1>5, <1>6, <1>7, <1>8, <1>9, <1>10 DEF OrderInv

\* A server dies: no message to it is left.
LEMMA DieOrdered ==
    ASSUME OrderInv, Orderly, ListInv', NEW d \in Servers, Die(d)
    PROVE  OrderInv'
  <1>1. /\ TypeOK /\ \A e \in Servers : OneOK(e) /\ KnownAs(e)
        /\ Quiet /\ sstate[d] \in {"new", "up"} /\ sstate' = [sstate EXCEPT ![d] = "gone"]
        /\ toServer' = [toServer EXCEPT ![d] = <<>>]
        /\ servers' = [servers EXCEPT ![d] = <<>>]
        /\ UNCHANGED <<server_list, sockfd_list, pc, size, it, data, toMaster, reset, fault>>
    BY DEF OrderInv, ListInv, Die, Orderly, master, lists, locals
  <1>2. /\ sstate'[d] = "gone" /\ toServer'[d] = <<>>
        /\ \A e \in Servers \ {d} : /\ sstate'[e] = sstate[e] /\ toServer'[e] = toServer[e]
                                    /\ servers'[e] = servers[e]
    BY <1>1 DEF TypeOK
  <1>3. pc[d] \in {"sleep", "await"} /\ sstate[d] = "up"
    BY <1>1 DEF Quiet, OneOK, StageOK, KnownAs
  <1>4. ASSUME NEW e \in Servers \ {d}, NEW l, Told(e, l) PROVE Told(e, l)'
    BY <1>2, <1>4 DEF Told
  <1>5. OneOK(d)'
    <2>1. StageOK(d)' /\ QueueOK(d)'
      BY <1>1, <1>2, <1>3 DEF OneOK, StageOK, QueueOK, Pushing
    <2>2. BeatOK(d)'
      BY <1>1, <1>2, <1>3 DEF OneOK, BeatOK, Pending, OneBeat
    <2>3. SendOK(d)'
      BY <1>1, <1>3 DEF SendOK
    <2> QED BY <2>1, <2>2, <2>3 DEF OneOK
  <1>6. \A e \in Servers \ {d} : OneOK(e)'
    <2> TAKE e \in Servers \ {d}
    <2>1. pc[e] \notin Pushing
      BY <1>1 DEF Quiet, Pushing
    <2> QED BY <1>1, <1>2, <2>1, OneKeeps
  <1>7. Apart'
    <2>1. \A e \in Servers : Present(e)' => Present(e)
      BY <1>1, <1>2 DEF Present
    <2> QED BY <2>1, ApartKeeps DEF OrderInv
  <1>8. NodesOK' /\ \A t \in Threads : WalkOK(t)'
    BY <1>1, NodesKeep, WalkKeeps DEF OrderInv, Holds
  <1>9. OneBusy'
    <2>1. \A e \in Servers \ {d} : ~ Busy(e)'
      <3> TAKE e \in Servers \ {d}
      <3>1. ~ Busy(e)
        BY <1>1, QuietNotBusy DEF OneOK
      <3> QED BY <1>1, <1>2, <3>1 DEF Busy
    <2> QED BY <1>1, <2>1 DEF OneBusy, Quiet
  <1>10. ToldOK'
    <2>1. PICK l : l = Listing
      OBVIOUS
    <2>2. Listing' = l
      BY <1>1, <2>1 DEF Listing
    <2>3. \A e \in Servers \ {d} : sstate'[e] = sstate[e]
      BY <1>2
    <2> QED BY <1>1, <1>2, <1>4, <2>1, <2>2, <2>3 DEF OrderInv, ToldOK
  <1> QED BY <1>1, <1>5, <1>6, <1>7, <1>8, <1>9, <1>10 DEF OrderInv

\* A recv takes one message.
LEMMA ReceiveOne ==
    ASSUME TypeOK, Orderly, NEW d \in Servers, Receive(d)
    PROVE  /\ toServer[d] \in Seq(Messages) /\ toServer[d] # <<>>
           /\ toServer'[d] = Tail(toServer[d])
           /\ \A e \in Servers \ {d} : toServer'[e] = toServer[e]
  <1>1. /\ toServer[d] \in Seq(Messages) /\ toServer[d] # <<>>
        /\ toServer \in [Servers -> Seq(Messages)]
    BY DEF TypeOK, Receive
  <1>2. toServer' = [toServer EXCEPT ![d] = SubSeq(@, 2, Len(@))]
    <2>1. PICK k \in 1 .. 1 : toServer' = [toServer EXCEPT ![d] = SubSeq(@, k + 1, Len(@))]
      BY DEF Receive, Orderly
    <2>2. k + 1 = 2
      BY <2>1
    <2> QED BY <2>1, <2>2
  <1>3. SubSeq(toServer[d], 2, Len(toServer[d])) = Tail(toServer[d])
    BY <1>1, TailIsSubSeq
  <1> QED BY <1>1, <1>2, <1>3

\* A server takes the first message off its queue, and becomes one that is up.
LEMMA TakeKeeps ==
    ASSUME OrderInv, Orderly, ListInv', NEW d \in Servers, Receive(d),
           UNCHANGED <<server_list, sockfd_list, pc, size, it, data, reset, fault>>,
           pc[d] \notin {"none", "add", "ok"}, sstate[d] \in {"new", "up"}, sstate'[d] = "up",
           sstate[d] = "new" => Head(toServer[d]).code # "UPDATE_SERVER_LIST",
           Head(toServer[d]).code = "UPDATE_SERVER_LIST" =>
              servers'[d] = Head(toServer[d]).list,
           Head(toServer[d]).code # "UPDATE_SERVER_LIST" => servers'[d] = servers[d],
           Head(toServer[d]).code = "HEART_BEAT" =>
              toMaster'[d] = Append(toMaster[d], Msg("HEART_BEAT_OK")),
           Head(toServer[d]).code # "HEART_BEAT" => toMaster'[d] = toMaster[d],
           \A e \in Servers \ {d} : /\ sstate'[e] = sstate[e] /\ servers'[e] = servers[e]
                                    /\ toMaster'[e] = toMaster[e]
    PROVE  OrderInv'
  <1>1. /\ TypeOK /\ \A e \in Servers : OneOK(e) /\ KnownAs(e)
        /\ toMaster[d] \in Seq(Messages)
    BY DEF OrderInv, ListInv, TypeOK
  <1>2. /\ toServer[d] \in Seq(Messages) /\ toServer[d] # <<>>
        /\ toServer'[d] = Tail(toServer[d])
        /\ \A e \in Servers \ {d} : toServer'[e] = toServer[e]
    BY <1>1, ReceiveOne
  <1>3. ASSUME NEW e \in Servers, NEW l, Told(e, l) PROVE Told(e, l)'
    <2>1. CASE e = d
      BY <1>2, <1>3, <2>1, ReceivedBrings DEF Told
    <2>2. CASE e # d
      BY <1>2, <1>3, <2>2 DEF Told
    <2> QED BY <2>1, <2>2
  <1>4. \A e \in Range(sockfd_list) : \A l : Told(e, l) => Told(e, l)'
    BY <1>1, <1>3, NodesOfList DEF TypeOK
  <1>5. OneOK(d)'
    <2>1. StageOK(d)' /\ QueueOK(d)'
      BY <1>1 DEF OneOK, StageOK, QueueOK
    <2>2. BeatOK(d)'
      <3> DEFINE q == toServer[d]
                 h == Head(q).code = "HEART_BEAT"
      <3>1. /\ Pending(q, "HEART_BEAT") <=> Pending(Tail(q), "HEART_BEAT") \/ h
            /\ OneBeat(q) => OneBeat(Tail(q)) /\ (h => ~ Pending(Tail(q), "HEART_BEAT"))
        BY <1>2, ReceivedPends
      <3>2. CASE h
        <4>1. Pending(q, "HEART_BEAT") /\ pc[d] = "await" /\ toMaster[d] = <<>>
          BY <1>1, <3>1, <3>2 DEF OneOK, BeatOK
        <4>2. toMaster'[d] # <<>> /\ Len(toMaster'[d]) <= 1
          <5>1. toMaster'[d] = Append(<<>>, Msg("HEART_BEAT_OK"))
            BY <3>2, <4>1
          <5> QED BY <5>1
        <4> QED BY <1>1, <1>2, <3>1, <3>2, <4>1, <4>2 DEF OneOK, BeatOK
      <3>3. CASE ~ h
        BY <1>1, <1>2, <3>1, <3>3 DEF OneOK, BeatOK
      <3> QED BY <3>2, <3>3
    <2>3. SendOK(d)'
      <3>1. PICK l : l = Listing
        OBVIOUS
      <3>2. Listing' = l
        BY <3>1 DEF Listing
      <3>3. sockfd_list \in Seq(Servers)
        BY <1>1 DEF TypeOK
      <3> SUFFICES ASSUME pc[d] = "send"
                   PROVE  SendOK(d)'
        BY DEF SendOK
      <3>4. PICK p \in DOMAIN sockfd_list :
               /\ it[d] = sockfd_list[p] /\ data[d] = l
               /\ \A i \in 1 .. p - 1 : Told(sockfd_list[i], l)
        BY <1>1, <3>1 DEF OneOK, SendOK
      <3>5. \A i \in 1 .. p - 1 : sockfd_list[i] \in Servers
        BY <3>3
      <3>6. \A i \in 1 .. p - 1 : Told(sockfd_list[i], l)'
        BY <1>3, <3>4, <3>5
      <3> QED BY <3>2, <3>4, <3>6 DEF SendOK
    <2> QED BY <2>1, <2>2, <2>3 DEF OneOK
  <1>6. \A e \in Servers \ {d} : OneOK(e)'
    BY <1>1, <1>2, <1>4, OneKeeps
  <1>7. Apart' /\ OneBusy'
    <2>1. \A e \in Servers : (Present(e)' => Present(e)) /\ (Busy(e)' => Busy(e))
      BY <1>1 DEF Present, Busy
    <2> QED BY <2>1, ApartKeeps, BusyKeeps DEF OrderInv
  <1>8. NodesOK' /\ \A t \in Threads : WalkOK(t)'
    BY NodesKeep, WalkKeeps DEF OrderInv, Holds
  <1>9. ToldOK'
    <2>1. PICK l : l = Listing
      OBVIOUS
    <2>2. Listing' = l
      BY <2>1 DEF Listing
    <2>3. \A e \in Servers : sstate'[e] # "gone" => sstate[e] # "gone"
      OBVIOUS
    <2> QED BY <1>3, <2>1, <2>2, <2>3 DEF OrderInv, ToldOK
  <1> QED BY <1>5, <1>6, <1>7, <1>8, <1>9 DEF OrderInv

\* A server is told MASTER_OK, and nothing else.
LEMMA RegisterOrdered ==
    ASSUME OrderInv, Orderly, ListInv', NEW d \in Servers, Register(d)
    PROVE  OrderInv'
  <1>1. /\ TypeOK /\ OneOK(d) /\ Receive(d) /\ sstate[d] = "new"
        /\ sstate' = [sstate EXCEPT ![d] =
              IF Head(toServer[d]).code = "MASTER_OK" THEN "up" ELSE "gone"]
        /\ UNCHANGED <<server_list, sockfd_list, pc, size, it, data, servers, toMaster, reset,
                       fault>>
    BY DEF OrderInv, ListInv, Register, master, lists, locals
  <1>2. toServer[d] # <<>>
    BY <1>1 DEF Receive
  <1>3. pc[d] \notin {"none", "add", "ok"} /\ Head(toServer[d]).code = "MASTER_OK"
    BY <1>1, <1>2 DEF OneOK, QueueOK
  <1>4. sstate'[d] = "up" /\ \A e \in Servers \ {d} : sstate'[e] = sstate[e]
    BY <1>1, <1>3 DEF TypeOK
  <1> QED BY <1>1, <1>3, <1>4, TakeKeeps

\* A server takes a list, or answers a heartbeat.
LEMMA HeartbeatOrdered ==
    ASSUME OrderInv, Orderly, ListInv', NEW d \in Servers, Thread_heartbeat(d)
    PROVE  OrderInv'
  <1>1. /\ TypeOK /\ OneOK(d) /\ KnownAs(d) /\ Receive(d) /\ sstate[d] = "up"
        /\ TakeList(d) \/ AnswerBeat(d)
        /\ UNCHANGED <<server_list, sockfd_list, pc, size, it, data, sstate, reset, fault>>
    BY DEF OrderInv, ListInv, Thread_heartbeat, master, lists, locals
  <1>2. pc[d] \notin {"none", "add", "ok"}
    BY <1>1 DEF OneOK, StageOK, KnownAs
  <1>3. CASE TakeList(d)
    <2>1. /\ Head(toServer[d]).code = "UPDATE_SERVER_LIST" /\ toMaster' = toMaster
          /\ servers' = [servers EXCEPT ![d] = Head(toServer[d]).list]
      BY <1>3 DEF TakeList
    <2>2. /\ servers'[d] = Head(toServer[d]).list
          /\ \A e \in Servers \ {d} : servers'[e] = servers[e]
      BY <1>1, <2>1 DEF TypeOK
    <2> QED BY <1>1, <1>2, <2>1, <2>2, TakeKeeps
  <1>4. CASE AnswerBeat(d)
    <2>1. /\ Head(toServer[d]).code = "HEART_BEAT" /\ servers' = servers
          /\ toMaster' = [toMaster EXCEPT ![d] = Append(@, Msg("HEART_BEAT_OK"))]
      BY <1>4 DEF AnswerBeat
    <2>2. /\ toMaster'[d] = Append(toMaster[d], Msg("HEART_BEAT_OK"))
          /\ \A e \in Servers \ {d} : toMaster'[e] = toMaster[e]
      BY <1>1, <2>1 DEF TypeOK
    <2> QED BY <1>1, <1>2, <2>1, <2>2, TakeKeeps
  <1> QED BY <1>1, <1>3, <1>4

\* Who was told still is.
LEMMA ToldKeeps ==
    ASSUME ToldOK, server_list' = server_list,
           \A d \in Servers : \A l : Told(d, l) => Told(d, l)',
           \A d \in Servers : pc'[d] \in {"sleep", "await"} /\ sstate'[d] # "gone" =>
                                 pc[d] \in {"sleep", "await"} /\ sstate[d] # "gone",
           (\A d \in Servers : pc'[d] \notin Changing) => \A d \in Servers : pc[d] \notin Changing
    PROVE  ToldOK'
  <1>1. PICK l : l = Listing
    OBVIOUS
  <1>2. Listing' = l
    BY <1>1 DEF Listing
  <1> QED BY <1>1, <1>2 DEF ToldOK, Changing, Pushing

\* Steps of a thread that are seen by no other.
LEMMA MoveOrdered ==
    ASSUME OrderInv, ListInv', NEW t \in Threads,
           UNCHANGED <<server_list, sockfd_list, sstate, servers, toMaster, toServer, reset,
                       fault>>,
           \A u \in Threads \ {t} : /\ pc'[u] = pc[u] /\ size'[u] = size[u]
                                    /\ it'[u] = it[u] /\ data'[u] = data[u],
           t \in Servers => OneOK(t)' /\ (Busy(t)' => Busy(t)) /\ (Holds(t)' <=> Holds(t)),
           t = Event /\ pc'[Event] # "none" => \A d \in Servers : ~ Busy(d),
           WalkOK(t)', ToldOK'
    PROVE  OrderInv'
  <1>1. /\ TypeOK /\ Event \in Threads /\ Event \notin Servers
        /\ \A d \in Servers : d \in Threads /\ OneOK(d)
    BY MembershipAssumption DEF OrderInv, ListInv, Threads
  <1>2. \A d \in Servers : OneOK(d)'
    <2>1. \A d \in Servers : \A l : Told(d, l) => Told(d, l)'
      BY DEF Told
    <2>2. \A d \in Range(sockfd_list) : \A l : Told(d, l) => Told(d, l)'
      BY <1>1, <2>1, NodesOfList DEF TypeOK
    <2> QED BY <1>1, <2>2, OneKeeps
  <1>3. \A d \in Servers : /\ Busy(d)' => Busy(d)
                           /\ Present(d)' => Present(d)
                           /\ Holds(d)' <=> Holds(d)
    BY <1>1 DEF Busy, Present, Holds
  <1>4. Apart' /\ NodesOK'
    BY <1>3, ApartKeeps, NodesKeep DEF OrderInv
  <1>5. OneBusy'
    BY <1>1, <1>3 DEF OrderInv, OneBusy
  <1>6. \A u \in Threads : WalkOK(u)'
    BY WalkKeeps DEF OrderInv
  <1> QED BY <1>2, <1>4, <1>5, <1>6 DEF OrderInv

\* A walk or a push goes from a node to the next.
LEMMA NextNode ==
    ASSUME NEW l \in Seq(Servers), \A i, j \in DOMAIN l : l[i] = l[j] => i = j,
           NEW i \in 1 .. Len(l)
    PROVE  /\ i < Len(l) => NextOf(l, l[i]) = l[i + 1]
           /\ l[i] = Last(l) <=> i = Len(l)
  <1> DEFINE c == CHOOSE j \in DOMAIN l : l[j] = l[i]
  <1>1. Len(l) \in Nat /\ DOMAIN l = 1 .. Len(l) /\ i \in Nat
    OBVIOUS
  <1>2. c \in DOMAIN l /\ l[c] = l[i]
    BY <1>1
  <1>3. c = i
    BY <1>1, <1>2
  <1> HIDE DEF c
  <1>4. NextOf(l, l[i]) = IF i = Len(l) THEN NULL ELSE l[i + 1]
    BY <1>3 DEF NextOf, c
  <1>5. Last(l) = l[Len(l)] /\ Len(l) \in DOMAIN l /\ i \in DOMAIN l
    BY <1>1 DEF Last
  <1>6. l[i] = Last(l) <=> i = Len(l)
    BY <1>5
  <1>7. i < Len(l) => i # Len(l)
    <2>1. \A n \in Nat : i < n => i # n
      BY <1>1
    <2> QED BY <1>1, <2>1
  <1> QED BY <1>4, <1>6, <1>7

\* A thread starts to copy the list.
LEMMA BeginOrdered ==
    ASSUME OrderInv, NEW t \in Threads, BeginWalk(t), server_list' = server_list
    PROVE  /\ WalkOK(t)' /\ pc'[t] = "walk"
           /\ \A u \in Threads \ {t} : /\ pc'[u] = pc[u] /\ size'[u] = size[u]
                                       /\ it'[u] = it[u] /\ data'[u] = data[u]
  <1>1. TypeOK
    BY DEF OrderInv, ListInv
  <1>2. /\ pc'[t] = "walk" /\ size'[t] = Len(server_list) /\ it'[t] = First(server_list)
        /\ data'[t] = <<>>
    BY <1>1 DEF BeginWalk, TypeOK
  <1>3. \A u \in Threads \ {t} : /\ pc'[u] = pc[u] /\ size'[u] = size[u]
                                 /\ it'[u] = it[u] /\ data'[u] = data[u]
    BY <1>1 DEF BeginWalk, TypeOK
  <1>4. WalkOK(t)'
    <2>1. PICK l \in Seq(Servers) : l = server_list
      BY <1>1 DEF TypeOK
    <2>2. Len(l) \in Nat /\ (0 < Len(l) => First(l) = l[1])
      BY <2>1 DEF First
    <2>3. Len(data'[t]) = 0
      BY <1>2
    <2> QED BY <1>2, <2>1, <2>2, <2>3 DEF WalkOK
  <1> QED BY <1>2, <1>3, <1>4

\* A thread copies a node.
LEMMA CopyOrdered ==
    ASSUME OrderInv, ListInv', NEW t \in Threads, CopyNode(t)
    PROVE  OrderInv'
  <1>1. /\ TypeOK /\ WalkOK(t) /\ pc[t] = "walk" /\ Len(data[t]) < size[t]
        /\ data' = [data EXCEPT ![t] = Append(@, Info[it[t]])]
        /\ it' = [it EXCEPT ![t] = NextOf(server_list, @)]
        /\ UNCHANGED <<server_list, sockfd_list, pc, size, sstate, servers, toMaster, toServer,
                       reset, fault>>
    BY DEF OrderInv, ListInv, CopyNode, lists, net, peers
  <1>2. /\ data'[t] = Append(data[t], Info[it[t]]) /\ it'[t] = NextOf(server_list, it[t])
        /\ \A u \in Threads \ {t} : it'[u] = it[u] /\ data'[u] = data[u]
    BY <1>1 DEF TypeOK
  <1>3. WalkOK(t)'
    <2>1. PICK l \in Seq(Servers) : l = server_list
      BY <1>1 DEF TypeOK
    <2>2. PICK c \in Seq(Infos) : c = data[t]
      BY <1>1 DEF TypeOK
    <2> DEFINE n == Len(c)
    <2>3. /\ n \in Nat /\ Len(l) \in Nat /\ DOMAIN l = 1 .. Len(l)
          /\ n < Len(l) /\ size[t] = Len(l)
          /\ \A i \in 1 .. n : c[i] = Info[l[i]]
          /\ it[t] = l[n + 1]
      BY <1>1, <2>1, <2>2 DEF WalkOK
    <2>4. /\ Len(data'[t]) = n + 1 /\ data'[t][n + 1] = Info[l[n + 1]]
          /\ \A i \in 1 .. n : data'[t][i] = c[i]
      <3>1. data'[t] = Append(c, Info[l[n + 1]])
        BY <1>2, <2>2, <2>3
      <3> QED BY <3>1
    <2>5. n + 1 < Len(l) => it'[t] = l[n + 1 + 1]
      <3>1. n + 1 \in 1 .. Len(l)
        BY <2>3
      <3>2. \A i, j \in DOMAIN l : l[i] = l[j] => i = j
        BY <2>1 DEF OrderInv, NodesOK
      <3>3. n + 1 < Len(l) => NextOf(l, l[n + 1]) = l[n + 1 + 1]
        BY <3>1, <3>2, NextNode
      <3> QED BY <1>2, <2>1, <2>3, <3>3
    <2> HIDE DEF n
    <2>6. \A i \in 1 .. n + 1 : data'[t][i] = Info[l[i]]
      BY <2>3, <2>4
    <2>7. n + 1 <= Len(l)
      BY <2>3
    <2> QED BY <1>1, <2>1, <2>3, <2>4, <2>5, <2>6, <2>7 DEF WalkOK
  <1>4. t \in Servers => OneOK(t)'
    <2> SUFFICES ASSUME t \in Servers PROVE OneOK(t)'
      OBVIOUS
    <2>1. OneOK(t)
      BY DEF OrderInv
    <2>2. StageOK(t)' /\ BeatOK(t)' /\ QueueOK(t)'
      BY <1>1, <2>1 DEF OneOK, StageOK, BeatOK, QueueOK
    <2>3. SendOK(t)'
      BY <1>1 DEF SendOK
    <2> QED BY <2>2, <2>3 DEF OneOK
  <1>5. ToldOK'
    BY <1>1, ToldKeeps DEF OrderInv, Told
  <1>6. t = Event => \A d \in Servers : ~ Busy(d)
    BY <1>1 DEF OrderInv, OneBusy
  <1>7. \A d \in Servers : (Busy(d)' <=> Busy(d)) /\ (Holds(d)' <=> Holds(d))
    BY <1>1 DEF Busy, Holds
  <1> QED BY <1>1, <1>2, <1>3, <1>4, <1>5, <1>6, <1>7, MoveOrdered

\* A walk meets no node that is gone.
LEMMA WalkNotLost ==
    ASSUME OrderInv, NEW t \in Threads
    PROVE  ~ WalkLost(t)
  <1> SUFFICES ASSUME WalkLost(t) PROVE FALSE
    OBVIOUS
  <1>1. PICK l \in Seq(Servers) : l = server_list
    BY DEF OrderInv, ListInv, TypeOK
  <1>2. PICK c \in Seq(Infos) : c = data[t]
    BY DEF OrderInv, ListInv, TypeOK
  <1>3. /\ Len(c) \in Nat /\ DOMAIN l = 1 .. Len(l) /\ Len(l) \in Nat
        /\ Len(c) < Len(l) /\ it[t] = l[Len(c) + 1] /\ it[t] \notin Range(l)
    BY <1>1, <1>2 DEF WalkLost, OrderInv, WalkOK
  <1>4. Len(c) + 1 \in DOMAIN l
    BY <1>3
  <1> QED BY <1>3, <1>4 DEF Range

\* The event thread is done with an answer.
LEMMA AnswerOrdered ==
    ASSUME OrderInv, ListInv', ServerListOk
    PROVE  OrderInv'
  <1>1. /\ TypeOK /\ Event \in Threads /\ Event \notin Servers /\ pc[Event] = "walk"
        /\ pc' = [pc EXCEPT ![Event] = "none"] /\ Cleared(Event)
        /\ UNCHANGED <<server_list, sockfd_list, sstate, servers, toMaster, toServer, reset,
                       fault>>
    BY MembershipAssumption DEF OrderInv, ListInv, ServerListOk, lists, net, peers, Threads
  <1>2. /\ pc'[Event] = "none"
        /\ \A u \in Threads \ {Event} : /\ pc'[u] = pc[u] /\ size'[u] = size[u]
                                        /\ it'[u] = it[u] /\ data'[u] = data[u]
    BY <1>1 DEF TypeOK, Cleared
  <1>3. WalkOK(Event)'
    BY <1>2 DEF WalkOK
  <1>4. \A d \in Servers : pc'[d] = pc[d]
    BY <1>1, <1>2 DEF Threads
  <1>5. ToldOK'
    BY <1>1, <1>4, ToldKeeps DEF OrderInv, Told
  <1> QED BY <1>1, <1>2, <1>3, <1>5, MoveOrdered

\* The event thread is asked for the list.
LEMMA GetOrdered ==
    ASSUME OrderInv, Orderly, ListInv', GetServerList
    PROVE  OrderInv'
  <1>1. /\ Event \in Threads /\ Event \notin Servers /\ Quiet /\ BeginWalk(Event)
        /\ UNCHANGED <<server_list, sockfd_list, sstate, servers, toMaster, toServer, reset,
                       fault>>
    BY MembershipAssumption DEF GetServerList, Orderly, lists, net, peers, Threads
  <1>2. /\ WalkOK(Event)' /\ pc'[Event] = "walk"
        /\ \A u \in Threads \ {Event} : /\ pc'[u] = pc[u] /\ size'[u] = size[u]
                                        /\ it'[u] = it[u] /\ data'[u] = data[u]
    BY <1>1, BeginOrdered
  <1>3. \A d \in Servers : ~ Busy(d)
    BY <1>1, QuietNotBusy DEF OrderInv, OneOK
  <1>4. \A d \in Servers : pc'[d] = pc[d]
    BY <1>1, <1>2 DEF Threads
  <1>5. ToldOK'
    BY <1>1, <1>4, ToldKeeps DEF OrderInv, Told
  <1> QED BY <1>1, <1>2, <1>3, <1>5, MoveOrdered

\* A thread pushes: it walks the list first.
LEMMA PushBeginOrdered ==
    ASSUME OrderInv, ListInv', NEW d \in Servers, PushBegin(d)
    PROVE  OrderInv'
  <1>1. /\ d \in Threads /\ d # Event /\ OneOK(d) /\ pc[d] = "push" /\ BeginWalk(d)
        /\ UNCHANGED <<server_list, sockfd_list, sstate, servers, toMaster, toServer, reset,
                       fault>>
    BY MembershipAssumption DEF OrderInv, PushBegin, lists, net, peers, Threads
  <1>2. /\ WalkOK(d)' /\ pc'[d] = "walk"
        /\ \A u \in Threads \ {d} : /\ pc'[u] = pc[u] /\ size'[u] = size[u]
                                    /\ it'[u] = it[u] /\ data'[u] = data[u]
    BY <1>1, BeginOrdered
  <1>3. OneOK(d)'
    BY <1>1, <1>2 DEF OneOK, StageOK, BeatOK, QueueOK, SendOK, Pushing
  <1>4. (Busy(d)' => Busy(d)) /\ (Holds(d)' <=> Holds(d))
    BY <1>1, <1>2 DEF Busy, Holds
  <1>5. ToldOK'
    BY <1>2 DEF ToldOK, Changing, Pushing
  <1> QED BY <1>1, <1>2, <1>3, <1>4, <1>5, MoveOrdered

\* It has copied the list, and begins to send it.
LEMMA PushStartOrdered ==
    ASSUME OrderInv, ListInv', NEW d \in Servers, PushStart(d)
    PROVE  OrderInv'
  <1>1. /\ TypeOK /\ d \in Threads /\ d # Event /\ OneOK(d) /\ WalkOK(d) /\ pc[d] = "walk"
        /\ pc' = [pc EXCEPT ![d] = "send"] /\ Len(data[d]) = size[d]
        /\ it' = [it EXCEPT ![d] = First(sockfd_list)]
        /\ UNCHANGED <<server_list, sockfd_list, size, data, sstate, servers, toMaster,
                       toServer, reset, fault>>
    BY MembershipAssumption DEF OrderInv, ListInv, PushStart, lists, net, peers, Threads
  <1>2. /\ pc'[d] = "send" /\ it'[d] = First(sockfd_list)
        /\ \A u \in Threads \ {d} : pc'[u] = pc[u] /\ it'[u] = it[u]
    BY <1>1 DEF TypeOK
  <1>3. SendOK(d)'
    <2>1. PICK l \in Seq(Servers) : l = server_list
      BY <1>1 DEF TypeOK
    <2>2. PICK c \in Seq(Infos) : c = data[d]
      BY <1>1 DEF TypeOK
    <2>3. PICK k \in Seq(Servers) : k = sockfd_list
      BY <1>1 DEF TypeOK
    <2>4. c = [i \in DOMAIN l |-> Info[l[i]]]
      <3>1. /\ Len(c) = Len(l) /\ \A i \in 1 .. Len(l) : c[i] = Info[l[i]]
        BY <1>1, <2>1, <2>2 DEF WalkOK
      <3>2. DOMAIN c = DOMAIN l /\ c = [i \in DOMAIN c |-> c[i]]
        BY <3>1
      <3> QED BY <3>1, <3>2
    <2>5. data'[d] = Listing'
      BY <1>1, <2>1, <2>2, <2>4 DEF Listing
    <2>6. k # <<>>
      BY <1>1, <2>3 DEF OneOK, StageOK, Pushing
    <2>7. 1 \in DOMAIN k /\ First(k) = k[1] /\ 1 .. 1 - 1 = {}
      BY <2>6 DEF First
    <2> QED BY <1>1, <1>2, <2>3, <2>5, <2>7 DEF SendOK
  <1>4. OneOK(d)'
    BY <1>1, <1>2, <1>3 DEF OneOK, StageOK, BeatOK, QueueOK, Pushing
  <1>5. (Busy(d)' => Busy(d)) /\ (Holds(d)' <=> Holds(d))
    BY <1>1, <1>2 DEF Busy, Holds
  <1>6. ToldOK' /\ WalkOK(d)'
    BY <1>2 DEF ToldOK, Changing, Pushing, WalkOK
  <1> QED BY <1>1, <1>2, <1>4, <1>5, <1>6, MoveOrdered

\* A thread has taken its server off both lists, or is done.
LEMMA UnlistedOrdered ==
    ASSUME OrderInv, ListInv', NEW d \in Servers, Unlisted(d) \/ CloseSocket(d)
    PROVE  OrderInv'
  <1>1. /\ TypeOK /\ d \in Threads /\ d # Event /\ OneOK(d) /\ \A e \in Servers : KnownAs(e)
        /\ UNCHANGED <<server_list, sockfd_list, size, it, data, sstate, servers, toMaster,
                       toServer, reset, fault>>
        /\ \/ pc[d] = "unlisted" /\ sockfd_list = <<>> /\ pc' = [pc EXCEPT ![d] = "close"]
           \/ pc[d] = "unlisted" /\ sockfd_list # <<>> /\ pc' = [pc EXCEPT ![d] = "push"]
           \/ pc[d] = "close" /\ pc' = [pc EXCEPT ![d] = "done"]
    BY MembershipAssumption
       DEF OrderInv, ListInv, Unlisted, CloseSocket, lists, locals, net, peers, Threads
  <1>2. /\ \/ pc[d] = "unlisted" /\ sockfd_list = <<>> /\ pc'[d] = "close"
           \/ pc[d] = "unlisted" /\ sockfd_list # <<>> /\ pc'[d] = "push"
           \/ pc[d] = "close" /\ pc'[d] = "done"
        /\ \A u \in Threads \ {d} : pc'[u] = pc[u]
    BY <1>1 DEF TypeOK
  <1>3. d \notin Range(sockfd_list)
    BY <1>1, <1>2 DEF KnownAs, OneOK, StageOK
  <1>4. OneOK(d)'
    BY <1>1, <1>2, <1>3 DEF OneOK, StageOK, BeatOK, QueueOK, SendOK, Pushing
  <1>5. (Busy(d)' => Busy(d)) /\ (Holds(d)' <=> Holds(d)) /\ WalkOK(d)'
    BY <1>1, <1>2, <1>3 DEF Busy, Holds, WalkOK
  <1>6. ToldOK'
    <2>1. CASE pc'[d] = "push"
      BY <2>1 DEF ToldOK, Changing, Pushing
    <2>2. CASE sockfd_list = <<>>
      <3>1. \A e \in Servers : e \notin Range(sockfd_list)
        BY <2>2 DEF Range
      <3>2. \A e \in Servers : pc'[e] \notin {"sleep", "await"}
        BY <1>1, <1>2, <3>1 DEF KnownAs, Threads
      <3> QED BY <3>2 DEF ToldOK
    <2>3. CASE pc'[d] = "done" /\ pc[d] = "close"
      <3>1. \A e \in Servers : e # d => pc'[e] = pc[e]
        BY <1>2 DEF Threads
      <3>2. \A e \in Servers : \A l : Told(e, l) => Told(e, l)'
        BY <1>1 DEF Told
      <3>3. (\A e \in Servers : pc'[e] \notin Changing)
               => \A e \in Servers : pc[e] \notin Changing
        BY <2>3, <3>1 DEF Changing, Pushing
      <3>4. \A e \in Servers : pc'[e] \in {"sleep", "await"} /\ sstate'[e] # "gone" =>
                                  pc[e] \in {"sleep", "await"} /\ sstate[e] # "gone"
        BY <1>1, <2>3, <3>1
      <3> QED BY <1>1, <3>2, <3>3, <3>4, ToldKeeps DEF OrderInv
    <2> QED BY <1>2, <2>1, <2>2, <2>3
  <1> QED BY <1>1, <1>2, <1>4, <1>5, <1>6, MoveOrdered

\* A thread that is alone and changes no message, only the lists and where it is.
LEMMA AloneOrdered ==
    ASSUME OrderInv, ListInv', NEW d \in Servers, Busy(d), NEW to, pc'[d] = to,
           \A e \in Servers \ {d} : pc'[e] = pc[e],
           \A e \in Servers \ {d} : toMaster'[e] = toMaster[e] /\ toServer'[e] = toServer[e],
           \A e \in Servers \ {d} : e \in Range(sockfd_list') <=> e \in Range(sockfd_list),
           pc'[Event] = pc[Event],
           UNCHANGED <<size, it, data, sstate, servers, reset, fault>>,
           OneOK(d)', Busy(d)', pc[d] # "walk", to # "walk",
           Apart', NodesOK', ToldOK'
    PROVE  OrderInv'
  <1>1. TypeOK /\ \A e \in Servers : OneOK(e)
    BY DEF OrderInv, ListInv
  <1>2. \A e \in Servers \ {d} : ~ Busy(e)
    BY DEF OrderInv, OneBusy
  <1>3. \A e \in Servers \ {d} : pc[e] \notin Pushing
    BY <1>2 DEF Busy, Pushing
  <1>4. \A e \in Servers \ {d} : OneOK(e)'
    BY <1>1, <1>3, OneKeeps
  <1>5. OneBusy'
    <2>1. \A e \in Servers : Busy(e)' => Busy(e)
      BY DEF Busy
    <2> QED BY <2>1, BusyKeeps DEF OrderInv
  <1>6. \A t \in Threads : WalkOK(t)'
    <2>1. pc[Event] # "walk"
      BY DEF OrderInv, OneBusy
    <2>2. \A t \in Threads : pc'[t] # "walk"
      BY <1>3, <2>1 DEF Threads, Pushing
    <2> QED BY <2>2 DEF WalkOK
  <1> QED BY <1>4, <1>5, <1>6 DEF OrderInv

\* A new descriptor is listed.
LEMMA NewServerOrdered ==
    ASSUME OrderInv, ListInv', NEW d \in Servers, NewServer(d)
    PROVE  OrderInv'
  <1>1. /\ TypeOK /\ d \in Threads /\ Event \in Threads /\ d # Event /\ OneOK(d) /\ KnownAs(d)
        /\ pc[d] = "none" /\ toMaster[d] # <<>>
        /\ toMaster' = [toMaster EXCEPT ![d] = Tail(@)]
        /\ sockfd_list' = Append(sockfd_list, d)
        /\ pc' = pc \/ pc' = [pc EXCEPT ![d] = "add"]
        /\ UNCHANGED <<server_list, size, it, data, sstate, servers, toServer, reset, fault>>
    BY MembershipAssumption DEF OrderInv, ListInv, NewServer, locals, Threads
  <1>2. /\ pc'[d] \in {"none", "add"} /\ \A t \in Threads \ {d} : pc'[t] = pc[t]
        /\ \A e \in Servers \ {d} : toMaster'[e] = toMaster[e]
    <2>1. pc' = pc \/ (pc'[d] = "add" /\ \A t \in Threads \ {d} : pc'[t] = pc[t])
      BY <1>1 DEF TypeOK
    <2>2. \A e \in Servers \ {d} : toMaster'[e] = toMaster[e]
      BY <1>1 DEF TypeOK
    <2> QED BY <1>1, <2>1, <2>2
  <1>3. toMaster'[d] = <<>>
    <2>1. PICK q \in Seq(Messages) : q = toMaster[d]
      BY <1>1 DEF TypeOK
    <2>2. q # <<>> /\ Len(q) <= 1
      BY <1>1, <2>1 DEF KnownAs
    <2>3. Tail(q) = <<>>
      BY <2>2
    <2> QED BY <1>1, <2>1, <2>3 DEF TypeOK
  <1>4. sstate[d] = "new"
    <2>1. sstate[d] \in {"off", "new", "up", "gone"}
      BY <1>1 DEF TypeOK
    <2> QED BY <1>1, <2>1 DEF KnownAs, OneOK, StageOK
  <1>5. \A e \in Servers \ {d} : e \in Range(sockfd_list') <=> e \in Range(sockfd_list)
    <2>1. PICK l \in Seq(Servers) : l = sockfd_list
      BY <1>1 DEF TypeOK
    <2>2. \A e \in Servers \ {d} : e \in Range(Append(l, d)) <=> e \in Range(l)
      BY <2>1 DEF Range
    <2> QED BY <1>1, <2>1, <2>2
  <1>6. OneOK(d)'
    <2>1. StageOK(d)' /\ QueueOK(d)' /\ SendOK(d)'
      BY <1>1, <1>2, <1>4 DEF OneOK, StageOK, QueueOK, SendOK, Pushing
    <2>2. BeatOK(d)'
      BY <1>1, <1>2, <1>3, <1>4 DEF OneOK, BeatOK
    <2> QED BY <2>1, <2>2 DEF OneOK
  <1>7. Busy(d) /\ Busy(d)'
    BY <1>1, <1>4 DEF Busy
  <1>8. \A e \in Servers : pc'[e] = pc[e] \/ (pc[e] = "none" /\ pc'[e] \in {"none", "add"})
    BY <1>1, <1>2 DEF Threads
  <1>9. Apart' /\ NodesOK'
    <2>1. \A e \in Servers : Present(e)' => Present(e)
      BY <1>1 DEF Present
    <2>2. \A e \in Servers \ {d} : pc'[e] = pc[e]
      BY <1>2 DEF Threads
    <2>3. \A e \in Servers : Holds(e)' <=> Holds(e)
      BY <1>1, <1>2, <1>5, <2>2 DEF Holds
    <2> QED BY <1>1, <2>1, <2>3, ApartKeeps, NodesKeep DEF OrderInv
  <1>10. ToldOK'
    <2>1. \A e \in Servers : \A l : Told(e, l) => Told(e, l)'
      BY <1>1 DEF Told
    <2>2. \A e \in Servers : /\ pc'[e] \in {"sleep", "await"} => pc[e] = pc'[e]
                             /\ pc'[e] \notin Changing => pc[e] \notin Changing
      BY <1>8 DEF Changing, Pushing
    <2> QED BY <1>1, <2>1, <2>2, ToldKeeps DEF OrderInv
  <1> DEFINE to == pc'[d]
  <1>11. \A e \in Servers \ {d} : pc'[e] = pc[e] /\ toMaster'[e] = toMaster[e]
                                   /\ toServer'[e] = toServer[e]
    BY <1>1, <1>2 DEF Threads
  <1>12. pc'[Event] = pc[Event] /\ pc[d] # "walk" /\ pc'[d] # "walk"
    BY <1>1, <1>2
  <1> QED BY <1>1, <1>5, <1>6, <1>7, <1>9, <1>10, <1>11, <1>12, AloneOrdered

\* A node is added to the list.
LEMMA AddOrdered ==
    ASSUME OrderInv, ListInv', NEW d \in Servers, AddServer(d)
    PROVE  OrderInv'
  <1>1. /\ TypeOK /\ d \in Threads /\ Event \in Threads /\ d # Event /\ OneOK(d) /\ KnownAs(d)
        /\ pc[d] = "add" /\ pc' = [pc EXCEPT ![d] = "ok"]
        /\ server_list' = Append(server_list, d)
        /\ UNCHANGED <<sockfd_list, size, it, data, sstate, servers, toMaster, toServer, reset,
                       fault>>
    BY MembershipAssumption
       DEF OrderInv, ListInv, AddServer, locals, net, peers, Threads
  <1>2. pc'[d] = "ok" /\ \A t \in Threads \ {d} : pc'[t] = pc[t]
    BY <1>1 DEF TypeOK
  <1>3. sstate[d] = "new" /\ d \in Range(sockfd_list)
    BY <1>1 DEF OneOK, StageOK, KnownAs
  <1>4. OneOK(d)'
    BY <1>1, <1>2, <1>3 DEF OneOK, StageOK, BeatOK, QueueOK, SendOK, Pushing
  <1>5. Busy(d) /\ Busy(d)'
    BY <1>1, <1>3 DEF Busy
  <1>6. PICK l \in Seq(Servers) : l = server_list
    BY <1>1 DEF TypeOK
  <1>7. /\ Len(l) \in Nat /\ DOMAIN l = 1 .. Len(l)
        /\ DOMAIN Append(l, d) = 1 .. Len(l) + 1 /\ Append(l, d)[Len(l) + 1] = d
        /\ \A i \in 1 .. Len(l) : Append(l, d)[i] = l[i]
    OBVIOUS
  <1>8. Range(Append(l, d)) = Range(l) \cup {d}
    <2>1. d \in Range(Append(l, d))
      <3>1. Len(l) + 1 \in DOMAIN Append(l, d)
        BY <1>7
      <3> QED BY <1>7, <3>1 DEF Range
    <2>2. ASSUME NEW e \in Range(l) PROVE e \in Range(Append(l, d))
      <3>1. PICK i \in DOMAIN l : l[i] = e
        BY <2>2 DEF Range
      <3>2. i \in DOMAIN Append(l, d) /\ Append(l, d)[i] = e
        BY <1>7, <3>1
      <3> QED BY <3>2 DEF Range
    <2>3. ASSUME NEW e \in Range(Append(l, d)), e # d PROVE e \in Range(l)
      <3>1. PICK i \in DOMAIN Append(l, d) : Append(l, d)[i] = e
        BY <2>3 DEF Range
      <3>2. i \in DOMAIN l /\ l[i] = e
        BY <1>7, <2>3, <3>1
      <3> QED BY <3>2 DEF Range
    <2> QED BY <2>1, <2>2, <2>3
  <1>9. Apart'
    <2>1. \A e \in Servers : Present(e)' => Present(e)
      BY <1>1, <1>3, <1>6, <1>8 DEF Present
    <2> QED BY <2>1, ApartKeeps DEF OrderInv
  <1>10. d \notin Range(l) /\ \A i, j \in DOMAIN l : l[i] = l[j] => i = j
    BY <1>1, <1>6 DEF OrderInv, NodesOK, Holds
  <1>11. NodesOK'
    <2>1. \A e \in Servers : e \in Range(server_list') <=> Holds(e)'
      <3> TAKE e \in Servers
      <3>1. CASE e = d
        BY <1>1, <1>2, <1>3, <1>6, <1>8, <3>1 DEF Holds
      <3>2. CASE e # d
        <4>1. pc'[e] = pc[e]
          BY <1>2, <3>2 DEF Threads
        <4> QED BY <1>1, <1>6, <1>8, <3>2, <4>1 DEF OrderInv, NodesOK, Holds
      <3> QED BY <3>1, <3>2
    <2>2. \A i \in DOMAIN l : l[i] # d
      BY <1>10 DEF Range
    <2>3. \A i, j \in DOMAIN Append(l, d) : Append(l, d)[i] = Append(l, d)[j] => i = j
      BY <1>7, <1>10, <2>2
    <2> QED BY <1>1, <1>6, <2>1, <2>3 DEF NodesOK
  <1>12. ToldOK'
    BY <1>2 DEF ToldOK, Changing
  <1>13. \A e \in Servers \ {d} : pc'[e] = pc[e]
    BY <1>2 DEF Threads
  <1> QED BY <1>1, <1>2, <1>4, <1>5, <1>9, <1>11, <1>12, <1>13, AloneOrdered

\* A thread sends to its own server or takes what it has sent, and the lists stay.
LEMMA TalkOrdered ==
    ASSUME OrderInv, ListInv', NEW d \in Servers,
           UNCHANGED <<server_list, sockfd_list, size, it, data, sstate, servers, fault>>,
           \A t \in Threads \ {d} : pc'[t] = pc[t],
           \A e \in Servers \ {d} : /\ toMaster'[e] = toMaster[e] /\ toServer'[e] = toServer[e]
                                    /\ e \in reset' <=> e \in reset,
           \A e \in Servers : \A l : Told(e, l) => Told(e, l)',
           OneOK(d)', Busy(d)' => Busy(d), Holds(d)' <=> Holds(d),
           pc'[d] # "walk", ToldOK'
    PROVE  OrderInv'
  <1>1. /\ TypeOK /\ \A e \in Servers : OneOK(e)
        /\ Event \in Threads \ {d} /\ \A e \in Servers \ {d} : e \in Threads \ {d}
    BY MembershipAssumption DEF OrderInv, ListInv, Threads
  <1>2. pc'[Event] = pc[Event] /\ \A e \in Servers \ {d} : pc'[e] = pc[e]
    BY <1>1
  <1>3. \A e \in Servers \ {d} : OneOK(e)'
    <2>1. \A e \in Range(sockfd_list) : \A l : Told(e, l) => Told(e, l)'
      BY <1>1, NodesOfList DEF TypeOK
    <2> QED BY <1>1, <1>2, <2>1, OneKeeps
  <1>4. \A e \in Servers : /\ Busy(e)' => Busy(e)
                           /\ Present(e)' => Present(e)
                           /\ Holds(e)' <=> Holds(e)
    BY <1>2 DEF Busy, Present, Holds
  <1>5. Apart' /\ NodesOK' /\ OneBusy'
    BY <1>2, <1>4, ApartKeeps, NodesKeep, BusyKeeps DEF OrderInv
  <1>6. \A t \in Threads : WalkOK(t)'
    <2>1. WalkOK(d)'
      BY DEF WalkOK
    <2>2. \A t \in Threads \ {d} : WalkOK(t)'
      BY WalkKeeps DEF OrderInv
    <2> QED BY <2>1, <2>2
  <1> QED BY <1>3, <1>5, <1>6 DEF OrderInv

\* What a message to a server that has not gone does.
LEMMA SentOrdered ==
    ASSUME TypeOK, NEW d \in Servers, sstate[d] # "gone", NEW m \in Messages, SendMsg(d, m),
           servers' = servers
    PROVE  /\ toServer[d] \in Seq(Messages) /\ toServer'[d] = Append(toServer[d], m)
           /\ \A e \in Servers \ {d} : toServer'[e] = toServer[e]
           /\ UNCHANGED <<reset, fault>>
           /\ \A e \in Servers \ {d} : \A l : Told(e, l) => Told(e, l)'
           /\ \A l : m = Update(l) => Told(d, l)'
           /\ m.code # "UPDATE_SERVER_LIST" => \A l : Told(d, l) => Told(d, l)'
  <1>1. toServer' = [toServer EXCEPT ![d] = Append(@, m)] /\ UNCHANGED <<reset, fault>>
    BY DEF SendMsg
  <1>2. /\ toServer[d] \in Seq(Messages) /\ toServer'[d] = Append(toServer[d], m)
        /\ \A e \in Servers \ {d} : toServer'[e] = toServer[e]
    BY <1>1 DEF TypeOK
  <1>3. \A e \in Servers \ {d} : \A l : Told(e, l) => Told(e, l)'
    BY <1>2 DEF Told
  <1>4. ASSUME NEW l
        PROVE  /\ m = Update(l) => Told(d, l)'
               /\ m.code # "UPDATE_SERVER_LIST" /\ Told(d, l) => Told(d, l)'
    BY <1>2, SentBrings DEF Told
  <1> QED BY <1>1, <1>2, <1>3, <1>4

\* MASTER_OK is sent.
LEMMA MasterOkOrdered ==
    ASSUME OrderInv, ListInv', NEW d \in Servers, MasterOk(d)
    PROVE  OrderInv'
  <1>1. /\ TypeOK /\ OneOK(d) /\ KnownAs(d) /\ d \in Threads
        /\ pc[d] = "ok" /\ pc' = [pc EXCEPT ![d] = "push"] /\ SendMsg(d, Msg("MASTER_OK"))
        /\ UNCHANGED <<server_list, sockfd_list, size, it, data, sstate, servers, toMaster>>
    BY DEF OrderInv, ListInv, MasterOk, lists, locals, peers, Threads
  <1>2. pc'[d] = "push" /\ \A t \in Threads \ {d} : pc'[t] = pc[t]
    BY <1>1 DEF TypeOK
  <1>3. sstate[d] = "new" /\ d \in Range(sockfd_list)
    BY <1>1 DEF OneOK, StageOK, KnownAs
  <1> DEFINE m == Msg("MASTER_OK")
  <1>4. m \in Messages /\ m.code = "MASTER_OK"
    BY MessagesTyped DEF Msg
  <1> HIDE DEF m
  <1>5. /\ toServer[d] \in Seq(Messages) /\ toServer'[d] = Append(toServer[d], m)
        /\ \A e \in Servers \ {d} : toServer'[e] = toServer[e]
        /\ UNCHANGED <<reset, fault>>
        /\ \A e \in Servers : \A l : Told(e, l) => Told(e, l)'
    BY <1>1, <1>3, <1>4, SentOrdered DEF m
  <1>6. OneOK(d)'
    <2>1. StageOK(d)' /\ SendOK(d)'
      <3>1. sockfd_list # <<>>
        BY <1>3 DEF Range
      <3> QED BY <1>1, <1>2, <1>3, <3>1 DEF StageOK, SendOK, Pushing
    <2>2. QueueOK(d)'
      <3>1. toServer[d] = <<>>
        BY <1>1, <1>3 DEF OneOK, QueueOK
      <3>2. toServer'[d] # <<>> /\ Head(toServer'[d]) = m
        BY <1>4, <1>5, <3>1, SentPends
      <3> QED BY <1>1, <1>2, <1>3, <1>4, <3>2 DEF QueueOK
    <2>3. BeatOK(d)'
      <3>1. /\ \A code : Pending(toServer'[d], code) <=> Pending(toServer[d], code) \/ m.code = code
            /\ OneBeat(toServer[d]) => OneBeat(toServer'[d])
        BY <1>4, <1>5, SentPends
      <3> QED BY <1>1, <1>2, <1>4, <1>5, <3>1 DEF OneOK, BeatOK
    <2> QED BY <2>1, <2>2, <2>3 DEF OneOK
  <1>7. Busy(d) /\ (Holds(d)' <=> Holds(d))
    BY <1>1, <1>2, <1>3 DEF Busy, Holds
  <1>8. ToldOK'
    BY <1>2 DEF ToldOK, Changing, Pushing
  <1> QED BY <1>1, <1>2, <1>5, <1>6, <1>7, <1>8, TalkOrdered

\* A heartbeat is sent.
LEMMA BeatOrdered ==
    ASSUME OrderInv, ListInv', NEW d \in Servers, HeartBeat(d)
    PROVE  OrderInv'
  <1>1. /\ TypeOK /\ OneOK(d) /\ KnownAs(d) /\ d \in Threads /\ fault = "none"
        /\ pc[d] = "sleep" /\ pc' = [pc EXCEPT ![d] = "await"] /\ SendMsg(d, Msg("HEART_BEAT"))
        /\ UNCHANGED <<server_list, sockfd_list, size, it, data, sstate, servers, toMaster>>
    BY DEF OrderInv, ListInv, HeartBeat, lists, locals, peers, Threads
  <1>2. pc'[d] = "await" /\ \A t \in Threads \ {d} : pc'[t] = pc[t]
    BY <1>1 DEF TypeOK
  <1>3. d \in Range(sockfd_list) /\ toMaster[d] = <<>> /\ d \notin reset
    BY <1>1 DEF OneOK, BeatOK, KnownAs
  <1> DEFINE m == Msg("HEART_BEAT")
  <1>4. m \in Messages /\ m.code = "HEART_BEAT"
    BY MessagesTyped DEF Msg
  <1> HIDE DEF m
  <1>5. (Busy(d)' => Busy(d)) /\ (Holds(d)' <=> Holds(d))
    BY <1>1, <1>2 DEF Busy, Holds
  <1>6. ASSUME \A e \in Servers : \A l : Told(e, l) => Told(e, l)'
        PROVE  ToldOK'
    <2>1. \A e \in Servers : e # d => pc'[e] = pc[e]
      BY <1>2 DEF Threads
    <2>2. (\A e \in Servers : pc'[e] \notin Changing)
             => \A e \in Servers : pc[e] \notin Changing
      BY <1>1, <2>1 DEF Changing, Pushing
    <2>3. \A e \in Servers : pc'[e] \in {"sleep", "await"} /\ sstate'[e] # "gone" =>
                                pc[e] \in {"sleep", "await"} /\ sstate[e] # "gone"
      BY <1>1, <2>1
    <2> QED BY <1>1, <1>6, <2>2, <2>3, ToldKeeps DEF OrderInv
  <1>7. CASE sstate[d] # "gone"
    <2>1. /\ toServer[d] \in Seq(Messages) /\ toServer'[d] = Append(toServer[d], m)
          /\ \A e \in Servers \ {d} : toServer'[e] = toServer[e]
          /\ UNCHANGED <<reset, fault>>
          /\ \A e \in Servers : \A l : Told(e, l) => Told(e, l)'
      BY <1>1, <1>4, <1>7, SentOrdered DEF m
    <2>2. /\ \A code : Pending(toServer'[d], code) <=> Pending(toServer[d], code) \/ m.code = code
          /\ OneBeat(toServer[d]) /\ (m.code = "HEART_BEAT" => ~ Pending(toServer[d], "HEART_BEAT"))
                => OneBeat(toServer'[d])
          /\ toServer'[d] # <<>>
          /\ toServer[d] # <<>> => Head(toServer'[d]) = Head(toServer[d])
      BY <1>4, <2>1, SentPends
    <2>3. OneOK(d)'
      <3>1. BeatOK(d)'
        BY <1>1, <1>2, <1>3, <1>4, <1>7, <2>1, <2>2 DEF OneOK, BeatOK
      <3>2. QueueOK(d)'
        <4>1. sstate[d] # "off" /\ sstate[d] \in {"off", "new", "up", "gone"}
          BY <1>1 DEF KnownAs, TypeOK
        <4> QED BY <1>1, <1>2, <1>7, <2>2, <4>1 DEF OneOK, QueueOK
      <3>3. StageOK(d)' /\ SendOK(d)'
        BY <1>1, <1>2 DEF OneOK, StageOK, SendOK, Pushing
      <3> QED BY <3>1, <3>2, <3>3 DEF OneOK
    <2> QED BY <1>1, <1>2, <1>5, <1>6, <2>1, <2>3, TalkOrdered
  <1>8. CASE sstate[d] = "gone"
    <2>1. toServer' = toServer /\ reset' = reset \cup {d} /\ fault' = fault
      BY <1>1, <1>3, <1>8 DEF SendMsg
    <2>2. OneOK(d)'
      <3>1. BeatOK(d)'
        <4>1. Len(<<>>) <= 1
          OBVIOUS
        <4> QED BY <1>1, <1>2, <1>3, <1>8, <2>1, <4>1 DEF OneOK, BeatOK
      <3>2. StageOK(d)' /\ SendOK(d)' /\ QueueOK(d)'
        BY <1>1, <1>2, <1>8, <2>1 DEF OneOK, StageOK, SendOK, QueueOK, Pushing
      <3> QED BY <3>1, <3>2 DEF OneOK
    <2>3. \A e \in Servers : \A l : Told(e, l) => Told(e, l)'
      BY <1>1, <2>1 DEF Told
    <2> QED BY <1>1, <1>2, <1>5, <1>6, <2>1, <2>2, <2>3, TalkOrdered
  <1> QED BY <1>7, <1>8

\* It is answered.
LEMMA BeatOkOrdered ==
    ASSUME OrderInv, ListInv', NEW d \in Servers, HeartBeatOk(d)
    PROVE  OrderInv'
  <1>1. /\ TypeOK /\ OneOK(d) /\ KnownAs(d) /\ d \in Threads
        /\ pc[d] = "await" /\ pc' = [pc EXCEPT ![d] = "sleep"] /\ toMaster[d] # <<>>
        /\ toMaster' = [toMaster EXCEPT ![d] = Tail(@)]
        /\ UNCHANGED <<server_list, sockfd_list, size, it, data, sstate, servers, toServer,
                       reset, fault>>
    BY DEF OrderInv, ListInv, HeartBeatOk, lists, locals, Threads
  <1>2. pc'[d] = "sleep" /\ \A t \in Threads \ {d} : pc'[t] = pc[t]
    BY <1>1 DEF TypeOK
  <1>3. toMaster'[d] = <<>> /\ \A e \in Servers \ {d} : toMaster'[e] = toMaster[e]
    <2>1. PICK q \in Seq(Messages) : q = toMaster[d]
      BY <1>1 DEF TypeOK
    <2>2. q # <<>> /\ Len(q) <= 1
      BY <1>1, <2>1 DEF OneOK, BeatOK
    <2>3. Tail(q) = <<>>
      BY <2>2
    <2> QED BY <1>1, <2>1, <2>3 DEF TypeOK
  <1>4. OneOK(d)'
    <2>1. BeatOK(d)'
      <3>1. ~ Pending(toServer[d], "HEART_BEAT")
        <4>1. CASE sstate[d] # "gone"
          BY <1>1, <4>1 DEF OneOK, BeatOK
        <4>2. CASE sstate[d] = "gone"
          <5>1. toServer[d] = <<>>
            BY <1>1, <4>2 DEF OneOK, QueueOK
          <5> QED BY <5>1 DEF Pending
        <4> QED BY <4>1, <4>2
      <3> QED BY <1>1, <1>2, <1>3, <3>1 DEF OneOK, BeatOK
    <2>2. StageOK(d)' /\ SendOK(d)' /\ QueueOK(d)'
      BY <1>1, <1>2 DEF OneOK, StageOK, SendOK, QueueOK, Pushing
    <2> QED BY <2>1, <2>2 DEF OneOK
  <1>5. (Busy(d)' => Busy(d)) /\ (Holds(d)' <=> Holds(d))
    BY <1>1, <1>2 DEF Busy, Holds
  <1>6. \A e \in Servers : \A l : Told(e, l) => Told(e, l)'
    BY <1>1 DEF Told
  <1>7. ToldOK'
    <2>1. \A e \in Servers : e # d => pc'[e] = pc[e]
      BY <1>2 DEF Threads
    <2>2. (\A e \in Servers : pc'[e] \notin Changing)
             => \A e \in Servers : pc[e] \notin Changing
      BY <1>1, <2>1 DEF Changing, Pushing
    <2>3. \A e \in Servers : pc'[e] \in {"sleep", "await"} /\ sstate'[e] # "gone" =>
                                pc[e] \in {"sleep", "await"} /\ sstate[e] # "gone"
      BY <1>1, <2>1
    <2> QED BY <1>1, <1>6, <2>2, <2>3, ToldKeeps DEF OrderInv
  <1> QED BY <1>1, <1>2, <1>3, <1>4, <1>5, <1>6, <1>7, TalkOrdered

\* None is taken for gone that is not.
LEMMA DownOrdered ==
    ASSUME OrderInv, Orderly, ListInv', NEW d \in Servers, Down(d)
    PROVE  OrderInv' /\ sstate[d] = "gone"
  <1>1. /\ TypeOK /\ OneOK(d) /\ KnownAs(d) /\ d \in Threads
        /\ pc[d] = "await" /\ pc' = [pc EXCEPT ![d] = "lock"] /\ toMaster[d] = <<>>
        /\ UNCHANGED <<server_list, sockfd_list, size, it, data, sstate, servers, toMaster,
                       toServer, reset, fault>>
    BY DEF OrderInv, ListInv, Down, lists, locals, net, peers, Threads
  <1>2. pc'[d] = "lock" /\ \A t \in Threads \ {d} : pc'[t] = pc[t]
    BY <1>1 DEF TypeOK
  <1>3. sstate[d] = "gone"
    BY <1>1 DEF Down, Orderly, OneOK, BeatOK
  <1>4. OneOK(d)'
    <2>1. BeatOK(d)'
      <3>1. ~ Pending(toServer[d], "HEART_BEAT")
        <4>1. toServer[d] = <<>>
          BY <1>1, <1>3 DEF OneOK, QueueOK
        <4> QED BY <4>1 DEF Pending
      <3> QED BY <1>1, <1>2, <1>3, <3>1 DEF OneOK, BeatOK
    <2>2. StageOK(d)' /\ SendOK(d)' /\ QueueOK(d)'
      BY <1>1, <1>2, <1>3 DEF OneOK, StageOK, SendOK, QueueOK, Pushing
    <2> QED BY <2>1, <2>2 DEF OneOK
  <1>5. (Busy(d)' => Busy(d)) /\ (Holds(d)' <=> Holds(d))
    BY <1>1, <1>2, <1>3 DEF Busy, Holds
  <1>6. \A e \in Servers : \A l : Told(e, l) => Told(e, l)'
    BY <1>1 DEF Told
  <1>7. ToldOK'
    <2>1. \A e \in Servers : e # d => pc'[e] = pc[e]
      BY <1>2 DEF Threads
    <2>2. (\A e \in Servers : pc'[e] \notin Changing)
             => \A e \in Servers : pc[e] \notin Changing
      BY <1>1, <2>1 DEF Changing, Pushing
    <2>3. \A e \in Servers : pc'[e] \in {"sleep", "await"} /\ sstate'[e] # "gone" =>
                                pc[e] \in {"sleep", "await"} /\ sstate[e] # "gone"
      BY <1>1, <1>2, <2>1
    <2> QED BY <1>1, <1>6, <2>2, <2>3, ToldKeeps DEF OrderInv
  <1> QED BY <1>1, <1>2, <1>3, <1>4, <1>5, <1>6, <1>7, TalkOrdered

\* Who is on the list of descriptors has not gone, while another pushes or nobody is busy.
LEMMA ListedLive ==
    ASSUME OrderInv, NEW d \in Servers, pc[d] \in Pushing, NEW x \in Range(sockfd_list)
    PROVE  x \in Servers /\ sstate[x] # "gone" /\ (x # d => sstate[x] = "up" /\ ~ Busy(x))
  <1>1. /\ TypeOK /\ \A e \in Servers : OneOK(e) /\ KnownAs(e)
    BY DEF OrderInv, ListInv
  <1>2. x \in Servers
    BY <1>1, NodesOfList DEF TypeOK
  <1>3. CASE x = d
    BY <1>1, <1>3 DEF OneOK, StageOK
  <1>4. CASE x # d
    <2>1. Busy(d)
      BY DEF Busy, Pushing
    <2>2. ~ Busy(x)
      BY <1>2, <1>4, <2>1 DEF OrderInv, OneBusy
    <2>3. sstate[x] \in {"off", "new", "up", "gone"}
      BY <1>1, <1>2 DEF TypeOK
    <2> QED BY <1>1, <1>2, <1>4, <2>2, <2>3 DEF Busy, KnownAs, OneOK, StageOK
  <1> QED BY <1>2, <1>3, <1>4

\* The list is sent to a server.
LEMMA PushSendOrdered ==
    ASSUME OrderInv, ListInv', NEW d \in Servers, PushSend(d)
    PROVE  OrderInv'
  <1>1. /\ TypeOK /\ d \in Threads /\ d # Event /\ \A e \in Servers : OneOK(e) /\ KnownAs(e)
        /\ pc[d] = "send" /\ pc[d] \in Pushing /\ it[d] \in Range(sockfd_list)
        /\ SendMsg(it[d], Update(data[d]))
        /\ UNCHANGED <<server_list, sockfd_list, sstate, servers, toMaster>>
    BY MembershipAssumption
       DEF OrderInv, ListInv, PushSend, Pushing, lists, locals, peers, Threads
  <1>2. PICK k \in Seq(Servers) : k = sockfd_list
    BY <1>1 DEF TypeOK
  <1>3. PICK l : l = Listing
    OBVIOUS
  <1>4. Listing' = l
    BY <1>1, <1>3 DEF Listing
  <1>5. PICK p \in DOMAIN k :
           it[d] = k[p] /\ data[d] = l /\ \A i \in 1 .. p - 1 : Told(k[i], l)
    BY <1>1, <1>2, <1>3 DEF OneOK, SendOK
  <1> DEFINE x == k[p]
             m == Update(l)
  <1>6. /\ x \in Servers /\ x \in Range(k) /\ sstate[x] # "gone"
        /\ x # d => sstate[x] = "up" /\ ~ Busy(x)
    BY <1>1, <1>2, <1>5, ListedLive
  <1>7. m \in Messages /\ m.code = "UPDATE_SERVER_LIST"
    <2>1. l \in Seq(Infos)
      BY <1>1, <1>5 DEF TypeOK
    <2> QED BY <2>1 DEF Messages, Update
  <1> HIDE DEF x, m
  <1>8. SendMsg(x, m)
    BY <1>1, <1>5 DEF x, m
  <1>9. /\ toServer[x] \in Seq(Messages) /\ toServer'[x] = Append(toServer[x], m)
        /\ \A e \in Servers \ {x} : toServer'[e] = toServer[e]
        /\ UNCHANGED <<reset, fault>>
        /\ \A e \in Servers \ {x} : \A b : Told(e, b) => Told(e, b)'
        /\ Told(x, l)'
    BY <1>1, <1>6, <1>7, <1>8, SentOrdered DEF m
  <1>10. \A e \in Servers : Told(e, l) => Told(e, l)'
    BY <1>9
  <1>11. /\ Len(k) \in Nat /\ DOMAIN k = 1 .. Len(k) /\ p \in Nat
         /\ p < Len(k) => NextOf(k, x) = k[p + 1]
         /\ x = Last(k) <=> p = Len(k)
    <2>1. \A i, j \in DOMAIN k : k[i] = k[j] => i = j
      BY <1>2 DEF OrderInv, ListInv, Unique
    <2> QED BY <1>5, <2>1, NextNode DEF x
  <1>12. \A i \in 1 .. p : Told(k[i], l)'
    <2> TAKE i \in 1 .. p
    <2>1. CASE i = p
      BY <1>9, <2>1 DEF x
    <2>2. CASE i # p
      <3>1. i \in 1 .. p - 1 /\ i \in DOMAIN k
        BY <1>5, <1>11, <2>2
      <3>2. k[i] \in Servers
        BY <3>1
      <3> QED BY <1>5, <1>10, <3>1, <3>2
    <2> QED BY <2>1, <2>2
  <1>13. /\ pc'[d] \in {"send", "sleep", "close"}
         /\ pc'[d] = "send" => p < Len(k) /\ it'[d] = k[p + 1] /\ data'[d] = l
         /\ pc'[d] # "send" => pc'[d] = Pushed(d) /\ p = Len(k)
         /\ \A t \in Threads \ {d} : /\ pc'[t] = pc[t] /\ size'[t] = size[t]
                                     /\ it'[t] = it[t] /\ data'[t] = data[t]
    <2>1. CASE it[d] = Last(sockfd_list)
      <3>1. pc' = [pc EXCEPT ![d] = Pushed(d)] /\ Cleared(d)
        BY <2>1 DEF PushSend
      <3>2. pc'[d] = Pushed(d) /\ \A t \in Threads \ {d} : pc'[t] = pc[t]
        BY <1>1, <3>1 DEF TypeOK
      <3>3. \A t \in Threads \ {d} : size'[t] = size[t] /\ it'[t] = it[t] /\ data'[t] = data[t]
        BY <1>1, <3>1 DEF TypeOK, Cleared
      <3>4. Pushed(d) \in {"sleep", "close"}
        BY DEF Pushed
      <3>5. p = Len(k)
        BY <1>2, <1>5, <1>11, <2>1 DEF x
      <3>6. "send" \notin {"sleep", "close"}
        OBVIOUS
      <3> QED BY <3>2, <3>3, <3>4, <3>5, <3>6
    <2>2. CASE it[d] # Last(sockfd_list)
      <3>1. it' = [it EXCEPT ![d] = NextOf(sockfd_list, @)] /\ UNCHANGED <<pc, size, data>>
        BY <2>2 DEF PushSend
      <3>2. it'[d] = NextOf(k, x) /\ \A t \in Threads \ {d} : it'[t] = it[t]
        BY <1>1, <1>2, <1>5, <3>1 DEF TypeOK, x
      <3>3. p < Len(k)
        <4>1. p # Len(k) /\ p \in 1 .. Len(k)
          BY <1>2, <1>5, <1>11, <2>2 DEF x
        <4> QED BY <1>11, <4>1
      <3> QED BY <1>1, <1>5, <1>11, <3>1, <3>2, <3>3
    <2> QED BY <2>1, <2>2
  <1>14. \A e \in Servers \ {d} : /\ e \in Threads /\ ~ Busy(e) /\ pc[e] \notin Pushing
                                  /\ pc'[e] = pc[e] /\ it'[e] = it[e] /\ data'[e] = data[e]
    <2>1. Busy(d)
      BY <1>1 DEF Busy
    <2>2. \A e \in Servers \ {d} : ~ Busy(e)
      BY <2>1 DEF OrderInv, OneBusy
    <2>3. \A e \in Servers \ {d} : pc[e] \notin Pushing
      BY <2>2 DEF Busy, Pushing
    <2> QED BY <1>13, <2>2, <2>3 DEF Threads
  <1>15. /\ \A c : Pending(toServer'[x], c) <=> Pending(toServer[x], c) \/ m.code = c
         /\ OneBeat(toServer[x]) /\ (m.code = "HEART_BEAT" => ~ Pending(toServer[x], "HEART_BEAT"))
               => OneBeat(toServer'[x])
         /\ toServer'[x] # <<>>
         /\ toServer[x] # <<>> => Head(toServer'[x]) = Head(toServer[x])
    BY <1>7, <1>9, SentPends
  <1>16. \A e \in Servers : /\ Pending(toServer'[e], "HEART_BEAT")
                                  <=> Pending(toServer[e], "HEART_BEAT")
                            /\ OneBeat(toServer[e]) => OneBeat(toServer'[e])
                            /\ toServer[e] # <<>> => /\ toServer'[e] # <<>>
                                                     /\ Head(toServer'[e]) = Head(toServer[e])
    <2> TAKE e \in Servers
    <2>1. CASE e = x
      BY <1>7, <1>15, <2>1
    <2>2. CASE e # x
      BY <1>9, <2>2
    <2> QED BY <2>1, <2>2
  <1>17. ASSUME NEW e \in Servers, e # d PROVE OneOK(e)'
    <2>1. CASE e = x
      <3>1. StageOK(e)'
        BY <1>1, <1>14, <1>17 DEF OneOK, StageOK
      <3>2. BeatOK(e)'
        BY <1>1, <1>9, <1>14, <1>16, <1>17 DEF OneOK, BeatOK
      <3>3. QueueOK(e)'
        BY <1>1, <1>6, <1>17, <2>1 DEF QueueOK
      <3>4. SendOK(e)'
        BY <1>14, <1>17 DEF SendOK, Pushing
      <3> QED BY <3>1, <3>2, <3>3, <3>4 DEF OneOK
    <2>2. CASE e # x
      BY <1>1, <1>9, <1>14, <1>17, <2>2, OneKeeps
    <2> QED BY <2>1, <2>2
  <1>18. sstate[d] = "gone" <=> d \notin Range(sockfd_list)
    BY <1>1 DEF OneOK, StageOK
  <1>19. OneOK(d)'
    <2>1. pc'[d] \in {"sleep", "close"} => (pc'[d] = "close" <=> sstate[d] = "gone")
      BY <1>13, <1>18 DEF Pushed
    <2>2. StageOK(d)'
      BY <1>1, <1>13, <1>18, <2>1 DEF OneOK, StageOK, Pushing
    <2>3. BeatOK(d)'
      BY <1>1, <1>9, <1>13, <1>16, <2>1 DEF OneOK, BeatOK
    <2>4. QueueOK(d)'
      <3>1. sstate[d] # "off" /\ sstate[d] \in {"off", "new", "up", "gone"}
        BY <1>1 DEF KnownAs, TypeOK
      <3>2. sstate[d] = "gone" => x # d
        BY <1>6
      <3>3. sstate[d] = "gone" => toServer'[d] = <<>>
        BY <1>1, <1>9, <3>2 DEF OneOK, QueueOK
      <3>4. sstate[d] = "new" => toServer'[d] # <<>> /\ Head(toServer'[d]).code = "MASTER_OK"
        BY <1>1, <1>16 DEF OneOK, QueueOK
      <3> QED BY <1>1, <1>13, <3>1, <3>3, <3>4 DEF QueueOK
    <2>5. SendOK(d)'
      <3> SUFFICES ASSUME pc'[d] = "send" PROVE SendOK(d)'
        BY DEF SendOK
      <3>1. p + 1 \in DOMAIN k /\ p + 1 - 1 = p
        BY <1>11, <1>13
      <3>2. it'[d] = k[p + 1] /\ data'[d] = l /\ sockfd_list' = k
        BY <1>1, <1>2, <1>13
      <3> QED BY <1>4, <1>12, <3>1, <3>2 DEF SendOK
    <2> QED BY <2>2, <2>3, <2>4, <2>5 DEF OneOK
  <1>20. /\ \A e \in Servers : Busy(e)' => Busy(e)
         /\ \A e \in Servers : Present(e)' => Present(e)
         /\ \A e \in Servers : Holds(e)' <=> Holds(e)
    <2>1. Busy(d) /\ (Holds(d)' <=> Holds(d))
      BY <1>1, <1>13 DEF Busy, Holds, Pushed
    <2>2. \A e \in Servers : e # d => (Busy(e)' <=> Busy(e)) /\ (Holds(e)' <=> Holds(e))
      BY <1>1, <1>14 DEF Busy, Holds
    <2>3. \A e \in Servers : Present(e)' => Present(e)
      BY <1>1 DEF Present
    <2> QED BY <2>1, <2>2, <2>3
  <1>21. Apart' /\ NodesOK' /\ OneBusy'
    <2>1. pc'[Event] = pc[Event]
      BY <1>1, <1>13 DEF Threads
    <2> QED BY <1>1, <1>20, <2>1, ApartKeeps, NodesKeep, BusyKeeps DEF OrderInv
  <1>22. \A t \in Threads : WalkOK(t)'
    <2>1. WalkOK(d)'
      BY <1>13 DEF WalkOK
    <2>2. \A t \in Threads \ {d} : WalkOK(t)'
      BY <1>1, <1>13, WalkKeeps DEF OrderInv
    <2> QED BY <2>1, <2>2
  <1>23. ToldOK'
    <2>1. CASE pc'[d] = "send"
      BY <2>1 DEF ToldOK, Changing, Pushing
    <2>2. CASE pc'[d] # "send"
      <3>1. ASSUME NEW e \in Servers, pc'[e] \in {"sleep", "await"} PROVE Told(e, l)'
        <4>1. e \in Range(k)
          BY <1>1, <1>2, <3>1 DEF ListInv, KnownAs
        <4>2. PICK i \in DOMAIN k : k[i] = e
          BY <4>1 DEF Range
        <4>3. i \in 1 .. p
          BY <1>11, <1>13, <2>2, <4>2
        <4> QED BY <1>12, <4>2, <4>3
      <3> QED BY <1>4, <3>1 DEF ToldOK
    <2> QED BY <2>1, <2>2
  <1> QED BY <1>1, <1>9, <1>17, <1>19, <1>21, <1>22, <1>23 DEF OrderInv

\* A push meets no node that is gone.
LEMMA PushNotLost ==
    ASSUME OrderInv, NEW d \in Servers
    PROVE  ~ PushLost(d)
  <1> SUFFICES ASSUME PushLost(d) PROVE FALSE
    OBVIOUS
  <1>1. PICK p \in DOMAIN sockfd_list : it[d] = sockfd_list[p]
    BY DEF PushLost, OrderInv, OneOK, SendOK
  <1> QED BY <1>1 DEF PushLost, Range

\* A thread takes its own node off the list.
LEMMA UnlistServerOrdered ==
    ASSUME OrderInv, ListInv', NEW d \in Servers, UnlistServer(d)
    PROVE  OrderInv'
  <1>1. /\ TypeOK /\ d \in Threads /\ d # Event /\ OneOK(d) /\ KnownAs(d)
        /\ pc[d] = "lock" /\ pc' = [pc EXCEPT ![d] = "unlist"]
        /\ UNCHANGED <<sockfd_list, size, it, data, sstate, servers, toMaster, toServer, reset,
                       fault>>
    BY MembershipAssumption
       DEF OrderInv, ListInv, UnlistServer, locals, net, peers, Threads
  <1>2. pc'[d] = "unlist" /\ \A t \in Threads \ {d} : pc'[t] = pc[t]
    BY <1>1 DEF TypeOK
  <1>3. sstate[d] = "gone" /\ d \in Range(sockfd_list)
    BY <1>1 DEF OneOK, StageOK, KnownAs
  <1>4. PICK l \in Seq(Servers) : l = server_list
    BY <1>1 DEF TypeOK
  <1>5. /\ DOMAIN l = 1 .. Len(l) /\ \A i, j \in DOMAIN l : l[i] = l[j] => i = j
        /\ \A e \in Servers : e \in Range(l) <=> Holds(e)
    BY <1>4 DEF OrderInv, NodesOK
  <1>6. d \in Range(l)
    BY <1>1, <1>3, <1>5 DEF Holds
  <1>7. PICK p \in 1 .. Len(l) : Info[l[p]] = Info[d] /\ server_list' = RemoveAt(l, p)
    <2>1. ~ \A i \in 1 .. Len(l) : Info[l[i]] # Info[d]
      BY <1>5, <1>6 DEF Range
    <2> QED BY <1>4, <2>1, ServerDeleted
  <1>8. l[p] = d
    <2>1. l[p] \in Servers /\ l[p] \in Range(l)
      BY <1>5 DEF Range
    <2> QED BY <1>4, <1>6, <1>7, <2>1 DEF OrderInv, Apart, Present
  <1>9. PICK r : r = server_list' /\ r = RemoveAt(l, p)
    BY <1>7
  <1>10. /\ \A i, j \in DOMAIN r : r[i] = r[j] => i = j
         /\ d \notin Range(r) /\ \A e \in Servers \ {d} : e \in Range(r) <=> e \in Range(l)
    BY <1>5, <1>8, <1>9, RestIsRest
  <1>11. \A e \in Servers \ {d} : pc'[e] = pc[e] /\ (Holds(e)' <=> Holds(e))
    BY <1>1, <1>2 DEF Holds, Threads
  <1>12. NodesOK'
    <2>1. \A e \in Servers : e \in Range(r) <=> Holds(e)'
      <3>1. ~ Holds(d)'
        BY <1>2 DEF Holds
      <3> QED BY <1>5, <1>10, <1>11, <3>1
    <2> QED BY <1>9, <1>10, <2>1 DEF NodesOK
  <1>13. Apart'
    <2>1. \A e \in Servers : Present(e)' => Present(e)
      BY <1>1, <1>4, <1>9, <1>10 DEF Present
    <2> QED BY <2>1, ApartKeeps DEF OrderInv
  <1>14. OneOK(d)'
    BY <1>1, <1>2, <1>3 DEF OneOK, StageOK, BeatOK, QueueOK, SendOK, Pushing
  <1>15. Busy(d) /\ Busy(d)'
    BY <1>1, <1>2 DEF Busy
  <1>16. ToldOK'
    BY <1>2 DEF ToldOK, Changing
  <1>17. pc'[Event] = pc[Event]
    BY <1>1, <1>2 DEF Threads
  <1> QED BY <1>1, <1>2, <1>11, <1>12, <1>13, <1>14, <1>15, <1>16, <1>17, AloneOrdered

\* It takes its descriptor off the other list.
LEMMA UnlistSockfdOrdered ==
    ASSUME OrderInv, ListInv', NEW d \in Servers, UnlistSockfd(d)
    PROVE  OrderInv'
  <1>1. /\ TypeOK /\ d \in Threads /\ d # Event /\ OneOK(d) /\ KnownAs(d)
        /\ pc[d] = "unlist" /\ pc' = [pc EXCEPT ![d] = "unlisted"]
        /\ UNCHANGED <<server_list, size, it, data, sstate, servers, toMaster, toServer, reset,
                       fault>>
    BY MembershipAssumption
       DEF OrderInv, ListInv, UnlistSockfd, locals, net, peers, Threads
  <1>2. pc'[d] = "unlisted" /\ \A t \in Threads \ {d} : pc'[t] = pc[t]
    BY <1>1 DEF TypeOK
  <1>3. sstate[d] = "gone" /\ d \in Range(sockfd_list)
    BY <1>1 DEF OneOK, StageOK, KnownAs
  <1>4. PICK k \in Seq(Servers) : k = sockfd_list
    BY <1>1 DEF TypeOK
  <1>5. DOMAIN k = 1 .. Len(k) /\ \A i, j \in DOMAIN k : k[i] = k[j] => i = j
    BY <1>4 DEF OrderInv, ListInv, Unique
  <1>6. PICK p \in 1 .. Len(k) : k[p] = d /\ sockfd_list' = RemoveAt(k, p)
    <2>1. ~ \A i \in 1 .. Len(k) : k[i] # d
      BY <1>3, <1>4, <1>5 DEF Range
    <2> QED BY <1>4, <2>1, SockfdDeleted
  <1>7. PICK r : r = sockfd_list' /\ r = RemoveAt(k, p)
    BY <1>6
  <1>8. \A e \in Servers \ {d} : e \in Range(r) <=> e \in Range(k)
    BY <1>5, <1>6, <1>7, RestIsRest
  <1>9. \A e \in Servers \ {d} : pc'[e] = pc[e] /\ (Holds(e)' <=> Holds(e))
    BY <1>2, <1>4, <1>7, <1>8 DEF Holds, Threads
  <1>10. NodesOK' /\ Apart'
    <2>1. ~ Holds(d)' /\ ~ Holds(d)
      BY <1>1, <1>2 DEF Holds
    <2>2. \A e \in Servers : Holds(e)' <=> Holds(e)
      BY <1>9, <2>1
    <2>3. \A e \in Servers : Present(e)' => Present(e)
      BY <1>1 DEF Present
    <2> QED BY <1>1, <2>2, <2>3, NodesKeep, ApartKeeps DEF OrderInv
  <1>11. OneOK(d)'
    BY <1>1, <1>2, <1>3 DEF OneOK, StageOK, BeatOK, QueueOK, SendOK, Pushing
  <1>12. Busy(d) /\ Busy(d)'
    BY <1>1, <1>2 DEF Busy
  <1>13. ToldOK'
    BY <1>2 DEF ToldOK, Changing
  <1>14. pc'[Event] = pc[Event]
    BY <1>1, <1>2 DEF Threads
  <1>15. \A e \in Servers \ {d} : e \in Range(sockfd_list') <=> e \in Range(sockfd_list)
    BY <1>4, <1>7, <1>8
  <1> QED BY <1>1, <1>2, <1>9, <1>10, <1>11, <1>12, <1>13, <1>14, <1>15, AloneOrdered

\* The initial states.
LEMMA InitOrdered == Init => OrderInv
  <1> SUFFICES ASSUME Init PROVE OrderInv
    OBVIOUS
  <1>1. ListInv
    BY InitListed
  <1>2. Event \in Threads /\ \A d \in Servers : d \in Threads
    BY DEF Threads
  <1>3. \A d \in Servers : OneOK(d) /\ ~ Busy(d) /\ ~ Holds(d)
    <2> TAKE d \in Servers
    <2>1. /\ pc[d] = "none" /\ sstate[d] = "off" /\ toMaster[d] = <<>> /\ toServer[d] = <<>>
          /\ d \notin reset /\ d \notin Range(sockfd_list)
      BY <1>2 DEF Init, Range
    <2>2. OneBeat(<<>>) /\ ~ Pending(<<>>, "HEART_BEAT")
      BY DEF OneBeat, Pending
    <2>3. StageOK(d) /\ BeatOK(d) /\ QueueOK(d) /\ SendOK(d)
      BY <2>1, <2>2 DEF StageOK, BeatOK, QueueOK, SendOK, Pushing
    <2> QED BY <2>1, <2>3 DEF OneOK, Busy, Holds
  <1>4. Apart /\ NodesOK
    <2>1. \A d \in Servers : d \notin Range(server_list) /\ sstate[d] = "off"
      BY DEF Init, Range
    <2> QED BY <1>3, <2>1 DEF Init, Apart, NodesOK, Present
  <1>5. OneBusy
    BY <1>3 DEF OneBusy
  <1>6. (\A t \in Threads : WalkOK(t)) /\ ToldOK
    BY <1>2 DEF Init, WalkOK, ToldOK
  <1> QED BY <1>1, <1>3, <1>4, <1>5, <1>6 DEF OrderInv, Init

\* The steps of the thread of a server.
LEMMA ThreadOrdered ==
    ASSUME OrderInv, Orderly, ListInv', NEW d \in Servers, Thread_Server(d)
    PROVE  OrderInv'
  <1>1. d \in Threads
    BY DEF Threads
  <1>2. ~ WalkLost(d) /\ ~ PushLost(d)
    BY <1>1, WalkNotLost, PushNotLost
  <1>3. CASE CopyNode(d)
    BY <1>1, <1>3, CopyOrdered
  <1> QED BY <1>2, <1>3, AddOrdered, MasterOkOrdered, PushBeginOrdered, PushStartOrdered,
             PushSendOrdered, BeatOrdered, BeatOkOrdered, DownOrdered, UnlistServerOrdered,
             UnlistSockfdOrdered, UnlistedOrdered DEF Thread_Server

\* The invariant is kept by every step.
LEMMA OrderInductive == OrderInv /\ Orderly /\ [Next]_vars => OrderInv' /\ Orderly'
  <1> SUFFICES ASSUME OrderInv, Orderly, [Next]_vars PROVE OrderInv' /\ Orderly'
    OBVIOUS
  <1>1. ListInv' /\ Orderly'
    BY ListInductive DEF OrderInv, Orderly, Next, vars
  <1>2. ASSUME NEW d \in Servers,
               \/ Start(d) \/ Register(d) \/ Thread_heartbeat(d) \/ Die(d)
               \/ Thread_Server(d) \/ NewServer(d)
        PROVE  OrderInv'
    BY <1>1, <1>2, StartOrdered, RegisterOrdered, HeartbeatOrdered, DieOrdered, ThreadOrdered,
       NewServerOrdered
  <1>3. CASE GetServerList \/ CopyNode(Event) \/ WalkLost(Event) \/ ServerListOk
    <2>1. Event \in Threads
      BY DEF Threads
    <2>2. ~ WalkLost(Event)
      BY <2>1, WalkNotLost
    <2>3. CASE CopyNode(Event)
      BY <1>1, <2>1, <2>3, CopyOrdered
    <2> QED BY <1>1, <1>3, <2>2, <2>3, GetOrdered, AnswerOrdered
  <1>4. CASE UNCHANGED vars
    BY <1>1, <1>4
       DEF vars, lists, locals, peers, OrderInv, OneOK, StageOK, BeatOK, QueueOK, SendOK, Apart,
           Present, NodesOK, Holds, OneBusy, Busy, WalkOK, ToldOK, Told, Listing
  <1> QED BY <1>1, <1>2, <1>3, <1>4 DEF Next, EventThread

\* What a server takes when the last list on its way has come.
LEMMA BroughtWhenNone ==
    ASSUME NEW q, NEW s, NEW l, Brings(q, s, l), ~ Pending(q, "UPDATE_SERVER_LIST")
    PROVE  s = l
  BY DEF Brings, Pending, Update

LEMMA OrderAgrees == OrderInv => AgreeWhenQuiet
  <1> SUFFICES ASSUME OrderInv, Quiet
               PROVE  /\ Range(Listing) = {Info[d] : d \in {e \in Servers : sstate[e] = "up"}}
                      /\ \A d \in Servers : sstate[d] = "up" => servers[d] = Listing
    BY DEF AgreeWhenQuiet
  <1>1. TypeOK /\ \A d \in Servers : OneOK(d) /\ KnownAs(d)
    BY DEF OrderInv, ListInv
  <1>2. PICK l \in Seq(Servers) : l = server_list
    BY <1>1 DEF TypeOK
  <1>3. ASSUME NEW d \in Servers, sstate[d] = "up"
        PROVE  pc[d] \in {"sleep", "await"} /\ d \in Range(l)
    <2>1. pc[d] \in {"sleep", "await"}
      BY <1>1, <1>3 DEF Quiet, KnownAs, OneOK, StageOK
    <2>2. Holds(d)
      BY <1>1, <2>1 DEF KnownAs, Holds
    <2> QED BY <1>2, <2>1, <2>2 DEF OrderInv, NodesOK
  <1>4. ASSUME NEW d \in Servers, d \in Range(l)
        PROVE  sstate[d] = "up"
    <2>1. Holds(d)
      BY <1>2, <1>4 DEF OrderInv, NodesOK
    <2>2. pc[d] \in {"sleep", "await"}
      BY <2>1 DEF Holds, Quiet
    <2>3. sstate[d] \in {"off", "new", "up", "gone"}
      BY <1>1 DEF TypeOK
    <2> QED BY <1>1, <2>2, <2>3 DEF Quiet, KnownAs
  <1>5. Range(Listing) = {Info[d] : d \in {e \in Servers : sstate[e] = "up"}}
    <2>1. Listing = [i \in DOMAIN l |-> Info[l[i]]]
      BY <1>2 DEF Listing
    <2>2. ASSUME NEW i \in DOMAIN l
          PROVE  l[i] \in Servers /\ sstate[l[i]] = "up"
      BY <1>4 DEF Range
    <2>3. Range(Listing) = {Info[l[i]] : i \in DOMAIN l}
      BY <2>1 DEF Range
    <2>4. ASSUME NEW d \in Servers, sstate[d] = "up"
          PROVE  \E i \in DOMAIN l : l[i] = d
      BY <1>3, <2>4 DEF Range
    <2> QED BY <2>2, <2>3, <2>4
  <1>6. ASSUME NEW d \in Servers, sstate[d] = "up"
        PROVE  servers[d] = Listing
    <2>1. \A e \in Servers : pc[e] \notin Changing
      BY DEF Quiet, Changing, Pushing
    <2>2. Told(d, Listing)
      BY <1>3, <1>6, <2>1 DEF OrderInv, ToldOK
    <2>3. ~ Pending(toServer[d], "UPDATE_SERVER_LIST")
      BY DEF Quiet
    <2> QED BY <2>2, <2>3, BroughtWhenNone DEF Told
  <1> QED BY <1>5, <1>6

\* Worlds do not change.
LEMMA OrderStays == Spec => [](ListInv /\ (Orderly => OrderInv))
  <1> DEFINE I == ListInv /\ (Orderly => OrderInv)
  <1>1. Init => I
    BY InitListed, InitOrdered
  <1>2. I /\ [Next]_vars => I'
    <2> SUFFICES ASSUME I, [Next]_vars PROVE I'
      OBVIOUS
    <2>1. Orderly' <=> Orderly
      BY DEF Orderly, Next, vars
    <2> QED BY <2>1, ListInductive, OrderInductive
  <1> QED BY <1>1, <1>2, PTL DEF Spec

-----------------------------------------------------------------------------
(* The theorems for orderly worlds.                                        *)

\* Pushes by several threads add up (master.c:48, 70, 108, 167): when nothing is
\* under way every server that is up has the master's list, which lists them all
\* and no other, if servers come and go one at a time and answer in time.
THEOREM ListsAgree == Spec => []AgreeWhenQuiet
  <1>1. ListInv /\ (Orderly => OrderInv) => AgreeWhenQuiet
    BY OrderAgrees DEF AgreeWhenQuiet
  <1> QED BY <1>1, OrderStays, PTL

\* No walk and no push meets a node that is gone, and no peer that has reset the
\* connection is sent to again (master.c:50-75, 112-124), in the same worlds.
THEOREM MasterStaysUp == Spec => []MasterLives
  <1>1. ListInv /\ (Orderly => OrderInv) => MasterLives
    BY DEF MasterLives, OrderInv
  <1> QED BY <1>1, OrderStays, PTL
=============================================================================
