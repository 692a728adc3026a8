------------------------------- MODULE Cluster -------------------------------
(***************************************************************************)
(* Clients (src/dbclient.c 68-212 and the data commands of ExecCommand)    *)
(* and the data servers of a cluster that servers join and leave.  A       *)
(* client keeps a ring of the servers it is connected to, renews it from a *)
(* random one before every command, writes a record to its owner and to    *)
(* the next server, and reads it from the owner.  Servers handle requests  *)
(* one by one, as DbServer is shown to; the one data file is open.         *)
(***************************************************************************)
EXTENDS ConHash, FiniteSets

CONSTANTS
    Clients, Servers,
    Keys,           \* numbers that users type; the ring compares them with ids
    Hashes,         \* the hashes a client may compute for a server: HashPJW also
                    \* reads two bytes of padding that nothing sets
    None,           \* no value
    MaxTry,         \* max_try
    Worlds          \* what may happen, a record for every case to check:
                    \*   online    the servers at first, in the order of the master's list
                    \*   slow      servers that may answer after the 5 s of a socket
                    \*   keys      the keys in use
                    \*   puts, joins, leaves   bounds of what happens,
                    \*   late                  and of what waits for a late server

ASSUME ClusterAssumption ==
    /\ Hashes \in [Servers -> SUBSET Nat] /\ {} \notin {Hashes[s] : s \in Servers}
    /\ MaxTry \in Nat \ {0}
    /\ Worlds \subseteq [online : {l \in Seq(Servers) : l # <<>> /\ IsInjective(l)},
                        slow : SUBSET Servers, keys : SUBSET Keys,
                        puts : Nat, joins : Nat, leaves : Nat, late : Nat]
    /\ None \notin Nat /\ Keys \subseteq Int /\ NULL \notin RingNode(Servers)

VARIABLES
    members,        \* the list of servers that every server has
    up, left,       \* servers that run, and that have died
    file,           \* the data file of every server: key -> value or None
    requests,       \* sent and not handled, by client and server
    answers,        \* sent and not received, by client and server
    ring,           \* client: its consistent hash
    conn,           \* client: the servers it has a socket to, that of others is -1
    timed, broken,  \* client: sockets with a time-out, sockets found closed
    usedMaster,     \* client: it has sent to master_sockfd, which the master closed
    pc, tries,      \* client: where it is, max_try of update_conhash
    asked,          \* client: the server it waits for
    cmd, buffer,    \* client: the command, and the last answer to it
    said,           \* client: what the user was told last
    puts,           \* the keys of the puts so far; the values are numbered
    may,            \* what a record may hold as far as users were told
    world           \* the case

serverVars == <<members, up, left, file>>
netVars    == <<requests, answers, conn, timed, broken>>
ringVars   == <<ring, usedMaster, tries>>
userVars   == <<said, puts, may>>
vars == <<serverVars, netVars, ringVars, userVars, pc, asked, cmd, buffer, world>>

Pairs == Clients \X Servers
Values == 1 .. world.puts
NoCmd == [op |-> "NONE", key |-> None, val |-> None]
Msg(code, val) == [code |-> code, val |-> val]
Silent == Msg("NONE", None)
OkCode == [PUT |-> "PUT_OK", GET |-> "GET_OK", DELETE |-> "DELETE_OK"]

RangeOf(s) == {s[i] : i \in DOMAIN s}
RingServers(r) == {r[i].info : i \in DOMAIN r}

\* 159-188: the ring after each server of a list has got a node, if it has none.
AddAll(r, list, hash) ==
    LET add == [s \in Servers |-> [was \in Seq(RingNode(Servers)) |->
                    IF s \in RingServers(was) THEN was ELSE ConhashAddNode(was, s, hash[s])]]
        after[n \in 0 .. Len(list)] ==
            IF n = 0 THEN r ELSE add[list[n]][after[n - 1]]
    IN  after[Len(list)]

HashChoices == {h \in [Servers -> UNION {Hashes[s] : s \in Servers}] :
                  \A s \in Servers : h[s] \in Hashes[s]}

\* main of the client: the list comes from the master, which then closes the
\* connection (master.c:228).
Init ==
    /\ world \in Worlds
    /\ members = world.online /\ up = RangeOf(world.online) /\ left = {}
    /\ file = [s \in Servers |-> [k \in Keys |-> None]]
    /\ requests = [p \in Pairs |-> <<>>] /\ answers = [p \in Pairs |-> <<>>]
    /\ ring \in [Clients -> {AddAll(<<>>, world.online, h) : h \in HashChoices}]
    /\ conn = [c \in Clients |-> up] /\ timed = [c \in Clients |-> {}]
    /\ broken = [c \in Clients |-> {}]
    /\ usedMaster = [c \in Clients |-> FALSE]
    /\ pc = [c \in Clients |-> "idle"] /\ tries = [c \in Clients |-> 0]
    /\ asked = [c \in Clients |-> None]
    /\ cmd = [c \in Clients |-> NoCmd] /\ buffer = [c \in Clients |-> Silent]
    /\ said = [c \in Clients |-> Silent]
    /\ puts = <<>> /\ may = [k \in Keys |-> {None}]

-----------------------------------------------------------------------------
(* The cluster.                                                            *)

\* src/hdbapi.c: the effect of a call on the file, and what it returns.
PutKeyValue(f, k, v) == [f EXCEPT ![k] = v]
GetValue(f, k)       == f[k]
DelKeyValue(f, k)    == [f EXCEPT ![k] = None]

Respond(s, r) ==
    CASE r.op = "LIST" -> Msg("UPDATE", members)
      [] r.op = "PUT"  -> Msg("PUT_OK", None)
      [] OTHER -> IF GetValue(file[s], r.key) = None THEN Msg("ERROR", None)
                  ELSE Msg(OkCode[r.op], IF r.op = "GET" THEN GetValue(file[s], r.key)
                                         ELSE None)

\* A worker handles a request and answers; those of one client may go to
\* different workers.
Handle(c, s) ==
    /\ s \in up
    /\ \E i \in DOMAIN requests[<<c, s>>] :
          LET r == requests[<<c, s>>][i]
          IN  /\ requests' = [requests EXCEPT ![<<c, s>>] = RemoveAt(@, i)]
              /\ answers' = [answers EXCEPT ![<<c, s>>] = Append(@, Respond(s, r))]
              /\ file' = [file EXCEPT ![s] =
                            CASE r.op = "PUT"    -> PutKeyValue(@, r.key, r.val)
                              [] r.op = "DELETE" -> DelKeyValue(@, r.key)
                              [] OTHER           -> @]
    /\ UNCHANGED <<members, up, left, conn, timed, broken, ringVars, userVars,
                   pc, asked, cmd, buffer>>

clientVars == <<answers, conn, timed, broken, ringVars, userVars, pc, asked, cmd, buffer>>

Joined == (up \cup left) \ RangeOf(world.online)

\* A server is started, with no data, and every server has it on its list.
Join(s) ==
    /\ s \notin up \cup left
    /\ Cardinality(Joined) < world.joins
    /\ up' = up \cup {s} /\ members' = Append(members, s)
    /\ UNCHANGED <<left, file, requests, clientVars>>

\* A server dies; what it was asked is lost.
Die(s) ==
    /\ s \in up /\ Cardinality(up) > 1
    /\ Cardinality(left) < world.leaves
    /\ up' = up \ {s} /\ left' = left \cup {s}
    /\ requests' = [p \in Pairs |-> IF p[2] = s THEN <<>> ELSE requests[p]]
    /\ UNCHANGED <<members, file, clientVars>>

\* The heartbeat of the master finds out.
Unlist(s) ==
    /\ s \notin up
    /\ \E i \in DOMAIN members : members[i] = s /\ members' = RemoveAt(members, i)
    /\ UNCHANGED <<up, left, file, requests, clientVars>>

-----------------------------------------------------------------------------
(* Sending and receiving by a client.                                      *)

Req(op, k, v) == [op |-> op, key |-> k, val |-> v]

Usable(c, s) == s \in conn[c]

\* A send to a socket that is closed already may raise SIGPIPE.
Breaks(c, S) == \E s \in S : Usable(c, s) /\ s \notin up /\ s \in broken[c]

SendMsg(c, S, r) ==
    /\ requests' = [p \in Pairs |->
                      IF p[1] = c /\ p[2] \in S /\ Usable(c, p[2]) /\ p[2] \in up
                      THEN Append(requests[p], r) ELSE requests[p]]
    /\ broken' = [broken EXCEPT ![c] = @ \cup {s \in S : Usable(c, s) /\ s \notin up}]

\* A recv takes the first answer, and what has come with it.
RecvMsg(c, s) ==
    /\ answers[<<c, s>>] # <<>>
    /\ \E k \in 1 .. Len(answers[<<c, s>>]) :
          answers' = [answers EXCEPT ![<<c, s>>] = SubSeq(@, k + 1, Len(@))]

\* A recv ends with nothing: no socket, end-of-file, or time-out.
RecvFails(c, s) ==
    /\ ~ Usable(c, s) \/ answers[<<c, s>>] = <<>>
    /\ \/ ~ Usable(c, s)
       \/ s \notin up
       \/ s \in world.slow /\ s \in timed[c]
    /\ UNCHANGED answers

-----------------------------------------------------------------------------
(* The client.                                                             *)

Tell(c, m) == said' = [said EXCEPT ![c] = m]

\* The user types a command.
Command(c, op, k) ==
    /\ pc[c] = "idle" /\ k \in world.keys
    /\ op = "PUT" => Len(puts) < world.puts
    /\ \A s \in Servers : Len(requests[<<c, s>>]) + Len(answers[<<c, s>>]) <= world.late
    /\ puts' = IF op = "PUT" THEN Append(puts, k) ELSE puts
    /\ cmd' = [cmd EXCEPT ![c] = Req(op, k, IF op = "PUT" THEN Len(puts') ELSE None)]
    /\ buffer' = [buffer EXCEPT ![c] = Silent]
    /\ tries' = [tries EXCEPT ![c] = MaxTry]
    /\ pc' = [pc EXCEPT ![c] = "ask"]
    /\ Tell(c, Silent)
    /\ UNCHANGED <<serverVars, netVars, ring, usedMaster, may, asked>>

\* update_conhash, 80-101: a random server of the ring is asked for the list.
Ask(c) ==
    /\ pc[c] = "ask"
    /\ \E s \in RingServers(ring[c]) :
          /\ SendMsg(c, {s}, Req("LIST", None, None))
          /\ asked' = [asked EXCEPT ![c] = s]
          /\ timed' = [timed EXCEPT ![c] = @ \cup ({s} \cap conn[c])]
    /\ pc' = [pc EXCEPT ![c] = "list"]
    /\ UNCHANGED <<serverVars, answers, conn, ringVars, userVars, cmd, buffer>>

\* A round of 142-157: a node whose server is not listed is deleted, which moves
\* the iterator on, and it is moved on again, unless it is at the last node.
Round(walk, listed) ==
    LET rest == IF walk.ring[walk.at].info \in listed THEN walk.ring
                ELSE RemoveAt(walk.ring, walk.at)
        at   == IF walk.at > Len(rest) THEN 1 ELSE walk.at
    IN  [ring |-> rest, at |-> IF at >= Len(rest) THEN 0 ELSE at + 1]

\* Rounds from the first node until the loop is left, at 0.  The iterator goes round
\* the ring again only after the last node has been deleted, so n * (n + 1) do.
RemoveGone(r, list) ==
    LET go == [walk \in [ring : Seq(RingNode(Servers)), at : Nat] |->
                   IF walk.at = 0 THEN walk ELSE Round(walk, RangeOf(list))]
        after[n \in 0 .. Len(r) * (Len(r) + 1)] ==
            IF n = 0 THEN [ring |-> r, at |-> 1] ELSE go[after[n - 1]]
    IN  after[Len(r) * (Len(r) + 1)].ring

\* Mutant: a client that has as many nodes as the list has servers adds none.
RenewBySize(r, list, hash) ==
    LET kept == RemoveGone(r, list)
    IN  IF Len(r) >= Len(list) THEN kept
        ELSE AddAll(kept, list, hash)

\* 141-197: nodes of servers that are not listed go, new servers get one.
Renew(r, list, hash) == AddAll(RemoveGone(r, list), list, hash)

\* 103-107: the list has come.  The client connects to the new servers, or gets
\* -1 for a socket, and opens its file at each; its answer is waited for.
ListCome(c) ==
    /\ pc[c] = "list"
    /\ RecvMsg(c, asked[c])
    /\ LET m == Head(answers[<<c, asked[c]>>])
       IN  \/ /\ m.code = "UPDATE"
              /\ \E hash \in HashChoices :
                    ring' = [ring EXCEPT ![c] = Renew(@, m.val, hash)]
              /\ conn' = [conn EXCEPT ![c] =
                            @ \cup (up \cap (RangeOf(m.val) \ RingServers(ring[c])))]
              /\ pc' = [pc EXCEPT ![c] = "act"]
              /\ UNCHANGED tries
           \/ /\ m.code # "UPDATE"
              /\ tries' = [tries EXCEPT ![c] = @ - 1]
              /\ pc' = [pc EXCEPT ![c] = IF tries'[c] = 0 THEN "master" ELSE "ask"]
              /\ UNCHANGED <<ring, conn>>
    /\ UNCHANGED <<serverVars, requests, timed, broken, usedMaster, userVars, asked, cmd,
                   buffer>>

\* Mutant: the attempts are not counted.
ListFailsUncounted(c) ==
    /\ pc[c] = "list"
    /\ RecvFails(c, asked[c])
    /\ pc' = [pc EXCEPT ![c] = "ask"]
    /\ UNCHANGED <<serverVars, requests, conn, timed, broken, ringVars, userVars,
                   asked, cmd, buffer>>

\* Mutant: the last attempt is followed by another.
ListFailsOn(c) ==
    /\ pc[c] = "list"
    /\ RecvFails(c, asked[c])
    /\ tries' = [tries EXCEPT ![c] = @ - 1]
    /\ pc' = [pc EXCEPT ![c] = IF tries[c] = 0 THEN "master" ELSE "ask"]
    /\ UNCHANGED <<serverVars, requests, conn, timed, broken, ring, usedMaster, userVars,
                   asked, cmd, buffer>>

ListFails(c) ==
    /\ pc[c] = "list"
    /\ RecvFails(c, asked[c])
    /\ tries' = [tries EXCEPT ![c] = @ - 1]
    /\ pc' = [pc EXCEPT ![c] = IF tries'[c] = 0 THEN "master" ELSE "ask"]
    /\ UNCHANGED <<serverVars, requests, conn, timed, broken, ring, usedMaster, userVars,
                   asked, cmd, buffer>>

\* 112-127: the master is asked, over a connection that it has closed.
AskMaster(c) ==
    /\ pc[c] = "master"
    /\ usedMaster' = [usedMaster EXCEPT ![c] = TRUE]
    /\ Tell(c, Msg("UNAVAILABLE", None))
    /\ pc' = [pc EXCEPT ![c] = "idle"]
    /\ UNCHANGED <<serverVars, netVars, ring, tries, puts, may, asked, cmd, buffer>>

Owner(c) == ConhashGetNode(ring[c], cmd[c].key).info

\* Mutant: what is put goes to the owner only.
BackupDeletes(c) ==
    LET n == ConhashGetNodeAfter(ring[c], cmd[c].key, 1)
    IN  IF cmd[c].op # "DELETE" \/ n = NULL THEN {} ELSE {n.info}

\* Mutant: what is deleted goes from the owner only.
BackupPuts(c) ==
    LET n == ConhashGetNodeAfter(ring[c], cmd[c].key, 1)
    IN  IF cmd[c].op # "PUT" \/ n = NULL THEN {} ELSE {n.info}

\* The server for the second copy, if there is one.
Backup(c) ==
    LET n == ConhashGetNodeAfter(ring[c], cmd[c].key, 1)
    IN  IF cmd[c].op = "GET" \/ n = NULL THEN {} ELSE {n.info}

\* 280-288, 311-315, 333-342: the request goes to the owner and to the next server.
Act(c) ==
    /\ pc[c] = "act"
    /\ SendMsg(c, {Owner(c)} \cup Backup(c), cmd[c])
    /\ pc' = [pc EXCEPT ![c] = IF Backup(c) = {} THEN "owner" ELSE "backup"]
    /\ UNCHANGED <<serverVars, answers, conn, timed, ringVars, userVars, asked, cmd, buffer>>

\* The signal ends the client.
Killed(c) ==
    /\ \/ pc[c] = "ask" /\ Breaks(c, RingServers(ring[c]))
       \/ pc[c] = "act" /\ Breaks(c, {Owner(c)} \cup Backup(c))
       \/ pc[c] = "master" /\ usedMaster[c]
    /\ pc' = [pc EXCEPT ![c] = "killed"]
    /\ UNCHANGED <<serverVars, netVars, ringVars, userVars, asked, cmd, buffer>>

\* Mutant: the answer of the next server is left where it is.
BackupUnread(c) ==
    /\ pc[c] = "backup"
    /\ pc' = [pc EXCEPT ![c] = "owner"]
    /\ UNCHANGED <<serverVars, netVars, ringVars, userVars, asked, cmd, buffer>>

\* The answer of the next server comes into buffer first,
BackupAnswer(c) ==
    /\ pc[c] = "backup"
    /\ \E s \in Backup(c) :
          \/ RecvMsg(c, s) /\ buffer' = [buffer EXCEPT ![c] = Head(answers[<<c, s>>])]
          \/ RecvFails(c, s) /\ UNCHANGED buffer
    /\ pc' = [pc EXCEPT ![c] = "owner"]
    /\ UNCHANGED <<serverVars, requests, conn, timed, broken, ringVars, userVars, asked, cmd>>

\* What records may hold once the user is told m.
Learnt(c, m) ==
    LET k == cmd[c].key
        new == IF cmd[c].op = "PUT" THEN cmd[c].val ELSE None
    IN  IF cmd[c].op = "GET" THEN may
        ELSE [may EXCEPT ![k] = IF m.code = OkCode[cmd[c].op] THEN {new} ELSE @ \cup {new}]

\* and that of the owner over it, if there is one.
OwnerAnswer(c) ==
    /\ pc[c] = "owner"
    /\ \/ RecvMsg(c, Owner(c)) /\ Tell(c, Head(answers[<<c, Owner(c)>>]))
       \/ RecvFails(c, Owner(c)) /\ Tell(c, buffer[c])
    /\ may' = Learnt(c, said'[c])
    /\ pc' = [pc EXCEPT ![c] = "idle"]
    /\ UNCHANGED <<serverVars, requests, conn, timed, broken, ringVars, puts, asked, cmd,
                   buffer>>

ClientStep(c) ==
    \/ Ask(c) \/ Killed(c) \/ ListCome(c) \/ ListFails(c) \/ AskMaster(c)
    \/ Act(c) \/ BackupAnswer(c) \/ OwnerAnswer(c)

Next ==
    /\ \/ \E c \in Clients, op \in {"PUT", "GET", "DELETE"}, k \in Keys : Command(c, op, k)
       \/ \E c \in Clients : ClientStep(c)
       \/ \E c \in Clients, s \in Servers : Handle(c, s)
       \/ \E s \in Servers : Join(s) \/ Die(s) \/ Unlist(s)
    /\ UNCHANGED world

Spec == Init /\ [][Next]_vars

\* A client goes on with its command, and a server that runs handles what it is
\* sent.
FairSpec ==
    /\ Spec
    /\ \A c \in Clients : WF_vars(ClientStep(c) /\ UNCHANGED world)
    /\ \A c \in Clients, s \in Servers : WF_vars(Handle(c, s) /\ UNCHANGED world)

-----------------------------------------------------------------------------
(* Properties.                                                             *)

Node == RingNode(Servers)
IsMsg(m) ==
    \/ m.code = "UPDATE" /\ m.val \in Seq(Servers)
    \/ m.code = "GET_OK" /\ m.val \in Values
    \/ m.code \in {"NONE", "PUT_OK", "DELETE_OK", "ERROR", "UNAVAILABLE"} /\ m.val = None

\* Types; an attempt is made at most max_try times, and a ring has one node for
\* a server.
TypeOK ==
    /\ members \in Seq(Servers) /\ up \subseteq Servers /\ left \subseteq Servers
    /\ file \in [Servers -> [Keys -> Values \cup {None}]]
    /\ \A p \in Pairs : \A i \in DOMAIN answers[p] : IsMsg(answers[p][i])
    /\ \A c \in Clients :
          /\ ring[c] \in Seq(Node) \ {<<>>}
          /\ Cardinality(RingServers(ring[c])) = Len(ring[c])
          /\ conn[c] \cup timed[c] \cup broken[c] \subseteq Servers
          /\ asked[c] \in Servers \cup {None}
    /\ usedMaster \in [Clients -> BOOLEAN] /\ tries \in [Clients -> 0 .. MaxTry]
    /\ pc \in [Clients -> {"idle", "ask", "list", "master", "act", "backup", "owner",
                           "killed"}]
    /\ \A c \in Clients : IsMsg(said[c]) /\ IsMsg(buffer[c])
    /\ puts \in Seq(Keys) /\ world \in Worlds /\ may \in [Keys -> SUBSET (Values \cup {None})]

Idle(c) == pc[c] = "idle"

\* A user who gets a record is told what was put last, or what a put or delete
\* whose success was not told may have left there, also when the owner has died
\* and its successor answers, as long as no other server has died, none has joined
\* and none is slow.
GetsWhatWasPut ==
    Cardinality(left) < 2 /\ Joined = {} /\ world.slow = {} => \A c \in Clients :
        Idle(c) /\ cmd[c].op = "GET" =>
            /\ said[c].code = "GET_OK" => said[c].val \in may[cmd[c].key]
            /\ said[c].code = "ERROR"  => None \in may[cmd[c].key]

\* A value that a user is told for a key was put for that key.
ValueOfKey ==
    \A c \in Clients :
        Idle(c) /\ cmd[c].op = "GET" /\ said[c].code = "GET_OK" =>
            puts[said[c].val] = cmd[c].key

\* The owner of a key and the server after it hold the same record once all
\* commands have ended, as long as no server has left, joined or been slow.
TwoCopies ==
    left = {} /\ Joined = {} /\ world.slow = {} /\ (\A c \in Clients : Idle(c)) =>
        \A c \in Clients, k \in Keys :
            LET n == ConhashGetNodeAfter(ring[c], k, 1)
            IN  n # NULL => file[n.info][k] = file[ConhashGetNode(ring[c], k).info][k]

\* Unless a server was slow, no answer to a command is on its way when it has
\* ended, where the next would take it for its own, and so the value that a user is
\* told for a key was put for that key, whoever else asks and whichever servers
\* come and go (dbclient.c:102, 284-299, 312-318).
AnswersInStep ==
    world.slow = {} =>
        /\ \A c \in Clients, s \in up :
              Idle(c) => requests[<<c, s>>] = <<>> /\ answers[<<c, s>>] = <<>>
        /\ ValueOfKey

\* A client that has renewed its ring has a node for each server of the list,
\* and for no other, if no two servers have left and the list is not older than
\* the ring.
RingFollowsList ==
    [][\A c \in Clients :
         pc[c] = "list" /\ pc'[c] = "act" /\ Cardinality(left) < 2
             /\ (Joined = {} \/ world.slow = {}) =>
            RingServers(ring'[c]) = RangeOf(Head(answers[<<c, asked[c]>>]).val)]_vars

\* Every command comes to an end.
CommandEnds == \A c \in Clients : pc[c] = "ask" ~> pc[c] \in {"idle", "killed"}

\* Clients that know the same servers agree which holds a key.
SameOwner ==
    \A c, d \in Clients, k \in Keys :
        RingServers(ring[c]) = RingServers(ring[d]) =>
            ConhashGetNode(ring[c], k).info = ConhashGetNode(ring[d], k).info
=============================================================================
