---------------------------- MODULE DbServerInv ----------------------------
(***************************************************************************)
(* The inductive invariant behind the type invariant and HandleTableOK of  *)
(* DbServer: what a worker knows at each point of RequestConduct.          *)
(***************************************************************************)
EXTENDS DbServer

Critical == {"open_hdb", "open_del", "open_add",
             "close_hdb", "close_del", "relink_del", "relink_add"}

\* The commands that take a worker to a point of RequestConduct.
CmdsAt(p) ==
    CASE p \in {"open_name", "open_lock", "open_hdb", "open_del", "open_add"} -> {"OPEN"}
      [] p \in {"data_name", "data_handle", "data_do"} -> DataCmds
      [] p = "reply" -> Cmds
      [] OTHER -> {"CLOSE", "EXIT"}

\* A worker at work has a request that brings it where it is, and the variables
\* that the rest of the request reads have been set.
TaskInHand(w) ==
    pc[w] # "idle" =>
        /\ local[w].task \in Tasks
        /\ Cmd(w) \in CmdsAt(pc[w])
        /\ pc[w] \in Critical \ {"open_hdb"} => local[w].dhn \in HandleNodes
        /\ pc[w] = "data_do" => local[w].db \in Handles

TypeInv ==
    /\ TypeOK
    /\ \A w \in Workers : TaskInHand(w)

\* Between lock and unlock the worker holds dbmutex.
MutexHeld == \A w \in Workers : pc[w] \in Critical => dbmutex = w

OpenAs(n, h) == h \in Handles /\ hdb[h] = n

\* What the holder of dbmutex knows of the entry it is renewing.
Knows(w) ==
    /\ pc[w] = "open_hdb" => ~ Listed(DbOf(w))
    /\ pc[w] = "open_del" =>
          Listed(DbOf(w)) /\ ListedAs(DbOf(w)) = local[w].dhn
    /\ pc[w] \in {"open_add", "relink_add"} =>
          /\ ~ Listed(DbOf(w))
          /\ local[w].dhn.links >= 1
          /\ OpenAs(DbOf(w), local[w].dhn.hdb)
    /\ pc[w] \in {"close_hdb", "relink_del"} =>
          /\ Listed(DbOf(w))
          /\ ListedAs(DbOf(w)).hdb = local[w].dhn.hdb
          /\ OpenAs(DbOf(w), local[w].dhn.hdb)
    /\ pc[w] = "relink_del" => local[w].dhn.links >= 1
    /\ pc[w] = "close_del" =>
          /\ Listed(DbOf(w))
          /\ hdb[ListedAs(DbOf(w)).hdb] = None

\* Every entry is the entry of an open database ...
EntriesOK ==
    \A n \in AllNames : Listed(n) =>
        /\ ListedAs(n).links >= 1
        /\ hdb[ListedAs(n).hdb] = n
              \/ \E w \in Workers : pc[w] = "close_del" /\ DbOf(w) = n

\* ... and every open database has its entry, or the holder of dbmutex has it.
HandlesOK ==
    \A h \in Handles : hdb[h] # None =>
        \/ Listed(hdb[h]) /\ ListedAs(hdb[h]).hdb = h
        \/ \E w \in Workers : /\ pc[w] \in {"open_add", "relink_add"}
                             /\ DbOf(w) = hdb[h] /\ local[w].dhn.hdb = h

HandleInv ==
    /\ TypeInv
    /\ MutexHeld
    /\ KeysUnique(db_handle_table)
    /\ EntriesOK
    /\ HandlesOK
    /\ \A w \in Workers : Knows(w)

-----------------------------------------------------------------------------
(* Sessions.  What is said of them holds for clients that are no longer     *)
(* served at end-of-file and that open files that can be opened.            *)

Regular ==
    /\ MaxReplays = 0
    /\ FailNames = {NoName}
    /\ NoName \notin JoinNames

\* Keys that the server tells apart: it keeps one byte of them.
KeysApart == \A j, k \in Keys : ByteOfKey(j) = ByteOfKey(k) => j = k

Holds(w, c) == pc[w] # "idle" /\ Fd(w) = c
Queued(c) ==
    \E w \in Workers : \E i \in 1 .. Len(thread_msg_table[w]) :
        thread_msg_table[w][i].sockfd = c
Sent(c) == inbox[c] # <<>> \/ Queued(c)
Pending(c) == Sent(c) \/ \E w \in Workers : Holds(w, c)

\* The request of a client is in one place: on its way, in one queue, or in the
\* hands of one worker ...
InboxesOK == \A c \in Clients : inbox[c] = <<>> \/ inbox[c] = <<request[c]>>

QueuesOK ==
    \A w \in Workers : \A i \in 1 .. Len(thread_msg_table[w]) :
        LET t == thread_msg_table[w][i]
        IN  /\ t = Task(t.sockfd, request[t.sockfd])
            /\ inbox[t.sockfd] = <<>>
            /\ \A v \in Workers : ~ Holds(v, t.sockfd)
            /\ \A v \in Workers : \A j \in 1 .. Len(thread_msg_table[v]) :
                  thread_msg_table[v][j].sockfd = t.sockfd => v = w /\ j = i

HandsOK ==
    \A w \in Workers : pc[w] # "idle" =>
        /\ local[w].task = Task(Fd(w), request[Fd(w)])
        /\ inbox[Fd(w)] = <<>>
        /\ \A v \in Workers : Holds(v, Fd(w)) => v = w

\* ... and the client waits for its answer, or has gone.
WaitsOK ==
    \A c \in Clients :
        /\ Pending(c) => /\ cstate[c] \in {"wait", "gone"}
                         /\ answer[c] = None
                         /\ request[c].cmd # "none"
                         /\ request[c].cmd = "EXIT" => cstate[c] = "gone"
        /\ CrashClients = {} /\ cstate[c] = "gone" => request[c].cmd = "EXIT"

FlowInv == InboxesOK /\ QueuesOK /\ HandsOK /\ WaitsOK

Bound(c)  == HashHas(db_name_table, c)
NameOf(c) == HashGetValue(db_name_table, c)

\* A descriptor is bound to the name its client has open, and no other, from
\* OPEN to CLOSE or EXIT.
ClientOK(c) ==
    /\ Bound(c) => NameOf(c) = DBName[c] /\ DBName[c] \in Names
    /\ cstate[c] = "off" => ~ Bound(c) /\ DBName[c] = NoName
    /\ cstate[c] = "ready" => (Bound(c) <=> DBName[c] # NoName)
    /\ Sent(c) /\ request[c].cmd = "OPEN" =>
          ~ Bound(c) /\ DBName[c] = request[c].arg /\ DBName[c] \in Names
    /\ Sent(c) /\ request[c].cmd \notin {"OPEN", "EXIT"} => Bound(c)
    /\ answer[c] # None /\ answer[c].code = "OPEN_OK" => Bound(c)

\* What a worker knows of the session of its client.
Opening   == {"open_lock", "open_hdb", "open_del", "open_add"}
Unlinking == {"unlink_lock", "close_hdb", "close_del", "relink_del", "relink_add"}

HandOK(w) ==
    LET c == Fd(w)
    IN  /\ pc[w] = "open_name" =>
              ~ Bound(c) /\ Arg(w) = DBName[c] /\ DBName[c] \in Names
        /\ pc[w] \in Opening => Bound(c) /\ DbOf(w) = DBName[c]
        /\ pc[w] = "unbind_get" /\ Cmd(w) = "CLOSE" => Bound(c)
        /\ pc[w] = "unbind_del" => Bound(c) /\ DbOf(w) = DBName[c]
        /\ pc[w] \in Unlinking =>
              ~ Bound(c) /\ DbOf(w) = DBName[c] /\ DBName[c] \in Names
        /\ pc[w] \in {"data_name", "data_handle", "data_do"} => Bound(c)
        /\ pc[w] \in {"data_handle", "data_do"} => DbOf(w) = DBName[c]
        /\ pc[w] = "data_do" => hdb[local[w].db] = DBName[c]
        /\ pc[w] = "reply" =>
              /\ Cmd(w) # "EXIT" /\ local[w].out \in Answers
              /\ local[w].out.code = "OPEN_OK" <=> Cmd(w) = "OPEN"
              /\ Bound(c) <=> Cmd(w) # "CLOSE"

\* The clients linked to a file, and the links the holder of dbmutex has counted
\* for the file whose entry it is renewing.
Sessions(n) == {c \in Clients : Linked(c, n)}

LinksHeld(w) ==
    CASE pc[w] = "open_hdb" -> 1
      [] pc[w] = "open_del" -> local[w].dhn.links + 1
      [] OTHER -> local[w].dhn.links

LinksOK ==
    /\ \A n \in Names : (\A w \in Workers : pc[w] \in Critical => DbOf(w) # n) =>
          Cardinality(Sessions(n)) = IF Listed(n) THEN ListedAs(n).links ELSE 0
    /\ \A w \in Workers : pc[w] \in Critical =>
          /\ Cardinality(Sessions(DbOf(w))) = LinksHeld(w)
          /\ pc[w] \in {"close_hdb", "close_del"} => LinksHeld(w) <= 0

SessionInv ==
    /\ HandleInv
    /\ FlowInv
    /\ KeysUnique(db_name_table)
    /\ \A c \in Clients : ClientOK(c)
    /\ \A w \in Workers : HandOK(w)
    /\ LinksOK
    /\ fault \in IF CrashClients = {} THEN {"none"} ELSE {"none", "SIGPIPE"}
=============================================================================
