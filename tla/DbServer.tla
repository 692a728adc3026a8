------------------------------ MODULE DbServer ------------------------------
(***************************************************************************)
(* One data server (src/dbserver.c) and the clients connected to it: the   *)
(* event callback that hands requests to the worker threads, the workers   *)
(* running RequestConduct, the two shared hash tables, the open databases, *)
(* and clients that send one request at a time as src/dbclient.c does.     *)
(*                                                                         *)
(* A step of a worker is one call on a shared structure (a hash table call,*)
(* taking or releasing dbmutex, a database call, a send), so every         *)
(* interleaving of the workers at that grain is explored.                  *)
(***************************************************************************)
EXTENDS HashTable, Integers, FiniteSets

CONSTANTS
    Clients,        \* the connections; a client stands for its sockfd, used once
    Workers,        \* the worker threads, 0 .. THREADS - 1
    Names,          \* database names a user may open
    NoName,         \* the empty string: DBName of a client with nothing open
    FailNames,      \* names that OpenHDB cannot open
    JoinNames,      \* DBName of a client that update_conhash connects
    Keys,           \* the int keys of put, get and delete
    Handles,        \* addresses of database objects
    None,           \* no handle, no worker, no value
    FdHash, NameHash,   \* the bucket of a sockfd and of a name
    CrashClients,   \* clients that may die without sending EXIT
    MaxReplays      \* bound: callbacks that find end-of-file on a socket

AllNames == Names \cup {NoName}

ASSUME NamesAssumption ==
    /\ NoName \notin Names
    /\ NoName \in FailNames /\ FailNames \subseteq AllNames
    /\ JoinNames \subseteq AllNames
    /\ CrashClients \subseteq Clients
ASSUME HashAssumption ==
    FdHash \in [Clients -> 0 .. 4] /\ NameHash \in [AllNames -> 0 .. 4]
ASSUME NoneAssumption ==
    None \notin Handles \cup Workers \cup Keys \cup AllNames
ASSUME KeysAssumption == Keys \subseteq Nat
ASSUME ClientsAssumption == IsFiniteSet(Clients)
ASSUME ReplaysAssumption == MaxReplays \in Nat

VARIABLES
    cstate,             \* client: "off", "ready", "wait" for an answer, "gone"
    DBName,             \* client: what it believes it has open
    request,            \* client: its last request
    answer,             \* client: the answer to it, once it is there
    inbox,              \* requests sent and not yet received by the server
    sock,               \* server: the accepted socket, "none", "open", "closed"
    stack,              \* event thread: what the last callback left in buffer
    replays,            \* callbacks run at end-of-file so far
    thread_msg_table,   \* the task queue of every worker
    dbmutex,            \* the worker that holds it, or None
    db_name_table,      \* sockfd -> name
    db_handle_table,    \* name -> handle and links
    hdb,                \* the database every handle has open, None when closed
    store,              \* the contents of the database files
    pc, local,          \* worker: position in RequestConduct, its variables
    fault               \* "none", or the undefined behaviour the server met

clientVars == <<cstate, DBName, request, answer>>
netVars    == <<inbox, sock, stack, replays>>
tableVars  == <<dbmutex, db_name_table, db_handle_table>>
fileVars   == <<hdb, store>>
vars == <<clientVars, netVars, thread_msg_table, tableVars, fileVars, pc, local, fault>>

-----------------------------------------------------------------------------
(* Messages and worker variables.                                          *)

DataCmds == {"PUT", "GET", "DELETE"}
Cmds     == {"OPEN", "CLOSE", "EXIT"} \cup DataCmds

\* An OPEN carries a name, a data request a key; the rest carry nothing, that
\* is NoName.  "none" stands for a code that no case of the switch takes.
ArgFits(r) == r.arg \in (IF r.cmd \in DataCmds THEN Keys ELSE AllNames)
Requests == {r \in [cmd : Cmds \cup {"none"}, arg : AllNames \cup Keys] : ArgFits(r)}
Tasks    == {t \in [sockfd : Clients, cmd : Cmds \cup {"none"},
                    arg : AllNames \cup Keys] : ArgFits(t)}

Req(cmd, arg)    == [cmd |-> cmd, arg |-> arg]
Task(c, req)     == [sockfd |-> c, cmd |-> req.cmd, arg |-> req.arg]
Garbage          == Req("none", NoName)

Codes   == {"OPEN_OK", "CLOSE_OK", "PUT_OK", "GET_OK", "DELETE_OK", "ERROR"}
Answers == [code : Codes, val : Keys \cup {None}]
ASSUME AnswersAssumption == None \notin Answers
Ans(code)        == [code |-> code, val |-> None]

\* int key = (int)*data1 keeps one byte of the key, as a signed char.
ByteOfKey(k) == IF k % 256 < 128 THEN k % 256 ELSE (k % 256) - 256
Bytes        == {ByteOfKey(k) : k \in Keys}

HandleNodes == [hdb : Handles, links : Int]
Relinked(dhn, n) == [dhn EXCEPT !.links = @ + n]

NoLocal == [task |-> None, dbname |-> NoName, dhn |-> None, db |-> None, out |-> None]

Init ==
    /\ cstate = [c \in Clients |-> "off"]
    /\ DBName = [c \in Clients |-> NoName]
    /\ request = [c \in Clients |-> Garbage]
    /\ answer = [c \in Clients |-> None]
    /\ inbox = [c \in Clients |-> <<>>]
    /\ sock = [c \in Clients |-> "none"]
    /\ stack = Garbage
    /\ replays = 0
    /\ thread_msg_table = [w \in Workers |-> <<>>]
    /\ dbmutex = None
    /\ db_name_table = HashCreateTable(5, FdHash)
    /\ db_handle_table = HashCreateTable(5, NameHash)
    /\ hdb = [h \in Handles |-> None]
    /\ store = [n \in Names |-> [b \in Bytes |-> None]]
    /\ pc = [w \in Workers |-> "idle"]
    /\ local = [w \in Workers |-> NoLocal]
    /\ fault = "none"

-----------------------------------------------------------------------------
(* The clients.  A client sends to this server one request at a time and   *)
(* waits for the answer; EXIT is not answered, the client closes at once.  *)

Send(c, req) ==
    /\ request' = [request EXCEPT ![c] = req]
    /\ answer' = [answer EXCEPT ![c] = None]
    /\ inbox' = [inbox EXCEPT ![c] = Append(@, req)]

serverVars == <<stack, replays, thread_msg_table, tableVars, fileVars, pc, local, fault>>

\* main connects; AcceptHandle of the server accepts.
Connect(c) ==
    /\ cstate[c] = "off"
    /\ cstate' = [cstate EXCEPT ![c] = "ready"]
    /\ sock' = [sock EXCEPT ![c] = "open"]
    /\ UNCHANGED <<DBName, request, answer, inbox, serverVars>>

\* update_conhash connects to a server that is new in the list and at once
\* opens there what the client has open, which may be nothing.
Join(c, n) ==
    /\ cstate[c] = "off"
    /\ cstate' = [cstate EXCEPT ![c] = "wait"]
    /\ DBName' = [DBName EXCEPT ![c] = n]
    /\ sock' = [sock EXCEPT ![c] = "open"]
    /\ Send(c, Req("OPEN", n))
    /\ UNCHANGED serverVars

Wait(c) ==
    /\ cstate[c] = "ready"
    /\ cstate' = [cstate EXCEPT ![c] = "wait"]
    /\ UNCHANGED <<sock, serverVars>>

\* 'open': DBName is set before the server has answered, and stays.
ClientOpen(c, n) ==
    /\ Wait(c)
    /\ DBName[c] = NoName
    /\ DBName' = [DBName EXCEPT ![c] = n]
    /\ Send(c, Req("OPEN", n))

\* 'put', 'get', 'delete', 'close' ask for an open data file first.
ClientData(c, cmd, k) ==
    /\ Wait(c)
    /\ DBName[c] # NoName
    /\ Send(c, Req(cmd, k))
    /\ UNCHANGED DBName

ClientClose(c) ==
    /\ Wait(c)
    /\ DBName[c] # NoName
    /\ Send(c, Req("CLOSE", NoName))
    /\ UNCHANGED DBName

ClientExit(c) ==
    /\ cstate[c] = "ready"
    /\ cstate' = [cstate EXCEPT ![c] = "gone"]
    /\ Send(c, Req("EXIT", NoName))
    /\ UNCHANGED <<DBName, sock, serverVars>>

\* The client process dies: the server sees end-of-file and no EXIT.
ClientCrash(c) ==
    /\ c \in CrashClients
    /\ cstate[c] \in {"ready", "wait"}
    /\ cstate' = [cstate EXCEPT ![c] = "gone"]
    /\ UNCHANGED <<DBName, request, answer, inbox, sock, serverVars>>

ClientStep(c) ==
    \/ Connect(c)
    \/ \E n \in JoinNames : Join(c, n)
    \/ \E n \in Names : ClientOpen(c, n)
    \/ \E cmd \in DataCmds, k \in Keys : ClientData(c, cmd, k)
    \/ ClientClose(c)
    \/ ClientExit(c)
    \/ ClientCrash(c)

-----------------------------------------------------------------------------
(* The event thread: recv_callback_fn.                                     *)

Enqueue(w, task) ==
    thread_msg_table' = [thread_msg_table EXCEPT ![w] = Append(@, task)]

\* Mutant: the buffer is analysed before RecvMsg has filled it.
ReceiveStale(c) ==
    /\ sock[c] = "open"
    /\ inbox[c] # <<>>
    /\ inbox' = [inbox EXCEPT ![c] = Tail(@)]
    /\ stack' = Head(inbox[c])
    /\ \E w \in Workers : Enqueue(w, Task(c, stack))
    /\ UNCHANGED <<clientVars, sock, replays, tableVars, fileVars, pc, local, fault>>

\* A request arrived: it goes to a random worker.
Receive(c) ==
    /\ sock[c] = "open"
    /\ inbox[c] # <<>>
    /\ inbox' = [inbox EXCEPT ![c] = Tail(@)]
    /\ stack' = Head(inbox[c])
    /\ \E w \in Workers : Enqueue(w, Task(c, Head(inbox[c])))
    /\ UNCHANGED <<clientVars, sock, replays, tableVars, fileVars, pc, local, fault>>

\* The client has closed its end: recv returns 0, which is not -1, and the
\* message analysed is what the stack still holds, of whichever client.
ReceiveEOF(c) ==
    /\ sock[c] = "open"
    /\ inbox[c] = <<>> /\ cstate[c] = "gone"
    /\ replays < MaxReplays
    /\ replays' = replays + 1
    /\ \E w \in Workers, stale \in {stack, Garbage} : Enqueue(w, Task(c, stale))
    /\ UNCHANGED <<clientVars, inbox, sock, stack, tableVars, fileVars, pc, local, fault>>

-----------------------------------------------------------------------------
(* The workers: Thread_DB takes a task, RequestConduct handles it.         *)

envVars == <<clientVars, netVars>>

Fd(w)     == local[w].task.sockfd
Cmd(w)    == local[w].task.cmd
Arg(w)    == local[w].task.arg
DbOf(w)   == local[w].dbname

Goto(w, from, to) ==
    /\ pc[w] = from
    /\ pc' = [pc EXCEPT ![w] = to]

\* Mutant: EXIT goes straight to CloseSocket and keeps its link.
EntryExitKeeps == [cmd \in Cmds \cup {"none"} |->
                     CASE cmd = "OPEN" -> "open_name"
                       [] cmd = "CLOSE" -> "unbind_get"
                       [] cmd = "EXIT" -> "exit_close"
                       [] cmd \in DataCmds -> "data_name"
                       [] OTHER -> "idle"]

\* The case of the switch that handles a command.
Entry == [cmd \in Cmds \cup {"none"} |->
            CASE cmd = "OPEN" -> "open_name"
              [] cmd \in {"CLOSE", "EXIT"} -> "unbind_get"
              [] cmd \in DataCmds -> "data_name"
              [] OTHER -> "idle"]

TakeTask(w) ==
    /\ thread_msg_table[w] # <<>>
    /\ LET task == Head(thread_msg_table[w])
       IN  /\ Goto(w, "idle", Entry[task.cmd])
           /\ local' = [local EXCEPT ![w] =
                          IF task.cmd = "none" THEN NoLocal
                          ELSE [NoLocal EXCEPT !.task = task]]
    /\ thread_msg_table' = [thread_msg_table EXCEPT ![w] = Tail(@)]
    /\ UNCHANGED <<envVars, tableVars, fileVars, fault>>

inner == <<envVars, thread_msg_table>>      \* what no step of a request changes

Lock(w) == dbmutex = None /\ dbmutex' = w

\* Mutant: the unlock is forgotten.
UnlockForgotten(w) == dbmutex = w /\ UNCHANGED dbmutex

Unlock(w) == dbmutex = w /\ dbmutex' = None

\* OPEN, 126-129: the descriptor is bound before the mutex is taken.
OpenName(w) ==
    /\ Goto(w, "open_name", "open_lock")
    /\ db_name_table' = HashAddNode(db_name_table, Fd(w), Arg(w))
    /\ local' = [local EXCEPT ![w].dbname = Arg(w)]
    /\ UNCHANGED <<inner, dbmutex, db_handle_table, fileVars, fault>>

OpenLock(w) ==
    /\ Lock(w)
    /\ \/ /\ Goto(w, "open_lock", "open_hdb")
          /\ ~ HashHas(db_handle_table, DbOf(w))
          /\ UNCHANGED local
       \/ /\ Goto(w, "open_lock", "open_del")
          /\ HashHas(db_handle_table, DbOf(w))
          /\ local' = [local EXCEPT ![w].dhn = HashGetValue(db_handle_table, DbOf(w))]
    /\ UNCHANGED <<inner, db_name_table, db_handle_table, fileVars, fault>>

\* 132-141: the first open of a database.
OpenFirst(w) ==
    /\ Goto(w, "open_hdb", "reply")
    /\ Unlock(w)
    /\ \/ /\ DbOf(w) \notin FailNames
          /\ \E h \in {x \in Handles : hdb[x] = None} :
                /\ hdb' = [hdb EXCEPT ![h] = DbOf(w)]
                /\ db_handle_table' =
                      HashAddNode(db_handle_table, DbOf(w), [hdb |-> h, links |-> 1])
          /\ local' = [local EXCEPT ![w].out = Ans("OPEN_OK")]
       \/ /\ DbOf(w) \in FailNames
          /\ local' = [local EXCEPT ![w].out = Ans("ERROR")]
          /\ UNCHANGED <<hdb, db_handle_table>>
    /\ UNCHANGED <<inner, db_name_table, store, fault>>

\* Mutant: links++ is forgotten.
OpenUnlistUncounted(w) ==
    /\ Goto(w, "open_del", "open_add")
    /\ db_handle_table' = HashDelete(db_handle_table, DbOf(w))
    /\ UNCHANGED <<inner, dbmutex, db_name_table, fileVars, local, fault>>

\* 144-146: one more link; the entry is taken out ...
OpenUnlist(w) ==
    /\ Goto(w, "open_del", "open_add")
    /\ db_handle_table' = HashDelete(db_handle_table, DbOf(w))
    /\ local' = [local EXCEPT ![w].dhn = Relinked(@, 1)]
    /\ UNCHANGED <<inner, dbmutex, db_name_table, fileVars, fault>>

\* 147-150: ... and put back with the new count.
OpenRelist(w) ==
    /\ Goto(w, "open_add", "reply")
    /\ Unlock(w)
    /\ db_handle_table' = HashAddNode(db_handle_table, DbOf(w), local[w].dhn)
    /\ local' = [local EXCEPT ![w].out = Ans("OPEN_OK")]
    /\ UNCHANGED <<inner, db_name_table, fileVars, fault>>

\* The name the client's descriptor is bound to; a missing binding leaves
\* dbname as malloc returned it.
LookupName(w) ==
    IF HashHas(db_name_table, Fd(w))
    THEN {HashGetValue(db_name_table, Fd(w))} ELSE AllNames

\* CLOSE 157 and EXIT 181.  Only EXIT asks whether there was a binding.
UnbindGet(w) ==
    /\ \/ /\ Goto(w, "unbind_get", "exit_close")
          /\ Cmd(w) = "EXIT" /\ ~ HashHas(db_name_table, Fd(w))
          /\ UNCHANGED local
       \/ /\ Goto(w, "unbind_get", "unbind_del")
          /\ Cmd(w) = "CLOSE" \/ HashHas(db_name_table, Fd(w))
          /\ \E n \in LookupName(w) : local' = [local EXCEPT ![w].dbname = n]
    /\ UNCHANGED <<inner, tableVars, fileVars, fault>>

\* Mutant: the binding of the descriptor stays.
UnbindDeleteKept(w) ==
    /\ Goto(w, "unbind_del", "unlink_lock")
    /\ UNCHANGED <<inner, tableVars, fileVars, local, fault>>

\* 158 and 182.
UnbindDelete(w) ==
    /\ Goto(w, "unbind_del", "unlink_lock")
    /\ db_name_table' = HashDelete(db_name_table, Fd(w))
    /\ UNCHANGED <<inner, dbmutex, db_handle_table, fileVars, local, fault>>

\* What a worker does once links has been decremented to n.
\* Mutants: < and <= 1 in place of <= 0.
AfterUnlinkLate(n)  == IF n < 0 THEN "close_hdb" ELSE "relink_del"
AfterUnlinkEarly(n) == IF n <= 1 THEN "close_hdb" ELSE "relink_del"
AfterUnlink(n)      == IF n <= 0 THEN "close_hdb" ELSE "relink_del"

\* 159-162 and 183-186.  Nothing checks that the handle was found: a missing
\* one leaves dhn uninitialised, and the server goes on with it.
UnlinkLock(w) ==
    /\ pc[w] = "unlink_lock"
    /\ Lock(w)
    /\ \/ /\ ~ HashHas(db_handle_table, DbOf(w))
          /\ fault' = "uninitialised handle"
          /\ UNCHANGED <<pc, local>>
       \/ /\ HashHas(db_handle_table, DbOf(w))
          /\ LET dhn == HashGetValue(db_handle_table, DbOf(w))
             IN  /\ local' = [local EXCEPT ![w].dhn = Relinked(dhn, -1)]
                 /\ Goto(w, "unlink_lock", AfterUnlink(dhn.links - 1))
          /\ UNCHANGED fault
    /\ UNCHANGED <<inner, db_name_table, db_handle_table, fileVars>>

Closed(w) == IF Cmd(w) = "EXIT" THEN "exit_close" ELSE "reply"

\* 163-164 and 187-188: the last link is gone, the database is closed ...
CloseLast(w) ==
    /\ Goto(w, "close_hdb", "close_del")
    /\ hdb' = [hdb EXCEPT ![HashGetValue(db_handle_table, DbOf(w)).hdb] = None]
    /\ UNCHANGED <<inner, tableVars, store, local, fault>>

\* Mutant: the answer of OPEN is sent (148 copied to 174).
CloseUnlistOpenOK(w) ==
    /\ Goto(w, "close_del", Closed(w))
    /\ Unlock(w)
    /\ db_handle_table' = HashDelete(db_handle_table, DbOf(w))
    /\ local' = [local EXCEPT ![w].out = Ans("OPEN_OK")]
    /\ UNCHANGED <<inner, db_name_table, fileVars, fault>>

\* 165-174 and 189-195: ... and then its entry removed.
CloseUnlist(w) ==
    /\ Goto(w, "close_del", Closed(w))
    /\ Unlock(w)
    /\ db_handle_table' = HashDelete(db_handle_table, DbOf(w))
    /\ local' = [local EXCEPT ![w].out = Ans("CLOSE_OK")]
    /\ UNCHANGED <<inner, db_name_table, fileVars, fault>>

\* 168 and 192; 169-174 and 193-195: one link less.
UnlinkUnlist(w) ==
    /\ Goto(w, "relink_del", "relink_add")
    /\ db_handle_table' = HashDelete(db_handle_table, DbOf(w))
    /\ UNCHANGED <<inner, dbmutex, db_name_table, fileVars, local, fault>>

UnlinkRelist(w) ==
    /\ Goto(w, "relink_add", Closed(w))
    /\ Unlock(w)
    /\ db_handle_table' = HashAddNode(db_handle_table, DbOf(w), local[w].dhn)
    /\ local' = [local EXCEPT ![w].out = Ans("CLOSE_OK")]
    /\ UNCHANGED <<inner, db_name_table, fileVars, fault>>

\* 198: CloseSocket.
ExitClose(w) ==
    /\ Goto(w, "exit_close", "idle")
    /\ sock' = [sock EXCEPT ![Fd(w)] = "closed"]
    /\ local' = [local EXCEPT ![w] = NoLocal]
    /\ UNCHANGED <<clientVars, inbox, stack, replays, thread_msg_table, tableVars,
                   fileVars, fault>>

\* PUT, GET and DELETE read both tables without the mutex: 205, 229, 252 ...
DataName(w) ==
    /\ Goto(w, "data_name", "data_handle")
    /\ \E n \in LookupName(w) : local' = [local EXCEPT ![w].dbname = n]
    /\ UNCHANGED <<inner, tableVars, fileVars, fault>>

\* ... and 206, 230, 253; a handle that is not in the table is an ERROR.
DataHandle(w) ==
    /\ \/ /\ Goto(w, "data_handle", "data_do")
          /\ HashHas(db_handle_table, DbOf(w))
          /\ local' = [local EXCEPT ![w].db = HashGetValue(db_handle_table, DbOf(w)).hdb]
       \/ /\ Goto(w, "data_handle", "reply")
          /\ ~ HashHas(db_handle_table, DbOf(w))
          /\ local' = [local EXCEPT ![w].out = Ans("ERROR")]
    /\ UNCHANGED <<inner, tableVars, fileVars, fault>>

\* PutKeyValue, GetValue and DelKeyValue on an open database.  The value put
\* under key k is called k.
DataOnFile(w, n) ==
    LET b == ByteOfKey(Arg(w))
        Answer(code) == local' = [local EXCEPT ![w].out = Ans(code)]
    IN  \/ /\ Cmd(w) = "PUT"
           /\ store' = [store EXCEPT ![n] = [@ EXCEPT ![b] = Arg(w)]]
           /\ Answer("PUT_OK")
        \/ /\ Cmd(w) = "GET" /\ store[n][b] # None
           /\ local' = [local EXCEPT ![w].out = [code |-> "GET_OK", val |-> store[n][b]]]
           /\ UNCHANGED store
        \/ /\ Cmd(w) = "DELETE" /\ store[n][b] # None
           /\ store' = [store EXCEPT ![n] = [@ EXCEPT ![b] = None]]
           /\ Answer("DELETE_OK")
        \/ /\ Cmd(w) \in {"GET", "DELETE"} /\ store[n][b] = None
           /\ Answer("ERROR")
           /\ UNCHANGED store

\* 207-219, 231-242, 254-262.  The handle may have been closed meanwhile.
DataDo(w) ==
    /\ \/ /\ Goto(w, "data_do", "reply")
          /\ hdb[local[w].db] # None
          /\ DataOnFile(w, hdb[local[w].db])
          /\ UNCHANGED fault
       \/ /\ pc[w] = "data_do"
          /\ hdb[local[w].db] = None
          /\ fault' = "use of a closed handle"
          /\ UNCHANGED <<pc, local, store>>
    /\ UNCHANGED <<inner, tableVars, hdb>>

\* SendMsg, and the client's RecvMsg.  A close resets DBName.  A send to a
\* client that is gone may raise SIGPIPE, which nothing handles.
Reply(w) ==
    LET c == Fd(w)
        out == local[w].out
    IN  /\ Goto(w, "reply", "idle")
        /\ local' = [local EXCEPT ![w] = NoLocal]
        /\ \/ /\ cstate[c] = "wait"
              /\ cstate' = [cstate EXCEPT ![c] = "ready"]
              /\ answer' = [answer EXCEPT ![c] = out]
              /\ DBName' = IF request[c].cmd = "CLOSE"
                           THEN [DBName EXCEPT ![c] = NoName] ELSE DBName
              /\ UNCHANGED fault
           \/ /\ cstate[c] = "gone"
              /\ fault' \in IF sock[c] = "open" THEN {"none", "SIGPIPE"} ELSE {"none"}
              /\ UNCHANGED <<cstate, answer, DBName>>
        /\ UNCHANGED <<request, netVars, thread_msg_table, tableVars, fileVars>>

WorkerStep(w) ==
    \/ TakeTask(w)
    \/ OpenName(w) \/ OpenLock(w) \/ OpenFirst(w) \/ OpenUnlist(w) \/ OpenRelist(w)
    \/ UnbindGet(w) \/ UnbindDelete(w) \/ UnlinkLock(w)
    \/ CloseLast(w) \/ CloseUnlist(w) \/ UnlinkUnlist(w) \/ UnlinkRelist(w)
    \/ ExitClose(w)
    \/ DataName(w) \/ DataHandle(w) \/ DataDo(w)
    \/ Reply(w)

\* After undefined behaviour or a fatal signal nothing more is said.
Next ==
    /\ fault = "none"
    /\ \/ \E c \in Clients : ClientStep(c) \/ Receive(c) \/ ReceiveEOF(c)
       \/ \E w \in Workers : WorkerStep(w)

Spec == Init /\ [][Next]_vars

\* The event loop serves every readable socket, and no thread that can run
\* waits for ever, at dbmutex either.
Fairness ==
    /\ \A c \in Clients : WF_vars(fault = "none" /\ Receive(c))
    /\ \A w \in Workers :
          /\ WF_vars(fault = "none" /\ WorkerStep(w))
          /\ SF_vars(fault = "none" /\ (OpenLock(w) \/ UnlinkLock(w)))

FairSpec == Spec /\ Fairness

-----------------------------------------------------------------------------
(* Properties.                                                             *)

PCs == {"idle", "open_name", "open_lock", "open_hdb", "open_del", "open_add",
        "unbind_get", "unbind_del", "unlink_lock", "close_hdb", "close_del",
        "relink_del", "relink_add", "exit_close", "data_name", "data_handle",
        "data_do", "reply"}

Faults == {"none", "uninitialised handle", "use of a closed handle", "SIGPIPE"}

Locals == [task : Tasks \cup {None}, dbname : AllNames,
           dhn : HandleNodes \cup {None}, db : Handles \cup {None},
           out : Answers \cup {None}]

TypeOK ==
    /\ cstate \in [Clients -> {"off", "ready", "wait", "gone"}]
    /\ DBName \in [Clients -> AllNames]
    /\ request \in [Clients -> Requests]
    /\ answer \in [Clients -> Answers \cup {None}]
    /\ inbox \in [Clients -> Seq(Requests)]
    /\ sock \in [Clients -> {"none", "open", "closed"}]
    /\ stack \in Requests
    /\ replays \in 0 .. MaxReplays
    /\ thread_msg_table \in [Workers -> Seq(Tasks)]
    /\ dbmutex \in Workers \cup {None}
    /\ IsTable(db_name_table, Clients, AllNames)
    /\ IsTable(db_handle_table, AllNames, HandleNodes)
    /\ hdb \in [Handles -> Names \cup {None}]
    /\ store \in [Names -> [Bytes -> Keys \cup {None}]]
    /\ pc \in [Workers -> PCs]
    /\ local \in [Workers -> Locals]
    /\ fault \in Faults

ListedAs(n)  == HashGetValue(db_handle_table, n)
Listed(n)  == HashHas(db_handle_table, n)

\* The handle table describes the open databases: a name is listed once, with
\* the handle that has it open and at least one link; every open handle is
\* listed under its name, except while its entry is being renewed by the holder
\* of dbmutex (144-147, 168-169, 192-193).  This must hold whatever the clients
\* send, at end-of-file and after failed opens too.
HandleTableOK ==
    /\ KeysUnique(db_handle_table)
    /\ \A n \in AllNames : Listed(n) =>
          /\ ListedAs(n).links >= 1
          /\ hdb[ListedAs(n).hdb] = n
                \/ \E w \in Workers : pc[w] = "close_del" /\ DbOf(w) = n
    /\ \A h \in Handles : hdb[h] # None =>
          \/ Listed(hdb[h]) /\ ListedAs(hdb[h]).hdb = h
          \/ \E w \in Workers : /\ pc[w] \in {"open_add", "relink_add"}
                               /\ DbOf(w) = hdb[h] /\ local[w].dhn.hdb = h

Handling(w, c, pcs) == pc[w] \in pcs /\ Fd(w) = c

\* c has a link to n that the server has counted: its descriptor is bound and
\* the open has been through the mutex, or the close has not yet.
Linked(c, n) ==
    \/ /\ HashHas(db_name_table, c) /\ HashGetValue(db_name_table, c) = n
       /\ ~ \E w \in Workers : Handling(w, c, {"open_lock"})
    \/ \E w \in Workers : Handling(w, c, {"unlink_lock"}) /\ DbOf(w) = n

\* The links of a database, kept apart from the descriptor bindings and under
\* another discipline, count the clients that have it open; a database nobody
\* has open is not in the table (125-202).
LinksCountSessions ==
    dbmutex = None =>
        \A n \in Names : Cardinality({c \in Clients : Linked(c, n)}) =
                          IF Listed(n) THEN ListedAs(n).links ELSE 0

\* A worker about to touch a database, through a handle it read without the
\* mutex some steps ago, has the one its client opened (204-269).
SessionIsolation ==
    \A w \in Workers :
        pc[w] = "data_do" => hdb[local[w].db] = DBName[Fd(w)]

\* The server meets neither undefined behaviour nor a fatal signal.
NoFault == fault = "none"

\* Every task a worker will take or is at is the last request of the client it
\* is to be answered to ("Client request event callback function, assign task
\* to a random thread", dbserver.c:342-343).
TasksAreRequests ==
    \A w \in Workers :
        LET tasks == Range(thread_msg_table[w])
                     \cup (IF pc[w] = "idle" THEN {} ELSE {local[w].task})
        IN  \A t \in tasks : t = Task(t.sockfd, request[t.sockfd])

\* What the service of DataService sees of the server: a request has taken
\* effect when the worker that handles it is about to send the answer.
Outcome(c) ==
    LET sending == {w \in Workers : pc[w] = "reply" /\ Fd(w) = c}
    IN  IF sending = {} THEN None ELSE local[CHOOSE w \in sending : TRUE].out

Service ==
    INSTANCE DataService WITH
        done  <- [c \in Clients |-> Outcome(c)],
        files <- [n \in Names |-> [k \in Keys |-> store[n][ByteOfKey(k)]]]

\* Through all its tables, queues and threads the server does what a service
\* would that handled every request in one step, on the file of its client: no
\* effect is lost, doubled or put in another client's file, and each client
\* gets the answer to its own request (dbserver.c:103-272, 345-378).
ImplementsService == Service!Spec

\* "Get value by key" (dbclient.c:33): a get never returns what was put under
\* another key.
GetByKey ==
    \A c \in Clients :
        answer[c] # None /\ answer[c].code = "GET_OK" => answer[c].val = request[c].arg

\* "Store a key-value" (dbclient.c:32): with its data file open, a client whose
\* put reached the server is not told that it failed.
PutStores ==
    \A c \in Clients :
        answer[c] # None /\ request[c].cmd = "PUT" => answer[c].code = "PUT_OK"

\* Once an open has been answered OPEN_OK, and until a close, the server serves
\* the client from the file it asked for: that is what "Open failed. Try again."
\* (dbclient.c:194, 254) and "Open successfully." (259) tell the user.
OpenBinds ==
    \A c \in Clients :
        answer[c] # None /\ answer[c].code = "OPEN_OK" =>
            /\ HashHas(db_name_table, c)
            /\ HashGetValue(db_name_table, c) = DBName[c]

\* Every request is answered, whatever the other clients do.
Answered ==
    \A c \in Clients : cstate[c] = "wait" ~> cstate[c] # "wait"

\* When every client has gone, every database is closed in the end.
Released ==
    (\A c \in Clients : cstate[c] = "gone") ~> (\A h \in Handles : hdb[h] = None)
=============================================================================
