---------------------------- MODULE DataService ----------------------------
(***************************************************************************)
(* What a data server promises its clients, without threads, queues,       *)
(* descriptors or handles: every request takes effect once, at one moment  *)
(* between its sending and its answer, on the file the client has open.  A *)
(* put, get or delete may be refused with ERROR, then it has no effect; an *)
(* open or a close never is.                                               *)
(***************************************************************************)
EXTENDS Naturals

CONSTANTS Clients, Names, NoName, JoinNames, Keys, None

VARIABLES
    cstate,     \* "off", "ready", "wait" for an answer, "gone"
    DBName,     \* the file the client has asked to open
    request,    \* its last request
    done,       \* the outcome of a request that took effect, not yet answered
    answer,     \* the last answer
    files       \* the contents of the data files

vars == <<cstate, DBName, request, done, answer, files>>

DataCmds == {"PUT", "GET", "DELETE"}
Req(cmd, arg) == [cmd |-> cmd, arg |-> arg]
Ans(code) == [code |-> code, val |-> None]

Init ==
    /\ cstate = [c \in Clients |-> "off"]
    /\ DBName = [c \in Clients |-> NoName]
    /\ request = [c \in Clients |-> Req("none", NoName)]
    /\ done = [c \in Clients |-> None]
    /\ answer = [c \in Clients |-> None]
    /\ files = [n \in Names |-> [k \in Keys |-> None]]

Connect(c) ==
    /\ cstate[c] = "off"
    /\ cstate' = [cstate EXCEPT ![c] = "ready"]
    /\ UNCHANGED <<DBName, request, done, answer, files>>

Ask(c, from, to, req) ==
    /\ cstate[c] = from
    /\ cstate' = [cstate EXCEPT ![c] = to]
    /\ request' = [request EXCEPT ![c] = req]
    /\ answer' = [answer EXCEPT ![c] = None]
    /\ UNCHANGED <<done, files>>

Open(c, from, n) ==
    /\ DBName[c] = NoName
    /\ DBName' = [DBName EXCEPT ![c] = n]
    /\ Ask(c, from, "wait", Req("OPEN", n))

Data(c, cmd, k) ==
    /\ DBName[c] # NoName
    /\ Ask(c, "ready", "wait", Req(cmd, k))
    /\ UNCHANGED DBName

Close(c) ==
    /\ DBName[c] # NoName
    /\ Ask(c, "ready", "wait", Req("CLOSE", NoName))
    /\ UNCHANGED DBName

Exit(c) ==
    /\ Ask(c, "ready", "gone", Req("EXIT", NoName))
    /\ UNCHANGED DBName

Finish(c, out) == done' = [done EXCEPT ![c] = out]

Effect(c) ==
    /\ cstate[c] = "wait" /\ done[c] = None /\ answer[c] = None
    /\ UNCHANGED <<cstate, DBName, request, answer>>
    /\ LET cmd == request[c].cmd
           k   == request[c].arg
           n   == DBName[c]
       IN  \/ cmd = "OPEN"  /\ Finish(c, Ans("OPEN_OK"))  /\ UNCHANGED files
           \/ cmd = "CLOSE" /\ Finish(c, Ans("CLOSE_OK")) /\ UNCHANGED files
           \/ cmd = "PUT" /\ Finish(c, Ans("PUT_OK"))
              /\ files' = [files EXCEPT ![n][k] = k]
           \/ cmd = "GET" /\ files[n][k] # None
              /\ Finish(c, [code |-> "GET_OK", val |-> files[n][k]])
              /\ UNCHANGED files
           \/ cmd = "DELETE" /\ files[n][k] # None /\ Finish(c, Ans("DELETE_OK"))
              /\ files' = [files EXCEPT ![n][k] = None]
           \/ cmd \in DataCmds /\ Finish(c, Ans("ERROR")) /\ UNCHANGED files

Answer(c) ==
    /\ cstate[c] = "wait" /\ done[c] # None
    /\ cstate' = [cstate EXCEPT ![c] = "ready"]
    /\ answer' = [answer EXCEPT ![c] = done[c]]
    /\ done' = [done EXCEPT ![c] = None]
    /\ DBName' = IF request[c].cmd = "CLOSE"
                 THEN [DBName EXCEPT ![c] = NoName] ELSE DBName
    /\ UNCHANGED <<request, files>>

Next ==
    \E c \in Clients :
        \/ Connect(c)
        \/ \E n \in Names : Open(c, "ready", n)
        \/ \E n \in JoinNames : Open(c, "off", n)
        \/ \E cmd \in DataCmds, k \in Keys : Data(c, cmd, k)
        \/ Close(c) \/ Exit(c)
        \/ Effect(c) \/ Answer(c)

Spec == Init /\ [][Next]_vars
=============================================================================
