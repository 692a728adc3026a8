------------------------------ MODULE ServerList ------------------------------
(***************************************************************************)
(* The list of servers inside a data server (src/dbserver.c 78-98,         *)
(* 319-333): the heartbeat thread overwrites servers_cnt and servers while *)
(* workers copy them for clients, without a lock.                          *)
(***************************************************************************)
EXTENDS Integers, Sequences

CONSTANTS
    Workers,
    Lists,          \* the lists the master may push
    Unset,          \* what memory holds that nothing has written
    NULL,
    MaxUpdates      \* bound

Entries == UNION {{l[k] : k \in DOMAIN l} : l \in Lists}

ASSUME ServerListAssumption ==
    /\ Lists \subseteq Seq(Entries) /\ Unset \notin Entries
    /\ MaxUpdates \in Nat

VARIABLES
    servers_cnt, servers,   \* the globals; servers is a block or NULL
    update, filled,         \* heartbeat thread: the list it takes over, entries copied
    hpc, wpc,               \* where the heartbeat thread and the workers are
    total, i, data,         \* worker: total_size, i and data of send_server_list
    sent,                   \* worker: its last answer, the count and the entries
    updates, overlap        \* lists taken so far; workers that one has overtaken

heartVars  == <<servers_cnt, servers, update, filled, hpc, updates, overlap>>
workerVars == <<wpc, total, i, data, sent>>
vars == <<heartVars, workerVars>>

Crash == "crash"

Init ==
    /\ servers_cnt = 0 /\ servers = NULL
    /\ update = <<>> /\ filled = 0 /\ hpc = "recv"
    /\ wpc = [w \in Workers |-> "idle"]
    /\ total = [w \in Workers |-> 0] /\ i = [w \in Workers |-> 0]
    /\ data = [w \in Workers |-> <<>>]
    /\ sent = [w \in Workers |-> [cnt |-> 0, list |-> <<>>]]
    /\ updates = 0 /\ overlap = {}

-----------------------------------------------------------------------------
(* Thread_heartbeat.                                                       *)

\* A list has come, and its length is taken over; an empty one ends here.
SetCount(l) ==
    /\ hpc = "recv" /\ updates < MaxUpdates
    /\ updates' = updates + 1
    /\ servers_cnt' = Len(l) /\ update' = l
    /\ hpc' = IF l = <<>> THEN "recv" ELSE "clear"
    /\ overlap' = Workers
    /\ UNCHANGED <<servers, filled, workerVars>>

\* servers = NULL, a store that the compiler may leave out.
Clear ==
    /\ hpc = "clear"
    /\ servers' \in {NULL, servers}
    /\ hpc' = "malloc"
    /\ UNCHANGED <<servers_cnt, update, filled, updates, overlap, workerVars>>

\* Mutant: a block that is there is used again.
MallocOnce ==
    /\ hpc = "malloc"
    /\ servers' = IF servers = NULL THEN [k \in 1 .. servers_cnt |-> Unset] ELSE servers
    /\ filled' = 0 /\ hpc' = "fill"
    /\ UNCHANGED <<servers_cnt, update, updates, overlap, workerVars>>

\* A new block of servers_cnt entries; the old one is not freed.
Malloc ==
    /\ hpc = "malloc"
    /\ servers' = [k \in 1 .. servers_cnt |-> Unset]
    /\ filled' = 0 /\ hpc' = "fill"
    /\ UNCHANGED <<servers_cnt, update, updates, overlap, workerVars>>

\* Mutant: the first entry is taken to be in place.
FillRest ==
    /\ hpc = "fill"
    /\ servers' = IF filled = 0 THEN servers ELSE [servers EXCEPT ![filled + 1] = update[filled + 1]]
    /\ filled' = filled + 1
    /\ hpc' = IF filled' < servers_cnt THEN "fill" ELSE "recv"
    /\ UNCHANGED <<servers_cnt, update, updates, overlap, workerVars>>

Fill ==
    /\ hpc = "fill"
    /\ servers' = [servers EXCEPT ![filled + 1] = update[filled + 1]]
    /\ filled' = filled + 1
    /\ hpc' = IF filled' < servers_cnt THEN "fill" ELSE "recv"
    /\ UNCHANGED <<servers_cnt, update, updates, overlap, workerVars>>

-----------------------------------------------------------------------------
(* send_server_list in a worker.                                           *)

BeginList(w) ==
    /\ wpc[w] = "idle"
    /\ total' = [total EXCEPT ![w] = servers_cnt]
    /\ i' = [i EXCEPT ![w] = 0] /\ data' = [data EXCEPT ![w] = <<>>]
    /\ wpc' = [wpc EXCEPT ![w] = "copy"]
    /\ overlap' = IF hpc = "recv" THEN overlap \ {w} ELSE overlap \cup {w}
    /\ UNCHANGED <<servers_cnt, servers, update, filled, hpc, updates, sent>>

\* Entry i of the block the pointer shows now; beyond its end there is anything.
CopyEntry(w) ==
    /\ wpc[w] = "copy" /\ i[w] < servers_cnt
    /\ IF servers = NULL
       THEN wpc' = [wpc EXCEPT ![w] = Crash] /\ UNCHANGED <<i, data>>
       ELSE /\ data' = [data EXCEPT ![w] = Append(@,
                          IF i[w] < Len(servers) THEN servers[i[w] + 1] ELSE Unset)]
            /\ i' = [i EXCEPT ![w] = @ + 1]
            /\ UNCHANGED wpc
    /\ UNCHANGED <<heartVars, total, sent>>

\* total entries of data are sent, and the count as it is now.
SendList(w) ==
    /\ wpc[w] = "copy" /\ i[w] >= servers_cnt
    /\ sent' = [sent EXCEPT ![w] =
                  [cnt |-> servers_cnt,
                   list |-> [k \in 1 .. total[w] |->
                               IF k <= Len(data[w]) THEN data[w][k] ELSE Unset]]]
    /\ wpc' = [wpc EXCEPT ![w] = "idle"]
    /\ UNCHANGED <<heartVars, total, i, data>>

Next ==
    \/ \E l \in Lists : SetCount(l)
    \/ Clear \/ Malloc \/ Fill
    \/ \E w \in Workers : BeginList(w) \/ CopyEntry(w) \/ SendList(w)

Spec == Init /\ [][Next]_vars

-----------------------------------------------------------------------------
(* Properties.                                                             *)

\* Types; the heartbeat thread writes within the block.
TypeOK ==
    /\ servers_cnt \in Nat /\ updates \in 0 .. MaxUpdates /\ overlap \subseteq Workers
    /\ servers \in Seq(Entries \cup {Unset}) \cup {NULL}
    /\ update \in Lists \cup {<<>>}
    /\ hpc \in {"recv", "clear", "malloc", "fill"}
    /\ hpc = "fill" => /\ servers \in Seq(Entries \cup {Unset})
                      /\ Len(servers) = servers_cnt /\ filled \in 0 .. servers_cnt - 1
    /\ wpc \in [Workers -> {"idle", "copy", Crash}]
    /\ total \in [Workers -> Nat] /\ i \in [Workers -> Nat]
    /\ data \in [Workers -> Seq(Entries \cup {Unset})]
    /\ sent \in [Workers -> [cnt : Nat, list : Seq(Entries \cup {Unset})]]
    /\ \A w \in Workers : i[w] = Len(data[w])

\* An answer that no update has come between is the list pushed last, whole and
\* in its order, however many were pushed before and whatever the worker sent then.
SteadyAnswer ==
    [][\A w \in Workers :
         sent'[w] # sent[w] /\ w \notin overlap =>
            sent'[w] = [cnt |-> Len(update), list |-> update]]_vars

\* Every answer is a list that the master pushed.
SentIsAList ==
    \A w \in Workers : \E l \in Lists \cup {<<>>} : sent[w] = [cnt |-> Len(l), list |-> l]
=============================================================================
