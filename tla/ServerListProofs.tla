--------------------------- MODULE ServerListProofs ---------------------------
(***************************************************************************)
(* An answer of send_server_list that no update has come between is the    *)
(* list that was pushed last.                                              *)
(***************************************************************************)
EXTENDS ServerList, SequenceTheorems, TLAPS

\* The block holds the update, as far as it is filled.
HeartInv ==
    /\ servers_cnt = Len(update)
    /\ hpc = "recv" /\ update # <<>> => servers = update
    /\ hpc # "recv" => update # <<>>
    /\ hpc = "fill" => \A k \in 1 .. filled : servers[k] = update[k]

\* A worker that no update has overtaken has copied the beginning of the list.
WorkerInv ==
    \A w \in Workers :
        w \notin overlap /\ wpc[w] = "copy" =>
            /\ hpc = "recv" /\ total[w] = Len(update) /\ i[w] <= Len(update)
            /\ \A k \in 1 .. i[w] : data[w][k] = update[k]

Inv == TypeOK /\ HeartInv /\ WorkerInv

\* An update is a sequence of entries.
LEMMA UpdateIsList == ASSUME TypeOK PROVE update \in Seq(Entries) /\ Len(update) \in Nat
  <1>1. update \in Lists \cup {<<>>}
    BY DEF TypeOK
  <1>2. Lists \subseteq Seq(Entries)
    BY ServerListAssumption
  <1>3. <<>> \in Seq(Entries)
    OBVIOUS
  <1>4. update \in Seq(Entries)
    BY <1>1, <1>2, <1>3, Zenon
  <1> QED BY <1>4

LEMMA InvInit == ASSUME Init PROVE Inv
  <1>1. <<>> \in Seq(Entries \cup {Unset}) /\ Len(<<>>) = 0 /\ MaxUpdates \in Nat
    BY ServerListAssumption
  <1>2. TypeOK
    <2>1. /\ data \in [Workers -> Seq(Entries \cup {Unset})]
          /\ \A w \in Workers : i[w] = Len(data[w])
      BY <1>1 DEF Init
    <2>2. sent \in [Workers -> [cnt : Nat, list : Seq(Entries \cup {Unset})]]
      BY <1>1 DEF Init
    <2> QED BY <1>1, <2>1, <2>2 DEF Init, TypeOK
  <1>3. HeartInv /\ WorkerInv
    BY DEF Init, HeartInv, WorkerInv
  <1> QED BY <1>2, <1>3 DEF Inv

LEMMA SetCountKeeps == ASSUME Inv, NEW l \in Lists, SetCount(l) PROVE Inv'
  <1>1. l \in Seq(Entries) /\ Len(l) \in Nat
    BY ServerListAssumption
  <1>2. TypeOK'
    BY <1>1, ServerListAssumption DEF Inv, TypeOK, SetCount, workerVars
  <1>3. HeartInv'
    BY <1>1 DEF SetCount, HeartInv
  <1>4. WorkerInv'
    BY DEF SetCount, WorkerInv
  <1> QED BY <1>2, <1>3, <1>4 DEF Inv

LEMMA ClearKeeps == ASSUME Inv, Clear PROVE Inv'
  <1>1. TypeOK'
    BY DEF Inv, TypeOK, Clear, workerVars
  <1>2. HeartInv'
    BY DEF Inv, Clear, HeartInv
  <1>3. WorkerInv'
    BY DEF Inv, Clear, WorkerInv, workerVars
  <1> QED BY <1>1, <1>2, <1>3 DEF Inv

LEMMA MallocKeeps == ASSUME Inv, Malloc PROVE Inv'
  <1>1. update \in Seq(Entries) /\ Len(update) \in Nat
    BY UpdateIsList DEF Inv
  <1>2. servers_cnt \in Nat /\ servers_cnt >= 1
    BY <1>1 DEF Inv, HeartInv, Malloc
  <1>3. /\ servers' \in Seq(Entries \cup {Unset}) /\ Len(servers') = servers_cnt
        /\ filled' = 0
    BY <1>2 DEF Malloc
  <1>4. TypeOK'
    BY <1>2, <1>3 DEF Inv, TypeOK, Malloc, workerVars
  <1>5. HeartInv'
    BY <1>3 DEF Inv, Malloc, HeartInv
  <1>6. WorkerInv'
    BY DEF Inv, Malloc, WorkerInv, workerVars
  <1> QED BY <1>4, <1>5, <1>6 DEF Inv

LEMMA FillKeeps == ASSUME Inv, Fill PROVE Inv'
  <1>1. update \in Seq(Entries) /\ Len(update) \in Nat
    BY UpdateIsList DEF Inv
  <1>2. /\ hpc = "fill" /\ servers \in Seq(Entries \cup {Unset}) /\ servers_cnt \in Nat
        /\ Len(servers) = servers_cnt /\ servers_cnt = Len(update)
        /\ filled \in 0 .. servers_cnt - 1
    BY DEF Inv, TypeOK, HeartInv, Fill
  <1>3. /\ servers' \in Seq(Entries \cup {Unset}) /\ Len(servers') = servers_cnt
        /\ servers'[filled + 1] = update[filled + 1]
        /\ \A k \in 1 .. filled : servers'[k] = servers[k]
    BY <1>1, <1>2 DEF Fill
  <1>4. \A k \in 1 .. filled + 1 : servers'[k] = update[k]
    BY <1>2, <1>3 DEF Inv, HeartInv
  <1>5. filled' = filled + 1 /\ servers_cnt' = servers_cnt /\ update' = update
        /\ hpc' = IF filled' < servers_cnt THEN "fill" ELSE "recv"
    BY DEF Fill
  <1>6. TypeOK'
    BY <1>2, <1>3, <1>5 DEF Inv, TypeOK, Fill, workerVars
  <1>7. HeartInv'
    <2>1. CASE filled' < servers_cnt
      BY <1>2, <1>4, <1>5, <2>1 DEF Inv, HeartInv
    <2>2. CASE ~ (filled' < servers_cnt)
      <3>1. filled + 1 = Len(update)
        BY <1>2, <1>5, <2>2
      <3>2. servers' = update
        <4>1. update \in Seq(Entries \cup {Unset})
          BY <1>1
        <4> QED BY <1>2, <1>3, <1>4, <3>1, <4>1, SeqEqual
      <3> QED BY <1>2, <1>5, <2>2, <3>2 DEF HeartInv
    <2> QED BY <2>1, <2>2
  <1>8. WorkerInv'
    BY <1>2 DEF Inv, Fill, WorkerInv, workerVars
  <1> QED BY <1>6, <1>7, <1>8 DEF Inv

LEMMA BeginListKeeps == ASSUME Inv, NEW w \in Workers, BeginList(w) PROVE Inv'
  <1>1. TypeOK'
    BY SMTT(60) DEF Inv, TypeOK, BeginList
  <1>2. HeartInv'
    BY DEF Inv, HeartInv, BeginList
  <1>3. ASSUME NEW v \in Workers, v \notin overlap', wpc'[v] = "copy"
        PROVE  /\ hpc' = "recv" /\ total'[v] = Len(update') /\ i'[v] <= Len(update')
               /\ \A k \in 1 .. i'[v] : data'[v][k] = update'[k]
    <2>1. CASE v = w
      BY <1>3, <2>1, UpdateIsList DEF Inv, TypeOK, HeartInv, BeginList
    <2>2. CASE v # w
      BY <1>3, <2>2 DEF Inv, TypeOK, WorkerInv, BeginList
    <2> QED BY <2>1, <2>2
  <1> QED BY <1>1, <1>2, <1>3 DEF Inv, WorkerInv

LEMMA CopyEntryKeeps == ASSUME Inv, NEW w \in Workers, CopyEntry(w) PROVE Inv'
  <1>1. /\ wpc[w] = "copy" /\ i[w] < servers_cnt
        /\ UNCHANGED <<heartVars, total, sent>>
    BY DEF CopyEntry
  <1>2. HeartInv'
    BY <1>1 DEF Inv, HeartInv, heartVars
  <1>3. CASE servers = NULL
    <2>1. wpc' = [wpc EXCEPT ![w] = Crash] /\ UNCHANGED <<i, data>>
      BY <1>3 DEF CopyEntry
    <2>2. TypeOK'
      BY <1>1, <2>1 DEF Inv, TypeOK, heartVars
    <2>3. WorkerInv'
      BY <1>1, <2>1 DEF Inv, TypeOK, WorkerInv, heartVars, Crash
    <2> QED BY <1>2, <2>2, <2>3 DEF Inv
  <1>4. CASE servers # NULL
    <2> DEFINE e == IF i[w] < Len(servers) THEN servers[i[w] + 1] ELSE Unset
    <2>1. /\ servers \in Seq(Entries \cup {Unset}) /\ i[w] \in Nat /\ i[w] = Len(data[w])
          /\ data[w] \in Seq(Entries \cup {Unset})
      BY <1>4 DEF Inv, TypeOK
    <2>2. e \in Entries \cup {Unset}
      BY <2>1
    <2>3. /\ data' = [data EXCEPT ![w] = Append(@, e)]
          /\ i' = [i EXCEPT ![w] = @ + 1] /\ wpc' = wpc
      BY <1>4 DEF CopyEntry
    <2> HIDE DEF e
    <2>4. /\ data'[w] = Append(data[w], e) /\ i'[w] = i[w] + 1
          /\ \A v \in Workers \ {w} : data'[v] = data[v] /\ i'[v] = i[v]
      BY <2>3 DEF Inv, TypeOK
    <2>5. /\ Append(data[w], e) \in Seq(Entries \cup {Unset})
          /\ Len(Append(data[w], e)) = i[w] + 1 /\ Append(data[w], e)[i[w] + 1] = e
          /\ \A k \in 1 .. i[w] : Append(data[w], e)[k] = data[w][k]
      BY <2>1, <2>2
    <2>6. TypeOK'
      <3>1. data' \in [Workers -> Seq(Entries \cup {Unset})] /\ i' \in [Workers -> Nat]
        BY <2>1, <2>3, <2>5 DEF Inv, TypeOK
      <3>2. \A v \in Workers : i'[v] = Len(data'[v])
        BY <2>4, <2>5 DEF Inv, TypeOK
      <3> QED BY <1>1, <2>3, <3>1, <3>2 DEF Inv, TypeOK, heartVars
    <2>7. ASSUME NEW v \in Workers, v \notin overlap', wpc'[v] = "copy"
          PROVE  /\ hpc' = "recv" /\ total'[v] = Len(update') /\ i'[v] <= Len(update')
                 /\ \A k \in 1 .. i'[v] : data'[v][k] = update'[k]
      <3>1. /\ hpc = "recv" /\ total[v] = Len(update) /\ i[v] <= Len(update)
            /\ \A k \in 1 .. i[v] : data[v][k] = update[k]
        BY <1>1, <2>3, <2>7 DEF Inv, WorkerInv, heartVars
      <3>2. CASE v = w
        <4>1. servers = update /\ i[w] < Len(update) /\ Len(update) \in Nat
          BY <1>1, <2>1, <3>1, <3>2, UpdateIsList DEF Inv, HeartInv
        <4>2. e = update[i[w] + 1]
          BY <4>1 DEF e
        <4>3. \A k \in 1 .. i[w] + 1 : Append(data[w], e)[k] = update[k]
          BY <2>1, <2>5, <3>1, <3>2, <4>2
        <4>4. i[w] + 1 <= Len(update)
          BY <2>1, <4>1
        <4> QED BY <1>1, <2>4, <3>1, <3>2, <4>3, <4>4 DEF heartVars
      <3>3. CASE v # w
        BY <1>1, <2>4, <3>1, <3>3 DEF heartVars
      <3> QED BY <3>2, <3>3
    <2> QED BY <1>2, <2>6, <2>7 DEF Inv, WorkerInv
  <1> QED BY <1>3, <1>4

LEMMA SendListKeeps == ASSUME Inv, NEW w \in Workers, SendList(w) PROVE Inv'
  <1> DEFINE l == [k \in 1 .. total[w] |-> IF k <= Len(data[w]) THEN data[w][k] ELSE Unset]
  <1>1. total[w] \in Nat /\ data[w] \in Seq(Entries \cup {Unset}) /\ servers_cnt \in Nat
    BY DEF Inv, TypeOK
  <1>2. l \in Seq(Entries \cup {Unset})
    BY <1>1
  <1>3. sent' = [sent EXCEPT ![w] = [cnt |-> servers_cnt, list |-> l]]
        /\ wpc' = [wpc EXCEPT ![w] = "idle"] /\ UNCHANGED <<heartVars, total, i, data>>
    BY DEF SendList
  <1> HIDE DEF l
  <1>4. sent' \in [Workers -> [cnt : Nat, list : Seq(Entries \cup {Unset})]]
    BY <1>1, <1>2, <1>3 DEF Inv, TypeOK
  <1>5. TypeOK'
    BY <1>3, <1>4 DEF Inv, TypeOK, heartVars
  <1>6. HeartInv'
    BY <1>3 DEF Inv, HeartInv, heartVars
  <1>7. WorkerInv'
    BY <1>3 DEF Inv, TypeOK, WorkerInv, heartVars
  <1> QED BY <1>5, <1>6, <1>7 DEF Inv

LEMMA NextKeepsInv == ASSUME Inv, [Next]_vars PROVE Inv'
  <1>1. CASE UNCHANGED vars
    BY <1>1 DEF Inv, TypeOK, HeartInv, WorkerInv, vars, heartVars, workerVars
  <1> QED BY <1>1, SetCountKeeps, ClearKeeps, MallocKeeps, FillKeeps, BeginListKeeps,
             CopyEntryKeeps, SendListKeeps DEF Next

\* send_server_list and Thread_heartbeat keep the types of what they share, and
\* the heartbeat thread writes within its block, for all lists and workers
\* (src/dbserver.c 85-98, 319-333).
THEOREM TypeCorrect == Spec => []TypeOK
  <1>1. Inv => TypeOK
    BY DEF Inv
  <1> QED BY <1>1, InvInit, NextKeepsInv, PTL DEF Spec

\* The answer of a worker that no update has overtaken is the last list, whole
\* (src/dbserver.c 85-98), for all lists, workers and numbers of updates.
THEOREM SteadyAnswers == Spec => SteadyAnswer
  <1> DEFINE Steady == \A w \in Workers :
                 sent'[w] # sent[w] /\ w \notin overlap =>
                    sent'[w] = [cnt |-> Len(update), list |-> update]
  <1>1. ASSUME Inv, [Next]_vars PROVE [Steady]_vars
    <2>1. ASSUME NEW v \in Workers, SendList(v) PROVE Steady
      <3>1. ASSUME NEW w \in Workers, sent'[w] # sent[w], w \notin overlap
            PROVE  sent'[w] = [cnt |-> Len(update), list |-> update]
        <4>1. w = v /\ wpc[w] = "copy" /\ i[w] >= servers_cnt
          BY <1>1, <2>1, <3>1 DEF Inv, TypeOK, SendList
        <4>2. /\ total[w] = Len(update) /\ i[w] <= Len(update) /\ i[w] = Len(data[w])
              /\ \A k \in 1 .. i[w] : data[w][k] = update[k]
              /\ servers_cnt = Len(update) /\ i[w] \in Nat
          BY <1>1, <3>1, <4>1 DEF Inv, WorkerInv, HeartInv, TypeOK
        <4>3. update \in Seq(Entries) /\ Len(update) \in Nat
          BY <1>1, UpdateIsList DEF Inv
        <4>4. i[w] = Len(update)
          BY <4>1, <4>2, <4>3
        <4>5. update = [k \in 1 .. total[w] |->
                          IF k <= Len(data[w]) THEN data[w][k] ELSE Unset]
          <5>1. update = [k \in 1 .. Len(update) |-> update[k]]
            BY <4>3
          <5> QED BY <4>2, <4>4, <5>1
        <4> QED BY <1>1, <2>1, <4>1, <4>2, <4>5 DEF SendList, Inv, TypeOK
      <3> QED BY <3>1
    <2>2. CASE sent' = sent
      BY <2>2
    <2>3. CASE UNCHANGED vars
      BY <2>3
    <2> QED BY <1>1, <2>1, <2>2, <2>3
            DEF Next, SetCount, Clear, Malloc, Fill, BeginList, CopyEntry, workerVars
  <1> QED BY <1>1, InvInit, NextKeepsInv, PTL DEF Spec, SteadyAnswer
=============================================================================
