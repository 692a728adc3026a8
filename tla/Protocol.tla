------------------------------- MODULE Protocol -------------------------------
(***************************************************************************)
(* The layout of messages, src/protocol.c: a code and up to two fields,    *)
(* each behind its size, one after the other in a buffer.  A cell of a     *)
(* buffer holds an int, a size included, or one datum of a field.          *)
(***************************************************************************)
EXTENDS Integers, Sequences

\* src/protocol.h 19-40: the codes that carry one field and two; EXIT and
\* MASTER_OK, which AnalyseMsg does not list, and all others carry none.
OPEN == 1
PUT == 3
GET == 4
DELETE == 5
GET_OK == -4
NEW_SERVER == 100
SERVER_LIST_OK == 102
UPDATE_SERVER_LIST == 1000

OneField  == {OPEN, GET, GET_OK, DELETE, NEW_SERVER}
TwoFields == {PUT, SERVER_LIST_OK, UPDATE_SERVER_LIST}

Msg(code, data1, data2) == [code |-> code, data1 |-> data1, data2 |-> data2]

\* Mutant: the size of the field is left out.
CreateMsg1Bare(code, data1) == <<code>> \o data1

\* Mutant: both sizes are that of the first field.
CreateMsg2FirstSize(code, data1, data2) ==
    <<code, Len(data1)>> \o data1 \o <<Len(data1)>> \o data2

CreateMsg0(code)               == <<code>>
CreateMsg1(code, data1)        == <<code, Len(data1)>> \o data1
CreateMsg2(code, data1, data2) == <<code, Len(data1)>> \o data1 \o <<Len(data2)>> \o data2

\* What a sender puts into its buffer for a message.
Create(m) ==
    CASE m.code \in OneField  -> CreateMsg1(m.code, m.data1)
      [] m.code \in TwoFields -> CreateMsg2(m.code, m.data1, m.data2)
      [] OTHER                -> CreateMsg0(m.code)

\* The messages a sender has: fields as the code wants them.
IsMessage(m) ==
    /\ m = Msg(m.code, m.data1, m.data2)
    /\ m.code \in Int /\ m.data1 \in Seq(Int) /\ m.data2 \in Seq(Int)
    /\ m.code \notin TwoFields => m.data2 = <<>>
    /\ m.code \notin OneField \cup TwoFields => m.data1 = <<>>

\* The field whose size is in cell p.
Field(buf, p) == SubSeq(buf, p + 1, p + buf[p])

\* AnalyseMsg stays within the buffer.
InBuffer(buf, p) == p \in DOMAIN buf /\ buf[p] >= 0 /\ p + buf[p] <= Len(buf)
Analysable(buf) ==
    /\ buf[1] \in OneField \cup TwoFields => InBuffer(buf, 2)
    /\ buf[1] \in TwoFields => InBuffer(buf, 3 + buf[2])

\* Mutant: the second field is taken from its size on.
AnalyseMsgSize(buf) ==
    CASE buf[1] \in OneField  -> Msg(buf[1], Field(buf, 2), <<>>)
      [] buf[1] \in TwoFields ->
            Msg(buf[1], Field(buf, 2), SubSeq(buf, 3 + buf[2], 2 + buf[2] + buf[3 + buf[2]]))
      [] OTHER                -> Msg(buf[1], <<>>, <<>>)

AnalyseMsg(buf) ==
    CASE buf[1] \in OneField  -> Msg(buf[1], Field(buf, 2), <<>>)
      [] buf[1] \in TwoFields -> Msg(buf[1], Field(buf, 2), Field(buf, 3 + buf[2]))
      [] OTHER                -> Msg(buf[1], <<>>, <<>>)
=============================================================================
