------------------------------- MODULE Channel -------------------------------
(***************************************************************************)
(* Messages over a connection: SendMsg and RecvMsg (src/network.c 230-245) *)
(* and the AnalyseMsg that follows every RecvMsg, as in Thread_heartbeat   *)
(* (src/dbserver.c 312-313).  TCP keeps the order of the bytes and not the *)
(* limits of the sends, and what a recv does not overwrite stays in the    *)
(* buffer of the receiver.                                                 *)
(***************************************************************************)
EXTENDS Protocol, SequencesExt

CONSTANTS
    Sent,           \* the messages that are sent
    BUFFER_SIZE,    \* cells in the buffer of the receiver
    MaxSent         \* bound

ASSUME ChannelAssumption ==
    /\ (\A m \in Sent : IsMessage(m)) /\ MaxSent \in Nat
    /\ BUFFER_SIZE \in Nat \ {0} /\ \A m \in Sent : Len(Create(m)) <= BUFFER_SIZE

VARIABLES
    sent,       \* the messages sent, in order
    inFlight,   \* the sends not received yet, and what is left of the first
    buffer,     \* the buffer of the receiver
    analysed,   \* the messages it took them for, in order
    fault,      \* AnalyseMsg has left the buffer
    merged, cut \* history: a recv has returned several sends; a part of one

vars == <<sent, inFlight, buffer, analysed, fault, merged, cut>>

Init ==
    /\ sent = <<>> /\ inFlight = <<>> /\ analysed = <<>>
    /\ buffer = [i \in 1 .. BUFFER_SIZE |-> 0]
    /\ fault = FALSE /\ merged = FALSE /\ cut = FALSE

SendMsg(m) ==
    /\ Len(sent) < MaxSent
    /\ sent' = Append(sent, m)
    /\ inFlight' = Append(inFlight, Create(m))
    /\ UNCHANGED <<buffer, analysed, fault, merged, cut>>

\* The cells that a recv returns go to the start of the buffer, and the buffer is
\* analysed.
Take(cells) ==
    /\ Len(cells) <= BUFFER_SIZE
    /\ buffer' = cells \o SubSeq(buffer, Len(cells) + 1, BUFFER_SIZE)
    /\ IF Analysable(buffer')
       THEN analysed' = Append(analysed, AnalyseMsg(buffer')) /\ UNCHANGED fault
       ELSE fault' = TRUE /\ UNCHANGED analysed
    /\ UNCHANGED sent

\* One send,
RecvMsg ==
    /\ inFlight # <<>>
    /\ Take(Head(inFlight))
    /\ inFlight' = Tail(inFlight)
    /\ UNCHANGED <<merged, cut>>

\* several that have come together,
RecvMerged ==
    /\ \E n \in 2 .. Len(inFlight) :
          /\ Take(FlattenSeq(SubSeq(inFlight, 1, n)))
          /\ inFlight' = SubSeq(inFlight, n + 1, Len(inFlight))
    /\ merged' = TRUE /\ UNCHANGED cut

\* or the beginning of a send, or of what is left of it.
RecvPart ==
    /\ inFlight # <<>>
    /\ \E n \in 1 .. Len(Head(inFlight)) - 1 :
          /\ Take(SubSeq(Head(inFlight), 1, n))
          /\ inFlight' = <<SubSeq(Head(inFlight), n + 1, Len(Head(inFlight)))>>
                             \o Tail(inFlight)
    /\ cut' = TRUE /\ UNCHANGED merged

Next ==
    /\ ~ fault
    /\ \/ \E m \in Sent : SendMsg(m)
       \/ RecvMsg \/ RecvMerged \/ RecvPart

Spec == Init /\ [][Next]_vars

-----------------------------------------------------------------------------
(* Properties.                                                             *)

\* As long as every recv returns what one send wrote, every message is analysed
\* once, for what it is and in its turn, whatever longer messages have left in the
\* buffer.
EachInTurn ==
    ~ merged /\ ~ cut => analysed = SubSeq(sent, 1, Len(sent) - Len(inFlight))

\* As long as no message has come in parts, some that came together are passed over
\* (network.c:241 reads them and AnalyseMsg sees the first), but what is analysed has
\* been sent, whole and in that order.
InOrder ==
    ~ cut =>
    /\ ~ fault
    /\ \E at \in [1 .. Len(analysed) -> 1 .. Len(sent)] :
          /\ \A i \in DOMAIN at : analysed[i] = sent[at[i]]
          /\ \A i, j \in DOMAIN at : i < j => at[i] < at[j]

\* A receiver that has been led astray by parts of messages reads the next one
\* that it finds from its beginning for what it is (no length is kept between two
\* recvs).
ReadsNext ==
    LET first == Len(sent) - Len(inFlight) + 1
    IN  Len(inFlight') < Len(inFlight) /\ Head(inFlight) = Create(sent[first]) =>
            ~ fault' /\ Last(analysed') = sent[first]
Resynchronises == [][ReadsNext]_vars
=============================================================================
