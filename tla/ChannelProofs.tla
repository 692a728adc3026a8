---------------------------- MODULE ChannelProofs ----------------------------
(***************************************************************************)
(* AnalyseMsg undoes Create, whatever follows the message in the buffer.   *)
(* So every message that a recv returns by itself is analysed for what it  *)
(* is and in its turn; of those that come together one is, and the others  *)
(* are passed over; and a part of a message does no lasting harm.          *)
(***************************************************************************)
EXTENDS Channel, SequenceFacts

-----------------------------------------------------------------------------
(* Messages in a buffer.                                                   *)

\* d stands in buf behind its size, which is in cell p.
FieldAt(buf, p, d) ==
    /\ buf \in Seq(Int) /\ p \in 1 .. Len(buf)
    /\ buf[p] = Len(d) /\ p + Len(d) <= Len(buf)
    /\ \A k \in 1 .. Len(d) : buf[p + k] = d[k]

\* A field that stands in the buffer is read back, within the buffer.
LEMMA FieldIsRead ==
    ASSUME NEW d \in Seq(Int), NEW buf, NEW p, FieldAt(buf, p, d)
    PROVE  Field(buf, p) = d /\ InBuffer(buf, p)
  <1>1. /\ buf \in Seq(Int) /\ p \in Nat /\ p >= 1 /\ Len(d) \in Nat
        /\ buf[p] = Len(d) /\ p + Len(d) <= Len(buf)
    BY DEF FieldAt
  <1>2. /\ SubSeq(buf, p + 1, p + Len(d)) \in Seq(Int)
        /\ Len(SubSeq(buf, p + 1, p + Len(d))) = Len(d)
        /\ \A k \in 1 .. Len(d) : SubSeq(buf, p + 1, p + Len(d))[k] = buf[p + k]
    <2>1. PICK n \in Nat : n = Len(d)
      BY <1>1
    <2>2. PICK a \in Int : a = p + 1
      BY <1>1
    <2>3. PICK b \in Int : b = p + n
      BY <1>1
    <2>4. PICK q : q = SubSeq(buf, a, b)
      OBVIOUS
    <2>5. \A i \in a .. b : buf[i] \in Int
      <3>1. \A i \in a .. b : i \in 1 .. Len(buf)
        <4>1. PICK l \in Nat : l = Len(buf)
          BY <1>1
        <4>2. p \in Nat /\ p >= 1 /\ p + n <= l
          BY <1>1, <2>1, <4>1
        <4>3. \A i \in a .. b : i \in 1 .. l
          BY <2>2, <2>3, <4>2
        <4> QED BY <4>1, <4>3
      <3> QED BY <1>1, <3>1
    <2>6. /\ q \in Seq(Int) /\ Len(q) = IF a <= b THEN b - a + 1 ELSE 0
          /\ \A i \in 1 .. b - a + 1 : q[i] = buf[a + i - 1]
      BY <2>4, <2>5, SubSeqProperties
    <2>7. b - a + 1 = n /\ (a <= b \/ n = 0)
      BY <1>1, <2>2, <2>3
    <2>8. Len(q) = n
      BY <2>6, <2>7
    <2>9. ASSUME NEW k \in 1 .. n PROVE q[k] = buf[p + k]
      <3>1. k \in 1 .. b - a + 1 /\ a + k - 1 = p + k
        BY <1>1, <2>2, <2>7
      <3> QED BY <2>6, <3>1
    <2>10. q = SubSeq(buf, p + 1, p + Len(d))
      BY <2>1, <2>2, <2>3, <2>4
    <2> QED BY <2>1, <2>6, <2>8, <2>9, <2>10
  <1>3. \A k \in 1 .. Len(d) : SubSeq(buf, p + 1, p + Len(d))[k] = d[k]
    BY <1>2 DEF FieldAt
  <1>4. SubSeq(buf, p + 1, p + Len(d)) = d
    BY <1>2, <1>3, SeqEqual
  <1> QED BY <1>1, <1>4 DEF Field, InBuffer

\* The buffer that CreateMsg1 has filled.
LEMMA OneFieldStands ==
    ASSUME NEW c \in Int, NEW d \in Seq(Int), NEW rest \in Seq(Int),
           NEW buf, buf = CreateMsg1(c, d) \o rest
    PROVE  buf[1] = c /\ FieldAt(buf, 2, d)
  <1>1. /\ buf \in Seq(Int) /\ Len(buf) = 2 + Len(d) + Len(rest)
        /\ buf[1] = c /\ buf[2] = Len(d)
    BY SMTT(60) DEF CreateMsg1
  <1>2. \A k \in 1 .. Len(d) : buf[2 + k] = d[k]
    BY SMTT(60) DEF CreateMsg1
  <1> QED BY <1>1, <1>2, SMTT(40) DEF FieldAt

\* The buffer that CreateMsg2 has filled.
LEMMA TwoFieldsStand ==
    ASSUME NEW c \in Int, NEW d \in Seq(Int), NEW e \in Seq(Int), NEW rest \in Seq(Int),
           NEW buf, buf = CreateMsg2(c, d, e) \o rest
    PROVE  buf[1] = c /\ FieldAt(buf, 2, d) /\ FieldAt(buf, 3 + Len(d), e)
  <1>1. /\ buf \in Seq(Int) /\ Len(buf) = 3 + Len(d) + Len(e) + Len(rest)
        /\ buf[1] = c /\ buf[2] = Len(d) /\ buf[3 + Len(d)] = Len(e)
    BY SMTT(60) DEF CreateMsg2
  <1>2. \A k \in 1 .. Len(d) : buf[2 + k] = d[k]
    BY SMTT(60) DEF CreateMsg2
  <1>3. \A k \in 1 .. Len(e) : buf[3 + Len(d) + k] = e[k]
    BY SMTT(60) DEF CreateMsg2
  <1>4. /\ 2 \in 1 .. Len(buf) /\ 2 + Len(d) <= Len(buf)
        /\ 3 + Len(d) \in 1 .. Len(buf) /\ 3 + Len(d) + Len(e) <= Len(buf)
    <2> DEFINE ld == Len(d)
               le == Len(e)
               lr == Len(rest)
               lb == Len(buf)
    <2>1. ld \in Nat /\ le \in Nat /\ lr \in Nat /\ lb = 3 + ld + le + lr
      BY <1>1, SMTT(40)
    <2> HIDE DEF ld, le, lr, lb
    <2>2. /\ 2 \in 1 .. lb /\ 2 + ld <= lb
          /\ 3 + ld \in 1 .. lb /\ 3 + ld + le <= lb
      BY <2>1
    <2> QED BY <2>2 DEF ld, le, lb
  <1>5. FieldAt(buf, 2, d)
    BY <1>1, <1>2, <1>4, Zenon DEF FieldAt
  <1>6. FieldAt(buf, 3 + Len(d), e)
    BY <1>1, <1>3, <1>4, Zenon DEF FieldAt
  <1> QED BY <1>1, <1>5, <1>6

\* src/protocol.c 56-91 against 22-51: a receiver takes a message for what it
\* is, and stays in its buffer, whatever the fields hold and whatever lies behind
\* the message: another one, or what an earlier one has left.
THEOREM AnalyseUndoesCreate ==
    ASSUME NEW m, IsMessage(m), NEW rest \in Seq(Int), NEW buf, buf = Create(m) \o rest
    PROVE  Analysable(buf) /\ AnalyseMsg(buf) = m
  <1>1. /\ m.code \in Int /\ m.data1 \in Seq(Int) /\ m.data2 \in Seq(Int)
        /\ m = Msg(m.code, m.data1, m.data2)
        /\ m.code \notin TwoFields => m.data2 = <<>>
        /\ m.code \notin OneField \cup TwoFields => m.data1 = <<>>
    BY DEF IsMessage
  <1>2. OneField \cap TwoFields = {}
    BY DEF OneField, TwoFields, OPEN, GET, GET_OK, DELETE, NEW_SERVER, PUT,
           SERVER_LIST_OK, UPDATE_SERVER_LIST
  <1>3. CASE m.code \in OneField
    <2>1. buf = CreateMsg1(m.code, m.data1) \o rest
      BY <1>2, <1>3 DEF Create
    <2>2. buf[1] = m.code /\ FieldAt(buf, 2, m.data1)
      BY <1>1, <2>1, OneFieldStands
    <2>3. Field(buf, 2) = m.data1 /\ InBuffer(buf, 2)
      BY <1>1, <2>2, FieldIsRead
    <2> QED BY <1>1, <1>2, <1>3, <2>2, <2>3 DEF Analysable, AnalyseMsg
  <1>4. CASE m.code \in TwoFields
    <2>1. ASSUME NEW c \in Int, NEW d \in Seq(Int), NEW e \in Seq(Int),
                 buf = CreateMsg2(c, d, e) \o rest
          PROVE  buf[1] = c /\ FieldAt(buf, 2, d) /\ FieldAt(buf, 3 + Len(d), e)
      BY <2>1, TwoFieldsStand
    <2>2. buf = CreateMsg2(m.code, m.data1, m.data2) \o rest
      BY <1>2, <1>4 DEF Create
    <2>3. /\ buf[1] = m.code
          /\ FieldAt(buf, 2, m.data1) /\ FieldAt(buf, 3 + Len(m.data1), m.data2)
      BY <1>1, <2>1, <2>2, Zenon
    <2>4. buf[2] = Len(m.data1)
      BY <2>3 DEF FieldAt
    <2>5. /\ Field(buf, 2) = m.data1 /\ InBuffer(buf, 2)
          /\ Field(buf, 3 + buf[2]) = m.data2 /\ InBuffer(buf, 3 + buf[2])
      BY <1>1, <2>3, <2>4, FieldIsRead
    <2> QED BY <1>1, <1>2, <1>4, <2>3, <2>5 DEF Analysable, AnalyseMsg
  <1>5. CASE m.code \notin OneField \cup TwoFields
    <2>1. buf[1] = m.code
      BY <1>1, <1>5 DEF Create, CreateMsg0
    <2> QED BY <1>1, <1>5, <2>1 DEF Analysable, AnalyseMsg
  <1> QED BY <1>3, <1>4, <1>5

-----------------------------------------------------------------------------
(* What a recv returns.                                                    *)

\* The recursion of FlattenSeq, up to n.
Joins(f, s, n) == f = [i \in 1 .. n |-> IF i = 1 THEN s[i] ELSE f[i - 1] \o s[i]]

\* The recursion has a solution.
LEMMA JoinExists ==
    ASSUME NEW s \in Seq(Seq(Int)), NEW n \in Nat
    PROVE  \E f : Joins(f, s, n)
  <1> DEFINE Wrong == {k \in Nat : ~ \E f : Joins(f, s, k)}
  <1>1. SUFFICES ASSUME Wrong # {} PROVE FALSE
    OBVIOUS
  <1>2. PICK k \in Wrong : \A j \in Wrong : k <= j
    BY <1>1, LeastNatural, Zenon
  <1>3. CASE k = 0
    <2>1. Joins([i \in 1 .. 0 |-> 0], s, 0)
      BY DEF Joins
    <2> QED BY <1>2, <1>3, <2>1
  <1>4. CASE k # 0
    <2>1. k \in Nat /\ k - 1 \in Nat /\ k - 1 \notin Wrong
      BY <1>2, <1>4
    <2>2. PICK f : Joins(f, s, k - 1)
      BY <2>1
    <2> DEFINE g == [i \in 1 .. k |-> IF i = 1 THEN s[i] ELSE f[i - 1] \o s[i]]
    <2>3. ASSUME NEW i \in 1 .. k - 1 PROVE g[i] = f[i]
      <3>1. i \in 1 .. k
        BY <2>1
      <3>2. g[i] = IF i = 1 THEN s[i] ELSE f[i - 1] \o s[i]
        BY <3>1, Zenon
      <3>3. f[i] = IF i = 1 THEN s[i] ELSE f[i - 1] \o s[i]
        BY <2>2, Zenon DEF Joins
      <3> QED BY <3>2, <3>3, Zenon
    <2> HIDE DEF g
    <2>4. \A i \in 1 .. k : i # 1 => g[i - 1] = f[i - 1]
      <3>1. \A i \in 1 .. k : i # 1 => i - 1 \in 1 .. k - 1
        BY <2>1
      <3> QED BY <2>3, <3>1, Zenon
    <2> USE DEF g
    <2>5. g = [i \in 1 .. k |-> IF i = 1 THEN s[i] ELSE g[i - 1] \o s[i]]
      BY <2>4
    <2>6. Joins(g, s, k)
      BY <2>5, Zenon DEF Joins
    <2> QED BY <1>2, <2>6
  <1> QED BY <1>3, <1>4

\* Joining three sequences of cells.
LEMMA JoinAssociates ==
    ASSUME NEW a \in Seq(Int), NEW b \in Seq(Int), NEW c \in Seq(Int)
    PROVE  (a \o b) \o c = a \o (b \o c)
  BY ConcatAssociative, SMTT(30)

\* Sends that come together begin with the first of them.
LEMMA FlattenBegins ==
    ASSUME NEW s \in Seq(Seq(Int)), Len(s) >= 1
    PROVE  \E rest \in Seq(Int) : FlattenSeq(s) = s[1] \o rest
  <1> DEFINE n == Len(s)
             F == CHOOSE f : Joins(f, s, n)
             Wrong == {k \in Nat : k \in 1 .. n /\ ~ \E rest \in Seq(Int) : F[k] = s[1] \o rest}
  <1>1. n \in Nat /\ n >= 1 /\ \A k \in 1 .. n : s[k] \in Seq(Int)
    OBVIOUS
  <1>2. Joins(F, s, n)
    BY <1>1, JoinExists, Zenon
  <1>3. FlattenSeq(s) = F[n]
    BY <1>1 DEF FlattenSeq, Joins
  <1>4. \A k \in 1 .. n : F[k] = IF k = 1 THEN s[k] ELSE F[k - 1] \o s[k]
    <2> HIDE DEF F, n
    <2> QED BY <1>2, Zenon DEF Joins
  <1> HIDE DEF F, n
  <1>5. Wrong = {}
    <2>1. SUFFICES ASSUME Wrong # {} PROVE FALSE
      OBVIOUS
    <2>2. PICK k \in Wrong : \A j \in Wrong : k <= j
      BY <2>1, LeastNatural, Zenon
    <2>3. CASE k = 1
      <3>1. F[1] = s[1] \o <<>>
        BY <1>1, <1>4
      <3>2. <<>> \in Seq(Int)
        OBVIOUS
      <3> QED BY <2>2, <2>3, <3>1, <3>2
    <2>4. CASE k # 1
      <3>1. k - 1 \in 1 .. n /\ k \in 1 .. n /\ k - 1 \notin Wrong
        <4>1. k \in 1 .. n
          BY <2>2, Zenon
        <4>2. k - 1 \in 1 .. n /\ ~ (k <= k - 1)
          BY <1>1, <2>4, <4>1
        <4> HIDE DEF Wrong
        <4> QED BY <2>2, <4>1, <4>2, Zenon
      <3>2. PICK rest \in Seq(Int) : F[k - 1] = s[1] \o rest
        <4>1. k - 1 \in Nat
          BY <3>1
        <4> QED BY <3>1, <4>1
      <3>3. F[k] = s[1] \o (rest \o s[k])
        <4>1. F[k] = (s[1] \o rest) \o s[k]
          BY <1>4, <2>4, <3>1, <3>2, Zenon
        <4>2. s[1] \in Seq(Int) /\ s[k] \in Seq(Int)
          BY <1>1, <3>1
        <4> HIDE DEF Wrong
        <4> QED BY <4>1, <4>2, JoinAssociates, Zenon
      <3>4. rest \o s[k] \in Seq(Int)
        BY <1>1, <3>1
      <3> QED BY <2>2, <3>1, <3>3, <3>4
    <2> QED BY <2>3, <2>4
  <1>6. n \in Nat /\ n \in 1 .. n
    BY <1>1
  <1> QED BY <1>3, <1>5, <1>6, Zenon

\* A message in a buffer is a sequence of cells.
LEMMA CreateType ==
    ASSUME NEW m, IsMessage(m)
    PROVE  Create(m) \in Seq(Int)
  <1>1. m.code \in Int /\ m.data1 \in Seq(Int) /\ m.data2 \in Seq(Int)
    BY DEF IsMessage
  <1>2. \A c \in Int, d, e \in Seq(Int) :
           /\ CreateMsg0(c) \in Seq(Int) /\ CreateMsg1(c, d) \in Seq(Int)
           /\ CreateMsg2(c, d, e) \in Seq(Int)
    BY DEF CreateMsg0, CreateMsg1, CreateMsg2
  <1> QED BY <1>1, <1>2 DEF Create

\* A prefix that grows by the next element.
LEMMA PrefixGrows ==
    ASSUME NEW S, NEW s \in Seq(S), NEW k \in 1 .. Len(s)
    PROVE  Append(SubSeq(s, 1, k - 1), s[k]) = SubSeq(s, 1, k)
  <1> DEFINE a == Append(SubSeq(s, 1, k - 1), s[k])
             b == SubSeq(s, 1, k)
  <1>1. a \in Seq(S) /\ b \in Seq(S) /\ Len(a) = Len(b)
    OBVIOUS
  <1>2. \A i \in 1 .. Len(a) : a[i] = b[i]
    OBVIOUS
  <1> HIDE DEF a, b
  <1>3. a = b
    BY <1>1, <1>2, SeqEqual
  <1> QED BY <1>3 DEF a, b

-----------------------------------------------------------------------------
(* The invariant.                                                          *)

\* What AnalyseMsg may return for any cells.
AnyMessage == [code : Int, data1 : Seq(Int), data2 : Seq(Int)]

\* Types, which no cut disturbs.
Typed ==
    /\ sent \in Seq(Sent) /\ inFlight \in Seq(Seq(Int)) /\ Len(inFlight) <= Len(sent)
    /\ buffer \in Seq(Int) /\ Len(buffer) = BUFFER_SIZE
    /\ analysed \in Seq(AnyMessage)
    /\ fault \in BOOLEAN /\ merged \in BOOLEAN /\ cut \in BOOLEAN

\* The messages received so far.
Behind == Len(sent) - Len(inFlight)

\* What has not been received is what Create made of the messages sent last.
Whole == \A i \in 1 .. Len(inFlight) : inFlight[i] = Create(sent[Behind + i])

\* The messages analysed are among those received, in their order.
Picks(at) ==
    /\ at \in [1 .. Len(analysed) -> 1 .. Behind]
    /\ \A i \in 1 .. Len(analysed) : analysed[i] = sent[at[i]]
    /\ \A i, j \in 1 .. Len(analysed) : i < j => at[i] < at[j]
Picked == ~ fault /\ \E at : Picks(at)

Inv ==
    /\ Typed
    /\ ~ cut => Whole /\ Picked
    /\ ~ merged /\ ~ cut => analysed = SubSeq(sent, 1, Behind)

\* The initial states satisfy it.
LEMMA InvInit == Init => Inv
  <1> SUFFICES ASSUME Init PROVE Inv
    OBVIOUS
  <1>1. buffer \in Seq(Int) /\ Len(buffer) = BUFFER_SIZE
    BY ChannelAssumption DEF Init
  <1>2. /\ sent \in Seq(Sent) /\ inFlight \in Seq(Seq(Int)) /\ analysed \in Seq(AnyMessage)
        /\ Len(inFlight) = 0 /\ Len(sent) = 0 /\ Len(analysed) = 0
    BY DEF Init
  <1>3. Typed
    <2>1. fault \in BOOLEAN /\ merged \in BOOLEAN /\ cut \in BOOLEAN
      BY Zenon DEF Init
    <2>2. Len(inFlight) <= Len(sent)
      BY <1>2
    <2> QED BY <1>1, <1>2, <2>1, <2>2, Zenon DEF Typed
  <1>4. Whole
    BY <1>2 DEF Whole
  <1>5. Picks([i \in 1 .. 0 |-> 1])
    BY <1>2 DEF Picks
  <1>6. Picked
    BY <1>5 DEF Picked, Init
  <1>7. analysed = SubSeq(sent, 1, Behind)
    BY <1>2 DEF Init, Behind
  <1> QED BY <1>3, <1>4, <1>6, <1>7 DEF Inv

-----------------------------------------------------------------------------
(* Sending.                                                                *)

LEMMA SendKeepsInv ==
    ASSUME Inv, NEW m \in Sent, SendMsg(m)
    PROVE  Inv'
  <1>1. IsMessage(m) /\ Create(m) \in Seq(Int)
    BY ChannelAssumption, CreateType
  <1>2. /\ sent' = Append(sent, m) /\ inFlight' = Append(inFlight, Create(m))
        /\ buffer' = buffer /\ analysed' = analysed /\ fault' = fault
        /\ merged' = merged /\ cut' = cut
    BY DEF SendMsg
  <1>3. Typed
    BY DEF Inv
  <1>4. /\ sent' \in Seq(Sent) /\ inFlight' \in Seq(Seq(Int))
        /\ Len(sent') = Len(sent) + 1 /\ Len(inFlight') = Len(inFlight) + 1
        /\ Len(sent) \in Nat /\ Len(inFlight) \in Nat
        /\ \A j \in 1 .. Len(sent) : sent'[j] = sent[j]
        /\ \A j \in 1 .. Len(inFlight) : inFlight'[j] = inFlight[j]
        /\ sent'[Len(sent) + 1] = m /\ inFlight'[Len(inFlight) + 1] = Create(m)
    BY <1>1, <1>2, <1>3 DEF Typed
  <1>5. Behind' = Behind /\ Behind \in 0 .. Len(sent)
    BY <1>3, <1>4 DEF Behind, Typed
  <1>6. Typed'
    BY <1>2, <1>3, <1>4 DEF Typed
  <1>7. ASSUME Whole PROVE Whole'
    <2>1. ASSUME NEW i \in 1 .. Len(inFlight')
          PROVE  inFlight'[i] = Create(sent'[Behind + i])
      <3>1. CASE i = Len(inFlight) + 1
        <4>1. Behind + i = Len(sent) + 1
          BY <1>4, <3>1 DEF Behind
        <4> QED BY <1>4, <3>1, <4>1
      <3>2. CASE i # Len(inFlight) + 1
        <4>1. i \in 1 .. Len(inFlight) /\ Behind + i \in 1 .. Len(sent)
          BY <1>4, <1>5, <3>2 DEF Behind
        <4> QED BY <1>4, <1>7, <4>1 DEF Whole
      <3> QED BY <3>1, <3>2
    <2> QED BY <1>5, <2>1 DEF Whole
  <1>8. ASSUME Picked PROVE Picked'
    <2>1. PICK at : Picks(at)
      BY <1>8 DEF Picked
    <2>2. \A i \in 1 .. Len(analysed) : at[i] \in 1 .. Len(sent)
      <3>1. at \in [1 .. Len(analysed) -> 1 .. Behind]
        BY <2>1 DEF Picks
      <3>2. \A i \in 1 .. Len(analysed) : at[i] \in 1 .. Behind
        BY <3>1
      <3>3. \A x \in 1 .. Behind : x \in 1 .. Len(sent)
        BY <1>4, <1>5
      <3> QED BY <3>2, <3>3, Zenon
    <2>3. Picks(at)'
      BY <1>2, <1>4, <1>5, <2>1, <2>2 DEF Picks
    <2> QED BY <1>2, <1>8, <2>3 DEF Picked
  <1>9. SubSeq(sent', 1, Behind) = SubSeq(sent, 1, Behind)
    <2>1. \A k \in 0 .. Len(sent) : SubSeq(Append(sent, m), 1, k) = SubSeq(sent, 1, k)
      BY <1>3 DEF Typed
    <2> QED BY <1>2, <1>5, <2>1
  <1> QED BY <1>2, <1>5, <1>6, <1>7, <1>8, <1>9 DEF Inv

-----------------------------------------------------------------------------
(* Receiving.                                                              *)

\* Whatever cells come, the buffer keeps its size and what is analysed its type.
LEMMA TakeTyped ==
    ASSUME Typed, NEW cells \in Seq(Int), Take(cells)
    PROVE  /\ buffer' \in Seq(Int) /\ Len(buffer') = BUFFER_SIZE
           /\ analysed' \in Seq(AnyMessage) /\ fault' \in BOOLEAN /\ sent' = sent
  <1> DEFINE rest == SubSeq(buffer, Len(cells) + 1, BUFFER_SIZE)
  <1>1. Len(cells) \in Nat /\ Len(cells) <= BUFFER_SIZE /\ BUFFER_SIZE \in Nat /\ BUFFER_SIZE >= 1
    BY ChannelAssumption DEF Take
  <1>2. rest \in Seq(Int) /\ Len(rest) = BUFFER_SIZE - Len(cells)
    BY <1>1 DEF Typed
  <1> HIDE DEF rest
  <1>3. buffer' = cells \o rest
    BY DEF Take, rest
  <1>4. buffer' \in Seq(Int) /\ Len(buffer') = BUFFER_SIZE
    BY <1>1, <1>2, <1>3
  <1>5. ASSUME Analysable(buffer') PROVE AnalyseMsg(buffer') \in AnyMessage
    <2>1. PICK b \in Seq(Int) : b = buffer' /\ Len(b) >= 1
      BY <1>1, <1>4
    <2>2. b[1] \in Int /\ <<>> \in Seq(Int)
      BY <2>1
    <2>3. ASSUME NEW p, InBuffer(b, p) PROVE Field(b, p) \in Seq(Int)
      <3>1. p \in 1 .. Len(b) /\ b[p] \in Nat /\ p + b[p] <= Len(b)
        BY <2>3 DEF InBuffer
      <3> QED BY <3>1 DEF Field
    <2>4. b[1] \in OneField \cup TwoFields => Field(b, 2) \in Seq(Int)
      BY <1>5, <2>1, <2>3 DEF Analysable
    <2>5. b[1] \in TwoFields => Field(b, 3 + b[2]) \in Seq(Int)
      BY <1>5, <2>1, <2>3 DEF Analysable
    <2> QED BY <2>1, <2>2, <2>4, <2>5 DEF AnalyseMsg, AnyMessage, Msg
  <1>6. analysed' \in Seq(AnyMessage) /\ fault' \in BOOLEAN /\ sent' = sent
    <2>1. CASE Analysable(buffer')
      <3>1. analysed' = Append(analysed, AnalyseMsg(buffer')) /\ fault' = fault /\ sent' = sent
        BY <2>1 DEF Take
      <3>2. analysed \in Seq(AnyMessage) /\ fault \in BOOLEAN
        BY DEF Typed
      <3>3. analysed' \in Seq(AnyMessage)
        BY <1>5, <2>1, <3>1, <3>2
      <3> QED BY <3>1, <3>2, <3>3, Zenon
    <2>2. CASE ~ Analysable(buffer')
      BY <2>2 DEF Take, Typed
    <2> QED BY <2>1, <2>2
  <1> QED BY <1>4, <1>6
\* A message at the beginning of the cells that come is analysed for what it is.
LEMMA TakeMessage ==
    ASSUME Typed, NEW m, IsMessage(m), NEW rest \in Seq(Int), Take(Create(m) \o rest)
    PROVE  fault' = fault /\ analysed' = Append(analysed, m)
  <1> DEFINE c == Create(m)
             cells == c \o rest
             old == SubSeq(buffer, Len(cells) + 1, BUFFER_SIZE)
  <1>1. c \in Seq(Int) /\ cells \in Seq(Int)
    BY CreateType
  <1>2. buffer' = cells \o old /\ Len(cells) <= BUFFER_SIZE
    BY DEF Take
  <1>3. old \in Seq(Int)
    <2>1. Len(cells) \in Nat /\ BUFFER_SIZE \in Nat
      BY <1>1, ChannelAssumption
    <2> HIDE DEF cells
    <2> QED BY <1>2, <2>1 DEF Typed
  <1>4. buffer' = c \o (rest \o old) /\ rest \o old \in Seq(Int)
    <2>1. (c \o rest) \o old = c \o (rest \o old)
      <3>1. \A a, b, d \in Seq(Int) : (a \o b) \o d = a \o (b \o d)
        BY JoinAssociates, Zenon
      <3>2. c \in Seq(Int) /\ rest \in Seq(Int) /\ old \in Seq(Int)
        BY <1>1, <1>3
      <3> HIDE DEF c, old, cells
      <3> QED BY <3>1, <3>2
    <2>2. rest \o old \in Seq(Int)
      <3> HIDE DEF old
      <3> QED BY <1>3, ConcatProperties
    <2> HIDE DEF old
    <2> QED BY <1>2, <2>1, <2>2, Zenon
  <1>5. Analysable(buffer') /\ AnalyseMsg(buffer') = m
    <2> HIDE DEF old
    <2> QED BY <1>4, AnalyseUndoesCreate
  <1> QED BY <1>5 DEF Take

\* A recv that returns the first n sends.
Receives(n) ==
    /\ n \in 1 .. Len(inFlight)
    /\ \E rest \in Seq(Int) : Take(inFlight[1] \o rest)
    /\ inFlight' = SubSeq(inFlight, n + 1, Len(inFlight))
    /\ merged' \in BOOLEAN /\ (n > 1 => merged') /\ (merged => merged') /\ cut' = cut

LEMMA RecvReceives ==
    ASSUME Typed, RecvMsg \/ RecvMerged
    PROVE  \E n : Receives(n)
  <1>1. CASE RecvMsg
    <2>1. /\ inFlight \in Seq(Seq(Int)) /\ inFlight # <<>> /\ Head(inFlight) = inFlight[1]
          /\ inFlight[1] \in Seq(Int) /\ 1 \in 1 .. Len(inFlight)
          /\ Tail(inFlight) = SubSeq(inFlight, 2, Len(inFlight))
      BY <1>1 DEF RecvMsg, Typed
    <2>2. inFlight[1] \o <<>> = inFlight[1] /\ <<>> \in Seq(Int)
      BY <2>1
    <2>3. Take(inFlight[1] \o <<>>)
      BY <1>1, <2>1, <2>2 DEF RecvMsg
    <2>4. merged' = merged /\ cut' = cut /\ inFlight' = SubSeq(inFlight, 2, Len(inFlight))
      BY <1>1, <2>1 DEF RecvMsg
    <2>5. merged' \in BOOLEAN
      BY <2>4 DEF Typed
    <2>6. 1 + 1 = 2 /\ ~ (1 > 1)
      OBVIOUS
    <2>7. inFlight' = SubSeq(inFlight, 1 + 1, Len(inFlight))
      BY <2>4, <2>6
    <2>8. Receives(1)
      BY <2>1, <2>2, <2>3, <2>4, <2>5, <2>6, <2>7, Zenon DEF Receives
    <2> QED BY <2>8
  <1>2. CASE RecvMerged
    <2>1. PICK n \in 2 .. Len(inFlight) :
             /\ Take(FlattenSeq(SubSeq(inFlight, 1, n)))
             /\ inFlight' = SubSeq(inFlight, n + 1, Len(inFlight))
      BY <1>2 DEF RecvMerged
    <2> DEFINE s == SubSeq(inFlight, 1, n)
    <2>2. s \in Seq(Seq(Int)) /\ Len(s) >= 1 /\ s[1] = inFlight[1] /\ n \in 1 .. Len(inFlight)
      BY DEF Typed
    <2> HIDE DEF s
    <2>3. PICK rest \in Seq(Int) : FlattenSeq(s) = inFlight[1] \o rest
      BY <2>2, FlattenBegins
    <2>4. Take(inFlight[1] \o rest)
      BY <2>1, <2>3, Zenon DEF s
    <2>5. merged' = TRUE /\ cut' = cut
      BY <1>2 DEF RecvMerged
    <2>6. Receives(n)
      BY <2>1, <2>2, <2>4, <2>5 DEF Receives
    <2> QED BY <2>6
  <1> QED BY <1>1, <1>2

\* What such a recv leaves.
LEMMA Received ==
    ASSUME Typed, NEW n, Receives(n)
    PROVE  /\ Typed' /\ sent' = sent /\ Behind' = Behind + n /\ Behind \in Nat
           /\ Len(inFlight') = Len(inFlight) - n /\ n \in Nat /\ n >= 1
           /\ \A i \in 1 .. Len(inFlight') : inFlight'[i] = inFlight[n + i]
           /\ Behind + 1 \in 1 .. Len(sent) /\ sent[Behind + 1] \in Sent
  <1>1. PICK rest \in Seq(Int) : Take(inFlight[1] \o rest)
    BY DEF Receives
  <1>2. /\ n \in 1 .. Len(inFlight) /\ cut' = cut /\ merged' \in BOOLEAN
        /\ inFlight' = SubSeq(inFlight, n + 1, Len(inFlight))
    BY DEF Receives
  <1>3. /\ inFlight \in Seq(Seq(Int)) /\ sent \in Seq(Sent) /\ Len(inFlight) <= Len(sent)
        /\ Len(inFlight) \in Nat /\ Len(sent) \in Nat /\ cut \in BOOLEAN
    BY DEF Typed
  <1>4. inFlight[1] \in Seq(Int)
    BY <1>2, <1>3
  <1>5. inFlight[1] \o rest \in Seq(Int)
    BY <1>4
  <1>6. /\ buffer' \in Seq(Int) /\ Len(buffer') = BUFFER_SIZE
        /\ analysed' \in Seq(AnyMessage) /\ fault' \in BOOLEAN /\ sent' = sent
    BY <1>1, <1>5, TakeTyped
  <1>7. /\ inFlight' \in Seq(Seq(Int)) /\ Len(inFlight') = Len(inFlight) - n
        /\ \A i \in 1 .. Len(inFlight') : inFlight'[i] = inFlight[n + i]
    BY <1>2, <1>3
  <1>8. /\ Behind' = Behind + n /\ Behind \in Nat /\ Behind + 1 \in 1 .. Len(sent)
        /\ n \in Nat /\ n >= 1 /\ Len(inFlight') <= Len(sent')
    <2>1. n \in 1 .. Len(inFlight) /\ Len(inFlight) <= Len(sent) /\ Len(sent') = Len(sent)
      BY <1>2, <1>3, <1>6
    <2>2. Behind' = Len(sent) - Len(inFlight')
      BY <1>6 DEF Behind
    <2> QED BY <1>3, <1>7, <2>1, <2>2 DEF Behind
  <1>9. sent[Behind + 1] \in Sent
    BY <1>3, <1>8
  <1>10. cut' \in BOOLEAN
    BY <1>2, <1>3, Zenon
  <1>11. Typed'
    BY <1>2, <1>3, <1>6, <1>7, <1>8, <1>10, Zenon DEF Typed
  <1> QED BY <1>6, <1>7, <1>8, <1>9, <1>11

LEMMA ReceivesKeepsInv ==
    ASSUME Inv, NEW n, Receives(n)
    PROVE  Inv'
  <1> DEFINE m == sent[Behind + 1]
  <1>1. Typed /\ Typed' /\ cut' = cut /\ (merged => merged') /\ (n > 1 => merged')
    BY Received DEF Inv, Receives
  <1>2. /\ sent' = sent /\ Behind' = Behind + n /\ Behind \in Nat
        /\ Len(inFlight') = Len(inFlight) - n /\ n \in Nat /\ n >= 1
        /\ \A i \in 1 .. Len(inFlight') : inFlight'[i] = inFlight[n + i]
        /\ Behind + 1 \in 1 .. Len(sent) /\ m \in Sent
    BY <1>1, Received
  <1>3. Len(inFlight) \in Nat /\ Len(inFlight) >= 1 /\ analysed \in Seq(AnyMessage)
    <2>1. Len(inFlight) \in Nat /\ analysed \in Seq(AnyMessage) /\ n \in 1 .. Len(inFlight)
      BY <1>1 DEF Typed, Receives
    <2> QED BY <2>1
  <1> HIDE DEF m
  <1>4. ASSUME ~ cut PROVE fault' = fault /\ analysed' = Append(analysed, m)
    <2>1. Whole
      BY <1>4 DEF Inv
    <2>2. 1 \in 1 .. Len(inFlight) /\ inFlight[1] = Create(m)
      BY <1>3, <2>1 DEF Whole, m
    <2>3. PICK rest \in Seq(Int) : Take(Create(m) \o rest)
      BY <2>2 DEF Receives
    <2>4. IsMessage(m)
      BY <1>2, ChannelAssumption
    <2> QED BY <1>1, <2>3, <2>4, TakeMessage
  <1>5. ASSUME ~ cut PROVE Whole'
    <2>1. ASSUME NEW i \in 1 .. Len(inFlight')
          PROVE  inFlight'[i] = Create(sent[Behind' + i])
      <3>1. n + i \in 1 .. Len(inFlight) /\ Behind' + i = Behind + (n + i)
        BY <1>2, <1>3
      <3>2. inFlight[n + i] = Create(sent[Behind + (n + i)])
        BY <1>5, <3>1 DEF Inv, Whole
      <3> QED BY <1>2, <3>1, <3>2
    <2> QED BY <1>2, <2>1 DEF Whole
  <1>6. ASSUME ~ cut PROVE Picked'
    <2>1. PICK at : Picks(at)
      BY <1>6 DEF Inv, Picked
    <2> DEFINE k == Len(analysed)
               new == [i \in 1 .. k + 1 |-> IF i = k + 1 THEN Behind + 1 ELSE at[i]]
    <2>2. /\ k \in Nat /\ Len(analysed') = k + 1 /\ analysed'[k + 1] = m
          /\ \A i \in 1 .. k : analysed'[i] = analysed[i]
      BY <1>3, <1>4, <1>6
    <2>3. /\ \A i \in 1 .. k : at[i] \in 1 .. Behind /\ analysed[i] = sent[at[i]]
          /\ \A i, j \in 1 .. k : i < j => at[i] < at[j]
      <3>1. at \in [1 .. k -> 1 .. Behind]
        BY <2>1 DEF Picks
      <3> QED BY <2>1, <3>1 DEF Picks
    <2> HIDE DEF k
    <2>4. new[k + 1] = Behind + 1 /\ \A i \in 1 .. k : new[i] = at[i]
      BY <2>2
    <2>5. \A i \in 1 .. k + 1 : i = k + 1 \/ i \in 1 .. k
      BY <2>2
    <2>6. new \in [1 .. k + 1 -> 1 .. Behind']
      <3>1. Behind + 1 \in 1 .. Behind' /\ \A x \in 1 .. Behind : x \in 1 .. Behind'
        BY <1>2
      <3> QED BY <2>3, <2>4, <2>5, <3>1
    <2> HIDE DEF new
    <2>7. \A i \in 1 .. k + 1 : analysed'[i] = sent'[new[i]]
      BY <1>2, <2>2, <2>3, <2>4, <2>5 DEF m
    <2>8. ASSUME NEW i \in 1 .. k + 1, NEW j \in 1 .. k + 1, i < j PROVE new[i] < new[j]
      <3>1. i \in 1 .. k
        BY <2>2, <2>8
      <3>2. at[i] \in Nat /\ at[i] <= Behind
        BY <1>2, <2>3, <3>1
      <3>3. CASE j = k + 1
        BY <1>2, <2>4, <3>1, <3>2, <3>3
      <3>4. CASE j # k + 1
        BY <2>3, <2>4, <2>5, <2>8, <3>1, <3>4
      <3> QED BY <3>3, <3>4
    <2>9. PICK f : f = new
      OBVIOUS
    <2>10. Picks(f)'
      BY <2>2, <2>6, <2>7, <2>8, <2>9, Zenon DEF Picks
    <2>11. ~ fault'
      BY <1>4, <1>6 DEF Inv, Picked
    <2> QED BY <2>10, <2>11 DEF Picked
  <1>7. ASSUME ~ cut, ~ merged' PROVE analysed' = SubSeq(sent', 1, Behind')
    <2>1. n = 1 /\ ~ merged
      BY <1>1, <1>2, <1>7
    <2>2. analysed = SubSeq(sent, 1, Behind)
      BY <1>7, <2>1 DEF Inv
    <2> DEFINE k == Behind + 1
    <2>3. k - 1 = Behind /\ k \in 1 .. Len(sent) /\ Behind' = k
      BY <1>2, <2>1
    <2>4. sent \in Seq(Sent)
      BY <1>1 DEF Typed
    <2>5. Append(SubSeq(sent, 1, k - 1), sent[k]) = SubSeq(sent, 1, k)
      BY <2>3, <2>4, PrefixGrows, Zenon
    <2>6. analysed' = Append(SubSeq(sent, 1, k - 1), sent[k])
      BY <1>4, <1>7, <2>2, <2>3 DEF m
    <2> HIDE DEF k
    <2> QED BY <1>2, <2>3, <2>5, <2>6
  <1> QED BY <1>1, <1>5, <1>6, <1>7 DEF Inv

\* After a recv that cuts, the types.
LEMMA PartKeepsInv ==
    ASSUME Inv, RecvPart
    PROVE  Inv' /\ Len(inFlight') = Len(inFlight)
  <1>1. PICK n \in 1 .. Len(Head(inFlight)) - 1 :
           /\ Take(SubSeq(Head(inFlight), 1, n))
           /\ inFlight' = <<SubSeq(Head(inFlight), n + 1, Len(Head(inFlight)))>>
                             \o Tail(inFlight)
    BY DEF RecvPart
  <1>2. /\ Typed /\ inFlight \in Seq(Seq(Int)) /\ inFlight # <<>> /\ merged \in BOOLEAN
        /\ Head(inFlight) \in Seq(Int) /\ cut' = TRUE /\ merged' = merged
    BY DEF Inv, Typed, RecvPart
  <1> DEFINE h == Head(inFlight)
             p == SubSeq(h, n + 1, Len(h))
  <1>3. SubSeq(h, 1, n) \in Seq(Int) /\ p \in Seq(Int)
    <2>1. h \in Seq(Int) /\ n \in 1 .. Len(h) - 1 /\ Len(h) \in Nat
      BY <1>2
    <2> HIDE DEF h
    <2> QED BY <2>1
  <1>4. /\ buffer' \in Seq(Int) /\ Len(buffer') = BUFFER_SIZE
        /\ analysed' \in Seq(AnyMessage) /\ fault' \in BOOLEAN /\ sent' = sent
    BY <1>1, <1>2, <1>3, TakeTyped
  <1>5. inFlight' \in Seq(Seq(Int)) /\ Len(inFlight') = Len(inFlight)
    <2>1. inFlight' = <<p>> \o Tail(inFlight)
      BY <1>1
    <2> HIDE DEF p
    <2>2. Tail(inFlight) \in Seq(Seq(Int)) /\ Len(Tail(inFlight)) = Len(inFlight) - 1
      BY <1>2
    <2> QED BY <1>2, <1>3, <2>1, <2>2
  <1>6. Len(inFlight') <= Len(sent') /\ sent' \in Seq(Sent)
    BY <1>2, <1>4, <1>5 DEF Typed
  <1>7. merged' \in BOOLEAN /\ cut' \in BOOLEAN
    BY <1>2, Zenon
  <1>8. Typed'
    BY <1>4, <1>5, <1>6, <1>7, Zenon DEF Typed
  <1> QED BY <1>2, <1>5, <1>8 DEF Inv

-----------------------------------------------------------------------------
(* The theorems.                                                           *)

LEMMA InvInductive ==
    ASSUME Inv, [Next]_vars
    PROVE  Inv'
  <1>1. ASSUME NEW m \in Sent, SendMsg(m) PROVE Inv'
    BY <1>1, SendKeepsInv
  <1>2. CASE RecvMsg \/ RecvMerged
    <2>1. PICK n : Receives(n)
      BY <1>2, RecvReceives DEF Inv
    <2> QED BY <2>1, ReceivesKeepsInv
  <1>3. CASE RecvPart
    BY <1>3, PartKeepsInv
  <1>4. CASE UNCHANGED vars
    BY <1>4 DEF vars, Inv, Typed, Whole, Picked, Picks, Behind
  <1> QED BY <1>1, <1>2, <1>3, <1>4 DEF Next

\* Every message is analysed once, for what it is and in its turn, for all
\* messages, their number and the size of the buffer, up to the first recv that
\* returns more than a send, or less (src/network.c 230-245, src/protocol.c).
THEOREM MessagesInTurn == Spec => []EachInTurn
  <1>1. Inv => EachInTurn
    BY DEF Inv, EachInTurn, Behind
  <1> QED BY <1>1, InvInit, InvInductive, PTL DEF Spec

\* As long as no message has come in parts, what is analysed has been sent, whole
\* and in that order, whatever comes together with what (src/network.c 230-245,
\* src/protocol.c 56-91).
THEOREM MessagesInOrder == Spec => []InOrder
  <1>1. ASSUME Inv PROVE InOrder
    <2>1. SUFFICES ASSUME ~ cut
                   PROVE  /\ ~ fault
                          /\ \E at \in [1 .. Len(analysed) -> 1 .. Len(sent)] :
                                /\ \A i \in DOMAIN at : analysed[i] = sent[at[i]]
                                /\ \A i, j \in DOMAIN at : i < j => at[i] < at[j]
      BY DEF InOrder
    <2>2. ~ fault /\ \E at : Picks(at)
      BY <1>1, <2>1 DEF Inv, Picked
    <2>3. PICK at : Picks(at)
      BY <2>2
    <2>4. at \in [1 .. Len(analysed) -> 1 .. Behind] /\ DOMAIN at = 1 .. Len(analysed)
      BY <2>3 DEF Picks
    <2>5. \A x \in 1 .. Behind : x \in 1 .. Len(sent)
      BY <1>1 DEF Inv, Typed, Behind
    <2>6. at \in [1 .. Len(analysed) -> 1 .. Len(sent)]
      BY <2>4, <2>5
    <2> QED BY <2>2, <2>3, <2>4, <2>6, Zenon DEF Picks
  <1> QED BY <1>1, InvInit, InvInductive, PTL DEF Spec

\* A recv that begins at a message reads it right, whatever parts of messages and
\* whatever left in the buffer came before (src/network.c 230-245).
THEOREM ReadsAreRight == Spec => Resynchronises
  <1>1. ASSUME Inv, [Next]_vars PROVE [ReadsNext]_vars
    <2>1. ASSUME NEW m \in Sent, SendMsg(m) PROVE ReadsNext
      <3>1. inFlight \in Seq(Seq(Int)) /\ Create(m) \in Seq(Int)
        BY <1>1, ChannelAssumption, CreateType DEF Inv, Typed
      <3>2. Len(inFlight') = Len(inFlight) + 1 /\ Len(inFlight) \in Nat
        BY <2>1, <3>1 DEF SendMsg
      <3> QED BY <3>2 DEF ReadsNext
    <2>2. CASE ~ fault /\ (RecvMsg \/ RecvMerged)
      <3>1. PICK n : Receives(n)
        BY <1>1, <2>2, RecvReceives DEF Inv
      <3> DEFINE m == sent[Behind + 1]
      <3>2. Typed /\ m \in Sent
        BY <1>1, <3>1, Received DEF Inv
      <3>3. IsMessage(m) /\ inFlight # <<>> /\ inFlight \in Seq(Seq(Int))
            /\ analysed \in Seq(AnyMessage)
        <4>1. IsMessage(m)
          BY <3>2, ChannelAssumption
        <4>2. inFlight \in Seq(Seq(Int)) /\ analysed \in Seq(AnyMessage)
          BY <3>2 DEF Typed
        <4>3. n \in 1 .. Len(inFlight)
          BY <3>1 DEF Receives
        <4>4. inFlight # <<>>
          BY <4>2, <4>3
        <4> QED BY <4>1, <4>2, <4>4
      <3>4. ASSUME Head(inFlight) = Create(m)
            PROVE  ~ fault' /\ Last(analysed') = m
        <4>1. inFlight[1] = Create(m)
          BY <3>3, <3>4
        <4> HIDE DEF m
        <4>2. PICK rest \in Seq(Int) : Take(Create(m) \o rest)
          BY <3>1, <4>1 DEF Receives
        <4>3. fault' = fault /\ analysed' = Append(analysed, m)
          BY <3>2, <3>3, <4>2, TakeMessage
        <4>4. Last(analysed') = m
          BY <3>3, <4>3 DEF Last
        <4> QED BY <2>2, <4>3, <4>4
      <3> QED BY <3>4 DEF ReadsNext, Behind
    <2>3. CASE RecvPart
      <3>1. Len(inFlight') = Len(inFlight) /\ Len(inFlight) \in Nat
        BY <1>1, <2>3, PartKeepsInv DEF Inv, Typed
      <3> QED BY <3>1 DEF ReadsNext
    <2> QED BY <1>1, <2>1, <2>2, <2>3 DEF Next
  <1> QED BY <1>1, InvInit, InvInductive, PTL DEF Spec, Resynchronises
=============================================================================
