--------------------------- MODULE SequenceFacts ---------------------------
(***************************************************************************)
(* Facts about naturals and sequences that the library has not: the least  *)
(* element of a set, and what InsertAt and RemoveAt return.                *)
(***************************************************************************)
EXTENDS SequencesExt, SequenceTheorems, WellFoundedInduction, TLAPS

\* A non-empty set of naturals has a least element.
LEMMA LeastNatural ==
    ASSUME NEW T \in SUBSET Nat, T # {}
    PROVE  \E x \in T : \A y \in T : x <= y
  <1>1. PICK x \in T : \A y \in T : ~ (<<y, x>> \in OpToRel(<, Nat))
    BY NatLessThanWellFounded, WFMin, Zenon
  <1>2. \A y \in T : ~ (y < x)
    BY <1>1 DEF OpToRel
  <1> QED BY <1>2

\* d is the sequence c with the element e put in at position p.
LinkedIn(c, d, p, e) ==
    /\ Len(d) = Len(c) + 1
    /\ p \in 1 .. Len(d)
    /\ \A i \in 1 .. Len(d) :
          d[i] = IF i < p THEN c[i] ELSE IF i = p THEN e ELSE c[i - 1]

\* The slices of a sequence before and from a position.
LEMMA Slices ==
    ASSUME NEW S, NEW c \in Seq(S), NEW p \in 1 .. Len(c) + 1
    PROVE  /\ SubSeq(c, 1, p - 1) \in Seq(S)
           /\ Len(SubSeq(c, 1, p - 1)) = p - 1
           /\ \A i \in 1 .. p - 1 : SubSeq(c, 1, p - 1)[i] = c[i]
           /\ SubSeq(c, p, Len(c)) \in Seq(S)
           /\ Len(SubSeq(c, p, Len(c))) = Len(c) + 1 - p
           /\ \A i \in 1 .. Len(c) + 1 - p : SubSeq(c, p, Len(c))[i] = c[i + p - 1]
  <1> DEFINE a == SubSeq(c, 1, p - 1)
             b == SubSeq(c, p, Len(c))
             n == Len(c)
  <1>1. n \in Nat /\ c \in [1 .. n -> S] /\ p \in Nat /\ p >= 1 /\ p <= n + 1
    BY LenProperties
  <1>2. (\A i \in 1 .. p - 1 : c[i] \in S) /\ (\A i \in p .. n : c[i] \in S)
    BY <1>1
  <1>3. /\ a \in Seq(S)
        /\ Len(a) = IF 1 <= p - 1 THEN p - 1 - 1 + 1 ELSE 0
        /\ \A i \in 1 .. p - 1 - 1 + 1 : a[i] = c[1 + i - 1]
    BY <1>1, <1>2, SubSeqProperties
  <1>4. /\ b \in Seq(S)
        /\ Len(b) = IF p <= n THEN n - p + 1 ELSE 0
        /\ \A i \in 1 .. n - p + 1 : b[i] = c[p + i - 1]
    BY <1>1, <1>2, SubSeqProperties
  <1> HIDE DEF a, b, n
  <1>5. Len(a) = p - 1 /\ Len(b) = n + 1 - p
    BY <1>1, <1>3, <1>4
  <1>6. \A i \in 1 .. p - 1 : a[i] = c[i]
    BY <1>1, <1>3
  <1>7. ASSUME NEW i \in 1 .. n + 1 - p PROVE b[i] = c[i + p - 1]
    <2>1. i \in 1 .. n - p + 1 /\ p + i - 1 = i + p - 1
      BY <1>1
    <2> QED BY <1>4, <2>1
  <1> QED BY <1>3, <1>4, <1>5, <1>6, <1>7 DEF a, b, n

\* InsertAt puts an element in.
LEMMA InsertLinksIn ==
    ASSUME NEW S, NEW c \in Seq(S), NEW e \in S, NEW p \in 1 .. Len(c) + 1
    PROVE  InsertAt(c, p, e) \in Seq(S) /\ LinkedIn(c, InsertAt(c, p, e), p, e)
  <1> DEFINE a == SubSeq(c, 1, p - 1)
             b == SubSeq(c, p, Len(c))
             ae == a \o <<e>>
             d == ae \o b
             n == Len(c)
  <1>1. n \in Nat /\ p \in Nat /\ p >= 1 /\ p <= n + 1
    BY LenProperties
  <1>2. /\ a \in Seq(S) /\ Len(a) = p - 1 /\ \A i \in 1 .. p - 1 : a[i] = c[i]
        /\ b \in Seq(S) /\ Len(b) = n + 1 - p
        /\ \A i \in 1 .. n + 1 - p : b[i] = c[i + p - 1]
    BY Slices
  <1>3. <<e>> \in Seq(S) /\ Len(<<e>>) = 1 /\ <<e>>[1] = e
    OBVIOUS
  <1> HIDE DEF a, b, n
  <1>4. /\ ae \in Seq(S) /\ Len(ae) = Len(a) + Len(<<e>>)
        /\ \A i \in 1 .. Len(a) + Len(<<e>>) :
              ae[i] = IF i <= Len(a) THEN a[i] ELSE <<e>>[i - Len(a)]
    BY <1>2, <1>3, ConcatProperties
  <1> HIDE DEF ae
  <1>5. Len(ae) = p /\ (\A i \in 1 .. p - 1 : ae[i] = c[i]) /\ ae[p] = e
    <2>1. Len(a) = p - 1 /\ Len(ae) = p
      BY <1>1, <1>2, <1>3, <1>4
    <2>2. \A i \in 1 .. p : ae[i] = IF i <= p - 1 THEN a[i] ELSE <<e>>[i - (p - 1)]
      BY <1>1, <1>3, <1>4, <2>1
    <2>3. ae[p] = <<e>>[1]
      <3>1. p \in 1 .. p /\ ~ (p <= p - 1) /\ p - (p - 1) = 1
        BY <1>1
      <3> QED BY <2>2, <3>1
    <2> QED BY <1>1, <1>2, <1>3, <2>1, <2>2, <2>3, SMTT(60)
  <1>6. /\ d \in Seq(S) /\ Len(d) = Len(ae) + Len(b)
        /\ \A i \in 1 .. Len(ae) + Len(b) :
              d[i] = IF i <= Len(ae) THEN ae[i] ELSE b[i - Len(ae)]
    <2>1. ae \in Seq(S) /\ b \in Seq(S)
      BY <1>2, <1>4
    <2> QED BY <2>1, ConcatProperties
  <1> HIDE DEF d
  <1>7. Len(d) = n + 1 /\ p \in 1 .. Len(d)
    BY <1>1, <1>2, <1>5, <1>6
  <1>8. ASSUME NEW i \in 1 .. Len(d)
        PROVE  d[i] = IF i < p THEN c[i] ELSE IF i = p THEN e ELSE c[i - 1]
    <2>1. CASE i <= p
      BY <1>1, <1>5, <1>6, <1>7, <2>1
    <2>2. CASE i > p
      <3>1. d[i] = b[i - p] /\ i - p \in 1 .. n + 1 - p /\ (i - p) + p - 1 = i - 1
        BY <1>1, <1>2, <1>5, <1>6, <1>7, <2>2
      <3> QED BY <1>1, <1>2, <2>2, <3>1
    <2> QED BY <1>1, <1>7, <2>1, <2>2
  <1>9. InsertAt(c, p, e) = d
    BY DEF InsertAt, d, ae, a, b
  <1>10. LinkedIn(c, d, p, e)
    BY <1>7, <1>8 DEF LinkedIn, n
  <1> QED BY <1>6, <1>9, <1>10

\* Append puts it in at the end.
LEMMA AppendLinksIn ==
    ASSUME NEW S, NEW c \in Seq(S), NEW e \in S
    PROVE  Append(c, e) \in Seq(S) /\ LinkedIn(c, Append(c, e), Len(c) + 1, e)
  BY AppendProperties, LenProperties DEF LinkedIn

\* The second place of a sequence, the first of an empty one.
LEMMA SecondLinksIn ==
    ASSUME NEW S, NEW c \in Seq(S), NEW e \in S,
           NEW d, d = IF c = <<>> THEN <<e>> ELSE InsertAt(c, 2, e)
    PROVE  d \in Seq(S) /\ \E p \in {1, 2} : LinkedIn(c, d, p, e)
  <1>1. Len(c) \in Nat
    BY LenProperties
  <1>2. CASE c = <<>>
    <2>1. d = <<e>> /\ d \in Seq(S) /\ Len(d) = 1 /\ d[1] = e /\ Len(c) = 0
      BY <1>2
    <2> QED BY <2>1 DEF LinkedIn
  <1>3. CASE c # <<>>
    <2>1. 2 \in 1 .. Len(c) + 1
      BY <1>1, <1>3, EmptySeq
    <2> QED BY <1>3, <2>1, InsertLinksIn
  <1> QED BY <1>2, <1>3

\* Removing an element: putting it in again gives the old sequence.
LEMMA RemoveUnlinks ==
    ASSUME NEW S, NEW c \in Seq(S), NEW p \in 1 .. Len(c)
    PROVE  RemoveAt(c, p) \in Seq(S) /\ LinkedIn(RemoveAt(c, p), c, p, c[p])
  <1> DEFINE a == SubSeq(c, 1, p - 1)
             b == SubSeq(c, p + 1, Len(c))
  <1>1. Len(c) \in Nat /\ c \in [1 .. Len(c) -> S]
    BY LenProperties
  <1>2. a \in Seq(S) /\ Len(a) = p - 1 /\ \A i \in 1 .. p - 1 : a[i] = c[i]
    <2>1. \A i \in 1 .. p - 1 : c[i] \in S
      BY <1>1
    <2>2. /\ a \in Seq(S)
          /\ Len(a) = IF 1 <= p - 1 THEN p - 1 - 1 + 1 ELSE 0
          /\ \A i \in 1 .. p - 1 - 1 + 1 : a[i] = c[1 + i - 1]
      BY <1>1, <2>1, SubSeqProperties
    <2> QED BY <1>1, <2>2
  <1>3. b \in Seq(S) /\ Len(b) = Len(c) - p
        /\ \A i \in 1 .. Len(c) - p : b[i] = c[i + p]
    <2>1. \A i \in p + 1 .. Len(c) : c[i] \in S
      BY <1>1
    <2>2. /\ b \in Seq(S)
          /\ Len(b) = IF p + 1 <= Len(c) THEN Len(c) - (p + 1) + 1 ELSE 0
          /\ \A i \in 1 .. Len(c) - (p + 1) + 1 : b[i] = c[(p + 1) + i - 1]
      BY <1>1, <2>1, SubSeqProperties
    <2> HIDE DEF b
    <2>3. Len(b) = Len(c) - p /\ Len(c) - (p + 1) + 1 = Len(c) - p
      <3>1. Len(c) \in Nat /\ p \in Nat /\ p <= Len(c)
        BY <1>1
      <3>2. Len(c) - (p + 1) + 1 = Len(c) - p
        BY <3>1
      <3>3. CASE p + 1 <= Len(c)
        BY <2>2, <3>2, <3>3
      <3>4. CASE ~ (p + 1 <= Len(c))
        BY <2>2, <3>1, <3>4
      <3> QED BY <3>2, <3>3, <3>4
    <2>4. ASSUME NEW i \in 1 .. Len(c) - p
          PROVE  b[i] = c[i + p]
      <3>1. (p + 1) + i - 1 = i + p
        BY <1>1
      <3> QED BY <2>2, <2>3, <3>1
    <2> QED BY <2>2, <2>3, <2>4
  <1>4. RemoveAt(c, p) = a \o b
    BY DEF RemoveAt
  <1> HIDE DEF a, b
  <1>5. /\ a \o b \in Seq(S)
        /\ Len(a \o b) = Len(a) + Len(b)
        /\ \A i \in 1 .. Len(a) + Len(b) : (a \o b)[i] =
               IF i <= Len(a) THEN a[i] ELSE b[i - Len(a)]
    BY <1>2, <1>3, ConcatProperties
  <1> DEFINE d == a \o b
  <1>6. d \in Seq(S) /\ Len(d) = Len(c) - 1
        /\ \A i \in 1 .. Len(c) - 1 : d[i] = IF i < p THEN c[i] ELSE c[i + 1]
    BY <1>1, <1>2, <1>3, <1>5
  <1> HIDE DEF d
  <1>7. LinkedIn(d, c, p, c[p])
    BY <1>1, <1>6 DEF LinkedIn
  <1> QED BY <1>4, <1>6, <1>7 DEF d

\* What was put in decides the sequence.
LEMMA LinkedAgain ==
    ASSUME NEW V, NEW a \in Seq(V), NEW b \in Seq(V), NEW q, NEW v \in V, LinkedIn(a, b, q, v)
    PROVE  /\ b = InsertAt(a, q, v)
           /\ q = Len(a) + 1 => b = Append(a, v)
           /\ q = 1 => b # <<>> /\ a = Tail(b)
  <1>1. ASSUME NEW d \in Seq(V), LinkedIn(a, d, q, v) PROVE b = d
    <2>1. Len(b) = Len(d) /\ Len(b) \in Nat /\ \A i \in 1 .. Len(b) : b[i] = d[i]
      BY <1>1, LenProperties DEF LinkedIn
    <2> QED BY <2>1, SeqEqual
  <1>2. Len(a) \in Nat /\ q \in 1 .. Len(a) + 1 /\ Len(b) = Len(a) + 1
    BY LenProperties DEF LinkedIn
  <1>3. b = InsertAt(a, q, v)
    BY <1>1, <1>2, InsertLinksIn
  <1>4. q = Len(a) + 1 => b = Append(a, v)
    BY <1>1, AppendLinksIn
  <1>5. q = 1 => b # <<>> /\ a = Tail(b)
    <2>1. HAVE q = 1
    <2>2. b # <<>>
      BY <1>2
    <2>3. PICK d : d = Tail(b)
      OBVIOUS
    <2>4. d \in Seq(V) /\ Len(d) = Len(a) /\ \A i \in 1 .. Len(d) : d[i] = b[i + 1]
      BY <1>2, <2>2, <2>3, HeadTailProperties
    <2>5. ASSUME NEW i \in 1 .. Len(a) PROVE d[i] = a[i]
      <3>1. i + 1 \in 1 .. Len(b) /\ ~ (i + 1 < q) /\ i + 1 # q /\ (i + 1) - 1 = i
        BY <1>2, <2>1
      <3>2. b[i + 1] = a[i]
        BY <3>1 DEF LinkedIn
      <3> QED BY <2>4, <3>2
    <2> QED BY <2>2, <2>3, <2>4, <2>5, SeqEqual
  <1> QED BY <1>3, <1>4, <1>5

\* What was put in front, or taken out, decides the sequence.
LEMMA HeadAgain ==
    ASSUME NEW V, NEW a \in Seq(V), NEW b \in Seq(V), NEW v \in V, LinkedIn(a, b, 1, v)
    PROVE  b = <<v>> \o a
  <1>1. PICK c, d : c = <<v>> /\ d = <<v>> \o a
    OBVIOUS
  <1>2. c \in Seq(V) /\ Len(c) = 1 /\ c[1] = v /\ d = c \o a
    BY <1>1
  <1>3. Len(a) \in Nat /\ Len(b) = Len(a) + 1
        /\ \A i \in 1 .. Len(b) : b[i] = IF i = 1 THEN v ELSE a[i - 1]
    BY LenProperties DEF LinkedIn
  <1>4. /\ c \o a \in Seq(V) /\ Len(c \o a) = Len(c) + Len(a)
        /\ \A i \in 1 .. Len(c) + Len(a) :
              (c \o a)[i] = IF i <= Len(c) THEN c[i] ELSE a[i - Len(c)]
    BY <1>2, ConcatProperties, Zenon
  <1>5. b = d
    BY <1>2, <1>3, <1>4, SeqEqual
  <1> QED BY <1>1, <1>5

LEMMA RemovedAgain ==
    ASSUME NEW V, NEW r \in Seq(V), NEW b \in Seq(V), NEW q, NEW v, LinkedIn(r, b, q, v)
    PROVE  q \in 1 .. Len(b) /\ r = RemoveAt(b, q)
  <1>1. q \in 1 .. Len(b) /\ Len(b) = Len(r) + 1 /\ Len(r) \in Nat
    BY LenProperties DEF LinkedIn
  <1>2. PICK c : c = RemoveAt(b, q)
    OBVIOUS
  <1>3. c \in Seq(V) /\ LinkedIn(c, b, q, b[q])
    BY <1>1, <1>2, RemoveUnlinks
  <1>4. Len(c) = Len(r)
    BY <1>1, <1>3, LenProperties DEF LinkedIn
  <1>5. ASSUME NEW i \in 1 .. Len(r) PROVE r[i] = c[i]
    <2>1. CASE i < q
      <3>1. i \in 1 .. Len(b)
        BY <1>1
      <3> QED BY <1>3, <2>1, <3>1 DEF LinkedIn
    <2>2. CASE i >= q
      <3>1. i + 1 \in 1 .. Len(b) /\ ~ (i + 1 < q) /\ i + 1 # q /\ (i + 1) - 1 = i
        BY <1>1, <2>2
      <3>2. b[i + 1] = r[(i + 1) - 1]
        BY <3>1 DEF LinkedIn
      <3>3. b[i + 1] = c[(i + 1) - 1]
        BY <1>3, <3>1 DEF LinkedIn
      <3> QED BY <3>1, <3>2, <3>3
    <2> QED BY <1>1, <2>1, <2>2
  <1> QED BY <1>1, <1>2, <1>3, <1>4, <1>5, SeqEqual

\* A set of naturals that is not empty has its Min.
LEMMA MinIsLeast ==
    ASSUME NEW T \in SUBSET Nat, T # {}
    PROVE  Min(T) \in T /\ \A x \in T : Min(T) <= x
  <1>1. PICK m \in T : \A x \in T : m <= x
    BY LeastNatural
  <1> QED BY <1>1 DEF Min

\* The position of the first element with a key, 0 when there is none: what
\* SelectInSeq returns.
FirstKey(c, k) ==
    LET I == {i \in 1 .. Len(c) : c[i].key = k}
    IN  IF I # {} THEN Min(I) ELSE 0

\* It is the least such position.
LEMMA FirstWithKey ==
    ASSUME NEW c, Len(c) \in Nat, NEW k, NEW f, f = FirstKey(c, k)
    PROVE  /\ f \in 0 .. Len(c)
           /\ f # 0 => c[f].key = k
           /\ \A i \in 1 .. Len(c) : c[i].key = k => f # 0 /\ f <= i
  <1> DEFINE I == {i \in 1 .. Len(c) : c[i].key = k}
  <1>0. f = IF I # {} THEN Min(I) ELSE 0
    BY DEF FirstKey
  <1>1. CASE I = {}
    BY <1>0, <1>1
  <1>2. CASE I # {}
    <2>1. I \in SUBSET Nat
      OBVIOUS
    <2>2. f \in I /\ \A j \in I : f <= j
      <3> HIDE DEF I
      <3> QED BY <1>0, <1>2, <2>1, MinIsLeast
    <2>3. f \in 1 .. Len(c) /\ c[f].key = k
      BY <2>2
    <2>4. ASSUME NEW i \in 1 .. Len(c), c[i].key = k PROVE f <= i
      BY <2>2, <2>4
    <2>5. f \in 0 .. Len(c) /\ f # 0
      BY <2>3
    <2>6. f # 0 => c[f].key = k
      BY <2>3
    <2>7. \A i \in 1 .. Len(c) : c[i].key = k => f # 0 /\ f <= i
      BY <2>4, <2>5
    <2> QED BY <2>5, <2>6, <2>7, Zenon
  <1> QED BY <1>1, <1>2

\* Induction up to n, over the set of the numbers for which something holds.
LEMMA Upwards ==
    ASSUME NEW n \in Nat, NEW T, 0 \in T, \A i \in 1 .. n : i - 1 \in T => i \in T
    PROVE  \A i \in 0 .. n : i \in T
  <1> DEFINE Bad == (0 .. n) \ T
  <1>1. ASSUME Bad # {} PROVE FALSE
    <2>1. PICK i \in Bad : \A x \in Bad : i <= x
      <3>1. Bad \in SUBSET Nat
        OBVIOUS
      <3> QED BY <1>1, <3>1, LeastNatural
    <2>2. i \in 1 .. n /\ i - 1 \in 0 .. n /\ ~ (i <= i - 1)
      BY <2>1
    <2> QED BY <2>1, <2>2
  <1> QED BY <1>1

\* g[i] is what F[1] to F[i] make of d in turn.
Iterate(g, d, F, n) == g[0] = d /\ \A i \in 1 .. n : g[i] = F[i][g[i - 1]]

\* Functions can be applied in turn.
LEMMA Iterates ==
    ASSUME NEW D, NEW d \in D, NEW n \in Nat, NEW F, \A i \in 1 .. n : F[i] \in [D -> D]
    PROVE  \E g : g \in [0 .. n -> D] /\ Iterate(g, d, F, n)
  <1> DEFINE T == {m \in 0 .. n : \E g : g \in [0 .. m -> D] /\ Iterate(g, d, F, m)}
  <1>1. 0 \in T
    <2>1. [i \in 0 .. 0 |-> d] \in [0 .. 0 -> D] /\ Iterate([i \in 0 .. 0 |-> d], d, F, 0)
      BY DEF Iterate
    <2> QED BY <2>1
  <1>2. ASSUME NEW m \in 1 .. n, m - 1 \in T PROVE m \in T
    <2>1. PICK g : g \in [0 .. m - 1 -> D] /\ Iterate(g, d, F, m - 1)
      BY <1>2
    <2>2. m - 1 \in 0 .. m - 1 /\ g[m - 1] \in D /\ F[m][g[m - 1]] \in D
      BY <2>1
    <2> DEFINE h == [i \in 0 .. m |-> IF i = m THEN F[m][g[m - 1]] ELSE g[i]]
    <2>3. h \in [0 .. m -> D] /\ h[0] = d
      <3>1. \A i \in 0 .. m : i # m => i \in 0 .. m - 1
        OBVIOUS
      <3> QED BY <2>1, <2>2, <3>1 DEF Iterate
    <2>4. ASSUME NEW i \in 1 .. m PROVE h[i] = F[i][h[i - 1]]
      <3>1. i - 1 \in 0 .. m /\ i - 1 # m /\ h[i - 1] = g[i - 1]
        OBVIOUS
      <3>2. CASE i = m
        BY <3>1, <3>2
      <3>3. CASE i # m
        <4>1. i \in 1 .. m - 1 /\ i \in 0 .. m /\ h[i] = g[i]
          BY <3>3
        <4> QED BY <2>1, <3>1, <4>1 DEF Iterate
      <3> QED BY <3>2, <3>3
    <2> HIDE DEF h
    <2>5. Iterate(h, d, F, m)
      BY <2>3, <2>4 DEF Iterate
    <2> QED BY <2>3, <2>5
  <1> HIDE DEF T
  <1>3. n \in T
    <2>1. \A i \in 0 .. n : i \in T
      BY <1>1, <1>2, Upwards
    <2> QED BY <2>1
  <1> QED BY <1>3 DEF T
=============================================================================
