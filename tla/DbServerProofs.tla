--------------------------- MODULE DbServerProofs ---------------------------
(***************************************************************************)
(* Theorems about the data server of DbServer: its types, the agreement of *)
(* the handle table with the open databases, and its sessions: every task  *)
(* is its client's last request, the links of a file count the sessions on *)
(* it, every client is served from the file it opened, nothing undefined   *)
(* happens, and the server implements DataService.  They rest on what the  *)
(* calls of src/hash.c do to the bindings of a table, for every table,     *)
(* hash function, key and value.                                           *)
(***************************************************************************)
EXTENDS DbServerInv, SequenceFacts, FiniteSetTheorems

-----------------------------------------------------------------------------
(* The hash table.                                                         *)

\* Find returns the position of a first node with key k, or 0.
LEMMA FindFirst ==
    ASSUME NEW K, NEW V, NEW c \in Seq(Node(K, V)), NEW k
    PROVE  /\ Find(c, k) \in 0 .. Len(c)
           /\ Find(c, k) # 0 => c[Find(c, k)].key = k
           /\ \A i \in 1 .. Len(c) : c[i].key = k =>
                  Find(c, k) # 0 /\ Find(c, k) <= i
  <1>1. Len(c) \in Nat
    BY LenProperties
  <1>2. Find(c, k) = FirstKey(c, k)
    BY DEF Find, SelectInSeq, FirstKey
  <1> QED BY <1>1, <1>2, FirstWithKey

\* No key occurs twice in a chain.
ChainUnique(c) == \A i, j \in 1 .. Len(c) : c[i].key = c[j].key => i = j

\* The positions of c and the positions of d other than p correspond one to
\* one, in order: up maps the former to the latter, down back.
Corresponds(c, d, p, up, down) ==
    /\ up \in [1 .. Len(c) -> (1 .. Len(d)) \ {p}]
    /\ down \in [(1 .. Len(d)) \ {p} -> 1 .. Len(c)]
    /\ \A i \in 1 .. Len(c) : d[up[i]] = c[i] /\ down[up[i]] = i
    /\ \A i \in (1 .. Len(d)) \ {p} : d[i] = c[down[i]] /\ up[down[i]] = i
    /\ \A i, j \in 1 .. Len(c) : i <= j => up[i] <= up[j]

\* Linking in at a position gives such a correspondence.
LEMMA LinkedInMaps ==
    ASSUME NEW S, NEW c \in Seq(S), NEW d \in Seq(S),
           NEW p, NEW e, LinkedIn(c, d, p, e)
    PROVE  \E up, down : Corresponds(c, d, p, up, down)
  <1> DEFINE up == [i \in 1 .. Len(c) |-> IF i < p THEN i ELSE i + 1]
             down == [i \in (1 .. Len(d)) \ {p} |-> IF i < p THEN i ELSE i - 1]
  <1>1. Len(c) \in Nat /\ Len(d) = Len(c) + 1 /\ p \in 1 .. Len(d)
    BY LenProperties DEF LinkedIn
  <1>2. up \in [1 .. Len(c) -> (1 .. Len(d)) \ {p}]
    BY <1>1
  <1>3. down \in [(1 .. Len(d)) \ {p} -> 1 .. Len(c)]
    BY <1>1
  <1>4. ASSUME NEW i \in 1 .. Len(c)
        PROVE  d[up[i]] = c[i] /\ down[up[i]] = i
    <2>1. up[i] \in 1 .. Len(d) /\ up[i] # p /\ up[i] = IF i < p THEN i ELSE i + 1
      BY <1>1
    <2>2. d[up[i]] = IF up[i] < p THEN c[up[i]] ELSE c[up[i] - 1]
      BY <2>1 DEF LinkedIn
    <2>3. IF up[i] < p THEN up[i] = i ELSE up[i] - 1 = i
      BY <1>1, <2>1
    <2>4. down[up[i]] = IF up[i] < p THEN up[i] ELSE up[i] - 1
      BY <2>1
    <2> HIDE DEF up, down
    <2> QED BY <2>2, <2>3, <2>4
  <1>5. ASSUME NEW i \in (1 .. Len(d)) \ {p}
        PROVE  d[i] = c[down[i]] /\ up[down[i]] = i
    <2>1. down[i] \in 1 .. Len(c) /\ down[i] = IF i < p THEN i ELSE i - 1
      BY <1>1
    <2>2. d[i] = IF i < p THEN c[i] ELSE c[i - 1]
      BY DEF LinkedIn
    <2>3. up[down[i]] = i
      BY <1>1, <2>1
    <2> HIDE DEF up, down
    <2> QED BY <2>1, <2>2, <2>3
  <1>6. \A i, j \in 1 .. Len(c) : i <= j => up[i] <= up[j]
    BY <1>1
  <1> HIDE DEF up, down
  <1>7. Corresponds(c, d, p, up, down)
    BY <1>2, <1>3, <1>4, <1>5, <1>6 DEF Corresponds
  <1> QED BY <1>7

\* Linking a node in leaves what a lookup of any other key finds alone, and
\* makes its own key found; only when that key was missing does it find e.
LEMMA LinkedInFind ==
    ASSUME NEW K, NEW V, NEW c \in Seq(Node(K, V)), NEW d \in Seq(Node(K, V)),
           NEW p, NEW e \in Node(K, V), LinkedIn(c, d, p, e)
    PROVE  /\ \A k : k # e.key =>
                 /\ Find(d, k) # 0 <=> Find(c, k) # 0
                 /\ Find(c, k) # 0 => d[Find(d, k)] = c[Find(c, k)]
           /\ Find(d, e.key) # 0
           /\ Find(c, e.key) = 0 => d[Find(d, e.key)] = e
  <1>1. Len(c) \in Nat /\ Len(d) \in Nat /\ p \in 1 .. Len(d) /\ d[p] = e
    BY LenProperties DEF LinkedIn
  <1>2. PICK up, down : Corresponds(c, d, p, up, down)
    BY LinkedInMaps, Zenon
  <1>3. /\ \A k : Find(c, k) \in 0 .. Len(c)
        /\ \A k : Find(c, k) # 0 => c[Find(c, k)].key = k
        /\ \A k : \A i \in 1 .. Len(c) : c[i].key = k =>
               Find(c, k) # 0 /\ Find(c, k) <= i
    BY FindFirst
  <1>4. /\ \A k : Find(d, k) \in 0 .. Len(d)
        /\ \A k : Find(d, k) # 0 => d[Find(d, k)].key = k
        /\ \A k : \A i \in 1 .. Len(d) : d[i].key = k =>
               Find(d, k) # 0 /\ Find(d, k) <= i
    BY FindFirst
  <1>5. ASSUME NEW k, k # e.key
        PROVE  /\ Find(d, k) # 0 <=> Find(c, k) # 0
               /\ Find(c, k) # 0 => d[Find(d, k)] = c[Find(c, k)]
    <2> DEFINE x == Find(c, k)
               y == Find(d, k)
    <2>1. ASSUME x # 0
          PROVE  y \in 1 .. Len(d) /\ y <= up[x] /\ x \in 1 .. Len(c)
      <3>1. x \in 1 .. Len(c) /\ c[x].key = k
        BY <1>1, <1>3, <2>1
      <3>2. up[x] \in 1 .. Len(d) /\ d[up[x]].key = k
        BY <1>2, <3>1 DEF Corresponds
      <3>3. y # 0 /\ y <= up[x]
        BY <1>4, <3>2
      <3> QED BY <1>1, <1>4, <3>1, <3>3
    <2>2. ASSUME y # 0
          PROVE  /\ y \in (1 .. Len(d)) \ {p}
                 /\ x \in 1 .. Len(c) /\ x <= down[y] /\ down[y] \in 1 .. Len(c)
      <3>1. y \in 1 .. Len(d) /\ d[y].key = k
        BY <1>1, <1>4, <2>2
      <3>2. y # p
        BY <1>1, <1>5, <3>1
      <3>3. down[y] \in 1 .. Len(c) /\ c[down[y]].key = k
        BY <1>2, <3>1, <3>2 DEF Corresponds
      <3>4. x # 0 /\ x <= down[y]
        BY <1>3, <3>3
      <3> QED BY <1>1, <1>3, <3>1, <3>2, <3>3, <3>4
    <2>3. y # 0 <=> x # 0
      BY <1>1, <2>1, <2>2
    <2>4. ASSUME x # 0 PROVE d[y] = c[x]
      <3>1. y # 0
        BY <2>3, <2>4
      <3>2. up[x] <= up[down[y]] /\ up[down[y]] = y
        BY <1>2, <2>2, <3>1 DEF Corresponds
      <3>3. y <= up[x] /\ up[x] \in 1 .. Len(d) /\ y \in 1 .. Len(d)
        BY <1>2, <2>1, <2>4 DEF Corresponds
      <3>4. y = up[x]
        BY <1>1, <3>2, <3>3
      <3> QED BY <1>2, <2>1, <2>4, <3>4 DEF Corresponds
    <2> QED BY <2>3, <2>4
  <1>6. Find(d, e.key) # 0
    BY <1>1, <1>4
  <1>7. ASSUME Find(c, e.key) = 0
        PROVE  d[Find(d, e.key)] = e
    <2> DEFINE y == Find(d, e.key)
    <2>1. y \in 1 .. Len(d) /\ d[y].key = e.key
      BY <1>1, <1>4, <1>6
    <2>2. CASE y # p
      <3>1. down[y] \in 1 .. Len(c) /\ c[down[y]].key = e.key
        BY <1>2, <2>1, <2>2 DEF Corresponds
      <3> QED BY <1>3, <1>7, <3>1
    <2> QED BY <1>1, <2>2
  <1> QED BY <1>5, <1>6, <1>7

\* A chain stays free of duplicates exactly when the key linked in is new.
LEMMA LinkedInUnique ==
    ASSUME NEW K, NEW V, NEW c \in Seq(Node(K, V)), NEW d \in Seq(Node(K, V)),
           NEW p, NEW e \in Node(K, V), LinkedIn(c, d, p, e)
    PROVE  ChainUnique(d) <=> ChainUnique(c) /\ Find(c, e.key) = 0
  <1>1. Len(c) \in Nat /\ Len(d) \in Nat /\ p \in 1 .. Len(d) /\ d[p] = e
    BY LenProperties DEF LinkedIn
  <1>2. PICK up, down : Corresponds(c, d, p, up, down)
    BY LinkedInMaps, Zenon
  <1>3. Find(c, e.key) = 0 <=> \A i \in 1 .. Len(c) : c[i].key # e.key
    <2>1. /\ Find(c, e.key) \in 0 .. Len(c)
          /\ Find(c, e.key) # 0 => c[Find(c, e.key)].key = e.key
          /\ \A i \in 1 .. Len(c) : c[i].key = e.key => Find(c, e.key) # 0
      BY FindFirst
    <2>2. Find(c, e.key) # 0 => Find(c, e.key) \in 1 .. Len(c)
      BY <1>1, <2>1
    <2> QED BY <2>1, <2>2
  <1>4. ASSUME ChainUnique(d) PROVE ChainUnique(c) /\ Find(c, e.key) = 0
    <2>1. ASSUME NEW i \in 1 .. Len(c) PROVE c[i].key # e.key
      <3>1. up[i] \in 1 .. Len(d) /\ up[i] # p /\ d[up[i]] = c[i]
        BY <1>2 DEF Corresponds
      <3> QED BY <1>1, <1>4, <3>1 DEF ChainUnique
    <2>2. ASSUME NEW i \in 1 .. Len(c), NEW j \in 1 .. Len(c), c[i].key = c[j].key
          PROVE  i = j
      <3>1. /\ up[i] \in 1 .. Len(d) /\ d[up[i]] = c[i]
            /\ up[j] \in 1 .. Len(d) /\ d[up[j]] = c[j]
        BY <1>2 DEF Corresponds
      <3>2. up[i] = up[j]
        BY <1>4, <2>2, <3>1 DEF ChainUnique
      <3> QED BY <1>2, <3>2 DEF Corresponds
    <2> QED BY <1>3, <2>1, <2>2 DEF ChainUnique
  <1>5. ASSUME ChainUnique(c), Find(c, e.key) = 0 PROVE ChainUnique(d)
    <2>1. ASSUME NEW i \in 1 .. Len(d), i # p PROVE d[i].key # e.key
      BY <1>2, <1>3, <1>5, <2>1, SMTT(60) DEF Corresponds
    <2>2. ASSUME NEW i \in 1 .. Len(d), NEW j \in 1 .. Len(d), d[i].key = d[j].key
          PROVE  i = j
      <3>1. CASE i = p \/ j = p
        BY <1>1, <2>1, <2>2, <3>1
      <3>2. CASE i # p /\ j # p
        <4>1. /\ down[i] \in 1 .. Len(c) /\ d[i] = c[down[i]]
              /\ down[j] \in 1 .. Len(c) /\ d[j] = c[down[j]]
          BY <1>2, <3>2 DEF Corresponds
        <4>2. down[i] = down[j]
          BY <1>5, <2>2, <4>1 DEF ChainUnique
        <4>3. up[down[i]] = i /\ up[down[j]] = j
          BY <1>2, <3>2 DEF Corresponds
        <4> QED BY <4>2, <4>3
      <3> QED BY <3>1, <3>2
    <2> QED BY <2>2 DEF ChainUnique
  <1> QED BY <1>4, <1>5

\* A lookup stays within the chain of its key and finds a node with that key.
LEMMA LookupTyped ==
    ASSUME NEW K, NEW V, NEW t, IsTable(t, K, V), NEW k \in K
    PROVE  /\ Chain(t, k) \in Seq(Node(K, V))
           /\ HashHas(t, k) => HashGetValue(t, k) \in V
  <1>1. Chain(t, k) \in Seq(Node(K, V))
    BY DEF IsTable, Chain
  <1> DEFINE c == Chain(t, k)
  <1>2. ASSUME HashHas(t, k) PROVE HashGetValue(t, k) \in V
    <2>1. Find(c, k) \in 0 .. Len(c) /\ Find(c, k) # 0 /\ Len(c) \in Nat
      BY <1>1, <1>2, FindFirst, LenProperties DEF HashHas
    <2>2. Find(c, k) \in 1 .. Len(c)
      BY <2>1
    <2>3. c[Find(c, k)] \in Node(K, V)
      BY <1>1, <2>2, ElementOfSeq
    <2> QED BY <2>3 DEF HashGetValue, Node
  <1> QED BY <1>1, <1>2

\* A call replaces the chain of one bucket, and nothing else.
LEMMA Rechained ==
    ASSUME NEW K, NEW V, NEW t, IsTable(t, K, V), NEW k \in K,
           NEW d \in Seq(Node(K, V)),
           NEW u, u = SetChain(t, k, d)
    PROVE  /\ IsTable(u, K, V)
           /\ \A x \in K : Chain(u, x) =
                  IF t.hashfun[x] = t.hashfun[k] THEN d ELSE Chain(t, x)
           /\ KeysUnique(t) => ChainUnique(Chain(t, k))
           /\ KeysUnique(t) /\ ChainUnique(d) => KeysUnique(u)
  <1> DEFINE h == t.hashfun[k]
             ch == [t.chain EXCEPT ![h] = d]
  <1>1. h \in DOMAIN t.chain
    BY DEF IsTable
  <1>2. u = [hashfun |-> t.hashfun, chain |-> ch]
    BY DEF IsTable, SetChain
  <1>3. DOMAIN ch = DOMAIN t.chain
    OBVIOUS
  <1>4. \A b \in DOMAIN t.chain : ch[b] = IF b = h THEN d ELSE t.chain[b]
    BY <1>1
  <1>5. ch \in [DOMAIN ch -> Seq(Node(K, V))]
    BY <1>1 DEF IsTable
  <1> HIDE DEF ch
  <1>6. u.hashfun = t.hashfun /\ u.chain = ch
    BY <1>2
  <1>7. IsTable(u, K, V)
    BY <1>2, <1>3, <1>5, <1>6 DEF IsTable
  <1>8. \A x \in K : Chain(u, x) = IF t.hashfun[x] = h THEN d ELSE Chain(t, x)
    <2>1. \A x \in K : t.hashfun[x] \in DOMAIN t.chain
      BY DEF IsTable
    <2> QED BY <1>4, <1>6, <2>1 DEF Chain
  <1>9. \A b \in DOMAIN t.chain : DOMAIN t.chain[b] = 1 .. Len(t.chain[b])
    BY LenProperties DEF IsTable
  <1>10. KeysUnique(t) => \A b \in DOMAIN t.chain : ChainUnique(t.chain[b])
    BY <1>9 DEF KeysUnique, ChainUnique
  <1>11. ASSUME KeysUnique(t), ChainUnique(d) PROVE KeysUnique(u)
    <2>1. ASSUME NEW b \in DOMAIN ch PROVE ChainUnique(ch[b])
      BY <1>3, <1>4, <1>10, <1>11
    <2>2. \A b \in DOMAIN ch : DOMAIN ch[b] = 1 .. Len(ch[b])
      BY <1>5, LenProperties
    <2>3. \A b \in DOMAIN ch : \A i, j \in DOMAIN ch[b] :
             ch[b][i].key = ch[b][j].key => i = j
      BY <2>1, <2>2, Zenon DEF ChainUnique
    <2> QED BY <1>6, <2>3, Zenon DEF KeysUnique
  <1> QED BY <1>1, <1>7, <1>8, <1>10, <1>11 DEF Chain

\* HashAddNode: the key is bound afterwards, every other key is bound as before,
\* and a key that was missing is bound to the new value.
LEMMA AddNode ==
    ASSUME NEW K, NEW V, NEW t, IsTable(t, K, V), NEW k \in K, NEW v \in V,
           NEW u, u = HashAddNode(t, k, v)
    PROVE  /\ IsTable(u, K, V)
           /\ \A x \in K : HashHas(u, x) <=> x = k \/ HashHas(t, x)
           /\ \A x \in K \ {k} : HashHas(t, x) => HashGetValue(u, x) = HashGetValue(t, x)
           /\ ~ HashHas(t, k) => HashGetValue(u, k) = v
           /\ KeysUnique(t) /\ ~ HashHas(t, k) => KeysUnique(u)
  <1> DEFINE c == Chain(t, k)
             e == [key |-> k, val |-> v]
             d == IF c = <<>> THEN <<e>> ELSE InsertAt(c, 2, e)
  <1>1. c \in Seq(Node(K, V)) /\ e \in Node(K, V) /\ e.key = k /\ e.val = v
    BY LookupTyped DEF Node
  <1> HIDE DEF e
  <1>2. d \in Seq(Node(K, V)) /\ \E p \in {1, 2} : LinkedIn(c, d, p, e)
    BY <1>1, SecondLinksIn
  <1>3. PICK p : LinkedIn(c, d, p, e)
    BY <1>2
  <1>4. u = SetChain(t, k, d)
    BY DEF HashAddNode, e
  <1> HIDE DEF c, d
  <1>5. /\ IsTable(u, K, V)
        /\ \A x \in K : Chain(u, x) =
               IF t.hashfun[x] = t.hashfun[k] THEN d ELSE Chain(t, x)
        /\ KeysUnique(t) => ChainUnique(c)
        /\ KeysUnique(t) /\ ChainUnique(d) => KeysUnique(u)
    BY <1>2, <1>4, Rechained DEF c
  <1>6. /\ \A x : x # k =>
               /\ Find(d, x) # 0 <=> Find(c, x) # 0
               /\ Find(c, x) # 0 => d[Find(d, x)] = c[Find(c, x)]
        /\ Find(d, k) # 0
        /\ Find(c, k) = 0 => d[Find(d, k)] = e
    BY <1>1, <1>2, <1>3, LinkedInFind
  <1>7. ChainUnique(d) <=> ChainUnique(c) /\ Find(c, k) = 0
    BY <1>1, <1>2, <1>3, LinkedInUnique
  <1>8. \A x \in K : t.hashfun[x] = t.hashfun[k] => Chain(t, x) = c
    BY DEF Chain, c
  <1>9. ASSUME NEW x \in K, x # k
        PROVE  /\ HashHas(u, x) <=> HashHas(t, x)
               /\ HashHas(t, x) => HashGetValue(u, x) = HashGetValue(t, x)
    BY <1>5, <1>6, <1>8, <1>9 DEF HashHas, HashGetValue
  <1>10. Chain(u, k) = d /\ HashHas(u, k)
    BY <1>5, <1>6 DEF HashHas
  <1>11. ~ HashHas(t, k) => HashGetValue(u, k) = v
    BY <1>1, <1>6, <1>10 DEF HashHas, HashGetValue, c
  <1>12. KeysUnique(t) /\ ~ HashHas(t, k) => KeysUnique(u)
    BY <1>5, <1>7 DEF HashHas, c
  <1> QED BY <1>5, <1>9, <1>10, <1>11, <1>12

\* HashDelete: every other key is bound as before, and in a table that binds no
\* key twice the key is unbound.
LEMMA DeleteNode ==
    ASSUME NEW K, NEW V, NEW t, IsTable(t, K, V), NEW k \in K,
           NEW u, u = HashDelete(t, k)
    PROVE  /\ IsTable(u, K, V)
           /\ \A x \in K \ {k} : HashHas(u, x) <=> HashHas(t, x)
           /\ \A x \in K \ {k} : HashHas(t, x) => HashGetValue(u, x) = HashGetValue(t, x)
           /\ HashHas(u, k) => HashHas(t, k)
           /\ KeysUnique(t) => KeysUnique(u) /\ ~ HashHas(u, k)
  <1> DEFINE c == Chain(t, k)
             p == Find(c, k)
             d == RemoveAt(c, p)
  <1>1. CASE ~ HashHas(t, k)
    BY <1>1 DEF HashDelete
  <1>2. CASE HashHas(t, k)
    <2>1. c \in Seq(Node(K, V)) /\ Len(c) \in Nat
      BY LookupTyped, LenProperties
    <2>2. p \in 1 .. Len(c) /\ c[p].key = k
      <3>1. p # 0 /\ p \in 0 .. Len(c) /\ (p # 0 => c[p].key = k)
        BY <1>2, <2>1, FindFirst DEF HashHas
      <3> QED BY <2>1, <3>1
    <2>3. c[p] \in Node(K, V)
      BY <2>1, <2>2, ElementOfSeq
    <2>4. u = SetChain(t, k, d)
      BY <1>2 DEF HashDelete
    <2> HIDE DEF c, p
    <2>5. d \in Seq(Node(K, V)) /\ LinkedIn(d, c, p, c[p])
      BY <2>1, <2>2, RemoveUnlinks
    <2> HIDE DEF d
    <2>6. /\ IsTable(u, K, V)
          /\ \A x \in K : Chain(u, x) =
                 IF t.hashfun[x] = t.hashfun[k] THEN d ELSE Chain(t, x)
          /\ KeysUnique(t) => ChainUnique(c)
          /\ KeysUnique(t) /\ ChainUnique(d) => KeysUnique(u)
      BY <2>4, <2>5, Rechained DEF c
    <2>7. \A x : x # k =>
             /\ Find(c, x) # 0 <=> Find(d, x) # 0
             /\ Find(d, x) # 0 => c[Find(c, x)] = d[Find(d, x)]
      BY <2>1, <2>2, <2>3, <2>5, LinkedInFind
    <2>8. ChainUnique(c) <=> ChainUnique(d) /\ Find(d, k) = 0
      BY <2>1, <2>2, <2>3, <2>5, LinkedInUnique
    <2>9. \A x \in K : t.hashfun[x] = t.hashfun[k] => Chain(t, x) = c
      BY DEF Chain, c
    <2>10. ASSUME NEW x \in K, x # k
           PROVE  /\ HashHas(u, x) <=> HashHas(t, x)
                  /\ HashHas(t, x) => HashGetValue(u, x) = HashGetValue(t, x)
      BY <2>6, <2>7, <2>9, <2>10 DEF HashHas, HashGetValue
    <2>11. KeysUnique(t) => KeysUnique(u) /\ ~ HashHas(u, k)
      BY <2>6, <2>8 DEF HashHas
    <2> QED BY <1>2, <2>6, <2>10, <2>11
  <1> QED BY <1>1, <1>2

\* A new table is empty.
LEMMA CreateTable ==
    ASSUME NEW K, NEW V, NEW n \in Nat, NEW f \in [K -> 0 .. n - 1],
           NEW u, u = HashCreateTable(n, f)
    PROVE  IsTable(u, K, V) /\ KeysUnique(u) /\ \A x \in K : ~ HashHas(u, x)
  <1>1. <<>> \in Seq(Node(K, V)) /\ Len(<<>>) = 0
    BY EmptySeq
  <1>2. u.hashfun = f /\ u.chain = [i \in 0 .. n - 1 |-> <<>>]
    BY DEF HashCreateTable
  <1>3. IsTable(u, K, V)
    BY <1>1, <1>2 DEF IsTable, HashCreateTable
  <1>4. KeysUnique(u)
    BY <1>2 DEF KeysUnique
  <1>5. ASSUME NEW x \in K PROVE ~ HashHas(u, x)
    <2>1. Chain(u, x) = <<>>
      BY <1>2 DEF Chain
    <2>2. Find(<<>>, x) \in 0 .. Len(<<>>)
      BY <1>1, FindFirst
    <2> QED BY <1>1, <2>1, <2>2 DEF HashHas
  <1> QED BY <1>3, <1>4, <1>5

-----------------------------------------------------------------------------
(* Types.                                                                  *)

USE DEF Goto

LEMMA InitTyped == Init => TypeInv
  <1> SUFFICES ASSUME Init PROVE TypeInv
    OBVIOUS
  <1>1. /\ IsTable(db_name_table, Clients, AllNames)
        /\ IsTable(db_handle_table, AllNames, HandleNodes)
    <2>1. 5 \in Nat /\ 0 .. 5 - 1 = 0 .. 4
      OBVIOUS
    <2> QED BY <2>1, HashAssumption, CreateTable DEF Init
  <1>2. NoName \in AllNames /\ Garbage \in Requests
    BY DEF AllNames, Garbage, Req, Requests, ArgFits, DataCmds
  <1>3. NoLocal \in Locals
    BY <1>2 DEF NoLocal, Locals
  <1>4. /\ [c \in Clients |-> <<>>] \in [Clients -> Seq(Requests)]
        /\ [w \in Workers |-> <<>>] \in [Workers -> Seq(Tasks)]
    OBVIOUS
  <1>5. TypeOK
    BY <1>1, <1>2, <1>3, <1>4, ReplaysAssumption, NoneAssumption
    DEF Init, TypeOK, PCs, Faults
  <1>6. \A w \in Workers : TaskInHand(w)
    BY DEF Init, TaskInHand
  <1> QED BY <1>5, <1>6 DEF TypeInv

\* A worker moves on: the others are where they were.
LEMMA WorkerMoves ==
    ASSUME TypeInv, NEW w \in Workers, NEW to \in PCs, NEW l \in Locals,
           pc' = [pc EXCEPT ![w] = to],
           local' = [local EXCEPT ![w] = l],
           to # "idle" =>
             /\ l.task \in Tasks
             /\ l.task.cmd \in CmdsAt(to)
             /\ to \in Critical \ {"open_hdb"} => l.dhn \in HandleNodes
             /\ to = "data_do" => l.db \in Handles
    PROVE  /\ pc' \in [Workers -> PCs]
           /\ local' \in [Workers -> Locals]
           /\ \A v \in Workers : TaskInHand(v)'
  <1>1. pc \in [Workers -> PCs] /\ local \in [Workers -> Locals]
    BY DEF TypeInv, TypeOK
  <1>2. pc' \in [Workers -> PCs] /\ local' \in [Workers -> Locals]
    BY <1>1
  <1>3. pc'[w] = to /\ local'[w] = l
    BY <1>1
  <1>4. TaskInHand(w)'
    BY <1>3 DEF TaskInHand, Cmd
  <1>5. ASSUME NEW v \in Workers, v # w PROVE TaskInHand(v)'
    <2>1. pc'[v] = pc[v] /\ local'[v] = local[v]
      BY <1>1, <1>5
    <2>2. TaskInHand(v)
      BY DEF TypeInv
    <2> QED BY <2>1, <2>2 DEF TaskInHand, Cmd
  <1> QED BY <1>2, <1>4, <1>5

LEMMA ClientTyped ==
    ASSUME TypeInv, NEW c \in Clients, ClientStep(c)
    PROVE  TypeInv'
  <1> USE DEF TypeInv, TypeOK
  <1>1. NoName \in AllNames /\ Names \subseteq AllNames /\ JoinNames \subseteq AllNames
    BY NamesAssumption DEF AllNames
  <1>2. /\ \A n \in AllNames : Req("OPEN", n) \in Requests
        /\ \A cmd \in DataCmds, k \in Keys : Req(cmd, k) \in Requests
        /\ \A cmd \in {"CLOSE", "EXIT"} : Req(cmd, NoName) \in Requests
    BY <1>1 DEF Req, Requests, ArgFits, Cmds, DataCmds
  <1>3. \A req \in Requests : Send(c, req) =>
           /\ request' \in [Clients -> Requests]
           /\ answer' \in [Clients -> Answers \cup {None}]
           /\ inbox' \in [Clients -> Seq(Requests)]
    BY DEF Send
  <1>4. /\ UNCHANGED serverVars
        /\ \/ UNCHANGED <<request, answer, inbox>>
           \/ \E req \in Requests : Send(c, req)
        /\ cstate' \in [Clients -> {"off", "ready", "wait", "gone"}]
        /\ DBName' \in [Clients -> AllNames]
        /\ sock' \in [Clients -> {"none", "open", "closed"}]
    <2> USE <1>1, <1>2
    <2>1. CASE Connect(c)
      BY <2>1 DEF Connect, serverVars
    <2>2. CASE \E n \in JoinNames : Join(c, n)
      BY <2>2 DEF Join
    <2>3. CASE \E n \in Names : ClientOpen(c, n)
      BY <2>3 DEF ClientOpen, Wait
    <2>4. CASE \E cmd \in DataCmds, k \in Keys : ClientData(c, cmd, k)
      BY <2>4 DEF ClientData, Wait
    <2>5. CASE ClientClose(c)
      BY <2>5 DEF ClientClose, Wait
    <2>6. CASE ClientExit(c)
      BY <2>6 DEF ClientExit
    <2>7. CASE ClientCrash(c)
      BY <2>7 DEF ClientCrash
    <2> QED BY <2>1, <2>2, <2>3, <2>4, <2>5, <2>6, <2>7 DEF ClientStep
  <1>5. /\ request' \in [Clients -> Requests]
        /\ answer' \in [Clients -> Answers \cup {None}]
        /\ inbox' \in [Clients -> Seq(Requests)]
    BY <1>3, <1>4
  <1> QED BY <1>4, <1>5 DEF serverVars, tableVars, fileVars, TaskInHand, Cmd

LEMMA EventTyped ==
    ASSUME TypeInv, NEW c \in Clients, Receive(c) \/ ReceiveEOF(c)
    PROVE  TypeInv'
  <1> USE DEF TypeInv, TypeOK
  <1>1. Garbage \in Requests
    BY DEF Garbage, Req, Requests, ArgFits, DataCmds, AllNames
  <1>2. \A req \in Requests : Task(c, req) \in Tasks
    BY DEF Task, Requests, Tasks, ArgFits
  <1>3. \A w \in Workers, t \in Tasks :
           Enqueue(w, t) => thread_msg_table' \in [Workers -> Seq(Tasks)]
    BY DEF Enqueue
  <1>4. /\ stack' \in Requests
        /\ replays' \in 0 .. MaxReplays
        /\ inbox' \in [Clients -> Seq(Requests)]
        /\ thread_msg_table' \in [Workers -> Seq(Tasks)]
        /\ UNCHANGED <<clientVars, sock, tableVars, fileVars, pc, local, fault>>
    <2>1. CASE Receive(c)
      <3>1. Head(inbox[c]) \in Requests /\ Tail(inbox[c]) \in Seq(Requests)
        BY <2>1 DEF Receive
      <3>2. thread_msg_table' \in [Workers -> Seq(Tasks)]
        BY <1>2, <1>3, <2>1, <3>1 DEF Receive
      <3> QED BY <2>1, <3>1, <3>2 DEF Receive
    <2>2. CASE ReceiveEOF(c)
      <3>1. thread_msg_table' \in [Workers -> Seq(Tasks)]
        BY <1>1, <1>2, <1>3, <2>2 DEF ReceiveEOF
      <3>2. replays' \in 0 .. MaxReplays
        BY <2>2, ReplaysAssumption DEF ReceiveEOF
      <3> QED BY <2>2, <3>1, <3>2 DEF ReceiveEOF
    <2> QED BY <2>1, <2>2
  <1> QED BY <1>4 DEF clientVars, tableVars, fileVars, TaskInHand, Cmd

\* The fields of a worker's variables are set one at a time.
LEMMA SetLocal ==
    ASSUME NEW l \in Locals
    PROVE  /\ \A t \in Tasks : [l EXCEPT !.task = t] \in Locals
           /\ \A n \in AllNames : [l EXCEPT !.dbname = n] \in Locals
           /\ \A d \in HandleNodes : [l EXCEPT !.dhn = d] \in Locals
           /\ \A h \in Handles : [l EXCEPT !.db = h] \in Locals
           /\ \A a \in Answers : [l EXCEPT !.out = a] \in Locals
  BY DEF Locals

Advance(w, to, l) ==
    /\ to \in PCs
    /\ l \in Locals
    /\ pc' = [pc EXCEPT ![w] = to]
    /\ local' = [local EXCEPT ![w] = l]
    /\ to # "idle" =>
         /\ l.task \in Tasks
         /\ l.task.cmd \in CmdsAt(to)
         /\ to \in Critical \ {"open_hdb"} => l.dhn \in HandleNodes
         /\ to = "data_do" => l.db \in Handles

\* What a step of a worker may change, with its types.
LEMMA WorkerTyped ==
    ASSUME TypeInv, NEW w \in Workers, NEW to, NEW l, Advance(w, to, l),
           UNCHANGED <<request, inbox, stack, replays>>,
           cstate' \in [Clients -> {"off", "ready", "wait", "gone"}],
           DBName' \in [Clients -> AllNames],
           answer' \in [Clients -> Answers \cup {None}],
           sock' \in [Clients -> {"none", "open", "closed"}],
           thread_msg_table' \in [Workers -> Seq(Tasks)],
           dbmutex' \in Workers \cup {None},
           IsTable(db_name_table', Clients, AllNames),
           IsTable(db_handle_table', AllNames, HandleNodes),
           hdb' \in [Handles -> Names \cup {None}],
           store' \in [Names -> [Bytes -> Keys \cup {None}]],
           fault' \in Faults
    PROVE  TypeInv'
  <1>1. /\ pc' \in [Workers -> PCs]
        /\ local' \in [Workers -> Locals]
        /\ \A v \in Workers : TaskInHand(v)'
    BY WorkerMoves DEF Advance
  <1> QED BY <1>1 DEF TypeInv, TypeOK

\* What is typed in every state.
LEMMA Typed ==
    ASSUME TypeInv, NEW w \in Workers
    PROVE  /\ cstate \in [Clients -> {"off", "ready", "wait", "gone"}]
           /\ DBName \in [Clients -> AllNames]
           /\ answer \in [Clients -> Answers \cup {None}]
           /\ sock \in [Clients -> {"none", "open", "closed"}]
           /\ thread_msg_table \in [Workers -> Seq(Tasks)]
           /\ dbmutex \in Workers \cup {None}
           /\ IsTable(db_name_table, Clients, AllNames)
           /\ IsTable(db_handle_table, AllNames, HandleNodes)
           /\ hdb \in [Handles -> Names \cup {None}]
           /\ store \in [Names -> [Bytes -> Keys \cup {None}]]
           /\ fault \in Faults
           /\ pc \in [Workers -> PCs]
           /\ local \in [Workers -> Locals]
           /\ local[w] \in Locals
           /\ DbOf(w) \in AllNames
           /\ pc[w] # "idle" =>
                /\ local[w].task \in Tasks
                /\ Fd(w) \in Clients
                /\ Cmd(w) \in CmdsAt(pc[w])
                /\ Cmd(w) = "OPEN" => Arg(w) \in AllNames
                /\ Cmd(w) \in DataCmds => Arg(w) \in Keys
                /\ pc[w] \in Critical \ {"open_hdb"} => local[w].dhn \in HandleNodes
                /\ pc[w] = "data_do" => local[w].db \in Handles
  <1>1. TaskInHand(w) /\ TypeOK
    BY DEF TypeInv
  <1>2. local[w] \in Locals /\ DbOf(w) \in AllNames
    BY <1>1 DEF TypeOK, Locals, DbOf
  <1>3. \A t \in Tasks : t.sockfd \in Clients /\ (t.cmd = "OPEN" => t.arg \in AllNames)
                         /\ (t.cmd \in DataCmds => t.arg \in Keys)
    BY DEF Tasks, ArgFits, DataCmds
  <1> QED BY <1>1, <1>2, <1>3 DEF TypeOK, TaskInHand, Fd, Cmd, Arg

LEMMA TakeTaskTyped ==
    ASSUME TypeInv, NEW w \in Workers, TakeTask(w)
    PROVE  TypeInv'
  <1> DEFINE task == Head(thread_msg_table[w])
             to == Entry[task.cmd]
             l == IF task.cmd = "none" THEN NoLocal ELSE [NoLocal EXCEPT !.task = task]
  <1>1. task \in Tasks /\ Tail(thread_msg_table[w]) \in Seq(Tasks)
    BY Typed DEF TakeTask
  <1>2. task.cmd \in Cmds \cup {"none"}
    BY <1>1 DEF Tasks
  <1>3. NoLocal \in Locals
    BY DEF NoLocal, Locals, AllNames
  <1>4. l \in Locals /\ (task.cmd # "none" => l.task = task)
    BY <1>1, <1>3, SetLocal DEF NoLocal
  <1>5. /\ to \in PCs
        /\ to # "idle" => task.cmd # "none" /\ task.cmd \in CmdsAt(to)
        /\ to \notin Critical /\ to # "data_do"
    BY <1>2 DEF Entry, Cmds, DataCmds, PCs, CmdsAt, Critical
  <1>6. Advance(w, to, l)
    BY <1>1, <1>4, <1>5 DEF Advance, TakeTask
  <1>7. thread_msg_table' \in [Workers -> Seq(Tasks)]
    BY <1>1, Typed DEF TakeTask
  <1> HIDE DEF to, l
  <1> QED BY <1>6, <1>7, Typed, WorkerTyped
          DEF TakeTask, envVars, clientVars, netVars, tableVars, fileVars

LEMMA OpenTyped ==
    ASSUME TypeInv, NEW w \in Workers,
           \/ OpenName(w) \/ OpenLock(w) \/ OpenFirst(w) \/ OpenUnlist(w) \/ OpenRelist(w)
    PROVE  TypeInv'
  <1> USE DEF inner, envVars, clientVars, netVars, tableVars, fileVars
  <1>1. CASE OpenName(w)
    <2>1. Fd(w) \in Clients /\ Arg(w) \in AllNames /\ Cmd(w) = "OPEN"
      BY <1>1, Typed DEF OpenName, CmdsAt
    <2>2. IsTable(db_name_table', Clients, AllNames)
      BY <1>1, <2>1, Typed, AddNode DEF OpenName
    <2>3. Advance(w, "open_lock", [local[w] EXCEPT !.dbname = Arg(w)])
      BY <1>1, <2>1, Typed, SetLocal DEF OpenName, Advance, PCs, CmdsAt, Critical, Cmd
    <2> QED BY <1>1, <2>2, <2>3, Typed, WorkerTyped DEF OpenName
  <1>2. CASE OpenLock(w)
    <2>1. Cmd(w) = "OPEN" /\ local[w].task \in Tasks
      BY <1>2, Typed DEF OpenLock, CmdsAt
    <2>2. CASE HashHas(db_handle_table, DbOf(w))
      <3>1. HashGetValue(db_handle_table, DbOf(w)) \in HandleNodes
        BY <2>2, Typed, LookupTyped
      <3>2. Advance(w, "open_del",
              [local[w] EXCEPT !.dhn = HashGetValue(db_handle_table, DbOf(w))])
        BY <1>2, <2>1, <2>2, <3>1, Typed, SetLocal
           DEF OpenLock, Advance, PCs, CmdsAt, Cmd, Locals
      <3> QED BY <1>2, <3>2, Typed, WorkerTyped DEF OpenLock, Lock
    <2>3. CASE ~ HashHas(db_handle_table, DbOf(w))
      <3>1. Advance(w, "open_hdb", local[w])
        BY <1>2, <2>1, <2>3, Typed DEF OpenLock, Advance, PCs, CmdsAt, Critical, Cmd
      <3> QED BY <1>2, <3>1, Typed, WorkerTyped DEF OpenLock, Lock
    <2> QED BY <2>2, <2>3
  <1>3. CASE OpenFirst(w)
    <2>1. Cmd(w) = "OPEN" /\ local[w].task \in Tasks
      BY <1>3, Typed DEF OpenFirst, CmdsAt
    <2>2. Ans("OPEN_OK") \in Answers /\ Ans("ERROR") \in Answers
      BY DEF Ans, Answers, Codes
    <2>3. PICK a \in Answers : local' = [local EXCEPT ![w].out = a]
      BY <1>3, <2>2 DEF OpenFirst
    <2>4. Advance(w, "reply", [local[w] EXCEPT !.out = a])
      BY <1>3, <2>1, <2>3, Typed, SetLocal
         DEF OpenFirst, Advance, PCs, CmdsAt, Critical, Cmd, Cmds
    <2>5. /\ hdb' \in [Handles -> Names \cup {None}]
          /\ IsTable(db_handle_table', AllNames, HandleNodes)
      <3>1. CASE DbOf(w) \in FailNames
        BY <1>3, <3>1, Typed DEF OpenFirst
      <3>2. CASE DbOf(w) \notin FailNames
        <4>1. DbOf(w) \in Names
          BY <3>2, Typed, NamesAssumption DEF AllNames
        <4>2. PICK h \in Handles :
                /\ hdb' = [hdb EXCEPT ![h] = DbOf(w)]
                /\ db_handle_table' =
                      HashAddNode(db_handle_table, DbOf(w), [hdb |-> h, links |-> 1])
          BY <1>3, <3>2 DEF OpenFirst
        <4>3. [hdb |-> h, links |-> 1] \in HandleNodes
          BY DEF HandleNodes
        <4>4. IsTable(db_handle_table', AllNames, HandleNodes)
          BY <4>2, <4>3, Typed, AddNode
        <4> QED BY <4>1, <4>2, <4>4, Typed
      <3> QED BY <3>1, <3>2
    <2> QED BY <1>3, <2>4, <2>5, Typed, WorkerTyped DEF OpenFirst, Unlock
  <1>4. CASE OpenUnlist(w)
    <2>1. /\ Cmd(w) = "OPEN" /\ local[w].task \in Tasks
          /\ local[w].dhn \in HandleNodes
      BY <1>4, Typed DEF OpenUnlist, CmdsAt, Critical
    <2>2. Relinked(local[w].dhn, 1) \in HandleNodes
      BY <2>1 DEF HandleNodes, Relinked
    <2>3. Advance(w, "open_add",
            [local[w] EXCEPT !.dhn = Relinked(local[w].dhn, 1)])
      BY <1>4, <2>1, <2>2, Typed, SetLocal
         DEF OpenUnlist, Advance, PCs, CmdsAt, Cmd, Locals
    <2>4. IsTable(db_handle_table', AllNames, HandleNodes)
      BY <1>4, Typed, DeleteNode DEF OpenUnlist
    <2> QED BY <1>4, <2>3, <2>4, Typed, WorkerTyped DEF OpenUnlist
  <1>5. CASE OpenRelist(w)
    <2>1. /\ Cmd(w) = "OPEN" /\ local[w].task \in Tasks
          /\ local[w].dhn \in HandleNodes
      BY <1>5, Typed DEF OpenRelist, CmdsAt, Critical
    <2>2. Ans("OPEN_OK") \in Answers
      BY DEF Ans, Answers, Codes
    <2>3. Advance(w, "reply", [local[w] EXCEPT !.out = Ans("OPEN_OK")])
      BY <1>5, <2>1, <2>2, Typed, SetLocal
         DEF OpenRelist, Advance, PCs, CmdsAt, Critical, Cmd, Cmds
    <2>4. IsTable(db_handle_table', AllNames, HandleNodes)
      BY <1>5, <2>1, Typed, AddNode DEF OpenRelist
    <2> QED BY <1>5, <2>3, <2>4, Typed, WorkerTyped DEF OpenRelist, Unlock
  <1> QED BY <1>1, <1>2, <1>3, <1>4, <1>5

\* A missing binding leaves dbname arbitrary, and still a name.
LEMMA NamesFound ==
    ASSUME TypeInv, NEW w \in Workers, pc[w] # "idle"
    PROVE  LookupName(w) \subseteq AllNames
  BY Typed, LookupTyped DEF LookupName

LEMMA UnbindTyped ==
    ASSUME TypeInv, NEW w \in Workers,
           UnbindGet(w) \/ UnbindDelete(w) \/ UnlinkLock(w)
    PROVE  TypeInv'
  <1> USE DEF inner, envVars, clientVars, netVars, tableVars, fileVars
  <1>1. CASE UnbindGet(w)
    <2>1. Cmd(w) \in {"CLOSE", "EXIT"} /\ local[w].task \in Tasks
      BY <1>1, Typed DEF UnbindGet, CmdsAt
    <2>2. CASE pc'[w] = "exit_close"
      <3>1. Advance(w, "exit_close", local[w])
        BY <1>1, <2>1, <2>2, Typed DEF UnbindGet, Advance, PCs, CmdsAt, Critical, Cmd
      <3> QED BY <1>1, <3>1, Typed, WorkerTyped DEF UnbindGet
    <2>3. CASE pc'[w] # "exit_close"
      <3>1. PICK n \in AllNames : local' = [local EXCEPT ![w].dbname = n]
        BY <1>1, <2>3, Typed, NamesFound DEF UnbindGet
      <3>2. Advance(w, "unbind_del", [local[w] EXCEPT !.dbname = n])
        BY <1>1, <2>1, <2>3, <3>1, Typed, SetLocal
           DEF UnbindGet, Advance, PCs, CmdsAt, Critical, Cmd
      <3> QED BY <1>1, <3>2, Typed, WorkerTyped DEF UnbindGet
    <2> QED BY <2>2, <2>3
  <1>2. CASE UnbindDelete(w)
    <2>1. /\ Cmd(w) \in {"CLOSE", "EXIT"} /\ local[w].task \in Tasks
          /\ Fd(w) \in Clients
      BY <1>2, Typed DEF UnbindDelete, CmdsAt
    <2>2. Advance(w, "unlink_lock", local[w])
      BY <1>2, <2>1, Typed DEF UnbindDelete, Advance, PCs, CmdsAt, Critical, Cmd
    <2>3. IsTable(db_name_table', Clients, AllNames)
      BY <1>2, <2>1, Typed, DeleteNode DEF UnbindDelete
    <2> QED BY <1>2, <2>2, <2>3, Typed, WorkerTyped DEF UnbindDelete
  <1>3. CASE UnlinkLock(w)
    <2>1. Cmd(w) \in {"CLOSE", "EXIT"} /\ local[w].task \in Tasks
      BY <1>3, Typed DEF UnlinkLock, CmdsAt
    <2>2. CASE HashHas(db_handle_table, DbOf(w))
      <3> DEFINE dhn == HashGetValue(db_handle_table, DbOf(w))
                 d == Relinked(dhn, -1)
                 to == AfterUnlink(dhn.links - 1)
      <3>1. dhn \in HandleNodes
        BY <2>2, Typed, LookupTyped
      <3>2. d \in HandleNodes
        BY <3>1 DEF HandleNodes, Relinked
      <3>3. to \in {"close_hdb", "relink_del"}
        BY DEF AfterUnlink
      <3>4. pc' = [pc EXCEPT ![w] = to] /\ local' = [local EXCEPT ![w].dhn = d]
        BY <1>3, <2>2 DEF UnlinkLock
      <3> HIDE DEF d, to
      <3>5. Advance(w, to, [local[w] EXCEPT !.dhn = d])
        BY <2>1, <3>2, <3>3, <3>4, Typed, SetLocal
           DEF Advance, PCs, CmdsAt, Cmd, Locals
      <3> QED BY <1>3, <2>2, <3>5, Typed, WorkerTyped DEF UnlinkLock, Lock
    <2>3. CASE ~ HashHas(db_handle_table, DbOf(w))
      <3>1. UNCHANGED <<pc, local>> /\ fault' = "uninitialised handle" /\ dbmutex' = w
        BY <1>3, <2>3 DEF UnlinkLock, Lock
      <3> QED BY <1>3, <3>1 DEF UnlinkLock, TypeInv, TypeOK, Faults, TaskInHand, Cmd
    <2> QED BY <2>2, <2>3
  <1> QED BY <1>1, <1>2, <1>3

LEMMA CloseTyped ==
    ASSUME TypeInv, NEW w \in Workers,
           \/ CloseLast(w) \/ CloseUnlist(w) \/ UnlinkUnlist(w) \/ UnlinkRelist(w)
           \/ ExitClose(w)
    PROVE  TypeInv'
  <1> USE DEF inner, envVars, clientVars, netVars, tableVars, fileVars
  <1>0. /\ Cmd(w) \in {"CLOSE", "EXIT"} /\ local[w].task \in Tasks
        /\ ~ ExitClose(w) => local[w].dhn \in HandleNodes
    BY Typed DEF CloseLast, CloseUnlist, UnlinkUnlist, UnlinkRelist, ExitClose,
                 CmdsAt, Critical
  <1>a. Closed(w) \in {"exit_close", "reply"} /\ (Closed(w) = "exit_close" <=> Cmd(w) = "EXIT")
    BY DEF Closed
  <1>b. Ans("CLOSE_OK") \in Answers
    BY DEF Ans, Answers, Codes
  <1>1. CASE CloseLast(w)
    <2>1. Advance(w, "close_del", local[w])
      BY <1>0, <1>1, Typed DEF CloseLast, ExitClose, Advance, PCs, CmdsAt, Cmd
    <2> QED BY <1>1, <2>1, Typed, WorkerTyped DEF CloseLast
  <1>2. CASE CloseUnlist(w)
    <2>1. Advance(w, Closed(w), [local[w] EXCEPT !.out = Ans("CLOSE_OK")])
      BY <1>0, <1>2, <1>a, <1>b, Typed, SetLocal
         DEF CloseUnlist, Advance, PCs, CmdsAt, Critical, Cmd, Cmds
    <2>2. IsTable(db_handle_table', AllNames, HandleNodes)
      BY <1>2, Typed, DeleteNode DEF CloseUnlist
    <2> QED BY <1>2, <2>1, <2>2, Typed, WorkerTyped DEF CloseUnlist, Unlock
  <1>3. CASE UnlinkUnlist(w)
    <2>1. Advance(w, "relink_add", local[w])
      BY <1>0, <1>3, Typed DEF UnlinkUnlist, ExitClose, Advance, PCs, CmdsAt, Cmd
    <2>2. IsTable(db_handle_table', AllNames, HandleNodes)
      BY <1>3, Typed, DeleteNode DEF UnlinkUnlist
    <2> QED BY <1>3, <2>1, <2>2, Typed, WorkerTyped DEF UnlinkUnlist
  <1>4. CASE UnlinkRelist(w)
    <2>1. Advance(w, Closed(w), [local[w] EXCEPT !.out = Ans("CLOSE_OK")])
      BY <1>0, <1>4, <1>a, <1>b, Typed, SetLocal
         DEF UnlinkRelist, Advance, PCs, CmdsAt, Critical, Cmd, Cmds
    <2>2. local[w].dhn \in HandleNodes
      BY <1>0, <1>4, Typed DEF UnlinkRelist, Critical
    <2>3. IsTable(db_handle_table', AllNames, HandleNodes)
      BY <1>4, <2>2, Typed, AddNode DEF UnlinkRelist
    <2> QED BY <1>4, <2>1, <2>3, Typed, WorkerTyped DEF UnlinkRelist, Unlock
  <1>5. CASE ExitClose(w)
    <2>1. NoLocal \in Locals
      BY DEF NoLocal, Locals, AllNames
    <2>2. Advance(w, "idle", NoLocal)
      BY <1>5, <2>1 DEF ExitClose, Advance, PCs
    <2> QED BY <1>5, <2>2, Typed, WorkerTyped DEF ExitClose
  <1> QED BY <1>1, <1>2, <1>3, <1>4, <1>5

\* A data request on an open database writes and answers what is typed.
LEMMA FileTyped ==
    ASSUME TypeInv, NEW w \in Workers, pc[w] = "data_do",
           NEW n \in Names, DataOnFile(w, n)
    PROVE  /\ store' \in [Names -> [Bytes -> Keys \cup {None}]]
           /\ \E a \in Answers : local' = [local EXCEPT ![w].out = a]
  <1> DEFINE b == ByteOfKey(Arg(w))
  <1>1. Arg(w) \in Keys /\ store \in [Names -> [Bytes -> Keys \cup {None}]]
    BY Typed DEF CmdsAt
  <1>2. b \in Bytes
    BY <1>1 DEF Bytes
  <1>3. \A code \in Codes : Ans(code) \in Answers
    BY DEF Ans, Answers
  <1>4. {"PUT_OK", "DELETE_OK", "ERROR"} \subseteq Codes
    BY DEF Codes
  <1> HIDE DEF b
  <1>5. \A v \in Keys \cup {None} : [store[n] EXCEPT ![b] = v] \in [Bytes -> Keys \cup {None}]
    BY <1>1
  <1>6. \A r \in [Bytes -> Keys \cup {None}] :
           [store EXCEPT ![n] = r] \in [Names -> [Bytes -> Keys \cup {None}]]
    BY <1>1
  <1>7. CASE /\ store' = [store EXCEPT ![n] = [store[n] EXCEPT ![b] = Arg(w)]]
             /\ local' = [local EXCEPT ![w].out = Ans("PUT_OK")]
    BY <1>1, <1>3, <1>4, <1>5, <1>6, <1>7
  <1>8. CASE /\ store' = [store EXCEPT ![n] = [store[n] EXCEPT ![b] = None]]
             /\ local' = [local EXCEPT ![w].out = Ans("DELETE_OK")]
    BY <1>1, <1>3, <1>4, <1>5, <1>6, <1>8
  <1>9. CASE /\ store' = store
             /\ local' = [local EXCEPT ![w].out = [code |-> "GET_OK", val |-> store[n][b]]]
    <2>1. store[n][b] \in Keys \cup {None}
      BY <1>1, <1>2
    <2>2. [code |-> "GET_OK", val |-> store[n][b]] \in Answers
      BY <2>1 DEF Answers, Codes
    <2> QED BY <1>1, <1>9, <2>2
  <1>10. CASE store' = store /\ local' = [local EXCEPT ![w].out = Ans("ERROR")]
    BY <1>1, <1>3, <1>4, <1>10
  <1> QED BY <1>7, <1>8, <1>9, <1>10 DEF DataOnFile, b

LEMMA DataTyped ==
    ASSUME TypeInv, NEW w \in Workers, DataName(w) \/ DataHandle(w) \/ DataDo(w)
    PROVE  TypeInv'
  <1> USE DEF inner, envVars, clientVars, netVars, tableVars, fileVars
  <1>0. Cmd(w) \in DataCmds /\ local[w].task \in Tasks
    BY Typed DEF DataName, DataHandle, DataDo, CmdsAt
  <1>1. CASE DataName(w)
    <2>1. PICK n \in AllNames : local' = [local EXCEPT ![w].dbname = n]
      BY <1>1, NamesFound DEF DataName
    <2> DEFINE l == [local[w] EXCEPT !.dbname = n]
    <2>a. l \in Locals /\ l.task = local[w].task /\ local' = [local EXCEPT ![w] = l]
      BY <2>1, Typed, SetLocal DEF Locals
    <2>b. /\ pc' = [pc EXCEPT ![w] = "data_handle"]
          /\ "data_handle" \in PCs \ Critical
          /\ CmdsAt("data_handle") = DataCmds
      BY <1>1 DEF DataName, PCs, CmdsAt, Critical
    <2> HIDE DEF l
    <2>2. Advance(w, "data_handle", l)
      BY <1>0, <2>a, <2>b DEF Advance, Cmd
    <2> QED BY <1>1, <2>2, Typed, WorkerTyped DEF DataName
  <1>2. CASE DataHandle(w)
    <2>1. CASE HashHas(db_handle_table, DbOf(w))
      <3> DEFINE h == HashGetValue(db_handle_table, DbOf(w)).hdb
      <3>0. HashGetValue(db_handle_table, DbOf(w)) \in HandleNodes
        BY <2>1, Typed, LookupTyped
      <3>1. h \in Handles
        BY <3>0 DEF HandleNodes
      <3>2. pc' = [pc EXCEPT ![w] = "data_do"] /\ local' = [local EXCEPT ![w].db = h]
        BY <1>2, <2>1 DEF DataHandle
      <3> HIDE DEF h
      <3>3. Advance(w, "data_do", [local[w] EXCEPT !.db = h])
        BY <1>0, <3>1, <3>2, Typed, SetLocal
           DEF Advance, PCs, CmdsAt, Critical, Cmd, Locals
      <3> QED BY <1>2, <3>3, Typed, WorkerTyped DEF DataHandle
    <2>2. CASE ~ HashHas(db_handle_table, DbOf(w))
      <3>1. Ans("ERROR") \in Answers
        BY DEF Ans, Answers, Codes
      <3>2. Advance(w, "reply", [local[w] EXCEPT !.out = Ans("ERROR")])
        BY <1>0, <1>2, <2>2, <3>1, Typed, SetLocal
           DEF DataHandle, Advance, PCs, CmdsAt, Critical, Cmd, Cmds
      <3> QED BY <1>2, <3>2, Typed, WorkerTyped DEF DataHandle
    <2> QED BY <2>1, <2>2
  <1>3. CASE DataDo(w)
    <2>1. local[w].db \in Handles
      BY <1>3, Typed DEF DataDo
    <2>2. CASE hdb[local[w].db] # None
      <3> DEFINE n == hdb[local[w].db]
      <3>1. n \in Names
        BY <2>1, <2>2, Typed
      <3>2. DataOnFile(w, n) /\ pc' = [pc EXCEPT ![w] = "reply"] /\ fault' = fault
            /\ pc[w] = "data_do"
        BY <1>3, <2>2 DEF DataDo
      <3> HIDE DEF n
      <3>3. store' \in [Names -> [Bytes -> Keys \cup {None}]]
        BY <3>1, <3>2, FileTyped
      <3>4. PICK a \in Answers : local' = [local EXCEPT ![w].out = a]
        BY <3>1, <3>2, FileTyped, Zenon
      <3>5. Advance(w, "reply", [local[w] EXCEPT !.out = a])
        BY <1>0, <3>2, <3>4, Typed, SetLocal
           DEF Advance, PCs, CmdsAt, Critical, Cmd, Cmds
      <3> QED BY <1>3, <3>2, <3>3, <3>5, Typed, WorkerTyped DEF DataDo
    <2>3. CASE hdb[local[w].db] = None
      <3>1. UNCHANGED <<pc, local, store>> /\ fault' = "use of a closed handle"
        BY <1>3, <2>3 DEF DataDo
      <3> QED BY <1>3, <3>1 DEF DataDo, TypeInv, TypeOK, Faults, TaskInHand, Cmd
    <2> QED BY <2>2, <2>3
  <1> QED BY <1>1, <1>2, <1>3

LEMMA ReplyTyped ==
    ASSUME TypeInv, NEW w \in Workers, Reply(w)
    PROVE  TypeInv'
  <1>1. local[w].out \in Answers \cup {None} /\ NoLocal \in Locals
    BY Typed DEF Locals, NoLocal, AllNames
  <1>2. Advance(w, "idle", NoLocal)
    BY <1>1 DEF Reply, Advance, PCs
  <1>3. /\ cstate' \in [Clients -> {"off", "ready", "wait", "gone"}]
        /\ DBName' \in [Clients -> AllNames]
        /\ answer' \in [Clients -> Answers \cup {None}]
        /\ fault' \in Faults
    BY <1>1, Typed DEF Reply, AllNames, Faults
  <1> QED BY <1>2, <1>3, Typed, WorkerTyped
          DEF Reply, netVars, tableVars, fileVars

LEMMA WorkerStepTyped ==
    ASSUME TypeInv, NEW w \in Workers, WorkerStep(w)
    PROVE  TypeInv'
  BY TakeTaskTyped, OpenTyped, UnbindTyped, CloseTyped, DataTyped, ReplyTyped
     DEF WorkerStep

LEMMA TypeInductive == TypeInv /\ [Next]_vars => TypeInv'
  <1> SUFFICES ASSUME TypeInv, [Next]_vars PROVE TypeInv'
    OBVIOUS
  <1>1. CASE Next
    BY <1>1, ClientTyped, EventTyped, WorkerStepTyped DEF Next
  <1>2. CASE UNCHANGED vars
    BY <1>2 DEF vars, clientVars, netVars, tableVars, fileVars,
                TypeInv, TypeOK, TaskInHand, Cmd
  <1> QED BY <1>1, <1>2

\* Whatever clients do, whichever requests are replayed and whichever opens
\* fail, the tables, the queues and the workers' variables stay well formed
\* (dbserver.c:46-71, 103-118).
THEOREM TypeCorrect == Spec => []TypeOK
  <1>1. TypeInv => TypeOK
    BY DEF TypeInv
  <1> QED BY <1>1, InitTyped, TypeInductive, PTL DEF Spec

-----------------------------------------------------------------------------
(* The handle table agrees with the open databases.                        *)

LEMMA InitHandles == Init => HandleInv
  <1> SUFFICES ASSUME Init PROVE HandleInv
    OBVIOUS
  <1>1. KeysUnique(db_handle_table) /\ \A n \in AllNames : ~ Listed(n)
    <2>1. 5 \in Nat /\ 0 .. 5 - 1 = 0 .. 4
      OBVIOUS
    <2> QED BY <2>1, HashAssumption, CreateTable DEF Init, Listed
  <1>2. \A w \in Workers : pc[w] = "idle"
    BY DEF Init
  <1>3. \A h \in Handles : hdb[h] = None
    BY DEF Init
  <1>4. MutexHeld /\ \A w \in Workers : Knows(w)
    BY <1>2 DEF MutexHeld, Critical, Knows
  <1>5. EntriesOK /\ HandlesOK
    BY <1>1, <1>3 DEF EntriesOK, HandlesOK
  <1> QED BY <1>1, <1>4, <1>5, InitTyped DEF HandleInv

\* A listed entry names a handle.
LEMMA EntryTyped ==
    ASSUME TypeInv, NEW n \in AllNames, Listed(n)
    PROVE  ListedAs(n) \in HandleNodes /\ ListedAs(n).hdb \in Handles
  <1>1. IsTable(db_handle_table, AllNames, HandleNodes)
    BY DEF TypeInv, TypeOK
  <1>2. ListedAs(n) \in HandleNodes
    BY <1>1, LookupTyped DEF Listed, ListedAs
  <1> QED BY <1>2 DEF HandleNodes

\* A step that leaves the table, the databases and the mutex alone.
LEMMA QuietStep ==
    ASSUME HandleInv, TypeInv',
           UNCHANGED <<dbmutex, db_handle_table, hdb>>,
           \A w \in Workers :
              \/ pc'[w] = pc[w] /\ local'[w] = local[w]
              \/ pc[w] \notin Critical /\ pc'[w] \notin Critical
    PROVE  HandleInv'
  <1>1. \A w \in Workers : pc[w] \in Critical \/ pc'[w] \in Critical =>
           pc'[w] = pc[w] /\ local'[w] = local[w] /\ pc[w] \in Critical
    OBVIOUS
  <1>2. MutexHeld'
    BY <1>1 DEF HandleInv, MutexHeld
  <1>3. /\ KeysUnique(db_handle_table')
        /\ \A n : (Listed(n)' <=> Listed(n)) /\ ListedAs(n)' = ListedAs(n)
    BY DEF HandleInv, Listed, ListedAs
  <1>4. \A w \in Workers : Knows(w)'
    <2>1. ASSUME NEW w \in Workers, pc'[w] \in Critical PROVE Knows(w)'
      <3>1. pc'[w] = pc[w] /\ local'[w] = local[w] /\ DbOf(w)' = DbOf(w) /\ Knows(w)
        BY <1>1, <2>1 DEF HandleInv, DbOf
      <3> QED BY <1>3, <3>1 DEF Knows, OpenAs
    <2>2. ASSUME NEW w \in Workers, pc'[w] \notin Critical PROVE Knows(w)'
      BY <2>2 DEF Knows, Critical
    <2> QED BY <2>1, <2>2
  <1>5. \A w \in Workers : pc[w] \in Critical => DbOf(w)' = DbOf(w)
    BY <1>1 DEF DbOf
  <1>6. EntriesOK'
    <2>1. \A w \in Workers : pc[w] = "close_del" =>
             pc'[w] = "close_del" /\ DbOf(w)' = DbOf(w)
      BY <1>1, <1>5 DEF Critical
    <2> QED BY <1>3, <2>1 DEF HandleInv, EntriesOK
  <1>7. HandlesOK'
    <2>1. \A w \in Workers : pc[w] \in {"open_add", "relink_add"} =>
             pc'[w] = pc[w] /\ DbOf(w)' = DbOf(w) /\ local'[w] = local[w]
      BY <1>1, <1>5 DEF Critical
    <2> QED BY <1>3, <2>1 DEF HandleInv, HandlesOK
  <1> QED BY <1>2, <1>3, <1>4, <1>6, <1>7 DEF HandleInv

\* A step of a worker while no other is between lock and unlock.
LEMMA HolderStep ==
    ASSUME HandleInv, TypeInv', NEW w \in Workers,
           \A v \in Workers \ {w} :
              pc[v] \notin Critical /\ pc'[v] = pc[v] /\ local'[v] = local[v],
           pc'[w] \in Critical => dbmutex' = w,
           KeysUnique(db_handle_table'), Knows(w)', EntriesOK', HandlesOK'
    PROVE  HandleInv'
  <1>1. MutexHeld'
    BY DEF MutexHeld
  <1>2. \A v \in Workers : Knows(v)'
    <2>1. ASSUME NEW v \in Workers \ {w} PROVE Knows(v)'
      BY DEF Knows, Critical
    <2> QED BY <2>1
  <1> QED BY <1>1, <1>2 DEF HandleInv

\* Who is between lock and unlock is alone there.
LEMMA Alone ==
    ASSUME HandleInv, NEW w \in Workers, pc[w] \in Critical \/ dbmutex = None
    PROVE  \A v \in Workers \ {w} : pc[v] \notin Critical
  <1>1. None \notin Workers
    BY NoneAssumption
  <1> QED BY <1>1 DEF HandleInv, MutexHeld

\* The invariant as the worker that is alone there sees it.
LEMMA SeenAlone ==
    ASSUME HandleInv, NEW w \in Workers, \A v \in Workers \ {w} : pc[v] \notin Critical
    PROVE  /\ \A n \in AllNames : Listed(n) =>
                 /\ ListedAs(n).hdb \in Handles
                 /\ ListedAs(n).links >= 1
                 /\ hdb[ListedAs(n).hdb] = n \/ (pc[w] = "close_del" /\ DbOf(w) = n)
           /\ \A h \in Handles : hdb[h] # None =>
                 \/ Listed(hdb[h]) /\ ListedAs(hdb[h]).hdb = h
                 \/ /\ pc[w] \in {"open_add", "relink_add"}
                    /\ DbOf(w) = hdb[h] /\ local[w].dhn.hdb = h
           /\ None \notin AllNames
           /\ DbOf(w) \in AllNames
           /\ hdb \in [Handles -> Names \cup {None}]
           /\ Names \subseteq AllNames
           /\ pc \in [Workers -> PCs] /\ local \in [Workers -> Locals]
           /\ IsTable(db_handle_table, AllNames, HandleNodes)
           /\ KeysUnique(db_handle_table)
           /\ Knows(w)
  <1>1. TypeInv
    BY DEF HandleInv
  <1>2. \A n \in AllNames : Listed(n) => ListedAs(n).hdb \in Handles
    BY <1>1, EntryTyped
  <1>3. \A v \in Workers : pc[v] \in {"close_del", "open_add", "relink_add"} => v = w
    BY DEF Critical
  <1>4. \A n \in AllNames : Listed(n) =>
                 /\ ListedAs(n).links >= 1
                 /\ hdb[ListedAs(n).hdb] = n \/ (pc[w] = "close_del" /\ DbOf(w) = n)
    BY <1>3 DEF HandleInv, EntriesOK
  <1>5. \A h \in Handles : hdb[h] # None =>
                 \/ Listed(hdb[h]) /\ ListedAs(hdb[h]).hdb = h
                 \/ /\ pc[w] \in {"open_add", "relink_add"}
                    /\ DbOf(w) = hdb[h] /\ local[w].dhn.hdb = h
    BY <1>3 DEF HandleInv, HandlesOK
  <1> QED BY <1>1, <1>2, <1>4, <1>5, Typed, NoneAssumption DEF HandleInv, AllNames

\* A worker that goes from one point outside the mutex to another.
LEMMA QuietMove ==
    ASSUME HandleInv, TypeInv', NEW w \in Workers,
           UNCHANGED <<dbmutex, db_handle_table, hdb>>,
           NEW to, pc' = [pc EXCEPT ![w] = to],
           pc[w] \notin Critical, to \notin Critical,
           \A v \in Workers \ {w} : local'[v] = local[v]
    PROVE  HandleInv'
  <1>1. pc \in [Workers -> PCs]
    BY DEF HandleInv, TypeInv, TypeOK
  <1>2. pc'[w] = to /\ \A v \in Workers \ {w} : pc'[v] = pc[v]
    BY <1>1
  <1> QED BY <1>2, QuietStep

LEMMA QuietSteps ==
    ASSUME HandleInv, NEW w \in Workers,
           \/ TakeTask(w) \/ OpenName(w) \/ UnbindGet(w) \/ UnbindDelete(w)
           \/ ExitClose(w) \/ DataName(w) \/ DataHandle(w) \/ DataDo(w) \/ Reply(w)
    PROVE  HandleInv'
  <1> USE DEF inner, envVars, tableVars, fileVars
  <1>1. TypeInv /\ TypeInv' /\ local \in [Workers -> Locals]
    BY WorkerStepTyped DEF WorkerStep, HandleInv, TypeInv, TypeOK
  <1>2. CASE TakeTask(w)
    <2> DEFINE task == Head(thread_msg_table[w])
    <2>1. task \in Tasks
      BY <1>1, <1>2, Typed DEF TakeTask
    <2>2. Entry[task.cmd] \notin Critical
      BY <2>1 DEF Tasks, Entry, Cmds, DataCmds, Critical
    <2> QED BY <1>1, <1>2, <2>2, QuietMove DEF TakeTask, Critical
  <1>3. CASE OpenName(w)
    BY <1>1, <1>3, QuietMove DEF OpenName, Critical
  <1>4. CASE UnbindGet(w)
    BY <1>1, <1>4, QuietMove DEF UnbindGet, Critical
  <1>5. CASE UnbindDelete(w)
    BY <1>1, <1>5, QuietMove DEF UnbindDelete, Critical
  <1>6. CASE ExitClose(w)
    BY <1>1, <1>6, QuietMove DEF ExitClose, Critical
  <1>7. CASE DataName(w)
    BY <1>1, <1>7, QuietMove DEF DataName, Critical
  <1>8. CASE DataHandle(w)
    BY <1>1, <1>8, QuietMove DEF DataHandle, Critical
  <1>9. CASE DataDo(w)
    <2>1. CASE UNCHANGED <<pc, local>>
      BY <1>1, <1>9, <2>1, QuietStep DEF DataDo
    <2>2. CASE hdb[local[w].db] # None
      <3>1. \A v \in Workers \ {w} : local'[v] = local[v]
        BY <1>1, <1>9, <2>2 DEF DataDo, DataOnFile
      <3> QED BY <1>1, <1>9, <2>2, <3>1, QuietMove DEF DataDo, Critical
    <2> QED BY <1>9, <2>1, <2>2 DEF DataDo
  <1>10. CASE Reply(w)
    BY <1>1, <1>10, QuietMove DEF Reply, Critical
  <1> QED BY <1>2, <1>3, <1>4, <1>5, <1>6, <1>7, <1>8, <1>9, <1>10

LEMMA LockSteps ==
    ASSUME HandleInv, NEW w \in Workers, OpenLock(w) \/ UnlinkLock(w)
    PROVE  HandleInv'
  <1> USE DEF inner, envVars, fileVars
  <1>1. TypeInv' /\ TypeInv
    BY WorkerStepTyped DEF WorkerStep, HandleInv
  <1>2. dbmutex = None /\ dbmutex' = w /\ UNCHANGED <<db_handle_table, hdb>>
    BY DEF OpenLock, UnlinkLock, Lock
  <1>3. \A v \in Workers \ {w} : pc[v] \notin Critical
    BY <1>2, Alone
  <1>4. pc \in [Workers -> PCs] /\ local \in [Workers -> Locals]
    BY <1>3, SeenAlone
  <1>5. pc[w] \in {"open_lock", "unlink_lock"}
    BY DEF OpenLock, UnlinkLock
  <1>6. /\ \A n : (Listed(n)' <=> Listed(n)) /\ ListedAs(n)' = ListedAs(n)
        /\ KeysUnique(db_handle_table')
    BY <1>2 DEF HandleInv, Listed, ListedAs
  <1>7. \A v \in Workers \ {w} : pc'[v] = pc[v] /\ local'[v] = local[v]
    BY <1>4 DEF OpenLock, UnlinkLock
  <1>8. EntriesOK' /\ HandlesOK'
    <2>1. \A n \in AllNames : Listed(n) =>
             ListedAs(n).links >= 1 /\ hdb[ListedAs(n).hdb] = n
      BY <1>3, <1>5, SeenAlone
    <2>2. \A h \in Handles : hdb[h] # None => Listed(hdb[h]) /\ ListedAs(hdb[h]).hdb = h
      BY <1>3, <1>5, SeenAlone
    <2> QED BY <1>2, <1>6, <2>1, <2>2 DEF EntriesOK, HandlesOK
  <1>9. Knows(w)'
    <2> DEFINE d == DbOf(w)
    <2>0. Listed(d) => /\ ListedAs(d).hdb \in Handles
                       /\ hdb[ListedAs(d).hdb] = d
                       /\ ListedAs(d) \in HandleNodes
      BY <1>1, <1>3, <1>5, SeenAlone, EntryTyped
    <2>1. CASE OpenLock(w)
      <3>1. CASE Listed(d)
        <4>1. /\ local'[w].dhn = ListedAs(d) /\ local'[w].dbname = d
              /\ pc'[w] = "open_del"
          BY <1>4, <2>1, <3>1 DEF OpenLock, Listed, ListedAs, Locals, DbOf
        <4> QED BY <1>6, <3>1, <4>1 DEF Knows, DbOf
      <3>2. CASE ~ Listed(d)
        <4>1. local'[w].dbname = d /\ pc'[w] = "open_hdb"
          BY <1>4, <2>1, <3>2 DEF OpenLock, Listed, DbOf
        <4> QED BY <1>6, <3>2, <4>1 DEF Knows, DbOf
      <3> QED BY <3>1, <3>2
    <2>2. CASE UnlinkLock(w)
      <3>1. CASE Listed(d)
        <4>1. /\ local'[w].dhn = Relinked(ListedAs(d), -1) /\ local'[w].dbname = d
              /\ pc'[w] = AfterUnlink(ListedAs(d).links - 1)
          BY <1>4, <2>2, <3>1 DEF UnlinkLock, Listed, ListedAs, Locals, DbOf
        <4>2. /\ local'[w].dhn.hdb = ListedAs(d).hdb
              /\ local'[w].dhn.links = ListedAs(d).links - 1
              /\ ListedAs(d).links \in Int
          BY <2>0, <3>1, <4>1 DEF HandleNodes, Relinked
        <4>3. /\ pc'[w] \in {"close_hdb", "relink_del"}
              /\ pc'[w] = "relink_del" => ListedAs(d).links - 1 >= 1
          BY <4>1, <4>2 DEF AfterUnlink
        <4> QED BY <1>2, <1>6, <2>0, <3>1, <4>1, <4>2, <4>3 DEF Knows, DbOf, OpenAs
      <3>2. CASE ~ Listed(d)
        <4>1. pc'[w] = "unlink_lock"
          BY <1>5, <2>2, <3>2 DEF UnlinkLock, Listed
        <4> QED BY <4>1 DEF Knows
      <3> QED BY <3>1, <3>2
    <2> QED BY <2>1, <2>2
  <1> QED BY <1>1, <1>2, <1>3, <1>6, <1>7, <1>8, <1>9, HolderStep

LEMMA EntryAdded ==
    ASSUME TypeInv, KeysUnique(db_handle_table),
           NEW d \in AllNames, ~ Listed(d), NEW v \in HandleNodes,
           db_handle_table' = HashAddNode(db_handle_table, d, v)
    PROVE  /\ Listed(d)' /\ ListedAs(d)' = v
           /\ \A n \in AllNames \ {d} :
                 (Listed(n)' <=> Listed(n)) /\ (Listed(n) => ListedAs(n)' = ListedAs(n))
           /\ KeysUnique(db_handle_table')
  <1>1. IsTable(db_handle_table, AllNames, HandleNodes)
    BY DEF TypeInv, TypeOK
  <1> QED BY <1>1, AddNode DEF Listed, ListedAs

LEMMA EntryRemoved ==
    ASSUME TypeInv, KeysUnique(db_handle_table), NEW d \in AllNames,
           db_handle_table' = HashDelete(db_handle_table, d)
    PROVE  /\ ~ Listed(d)'
           /\ \A n \in AllNames \ {d} :
                 (Listed(n)' <=> Listed(n)) /\ (Listed(n) => ListedAs(n)' = ListedAs(n))
           /\ KeysUnique(db_handle_table')
  <1>1. IsTable(db_handle_table, AllNames, HandleNodes)
    BY DEF TypeInv, TypeOK
  <1> QED BY <1>1, DeleteNode DEF Listed, ListedAs

\* The steps between lock and unlock: only w moves, and its name stays.
LEMMA HeldMove ==
    ASSUME HandleInv, NEW w \in Workers, pc[w] \in Critical,
           \/ OpenFirst(w) \/ OpenUnlist(w) \/ OpenRelist(w)
           \/ CloseLast(w) \/ CloseUnlist(w) \/ UnlinkUnlist(w) \/ UnlinkRelist(w)
    PROVE  /\ TypeInv /\ TypeInv'
           /\ \A v \in Workers \ {w} :
                 pc[v] \notin Critical /\ pc'[v] = pc[v] /\ local'[v] = local[v]
           /\ DbOf(w)' = DbOf(w) /\ DbOf(w) \in AllNames
           /\ ~ OpenUnlist(w) => local'[w].dhn = local[w].dhn
           /\ dbmutex = w
           /\ local[w].dhn \in HandleNodes \/ pc[w] = "open_hdb"
  <1>1. TypeInv /\ TypeInv'
    BY WorkerStepTyped DEF WorkerStep, HandleInv
  <1>2. pc \in [Workers -> PCs] /\ local \in [Workers -> Locals] /\ local[w] \in Locals
    BY <1>1, Typed
  <1>3. \A v \in Workers \ {w} : pc[v] \notin Critical
    BY Alone
  <1>4. \A v \in Workers \ {w} : pc'[v] = pc[v] /\ local'[v] = local[v]
    BY <1>2 DEF OpenFirst, OpenUnlist, OpenRelist, CloseLast, CloseUnlist,
                UnlinkUnlist, UnlinkRelist
  <1>5. local'[w].dbname = local[w].dbname
    BY <1>2 DEF OpenFirst, OpenUnlist, OpenRelist, CloseLast, CloseUnlist,
                UnlinkUnlist, UnlinkRelist, Locals
  <1>6. ~ OpenUnlist(w) => local'[w].dhn = local[w].dhn
    BY <1>2 DEF OpenFirst, OpenRelist, CloseLast, CloseUnlist,
                UnlinkUnlist, UnlinkRelist, Locals
  <1>7. dbmutex = w
    BY DEF HandleInv, MutexHeld
  <1>8. local[w].dhn \in HandleNodes \/ pc[w] = "open_hdb"
    BY <1>1, Typed DEF Critical
  <1> QED BY <1>1, <1>3, <1>4, <1>5, <1>6, <1>7, <1>8, Typed DEF DbOf

LEMMA OpenFirstKeeps ==
    ASSUME HandleInv, NEW w \in Workers, OpenFirst(w)
    PROVE  HandleInv'
  <1>1. pc[w] = "open_hdb" /\ pc'[w] = "reply"
    BY DEF OpenFirst, HandleInv, TypeInv, TypeOK
  <1>2. pc[w] \in Critical
    BY <1>1 DEF Critical
  <1>0. PICK d \in AllNames : d = DbOf(w)
    BY <1>2, HeldMove
  <1>3. /\ TypeInv /\ TypeInv'
        /\ \A v \in Workers \ {w} :
                 pc[v] \notin Critical /\ pc'[v] = pc[v] /\ local'[v] = local[v]
    BY <1>2, HeldMove
  <1>4. ~ Listed(d)
    BY <1>0, <1>1 DEF HandleInv, Knows
  <1>5. /\ KeysUnique(db_handle_table)
        /\ None \notin AllNames /\ hdb \in [Handles -> Names \cup {None}]
        /\ \A n \in AllNames : Listed(n) =>
              /\ ListedAs(n).hdb \in Handles
              /\ ListedAs(n).links >= 1
              /\ hdb[ListedAs(n).hdb] = n
        /\ \A h \in Handles : hdb[h] # None => Listed(hdb[h]) /\ ListedAs(hdb[h]).hdb = h
    BY <1>1, <1>3, SeenAlone
  <1>6. Knows(w)' /\ pc'[w] \notin Critical
    BY <1>1 DEF Knows, Critical
  <1>7. CASE d \in FailNames
    <2>1. UNCHANGED <<hdb, db_handle_table>>
      BY <1>0, <1>7 DEF OpenFirst
    <2>2. \A n : (Listed(n)' <=> Listed(n)) /\ ListedAs(n)' = ListedAs(n)
      BY <2>1 DEF Listed, ListedAs
    <2>3. EntriesOK' /\ HandlesOK'
      BY <1>5, <2>1, <2>2 DEF EntriesOK, HandlesOK
    <2> QED BY <1>3, <1>5, <1>6, <2>1, <2>3, HolderStep
  <1>8. CASE d \notin FailNames
    <2>1. PICK h \in Handles :
             /\ hdb[h] = None
             /\ hdb' = [hdb EXCEPT ![h] = d]
             /\ db_handle_table' = HashAddNode(db_handle_table, d, [hdb |-> h, links |-> 1])
      BY <1>0, <1>8 DEF OpenFirst
    <2> DEFINE v == [hdb |-> h, links |-> 1]
    <2>2. v \in HandleNodes /\ v.hdb = h /\ v.links = 1
      BY DEF HandleNodes
    <2> HIDE DEF v
    <2>3. /\ Listed(d)' /\ ListedAs(d)' = v
          /\ \A n \in AllNames \ {d} :
                (Listed(n)' <=> Listed(n)) /\ (Listed(n) => ListedAs(n)' = ListedAs(n))
          /\ KeysUnique(db_handle_table')
      BY <1>3, <1>4, <1>5, <2>1, <2>2, EntryAdded DEF v
    <2>4. hdb'[h] = d /\ \A x \in Handles \ {h} : hdb'[x] = hdb[x]
      BY <1>5, <2>1
    <2>5. EntriesOK'
      BY <1>5, <2>1, <2>2, <2>3, <2>4 DEF EntriesOK
    <2>6. HandlesOK'
      <3>1. ASSUME NEW x \in Handles \ {h}, NEW n, n = hdb[x], n # None
            PROVE  Listed(n)' /\ ListedAs(n)'.hdb = x
        <4>1. n \in AllNames \ {d}
          BY <1>4, <1>5, <3>1 DEF AllNames
        <4>2. Listed(n) /\ ListedAs(n).hdb = x
          BY <1>5, <3>1
        <4> QED BY <2>3, <4>1, <4>2
      <3> QED BY <2>2, <2>3, <2>4, <3>1 DEF HandlesOK
    <2> QED BY <1>3, <1>6, <2>3, <2>5, <2>6, HolderStep
  <1> QED BY <1>7, <1>8

LEMMA UnlistKeeps ==
    ASSUME HandleInv, NEW w \in Workers, OpenUnlist(w) \/ UnlinkUnlist(w)
    PROVE  HandleInv'
  <1>1. /\ pc[w] \in {"open_del", "relink_del"} /\ pc'[w] \in {"open_add", "relink_add"}
        /\ db_handle_table' = HashDelete(db_handle_table, DbOf(w))
        /\ hdb' = hdb /\ dbmutex' = dbmutex
    BY DEF OpenUnlist, UnlinkUnlist, HandleInv, TypeInv, TypeOK, fileVars
  <1>2. pc[w] \in Critical
    BY <1>1 DEF Critical
  <1>0. PICK d \in AllNames : d = DbOf(w)
    BY <1>2, HeldMove
  <1>3. /\ TypeInv /\ TypeInv' /\ DbOf(w)' = d /\ dbmutex = w
        /\ \A v \in Workers \ {w} :
                 pc[v] \notin Critical /\ pc'[v] = pc[v] /\ local'[v] = local[v]
        /\ ~ OpenUnlist(w) => local'[w].dhn = local[w].dhn
        /\ local[w].dhn \in HandleNodes
    BY <1>0, <1>1, <1>2, HeldMove
  <1>4. /\ KeysUnique(db_handle_table)
        /\ hdb \in [Handles -> Names \cup {None}] /\ Names \subseteq AllNames
        /\ \A n \in AllNames : Listed(n) =>
              /\ ListedAs(n).links >= 1
              /\ hdb[ListedAs(n).hdb] = n
              /\ ListedAs(n).hdb \in Handles
        /\ \A h \in Handles : hdb[h] # None => Listed(hdb[h]) /\ ListedAs(hdb[h]).hdb = h
        /\ Knows(w) /\ local \in [Workers -> Locals]
    BY <1>1, <1>3, SeenAlone
  <1>5. /\ ListedAs(d).hdb = local'[w].dhn.hdb
        /\ local'[w].dhn.links >= 1
        /\ OpenAs(d, local'[w].dhn.hdb)
    <2>1. CASE UnlinkUnlist(w)
      <3>1. pc[w] = "relink_del" /\ ~ OpenUnlist(w)
        BY <2>1 DEF UnlinkUnlist, OpenUnlist
      <3> QED BY <1>0, <1>3, <1>4, <3>1 DEF Knows
    <2>2. CASE OpenUnlist(w)
      <3>1. /\ pc[w] = "open_del"
            /\ local'[w].dhn = Relinked(local[w].dhn, 1)
        BY <1>4, <2>2 DEF OpenUnlist, Locals
      <3>2. Listed(d) /\ ListedAs(d) = local[w].dhn
        BY <1>0, <1>4, <3>1 DEF Knows
      <3>3. /\ local'[w].dhn.hdb = local[w].dhn.hdb
            /\ local'[w].dhn.links = local[w].dhn.links + 1
            /\ local[w].dhn.links \in Int
        BY <1>3, <3>1 DEF Relinked, HandleNodes
      <3>4. local'[w].dhn.links >= 1
        BY <1>4, <3>2, <3>3
      <3> QED BY <1>4, <3>2, <3>3, <3>4 DEF OpenAs
    <2> QED BY <2>1, <2>2
  <1>6. /\ ~ Listed(d)'
        /\ \A n \in AllNames \ {d} :
              (Listed(n)' <=> Listed(n)) /\ (Listed(n) => ListedAs(n)' = ListedAs(n))
        /\ KeysUnique(db_handle_table')
    BY <1>0, <1>1, <1>3, <1>4, EntryRemoved
  <1>7. Knows(w)'
    BY <1>1, <1>3, <1>5, <1>6 DEF Knows, OpenAs
  <1>8. EntriesOK'
    BY <1>1, <1>4, <1>6 DEF EntriesOK
  <1>9. HandlesOK'
    <2>1. ASSUME NEW h \in Handles, NEW n \in AllNames, n = hdb[h], n # None, n # d
          PROVE  Listed(n)' /\ ListedAs(n)'.hdb = h
      BY <1>4, <1>6, <2>1
    <2>2. ASSUME NEW h \in Handles, hdb[h] = d, d # None
          PROVE  local'[w].dhn.hdb = h
      BY <1>4, <1>5, <2>2
    <2> QED BY <1>1, <1>3, <1>4, <2>1, <2>2 DEF HandlesOK
  <1> QED BY <1>1, <1>3, <1>6, <1>7, <1>8, <1>9, HolderStep

LEMMA RelistKeeps ==
    ASSUME HandleInv, NEW w \in Workers, OpenRelist(w) \/ UnlinkRelist(w)
    PROVE  HandleInv'
  <1>1. /\ pc[w] \in {"open_add", "relink_add"} /\ pc'[w] \in {"exit_close", "reply"}
        /\ db_handle_table' = HashAddNode(db_handle_table, DbOf(w), local[w].dhn)
        /\ hdb' = hdb
    BY DEF OpenRelist, UnlinkRelist, Closed, HandleInv, TypeInv, TypeOK, fileVars
  <1>2. pc[w] \in Critical /\ pc'[w] \notin Critical
    BY <1>1 DEF Critical
  <1>0. PICK d \in AllNames : d = DbOf(w)
    BY <1>2, HeldMove
  <1>a. PICK v : v = local[w].dhn
    OBVIOUS
  <1>3. /\ TypeInv /\ TypeInv' /\ v \in HandleNodes
        /\ \A x \in Workers \ {w} :
                 pc[x] \notin Critical /\ pc'[x] = pc[x] /\ local'[x] = local[x]
    BY <1>1, <1>2, <1>a, HeldMove
  <1>4. /\ KeysUnique(db_handle_table)
        /\ hdb \in [Handles -> Names \cup {None}] /\ Names \subseteq AllNames
        /\ \A n \in AllNames : Listed(n) =>
              /\ ListedAs(n).links >= 1
              /\ hdb[ListedAs(n).hdb] = n
        /\ \A h \in Handles : hdb[h] # None =>
              \/ Listed(hdb[h]) /\ ListedAs(hdb[h]).hdb = h
              \/ d = hdb[h] /\ v.hdb = h
        /\ ~ Listed(d) /\ v.links >= 1 /\ hdb[v.hdb] = d
    BY <1>0, <1>1, <1>3, <1>a, SeenAlone DEF Knows, OpenAs
  <1>6. /\ Listed(d)' /\ ListedAs(d)' = v
        /\ \A n \in AllNames \ {d} :
              (Listed(n)' <=> Listed(n)) /\ (Listed(n) => ListedAs(n)' = ListedAs(n))
        /\ KeysUnique(db_handle_table')
    BY <1>0, <1>1, <1>3, <1>4, <1>a, EntryAdded
  <1>7. Knows(w)'
    BY <1>1 DEF Knows
  <1>8. EntriesOK'
    BY <1>1, <1>4, <1>6 DEF EntriesOK
  <1>9. HandlesOK'
    <2>1. ASSUME NEW h \in Handles, NEW n \in AllNames, n = hdb[h], n # None
          PROVE  Listed(n)' /\ ListedAs(n)'.hdb = h
      <3>1. CASE n = d
        BY <1>4, <1>6, <2>1, <3>1
      <3>2. CASE n # d
        BY <1>4, <1>6, <2>1, <3>2
      <3> QED BY <3>1, <3>2
    <2> QED BY <1>1, <1>4, <2>1 DEF HandlesOK
  <1> QED BY <1>2, <1>3, <1>6, <1>7, <1>8, <1>9, HolderStep

LEMMA CloseLastKeeps ==
    ASSUME HandleInv, NEW w \in Workers, CloseLast(w)
    PROVE  HandleInv'
  <1>1. /\ pc[w] = "close_hdb" /\ pc'[w] = "close_del"
        /\ hdb' = [hdb EXCEPT ![ListedAs(DbOf(w)).hdb] = None]
        /\ db_handle_table' = db_handle_table /\ dbmutex' = dbmutex
    BY DEF CloseLast, ListedAs, HandleInv, TypeInv, TypeOK, tableVars
  <1>2. pc[w] \in Critical
    BY <1>1 DEF Critical
  <1>0. PICK d \in AllNames : d = DbOf(w)
    BY <1>2, HeldMove
  <1>3. /\ TypeInv /\ TypeInv' /\ DbOf(w)' = d /\ dbmutex = w
        /\ \A v \in Workers \ {w} :
                 pc[v] \notin Critical /\ pc'[v] = pc[v] /\ local'[v] = local[v]
    BY <1>0, <1>2, HeldMove DEF CloseLast
  <1>4. /\ KeysUnique(db_handle_table)
        /\ hdb \in [Handles -> Names \cup {None}]
        /\ \A n \in AllNames : Listed(n) =>
              /\ ListedAs(n).hdb \in Handles
              /\ ListedAs(n).links >= 1
              /\ hdb[ListedAs(n).hdb] = n
        /\ \A h \in Handles : hdb[h] # None => Listed(hdb[h]) /\ ListedAs(hdb[h]).hdb = h
        /\ Listed(d)
    BY <1>0, <1>1, <1>3, SeenAlone DEF Knows
  <1>5. PICK g \in Handles : g = ListedAs(d).hdb
    BY <1>4
  <1>6. hdb'[g] = None /\ hdb[g] = d /\ \A h \in Handles \ {g} : hdb'[h] = hdb[h]
    BY <1>0, <1>1, <1>4, <1>5
  <1>7. \A n : (Listed(n)' <=> Listed(n)) /\ ListedAs(n)' = ListedAs(n)
    BY <1>1 DEF Listed, ListedAs
  <1>8. Knows(w)'
    BY <1>1, <1>3, <1>4, <1>5, <1>6, <1>7 DEF Knows
  <1>9. EntriesOK'
    <2>1. ASSUME NEW n \in AllNames \ {d}, Listed(n)
          PROVE  hdb'[ListedAs(n).hdb] = n
      BY <1>4, <1>6, <2>1
    <2> QED BY <1>1, <1>3, <1>4, <1>7, <2>1 DEF EntriesOK
  <1>10. HandlesOK'
    BY <1>4, <1>6, <1>7 DEF HandlesOK
  <1>11. KeysUnique(db_handle_table')
    BY <1>1, <1>4
  <1> QED BY <1>1, <1>3, <1>8, <1>9, <1>10, <1>11, HolderStep

LEMMA CloseUnlistKeeps ==
    ASSUME HandleInv, NEW w \in Workers, CloseUnlist(w)
    PROVE  HandleInv'
  <1>1. /\ pc[w] = "close_del" /\ pc'[w] \in {"exit_close", "reply"}
        /\ db_handle_table' = HashDelete(db_handle_table, DbOf(w))
        /\ hdb' = hdb
    BY DEF CloseUnlist, Closed, HandleInv, TypeInv, TypeOK, fileVars
  <1>2. pc[w] \in Critical /\ pc'[w] \notin Critical
    BY <1>1 DEF Critical
  <1>0. PICK d \in AllNames : d = DbOf(w)
    BY <1>2, HeldMove
  <1>3. /\ TypeInv /\ TypeInv'
        /\ \A v \in Workers \ {w} :
                 pc[v] \notin Critical /\ pc'[v] = pc[v] /\ local'[v] = local[v]
    BY <1>2, HeldMove
  <1>4. /\ KeysUnique(db_handle_table)
        /\ hdb \in [Handles -> Names \cup {None}] /\ Names \subseteq AllNames
        /\ \A n \in AllNames \ {d} : Listed(n) =>
              /\ ListedAs(n).links >= 1
              /\ hdb[ListedAs(n).hdb] = n
        /\ \A h \in Handles : hdb[h] # None => Listed(hdb[h]) /\ ListedAs(hdb[h]).hdb = h
        /\ hdb[ListedAs(d).hdb] = None
    BY <1>0, <1>1, <1>3, SeenAlone DEF Knows
  <1>5. /\ ~ Listed(d)'
        /\ \A n \in AllNames \ {d} :
              (Listed(n)' <=> Listed(n)) /\ (Listed(n) => ListedAs(n)' = ListedAs(n))
        /\ KeysUnique(db_handle_table')
    BY <1>0, <1>1, <1>3, <1>4, EntryRemoved
  <1>6. Knows(w)'
    BY <1>1 DEF Knows
  <1>7. EntriesOK'
    BY <1>1, <1>4, <1>5 DEF EntriesOK
  <1>8. HandlesOK'
    <2>1. ASSUME NEW h \in Handles, NEW n \in AllNames, n = hdb[h], n # None
          PROVE  Listed(n)' /\ ListedAs(n)'.hdb = h
      <3>1. Listed(n) /\ ListedAs(n).hdb = h /\ n # d
        BY <1>4, <2>1
      <3> QED BY <1>5, <3>1
    <2> QED BY <1>1, <1>4, <2>1 DEF HandlesOK
  <1> QED BY <1>2, <1>3, <1>5, <1>6, <1>7, <1>8, HolderStep

LEMMA HandleInductive == HandleInv /\ [Next]_vars => HandleInv'
  <1> SUFFICES ASSUME HandleInv, [Next]_vars PROVE HandleInv'
    OBVIOUS
  <1>1. TypeInv /\ TypeInv'
    BY TypeInductive DEF HandleInv
  <1>2. ASSUME NEW c \in Clients, ClientStep(c) \/ Receive(c) \/ ReceiveEOF(c)
        PROVE  HandleInv'
    <2>1. UNCHANGED <<tableVars, fileVars, pc, local>>
      BY <1>2 DEF ClientStep, Connect, Join, Wait, ClientOpen, ClientData, ClientClose,
                  ClientExit, ClientCrash, serverVars, Receive, ReceiveEOF
    <2> QED BY <1>1, <2>1, QuietStep DEF tableVars, fileVars
  <1>3. ASSUME NEW w \in Workers, WorkerStep(w) PROVE HandleInv'
    BY <1>3, QuietSteps, LockSteps, OpenFirstKeeps, UnlistKeeps, RelistKeeps,
       CloseLastKeeps, CloseUnlistKeeps DEF WorkerStep
  <1>4. CASE UNCHANGED vars
    BY <1>1, <1>4, QuietStep DEF vars, tableVars, fileVars
  <1> QED BY <1>2, <1>3, <1>4 DEF Next

LEMMA HandlesAgree == HandleInv => HandleTableOK
  BY DEF HandleInv, EntriesOK, HandlesOK, HandleTableOK

\* For any number of clients, workers and names, in any interleaving, and
\* whatever is replayed or fails: no database is open twice, none is open
\* without its entry in the handle table, and no entry names a closed one,
\* except while the holder of dbmutex renews it (dbserver.c:130-150, 159-195).
THEOREM HandleTableCorrect == Spec => []HandleTableOK
  <1> QED BY InitHandles, HandleInductive, HandlesAgree, PTL DEF Spec

-----------------------------------------------------------------------------
(* One request at a time.                                                  *)

\* What of the types the lemmas on requests use.
LEMMA FlowTypes ==
    ASSUME TypeInv
    PROVE  /\ cstate \in [Clients -> {"off", "ready", "wait", "gone"}]
           /\ request \in [Clients -> Requests]
           /\ answer \in [Clients -> Answers \cup {None}]
           /\ inbox \in [Clients -> Seq(Requests)]
           /\ thread_msg_table \in [Workers -> Seq(Tasks)]
           /\ pc \in [Workers -> PCs] /\ local \in [Workers -> Locals]
           /\ \A w \in Workers : Len(thread_msg_table[w]) \in Nat
           /\ \A w \in Workers : \A i \in 1 .. Len(thread_msg_table[w]) :
                 thread_msg_table[w][i] \in Tasks /\ thread_msg_table[w][i].sockfd \in Clients
           /\ \A w \in Workers : pc[w] # "idle" => local[w].task \in Tasks /\ Fd(w) \in Clients
  <1>1. thread_msg_table \in [Workers -> Seq(Tasks)]
    BY DEF TypeInv, TypeOK
  <1>2. \A t \in Tasks : t.sockfd \in Clients
    BY DEF Tasks
  <1>3. \A w \in Workers : \A i \in 1 .. Len(thread_msg_table[w]) :
                 thread_msg_table[w][i] \in Tasks
    BY <1>1
  <1>4. \A w \in Workers : pc[w] # "idle" => local[w].task \in Tasks
    BY DEF TypeInv, TaskInHand
  <1> QED BY <1>1, <1>2, <1>3, <1>4, LenProperties DEF TypeInv, TypeOK, Fd

\* What the invariant says of one task in a queue.
LEMMA TaskQueued ==
    ASSUME TypeInv, FlowInv, NEW w \in Workers,
           NEW i \in 1 .. Len(thread_msg_table[w]), NEW s, s = thread_msg_table[w][i]
    PROVE  /\ s \in Tasks /\ s.sockfd \in Clients
           /\ s = Task(s.sockfd, request[s.sockfd])
           /\ inbox[s.sockfd] = <<>>
           /\ \A v \in Workers : ~ Holds(v, s.sockfd)
           /\ \A v \in Workers : \A j \in 1 .. Len(thread_msg_table[v]) :
                 thread_msg_table[v][j].sockfd = s.sockfd => v = w /\ j = i
  BY FlowTypes DEF FlowInv, QueuesOK

\* A client with nothing pending sends a request.
LEMMA SendFlows ==
    ASSUME TypeInv, FlowInv, NEW c \in Clients, ~ Pending(c),
           NEW req \in Requests, req.cmd # "none", Send(c, req),
           UNCHANGED <<thread_msg_table, pc, local>>,
           cstate' = [cstate EXCEPT ![c] = IF req.cmd = "EXIT" THEN "gone" ELSE "wait"]
    PROVE  FlowInv'
  <1>1. /\ inbox[c] = <<>>
        /\ \A w \in Workers : \A i \in 1 .. Len(thread_msg_table[w]) :
              thread_msg_table[w][i].sockfd # c
        /\ \A w \in Workers : pc[w] # "idle" => Fd(w) # c
    BY DEF Pending, Sent, Queued, Holds
  <1>2. /\ request'[c] = req /\ answer'[c] = None /\ inbox'[c] = <<req>>
        /\ cstate'[c] = IF req.cmd = "EXIT" THEN "gone" ELSE "wait"
    BY <1>1, FlowTypes DEF Send
  <1>3. \A d \in Clients \ {c} : /\ request'[d] = request[d] /\ answer'[d] = answer[d]
                                 /\ inbox'[d] = inbox[d] /\ cstate'[d] = cstate[d]
    BY FlowTypes DEF Send
  <1>4. \A w : Fd(w)' = Fd(w) /\ \A d : Holds(w, d)' <=> Holds(w, d)
    BY DEF Fd, Holds
  <1>5. InboxesOK'
    BY <1>2, <1>3 DEF FlowInv, InboxesOK
  <1>6. QueuesOK'
    <2>1. ASSUME NEW w \in Workers, NEW i \in 1 .. Len(thread_msg_table[w]),
                 NEW s, s = thread_msg_table[w][i]
          PROVE  /\ s = Task(s.sockfd, request'[s.sockfd])
                 /\ inbox'[s.sockfd] = <<>>
                 /\ \A v \in Workers : ~ Holds(v, s.sockfd)
                 /\ \A v \in Workers : \A j \in 1 .. Len(thread_msg_table[v]) :
                       thread_msg_table[v][j].sockfd = s.sockfd => v = w /\ j = i
      <3>1. s.sockfd \in Clients \ {c}
        BY <1>1, <2>1, TaskQueued
      <3> QED BY <1>3, <2>1, <3>1, TaskQueued
    <2> QED BY <1>4, <2>1 DEF QueuesOK
  <1>7. HandsOK'
    BY <1>1, <1>3, <1>4, FlowTypes DEF FlowInv, HandsOK
  <1>8. WaitsOK'
    <2>1. \A d \in Clients \ {c} : Pending(d)' => Pending(d)
      BY <1>3, <1>4 DEF Pending, Sent, Queued
    <2> QED BY <1>2, <1>3, <2>1 DEF FlowInv, WaitsOK
  <1> QED BY <1>5, <1>6, <1>7, <1>8 DEF FlowInv

\* A client connects, or dies.
LEMMA StayFlows ==
    ASSUME TypeInv, FlowInv, NEW c \in Clients, NEW to,
           UNCHANGED <<request, answer, inbox, thread_msg_table, pc, local>>,
           cstate' = [cstate EXCEPT ![c] = to],
           \/ to = "ready" /\ ~ Pending(c)
           \/ to = "gone" /\ CrashClients # {}
    PROVE  FlowInv'
  <1>1. \A w : Fd(w)' = Fd(w) /\ \A d : Holds(w, d)' <=> Holds(w, d)
    BY DEF Fd, Holds
  <1>2. InboxesOK' /\ QueuesOK' /\ HandsOK'
    BY <1>1 DEF FlowInv, InboxesOK, QueuesOK, HandsOK
  <1>3. \A d \in Clients : Pending(d)' => Pending(d)
    BY <1>1 DEF Pending, Sent, Queued
  <1>4. cstate'[c] = to /\ \A d \in Clients \ {c} : cstate'[d] = cstate[d]
    BY FlowTypes
  <1>5. WaitsOK'
    BY <1>3, <1>4 DEF FlowInv, WaitsOK
  <1> QED BY <1>2, <1>5 DEF FlowInv

LEMMA ReceiveFlows ==
    ASSUME TypeInv, FlowInv, NEW c \in Clients, Receive(c)
    PROVE  /\ FlowInv' /\ Sent(c)
           /\ \A d \in Clients \ {c} : Sent(d)' => Sent(d)
  <1> DEFINE t == Task(c, Head(inbox[c]))
  <1>1. inbox[c] = <<request[c]>> /\ request[c] \in Requests
    BY FlowTypes DEF FlowInv, InboxesOK, Receive
  <1>2. Head(inbox[c]) = request[c] /\ Tail(inbox[c]) = <<>>
    BY <1>1
  <1>3. t = Task(c, request[c]) /\ t.sockfd = c /\ t \in Tasks
    BY <1>1, <1>2 DEF Task, Requests, Tasks, ArgFits
  <1> HIDE DEF t
  <1>4. PICK w \in Workers : thread_msg_table' = [thread_msg_table EXCEPT ![w] = Append(@, t)]
    BY DEF Receive, Enqueue, t
  <1>5. /\ UNCHANGED <<cstate, request, answer, pc, local>>
        /\ inbox'[c] = <<>> /\ \A d \in Clients \ {c} : inbox'[d] = inbox[d]
    BY <1>2, FlowTypes DEF Receive, clientVars
  <1>6. \A v : Fd(v)' = Fd(v) /\ \A d : Holds(v, d)' <=> Holds(v, d)
    BY <1>5 DEF Fd, Holds
  <1>7. PICK n \in Nat : n = Len(thread_msg_table[w])
    BY FlowTypes
  <1>8. /\ Len(thread_msg_table'[w]) = n + 1
        /\ thread_msg_table'[w][n + 1] = t
        /\ \A i \in 1 .. n : thread_msg_table'[w][i] = thread_msg_table[w][i]
        /\ \A v \in Workers \ {w} : thread_msg_table'[v] = thread_msg_table[v]
    <2>1. thread_msg_table[w] \in Seq(Tasks) /\ thread_msg_table'[w] = Append(thread_msg_table[w], t)
      BY <1>4, FlowTypes
    <2>2. \A v \in Workers \ {w} : thread_msg_table'[v] = thread_msg_table[v]
      BY <1>4, FlowTypes
    <2> QED BY <1>3, <1>7, <2>1, <2>2, AppendProperties
  <1>9. \A v \in Workers : \A i \in 1 .. Len(thread_msg_table'[v]) :
           \/ v = w /\ i = n + 1 /\ thread_msg_table'[v][i] = t
           \/ /\ i \in 1 .. Len(thread_msg_table[v])
              /\ thread_msg_table'[v][i] = thread_msg_table[v][i]
              /\ thread_msg_table[v][i].sockfd \in Clients \ {c}
    <2>1. \A v \in Workers : \A i \in 1 .. Len(thread_msg_table[v]) :
             thread_msg_table[v][i].sockfd \in Clients \ {c}
      <3>1. inbox[c] # <<>>
        BY <1>1
      <3> QED BY <3>1, TaskQueued
    <2> QED BY <1>7, <1>8, <2>1
  <1>10. InboxesOK'
    BY <1>5 DEF FlowInv, InboxesOK
  <1>11. \A v \in Workers : ~ Holds(v, c)
    BY <1>1 DEF FlowInv, HandsOK, Holds
  <1>12. QueuesOK'
    <2> SUFFICES ASSUME NEW v \in Workers, NEW i \in 1 .. Len(thread_msg_table'[v]),
                        NEW s, s = thread_msg_table'[v][i]
                 PROVE  /\ s = Task(s.sockfd, request[s.sockfd])
                        /\ inbox'[s.sockfd] = <<>>
                        /\ \A x \in Workers : ~ Holds(x, s.sockfd)
                        /\ \A x \in Workers : \A j \in 1 .. Len(thread_msg_table'[x]) :
                             thread_msg_table'[x][j].sockfd = s.sockfd => x = v /\ j = i
      BY <1>5, <1>6 DEF QueuesOK
    <2>1. CASE v = w /\ i = n + 1 /\ s = t
      BY <1>3, <1>5, <1>9, <1>11, <2>1
    <2>2. CASE /\ i \in 1 .. Len(thread_msg_table[v])
               /\ s = thread_msg_table[v][i] /\ s.sockfd \in Clients \ {c}
      <3>1. /\ s = Task(s.sockfd, request[s.sockfd])
            /\ inbox[s.sockfd] = <<>>
            /\ \A x \in Workers : ~ Holds(x, s.sockfd)
            /\ \A x \in Workers : \A j \in 1 .. Len(thread_msg_table[x]) :
                  thread_msg_table[x][j].sockfd = s.sockfd => x = v /\ j = i
        BY <2>2 DEF FlowInv, QueuesOK
      <3>2. \A x \in Workers : \A j \in 1 .. Len(thread_msg_table'[x]) :
                  thread_msg_table'[x][j].sockfd = s.sockfd => x = v /\ j = i
        BY <1>3, <1>9, <2>2, <3>1
      <3> QED BY <1>5, <2>2, <3>1, <3>2
    <2> QED BY <1>9, <2>1, <2>2
  <1>13. HandsOK'
    BY <1>5, <1>6, <1>11, FlowTypes DEF FlowInv, HandsOK, Holds
  <1>14. WaitsOK'
    <2>1. \A d \in Clients \ {c} : Pending(d)' => Pending(d)
      BY <1>3, <1>5, <1>6, <1>9 DEF Pending, Sent, Queued
    <2>2. Pending(c)
      BY <1>1 DEF Pending, Sent
    <2> QED BY <1>5, <2>1, <2>2 DEF FlowInv, WaitsOK
  <1>15. Sent(c) /\ \A d \in Clients \ {c} : Sent(d)' => Sent(d)
    BY <1>1, <1>3, <1>5, <1>9 DEF Sent, Queued
  <1> QED BY <1>10, <1>12, <1>13, <1>14, <1>15 DEF FlowInv

\* A worker takes the first task of its queue.
LEMMA TakeFlows ==
    ASSUME TypeInv, FlowInv, NEW w \in Workers, TakeTask(w)
    PROVE  /\ FlowInv'
           /\ \E c \in Clients :
                 /\ local'[w].task = Task(c, request[c])
                 /\ pc'[w] = Entry[request[c].cmd] /\ pc'[w] # "idle"
                 /\ Queued(c) /\ \A v \in Workers : ~ Holds(v, c)
           /\ \A d \in Clients : Queued(d)' => Queued(d)
  <1>0. PICK t, c : t = Head(thread_msg_table[w]) /\ c = t.sockfd
    OBVIOUS
  <1>1. thread_msg_table[w] \in Seq(Tasks) /\ thread_msg_table[w] # <<>> /\ pc[w] = "idle"
    BY FlowTypes DEF TakeTask
  <1>2. PICK n \in Nat : n = Len(thread_msg_table[w]) /\ n >= 1
    BY <1>1, EmptySeq, LenProperties
  <1>3. t = thread_msg_table[w][1] /\ 1 \in 1 .. Len(thread_msg_table[w])
    BY <1>0, <1>1, <1>2
  <1>4. /\ t \in Tasks /\ c \in Clients /\ t = Task(c, request[c]) /\ inbox[c] = <<>>
        /\ \A v \in Workers : ~ Holds(v, c)
        /\ \A v \in Workers : \A j \in 1 .. Len(thread_msg_table[v]) :
              thread_msg_table[v][j].sockfd = c => v = w /\ j = 1
    BY <1>0, <1>3, TaskQueued
  <1>5. Queued(c) /\ Pending(c)
    BY <1>0, <1>3 DEF Queued, Pending, Sent
  <1>6. t.cmd = request[c].cmd /\ t.cmd # "none"
    BY <1>4, <1>5 DEF FlowInv, WaitsOK, Task
  <1>7. /\ UNCHANGED <<cstate, request, answer, inbox>>
        /\ pc'[w] = Entry[t.cmd] /\ local'[w].task = t
        /\ \A v \in Workers \ {w} : pc'[v] = pc[v] /\ local'[v] = local[v]
    BY <1>0, <1>6, FlowTypes DEF TakeTask, envVars, clientVars, netVars, NoLocal
  <1>8. pc'[w] # "idle"
    BY <1>4, <1>6, <1>7 DEF Tasks, Entry, Cmds, DataCmds
  <1>9. /\ Holds(w, c)'
        /\ \A v \in Workers \ {w} : Fd(v)' = Fd(v) /\ \A d : Holds(v, d)' <=> Holds(v, d)
        /\ \A d : Holds(w, d)' => d = c
        /\ Fd(w)' = c
    BY <1>0, <1>7, <1>8 DEF Holds, Fd
  <1>10. /\ Len(thread_msg_table'[w]) = n - 1
         /\ \A i \in 1 .. n - 1 : thread_msg_table'[w][i] = thread_msg_table[w][i + 1]
         /\ \A v \in Workers \ {w} : thread_msg_table'[v] = thread_msg_table[v]
    <2>1. thread_msg_table'[w] = Tail(thread_msg_table[w])
      BY <1>1, FlowTypes DEF TakeTask
    <2>2. \A v \in Workers \ {w} : thread_msg_table'[v] = thread_msg_table[v]
      BY FlowTypes DEF TakeTask
    <2> QED BY <1>1, <1>2, <2>1, <2>2, HeadTailProperties
  \* Where a task of a queue was before.
  <1>11. \A v \in Workers : \A i \in 1 .. Len(thread_msg_table'[v]) :
            LET k == IF v = w THEN i + 1 ELSE i
            IN  /\ k \in 1 .. Len(thread_msg_table[v])
                /\ thread_msg_table'[v][i] = thread_msg_table[v][k]
                /\ thread_msg_table[v][k].sockfd # c
    <2>1. ASSUME NEW v \in Workers, NEW i \in 1 .. Len(thread_msg_table'[v]),
                 NEW k, k = IF v = w THEN i + 1 ELSE i
          PROVE  /\ k \in 1 .. Len(thread_msg_table[v])
                 /\ thread_msg_table'[v][i] = thread_msg_table[v][k]
                 /\ v = w => k # 1
      BY <1>2, <1>10, <2>1
    <2> QED BY <1>4, <2>1
  <1>12. InboxesOK'
    BY <1>7 DEF FlowInv, InboxesOK
  <1>13. QueuesOK'
    <2>1. ASSUME NEW v \in Workers, NEW i \in 1 .. Len(thread_msg_table'[v]),
                 NEW s, s = thread_msg_table'[v][i]
          PROVE  /\ s = Task(s.sockfd, request[s.sockfd])
                 /\ inbox'[s.sockfd] = <<>>
                 /\ \A x \in Workers : ~ Holds(x, s.sockfd)'
                 /\ \A x \in Workers : \A j \in 1 .. Len(thread_msg_table'[x]) :
                      thread_msg_table'[x][j].sockfd = s.sockfd => x = v /\ j = i
      <3>1. PICK k : /\ k = IF v = w THEN i + 1 ELSE i
                     /\ k \in 1 .. Len(thread_msg_table[v])
                     /\ s = thread_msg_table[v][k] /\ s.sockfd # c
        BY <1>11, <2>1
      <3>2. /\ s = Task(s.sockfd, request[s.sockfd])
            /\ inbox[s.sockfd] = <<>>
            /\ \A x \in Workers : ~ Holds(x, s.sockfd)
            /\ \A x \in Workers : \A j \in 1 .. Len(thread_msg_table[x]) :
                  thread_msg_table[x][j].sockfd = s.sockfd => x = v /\ j = k
        BY <3>1, TaskQueued
      <3>3. ASSUME NEW x \in Workers, NEW j \in 1 .. Len(thread_msg_table'[x]),
                   thread_msg_table'[x][j].sockfd = s.sockfd
            PROVE  x = v /\ j = i
        <4>1. PICK m : /\ m = IF x = w THEN j + 1 ELSE j
                       /\ m \in 1 .. Len(thread_msg_table[x])
                       /\ thread_msg_table'[x][j] = thread_msg_table[x][m]
          BY <1>11, <3>3
        <4>2. x = v /\ m = k
          BY <3>2, <3>3, <4>1
        <4> QED BY <2>1, <3>1, <3>3, <4>1, <4>2
      <3> QED BY <1>7, <1>9, <3>1, <3>2, <3>3
    <2> QED BY <1>7, <2>1 DEF QueuesOK
  <1>14. HandsOK'
    <2>1. \A v \in Workers \ {w} : pc[v] # "idle" => Fd(v) # c
      BY <1>4 DEF Holds
    <2> QED BY <1>4, <1>7, <1>9, <2>1 DEF FlowInv, HandsOK
  <1>a. \A d \in Clients : Queued(d)' => Queued(d)
    BY <1>11 DEF Queued
  <1>15. WaitsOK'
    <2>1. \A d \in Clients : Pending(d)' => Pending(d)
      BY <1>5, <1>7, <1>9, <1>a DEF Pending, Sent
    <2> QED BY <1>7, <2>1 DEF FlowInv, WaitsOK
  <1> QED BY <1>4, <1>5, <1>6, <1>7, <1>8, <1>12, <1>13, <1>14, <1>15, <1>a DEF FlowInv

\* A worker goes on with its request.
LEMMA WorkFlows ==
    ASSUME TypeInv, FlowInv, NEW w \in Workers, pc[w] # "idle", pc'[w] # "idle",
           local'[w].task = local[w].task,
           \A v \in Workers \ {w} : pc'[v] = pc[v] /\ local'[v] = local[v],
           UNCHANGED <<cstate, request, answer, inbox, thread_msg_table>>
    PROVE  FlowInv'
  <1>1. \A v \in Workers : Fd(v)' = Fd(v) /\ \A d : Holds(v, d)' <=> Holds(v, d)
    BY DEF Fd, Holds
  <1>2. \A v \in Workers : /\ pc'[v] = "idle" <=> pc[v] = "idle"
                           /\ local'[v].task = local[v].task
    OBVIOUS
  <1>3. InboxesOK' /\ QueuesOK'
    BY <1>1 DEF FlowInv, InboxesOK, QueuesOK
  <1>4. HandsOK'
    BY <1>1, <1>2 DEF FlowInv, HandsOK
  <1>5. \A d \in Clients : Pending(d)' <=> Pending(d)
    BY <1>1 DEF Pending, Sent, Queued
  <1>6. WaitsOK'
    BY <1>5 DEF FlowInv, WaitsOK
  <1> QED BY <1>3, <1>4, <1>6 DEF FlowInv

\* A worker is done with its request, and may have answered it.
LEMMA DoneFlows ==
    ASSUME TypeInv, FlowInv, NEW w \in Workers, pc[w] # "idle", pc'[w] = "idle",
           \A v \in Workers \ {w} : pc'[v] = pc[v] /\ local'[v] = local[v],
           UNCHANGED <<request, inbox, thread_msg_table>>,
           NEW c \in Clients, c = Fd(w),
           \A d \in Clients \ {c} : cstate'[d] = cstate[d] /\ answer'[d] = answer[d],
           cstate'[c] = "gone" => cstate[c] = "gone"
    PROVE  FlowInv' /\ ~ Pending(c)'
  <1>1. /\ inbox[c] = <<>>
        /\ \A v \in Workers : Holds(v, c) => v = w
    BY FlowTypes DEF FlowInv, HandsOK
  <1>2. /\ \A v \in Workers \ {w} : Fd(v)' = Fd(v) /\ \A d : Holds(v, d)' <=> Holds(v, d)
        /\ \A d : ~ Holds(w, d)'
        /\ Holds(w, c)
    BY DEF Fd, Holds
  <1>3. ~ Queued(c)
    BY <1>2, TaskQueued DEF Queued
  <1>4. ~ Pending(c)'
    BY <1>1, <1>2, <1>3 DEF Pending, Sent, Queued
  <1>5. InboxesOK' /\ QueuesOK'
    BY <1>2 DEF FlowInv, InboxesOK, QueuesOK
  <1>6. HandsOK'
    BY <1>2 DEF FlowInv, HandsOK
  <1>7. \A d \in Clients : Pending(d)' => Pending(d)
    BY <1>2 DEF Pending, Sent, Queued
  <1>8. WaitsOK'
    BY <1>1, <1>4, <1>7 DEF FlowInv, WaitsOK
  <1> QED BY <1>4, <1>5, <1>6, <1>8 DEF FlowInv

-----------------------------------------------------------------------------
(* Which sessions there are, and how many.                                 *)

\* A step that binds and unbinds nothing, and in which nobody begins or ends to
\* wait for dbmutex, leaves the sessions as they are.
LEMMA SameSessions ==
    ASSUME NEW w \in Workers, UNCHANGED db_name_table,
           \A v \in Workers \ {w} : pc'[v] = pc[v] /\ local'[v] = local[v],
           pc[w] \notin {"open_lock", "unlink_lock"},
           pc'[w] \notin {"open_lock", "unlink_lock"}
    PROVE  \A n : Sessions(n)' = Sessions(n)
  <1>1. \A c, n : Linked(c, n)' <=> Linked(c, n)
    <2>1. \A v \in Workers : \A c :
             /\ Handling(v, c, {"open_lock"})' <=> Handling(v, c, {"open_lock"})
             /\ Handling(v, c, {"unlink_lock"})' <=> Handling(v, c, {"unlink_lock"})
      BY DEF Handling, Fd
    <2>2. \A v \in Workers : pc[v] = "unlink_lock" => DbOf(v)' = DbOf(v)
      BY DEF DbOf
    <2> QED BY <2>1, <2>2 DEF Linked, Handling
  <1> QED BY <1>1 DEF Sessions

\* What the counts say outlives every step that changes no session, no entry
\* and nothing between lock and unlock.
LEMMA LinksQuiet ==
    ASSUME LinksOK, UNCHANGED db_handle_table,
           \A n : Sessions(n)' = Sessions(n),
           \A v \in Workers :
              \/ pc'[v] = pc[v] /\ local'[v] = local[v]
              \/ pc[v] \notin Critical /\ pc'[v] \notin Critical
    PROVE  LinksOK'
  <1>1. \A n : (Listed(n)' <=> Listed(n)) /\ ListedAs(n)' = ListedAs(n)
    BY DEF Listed, ListedAs
  <1>2. \A v \in Workers :
           /\ pc'[v] \in Critical <=> pc[v] \in Critical
           /\ pc[v] \in Critical => /\ DbOf(v)' = DbOf(v) /\ LinksHeld(v)' = LinksHeld(v)
                                    /\ pc'[v] = pc[v]
    BY DEF DbOf, LinksHeld
  <1>3. ASSUME NEW n \in Names, \A w \in Workers : pc'[w] \in Critical => DbOf(w)' # n
        PROVE  Cardinality(Sessions(n))' = IF Listed(n)' THEN ListedAs(n)'.links ELSE 0
    <2>1. \A w \in Workers : pc[w] \in Critical => DbOf(w) # n
      BY <1>2, <1>3
    <2>2. Cardinality(Sessions(n))' = Cardinality(Sessions(n))
      OBVIOUS
    <2> QED BY <1>1, <2>1, <2>2 DEF LinksOK
  <1>4. ASSUME NEW w \in Workers, pc'[w] \in Critical
        PROVE  /\ Cardinality(Sessions(DbOf(w)))' = LinksHeld(w)'
               /\ pc'[w] \in {"close_hdb", "close_del"} => LinksHeld(w)' <= 0
    <2>1. Cardinality(Sessions(DbOf(w)))' = Cardinality(Sessions(DbOf(w)))
      BY <1>2, <1>4
    <2> QED BY <1>2, <1>4, <2>1 DEF LinksOK
  <1> QED BY <1>3, <1>4 DEF LinksOK

\* The only worker near the mutex takes it, goes on, or releases it.
LEMMA LinksMoved ==
    ASSUME LinksOK, NEW w \in Workers, NEW m \in Names, DbOf(w) = m,
           \A v \in Workers \ {w} : pc[v] \notin Critical /\ pc'[v] = pc[v],
           \A n \in Names \ {m} :
              /\ Sessions(n)' = Sessions(n)
              /\ Listed(n)' <=> Listed(n)
              /\ Listed(n) => ListedAs(n)' = ListedAs(n),
           IF pc'[w] \in Critical
           THEN /\ DbOf(w)' = m
                /\ Cardinality(Sessions(m)') = LinksHeld(w)'
                /\ pc'[w] \in {"close_hdb", "close_del"} => LinksHeld(w)' <= 0
           ELSE Cardinality(Sessions(m)') = IF Listed(m)' THEN ListedAs(m)'.links ELSE 0
    PROVE  LinksOK'
  <1>1. ASSUME NEW n \in Names, \A v \in Workers : pc'[v] \in Critical => DbOf(v)' # n
        PROVE  Cardinality(Sessions(n))' = IF Listed(n)' THEN ListedAs(n)'.links ELSE 0
    <2>1. CASE n = m
      BY <1>1, <2>1
    <2>2. CASE n # m
      <3>1. \A v \in Workers : pc[v] \in Critical => DbOf(v) # n
        BY <2>2
      <3>2. Cardinality(Sessions(n)) = IF Listed(n) THEN ListedAs(n).links ELSE 0
        BY <3>1 DEF LinksOK
      <3> QED BY <2>2, <3>2
    <2> QED BY <2>1, <2>2
  <1>2. ASSUME NEW v \in Workers, pc'[v] \in Critical
        PROVE  /\ Cardinality(Sessions(DbOf(v)))' = LinksHeld(v)'
               /\ pc'[v] \in {"close_hdb", "close_del"} => LinksHeld(v)' <= 0
    BY <1>2
  <1> QED BY <1>1, <1>2 DEF LinksOK

\* Any subset of the clients can be counted.
LEMMA SessionsCounted ==
    \A n : /\ IsFiniteSet(Sessions(n)) /\ Cardinality(Sessions(n)) \in Nat
           /\ \A c \in Sessions(n) : Cardinality(Sessions(n)) >= 1
  <1>1. ASSUME NEW n PROVE IsFiniteSet(Sessions(n)) /\ Cardinality(Sessions(n)) \in Nat
    <2>1. Sessions(n) \in SUBSET Clients
      BY DEF Sessions
    <2> QED BY <2>1, ClientsAssumption, FS_Subset, FS_CardinalityType
  <1>2. ASSUME NEW n, NEW c \in Sessions(n) PROVE Cardinality(Sessions(n)) >= 1
    <2>1. Cardinality(Sessions(n)) # 0
      BY <1>1, FS_EmptySet
    <2> QED BY <1>1, <2>1
  <1> QED BY <1>1, <1>2

-----------------------------------------------------------------------------
(* What a step leaves to the other clients and workers.                    *)

\* Only c's session and only w move.
Framed(w, c) ==
    /\ \A v \in Workers \ {w} : pc'[v] = pc[v] /\ local'[v] = local[v]
    /\ \A v \in Workers \ {w} :
          pc[v] = "data_do" => hdb'[local[v].db] = hdb[local[v].db]
    /\ \A d \in Clients \ {c} :
          /\ cstate'[d] = cstate[d] /\ DBName'[d] = DBName[d]
          /\ request'[d] = request[d] /\ answer'[d] = answer[d]
          /\ Sent(d)' => Sent(d)
          /\ Bound(d)' <=> Bound(d)
          /\ Bound(d) => NameOf(d)' = NameOf(d)

LEMMA StepKeeps ==
    ASSUME SessionInv, HandleInv', FlowInv',
           NEW w \in Workers, NEW c \in Clients, Framed(w, c),
           \A v \in Workers \ {w} : ~ Holds(v, c),
           ClientOK(c)', HandOK(w)', KeysUnique(db_name_table'), LinksOK',
           fault' \in IF CrashClients = {} THEN {"none"} ELSE {"none", "SIGPIPE"}
    PROVE  SessionInv'
  <1>1. \A d \in Clients : ClientOK(d)'
    <2>1. ASSUME NEW d \in Clients \ {c} PROVE ClientOK(d)'
      <3>1. ClientOK(d)
        BY DEF SessionInv
      <3> QED BY <3>1 DEF ClientOK, Framed
    <2> QED BY <2>1
  <1>2. \A v \in Workers : HandOK(v)'
    <2>1. ASSUME NEW v \in Workers \ {w}, pc[v] # "idle" PROVE HandOK(v)'
      <3>1. TypeInv /\ HandOK(v)
        BY DEF SessionInv, HandleInv
      <3>2. Fd(v) \in Clients \ {c} /\ Fd(v)' = Fd(v)
        BY <2>1, <3>1, Typed DEF Holds, Framed, Fd
      <3>3. /\ pc'[v] = pc[v] /\ local'[v] = local[v] /\ Cmd(v)' = Cmd(v)
            /\ Arg(v)' = Arg(v) /\ DbOf(v)' = DbOf(v)
        BY DEF Framed, Cmd, Arg, DbOf
      <3>4. PICK d \in Clients : d = Fd(v) /\ d # c
        BY <3>2
      <3>5. (Bound(d)' <=> Bound(d)) /\ DBName'[d] = DBName[d]
        BY <3>4 DEF Framed
      <3>6. pc[v] = "data_do" => hdb'[local[v].db] = hdb[local[v].db]
        BY DEF Framed
      <3>7. (Bound(Fd(v))' <=> Bound(Fd(v))) /\ DBName[Fd(v)]' = DBName[Fd(v)]
        BY <3>2, <3>4, <3>5 DEF Bound
      <3> QED BY <3>1, <3>3, <3>6, <3>7 DEF HandOK
    <2>2. ASSUME NEW v \in Workers \ {w}, pc[v] = "idle" PROVE HandOK(v)'
      <3>1. pc'[v] = "idle"
        BY <2>2 DEF Framed
      <3> QED BY <3>1 DEF HandOK, Opening, Unlinking
    <2> QED BY <2>1, <2>2
  <1> QED BY <1>1, <1>2 DEF SessionInv

\* A worker at work and its client.
LEMMA AtWork ==
    ASSUME SessionInv, NEW w \in Workers, pc[w] # "idle", NEW c, c = Fd(w)
    PROVE  /\ TypeInv /\ c \in Clients /\ ClientOK(c) /\ HandOK(w)
           /\ \A v \in Workers \ {w} : ~ Holds(v, c)
           /\ ~ Sent(c) /\ answer[c] = None /\ cstate[c] \in {"wait", "gone"}
           /\ local[w].task = Task(c, request[c])
           /\ Cmd(w) = request[c].cmd /\ Arg(w) = request[c].arg
           /\ Cmd(w) = "EXIT" => cstate[c] = "gone"
           /\ CrashClients = {} /\ cstate[c] = "gone" => Cmd(w) = "EXIT"
           /\ IsTable(db_name_table, Clients, AllNames) /\ KeysUnique(db_name_table)
           /\ pc \in [Workers -> PCs] /\ local \in [Workers -> Locals]
  <1>1. TypeInv /\ c \in Clients /\ ClientOK(c) /\ HandOK(w)
    BY Typed DEF SessionInv, HandleInv
  <1>2. /\ \A v \in Workers \ {w} : ~ Holds(v, c)
        /\ inbox[c] = <<>> /\ local[w].task = Task(c, request[c])
    BY DEF SessionInv, FlowInv, HandsOK
  <1>3. Holds(w, c)
    BY DEF Holds
  <1>4. ~ Sent(c)
    BY <1>1, <1>2, <1>3, TaskQueued DEF Sent, Queued, SessionInv
  <1>5. /\ answer[c] = None /\ cstate[c] \in {"wait", "gone"}
        /\ request[c].cmd = "EXIT" => cstate[c] = "gone"
        /\ CrashClients = {} /\ cstate[c] = "gone" => request[c].cmd = "EXIT"
    BY <1>1, <1>3 DEF SessionInv, FlowInv, WaitsOK, Pending
  <1>6. Cmd(w) = request[c].cmd /\ Arg(w) = request[c].arg
    BY <1>2 DEF Cmd, Arg, Task
  <1> QED BY <1>1, <1>2, <1>4, <1>5, <1>6, FlowTypes, Typed DEF SessionInv

\* A step in the middle of a request.
LEMMA InnerStep ==
    ASSUME SessionInv, HandleInv', NEW w \in Workers, NEW c, c = Fd(w),
           pc[w] # "idle", pc'[w] # "idle", local'[w].task = local[w].task,
           \A v \in Workers \ {w} : pc'[v] = pc[v] /\ local'[v] = local[v],
           UNCHANGED inner,
           \A v \in Workers \ {w} :
              pc[v] = "data_do" => hdb'[local[v].db] = hdb[local[v].db],
           \A d \in Clients \ {c} : /\ Bound(d)' <=> Bound(d)
                                    /\ Bound(d) => NameOf(d)' = NameOf(d),
           Bound(c)' => NameOf(c)' = DBName[c] /\ DBName[c] \in Names,
           KeysUnique(db_name_table'), HandOK(w)', LinksOK',
           fault' \in IF CrashClients = {} THEN {"none"} ELSE {"none", "SIGPIPE"}
    PROVE  SessionInv'
  <1> USE DEF inner, envVars, clientVars, netVars
  <1>1. /\ TypeInv /\ c \in Clients /\ ~ Sent(c) /\ answer[c] = None
        /\ cstate[c] \in {"wait", "gone"}
        /\ \A v \in Workers \ {w} : ~ Holds(v, c)
    BY AtWork
  <1>2. FlowInv'
    BY <1>1, WorkFlows DEF SessionInv
  <1>3. \A d : Sent(d)' <=> Sent(d)
    BY DEF Sent, Queued
  <1>4. ClientOK(c)'
    BY <1>1, <1>3 DEF ClientOK
  <1>5. Framed(w, c)
    BY <1>3 DEF Framed
  <1> QED BY <1>1, <1>2, <1>4, <1>5, StepKeeps

\* A step in the middle of a request that leaves the bindings and the open
\* databases alone, and the entries unless it has said what the links are.
LEMMA PlainStep ==
    ASSUME SessionInv, HandleInv', NEW w \in Workers, NEW c, c = Fd(w),
           pc[w] # "idle", pc'[w] # "idle", local'[w].task = local[w].task,
           \A v \in Workers \ {w} : pc'[v] = pc[v] /\ local'[v] = local[v],
           UNCHANGED <<inner, db_name_table, hdb, fault>>,
           HandOK(w)',
           \/ LinksOK'
           \/ /\ UNCHANGED db_handle_table
              /\ pc[w] \notin Critical \cup {"open_lock", "unlink_lock"}
              /\ pc'[w] \notin Critical \cup {"open_lock", "unlink_lock"}
    PROVE  SessionInv'
  <1>1. \A d : (Bound(d)' <=> Bound(d)) /\ NameOf(d)' = NameOf(d)
    BY DEF Bound, NameOf
  <1>2. ClientOK(c)
    BY AtWork
  <1>3. LinksOK'
    <2>1. CASE UNCHANGED db_handle_table /\ pc[w] \notin Critical \cup {"open_lock", "unlink_lock"}
               /\ pc'[w] \notin Critical \cup {"open_lock", "unlink_lock"}
      <3>1. \A n : Sessions(n)' = Sessions(n)
        BY <2>1, SameSessions
      <3> QED BY <2>1, <3>1, LinksQuiet DEF SessionInv
    <2> QED BY <2>1
  <1>4. DBName' = DBName
    BY DEF inner, envVars, clientVars
  <1> QED BY <1>1, <1>2, <1>3, <1>4, InnerStep DEF ClientOK, SessionInv

-----------------------------------------------------------------------------
(* The steps of a worker.                                                  *)

LEMMA TakeKeeps ==
    ASSUME SessionInv, HandleInv', NEW w \in Workers, TakeTask(w)
    PROVE  SessionInv'
  <1>1. TypeInv /\ FlowInv
    BY DEF SessionInv, HandleInv
  <1>2. FlowInv' /\ \A d \in Clients : Queued(d)' => Queued(d)
    BY <1>1, TakeFlows
  <1>3. PICK c \in Clients :
           /\ local'[w].task = Task(c, request[c])
           /\ pc'[w] = Entry[request[c].cmd] /\ pc'[w] # "idle"
           /\ Queued(c) /\ \A v \in Workers : ~ Holds(v, c)
    BY <1>1, TakeFlows
  <1>4. /\ pc[w] = "idle"
        /\ UNCHANGED <<cstate, DBName, request, answer, inbox, db_name_table,
                       db_handle_table, hdb, fault>>
        /\ \A v \in Workers \ {w} : pc'[v] = pc[v] /\ local'[v] = local[v]
    BY <1>1, FlowTypes DEF TakeTask, envVars, clientVars, netVars, tableVars, fileVars
  <1>5. /\ \A d : (Bound(d)' <=> Bound(d)) /\ NameOf(d)' = NameOf(d)
        /\ \A d \in Clients : Sent(d)' => Sent(d)
    BY <1>2, <1>4 DEF Bound, NameOf, Sent
  <1>6. ClientOK(c)' /\ ClientOK(c) /\ Sent(c)
    BY <1>3, <1>4, <1>5 DEF SessionInv, ClientOK, Sent
  <1>7. Fd(w)' = c /\ Cmd(w)' = request[c].cmd /\ Arg(w)' = request[c].arg
    BY <1>3 DEF Fd, Cmd, Arg, Task
  <1>8. request[c].cmd \in Cmds \cup {"none"}
    BY <1>1, FlowTypes DEF Requests
  <1>9. /\ pc'[w] \in {"open_name", "unbind_get", "data_name"}
        /\ pc'[w] = "open_name" <=> request[c].cmd = "OPEN"
        /\ pc'[w] = "unbind_get" => request[c].cmd \in {"CLOSE", "EXIT"}
        /\ pc'[w] = "data_name" => request[c].cmd \notin {"OPEN", "EXIT"}
    BY <1>3, <1>8 DEF Entry, Cmds, DataCmds
  <1>10. HandOK(w)'
    BY <1>4, <1>5, <1>6, <1>7, <1>9 DEF HandOK, ClientOK, Opening, Unlinking
  <1>11. LinksOK'
    <2>1. \A n : Sessions(n)' = Sessions(n)
      BY <1>4, <1>9, SameSessions
    <2> QED BY <1>4, <1>9, <2>1, LinksQuiet DEF SessionInv, Critical
  <1>12. Framed(w, c)
    BY <1>4, <1>5 DEF Framed
  <1> QED BY <1>2, <1>3, <1>4, <1>6, <1>10, <1>11, <1>12, StepKeeps DEF SessionInv

\* The name looked up for a bound descriptor is its client's.
LEMMA NameFound ==
    ASSUME SessionInv, NEW w \in Workers, pc[w] # "idle", Bound(Fd(w))
    PROVE  \A n \in LookupName(w) : n = DBName[Fd(w)]
  <1>1. ClientOK(Fd(w))
    BY AtWork
  <1> QED BY <1>1 DEF ClientOK, LookupName, Bound, NameOf

LEMMA UnbindGetKeeps ==
    ASSUME SessionInv, HandleInv', NEW w \in Workers, UnbindGet(w)
    PROVE  SessionInv'
  <1>0. PICK c : c = Fd(w)
    OBVIOUS
  <1>1. pc[w] = "unbind_get" /\ pc[w] # "idle"
    BY DEF UnbindGet
  <1>2. /\ HandOK(w) /\ pc \in [Workers -> PCs] /\ local \in [Workers -> Locals]
        /\ TypeInv /\ Cmd(w) \in {"CLOSE", "EXIT"}
    <2>1. TypeInv /\ CmdsAt("unbind_get") = {"CLOSE", "EXIT"}
      BY <1>1, AtWork DEF CmdsAt
    <2> QED BY <1>1, <2>1, AtWork, Typed
  <1>3. /\ UNCHANGED <<inner, db_name_table, db_handle_table, hdb, fault>>
        /\ pc'[w] \in {"exit_close", "unbind_del"}
        /\ \A v \in Workers \ {w} : pc'[v] = pc[v] /\ local'[v] = local[v]
        /\ local'[w].task = local[w].task
    BY <1>2 DEF UnbindGet, tableVars, fileVars, Locals
  <1>4. DBName' = DBName /\ db_name_table' = db_name_table /\ Fd(w)' = c
    BY <1>0, <1>3 DEF inner, envVars, clientVars, Fd
  <1>5. HandOK(w)'
    <2>1. CASE pc'[w] = "exit_close"
      BY <2>1 DEF HandOK, Opening, Unlinking
    <2>2. CASE pc'[w] = "unbind_del"
      <3>a. /\ Cmd(w) = "CLOSE" \/ Bound(c)
            /\ \E n \in LookupName(w) : local' = [local EXCEPT ![w].dbname = n]
        BY <1>0, <1>2, <2>2 DEF UnbindGet, Bound
      <3>b. Cmd(w) = "CLOSE" => Bound(c)
        BY <1>0, <1>1, <1>2 DEF HandOK
      <3>1. Bound(c) /\ \E n \in LookupName(w) : local'[w].dbname = n
        BY <1>2, <3>a, <3>b DEF Locals
      <3>2. DbOf(w)' = DBName[c]
        BY <1>0, <1>1, <3>1, NameFound DEF DbOf
      <3>3. Bound(c)'
        BY <1>4, <3>1 DEF Bound
      <3> QED BY <1>4, <2>2, <3>2, <3>3 DEF HandOK, Opening, Unlinking
    <2> QED BY <1>3, <2>1, <2>2
  <1>6. pc'[w] # "idle" /\ pc'[w] \notin Critical \cup {"open_lock", "unlink_lock"}
    BY <1>3 DEF Critical
  <1>7. pc[w] \notin Critical \cup {"open_lock", "unlink_lock"}
    BY <1>1 DEF Critical
  <1> QED BY <1>0, <1>1, <1>3, <1>5, <1>6, <1>7, PlainStep

\* What takes a worker to the database of a data request.
LEMMA DataNameKeeps ==
    ASSUME SessionInv, HandleInv', NEW w \in Workers, DataName(w)
    PROVE  SessionInv'
  <1>0. PICK c : c = Fd(w)
    OBVIOUS
  <1>1. pc[w] = "data_name" /\ pc[w] # "idle"
    BY DEF DataName
  <1>2. HandOK(w) /\ pc \in [Workers -> PCs] /\ local \in [Workers -> Locals]
    BY <1>1, AtWork
  <1>3. /\ UNCHANGED <<inner, db_name_table, db_handle_table, hdb, fault>>
        /\ pc'[w] = "data_handle"
        /\ \A v \in Workers \ {w} : pc'[v] = pc[v] /\ local'[v] = local[v]
        /\ local'[w].task = local[w].task
        /\ \E n \in LookupName(w) : local'[w].dbname = n
    BY <1>2 DEF DataName, tableVars, fileVars, Locals
  <1>4. DBName' = DBName /\ db_name_table' = db_name_table /\ Fd(w)' = c
    BY <1>0, <1>3 DEF inner, envVars, clientVars, Fd
  <1>5. HandOK(w)'
    <2>1. Bound(c)
      BY <1>0, <1>1, <1>2 DEF HandOK
    <2>2. DbOf(w)' = DBName[c]
      BY <1>0, <1>1, <1>3, <2>1, NameFound DEF DbOf
    <2>3. Bound(c)'
      BY <1>4, <2>1 DEF Bound
    <2> QED BY <1>3, <1>4, <2>2, <2>3 DEF HandOK, Opening, Unlinking
  <1>6. /\ pc'[w] # "idle" /\ pc'[w] \notin Critical \cup {"open_lock", "unlink_lock"}
        /\ pc[w] \notin Critical \cup {"open_lock", "unlink_lock"}
    BY <1>1, <1>3 DEF Critical
  <1> QED BY <1>0, <1>1, <1>3, <1>5, <1>6, PlainStep

\* A bound client is in a session, unless its open is still to be counted.
LEMMA InSession ==
    ASSUME SessionInv, NEW c \in Clients, Bound(c),
           \A v \in Workers : pc[v] = "open_lock" => Fd(v) # c
    PROVE  c \in Sessions(DBName[c]) /\ DBName[c] \in Names
  <1>1. NameOf(c) = DBName[c] /\ DBName[c] \in Names
    BY DEF SessionInv, ClientOK
  <1> QED BY <1>1 DEF Sessions, Linked, Handling, Bound, NameOf

\* A database with a session on it is not being closed.
LEMMA SessionKeepsOpen ==
    ASSUME SessionInv, NEW n \in Names, Sessions(n) # {}
    PROVE  \A v \in Workers : pc[v] \in {"close_hdb", "close_del"} => DbOf(v) # n
  <1>1. Cardinality(Sessions(n)) \in Nat /\ Cardinality(Sessions(n)) >= 1
    BY SessionsCounted
  <1>2. ASSUME NEW v \in Workers, pc[v] \in {"close_hdb", "close_del"}, DbOf(v) = n
        PROVE  FALSE
    <2>1. pc[v] \in Critical
      BY <1>2 DEF Critical
    <2>2. Cardinality(Sessions(n)) = LinksHeld(v) /\ LinksHeld(v) <= 0
      BY <1>2, <2>1 DEF SessionInv, LinksOK
    <2> QED BY <1>1, <2>2
  <1> QED BY <1>2

LEMMA DataHandleKeeps ==
    ASSUME SessionInv, HandleInv', NEW w \in Workers, DataHandle(w)
    PROVE  SessionInv'
  <1>0. PICK c : c = Fd(w)
    OBVIOUS
  <1>1. pc[w] = "data_handle" /\ pc[w] # "idle"
    BY DEF DataHandle
  <1>2. /\ HandOK(w) /\ pc \in [Workers -> PCs] /\ local \in [Workers -> Locals]
        /\ c \in Clients /\ \A v \in Workers \ {w} : ~ Holds(v, c)
        /\ TypeInv /\ Cmd(w) \in DataCmds
    <2>1. TypeInv /\ CmdsAt("data_handle") = DataCmds
      BY <1>1, AtWork DEF CmdsAt
    <2> QED BY <1>0, <1>1, <2>1, AtWork, Typed
  <1>3. /\ UNCHANGED <<inner, db_name_table, db_handle_table, hdb, fault>>
        /\ pc'[w] \in {"data_do", "reply"}
        /\ \A v \in Workers \ {w} : pc'[v] = pc[v] /\ local'[v] = local[v]
        /\ local'[w].task = local[w].task /\ local'[w].dbname = local[w].dbname
    BY <1>2 DEF DataHandle, tableVars, fileVars, Locals
  <1>4. /\ DBName' = DBName /\ db_name_table' = db_name_table /\ Fd(w)' = c
        /\ Cmd(w)' = Cmd(w) /\ DbOf(w)' = DbOf(w)
    BY <1>0, <1>3 DEF inner, envVars, clientVars, Fd, Cmd, DbOf
  <1>5. Bound(c) /\ Bound(c)' /\ DbOf(w) = DBName[c]
    BY <1>0, <1>1, <1>2, <1>4 DEF HandOK, Bound
  <1>6. HandOK(w)'
    <2>1. CASE pc'[w] = "reply"
      <3>1. local' = [local EXCEPT ![w].out = Ans("ERROR")]
        BY <1>2, <2>1 DEF DataHandle
      <3>2. local'[w].out = Ans("ERROR")
        BY <1>2, <3>1 DEF Locals
      <3>3. Ans("ERROR") \in Answers /\ Ans("ERROR").code # "OPEN_OK"
        BY DEF Ans, Answers, Codes
      <3>4. Cmd(w) \notin {"OPEN", "CLOSE", "EXIT"}
        BY <1>2 DEF DataCmds
      <3> QED BY <1>4, <1>5, <2>1, <3>2, <3>3, <3>4 DEF HandOK, Opening, Unlinking
    <2>2. CASE pc'[w] = "data_do"
      <3>0. PICK n : n = DBName[c]
        OBVIOUS
      <3>1. Listed(n) /\ local' = [local EXCEPT ![w].db = ListedAs(n).hdb]
        BY <1>2, <1>5, <2>2, <3>0 DEF DataHandle, Listed, ListedAs
      <3>2. local'[w].db = ListedAs(n).hdb
        BY <1>2, <3>1 DEF Locals
      <3>3. n \in Names /\ c \in Sessions(n)
        <4>1. \A v \in Workers : pc[v] = "open_lock" => Fd(v) # c
          BY <1>1, <1>2 DEF Holds
        <4> QED BY <1>2, <1>5, <3>0, <4>1, InSession
      <3>4. hdb[ListedAs(n).hdb] = n
        <4>1. n \in AllNames /\ EntriesOK
          BY <3>3 DEF AllNames, SessionInv, HandleInv
        <4>2. \A v \in Workers : pc[v] = "close_del" => DbOf(v) # n
          BY <3>3, SessionKeepsOpen
        <4> QED BY <3>1, <4>1, <4>2 DEF EntriesOK
      <3>5. hdb[local[w].db]' = n
        BY <1>3, <3>2, <3>4
      <3>6. DBName'[Fd(w)'] = n
        BY <1>4, <3>0
      <3>7. DbOf(w)' = n /\ Bound(Fd(w))'
        BY <1>4, <1>5, <3>0 DEF Bound
      <3> QED BY <2>2, <3>5, <3>6, <3>7 DEF HandOK, Opening, Unlinking
    <2> QED BY <1>3, <2>1, <2>2
  <1>7. /\ pc'[w] # "idle" /\ pc'[w] \notin Critical \cup {"open_lock", "unlink_lock"}
        /\ pc[w] \notin Critical \cup {"open_lock", "unlink_lock"}
    BY <1>1, <1>3 DEF Critical
  <1> QED BY <1>0, <1>1, <1>3, <1>6, <1>7, PlainStep

\* A data request is not answered with OPEN_OK.
LEMMA FileAnswer ==
    ASSUME TypeInv, NEW w \in Workers, pc[w] = "data_do",
           NEW n \in Names, DataOnFile(w, n)
    PROVE  \E a \in Answers : /\ local' = [local EXCEPT ![w].out = a]
                              /\ a.code # "OPEN_OK"
  <1> DEFINE b == ByteOfKey(Arg(w))
  <1>1. b \in Bytes /\ store[n] \in [Bytes -> Keys \cup {None}]
    <2>1. Arg(w) \in Keys /\ store \in [Names -> [Bytes -> Keys \cup {None}]]
      BY Typed DEF CmdsAt
    <2> QED BY <2>1 DEF Bytes
  <1>2. \A code \in {"PUT_OK", "DELETE_OK", "ERROR"} :
           Ans(code) \in Answers /\ Ans(code).code # "OPEN_OK"
    BY DEF Ans, Answers, Codes
  <1>3. /\ [code |-> "GET_OK", val |-> store[n][b]] \in Answers
        /\ [code |-> "GET_OK", val |-> store[n][b]].code # "OPEN_OK"
    BY <1>1 DEF Answers, Codes
  <1>4. \/ \E code \in {"PUT_OK", "DELETE_OK", "ERROR"} :
              local' = [local EXCEPT ![w].out = Ans(code)]
        \/ local' = [local EXCEPT ![w].out = [code |-> "GET_OK", val |-> store[n][b]]]
    BY DEF DataOnFile
  <1> QED BY <1>2, <1>3, <1>4

LEMMA DataDoKeeps ==
    ASSUME SessionInv, HandleInv', NEW w \in Workers, DataDo(w)
    PROVE  SessionInv'
  <1>0. PICK c : c = Fd(w)
    OBVIOUS
  <1>1. pc[w] = "data_do" /\ pc[w] # "idle"
    BY DEF DataDo
  <1>2. /\ HandOK(w) /\ pc \in [Workers -> PCs] /\ local \in [Workers -> Locals]
        /\ c \in Clients /\ ClientOK(c)
        /\ TypeInv /\ Cmd(w) \in DataCmds
    <2>1. TypeInv /\ CmdsAt("data_do") = DataCmds
      BY <1>1, AtWork DEF CmdsAt
    <2> QED BY <1>0, <1>1, <2>1, AtWork, Typed
  <1>3. PICK n \in Names : hdb[local[w].db] = n /\ n # None /\ Bound(c)
    <2>1. hdb[local[w].db] = DBName[c] /\ Bound(c)
      BY <1>0, <1>1, <1>2 DEF HandOK
    <2>2. DBName[c] \in Names /\ DBName[c] # None
      BY <1>2, <2>1, NoneAssumption DEF ClientOK, AllNames
    <2> QED BY <2>1, <2>2
  <1>4. /\ UNCHANGED <<inner, db_name_table, db_handle_table, hdb, fault>>
        /\ pc' = [pc EXCEPT ![w] = "reply"] /\ DataOnFile(w, n)
    BY <1>3 DEF DataDo, tableVars
  <1>5. PICK a \in Answers : /\ local' = [local EXCEPT ![w].out = a]
                             /\ a.code # "OPEN_OK"
    BY <1>1, <1>2, <1>4, FileAnswer
  <1>6. /\ pc'[w] = "reply"
        /\ \A v \in Workers \ {w} : pc'[v] = pc[v] /\ local'[v] = local[v]
        /\ local'[w].task = local[w].task /\ local'[w].out = a
    BY <1>2, <1>4, <1>5 DEF Locals
  <1>7. /\ DBName' = DBName /\ db_name_table' = db_name_table /\ Fd(w)' = c
        /\ Cmd(w)' = Cmd(w)
    BY <1>0, <1>4, <1>6 DEF inner, envVars, clientVars, Fd, Cmd
  <1>8. HandOK(w)'
    <2>1. Cmd(w) \notin {"OPEN", "CLOSE", "EXIT"}
      BY <1>2 DEF DataCmds
    <2>2. Bound(c)'
      BY <1>3, <1>7 DEF Bound
    <2> QED BY <1>5, <1>6, <1>7, <2>1, <2>2 DEF HandOK, Opening, Unlinking
  <1>9. /\ pc'[w] # "idle" /\ pc'[w] \notin Critical \cup {"open_lock", "unlink_lock"}
        /\ pc[w] \notin Critical \cup {"open_lock", "unlink_lock"}
    BY <1>1, <1>6 DEF Critical
  <1> QED BY <1>0, <1>1, <1>4, <1>6, <1>8, <1>9, PlainStep

\* A worker at the handle table is there for the file of its client.
LEMMA NameInHand ==
    ASSUME SessionInv, NEW w \in Workers, pc[w] \in Opening \cup Unlinking
    PROVE  /\ DbOf(w) = DBName[Fd(w)] /\ DbOf(w) \in Names /\ DbOf(w) \in AllNames
           /\ Bound(Fd(w)) <=> pc[w] \in Opening
  <1>1. pc[w] # "idle"
    BY DEF Opening, Unlinking
  <1>2. HandOK(w) /\ ClientOK(Fd(w))
    BY <1>1, AtWork
  <1>3. pc[w] \in Opening => pc[w] \notin Unlinking
    BY DEF Opening, Unlinking
  <1> QED BY <1>2, <1>3 DEF HandOK, ClientOK, AllNames

\* Taking an entry out, and putting it back, keeps the counts.
LEMMA EntryStepCounts ==
    ASSUME SessionInv, NEW w \in Workers, pc[w] \in Critical,
           \/ OpenUnlist(w) \/ OpenRelist(w) \/ CloseUnlist(w)
           \/ UnlinkUnlist(w) \/ UnlinkRelist(w)
    PROVE  LinksOK'
  <1>1. PICK m \in Names : m = DbOf(w) /\ m \in AllNames
    <2>1. pc[w] \in Opening \cup Unlinking
      BY DEF Critical, Opening, Unlinking
    <2> QED BY <2>1, NameInHand
  <1>2. /\ HandleInv /\ TypeInv /\ LinksOK /\ KeysUnique(db_handle_table) /\ Knows(w)
        /\ pc \in [Workers -> PCs] /\ local \in [Workers -> Locals] /\ Workers # {}
    <2>1. HandleInv /\ TypeInv /\ LinksOK /\ KeysUnique(db_handle_table) /\ Knows(w)
      BY DEF SessionInv, HandleInv
    <2> QED BY <2>1, Typed
  <1>3. /\ \A v \in Workers \ {w} : pc[v] \notin Critical /\ pc'[v] = pc[v] /\ local'[v] = local[v]
        /\ DbOf(w)' = m
        /\ ~ OpenUnlist(w) => local'[w].dhn = local[w].dhn
        /\ local[w].dhn \in HandleNodes \/ pc[w] = "open_hdb"
    BY <1>1, <1>2, HeldMove
  <1>4. /\ UNCHANGED db_name_table
        /\ pc[w] \in {"open_del", "open_add", "close_del", "relink_del", "relink_add"}
        /\ pc'[w] \in {"open_add", "relink_add", "exit_close", "reply"}
    BY <1>2 DEF OpenUnlist, OpenRelist, CloseUnlist, UnlinkUnlist, UnlinkRelist, Closed
  <1>5. PICK k \in Nat : k = Cardinality(Sessions(m)) /\ k = Cardinality(Sessions(m)')
                         /\ \A n : Sessions(n)' = Sessions(n)
    <2>1. \A n : Sessions(n)' = Sessions(n)
      BY <1>3, <1>4, SameSessions
    <2> QED BY <2>1, SessionsCounted
  <1>6. k = LinksHeld(w) /\ (pc[w] = "close_del" => LinksHeld(w) <= 0)
    BY <1>1, <1>2, <1>5 DEF LinksOK
  <1>7. PICK dhn \in HandleNodes : dhn = local[w].dhn /\ dhn.links \in Int
    BY <1>3, <1>4 DEF HandleNodes
  <1>8. CASE OpenUnlist(w) \/ UnlinkUnlist(w)
    <2>1. db_handle_table' = HashDelete(db_handle_table, m)
      BY <1>1, <1>8 DEF OpenUnlist, UnlinkUnlist
    <2>2. \A n \in AllNames \ {m} :
             (Listed(n)' <=> Listed(n)) /\ (Listed(n) => ListedAs(n)' = ListedAs(n))
      BY <1>1, <1>2, <2>1, EntryRemoved
    <2>3. pc'[w] \in {"open_add", "relink_add"} /\ LinksHeld(w)' = k
      <3>1. CASE OpenUnlist(w)
        <4>1. pc[w] = "open_del" /\ pc'[w] = "open_add"
              /\ local'[w].dhn = Relinked(dhn, 1)
          BY <1>2, <1>7, <3>1 DEF OpenUnlist, Locals
        <4>2. Relinked(dhn, 1).links = dhn.links + 1
          BY <1>7 DEF Relinked, HandleNodes
        <4> QED BY <1>6, <1>7, <4>1, <4>2 DEF LinksHeld
      <3>2. CASE UnlinkUnlist(w)
        <4>1. pc[w] = "relink_del" /\ pc'[w] = "relink_add" /\ local'[w].dhn = dhn
          BY <1>2, <1>7, <3>2 DEF UnlinkUnlist
        <4> QED BY <1>6, <1>7, <4>1 DEF LinksHeld
      <3> QED BY <1>8, <3>1, <3>2
    <2>4. pc'[w] \in Critical /\ pc'[w] \notin {"close_hdb", "close_del"}
      BY <2>3 DEF Critical
    <2> QED BY <1>1, <1>2, <1>3, <1>5, <2>2, <2>3, <2>4, LinksMoved DEF AllNames
  <1>9. CASE OpenRelist(w) \/ UnlinkRelist(w)
    <2>1. db_handle_table' = HashAddNode(db_handle_table, m, dhn)
      BY <1>1, <1>7, <1>9 DEF OpenRelist, UnlinkRelist
    <2>2. pc[w] \in {"open_add", "relink_add"} /\ pc'[w] \notin Critical
      BY <1>2, <1>9 DEF OpenRelist, UnlinkRelist, Closed, Critical
    <2>3. ~ Listed(m)
      BY <1>1, <1>2, <2>2 DEF Knows
    <2>4. /\ Listed(m)' /\ ListedAs(m)' = dhn
          /\ \A n \in AllNames \ {m} :
                (Listed(n)' <=> Listed(n)) /\ (Listed(n) => ListedAs(n)' = ListedAs(n))
      BY <1>1, <1>2, <2>1, <2>3, EntryAdded
    <2>5. k = dhn.links
      BY <1>6, <1>7, <2>2 DEF LinksHeld
    <2> QED BY <1>1, <1>2, <1>3, <1>5, <2>2, <2>4, <2>5, LinksMoved DEF AllNames
  <1>10. CASE CloseUnlist(w)
    <2>1. db_handle_table' = HashDelete(db_handle_table, m) /\ pc[w] = "close_del"
          /\ pc'[w] \notin Critical
      BY <1>1, <1>2, <1>10 DEF CloseUnlist, Closed, Critical
    <2>2. /\ ~ Listed(m)'
          /\ \A n \in AllNames \ {m} :
                (Listed(n)' <=> Listed(n)) /\ (Listed(n) => ListedAs(n)' = ListedAs(n))
      BY <1>1, <1>2, <2>1, EntryRemoved
    <2>3. k = 0
      BY <1>6, <1>7, <2>1 DEF LinksHeld
    <2> QED BY <1>1, <1>2, <1>3, <1>5, <2>1, <2>2, <2>3, LinksMoved DEF AllNames
  <1> QED BY <1>8, <1>9, <1>10

LEMMA EntryStepKeeps ==
    ASSUME SessionInv, HandleInv', NEW w \in Workers,
           \/ OpenUnlist(w) \/ OpenRelist(w) \/ CloseUnlist(w)
           \/ UnlinkUnlist(w) \/ UnlinkRelist(w)
    PROVE  SessionInv'
  <1>0. PICK c : c = Fd(w)
    OBVIOUS
  <1>1. pc[w] \in {"open_del", "open_add", "close_del", "relink_del", "relink_add"}
    BY DEF OpenUnlist, OpenRelist, CloseUnlist, UnlinkUnlist, UnlinkRelist
  <1>2. pc[w] # "idle" /\ pc[w] \in Critical /\ pc[w] \in Opening \cup Unlinking
    BY <1>1 DEF Critical, Opening, Unlinking
  <1>3. /\ TypeInv /\ HandOK(w) /\ pc \in [Workers -> PCs] /\ local \in [Workers -> Locals]
        /\ Cmd(w) \in CmdsAt(pc[w])
    BY <1>2, AtWork, Typed
  <1>4. /\ UNCHANGED <<inner, db_name_table, hdb, fault>>
        /\ \A v \in Workers \ {w} : pc'[v] = pc[v] /\ local'[v] = local[v]
        /\ local'[w].task = local[w].task /\ local'[w].dbname = local[w].dbname
    BY <1>3 DEF OpenUnlist, OpenRelist, CloseUnlist, UnlinkUnlist, UnlinkRelist, fileVars, Locals
  <1>5. /\ DBName' = DBName /\ Fd(w)' = c /\ Cmd(w)' = Cmd(w) /\ DbOf(w)' = DbOf(w)
        /\ Bound(c)' <=> Bound(c)
    BY <1>0, <1>4 DEF inner, envVars, clientVars, Fd, Cmd, DbOf, Bound
  <1>6. /\ DbOf(w) = DBName[c] /\ DbOf(w) \in Names
        /\ Bound(c) <=> pc[w] \in Opening
    BY <1>0, <1>2, NameInHand
  <1>7. /\ Ans("OPEN_OK") \in Answers /\ Ans("OPEN_OK").code = "OPEN_OK"
        /\ Ans("CLOSE_OK") \in Answers /\ Ans("CLOSE_OK").code # "OPEN_OK"
    BY DEF Ans, Answers, Codes
  <1>8. pc'[w] # "idle" /\ HandOK(w)'
    <2>1. CASE OpenUnlist(w) \/ UnlinkUnlist(w)
      <3>1. \/ pc[w] = "open_del" /\ pc'[w] = "open_add"
            \/ pc[w] = "relink_del" /\ pc'[w] = "relink_add"
        BY <1>3, <2>1 DEF OpenUnlist, UnlinkUnlist
      <3> QED BY <1>5, <1>6, <3>1 DEF HandOK, Opening, Unlinking
    <2>2. CASE OpenRelist(w)
      <3>1. /\ pc[w] = "open_add" /\ pc'[w] = "reply"
            /\ local'[w].out = Ans("OPEN_OK")
        BY <1>3, <2>2 DEF OpenRelist, Locals
      <3>2. Cmd(w) = "OPEN"
        BY <1>3, <3>1 DEF CmdsAt
      <3> QED BY <1>5, <1>6, <1>7, <3>1, <3>2 DEF HandOK, Opening, Unlinking
    <2>3. CASE CloseUnlist(w) \/ UnlinkRelist(w)
      <3>1. /\ pc[w] \in {"close_del", "relink_add"} /\ pc'[w] = Closed(w)
            /\ local'[w].out = Ans("CLOSE_OK")
        BY <1>3, <2>3 DEF CloseUnlist, UnlinkRelist, Locals, Closed, PCs
      <3>2. Cmd(w) \in {"CLOSE", "EXIT"} /\ pc[w] \notin Opening
        BY <1>3, <3>1 DEF CmdsAt, Opening
      <3>3. CASE Cmd(w) = "EXIT"
        BY <3>1, <3>3 DEF Closed, HandOK, Opening, Unlinking
      <3>4. CASE Cmd(w) = "CLOSE"
        BY <1>5, <1>6, <1>7, <3>1, <3>2, <3>4 DEF Closed, HandOK, Opening, Unlinking
      <3> QED BY <3>2, <3>3, <3>4
    <2> QED BY <2>1, <2>2, <2>3
  <1>9. LinksOK'
    BY <1>2, EntryStepCounts
  <1> QED BY <1>0, <1>2, <1>4, <1>8, <1>9, PlainStep

\* A step that binds or unbinds, or begins or ends to wait for dbmutex, changes
\* at most the session of its own client.
LEMMA OthersLinked ==
    ASSUME NEW w \in Workers, NEW c, c = Fd(w), Fd(w)' = c,
           \A v \in Workers \ {w} : pc'[v] = pc[v] /\ local'[v] = local[v],
           pc[w] # "idle", pc'[w] # "idle",
           \A v \in Workers \ {w} : ~ Holds(v, c),
           \A d \in Clients \ {c} : /\ Bound(d)' <=> Bound(d)
                                    /\ Bound(d) => NameOf(d)' = NameOf(d)
    PROVE  /\ \A d \in Clients \ {c} : \A n : Linked(d, n)' <=> Linked(d, n)
           /\ \A n : Linked(c, n) <=>
                 \/ Bound(c) /\ NameOf(c) = n /\ pc[w] # "open_lock"
                 \/ pc[w] = "unlink_lock" /\ DbOf(w) = n
           /\ \A n : Linked(c, n)' <=>
                 \/ Bound(c)' /\ NameOf(c)' = n /\ pc'[w] # "open_lock"
                 \/ pc'[w] = "unlink_lock" /\ DbOf(w)' = n
  <1>1. \A v \in Workers \ {w} : Fd(v)' = Fd(v) /\ DbOf(v)' = DbOf(v)
    BY DEF Fd, DbOf
  <1>2. \A v \in Workers \ {w} : pc[v] \in {"open_lock", "unlink_lock"} => Fd(v) # c
    BY DEF Holds
  <1>3. \A v \in Workers, d \in Clients \ {c}, p \in {"open_lock", "unlink_lock"} :
           Handling(v, d, {p})' <=> Handling(v, d, {p})
    BY <1>1 DEF Handling
  <1>4. ASSUME NEW d \in Clients \ {c}, NEW n PROVE Linked(d, n)' <=> Linked(d, n)
    <2>1. \A v \in Workers : Handling(v, d, {"unlink_lock"}) => DbOf(v)' = DbOf(v)
      BY <1>1 DEF Handling
    <2> QED BY <1>3, <2>1 DEF Linked, Bound, NameOf
  <1>5. \A p \in {"open_lock", "unlink_lock"} :
           /\ \A v \in Workers : Handling(v, c, {p}) <=> v = w /\ pc[w] = p
           /\ \A v \in Workers : Handling(v, c, {p})' <=> v = w /\ pc'[w] = p
    BY <1>1, <1>2 DEF Handling
  <1> QED BY <1>4, <1>5 DEF Linked, Bound, NameOf

LEMMA OpenNameKeeps ==
    ASSUME SessionInv, HandleInv', NEW w \in Workers, OpenName(w)
    PROVE  SessionInv'
  <1>0. PICK c : c = Fd(w)
    OBVIOUS
  <1>1. pc[w] = "open_name" /\ pc[w] # "idle"
    BY DEF OpenName
  <1>2. /\ HandOK(w) /\ pc \in [Workers -> PCs] /\ local \in [Workers -> Locals]
        /\ c \in Clients /\ \A v \in Workers \ {w} : ~ Holds(v, c)
        /\ IsTable(db_name_table, Clients, AllNames) /\ KeysUnique(db_name_table)
    BY <1>0, <1>1, AtWork
  <1>3. /\ UNCHANGED <<inner, db_handle_table, hdb, fault>>
        /\ pc'[w] = "open_lock"
        /\ \A v \in Workers \ {w} : pc'[v] = pc[v] /\ local'[v] = local[v]
        /\ local'[w].task = local[w].task /\ local'[w].dbname = Arg(w)
        /\ db_name_table' = HashAddNode(db_name_table, c, Arg(w))
    BY <1>0, <1>2 DEF OpenName, fileVars, Locals
  <1>4. DBName' = DBName /\ Fd(w)' = c
    BY <1>0, <1>3 DEF inner, envVars, clientVars, Fd
  <1>5. PICK n \in Names : ~ Bound(c) /\ Arg(w) = n /\ DBName[c] = n /\ n \in AllNames
    BY <1>0, <1>1, <1>2 DEF HandOK, AllNames
  <1>6. /\ Bound(c)' /\ NameOf(c)' = n /\ KeysUnique(db_name_table')
        /\ \A d \in Clients \ {c} : /\ Bound(d)' <=> Bound(d)
                                    /\ Bound(d) => NameOf(d)' = NameOf(d)
    BY <1>2, <1>3, <1>5, AddNode DEF Bound, NameOf
  <1>7. HandOK(w)'
    <2>1. DbOf(w)' = n /\ Bound(Fd(w))'
      BY <1>3, <1>4, <1>5, <1>6 DEF DbOf, Bound
    <2> QED BY <1>3, <1>4, <1>5, <2>1 DEF HandOK, Opening, Unlinking
  <1>8. \A x : Sessions(x)' = Sessions(x)
    <2>1. pc'[w] # "idle"
      BY <1>3
    <2>2. /\ \A d \in Clients \ {c} : \A x : Linked(d, x)' <=> Linked(d, x)
          /\ \A x : ~ Linked(c, x) /\ ~ Linked(c, x)'
      BY <1>0, <1>1, <1>2, <1>3, <1>4, <1>5, <1>6, <2>1, OthersLinked
    <2> QED BY <2>2 DEF Sessions
  <1>9. LinksOK'
    BY <1>1, <1>3, <1>8, LinksQuiet DEF SessionInv, Critical
  <1>10. fault' \in IF CrashClients = {} THEN {"none"} ELSE {"none", "SIGPIPE"}
    BY <1>3 DEF SessionInv
  <1> QED BY <1>0, <1>1, <1>3, <1>5, <1>6, <1>7, <1>9, <1>10, InnerStep

LEMMA UnbindDeleteKeeps ==
    ASSUME SessionInv, HandleInv', NEW w \in Workers, UnbindDelete(w)
    PROVE  SessionInv'
  <1>0. PICK c : c = Fd(w)
    OBVIOUS
  <1>1. pc[w] = "unbind_del" /\ pc[w] # "idle"
    BY DEF UnbindDelete
  <1>2. /\ HandOK(w) /\ ClientOK(c) /\ pc \in [Workers -> PCs]
        /\ c \in Clients /\ \A v \in Workers \ {w} : ~ Holds(v, c)
        /\ IsTable(db_name_table, Clients, AllNames) /\ KeysUnique(db_name_table)
    BY <1>0, <1>1, AtWork
  <1>3. /\ UNCHANGED <<inner, db_handle_table, hdb, local, fault>>
        /\ pc'[w] = "unlink_lock"
        /\ \A v \in Workers \ {w} : pc'[v] = pc[v] /\ local'[v] = local[v]
        /\ db_name_table' = HashDelete(db_name_table, c)
    BY <1>0, <1>2 DEF UnbindDelete, fileVars
  <1>4. DBName' = DBName /\ Fd(w)' = c /\ DbOf(w)' = DbOf(w)
    BY <1>0, <1>3 DEF inner, envVars, clientVars, Fd, DbOf
  <1>5. PICK n \in Names : Bound(c) /\ DbOf(w) = n /\ DBName[c] = n /\ NameOf(c) = n
    BY <1>0, <1>1, <1>2 DEF HandOK, ClientOK
  <1>6. /\ ~ Bound(c)' /\ KeysUnique(db_name_table')
        /\ \A d \in Clients \ {c} : /\ Bound(d)' <=> Bound(d)
                                    /\ Bound(d) => NameOf(d)' = NameOf(d)
    BY <1>2, <1>3, DeleteNode DEF Bound, NameOf
  <1>7. HandOK(w)'
    <2>1. ~ Bound(Fd(w))'
      BY <1>4, <1>6 DEF Bound
    <2> QED BY <1>3, <1>4, <1>5, <2>1 DEF HandOK, Opening, Unlinking
  <1>8. \A x : Sessions(x)' = Sessions(x)
    <2>1. pc'[w] # "idle"
      BY <1>3
    <2>2. /\ \A d \in Clients \ {c} : \A x : Linked(d, x)' <=> Linked(d, x)
          /\ \A x : Linked(c, x) <=> x = n
          /\ \A x : Linked(c, x)' <=> x = n
      BY <1>0, <1>1, <1>2, <1>3, <1>4, <1>5, <1>6, <2>1, OthersLinked
    <2> QED BY <2>2 DEF Sessions
  <1>9. LinksOK'
    BY <1>1, <1>3, <1>8, LinksQuiet DEF SessionInv, Critical
  <1>10. fault' \in IF CrashClients = {} THEN {"none"} ELSE {"none", "SIGPIPE"}
    BY <1>3 DEF SessionInv
  <1> QED BY <1>0, <1>1, <1>3, <1>5, <1>6, <1>7, <1>9, <1>10, InnerStep

\* While nobody holds dbmutex, the links of every file are its sessions.
LEMMA CountedWhenFree ==
    ASSUME SessionInv, dbmutex = None, NEW n \in Names
    PROVE  /\ \A v \in Workers : pc[v] \notin Critical
           /\ Cardinality(Sessions(n)) = IF Listed(n) THEN ListedAs(n).links ELSE 0
  <1>1. \A v \in Workers : pc[v] \notin Critical
    BY NoneAssumption DEF SessionInv, HandleInv, MutexHeld
  <1> QED BY <1>1 DEF SessionInv, LinksOK

\* Once the mutex is taken, an open is one of the sessions.
LEMMA OpenLockKeeps ==
    ASSUME SessionInv, HandleInv', NEW w \in Workers, OpenLock(w)
    PROVE  SessionInv'
  <1>0. PICK c : c = Fd(w)
    OBVIOUS
  <1>1. pc[w] = "open_lock" /\ pc[w] # "idle" /\ pc[w] \in Opening /\ dbmutex = None
    BY DEF OpenLock, Opening, Lock
  <1>2. /\ HandOK(w) /\ ClientOK(c)
        /\ pc \in [Workers -> PCs] /\ local \in [Workers -> Locals] /\ TypeInv
        /\ c \in Clients /\ \A v \in Workers \ {w} : ~ Holds(v, c)
    BY <1>0, <1>1, AtWork
  <1>3. PICK m \in Names : m = DbOf(w) /\ m = DBName[c] /\ Bound(c) /\ NameOf(c) = m /\ m \in AllNames
    BY <1>0, <1>1, <1>2, NameInHand DEF ClientOK
  <1>4. /\ UNCHANGED <<inner, db_name_table, db_handle_table, hdb, fault>>
        /\ pc'[w] \in {"open_hdb", "open_del"}
        /\ \A v \in Workers \ {w} : pc'[v] = pc[v] /\ local'[v] = local[v]
        /\ local'[w].task = local[w].task /\ local'[w].dbname = local[w].dbname
    BY <1>2 DEF OpenLock, fileVars, Locals
  <1>5. /\ DBName' = DBName /\ Fd(w)' = c /\ DbOf(w)' = m
        /\ \A d : (Bound(d)' <=> Bound(d)) /\ NameOf(d)' = NameOf(d)
        /\ \A n : (Listed(n)' <=> Listed(n)) /\ ListedAs(n)' = ListedAs(n)
    BY <1>0, <1>3, <1>4 DEF inner, envVars, clientVars, Fd, DbOf, Bound, NameOf, Listed, ListedAs
  <1>6. HandOK(w)'
    <2>1. Bound(Fd(w))'
      BY <1>3, <1>4, <1>5 DEF Bound
    <2> QED BY <1>3, <1>4, <1>5, <2>1 DEF HandOK, Opening, Unlinking
  <1>7. /\ c \notin Sessions(m) /\ Sessions(m)' = Sessions(m) \cup {c}
        /\ \A n : n # m => Sessions(n)' = Sessions(n)
    <2>1. pc'[w] # "idle" /\ pc'[w] \notin {"open_lock", "unlink_lock"}
      BY <1>4
    <2>2. /\ \A d \in Clients \ {c} : \A x : Linked(d, x)' <=> Linked(d, x)
          /\ \A x : ~ Linked(c, x)
          /\ \A x : Linked(c, x)' <=> x = m
      BY <1>0, <1>1, <1>2, <1>3, <1>4, <1>5, <2>1, OthersLinked
    <2> QED BY <1>2, <2>2 DEF Sessions
  <1>8. Cardinality(Sessions(m)') = Cardinality(Sessions(m)) + 1
    <2>1. PICK S : S = Sessions(m) /\ IsFiniteSet(S) /\ c \notin S
                   /\ Sessions(m)' = S \cup {c}
      BY <1>7, SessionsCounted
    <2> QED BY <2>1, FS_AddElement
  <1>9. LinksHeld(w)' = Cardinality(Sessions(m)) + 1
        /\ pc'[w] \in Critical /\ pc'[w] \notin {"close_hdb", "close_del"}
    <2>1. CASE ~ Listed(m)
      <3>1. pc'[w] = "open_hdb"
        BY <1>2, <1>3, <2>1 DEF OpenLock, Listed
      <3> QED BY <1>1, <2>1, <3>1, CountedWhenFree DEF LinksHeld, Critical
    <2>2. CASE Listed(m)
      <3>1. pc'[w] = "open_del" /\ local'[w].dhn = ListedAs(m)
        BY <1>2, <1>3, <2>2 DEF OpenLock, Listed, ListedAs, Locals
      <3> QED BY <1>1, <2>2, <3>1, CountedWhenFree DEF LinksHeld, Critical
    <2> QED BY <2>1, <2>2
  <1>10. LinksOK'
    <2>1. LinksOK /\ \A v \in Workers \ {w} : pc[v] \notin Critical /\ pc'[v] = pc[v]
      BY <1>1, <1>3, <1>4, CountedWhenFree DEF SessionInv
    <2> QED BY <1>3, <1>5, <1>7, <1>8, <1>9, <2>1, LinksMoved
  <1>11. /\ fault' \in IF CrashClients = {} THEN {"none"} ELSE {"none", "SIGPIPE"}
         /\ KeysUnique(db_name_table') /\ pc'[w] # "idle"
    BY <1>4 DEF SessionInv
  <1> QED BY <1>0, <1>1, <1>3, <1>4, <1>5, <1>6, <1>10, <1>11, InnerStep

\* The handle is there, and the session is given up.
LEMMA UnlinkLockKeeps ==
    ASSUME SessionInv, HandleInv', NEW w \in Workers, UnlinkLock(w)
    PROVE  SessionInv'
  <1>0. PICK c : c = Fd(w)
    OBVIOUS
  <1>1. pc[w] = "unlink_lock" /\ pc[w] # "idle" /\ pc[w] \in Unlinking /\ dbmutex = None
    BY DEF UnlinkLock, Unlinking, Lock
  <1>2. /\ HandOK(w) /\ pc \in [Workers -> PCs] /\ local \in [Workers -> Locals] /\ TypeInv
        /\ c \in Clients /\ \A v \in Workers \ {w} : ~ Holds(v, c)
    BY <1>0, <1>1, AtWork
  <1>3. PICK m \in Names : m = DbOf(w) /\ m = DBName[c] /\ ~ Bound(c) /\ m \in AllNames
    BY <1>0, <1>1, <1>2, NameInHand DEF HandOK, Opening
  <1>4. c \in Sessions(m)
    BY <1>0, <1>1, <1>2, <1>3 DEF Sessions, Linked, Handling
  <1>5. Listed(m) /\ Cardinality(Sessions(m)) = ListedAs(m).links /\ Cardinality(Sessions(m)) \in Nat
    <2>1. Cardinality(Sessions(m)) \in Nat /\ Cardinality(Sessions(m)) >= 1
      BY <1>4, SessionsCounted
    <2> QED BY <1>1, <2>1, CountedWhenFree
  <1>6. PICK e \in HandleNodes, k \in Nat : /\ e = ListedAs(m) /\ k = e.links
                                             /\ k = Cardinality(Sessions(m))
    <2>1. ListedAs(m) \in HandleNodes
      BY <1>1, <1>2, <1>3, <1>5, Typed, LookupTyped DEF Listed, ListedAs
    <2> QED BY <1>5, <2>1
  <1>7. /\ UNCHANGED <<inner, db_name_table, db_handle_table, hdb, fault>>
        /\ local' = [local EXCEPT ![w].dhn = Relinked(e, -1)]
        /\ pc' = [pc EXCEPT ![w] = AfterUnlink(k - 1)]
    BY <1>3, <1>5, <1>6 DEF UnlinkLock, fileVars, Listed, ListedAs
  <1>8. /\ pc'[w] = AfterUnlink(k - 1) /\ pc'[w] \in {"close_hdb", "relink_del"}
        /\ \A v \in Workers \ {w} : pc'[v] = pc[v] /\ local'[v] = local[v]
        /\ local'[w].task = local[w].task /\ local'[w].dbname = local[w].dbname
        /\ local'[w].dhn = Relinked(e, -1)
    BY <1>2, <1>7 DEF AfterUnlink, Locals
  <1>9. /\ DBName' = DBName /\ Fd(w)' = c /\ DbOf(w)' = m
        /\ \A d : (Bound(d)' <=> Bound(d)) /\ NameOf(d)' = NameOf(d)
        /\ \A n : (Listed(n)' <=> Listed(n)) /\ ListedAs(n)' = ListedAs(n)
    BY <1>0, <1>3, <1>7, <1>8 DEF inner, envVars, clientVars, Fd, DbOf, Bound, NameOf, Listed, ListedAs
  <1>10. HandOK(w)'
    <2>1. ~ Bound(Fd(w))'
      BY <1>3, <1>7, <1>9 DEF Bound
    <2> QED BY <1>3, <1>8, <1>9, <2>1 DEF HandOK, Opening, Unlinking
  <1>11. /\ Sessions(m)' = Sessions(m) \ {c}
         /\ \A n : n # m => Sessions(n)' = Sessions(n)
    <2>1. pc'[w] # "idle" /\ pc'[w] \notin {"open_lock", "unlink_lock"}
      BY <1>8
    <2>2. /\ \A d \in Clients \ {c} : \A x : Linked(d, x)' <=> Linked(d, x)
          /\ \A x : Linked(c, x) <=> x = m
          /\ \A x : ~ Linked(c, x)'
      BY <1>0, <1>1, <1>2, <1>3, <1>8, <1>9, <2>1, OthersLinked
    <2> QED BY <2>2 DEF Sessions
  <1>12. Cardinality(Sessions(m)') = k - 1
    <2>1. PICK S : S = Sessions(m) /\ IsFiniteSet(S) /\ Cardinality(S) = k /\ c \in S
                   /\ Sessions(m)' = S \ {c}
      BY <1>4, <1>6, <1>11, SessionsCounted
    <2>2. Cardinality(S \ {c}) = Cardinality(S) - 1
      BY <2>1, FS_RemoveElement
    <2> QED BY <2>1, <2>2
  <1>13. /\ LinksHeld(w)' = k - 1 /\ pc'[w] \in Critical
         /\ pc'[w] \in {"close_hdb", "close_del"} => LinksHeld(w)' <= 0
    <2>1. Relinked(e, -1).links = k - 1
      BY <1>6 DEF Relinked, HandleNodes
    <2>2. LinksHeld(w)' = k - 1
      BY <1>8, <2>1 DEF LinksHeld
    <2>3. pc'[w] = "close_hdb" => k - 1 <= 0
      BY <1>8 DEF AfterUnlink
    <2> QED BY <1>8, <2>2, <2>3 DEF Critical
  <1>14. LinksOK'
    <2>1. LinksOK /\ \A v \in Workers \ {w} : pc[v] \notin Critical /\ pc'[v] = pc[v]
      BY <1>1, <1>3, <1>8, CountedWhenFree DEF SessionInv
    <2> QED BY <1>3, <1>9, <1>11, <1>12, <1>13, <2>1, LinksMoved
  <1>15. /\ fault' \in IF CrashClients = {} THEN {"none"} ELSE {"none", "SIGPIPE"}
         /\ KeysUnique(db_name_table') /\ pc'[w] # "idle"
    BY <1>7, <1>8 DEF SessionInv
  <1> QED BY <1>0, <1>1, <1>3, <1>7, <1>8, <1>9, <1>10, <1>14, <1>15, InnerStep

\* A worker about to touch a database has its client's session on it.
LEMMA ServedHere ==
    ASSUME SessionInv, NEW v \in Workers, pc[v] = "data_do"
    PROVE  /\ local[v].db \in Handles /\ hdb[local[v].db] \in Names
           /\ Fd(v) \in Sessions(hdb[local[v].db])
  <1>1. pc[v] # "idle"
    OBVIOUS
  <1>2. /\ TypeInv /\ HandOK(v) /\ Fd(v) \in Clients
        /\ \A x \in Workers \ {v} : ~ Holds(x, Fd(v))
    BY <1>1, AtWork
  <1>3. Bound(Fd(v)) /\ hdb[local[v].db] = DBName[Fd(v)]
    BY <1>2 DEF HandOK
  <1>4. \A x \in Workers : pc[x] = "open_lock" => Fd(x) # Fd(v)
    BY <1>2 DEF Holds
  <1>5. Fd(v) \in Sessions(DBName[Fd(v)]) /\ DBName[Fd(v)] \in Names
    BY <1>2, <1>3, <1>4, InSession
  <1> QED BY <1>1, <1>2, <1>3, <1>5, Typed

LEMMA OpenFirstCounts ==
    ASSUME Regular, SessionInv, HandleInv', NEW w \in Workers, OpenFirst(w)
    PROVE  SessionInv'
  <1>0. PICK c : c = Fd(w)
    OBVIOUS
  <1>1. /\ pc[w] = "open_hdb" /\ pc[w] # "idle" /\ pc[w] \in Opening /\ pc[w] \in Critical
        /\ Critical \cap {"open_lock", "unlink_lock"} = {}
    BY DEF OpenFirst, Opening, Critical
  <1>2. /\ HandleInv /\ TypeInv /\ LinksOK /\ KeysUnique(db_handle_table) /\ Knows(w)
        /\ pc \in [Workers -> PCs] /\ local \in [Workers -> Locals]
        /\ c \in Clients /\ Cmd(w) = "OPEN"
    <2>1. HandleInv /\ TypeInv /\ LinksOK /\ KeysUnique(db_handle_table) /\ Knows(w)
      BY DEF SessionInv, HandleInv
    <2>2. CmdsAt("open_hdb") = {"OPEN"}
      BY DEF CmdsAt
    <2> QED BY <1>0, <1>1, <2>1, <2>2, AtWork, Typed
  <1>3. PICK m \in Names : m = DbOf(w) /\ m = DBName[c] /\ Bound(c) /\ m \in AllNames
    BY <1>0, <1>1, NameInHand
  <1>4. m \notin FailNames
    BY NamesAssumption DEF Regular
  <1>5. PICK h \in Handles : /\ hdb[h] = None
                             /\ hdb' = [hdb EXCEPT ![h] = m]
                             /\ db_handle_table' = HashAddNode(db_handle_table, m, [hdb |-> h, links |-> 1])
    BY <1>3, <1>4 DEF OpenFirst
  <1>6. /\ UNCHANGED <<inner, db_name_table, fault>>
        /\ pc'[w] = "reply" /\ local'[w].out = Ans("OPEN_OK")
        /\ \A v \in Workers \ {w} : pc'[v] = pc[v] /\ local'[v] = local[v]
        /\ local'[w].task = local[w].task
    BY <1>2, <1>3, <1>4 DEF OpenFirst, Locals
  <1>7. /\ DBName' = DBName /\ Fd(w)' = c /\ Cmd(w)' = "OPEN"
        /\ \A d : (Bound(d)' <=> Bound(d)) /\ NameOf(d)' = NameOf(d)
    BY <1>0, <1>2, <1>6 DEF inner, envVars, clientVars, Fd, Cmd, Bound, NameOf
  <1>8. HandOK(w)'
    <2>1. Bound(Fd(w))'
      BY <1>3, <1>6, <1>7 DEF Bound
    <2>2. Ans("OPEN_OK") \in Answers /\ Ans("OPEN_OK").code = "OPEN_OK"
      BY DEF Ans, Answers, Codes
    <2> QED BY <1>6, <1>7, <2>1, <2>2 DEF HandOK, Opening, Unlinking
  <1>9. PICK e \in HandleNodes : e = [hdb |-> h, links |-> 1] /\ e.links = 1
    <2>1. [hdb |-> h, links |-> 1] \in HandleNodes
      BY DEF HandleNodes
    <2> QED BY <2>1
  <1>10. /\ Listed(m)' /\ ListedAs(m)' = e
         /\ \A n \in AllNames \ {m} :
               (Listed(n)' <=> Listed(n)) /\ (Listed(n) => ListedAs(n)' = ListedAs(n))
    <2>1. ~ Listed(m)
      BY <1>1, <1>2, <1>3 DEF Knows
    <2> QED BY <1>2, <1>3, <1>5, <1>9, <2>1, EntryAdded
  <1>11. LinksOK'
    <2>1. \A n : Sessions(n)' = Sessions(n)
      BY <1>1, <1>6, SameSessions
    <2>2. LinksHeld(w) = 1 /\ pc'[w] \notin Critical
      BY <1>1, <1>6 DEF LinksHeld, Critical
    <2>3. Cardinality(Sessions(m)') = 1
      BY <1>1, <1>2, <1>3, <2>1, <2>2 DEF LinksOK
    <2>4. \A v \in Workers \ {w} : pc[v] \notin Critical /\ pc'[v] = pc[v]
      BY <1>1, <1>2, <1>6, Alone
    <2> QED BY <1>2, <1>3, <1>9, <1>10, <2>1, <2>2, <2>3, <2>4, LinksMoved DEF AllNames
  <1>12. \A v \in Workers \ {w} : pc[v] = "data_do" => hdb'[local[v].db] = hdb[local[v].db]
    <2>1. ASSUME NEW v \in Workers, pc[v] = "data_do"
          PROVE  local[v].db # h /\ local[v].db \in Handles
      <3>1. None \notin Names
        BY NoneAssumption DEF AllNames
      <3> QED BY <1>5, <2>1, <3>1, ServedHere
    <2> QED BY <1>2, <1>5, <2>1, Typed
  <1>13. /\ Bound(c)' => NameOf(c)' = DBName[c] /\ DBName[c] \in Names
         /\ KeysUnique(db_name_table')
         /\ fault' \in IF CrashClients = {} THEN {"none"} ELSE {"none", "SIGPIPE"}
    BY <1>2, <1>3, <1>6, <1>7 DEF SessionInv, ClientOK
  <1> QED BY <1>0, <1>1, <1>6, <1>7, <1>8, <1>11, <1>12, <1>13, InnerStep

LEMMA CloseLastCounts ==
    ASSUME SessionInv, HandleInv', NEW w \in Workers, CloseLast(w)
    PROVE  SessionInv'
  <1>0. PICK c : c = Fd(w)
    OBVIOUS
  <1>1. /\ pc[w] = "close_hdb" /\ pc[w] # "idle" /\ pc[w] \in Unlinking /\ pc[w] \in Critical
        /\ Critical \cap {"open_lock", "unlink_lock"} = {}
    BY DEF CloseLast, Unlinking, Critical
  <1>2. /\ HandleInv /\ TypeInv /\ LinksOK /\ Knows(w)
        /\ pc \in [Workers -> PCs]
        /\ c \in Clients
    <2>1. HandleInv /\ TypeInv /\ LinksOK /\ Knows(w)
      BY DEF SessionInv, HandleInv
    <2> QED BY <1>0, <1>1, <2>1, AtWork
  <1>3. PICK m \in Names : m = DbOf(w) /\ m = DBName[c] /\ ~ Bound(c) /\ m \in AllNames
    BY <1>0, <1>1, NameInHand DEF Opening
  <1>4. PICK h : h = ListedAs(m).hdb /\ hdb[h] = m
    BY <1>1, <1>2, <1>3 DEF Knows, OpenAs
  <1>5. /\ UNCHANGED <<inner, db_name_table, db_handle_table, local, fault>>
        /\ pc'[w] = "close_del" /\ hdb' = [hdb EXCEPT ![h] = None]
        /\ \A v \in Workers \ {w} : pc'[v] = pc[v] /\ local'[v] = local[v]
    BY <1>2, <1>3, <1>4 DEF CloseLast, tableVars, ListedAs
  <1>6. /\ DBName' = DBName /\ Fd(w)' = c /\ DbOf(w)' = m
        /\ \A d : (Bound(d)' <=> Bound(d)) /\ NameOf(d)' = NameOf(d)
        /\ \A n : (Listed(n)' <=> Listed(n)) /\ ListedAs(n)' = ListedAs(n)
    BY <1>0, <1>3, <1>5 DEF inner, envVars, clientVars, Fd, DbOf, Bound, NameOf, Listed, ListedAs
  <1>7. HandOK(w)'
    <2>1. ~ Bound(Fd(w))'
      BY <1>3, <1>5, <1>6 DEF Bound
    <2> QED BY <1>3, <1>5, <1>6, <2>1 DEF HandOK, Opening, Unlinking
  <1>8. LinksOK'
    <2>1. \A n : Sessions(n)' = Sessions(n)
      BY <1>1, <1>5, SameSessions
    <2>2. LinksHeld(w)' = LinksHeld(w) /\ pc'[w] \in Critical
      BY <1>1, <1>5 DEF LinksHeld, Critical
    <2>3. Cardinality(Sessions(m)') = LinksHeld(w)' /\ LinksHeld(w)' <= 0
      BY <1>1, <1>2, <1>3, <2>1, <2>2 DEF LinksOK
    <2>4. \A v \in Workers \ {w} : pc[v] \notin Critical /\ pc'[v] = pc[v]
      BY <1>1, <1>2, <1>5, Alone
    <2> QED BY <1>2, <1>3, <1>6, <2>1, <2>2, <2>3, <2>4, LinksMoved
  <1>9. \A v \in Workers \ {w} : pc[v] = "data_do" => hdb'[local[v].db] = hdb[local[v].db]
    <2>1. ASSUME NEW v \in Workers, pc[v] = "data_do"
          PROVE  local[v].db # h /\ local[v].db \in Handles
      <3>1. local[v].db \in Handles /\ Fd(v) \in Sessions(hdb[local[v].db])
        BY <2>1, ServedHere
      <3>2. Sessions(m) = {}
        BY <1>1, <1>3, SessionKeepsOpen
      <3> QED BY <1>4, <3>1, <3>2
    <2> QED BY <1>2, <1>5, <2>1, Typed
  <1>10. /\ Bound(c)' => NameOf(c)' = DBName[c] /\ DBName[c] \in Names
         /\ KeysUnique(db_name_table')
         /\ fault' \in IF CrashClients = {} THEN {"none"} ELSE {"none", "SIGPIPE"}
    BY <1>3, <1>5, <1>6 DEF SessionInv
  <1>11. pc'[w] # "idle" /\ local'[w].task = local[w].task
    BY <1>5
  <1> QED BY <1>0, <1>1, <1>5, <1>6, <1>7, <1>8, <1>9, <1>10, <1>11, InnerStep

\* A worker is done with a request: the answer is there, or the client is gone.
LEMMA DoneKeeps ==
    ASSUME SessionInv, HandleInv', NEW w \in Workers, NEW c, c = Fd(w),
           pc[w] \in {"exit_close", "reply"}, pc'[w] = "idle",
           \A v \in Workers \ {w} : pc'[v] = pc[v] /\ local'[v] = local[v],
           UNCHANGED <<request, inbox, thread_msg_table, db_name_table, db_handle_table, hdb>>,
           \A d \in Clients \ {c} : /\ cstate'[d] = cstate[d] /\ answer'[d] = answer[d]
                                    /\ DBName'[d] = DBName[d],
           \/ cstate'[c] = cstate[c] /\ answer'[c] = answer[c] /\ DBName'[c] = DBName[c]
           \/ /\ cstate'[c] = "ready"
              /\ Bound(c) => NameOf(c) = DBName'[c] /\ DBName'[c] \in Names
              /\ Bound(c) <=> DBName'[c] # NoName
              /\ answer'[c] # None /\ answer'[c].code = "OPEN_OK" => Bound(c),
           fault' \in IF CrashClients = {} THEN {"none"} ELSE {"none", "SIGPIPE"}
    PROVE  SessionInv'
  <1>1. pc[w] # "idle" /\ pc[w] \notin Critical \cup {"open_lock", "unlink_lock"}
        /\ pc'[w] \notin Critical \cup {"open_lock", "unlink_lock"}
    BY DEF Critical
  <1>2. /\ TypeInv /\ c \in Clients /\ ClientOK(c) /\ answer[c] = None
        /\ cstate[c] \in {"wait", "gone"}
        /\ \A v \in Workers \ {w} : ~ Holds(v, c)
    BY <1>1, AtWork
  <1>3. FlowInv' /\ ~ Pending(c)'
    <2>1. cstate'[c] = "gone" => cstate[c] = "gone"
      OBVIOUS
    <2> QED BY <1>1, <1>2, <2>1, DoneFlows DEF SessionInv
  <1>4. /\ \A d : (Bound(d)' <=> Bound(d)) /\ NameOf(d)' = NameOf(d)
        /\ \A d : Sent(d)' <=> Sent(d)
    BY DEF Bound, NameOf, Sent, Queued
  <1>5. ClientOK(c)'
    <2>1. ~ Sent(c)'
      BY <1>3 DEF Pending, Sent, Queued
    <2> QED BY <1>2, <1>4, <2>1 DEF ClientOK
  <1>6. HandOK(w)'
    BY DEF HandOK, Opening, Unlinking
  <1>7. LinksOK'
    <2>1. \A n : Sessions(n)' = Sessions(n)
      BY <1>1, SameSessions
    <2> QED BY <1>1, <2>1, LinksQuiet DEF SessionInv
  <1>8. Framed(w, c)
    BY <1>4 DEF Framed
  <1>9. KeysUnique(db_name_table')
    BY DEF SessionInv
  <1> QED BY <1>2, <1>3, <1>5, <1>6, <1>7, <1>8, <1>9, StepKeeps

LEMMA ExitCloseKeeps ==
    ASSUME SessionInv, HandleInv', NEW w \in Workers, ExitClose(w)
    PROVE  SessionInv'
  <1>1. TypeInv /\ pc \in [Workers -> PCs] /\ local \in [Workers -> Locals]
    <2>1. pc[w] # "idle"
      BY DEF ExitClose
    <2> QED BY <2>1, AtWork
  <1>2. /\ pc[w] = "exit_close" /\ pc'[w] = "idle"
        /\ \A v \in Workers \ {w} : pc'[v] = pc[v] /\ local'[v] = local[v]
        /\ UNCHANGED <<cstate, DBName, request, answer, inbox, thread_msg_table,
                       db_name_table, db_handle_table, hdb, fault>>
    BY <1>1 DEF ExitClose, clientVars, tableVars, fileVars
  <1> QED BY <1>2, DoneKeeps DEF SessionInv

LEMMA ReplyKeeps ==
    ASSUME SessionInv, HandleInv', NEW w \in Workers, Reply(w)
    PROVE  SessionInv'
  <1>0. PICK c : c = Fd(w)
    OBVIOUS
  <1>1. pc[w] = "reply" /\ pc[w] # "idle"
    BY DEF Reply
  <1>2. /\ TypeInv /\ pc \in [Workers -> PCs] /\ local \in [Workers -> Locals]
        /\ c \in Clients /\ ClientOK(c) /\ HandOK(w) /\ Cmd(w) = request[c].cmd
        /\ CrashClients = {} /\ cstate[c] = "gone" => Cmd(w) = "EXIT"
    BY <1>0, <1>1, AtWork
  <1>3. /\ pc'[w] = "idle"
        /\ \A v \in Workers \ {w} : pc'[v] = pc[v] /\ local'[v] = local[v]
        /\ UNCHANGED <<request, inbox, thread_msg_table, db_name_table, db_handle_table, hdb>>
    BY <1>2 DEF Reply, netVars, tableVars, fileVars
  <1>4. /\ Cmd(w) # "EXIT"
        /\ local[w].out.code = "OPEN_OK" <=> Cmd(w) = "OPEN"
        /\ Bound(c) <=> Cmd(w) # "CLOSE"
    BY <1>0, <1>1, <1>2 DEF HandOK
  <1>5. CASE cstate[c] = "gone"
    <2>1. UNCHANGED <<cstate, DBName, answer>> /\ fault' \in {"none", "SIGPIPE"}
      BY <1>0, <1>5 DEF Reply
    <2>2. CrashClients # {}
      BY <1>2, <1>4, <1>5
    <2> QED BY <1>0, <1>1, <1>3, <2>1, <2>2, DoneKeeps
  <1>6. CASE cstate[c] = "wait"
    <2>1. /\ cstate' = [cstate EXCEPT ![c] = "ready"]
          /\ answer' = [answer EXCEPT ![c] = local[w].out]
          /\ DBName' = IF Cmd(w) = "CLOSE" THEN [DBName EXCEPT ![c] = NoName] ELSE DBName
          /\ fault' = fault
      BY <1>0, <1>2, <1>6 DEF Reply
    <2>2. /\ cstate'[c] = "ready" /\ answer'[c] = local[w].out
          /\ DBName'[c] = IF Cmd(w) = "CLOSE" THEN NoName ELSE DBName[c]
          /\ \A d \in Clients \ {c} : /\ cstate'[d] = cstate[d] /\ answer'[d] = answer[d]
                                      /\ DBName'[d] = DBName[d]
      BY <1>2, <2>1, Typed
    <2>3. /\ Bound(c) => NameOf(c) = DBName'[c] /\ DBName'[c] \in Names
          /\ Bound(c) <=> DBName'[c] # NoName
          /\ answer'[c] # None /\ answer'[c].code = "OPEN_OK" => Bound(c)
      BY <1>2, <1>4, <2>2, NamesAssumption DEF ClientOK
    <2> QED BY <1>0, <1>1, <1>3, <2>1, <2>2, <2>3, DoneKeeps DEF SessionInv
  <1> QED BY <1>0, <1>5, <1>6 DEF Reply

-----------------------------------------------------------------------------
(* The steps of a client and of the event thread.                          *)

\* A client moves, and the server does not.
LEMMA ClientKeeps ==
    ASSUME SessionInv, HandleInv', FlowInv', NEW c \in Clients,
           UNCHANGED <<db_name_table, db_handle_table, hdb, pc, local, fault>>,
           \A d \in Clients \ {c} : /\ cstate'[d] = cstate[d] /\ DBName'[d] = DBName[d]
                                    /\ request'[d] = request[d] /\ answer'[d] = answer[d]
                                    /\ Sent(d)' => Sent(d),
           DBName'[c] = DBName[c] \/ \A w \in Workers : ~ Holds(w, c),
           ClientOK(c)'
    PROVE  SessionInv'
  <1>1. \A d : (Bound(d)' <=> Bound(d)) /\ NameOf(d)' = NameOf(d)
    BY DEF Bound, NameOf
  <1>2. \A d \in Clients : ClientOK(d)'
    <2>1. ASSUME NEW d \in Clients \ {c} PROVE ClientOK(d)'
      <3>1. ClientOK(d)
        BY DEF SessionInv
      <3> QED BY <1>1, <3>1 DEF ClientOK
    <2> QED BY <2>1
  <1>3. \A w \in Workers : HandOK(w)'
    <2>1. ASSUME NEW w \in Workers PROVE HandOK(w)'
      <3>1. HandOK(w) /\ TypeInv
        BY DEF SessionInv, HandleInv
      <3>2. PICK d : d = Fd(w) /\ Fd(w)' = d
        BY DEF Fd
      <3>3. /\ Cmd(w)' = Cmd(w) /\ Arg(w)' = Arg(w) /\ DbOf(w)' = DbOf(w)
            /\ (Bound(d)' <=> Bound(d))
        BY <1>1 DEF Cmd, Arg, DbOf
      <3>4. pc[w] # "idle" => DBName'[d] = DBName[d]
        <4>1. pc[w] # "idle" => d \in Clients /\ Holds(w, d)
          BY <3>1, <3>2, Typed DEF Holds
        <4> QED BY <4>1
      <3>5. CASE pc[w] = "idle"
        BY <3>5 DEF HandOK, Opening, Unlinking
      <3>6. CASE pc[w] # "idle"
        <4>1. Bound(Fd(w))' <=> Bound(Fd(w))
          BY <1>1, <3>2 DEF Bound
        <4>2. DBName'[Fd(w)'] = DBName[Fd(w)]
          BY <3>2, <3>4, <3>6
        <4> QED BY <3>1, <3>3, <4>1, <4>2 DEF HandOK
      <3> QED BY <3>5, <3>6
    <2> QED BY <2>1
  <1>4. LinksOK'
    <2>1. \A n : Sessions(n)' = Sessions(n)
      <3>1. \A v \in Workers : Fd(v)' = Fd(v) /\ DbOf(v)' = DbOf(v)
        BY DEF Fd, DbOf
      <3>2. \A v \in Workers : \A d, p : Handling(v, d, p)' <=> Handling(v, d, p)
        BY <3>1 DEF Handling
      <3>3. \A d, n : Linked(d, n)' <=> Linked(d, n)
        BY <3>1, <3>2 DEF Linked
      <3> QED BY <3>3 DEF Sessions
    <2> QED BY <2>1, LinksQuiet DEF SessionInv
  <1> QED BY <1>2, <1>3, <1>4 DEF SessionInv

\* A client that may send has nothing pending, and its descriptor is bound or
\* not as it believes.
LEMMA MaySend ==
    ASSUME SessionInv, NEW c \in Clients, cstate[c] \in {"off", "ready"}
    PROVE  /\ ~ Pending(c) /\ \A w \in Workers : ~ Holds(w, c)
           /\ Bound(c) <=> DBName[c] # NoName
           /\ Bound(c) => NameOf(c) = DBName[c] /\ DBName[c] \in Names
  <1>1. ~ Pending(c)
    BY DEF SessionInv, FlowInv, WaitsOK
  <1>2. ClientOK(c)
    BY DEF SessionInv
  <1> QED BY <1>1, <1>2 DEF ClientOK, Pending

LEMMA SendKeeps ==
    ASSUME SessionInv, HandleInv', NEW c \in Clients,
           NEW req \in Requests, req.cmd # "none", Send(c, req), UNCHANGED serverVars,
           NEW to, to = IF req.cmd = "EXIT" THEN "gone" ELSE "wait",
           cstate[c] \in {"off", "ready"},
           cstate' = [cstate EXCEPT ![c] = to],
           \A d \in Clients \ {c} : DBName'[d] = DBName[d],
           IF req.cmd = "OPEN"
           THEN DBName[c] = NoName /\ DBName'[c] = req.arg /\ req.arg \in Names
           ELSE DBName'[c] = DBName[c] /\ (req.cmd # "EXIT" => DBName[c] # NoName)
    PROVE  SessionInv'
  <1> USE DEF serverVars, tableVars, fileVars
  <1>1. /\ ~ Pending(c) /\ \A w \in Workers : ~ Holds(w, c)
        /\ Bound(c) <=> DBName[c] # NoName
        /\ Bound(c) => NameOf(c) = DBName[c] /\ DBName[c] \in Names
    BY MaySend
  <1>2. TypeInv /\ FlowInv
    BY DEF SessionInv, HandleInv
  <1>3. FlowInv'
    BY <1>1, <1>2, SendFlows
  <1>4. /\ request'[c] = req /\ answer'[c] = None
        /\ cstate'[c] = IF req.cmd = "EXIT" THEN "gone" ELSE "wait"
        /\ \A d \in Clients \ {c} : /\ request'[d] = request[d] /\ answer'[d] = answer[d]
                                    /\ cstate'[d] = cstate[d] /\ inbox'[d] = inbox[d]
    BY <1>2, FlowTypes DEF Send
  <1>5. \A d \in Clients \ {c} : Sent(d)' => Sent(d)
    BY <1>4 DEF Sent, Queued
  <1>6. (Bound(c)' <=> Bound(c)) /\ NameOf(c)' = NameOf(c)
    BY DEF Bound, NameOf
  <1>7. ClientOK(c)'
    BY <1>1, <1>4, <1>6 DEF ClientOK
  <1> QED BY <1>1, <1>3, <1>4, <1>5, <1>7, ClientKeeps

LEMMA ClientStepKeeps ==
    ASSUME Regular, SessionInv, HandleInv', NEW c \in Clients, ClientStep(c)
    PROVE  SessionInv'
  <1>0. TypeInv /\ FlowInv /\ ClientOK(c)
    BY DEF SessionInv, HandleInv
  <1>a. DBName \in [Clients -> AllNames] /\ cstate \in [Clients -> {"off", "ready", "wait", "gone"}]
    BY <1>0 DEF TypeInv, TypeOK
  <1>1. NoName \in AllNames /\ Names \subseteq AllNames /\ JoinNames \subseteq Names
    BY NamesAssumption DEF AllNames, Regular
  <1>2. /\ \A n \in AllNames : Req("OPEN", n) \in Requests
        /\ \A cmd \in DataCmds, k \in Keys : Req(cmd, k) \in Requests
        /\ \A cmd \in {"CLOSE", "EXIT"} : Req(cmd, NoName) \in Requests
        /\ \A cmd, x : Req(cmd, x).cmd = cmd /\ Req(cmd, x).arg = x
    BY <1>1 DEF Req, Requests, ArgFits, Cmds, DataCmds
  <1>3. CASE Connect(c)
    <2>1. /\ cstate[c] = "off" /\ cstate' = [cstate EXCEPT ![c] = "ready"]
          /\ UNCHANGED <<DBName, request, answer, inbox, thread_msg_table, pc, local, fault,
                         db_name_table, db_handle_table, hdb>>
      BY <1>3 DEF Connect, serverVars, tableVars, fileVars
    <2>2. ~ Pending(c) /\ (Bound(c) <=> DBName[c] # NoName)
      BY <2>1, MaySend
    <2>3. FlowInv'
      BY <1>0, <2>1, <2>2, StayFlows
    <2>4. /\ \A d : Sent(d)' <=> Sent(d)
          /\ \A d : (Bound(d)' <=> Bound(d)) /\ NameOf(d)' = NameOf(d)
      BY <2>1 DEF Sent, Queued, Bound, NameOf
    <2>5. cstate'[c] = "ready" /\ \A d \in Clients \ {c} : cstate'[d] = cstate[d]
      BY <1>a, <2>1
    <2>6. ClientOK(c)'
      BY <1>0, <2>1, <2>2, <2>4, <2>5 DEF ClientOK
    <2> QED BY <2>1, <2>3, <2>4, <2>5, <2>6, ClientKeeps
  <1>4. CASE \E n \in JoinNames : Join(c, n)
    <2>1. PICK n \in JoinNames : Join(c, n)
      BY <1>4
    <2>2. DBName[c] = NoName
      BY <1>0, <2>1 DEF ClientOK, Join
    <2>3. PICK req \in Requests : req = Req("OPEN", n) /\ req.cmd = "OPEN" /\ req.arg = n
      BY <1>1, <1>2
    <2>4. /\ Send(c, req) /\ UNCHANGED serverVars /\ cstate[c] = "off"
          /\ cstate' = [cstate EXCEPT ![c] = "wait"]
          /\ DBName' = [DBName EXCEPT ![c] = n]
      BY <2>1, <2>3 DEF Join
    <2>5. DBName'[c] = n /\ \A d \in Clients \ {c} : DBName'[d] = DBName[d]
      BY <1>a, <2>4
    <2> QED BY <1>1, <2>2, <2>3, <2>4, <2>5, SendKeeps
  <1>5. CASE \E n \in Names : ClientOpen(c, n)
    <2>1. PICK n \in Names : ClientOpen(c, n)
      BY <1>5
    <2>2. PICK req \in Requests : req = Req("OPEN", n) /\ req.cmd = "OPEN" /\ req.arg = n
      BY <1>1, <1>2
    <2>3. /\ Send(c, req) /\ UNCHANGED serverVars /\ cstate[c] = "ready"
          /\ cstate' = [cstate EXCEPT ![c] = "wait"] /\ DBName[c] = NoName
          /\ DBName' = [DBName EXCEPT ![c] = n]
      BY <2>1, <2>2 DEF ClientOpen, Wait
    <2>4. DBName'[c] = n /\ \A d \in Clients \ {c} : DBName'[d] = DBName[d]
      BY <1>a, <2>3
    <2> QED BY <2>2, <2>3, <2>4, SendKeeps
  <1>6. CASE \/ \E cmd \in DataCmds, k \in Keys : ClientData(c, cmd, k)
             \/ ClientClose(c) \/ ClientExit(c)
    <2>1. PICK req \in Requests :
             /\ Send(c, req) /\ UNCHANGED <<serverVars, DBName>> /\ cstate[c] = "ready"
             /\ \/ /\ req.cmd \notin {"OPEN", "EXIT", "none"} /\ DBName[c] # NoName
                   /\ cstate' = [cstate EXCEPT ![c] = "wait"]
                \/ req.cmd = "EXIT" /\ cstate' = [cstate EXCEPT ![c] = "gone"]
      <3>1. CASE \E cmd \in DataCmds, k \in Keys : ClientData(c, cmd, k)
        <4>1. PICK cmd \in DataCmds, k \in Keys : ClientData(c, cmd, k)
          BY <3>1
        <4>2. PICK req \in Requests : req = Req(cmd, k) /\ req.cmd \notin {"OPEN", "EXIT", "none"}
          BY <1>2 DEF DataCmds
        <4> QED BY <4>1, <4>2 DEF ClientData, Wait
      <3>2. CASE ClientClose(c)
        BY <1>2, <3>2 DEF ClientClose, Wait
      <3>3. CASE ClientExit(c)
        BY <1>2, <3>3 DEF ClientExit
      <3> QED BY <1>6, <3>1, <3>2, <3>3
    <2>2. CASE req.cmd = "EXIT"
      BY <2>1, <2>2, SendKeeps
    <2>3. CASE req.cmd # "EXIT"
      BY <2>1, <2>3, SendKeeps
    <2> QED BY <2>2, <2>3
  <1>7. CASE ClientCrash(c)
    <2>1. /\ cstate' = [cstate EXCEPT ![c] = "gone"] /\ CrashClients # {}
          /\ UNCHANGED <<DBName, request, answer, inbox, thread_msg_table, pc, local, fault,
                         db_name_table, db_handle_table, hdb>>
      BY <1>7 DEF ClientCrash, serverVars, tableVars, fileVars
    <2>2. FlowInv'
      BY <1>0, <2>1, StayFlows
    <2>3. /\ \A d : Sent(d)' <=> Sent(d)
          /\ \A d : (Bound(d)' <=> Bound(d)) /\ NameOf(d)' = NameOf(d)
      BY <2>1 DEF Sent, Queued, Bound, NameOf
    <2>4. cstate'[c] = "gone" /\ \A d \in Clients \ {c} : cstate'[d] = cstate[d]
      BY <1>a, <2>1
    <2>5. ClientOK(c)'
      BY <1>0, <2>1, <2>3, <2>4 DEF ClientOK
    <2> QED BY <2>1, <2>2, <2>3, <2>4, <2>5, ClientKeeps
  <1> QED BY <1>3, <1>4, <1>5, <1>6, <1>7 DEF ClientStep

LEMMA ReceiveKeeps ==
    ASSUME SessionInv, HandleInv', NEW c \in Clients, Receive(c)
    PROVE  SessionInv'
  <1>1. TypeInv /\ FlowInv /\ ClientOK(c)
    BY DEF SessionInv, HandleInv
  <1>2. FlowInv' /\ Sent(c) /\ \A d \in Clients \ {c} : Sent(d)' => Sent(d)
    BY <1>1, ReceiveFlows
  <1>3. UNCHANGED <<cstate, DBName, request, answer, pc, local, fault,
                    db_name_table, db_handle_table, hdb>>
    BY DEF Receive, clientVars, tableVars, fileVars
  <1>4. (Bound(c)' <=> Bound(c)) /\ NameOf(c)' = NameOf(c)
    BY <1>3 DEF Bound, NameOf
  <1>5. ClientOK(c)'
    BY <1>1, <1>2, <1>3, <1>4 DEF ClientOK
  <1> QED BY <1>2, <1>3, <1>5, ClientKeeps

-----------------------------------------------------------------------------
(* The theorems.                                                           *)

LEMMA InitSessions == Init => SessionInv
  <1> SUFFICES ASSUME Init PROVE SessionInv
    OBVIOUS
  <1>1. KeysUnique(db_name_table) /\ \A c \in Clients : ~ Bound(c)
    <2>1. 5 \in Nat /\ 0 .. 5 - 1 = 0 .. 4
      OBVIOUS
    <2> QED BY <2>1, HashAssumption, CreateTable DEF Init, Bound
  <1>2. \A n \in AllNames : ~ Listed(n)
    <2>1. 5 \in Nat /\ 0 .. 5 - 1 = 0 .. 4
      OBVIOUS
    <2> QED BY <2>1, HashAssumption, CreateTable DEF Init, Listed
  <1>3. \A w \in Workers : pc[w] = "idle" /\ thread_msg_table[w] = <<>>
    BY DEF Init
  <1>4. \A c \in Clients : /\ cstate[c] = "off" /\ DBName[c] = NoName /\ inbox[c] = <<>>
                           /\ answer[c] = None
    BY DEF Init
  <1>5. \A c : ~ Queued(c) /\ \A w \in Workers : ~ Holds(w, c)
    BY <1>3 DEF Queued, Holds
  <1>6. FlowInv
    BY <1>3, <1>4, <1>5 DEF FlowInv, InboxesOK, QueuesOK, HandsOK, WaitsOK, Pending, Sent
  <1>7. \A c \in Clients : ClientOK(c)
    BY <1>1, <1>4, <1>5 DEF ClientOK, Sent
  <1>8. \A w \in Workers : HandOK(w)
    BY <1>3 DEF HandOK, Opening, Unlinking
  <1>9. LinksOK
    <2>1. \A n : Sessions(n) = {}
      BY <1>1, <1>3 DEF Sessions, Linked, Handling, Bound
    <2>2. \A n : Cardinality(Sessions(n)) = 0
      BY <2>1, FS_EmptySet
    <2>3. \A n \in Names : ~ Listed(n)
      BY <1>2 DEF AllNames
    <2> QED BY <1>3, <2>2, <2>3 DEF LinksOK, Critical
  <1>10. fault = "none"
    BY DEF Init
  <1> QED BY <1>1, <1>6, <1>7, <1>8, <1>9, <1>10, InitHandles DEF SessionInv

LEMMA SessionInductive ==
    ASSUME Regular
    PROVE  SessionInv /\ [Next]_vars => SessionInv'
  <1> SUFFICES ASSUME SessionInv, [Next]_vars PROVE SessionInv'
    OBVIOUS
  <1>1. HandleInv'
    BY HandleInductive DEF SessionInv
  <1>2. ASSUME NEW c \in Clients, ClientStep(c) \/ Receive(c) PROVE SessionInv'
    BY <1>1, <1>2, ClientStepKeeps, ReceiveKeeps
  <1>3. ASSUME NEW c \in Clients, ReceiveEOF(c) PROVE FALSE
    <2>1. replays \in 0 .. 0
      BY DEF SessionInv, HandleInv, TypeInv, TypeOK, Regular
    <2> QED BY <1>3, <2>1 DEF ReceiveEOF, Regular
  <1>4. ASSUME NEW w \in Workers, WorkerStep(w) PROVE SessionInv'
    BY <1>1, <1>4, TakeKeeps, OpenNameKeeps, OpenLockKeeps, OpenFirstCounts, EntryStepKeeps,
       UnbindGetKeeps, UnbindDeleteKeeps, UnlinkLockKeeps, CloseLastCounts, ExitCloseKeeps,
       DataNameKeeps, DataHandleKeeps, DataDoKeeps, ReplyKeeps DEF WorkerStep
  <1>5. CASE UNCHANGED vars
    <2>1. UNCHANGED <<cstate, DBName, request, answer, inbox, thread_msg_table,
                      db_name_table, db_handle_table, hdb, pc, local, fault>>
      BY <1>5 DEF vars, clientVars, netVars, tableVars, fileVars
    <2> QED BY <1>1, <2>1 DEF SessionInv, FlowInv, InboxesOK, QueuesOK, HandsOK, WaitsOK,
          Pending, Sent, Queued, Holds, Fd, Cmd, Arg, DbOf, Bound, NameOf, ClientOK, HandOK,
          LinksOK, Sessions, Linked, Handling, Listed, ListedAs, LinksHeld
  <1> QED BY <1>2, <1>3, <1>4, <1>5 DEF Next

\* What the properties say follows from the invariant.
LEMMA InvTasks == SessionInv => TasksAreRequests
  <1> SUFFICES ASSUME SessionInv, NEW w \in Workers,
                      NEW t \in Range(thread_msg_table[w])
                                \cup (IF pc[w] = "idle" THEN {} ELSE {local[w].task})
               PROVE  t = Task(t.sockfd, request[t.sockfd])
    BY DEF TasksAreRequests
  <1>1. TypeInv /\ FlowInv
    BY DEF SessionInv, HandleInv
  <1>2. CASE t \in Range(thread_msg_table[w])
    <2>1. DOMAIN thread_msg_table[w] = 1 .. Len(thread_msg_table[w])
      BY <1>1, FlowTypes
    <2>2. PICK i \in 1 .. Len(thread_msg_table[w]) : t = thread_msg_table[w][i]
      BY <1>2, <2>1 DEF Range
    <2> QED BY <1>1, <2>2, TaskQueued
  <1>3. CASE pc[w] # "idle" /\ t = local[w].task
    BY <1>1, <1>3 DEF FlowInv, HandsOK, Fd
  <1> QED BY <1>2, <1>3

LEMMA InvOpens == SessionInv => OpenBinds
  BY DEF SessionInv, ClientOK, OpenBinds, Bound, NameOf

LEMMA InvCounts == SessionInv => LinksCountSessions
  <1> SUFFICES ASSUME SessionInv, dbmutex = None, NEW n \in Names
               PROVE  Cardinality({c \in Clients : Linked(c, n)})
                         = IF Listed(n) THEN ListedAs(n).links ELSE 0
    BY DEF LinksCountSessions
  <1> QED BY CountedWhenFree DEF Sessions

LEMMA InvIsolates == SessionInv => SessionIsolation
  BY DEF SessionInv, HandOK, SessionIsolation

\* However many clients and workers there are and however they interleave,
\* every task is the last request of the client it will be answered to: none is
\* lost, doubled or mixed up between recv_callback_fn, the queues and
\* RequestConduct (dbserver.c:345-378, 80-103), while no callback is run at
\* end-of-file.
THEOREM TasksMatch == Regular => (Spec => []TasksAreRequests)
  <1> SUFFICES ASSUME Regular PROVE Spec => []TasksAreRequests
    OBVIOUS
  <1>1. SessionInv /\ [Next]_vars => SessionInv'
    BY SessionInductive
  <1> QED BY <1>1, InitSessions, InvTasks, PTL DEF Spec

\* The links of a file, changed under dbmutex, are in step with the descriptor
\* bindings, changed without it: whenever the mutex is free they count the
\* clients that have the file open, and a file nobody has open is not listed
\* (dbserver.c:125-202).
THEOREM LinksMatch == Regular => (Spec => []LinksCountSessions)
  <1> SUFFICES ASSUME Regular PROVE Spec => []LinksCountSessions
    OBVIOUS
  <1>1. SessionInv /\ [Next]_vars => SessionInv'
    BY SessionInductive
  <1> QED BY <1>1, InitSessions, InvCounts, PTL DEF Spec

\* A put, get or delete uses a handle it read without the mutex several steps
\* ago; whatever the other workers did meanwhile, it is the handle of the file
\* its client has open (dbserver.c:205-262).
THEOREM SessionsApart == Regular => (Spec => []SessionIsolation)
  <1> SUFFICES ASSUME Regular PROVE Spec => []SessionIsolation
    OBVIOUS
  <1>1. SessionInv /\ [Next]_vars => SessionInv'
    BY SessionInductive
  <1> QED BY <1>1, InitSessions, InvIsolates, PTL DEF Spec

\* A client that was told OPEN_OK is bound to the file it asked for until it
\* closes it (dbserver.c:126-155, dbclient.c:194-259).
THEOREM OpensBind == Regular => (Spec => []OpenBinds)
  <1> SUFFICES ASSUME Regular PROVE Spec => []OpenBinds
    OBVIOUS
  <1>1. SessionInv /\ [Next]_vars => SessionInv'
    BY SessionInductive
  <1> QED BY <1>1, InitSessions, InvOpens, PTL DEF Spec

\* With clients that leave by EXIT the server never goes on with a handle that
\* was not found (161, 185), never uses a closed database (207-262), and never
\* sends to a client that has gone.
THEOREM NeverFaulty == Regular /\ CrashClients = {} => (Spec => []NoFault)
  <1> SUFFICES ASSUME Regular, CrashClients = {} PROVE Spec => []NoFault
    OBVIOUS
  <1>1. SessionInv /\ [Next]_vars => SessionInv'
    BY SessionInductive
  <1>2. SessionInv => NoFault
    BY DEF SessionInv, NoFault
  <1> QED BY <1>1, <1>2, InitSessions, PTL DEF Spec

-----------------------------------------------------------------------------
(* The server implements DataService.                                      *)

\* The worker that is about to answer a client has the outcome of its request.
LEMMA Outcomes ==
    SessionInv =>
      \A c \in Clients :
        /\ \A w \in Workers : pc[w] = "reply" /\ Fd(w) = c => Outcome(c) = local[w].out
        /\ (\A w \in Workers : pc[w] = "reply" => Fd(w) # c) => Outcome(c) = None
  <1> SUFFICES ASSUME SessionInv, NEW c \in Clients
               PROVE  /\ \A w \in Workers : pc[w] = "reply" /\ Fd(w) = c => Outcome(c) = local[w].out
                      /\ (\A w \in Workers : pc[w] = "reply" => Fd(w) # c) => Outcome(c) = None
    OBVIOUS
  <1>1. ASSUME NEW w \in Workers, pc[w] = "reply", Fd(w) = c
        PROVE  Outcome(c) = local[w].out
    <2>1. \A v \in Workers : pc[v] = "reply" /\ Fd(v) = c => v = w
      <3>1. \A v \in Workers \ {w} : ~ Holds(v, c)
        <4>1. pc[w] # "idle"
          BY <1>1
        <4> QED BY <1>1, <4>1, AtWork
      <3> QED BY <3>1 DEF Holds
    <2>2. {v \in Workers : pc[v] = "reply" /\ Fd(v) = c} = {w}
      BY <1>1, <2>1
    <2> QED BY <2>2 DEF Outcome
  <1>2. ASSUME \A w \in Workers : pc[w] = "reply" => Fd(w) # c
        PROVE  Outcome(c) = None
    BY <1>2 DEF Outcome
  <1> QED BY <1>1, <1>2

LEMMA OutcomesNext ==
    SessionInv' =>
      (\A c \in Clients :
        /\ \A w \in Workers : pc[w] = "reply" /\ Fd(w) = c => Outcome(c) = local[w].out
        /\ (\A w \in Workers : pc[w] = "reply" => Fd(w) # c) => Outcome(c) = None)'
  BY Outcomes, PTL

LEMMA ServiceInit == Init => Service!Init
  <1> SUFFICES ASSUME Init PROVE Service!Init
    OBVIOUS
  <1>1. \A c \in Clients : Outcome(c) = None
    BY DEF Init, Outcome
  <1>2. \A n \in Names, k \in Keys : store[n][ByteOfKey(k)] = None
    BY DEF Init, Bytes
  <1> QED BY <1>1, <1>2 DEF Init, Service!Init, Service!Req, Garbage, Req

\* Nobody begins or ends to answer c.
LEMMA OutcomeStays ==
    ASSUME SessionInv, SessionInv', NEW c \in Clients,
           \A v \in Workers :
              (pc[v] = "reply" /\ Fd(v) = c) \/ (pc'[v] = "reply" /\ Fd(v)' = c) =>
                 pc'[v] = pc[v] /\ local'[v] = local[v]
    PROVE  Outcome(c)' = Outcome(c)
  <1>1. CASE \E v \in Workers : pc[v] = "reply" /\ Fd(v) = c
    <2>1. PICK v \in Workers : pc[v] = "reply" /\ Fd(v) = c
      BY <1>1
    <2>2. pc'[v] = "reply" /\ Fd(v)' = c /\ local'[v] = local[v]
      BY <2>1 DEF Fd
    <2>3. Outcome(c) = local[v].out
      BY <2>1, Outcomes
    <2>4. Outcome(c)' = local'[v].out
      BY <2>2, OutcomesNext
    <2> QED BY <2>2, <2>3, <2>4
  <1>2. CASE \A v \in Workers : pc[v] = "reply" => Fd(v) # c
    <2>1. \A v \in Workers : pc'[v] = "reply" => Fd(v)' # c
      BY <1>2 DEF Fd
    <2>2. Outcome(c) = None
      BY <1>2, Outcomes
    <2>3. Outcome(c)' = None
      BY <2>1, OutcomesNext
    <2> QED BY <2>2, <2>3
  <1> QED BY <1>1, <1>2

\* A step that no client sees.
LEMMA ServiceStutters ==
    ASSUME SessionInv, SessionInv', UNCHANGED <<cstate, DBName, request, answer, store>>,
           \A v \in Workers : pc[v] = "reply" \/ pc'[v] = "reply" =>
              pc'[v] = pc[v] /\ local'[v] = local[v]
    PROVE  UNCHANGED Service!vars
  <1>1. ASSUME NEW c \in Clients PROVE Outcome(c)' = Outcome(c)
    BY OutcomeStays
  <1>2. [c \in Clients |-> Outcome(c)]' = [c \in Clients |-> Outcome(c)]
    BY <1>1
  <1>3. [n \in Names |-> [k \in Keys |-> store[n][ByteOfKey(k)]]]'
           = [n \in Names |-> [k \in Keys |-> store[n][ByteOfKey(k)]]]
    OBVIOUS
  <1> QED BY <1>2, <1>3 DEF Service!vars

\* The outcome of one client, and no other, is set or taken away.
LEMMA OutcomeMoves ==
    ASSUME SessionInv, SessionInv', NEW w \in Workers, NEW c \in Clients, NEW to,
           pc[w] # "idle", Fd(w) = c,
           \A v \in Workers \ {w} : pc'[v] = pc[v] /\ local'[v] = local[v],
           \/ pc'[w] = "reply" /\ Fd(w)' = c /\ to = local'[w].out
           \/ pc'[w] = "idle" /\ to = None
    PROVE  [d \in Clients |-> Outcome(d)]' = [[d \in Clients |-> Outcome(d)] EXCEPT ![c] = to]
  <1>1. \A v \in Workers \ {w} : ~ Holds(v, c)
    BY AtWork
  <1>2. \A v \in Workers \ {w} : Fd(v)' = Fd(v)
    BY DEF Fd
  <1>3. Outcome(c)' = to
    <2>1. CASE pc'[w] = "reply" /\ Fd(w)' = c /\ to = local'[w].out
      BY <2>1, OutcomesNext
    <2>2. CASE pc'[w] = "idle" /\ to = None
      <3>1. \A v \in Workers : pc'[v] = "reply" => Fd(v)' # c
        BY <1>1, <1>2, <2>2 DEF Holds
      <3> QED BY <2>2, <3>1, OutcomesNext
    <2> QED BY <2>1, <2>2
  <1>4. ASSUME NEW d \in Clients \ {c} PROVE Outcome(d)' = Outcome(d)
    <2>1. \A v \in Workers :
             (pc[v] = "reply" /\ Fd(v) = d) \/ (pc'[v] = "reply" /\ Fd(v)' = d) => v # w
      OBVIOUS
    <2> QED BY <2>1, OutcomeStays
  <1> QED BY <1>3, <1>4

\* The steps of the clients are the steps of the service's clients.
LEMMA ServiceClients ==
    ASSUME Regular, CrashClients = {}, SessionInv, SessionInv',
           NEW c \in Clients, ClientStep(c)
    PROVE  Service!Next
  <1>1. JoinNames \subseteq Names
    BY NamesAssumption DEF AllNames, Regular
  <1>2. UNCHANGED <<pc, local, store>>
    BY DEF ClientStep, Connect, Join, Wait, ClientOpen, ClientData, ClientClose,
           ClientExit, ClientCrash, serverVars, fileVars
  <1>3. [d \in Clients |-> Outcome(d)]' = [d \in Clients |-> Outcome(d)]
    <2>1. \A d \in Clients : Outcome(d)' = Outcome(d)
      BY <1>2, OutcomeStays
    <2> QED BY <2>1
  <1>4. [n \in Names |-> [k \in Keys |-> store[n][ByteOfKey(k)]]]'
           = [n \in Names |-> [k \in Keys |-> store[n][ByteOfKey(k)]]]
    BY <1>2
  <1>5. CASE Connect(c)
    BY <1>3, <1>4, <1>5 DEF Connect, Service!Next, Service!Connect
  <1>6. ASSUME NEW n \in JoinNames, Join(c, n) PROVE Service!Open(c, "off", n)
    <2>1. DBName[c] = NoName
      BY <1>6 DEF SessionInv, ClientOK, Join
    <2> QED BY <1>3, <1>4, <1>6, <2>1
            DEF Join, Send, Req, Service!Open, Service!Ask, Service!Req
  <1>7. ASSUME NEW n \in Names, ClientOpen(c, n) PROVE Service!Open(c, "ready", n)
    BY <1>3, <1>4, <1>7
    DEF ClientOpen, Wait, Send, Req, Service!Open, Service!Ask, Service!Req
  <1>8. ASSUME NEW cmd \in DataCmds, NEW k \in Keys, ClientData(c, cmd, k)
        PROVE  Service!Data(c, cmd, k)
    BY <1>3, <1>4, <1>8
    DEF ClientData, Wait, Send, Req, Service!Data, Service!Ask, Service!Req
  <1>9. CASE ClientClose(c)
    BY <1>3, <1>4, <1>9
    DEF ClientClose, Wait, Send, Req, Service!Next, Service!Close, Service!Ask, Service!Req
  <1>10. CASE ClientExit(c)
    BY <1>3, <1>4, <1>10
    DEF ClientExit, Send, Req, Service!Next, Service!Exit, Service!Ask, Service!Req
  <1>11. ~ ClientCrash(c)
    BY DEF ClientCrash
  <1>12. DataCmds = Service!DataCmds
    BY DEF DataCmds, Service!DataCmds
  <1> QED BY <1>5, <1>6, <1>7, <1>8, <1>9, <1>10, <1>11, <1>12 DEF ClientStep, Service!Next

\* A worker has handled a request and is about to answer.
LEMMA EffectReady ==
    ASSUME CrashClients = {}, SessionInv, SessionInv',
           NEW w \in Workers, NEW c, c = Fd(w),
           pc[w] \notin {"idle", "reply"}, pc'[w] = "reply",
           local'[w].task = local[w].task,
           \A v \in Workers \ {w} : pc'[v] = pc[v] /\ local'[v] = local[v]
    PROVE  /\ c \in Clients /\ cstate[c] = "wait" /\ answer[c] = None
           /\ Outcome(c) = None
           /\ [d \in Clients |-> Outcome(d)]'
                 = [[d \in Clients |-> Outcome(d)] EXCEPT ![c] = local'[w].out]
           /\ Cmd(w) = request[c].cmd /\ Arg(w) = request[c].arg
  <1>1. /\ c \in Clients /\ cstate[c] \in {"wait", "gone"} /\ answer[c] = None
        /\ Cmd(w) = request[c].cmd /\ Arg(w) = request[c].arg
        /\ cstate[c] = "gone" => Cmd(w) = "EXIT"
        /\ \A v \in Workers \ {w} : ~ Holds(v, c)
    BY AtWork
  <1>2. Fd(w)' = c /\ Cmd(w)' = Cmd(w)
    BY DEF Fd, Cmd
  <1>3. Cmd(w) # "EXIT"
    BY <1>2 DEF SessionInv, HandOK
  <1>4. Outcome(c) = None
    <2>1. \A v \in Workers : pc[v] = "reply" => Fd(v) # c
      BY <1>1 DEF Holds
    <2> QED BY <1>1, <2>1, Outcomes
  <1>5. [d \in Clients |-> Outcome(d)]'
           = [[d \in Clients |-> Outcome(d)] EXCEPT ![c] = local'[w].out]
    BY <1>1, <1>2, OutcomeMoves
  <1> QED BY <1>1, <1>3, <1>4, <1>5

\* Opens, closes and requests that are refused leave the files alone.
LEMMA ServiceEffect ==
    ASSUME CrashClients = {}, SessionInv, SessionInv',
           NEW w \in Workers, pc[w] \notin {"idle", "reply"}, pc'[w] = "reply",
           local'[w].task = local[w].task,
           \A v \in Workers \ {w} : pc'[v] = pc[v] /\ local'[v] = local[v],
           UNCHANGED <<cstate, DBName, request, answer, store>>,
           \/ Cmd(w) = "OPEN" /\ local'[w].out = Ans("OPEN_OK")
           \/ Cmd(w) = "CLOSE" /\ local'[w].out = Ans("CLOSE_OK")
           \/ Cmd(w) \in DataCmds /\ local'[w].out = Ans("ERROR")
    PROVE  Service!Next
  <1>1. PICK c \in Clients :
           /\ cstate[c] = "wait" /\ answer[c] = None /\ Outcome(c) = None
           /\ [d \in Clients |-> Outcome(d)]'
                 = [[d \in Clients |-> Outcome(d)] EXCEPT ![c] = local'[w].out]
           /\ Cmd(w) = request[c].cmd
    BY EffectReady
  <1>2. [n \in Names |-> [k \in Keys |-> store[n][ByteOfKey(k)]]]'
           = [n \in Names |-> [k \in Keys |-> store[n][ByteOfKey(k)]]]
    OBVIOUS
  <1>3. \/ request[c].cmd = "OPEN" /\ local'[w].out = Service!Ans("OPEN_OK")
        \/ request[c].cmd = "CLOSE" /\ local'[w].out = Service!Ans("CLOSE_OK")
        \/ request[c].cmd \in Service!DataCmds /\ local'[w].out = Service!Ans("ERROR")
    BY <1>1 DEF Ans, Service!Ans, DataCmds, Service!DataCmds
  <1>4. Service!Effect(c)
    BY <1>1, <1>2, <1>3 DEF Service!Effect, Service!Finish
  <1> QED BY <1>4 DEF Service!Next

\* A put, get or delete takes effect when the worker calls the database.
LEMMA ServiceData ==
    ASSUME CrashClients = {}, KeysApart, SessionInv, SessionInv',
           NEW w \in Workers, DataDo(w)
    PROVE  Service!Next
  <1>0. PICK c : c = Fd(w)
    OBVIOUS
  <1>1. pc[w] = "data_do" /\ pc[w] \notin {"idle", "reply"}
    BY DEF DataDo
  <1>2. /\ HandOK(w) /\ ClientOK(c) /\ pc \in [Workers -> PCs] /\ local \in [Workers -> Locals]
        /\ TypeInv /\ Cmd(w) \in DataCmds
        /\ Arg(w) \in Keys /\ store \in [Names -> [Bytes -> Keys \cup {None}]]
    <2>1. TypeInv /\ CmdsAt("data_do") = DataCmds
      BY <1>1, AtWork DEF CmdsAt
    <2> QED BY <1>0, <1>1, <2>1, AtWork, Typed
  <1>3. PICK n \in Names : hdb[local[w].db] = n /\ n # None /\ n = DBName[c]
    <2>1. hdb[local[w].db] = DBName[c] /\ DBName[c] \in Names /\ DBName[c] # None
      BY <1>0, <1>1, <1>2, NoneAssumption DEF HandOK, ClientOK, AllNames
    <2> QED BY <2>1
  <1>4. /\ UNCHANGED <<cstate, DBName, request, answer>>
        /\ pc' = [pc EXCEPT ![w] = "reply"] /\ DataOnFile(w, n)
    BY <1>3 DEF DataDo, inner, envVars, clientVars
  <1>5. PICK a \in Answers : local' = [local EXCEPT ![w].out = a]
    BY <1>1, <1>2, <1>4, FileAnswer
  <1>6. /\ pc'[w] = "reply"
        /\ \A v \in Workers \ {w} : pc'[v] = pc[v] /\ local'[v] = local[v]
        /\ local'[w].task = local[w].task /\ local'[w].out = a
    BY <1>2, <1>4, <1>5 DEF Locals
  <1>7. /\ c \in Clients /\ cstate[c] = "wait" /\ answer[c] = None /\ Outcome(c) = None
        /\ [d \in Clients |-> Outcome(d)]' = [[d \in Clients |-> Outcome(d)] EXCEPT ![c] = a]
        /\ Cmd(w) = request[c].cmd /\ Arg(w) = request[c].arg
    BY <1>0, <1>1, <1>6, EffectReady
  <1>8. PICK k \in Keys : k = Arg(w) /\ k = request[c].arg
    BY <1>2, <1>7
  <1>a. PICK f : f = [m \in Names |-> [j \in Keys |-> store[m][ByteOfKey(j)]]]
    OBVIOUS
  <1>9. f[n][k] = store[n][ByteOfKey(k)]
    BY <1>a
  \* What is put under a byte is put under the one key that has it.
  <1>b. ASSUME NEW x \in Keys \cup {None},
               store' = [store EXCEPT ![n] = [@ EXCEPT ![ByteOfKey(k)] = x]]
        PROVE  [m \in Names |-> [j \in Keys |-> store[m][ByteOfKey(j)]]]' = [f EXCEPT ![n][k] = x]
    <2>1. \A j \in Keys : ByteOfKey(j) \in Bytes /\ (ByteOfKey(j) = ByteOfKey(k) <=> j = k)
      BY DEF Bytes, KeysApart
    <2>2. ASSUME NEW m \in Names, NEW j \in Keys
          PROVE  store'[m][ByteOfKey(j)] = IF m = n /\ j = k THEN x ELSE store[m][ByteOfKey(j)]
      BY <1>2, <1>b, <2>1
    <2>3. [m \in Names |-> [j \in Keys |-> store[m][ByteOfKey(j)]]]'
             = [m \in Names |-> [j \in Keys |->
                  IF m = n /\ j = k THEN x ELSE store[m][ByteOfKey(j)]]]
      BY <2>2
    <2>4. [f EXCEPT ![n][k] = x]
             = [m \in Names |-> [j \in Keys |->
                  IF m = n /\ j = k THEN x ELSE store[m][ByteOfKey(j)]]]
      BY <1>a
    <2> QED BY <2>3, <2>4
  <1>10. \/ /\ Cmd(w) = "PUT" /\ a = Ans("PUT_OK")
            /\ [m \in Names |-> [j \in Keys |-> store[m][ByteOfKey(j)]]]' = [f EXCEPT ![n][k] = k]
         \/ /\ Cmd(w) = "GET" /\ f[n][k] # None
            /\ a = [code |-> "GET_OK", val |-> f[n][k]] /\ store' = store
         \/ /\ Cmd(w) = "DELETE" /\ f[n][k] # None /\ a = Ans("DELETE_OK")
            /\ [m \in Names |-> [j \in Keys |-> store[m][ByteOfKey(j)]]]' = [f EXCEPT ![n][k] = None]
         \/ Cmd(w) \in DataCmds /\ a = Ans("ERROR") /\ store' = store
    <2>1. \A b : local' = [local EXCEPT ![w].out = b] => b = a
      <3>1. \A b : [local EXCEPT ![w].out = b][w].out = b
        BY <1>2 DEF Locals
      <3> QED BY <1>6, <3>1
    <2>2. CASE /\ Cmd(w) = "PUT" /\ a = Ans("PUT_OK")
               /\ store' = [store EXCEPT ![n] = [@ EXCEPT ![ByteOfKey(k)] = k]]
      BY <1>9, <1>b, <2>2
    <2>3. CASE /\ Cmd(w) = "DELETE" /\ store[n][ByteOfKey(k)] # None /\ a = Ans("DELETE_OK")
               /\ store' = [store EXCEPT ![n] = [@ EXCEPT ![ByteOfKey(k)] = None]]
      BY <1>9, <1>b, <2>3
    <2>4. CASE /\ Cmd(w) = "GET" /\ store[n][ByteOfKey(k)] # None
               /\ a = [code |-> "GET_OK", val |-> store[n][ByteOfKey(k)]] /\ store' = store
      BY <1>9, <2>4
    <2>5. CASE Cmd(w) \in {"GET", "DELETE"} /\ a = Ans("ERROR") /\ store' = store
      BY <1>2, <2>5
    <2> QED BY <1>4, <1>8, <2>1, <2>2, <2>3, <2>4, <2>5 DEF DataOnFile
  <1>11. Service!Effect(c)
    <2>1. store' = store =>
             [m \in Names |-> [j \in Keys |-> store[m][ByteOfKey(j)]]]' = f
      BY <1>a
    <2>2. \A code : Ans(code) = Service!Ans(code)
      BY DEF Ans, Service!Ans
    <2>3. DataCmds = Service!DataCmds
      BY DEF DataCmds, Service!DataCmds
    <2> QED BY <1>3, <1>4, <1>7, <1>8, <1>a, <1>10, <2>1, <2>2, <2>3
            DEF Service!Effect, Service!Finish
  <1> QED BY <1>7, <1>11 DEF Service!Next

LEMMA ServiceAnswer ==
    ASSUME CrashClients = {}, SessionInv, SessionInv', NEW w \in Workers, Reply(w)
    PROVE  Service!Next
  <1>0. PICK c : c = Fd(w)
    OBVIOUS
  <1>1. pc[w] = "reply" /\ pc[w] # "idle"
    BY DEF Reply
  <1>2. /\ pc \in [Workers -> PCs] /\ local \in [Workers -> Locals]
        /\ c \in Clients /\ HandOK(w)
        /\ cstate[c] = "gone" => Cmd(w) = "EXIT"
    BY <1>0, <1>1, AtWork
  <1>3. PICK out \in Answers : out = local[w].out /\ Outcome(c) = out /\ out # None
    <2>1. local[w].out \in Answers /\ Cmd(w) # "EXIT"
      BY <1>1, <1>2 DEF HandOK
    <2>2. Outcome(c) = local[w].out
      BY <1>0, <1>1, <1>2, Outcomes
    <2> QED BY <2>1, <2>2, AnswersAssumption
  <1>4. cstate[c] # "gone"
    BY <1>1, <1>2 DEF HandOK
  <1>5. /\ cstate[c] = "wait" /\ cstate' = [cstate EXCEPT ![c] = "ready"]
        /\ answer' = [answer EXCEPT ![c] = out]
        /\ DBName' = IF request[c].cmd = "CLOSE" THEN [DBName EXCEPT ![c] = NoName] ELSE DBName
        /\ UNCHANGED <<request, store>>
    BY <1>0, <1>3, <1>4 DEF Reply, fileVars
  <1>6. pc'[w] = "idle" /\ \A v \in Workers \ {w} : pc'[v] = pc[v] /\ local'[v] = local[v]
    BY <1>2 DEF Reply
  <1>7. [d \in Clients |-> Outcome(d)]' = [[d \in Clients |-> Outcome(d)] EXCEPT ![c] = None]
    BY <1>0, <1>1, <1>2, <1>6, OutcomeMoves
  <1>8. [n \in Names |-> [k \in Keys |-> store[n][ByteOfKey(k)]]]'
           = [n \in Names |-> [k \in Keys |-> store[n][ByteOfKey(k)]]]
    BY <1>5
  <1>9. [d \in Clients |-> Outcome(d)][c] = out
    BY <1>2, <1>3
  <1>10. Service!Answer(c)
    BY <1>3, <1>5, <1>7, <1>8, <1>9 DEF Service!Answer
  <1> QED BY <1>2, <1>10 DEF Service!Next

\* Every step of a worker is the effect of a request, its answer, or nothing
\* that a client sees.
LEMMA ServiceWorkers ==
    ASSUME Regular, CrashClients = {}, KeysApart, SessionInv, SessionInv',
           NEW w \in Workers, WorkerStep(w)
    PROVE  Service!Next \/ UNCHANGED Service!vars
  <1> USE DEF inner, envVars, clientVars, netVars, fileVars
  <1>1. /\ pc \in [Workers -> PCs] /\ local \in [Workers -> Locals] /\ TypeInv
        /\ pc[w] # "idle" => Cmd(w) \in CmdsAt(pc[w])
    <2>1. TypeInv
      BY DEF SessionInv, HandleInv
    <2> QED BY <2>1, Typed
  \* The steps from which the worker goes on, or takes up another request.
  <1>2. CASE \/ TakeTask(w) \/ OpenName(w) \/ OpenLock(w) \/ OpenUnlist(w)
             \/ UnbindGet(w) \/ UnbindDelete(w) \/ UnlinkLock(w) \/ CloseLast(w)
             \/ UnlinkUnlist(w) \/ ExitClose(w) \/ DataName(w)
    <2>1. UNCHANGED <<cstate, DBName, request, answer, store>>
      BY <1>2 DEF TakeTask, OpenName, OpenLock, OpenUnlist, UnbindGet, UnbindDelete,
                  UnlinkLock, CloseLast, UnlinkUnlist, ExitClose, DataName
    <2>2. /\ pc[w] # "reply" /\ pc'[w] # "reply"
          /\ \A v \in Workers \ {w} : pc'[v] = pc[v] /\ local'[v] = local[v]
      <3>1. CASE TakeTask(w)
        <4>1. PICK t : t = Head(thread_msg_table[w]) /\ t \in Tasks
          BY <1>1, <3>1, Typed DEF TakeTask
        <4>2. t.cmd \in Cmds \cup {"none"}
          BY <4>1 DEF Tasks
        <4>3. Entry[t.cmd] # "reply" /\ Entry[t.cmd] \in PCs
          BY <4>2 DEF Entry, Cmds, DataCmds, PCs
        <4>4. pc[w] = "idle" /\ pc' = [pc EXCEPT ![w] = Entry[t.cmd]]
          BY <3>1, <4>1 DEF TakeTask
        <4>5. \A v \in Workers \ {w} : local'[v] = local[v]
          BY <1>1, <3>1 DEF TakeTask
        <4> QED BY <1>1, <4>3, <4>4, <4>5
      <3>2. CASE OpenName(w) \/ OpenLock(w) \/ OpenUnlist(w)
        BY <1>1, <3>2 DEF OpenName, OpenLock, OpenUnlist
      <3>3. CASE UnbindGet(w) \/ UnbindDelete(w) \/ UnlinkLock(w)
        BY <1>1, <3>3 DEF UnbindGet, UnbindDelete, UnlinkLock, AfterUnlink
      <3>4. CASE CloseLast(w) \/ UnlinkUnlist(w) \/ ExitClose(w) \/ DataName(w)
        BY <1>1, <3>4 DEF CloseLast, UnlinkUnlist, ExitClose, DataName
      <3> QED BY <1>2, <3>1, <3>2, <3>3, <3>4
    <2> QED BY <2>1, <2>2, ServiceStutters
  <1>3. CASE OpenFirst(w) \/ OpenRelist(w)
    <2>1. /\ pc[w] \in {"open_hdb", "open_add"} /\ pc'[w] = "reply"
          /\ UNCHANGED <<cstate, DBName, request, answer, store>>
          /\ local' = [local EXCEPT ![w].out = Ans("OPEN_OK")]
      <3>1. CASE OpenRelist(w)
        BY <1>1, <3>1 DEF OpenRelist
      <3>2. CASE OpenFirst(w)
        <4>1. pc[w] \in Opening
          BY <3>2 DEF OpenFirst, Opening
        <4>2. DbOf(w) \notin FailNames
          BY <4>1, NameInHand, NamesAssumption DEF Regular
        <4> QED BY <1>1, <3>2, <4>2 DEF OpenFirst
      <3> QED BY <1>3, <3>1, <3>2
    <2>2. Cmd(w) = "OPEN"
      BY <1>1, <2>1 DEF CmdsAt
    <2>3. /\ local'[w].out = Ans("OPEN_OK") /\ local'[w].task = local[w].task
          /\ \A v \in Workers \ {w} : pc'[v] = pc[v] /\ local'[v] = local[v]
      BY <1>1, <1>3, <2>1 DEF Locals, OpenFirst, OpenRelist
    <2> QED BY <2>1, <2>2, <2>3, ServiceEffect
  <1>4. CASE CloseUnlist(w) \/ UnlinkRelist(w)
    <2>1. /\ pc[w] \in {"close_del", "relink_add"} /\ pc'[w] = Closed(w)
          /\ UNCHANGED <<cstate, DBName, request, answer, store>>
          /\ local' = [local EXCEPT ![w].out = Ans("CLOSE_OK")]
          /\ \A v \in Workers \ {w} : pc'[v] = pc[v]
      BY <1>1, <1>4 DEF CloseUnlist, UnlinkRelist
    <2>2. Cmd(w) \in {"CLOSE", "EXIT"}
      BY <1>1, <2>1 DEF CmdsAt
    <2>3. /\ local'[w].out = Ans("CLOSE_OK") /\ local'[w].task = local[w].task
          /\ \A v \in Workers \ {w} : local'[v] = local[v]
      BY <1>1, <2>1 DEF Locals
    <2>4. CASE Cmd(w) = "CLOSE"
      BY <2>1, <2>3, <2>4, ServiceEffect DEF Closed
    <2>5. CASE Cmd(w) = "EXIT"
      BY <2>1, <2>3, <2>5, ServiceStutters DEF Closed
    <2> QED BY <2>2, <2>4, <2>5
  <1>5. CASE DataHandle(w)
    <2>1. /\ pc[w] = "data_handle"
          /\ UNCHANGED <<cstate, DBName, request, answer, store>>
          /\ \/ pc'[w] = "data_do"
             \/ pc'[w] = "reply" /\ local' = [local EXCEPT ![w].out = Ans("ERROR")]
          /\ \A v \in Workers \ {w} : pc'[v] = pc[v] /\ local'[v] = local[v]
      BY <1>1, <1>5 DEF DataHandle
    <2>2. Cmd(w) \in DataCmds
      BY <1>1, <2>1 DEF CmdsAt
    <2>3. CASE pc'[w] = "data_do"
      BY <2>1, <2>3, ServiceStutters
    <2>4. CASE pc'[w] = "reply" /\ local' = [local EXCEPT ![w].out = Ans("ERROR")]
      <3>1. local'[w].out = Ans("ERROR") /\ local'[w].task = local[w].task
        BY <1>1, <2>4 DEF Locals
      <3> QED BY <2>1, <2>2, <2>4, <3>1, ServiceEffect
    <2> QED BY <2>1, <2>3, <2>4
  <1>6. CASE DataDo(w)
    BY <1>6, ServiceData
  <1>7. CASE Reply(w)
    BY <1>7, ServiceAnswer
  <1> QED BY <1>2, <1>3, <1>4, <1>5, <1>6, <1>7 DEF WorkerStep

LEMMA ServiceStep ==
    ASSUME Regular, CrashClients = {}, KeysApart
    PROVE  SessionInv /\ SessionInv' /\ [Next]_vars => [Service!Next]_(Service!vars)
  <1> SUFFICES ASSUME SessionInv, SessionInv', [Next]_vars
               PROVE  Service!Next \/ UNCHANGED Service!vars
    OBVIOUS
  <1>1. ASSUME NEW c \in Clients, ClientStep(c) PROVE Service!Next
    BY <1>1, ServiceClients
  <1>2. ASSUME NEW c \in Clients, Receive(c) \/ ReceiveEOF(c) PROVE UNCHANGED Service!vars
    <2>1. UNCHANGED <<cstate, DBName, request, answer, store, pc, local>>
      BY <1>2 DEF Receive, ReceiveEOF, clientVars, fileVars
    <2> QED BY <2>1, ServiceStutters
  <1>3. CASE UNCHANGED vars
    <2>1. UNCHANGED <<cstate, DBName, request, answer, store, pc, local>>
      BY <1>3 DEF vars, clientVars, fileVars
    <2> QED BY <2>1, ServiceStutters
  <1> QED BY <1>1, <1>2, <1>3, ServiceWorkers DEF Next

\* Through all its tables, queues and threads the server does what a service
\* would that handled every request in one step, on the file of its client: no
\* effect is lost, doubled or put in another client's file, and each client
\* gets the answer to its own request (dbserver.c:103-272, 345-378).
THEOREM ServerImplementsService ==
    Regular /\ CrashClients = {} /\ KeysApart => (Spec => ImplementsService)
  <1> SUFFICES ASSUME Regular, CrashClients = {}, KeysApart
               PROVE  Spec => ImplementsService
    OBVIOUS
  <1>1. SessionInv /\ [Next]_vars => SessionInv'
    BY SessionInductive
  <1>2. SessionInv /\ SessionInv' /\ [Next]_vars => [Service!Next]_(Service!vars)
    BY ServiceStep
  <1> QED BY <1>1, <1>2, InitSessions, ServiceInit, PTL
          DEF Spec, ImplementsService, Service!Spec
=============================================================================
