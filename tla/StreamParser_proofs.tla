------------------------- MODULE StreamParser_proofs -------------------------
(***************************************************************************)
(* Proofs about StreamParser, for any streams, payload lengths, chunk size *)
(* and number of messages, and for reads that cut the stream anywhere: the *)
(* messages handed on are the messages sent, whole, in order and each      *)
(* once, and nothing is left over.                                         *)
(***************************************************************************)
EXTENDS StreamParser, SequenceTheorems, WellFoundedInduction, TLAPS

-----------------------------------------------------------------------------
(* Induction, and what FlattenSeq computes *)

\* The order of the naturals as a relation.
Below == {ss \in Nat \X Nat : ss[1] < ss[2]}

LEMMA SmallestNat ==
  ASSUME NEW T, T \subseteq Nat, T # {}
  PROVE  \E m \in T : \A k \in T : m <= k
<1>1. OpToRel(<, Nat) = Below
  BY Zenon DEF OpToRel, Below
<1>2. IsWellFoundedOn(Below, Nat)
  BY NatLessThanWellFounded, <1>1, Zenon
<1>3. PICK m \in T : \A k \in T : ~(<<k, m>> \in Below)
  BY <1>2, WFMin
<1>4. ASSUME NEW k \in T
      PROVE  m <= k
  <2>1. k \in Nat /\ m \in Nat
    OBVIOUS
  <2>2. k < m => <<k, m>> \in Below
    BY <2>1 DEF Below
  <2> QED BY <1>3, <2>1, <2>2
<1> QED BY <1>4

\* A set that holds 1, and with every number below n its successor, holds n.
LEMMA CountUp ==
  ASSUME NEW G, NEW n \in Nat \ {0}, 1 \in G,
         \A m \in 1 .. n : m \in G /\ m # n => m + 1 \in G
  PROVE  \A m \in 1 .. n : m \in G
<1> DEFINE T == {m \in 1 .. n : m \notin G}
<1> SUFFICES ASSUME T # {} PROVE FALSE
  OBVIOUS
<1>1. T \subseteq Nat
  OBVIOUS
<1>2. PICK m \in T : \A k \in T : m <= k
  <2> HIDE DEF T
  <2> QED BY <1>1, SmallestNat
<1>3. m \in 1 .. n /\ m \notin G /\ m # 1
  OBVIOUS
<1>4. m - 1 \in 1 .. n /\ m - 1 # n /\ (m - 1) + 1 = m
  BY <1>3
<1>5. m - 1 \in G
  BY <1>2, <1>4
<1> QED BY <1>3, <1>4, <1>5

\* The recursive function inside FlattenSeq exists ...
LEMMA FlattenExists ==
  ASSUME NEW cs, NEW n \in Nat \ {0}
  PROVE  \E f : f = [i \in 1 .. n |-> IF i = 1 THEN cs[i] ELSE f[i-1] \o cs[i]]
<1> DEFINE Has(m) == \E f : f = [i \in 1 .. m |-> IF i = 1 THEN cs[i] ELSE f[i-1] \o cs[i]]
           G == {m \in 1 .. n : Has(m)}
<1>1. Has(1)
  <2> DEFINE f == [i \in 1 .. 1 |-> cs[i]]
  <2>1. f = [i \in 1 .. 1 |-> IF i = 1 THEN cs[i] ELSE f[i-1] \o cs[i]]
    OBVIOUS
  <2> QED BY <2>1
<1>2. ASSUME NEW m \in Nat \ {0}, Has(m)
      PROVE  Has(m + 1)
  <2>1. PICK f : f = [i \in 1 .. m |-> IF i = 1 THEN cs[i] ELSE f[i-1] \o cs[i]]
    BY <1>2
  <2> DEFINE g == [i \in 1 .. m + 1 |-> IF i = m + 1 THEN f[m] \o cs[m + 1] ELSE f[i]]
  <2>2. ASSUME NEW i \in 1 .. m + 1
        PROVE  g[i] = IF i = 1 THEN cs[i] ELSE g[i - 1] \o cs[i]
    <3>1. CASE i = m + 1
      <4>1. i # 1 /\ i - 1 \in 1 .. m + 1 /\ i - 1 # m + 1 /\ i - 1 = m
        BY <3>1
      <4>2. g[i - 1] = f[m]
        BY <4>1
      <4> QED BY <3>1, <4>1, <4>2
    <3>2. CASE i # m + 1
      <4>1. i \in 1 .. m
        BY <3>2
      <4>2. i # 1 => i - 1 \in 1 .. m + 1 /\ i - 1 # m + 1
        BY <4>1
      <4>3. i # 1 => g[i - 1] = f[i - 1]
        BY <4>2
      <4>4. g[i] = f[i]
        BY <3>2
      <4>5. f[i] = IF i = 1 THEN cs[i] ELSE f[i-1] \o cs[i]
        BY <2>1, <4>1
      <4> HIDE DEF g
      <4> QED BY <4>3, <4>4, <4>5
    <3> QED BY <3>1, <3>2
  <2>3. g = [i \in 1 .. m + 1 |-> IF i = 1 THEN cs[i] ELSE g[i - 1] \o cs[i]]
    <3>1. g = [i \in 1 .. m + 1 |-> g[i]]
      OBVIOUS
    <3> HIDE DEF g
    <3> QED BY <3>1, <2>2, Zenon
  <2> HIDE DEF g
  <2> QED BY <2>3
<1> HIDE DEF Has
<1>3. \A m \in 1 .. n : m \in G
  <2>1. 1 \in G
    BY <1>1
  <2>2. \A m \in 1 .. n : m \in G /\ m # n => m + 1 \in G
    BY <1>2
  <2> HIDE DEF G
  <2> QED BY <2>1, <2>2, CountUp
<1>4. Has(n)
  BY <1>3
<1> QED BY <1>4 DEF Has

\* ... and FlattenSeq returns its last value.
LEMMA FlattenUnfolds ==
  ASSUME NEW cs, Len(cs) \in Nat \ {0}
  PROVE  \E f : /\ f = [i \in 1 .. Len(cs) |-> IF i = 1 THEN cs[i] ELSE f[i-1] \o cs[i]]
                /\ FlattenSeq(cs) = f[Len(cs)]
<1>1. \E f : f = [i \in 1 .. Len(cs) |-> IF i = 1 THEN cs[i] ELSE f[i-1] \o cs[i]]
  BY FlattenExists, Zenon
<1> DEFINE c == CHOOSE f : f = [i \in 1 .. Len(cs) |-> IF i = 1 THEN cs[i] ELSE f[i-1] \o cs[i]]
<1>2. c = [i \in 1 .. Len(cs) |-> IF i = 1 THEN cs[i] ELSE c[i-1] \o cs[i]]
  BY <1>1, Zenon
<1>3. Len(cs) # 0
  OBVIOUS
<1>4. FlattenSeq(cs) = c[Len(cs)]
  BY <1>3, Zenon DEF FlattenSeq
<1> QED BY <1>2, <1>4

\* st adds up the lengths of the parts cs.
AddsUp(st, cs, n) ==
  /\ st \in [1 .. n + 1 -> Nat] /\ st[1] = 0
  /\ \A j \in 1 .. n : st[j + 1] = st[j] + Len(cs[j])

\* s is the first m parts of cs, one after the other: part j behind st[j].
Flat(s, U, st, cs, m) ==
  /\ s \in Seq(U) /\ Len(s) = st[m + 1]
  /\ \A j \in 1 .. m : st[j + 1] <= Len(s)
  /\ \A j \in 1 .. m : \A x \in 1 .. Len(cs[j]) : s[st[j] + x] = cs[j][x]

LEMMA FlatAppend ==
  ASSUME NEW U, NEW cs, NEW n \in Nat, NEW st, AddsUp(st, cs, n),
         NEW m \in 1 .. n, m # n, NEW a, Flat(a, U, st, cs, m),
         \A j \in 1 .. n : cs[j] \in Seq(U)
  PROVE  Flat(a \o cs[m + 1], U, st, cs, m + 1)
<1> DEFINE k == m + 1
           b == cs[k]
           s == a \o b
<1>1. k \in 1 .. n /\ k + 1 \in 1 .. n + 1 /\ m \in Nat /\ k = m + 1
  OBVIOUS
<1>2. \A j \in 1 .. n : /\ st[j] \in Nat /\ st[j + 1] \in Nat
                        /\ st[j + 1] = st[j] + Len(cs[j]) /\ Len(cs[j]) \in Nat
  <2>1. ASSUME NEW j \in 1 .. n
        PROVE  /\ st[j] \in Nat /\ st[j + 1] \in Nat
               /\ st[j + 1] = st[j] + Len(cs[j]) /\ Len(cs[j]) \in Nat
    <3>1. j \in 1 .. n + 1 /\ j + 1 \in 1 .. n + 1
      OBVIOUS
    <3> QED BY <3>1, LenProperties DEF AddsUp
  <2> QED BY <2>1
<1>3. a \in Seq(U) /\ b \in Seq(U) /\ Len(a) = st[k]
  BY <1>1 DEF Flat
<1> HIDE DEF k, b
<1>4. /\ Len(a) \in Nat /\ Len(b) \in Nat /\ s \in Seq(U) /\ Len(s) = Len(a) + Len(b)
      /\ \A i \in 1 .. Len(a) + Len(b) : s[i] = IF i <= Len(a) THEN a[i] ELSE b[i - Len(a)]
  BY <1>3, ConcatProperties, LenProperties
<1> HIDE DEF s
<1>5. st[k + 1] = Len(s)
  BY <1>1, <1>2, <1>3, <1>4 DEF b
<1>6. ASSUME NEW j \in 1 .. k
      PROVE  /\ st[j + 1] <= Len(s)
             /\ \A x \in 1 .. Len(cs[j]) : s[st[j] + x] = cs[j][x]
  <2>1. CASE j = k
    <3>1. ASSUME NEW x \in 1 .. Len(b)
          PROVE  s[Len(a) + x] = b[x]
      <4>1. /\ Len(a) + x \in 1 .. Len(a) + Len(b) /\ ~(Len(a) + x <= Len(a))
            /\ (Len(a) + x) - Len(a) = x
        BY <1>4
      <4> QED BY <1>4, <4>1
    <3>2. st[j] = Len(a) /\ cs[j] = b
      BY <1>3, <2>1 DEF b
    <3> QED BY <1>4, <1>5, <2>1, <3>1, <3>2
  <2>2. CASE j # k
    <3>1. j \in 1 .. m /\ j \in 1 .. n
      BY <1>1, <2>2
    <3>2. st[j + 1] <= Len(a) /\ \A x \in 1 .. Len(cs[j]) : a[st[j] + x] = cs[j][x]
      BY <3>1 DEF Flat
    <3>3. /\ st[j] \in Nat /\ st[j + 1] \in Nat /\ Len(cs[j]) \in Nat
          /\ st[j + 1] = st[j] + Len(cs[j])
      BY <1>2, <3>1
    <3>4. ASSUME NEW x \in 1 .. Len(cs[j])
          PROVE  s[st[j] + x] = cs[j][x]
      <4>1. st[j] + x \in 1 .. Len(a) + Len(b) /\ st[j] + x <= Len(a)
        <5>1. Len(a) \in Nat /\ Len(b) \in Nat /\ st[j + 1] <= Len(a)
          BY <1>4, <3>2
        <5>2. x \in Nat /\ 1 <= x /\ x <= Len(cs[j])
          BY <3>3
        <5>3. st[j] + x \in Nat /\ 1 <= st[j] + x /\ st[j] + x <= st[j + 1]
          BY <3>3, <5>2
        <5> QED BY <3>3, <5>1, <5>3
      <4> QED BY <1>4, <3>2, <4>1
    <3>5. st[j + 1] <= Len(s)
      BY <1>4, <3>2, <3>3
    <3> QED BY <3>4, <3>5
  <2> QED BY <2>1, <2>2
<1>7. Flat(s, U, st, cs, k)
  BY <1>4, <1>5, <1>6 DEF Flat
<1> QED BY <1>7 DEF s, b, k

\* What FlattenSeq returns.
LEMMA FlattenLayout ==
  ASSUME NEW U, NEW cs \in Seq(Seq(U)), NEW n \in Nat \ {0}, Len(cs) = n,
         NEW st, AddsUp(st, cs, n)
  PROVE  Flat(FlattenSeq(cs), U, st, cs, n)
<1>1. PICK f : /\ f = [i \in 1 .. n |-> IF i = 1 THEN cs[i] ELSE f[i-1] \o cs[i]]
               /\ FlattenSeq(cs) = f[n]
  BY FlattenUnfolds
<1> DEFINE G == {m \in 1 .. n : Flat(f[m], U, st, cs, m)}
<1>2. \A j \in 1 .. n : cs[j] \in Seq(U)
  BY ElementOfSeq
<1>3. Flat(f[1], U, st, cs, 1)
  <2>1. f[1] = cs[1]
    BY <1>1
  <2>2. /\ cs[1] \in Seq(U) /\ st[1] = 0 /\ st[1 + 1] = st[1] + Len(cs[1])
        /\ Len(cs[1]) \in Nat
    BY <1>2, LenProperties DEF AddsUp
  <2>3. \A j \in 1 .. 1 : j = 1
    OBVIOUS
  <2> QED BY <2>1, <2>2, <2>3 DEF Flat
<1>4. ASSUME NEW m \in 1 .. n, m # n, Flat(f[m], U, st, cs, m)
      PROVE  Flat(f[m + 1], U, st, cs, m + 1)
  <2>1. m + 1 \in 1 .. n /\ m + 1 # 1 /\ (m + 1) - 1 = m
    BY <1>4
  <2>2. f[m + 1] = f[m] \o cs[m + 1]
    BY <1>1, <2>1
  <2>3. Flat(f[m] \o cs[m + 1], U, st, cs, m + 1)
    BY <1>2, <1>4, FlatAppend
  <2> QED BY <2>2, <2>3
<1>5. \A m \in 1 .. n : m \in G
  <2>1. 1 \in G
    BY <1>3
  <2>2. \A m \in 1 .. n : m \in G /\ m # n => m + 1 \in G
    BY <1>4
  <2> HIDE DEF G
  <2> QED BY <2>1, <2>2, CountUp
<1>6. n \in G
  <2> HIDE DEF G
  <2> QED BY <1>5
<1> QED BY <1>1, <1>6

-----------------------------------------------------------------------------
(* The bytes of a message *)

\* The payload units in chunk j of a payload, and where that chunk starts.
ChunkLen(j, len) == ChunkEnd(j, len) - (j - 1) * ChunkSize
Offset(j) == (j - 1) * (HeaderSize + ChunkSize)

\* The length of a message on the wire.
SplitLen(len) ==
  Offset(chunk_count(len)) + HeaderSize + ChunkLen(chunk_count(len), len)

LEMMA Quotient ==
  ASSUME NEW x \in Nat, NEW y \in Nat \ {0}
  PROVE  /\ x \div y \in Nat /\ (x \div y) * y <= x /\ x < (x \div y) * y + y
  OBVIOUS

LEMMA Product ==
  ASSUME NEW j \in Nat, NEW y \in Nat
  PROVE  /\ j * y \in Nat /\ (j + 1) * y = j * y + y
  OBVIOUS

LEMMA ProductGrows ==
  ASSUME NEW j \in Nat, NEW k \in Nat, NEW y \in Nat, j <= k
  PROVE  j * y <= k * y
  OBVIOUS

LEMMA ChunkCount ==
  ASSUME NEW len \in Nat
  PROVE  /\ chunk_count(len) \in Nat \ {0}
         /\ (chunk_count(len) - 1) * ChunkSize <= len
         /\ len <= chunk_count(len) * ChunkSize
<1>1. ChunkSize \in Nat \ {0}
  BY ParserAssumption
<1>2. CASE len = 0
  BY <1>1, <1>2 DEF chunk_count
<1>3. CASE len # 0
  <2> DEFINE q == (len + ChunkSize - 1) \div ChunkSize
  <2>1. /\ q \in Nat /\ q * ChunkSize <= len + ChunkSize - 1
        /\ len + ChunkSize - 1 < q * ChunkSize + ChunkSize
    BY <1>1, Quotient
  <2> HIDE DEF q
  <2>2. q # 0
    BY <1>1, <1>3, <2>1
  <2>3. (q - 1) * ChunkSize = q * ChunkSize - ChunkSize
    BY <1>1, <2>1
  <2> QED BY <1>1, <1>3, <2>1, <2>2, <2>3 DEF chunk_count, q
<1> QED BY <1>2, <1>3

\* Every chunk but the last one is full, and together they are the payload.
LEMMA ChunkSizes ==
  ASSUME NEW len \in Nat, NEW n, n = chunk_count(len), NEW j \in 1 .. n
  PROVE  /\ n \in Nat \ {0}
         /\ ChunkLen(j, len) \in Nat /\ Offset(j) \in Nat /\ Offset(1) = 0
         /\ (j - 1) * ChunkSize \in Nat
         /\ (j - 1) * ChunkSize + ChunkLen(j, len) = ChunkEnd(j, len)
         /\ ChunkEnd(j, len) \in Nat /\ ChunkEnd(j, len) <= len
         /\ j # n => /\ ChunkEnd(j, len) = j * ChunkSize
                     /\ Offset(j + 1) = Offset(j) + HeaderSize + ChunkLen(j, len)
         /\ j = n => ChunkEnd(j, len) = len
<1> DEFINE c == ChunkSize
           i == j - 1
           p == i * c
           w == HeaderSize + c
<1>1. c \in Nat \ {0} /\ n \in Nat \ {0} /\ i \in Nat /\ j \in Nat /\ w \in Nat /\ j = i + 1
  BY ChunkCount, ParserAssumption DEF HeaderSize
<1>2. p \in Nat /\ j * c = p + c
  BY <1>1, Product
<1>3. p <= len
  <2>1. i <= n - 1 /\ n - 1 \in Nat
    BY <1>1
  <2>2. p <= (n - 1) * c
    BY <1>1, <2>1, ProductGrows
  <2>3. (n - 1) * c <= len /\ (n - 1) * c \in Nat
    BY <1>1, <2>1, ChunkCount, Product
  <2> QED BY <1>2, <2>2, <2>3
<1>4. j # n => j * c <= len
  <2>1. j # n => j <= n - 1 /\ n - 1 \in Nat
    BY <1>1
  <2>2. j # n => j * c <= (n - 1) * c /\ (n - 1) * c \in Nat
    BY <1>1, <2>1, ProductGrows, Product
  <2>3. (n - 1) * c <= len
    BY ChunkCount
  <2>4. j * c \in Nat
    BY <1>1, <1>2
  <2> QED BY <2>2, <2>3, <2>4
<1>5. j = n => len <= j * c
  BY ChunkCount
<1>6. Offset(j) = i * w /\ i * w \in Nat /\ Offset(j + 1) = i * w + w /\ Offset(1) = 0
  <2>1. Offset(j + 1) = (i + 1) * w /\ Offset(j) = i * w
    BY <1>1 DEF Offset
  <2>2. Offset(1) = 0
    <3>1. 1 - 1 = 0 /\ 0 * w = 0
      BY <1>1
    <3> QED BY <3>1 DEF Offset
  <2> HIDE DEF i, w
  <2> QED BY <1>1, <2>1, <2>2, Product
<1>7. ChunkEnd(j, len) = IF p + c < len THEN p + c ELSE len
  BY <1>2 DEF ChunkEnd
<1>8. ChunkLen(j, len) = ChunkEnd(j, len) - p
  BY DEF ChunkLen
<1>9. w = HeaderSize + c /\ HeaderSize = 2
  BY DEF HeaderSize
<1>10. (j - 1) * ChunkSize = p
  OBVIOUS
<1> HIDE DEF p, i, w
<1>11. /\ ChunkLen(j, len) \in Nat /\ p + ChunkLen(j, len) = ChunkEnd(j, len)
       /\ ChunkEnd(j, len) \in Nat /\ ChunkEnd(j, len) <= len
       /\ j # n => ChunkEnd(j, len) = p + c /\ ChunkLen(j, len) = c
       /\ j = n => ChunkEnd(j, len) = len
  <2>1. j # n => p + c <= len
    BY <1>2, <1>4
  <2>2. j = n => len <= p + c
    BY <1>2, <1>5
  <2>3. p \in Nat /\ c \in Nat /\ len \in Nat
    BY <1>1, <1>2
  <2> DEFINE e == ChunkEnd(j, len)
             l == ChunkLen(j, len)
             full == j # n
  <2>4. e = (IF p + c < len THEN p + c ELSE len) /\ l = e - p
    BY <1>7, <1>8
  <2>5. (full => p + c <= len) /\ (~full => len <= p + c)
    BY <2>1, <2>2
  <2> HIDE DEF e, l, full, c
  <2>6. e \in Nat /\ e <= len /\ p <= e
    BY <1>3, <2>3, <2>4
  <2>7. l \in Nat /\ p + l = e
    BY <2>3, <2>4, <2>6
  <2>8. full => e = p + c /\ l = c
    BY <2>3, <2>4, <2>5, <2>7
  <2>9. ~full => e = len
    BY <2>3, <2>4, <2>5
  <2> QED BY <2>6, <2>7, <2>8, <2>9 DEF e, l, full
<1>12. j # n => Offset(j + 1) = Offset(j) + HeaderSize + ChunkLen(j, len)
  BY <1>1, <1>6, <1>9, <1>11
<1> QED BY <1>1, <1>2, <1>6, <1>10, <1>11, <1>12

\* Every chunk is inside its message.
LEMMA ChunkInside ==
  ASSUME NEW len \in Nat, NEW j \in 1 .. chunk_count(len)
  PROVE  /\ SplitLen(len) \in Nat
         /\ Offset(j) + HeaderSize + ChunkLen(j, len) <= SplitLen(len)
<1> DEFINE n == chunk_count(len)
<1>1. n \in Nat \ {0} /\ j \in Nat /\ n \in 1 .. n
  BY ChunkCount
<1>2. Offset(n) \in Nat /\ ChunkLen(n, len) \in Nat
  BY <1>1, ChunkSizes
<1>3. SplitLen(len) = Offset(n) + HeaderSize + ChunkLen(n, len)
  BY DEF SplitLen
<1>4. SplitLen(len) \in Nat
  BY <1>2, <1>3 DEF HeaderSize
<1>5. CASE j = n
  BY <1>2, <1>3, <1>4, <1>5 DEF HeaderSize
<1>6. CASE j # n
  <2>1. Offset(j + 1) = Offset(j) + HeaderSize + ChunkLen(j, len)
    BY <1>6, ChunkSizes
  <2>2. Offset(j + 1) <= Offset(n)
    <3> DEFINE w == HeaderSize + ChunkSize
               a == (j + 1) - 1
               b == n - 1
    <3>1. a \in Nat /\ b \in Nat /\ a <= b /\ w \in Nat
      BY <1>1, <1>6, ParserAssumption DEF HeaderSize
    <3>2. Offset(j + 1) = a * w /\ Offset(n) = b * w
      BY DEF Offset
    <3> HIDE DEF w, a, b
    <3> QED BY <3>1, <3>2, ProductGrows
  <2>3. Offset(n) <= SplitLen(len)
    BY <1>2, <1>3 DEF HeaderSize
  <2>4. Offset(j + 1) \in Nat
    <3>1. j + 1 \in 1 .. n
      BY <1>1, <1>6
    <3> QED BY <3>1, ChunkSizes
  <2> QED BY <1>2, <1>4, <2>1, <2>2, <2>3, <2>4
<1> QED BY <1>4, <1>5, <1>6

\* The units of the stream.
HeaderUnit(stream, last, len, valid) ==
  [unit |-> "header", stream |-> stream, last |-> last, len |-> len, valid |-> valid]
HeaderUnits ==
  [unit : {"header"}, stream : Streams \cup {0}, last : BOOLEAN, len : Nat, valid : BOOLEAN]
Unit ==
  HeaderUnits \cup [unit : {"header rest"}] \cup [unit : {"payload"}, id : Nat, place : Nat]

LEMMA HeaderLayout ==
  ASSUME NEW stream \in Streams \cup {0}, NEW last \in BOOLEAN, NEW len \in Nat,
         NEW valid \in BOOLEAN
  PROVE  /\ Header(stream, last, len, valid) \in Seq(Unit)
         /\ Len(Header(stream, last, len, valid)) = HeaderSize
         /\ Header(stream, last, len, valid)[1] = HeaderUnit(stream, last, len, valid)
         /\ HeaderUnit(stream, last, len, valid) \in HeaderUnits
<1> DEFINE a == HeaderUnit(stream, last, len, valid)
           b == [unit |-> "header rest"]
<1>1. a \in HeaderUnits
  BY DEF HeaderUnit, HeaderUnits
<1>2. b \in [unit : {"header rest"}]
  OBVIOUS
<1>3. a \in Unit /\ b \in Unit
  BY <1>1, <1>2 DEF Unit
<1>4. Header(stream, last, len, valid) = <<a, b>>
  BY Zenon DEF Header, HeaderUnit
<1> HIDE DEF a, b
<1>5. <<a, b>> \in Seq(Unit) /\ Len(<<a, b>>) = 2 /\ <<a, b>>[1] = a
  BY <1>3
<1> QED BY <1>1, <1>4, <1>5 DEF HeaderSize, a

LEMMA PayloadType ==
  ASSUME NEW id \in Nat, NEW len \in Nat
  PROVE  Payload(id, len) \in Seq(Unit) /\ Len(Payload(id, len)) = len
<1> DEFINE e(k) == [unit |-> "payload", id |-> id, place |-> k]
<1>1. \A k \in 1 .. len : e(k) \in Unit
  <2>1. \A k \in 1 .. len : e(k) \in [unit : {"payload"}, id : Nat, place : Nat]
    OBVIOUS
  <2> HIDE DEF e
  <2> QED BY <2>1 DEF Unit
<1>2. Payload(id, len) = [k \in 1 .. len |-> e(k)]
  BY DEF Payload
<1> HIDE DEF e
<1>3. [k \in 1 .. len |-> e(k)] \in Seq(Unit)
  BY <1>1, IsASeq
<1> QED BY <1>2, <1>3

\* The chunks of a message, from place b of T on.
Encoded(T, b, stream, payload) ==
  \A j \in 1 .. chunk_count(Len(payload)) :
    /\ T[b + Offset(j) + 1] =
         HeaderUnit(stream, j = chunk_count(Len(payload)),
                    ChunkLen(j, Len(payload)), TRUE)
    /\ \A x \in 1 .. ChunkLen(j, Len(payload)) :
         T[b + Offset(j) + HeaderSize + x] = payload[(j - 1) * ChunkSize + x]

\* One chunk, as split_into_chunks writes it.
ChunkOf(stream, payload, j) ==
  Header(stream, j = chunk_count(Len(payload)), ChunkLen(j, Len(payload)), TRUE)
    \o SubSeq(payload, (j - 1) * ChunkSize + 1, ChunkEnd(j, Len(payload)))

LEMMA ChunkLayout ==
  ASSUME NEW stream \in Streams \cup {0}, NEW payload \in Seq(Unit),
         NEW j \in 1 .. chunk_count(Len(payload))
  PROVE  LET s == ChunkOf(stream, payload, j)
             l == ChunkLen(j, Len(payload))
         IN  /\ s \in Seq(Unit) /\ Len(s) = HeaderSize + l
             /\ s[1] = HeaderUnit(stream, j = chunk_count(Len(payload)), l, TRUE)
             /\ \A x \in 1 .. l : s[HeaderSize + x] = payload[(j - 1) * ChunkSize + x]
<1> DEFINE len == Len(payload)
           l == ChunkLen(j, len)
           last == j = chunk_count(len)
           h == Header(stream, last, l, TRUE)
           o == (j - 1) * ChunkSize
           e == ChunkEnd(j, len)
           b == SubSeq(payload, o + 1, e)
           s == h \o b
<1>1. len \in Nat
  BY LenProperties
<1>2. l \in Nat /\ o \in Nat /\ e \in Nat /\ o + l = e /\ e <= len
  BY <1>1, ChunkSizes
<1>3. last \in BOOLEAN
  OBVIOUS
<1>4. ChunkOf(stream, payload, j) = s
  BY Zenon DEF ChunkOf
<1>5. h \in Seq(Unit) /\ Len(h) = 2 /\ h[1] = HeaderUnit(stream, last, l, TRUE)
  <2> HIDE DEF last, l
  <2> QED BY <1>2, <1>3, HeaderLayout DEF HeaderSize
<1>6. \A i \in o + 1 .. e : payload[i] \in Unit
  <2> HIDE DEF o, e
  <2>1. \A i \in o + 1 .. e : i \in 1 .. len
    BY <1>1, <1>2
  <2> QED BY <2>1, ElementOfSeq
<1> HIDE DEF o, e, l, last, h, len
<1>7. /\ b \in Seq(Unit) /\ Len(b) = l
      /\ \A x \in 1 .. l : b[x] = payload[o + x]
  <2>1. /\ b \in Seq(Unit) /\ Len(b) = IF o + 1 <= e THEN e - (o + 1) + 1 ELSE 0
        /\ \A x \in 1 .. e - (o + 1) + 1 : b[x] = payload[(o + 1) + x - 1]
    <3>1. o + 1 \in Int /\ e \in Int
      BY <1>2
    <3> QED BY <1>6, <3>1, SubSeqProperties
  <2> HIDE DEF b
  <2>2. e - (o + 1) + 1 = l
    BY <1>2
  <2>3. Len(b) = l
    BY <1>2, <2>1
  <2>4. \A x \in 1 .. l : (o + 1) + x - 1 = o + x
    BY <1>2
  <2> QED BY <2>1, <2>2, <2>3, <2>4
<1> HIDE DEF b
<1>8. /\ s \in Seq(Unit) /\ Len(s) = 2 + l
      /\ \A i \in 1 .. 2 + l : s[i] = IF i <= 2 THEN h[i] ELSE b[i - 2]
  <2>1. h \in Seq(Unit) /\ b \in Seq(Unit)
    BY <1>5, <1>7
  <2>2. /\ s \in Seq(Unit) /\ Len(s) = Len(h) + Len(b)
        /\ \A i \in 1 .. Len(h) + Len(b) : s[i] = IF i <= Len(h) THEN h[i] ELSE b[i - Len(h)]
    BY <2>1, ConcatProperties
  <2> HIDE DEF s
  <2>3. Len(h) = 2 /\ Len(b) = l
    BY <1>5, <1>7
  <2> QED BY <2>2, <2>3
<1> HIDE DEF s
<1>9. s[1] = h[1]
  <2>1. 1 \in 1 .. 2 + l
    BY <1>2
  <2> QED BY <1>8, <2>1
<1>10. ASSUME NEW x \in 1 .. l
       PROVE  s[2 + x] = payload[o + x]
  <2>1. 2 + x \in 1 .. 2 + l /\ ~(2 + x <= 2) /\ (2 + x) - 2 = x
    BY <1>2
  <2> QED BY <1>7, <1>8, <2>1
<1> QED BY <1>4, <1>5, <1>8, <1>9, <1>10 DEF HeaderSize, l, o, last, len

\* What split_into_chunks returns.
LEMMA SplitLayout ==
  ASSUME NEW stream \in Streams \cup {0}, NEW payload \in Seq(Unit)
  PROVE  LET s == split_into_chunks(stream, payload)
         IN  /\ s \in Seq(Unit) /\ Len(s) = SplitLen(Len(payload))
             /\ Encoded(s, 0, stream, payload)
<1> DEFINE len == Len(payload)
           n == chunk_count(len)
           e(j) == ChunkOf(stream, payload, j)
           cs == [j \in 1 .. n |-> e(j)]
           st == [j \in 1 .. n + 1 |-> IF j = n + 1 THEN SplitLen(len) ELSE Offset(j)]
           s == FlattenSeq(cs)
<1>1. len \in Nat /\ n \in Nat \ {0} /\ n \in 1 .. n
  <2>1. len \in Nat
    BY LenProperties
  <2>2. n \in Nat \ {0}
    BY <2>1, ChunkCount
  <2> HIDE DEF n
  <2> QED BY <2>1, <2>2
<1>2. split_into_chunks(stream, payload) = s
  BY DEF split_into_chunks, ChunkOf, ChunkLen
<1>3. ASSUME NEW j \in 1 .. n
      PROVE  /\ e(j) \in Seq(Unit) /\ Len(e(j)) = HeaderSize + ChunkLen(j, len)
             /\ e(j)[1] = HeaderUnit(stream, j = n, ChunkLen(j, len), TRUE)
             /\ \A x \in 1 .. ChunkLen(j, len) :
                  e(j)[HeaderSize + x] = payload[(j - 1) * ChunkSize + x]
  BY <1>3, ChunkLayout
<1>4. ASSUME NEW j \in 1 .. n
      PROVE  /\ Offset(j) \in Nat /\ ChunkLen(j, len) \in Nat
             /\ j # n => Offset(j + 1) = Offset(j) + HeaderSize + ChunkLen(j, len)
  BY <1>1, ChunkSizes
<1>5. SplitLen(len) \in Nat /\ SplitLen(len) = Offset(n) + HeaderSize + ChunkLen(n, len)
  BY <1>1, ChunkInside DEF SplitLen
<1>6. Offset(1) = 0
  BY <1>1, ChunkSizes
<1> HIDE DEF n, e, len
<1>7. cs \in Seq(Seq(Unit)) /\ Len(cs) = n /\ \A j \in 1 .. n : cs[j] = e(j)
  <2>1. \A j \in 1 .. n : e(j) \in Seq(Unit)
    BY <1>3
  <2>2. cs \in Seq(Seq(Unit))
    BY <1>1, <2>1, IsASeq
  <2>3. Len(cs) = n
    BY <1>1
  <2> QED BY <2>2, <2>3
<1>8. ASSUME NEW j \in 1 .. n
      PROVE  st[j] = Offset(j)
  BY <1>1
<1>9. st[n + 1] = SplitLen(len)
  BY <1>1
<1>10. st \in [1 .. n + 1 -> Nat]
  <2>1. ASSUME NEW j \in 1 .. n + 1
        PROVE  (IF j = n + 1 THEN SplitLen(len) ELSE Offset(j)) \in Nat
    <3>1. j # n + 1 => j \in 1 .. n
      BY <1>1
    <3> QED BY <1>4, <1>5, <3>1
  <2> QED BY <2>1
<1> HIDE DEF cs, st
<1>11. AddsUp(st, cs, n)
  <2>1. st[1] = 0
    <3>1. 1 \in 1 .. n
      BY <1>1
    <3> QED BY <1>6, <1>8, <3>1
  <2>2. ASSUME NEW j \in 1 .. n
        PROVE  st[j + 1] = st[j] + Len(cs[j])
    <3>1. /\ st[j] = Offset(j) /\ Len(cs[j]) = HeaderSize + ChunkLen(j, len)
          /\ Offset(j) \in Nat /\ ChunkLen(j, len) \in Nat
      BY <1>3, <1>4, <1>7, <1>8
    <3>2. CASE j = n
      BY <1>5, <1>9, <3>1, <3>2 DEF HeaderSize
    <3>3. CASE j # n
      <4>1. j + 1 \in 1 .. n
        BY <1>1, <3>3
      <4>2. st[j + 1] = Offset(j + 1)
        BY <1>8, <4>1
      <4>3. Offset(j + 1) = Offset(j) + HeaderSize + ChunkLen(j, len)
        BY <1>4, <3>3
      <4> QED BY <3>1, <4>2, <4>3 DEF HeaderSize
    <3> QED BY <3>2, <3>3
  <2> QED BY <1>10, <2>1, <2>2 DEF AddsUp
<1>12. Flat(s, Unit, st, cs, n)
  BY <1>1, <1>7, <1>11, FlattenLayout
<1> HIDE DEF s
<1>13. s \in Seq(Unit) /\ Len(s) = SplitLen(len)
  BY <1>9, <1>12 DEF Flat
<1>14. ASSUME NEW j \in 1 .. n
       PROVE  /\ s[0 + Offset(j) + 1] = HeaderUnit(stream, j = n, ChunkLen(j, len), TRUE)
              /\ \A x \in 1 .. ChunkLen(j, len) :
                   s[0 + Offset(j) + HeaderSize + x] = payload[(j - 1) * ChunkSize + x]
  <2>1. \A x \in 1 .. HeaderSize + ChunkLen(j, len) : s[Offset(j) + x] = e(j)[x]
    <3>1. \A x \in 1 .. Len(cs[j]) : s[st[j] + x] = cs[j][x]
      BY <1>12 DEF Flat
    <3> QED BY <1>3, <1>7, <1>8, <3>1
  <2>2. Offset(j) \in Nat /\ ChunkLen(j, len) \in Nat
    BY <1>4
  <2>3. 1 \in 1 .. HeaderSize + ChunkLen(j, len) /\ 0 + Offset(j) + 1 = Offset(j) + 1
    BY <2>2 DEF HeaderSize
  <2>4. s[0 + Offset(j) + 1] = e(j)[1]
    BY <2>1, <2>3
  <2>5. ASSUME NEW x \in 1 .. ChunkLen(j, len)
        PROVE  s[0 + Offset(j) + HeaderSize + x] = e(j)[HeaderSize + x]
    <3>1. /\ HeaderSize + x \in 1 .. HeaderSize + ChunkLen(j, len)
          /\ 0 + Offset(j) + HeaderSize + x = Offset(j) + (HeaderSize + x)
      BY <2>2 DEF HeaderSize
    <3> QED BY <2>1, <3>1
  <2> QED BY <1>3, <2>4, <2>5
<1>15. Encoded(s, 0, stream, payload)
  BY <1>14 DEF Encoded, n, len
<1> QED BY <1>2, <1>13, <1>15 DEF len

-----------------------------------------------------------------------------
(* The inductive invariant *)

Message == [stream : Streams \cup {0}, payload : Seq(Unit)]

\* The length of a message on the wire.
SizeOf(m) == SplitLen(Len(m.payload))

\* Message m is in T from place b on: written by Send, or by Corrupt.
GoodAt(T, b, m) == m.stream \in Streams /\ Encoded(T, b, m.stream, m.payload)
BadAt(T, b, m) ==
  /\ Len(m.payload) = 0
  /\ T[b + 1] \in HeaderUnits
  /\ (~T[b + 1].valid /\ T[b + 1].len = 0) \/ T[b + 1].len > MaxPayload
EntryAt(T, b, m) == GoodAt(T, b, m) \/ BadAt(T, b, m)

\* T is everything written so far, and st says where each message of sq starts.
Written(T, st, sq) ==
  /\ T \in Seq(Unit)
  /\ st \in [1 .. Len(sq) + 1 -> Nat]
  /\ st[Len(sq) + 1] = Len(T)
  /\ \A k \in 1 .. Len(sq) :
       /\ st[k + 1] = st[k] + SizeOf(sq[k])
       /\ st[k + 1] <= Len(T)
       /\ EntryAt(T, st[k], sq[k])

\* b and then w are what T holds behind place p.
Behind(T, p, b, w) ==
  /\ p \in Nat
  /\ p + Len(b) + Len(w) = Len(T)
  /\ \A x \in 1 .. Len(b) : b[x] = T[p + x]
  /\ \A x \in 1 .. Len(w) : w[x] = T[p + Len(b) + x]

\* The first i - 1 chunks of message d + 1 are in the map c, and nothing else.
Partial(c, sq, d, i) ==
  /\ i \in Nat \ {0}
  /\ d = Len(sq) => i = 1
  /\ d # Len(sq) => i <= chunk_count(Len(sq[d + 1].payload))
  /\ i = 1 => c = <<>>
  /\ i # 1 => c = [s \in {sq[d + 1].stream} |->
                     SubSeq(sq[d + 1].payload, 1, (i - 1) * ChunkSize)]

Parsed == Len(delivered) + Len(out)

HandedInv ==
  /\ sent \in Seq(Message) /\ delivered \in Seq(Message) /\ out \in Seq(Message)
  /\ Parsed <= Len(sent)
  /\ \A k \in 1 .. Len(delivered) : delivered[k] = sent[k]
  /\ \A k \in 1 .. Len(out) : out[k] = sent[Len(delivered) + k]

StreamInv == buf \in Seq(Unit) /\ wire \in Seq(Unit)

PositionInv ==
  parserPc # "broken" =>
    \E T, st, i : /\ Written(T, st, sent)
                  /\ Partial(chunks, sent, Parsed, i)
                  /\ Behind(T, st[Parsed + 1] + Offset(i), buf, wire)

\* The parser waits for bytes only when it has no frame left.
WaitInv == parserPc = "read" => out = <<>> /\ ~TooLarge /\ ~HasFrame

ParserInv == TypeOK /\ HandedInv /\ StreamInv /\ PositionInv /\ WaitInv

-----------------------------------------------------------------------------
(* Writing *)

LEMMA MessageParts ==
  ASSUME NEW m \in Message
  PROVE  /\ m.payload \in Seq(Unit) /\ Len(m.payload) \in Nat
         /\ SizeOf(m) \in Nat /\ HeaderSize <= SizeOf(m)
         /\ chunk_count(Len(m.payload)) \in Nat \ {0}
<1>1. m.payload \in Seq(Unit)
  BY DEF Message
<1>2. Len(m.payload) \in Nat
  BY <1>1, LenProperties
<1> DEFINE len == Len(m.payload)
           n == chunk_count(len)
<1>3. n \in Nat \ {0} /\ n \in 1 .. n
  <2>1. n \in Nat \ {0}
    BY <1>2, ChunkCount
  <2> HIDE DEF n
  <2> QED BY <2>1
<1>4. SplitLen(len) \in Nat /\ Offset(n) + HeaderSize + ChunkLen(n, len) <= SplitLen(len)
  BY <1>2, <1>3, ChunkInside
<1>5. Offset(n) \in Nat /\ ChunkLen(n, len) \in Nat
  BY <1>2, <1>3, ChunkSizes
<1>6. HeaderSize <= SplitLen(len)
  <2> HIDE DEF n, len
  <2> QED BY <1>4, <1>5 DEF HeaderSize
<1> QED BY <1>1, <1>2, <1>3, <1>4, <1>6 DEF SizeOf

\* Whether m is at a place depends on the units from there on only.
LEMMA EntryMoves ==
  ASSUME NEW m \in Message, NEW T, NEW b \in Nat, NEW T2, NEW b2 \in Nat,
         EntryAt(T, b, m), \A x \in 1 .. SizeOf(m) : T2[b2 + x] = T[b + x]
  PROVE  EntryAt(T2, b2, m)
<1> DEFINE P == m.payload
           len == Len(P)
           n == chunk_count(len)
<1>1. SizeOf(m) \in Nat /\ 2 <= SizeOf(m) /\ len \in Nat
  BY MessageParts DEF HeaderSize
<1>2. CASE GoodAt(T, b, m)
  <2>1. ASSUME NEW j \in 1 .. n
        PROVE  /\ T2[b2 + Offset(j) + 1] = T[b + Offset(j) + 1]
               /\ \A x \in 1 .. ChunkLen(j, len) :
                    T2[b2 + Offset(j) + HeaderSize + x] = T[b + Offset(j) + HeaderSize + x]
    <3>1. Offset(j) \in Nat /\ ChunkLen(j, len) \in Nat
      BY <1>1, ChunkSizes
    <3>2. Offset(j) + 2 + ChunkLen(j, len) <= SizeOf(m)
      BY <1>1, ChunkInside DEF SizeOf, HeaderSize
    <3> HIDE DEF len
    <3>3. /\ Offset(j) + 1 \in 1 .. SizeOf(m)
          /\ b2 + Offset(j) + 1 = b2 + (Offset(j) + 1)
          /\ b + Offset(j) + 1 = b + (Offset(j) + 1)
      BY <1>1, <3>1, <3>2
    <3>4. ASSUME NEW x \in 1 .. ChunkLen(j, len)
          PROVE  T2[b2 + Offset(j) + HeaderSize + x] = T[b + Offset(j) + HeaderSize + x]
      <4>1. /\ Offset(j) + 2 + x \in 1 .. SizeOf(m)
            /\ b2 + Offset(j) + 2 + x = b2 + (Offset(j) + 2 + x)
            /\ b + Offset(j) + 2 + x = b + (Offset(j) + 2 + x)
        BY <1>1, <3>1, <3>2
      <4> QED BY <4>1 DEF HeaderSize
    <3> QED BY <3>3, <3>4
  <2>2. Encoded(T2, b2, m.stream, P)
    BY <1>2, <2>1 DEF Encoded, GoodAt
  <2> QED BY <1>2, <2>2 DEF EntryAt, GoodAt
<1>3. CASE BadAt(T, b, m)
  <2>1. 1 \in 1 .. SizeOf(m)
    BY <1>1
  <2>2. T2[b2 + 1] = T[b + 1]
    BY <2>1
  <2> QED BY <1>3, <2>2 DEF EntryAt, BadAt
<1> QED BY <1>2, <1>3 DEF EntryAt

\* A message more on the stream.
LEMMA WriteMore ==
  ASSUME NEW sq \in Seq(Message), NEW m \in Message, NEW T, NEW st, Written(T, st, sq),
         NEW S \in Seq(Unit), Len(S) = SizeOf(m), EntryAt(S, 0, m)
  PROVE  \E st2 : /\ Written(T \o S, st2, Append(sq, m))
                  /\ \A k \in 1 .. Len(sq) + 1 : st2[k] = st[k]
<1> DEFINE N == Len(sq)
           T2 == T \o S
           sq2 == Append(sq, m)
           L2 == Len(T2)
           st2 == [k \in 1 .. N + 2 |-> IF k = N + 2 THEN L2 ELSE st[k]]
<1>1. T \in Seq(Unit) /\ S \in Seq(Unit)
  BY DEF Written
<1>2. /\ Len(T) \in Nat /\ Len(S) \in Nat /\ T2 \in Seq(Unit) /\ L2 = Len(T) + Len(S)
      /\ \A x \in 1 .. Len(T) + Len(S) : T2[x] = IF x <= Len(T) THEN T[x] ELSE S[x - Len(T)]
  BY <1>1, ConcatProperties, LenProperties
<1>3. /\ N \in Nat /\ Len(sq2) = N + 1 /\ sq2[N + 1] = m
      /\ \A k \in 1 .. N : sq2[k] = sq[k]
  BY AppendProperties, LenProperties
<1>4. ASSUME NEW k \in 1 .. N + 1
      PROVE  st[k] \in Nat
  BY DEF Written
<1>5. st[N + 1] = Len(T)
  BY DEF Written
<1>6. \A k \in 1 .. N : sq[k] \in Message
  BY ElementOfSeq
<1> HIDE DEF T2, sq2, N, L2
<1>7. ASSUME NEW k \in 1 .. N + 1
      PROVE  st2[k] = st[k]
  <2>1. k \in 1 .. N + 2 /\ k # N + 2
    BY <1>3
  <2> QED BY <2>1
<1>8. st2[N + 2] = L2
  BY <1>3
<1>9. st2 \in [1 .. N + 2 -> Nat]
  <2>1. ASSUME NEW k \in 1 .. N + 2
        PROVE  (IF k = N + 2 THEN L2 ELSE st[k]) \in Nat
    <3>1. k # N + 2 => k \in 1 .. N + 1
      BY <1>3
    <3> QED BY <1>2, <1>4, <3>1
  <2> QED BY <2>1
<1> HIDE DEF st2
<1>10. ASSUME NEW k \in 1 .. N
       PROVE  /\ st2[k + 1] = st2[k] + SizeOf(sq2[k])
              /\ st2[k + 1] <= L2
              /\ EntryAt(T2, st2[k], sq2[k])
  <2>1. /\ st[k + 1] = st[k] + SizeOf(sq[k]) /\ st[k + 1] <= Len(T)
        /\ EntryAt(T, st[k], sq[k])
    BY DEF Written, N
  <2>2. k \in 1 .. N + 1 /\ k + 1 \in 1 .. N + 1
    BY <1>3
  <2>3. st2[k] = st[k] /\ st2[k + 1] = st[k + 1] /\ sq2[k] = sq[k] /\ sq[k] \in Message
    BY <1>3, <1>6, <1>7, <2>2
  <2>4. st[k] \in Nat /\ st[k + 1] \in Nat /\ SizeOf(sq[k]) \in Nat
    BY <1>4, <2>2, <2>3, MessageParts
  <2>5. ASSUME NEW x \in 1 .. SizeOf(sq[k])
        PROVE  T2[st[k] + x] = T[st[k] + x]
    <3>1. st[k] + x \in 1 .. Len(T) + Len(S) /\ st[k] + x <= Len(T)
      <4>1. x \in Nat /\ 1 <= x /\ x <= SizeOf(sq[k])
        BY <2>4
      <4>2. Len(T) \in Nat /\ Len(S) \in Nat
        BY <1>2
      <4> QED BY <2>1, <2>4, <4>1, <4>2
    <3> QED BY <1>2, <3>1
  <2>6. EntryAt(T2, st[k], sq[k])
    BY <2>1, <2>3, <2>4, <2>5, EntryMoves
  <2>7. st[k + 1] <= L2
    BY <1>2, <2>1, <2>4
  <2> QED BY <2>1, <2>3, <2>6, <2>7
<1>11. /\ st2[(N + 1) + 1] = st2[N + 1] + SizeOf(sq2[N + 1])
       /\ st2[(N + 1) + 1] <= L2
       /\ EntryAt(T2, st2[N + 1], sq2[N + 1])
  <2>1. N + 1 \in 1 .. N + 1 /\ (N + 1) + 1 = N + 2
    BY <1>3
  <2>2. st2[N + 1] = Len(T) /\ st2[(N + 1) + 1] = L2
    BY <1>5, <1>7, <1>8, <2>1
  <2>3. ASSUME NEW x \in 1 .. SizeOf(m)
        PROVE  T2[Len(T) + x] = S[0 + x]
    <3>1. /\ Len(T) + x \in 1 .. Len(T) + Len(S) /\ ~(Len(T) + x <= Len(T))
          /\ (Len(T) + x) - Len(T) = 0 + x
      BY <1>2
    <3> QED BY <1>2, <3>1
  <2>4. EntryAt(T2, Len(T), m)
    BY <1>2, <2>3, EntryMoves
  <2> QED BY <1>2, <1>3, <2>2, <2>4
<1>12. Written(T2, st2, sq2)
  <2>1. ASSUME NEW k \in 1 .. Len(sq2)
        PROVE  /\ st2[k + 1] = st2[k] + SizeOf(sq2[k])
               /\ st2[k + 1] <= L2
               /\ EntryAt(T2, st2[k], sq2[k])
    <3>1. k \in 1 .. N \/ k = N + 1
      BY <1>3
    <3> QED BY <1>10, <1>11, <3>1
  <2>2. Len(sq2) + 1 = N + 2
    BY <1>3
  <2> QED BY <1>2, <1>8, <1>9, <2>1, <2>2 DEF Written, L2
<1> QED BY <1>7, <1>12 DEF T2, sq2, N

-----------------------------------------------------------------------------
(* Moving along the stream *)

LEMMA BehindWrite ==
  ASSUME NEW T \in Seq(Unit), NEW p, NEW b \in Seq(Unit), NEW w \in Seq(Unit),
         NEW S \in Seq(Unit), Behind(T, p, b, w)
  PROVE  Behind(T \o S, p, b, w \o S)
<1> DEFINE T2 == T \o S
           w2 == w \o S
           lt == Len(T)
           lb == Len(b)
           lw == Len(w)
           ls == Len(S)
<1>1. lt \in Nat /\ lb \in Nat /\ lw \in Nat /\ ls \in Nat
  BY LenProperties
<1>2. /\ Len(T2) = lt + ls
      /\ \A x \in 1 .. lt + ls : T2[x] = IF x <= lt THEN T[x] ELSE S[x - lt]
  BY ConcatProperties
<1>3. /\ Len(w2) = lw + ls
      /\ \A x \in 1 .. lw + ls : w2[x] = IF x <= lw THEN w[x] ELSE S[x - lw]
  BY ConcatProperties
<1>4. /\ p \in Nat /\ p + lb + lw = lt
      /\ \A x \in 1 .. lb : b[x] = T[p + x]
      /\ \A x \in 1 .. lw : w[x] = T[p + lb + x]
  BY DEF Behind
<1> HIDE DEF T2, w2, lt, lb, lw, ls
<1>5. p + lb + (lw + ls) = lt + ls
  BY <1>1, <1>4
<1>6. ASSUME NEW x \in 1 .. lb
      PROVE  b[x] = T2[p + x]
  <2>1. p + x \in 1 .. lt + ls /\ p + x <= lt
    BY <1>1, <1>4
  <2> QED BY <1>2, <1>4, <2>1
<1>7. ASSUME NEW x \in 1 .. lw + ls
      PROVE  w2[x] = T2[p + lb + x]
  <2>1. p + lb + x \in 1 .. lt + ls
    BY <1>1, <1>4
  <2>2. CASE x <= lw
    <3>1. x \in 1 .. lw /\ p + lb + x <= lt
      BY <1>1, <1>4, <2>2
    <3> QED BY <1>2, <1>3, <1>4, <2>1, <2>2, <3>1
  <2>3. CASE ~(x <= lw)
    <3>1. ~(p + lb + x <= lt) /\ (p + lb + x) - lt = x - lw
      BY <1>1, <1>4, <2>3
    <3> QED BY <1>2, <1>3, <2>1, <2>3, <3>1
  <2> QED BY <2>2, <2>3
<1>8. Behind(T2, p, b, w2)
  BY <1>2, <1>3, <1>4, <1>5, <1>6, <1>7 DEF Behind, lb
<1> QED BY <1>8 DEF T2, w2

LEMMA BehindRead ==
  ASSUME NEW T \in Seq(Unit), NEW p, NEW b \in Seq(Unit), NEW w \in Seq(Unit),
         NEW n \in Nat, n <= Len(w), Behind(T, p, b, w)
  PROVE  LET b2 == b \o SubSeq(w, 1, n)
             w2 == SubSeq(w, n + 1, Len(w))
         IN  b2 \in Seq(Unit) /\ w2 \in Seq(Unit) /\ Behind(T, p, b2, w2)
<1> DEFINE r == SubSeq(w, 1, n)
           lb == Len(b)
           lw == Len(w)
           b2 == b \o r
           w2 == SubSeq(w, n + 1, lw)
<1>1. lb \in Nat /\ lw \in Nat /\ Len(T) \in Nat /\ n <= lw
  BY LenProperties
<1>2. \A x \in 1 .. lw : w[x] \in Unit
  BY ElementOfSeq
<1>3. /\ p \in Nat /\ p + lb + lw = Len(T)
      /\ \A x \in 1 .. lb : b[x] = T[p + x]
      /\ \A x \in 1 .. lw : w[x] = T[p + lb + x]
  BY DEF Behind
<1> HIDE DEF lb, lw
<1>4. r \in Seq(Unit) /\ Len(r) = n /\ \A x \in 1 .. n : r[x] = w[x]
  <2>1. \A x \in 1 .. n : w[x] \in Unit
    <3>1. \A x \in 1 .. n : x \in 1 .. lw
      BY <1>1
    <3> QED BY <1>2, <3>1
  <2>2. /\ r \in Seq(Unit) /\ Len(r) = IF 1 <= n THEN n - 1 + 1 ELSE 0
        /\ \A x \in 1 .. n - 1 + 1 : r[x] = w[1 + x - 1]
    BY <2>1, SubSeqProperties
  <2> HIDE DEF r
  <2>3. n - 1 + 1 = n /\ \A x \in 1 .. n : 1 + x - 1 = x
    OBVIOUS
  <2>4. Len(r) = n
    BY <2>2
  <2> QED BY <2>2, <2>3, <2>4
<1>5. /\ w2 \in Seq(Unit) /\ Len(w2) = lw - n
      /\ \A x \in 1 .. lw - n : w2[x] = w[n + x]
  <2>1. \A x \in n + 1 .. lw : w[x] \in Unit
    <3>1. \A x \in n + 1 .. lw : x \in 1 .. lw
      BY <1>1
    <3> QED BY <1>2, <3>1
  <2>2. n + 1 \in Int /\ lw \in Int
    BY <1>1
  <2>3. /\ w2 \in Seq(Unit) /\ Len(w2) = IF n + 1 <= lw THEN lw - (n + 1) + 1 ELSE 0
        /\ \A x \in 1 .. lw - (n + 1) + 1 : w2[x] = w[(n + 1) + x - 1]
    BY <2>1, <2>2, SubSeqProperties
  <2> HIDE DEF w2
  <2>4. lw - (n + 1) + 1 = lw - n /\ \A x \in 1 .. lw - n : (n + 1) + x - 1 = n + x
    BY <1>1
  <2>5. Len(w2) = lw - n
    BY <1>1, <2>3
  <2> QED BY <2>3, <2>4, <2>5
<1> HIDE DEF r, w2
<1>6. /\ b2 \in Seq(Unit) /\ Len(b2) = lb + n
      /\ \A x \in 1 .. lb + n : b2[x] = IF x <= lb THEN b[x] ELSE r[x - lb]
  <2>1. b \in Seq(Unit) /\ r \in Seq(Unit)
    BY <1>4
  <2>2. /\ b2 \in Seq(Unit) /\ Len(b2) = Len(b) + Len(r)
        /\ \A x \in 1 .. Len(b) + Len(r) : b2[x] = IF x <= Len(b) THEN b[x] ELSE r[x - Len(b)]
    BY <2>1, ConcatProperties
  <2> HIDE DEF b2
  <2> QED BY <1>4, <2>2 DEF lb
<1> HIDE DEF b2
<1>7. p + (lb + n) + (lw - n) = Len(T)
  <2>1. p \in Nat /\ p + lb + lw = Len(T)
    BY <1>3
  <2>2. lb \in Nat /\ lw \in Nat
    BY <1>1
  <2> QED BY <2>1, <2>2
<1>8. ASSUME NEW x \in 1 .. lb + n
      PROVE  b2[x] = T[p + x]
  <2>1. CASE x <= lb
    <3>1. x \in 1 .. lb
      BY <1>1, <2>1
    <3> QED BY <1>3, <1>6, <2>1, <3>1
  <2>2. CASE ~(x <= lb)
    <3>1. x - lb \in 1 .. n /\ x - lb \in 1 .. lw /\ p + lb + (x - lb) = p + x
      BY <1>1, <1>3, <2>2
    <3> QED BY <1>3, <1>4, <1>6, <2>2, <3>1
  <2> QED BY <2>1, <2>2
<1>9. ASSUME NEW x \in 1 .. lw - n
      PROVE  w2[x] = T[p + (lb + n) + x]
  <2>1. n + x \in 1 .. lw /\ p + lb + (n + x) = p + (lb + n) + x
    BY <1>1, <1>3
  <2> QED BY <1>3, <1>5, <2>1
<1>10. Behind(T, p, b2, w2)
  <2>1. Len(b2) = lb + n /\ Len(w2) = lw - n
    BY <1>5, <1>6
  <2> QED BY <1>3, <1>7, <1>8, <1>9, <2>1 DEF Behind
<1> QED BY <1>5, <1>6, <1>10 DEF b2, w2, r, lw

LEMMA BehindTake ==
  ASSUME NEW T \in Seq(Unit), NEW p, NEW b \in Seq(Unit), NEW w \in Seq(Unit),
         NEW f \in Nat, f <= Len(b), Behind(T, p, b, w)
  PROVE  LET b2 == SubSeq(b, f + 1, Len(b))
         IN  b2 \in Seq(Unit) /\ Len(b2) = Len(b) - f /\ Behind(T, p + f, b2, w)
<1> DEFINE lb == Len(b)
           lw == Len(w)
           b2 == SubSeq(b, f + 1, lb)
<1>1. lb \in Nat /\ lw \in Nat /\ Len(T) \in Nat /\ f <= lb
  BY LenProperties
<1>2. \A x \in 1 .. lb : b[x] \in Unit
  BY ElementOfSeq
<1>3. /\ p \in Nat /\ p + lb + lw = Len(T)
      /\ \A x \in 1 .. lb : b[x] = T[p + x]
      /\ \A x \in 1 .. lw : w[x] = T[p + lb + x]
  BY DEF Behind
<1> HIDE DEF lb, lw
<1>5. /\ b2 \in Seq(Unit) /\ Len(b2) = lb - f
      /\ \A x \in 1 .. lb - f : b2[x] = b[f + x]
  <2>1. \A x \in f + 1 .. lb : b[x] \in Unit
    <3>1. \A x \in f + 1 .. lb : x \in 1 .. lb
      BY <1>1
    <3> QED BY <1>2, <3>1
  <2>2. f + 1 \in Int /\ lb \in Int
    BY <1>1
  <2>3. /\ b2 \in Seq(Unit) /\ Len(b2) = IF f + 1 <= lb THEN lb - (f + 1) + 1 ELSE 0
        /\ \A x \in 1 .. lb - (f + 1) + 1 : b2[x] = b[(f + 1) + x - 1]
    BY <2>1, <2>2, SubSeqProperties
  <2> HIDE DEF b2
  <2>4. lb - (f + 1) + 1 = lb - f /\ \A x \in 1 .. lb - f : (f + 1) + x - 1 = f + x
    BY <1>1
  <2>5. Len(b2) = lb - f
    BY <1>1, <2>3
  <2> QED BY <2>3, <2>4, <2>5
<1> HIDE DEF b2
<1>6. p + f \in Nat /\ (p + f) + (lb - f) + lw = Len(T)
  <2>1. p \in Nat /\ p + lb + lw = Len(T)
    BY <1>3
  <2>2. lb \in Nat /\ lw \in Nat
    BY <1>1
  <2> QED BY <2>1, <2>2
<1>7. ASSUME NEW x \in 1 .. lb - f
      PROVE  b2[x] = T[(p + f) + x]
  <2>1. f + x \in 1 .. lb /\ p + (f + x) = (p + f) + x
    BY <1>1, <1>3
  <2> QED BY <1>3, <1>5, <2>1
<1>8. ASSUME NEW x \in 1 .. lw
      PROVE  w[x] = T[(p + f) + (lb - f) + x]
  <2>1. (p + f) + (lb - f) + x = p + lb + x
    BY <1>1, <1>3
  <2> QED BY <1>3, <2>1
<1>9. Behind(T, p + f, b2, w)
  BY <1>5, <1>6, <1>7, <1>8 DEF Behind, lw
<1> QED BY <1>5, <1>9 DEF b2, lb

\* At place p of T is chunk i of message m, or the header Corrupt wrote.
FrameAt(T, p, m, i) ==
  LET n == chunk_count(Len(m.payload))
      l == ChunkLen(i, Len(m.payload))
  IN  /\ m \in Message /\ p \in Nat /\ l \in Nat /\ l <= MaxPayload
      /\ Len(T) \in Nat /\ p + HeaderSize + l <= Len(T)
      /\ T[p + 1] \in HeaderUnits
      /\ \/ /\ m.stream \in Streams
            /\ T[p + 1] = HeaderUnit(m.stream, i = n, l, TRUE)
            /\ \A x \in 1 .. l :
                 T[p + HeaderSize + x] = m.payload[(i - 1) * ChunkSize + x]
         \/ /\ i = 1
            /\ (~T[p + 1].valid /\ T[p + 1].len = 0) \/ T[p + 1].len > MaxPayload

\* What comes behind chunk i - 1 of message d + 1.
LEMMA NextFrame ==
  ASSUME NEW sq \in Seq(Message), NEW T, NEW st, Written(T, st, sq),
         NEW d \in Nat, d < Len(sq), NEW i \in Nat \ {0},
         i <= chunk_count(Len(sq[d + 1].payload))
  PROVE  FrameAt(T, st[d + 1] + Offset(i), sq[d + 1], i)
<1> DEFINE k == d + 1
           m == sq[k]
           len == Len(m.payload)
           n == chunk_count(len)
           l == ChunkLen(i, len)
           s == st[k]
           p == s + Offset(i)
<1>1. Len(sq) \in Nat /\ k \in 1 .. Len(sq) /\ k \in 1 .. Len(sq) + 1 /\ k + 1 \in 1 .. Len(sq) + 1
  <2>1. Len(sq) \in Nat
    BY LenProperties
  <2> QED BY <2>1
<1>2. m \in Message
  BY <1>1, ElementOfSeq
<1>3. len \in Nat /\ n \in Nat \ {0} /\ SizeOf(m) \in Nat /\ SizeOf(m) = SplitLen(len)
  <2> HIDE DEF k
  <2> QED BY <1>2, MessageParts DEF SizeOf
<1>4. i \in 1 .. n
  <2> HIDE DEF n
  <2>1. i <= n
    BY DEF n
  <2> QED BY <1>3, <2>1
<1>5. /\ s \in Nat /\ st[k + 1] \in Nat /\ T \in Seq(Unit)
      /\ st[k + 1] = s + SizeOf(m) /\ st[k + 1] <= Len(T)
      /\ EntryAt(T, s, m)
  <2> HIDE DEF k
  <2> QED BY <1>1 DEF Written
<1>6. Len(T) \in Nat
  BY <1>5, LenProperties
<1>7. l \in Nat /\ Offset(i) \in Nat /\ Offset(1) = 0
  <2> HIDE DEF len
  <2> QED BY <1>3, <1>4, ChunkSizes
<1>8. Offset(i) + HeaderSize + l <= SplitLen(len)
  <2> HIDE DEF len
  <2> QED BY <1>3, <1>4, ChunkInside
<1>9. l <= MaxPayload
  <2>1. ChunkEnd(i, len) <= (i - 1) * ChunkSize + ChunkSize /\ (i - 1) * ChunkSize \in Nat
    <3> HIDE DEF len
    <3>1. i - 1 \in Nat /\ ChunkSize \in Nat /\ i = (i - 1) + 1
      BY ParserAssumption
    <3>2. (i - 1) * ChunkSize \in Nat /\ i * ChunkSize = (i - 1) * ChunkSize + ChunkSize
      BY <3>1, Product
    <3> DEFINE q == i * ChunkSize
    <3>3. ChunkEnd(i, len) = IF q < len THEN q ELSE len
      BY DEF ChunkEnd
    <3>4. q \in Nat /\ q = (i - 1) * ChunkSize + ChunkSize
      BY <3>1, <3>2
    <3> HIDE DEF q
    <3>5. ChunkEnd(i, len) <= q
      BY <1>3, <3>3, <3>4
    <3> QED BY <3>2, <3>4, <3>5
  <2> DEFINE o == (i - 1) * ChunkSize
             e == ChunkEnd(i, len)
  <2>2. e \in Nat /\ l = e - o
    <3>1. e \in Nat
      <4> HIDE DEF len
      <4> QED BY <1>3, <1>4, ChunkSizes
    <3> QED BY <3>1 DEF ChunkLen
  <2>3. ChunkSize \in Nat /\ MaxPayload \in Nat /\ ChunkSize <= MaxPayload
    BY ParserAssumption
  <2>4. e <= o + ChunkSize /\ o \in Nat
    BY <2>1
  <2> HIDE DEF o, e, l
  <2> QED BY <2>2, <2>3, <2>4
<1> HIDE DEF s, l, n, len, m, k
<1>10. p \in Nat /\ p + HeaderSize + l <= Len(T)
  <2> DEFINE o == Offset(i)
             z == SplitLen(len)
  <2>1. o \in Nat /\ z \in Nat /\ o + 2 + l <= z
    BY <1>3, <1>7, <1>8 DEF HeaderSize
  <2>2. s \in Nat /\ s + z <= Len(T)
    BY <1>3, <1>5
  <2> HIDE DEF o, z
  <2>3. s + o \in Nat /\ (s + o) + 2 + l <= Len(T)
    BY <1>6, <1>7, <2>1, <2>2
  <2> QED BY <2>3 DEF o, HeaderSize
<1>11. CASE GoodAt(T, s, m)
  <2>1. Encoded(T, s, m.stream, m.payload) /\ m.stream \in Streams
    BY <1>11 DEF GoodAt
  <2>2. /\ T[p + 1] = HeaderUnit(m.stream, i = n, l, TRUE)
        /\ \A x \in 1 .. l :
             T[p + HeaderSize + x] = m.payload[(i - 1) * ChunkSize + x]
    <3>1. \A j \in 1 .. n :
            /\ T[s + Offset(j) + 1] = HeaderUnit(m.stream, j = n, ChunkLen(j, len), TRUE)
            /\ \A x \in 1 .. ChunkLen(j, len) :
                 T[s + Offset(j) + HeaderSize + x] = m.payload[(j - 1) * ChunkSize + x]
      BY <2>1, Zenon DEF Encoded, n, len
    <3> QED BY <1>4, <3>1, Zenon DEF l
  <2>3. T[p + 1] \in HeaderUnits
    <3>1. (i = n) \in BOOLEAN /\ m.stream \in Streams \cup {0}
      BY <2>1
    <3>2. HeaderUnit(m.stream, i = n, l, TRUE) \in HeaderUnits
      <4> DEFINE last == i = n
      <4> HIDE DEF last
      <4>1. last \in BOOLEAN
        BY DEF last
      <4>2. HeaderUnit(m.stream, last, l, TRUE) \in HeaderUnits
        BY <1>7, <3>1, <4>1, HeaderLayout
      <4> QED BY <4>2 DEF last
    <3> QED BY <2>2, <3>2
  <2> HIDE DEF p
  <2> QED BY <1>2, <1>6, <1>7, <1>9, <1>10, <2>1, <2>2, <2>3 DEF FrameAt, p, s, l, n, len, m, k
<1>12. CASE BadAt(T, s, m)
  <2>1. len = 0 /\ T[s + 1] \in HeaderUnits
        /\ ((~T[s + 1].valid /\ T[s + 1].len = 0) \/ T[s + 1].len > MaxPayload)
    BY <1>12 DEF BadAt, len
  <2>2. n = 1
    BY <2>1 DEF n, chunk_count
  <2>3. i = 1
    BY <1>4, <2>2
  <2>4. p = s
    BY <1>5, <1>7, <2>3
  <2> HIDE DEF p
  <2> QED BY <1>2, <1>6, <1>7, <1>9, <1>10, <2>1, <2>3, <2>4 DEF FrameAt, p, s, l, n, len, m, k
<1> QED BY <1>5, <1>11, <1>12 DEF EntryAt

\* The buffer starts with a header, an unfinished stream is one of the
\* sender's, and nothing is left behind the last message.
LEMMA HeadOfBuffer ==
  ASSUME NEW sq \in Seq(Message), NEW T, NEW st, Written(T, st, sq),
         NEW d \in Nat, d <= Len(sq), NEW i, NEW c, Partial(c, sq, d, i),
         NEW b \in Seq(Unit), NEW w \in Seq(Unit),
         Behind(T, st[d + 1] + Offset(i), b, w)
  PROVE  /\ Len(b) # 0 => b[1].unit = "header"
         /\ DOMAIN c \subseteq Streams
         /\ d = Len(sq) => Len(b) = 0 /\ Len(w) = 0
<1> DEFINE p == st[d + 1] + Offset(i)
<1>1. Len(sq) \in Nat /\ Len(b) \in Nat /\ Len(w) \in Nat
  BY LenProperties
<1>2. /\ p \in Nat /\ p + Len(b) + Len(w) = Len(T)
      /\ \A x \in 1 .. Len(b) : b[x] = T[p + x]
  BY DEF Behind
<1>3. i \in Nat \ {0} /\ (i = 1 => c = <<>>)
  BY DEF Partial
<1>4. CASE d = Len(sq)
  <2>1. i = 1 /\ c = <<>>
    BY <1>3, <1>4 DEF Partial
  <2>2. Offset(1) = 0
    <3>1. ChunkSize \in Nat /\ 1 - 1 = 0
      BY ParserAssumption
    <3>2. 0 * (HeaderSize + ChunkSize) = 0
      BY <3>1 DEF HeaderSize
    <3> QED BY <3>1, <3>2 DEF Offset
  <2>3. st[d + 1] = Len(T) /\ st[d + 1] \in Nat
    <3>1. d + 1 \in 1 .. Len(sq) + 1
      BY <1>1, <1>4
    <3> QED BY <1>4, <3>1 DEF Written
  <2>4. p = Len(T) /\ Len(T) \in Nat
    BY <2>1, <2>2, <2>3
  <2>5. Len(b) = 0 /\ Len(w) = 0
    <3> HIDE DEF p
    <3>1. p + Len(b) + Len(w) = p /\ p \in Nat
      BY <1>2, <2>4
    <3> QED BY <1>1, <3>1
  <2>6. DOMAIN c = {}
    BY <2>1
  <2> QED BY <2>5, <2>6
<1>5. CASE d # Len(sq)
  <2> DEFINE m == sq[d + 1]
             l == ChunkLen(i, Len(m.payload))
  <2>1. d < Len(sq) /\ i <= chunk_count(Len(m.payload))
    <3>1. i <= chunk_count(Len(m.payload))
      BY <1>5 DEF Partial
    <3> QED BY <1>1, <1>5, <3>1
  <2>2. T[p + 1] \in HeaderUnits /\ (m.stream \in Streams \/ i = 1)
    <3>1. FrameAt(T, p, m, i)
      BY <1>3, <2>1, NextFrame
    <3> HIDE DEF p, m
    <3> QED BY <3>1, Zenon DEF FrameAt
  <2>3. Len(b) # 0 => b[1] = T[p + 1]
    <3>1. Len(b) # 0 => 1 \in 1 .. Len(b)
      BY <1>1
    <3> QED BY <1>2, <3>1
  <2>4. Len(b) # 0 => b[1].unit = "header"
    <3> HIDE DEF p
    <3> QED BY <2>2, <2>3 DEF HeaderUnits
  <2>5. CASE i = 1
    <3>1. DOMAIN c = {}
      BY <1>3, <2>5
    <3> QED BY <1>5, <2>4, <3>1
  <2>6. CASE i # 1
    <3>1. DOMAIN c = {m.stream}
      BY <2>6 DEF Partial
    <3> QED BY <1>5, <2>2, <2>4, <2>6, <3>1
  <2> QED BY <2>5, <2>6
<1> QED BY <1>4, <1>5

\* The start of s, and what follows it.
LEMMA Joined ==
  ASSUME NEW s \in Seq(Unit), NEW o \in Nat, NEW q \in Seq(Unit), o + Len(q) <= Len(s),
         \A x \in 1 .. Len(q) : q[x] = s[o + x]
  PROVE  SubSeq(s, 1, o) \o q = SubSeq(s, 1, o + Len(q))
<1> DEFINE l == Len(q)
           a == SubSeq(s, 1, o)
           t == SubSeq(s, 1, o + l)
           r == a \o q
<1>1. l \in Nat /\ Len(s) \in Nat /\ o + l <= Len(s)
  BY LenProperties
<1>2. \A x \in 1 .. Len(s) : s[x] \in Unit
  BY ElementOfSeq
<1> HIDE DEF l
<1>3. ASSUME NEW e \in Nat, e <= Len(s)
      PROVE  LET u == SubSeq(s, 1, e)
             IN  u \in Seq(Unit) /\ Len(u) = e /\ \A x \in 1 .. e : u[x] = s[x]
  <2> DEFINE u == SubSeq(s, 1, e)
  <2>1. \A x \in 1 .. e : s[x] \in Unit
    <3>1. \A x \in 1 .. e : x \in 1 .. Len(s)
      BY <1>1, <1>3
    <3> QED BY <1>2, <3>1
  <2>2. /\ u \in Seq(Unit) /\ Len(u) = IF 1 <= e THEN e - 1 + 1 ELSE 0
        /\ \A x \in 1 .. e - 1 + 1 : u[x] = s[1 + x - 1]
    BY <2>1, SubSeqProperties
  <2> HIDE DEF u
  <2>3. e - 1 + 1 = e /\ \A x \in 1 .. e : 1 + x - 1 = x
    OBVIOUS
  <2>4. Len(u) = e
    BY <2>2
  <2>5. u \in Seq(Unit) /\ Len(u) = e /\ \A x \in 1 .. e : u[x] = s[x]
    BY <2>2, <2>3, <2>4
  <2> QED BY <2>5 DEF u
<1>4. a \in Seq(Unit) /\ Len(a) = o /\ \A x \in 1 .. o : a[x] = s[x]
  <2>1. o <= Len(s)
    BY <1>1
  <2> QED BY <1>3, <2>1
<1>5. t \in Seq(Unit) /\ Len(t) = o + l /\ \A x \in 1 .. o + l : t[x] = s[x]
  <2>1. o + l \in Nat
    BY <1>1
  <2> QED BY <1>1, <1>3, <2>1
<1> HIDE DEF a, t
<1>6. /\ r \in Seq(Unit) /\ Len(r) = o + l
      /\ \A x \in 1 .. o + l : r[x] = IF x <= o THEN a[x] ELSE q[x - o]
  <2>1. a \in Seq(Unit) /\ q \in Seq(Unit)
    BY <1>4
  <2>2. /\ r \in Seq(Unit) /\ Len(r) = Len(a) + Len(q)
        /\ \A x \in 1 .. Len(a) + Len(q) : r[x] = IF x <= Len(a) THEN a[x] ELSE q[x - Len(a)]
    BY <2>1, ConcatProperties
  <2> HIDE DEF r
  <2> QED BY <1>4, <2>2 DEF l
<1> HIDE DEF r
<1>7. ASSUME NEW x \in 1 .. o + l
      PROVE  r[x] = t[x]
  <2>1. CASE x <= o
    <3>1. x \in 1 .. o
      BY <1>1, <2>1
    <3> QED BY <1>4, <1>5, <1>6, <2>1, <3>1
  <2>2. CASE ~(x <= o)
    <3>1. x - o \in 1 .. l /\ o + (x - o) = x
      BY <1>1, <2>2
    <3>2. q[x - o] = s[o + (x - o)]
      BY <3>1 DEF l
    <3> QED BY <1>5, <1>6, <2>2, <3>1, <3>2
  <2> QED BY <2>1, <2>2
<1>8. r = t
  BY <1>5, <1>6, <1>7, SeqEqual
<1> QED BY <1>8 DEF r, t, a, l

\* The frame of f units at the head of b is chunk i of message d + 1, and with
\* what its stream has in the map c it is the start of that message.
Taken(sq, d, i, c, b, f) ==
  LET m == sq[d + 1]
      len == Len(m.payload)
      n == chunk_count(len)
      got == SubSeq(b, 3, f)
      full == IF m.stream \in DOMAIN c THEN c[m.stream] \o got ELSE got
  IN  /\ d < Len(sq) /\ m \in Message /\ m.stream \in Streams
      /\ i \in 1 .. n /\ f = 2 + ChunkLen(i, len) /\ f \in Nat
      /\ b[1].stream = m.stream /\ b[1].last = (i = n)
      /\ i = 1 \/ DOMAIN c = {m.stream}
      /\ full = SubSeq(m.payload, 1, ChunkEnd(i, len))

LEMMA TakeFrame ==
  ASSUME NEW sq \in Seq(Message), NEW T, NEW st, Written(T, st, sq),
         NEW d \in Nat, d <= Len(sq), NEW i, NEW c, Partial(c, sq, d, i),
         NEW b \in Seq(Unit), NEW w \in Seq(Unit),
         Behind(T, st[d + 1] + Offset(i), b, w),
         2 <= Len(b), ~(b[1].len > MaxPayload), b[1].valid,
         NEW f, f = 2 + b[1].len, f <= Len(b)
  PROVE  Taken(sq, d, i, c, b, f)
<1> DEFINE m == sq[d + 1]
           P == m.payload
           len == Len(P)
           n == chunk_count(len)
           l == ChunkLen(i, len)
           p == st[d + 1] + Offset(i)
           o == (i - 1) * ChunkSize
           e == ChunkEnd(i, len)
           got == SubSeq(b, 3, f)
<1>1. Len(sq) \in Nat /\ Len(b) \in Nat /\ Len(w) \in Nat
  BY LenProperties
<1>2. d < Len(sq)
  <2>1. d # Len(sq)
    BY <1>1, HeadOfBuffer
  <2> QED BY <1>1, <2>1
<1>3. i \in Nat \ {0} /\ i <= n
  BY <1>2 DEF Partial
<1>4. /\ m \in Message /\ p \in Nat /\ l \in Nat /\ l <= MaxPayload
      /\ T[p + 1] \in HeaderUnits
      /\ \/ /\ m.stream \in Streams
            /\ T[p + 1] = HeaderUnit(m.stream, i = n, l, TRUE)
            /\ \A x \in 1 .. l : T[p + HeaderSize + x] = P[o + x]
         \/ /\ i = 1
            /\ (~T[p + 1].valid /\ T[p + 1].len = 0) \/ T[p + 1].len > MaxPayload
  <2>1. FrameAt(T, p, m, i)
    BY <1>2, <1>3, NextFrame
  <2> HIDE DEF p, m
  <2> QED BY <2>1, Zenon DEF FrameAt
<1>5. \A x \in 1 .. Len(b) : b[x] = T[p + x]
  BY DEF Behind
<1>6. b[1] = T[p + 1]
  <2>1. 1 \in 1 .. Len(b)
    BY <1>1
  <2> QED BY <1>5, <2>1
<1> HIDE DEF p
<1>7. /\ m.stream \in Streams
      /\ b[1] = HeaderUnit(m.stream, i = n, l, TRUE)
      /\ \A x \in 1 .. l : T[p + HeaderSize + x] = P[o + x]
  <2> DEFINE h == T[p + 1]
             Good == /\ m.stream \in Streams
                     /\ h = HeaderUnit(m.stream, i = n, l, TRUE)
                     /\ \A x \in 1 .. l : T[p + HeaderSize + x] = P[o + x]
  <2>1. h.valid /\ ~(h.len > MaxPayload)
    BY <1>6
  <2>2. Good \/ ((~h.valid /\ h.len = 0) \/ h.len > MaxPayload)
    BY <1>4, Zenon
  <2> HIDE DEF h, Good
  <2>3. Good
    BY <2>1, <2>2, Zenon
  <2> QED BY <1>6, <2>3, Zenon DEF Good, h
<1>8. b[1].stream = m.stream /\ b[1].last = (i = n) /\ b[1].len = l
  <2> DEFINE last == i = n
  <2>1. b[1] = HeaderUnit(m.stream, last, l, TRUE)
    BY <1>7
  <2> HIDE DEF last, l, m
  <2>2. b[1].stream = m.stream /\ b[1].last = last /\ b[1].len = l
    BY <2>1 DEF HeaderUnit
  <2> QED BY <2>2 DEF last
<1>9. f = 2 + l /\ f \in Nat
  BY <1>4, <1>8
<1>10. n \in Nat \ {0} /\ i \in 1 .. n /\ P \in Seq(Unit) /\ len \in Nat
  <2>1. n \in Nat \ {0} /\ P \in Seq(Unit) /\ len \in Nat
    <3> HIDE DEF m
    <3> QED BY <1>4, MessageParts
  <2> HIDE DEF n, P, len
  <2> QED BY <1>3, <2>1
<1>11. o \in Nat /\ o + l = e /\ e \in Nat /\ e <= len
  <2> HIDE DEF len
  <2> QED BY <1>10, ChunkSizes
<1>12. got \in Seq(Unit) /\ Len(got) = l /\ \A x \in 1 .. l : got[x] = P[o + x]
  <2>1. \A x \in 3 .. f : x \in 1 .. Len(b)
    BY <1>1, <1>9
  <2>2. \A x \in 3 .. f : b[x] \in Unit
    BY <2>1, ElementOfSeq
  <2>3. /\ got \in Seq(Unit) /\ Len(got) = IF 3 <= f THEN f - 3 + 1 ELSE 0
        /\ \A x \in 1 .. f - 3 + 1 : got[x] = b[3 + x - 1]
    <3>1. 3 \in Int /\ f \in Int
      BY <1>9
    <3> QED BY <2>2, <3>1, SubSeqProperties
  <2> HIDE DEF got, l, o, P
  <2>4. f - 3 + 1 = l
    BY <1>4, <1>9
  <2>5. Len(got) = l
    BY <1>4, <1>9, <2>3
  <2>6. ASSUME NEW x \in 1 .. l
        PROVE  got[x] = P[o + x]
    <3>1. got[x] = b[3 + x - 1]
      BY <2>3, <2>4
    <3>2. 3 + x - 1 = 2 + x /\ 2 + x \in 1 .. Len(b) /\ p + (2 + x) = p + 2 + x
      BY <1>1, <1>4, <1>9
    <3>3. b[2 + x] = T[p + 2 + x]
      BY <1>5, <3>2
    <3> QED BY <1>7, <3>1, <3>2, <3>3 DEF HeaderSize
  <2> QED BY <2>3, <2>5, <2>6
<1> HIDE DEF got, l, o, e, len
<1>13. SubSeq(P, 1, o) \o got = SubSeq(P, 1, e)
  <2> HIDE DEF P
  <2>1. o + Len(got) = e /\ o + Len(got) <= Len(P)
    BY <1>11, <1>12 DEF len
  <2>2. \A x \in 1 .. Len(got) : got[x] = P[o + x]
    BY <1>12
  <2>3. SubSeq(P, 1, o) \o got = SubSeq(P, 1, o + Len(got))
    BY <1>10, <1>11, <1>12, <2>1, <2>2, Joined
  <2> QED BY <2>1, <2>3
<1>14. CASE i = 1
  <2>1. c = <<>>
    BY <1>14 DEF Partial
  <2>2. m.stream \notin DOMAIN c
    BY <2>1
  <2>3. o = 0
    <3>1. ChunkSize \in Nat /\ 1 - 1 = 0
      BY ParserAssumption
    <3> QED BY <1>14, <3>1 DEF o
  <2>4. SubSeq(P, 1, o) = <<>>
    BY <2>3, SubSeqEmpty
  <2>5. SubSeq(P, 1, o) \o got = got
    BY <1>12, <2>4, ConcatEmptySeq
  <2>6. got = SubSeq(P, 1, e)
    BY <1>13, <2>5
  <2> HIDE DEF n
  <2> QED BY <1>2, <1>4, <1>7, <1>8, <1>9, <1>10, <1>14, <2>2, <2>6, Zenon DEF Taken, n, l, e, len, got
<1>15. CASE i # 1
  <2>1. c = [s \in {m.stream} |-> SubSeq(P, 1, o)]
    BY <1>2, <1>15 DEF Partial, o
  <2>2. DOMAIN c = {m.stream} /\ m.stream \in DOMAIN c /\ c[m.stream] = SubSeq(P, 1, o)
    <3> HIDE DEF P, m
    <3> QED BY <2>1
  <2>3. c[m.stream] \o got = SubSeq(P, 1, e)
    BY <1>13, <2>2
  <2> HIDE DEF n
  <2> QED BY <1>2, <1>4, <1>7, <1>8, <1>9, <1>10, <1>15, <2>2, <2>3, Zenon DEF Taken, n, l, e, len, got
<1> QED BY <1>14, <1>15

-----------------------------------------------------------------------------
(* The steps *)

LEMMA Start ==
  ASSUME Init
  PROVE  ParserInv
<1> DEFINE st == [k \in 1 .. 1 |-> 0]
<1>1. Len(sent) = 0 /\ Len(delivered) = 0 /\ Len(out) = 0 /\ Len(buf) = 0 /\ Len(wire) = 0
  BY EmptySeq DEF Init
<1>2. sent \in Seq(Message) /\ delivered \in Seq(Message) /\ out \in Seq(Message)
      /\ buf \in Seq(Unit) /\ wire \in Seq(Unit)
  BY EmptySeq, Zenon DEF Init
<1>3. Parsed = 0
  BY <1>1 DEF Parsed
<1>4. Written(<<>>, st, sent)
  <2>1. <<>> \in Seq(Unit) /\ Len(<<>>) = 0
    BY EmptySeq
  <2>2. st \in [1 .. 0 + 1 -> Nat] /\ st[0 + 1] = 0
    OBVIOUS
  <2>3. \A k \in 1 .. 0 : FALSE
    OBVIOUS
  <2> HIDE DEF st
  <2> QED BY <1>1, <2>1, <2>2, <2>3 DEF Written
<1>5. Partial(chunks, sent, Parsed, 1)
  BY <1>1, <1>3 DEF Partial, Init
<1>6. st[Parsed + 1] + Offset(1) = 0
  <2>1. ChunkSize \in Nat /\ 1 - 1 = 0
    BY ParserAssumption
  <2>2. Offset(1) = 0
    BY <2>1 DEF Offset, HeaderSize
  <2>3. st[Parsed + 1] = 0
    BY <1>3
  <2> QED BY <2>2, <2>3
<1>7. Behind(<<>>, 0, buf, wire)
  <2>1. \A x \in 1 .. 0 : FALSE
    OBVIOUS
  <2>2. Len(<<>>) = 0
    BY EmptySeq
  <2> QED BY <1>1, <2>1, <2>2 DEF Behind
<1>8. PositionInv
  <2> HIDE DEF st
  <2>1. Behind(<<>>, st[Parsed + 1] + Offset(1), buf, wire)
    BY <1>6, <1>7
  <2> QED BY <1>4, <1>5, <2>1 DEF PositionInv
<1>9. HandedInv
  <2>1. \A x \in 1 .. 0 : FALSE
    OBVIOUS
  <2> QED BY <1>1, <1>2, <1>3, <2>1 DEF HandedInv
<1>10. WaitInv
  BY <1>1 DEF WaitInv, Init, TooLarge, HasFrame, HeaderSize
<1>11. TypeOK
  BY <1>1, ParserAssumption DEF TypeOK, Init
<1> QED BY <1>2, <1>8, <1>9, <1>10, <1>11 DEF ParserInv, StreamInv

LEMMA SendKeeps ==
  ASSUME ParserInv, NEW m \in Message, NEW S \in Seq(Unit), Len(S) = SizeOf(m),
         EntryAt(S, 0, m), Len(sent) < MaxMessages,
         sent' = Append(sent, m), wire' = wire \o S,
         UNCHANGED <<buf, chunks, parserPc, out, delivered>>
  PROVE  ParserInv'
<1> DEFINE N == Len(sent)
<1>1. /\ sent \in Seq(Message) /\ delivered \in Seq(Message) /\ out \in Seq(Message)
      /\ buf \in Seq(Unit) /\ wire \in Seq(Unit)
  BY DEF ParserInv, HandedInv, StreamInv
<1>2. N \in Nat /\ Len(delivered) \in Nat /\ Len(out) \in Nat
  BY <1>1, LenProperties
<1>3. /\ sent' \in Seq(Message) /\ Len(sent') = N + 1
      /\ \A k \in 1 .. N : sent'[k] = sent[k]
      /\ sent'[N + 1] = m
  BY <1>1, AppendProperties
<1>4. Parsed' = Parsed /\ Parsed \in Nat /\ Parsed <= N /\ Len(delivered) <= N
  <2>1. Parsed' = Parsed
    BY DEF Parsed
  <2>2. Parsed <= N
    BY DEF ParserInv, HandedInv
  <2> HIDE DEF N
  <2> QED BY <1>2, <2>1, <2>2 DEF Parsed
<1>5. StreamInv'
  BY <1>1, ConcatProperties DEF StreamInv
<1>6. HandedInv'
  <2>1. \A k \in 1 .. Len(delivered) : delivered[k] = sent[k]
    BY DEF ParserInv, HandedInv
  <2>2. \A k \in 1 .. Len(out) : out[k] = sent[Len(delivered) + k]
    BY DEF ParserInv, HandedInv
  <2> HIDE DEF N
  <2>3. ASSUME NEW k \in 1 .. Len(delivered)
        PROVE  delivered[k] = sent'[k]
    <3>1. k \in 1 .. N
      BY <1>2, <1>4
    <3> QED BY <1>3, <2>1, <3>1
  <2>4. ASSUME NEW k \in 1 .. Len(out)
        PROVE  out[k] = sent'[Len(delivered) + k]
    <3>1. Len(delivered) + k \in 1 .. N
      <4>1. Len(delivered) + Len(out) <= N
        BY <1>4 DEF Parsed
      <4> QED BY <1>2, <4>1
    <3> QED BY <1>3, <2>2, <3>1
  <2>5. Parsed' <= Len(sent')
    <3>1. Len(sent') = N + 1
      BY <1>3
    <3> QED BY <1>2, <1>4, <3>1
  <2> QED BY <1>1, <1>3, <2>3, <2>4, <2>5 DEF HandedInv
<1>7. PositionInv'
  <2> SUFFICES ASSUME parserPc # "broken"
               PROVE  PositionInv'
    BY DEF PositionInv
  <2>1. PICK T, st, i : /\ Written(T, st, sent)
                        /\ Partial(chunks, sent, Parsed, i)
                        /\ Behind(T, st[Parsed + 1] + Offset(i), buf, wire)
    BY DEF ParserInv, PositionInv
  <2>2. T \in Seq(Unit)
    BY <2>1 DEF Written
  <2>3. PICK st2 : /\ Written(T \o S, st2, sent')
                   /\ \A k \in 1 .. N + 1 : st2[k] = st[k]
    BY <1>1, <2>1, WriteMore
  <2>4. st2[Parsed + 1] = st[Parsed + 1]
    <3> HIDE DEF N
    <3>1. Parsed + 1 \in 1 .. N + 1
      BY <1>2, <1>4
    <3> QED BY <2>3, <3>1
  <2>5. Behind(T \o S, st2[Parsed + 1] + Offset(i), buf, wire')
    <3>1. Behind(T \o S, st[Parsed + 1] + Offset(i), buf, wire \o S)
      BY <1>1, <2>1, <2>2, BehindWrite
    <3> QED BY <2>4, <3>1
  <2>6. Partial(chunks, sent', Parsed, i)
    <3>1. CASE Parsed = N
      <4>1. i = 1 /\ chunks = <<>>
        BY <2>1, <3>1 DEF Partial
      <4>2. sent'[Parsed + 1] = m /\ Parsed # Len(sent')
        <5> HIDE DEF N
        <5> QED BY <1>2, <1>3, <3>1
      <4>3. chunk_count(Len(m.payload)) \in Nat \ {0}
        BY MessageParts
      <4>4. 1 <= chunk_count(Len(sent'[Parsed + 1].payload))
        BY <4>2, <4>3
      <4> HIDE DEF N
      <4> QED BY <4>1, <4>2, <4>4 DEF Partial
    <3>2. CASE Parsed # N
      <4>1. sent'[Parsed + 1] = sent[Parsed + 1] /\ Parsed # Len(sent')
        <5> HIDE DEF N
        <5>1. Parsed + 1 \in 1 .. N
          BY <1>2, <1>4, <3>2
        <5> QED BY <1>2, <1>3, <1>4, <5>1
      <4> QED BY <2>1, <3>2, <4>1 DEF Partial
    <3> QED BY <3>1, <3>2
  <2>7. /\ Written(T \o S, st2, sent')
        /\ Partial(chunks', sent', Parsed', i)
        /\ Behind(T \o S, st2[Parsed' + 1] + Offset(i), buf', wire')
    BY <1>4, <2>3, <2>5, <2>6
  <2> QED BY <2>7 DEF PositionInv
<1>8. WaitInv'
  <2>1. TooLarge' = TooLarge /\ HasFrame' = HasFrame
    BY DEF TooLarge, HasFrame, FrameEnd
  <2>2. WaitInv
    BY DEF ParserInv
  <2> QED BY <2>1, <2>2 DEF WaitInv
<1>9. TypeOK'
  <2>1. TypeOK
    BY DEF ParserInv
  <2>2. Len(sent') <= MaxMessages
    <3>1. Len(sent') = N + 1 /\ N < MaxMessages
      BY <1>3
    <3> HIDE DEF N
    <3> QED BY <1>2, <3>1, ParserAssumption
  <2> QED BY <2>1, <2>2 DEF TypeOK
<1> QED BY <1>5, <1>6, <1>7, <1>8, <1>9 DEF ParserInv

LEMMA SendStep ==
  ASSUME ParserInv, NEW s \in Streams, NEW len \in Lengths, Send(s, len)
  PROVE  ParserInv'
<1> DEFINE P == Payload(Len(sent) + 1, len)
           m == [stream |-> s, payload |-> P]
           S == split_into_chunks(s, P)
<1>1. Len(sent) + 1 \in Nat /\ len \in Nat
  <2>1. sent \in Seq(Message)
    BY DEF ParserInv, HandedInv
  <2>2. Len(sent) \in Nat
    BY <2>1, LenProperties
  <2> QED BY <2>2, ParserAssumption
<1>2. P \in Seq(Unit)
  BY <1>1, PayloadType
<1>3. /\ Len(sent) < MaxMessages /\ sent' = Append(sent, m) /\ wire' = wire \o S
      /\ UNCHANGED <<buf, chunks, parserPc, out, delivered>>
  BY DEF Send
<1> HIDE DEF P
<1>4. m \in Message /\ m.payload = P /\ m.stream = s
  BY <1>2 DEF Message
<1>5. S \in Seq(Unit) /\ Len(S) = SplitLen(Len(P)) /\ Encoded(S, 0, s, P)
  BY <1>2, SplitLayout
<1> HIDE DEF m, S
<1>6. Len(S) = SizeOf(m) /\ EntryAt(S, 0, m)
  BY <1>4, <1>5 DEF SizeOf, EntryAt, GoodAt
<1> QED BY <1>3, <1>4, <1>5, <1>6, SendKeeps

LEMMA CorruptStep ==
  ASSUME ParserInv, Corrupt
  PROVE  ParserInv'
<1> DEFINE m == [stream |-> 0, payload |-> <<>>]
           S1 == Header(0, TRUE, 0, FALSE)
           S2 == Header(0, TRUE, MaxPayload + 1, TRUE)
<1>1. m \in Message /\ m.payload = <<>> /\ Len(m.payload) = 0
  <2>1. <<>> \in Seq(Unit) /\ Len(<<>>) = 0
    BY EmptySeq
  <2> QED BY <2>1 DEF Message
<1>2. /\ Len(sent) < MaxMessages /\ sent' = Append(sent, m)
      /\ wire' = wire \o S1 \/ wire' = wire \o S2
      /\ UNCHANGED <<buf, chunks, parserPc, out, delivered>>
  BY DEF Corrupt
<1>3. SizeOf(m) = 2
  <2>1. ChunkSize \in Nat \ {0}
    BY ParserAssumption
  <2>2. chunk_count(0) = 1
    BY DEF chunk_count
  <2>3. Offset(1) = 0 /\ ChunkLen(1, 0) = 0
    <3>1. (1 - 1) * ChunkSize = 0 /\ (1 - 1) * (HeaderSize + ChunkSize) = 0 /\ ~(1 * ChunkSize < 0)
      BY <2>1 DEF HeaderSize
    <3> QED BY <3>1 DEF Offset, ChunkLen, ChunkEnd
  <2> HIDE DEF m
  <2> QED BY <1>1, <2>2, <2>3 DEF SizeOf, SplitLen, HeaderSize
<1>4. MaxPayload \in Nat /\ MaxPayload + 1 \in Nat /\ MaxPayload + 1 > MaxPayload
  BY ParserAssumption
<1>5. /\ S1 \in Seq(Unit) /\ Len(S1) = 2 /\ S1[1] = HeaderUnit(0, TRUE, 0, FALSE)
      /\ HeaderUnit(0, TRUE, 0, FALSE) \in HeaderUnits
  BY HeaderLayout DEF HeaderSize
<1>6. /\ S2 \in Seq(Unit) /\ Len(S2) = 2 /\ S2[1] = HeaderUnit(0, TRUE, MaxPayload + 1, TRUE)
      /\ HeaderUnit(0, TRUE, MaxPayload + 1, TRUE) \in HeaderUnits
  BY <1>4, HeaderLayout DEF HeaderSize
<1> HIDE DEF m, S1, S2
<1>7. EntryAt(S1, 0, m)
  <2>1. ~S1[1].valid /\ S1[1].len = 0
    BY <1>5 DEF HeaderUnit
  <2>2. S1[0 + 1] = S1[1]
    OBVIOUS
  <2> QED BY <1>1, <1>5, <2>1, <2>2 DEF EntryAt, BadAt
<1>8. EntryAt(S2, 0, m)
  <2>1. S2[1].len > MaxPayload
    BY <1>4, <1>6 DEF HeaderUnit
  <2>2. S2[0 + 1] = S2[1]
    OBVIOUS
  <2> QED BY <1>1, <1>6, <2>1, <2>2 DEF EntryAt, BadAt
<1>9. CASE wire' = wire \o S1
  BY <1>1, <1>2, <1>3, <1>5, <1>7, <1>9, SendKeeps
<1>10. CASE wire' = wire \o S2
  BY <1>1, <1>2, <1>3, <1>6, <1>8, <1>10, SendKeeps
<1> QED BY <1>2, <1>9, <1>10

LEMMA ReadStep ==
  ASSUME ParserInv, NEW n \in 1 .. MaxRead, Read(n)
  PROVE  ParserInv'
<1>1. /\ sent \in Seq(Message) /\ delivered \in Seq(Message) /\ out \in Seq(Message)
      /\ buf \in Seq(Unit) /\ wire \in Seq(Unit) /\ Parsed <= Len(sent)
  BY DEF ParserInv, HandedInv, StreamInv
<1>2. /\ parserPc = "read" /\ n <= Len(wire) /\ buf' = buf \o SubSeq(wire, 1, n)
      /\ wire' = SubSeq(wire, n + 1, Len(wire)) /\ out' = <<>> /\ parserPc' = "push"
      /\ sent' = sent /\ chunks' = chunks /\ delivered' = delivered
  BY DEF Read
<1>3. out' = out
  BY <1>2 DEF ParserInv, WaitInv
<1>4. Parsed' = Parsed
  BY <1>2, <1>3 DEF Parsed
<1>5. n \in Nat
  BY ParserAssumption
<1>6. PICK T, st, i : /\ Written(T, st, sent)
                      /\ Partial(chunks, sent, Parsed, i)
                      /\ Behind(T, st[Parsed + 1] + Offset(i), buf, wire)
  BY <1>2 DEF ParserInv, PositionInv
<1>7. T \in Seq(Unit)
  BY <1>6 DEF Written
<1> DEFINE p == st[Parsed + 1] + Offset(i)
<1>8. buf' \in Seq(Unit) /\ wire' \in Seq(Unit) /\ Behind(T, p, buf', wire')
  <2>1. Behind(T, p, buf, wire)
    BY <1>6
  <2> HIDE DEF p
  <2> QED BY <1>1, <1>2, <1>5, <1>7, <2>1, BehindRead
<1>9. StreamInv'
  BY <1>8 DEF StreamInv
<1>10. HandedInv'
  BY <1>2, <1>3, <1>4 DEF ParserInv, HandedInv
<1>11. PositionInv'
  <2>1. /\ Written(T, st, sent') /\ Partial(chunks', sent', Parsed', i)
        /\ Behind(T, st[Parsed' + 1] + Offset(i), buf', wire')
    BY <1>2, <1>4, <1>6, <1>8
  <2> QED BY <2>1 DEF PositionInv
<1>12. WaitInv'
  BY <1>2 DEF WaitInv
<1>13. TypeOK'
  <2>1. /\ buf' # <<>> => buf'[1].unit = "header"
        /\ DOMAIN chunks' \subseteq Streams
    <3>1. Parsed \in Nat /\ Len(buf') \in Nat
      <4>1. Len(delivered) \in Nat /\ Len(out) \in Nat
        BY <1>1, LenProperties
      <4> QED BY <1>8, <4>1, LenProperties DEF Parsed
    <3>2. buf' # <<>> => Len(buf') # 0
      BY <1>8, EmptySeq
    <3>3. /\ Len(buf') # 0 => buf'[1].unit = "header"
          /\ DOMAIN chunks \subseteq Streams
      BY <1>1, <1>6, <1>8, <3>1, HeadOfBuffer
    <3> QED BY <1>2, <3>2, <3>3
  <2>2. Len(sent') <= MaxMessages
    BY <1>2 DEF ParserInv, TypeOK
  <2> QED BY <1>2, <2>1, <2>2 DEF TypeOK
<1> QED BY <1>9, <1>10, <1>11, <1>12, <1>13 DEF ParserInv

LEMMA ReturnStep ==
  ASSUME ParserInv, PushReturns
  PROVE  ParserInv'
<1>1. /\ sent \in Seq(Message) /\ delivered \in Seq(Message) /\ out \in Seq(Message)
      /\ Parsed <= Len(sent)
  BY DEF ParserInv, HandedInv
<1>2. /\ parserPc = "push" /\ ~TooLarge /\ ~HasFrame
      /\ delivered' = delivered \o out /\ out' = <<>> /\ parserPc' = "read"
      /\ sent' = sent /\ wire' = wire /\ buf' = buf /\ chunks' = chunks
  BY DEF PushReturns
<1> DEFINE a == Len(delivered)
           b == Len(out)
<1>3. a \in Nat /\ b \in Nat
  BY <1>1, LenProperties
<1>4. /\ delivered' \in Seq(Message) /\ Len(delivered') = a + b
      /\ \A k \in 1 .. a + b : delivered'[k] = IF k <= a THEN delivered[k] ELSE out[k - a]
  BY <1>1, <1>2, ConcatProperties
<1>5. out' \in Seq(Message) /\ Len(out') = 0
  BY <1>2, EmptySeq
<1>6. \A k \in 1 .. a : delivered[k] = sent[k]
  BY DEF ParserInv, HandedInv
<1>7. \A k \in 1 .. b : out[k] = sent[a + k]
  BY DEF ParserInv, HandedInv
<1>8. Parsed = a + b
  BY DEF Parsed
<1> HIDE DEF a, b
<1>9. Parsed' = Parsed
  <2>1. Parsed' = Len(delivered') + Len(out')
    BY DEF Parsed
  <2> QED BY <1>3, <1>4, <1>5, <1>8, <2>1
<1>10. ASSUME NEW k \in 1 .. a + b
       PROVE  delivered'[k] = sent[k]
  <2>1. CASE k <= a
    <3>1. k \in 1 .. a
      BY <1>3, <2>1
    <3> QED BY <1>4, <1>6, <2>1, <3>1
  <2>2. CASE ~(k <= a)
    <3>1. k - a \in 1 .. b /\ a + (k - a) = k
      BY <1>3, <2>2
    <3> QED BY <1>4, <1>7, <2>2, <3>1
  <2> QED BY <2>1, <2>2
<1>11. HandedInv'
  <2>1. \A k \in 1 .. Len(out') : out'[k] = sent'[Len(delivered') + k]
    <3>1. \A k \in 1 .. 0 : FALSE
      OBVIOUS
    <3> QED BY <1>5, <3>1
  <2>2. \A k \in 1 .. Len(delivered') : delivered'[k] = sent'[k]
    BY <1>2, <1>4, <1>10
  <2>3. sent' \in Seq(Message) /\ Parsed' <= Len(sent')
    BY <1>1, <1>2, <1>9
  <2>4. delivered' \in Seq(Message) /\ out' \in Seq(Message)
    BY <1>4, <1>5
  <2> QED BY <2>1, <2>2, <2>3, <2>4 DEF HandedInv
<1>12. StreamInv'
  BY <1>2 DEF ParserInv, StreamInv
<1>13. PositionInv'
  <2>1. PICK T, st, i : /\ Written(T, st, sent)
                        /\ Partial(chunks, sent, Parsed, i)
                        /\ Behind(T, st[Parsed + 1] + Offset(i), buf, wire)
    BY <1>2 DEF ParserInv, PositionInv
  <2>2. /\ Written(T, st, sent') /\ Partial(chunks', sent', Parsed', i)
        /\ Behind(T, st[Parsed' + 1] + Offset(i), buf', wire')
    BY <1>2, <1>9, <2>1
  <2> QED BY <2>2 DEF PositionInv
<1>14. WaitInv'
  <2>1. TooLarge' = TooLarge /\ HasFrame' = HasFrame
    BY <1>2 DEF TooLarge, HasFrame, FrameEnd
  <2> QED BY <1>2, <2>1 DEF WaitInv
<1>15. TypeOK'
  BY <1>2 DEF ParserInv, TypeOK
<1> QED BY <1>11, <1>12, <1>13, <1>14, <1>15 DEF ParserInv

LEMMA FailStep ==
  ASSUME ParserInv, PushFails
  PROVE  ParserInv'
<1>1. /\ sent \in Seq(Message) /\ delivered \in Seq(Message) /\ out \in Seq(Message)
      /\ Parsed <= Len(sent)
  BY DEF ParserInv, HandedInv
<1>2. /\ out' = <<>> /\ parserPc' = "broken" /\ delivered' = delivered
      /\ sent' = sent /\ wire' = wire /\ buf' = buf /\ chunks' = chunks
  BY DEF PushFails
<1>3. Len(delivered) \in Nat /\ Len(out) \in Nat /\ Len(sent) \in Nat
  BY <1>1, LenProperties
<1>4. out' \in Seq(Message) /\ Len(out') = 0
  BY <1>2, EmptySeq
<1>5. HandedInv'
  <2>1. \A k \in 1 .. Len(out') : out'[k] = sent'[Len(delivered') + k]
    <3>1. \A k \in 1 .. 0 : FALSE
      OBVIOUS
    <3> QED BY <1>4, <3>1
  <2>2. \A k \in 1 .. Len(delivered') : delivered'[k] = sent'[k]
    BY <1>2 DEF ParserInv, HandedInv
  <2>3. Parsed' <= Len(sent')
    <3>1. Parsed' = Len(delivered) + Len(out')
      BY <1>2 DEF Parsed
    <3>2. Len(delivered) + Len(out) <= Len(sent)
      BY <1>1 DEF Parsed
    <3> QED BY <1>2, <1>3, <1>4, <3>1, <3>2
  <2> QED BY <1>1, <1>2, <1>4, <2>1, <2>2, <2>3 DEF HandedInv
<1>6. StreamInv'
  BY <1>2 DEF ParserInv, StreamInv
<1>7. PositionInv' /\ WaitInv'
  BY <1>2 DEF PositionInv, WaitInv
<1>8. TypeOK'
  BY <1>2 DEF ParserInv, TypeOK
<1> QED BY <1>5, <1>6, <1>7, <1>8 DEF ParserInv

\* While push goes on, the rest of the invariant follows from where it is.
LEMMA PushedTypes ==
  ASSUME ParserInv, parserPc = "push", parserPc' = "push", sent' = sent, wire' = wire,
         HandedInv', PositionInv', buf' \in Seq(Unit), DOMAIN chunks' \subseteq Streams
  PROVE  ParserInv'
<1>1. PICK T, st, i : /\ Written(T, st, sent')
                      /\ Partial(chunks', sent', Parsed', i)
                      /\ Behind(T, st[Parsed' + 1] + Offset(i), buf', wire')
  BY DEF PositionInv
<1>2. /\ sent' \in Seq(Message) /\ delivered' \in Seq(Message) /\ out' \in Seq(Message)
      /\ Parsed' <= Len(sent')
  BY DEF HandedInv
<1>3. wire' \in Seq(Unit)
  BY DEF ParserInv, StreamInv
<1>4. Parsed' \in Nat
  <2>1. Len(delivered') \in Nat /\ Len(out') \in Nat
    BY <1>2, LenProperties
  <2>2. Parsed' = Len(delivered') + Len(out')
    BY DEF Parsed
  <2> QED BY <2>1, <2>2
<1>5. buf' # <<>> => Len(buf') # 0
  BY EmptySeq
<1>6. Len(buf') # 0 => buf'[1].unit = "header"
  BY <1>1, <1>2, <1>3, <1>4, HeadOfBuffer
<1>7. TypeOK'
  <2>1. Len(sent') <= MaxMessages
    BY DEF ParserInv, TypeOK
  <2> QED BY <1>5, <1>6, <2>1 DEF TypeOK
<1>8. WaitInv' /\ StreamInv'
  BY <1>3 DEF WaitInv, StreamInv
<1> QED BY <1>7, <1>8 DEF ParserInv

LEMMA FrameStep ==
  ASSUME ParserInv, PushFrame
  PROVE  ParserInv'
<1> DEFINE d == Parsed
           m == sent[d + 1]
           P == m.payload
           len == Len(P)
           n == chunk_count(len)
           f == FrameEnd
           got == SubSeq(buf, 3, f)
           full == IF m.stream \in DOMAIN chunks THEN chunks[m.stream] \o got ELSE got
<1>1. /\ sent \in Seq(Message) /\ delivered \in Seq(Message) /\ out \in Seq(Message)
      /\ buf \in Seq(Unit) /\ wire \in Seq(Unit) /\ Parsed <= Len(sent)
  BY DEF ParserInv, HandedInv, StreamInv
<1>2. Len(delivered) \in Nat /\ Len(out) \in Nat /\ Len(sent) \in Nat /\ Parsed \in Nat
  <2>1. Len(delivered) \in Nat /\ Len(out) \in Nat /\ Len(sent) \in Nat
    BY <1>1, LenProperties
  <2> QED BY <2>1 DEF Parsed
<1>3. /\ parserPc = "push" /\ parserPc' = "push"
      /\ buf' = SubSeq(buf, f + 1, Len(buf))
      /\ sent' = sent /\ wire' = wire /\ delivered' = delivered
  BY DEF PushFrame
<1>4. /\ 2 <= Len(buf) /\ ~(buf[1].len > MaxPayload) /\ buf[1].valid
      /\ f = 2 + buf[1].len /\ f <= Len(buf)
  <2>1. Len(buf) >= 2 /\ ~TooLarge /\ Len(buf) >= f /\ buf[1].valid
    BY DEF PushFrame, HasFrame, HeaderSize
  <2>2. ~(buf[1].len > MaxPayload)
    BY <2>1 DEF TooLarge, HeaderSize
  <2>3. f = 2 + buf[1].len
    BY DEF FrameEnd, HeaderSize
  <2> HIDE DEF f
  <2>4. Len(buf) >= 2 => 2 <= Len(buf)
    OBVIOUS
  <2>5. Len(buf) >= f => f <= Len(buf)
    OBVIOUS
  <2> QED BY <2>1, <2>2, <2>3, <2>4, <2>5
<1>5. PICK T, st, i : /\ Written(T, st, sent)
                      /\ Partial(chunks, sent, d, i)
                      /\ Behind(T, st[d + 1] + Offset(i), buf, wire)
  BY <1>3 DEF ParserInv, PositionInv
<1> DEFINE p == st[d + 1] + Offset(i)
<1>6. /\ d < Len(sent) /\ m \in Message /\ m.stream \in Streams
      /\ i \in 1 .. n /\ f = 2 + ChunkLen(i, len) /\ f \in Nat
      /\ buf[1].stream = m.stream /\ buf[1].last = (i = n)
      /\ i = 1 \/ DOMAIN chunks = {m.stream}
      /\ full = SubSeq(P, 1, ChunkEnd(i, len))
  <2> HIDE DEF f, d
  <2>1. d \in Nat /\ d <= Len(sent)
    BY <1>1, <1>2 DEF d
  <2>2. Taken(sent, d, i, chunks, buf, f)
    BY <1>1, <1>4, <1>5, <2>1, TakeFrame
  <2> QED BY <2>2, Zenon DEF Taken
<1>7. i = 1 => chunks = <<>>
  BY <1>5 DEF Partial
<1>8. T \in Seq(Unit)
  BY <1>5 DEF Written
<1>9. buf' \in Seq(Unit) /\ Behind(T, p + f, buf', wire)
  <2>1. Behind(T, p, buf, wire)
    BY <1>5
  <2> HIDE DEF p, f
  <2> QED BY <1>1, <1>3, <1>4, <1>6, <1>8, <2>1, BehindTake
<1>10. full = Accumulated(buf[1].stream, SubSeq(buf, HeaderSize + 1, FrameEnd))
  <2>1. HeaderSize + 1 = 3
    BY DEF HeaderSize
  <2> QED BY <1>6, <2>1, Zenon DEF Accumulated
<1>11. IF buf[1].last
       THEN /\ out' = Append(out, [stream |-> m.stream, payload |-> full])
            /\ chunks' = Forget(m.stream)
       ELSE /\ out' = out
            /\ chunks' = Remember(m.stream, full)
  <2> HIDE DEF full, m
  <2>1. buf[1].stream = m.stream
    BY <1>6
  <2> QED BY <1>10, <2>1, Zenon DEF PushFrame
<1> HIDE DEF full, f, d
<1>12. len \in Nat /\ n \in Nat \ {0} /\ P \in Seq(Unit) /\ SizeOf(m) = SplitLen(len)
  <2>1. m \in Message
    BY <1>6
  <2> HIDE DEF m
  <2> QED BY <2>1, MessageParts DEF SizeOf
<1>13. /\ ChunkLen(i, len) \in Nat /\ Offset(i) \in Nat /\ Offset(1) = 0
       /\ i # n => /\ ChunkEnd(i, len) = i * ChunkSize
                   /\ Offset(i + 1) = Offset(i) + HeaderSize + ChunkLen(i, len)
       /\ i = n => ChunkEnd(i, len) = len
  <2> HIDE DEF len
  <2> QED BY <1>6, <1>12, ChunkSizes
<1>14. d \in Nat /\ d = Parsed
  BY <1>2 DEF d
<1>15. /\ st[d + 1] \in Nat /\ st[(d + 1) + 1] \in Nat
       /\ st[(d + 1) + 1] = st[d + 1] + SizeOf(m)
  <2>1. /\ d + 1 \in 1 .. Len(sent) /\ d + 1 \in 1 .. Len(sent) + 1
        /\ (d + 1) + 1 \in 1 .. Len(sent) + 1
    BY <1>2, <1>6, <1>14
  <2> QED BY <1>5, <2>1 DEF Written
\* The frame is the last one of its message, or another one follows.
<1>16. CASE i = n
  <2>1. full = P
    <3>1. full = SubSeq(P, 1, len)
      BY <1>6, <1>13, <1>16
    <3> QED BY <1>12, <3>1, SubSeqFull
  <2>2. out' = Append(out, m) /\ chunks' = Forget(m.stream)
    <3>1. m = [stream |-> m.stream, payload |-> P]
      <4>1. m \in Message
        BY <1>6
      <4> HIDE DEF m
      <4> QED BY <4>1 DEF Message
    <3>2. buf[1].last
      BY <1>6, <1>16
    <3>3. out' = Append(out, [stream |-> m.stream, payload |-> full]) /\ chunks' = Forget(m.stream)
      BY <1>11, <3>2
    <3> QED BY <2>1, <3>1, <3>3, Zenon
  <2>3. /\ out' \in Seq(Message) /\ Len(out') = Len(out) + 1
        /\ \A k \in 1 .. Len(out) : out'[k] = out[k]
        /\ out'[Len(out) + 1] = m
    BY <1>1, <1>6, <2>2, AppendProperties
  <2>4. Parsed' = d + 1
    <3>1. Parsed' = Len(delivered) + Len(out') /\ d = Len(delivered) + Len(out)
      BY <1>3 DEF Parsed, d
    <3> QED BY <1>2, <2>3, <3>1
  <2>5. chunks' = <<>>
    <3>1. DOMAIN chunks \ {m.stream} = {}
      <4>1. CASE i = 1
        <5>1. DOMAIN chunks = {}
          BY <1>7, <4>1
        <5> QED BY <5>1
      <4>2. CASE i # 1
        BY <1>6, <4>2
      <4> QED BY <4>1, <4>2
    <3> DEFINE D == DOMAIN chunks \ {m.stream}
    <3>2. chunks' = [s \in D |-> chunks[s]]
      BY <2>2 DEF Forget
    <3>3. D = {}
      BY <3>1
    <3> HIDE DEF D
    <3> QED BY <3>2, <3>3
  <2>6. Partial(chunks', sent', Parsed', 1)
    <3>1. d + 1 # Len(sent) => 1 <= chunk_count(Len(sent[(d + 1) + 1].payload))
      <4>1. d + 1 # Len(sent) => sent[(d + 1) + 1] \in Message
        <5>1. d + 1 # Len(sent) => (d + 1) + 1 \in 1 .. Len(sent)
          BY <1>2, <1>6, <1>14
        <5> QED BY <1>1, <5>1, ElementOfSeq
      <4>2. d + 1 # Len(sent) => chunk_count(Len(sent[(d + 1) + 1].payload)) \in Nat \ {0}
        BY <4>1, MessageParts
      <4> QED BY <4>2
    <3> QED BY <1>3, <2>4, <2>5, <3>1 DEF Partial
  <2>7. st[Parsed' + 1] + Offset(1) = p + f
    <3>1. SizeOf(m) = Offset(i) + 2 + ChunkLen(i, len)
      BY <1>12, <1>16 DEF SplitLen, HeaderSize
    <3>2. st[Parsed' + 1] = st[d + 1] + SizeOf(m)
      BY <1>15, <2>4
    <3> DEFINE a == st[d + 1]
               o == Offset(i)
               l == ChunkLen(i, len)
    <3>3. a \in Nat /\ o \in Nat /\ l \in Nat /\ f = 2 + l /\ st[Parsed' + 1] = a + (o + 2 + l)
      BY <1>6, <1>13, <1>15, <3>1, <3>2
    <3>4. p = a + o /\ Offset(1) = 0
      BY <1>13
    <3> HIDE DEF a, o, l, p
    <3> QED BY <3>3, <3>4
  <2>8. PositionInv'
    <3>1. /\ Written(T, st, sent') /\ Behind(T, st[Parsed' + 1] + Offset(1), buf', wire')
      BY <1>3, <1>5, <1>9, <2>7
    <3> QED BY <2>6, <3>1 DEF PositionInv
  <2>9. HandedInv'
    <3>1. \A k \in 1 .. Len(delivered) : delivered[k] = sent[k]
      BY DEF ParserInv, HandedInv
    <3>2. \A k \in 1 .. Len(out) : out[k] = sent[Len(delivered) + k]
      BY DEF ParserInv, HandedInv
    <3>3. ASSUME NEW k \in 1 .. Len(out')
          PROVE  out'[k] = sent[Len(delivered) + k]
      <4>1. CASE k = Len(out) + 1
        <5>1. Len(delivered) + k = d + 1
          BY <1>2, <4>1 DEF d, Parsed
        <5> QED BY <2>3, <4>1, <5>1
      <4>2. CASE k # Len(out) + 1
        <5>1. k \in 1 .. Len(out)
          <6>1. Len(out') = Len(out) + 1
            BY <2>3
          <6> QED BY <1>2, <4>2, <6>1
        <5> QED BY <2>3, <3>2, <5>1
      <4> QED BY <4>1, <4>2
    <3>4. Parsed' <= Len(sent)
      BY <1>2, <1>6, <1>14, <2>4
    <3>5. out' \in Seq(Message)
      BY <2>3
    <3> QED BY <1>1, <1>3, <3>1, <3>3, <3>4, <3>5 DEF HandedInv
  <2>10. DOMAIN chunks' \subseteq Streams
    <3>1. DOMAIN chunks' = {}
      BY <2>5
    <3> QED BY <3>1
  <2> QED BY <1>9, <2>8, <2>9, <2>10, <1>3, PushedTypes
<1>17. CASE i # n
  <2>1. /\ out' = out
        /\ chunks' = Remember(m.stream, full)
    <3>1. ~buf[1].last
      BY <1>6, <1>17
    <3> QED BY <1>11, <3>1
  <2>2. i \in Nat \ {0} /\ i + 1 <= n /\ (i + 1) - 1 = i /\ i + 1 # 1 /\ i + 1 \in Nat \ {0}
    <3>1. i \in 1 .. n /\ n \in Nat
      BY <1>6, <1>12
    <3> HIDE DEF n
    <3> QED BY <1>17, <3>1
  <2>3. full = SubSeq(P, 1, ((i + 1) - 1) * ChunkSize)
    BY <1>6, <1>13, <1>17, <2>2
  <2>4. chunks' = [s \in {m.stream} |-> full]
    <3> DEFINE D == DOMAIN chunks \cup {m.stream}
    <3>1. D = {m.stream}
      <4>1. CASE i = 1
        <5>1. DOMAIN chunks = {}
          BY <1>7, <4>1
        <5> QED BY <5>1
      <4>2. CASE i # 1
        BY <1>6, <4>2
      <4> QED BY <4>1, <4>2
    <3>2. chunks' = [s \in D |-> IF s = m.stream THEN full ELSE chunks[s]]
      BY <2>1 DEF Remember
    <3> HIDE DEF D, m
    <3> QED BY <3>1, <3>2
  <2>5. Parsed' = Parsed
    BY <1>3, <2>1 DEF Parsed
  <2>6. Partial(chunks', sent', Parsed', i + 1)
    <3>1. chunks' = [s \in {sent[d + 1].stream} |->
                       SubSeq(sent[d + 1].payload, 1, ((i + 1) - 1) * ChunkSize)]
      BY <2>3, <2>4
    <3>2. d # Len(sent) /\ i + 1 <= chunk_count(Len(sent[d + 1].payload))
      BY <1>2, <1>6, <1>14, <2>2
    <3>3. sent' = sent /\ Parsed' = d
      BY <1>3, <1>14, <2>5
    <3> QED BY <2>2, <3>1, <3>2, <3>3 DEF Partial
  <2>7. st[Parsed' + 1] + Offset(i + 1) = p + f
    <3> DEFINE a == st[d + 1]
               o == Offset(i)
               l == ChunkLen(i, len)
    <3>1. a \in Nat /\ o \in Nat /\ l \in Nat /\ f = 2 + l /\ Offset(i + 1) = o + 2 + l
      BY <1>6, <1>13, <1>15, <1>17 DEF HeaderSize
    <3>2. p = a + o /\ st[Parsed' + 1] = a
      BY <1>14, <2>5
    <3> HIDE DEF a, o, l, p
    <3> QED BY <3>1, <3>2
  <2>8. PositionInv'
    <3>1. /\ Written(T, st, sent') /\ Behind(T, st[Parsed' + 1] + Offset(i + 1), buf', wire')
      BY <1>3, <1>5, <1>9, <2>7
    <3> QED BY <2>6, <3>1 DEF PositionInv
  <2>9. HandedInv'
    BY <1>3, <2>1, <2>5 DEF ParserInv, HandedInv
  <2>10. DOMAIN chunks' \subseteq Streams
    <3>1. DOMAIN chunks' = {m.stream}
      BY <2>4
    <3> QED BY <1>6, <3>1
  <2> QED BY <1>9, <2>8, <2>9, <2>10, <1>3, PushedTypes
<1> QED BY <1>16, <1>17

LEMMA StepKeeps ==
  ASSUME ParserInv, [Next]_vars
  PROVE  ParserInv'
<1>1. CASE \E s \in Streams, len \in Lengths : Send(s, len)
  BY <1>1, SendStep
<1>2. CASE Corrupt
  BY <1>2, CorruptStep
<1>3. CASE \E n \in 1 .. MaxRead : Read(n)
  BY <1>3, ReadStep
<1>4. CASE PushReturns
  BY <1>4, ReturnStep
<1>5. CASE PushFails
  BY <1>5, FailStep
<1>6. CASE PushFrame
  BY <1>6, FrameStep
<1>7. CASE UNCHANGED vars
  <2>1. Parsed' = Parsed /\ TooLarge' = TooLarge /\ HasFrame' = HasFrame
    BY <1>7 DEF vars, Parsed, TooLarge, HasFrame, FrameEnd
  <2>2. TypeOK' /\ HandedInv' /\ StreamInv'
    BY <1>7, <2>1 DEF vars, ParserInv, TypeOK, HandedInv, StreamInv
  <2>3. PositionInv'
    BY <1>7, <2>1, Zenon DEF vars, ParserInv, PositionInv
  <2>4. WaitInv'
    BY <1>7, <2>1 DEF vars, ParserInv, WaitInv
  <2> QED BY <2>2, <2>3, <2>4 DEF ParserInv
<1> QED BY <1>1, <1>2, <1>3, <1>4, <1>5, <1>6, <1>7 DEF Next, Step, Done, Broken

-----------------------------------------------------------------------------
(* The theorems *)

LEMMA Inductive == Spec => []ParserInv
<1>1. Init => ParserInv
  BY Start
<1>2. ParserInv /\ [Next]_vars => ParserInv'
  BY StepKeeps
<1> QED BY <1>1, <1>2, PTL DEF Spec

\* StreamParser's buffer always starts at a header, and its map holds streams
\* of the sender only: read_loop never loses its place in the stream.
THEOREM TypeCorrect == Spec => []TypeOK
<1>1. ParserInv => TypeOK
  BY DEF ParserInv
<1> QED BY <1>1, Inductive, PTL

\* Whatever read returns, push and reassemble undo split_into_chunks: what is
\* handed on is a prefix of what was sent.
THEOREM MessagesReassemble == Spec => []Reassembles
<1>1. ASSUME ParserInv
      PROVE  Reassembles
  <2> DEFINE a == Len(delivered)
             b == Len(out)
             h == delivered \o out
  <2>1. /\ sent \in Seq(Message) /\ delivered \in Seq(Message) /\ out \in Seq(Message)
        /\ a + b <= Len(sent)
    BY <1>1 DEF ParserInv, HandedInv, Parsed
  <2>2. a \in Nat /\ b \in Nat /\ Len(sent) \in Nat
    BY <2>1, LenProperties
  <2>3. /\ h \in Seq(Message) /\ Len(h) = a + b
        /\ \A k \in 1 .. a + b : h[k] = IF k <= a THEN delivered[k] ELSE out[k - a]
    BY <2>1, ConcatProperties
  <2>4. \A k \in 1 .. a : delivered[k] = sent[k]
    BY <1>1 DEF ParserInv, HandedInv
  <2>5. \A k \in 1 .. b : out[k] = sent[a + k]
    BY <1>1 DEF ParserInv, HandedInv
  <2> HIDE DEF a, b, h
  <2>6. ASSUME NEW k \in 1 .. a + b
        PROVE  h[k] = sent[k]
    <3>1. CASE k <= a
      <4>1. k \in 1 .. a
        BY <2>2, <3>1
      <4> QED BY <2>3, <2>4, <3>1, <4>1
    <3>2. CASE ~(k <= a)
      <4>1. k - a \in 1 .. b /\ a + (k - a) = k
        BY <2>2, <3>2
      <4> QED BY <2>3, <2>5, <3>2, <4>1
    <3> QED BY <3>1, <3>2
  <2> DEFINE e == a + b
             t == SubSeq(sent, 1, e)
  <2>7. e \in Nat /\ e <= Len(sent) /\ Len(h) = e
    BY <2>1, <2>2, <2>3
  <2>8. \A k \in 1 .. e : h[k] = sent[k]
    BY <2>6
  <2> HIDE DEF e
  <2>9. t \in Seq(Message) /\ Len(t) = e /\ \A k \in 1 .. e : t[k] = sent[k]
    <3>1. \A k \in 1 .. e : sent[k] \in Message
      <4>1. \A k \in 1 .. e : k \in 1 .. Len(sent)
        BY <2>2, <2>7
      <4> QED BY <2>1, <4>1, ElementOfSeq
    <3>2. /\ t \in Seq(Message) /\ Len(t) = IF 1 <= e THEN e - 1 + 1 ELSE 0
          /\ \A k \in 1 .. e - 1 + 1 : t[k] = sent[1 + k - 1]
      <4>1. 1 \in Int /\ e \in Int
        BY <2>7
      <4> QED BY <3>1, <4>1, SubSeqProperties
    <3> HIDE DEF t
    <3>3. e - 1 + 1 = e /\ \A k \in 1 .. e : 1 + k - 1 = k
      BY <2>7
    <3>4. Len(t) = e
      BY <2>7, <3>2
    <3> QED BY <3>2, <3>3, <3>4
  <2>10. h = t
    <3> HIDE DEF t
    <3> QED BY <2>3, <2>7, <2>8, <2>9, SeqEqual
  <2>11. SubSeq(h, 1, Len(h)) = h
    BY <2>3, SubSeqFull
  <2>12. IsPrefix(h, sent)
    BY <2>7, <2>10, <2>11 DEF IsPrefix
  <2> QED BY <2>12 DEF Reassembles, h
<1> QED BY <1>1, Inductive, PTL

\* When read_loop waits and everything written has been read, every message
\* has been completed: StreamParser's buffer and map are empty.
THEOREM NothingIsLeftOver == Spec => []NothingLeftOver
<1>1. ASSUME ParserInv, Len(wire) = 0, parserPc = "read"
      PROVE  buf = <<>> /\ chunks = <<>>
  <2>1. /\ sent \in Seq(Message) /\ delivered \in Seq(Message) /\ out \in Seq(Message)
        /\ buf \in Seq(Unit) /\ wire \in Seq(Unit) /\ Parsed <= Len(sent)
    BY <1>1 DEF ParserInv, HandedInv, StreamInv
  <2>2. Parsed \in Nat /\ Len(sent) \in Nat /\ Len(buf) \in Nat /\ Len(wire) = 0
    <3>1. Len(delivered) \in Nat /\ Len(out) \in Nat /\ Len(sent) \in Nat /\ Len(buf) \in Nat
      BY <2>1, LenProperties
    <3> QED BY <1>1, <3>1 DEF Parsed
  <2>3. PICK T, st, i : /\ Written(T, st, sent)
                        /\ Partial(chunks, sent, Parsed, i)
                        /\ Behind(T, st[Parsed + 1] + Offset(i), buf, wire)
    BY <1>1 DEF ParserInv, PositionInv
  <2>4. CASE Parsed = Len(sent)
    <3>1. Len(buf) = 0
      <4> DEFINE d == Parsed
      <4>1. d \in Nat /\ d <= Len(sent) /\ d = Len(sent)
        BY <2>1, <2>2, <2>4
      <4>2. /\ Written(T, st, sent) /\ Partial(chunks, sent, d, i)
            /\ Behind(T, st[d + 1] + Offset(i), buf, wire)
        BY <2>3
      <4>3. sent \in Seq(Message) /\ buf \in Seq(Unit) /\ wire \in Seq(Unit)
        BY <2>1
      <4> HIDE DEF d
      <4> QED BY <4>1, <4>2, <4>3, HeadOfBuffer
    <3>2. chunks = <<>>
      BY <2>3, <2>4 DEF Partial
    <3> QED BY <2>1, <3>1, <3>2, EmptySeq
  <2>5. CASE Parsed # Len(sent)
    <3> DEFINE m == sent[Parsed + 1]
               l == ChunkLen(i, Len(m.payload))
               p == st[Parsed + 1] + Offset(i)
               h == T[p + 1]
    <3>1. Parsed < Len(sent) /\ i \in Nat \ {0} /\ i <= chunk_count(Len(m.payload))
      <4>1. i \in Nat \ {0} /\ i <= chunk_count(Len(m.payload))
        BY <2>3, <2>5 DEF Partial
      <4> QED BY <2>1, <2>2, <2>5, <4>1
    <3>2. FrameAt(T, p, m, i)
      BY <2>1, <2>2, <2>3, <3>1, NextFrame
    <3> HIDE DEF m, p
    <3>3. /\ p \in Nat /\ l \in Nat /\ l <= MaxPayload /\ Len(T) \in Nat
          /\ p + HeaderSize + l <= Len(T) /\ h \in HeaderUnits
          /\ \/ h = HeaderUnit(m.stream, i = chunk_count(Len(m.payload)), l, TRUE)
             \/ ~h.valid /\ h.len = 0
             \/ h.len > MaxPayload
      BY <3>2, Zenon DEF FrameAt
    <3>4. /\ p + Len(buf) + Len(wire) = Len(T)
          /\ \A x \in 1 .. Len(buf) : buf[x] = T[p + x]
      BY <2>3 DEF Behind, p
    <3> HIDE DEF l
    <3>5. 2 + l <= Len(buf)
      BY <2>2, <3>3, <3>4 DEF HeaderSize
    <3>6. buf[1] = h
      <4>1. 1 \in 1 .. Len(buf)
        BY <2>2, <3>3, <3>5
      <4> QED BY <3>4, <4>1
    <3> HIDE DEF h
    <3>7. h.len \in Nat /\ (h.len = l \/ h.len = 0 \/ h.len > MaxPayload)
      <4>1. h.len \in Nat
        BY <3>3 DEF HeaderUnits
      <4> QED BY <3>3, <4>1 DEF HeaderUnit
    <3>8. TooLarge \/ HasFrame
      <4>1. Len(buf) >= 2 /\ (h.len > MaxPayload \/ Len(buf) >= 2 + h.len)
        <5>1. l \in Nat
          BY <3>3
        <5> QED BY <2>2, <3>5, <3>7, <5>1
      <4> QED BY <3>6, <4>1 DEF TooLarge, HasFrame, FrameEnd, HeaderSize
    <3> QED BY <1>1, <3>8 DEF ParserInv, WaitInv
  <2> QED BY <2>4, <2>5
<1>2. ParserInv => NothingLeftOver
  <2>1. wire = <<>> => Len(wire) = 0
    BY EmptySeq
  <2> QED BY <1>1, <2>1 DEF NothingLeftOver
<1> QED BY <1>2, Inductive, PTL
=============================================================================
