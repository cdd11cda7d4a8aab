-------------------------- MODULE GameProtoProofs --------------------------
(***************************************************************************)
(* Proofs about the codec of GameProto, for every message and number: that *)
(* its recursions are defined, that what is read of a message is a number  *)
(* or bytes of it, and that what is written can be read again.             *)
(***************************************************************************)
EXTENDS GameProto, WellFoundedInduction, FiniteSetTheorems, SequenceTheorems, TLAPS

-----------------------------------------------------------------------------
(* Recursion.  The codec's functions recurse over numbers and over places in *)
(* a message; that they are defined everywhere is by the least number where  *)
(* they would not be.                                                        *)

LEMMA LeastNumber ==
    ASSUME NEW S \in SUBSET Nat, S # {}
    PROVE  \E n \in S : \A m \in S : n <= m
<1>1. IsWellFoundedOn(OpToRel(<, Nat), Nat)
  BY NatLessThanWellFounded
<1>2. PICK n \in S : \A m \in S : <<m, n>> \notin OpToRel(<, Nat)
  BY <1>1, WFMin
<1>3. \A m \in S : ~(m < n)
  BY <1>2 DEF OpToRel
<1> QED
  BY <1>3

LEMMA Upward ==
    ASSUME NEW S, \A n \in Nat : (\A m \in 0..n - 1 : m \in S) => n \in S
    PROVE  \A n \in Nat : n \in S
<1> DEFINE Bad == {n \in Nat : n \notin S}
<1> SUFFICES ASSUME Bad # {} PROVE FALSE
  OBVIOUS
<1>1. PICK n \in Bad : \A m \in Bad : n <= m
  BY LeastNumber
<1>2. \A m \in 0..n - 1 : m \in S
  BY <1>1
<1> QED
  BY <1>1, <1>2

\* From the last place of a message to the first.
LEMMA Downward ==
    ASSUME NEW N \in Nat, NEW S,
           \A k \in 1..N : (\A m \in k + 1..N : m \in S) => k \in S
    PROVE  \A k \in 1..N : k \in S
<1> DEFINE T == {n \in Nat : n < N => N - n \in S}
<1>1. ASSUME NEW n \in Nat, \A m \in 0..n - 1 : m \in T
      PROVE  n \in T
  <2> SUFFICES ASSUME n < N PROVE N - n \in S
    OBVIOUS
  <2>1. ASSUME NEW m \in (N - n) + 1..N PROVE m \in S
    <3>1. N - m \in 0..n - 1 /\ N - m < N /\ N - (N - m) = m
      OBVIOUS
    <3> QED
      BY <1>1, <3>1
  <2>2. N - n \in 1..N
    OBVIOUS
  <2> QED
    BY <2>1, <2>2
<1> HIDE DEF T
<1>2. \A n \in Nat : n \in T
  BY <1>1, Upward
<1>3. ASSUME NEW k \in 1..N PROVE k \in S
  <2>1. N - k \in Nat /\ N - k < N /\ N - (N - k) = k
    OBVIOUS
  <2> QED
    BY <1>2, <2>1 DEF T
<1> QED
  BY <1>3

\* The number of a varint: From is a function of the places of its bytes.
IsNumber(g, s) ==
    g = [i \in 1..Len(s) + 1 |->
           IF i > Len(s) THEN 0 ELSE (s[i] % 128) + 128 * g[i + 1]]

LEMMA NumberDef ==
    ASSUME NEW s
    PROVE  Number(s) = (CHOOSE g : IsNumber(g, s))[1]
  BY DEF Number, IsNumber

LEMMA SevenBits ==
    ASSUME NEW s \in Seq(Byte)
    PROVE  Len(s) \in Nat /\ \A i \in 1..Len(s) : s[i] \in Byte /\ s[i] % 128 \in Nat
<1>1. \A b \in Byte : b % 128 \in Nat
  BY DEF Byte
<1> QED
  BY <1>1

LEMMA NumberType ==
    ASSUME NEW s \in Seq(Byte)
    PROVE  Number(s) \in Nat /\ \E g \in [1..Len(s) + 1 -> Nat] : IsNumber(g, s)
<1> DEFINE N == Len(s) + 1
<1>1. Len(s) \in Nat /\ N \in Nat /\ N = Len(s) + 1 /\ 1 \in 1..N
      /\ \A i \in 1..Len(s) : s[i] % 128 \in Nat
  BY SevenBits
<1> HIDE DEF N
<1> DEFINE Good(g, k) == \A i \in k..N :
                           g[i] = IF i > Len(s) THEN 0 ELSE (s[i] % 128) + 128 * g[i + 1]
           Has == {k \in 1..N : \E g \in [k..N -> Nat] : Good(g, k)}
<1>2. ASSUME NEW k \in 1..N, k > Len(s)
      PROVE  k \in Has
  <2> DEFINE g == [i \in k..N |-> 0]
  <2>1. g \in [k..N -> Nat]
    OBVIOUS
  <2>2. Good(g, k)
    BY <1>1, <1>2
  <2> HIDE DEF g
  <2> QED
    BY <2>1, <2>2
<1>3. ASSUME NEW k \in 1..Len(s), k + 1 \in Has
      PROVE  k \in Has
  <2>1. PICK g \in [k + 1..N -> Nat] : Good(g, k + 1)
    BY <1>3
  <2> DEFINE h == [i \in k..N |-> IF i = k THEN (s[k] % 128) + 128 * g[k + 1] ELSE g[i]]
  <2>2. g[k + 1] \in Nat /\ s[k] % 128 \in Nat
    BY <1>1, <2>1
  <2>3. h \in [k..N -> Nat]
    BY <1>1, <2>1, <2>2
  <2>4. Good(h, k)
    BY <1>1, <2>1
  <2> HIDE DEF h
  <2>5. \E f \in [k..N -> Nat] : Good(f, k)
    BY <2>3, <2>4
  <2>6. k \in 1..N
    BY <1>1
  <2> QED
    BY <2>5, <2>6
<1>4. 1 \in Has
  <2>1. ASSUME NEW k \in 1..N, \A m \in k + 1..N : m \in Has
        PROVE  k \in Has
    <3>1. k > Len(s) \/ (k \in 1..Len(s) /\ k + 1 \in k + 1..N)
      BY <1>1
    <3> HIDE DEF Has
    <3> QED
      BY <1>2, <1>3, <2>1, <3>1
  <2> HIDE DEF Has
  <2> QED
    BY <1>1, <2>1, Downward
<1>5. PICK g \in [1..N -> Nat] : Good(g, 1)
  BY <1>4
<1>6. IsNumber(g, s)
  BY <1>1, <1>5 DEF IsNumber
<1>7. ASSUME NEW f, IsNumber(f, s)
      PROVE  f[1] \in Nat
  <2> DEFINE S == {i \in 1..N : f[i] \in Nat}
  <2>1. \A i \in 1..N : f[i] = IF i > Len(s) THEN 0 ELSE (s[i] % 128) + 128 * f[i + 1]
    BY <1>1, <1>7 DEF IsNumber
  <2>2. ASSUME NEW k \in 1..N, \A m \in k + 1..N : m \in S
        PROVE  k \in S
    <3>1. CASE k > Len(s)
      BY <2>1, <3>1
    <3>2. CASE ~(k > Len(s))
      <4>1. k \in 1..Len(s) /\ k + 1 \in k + 1..N
        BY <1>1, <3>2
      <4>2. f[k + 1] \in Nat /\ s[k] % 128 \in Nat
        BY <1>1, <2>2, <4>1
      <4>3. f[k] = (s[k] % 128) + 128 * f[k + 1]
        BY <2>1, <3>2
      <4> QED
        BY <4>2, <4>3
    <3> QED
      BY <3>1, <3>2
  <2> HIDE DEF S
  <2>3. 1 \in S
    BY <1>1, <2>2, Downward
  <2> QED
    BY <2>3 DEF S
<1> QED
  BY <1>1, <1>5, <1>6, <1>7, NumberDef

\* Varints of the numbers up to n.
IsVarint(g, n) ==
    /\ g \in [0..n -> Seq(Byte)]
    /\ \A k \in 0..n : g[k] = IF k < 128 THEN << k >>
                              ELSE << 128 + (k % 128) >> \o g[k \div 128]

LEMMA Divided ==
    ASSUME NEW n \in Nat, n >= 128
    PROVE  /\ n \div 128 \in 0..n - 1 /\ n \div 128 # 0
           /\ 128 + (n % 128) \in Byte
           /\ n = 128 * (n \div 128) + (n % 128) /\ n % 128 \in 0..127
  BY DEF Byte

LEMMA VarintsAgree ==
    ASSUME NEW n \in Nat, NEW m \in Nat, NEW g, NEW h, IsVarint(g, n), IsVarint(h, m)
    PROVE  \A k \in Nat : k <= n /\ k <= m => g[k] = h[k]
<1> DEFINE S == {k \in Nat : k <= n /\ k <= m => g[k] = h[k]}
<1>1. ASSUME NEW k \in Nat, \A i \in 0..k - 1 : i \in S
      PROVE  k \in S
  <2> SUFFICES ASSUME k <= n, k <= m PROVE g[k] = h[k]
    OBVIOUS
  <2>0. /\ g[k] = IF k < 128 THEN << k >> ELSE << 128 + (k % 128) >> \o g[k \div 128]
        /\ h[k] = IF k < 128 THEN << k >> ELSE << 128 + (k % 128) >> \o h[k \div 128]
    <3>1. k \in 0..n /\ k \in 0..m
      OBVIOUS
    <3>2. \A j \in 0..n : g[j] = IF j < 128 THEN << j >>
                                  ELSE << 128 + (j % 128) >> \o g[j \div 128]
      BY DEF IsVarint
    <3>3. \A j \in 0..m : h[j] = IF j < 128 THEN << j >>
                                  ELSE << 128 + (j % 128) >> \o h[j \div 128]
      BY DEF IsVarint
    <3> QED
      BY <3>1, <3>2, <3>3
  <2>1. CASE k < 128
    BY <2>0, <2>1
  <2>2. CASE k >= 128
    <3>1. k \div 128 \in 0..k - 1
      BY <2>2, Divided
    <3>2. g[k \div 128] = h[k \div 128]
      BY <1>1, <3>1
    <3>3. ~(k < 128)
      BY <2>2
    <3> QED
      BY <2>0, <3>2, <3>3
  <2> QED
    BY <2>1, <2>2
<1> HIDE DEF S
<1>2. \A k \in Nat : k \in S
  BY <1>1, Upward
<1> QED
  BY <1>2 DEF S

LEMMA VarintsExist ==
    \A n \in Nat : \E g : IsVarint(g, n)
<1> DEFINE S == {n \in Nat : \E g : IsVarint(g, n)}
<1>1. ASSUME NEW n \in Nat, \A m \in 0..n - 1 : m \in S
      PROVE  n \in S
  <2>1. \E g : /\ n # 0 => IsVarint(g, n - 1)
    <3>1. n # 0 => n - 1 \in 0..n - 1
      OBVIOUS
    <3> QED
      BY <1>1, <3>1
  <2>2. PICK g : n # 0 => IsVarint(g, n - 1)
    BY <2>1
  <2> DEFINE step == IF n < 128 THEN << n >> ELSE << 128 + (n % 128) >> \o g[n \div 128]
             h == [k \in 0..n |-> IF k = n THEN step ELSE g[k]]
  <2>3. \A k \in 0..n - 1 : g[k] \in Seq(Byte)
    BY <2>2 DEF IsVarint
  <2>4. step \in Seq(Byte)
    <3>1. CASE n < 128
      <4>1. n \in Byte
        BY <3>1 DEF Byte
      <4> QED
        BY <3>1, <4>1
    <3>2. CASE n >= 128
      <4>1. n \div 128 \in 0..n - 1 /\ 128 + (n % 128) \in Byte
        BY <3>2, Divided
      <4>2. g[n \div 128] \in Seq(Byte) /\ << 128 + (n % 128) >> \in Seq(Byte)
        BY <2>3, <4>1
      <4> QED
        BY <3>2, <4>2
    <3> QED
      BY <3>1, <3>2
  <2> HIDE DEF step
  <2>5. h \in [0..n -> Seq(Byte)]
    BY <2>3, <2>4
  <2>6. ASSUME NEW k \in 0..n
        PROVE  h[k] = IF k < 128 THEN << k >> ELSE << 128 + (k % 128) >> \o h[k \div 128]
    <3>1. k >= 128 => k \div 128 \in 0..k - 1
      BY Divided
    <3>2. k >= 128 => h[k \div 128] = g[k \div 128]
      BY <3>1
    <3>3. CASE k = n
      BY <3>2, <3>3 DEF step
    <3>4. CASE k # n
      <4>1. k \in 0..n - 1 /\ n # 0 /\ h[k] = g[k]
        BY <3>4
      <4>2. g[k] = IF k < 128 THEN << k >> ELSE << 128 + (k % 128) >> \o g[k \div 128]
        BY <2>2, <4>1 DEF IsVarint
      <4>3. CASE k < 128
        BY <4>1, <4>2, <4>3
      <4>4. CASE k >= 128
        BY <3>2, <4>1, <4>2, <4>4
      <4> QED
        BY <4>3, <4>4
    <3> QED
      BY <3>3, <3>4
  <2>7. IsVarint(h, n)
    BY <2>5, <2>6 DEF IsVarint
  <2> QED
    BY <2>7
<1> HIDE DEF S
<1>2. \A n \in Nat : n \in S
  BY <1>1, Upward
<1> QED
  BY <1>2 DEF S

\* What _encode_varint writes, for every number.
LEMMA VarintDef ==
    /\ Varint \in [Nat -> Seq(Byte)]
    /\ \A n \in Nat : Varint[n] = IF n < 128 THEN << n >>
                                  ELSE << 128 + (n % 128) >> \o Varint[n \div 128]
<1> DEFINE Fun(f) == f = [n \in Nat |-> IF n < 128 THEN << n >>
                                        ELSE << 128 + (n % 128) >> \o f[n \div 128]]
           G == [n \in Nat |-> (CHOOSE g : IsVarint(g, n))[n]]
<1>1. \A n \in Nat : IsVarint(CHOOSE g : IsVarint(g, n), n)
  BY VarintsExist
<1>2. ASSUME NEW n \in Nat
      PROVE  /\ G[n] \in Seq(Byte)
             /\ G[n] = IF n < 128 THEN << n >> ELSE << 128 + (n % 128) >> \o G[n \div 128]
  <2> DEFINE g == CHOOSE g : IsVarint(g, n)
  <2>1. IsVarint(g, n) /\ G[n] = g[n]
    BY <1>1
  <2> HIDE DEF g
  <2>2. n >= 128 => g[n \div 128] = G[n \div 128]
    <3> SUFFICES ASSUME n >= 128 PROVE g[n \div 128] = G[n \div 128]
      OBVIOUS
    <3> DEFINE m == n \div 128
    <3>1. m \in Nat /\ m <= n
      BY Divided
    <3> HIDE DEF m
    <3>2. IsVarint(CHOOSE h : IsVarint(h, m), m)
      BY <1>1, <3>1
    <3>3. g[m] = (CHOOSE h : IsVarint(h, m))[m]
      BY <2>1, <3>1, <3>2, VarintsAgree
    <3> QED
      BY <3>1, <3>3 DEF m
  <2> HIDE DEF G
  <2>3. n \in 0..n
    OBVIOUS
  <2>4. /\ g[n] \in Seq(Byte)
        /\ g[n] = IF n < 128 THEN << n >> ELSE << 128 + (n % 128) >> \o g[n \div 128]
    BY <2>1, <2>3 DEF IsVarint
  <2>5. CASE n < 128
    BY <2>1, <2>4, <2>5
  <2>6. CASE n >= 128
    <3>1. g[n \div 128] = G[n \div 128] /\ ~(n < 128)
      BY <2>2, <2>6
    <3> QED
      BY <2>1, <2>4, <3>1
  <2> QED
    BY <2>5, <2>6
<1> HIDE DEF G
<1>3. Fun(G)
  <2>1. G = [n \in Nat |-> G[n]]
    BY DEF G
  <2> QED
    BY <1>2, <2>1
<1>4. Varint = CHOOSE f : Fun(f)
  BY DEF Varint
<1>5. Fun(Varint)
  <2> HIDE DEF Fun
  <2>1. Fun(CHOOSE f : Fun(f))
    BY <1>3, Zenon
  <2> QED
    BY <1>4, <2>1, Zenon
<1>6. \A n \in Nat : Varint[n] = IF n < 128 THEN << n >>
                                 ELSE << 128 + (n % 128) >> \o Varint[n \div 128]
  BY <1>5
<1> HIDE DEF Fun
<1> DEFINE S == {n \in Nat : Varint[n] \in Seq(Byte)}
<1>7. ASSUME NEW n \in Nat, \A m \in 0..n - 1 : m \in S
      PROVE  n \in S
  <2>1. CASE n < 128
    <3>1. << n >> \in Seq(Byte)
      <4>1. n \in Byte
        BY <2>1 DEF Byte
      <4> QED
        BY <4>1
    <3>2. Varint[n] = << n >>
      BY <1>6, <2>1
    <3> QED
      BY <3>1, <3>2
  <2>2. CASE n >= 128
    <3>1. n \div 128 \in 0..n - 1 /\ 128 + (n % 128) \in Byte
      BY <2>2, Divided
    <3>2. Varint[n \div 128] \in Seq(Byte) /\ << 128 + (n % 128) >> \in Seq(Byte)
      BY <1>7, <3>1
    <3>3. ~(n < 128)
      BY <2>2
    <3>4. Varint[n] = << 128 + (n % 128) >> \o Varint[n \div 128]
      BY <1>6, <3>3
    <3>5. << 128 + (n % 128) >> \o Varint[n \div 128] \in Seq(Byte)
      BY <3>2
    <3> QED
      BY <3>4, <3>5
  <2> QED
    BY <2>1, <2>2
<1> HIDE DEF S
<1>8. \A n \in Nat : n \in S
  BY <1>7, Upward
<1>9. Varint = [n \in Nat |-> Varint[n]]
  BY <1>5 DEF Fun
<1> QED
  BY <1>6, <1>8, <1>9 DEF S

-----------------------------------------------------------------------------
(* Reading.  What is found in a message is a number, or bytes, and lies in   *)
(* the message.                                                              *)

Found(data, o) == [number : Nat, end : o + 1..Len(data) + 1]

LEMMA DecodeType ==
    ASSUME NEW data \in Seq(Byte), NEW o \in Nat \ {0}
    PROVE  DecodeVarint(data, o) = NoField \/ DecodeVarint(data, o) \in Found(data, o)
<1> DEFINE lasts == {i \in DOMAIN data : o <= i /\ i < o + 10 /\ data[i] < 128}
           least == CHOOSE i \in lasts : \A j \in lasts : i <= j
<1>1. CASE lasts = {}
  BY <1>1 DEF DecodeVarint
<1>2. CASE lasts # {}
  <2>1. lasts \in SUBSET Nat
    OBVIOUS
  <2>2. \E i \in lasts : \A j \in lasts : i <= j
    BY <1>2, <2>1, LeastNumber
  <2>3. least \in lasts
    BY <2>2
  <2>4. least \in 1..Len(data) /\ o <= least
    BY <2>3
  <2> HIDE DEF least
  <2>5. SubSeq(data, o, least) \in Seq(Byte)
    BY <2>4
  <2>6. Number(SubSeq(data, o, least)) \in Nat
    BY <2>5, NumberType
  <2>7. DecodeVarint(data, o) = [number |-> Number(SubSeq(data, o, least)), end |-> least + 1]
    BY <1>2 DEF DecodeVarint, least
  <2> QED
    BY <2>4, <2>6, <2>7 DEF Found
<1> QED
  BY <1>1, <1>2

\* The fields that start at o: of a number, and of bytes.
Numeric(data, o) ==
    [number : Nat, type : {0}, value : Nat, start : {o}, end : o + 1..Len(data) + 1]
Opaque(data, o) ==
    [number : Nat, type : {1, 2, 5}, value : Seq(Byte), start : {o},
     end : o + 1..Len(data) + 1]

LEMMA NoFieldIsNone ==
    ASSUME NEW data, NEW o
    PROVE  NoField \notin Found(data, o) \cup Numeric(data, o) \cup Opaque(data, o)
<1>1. DOMAIN NoField = {"number"}
  BY DEF NoField
<1>2. \A r \in Found(data, o) : "end" \in DOMAIN r
  BY DEF Found
<1>3. \A r \in Numeric(data, o) : "end" \in DOMAIN r
  BY DEF Numeric
<1>4. \A r \in Opaque(data, o) : "end" \in DOMAIN r
  BY DEF Opaque
<1> QED
  BY <1>1, <1>2, <1>3, <1>4

LEMMA EndIsNone == \A t, e : [number |-> t, end |-> e] # NoField
<1> TAKE t, e
<1> DEFINE r == [number |-> t, end |-> e]
<1>1. "end" \in DOMAIN r /\ "end" \notin DOMAIN NoField
  BY DEF NoField
<1> HIDE DEF r
<1>2. r # NoField
  BY <1>1
<1> QED
  BY <1>2 DEF r

LEMMA FieldAtType ==
    ASSUME NEW data \in Seq(Byte), NEW o \in Nat \ {0}
    PROVE  FieldAt(data, o) \in {NoField} \cup Numeric(data, o) \cup Opaque(data, o)
<1> DEFINE tag == DecodeVarint(data, o)
           arg == DecodeVarint(data, tag.end)
<1>1. CASE tag = NoField \/ tag.number < 8
  BY <1>1 DEF FieldAt, TaggedField
<1>2. CASE ~(tag = NoField \/ tag.number < 8)
  <2>1. tag \in Found(data, o)
    BY <1>2, DecodeType
  <2>2. /\ tag.number \in Nat /\ tag.end \in o + 1..Len(data) + 1
        /\ tag.end \in Nat \ {0}
    BY <2>1 DEF Found
  <2>3. arg = NoField \/ arg \in Found(data, tag.end)
    BY <2>2, DecodeType
  <2> HIDE DEF tag, arg
  <2>4. tag.number \div 8 \in Nat
    BY <2>2
  <2>5. ASSUME NEW first \in tag.end..Len(data) + 1, NEW length \in Nat,
               tag.number % 8 \in {1, 2, 5}
        PROVE  Payload(data, o, tag, first, length) \in {NoField} \cup Opaque(data, o)
    <3>1. CASE first + length > Len(data) + 1
      BY <3>1 DEF Payload
    <3>2. CASE ~(first + length > Len(data) + 1)
      <4>1. SubSeq(data, first, first + length - 1) \in Seq(Byte)
        BY <2>2, <3>2
      <4>2. first + length \in o + 1..Len(data) + 1
        BY <2>2, <3>2
      <4> QED
        BY <2>4, <2>5, <3>2, <4>1, <4>2 DEF Payload, Opaque
    <3> QED
      BY <3>1, <3>2
  <2>6. FieldAt(data, o) =
          CASE tag.number % 8 = 0 -> VarintPayload(o, tag, arg)
            [] tag.number % 8 = 2 -> BytesPayload(data, o, tag, arg)
            [] tag.number % 8 \in {1, 5} ->
                 Payload(data, o, tag, tag.end, IF tag.number % 8 = 1 THEN 8 ELSE 4)
            [] OTHER -> NoField
    BY <1>2 DEF FieldAt, TaggedField, tag, arg
  <2>7. CASE tag.number % 8 = 0
    <3>1. FieldAt(data, o) = VarintPayload(o, tag, arg)
      BY <2>6, <2>7
    <3>2. CASE arg = NoField
      BY <3>1, <3>2 DEF VarintPayload
    <3>3. CASE arg # NoField
      <4>1. arg.number \in Nat /\ arg.end \in tag.end + 1..Len(data) + 1
        BY <2>3, <3>3 DEF Found
      <4>2. arg.end \in o + 1..Len(data) + 1
        BY <2>2, <4>1
      <4> QED
        BY <2>4, <3>1, <3>3, <4>1, <4>2 DEF VarintPayload, Numeric
    <3> QED
      BY <3>2, <3>3
  <2>8. CASE tag.number % 8 = 2
    <3>1. FieldAt(data, o) = BytesPayload(data, o, tag, arg)
      BY <2>6, <2>8
    <3>2. CASE arg = NoField
      BY <3>1, <3>2 DEF BytesPayload
    <3>3. CASE arg # NoField
      <4>1. arg.number \in Nat /\ arg.end \in tag.end + 1..Len(data) + 1
        BY <2>3, <3>3 DEF Found
      <4>2. arg.end \in tag.end..Len(data) + 1
        BY <2>2, <4>1
      <4> QED
        BY <2>5, <2>8, <3>1, <3>3, <4>1, <4>2 DEF BytesPayload
    <3> QED
      BY <3>2, <3>3
  <2>9. CASE tag.number % 8 \in {1, 5}
    <3>1. FieldAt(data, o) =
            Payload(data, o, tag, tag.end, IF tag.number % 8 = 1 THEN 8 ELSE 4)
      BY <2>6, <2>9
    <3>2. (IF tag.number % 8 = 1 THEN 8 ELSE 4) \in Nat /\ tag.end \in tag.end..Len(data) + 1
      BY <2>2
    <3> QED
      BY <2>5, <2>9, <3>1, <3>2
  <2>10. CASE tag.number % 8 \notin {0, 1, 2, 5}
    BY <2>6, <2>10
  <2> QED
    BY <2>7, <2>8, <2>9, <2>10
<1> QED
  BY <1>1, <1>2

\* A place of a message, and the fields that may start there.
FieldsOf(data) ==
    {NoField} \cup UNION {Numeric(data, o) \cup Opaque(data, o) : o \in 1..Len(data)}

LEMMA FieldIsOfMessage ==
    ASSUME NEW data \in Seq(Byte), NEW o \in 1..Len(data)
    PROVE  /\ FieldAt(data, o) \in FieldsOf(data)
           /\ FieldAt(data, o) # NoField => FieldAt(data, o).end \in o + 1..Len(data) + 1
<1>1. FieldAt(data, o) \in {NoField} \cup Numeric(data, o) \cup Opaque(data, o)
  BY FieldAtType
<1>2. FieldAt(data, o) # NoField => FieldAt(data, o).end \in o + 1..Len(data) + 1
  BY <1>1 DEF Numeric, Opaque
<1> QED
  BY <1>1, <1>2 DEF FieldsOf

\* What iter_fields yields from each place of the message on.
IsFields(g, data) ==
    g = [o \in 1..Len(data) + 1 |->
           IF o > Len(data) THEN << >>
           ELSE << FieldAt(data, o) >> \o (IF FieldAt(data, o) = NoField THEN << >>
                                           ELSE g[FieldAt(data, o).end])]

LEMMA FieldsDef ==
    ASSUME NEW data
    PROVE  Fields(data) = (CHOOSE g : IsFields(g, data))[1]
  BY DEF Fields, IsFields

LEMMA FieldsExist ==
    ASSUME NEW data \in Seq(Byte)
    PROVE  \E g \in [1..Len(data) + 1 -> Seq(FieldsOf(data))] : IsFields(g, data)
<1> DEFINE N == Len(data) + 1
           F == Seq(FieldsOf(data))
           next(o) == FieldAt(data, o).end
<1>1. Len(data) \in Nat /\ N \in Nat /\ N = Len(data) + 1 /\ 1 \in 1..N
  OBVIOUS
<1>2. \A o \in 1..Len(data) : /\ << FieldAt(data, o) >> \in F
                              /\ FieldAt(data, o) # NoField => next(o) \in o + 1..N
  BY FieldIsOfMessage
<1>3. << >> \in F /\ \A a, b \in F : a \o b \in F
  OBVIOUS
<1> HIDE DEF N, F, next
<1> DEFINE Step(o, g) == IF o > Len(data) THEN << >>
                         ELSE << FieldAt(data, o) >> \o
                                (IF FieldAt(data, o) = NoField THEN << >> ELSE g[next(o)])
           Good(g, k) == \A o \in k..N : g[o] = Step(o, g)
           Has == {k \in 1..N : \E g \in [k..N -> F] : Good(g, k)}
<1>4. ASSUME NEW k \in 1..N, k > Len(data)
      PROVE  k \in Has
  <2> DEFINE g == [o \in k..N |-> << >>]
  <2>1. g \in [k..N -> F]
    BY <1>3
  <2>2. Good(g, k)
    BY <1>1, <1>4
  <2> HIDE DEF g
  <2> QED
    BY <2>1, <2>2
<1>5. ASSUME NEW k \in 1..Len(data), k + 1 \in Has
      PROVE  k \in Has
  <2>1. PICK g \in [k + 1..N -> F] : Good(g, k + 1)
    BY <1>5
  <2> DEFINE h == [o \in k..N |-> IF o = k THEN Step(k, g) ELSE g[o]]
  <2>2. Step(k, g) \in F
    <3>1. ~(k > Len(data))
      BY <1>1
    <3>2. CASE FieldAt(data, k) = NoField
      <4>1. Step(k, g) = << FieldAt(data, k) >> \o << >>
        BY <3>1, <3>2
      <4> QED
        BY <1>2, <1>3, <4>1
    <3>3. CASE FieldAt(data, k) # NoField
      <4>1. g[next(k)] \in F
        BY <1>2, <2>1, <3>3
      <4>2. Step(k, g) = << FieldAt(data, k) >> \o g[next(k)]
        BY <3>1, <3>3
      <4> QED
        BY <1>2, <1>3, <4>1, <4>2
    <3> QED
      BY <3>2, <3>3
  <2>3. h \in [k..N -> F]
    <3>1. \A o \in k..N : o # k => o \in k + 1..N
      BY <1>1
    <3> HIDE DEF Step
    <3> QED
      BY <2>1, <2>2, <3>1
  <2>4. ASSUME NEW o \in k..N
        PROVE  h[o] = Step(o, h)
    <3>1. ~(o > Len(data)) /\ FieldAt(data, o) # NoField => h[next(o)] = g[next(o)]
      <4> SUFFICES ASSUME ~(o > Len(data)), FieldAt(data, o) # NoField
                   PROVE  h[next(o)] = g[next(o)]
        OBVIOUS
      <4>1. o \in 1..Len(data)
        BY <1>1
      <4>2. next(o) \in o + 1..N
        BY <1>2, <4>1
      <4>3. next(o) \in k..N /\ next(o) # k
        BY <1>1, <4>2
      <4> QED
        BY <4>3
    <3>2. Step(o, h) = Step(o, g)
      <4>1. CASE o > Len(data) \/ FieldAt(data, o) = NoField
        BY <4>1
      <4>2. CASE ~(o > Len(data)) /\ FieldAt(data, o) # NoField
        <5>1. h[next(o)] = g[next(o)]
          BY <3>1, <4>2
        <5> HIDE DEF h
        <5> QED
          BY <4>2, <5>1
      <4> QED
        BY <4>1, <4>2
    <3>3. h[o] = Step(o, g)
      <4>1. CASE o = k
        BY <4>1
      <4>2. CASE o # k
        <5>1. o \in k + 1..N
          BY <1>1, <4>2
        <5>2. h[o] = g[o]
          BY <4>2
        <5> QED
          BY <2>1, <5>1, <5>2
      <4> QED
        BY <4>1, <4>2
    <3> QED
      BY <3>2, <3>3
  <2>5. Good(h, k)
    BY <2>4
  <2> HIDE DEF h, Good
  <2>6. \E f \in [k..N -> F] : Good(f, k)
    BY <2>3, <2>5
  <2>7. k \in 1..N
    BY <1>1
  <2> QED
    BY <2>6, <2>7
<1>6. 1 \in Has
  <2>1. ASSUME NEW k \in 1..N, \A m \in k + 1..N : m \in Has
        PROVE  k \in Has
    <3>1. k > Len(data) \/ (k \in 1..Len(data) /\ k + 1 \in k + 1..N)
      BY <1>1
    <3> HIDE DEF Has
    <3> QED
      BY <1>4, <1>5, <2>1, <3>1
  <2> HIDE DEF Has
  <2> QED
    BY <1>1, <2>1, Downward
<1>7. PICK g \in [1..N -> F] : Good(g, 1)
  BY <1>6
<1>8. g = [o \in 1..N |-> Step(o, g)]
  <2> HIDE DEF Step
  <2> QED
    BY <1>7
<1>9. IsFields(g, data)
  BY <1>8 DEF IsFields, N, next
<1> QED
  BY <1>7, <1>9 DEF N, F

LEMMA FieldsType ==
    ASSUME NEW data \in Seq(Byte)
    PROVE  Fields(data) \in Seq(FieldsOf(data))
<1> DEFINE N == Len(data) + 1
           F == Seq(FieldsOf(data))
           f == CHOOSE g : IsFields(g, data)
           S == {o \in 1..N : f[o] \in F}
<1>1. IsFields(f, data)
  BY FieldsExist
<1> HIDE DEF f
<1>2. ASSUME NEW k \in 1..N, \A m \in k + 1..N : m \in S
      PROVE  k \in S
  <2>1. CASE k > Len(data)
    <3>1. f[k] = << >>
      BY <1>1, <2>1 DEF IsFields
    <3>2. << >> \in F
      OBVIOUS
    <3>3. f[k] \in F
      BY <3>1, <3>2
    <3> QED
      BY <3>3
  <2>2. CASE ~(k > Len(data))
    <3>1. k \in 1..Len(data)
      BY <2>2
    <3>2. << FieldAt(data, k) >> \in F
      BY <3>1, FieldIsOfMessage
    <3>3. CASE FieldAt(data, k) = NoField
      <4>1. f[k] = << FieldAt(data, k) >> \o << >>
        BY <1>1, <2>2, <3>3 DEF IsFields
      <4>2. << FieldAt(data, k) >> \o << >> \in F
        BY <3>2
      <4>3. f[k] \in F
        BY <4>1, <4>2
      <4> QED
        BY <4>3
    <3>4. CASE FieldAt(data, k) # NoField
      <4>1. f[k] = << FieldAt(data, k) >> \o f[FieldAt(data, k).end]
        BY <1>1, <2>2, <3>4 DEF IsFields
      <4>2. f[FieldAt(data, k).end] \in F
        BY <1>2, <3>1, <3>4, FieldIsOfMessage
      <4>3. << FieldAt(data, k) >> \o f[FieldAt(data, k).end] \in F
        BY <3>2, <4>2
      <4>4. f[k] \in F
        BY <4>1, <4>3
      <4> QED
        BY <4>4
    <3> QED
      BY <3>3, <3>4
  <2> QED
    BY <2>1, <2>2
<1>3. N \in Nat /\ 1 \in 1..N
  OBVIOUS
<1> HIDE DEF S, N
<1>4. 1 \in S
  BY <1>2, <1>3, Downward
<1> QED
  BY <1>4, FieldsDef DEF S, f

LEMMA FieldType ==
    ASSUME NEW data \in Seq(Byte), NEW number \in Nat \ {0}, NEW type
    PROVE  \/ Field(data, number, type) = NoField
           \/ /\ Field(data, number, type) \in FieldsOf(data) \ {NoField}
              /\ Field(data, number, type).type = type
<1> DEFINE fs == Fields(data)
           found == {i \in DOMAIN fs : fs[i].number = number /\ fs[i].type = type}
<1>1. CASE found = {}
  BY <1>1 DEF Field
<1>2. CASE found # {}
  <2>1. fs \in Seq(FieldsOf(data))
    BY FieldsType
  <2>2. DOMAIN fs = 1..Len(fs) /\ Len(fs) \in Nat /\ \A i \in DOMAIN fs : fs[i] \in FieldsOf(data)
    BY <2>1
  <2> HIDE DEF fs
  <2>3. found \in SUBSET Nat
    BY <2>2
  <2>4. \E i \in found : \A j \in found : i <= j
    BY <1>2, <2>3, LeastNumber
  <2>5. Min(found) \in found
    BY <2>4 DEF Min
  <2>6. Field(data, number, type) = fs[Min(found)]
    BY <1>2 DEF Field, fs
  <2> DEFINE m == Min(found)
  <2> HIDE DEF m
  <2>7. m \in DOMAIN fs /\ fs[m].number = number /\ fs[m].type = type
    BY <2>5 DEF m
  <2>8. fs[m] # NoField
    BY <2>7 DEF NoField
  <2>9. fs[m] \in FieldsOf(data)
    BY <2>2, <2>7
  <2> QED
    BY <2>6, <2>7, <2>8, <2>9 DEF m
<1> QED
  BY <1>1, <1>2

LEMMA FieldParts ==
    ASSUME NEW data \in Seq(Byte), NEW f \in FieldsOf(data) \ {NoField}
    PROVE  /\ f.start \in 1..Len(data) /\ f.end \in f.start + 1..Len(data) + 1
           /\ f.type = 0 => f.value \in Nat
           /\ f.type = 2 => f.value \in Seq(Byte)
<1>1. PICK o \in 1..Len(data) : f \in Numeric(data, o) \cup Opaque(data, o)
  BY DEF FieldsOf
<1>2. CASE f \in Numeric(data, o)
  BY <1>2 DEF Numeric
<1>3. CASE f \in Opaque(data, o)
  BY <1>3 DEF Opaque
<1> QED
  BY <1>1, <1>2, <1>3

\* What the handlers read of a message is a number, or a message.
LEMMA GotType ==
    ASSUME NEW data \in Seq(Byte), NEW number \in Nat \ {0}
    PROVE  GetVarint(data, number) \in Nat /\ GetBytes(data, number) \in Seq(Byte)
<1>1. GetVarint(data, number) \in Nat
  BY FieldType, FieldParts DEF GetVarint, ValueOr
<1>2. << >> \in Seq(Byte)
  OBVIOUS
<1>3. GetBytes(data, number) \in Seq(Byte)
  BY <1>2, FieldType, FieldParts DEF GetBytes, ValueOr
<1> QED
  BY <1>1, <1>3

-----------------------------------------------------------------------------
(* Writing.  A message with a field replaced is a message.                   *)

LEMMA ReplacedType ==
    ASSUME NEW data \in Seq(Byte), NEW number \in Nat \ {0}, NEW type,
           NEW replacement \in Seq(Byte)
    PROVE  ReplaceField(data, number, type, replacement) \in Seq(Byte)
<1> DEFINE f == Field(data, number, type)
<1>1. f = NoField \/ f \in FieldsOf(data) \ {NoField}
  BY FieldType
<1>2. ReplaceField(data, number, type, replacement) =
        IF f = NoField THEN data \o replacement
        ELSE SubSeq(data, 1, f.start - 1) \o replacement \o SubSeq(data, f.end, Len(data))
  BY DEF ReplaceField
<1> HIDE DEF f
<1>3. CASE f = NoField
  BY <1>2, <1>3
<1>4. CASE f # NoField
  <2>1. f.start \in 1..Len(data) /\ f.end \in f.start + 1..Len(data) + 1
    BY <1>1, <1>4, FieldParts
  <2>2. SubSeq(data, 1, f.start - 1) \in Seq(Byte) /\ SubSeq(data, f.end, Len(data)) \in Seq(Byte)
    BY <2>1
  <2> QED
    BY <1>2, <1>4, <2>2
<1> QED
  BY <1>3, <1>4

LEMMA PatchedType ==
    ASSUME NEW data \in Seq(Byte), NEW number \in Nat \ {0}
    PROVE  /\ \A n \in Nat : PatchVarint(data, number, n) \in Seq(Byte)
           /\ \A b \in Seq(Byte) : PatchBytes(data, number, b) \in Seq(Byte)
<1>1. \A n \in Nat : Varint[n] \in Seq(Byte)
  BY VarintDef
<1>2. 8 * number \in Nat /\ 8 * number + 2 \in Nat
  OBVIOUS
<1>3. ASSUME NEW n \in Nat PROVE PatchVarint(data, number, n) \in Seq(Byte)
  <2>1. VarintField(number, n) \in Seq(Byte)
    BY <1>1, <1>2 DEF VarintField
  <2> QED
    BY <2>1, ReplacedType DEF PatchVarint
<1>4. ASSUME NEW b \in Seq(Byte) PROVE PatchBytes(data, number, b) \in Seq(Byte)
  <2>1. Varint[Len(b)] \in Seq(Byte) /\ Varint[8 * number + 2] \in Seq(Byte)
    BY <1>1, <1>2
  <2>2. BytesField(number, b) \in Seq(Byte)
    BY <2>1 DEF BytesField
  <2> QED
    BY <2>2, ReplacedType DEF PatchBytes
<1> QED
  BY <1>3, <1>4

-----------------------------------------------------------------------------
(* Numbers that are written can be read: the bytes of a varint but the last  *)
(* are above 127, and they stand for the number.                             *)

LEMMA Consed ==
    ASSUME NEW T, NEW b \in T, NEW s \in Seq(T)
    PROVE  /\ << b >> \o s \in Seq(T) /\ Len(<< b >> \o s) = Len(s) + 1
           /\ (<< b >> \o s)[1] = b
           /\ \A i \in 1..Len(s) : (<< b >> \o s)[i + 1] = s[i]
  OBVIOUS

LEMMA NumberOfNone == Number(<< >>) = 0
<1>1. << >> \in Seq(Byte) /\ Len(<< >>) = 0
  OBVIOUS
<1> DEFINE g == CHOOSE g : IsNumber(g, << >>)
<1>2. IsNumber(g, << >>)
  BY <1>1, NumberType
<1> HIDE DEF g
<1>3. g[1] = 0
  BY <1>1, <1>2 DEF IsNumber
<1> QED
  BY <1>3, NumberDef DEF g

LEMMA NumberCons ==
    ASSUME NEW b \in Byte, NEW s \in Seq(Byte)
    PROVE  Number(<< b >> \o s) = (b % 128) + 128 * Number(s)
<1> DEFINE t == << b >> \o s
           g == CHOOSE g : IsNumber(g, t)
           h == CHOOSE h : IsNumber(h, s)
           N == Len(s) + 1
<1>1. /\ t \in Seq(Byte) /\ Len(t) = N /\ t[1] = b /\ \A i \in 1..Len(s) : t[i + 1] = s[i]
      /\ Len(s) \in Nat /\ N \in Nat /\ N = Len(s) + 1 /\ 1 \in 1..N
  BY Consed
<1>2. Number(t) = g[1] /\ Number(s) = h[1]
  BY NumberDef
<1> HIDE DEF t
<1>3. IsNumber(g, t) /\ IsNumber(h, s)
  BY <1>1, NumberType
<1> HIDE DEF g, h, N
<1>4. /\ \A i \in 1..N + 1 : g[i] = IF i > N THEN 0 ELSE (t[i] % 128) + 128 * g[i + 1]
      /\ \A i \in 1..N : h[i] = IF i > Len(s) THEN 0 ELSE (s[i] % 128) + 128 * h[i + 1]
  BY <1>1, <1>3 DEF IsNumber
<1> DEFINE S == {i \in 1..N : g[i + 1] = h[i]}
<1>5. ASSUME NEW k \in 1..N, \A m \in k + 1..N : m \in S
      PROVE  k \in S
  <2>1. k + 1 \in 1..N + 1 /\ (k + 1 > N <=> k > Len(s))
    BY <1>1
  <2>2. CASE k > Len(s)
    <3>1. g[k + 1] = 0 /\ h[k] = 0
      BY <1>4, <2>1, <2>2
    <3> QED
      BY <3>1
  <2>3. CASE ~(k > Len(s))
    <3>1. k \in 1..Len(s) /\ k + 1 \in k + 1..N
      BY <1>1, <2>3
    <3>2. g[(k + 1) + 1] = h[k + 1]
      BY <1>5, <3>1
    <3>3. g[k + 1] = (t[k + 1] % 128) + 128 * g[(k + 1) + 1]
      BY <1>4, <2>1, <2>3
    <3>4. h[k] = (s[k] % 128) + 128 * h[k + 1]
      BY <1>4, <2>3
    <3>5. g[k + 1] = h[k]
      BY <1>1, <3>1, <3>2, <3>3, <3>4
    <3> QED
      BY <3>5
  <2> QED
    BY <2>2, <2>3
<1> HIDE DEF S
<1>6. 1 \in S
  BY <1>1, <1>5, Downward
<1>7. g[1 + 1] = h[1]
  BY <1>6 DEF S
<1>8. g[1] = (t[1] % 128) + 128 * g[1 + 1]
  BY <1>1, <1>4
<1> QED
  BY <1>1, <1>2, <1>7, <1>8 DEF t

\* What _encode_varint writes is a number's only.
IsCode(v, n) ==
    /\ v \in Seq(Byte) /\ Len(v) \in Nat \ {0}
    /\ \A i \in 1..Len(v) - 1 : v[i] >= 128
    /\ v[Len(v)] < 128
    /\ Number(v) = n

LEMMA Remainder ==
    ASSUME NEW r \in 0..127
    PROVE  (128 + r) % 128 = r /\ r % 128 = r
  OBVIOUS

LEMMA VarintIsCode == \A n \in Nat : IsCode(Varint[n], n)
<1> DEFINE S == {n \in Nat : IsCode(Varint[n], n)}
<1>1. ASSUME NEW n \in Nat, \A m \in 0..n - 1 : m \in S
      PROVE  n \in S
  <2>1. CASE n < 128
    <3>1. Varint[n] = << n >>
      BY <2>1, VarintDef
    <3>2. n \in Byte /\ << >> \in Seq(Byte) /\ << n >> = << n >> \o << >> /\ n % 128 = n
      BY <2>1, Remainder DEF Byte
    <3>3. Number(<< n >>) = n
      <4>1. Number(<< n >> \o << >>) = (n % 128) + 128 * Number(<< >>)
        BY <3>2, NumberCons
      <4>2. Number(<< n >> \o << >>) = n
        BY <3>2, <4>1, NumberOfNone
      <4> QED
        BY <3>2, <4>2
    <3>4. << n >> \in Seq(Byte) /\ Len(<< n >>) = 1 /\ << n >>[1] = n
      BY <3>2
    <3>5. IsCode(<< n >>, n)
      BY <2>1, <3>3, <3>4 DEF IsCode
    <3> QED
      BY <3>1, <3>5
  <2>2. CASE n >= 128
    <3> DEFINE m == n \div 128
               r == n % 128
               b == 128 + r
               w == Varint[m]
               v == << b >> \o w
    <3>1. m \in 0..n - 1 /\ b \in Byte /\ n = 128 * m + r /\ r \in 0..127 /\ b = 128 + r
      BY <2>2, Divided
    <3>2. Varint[n] = v
      <4>1. ~(n < 128)
        BY <2>2
      <4> QED
        BY <4>1, VarintDef
    <3> HIDE DEF m, r, b
    <3>3. m \in S
      BY <1>1, <3>1
    <3>4. IsCode(w, m)
      BY <3>3 DEF S
    <3> HIDE DEF w
    <3>5. w \in Seq(Byte) /\ Len(w) \in Nat \ {0}
      BY <3>4 DEF IsCode
    <3>6. /\ v \in Seq(Byte) /\ Len(v) = Len(w) + 1 /\ v[1] = b
          /\ \A i \in 1..Len(w) : v[i + 1] = w[i]
      BY <3>1, <3>5, Consed
    <3>7. Number(v) = n
      <4>1. Number(v) = (b % 128) + 128 * Number(w)
        BY <3>1, <3>5, NumberCons
      <4>2. b % 128 = r /\ Number(w) = m
        BY <3>1, <3>4, Remainder DEF IsCode
      <4> QED
        BY <3>1, <4>1, <4>2
    <3> HIDE DEF v
    <3>8. ASSUME NEW i \in 1..Len(v) - 1 PROVE v[i] >= 128
      <4>1. CASE i = 1
        BY <3>1, <3>6, <4>1
      <4>2. CASE i # 1
        <5>1. i - 1 \in 1..Len(w) - 1 /\ i - 1 \in 1..Len(w) /\ (i - 1) + 1 = i
          BY <3>5, <3>6, <4>2
        <5>2. v[i] = w[i - 1]
          BY <3>6, <5>1
        <5> QED
          BY <3>4, <5>1, <5>2 DEF IsCode
      <4> QED
        BY <4>1, <4>2
    <3>9. v[Len(v)] < 128
      <4>1. Len(w) \in 1..Len(w)
        BY <3>5
      <4>2. v[Len(v)] = w[Len(w)]
        BY <3>6, <4>1
      <4> QED
        BY <3>4, <4>2 DEF IsCode
    <3>10. IsCode(v, n)
      BY <3>5, <3>6, <3>7, <3>8, <3>9 DEF IsCode
    <3> QED
      BY <3>2, <3>10
  <2> QED
    BY <2>1, <2>2
<1> HIDE DEF S
<1>2. \A n \in Nat : n \in S
  BY <1>1, Upward
<1> QED
  BY <1>2 DEF S

\* The bytes s are in the message from the place o on.
At(data, o, s) ==
    /\ o + Len(s) <= Len(data) + 1
    /\ \A i \in 1..Len(s) : data[o + i - 1] = s[i]

\* The varint that starts at o has its last byte at k.
Ends(data, o, k) ==
    /\ k \in 1..Len(data) /\ o <= k /\ k < o + 10 /\ data[k] < 128
    /\ \A j \in o..k - 1 : ~(data[j] < 128)

LEMMA DecodeAt ==
    ASSUME NEW data \in Seq(Byte), NEW o \in Nat \ {0}, NEW k, Ends(data, o, k)
    PROVE  DecodeVarint(data, o) = [number |-> Number(SubSeq(data, o, k)), end |-> k + 1]
<1> DEFINE lasts == {i \in DOMAIN data : o <= i /\ i < o + 10 /\ data[i] < 128}
<1>1. k \in Nat /\ k \in lasts /\ DOMAIN data = 1..Len(data) /\ Len(data) \in Nat
  BY DEF Ends
<1>2. ASSUME NEW j \in lasts PROVE k <= j
  BY <1>1 DEF Ends
<1>3. \A i \in lasts : (\A j \in lasts : i <= j) => i = k
  <2>1. lasts \in SUBSET Nat
    OBVIOUS
  <2> HIDE DEF lasts
  <2> QED
    BY <1>1, <1>2, <2>1
<1> HIDE DEF lasts
<1>4. (CHOOSE i \in lasts : \A j \in lasts : i <= j) = k
  BY <1>1, <1>2, <1>3
<1> QED
  BY <1>1, <1>4 DEF DecodeVarint, lasts

LEMMA DecodeEnds ==
    ASSUME NEW data \in Seq(Byte), NEW o \in Nat \ {0}, DecodeVarint(data, o) # NoField
    PROVE  \E k : Ends(data, o, k)
<1> DEFINE lasts == {i \in DOMAIN data : o <= i /\ i < o + 10 /\ data[i] < 128}
<1>1. lasts \in SUBSET Nat /\ DOMAIN data = 1..Len(data) /\ Len(data) \in Nat
  OBVIOUS
<1>2. lasts # {}
  BY DEF DecodeVarint
<1>3. PICK k \in lasts : \A j \in lasts : k <= j
  BY <1>1, <1>2, LeastNumber
<1>4. ASSUME NEW j \in o..k - 1 PROVE ~(data[j] < 128)
  <2>1. j \in DOMAIN data /\ j < o + 10 /\ o <= j /\ ~(k <= j)
    BY <1>1
  <2> QED
    BY <1>3, <2>1
<1>5. k \in 1..Len(data) /\ o <= k /\ k < o + 10 /\ data[k] < 128
  BY <1>1
<1> QED
  BY <1>4, <1>5 DEF Ends

\* A number is read where it is written, if _decode_varint takes so many bytes.
LEMMA DecodeCode ==
    ASSUME NEW data \in Seq(Byte), NEW o \in Nat \ {0}, NEW n, NEW v, IsCode(v, n),
           Len(v) <= 10, At(data, o, v)
    PROVE  DecodeVarint(data, o) = [number |-> n, end |-> o + Len(v)]
<1> DEFINE k == o + Len(v) - 1
<1>1. v \in Seq(Byte) /\ Len(v) \in Nat \ {0} /\ Len(data) \in Nat
  BY DEF IsCode
<1>2. k \in 1..Len(data) /\ o <= k /\ k < o + 10 /\ k \in Nat /\ k + 1 = o + Len(v)
  BY <1>1 DEF At
<1>3. data[k] = v[Len(v)]
  BY <1>1 DEF At
<1>4. ASSUME NEW j \in o..k - 1 PROVE ~(data[j] < 128)
  <2>1. j - o + 1 \in 1..Len(v) - 1 /\ o + (j - o + 1) - 1 = j
    BY <1>1
  <2>2. data[j] = v[j - o + 1]
    BY <1>1, <2>1 DEF At
  <2>3. v[j - o + 1] \in Byte /\ v[j - o + 1] >= 128
    BY <1>1, <2>1 DEF IsCode
  <2>4. \A b \in Byte : b >= 128 => ~(b < 128)
    BY DEF Byte
  <2> QED
    BY <2>2, <2>3, <2>4
<1> HIDE DEF k
<1>5. Ends(data, o, k)
  BY <1>2, <1>3, <1>4 DEF Ends, IsCode
<1>6. SubSeq(data, o, k) = v
  <2> DEFINE u == SubSeq(data, o, k)
  <2>1. u \in Seq(Byte) /\ Len(u) = Len(v) /\ \A i \in 1..Len(v) : u[i] = data[o + i - 1]
    BY <1>1, <1>2
  <2> HIDE DEF u
  <2>2. \A i \in 1..Len(v) : u[i] = v[i]
    BY <2>1 DEF At
  <2>3. u = v
    BY <1>1, <2>1, <2>2, SeqEqual
  <2> QED
    BY <2>3 DEF u
<1>7. DecodeVarint(data, o) = [number |-> Number(v), end |-> k + 1]
  BY <1>5, <1>6, DecodeAt
<1> QED
  BY <1>2, <1>7 DEF IsCode

-----------------------------------------------------------------------------
(* A field is read from its own bytes: where they are copied to, it is found *)
(* too.                                                                      *)

\* The n bytes of data from o on are those of copy from p on.
Agree(data, o, copy, p, n) ==
    /\ o + n <= Len(data) + 1 /\ p + n <= Len(copy) + 1
    /\ \A k \in 0..n - 1 : copy[p + k] = data[o + k]

LEMMA AgreePart ==
    ASSUME NEW data \in Seq(Byte), NEW o \in Nat \ {0}, NEW copy \in Seq(Byte),
           NEW p \in Nat \ {0}, NEW n \in Nat, Agree(data, o, copy, p, n),
           NEW a \in Nat, NEW m \in Nat, a + m <= n
    PROVE  Agree(data, o + a, copy, p + a, m)
<1>1. Len(data) \in Nat /\ Len(copy) \in Nat
  OBVIOUS
<1>2. \A k \in 0..m - 1 : copy[(p + a) + k] = data[(o + a) + k]
  <2> TAKE k \in 0..m - 1
  <2>1. a + k \in 0..n - 1 /\ p + (a + k) = (p + a) + k /\ o + (a + k) = (o + a) + k
    OBVIOUS
  <2>2. copy[p + (a + k)] = data[o + (a + k)]
    BY <2>1 DEF Agree
  <2> QED
    BY <2>1, <2>2
<1>3. o + n <= Len(data) + 1 /\ p + n <= Len(copy) + 1
  BY DEF Agree
<1>4. (o + a) + m <= Len(data) + 1 /\ (p + a) + m <= Len(copy) + 1
  BY <1>1, <1>3
<1> QED
  BY <1>2, <1>4 DEF Agree

\* Of them, those from lo to hi are those from lo2 to hi2.
Copied(data, o, copy, p, n, lo, hi, lo2, hi2) ==
    /\ Agree(data, o, copy, p, n) /\ n \in Nat
    /\ lo \in Nat /\ hi \in Nat /\ o <= lo /\ lo <= hi + 1 /\ hi < o + n
    /\ lo2 \in Nat /\ hi2 \in Nat /\ lo2 - p = lo - o /\ hi2 - p = hi - o

Same(data, lo, hi, copy, lo2, hi2) == SubSeq(copy, lo2, hi2) = SubSeq(data, lo, hi)

LEMMA AgreeSub ==
    ASSUME NEW data \in Seq(Byte), NEW o \in Nat \ {0}, NEW copy \in Seq(Byte),
           NEW p \in Nat \ {0}, NEW n, NEW lo, NEW hi, NEW lo2, NEW hi2,
           Copied(data, o, copy, p, n, lo, hi, lo2, hi2)
    PROVE  Same(data, lo, hi, copy, lo2, hi2)
<1> USE DEF Copied
<1> DEFINE u == SubSeq(copy, lo2, hi2)
           v == SubSeq(data, lo, hi)
           m == hi + 1 - lo
<1>1. Len(data) \in Nat /\ Len(copy) \in Nat /\ m \in Nat
  OBVIOUS
<1>2. lo2 \in Nat \ {0} /\ hi2 \in Nat /\ hi2 <= Len(copy) /\ hi <= Len(data)
  BY <1>1 DEF Agree
<1>3. u \in Seq(Byte) /\ Len(u) = m /\ \A i \in 1..m : u[i] = copy[lo2 + i - 1]
  BY <1>1, <1>2
<1>4. v \in Seq(Byte) /\ Len(v) = m /\ \A i \in 1..m : v[i] = data[lo + i - 1]
  BY <1>1, <1>2
<1>5. \A i \in 1..m : u[i] = v[i]
  <2> TAKE i \in 1..m
  <2> DEFINE k == lo - o + i - 1
  <2>1. k \in 0..n - 1 /\ p + k = lo2 + i - 1 /\ o + k = lo + i - 1
    OBVIOUS
  <2> HIDE DEF k
  <2>2. copy[p + k] = data[o + k]
    BY <2>1 DEF Agree
  <2> QED
    BY <1>3, <1>4, <2>1, <2>2
<1> HIDE DEF u, v
<1>6. u = v
  BY <1>1, <1>3, <1>4, <1>5, SeqEqual
<1> QED
  BY <1>6 DEF u, v, Same

LEMMA DecodeLocal ==
    ASSUME NEW data \in Seq(Byte), NEW o \in Nat \ {0}, NEW copy \in Seq(Byte),
           NEW p \in Nat \ {0}, NEW tag, tag = DecodeVarint(data, o), tag # NoField,
           Agree(data, o, copy, p, tag.end - o)
    PROVE  DecodeVarint(copy, p) = [number |-> tag.number, end |-> p + (tag.end - o)]
<1>1. PICK k : Ends(data, o, k)
  BY DecodeEnds
<1>2. tag = [number |-> Number(SubSeq(data, o, k)), end |-> k + 1]
  BY <1>1, DecodeAt
<1>3. k \in 1..Len(data) /\ o <= k /\ k < o + 10 /\ Len(data) \in Nat /\ Len(copy) \in Nat
  BY <1>1 DEF Ends
<1> DEFINE n == k + 1 - o
           q == p + (k - o)
<1>4. n \in Nat /\ tag.end - o = n /\ n = k + 1 - o /\ q = p + (k - o) /\ q \in Nat /\ n > 0
  BY <1>2, <1>3
<1>5. Agree(data, o, copy, p, n)
  BY <1>4
<1> HIDE DEF n, q
<1>6. SubSeq(copy, p, q) = SubSeq(data, o, k)
  <2> DEFINE lo == o
             lo2 == p
  <2>1. Copied(data, o, copy, p, n, lo, k, lo2, q)
    BY <1>3, <1>4, <1>5 DEF Copied
  <2> HIDE DEF lo, lo2
  <2>2. Same(data, lo, k, copy, lo2, q)
    BY <2>1, AgreeSub
  <2> QED
    BY <2>2 DEF lo, lo2, Same
<1>7. \A j \in p..q : j - p \in 0..n - 1 /\ p + (j - p) = j /\ copy[j] = data[o + (j - p)]
  <2> TAKE j \in p..q
  <2>1. j - p \in 0..n - 1 /\ p + (j - p) = j
    BY <1>3, <1>4
  <2> QED
    BY <1>5, <2>1 DEF Agree
<1>8. Ends(copy, p, q)
  <2>1. q \in 1..Len(copy) /\ p <= q /\ q < p + 10
    BY <1>3, <1>4, <1>5 DEF Agree
  <2>2. copy[q] < 128
    <3>1. q \in p..q /\ o + (q - p) = k
      BY <1>3, <1>4
    <3> QED
      BY <1>1, <1>7, <3>1 DEF Ends
  <2>3. ASSUME NEW j \in p..q - 1 PROVE ~(copy[j] < 128)
    <3>1. j \in p..q /\ o + (j - p) \in o..k - 1
      BY <1>3, <1>4
    <3> QED
      BY <1>1, <1>7, <3>1 DEF Ends
  <2> QED
    BY <2>1, <2>2, <2>3 DEF Ends
<1>9. DecodeVarint(copy, p) = [number |-> Number(SubSeq(copy, p, q)), end |-> q + 1]
  BY <1>8, DecodeAt
<1>10. q + 1 = p + (tag.end - o)
  BY <1>3, <1>4
<1> QED
  BY <1>2, <1>6, <1>9, <1>10

\* A field that starts elsewhere.
Moved(f, p) == [f EXCEPT !.start = p, !.end = p + (f.end - f.start)]

LEMMA MovedIs ==
    ASSUME NEW t, NEW y, NEW v, NEW o, NEW e, NEW p, NEW q, NEW f,
           f = [number |-> t, type |-> y, value |-> v, start |-> o, end |-> e],
           q = p + (e - o)
    PROVE  Moved(f, p) = [number |-> t, type |-> y, value |-> v, start |-> p, end |-> q]
<1> DEFINE g == Moved(f, p)
<1>1. f.end = e /\ f.start = o
  OBVIOUS
<1>2. g = [f EXCEPT !.start = p, !.end = q]
  BY <1>1 DEF Moved
<1> HIDE DEF g
<1>3. g = [number |-> t, type |-> y, value |-> v, start |-> p, end |-> q]
  BY <1>2
<1> QED
  BY <1>3 DEF g

LEMMA PayloadLocal ==
    ASSUME NEW data \in Seq(Byte), NEW o \in Nat \ {0}, NEW copy \in Seq(Byte),
           NEW p \in Nat \ {0}, NEW tag, NEW other, tag.number = other.number,
           tag.number \in Nat, NEW first \in Nat, o <= first, NEW length \in Nat,
           NEW f, f = Payload(data, o, tag, first, length), f # NoField,
           Agree(data, o, copy, p, f.end - o)
    PROVE  Payload(copy, p, other, p + (first - o), length) = Moved(f, p)
<1>1. ~(first + length > Len(data) + 1) /\ Len(data) \in Nat /\ Len(copy) \in Nat
  BY DEF Payload
<1> DEFINE t == tag.number \div 8
           y == tag.number % 8
           v == SubSeq(data, first, first + length - 1)
           e == first + length
           a == first - o
           n == e - o
           start == p + a
           end == p + n
<1>2. f = [number |-> t, type |-> y, value |-> v, start |-> o, end |-> e]
  BY <1>1 DEF Payload
<1>3. /\ a \in Nat /\ n \in Nat /\ a + length <= n /\ o + a = first
      /\ p + a + length - 1 = start + length - 1 /\ o + a + length - 1 = first + length - 1
      /\ start + length = end /\ f.end - o = n
  BY <1>2
<1>4. Agree(data, o, copy, p, n)
  BY <1>3
<1> HIDE DEF a, n
<1>5. SubSeq(copy, start, start + length - 1) = v
  <2> DEFINE hi == first + length - 1
             hi2 == start + length - 1
  <2>1. Copied(data, o, copy, p, n, first, hi, start, hi2)
    BY <1>3, <1>4 DEF a, n, Copied
  <2> HIDE DEF hi, hi2, start
  <2>2. Same(data, first, hi, copy, start, hi2)
    BY <2>1, AgreeSub
  <2> QED
    BY <2>2 DEF hi, hi2, Same
<1>6. ~(start + length > Len(copy) + 1)
  BY <1>1, <1>3, <1>4 DEF Agree
<1>7. Payload(copy, p, other, start, length) =
        [number |-> t, type |-> y, value |-> v, start |-> p, end |-> end]
  BY <1>3, <1>5, <1>6 DEF Payload
<1>8. end = p + (e - o)
  BY <1>3 DEF n
<1> HIDE DEF t, y, v, e, start, end
<1>9. Moved(f, p) = [number |-> t, type |-> y, value |-> v, start |-> p, end |-> end]
  BY <1>2, <1>8, MovedIs
<1> QED
  BY <1>7, <1>9 DEF start, a

LEMMA FieldLocal ==
    ASSUME NEW data \in Seq(Byte), NEW o \in Nat \ {0}, NEW copy \in Seq(Byte),
           NEW p \in Nat \ {0}, NEW f, f = FieldAt(data, o), f # NoField,
           Agree(data, o, copy, p, f.end - o)
    PROVE  FieldAt(copy, p) = Moved(f, p)
<1> DEFINE tag == DecodeVarint(data, o)
           arg == DecodeVarint(data, tag.end)
           n == f.end - o
           a == tag.end - o
           tag2 == DecodeVarint(copy, p)
           arg2 == DecodeVarint(copy, tag2.end)
           type == tag.number % 8
<1>1. tag # NoField /\ ~(tag.number < 8)
  BY DEF FieldAt, TaggedField
<1>2. tag \in Found(data, o)
  BY <1>1, DecodeType
<1>3. /\ tag.number \in Nat /\ tag.end \in o + 1..Len(data) + 1 /\ tag.end \in Nat \ {0}
      /\ Len(data) \in Nat /\ Len(copy) \in Nat
  BY <1>2 DEF Found
<1>4. arg = NoField \/ arg \in Found(data, tag.end)
  BY <1>3, DecodeType
<1>5. f \in Numeric(data, o) \cup Opaque(data, o)
  BY FieldAtType
<1>6. f.end \in o + 1..Len(data) + 1 /\ f.start = o
  BY <1>5 DEF Numeric, Opaque
<1>7. n \in Nat /\ a \in Nat /\ a > 0
  BY <1>3, <1>6
<1> HIDE DEF tag, arg, tag2, arg2
\* Whatever the type, the tag and its argument are bytes of the field.
<1>8. f = CASE type = 0 -> VarintPayload(o, tag, arg)
            [] type = 2 -> BytesPayload(data, o, tag, arg)
            [] type \in {1, 5} -> Payload(data, o, tag, tag.end, IF type = 1 THEN 8 ELSE 4)
            [] OTHER -> NoField
  BY <1>1 DEF FieldAt, TaggedField, tag, arg
<1>9. ASSUME a <= n
      PROVE  /\ tag2 = [number |-> tag.number, end |-> p + a]
             /\ FieldAt(copy, p) =
                  CASE type = 0 -> VarintPayload(p, tag2, arg2)
                    [] type = 2 -> BytesPayload(copy, p, tag2, arg2)
                    [] type \in {1, 5} ->
                         Payload(copy, p, tag2, tag2.end, IF type = 1 THEN 8 ELSE 4)
                    [] OTHER -> NoField
  <2>1. Agree(data, o, copy, p, a)
    <3> DEFINE z == 0
    <3>1. z \in Nat /\ z + a <= n /\ o + z = o /\ p + z = p
      BY <1>7, <1>9
    <3> HIDE DEF z, a, n
    <3>2. Agree(data, o + z, copy, p + z, a)
      BY <1>7, <3>1, AgreePart DEF n
    <3> QED
      BY <3>1, <3>2
  <2>2. tag2 = [number |-> tag.number, end |-> p + a]
    BY <1>1, <2>1, DecodeLocal DEF tag, tag2, a
  <2>3. tag2 # NoField
    BY <2>2, EndIsNone
  <2>4. tag2.number = tag.number
    BY <2>2
  <2> QED
    BY <1>1, <2>2, <2>3, <2>4 DEF FieldAt, TaggedField, tag2, arg2
<1>10. ASSUME arg # NoField, arg.end <= f.end
       PROVE  /\ arg2 = [number |-> arg.number, end |-> p + (arg.end - o)]
              /\ arg2 # NoField
  <2>1. arg.end \in tag.end + 1..Len(data) + 1
    BY <1>4, <1>10 DEF Found
  <2> DEFINE m == arg.end - tag.end
  <2>2. m \in Nat /\ a + m <= n /\ a <= n /\ o + a = tag.end
    <3>1. arg.end \in Nat /\ tag.end \in Nat /\ f.end \in Nat /\ tag.end < arg.end
      BY <1>3, <1>6, <2>1
    <3>2. arg.end <= f.end
      BY <1>10
    <3> QED
      BY <3>1, <3>2 DEF a, n
  <2>3. tag2.end = p + a
    BY <1>9, <2>2
  <2> HIDE DEF a, m, n
  <2>4. Agree(data, o + a, copy, p + a, m)
    BY <1>7, <2>2, AgreePart DEF n
  <2>5. Agree(data, tag.end, copy, tag2.end, m) /\ tag2.end \in Nat \ {0}
    BY <1>7, <2>2, <2>3, <2>4
  <2>6. arg2 = [number |-> arg.number, end |-> tag2.end + (arg.end - tag.end)]
    BY <1>3, <1>10, <2>5, DecodeLocal DEF arg, arg2, m
  <2>7. tag2.end + (arg.end - tag.end) = p + (arg.end - o)
    BY <1>3, <2>1, <2>3 DEF a
  <2>8. arg2 # NoField
    BY <2>6, EndIsNone
  <2> QED
    BY <2>6, <2>7, <2>8
<1>11. CASE type = 0
  <2>1. f = VarintPayload(o, tag, arg)
    BY <1>8, <1>11
  <2>2. arg # NoField
    BY <2>1 DEF VarintPayload
  <2>3. f = [number |-> tag.number \div 8, type |-> 0, value |-> arg.number,
             start |-> o, end |-> arg.end]
    BY <2>1, <2>2 DEF VarintPayload
  <2>4. f.end = arg.end /\ arg.end \in tag.end + 1..Len(data) + 1
    BY <1>4, <2>2, <2>3 DEF Found
  <2>5. a <= n /\ arg.end <= f.end
    BY <1>3, <2>4
  <2>6. FieldAt(copy, p) = VarintPayload(p, tag2, arg2) /\ tag2.number = tag.number
    BY <1>9, <1>11, <2>5
  <2>7. arg2.number = arg.number /\ arg2.end = p + (arg.end - o) /\ arg2 # NoField
    BY <1>10, <2>2, <2>5
  <2>8. FieldAt(copy, p) = [number |-> tag.number \div 8, type |-> 0, value |-> arg.number,
                            start |-> p, end |-> p + (arg.end - o)]
    BY <2>6, <2>7 DEF VarintPayload
  <2> DEFINE t == tag.number \div 8
             v == arg.number
             e == p + (arg.end - o)
  <2>9. f = [number |-> t, type |-> 0, value |-> v, start |-> o, end |-> arg.end]
    BY <2>3
  <2> HIDE DEF t, v
  <2>10. e = p + (arg.end - o)
    OBVIOUS
  <2> HIDE DEF e
  <2>11. Moved(f, p) = [number |-> t, type |-> 0, value |-> v, start |-> p, end |-> e]
    BY <2>9, <2>10, MovedIs
  <2> QED
    BY <2>8, <2>11 DEF t, v, e
<1>12. CASE type = 2
  <2>1. f = BytesPayload(data, o, tag, arg)
    BY <1>8, <1>12
  <2>2. arg # NoField
    BY <2>1 DEF BytesPayload
  <2>3. f = Payload(data, o, tag, arg.end, arg.number)
    BY <2>1, <2>2 DEF BytesPayload
  <2>4. arg.end \in tag.end + 1..Len(data) + 1 /\ arg.number \in Nat
    BY <1>4, <2>2 DEF Found
  <2>5. f.end = arg.end + arg.number
    BY <2>3 DEF Payload
  <2>6. a <= n /\ arg.end <= f.end
    BY <1>3, <2>4, <2>5
  <2>7. FieldAt(copy, p) = BytesPayload(copy, p, tag2, arg2) /\ tag2.number = tag.number
    BY <1>9, <1>12, <2>6
  <2>8. arg2.number = arg.number /\ arg2.end = p + (arg.end - o) /\ arg2 # NoField
    BY <1>10, <2>2, <2>6
  <2>9. FieldAt(copy, p) = Payload(copy, p, tag2, p + (arg.end - o), arg.number)
    BY <2>7, <2>8 DEF BytesPayload
  <2>10. o <= arg.end /\ arg.end \in Nat
    BY <1>3, <2>4
  <2>11. /\ tag.number = tag2.number /\ f # NoField
         /\ Agree(data, o, copy, p, f.end - o)
    BY <2>7
  <2> DEFINE first == arg.end
             length == arg.number
  <2>12. first \in Nat /\ o <= first /\ length \in Nat /\ f = Payload(data, o, tag, first, length)
    BY <2>3, <2>4, <2>10
  <2> HIDE DEF first, length
  <2>13. Payload(copy, p, tag2, p + (first - o), length) = Moved(f, p)
    BY <1>3, <2>11, <2>12, PayloadLocal, SMTT(60)
  <2> QED
    BY <2>9, <2>13 DEF first, length
<1>13. CASE type \in {1, 5}
  <2> DEFINE length == IF type = 1 THEN 8 ELSE 4
  <2>1. f = Payload(data, o, tag, tag.end, length) /\ length \in Nat
    BY <1>8, <1>13
  <2> HIDE DEF length
  <2>2. f.end = tag.end + length
    BY <2>1 DEF Payload
  <2>3. a <= n
    BY <1>3, <2>1, <2>2
  <2>4. /\ FieldAt(copy, p) = Payload(copy, p, tag2, tag2.end, length)
        /\ tag2.number = tag.number /\ tag2.end = p + (tag.end - o)
    BY <1>9, <1>13, <2>3 DEF length
  <2>5. o <= tag.end
    BY <1>3
  <2>6. Payload(copy, p, tag2, p + (tag.end - o), length) = Moved(f, p)
    BY <1>3, <2>1, <2>4, <2>5, PayloadLocal
  <2> QED
    BY <2>4, <2>6
<1>14. CASE type \notin {0, 1, 2, 5}
  BY <1>8, <1>14
<1> QED
  BY <1>11, <1>12, <1>13, <1>14

-----------------------------------------------------------------------------
(* The fields of a message follow one another: where one ends, the next one  *)
(* starts.                                                                   *)

Link(data, fs, i) ==
    IF fs[i] = NoField \/ fs[i].end > Len(data) THEN i = Len(fs)
    ELSE i < Len(fs) /\ fs[i + 1] = FieldAt(data, fs[i].end)

\* The fields fs are those from the place o on.
Chain(data, o, fs) ==
    /\ fs \in Seq(FieldsOf(data))
    /\ o > Len(data) => Len(fs) = 0
    /\ ~(o > Len(data)) => Len(fs) > 0 /\ fs[1] = FieldAt(data, o)
    /\ \A i \in 1..Len(fs) : Link(data, fs, i)

LEMMA ChainCons ==
    ASSUME NEW data \in Seq(Byte), NEW o \in 1..Len(data), NEW f, f = FieldAt(data, o),
           f # NoField, NEW rest, Chain(data, f.end, rest)
    PROVE  Chain(data, o, << f >> \o rest)
<1> DEFINE T == FieldsOf(data)
           fs == << f >> \o rest
<1>1. f \in T /\ rest \in Seq(T) /\ f.end \in o + 1..Len(data) + 1
  BY FieldIsOfMessage DEF Chain
<1> HIDE DEF T
<1>2. /\ fs \in Seq(T) /\ Len(fs) = Len(rest) + 1 /\ fs[1] = f
      /\ \A i \in 1..Len(rest) : fs[i + 1] = rest[i]
      /\ Len(rest) \in Nat /\ Len(data) \in Nat
  BY <1>1, Consed
<1> HIDE DEF fs
<1>3. Link(data, fs, 1)
  <2>1. CASE f.end > Len(data)
    <3>1. Len(rest) = 0
      BY <2>1 DEF Chain
    <3> QED
      BY <1>2, <2>1, <3>1 DEF Link
  <2>2. CASE ~(f.end > Len(data))
    <3>1. Len(rest) > 0 /\ rest[1] = FieldAt(data, f.end)
      BY <2>2 DEF Chain
    <3>2. 1 \in 1..Len(rest) /\ fs[1 + 1] = rest[1] /\ 1 < Len(fs)
      BY <1>2, <3>1
    <3> QED
      BY <1>2, <2>2, <3>1, <3>2 DEF Link
  <2> QED
    BY <2>1, <2>2
<1>4. ASSUME NEW i \in 1..Len(rest) PROVE Link(data, fs, i + 1)
  <2>1. Link(data, rest, i) /\ fs[i + 1] = rest[i]
    BY <1>2 DEF Chain
  <2>2. CASE rest[i] = NoField \/ rest[i].end > Len(data)
    BY <1>2, <2>1, <2>2 DEF Link
  <2>3. CASE ~(rest[i] = NoField \/ rest[i].end > Len(data))
    <3>1. i < Len(rest) /\ rest[i + 1] = FieldAt(data, rest[i].end)
      BY <2>1, <2>3 DEF Link
    <3>2. i + 1 \in 1..Len(rest) /\ i + 1 < Len(fs)
      BY <1>2, <3>1
    <3>3. fs[(i + 1) + 1] = rest[i + 1]
      BY <1>2, <3>2
    <3> QED
      BY <2>1, <2>3, <3>1, <3>2, <3>3 DEF Link
  <2> QED
    BY <2>2, <2>3
<1>5. ASSUME NEW i \in 1..Len(fs) PROVE Link(data, fs, i)
  <2>1. i = 1 \/ (i - 1 \in 1..Len(rest) /\ (i - 1) + 1 = i)
    BY <1>2
  <2> QED
    BY <1>3, <1>4, <2>1
<1>6. Chain(data, o, fs)
  BY <1>2, <1>5 DEF Chain, T
<1> QED
  BY <1>6 DEF fs

LEMMA FieldsChain ==
    ASSUME NEW data \in Seq(Byte)
    PROVE  Chain(data, 1, Fields(data))
<1> DEFINE N == Len(data) + 1
           g == CHOOSE g : IsFields(g, data)
           S == {o \in 1..N : Chain(data, o, g[o])}
<1>1. IsFields(g, data)
  BY FieldsExist
<1> HIDE DEF g
<1>2. Len(data) \in Nat /\ N \in Nat /\ N = Len(data) + 1 /\ 1 \in 1..N
  OBVIOUS
<1>3. \A o \in 1..N :
        g[o] = IF o > Len(data) THEN << >>
               ELSE << FieldAt(data, o) >> \o (IF FieldAt(data, o) = NoField THEN << >>
                                               ELSE g[FieldAt(data, o).end])
  BY <1>1 DEF IsFields
<1> HIDE DEF N
<1>4. ASSUME NEW k \in 1..N, \A m \in k + 1..N : m \in S
      PROVE  k \in S
  <2>1. CASE k > Len(data)
    <3>1. g[k] = << >>
      BY <1>3, <2>1
    <3>2. Chain(data, k, << >>)
      BY <2>1 DEF Chain
    <3> QED
      BY <3>1, <3>2
  <2>2. CASE ~(k > Len(data))
    <3> DEFINE f == FieldAt(data, k)
    <3>1. k \in 1..Len(data)
      BY <1>2, <2>2
    <3>2. f \in FieldsOf(data) /\ (f # NoField => f.end \in k + 1..N)
      BY <1>2, <3>1, FieldIsOfMessage
    <3>3. CASE f = NoField
      <4>1. g[k] = << f >>
        <5>1. g[k] = << f >> \o << >>
          BY <1>3, <2>2, <3>3
        <5> HIDE DEF f
        <5>2. << f >> \o << >> = << f >>
          OBVIOUS
        <5> QED
          BY <5>1, <5>2
      <4> DEFINE fs == << f >>
      <4>2. fs \in Seq(FieldsOf(data)) /\ Len(fs) = 1 /\ fs[1] = f
        BY <3>2
      <4> HIDE DEF fs
      <4>3. \A i \in 1..Len(fs) : Link(data, fs, i)
        BY <3>3, <4>2 DEF Link
      <4>4. Chain(data, k, fs)
        BY <2>2, <4>2, <4>3 DEF Chain
      <4> QED
        BY <4>1, <4>4 DEF fs
    <3>4. CASE f # NoField
      <4>1. g[k] = << f >> \o g[f.end]
        BY <1>3, <2>2, <3>4
      <4>2. Chain(data, f.end, g[f.end])
        BY <1>4, <3>2, <3>4
      <4>3. Chain(data, k, << f >> \o g[f.end])
        BY <3>1, <3>4, <4>2, ChainCons
      <4> QED
        BY <4>1, <4>3
    <3> QED
      BY <3>3, <3>4
  <2> QED
    BY <2>1, <2>2
<1> HIDE DEF S
<1>5. 1 \in S
  BY <1>2, <1>4, Downward
<1> QED
  BY <1>5, FieldsDef DEF S, g

\* From the first place to the last.
LEMMA Forward ==
    ASSUME NEW N \in Nat, NEW S, 1 \in S, \A k \in 1..N - 1 : k \in S => k + 1 \in S
    PROVE  \A k \in 1..N : k \in S
<1> DEFINE T == {n \in Nat : n \in 1..N => n \in S}
<1>1. ASSUME NEW n \in Nat, \A m \in 0..n - 1 : m \in T
      PROVE  n \in T
  <2> SUFFICES ASSUME n \in 1..N, n # 1 PROVE n \in S
    OBVIOUS
  <2>1. n - 1 \in 0..n - 1 /\ n - 1 \in 1..N - 1 /\ n - 1 \in 1..N /\ (n - 1) + 1 = n
    OBVIOUS
  <2>2. n - 1 \in S
    BY <1>1, <2>1
  <2> QED
    BY <2>1, <2>2
<1> HIDE DEF T
<1>2. \A n \in Nat : n \in T
  BY <1>1, Upward
<1>3. \A k \in 1..N : k \in Nat
  OBVIOUS
<1> QED
  BY <1>2, <1>3 DEF T

\* Where the k-th field starts.
Place(fs, k) == IF k = 1 THEN 1 ELSE fs[k - 1].end

LEMMA PlaceType ==
    ASSUME NEW data \in Seq(Byte), NEW fs, Chain(data, 1, fs), NEW k \in 1..Len(fs) + 1,
           \A i \in 1..k - 1 : fs[i] # NoField, NEW o, o = Place(fs, k)
    PROVE  /\ o \in 1..Len(data) + 1
           /\ k <= Len(fs) => o \in 1..Len(data) /\ fs[k] = FieldAt(data, o)
           /\ ~(k <= Len(fs)) => o = Len(data) + 1
           /\ k <= Len(fs) /\ fs[k] # NoField =>
                fs[k].start = o /\ fs[k].end \in o + 1..Len(data) + 1
<1>1. fs \in Seq(FieldsOf(data)) /\ Len(fs) \in Nat /\ Len(data) \in Nat /\ k \in Nat
  BY DEF Chain
<1>2. /\ o \in 1..Len(data) + 1
      /\ k <= Len(fs) => o \in 1..Len(data) /\ fs[k] = FieldAt(data, o)
      /\ ~(k <= Len(fs)) => o = Len(data) + 1
  <2>1. CASE k = 1
    <3>1. o = 1
      BY <2>1 DEF Place
    <3> QED
      BY <1>1, <2>1, <3>1 DEF Chain
  <2>2. CASE k # 1
    <3> DEFINE j == k - 1
               f == fs[j]
    <3>1. j \in 1..Len(fs) /\ j + 1 = k /\ j \in 1..k - 1 /\ (k <= Len(fs) <=> j < Len(fs))
      BY <1>1, <2>2
    <3>2. Link(data, fs, j) /\ f \in FieldsOf(data) /\ f # NoField /\ o = f.end
      BY <1>1, <2>2, <3>1 DEF Chain, Place
    <3> HIDE DEF j, f
    <3>3. f.start \in 1..Len(data) /\ f.end \in f.start + 1..Len(data) + 1
      BY <3>2, FieldParts
    <3>4. f.end \in 1..Len(data) + 1
      BY <3>3
    <3>5. IF f.end > Len(data) THEN j = Len(fs)
          ELSE j < Len(fs) /\ fs[j + 1] = FieldAt(data, f.end)
      BY <3>2 DEF Link, f
    <3>6. CASE f.end > Len(data)
      BY <1>1, <3>1, <3>2, <3>4, <3>5, <3>6
    <3>7. CASE ~(f.end > Len(data))
      BY <1>1, <3>1, <3>2, <3>4, <3>5, <3>7
    <3> QED
      BY <3>6, <3>7
  <2> QED
    BY <2>1, <2>2
<1>3. ASSUME k <= Len(fs), fs[k] # NoField
      PROVE  fs[k].start = o /\ fs[k].end \in o + 1..Len(data) + 1
  <2>1. fs[k] = FieldAt(data, o) /\ o \in Nat \ {0}
    BY <1>2, <1>3
  <2>2. fs[k] \in Numeric(data, o) \cup Opaque(data, o)
    BY <1>3, <2>1, FieldAtType
  <2> QED
    BY <2>2 DEF Numeric, Opaque
<1> QED
  BY <1>2, <1>3

LEMMA PlacesGrow ==
    ASSUME NEW data \in Seq(Byte), NEW fs, Chain(data, 1, fs), NEW k \in 1..Len(fs) + 1,
           \A i \in 1..k - 1 : fs[i] # NoField
    PROVE  \A i \in 1..k : Place(fs, i) \in Nat \ {0} /\ Place(fs, i) <= Place(fs, k)
<1>1. Len(fs) \in Nat /\ Len(data) \in Nat /\ k \in Nat
  BY DEF Chain
<1>2. \A i \in 1..k : Place(fs, i) \in Nat \ {0}
  <2> TAKE i \in 1..k
  <2>1. i \in 1..Len(fs) + 1 /\ \A j \in 1..i - 1 : fs[j] # NoField
    BY <1>1
  <2>2. Place(fs, i) \in 1..Len(data) + 1
    BY <2>1, PlaceType
  <2> QED
    BY <1>1, <2>2
<1>3. \A i \in 1..k - 1 : Place(fs, i) <= Place(fs, i + 1)
  <2> TAKE i \in 1..k - 1
  <2>1. /\ i \in 1..Len(fs) + 1 /\ i <= Len(fs) /\ \A j \in 1..i - 1 : fs[j] # NoField
        /\ fs[i] # NoField /\ i + 1 # 1 /\ (i + 1) - 1 = i
    BY <1>1
  <2> DEFINE o == Place(fs, i)
  <2> HIDE DEF o
  <2>2. o \in 1..Len(data) + 1 /\ fs[i].end \in o + 1..Len(data) + 1
    BY <2>1, PlaceType DEF o
  <2>3. Place(fs, i + 1) = fs[i].end
    BY <2>1 DEF Place
  <2> QED
    BY <1>1, <2>2, <2>3 DEF o
<1> DEFINE S == {i \in 1..k : Place(fs, (k + 1) - i) <= Place(fs, k)}
<1>4. 1 \in S
  <2>1. 1 \in 1..k /\ k \in 1..k /\ (k + 1) - 1 = k
    BY <1>1
  <2> QED
    BY <1>2, <2>1
<1>5. ASSUME NEW i \in 1..k - 1, i \in S
      PROVE  i + 1 \in S
  <2> DEFINE j == k - i
  <2>1. /\ j \in 1..k - 1 /\ j \in 1..k /\ j + 1 = (k + 1) - i /\ (k + 1) - (i + 1) = j
        /\ j + 1 \in 1..k /\ k \in 1..k /\ i + 1 \in 1..k
    BY <1>1
  <2> HIDE DEF j
  <2>2. Place(fs, j + 1) <= Place(fs, k) /\ Place(fs, j) <= Place(fs, j + 1)
    BY <1>3, <1>5, <2>1
  <2>3. Place(fs, j) <= Place(fs, k)
    BY <1>2, <2>1, <2>2
  <2> QED
    BY <2>1, <2>3
<1> HIDE DEF S
<1>6. \A i \in 1..k : i \in S
  BY <1>1, <1>4, <1>5, Forward
<1>7. ASSUME NEW i \in 1..k PROVE Place(fs, i) <= Place(fs, k)
  <2>1. (k + 1) - i \in 1..k /\ (k + 1) - ((k + 1) - i) = i
    BY <1>1
  <2> QED
    BY <1>6, <2>1 DEF S
<1> QED
  BY <1>2, <1>7

\* The fields of two messages, which agree up to where the k-th field starts.
Parting(data, fs, copy, gs, k, o) ==
    /\ data \in Seq(Byte) /\ copy \in Seq(Byte)
    /\ Chain(data, 1, fs) /\ Chain(copy, 1, gs)
    /\ k \in 1..Len(fs) + 1 /\ \A i \in 1..k - 1 : fs[i] # NoField
    /\ o = Place(fs, k) /\ Agree(data, 1, copy, 1, o - 1) /\ o <= Len(copy)

\* Up to the place where two messages differ their fields are the same.
LEMMA SameStart ==
    ASSUME NEW data, NEW fs, NEW copy, NEW gs, NEW k, NEW o,
           Parting(data, fs, copy, gs, k, o)
    PROVE  /\ \A i \in 1..k - 1 : i \in 1..Len(gs) /\ gs[i] = fs[i]
           /\ k \in 1..Len(gs) /\ gs[k] = FieldAt(copy, o)
<1> USE DEF Parting
<1>1. /\ Len(fs) \in Nat /\ Len(gs) \in Nat /\ Len(data) \in Nat /\ Len(copy) \in Nat
      /\ k \in Nat /\ 1 \in 1..k /\ k \in 1..k
  BY DEF Chain
<1>2. \A i \in 1..k : Place(fs, i) \in Nat \ {0} /\ Place(fs, i) <= o
  BY PlacesGrow
<1>3. o \in Nat \ {0}
  BY <1>1, <1>2
<1> DEFINE S == {i \in 1..k : i \in 1..Len(gs) /\ gs[i] = FieldAt(copy, Place(fs, i))}
<1>4. 1 \in S
  <2>1. 1 <= Len(copy) /\ Place(fs, 1) = 1
    BY <1>1, <1>3 DEF Place
  <2>2. Len(gs) > 0 /\ gs[1] = FieldAt(copy, 1)
    BY <1>1, <2>1 DEF Chain
  <2> QED
    BY <1>1, <2>1, <2>2
<1>5. ASSUME NEW i \in 1..k - 1, i \in S
      PROVE  gs[i] = fs[i] /\ i + 1 \in S
  <2> DEFINE q == Place(fs, i)
             f == fs[i]
  <2>1. /\ i \in 1..k /\ i + 1 \in 1..k /\ i <= Len(fs) /\ i \in 1..Len(fs) + 1
        /\ f # NoField /\ \A j \in 1..i - 1 : fs[j] # NoField
        /\ i + 1 # 1 /\ (i + 1) - 1 = i
    BY <1>1
  <2>2. q \in 1..Len(data) /\ f = FieldAt(data, q) /\ f.start = q /\ f.end \in q + 1..Len(data) + 1
    BY <2>1, PlaceType
  <2>3. f.end = Place(fs, i + 1) /\ f.end <= o
    BY <1>2, <2>1 DEF Place
  <2>4. i \in 1..Len(gs) /\ gs[i] = FieldAt(copy, q)
    BY <1>5
  <2> HIDE DEF q, f, S
  <2>5. Agree(data, q, copy, q, f.end - q)
    <3> DEFINE n == o - 1
               a == q - 1
               m == f.end - q
               one == 1
    <3>1. /\ n \in Nat /\ a \in Nat /\ m \in Nat /\ a + m <= n
          /\ one + a = q /\ one \in Nat \ {0} /\ Agree(data, one, copy, one, n)
      BY <1>3, <2>2, <2>3
    <3> HIDE DEF n, a, m, one
    <3>2. Agree(data, one + a, copy, one + a, m)
      BY <3>1, AgreePart
    <3> QED
      BY <3>1, <3>2 DEF m
  <2>6. FieldAt(copy, q) = Moved(f, q)
    <3>1. q \in Nat \ {0}
      BY <2>2
    <3> QED
      BY <2>1, <2>2, <2>5, <3>1, FieldLocal
  <2>7. Moved(f, q) = f
    <3>1. f \in Numeric(data, q) \cup Opaque(data, q)
      BY <1>1, <2>1, <2>2, FieldAtType
    <3>2. DOMAIN f = {"number", "type", "value", "start", "end"}
          /\ f = [x \in DOMAIN f |-> f[x]]
      BY <3>1 DEF Numeric, Opaque
    <3>3. f.end \in Nat /\ q \in Nat /\ f.start = q
      BY <2>2
    <3>4. q + (f.end - f.start) = f.end
      BY <3>3
    <3>5. Moved(f, q) = [f EXCEPT !.start = f.start, !.end = f.end]
      BY <3>3, <3>4 DEF Moved
    <3> QED
      BY <3>2, <3>5
  <2>8. gs[i] = f
    BY <2>4, <2>6, <2>7
  <2>9. i + 1 \in 1..Len(gs) /\ gs[i + 1] = FieldAt(copy, f.end)
    <3>1. Link(copy, gs, i)
      BY <2>4 DEF Chain
    <3>2. f.end \in Nat /\ ~(f.end > Len(copy))
      BY <1>1, <1>3, <2>2, <2>3
    <3>3. i < Len(gs) /\ gs[i + 1] = FieldAt(copy, f.end)
      BY <2>1, <2>8, <3>1, <3>2 DEF Link
    <3> QED
      BY <1>1, <2>4, <3>3
  <2>10. i + 1 \in S
    BY <2>1, <2>3, <2>9 DEF S
  <2> QED
    BY <2>8, <2>10 DEF f
<1> HIDE DEF S
<1>6. \A i \in 1..k : i \in S
  BY <1>1, <1>4, <1>5, Forward
<1>7. ASSUME NEW i \in 1..k - 1 PROVE i \in 1..Len(gs) /\ gs[i] = fs[i]
  <2>1. i \in 1..k
    BY <1>1
  <2> QED
    BY <1>5, <1>6, <2>1 DEF S
<1>8. k \in 1..Len(gs) /\ gs[k] = FieldAt(copy, o)
  BY <1>1, <1>6 DEF S
<1> QED
  BY <1>7, <1>8

LEMMA Shifted ==
    ASSUME NEW o \in Nat \ {0}, NEW p \in Nat \ {0}, NEW n \in Nat, NEW x \in Nat, NEW y \in Nat,
           o + n = x + 1, p + n = y + 1, NEW q \in Nat, NEW e \in Nat, o <= q, q < e, e <= x + 1,
           NEW r, r = p + (q - o)
    PROVE  /\ r \in Nat \ {0} /\ ~(r > y) /\ r + (e - q) = p + (e - o)
           /\ q - o \in Nat /\ e - q \in Nat /\ (q - o) + (e - q) <= n
           /\ o + (q - o) = q /\ p + (q - o) = r
  OBVIOUS

\* The fields of two whole messages, whose n last bytes agree and follow the
\* k-th fields.
Joint(data, fs, copy, gs, k, o, p, n) ==
    /\ Chain(data, 1, fs) /\ \A i \in 1..Len(fs) : fs[i] # NoField
    /\ Chain(copy, 1, gs)
    /\ k \in 1..Len(fs) /\ k \in 1..Len(gs) /\ gs[k] # NoField
    /\ o = fs[k].end /\ p = gs[k].end /\ p \in Nat \ {0} /\ n \in Nat
    /\ o + n = Len(data) + 1 /\ p + n = Len(copy) + 1
    /\ Agree(data, o, copy, p, n)

\* From the place on where they agree again the fields are the same, moved.
LEMMA SameEnd ==
    ASSUME NEW data \in Seq(Byte), NEW fs, NEW copy \in Seq(Byte), NEW gs, NEW k, NEW o,
           NEW p, NEW n, Joint(data, fs, copy, gs, k, o, p, n)
    PROVE  /\ Len(gs) = Len(fs)
           /\ \A j \in k + 1..Len(fs) : gs[j] = Moved(fs[j], p + (fs[j].start - o))
<1>0. /\ Chain(data, 1, fs) /\ \A i \in 1..Len(fs) : fs[i] # NoField
      /\ Chain(copy, 1, gs)
      /\ k \in 1..Len(fs) /\ k \in 1..Len(gs) /\ gs[k] # NoField
      /\ p \in Nat \ {0} /\ n \in Nat
  BY DEF Joint
<1>1. /\ Len(fs) \in Nat /\ Len(gs) \in Nat /\ Len(data) \in Nat /\ Len(copy) \in Nat
      /\ k \in Nat
  BY <1>0 DEF Chain
<1>2. ASSUME NEW j \in 1..Len(fs)
      PROVE  /\ Place(fs, j) \in Nat \ {0} /\ fs[j] = FieldAt(data, Place(fs, j))
             /\ fs[j].start = Place(fs, j)
             /\ fs[j].end \in Place(fs, j) + 1..Len(data) + 1
             /\ fs[j].end = Place(fs, j + 1)
  <2>1. j \in 1..Len(fs) + 1 /\ j <= Len(fs) /\ j + 1 # 1 /\ (j + 1) - 1 = j
    BY <1>0, <1>1
  <2>0. fs[j] # NoField /\ \A i \in 1..j - 1 : fs[i] # NoField
    BY <1>0, <1>1
  <2> DEFINE q == Place(fs, j)
  <2> HIDE DEF q
  <2>2. /\ q \in 1..Len(data) /\ fs[j] = FieldAt(data, q) /\ fs[j].start = q
        /\ fs[j].end \in q + 1..Len(data) + 1
    BY <1>0, <2>0, <2>1, PlaceType DEF q
  <2>3. fs[j].end = Place(fs, j + 1)
    BY <1>0, <2>1 DEF Place
  <2> QED
    BY <1>0, <1>1, <2>2, <2>3 DEF q
<1>3. o \in Nat \ {0}
  <2>1. fs[k].end \in Place(fs, k) + 1..Len(data) + 1 /\ Place(fs, k) \in Nat \ {0}
    BY <1>0, <1>2
  <2>2. fs[k].end \in Nat \ {0}
    BY <1>0, <1>1, <2>1
  <2> QED
    BY <1>0, <2>2 DEF Joint
<1>12. Agree(data, o, copy, p, n) /\ o + n = Len(data) + 1 /\ p + n = Len(copy) + 1
  BY DEF Joint
<1>4. ASSUME NEW j \in k..Len(fs) PROVE o <= fs[j].end
  <2>1. /\ j + 1 \in 1..Len(fs) + 1 /\ k + 1 \in 1..j + 1 /\ j \in 1..Len(fs)
        /\ \A i \in 1..(j + 1) - 1 : fs[i] # NoField
    BY <1>0, <1>1
  <2>2. Place(fs, k + 1) <= Place(fs, j + 1)
    <3> DEFINE l == j + 1
    <3>1. /\ l \in 1..Len(fs) + 1 /\ \A i \in 1..l - 1 : fs[i] # NoField
          /\ k + 1 \in 1..l
      BY <1>0, <2>1
    <3> HIDE DEF l
    <3>2. Place(fs, k + 1) <= Place(fs, l)
      BY <1>0, <3>1, PlacesGrow
    <3> QED
      BY <3>2 DEF l
  <2> QED
    BY <1>0, <1>2, <2>1, <2>2 DEF Joint
<1> DEFINE N == Len(fs) - k + 1
           Shift(j) == /\ j \in 1..Len(gs) /\ gs[j] # NoField
                       /\ gs[j].end = p + (fs[j].end - o)
                       /\ j # k => gs[j] = Moved(fs[j], p + (fs[j].start - o))
           S == {i \in 1..N : Shift(k - 1 + i)}
<1>5. N \in Nat /\ N > 0 /\ 1 \in 1..N /\ k - 1 + 1 = k /\ k - 1 + N = Len(fs)
      /\ \A i \in 1..N : k - 1 + i \in k..Len(fs)
  BY <1>0, <1>1
<1>6. 1 \in S
  <2>1. p = p + (o - o)
    BY <1>0, <1>3
  <2>2. Shift(k)
    BY <1>0, <2>1 DEF Joint
  <2> HIDE DEF Shift
  <2> QED
    BY <1>0, <1>5, <2>2
<1>7. ASSUME NEW i \in 1..N - 1, i \in S
      PROVE  i + 1 \in S
  <2> DEFINE j == k - 1 + i
             l == j + 1
             f == fs[l]
             q == Place(fs, l)
             r == gs[j].end
  <2>1. /\ j \in k..Len(fs) /\ j \in 1..Len(fs) /\ l \in k..Len(fs) /\ l \in 1..Len(fs)
        /\ k - 1 + (i + 1) = l /\ l # k /\ i + 1 \in 1..N /\ j < Len(fs) /\ l = j + 1
    BY <1>0, <1>1
  <2>2. Shift(j)
    BY <1>0, <1>7
  <2> HIDE DEF j, N
  <2>3. /\ q \in Nat \ {0} /\ f = FieldAt(data, q) /\ f.start = q
        /\ f.end \in q + 1..Len(data) + 1 /\ f # NoField
        /\ fs[j].end = q /\ o <= q
    BY <1>0, <1>2, <1>4, <2>1
  <2>4. j \in 1..Len(gs) /\ gs[j] # NoField /\ r = p + (q - o)
    BY <1>0, <2>2, <2>3
  <2> HIDE DEF l, f, q, r, S, Shift
  <2> DEFINE x == Len(data)
             y == Len(copy)
             e == f.end
  <2>5. /\ x \in Nat /\ y \in Nat /\ o + n = x + 1 /\ p + n = y + 1
        /\ q \in Nat /\ e \in Nat /\ o <= q /\ q < e /\ e <= x + 1 /\ r = p + (q - o)
    BY <1>0, <1>1, <1>12, <2>3, <2>4
  <2> HIDE DEF x, y, e
  <2>12. /\ r \in Nat \ {0} /\ ~(r > y) /\ r + (e - q) = p + (e - o)
         /\ q - o \in Nat /\ e - q \in Nat /\ (q - o) + (e - q) <= n
         /\ o + (q - o) = q /\ p + (q - o) = r
    BY <1>0, <1>3, <2>5, Shifted
  <2>6. l \in 1..Len(gs) /\ gs[l] = FieldAt(copy, r)
    <3>1. Link(copy, gs, j)
      BY <1>0, <2>4 DEF Chain
    <3>2. j < Len(gs) /\ gs[j + 1] = FieldAt(copy, r)
      BY <1>0, <2>4, <2>12, <3>1 DEF Link, r, y
    <3> QED
      BY <1>0, <1>1, <2>1, <2>4, <3>2
  <2>7. Agree(data, q, copy, r, f.end - q)
    <3> DEFINE a == q - o
               m == f.end - q
    <3>1. a \in Nat /\ m \in Nat /\ a + m <= n /\ o + a = q /\ p + a = r
      BY <1>0, <2>12 DEF e
    <3> HIDE DEF a, m
    <3>2. Agree(data, o + a, copy, p + a, m)
      BY <1>0, <1>3, <1>12, <3>1, AgreePart
    <3> QED
      BY <3>1, <3>2 DEF m
  <2>8. gs[l] = Moved(f, r)
    <3>1. FieldAt(copy, r) = Moved(f, r)
      BY <1>0, <2>3, <2>7, <2>12, FieldLocal, SMTT(60)
    <3> QED
      BY <2>6, <3>1
  <2>9. Moved(f, r) # NoField /\ Moved(f, r).end = r + (f.end - q)
    <3>1. f \in Numeric(data, q) \cup Opaque(data, q)
      BY <1>0, <2>3, FieldAtType
    <3>2. DOMAIN f = {"number", "type", "value", "start", "end"}
      BY <3>1 DEF Numeric, Opaque
    <3>3. Moved(f, r).end = r + (f.end - q) /\ "end" \in DOMAIN Moved(f, r)
      BY <1>0, <2>3, <3>2 DEF Moved
    <3>4. "end" \notin DOMAIN NoField
      BY DEF NoField
    <3> QED
      BY <3>3, <3>4
  <2>10. r + (f.end - q) = p + (f.end - o)
    BY <1>0, <2>12 DEF e
  <2>11. Shift(l)
    BY <1>0, <2>3, <2>4, <2>6, <2>8, <2>9, <2>10 DEF Shift, f
  <2> QED
    BY <1>0, <2>1, <2>11 DEF S
<1> HIDE DEF S
<1>8. \A i \in 1..N : i \in S
  BY <1>0, <1>5, <1>6, <1>7, Forward
<1>9. ASSUME NEW j \in k..Len(fs) PROVE Shift(j)
  <2>1. (j + 1) - k \in 1..N /\ k - 1 + ((j + 1) - k) = j
    BY <1>0, <1>1
  <2> HIDE DEF Shift, N
  <2> QED
    BY <1>0, <1>8, <2>1 DEF S
<1>10. Len(gs) = Len(fs)
  <2> DEFINE j == Len(fs)
  <2>1. j \in k..Len(fs) /\ j \in 1..Len(fs) /\ j + 1 \in 1..Len(fs) + 1 /\ ~(j + 1 <= Len(fs))
        /\ \A i \in 1..(j + 1) - 1 : fs[i] # NoField
    BY <1>0, <1>1
  <2>2. Shift(j) /\ fs[j].end = Place(fs, j + 1)
    BY <1>0, <1>2, <1>9, <2>1
  <2>3. Place(fs, j + 1) = Len(data) + 1
    <3> DEFINE l == j + 1
    <3>1. /\ l \in 1..Len(fs) + 1 /\ ~(l <= Len(fs)) /\ \A i \in 1..l - 1 : fs[i] # NoField
      BY <1>0, <2>1
    <3> HIDE DEF l
    <3>2. Place(fs, l) = Len(data) + 1
      BY <1>0, <3>1, PlaceType
    <3> QED
      BY <3>2 DEF l
  <2>4. gs[j].end > Len(copy) /\ j \in 1..Len(gs)
    <3> DEFINE x == Len(data)
               y == Len(copy)
               e == fs[j].end
    <3>1. x \in Nat /\ y \in Nat /\ o + n = x + 1 /\ p + n = y + 1 /\ e = x + 1
      BY <1>0, <1>1, <1>12, <2>2, <2>3
    <3>2. gs[j].end = p + (e - o)
      BY <1>0, <2>2
    <3> HIDE DEF x, y, e
    <3>3. p + (e - o) = y + 1
      BY <1>0, <1>3, <3>1
    <3>4. gs[j].end > y
      BY <3>1, <3>2, <3>3
    <3>5. j \in 1..Len(gs)
      BY <1>0, <2>2
    <3> QED
      BY <3>4, <3>5 DEF y
  <2>5. Link(copy, gs, j)
    BY <1>0, <2>4 DEF Chain
  <2> QED
    BY <1>0, <2>4, <2>5 DEF Link
<1>11. ASSUME NEW j \in k + 1..Len(fs) PROVE gs[j] = Moved(fs[j], p + (fs[j].start - o))
  <2>1. j \in k..Len(fs) /\ j # k
    BY <1>0, <1>1
  <2> QED
    BY <1>0, <1>9, <2>1
<1> QED
  BY <1>0, <1>10, <1>11

-----------------------------------------------------------------------------
(* Reading what was written: a field put into a well formed message is read  *)
(* there, and the others are read as before.                                 *)

\* The i-th field is the first one of this number and type.
First(fs, i, number, type) ==
    /\ i \in 1..Len(fs) /\ fs[i].number = number /\ fs[i].type = type
    /\ \A j \in 1..i - 1 : ~(fs[j].number = number /\ fs[j].type = type)

Lacks(fs, number, type) ==
    \A i \in 1..Len(fs) : ~(fs[i].number = number /\ fs[i].type = type)

LEMMA FirstField ==
    ASSUME NEW data \in Seq(Byte), NEW number, NEW type
    PROVE  /\ \A i : First(Fields(data), i, number, type) =>
                       Field(data, number, type) = Fields(data)[i]
           /\ \/ \E i : First(Fields(data), i, number, type)
              \/ Field(data, number, type) = NoField /\ Lacks(Fields(data), number, type)
<1> DEFINE fs == Fields(data)
           found == {i \in DOMAIN fs : fs[i].number = number /\ fs[i].type = type}
<1>1. DOMAIN fs = 1..Len(fs) /\ Len(fs) \in Nat
  BY FieldsType
<1>2. Field(data, number, type) = IF found = {} THEN NoField ELSE fs[Min(found)]
  BY DEF Field
<1> HIDE DEF fs
<1>3. found \in SUBSET Nat
  BY <1>1
<1>4. ASSUME NEW i, First(fs, i, number, type) PROVE Field(data, number, type) = fs[i]
  <2>1. i \in found /\ \A j \in found : i <= j
    BY <1>1, <1>4 DEF First
  <2>2. \A l \in found : (\A j \in found : l <= j) => l = i
    BY <1>3, <2>1
  <2> HIDE DEF found
  <2>3. Min(found) = i
    BY <2>1, <2>2 DEF Min
  <2> QED
    BY <1>2, <2>1, <2>3
<1>5. ASSUME found # {} PROVE \E i : First(fs, i, number, type)
  <2>1. PICK i \in found : \A j \in found : i <= j
    BY <1>3, <1>5, LeastNumber
  <2>2. \A j \in 1..i - 1 : j \in 1..Len(fs) /\ ~(i <= j)
    BY <1>1
  <2>3. First(fs, i, number, type)
    BY <1>1, <2>1, <2>2 DEF First
  <2> QED
    BY <2>3
<1>6. ASSUME found = {} PROVE /\ Field(data, number, type) = NoField
                              /\ Lacks(fs, number, type)
  BY <1>1, <1>2, <1>6 DEF Lacks
<1> QED
  BY <1>4, <1>5, <1>6 DEF fs

LEMMA WholeFields ==
    ASSUME NEW data \in Seq(Byte)
    PROVE  WellFormed(data) <=> \A i \in 1..Len(Fields(data)) : Fields(data)[i] # NoField
<1>1. DOMAIN Fields(data) = 1..Len(Fields(data))
  BY FieldsType
<1> QED
  BY <1>1 DEF WellFormed, Range

\* The fields gs are fs with the k-th one in place of one of its number and
\* type, or after the last one.
Edited(fs, gs, k, number, type, v) ==
    /\ Len(gs) \in Nat /\ Len(fs) \in Nat
    /\ k \in 1..Len(gs)
    /\ Len(fs) = Len(gs) \/ (Len(fs) = Len(gs) - 1 /\ k = Len(gs))
    /\ gs[k] # NoField /\ gs[k].number = number /\ gs[k].type = type /\ gs[k].value = v
    /\ \A j \in 1..Len(gs) : j # k =>
         /\ gs[j] # NoField /\ gs[j].number = fs[j].number /\ gs[j].type = fs[j].type
         /\ gs[j].value = fs[j].value
    /\ k \in 1..Len(fs) => fs[k].number = number /\ fs[k].type = type
    /\ \A j \in 1..k - 1 : ~(fs[j].number = number /\ fs[j].type = type)

\* The value is read from the message, and nothing else of it has changed.
Written(data, new, number, type, v) ==
    /\ new \in Seq(Byte) /\ WellFormed(new)
    /\ Field(new, number, type) # NoField /\ Field(new, number, type).value = v
    /\ \A n, t : n # number \/ t # type =>
         /\ Field(new, n, t) = NoField <=> Field(data, n, t) = NoField
         /\ Field(new, n, t) # NoField => Field(new, n, t).value = Field(data, n, t).value

EditedMessage(data, new, k, number, type, v) ==
    /\ data \in Seq(Byte) /\ WellFormed(data) /\ new \in Seq(Byte)
    /\ Edited(Fields(data), Fields(new), k, number, type, v)

LEMMA EditedIsWritten ==
    ASSUME NEW data, NEW new, NEW k, NEW number, NEW type, NEW v,
           EditedMessage(data, new, k, number, type, v)
    PROVE  Written(data, new, number, type, v)
<1>0. /\ data \in Seq(Byte) /\ WellFormed(data) /\ new \in Seq(Byte)
      /\ Edited(Fields(data), Fields(new), k, number, type, v)
  BY DEF EditedMessage
<1> DEFINE fs == Fields(data)
           gs == Fields(new)
<1>1. /\ Len(gs) \in Nat /\ Len(fs) \in Nat /\ k \in 1..Len(gs) /\ Edited(fs, gs, k, number, type, v)
      /\ \A i \in 1..Len(fs) : fs[i] # NoField
  BY <1>0, WholeFields DEF Edited
<1>2. WellFormed(new)
  BY <1>0, WholeFields DEF Edited
<1>3. /\ \A n, t, i : First(gs, i, n, t) => Field(new, n, t) = gs[i]
      /\ \A n, t, i : First(fs, i, n, t) => Field(data, n, t) = fs[i]
      /\ \A n, t : \/ \E i : First(fs, i, n, t)
                   \/ Field(data, n, t) = NoField /\ Lacks(fs, n, t)
      /\ \A n, t : \/ \E i : First(gs, i, n, t)
                   \/ Field(new, n, t) = NoField /\ Lacks(gs, n, t)
  <2>1. ASSUME NEW n, NEW t, NEW i, First(gs, i, n, t) PROVE Field(new, n, t) = gs[i]
    BY <1>0, <2>1, FirstField
  <2>2. ASSUME NEW n, NEW t, NEW i, First(fs, i, n, t) PROVE Field(data, n, t) = fs[i]
    BY <1>0, <2>2, FirstField
  <2>3. ASSUME NEW n, NEW t, ~\E i : First(fs, i, n, t)
        PROVE  Field(data, n, t) = NoField /\ Lacks(fs, n, t)
    BY <1>0, <2>3, FirstField
  <2>4. ASSUME NEW n, NEW t, ~\E i : First(gs, i, n, t)
        PROVE  Field(new, n, t) = NoField /\ Lacks(gs, n, t)
    BY <1>0, <2>4, FirstField
  <2> HIDE DEF fs, gs
  <2> QED
    BY <2>1, <2>2, <2>3, <2>4
<1> HIDE DEF fs, gs
<1>4. Field(new, number, type) # NoField /\ Field(new, number, type).value = v
  <2>1. \A j \in 1..k - 1 : j \in 1..Len(gs) /\ j # k
    BY <1>1
  <2>2. First(gs, k, number, type)
    BY <1>1, <2>1 DEF First, Edited
  <2>3. Field(new, number, type) = gs[k]
    BY <1>3, <2>2
  <2> QED
    BY <1>1, <2>3 DEF Edited
<1>5. ASSUME NEW n, NEW t, n # number \/ t # type
      PROVE  /\ Field(new, n, t) = NoField <=> Field(data, n, t) = NoField
             /\ Field(new, n, t) # NoField => Field(new, n, t).value = Field(data, n, t).value
  <2>1. ASSUME NEW j \in 1..Len(fs)
        PROVE  /\ j \in 1..Len(gs)
               /\ (gs[j].number = n /\ gs[j].type = t) <=> (fs[j].number = n /\ fs[j].type = t)
    <3>1. j \in 1..Len(gs)
      BY <1>1 DEF Edited
    <3>2. gs[j].number = fs[j].number /\ gs[j].type = fs[j].type
      <4>1. CASE j = k
        BY <1>1, <4>1 DEF Edited
      <4>2. CASE j # k
        BY <1>1, <3>1, <4>2 DEF Edited
      <4> QED
        BY <4>1, <4>2
    <3> QED
      BY <3>1, <3>2
  <2>2. ~(gs[k].number = n /\ gs[k].type = t)
    BY <1>1, <1>5 DEF Edited
  <2>3. CASE \E i : First(fs, i, n, t)
    <3>1. PICK i : First(fs, i, n, t)
      BY <2>3
    <3>2. i \in 1..Len(fs) /\ fs[i].number = n /\ fs[i].type = t /\ i \in 1..Len(gs)
          /\ \A j \in 1..i - 1 : j \in 1..Len(fs) /\ ~(fs[j].number = n /\ fs[j].type = t)
      BY <1>1, <2>1, <3>1 DEF First
    <3>3. First(gs, i, n, t)
      BY <2>1, <3>2 DEF First
    <3>4. Field(new, n, t) = gs[i] /\ Field(data, n, t) = fs[i]
      BY <1>3, <3>1, <3>3
    <3>5. i # k
      BY <2>1, <2>2, <3>2
    <3>6. gs[i] # NoField /\ fs[i] # NoField /\ gs[i].value = fs[i].value
      BY <1>1, <3>2, <3>5 DEF Edited
    <3> QED
      BY <3>4, <3>6
  <2>4. CASE ~\E i : First(fs, i, n, t)
    <3>1. /\ Field(data, n, t) = NoField
          /\ \A i \in 1..Len(fs) : ~(fs[i].number = n /\ fs[i].type = t)
      BY <1>3, <2>4 DEF Lacks
    <3>2. ASSUME NEW i \in 1..Len(gs) PROVE ~(gs[i].number = n /\ gs[i].type = t)
      <4>1. i = k \/ i \in 1..Len(fs)
        BY <1>1 DEF Edited
      <4> QED
        BY <2>1, <2>2, <3>1, <4>1
    <3>3. ~\E i : First(gs, i, n, t)
      BY <3>2 DEF First
    <3>4. Field(new, n, t) = NoField
      BY <1>3, <3>3
    <3> QED
      BY <3>1, <3>4
  <2> QED
    BY <2>3, <2>4
<1> QED
  BY <1>0, <1>2, <1>4, <1>5 DEF Written

LEMMA Joined ==
    ASSUME NEW T, NEW a \in Seq(T), NEW b \in Seq(T)
    PROVE  /\ a \o b \in Seq(T) /\ Len(a \o b) = Len(a) + Len(b)
           /\ \A i \in 1..Len(a) : (a \o b)[i] = a[i]
           /\ \A j \in 1..Len(a) + Len(b) : ~(j <= Len(a)) => (a \o b)[j] = b[j - Len(a)]
  OBVIOUS

\* The message with the bytes s in place of those from o to before e.
Splice(data, s, o, e) == SubSeq(data, 1, o - 1) \o s \o SubSeq(data, e, Len(data))

IsSplice(data, s, o, e, new) ==
    /\ new \in Seq(Byte)
    /\ Agree(data, 1, new, 1, o - 1)
    /\ At(new, o, s)
    /\ Agree(data, e, new, o + Len(s), Len(data) + 1 - e)
    /\ o + Len(s) + (Len(data) + 1 - e) = Len(new) + 1

LEMMA Spliced ==
    ASSUME NEW data \in Seq(Byte), NEW s \in Seq(Byte), NEW o \in 1..Len(data) + 1,
           NEW e \in o..Len(data) + 1
    PROVE  IsSplice(data, s, o, e, Splice(data, s, o, e))
<1> DEFINE new == Splice(data, s, o, e)
           a == SubSeq(data, 1, o - 1)
           c == SubSeq(data, e, Len(data))
           x == Len(data)
           l == Len(s)
           n == x + 1 - e
           b == a \o s
<1>1. /\ x \in Nat /\ l \in Nat /\ n \in Nat /\ o \in Nat \ {0} /\ e \in Nat \ {0}
      /\ o <= x + 1 /\ o <= e /\ e <= x + 1 /\ e + n = x + 1
  OBVIOUS
<1>2. a \in Seq(Byte) /\ Len(a) = o - 1 /\ \A i \in 1..o - 1 : a[i] = data[i]
  BY <1>1
<1>3. c \in Seq(Byte) /\ Len(c) = n /\ \A i \in 1..n : c[i] = data[e + i - 1]
  BY <1>1
<1>4. new = b \o c
  BY DEF Splice
<1> HIDE DEF a, c, b, n, new
<1>5. /\ b \in Seq(Byte) /\ Len(b) = o - 1 + l
      /\ \A i \in 1..o - 1 : b[i] = a[i]
      /\ \A i \in 1..l : b[o + i - 1] = s[i]
  <2>1. /\ b \in Seq(Byte) /\ Len(b) = Len(a) + Len(s)
        /\ \A i \in 1..Len(a) : b[i] = a[i]
        /\ \A j \in 1..Len(a) + Len(s) : ~(j <= Len(a)) => b[j] = s[j - Len(a)]
    BY <1>2, Joined DEF b
  <2>2. Len(b) = o - 1 + l
    BY <1>2, <2>1
  <2>3. ASSUME NEW i \in 1..l PROVE b[o + i - 1] = s[i]
    <3> DEFINE j == o + i - 1
    <3>1. j \in 1..Len(a) + Len(s) /\ ~(j <= Len(a)) /\ j - Len(a) = i
      BY <1>1, <1>2
    <3> HIDE DEF j, l
    <3> QED
      BY <2>1, <3>1 DEF j
  <2>4. \A i \in 1..o - 1 : b[i] = a[i]
    BY <1>2, <2>1
  <2> HIDE DEF l
  <2> QED
    BY <2>1, <2>2, <2>3, <2>4
<1>6. /\ new \in Seq(Byte) /\ Len(new) = o - 1 + l + n
      /\ \A i \in 1..o - 1 + l : new[i] = b[i]
      /\ \A i \in 1..n : new[o + l + i - 1] = c[i]
  <2>1. /\ new \in Seq(Byte) /\ Len(new) = Len(b) + Len(c)
        /\ \A i \in 1..Len(b) : new[i] = b[i]
        /\ \A j \in 1..Len(b) + Len(c) : ~(j <= Len(b)) => new[j] = c[j - Len(b)]
    <3> DEFINE w == b \o c
    <3>1. /\ w \in Seq(Byte) /\ Len(w) = Len(b) + Len(c)
          /\ \A i \in 1..Len(b) : w[i] = b[i]
          /\ \A j \in 1..Len(b) + Len(c) : ~(j <= Len(b)) => w[j] = c[j - Len(b)]
      <4>1. b \in Seq(Byte) /\ c \in Seq(Byte)
        BY <1>3, <1>5
      <4> QED
        BY <4>1, Joined
    <3> HIDE DEF w
    <3> QED
      BY <1>4, <3>1 DEF w
  <2> HIDE DEF l
  <2>2. Len(new) = o - 1 + l + n
    BY <1>3, <1>5, <2>1
  <2>3. ASSUME NEW i \in 1..n PROVE new[o + l + i - 1] = c[i]
    <3> DEFINE j == o + l + i - 1
    <3>1. j \in 1..Len(b) + Len(c) /\ ~(j <= Len(b)) /\ j - Len(b) = i
      BY <1>1, <1>3, <1>5
    <3> HIDE DEF j
    <3> QED
      BY <2>1, <3>1 DEF j
  <2>4. \A i \in 1..o - 1 + l : new[i] = b[i]
    BY <1>5, <2>1
  <2> QED
    BY <2>1, <2>2, <2>3, <2>4
<1> DEFINE y == Len(new)
<1>11. y \in Nat /\ y + 1 = o + l + n /\ l = Len(s) /\ x = Len(data)
  BY <1>1, <1>6
<1> HIDE DEF x, l, y
<1>7. Agree(data, 1, new, 1, o - 1)
  <2>1. ASSUME NEW k \in 0..(o - 1) - 1 PROVE new[1 + k] = data[1 + k]
    <3>1. 1 + k \in 1..o - 1 /\ 1 + k \in 1..o - 1 + l
      BY <1>1
    <3> QED
      BY <1>2, <1>5, <1>6, <3>1
  <2>2. 1 + (o - 1) <= x + 1 /\ 1 + (o - 1) <= y + 1
    BY <1>1, <1>11
  <2> QED
    BY <2>1, <2>2 DEF Agree, x, y
<1>8. At(new, o, s)
  <2>1. ASSUME NEW i \in 1..Len(s) PROVE new[o + i - 1] = s[i]
    <3>1. o + i - 1 \in 1..o - 1 + l /\ i \in 1..l
      BY <1>1, <1>11
    <3> QED
      BY <1>5, <1>6, <3>1
  <2>2. o + l <= y + 1
    BY <1>1, <1>11
  <2> QED
    BY <2>1, <2>2 DEF At, l, y
<1>9. Agree(data, e, new, o + l, n)
  <2>1. ASSUME NEW k \in 0..n - 1 PROVE new[(o + l) + k] = data[e + k]
    <3>1. k + 1 \in 1..n /\ o + l + (k + 1) - 1 = (o + l) + k /\ e + (k + 1) - 1 = e + k
      BY <1>1
    <3>2. new[o + l + (k + 1) - 1] = c[k + 1] /\ c[k + 1] = data[e + (k + 1) - 1]
      BY <1>3, <1>6, <3>1
    <3> QED
      BY <3>1, <3>2
  <2>2. e + n <= x + 1 /\ (o + l) + n <= y + 1
    BY <1>1, <1>11
  <2> QED
    BY <2>1, <2>2 DEF Agree, x, y
<1>10. o + l + n = Len(new) + 1
  BY <1>11 DEF y
<1> QED
  BY <1>6, <1>7, <1>8, <1>9, <1>10 DEF n, l, x, new, IsSplice

LEMMA Appended ==
    ASSUME NEW data \in Seq(Byte), NEW s \in Seq(Byte), NEW new, new = data \o s
    PROVE  /\ new \in Seq(Byte) /\ Len(new) = Len(data) + Len(s)
           /\ Agree(data, 1, new, 1, Len(data))
           /\ At(new, Len(data) + 1, s)
<1>1. Len(data) \in Nat /\ Len(s) \in Nat /\ new \in Seq(Byte) /\ Len(new) = Len(data) + Len(s)
  OBVIOUS
<1>2. ASSUME NEW k \in 0..Len(data) - 1 PROVE new[1 + k] = data[1 + k]
  <2>1. 1 + k \in 1..Len(data)
    BY <1>1
  <2> QED
    BY <1>1, <2>1
<1>3. ASSUME NEW i \in 1..Len(s) PROVE new[(Len(data) + 1) + i - 1] = s[i]
  <2> DEFINE j == (Len(data) + 1) + i - 1
  <2>1. j \in 1..Len(data) + Len(s) /\ ~(j <= Len(data)) /\ j - Len(data) = i
    BY <1>1
  <2> HIDE DEF j
  <2>2. (data \o s)[j] = s[j - Len(data)]
    BY <2>1
  <2> QED
    BY <2>1, <2>2 DEF j
<1> QED
  BY <1>1, <1>2, <1>3 DEF Agree, At

\* The bytes s are a field that is read as v, wherever they are.
Reads(s, number, type, v) ==
    /\ s \in Seq(Byte) /\ Len(s) > 0
    /\ \A data \in Seq(Byte) : \A o \in Nat \ {0} : At(data, o, s) =>
         FieldAt(data, o) = [number |-> number, type |-> type, value |-> v,
                             start |-> o, end |-> o + Len(s)]

LEMMA RecordIsField ==
    ASSUME NEW number, NEW type, NEW v, NEW o, NEW e, NEW f,
           f = [number |-> number, type |-> type, value |-> v, start |-> o, end |-> e]
    PROVE  /\ f # NoField /\ f.number = number /\ f.type = type /\ f.value = v
           /\ f.start = o /\ f.end = e
<1>1. "end" \in DOMAIN f /\ "end" \notin DOMAIN NoField
  BY DEF NoField
<1> QED
  BY <1>1

\* A message that can be parsed to its end, and a number that can be read.
Whole(data) == data \in Seq(Byte) /\ WellFormed(data)
Short(n) == n \in Nat /\ Fits(n)

\* The fields gs are those of fs, and one more.
OneMore(fs, gs, number, type, v) ==
    /\ Len(fs) \in Nat /\ Len(gs) = Len(fs) + 1
    /\ \A i \in 1..Len(fs) : gs[i] = fs[i]
    /\ gs[Len(gs)] # NoField /\ gs[Len(gs)].number = number /\ gs[Len(gs)].type = type
    /\ gs[Len(gs)].value = v

\* A field written after a whole message is read after its fields.
LEMMA AppendedField ==
    ASSUME NEW data, Whole(data), NEW number, NEW type, NEW v, NEW s,
           Reads(s, number, type, v)
    PROVE  Whole(data \o s) /\ OneMore(Fields(data), Fields(data \o s), number, type, v)
<1> DEFINE new == data \o s
           fs == Fields(data)
           gs == Fields(new)
           l == Len(s)
           k == Len(fs) + 1
           o == Len(data) + 1
<1>0. data \in Seq(Byte) /\ WellFormed(data)
  BY DEF Whole
<1>1. /\ Chain(data, 1, fs) /\ Len(fs) \in Nat /\ Len(data) \in Nat
      /\ \A i \in 1..Len(fs) : fs[i] # NoField
      /\ s \in Seq(Byte) /\ l \in Nat /\ l > 0 /\ l = Len(s)
  BY <1>0, FieldsChain, FieldsType, WholeFields DEF Reads
<1>3. /\ new \in Seq(Byte) /\ Len(new) = Len(data) + l
      /\ Agree(data, 1, new, 1, Len(data)) /\ At(new, o, s)
  BY <1>0, <1>1, Appended DEF l
<1> HIDE DEF new
<1>4. Chain(new, 1, gs) /\ Len(gs) \in Nat /\ Len(new) \in Nat
  BY <1>3, FieldsChain, FieldsType
<1>5. ASSUME NEW g, NEW q \in Nat \ {0}, At(new, q, s), g = FieldAt(new, q)
      PROVE  /\ g # NoField /\ g.number = number /\ g.type = type /\ g.value = v
             /\ g.start = q /\ g.end = q + l
  <2>1. g = [number |-> number, type |-> type, value |-> v, start |-> q, end |-> q + l]
    BY <1>3, <1>5 DEF Reads
  <2> QED
    BY <2>1, RecordIsField
<1> HIDE DEF fs, gs, l
<1>6. /\ k \in 1..Len(fs) + 1 /\ ~(k <= Len(fs)) /\ \A i \in 1..k - 1 : fs[i] # NoField
      /\ o \in Nat \ {0} /\ o - 1 = Len(data) /\ k \in Nat /\ k = Len(fs) + 1
      /\ k - 1 = Len(fs)
  BY <1>1
<1>7. o <= Len(new)
  BY <1>1, <1>3
<1> HIDE DEF k
<1>8. o = Place(fs, k)
  BY <1>0, <1>1, <1>6, PlaceType
<1> HIDE DEF o
<1>9. Agree(data, 1, new, 1, o - 1)
  BY <1>3, <1>6
<1>10. /\ \A i \in 1..k - 1 : i \in 1..Len(gs) /\ gs[i] = fs[i]
       /\ k \in 1..Len(gs) /\ gs[k] = FieldAt(new, o)
  <2>1. Parting(data, fs, new, gs, k, o)
    BY <1>0, <1>1, <1>3, <1>4, <1>6, <1>7, <1>8, <1>9 DEF Parting
  <2> QED
    BY <2>1, SameStart
<1>11. /\ gs[k] # NoField /\ gs[k].number = number /\ gs[k].type = type
       /\ gs[k].value = v /\ gs[k].end = o + l
  BY <1>3, <1>5, <1>6, <1>10
<1>12. Len(gs) = k
  <2>1. Link(new, gs, k)
    BY <1>4, <1>10 DEF Chain
  <2>2. o + l > Len(new)
    BY <1>1, <1>3, <1>4, <1>6
  <2> QED
    BY <1>11, <2>1, <2>2 DEF Link
<1>13. OneMore(fs, gs, number, type, v)
  BY <1>1, <1>6, <1>10, <1>11, <1>12 DEF OneMore
<1>14. \A i \in 1..Len(gs) : gs[i] # NoField
  <2> TAKE i \in 1..Len(gs)
  <2>1. CASE i = k
    BY <1>11, <2>1
  <2>2. CASE i # k
    <3>1. i \in 1..k - 1
      BY <1>6, <1>12, <2>2
    <3> QED
      BY <1>6, <1>10, <3>1
  <2> QED
    BY <2>1, <2>2
<1>15. Whole(new)
  BY <1>3, <1>14, WholeFields DEF Whole, gs
<1> QED
  BY <1>13, <1>15 DEF new, fs, gs

LEMMA ReplacedIsEdited ==
    ASSUME NEW data \in Seq(Byte), WellFormed(data), NEW number, NEW type, NEW v, NEW s,
           Reads(s, number, type, v)
    PROVE  \E k : EditedMessage(data, ReplaceField(data, number, type, s), k, number, type, v)
<1> DEFINE new == ReplaceField(data, number, type, s)
           fs == Fields(data)
           gs == Fields(new)
           x == Len(data)
           l == Len(s)
<1>1. /\ Chain(data, 1, fs) /\ Len(fs) \in Nat /\ x \in Nat /\ x = Len(data)
      /\ \A i \in 1..Len(fs) : fs[i] # NoField
      /\ s \in Seq(Byte) /\ l \in Nat /\ l > 0 /\ l = Len(s)
  BY FieldsChain, FieldsType, WholeFields DEF Reads
<1>2. /\ \A i : First(fs, i, number, type) => Field(data, number, type) = fs[i]
      /\ \/ \E i : First(fs, i, number, type)
         \/ Field(data, number, type) = NoField /\ Lacks(fs, number, type)
  BY FirstField
<1>3. new \in Seq(Byte) => Chain(new, 1, gs) /\ Len(gs) \in Nat /\ Len(new) \in Nat
  BY FieldsChain, FieldsType
<1>4. ASSUME NEW o \in Nat \ {0}, new \in Seq(Byte), At(new, o, s), NEW g, g = FieldAt(new, o)
      PROVE  /\ g # NoField /\ g.number = number /\ g.type = type /\ g.value = v
             /\ g.start = o /\ g.end = o + l
  BY <1>4, RecordIsField DEF Reads
<1> HIDE DEF fs, gs, x, l, new
<1>5. CASE \E i : First(fs, i, number, type)
  <2>1. PICK k : First(fs, k, number, type)
    BY <1>5
  <2> DEFINE f == fs[k]
             o == f.start
             e == f.end
             p == o + l
             n == x + 1 - e
  <2>2. /\ k \in 1..Len(fs) /\ k \in 1..Len(fs) + 1 /\ k <= Len(fs) /\ f # NoField
        /\ \A i \in 1..k - 1 : fs[i] # NoField
    BY <1>1, <2>1 DEF First
  <2>3. o = Place(fs, k) /\ o \in 1..x /\ e \in o + 1..x + 1
    <3> DEFINE q == Place(fs, k)
    <3> HIDE DEF q
    <3>1. q \in 1..Len(data) /\ fs[k].start = q /\ fs[k].end \in q + 1..Len(data) + 1
      BY <1>1, <2>2, PlaceType DEF q
    <3> QED
      BY <3>1 DEF q, x
  <2>4. new = Splice(data, s, o, e)
    <3>1. Field(data, number, type) = f
      BY <1>2, <2>1
    <3> QED
      BY <2>2, <3>1 DEF ReplaceField, Splice, new
  <2> HIDE DEF f, o, e
  <2>5. /\ o \in 1..Len(data) + 1 /\ e \in o..Len(data) + 1 /\ o \in Nat \ {0} /\ n \in Nat
        /\ p \in Nat \ {0} /\ e + n = x + 1
    BY <1>1, <2>3
  <2>6. /\ new \in Seq(Byte) /\ Agree(data, 1, new, 1, o - 1) /\ At(new, o, s)
        /\ Agree(data, e, new, p, n) /\ p + n = Len(new) + 1
    <3>1. /\ new \in Seq(Byte) /\ Agree(data, 1, new, 1, o - 1) /\ At(new, o, s)
          /\ Agree(data, e, new, o + Len(s), Len(data) + 1 - e)
          /\ o + Len(s) + (Len(data) + 1 - e) = Len(new) + 1
      <4>1. IsSplice(data, s, o, e, Splice(data, s, o, e))
        BY <1>1, <2>5, Spliced
      <4> QED
        BY <2>4, <4>1 DEF IsSplice
    <3> QED
      BY <3>1 DEF l, x
  <2> HIDE DEF p, n
  <2>7. o <= Len(new)
    <3>1. o + l <= Len(new) + 1
      BY <2>6 DEF At, l
    <3> QED
      BY <1>1, <1>3, <2>5, <2>6, <3>1
  <2>8. /\ \A i \in 1..k - 1 : i \in 1..Len(gs) /\ gs[i] = fs[i]
        /\ k \in 1..Len(gs) /\ gs[k] = FieldAt(new, o)
    <3>1. Parting(data, fs, new, gs, k, o)
      BY <1>1, <1>3, <2>2, <2>3, <2>6, <2>7 DEF Parting
    <3> QED
      BY <3>1, SameStart
  <2>9. /\ gs[k] # NoField /\ gs[k].number = number /\ gs[k].type = type
        /\ gs[k].value = v /\ gs[k].end = p
    BY <1>4, <2>5, <2>6, <2>8 DEF p
  <2>10. Joint(data, fs, new, gs, k, e, p, n)
    BY <1>1, <1>3, <2>2, <2>5, <2>6, <2>8, <2>9 DEF Joint, e, f, x
  <2>11. /\ Len(gs) = Len(fs)
         /\ \A j \in k + 1..Len(fs) : gs[j] = Moved(fs[j], p + (fs[j].start - e))
    BY <2>6, <2>10, SameEnd
  <2>12. ASSUME NEW j \in 1..Len(gs), j # k
         PROVE  /\ gs[j] # NoField /\ gs[j].number = fs[j].number /\ gs[j].type = fs[j].type
                /\ gs[j].value = fs[j].value
    <3>1. j \in 1..Len(fs) /\ (j \in 1..k - 1 \/ j \in k + 1..Len(fs))
      BY <1>1, <2>2, <2>11, <2>12
    <3>2. CASE j \in 1..k - 1
      BY <1>1, <2>8, <3>1, <3>2
    <3>3. CASE j \in k + 1..Len(fs)
      <4> DEFINE h == fs[j]
                 q == p + (h.start - e)
      <4>1. h \in FieldsOf(data) /\ h # NoField
        BY <1>1, <3>1 DEF Chain
      <4>2. gs[j] = Moved(h, q)
        BY <2>11, <3>3
      <4> HIDE DEF h, q
      <4>3. DOMAIN h = {"number", "type", "value", "start", "end"}
        BY <4>1 DEF FieldsOf, Numeric, Opaque
      <4>4. /\ Moved(h, q).number = h.number /\ Moved(h, q).type = h.type
            /\ Moved(h, q).value = h.value /\ "end" \in DOMAIN Moved(h, q)
        BY <4>3 DEF Moved
      <4>5. "end" \notin DOMAIN NoField
        BY DEF NoField
      <4> QED
        BY <4>2, <4>4, <4>5 DEF h
    <3> QED
      BY <3>1, <3>2, <3>3
  <2>13. fs[k].number = number /\ fs[k].type = type
         /\ \A j \in 1..k - 1 : ~(fs[j].number = number /\ fs[j].type = type)
    BY <2>1 DEF First
  <2>14. Len(gs) \in Nat
    BY <1>3, <2>6
  <2>15. Edited(fs, gs, k, number, type, v)
    BY <1>1, <2>8, <2>9, <2>11, <2>12, <2>13, <2>14 DEF Edited
  <2> QED
    <3>1. EditedMessage(data, new, k, number, type, v)
      BY <2>6, <2>15 DEF EditedMessage, fs, gs
    <3> QED
      BY <3>1 DEF new
<1>6. CASE ~\E i : First(fs, i, number, type)
  <2> DEFINE k == Len(fs) + 1
  <2>1. Field(data, number, type) = NoField /\ Lacks(fs, number, type)
    BY <1>2, <1>6
  <2>2. new = data \o s
    BY <2>1 DEF ReplaceField, new
  <2>3. Whole(new) /\ OneMore(fs, gs, number, type, v)
    BY <2>2, AppendedField DEF Whole, fs, gs
  <2>4. /\ Len(gs) = k /\ k \in Nat /\ k \in 1..Len(gs) /\ Len(fs) = Len(gs) - 1
        /\ k \notin 1..Len(fs) /\ k - 1 = Len(fs)
    BY <1>1, <2>3 DEF OneMore
  <2> HIDE DEF k
  <2>5. ASSUME NEW j \in 1..Len(gs), j # k
        PROVE  /\ gs[j] # NoField /\ gs[j].number = fs[j].number /\ gs[j].type = fs[j].type
               /\ gs[j].value = fs[j].value
    <3>1. j \in 1..Len(fs)
      BY <1>1, <2>4, <2>5
    <3>2. gs[j] = fs[j]
      BY <2>3, <3>1 DEF OneMore
    <3> QED
      BY <1>1, <3>1, <3>2
  <2>6. gs[k] # NoField /\ gs[k].number = number /\ gs[k].type = type /\ gs[k].value = v
    BY <2>3, <2>4 DEF OneMore
  <2>7. \A j \in 1..k - 1 : ~(fs[j].number = number /\ fs[j].type = type)
    BY <2>1, <2>4 DEF Lacks
  <2>8. Edited(fs, gs, k, number, type, v)
    BY <1>1, <2>4, <2>5, <2>6, <2>7 DEF Edited
  <2> QED
    <3>1. EditedMessage(data, new, k, number, type, v)
      BY <2>3, <2>8 DEF EditedMessage, Whole, fs, gs
    <3> QED
      BY <3>1 DEF new
<1> QED
  BY <1>5, <1>6 DEF new

LEMMA ReplacedIsWritten ==
    ASSUME NEW data \in Seq(Byte), WellFormed(data), NEW number, NEW type, NEW v, NEW s,
           Reads(s, number, type, v)
    PROVE  Written(data, ReplaceField(data, number, type, s), number, type, v)
BY ReplacedIsEdited, EditedIsWritten

LEMMA AtParts ==
    ASSUME NEW data \in Seq(Byte), NEW o \in Nat \ {0}, NEW s \in Seq(Byte), NEW w \in Seq(Byte),
           At(data, o, s \o w)
    PROVE  At(data, o, s) /\ At(data, o + Len(s), w)
<1> DEFINE u == s \o w
           a == Len(s)
           b == Len(w)
           x == Len(data)
<1>1. /\ u \in Seq(Byte) /\ Len(u) = Len(s) + Len(w)
      /\ \A i \in 1..Len(s) : u[i] = s[i]
      /\ \A j \in 1..Len(s) + Len(w) : ~(j <= Len(s)) => u[j] = w[j - Len(s)]
      /\ a \in Nat /\ b \in Nat /\ x \in Nat
  BY Joined
<1>2. /\ o + Len(u) <= Len(data) + 1
      /\ \A i \in 1..Len(u) : data[o + i - 1] = u[i]
  BY DEF At
<1> HIDE DEF u
<1>3. o + a + b <= x + 1 /\ \A i \in 1..a + b : data[o + i - 1] = u[i]
  BY <1>1, <1>2
<1>4. ASSUME NEW i \in 1..a PROVE data[o + i - 1] = s[i]
  <2>1. i \in 1..a + b
    BY <1>1
  <2> QED
    BY <1>1, <1>3, <2>1
<1>5. ASSUME NEW i \in 1..b PROVE data[(o + a) + i - 1] = w[i]
  <2> DEFINE j == a + i
  <2>1. j \in 1..a + b /\ ~(j <= a) /\ j - a = i /\ o + j - 1 = (o + a) + i - 1
    BY <1>1
  <2> HIDE DEF j
  <2>2. data[o + j - 1] = u[j]
    BY <1>3, <2>1
  <2>3. u[j] = w[j - a]
    BY <1>1, <2>1
  <2> QED
    BY <2>1, <2>2, <2>3
<1>6. o + a <= x + 1 /\ (o + a) + b <= x + 1
  BY <1>1, <1>3
<1> QED
  BY <1>4, <1>5, <1>6 DEF At

LEMMA Tag ==
    ASSUME NEW number \in Nat \ {0}, NEW type \in 0..7
    PROVE  /\ 8 * number + type \in Nat /\ ~(8 * number + type < 8)
           /\ (8 * number + type) \div 8 = number
           /\ (8 * number + type) % 8 = type
  OBVIOUS

LEMMA VarintFieldReads ==
    ASSUME NEW number \in Nat \ {0}, NEW n \in Nat, Fits(8 * number), Fits(n)
    PROVE  Reads(VarintField(number, n), number, 0, n)
<1> DEFINE t == 8 * number
           c == Varint[t]
           w == Varint[n]
           s == c \o w
<1>1. t \in Nat /\ ~(t < 8) /\ t \div 8 = number /\ t % 8 = 0
  <2>1. 0 \in 0..7 /\ 8 * number + 0 = t
    OBVIOUS
  <2> HIDE DEF t
  <2> QED
    BY <2>1, Tag
<1> HIDE DEF t
<1>2. IsCode(c, t) /\ IsCode(w, n) /\ Len(c) <= 10 /\ Len(w) <= 10
  BY <1>1, VarintIsCode DEF Fits, t
<1>3. c \in Seq(Byte) /\ w \in Seq(Byte) /\ Len(c) \in Nat \ {0} /\ Len(w) \in Nat \ {0}
  BY <1>2 DEF IsCode
<1> HIDE DEF c, w
<1>4. s \in Seq(Byte) /\ Len(s) = Len(c) + Len(w)
  BY <1>3, Joined
<1>5. ASSUME NEW data \in Seq(Byte), NEW o \in Nat \ {0}, At(data, o, s)
      PROVE  FieldAt(data, o) = [number |-> number, type |-> 0, value |-> n,
                                 start |-> o, end |-> o + Len(s)]
  <2> DEFINE tag == [number |-> t, end |-> o + Len(c)]
             e == (o + Len(c)) + Len(w)
             arg == [number |-> n, end |-> e]
  <2>1. At(data, o, c) /\ At(data, o + Len(c), w) /\ o + Len(c) \in Nat \ {0}
    BY <1>3, <1>5, AtParts
  <2>2. DecodeVarint(data, o) = tag
    BY <1>2, <2>1, DecodeCode
  <2>3. DecodeVarint(data, tag.end) = arg
    BY <1>2, <2>1, DecodeCode
  <2>4. tag # NoField /\ arg # NoField
    BY EndIsNone
  <2>5. tag.number = t /\ arg.number = n /\ arg.end = e
    OBVIOUS
  <2>6. e = o + Len(s)
    BY <1>3, <1>4
  <2> HIDE DEF tag, arg, e, s
  <2>7. FieldAt(data, o) = VarintPayload(o, tag, arg)
    BY <1>1, <2>2, <2>3, <2>4, <2>5 DEF FieldAt, TaggedField
  <2>8. FieldAt(data, o) = [number |-> number, type |-> 0, value |-> n, start |-> o, end |-> e]
    BY <1>1, <2>4, <2>5, <2>7 DEF VarintPayload
  <2> QED
    BY <2>6, <2>8
<1>6. Len(s) > 0
  BY <1>3, <1>4
<1>7. s = VarintField(number, n)
  BY DEF VarintField, c, t, w
<1> HIDE DEF s
<1>8. Reads(s, number, 0, n)
  BY <1>4, <1>5, <1>6 DEF Reads
<1> QED
  BY <1>7, <1>8

LEMMA BytesFieldReads ==
    ASSUME NEW number \in Nat \ {0}, NEW b \in Seq(Byte), Fits(8 * number + 2), Fits(Len(b))
    PROVE  Reads(BytesField(number, b), number, 2, b)
<1> DEFINE t == 8 * number + 2
           l == Len(b)
           c == Varint[t]
           w == Varint[l]
           h == c \o w
           s == h \o b
<1>1. t \in Nat /\ ~(t < 8) /\ t \div 8 = number /\ t % 8 = 2 /\ l \in Nat /\ l = Len(b)
  <2>1. 2 \in 0..7
    OBVIOUS
  <2> QED
    BY <2>1, Tag
<1> HIDE DEF t, l
<1>2. IsCode(c, t) /\ IsCode(w, l) /\ Len(c) <= 10 /\ Len(w) <= 10
  BY <1>1, VarintIsCode DEF Fits, t, l
<1>3. c \in Seq(Byte) /\ w \in Seq(Byte) /\ Len(c) \in Nat \ {0} /\ Len(w) \in Nat \ {0}
  BY <1>2 DEF IsCode
<1> HIDE DEF c, w
<1>4. h \in Seq(Byte) /\ Len(h) = Len(c) + Len(w)
  BY <1>3, Joined
<1> HIDE DEF h
<1>5. s \in Seq(Byte) /\ Len(s) = Len(h) + Len(b)
  BY <1>4, Joined
<1>6. ASSUME NEW data \in Seq(Byte), NEW o \in Nat \ {0}, At(data, o, s)
      PROVE  FieldAt(data, o) = [number |-> number, type |-> 2, value |-> b,
                                 start |-> o, end |-> o + Len(s)]
  <2> DEFINE tag == [number |-> t, end |-> o + Len(c)]
             e == (o + Len(c)) + Len(w)
             arg == [number |-> l, end |-> e]
  <2>1. At(data, o, h) /\ At(data, o + Len(h), b)
    BY <1>4, <1>6, AtParts
  <2>2. At(data, o, c) /\ At(data, o + Len(c), w) /\ o + Len(c) \in Nat \ {0}
    BY <1>3, <2>1, AtParts DEF h
  <2>3. DecodeVarint(data, o) = tag
    BY <1>2, <2>2, DecodeCode
  <2>4. DecodeVarint(data, tag.end) = arg
    BY <1>2, <2>2, DecodeCode
  <2>5. tag # NoField /\ arg # NoField
    BY EndIsNone
  <2>6. tag.number = t /\ arg.number = l /\ arg.end = e
    OBVIOUS
  <2>7. e = o + Len(h) /\ e \in Nat \ {0} /\ e + l = o + Len(s)
    BY <1>1, <1>3, <1>4, <1>5
  <2>8. At(data, e, b)
    BY <2>1, <2>7
  <2> HIDE DEF tag, arg, e, s
  <2>9. FieldAt(data, o) = Payload(data, o, tag, e, l)
    BY <1>1, <2>3, <2>4, <2>5, <2>6 DEF FieldAt, TaggedField, BytesPayload
  <2>10. ~(e + l > Len(data) + 1)
    <3>1. e + l <= Len(data) + 1
      BY <2>8 DEF At, l
    <3> QED
      BY <1>1, <2>7, <3>1
  <2>11. SubSeq(data, e, e + l - 1) = b
    <3> DEFINE u == SubSeq(data, e, e + l - 1)
    <3>1. u \in Seq(Byte) /\ Len(u) = l /\ \A i \in 1..l : u[i] = data[e + i - 1]
      BY <1>1, <2>7, <2>10
    <3> HIDE DEF u
    <3>2. \A i \in 1..l : data[e + i - 1] = b[i]
      BY <2>8 DEF At, l
    <3>3. u = b
      BY <1>1, <3>1, <3>2, SeqEqual
    <3> QED
      BY <3>3 DEF u
  <2>12. FieldAt(data, o) = [number |-> number, type |-> 2, value |-> b,
                             start |-> o, end |-> e + l]
    BY <1>1, <2>6, <2>9, <2>10, <2>11 DEF Payload
  <2> QED
    BY <2>7, <2>12
<1>7. Len(s) > 0
  BY <1>1, <1>3, <1>4, <1>5
<1>8. s = BytesField(number, b)
  BY DEF BytesField, c, t, w, h, l
<1> HIDE DEF s
<1>9. Reads(s, number, 2, b)
  BY <1>5, <1>6, <1>7 DEF Reads
<1> QED
  BY <1>8, <1>9

\* A number that the server patches into a well formed message is read back
\* from it, and whatever else is in the message is read as before: patch_varint
\* and get_varint.
THEOREM PatchedNumber ==
    ASSUME NEW data \in Seq(Byte), WellFormed(data), NEW number \in Nat \ {0}, NEW n \in Nat,
           Fits(8 * number), Fits(n)
    PROVE  LET new == PatchVarint(data, number, n)
           IN /\ WellFormed(new)
              /\ GetVarint(new, number) = n
              /\ \A other : other # number => GetVarint(new, other) = GetVarint(data, other)
              /\ \A other : GetBytes(new, other) = GetBytes(data, other)
<1> DEFINE s == VarintField(number, n)
           new == ReplaceField(data, number, 0, s)
<1>1. Reads(s, number, 0, n)
  BY VarintFieldReads
<1> HIDE DEF s
<1>2. Written(data, new, number, 0, n)
  BY <1>1, ReplacedIsWritten
<1>3. PatchVarint(data, number, n) = new
  BY DEF PatchVarint, s
<1> HIDE DEF new
<1>4. WellFormed(new) /\ GetVarint(new, number) = n
  BY <1>2 DEF Written, GetVarint, ValueOr
<1>5. \A other : other # number => GetVarint(new, other) = GetVarint(data, other)
  BY <1>2 DEF Written, GetVarint, ValueOr
<1>6. \A other : GetBytes(new, other) = GetBytes(data, other)
  BY <1>2 DEF Written, GetBytes, ValueOr
<1> QED
  BY <1>3, <1>4, <1>5, <1>6

\* So are bytes: patch_bytes and get_bytes.
THEOREM PatchedBytes ==
    ASSUME NEW data \in Seq(Byte), WellFormed(data), NEW number \in Nat \ {0}, NEW b \in Seq(Byte),
           Fits(8 * number + 2), Fits(Len(b))
    PROVE  LET new == PatchBytes(data, number, b)
           IN /\ WellFormed(new)
              /\ GetBytes(new, number) = b
              /\ \A other : other # number => GetBytes(new, other) = GetBytes(data, other)
              /\ \A other : GetVarint(new, other) = GetVarint(data, other)
<1> DEFINE s == BytesField(number, b)
           new == ReplaceField(data, number, 2, s)
<1>1. Reads(s, number, 2, b)
  BY BytesFieldReads
<1> HIDE DEF s
<1>2. Written(data, new, number, 2, b)
  BY <1>1, ReplacedIsWritten
<1>3. PatchBytes(data, number, b) = new
  BY DEF PatchBytes, s
<1> HIDE DEF new
<1>4. WellFormed(new) /\ GetBytes(new, number) = b
  BY <1>2 DEF Written, GetBytes, ValueOr
<1>5. \A other : other # number => GetBytes(new, other) = GetBytes(data, other)
  BY <1>2 DEF Written, GetBytes, ValueOr
<1>6. \A other : GetVarint(new, other) = GetVarint(data, other)
  BY <1>2 DEF Written, GetVarint, ValueOr
<1> QED
  BY <1>3, <1>4, <1>5, <1>6

-----------------------------------------------------------------------------
(* The bytes that a number, and a message, takes.                            *)

LEMMA VarintLength ==
    /\ \A n \in Nat : n < 128 => Len(Varint[n]) = 1
    /\ \A n \in Nat : n >= 128 => Len(Varint[n]) = Len(Varint[n \div 128]) + 1
<1>1. ASSUME NEW n \in Nat, n < 128 PROVE Len(Varint[n]) = 1
  <2>1. Varint[n] = << n >>
    BY <1>1, VarintDef
  <2> QED
    BY <2>1
<1>2. ASSUME NEW n \in Nat, n >= 128
      PROVE  Len(Varint[n]) = Len(Varint[n \div 128]) + 1
  <2> DEFINE m == n \div 128
             b == 128 + (n % 128)
             w == Varint[m]
  <2>1. m \in 0..n - 1 /\ b \in Byte
    BY <1>2, Divided
  <2>2. Varint[n] = << b >> \o w
    <3>1. ~(n < 128)
      BY <1>2
    <3> QED
      BY <3>1, VarintDef
  <2> HIDE DEF m, b
  <2>3. m \in Nat
    BY <2>1
  <2>4. w \in Seq(Byte)
    BY <2>3, VarintDef
  <2> HIDE DEF w
  <2>5. Len(<< b >> \o w) = Len(w) + 1
    BY <2>1, <2>4, Consed
  <2> QED
    BY <2>2, <2>5 DEF w, m
<1> QED
  BY <1>1, <1>2

LEMMA LongerNumber ==
    \A n \in Nat : \A m \in 0..n : Len(Varint[m]) <= Len(Varint[n])
<1> DEFINE S == {n \in Nat : \A m \in 0..n : Len(Varint[m]) <= Len(Varint[n])}
<1>0. \A n \in Nat : Len(Varint[n]) \in Nat
  <2> TAKE n \in Nat
  <2>1. Varint[n] \in Seq(Byte)
    BY VarintDef
  <2> QED
    BY <2>1
<1>1. ASSUME NEW n \in Nat, \A m \in 0..n - 1 : m \in S
      PROVE  n \in S
  <2> SUFFICES ASSUME NEW m \in 0..n PROVE Len(Varint[m]) <= Len(Varint[n])
    OBVIOUS
  <2>1. CASE m < 128
    <3>1. Len(Varint[m]) = 1
      BY <2>1, VarintLength
    <3>2. Len(Varint[n]) >= 1
      <4>1. CASE n < 128
        BY <4>1, VarintLength
      <4>2. CASE n >= 128
        <5>1. n \div 128 \in Nat
          OBVIOUS
        <5>2. Len(Varint[n]) = Len(Varint[n \div 128]) + 1
          BY <4>2, VarintLength
        <5> QED
          BY <1>0, <5>1, <5>2
      <4> QED
        BY <4>1, <4>2
    <3> QED
      BY <1>0, <3>1, <3>2
  <2>2. CASE m >= 128
    <3> DEFINE a == m \div 128
               b == n \div 128
    <3>1. a \in 0..b /\ b \in 0..n - 1 /\ n >= 128 /\ b \in Nat /\ a \in Nat
      BY <2>2
    <3>2. Len(Varint[m]) = Len(Varint[a]) + 1 /\ Len(Varint[n]) = Len(Varint[b]) + 1
      BY <2>2, <3>1, VarintLength
    <3> HIDE DEF a, b
    <3>3. Len(Varint[a]) <= Len(Varint[b])
      BY <1>1, <3>1
    <3> QED
      BY <1>0, <3>1, <3>2, <3>3
  <2> QED
    BY <2>1, <2>2
<1> HIDE DEF S
<1>2. \A n \in Nat : n \in S
  BY <1>1, Upward
<1> QED
  BY <1>2 DEF S

LEMMA FitsBelow ==
    ASSUME NEW n \in Nat, NEW m \in 0..n, Fits(n)
    PROVE  Fits(m)
<1>1. Varint[n] \in Seq(Byte) /\ Varint[m] \in Seq(Byte)
  BY VarintDef
<1>2. Len(Varint[n]) \in Nat /\ Len(Varint[m]) \in Nat
  BY <1>1
<1>3. Len(Varint[m]) <= Len(Varint[n])
  BY LongerNumber
<1> QED
  BY <1>2, <1>3 DEF Fits

\* The numbers of two bytes, as all tags of the messages are.
LEMMA SmallFits ==
    ASSUME NEW n \in Nat, n < 128 * 128
    PROVE  Fits(n)
<1>1. CASE n < 128
  <2>1. Len(Varint[n]) = 1
    BY <1>1, VarintLength
  <2> QED
    BY <2>1 DEF Fits
<1>2. CASE n >= 128
  <2> DEFINE m == n \div 128
  <2>1. m \in Nat /\ m < 128
    BY Z3
  <2>2. Len(Varint[n]) = Len(Varint[m]) + 1
    BY <1>2, VarintLength
  <2> HIDE DEF m
  <2>3. Len(Varint[m]) = 1
    BY <2>1, VarintLength
  <2> QED
    BY <2>2, <2>3 DEF Fits
<1> QED
  BY <1>1, <1>2

\* A field of bytes is longer than they are.
LEMMA BytesFieldType ==
    ASSUME NEW number \in Nat \ {0}, NEW b \in Seq(Byte)
    PROVE  BytesField(number, b) \in Seq(Byte) /\ Len(b) <= Len(BytesField(number, b))
<1> DEFINE c == Varint[8 * number + 2]
           w == Varint[Len(b)]
           h == c \o w
<1>1. c \in Seq(Byte) /\ w \in Seq(Byte)
  BY VarintDef
<1> HIDE DEF c, w
<1>2. h \in Seq(Byte)
  BY <1>1
<1>3. BytesField(number, b) = h \o b
  BY DEF BytesField, c, w
<1> HIDE DEF h
<1>4. Len(h \o b) = Len(h) + Len(b) /\ h \o b \in Seq(Byte)
  BY <1>2, Joined
<1> QED
  BY <1>2, <1>3, <1>4

\* A message is not shorter than one that it carries.
LEMMA CarriedLength ==
    ASSUME NEW data \in Seq(Byte), NEW number \in Nat \ {0}, NEW b \in Seq(Byte)
    PROVE  Len(b) <= Len(PatchBytes(data, number, b))
<1> DEFINE s == BytesField(number, b)
           f == Field(data, number, 2)
           new == ReplaceField(data, number, 2, s)
<1>1. s \in Seq(Byte) /\ Len(b) <= Len(s)
  BY BytesFieldType
<1> HIDE DEF s
<1>2. f = NoField \/ f \in FieldsOf(data) \ {NoField}
  BY FieldType
<1>3. new = IF f = NoField THEN data \o s ELSE Splice(data, s, f.start, f.end)
  BY DEF ReplaceField, Splice
<1> HIDE DEF f, new
<1>4. CASE f = NoField
  <2>1. Len(data \o s) = Len(data) + Len(s)
    BY <1>1, Joined
  <2>2. Len(new) = Len(data) + Len(s)
    BY <1>3, <1>4, <2>1
  <2>3. Len(b) <= Len(new)
    BY <1>1, <2>2
  <2> QED
    BY <2>3 DEF PatchBytes, new, s
<1>5. CASE f # NoField
  <2> DEFINE o == f.start
             e == f.end
             x == Len(data)
             y == Len(new)
             l == Len(s)
  <2>1. o \in 1..Len(data) /\ e \in o + 1..Len(data) + 1
    BY <1>2, <1>5, FieldParts
  <2> HIDE DEF o, e
  <2>2. o \in 1..Len(data) + 1 /\ e \in o..Len(data) + 1
    BY <2>1
  <2>3. IsSplice(data, s, o, e, Splice(data, s, o, e))
    BY <1>1, <2>2, Spliced
  <2>4. new = Splice(data, s, o, e)
    BY <1>3, <1>5 DEF o, e
  <2>5. o + l + (x + 1 - e) = y + 1 /\ new \in Seq(Byte)
    BY <2>3, <2>4 DEF IsSplice
  <2>6. x \in Nat /\ l \in Nat /\ y \in Nat /\ Len(b) \in Nat /\ Len(b) <= l
    BY <1>1, <2>5
  <2> HIDE DEF x, y, l
  <2>7. o \in 1..x + 1 /\ e \in o..x + 1
    BY <2>2 DEF x
  <2>8. l <= y
    BY <2>5, <2>6, <2>7
  <2>9. Len(b) <= y
    BY <2>6, <2>8
  <2> QED
    BY <2>9 DEF PatchBytes, new, s, y
<1> QED
  BY <1>4, <1>5

-----------------------------------------------------------------------------
(* Where the fields of a message are.                                        *)

\* A patch leaves every field where it is, and puts one more after them if
\* there was none to replace.
LEMMA PatchedNumberEdits ==
    ASSUME NEW data \in Seq(Byte), WellFormed(data), NEW number \in Nat \ {0}, NEW n \in Nat,
           Fits(8 * number), Fits(n)
    PROVE  \E k : EditedMessage(data, PatchVarint(data, number, n), k, number, 0, n)
BY VarintFieldReads, ReplacedIsEdited DEF PatchVarint

LEMMA PatchedBytesEdits ==
    ASSUME NEW data \in Seq(Byte), WellFormed(data), NEW number \in Nat \ {0}, NEW b \in Seq(Byte),
           Fits(8 * number + 2), Fits(Len(b))
    PROVE  \E k : EditedMessage(data, PatchBytes(data, number, b), k, number, 2, b)
BY BytesFieldReads, ReplacedIsEdited DEF PatchBytes

-----------------------------------------------------------------------------
(* Which fields a message has.                                               *)

\* A field that is patched is there afterwards, and the others are as before.
LEMMA PatchedHas ==
    ASSUME NEW data \in Seq(Byte), WellFormed(data), NEW number \in Nat \ {0}, NEW b \in Seq(Byte),
           Fits(8 * number + 2), Fits(Len(b))
    PROVE  \A other : HasBytes(PatchBytes(data, number, b), other)
                      <=> other = number \/ HasBytes(data, other)
<1> DEFINE s == BytesField(number, b)
           new == ReplaceField(data, number, 2, s)
<1>1. Reads(s, number, 2, b)
  BY BytesFieldReads
<1> HIDE DEF s
<1>2. Written(data, new, number, 2, b)
  BY <1>1, ReplacedIsWritten
<1>3. PatchBytes(data, number, b) = new
  BY DEF PatchBytes, s
<1> HIDE DEF new
<1>4. \A other : HasBytes(new, other) <=> other = number \/ HasBytes(data, other)
  BY <1>2 DEF Written, HasBytes
<1> QED
  BY <1>3, <1>4

LEMMA EmptyMessage ==
    << >> \in Seq(Byte) /\ WellFormed(<< >>) /\ \A number, type : Field(<< >>, number, type) = NoField
<1> DEFINE data == << >>
           fs == Fields(data)
<1>1. data \in Seq(Byte) /\ Len(data) = 0
  OBVIOUS
<1> HIDE DEF data
<1>2. Len(fs) = 0 /\ fs \in Seq(FieldsOf(data))
  <2>1. Chain(data, 1, Fields(data))
    BY <1>1, FieldsChain
  <2>2. 1 > Len(data)
    BY <1>1
  <2> HIDE DEF fs
  <2> QED
    BY <2>1, <2>2 DEF Chain, fs
<1> HIDE DEF fs
<1>3. DOMAIN fs = {}
  BY <1>2
<1>4. WellFormed(data)
  BY <1>3 DEF WellFormed, Range, fs
<1>5. ASSUME NEW number, NEW type PROVE Field(data, number, type) = NoField
  <2>1. ~ \E i : First(fs, i, number, type)
    BY <1>2 DEF First
  <2> QED
    BY <1>1, <2>1, FirstField DEF fs
<1> QED
  BY <1>1, <1>4, <1>5 DEF data

\* A message of two numbers.
LEMMA TwoNumbers ==
    ASSUME NEW n \in Nat, Fits(n), NEW m \in Nat, Fits(m)
    PROVE  LET new == VarintField(1, n) \o VarintField(2, m)
           IN /\ new \in Seq(Byte) /\ WellFormed(new)
              /\ GetVarint(new, 1) = n /\ GetVarint(new, 2) = m
<1> DEFINE none == << >>
           a == VarintField(1, n)
           b == VarintField(2, m)
           new == a \o b
<1>1. none \in Seq(Byte) /\ WellFormed(none) /\ Field(none, 1, 0) = NoField
      /\ Field(none, 2, 0) = NoField
  BY EmptyMessage
<1>2. 1 \in Nat \ {0} /\ 2 \in Nat \ {0} /\ Fits(8 * 1) /\ Fits(8 * 2)
  BY SmallFits
<1>3. Reads(a, 1, 0, n) /\ Reads(b, 2, 0, m)
  BY <1>2, VarintFieldReads
<1> HIDE DEF a, b
<1>4. a \in Seq(Byte) /\ b \in Seq(Byte)
  BY <1>3 DEF Reads
<1>5. ReplaceField(none, 1, 0, a) = a
  BY <1>1, <1>4 DEF ReplaceField
<1> HIDE DEF none
<1>6. Written(none, a, 1, 0, n)
  BY <1>1, <1>3, <1>5, ReplacedIsWritten
<1>7. WellFormed(a) /\ Field(a, 2, 0) = NoField /\ Field(a, 1, 0) # NoField
      /\ Field(a, 1, 0).value = n
  BY <1>1, <1>6 DEF Written
<1>8. ReplaceField(a, 2, 0, b) = new
  BY <1>7 DEF ReplaceField
<1> HIDE DEF new
<1>9. Written(a, new, 2, 0, m)
  BY <1>3, <1>4, <1>7, <1>8, ReplacedIsWritten
<1>10. new \in Seq(Byte) /\ WellFormed(new) /\ GetVarint(new, 1) = n /\ GetVarint(new, 2) = m
  BY <1>7, <1>9 DEF Written, GetVarint, ValueOr
<1> QED
  BY <1>10 DEF new, a, b

-----------------------------------------------------------------------------
(* Fields that are appended, one after the other.                            *)

\* A function over the first numbers, each value made of the one before it.
Recurs(g, n, base, step) ==
    /\ g = [i \in 0..n |-> IF i = 0 THEN base ELSE step[i][g[i - 1]]]
    /\ g[0] = base /\ \A i \in 1..n : g[i] = step[i][g[i - 1]]

LEMMA PrefixRecursion ==
    ASSUME NEW n \in Nat, NEW T, NEW base \in T, NEW step \in [1..n -> [T -> T]]
    PROVE  \E g \in [0..n -> T] : Recurs(g, n, base, step)
<1> DEFINE Upto(g, m) == g[0] = base /\ \A i \in 1..m : g[i] = step[i][g[i - 1]]
           S == {m \in Nat : m <= n => \E g \in [0..m -> T] : Upto(g, m)}
<1>1. ASSUME NEW m \in Nat, \A k \in 0..m - 1 : k \in S
      PROVE  m \in S
  <2>1. CASE m = 0
    <3> DEFINE g == [i \in 0..0 |-> base]
    <3>1. g \in [0..0 -> T] /\ Upto(g, 0)
      OBVIOUS
    <3> QED
      BY <2>1, <3>1
  <2>2. CASE m # 0 /\ m <= n
    <3> DEFINE k == m - 1
    <3>1. k \in 0..m - 1 /\ k \in Nat /\ k <= n /\ m = k + 1
      BY <2>2
    <3>2. PICK g \in [0..k -> T] : Upto(g, k)
      BY <1>1, <3>1
    <3> HIDE DEF k
    <3> DEFINE h == [i \in 0..m |-> IF i = m THEN step[m][g[k]] ELSE g[i]]
    <3>3. step[m] \in [T -> T] /\ g[k] \in T
      BY <2>2, <3>1
    <3>4. \A i \in 0..m : i # m => i \in 0..k
      BY <3>1
    <3>5. h \in [0..m -> T]
      BY <3>2, <3>3, <3>4
    <3>6. h[0] = base
      BY <2>2, <3>2
    <3>7. ASSUME NEW i \in 1..m PROVE h[i] = step[i][h[i - 1]]
      <4>1. i - 1 \in 0..m /\ i - 1 # m /\ i \in 0..m
        BY <3>1
      <4>2. CASE i = m
        BY <3>1, <4>1, <4>2
      <4>3. CASE i # m
        <5>1. i \in 1..k
          BY <3>1, <4>3
        <5> QED
          BY <3>2, <4>1, <4>3, <5>1
      <4> QED
        BY <4>2, <4>3
    <3> HIDE DEF h
    <3>8. Upto(h, m)
      BY <3>6, <3>7
    <3> QED
      BY <3>5, <3>8
  <2> QED
    BY <2>1, <2>2
<1> HIDE DEF S
<1>2. \A m \in Nat : m \in S
  BY <1>1, Upward
<1>3. PICK g \in [0..n -> T] : Upto(g, n)
  BY <1>2 DEF S
<1>4. ASSUME NEW i \in 0..n PROVE g[i] = IF i = 0 THEN base ELSE step[i][g[i - 1]]
  BY <1>3
<1>5. g = [i \in 0..n |-> g[i]]
  OBVIOUS
<1>6. g = [i \in 0..n |-> IF i = 0 THEN base ELSE step[i][g[i - 1]]]
  BY <1>4, <1>5
<1> QED
  BY <1>3, <1>6 DEF Recurs

\* The fields among fs of a number and type, field by field.
Among(g, fs, number, type) ==
    g = [i \in 0..Len(fs) |->
           IF i = 0 THEN << >>
           ELSE IF fs[i].number = number /\ fs[i].type = type
                THEN Append(g[i - 1], fs[i]) ELSE g[i - 1]]

LEMMA OfDef ==
    ASSUME NEW data, NEW number, NEW type
    PROVE  Of(data, number, type) =
             (CHOOSE g : Among(g, Fields(data), number, type))[Len(Fields(data))]
BY DEF Of, Among

LEMMA AmongExists ==
    ASSUME NEW T, NEW fs \in Seq(T), NEW number, NEW type
    PROVE  \E g \in [0..Len(fs) -> Seq(T)] : Among(g, fs, number, type)
<1> DEFINE n == Len(fs)
           Is(i) == fs[i].number = number /\ fs[i].type = type
           step == [i \in 1..n |-> [x \in Seq(T) |-> IF Is(i) THEN Append(x, fs[i]) ELSE x]]
<1>1. n \in Nat /\ << >> \in Seq(T) /\ \A i \in 1..n : fs[i] \in T
  OBVIOUS
<1> HIDE DEF n, Is
<1>2. step \in [1..n -> [Seq(T) -> Seq(T)]]
  BY <1>1
<1>3. PICK g \in [0..n -> Seq(T)] :
        g = [i \in 0..n |-> IF i = 0 THEN << >> ELSE step[i][g[i - 1]]]
  <2> DEFINE Q == Seq(T)
             none == << >>
  <2>1. n \in Nat /\ none \in Q /\ step \in [1..n -> [Q -> Q]]
    BY <1>1, <1>2
  <2> HIDE DEF step, Q, none
  <2>2. \E g \in [0..n -> Q] : Recurs(g, n, none, step)
    BY <2>1, PrefixRecursion
  <2> QED
    BY <2>2 DEF Q, none, Recurs
<1>4. ASSUME NEW i \in 0..n, i # 0
      PROVE  step[i][g[i - 1]] = IF Is(i) THEN Append(g[i - 1], fs[i]) ELSE g[i - 1]
  <2>1. i \in 1..n /\ g[i - 1] \in Seq(T)
    BY <1>1, <1>4
  <2> QED
    BY <2>1
<1> HIDE DEF step
<1>5. g = [i \in 0..n |-> IF i = 0 THEN << >>
                          ELSE IF Is(i) THEN Append(g[i - 1], fs[i]) ELSE g[i - 1]]
  BY <1>3, <1>4
<1> QED
  BY <1>5 DEF Among, n, Is

\* The first numbers, one after the other.
LEMMA Stepwise ==
    ASSUME NEW n \in Nat, NEW S, 0 \in S, \A k \in 1..n : k - 1 \in S => k \in S
    PROVE  \A k \in 0..n : k \in S
<1> DEFINE R == {k \in Nat : k <= n => k \in S}
<1>1. ASSUME NEW k \in Nat, \A m \in 0..k - 1 : m \in R
      PROVE  k \in R
  <2>1. CASE k = 0
    BY <2>1
  <2>2. CASE k # 0 /\ k <= n
    <3>1. k \in 1..n /\ k - 1 \in 0..k - 1 /\ k - 1 <= n
      BY <2>2
    <3> QED
      BY <1>1, <3>1
  <2> QED
    BY <2>1, <2>2
<1> HIDE DEF R
<1>2. \A k \in Nat : k \in R
  BY <1>1, Upward
<1> QED
  BY <1>2 DEF R

\* What is known of the fields of a message that have a number and type.
IsOf(g, fs, number, type) ==
    LET Is(i) == fs[i].number = number /\ fs[i].type = type
    IN /\ g[0] = << >>
       /\ \A i \in 1..Len(fs) : g[i] = IF Is(i) THEN Append(g[i - 1], fs[i]) ELSE g[i - 1]

LEMMA OfIs ==
    ASSUME NEW data \in Seq(Byte), NEW number, NEW type
    PROVE  \E g \in [0..Len(Fields(data)) -> Seq(FieldsOf(data))] :
             IsOf(g, Fields(data), number, type) /\ Of(data, number, type) = g[Len(Fields(data))]
<1> DEFINE fs == Fields(data)
           T == FieldsOf(data)
           h == CHOOSE g : Among(g, fs, number, type)
<1>1. fs \in Seq(T)
  BY FieldsType
<1>2. Of(data, number, type) = h[Len(fs)]
  BY OfDef
<1> HIDE DEF fs, T
<1>3. \E g : Among(g, fs, number, type)
  BY <1>1, AmongExists
<1>4. Among(h, fs, number, type)
  BY <1>3
<1> HIDE DEF h
<1> DEFINE n == Len(fs)
           Is(i) == fs[i].number = number /\ fs[i].type = type
<1>5. n \in Nat /\ \A i \in 1..n : fs[i] \in T
  BY <1>1
<1>6. h = [i \in 0..n |-> IF i = 0 THEN << >>
                          ELSE IF Is(i) THEN Append(h[i - 1], fs[i]) ELSE h[i - 1]]
  BY <1>4 DEF Among
<1> HIDE DEF n, Is
<1>7. h[0] = << >>
  BY <1>5, <1>6
<1>8. ASSUME NEW i \in 1..n
      PROVE  h[i] = IF Is(i) THEN Append(h[i - 1], fs[i]) ELSE h[i - 1]
  <2>1. i \in 0..n /\ i # 0
    BY <1>5
  <2> QED
    BY <1>6, <2>1
<1> DEFINE S == {i \in 0..n : h[i] \in Seq(T)}
<1>9. 0 \in S
  <2>1. << >> \in Seq(T) /\ 0 \in 0..n
    BY <1>5
  <2> QED
    BY <1>7, <2>1
<1>10. ASSUME NEW k \in 1..n, k - 1 \in S PROVE k \in S
  <2>1. h[k - 1] \in Seq(T) /\ fs[k] \in T
    BY <1>5, <1>10
  <2>2. Append(h[k - 1], fs[k]) \in Seq(T)
    BY <2>1
  <2>3. h[k] \in Seq(T)
    BY <1>8, <2>1, <2>2
  <2> QED
    BY <1>5, <2>3
<1> HIDE DEF S
<1>11. \A k \in 0..n : k \in S
  BY <1>5, <1>9, <1>10, Stepwise
<1>12. h \in [0..n -> Seq(T)]
  <2>1. \A k \in 0..n : h[k] \in Seq(T)
    BY <1>11 DEF S
  <2>2. h = [k \in 0..n |-> h[k]]
    BY <1>6
  <2> QED
    BY <2>1, <2>2
<1>13. IsOf(h, fs, number, type)
  BY <1>7, <1>8 DEF IsOf, n, Is
<1> QED
  BY <1>2, <1>12, <1>13 DEF fs, T, n

\* A field that is appended is the last one of its number and type.
LEMMA AppendedOf ==
    ASSUME NEW data, Whole(data), NEW number, NEW type, NEW v, NEW s,
           Reads(s, number, type, v), NEW n, NEW t
    PROVE  Of(data \o s, n, t) =
             IF number = n /\ type = t
             THEN Append(Of(data, n, t), Fields(data \o s)[Len(Fields(data \o s))])
             ELSE Of(data, n, t)
<1> DEFINE new == data \o s
           fs == Fields(data)
           gs == Fields(new)
           l == Len(fs)
<1>1. Whole(new) /\ OneMore(fs, gs, number, type, v)
  BY AppendedField
<1>2. data \in Seq(Byte) /\ new \in Seq(Byte)
  BY <1>1 DEF Whole
<1> HIDE DEF new
<1>3. PICK g : IsOf(g, fs, n, t) /\ Of(data, n, t) = g[Len(fs)]
  BY <1>2, OfIs
<1>4. PICK h : IsOf(h, gs, n, t) /\ Of(new, n, t) = h[Len(gs)]
  BY <1>2, OfIs
<1> HIDE DEF fs, gs
<1>5. /\ l \in Nat /\ Len(gs) = l + 1 /\ \A i \in 1..l : gs[i] = fs[i]
      /\ gs[l + 1].number = number /\ gs[l + 1].type = type
  BY <1>1 DEF OneMore
<1>6. /\ g[0] = << >> /\ h[0] = << >>
      /\ \A i \in 1..l : g[i] = IF fs[i].number = n /\ fs[i].type = t
                                THEN Append(g[i - 1], fs[i]) ELSE g[i - 1]
      /\ \A i \in 1..l + 1 : h[i] = IF gs[i].number = n /\ gs[i].type = t
                                    THEN Append(h[i - 1], gs[i]) ELSE h[i - 1]
  BY <1>3, <1>4, <1>5 DEF IsOf
<1>7. Len(fs) = l
  OBVIOUS
<1> HIDE DEF l
<1> DEFINE S == {i \in 0..l : h[i] = g[i]}
<1>8. 0 \in S
  BY <1>5, <1>6
<1>9. ASSUME NEW k \in 1..l, k - 1 \in S PROVE k \in S
  <2>1. h[k - 1] = g[k - 1] /\ gs[k] = fs[k] /\ k \in 1..l + 1 /\ k \in 0..l
    BY <1>5, <1>9
  <2>2. h[k] = g[k]
    BY <1>6, <2>1
  <2> QED
    BY <2>1, <2>2
<1> HIDE DEF S
<1>10. \A k \in 0..l : k \in S
  BY <1>5, <1>8, <1>9, Stepwise
<1>11. h[l] = g[l]
  BY <1>5, <1>10 DEF S
<1>12. l + 1 \in 1..l + 1 /\ (l + 1) - 1 = l
  BY <1>5
<1>13. h[l + 1] = IF number = n /\ type = t THEN Append(g[l], gs[l + 1]) ELSE g[l]
  BY <1>5, <1>6, <1>11, <1>12
<1> QED
  BY <1>3, <1>4, <1>5, <1>7, <1>13 DEF new, gs

\* All that readers get out of a message: the values of a number and type.
AllOf(data, number, type) == ValuesOf(Of(data, number, type))

LEMMA ValuesOfAppend ==
    ASSUME NEW T, NEW fs \in Seq(T), NEW f \in T
    PROVE  /\ ValuesOf(fs) \in Seq({g.value : g \in T}) /\ Len(ValuesOf(fs)) = Len(fs)
           /\ \A i \in 1..Len(fs) : ValuesOf(fs)[i] = fs[i].value
           /\ ValuesOf(Append(fs, f)) = Append(ValuesOf(fs), f.value)
<1> DEFINE n == Len(fs)
           V == {g.value : g \in T}
           vs == ValuesOf(fs)
           gs == Append(fs, f)
           ws == ValuesOf(gs)
<1>1. /\ n \in Nat /\ DOMAIN fs = 1..n /\ DOMAIN gs = 1..n + 1 /\ gs[n + 1] = f
      /\ \A i \in 1..n : gs[i] = fs[i] /\ fs[i] \in T
  OBVIOUS
<1>2. vs = [i \in 1..n |-> fs[i].value] /\ ws = [i \in 1..n + 1 |-> gs[i].value]
  BY <1>1 DEF ValuesOf
<1> HIDE DEF n, vs, gs, ws
<1>3. vs \in Seq(V)
  <2>1. \A i \in 1..n : fs[i].value \in V
    BY <1>1
  <2> HIDE DEF V
  <2> QED
    BY <1>1, <1>2, <2>1
<1>4. Len(vs) = n /\ \A i \in 1..n : vs[i] = fs[i].value
  BY <1>1, <1>2
<1>5. ws = Append(vs, f.value)
  <2>1. f.value \in V
    OBVIOUS
  <2> HIDE DEF V
  <2> DEFINE us == Append(vs, f.value)
  <2>2. /\ us = [i \in 1..n + 1 |-> us[i]] /\ us[n + 1] = f.value
        /\ \A i \in 1..n : us[i] = vs[i]
    BY <1>1, <1>3, <1>4, <2>1
  <2> HIDE DEF us
  <2>3. ASSUME NEW i \in 1..n + 1 PROVE us[i] = gs[i].value
    <3>1. CASE i = n + 1
      BY <1>1, <2>2, <3>1
    <3>2. CASE i # n + 1
      <4>1. i \in 1..n
        BY <1>1, <3>2
      <4> QED
        BY <1>1, <1>4, <2>2, <4>1
    <3> QED
      BY <3>1, <3>2
  <2> QED
    BY <1>2, <2>2, <2>3 DEF us
<1> QED
  BY <1>3, <1>4, <1>5 DEF n, vs, gs, ws

LEMMA ValuesType ==
    ASSUME NEW data \in Seq(Byte), NEW number, NEW type
    PROVE  /\ AllOf(data, number, type) \in Seq({f.value : f \in FieldsOf(data)})
           /\ Len(AllOf(data, number, type)) \in Nat
<1> DEFINE T == FieldsOf(data)
           fs == Of(data, number, type)
<1>1. PICK g \in [0..Len(Fields(data)) -> Seq(T)] : fs = g[Len(Fields(data))]
  BY OfIs
<1>2. Len(Fields(data)) \in Nat
  BY FieldsType
<1>3. fs \in Seq(T)
  BY <1>1, <1>2
<1>4. NoField \in T
  BY DEF FieldsOf
<1> HIDE DEF fs, T
<1>5. ValuesOf(fs) \in Seq({f.value : f \in T}) /\ Len(ValuesOf(fs)) = Len(fs)
  BY <1>3, <1>4, ValuesOfAppend
<1>6. Len(fs) \in Nat
  BY <1>3
<1> QED
  BY <1>5, <1>6 DEF AllOf, fs, T

\* The reader of one field gets the first of its values.
LEMMA FieldIsFirst ==
    ASSUME NEW data, Whole(data), NEW number, NEW type
    PROVE  /\ Len(AllOf(data, number, type)) \in Nat
           /\ Field(data, number, type) = NoField <=> Len(AllOf(data, number, type)) = 0
           /\ Len(AllOf(data, number, type)) # 0
              => Field(data, number, type).value = AllOf(data, number, type)[1]
<1> DEFINE fs == Fields(data)
           T == FieldsOf(data)
           n == Len(fs)
           Is(i) == fs[i].number = number /\ fs[i].type = type
<1>1. data \in Seq(Byte) /\ WellFormed(data)
  BY DEF Whole
<1>2. PICK g \in [0..n -> Seq(T)] : IsOf(g, fs, number, type) /\ Of(data, number, type) = g[n]
  BY <1>1, OfIs
<1>3. /\ n \in Nat /\ n = Len(fs) /\ \A i \in 1..n : fs[i] # NoField /\ fs[i] \in T
      /\ NoField \in T
  BY <1>1, FieldsType, WholeFields DEF FieldsOf
<1>4. /\ \A i : First(fs, i, number, type) => Field(data, number, type) = fs[i]
      /\ \/ \E i : First(fs, i, number, type)
         \/ Field(data, number, type) = NoField /\ Lacks(fs, number, type)
  BY <1>1, FirstField
<1> HIDE DEF fs, T, n
<1>5. /\ g[0] = << >>
      /\ \A i \in 1..n : g[i] = IF Is(i) THEN Append(g[i - 1], fs[i]) ELSE g[i - 1]
  BY <1>2, <1>3 DEF IsOf
<1> DEFINE Early(i, j) == First(fs, j, number, type) /\ j <= i
           P(i) == /\ (\A j : ~Early(i, j)) => Len(g[i]) = 0
                   /\ \A j : Early(i, j) => Len(g[i]) # 0 /\ g[i][1] = fs[j]
           S == {i \in 0..n : P(i)}
<1>6. 0 \in S
  <2>1. Len(g[0]) = 0 /\ \A j : ~Early(0, j)
    BY <1>3, <1>5 DEF First
  <2> QED
    BY <1>3, <2>1
<1>7. ASSUME NEW k \in 1..n, k - 1 \in S PROVE k \in S
  <2>1. k \in 0..n /\ k - 1 \in 0..n /\ P(k - 1) /\ g[k - 1] \in Seq(T) /\ k \in 1..Len(fs)
    BY <1>3, <1>7
  <2>2. CASE ~Is(k)
    <3>1. g[k] = g[k - 1]
      BY <1>5, <2>2
    <3>2. ASSUME NEW j PROVE Early(k, j) <=> Early(k - 1, j)
      <4>1. First(fs, j, number, type) => j # k /\ j \in Nat
        BY <1>3, <2>2 DEF First
      <4> QED
        BY <1>3, <4>1
    <3> QED
      BY <2>1, <3>1, <3>2
  <2>3. CASE Is(k) /\ \E j : Early(k - 1, j)
    <3>1. g[k] = Append(g[k - 1], fs[k]) /\ fs[k] \in T
      BY <1>3, <1>5, <2>3
    <3>2. PICK j : Early(k - 1, j)
      BY <2>3
    <3>3. Len(g[k - 1]) # 0 /\ g[k - 1][1] = fs[j]
      BY <2>1, <3>2
    <3>4. Len(g[k]) # 0 /\ g[k][1] = fs[j]
      <4> DEFINE x == g[k - 1]
                 f == fs[k]
      <4>1. x \in Seq(T) /\ Len(x) # 0 /\ f \in T
        BY <2>1, <3>1, <3>3
      <4> HIDE DEF x, f
      <4>2. Len(Append(x, f)) # 0 /\ Append(x, f)[1] = x[1]
        BY <4>1
      <4> QED
        BY <3>1, <3>3, <4>2 DEF x, f
    <3>5. ASSUME NEW i, First(fs, i, number, type) PROVE i = j
      BY <1>3, <3>2, <3>5 DEF First
    <3>6. j <= k
      BY <1>3, <3>2 DEF First
    <3>7. P(k)
      BY <3>2, <3>4, <3>5, <3>6
    <3> QED
      BY <2>1, <3>7
  <2>4. CASE Is(k) /\ ~\E j : Early(k - 1, j)
    <3>1. g[k] = Append(g[k - 1], fs[k]) /\ fs[k] \in T /\ Len(g[k - 1]) = 0
      BY <1>3, <1>5, <2>1, <2>4
    <3>2. Len(g[k]) # 0 /\ g[k][1] = fs[k]
      <4> DEFINE x == g[k - 1]
                 f == fs[k]
      <4>1. x \in Seq(T) /\ Len(x) = 0 /\ f \in T
        BY <2>1, <3>1
      <4> HIDE DEF x, f
      <4>2. Len(Append(x, f)) # 0 /\ Append(x, f)[1] = f
        BY <4>1
      <4> QED
        BY <3>1, <4>2 DEF x, f
    <3>3. ASSUME NEW j, Early(k, j) PROVE j = k
      <4>1. j \in Nat /\ ~(j <= k - 1) /\ j <= k
        BY <1>3, <2>4, <3>3 DEF First
      <4> QED
        BY <4>1
    <3>4. First(fs, k, number, type)
      <4>1. ASSUME NEW m \in 0..k - 1 PROVE \A j \in 1..m : ~Is(j)
        <5> DEFINE R == {i \in Nat : i \in 1..k - 1 => ~Is(i)}
        <5>1. ASSUME NEW i \in Nat, \A j \in 0..i - 1 : j \in R PROVE i \in R
          <6>1. CASE i \in 1..k - 1 /\ Is(i)
            <7>1. i \in 1..Len(fs) /\ \A j \in 1..i - 1 : ~Is(j)
              BY <1>3, <5>1, <6>1
            <7>2. First(fs, i, number, type)
              BY <6>1, <7>1 DEF First
            <7>3. Early(k - 1, i)
              BY <6>1, <7>2
            <7> QED
              BY <2>4, <7>3
          <6> QED
            BY <6>1
        <5> HIDE DEF R
        <5>2. \A i \in Nat : i \in R
          BY <5>1, Upward
        <5> QED
          BY <5>2 DEF R
      <4>2. \A j \in 1..k - 1 : ~Is(j)
        <5>1. k - 1 \in 0..k - 1
          BY <1>3
        <5> QED
          BY <4>1, <5>1
      <4> QED
        BY <2>1, <2>4, <4>2 DEF First
    <3>5. P(k)
      BY <1>3, <3>2, <3>3, <3>4
    <3> QED
      BY <2>1, <3>5
  <2> QED
    BY <2>2, <2>3, <2>4
<1> HIDE DEF S
<1>8. \A k \in 0..n : k \in S
  BY <1>3, <1>6, <1>7, Stepwise
<1>9. P(n)
  BY <1>3, <1>8 DEF S
<1> DEFINE x == g[n]
           vs == AllOf(data, number, type)
<1>10. x \in Seq(T) /\ vs = ValuesOf(x)
  BY <1>2, <1>3 DEF AllOf
<1>11. \A j : First(fs, j, number, type) => Early(n, j)
  BY <1>3 DEF First
<1> HIDE DEF x, vs
<1>12. Len(vs) = Len(x) /\ \A i \in 1..Len(x) : vs[i] = x[i].value
  BY <1>3, <1>10, ValuesOfAppend
<1>13. Len(x) \in Nat
  BY <1>10
<1>14. CASE \E j : First(fs, j, number, type)
  <2>1. PICK j : First(fs, j, number, type)
    BY <1>14
  <2>2. Len(x) # 0 /\ x[1] = fs[j]
    BY <1>9, <1>11, <2>1 DEF x
  <2>3. Field(data, number, type) = fs[j] /\ fs[j] # NoField
    BY <1>3, <1>4, <2>1 DEF First
  <2>4. vs[1] = fs[j].value
    BY <1>12, <1>13, <2>2
  <2> QED
    BY <1>12, <1>13, <2>2, <2>3, <2>4 DEF vs
<1>15. CASE ~\E j : First(fs, j, number, type)
  <2>1. Field(data, number, type) = NoField
    BY <1>4, <1>15
  <2>2. Len(x) = 0
    BY <1>9, <1>15 DEF x
  <2> QED
    BY <1>12, <1>13, <2>1, <2>2 DEF vs
<1> QED
  BY <1>14, <1>15

\* The values of a message and, of this number and type, one more.
Adds(new, data, number, type, v) ==
    /\ Whole(new)
    /\ \A n, t : AllOf(new, n, t) = IF number = n /\ type = t THEN Append(AllOf(data, n, t), v)
                                     ELSE AllOf(data, n, t)

LEMMA AppendedValues ==
    ASSUME NEW data, Whole(data), NEW number, NEW type, NEW v, NEW s, Reads(s, number, type, v)
    PROVE  Adds(data \o s, data, number, type, v)
<1> DEFINE new == data \o s
           T == FieldsOf(data) \cup FieldsOf(new)
           f == Fields(new)[Len(Fields(new))]
<1>1. Whole(new) /\ OneMore(Fields(data), Fields(new), number, type, v)
  BY AppendedField
<1>2. data \in Seq(Byte) /\ new \in Seq(Byte)
  BY <1>1 DEF Whole
<1>3. f.value = v /\ f \in T
  <2>1. Fields(new) \in Seq(FieldsOf(new))
    BY <1>2, FieldsType
  <2>2. Len(Fields(new)) \in 1..Len(Fields(new))
    BY <1>1 DEF OneMore
  <2>3. f \in FieldsOf(new)
    BY <2>1, <2>2
  <2> QED
    BY <1>1, <2>3 DEF OneMore
<1>4. ASSUME NEW n, NEW t
      PROVE  AllOf(new, n, t) = IF number = n /\ type = t THEN Append(AllOf(data, n, t), v)
                                 ELSE AllOf(data, n, t)
  <2> DEFINE fs == Of(data, n, t)
  <2>1. Of(new, n, t) = IF number = n /\ type = t THEN Append(fs, f) ELSE fs
    BY AppendedOf
  <2>2. fs \in Seq(T)
    <3>1. PICK g \in [0..Len(Fields(data)) -> Seq(FieldsOf(data))] : fs = g[Len(Fields(data))]
      BY <1>2, OfIs
    <3>2. Len(Fields(data)) \in Nat
      BY <1>2, FieldsType
    <3>3. fs \in Seq(FieldsOf(data))
      BY <3>1, <3>2
    <3> QED
      BY <3>3
  <2> HIDE DEF fs, f, T, new
  <2>3. ValuesOf(Append(fs, f)) = Append(ValuesOf(fs), f.value)
    BY <1>3, <2>2, ValuesOfAppend
  <2> QED
    BY <1>3, <2>1, <2>3 DEF AllOf, fs
<1> QED
  BY <1>1, <1>4 DEF Adds

LEMMA EmptyValues ==
    Whole(<< >>) /\ \A n, t : AllOf(<< >>, n, t) = << >>
<1> DEFINE data == << >>
<1>1. data \in Seq(Byte) /\ Len(data) = 0 /\ WellFormed(data)
  BY EmptyMessage
<1> HIDE DEF data
<1>2. Len(Fields(data)) = 0
  <2>1. Chain(data, 1, Fields(data))
    BY <1>1, FieldsChain
  <2>2. 1 > Len(data)
    BY <1>1
  <2> QED
    BY <2>1, <2>2 DEF Chain
<1>3. ASSUME NEW n, NEW t PROVE AllOf(data, n, t) = << >>
  <2>1. PICK g : IsOf(g, Fields(data), n, t) /\ Of(data, n, t) = g[Len(Fields(data))]
    BY <1>1, OfIs
  <2>2. Of(data, n, t) = << >>
    BY <1>2, <2>1 DEF IsOf
  <2>3. ValuesOf(<< >>) = << >>
    BY DEF ValuesOf
  <2> QED
    BY <2>2, <2>3 DEF AllOf
<1> QED
  BY <1>1, <1>3 DEF data, Whole

\* One field alone.
LEMMA OneField ==
    ASSUME NEW number, NEW type, NEW v, NEW s, Reads(s, number, type, v)
    PROVE  Adds(s, << >>, number, type, v)
<1> DEFINE none == << >>
<1>1. none \o s = s
  BY DEF Reads
<1>2. Whole(none)
  BY EmptyValues
<1> HIDE DEF none
<1>3. Adds(none \o s, none, number, type, v)
  BY <1>2, AppendedValues
<1> QED
  BY <1>1, <1>3 DEF none

\* What the readers of a message make of its values.
LEMMA Gets ==
    ASSUME NEW data, Whole(data), NEW number
    PROVE  /\ AllOf(data, number, 0) = << >> => GetVarint(data, number) = 0
           /\ \A v : AllOf(data, number, 0) = << v >> => GetVarint(data, number) = v
           /\ AllOf(data, number, 2) = << >> => GetBytes(data, number) = << >>
           /\ \A v : AllOf(data, number, 2) = << v >> => GetBytes(data, number) = v
<1> DEFINE Got(t, none) == ValueOr(Field(data, number, t), none)
<1>1. ASSUME NEW t, NEW none
      PROVE  /\ AllOf(data, number, t) = << >> => Got(t, none) = none
             /\ \A v : AllOf(data, number, t) = << v >> => Got(t, none) = v
  <2> DEFINE vs == AllOf(data, number, t)
  <2>1. /\ Field(data, number, t) = NoField <=> Len(vs) = 0
        /\ Len(vs) # 0 => Field(data, number, t).value = vs[1]
    BY FieldIsFirst
  <2> HIDE DEF vs
  <2>2. vs = << >> => Got(t, none) = none
    <3>1. Len(<< >>) = 0
      OBVIOUS
    <3> QED
      BY <2>1, <3>1 DEF ValueOr
  <2>3. ASSUME NEW v, vs = << v >> PROVE Got(t, none) = v
    <3>1. Len(<< v >>) # 0 /\ << v >>[1] = v
      OBVIOUS
    <3> QED
      BY <2>1, <2>3, <3>1 DEF ValueOr
  <2> QED
    BY <2>2, <2>3 DEF vs
<1>2. GetVarint(data, number) = Got(0, 0) /\ GetBytes(data, number) = Got(2, << >>)
  BY DEF GetVarint, GetBytes
<1> HIDE DEF Got
<1> QED
  BY <1>1, <1>2

LEMMA AppendOne == \A v : Append(<< >>, v) = << v >>
  OBVIOUS

\* The entry of a map is read as it was written.
LEMMA EntryReads ==
    ASSUME NEW k, Short(k), NEW b \in Seq(Byte), Short(Len(b))
    PROVE  /\ Entry(k, b) \in Seq(Byte) /\ Len(b) <= Len(Entry(k, b))
           /\ GetVarint(Entry(k, b), 1) = k /\ GetBytes(Entry(k, b), 2) = b
<1> DEFINE x == VarintField(1, k)
           y == BytesField(2, b)
           e == x \o y
           h == Varint[8 * 2 + 2] \o Varint[Len(b)]
<1>1. 1 \in Nat \ {0} /\ 2 \in Nat \ {0} /\ Fits(8 * 1) /\ Fits(8 * 2 + 2) /\ k \in Nat /\ Fits(k)
      /\ Len(b) \in Nat /\ Fits(Len(b))
  BY SmallFits DEF Short
<1>2. Reads(x, 1, 0, k) /\ Reads(y, 2, 2, b)
  BY <1>1, VarintFieldReads, BytesFieldReads
<1>3. x \in Seq(Byte) /\ y \in Seq(Byte)
  BY <1>2 DEF Reads
<1>4. h \in Seq(Byte) /\ y = h \o b
  <2>1. Varint[8 * 2 + 2] \in Seq(Byte) /\ Varint[Len(b)] \in Seq(Byte)
    BY <1>1, VarintDef
  <2> QED
    BY <2>1 DEF BytesField
<1> HIDE DEF x, y, h
<1>5. Adds(x, << >>, 1, 0, k)
  BY <1>2, OneField
<1>6. Whole(x) /\ \A n, t : AllOf(x, n, t) = IF 1 = n /\ 0 = t THEN << k >> ELSE << >>
  BY <1>5, EmptyValues, AppendOne DEF Adds
<1>7. Adds(e, x, 2, 2, b)
  BY <1>2, <1>6, AppendedValues
<1> HIDE DEF e
<1>8. Whole(e) /\ AllOf(e, 1, 0) = << k >> /\ AllOf(e, 2, 2) = << b >>
  BY <1>6, <1>7, AppendOne DEF Adds
<1>9. e \in Seq(Byte) /\ GetVarint(e, 1) = k /\ GetBytes(e, 2) = b
  BY <1>8, Gets DEF Whole
<1>10. Len(b) <= Len(e)
  <2>1. Len(h \o b) = Len(h) + Len(b)
    BY <1>4, Joined
  <2>2. Len(x \o y) = Len(x) + Len(y)
    BY <1>3, Joined
  <2>3. Len(x) \in Nat /\ Len(h) \in Nat
    BY <1>3, <1>4
  <2>4. Len(y) = Len(h) + Len(b) /\ Len(e) = Len(x) + Len(y)
    BY <1>4, <2>1, <2>2 DEF e
  <2> QED
    BY <1>1, <2>3, <2>4
<1> QED
  BY <1>9, <1>10 DEF Entry, e, x, y

-----------------------------------------------------------------------------
(* Maps.                                                                     *)

LEMMA MaxIs ==
    ASSUME NEW S \in SUBSET Nat, NEW x \in S, \A y \in S : y <= x
    PROVE  Max(S) = x
<1>1. \A y \in S : x >= y
  OBVIOUS
<1>2. Max(S) \in S /\ \A y \in S : Max(S) >= y
  BY <1>1 DEF Max
<1>3. Max(S) >= x /\ x >= Max(S) /\ Max(S) \in Nat /\ x \in Nat
  BY <1>1, <1>2
<1> QED
  BY <1>3

LEMMA MaxBelow ==
    ASSUME NEW S \in SUBSET Nat, S # {}, NEW b \in Nat, \A x \in S : x <= b
    PROVE  Max(S) \in S /\ \A y \in S : y <= Max(S)
<1> DEFINE U == {c \in Nat : \A x \in S : x <= c}
<1>1. U \in SUBSET Nat /\ U # {}
  BY DEF U
<1> HIDE DEF U
<1>2. PICK c \in U : \A d \in U : c <= d
  BY <1>1, LeastNumber
<1>3. c \in Nat /\ \A x \in S : x <= c
  BY <1>2 DEF U
<1>4. c \in S
  <2>1. SUFFICES ASSUME c \notin S PROVE FALSE
    OBVIOUS
  <2>2. \A x \in S : x <= c - 1
    BY <1>3, <2>1
  <2>3. c - 1 \in Nat
    <3>1. PICK x \in S : TRUE
      OBVIOUS
    <3>2. x \in Nat /\ x <= c - 1
      BY <2>2
    <3> QED
      BY <1>3, <3>2
  <2>4. c - 1 \in U
    BY <2>2, <2>3 DEF U
  <2> QED
    BY <1>2, <1>3, <2>4
<1>5. Max(S) = c
  BY <1>3, <1>4, MaxIs
<1> QED
  BY <1>3, <1>4, <1>5

LEMMA FiniteMax ==
    ASSUME NEW S \in SUBSET Nat, S # {}, IsFiniteSet(S)
    PROVE  Max(S) \in S /\ \A y \in S : y <= Max(S)
<1>1. PICK n \in Nat : ExistsSurjection(1..n, S)
  BY FS_NatSurjection
<1>2. PICK f \in Surjection(1..n, S) : TRUE
  BY <1>1 DEF ExistsSurjection
<1>3. f \in [1..n -> S] /\ \A x \in S : \E i \in 1..n : f[i] = x
  BY <1>2 DEF Surjection
<1> DEFINE R == {i \in 0..n : \E b \in Nat : \A j \in 1..i : f[j] <= b}
<1>4. 0 \in R
  OBVIOUS
<1>5. ASSUME NEW k \in 1..n, k - 1 \in R PROVE k \in R
  <2>1. PICK b \in Nat : \A j \in 1..k - 1 : f[j] <= b
    BY <1>5
  <2>2. f[k] \in Nat /\ k \in 0..n
    <3>1. f[k] \in S
      BY <1>3
    <3>2. S \subseteq Nat /\ k \in 0..n
      OBVIOUS
    <3> QED
      BY <3>1, <3>2
  <2> DEFINE c == IF f[k] <= b THEN b ELSE f[k]
  <2>3. c \in Nat /\ b <= c /\ f[k] <= c
    BY <2>2
  <2> HIDE DEF c
  <2>4. ASSUME NEW j \in 1..k PROVE f[j] <= c
    <3>1. CASE j = k
      BY <2>3, <3>1
    <3>2. CASE j # k
      <4>1. j \in 1..k - 1 /\ j \in 1..n
        BY <3>2
      <4>2. f[j] <= b /\ f[j] \in Nat
        BY <1>3, <2>1, <4>1
      <4> QED
        BY <2>3, <4>2
    <3> QED
      BY <3>1, <3>2
  <2> QED
    BY <2>2, <2>3, <2>4
<1> HIDE DEF R
<1>6. \A k \in 0..n : k \in R
  BY <1>4, <1>5, Stepwise
<1>7. PICK b \in Nat : \A j \in 1..n : f[j] <= b
  <2>1. n \in R
    BY <1>6
  <2> QED
    BY <2>1 DEF R
<1>8. \A x \in S : x <= b
  BY <1>3, <1>7
<1> QED
  BY <1>8, MaxBelow

\* The map f with b for k.
Put(f, k, b) == [j \in DOMAIN f \cup {k} |-> IF j = k THEN b ELSE f[j]]

\* The last entry of a key wins.
LEMMA LastByKeyAppend ==
    ASSUME NEW T, NEW es \in Seq(T), NEW e \in T
    PROVE  LastByKey(Append(es, e)) = Put(LastByKey(es), GetVarint(e, 1), GetBytes(e, 2))
<1> DEFINE n == Len(es)
           gs == Append(es, e)
           key(i) == GetVarint(es[i], 1)
           newKey(i) == GetVarint(gs[i], 1)
           OldAt(k) == {i \in 1..n : key(i) = k}
           NewAt(k) == {i \in 1..n + 1 : newKey(i) = k}
           K == GetVarint(e, 1)
           old == LastByKey(es)
           new == LastByKey(gs)
<1>1. /\ n \in Nat /\ DOMAIN es = 1..n /\ DOMAIN gs = 1..n + 1 /\ gs[n + 1] = e
      /\ \A i \in 1..n : gs[i] = es[i]
  OBVIOUS
<1>2. old = [k \in {key(i) : i \in 1..n} |-> GetBytes(es[Max(OldAt(k))], 2)]
  BY <1>1 DEF LastByKey
<1>3. new = [k \in {newKey(i) : i \in 1..n + 1} |-> GetBytes(gs[Max(NewAt(k))], 2)]
  BY <1>1 DEF LastByKey
<1> HIDE DEF n, gs
<1>4. \A i \in 1..n + 1 : IF i = n + 1 THEN newKey(i) = K ELSE i \in 1..n /\ newKey(i) = key(i)
  BY <1>1
<1>5. n + 1 \in 1..n + 1 /\ \A i \in 1..n : i \in 1..n + 1 /\ i # n + 1
  BY <1>1
<1> HIDE DEF key, newKey, K
<1>6. {newKey(i) : i \in 1..n + 1} = {key(i) : i \in 1..n} \cup {K}
  BY <1>4, <1>5
<1>7. Max(NewAt(K)) = n + 1
  <2>1. NewAt(K) \in SUBSET Nat /\ n + 1 \in NewAt(K) /\ \A y \in NewAt(K) : y <= n + 1
    BY <1>1, <1>4, <1>5
  <2> HIDE DEF NewAt
  <2> QED
    BY <2>1, MaxIs
<1>8. ASSUME NEW k, k # K PROVE NewAt(k) = OldAt(k)
  BY <1>4, <1>5, <1>8
<1>9. ASSUME NEW k \in {key(i) : i \in 1..n} PROVE Max(OldAt(k)) \in 1..n
  <2>1. OldAt(k) \in SUBSET Nat /\ OldAt(k) # {} /\ \A y \in OldAt(k) : y <= n
    BY <1>1, <1>9
  <2>2. Max(OldAt(k)) \in OldAt(k)
    <3> HIDE DEF OldAt
    <3> QED
      BY <1>1, <2>1, MaxBelow
  <2> QED
    BY <2>2
<1> HIDE DEF OldAt, NewAt
<1>10. DOMAIN old = {key(i) : i \in 1..n} /\ DOMAIN new = DOMAIN old \cup {K}
  BY <1>2, <1>3, <1>6
<1>11. new[K] = GetBytes(e, 2)
  BY <1>1, <1>3, <1>6, <1>7
<1>12. ASSUME NEW k \in DOMAIN old, k # K PROVE new[k] = old[k]
  <2>1. Max(NewAt(k)) = Max(OldAt(k)) /\ Max(OldAt(k)) \in 1..n
    BY <1>8, <1>9, <1>10, <1>12
  <2>2. gs[Max(NewAt(k))] = es[Max(OldAt(k))]
    BY <1>1, <2>1
  <2>3. new[k] = GetBytes(gs[Max(NewAt(k))], 2)
    BY <1>3, <1>6, <1>10, <1>12
  <2>4. old[k] = GetBytes(es[Max(OldAt(k))], 2)
    BY <1>2, <1>10, <1>12
  <2> QED
    BY <2>2, <2>3, <2>4
<1>13. new = [k \in DOMAIN new |-> new[k]]
  BY <1>3
<1> HIDE DEF old, new
<1>14. new = [j \in DOMAIN old \cup {K} |-> IF j = K THEN GetBytes(e, 2) ELSE old[j]]
  BY <1>10, <1>11, <1>12, <1>13
<1> QED
  BY <1>14 DEF Put, old, new, gs, K

LEMMA NoEntries == LastByKey(<< >>) = << >>
<1>1. DOMAIN << >> = {}
  OBVIOUS
<1>2. DOMAIN LastByKey(<< >>) = {}
  BY <1>1 DEF LastByKey
<1>3. LastByKey(<< >>) = [k \in {} |-> 0]
  BY <1>1 DEF LastByKey
<1>4. << >> = [k \in {} |-> 0]
  OBVIOUS
<1> QED
  BY <1>3, <1>4

\* A set of numbers without its greatest.
Rest(S) == S \ {Max(S)}

LEMMA RestIsLess ==
    ASSUME NEW D \in SUBSET Nat, IsFiniteSet(D), NEW S \in SUBSET D
    PROVE  /\ Cardinality(S) \in Nat /\ Cardinality(S) <= Cardinality(D)
           /\ Cardinality(D) \in Nat
           /\ S = {} <=> Cardinality(S) = 0
           /\ S # {} => /\ Max(S) \in S /\ Rest(S) \in SUBSET D
                        /\ Cardinality(Rest(S)) = Cardinality(S) - 1
<1>1. IsFiniteSet(S) /\ Cardinality(S) <= Cardinality(D)
  BY FS_Subset
<1>2. Cardinality(S) \in Nat /\ Cardinality(D) \in Nat
  BY <1>1, FS_CardinalityType
<1>3. S = {} <=> Cardinality(S) = 0
  BY <1>1, FS_EmptySet
<1>4. ASSUME S # {}
      PROVE  Max(S) \in S /\ Rest(S) \in SUBSET D /\ Cardinality(Rest(S)) = Cardinality(S) - 1
  <2>1. S \in SUBSET Nat
    OBVIOUS
  <2>2. Max(S) \in S
    BY <1>1, <1>4, <2>1, FiniteMax
  <2> DEFINE x == Max(S)
  <2>3. x \in S
    BY <2>2
  <2> HIDE DEF x
  <2>4. Cardinality(S \ {x}) = Cardinality(S) - 1
    BY <1>1, <2>3, FS_RemoveElement
  <2> QED
    BY <2>2, <2>4 DEF Rest, x
<1> QED
  BY <1>1, <1>2, <1>3, <1>4

LEMMA BySubsets ==
    ASSUME NEW D \in SUBSET Nat, IsFiniteSet(D), NEW R, {} \in R,
           \A S \in SUBSET D : S # {} /\ Rest(S) \in R => S \in R
    PROVE  \A S \in SUBSET D : S \in R
<1> DEFINE Q == {n \in Nat : \A S \in SUBSET D : Cardinality(S) = n => S \in R}
<1>1. ASSUME NEW n \in Nat, \A m \in 0..n - 1 : m \in Q
      PROVE  n \in Q
  <2>1. ASSUME NEW S \in SUBSET D, Cardinality(S) = n PROVE S \in R
    <3>1. CASE S = {}
      BY <3>1
    <3>2. CASE S # {}
      <4>1. Rest(S) \in SUBSET D /\ Cardinality(Rest(S)) = n - 1 /\ n # 0
        BY <2>1, <3>2, RestIsLess
      <4>2. n - 1 \in 0..n - 1
        BY <4>1
      <4>3. Rest(S) \in R
        BY <1>1, <4>1, <4>2
      <4> QED
        BY <3>2, <4>3
    <3> QED
      BY <3>1, <3>2
  <2> QED
    BY <2>1
<1> HIDE DEF Q
<1>2. \A n \in Nat : n \in Q
  BY <1>1, Upward
<1>3. ASSUME NEW S \in SUBSET D PROVE S \in R
  <2>1. Cardinality(S) \in Nat
    BY RestIsLess
  <2> QED
    BY <1>2, <2>1 DEF Q
<1> QED
  BY <1>3

\* The pieces of the numbers in a set, one after the other.
IsJoined(g, D, s) ==
    g = [S \in SUBSET D |-> IF S = {} THEN << >> ELSE g[Rest(S)] \o s[Max(S)]]

LEMMA JoinedExists ==
    ASSUME NEW D \in SUBSET Nat, IsFiniteSet(D), NEW s \in [D -> Seq(Byte)]
    PROVE  \E g \in [SUBSET D -> Seq(Byte)] : IsJoined(g, D, s)
<1> DEFINE B == Seq(Byte)
           T == [SUBSET D -> B]
           Step(x) == [S \in SUBSET D |-> IF S = {} THEN << >> ELSE x[Rest(S)] \o s[Max(S)]]
           base == [S \in SUBSET D |-> << >>]
           c == Cardinality(D)
           n == c + 1
           step == [i \in 1..n |-> [x \in T |-> Step(x)]]
<1>1. /\ \A S \in SUBSET D : S # {} => Max(S) \in S /\ Rest(S) \in SUBSET D
      /\ c \in Nat /\ n \in Nat
  <2>1. \A S \in SUBSET D : S # {} => Max(S) \in S /\ Rest(S) \in SUBSET D
    BY RestIsLess
  <2> QED
    BY <2>1, FS_CardinalityType
<1>2. << >> \in B /\ \A a, b : a \in B /\ b \in B => a \o b \in B
  OBVIOUS
<1>3. \A k \in D : s[k] \in B
  OBVIOUS
<1> HIDE DEF B
<1>4. base \in T
  BY <1>2
<1>5. ASSUME NEW x \in T PROVE Step(x) \in T
  <2>1. ASSUME NEW S \in SUBSET D, S # {} PROVE x[Rest(S)] \o s[Max(S)] \in B
    <3>1. x[Rest(S)] \in B /\ Max(S) \in D
      BY <1>1, <2>1
    <3> QED
      BY <1>2, <1>3, <3>1
  <2> QED
    BY <1>2, <2>1
<1>6. step \in [1..n -> [T -> T]]
  <2> HIDE DEF T, Step
  <2> QED
    BY <1>5
<1>7. PICK h \in [0..n -> T] : Recurs(h, n, base, step)
  <2> HIDE DEF T, Step, base, step, n
  <2> QED
    BY <1>1, <1>4, <1>6, PrefixRecursion
<1>8. h[0] = base /\ \A i \in 1..n : h[i] = step[i][h[i - 1]]
  BY <1>7 DEF Recurs
<1>9. ASSUME NEW i \in 1..n PROVE h[i] = Step(h[i - 1])
  <2>1. i - 1 \in 0..n
    BY <1>1
  <2>2. h[i - 1] \in T
    BY <1>7, <2>1
  <2> HIDE DEF T, Step, n
  <2> QED
    BY <1>8, <2>2 DEF step
<1> DEFINE R == {i \in 0..c : \A S \in SUBSET D : Cardinality(S) <= i => h[i + 1][S] = h[i][S]}
<1>10. 0 \in R
  <2>1. ASSUME NEW S \in SUBSET D, Cardinality(S) <= 0 PROVE h[1][S] = h[0][S]
    <3>1. S = {}
      BY <2>1, RestIsLess
    <3>2. 1 \in 1..n /\ 1 - 1 = 0
      BY <1>1
    <3>3. h[1] = Step(h[0])
      BY <1>9, <3>2
    <3> QED
      BY <1>8, <3>1, <3>3
  <2> QED
    BY <1>1, <2>1
<1>11. ASSUME NEW k \in 1..c, k - 1 \in R PROVE k \in R
  <2>1. /\ k \in 0..c /\ k \in 1..n /\ k + 1 \in 1..n /\ (k + 1) - 1 = k /\ (k - 1) + 1 = k
        /\ k \in Nat
    BY <1>1
  <2>2. h[k] = Step(h[k - 1]) /\ h[k + 1] = Step(h[k])
    BY <1>9, <2>1
  <2>3. \A S \in SUBSET D : Cardinality(S) <= k - 1 => h[k][S] = h[k - 1][S]
    BY <1>11, <2>1
  <2>4. ASSUME NEW S \in SUBSET D, Cardinality(S) <= k PROVE h[k + 1][S] = h[k][S]
    <3>1. CASE S = {}
      BY <2>2, <3>1
    <3>2. CASE S # {}
      <4>1. Rest(S) \in SUBSET D /\ Cardinality(Rest(S)) = Cardinality(S) - 1 /\ Cardinality(S) \in Nat
        BY <3>2, RestIsLess
      <4>2. Cardinality(Rest(S)) <= k - 1
        BY <2>1, <2>4, <4>1
      <4>3. h[k][Rest(S)] = h[k - 1][Rest(S)]
        BY <2>3, <4>1, <4>2
      <4> QED
        BY <2>2, <3>2, <4>3
    <3> QED
      BY <3>1, <3>2
  <2> QED
    BY <2>1, <2>4
<1> HIDE DEF R
<1>12. \A k \in 0..c : k \in R
  BY <1>1, <1>10, <1>11, Stepwise
<1>13. \A S \in SUBSET D : h[c + 1][S] = h[c][S]
  <2>1. c \in R
    BY <1>1, <1>12
  <2>2. \A S \in SUBSET D : Cardinality(S) <= c
    BY RestIsLess
  <2> QED
    BY <2>1, <2>2 DEF R
<1>14. h[c] \in T /\ h[c + 1] \in T /\ h[c + 1] = Step(h[c])
  <2>1. c \in 0..n /\ c + 1 \in 1..n /\ c + 1 \in 0..n /\ (c + 1) - 1 = c
    BY <1>1
  <2>2. h[c + 1] = Step(h[c])
    BY <1>9, <2>1
  <2> HIDE DEF T
  <2> QED
    BY <1>7, <2>1, <2>2
<1>15. h[c] = h[c + 1]
  BY <1>13, <1>14
<1> DEFINE g == h[c]
<1>16. g \in T /\ g = Step(g)
  BY <1>14, <1>15
<1> HIDE DEF g
<1> QED
  BY <1>16 DEF IsJoined, B

\* A finite map from numbers to messages.
IsMap(m) ==
    /\ m \in [DOMAIN m -> Seq(Byte)]
    /\ DOMAIN m \in SUBSET Nat /\ IsFiniteSet(DOMAIN m)

Pieces(number, m) == [k \in DOMAIN m |-> BytesField(number, Entry(k, m[k]))]

LEMMA EntryType ==
    ASSUME NEW k \in Nat, NEW b \in Seq(Byte)
    PROVE  Entry(k, b) \in Seq(Byte)
<1>1. VarintField(1, k) \in Seq(Byte)
  BY VarintDef DEF VarintField
<1>2. BytesField(2, b) \in Seq(Byte)
  BY BytesFieldType
<1> HIDE DEF VarintField, BytesField
<1> QED
  BY <1>1, <1>2 DEF Entry

LEMMA PiecesType ==
    ASSUME NEW m, IsMap(m), NEW number \in Nat \ {0}
    PROVE  /\ Pieces(number, m) \in [DOMAIN m -> Seq(Byte)]
           /\ \A k \in DOMAIN m : Len(Entry(k, m[k])) <= Len(Pieces(number, m)[k])
<1>1. ASSUME NEW k \in DOMAIN m
      PROVE  /\ BytesField(number, Entry(k, m[k])) \in Seq(Byte)
             /\ Len(Entry(k, m[k])) <= Len(BytesField(number, Entry(k, m[k])))
  <2>1. k \in Nat /\ m[k] \in Seq(Byte)
    BY DEF IsMap
  <2>2. Entry(k, m[k]) \in Seq(Byte)
    BY <2>1, EntryType
  <2> QED
    BY <2>2, BytesFieldType
<1> QED
  BY <1>1 DEF Pieces

IsEncoding(g, number, m) ==
    g = [keys \in SUBSET DOMAIN m |->
           IF keys = {} THEN << >>
           ELSE g[keys \ {Max(keys)}] \o BytesField(number, Entry(Max(keys), m[Max(keys)]))]

LEMMA EncodeMapDef ==
    ASSUME NEW number, NEW m
    PROVE  EncodeMap(number, m) = (CHOOSE g : IsEncoding(g, number, m))[DOMAIN m]
BY DEF EncodeMap, IsEncoding

\* The encoding of a map is that of its entries, in the order of keys.
LEMMA EncodeMapIs ==
    ASSUME NEW m, IsMap(m), NEW number \in Nat \ {0}
    PROVE  \E g \in [SUBSET DOMAIN m -> Seq(Byte)] :
             /\ EncodeMap(number, m) = g[DOMAIN m]
             /\ g[{}] = << >>
             /\ \A S \in SUBSET DOMAIN m : S # {} => g[S] = g[Rest(S)] \o Pieces(number, m)[Max(S)]
<1> DEFINE D == DOMAIN m
           s == Pieces(number, m)
           h == CHOOSE g : IsEncoding(g, number, m)
<1>1. D \in SUBSET Nat /\ IsFiniteSet(D) /\ s \in [D -> Seq(Byte)]
  BY PiecesType DEF IsMap
<1>2. \A S \in SUBSET D : S # {} => Max(S) \in D
  <2> HIDE DEF D
  <2>1. \A S \in SUBSET D : S # {} => Max(S) \in S
    BY <1>1, RestIsLess
  <2> QED
    BY <2>1
<1>3. \A k \in D : s[k] = BytesField(number, Entry(k, m[k]))
  BY DEF Pieces
<1>4. ASSUME NEW g PROVE IsEncoding(g, number, m) <=> IsJoined(g, D, s)
  <2> HIDE DEF s
  <2>1. ASSUME NEW S \in SUBSET D
        PROVE  (IF S = {} THEN << >> ELSE g[Rest(S)] \o s[Max(S)])
               = (IF S = {} THEN << >>
                  ELSE g[S \ {Max(S)}] \o BytesField(number, Entry(Max(S), m[Max(S)])))
    BY <1>2, <1>3 DEF Rest
  <2> QED
    BY <2>1 DEF IsEncoding, IsJoined
<1>5. PICK g \in [SUBSET D -> Seq(Byte)] : IsJoined(g, D, s)
  <2> HIDE DEF D, s
  <2> QED
    BY <1>1, JoinedExists
<1>6. IsJoined(h, D, s)
  <2>1. IsEncoding(g, number, m)
    BY <1>4, <1>5
  <2>2. IsEncoding(h, number, m)
    BY <2>1
  <2> HIDE DEF h
  <2> QED
    BY <1>4, <2>2
<1>7. EncodeMap(number, m) = h[D]
  BY EncodeMapDef
<1> HIDE DEF h, s, D
<1> DEFINE R == {S \in SUBSET D : h[S] = g[S]}
<1>8. ASSUME NEW S \in SUBSET D
      PROVE  /\ h[S] = IF S = {} THEN << >> ELSE h[Rest(S)] \o s[Max(S)]
             /\ g[S] = IF S = {} THEN << >> ELSE g[Rest(S)] \o s[Max(S)]
  BY <1>5, <1>6 DEF IsJoined
<1>9. {} \in R
  BY <1>8
<1>10. ASSUME NEW S \in SUBSET D, S # {}, Rest(S) \in R PROVE S \in R
  BY <1>8, <1>10
<1> HIDE DEF R
<1>11. \A S \in SUBSET D : S \in R
  BY <1>1, <1>9, <1>10, BySubsets
<1>12. h[D] = g[D]
  BY <1>11 DEF R
<1> QED
  BY <1>5, <1>7, <1>8, <1>12 DEF D, s

\* No entry is longer than the encoding.
LEMMA EntryLength ==
    ASSUME NEW m, IsMap(m), NEW number \in Nat \ {0}
    PROVE  /\ EncodeMap(number, m) \in Seq(Byte)
           /\ \A k \in DOMAIN m : Len(Entry(k, m[k])) <= Len(EncodeMap(number, m))
<1> DEFINE D == DOMAIN m
           s == Pieces(number, m)
<1>1. PICK g \in [SUBSET D -> Seq(Byte)] :
        /\ EncodeMap(number, m) = g[D]
        /\ g[{}] = << >>
        /\ \A S \in SUBSET D : S # {} => g[S] = g[Rest(S)] \o s[Max(S)]
  BY EncodeMapIs
<1>2. /\ D \in SUBSET Nat /\ IsFiniteSet(D) /\ s \in [D -> Seq(Byte)]
      /\ \A k \in D : Len(Entry(k, m[k])) <= Len(s[k])
  BY PiecesType DEF IsMap
<1>3. ASSUME NEW k \in D PROVE Entry(k, m[k]) \in Seq(Byte)
  <2>1. k \in Nat /\ m[k] \in Seq(Byte)
    BY DEF IsMap
  <2> QED
    BY <2>1, EntryType
<1> DEFINE e(k) == Len(Entry(k, m[k]))
<1>4. \A k \in D : e(k) \in Nat /\ e(k) <= Len(s[k])
  BY <1>2, <1>3
<1> HIDE DEF D, s, e
<1> DEFINE R == {S \in SUBSET D : \A k \in S : e(k) <= Len(g[S])}
<1>5. {} \in R
  OBVIOUS
<1>6. ASSUME NEW S \in SUBSET D, S # {}, Rest(S) \in R PROVE S \in R
  <2> DEFINE a == g[Rest(S)]
             b == s[Max(S)]
  <2>1. Max(S) \in S /\ Rest(S) \in SUBSET D
    BY <1>2, <1>6, RestIsLess
  <2>2. a \in Seq(Byte) /\ b \in Seq(Byte) /\ g[S] = a \o b
    BY <1>1, <1>2, <1>6, <2>1
  <2>3. \A k \in Rest(S) : e(k) <= Len(a)
    BY <1>6
  <2>4. e(Max(S)) <= Len(b)
    BY <1>4, <2>1
  <2> HIDE DEF a, b
  <2>5. Len(g[S]) = Len(a) + Len(b) /\ Len(a) \in Nat /\ Len(b) \in Nat
    BY <2>2, Joined
  <2>6. ASSUME NEW k \in S PROVE e(k) <= Len(g[S])
    <3>1. e(k) \in Nat
      BY <1>4
    <3>2. CASE k = Max(S)
      BY <2>4, <2>5, <3>1, <3>2
    <3>3. CASE k # Max(S)
      <4>1. k \in Rest(S)
        BY <3>3 DEF Rest
      <4> QED
        BY <2>3, <2>5, <3>1, <4>1
    <3> QED
      BY <3>2, <3>3
  <2> QED
    BY <2>6
<1> HIDE DEF R
<1>7. \A S \in SUBSET D : S \in R
  BY <1>2, <1>5, <1>6, BySubsets
<1>8. \A k \in D : e(k) <= Len(g[D])
  BY <1>7 DEF R
<1> QED
  BY <1>1, <1>8 DEF D, e

\* Reading a map after one more entry.
LEMMA DecodeMapAdds ==
    ASSUME NEW data, Whole(data), NEW new, NEW number, NEW k, Short(k), NEW b \in Seq(Byte),
           Short(Len(b)), Adds(new, data, number, 2, Entry(k, b))
    PROVE  DecodeMap(new, number) = Put(DecodeMap(data, number), k, b)
<1> DEFINE T == {f.value : f \in FieldsOf(data)} \cup {Entry(k, b)}
           es == AllOf(data, number, 2)
           e == Entry(k, b)
<1>1. es \in Seq(T)
  <2>1. data \in Seq(Byte)
    BY DEF Whole
  <2> DEFINE V == {f.value : f \in FieldsOf(data)}
  <2>2. es \in Seq(V)
    BY <2>1, ValuesType
  <2> HIDE DEF V, es
  <2>3. es \in Seq(V \cup {Entry(k, b)})
    BY <2>2
  <2> QED
    BY <2>3 DEF V
<1>2. e \in T
  OBVIOUS
<1>3. AllOf(new, number, 2) = Append(es, e)
  BY DEF Adds
<1>4. GetVarint(e, 1) = k /\ GetBytes(e, 2) = b
  BY EntryReads
<1>5. AllBytes(new, number) = AllOf(new, number, 2) /\ AllBytes(data, number) = es
  BY DEF AllBytes, AllOf
<1> HIDE DEF T, es, e
<1>6. LastByKey(Append(es, e)) = Put(LastByKey(es), GetVarint(e, 1), GetBytes(e, 2))
  BY <1>1, <1>2, LastByKeyAppend
<1> QED
  BY <1>3, <1>4, <1>5, <1>6 DEF DecodeMap

\* What is read of a message after a map was written behind it.
Carries(new, data, number, m) ==
    /\ Whole(new)
    /\ \A n, t : ~(number = n /\ t = 2) => AllOf(new, n, t) = AllOf(data, n, t)
    /\ DecodeMap(new, number) = MapOver(m, DecodeMap(data, number))

LEMMA MapOverNone ==
    ASSUME NEW f, f = [k \in DOMAIN f |-> f[k]], NEW m
    PROVE  MapOver(Restrict(m, {}), f) = f
<1>1. DOMAIN Restrict(m, {}) = {}
  BY DEF Restrict
<1>2. MapOver(Restrict(m, {}), f) = [k \in DOMAIN f |-> f[k]]
  BY <1>1 DEF MapOver
<1> QED
  BY <1>2

LEMMA MapOverPut ==
    ASSUME NEW f, NEW m, NEW S, NEW x \in S
    PROVE  Put(MapOver(Restrict(m, S \ {x}), f), x, m[x]) = MapOver(Restrict(m, S), f)
<1> DEFINE p == Restrict(m, S)
           q == Restrict(m, S \ {x})
           g == MapOver(q, f)
           h == MapOver(p, f)
<1>1. DOMAIN p = S /\ DOMAIN q = S \ {x} /\ (\A k \in S : p[k] = m[k])
      /\ (\A k \in S \ {x} : q[k] = m[k])
  BY DEF Restrict
<1> HIDE DEF p, q
<1>2. /\ DOMAIN g = DOMAIN f \cup (S \ {x})
      /\ \A k \in DOMAIN g : g[k] = IF k \in S \ {x} THEN m[k] ELSE f[k]
  BY <1>1 DEF MapOver
<1>3. h = [k \in DOMAIN f \cup S |-> IF k \in S THEN m[k] ELSE f[k]]
  BY <1>1 DEF MapOver
<1> HIDE DEF g
<1>4. Put(g, x, m[x]) = [k \in DOMAIN f \cup S |-> IF k \in S THEN m[k] ELSE f[k]]
  <2>1. DOMAIN g \cup {x} = DOMAIN f \cup S
    BY <1>2
  <2>2. ASSUME NEW k \in DOMAIN f \cup S
        PROVE  (IF k = x THEN m[x] ELSE g[k]) = (IF k \in S THEN m[k] ELSE f[k])
    BY <1>2, <2>2
  <2> QED
    BY <2>1, <2>2 DEF Put
<1> QED
  BY <1>3, <1>4 DEF g, h, p, q

LEMMA ShortBelow ==
    ASSUME NEW n, Short(n), NEW m \in Nat, m <= n
    PROVE  Short(m)
<1>1. n \in Nat /\ m \in 0..n /\ Fits(n)
  BY DEF Short
<1> QED
  BY <1>1, FitsBelow DEF Short

\* What one more entry adds to a map that was written so far.
LEMMA CarriesOneMore ==
    ASSUME NEW data, Whole(data), NEW x, NEW number \in Nat \ {0}, Fits(8 * number + 2),
           NEW m, NEW S, NEW k \in S, Short(k), m[k] \in Seq(Byte), Short(Len(m[k])),
           Short(Len(Entry(k, m[k]))), Carries(x, data, number, Restrict(m, S \ {k}))
    PROVE  Carries(x \o BytesField(number, Entry(k, m[k])), data, number, Restrict(m, S))
<1> DEFINE b == m[k]
           e == Entry(k, b)
           y == x \o BytesField(number, e)
           old == DecodeMap(data, number)
           p == Restrict(m, S)
           q == Restrict(m, S \ {k})
<1>1. b \in Seq(Byte) /\ Short(Len(b)) /\ k \in Nat /\ Whole(x)
  BY DEF Short, Carries
<1>2. Put(MapOver(q, old), k, b) = MapOver(p, old)
  BY MapOverPut
<1>3. Carries(x, data, number, q) /\ Short(Len(e))
  OBVIOUS
<1> HIDE DEF b, p, q
<1>4. e \in Seq(Byte)
  BY <1>1, EntryType
<1>5. Reads(BytesField(number, e), number, 2, e)
  <2>1. Fits(Len(e))
    BY <1>3 DEF Short
  <2> HIDE DEF e
  <2> QED
    BY <1>4, <2>1, BytesFieldReads
<1>6. Adds(y, x, number, 2, e)
  <2> HIDE DEF e
  <2> QED
    BY <1>1, <1>5, AppendedValues
<1> HIDE DEF y
<1>7. DecodeMap(y, number) = Put(DecodeMap(x, number), k, b)
  BY <1>1, <1>6, DecodeMapAdds
<1> HIDE DEF e, old
<1>8. DecodeMap(y, number) = MapOver(p, old)
  BY <1>2, <1>3, <1>7 DEF Carries, old
<1>9. \A n, t : ~(number = n /\ t = 2) => AllOf(y, n, t) = AllOf(data, n, t)
  BY <1>3, <1>6 DEF Adds, Carries
<1>10. Whole(y)
  BY <1>6 DEF Adds
<1>11. Carries(y, data, number, p)
  BY <1>8, <1>9, <1>10 DEF Carries, old
<1> QED
  BY <1>11 DEF y, p, e, b

LEMMA CarriesNone ==
    ASSUME NEW data, Whole(data), NEW number, NEW m
    PROVE  Carries(data, data, number, Restrict(m, {}))
<1> DEFINE old == DecodeMap(data, number)
<1>1. old = [k \in DOMAIN old |-> old[k]]
  BY DEF DecodeMap, LastByKey
<1> HIDE DEF old
<1>2. MapOver(Restrict(m, {}), old) = old
  BY <1>1, MapOverNone
<1> QED
  BY <1>2 DEF Carries, old

\* A map is read as it was written, over what there was of it.
LEMMA MapReads ==
    ASSUME NEW data, Whole(data), NEW number \in 1..1000, NEW m, IsMap(m),
           \A k \in DOMAIN m : Short(k), Fits(Len(EncodeMap(number, m)))
    PROVE  Carries(data \o EncodeMap(number, m), data, number, m)
<1> DEFINE D == DOMAIN m
           s == Pieces(number, m)
<1>1. 8 * number + 2 \in Nat /\ Fits(8 * number + 2) /\ number \in Nat \ {0}
  BY SmallFits
<1>2. PICK g \in [SUBSET D -> Seq(Byte)] :
        /\ EncodeMap(number, m) = g[D]
        /\ g[{}] = << >>
        /\ \A S \in SUBSET D : S # {} => g[S] = g[Rest(S)] \o s[Max(S)]
  BY <1>1, EncodeMapIs
<1>3. D \in SUBSET Nat /\ IsFiniteSet(D) /\ data \in Seq(Byte) /\ s \in [D -> Seq(Byte)]
  BY <1>1, PiecesType DEF IsMap, Whole
<1>4. ASSUME NEW k \in D
      PROVE  /\ Short(k) /\ m[k] \in Seq(Byte) /\ Short(Len(m[k])) /\ Short(Len(Entry(k, m[k])))
             /\ s[k] = BytesField(number, Entry(k, m[k]))
  <2> DEFINE b == m[k]
             e == Entry(k, b)
             w == EncodeMap(number, m)
  <2>1. Short(k) /\ b \in Seq(Byte) /\ k \in Nat
    BY DEF IsMap, Short
  <2>2. w \in Seq(Byte) /\ Len(e) <= Len(w)
    BY <1>1, EntryLength
  <2>3. Short(Len(w))
    BY <2>2 DEF Short
  <2> HIDE DEF w, b
  <2>4. e \in Seq(Byte)
    BY <2>1, EntryType
  <2> HIDE DEF e
  <2>5. Short(Len(e))
    BY <2>2, <2>3, <2>4, ShortBelow
  <2>6. Len(b) <= Len(e) /\ Len(b) \in Nat
    <3> DEFINE x == VarintField(1, k)
               y == BytesField(2, b)
    <3>1. x \in Seq(Byte)
      BY <2>1, VarintDef DEF VarintField
    <3>2. y \in Seq(Byte) /\ Len(b) <= Len(y)
      BY <2>1, BytesFieldType
    <3> HIDE DEF x, y
    <3>3. Len(x \o y) = Len(x) + Len(y)
      BY <3>1, <3>2, Joined
    <3>4. e = x \o y
      BY DEF e, Entry, x, y
    <3>5. Len(x) \in Nat /\ Len(y) \in Nat /\ Len(b) \in Nat
      BY <2>1, <3>1, <3>2
    <3> QED
      BY <3>2, <3>3, <3>4, <3>5
  <2>7. Short(Len(b))
    BY <2>5, <2>6, ShortBelow
  <2> QED
    BY <2>1, <2>5, <2>7 DEF Pieces, e, b
<1> DEFINE R == {S \in SUBSET D : Carries(data \o g[S], data, number, Restrict(m, S))}
<1>5. {} \in R
  <2>1. data \o g[{}] = data
    BY <1>2, <1>3
  <2> QED
    BY <2>1, CarriesNone
<1> HIDE DEF D, s
<1>6. ASSUME NEW S \in SUBSET D, S # {}, Rest(S) \in R PROVE S \in R
  <2> DEFINE k == Max(S)
             x == data \o g[Rest(S)]
             w == BytesField(number, Entry(k, m[k]))
  <2>1. k \in S /\ Rest(S) \in SUBSET D
    BY <1>3, <1>6, RestIsLess
  <2>2. k \in D /\ g[Rest(S)] \in Seq(Byte)
    BY <1>2, <2>1
  <2>7. s[k] = w /\ w \in Seq(Byte) /\ g[S] = g[Rest(S)] \o w
    <3>1. s[k] = w
      BY <1>4, <2>2
    <3>2. g[S] = g[Rest(S)] \o s[k]
      BY <1>2, <1>6
    <3> HIDE DEF w, k
    <3> QED
      BY <1>3, <2>2, <3>1, <3>2
  <2>3. Carries(x, data, number, Restrict(m, S \ {k}))
    BY <1>6 DEF Rest
  <2>4. /\ Short(k) /\ m[k] \in Seq(Byte) /\ Short(Len(m[k]))
        /\ Short(Len(Entry(k, m[k])))
    BY <1>4, <2>2
  <2>5. data \o g[S] = x \o w
    <3> DEFINE a == g[Rest(S)]
    <3>1. a \in Seq(Byte) /\ g[S] = a \o w /\ w \in Seq(Byte)
      BY <2>2, <2>7
    <3> HIDE DEF a, w
    <3>2. (data \o a) \o w = data \o (a \o w)
      BY <1>3, <3>1
    <3> QED
      BY <3>1, <3>2 DEF a
  <2> HIDE DEF x, k
  <2>6. Carries(x \o w, data, number, Restrict(m, S))
    BY <1>1, <2>1, <2>3, <2>4, CarriesOneMore
  <2> QED
    BY <2>5, <2>6
<1> HIDE DEF R
<1>7. \A S \in SUBSET D : S \in R
  BY <1>3, <1>5, <1>6, BySubsets
<1>8. Carries(data \o g[D], data, number, Restrict(m, D))
  BY <1>7 DEF R
<1>9. Restrict(m, D) = m
  BY DEF IsMap, Restrict, D
<1> QED
  BY <1>2, <1>8, <1>9

-----------------------------------------------------------------------------
(* Numbers that may be left out.                                             *)

\* The reader of one field sees nothing of a message but its values.
LEMMA ReadAlike ==
    ASSUME NEW a, Whole(a), NEW b, Whole(b), NEW number, NEW type, NEW none,
           AllOf(a, number, type) = AllOf(b, number, type)
    PROVE  ValueOr(Field(a, number, type), none) = ValueOr(Field(b, number, type), none)
<1> DEFINE vs == AllOf(a, number, type)
           ws == AllOf(b, number, type)
           f == Field(a, number, type)
           g == Field(b, number, type)
<1>1. (f = NoField <=> Len(vs) = 0) /\ (Len(vs) # 0 => f.value = vs[1])
  BY FieldIsFirst
<1>2. (g = NoField <=> Len(ws) = 0) /\ (Len(ws) # 0 => g.value = ws[1])
  BY FieldIsFirst
<1>3. vs = ws
  OBVIOUS
<1> HIDE DEF vs, ws, f, g
<1>4. ValueOr(f, none) = ValueOr(g, none)
  BY <1>1, <1>2, <1>3 DEF ValueOr
<1> QED
  BY <1>4 DEF f, g

\* The message data, and n for the number that it did not have.
Sets(new, data, number, n) ==
    /\ Whole(new) /\ GetVarint(new, number) = n
    /\ \A other, t : ~(other = number /\ t = 0) => AllOf(new, other, t) = AllOf(data, other, t)

LEMMA OptionalReads ==
    ASSUME NEW data, Whole(data), NEW number \in 1..1000, NEW n, Short(n),
           AllOf(data, number, 0) = << >>
    PROVE  Sets(data \o Optional(number, n), data, number, n)
<1> DEFINE new == data \o Optional(number, n)
<1>1. data \in Seq(Byte)
  BY DEF Whole
<1>2. CASE n = 0
  <2>1. Optional(number, n) = << >>
    BY <1>2 DEF Optional
  <2>2. new = data
    BY <1>1, <2>1
  <2> HIDE DEF new
  <2>3. GetVarint(data, number) = 0
    BY Gets
  <2>4. Sets(new, data, number, n)
    BY <1>2, <2>2, <2>3 DEF Sets
  <2> QED
    BY <2>4 DEF new
<1>3. CASE n # 0
  <2> DEFINE s == VarintField(number, n)
  <2>1. new = data \o s
    BY <1>3 DEF Optional
  <2>2. number \in Nat \ {0} /\ n \in Nat /\ Fits(n) /\ Fits(8 * number)
    BY SmallFits DEF Short
  <2>3. Reads(s, number, 0, n)
    BY <2>2, VarintFieldReads
  <2> HIDE DEF s, new
  <2>4. Adds(new, data, number, 0, n)
    BY <2>1, <2>3, AppendedValues
  <2>5. Whole(new) /\ AllOf(new, number, 0) = << n >>
    BY <2>4, AppendOne DEF Adds
  <2>6. GetVarint(new, number) = n
    BY <2>5, Gets
  <2>7. \A other, t : ~(other = number /\ t = 0) => AllOf(new, other, t) = AllOf(data, other, t)
    BY <2>4 DEF Adds
  <2>8. Sets(new, data, number, n)
    BY <2>5, <2>6, <2>7 DEF Sets
  <2> QED
    BY <2>8 DEF new
<1> QED
  BY <1>2, <1>3

\* An item is read as it was written.
LEMMA ItemReads ==
    ASSUME NEW id, Short(id), NEW config, Short(config), NEW quantity, Short(quantity)
    PROVE  LET item == [config |-> config, quantity |-> quantity]
           IN EncodeItem(id, item) \in Seq(Byte) /\ DecodeItem(EncodeItem(id, item)) = item
<1> DEFINE a == << >> \o Optional(1, id)
           b == a \o Optional(2, config)
           c == b \o Optional(3, quantity)
           item == [config |-> config, quantity |-> quantity]
<1>0. 1 \in 1..1000 /\ 2 \in 1..1000 /\ 3 \in 1..1000
  OBVIOUS
<1>1. Optional(1, id) \in Seq(Byte)
  <2>1. VarintField(1, id) \in Seq(Byte)
    BY VarintDef DEF VarintField, Short
  <2>2. << >> \in Seq(Byte)
    OBVIOUS
  <2> QED
    BY <2>1, <2>2 DEF Optional
<1>2. << >> \o Optional(1, id) = Optional(1, id)
  BY <1>1
<1>3. EncodeItem(id, item) = c
  <2>1. item.config = config /\ item.quantity = quantity
    OBVIOUS
  <2> HIDE DEF item
  <2> QED
    BY <1>2, <2>1 DEF EncodeItem
<1> HIDE DEF a, b, c
<1>4. Sets(a, << >>, 1, id)
  BY <1>0, EmptyValues, OptionalReads DEF a
<1>5. Whole(a) /\ AllOf(a, 2, 0) = << >> /\ AllOf(a, 3, 0) = << >>
  BY <1>4, EmptyValues DEF Sets
<1>6. Sets(b, a, 2, config)
  BY <1>0, <1>5, OptionalReads DEF b
<1>7. Whole(b) /\ AllOf(b, 3, 0) = << >>
  BY <1>5, <1>6 DEF Sets
<1>8. Sets(c, b, 3, quantity)
  BY <1>0, <1>7, OptionalReads DEF c
<1>9. Whole(c) /\ GetVarint(c, 3) = quantity /\ AllOf(c, 2, 0) = AllOf(b, 2, 0)
  BY <1>8 DEF Sets
<1>10. GetVarint(c, 2) = GetVarint(b, 2)
  BY <1>7, <1>9, ReadAlike DEF GetVarint
<1>11. GetVarint(b, 2) = config
  BY <1>6 DEF Sets
<1> QED
  BY <1>3, <1>9, <1>10, <1>11 DEF DecodeItem, Whole

-----------------------------------------------------------------------------
(* A line of numbers, each in a field of its own.                            *)

Line(ns) == [i \in DOMAIN ns |-> VarintField(1, ns[i])]

\* The pieces of a sequence up to each place, one after the other.
IsFlat(g, s, n) ==
    g = [i \in 1..n |-> IF i = 1 THEN s[i] ELSE g[i - 1] \o s[i]]

LEMMA FlattenDef ==
    ASSUME NEW s, Len(s) # 0
    PROVE  FlattenSeq(s) = (CHOOSE g : IsFlat(g, s, Len(s)))[Len(s)]
BY DEF FlattenSeq, IsFlat

LEMMA FlattenIs ==
    ASSUME NEW n \in Nat \ {0}, NEW s \in [1..n -> Seq(Byte)]
    PROVE  \E h \in [0..n -> Seq(Byte)] :
             /\ h[0] = << >> /\ \A i \in 1..n : h[i] = h[i - 1] \o s[i]
             /\ (CHOOSE g : IsFlat(g, s, n))[n] = h[n]
<1> DEFINE Q == Seq(Byte)
           step == [i \in 1..n |-> [x \in Q |-> x \o s[i]]]
           f == CHOOSE g : IsFlat(g, s, n)
           base == << >>
<1>1. base \in Q
  OBVIOUS
<1>2. \A i \in 1..n : \A x \in Q : x \o s[i] \in Q
  OBVIOUS
<1>3. \A i \in 1..n : base \o s[i] = s[i]
  OBVIOUS
<1> HIDE DEF Q, base
<1>4. step \in [1..n -> [Q -> Q]]
  BY <1>2
<1>5. PICK h \in [0..n -> Q] : Recurs(h, n, base, step)
  <2> HIDE DEF step
  <2> QED
    BY <1>1, <1>4, PrefixRecursion
<1>6. \A i \in 1..n : i - 1 \in 0..n /\ i \in 0..n
  OBVIOUS
<1>7. h[0] = base /\ \A i \in 1..n : h[i] = h[i - 1] \o s[i]
  <2>1. ASSUME NEW i \in 1..n PROVE h[i] = h[i - 1] \o s[i]
    <3>1. h[i] = step[i][h[i - 1]]
      BY <1>5 DEF Recurs
    <3>2. h[i - 1] \in Q
      BY <1>5, <1>6
    <3> QED
      BY <3>1, <3>2
  <2>2. h[0] = base
    BY <1>5 DEF Recurs
  <2> QED
    BY <2>1, <2>2
<1> HIDE DEF step
<1>8. ASSUME NEW i \in 1..n PROVE h[i] = IF i = 1 THEN s[i] ELSE h[i - 1] \o s[i]
  <2>1. CASE i = 1
    <3>1. h[1] = h[0] \o s[1]
      <4>1. 1 \in 1..n /\ 1 - 1 = 0
        OBVIOUS
      <4> QED
        BY <1>7, <4>1
    <3>2. 1 \in 1..n
      OBVIOUS
    <3> QED
      BY <1>3, <1>7, <2>1, <3>1, <3>2
  <2> QED
    BY <1>7, <2>1
<1>9. IsFlat(f, s, n)
  <2> DEFINE g == [i \in 1..n |-> h[i]]
  <2>1. ASSUME NEW i \in 1..n PROVE h[i] = IF i = 1 THEN s[i] ELSE g[i - 1] \o s[i]
    <3>1. i # 1 => i - 1 \in 1..n
      OBVIOUS
    <3> QED
      BY <1>8, <3>1
  <2>2. IsFlat(g, s, n)
    BY <2>1 DEF IsFlat
  <2> HIDE DEF g
  <2> QED
    BY <2>2
<1> HIDE DEF f
<1>10. ASSUME NEW i \in 1..n PROVE f[i] = IF i = 1 THEN s[i] ELSE f[i - 1] \o s[i]
  BY <1>9 DEF IsFlat
<1> DEFINE R == {i \in 0..n : i = 0 \/ f[i] = h[i]}
<1>11. 0 \in R
  OBVIOUS
<1>12. ASSUME NEW k \in 1..n, k - 1 \in R PROVE k \in R
  <2>1. k \in 0..n /\ (k # 1 => k - 1 # 0)
    OBVIOUS
  <2>2. k # 1 => f[k - 1] = h[k - 1]
    BY <1>12, <2>1
  <2> QED
    BY <1>8, <1>10, <2>1, <2>2
<1> HIDE DEF R
<1>13. \A k \in 0..n : k \in R
  BY <1>11, <1>12, Stepwise
<1>14. f[n] = h[n]
  BY <1>13 DEF R
<1> QED
  BY <1>5, <1>7, <1>14 DEF f, Q, base

\* A line is read as it was written.
LEMMA LineReads ==
    ASSUME NEW ns \in Seq(Nat), \A i \in DOMAIN ns : Short(ns[i])
    PROVE  Whole(FlattenSeq(Line(ns))) /\ Varints(FlattenSeq(Line(ns)), 1) = ns
<1> DEFINE s == Line(ns)
           n == Len(ns)
           w == FlattenSeq(s)
<1>1. n \in Nat /\ DOMAIN ns = 1..n /\ DOMAIN s = 1..n /\ Len(s) = n
  BY DEF Line
<1>2. ASSUME NEW i \in 1..n
      PROVE  s[i] = VarintField(1, ns[i]) /\ s[i] \in Seq(Byte) /\ Reads(s[i], 1, 0, ns[i])
  <2>1. ns[i] \in Nat /\ Fits(ns[i]) /\ s[i] = VarintField(1, ns[i])
    BY <1>1 DEF Short, Line
  <2>2. 1 \in Nat \ {0} /\ Fits(8 * 1)
    BY SmallFits
  <2>3. Reads(VarintField(1, ns[i]), 1, 0, ns[i])
    BY <2>1, <2>2, VarintFieldReads
  <2> QED
    BY <2>1, <2>3 DEF Reads
<1>3. CASE n = 0
  <2>1. ns = << >>
    BY <1>3
  <2>2. s = << >>
    BY <2>1 DEF Line
  <2>3. w = << >>
    BY <1>1, <1>3, <2>2 DEF FlattenSeq
  <2>4. Whole(w) /\ Varints(w, 1) = << >>
    BY <2>3, EmptyValues DEF Varints, AllOf
  <2> QED
    BY <2>1, <2>4
<1>4. CASE n # 0
  <2> DEFINE f == CHOOSE g : IsFlat(g, s, n)
  <2>1. s \in [1..n -> Seq(Byte)]
    <3>1. s = [i \in 1..n |-> s[i]]
      BY <1>1 DEF Line
    <3> HIDE DEF s
    <3> QED
      BY <1>2, <3>1
  <2>2. w = f[n]
    <3> HIDE DEF s
    <3> QED
      BY <1>1, <1>4, FlattenDef
  <2> HIDE DEF s, n, f, w
  <2>3. PICK h \in [0..n -> Seq(Byte)] :
          h[0] = << >> /\ (\A i \in 1..n : h[i] = h[i - 1] \o s[i]) /\ f[n] = h[n]
    BY <1>1, <1>4, <2>1, FlattenIs DEF f
  <2> DEFINE Good(i) == Whole(h[i]) /\ AllOf(h[i], 1, 0) = SubSeq(ns, 1, i)
             R == {i \in 0..n : Good(i)}
  <2>4. 0 \in R
    <3>1. SubSeq(ns, 1, 0) = << >>
      OBVIOUS
    <3> QED
      BY <1>1, <2>3, <3>1, EmptyValues
  <2>5. ASSUME NEW k \in 1..n, k - 1 \in R PROVE k \in R
    <3>1. k \in 0..n /\ Whole(h[k - 1]) /\ AllOf(h[k - 1], 1, 0) = SubSeq(ns, 1, k - 1)
          /\ h[k] = h[k - 1] \o s[k]
      <4>1. k \in 0..n /\ h[k] = h[k - 1] \o s[k]
        BY <1>1, <2>3
      <4>2. Good(k - 1)
        <5> HIDE DEF Good
        <5> QED
          BY <2>5
      <4> QED
        BY <4>1, <4>2
    <3>2. Adds(h[k - 1] \o s[k], h[k - 1], 1, 0, ns[k])
      BY <1>2, <3>1, AppendedValues
    <3>3. Whole(h[k]) /\ AllOf(h[k], 1, 0) = Append(AllOf(h[k - 1], 1, 0), ns[k])
      BY <3>1, <3>2 DEF Adds
    <3>4. Append(SubSeq(ns, 1, k - 1), ns[k]) = SubSeq(ns, 1, k)
      BY <1>1 DEF n
    <3> QED
      BY <3>1, <3>3, <3>4
  <2> HIDE DEF R
  <2>6. \A k \in 0..n : k \in R
    BY <1>1, <2>4, <2>5, Stepwise
  <2>7. Whole(h[n]) /\ AllOf(h[n], 1, 0) = SubSeq(ns, 1, n)
    <3>1. n \in R
      BY <1>1, <2>6
    <3>2. Good(n)
      <4> HIDE DEF Good
      <4> QED
        BY <3>1 DEF R
    <3> QED
      BY <3>2
  <2>8. SubSeq(ns, 1, n) = ns
    BY DEF n
  <2> QED
    <3>1. w = h[n]
      BY <2>2, <2>3
    <3>2. Whole(w) /\ AllOf(w, 1, 0) = ns
      BY <2>7, <2>8, <3>1
    <3> QED
      BY <3>2 DEF Varints, AllOf, w, s
<1> QED
  BY <1>3, <1>4

-----------------------------------------------------------------------------
(* The numbers that a reader can find fit into the ten bytes of a varint.    *)

LEMMA NumberFits ==
    \A n \in Nat \ {0} : \A s \in Seq(Byte) : Len(s) = n => Len(Varint[Number(s)]) <= n
<1> DEFINE S == {n \in Nat : n # 0 => \A s \in Seq(Byte) : Len(s) = n => Len(Varint[Number(s)]) <= n}
<1>1. ASSUME NEW n \in Nat, \A i \in 0..n - 1 : i \in S
      PROVE  n \in S
  <2> SUFFICES ASSUME n # 0, NEW s \in Seq(Byte), Len(s) = n PROVE Len(Varint[Number(s)]) <= n
    OBVIOUS
  <2> DEFINE b == s[1]
             r == Tail(s)
             m == Number(r)
             c == b % 128
             v == c + 128 * m
  <2>1. b \in Byte /\ r \in Seq(Byte) /\ s = << b >> \o r /\ Len(r) = n - 1
    OBVIOUS
  <2> HIDE DEF b, r
  <2>2. c \in 0..127
    BY <2>1 DEF Byte
  <2>3. m \in Nat
    BY <2>1, NumberType
  <2>4. Number(s) = v
    BY <2>1, NumberCons
  <2>5. v \in Nat /\ v \div 128 = m /\ (v >= 128 => m # 0)
    <3> HIDE DEF c, m
    <3> QED
      BY <2>2, <2>3
  <2> HIDE DEF v
  <2>6. CASE v < 128
    <3>1. Len(Varint[v]) = 1
      BY <2>5, <2>6, VarintLength
    <3> QED
      BY <2>4, <3>1
  <2>7. CASE ~(v < 128)
    <3>1. Len(Varint[v]) = Len(Varint[m]) + 1
      BY <2>5, <2>7, VarintLength
    <3>2. n - 1 # 0
      <4>1. SUFFICES ASSUME n - 1 = 0 PROVE FALSE
        OBVIOUS
      <4>2. r = << >>
        BY <2>1, <4>1
      <4>3. m = 0
        BY <4>2, NumberOfNone
      <4> QED
        BY <2>5, <2>7, <4>3
    <3>3. n - 1 \in S
      <4>1. n - 1 \in 0..n - 1
        OBVIOUS
      <4> QED
        BY <1>1, <4>1
    <3>4. Len(Varint[m]) <= n - 1
      BY <2>1, <3>2, <3>3
    <3>5. Len(Varint[m]) \in Nat
      <4>1. Varint[m] \in Seq(Byte)
        BY <2>3, VarintDef
      <4> QED
        BY <4>1
    <3> DEFINE l == Len(Varint[m])
    <3> HIDE DEF l
    <3> QED
      BY <2>4, <3>1, <3>4, <3>5 DEF l
  <2> QED
    BY <2>6, <2>7
<1> HIDE DEF S
<1>2. \A n \in Nat : n \in S
  BY <1>1, Upward
<1> QED
  BY <1>2 DEF S

LEMMA DecodedFits ==
    ASSUME NEW data \in Seq(Byte), NEW o \in Nat \ {0}, DecodeVarint(data, o) # NoField
    PROVE  Short(DecodeVarint(data, o).number)
<1> DEFINE lasts == {i \in DOMAIN data : o <= i /\ i < o + 10 /\ data[i] < 128}
           least == CHOOSE i \in lasts : \A j \in lasts : i <= j
<1>1. lasts # {}
  BY DEF DecodeVarint
<1>2. DecodeVarint(data, o) = [number |-> Number(SubSeq(data, o, least)), end |-> least + 1]
  BY <1>1 DEF DecodeVarint
<1>3. lasts \in SUBSET Nat
  OBVIOUS
<1>4. \E i \in lasts : \A j \in lasts : i <= j
  BY <1>1, <1>3, LeastNumber
<1>5. least \in lasts
  BY <1>4
<1>6. least \in 1..Len(data) /\ o <= least /\ least < o + 10
  BY <1>5
<1> HIDE DEF least
<1> DEFINE s == SubSeq(data, o, least)
           n == Len(s)
<1>7. s \in Seq(Byte) /\ n = least - o + 1
  BY <1>6
<1>8. n \in Nat \ {0} /\ n <= 10
  BY <1>6, <1>7
<1> HIDE DEF s
<1>9. Number(s) \in Nat
  BY <1>7, NumberType
<1>10. Len(Varint[Number(s)]) <= n
  BY <1>7, <1>8, NumberFits
<1>11. Len(Varint[Number(s)]) \in Nat
  <2>1. Varint[Number(s)] \in Seq(Byte)
    BY <1>9, VarintDef
  <2> QED
    BY <2>1
<1> HIDE DEF n
<1>12. Fits(Number(s))
  BY <1>8, <1>10, <1>11 DEF Fits
<1>13. DecodeVarint(data, o).number = Number(s)
  BY <1>2 DEF s
<1> QED
  BY <1>9, <1>12, <1>13 DEF Short

LEMMA FieldFits ==
    ASSUME NEW data \in Seq(Byte), NEW o \in Nat \ {0}, NEW f, f = FieldAt(data, o),
           f # NoField, f.type = 0
    PROVE  Short(f.value)
<1> DEFINE tag == DecodeVarint(data, o)
           arg == DecodeVarint(data, tag.end)
<1>1. ~(tag = NoField \/ tag.number < 8)
  BY DEF FieldAt, TaggedField
<1>2. tag \in Found(data, o)
  BY <1>1, DecodeType
<1>3. tag.number \in Nat /\ tag.end \in Nat \ {0}
  BY <1>2 DEF Found
<1>4. arg # NoField => Short(arg.number)
  <2> DEFINE e == tag.end
  <2> HIDE DEF e, tag
  <2>1. arg = DecodeVarint(data, e) /\ e \in Nat \ {0}
    BY <1>3 DEF e
  <2> HIDE DEF arg
  <2> QED
    BY <2>1, DecodedFits
<1> HIDE DEF tag, arg
<1>5. FieldAt(data, o) =
        CASE tag.number % 8 = 0 -> VarintPayload(o, tag, arg)
          [] tag.number % 8 = 2 -> BytesPayload(data, o, tag, arg)
          [] tag.number % 8 \in {1, 5} ->
               Payload(data, o, tag, tag.end, IF tag.number % 8 = 1 THEN 8 ELSE 4)
          [] OTHER -> NoField
  BY <1>1 DEF FieldAt, TaggedField, tag, arg
<1>6. CASE tag.number % 8 = 0
  <2>1. f = VarintPayload(o, tag, arg)
    BY <1>5, <1>6
  <2>2. arg # NoField /\ f.value = arg.number
    BY <2>1 DEF VarintPayload
  <2> QED
    BY <1>4, <2>2
<1>7. CASE tag.number % 8 # 0
  <2>1. ASSUME NEW first, NEW length PROVE f # Payload(data, o, tag, first, length)
    <3>1. SUFFICES ASSUME f = Payload(data, o, tag, first, length) PROVE FALSE
      OBVIOUS
    <3>2. f.type = tag.number % 8
      BY <3>1 DEF Payload
    <3> QED
      BY <1>7, <3>2
  <2>2. f # BytesPayload(data, o, tag, arg)
    BY <2>1 DEF BytesPayload
  <2> QED
    BY <1>5, <1>7, <2>1, <2>2
<1> QED
  BY <1>3, <1>6, <1>7

\* A number that is read can be written again.
LEMMA GotFits ==
    ASSUME NEW data \in Seq(Byte), NEW number \in Nat \ {0}
    PROVE  Short(GetVarint(data, number))
<1> DEFINE fs == Fields(data)
           f == Field(data, number, 0)
<1>1. CASE f = NoField
  <2>1. GetVarint(data, number) = 0
    BY <1>1 DEF GetVarint, ValueOr
  <2>2. Short(0)
    BY SmallFits DEF Short
  <2> QED
    BY <2>1, <2>2
<1>2. CASE f # NoField
  <2>1. PICK i : First(fs, i, number, 0)
    BY <1>2, FirstField
  <2>2. f = fs[i]
    BY <2>1, FirstField
  <2>3. Chain(data, 1, fs)
    BY FieldsChain
  <2> HIDE DEF fs, f
  <2>4. i \in 1..Len(fs) /\ Len(fs) \in Nat /\ fs[i].type = 0
    BY <2>1, <2>3 DEF First, Chain
  <2>5. \A j \in 1..i - 1 : fs[j] # NoField
    <3> SUFFICES ASSUME NEW j \in 1..i - 1 PROVE fs[j] # NoField
      OBVIOUS
    <3>1. j \in 1..Len(fs) /\ j # Len(fs)
      BY <2>4
    <3>2. Link(data, fs, j)
      BY <2>3, <3>1 DEF Chain
    <3> QED
      BY <3>1, <3>2 DEF Link
  <2> DEFINE o == Place(fs, i)
  <2>6. i \in 1..Len(fs) + 1 /\ i <= Len(fs)
    BY <2>4
  <2>7. o \in 1..Len(data) /\ fs[i] = FieldAt(data, o)
    BY <2>3, <2>5, <2>6, PlaceType
  <2> HIDE DEF o
  <2>8. o \in Nat \ {0}
    BY <2>7
  <2>9. f = FieldAt(data, o) /\ f.type = 0
    BY <2>2, <2>4, <2>7
  <2>10. Short(f.value)
    BY <1>2, <2>8, <2>9, FieldFits DEF f
  <2> QED
    BY <1>2, <2>10 DEF GetVarint, ValueOr, f
<1> QED
  BY <1>1, <1>2

\* The fields that have a number and type.
OfType(data, type) == {f \in FieldsOf(data) \ {NoField} : f.type = type}

LEMMA OfTyped ==
    ASSUME NEW data \in Seq(Byte), NEW number \in Nat \ {0}, NEW type
    PROVE  Of(data, number, type) \in Seq(OfType(data, type))
<1> DEFINE fs == Fields(data)
           n == Len(fs)
           Q == Seq(OfType(data, type))
           none == << >>
<1>1. n \in Nat /\ \A i \in 1..n : fs[i] \in FieldsOf(data)
  <2>1. fs \in Seq(FieldsOf(data))
    BY FieldsType
  <2> HIDE DEF fs
  <2> QED
    BY <2>1
<1>2. PICK g : IsOf(g, fs, number, type) /\ Of(data, number, type) = g[n]
  BY OfIs
<1> HIDE DEF fs
<1>3. none \in Q /\ \A x, f : x \in Q /\ f \in OfType(data, type) => Append(x, f) \in Q
  OBVIOUS
<1> HIDE DEF Q, none
<1> DEFINE R == {i \in 0..n : g[i] \in Q}
<1>4. 0 \in R
  BY <1>1, <1>2, <1>3 DEF IsOf, none
<1>5. ASSUME NEW k \in 1..n, k - 1 \in R PROVE k \in R
  <2>1. g[k - 1] \in Q /\ fs[k] \in FieldsOf(data) /\ k \in 0..n
    BY <1>1, <1>5
  <2>2. g[k] = IF fs[k].number = number /\ fs[k].type = type THEN Append(g[k - 1], fs[k])
               ELSE g[k - 1]
    BY <1>2 DEF IsOf
  <2>3. CASE fs[k].number = number /\ fs[k].type = type
    <3>1. fs[k] # NoField
      BY <2>3 DEF NoField
    <3>2. fs[k] \in OfType(data, type)
      BY <2>1, <2>3, <3>1 DEF OfType
    <3> QED
      BY <1>3, <2>1, <2>2, <2>3, <3>2
  <2>4. CASE ~(fs[k].number = number /\ fs[k].type = type)
    BY <2>1, <2>2, <2>4
  <2> QED
    BY <2>3, <2>4
<1> HIDE DEF R
<1>6. \A k \in 0..n : k \in R
  BY <1>1, <1>4, <1>5, Stepwise
<1>7. n \in R
  BY <1>1, <1>6
<1> QED
  BY <1>2, <1>7 DEF R, Q

LEMMA ValuesTyped ==
    ASSUME NEW data \in Seq(Byte), NEW number \in Nat \ {0}
    PROVE  AllOf(data, number, 2) \in Seq(Seq(Byte)) /\ AllOf(data, number, 0) \in Seq(Nat)
<1>1. ASSUME NEW type, NEW V, \A f \in OfType(data, type) : f.value \in V
      PROVE  AllOf(data, number, type) \in Seq(V)
  <2> DEFINE T == OfType(data, type)
             W == {f.value : f \in T}
             fs == Of(data, number, type)
  <2>1. fs \in Seq(T)
    BY OfTyped
  <2>2. T = {} \/ \E f \in T : TRUE
    OBVIOUS
  <2>3. W \subseteq V
    BY <1>1
  <2>4. ValuesOf(fs) \in Seq(W)
    <3>1. CASE T = {}
      <4>1. fs = << >>
        <5> HIDE DEF fs
        <5> QED
          BY <2>1, <3>1
      <4>2. ValuesOf(fs) = << >>
        BY <4>1 DEF ValuesOf
      <4>3. << >> \in Seq(W)
        OBVIOUS
      <4> QED
        BY <4>2, <4>3
    <3>2. ASSUME NEW f \in T PROVE ValuesOf(fs) \in Seq(W)
      <4> HIDE DEF T, fs
      <4> QED
        BY <2>1, ValuesOfAppend
    <3> QED
      BY <2>2, <3>1, <3>2
  <2> HIDE DEF W, fs
  <2>5. ValuesOf(fs) \in Seq(V)
    BY <2>3, <2>4
  <2> QED
    BY <2>5 DEF AllOf, fs
<1>2. \A f \in OfType(data, 2) : f.value \in Seq(Byte)
  BY FieldParts DEF OfType
<1>3. \A f \in OfType(data, 0) : f.value \in Nat
  BY FieldParts DEF OfType
<1>4. AllOf(data, number, 2) \in Seq(Seq(Byte))
  <2> DEFINE B == Seq(Byte)
  <2>1. \A f \in OfType(data, 2) : f.value \in B
    BY <1>2
  <2> HIDE DEF B
  <2>2. AllOf(data, number, 2) \in Seq(B)
    BY <1>1, <2>1
  <2> QED
    BY <2>2 DEF B
<1>5. AllOf(data, number, 0) \in Seq(Nat)
  <2> DEFINE B == Nat
  <2>1. \A f \in OfType(data, 0) : f.value \in B
    BY <1>3
  <2> HIDE DEF B
  <2>2. AllOf(data, number, 0) \in Seq(B)
    BY <1>1, <2>1
  <2> QED
    BY <2>2 DEF B
<1> QED
  BY <1>4, <1>5

-----------------------------------------------------------------------------
(* Bags and heroes.                                                          *)

\* What is read as a map is one, of keys that can be written again.
LEMMA DecodeMapType ==
    ASSUME NEW data \in Seq(Byte), NEW number \in Nat \ {0}
    PROVE  /\ IsMap(DecodeMap(data, number))
           /\ \A k \in DOMAIN DecodeMap(data, number) : Short(k)
<1> DEFINE es == AllOf(data, number, 2)
           n == Len(es)
           key(i) == GetVarint(es[i], 1)
           K == {key(i) : i \in 1..n}
           Places(k) == {i \in 1..n : key(i) = k}
           m == LastByKey(es)
           B == Seq(Byte)
<1>1. es \in Seq(B)
  BY ValuesTyped
<1>2. DecodeMap(data, number) = m
  BY DEF DecodeMap, AllBytes, AllOf
<1> HIDE DEF es, B
<1>3. n \in Nat /\ DOMAIN es = 1..n /\ \A i \in 1..n : es[i] \in B
  BY <1>1
<1>4. \A i \in 1..n : Short(key(i)) /\ key(i) \in Nat
  BY <1>3, GotFits DEF B, Short
<1>5. m = [k \in K |-> GetBytes(es[Max(Places(k))], 2)]
  BY <1>3 DEF LastByKey
<1> HIDE DEF key
<1>6. ASSUME NEW k \in K PROVE GetBytes(es[Max(Places(k))], 2) \in B
  <2> DEFINE S == Places(k)
  <2>1. S \in SUBSET Nat /\ S # {} /\ \A i \in S : i <= n
    BY <1>3
  <2>2. S \subseteq 1..n
    OBVIOUS
  <2> HIDE DEF S
  <2>3. Max(S) \in S
    BY <1>3, <2>1, MaxBelow
  <2>4. es[Max(S)] \in B
    BY <1>3, <2>2, <2>3
  <2> QED
    BY <2>4, GotType DEF B, S
<1>7. IsFiniteSet(K)
  <2> DEFINE f == [i \in 1..n |-> key(i)]
             S == 1..n
  <2>1. IsFiniteSet(S)
    BY <1>3, FS_Interval
  <2>2. f \in Surjection(S, K)
    BY DEF Surjection
  <2> HIDE DEF f, S, K
  <2> QED
    BY <2>1, <2>2, FS_Surjection
<1>8. K \in SUBSET Nat /\ \A k \in K : Short(k)
  BY <1>4
<1> HIDE DEF K, Places
<1>9. m \in [K -> B] /\ DOMAIN m = K
  BY <1>5, <1>6
<1> HIDE DEF m
<1>10. IsMap(m)
  BY <1>7, <1>8, <1>9 DEF IsMap, B
<1> QED
  BY <1>2, <1>8, <1>9, <1>10

LEMMA NoneDecoded ==
    ASSUME NEW data, NEW number, AllOf(data, number, 2) = << >>
    PROVE  DecodeMap(data, number) = << >>
  BY NoEntries DEF DecodeMap, AllBytes, AllOf

LEMMA MapOverEmpty ==
    ASSUME NEW m, m = [k \in DOMAIN m |-> m[k]]
    PROVE  MapOver(m, << >>) = m
<1>1. DOMAIN << >> = {}
  OBVIOUS
<1>2. MapOver(m, << >>) = [k \in DOMAIN m |-> m[k]]
  BY <1>1 DEF MapOver
<1> QED
  BY <1>2

\* A map is made of the entries alone.
LEMMA AlikeMaps ==
    ASSUME NEW a, NEW b, NEW number, AllOf(a, number, 2) = AllOf(b, number, 2)
    PROVE  DecodeMap(a, number) = DecodeMap(b, number)
  BY DEF DecodeMap, AllBytes, AllOf

LEMMA OptionalType ==
    ASSUME NEW number \in Nat, NEW n \in Nat
    PROVE  Optional(number, n) \in Seq(Byte)
<1>1. VarintField(number, n) \in Seq(Byte)
  BY VarintDef DEF VarintField
<1>2. << >> \in Seq(Byte)
  OBVIOUS
<1> QED
  BY <1>1, <1>2 DEF Optional

\* The items that a bag holds, by positive numbers, and in positive quantities.
IsBag(bag) ==
    /\ bag = [items |-> bag.items, next |-> bag.next]
    /\ bag.items = [k \in DOMAIN bag.items |-> bag.items[k]]
    /\ DOMAIN bag.items \in SUBSET (Nat \ {0}) /\ IsFiniteSet(DOMAIN bag.items)
    /\ Short(bag.next)
    /\ \A k \in DOMAIN bag.items :
         LET item == bag.items[k]
         IN /\ Short(k) /\ item = [config |-> item.config, quantity |-> item.quantity]
            /\ Short(item.config) /\ Short(item.quantity) /\ item.quantity > 0

\* A bag is read as it was written.
LEMMA BagReads ==
    ASSUME NEW bag, IsBag(bag)
    PROVE  /\ EncodeRoleBag(bag) \in Seq(Byte)
           /\ Fits(Len(EncodeRoleBag(bag))) => DecodeRoleBag(EncodeRoleBag(bag)) = bag
<1> DEFINE items == bag.items
           D == DOMAIN items
           m == [k \in D |-> EncodeItem(k, items[k])]
           w == EncodeMap(1, m)
           none == << >>
           x == none \o w
           y == x \o Optional(2, bag.next)
<1>1. ASSUME NEW k \in D
      PROVE  /\ Short(k) /\ m[k] \in Seq(Byte) /\ DecodeItem(m[k]) = items[k]
             /\ k \in Nat \ {0} /\ items[k].quantity > 0
  <2> DEFINE item == items[k]
             config == item.config
             quantity == item.quantity
  <2>1. Short(k) /\ item = [config |-> config, quantity |-> quantity] /\ Short(config)
        /\ Short(quantity) /\ quantity > 0 /\ k \in Nat \ {0}
    BY DEF IsBag
  <2>2. m[k] = EncodeItem(k, item)
    OBVIOUS
  <2> HIDE DEF item, config, quantity
  <2>3. m[k] \in Seq(Byte) /\ DecodeItem(m[k]) = item
    BY <2>1, <2>2, ItemReads
  <2> QED
    BY <2>1, <2>3 DEF item, quantity
<1>2. EncodeRoleBag(bag) = w \o Optional(2, bag.next)
  <2>1. {k \in D : k > 0 /\ items[k].quantity > 0} = D
    <3>1. ASSUME NEW k \in D PROVE k > 0 /\ items[k].quantity > 0
      <4>1. k \in Nat \ {0} /\ items[k].quantity > 0
        BY <1>1
      <4> QED
        BY <4>1
    <3> QED
      BY <3>1
  <2> QED
    BY <2>1 DEF EncodeRoleBag
<1>3. IsMap(m) /\ DOMAIN m = D /\ 1 \in 1..1000 /\ 1 \in Nat \ {0}
  BY <1>1 DEF IsMap, IsBag
<1>4. Short(bag.next) /\ bag = [items |-> items, next |-> bag.next]
      /\ items = [k \in D |-> items[k]]
  BY DEF IsBag
<1> HIDE DEF m, items
<1>5. w \in Seq(Byte)
  BY <1>3, EntryLength
<1> HIDE DEF w
<1>6. x = w
  BY <1>5
<1>6a. EncodeRoleBag(bag) \in Seq(Byte)
  <2> DEFINE o == Optional(2, bag.next)
  <2>1. o \in Seq(Byte)
    BY <1>4, OptionalType DEF Short
  <2> HIDE DEF o
  <2>2. w \o o \in Seq(Byte)
    BY <1>5, <2>1
  <2> QED
    BY <1>2, <2>2 DEF o
<1> SUFFICES ASSUME Fits(Len(EncodeRoleBag(bag)))
             PROVE  DecodeRoleBag(EncodeRoleBag(bag)) = bag
  BY <1>6a
<1>7. Fits(Len(w))
  <2> DEFINE o == Optional(2, bag.next)
  <2>1. o \in Seq(Byte)
    BY <1>4, OptionalType DEF Short
  <2> HIDE DEF o
  <2>2. Len(w \o o) = Len(w) + Len(o)
    BY <1>5, <2>1, Joined
  <2>3. Len(w) \in Nat /\ Len(o) \in Nat
    BY <1>5, <2>1
  <2>4. Len(w) \in 0..Len(w \o o) /\ Len(w \o o) \in Nat
    BY <2>2, <2>3
  <2> QED
    BY <1>2, <2>4, FitsBelow DEF o
<1>8. Whole(none) /\ (\A n, t : AllOf(none, n, t) = << >>)
  BY EmptyValues
<1> HIDE DEF none
<1>9. Carries(x, none, 1, m)
  BY <1>1, <1>3, <1>7, <1>8, MapReads DEF w
<1>10. Whole(x) /\ DecodeMap(x, 1) = m /\ AllOf(x, 2, 0) = << >>
  <2>1. DecodeMap(none, 1) = << >>
    BY <1>8, NoneDecoded
  <2>2. m = [k \in DOMAIN m |-> m[k]]
    BY DEF m
  <2>3. MapOver(m, << >>) = m
    BY <2>2, MapOverEmpty
  <2> QED
    BY <1>8, <1>9, <2>1, <2>3 DEF Carries
<1> HIDE DEF x
<1>11. Sets(y, x, 2, bag.next)
  <2>1. 2 \in 1..1000
    OBVIOUS
  <2> QED
    BY <1>4, <1>10, <2>1, OptionalReads
<1> HIDE DEF y
<1>12. GetVarint(y, 2) = bag.next /\ DecodeMap(y, 1) = m
  <2>1. AllOf(y, 1, 2) = AllOf(x, 1, 2)
    BY <1>11 DEF Sets
  <2>2. DecodeMap(y, 1) = DecodeMap(x, 1)
    BY <2>1, AlikeMaps
  <2> QED
    BY <1>10, <1>11, <2>2 DEF Sets
<1>13. [k \in DOMAIN m |-> DecodeItem(m[k])] = items
  BY <1>1, <1>3, <1>4
<1>14. DecodeRoleBag(y) = [items |-> items, next |-> bag.next]
  BY <1>12, <1>13 DEF DecodeRoleBag
<1>15. y = EncodeRoleBag(bag)
  BY <1>2, <1>6 DEF y
<1> QED
  BY <1>4, <1>14, <1>15

\* A bag that was read can be written again.
LEMMA BagType ==
    ASSUME NEW b \in Seq(Byte),
           \A k \in DOMAIN DecodeRoleBag(b).items : k > 0 /\ DecodeRoleBag(b).items[k].quantity > 0
    PROVE  IsBag(DecodeRoleBag(b))
<1> DEFINE m == DecodeMap(b, 1)
           items == [k \in DOMAIN m |-> DecodeItem(m[k])]
           next == GetVarint(b, 2)
           bag == DecodeRoleBag(b)
<1>1. bag = [items |-> items, next |-> next]
  BY DEF DecodeRoleBag
<1>2. IsMap(m) /\ \A k \in DOMAIN m : Short(k)
  BY DecodeMapType
<1>3. Short(next)
  BY GotFits
<1>4. \A k \in DOMAIN bag.items : k > 0 /\ bag.items[k].quantity > 0
  OBVIOUS
<1> HIDE DEF m, next, bag
<1>5. bag.items = items /\ bag.next = next
  BY <1>1
<1>6. ASSUME NEW k \in DOMAIN m
      PROVE  LET item == items[k]
             IN /\ Short(k) /\ item = [config |-> item.config, quantity |-> item.quantity]
                /\ Short(item.config) /\ Short(item.quantity) /\ item.quantity > 0
  <2>1. items[k] = [config |-> GetVarint(m[k], 2), quantity |-> GetVarint(m[k], 3)]
    BY DEF DecodeItem
  <2>2. m[k] \in Seq(Byte)
    BY <1>2 DEF IsMap
  <2> DEFINE c == GetVarint(m[k], 2)
             q == GetVarint(m[k], 3)
             item == items[k]
  <2>3. Short(c) /\ Short(q)
    BY <2>2, GotFits
  <2>4. item.quantity > 0
    <3>1. k \in DOMAIN bag.items
      BY <1>5
    <3>2. bag.items[k].quantity > 0
      BY <1>4, <3>1
    <3> QED
      BY <1>5, <3>2
  <2>5. item = [config |-> c, quantity |-> q]
    BY <2>1
  <2> HIDE DEF c, q, item, items
  <2>6. Short(k) /\ item = [config |-> item.config, quantity |-> item.quantity]
        /\ Short(item.config) /\ Short(item.quantity) /\ item.quantity > 0
    BY <1>2, <2>3, <2>4, <2>5
  <2> QED
    BY <2>6 DEF item
<1>7. DOMAIN items = DOMAIN m /\ items = [k \in DOMAIN items |-> items[k]]
  OBVIOUS
<1>8. DOMAIN m \in SUBSET (Nat \ {0}) /\ IsFiniteSet(DOMAIN m)
  <2>1. ASSUME NEW k \in DOMAIN m PROVE k \in Nat \ {0}
    <3>1. k > 0
      BY <1>4, <1>5, <1>7
    <3>2. k \in Nat
      BY <1>2 DEF Short
    <3> QED
      BY <3>1, <3>2
  <2> QED
    BY <1>2, <2>1 DEF IsMap
<1> HIDE DEF items
<1>9. IsBag(bag)
  BY <1>1, <1>3, <1>5, <1>6, <1>7, <1>8 DEF IsBag
<1> QED
  BY <1>9 DEF bag

\* The level of a hero is read as it was written.
LEMMA LevelReads ==
    ASSUME NEW k, Short(k), NEW n, Short(n)
    PROVE  LET b == VarintField(1, k) \o Optional(3, n)
           IN b \in Seq(Byte) /\ GetVarint(b, 3) = n
<1> DEFINE a == VarintField(1, k)
           b == a \o Optional(3, n)
<1>1. 1 \in Nat \ {0} /\ Fits(8 * 1) /\ k \in Nat /\ Fits(k) /\ 3 \in 1..1000
  BY SmallFits DEF Short
<1>2. Reads(a, 1, 0, k)
  BY <1>1, VarintFieldReads
<1> HIDE DEF a, b
<1>3. Adds(a, << >>, 1, 0, k)
  BY <1>2, OneField
<1>4. Whole(a) /\ AllOf(a, 3, 0) = << >>
  BY <1>3, EmptyValues DEF Adds
<1>5. Sets(b, a, 3, n)
  BY <1>1, <1>4, OptionalReads DEF b
<1>6. b \in Seq(Byte) /\ GetVarint(b, 3) = n
  BY <1>5 DEF Sets, Whole
<1> QED
  BY <1>6 DEF a, b

\* A message of two maps and a number.
LEMMA MapsRead ==
    ASSUME NEW m, IsMap(m), NEW l, IsMap(l), NEW n, Short(n),
           \A k \in DOMAIN m : Short(k), \A k \in DOMAIN l : Short(k),
           Fits(Len(EncodeMap(2, m) \o EncodeMap(4, l) \o Optional(5, n)))
    PROVE  LET b == EncodeMap(2, m) \o EncodeMap(4, l) \o Optional(5, n)
           IN /\ Whole(b) /\ DecodeMap(b, 2) = m /\ DecodeMap(b, 4) = l /\ GetVarint(b, 5) = n
              /\ Len(EncodeMap(2, m)) <= Len(b)
<1> DEFINE none == << >>
           p == EncodeMap(2, m)
           q == EncodeMap(4, l)
           o == Optional(5, n)
           x == p \o q
           b == x \o o
<1>1. 2 \in 1..1000 /\ 4 \in 1..1000 /\ 5 \in 1..1000 /\ 2 \in Nat \ {0} /\ 4 \in Nat \ {0}
      /\ 5 \in Nat /\ n \in Nat
  BY DEF Short
<1>2. p \in Seq(Byte) /\ q \in Seq(Byte)
  BY <1>1, EntryLength
<1>3. o \in Seq(Byte)
  BY <1>1, OptionalType
<1>4. Fits(Len(b))
  OBVIOUS
<1> HIDE DEF p, q, o
<1>5. x \in Seq(Byte) /\ Len(x) = Len(p) + Len(q)
  BY <1>2, Joined
<1> HIDE DEF x
<1>6. b \in Seq(Byte) /\ Len(b) = Len(x) + Len(o)
  BY <1>3, <1>5, Joined
<1> HIDE DEF b
<1>7. Len(p) \in 0..Len(b) /\ Len(q) \in 0..Len(b) /\ Len(b) \in Nat
  BY <1>2, <1>3, <1>5, <1>6
<1>8. Fits(Len(p)) /\ Fits(Len(q))
  BY <1>4, <1>7, FitsBelow
<1>9. Whole(none) /\ (\A number, t : AllOf(none, number, t) = << >>) /\ none \o p = p
  BY <1>2, EmptyValues
<1> HIDE DEF none
<1>10. Carries(p, none, 2, m)
  <2>1. Fits(Len(EncodeMap(2, m)))
    BY <1>8 DEF p
  <2>2. Carries(none \o EncodeMap(2, m), none, 2, m)
    BY <1>1, <1>9, <2>1, MapReads
  <2>3. none \o EncodeMap(2, m) = p
    BY <1>9 DEF p
  <2> QED
    BY <2>2, <2>3
<1>11. DecodeMap(none, 2) = << >> /\ DecodeMap(none, 4) = << >>
  BY <1>9, NoneDecoded
<1>12. MapOver(m, << >>) = m /\ MapOver(l, << >>) = l
  <2>1. m = [k \in DOMAIN m |-> m[k]] /\ l = [k \in DOMAIN l |-> l[k]]
    BY DEF IsMap
  <2> QED
    BY <2>1, MapOverEmpty
<1>13. Whole(p) /\ DecodeMap(p, 2) = m /\ AllOf(p, 5, 0) = << >> /\ AllOf(p, 4, 2) = << >>
  BY <1>9, <1>10, <1>11, <1>12 DEF Carries
<1>14. Carries(x, p, 4, l)
  BY <1>1, <1>8, <1>13, MapReads DEF q, x
<1>15. DecodeMap(p, 4) = << >>
  BY <1>13, NoneDecoded
<1>16. Whole(x) /\ DecodeMap(x, 4) = l /\ AllOf(x, 5, 0) = << >> /\ AllOf(x, 2, 2) = AllOf(p, 2, 2)
  BY <1>12, <1>13, <1>14, <1>15 DEF Carries
<1>17. Sets(b, x, 5, n)
  BY <1>1, <1>16, OptionalReads DEF b, o
<1>18. /\ Whole(b) /\ GetVarint(b, 5) = n /\ AllOf(b, 2, 2) = AllOf(x, 2, 2)
       /\ AllOf(b, 4, 2) = AllOf(x, 4, 2)
  BY <1>17 DEF Sets
<1>19. DecodeMap(b, 2) = DecodeMap(p, 2) /\ DecodeMap(b, 4) = DecodeMap(x, 4)
  <2>1. AllOf(b, 2, 2) = AllOf(p, 2, 2)
    BY <1>16, <1>18
  <2> QED
    BY <1>18, <2>1, AlikeMaps
<1>20. Len(p) <= Len(b)
  BY <1>7
<1> QED
  BY <1>13, <1>16, <1>18, <1>19, <1>20 DEF b, x, p, q, o

\* Heroes and lineups, by positive numbers, of numbers that can be written;
\* there is a hero.
IsHero(hero) ==
    LET Keyed(m) == /\ DOMAIN m \in SUBSET (Nat \ {0}) /\ IsFiniteSet(DOMAIN m)
                    /\ m = [k \in DOMAIN m |-> m[k]]
                    /\ \A k \in DOMAIN m : Short(k)
    IN /\ hero = [heroes |-> hero.heroes, lineups |-> hero.lineups, active |-> hero.active]
       /\ Keyed(hero.heroes) /\ DOMAIN hero.heroes # {}
       /\ \A k \in DOMAIN hero.heroes : Short(hero.heroes[k])
       /\ Keyed(hero.lineups)
       /\ \A k \in DOMAIN hero.lineups :
            /\ hero.lineups[k] \in Seq(Nat)
            /\ \A i \in DOMAIN hero.lineups[k] : Short(hero.lineups[k][i])
       /\ Short(hero.active)

\* The entries that are written for the heroes and for the lineups.
Levels(heroes) == [k \in DOMAIN heroes |-> VarintField(1, k) \o Optional(3, heroes[k])]
Lines(lineups) == [k \in DOMAIN lineups |-> FlattenSeq(Line(lineups[k]))]

LEMMA Positive ==
    ASSUME NEW D \in SUBSET (Nat \ {0})
    PROVE  {k \in D : k > 0} = D /\ D \in SUBSET Nat
<1>1. ASSUME NEW k \in D PROVE k > 0
  <2>1. k \in Nat \ {0}
    OBVIOUS
  <2> QED
    BY <2>1
<1> QED
  BY <1>1

LEMMA LevelsType ==
    ASSUME NEW hero, IsHero(hero)
    PROVE  /\ IsMap(Levels(hero.heroes)) /\ DOMAIN Levels(hero.heroes) = DOMAIN hero.heroes
           /\ [k \in DOMAIN hero.heroes |-> GetVarint(Levels(hero.heroes)[k], 3)] = hero.heroes
           /\ \A k \in DOMAIN hero.heroes : Short(k)
<1> DEFINE h == hero.heroes
           D == DOMAIN h
           m == Levels(h)
<1>1. /\ D \in SUBSET (Nat \ {0}) /\ IsFiniteSet(D) /\ h = [k \in D |-> h[k]]
      /\ \A k \in D : Short(k) /\ Short(h[k])
  BY DEF IsHero
<1> HIDE DEF h
<1>2. m = [k \in D |-> VarintField(1, k) \o Optional(3, h[k])]
  BY DEF Levels
<1>3. ASSUME NEW k \in D PROVE m[k] \in Seq(Byte) /\ GetVarint(m[k], 3) = h[k]
  <2>1. m[k] = VarintField(1, k) \o Optional(3, h[k])
    BY <1>2
  <2>2. Short(k) /\ Short(h[k])
    BY <1>1
  <2> HIDE DEF m
  <2> QED
    BY <2>1, <2>2, LevelReads
<1> HIDE DEF m
<1>4. DOMAIN m = D /\ m = [k \in D |-> m[k]]
  BY <1>2
<1>5. D \in SUBSET Nat
  BY <1>1
<1>6. IsMap(m)
  BY <1>1, <1>3, <1>4, <1>5 DEF IsMap
<1>7. [k \in D |-> GetVarint(m[k], 3)] = h
  BY <1>1, <1>3
<1> QED
  BY <1>1, <1>4, <1>6, <1>7 DEF m, h

LEMMA LinesType ==
    ASSUME NEW hero, IsHero(hero)
    PROVE  /\ IsMap(Lines(hero.lineups)) /\ DOMAIN Lines(hero.lineups) = DOMAIN hero.lineups
           /\ [k \in DOMAIN hero.lineups |-> Varints(Lines(hero.lineups)[k], 1)] = hero.lineups
           /\ \A k \in DOMAIN hero.lineups : Short(k)
<1> DEFINE h == hero.lineups
           D == DOMAIN h
           m == Lines(h)
<1>1. /\ D \in SUBSET (Nat \ {0}) /\ IsFiniteSet(D) /\ h = [k \in D |-> h[k]]
      /\ \A k \in D : Short(k) /\ h[k] \in Seq(Nat) /\ \A i \in DOMAIN h[k] : Short(h[k][i])
  BY DEF IsHero
<1> HIDE DEF h
<1>2. m = [k \in D |-> FlattenSeq(Line(h[k]))]
  BY DEF Lines
<1>3. ASSUME NEW k \in D PROVE m[k] \in Seq(Byte) /\ Varints(m[k], 1) = h[k]
  <2> DEFINE ns == h[k]
  <2>1. m[k] = FlattenSeq(Line(ns))
    BY <1>2
  <2>2. ns \in Seq(Nat) /\ \A i \in DOMAIN ns : Short(ns[i])
    BY <1>1
  <2> HIDE DEF m, ns
  <2>3. Whole(m[k]) /\ Varints(m[k], 1) = ns
    BY <2>1, <2>2, LineReads
  <2> QED
    BY <2>3 DEF Whole, ns
<1> HIDE DEF m
<1>4. DOMAIN m = D /\ m = [k \in D |-> m[k]]
  BY <1>2
<1>5. D \in SUBSET Nat
  BY <1>1
<1>6. IsMap(m)
  BY <1>1, <1>3, <1>4, <1>5 DEF IsMap
<1>7. [k \in D |-> Varints(m[k], 1)] = h
  BY <1>1, <1>3
<1> QED
  BY <1>1, <1>4, <1>6, <1>7 DEF m, h

\* The message of the heroes that message 27 carries.
HeroBody(hero) ==
    EncodeMap(2, Levels(hero.heroes)) \o EncodeMap(4, Lines(hero.lineups)) \o Optional(5, hero.active)

LEMMA HeroEncoding ==
    ASSUME NEW hero, IsHero(hero), NEW replay
    PROVE  EncodeStartupHero(hero, replay) =
             BytesField(1, HeroBody(hero))
             \o (IF replay = << >> THEN << >> ELSE BytesField(2, replay))
<1>1. /\ {k \in DOMAIN hero.heroes : k > 0} = DOMAIN hero.heroes
      /\ {k \in DOMAIN hero.lineups : k > 0} = DOMAIN hero.lineups
  BY Positive DEF IsHero
<1> QED
  BY <1>1 DEF EncodeStartupHero, HeroBody, Levels, Lines, Line

\* The heroes are read as they were written, whatever replay follows them.
LEMMA HeroReads ==
    ASSUME NEW hero, IsHero(hero), NEW replay \in Seq(Byte),
           Fits(Len(EncodeStartupHero(hero, replay)))
    PROVE  DecodeRoleHero(EncodeStartupHero(hero, replay)) = hero
<1> DEFINE m == Levels(hero.heroes)
           l == Lines(hero.lineups)
           n == hero.active
           b == HeroBody(hero)
           x == BytesField(1, b)
           y == IF replay = << >> THEN << >> ELSE BytesField(2, replay)
           w == x \o y
<1>1. IsMap(m) /\ IsMap(l) /\ Short(n) /\ (\A k \in DOMAIN m : Short(k))
      /\ \A k \in DOMAIN l : Short(k)
  BY LevelsType, LinesType DEF IsHero
<1>2. EncodeStartupHero(hero, replay) = w /\ Fits(Len(w))
  BY HeroEncoding
<1>3. b = EncodeMap(2, m) \o EncodeMap(4, l) \o Optional(5, n)
  BY DEF HeroBody
<1>4. /\ [k \in DOMAIN m |-> GetVarint(m[k], 3)] = hero.heroes
      /\ [k \in DOMAIN l |-> Varints(l[k], 1)] = hero.lineups
      /\ DOMAIN m # {}
      /\ hero = [heroes |-> hero.heroes, lineups |-> hero.lineups, active |-> n]
  BY LevelsType, LinesType DEF IsHero
<1> HIDE DEF m, l, n, b
<1>5. b \in Seq(Byte)
  <2> DEFINE p == EncodeMap(2, m)
             q == EncodeMap(4, l)
             o == Optional(5, n)
  <2>1. p \in Seq(Byte) /\ q \in Seq(Byte)
    BY <1>1, EntryLength
  <2>2. o \in Seq(Byte)
    BY <1>1, OptionalType DEF Short
  <2> HIDE DEF p, q, o
  <2>3. p \o q \o o \in Seq(Byte)
    BY <2>1, <2>2
  <2> QED
    BY <1>3, <2>3 DEF p, q, o
<1>6. x \in Seq(Byte) /\ Len(b) <= Len(x)
  BY <1>5, BytesFieldType
<1>7. y \in Seq(Byte) /\ (replay # << >> => y = BytesField(2, replay) /\ Len(replay) <= Len(y))
  <2>1. BytesField(2, replay) \in Seq(Byte) /\ Len(replay) <= Len(BytesField(2, replay))
    BY BytesFieldType
  <2>2. << >> \in Seq(Byte)
    OBVIOUS
  <2> HIDE DEF x
  <2> QED
    BY <2>1, <2>2
<1>8. replay = << >> => y = << >>
  OBVIOUS
<1> HIDE DEF x, y
<1>9. w \in Seq(Byte) /\ Len(w) = Len(x) + Len(y)
  BY <1>6, <1>7, Joined
<1> HIDE DEF w
<1>10. Len(b) \in 0..Len(w) /\ Len(w) \in Nat
  BY <1>5, <1>6, <1>7, <1>9
<1>11. replay # << >> => Len(replay) \in 0..Len(w)
  BY <1>6, <1>7, <1>9
<1>12. Fits(Len(b)) /\ (replay # << >> => Fits(Len(replay)))
  BY <1>2, <1>10, <1>11, FitsBelow
<1>13. /\ Whole(b) /\ DecodeMap(b, 2) = m /\ DecodeMap(b, 4) = l /\ GetVarint(b, 5) = n
       /\ Len(EncodeMap(2, m)) <= Len(b)
  <2> DEFINE c == EncodeMap(2, m) \o EncodeMap(4, l) \o Optional(5, n)
  <2>1. b = c /\ Fits(Len(c))
    BY <1>3, <1>12
  <2>2. /\ Whole(c) /\ DecodeMap(c, 2) = m /\ DecodeMap(c, 4) = l /\ GetVarint(c, 5) = n
        /\ Len(EncodeMap(2, m)) <= Len(c)
    BY <1>1, <2>1, MapsRead
  <2> QED
    BY <2>1, <2>2
<1>14. b # << >>
  <2>1. PICK k \in DOMAIN m : TRUE
    BY <1>4
  <2> DEFINE e == Entry(k, m[k])
             s == EncodeMap(2, m)
  <2>2. Len(e) <= Len(s) /\ s \in Seq(Byte)
    <3>1. 2 \in Nat \ {0}
      OBVIOUS
    <3> QED
      BY <1>1, <2>1, <3>1, EntryLength
  <2>3. e \in Seq(Byte) /\ Len(e) > 0
    <3> DEFINE u == VarintField(1, k)
               v == BytesField(2, m[k])
    <3>1. m[k] \in Seq(Byte) /\ k \in Nat /\ Fits(k) /\ 1 \in Nat \ {0} /\ Fits(8 * 1)
      BY <1>1, SmallFits DEF IsMap, Short
    <3>2. Reads(u, 1, 0, k)
      BY <3>1, VarintFieldReads
    <3>3. v \in Seq(Byte)
      BY <3>1, BytesFieldType
    <3>4. e = u \o v
      BY DEF Entry
    <3> HIDE DEF u, v, e
    <3>5. u \in Seq(Byte) /\ Len(u) > 0
      BY <3>2 DEF Reads
    <3>6. Len(u \o v) = Len(u) + Len(v) /\ u \o v \in Seq(Byte)
      BY <3>3, <3>5, Joined
    <3>7. Len(u) \in Nat /\ Len(v) \in Nat
      BY <3>3, <3>5
    <3> QED
      BY <3>4, <3>5, <3>6, <3>7
  <2> HIDE DEF e, s
  <2>4. Len(e) \in Nat /\ Len(s) \in Nat
    BY <2>2, <2>3
  <2>5. Len(s) <= Len(b)
    BY <1>13 DEF s
  <2>6. Len(b) # 0
    BY <1>5, <2>2, <2>3, <2>4, <2>5
  <2>7. Len(<< >>) = 0
    OBVIOUS
  <2> QED
    BY <2>6, <2>7
<1>15. Whole(x) /\ AllOf(x, 1, 2) = << b >>
  <2>1. 1 \in Nat \ {0} /\ Fits(8 * 1 + 2)
    BY SmallFits
  <2>2. Reads(x, 1, 2, b)
    BY <1>5, <1>12, <2>1, BytesFieldReads DEF x
  <2>3. Adds(x, << >>, 1, 2, b)
    BY <2>2, OneField
  <2> QED
    BY <2>3, EmptyValues, AppendOne DEF Adds
<1>16. Whole(w) /\ AllOf(w, 1, 2) = << b >>
  <2>1. CASE replay = << >>
    <3>1. w = x
      BY <1>6, <1>8, <2>1 DEF w
    <3> QED
      BY <1>15, <3>1
  <2>2. CASE replay # << >>
    <3>1. 2 \in Nat \ {0} /\ Fits(8 * 2 + 2)
      BY SmallFits
    <3>2. Reads(BytesField(2, replay), 2, 2, replay)
      BY <1>12, <2>2, <3>1, BytesFieldReads
    <3>3. Reads(y, 2, 2, replay)
      BY <1>7, <2>2, <3>2
    <3>4. Adds(w, x, 2, 2, replay)
      BY <1>15, <3>3, AppendedValues DEF w
    <3> QED
      BY <1>15, <3>4 DEF Adds
  <2> QED
    BY <2>1, <2>2
<1>17. GetBytes(w, 1) = b
  BY <1>16, Gets
<1>18. DecodeRoleHero(w) =
         [heroes |-> [k \in DOMAIN DecodeMap(b, 2) |-> GetVarint(DecodeMap(b, 2)[k], 3)],
          lineups |-> [k \in DOMAIN DecodeMap(b, 4) |-> Varints(DecodeMap(b, 4)[k], 1)],
          active |-> GetVarint(b, 5)]
  BY <1>14, <1>17 DEF DecodeRoleHero
<1>19. DecodeRoleHero(w) = hero
  BY <1>4, <1>13, <1>18
<1> QED
  BY <1>2, <1>19

=============================================================================
