------------------------ MODULE UmqttFraming_proofs ------------------------
(***************************************************************************)
(* Theorems about the reading of packets, for any size of the buffer, any   *)
(* number of length octets and any packets.                                 *)
(***************************************************************************)
EXTENDS UmqttFraming, SequenceTheorems, WellFoundedInduction, TLAPS

LEMMA Division ==
  ASSUME NEW n \in Nat, NEW r \in Nat \ {0}
  PROVE  n \div r \in Nat /\ (n \div r) * r <= n /\ n < (n \div r + 1) * r
<1>1. n = (n \div r) * r + (n % r) /\ n % r \in 0 .. r - 1 /\ n \div r \in Nat
  OBVIOUS
<1> QED  BY <1>1

LEMMA OneBufferLess ==
  ASSUME NEW c \in Nat \ {0}, NEW l \in Nat, NEW r \in Nat,
         c * r <= l, l < (c + 1) * r
  PROVE  l - r \in Nat /\ c - 1 \in Nat /\ (c - 1) * r <= l - r /\ l - r < c * r
  OBVIOUS

\* Induction over a set of numbers.
LEMMA NatSetInduction ==
  ASSUME NEW S, \A n \in Nat : (\A m \in Nat : m < n => m \in S) => n \in S
  PROVE  \A n \in Nat : n \in S
<1> DEFINE R == OpToRel(<, Nat)
           T == Nat \ S
<1>1. \A i, j \in Nat : <<i, j>> \in R <=> i < j
  BY DEF OpToRel
<1>2. IsWellFoundedOn(R, Nat)
  BY NatLessThanWellFounded
<1> HIDE DEF R
<1>3. SUFFICES ASSUME T # {} PROVE FALSE
  OBVIOUS
<1>4. T \subseteq Nat
  OBVIOUS
<1> HIDE DEF T
<1>5. PICK n \in T : \A m \in T : ~ (<<m, n>> \in R)
  BY <1>2, <1>3, <1>4, WFMin
<1> USE DEF T
<1>6. \A m \in Nat : m < n => m \in S
  BY <1>1, <1>5
<1> QED  BY <1>5, <1>6

-----------------------------------------------------------------------------
(* LenOctets is what its definition says *)

\* A function on 0 .. k that goes by the definition.
Octet(n) == Base + (n % Base)
Digits(g, k) ==
  g = [n \in 0 .. k |-> IF n < Base THEN <<n>> ELSE <<Octet(n)>> \o g[n \div Base]]

LEMMA Bases == Base \in Nat /\ Base > 1
BY FramingAssumption

LEMMA Shorter ==
  ASSUME NEW n \in Nat, n >= Base
  PROVE  n \div Base \in Nat /\ n \div Base < n /\ n = (n \div Base) * Base + (n % Base) /\ n % Base \in 0 .. Base - 1
<1> DEFINE d == n \div Base
           r == n % Base
<1>1. n = d * Base + r /\ r \in 0 .. Base - 1 /\ d \in Int
  BY Bases
<1>2. d \in Nat
  BY <1>1, Bases
<1> HIDE DEF d, r
<1>3. d < n
  <2>1. SUFFICES ASSUME d >= n PROVE FALSE
    BY <1>2
  <2>2. d * Base >= d * 2
    BY <1>2, Bases
  <2> QED  BY <1>1, <1>2, <2>1, <2>2, Bases
<1> QED  BY <1>1, <1>2, <1>3 DEF d, r

LEMMA DigitsAt ==
  ASSUME NEW g, NEW k \in Nat, Digits(g, k), NEW n \in 0 .. k
  PROVE  g[n] = IF n < Base THEN <<n>> ELSE <<Octet(n)>> \o g[n \div Base]
<1> DEFINE h == [i \in 0 .. k |-> IF i < Base THEN <<i>> ELSE <<Octet(i)>> \o g[i \div Base]]
<1>1. g = h
  BY Zenon DEF Digits
<1>2. h[n] = IF n < Base THEN <<n>> ELSE <<Octet(n)>> \o g[n \div Base]
  OBVIOUS
<1> QED  BY <1>1, <1>2, Zenon

LEMMA DigitsUnique ==
  ASSUME NEW g, NEW h, NEW k \in Nat, NEW l \in Nat, Digits(g, k), Digits(h, l)
  PROVE  \A n \in 0 .. k : n <= l => g[n] = h[n]
<1> DEFINE S == {n \in Nat : n <= k /\ n <= l => g[n] = h[n]}
<1>1. ASSUME NEW n \in Nat, \A m \in Nat : m < n => m \in S
      PROVE  n \in S
  <2> SUFFICES ASSUME n <= k, n <= l PROVE g[n] = h[n]
    OBVIOUS
  <2>1. n \in 0 .. k /\ n \in 0 .. l
    OBVIOUS
  <2>2. /\ g[n] = IF n < Base THEN <<n>> ELSE <<Octet(n)>> \o g[n \div Base]
        /\ h[n] = IF n < Base THEN <<n>> ELSE <<Octet(n)>> \o h[n \div Base]
    BY <2>1, DigitsAt
  <2>3. n >= Base => g[n \div Base] = h[n \div Base]
    <3> SUFFICES ASSUME n >= Base PROVE g[n \div Base] = h[n \div Base]
      OBVIOUS
    <3>1. n \div Base \in Nat /\ n \div Base < n
      BY Shorter
    <3>2. n \div Base \in S
      BY <1>1, <3>1
    <3> QED  BY <3>1, <3>2
  <2> QED  BY <2>2, <2>3, Bases
<1> HIDE DEF S
<1>2. \A n \in Nat : n \in S
  BY <1>1, NatSetInduction
<1> USE DEF S
<1> QED  BY <1>2

LEMMA DigitsExist == \A k \in Nat : \E g : Digits(g, k)
<1> DEFINE S == {k \in Nat : \E g : Digits(g, k)}
<1>1. ASSUME NEW k \in Nat, \A m \in Nat : m < k => m \in S
      PROVE  k \in S
  <2>1. PICK f : \A n \in 0 .. k - 1 :
           f[n] = IF n < Base THEN <<n>> ELSE <<Octet(n)>> \o f[n \div Base]
    <3>1. CASE k = 0
      BY <3>1
    <3>2. CASE k # 0
      <4>1. k - 1 \in Nat /\ k - 1 < k
        BY <3>2
      <4>2. PICK f : Digits(f, k - 1)
        BY <1>1, <4>1
      <4> QED  BY <4>1, <4>2, DigitsAt
    <3> QED  BY <3>1, <3>2
  <2> DEFINE g == [n \in 0 .. k |-> IF n < Base THEN <<n>> ELSE <<Octet(n)>> \o f[n \div Base]]
  <2>2. \A n \in 0 .. k : n >= Base => g[n \div Base] = f[n \div Base]
    <3> SUFFICES ASSUME NEW n \in 0 .. k, n >= Base PROVE g[n \div Base] = f[n \div Base]
      OBVIOUS
    <3>1. n \div Base \in Nat /\ n \div Base < n
      BY Shorter
    <3>2. n \div Base \in 0 .. k - 1 /\ n \div Base \in 0 .. k
      BY <3>1
    <3> QED  BY <2>1, <3>2, Zenon
  <2>3. Digits(g, k)
    <3> HIDE DEF g
    <3>1. \A n \in 0 .. k : (IF n < Base THEN <<n>> ELSE <<Octet(n)>> \o f[n \div Base])
                          = (IF n < Base THEN <<n>> ELSE <<Octet(n)>> \o g[n \div Base])
      BY <2>2, Bases
    <3>2. g = [n \in 0 .. k |-> IF n < Base THEN <<n>> ELSE <<Octet(n)>> \o f[n \div Base]]
      BY DEF g
    <3> QED  BY <3>1, <3>2, Zenon DEF Digits
  <2> QED  BY <2>3
<1> HIDE DEF S
<1>2. \A k \in Nat : k \in S
  BY <1>1, NatSetInduction
<1> USE DEF S
<1> QED  BY <1>2

LEMMA LenOctetsDef ==
  ASSUME NEW n \in Nat
  PROVE  LenOctets[n] = IF n < Base THEN <<n>> ELSE <<Octet(n)>> \o LenOctets[n \div Base]
<1> DEFINE G(k) == CHOOSE g : Digits(g, k)
           f == [i \in Nat |-> G(i)[i]]
           Body(g) == [i \in Nat |-> IF i < Base THEN <<i>>
                                     ELSE <<Base + (i % Base)>> \o g[i \div Base]]
<1>1. \A k \in Nat : Digits(G(k), k)
  BY DigitsExist, Zenon
<1>2. ASSUME NEW i \in Nat
      PROVE  f[i] = IF i < Base THEN <<i>> ELSE <<Octet(i)>> \o f[i \div Base]
  <2> HIDE DEF G
  <2>1. f[i] = G(i)[i] /\ i \in 0 .. i
    OBVIOUS
  <2>2. G(i)[i] = IF i < Base THEN <<i>> ELSE <<Octet(i)>> \o G(i)[i \div Base]
    BY <1>1, <2>1, DigitsAt
  <2>3. i >= Base => G(i)[i \div Base] = f[i \div Base]
    <3> SUFFICES ASSUME i >= Base PROVE G(i)[i \div Base] = f[i \div Base]
      OBVIOUS
    <3>1. i \div Base \in Nat /\ i \div Base < i
      BY Shorter
    <3>2. i \div Base \in 0 .. i /\ i \div Base <= i \div Base
      BY <3>1
    <3>3. G(i)[i \div Base] = G(i \div Base)[i \div Base]
      BY <1>1, <3>1, <3>2, DigitsUnique
    <3> QED  BY <3>1, <3>3
  <2> QED  BY <2>1, <2>2, <2>3, Bases
<1>3. f = Body(f)
  <2> HIDE DEF G
  <2>1. \A i \in Nat : f[i] = Body(f)[i]
    <3> TAKE i \in Nat
    <3> HIDE DEF f
    <3> QED  BY <1>2 DEF Octet
  <2> QED  BY <2>1
<1>4. LenOctets = Body(LenOctets)
  <2> HIDE DEF f
  <2>1. \E g : g = Body(g)
    BY <1>3
  <2>2. LenOctets = CHOOSE g : g = Body(g)
    BY DEF LenOctets
  <2> QED BY <2>1, <2>2, Zenon
<1>5. Body(LenOctets)[n] = IF n < Base THEN <<n>> ELSE <<Base + (n % Base)>> \o LenOctets[n \div Base]
  OBVIOUS
<1> QED BY <1>4, <1>5, Zenon DEF Octet

-----------------------------------------------------------------------------
(* Types of the length octets *)

LEMMA LengthDigit ==
  ASSUME NEW n \in Nat
  PROVE  /\ n < Base => n \in Octets
         /\ n >= Base => Octet(n) \in Octets
<1>1. CASE n < Base
  BY <1>1, Bases DEF Octets
<1>2. CASE n >= Base
  BY <1>2, Bases, Shorter DEF Octets, Octet
<1> QED  BY <1>1, <1>2, Bases

LEMMA LenOctetsType == \A n \in Nat : LenOctets[n] \in Seq(Octets) /\ LenOctets[n] # <<>>
<1> DEFINE S == {n \in Nat : LenOctets[n] \in Seq(Octets) /\ LenOctets[n] # <<>>}
<1>1. ASSUME NEW n \in Nat, \A m \in Nat : m < n => m \in S
      PROVE  n \in S
  <2>1. CASE n < Base
    <3>1. LenOctets[n] = <<n>> /\ n \in Octets
      BY <2>1, LenOctetsDef, LengthDigit
    <3>2. <<n>> \in Seq(Octets) /\ <<n>> # <<>>
      BY <3>1
    <3> QED  BY <3>1, <3>2
  <2>2. CASE n >= Base
    <3>1. n \div Base \in S
      BY <1>1, <2>2, Shorter
    <3>2. LenOctets[n] = <<Octet(n)>> \o LenOctets[n \div Base] /\ Octet(n) \in Octets
      <4>1. ~ (n < Base)
        BY <2>2, Bases
      <4> HIDE DEF Octet
      <4>2. LenOctets[n] = <<Octet(n)>> \o LenOctets[n \div Base]
        BY <4>1, LenOctetsDef, Zenon
      <4> QED  BY <2>2, <4>2, LengthDigit
    <3> HIDE DEF Octet
    <3>3. <<Octet(n)>> \in Seq(Octets) /\ LenOctets[n \div Base] \in Seq(Octets)
      BY <3>1, <3>2
    <3>4. LenOctets[n] \in Seq(Octets) /\ Len(LenOctets[n]) = 1 + Len(LenOctets[n \div Base])
      BY <3>2, <3>3
    <3> QED  BY <3>3, <3>4
  <2> QED  BY <2>1, <2>2, Bases
<1> HIDE DEF S
<1>2. \A n \in Nat : n \in S
  BY <1>1, NatSetInduction
<1> USE DEF S
<1> QED  BY <1>2

-----------------------------------------------------------------------------
(* FlattenSeq *)

Piled(f, ss, n) == f = [i \in 1 .. n |-> IF i = 1 THEN ss[i] ELSE f[i - 1] \o ss[i]]

LEMMA PiledAt ==
  ASSUME NEW f, NEW ss, NEW n \in Nat, Piled(f, ss, n), NEW i \in 1 .. n
  PROVE  f[i] = IF i = 1 THEN ss[i] ELSE f[i - 1] \o ss[i]
<1> DEFINE h == [j \in 1 .. n |-> IF j = 1 THEN ss[j] ELSE f[j - 1] \o ss[j]]
<1>1. f = h
  BY Zenon DEF Piled
<1>2. h[i] = IF i = 1 THEN ss[i] ELSE f[i - 1] \o ss[i]
  OBVIOUS
<1> QED  BY <1>1, <1>2, Zenon

LEMMA PiledExists == ASSUME NEW ss PROVE \A n \in Nat : \E f : Piled(f, ss, n)
<1> DEFINE S == {n \in Nat : \E f : Piled(f, ss, n)}
<1>1. ASSUME NEW n \in Nat, \A m \in Nat : m < n => m \in S
      PROVE  n \in S
  <2>1. PICK f : \A i \in 1 .. n - 1 : f[i] = IF i = 1 THEN ss[i] ELSE f[i - 1] \o ss[i]
    <3>1. CASE n = 0
      BY <3>1
    <3>2. CASE n # 0
      <4>1. n - 1 \in Nat /\ n - 1 < n
        BY <3>2
      <4>2. PICK f : Piled(f, ss, n - 1)
        BY <1>1, <4>1
      <4> QED  BY <4>1, <4>2, PiledAt
    <3> QED  BY <3>1, <3>2
  <2> DEFINE g == [i \in 1 .. n |-> IF i = 1 THEN ss[i] ELSE f[i - 1] \o ss[i]]
  <2>2. \A i \in 1 .. n : i # 1 => g[i - 1] = f[i - 1]
    <3> SUFFICES ASSUME NEW i \in 1 .. n, i # 1 PROVE g[i - 1] = f[i - 1]
      OBVIOUS
    <3>1. i - 1 \in 1 .. n - 1 /\ i - 1 \in 1 .. n
      OBVIOUS
    <3> QED  BY <2>1, <3>1, Zenon
  <2>3. Piled(g, ss, n)
    <3> HIDE DEF g
    <3>1. \A i \in 1 .. n : (IF i = 1 THEN ss[i] ELSE f[i - 1] \o ss[i])
                          = (IF i = 1 THEN ss[i] ELSE g[i - 1] \o ss[i])
      BY <2>2
    <3>2. g = [i \in 1 .. n |-> IF i = 1 THEN ss[i] ELSE f[i - 1] \o ss[i]]
      BY DEF g
    <3> QED  BY <3>1, <3>2, Zenon DEF Piled
  <2> QED  BY <2>3
<1> HIDE DEF S
<1>2. \A n \in Nat : n \in S
  BY <1>1, NatSetInduction
<1> USE DEF S
<1> QED  BY <1>2

\* Only the pieces up to the place count.
LEMMA PiledUnique ==
  ASSUME NEW f, NEW g, NEW ss, NEW tt, NEW n \in Nat, NEW m \in Nat, NEW k \in Nat,
         k <= n, k <= m, Piled(f, ss, n), Piled(g, tt, m), \A i \in 1 .. k : ss[i] = tt[i]
  PROVE  \A i \in 1 .. k : f[i] = g[i]
<1> DEFINE S == {i \in Nat : i \in 1 .. k => f[i] = g[i]}
<1>1. ASSUME NEW i \in Nat, \A j \in Nat : j < i => j \in S
      PROVE  i \in S
  <2> SUFFICES ASSUME i \in 1 .. k PROVE f[i] = g[i]
    OBVIOUS
  <2>1. i \in 1 .. n /\ i \in 1 .. m
    OBVIOUS
  <2>2. /\ f[i] = IF i = 1 THEN ss[i] ELSE f[i - 1] \o ss[i]
        /\ g[i] = IF i = 1 THEN tt[i] ELSE g[i - 1] \o tt[i]
    BY <2>1, PiledAt
  <2>3. i # 1 => f[i - 1] = g[i - 1]
    BY <1>1
  <2> QED  BY <2>2, <2>3
<1> HIDE DEF S
<1>2. \A i \in Nat : i \in S
  BY <1>1, NatSetInduction
<1> USE DEF S
<1> QED  BY <1>2

LEMMA PiledLast ==
  ASSUME NEW f, NEW ss, NEW n \in Nat, Piled(f, ss, n + 1)
  PROVE  f[n + 1] = IF n = 0 THEN ss[n + 1] ELSE f[n] \o ss[n + 1]
<1>1. n + 1 \in Nat /\ n + 1 \in 1 .. n + 1 /\ (n + 1) - 1 = n
  OBVIOUS
<1>2. PICK k \in Nat : k = n + 1
  BY <1>1
<1>3. f[k] = IF k = 1 THEN ss[k] ELSE f[k - 1] \o ss[k]
  BY <1>1, <1>2, PiledAt
<1>4. k - 1 = n /\ (k = 1 <=> n = 0)
  BY <1>2
<1> QED  BY <1>2, <1>3, <1>4

Agree(f, g, n) == f[n] = g[n]

LEMMA OneMorePiled ==
  ASSUME NEW f, NEW g, NEW tt, NEW ss, NEW n \in Nat, n >= 1,
         Piled(f, tt, n + 1), Piled(g, ss, n), \A i \in 1 .. n : tt[i] = ss[i]
  PROVE  Agree(f, g, n)
<1>1. PICK k \in Nat : k = n + 1
  OBVIOUS
<1>2. n <= k /\ n <= n /\ n \in 1 .. n
  BY <1>1
<1>3. \A i \in 1 .. n : f[i] = g[i]
  <2>1. Piled(f, tt, k)
    BY <1>1
  <2> QED  BY <1>2, <2>1, PiledUnique
<1> QED  BY <1>2, <1>3 DEF Agree

LEMMA FlattenIs ==
  ASSUME NEW S, NEW ss \in Seq(S), Len(ss) # 0, NEW f, Piled(f, ss, Len(ss))
  PROVE  FlattenSeq(ss) = f[Len(ss)]
<1> DEFINE g == CHOOSE h : h = [i \in 1 .. Len(ss) |-> IF i = 1 THEN ss[i] ELSE h[i - 1] \o ss[i]]
<1>1. FlattenSeq(ss) = g[Len(ss)]
  BY DEF FlattenSeq
<1>2. g = CHOOSE h : Piled(h, ss, Len(ss))
  BY DEF Piled
<1>3. Piled(g, ss, Len(ss))
  BY <1>2, Zenon
<1> HIDE DEF g
<1>4. f[Len(ss)] = g[Len(ss)]
  BY <1>3, PiledUnique
<1> QED  BY <1>1, <1>4

LEMMA Associative ==
  ASSUME NEW S, NEW s \in Seq(S), NEW t \in Seq(S), NEW u \in Seq(S)
  PROVE  (s \o t) \o u = s \o (t \o u)
BY ConcatAssociative

LEMMA FlattenEmpty == FlattenSeq(<<>>) = <<>>
BY DEF FlattenSeq

LEMMA FlattenAppend ==
  ASSUME NEW S, NEW ss \in Seq(Seq(S)), NEW s \in Seq(S)
  PROVE  FlattenSeq(Append(ss, s)) = FlattenSeq(ss) \o s
<1>1. PICK n \in Nat : n = Len(ss)
  OBVIOUS
<1>2. PICK tt \in Seq(Seq(S)) : tt = Append(ss, s)
  BY AppendProperties
<1>3. Len(tt) = n + 1 /\ tt[n + 1] = s /\ \A i \in 1 .. n : tt[i] = ss[i]
  BY <1>1, <1>2, AppendProperties
<1>4. PICK f : Piled(f, tt, n + 1)
  <2>1. n + 1 \in Nat
    OBVIOUS
  <2> QED  BY <2>1, PiledExists, Zenon
<1>5. FlattenSeq(tt) = IF n = 0 THEN s ELSE f[n] \o s
  <2>1. FlattenSeq(tt) = f[n + 1]
    BY <1>3, <1>4, FlattenIs
  <2> QED  BY <1>3, <1>4, <2>1, PiledLast
<1>6. CASE n = 0
  <2>1. FlattenSeq(ss) = <<>>
    BY <1>1, <1>6, FlattenEmpty, EmptySeq
  <2> QED  BY <1>2, <1>5, <1>6, <2>1, ConcatEmptySeq
<1>7. CASE n # 0
  <2>1. PICK g : Piled(g, ss, n)
    BY PiledExists
  <2>2. f[n] = g[n]
    <3>1. n >= 1 /\ \A i \in 1 .. n : tt[i] = ss[i]
      BY <1>3, <1>7
    <3>2. Agree(f, g, n)
      BY <1>4, <2>1, <3>1, OneMorePiled, Zenon
    <3> QED  BY <3>2 DEF Agree
  <2>3. FlattenSeq(ss) = g[n]
    BY <1>1, <1>7, <2>1, FlattenIs
  <2> QED  BY <1>2, <1>5, <1>7, <2>2, <2>3, Zenon
<1> QED  BY <1>6, <1>7

LEMMA FlattenType ==
  ASSUME NEW S
  PROVE  \A ss \in Seq(Seq(S)) : FlattenSeq(ss) \in Seq(S)
<1> DEFINE N == {n \in Nat : \A ss \in Seq(Seq(S)) : Len(ss) = n => FlattenSeq(ss) \in Seq(S)}
<1>1. ASSUME NEW n \in Nat, \A m \in Nat : m < n => m \in N
      PROVE  n \in N
  <2> SUFFICES ASSUME NEW ss \in Seq(Seq(S)), Len(ss) = n PROVE FlattenSeq(ss) \in Seq(S)
    OBVIOUS
  <2>1. CASE ss = <<>>
    BY <2>1, FlattenEmpty, EmptySeq
  <2>2. CASE ss # <<>>
    <3>1. PICK front \in Seq(Seq(S)), s \in Seq(S) : ss = Append(front, s)
      BY <2>2, SequenceEmptyOrAppend
    <3>2. Len(front) \in Nat /\ Len(front) < n
      BY <3>1, AppendProperties
    <3>3. FlattenSeq(front) \in Seq(S)
      BY <1>1, <3>2
    <3> QED  BY <3>1, <3>3, FlattenAppend, ConcatProperties
  <2> QED  BY <2>1, <2>2
<1> HIDE DEF N
<1>2. \A n \in Nat : n \in N
  BY <1>1, NatSetInduction
<1> USE DEF N
<1> QED  BY <1>2

LEMMA FlattenCons ==
  ASSUME NEW S, NEW s \in Seq(S)
  PROVE  \A ss \in Seq(Seq(S)) : FlattenSeq(<<s>> \o ss) = s \o FlattenSeq(ss)
<1> DEFINE N == {n \in Nat : \A ss \in Seq(Seq(S)) :
                   Len(ss) = n => FlattenSeq(<<s>> \o ss) = s \o FlattenSeq(ss)}
<1>1. ASSUME NEW n \in Nat, \A m \in Nat : m < n => m \in N
      PROVE  n \in N
  <2> SUFFICES ASSUME NEW ss \in Seq(Seq(S)), Len(ss) = n
               PROVE  FlattenSeq(<<s>> \o ss) = s \o FlattenSeq(ss)
    OBVIOUS
  <2>1. CASE ss = <<>>
    <3>1. <<s>> \o ss = Append(<<>>, s)
      BY <2>1, Z3
    <3>2. FlattenSeq(Append(<<>>, s)) = <<>> \o s
      BY FlattenAppend, FlattenEmpty, EmptySeq
    <3> QED  BY <2>1, <3>1, <3>2, FlattenEmpty, ConcatEmptySeq
  <2>2. CASE ss # <<>>
    <3>1. PICK front \in Seq(Seq(S)), t \in Seq(S) : ss = Append(front, t)
      BY <2>2, SequenceEmptyOrAppend
    <3>2. Len(front) \in Nat /\ Len(front) < n
      BY <3>1, AppendProperties
    <3>3. FlattenSeq(<<s>> \o front) = s \o FlattenSeq(front)
      BY <1>1, <3>2
    <3>4. <<s>> \o front \in Seq(Seq(S)) /\ <<s>> \o ss = Append(<<s>> \o front, t)
      BY <3>1
    <3>5. FlattenSeq(<<s>> \o ss) = (s \o FlattenSeq(front)) \o t
      BY <3>3, <3>4, FlattenAppend
    <3>6. FlattenSeq(ss) = FlattenSeq(front) \o t /\ FlattenSeq(front) \in Seq(S)
      BY <3>1, FlattenAppend, FlattenType
    <3>7. (s \o FlattenSeq(front)) \o t = s \o (FlattenSeq(front) \o t)
      BY <3>6, Associative
    <3> QED  BY <3>5, <3>6, <3>7, Zenon
  <2> QED  BY <2>1, <2>2
<1> HIDE DEF N
<1>2. \A n \in Nat : n \in N
  BY <1>1, NatSetInduction
<1>3. TAKE ss \in Seq(Seq(S))
<1>4. Len(ss) \in N
  BY <1>2
<1> QED  BY <1>4 DEF N

-----------------------------------------------------------------------------
(* The packets on the wire *)

LEMMA MessageType ==
  ASSUME NEW p \in Messages
  PROVE  /\ p.type \in Octets /\ p.body \in Seq(Octets) /\ Len(p.body) \in Nat
         /\ p = [type |-> p.type, body |-> p.body]
BY FramingAssumption

LEMMA EncodeType ==
  ASSUME NEW p \in Messages
  PROVE  /\ Encode(p) \in Seq(Octets)
         /\ Encode(p) = <<p.type>> \o (LenOctets[Len(p.body)] \o p.body)
         /\ Len(Encode(p)) = 1 + Len(LenOctets[Len(p.body)]) + Len(p.body)
<1>1. PICK d \in Seq(Octets) : d = LenOctets[Len(p.body)]
  BY MessageType, LenOctetsType
<1>2. PICK h \in Seq(Octets) : h = <<p.type>> /\ Len(h) = 1
  <2>1. PICK x \in Octets : x = p.type
    BY MessageType
  <2>2. <<x>> \in Seq(Octets) /\ Len(<<x>>) = 1
    OBVIOUS
  <2> QED  BY <2>1, <2>2
<1>3. PICK b \in Seq(Octets) : b = p.body
  BY MessageType
<1>4. (h \o d) \o b = h \o (d \o b)
  BY Associative
<1>5. Encode(p) = h \o (d \o b)
  BY <1>1, <1>2, <1>3, <1>4 DEF Encode
<1>6. PICK t \in Seq(Octets) : t = d \o b /\ Len(t) = Len(d) + Len(b)
  BY ConcatProperties
<1>7. Encode(p) \in Seq(Octets) /\ Len(Encode(p)) = 1 + Len(t)
  BY <1>2, <1>5, <1>6, ConcatProperties
<1>8. Len(Encode(p)) = 1 + Len(d) + Len(b)
  <2>1. Len(d) \in Nat /\ Len(b) \in Nat
    OBVIOUS
  <2> QED  BY <1>6, <1>7, <2>1
<1> QED  BY <1>1, <1>2, <1>3, <1>5, <1>7, <1>8

Codes(ps) == [i \in DOMAIN ps |-> Encode(ps[i])]
Kept(ps) == [i \in DOMAIN ps |-> IF Fits(ps[i]) THEN <<ps[i]>> ELSE <<>>]
KeptOf(p) == IF Fits(p) THEN <<p>> ELSE <<>>

LEMMA CodesType ==
  ASSUME NEW ps \in Seq(Messages)
  PROVE  /\ Codes(ps) \in Seq(Seq(Octets)) /\ Len(Codes(ps)) = Len(ps)
         /\ \A i \in 1 .. Len(ps) : Codes(ps)[i] = Encode(ps[i])
<1>1. \A i \in 1 .. Len(ps) : Encode(ps[i]) \in Seq(Octets)
  BY EncodeType, ElementOfSeq
<1>2. Codes(ps) = [i \in 1 .. Len(ps) |-> Encode(ps[i])]
  BY DEF Codes
<1> QED  BY <1>1, <1>2

LEMMA KeptType ==
  ASSUME NEW ps \in Seq(Messages)
  PROVE  /\ Kept(ps) \in Seq(Seq(Messages)) /\ Len(Kept(ps)) = Len(ps)
         /\ \A i \in 1 .. Len(ps) : Kept(ps)[i] = KeptOf(ps[i])
<1>1. \A p \in Messages : KeptOf(p) \in Seq(Messages)
  BY DEF KeptOf
<1>2. Kept(ps) = [i \in 1 .. Len(ps) |-> KeptOf(ps[i])]
  BY DEF Kept, KeptOf
<1>3. \A i \in 1 .. Len(ps) : KeptOf(ps[i]) \in Seq(Messages)
  BY <1>1, ElementOfSeq
<1> HIDE DEF KeptOf, Kept
<1> QED  BY <1>2, <1>3

LEMMA EncodedType ==
  ASSUME NEW ps \in Seq(Messages)
  PROVE  Encoded(ps) \in Seq(Octets)
BY CodesType, FlattenType DEF Encoded, Codes

LEMMA EncodedAppend ==
  ASSUME NEW ps \in Seq(Messages), NEW p \in Messages
  PROVE  Encoded(Append(ps, p)) = Encoded(ps) \o Encode(p)
<1>1. PICK qs \in Seq(Messages) : qs = Append(ps, p)
  BY AppendProperties
<1>2. Len(qs) = Len(ps) + 1 /\ qs[Len(ps) + 1] = p /\ \A i \in 1 .. Len(ps) : qs[i] = ps[i]
  BY <1>1, AppendProperties
<1>3. Codes(qs) = Append(Codes(ps), Encode(p))
  <2>1. PICK t \in Seq(Seq(Octets)) : t = Append(Codes(ps), Encode(p))
    BY CodesType, EncodeType, AppendProperties
  <2>2. Len(t) = Len(ps) + 1 /\ t[Len(ps) + 1] = Encode(p)
        /\ \A i \in 1 .. Len(ps) : t[i] = Encode(ps[i])
    BY <2>1, CodesType, EncodeType, AppendProperties
  <2>3. Len(Codes(qs)) = Len(ps) + 1 /\ \A i \in 1 .. Len(ps) + 1 : Codes(qs)[i] = Encode(qs[i])
    BY <1>2, CodesType
  <2>4. \A i \in 1 .. Len(ps) + 1 : i = Len(ps) + 1 \/ i \in 1 .. Len(ps)
    OBVIOUS
  <2>5. \A i \in 1 .. Len(ps) + 1 : Codes(qs)[i] = t[i]
    BY <1>2, <2>2, <2>3, <2>4
  <2> QED  BY <2>1, <2>2, <2>3, <2>5, CodesType, SeqEqual
<1>4. FlattenSeq(Append(Codes(ps), Encode(p))) = FlattenSeq(Codes(ps)) \o Encode(p)
  BY CodesType, EncodeType, FlattenAppend
<1> QED  BY <1>1, <1>3, <1>4 DEF Encoded, Codes

LEMMA EncodedCons ==
  ASSUME NEW ps \in Seq(Messages), NEW p \in Messages
  PROVE  Encoded(<<p>> \o ps) = Encode(p) \o Encoded(ps)
<1>1. PICK qs \in Seq(Messages) : qs = <<p>> \o ps
  <2>1. <<p>> \in Seq(Messages)
    OBVIOUS
  <2> QED  BY <2>1, ConcatProperties
<1>2. Len(qs) = Len(ps) + 1 /\ qs[1] = p /\ \A i \in 1 .. Len(ps) : qs[i + 1] = ps[i]
  BY <1>1
<1>3. Codes(qs) = <<Encode(p)>> \o Codes(ps)
  <2>1. PICK c \in Seq(Seq(Octets)) : c = Codes(ps)
    BY CodesType
  <2>2. Len(c) = Len(ps) /\ \A i \in 1 .. Len(ps) : c[i] = Encode(ps[i])
    BY <2>1, CodesType
  <2>3. PICK e \in Seq(Octets) : e = Encode(p)
    BY EncodeType
  <2>4. PICK t \in Seq(Seq(Octets)) : t = <<e>> \o c
    <3>1. <<e>> \in Seq(Seq(Octets))
      OBVIOUS
    <3> QED  BY <3>1, ConcatProperties
  <2>5. Len(t) = Len(ps) + 1 /\ t[1] = e /\ \A i \in 1 .. Len(ps) : t[i + 1] = c[i]
    BY <2>2, <2>4
  <2>6. Len(Codes(qs)) = Len(ps) + 1 /\ \A i \in 1 .. Len(ps) + 1 : Codes(qs)[i] = Encode(qs[i])
    BY <1>2, CodesType
  <2>7. \A i \in 1 .. Len(ps) + 1 : i = 1 \/ \E j \in 1 .. Len(ps) : i = j + 1
    <3> TAKE i \in 1 .. Len(ps) + 1
    <3>1. i = 1 \/ (i - 1 \in 1 .. Len(ps) /\ i = (i - 1) + 1)
      OBVIOUS
    <3> QED  BY <3>1
  <2>8. \A i \in 1 .. Len(ps) + 1 : Codes(qs)[i] = t[i]
    BY <1>2, <2>2, <2>3, <2>5, <2>6, <2>7
  <2>9. Codes(qs) = t
    BY <2>5, <2>6, <2>8, CodesType, SeqEqual
  <2> QED  BY <2>1, <2>3, <2>4, <2>9
<1>4. FlattenSeq(<<Encode(p)>> \o Codes(ps)) = Encode(p) \o FlattenSeq(Codes(ps))
  BY CodesType, EncodeType, FlattenCons
<1> QED  BY <1>1, <1>3, <1>4 DEF Encoded, Codes

LEMMA FittingAppend ==
  ASSUME NEW ps \in Seq(Messages), NEW p \in Messages
  PROVE  Fitting(Append(ps, p)) = IF Fits(p) THEN Append(Fitting(ps), p) ELSE Fitting(ps)
<1>1. PICK qs \in Seq(Messages) : qs = Append(ps, p)
  BY AppendProperties
<1>2. Len(qs) = Len(ps) + 1 /\ qs[Len(ps) + 1] = p /\ \A i \in 1 .. Len(ps) : qs[i] = ps[i]
  BY <1>1, AppendProperties
<1>3. PICK e \in Seq(Messages) : e = KeptOf(p)
  <2>1. KeptOf(p) \in Seq(Messages)
    BY EmptySeq DEF KeptOf
  <2> QED  BY <2>1
<1>4. Kept(qs) = Append(Kept(ps), e)
  <2>1. PICK t \in Seq(Seq(Messages)) : t = Append(Kept(ps), e)
    BY KeptType, AppendProperties
  <2>2. Len(t) = Len(ps) + 1 /\ t[Len(ps) + 1] = e
        /\ \A i \in 1 .. Len(ps) : t[i] = KeptOf(ps[i])
    BY <2>1, KeptType, AppendProperties
  <2>3. Len(Kept(qs)) = Len(ps) + 1 /\ \A i \in 1 .. Len(ps) + 1 : Kept(qs)[i] = KeptOf(qs[i])
    BY <1>2, KeptType
  <2>4. \A i \in 1 .. Len(ps) + 1 : i = Len(ps) + 1 \/ i \in 1 .. Len(ps)
    OBVIOUS
  <2>5. \A i \in 1 .. Len(ps) + 1 : Kept(qs)[i] = t[i]
    BY <1>2, <1>3, <2>2, <2>3, <2>4
  <2> QED  BY <2>1, <2>2, <2>3, <2>5, KeptType, SeqEqual
<1>5. PICK f \in Seq(Messages) : f = FlattenSeq(Kept(ps))
  BY KeptType, FlattenType
<1>6. FlattenSeq(Append(Kept(ps), e)) = f \o e
  BY <1>5, KeptType, FlattenAppend
<1>7. Fitting(qs) = f \o e /\ Fitting(ps) = f
  BY <1>4, <1>5, <1>6 DEF Fitting, Kept
<1>8. f \o <<p>> = Append(f, p) /\ f \o <<>> = f
  BY AppendIsConcat, ConcatEmptySeq
<1> QED  BY <1>1, <1>3, <1>7, <1>8 DEF KeptOf

LEMMA NothingSent == Encoded(<<>>) = <<>> /\ Fitting(<<>>) = <<>>
<1>1. <<>> \in Seq(Messages) /\ Len(<<>>) = 0
  BY EmptySeq
<1>2. Codes(<<>>) = <<>> /\ Kept(<<>>) = <<>>
  BY <1>1, CodesType, KeptType, EmptySeq
<1> QED  BY <1>2, FlattenEmpty DEF Encoded, Codes, Fitting, Kept

-----------------------------------------------------------------------------
(* Sequences that are cut and put together *)

LEMMA SameSplit ==
  ASSUME NEW S, NEW s \in Seq(S), NEW t \in Seq(S), NEW u \in Seq(S), NEW v \in Seq(S),
         s \o t = u \o v, Len(s) = Len(u)
  PROVE  s = u /\ t = v
<1>1. /\ Len(s \o t) = Len(s) + Len(t) /\ Len(u \o v) = Len(u) + Len(v)
      /\ \A i \in 1 .. Len(s) + Len(t) : (s \o t)[i] = IF i <= Len(s) THEN s[i] ELSE t[i - Len(s)]
      /\ \A i \in 1 .. Len(u) + Len(v) : (u \o v)[i] = IF i <= Len(u) THEN u[i] ELSE v[i - Len(u)]
  BY ConcatProperties
<1>2. Len(s) \in Nat /\ Len(t) \in Nat /\ Len(v) \in Nat /\ Len(t) = Len(v)
  BY <1>1
<1>3. \A i \in 1 .. Len(s) : s[i] = u[i]
  BY <1>1, <1>2
<1>4. \A i \in 1 .. Len(t) : t[i] = v[i]
  <2> SUFFICES ASSUME NEW i \in 1 .. Len(t) PROVE t[i] = v[i]
    OBVIOUS
  <2>1. PICK j \in Nat : j = Len(s) + i
    BY <1>2
  <2>2. j \in 1 .. Len(s) + Len(t) /\ ~ (j <= Len(s)) /\ j - Len(s) = i
    BY <1>2, <2>1
  <2> QED  BY <1>1, <1>2, <2>2
<1> QED  BY <1>2, <1>3, <1>4, SeqEqual

Grouped(s, t, u) == (s \o t) \o u = s \o (t \o u)

LEMMA Grouping ==
  ASSUME NEW S, NEW s \in Seq(S), NEW t \in Seq(S), NEW u \in Seq(S)
  PROVE  Grouped(s, t, u)
BY ConcatAssociative DEF Grouped

LEMMA CutInTwo ==
  ASSUME NEW S, NEW s \in Seq(S), NEW n \in 0 .. Len(s)
  PROVE  /\ SubSeq(s, 1, n) \in Seq(S) /\ Len(SubSeq(s, 1, n)) = n
         /\ SubSeq(s, n + 1, Len(s)) \in Seq(S) /\ Len(SubSeq(s, n + 1, Len(s))) = Len(s) - n
         /\ s = SubSeq(s, 1, n) \o SubSeq(s, n + 1, Len(s))
<1>1. Len(s) \in Nat
  OBVIOUS
<1>2. SubSeq(s, 1, n) \in Seq(S) /\ Len(SubSeq(s, 1, n)) = n
  BY <1>1, SubSeqProperties
<1>3. SubSeq(s, n + 1, Len(s)) \in Seq(S) /\ Len(SubSeq(s, n + 1, Len(s))) = Len(s) - n
  BY <1>1, SubSeqProperties
<1>4. SubSeq(s, 1, n) \o SubSeq(s, n + 1, Len(s)) = SubSeq(s, 1, Len(s))
  <2>1. /\ 1 \in 1 .. Len(s) + 1 /\ n \in 1 - 1 .. Len(s) /\ Len(s) \in n .. Len(s)
    BY <1>1
  <2> QED  BY <2>1, ConcatAdjacentSubSeq
<1>5. SubSeq(s, 1, Len(s)) = s
  BY SubSeqFull
<1> QED  BY <1>2, <1>3, <1>4, <1>5

\* Octets that are read leave the stream and come behind those read before.
MovesOver(S, g, s, n) ==
  \E o \in Seq(S), t \in Seq(S) :
    /\ o = g \o SubSeq(s, 1, n) /\ t = SubSeq(s, n + 1, Len(s))
    /\ Len(o) = Len(g) + n /\ o \o t = g \o s

LEMMA Moved ==
  ASSUME NEW S, NEW g \in Seq(S), NEW s \in Seq(S), NEW n \in 0 .. Len(s)
  PROVE  MovesOver(S, g, s, n)
<1>1. PICK a \in Seq(S), b \in Seq(S) :
         a = SubSeq(s, 1, n) /\ b = SubSeq(s, n + 1, Len(s)) /\ Len(a) = n /\ s = a \o b
  <2> DEFINE a == SubSeq(s, 1, n)
             b == SubSeq(s, n + 1, Len(s))
  <2>1. a \in Seq(S) /\ b \in Seq(S) /\ Len(a) = n /\ s = a \o b
    BY CutInTwo
  <2> HIDE DEF a, b
  <2>2. \E x \in Seq(S), y \in Seq(S) : x = a /\ y = b /\ Len(x) = n /\ s = x \o y
    BY <2>1
  <2> QED  BY <2>2 DEF a, b
<1>2. (g \o a) \o b = g \o (a \o b)
  BY Associative
<1>3. g \o a \in Seq(S) /\ Len(g \o a) = Len(g) + n
  BY <1>1, ConcatProperties
<1>4. \E o \in Seq(S), t \in Seq(S) : o = g \o a /\ t = b /\ Len(o) = Len(g) + n /\ o \o t = g \o s
  BY <1>1, <1>2, <1>3
<1> QED  BY <1>1, <1>4 DEF MovesOver

\* What is read is the front of what was expected.
IsPortion(S, o, t, r, e) == \E q \in Seq(S) : Len(q) = Len(r) - Len(o) /\ t = q \o e

LEMMA Portion ==
  ASSUME NEW S, NEW o \in Seq(S), NEW t \in Seq(S), NEW r \in Seq(S), NEW e \in Seq(S),
         o \o t = r \o e, Len(o) <= Len(r)
  PROVE  IsPortion(S, o, t, r, e)
<1>1. PICK a \in Seq(S), q \in Seq(S) : Len(a) = Len(o) /\ Len(q) = Len(r) - Len(o) /\ r = a \o q
  <2>1. PICK n \in 0 .. Len(r) : n = Len(o)
    OBVIOUS
  <2> DEFINE a == SubSeq(r, 1, n)
             b == SubSeq(r, n + 1, Len(r))
  <2>2. a \in Seq(S) /\ b \in Seq(S) /\ Len(a) = n /\ Len(b) = Len(r) - n /\ r = a \o b
    BY CutInTwo
  <2> HIDE DEF a, b
  <2> QED  BY <2>1, <2>2
<1>2. PICK v \in Seq(S) : v = q \o e
  BY ConcatProperties
<1>3. (a \o q) \o e = a \o (q \o e)
  <2>1. Grouped(a, q, e)
    BY Grouping, Zenon
  <2> QED  BY <2>1 DEF Grouped
<1>4. o = a /\ t = v
  <2>1. o \o t = a \o v
    BY <1>1, <1>2, <1>3
  <2> QED  BY <1>1, <2>1, SameSplit
<1> QED  BY <1>1, <1>2, <1>4 DEF IsPortion

-----------------------------------------------------------------------------
(* The inductive invariant *)

\* What is left of a packet that is thrown away is chunks full buffers and less than
\* one more.
Remaining == at = "skip" => chunks * RecvSize <= len /\ len < (chunks + 1) * RecvSize

BodyFits == at = "body" => cnt + 1 + len <= RecvSize

\* The variables of umqtt_handle_readpacket, and the others.
ReaderOK ==
  /\ head \in Octets /\ got \in Seq(Octets)
  /\ at \in {"header", "length", "body", "skip"}
  /\ cnt \in 0 .. MaxLenOctets /\ len \in Nat /\ mult \in Nat /\ chunks \in Nat
  /\ BodyFits /\ Remaining
SurroundOK ==
  /\ stream \in Seq(Octets)
  /\ slow \in 0 .. MaxSlow /\ ends \in 0 .. MaxEnds
  /\ sent \in Seq(Messages)
FlagsOK == ended \in BOOLEAN /\ slipped \in BOOLEAN
HandledOK == handled \in Seq([type : Octets, body : Seq(Octets)])

IInv == ReaderOK /\ SurroundOK /\ FlagsOK /\ HandledOK

LEMMA Constants ==
  /\ Base \in Nat \ {0} /\ MaxLenOctets \in Nat \ {0}
  /\ RecvSize \in Nat \ {0} /\ RecvSize > MaxLenOctets
  /\ MaxPackets \in Nat /\ MaxSlow \in Nat /\ MaxEnds \in Nat
  /\ Octets \subseteq Nat /\ 0 \in Octets
BY FramingAssumption DEF Octets

LEMMA NextPacketOK ==
  ASSUME ReaderOK, NextPacket
  PROVE  ReaderOK'
<1>1. <<>> \in Seq(Octets)
  BY EmptySeq
<1> QED  BY <1>1 DEF ReaderOK, NextPacket, BodyFits, Remaining

LEMMA ChunkEndsOK ==
  ASSUME ReaderOK, at = "skip", ChunkEnds
  PROVE  ReaderOK'
<1>1. got' \in Seq(Octets) /\ head' \in Octets /\ cnt' \in 0 .. MaxLenOctets /\ mult' \in Nat
  BY EmptySeq DEF ReaderOK, ChunkEnds
<1>2. CASE chunks = 0
  BY <1>1, <1>2 DEF ReaderOK, ChunkEnds, BodyFits, Remaining
<1>3. CASE chunks # 0
  <2>1. /\ len - RecvSize \in Nat /\ chunks - 1 \in Nat
        /\ (chunks - 1) * RecvSize <= len - RecvSize /\ len - RecvSize < chunks * RecvSize
    BY <1>3, Constants, OneBufferLess DEF ReaderOK, Remaining
  <2>2. at' = "skip" /\ chunks' = chunks - 1 /\ len' = len - RecvSize
    BY <1>3 DEF ChunkEnds
  <2>3. chunks' + 1 = chunks
    BY <2>1, <2>2 DEF ReaderOK
  <2> QED  BY <1>1, <2>1, <2>2, <2>3 DEF ReaderOK, BodyFits, Remaining
<1> QED  BY <1>2, <1>3

LEMMA LengthOctetOK ==
  ASSUME ReaderOK, at = "length", NEW o \in Octets, LengthOctet(o)
  PROVE  ReaderOK' /\ (handled' = handled \/ handled' = Append(handled, [type |-> head, body |-> <<>>]))
<1> DEFINE n == len + ((o % Base) * mult)
<1>1. n \in Nat
  BY Constants DEF ReaderOK
<1>2. got' \in Seq(Octets) /\ head' \in Octets
  BY EmptySeq DEF ReaderOK, LengthOctet
<1>3. CASE o < Base
  <2>1. BodyOf(n)
    BY <1>3 DEF LengthOctet
  <2> HIDE DEF n
  <2>2. len' = n /\ cnt' \in 0 .. MaxLenOctets /\ mult' \in Nat /\ cnt' = cnt
    BY <2>1 DEF BodyOf, ReaderOK
  <2>3. CASE TooLong(n)
    <3>1. at' = "skip" /\ chunks' = n \div RecvSize /\ handled' = handled
      BY <2>1, <2>3 DEF BodyOf
    <3>2. /\ n \div RecvSize \in Nat /\ (n \div RecvSize) * RecvSize <= n
          /\ n < (n \div RecvSize + 1) * RecvSize
      BY <1>1, Constants, Division
    <3> QED  BY <1>1, <1>2, <2>2, <3>1, <3>2 DEF ReaderOK, BodyFits, Remaining
  <2>4. CASE ~ TooLong(n)
    <3>1. /\ chunks' = chunks
          /\ \/ at' = "header" /\ handled' = Append(handled, [type |-> head, body |-> <<>>])
             \/ at' = "body" /\ handled' = handled
      BY <2>1, <2>4 DEF BodyOf, Handle
    <3>2. cnt + 1 + n <= RecvSize
      BY <1>1, <2>4, Constants DEF TooLong, ReaderOK
    <3> QED  BY <1>1, <1>2, <2>2, <3>1, <3>2 DEF ReaderOK, BodyFits, Remaining
  <2> QED  BY <2>3, <2>4
<1>4. CASE ~ (o < Base)
  <2>1. /\ len' = n /\ mult' = mult * Base /\ chunks' = chunks /\ handled' = handled
        /\ IF cnt >= MaxLenOctets THEN at' = "header" /\ cnt' = cnt
                                  ELSE at' = "length" /\ cnt' = cnt + 1
    BY <1>4 DEF LengthOctet, Weight, NoMoreOctets
  <2> HIDE DEF n
  <2>2. mult' \in Nat
    BY <2>1, Constants DEF ReaderOK
  <2>3. cnt' \in 0 .. MaxLenOctets
    BY <2>1, Constants DEF ReaderOK
  <2> QED  BY <1>1, <1>2, <2>1, <2>2, <2>3 DEF ReaderOK, BodyFits, Remaining
<1> QED  BY <1>3, <1>4

LEMMA HandleOK ==
  ASSUME ReaderOK, HandledOK, NEW body \in Seq(Octets),
         handled' = Append(handled, [type |-> head, body |-> body])
  PROVE  HandledOK'
<1>1. [type |-> head, body |-> body] \in [type : Octets, body : Seq(Octets)]
  BY DEF ReaderOK
<1> QED  BY <1>1, AppendProperties DEF HandledOK

LEMMA Cut ==
  ASSUME NEW s \in Seq(Octets), NEW n \in 1 .. Len(s)
  PROVE  SubSeq(s, 1, n) \in Seq(Octets) /\ SubSeq(s, n + 1, Len(s)) \in Seq(Octets)
OBVIOUS

-----------------------------------------------------------------------------
(* One lemma per action *)

LEMMA RecvOK ==
  ASSUME IInv, NEW n \in 1 .. RecvSize, Recv(n)
  PROVE  IInv'
<1> DEFINE octets == got \o SubSeq(stream, 1, n)
<1>1. n \in 1 .. Len(stream) /\ stream \in Seq(Octets) /\ got \in Seq(Octets)
  BY DEF Recv, IInv, ReaderOK, SurroundOK
<1>2. SubSeq(stream, 1, n) \in Seq(Octets) /\ stream' \in Seq(Octets)
  BY <1>1, Cut DEF Recv
<1>3. octets \in Seq(Octets)
  BY <1>1, <1>2, ConcatProperties
<1>4. /\ at # "header"
      /\ \/ /\ Len(octets) = Want /\ Complete(octets)
            /\ slow' = slow /\ slipped' = slipped
         \/ /\ got' = octets /\ UNCHANGED <<at, head, cnt, len, mult, chunks, handled>>
            /\ slow' = slow /\ slipped' = slipped
         \/ /\ slow > 0 /\ slow' = slow - 1 /\ slipped' = TRUE /\ handled' = handled
            /\ IF at = "skip" THEN ChunkEnds ELSE NextPacket
      /\ ended' = ended /\ ends' = ends /\ sent' = sent
  BY DEF Recv
<1>5. ReaderOK /\ SurroundOK /\ FlagsOK /\ HandledOK
  BY DEF IInv
<1> HIDE DEF octets
<1>6. FlagsOK'
  BY <1>4, <1>5 DEF FlagsOK
<1>7. slow' \in 0 .. MaxSlow
  BY <1>4, <1>5, Constants DEF SurroundOK
<1>8. SurroundOK'
  BY <1>2, <1>4, <1>5, <1>7 DEF SurroundOK
<1>9. ReaderOK' /\ HandledOK'
  <2>1. CASE at = "length" /\ Len(octets) = Want /\ Complete(octets)
    <3>1. octets[1] \in Octets /\ LengthOctet(octets[1])
      BY <2>1, <1>3 DEF Complete, Want
    <3>2. /\ ReaderOK'
          /\ \/ handled' = handled
             \/ handled' = Append(handled, [type |-> head, body |-> <<>>])
      BY <2>1, <3>1, <1>5, LengthOctetOK
    <3>3. HandledOK'
      BY <3>2, <1>5, HandleOK, EmptySeq DEF HandledOK
    <3> QED  BY <3>2, <3>3
  <2>2. CASE at = "body" /\ Complete(octets)
    <3>1. NextPacket /\ handled' = Append(handled, [type |-> head, body |-> octets])
      BY <2>2 DEF Complete, Handle
    <3> QED  BY <3>1, <1>3, <1>5, NextPacketOK, HandleOK
  <2>3. CASE at = "skip" /\ Complete(octets)
    <3>1. ChunkEnds /\ handled' = handled
      BY <2>3 DEF Complete
    <3> QED  BY <2>3, <3>1, <1>5, ChunkEndsOK DEF HandledOK
  <2>4. CASE got' = octets /\ UNCHANGED <<at, head, cnt, len, mult, chunks, handled>>
    BY <2>4, <1>3, <1>5 DEF ReaderOK, HandledOK, BodyFits, Remaining
  <2>5. CASE handled' = handled /\ (IF at = "skip" THEN ChunkEnds ELSE NextPacket)
    BY <2>5, <1>5, ChunkEndsOK, NextPacketOK DEF HandledOK
  <2> QED  BY <1>4, <1>5, <2>1, <2>2, <2>3, <2>4, <2>5 DEF ReaderOK
<1> QED  BY <1>6, <1>8, <1>9 DEF IInv

LEMMA ReadHeaderOK ==
  ASSUME IInv, ReadHeader
  PROVE  IInv'
<1>1. Head(stream) \in Octets /\ Tail(stream) \in Seq(Octets)
  BY HeadTailProperties DEF IInv, SurroundOK, ReadHeader
<1>2. FlagsOK' /\ HandledOK' /\ SurroundOK'
  BY <1>1 DEF IInv, SurroundOK, FlagsOK, HandledOK, ReadHeader, history
<1>3. ReaderOK'
  BY <1>1, EmptySeq, Constants DEF IInv, ReaderOK, ReadHeader, BodyFits, Remaining
<1> QED  BY <1>2, <1>3 DEF IInv

LEMMA ReadEndsOK ==
  ASSUME IInv, NothingToSkip \/ RecvFails
  PROVE  IInv'
<1>1. ReaderOK /\ ((at = "skip" /\ ChunkEnds) \/ NextPacket)
  BY DEF IInv, NothingToSkip, RecvFails
<1>2. ReaderOK'
  BY <1>1, ChunkEndsOK, NextPacketOK
<1>3. FlagsOK' /\ HandledOK' /\ SurroundOK'
  BY DEF IInv, SurroundOK, FlagsOK, HandledOK, NothingToSkip, RecvFails, history
<1> QED  BY <1>2, <1>3 DEF IInv

LEMMA ReconnectOK ==
  ASSUME IInv, Reconnect
  PROVE  IInv'
<1>1. ReaderOK'
  BY NextPacketOK DEF IInv, Reconnect
<1>2. FlagsOK' /\ HandledOK' /\ SurroundOK'
  BY EmptySeq DEF IInv, SurroundOK, FlagsOK, HandledOK, Reconnect
<1> QED  BY <1>1, <1>2 DEF IInv

LEMMA ReaderKept ==
  ASSUME ReaderOK, UNCHANGED reader
  PROVE  ReaderOK'
BY DEF ReaderOK, reader, BodyFits, Remaining

LEMMA BrokerSendsOK ==
  ASSUME IInv, NEW p \in Messages, BrokerSends(p)
  PROVE  IInv'
<1>1. stream' \in Seq(Octets)
  BY EncodeType, ConcatProperties DEF IInv, SurroundOK, BrokerSends
<1>2. sent' \in Seq(Messages)
  BY AppendProperties DEF IInv, SurroundOK, BrokerSends
<1>3. FlagsOK' /\ HandledOK' /\ SurroundOK'
  BY <1>1, <1>2 DEF IInv, SurroundOK, FlagsOK, HandledOK, BrokerSends
<1> QED  BY <1>3, ReaderKept DEF IInv, BrokerSends

LEMMA ConnectionEndsOK ==
  ASSUME IInv, ConnectionEnds
  PROVE  IInv'
<1>1. PICK n \in 0 .. Len(stream) : stream' = SubSeq(stream, 1, n)
  BY DEF ConnectionEnds
<1>2. stream' \in Seq(Octets)
  BY <1>1 DEF IInv, SurroundOK
<1>3. ends' \in 0 .. MaxEnds
  BY Constants DEF IInv, SurroundOK, ConnectionEnds
<1>4. FlagsOK' /\ HandledOK' /\ SurroundOK'
  BY <1>2, <1>3 DEF IInv, SurroundOK, FlagsOK, HandledOK, ConnectionEnds, history
<1> QED  BY <1>4, ReaderKept DEF IInv, ConnectionEnds

-----------------------------------------------------------------------------
(* The theorems *)

LEMMA Initially == Init => IInv
<1> SUFFICES ASSUME Init PROVE IInv
  OBVIOUS
<1>1. ReaderOK
  BY EmptySeq, Constants DEF Init, ReaderOK, BodyFits, Remaining
<1>2. SurroundOK
  BY EmptySeq, Constants DEF Init, SurroundOK
<1>3. FlagsOK
  BY DEF Init, FlagsOK
<1>4. HandledOK
  BY EmptySeq DEF Init, HandledOK
<1> QED  BY <1>1, <1>2, <1>3, <1>4 DEF IInv

LEMMA StepKeeps == IInv /\ [Next]_vars => IInv'
<1> SUFFICES ASSUME IInv, [Next]_vars PROVE IInv'
  OBVIOUS
<1>1. CASE UmqttThread
  BY <1>1, ReadHeaderOK, RecvOK, ReadEndsOK, ReconnectOK DEF UmqttThread
<1>2. CASE ConnectionEnds
  BY <1>2, ConnectionEndsOK
<1>3. ASSUME NEW p \in Messages, BrokerSends(p)
      PROVE  IInv'
  BY <1>3, BrokerSendsOK
<1>4. CASE UNCHANGED vars
  <2>1. ReaderOK'
    BY <1>4, ReaderKept DEF IInv, vars
  <2>2. FlagsOK' /\ HandledOK' /\ SurroundOK'
    BY <1>4 DEF IInv, SurroundOK, FlagsOK, HandledOK, vars, history
  <2> QED  BY <2>1, <2>2 DEF IInv
<1> QED  BY <1>1, <1>2, <1>3, <1>4 DEF Next

LEMMA Invariant == Spec => []IInv
<1> QED  BY Initially, StepKeeps, PTL DEF Spec

\* Type correctness of the model of umqtt_handle_readpacket: there are never more
\* length octets than the limit, and lengths and counters do not fall below 0.
THEOREM TypeCorrect == Spec => []TypeOK
<1>1. IInv => TypeOK
  BY DEF IInv, ReaderOK, SurroundOK, FlagsOK, HandledOK, TypeOK
<1> QED  BY <1>1, Invariant, PTL

\* Whatever octets come, in whatever portions, in or out of step, no read of
\* umqtt_handle_readpacket goes past the end of recv_buf: the buffer holds more than
\* the length octets, a body is read only if it fits, and what is thrown away is read
\* in portions of the buffer.
THEOREM ReadsInsideBuffer == Spec => []InsideBuffer
<1>1. IInv => InsideBuffer
  <2> SUFFICES ASSUME IInv PROVE InsideBuffer
    OBVIOUS
  <2>1. at = "length" => cnt < RecvSize
    BY Constants DEF IInv, ReaderOK
  <2>2. at = "body" => cnt + 1 + len <= RecvSize
    BY DEF IInv, ReaderOK, BodyFits
  <2>3. at = "skip" => Want <= RecvSize
    BY Constants DEF IInv, ReaderOK, Remaining, Want
  <2> QED  BY <2>1, <2>2, <2>3 DEF InsideBuffer
<1> QED  BY <1>1, Invariant, PTL

-----------------------------------------------------------------------------
(* In step *)
First(k) == SubSeq(sent, 1, k)
Rest(k) == SubSeq(sent, k + 1, Len(sent))

\* In the packet p, of which the octets r are still to come after those of got: of
\* the length those of m, whose weight is mult.
InLength(p, r) ==
  /\ at = "length" /\ got = <<>>
  /\ \E m \in Nat : /\ len + mult * m = Len(p.body)
                    /\ r = LenOctets[m] \o p.body
                    /\ cnt + Len(LenOctets[m]) = 1 + Len(LenOctets[Len(p.body)])
InBody(p, r) == at = "body" /\ Fits(p) /\ r = p.body /\ len = Len(r) /\ Len(got) <= len
InSkip(p, r) == at = "skip" /\ ~ Fits(p) /\ len = Len(r) /\ Len(got) <= Want

\* The k packets up to the one that it stands behind, or in.
Standing(k, r) ==
  /\ got \o stream = r \o Encoded(Rest(k))
  /\ \/ at = "header" /\ got = <<>> /\ r = <<>> /\ handled = Fitting(First(k))
     \/ /\ k > 0 /\ head = sent[k].type /\ handled = Fitting(First(k - 1))
        /\ InLength(sent[k], r) \/ InBody(sent[k], r) \/ InSkip(sent[k], r)

LEMMA Sent ==
  ASSUME IInv, NEW k \in 0 .. Len(sent)
  PROVE  /\ First(k) \in Seq(Messages) /\ Rest(k) \in Seq(Messages)
         /\ Encoded(Rest(k)) \in Seq(Octets)
         /\ k > 0 => /\ sent[k] \in Messages
                     /\ Fitting(First(k)) = IF Fits(sent[k]) THEN Append(Fitting(First(k - 1)), sent[k])
                                            ELSE Fitting(First(k - 1))
         /\ k < Len(sent) => Encoded(Rest(k)) = Encode(sent[k + 1]) \o Encoded(Rest(k + 1))
<1>1. sent \in Seq(Messages) /\ Len(sent) \in Nat
  BY DEF IInv, SurroundOK
<1>2. First(k) \in Seq(Messages) /\ Rest(k) \in Seq(Messages)
  BY <1>1, CutInTwo DEF First, Rest
<1>3. ASSUME k > 0
      PROVE  /\ sent[k] \in Messages
             /\ Fitting(First(k)) = IF Fits(sent[k]) THEN Append(Fitting(First(k - 1)), sent[k])
                                    ELSE Fitting(First(k - 1))
  <2>1. k \in 1 .. Len(sent) /\ 1 \in 1 .. Len(sent) /\ k \in 1 .. Len(sent) /\ k - 1 \in 0 .. Len(sent)
    BY <1>1, <1>3
  <2>2. sent[k] \in Messages
    BY <1>1, <2>1
  <2>3. First(k - 1) \in Seq(Messages)
    BY <1>1, <2>1, CutInTwo DEF First
  <2>4. First(k) = First(k - 1) \o <<sent[k]>>
    BY <1>1, <2>1, SubSeqRecursiveSecond DEF First
  <2>5. First(k) = Append(First(k - 1), sent[k])
    BY <2>2, <2>3, <2>4, AppendIsConcat
  <2> QED  BY <2>2, <2>3, <2>5, FittingAppend
<1>4. ASSUME k < Len(sent)
      PROVE  Encoded(Rest(k)) = Encode(sent[k + 1]) \o Encoded(Rest(k + 1))
  <2>1. k + 1 \in 1 .. Len(sent) /\ k + 1 \in 0 .. Len(sent) /\ Len(sent) \in k + 1 .. Len(sent)
    BY <1>1, <1>4
  <2>2. sent[k + 1] \in Messages /\ Rest(k + 1) \in Seq(Messages)
    BY <1>1, <2>1, CutInTwo DEF Rest
  <2>3. Rest(k) = <<sent[k + 1]>> \o Rest(k + 1)
    BY <1>1, <2>1, SubSeqRecursiveFirst DEF Rest
  <2> QED  BY <2>2, <2>3, EncodedCons
<1> QED  BY <1>2, <1>3, <1>4, EncodedType

Distributes(l, u, m, d, e, b) == (l + (e * u)) + (u * b) * d = l + u * m

LEMMA Distributed ==
  ASSUME NEW l \in Nat, NEW u \in Nat, NEW m \in Nat, NEW d \in Nat, NEW e \in Nat, NEW b \in Nat,
         m = d * b + e
  PROVE  Distributes(l, u, m, d, e, b)
<1>1. u * m = u * (d * b) + u * e
  OBVIOUS
<1>2. u * (d * b) = (u * b) * d /\ u * e = e * u
  OBVIOUS
<1>3. u * (d * b) \in Nat /\ u * e \in Nat
  OBVIOUS
<1> QED  BY <1>1, <1>2, <1>3 DEF Distributes

\* The octets to come are those of the packet it reads, and of the packets after it.
Follows == \E k \in 0 .. Len(sent) : \E r \in Seq(Octets) : Standing(k, r)

LEMMA ReadHeaderFollows ==
  ASSUME IInv, Follows, ReadHeader
  PROVE  Follows'
<1>1. PICK k \in 0 .. Len(sent), r \in Seq(Octets) : Standing(k, r)
  BY DEF Follows
<1>2. /\ at = "header" /\ stream # <<>> /\ sent' = sent /\ handled' = handled
      /\ at' = "length" /\ got' = <<>> /\ cnt' = 1 /\ len' = 0 /\ mult' = 1
      /\ head' = Head(stream) /\ stream' = Tail(stream)
  BY DEF ReadHeader, history
<1>3. sent \in Seq(Messages) /\ Len(sent) \in Nat /\ stream \in Seq(Octets)
  BY DEF IInv, SurroundOK
<1>4. stream = Encoded(Rest(k)) /\ handled = Fitting(First(k))
  <2>1. got = <<>> /\ r = <<>> /\ handled = Fitting(First(k)) /\ got \o stream = r \o Encoded(Rest(k))
    BY <1>1, <1>2 DEF Standing, InLength, InBody, InSkip
  <2>2. <<>> \o stream = stream /\ <<>> \o Encoded(Rest(k)) = Encoded(Rest(k))
    BY <1>3, Sent, ConcatEmptySeq
  <2> QED  BY <2>1, <2>2
<1>5. k < Len(sent)
  <2> SUFFICES ASSUME k = Len(sent) PROVE FALSE
    BY <1>3
  <2>1. Rest(k) = <<>>
    BY <1>3, SubSeqEmpty DEF Rest
  <2> QED  BY <1>2, <1>4, <2>1, NothingSent
<1>6. PICK p \in Messages : p = sent[k + 1]
  BY <1>3, <1>5
<1>7. PICK d \in Seq(Octets), b \in Seq(Octets), e \in Seq(Octets), c \in Seq(Octets) :
         /\ d = LenOctets[Len(p.body)] /\ b = p.body /\ e = Encoded(Rest(k + 1)) /\ c = d \o b
  <2>1. LenOctets[Len(p.body)] \in Seq(Octets) /\ p.body \in Seq(Octets)
    BY MessageType, LenOctetsType
  <2>2. Encoded(Rest(k + 1)) \in Seq(Octets)
    BY <1>3, <1>5, Sent
  <2>3. LenOctets[Len(p.body)] \o p.body \in Seq(Octets)
    BY <2>1, ConcatProperties
  <2> QED  BY <2>1, <2>2, <2>3
<1>8. PICK h \in Seq(Octets) : h = <<p.type>> /\ Len(h) = 1 /\ h[1] = p.type
  <2>1. PICK x \in Octets : x = p.type
    BY MessageType
  <2>2. <<x>> \in Seq(Octets) /\ Len(<<x>>) = 1 /\ <<x>>[1] = x
    OBVIOUS
  <2> QED  BY <2>1, <2>2
<1>9. stream = (h \o c) \o e
  BY <1>3, <1>4, <1>5, <1>6, <1>7, <1>8, Sent, EncodeType
<1>10. stream = h \o (c \o e)
  <2>1. Grouped(h, c, e)
    BY Grouping, Zenon
  <2> QED  BY <1>9, <2>1 DEF Grouped
<1>11. Head(stream) = p.type /\ Tail(stream) = c \o e
  <2>1. PICK t \in Seq(Octets) : t = c \o e
    BY ConcatProperties
  <2>2. stream[1] = p.type
    BY <1>8, <1>10, <2>1, ConcatProperties
  <2>3. Tail(stream) \in Seq(Octets) /\ stream = <<Head(stream)>> \o Tail(stream)
    BY <1>2, <1>3
  <2>4. Head(stream) = p.type
    BY <2>2
  <2>5. PICK s \in Seq(Octets) : s = Tail(stream)
    BY <2>3
  <2>6. h \o s = h \o t
    BY <1>8, <1>10, <2>1, <2>3, <2>4, <2>5
  <2> QED  BY <2>1, <2>4, <2>5, <2>6, SameSplit
<1>12. InLength(p, c)'
  <2>1. Len(p.body) \in Nat /\ Len(d) \in Nat
    BY MessageType
  <2>2. 0 + 1 * Len(p.body) = Len(p.body)
    BY <2>1
  <2> QED  BY <1>2, <1>7, <2>1, <2>2 DEF InLength
<1>13. (k + 1) \in Nat /\ k + 1 > 0 /\ k + 1 <= Len(sent) /\ (k + 1) - 1 = k
  BY <1>3, <1>5
<1>14. <<>> \o (c \o e) = c \o e
  <2>1. PICK t \in Seq(Octets) : t = c \o e
    BY ConcatProperties
  <2> QED  BY <2>1, ConcatEmptySeq
<1>15. Standing(k + 1, c)'
  <2>1. Rest(k + 1)' = Rest(k + 1) /\ First(k)' = First(k)
    BY <1>2 DEF Rest, First
  <2>2. (got \o stream = c \o Encoded(Rest(k + 1)))'
    BY <1>2, <1>7, <1>11, <1>14, <2>1
  <2>3. (head = sent[k + 1].type /\ handled = Fitting(First((k + 1) - 1)))'
    BY <1>2, <1>4, <1>6, <1>11, <1>13, <2>1
  <2>4. InLength(sent[k + 1], c)'
    BY <1>2, <1>6, <1>12 DEF InLength
  <2> QED  BY <1>13, <2>2, <2>3, <2>4 DEF Standing
<1>16. k + 1 \in 0 .. Len(sent')
  BY <1>2, <1>13
<1> QED  BY <1>15, <1>16 DEF Follows

LEMMA HeadOff ==
  ASSUME NEW S, NEW x \in S, NEW s, NEW t \in Seq(S), s = <<x>> \o t
  PROVE  s \in Seq(S) /\ Len(s) = 1 + Len(t) /\ s[1] = x /\ SubSeq(s, 2, Len(s)) = t
<1>1. PICK h \in Seq(S) : h = <<x>> /\ Len(h) = 1 /\ h[1] = x
  <2>1. <<x>> \in Seq(S) /\ Len(<<x>>) = 1 /\ <<x>>[1] = x
    OBVIOUS
  <2> QED  BY <2>1
<1>2. s = h \o t
  BY <1>1
<1>3. s \in Seq(S) /\ Len(s) = 1 + Len(t) /\ s[1] = x /\ 1 \in 0 .. Len(s)
  BY <1>1, <1>2, ConcatProperties
<1>4. PICK a \in Seq(S), b \in Seq(S) :
         a = SubSeq(s, 1, 1) /\ b = SubSeq(s, 1 + 1, Len(s)) /\ Len(a) = 1 /\ s = a \o b
  <2> DEFINE a == SubSeq(s, 1, 1)
             b == SubSeq(s, 1 + 1, Len(s))
  <2>1. a \in Seq(S) /\ b \in Seq(S) /\ Len(a) = 1 /\ s = a \o b
    BY <1>3, CutInTwo
  <2> HIDE DEF a, b
  <2>2. \E u \in Seq(S), v \in Seq(S) : u = a /\ v = b /\ Len(u) = 1 /\ s = u \o v
    BY <2>1
  <2> QED  BY <2>2 DEF a, b
<1>5. b = t
  BY <1>1, <1>2, <1>4, SameSplit
<1> QED  BY <1>3, <1>4, <1>5

\* The first octet of a length, and what follows it.
StartsWithLength(s, m, b, e) ==
  /\ m < Base => /\ s[1] = m /\ SubSeq(s, 2, Len(s)) = b \o e
                 /\ Len(LenOctets[m]) = 1
  /\ m >= Base => /\ s[1] = Octet(m)
                  /\ LenOctets[m \div Base] \o b \in Seq(Octets)
                  /\ SubSeq(s, 2, Len(s)) = (LenOctets[m \div Base] \o b) \o e
                  /\ Len(LenOctets[m]) = 1 + Len(LenOctets[m \div Base])
                  /\ Len(LenOctets[m \div Base]) \in Nat \ {0}

LEMMA FirstLengthOctet ==
  ASSUME NEW m \in Nat, NEW b \in Seq(Octets), NEW e \in Seq(Octets),
         NEW s, s = (LenOctets[m] \o b) \o e
  PROVE  StartsWithLength(s, m, b, e)
<1>1. CASE m < Base
  <2>1. LenOctets[m] = <<m>> /\ m \in Octets
    BY <1>1, LenOctetsDef, LengthDigit
  <2>2. PICK h \in Seq(Octets) : h = <<m>> /\ Len(h) = 1
    <3>1. <<m>> \in Seq(Octets) /\ Len(<<m>>) = 1
      BY <2>1
    <3> QED  BY <3>1
  <2>3. Grouped(h, b, e)
    BY Grouping, Zenon
  <2>4. PICK t \in Seq(Octets) : t = b \o e
    BY ConcatProperties
  <2>5. s = <<m>> \o t
    BY <2>1, <2>2, <2>3, <2>4 DEF Grouped
  <2>6. s[1] = m /\ SubSeq(s, 2, Len(s)) = t
    BY <2>1, <2>5, HeadOff
  <2> QED  BY <1>1, <2>1, <2>2, <2>4, <2>6, Bases DEF StartsWithLength
<1>2. CASE m >= Base
  <2>1. PICK x \in Octets : x = Octet(m)
    BY <1>2, LengthDigit
  <2>2. m \div Base \in Nat /\ ~ (m < Base)
    BY <1>2, Shorter, Bases
  <2>3. PICK d \in Seq(Octets) : d = LenOctets[m \div Base] /\ Len(d) # 0
    BY <2>2, LenOctetsType
  <2>4. LenOctets[m] = <<x>> \o d
    <3> HIDE DEF Octet
    <3>1. LenOctets[m] = <<Octet(m)>> \o LenOctets[m \div Base]
      BY <2>2, LenOctetsDef, Zenon
    <3> QED  BY <2>1, <2>3, <3>1
  <2>5. PICK h \in Seq(Octets) : h = <<x>> /\ Len(h) = 1
    <3>1. <<x>> \in Seq(Octets) /\ Len(<<x>>) = 1
      OBVIOUS
    <3> QED  BY <3>1
  <2>6. PICK c \in Seq(Octets) : c = d \o b
    BY ConcatProperties
  <2>7. PICK t \in Seq(Octets) : t = c \o e
    BY ConcatProperties
  <2>8. Grouped(h, d, b) /\ Grouped(h, c, e)
    BY Grouping, Zenon
  <2>9. s = <<x>> \o t
    BY <2>4, <2>5, <2>6, <2>7, <2>8 DEF Grouped
  <2>10. s[1] = x /\ SubSeq(s, 2, Len(s)) = t
    BY <2>9, HeadOff
  <2>11. Len(LenOctets[m]) = 1 + Len(d) /\ Len(d) \in Nat
    BY <2>4, <2>5, ConcatProperties
  <2> HIDE DEF Octet
  <2> QED  BY <2>1, <2>2, <2>3, <2>6, <2>7, <2>10, <2>11 DEF StartsWithLength
<1> QED  BY <1>1, <1>2, Bases

DigitOf(e) == e % Base = e /\ (Base + e) % Base = e

LEMMA DigitsOf ==
  ASSUME NEW e \in 0 .. Base - 1
  PROVE  DigitOf(e)
<1>1. ASSUME NEW b \in Nat, b > 1, e \in 0 .. b - 1
      PROVE  e % b = e /\ (b + e) % b = e
  BY <1>1
<1> QED  BY <1>1, Bases DEF DigitOf

LEMMA LengthFollows ==
  ASSUME IInv, NEW k \in 0 .. Len(sent), NEW r \in Seq(Octets), Standing(k, r), at = "length",
         stream' = SubSeq(stream, 2, Len(stream)), sent' = sent, LengthOctet(stream[1])
  PROVE  Follows'
<1>1. sent \in Seq(Messages) /\ Len(sent) \in Nat /\ stream \in Seq(Octets)
  BY DEF IInv, SurroundOK
<1>2. /\ k > 0 /\ head = sent[k].type /\ handled = Fitting(First(k - 1))
      /\ InLength(sent[k], r) /\ got = <<>> /\ got \o stream = r \o Encoded(Rest(k))
  BY DEF Standing, InLength, InBody, InSkip
<1>3. PICK p \in Messages : p = sent[k]
  BY <1>1, <1>2
<1>4. PICK b \in Seq(Octets), e \in Seq(Octets) : b = p.body /\ e = Encoded(Rest(k))
  BY <1>3, MessageType, Sent
<1>5. PICK m \in Nat : /\ len + mult * m = Len(b) /\ r = LenOctets[m] \o b
                       /\ cnt + Len(LenOctets[m]) = 1 + Len(LenOctets[Len(b)])
  BY <1>2, <1>3, <1>4 DEF InLength
<1>6. stream = (LenOctets[m] \o b) \o e
  <2>1. <<>> \o stream = stream
    BY <1>1, ConcatEmptySeq
  <2> QED  BY <1>2, <1>4, <1>5, <2>1
<1>7. len \in Nat /\ mult \in Nat /\ cnt \in Nat /\ Len(b) \in Nat
  BY Constants DEF IInv, ReaderOK
<1>8. got' = <<>> /\ head' = head
  BY DEF LengthOctet
<1>9. Rest(k)' = Rest(k) /\ First(k)' = First(k) /\ First(k - 1)' = First(k - 1)
  BY DEF Rest, First
<1>10. k \in 0 .. Len(sent')
  OBVIOUS
<1>13. /\ m < Base => /\ stream[1] = m /\ stream' = b \o e /\ Len(LenOctets[m]) = 1
       /\ m >= Base => /\ stream[1] = Octet(m)
                       /\ LenOctets[m \div Base] \o b \in Seq(Octets)
                       /\ stream' = (LenOctets[m \div Base] \o b) \o e
                       /\ Len(LenOctets[m]) = 1 + Len(LenOctets[m \div Base])
                       /\ Len(LenOctets[m \div Base]) \in Nat \ {0}
  <2>1. StartsWithLength(stream, m, b, e)
    BY <1>6, FirstLengthOctet, Zenon
  <2> HIDE DEF Octet
  <2> QED  BY <2>1 DEF StartsWithLength
<1> DEFINE o == stream[1]
           n == len + ((o % Base) * mult)
<1>11. CASE m < Base
  <2>1. /\ o = m /\ stream' = b \o e /\ Len(LenOctets[m]) = 1
    BY <1>11, <1>13
  <2>2. o % Base = m /\ o < Base
    <3>1. m \in 0 .. Base - 1
      BY <1>11, Bases
    <3>2. DigitOf(m)
      BY <3>1, DigitsOf, Zenon
    <3> QED  BY <1>11, <2>1, <3>2 DEF DigitOf
  <2>3. n = Len(b)
    BY <1>5, <1>7, <2>2
  <2>4. BodyOf(Len(b))
    <3> HIDE DEF o
    <3> QED  BY <2>2, <2>3 DEF LengthOctet, o
  <2> HIDE DEF n, o
  <2>5. cnt = Len(LenOctets[Len(b)])
    <3>1. Len(LenOctets[Len(b)]) \in Nat
      BY <1>7, LenOctetsType
    <3> QED  BY <1>5, <1>7, <2>1, <3>1
  <2>6. TooLong(Len(b)) <=> ~ Fits(p)
    <3>1. Len(Encode(p)) = 1 + cnt + Len(b)
      BY <1>3, <1>4, <2>5, EncodeType
    <3> QED  BY <1>7, <3>1, Constants DEF TooLong, Fits
  <2>7. len' = Len(b) /\ <<>> \o stream' = b \o e
    <3>1. PICK t \in Seq(Octets) : t = b \o e
      BY ConcatProperties
    <3> QED  BY <2>1, <2>4, <3>1, ConcatEmptySeq DEF BodyOf
  <2>8. CASE TooLong(Len(b))
    <3>1. at' = "skip" /\ handled' = handled /\ chunks' = Len(b) \div RecvSize
      BY <2>4, <2>8 DEF BodyOf
    <3>2. 0 <= Want' /\ Len(got') = 0
      BY <1>7, <1>8, <2>7, <3>1, Constants DEF Want
    <3>3. Fits(p)' <=> Fits(p)
      BY DEF Fits
    <3>4. InSkip(p, b)'
      BY <2>6, <2>7, <2>8, <3>1, <3>2, <3>3 DEF InSkip
    <3>5. Standing(k, b)'
      BY <1>2, <1>3, <1>4, <1>8, <1>9, <2>7, <3>1, <3>4 DEF Standing, InSkip
    <3> QED  BY <1>10, <3>5 DEF Follows
  <2>9. CASE ~ TooLong(Len(b)) /\ Len(b) = 0
    <3>1. at' = "header" /\ handled' = Append(handled, [type |-> head, body |-> <<>>])
      BY <2>4, <2>9 DEF BodyOf, Handle
    <3>2. b = <<>>
      BY <2>9
    <3>3. p = [type |-> head, body |-> <<>>]
      BY <1>2, <1>3, <1>4, <3>2, MessageType
    <3>4. handled' = Fitting(First(k))
      BY <1>2, <1>3, <2>6, <2>9, <3>1, <3>3, Sent
    <3>5. Standing(k, b)'
      BY <1>4, <1>8, <1>9, <2>7, <3>1, <3>2, <3>4 DEF Standing
    <3> QED  BY <1>10, <3>5 DEF Follows
  <2>10. CASE ~ TooLong(Len(b)) /\ Len(b) # 0
    <3>1. at' = "body" /\ handled' = handled
      BY <2>4, <2>10 DEF BodyOf
    <3>2. Len(got') <= len'
      BY <1>7, <1>8, <2>7
    <3>3. Fits(p)' <=> Fits(p)
      BY DEF Fits
    <3>4. InBody(p, b)'
      BY <1>4, <2>6, <2>7, <2>10, <3>1, <3>2, <3>3 DEF InBody
    <3>5. Standing(k, b)'
      BY <1>2, <1>3, <1>4, <1>8, <1>9, <2>7, <3>1, <3>4 DEF Standing, InBody
    <3> QED  BY <1>10, <3>5 DEF Follows
  <2> QED  BY <2>8, <2>9, <2>10
<1>12. CASE m >= Base
  <2>1. PICK d \in Nat : d = m \div Base /\ m = d * Base + (m % Base) /\ m % Base \in 0 .. Base - 1
    BY <1>12, Shorter
  <2>2. /\ o = Octet(m) /\ LenOctets[d] \o b \in Seq(Octets)
        /\ stream' = (LenOctets[d] \o b) \o e
        /\ Len(LenOctets[m]) = 1 + Len(LenOctets[d]) /\ Len(LenOctets[d]) \in Nat \ {0}
    <3> HIDE DEF Octet
    <3> QED  BY <1>12, <1>13, <2>1
  <2>3. o % Base = m % Base /\ ~ (o < Base)
    <3>1. PICK q \in 0 .. Base - 1 : q = m % Base
      BY <2>1
    <3>2. DigitOf(q)
      BY DigitsOf, Zenon
    <3> QED  BY <2>2, <3>1, <3>2, Bases DEF DigitOf, Octet
  <2>4. ~ NoMoreOctets
    <3>1. PICK x \in Nat : x = Len(LenOctets[Len(b)])
      BY <1>7, LenOctetsType
    <3>2. x <= MaxLenOctets
      BY <1>3, <1>4, <3>1, LengthAssumption
    <3>3. PICK y \in Nat \ {0} : y = Len(LenOctets[d])
      BY <2>2
    <3>4. cnt + (1 + y) = 1 + x
      BY <1>5, <2>2, <3>1, <3>3
    <3> QED  BY <1>7, <3>2, <3>4, Constants DEF NoMoreOctets
  <2>5. /\ len' = n /\ mult' = mult * Base /\ at' = "length" /\ cnt' = cnt + 1 /\ handled' = handled
    <3> HIDE DEF o
    <3> QED  BY <2>3, <2>4 DEF LengthOctet, Weight, o
  <2>6. len' + mult' * d = Len(b)
    <3>1. PICK q \in Nat : q = m % Base
      BY <2>1
    <3>2. m = d * Base + q /\ Base \in Nat
      BY <2>1, <3>1, Bases
    <3>3. Distributes(len, mult, m, d, q, Base)
      BY <1>7, <3>2, Distributed, Zenon
    <3> QED  BY <1>5, <2>3, <2>5, <3>1, <3>3 DEF Distributes
  <2> HIDE DEF n, o
  <2>7. cnt' + Len(LenOctets[d]) = 1 + Len(LenOctets[Len(b)])
    <3>1. PICK x \in Nat : x = Len(LenOctets[Len(b)])
      BY <1>7, LenOctetsType
    <3>2. PICK y \in Nat : y = Len(LenOctets[d])
      BY <2>2
    <3>3. cnt + (1 + y) = 1 + x
      BY <1>5, <2>2, <3>1, <3>2
    <3>4. (cnt + 1) + y = 1 + x
      BY <1>7, <3>3
    <3> QED  BY <2>5, <3>1, <3>2, <3>4
  <2>8. PICK c \in Seq(Octets) : c = LenOctets[d] \o b
    BY <2>2
  <2>9. InLength(p, c)'
    BY <1>4, <1>8, <2>5, <2>6, <2>7, <2>8 DEF InLength
  <2>10. <<>> \o stream' = c \o e
    <3>1. PICK t \in Seq(Octets) : t = c \o e
      BY ConcatProperties
    <3> QED  BY <2>2, <2>8, <3>1, ConcatEmptySeq
  <2>11. Standing(k, c)'
    BY <1>2, <1>3, <1>4, <1>8, <1>9, <2>5, <2>9, <2>10 DEF Standing, InLength
  <2> QED  BY <1>10, <2>11 DEF Follows
<1> QED  BY <1>11, <1>12, Bases

LEMMA ChunkFollows ==
  ASSUME IInv, NEW k \in 0 .. Len(sent), NEW r \in Seq(Octets), Standing(k, r), at = "skip",
         NEW o \in Seq(Octets), stream' \in Seq(Octets), o \o stream' = r \o Encoded(Rest(k)),
         Len(o) = Want, ChunkEnds, handled' = handled, sent' = sent
  PROVE  Follows'
<1>1. sent \in Seq(Messages) /\ Len(sent) \in Nat /\ k \in 0 .. Len(sent')
  BY DEF IInv, SurroundOK
<1>2. /\ k > 0 /\ head = sent[k].type /\ handled = Fitting(First(k - 1)) /\ InSkip(sent[k], r)
  BY DEF Standing, InLength, InBody, InSkip
<1>3. PICK p \in Messages : p = sent[k]
  BY <1>1, <1>2
<1>4. PICK e \in Seq(Octets) : e = Encoded(Rest(k))
  BY Sent
<1>5. Rest(k)' = Rest(k) /\ First(k)' = First(k) /\ First(k - 1)' = First(k - 1)
  BY DEF Rest, First
<1>6. got' = <<>> /\ head' = head /\ (Fits(p)' <=> Fits(p)) /\ ~ Fits(p) /\ len = Len(r)
  BY <1>2, <1>3 DEF ChunkEnds, InSkip, Fits
<1>7. PICK t \in Seq(Octets) : t = stream'
  OBVIOUS
<1>8. <<>> \o stream' = stream'
  BY <1>7, ConcatEmptySeq
<1>9. CASE chunks = 0
  <2>1. at' = "header" /\ Want = len
    BY <1>9 DEF ChunkEnds, Want
  <2>2. t = e
    BY <1>4, <1>6, <1>7, <2>1, SameSplit
  <2>3. <<>> \o e = e /\ <<>> \in Seq(Octets)
    BY ConcatEmptySeq, EmptySeq
  <2>4. handled' = Fitting(First(k))
    BY <1>2, <1>3, <1>6, Sent
  <2>5. Standing(k, <<>>)'
    BY <1>4, <1>5, <1>6, <1>7, <1>8, <2>1, <2>2, <2>3, <2>4 DEF Standing
  <2> QED  BY <1>1, <2>3, <2>5 DEF Follows
<1>10. CASE chunks # 0
  <2>1. at' = "skip" /\ Want = RecvSize /\ len' = len - RecvSize /\ chunks' = chunks - 1
    BY <1>10 DEF ChunkEnds, Want
  <2>2. ReaderOK'
    BY ChunkEndsOK DEF IInv
  <2>3. len' \in Nat
    BY <2>2 DEF ReaderOK
  <2>4. Len(o) <= Len(r)
    BY <1>6, <2>1, <2>3, Constants DEF IInv, ReaderOK
  <2>5. PICK q \in Seq(Octets) : Len(q) = Len(r) - Len(o) /\ t = q \o e
    <3>1. o \o t = r \o e
      BY <1>4, <1>7
    <3>2. IsPortion(Octets, o, t, r, e)
      BY <2>4, <3>1, Portion, Zenon
    <3> QED  BY <3>2 DEF IsPortion
  <2>6. len' = Len(q)
    BY <1>6, <2>1, <2>5
  <2>7. Len(got') <= Want'
    BY <1>6, <2>1, <2>3, Constants DEF Want
  <2>8. InSkip(p, q)'
    BY <1>6, <2>1, <2>6, <2>7 DEF InSkip
  <2>9. Standing(k, q)'
    BY <1>2, <1>3, <1>4, <1>5, <1>6, <1>7, <1>8, <2>1, <2>5, <2>8 DEF Standing, InSkip
  <2> QED  BY <1>1, <2>9 DEF Follows
<1> QED  BY <1>9, <1>10

LEMMA BodyFollows ==
  ASSUME IInv, NEW k \in 0 .. Len(sent), NEW r \in Seq(Octets), Standing(k, r), at = "body",
         NEW o \in Seq(Octets), stream' \in Seq(Octets), o \o stream' = r \o Encoded(Rest(k)),
         Len(o) = Want, NextPacket, Handle(o), sent' = sent
  PROVE  Follows'
<1>1. sent \in Seq(Messages) /\ Len(sent) \in Nat /\ k \in 0 .. Len(sent')
  BY DEF IInv, SurroundOK
<1>2. /\ k > 0 /\ head = sent[k].type /\ handled = Fitting(First(k - 1)) /\ InBody(sent[k], r)
  BY DEF Standing, InLength, InBody, InSkip
<1>3. PICK p \in Messages : p = sent[k]
  BY <1>1, <1>2
<1>4. PICK e \in Seq(Octets) : e = Encoded(Rest(k))
  BY Sent
<1>5. Rest(k)' = Rest(k) /\ First(k)' = First(k)
  BY DEF Rest, First
<1>6. got' = <<>> /\ at' = "header" /\ Fits(p) /\ len = Len(r) /\ r = p.body /\ Want = len
  BY <1>2, <1>3 DEF NextPacket, InBody, Want
<1>7. PICK t \in Seq(Octets) : t = stream'
  OBVIOUS
<1>8. o = r /\ t = e
  BY <1>4, <1>6, <1>7, SameSplit
<1>9. <<>> \o e = e /\ <<>> \in Seq(Octets)
  BY ConcatEmptySeq, EmptySeq
<1>10. p = [type |-> head, body |-> o]
  BY <1>2, <1>3, <1>6, <1>8, MessageType
<1>11. handled' = Fitting(First(k))
  BY <1>2, <1>3, <1>6, <1>10, Sent DEF Handle
<1>12. Standing(k, <<>>)'
  BY <1>4, <1>5, <1>6, <1>7, <1>8, <1>9, <1>11 DEF Standing
<1> QED  BY <1>1, <1>9, <1>12 DEF Follows

LEMMA PartFollows ==
  ASSUME IInv, NEW k \in 0 .. Len(sent), NEW r \in Seq(Octets), Standing(k, r),
         at = "body" \/ at = "skip", got' \o stream' = r \o Encoded(Rest(k)), Len(got') <= Want,
         UNCHANGED <<at, head, cnt, len, mult, chunks, handled, sent>>
  PROVE  Follows'
<1>1. Rest(k)' = Rest(k) /\ First(k)' = First(k) /\ First(k - 1)' = First(k - 1) /\ Want' = Want
  BY DEF Rest, First, Want
<1>2. /\ k > 0 /\ head = sent[k].type /\ handled = Fitting(First(k - 1))
      /\ InBody(sent[k], r) \/ InSkip(sent[k], r)
  BY DEF Standing, InLength
<1>3. Fits(sent[k])' <=> Fits(sent[k])
  BY DEF Fits
<1>4. InBody(sent[k], r)' \/ InSkip(sent[k], r)'
  BY <1>1, <1>2, <1>3 DEF InBody, InSkip, Want
<1>5. Standing(k, r)'
  BY <1>1, <1>2, <1>4 DEF Standing
<1>6. k \in 0 .. Len(sent')
  OBVIOUS
<1> QED  BY <1>5, <1>6 DEF Follows

LEMMA RecvFollows ==
  ASSUME IInv, Follows, NEW n \in 1 .. RecvSize, Recv(n), ~ slipped'
  PROVE  Follows'
<1>1. PICK k \in 0 .. Len(sent), r \in Seq(Octets) : Standing(k, r)
  BY DEF Follows
<1>2. n \in 0 .. Len(stream) /\ n \in 1 .. Len(stream) /\ stream \in Seq(Octets) /\ got \in Seq(Octets)
  BY Constants DEF Recv, IInv, ReaderOK, SurroundOK
<1>3. PICK o \in Seq(Octets), t \in Seq(Octets) :
         /\ o = got \o SubSeq(stream, 1, n) /\ t = SubSeq(stream, n + 1, Len(stream))
         /\ Len(o) = Len(got) + n /\ o \o t = got \o stream
  <2>1. MovesOver(Octets, got, stream, n)
    BY <1>2, Moved, Zenon
  <2> QED  BY <2>1 DEF MovesOver
<1>4. /\ at # "header" /\ Len(o) <= Want /\ stream' = t /\ sent' = sent
      /\ IF Len(o) = Want THEN Complete(o)
         ELSE got' = o /\ UNCHANGED <<at, head, cnt, len, mult, chunks, handled>>
  BY <1>3 DEF Recv
<1>5. o \o stream' = r \o Encoded(Rest(k)) /\ stream' \in Seq(Octets)
  BY <1>1, <1>3, <1>4 DEF Standing
<1>6. CASE at = "length"
  <2>1. got = <<>> /\ Want = 1 /\ Len(got) = 0
    BY <1>1, <1>6 DEF Standing, InLength, InBody, InSkip, Want
  <2>2. n = 1 /\ Len(o) = 1 /\ Complete(o)
    BY <1>2, <1>3, <1>4, <2>1
  <2>3. o[1] = stream[1]
    <3>1. PICK a \in Seq(Octets) : a = SubSeq(stream, 1, 1)
      BY <1>2, <2>2, CutInTwo
    <3>2. a[1] = stream[1]
      BY <1>2, <2>2, <3>1
    <3>3. o = a
      BY <1>3, <2>1, <2>2, <3>1, ConcatEmptySeq
    <3> QED  BY <3>2, <3>3
  <2>4. LengthOctet(stream[1]) /\ stream' = SubSeq(stream, 2, Len(stream))
    BY <1>3, <1>4, <1>6, <2>2, <2>3 DEF Complete
  <2> QED  BY <1>1, <1>4, <1>6, <2>4, LengthFollows
<1>7. CASE at = "body" /\ Len(o) = Want
  BY <1>1, <1>4, <1>5, <1>7, BodyFollows DEF Complete
<1>8. CASE at = "skip" /\ Len(o) = Want
  BY <1>1, <1>4, <1>5, <1>8, ChunkFollows DEF Complete
<1>9. CASE at # "length" /\ Len(o) # Want
  <2>1. at = "body" \/ at = "skip"
    BY <1>4, <1>9 DEF IInv, ReaderOK
  <2> QED  BY <1>1, <1>4, <1>5, <1>9, <2>1, PartFollows
<1>10. at \in {"length", "body", "skip"}
  BY <1>4 DEF IInv, ReaderOK
<1> QED  BY <1>6, <1>7, <1>8, <1>9, <1>10

LEMMA NothingToSkipFollows ==
  ASSUME IInv, Follows, NothingToSkip
  PROVE  Follows'
<1>1. PICK k \in 0 .. Len(sent), r \in Seq(Octets) : Standing(k, r)
  BY DEF Follows
<1>2. got \in Seq(Octets) /\ stream \in Seq(Octets)
  BY DEF IInv, ReaderOK, SurroundOK
<1>3. /\ at = "skip" /\ Want = 0 /\ ChunkEnds /\ stream' = stream /\ sent' = sent /\ handled' = handled
  BY DEF NothingToSkip, history
<1>4. Len(got) <= Want /\ got \o stream = r \o Encoded(Rest(k))
  BY <1>1, <1>3 DEF Standing, InLength, InBody, InSkip
<1>5. Len(got) = Want
  BY <1>2, <1>3, <1>4
<1> QED  BY <1>1, <1>2, <1>3, <1>4, <1>5, ChunkFollows

GrowsAtEnd(s, p, k) ==
  SubSeq(Append(s, p), k + 1, Len(Append(s, p))) = Append(SubSeq(s, k + 1, Len(s)), p)

LEMMA RestAppended ==
  ASSUME NEW S, NEW s \in Seq(S), NEW p \in S, NEW k \in 0 .. Len(s)
  PROVE  GrowsAtEnd(s, p, k)
<1>1. PICK u \in Seq(S) : u = Append(s, p)
  BY AppendProperties
<1>2. Len(u) = Len(s) + 1 /\ u[Len(s) + 1] = p /\ (\A i \in 1 .. Len(s) : u[i] = s[i]) /\ Len(s) \in Nat
  BY <1>1, AppendProperties
<1>3. PICK a \in Seq(S) : a = SubSeq(u, k + 1, Len(u))
  <2>1. k \in 0 .. Len(u)
    BY <1>2
  <2> QED  BY <2>1, CutInTwo
<1>4. PICK b \in Seq(S) : b = SubSeq(s, k + 1, Len(s))
  BY <1>2, CutInTwo
<1>5. Len(a) = Len(s) + 1 - k /\ Len(b) = Len(s) - k
  BY <1>2, <1>3, <1>4
<1>6. PICK c \in Seq(S) : c = Append(b, p)
  BY AppendProperties
<1>7. Len(c) = Len(b) + 1 /\ c[Len(b) + 1] = p /\ \A i \in 1 .. Len(b) : c[i] = b[i]
  BY <1>6, AppendProperties
<1>8. \A i \in 1 .. Len(a) : a[i] = u[k + i]
  BY <1>2, <1>3, <1>5
<1>9. \A i \in 1 .. Len(b) : b[i] = s[k + i] /\ k + i \in 1 .. Len(s)
  BY <1>2, <1>4, <1>5
<1>10. \A i \in 1 .. Len(a) : a[i] = c[i]
  <2> SUFFICES ASSUME NEW i \in 1 .. Len(a) PROVE a[i] = c[i]
    OBVIOUS
  <2>1. CASE i \in 1 .. Len(b)
    BY <2>1, <1>2, <1>7, <1>8, <1>9
  <2>2. CASE i = Len(b) + 1
    <3>1. k + i = Len(s) + 1
      BY <2>2, <1>2, <1>5
    <3> QED  BY <2>2, <3>1, <1>2, <1>7, <1>8
  <2> QED  BY <1>2, <1>5, <2>1, <2>2
<1>11. a = c
  BY <1>2, <1>5, <1>7, <1>10, SeqEqual
<1> QED  BY <1>1, <1>3, <1>4, <1>6, <1>11 DEF GrowsAtEnd

LEMMA BrokerSendsFollows ==
  ASSUME IInv, Follows, NEW p \in Messages, BrokerSends(p)
  PROVE  Follows'
<1>1. PICK k \in 0 .. Len(sent), r \in Seq(Octets) : Standing(k, r)
  BY DEF Follows
<1>2. /\ sent \in Seq(Messages) /\ Len(sent) \in Nat
      /\ stream \in Seq(Octets) /\ got \in Seq(Octets)
  BY DEF IInv, SurroundOK, ReaderOK
<1>3. /\ stream' = stream \o Encode(p) /\ sent' = Append(sent, p)
      /\ UNCHANGED reader /\ handled' = handled
  BY DEF BrokerSends
<1>4. PICK c \in Seq(Octets), e \in Seq(Octets) : c = Encode(p) /\ e = Encoded(Rest(k))
  BY EncodeType, Sent
<1>5. sent' \in Seq(Messages) /\ Len(sent') = Len(sent) + 1 /\ k \in 0 .. Len(sent')
      /\ \A i \in 1 .. Len(sent) : sent'[i] = sent[i]
  BY <1>2, <1>3, AppendProperties
<1>6. First(k)' = First(k) /\ (k > 0 => First(k - 1)' = First(k - 1) /\ sent'[k] = sent[k])
  BY <1>2, <1>3, <1>5 DEF First
<1>7. Rest(k)' = Append(Rest(k), p)
  BY <1>2, <1>3, RestAppended, Zenon DEF Rest, GrowsAtEnd
<1>8. Encoded(Rest(k)') = e \o c
  BY <1>4, <1>7, Sent, EncodedAppend
<1>9. got \o stream' = r \o (e \o c)
  <2>1. Grouped(got, stream, c) /\ Grouped(r, e, c)
    BY <1>2, Grouping, Zenon
  <2>2. got \o stream = r \o e
    BY <1>1, <1>4 DEF Standing
  <2> QED  BY <1>3, <1>4, <2>1, <2>2 DEF Grouped
<1>10. got' = got /\ at' = at /\ head' = head /\ len' = len /\ mult' = mult /\ cnt' = cnt /\ chunks' = chunks
  BY <1>3 DEF reader
<1>11. \A q : (Fits(q)' <=> Fits(q)) /\ Want' = Want
  BY <1>10 DEF Fits, Want
<1>12. CASE at = "header"
  <2>1. got = <<>> /\ r = <<>> /\ handled = Fitting(First(k))
    BY <1>1, <1>12 DEF Standing, InLength, InBody, InSkip
  <2>2. Standing(k, r)'
    BY <1>3, <1>6, <1>8, <1>9, <1>10, <1>12, <2>1 DEF Standing
  <2> QED  BY <1>5, <2>2 DEF Follows
<1>13. CASE at # "header"
  <2>1. /\ k > 0 /\ head = sent[k].type /\ handled = Fitting(First(k - 1))
        /\ InLength(sent[k], r) \/ InBody(sent[k], r) \/ InSkip(sent[k], r)
    BY <1>1, <1>13 DEF Standing
  <2>2. InLength(sent[k], r) => InLength(sent[k], r)'
    BY <1>6, <1>10, <2>1 DEF InLength
  <2>3. InBody(sent[k], r) => InBody(sent[k], r)'
    BY <1>6, <1>10, <1>11, <2>1 DEF InBody
  <2>4. InSkip(sent[k], r) => InSkip(sent[k], r)'
    BY <1>6, <1>10, <1>11, <2>1 DEF InSkip
  <2>5. Standing(k, r)'
    BY <1>3, <1>6, <1>8, <1>9, <1>10, <2>1, <2>2, <2>3, <2>4 DEF Standing
  <2> QED  BY <1>5, <2>5 DEF Follows
<1> QED  BY <1>12, <1>13

LEMMA NothingFollows ==
  ASSUME stream = <<>>, got = <<>>, at = "header", sent = <<>>, handled = <<>>
  PROVE  Follows
<1>1. First(0) = <<>> /\ Rest(0) = <<>> /\ 0 \in 0 .. Len(sent) /\ <<>> \in Seq(Octets)
  BY EmptySeq DEF First, Rest
<1>2. <<>> \o <<>> = <<>>
  BY <1>1, ConcatEmptySeq
<1>3. Standing(0, <<>>)
  BY <1>1, <1>2, NothingSent DEF Standing
<1> QED  BY <1>1, <1>3 DEF Follows

\* What is inductive.
InTouch == ~ slipped /\ ~ ended => Follows

LEMMA FollowsKept == IInv /\ InTouch /\ [Next]_vars => InTouch'
<1> SUFFICES ASSUME IInv, InTouch, [Next]_vars, ~ slipped', ~ ended' PROVE Follows'
  BY DEF InTouch
<1>1. CASE ReadHeader
  BY <1>1, ReadHeaderFollows DEF InTouch, ReadHeader, history
<1>2. ASSUME NEW n \in 1 .. RecvSize, Recv(n)
      PROVE  Follows'
  <2>1. slipped' = slipped \/ slipped' = TRUE
    BY <1>2 DEF Recv
  <2>2. ended' = ended
    BY <1>2 DEF Recv
  <2> QED  BY <1>2, <2>1, <2>2, RecvFollows DEF InTouch
<1>3. CASE NothingToSkip
  BY <1>3, NothingToSkipFollows DEF InTouch, NothingToSkip, history
<1>4. CASE RecvFails
  BY <1>4 DEF RecvFails
<1>5. CASE Reconnect
  <2>1. stream' = <<>> /\ got' = <<>> /\ at' = "header" /\ sent' = <<>> /\ handled' = <<>>
    BY <1>5 DEF Reconnect, NextPacket
  <2>2. (stream = <<>> /\ got = <<>> /\ at = "header" /\ sent = <<>> /\ handled = <<>> => Follows)'
    BY NothingFollows, PTL
  <2> QED  BY <2>1, <2>2
<1>6. CASE ConnectionEnds
  BY <1>6 DEF ConnectionEnds
<1>7. ASSUME NEW p \in Messages, BrokerSends(p)
      PROVE  Follows'
  BY <1>7, BrokerSendsFollows DEF InTouch, BrokerSends
<1>8. CASE UNCHANGED vars
  <2>1. Follows
    BY <1>8 DEF InTouch, vars, history
  <2>2. UNCHANGED <<stream, at, head, cnt, len, mult, chunks, got, sent, handled>>
    BY <1>8 DEF vars, reader, history
  <2> QED  BY <2>1, <2>2 DEF Follows, Standing, InLength, InBody, InSkip, First, Rest, Want, Fits
<1> QED  BY <1>1, <1>2, <1>3, <1>4, <1>5, <1>6, <1>7, <1>8 DEF Next, UmqttThread

\* As long as no read takes too long, umqtt_thread stands between two packets of the
\* broker when it reads a header, and has handled all that fit in recv_buf, in order:
\* for packets of any length, that come in any portions.
THEOREM StaysInStep == Spec => []InStep
<1>1. Init => InTouch
  BY NothingFollows DEF Init, InTouch
<1>2. IInv /\ InTouch => InStep
  <2> SUFFICES ASSUME IInv, InTouch, at = "header", ~ slipped, ~ ended
               PROVE  \E k \in 0 .. Len(sent) : /\ stream = Encoded(SubSeq(sent, k + 1, Len(sent)))
                                                /\ handled = Fitting(SubSeq(sent, 1, k))
    BY DEF InStep
  <2>1. PICK k \in 0 .. Len(sent), r \in Seq(Octets) : Standing(k, r)
    BY DEF InTouch, Follows
  <2>2. got = <<>> /\ r = <<>> /\ handled = Fitting(First(k)) /\ got \o stream = r \o Encoded(Rest(k))
    BY <2>1 DEF Standing, InLength, InBody, InSkip
  <2>3. stream \in Seq(Octets) /\ Encoded(Rest(k)) \in Seq(Octets)
    BY Sent DEF IInv, SurroundOK
  <2>4. <<>> \o stream = stream /\ <<>> \o Encoded(Rest(k)) = Encoded(Rest(k))
    BY <2>3, ConcatEmptySeq
  <2> QED  BY <2>2, <2>4 DEF First, Rest
<1> QED  BY <1>1, <1>2, FollowsKept, Invariant, PTL DEF Spec
=============================================================================
