---------------------------- MODULE FramingProofs ----------------------------
(***************************************************************************)
(* Proofs about Framing for any base and prefix of a length, any frame and *)
(* chunk sizes, any capabilities another build announces, any number of    *)
(* messages and any way in which the connection cuts their bytes.  What    *)
(* the properties lack to be inductive is where the two ends are in the    *)
(* bytes of the whole stream: StreamInv says that there is a stream in     *)
(* which the messages written lie one behind the other, and that what the  *)
(* reader has of a message, followed by what is in flight, is what comes   *)
(* after the messages it has read.  From there a header is the length that *)
(* finish stamped, a payload is what was put into the buffer, and the      *)
(* reader decodes the message that was encoded.                            *)
(*                                                                         *)
(* The first section is about numbers: Induction, over the numbers that a  *)
(* set has, gives the powers of the base, and those give that a number is  *)
(* the only one with its digits.                                           *)
(***************************************************************************)
EXTENDS Framing, TLAPS, FiniteSetTheorems

-----------------------------------------------------------------------------
(* Numbers. *)

\* Induction, over the numbers that a set has.
LEMMA Induction ==
  ASSUME NEW S, 0 \in S, \A n \in Nat : n \in S => n + 1 \in S
  PROVE  Nat \subseteq S
<1>1. SUFFICES ASSUME NEW n \in Nat, n \notin S
               PROVE  FALSE
  OBVIOUS
<1> DEFINE T == S \cap (0..n)
           f == [k \in T |-> k + 1]
<1>2. IsFiniteSet(T) /\ Cardinality(T) \in Nat
  <2>1. IsFiniteSet(0..n)
    BY FS_Interval
  <2>2. IsFiniteSet(T)
    BY <2>1, FS_Subset
  <2>3. QED  BY <2>2, FS_CardinalityType
<1>3. IsFiniteSet(T \ {0}) /\ Cardinality(T \ {0}) = Cardinality(T) - 1
  <2>1. 0 \in T
    OBVIOUS
  <2> HIDE DEF T
  <2>2. QED  BY <1>2, <2>1, FS_RemoveElement
<1>4. f \in Injection(T, T \ {0})
  <2>1. \A k \in T : k + 1 \in T \ {0}
    BY <1>1
  <2>2. \A j, k \in T : f[j] = f[k] => j = k
    OBVIOUS
  <2>3. QED  BY <2>1, <2>2 DEF Injection, IsInjective
<1> HIDE DEF T, f
<1>5. Cardinality(T) <= Cardinality(T \ {0})
  BY <1>3, <1>4, FS_Injection
<1>6. QED  BY <1>2, <1>3, <1>5

\* The functions that start with a and go on by step: there is one.
Iterates(A, a, step) ==
  {f \in [Nat -> A] : f[0] = a /\ \A k \in Nat : f[k + 1] = step[f[k]]}

LEMMA Iteration ==
  ASSUME NEW A, NEW a \in A, NEW step \in [A -> A]
  PROVE  \E f : f \in Iterates(A, a, step)
<1> DEFINE Starts(g, n) == /\ g \in [0..n -> A] /\ g[0] = a
                           /\ \A k \in Nat : k < n => g[k + 1] = step[g[k]]
           S == {n \in Nat : \E g : Starts(g, n)}
<1>1. Nat \subseteq S
  <2>1. 0 \in S
    <3>1. Starts([k \in 0..0 |-> a], 0)
      OBVIOUS
    <3>2. QED  BY <3>1
  <2>2. ASSUME NEW n \in Nat, n \in S
        PROVE  n + 1 \in S
    <3>1. PICK g : Starts(g, n)
      BY <2>2
    <3> DEFINE h == [k \in 0..(n + 1) |-> IF k <= n THEN g[k] ELSE step[g[n]]]
    <3>2. h \in [0..(n + 1) -> A]
      BY <3>1
    <3>3. h[0] = a
      BY <3>1
    <3>4. ASSUME NEW k \in Nat, k < n + 1
          PROVE  h[k + 1] = step[h[k]]
      <4>1. h[k] = g[k]
        BY <3>4
      <4>2. CASE k < n
        BY <3>1, <4>1, <4>2
      <4>3. CASE k = n
        BY <4>1, <4>3
      <4>4. QED  BY <3>4, <4>2, <4>3
    <3>5. Starts(h, n + 1)
      BY <3>2, <3>3, <3>4
    <3>6. QED  BY <3>5
  <2> HIDE DEF S
  <2>3. QED  BY <2>1, <2>2, Induction
<1>2. ASSUME NEW n \in Nat, NEW m \in Nat, NEW g, NEW h, Starts(g, n), Starts(h, m)
      PROVE  \A k \in Nat : k <= n /\ k <= m => g[k] = h[k]
  <2> DEFINE E == {k \in Nat : k <= n /\ k <= m => g[k] = h[k]}
  <2>1. 0 \in E
    BY <1>2
  <2>2. ASSUME NEW k \in Nat, k \in E
        PROVE  k + 1 \in E
    BY <1>2, <2>2
  <2>3. Nat \subseteq E
    <3> HIDE DEF E, Starts
    <3>1. QED  BY <2>1, <2>2, Induction
  <2>4. QED  BY <2>3
<1> DEFINE G(n) == CHOOSE g : Starts(g, n)
           f == [k \in Nat |-> G(k)[k]]
<1>3. \A n \in Nat : Starts(G(n), n)
  BY <1>1
<1> HIDE DEF G
<1>4. f \in [Nat -> A] /\ f[0] = a
  BY <1>3
<1>5. ASSUME NEW k \in Nat
      PROVE  f[k + 1] = step[f[k]]
  <2>1. Starts(G(k), k) /\ Starts(G(k + 1), k + 1)
    BY <1>3
  <2>2. G(k + 1)[k] = G(k)[k]
    <3> HIDE DEF Starts
    <3>1. QED  BY <1>2, <2>1
  <2>3. G(k + 1)[k + 1] = step[G(k + 1)[k]]
    BY <2>1
  <2>4. QED  BY <2>2, <2>3
<1> HIDE DEF f
<1>6. QED  BY <1>4, <1>5 DEF Iterates

LEMMA Powers ==
  ASSUME Base \in Nat
  PROVE  /\ Power[0] = 1
         /\ \A k \in Nat : Power[k] \in Nat /\ Power[k + 1] = Base * Power[k]
<1> DEFINE times == [n \in Nat |-> Base * n]
<1>1. times \in [Nat -> Nat]
  OBVIOUS
<1>2. PICK p : p \in Iterates(Nat, 1, times)
  <2>1. 1 \in Nat
    OBVIOUS
  <2> HIDE DEF times
  <2>2. QED  BY <1>1, <2>1, Iteration, Zenon
<1>3. p \in [Nat -> Nat] /\ p[0] = 1 /\ \A k \in Nat : p[k + 1] = times[p[k]]
  BY <1>2 DEF Iterates
<1>4. \A k \in Nat : p[k] = IF k = 0 THEN 1 ELSE Base * p[k - 1]
  <2>1. ASSUME NEW k \in Nat, k # 0
        PROVE  p[k] = Base * p[k - 1]
    <3>1. k - 1 \in Nat /\ k = (k - 1) + 1
      BY <2>1
    <3>2. p[(k - 1) + 1] = times[p[k - 1]] /\ p[k - 1] \in Nat
      BY <1>3, <3>1
    <3>3. times[p[k - 1]] = Base * p[k - 1]
      BY <3>2
    <3>4. p[(k - 1) + 1] = p[k]
      BY <3>1
    <3> HIDE DEF times
    <3>5. QED  BY <3>2, <3>3, <3>4
  <2>2. QED  BY <1>3, <2>1
<1>5. p = [k \in Nat |-> IF k = 0 THEN 1 ELSE Base * p[k - 1]]
  <2>1. p = [k \in Nat |-> p[k]]
    BY <1>3
  <2>2. QED  BY <1>4, <2>1
<1>6. Power = [k \in Nat |-> IF k = 0 THEN 1 ELSE Base * Power[k - 1]]
  BY <1>5 DEF Power
<1>7. Power[0] = 1
  BY <1>6
<1> DEFINE T == {k \in Nat : Power[k] = p[k]}
<1>8. Nat \subseteq T
  <2>1. 0 \in T
    BY <1>3, <1>7
  <2>2. ASSUME NEW k \in Nat, k \in T
        PROVE  k + 1 \in T
    <3>1. Power[k + 1] = Base * Power[(k + 1) - 1] /\ (k + 1) - 1 = k
      BY <1>6
    <3>2. p[k + 1] = Base * p[k]
      BY <1>3
    <3>3. QED  BY <2>2, <3>1, <3>2
  <2> HIDE DEF T
  <2>3. QED  BY <2>1, <2>2, Induction
<1>9. \A k \in Nat : Power[k] = p[k]
  BY <1>8
<1>10. \A k \in Nat : p[k + 1] = Base * p[k]
  BY <1>3
<1> HIDE DEF times
<1>11. QED  BY <1>3, <1>7, <1>9, <1>10

\* What a quotient is.
LEMMA Quotients ==
  ASSUME NEW m \in Nat, NEW d \in Nat \ {0}
  PROVE  /\ m \div d \in Nat /\ m % d \in 0..(d - 1)
         /\ m = d * (m \div d) + (m % d)
OBVIOUS

LEMMA Products ==
  ASSUME NEW a \in Nat, NEW b \in Nat, NEW d \in Nat, a <= b
  PROVE  d * a <= d * b /\ d * a \in Nat /\ d * (a + 1) = d * a + d
OBVIOUS

LEMMA OneQuotient ==
  ASSUME NEW m \in Nat, NEW d \in Nat \ {0}, NEW q \in Nat, d * q <= m, m < d * q + d
  PROVE  m \div d = q
<1> DEFINE p == m \div d
<1>1. p \in Nat /\ d * p <= m /\ m < d * p + d
  BY Quotients
<1> HIDE DEF p
<1>2. CASE p < q
  <2>1. p + 1 \in Nat /\ p + 1 <= q
    BY <1>1, <1>2
  <2>2. d * (p + 1) <= d * q /\ d * (p + 1) = d * p + d
    BY <1>1, <2>1, Products
  <2>3. QED  BY <1>1, <2>2
<1>3. CASE q < p
  <2>1. q + 1 \in Nat /\ q + 1 <= p
    BY <1>1, <1>3
  <2>2. d * (q + 1) <= d * p /\ d * (q + 1) = d * q + d
    BY <1>1, <2>1, Products
  <2>3. QED  BY <1>1, <2>2
<1>4. p = q
  BY <1>1, <1>2, <1>3
<1>5. QED  BY <1>4 DEF p

LEMMA QuotientOfQuotient ==
  ASSUME NEW m \in Nat, NEW d \in Nat \ {0}, NEW b \in Nat \ {0}
  PROVE  m \div (b * d) = (m \div d) \div b
<1> DEFINE q == m \div d
           r == q \div b
<1>1. q \in Nat /\ d * q <= m /\ m < d * q + d
  BY Quotients
<1> HIDE DEF q
<1>2. r \in Nat /\ b * r <= q /\ q + 1 <= b * r + b
  <2>1. /\ q \div b \in Nat /\ q % b \in 0..(b - 1)
        /\ q = b * (q \div b) + (q % b)
    BY <1>1, Quotients
  <2>2. b * (q \div b) \in Nat
    BY <2>1
  <2>3. QED  BY <1>1, <2>1, <2>2
<1> HIDE DEF r
<1>3. b * r \in Nat /\ b * r + b = b * (r + 1) /\ b * (r + 1) \in Nat /\ b * d \in Nat \ {0}
  BY <1>2
<1>4. d * (b * r) <= d * q /\ d * (q + 1) <= d * (b * (r + 1)) /\ d * (q + 1) = d * q + d
  BY <1>1, <1>2, <1>3, Products
<1>5. d * (b * r) = (b * d) * r /\ d * (b * (r + 1)) = (b * d) * r + b * d
  BY <1>2
<1>6. (b * d) * r <= m /\ m < (b * d) * r + b * d
  BY <1>1, <1>3, <1>4, <1>5
<1>7. m \div (b * d) = r
  BY <1>2, <1>3, <1>6, OneQuotient
<1>8. QED  BY <1>7 DEF q, r

\* A number is the only one with its digits.
LEMMA Numbers ==
  ASSUME FramingAssumption
  PROVE  /\ NoLength \in Nat
         /\ \A n \in Nat : BigEndian(n) \in [1..Prefix -> Byte]
         /\ \A n \in 0..(NoLength - 1) : Number(BigEndian(n)) = n
<1>0. Base \in Nat \ {0} /\ Base \in Nat /\ Prefix \in Nat
  BY DEF FramingAssumption
<1>1. /\ Power[0] = 1
      /\ \A k \in Nat : Power[k] \in Nat /\ Power[k + 1] = Base * Power[k]
  BY Powers, <1>0
<1>2. \A k \in Nat : Power[k] # 0
  <2> DEFINE P == {k \in Nat : Power[k] # 0}
  <2>1. 0 \in P
    BY <1>0, <1>1
  <2>2. ASSUME NEW k \in Nat, k \in P
        PROVE  k + 1 \in P
    <3>1. Power[k] \in Nat \ {0} /\ Power[k + 1] = Base * Power[k]
      BY <1>0, <1>1, <2>2
    <3>2. Base * Power[k] # 0
      BY <1>0, <1>1, <3>1
    <3>3. QED  BY <3>1, <3>2
  <2>3. Nat \subseteq P
    <3> HIDE DEF P
    <3>1. QED  BY <2>1, <2>2, Induction
  <2>4. QED  BY <2>3
<1>3. \A n \in Nat : BigEndian(n) \in [1..Prefix -> Byte]
  <2>1. ASSUME NEW n \in Nat, NEW i \in 1..Prefix
        PROVE  (n \div Power[Prefix - i]) % Base \in Byte
    <3>1. Prefix - i \in Nat
      BY <1>0, <1>1
    <3>2. n \div Power[Prefix - i] \in Nat
      BY <1>0, <1>1, <1>2, <3>1, Quotients
    <3> DEFINE q == n \div Power[Prefix - i]
    <3>3. q \in Nat
      BY <3>2
    <3> HIDE DEF q
    <3>4. q % Base \in 0..(Base - 1)
      BY <1>0, <3>3, Quotients
    <3>5. QED  BY <3>4 DEF Byte, q
  <2>2. QED  BY <2>1 DEF BigEndian
<1>4. ASSUME NEW m \in 0..(NoLength - 1), NEW n \in 0..(NoLength - 1), BigEndian(m) = BigEndian(n)
      PROVE  m = n
  <2> DEFINE E == {i \in Nat : i <= Prefix => m \div Power[Prefix - i] = n \div Power[Prefix - i]}
  <2>1. 0 \in E
    <3>1. \A k \in 0..(NoLength - 1) : k \div Power[Prefix] = 0
      <4>1. TAKE k \in 0..(NoLength - 1)
      <4>2. Power[Prefix] \in Nat \ {0}
        BY <1>0, <1>1, <1>2
      <4>3. Power[Prefix] * 0 <= k /\ k < Power[Prefix] * 0 + Power[Prefix]
        BY <4>2 DEF NoLength
      <4>4. QED  BY <4>2, <4>3, OneQuotient
    <3>2. Prefix - 0 = Prefix
      BY <1>0, <1>1
    <3>3. QED  BY <3>1, <3>2
  <2>2. ASSUME NEW i \in Nat, i \in E
        PROVE  i + 1 \in E
    <3>1. SUFFICES ASSUME i + 1 <= Prefix
                   PROVE  m \div Power[Prefix - (i + 1)] = n \div Power[Prefix - (i + 1)]
      OBVIOUS
    <3> DEFINE k == Prefix - (i + 1)
    <3>2. k \in Nat /\ k + 1 = Prefix - i /\ i + 1 \in 1..Prefix
      BY <1>0, <1>1, <3>1
    <3>3. Power[k] \in Nat \ {0} /\ Power[k + 1] = Base * Power[k]
      BY <1>0, <1>1, <1>2, <3>2
    <3>4. (m \div Power[k]) \div Base = (n \div Power[k]) \div Base
      <4>1. m \div Power[k + 1] = n \div Power[k + 1]
        <5>1. m \div Power[Prefix - i] = n \div Power[Prefix - i]
          BY <1>0, <2>2, <3>1
        <5> HIDE DEF k
        <5>2. QED  BY <3>2, <5>1
      <4>2. \A x \in Nat : x \div (Base * Power[k]) = (x \div Power[k]) \div Base
        BY <1>0, <1>1, <3>3, QuotientOfQuotient
      <4>3. QED  BY <3>3, <4>1, <4>2
    <3>5. (m \div Power[k]) % Base = (n \div Power[k]) % Base
      <4>1. BigEndian(m)[i + 1] = BigEndian(n)[i + 1]
        BY <1>4
      <4>2. QED  BY <3>2, <4>1 DEF BigEndian
    <3> HIDE DEF k
    <3>6. m \in Nat /\ n \in Nat
      BY <1>0, <1>1 DEF NoLength
    <3>7. m \div Power[k] = n \div Power[k]
      <4> DEFINE a == m \div Power[k]
                 b == n \div Power[k]
      <4>1. a \in Nat /\ b \in Nat
        BY <3>3, <3>6, Quotients
      <4>2. a \div Base = b \div Base /\ a % Base = b % Base
        BY <3>4, <3>5
      <4> HIDE DEF a, b
      <4>3. a = Base * (a \div Base) + (a % Base)
        BY <1>0, <4>1, Quotients
      <4>4. b = Base * (b \div Base) + (b % Base)
        BY <1>0, <4>1, Quotients
      <4>5. a = b
        BY <4>2, <4>3, <4>4
      <4>6. QED  BY <4>5 DEF a, b
    <3>8. QED  BY <3>7 DEF k
  <2>3. Prefix \in E
    <3> HIDE DEF E
    <3>1. Nat \subseteq E
      BY <2>1, <2>2, Induction
    <3>2. QED  BY <1>0, <1>1, <3>1
  <2>4. m \div 1 = n \div 1
    <3>1. Prefix - Prefix = 0
      BY <1>0, <1>1
    <3>2. QED  BY <1>0, <1>1, <2>3, <3>1
  <2>5. QED  BY <1>0, <1>1, <2>4 DEF NoLength
<1>5. ASSUME NEW n \in 0..(NoLength - 1)
      PROVE  Number(BigEndian(n)) = n
  BY <1>4 DEF Number
<1>6. QED  BY <1>0, <1>1, <1>3, <1>5 DEF NoLength

-----------------------------------------------------------------------------
(* Sequences, and buffers. *)

LEMMA SameSeq ==
  ASSUME NEW S, NEW s \in Seq(S), NEW t \in Seq(S), Len(s) = Len(t),
         \A i \in 1..Len(s) : s[i] = t[i]
  PROVE  s = t
OBVIOUS

LEMMA Joined ==
  ASSUME NEW S, NEW s \in Seq(S), NEW t \in Seq(S)
  PROVE  /\ s \o t \in Seq(S) /\ Len(s \o t) = Len(s) + Len(t)
         /\ \A i \in 1..Len(s) : (s \o t)[i] = s[i]
         /\ \A i \in 1..Len(t) : (s \o t)[Len(s) + i] = t[i]
OBVIOUS

LEMMA IsSeq ==
  ASSUME NEW S, NEW n \in Nat, NEW w \in [1..n -> S]
  PROVE  w \in Seq(S) /\ Len(w) = n
OBVIOUS

LEMMA JoinedLen ==
  ASSUME NEW S, NEW s \in Seq(S), NEW t \in Seq(S)
  PROVE  s \o t \in Seq(S) /\ Len(s \o t) = Len(s) + Len(t) /\ Len(s) \in Nat /\ Len(t) \in Nat
OBVIOUS

LEMMA IsJoined ==
  ASSUME NEW S, NEW s \in Seq(S), NEW t \in Seq(S), NEW u \in Seq(S),
         Len(u) = Len(s) + Len(t), \A i \in 1..Len(s) : u[i] = s[i],
         \A i \in 1..Len(t) : u[Len(s) + i] = t[i]
  PROVE  u = s \o t
<1>1. /\ s \o t \in Seq(S) /\ Len(s \o t) = Len(u)
      /\ \A i \in 1..Len(s) : (s \o t)[i] = s[i]
      /\ \A i \in 1..Len(t) : (s \o t)[Len(s) + i] = t[i]
  BY Joined
<1>2. ASSUME NEW i \in 1..Len(u)
      PROVE  u[i] = (s \o t)[i]
  <2>1. CASE i <= Len(s)
    BY <1>1, <2>1
  <2>2. CASE i > Len(s)
    <3>1. i - Len(s) \in 1..Len(t) /\ Len(s) + (i - Len(s)) = i
      BY <2>2
    <3>2. u[Len(s) + (i - Len(s))] = (s \o t)[Len(s) + (i - Len(s))]
      BY <1>1, <3>1
    <3>3. QED  BY <3>1, <3>2
  <2>3. QED  BY <2>1, <2>2
<1>3. QED  BY <1>1, <1>2, SameSeq

LEMMA Cut ==
  ASSUME NEW S, NEW s \in Seq(S), NEW a \in Nat, NEW b \in Nat, a <= b, b <= Len(s)
  PROVE  /\ SubSeq(s, a + 1, b) \in Seq(S) /\ Len(SubSeq(s, a + 1, b)) = b - a
         /\ \A i \in 1..(b - a) : SubSeq(s, a + 1, b)[i] = s[a + i]
OBVIOUS

LEMMA ZerosAre ==
  ASSUME FramingAssumption, NEW n \in Nat
  PROVE  Zeros(n) \in Seq(Byte) /\ Len(Zeros(n)) = n
BY DEF FramingAssumption, Zeros, Byte

GoodBuf(b) == /\ b \in [bytes : Seq(Byte), len : Nat]
              /\ Prefix <= b.len /\ b.len <= Len(b.bytes)

\* What has been put into a buffer, behind the prefix.
Used(b) == SubSeq(b.bytes, Prefix + 1, b.len)

LEMMA BufUsed ==
  ASSUME FramingAssumption, NEW b, GoodBuf(b)
  PROVE  /\ Used(b) \in Seq(Byte) /\ Len(Used(b)) = b.len - Prefix
         /\ \A i \in 1..(b.len - Prefix) : Used(b)[i] = b.bytes[Prefix + i]
<1>1. b.bytes \in Seq(Byte) /\ b.len \in Nat /\ Prefix \in Nat
  BY DEF GoodBuf, FramingAssumption
<1>2. QED  BY <1>1, Cut DEF Used, GoodBuf

LEMMA ClearKeeps ==
  ASSUME FramingAssumption, NEW b, GoodBuf(b)
  PROVE  GoodBuf(Clear(b)) /\ Used(Clear(b)) = <<>>
<1>1. GoodBuf(Clear(b)) /\ Clear(b).len = Prefix
  BY DEF GoodBuf, Clear, FramingAssumption
<1>2. Len(Used(Clear(b))) = 0
  BY <1>1, BufUsed DEF FramingAssumption
<1>3. QED  BY <1>1, <1>2, BufUsed

LEMMA EnsureKeeps ==
  ASSUME FramingAssumption, NEW b, GoodBuf(b), NEW n \in Nat
  PROVE  /\ Ensure(b, n) \in [bytes : Seq(Byte), len : Nat]
         /\ Ensure(b, n).len = b.len
         /\ n <= Len(Ensure(b, n).bytes) /\ Len(b.bytes) <= Len(Ensure(b, n).bytes)
         /\ \A i \in 1..Len(b.bytes) : Ensure(b, n).bytes[i] = b.bytes[i]
<1>1. b.bytes \in Seq(Byte) /\ Len(b.bytes) \in Nat /\ b.len \in Nat
  BY DEF GoodBuf
<1>2. CASE Len(b.bytes) < n
  <2> DEFINE more == Most(n, 2 * Len(b.bytes)) - Len(b.bytes)
  <2>1. more \in Nat /\ Len(b.bytes) + more >= n
    BY <1>1, <1>2 DEF Most
  <2> HIDE DEF more
  <2>2. Zeros(more) \in Seq(Byte) /\ Len(Zeros(more)) = more
    BY <2>1, ZerosAre
  <2>3. Ensure(b, n) = [b EXCEPT !.bytes = @ \o Zeros(more)]
    BY <1>2 DEF Ensure, more
  <2>4. b \in [bytes : Seq(Byte), len : Nat]
    BY DEF GoodBuf
  <2>5. Ensure(b, n).bytes = b.bytes \o Zeros(more) /\ Ensure(b, n).len = b.len
    BY <2>3, <2>4
  <2>6. b.bytes \o Zeros(more) \in Seq(Byte)
    BY <1>1, <2>2
  <2>7. Ensure(b, n) \in [bytes : Seq(Byte), len : Nat]
    BY <2>3, <2>4, <2>6
  <2>8. QED  BY <1>1, <2>1, <2>2, <2>5, <2>7
<1>3. CASE ~(Len(b.bytes) < n)
  BY <1>1, <1>3 DEF Ensure, GoodBuf
<1>4. QED  BY <1>2, <1>3

\* A buffer that keeps what is used and has data after it.
LEMMA Appended ==
  ASSUME FramingAssumption, NEW b, GoodBuf(b), NEW p, GoodBuf(p), NEW data \in Seq(Byte),
         p.len = b.len + Len(data),
         \A i \in 1..b.len : p.bytes[i] = b.bytes[i],
         \A i \in 1..Len(data) : p.bytes[b.len + i] = data[i]
  PROVE  Used(p) = Used(b) \o data
<1>1. Prefix \in Nat /\ b.len \in Nat /\ Len(data) \in Nat /\ Prefix <= b.len
  BY DEF GoodBuf, FramingAssumption
<1>2. /\ Used(b) \in Seq(Byte) /\ Len(Used(b)) = b.len - Prefix
      /\ \A i \in 1..(b.len - Prefix) : Used(b)[i] = b.bytes[Prefix + i]
  BY BufUsed
<1>3. /\ Used(p) \in Seq(Byte) /\ Len(Used(p)) = p.len - Prefix
      /\ \A i \in 1..(p.len - Prefix) : Used(p)[i] = p.bytes[Prefix + i]
  BY BufUsed
<1>4. \A i \in 1..Len(Used(b)) : Used(p)[i] = Used(b)[i]
  <2>1. TAKE i \in 1..Len(Used(b))
  <2>2. i \in Nat /\ i >= 1 /\ i <= b.len - Prefix
    BY <1>1, <1>2
  <2>3. Prefix + i \in 1..b.len /\ i \in 1..(p.len - Prefix) /\ i \in 1..(b.len - Prefix)
    BY <1>1, <2>2
  <2>4. QED  BY <1>2, <1>3, <2>3
<1>5. \A i \in 1..Len(data) : Used(p)[Len(Used(b)) + i] = data[i]
  <2>1. TAKE i \in 1..Len(data)
  <2> DEFINE k == Len(Used(b)) + i
  <2>2. i \in Nat /\ i >= 1 /\ i <= Len(data)
    BY <1>1
  <2>3. k = (b.len - Prefix) + i
    BY <1>2
  <2> HIDE DEF k
  <2>4. k \in 1..(p.len - Prefix) /\ Prefix + k = b.len + i
    BY <1>1, <2>2, <2>3
  <2>5. Used(p)[k] = p.bytes[b.len + i]
    BY <1>3, <2>4
  <2>6. QED  BY <2>5 DEF k
<1>6. Len(Used(p)) = Len(Used(b)) + Len(data)
  BY <1>1, <1>2, <1>3
<1>7. Used(b) \in Seq(Byte) /\ Used(p) \in Seq(Byte)
  BY <1>2, <1>3
<1>8. QED  BY <1>4, <1>5, <1>6, <1>7, IsJoined

LEMMA PushKeeps ==
  ASSUME FramingAssumption, NEW b, GoodBuf(b), NEW data \in Seq(Byte)
  PROVE  /\ GoodBuf(PushSlice(b, data)) /\ Used(PushSlice(b, data)) = Used(b) \o data
         /\ PushSlice(b, data).len = b.len + Len(data)
<1> DEFINE n == b.len + Len(data)
           e == Ensure(b, n)
           p == PushSlice(b, data)
<1>1. /\ b.len \in Nat /\ Len(data) \in Nat /\ n \in Nat /\ Prefix \in Nat
      /\ Prefix <= b.len /\ b.bytes \in Seq(Byte) /\ b.len <= Len(b.bytes)
  BY DEF GoodBuf, FramingAssumption
<1>2. /\ e \in [bytes : Seq(Byte), len : Nat] /\ e.len = b.len /\ n <= Len(e.bytes)
      /\ \A i \in 1..Len(b.bytes) : e.bytes[i] = b.bytes[i]
  BY <1>1, EnsureKeeps
<1>3. p = [bytes |-> [i \in 1..Len(e.bytes) |->
                       IF i > e.len /\ i <= e.len + Len(data) THEN data[i - e.len]
                                                              ELSE e.bytes[i]],
           len |-> e.len + Len(data)]
  BY DEF PushSlice
<1> HIDE DEF e, p
<1>4. p.bytes \in Seq(Byte) /\ Len(p.bytes) = Len(e.bytes) /\ p.len = n
  BY <1>1, <1>2, <1>3
<1>5. \A i \in 1..Len(e.bytes) : p.bytes[i] =
         IF i > b.len /\ i <= n THEN data[i - b.len] ELSE e.bytes[i]
  BY <1>1, <1>2, <1>3
<1>6. GoodBuf(p)
  BY <1>1, <1>2, <1>3, <1>4 DEF GoodBuf
<1>7. \A i \in 1..b.len : p.bytes[i] = b.bytes[i]
  <2>1. TAKE i \in 1..b.len
  <2>2. i \in 1..Len(e.bytes) /\ i \in 1..Len(b.bytes) /\ ~(i > b.len)
    <3>1. Len(e.bytes) \in Nat /\ n <= Len(e.bytes)
      BY <1>2
    <3>2. QED  BY <1>1, <3>1
  <2>3. QED  BY <1>2, <1>5, <2>2
<1>8. \A i \in 1..Len(data) : p.bytes[b.len + i] = data[i]
  <2>1. TAKE i \in 1..Len(data)
  <2>2. i \in Nat /\ i >= 1 /\ i <= Len(data) /\ Len(e.bytes) \in Nat /\ n <= Len(e.bytes)
    BY <1>1, <1>2
  <2>3. b.len + i \in 1..Len(e.bytes) /\ b.len + i > b.len /\ b.len + i <= n
    BY <1>1, <2>2
  <2>4. (b.len + i) - b.len = i
    BY <1>1, <2>2
  <2>5. QED  BY <1>5, <2>3, <2>4
<1>9. p.len = b.len + Len(data)
  BY <1>4
<1>10. Used(p) = Used(b) \o data
  BY <1>6, <1>7, <1>8, <1>9, Appended
<1>11. QED  BY <1>6, <1>9, <1>10 DEF p

\* A region is claimed, a part of it filled, and the rest given back.
LEMMA FillKeeps ==
  ASSUME FramingAssumption, NEW b, GoodBuf(b), NEW n \in Nat, NEW data \in Seq(Byte), Len(data) <= n
  PROVE  LET f == SetPayloadLen(Fill(Claim(b, n), b.len, data), (b.len - Prefix) + Len(data))
         IN  GoodBuf(f) /\ Used(f) = Used(b) \o data /\ f.len = b.len + Len(data)
<1> DEFINE e == Ensure(b, b.len + n)
           c == Claim(b, n)
           f == SetPayloadLen(Fill(Claim(b, n), b.len, data), (b.len - Prefix) + Len(data))
<1>1. /\ b.len \in Nat /\ Len(data) \in Nat /\ Prefix \in Nat /\ Prefix <= b.len
      /\ b.bytes \in Seq(Byte) /\ b.len <= Len(b.bytes) /\ Len(b.bytes) \in Nat
  BY DEF GoodBuf, FramingAssumption
<1>2. /\ e \in [bytes : Seq(Byte), len : Nat] /\ e.len = b.len /\ b.len + n <= Len(e.bytes)
      /\ \A i \in 1..Len(b.bytes) : e.bytes[i] = b.bytes[i]
  BY <1>1, EnsureKeeps
<1>3. c = [e EXCEPT !.len = @ + n]
  BY DEF Claim
<1> HIDE DEF e, c
<1>4. c \in [bytes : Seq(Byte), len : Nat] /\ c.bytes = e.bytes
  BY <1>2, <1>3
<1> DEFINE w == [i \in 1..Len(c.bytes) |->
                  IF i > b.len /\ i <= b.len + Len(data) THEN data[i - b.len] ELSE c.bytes[i]]
<1>5. f = [bytes |-> w, len |-> Prefix + ((b.len - Prefix) + Len(data))]
  <2> DEFINE g == Fill(c, b.len, data)
  <2>1. g = [c EXCEPT !.bytes = w]
    BY DEF Fill
  <2>2. f = [g EXCEPT !.len = Prefix + ((b.len - Prefix) + Len(data))]
    BY DEF SetPayloadLen, g, c
  <2> HIDE DEF w, g, f
  <2>3. g = [bytes |-> w, len |-> c.len]
    BY <1>4, <2>1
  <2>4. QED  BY <2>2, <2>3
<1> HIDE DEF f
<1>6. f.len = b.len + Len(data)
  BY <1>1, <1>5
<1>7. f.bytes \in Seq(Byte) /\ Len(f.bytes) = Len(e.bytes)
  <2>1. c.bytes \in Seq(Byte) /\ c.bytes = e.bytes /\ Len(c.bytes) \in Nat
    BY <1>4
  <2>2. \A i \in 1..Len(c.bytes) : c.bytes[i] \in Byte
    BY <2>1
  <2>3. \A i \in 1..Len(c.bytes) : i > b.len /\ i <= b.len + Len(data) => data[i - b.len] \in Byte
    BY <1>1, <2>1
  <2>4. w \in [1..Len(c.bytes) -> Byte]
    BY <2>2, <2>3
  <2>5. w \in Seq(Byte) /\ Len(w) = Len(c.bytes)
    <3> DEFINE k == Len(c.bytes)
    <3>1. k \in Nat /\ w \in [1..k -> Byte]
      BY <2>1, <2>4
    <3> HIDE DEF w, k
    <3>2. w \in Seq(Byte) /\ Len(w) = k
      BY <3>1, IsSeq
    <3>3. QED  BY <3>2 DEF k
  <2>6. f.bytes = w
    BY <1>5
  <2>7. QED  BY <2>1, <2>5, <2>6
<1>8. \A i \in 1..Len(e.bytes) : f.bytes[i] =
        IF i > b.len /\ i <= b.len + Len(data) THEN data[i - b.len] ELSE e.bytes[i]
  <2>1. f.bytes = w
    BY <1>5
  <2>2. QED  BY <1>4, <2>1
<1>9. f.len \in Nat /\ Prefix <= f.len /\ f.len <= Len(f.bytes)
  <2>1. Len(f.bytes) \in Nat /\ b.len + n <= Len(f.bytes)
    BY <1>2, <1>7
  <2>2. QED  BY <1>1, <1>6, <2>1
<1>10. GoodBuf(f)
  <2>1. f \in [bytes : Seq(Byte), len : Nat]
    BY <1>5, <1>7, <1>9
  <2>2. QED  BY <1>9, <2>1 DEF GoodBuf
<1>11. \A i \in 1..b.len : f.bytes[i] = b.bytes[i]
  <2>1. TAKE i \in 1..b.len
  <2>2. i \in 1..Len(e.bytes) /\ i \in 1..Len(b.bytes) /\ ~(i > b.len)
    <3>1. Len(e.bytes) \in Nat /\ b.len + n <= Len(e.bytes)
      BY <1>2
    <3>2. QED  BY <1>1, <3>1
  <2>3. QED  BY <1>2, <1>8, <2>2
<1>12. \A i \in 1..Len(data) : f.bytes[b.len + i] = data[i]
  <2>1. TAKE i \in 1..Len(data)
  <2>2. i \in Nat /\ i >= 1 /\ i <= Len(data) /\ Len(e.bytes) \in Nat /\ b.len + n <= Len(e.bytes)
    BY <1>1, <1>2
  <2>3. b.len + i \in 1..Len(e.bytes) /\ b.len + i > b.len /\ b.len + i <= b.len + Len(data)
    BY <1>1, <2>2
  <2>4. (b.len + i) - b.len = i
    BY <1>1, <2>2
  <2>5. QED  BY <1>8, <2>3, <2>4
<1>13. Used(f) = Used(b) \o data
  BY <1>6, <1>10, <1>11, <1>12, Appended
<1>14. QED  BY <1>6, <1>10, <1>13 DEF f

LEMMA CutHead ==
  ASSUME NEW S, NEW s \in Seq(S), NEW t \in Seq(S)
  PROVE  SubSeq(s \o t, 1, Len(s)) = s
<1>1. /\ s \o t \in Seq(S) /\ Len(s \o t) = Len(s) + Len(t)
      /\ \A i \in 1..Len(s) : (s \o t)[i] = s[i]
  BY Joined
<1> DEFINE j == s \o t
<1>2. 0 \in Nat /\ Len(s) \in Nat /\ 0 <= Len(s) /\ Len(s) <= Len(j) /\ j \in Seq(S)
  BY <1>1
<1> HIDE DEF j
<1>3. /\ SubSeq(j, 0 + 1, Len(s)) \in Seq(S) /\ Len(SubSeq(j, 0 + 1, Len(s))) = Len(s) - 0
      /\ \A i \in 1..(Len(s) - 0) : SubSeq(j, 0 + 1, Len(s))[i] = j[0 + i]
  BY <1>2, Cut
<1>4. SubSeq(j, 1, Len(s)) \in Seq(S) /\ Len(SubSeq(j, 1, Len(s))) = Len(s)
  BY <1>2, <1>3
<1>5. \A i \in 1..Len(SubSeq(j, 1, Len(s))) : SubSeq(j, 1, Len(s))[i] = s[i]
  BY <1>1, <1>2, <1>3, <1>4 DEF j
<1>6. SubSeq(j, 1, Len(s)) = s
  BY <1>4, <1>5, SameSeq
<1>7. QED  BY <1>6 DEF j

LEMMA CutTail ==
  ASSUME NEW S, NEW s \in Seq(S), NEW t \in Seq(S)
  PROVE  SubSeq(s \o t, Len(s) + 1, Len(s \o t)) = t
<1>1. /\ s \o t \in Seq(S) /\ Len(s \o t) = Len(s) + Len(t)
      /\ \A i \in 1..Len(t) : (s \o t)[Len(s) + i] = t[i]
  BY Joined
<1> DEFINE j == s \o t
           c == SubSeq(j, Len(s) + 1, Len(j))
<1>2. Len(j) \in Nat /\ Len(s) \in Nat /\ Len(s) <= Len(j) /\ Len(j) <= Len(j) /\ j \in Seq(S)
  BY <1>1
<1>3. /\ c \in Seq(S) /\ Len(c) = Len(j) - Len(s)
      /\ \A i \in 1..(Len(j) - Len(s)) : c[i] = j[Len(s) + i]
  <2> HIDE DEF j
  <2>1. QED  BY <1>2, Cut
<1>4. Len(j) - Len(s) = Len(t)
  BY <1>1
<1>5. \A i \in 1..Len(t) : c[i] = t[i]
  <2> HIDE DEF c
  <2>1. QED  BY <1>1, <1>3, <1>4
<1>6. c = t
  <2> HIDE DEF c, j
  <2>1. QED  BY <1>3, <1>4, <1>5, SameSeq
<1>7. QED  BY <1>6

-----------------------------------------------------------------------------
(* Messages, and the bytes they become. *)

Message == [kind : {"welcome", "paired", "magic", "control", "data"},
            offset : Byte, bytes : Seq(Byte)]

Offset(m) == [i \in 1..OffsetLen |-> m.offset]

\* What a frame carries, the tag included, and all of its bytes.
Payload(m) ==
  CASE m.kind \in {"welcome", "paired"} -> <<ReplyCode[m.kind]>>
    [] m.kind = "control" -> <<KindOf.control>> \o m.bytes \o Zeros(TagLen)
    [] m.kind = "data" -> <<KindOf.data>> \o Offset(m) \o m.bytes \o Zeros(TagLen)

Bytes(m) == IF m.kind = "magic" THEN Magic ELSE BigEndian(Len(Payload(m))) \o Payload(m)

\* What the two ends write: nothing that a limit on its way refuses.
Legit(m) ==
  /\ m \in Message
  /\ m.kind \in {"welcome", "paired"} => m = Reply(m.kind)
  /\ m.kind = "magic" => m = MagicItem
  /\ m.kind = "control" => m.offset = 0
  /\ m.kind = "data" => Len(m.bytes) \in 1..ChunkSize(Agreed)
  /\ m.kind \in {"control", "data"} => Len(Payload(m)) <= LimitFor(Agreed)

LEMMA Limits ==
  ASSUME FramingAssumption, theirs \in TheirCaps
  PROVE  /\ LimitFor(Agreed) \in Nat /\ LimitFor(Agreed) < NoLength
         /\ ChunkSize(Agreed) \in Nat /\ 1 <= ChunkSize(Agreed)
         /\ ChunkSize(Agreed) + 1 + OffsetLen + TagLen <= LimitFor(Agreed)
         /\ ChunkLimit(Agreed) \in Nat /\ ChunkSize(Agreed) <= ChunkLimit(Agreed)
         /\ 1 <= RelayMax /\ 1 < NoLength /\ NoLength \in Nat
<1>0. NoLength \in Nat
  BY Numbers
<1>1. /\ OffsetLen \in Nat /\ 0 < OffsetLen /\ TagLen \in Nat
      /\ DefaultMax \in Nat /\ MinMax \in Nat /\ RelayMax \in Nat /\ 0 < RelayMax
      /\ DefaultChunk \in Nat /\ MinChunk \in Nat /\ 0 < MinChunk /\ MinChunk <= DefaultChunk
      /\ MinChunk + 1 + OffsetLen + TagLen <= MinMax /\ MinMax <= DefaultMax /\ DefaultMax < NoLength
  BY <1>0 DEF FramingAssumption, Overhead, NoLength
<1>2. theirs \in [max_frame : Nat, chunk_size : Nat]
  BY DEF FramingAssumption
<1> DEFINE f == Agreed.max_frame
           c == Agreed.chunk_size
<1>3. f \in Nat /\ c \in Nat /\ f <= DefaultMax
  BY <1>1, <1>2 DEF Agreed, Intersect, Ours, Least
<1> DEFINE l == LimitFor(Agreed)
<1>4. l \in Nat /\ MinMax <= l /\ l <= DefaultMax
  BY <1>1, <1>3 DEF LimitFor, Least, Most
<1>5. MaxDataLen(l) = l - (1 + OffsetLen + TagLen) /\ MaxDataLen(l) \in Nat /\ MaxDataLen(l) >= MinChunk
  <2> HIDE DEF l
  <2>1. QED  BY <1>1, <1>4 DEF MaxDataLen, Overhead
<1> DEFINE d == MaxDataLen(l)
<1>6. ChunkSize(Agreed) = Most(Least(Most(c, MinChunk), d), 1) /\ ChunkLimit(Agreed) = Most(d, c)
  BY DEF ChunkSize, ChunkLimit
<1> HIDE DEF l, c, f, d
<1>7. /\ ChunkSize(Agreed) \in Nat /\ 1 <= ChunkSize(Agreed) /\ ChunkSize(Agreed) <= d
      /\ ChunkLimit(Agreed) \in Nat /\ d <= ChunkLimit(Agreed)
  BY <1>1, <1>3, <1>5, <1>6 DEF Most, Least, d
<1>8. d = l - (1 + OffsetLen + TagLen)
  BY <1>5 DEF d
<1>9. QED  BY <1>0, <1>1, <1>4, <1>7, <1>8 DEF l

LEMMA Heads ==
  ASSUME FramingAssumption
  PROVE  /\ \A k \in DOMAIN KindOf : <<KindOf[k]>> \in Seq(Byte)
         /\ \A k \in DOMAIN ReplyCode : <<ReplyCode[k]>> \in Seq(Byte)
         /\ Magic \in Seq(Byte) /\ Len(Magic) = 2
         /\ Zeros(TagLen) \in Seq(Byte) /\ Len(Zeros(TagLen)) = TagLen
         /\ \A m \in Message : Offset(m) \in Seq(Byte) /\ Len(Offset(m)) = OffsetLen
         /\ \A n \in Nat : BigEndian(n) \in Seq(Byte) /\ Len(BigEndian(n)) = Prefix
<1>1. 0 \in Byte /\ 1 \in Byte
  BY DEF FramingAssumption, Byte
<1>2. \A n \in Nat : BigEndian(n) \in Seq(Byte) /\ Len(BigEndian(n)) = Prefix
  <2>1. TAKE n \in Nat
  <2>2. BigEndian(n) \in [1..Prefix -> Byte] /\ Prefix \in Nat
    BY Numbers DEF FramingAssumption
  <2>3. QED  BY <2>2
<1>3. \A m \in Message : Offset(m) \in Seq(Byte) /\ Len(Offset(m)) = OffsetLen
  BY DEF FramingAssumption, Offset, Message
<1>4. Zeros(TagLen) \in Seq(Byte) /\ Len(Zeros(TagLen)) = TagLen
  BY ZerosAre DEF FramingAssumption
<1>5. QED  BY <1>1, <1>2, <1>3, <1>4 DEF KindOf, ReplyCode, Magic

LEMMA Payloads ==
  ASSUME FramingAssumption, NEW m \in Message, m.kind # "magic"
  PROVE  /\ Payload(m) \in Seq(Byte) /\ Len(Payload(m)) \in Nat
         /\ m.kind \in {"welcome", "paired"} => Payload(m) = <<ReplyCode[m.kind]>> /\ Len(Payload(m)) = 1
         /\ m.kind = "control" => /\ Payload(m) = <<KindOf.control>> \o m.bytes \o Zeros(TagLen)
                                  /\ Len(Payload(m)) = 1 + Len(m.bytes) + TagLen
         /\ m.kind = "data" => /\ Payload(m) = <<KindOf.data>> \o Offset(m) \o m.bytes \o Zeros(TagLen)
                               /\ Len(Payload(m)) = 1 + OffsetLen + Len(m.bytes) + TagLen
<1>1. m.bytes \in Seq(Byte) /\ m.kind \in {"welcome", "paired", "control", "data"}
  BY DEF Message
<1>2. CASE m.kind \in {"welcome", "paired"}
  <2>1. Payload(m) = <<ReplyCode[m.kind]>> /\ m.kind \in DOMAIN ReplyCode
    BY <1>2 DEF Payload, ReplyCode
  <2>2. <<ReplyCode[m.kind]>> \in Seq(Byte)
    BY <2>1, Heads
  <2>3. QED  BY <1>2, <2>1, <2>2
<1>3. CASE m.kind = "control"
  <2> DEFINE s == <<KindOf.control>>
             z == Zeros(TagLen)
  <2>1. Payload(m) = (s \o m.bytes) \o z
    BY <1>3 DEF Payload
  <2>2. s \in Seq(Byte) /\ Len(s) = 1 /\ z \in Seq(Byte) /\ Len(z) = TagLen
    BY Heads DEF KindOf
  <2> HIDE DEF s, z
  <2>3. s \o m.bytes \in Seq(Byte) /\ Len(s \o m.bytes) = 1 + Len(m.bytes)
    BY <1>1, <2>2, JoinedLen
  <2>4. (s \o m.bytes) \o z \in Seq(Byte) /\ Len((s \o m.bytes) \o z) = 1 + Len(m.bytes) + TagLen
    BY <2>2, <2>3, JoinedLen
  <2>5. QED  BY <1>3, <2>1, <2>4 DEF s, z
<1>4. CASE m.kind = "data"
  <2> DEFINE s == <<KindOf.data>>
             o == Offset(m)
             z == Zeros(TagLen)
  <2>1. Payload(m) = ((s \o o) \o m.bytes) \o z
    BY <1>4 DEF Payload
  <2>2. s \in Seq(Byte) /\ Len(s) = 1 /\ z \in Seq(Byte) /\ Len(z) = TagLen
    BY Heads DEF KindOf
  <2>3. o \in Seq(Byte) /\ Len(o) = OffsetLen
    BY Heads
  <2> HIDE DEF s, o, z
  <2>4. s \o o \in Seq(Byte) /\ Len(s \o o) = 1 + OffsetLen
    BY <2>2, <2>3, JoinedLen
  <2>5. (s \o o) \o m.bytes \in Seq(Byte) /\ Len((s \o o) \o m.bytes) = 1 + OffsetLen + Len(m.bytes)
    BY <1>1, <2>4, JoinedLen
  <2>6. /\ ((s \o o) \o m.bytes) \o z \in Seq(Byte)
        /\ Len(((s \o o) \o m.bytes) \o z) = 1 + OffsetLen + Len(m.bytes) + TagLen
    BY <2>2, <2>5, JoinedLen
  <2>7. QED  BY <1>1, <1>4, <2>1, <2>6, JoinedLen DEF s, o, z
<1>5. QED  BY <1>1, <1>2, <1>3, <1>4

\* A buffer holds the payload of a message, and nothing else.
Holds(b, m) == GoodBuf(b) /\ Used(b) = Payload(m)

LEMMA ReplyEncoded ==
  ASSUME FramingAssumption, NEW m \in Message, m.kind \in {"welcome", "paired"}, GoodBuf(buf["relay"])
  PROVE  Holds(EncodeReply(m), m)
<1> DEFINE c == Clear(buf["relay"])
           s == <<ReplyCode[m.kind]>>
<1>1. GoodBuf(c) /\ Used(c) = <<>>
  BY ClearKeeps
<1>2. s \in Seq(Byte)
  BY Heads DEF ReplyCode
<1>3. GoodBuf(PushSlice(c, s)) /\ Used(PushSlice(c, s)) = Used(c) \o s
  <2> HIDE DEF c, s
  <2>1. QED  BY <1>1, <1>2, PushKeeps
<1>4. Used(c) \o s = s
  <2> HIDE DEF s, c
  <2>1. QED  BY <1>1, <1>2
<1>5. Payload(m) = s
  BY Payloads
<1>6. EncodeReply(m) = PushSlice(c, s)
  BY DEF EncodeReply
<1> HIDE DEF c, s
<1>7. QED  BY <1>3, <1>4, <1>5, <1>6 DEF Holds

LEMMA ControlEncoded ==
  ASSUME FramingAssumption, NEW m \in Message, m.kind = "control", GoodBuf(buf["control"])
  PROVE  Holds(EncodeControl(m), m)
<1> DEFINE c == Clear(buf["control"])
           s == <<KindOf.control>>
           z == Zeros(TagLen)
           p == PushSlice(c, s)
           q == PushSlice(p, m.bytes)
<1>1. GoodBuf(c) /\ Used(c) = <<>>
  BY ClearKeeps
<1>2. s \in Seq(Byte) /\ m.bytes \in Seq(Byte) /\ z \in Seq(Byte)
  BY Heads DEF KindOf, Message
<1>3. Payload(m) = s \o m.bytes \o z
  BY Payloads
<1>4. EncodeControl(m) = PushSlice(q, z)
  BY DEF EncodeControl
<1> HIDE DEF c, s, z
<1>5. GoodBuf(p) /\ Used(p) = s
  <2>1. GoodBuf(p) /\ Used(p) = Used(c) \o s
    BY <1>1, <1>2, PushKeeps
  <2>2. QED  BY <1>1, <1>2, <2>1
<1> HIDE DEF p
<1>6. GoodBuf(q) /\ Used(q) = s \o m.bytes
  BY <1>2, <1>5, PushKeeps
<1> HIDE DEF q
<1>7. GoodBuf(PushSlice(q, z)) /\ Used(PushSlice(q, z)) = Used(q) \o z
  BY <1>2, <1>6, PushKeeps
<1>8. QED  BY <1>3, <1>4, <1>6, <1>7 DEF Holds

LEMMA DataEncoded ==
  ASSUME FramingAssumption, NEW m \in Message, m.kind = "data", GoodBuf(buf["data"]),
         NEW claimed \in Nat, Len(m.bytes) <= claimed
  PROVE  Holds(EncodeData(m, claimed), m)
<1> DEFINE c == Clear(buf["data"])
           s == <<KindOf.data>>
           o == Offset(m)
           z == Zeros(TagLen)
           p == PushSlice(c, s)
           q == PushSlice(p, o)
           f == SetPayloadLen(Fill(Claim(q, claimed), q.len, m.bytes), (q.len - Prefix) + Len(m.bytes))
<1>0. Prefix \in Nat /\ OffsetLen \in Nat
  BY DEF FramingAssumption
<1>1. GoodBuf(c) /\ Used(c) = <<>> /\ c.len = Prefix
  <2>1. GoodBuf(c) /\ Used(c) = <<>>
    BY ClearKeeps
  <2>2. c.len = Prefix
    BY DEF Clear, GoodBuf
  <2>3. QED  BY <2>1, <2>2
<1>2. s \in Seq(Byte) /\ Len(s) = 1 /\ m.bytes \in Seq(Byte) /\ z \in Seq(Byte)
  BY Heads DEF KindOf, Message
<1>3. o \in Seq(Byte) /\ Len(o) = OffsetLen
  BY Heads
<1>4. Payload(m) = s \o o \o m.bytes \o z
  BY Payloads
<1>5. EncodeData(m, claimed) =
        PushSlice(SetPayloadLen(Fill(Claim(q, claimed), q.len, m.bytes), 1 + OffsetLen + Len(m.bytes)), z)
  BY DEF EncodeData, Offset
<1> HIDE DEF c, s, o, z
<1>6. GoodBuf(p) /\ Used(p) = s /\ p.len = Prefix + 1
  <2>1. GoodBuf(p) /\ Used(p) = Used(c) \o s /\ p.len = c.len + Len(s)
    BY <1>1, <1>2, PushKeeps
  <2>2. QED  BY <1>1, <1>2, <2>1
<1> HIDE DEF p
<1>7. GoodBuf(q) /\ Used(q) = s \o o /\ q.len = Prefix + 1 + OffsetLen
  <2>1. GoodBuf(q) /\ Used(q) = Used(p) \o o /\ q.len = p.len + Len(o)
    BY <1>3, <1>6, PushKeeps
  <2>2. QED  BY <1>0, <1>3, <1>6, <2>1
<1> HIDE DEF q
<1>8. GoodBuf(f) /\ Used(f) = Used(q) \o m.bytes
  BY <1>2, <1>7, FillKeeps
<1>9. (q.len - Prefix) + Len(m.bytes) = 1 + OffsetLen + Len(m.bytes)
  <2>1. q.len - Prefix = 1 + OffsetLen
    BY <1>0, <1>7
  <2>2. QED  BY <2>1
<1>10. EncodeData(m, claimed) = PushSlice(f, z)
  BY <1>5, <1>9
<1> HIDE DEF f
<1>11. GoodBuf(PushSlice(f, z)) /\ Used(PushSlice(f, z)) = Used(f) \o z
  BY <1>2, <1>8, PushKeeps
<1>12. QED  BY <1>4, <1>7, <1>8, <1>10, <1>11 DEF Holds

\* What finish makes of it.
LEMMA Finished ==
  ASSUME FramingAssumption, NEW m \in Message, m.kind # "magic", NEW b, Holds(b, m)
  PROVE  Finish(b) = Bytes(m) /\ PayloadLen(b) = Len(Payload(m))
<1>1. Len(Used(b)) = b.len - Prefix
  BY BufUsed DEF Holds
<1>2. PayloadLen(b) = Len(Payload(m))
  BY <1>1 DEF Holds, PayloadLen
<1>3. Finish(b) = BigEndian(PayloadLen(b)) \o Used(b)
  BY DEF Finish, Used
<1>4. QED  BY <1>2, <1>3 DEF Holds, Bytes

LEMMA BytesAre ==
  ASSUME FramingAssumption, NEW m \in Message
  PROVE  /\ Bytes(m) \in Seq(Byte) /\ Len(Bytes(m)) \in Nat /\ 0 < Len(Bytes(m))
         /\ m.kind # "magic" => Len(Bytes(m)) = Prefix + Len(Payload(m))
         /\ m.kind = "magic" => Bytes(m) = Magic
<1>0. Prefix \in Nat /\ 0 < Prefix
  BY DEF FramingAssumption
<1>1. CASE m.kind = "magic"
  <2>1. Magic \in Seq(Byte) /\ Len(Magic) = 2
    BY Heads
  <2>2. Bytes(m) = Magic
    BY <1>1 DEF Bytes
  <2>3. Len(Bytes(m)) = 2
    BY <2>1, <2>2
  <2>4. Bytes(m) \in Seq(Byte) /\ Len(Bytes(m)) \in Nat /\ 0 < Len(Bytes(m))
    BY <2>1, <2>2, <2>3
  <2>5. QED  BY <1>1, <2>2, <2>4
<1>2. CASE m.kind # "magic"
  <2>1. Payload(m) \in Seq(Byte) /\ Len(Payload(m)) \in Nat
    BY <1>2, Payloads
  <2>2. BigEndian(Len(Payload(m))) \in Seq(Byte) /\ Len(BigEndian(Len(Payload(m)))) = Prefix
    BY <2>1, Heads
  <2>3. /\ BigEndian(Len(Payload(m))) \o Payload(m) \in Seq(Byte)
        /\ Len(BigEndian(Len(Payload(m))) \o Payload(m)) = Prefix + Len(Payload(m))
    BY <2>1, <2>2, Joined
  <2>4. QED  BY <1>0, <1>2, <2>1, <2>3 DEF Bytes
<1>3. QED  BY <1>1, <1>2

\* The reader understands what the writer meant.
LEMMA ReplyDecoded ==
  ASSUME FramingAssumption, NEW m, Legit(m), m.kind \in {"welcome", "paired"}
  PROVE  DecodeReply(Payload(m)) = m /\ m # Malformed
<1>1. m \in Message /\ m = Reply(m.kind)
  BY DEF Legit
<1>2. Payload(m) = <<ReplyCode[m.kind]>>
  BY <1>1, Payloads
<1>3. \A k \in DOMAIN ReplyCode : ReplyCode[k] = ReplyCode[m.kind] <=> k = m.kind
  BY DEF ReplyCode
<1>4. m.kind \in DOMAIN ReplyCode
  BY DEF ReplyCode
<1>5. (CHOOSE k \in DOMAIN ReplyCode : ReplyCode[k] = ReplyCode[m.kind]) = m.kind
  BY <1>3, <1>4
<1> DEFINE p == Payload(m)
<1>6. Len(p) = 1 /\ p[1] = ReplyCode[m.kind]
  BY <1>2
<1> HIDE DEF p
<1>7. \E k \in DOMAIN ReplyCode : ReplyCode[k] = p[1]
  BY <1>4, <1>6
<1>8. DecodeReply(p) = Reply(m.kind)
  BY <1>5, <1>6, <1>7 DEF DecodeReply
<1>9. Reply(m.kind) # Malformed
  BY DEF Reply, Malformed
<1>10. QED  BY <1>1, <1>8, <1>9 DEF p

LEMMA ControlDecoded ==
  ASSUME FramingAssumption, NEW m, Legit(m), m.kind = "control"
  PROVE  DecodeIncoming(Payload(m)) = m /\ m # Malformed
<1>1. m \in Message /\ m.offset = 0
  BY DEF Legit
<1> DEFINE s == <<KindOf.control>>
           z == Zeros(TagLen)
           h == s \o m.bytes
           p == SubSeq(Payload(m), 1, Len(Payload(m)) - TagLen)
<1>2. s \in Seq(Byte) /\ m.bytes \in Seq(Byte) /\ z \in Seq(Byte) /\ Len(s) = 1 /\ Len(z) = TagLen
  BY <1>1, Heads DEF KindOf, Message
<1>3. Payload(m) = h \o z
  BY <1>1, Payloads
<1>4. s[1] = KindOf.control
  OBVIOUS
<1> HIDE DEF s, z
<1>5. h \in Seq(Byte) /\ h[1] = KindOf.control /\ Len(h) = 1 + Len(m.bytes) /\ Len(h) \in Nat
  BY <1>2, <1>4, Joined
<1>6. SubSeq(h, 2, Len(h)) = m.bytes
  <2>1. SubSeq(h, Len(s) + 1, Len(h)) = m.bytes
    BY <1>2, CutTail
  <2>2. QED  BY <1>2, <2>1
<1> HIDE DEF h
<1>7. p = h
  <2>1. Len(h \o z) - TagLen = Len(h)
    BY <1>2, <1>5, JoinedLen
  <2>2. SubSeq(h \o z, 1, Len(h)) = h
    BY <1>2, <1>5, CutHead
  <2>3. QED  BY <1>3, <2>1, <2>2
<1>8. DecodeIncoming(Payload(m)) =
        CASE p = <<>> -> Malformed
          [] p # <<>> /\ p[1] = KindOf.control ->
               [kind |-> "control", offset |-> 0, bytes |-> SubSeq(p, 2, Len(p))]
          [] p # <<>> /\ p[1] = KindOf.data /\ Len(p) > OffsetLen ->
               [kind |-> "data", offset |-> p[2], bytes |-> SubSeq(p, 2 + OffsetLen, Len(p))]
          [] OTHER -> Malformed
  BY DEF DecodeIncoming
<1> HIDE DEF p
<1>9. p # <<>> /\ p[1] = KindOf.control /\ KindOf.control # KindOf.data
  BY <1>5, <1>7 DEF KindOf
<1>10. DecodeIncoming(Payload(m)) = [kind |-> "control", offset |-> 0, bytes |-> SubSeq(p, 2, Len(p))]
  BY <1>8, <1>9
<1>11. m = [kind |-> "control", offset |-> 0, bytes |-> m.bytes]
  BY <1>1 DEF Message
<1>12. QED  BY <1>6, <1>7, <1>10, <1>11 DEF Malformed

LEMMA DataDecoded ==
  ASSUME FramingAssumption, NEW m, Legit(m), m.kind = "data"
  PROVE  DecodeIncoming(Payload(m)) = m /\ m # Malformed
<1>0. OffsetLen \in Nat /\ 0 < OffsetLen
  BY DEF FramingAssumption
<1>1. m \in Message
  BY DEF Legit
<1> DEFINE s == <<KindOf.data>>
           o == Offset(m)
           z == Zeros(TagLen)
           g == s \o o
           h == g \o m.bytes
           p == SubSeq(Payload(m), 1, Len(Payload(m)) - TagLen)
<1>2. s \in Seq(Byte) /\ m.bytes \in Seq(Byte) /\ z \in Seq(Byte) /\ Len(s) = 1 /\ Len(z) = TagLen
  BY <1>1, Heads DEF KindOf, Message
<1>3. o \in Seq(Byte) /\ Len(o) = OffsetLen /\ o[1] = m.offset
  <2>1. o \in Seq(Byte) /\ Len(o) = OffsetLen
    BY <1>1, Heads
  <2>2. o[1] = m.offset
    BY <1>0 DEF Offset
  <2>3. QED  BY <2>1, <2>2
<1>4. Payload(m) = h \o z
  BY <1>1, Payloads
<1>5. s[1] = KindOf.data
  OBVIOUS
<1> HIDE DEF s, o, z
<1>6. /\ g \in Seq(Byte) /\ Len(g) = 1 + OffsetLen
      /\ g[1] = KindOf.data /\ g[2] = m.offset
  <2>1. /\ g \in Seq(Byte) /\ Len(g) = Len(s) + Len(o)
        /\ \A i \in 1..Len(s) : g[i] = s[i]
        /\ \A i \in 1..Len(o) : g[Len(s) + i] = o[i]
    BY <1>2, <1>3, Joined
  <2>2. 1 \in 1..Len(s) /\ 1 \in 1..Len(o) /\ Len(s) + 1 = 2
    BY <1>0, <1>2, <1>3
  <2>3. QED  BY <1>2, <1>3, <1>5, <2>1, <2>2
<1> HIDE DEF g
<1>7. /\ h \in Seq(Byte) /\ Len(h) = 1 + OffsetLen + Len(m.bytes) /\ Len(h) \in Nat /\ Len(m.bytes) \in Nat
      /\ h[1] = KindOf.data /\ h[2] = m.offset
  <2>1. /\ h \in Seq(Byte) /\ Len(h) = Len(g) + Len(m.bytes)
        /\ \A i \in 1..Len(g) : h[i] = g[i]
    <3>1. g \in Seq(Byte) /\ m.bytes \in Seq(Byte)
      BY <1>2, <1>6
    <3>2. QED  BY <3>1, Joined
  <2>2. 1 \in 1..Len(g) /\ 2 \in 1..Len(g)
    BY <1>0, <1>6
  <2>3. Len(h) \in Nat /\ Len(m.bytes) \in Nat
    BY <1>2, <2>1
  <2>4. QED  BY <1>6, <2>1, <2>2, <2>3
<1>8. SubSeq(h, 2 + OffsetLen, Len(h)) = m.bytes
  <2>1. SubSeq(h, Len(g) + 1, Len(h)) = m.bytes
    BY <1>2, <1>6, CutTail
  <2>2. Len(g) + 1 = 2 + OffsetLen
    BY <1>0, <1>6
  <2>3. QED  BY <2>1, <2>2
<1> HIDE DEF h
<1>9. p = h
  <2>1. Len(h \o z) - TagLen = Len(h)
    BY <1>2, <1>7, JoinedLen
  <2>2. SubSeq(h \o z, 1, Len(h)) = h
    BY <1>2, <1>7, CutHead
  <2>3. QED  BY <1>4, <2>1, <2>2
<1>10. DecodeIncoming(Payload(m)) =
        CASE p = <<>> -> Malformed
          [] p # <<>> /\ p[1] = KindOf.control ->
               [kind |-> "control", offset |-> 0, bytes |-> SubSeq(p, 2, Len(p))]
          [] p # <<>> /\ p[1] = KindOf.data /\ Len(p) > OffsetLen ->
               [kind |-> "data", offset |-> p[2], bytes |-> SubSeq(p, 2 + OffsetLen, Len(p))]
          [] OTHER -> Malformed
  BY DEF DecodeIncoming
<1> HIDE DEF p
<1>11. p # <<>> /\ p[1] = KindOf.data /\ KindOf.control # KindOf.data /\ Len(p) > OffsetLen
  <2>1. Len(p) > OffsetLen
    <3>1. Len(p) = 1 + OffsetLen + Len(m.bytes) /\ Len(m.bytes) \in Nat
      BY <1>7, <1>9
    <3> DEFINE n == Len(m.bytes)
    <3> HIDE DEF n
    <3>2. Len(p) = 1 + OffsetLen + n /\ n \in Nat
      BY <3>1 DEF n
    <3>3. QED  BY <1>0, <3>2
  <2>2. p # <<>>
    BY <1>0, <2>1
  <2>3. QED  BY <1>7, <1>9, <2>1, <2>2 DEF KindOf
<1>12. DecodeIncoming(Payload(m)) =
         [kind |-> "data", offset |-> p[2], bytes |-> SubSeq(p, 2 + OffsetLen, Len(p))]
  BY <1>10, <1>11
<1>13. m = [kind |-> "data", offset |-> m.offset, bytes |-> m.bytes]
  BY <1>1 DEF Message
<1>14. QED  BY <1>7, <1>8, <1>9, <1>12, <1>13 DEF Malformed

-----------------------------------------------------------------------------
(* The bytes of a stream. *)

\* Behind the first p bytes of a stream are those of s.
Shows(all, p, s) == /\ p + Len(s) <= Len(all)
                    /\ \A i \in 1..Len(s) : all[p + i] = s[i]

\* And nothing after them.
Ends(all, p, s) == Shows(all, p, s) /\ Len(all) = p + Len(s)

LEMMA ShowsMore ==
  ASSUME NEW S, NEW all \in Seq(S), NEW p \in Nat, NEW s \in Seq(S), NEW t \in Seq(S), Shows(all, p, s)
  PROVE  Shows(all \o t, p, s)
<1>1. /\ all \o t \in Seq(S) /\ Len(all \o t) = Len(all) + Len(t)
      /\ \A i \in 1..Len(all) : (all \o t)[i] = all[i]
  BY Joined
<1>2. p + Len(s) <= Len(all) /\ Len(s) \in Nat /\ Len(t) \in Nat /\ Len(all) \in Nat
  BY DEF Shows
<1>3. \A i \in 1..Len(s) : (all \o t)[p + i] = s[i]
  <2>1. TAKE i \in 1..Len(s)
  <2>2. p + i \in 1..Len(all)
    BY <1>2
  <2>3. QED  BY <1>1, <2>2 DEF Shows
<1>4. p + Len(s) <= Len(all) + Len(t)
  BY <1>2
<1>5. QED  BY <1>1, <1>3, <1>4 DEF Shows

LEMMA ShowsEnd ==
  ASSUME NEW S, NEW all \in Seq(S), NEW t \in Seq(S)
  PROVE  Shows(all \o t, Len(all), t)
<1>1. /\ Len(all \o t) = Len(all) + Len(t) /\ Len(all) \in Nat /\ Len(t) \in Nat
      /\ \A i \in 1..Len(t) : (all \o t)[Len(all) + i] = t[i]
  BY Joined
<1>2. QED  BY <1>1 DEF Shows

LEMMA ShowsBoth ==
  ASSUME NEW S, NEW all \in Seq(S), NEW p \in Nat, NEW s \in Seq(S), NEW t \in Seq(S)
  PROVE  Shows(all, p, s \o t) <=> Shows(all, p, s) /\ Shows(all, p + Len(s), t)
<1>1. /\ s \o t \in Seq(S) /\ Len(s \o t) = Len(s) + Len(t) /\ Len(s) \in Nat /\ Len(t) \in Nat
      /\ \A i \in 1..Len(s) : (s \o t)[i] = s[i]
      /\ \A i \in 1..Len(t) : (s \o t)[Len(s) + i] = t[i]
  BY Joined
<1>2. Len(all) \in Nat
  OBVIOUS
<1> DEFINE j == s \o t
<1>3. ASSUME Shows(all, p, j)
      PROVE  Shows(all, p, s) /\ Shows(all, p + Len(s), t)
  <2>1. p + Len(s) + Len(t) <= Len(all) /\ \A i \in 1..(Len(s) + Len(t)) : all[p + i] = j[i]
    BY <1>1, <1>3 DEF Shows
  <2>2. \A i \in 1..Len(s) : all[p + i] = s[i]
    <3>1. TAKE i \in 1..Len(s)
    <3>2. i \in 1..(Len(s) + Len(t))
      BY <1>1
    <3>3. QED  BY <1>1, <2>1, <3>2
  <2>3. \A i \in 1..Len(t) : all[(p + Len(s)) + i] = t[i]
    <3>1. TAKE i \in 1..Len(t)
    <3>2. Len(s) + i \in 1..(Len(s) + Len(t)) /\ (p + Len(s)) + i = p + (Len(s) + i)
      BY <1>1
    <3> HIDE DEF j
    <3>3. all[p + (Len(s) + i)] = j[Len(s) + i]
      BY <2>1, <3>2
    <3>4. QED  BY <1>1, <3>2, <3>3 DEF j
  <2>4. QED  BY <1>1, <1>2, <2>1, <2>2, <2>3 DEF Shows
<1>4. ASSUME Shows(all, p, s), Shows(all, p + Len(s), t)
      PROVE  Shows(all, p, j)
  <2>1. /\ (p + Len(s)) + Len(t) <= Len(all)
        /\ \A i \in 1..Len(s) : all[p + i] = s[i]
        /\ \A i \in 1..Len(t) : all[(p + Len(s)) + i] = t[i]
    BY <1>4 DEF Shows
  <2>2. ASSUME NEW i \in 1..(Len(s) + Len(t))
        PROVE  all[p + i] = j[i]
    <3>1. CASE i <= Len(s)
      BY <1>1, <2>1, <3>1
    <3>2. CASE i > Len(s)
      <4>1. i - Len(s) \in 1..Len(t) /\ Len(s) + (i - Len(s)) = i /\ (p + Len(s)) + (i - Len(s)) = p + i
        BY <1>1, <3>2
      <4> HIDE DEF j
      <4>2. all[(p + Len(s)) + (i - Len(s))] = t[i - Len(s)]
        BY <2>1, <4>1
      <4>3. j[Len(s) + (i - Len(s))] = t[i - Len(s)]
        BY <1>1, <4>1 DEF j
      <4>4. QED  BY <4>1, <4>2, <4>3
    <3>3. QED  BY <1>1, <3>1, <3>2
  <2>3. p + Len(j) <= Len(all) /\ Len(j) = Len(s) + Len(t)
    BY <1>1, <1>2, <2>1
  <2> HIDE DEF j
  <2>4. QED  BY <2>2, <2>3 DEF Shows
<1>5. QED  BY <1>3, <1>4

LEMMA EndsMore ==
  ASSUME NEW S, NEW all \in Seq(S), NEW p \in Nat, NEW s \in Seq(S), NEW t \in Seq(S), Ends(all, p, s)
  PROVE  Ends(all \o t, p, s \o t)
<1>1. Shows(all \o t, p, s) /\ Len(all) = p + Len(s)
  BY ShowsMore DEF Ends
<1>2. Shows(all \o t, p + Len(s), t)
  BY <1>1, ShowsEnd
<1>3. all \o t \in Seq(S)
  BY JoinedLen
<1>4. Shows(all \o t, p, s \o t)
  BY <1>1, <1>2, <1>3, ShowsBoth
<1>5. Len(all \o t) = p + Len(s \o t)
  <2>1. ASSUME NEW i \in Nat, NEW j \in Nat, NEW k \in Nat, i = p + j
        PROVE  i + k = p + (j + k)
    BY <2>1
  <2>2. Len(all) \in Nat /\ Len(s) \in Nat /\ Len(t) \in Nat
    OBVIOUS
  <2>3. Len(all) + Len(t) = p + (Len(s) + Len(t))
    BY <1>1, <2>1, <2>2
  <2>4. Len(all \o t) = Len(all) + Len(t) /\ Len(s \o t) = Len(s) + Len(t)
    BY JoinedLen
  <2>5. QED  BY <2>3, <2>4
<1>6. QED  BY <1>4, <1>5 DEF Ends

\* Two that are shown at the same place agree as far as both go.
LEMMA ShowsSame ==
  ASSUME NEW S, NEW all \in Seq(S), NEW p \in Nat, NEW s \in Seq(S), NEW t \in Seq(S),
         Shows(all, p, s), Shows(all, p, t), Len(s) = Len(t)
  PROVE  s = t
<1>1. \A i \in 1..Len(s) : s[i] = t[i]
  BY DEF Shows
<1>2. QED  BY <1>1, SameSeq

-----------------------------------------------------------------------------
(* The invariant. *)

\* Which kind of message comes after which, and what the reader then expects.
Follows ==
  {<<"none", "welcome">>, <<"none", "paired">>, <<"welcome", "paired">>, <<"paired", "magic">>}
    \cup ({"magic", "control", "data"} \X {"control", "data"})
Reads(kind) == CASE kind \in {"none", "welcome"} -> "replies"
                 [] kind = "paired" -> "magic"
                 [] kind \in {"magic", "control", "data"} -> "frames"

KindAt(i) == IF i = 0 THEN "none" ELSE written[i].kind

\* What is written, and what is being written, is legitimate and in order.
WriterInv ==
  /\ theirs \in TheirCaps
  /\ buf \in [{"relay", "control", "data"} -> [bytes : Seq(Byte), len : Nat]]
  /\ \A w \in {"relay", "control", "data"} : GoodBuf(buf[w])
  /\ written \in Seq(Message)
  /\ \A i \in 1..Len(written) :
       Legit(written[i]) /\ <<KindAt(i - 1), written[i].kind>> \in Follows
  /\ writer = "writing" => /\ Legit(message) /\ <<LastSent, message.kind>> \in Follows
                           /\ rest \in Seq(Byte) /\ rest # <<>>
  /\ writer = "refused" => message.kind = "control"

\* What is read is the beginning of what is written, and the reader knows where it is.
ReaderInv ==
  /\ got \in Seq(Message) /\ Len(got) <= Len(written)
  /\ \A i \in 1..Len(got) : got[i] = written[i]
  /\ inFlight \in Seq(Byte)
  /\ reader # "too large"
  /\ reader = "reading" =>
       /\ have \in Seq(Byte) /\ body \in Seq(Byte) /\ due \in 0..NoLength
       /\ reading = Reads(KindAt(Len(got)))
       /\ Len(have) <= IF reading = "magic" THEN Len(Magic) ELSE Prefix
       /\ due = NoLength => body = <<>>
       /\ due # NoLength => reading # "magic" /\ have = <<>> /\ Len(body) <= due

\* The bytes the reader has of the message it is reading.
Seen == IF due = NoLength THEN have ELSE BigEndian(due) \o body

\* The bytes of the whole stream, and where in them each message ends.
Marked(all, cut) ==
  \A i \in 1..Len(written) : /\ cut[i] = cut[i - 1] + Len(Bytes(written[i]))
                             /\ Shows(all, cut[i - 1], Bytes(written[i]))
\* Behind the last of them is the beginning of the one being written.
Begun(all, cut, begun, more) ==
  /\ Ends(all, cut[Len(written)], begun)
  /\ writer \in {"ready", "refused"} => begun = <<>>
  /\ writer = "writing" => more = rest /\ begun \o more = Bytes(message)
  /\ begun # <<>> => /\ Legit(message) /\ <<LastSent, message.kind>> \in Follows
                     /\ more # <<>> /\ begun \o more = Bytes(message)
\* What the reader has and what it has not read yet follow the messages it has read.
Left(all, cut) == Ends(all, cut[Len(got)], Seen \o inFlight)

StreamInv ==
  reader = "reading" =>
    \E all \in Seq(Byte), cut \in [Nat -> Nat], begun \in Seq(Byte), more \in Seq(Byte) :
      Marked(all, cut) /\ Begun(all, cut, begun, more) /\ Left(all, cut)

FramingInv == WriterInv /\ ReaderInv /\ StreamInv

\* Every kind that may be next is read as such.
LEMMA KindsRead ==
  ASSUME NEW kind, NEW next, <<kind, next>> \in Follows
  PROVE  /\ next \in {"welcome", "paired", "magic", "control", "data"}
         /\ Reads(kind) = "magic" <=> next = "magic"
         /\ Reads(kind) = "replies" <=> next \in {"welcome", "paired"}
         /\ Reads(kind) = "frames" <=> next \in {"control", "data"}
         /\ next = "welcome" => kind = "none"
         /\ next = "paired" => Reads(next) = "magic"
         /\ next = "welcome" => Reads(next) = "replies"
         /\ next \in {"magic", "control", "data"} => Reads(next) = "frames"
BY DEF Follows, Reads

LEMMA StartsFraming == ASSUME FramingAssumption, FramingInit PROVE FramingInv
<1>1. \A n \in Nat : GoodBuf(WithCapacity(n))
  <2>1. TAKE n \in Nat
  <2>2. Prefix \in Nat /\ Prefix + n \in Nat
    BY DEF FramingAssumption
  <2>3. Zeros(Prefix + n) \in Seq(Byte) /\ Len(Zeros(Prefix + n)) = Prefix + n
    BY <2>2, ZerosAre
  <2>4. QED  BY <2>2, <2>3 DEF GoodBuf, WithCapacity
<1>2. theirs \in TheirCaps /\ NoLength \in Nat
  BY Numbers DEF FramingInit
<1>3. FrameCapacity(ChunkSize(Agreed)) \in Nat
  <2>1. ChunkSize(Agreed) \in Nat /\ DefaultChunk \in Nat /\ OffsetLen \in Nat /\ TagLen \in Nat
    BY <1>2, Limits DEF FramingAssumption
  <2>2. QED  BY <2>1 DEF FrameCapacity, Most, Least, Overhead
<1>4. WriterInv
  <2>1. buf = [relay |-> WithCapacity(1), control |-> WithCapacity(1),
               data |-> WithCapacity(FrameCapacity(ChunkSize(Agreed)))]
    BY DEF FramingInit, Agreed
  <2>2. \A w \in {"relay", "control", "data"} : GoodBuf(buf[w])
    BY <1>1, <1>3, <2>1
  <2>3. buf \in [{"relay", "control", "data"} -> [bytes : Seq(Byte), len : Nat]]
    BY <1>1, <1>3, <2>1 DEF GoodBuf
  <2>4. written = <<>> /\ writer = "ready"
    BY DEF FramingInit
  <2>5. QED  BY <1>2, <2>2, <2>3, <2>4 DEF WriterInv
<1>5. ReaderInv
  BY <1>2 DEF FramingInit, ReaderInv, KindAt, Reads, FramingAssumption, Magic
<1>6. StreamInv
  <2> DEFINE cut == [n \in Nat |-> 0]
  <2>1. cut \in [Nat -> Nat] /\ cut[0] = 0 /\ <<>> \in Seq(Byte)
    OBVIOUS
  <2>2. written = <<>> /\ writer = "ready" /\ got = <<>> /\ inFlight = <<>> /\ Seen = <<>>
    BY <1>2 DEF FramingInit, Seen
  <2>3. Marked(<<>>, cut)
    BY <2>2 DEF Marked
  <2>4. Ends(<<>>, 0, <<>>)
    BY DEF Ends, Shows
  <2> HIDE DEF cut
  <2>5. Begun(<<>>, cut, <<>>, <<>>)
    BY <2>1, <2>2, <2>4 DEF Begun
  <2>6. Left(<<>>, cut)
    BY <2>1, <2>2, <2>4 DEF Left
  <2>7. QED  BY <2>1, <2>3, <2>5, <2>6 DEF StreamInv
<1>7. QED  BY <1>4, <1>5, <1>6 DEF FramingInv

-----------------------------------------------------------------------------
(* The writers. *)

\* What is legitimate depends on what has been announced.
LEMMA SameLimits ==
  ASSUME UNCHANGED theirs
  PROVE  /\ \A m : Legit(m)' <=> Legit(m)
         /\ LimitFor(Agreed)' = LimitFor(Agreed) /\ ChunkLimit(Agreed)' = ChunkLimit(Agreed)
<1>1. Agreed' = Agreed
  BY DEF Agreed
<1>2. LimitFor(Agreed)' = LimitFor(Agreed) /\ ChunkLimit(Agreed)' = ChunkLimit(Agreed)
  BY <1>1 DEF LimitFor, ChunkLimit
<1>3. ChunkSize(Agreed)' = ChunkSize(Agreed)
  BY <1>1 DEF ChunkSize
<1>4. QED  BY <1>2, <1>3 DEF Legit

LEMMA SameWriter ==
  ASSUME WriterInv, UNCHANGED WriterVars
  PROVE  WriterInv'
<1>1. UNCHANGED <<theirs, buf, message, rest, writer, written>>
  BY DEF WriterVars
<1>2. \A m : Legit(m)' <=> Legit(m)
  BY <1>1, SameLimits
<1>3. \A i : KindAt(i)' = KindAt(i)
  BY <1>1 DEF KindAt
<1>4. LastSent' = LastSent
  BY <1>1 DEF LastSent
<1>5. Legit(message)' <=> Legit(message)
  BY <1>1, <1>2
<1>6. \A i \in 1..Len(written) : Legit(written[i])'
  BY <1>1, <1>2 DEF WriterInv
<1>7. QED  BY <1>1, <1>3, <1>4, <1>5, <1>6 DEF WriterInv

\* A message is handed over to be written, or refused.
LEMMA BeginKeeps ==
  ASSUME FramingAssumption, FramingInv, UNCHANGED <<theirs, inFlight, written>>, UNCHANGED ReaderVars,
         writer = "ready",
         buf' \in [{"relay", "control", "data"} -> [bytes : Seq(Byte), len : Nat]],
         \A w \in {"relay", "control", "data"} : GoodBuf(buf'[w]),
         NEW m, message' = m,
         \/ writer' = "writing" /\ rest' = Bytes(m) /\ Legit(m) /\ <<LastSent, m.kind>> \in Follows
         \/ writer' = "refused" /\ m.kind = "control" /\ UNCHANGED rest
  PROVE  FramingInv'
<1>1. \A i : KindAt(i)' = KindAt(i)
  BY DEF KindAt
<1>2. \A n : Legit(n)' <=> Legit(n)
  BY SameLimits
<1>3. LastSent' = LastSent
  BY DEF LastSent
<1>4. ASSUME writer' = "writing"
      PROVE  rest' \in Seq(Byte) /\ rest' # <<>> /\ rest' = Bytes(message')
  <2>1. m \in Message /\ rest' = Bytes(m)
    BY <1>4 DEF Legit
  <2>2. Bytes(m) \in Seq(Byte) /\ 0 < Len(Bytes(m))
    BY <2>1, BytesAre
  <2>3. QED  BY <2>1, <2>2
<1>5. WriterInv'
  <2>1. Legit(message)' <=> Legit(m)
    BY <1>2
  <2>2. \A i \in 1..Len(written) : Legit(written[i])'
    BY <1>2 DEF FramingInv, WriterInv
  <2>3. QED  BY <1>1, <1>3, <1>4, <2>1, <2>2 DEF FramingInv, WriterInv
<1>6. ReaderInv'
  BY <1>1 DEF FramingInv, ReaderInv, ReaderVars
<1>7. StreamInv'
  <2>1. SUFFICES ASSUME reader' = "reading"
                 PROVE  \E all \in Seq(Byte), cut \in [Nat -> Nat], begun \in Seq(Byte), more \in Seq(Byte) :
                          Marked(all, cut)' /\ Begun(all, cut, begun, more)' /\ Left(all, cut)'
    BY DEF StreamInv
  <2>2. PICK all \in Seq(Byte), cut \in [Nat -> Nat], begun \in Seq(Byte), more \in Seq(Byte) :
          Marked(all, cut) /\ Begun(all, cut, begun, more) /\ Left(all, cut)
    BY <2>1 DEF FramingInv, StreamInv, ReaderVars
  <2>3. begun = <<>>
    BY <2>2 DEF Begun
  <2>4. Marked(all, cut)' /\ Left(all, cut)'
    BY <2>2 DEF Marked, Left, Seen, ReaderVars
  <2>5. PICK r \in Seq(Byte) : writer' = "writing" => r = rest' /\ <<>> \o r = Bytes(message')
    <3>1. CASE writer' = "writing"
      <4>1. <<>> \o rest' = rest'
        BY <1>4, <3>1
      <4>2. QED  BY <1>4, <3>1, <4>1
    <3>2. CASE writer' # "writing"
      <4>1. <<>> \in Seq(Byte)
        OBVIOUS
      <4>2. QED  BY <3>2, <4>1
    <3>3. QED  BY <3>1, <3>2
  <2>6. Begun(all, cut, <<>>, r)'
    BY <2>2, <2>3, <2>5 DEF Begun
  <2>7. <<>> \in Seq(Byte)
    OBVIOUS
  <2>8. QED  BY <2>4, <2>6, <2>7
<1>8. QED  BY <1>5, <1>6, <1>7 DEF FramingInv

LEMMA SubmitKeeps ==
  ASSUME FramingAssumption, FramingInv, NEW m, NEW b, NEW limit, NEW which \in {"relay", "control", "data"},
         Submit(which, b, m, limit), m \in Message, m.kind # "magic", Holds(b, m),
         Len(Payload(m)) <= limit => Legit(m), Len(Payload(m)) \in Nat, limit \in Nat,
         <<LastSent, m.kind>> \in Follows,
         m.kind # "control" => Len(Payload(m)) <= limit
  PROVE  FramingInv'
<1>1. Finish(b) = Bytes(m) /\ PayloadLen(b) = Len(Payload(m))
  BY Finished
<1>2. GoodBuf(b) /\ b \in [bytes : Seq(Byte), len : Nat]
  BY DEF Holds, GoodBuf
<1>3. /\ writer = "ready" /\ message' = m /\ UNCHANGED <<theirs, inFlight, written>> /\ UNCHANGED ReaderVars
      /\ buf' = [buf EXCEPT ![which] = b]
      /\ IF PayloadLen(b) > limit THEN writer' = "refused" /\ UNCHANGED rest
                                  ELSE writer' = "writing" /\ rest' = Finish(b)
  BY DEF Submit
<1>4. /\ buf' \in [{"relay", "control", "data"} -> [bytes : Seq(Byte), len : Nat]]
      /\ \A w \in {"relay", "control", "data"} : GoodBuf(buf'[w])
  BY <1>2, <1>3 DEF FramingInv, WriterInv
<1>5. \/ writer' = "writing" /\ rest' = Bytes(m) /\ Legit(m) /\ <<LastSent, m.kind>> \in Follows
      \/ writer' = "refused" /\ m.kind = "control" /\ UNCHANGED rest
  BY <1>1, <1>3
<1>6. QED  BY <1>3, <1>4, <1>5, BeginKeeps

LEMMA SendReplyKeeps == ASSUME FramingAssumption, FramingInv, SendReply PROVE FramingInv'
<1>1. PICK what \in {"welcome", "paired"} :
        /\ LastSent = "none" \/ (LastSent = "welcome" /\ what = "paired")
        /\ Submit("relay", EncodeReply(Reply(what)), Reply(what), RelayMax)
  BY DEF SendReply
<1> DEFINE m == Reply(what)
<1>2. m \in Message /\ m.kind = what
  <2>1. 0 \in Byte
    BY DEF FramingAssumption, Byte
  <2>2. QED  BY <2>1 DEF Reply, Message
<1>3. Legit(m)
  BY <1>2 DEF Legit
<1> HIDE DEF m
<1>4. Holds(EncodeReply(m), m)
  BY <1>2, ReplyEncoded DEF FramingInv, WriterInv
<1>5. Len(Payload(m)) = 1
  BY <1>2, Payloads
<1>6. 1 <= RelayMax /\ RelayMax \in Nat
  BY Limits DEF FramingInv, WriterInv, FramingAssumption
<1>7. <<LastSent, m.kind>> \in Follows
  BY <1>1, <1>2 DEF Follows
<1>8. Submit("relay", EncodeReply(m), m, RelayMax)
  BY <1>1 DEF m
<1>9. "relay" \in {"relay", "control", "data"} /\ m.kind # "magic"
  BY <1>2
<1>10. Len(Payload(m)) <= RelayMax /\ Len(Payload(m)) \in Nat
  BY <1>5, <1>6
<1>11. QED  BY <1>2, <1>3, <1>4, <1>6, <1>7, <1>8, <1>9, <1>10, SubmitKeeps

LEMMA SendMagicKeeps == ASSUME FramingAssumption, FramingInv, SendMagic PROVE FramingInv'
<1>1. /\ writer = "ready" /\ LastSent = "paired" /\ writer' = "writing" /\ rest' = Magic
      /\ message' = MagicItem /\ UNCHANGED <<theirs, buf, inFlight, written>> /\ UNCHANGED ReaderVars
  BY DEF SendMagic
<1>2. MagicItem \in Message /\ MagicItem.kind = "magic"
  <2>1. 0 \in Byte /\ Magic \in Seq(Byte)
    BY Heads DEF FramingAssumption, Byte
  <2>2. QED  BY <2>1 DEF MagicItem, Message
<1>3. Legit(MagicItem) /\ Bytes(MagicItem) = Magic
  BY <1>2 DEF Legit, Bytes
<1>4. <<LastSent, MagicItem.kind>> \in Follows
  BY <1>1, <1>2 DEF Follows
<1>5. /\ buf' \in [{"relay", "control", "data"} -> [bytes : Seq(Byte), len : Nat]]
      /\ \A w \in {"relay", "control", "data"} : GoodBuf(buf'[w])
  BY <1>1 DEF FramingInv, WriterInv
<1>6. QED  BY <1>1, <1>3, <1>4, <1>5, BeginKeeps

LEMMA ContentIs ==
  ASSUME FramingAssumption, FramingInv, NEW n \in Nat
  PROVE  Content(n) \in Seq(Byte) /\ Len(Content(n)) = n
<1>1. Len(written) \in Nat /\ Base \in Nat \ {0}
  BY DEF FramingInv, WriterInv, FramingAssumption
<1>2. (Len(written) + 1) % Base \in Byte
  BY <1>1, Quotients DEF Byte
<1>3. QED  BY <1>2 DEF Content

LEMMA SendControlKeeps == ASSUME FramingAssumption, FramingInv, SendControl PROVE FramingInv'
<1>1. PICK n \in ControlSizes : Submit("control", EncodeControl(Control(n)), Control(n), LimitFor(Agreed))
  BY DEF SendControl
<1> DEFINE m == Control(n)
<1>2. m \in Message /\ m.kind = "control" /\ m.offset = 0
  <2>1. 0 \in Byte /\ Content(n) \in Seq(Byte)
    BY ContentIs DEF FramingAssumption, Byte
  <2>2. QED  BY <2>1 DEF Control, Message
<1> HIDE DEF m
<1>3. Len(Payload(m)) <= LimitFor(Agreed) => Legit(m)
  BY <1>2 DEF Legit
<1>4. Holds(EncodeControl(m), m)
  BY <1>2, ControlEncoded DEF FramingInv, WriterInv
<1>5. Len(Payload(m)) \in Nat
  BY <1>2, Payloads
<1>6. LimitFor(Agreed) \in Nat
  BY Limits DEF FramingInv, WriterInv
<1>7. <<LastSent, m.kind>> \in Follows
  BY <1>2 DEF Follows, SendControl, MayFrame
<1>8. Submit("control", EncodeControl(m), m, LimitFor(Agreed))
  BY <1>1 DEF m
<1>9. "control" \in {"relay", "control", "data"} /\ m.kind # "magic"
  BY <1>2
<1>10. QED  BY <1>2, <1>3, <1>4, <1>5, <1>6, <1>7, <1>8, <1>9, SubmitKeeps

LEMMA SendDataKeeps == ASSUME FramingAssumption, FramingInv, SendData PROVE FramingInv'
<1>0. /\ LimitFor(Agreed) \in Nat /\ ChunkSize(Agreed) \in Nat
      /\ ChunkSize(Agreed) + 1 + OffsetLen + TagLen <= LimitFor(Agreed)
      /\ OffsetLen \in Nat /\ TagLen \in Nat
  BY Limits DEF FramingInv, WriterInv, FramingAssumption
<1> DEFINE Sends(k, claimed) ==
             LET m == Data(Len(written) % Base, k)
             IN  Submit("data", EncodeData(m, claimed), m, LimitFor(Agreed))
<1>12. PICK claimed \in 1..ChunkSize(Agreed) : \E n \in 1..claimed : Sends(n, claimed)
  BY DEF SendData
<1>1. PICK n \in 1..claimed : Sends(n, claimed)
  BY <1>12
<1>2. claimed \in Nat /\ n \in Nat /\ n <= claimed /\ n \in 1..ChunkSize(Agreed)
  BY <1>0
<1> DEFINE m == Data(Len(written) % Base, n)
<1>3. m \in Message /\ m.kind = "data" /\ Len(m.bytes) = n
  <2>1. Len(written) \in Nat /\ Base \in Nat \ {0}
    BY DEF FramingInv, WriterInv, FramingAssumption
  <2>2. Len(written) % Base \in Byte
    BY <2>1, Quotients DEF Byte
  <2>3. Content(n) \in Seq(Byte) /\ Len(Content(n)) = n
    BY <1>2, ContentIs
  <2>4. QED  BY <2>2, <2>3 DEF Data, Message
<1>4. Submit("data", EncodeData(m, claimed), m, LimitFor(Agreed))
  BY <1>1
<1> HIDE DEF m
<1>5. Len(Payload(m)) = 1 + OffsetLen + n + TagLen
  BY <1>3, Payloads
<1>6. Len(Payload(m)) <= LimitFor(Agreed) /\ Len(Payload(m)) \in Nat
  BY <1>0, <1>2, <1>5
<1>7. Legit(m)
  BY <1>2, <1>3, <1>6 DEF Legit
<1>8. Holds(EncodeData(m, claimed), m)
  BY <1>2, <1>3, DataEncoded DEF FramingInv, WriterInv
<1>9. <<LastSent, m.kind>> \in Follows
  BY <1>3 DEF Follows, SendData, MayFrame
<1>10. "data" \in {"relay", "control", "data"} /\ m.kind # "magic"
  BY <1>3
<1>11. QED  BY <1>0, <1>3, <1>4, <1>6, <1>7, <1>8, <1>9, <1>10, SubmitKeeps

LEMMA Split ==
  ASSUME NEW S, NEW s \in Seq(S), NEW n \in 0..Len(s)
  PROVE  /\ SubSeq(s, 1, n) \in Seq(S) /\ Len(SubSeq(s, 1, n)) = n
         /\ SubSeq(s, n + 1, Len(s)) \in Seq(S) /\ Len(SubSeq(s, n + 1, Len(s))) = Len(s) - n
         /\ SubSeq(s, 1, n) \o SubSeq(s, n + 1, Len(s)) = s
<1> DEFINE a == SubSeq(s, 1, n)
           b == SubSeq(s, n + 1, Len(s))
<1>1. n \in Nat /\ n <= Len(s) /\ Len(s) \in Nat
  OBVIOUS
<1>2. a \in Seq(S) /\ Len(a) = n /\ \A i \in 1..n : a[i] = s[i]
  <2>1. /\ SubSeq(s, 0 + 1, n) \in Seq(S) /\ Len(SubSeq(s, 0 + 1, n)) = n - 0
        /\ \A i \in 1..(n - 0) : SubSeq(s, 0 + 1, n)[i] = s[0 + i]
    BY <1>1, Cut
  <2>2. 0 + 1 = 1 /\ n - 0 = n /\ \A i \in 1..n : 0 + i = i
    BY <1>1
  <2>3. QED  BY <2>1, <2>2
<1>3. b \in Seq(S) /\ Len(b) = Len(s) - n /\ \A i \in 1..(Len(s) - n) : b[i] = s[n + i]
  BY <1>1, Cut
<1>4. Len(s) = Len(a) + Len(b) /\ \A i \in 1..Len(a) : s[i] = a[i]
  <2> HIDE DEF a, b
  <2>1. QED  BY <1>1, <1>2, <1>3
<1>5. \A i \in 1..Len(b) : s[Len(a) + i] = b[i]
  BY <1>1, <1>2, <1>3
<1> HIDE DEF a, b
<1>6. s = a \o b
  BY <1>2, <1>3, <1>4, <1>5, IsJoined
<1>7. QED  BY <1>2, <1>3, <1>6 DEF a, b

\* Appending to what has been read or written.
LEMMA Appending ==
  ASSUME NEW S, NEW s \in Seq(S), NEW e \in S
  PROVE  /\ Append(s, e) \in Seq(S) /\ Len(Append(s, e)) = Len(s) + 1
         /\ Append(s, e)[Len(s) + 1] = e /\ Append(s, e) # <<>>
         /\ \A i \in 1..Len(s) : Append(s, e)[i] = s[i]
OBVIOUS

\* One name for the two ways to join three sequences.
Joins(a, b, c) == (a \o b) \o c = a \o (b \o c)

LEMMA Associative == \A a, b, c \in Seq(Byte) : Joins(a, b, c)
BY DEF Joins

\* The message that is being written has been written.
LEMMA WrittenMore ==
  ASSUME FramingAssumption, WriterInv, writer = "writing", written' = Append(written, message),
         writer' = "ready", UNCHANGED <<theirs, buf, message>>
  PROVE  /\ WriterInv' /\ Len(written') = Len(written) + 1
         /\ \A i \in 1..Len(written) : written'[i] = written[i]
         /\ written'[Len(written) + 1] = message /\ message \in Message
         /\ \A i \in 0..Len(written) : KindAt(i)' = KindAt(i)
<1>1. Legit(message) /\ message \in Message /\ <<LastSent, message.kind>> \in Follows
  BY DEF WriterInv, Legit
<1>2. Len(written) \in Nat /\ written \in Seq(Message)
  BY DEF WriterInv
<1>3. /\ written' \in Seq(Message) /\ Len(written') = Len(written) + 1
      /\ written'[Len(written) + 1] = message
      /\ \A i \in 1..Len(written) : written'[i] = written[i]
  BY <1>1, <1>2, Appending
<1>4. \A i \in 0..Len(written) : KindAt(i)' = KindAt(i)
  BY <1>2, <1>3 DEF KindAt
<1>5. LastSent = KindAt(Len(written))
  BY <1>2 DEF LastSent, KindAt
<1>6. \A m : Legit(m)' <=> Legit(m)
  BY SameLimits
<1>7. ASSUME NEW i \in 1..Len(written')
      PROVE  Legit(written[i])' /\ <<KindAt(i - 1)', written'[i].kind>> \in Follows
  <2>1. CASE i \in 1..Len(written)
    <3>1. i - 1 \in 0..Len(written) /\ written'[i] = written[i]
      BY <1>2, <1>3, <2>1
    <3>2. Legit(written[i]) /\ <<KindAt(i - 1), written[i].kind>> \in Follows
      BY <2>1 DEF WriterInv
    <3>3. PICK m : m = written'[i]
      OBVIOUS
    <3>4. KindAt(i - 1)' = KindAt(i - 1)
      BY <1>4, <3>1
    <3>5. Legit(m)'
      BY <1>6, <3>1, <3>2, <3>3
    <3>6. QED  BY <3>1, <3>2, <3>3, <3>4, <3>5
  <2>2. CASE i = Len(written) + 1
    <3>1. i - 1 = Len(written) /\ i - 1 \in 0..Len(written) /\ written'[i] = message
      BY <1>2, <1>3, <2>2
    <3>2. PICK m : m = written'[i]
      OBVIOUS
    <3>3. Legit(m)'
      BY <1>1, <1>6, <3>1, <3>2
    <3>4. KindAt(i - 1)' = LastSent
      BY <1>4, <1>5, <3>1
    <3>5. Legit(written[i])'
      BY <3>2, <3>3
    <3>6. <<KindAt(i - 1)', written'[i].kind>> \in Follows
      BY <1>1, <3>1, <3>4
    <3>7. QED  BY <3>5, <3>6
  <2>3. i \in 1..Len(written) \/ i = Len(written) + 1
    BY <1>2, <1>3
  <2>4. QED  BY <2>1, <2>2, <2>3
<1>8. WriterInv'
  <2>1. /\ theirs' \in TheirCaps
        /\ buf' \in [{"relay", "control", "data"} -> [bytes : Seq(Byte), len : Nat]]
        /\ \A w \in {"relay", "control", "data"} : GoodBuf(buf'[w])
    BY DEF WriterInv
  <2>2. QED  BY <1>3, <1>7, <2>1 DEF WriterInv
<1>9. QED  BY <1>1, <1>3, <1>4, <1>8

LEMMA Basics ==
  ASSUME FramingAssumption, FramingInv
  PROVE  /\ written \in Seq(Message) /\ Len(written) \in Nat
         /\ got \in Seq(Message) /\ Len(got) \in Nat /\ Len(got) <= Len(written)
         /\ \A i \in 1..Len(got) : got[i] = written[i]
         /\ \A i \in 1..Len(written) : written[i] \in Message /\ Bytes(written[i]) \in Seq(Byte)
         /\ inFlight \in Seq(Byte) /\ Len(inFlight) \in Nat /\ NoLength \in Nat
         /\ reader = "reading" => /\ have \in Seq(Byte) /\ body \in Seq(Byte) /\ due \in Nat
                                  /\ Seen \in Seq(Byte) /\ Seen \o inFlight \in Seq(Byte)
<1>1. /\ written \in Seq(Message) /\ got \in Seq(Message) /\ Len(got) <= Len(written)
      /\ inFlight \in Seq(Byte) /\ \A i \in 1..Len(got) : got[i] = written[i]
  BY DEF FramingInv, ReaderInv, WriterInv
<1>2. NoLength \in Nat
  BY Numbers
<1>3. \A i \in 1..Len(written) : written[i] \in Message /\ Bytes(written[i]) \in Seq(Byte)
  <2>1. \A i \in 1..Len(written) : written[i] \in Message
    BY <1>1
  <2>2. QED  BY <2>1, BytesAre
<1>4. ASSUME reader = "reading"
      PROVE  /\ have \in Seq(Byte) /\ body \in Seq(Byte) /\ due \in Nat
             /\ Seen \in Seq(Byte) /\ Seen \o inFlight \in Seq(Byte)
  <2>1. have \in Seq(Byte) /\ body \in Seq(Byte) /\ due \in 0..NoLength
    BY <1>4 DEF FramingInv, ReaderInv
  <2>2. due \in Nat /\ BigEndian(due) \in Seq(Byte)
    BY <1>2, <2>1, Heads
  <2>3. BigEndian(due) \o body \in Seq(Byte)
    BY <2>1, <2>2, JoinedLen
  <2>4. Seen \in Seq(Byte)
    BY <2>1, <2>3 DEF Seen
  <2>5. QED  BY <1>1, <2>1, <2>2, <2>4, JoinedLen
<1>5. QED  BY <1>1, <1>2, <1>3, <1>4

LEMMA SeenGrows ==
  ASSUME FramingAssumption, FramingInv, reader = "reading", NEW t \in Seq(Byte)
  PROVE  (Seen \o inFlight) \o t = Seen \o (inFlight \o t)
<1>1. Seen \in Seq(Byte) /\ inFlight \in Seq(Byte)
  BY Basics
<1>2. Joins(Seen, inFlight, t)
  BY <1>1, Associative, Zenon
<1>3. QED  BY <1>2, Zenon DEF Joins

LEMMA WriteSomeKeeps == ASSUME FramingAssumption, FramingInv, WriteSome PROVE FramingInv'
<1>1. /\ writer = "writing" /\ UNCHANGED <<theirs, buf, message>> /\ UNCHANGED ReaderVars
      /\ rest \in Seq(Byte) /\ inFlight \in Seq(Byte) /\ written \in Seq(Message)
      /\ Legit(message) /\ message \in Message /\ <<LastSent, message.kind>> \in Follows
  BY DEF WriteSome, FramingInv, WriterInv, ReaderInv, Legit
<1>2. PICK n \in 1..Least(Len(rest), Socket - Len(inFlight)) :
        /\ inFlight' = inFlight \o SubSeq(rest, 1, n)
        /\ rest' = SubSeq(rest, n + 1, Len(rest))
        /\ IF n = Len(rest) THEN writer' = "ready" /\ written' = Append(written, message)
                            ELSE UNCHANGED <<writer, written>>
  BY DEF WriteSome
<1>3. n \in 1..Len(rest) /\ n \in 0..Len(rest)
  <2>1. Len(rest) \in Nat /\ Len(inFlight) \in Nat /\ Socket \in Nat
    BY <1>1 DEF FramingAssumption
  <2>2. QED  BY <2>1 DEF Least
<1>4. PICK t \in Seq(Byte) : t = SubSeq(rest, 1, n) /\ Len(t) = n
  <2>1. SubSeq(rest, 1, n) \in Seq(Byte) /\ Len(SubSeq(rest, 1, n)) = n
    BY <1>1, <1>3, Split
  <2>2. QED  BY <2>1
<1>9. t \in Seq(Byte)
  BY <1>4
<1>5. /\ rest' \in Seq(Byte) /\ Len(rest') = Len(rest) - n /\ t \o rest' = rest
      /\ inFlight' = inFlight \o t /\ inFlight' \in Seq(Byte)
  <2>1. /\ SubSeq(rest, n + 1, Len(rest)) \in Seq(Byte)
        /\ Len(SubSeq(rest, n + 1, Len(rest))) = Len(rest) - n
        /\ SubSeq(rest, 1, n) \o SubSeq(rest, n + 1, Len(rest)) = rest
    BY <1>1, <1>3, Split
  <2>2. inFlight \o t \in Seq(Byte)
    BY <1>1, <1>4, JoinedLen
  <2>3. QED  BY <1>2, <1>4, <2>1, <2>2
<1>6. Len(rest) \in Nat /\ Len(written) \in Nat /\ Len(got) \in Nat /\ Len(got) <= Len(written)
  BY <1>1, Basics
<1>7. CASE n = Len(rest)
  <2>1. /\ WriterInv' /\ Len(written') = Len(written) + 1
        /\ \A i \in 1..Len(written) : written'[i] = written[i]
        /\ written'[Len(written) + 1] = message
        /\ \A i \in 0..Len(written) : KindAt(i)' = KindAt(i)
    BY <1>1, <1>2, <1>7, WrittenMore DEF FramingInv
  <2>2. writer' = "ready" /\ rest' = <<>> /\ t = rest
    <3>1. rest' = <<>>
      BY <1>5, <1>7
    <3>2. t \o <<>> = t
      BY <1>4
    <3>3. QED  BY <1>2, <1>5, <1>7, <3>1, <3>2
  <2>3. ReaderInv'
    <3>1. /\ UNCHANGED <<reading, have, body, due, got, reader>> /\ Len(got) <= Len(written')
          /\ KindAt(Len(got))' = KindAt(Len(got))
      BY <1>1, <1>6, <2>1 DEF ReaderVars
    <3>2. \A i \in 1..Len(got) : got[i] = written'[i]
      <4>1. TAKE i \in 1..Len(got)
      <4>2. i \in 1..Len(written)
        BY <1>6
      <4>3. QED  BY <2>1, <4>2, Basics
    <3>3. QED  BY <1>5, <3>1, <3>2 DEF FramingInv, ReaderInv
  <2>4. ASSUME reader' = "reading"
        PROVE  \E all \in Seq(Byte), cut \in [Nat -> Nat], begun \in Seq(Byte), more \in Seq(Byte) :
                 Marked(all, cut)' /\ Begun(all, cut, begun, more)' /\ Left(all, cut)'
    <3>1. PICK all \in Seq(Byte), cut \in [Nat -> Nat], begun \in Seq(Byte), more \in Seq(Byte) :
            Marked(all, cut) /\ Begun(all, cut, begun, more) /\ Left(all, cut)
      <4>1. reader = "reading"
        BY <1>1, <2>4 DEF ReaderVars
      <4>2. QED  BY <4>1 DEF FramingInv, StreamInv
    <3>2. PICK next \in Seq(Byte) : next = all \o t
      <4>1. all \o t \in Seq(Byte)
        BY <1>4, JoinedLen
      <4>2. QED  BY <4>1
    <3> DEFINE N == Len(written)
               K == Len(got)
    <3>3. PICK cut2 \in [Nat -> Nat] : /\ \A i \in 0..N : cut2[i] = cut[i]
                                       /\ cut2[N + 1] = Len(next)
      <4> DEFINE c == [i \in Nat |-> IF i = N + 1 THEN Len(next) ELSE cut[i]]
      <4>1. c \in [Nat -> Nat]
        <5>1. Len(next) \in Nat
          OBVIOUS
        <5>2. QED  BY <5>1
      <4>2. \A i \in 0..N : c[i] = cut[i]
        BY <1>6
      <4>3. c[N + 1] = Len(next)
        BY <1>6
      <4> HIDE DEF c
      <4>4. QED  BY <4>1, <4>2, <4>3
    <3>4. Bytes(message) = begun \o t /\ Bytes(message) \in Seq(Byte)
      <4>1. Bytes(message) = begun \o more /\ more = rest
        BY <1>1, <3>1 DEF Begun
      <4>2. QED  BY <1>1, <2>2, <4>1, BytesAre
    <3>5. PICK p \in Nat : p = cut[N]
      BY <1>6
    <3>6. Ends(next, p, Bytes(message))
      BY <1>9, <3>1, <3>2, <3>4, <3>5, EndsMore DEF Begun
    <3>7. Marked(next, cut2)'
      <4>1. ASSUME NEW i \in 1..(N + 1)
            PROVE  /\ cut2[i] = cut2[i - 1] + Len(Bytes(written'[i]))
                   /\ Shows(next, cut2[i - 1], Bytes(written'[i]))
        <5>1. CASE i \in 1..N
          <6>1. i \in 0..N /\ i - 1 \in 0..N /\ written'[i] = written[i]
            <7>1. i \in 0..N /\ i - 1 \in 0..N
              BY <1>6, <5>1
            <7>2. QED  BY <2>1, <5>1, <7>1
          <6>2. /\ cut[i] = cut[i - 1] + Len(Bytes(written[i]))
                /\ Shows(all, cut[i - 1], Bytes(written[i]))
            BY <3>1, <5>1 DEF Marked
          <6>4. Bytes(written[i]) \in Seq(Byte) /\ cut[i - 1] \in Nat
            <7>1. Bytes(written[i]) \in Seq(Byte)
              BY <5>1, Basics
            <7>2. i - 1 \in Nat
              BY <1>6, <6>1
            <7>3. QED  BY <7>1, <7>2
          <6>5. Shows(next, cut[i - 1], Bytes(written[i]))
            BY <1>4, <3>2, <6>2, <6>4, ShowsMore
          <6>6. QED  BY <3>3, <6>1, <6>2, <6>5
        <5>2. CASE i = N + 1
          <6>1. i - 1 = N /\ N \in 0..N /\ written'[i] = message
            BY <1>6, <2>1, <5>2
          <6>2. cut2[i] = Len(next) /\ cut2[i - 1] = p
            BY <3>3, <3>5, <5>2, <6>1
          <6>3. QED  BY <3>6, <6>1, <6>2 DEF Ends
        <5>3. i \in 1..N \/ i = N + 1
          <6>1. N \in Nat
            BY <1>6
          <6> HIDE DEF N
          <6>2. QED  BY <6>1
        <5>4. QED  BY <5>1, <5>2, <5>3
      <4>2. QED  BY <2>1, <4>1 DEF Marked
    <3>8. Begun(next, cut2, <<>>, <<>>)'
      <4>1. Ends(next, Len(next), <<>>)
        BY DEF Ends, Shows
      <4>2. cut2[Len(written')] = Len(next)
        BY <2>1, <3>3
      <4>3. QED  BY <2>2, <4>1, <4>2 DEF Begun
    <3>9. Left(next, cut2)'
      <4>1. cut2[K] = cut[K] /\ cut[K] \in Nat
        BY <1>6, <3>3
      <4>2. Seen' = Seen /\ K' = K
        BY <1>1 DEF Seen, ReaderVars
      <4>3. Seen \in Seq(Byte) /\ reader = "reading"
        BY <1>1, <2>4, Basics DEF ReaderVars
      <4>4. PICK s \in Seq(Byte) : s = Seen \o inFlight
        BY <1>1, <4>3, JoinedLen
      <4>5. PICK q \in Nat : q = cut[K]
        BY <4>1
      <4>6. Ends(next, q, s \o t)
        BY <1>9, <3>1, <3>2, <4>4, <4>5, EndsMore DEF Left
      <4>7. Seen' \o inFlight' = s \o t
        BY <1>5, <1>9, <4>2, <4>3, <4>4, SeenGrows
      <4>8. QED  BY <4>1, <4>2, <4>5, <4>6, <4>7 DEF Left
    <3>10. <<>> \in Seq(Byte)
      OBVIOUS
    <3>11. QED  BY <3>7, <3>8, <3>9, <3>10
  <2>5. QED  BY <2>1, <2>3, <2>4 DEF FramingInv, StreamInv
<1>8. CASE n # Len(rest)
  <2>1. UNCHANGED <<writer, written>>
    BY <1>2, <1>8
  <2>2. rest' # <<>>
    BY <1>3, <1>5, <1>6, <1>8
  <2>3. \A i : KindAt(i)' = KindAt(i)
    BY <2>1 DEF KindAt
  <2>4. LastSent' = LastSent
    BY <2>1 DEF LastSent
  <2>5. WriterInv'
    <3>1. \A m : Legit(m)' <=> Legit(m)
      BY <1>1, SameLimits
    <3>2. Legit(message)' <=> Legit(message)
      BY <1>1, <3>1
    <3>3. \A i \in 1..Len(written) : Legit(written[i])'
      BY <2>1, <3>1 DEF FramingInv, WriterInv
    <3>4. /\ theirs' \in TheirCaps
          /\ buf' \in [{"relay", "control", "data"} -> [bytes : Seq(Byte), len : Nat]]
          /\ \A w \in {"relay", "control", "data"} : GoodBuf(buf'[w])
      BY <1>1 DEF FramingInv, WriterInv
    <3>5. \A i \in 1..Len(written') : <<KindAt(i - 1)', written'[i].kind>> \in Follows
      BY <2>1, <2>3 DEF FramingInv, WriterInv
    <3>6. QED  BY <1>1, <1>5, <2>1, <2>2, <2>4, <3>2, <3>3, <3>4, <3>5 DEF WriterInv
  <2>6. ReaderInv'
    <3>1. UNCHANGED <<reading, have, body, due, got, reader>>
      BY <1>1 DEF ReaderVars
    <3>2. QED  BY <1>5, <2>1, <2>3, <3>1 DEF FramingInv, ReaderInv
  <2>7. ASSUME reader' = "reading"
        PROVE  \E all \in Seq(Byte), cut \in [Nat -> Nat], begun \in Seq(Byte), more \in Seq(Byte) :
                 Marked(all, cut)' /\ Begun(all, cut, begun, more)' /\ Left(all, cut)'
    <3>1. PICK all \in Seq(Byte), cut \in [Nat -> Nat], begun \in Seq(Byte), more \in Seq(Byte) :
            Marked(all, cut) /\ Begun(all, cut, begun, more) /\ Left(all, cut)
      <4>1. reader = "reading"
        BY <1>1, <2>7 DEF ReaderVars
      <4>2. QED  BY <4>1 DEF FramingInv, StreamInv
    <3>2. PICK next \in Seq(Byte) : next = all \o t
      <4>1. all \o t \in Seq(Byte)
        BY <1>4, JoinedLen
      <4>2. QED  BY <4>1
    <3>3. PICK begun2 \in Seq(Byte) : begun2 = begun \o t
      <4>1. begun \o t \in Seq(Byte)
        BY <1>4, JoinedLen
      <4>2. QED  BY <4>1
    <3>4. PICK more2 \in Seq(Byte) : more2 = rest'
      BY <1>5
    <3>5. begun \o rest = Bytes(message)
      BY <1>1, <3>1 DEF Begun
    <3>6. begun2 \o more2 = Bytes(message)
      <4>1. (begun \o t) \o more2 = begun \o (t \o more2)
        <5>1. Joins(begun, t, more2)
          BY <1>9, <3>1, <3>4, Associative, Zenon
        <5>2. QED  BY <5>1, Zenon DEF Joins
      <4>2. QED  BY <1>5, <3>3, <3>4, <3>5, <4>1
    <3>7. Marked(next, cut)'
      <4>1. ASSUME NEW i \in 1..Len(written)
            PROVE  /\ cut[i] = cut[i - 1] + Len(Bytes(written[i]))
                   /\ Shows(next, cut[i - 1], Bytes(written[i]))
        <5>1. /\ cut[i] = cut[i - 1] + Len(Bytes(written[i]))
              /\ Shows(all, cut[i - 1], Bytes(written[i]))
          BY <3>1 DEF Marked
        <5>2. Bytes(written[i]) \in Seq(Byte) /\ cut[i - 1] \in Nat
          <6>1. i - 1 \in Nat
            BY <1>6
          <6>2. QED  BY <6>1, Basics
        <5>3. QED  BY <1>9, <3>2, <5>1, <5>2, ShowsMore
      <4>2. QED  BY <2>1, <4>1 DEF Marked
    <3>8. Begun(next, cut, begun2, more2)'
      <4>1. PICK p \in Nat : p = cut[Len(written)]
        BY <1>6
      <4>2. Ends(next, p, begun2)
        BY <1>9, <3>1, <3>2, <3>3, <4>1, EndsMore DEF Begun
      <4>3. more2 # <<>>
        BY <2>2, <3>4
      <4>4. Legit(message)'
        <5>1. \A m : Legit(m)' <=> Legit(m)
          BY <1>1, SameLimits
        <5>2. QED  BY <1>1, <5>1
      <4>5. Ends(next, cut[Len(written')], begun2)
        BY <2>1, <4>1, <4>2
      <4>6. writer' = "writing" /\ more2 = rest' /\ begun2 \o more2 = Bytes(message')
        BY <1>1, <2>1, <3>4, <3>6
      <4>7. <<LastSent', message'.kind>> \in Follows
        BY <1>1, <2>4
      <4>8. QED  BY <4>3, <4>4, <4>5, <4>6, <4>7 DEF Begun
    <3>9. Left(next, cut)'
      <4>1. PICK q \in Nat : q = cut[Len(got)]
        BY <1>6
      <4>2. Seen' = Seen /\ got' = got /\ reader = "reading"
        BY <1>1, <2>7 DEF Seen, ReaderVars
      <4>3. PICK s \in Seq(Byte) : s = Seen \o inFlight
        BY <4>2, Basics
      <4>4. Ends(next, q, s \o t)
        BY <1>9, <3>1, <3>2, <4>1, <4>3, EndsMore DEF Left
      <4>5. Seen' \o inFlight' = s \o t
        BY <1>5, <1>9, <4>2, <4>3, SeenGrows
      <4>6. QED  BY <4>1, <4>2, <4>4, <4>5 DEF Left
    <3>10. QED  BY <3>7, <3>8, <3>9
  <2>8. QED  BY <2>5, <2>6, <2>7 DEF FramingInv, StreamInv
<1>10. QED  BY <1>7, <1>8

LEMMA LeaveKeeps == ASSUME FramingAssumption, FramingInv, Leave PROVE FramingInv'
<1>1. /\ writer' = "gone" /\ rest' = <<>> /\ UNCHANGED <<theirs, buf, message, inFlight, written>>
      /\ UNCHANGED <<reading, have, body, due, got, reader>>
  BY DEF Leave, ReaderVars
<1>2. \A i : KindAt(i)' = KindAt(i)
  BY <1>1 DEF KindAt
<1>3. LastSent' = LastSent
  BY <1>1 DEF LastSent
<1>4. \A m : Legit(m)' <=> Legit(m)
  BY <1>1, SameLimits
<1>5. Legit(message)' <=> Legit(message)
  BY <1>1, <1>4
<1>6. \A i \in 1..Len(written) : Legit(written[i])'
  BY <1>1, <1>4 DEF FramingInv, WriterInv
<1>7. WriterInv'
  BY <1>1, <1>2, <1>6 DEF FramingInv, WriterInv
<1>8. ReaderInv'
  BY <1>1, <1>2 DEF FramingInv, ReaderInv
<1>9. ASSUME reader' = "reading"
      PROVE  \E all \in Seq(Byte), cut \in [Nat -> Nat], begun \in Seq(Byte), more \in Seq(Byte) :
               Marked(all, cut)' /\ Begun(all, cut, begun, more)' /\ Left(all, cut)'
  <2>1. PICK all \in Seq(Byte), cut \in [Nat -> Nat], begun \in Seq(Byte), more \in Seq(Byte) :
          Marked(all, cut) /\ Begun(all, cut, begun, more) /\ Left(all, cut)
    BY <1>1, <1>9 DEF FramingInv, StreamInv
  <2>2. Marked(all, cut)' /\ Left(all, cut)'
    BY <1>1, <2>1 DEF Marked, Left, Seen
  <2>3. Begun(all, cut, begun, more)'
    BY <1>1, <1>3, <1>5, <2>1 DEF Begun
  <2>4. QED  BY <2>2, <2>3
<1>10. QED  BY <1>7, <1>8, <1>9 DEF FramingInv, StreamInv

-----------------------------------------------------------------------------
(* The reader. *)

\* What it is reading is the next message that was written, or the one being written.
LEMMA NextMessage ==
  ASSUME FramingAssumption, FramingInv, reader = "reading", Seen # <<>>,
         NEW all \in Seq(Byte), NEW cut \in [Nat -> Nat], NEW begun \in Seq(Byte), NEW more \in Seq(Byte),
         Marked(all, cut), Begun(all, cut, begun, more), Left(all, cut)
  PROVE  \E m \in Message, str \in Seq(Byte), p \in Nat :
           /\ Legit(m) /\ <<KindAt(Len(got)), m.kind>> \in Follows
           /\ Shows(str, p, Bytes(m)) /\ Shows(str, p, Seen)
           /\ \/ Len(got) < Len(written) /\ m = written[Len(got) + 1]
              \/ Len(got) = Len(written) /\ Len(Seen) < Len(Bytes(m))
<1>00. \A i \in 1..Len(written) : written[i] \in Message
  BY Basics
<1>0. Len(written) \in Nat /\ Len(got) \in Nat /\ Len(got) <= Len(written)
  BY Basics
<1>1. /\ written \in Seq(Message) /\ Len(written) \in Nat /\ Len(got) \in Nat /\ Len(got) <= Len(written)
      /\ Seen \in Seq(Byte) /\ inFlight \in Seq(Byte) /\ Seen \o inFlight \in Seq(Byte)
  BY Basics
<1>2. PICK p \in Nat : p = cut[Len(got)]
  BY <1>1
<1>3. Ends(all, p, Seen \o inFlight)
  BY <1>2 DEF Left
<1>4. Shows(all, p, Seen)
  BY <1>1, <1>3, ShowsBoth DEF Ends
<1>5. CASE Len(got) < Len(written)
  <2>1. Len(got) + 1 \in 1..Len(written) /\ (Len(got) + 1) - 1 = Len(got)
    <3>1. \A k, n \in Nat : k < n => k + 1 \in 1..n /\ (k + 1) - 1 = k
      OBVIOUS
    <3>2. QED  BY <1>0, <1>5, <3>1
  <2>2. PICK m \in Message : m = written[Len(got) + 1]
    <3>1. written[Len(got) + 1] \in Message
      BY <1>00, <2>1
    <3>2. QED  BY <3>1
  <2>3. Legit(m) /\ <<KindAt(Len(got)), m.kind>> \in Follows
    BY <2>1, <2>2 DEF FramingInv, WriterInv
  <2>4. Shows(all, p, Bytes(m))
    BY <1>2, <2>1, <2>2 DEF Marked
  <2>5. QED  BY <1>4, <1>5, <2>2, <2>3, <2>4
<1>6. CASE Len(got) = Len(written)
  <2>1. Ends(all, p, begun)
    BY <1>2, <1>6 DEF Begun
  <2>2. begun = Seen \o inFlight
    <3>1. Len(begun) = Len(Seen \o inFlight)
      <4>1. PICK s \in Seq(Byte) : s = Seen \o inFlight
        BY <1>1
      <4>2. p + Len(begun) = p + Len(s)
        BY <1>3, <2>1, <4>1 DEF Ends
      <4>3. Len(begun) \in Nat /\ Len(s) \in Nat
        BY JoinedLen
      <4>4. \A i, j \in Nat : p + i = p + j => i = j
        OBVIOUS
      <4>5. QED  BY <4>1, <4>2, <4>3, <4>4
    <3>2. QED  BY <1>1, <1>3, <2>1, <3>1, ShowsSame DEF Ends
  <2>3. Len(Seen) \in Nat /\ Len(Seen) # 0 /\ Len(inFlight) \in Nat /\ Len(begun) = Len(Seen) + Len(inFlight)
    BY <1>1, <2>2, JoinedLen
  <2>4. begun # <<>>
    BY <2>3
  <2>5. Legit(message) /\ <<LastSent, message.kind>> \in Follows /\ more # <<>> /\ begun \o more = Bytes(message)
    BY <2>4 DEF Begun
  <2>6. LastSent = KindAt(Len(got)) /\ message \in Message
    BY <1>1, <1>6, <2>5 DEF LastSent, KindAt, Legit
  <2>7. PICK str \in Seq(Byte) : str = all \o more
    <3>1. all \o more \in Seq(Byte)
      BY JoinedLen
    <3>2. QED  BY <3>1
  <2>8. Shows(str, p, Bytes(message))
    BY <1>2, <2>1, <2>5, <2>7, EndsMore DEF Ends
  <2>9. Shows(str, p, Seen)
    BY <1>1, <1>2, <1>4, <2>7, ShowsMore
  <2>10. Len(Seen) < Len(Bytes(message))
    <3>1. Len(begun \o more) = Len(begun) + Len(more) /\ Len(more) \in Nat /\ Len(more) # 0
      BY <2>5, JoinedLen
    <3>2. QED  BY <2>3, <2>5, <3>1
  <2>11. QED  BY <1>6, <2>5, <2>6, <2>7, <2>8, <2>9, <2>10, Zenon
<1>7. Len(got) < Len(written) \/ Len(got) = Len(written)
  <2>1. \A k, n \in Nat : k <= n => k < n \/ k = n
    OBVIOUS
  <2>2. QED  BY <1>0, <2>1
<1>8. QED  BY <1>5, <1>6, <1>7, Zenon

\* A header announces what follows it.
LEMMA HeaderIs ==
  ASSUME FramingAssumption, NEW m \in Message, m.kind # "magic", NEW str \in Seq(Byte), NEW p \in Nat,
         Shows(str, p, Bytes(m)), NEW h \in Seq(Byte), Len(h) = Prefix, Shows(str, p, h)
  PROVE  h = BigEndian(Len(Payload(m)))
<1>1. Payload(m) \in Seq(Byte) /\ Len(Payload(m)) \in Nat
  BY Payloads
<1>2. PICK b \in Seq(Byte) : b = BigEndian(Len(Payload(m))) /\ Len(b) = Prefix
  <2>1. BigEndian(Len(Payload(m))) \in Seq(Byte) /\ Len(BigEndian(Len(Payload(m)))) = Prefix
    BY <1>1, Heads
  <2>2. QED  BY <2>1
<1>3. Bytes(m) = b \o Payload(m)
  BY <1>2 DEF Bytes
<1>4. Shows(str, p, b)
  BY <1>1, <1>2, <1>3, ShowsBoth
<1>5. h = b
  BY <1>2, <1>4, ShowsSame
<1>6. QED  BY <1>2, <1>5

LEMMA LengthFits ==
  ASSUME FramingAssumption, FramingInv, NEW m, Legit(m), m.kind # "magic"
  PROVE  /\ Len(Payload(m)) \in 0..(NoLength - 1) /\ NoLength \in Nat
         /\ reading = "replies" /\ m.kind \in {"welcome", "paired"} => Len(Payload(m)) <= ReadLimit
         /\ reading = "frames" /\ m.kind \in {"control", "data"} => Len(Payload(m)) <= ReadLimit
<1>1. /\ LimitFor(Agreed) \in Nat /\ LimitFor(Agreed) < NoLength
      /\ 1 <= RelayMax /\ 1 < NoLength /\ NoLength \in Nat
  BY Limits DEF FramingInv, WriterInv
<1>2. m \in Message /\ Len(Payload(m)) \in Nat
  BY Payloads DEF Legit
<1>3. CASE m.kind \in {"welcome", "paired"}
  <2>1. Len(Payload(m)) = 1
    BY <1>2, <1>3, Payloads
  <2>2. QED  BY <1>1, <1>3, <2>1 DEF ReadLimit
<1>4. CASE m.kind \in {"control", "data"}
  <2>1. Len(Payload(m)) <= LimitFor(Agreed)
    BY <1>4 DEF Legit
  <2>2. QED  BY <1>1, <1>2, <1>4, <2>1 DEF ReadLimit
<1>5. QED  BY <1>2, <1>3, <1>4 DEF Message

\* A frame that has been read whole carries what was put into it.
LEMMA FrameIs ==
  ASSUME FramingAssumption, FramingInv, NEW m, Legit(m), m.kind # "magic",
         NEW str \in Seq(Byte), NEW p \in Nat, Shows(str, p, Bytes(m)),
         NEW n \in 0..(NoLength - 1), NEW b \in Seq(Byte), Len(b) = n,
         Shows(str, p, BigEndian(n) \o b)
  PROVE  n = Len(Payload(m)) /\ b = Payload(m) /\ BigEndian(n) \o b = Bytes(m)
<1>1. m \in Message /\ Len(Payload(m)) \in 0..(NoLength - 1) /\ NoLength \in Nat
  BY LengthFits DEF Legit
<1>2. Payload(m) \in Seq(Byte) /\ Len(Payload(m)) \in Nat /\ n \in Nat
  <2>1. n \in Nat
    BY <1>1
  <2>2. Payload(m) \in Seq(Byte) /\ Len(Payload(m)) \in Nat
    BY <1>1, Payloads
  <2>3. QED  BY <2>1, <2>2
<1>3. PICK h \in Seq(Byte) : h = BigEndian(n) /\ Len(h) = Prefix
  <2>1. BigEndian(n) \in Seq(Byte) /\ Len(BigEndian(n)) = Prefix
    BY <1>2, Heads
  <2>2. QED  BY <2>1
<1>4. Shows(str, p, h) /\ Shows(str, p + Len(h), b)
  BY <1>3, ShowsBoth
<1>5. h = BigEndian(Len(Payload(m)))
  BY <1>1, <1>3, <1>4, HeaderIs
<1>6. n = Len(Payload(m))
  <2>1. Number(BigEndian(n)) = n /\ Number(BigEndian(Len(Payload(m)))) = Len(Payload(m))
    BY <1>1, Numbers
  <2>2. QED  BY <1>3, <1>5, <2>1
<1>7. Bytes(m) = h \o Payload(m)
  BY <1>5 DEF Bytes
<1>8. Shows(str, p + Len(h), Payload(m))
  <2>1. Shows(str, p, h \o Payload(m))
    BY <1>7
  <2>2. Payload(m) \in Seq(Byte)
    BY <1>2
  <2>3. QED  BY <2>1, <2>2, ShowsBoth
<1>9. b = Payload(m)
  <2>1. p + Len(h) \in Nat
    BY <1>3
  <2>2. QED  BY <1>2, <1>4, <1>6, <1>8, <2>1, ShowsSame
<1>10. QED  BY <1>3, <1>6, <1>7, <1>9

\* Nothing changes for the writer.
LEMMA SameStream ==
  ASSUME UNCHANGED WriterVars, NEW all, NEW cut, NEW begun, NEW more
  PROVE  /\ Marked(all, cut)' <=> Marked(all, cut)
         /\ Begun(all, cut, begun, more)' <=> Begun(all, cut, begun, more)
         /\ \A i : KindAt(i)' = KindAt(i)
<1>1. UNCHANGED <<theirs, buf, message, rest, writer, written>>
  BY DEF WriterVars
<1>2. LastSent' = LastSent
  BY <1>1 DEF LastSent
<1>3. Legit(message)' <=> Legit(message)
  <2>1. \A m : Legit(m)' <=> Legit(m)
    BY <1>1, SameLimits
  <2>2. QED  BY <1>1, <2>1
<1>4. QED  BY <1>1, <1>2, <1>3 DEF Marked, Begun, KindAt

\* A step that reads no message to its end.
LEMMA StillReading ==
  ASSUME FramingAssumption, FramingInv, UNCHANGED WriterVars, UNCHANGED got, ReaderInv',
         reader' = "reading" => reader = "reading" /\ Seen' \o inFlight' = Seen \o inFlight
  PROVE  FramingInv'
<1>1. WriterInv'
  BY SameWriter DEF FramingInv
<1>2. ASSUME reader' = "reading"
      PROVE  \E all \in Seq(Byte), cut \in [Nat -> Nat], begun \in Seq(Byte), more \in Seq(Byte) :
               Marked(all, cut)' /\ Begun(all, cut, begun, more)' /\ Left(all, cut)'
  <2>1. PICK all \in Seq(Byte), cut \in [Nat -> Nat], begun \in Seq(Byte), more \in Seq(Byte) :
          Marked(all, cut) /\ Begun(all, cut, begun, more) /\ Left(all, cut)
    BY <1>2 DEF FramingInv, StreamInv
  <2>2. Marked(all, cut)' /\ Begun(all, cut, begun, more)'
    BY <2>1, SameStream
  <2>3. Left(all, cut)'
    BY <1>2, <2>1 DEF Left
  <2>4. QED  BY <2>2, <2>3
<1>3. QED  BY <1>1, <1>2 DEF FramingInv, StreamInv

LEMMA ReadSomeKeeps == ASSUME FramingAssumption, FramingInv, ReadSome PROVE FramingInv'
<1>1. /\ reader = "reading" /\ UNCHANGED <<reading, due, got, reader>> /\ UNCHANGED WriterVars
      /\ have \in Seq(Byte) /\ body \in Seq(Byte) /\ inFlight \in Seq(Byte)
      /\ due \in 0..NoLength /\ NoLength \in Nat
      /\ Len(have) <= IF reading = "magic" THEN Len(Magic) ELSE Prefix
      /\ due = NoLength => body = <<>>
      /\ due # NoLength => reading # "magic" /\ have = <<>> /\ Len(body) <= due
  BY Numbers DEF ReadSome, FramingInv, ReaderInv
<1>2. PICK n \in 1..Least(Len(inFlight), Wanted) :
        /\ IF due = NoLength \/ reading = "magic"
             THEN have' = have \o SubSeq(inFlight, 1, n) /\ UNCHANGED body
             ELSE body' = body \o SubSeq(inFlight, 1, n) /\ UNCHANGED have
        /\ inFlight' = SubSeq(inFlight, n + 1, Len(inFlight))
  BY DEF ReadSome
<1>3. Wanted \in Int /\ n \in 0..Len(inFlight) /\ n <= Wanted /\ Len(inFlight) \in Nat
  <2>1. Wanted \in Int
    <3>1. have \in Seq(Byte) /\ body \in Seq(Byte)
      BY <1>1
    <3>2. Len(have) \in Nat /\ Len(body) \in Nat
      BY <3>1, JoinedLen
    <3>3. Prefix \in Nat /\ due \in Nat /\ Len(Magic) = 2
      BY <1>1, Heads DEF FramingAssumption
    <3>4. QED  BY <3>2, <3>3 DEF Wanted
  <2>2. Len(inFlight) \in Nat
    BY <1>1
  <2>3. QED  BY <2>1, <2>2 DEF Least
<1>4. PICK t \in Seq(Byte) : /\ t = SubSeq(inFlight, 1, n) /\ Len(t) = n
                             /\ t \o inFlight' = inFlight /\ inFlight' \in Seq(Byte)
  <2>1. inFlight \in Seq(Byte) /\ n \in 0..Len(inFlight)
    BY <1>1, <1>3
  <2>2. /\ SubSeq(inFlight, 1, n) \in Seq(Byte) /\ Len(SubSeq(inFlight, 1, n)) = n
        /\ SubSeq(inFlight, n + 1, Len(inFlight)) \in Seq(Byte)
        /\ SubSeq(inFlight, 1, n) \o SubSeq(inFlight, n + 1, Len(inFlight)) = inFlight
    BY <2>1, Split
  <2>3. QED  BY <1>2, <2>2
<1>5. t \in Seq(Byte) /\ Len(t) = n /\ t \o inFlight' = inFlight /\ inFlight' \in Seq(Byte)
  BY <1>4
<1>6. IF due = NoLength \/ reading = "magic" THEN have' = have \o t /\ UNCHANGED body
                                             ELSE body' = body \o t /\ UNCHANGED have
  BY <1>2, <1>4
<1>7. \A i : KindAt(i)' = KindAt(i)
  BY <1>1, SameStream
<1>8. CASE due = NoLength
  <2>1. have' = have \o t /\ body' = body
    BY <1>6, <1>8
  <2>2. /\ have' \in Seq(Byte) /\ Len(have') = Len(have) + n /\ Len(have) \in Nat
    BY <1>1, <1>5, <2>1, JoinedLen
  <2>3. Len(have') <= IF reading = "magic" THEN Len(Magic) ELSE Prefix
    <3>1. Wanted = (IF reading = "magic" THEN Len(Magic) ELSE Prefix) - Len(have)
      BY <1>8 DEF Wanted
    <3>2. Len(Magic) \in Nat /\ Prefix \in Nat
      BY Heads DEF FramingAssumption
    <3>3. QED  BY <1>3, <2>2, <3>1, <3>2
  <2>4. Seen' \o inFlight' = Seen \o inFlight
    <3>1. Seen' = have \o t /\ Seen = have
      <4>1. NoLength' = NoLength
        BY DEF NoLength
      <4>2. QED  BY <1>1, <1>8, <2>1, <4>1 DEF Seen
    <3>2. Joins(have, t, inFlight')
      BY <1>1, <1>5, Associative, Zenon
    <3>3. (have \o t) \o inFlight' = have \o (t \o inFlight')
      BY <3>2, Zenon DEF Joins
    <3>4. QED  BY <1>5, <3>1, <3>3
  <2>5. ReaderInv'
    <3>1. /\ got' = got /\ written' = written /\ reader' = reader /\ reading' = reading /\ due' = due
      BY <1>1 DEF WriterVars
    <3>2. body' \in Seq(Byte) /\ body' = <<>>
      BY <1>1, <1>8, <2>1
    <3>3. QED  BY <1>1, <1>5, <1>7, <1>8, <2>2, <2>3, <3>1, <3>2 DEF FramingInv, ReaderInv
  <2>6. QED  BY <1>1, <2>4, <2>5, StillReading
<1>9. CASE due # NoLength
  <2>1. body' = body \o t /\ have' = have
    BY <1>1, <1>6, <1>9
  <2>2. /\ body' \in Seq(Byte) /\ Len(body') = Len(body) + n /\ Len(body) \in Nat
    BY <1>1, <1>5, <2>1, JoinedLen
  <2>3. Len(body') <= due
    <3>1. Wanted = due - Len(body) /\ due \in Nat
      BY <1>1, <1>9 DEF Wanted
    <3>2. QED  BY <1>3, <2>2, <3>1
  <2>4. Seen' \o inFlight' = Seen \o inFlight
    <3>1. PICK h \in Seq(Byte) : h = BigEndian(due)
      <4>1. due \in Nat
        BY <1>1
      <4>2. QED  BY <4>1, Heads
    <3>2. Seen' = h \o (body \o t) /\ Seen = h \o body
      <4>1. NoLength' = NoLength
        BY DEF NoLength
      <4>2. QED  BY <1>1, <1>9, <2>1, <3>1, <4>1 DEF Seen
    <3>3. h \o body \in Seq(Byte)
      BY <1>1, JoinedLen
    <3>4. Joins(h, body, t) /\ Joins(h \o body, t, inFlight')
      BY <1>1, <1>5, <3>3, Associative, Zenon
    <3>5. h \o (body \o t) = (h \o body) \o t /\ ((h \o body) \o t) \o inFlight' = (h \o body) \o (t \o inFlight')
      BY <3>4, Zenon DEF Joins
    <3>6. QED  BY <1>5, <3>2, <3>5
  <2>5. ReaderInv'
    <3>1. /\ got' = got /\ written' = written /\ reader' = reader /\ reading' = reading /\ due' = due
      BY <1>1 DEF WriterVars
    <3>2. QED  BY <1>1, <1>5, <1>7, <1>9, <2>1, <2>2, <2>3, <3>1 DEF FramingInv, ReaderInv
  <2>6. QED  BY <1>1, <2>4, <2>5, StillReading
<1>10. QED  BY <1>8, <1>9

\* What has been read of the next message, if anything has.
LEMMA ReadingOf ==
  ASSUME FramingAssumption, FramingInv, reader = "reading", Seen # <<>>
  PROVE  \E m \in Message, str \in Seq(Byte), p \in Nat :
           /\ Legit(m) /\ <<KindAt(Len(got)), m.kind>> \in Follows
           /\ Shows(str, p, Bytes(m)) /\ Shows(str, p, Seen)
           /\ \/ Len(got) < Len(written) /\ m = written[Len(got) + 1]
              \/ Len(got) = Len(written) /\ Len(Seen) < Len(Bytes(m))
<1>1. PICK all \in Seq(Byte), cut \in [Nat -> Nat], begun \in Seq(Byte), more \in Seq(Byte) :
        Marked(all, cut) /\ Begun(all, cut, begun, more) /\ Left(all, cut)
  BY DEF FramingInv, StreamInv
<1>2. QED  BY <1>1, NextMessage

\* A header is never refused, and the length that it holds is the one the writer stamped.
LEMMA HeaderFits ==
  ASSUME FramingAssumption, FramingInv, reader = "reading", reading # "magic", due = NoLength, Wanted = 0
  PROVE  /\ Number(have) \in 0..(NoLength - 1) /\ Number(have) <= ReadLimit
         /\ BigEndian(Number(have)) = have /\ Seen = have
<1>1. /\ have \in Seq(Byte) /\ Len(have) \in Nat /\ Prefix \in Nat /\ 0 < Prefix
      /\ reading = Reads(KindAt(Len(got)))
  BY DEF FramingInv, ReaderInv, FramingAssumption
<1>2. Len(have) = Prefix /\ Seen = have /\ Seen # <<>>
  <2>1. Prefix - Len(have) = 0
    BY DEF Wanted
  <2>2. Seen = have
    BY DEF Seen
  <2>3. QED  BY <1>1, <2>1, <2>2
<1>3. PICK m \in Message, str \in Seq(Byte), p \in Nat :
        /\ Legit(m) /\ <<KindAt(Len(got)), m.kind>> \in Follows
        /\ Shows(str, p, Bytes(m)) /\ Shows(str, p, Seen)
  BY <1>2, ReadingOf, Zenon
<1>4. m.kind # "magic" /\ \/ reading = "replies" /\ m.kind \in {"welcome", "paired"}
                          \/ reading = "frames" /\ m.kind \in {"control", "data"}
  BY <1>1, <1>3, KindsRead
<1>5. have = BigEndian(Len(Payload(m)))
  BY <1>1, <1>2, <1>3, <1>4, HeaderIs
<1>6. Len(Payload(m)) \in 0..(NoLength - 1) /\ Len(Payload(m)) <= ReadLimit
  BY <1>3, <1>4, LengthFits
<1>7. Number(have) = Len(Payload(m))
  BY <1>5, <1>6, Numbers
<1>8. QED  BY <1>2, <1>5, <1>6, <1>7

LEMMA HeaderReadKeeps == ASSUME FramingAssumption, FramingInv, HeaderRead PROVE FramingInv'
<1>1. /\ reader = "reading" /\ reading # "magic" /\ due = NoLength /\ Wanted = 0
      /\ have' = <<>> /\ UNCHANGED <<inFlight, reading, got>> /\ UNCHANGED WriterVars
  BY DEF HeaderRead
<1>2. /\ Number(have) \in 0..(NoLength - 1) /\ Number(have) <= ReadLimit
      /\ BigEndian(Number(have)) = have /\ Seen = have
  BY <1>1, HeaderFits
<1>3. NoLength \in Nat /\ ReadLimit \in Nat
  <2>1. LimitFor(Agreed) \in Nat /\ RelayMax \in Nat /\ NoLength \in Nat
    BY Limits DEF FramingInv, WriterInv, FramingAssumption
  <2>2. QED  BY <2>1 DEF ReadLimit
<1>4. due' = Number(have) /\ body' = <<>> /\ reader' = reader
  <2>1. ~(Number(have) > ReadLimit)
    BY <1>2, <1>3
  <2>2. QED  BY <2>1 DEF HeaderRead
<1>5. Seen' = Seen
  <2>1. NoLength' = NoLength /\ due' # NoLength
    BY <1>2, <1>3, <1>4 DEF NoLength
  <2>2. Seen' = have \o <<>>
    BY <1>2, <1>4, <2>1 DEF Seen, BigEndian
  <2>3. have \in Seq(Byte)
    BY <1>1 DEF FramingInv, ReaderInv
  <2>4. QED  BY <1>2, <2>2, <2>3
<1>6. \A i : KindAt(i)' = KindAt(i)
  BY <1>1, SameStream
<1>7. ReaderInv'
  <2>1. due' \in 0..NoLength /\ due' # NoLength /\ Len(body') <= due' /\ body' \in Seq(Byte) /\ have' \in Seq(Byte)
    BY <1>1, <1>2, <1>3, <1>4
  <2>2. written' = written
    BY <1>1 DEF WriterVars
  <2>3. Len(have') <= IF reading = "magic" THEN Len(Magic) ELSE Prefix
    BY <1>1, Heads DEF FramingAssumption
  <2>4. NoLength' = NoLength
    BY DEF NoLength
  <2>5. QED  BY <1>1, <1>4, <1>6, <2>1, <2>2, <2>3, <2>4 DEF FramingInv, ReaderInv
<1>8. QED  BY <1>1, <1>4, <1>5, <1>7, StillReading

\* The whole of a frame is a frame that has been written whole.
LEMMA BodyIs ==
  ASSUME FramingAssumption, FramingInv, reader = "reading", due # NoLength, Wanted = 0
  PROVE  \E m \in Message :
           /\ Legit(m) /\ <<KindAt(Len(got)), m.kind>> \in Follows /\ m.kind # "magic"
           /\ body = Payload(m) /\ Seen = Bytes(m)
           /\ Len(got) < Len(written) /\ m = written[Len(got) + 1]
<1>1. /\ body \in Seq(Byte) /\ Len(body) \in Nat /\ due \in 0..NoLength /\ NoLength \in Nat
      /\ reading = Reads(KindAt(Len(got))) /\ reading # "magic"
  BY Numbers DEF FramingInv, ReaderInv
<1>2. due \in 0..(NoLength - 1) /\ Len(body) = due
  <2>1. due - Len(body) = 0
    BY <1>1 DEF Wanted
  <2>2. QED  BY <1>1, <2>1
<1>3. Seen = BigEndian(due) \o body
  BY DEF Seen
<1>4. Seen \in Seq(Byte) /\ Len(Seen) \in Nat /\ Len(Seen) # 0
  <2>1. due \in Nat
    BY <1>1
  <2>2. BigEndian(due) \in Seq(Byte) /\ Len(BigEndian(due)) = Prefix /\ Prefix \in Nat /\ 0 < Prefix
    BY <2>1, Heads DEF FramingAssumption
  <2>3. Seen \in Seq(Byte) /\ Len(Seen) = Prefix + Len(body)
    BY <1>1, <1>3, <2>2, JoinedLen
  <2>4. QED  BY <1>1, <2>2, <2>3
<1>5. Seen # <<>>
  BY <1>4
<1>6. PICK m \in Message, str \in Seq(Byte), p \in Nat :
        /\ Legit(m) /\ <<KindAt(Len(got)), m.kind>> \in Follows
        /\ Shows(str, p, Bytes(m)) /\ Shows(str, p, Seen)
        /\ \/ Len(got) < Len(written) /\ m = written[Len(got) + 1]
           \/ Len(got) = Len(written) /\ Len(Seen) < Len(Bytes(m))
  BY <1>5, ReadingOf
<1>7. m.kind # "magic"
  BY <1>1, <1>6, KindsRead
<1>8. body = Payload(m) /\ Seen = Bytes(m)
  <2>1. Shows(str, p, BigEndian(due) \o body)
    BY <1>3, <1>6
  <2>2. body = Payload(m) /\ BigEndian(due) \o body = Bytes(m)
    BY <1>1, <1>2, <1>6, <1>7, <2>1, FrameIs
  <2>3. QED  BY <1>3, <2>2
<1>9. ~(Len(Seen) < Len(Bytes(m)))
  BY <1>4, <1>8
<1>10. QED  BY <1>6, <1>7, <1>8, <1>9

LEMMA MagicIs ==
  ASSUME FramingAssumption, FramingInv, reader = "reading", reading = "magic", Wanted = 0
  PROVE  /\ have = Magic /\ Seen = Bytes(MagicItem) /\ MagicItem \in Message
         /\ Len(got) < Len(written) /\ MagicItem = written[Len(got) + 1]
         /\ due = NoLength /\ body = <<>>
<1>1. /\ have \in Seq(Byte) /\ Len(have) \in Nat /\ due = NoLength /\ body = <<>>
      /\ reading = Reads(KindAt(Len(got)))
  BY DEF FramingInv, ReaderInv
<1>2. Magic \in Seq(Byte) /\ Len(Magic) = 2
  BY Heads
<1>3. Len(have) = Len(Magic) /\ Seen = have /\ Seen # <<>>
  <2>1. Len(Magic) - Len(have) = 0
    BY DEF Wanted
  <2>2. Seen = have
    BY <1>1 DEF Seen
  <2>3. QED  BY <1>1, <1>2, <2>1, <2>2
<1>4. PICK m \in Message, str \in Seq(Byte), p \in Nat :
        /\ Legit(m) /\ <<KindAt(Len(got)), m.kind>> \in Follows
        /\ Shows(str, p, Bytes(m)) /\ Shows(str, p, Seen)
        /\ \/ Len(got) < Len(written) /\ m = written[Len(got) + 1]
           \/ Len(got) = Len(written) /\ Len(Seen) < Len(Bytes(m))
  BY <1>3, ReadingOf
<1>5. m.kind = "magic" /\ m = MagicItem /\ Bytes(m) = Magic
  BY <1>1, <1>4, KindsRead DEF Legit, Bytes
<1>6. have = Magic
  BY <1>1, <1>2, <1>3, <1>4, <1>5, ShowsSame
<1>7. ~(Len(Seen) < Len(Bytes(m)))
  BY <1>2, <1>3, <1>5, <1>6
<1>8. QED  BY <1>1, <1>3, <1>4, <1>5, <1>6, <1>7

LEMMA Counting ==
  ASSUME NEW k \in Nat, NEW n \in Nat, k < n
  PROVE  /\ k + 1 \in Nat /\ k + 1 # 0 /\ (k + 1) - 1 = k /\ k + 1 <= n /\ k + 1 \in 1..n
         /\ \A j \in 1..(k + 1) : j \in 1..k \/ j = k + 1
OBVIOUS

\* What is behind two parts is what is behind the first and then the second.
LEMMA EndsRest ==
  ASSUME NEW S, NEW all \in Seq(S), NEW p \in Nat, NEW s \in Seq(S), NEW t \in Seq(S), Ends(all, p, s \o t)
  PROVE  Ends(all, p + Len(s), t)
<1>1. Shows(all, p + Len(s), t)
  BY ShowsBoth DEF Ends
<1>2. Len(s \o t) = Len(s) + Len(t) /\ Len(s) \in Nat /\ Len(t) \in Nat
  BY JoinedLen
<1>3. \A i, j \in Nat : p + (i + j) = (p + i) + j
  OBVIOUS
<1>4. Len(all) = p + Len(s \o t)
  BY DEF Ends
<1>5. Len(all) = (p + Len(s)) + Len(t)
  BY <1>2, <1>3, <1>4
<1>6. QED  BY <1>1, <1>5 DEF Ends

\* The message m has been read to its end, and the reader is at the next.
Takes(m) ==
  /\ reader = "reading" /\ reader' = reader
  /\ UNCHANGED WriterVars /\ UNCHANGED inFlight
  /\ m \in Message /\ Len(got) < Len(written) /\ m = written[Len(got) + 1] /\ Seen = Bytes(m)
  /\ got' = Append(got, m) /\ reading' = Reads(m.kind)
  /\ have' = <<>> /\ body' = <<>> /\ due' = NoLength

LEMMA TakesMore ==
  ASSUME FramingAssumption, FramingInv, NEW m, Takes(m)
  PROVE  /\ got' \in Seq(Message) /\ Len(got') = Len(got) + 1 /\ got'[Len(got) + 1] = m
         /\ \A i \in 1..Len(got') : got'[i] = written'[i]
         /\ Len(got') <= Len(written') /\ KindAt(Len(got))' = m.kind
<1>1. Len(got) \in Nat /\ Len(written) \in Nat
  BY Basics
<1>2. got \in Seq(Message) /\ \A i \in 1..Len(got) : got[i] = written[i]
  BY Basics
<1>3. m \in Message /\ Len(got) < Len(written) /\ m = written[Len(got) + 1] /\ got' = Append(got, m)
  BY DEF Takes
<1>4. written' = written
  BY DEF Takes, WriterVars
<1>5. /\ got' \in Seq(Message) /\ Len(got') = Len(got) + 1 /\ got'[Len(got) + 1] = m
      /\ \A i \in 1..Len(got) : got'[i] = got[i]
  BY <1>2, <1>3, Appending
<1>6. /\ Len(got) + 1 # 0 /\ Len(got) + 1 <= Len(written)
      /\ \A j \in 1..(Len(got) + 1) : j \in 1..Len(got) \/ j = Len(got) + 1
  BY <1>1, <1>3, Counting
<1>7. \A i \in 1..Len(got') : got'[i] = written'[i]
  <2>1. TAKE i \in 1..Len(got')
  <2>2. i \in 1..Len(got) \/ i = Len(got) + 1
    BY <1>5, <1>6
  <2>3. CASE i \in 1..Len(got)
    BY <1>2, <1>4, <1>5, <2>3
  <2>4. CASE i = Len(got) + 1
    BY <1>3, <1>4, <1>5, <2>4
  <2>5. QED  BY <2>2, <2>3, <2>4
<1>8. KindAt(Len(got))' = m.kind
  BY <1>3, <1>4, <1>5, <1>6 DEF KindAt
<1>9. QED  BY <1>4, <1>5, <1>6, <1>7, <1>8

LEMMA TakesLeft ==
  ASSUME FramingAssumption, FramingInv, NEW m, Takes(m),
         NEW all \in Seq(Byte), NEW cut \in [Nat -> Nat], Marked(all, cut), Left(all, cut)
  PROVE  Left(all, cut)'
<1>1. Len(got) \in Nat /\ Len(written) \in Nat
  BY Basics
<1>2. m \in Message /\ Len(got) < Len(written) /\ m = written[Len(got) + 1] /\ Seen = Bytes(m)
  BY DEF Takes
<1>3. Len(got) + 1 \in Nat /\ (Len(got) + 1) - 1 = Len(got) /\ Len(got) + 1 \in 1..Len(written)
  BY <1>1, <1>2, Counting
<1>4. PICK p \in Nat : p = cut[Len(got)]
  BY <1>1
<1>5. PICK b \in Seq(Byte) : b = Bytes(m)
  BY <1>2, BytesAre
<1>6. cut[Len(got) + 1] = p + Len(b)
  BY <1>2, <1>3, <1>4, <1>5 DEF Marked
<1>7. inFlight \in Seq(Byte)
  BY Basics
<1>8. Ends(all, p, b \o inFlight)
  BY <1>2, <1>4, <1>5 DEF Left
<1>9. Ends(all, p + Len(b), inFlight)
  BY <1>7, <1>8, EndsRest
<1>10. Seen' \o inFlight' = inFlight
  <2>1. Seen' = <<>> /\ inFlight' = inFlight
    BY DEF Seen, NoLength, Takes
  <2>2. \A s \in Seq(Byte) : <<>> \o s = s
    OBVIOUS
  <2>3. QED  BY <1>7, <2>1, <2>2
<1>11. Len(got') = Len(got) + 1
  BY TakesMore
<1>12. QED  BY <1>6, <1>9, <1>10, <1>11 DEF Left

LEMMA TakesKeeps ==
  ASSUME FramingAssumption, FramingInv, NEW m, Takes(m)
  PROVE  FramingInv'
<1>1. /\ got' \in Seq(Message) /\ Len(got') <= Len(written') /\ KindAt(Len(got))' = m.kind
      /\ \A i \in 1..Len(got') : got'[i] = written'[i]
  BY TakesMore
<1>2. /\ reader' = "reading" /\ reading' = Reads(m.kind)
      /\ have' = <<>> /\ body' = <<>> /\ due' = NoLength
  BY DEF Takes
<1>3. inFlight' \in Seq(Byte)
  <2>1. inFlight \in Seq(Byte) /\ inFlight' = inFlight
    BY Basics DEF Takes
  <2>2. QED  BY <2>1
<1>4. ReaderInv'
  <2>1. <<>> \in Seq(Byte) /\ Len(<<>>) <= IF reading' = "magic" THEN Len(Magic) ELSE Prefix
    BY Heads DEF FramingAssumption
  <2>2. NoLength' = NoLength /\ NoLength \in 0..NoLength
    BY Numbers DEF NoLength
  <2>3. QED  BY <1>1, <1>2, <1>3, <2>1, <2>2 DEF ReaderInv
<1>5. PICK all \in Seq(Byte), cut \in [Nat -> Nat], begun \in Seq(Byte), more \in Seq(Byte) :
        Marked(all, cut) /\ Begun(all, cut, begun, more) /\ Left(all, cut)
  BY DEF FramingInv, StreamInv, Takes
<1>6. Marked(all, cut)' /\ Begun(all, cut, begun, more)'
  BY <1>5, SameStream DEF Takes
<1>7. Left(all, cut)'
  BY <1>5, TakesLeft
<1>8. StreamInv'
  BY <1>5, <1>6, <1>7 DEF StreamInv
<1>9. WriterInv'
  BY SameWriter DEF FramingInv, Takes
<1>10. QED  BY <1>4, <1>8, <1>9 DEF FramingInv

\* The relay's replies are the ones that are expected.
LEMMA ReplyTakes ==
  ASSUME FramingAssumption, FramingInv, ReplyRead
  PROVE  \E m \in Message : Takes(m)
<1>1. reader = "reading" /\ reading = "replies" /\ due # NoLength /\ Wanted = 0
  BY DEF ReplyRead
<1>2. PICK m \in Message :
        /\ Legit(m) /\ <<KindAt(Len(got)), m.kind>> \in Follows /\ m.kind # "magic"
        /\ body = Payload(m) /\ Seen = Bytes(m)
        /\ Len(got) < Len(written) /\ m = written[Len(got) + 1]
  BY <1>1, BodyIs
<1>3. m.kind \in {"welcome", "paired"}
  BY <1>1, <1>2, KindsRead DEF FramingInv, ReaderInv
<1>4. DecodeReply(body) = m /\ m # Malformed
  BY <1>2, <1>3, ReplyDecoded
<1>5. ~(m.kind = "welcome" /\ got # <<>>)
  <2>1. SUFFICES ASSUME m.kind = "welcome"
                 PROVE  got = <<>>
    OBVIOUS
  <2>2. KindAt(Len(got)) = "none"
    BY <1>2, <2>1, KindsRead
  <2>3. Len(got) \in Nat /\ got \in Seq(Message) /\ Len(written) \in Nat /\ Len(got) <= Len(written)
    BY Basics
  <2>4. \A i \in 1..Len(written) : written[i].kind # "none"
    <3>1. written \in Seq(Message)
      BY Basics
    <3>2. \A i \in 1..Len(written) : written[i] \in Message
      BY <3>1
    <3>3. QED  BY <3>2 DEF Message
  <2>5. Len(got) = 0 \/ Len(got) \in 1..Len(written)
    BY <2>3
  <2>6. Len(got) = 0
    BY <2>2, <2>4, <2>5 DEF KindAt
  <2>7. QED  BY <2>3, <2>6
<1>6. got' = Append(got, m) /\ reader' = reader /\ reading' = IF m.kind = "paired" THEN "magic" ELSE reading
  BY <1>4, <1>5 DEF ReplyRead
<1>7. reading' = Reads(m.kind)
  BY <1>1, <1>3, <1>6 DEF Reads
<1>8. have' = <<>> /\ body' = <<>> /\ due' = NoLength
  BY <1>1 DEF ReplyRead, FramingInv, ReaderInv
<1>9. UNCHANGED WriterVars /\ UNCHANGED inFlight
  BY DEF ReplyRead
<1>10. Takes(m)
  BY <1>1, <1>2, <1>6, <1>7, <1>8, <1>9 DEF Takes
<1>11. QED  BY <1>10

LEMMA MagicTakes ==
  ASSUME FramingAssumption, FramingInv, MagicRead
  PROVE  MagicItem \in Message /\ Takes(MagicItem)
<1>1. /\ reader = "reading" /\ reading = "magic" /\ Wanted = 0 /\ have' = <<>>
      /\ UNCHANGED <<inFlight, body, due>> /\ UNCHANGED WriterVars
  BY DEF MagicRead
<1>2. /\ have = Magic /\ Seen = Bytes(MagicItem) /\ MagicItem \in Message
      /\ Len(got) < Len(written) /\ MagicItem = written[Len(got) + 1]
      /\ due = NoLength /\ body = <<>>
  BY <1>1, MagicIs
<1>3. reading' = "frames" /\ got' = Append(got, MagicItem) /\ reader' = reader
  BY <1>2 DEF MagicRead
<1>4. reading' = Reads(MagicItem.kind)
  BY <1>3 DEF Reads, MagicItem
<1>5. QED  BY <1>1, <1>2, <1>3, <1>4 DEF Takes

LEMMA FrameTakes ==
  ASSUME FramingAssumption, FramingInv, FrameRead
  PROVE  \E m \in Message : Takes(m)
<1>1. /\ reader = "reading" /\ reading = "frames" /\ due # NoLength /\ Wanted = 0
      /\ due' = NoLength /\ body' = <<>> /\ UNCHANGED <<inFlight, reading, have>> /\ UNCHANGED WriterVars
  BY DEF FrameRead
<1>2. PICK m \in Message :
        /\ Legit(m) /\ <<KindAt(Len(got)), m.kind>> \in Follows /\ m.kind # "magic"
        /\ body = Payload(m) /\ Seen = Bytes(m)
        /\ Len(got) < Len(written) /\ m = written[Len(got) + 1]
  BY <1>1, BodyIs
<1>3. m.kind \in {"control", "data"}
  BY <1>1, <1>2, KindsRead DEF FramingInv, ReaderInv
<1>4. DecodeIncoming(body) = m /\ m # Malformed
  BY <1>2, <1>3, ControlDecoded, DataDecoded
<1>5. got' = Append(got, m) /\ reader' = reader
  BY <1>4 DEF FrameRead
<1>6. reading' = Reads(m.kind)
  BY <1>1, <1>3 DEF Reads
<1>7. have' = <<>>
  BY <1>1 DEF FramingInv, ReaderInv
<1>8. Takes(m)
  BY <1>1, <1>2, <1>5, <1>6, <1>7 DEF Takes
<1>9. QED  BY <1>8

\* The reader ends, and looks at nothing any more.
LEMMA EndingKeeps == ASSUME FramingAssumption, FramingInv, EndOfStream \/ Reset PROVE FramingInv'
<1>1. /\ UNCHANGED <<reading, have, body, due, got>> /\ UNCHANGED WriterVars
      /\ reader' # "reading" /\ reader' # "too large" /\ (inFlight' = inFlight \/ inFlight' = <<>>)
  BY DEF EndOfStream, Reset
<1>2. inFlight' \in Seq(Byte)
  <2>1. inFlight \in Seq(Byte) /\ <<>> \in Seq(Byte)
    BY Basics
  <2>2. QED  BY <1>1, <2>1
<1>3. written' = written
  BY <1>1 DEF WriterVars
<1>4. ReaderInv'
  BY <1>1, <1>2, <1>3 DEF FramingInv, ReaderInv
<1>5. QED  BY <1>1, <1>4, StillReading

LEMMA SameFraming == ASSUME FramingAssumption, FramingInv, UNCHANGED framingVars PROVE FramingInv'
<1>1. /\ UNCHANGED WriterVars /\ UNCHANGED <<inFlight, reading, have, body, due, got, reader>>
  BY DEF framingVars, WriterVars
<1>2. \A i : KindAt(i)' = KindAt(i)
  BY <1>1, SameStream
<1>3. ReaderInv'
  <2>1. written' = written
    BY <1>1 DEF WriterVars
  <2>2. QED  BY <1>1, <1>2, <2>1 DEF FramingInv, ReaderInv
<1>4. Seen' = Seen
  BY <1>1 DEF Seen
<1>5. QED  BY <1>1, <1>3, <1>4, StillReading

LEMMA FramingStep == ASSUME FramingAssumption, FramingInv, [FramingNext]_framingVars PROVE FramingInv'
<1>1. CASE SendReply  BY <1>1, SendReplyKeeps
<1>2. CASE SendMagic  BY <1>2, SendMagicKeeps
<1>3. CASE SendControl  BY <1>3, SendControlKeeps
<1>4. CASE SendData  BY <1>4, SendDataKeeps
<1>5. CASE WriteSome  BY <1>5, WriteSomeKeeps
<1>6. CASE Leave  BY <1>6, LeaveKeeps
<1>7. CASE ReadSome  BY <1>7, ReadSomeKeeps
<1>8. CASE HeaderRead  BY <1>8, HeaderReadKeeps
<1>9. CASE ReplyRead  BY <1>9, ReplyTakes, TakesKeeps
<1>10. CASE MagicRead  BY <1>10, MagicTakes, TakesKeeps
<1>11. CASE FrameRead  BY <1>11, FrameTakes, TakesKeeps
<1>12. CASE EndOfStream \/ Reset  BY <1>12, EndingKeeps
<1>13. CASE UNCHANGED framingVars  BY <1>13, SameFraming
<1>14. QED
  BY <1>1, <1>2, <1>3, <1>4, <1>5, <1>6, <1>7, <1>8, <1>9, <1>10, <1>11, <1>12, <1>13
     DEF FramingNext

\* The invariant: there is one stream of bytes, in which the messages written
\* lie one behind the other, and the reader is always at a place in it that
\* the messages it has read end at (write_all, read_exact, FrameWriter and
\* FrameReader of src/protocol/frame.rs; the magic of src/protocol/channel.rs).
THEOREM ReaderKnowsWhere == ASSUME FramingAssumption PROVE FramingSpec => []FramingInv
<1>1. FramingInit => FramingInv
  BY StartsFraming
<1>2. FramingInv /\ [FramingNext]_framingVars => FramingInv'
  BY FramingStep
<1>3. QED  BY <1>1, <1>2, PTL DEF FramingSpec

LEMMA LegitFits == ASSUME FramingAssumption, FramingInv PROVE ChunksFit
<1>1. writer = "refused" => message.kind = "control"
  BY DEF FramingInv, WriterInv
<1>2. reader # "too large"
  BY DEF FramingInv, ReaderInv
<1>3. ASSUME NEW i \in 1..Len(got), got[i].kind = "data"
      PROVE  Len(got[i].bytes) \in 1..ChunkLimit(Agreed)
  <2>1. Len(got) \in Nat /\ Len(written) \in Nat /\ Len(got) <= Len(written) /\ got[i] = written[i]
    BY Basics
  <2>2. i \in 1..Len(written)
    BY <2>1
  <2>3. Len(got[i].bytes) \in 1..ChunkSize(Agreed)
    BY <1>3, <2>1, <2>2 DEF FramingInv, WriterInv, Legit
  <2>4. /\ ChunkSize(Agreed) \in Nat /\ ChunkLimit(Agreed) \in Nat
        /\ ChunkSize(Agreed) <= ChunkLimit(Agreed)
    BY Limits DEF FramingInv, WriterInv
  <2>5. QED  BY <2>3, <2>4
<1>4. QED  BY <1>1, <1>2, <1>3 DEF ChunksFit

\* Whatever capabilities another build announces, no limit on its way refuses
\* a chunk of the agreed size, and none is empty (chunk_size and
\* apply_capabilities of src/protocol/channel.rs, finish and read_frame of
\* src/protocol/frame.rs, begin of src/transfer/receiver.rs).
THEOREM ChunksAlwaysFit == ASSUME FramingAssumption PROVE FramingSpec => []ChunksFit
<1>1. FramingInv => ChunksFit
  BY LegitFits
<1>2. QED  BY <1>1, ReaderKnowsWhere, PTL

-----------------------------------------------------------------------------
(* The stream of messages. *)

\* A stream that ends between two frames has given everything that was written.
LEMMA ClosedGotAll ==
  ASSUME FramingAssumption, FramingInv, EndOfStream, reader' = "closed"
  PROVE  got = written
<1>1. /\ reader = "reading" /\ reading = "frames" /\ due = NoLength /\ inFlight = <<>> /\ Wanted > 0
  BY DEF EndOfStream
<1>2. Len(got) \in Nat /\ Len(written) \in Nat /\ Len(got) <= Len(written)
  BY Basics
<1>3. ASSUME Len(got) < Len(written)
      PROVE  FALSE
  <2>1. PICK all \in Seq(Byte), cut \in [Nat -> Nat] : Marked(all, cut) /\ Left(all, cut)
    BY <1>1 DEF FramingInv, StreamInv
  <2>2. Len(got) + 1 \in 1..Len(written) /\ (Len(got) + 1) - 1 = Len(got)
    BY <1>2, <1>3, Counting
  <2>3. PICK m : m = written[Len(got) + 1]
    OBVIOUS
  <2>4. Legit(m) /\ <<KindAt(Len(got)), m.kind>> \in Follows
    BY <2>2, <2>3 DEF FramingInv, WriterInv
  <2>5. m \in Message /\ m.kind # "magic"
    BY <1>1, <2>4, KindsRead DEF FramingInv, ReaderInv, Legit
  <2>6. PICK p \in Nat : p = cut[Len(got)]
    BY <1>2
  <2>7. p + Len(Bytes(m)) <= Len(all)
    BY <2>1, <2>2, <2>3, <2>6 DEF Marked, Shows
  <2>8. Len(all) = p + Len(have) /\ Len(have) \in Nat
    <3>1. have \in Seq(Byte)
      BY <1>1, Basics
    <3>2. have \o <<>> = have
      BY <3>1
    <3>3. Ends(all, p, have)
      BY <1>1, <2>1, <2>6, <3>2 DEF Left, Seen
    <3>4. QED  BY <3>1, <3>3 DEF Ends
  <2>9. Len(Bytes(m)) = Prefix + Len(Payload(m)) /\ Len(Payload(m)) \in Nat /\ Len(Bytes(m)) \in Nat
    BY <2>5, BytesAre, Payloads
  <2>10. Len(have) < Prefix /\ Prefix \in Nat
    <3>1. Wanted = Prefix - Len(have) /\ Prefix \in Nat
      BY <1>1 DEF Wanted, FramingAssumption
    <3>2. QED  BY <1>1, <2>8, <3>1
  <2>11. \A a, b, c, d, e \in Nat : a + b <= a + c /\ b = d + e => ~(c < d)
    OBVIOUS
  <2>12. p + Len(Bytes(m)) <= p + Len(have)
    BY <2>7, <2>8
  <2>13. QED  BY <2>8, <2>9, <2>10, <2>11, <2>12
<1>4. Len(got) = Len(written)
  BY <1>2, <1>3
<1>5. /\ got \in Seq(Message) /\ written \in Seq(Message)
      /\ \A i \in 1..Len(got) : got[i] = written[i]
  BY Basics
<1>6. QED  BY <1>4, <1>5, SameSeq

LEMMA WritesOne ==
  ASSUME FramingAssumption, FramingInv, WriteSome
  PROVE  /\ UNCHANGED <<got, reader>>
         /\ \/ UNCHANGED written
            \/ /\ written' \in Seq(Message) /\ Len(written') = Len(written) + 1
               /\ SubSeq(written', 1, Len(written)) = written
<1>1. UNCHANGED <<got, reader>>
  BY DEF WriteSome, ReaderVars
<1>2. CASE written' = Append(written, message)
  <2>1. written \in Seq(Message) /\ message \in Message
    BY DEF WriteSome, FramingInv, WriterInv, Legit
  <2>2. /\ Append(written, message) \in Seq(Message) /\ Len(Append(written, message)) = Len(written) + 1
        /\ \A i \in 1..Len(written) : Append(written, message)[i] = written[i]
    BY <2>1, Appending
  <2>3. SubSeq(Append(written, message), 1, Len(written)) = written
    <3>1. Len(written) \in 0..Len(Append(written, message))
      BY <2>1, <2>2
    <3>2. /\ SubSeq(Append(written, message), 1, Len(written)) \in Seq(Message)
          /\ Len(SubSeq(Append(written, message), 1, Len(written))) = Len(written)
      BY <2>2, <3>1, Split
    <3>3. \A i \in 1..Len(written) : SubSeq(Append(written, message), 1, Len(written))[i] = written[i]
      BY <2>1
    <3>4. QED  BY <2>1, <3>2, <3>3, SameSeq
  <2>4. QED  BY <1>1, <1>2, <2>2, <2>3
<1>3. CASE written' = written
  BY <1>1, <1>3
<1>4. QED  BY <1>2, <1>3 DEF WriteSome

\* Every step is one of the stream, or none of its business.
LEMMA StreamStep ==
  ASSUME FramingAssumption, FramingInv, [FramingNext]_framingVars
  PROVE  [Stream!Next]_(Stream!vars)
<1> USE DEF Stream!Next, Stream!vars
<1>1. CASE SendReply \/ SendMagic \/ SendControl \/ SendData \/ Leave
  <2>1. UNCHANGED <<written, got, reader>>
    BY <1>1 DEF SendReply, SendMagic, SendControl, SendData, Leave, Submit, ReaderVars
  <2>2. QED  BY <2>1
<1>2. CASE ReadSome
  <2>1. UNCHANGED <<written, got, reader>>
    BY <1>2 DEF ReadSome, WriterVars
  <2>2. QED  BY <2>1
<1>3. CASE HeaderRead
  <2>1. UNCHANGED <<written, got>> /\ reader = "reading"
    BY <1>3 DEF HeaderRead, WriterVars
  <2>2. reader' # "too large"
    BY <1>3, HeaderReadKeeps DEF FramingInv, ReaderInv
  <2>3. UNCHANGED reader
    BY <1>3, <2>2 DEF HeaderRead
  <2>4. QED  BY <2>1, <2>3
<1>4. CASE WriteSome
  <2>1. CASE UNCHANGED written
    BY <1>4, <2>1, WritesOne
  <2>2. CASE /\ written' \in Seq(Message) /\ Len(written') = Len(written) + 1
             /\ SubSeq(written', 1, Len(written)) = written
    <3>1. Stream!Send
      BY <1>4, <2>2, WritesOne DEF Stream!Send, Message
    <3>2. QED  BY <3>1
  <2>3. QED  BY <1>4, <2>1, <2>2, WritesOne
<1>5. ASSUME NEW m, Takes(m)
      PROVE  Stream!Deliver
  <2>1. UNCHANGED <<written, reader>>
    BY <1>5 DEF Takes, WriterVars
  <2>2. QED  BY <1>5, <2>1 DEF Takes, Stream!Deliver
<1>6. CASE ReplyRead \/ MagicRead \/ FrameRead
  <2>1. \E m : Takes(m)
    BY <1>6, ReplyTakes, MagicTakes, FrameTakes
  <2>2. QED  BY <1>5, <2>1
<1>7. CASE EndOfStream
  <2>1. UNCHANGED <<written, got>> /\ reader = "reading" /\ reader' \in {"closed", "cut"}
    BY <1>7 DEF EndOfStream, WriterVars
  <2>2. CASE reader' = "closed"
    <3>1. Stream!Close
      BY <1>7, <2>1, <2>2, ClosedGotAll DEF Stream!Close
    <3>2. QED  BY <3>1
  <2>3. CASE reader' = "cut"
    <3>1. Stream!Break
      BY <2>1, <2>3 DEF Stream!Break
    <3>2. QED  BY <3>1
  <2>4. QED  BY <2>1, <2>2, <2>3
<1>8. CASE Reset
  <2>1. UNCHANGED <<written, got>> /\ reader = "reading" /\ reader' = "reset"
    BY <1>8 DEF Reset, WriterVars
  <2>2. Stream!Break
    BY <2>1 DEF Stream!Break
  <2>3. QED  BY <2>2
<1>9. CASE UNCHANGED framingVars
  <2>1. UNCHANGED <<written, got, reader>>
    BY <1>9 DEF framingVars
  <2>2. QED  BY <2>1
<1>10. QED
  BY <1>1, <1>2, <1>3, <1>4, <1>6, <1>7, <1>8, <1>9 DEF FramingNext

\* However the bytes are cut into pieces on their way, every message arrives
\* whole, once and in order, whichever of the three readers takes it, and a
\* stream that ended as closed has delivered every message (src/protocol/frame.rs,
\* src/net/relay.rs and src/protocol/channel.rs).
THEOREM FramesImplementStream == ASSUME FramingAssumption PROVE FramingSpec => ImplementsFrameStream
<1>1. FramingInit => Stream!Init
  BY DEF FramingInit, Stream!Init
<1>2. FramingInv /\ [FramingNext]_framingVars => [Stream!Next]_(Stream!vars)
  BY StreamStep
<1>3. QED
  BY <1>1, <1>2, ReaderKnowsWhere, PTL DEF FramingSpec, ImplementsFrameStream, Stream!Spec
=============================================================================
