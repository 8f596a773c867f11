---------------------------- MODULE CodesProofs ----------------------------
(***************************************************************************)
(* Proofs about Codes, for any alphabet and list of words that the tests   *)
(* of the list accept, any codes and any number of changes on their way    *)
(* from one person to the other.  normalize is a recursion over the        *)
(* characters of a text, so its lemmas begin with an induction that needs  *)
(* nothing but finite sets.  CodesInv says what the text is after any      *)
(* changes: one that parse reads as the code that was told, or, once a     *)
(* word was misspelt, as one that differs in just this word, which is not  *)
(* in the list.                                                            *)
(***************************************************************************)
EXTENDS Codes, TLAPS, FiniteSetTheorems, SequenceTheorems

-----------------------------------------------------------------------------
(* Recursion over numbers, and sequences. *)

LEMMA Induction ==
  ASSUME NEW S, 0 \in S, \A n \in Nat : n \in S => n + 1 \in S
  PROVE  Nat \subseteq S
<1>1. SUFFICES ASSUME NEW n \in Nat, n \notin S
               PROVE  FALSE
  OBVIOUS
<1> DEFINE T == S \cap (0..n)
           f == [k \in T |-> k + 1]
<1>2. IsFiniteSet(T) /\ Cardinality(T) \in Nat
  <2>1. IsFiniteSet(0..n)
    BY FS_Interval
  <2>2. IsFiniteSet(T)
    BY <2>1, FS_Subset
  <2>3. QED  BY <2>2, FS_CardinalityType
<1>3. IsFiniteSet(T \ {0}) /\ Cardinality(T \ {0}) = Cardinality(T) - 1
  <2>1. 0 \in T
    OBVIOUS
  <2> HIDE DEF T
  <2>2. QED  BY <1>2, <2>1, FS_RemoveElement
<1>4. f \in Injection(T, T \ {0})
  <2>1. \A k \in T : k + 1 \in T \ {0}
    BY <1>1
  <2>2. \A j, k \in T : f[j] = f[k] => j = k
    OBVIOUS
  <2>3. QED  BY <2>1, <2>2 DEF Injection, IsInjective
<1> HIDE DEF T, f
<1>5. Cardinality(T) <= Cardinality(T \ {0})
  BY <1>3, <1>4, FS_Injection
<1>6. QED  BY <1>2, <1>3, <1>5

\* What starts with a and goes on by the n-th step to its n-th value: there
\* is one.
Runs(A, a, N, by) ==
  {f \in [0..N -> A] : f[0] = a /\ \A n \in 1..N : f[n] = by[n][f[n - 1]]}

LEMMA Recursion ==
  ASSUME NEW A, NEW a \in A, NEW N \in Nat, NEW by \in [1..N -> [A -> A]]
  PROVE  \E f : f \in Runs(A, a, N, by)
<1> DEFINE S == {m \in Nat : m <= N => \E f : f \in Runs(A, a, m, by)}
<1>1. 0 \in S
  <2>1. [n \in 0..0 |-> a] \in Runs(A, a, 0, by)
    BY DEF Runs
  <2>2. QED  BY <2>1
<1>2. ASSUME NEW m \in Nat, m \in S
      PROVE  m + 1 \in S
  <2>1. SUFFICES ASSUME m + 1 <= N
                 PROVE  \E f : f \in Runs(A, a, m + 1, by)
    OBVIOUS
  <2>2. PICK f : f \in Runs(A, a, m, by)
    BY <1>2, <2>1
  <2> DEFINE g == [k \in 0..(m + 1) |-> IF k = m + 1 THEN by[m + 1][f[m]] ELSE f[k]]
  <2>3. f \in [0..m -> A] /\ f[0] = a /\ \A n \in 1..m : f[n] = by[n][f[n - 1]]
    BY <2>2 DEF Runs
  <2>4. f[m] \in A /\ by[m + 1] \in [A -> A]
    BY <2>1, <2>3
  <2>5. g \in [0..(m + 1) -> A]
    BY <2>3, <2>4
  <2>6. g[0] = a
    BY <2>3
  <2>7. ASSUME NEW n \in 1..(m + 1)
        PROVE  g[n] = by[n][g[n - 1]]
    <3>1. CASE n = m + 1
      <4>1. g[n - 1] = f[m]
        BY <3>1
      <4>2. QED  BY <3>1, <4>1
    <3>2. CASE n \in 1..m
      <4>1. g[n - 1] = f[n - 1] /\ g[n] = f[n]
        BY <3>2
      <4>2. QED  BY <3>2, <4>1, <2>3
    <3>3. QED  BY <3>1, <3>2
  <2>8. QED  BY <2>5, <2>6, <2>7 DEF Runs
<1>3. Nat \subseteq S
  <2> HIDE DEF S
  <2>1. QED  BY <1>1, <1>2, Induction
<1>4. QED  BY <1>3

\* Part of a sequence.
LEMMA Part ==
  ASSUME NEW S, NEW t \in Seq(S), NEW a \in 1..(Len(t) + 1), NEW b \in (a - 1)..Len(t)
  PROVE  /\ SubSeq(t, a, b) \in Seq(S) /\ Len(SubSeq(t, a, b)) = b - a + 1
         /\ \A i \in 1..(b - a + 1) : SubSeq(t, a, b)[i] = t[a + i - 1]
<1>1. \A i \in a..b : t[i] \in S
  BY ElementOfSeq
<1>2. a \in Int /\ b \in Int /\ Len(t) \in Nat
  BY LenProperties
<1>3. QED  BY <1>1, <1>2, SubSeqProperties

\* One element.
LEMMA Single ==
  ASSUME NEW S, NEW c \in S
  PROVE  <<c>> \in Seq(S) /\ Len(<<c>>) = 1 /\ <<c>>[1] = c
OBVIOUS

\* A sequence around its i-th element.
LEMMA Around ==
  ASSUME NEW S, NEW t \in Seq(S), NEW i \in 1..Len(t)
  PROVE  /\ SubSeq(t, 1, i - 1) \in Seq(S) /\ SubSeq(t, i + 1, Len(t)) \in Seq(S) /\ t[i] \in S
         /\ t = SubSeq(t, 1, i - 1) \o <<t[i]>> \o SubSeq(t, i + 1, Len(t))
<1> DEFINE a == SubSeq(t, 1, i - 1)
           z == SubSeq(t, i + 1, Len(t))
           x == <<t[i]>>
           n == Len(t)
<1>1. n \in Nat /\ t[i] \in S
  BY LenProperties, ElementOfSeq
<1>2. a \in Seq(S) /\ Len(a) = i - 1 /\ \A k \in 1..(i - 1) : a[k] = t[k]
  <2>1. 1 \in 1..(n + 1) /\ i - 1 \in (1 - 1)..n
    BY <1>1
  <2>2. a \in Seq(S) /\ Len(a) = (i - 1) - 1 + 1 /\ \A k \in 1..((i - 1) - 1 + 1) : a[k] = t[1 + k - 1]
    BY <2>1, Part
  <2>3. QED  BY <2>2, <1>1
<1>3. z \in Seq(S) /\ Len(z) = n - i /\ \A k \in 1..(n - i) : z[k] = t[i + k]
  <2>1. i + 1 \in 1..(n + 1) /\ n \in ((i + 1) - 1)..n
    BY <1>1
  <2>2. z \in Seq(S) /\ Len(z) = n - (i + 1) + 1 /\ \A k \in 1..(n - (i + 1) + 1) : z[k] = t[(i + 1) + k - 1]
    BY <2>1, Part
  <2>3. QED  BY <2>2, <1>1
<1>4. x \in Seq(S) /\ Len(x) = 1 /\ x[1] = t[i]
  BY <1>1, Single
<1> HIDE DEF a, z, x
<1>5. /\ a \o x \in Seq(S) /\ Len(a \o x) = i
      /\ \A k \in 1..i : (a \o x)[k] = t[k]
  <2>1. /\ a \o x \in Seq(S) /\ Len(a \o x) = Len(a) + Len(x)
        /\ \A k \in 1..(Len(a) + Len(x)) : (a \o x)[k] = IF k <= Len(a) THEN a[k] ELSE x[k - Len(a)]
    BY <1>2, <1>4, ConcatProperties
  <2>2. QED  BY <2>1, <1>1, <1>2, <1>4
<1> DEFINE ax == a \o x
<1> HIDE DEF ax
<1>6. /\ ax \o z \in Seq(S) /\ Len(ax \o z) = n
      /\ \A k \in 1..n : (ax \o z)[k] = t[k]
  <2>0. ax \in Seq(S) /\ Len(ax) = i /\ \A k \in 1..i : ax[k] = t[k]
    BY <1>5 DEF ax
  <2>1. /\ ax \o z \in Seq(S) /\ Len(ax \o z) = Len(ax) + Len(z)
        /\ \A k \in 1..(Len(ax) + Len(z)) : (ax \o z)[k] = IF k <= Len(ax) THEN ax[k] ELSE z[k - Len(ax)]
    BY <2>0, <1>3, ConcatProperties
  <2>2. QED  BY <2>0, <2>1, <1>1, <1>3
<1>7. ax \o z = t
  <2> DEFINE w == ax \o z
  <2>1. w \in Seq(S) /\ Len(w) = Len(t) /\ \A k \in 1..Len(w) : w[k] = t[k]
    BY <1>6
  <2> HIDE DEF w
  <2>2. w = t
    BY <2>1, SeqEqual
  <2>3. QED  BY <2>2 DEF w
<1>8. QED  BY <1>1, <1>2, <1>3, <1>7 DEF a, x, z, ax

-----------------------------------------------------------------------------
(* Reading a text. *)

Signs == Small \cup {"-"}
Chars == Small \cup Separators \cup DOMAIN Lowercase
States == [out : Seq(Signs), pending : BOOLEAN]
Start == [out |-> <<>>, pending |-> FALSE]

\* What one character is read as.
Lowered(c) == IF c \in Small THEN <<c>> ELSE Lowercase[c]

LEMMA LoweredIsSmall ==
  ASSUME CodesAssumption, NEW c \in Chars \ Separators
  PROVE  Lowered(c) \in Seq(Small) /\ Lowered(c) # <<>>
<1>1. CASE c \in Small
  BY <1>1 DEF Lowered
<1>2. CASE c \notin Small
  BY <1>2 DEF Lowered, CodesAssumption, Chars
<1>3. QED  BY <1>1, <1>2

LEMMA SmallSigns == Seq(Small) \subseteq Seq(Signs)
BY DEF Signs

\* One character leads from a state to a state, which is, for what is no
\* separator, what there was, one separator if one was kept back, and the
\* letters.
LEMMA AbsorbedOnce ==
  ASSUME CodesAssumption, NEW s \in States, NEW c \in Chars
  PROVE  /\ Absorb(s, c) \in States
         /\ c \in Separators => Absorb(s, c) = [out |-> s.out, pending |-> s.out # <<>>]
         /\ c \notin Separators /\ s.pending =>
              Absorb(s, c) = [out |-> s.out \o <<"-">> \o Lowered(c), pending |-> FALSE]
         /\ c \notin Separators /\ ~s.pending =>
              Absorb(s, c) = [out |-> s.out \o Lowered(c), pending |-> FALSE]
<1>1. s.out \in Seq(Signs) /\ s.pending \in BOOLEAN /\ s = [out |-> s.out, pending |-> s.pending]
  BY DEF States
<1>2. CASE c \in Separators
  <2>1. Absorb(s, c) = [out |-> s.out, pending |-> s.out # <<>>]
    BY <1>1, <1>2 DEF Absorb
  <2>2. QED  BY <1>1, <1>2, <2>1 DEF States
<1>3. CASE c \notin Separators
  <2>1. Lowered(c) \in Seq(Signs)
    BY <1>3, LoweredIsSmall, SmallSigns
  <2>2. <<"-">> \in Seq(Signs)
    BY DEF Signs
  <2> DEFINE o == s.out
  <2>3. CASE s.pending
    <3>1. Absorb(s, c) = [out |-> o \o <<"-">> \o Lowered(c), pending |-> FALSE]
      BY <1>3, <2>3 DEF Absorb, Lowered
    <3>2. o \o <<"-">> \in Seq(Signs)
      BY <1>1, <2>2, ConcatProperties
    <3>3. o \o <<"-">> \o Lowered(c) \in Seq(Signs)
      BY <2>1, <3>2, ConcatProperties
    <3>4. QED  BY <3>1, <3>3, <1>3, <2>3 DEF States
  <2>4. CASE ~s.pending
    <3>1. Absorb(s, c) = [out |-> o \o <<>> \o Lowered(c), pending |-> FALSE]
      BY <1>3, <2>4 DEF Absorb, Lowered
    <3>2. o \o <<>> = o
      BY <1>1, ConcatEmptySeq
    <3>3. o \o Lowered(c) \in Seq(Signs)
      BY <1>1, <2>1, ConcatProperties
    <3>4. QED  BY <3>1, <3>2, <3>3, <1>3, <2>4 DEF States
  <2>5. QED  BY <1>1, <2>3, <2>4
<1>4. QED  BY <1>2, <1>3

\* The states that a text leads through.
Path(s, t, r) ==
  /\ r \in [0..Len(t) -> States] /\ r[0] = s
  /\ \A n \in 1..Len(t) : r[n] = Absorb(r[n - 1], t[n])

LEMMA PathExists ==
  ASSUME CodesAssumption, NEW s \in States, NEW t \in Seq(Chars)
  PROVE  \E r : Path(s, t, r)
<1> DEFINE by == [n \in 1..Len(t) |-> [q \in States |-> Absorb(q, t[n])]]
<1>1. Len(t) \in Nat /\ \A n \in 1..Len(t) : t[n] \in Chars
  BY LenProperties, ElementOfSeq
<1>2. by \in [1..Len(t) -> [States -> States]]
  <2>1. \A n \in 1..Len(t) : \A q \in States : Absorb(q, t[n]) \in States
    BY <1>1, AbsorbedOnce
  <2>2. QED  BY <2>1
<1>3. \A n \in 1..Len(t) : \A q \in States : by[n][q] = Absorb(q, t[n])
  OBVIOUS
<1> HIDE DEF by
<1>4. PICK r : r \in Runs(States, s, Len(t), by)
  BY <1>1, <1>2, Recursion
<1>5. r \in [0..Len(t) -> States] /\ r[0] = s /\ \A n \in 1..Len(t) : r[n] = by[n][r[n - 1]]
  BY <1>4 DEF Runs
<1>6. \A n \in 1..Len(t) : r[n - 1] \in States
  BY <1>1, <1>5
<1>7. QED  BY <1>3, <1>5, <1>6 DEF Path

\* There is no other one.
LEMMA PathIsOne ==
  ASSUME CodesAssumption, NEW s \in States, NEW t \in Seq(Chars), NEW q, NEW r,
         Path(s, t, q), Path(s, t, r)
  PROVE  q = r
<1> DEFINE S == {n \in Nat : n <= Len(t) => q[n] = r[n]}
<1>0. Len(t) \in Nat
  BY LenProperties
<1>1. 0 \in S
  BY DEF Path
<1>2. ASSUME NEW n \in Nat, n \in S
      PROVE  n + 1 \in S
  <2>1. SUFFICES ASSUME n + 1 <= Len(t)
                 PROVE  q[n + 1] = r[n + 1]
    OBVIOUS
  <2>2. q[n] = r[n] /\ n + 1 \in 1..Len(t)
    BY <1>0, <1>2, <2>1
  <2>3. q[n + 1] = Absorb(q[n + 1 - 1], t[n + 1]) /\ r[n + 1] = Absorb(r[n + 1 - 1], t[n + 1])
    BY <2>2 DEF Path
  <2>4. n + 1 - 1 = n
    OBVIOUS
  <2>5. QED  BY <2>2, <2>3, <2>4
<1>3. Nat \subseteq S
  <2> HIDE DEF S
  <2>1. QED  BY <1>1, <1>2, Induction
<1>4. \A n \in 0..Len(t) : q[n] = r[n]
  BY <1>0, <1>3
<1>5. QED  BY <1>4 DEF Path

\* It ends in the state that Absorbed is.
LEMMA PathEnds ==
  ASSUME CodesAssumption, NEW s \in States, NEW t \in Seq(Chars), NEW q, Path(s, t, q)
  PROVE  Absorbed(s, t) = q[Len(t)] /\ Absorbed(s, t) \in States
<1> DEFINE r == CHOOSE r : r = [n \in 0..Len(t) |-> IF n = 0 THEN s ELSE Absorb(r[n - 1], t[n])]
<1>0. Len(t) \in Nat
  BY LenProperties
<1>1. q = [n \in 0..Len(t) |-> IF n = 0 THEN s ELSE Absorb(q[n - 1], t[n])]
  BY <1>0 DEF Path
<1>2. r = [n \in 0..Len(t) |-> IF n = 0 THEN s ELSE Absorb(r[n - 1], t[n])]
  BY <1>1
<1>3. Absorbed(s, t) = r[Len(t)]
  BY DEF Absorbed
<1> HIDE DEF r
<1> DEFINE S == {n \in Nat : n <= Len(t) => r[n] = q[n]}
<1>4. 0 \in S
  BY <1>0, <1>2 DEF Path
<1>5. ASSUME NEW n \in Nat, n \in S
      PROVE  n + 1 \in S
  <2>1. SUFFICES ASSUME n + 1 <= Len(t)
                 PROVE  r[n + 1] = q[n + 1]
    OBVIOUS
  <2>2. r[n] = q[n] /\ n + 1 \in 1..Len(t) /\ n + 1 \in 0..Len(t) /\ n + 1 # 0
    BY <1>0, <1>5, <2>1
  <2>4. n + 1 - 1 = n
    OBVIOUS
  <2>3. q[n + 1] = Absorb(q[n + 1 - 1], t[n + 1])
    BY <2>2 DEF Path
  <2>6. r[n + 1] = Absorb(r[n + 1 - 1], t[n + 1])
    <3>1. \A k \in 0..Len(t) : r[k] = IF k = 0 THEN s ELSE Absorb(r[k - 1], t[k])
      BY ONLY <1>2
    <3>2. QED  BY <2>2, <3>1
  <2>5. QED  BY <2>2, <2>3, <2>4, <2>6
<1>6. Nat \subseteq S
  <2> HIDE DEF S
  <2>1. QED  BY <1>4, <1>5, Induction
<1>7. r[Len(t)] = q[Len(t)] /\ q[Len(t)] \in States
  BY <1>0, <1>6 DEF Path
<1>8. QED  BY <1>3, <1>7

\* No character, one character, and two texts one after the other.
LEMMA AbsorbedTyped ==
  ASSUME CodesAssumption, NEW s \in States, NEW t \in Seq(Chars)
  PROVE  Absorbed(s, t) \in States
BY PathExists, PathEnds

LEMMA AbsorbedNone ==
  ASSUME CodesAssumption, NEW s \in States
  PROVE  Absorbed(s, <<>>) = s
<1>1. <<>> \in Seq(Chars) /\ Len(<<>>) = 0
  OBVIOUS
<1>2. PICK r : Path(s, <<>>, r)
  BY <1>1, PathExists
<1>3. Absorbed(s, <<>>) = r[Len(<<>>)]
  BY <1>1, <1>2, PathEnds
<1>4. QED  BY <1>1, <1>2, <1>3 DEF Path

LEMMA AbsorbedSingle ==
  ASSUME CodesAssumption, NEW s \in States, NEW c \in Chars
  PROVE  Absorbed(s, <<c>>) = Absorb(s, c)
<1> DEFINE t == <<c>>
<1>1. t \in Seq(Chars) /\ Len(t) = 1 /\ t[1] = c
  OBVIOUS
<1> HIDE DEF t
<1>2. PICK r : Path(s, t, r)
  BY <1>1, PathExists
<1>3. Absorbed(s, t) = r[1]
  BY <1>1, <1>2, PathEnds
<1>4. r[0] = s /\ r[1] = Absorb(r[1 - 1], t[1])
  BY <1>1, <1>2 DEF Path
<1>5. Absorbed(s, t) = Absorb(s, c)
  BY <1>1, <1>3, <1>4
<1>6. QED  BY <1>5 DEF t

LEMMA AbsorbedConcat ==
  ASSUME CodesAssumption, NEW s \in States, NEW t \in Seq(Chars), NEW u \in Seq(Chars)
  PROVE  Absorbed(s, t \o u) = Absorbed(Absorbed(s, t), u)
<1> DEFINE w == t \o u
<1>1. /\ w \in Seq(Chars) /\ Len(w) = Len(t) + Len(u)
      /\ \A i \in 1..(Len(t) + Len(u)) : w[i] = IF i <= Len(t) THEN t[i] ELSE u[i - Len(t)]
  BY ConcatProperties
<1>2. Len(t) \in Nat /\ Len(u) \in Nat
  BY LenProperties
<1> HIDE DEF w
<1>3. PICK r : Path(s, w, r)
  BY <1>1, PathExists
<1>4. r \in [0..(Len(t) + Len(u)) -> States] /\ r[0] = s
      /\ \A n \in 1..(Len(t) + Len(u)) : r[n] = Absorb(r[n - 1], w[n])
  BY <1>1, <1>3 DEF Path
<1> DEFINE a == [n \in 0..Len(t) |-> r[n]]
           b == [n \in 0..Len(u) |-> r[Len(t) + n]]
<1>5. Path(s, t, a)
  <2>1. a \in [0..Len(t) -> States] /\ a[0] = s
    BY <1>2, <1>4
  <2>2. ASSUME NEW n \in 1..Len(t)
        PROVE  a[n] = Absorb(a[n - 1], t[n])
    <3>1. n \in 1..(Len(t) + Len(u)) /\ w[n] = t[n]
      BY <1>1, <1>2
    <3>2. a[n] = r[n] /\ a[n - 1] = r[n - 1]
      BY <1>2
    <3>3. QED  BY <1>4, <3>1, <3>2
  <2>3. QED  BY <2>1, <2>2 DEF Path
<1>6. r[Len(t)] = Absorbed(s, t) /\ r[Len(t)] \in States
  <2>1. a[Len(t)] = r[Len(t)]
    BY <1>2
  <2> HIDE DEF a
  <2>2. QED  BY <1>5, <2>1, PathEnds
<1>7. Path(r[Len(t)], u, b)
  <2>1. b \in [0..Len(u) -> States] /\ b[0] = r[Len(t)]
    BY <1>2, <1>4
  <2>2. ASSUME NEW n \in 1..Len(u)
        PROVE  b[n] = Absorb(b[n - 1], u[n])
    <3>1. Len(t) + n \in 1..(Len(t) + Len(u)) /\ ~(Len(t) + n <= Len(t)) /\ Len(t) + n - Len(t) = n
      BY <1>2
    <3>2. w[Len(t) + n] = u[n]
      BY <1>1, <3>1
    <3>3. b[n] = r[Len(t) + n] /\ b[n - 1] = r[Len(t) + n - 1]
      <4>1. n - 1 \in 0..Len(u) /\ Len(t) + (n - 1) = Len(t) + n - 1
        BY <1>2
      <4>2. QED  BY <4>1
    <3>4. r[Len(t) + n] = Absorb(r[Len(t) + n - 1], w[Len(t) + n])
      BY <1>4, <3>1
    <3>5. QED  BY <3>2, <3>3, <3>4
  <2>3. QED  BY <2>1, <2>2 DEF Path
<1>8. b[Len(u)] = r[Len(t) + Len(u)]
  BY <1>2
<1> HIDE DEF a, b
<1>9. Absorbed(r[Len(t)], u) = b[Len(u)]
  BY <1>6, <1>7, PathEnds
<1>10. Absorbed(s, w) = r[Len(t) + Len(u)]
  <2>1. Absorbed(s, w) = r[Len(w)]
    BY <1>1, <1>3, PathEnds
  <2>2. QED  BY <1>1, <2>1
<1>11. QED  BY <1>6, <1>8, <1>9, <1>10 DEF w

-----------------------------------------------------------------------------
(* Texts in which every separator stands between two others. *)

Clean(t) ==
  /\ t \in Seq(Signs)
  /\ t # <<>> => t[1] # "-" /\ t[Len(t)] # "-"
  /\ \A i \in 1..(Len(t) - 1) : ~(t[i] = "-" /\ t[i + 1] = "-")

Hyphened(a, b) == a \o <<"-">> \o b

LEMMA NoHyphen == ASSUME CodesAssumption PROVE "-" \notin Small /\ "-" \in Separators
BY DEF CodesAssumption, Separators

LEMMA HyphenedIs ==
  ASSUME NEW a \in Seq(Signs), NEW b \in Seq(Signs)
  PROVE  /\ Hyphened(a, b) \in Seq(Signs) /\ Len(Hyphened(a, b)) = Len(a) + 1 + Len(b)
         /\ \A i \in 1..Len(a) : Hyphened(a, b)[i] = a[i]
         /\ Hyphened(a, b)[Len(a) + 1] = "-"
         /\ \A i \in 1..Len(b) : Hyphened(a, b)[Len(a) + 1 + i] = b[i]
         /\ Hyphened(a, b) = a \o (<<"-">> \o b)
<1> DEFINE x == <<"-">>
           ax == a \o x
           j == ax \o b
<1>0. Len(a) \in Nat /\ Len(b) \in Nat
  BY LenProperties
<1>1. x \in Seq(Signs) /\ Len(x) = 1 /\ x[1] = "-"
  BY DEF Signs
<1>1a. Hyphened(a, b) = a \o (x \o b)
  <2> HIDE DEF x
  <2>1. (a \o x) \o b = a \o (x \o b)
    BY <1>1, ConcatAssociative
  <2>2. QED  BY <2>1 DEF x, Hyphened
<1> HIDE DEF x
<1>2. /\ ax \in Seq(Signs) /\ Len(ax) = Len(a) + Len(x)
      /\ \A i \in 1..(Len(a) + Len(x)) : ax[i] = IF i <= Len(a) THEN a[i] ELSE x[i - Len(a)]
  BY <1>1, ConcatProperties
<1>3. /\ ax \in Seq(Signs) /\ Len(ax) = Len(a) + 1
      /\ \A i \in 1..Len(a) : ax[i] = a[i]
      /\ ax[Len(a) + 1] = "-"
  BY <1>0, <1>1, <1>2
<1> HIDE DEF ax
<1>4. /\ j \in Seq(Signs) /\ Len(j) = Len(ax) + Len(b)
      /\ \A i \in 1..(Len(ax) + Len(b)) : j[i] = IF i <= Len(ax) THEN ax[i] ELSE b[i - Len(ax)]
  BY <1>3, ConcatProperties
<1> HIDE DEF j
<1>5. j \in Seq(Signs) /\ Len(j) = Len(a) + 1 + Len(b)
  BY <1>0, <1>3, <1>4
<1>6. ASSUME NEW i \in 1..Len(a)
      PROVE  j[i] = a[i]
  <2>1. i \in 1..(Len(ax) + Len(b)) /\ i <= Len(ax)
    BY <1>0, <1>3
  <2>2. QED  BY <1>3, <1>4, <2>1
<1>7. j[Len(a) + 1] = "-"
  <2>1. Len(a) + 1 \in 1..(Len(ax) + Len(b)) /\ Len(a) + 1 <= Len(ax)
    BY <1>0, <1>3
  <2>2. QED  BY <1>3, <1>4, <2>1
<1>8. ASSUME NEW i \in 1..Len(b)
      PROVE  j[Len(a) + 1 + i] = b[i]
  <2>1. /\ Len(a) + 1 + i \in 1..(Len(ax) + Len(b)) /\ ~(Len(a) + 1 + i <= Len(ax))
        /\ Len(a) + 1 + i - Len(ax) = i
    BY <1>0, <1>3
  <2>2. QED  BY <1>4, <2>1
<1>9. Hyphened(a, b) = j
  BY DEF Hyphened, x, ax, j
<1>10. QED  BY <1>1a, <1>5, <1>6, <1>7, <1>8, <1>9 DEF x

LEMMA SmallIsClean ==
  ASSUME CodesAssumption, NEW w \in Seq(Small)
  PROVE  Clean(w) /\ \A i \in 1..Len(w) : w[i] # "-"
<1>1. Len(w) \in Nat /\ w \in Seq(Signs) /\ (w # <<>> => Len(w) # 0)
  BY SmallSigns, LenProperties, EmptySeq
<1>2. \A i \in 1..Len(w) : w[i] # "-"
  BY NoHyphen, ElementOfSeq
<1>3. QED  BY <1>1, <1>2 DEF Clean

LEMMA CleanGrows ==
  ASSUME CodesAssumption, NEW a, Clean(a), NEW w \in Seq(Small), w # <<>>
  PROVE  Clean(a \o w) /\ a \o w # <<>>
<1> DEFINE j == a \o w
<1>1. a \in Seq(Signs) /\ w \in Seq(Signs) /\ Len(w) \in Nat \ {0} /\ Len(a) \in Nat
      /\ (a # <<>> => Len(a) # 0) /\ (a = <<>> => Len(a) = 0)
  <2>1. a \in Seq(Signs) /\ w \in Seq(Signs)
    BY SmallSigns DEF Clean
  <2>2. Len(w) \in Nat \ {0} /\ Len(a) \in Nat /\ (a # <<>> => Len(a) # 0)
    BY <2>1, LenProperties, EmptySeq
  <2>3. QED  BY <2>1, <2>2
<1>2. /\ j \in Seq(Signs) /\ Len(j) = Len(a) + Len(w)
      /\ \A i \in 1..(Len(a) + Len(w)) : j[i] = IF i <= Len(a) THEN a[i] ELSE w[i - Len(a)]
  BY <1>1, ConcatProperties
<1>3. \A i \in 1..Len(w) : w[i] # "-"
  BY SmallIsClean
<1> HIDE DEF j
<1>4. j # <<>>
  BY <1>1, <1>2
<1>5. j[1] # "-" /\ j[Len(j)] # "-"
  BY <1>1, <1>2, <1>3 DEF Clean
<1>6. ASSUME NEW i \in 1..(Len(j) - 1), j[i] = "-", j[i + 1] = "-"
      PROVE  FALSE
  <2>1. CASE i >= Len(a)
    <3>1. i + 1 \in 1..(Len(a) + Len(w)) /\ ~(i + 1 <= Len(a)) /\ i + 1 - Len(a) \in 1..Len(w)
      BY <1>1, <1>2, <2>1
    <3>2. QED  BY <1>2, <1>3, <1>6, <3>1
  <2>2. CASE i < Len(a)
    <3>1. j[i] = a[i] /\ j[i + 1] = a[i + 1] /\ i \in 1..(Len(a) - 1)
      BY <1>1, <1>2, <2>2
    <3>2. QED  BY <1>6, <3>1 DEF Clean
  <2>3. QED  BY <1>1, <1>2, <2>1, <2>2
<1>7. QED  BY <1>2, <1>4, <1>5, <1>6 DEF Clean, j

LEMMA CleanJoins ==
  ASSUME CodesAssumption, NEW a, Clean(a), a # <<>>, NEW b, Clean(b), b # <<>>
  PROVE  Clean(Hyphened(a, b)) /\ Hyphened(a, b) # <<>>
<1> DEFINE j == Hyphened(a, b)
<1>1. a \in Seq(Signs) /\ b \in Seq(Signs) /\ Len(a) \in Nat \ {0} /\ Len(b) \in Nat \ {0}
  <2>1. a \in Seq(Signs) /\ b \in Seq(Signs)
    BY DEF Clean
  <2>2. QED  BY <2>1, EmptySeq
<1>2. /\ j \in Seq(Signs) /\ Len(j) = Len(a) + 1 + Len(b)
      /\ \A i \in 1..Len(a) : j[i] = a[i]
      /\ j[Len(a) + 1] = "-"
      /\ \A i \in 1..Len(b) : j[Len(a) + 1 + i] = b[i]
  BY <1>1, HyphenedIs
<1> HIDE DEF j
<1>3. j # <<>>
  BY <1>1, <1>2
<1>4. j[1] # "-" /\ j[Len(j)] # "-"
  <2>1. j[1] = a[1] /\ j[Len(a) + 1 + Len(b)] = b[Len(b)]
    BY <1>1, <1>2
  <2>2. QED  BY <1>2, <2>1 DEF Clean
<1>5. ASSUME NEW i \in 1..(Len(j) - 1), j[i] = "-", j[i + 1] = "-"
      PROVE  FALSE
  <2>1. CASE i < Len(a)
    <3>1. j[i] = a[i] /\ j[i + 1] = a[i + 1] /\ i \in 1..(Len(a) - 1)
      BY <1>1, <1>2, <2>1
    <3>2. QED  BY <1>5, <3>1 DEF Clean
  <2>2. CASE i = Len(a)
    <3>1. j[i] = a[Len(a)]
      BY <1>1, <1>2, <2>2
    <3>2. QED  BY <1>5, <3>1 DEF Clean
  <2>3. CASE i = Len(a) + 1
    <3>1. j[Len(a) + 1 + 1] = b[1]
      BY <1>1, <1>2
    <3>2. QED  BY <1>5, <2>3, <3>1 DEF Clean
  <2>4. CASE i > Len(a) + 1
    <3> DEFINE k == i - Len(a) - 1
    <3>1. k \in 1..(Len(b) - 1) /\ Len(a) + 1 + k = i /\ Len(a) + 1 + (k + 1) = i + 1
      BY <1>1, <1>2, <2>4
    <3> HIDE DEF k
    <3>2. k \in 1..Len(b) /\ k + 1 \in 1..Len(b)
      BY <1>1, <3>1
    <3>3. b[k] = "-" /\ b[k + 1] = "-"
      BY <1>2, <1>5, <3>1, <3>2
    <3>4. QED  BY <3>1, <3>3 DEF Clean
  <2>5. QED  BY <1>1, <1>2, <2>1, <2>2, <2>3, <2>4
<1>6. QED  BY <1>2, <1>3, <1>4, <1>5 DEF Clean, j

\* What has been read of a text is clean at any time.
Tidy(s) == s \in States /\ Clean(s.out) /\ (s.pending => s.out # <<>>)

LEMMA StartIsTidy == Start \in States /\ Tidy(Start)
BY DEF Start, Tidy, Clean, States

LEMMA TidyStays ==
  ASSUME CodesAssumption, NEW s, Tidy(s), NEW c \in Chars
  PROVE  Tidy(Absorb(s, c))
<1>1. s \in States /\ Clean(s.out) /\ (s.pending => s.out # <<>>) /\ s.pending \in BOOLEAN
  BY DEF Tidy, States
<1>2. Absorb(s, c) \in States
  BY <1>1, AbsorbedOnce
<1>3. CASE c \in Separators
  BY <1>1, <1>2, <1>3, AbsorbedOnce DEF Tidy
<1>4. CASE c \notin Separators /\ s.pending
  <2>1. Lowered(c) \in Seq(Small) /\ Lowered(c) # <<>> /\ Clean(Lowered(c))
    BY <1>4, LoweredIsSmall, SmallIsClean
  <2>2. Clean(Hyphened(s.out, Lowered(c)))
    BY <1>1, <1>4, <2>1, CleanJoins
  <2>3. Absorb(s, c) = [out |-> Hyphened(s.out, Lowered(c)), pending |-> FALSE]
    BY <1>1, <1>4, AbsorbedOnce DEF Hyphened
  <2>4. QED  BY <1>2, <2>2, <2>3 DEF Tidy
<1>5. CASE c \notin Separators /\ ~s.pending
  <2>1. Lowered(c) \in Seq(Small) /\ Lowered(c) # <<>>
    BY <1>5, LoweredIsSmall
  <2>2. Clean(s.out \o Lowered(c))
    BY <1>1, <2>1, CleanGrows
  <2>3. Absorb(s, c) = [out |-> s.out \o Lowered(c), pending |-> FALSE]
    BY <1>1, <1>5, AbsorbedOnce
  <2>4. QED  BY <1>2, <2>2, <2>3 DEF Tidy
<1>6. QED  BY <1>1, <1>3, <1>4, <1>5

\* Whatever is typed, what is left of it is clean.
LEMMA NormalizedIsClean ==
  ASSUME CodesAssumption, NEW t \in Seq(Chars)
  PROVE  Clean(NormalizeText(t))
<1>1. PICK r : Path(Start, t, r)
  BY StartIsTidy, PathExists
<1>2. Len(t) \in Nat /\ \A n \in 1..Len(t) : t[n] \in Chars
  BY LenProperties, ElementOfSeq
<1> DEFINE S == {n \in Nat : n <= Len(t) => Tidy(r[n])}
<1>3. 0 \in S
  BY <1>1, StartIsTidy DEF Path
<1>4. ASSUME NEW n \in Nat, n \in S
      PROVE  n + 1 \in S
  <2>1. SUFFICES ASSUME n + 1 <= Len(t)
                 PROVE  Tidy(r[n + 1])
    OBVIOUS
  <2>2. Tidy(r[n]) /\ n + 1 \in 1..Len(t) /\ n + 1 - 1 = n
    BY <1>2, <1>4, <2>1
  <2>3. r[n + 1] = Absorb(r[n + 1 - 1], t[n + 1]) /\ t[n + 1] \in Chars
    BY <1>1, <1>2, <2>2 DEF Path
  <2>4. r[n + 1] = Absorb(r[n], t[n + 1])
    BY <2>2, <2>3
  <2>5. QED  BY <2>2, <2>3, <2>4, TidyStays
<1>5. Nat \subseteq S
  <2> HIDE DEF S
  <2>1. QED  BY <1>3, <1>4, Induction
<1>6. Tidy(r[Len(t)])
  BY <1>2, <1>5
<1>7. Absorbed(Start, t) = r[Len(t)]
  BY <1>1, StartIsTidy, PathEnds
<1>8. QED  BY <1>6, <1>7 DEF NormalizeText, Start, Tidy

\* And what is clean is left as it is.
LEMMA CleanIsRead ==
  ASSUME CodesAssumption, NEW t, Clean(t)
  PROVE  t \in Seq(Chars) /\ NormalizeText(t) = t
<1>1. t \in Seq(Signs) /\ Len(t) \in Nat /\ \A n \in 1..Len(t) : t[n] \in Signs
  BY LenProperties, ElementOfSeq DEF Clean
<1>2. Signs \subseteq Chars
  BY NoHyphen DEF Signs, Chars
<1>3. t \in Seq(Chars)
  BY <1>1, <1>2
<1> DEFINE before(n) == SubSeq(t, 1, n)
           r == [n \in 0..Len(t) |->
                   IF n \in 1..Len(t) /\ t[n] = "-"
                   THEN [out |-> before(n - 1), pending |-> TRUE]
                   ELSE [out |-> before(n), pending |-> FALSE]]
<1>4. ASSUME NEW n \in 0..Len(t)
      PROVE  /\ before(n) \in Seq(Signs) /\ Len(before(n)) = n
             /\ \A i \in 1..n : before(n)[i] = t[i]
  <2>1. 1 \in 1..(Len(t) + 1) /\ n \in (1 - 1)..Len(t)
    BY <1>1
  <2>2. /\ before(n) \in Seq(Signs) /\ Len(before(n)) = n - 1 + 1
        /\ \A i \in 1..(n - 1 + 1) : before(n)[i] = t[1 + i - 1]
    BY <1>1, <2>1, Part
  <2>3. QED  BY <1>1, <2>2
<1>5. ASSUME NEW n \in 1..Len(t)
      PROVE  before(n - 1) \o <<t[n]>> = before(n)
  <2>1. n \in 1..Len(t) /\ 1 \in 1..Len(t) /\ n \in 1..Len(t)
    BY <1>1
  <2>2. SubSeq(t, 1, n) = SubSeq(t, 1, n - 1) \o <<t[n]>>
    BY <1>1, <2>1, SubSeqRecursiveSecond
  <2>3. QED  BY <2>2
<1>6. before(0) = <<>>
  <2>1. 0 \in 0..Len(t)
    BY <1>1
  <2>2. before(0) \in Seq(Signs) /\ Len(before(0)) = 0
    BY <1>4, <2>1
  <2>3. QED  BY <2>2, EmptySeq
<1> HIDE DEF before
<1>7. Path(Start, t, r)
  <2>1. r \in [0..Len(t) -> States]
    <3>1. ASSUME NEW n \in 0..Len(t)
          PROVE  r[n] \in States
      <4>1. CASE n \in 1..Len(t) /\ t[n] = "-"
        <5>1. n - 1 \in 0..Len(t)
          BY <1>1, <4>1
        <5>2. before(n - 1) \in Seq(Signs)
          BY <1>4, <5>1
        <5>3. QED  BY <4>1, <5>2 DEF States
      <4>2. CASE ~(n \in 1..Len(t) /\ t[n] = "-")
        BY <1>4, <4>2 DEF States
      <4>3. QED  BY <4>1, <4>2
    <3>2. QED  BY <3>1
  <2>2. r[0] = Start
    <3>1. 0 \in 0..Len(t) /\ 0 \notin 1..Len(t)
      BY <1>1
    <3>2. r[0] = [out |-> before(0), pending |-> FALSE]
      BY <3>1
    <3>3. QED  BY <1>6, <3>2 DEF Start
  <2>3. ASSUME NEW n \in 1..Len(t)
        PROVE  r[n] = Absorb(r[n - 1], t[n])
    <3>0. n - 1 \in 0..Len(t) /\ n \in 0..Len(t) /\ t[n] \in Chars /\ t[n] \in Signs
      BY <1>1, <1>2
    <3>1. r[n - 1] \in States
      BY <2>1, <3>0
    <3>2. n - 1 \in 1..Len(t) /\ t[n - 1] = "-" => n - 1 \in 1..(Len(t) - 1) /\ t[n] # "-" /\ n - 2 \in 0..Len(t)
      <4>1. \A i \in 1..(Len(t) - 1) : ~(t[i] = "-" /\ t[i + 1] = "-")
        BY DEF Clean
      <4>2. n - 1 \in 1..Len(t) => n - 1 \in 1..(Len(t) - 1) /\ (n - 1) + 1 = n /\ n - 2 \in 0..Len(t)
        BY <1>1
      <4> HIDE DEF r
      <4>3. QED  BY <4>1, <4>2
    <3>3. CASE t[n] = "-"
      <4>1. n # 1
        <5>1. t # <<>>
          BY <1>1
        <5>2. QED  BY <3>3, <5>1 DEF Clean
      <4>2. r[n - 1] = [out |-> before(n - 1), pending |-> FALSE]
        BY <3>0, <3>2, <3>3
      <4>3. Len(before(n - 1)) = n - 1
        BY <1>4, <3>0
      <4>4. before(n - 1) # <<>>
        BY <1>1, <4>1, <4>3
      <4>5. r[n] = [out |-> before(n - 1), pending |-> TRUE]
        BY <3>0, <3>3
      <4> HIDE DEF r
      <4>6. Absorb(r[n - 1], t[n]) = [out |-> r[n - 1].out, pending |-> r[n - 1].out # <<>>]
        BY <3>0, <3>1, <3>3, NoHyphen, AbsorbedOnce
      <4>7. r[n - 1].out = before(n - 1)
        BY <4>2
      <4>8. (before(n - 1) # <<>>) = TRUE
        BY <4>4
      <4>9. QED  BY <4>5, <4>6, <4>7, <4>8
    <3>4. CASE t[n] # "-"
      <4>1. r[n] = [out |-> before(n), pending |-> FALSE]
        BY <3>0, <3>4
      <4>2. t[n] \in Small /\ t[n] \notin Separators /\ Lowered(t[n]) = <<t[n]>>
        BY <3>0, <3>4 DEF Signs, Lowered, CodesAssumption
      <4>3. CASE n - 1 \in 1..Len(t) /\ t[n - 1] = "-"
        <5>1. n - 1 - 1 \in 0..Len(t) /\ n - 2 = n - 1 - 1
          BY <1>1, <4>3
        <5>2. r[n - 1] = [out |-> before(n - 1 - 1), pending |-> TRUE]
          BY <3>0, <4>3
        <5>3. before(n - 1 - 1) \o <<"-">> = before(n - 1)
          BY <1>5, <4>3
        <5>4. before(n - 1) \o <<t[n]>> = before(n)
          BY <1>5
        <5> HIDE DEF r
        <5>5. r[n - 1].pending /\ r[n - 1].out = before(n - 1 - 1)
          BY <5>2
        <5>6. Absorb(r[n - 1], t[n]) = [out |-> r[n - 1].out \o <<"-">> \o Lowered(t[n]), pending |-> FALSE]
          BY <3>0, <3>1, <4>2, <5>5, AbsorbedOnce
        <5>7. QED  BY <4>1, <4>2, <5>3, <5>4, <5>5, <5>6
      <4>4. CASE ~(n - 1 \in 1..Len(t) /\ t[n - 1] = "-")
        <5>1. r[n - 1] = [out |-> before(n - 1), pending |-> FALSE]
          BY <3>0, <4>4
        <5>2. before(n - 1) \o <<t[n]>> = before(n)
          BY <1>5
        <5> HIDE DEF r
        <5>3. ~r[n - 1].pending /\ r[n - 1].out = before(n - 1)
          BY <5>1
        <5>4. Absorb(r[n - 1], t[n]) = [out |-> r[n - 1].out \o Lowered(t[n]), pending |-> FALSE]
          BY <3>0, <3>1, <4>2, <5>3, AbsorbedOnce
        <5>5. QED  BY <4>1, <4>2, <5>2, <5>3, <5>4
      <4>5. QED  BY <4>3, <4>4
    <3>5. QED  BY <3>3, <3>4
  <2>4. QED  BY <2>1, <2>2, <2>3 DEF Path
<1>8. r[Len(t)] = [out |-> t, pending |-> FALSE]
  <2>1. Len(t) \in 0..Len(t) /\ ~(Len(t) \in 1..Len(t) /\ t[Len(t)] = "-")
    <3>1. Len(t) \in 1..Len(t) => t # <<>>
      BY <1>1
    <3>2. QED  BY <1>1, <3>1 DEF Clean
  <2>2. before(Len(t)) = t
    BY <1>1, SubSeqFull DEF before
  <2>3. QED  BY <2>1, <2>2
<1> HIDE DEF r
<1>9. Absorbed(Start, t) = r[Len(t)]
  BY <1>3, <1>7, StartIsTidy, PathEnds
<1>10. QED  BY <1>3, <1>8, <1>9 DEF NormalizeText, Start

-----------------------------------------------------------------------------
(* What may be changed in a text. *)

LEMMA OneSign == \A c \in Chars : <<c>> \in Seq(Chars)
OBVIOUS

\* A part of the text that is read like another one may stand for it.
LEMMA ReadAlike ==
  ASSUME CodesAssumption, NEW a \in Seq(Chars), NEW z \in Seq(Chars),
         NEW x \in Seq(Chars), NEW y \in Seq(Chars),
         \A s \in States : Absorbed(s, x) = Absorbed(s, y)
  PROVE  a \o x \o z \in Seq(Chars) /\ NormalizeText(a \o x \o z) = NormalizeText(a \o y \o z)
<1>1. ASSUME NEW w \in Seq(Chars)
      PROVE  /\ a \o w \o z \in Seq(Chars)
             /\ Absorbed(Start, a \o w \o z) = Absorbed(Absorbed(Absorbed(Start, a), w), z)
  <2>1. a \o w \in Seq(Chars)
    BY ConcatProperties
  <2>2. a \o w \o z \in Seq(Chars)
    BY <2>1, ConcatProperties
  <2>3. Absorbed(Start, a \o w \o z) = Absorbed(Absorbed(Start, a \o w), z)
    BY <2>1, StartIsTidy, AbsorbedConcat
  <2>4. Absorbed(Start, a \o w) = Absorbed(Absorbed(Start, a), w)
    BY StartIsTidy, AbsorbedConcat
  <2>5. QED  BY <2>2, <2>3, <2>4
<1>2. Absorbed(Start, a) \in States
  BY StartIsTidy, AbsorbedTyped
<1>3. Absorbed(Start, a \o x \o z) = Absorbed(Start, a \o y \o z)
  BY <1>1, <1>2
<1>4. QED  BY <1>1, <1>3 DEF NormalizeText, Start

LEMMA Replaced ==
  ASSUME CodesAssumption, NEW t \in Seq(Chars), NEW i \in 1..Len(t), NEW by \in Seq(Chars),
         \A s \in States : Absorbed(s, by) = Absorbed(s, <<t[i]>>),
         NEW u, u = SubSeq(t, 1, i - 1) \o by \o SubSeq(t, i + 1, Len(t))
  PROVE  u \in Seq(Chars) /\ NormalizeText(u) = NormalizeText(t)
<1> DEFINE a == SubSeq(t, 1, i - 1)
           z == SubSeq(t, i + 1, Len(t))
           x == <<t[i]>>
<1>1. a \in Seq(Chars) /\ z \in Seq(Chars) /\ t[i] \in Chars /\ t = a \o x \o z
  BY Around
<1>2. x \in Seq(Chars)
  BY <1>1, OneSign
<1>3. \A s \in States : Absorbed(s, by) = Absorbed(s, x)
  OBVIOUS
<1>4. u = a \o by \o z
  OBVIOUS
<1> HIDE DEF a, z, x
<1>5. u \in Seq(Chars) /\ NormalizeText(a \o by \o z) = NormalizeText(a \o x \o z)
  BY <1>1, <1>2, <1>3, <1>4, ReadAlike
<1>6. QED  BY <1>1, <1>4, <1>5

\* A capital is read like its small letter.
LEMMA CapitalReads ==
  ASSUME CodesAssumption, NEW big \in DOMAIN Lowercase, NEW c \in Chars, Lowercase[big] = <<c>>,
         NEW s \in States
  PROVE  <<big>> \in Seq(Chars) /\ Absorbed(s, <<big>>) = Absorbed(s, <<c>>)
<1>1. big \in Chars /\ big \notin Separators /\ big \notin Small
  BY DEF CodesAssumption, Chars
<1>2. c \in Small
  <2>1. <<c>> \in Seq(Small) /\ Len(<<c>>) = 1 /\ <<c>>[1] = c
    BY DEF CodesAssumption
  <2>2. QED  BY <2>1, ElementOfSeq
<1>3. c \notin Separators
  BY <1>2 DEF CodesAssumption
<1>4. Lowered(big) = Lowered(c)
  BY <1>1, <1>2 DEF Lowered
<1>5. Absorb(s, big) = Absorb(s, c)
  <2>1. s.pending \in BOOLEAN
    BY DEF States
  <2> DEFINE put(c1) == IF s.pending THEN [out |-> s.out \o <<"-">> \o Lowered(c1), pending |-> FALSE]
                        ELSE [out |-> s.out \o Lowered(c1), pending |-> FALSE]
  <2>2. Absorb(s, big) = put(big)
    BY <1>1, <2>1, AbsorbedOnce
  <2>3. Absorb(s, c) = put(c)
    BY <1>3, <2>1, AbsorbedOnce
  <2>4. QED  BY <1>4, <2>2, <2>3
<1>6. QED  BY <1>1, <1>5, AbsorbedSingle, OneSign

\* One separator is read like another one, and like two of them.
LEMMA SeparatorsRead ==
  ASSUME CodesAssumption, NEW p \in Separators, NEW q \in Separators, NEW r \in Separators,
         NEW s \in States
  PROVE  /\ <<p>> \in Seq(Chars) /\ Absorbed(s, <<p>>) = Absorbed(s, <<q>>)
         /\ <<p, r>> \in Seq(Chars) /\ Absorbed(s, <<p, r>>) = Absorbed(s, <<q>>)
<1>1. p \in Chars /\ q \in Chars /\ r \in Chars
  BY DEF Chars
<1> DEFINE o == s.out
           m == [out |-> o, pending |-> o # <<>>]
<1>2. Absorb(s, p) = m /\ Absorb(s, q) = m /\ m \in States
  BY <1>1, AbsorbedOnce
<1>3. Absorb(m, r) = m
  <2>1. m.out = o
    OBVIOUS
  <2> HIDE DEF m
  <2>2. Absorb(m, r) = [out |-> m.out, pending |-> m.out # <<>>]
    BY <1>1, <1>2, AbsorbedOnce
  <2>3. QED  BY <2>1, <2>2 DEF m
<1>4. <<p>> \in Seq(Chars) /\ <<r>> \in Seq(Chars) /\ <<p, r>> \in Seq(Chars) /\ <<p, r>> = <<p>> \o <<r>>
  BY <1>1
<1> HIDE DEF m
<1>5. Absorbed(s, <<p>>) = m /\ Absorbed(s, <<q>>) = m /\ Absorbed(m, <<r>>) = m
  BY <1>1, <1>2, <1>3, AbsorbedSingle
<1>6. Absorbed(s, <<p>> \o <<r>>) = Absorbed(Absorbed(s, <<p>>), <<r>>)
  BY <1>4, AbsorbedConcat
<1>7. QED  BY <1>4, <1>5, <1>6

\* Separators around a text are not read.
LEMMA SurroundedReads ==
  ASSUME CodesAssumption, NEW p \in Separators, NEW t \in Seq(Chars)
  PROVE  /\ <<p>> \o t \in Seq(Chars) /\ NormalizeText(<<p>> \o t) = NormalizeText(t)
         /\ Append(t, p) \in Seq(Chars) /\ NormalizeText(Append(t, p)) = NormalizeText(t)
<1>1. p \in Chars /\ <<p>> \in Seq(Chars)
  BY DEF Chars
<1>2. <<p>> \o t \in Seq(Chars) /\ t \o <<p>> \in Seq(Chars) /\ Append(t, p) = t \o <<p>>
  BY <1>1, ConcatProperties, AppendIsConcat
<1>3. Absorbed(Start, <<p>>) = Start
  <2>1. Absorb(Start, p) = [out |-> Start.out, pending |-> Start.out # <<>>]
    BY <1>1, StartIsTidy, AbsorbedOnce
  <2>2. Absorb(Start, p) = Start
    BY <2>1 DEF Start
  <2>3. QED  BY <1>1, <2>2, StartIsTidy, AbsorbedSingle
<1>4. Absorbed(Start, <<p>> \o t) = Absorbed(Start, t)
  BY <1>1, <1>3, StartIsTidy, AbsorbedConcat
<1>5. Absorbed(Start, t \o <<p>>).out = Absorbed(Start, t).out
  <2> DEFINE m == Absorbed(Start, t)
  <2>1. m \in States
    BY StartIsTidy, AbsorbedTyped
  <2>2. Absorbed(Start, t \o <<p>>) = Absorbed(m, <<p>>)
    BY <1>1, StartIsTidy, AbsorbedConcat
  <2> HIDE DEF m
  <2>3. Absorbed(m, <<p>>) = Absorb(m, p)
    BY <1>1, <2>1, AbsorbedSingle
  <2>4. Absorb(m, p) = [out |-> m.out, pending |-> m.out # <<>>]
    BY <1>1, <2>1, AbsorbedOnce
  <2>5. Absorb(m, p).out = m.out
    BY <2>4
  <2>6. QED  BY <2>2, <2>3, <2>5 DEF m
<1>6. QED  BY <1>2, <1>4, <1>5 DEF NormalizeText, Start

-----------------------------------------------------------------------------
(* Parsing. *)

GoodCode(c) ==
  /\ c = Code(c.room, c.secret)
  /\ c.room \in Seq(Range(Alphabet)) /\ ValidRoom(c.room)
  /\ Clean(c.secret) /\ c.secret # <<>>
  /\ ~(Cardinality(Letters(c.secret)) < MinSecretChars)

\* The first separator is behind the room.
LEMMA Halves ==
  ASSUME CodesAssumption, NEW a \in Seq(Signs), NEW b \in Seq(Signs),
         \A i \in 1..Len(a) : a[i] # "-"
  PROVE  /\ FirstSeparator(Hyphened(a, b)) = Len(a) + 1
         /\ SubSeq(Hyphened(a, b), 1, Len(a)) = a
         /\ SubSeq(Hyphened(a, b), Len(a) + 2, Len(Hyphened(a, b))) = b
<1> DEFINE n == Hyphened(a, b)
<1>0. Len(a) \in Nat /\ Len(b) \in Nat
  BY LenProperties
<1>1. /\ n \in Seq(Signs) /\ Len(n) = Len(a) + 1 + Len(b)
      /\ \A i \in 1..Len(a) : n[i] = a[i]
      /\ n[Len(a) + 1] = "-"
      /\ \A i \in 1..Len(b) : n[Len(a) + 1 + i] = b[i]
  BY HyphenedIs
<1> HIDE DEF n
<1> DEFINE First(i) == i \in 1..Len(n) /\ n[i] = "-" /\ \A k \in 1..(i - 1) : n[k] # "-"
<1>2. First(Len(a) + 1)
  <2>1. Len(a) + 1 \in 1..Len(n) /\ Len(a) + 1 - 1 = Len(a)
    BY <1>0, <1>1
  <2>2. QED  BY <1>1, <2>1
<1>3. ASSUME NEW i, First(i)
      PROVE  i = Len(a) + 1
  <2>1. CASE i <= Len(a)
    BY <1>0, <1>1, <1>3, <2>1
  <2>2. CASE i > Len(a) + 1
    <3>1. Len(a) + 1 \in 1..(i - 1)
      BY <1>0, <1>1, <1>3, <2>2
    <3>2. QED  BY <1>1, <1>3, <3>1
  <2>3. QED  BY <1>0, <1>1, <1>3, <2>1, <2>2
<1>4. FirstSeparator(n) = CHOOSE i : First(i)
  <2>1. FirstSeparator(n) = CHOOSE i \in 1..Len(n) : n[i] = "-" /\ \A k \in 1..(i - 1) : n[k] # "-"
    BY DEF FirstSeparator
  <2>2. QED  BY <2>1
<1> HIDE DEF First
<1>5. FirstSeparator(n) = Len(a) + 1
  BY <1>2, <1>3, <1>4
<1>6. SubSeq(n, 1, Len(a)) = a
  <2> DEFINE w == SubSeq(n, 1, Len(a))
  <2>1. 1 \in 1..(Len(n) + 1) /\ Len(a) \in (1 - 1)..Len(n)
    BY <1>0, <1>1
  <2>2. /\ w \in Seq(Signs) /\ Len(w) = Len(a) - 1 + 1
        /\ \A i \in 1..(Len(a) - 1 + 1) : w[i] = n[1 + i - 1]
    BY <1>1, <2>1, Part
  <2>3. Len(w) = Len(a) /\ \A i \in 1..Len(w) : w[i] = a[i]
    <3>1. Len(w) = Len(a)
      BY <1>0, <2>2
    <3>2. ASSUME NEW i \in 1..Len(a) PROVE w[i] = a[i]
      <4>1. w[i] = n[1 + i - 1] /\ 1 + i - 1 = i
        BY <1>0, <2>2
      <4>2. QED  BY <1>1, <4>1
    <3>3. QED  BY <3>1, <3>2
  <2> HIDE DEF w
  <2>4. w = a
    BY <2>2, <2>3, SeqEqual
  <2>5. QED  BY <2>4 DEF w
<1>7. SubSeq(n, Len(a) + 2, Len(n)) = b
  <2> DEFINE w == SubSeq(n, Len(a) + 2, Len(n))
  <2>1. Len(a) + 2 \in 1..(Len(n) + 1) /\ Len(n) \in (Len(a) + 2 - 1)..Len(n)
    BY <1>0, <1>1
  <2>2. /\ w \in Seq(Signs) /\ Len(w) = Len(n) - (Len(a) + 2) + 1
        /\ \A i \in 1..(Len(n) - (Len(a) + 2) + 1) : w[i] = n[Len(a) + 2 + i - 1]
    BY <1>1, <2>1, Part
  <2>3. Len(w) = Len(b) /\ \A i \in 1..Len(w) : w[i] = b[i]
    <3>1. Len(w) = Len(b) /\ Len(n) - (Len(a) + 2) + 1 = Len(b)
      BY <1>0, <1>1, <2>2
    <3>2. ASSUME NEW i \in 1..Len(b) PROVE w[i] = b[i]
      <4>1. w[i] = n[Len(a) + 2 + i - 1] /\ Len(a) + 2 + i - 1 = Len(a) + 1 + i
        BY <1>0, <2>2, <3>1
      <4>2. QED  BY <1>1, <4>1
    <3>3. QED  BY <3>1, <3>2
  <2> HIDE DEF w
  <2>4. w = b
    BY <2>2, <2>3, SeqEqual
  <2>5. QED  BY <2>4 DEF w
<1>8. QED  BY <1>5, <1>6, <1>7 DEF n

\* A text with two halves is refused for one of two reasons, or is their code.
LEMMA ParsedHalves ==
  ASSUME CodesAssumption, NEW t, NEW a \in Seq(Signs), NEW b \in Seq(Signs),
         \A i \in 1..Len(a) : a[i] # "-", b # <<>>,
         NormalizeText(t) = Hyphened(a, b)
  PROVE  ParseCode(t) = IF Cardinality(Letters(b)) < MinSecretChars THEN Refused("short secret")
                    ELSE IF ~ValidRoom(a) THEN Refused("bad room") ELSE Code(a, b)
<1> DEFINE n == Hyphened(a, b)
<1>0. Len(a) \in Nat
  BY LenProperties
<1>1. n \in Seq(Signs) /\ Len(n) = Len(a) + 1 + Len(b) /\ n[Len(a) + 1] = "-" /\ Len(b) \in Nat
  BY HyphenedIs, LenProperties
<1>2. FirstSeparator(n) = Len(a) + 1 /\ SubSeq(n, 1, Len(a)) = a /\ SubSeq(n, Len(a) + 2, Len(n)) = b
  BY Halves
<1> HIDE DEF n
<1>3. n # <<>>
  BY <1>0, <1>1
<1>4. "-" \in Range(n)
  <2>1. Len(a) + 1 \in 1..Len(n) /\ DOMAIN n = 1..Len(n)
    BY <1>0, <1>1, LenProperties
  <2>2. QED  BY <1>1, <2>1 DEF Range
<1>5. Len(a) + 1 - 1 = Len(a) /\ Len(a) + 1 + 1 = Len(a) + 2
  BY <1>0
<1>6. NormalizeText(t) = n
  BY DEF n
<1>7. /\ SubSeq(n, 1, FirstSeparator(n) - 1) = a
      /\ SubSeq(n, FirstSeparator(n) + 1, Len(n)) = b
  BY <1>2, <1>5
<1>8. QED  BY <1>3, <1>4, <1>6, <1>7 DEF ParseCode

\* What is shown of a good code is clean, and is parsed as that code.
LEMMA ShownIsClean ==
  ASSUME CodesAssumption, NEW a \in Seq(Range(Alphabet)), a # <<>>, NEW b, Clean(b), b # <<>>
  PROVE  /\ a \in Seq(Signs) /\ b \in Seq(Signs) /\ \A i \in 1..Len(a) : a[i] # "-"
         /\ Clean(Hyphened(a, b))
<1>1. Range(Alphabet) \subseteq Small
  BY DEF Small
<1>2. a \in Seq(Small)
  BY <1>1
<1>3. Clean(a) /\ \A i \in 1..Len(a) : a[i] # "-"
  BY <1>2, SmallIsClean
<1>4. QED  BY <1>3, CleanJoins DEF Clean

\* The code that is parsed from a text, if there is one, is a good one.
LEMMA ParsedIsGood ==
  ASSUME CodesAssumption, NEW t \in Seq(Chars), IsCode(ParseCode(t))
  PROVE  GoodCode(ParseCode(t))
<1> DEFINE n == NormalizeText(t)
           at == FirstSeparator(n)
           room == SubSeq(n, 1, at - 1)
           secret == SubSeq(n, at + 1, Len(n))
<1>1. Clean(n) /\ n \in Seq(Signs)
  BY NormalizedIsClean DEF Clean
<1>2. \A e \in {"empty", "no secret", "short secret", "bad room"} : ~IsCode(Refused(e))
  BY DEF IsCode, Refused
<1>3. /\ "-" \in Range(n) /\ secret # <<>> /\ ~(Cardinality(Letters(secret)) < MinSecretChars)
      /\ ValidRoom(room) /\ ParseCode(t) = Code(room, secret)
  <2> DEFINE c == ParseCode(t)
  <2>1. c = IF n = <<>> THEN Refused("empty")
            ELSE IF "-" \notin Range(n) \/ secret = <<>> THEN Refused("no secret")
            ELSE IF Cardinality(Letters(secret)) < MinSecretChars THEN Refused("short secret")
            ELSE IF ~ValidRoom(room) THEN Refused("bad room")
            ELSE Code(room, secret)
    BY DEF ParseCode
  <2> HIDE DEF n, at, room, secret
  <2>2. IsCode(c)
    OBVIOUS
  <2> HIDE DEF c
  <2>3. QED  BY <1>2, <2>1, <2>2 DEF c
<1> HIDE DEF n
<1>4. at \in 1..Len(n) /\ n[at] = "-" /\ \A k \in 1..(at - 1) : n[k] # "-"
  <2>1. Len(n) \in Nat /\ DOMAIN n = 1..Len(n)
    BY <1>1, LenProperties
  <2>2. PICK j \in 1..Len(n) : n[j] = "-"
    BY <1>3, <2>1 DEF Range
  <2> DEFINE S == {m \in Nat : m <= Len(n) /\ (\E i \in 1..m : n[i] = "-") =>
                     \E i \in 1..m : n[i] = "-" /\ \A k \in 1..(i - 1) : n[k] # "-"}
  <2>3. 0 \in S
    OBVIOUS
  <2>4. ASSUME NEW m \in Nat, m \in S
        PROVE  m + 1 \in S
    <3>1. SUFFICES ASSUME m + 1 <= Len(n), NEW i \in 1..(m + 1), n[i] = "-"
                   PROVE  \E l \in 1..(m + 1) : n[l] = "-" /\ \A k \in 1..(l - 1) : n[k] # "-"
      OBVIOUS
    <3>2. CASE \E k \in 1..m : n[k] = "-"
      <4>1. m <= Len(n)
        BY <2>1, <3>1
      <4>2. PICK l \in 1..m : n[l] = "-" /\ \A k \in 1..(l - 1) : n[k] # "-"
        BY <2>4, <3>2, <4>1
      <4>3. l \in 1..(m + 1)
        OBVIOUS
      <4>4. QED  BY <4>2, <4>3
    <3>3. CASE \A k \in 1..m : n[k] # "-"
      <4>1. i = m + 1
        BY <3>1, <3>3
      <4>2. n[m + 1] = "-" /\ m + 1 \in 1..(m + 1) /\ m + 1 - 1 = m
        BY <3>1, <4>1
      <4>3. QED  BY <3>3, <4>2
    <3>4. QED  BY <3>2, <3>3
  <2>5. Nat \subseteq S
    <3> HIDE DEF S
    <3>1. QED  BY <2>3, <2>4, Induction
  <2>6. \E i \in 1..Len(n) : n[i] = "-" /\ \A k \in 1..(i - 1) : n[k] # "-"
    BY <2>1, <2>2, <2>5
  <2>7. QED  BY <2>6 DEF FirstSeparator
<1> HIDE DEF at
<1>5. Len(n) \in Nat /\ at \in Nat
  BY <1>1, <1>4, LenProperties
<1>6. room \in Seq(Range(Alphabet))
  <2>1. 1 \in 1..(Len(n) + 1) /\ at - 1 \in (1 - 1)..Len(n)
    BY <1>4, <1>5
  <2>2. room \in Seq(Signs)
    BY <1>1, <2>1, Part
  <2> HIDE DEF room
  <2>3. Len(room) \in Nat /\ room \in [1..Len(room) -> Signs] /\ DOMAIN room = 1..Len(room)
    BY <2>2, LenProperties
  <2>4. \A i \in 1..Len(room) : room[i] \in Range(Alphabet)
    BY <1>3, <2>3 DEF ValidRoom, Range
  <2>5. room \in [1..Len(room) -> Range(Alphabet)]
    BY <2>3, <2>4
  <2>6. QED  BY <2>3, <2>5, SeqDef
<1>7. Clean(secret)
  <2>1. at + 1 \in 1..(Len(n) + 1) /\ Len(n) \in (at + 1 - 1)..Len(n)
    BY <1>4, <1>5
  <2>2. /\ secret \in Seq(Signs) /\ Len(secret) = Len(n) - (at + 1) + 1
        /\ \A i \in 1..(Len(n) - (at + 1) + 1) : secret[i] = n[at + 1 + i - 1]
    BY <1>1, <2>1, Part
  <2> HIDE DEF secret
  <2>3. Len(secret) = Len(n) - at
    BY <1>5, <2>2
  <2>4. ASSUME NEW i \in 1..Len(secret)
        PROVE  secret[i] = n[at + i]
    <3>1. i \in 1..(Len(n) - (at + 1) + 1) /\ at + 1 + i - 1 = at + i
      BY <1>5, <2>3
    <3>2. QED  BY <2>2, <3>1
  <2>5. Len(secret) \in Nat \ {0}
    BY <1>3, <2>2, EmptySeq
  <2>6. secret[1] # "-" /\ secret[Len(secret)] # "-"
    <3>0. 1 \in 1..Len(secret) /\ Len(secret) \in 1..Len(secret) /\ at + Len(secret) = Len(n)
      BY <1>5, <2>3, <2>5
    <3>1. secret[1] = n[at + 1] /\ secret[Len(secret)] = n[Len(n)]
      BY <2>4, <3>0
    <3>2. at \in 1..(Len(n) - 1) /\ n # <<>>
      BY <1>4, <1>5, <2>3, <2>5
    <3>3. QED  BY <1>1, <1>4, <3>1, <3>2 DEF Clean
  <2>7. ASSUME NEW i \in 1..(Len(secret) - 1), secret[i] = "-", secret[i + 1] = "-"
        PROVE  FALSE
    <3>1. i \in 1..Len(secret) /\ i + 1 \in 1..Len(secret) /\ at + (i + 1) = at + i + 1
      BY <1>5, <2>5
    <3>2. n[at + i] = "-" /\ n[at + i + 1] = "-"
      BY <2>4, <2>7, <3>1
    <3>3. at + i \in 1..(Len(n) - 1)
      BY <1>4, <1>5, <2>3, <2>5
    <3>4. QED  BY <1>1, <3>2, <3>3 DEF Clean
  <2>8. QED  BY <2>2, <2>6, <2>7 DEF Clean
<1> HIDE DEF room, secret
<1>8. ParseCode(t).room = room /\ ParseCode(t).secret = secret
  BY <1>3 DEF Code
<1>9. QED  BY <1>3, <1>6, <1>7, <1>8 DEF GoodCode

-----------------------------------------------------------------------------
(* The word list. *)

LEMMA PlaceIsNumber ==
  ASSUME CodesAssumption, NEW c \in Range(Alphabet)
  PROVE  RankOf(c) \in Nat
<1>1. Alphabet \in Seq(Range(Alphabet))
  BY DEF CodesAssumption
<1>2. Len(Alphabet) \in Nat /\ DOMAIN Alphabet = 1..Len(Alphabet)
  BY <1>1, LenProperties
<1>3. \E i \in 1..Len(Alphabet) : Alphabet[i] = c
  BY <1>2 DEF Range
<1>4. RankOf(c) \in 1..Len(Alphabet)
  BY <1>3 DEF RankOf
<1>5. QED  BY <1>2, <1>4

LEMMA WordIs ==
  ASSUME CodesAssumption, NEW i \in 1..Len(Words)
  PROVE  /\ Words[i] \in Seq(Range(Alphabet)) /\ Len(Words[i]) \in Nat /\ Len(Words[i]) >= UniquePrefix
         /\ \A k \in 1..Len(Words[i]) : Words[i][k] \in Range(Alphabet) /\ RankOf(Words[i][k]) \in Nat
<1>1. Words \in Seq(Seq(Range(Alphabet))) /\ Len(Words[i]) >= UniquePrefix
  BY DEF CodesAssumption
<1>2. Words[i] \in Seq(Range(Alphabet))
  BY <1>1, ElementOfSeq
<1>3. Len(Words[i]) \in Nat /\ \A k \in 1..Len(Words[i]) : Words[i][k] \in Range(Alphabet)
  BY <1>2, LenProperties, ElementOfSeq
<1>4. QED  BY <1>1, <1>2, <1>3, PlaceIsNumber

\* Two words of the list differ in their first letters.
LEMMA PrefixesDiffer ==
  ASSUME CodesAssumption, NEW i \in 1..Len(Words), NEW j \in 1..Len(Words), i < j
  PROVE  Less(Words[i], Words[j]) /\ \E k \in 1..UniquePrefix : Words[i][k] # Words[j][k]
<1> DEFINE n == UniquePrefix
           v == SubSeq(Words[i], 1, n)
           w == SubSeq(Words[j], 1, n)
<1>1. Len(Words) \in Nat /\ n \in Nat \ {0}
  <2>1. Words \in Seq(Seq(Range(Alphabet)))
    BY DEF CodesAssumption
  <2>2. Len(Words) \in Nat
    BY <2>1, LenProperties
  <2>3. QED  BY <2>2 DEF CodesAssumption
<1>2. Less(Words[i], Words[j]) /\ v # w
  <2>1. j \in (i + 1)..Len(Words)
    BY <1>1
  <2>2. QED  BY <2>1 DEF CodesAssumption
<1>3. /\ v \in Seq(Range(Alphabet)) /\ Len(v) = n - 1 + 1
      /\ \A k \in 1..(n - 1 + 1) : v[k] = Words[i][1 + k - 1]
  <2>1. 1 \in 1..(Len(Words[i]) + 1) /\ n \in (1 - 1)..Len(Words[i]) /\ Words[i] \in Seq(Range(Alphabet))
    BY <1>1, WordIs
  <2>2. QED  BY <2>1, Part
<1>4. /\ w \in Seq(Range(Alphabet)) /\ Len(w) = n - 1 + 1
      /\ \A k \in 1..(n - 1 + 1) : w[k] = Words[j][1 + k - 1]
  <2>1. 1 \in 1..(Len(Words[j]) + 1) /\ n \in (1 - 1)..Len(Words[j]) /\ Words[j] \in Seq(Range(Alphabet))
    BY <1>1, WordIs
  <2>2. QED  BY <2>1, Part
<1> HIDE DEF v, w
<1>5. SUFFICES ASSUME \A k \in 1..n : Words[i][k] = Words[j][k]
               PROVE  FALSE
  BY <1>2
<1>6. \A k \in 1..Len(v) : v[k] = w[k]
  <2>1. SUFFICES ASSUME NEW k \in 1..n PROVE v[k] = w[k]
    BY <1>1, <1>3
  <2>2. k \in 1..(n - 1 + 1) /\ 1 + k - 1 = k
    BY <1>1
  <2>3. QED  BY <1>3, <1>4, <1>5, <2>2
<1>7. v = w
  BY <1>1, <1>3, <1>4, <1>6, SeqEqual
<1>8. QED  BY <1>2, <1>7

\* Before the first letters of a word come the words that are before it in the
\* list, and no others.
LEMMA SoughtByPrefix ==
  ASSUME CodesAssumption, NEW at \in 1..Len(Words),
         NEW p, Len(p) = UniquePrefix, \A k \in 1..UniquePrefix : p[k] = Words[at][k]
  PROVE  {i \in 1..Len(Words) : Less(Words[i], p)} = 1..(at - 1)
<1> DEFINE n == UniquePrefix
           w == Words[at]
<1>1. Len(Words) \in Nat /\ n \in Nat \ {0}
  <2>1. Words \in Seq(Seq(Range(Alphabet)))
    BY DEF CodesAssumption
  <2>2. Len(Words) \in Nat
    BY <2>1, LenProperties
  <2>3. QED  BY <2>2 DEF CodesAssumption
<1>2. Len(w) \in Nat /\ Len(w) >= n /\ \A k \in 1..n : RankOf(w[k]) \in Nat
  BY <1>1, WordIs
<1>3. ASSUME NEW i \in 1..Len(Words), i < at
      PROVE  Less(Words[i], p)
  <2> DEFINE v == Words[i]
  <2>1. Len(v) \in Nat /\ Len(v) >= n
    BY <1>1, WordIs
  <2>2. Less(v, w) /\ \E k \in 1..n : v[k] # w[k]
    BY <1>3, PrefixesDiffer
  <2> HIDE DEF v, w
  <2>3. PICK d \in 1..n : v[d] # w[d]
    BY <2>2
  <2>4. PICK j \in 1..Len(w) : /\ Len(v) >= j - 1 /\ \A k \in 1..(j - 1) : v[k] = w[k]
                               /\ Len(v) = j - 1 \/ (Len(v) >= j /\ RankOf(v[j]) < RankOf(w[j]))
    BY <2>2 DEF Less
  <2>5. j <= d
    <3>1. SUFFICES ASSUME d < j PROVE FALSE
      BY <1>1, <1>2
    <3>2. d \in 1..(j - 1)
      BY <1>1, <1>2, <3>1
    <3>3. QED  BY <2>3, <2>4, <3>2
  <2>6. j \in 1..n /\ Len(v) >= j /\ RankOf(v[j]) < RankOf(w[j])
    BY <1>1, <1>2, <2>1, <2>4, <2>5
  <2>7. j \in 1..Len(p) /\ p[j] = w[j] /\ \A k \in 1..(j - 1) : v[k] = p[k]
    <3>1. \A k \in 1..(j - 1) : k \in 1..n
      BY <1>1, <2>6
    <3>2. QED  BY <2>4, <2>6, <3>1 DEF w
  <2>8. Len(v) >= j - 1
    BY <2>4
  <2>9. Less(v, p)
    BY <2>6, <2>7, <2>8 DEF Less
  <2>10. QED  BY <2>9 DEF v
<1>4. ASSUME NEW i \in 1..Len(Words), i >= at, Less(Words[i], p)
      PROVE  FALSE
  <2> DEFINE v == Words[i]
  <2>1. Len(v) \in Nat /\ Len(v) >= n /\ \A k \in 1..n : RankOf(v[k]) \in Nat
    BY <1>1, WordIs
  <2>2. PICK j \in 1..n : /\ \A k \in 1..(j - 1) : v[k] = p[k]
                          /\ RankOf(v[j]) < RankOf(p[j])
    <3>1. Less(v, p)
      BY <1>4
    <3> HIDE DEF v
    <3>2. PICK j \in 1..Len(p) : /\ Len(v) >= j - 1 /\ \A k \in 1..(j - 1) : v[k] = p[k]
                                 /\ Len(v) = j - 1 \/ (Len(v) >= j /\ RankOf(v[j]) < RankOf(p[j]))
      BY <3>1 DEF Less
    <3>3. j \in 1..n /\ Len(v) # j - 1
      BY <1>1, <2>1, <3>2
    <3>4. QED  BY <3>2, <3>3
  <2>3. /\ \A k \in 1..(j - 1) : v[k] = w[k]
        /\ RankOf(v[j]) < RankOf(w[j])
    <3>1. \A k \in 1..(j - 1) : k \in 1..n
      BY <1>1, <2>2
    <3>2. QED  BY <2>2, <3>1
  <2>4. CASE i = at
    BY <1>2, <2>3, <2>4
  <2>5. CASE at < i
    <3>1. Less(w, v) /\ \E k \in 1..n : w[k] # v[k]
      BY <2>5, PrefixesDiffer
    <3> HIDE DEF v, w
    <3>2. PICK d \in 1..n : w[d] # v[d]
      BY <3>1
    <3>3. PICK l \in 1..Len(v) : /\ Len(w) >= l - 1 /\ \A k \in 1..(l - 1) : w[k] = v[k]
                                 /\ Len(w) = l - 1 \/ (Len(w) >= l /\ RankOf(w[l]) < RankOf(v[l]))
      BY <3>1 DEF Less
    <3>4. l <= d
      <4>1. SUFFICES ASSUME d < l PROVE FALSE
        BY <1>1, <2>1
      <4>2. d \in 1..(l - 1)
        BY <1>1, <2>1, <4>1
      <4>3. QED  BY <3>2, <3>3, <4>2
    <3>5. l \in 1..n /\ RankOf(w[l]) < RankOf(v[l])
      BY <1>1, <1>2, <2>1, <3>3, <3>4
    <3>6. /\ RankOf(w[l]) \in Nat /\ RankOf(v[l]) \in Nat /\ RankOf(w[j]) \in Nat /\ RankOf(v[j]) \in Nat
      BY <1>2, <2>1, <2>2, <3>5
    <3>7. CASE l < j
      <4>1. l \in 1..(j - 1)
        BY <1>1, <2>2, <3>5, <3>7
      <4>2. v[l] = w[l]
        BY <2>3, <4>1
      <4>3. QED  BY <3>5, <3>6, <4>2
    <3>8. CASE j < l
      <4>1. j \in 1..(l - 1)
        BY <1>1, <2>2, <3>5, <3>8
      <4>2. v[j] = w[j]
        BY <3>3, <4>1
      <4>3. QED  BY <2>3, <3>6, <4>2
    <3>9. CASE l = j
      BY <2>3, <3>5, <3>6, <3>9
    <3>10. QED  BY <1>1, <2>2, <3>5, <3>7, <3>8, <3>9
  <2>6. QED  BY <1>1, <1>4, <2>4, <2>5
<1> HIDE DEF w
<1>5. ASSUME NEW i \in 1..Len(Words)
      PROVE  Less(Words[i], p) <=> i \in 1..(at - 1)
  BY <1>1, <1>3, <1>4
<1>6. 1..(at - 1) \subseteq 1..Len(Words)
  BY <1>1
<1>7. QED  BY <1>5, <1>6

\* A word that is misspelt behind its first letters is none of the list, and
\* the right one is suggested for it.
LEMMA SuggestedIsRight ==
  ASSUME CodesAssumption, NEW at \in 1..Len(Words), NEW wrong \in Seq(Range(Alphabet)),
         wrong # Words[at], Len(wrong) >= UniquePrefix,
         \A k \in 1..UniquePrefix : wrong[k] = Words[at][k],
         Len(wrong) <= Len(Words[at]) + 2, Len(Words[at]) <= Len(wrong) + 2
  PROVE  Suggest(wrong) = Words[at] /\ wrong \notin Range(Words)
<1> DEFINE n == UniquePrefix
           w == Words[at]
           p == SubSeq(wrong, 1, n)
           before == {i \in 1..Len(Words) : Less(Words[i], p)}
<1>1. Len(Words) \in Nat /\ DOMAIN Words = 1..Len(Words) /\ n \in Nat \ {0}
  <2>1. Words \in Seq(Seq(Range(Alphabet)))
    BY DEF CodesAssumption
  <2>2. Len(Words) \in Nat /\ DOMAIN Words = 1..Len(Words)
    BY <2>1, LenProperties
  <2>3. QED  BY <2>2 DEF CodesAssumption
<1>2. Len(wrong) \in Nat /\ DOMAIN wrong = 1..Len(wrong) /\ \A k \in 1..Len(wrong) : wrong[k] \in Range(Alphabet)
  BY LenProperties, ElementOfSeq
<1>3. w \in Seq(Range(Alphabet)) /\ Len(w) \in Nat /\ Len(w) >= n
  BY WordIs
<1>4. Len(p) = n /\ \A k \in 1..n : p[k] = wrong[k]
  <2>1. 1 \in 1..(Len(wrong) + 1) /\ n \in (1 - 1)..Len(wrong)
    BY <1>1, <1>2
  <2>2. Len(p) = n - 1 + 1 /\ \A k \in 1..(n - 1 + 1) : p[k] = wrong[1 + k - 1]
    BY <2>1, Part
  <2> HIDE DEF p
  <2>3. \A k \in 1..n : p[k] = wrong[k]
    <3>1. SUFFICES ASSUME NEW k \in 1..n PROVE p[k] = wrong[k]
      OBVIOUS
    <3>2. k \in 1..(n - 1 + 1) /\ 1 + k - 1 = k
      BY <1>1
    <3>3. QED  BY <2>2, <3>2
  <2>4. QED  BY <1>1, <2>2, <2>3
<1> HIDE DEF p
<1>5. before = 1..(at - 1)
  BY <1>4, SoughtByPrefix
<1> HIDE DEF before
<1>6. Cardinality(before) + 1 = at
  <2>1. Cardinality(1..(at - 1)) = IF 1 > at - 1 THEN 0 ELSE at - 1 - 1 + 1
    BY <1>1, FS_Interval
  <2>2. QED  BY <1>1, <1>5, <2>1
<1>7. ~(at > Len(Words))
  BY <1>1
<1>8. IsPrefix(p, w)
  BY <1>1, <1>3, <1>4 DEF IsPrefix
<1>9. Range(wrong) \subseteq Range(Alphabet)
  BY <1>2 DEF Range
<1>10. ~(Distance(Len(w), Len(wrong)) > 2)
  BY <1>2, <1>3 DEF Distance
<1>11. Suggest(wrong) = w
  <2>1. Suggest(wrong) =
          IF ~(Range(wrong) \subseteq Range(Alphabet)) \/ Len(wrong) < n THEN <<>>
          ELSE LET start == Cardinality(before) + 1
               IN  IF start > Len(Words) THEN <<>>
                   ELSE IF ~IsPrefix(p, Words[start]) \/ Words[start] = wrong THEN <<>>
                   ELSE IF Distance(Len(Words[start]), Len(wrong)) > 2 THEN <<>>
                   ELSE Words[start]
    BY DEF Suggest, before, p
  <2>2. ~(Len(wrong) < n)
    BY <1>1, <1>2
  <2>3. QED  BY <1>6, <1>7, <1>8, <1>9, <1>10, <2>1, <2>2
<1>12. wrong \notin Range(Words)
  <2>1. SUFFICES ASSUME NEW j \in 1..Len(Words), Words[j] = wrong
                 PROVE  FALSE
    BY <1>1 DEF Range
  <2>2. \A k \in 1..n : Words[j][k] = w[k]
    BY <2>1
  <2>3. CASE j < at
    BY <2>2, <2>3, PrefixesDiffer
  <2>4. CASE at < j
    BY <2>2, <2>4, PrefixesDiffer
  <2>5. j # at
    BY <2>1
  <2>6. QED  BY <1>1, <2>3, <2>4, <2>5
<1>13. QED  BY <1>11, <1>12

-----------------------------------------------------------------------------
(* The words of a secret. *)

\* The word w stands at i, between separators.
Fits(t, i, w) ==
  /\ w \in Seq(Small) /\ w # <<>> /\ i \in 1..Len(t) /\ i + Len(w) <= Len(t) + 1
  /\ \A k \in 1..Len(w) : t[i + k - 1] = w[k]
  /\ i + Len(w) = Len(t) + 1 \/ t[i + Len(w)] = "-"

MadeOf(t) == \A i \in Starts(t) : \E w \in Range(Words) : Fits(t, i, w)

LEMMA WordFits ==
  ASSUME CodesAssumption, NEW t \in Seq(Signs), NEW i, NEW w, Fits(t, i, w)
  PROVE  WordAt(t, i) = w
<1>1. /\ Len(t) \in Nat /\ Len(w) \in Nat \ {0} /\ i \in 1..Len(t) /\ i + Len(w) <= Len(t) + 1
      /\ \A k \in 1..Len(w) : t[i + k - 1] = w[k] /\ w[k] # "-"
      /\ w \in Seq(Small)
  BY LenProperties, EmptySeq, SmallIsClean DEF Fits
<1> DEFINE Until(j) == /\ j \in i..Len(t) /\ \A k \in i..j : t[k] # "-"
                       /\ j = Len(t) \/ t[j + 1] = "-"
           e == i + Len(w) - 1
<1>2. \A k \in i..e : t[k] # "-"
  <2>1. SUFFICES ASSUME NEW k \in i..e PROVE t[k] # "-"
    OBVIOUS
  <2>2. k - i + 1 \in 1..Len(w) /\ i + (k - i + 1) - 1 = k
    BY <1>1
  <2>3. QED  BY <1>1, <2>2
<1>3. Until(e)
  <2>1. e \in i..Len(t) /\ e + 1 = i + Len(w)
    BY <1>1
  <2>2. e = Len(t) \/ t[e + 1] = "-"
    BY <1>1, <2>1 DEF Fits
  <2>3. QED  BY <1>2, <2>1, <2>2
<1>e. e \in Nat
  BY <1>1
<1> HIDE DEF e
<1>4. ASSUME NEW j, Until(j)
      PROVE  j = e
  <2>1. CASE j < e
    <3>1. j + 1 \in i..e /\ j # Len(t)
      BY <1>1, <1>e, <1>3, <1>4, <2>1
    <3>2. QED  BY <1>2, <1>4, <3>1
  <2>2. CASE e < j
    <3>1. e + 1 \in i..j /\ e # Len(t)
      BY <1>1, <1>e, <1>3, <1>4, <2>2
    <3>2. t[e + 1] = "-"
      BY <1>3, <3>1
    <3>3. QED  BY <1>4, <3>1, <3>2
  <2>3. QED  BY <1>1, <1>e, <1>4, <2>1, <2>2
<1>5. WordAt(t, i) = SubSeq(t, i, CHOOSE j : Until(j))
  <2>1. WordAt(t, i) = SubSeq(t, i, CHOOSE j \in i..Len(t) : /\ \A k \in i..j : t[k] # "-"
                                                             /\ j = Len(t) \/ t[j + 1] = "-")
    BY DEF WordAt
  <2>2. QED  BY <2>1
<1> HIDE DEF Until
<1>6. WordAt(t, i) = SubSeq(t, i, e)
  BY <1>3, <1>4, <1>5
<1> DEFINE u == SubSeq(t, i, e)
<1>7. u \in Seq(Signs) /\ Len(u) = e - i + 1 /\ \A k \in 1..(e - i + 1) : u[k] = t[i + k - 1]
  <2>1. i \in 1..(Len(t) + 1) /\ e \in (i - 1)..Len(t)
    BY <1>1 DEF e
  <2>2. QED  BY <2>1, Part
<1> HIDE DEF u
<1>8. Len(u) = Len(w) /\ \A k \in 1..Len(u) : u[k] = w[k]
  BY <1>1, <1>7 DEF e
<1>9. u = w
  BY <1>1, <1>7, <1>8, SmallSigns, SeqEqual
<1>10. QED  BY <1>6, <1>9 DEF u

LEMMA WordsAreMade ==
  ASSUME CodesAssumption, NEW t \in Seq(Signs), MadeOf(t)
  PROVE  WordsOf(t) \subseteq Range(Words)
BY WordFits DEF WordsOf, MadeOf

\* Two secrets one after the other keep their words.
LEMMA HyphenedFits ==
  ASSUME CodesAssumption, NEW a \in Seq(Signs), NEW b \in Seq(Signs), NEW i, NEW w
  PROVE  /\ Fits(a, i, w) => Fits(Hyphened(a, b), i, w)
         /\ Fits(b, i, w) => Fits(Hyphened(a, b), Len(a) + 1 + i, w)
<1> DEFINE j == Hyphened(a, b)
<1>1. /\ j \in Seq(Signs) /\ Len(j) = Len(a) + 1 + Len(b)
      /\ \A k \in 1..Len(a) : j[k] = a[k]
      /\ j[Len(a) + 1] = "-"
      /\ \A k \in 1..Len(b) : j[Len(a) + 1 + k] = b[k]
      /\ Len(a) \in Nat /\ Len(b) \in Nat
  BY HyphenedIs, LenProperties
<1> HIDE DEF j
<1>2. ASSUME Fits(a, i, w)
      PROVE  Fits(j, i, w)
  <2>1. /\ w \in Seq(Small) /\ w # <<>> /\ Len(w) \in Nat /\ i \in 1..Len(a) /\ i + Len(w) <= Len(a) + 1
        /\ \A k \in 1..Len(w) : a[i + k - 1] = w[k]
        /\ i + Len(w) = Len(a) + 1 \/ a[i + Len(w)] = "-"
    BY <1>2, LenProperties DEF Fits
  <2>2. i \in 1..Len(j) /\ i + Len(w) <= Len(j) + 1
    BY <1>1, <2>1
  <2>3. \A k \in 1..Len(w) : j[i + k - 1] = w[k]
    <3>1. SUFFICES ASSUME NEW k \in 1..Len(w) PROVE j[i + k - 1] = w[k]
      OBVIOUS
    <3>2. i + k - 1 \in 1..Len(a)
      BY <1>1, <2>1
    <3>3. QED  BY <1>1, <2>1, <3>2
  <2>4. j[i + Len(w)] = "-"
    <3>1. CASE i + Len(w) = Len(a) + 1
      BY <1>1, <3>1
    <3>2. CASE i + Len(w) # Len(a) + 1
      <4>1. i + Len(w) \in 1..Len(a)
        <5>1. i \in 1..Len(a) /\ i + Len(w) <= Len(a) + 1 /\ Len(w) \in Nat /\ Len(a) \in Nat
          BY <1>1, <2>1
        <5>2. QED  BY <3>2, <5>1
      <4>2. QED  BY <1>1, <2>1, <3>2, <4>1
    <3>3. QED  BY <3>1, <3>2
  <2>5. QED  BY <2>1, <2>2, <2>3, <2>4 DEF Fits
<1>3. ASSUME Fits(b, i, w)
      PROVE  Fits(j, Len(a) + 1 + i, w)
  <2>1. /\ w \in Seq(Small) /\ w # <<>> /\ Len(w) \in Nat /\ i \in 1..Len(b) /\ i + Len(w) <= Len(b) + 1
        /\ \A k \in 1..Len(w) : b[i + k - 1] = w[k]
        /\ i + Len(w) = Len(b) + 1 \/ b[i + Len(w)] = "-"
    BY <1>3, LenProperties DEF Fits
  <2> DEFINE l == Len(a) + 1 + i
  <2>2. l \in 1..Len(j) /\ l + Len(w) <= Len(j) + 1
    BY <1>1, <2>1
  <2>3. \A k \in 1..Len(w) : j[l + k - 1] = w[k]
    <3>1. SUFFICES ASSUME NEW k \in 1..Len(w) PROVE j[l + k - 1] = w[k]
      OBVIOUS
    <3>2. i + k - 1 \in 1..Len(b) /\ Len(a) + 1 + (i + k - 1) = l + k - 1
      BY <1>1, <2>1
    <3>3. QED  BY <1>1, <2>1, <3>2
  <2>4. l + Len(w) = Len(j) + 1 \/ j[l + Len(w)] = "-"
    <3>0. /\ i \in 1..Len(b) /\ i + Len(w) <= Len(b) + 1 /\ Len(w) \in Nat
          /\ Len(a) \in Nat /\ Len(b) \in Nat /\ Len(j) = Len(a) + 1 + Len(b)
      BY <1>1, <2>1
    <3>1. CASE i + Len(w) = Len(b) + 1
      BY <3>0, <3>1
    <3>2. CASE i + Len(w) # Len(b) + 1
      <4>1. i + Len(w) \in 1..Len(b) /\ Len(a) + 1 + (i + Len(w)) = l + Len(w)
        BY <3>0, <3>2
      <4>2. QED  BY <1>1, <2>1, <3>2, <4>1
    <3>3. QED  BY <3>1, <3>2
  <2> HIDE DEF l
  <2>5. Fits(j, l, w)
    BY <2>1, <2>2, <2>3, <2>4 DEF Fits
  <2>6. QED  BY <2>5 DEF l
<1>4. QED  BY <1>2, <1>3 DEF j

\* And begin where theirs began.
LEMMA HyphenedStarts ==
  ASSUME CodesAssumption, NEW a \in Seq(Signs), NEW b \in Seq(Signs), NEW i \in Starts(Hyphened(a, b))
  PROVE  i \in Starts(a) \/ (i - Len(a) - 1 \in Starts(b) /\ i = Len(a) + 1 + (i - Len(a) - 1))
<1> DEFINE j == Hyphened(a, b)
<1>1. /\ j \in Seq(Signs) /\ Len(j) = Len(a) + 1 + Len(b)
      /\ \A k \in 1..Len(a) : j[k] = a[k]
      /\ j[Len(a) + 1] = "-"
      /\ \A k \in 1..Len(b) : j[Len(a) + 1 + k] = b[k]
      /\ Len(a) \in Nat /\ Len(b) \in Nat
  BY HyphenedIs, LenProperties
<1> HIDE DEF j
<1>2. i \in 1..Len(j) /\ j[i] # "-" /\ (i = 1 \/ j[i - 1] = "-")
  BY DEF Starts, j
<1>3. CASE i <= Len(a)
  <2>1. i \in 1..Len(a) /\ (i # 1 => i - 1 \in 1..Len(a))
    BY <1>1, <1>2, <1>3
  <2>2. a[i] # "-" /\ (i = 1 \/ a[i - 1] = "-")
    BY <1>1, <1>2, <2>1
  <2>3. QED  BY <2>1, <2>2 DEF Starts
<1>4. CASE i > Len(a) + 1
  <2> DEFINE l == i - Len(a) - 1
  <2>1. l \in 1..Len(b) /\ Len(a) + 1 + l = i /\ (l # 1 => l - 1 \in 1..Len(b) /\ Len(a) + 1 + (l - 1) = i - 1)
    BY <1>1, <1>2, <1>4
  <2>2. b[l] # "-"
    BY <1>1, <1>2, <2>1
  <2>3. l = 1 \/ b[l - 1] = "-"
    <3>1. i # 1
      BY <1>1, <1>4
    <3>2. QED  BY <1>1, <1>2, <2>1, <3>1
  <2> HIDE DEF l
  <2>4. l \in Starts(b)
    BY <2>1, <2>2, <2>3 DEF Starts
  <2>5. QED  BY <2>1, <2>4 DEF l
<1>5. i # Len(a) + 1
  BY <1>1, <1>2
<1>6. QED  BY <1>1, <1>2, <1>3, <1>4, <1>5

\* A word is a secret of one word.
LEMMA WordAlone ==
  ASSUME CodesAssumption, NEW w \in Range(Words)
  PROVE  /\ w \in Seq(Small) /\ w # <<>> /\ Clean(w) /\ MadeOf(w)
         /\ Letters(w) = 1..Len(w) /\ Len(w) \in Nat /\ Len(w) >= UniquePrefix
<1>1. PICK at \in 1..Len(Words) : w = Words[at]
  <2>1. Words \in Seq(Seq(Range(Alphabet)))
    BY DEF CodesAssumption
  <2>2. DOMAIN Words = 1..Len(Words)
    BY <2>1, LenProperties
  <2>3. QED  BY <2>2 DEF Range
<1>2. w \in Seq(Range(Alphabet)) /\ Len(w) \in Nat /\ Len(w) >= UniquePrefix /\ UniquePrefix \in Nat \ {0}
  BY <1>1, WordIs DEF CodesAssumption
<1>3. w \in Seq(Small) /\ w # <<>>
  BY <1>2 DEF Small
<1>4. Clean(w) /\ \A i \in 1..Len(w) : w[i] # "-"
  BY <1>3, SmallIsClean
<1>5. Fits(w, 1, w)
  <2>1. 1 \in 1..Len(w) /\ 1 + Len(w) = Len(w) + 1 /\ \A k \in 1..Len(w) : 1 + k - 1 = k
    BY <1>2
  <2>2. QED  BY <1>3, <2>1 DEF Fits
<1>6. \A i \in Starts(w) : i = 1
  <2>1. SUFFICES ASSUME NEW i \in 1..Len(w), i # 1, w[i - 1] = "-" PROVE FALSE
    BY DEF Starts
  <2>2. i - 1 \in 1..Len(w)
    BY <1>2, <2>1
  <2>3. QED  BY <1>4, <2>1, <2>2
<1>7. QED  BY <1>2, <1>3, <1>4, <1>5, <1>6 DEF MadeOf, Letters

\* What n words with separators between them are.
Secret(t, n) ==
  /\ Clean(t) /\ t # <<>> /\ MadeOf(t)
  /\ IsFiniteSet(Letters(t)) /\ Cardinality(Letters(t)) >= n * UniquePrefix

LEMMA SecretOfOne ==
  ASSUME CodesAssumption, NEW w \in Range(Words)
  PROVE  Secret(w, 1)
<1>1. /\ w # <<>> /\ Clean(w) /\ MadeOf(w)
      /\ Letters(w) = 1..Len(w) /\ Len(w) \in Nat /\ Len(w) >= UniquePrefix /\ UniquePrefix \in Nat
  BY WordAlone DEF CodesAssumption
<1>2. IsFiniteSet(1..Len(w)) /\ Cardinality(1..Len(w)) = IF 1 > Len(w) THEN 0 ELSE Len(w) - 1 + 1
  BY <1>1, FS_Interval
<1>3. Cardinality(Letters(w)) >= 1 * UniquePrefix
  BY <1>1, <1>2
<1>4. QED  BY <1>1, <1>2, <1>3 DEF Secret

LEMMA SecretGrows ==
  ASSUME CodesAssumption, NEW n \in Nat, NEW t, Secret(t, n), NEW w \in Range(Words)
  PROVE  Secret(Hyphened(t, w), n + 1)
<1> DEFINE j == Hyphened(t, w)
<1>1. /\ Clean(t) /\ t \in Seq(Signs) /\ t # <<>> /\ MadeOf(t)
      /\ IsFiniteSet(Letters(t)) /\ Cardinality(Letters(t)) >= n * UniquePrefix
  BY DEF Secret, Clean
<1>2. /\ w \in Seq(Signs) /\ w # <<>> /\ Clean(w) /\ MadeOf(w)
      /\ Letters(w) = 1..Len(w) /\ Len(w) \in Nat /\ Len(w) >= UniquePrefix /\ UniquePrefix \in Nat
  BY WordAlone DEF CodesAssumption, Clean
<1>3. Clean(j) /\ j # <<>>
  BY <1>1, <1>2, CleanJoins
<1>4. MadeOf(j)
  <2>1. SUFFICES ASSUME NEW i \in Starts(j)
                 PROVE  \E v \in Range(Words) : Fits(j, i, v)
    BY DEF MadeOf
  <2>2. CASE i \in Starts(t)
    BY <1>1, <1>2, <2>2, HyphenedFits DEF MadeOf
  <2>3. CASE i - Len(t) - 1 \in Starts(w) /\ i = Len(t) + 1 + (i - Len(t) - 1)
    <3>1. PICK v \in Range(Words) : Fits(w, i - Len(t) - 1, v)
      BY <1>2, <2>3 DEF MadeOf
    <3>2. Fits(j, Len(t) + 1 + (i - Len(t) - 1), v)
      BY <1>1, <1>2, <3>1, HyphenedFits
    <3>3. QED  BY <2>3, <3>2
  <2>4. QED  BY <1>1, <1>2, <2>2, <2>3, HyphenedStarts
<1>5. /\ Len(j) = Len(t) + 1 + Len(w) /\ Len(t) \in Nat
      /\ \A k \in 1..Len(t) : j[k] = t[k]
      /\ \A k \in 1..Len(w) : j[Len(t) + 1 + k] = w[k]
  BY <1>1, <1>2, HyphenedIs, LenProperties
<1> HIDE DEF j
<1> DEFINE more == (Len(t) + 2)..(Len(t) + 1 + Len(w))
           L == Letters(t)
           M == Letters(j)
<1>6. L \cup more \subseteq M /\ L \cap more = {}
  <2>1. ASSUME NEW k \in L
        PROVE  k \in M /\ k \notin more
    <3>1. k \in 1..Len(t) /\ t[k] # "-"
      BY DEF Letters
    <3>2. j[k] # "-" /\ k \in 1..Len(j)
      BY <1>2, <1>5, <3>1
    <3>3. QED  BY <1>2, <1>5, <3>1, <3>2 DEF Letters
  <2>2. ASSUME NEW k \in more
        PROVE  k \in M
    <3> DEFINE l == k - Len(t) - 1
    <3>1. l \in 1..Len(w) /\ Len(t) + 1 + l = k /\ k \in 1..Len(j)
      BY <1>2, <1>5
    <3> HIDE DEF l
    <3>2. l \in Letters(w)
      BY <1>2, <3>1
    <3>3. j[k] # "-"
      BY <1>5, <3>1, <3>2 DEF Letters
    <3>4. QED  BY <3>1, <3>3 DEF Letters
  <2> HIDE DEF L, M, more
  <2>3. QED  BY <2>1, <2>2
<1>7. IsFiniteSet(M)
  <2>1. Len(j) \in Nat
    BY <1>2, <1>5
  <2>2. IsFiniteSet(1..Len(j))
    BY <2>1, FS_Interval
  <2>3. M \subseteq 1..Len(j)
    BY DEF Letters
  <2> HIDE DEF M
  <2>4. QED  BY <2>2, <2>3, FS_Subset
<1>8. IsFiniteSet(more) /\ Cardinality(more) = Len(w)
  <2> DEFINE lo == Len(t) + 2
             hi == Len(t) + 1 + Len(w)
  <2>1. lo \in Int /\ hi \in Int /\ (IF lo > hi THEN 0 ELSE hi - lo + 1) = Len(w)
    BY <1>2, <1>5
  <2>2. more = lo..hi
    OBVIOUS
  <2> HIDE DEF lo, hi, more
  <2>3. IsFiniteSet(lo..hi) /\ Cardinality(lo..hi) = IF lo > hi THEN 0 ELSE hi - lo + 1
    BY <2>1, FS_Interval
  <2>4. QED  BY <2>1, <2>2, <2>3
<1>9. IsFiniteSet(L) /\ Cardinality(L) \in Nat /\ Cardinality(L) >= n * UniquePrefix
  BY <1>1, FS_CardinalityType
<1> HIDE DEF L, M, more
<1>10. Cardinality(L \cup more) = Cardinality(L) + Len(w) /\ IsFiniteSet(L \cup more)
  <2>1. /\ IsFiniteSet(L \cup more)
        /\ Cardinality(L \cup more) = Cardinality(L) + Cardinality(more) - Cardinality(L \cap more)
    BY <1>8, <1>9, FS_Union
  <2>2. Cardinality(L \cap more) = 0
    BY <1>6, FS_EmptySet
  <2>3. QED  BY <1>2, <1>8, <1>9, <2>1, <2>2
<1>11. Cardinality(L \cup more) <= Cardinality(M) /\ Cardinality(M) \in Nat
  BY <1>6, <1>7, FS_Subset, FS_CardinalityType
<1>12. (n + 1) * UniquePrefix = n * UniquePrefix + UniquePrefix /\ n * UniquePrefix \in Nat
  BY <1>2
<1>13. Cardinality(M) >= (n + 1) * UniquePrefix
  <2> DEFINE c == n * UniquePrefix
             d == (n + 1) * UniquePrefix
  <2>1. c \in Nat /\ d = c + UniquePrefix /\ Cardinality(L) >= c
    BY <1>9, <1>12
  <2> HIDE DEF c, d
  <2>2. Cardinality(M) >= d
    BY <1>2, <1>9, <1>10, <1>11, <2>1
  <2>3. QED  BY <2>2 DEF d
<1>14. QED  BY <1>3, <1>4, <1>7, <1>13 DEF Secret, j, M

\* Enough words are a secret.
LEMMA JoinIsSecret ==
  ASSUME CodesAssumption, NEW n \in Nat \ {0}, NEW ws \in [1..n -> Range(Words)]
  PROVE  Secret(Join(ws), n)
<1>1. Len(ws) = n /\ ws # <<>> /\ ws \in Seq(Range(Words))
  <2>1. ws \in Seq(Range(Words)) /\ DOMAIN ws = 1..n
    BY SeqDef
  <2>2. Len(ws) = n
    BY <2>1, LenProperties
  <2>3. QED  BY <2>1, <2>2
<1> DEFINE r == CHOOSE r : r = [m \in 1..n |-> IF m = 1 THEN ws[1] ELSE r[m - 1] \o <<"-">> \o ws[m]]
<1>2. Join(ws) = r[n]
  BY <1>1 DEF Join
<1>3. \E f : f = [m \in 1..n |-> IF m = 1 THEN ws[1] ELSE f[m - 1] \o <<"-">> \o ws[m]]
  <2> DEFINE T == Seq(Signs)
             by == [m \in 1..n |-> [t \in T |-> IF m = 1 THEN ws[1] ELSE t \o <<"-">> \o ws[m]]]
  <2>1. by \in [1..n -> [T -> T]]
    <3>1. ASSUME NEW m \in 1..n, NEW t \in T
          PROVE  ws[1] \in T /\ t \o <<"-">> \o ws[m] \in T
      <4>1. ws[1] \in Range(Words) /\ ws[m] \in Range(Words)
        OBVIOUS
      <4>2. ws[1] \in T /\ ws[m] \in T
        BY <4>1, WordAlone DEF Clean
      <4>3. Hyphened(t, ws[m]) \in T
        BY <4>2, HyphenedIs
      <4>4. QED  BY <4>2, <4>3 DEF Hyphened
    <3> HIDE DEF T
    <3>2. QED  BY <3>1
  <2>2. <<>> \in T
    OBVIOUS
  <2>3. \A m \in 1..n : \A t \in T : by[m][t] = IF m = 1 THEN ws[1] ELSE t \o <<"-">> \o ws[m]
    OBVIOUS
  <2> HIDE DEF by, T
  <2>4. PICK f : f \in Runs(T, <<>>, n, by)
    BY <2>1, <2>2, Recursion
  <2>5. f \in [0..n -> T] /\ \A m \in 1..n : f[m] = by[m][f[m - 1]]
    BY <2>4 DEF Runs
  <2>6. \A m \in 1..n : f[m - 1] \in T
    BY <2>5
  <2>7. \A m \in 1..n : f[m] = IF m = 1 THEN ws[1] ELSE f[m - 1] \o <<"-">> \o ws[m]
    BY <2>3, <2>5, <2>6
  <2> DEFINE g == [m \in 1..n |-> f[m]]
  <2>8. ASSUME NEW m \in 1..n
        PROVE  g[m] = IF m = 1 THEN ws[1] ELSE g[m - 1] \o <<"-">> \o ws[m]
    <3>1. CASE m = 1
      BY <2>7, <3>1
    <3>2. CASE m # 1
      <4>1. m - 1 \in 1..n
        BY <3>2
      <4>2. g[m - 1] = f[m - 1] /\ g[m] = f[m]
        BY <4>1
      <4>3. f[m] = f[m - 1] \o <<"-">> \o ws[m]
        BY <2>7, <3>2
      <4>4. QED  BY <3>2, <4>2, <4>3
    <3>3. QED  BY <3>1, <3>2
  <2>9. g = [m \in 1..n |-> g[m]]
    OBVIOUS
  <2> HIDE DEF g
  <2>10. g = [m \in 1..n |-> IF m = 1 THEN ws[1] ELSE g[m - 1] \o <<"-">> \o ws[m]]
    BY <2>8, <2>9
  <2>11. QED  BY <2>10
<1>4. r = [m \in 1..n |-> IF m = 1 THEN ws[1] ELSE r[m - 1] \o <<"-">> \o ws[m]]
  BY <1>3
<1> HIDE DEF r
<1>5. \A m \in 1..n : r[m] = IF m = 1 THEN ws[1] ELSE r[m - 1] \o <<"-">> \o ws[m]
  BY ONLY <1>4
<1> DEFINE S == {m \in Nat : m < n => Secret(r[m + 1], m + 1)}
<1>6. 0 \in S
  <2>1. 1 \in 1..n /\ r[1] = ws[1] /\ ws[1] \in Range(Words)
    BY <1>5
  <2>2. Secret(r[1], 1)
    BY <2>1, SecretOfOne
  <2>3. 0 + 1 = 1
    OBVIOUS
  <2>4. QED  BY <2>2, <2>3
<1>7. ASSUME NEW m \in Nat, m \in S
      PROVE  m + 1 \in S
  <2>1. SUFFICES ASSUME m + 1 < n
                 PROVE  Secret(r[m + 1 + 1], m + 1 + 1)
    OBVIOUS
  <2> DEFINE l == m + 1
  <2>2. Secret(r[l], l) /\ l \in Nat /\ l + 1 \in 1..n /\ l + 1 # 1 /\ l + 1 - 1 = l
    BY <1>7, <2>1
  <2> HIDE DEF l
  <2>3. r[l + 1] = Hyphened(r[l], ws[l + 1]) /\ ws[l + 1] \in Range(Words)
    <3> DEFINE k == l + 1
    <3>1. k \in 1..n /\ k # 1 /\ k - 1 = l
      BY <2>2
    <3> HIDE DEF k
    <3>2. r[k] = r[k - 1] \o <<"-">> \o ws[k]
      BY <1>5, <3>1
    <3>3. r[k] = Hyphened(r[l], ws[k]) /\ ws[k] \in Range(Words)
      BY <3>1, <3>2 DEF Hyphened
    <3>4. QED  BY <3>3 DEF k
  <2>4. Secret(r[l + 1], l + 1)
    BY <2>2, <2>3, SecretGrows
  <2>5. QED  BY <2>4 DEF l
<1>8. Nat \subseteq S
  <2> HIDE DEF S
  <2>1. QED  BY <1>6, <1>7, Induction
<1>9. n - 1 \in Nat /\ n - 1 < n /\ n - 1 + 1 = n
  OBVIOUS
<1>10. Secret(r[n], n)
  BY <1>8, <1>9
<1>11. QED  BY <1>2, <1>10

-----------------------------------------------------------------------------
(* A word that is written in the place of another one. *)

\* m elements of t from the i-th on are replaced by those of w.
Spliced(t, i, m, w) == SubSeq(t, 1, i - 1) \o w \o SubSeq(t, i + m, Len(t))

\* What that makes of t.
IsSpliced(S, u, t, i, m, w) ==
  /\ u \in Seq(S) /\ Len(u) = Len(t) - m + Len(w)
  /\ \A k \in 1..(i - 1) : u[k] = t[k]
  /\ \A k \in 1..Len(w) : u[i + k - 1] = w[k]
  /\ \A k \in (i + m)..Len(t) : u[k - m + Len(w)] = t[k]

LEMMA SplicedIs ==
  ASSUME NEW S, NEW t \in Seq(S), NEW i \in 1..Len(t), NEW m \in Nat, i + m <= Len(t) + 1,
         NEW w \in Seq(S)
  PROVE  IsSpliced(S, Spliced(t, i, m, w), t, i, m, w)
<1> DEFINE a == SubSeq(t, 1, i - 1)
           z == SubSeq(t, i + m, Len(t))
           aw == a \o w
           j == aw \o z
<1>0. Len(t) \in Nat /\ Len(w) \in Nat /\ i \in Nat \ {0} /\ i <= Len(t)
  BY LenProperties
<1>1. a \in Seq(S) /\ Len(a) = i - 1 /\ \A k \in 1..(i - 1) : a[k] = t[k]
  <2>1. 1 \in 1..(Len(t) + 1) /\ i - 1 \in (1 - 1)..Len(t)
    BY <1>0
  <2>2. a \in Seq(S) /\ Len(a) = (i - 1) - 1 + 1 /\ \A k \in 1..((i - 1) - 1 + 1) : a[k] = t[1 + k - 1]
    BY <2>1, Part
  <2> HIDE DEF a
  <2>3. QED  BY <2>2, <1>0
<1>2. z \in Seq(S) /\ Len(z) = Len(t) - (i + m) + 1
      /\ \A k \in 1..(Len(t) - (i + m) + 1) : z[k] = t[i + m + k - 1]
  <2> DEFINE f == i + m
  <2>1. f \in 1..(Len(t) + 1) /\ Len(t) \in (f - 1)..Len(t)
    BY <1>0
  <2> HIDE DEF f
  <2>2. /\ SubSeq(t, f, Len(t)) \in Seq(S) /\ Len(SubSeq(t, f, Len(t))) = Len(t) - f + 1
        /\ \A k \in 1..(Len(t) - f + 1) : SubSeq(t, f, Len(t))[k] = t[f + k - 1]
    BY <2>1, Part
  <2>3. z = SubSeq(t, f, Len(t))
    BY DEF f
  <2> HIDE DEF z
  <2>4. z \in Seq(S) /\ Len(z) = Len(t) - f + 1 /\ \A k \in 1..(Len(t) - f + 1) : z[k] = t[f + k - 1]
    BY <2>2, <2>3
  <2>5. QED  BY <2>4 DEF f
<1> HIDE DEF a, z
<1>3. /\ aw \in Seq(S) /\ Len(aw) = Len(a) + Len(w)
      /\ \A k \in 1..(Len(a) + Len(w)) : aw[k] = IF k <= Len(a) THEN a[k] ELSE w[k - Len(a)]
  BY <1>1, ConcatProperties
<1> HIDE DEF aw
<1>4. /\ j \in Seq(S) /\ Len(j) = Len(aw) + Len(z)
      /\ \A k \in 1..(Len(aw) + Len(z)) : j[k] = IF k <= Len(aw) THEN aw[k] ELSE z[k - Len(aw)]
  <2>1. aw \in Seq(S) /\ z \in Seq(S)
    BY <1>2, <1>3
  <2>2. QED  BY <2>1, ConcatProperties
<1> HIDE DEF j
<1>5. Len(aw) = i - 1 + Len(w) /\ Len(j) = Len(t) - m + Len(w)
  BY <1>0, <1>1, <1>2, <1>3, <1>4
<1>6. ASSUME NEW k \in 1..(i - 1)
      PROVE  j[k] = t[k]
  <2>1. k \in 1..(Len(aw) + Len(z)) /\ k <= Len(aw) /\ k \in 1..(Len(a) + Len(w)) /\ k <= Len(a)
    BY <1>0, <1>1, <1>2, <1>5
  <2>2. QED  BY <1>1, <1>3, <1>4, <2>1
<1>7. ASSUME NEW k \in 1..Len(w)
      PROVE  j[i + k - 1] = w[k]
  <2> DEFINE l == i + k - 1
  <2>1. /\ l \in 1..(Len(aw) + Len(z)) /\ l <= Len(aw) /\ l \in 1..(Len(a) + Len(w))
        /\ ~(l <= Len(a)) /\ l - Len(a) = k
    BY <1>0, <1>1, <1>2, <1>5
  <2> HIDE DEF l
  <2>2. j[l] = aw[l] /\ aw[l] = w[l - Len(a)]
    BY <1>3, <1>4, <2>1
  <2>3. QED  BY <2>1, <2>2 DEF l
<1>8. ASSUME NEW k \in (i + m)..Len(t)
      PROVE  j[k - m + Len(w)] = t[k]
  <2> DEFINE l == k - m + Len(w)
             o == l - Len(aw)
  <2>1. /\ l \in 1..(Len(aw) + Len(z)) /\ ~(l <= Len(aw))
        /\ o \in 1..(Len(t) - (i + m) + 1) /\ i + m + o - 1 = k
    BY <1>0, <1>1, <1>2, <1>5
  <2>2. o = l - Len(aw)
    OBVIOUS
  <2> HIDE DEF l, o
  <2>3. j[l] = z[o]
    BY <1>4, <2>1, <2>2
  <2>4. z[o] = t[k]
    BY <1>2, <2>1
  <2>5. QED  BY <2>3, <2>4 DEF l
<1>9. Spliced(t, i, m, w) = j
  BY DEF Spliced, a, z, aw, j
<1>10. IsSpliced(S, j, t, i, m, w)
  BY <1>4, <1>5, <1>6, <1>7, <1>8 DEF IsSpliced
<1>11. QED  BY <1>9, <1>10

\* Another word in the place of one of a secret: the others stay.
LEMMA OtherWordsStay ==
  ASSUME CodesAssumption, NEW s, Clean(s), s # <<>>, MadeOf(s), NEW i \in Starts(s),
         NEW w \in Seq(Small), w # <<>>
  PROVE  /\ WordAt(s, i) \in Range(Words) /\ Fits(s, i, WordAt(s, i))
         /\ Clean(Spliced(s, i, Len(WordAt(s, i)), w)) /\ Spliced(s, i, Len(WordAt(s, i)), w) # <<>>
         /\ w \in WordsOf(Spliced(s, i, Len(WordAt(s, i)), w))
         /\ WordsOf(Spliced(s, i, Len(WordAt(s, i)), w)) \subseteq Range(Words) \cup {w}
<1> DEFINE v == WordAt(s, i)
           m == Len(v)
           n == Len(w)
           u == Spliced(s, i, m, w)
<1>1. s \in Seq(Signs) /\ Len(s) \in Nat /\ w \in Seq(Signs) /\ n \in Nat \ {0}
  <2>1. s \in Seq(Signs) /\ w \in Seq(Signs)
    BY SmallSigns DEF Clean
  <2>2. QED  BY <2>1, LenProperties, EmptySeq
<1>2. v \in Range(Words) /\ Fits(s, i, v)
  <2>1. PICK x \in Range(Words) : Fits(s, i, x)
    BY DEF MadeOf
  <2>2. WordAt(s, i) = x
    BY <1>1, <2>1, WordFits
  <2>3. QED  BY <2>1, <2>2
<1> HIDE DEF v
<1>3. /\ i \in 1..Len(s) /\ m \in Nat \ {0} /\ i + m <= Len(s) + 1
      /\ i + m = Len(s) + 1 \/ s[i + m] = "-"
      /\ i = 1 \/ s[i - 1] = "-"
  <2>1. v \in Seq(Small) /\ v # <<>> /\ i \in 1..Len(s) /\ i + m <= Len(s) + 1
        /\ (i + m = Len(s) + 1 \/ s[i + m] = "-")
    BY <1>2 DEF Fits
  <2>2. m \in Nat \ {0}
    BY <2>1, EmptySeq
  <2>3. i = 1 \/ s[i - 1] = "-"
    BY DEF Starts
  <2>4. QED  BY <2>1, <2>2, <2>3
<1> HIDE DEF m
<1>4. \A k \in 1..n : w[k] # "-"
  BY SmallIsClean
<1>5. /\ u \in Seq(Signs) /\ Len(u) = Len(s) - m + n
      /\ \A k \in 1..(i - 1) : u[k] = s[k]
      /\ \A k \in 1..n : u[i + k - 1] = w[k]
      /\ \A k \in (i + m)..Len(s) : u[k - m + n] = s[k]
  <2>1. s \in Seq(Signs) /\ i \in 1..Len(s) /\ m \in Nat /\ i + m <= Len(s) + 1 /\ w \in Seq(Signs)
    BY <1>1, <1>3
  <2>2. IsSpliced(Signs, u, s, i, m, w)
    BY <2>1, SplicedIs
  <2>3. QED  BY <2>2 DEF IsSpliced
<1> HIDE DEF n, u
<1>6. \A k \in i..(i + n - 1) : u[k] # "-"
  <2>1. SUFFICES ASSUME NEW k \in i..(i + n - 1) PROVE u[k] # "-"
    OBVIOUS
  <2>2. k - i + 1 \in 1..n /\ i + (k - i + 1) - 1 = k
    BY <1>1, <1>3
  <2>3. QED  BY <1>4, <1>5, <2>2
<1>7. ASSUME NEW k \in (i + n)..Len(u)
      PROVE  k - n + m \in (i + m)..Len(s) /\ u[k] = s[k - n + m]
  <2>1. k - n + m \in (i + m)..Len(s) /\ (k - n + m) - m + n = k
    BY <1>1, <1>3, <1>5
  <2>2. QED  BY <1>5, <2>1
<1>8. u[i] = w[1] /\ i \in 1..Len(u) /\ Len(u) \in Nat \ {0} /\ i + n <= Len(u) + 1
  <2>1. 1 \in 1..n /\ i + 1 - 1 = i
    BY <1>1, <1>3
  <2>2. u[i + 1 - 1] = w[1]
    BY <1>5, <2>1
  <2>3. u[i] = w[1]
    BY <2>1, <2>2
  <2>4. i \in 1..Len(u) /\ Len(u) \in Nat \ {0} /\ i + n <= Len(u) + 1
    BY <1>1, <1>3, <1>5
  <2>5. QED  BY <2>3, <2>4
<1>9. Clean(u) /\ u # <<>>
  <2>1. u # <<>>
    BY <1>5, <1>8
  <2>2. u[1] # "-"
    <3>1. CASE i = 1
      BY <1>1, <1>6, <3>1
    <3>2. CASE i # 1
      <4>1. 1 \in 1..(i - 1)
        BY <1>3, <3>2
      <4>2. u[1] = s[1]
        BY <1>5, <4>1
      <4>3. QED  BY <4>2 DEF Clean
    <3>3. QED  BY <3>1, <3>2
  <2>3. u[Len(u)] # "-"
    <3>1. CASE Len(u) < i + n
      <4>1. Len(u) \in i..(i + n - 1)
        BY <1>1, <1>3, <1>8, <3>1
      <4>2. QED  BY <1>6, <4>1
    <3>2. CASE Len(u) >= i + n
      <4>1. Len(u) \in (i + n)..Len(u) /\ Len(u) - n + m = Len(s)
        BY <1>1, <1>3, <1>5, <1>8, <3>2
      <4>2. u[Len(u)] = s[Len(s)]
        BY <1>7, <4>1
      <4>3. QED  BY <4>2 DEF Clean
    <3>3. QED  BY <1>1, <1>3, <1>8, <3>1, <3>2
  <2>4. ASSUME NEW k \in 1..(Len(u) - 1), u[k] = "-", u[k + 1] = "-"
        PROVE  FALSE
    <3>0. \A l \in 1..(Len(s) - 1) : ~(s[l] = "-" /\ s[l + 1] = "-")
      BY DEF Clean
    <3>1. CASE k + 1 < i
      <4>1. k \in 1..(i - 1) /\ k + 1 \in 1..(i - 1) /\ k \in 1..(Len(s) - 1)
        BY <1>3, <1>8, <3>1
      <4>2. QED  BY <1>5, <2>4, <3>0, <4>1
    <3>2. CASE k + 1 = i
      <4>1. k + 1 \in i..(i + n - 1)
        BY <1>1, <1>3, <3>2
      <4>2. QED  BY <1>6, <2>4, <4>1
    <3>3. CASE i <= k /\ k < i + n
      <4>1. k \in i..(i + n - 1)
        BY <1>1, <1>3, <1>8, <3>3
      <4>2. QED  BY <1>6, <2>4, <4>1
    <3>4. CASE i + n <= k
      <4> DEFINE l == k - n + m
                 o == k + 1
                 r == o - n + m
      <4>1. k \in (i + n)..Len(u) /\ o \in (i + n)..Len(u)
        BY <1>1, <1>3, <1>8, <3>4
      <4>2. l \in (i + m)..Len(s) /\ u[k] = s[l]
        BY <1>7, <4>1
      <4> HIDE DEF o
      <4>3. r \in (i + m)..Len(s) /\ u[o] = s[r]
        BY <1>7, <4>1
      <4>4. r = l + 1 /\ l \in 1..(Len(s) - 1) /\ u[o] = "-" /\ u[k] = "-"
        BY <1>1, <1>3, <2>4, <4>2, <4>3 DEF o
      <4> HIDE DEF l, r
      <4>5. s[l] = "-" /\ s[l + 1] = "-"
        BY <4>2, <4>3, <4>4
      <4>6. QED  BY <3>0, <4>4, <4>5
    <3>5. QED  BY <1>1, <1>3, <1>8, <3>1, <3>2, <3>3, <3>4
  <2>5. QED  BY <1>5, <2>1, <2>2, <2>3, <2>4 DEF Clean
<1>10. Fits(u, i, w)
  <2>1. i + n = Len(u) + 1 \/ u[i + n] = "-"
    <3>1. SUFFICES ASSUME i + n # Len(u) + 1
                   PROVE  u[i + n] = "-"
      OBVIOUS
    <3>2. i + n \in (i + n)..Len(u) /\ (i + n) - n + m = i + m
      BY <1>1, <1>3, <1>8, <3>1
    <3>3. u[i + n] = s[(i + n) - n + m] /\ (i + n) - n + m \in (i + m)..Len(s)
      BY <1>7, <3>2
    <3>4. u[i + n] = s[i + m] /\ i + m # Len(s) + 1
      BY <1>1, <1>3, <3>2, <3>3
    <3>5. QED  BY <1>3, <3>4
  <2>2. QED  BY <1>5, <1>8, <2>1 DEF Fits, n
<1>11. WordAt(u, i) = w
  BY <1>5, <1>10, WordFits
<1>12. i \in Starts(u)
  <2>1. u[i] # "-"
    BY <1>1, <1>3, <1>6
  <2>2. i = 1 \/ u[i - 1] = "-"
    <3>1. CASE i # 1
      <4>1. i - 1 \in 1..(i - 1)
        BY <1>3, <3>1
      <4>2. QED  BY <1>3, <1>5, <3>1, <4>1
    <3>2. QED  BY <3>1
  <2>3. QED  BY <1>8, <2>1, <2>2 DEF Starts
<1>13. ASSUME NEW p \in Starts(u)
       PROVE  WordAt(u, p) \in Range(Words) \cup {w}
  <2>1. p \in 1..Len(u) /\ u[p] # "-" /\ (p = 1 \/ u[p - 1] = "-")
    BY DEF Starts
  <2>2. CASE p < i
    <3>1. p \in 1..(i - 1) /\ p \in 1..Len(s) /\ (p # 1 => p - 1 \in 1..(i - 1)) /\ i # 1
      BY <1>3, <2>1, <2>2
    <3>2. s[p] # "-" /\ (p = 1 \/ s[p - 1] = "-")
      BY <1>5, <2>1, <3>1
    <3>3. p \in Starts(s)
      BY <3>1, <3>2 DEF Starts
    <3>4. PICK x \in Range(Words) : Fits(s, p, x)
      BY <3>3 DEF MadeOf
    <3> DEFINE e == Len(x)
    <3>5. /\ x \in Seq(Small) /\ x # <<>> /\ e \in Nat /\ p + e <= Len(s) + 1
          /\ \A k \in 1..e : s[p + k - 1] = x[k]
          /\ p + e = Len(s) + 1 \/ s[p + e] = "-"
      BY <3>4, LenProperties DEF Fits
    <3>6. \A k \in 1..e : x[k] # "-"
      BY <3>5, SmallIsClean
    <3> HIDE DEF e
    <3>7. p + e <= i - 1
      <4>1. SUFFICES ASSUME i - 1 < p + e PROVE FALSE
        BY <1>3, <2>1, <3>5
      <4> DEFINE k == i - p
      <4>2. k \in 1..e /\ p + k - 1 = i - 1
        BY <1>3, <3>1, <3>5, <4>1
      <4> HIDE DEF k
      <4>3. s[i - 1] = x[k]
        BY <3>5, <4>2
      <4>4. QED  BY <1>3, <3>1, <3>6, <4>2, <4>3
    <3>8. \A k \in 1..e : u[p + k - 1] = x[k]
      <4>1. SUFFICES ASSUME NEW k \in 1..e PROVE u[p + k - 1] = x[k]
        OBVIOUS
      <4>2. p + k - 1 \in 1..(i - 1)
        BY <1>3, <3>1, <3>5, <3>7
      <4>3. QED  BY <1>5, <3>5, <4>2
    <3>9. u[p + e] = "-" /\ p + e <= Len(u) + 1
      <4>1. p + e \in 1..(i - 1) /\ p + e # Len(s) + 1 /\ p + e <= Len(u) + 1
        BY <1>3, <1>8, <3>1, <3>5, <3>7
      <4>2. QED  BY <1>5, <3>5, <4>1
    <3>10. Fits(u, p, x)
      BY <2>1, <3>5, <3>8, <3>9 DEF Fits, e
    <3>11. WordAt(u, p) = x
      BY <1>5, <3>10, WordFits
    <3>12. QED  BY <3>11
  <2>3. CASE p = i
    BY <1>11, <2>3
  <2>4. CASE i < p /\ p < i + n
    <3>1. p - 1 \in i..(i + n - 1) /\ p # 1
      BY <1>1, <1>3, <2>1, <2>4
    <3>2. QED  BY <1>6, <2>1, <3>1
  <2>5. CASE p = i + n
    <3>1. p \in (i + n)..Len(u) /\ p - n + m = i + m
      BY <1>1, <1>3, <1>8, <2>1, <2>5
    <3>2. u[p] = s[i + m] /\ i + m \in (i + m)..Len(s)
      BY <1>7, <3>1
    <3>3. i + m # Len(s) + 1
      BY <1>1, <1>3, <3>2
    <3>4. QED  BY <1>3, <2>1, <3>2, <3>3
  <2>6. CASE i + n < p
    <3>1. p \in (i + n)..Len(u) /\ p - 1 \in (i + n)..Len(u) /\ p # 1
      BY <1>1, <1>3, <1>8, <2>1, <2>6
    <3> DEFINE q == p - n + m
    <3>2. /\ q \in (i + m)..Len(s) /\ u[p] = s[q]
          /\ u[p - 1] = s[p - 1 - n + m]
      BY <1>7, <3>1
    <3>3. p - 1 - n + m = q - 1 /\ q \in 1..Len(s)
      BY <1>1, <1>3, <2>1, <3>2
    <3>3a. q = p - n + m
      OBVIOUS
    <3> HIDE DEF q
    <3>4. q \in Starts(s)
      BY <2>1, <3>1, <3>2, <3>3 DEF Starts
    <3>5. PICK x \in Range(Words) : Fits(s, q, x)
      BY <3>4 DEF MadeOf
    <3> DEFINE e == Len(x)
    <3>6. /\ x \in Seq(Small) /\ x # <<>> /\ e \in Nat /\ q + e <= Len(s) + 1
          /\ \A k \in 1..e : s[q + k - 1] = x[k]
          /\ q + e = Len(s) + 1 \/ s[q + e] = "-"
      BY <3>5, LenProperties DEF Fits
    <3> HIDE DEF e
    <3>7. p + e <= Len(u) + 1
      BY <1>1, <1>3, <1>5, <2>1, <3>2, <3>3a, <3>6
    <3>8. \A k \in 1..e : u[p + k - 1] = x[k]
      <4>1. SUFFICES ASSUME NEW k \in 1..e PROVE u[p + k - 1] = x[k]
        OBVIOUS
      <4>2. q + k - 1 \in (i + m)..Len(s) /\ (q + k - 1) - m + n = p + k - 1
        BY <1>1, <1>3, <2>1, <3>2, <3>3a, <3>6
      <4>3. u[(q + k - 1) - m + n] = s[q + k - 1]
        BY <1>5, <4>2
      <4>4. QED  BY <3>6, <4>2, <4>3
    <3>9. p + e = Len(u) + 1 \/ u[p + e] = "-"
      <4>1. SUFFICES ASSUME p + e # Len(u) + 1
                     PROVE  u[p + e] = "-"
        OBVIOUS
      <4>2. q + e # Len(s) + 1
        BY <1>1, <1>3, <1>5, <2>1, <3>2, <3>3a, <3>6, <4>1
      <4>3. q + e \in (i + m)..Len(s) /\ (q + e) - m + n = p + e
        <5>1. /\ q \in (i + m)..Len(s) /\ e \in Nat /\ q + e <= Len(s) + 1 /\ q + e # Len(s) + 1
              /\ Len(s) \in Nat /\ i \in Nat /\ m \in Nat /\ n \in Nat /\ p \in Nat /\ q = p - n + m
          BY <1>1, <1>3, <2>1, <3>2, <3>3a, <3>6, <4>2
        <5>2. QED  BY ONLY <5>1
      <4>4. u[(q + e) - m + n] = s[q + e]
        BY <1>5, <4>3
      <4>5. QED  BY <3>6, <4>2, <4>3, <4>4
    <3>10. Fits(u, p, x)
      BY <2>1, <3>6, <3>7, <3>8, <3>9 DEF Fits, e
    <3>11. WordAt(u, p) = x
      BY <1>5, <3>10, WordFits
    <3>12. QED  BY <3>11
  <2>7. QED  BY <1>1, <1>3, <2>1, <2>2, <2>3, <2>4, <2>5, <2>6
<1>14. w \in WordsOf(u) /\ WordsOf(u) \subseteq Range(Words) \cup {w}
  BY <1>11, <1>12, <1>13 DEF WordsOf
<1>15. QED  BY <1>2, <1>9, <1>14 DEF u, m, v

\* Behind a room, what is replaced is behind the room.
LEMMA SplicedBehind ==
  ASSUME NEW a \in Seq(Signs), NEW s \in Seq(Signs), NEW i \in 1..Len(s), NEW m \in Nat,
         i + m <= Len(s) + 1, NEW w \in Seq(Signs)
  PROVE  Spliced(Hyphened(a, s), Len(a) + 1 + i, m, w) = Hyphened(a, Spliced(s, i, m, w))
<1> DEFINE h == Hyphened(a, s)
           f == Len(a) + 1
           u == Spliced(s, i, m, w)
           x == Spliced(h, f + i, m, w)
           y == Hyphened(a, u)
           n == Len(w)
<1>0. Len(a) \in Nat /\ Len(s) \in Nat /\ n \in Nat /\ f \in Nat /\ f = Len(a) + 1
  BY LenProperties
<1>1. /\ h \in Seq(Signs) /\ Len(h) = f + Len(s)
      /\ \A k \in 1..Len(a) : h[k] = a[k]
      /\ h[f] = "-" /\ \A k \in 1..Len(s) : h[f + k] = s[k]
  BY HyphenedIs
<1>2. /\ u \in Seq(Signs) /\ Len(u) = Len(s) - m + n
      /\ \A k \in 1..(i - 1) : u[k] = s[k]
      /\ \A k \in 1..n : u[i + k - 1] = w[k]
      /\ \A k \in (i + m)..Len(s) : u[k - m + n] = s[k]
  <2>1. IsSpliced(Signs, u, s, i, m, w)
    BY SplicedIs
  <2>2. QED  BY <2>1 DEF IsSpliced
<1> HIDE DEF h, f, u
<1>3. /\ x \in Seq(Signs) /\ Len(x) = Len(h) - m + n
      /\ \A k \in 1..((f + i) - 1) : x[k] = h[k]
      /\ \A k \in 1..n : x[(f + i) + k - 1] = w[k]
      /\ \A k \in ((f + i) + m)..Len(h) : x[k - m + n] = h[k]
  <2> DEFINE g == f + i
  <2>1. g \in 1..Len(h) /\ g + m <= Len(h) + 1 /\ h \in Seq(Signs)
    BY <1>0, <1>1
  <2> HIDE DEF g, x
  <2>2. x = Spliced(h, g, m, w)
    BY DEF x, g
  <2>3. IsSpliced(Signs, x, h, g, m, w)
    BY <2>1, <2>2, SplicedIs
  <2>4. QED  BY <2>3 DEF IsSpliced, g
<1>4. /\ y \in Seq(Signs) /\ Len(y) = f + Len(u)
      /\ \A k \in 1..Len(a) : y[k] = a[k]
      /\ y[f] = "-" /\ \A k \in 1..Len(u) : y[f + k] = u[k]
  BY <1>2, HyphenedIs DEF f
<1> HIDE DEF x, y, n
<1>5. Len(x) = Len(y)
  BY <1>0, <1>1, <1>2, <1>3, <1>4
<1>6. ASSUME NEW k \in 1..Len(x)
      PROVE  x[k] = y[k]
  <2>1. CASE k <= Len(a)
    <3>1. k \in 1..Len(a) /\ k \in 1..((f + i) - 1)
      BY <1>0, <2>1
    <3>2. QED  BY <1>1, <1>3, <1>4, <3>1
  <2>2. CASE k = f
    <3>1. f \in 1..((f + i) - 1)
      BY <1>0
    <3>2. QED  BY <1>1, <1>3, <1>4, <2>2, <3>1
  <2>3. CASE k > f
    <3> DEFINE l == k - f
    <3>1. l \in 1..Len(u) /\ f + l = k /\ l \in Nat
      BY <1>0, <1>1, <1>2, <1>3, <2>3
    <3>1a. y[k] = u[l]
      BY <1>4, <3>1
    <3> HIDE DEF l
    <3>2. CASE l < i
      <4>1. l \in 1..(i - 1) /\ k \in 1..((f + i) - 1) /\ l \in 1..Len(s)
        BY <1>0, <3>1, <3>2
      <4>2. x[k] = h[k] /\ h[f + l] = s[l] /\ u[l] = s[l]
        BY <1>1, <1>2, <1>3, <4>1
      <4>3. QED  BY <3>1, <3>1a, <4>2
    <3>3. CASE i <= l /\ l < i + n
      <4> DEFINE o == l - i + 1
      <4>1. o \in 1..n /\ i + o - 1 = l /\ (f + i) + o - 1 = k
        <5>1. i \in Nat /\ l \in Nat /\ n \in Nat /\ f \in Nat /\ f + l = k
          BY <1>0, <3>1
        <5>2. QED  BY <3>3, <5>1
      <4> HIDE DEF o
      <4>2. u[i + o - 1] = w[o] /\ x[(f + i) + o - 1] = w[o]
        BY <1>2, <1>3, <4>1
      <4>3. QED  BY <3>1a, <4>1, <4>2
    <3>4. CASE i + n <= l
      <4> DEFINE o == l - n + m
      <4>1. /\ o \in (i + m)..Len(s) /\ o - m + n = l /\ o \in 1..Len(s)
            /\ f + o \in ((f + i) + m)..Len(h) /\ (f + o) - m + n = k
        <5>1. /\ i \in Nat \ {0} /\ l \in Nat /\ n \in Nat /\ m \in Nat /\ f \in Nat /\ f + l = k
              /\ l <= Len(u) /\ Len(u) = Len(s) - m + n /\ Len(h) = f + Len(s) /\ Len(s) \in Nat
          BY <1>0, <1>1, <1>2, <3>1
        <5>2. QED  BY <3>4, <5>1
      <4> HIDE DEF o
      <4>2. u[o - m + n] = s[o]
        BY <1>2, <4>1
      <4>3. x[(f + o) - m + n] = h[f + o]
        BY <1>3, <4>1
      <4>4. h[f + o] = s[o]
        BY <1>1, <4>1
      <4>5. QED  BY <3>1a, <4>1, <4>2, <4>3, <4>4
    <3>5. QED  BY <1>0, <3>1, <3>2, <3>3, <3>4
  <2>4. QED  BY <1>0, <2>1, <2>2, <2>3
<1>7. x = y
  BY <1>3, <1>4, <1>5, <1>6, SeqEqual
<1>8. QED  BY <1>7 DEF x, y, h, f, u

-----------------------------------------------------------------------------
(* A code on its way. *)

\* The text is what is shown of the code, but for separators and capitals and,
\* once a word is misspelt, that word, which is pointed out in what is left of
\* the secret then.
Misspelt(s) ==
  /\ Clean(s) /\ s # <<>> /\ NormalizeText(text) = Hyphened(original.room, s)
  /\ Lint(Code(original.room, s)) = {[word |-> typo[1], suggestion |-> typo[2]]}

CodesInv ==
  /\ drawn \in BOOLEAN /\ text \in Seq(Chars)
  /\ drawn => original # Nothing
  /\ IsCode(original) => GoodCode(original)
  /\ IsCode(original) /\ drawn => MadeOf(original.secret)
  /\ IsCode(original) /\ typo = <<>> => NormalizeText(text) = Hyphened(original.room, original.secret)
  /\ typo # <<>> => IsCode(original) /\ \E s : Misspelt(s)
  /\ entered # Nothing => IsCode(original) /\ entered = ParseCode(text)

LEMMA RefusedIsNone ==
  /\ ~IsCode(Nothing)
  /\ \A e \in {"too few", "too many", "empty", "no secret", "short secret", "bad room"} :
       ~IsCode(Refused(e)) /\ Refused(e) # Nothing
  /\ \A r, s : IsCode(Code(r, s)) /\ Code(r, s) # Nothing /\ Code(r, s).room = r /\ Code(r, s).secret = s
<1>1. ~IsCode(Nothing) /\ Nothing.error = "none yet"
  BY DEF IsCode, Nothing
<1>2. ASSUME NEW e \in {"too few", "too many", "empty", "no secret", "short secret", "bad room"}
      PROVE  ~IsCode(Refused(e)) /\ Refused(e) # Nothing
  <2>1. Refused(e).error = e /\ e # "no" /\ e # "none yet"
    BY DEF Refused
  <2>2. QED  BY <1>1, <2>1 DEF IsCode
<1>3. ASSUME NEW r, NEW s
      PROVE  /\ IsCode(Code(r, s)) /\ Code(r, s) # Nothing
             /\ Code(r, s).room = r /\ Code(r, s).secret = s
  <2>1. Code(r, s).error = "no" /\ Code(r, s).room = r /\ Code(r, s).secret = s
    BY DEF Code
  <2>2. QED  BY <1>1, <2>1 DEF IsCode
<1>4. QED  BY <1>1, <1>2, <1>3

\* What is shown of a good code is read as it is.
LEMMA ShownIsRead ==
  ASSUME CodesAssumption, NEW c, GoodCode(c)
  PROVE  /\ c.room \in Seq(Signs) /\ c.secret \in Seq(Signs) /\ \A i \in 1..Len(c.room) : c.room[i] # "-"
         /\ Display(c) = Hyphened(c.room, c.secret)
         /\ Display(c) \in Seq(Chars) /\ NormalizeText(Display(c)) = Hyphened(c.room, c.secret)
<1>1. c.room # <<>>
  BY DEF GoodCode, ValidRoom
<1>2. /\ c.room \in Seq(Signs) /\ c.secret \in Seq(Signs) /\ \A i \in 1..Len(c.room) : c.room[i] # "-"
      /\ Clean(Hyphened(c.room, c.secret))
  BY <1>1, ShownIsClean DEF GoodCode
<1>3. Display(c) = Hyphened(c.room, c.secret)
  BY DEF Display, Hyphened
<1>4. QED  BY <1>2, <1>3, CleanIsRead

\* A text that is left as it was keeps what is known of it.
LEMMA TextReadsAlike ==
  ASSUME CodesAssumption, CodesInv, OnTheWay, OnlyText,
         text' \in Seq(Chars), NormalizeText(text') = NormalizeText(text)
  PROVE  CodesInv'
<1>1. /\ original' = original /\ drawn' = drawn /\ typo' = typo /\ entered' = entered /\ entered = Nothing
  BY DEF OnTheWay, OnlyText
<1>2. \A s : Misspelt(s) => Misspelt(s)'
  BY <1>1 DEF Misspelt
<1>3. QED  BY <1>1, <1>2 DEF CodesInv

LEMMA CapitalKeeps ==
  ASSUME CodesAssumption, CodesInv, NEW i \in 1..Len(text), WriteCapital(i)
  PROVE  CodesInv'
<1>1. text \in Seq(Chars) /\ text[i] \in Chars
  BY ElementOfSeq DEF CodesInv
<1>2. OnTheWay /\ OnlyText
  BY DEF WriteCapital
<1>3. PICK big \in DOMAIN Lowercase : Lowercase[big] = <<text[i]>> /\ Replace(i, <<big>>)
  BY DEF WriteCapital
<1>4. text' = SubSeq(text, 1, i - 1) \o <<big>> \o SubSeq(text, i + 1, Len(text))
  BY <1>3 DEF Replace
<1>5. <<big>> \in Seq(Chars) /\ \A s \in States : Absorbed(s, <<big>>) = Absorbed(s, <<text[i]>>)
  <2>1. <<big>> \in Seq(Chars)
    BY DEF Chars
  <2>2. QED  BY <1>1, <1>3, <2>1, CapitalReads
<1>6. text' \in Seq(Chars) /\ NormalizeText(text') = NormalizeText(text)
  BY <1>1, <1>4, <1>5, Replaced
<1>7. QED  BY <1>2, <1>6, TextReadsAlike

LEMMA SeparatorKeeps ==
  ASSUME CodesAssumption, CodesInv, NEW i \in 1..Len(text), WriteSeparator(i)
  PROVE  CodesInv'
<1>1. text \in Seq(Chars) /\ text[i] \in Separators
  BY DEF CodesInv, WriteSeparator
<1>2. OnTheWay /\ OnlyText
  BY DEF WriteSeparator
<1>3. PICK by : /\ Replace(i, by) /\ by \in Seq(Chars)
                /\ \A s \in States : Absorbed(s, by) = Absorbed(s, <<text[i]>>)
  <2>1. PICK p \in Separators : \/ Replace(i, <<p>>)
                                \/ \E r \in Separators : Replace(i, <<p, r>>)
    BY DEF WriteSeparator
  <2>2. CASE Replace(i, <<p>>)
    <3>1. <<p>> \in Seq(Chars) /\ \A s \in States : Absorbed(s, <<p>>) = Absorbed(s, <<text[i]>>)
      <4>1. <<p>> \in Seq(Chars)
        BY DEF Chars
      <4>2. QED  BY <1>1, <4>1, SeparatorsRead
    <3>2. QED  BY <2>2, <3>1
  <2>3. CASE \E r \in Separators : Replace(i, <<p, r>>)
    <3>1. PICK r \in Separators : Replace(i, <<p, r>>)
      BY <2>3
    <3>2. <<p, r>> \in Seq(Chars) /\ \A s \in States : Absorbed(s, <<p, r>>) = Absorbed(s, <<text[i]>>)
      <4>1. <<p, r>> \in Seq(Chars)
        BY DEF Chars
      <4>2. QED  BY <1>1, <4>1, SeparatorsRead
    <3>3. QED  BY <3>1, <3>2
  <2>4. QED  BY <2>1, <2>2, <2>3
<1>4. text' = SubSeq(text, 1, i - 1) \o by \o SubSeq(text, i + 1, Len(text))
  BY <1>3 DEF Replace
<1>5. text' \in Seq(Chars) /\ NormalizeText(text') = NormalizeText(text)
  BY <1>1, <1>3, <1>4, Replaced
<1>6. QED  BY <1>2, <1>5, TextReadsAlike

LEMMA SurroundKeeps ==
  ASSUME CodesAssumption, CodesInv, Surround
  PROVE  CodesInv'
<1>1. text \in Seq(Chars) /\ OnTheWay /\ OnlyText
  BY DEF CodesInv, Surround
<1>2. PICK s \in Separators : text' = <<s>> \o text \/ text' = Append(text, s)
  BY DEF Surround
<1>3. text' \in Seq(Chars) /\ NormalizeText(text') = NormalizeText(text)
  BY <1>1, <1>2, SurroundedReads
<1>4. QED  BY <1>1, <1>3, TextReadsAlike

\* A code that has just come to be is shown.
LEMMA ShownKeeps ==
  ASSUME CodesAssumption, CodesInv, original = Nothing, original' # Nothing, drawn' \in BOOLEAN,
         IsCode(original') => GoodCode(original'),
         IsCode(original') /\ drawn' => MadeOf(original'.secret),
         text' = IF IsCode(original') THEN Display(original') ELSE <<>>,
         typo' = typo, entered' = entered
  PROVE  CodesInv'
<1>1. typo' = <<>> /\ entered' = Nothing
  BY RefusedIsNone DEF CodesInv
<1>2. text' \in Seq(Chars)
  <2>1. CASE IsCode(original')
    BY <2>1, ShownIsRead
  <2>2. CASE ~IsCode(original')
    BY <2>2
  <2>3. QED  BY <2>1, <2>2
<1>3. IsCode(original') => NormalizeText(text') = Hyphened(original'.room, original'.secret)
  BY ShownIsRead
<1>4. QED  BY <1>1, <1>2, <1>3 DEF CodesInv

LEMMA GenerateKeeps ==
  ASSUME CodesAssumption, CodesInv, Generate
  PROVE  CodesInv'
<1>1. PICK n \in (FewestWords - 1)..(MostWords + 1) :
        IF n < FewestWords THEN original' = Refused("too few")
        ELSE IF n > MostWords THEN original' = Refused("too many")
        ELSE \E ws \in [1..n -> Range(Words)] : \E room \in Rooms : original' = Code(room, Join(ws))
  BY DEF Generate
<1>2. original = Nothing /\ drawn' = TRUE /\ typo' = typo /\ entered' = entered
      /\ text' = IF IsCode(original') THEN Display(original') ELSE <<>>
  BY DEF Generate
<1>3. CASE original' = Refused("too few") \/ original' = Refused("too many")
  <2>1. ~IsCode(original') /\ original' # Nothing
    BY <1>3, RefusedIsNone
  <2>2. QED  BY <1>2, <2>1, ShownKeeps
<1>4. CASE /\ n >= FewestWords
           /\ \E ws \in [1..n -> Range(Words)] : \E room \in Rooms : original' = Code(room, Join(ws))
  <2>1. PICK ws \in [1..n -> Range(Words)], room \in Rooms : original' = Code(room, Join(ws))
    BY <1>4
  <2>2. n \in Nat \ {0} /\ FewestWords \in Nat /\ UniquePrefix \in Nat /\ MinSecretChars \in Nat
        /\ FewestWords * UniquePrefix >= MinSecretChars
    BY <1>4 DEF CodesAssumption
  <2> DEFINE s == Join(ws)
  <2>3. Secret(s, n)
    BY <2>2, JoinIsSecret
  <2> HIDE DEF s
  <2>4. n * UniquePrefix >= FewestWords * UniquePrefix
    <3> DEFINE d == n - FewestWords
    <3>1. d \in Nat /\ n = FewestWords + d
      BY <1>4, <2>2
    <3> HIDE DEF d
    <3>2. (FewestWords + d) * UniquePrefix = FewestWords * UniquePrefix + d * UniquePrefix
      BY <2>2, <3>1
    <3>3. d * UniquePrefix \in Nat /\ FewestWords * UniquePrefix \in Nat
      BY <2>2, <3>1
    <3>4. QED  BY <3>1, <3>2, <3>3
  <2>5. ~(Cardinality(Letters(s)) < MinSecretChars)
    <3> DEFINE a == n * UniquePrefix
               b == FewestWords * UniquePrefix
    <3>1. a \in Nat /\ b \in Nat /\ a >= b /\ b >= MinSecretChars /\ Cardinality(Letters(s)) >= a
      BY <2>2, <2>3, <2>4 DEF Secret
    <3>2. Cardinality(Letters(s)) \in Nat
      BY <2>3, FS_CardinalityType DEF Secret
    <3> HIDE DEF a, b
    <3>3. QED  BY <2>2, <3>1, <3>2
  <2>6. room \in Seq(Range(Alphabet)) /\ ValidRoom(room)
    BY DEF CodesAssumption
  <2>7. original' = Code(room, s) /\ IsCode(original') /\ original' # Nothing /\ original'.room = room /\ original'.secret = s
    BY <2>1, RefusedIsNone DEF s
  <2>8. GoodCode(original') /\ MadeOf(original'.secret)
    BY <2>3, <2>5, <2>6, <2>7 DEF GoodCode, Secret
  <2>9. QED  BY <1>2, <2>7, <2>8, ShownKeeps
<1>5. n < FewestWords \/ n >= FewestWords
  BY DEF CodesAssumption
<1>6. QED  BY <1>1, <1>3, <1>4, <1>5, Zenon

LEMMA ChooseKeeps ==
  ASSUME CodesAssumption, CodesInv, Choose
  PROVE  CodesInv'
<1>1. /\ original = Nothing /\ drawn' = drawn /\ typo' = typo /\ entered' = entered
      /\ text' = IF IsCode(original') THEN Display(original') ELSE <<>>
  BY DEF Choose
<1>2. PICK t \in Chosen : original' = ParseCode(t)
  BY DEF Choose
<1>3. t \in Seq(Chars)
  BY DEF CodesAssumption, Chars
<1>4. ~drawn' /\ drawn' \in BOOLEAN
  BY <1>1 DEF CodesInv
<1>5. IsCode(original') => GoodCode(original')
  BY <1>2, <1>3, ParsedIsGood
<1>6. original' # Nothing
  BY <1>2, RefusedIsNone DEF ParseCode
<1>7. QED  BY <1>1, <1>4, <1>5, <1>6, ShownKeeps

LEMMA MisspellKeeps ==
  ASSUME CodesAssumption, CodesInv, Misspell
  PROVE  CodesInv'
<1> DEFINE s == original.secret
           a == original.room
<1>1. /\ IsCode(original) /\ entered = Nothing /\ drawn /\ typo = <<>> /\ text = Display(original)
      /\ original' = original /\ drawn' = drawn /\ entered' = entered
  BY DEF Misspell, OnTheWay
<1>2. PICK i \in Starts(s) :
        \E k \in (UniquePrefix + 1)..Len(WordAt(s, i)) : \E by \in {<<>>} \cup {<<c>> : c \in Range(Alphabet)} :
          LET word == WordAt(s, i)
              at == Len(a) + 1 + i
              wrong == SubSeq(word, 1, k - 1) \o by \o SubSeq(word, k + 1, Len(word))
          IN  /\ wrong # word
              /\ typo' = <<wrong, word>>
              /\ text' = SubSeq(text, 1, at - 1) \o wrong \o SubSeq(text, at + Len(word), Len(text))
  BY DEF Misspell
<1> DEFINE word == WordAt(s, i)
           m == Len(word)
<1>3. PICK k \in (UniquePrefix + 1)..m, by \in {<<>>} \cup {<<c>> : c \in Range(Alphabet)} :
        /\ Spliced(word, k, 1, by) # word
        /\ typo' = <<Spliced(word, k, 1, by), word>>
        /\ text' = Spliced(text, Len(a) + 1 + i, m, Spliced(word, k, 1, by))
  BY <1>2 DEF Spliced
<1> DEFINE wrong == Spliced(word, k, 1, by)
           u == Spliced(s, i, m, wrong)
<1>4. GoodCode(original) /\ MadeOf(s) /\ Clean(s) /\ s # <<>> /\ s \in Seq(Signs) /\ a \in Seq(Signs) /\ a # <<>>
      /\ a \in Seq(Range(Alphabet)) /\ text = Hyphened(a, s)
  <2>1. GoodCode(original) /\ MadeOf(s)
    BY <1>1 DEF CodesInv
  <2>2. Clean(s) /\ s # <<>> /\ a # <<>> /\ a \in Seq(Range(Alphabet))
    BY <2>1 DEF GoodCode, ValidRoom
  <2>3. s \in Seq(Signs) /\ a \in Seq(Signs) /\ text = Hyphened(a, s)
    BY <1>1, <2>1, ShownIsRead
  <2>4. QED  BY <2>1, <2>2, <2>3
<1> HIDE DEF s, a
<1>5. UniquePrefix \in Nat \ {0} /\ "-" \notin Small /\ Range(Alphabet) \subseteq Small
  BY NoHyphen DEF CodesAssumption, Small
<1>6. PICK at \in 1..Len(Words) : word = Words[at]
  <2>0. \E x \in Range(Words) : Fits(s, i, x)
    BY <1>4 DEF MadeOf
  <2>1. word \in Range(Words)
    BY <1>4, <2>0, WordFits
  <2>2. DOMAIN Words = 1..Len(Words)
    <3>1. Words \in Seq(Seq(Range(Alphabet)))
      BY DEF CodesAssumption
    <3>2. QED  BY <3>1, LenProperties
  <2>3. QED  BY <2>1, <2>2 DEF Range
<1>6a. Fits(s, i, word)
  <2>1. PICK x \in Range(Words) : Fits(s, i, x)
    BY <1>4 DEF MadeOf
  <2>2. word = x
    BY <1>4, <2>1, WordFits
  <2>3. QED  BY <2>1, <2>2
<1> HIDE DEF word
<1>7. word \in Seq(Range(Alphabet)) /\ m \in Nat
  BY <1>6, LenProperties, WordIs
<1> HIDE DEF m
<1>8. by \in Seq(Range(Alphabet)) /\ Len(by) \in {0, 1}
  <2>1. CASE by = <<>>
    BY <2>1
  <2>2. ASSUME NEW c \in Range(Alphabet), by = <<c>>
        PROVE  by \in Seq(Range(Alphabet)) /\ Len(by) \in {0, 1}
    BY <2>2, Single
  <2>3. QED  BY <2>1, <2>2
<1>9. /\ wrong \in Seq(Range(Alphabet)) /\ Len(wrong) = m - 1 + Len(by)
      /\ \A l \in 1..(k - 1) : wrong[l] = word[l]
  <2>1. k \in 1..Len(word) /\ 1 \in Nat /\ k + 1 <= Len(word) + 1
    BY <1>5, <1>7 DEF m
  <2>2. IsSpliced(Range(Alphabet), wrong, word, k, 1, by)
    BY <1>7, <1>8, <2>1, SplicedIs
  <2>3. QED  BY <2>2 DEF IsSpliced, m
<1> HIDE DEF wrong
<1>10. wrong # word /\ typo' = <<wrong, word>> /\ text' = Spliced(text, Len(a) + 1 + i, m, wrong)
  BY <1>3 DEF wrong
<1>11. Suggest(wrong) = word /\ wrong \notin Range(Words)
  <2>1. \A l \in 1..UniquePrefix : wrong[l] = Words[at][l]
    BY <1>5, <1>6, <1>7, <1>9
  <2>2. /\ Len(wrong) >= UniquePrefix
        /\ Len(wrong) <= Len(Words[at]) + 2 /\ Len(Words[at]) <= Len(wrong) + 2
    <3> DEFINE b == Len(by)
    <3>1. Len(Words[at]) = m
      BY <1>6 DEF m
    <3>2. b \in {0, 1} /\ Len(wrong) = m - 1 + b
      BY <1>8, <1>9
    <3>3. m >= UniquePrefix + 1
      BY <1>5, <1>7
    <3> HIDE DEF b
    <3>4. QED  BY <1>5, <1>7, <3>1, <3>2, <3>3
  <2>3. QED  BY <1>6, <1>9, <1>10, <2>1, <2>2, SuggestedIsRight
<1>12. wrong \in Seq(Small) /\ wrong \in Seq(Signs) /\ wrong # <<>>
  <2>1. wrong \in Seq(Small)
    BY <1>5, <1>9
  <2>2. Len(wrong) # 0
    BY <1>5, <1>7, <1>8, <1>9
  <2>3. QED  BY <2>1, <2>2, SmallSigns
<1>13. Clean(u) /\ u # <<>> /\ WordsOf(u) \ Range(Words) = {wrong}
  <2>1. Clean(u) /\ u # <<>> /\ wrong \in WordsOf(u) /\ WordsOf(u) \subseteq Range(Words) \cup {wrong}
    BY <1>4, <1>12, OtherWordsStay DEF word, m
  <2>2. QED  BY <1>11, <2>1
<1>14. text' = Hyphened(a, u)
  <2>1. i \in 1..Len(s) /\ i + m <= Len(s) + 1
    BY <1>6a DEF Fits, m
  <2>2. QED  BY <1>4, <1>7, <1>10, <1>12, <2>1, SplicedBehind
<1> HIDE DEF u
<1>15. NormalizeText(text') = Hyphened(a, u) /\ text' \in Seq(Chars)
  <2>1. Clean(Hyphened(a, u))
    BY <1>4, <1>13, ShownIsClean
  <2>2. QED  BY <1>14, <2>1, CleanIsRead
<1>16. Lint(Code(a, u)) = {[word |-> wrong, suggestion |-> word]}
  <2>1. Code(a, u).secret = u
    BY RefusedIsNone
  <2>2. Lint(Code(a, u)) = {[word |-> w, suggestion |-> Suggest(w)] : w \in {wrong}}
    BY <1>13, <2>1 DEF Lint
  <2>3. QED  BY <1>11, <2>2
<1>17. (\E x : Misspelt(x))'
  <2>1. PICK x : x = u
    OBVIOUS
  <2>2. typo'[1] = wrong /\ typo'[2] = word /\ original'.room = a
    BY <1>1, <1>10 DEF a
  <2>3. /\ Clean(x) /\ x # <<>> /\ NormalizeText(text') = Hyphened(original'.room, x)
        /\ Lint(Code(original'.room, x)) = {[word |-> typo'[1], suggestion |-> typo'[2]]}
    BY <1>13, <1>15, <1>16, <2>1, <2>2
  <2>4. QED  BY <2>3 DEF Misspelt
<1>18. typo' # <<>>
  BY <1>10
<1>19. QED  BY <1>1, <1>4, <1>15, <1>17, <1>18 DEF CodesInv, s

LEMMA EnterKeeps ==
  ASSUME CodesAssumption, CodesInv, Enter
  PROVE  CodesInv'
<1>1. /\ IsCode(original) /\ entered' = ParseCode(text)
      /\ original' = original /\ drawn' = drawn /\ text' = text /\ typo' = typo
  BY DEF Enter
<1>2. \A s : Misspelt(s) => Misspelt(s)'
  BY <1>1 DEF Misspelt
<1>3. QED  BY <1>1, <1>2 DEF CodesInv

LEMMA CodesInvHolds ==
  ASSUME CodesAssumption
  PROVE  CodesSpec => []CodesInv
<1>1. CodesInit => CodesInv
  <2>1. SUFFICES ASSUME CodesInit PROVE CodesInv
    OBVIOUS
  <2>2. /\ original = Nothing /\ drawn = FALSE /\ text = <<>> /\ typo = <<>> /\ entered = Nothing
    BY <2>1 DEF CodesInit
  <2>3. ~IsCode(original)
    BY <2>2, RefusedIsNone
  <2>3a. text \in Seq(Chars)
    BY <2>2
  <2>4. QED  BY <2>2, <2>3, <2>3a DEF CodesInv
<1>2. ASSUME CodesInv, [CodesNext]_codesVars
      PROVE  CodesInv'
  <2>1. CASE Generate
    BY <1>2, <2>1, GenerateKeeps
  <2>2. CASE Choose
    BY <1>2, <2>2, ChooseKeeps
  <2>3. CASE Surround
    BY <1>2, <2>3, SurroundKeeps
  <2>4. CASE Misspell
    BY <1>2, <2>4, MisspellKeeps
  <2>5. CASE Enter
    BY <1>2, <2>5, EnterKeeps
  <2>6. CASE \E i \in 1..Len(text) : WriteCapital(i) \/ WriteSeparator(i)
    BY <1>2, <2>6, CapitalKeeps, SeparatorKeeps
  <2>7. CASE UNCHANGED codesVars
    <3>1. /\ original' = original /\ drawn' = drawn /\ text' = text /\ typo' = typo /\ entered' = entered
      BY <2>7 DEF codesVars
    <3>2. \A s : Misspelt(s) => Misspelt(s)'
      BY <3>1 DEF Misspelt
    <3>3. QED  BY <1>2, <3>1, <3>2 DEF CodesInv
  <2>8. QED  BY <1>2, <2>1, <2>2, <2>3, <2>4, <2>5, <2>6, <2>7 DEF CodesNext
<1>3. QED  BY <1>1, <1>2, PTL DEF CodesSpec

\* The code that is entered, if what was shown is written as its halves.
LEMMA EnteredIs ==
  ASSUME CodesAssumption, CodesInv, IsCode(original), NEW s, Clean(s), s # <<>>,
         NormalizeText(text) = Hyphened(original.room, s)
  PROVE  ParseCode(text) = IF Cardinality(Letters(s)) < MinSecretChars THEN Refused("short secret")
                       ELSE Code(original.room, s)
<1>1. GoodCode(original) /\ s \in Seq(Signs)
  BY DEF CodesInv, Clean
<1>2. original.room \in Seq(Signs) /\ (\A i \in 1..Len(original.room) : original.room[i] # "-") /\ ValidRoom(original.room)
  BY <1>1, ShownIsRead DEF GoodCode
<1>3. QED  BY <1>1, <1>2, ParsedHalves

\* However a code is written and typed, generated or chosen, both sides have the
\* same one, and of a generated one no word is pointed out.  (mod.rs 148-171,
\* 211-226, 262-280)
THEOREM RetypedCodesAreTheSame == ASSUME CodesAssumption PROVE CodesSpec => []RetypedIsSame
<1>1. CodesInv => RetypedIsSame
  <2>1. SUFFICES ASSUME CodesInv, entered # Nothing, typo = <<>>
                 PROVE  entered = original /\ (drawn => Lint(entered) = {})
    BY DEF RetypedIsSame
  <2>2. IsCode(original) /\ GoodCode(original) /\ entered = ParseCode(text)
        /\ NormalizeText(text) = Hyphened(original.room, original.secret)
    BY <2>1 DEF CodesInv
  <2>3. /\ Clean(original.secret) /\ original.secret # <<>> /\ original.secret \in Seq(Signs)
        /\ ~(Cardinality(Letters(original.secret)) < MinSecretChars)
        /\ original = Code(original.room, original.secret)
    BY <2>2 DEF GoodCode, Clean
  <2>4. entered = original
    BY <2>1, <2>2, <2>3, EnteredIs
  <2>5. ASSUME drawn
        PROVE  Lint(entered) = {}
    <3>1. MadeOf(original.secret)
      BY <2>1, <2>2, <2>5 DEF CodesInv
    <3>2. WordsOf(original.secret) \ Range(Words) = {}
      BY <2>3, <3>1, WordsAreMade
    <3>3. QED  BY <2>4, <3>2 DEF Lint
  <2>6. QED  BY <2>4, <2>5
<1>2. QED  BY <1>1, CodesInvHolds, PTL

\* A word of a generated code that is misspelt behind its first letters is
\* pointed out with the one it was, and no other word is.  (mod.rs 211-226,
\* wordlist.rs 147-169)
THEOREM MisspeltWordsAreNamed == ASSUME CodesAssumption PROVE CodesSpec => []TyposAreNamed
<1>1. CodesInv => TyposAreNamed
  <2>1. SUFFICES ASSUME CodesInv, IsCode(entered), typo # <<>>
                 PROVE  Lint(entered) = {[word |-> typo[1], suggestion |-> typo[2]]}
    BY DEF TyposAreNamed
  <2>2. entered # Nothing
    BY <2>1, RefusedIsNone
  <2>3. IsCode(original) /\ entered = ParseCode(text) /\ \E s : Misspelt(s)
    BY <2>1, <2>2 DEF CodesInv
  <2>4. PICK s : Misspelt(s)
    BY <2>3
  <2>5. /\ Clean(s) /\ s # <<>> /\ NormalizeText(text) = Hyphened(original.room, s)
        /\ Lint(Code(original.room, s)) = {[word |-> typo[1], suggestion |-> typo[2]]}
    BY <2>4 DEF Misspelt
  <2>6. entered = Code(original.room, s)
    BY <2>1, <2>3, <2>5, EnteredIs, RefusedIsNone
  <2>7. QED  BY <2>5, <2>6
<1>2. QED  BY <1>1, CodesInvHolds, PTL
=============================================================================
