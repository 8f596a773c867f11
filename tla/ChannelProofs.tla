--------------------------- MODULE ChannelProofs ---------------------------
(***************************************************************************)
(* Proofs about the secure channel.  Handshake first, for all builds and   *)
(* codes: an established channel is shared by two ends that agree on       *)
(* everything, errors name their cause, and no handshake stands still with *)
(* both ends waiting.                                                      *)
(*                                                                         *)
(* Then FrameCipher, for counters, limits and capabilities of any size.    *)
(* FramesInv says how the nonces of what was written grow, with no more    *)
(* gaps than frames were sealed for nothing; OpeningInv that an opening    *)
(* key has opened all it examined until it is poisoned; LimitsInv that     *)
(* frames respect the agreed limit before their reader enforces it;        *)
(* HonestInv what an undisturbed wire adds to these.                       *)
(***************************************************************************)
EXTENDS Handshake, FrameCipher, TLAPS

Roles == {"sender", "receiver"}
\* The errors that only a stranger causes.
Foul == {"BadMagic", "FrameTooLarge", "Unexpected", "Pake"}
Errors == {"IncompatibleVersion", "Malformed", "KeyMismatch"} \cup Foul \cup Lost
Live == {"start", "done"} \cup Reading

Hellos == [min : Nat, max : Nat, role : Roles \cup {"none"}]
Elements == [side : Roles \cup {"none"}, of : Ends \cup {"none"}]
IsSequence(s) == \E S : s \in Seq(S)

ValuesOK ==
  /\ build \in [Ends -> Builds] /\ role \in [Ends -> Roles] /\ codeOf \in [Ends -> GivenCodes]
  /\ foreign \subseteq Ends
  /\ step \in [Ends -> Live \cup Errors]
  /\ DOMAIN wire = Ends /\ wire = [e \in Ends |-> wire[e]] /\ \A e \in Ends : IsSequence(wire[e])
  /\ version \in [Ends -> Nat]
  /\ heard \in [Ends -> [hello : Hellos, pake : Elements]]

\* What an end has heard tells how far it came, also after it has failed.
Greeted(e) == heard[e].hello # Unheard.hello
Told(e) == heard[e].pake # Unheard.pake

HeardInv(e) ==
  /\ e \in foreign => step[e] = "start"
  /\ step[e] \in {"start", "magic", "hello"} => ~Greeted(e)
  /\ step[e] \in {"start", "magic", "hello", "pake"} => ~Told(e)
  /\ step[e] \in {"pake"} => Greeted(e)
  /\ step[e] \in {"confirm", "done", "KeyMismatch"} => Told(e)
  /\ Greeted(e) /\ PeerOf(e) \notin foreign =>
       /\ role[PeerOf(e)] = Opposite(role[e])
       /\ heard[e].hello = LocalHello(PeerOf(e))
       /\ SharesVersion(e, LocalHello(PeerOf(e)))
       /\ version[e] = ChosenVersion(e, LocalHello(PeerOf(e)))
  /\ Told(e) => Greeted(e)
  /\ Told(e) /\ PeerOf(e) \notin foreign =>
       /\ heard[e].pake = Element(PeerOf(e))
       /\ step[e] \in {"confirm", "done", "KeyMismatch"} \cup Lost

\* What a stranger says is of the right shape, but no tag that its peer expects.
StrangeWord(e, m) ==
  /\ m.kind = "hello" => m.body \in [min : Nat, max : Nat, role : Roles]
  /\ m.kind = "pake" => m.body \in Elements /\ m.body.of # "none"
  /\ m.kind = "confirm" => m.body = Forgery \/ m.body.key.info[3] = role[PeerOf(e)]

\* What an end of rusp says is what it is.
OwnWord(e, m) ==
  /\ m.kind = "hello" => m.body = LocalHello(e)
  /\ m.kind = "pake" => m.body = Element(e)
  /\ m.kind = "confirm" => Told(e) /\ m.body = ConfirmTag(e)

WireInv(e) == \A i \in 1..Len(wire[e]) :
  IF e \in foreign THEN StrangeWord(e, wire[e][i]) ELSE OwnWord(e, wire[e][i])

Word(n) == IF n = 1 THEN "magic" ELSE IF n = 2 THEN "hello" ELSE IF n = 3 THEN "pake"
           ELSE IF n = 4 THEN "confirm" ELSE "none"
Read(at) == IF at = "hello" THEN 1 ELSE IF at = "pake" THEN 2 ELSE IF at = "confirm" THEN 3
            ELSE IF at = "done" THEN 4 ELSE 0
SaidBy(at) == IF at = "start" THEN 0 ELSE IF at = "magic" THEN 1 ELSE IF at = "hello" THEN 2
               ELSE IF at = "pake" THEN 3 ELSE 4

\* Messages come in their order: the next one is the one that the peer waits for.
OrderInv(e) == e \notin foreign /\ step[PeerOf(e)] \in Live =>
  /\ \A i \in 1..Len(wire[e]) : wire[e][i].kind = Word(Read(step[PeerOf(e)]) + i)
  /\ step[e] \in Live => Len(wire[e]) = SaidBy(step[e]) - Read(step[PeerOf(e)])

\* How an end may have finished.
EndInv(e) ==
  /\ step[e] = "done" =>
       PeerOf(e) \notin foreign /\ Told(PeerOf(e)) /\ codeOf[e] = codeOf[PeerOf(e)]
  /\ PeerOf(e) \notin foreign =>
       /\ step[e] = "KeyMismatch" => codeOf[e] # codeOf[PeerOf(e)]
       /\ step[e] = "IncompatibleVersion" => ~Overlap
       /\ step[e] = "Malformed" => role["a"] = role["b"]
       /\ step[e] \notin Foul

Good(e) == HeardInv(e) /\ WireInv(e) /\ OrderInv(e) /\ EndInv(e)

AgreementInv == ValuesOK /\ \A e \in Ends : Good(e)

-----------------------------------------------------------------------------
LEMMA Peers ==
  ASSUME NEW e \in Ends
  PROVE  /\ PeerOf(e) \in Ends /\ PeerOf(e) # e /\ PeerOf(PeerOf(e)) = e
         /\ \A x \in Ends : x = e \/ x = PeerOf(e)
         /\ {e, PeerOf(e)} = {"a", "b"}
BY DEF Ends, PeerOf

LEMMA AppendFacts ==
  ASSUME NEW s, IsSequence(s), NEW m
  PROVE  /\ IsSequence(Append(s, m)) /\ Len(s) \in Nat /\ Len(Append(s, m)) = Len(s) + 1
         /\ \A i \in 1..Len(s) : Append(s, m)[i] = s[i]
         /\ Append(s, m)[Len(s) + 1] = m
<1>1. PICK S : s \in Seq(S)
  BY DEF IsSequence
<1>2. s \in Seq(S \cup {m}) /\ m \in S \cup {m}
  BY <1>1
<1> DEFINE T == S \cup {m}
<1> HIDE DEF T
<1>3. s \in Seq(T) /\ m \in T
  BY <1>2 DEF T
<1>4. Append(s, m) \in Seq(T)
  BY <1>3
<1>5. QED
  BY <1>3, <1>4 DEF IsSequence

LEMMA TailFacts ==
  ASSUME NEW s, IsSequence(s), s # <<>>
  PROVE  /\ IsSequence(Tail(s)) /\ Len(s) \in Nat /\ Len(s) >= 1 /\ Head(s) = s[1]
         /\ Len(Tail(s)) = Len(s) - 1
         /\ \A i \in 1..Len(Tail(s)) : Tail(s)[i] = s[i + 1] /\ i + 1 \in 1..Len(s)
<1>1. PICK S : s \in Seq(S)
  BY DEF IsSequence
<1>2. Tail(s) \in Seq(S)
  BY <1>1
<1>3. QED
  BY <1>1, <1>2 DEF IsSequence

LEMMA Typed ==
  ASSUME HandshakeAssumption, ValuesOK, NEW e \in Ends
  PROVE  /\ build[e].min \in Nat /\ build[e].max \in Nat /\ role[e] \in Roles
         /\ LocalHello(e) \in Hellos /\ LocalHello(e) # Unheard.hello
         /\ Element(e) \in Elements /\ Element(e) # Unheard.pake
         /\ Opposite(Opposite(role[e])) = role[e] /\ Opposite(role[e]) # role[e]
<1>1. build[e] \in [min : Nat, max : Nat] /\ role[e] \in Roles
  BY DEF HandshakeAssumption, ValuesOK
<1>2. LocalHello(e) \in Hellos /\ LocalHello(e) # Unheard.hello
  BY <1>1 DEF LocalHello, Hellos, Unheard, Roles
<1>3. Element(e) \in Elements /\ Element(e) # Unheard.pake
  BY <1>1 DEF Element, Elements, Unheard, Roles, Ends
<1>4. QED
  BY <1>1, <1>2, <1>3 DEF Opposite, Roles

\* Two ends that have both heard all have one transcript, and accept each
\* other's tag exactly if they have the same code.
LEMMA TagsMatch ==
  ASSUME HandshakeAssumption, ValuesOK, NEW e \in Ends, HeardInv(e), HeardInv(PeerOf(e)),
         Told(e), Told(PeerOf(e)), foreign = {}
  PROVE  /\ Transcript(e) = Transcript(PeerOf(e)) /\ version[e] = version[PeerOf(e)]
         /\ role[PeerOf(e)] = Opposite(role[e])
         /\ (ConfirmTag(PeerOf(e)) = ExpectedTag(e)) <=> (codeOf[e] = codeOf[PeerOf(e)])
         /\ codeOf[e] = codeOf[PeerOf(e)] => PakeOutput(e) = PakeOutput(PeerOf(e))
<1> DEFINE p == PeerOf(e)
<1>1. p \in Ends /\ PeerOf(p) = e
  BY Peers
<1>2. /\ role[e] \in Roles /\ role[p] = Opposite(role[e]) /\ role[e] = Opposite(role[p])
      /\ heard[e].hello = LocalHello(p) /\ heard[p].hello = LocalHello(e)
      /\ heard[e].pake = Element(p) /\ heard[p].pake = Element(e)
      /\ version[e] = ChosenVersion(e, LocalHello(p)) /\ version[p] = ChosenVersion(p, LocalHello(e))
  BY <1>1, Typed DEF HeardInv
<1>3. version[e] = version[p]
  <2>1. build[e].max \in Nat /\ build[p].max \in Nat
    BY <1>1, Typed
  <2>2. version[e] = Least(build[e].max, build[p].max) /\ version[p] = Least(build[p].max, build[e].max)
    BY <1>2 DEF ChosenVersion, LocalHello
  <2>3. QED
    BY <2>1, <2>2 DEF Least
<1> HIDE DEF p
<1>4. Transcript(e) = Transcript(p)
  <2>1. /\ Ordered(e, LocalHello(e), LocalHello(p)) = Ordered(p, LocalHello(p), LocalHello(e))
        /\ Ordered(e, Element(e), Element(p)) = Ordered(p, Element(p), Element(e))
    BY <1>2 DEF Ordered, Opposite, Roles
  <2>2. QED
    BY <1>2, <1>3, <2>1 DEF Transcript
<1>5. codeOf[e] = codeOf[p] => PakeOutput(e) = PakeOutput(p)
  BY <1>2 DEF PakeOutput
<1>6. codeOf[e] = codeOf[p] => ConfirmTag(p) = ExpectedTag(e)
  BY <1>2, <1>3, <1>4, <1>5 DEF ConfirmTag, ExpectedTag, Key
<1>7. ConfirmTag(p) = ExpectedTag(e) => codeOf[e] = codeOf[p]
  <2>1. ConfirmTag(p) = ExpectedTag(e) => PakeOutput(p) = PakeOutput(e)
    BY DEF ConfirmTag, ExpectedTag, Key
  <2>2. PakeOutput(p) = PakeOutput(e) => codeOf[p] = codeOf[e]
    BY DEF PakeOutput
  <2>3. QED
    BY <2>1, <2>2
<1>8. QED
  BY <1>2, <1>3, <1>4, <1>5, <1>6, <1>7 DEF p

-----------------------------------------------------------------------------
(* What each conjunct needs of a step. *)

LEMMA HeardStays ==
  ASSUME NEW x \in Ends, UNCHANGED Setup, HeardInv(x),
         step'[x] = step[x], heard'[x] = heard[x], version'[x] = version[x]
  PROVE  HeardInv(x)' /\ (Told(x) => Told(x)')
<1>1. UNCHANGED <<build, role, codeOf, foreign>>
  BY DEF Setup
<1>2. LocalHello(PeerOf(x))' = LocalHello(PeerOf(x)) /\ Element(PeerOf(x))' = Element(PeerOf(x))
  BY <1>1 DEF LocalHello, Element
<1>3. ChosenVersion(x, LocalHello(PeerOf(x)))' = ChosenVersion(x, LocalHello(PeerOf(x)))
  BY <1>1, <1>2 DEF ChosenVersion
<1>4. SharesVersion(x, LocalHello(PeerOf(x)))' = SharesVersion(x, LocalHello(PeerOf(x)))
  BY <1>1, <1>2, <1>3 DEF SharesVersion
<1>5. Greeted(x)' = Greeted(x) /\ Told(x)' = Told(x)
  BY DEF Greeted, Told
<1>6. QED
  BY <1>1, <1>2, <1>3, <1>4, <1>5 DEF HeardInv

LEMMA WireStays ==
  ASSUME NEW x \in Ends, UNCHANGED Setup, WireInv(x), IsSequence(wire[x]),
         heard'[x] = heard[x], version'[x] = version[x],
         wire'[x] = wire[x] \/ (wire[x] # <<>> /\ wire'[x] = Tail(wire[x]))
  PROVE  WireInv(x)'
<1>1. UNCHANGED <<build, role, codeOf, foreign>>
  BY DEF Setup
<1>2. /\ LocalHello(x)' = LocalHello(x) /\ Element(x)' = Element(x)
      /\ Told(x)' = Told(x) /\ ConfirmTag(x)' = ConfirmTag(x)
  BY <1>1 DEF LocalHello, Element, Told, ConfirmTag, Key, PakeOutput, Transcript, Ordered
<1>3. \A i \in 1..Len(wire'[x]) : \E j \in 1..Len(wire[x]) : wire'[x][i] = wire[x][j]
  <2>1. CASE wire'[x] = wire[x]
    BY <2>1
  <2>2. CASE wire[x] # <<>> /\ wire'[x] = Tail(wire[x])
    <3>1. \A i \in 1..Len(Tail(wire[x])) :
             Tail(wire[x])[i] = wire[x][i + 1] /\ i + 1 \in 1..Len(wire[x])
      BY <2>2, TailFacts
    <3>2. QED
      BY <2>2, <3>1
  <2>3. QED
    BY <2>1, <2>2
<1>4. QED
  BY <1>1, <1>2, <1>3 DEF WireInv, StrangeWord, OwnWord

LEMMA WireGrows ==
  ASSUME NEW x \in Ends, UNCHANGED Setup, WireInv(x), IsSequence(wire[x]), NEW m,
         wire'[x] = Append(wire[x], m), ~Told(x),
         IF x \in foreign THEN StrangeWord(x, m)
         ELSE /\ m.kind = "hello" => m.body = LocalHello(x)
              /\ m.kind = "pake" => m.body = Element(x)
              /\ m.kind = "confirm" => Told(x)' /\ m.body = ConfirmTag(x)'
  PROVE  WireInv(x)'
<1>1. UNCHANGED <<build, role, codeOf, foreign>>
  BY DEF Setup
<1>2. LocalHello(x)' = LocalHello(x) /\ Element(x)' = Element(x)
  BY <1>1 DEF LocalHello, Element
<1>3. \A i \in 1..Len(wire'[x]) : wire'[x][i] = m \/ \E j \in 1..Len(wire[x]) : wire'[x][i] = wire[x][j]
  BY AppendFacts
<1>4. QED
  BY <1>1, <1>2, <1>3 DEF WireInv, StrangeWord, OwnWord

LEMMA OrderStays ==
  ASSUME NEW x \in Ends, UNCHANGED Setup, OrderInv(x), wire'[x] = wire[x],
         step'[PeerOf(x)] \in Live => step'[PeerOf(x)] = step[PeerOf(x)],
         step'[x] \in Live => step[x] \in Live /\ SaidBy(step'[x]) = SaidBy(step[x])
  PROVE  OrderInv(x)'
BY DEF OrderInv, Setup

LEMMA OrderShrinks ==
  ASSUME NEW x \in Ends, UNCHANGED Setup, OrderInv(x), IsSequence(wire[x]), wire[x] # <<>>,
         wire'[x] = Tail(wire[x]), step'[x] = step[x],
         step[PeerOf(x)] \in Live, Read(step'[PeerOf(x)]) = Read(step[PeerOf(x)]) + 1
  PROVE  OrderInv(x)'
<1> DEFINE n == Read(step[PeerOf(x)])
<1>1. n \in Nat /\ (step[x] \in Live => SaidBy(step[x]) \in Nat)
  BY DEF Read, SaidBy
<1>2. CASE x \in foreign
  BY <1>2 DEF OrderInv, Setup
<1>3. CASE x \notin foreign
  <2>1. /\ \A i \in 1..Len(wire[x]) : wire[x][i].kind = Word(n + i)
        /\ step[x] \in Live => Len(wire[x]) = SaidBy(step[x]) - n
    BY <1>3 DEF OrderInv
  <2> HIDE DEF n
  <2>2. \A i \in 1..Len(wire'[x]) : wire'[x][i].kind = Word((n + 1) + i)
    <3>1. TAKE i \in 1..Len(wire'[x])
    <3>2. wire'[x][i] = wire[x][i + 1] /\ i + 1 \in 1..Len(wire[x]) /\ i \in Nat
      BY TailFacts
    <3>3. n + (i + 1) = (n + 1) + i
      BY <1>1, <3>2
    <3>4. QED
      BY <2>1, <3>2, <3>3
  <2>3. step'[x] \in Live => Len(wire'[x]) = SaidBy(step'[x]) - (n + 1)
    BY <1>1, <2>1, TailFacts
  <2>4. Read(step'[PeerOf(x)]) = n + 1
    BY DEF n
  <2>5. QED
    BY <2>2, <2>3, <2>4 DEF OrderInv
<1>4. QED
  BY <1>2, <1>3

LEMMA OrderGrows ==
  ASSUME NEW x \in Ends, UNCHANGED Setup, OrderInv(x), IsSequence(wire[x]), NEW m,
         wire'[x] = Append(wire[x], m), step'[PeerOf(x)] = step[PeerOf(x)],
         step[x] \in Live, SaidBy(step'[x]) = SaidBy(step[x]) + 1,
         m.kind = Word(SaidBy(step'[x]))
  PROVE  OrderInv(x)'
<1> DEFINE n == Read(step[PeerOf(x)])
<1> DEFINE w == SaidBy(step[x])
<1>1. n \in Nat /\ w \in Nat
  BY DEF Read, SaidBy
<1>2. CASE x \in foreign \/ step[PeerOf(x)] \notin Live
  BY <1>2 DEF OrderInv, Setup
<1>3. CASE x \notin foreign /\ step[PeerOf(x)] \in Live
  <2>1. /\ \A i \in 1..Len(wire[x]) : wire[x][i].kind = Word(n + i)
        /\ Len(wire[x]) = w - n
    BY <1>3 DEF OrderInv
  <2>2. SaidBy(step'[x]) = w + 1 /\ Read(step'[PeerOf(x)]) = n
    OBVIOUS
  <2> HIDE DEF n, w
  <2>3. \A i \in 1..Len(wire'[x]) : wire'[x][i].kind = Word(n + i)
    <3>1. TAKE i \in 1..Len(wire'[x])
    <3>2. CASE i \in 1..Len(wire[x])
      BY <3>2, <2>1, AppendFacts
    <3>3. CASE i = Len(wire[x]) + 1
      <4>1. n + i = w + 1
        BY <3>3, <1>1, <2>1
      <4>2. QED
        BY <3>3, <4>1, <2>2, AppendFacts
    <3>4. QED
      BY <3>2, <3>3, AppendFacts
  <2>4. Len(wire'[x]) = (w + 1) - n
    BY <1>1, <2>1, AppendFacts
  <2>5. QED
    BY <2>2, <2>3, <2>4 DEF OrderInv
<1>4. QED
  BY <1>2, <1>3

LEMMA EndStays ==
  ASSUME NEW x \in Ends, UNCHANGED Setup, EndInv(x), step'[x] = step[x],
         Told(PeerOf(x)) => Told(PeerOf(x))'
  PROVE  EndInv(x)'
<1>1. UNCHANGED <<build, role, codeOf, foreign>>
  BY DEF Setup
<1>2. Overlap' = Overlap
  BY <1>1 DEF Overlap
<1>3. QED
  BY <1>1, <1>2 DEF EndInv

-----------------------------------------------------------------------------
(* The type of each step. *)

LEMMA TypeKept ==
  ASSUME ValuesOK, NEW e \in Ends, UNCHANGED Setup,
         NEW at \in Live \cup Errors, step' = [step EXCEPT ![e] = at] \/ UNCHANGED step,
         DOMAIN wire' = Ends, wire' = [x \in Ends |-> wire'[x]],
         IsSequence(wire'[e]), IsSequence(wire'[PeerOf(e)]),
         version' \in [Ends -> Nat], heard' \in [Ends -> [hello : Hellos, pake : Elements]]
  PROVE  ValuesOK'
<1>1. UNCHANGED <<build, role, codeOf, foreign>>
  BY DEF Setup
<1>2. step' \in [Ends -> Live \cup Errors]
  BY DEF ValuesOK
<1>3. \A x \in Ends : IsSequence(wire'[x])
  BY Peers
<1>4. build' \in [Ends -> Builds] /\ role' \in [Ends -> Roles] /\ codeOf' \in [Ends -> GivenCodes]
      /\ foreign' \subseteq Ends
  BY <1>1 DEF ValuesOK
<1>5. QED
  BY <1>2, <1>3, <1>4 DEF ValuesOK

\* Reading a message and perhaps saying another.
LEMMA WireTyped ==
  ASSUME ValuesOK, NEW e \in Ends, NEW m
  PROVE  /\ wire' = [wire EXCEPT ![e] = Append(@, m)] =>
              /\ DOMAIN wire' = Ends /\ wire' = [x \in Ends |-> wire'[x]]
              /\ wire'[e] = Append(wire[e], m) /\ wire'[PeerOf(e)] = wire[PeerOf(e)]
              /\ IsSequence(wire'[e]) /\ IsSequence(wire'[PeerOf(e)])
         /\ wire' = [wire EXCEPT ![PeerOf(e)] = Tail(@)] /\ wire[PeerOf(e)] # <<>> =>
              /\ DOMAIN wire' = Ends /\ wire' = [x \in Ends |-> wire'[x]]
              /\ wire'[e] = wire[e] /\ wire'[PeerOf(e)] = Tail(wire[PeerOf(e)])
              /\ IsSequence(wire'[e]) /\ IsSequence(wire'[PeerOf(e)])
         /\ wire' = [wire EXCEPT ![PeerOf(e)] = Tail(@), ![e] = Append(@, m)] /\ wire[PeerOf(e)] # <<>> =>
              /\ DOMAIN wire' = Ends /\ wire' = [x \in Ends |-> wire'[x]]
              /\ wire'[e] = Append(wire[e], m) /\ wire'[PeerOf(e)] = Tail(wire[PeerOf(e)])
              /\ IsSequence(wire'[e]) /\ IsSequence(wire'[PeerOf(e)])
<1>1. /\ PeerOf(e) \in Ends /\ PeerOf(e) # e /\ DOMAIN wire = Ends
      /\ wire = [x \in Ends |-> wire[x]]
      /\ IsSequence(wire[e]) /\ IsSequence(wire[PeerOf(e)])
  BY Peers DEF ValuesOK
<1>2. /\ IsSequence(Append(wire[e], m))
      /\ wire[PeerOf(e)] # <<>> => IsSequence(Tail(wire[PeerOf(e)]))
  BY <1>1, AppendFacts, TailFacts
<1>3. ASSUME wire' = [wire EXCEPT ![e] = Append(@, m)]
      PROVE  /\ DOMAIN wire' = Ends /\ wire' = [x \in Ends |-> wire'[x]]
             /\ wire'[e] = Append(wire[e], m) /\ wire'[PeerOf(e)] = wire[PeerOf(e)]
  BY <1>1, <1>3
<1>4. ASSUME wire' = [wire EXCEPT ![PeerOf(e)] = Tail(@)]
      PROVE  /\ DOMAIN wire' = Ends /\ wire' = [x \in Ends |-> wire'[x]]
             /\ wire'[e] = wire[e] /\ wire'[PeerOf(e)] = Tail(wire[PeerOf(e)])
  BY <1>1, <1>4
<1>5. ASSUME wire' = [wire EXCEPT ![PeerOf(e)] = Tail(@), ![e] = Append(@, m)]
      PROVE  /\ DOMAIN wire' = Ends /\ wire' = [x \in Ends |-> wire'[x]]
             /\ wire'[e] = Append(wire[e], m) /\ wire'[PeerOf(e)] = Tail(wire[PeerOf(e)])
  BY <1>1, <1>5
<1>6. QED
  BY <1>1, <1>2, <1>3, <1>4, <1>5

LEMMA AgreementInit == ASSUME HandshakeAssumption, HandshakeInit PROVE AgreementInv
<1>1. ValuesOK
  <2>1. Unheard \in [hello : Hellos, pake : Elements]
    BY DEF Unheard, Hellos, Elements, Roles
  <2>2. IsSequence(<<>>)
    BY DEF IsSequence
  <2>3. QED
    BY <2>1, <2>2 DEF HandshakeInit, ValuesOK, Roles, Live
<1>2. ASSUME NEW e \in Ends PROVE Good(e)
  <2>1. /\ step[e] = "start" /\ step[PeerOf(e)] = "start" /\ wire[e] = <<>>
        /\ heard[e] = Unheard /\ heard[PeerOf(e)] = Unheard
    BY Peers DEF HandshakeInit
  <2>2. HeardInv(e)
    BY <2>1 DEF HeardInv, Greeted, Told
  <2>3. WireInv(e)
    BY <2>1 DEF WireInv
  <2>4. OrderInv(e)
    BY <2>1 DEF OrderInv, Read, SaidBy
  <2>5. EndInv(e)
    BY <2>1 DEF EndInv, Foul
  <2>6. QED
    BY <2>2, <2>3, <2>4, <2>5 DEF Good
<1>3. QED
  BY <1>1, <1>2 DEF AgreementInv

-----------------------------------------------------------------------------
(* One lemma for each way in which an end may go on. *)

\* Both ends are good again if the end e is, and e has said or read nothing.
LEMMA PeerKept ==
  ASSUME ValuesOK, NEW e \in Ends, Good(PeerOf(e)), UNCHANGED Setup,
         step'[PeerOf(e)] = step[PeerOf(e)], heard'[PeerOf(e)] = heard[PeerOf(e)],
         version'[PeerOf(e)] = version[PeerOf(e)], Told(e) => Told(e)'
  PROVE  HeardInv(PeerOf(e))' /\ EndInv(PeerOf(e))'
<1>1. PeerOf(e) \in Ends /\ PeerOf(PeerOf(e)) = e
  BY Peers
<1>2. HeardInv(PeerOf(e)) /\ EndInv(PeerOf(e))
  BY DEF Good
<1>3. HeardInv(PeerOf(e))'
  BY <1>1, <1>2, HeardStays
<1>4. EndInv(PeerOf(e))'
  BY <1>1, <1>2, EndStays
<1>5. QED
  BY <1>3, <1>4

LEMMA Together ==
  ASSUME ValuesOK', NEW e \in Ends, Good(e)', Good(PeerOf(e))'
  PROVE  AgreementInv'
<1>1. \A x \in Ends : Good(x)'
  <2>1. TAKE x \in Ends
  <2>2. CASE x = e
    BY <2>2
  <2>3. CASE x = PeerOf(e)
    BY <2>3
  <2>4. QED
    BY <2>2, <2>3, Peers
<1>2. QED
  BY <1>1 DEF AgreementInv

LEMMA FailKeeps ==
  ASSUME HandshakeAssumption, AgreementInv, NEW e \in Ends, NEW error \in Errors,
         step[e] \in Reading, Fails(e, error),
         error = "KeyMismatch" => Told(e),
         PeerOf(e) \notin foreign =>
           /\ Told(e) => error \in {"KeyMismatch"} \cup Lost
           /\ error = "KeyMismatch" => codeOf[e] # codeOf[PeerOf(e)]
           /\ error = "IncompatibleVersion" => ~Overlap
           /\ error = "Malformed" => role["a"] = role["b"]
           /\ error \notin Foul
  PROVE  AgreementInv'
<1> DEFINE p == PeerOf(e)
<1>1. /\ p \in Ends /\ p # e /\ PeerOf(p) = e
      /\ ValuesOK /\ Good(e) /\ Good(p)
  BY Peers DEF AgreementInv
<1>2. /\ step' = [step EXCEPT ![e] = error] /\ wire' = wire /\ version' = version
      /\ heard' = heard /\ UNCHANGED Setup
  BY DEF Fails
<1>3. step'[e] = error /\ step'[p] = step[p]
  BY <1>1, <1>2 DEF ValuesOK
<1>4. error \notin Live /\ error \notin {"start", "magic", "hello", "pake", "confirm", "done"}
  BY DEF Errors, Foul, Lost, Live, Reading
<1>5. ValuesOK'
  <2>1. /\ DOMAIN wire' = Ends /\ wire' = [x \in Ends |-> wire'[x]]
        /\ IsSequence(wire'[e]) /\ IsSequence(wire'[p])
        /\ version' \in [Ends -> Nat] /\ heard' \in [Ends -> [hello : Hellos, pake : Elements]]
    BY <1>1, <1>2 DEF ValuesOK
  <2>2. QED
    BY <1>1, <1>2, <2>1, TypeKept
<1>6. UNCHANGED <<build, role, codeOf, foreign>>
  BY <1>2 DEF Setup
<1>7. HeardInv(e)'
  <2>1. HeardInv(e) /\ Told(e)' = Told(e) /\ Greeted(e)' = Greeted(e)
    BY <1>1, <1>2 DEF Good, Told, Greeted
  <2>2. /\ LocalHello(p)' = LocalHello(p) /\ Element(p)' = Element(p)
        /\ ChosenVersion(e, LocalHello(p))' = ChosenVersion(e, LocalHello(p))
        /\ SharesVersion(e, LocalHello(p))' = SharesVersion(e, LocalHello(p))
    BY <1>6 DEF LocalHello, Element, ChosenVersion, SharesVersion
  <2>3. e \notin foreign
    BY <2>1 DEF HeardInv, Reading
  <2>4. Greeted(e)' /\ p \notin foreign' =>
                          /\ role'[p] = Opposite(role'[e])
                          /\ heard'[e].hello = LocalHello(p)'
                          /\ SharesVersion(e, LocalHello(p))'
                          /\ version'[e] = ChosenVersion(e, LocalHello(p))'
    BY <1>2, <1>6, <2>1, <2>2 DEF HeardInv
  <2>5. /\ Told(e)' => Greeted(e)'
        /\ Told(e)' /\ p \notin foreign' =>
             /\ heard'[e].pake = Element(p)'
             /\ step'[e] \in {"confirm", "done", "KeyMismatch"} \cup Lost
    BY <1>2, <1>3, <1>6, <2>1, <2>2 DEF HeardInv
  <2>6. step'[e] \in {"confirm", "done", "KeyMismatch"} => Told(e)'
    BY <1>3, <1>4, <2>1
  <2>7. QED
    BY <1>3, <1>4, <1>6, <2>3, <2>4, <2>5, <2>6 DEF HeardInv
<1>8. WireInv(e)' /\ WireInv(p)'
  <2>1. WireInv(e) /\ WireInv(p) /\ IsSequence(wire[e]) /\ IsSequence(wire[p])
    BY <1>1 DEF Good, ValuesOK
  <2>2. QED
    BY <1>1, <1>2, <2>1, WireStays
<1>9. OrderInv(e)' /\ OrderInv(p)'
  <2>1. OrderInv(e) /\ OrderInv(p)
    BY <1>1 DEF Good
  <2>2. OrderInv(e)'
    BY <1>1, <1>2, <1>3, <1>4, <2>1, OrderStays
  <2>3. OrderInv(p)'
    BY <1>1, <1>2, <1>3, <1>4, <2>1, OrderStays
  <2>4. QED
    BY <2>2, <2>3
<1>10. EndInv(e)'
  <2>1. Overlap' = Overlap
    BY <1>6 DEF Overlap
  <2>2. Told(p)' = Told(p)
    BY <1>2 DEF Told
  <2>3. QED
    BY <1>3, <1>4, <1>6, <2>1, <2>2 DEF EndInv
<1>11. HeardInv(p)' /\ EndInv(p)'
  <2>1. Told(e) => Told(e)'
    BY <1>2 DEF Told
  <2>2. QED
    BY <1>1, <1>2, <1>3, <2>1, PeerKept
<1>12. QED
  <2>1. Good(e)' /\ Good(p)'
    BY <1>7, <1>8, <1>9, <1>10, <1>11 DEF Good
  <2>2. QED
    BY <1>5, <2>1, Together

\* What e is given to read is what its peer is, unless that is a stranger; a
\* stranger's tag is never the expected one.
LEMMA Received ==
  ASSUME HandshakeAssumption, AgreementInv, NEW e \in Ends, wire[PeerOf(e)] # <<>>
  PROVE  /\ PeerOf(e) \notin foreign => OwnWord(PeerOf(e), Message(e))
         /\ PeerOf(e) \in foreign => StrangeWord(PeerOf(e), Message(e))
         /\ PeerOf(e) \in foreign /\ Message(e).kind = "confirm" => Message(e).body # ExpectedTag(e)
         /\ PeerOf(e) \notin foreign /\ step[e] \in Reading => Message(e).kind = step[e]
<1> DEFINE p == PeerOf(e)
<1>1. p \in Ends /\ PeerOf(p) = e
  BY Peers
<1>2. IsSequence(wire[p]) /\ WireInv(p) /\ OrderInv(p) /\ ValuesOK
  BY <1>1 DEF AgreementInv, ValuesOK, Good
<1>3. Message(e) = wire[p][1] /\ 1 \in 1..Len(wire[p])
  BY <1>2, TailFacts DEF Message
<1>4. p \notin foreign /\ step[e] \in Reading => Message(e).kind = step[e]
  BY <1>1, <1>2, <1>3 DEF OrderInv, Live, Reading, Read, Word
<1>5. /\ p \notin foreign => OwnWord(p, Message(e))
      /\ p \in foreign => StrangeWord(p, Message(e))
  BY <1>2, <1>3 DEF WireInv
<1>6. ASSUME p \in foreign, Message(e).kind = "confirm" PROVE Message(e).body # ExpectedTag(e)
  <2>1. Message(e).body = Forgery \/ Message(e).body.key.info[3] = role[e]
    BY <1>1, <1>5, <1>6 DEF StrangeWord
  <2>2. Forgery # ExpectedTag(e)
    <3>1. DOMAIN Forgery = {"guess"} /\ DOMAIN ExpectedTag(e) = {"key", "over"}
      BY DEF Forgery, ExpectedTag
    <3>2. QED
      BY <3>1
  <2>3. ExpectedTag(e).key.info[3] # role[e]
    BY <1>2, Typed DEF ExpectedTag, Key
  <2>4. QED
    BY <2>1, <2>2, <2>3
<1>7. QED
  BY <1>4, <1>5, <1>6

\* An end that goes on: the peer's messages lose the one that was read, if one
\* was, and the end's own gain the one that it says.
LEMMA MoveKeeps ==
  ASSUME HandshakeAssumption, AgreementInv, NEW e \in Ends, UNCHANGED Setup,
         NEW at \in {"magic", "hello", "pake", "confirm"}, step' = [step EXCEPT ![e] = at],
         step[e] \in Live, SaidBy(at) = SaidBy(step[e]) + 1,
         NEW m, m.kind = Word(SaidBy(at)), ~Told(e),
         \/ wire' = [wire EXCEPT ![e] = Append(@, m)] /\ Read(at) = Read(step[e])
            /\ step[e] = "start" /\ at = "magic"
         \/ wire' = [wire EXCEPT ![PeerOf(e)] = Tail(@), ![e] = Append(@, m)]
            /\ wire[PeerOf(e)] # <<>> /\ Read(at) = Read(step[e]) + 1,
         e \notin foreign,
         m.kind = "hello" => m.body = LocalHello(e),
         m.kind = "pake" => m.body = Element(e),
         m.kind = "confirm" => Told(e)' /\ m.body = ConfirmTag(e)',
         version' \in [Ends -> Nat], heard' \in [Ends -> [hello : Hellos, pake : Elements]],
         version'[PeerOf(e)] = version[PeerOf(e)], heard'[PeerOf(e)] = heard[PeerOf(e)],
         HeardInv(e)'
  PROVE  AgreementInv'
<1> DEFINE p == PeerOf(e)
<1>1. /\ p \in Ends /\ p # e /\ PeerOf(p) = e
      /\ ValuesOK /\ Good(e) /\ Good(p)
  BY Peers DEF AgreementInv
<1>2. IsSequence(wire[e]) /\ IsSequence(wire[p])
  BY <1>1 DEF ValuesOK
<1>3. step'[e] = at /\ step'[p] = step[p]
  BY <1>1 DEF ValuesOK
<1>4. /\ DOMAIN wire' = Ends /\ wire' = [x \in Ends |-> wire'[x]]
      /\ wire'[e] = Append(wire[e], m)
      /\ IsSequence(wire'[e]) /\ IsSequence(wire'[p])
      /\ wire'[p] = wire[p] \/ (wire[p] # <<>> /\ wire'[p] = Tail(wire[p]))
  <2>1. CASE wire' = [wire EXCEPT ![e] = Append(@, m)]
    BY <1>1, <2>1, WireTyped
  <2>2. CASE wire' = [wire EXCEPT ![p] = Tail(@), ![e] = Append(@, m)] /\ wire[p] # <<>>
    BY <1>1, <2>2, WireTyped
  <2>3. QED
    BY <2>1, <2>2
<1>5. ValuesOK'
  <2>1. at \in Live \cup Errors
    BY DEF Live, Reading
  <2>2. QED
    BY <1>1, <1>4, <2>1, TypeKept
<1>6. WireInv(e)' /\ WireInv(p)'
  <2>1. WireInv(e) /\ WireInv(p)
    BY <1>1 DEF Good
  <2>2. WireInv(e)'
    BY <1>2, <1>4, <2>1, WireGrows
  <2>3. WireInv(p)'
    BY <1>1, <1>2, <1>4, <2>1, WireStays
  <2>4. QED
    BY <2>2, <2>3
<1>7. OrderInv(e)'
  <2>1. OrderInv(e)
    BY <1>1 DEF Good
  <2>2. QED
    BY <1>1, <1>2, <1>3, <1>4, <2>1, OrderGrows
<1>8. OrderInv(p)'
  <2>1. OrderInv(p)
    BY <1>1 DEF Good
  <2>2. CASE wire' = [wire EXCEPT ![e] = Append(@, m)] /\ step[e] = "start" /\ at = "magic"
    <3>1. wire'[p] = wire[p]
      BY <2>2, <1>1, WireTyped
    <3>2. p \notin foreign' =>
             /\ \A i \in 1..Len(wire'[p]) : wire'[p][i].kind = Word(Read(step'[e]) + i)
             /\ step'[p] \in Live => Len(wire'[p]) = SaidBy(step'[p]) - Read(step'[e])
      BY <1>1, <1>3, <2>1, <2>2, <3>1 DEF OrderInv, Read, Live, Setup
    <3>3. QED
      BY <1>1, <3>2 DEF OrderInv
  <2>3. CASE wire' = [wire EXCEPT ![p] = Tail(@), ![e] = Append(@, m)]
             /\ wire[p] # <<>> /\ Read(at) = Read(step[e]) + 1
    <3>1. wire'[p] = Tail(wire[p])
      BY <2>3, <1>1, WireTyped
    <3>2. QED
      BY <1>1, <1>2, <1>3, <2>1, <2>3, <3>1, OrderShrinks
  <2>4. QED
    BY <2>2, <2>3
<1>9. EndInv(e)'
  BY <1>3 DEF EndInv, Foul
<1>10. HeardInv(p)' /\ EndInv(p)'
  BY <1>1, <1>3, PeerKept
<1>11. QED
  <2>1. Good(e)' /\ Good(p)'
    BY <1>6, <1>7, <1>8, <1>9, <1>10 DEF Good
  <2>2. QED
    BY <1>5, <2>1, Together

LEMMA BeginKeeps ==
  ASSUME HandshakeAssumption, AgreementInv, NEW e \in Ends, Begin(e)
  PROVE  AgreementInv'
<1> DEFINE m == Said("magic", "RUSP")
<1>1. /\ step[e] = "start" /\ e \notin foreign /\ step' = [step EXCEPT ![e] = "magic"]
      /\ wire' = [wire EXCEPT ![e] = Append(@, m)]
      /\ version' = version /\ heard' = heard /\ UNCHANGED Setup
  BY DEF Begin
<1>2. ValuesOK /\ HeardInv(e) /\ PeerOf(e) \in Ends
  BY Peers DEF AgreementInv, Good
<1>3. ~Told(e) /\ ~Greeted(e)
  BY <1>1, <1>2 DEF HeardInv
<1>4. step'[e] = "magic" /\ ~Told(e)' /\ ~Greeted(e)'
  BY <1>1, <1>2, <1>3 DEF ValuesOK, Told, Greeted
<1>5. HeardInv(e)'
  BY <1>1, <1>4 DEF HeardInv, Setup
<1>6. m.kind = "magic"
  BY DEF Said
<1>7. /\ SaidBy("magic") = SaidBy(step[e]) + 1 /\ m.kind = Word(SaidBy("magic"))
      /\ Read("magic") = Read(step[e]) /\ step[e] \in Live
  BY <1>1, <1>6 DEF SaidBy, Word, Read, Live
<1>8. version' \in [Ends -> Nat] /\ heard' \in [Ends -> [hello : Hellos, pake : Elements]]
  BY <1>1, <1>2 DEF ValuesOK
<1> HIDE DEF m
<1>9. QED
  BY <1>1, <1>3, <1>5, <1>6, <1>7, <1>8, MoveKeeps

LEMMA ReadMagicKeeps ==
  ASSUME HandshakeAssumption, AgreementInv, NEW e \in Ends, ReadMagic(e)
  PROVE  AgreementInv'
<1> DEFINE m == Said("hello", LocalHello(e))
<1>1. /\ step[e] = "magic" /\ wire[PeerOf(e)] # <<>> /\ step' = [step EXCEPT ![e] = "hello"]
      /\ wire' = [wire EXCEPT ![PeerOf(e)] = Tail(@), ![e] = Append(@, m)]
      /\ version' = version /\ heard' = heard /\ UNCHANGED Setup
  BY DEF ReadMagic, HasToRead, GoesOn
<1>2. ValuesOK /\ HeardInv(e) /\ PeerOf(e) \in Ends
  BY Peers DEF AgreementInv, Good
<1>3. ~Told(e) /\ ~Greeted(e) /\ e \notin foreign
  BY <1>1, <1>2 DEF HeardInv
<1>4. step'[e] = "hello" /\ ~Told(e)' /\ ~Greeted(e)'
  BY <1>1, <1>2, <1>3 DEF ValuesOK, Told, Greeted
<1>5. HeardInv(e)'
  BY <1>1, <1>3, <1>4 DEF HeardInv, Setup
<1>6. m.kind = "hello" /\ m.body = LocalHello(e)
  BY DEF Said
<1>7. /\ SaidBy("hello") = SaidBy(step[e]) + 1 /\ m.kind = Word(SaidBy("hello"))
      /\ Read("hello") = Read(step[e]) + 1 /\ step[e] \in Live
  BY <1>1, <1>6 DEF SaidBy, Word, Read, Live, Reading
<1>8. version' \in [Ends -> Nat] /\ heard' \in [Ends -> [hello : Hellos, pake : Elements]]
  BY <1>1, <1>2 DEF ValuesOK
<1> HIDE DEF m
<1>9. QED
  BY <1>1, <1>3, <1>5, <1>6, <1>7, <1>8, MoveKeeps

LEMMA ReadHelloKeeps ==
  ASSUME HandshakeAssumption, AgreementInv, NEW e \in Ends, ReadHello(e)
  PROVE  AgreementInv'
<1> DEFINE m == Said("pake", Element(e))
<1> DEFINE p == PeerOf(e)
<1> DEFINE hello == Message(e).body
<1>1. /\ step[e] = "hello" /\ wire[p] # <<>> /\ step' = [step EXCEPT ![e] = "pake"]
      /\ wire' = [wire EXCEPT ![p] = Tail(@), ![e] = Append(@, m)]
      /\ UNCHANGED Setup /\ Message(e).kind = "hello"
      /\ SharesVersion(e, Message(e).body) /\ Message(e).body.role = Opposite(role[e])
      /\ version' = [version EXCEPT ![e] = ChosenVersion(e, Message(e).body)]
      /\ heard' = [heard EXCEPT ![e].hello = Message(e).body]
  BY DEF ReadHello, HasToRead, GoesOn
<1>2. ValuesOK /\ HeardInv(e) /\ p \in Ends /\ p # e
  BY Peers DEF AgreementInv, Good
<1>3. ~Told(e) /\ ~Greeted(e) /\ e \notin foreign
  BY <1>1, <1>2 DEF HeardInv
<1>4. /\ p \notin foreign => hello = LocalHello(p)
      /\ p \in foreign => hello \in [min : Nat, max : Nat, role : Roles]
  BY <1>1, Received DEF OwnWord, StrangeWord
<1>5. p \notin foreign => role[p] = Opposite(role[e])
  BY <1>1, <1>4 DEF LocalHello
<1>6. hello \in Hellos /\ hello # Unheard.hello /\ ChosenVersion(e, hello) \in Nat
  <2>1. hello \in Hellos /\ hello # Unheard.hello
    <3>1. CASE p \notin foreign
      BY <3>1, <1>2, <1>4, Typed
    <3>2. CASE p \in foreign
      BY <3>2, <1>4 DEF Hellos, Unheard, Roles
    <3>3. QED
      BY <3>1, <3>2
  <2>2. hello.max \in Nat /\ build[e].max \in Nat
    BY <1>2, <2>1, Typed DEF Hellos
  <2>3. QED
    BY <2>1, <2>2 DEF ChosenVersion, Least
<1>7. version' = [version EXCEPT ![e] = ChosenVersion(e, hello)] /\ heard' = [heard EXCEPT ![e].hello = hello]
  BY <1>1
<1>14. p \notin foreign => hello = LocalHello(p)
  BY <1>4
<1>15. SharesVersion(e, hello)
  BY <1>1
<1> HIDE DEF hello
<1>8. version' \in [Ends -> Nat] /\ heard' \in [Ends -> [hello : Hellos, pake : Elements]]
  BY <1>2, <1>6, <1>7 DEF ValuesOK
<1>9. /\ heard'[e].hello = hello /\ heard'[e].pake = heard[e].pake /\ heard'[p] = heard[p]
      /\ version'[e] = ChosenVersion(e, hello) /\ version'[p] = version[p] /\ step'[e] = "pake"
  BY <1>1, <1>2, <1>7 DEF ValuesOK
<1>10. HeardInv(e)'
  <2>1. UNCHANGED <<build, role, codeOf, foreign>>
    BY <1>1 DEF Setup
  <2>2. p \notin foreign =>
          /\ LocalHello(p)' = hello /\ ChosenVersion(e, LocalHello(p))' = ChosenVersion(e, hello)
          /\ SharesVersion(e, LocalHello(p))' = SharesVersion(e, hello)
    BY <1>14, <2>1 DEF LocalHello, ChosenVersion, SharesVersion
  <2>3. Greeted(e)' /\ ~Told(e)'
    BY <1>3, <1>6, <1>9 DEF Greeted, Told
  <2>4. QED
    BY <1>3, <1>5, <1>9, <1>15, <2>1, <2>2, <2>3 DEF HeardInv
<1>11. m.kind = "pake" /\ m.body = Element(e)
  BY DEF Said
<1>12. /\ SaidBy("pake") = SaidBy(step[e]) + 1 /\ m.kind = Word(SaidBy("pake"))
       /\ Read("pake") = Read(step[e]) + 1 /\ step[e] \in Live
  BY <1>1, <1>11 DEF SaidBy, Word, Read, Live, Reading
<1> HIDE DEF m
<1>13. QED
  BY <1>1, <1>3, <1>8, <1>9, <1>10, <1>11, <1>12, MoveKeeps

LEMMA ReadPakeKeeps ==
  ASSUME HandshakeAssumption, AgreementInv, NEW e \in Ends, ReadPake(e)
  PROVE  AgreementInv'
<1> DEFINE m == Said("confirm", ConfirmTag(e)')
<1> DEFINE p == PeerOf(e)
<1> DEFINE pake == Message(e).body
<1>1. /\ step[e] = "pake" /\ wire[p] # <<>> /\ step' = [step EXCEPT ![e] = "confirm"]
      /\ wire' = [wire EXCEPT ![p] = Tail(@), ![e] = Append(@, m)]
      /\ UNCHANGED Setup /\ Message(e).kind = "pake"
      /\ version' = version /\ heard' = [heard EXCEPT ![e].pake = Message(e).body]
  BY DEF ReadPake, HasToRead
<1>2. ValuesOK /\ HeardInv(e) /\ p \in Ends /\ p # e
  BY Peers DEF AgreementInv, Good
<1>3. ~Told(e) /\ Greeted(e) /\ e \notin foreign
  BY <1>1, <1>2 DEF HeardInv
<1>4. p \notin foreign => pake = Element(p)
  BY <1>1, Received DEF OwnWord
<1>5. pake \in Elements /\ pake # Unheard.pake
  <2>1. CASE p \notin foreign
    BY <2>1, <1>2, <1>4, Typed
  <2>2. CASE p \in foreign
    BY <2>2, <1>1, Received DEF StrangeWord, Elements, Unheard
  <2>3. QED
    BY <2>1, <2>2
<1>6. heard' = [heard EXCEPT ![e].pake = pake]
  BY <1>1
<1> HIDE DEF pake
<1>7. version' \in [Ends -> Nat] /\ heard' \in [Ends -> [hello : Hellos, pake : Elements]]
  <2>1. version' \in [Ends -> Nat] /\ heard \in [Ends -> [hello : Hellos, pake : Elements]]
    BY <1>1, <1>2 DEF ValuesOK
  <2>2. [heard[e] EXCEPT !.pake = pake] \in [hello : Hellos, pake : Elements]
    BY <2>1, <1>5
  <2>3. QED
    BY <2>1, <2>2, <1>6
<1>8. /\ heard'[e].pake = pake /\ heard'[e].hello = heard[e].hello /\ heard'[p] = heard[p]
      /\ version'[p] = version[p] /\ version'[e] = version[e] /\ step'[e] = "confirm"
  BY <1>1, <1>2, <1>6 DEF ValuesOK
<1>9. HeardInv(e)' /\ Told(e)'
  <2>1. UNCHANGED <<build, role, codeOf, foreign>>
    BY <1>1 DEF Setup
  <2>2. LocalHello(p)' = LocalHello(p) /\ ChosenVersion(e, LocalHello(p))' = ChosenVersion(e, LocalHello(p))
        /\ SharesVersion(e, LocalHello(p))' = SharesVersion(e, LocalHello(p)) /\ Element(p)' = Element(p)
    BY <2>1 DEF LocalHello, ChosenVersion, SharesVersion, Element
  <2>3. Greeted(e)' /\ Told(e)'
    BY <1>3, <1>5, <1>8 DEF Greeted, Told
  <2>4. QED
    BY <1>2, <1>3, <1>4, <1>8, <2>1, <2>2, <2>3 DEF HeardInv
<1>10. m.kind = "confirm" /\ m.body = ConfirmTag(e)'
  BY DEF Said
<1>11. /\ SaidBy("confirm") = SaidBy(step[e]) + 1 /\ m.kind = Word(SaidBy("confirm"))
       /\ Read("confirm") = Read(step[e]) + 1 /\ step[e] \in Live
  BY <1>1, <1>10 DEF SaidBy, Word, Read, Live, Reading
<1> HIDE DEF m
<1>12. QED
  BY <1>1, <1>3, <1>7, <1>8, <1>9, <1>10, <1>11, MoveKeeps

LEMMA ReadConfirmKeeps ==
  ASSUME HandshakeAssumption, AgreementInv, NEW e \in Ends, ReadConfirm(e)
  PROVE  AgreementInv'
<1> DEFINE p == PeerOf(e)
<1>1. /\ step[e] = "confirm" /\ wire[p] # <<>> /\ Message(e).kind = "confirm"
  BY DEF ReadConfirm, HasToRead
<1>2. /\ ValuesOK /\ Good(e) /\ Good(p) /\ HeardInv(e) /\ HeardInv(p)
      /\ p \in Ends /\ p # e /\ PeerOf(p) = e
      /\ IsSequence(wire[e]) /\ IsSequence(wire[p])
  BY Peers DEF AgreementInv, Good, ValuesOK
<1>3. Told(e) /\ (p \notin foreign => Told(p) /\ Message(e).body = ConfirmTag(p))
  BY <1>1, <1>2, Received DEF HeardInv, OwnWord
<1>4. /\ p \notin foreign => (Message(e).body = ExpectedTag(e) <=> codeOf[e] = codeOf[p])
      /\ p \in foreign => Message(e).body # ExpectedTag(e)
  <2>1. CASE p \in foreign
    BY <2>1, <1>1, Received
  <2>2. CASE p \notin foreign
    <3>1. e \notin foreign
      BY <1>1, <1>2 DEF HeardInv
    <3>2. foreign = {}
      BY <2>2, <3>1, <1>2, Peers DEF ValuesOK
    <3>3. QED
      BY <2>2, <3>2, <1>2, <1>3, TagsMatch
  <2>3. QED
    BY <2>1, <2>2
<1>5. CASE Message(e).body # ExpectedTag(e)
  <2>1. Fails(e, "KeyMismatch")
    BY <1>5 DEF ReadConfirm
  <2>2. step[e] \in Reading /\ "KeyMismatch" \in Errors /\ "KeyMismatch" \notin Foul
    BY <1>1 DEF Reading, Errors, Foul
  <2>3. QED
    BY <1>3, <1>4, <1>5, <2>1, <2>2, FailKeeps
<1>6. CASE Message(e).body = ExpectedTag(e)
  <2>1. /\ step' = [step EXCEPT ![e] = "done"] /\ wire' = [wire EXCEPT ![p] = Tail(@)]
        /\ version' = version /\ heard' = heard /\ UNCHANGED Setup
    BY <1>6 DEF ReadConfirm
  <2>2. step'[e] = "done" /\ step'[p] = step[p]
    BY <1>2, <2>1 DEF ValuesOK
  <2>3. /\ DOMAIN wire' = Ends /\ wire' = [x \in Ends |-> wire'[x]]
        /\ wire'[e] = wire[e] /\ wire'[p] = Tail(wire[p])
        /\ IsSequence(wire'[e]) /\ IsSequence(wire'[p])
    BY <1>1, <1>2, <2>1, WireTyped
  <2>4. ValuesOK'
    <3>1. "done" \in Live \cup Errors
      BY DEF Live
    <3>2. version' \in [Ends -> Nat] /\ heard' \in [Ends -> [hello : Hellos, pake : Elements]]
      BY <1>2, <2>1 DEF ValuesOK
    <3>3. QED
      BY <1>2, <2>1, <2>3, <3>1, <3>2, TypeKept
  <2>5. UNCHANGED <<build, role, codeOf, foreign>>
    BY <2>1 DEF Setup
  <2>6. HeardInv(e)'
    <3>1. /\ Told(e)' = Told(e) /\ Greeted(e)' = Greeted(e)
          /\ LocalHello(p)' = LocalHello(p) /\ Element(p)' = Element(p)
      BY <2>1, <2>5 DEF Told, Greeted, LocalHello, Element
    <3>2. /\ ChosenVersion(e, LocalHello(p))' = ChosenVersion(e, LocalHello(p))
          /\ SharesVersion(e, LocalHello(p))' = SharesVersion(e, LocalHello(p))
      BY <2>5, <3>1 DEF ChosenVersion, SharesVersion
    <3>3. e \notin foreign
      BY <1>1, <1>2 DEF HeardInv
    <3>4. QED
      BY <1>2, <1>3, <2>1, <2>2, <2>5, <3>1, <3>2, <3>3 DEF HeardInv
  <2>7. WireInv(e)' /\ WireInv(p)'
    <3>1. WireInv(e) /\ WireInv(p)
      BY <1>2 DEF Good
    <3>2. QED
      BY <1>1, <1>2, <2>1, <2>3, <3>1, WireStays
  <2>8. OrderInv(e)'
    <3>1. OrderInv(e) /\ SaidBy("done") = SaidBy(step[e]) /\ step[e] \in Live
      BY <1>1, <1>2 DEF Good, SaidBy, Live, Reading
    <3>2. QED
      BY <1>2, <2>1, <2>2, <2>3, <3>1, OrderStays
  <2>9. OrderInv(p)'
    <3>1. OrderInv(p) /\ Read("done") = Read(step[e]) + 1 /\ step[e] \in Live
      BY <1>1, <1>2 DEF Good, Read, Live, Reading
    <3>2. QED
      BY <1>1, <1>2, <2>1, <2>2, <2>3, <3>1, OrderShrinks
  <2>10. EndInv(e)'
    <3>1. Told(p)' = Told(p)
      BY <2>1 DEF Told
    <3>2. QED
      BY <1>3, <1>4, <1>6, <2>2, <2>5, <3>1 DEF EndInv, Foul
  <2>11. HeardInv(p)' /\ EndInv(p)'
    <3>1. Told(e) => Told(e)'
      BY <2>1 DEF Told
    <3>2. QED
      BY <1>2, <2>1, <2>2, <3>1, PeerKept
  <2>12. Good(e)' /\ Good(p)'
    BY <2>6, <2>7, <2>8, <2>9, <2>10, <2>11 DEF Good
  <2>13. QED
    BY <2>4, <2>12, Together
<1>7. QED
  BY <1>5, <1>6

LEMMA RefuseHelloKeeps ==
  ASSUME HandshakeAssumption, AgreementInv, NEW e \in Ends, RefuseHello(e)
  PROVE  AgreementInv'
<1> DEFINE p == PeerOf(e)
<1> DEFINE hello == Message(e).body
<1>1. step[e] = "hello" /\ wire[p] # <<>> /\ Message(e).kind = "hello"
  BY DEF RefuseHello, HasToRead
<1>2. ValuesOK /\ HeardInv(e) /\ p \in Ends /\ {e, p} = {"a", "b"}
  BY Peers DEF AgreementInv, Good
<1>3. ~Told(e) /\ step[e] \in Reading
  BY <1>1, <1>2 DEF HeardInv, Reading
<1>4. p \notin foreign => hello = LocalHello(p)
  BY <1>1, Received DEF OwnWord
<1>5. /\ build[e].min \in Nat /\ build[e].max \in Nat
      /\ build[p].min \in Nat /\ build[p].max \in Nat /\ build[p].min <= build[p].max
  BY <1>2, Typed DEF ValuesOK, HandshakeAssumption
<1>6. {"Malformed", "IncompatibleVersion"} \subseteq Errors /\ "Malformed" \notin Foul
      /\ "IncompatibleVersion" \notin Foul
  BY DEF Errors, Foul
<1>7. \/ ~PossibleRange(hello) /\ Fails(e, "Malformed")
      \/ ~SharesVersion(e, hello) /\ Fails(e, "IncompatibleVersion")
      \/ hello.role # Opposite(role[e]) /\ Fails(e, "Malformed")
  BY DEF RefuseHello
<1> HIDE DEF hello
<1>8. CASE ~PossibleRange(hello) /\ Fails(e, "Malformed")
  <2>1. p \in foreign
    BY <1>4, <1>5, <1>8 DEF PossibleRange, LocalHello
  <2>2. QED
    BY <1>3, <1>6, <1>8, <2>1, FailKeeps
<1>9. CASE ~SharesVersion(e, hello) /\ Fails(e, "IncompatibleVersion")
  <2>1. ASSUME p \notin foreign PROVE ~Overlap
    <3>1. ~ \E v \in build[e].min..build[e].max : v \in build[p].min..build[p].max
      BY <1>4, <1>5, <1>9, <2>1 DEF SharesVersion, ChosenVersion, LocalHello, Least
    <3>2. QED
      BY <3>1, <1>2 DEF Overlap
  <2>2. QED
    BY <1>3, <1>6, <1>9, <2>1, FailKeeps
<1>10. CASE hello.role # Opposite(role[e]) /\ Fails(e, "Malformed")
  <2>1. ASSUME p \notin foreign PROVE role["a"] = role["b"]
    <3>1. role[p] = role[e]
      <4>1. role[p] # Opposite(role[e])
        BY <1>4, <1>10, <2>1 DEF LocalHello
      <4>2. role[p] \in Roles /\ role[e] \in Roles
        BY <1>2, Typed
      <4>3. QED
        BY <4>1, <4>2 DEF Opposite, Roles
    <3>2. QED
      BY <1>2, <3>1
  <2>2. QED
    BY <1>3, <1>6, <1>10, <2>1, FailKeeps
<1>11. QED
  BY <1>7, <1>8, <1>9, <1>10

LEMMA RefusePakeKeeps ==
  ASSUME HandshakeAssumption, AgreementInv, NEW e \in Ends, RefusePake(e)
  PROVE  AgreementInv'
<1> DEFINE p == PeerOf(e)
<1>1. /\ step[e] = "pake" /\ wire[p] # <<>> /\ Message(e).kind = "pake"
      /\ Message(e).body.side # Opposite(role[e]) /\ Fails(e, "Pake")
  BY DEF RefusePake, HasToRead
<1>2. HeardInv(e)
  BY DEF AgreementInv, Good
<1>3. Greeted(e) /\ ~Told(e) /\ step[e] \in Reading
  BY <1>1, <1>2 DEF HeardInv, Reading
<1>4. p \in foreign
  <2>1. SUFFICES ASSUME p \notin foreign PROVE FALSE
    OBVIOUS
  <2>2. Message(e).body = Element(p) /\ role[p] = Opposite(role[e])
    BY <1>1, <1>2, <1>3, <2>1, Received DEF OwnWord, HeardInv
  <2>3. QED
    BY <1>1, <2>2 DEF Element
<1>5. "Pake" \in Errors
  BY DEF Errors, Foul
<1>6. QED
  BY <1>1, <1>3, <1>4, <1>5, FailKeeps

LEMMA ReadNoiseKeeps ==
  ASSUME HandshakeAssumption, AgreementInv, NEW e \in Ends, ReadNoise(e)
  PROVE  AgreementInv'
<1> DEFINE p == PeerOf(e)
<1>1. step[e] \in Reading /\ wire[p] # <<>> /\ Message(e).kind # step[e]
  BY DEF ReadNoise, HasToRead
<1>2. p \in foreign
  BY <1>1, Received
<1>3. PICK error \in {"BadMagic", "Unexpected", "Malformed", "FrameTooLarge"} : Fails(e, error)
  BY DEF ReadNoise
<1>4. error \in Errors
  BY DEF Errors, Foul
<1>5. QED
  BY <1>1, <1>2, <1>3, <1>4, FailKeeps

LEMMA LostKeeps ==
  ASSUME HandshakeAssumption, AgreementInv, NEW e \in Ends, LosePeer(e) \/ TimesOut(e) \/ Dies(e)
  PROVE  AgreementInv'
<1>1. PICK error \in Lost : Fails(e, error)
  BY DEF LosePeer, TimesOut, Dies, Lost
<1>2. step[e] \in Reading
  BY DEF LosePeer, TimesOut, Dies
<1>3. error \in Errors /\ error \notin {"KeyMismatch", "IncompatibleVersion", "Malformed"} \cup Foul
  BY DEF Errors, Lost, Foul
<1>4. QED
  BY <1>1, <1>2, <1>3, FailKeeps

LEMMA NothingSaidKeeps ==
  ASSUME AgreementInv, UNCHANGED <<step, wire, version, heard, Setup>>
  PROVE  AgreementInv'
<1>1. UNCHANGED <<build, role, codeOf, foreign>>
  BY DEF Setup
<1>2. ValuesOK'
  BY <1>1 DEF AgreementInv, ValuesOK
<1>3. ASSUME NEW x \in Ends PROVE Good(x)'
  <2>1. HeardInv(x) /\ WireInv(x) /\ OrderInv(x) /\ EndInv(x) /\ IsSequence(wire[x]) /\ PeerOf(x) \in Ends
    BY Peers DEF AgreementInv, Good, ValuesOK
  <2>2. Told(PeerOf(x)) => Told(PeerOf(x))'
    BY DEF Told
  <2>3. HeardInv(x)' /\ WireInv(x)' /\ EndInv(x)'
    BY <2>1, <2>2, HeardStays, WireStays, EndStays
  <2>4. OrderInv(x)'
    BY <2>1, <1>1 DEF OrderInv
  <2>5. QED
    BY <2>3, <2>4 DEF Good
<1>4. QED
  BY <1>2, <1>3 DEF AgreementInv

\* Of what a stranger may say, no tag is made with its own role: one that it
\* reflects was made with its peer's.
LEMMA StrangeSaysStrange ==
  ASSUME HandshakeAssumption, ValuesOK, NEW e \in Ends,
         NEW kind \in DOMAIN Sayings(e), NEW body \in Sayings(e)[kind]
  PROVE  StrangeWord(e, Said(kind, body))
<1> DEFINE p == PeerOf(e)
<1> DEFINE m == Said(kind, body)
<1>1. p \in Ends /\ \A x \in Ends : x = e \/ x = p
  BY Peers
<1>2. kind \in {"magic", "noise", "hello", "pake", "confirm"} /\ m.kind = kind /\ m.body = body
  BY DEF Sayings, Said
<1>3. ASSUME kind = "hello" PROVE body \in [min : Nat, max : Nat, role : Roles]
  <2>1. body \in {LocalHello(e), [LocalHello(e) EXCEPT !.min = build[e].max + 1]}
    BY <1>3 DEF Sayings
  <2>2. QED
    BY <2>1, Typed DEF LocalHello
<1>4. ASSUME kind = "pake" PROVE body \in Elements /\ body.of # "none"
  <2>1. body \in {Element(e), Element(p), [Element(e) EXCEPT !.side = "none"]}
    BY <1>4 DEF Sayings
  <2>2. role[e] \in Roles /\ role[p] \in Roles
    BY <1>1, Typed
  <2>3. QED
    BY <2>1, <2>2, <1>1 DEF Element, Elements, Ends
<1>5. ASSUME kind = "confirm" PROVE body = Forgery \/ body.key.info[3] = role[p]
  <2>1. body = Forgery \/ \E x \in Ends : x # e /\ body = ConfirmTag(x)
    BY <1>5 DEF Sayings
  <2>2. ConfirmTag(p).key.info[3] = role[p]
    BY DEF ConfirmTag, Key
  <2>3. QED
    BY <2>1, <2>2, <1>1
<1>6. QED
  BY <1>2, <1>3, <1>4, <1>5 DEF StrangeWord

LEMMA StrangeKeeps ==
  ASSUME HandshakeAssumption, AgreementInv, NEW e \in Ends, Strange(e)
  PROVE  AgreementInv'
<1> DEFINE p == PeerOf(e)
<1>1. e \in foreign /\ step' = step /\ version' = version /\ heard' = heard /\ UNCHANGED Setup
  BY DEF Strange
<1>2. CASE wire' = wire
  BY <1>1, <1>2, NothingSaidKeeps
<1>3. ASSUME NEW kind \in DOMAIN Sayings(e), NEW body \in Sayings(e)[kind],
             wire' = [wire EXCEPT ![e] = Append(@, Said(kind, body))]
      PROVE  AgreementInv'
  <2> DEFINE m == Said(kind, body)
  <2>1. /\ ValuesOK /\ Good(e) /\ Good(p) /\ p \in Ends /\ p # e /\ PeerOf(p) = e
        /\ HeardInv(e) /\ IsSequence(wire[e]) /\ IsSequence(wire[p])
    BY Peers DEF AgreementInv, Good, ValuesOK
  <2>2. StrangeWord(e, m)
    BY <2>1, StrangeSaysStrange DEF Said
  <2>3. step[e] = "start" /\ ~Told(e)
    BY <1>1, <2>1 DEF HeardInv
  <2> HIDE DEF m
  <2>4. /\ DOMAIN wire' = Ends /\ wire' = [x \in Ends |-> wire'[x]]
        /\ wire'[e] = Append(wire[e], m) /\ wire'[p] = wire[p]
        /\ IsSequence(wire'[e]) /\ IsSequence(wire'[p])
    <3>1. wire' = [wire EXCEPT ![e] = Append(@, m)]
      BY <1>3 DEF m
    <3>2. QED
      BY <2>1, <3>1, WireTyped
  <2>5. ValuesOK'
    <3>1. version' \in [Ends -> Nat] /\ heard' \in [Ends -> [hello : Hellos, pake : Elements]]
      BY <1>1, <2>1 DEF ValuesOK
    <3>2. "start" \in Live \cup Errors
      BY DEF Live
    <3>3. QED
      BY <1>1, <2>1, <2>4, <3>1, <3>2, TypeKept
  <2>6. WireInv(e)' /\ WireInv(p)'
    <3>1. WireInv(e) /\ WireInv(p)
      BY <2>1 DEF Good
    <3>2. WireInv(e)'
      BY <1>1, <2>1, <2>2, <2>3, <2>4, <3>1, WireGrows
    <3>3. WireInv(p)'
      BY <1>1, <2>1, <2>4, <3>1, WireStays
    <3>4. QED
      BY <3>2, <3>3
  <2>7. OrderInv(e)' /\ OrderInv(p)'
    <3>1. OrderInv(e)'
      BY <1>1 DEF OrderInv, Setup
    <3>2. OrderInv(p)'
      BY <1>1, <2>1, <2>4 DEF Good, OrderInv, Setup
    <3>3. QED
      BY <3>1, <3>2
  <2>8. HeardInv(e)' /\ EndInv(e)' /\ HeardInv(p)' /\ EndInv(p)'
    <3>1. (Told(e) => Told(e)') /\ (Told(p) => Told(p)')
      BY <1>1 DEF Told
    <3>2. HeardInv(e)' /\ HeardInv(p)'
      BY <1>1, <2>1, HeardStays DEF Good
    <3>3. EndInv(e)' /\ EndInv(p)'
      BY <1>1, <2>1, <3>1, EndStays DEF Good
    <3>4. QED
      BY <3>2, <3>3
  <2>9. Good(e)' /\ Good(p)'
    BY <2>6, <2>7, <2>8 DEF Good
  <2>10. QED
    BY <2>5, <2>9, Together
<1>4. QED
  BY <1>2, <1>3 DEF Strange

LEMMA NextKeeps ==
  ASSUME HandshakeAssumption, AgreementInv, [HandshakeNext]_handshakeVars
  PROVE  AgreementInv'
<1>1. CASE HandshakeNext
  <2>1. PICK e \in Ends :
          \/ Begin(e) \/ ReadMagic(e) \/ ReadHello(e) \/ RefuseHello(e) \/ ReadPake(e)
          \/ RefusePake(e) \/ ReadConfirm(e) \/ ReadNoise(e) \/ LosePeer(e) \/ TimesOut(e) \/ Dies(e)
          \/ CloseEnd(e) \/ Strange(e)
    BY <1>1 DEF HandshakeNext
  <2>2. CASE Begin(e)
    BY <2>2, BeginKeeps
  <2>3. CASE ReadMagic(e)
    BY <2>3, ReadMagicKeeps
  <2>4. CASE ReadHello(e)
    BY <2>4, ReadHelloKeeps
  <2>5. CASE RefuseHello(e)
    BY <2>5, RefuseHelloKeeps
  <2>6. CASE ReadPake(e)
    BY <2>6, ReadPakeKeeps
  <2>7. CASE ReadConfirm(e)
    BY <2>7, ReadConfirmKeeps
  <2>8. CASE ReadNoise(e)
    BY <2>8, ReadNoiseKeeps
  <2>9. CASE LosePeer(e) \/ TimesOut(e) \/ Dies(e)
    BY <2>9, LostKeeps
  <2>10. CASE CloseEnd(e)
    BY <2>10, NothingSaidKeeps DEF CloseEnd
  <2>11. CASE Strange(e)
    BY <2>11, StrangeKeeps
  <2>12. CASE RefusePake(e)
    BY <2>12, RefusePakeKeeps
  <2>13. QED
    BY <2>1, <2>2, <2>3, <2>4, <2>5, <2>6, <2>7, <2>8, <2>9, <2>10, <2>11, <2>12
<1>2. CASE UNCHANGED handshakeVars
  <2>1. UNCHANGED <<step, wire, version, heard, Setup>>
    BY <1>2 DEF handshakeVars, Setup
  <2>2. QED
    BY <2>1, NothingSaidKeeps
<1>3. QED
  BY <1>1, <1>2

-----------------------------------------------------------------------------
LEMMA SessionsAgree == ASSUME HandshakeAssumption, AgreementInv PROVE SameSession
<1> SUFFICES ASSUME NEW e \in Ends, step[e] = "done"
             PROVE  /\ PeerOf(e) \notin foreign
                    /\ codeOf[e] = codeOf[PeerOf(e)] /\ role[e] = Opposite(role[PeerOf(e)])
                    /\ step[PeerOf(e)] \in {"confirm", "done"} \cup Lost
                    /\ SealKey(e) = OpenKey(PeerOf(e)) /\ OpenKey(e) = SealKey(PeerOf(e))
                    /\ version[e] = version[PeerOf(e)]
                    /\ \A x \in Ends : version[e] >= build[x].min /\ version[e] <= build[x].max
                    /\ \E x \in Ends : version[e] = build[x].max
  BY DEF SameSession
<1> DEFINE p == PeerOf(e)
<1>1. /\ p \in Ends /\ PeerOf(p) = e /\ ValuesOK
      /\ HeardInv(e) /\ HeardInv(p) /\ EndInv(e) /\ EndInv(p)
  BY Peers DEF AgreementInv, Good
<1>2. Told(e) /\ Told(p) /\ codeOf[e] = codeOf[p] /\ p \notin foreign /\ e \notin foreign
  BY <1>1 DEF HeardInv, EndInv
<1>8. foreign = {}
  BY <1>1, <1>2, Peers DEF ValuesOK
<1>3. /\ Transcript(e) = Transcript(p) /\ version[e] = version[p]
      /\ role[p] = Opposite(role[e]) /\ role[e] = Opposite(role[p])
      /\ PakeOutput(e) = PakeOutput(p)
  BY <1>1, <1>2, <1>8, TagsMatch, Typed
<1>4. p \notin foreign /\ step[p] \in {"confirm", "done"} \cup Lost
  BY <1>1, <1>2 DEF HeardInv, EndInv
<1>5. SealKey(e) = OpenKey(p) /\ OpenKey(e) = SealKey(p)
  BY <1>3 DEF SealKey, OpenKey, Key
<1>6. /\ \A x \in Ends : version[e] >= build[x].min /\ version[e] <= build[x].max
      /\ \E x \in Ends : version[e] = build[x].max
  <2>1. /\ SharesVersion(e, LocalHello(p)) /\ version[e] = ChosenVersion(e, LocalHello(p))
    BY <1>1, <1>2 DEF HeardInv
  <2>2. /\ build[e].min \in Nat /\ build[e].max \in Nat
        /\ build[p].min \in Nat /\ build[p].max \in Nat
    BY <1>1, Typed
  <2>3. /\ version[e] >= build[e].min /\ version[e] >= build[p].min
        /\ version[e] <= build[e].max /\ version[e] <= build[p].max
        /\ version[e] = build[e].max \/ version[e] = build[p].max
    BY <2>1, <2>2 DEF SharesVersion, ChosenVersion, LocalHello, Least
  <2>4. \A x \in Ends : x = e \/ x = p
    BY Peers
  <2>5. QED
    BY <1>1, <2>3, <2>4
<1>7. QED
  BY <1>2, <1>3, <1>4, <1>5, <1>6

LEMMA CausesAreTrue == ASSUME AgreementInv PROVE ErrorsAreTrue
<1> SUFFICES ASSUME NEW e \in Ends, PeerOf(e) \notin foreign
             PROVE  /\ step[e] = "KeyMismatch" => codeOf["a"] # codeOf["b"]
                    /\ step[e] = "IncompatibleVersion" => ~Overlap
                    /\ step[e] = "Malformed" => role["a"] = role["b"]
                    /\ step[e] \notin Foul
  BY DEF ErrorsAreTrue, Foul
<1>1. EndInv(e) /\ {e, PeerOf(e)} = {"a", "b"}
  BY Peers DEF AgreementInv, Good
<1>2. QED
  BY <1>1 DEF EndInv

LEMMA SomebodyReads == ASSUME AgreementInv PROVE NobodyWaitsForNobody
<1> SUFFICES ASSUME \A e \in Ends : /\ step[e] \in Reading
                                    /\ wire[e] = <<>> /\ PeerOf(e) \notin foreign
             PROVE  FALSE
  BY DEF NobodyWaitsForNobody
<1>1. /\ "a" \in Ends /\ "b" \in Ends /\ PeerOf("a") = "b" /\ PeerOf("b") = "a"
      /\ OrderInv("a") /\ OrderInv("b")
  BY DEF AgreementInv, Good, Ends, PeerOf
<1>2. ASSUME NEW e \in Ends PROVE Read(step[e]) \in Nat /\ SaidBy(step[e]) = Read(step[e]) + 1
  BY DEF Read, SaidBy, Reading
<1>3. SaidBy(step["a"]) = Read(step["b"]) /\ SaidBy(step["b"]) = Read(step["a"])
  BY <1>1, <1>2 DEF OrderInv, Live, Reading
<1>4. QED
  BY <1>1, <1>2, <1>3

LEMMA AlwaysGood == ASSUME HandshakeAssumption PROVE HandshakeSpec => []AgreementInv
<1>1. HandshakeInit => AgreementInv
  BY AgreementInit
<1>2. AgreementInv /\ [HandshakeNext]_handshakeVars => AgreementInv'
  BY NextKeeps
<1>3. QED
  BY <1>1, <1>2, PTL DEF HandshakeSpec

\* For all builds and codes: a channel is established only between a sender and
\* a receiver that have the same code, with one version, the highest that both
\* know, and with keys that fit, and its other end is not told of an error of
\* the handshake (Channel::establish).
THEOREM EstablishedIsShared == ASSUME HandshakeAssumption PROVE HandshakeSpec => []SameSession
<1>1. AgreementInv => SameSession
  BY SessionsAgree
<1>2. QED
  BY <1>1, AlwaysGood, PTL

\* For all builds and codes, between two programs that run establish: what it
\* reports is the true cause, a wrong code is never reported to two users who
\* have the same, and no message is ever taken for out of turn or for none
\* (verify_confirm, negotiate_version, check_role, expect_pake). A stranger may
\* say every message well-formed, forged or reflected.
THEOREM ErrorsNameTheirCause == ASSUME HandshakeAssumption PROVE HandshakeSpec => []ErrorsAreTrue
<1>1. AgreementInv => ErrorsAreTrue
  BY CausesAreTrue
<1>2. QED
  BY <1>1, AlwaysGood, PTL

\* For all builds and codes: as each end writes before it reads, there is
\* always one with something to read, or that can see its peer gone
\* (Channel::establish).
THEOREM HandshakesDoNotLock == ASSUME HandshakeAssumption PROVE HandshakeSpec => []NobodyWaitsForNobody
<1>1. AgreementInv => NobodyWaitsForNobody
  BY SomebodyReads
<1>2. QED
  BY <1>1, AlwaysGood, PTL

-----------------------------------------------------------------------------
(* The frames of an established channel. *)

Agreed ==
  MinOf(MaxFrame, MaxOf(MinOf(caps["sender"], caps["receiver"]), MinFrame))

(* The frames w that s has written when its counter is at n. *)
Numbered(w, s, n) ==
  /\ Len(w) <= n
  /\ \A i \in 1..Len(w) : /\ w[i].key = s
                          /\ w[i].nonce >= i - 1
                          /\ w[i].nonce + Len(w) <= n + i - 1
  /\ \A i, j \in 1..Len(w) : i < j => w[i].nonce < w[j].nonce

FramesInv == \A s \in Sides : Numbered(written[s], s, sealed[s])

OpeningInv ==
  \A s \in Sides :
    /\ opened[s] <= Len(handed[s]) /\ opened[s] <= Len(written[Peer(s)])
    /\ \A i \in 1..opened[s] :
         handed[s][i] = written[Peer(s)][i] /\ handed[s][i].nonce = i - 1
    /\ ~poisoned[s] => Len(handed[s]) = opened[s]

WritersLimited == \A s \in Sides : phase[s] = "agreed" => writeLimit[s] <= Agreed

LimitsInv ==
  /\ WritersLimited
  /\ \A s \in Sides : /\ readLimit[s] >= Agreed
                       /\ \A i \in 1..Len(written[s]) : written[s][i].size <= Agreed

HonestInv ==
  \A s \in Sides :
    ~disturbed[s] /\ sealed[Peer(s)] = Len(written[Peer(s)])
      => /\ passed[s] = opened[s] /\ ~poisoned[s]
         /\ status[s] \notin Refusals

IInv == TypeOK /\ FramesInv /\ OpeningInv /\ LimitsInv /\ HonestInv

LEMMA SidesAndPeers ==
  \A s \in Sides : Peer(s) \in Sides /\ Peer(s) # s /\ Peer(Peer(s)) = s
BY DEF Sides, Peer

LEMMA PhaseWords == "start" \in Phases /\ "told" \in Phases /\ "agreed" \in Phases
BY DEF Phases

LEMMA StreamWords == /\ "flowing" \in Streams /\ "boundary" \in Streams
                     /\ "header" \in Streams /\ "body" \in Streams
BY DEF Streams

LEMMA ResultWords ==
  /\ "ok" \in Results /\ "decrypt" \in Results /\ "exhausted" \in Results
  /\ "too large" \in Results /\ "closed" \in Results /\ "unexpected end" \in Results
BY DEF Results

LEMMA RefusalWords ==
  "ok" \notin Refusals /\ "closed" \notin Refusals /\ "unexpected end" \notin Refusals
BY DEF Refusals

LEMMA TypedFrames ==
  ASSUME TypeOK, NEW t \in Sides
  PROVE  /\ Len(written[t]) \in Nat /\ sealed[t] \in Nat /\ opened[t] \in Nat
         /\ \A i \in 1..Len(written[t]) :
              written[t][i] \in Frames /\ written[t][i].nonce \in Nat /\ written[t][i].size \in Nat
<1>1. written[t] \in Seq(Frames) /\ sealed[t] \in 0..MaxCounter /\ opened[t] \in 0..MaxCounter
  BY DEF TypeOK
<1>2. \A f \in Frames : f.nonce \in Nat /\ f.size \in Nat
  BY DEF Frames, Sizes
<1>3. QED  BY <1>1, <1>2

(* What both sides compute from the two capabilities is the same. *)
LEMMA AgreedIsCommon ==
  ASSUME caps \in [Sides -> Caps]
  PROVE  /\ Agreed \in Sizes
         /\ \A s \in Sides, limit \in Sizes :
              LET mine == MinOf(limit, MaxOf(MinOf(caps[s], caps[Peer(s)]), MinFrame))
              IN  /\ mine \in Sizes /\ mine <= Agreed
                  /\ limit >= Agreed => mine >= Agreed
<1>1. caps["sender"] \in Nat \ {0} /\ caps["receiver"] \in Nat \ {0}
  BY CipherAssumption DEF Sides
<1>2. QED  BY <1>1, CipherAssumption DEF Agreed, Sizes, Sides, Peer, MinOf, MaxOf

LEMMA FrameTypes == \A f \in Frames : f.nonce \in Nat /\ f.size \in Nat
BY DEF Frames, Sizes

(* A frame that is sealed and not written leaves a gap. *)
LEMMA NumberedLater ==
  ASSUME NEW s, NEW n \in Nat, NEW w \in Seq(Frames), Numbered(w, s, n)
  PROVE  Numbered(w, s, n + 1)
<1>1. Len(w) \in Nat /\ \A i \in 1..Len(w) : w[i].nonce \in Nat
  BY FrameTypes
<1>2. QED  BY <1>1 DEF Numbered

LEMMA NumberedAppend ==
  ASSUME NEW s, NEW n \in Nat, NEW w \in Seq(Frames), Numbered(w, s, n),
         NEW f \in Frames, f.key = s, f.nonce = n
  PROVE  Numbered(Append(w, f), s, n + 1)
<1> DEFINE v == Append(w, f)
           k == Len(w) + 1
<1>1. /\ Len(v) = k /\ v[k] = f /\ Len(w) \in Nat
      /\ \A i \in 1..Len(w) : v[i] = w[i] /\ w[i].nonce \in Nat
      /\ \A i \in 1..Len(v) : i \in 1..Len(w) \/ i = k
  BY FrameTypes
<1> HIDE DEF v
<1>2. Len(v) <= n + 1
  BY <1>1 DEF Numbered
<1>3. ASSUME NEW i \in 1..Len(v)
      PROVE  v[i].key = s /\ v[i].nonce >= i - 1 /\ v[i].nonce + Len(v) <= n + 1 + i - 1
  <2>1. CASE i \in 1..Len(w)
    <3>1. w[i].key = s /\ w[i].nonce >= i - 1 /\ w[i].nonce + Len(w) <= n + i - 1
      BY <2>1 DEF Numbered
    <3>2. v[i] = w[i] /\ w[i].nonce \in Nat /\ Len(v) = Len(w) + 1 /\ Len(w) \in Nat
      BY <1>1, <2>1
    <3>3. QED  BY <2>1, <3>1, <3>2
  <2>2. CASE i = k  BY <1>1, <2>2 DEF Numbered
  <2>3. QED  BY <1>1, <2>1, <2>2
<1>4. ASSUME NEW i \in 1..Len(v), NEW j \in 1..Len(v), i < j
      PROVE  v[i].nonce < v[j].nonce
  <2>1. i \in 1..Len(w)
    BY <1>1, <1>4
  <2>2. CASE j \in 1..Len(w)  BY <1>1, <1>4, <2>1, <2>2 DEF Numbered
  <2>3. CASE j = k
    <3>1. w[i].nonce + Len(w) <= n + i - 1
      BY <2>1 DEF Numbered
    <3>2. QED  BY <1>1, <2>1, <2>3, <3>1
  <2>4. QED  BY <1>1, <2>2, <2>3
<1>5. Numbered(v, s, n + 1)
  BY <1>2, <1>3, <1>4 DEF Numbered
<1>6. QED  BY <1>5 DEF v

LEMMA InitInv == Init => IInv
<1> SUFFICES ASSUME Init  PROVE IInv
  OBVIOUS
<1>1. TypeOK
  <2>1. /\ MaxFrame \in Sizes /\ 0 \in 0..MaxCounter /\ 0 \in Nat
        /\ <<>> \in Seq(Frames) /\ <<>> \in Seq(Frames \cup Forged)
    BY CipherAssumption DEF Sizes
  <2>2. /\ caps \in [Sides -> Caps] /\ phase \in [Sides -> Phases]
        /\ stream \in [Sides -> Streams] /\ status \in [Sides -> Results]
    BY PhaseWords, StreamWords, ResultWords DEF Init
  <2>3. /\ sealed \in [Sides -> 0..MaxCounter] /\ opened \in [Sides -> 0..MaxCounter]
        /\ passed \in [Sides -> Nat]
    BY <2>1 DEF Init
  <2>4. written \in [Sides -> Seq(Frames)] /\ handed \in [Sides -> Seq(Frames \cup Forged)]
    BY <2>1 DEF Init
  <2>5. /\ disturbed \in [Sides -> BOOLEAN] /\ poisoned \in [Sides -> BOOLEAN]
        /\ readLimit \in [Sides -> Sizes] /\ writeLimit \in [Sides -> Sizes]
    BY <2>1 DEF Init
  <2>6. QED  BY <2>2, <2>3, <2>4, <2>5 DEF TypeOK
<1>2. FramesInv /\ OpeningInv
  BY SidesAndPeers DEF Init, FramesInv, Numbered, OpeningInv
<1>3. HonestInv
  BY SidesAndPeers, RefusalWords DEF Init, HonestInv
<1>4. LimitsInv
  <2>1. Agreed \in Sizes
    BY <1>1, AgreedIsCommon DEF TypeOK
  <2>2. QED  BY <2>1 DEF Init, LimitsInv, WritersLimited, Sizes
<1>5. QED  BY <1>1, <1>2, <1>3, <1>4 DEF IInv

(* A frame more, or one that was sealed for nothing. *)
LEMMA WriteKeepsInv ==
  ASSUME IInv, NEW s \in Sides, NEW size \in Sizes, Write(s, size),
         size <= writeLimit[s] => size <= Agreed,
         phase' \in [Sides -> Phases], WritersLimited'
  PROVE  IInv'
<1> DEFINE new == Frame(s, size)
<1>1. /\ caps' = caps /\ passed' = passed /\ disturbed' = disturbed /\ stream' = stream
      /\ opened' = opened /\ poisoned' = poisoned /\ handed' = handed
      /\ status' = status /\ readLimit' = readLimit /\ writeLimit' = writeLimit
      /\ sealed' = [sealed EXCEPT ![s] = @ + 1] /\ sealed[s] < MaxCounter
  BY DEF Write
<1>2. /\ sealed \in [Sides -> 0..MaxCounter] /\ written \in [Sides -> Seq(Frames)]
      /\ Agreed' = Agreed
  BY <1>1 DEF IInv, TypeOK, Agreed
<1>3. new \in Frames /\ new.key = s /\ new.nonce = sealed[s] /\ new.size = size
  BY <1>1, <1>2 DEF Frame, Frames, KeyOf
<1>4. \/ written' = written
      \/ written' = [written EXCEPT ![s] = Append(@, new)] /\ size <= Agreed
  BY DEF Write
<1> HIDE DEF new
<1>5. TypeOK'
  <2>1. sealed' \in [Sides -> 0..MaxCounter]
    BY <1>1, <1>2, CipherAssumption
  <2>2. written' \in [Sides -> Seq(Frames)]
    <3>1. Append(written[s], new) \in Seq(Frames)
      BY <1>2, <1>3
    <3>2. QED  BY <1>2, <1>4, <3>1
  <2>3. QED  BY <1>1, <2>1, <2>2 DEF IInv, TypeOK
<1>6. ASSUME NEW t \in Sides
      PROVE  /\ Len(written[t]) \in Nat /\ sealed[t] \in Nat /\ written[t] \in Seq(Frames)
             /\ \/ written'[t] = written[t] /\ sealed'[t] \in {sealed[t], sealed[t] + 1}
                \/ /\ t = s /\ written'[t] = Append(written[t], new) /\ size <= Agreed
                   /\ sealed'[t] = sealed[t] + 1
  BY <1>1, <1>2, <1>4
<1>7. FramesInv'
  <2> SUFFICES ASSUME NEW t \in Sides  PROVE Numbered(written'[t], t, sealed'[t])
    BY DEF FramesInv
  <2>1. Numbered(written[t], t, sealed[t])
    BY DEF IInv, FramesInv
  <2>2. Numbered(written[t], t, sealed[t] + 1)
    BY <1>6, <2>1, NumberedLater
  <2>3. t = s => Numbered(Append(written[t], new), t, sealed[t] + 1)
    BY <1>3, <1>6, <2>1, NumberedAppend
  <2>4. QED  BY <1>6, <2>1, <2>2, <2>3
<1>8. ASSUME NEW t \in Sides
      PROVE  /\ Len(written'[t]) \in Nat /\ Len(written'[t]) >= Len(written[t])
             /\ \A i \in 1..Len(written[t]) : written'[t][i] = written[t][i]
             /\ \A i \in 1..Len(written'[t]) :
                  i \in 1..Len(written[t]) \/ (written'[t][i] = new /\ size <= Agreed)
  <2>1. CASE written'[t] = written[t]
    <3>1. Len(written[t]) \in Nat
      BY TypedFrames DEF IInv
    <3>2. QED  BY <2>1, <3>1
  <2>2. CASE written'[t] = Append(written[t], new) /\ size <= Agreed
    <3>1. /\ Len(written'[t]) = Len(written[t]) + 1 /\ written'[t][Len(written[t]) + 1] = new
          /\ \A i \in 1..Len(written[t]) : written'[t][i] = written[t][i]
      BY <1>3, <1>6, <2>2
    <3>2. QED  BY <1>6, <2>2, <3>1
  <2>3. QED  BY <1>6, <2>1, <2>2
<1>9. OpeningInv'
  <2> SUFFICES ASSUME NEW t \in Sides
               PROVE  /\ opened[t] <= Len(handed[t]) /\ opened[t] <= Len(written'[Peer(t)])
                      /\ \A i \in 1..opened[t] :
                           handed[t][i] = written'[Peer(t)][i] /\ handed[t][i].nonce = i - 1
                      /\ ~poisoned[t] => Len(handed[t]) = opened[t]
    BY <1>1 DEF OpeningInv
  <2>1. Peer(t) \in Sides /\ opened[t] \in Nat
    BY SidesAndPeers DEF IInv, TypeOK
  <2>2. QED  BY <1>6, <1>8, <2>1 DEF IInv, OpeningInv
<1>10. LimitsInv'
  <2> SUFFICES ASSUME NEW t \in Sides
               PROVE  /\ readLimit[t] >= Agreed
                      /\ \A i \in 1..Len(written'[t]) : written'[t][i].size <= Agreed
    BY <1>1, <1>2 DEF LimitsInv
  <2>1. /\ readLimit[t] >= Agreed
        /\ \A i \in 1..Len(written[t]) : written[t][i].size <= Agreed
    BY DEF IInv, LimitsInv
  <2>2. QED  BY <1>3, <1>8, <2>1
<1>11. HonestInv'
  <2> SUFFICES ASSUME NEW t \in Sides, ~disturbed[t],
                      sealed'[Peer(t)] = Len(written'[Peer(t)])
               PROVE  passed[t] = opened[t] /\ ~poisoned[t] /\ status[t] \notin Refusals
    BY <1>1 DEF HonestInv
  <2>1. Peer(t) \in Sides /\ Len(written[Peer(t)]) <= sealed[Peer(t)]
    BY SidesAndPeers DEF IInv, FramesInv, Numbered
  <2>2. Len(Append(written[Peer(t)], new)) = Len(written[Peer(t)]) + 1
    BY <1>3, <1>6, <2>1
  <2>3. sealed[Peer(t)] = Len(written[Peer(t)])
    BY <1>6, <2>1, <2>2
  <2>4. QED  BY <2>3 DEF IInv, HonestInv
<1>12. QED  BY <1>5, <1>7, <1>9, <1>10, <1>11 DEF IInv

(* What has been opened was sealed under the nonces 0, 1, 2, ... *)
LEMMA OpenedNonces ==
  ASSUME OpeningInv, NEW s \in Sides, NEW i \in 1..opened[s]
  PROVE  written[Peer(s)][i].nonce = i - 1
BY DEF OpeningInv

(* The only frame that opens is the next one of the peer. *)
LEMMA OnlyTheNextOpens ==
  ASSUME IInv, NEW s \in Sides, NEW f \in Written \cup Forged, Ideal(s, f)
  PROVE  /\ opened[s] < MaxCounter
         /\ opened[s] < Len(written[Peer(s)])
         /\ f = written[Peer(s)][opened[s] + 1]
<1> DEFINE p == Peer(s)
           n == opened[s]
<1>1. f.key = p /\ f.nonce = n
  BY DEF Ideal, KeyOf
<1>2. f \in Written
  BY <1>1 DEF Forged, Sides, Peer
<1>3. PICK t \in Sides : \E k \in 1..Len(written[t]) : f = written[t][k]
  BY <1>2 DEF Written
<1>4. PICK j \in 1..Len(written[t]) : f = written[t][j]
  BY <1>3
<1>5. t = p
  BY <1>1, <1>4 DEF IInv, FramesInv, Numbered
<1>6. /\ Len(written[p]) \in Nat /\ n \in Nat /\ sealed[p] \in 0..MaxCounter
      /\ \A i \in 1..Len(written[p]) : written[p][i].nonce \in Nat
  BY SidesAndPeers, TypedFrames DEF IInv, TypeOK
<1>7. n < MaxCounter
  <2>1. written[p][j].nonce + Len(written[p]) <= sealed[p] + j - 1
    BY <1>4, <1>5 DEF IInv, FramesInv, Numbered
  <2>2. QED  BY <1>1, <1>4, <1>5, <1>6, <2>1, CipherAssumption
<1>8. j >= n + 1
  <2>1. j \in 1..n => written[p][j].nonce = j - 1
    BY OpenedNonces DEF IInv
  <2>2. QED  BY <1>1, <1>4, <1>5, <1>6, <2>1
<1>9. j <= n + 1
  <2>1. written[p][j].nonce >= j - 1
    BY <1>4, <1>5 DEF IInv, FramesInv, Numbered
  <2>2. QED  BY <1>1, <1>4, <1>5, <1>6, <2>1
<1>10. QED  BY <1>4, <1>5, <1>6, <1>7, <1>8, <1>9

(* recv of any frame, honest or not. *)
LEMMA RecvKeepsInv ==
  ASSUME IInv, NEW s \in Sides, NEW f \in Written \cup Forged, Recv(s, f),
         passed' \in [Sides -> Nat], disturbed' \in [Sides -> BOOLEAN]
  PROVE  (TypeOK /\ FramesInv /\ OpeningInv /\ LimitsInv)'
<1> USE SidesAndPeers
<1>1. /\ caps' = caps /\ phase' = phase /\ sealed' = sealed /\ written' = written
      /\ stream' = stream /\ readLimit' = readLimit /\ writeLimit' = writeLimit
  BY DEF Recv
<1>2. (FramesInv /\ LimitsInv)'
  BY <1>1 DEF IInv, FramesInv, LimitsInv, WritersLimited, Agreed
<1>3. f \in Frames \cup Forged
  BY DEF IInv, TypeOK, Written
<1>4. /\ status \in [Sides -> Results]
      /\ handed \in [Sides -> Seq(Frames \cup Forged)]
      /\ opened \in [Sides -> 0..MaxCounter] /\ poisoned \in [Sides -> BOOLEAN]
  BY DEF IInv, TypeOK
<1>5. CASE UNCHANGED <<opened, handed>> /\ (UNCHANGED poisoned \/ poisoned' = [poisoned EXCEPT ![s] = TRUE])
  <2>1. OpeningInv'
    BY <1>1, <1>4, <1>5 DEF IInv, OpeningInv
  <2>2. status' \in [Sides -> Results]
    <3>1. \E what \in Results : Returns(s, what)
      BY ResultWords DEF Recv, Open
    <3>2. QED  BY <1>4, <3>1 DEF Returns
  <2>3. TypeOK'
    BY <1>1, <1>4, <1>5, <2>2 DEF IInv, TypeOK
  <2>4. QED  BY <1>2, <2>1, <2>3
<1>6. CASE /\ ~poisoned[s] /\ handed' = [handed EXCEPT ![s] = Append(@, f)] /\ ~Ideal(s, f)
           /\ poisoned' = [poisoned EXCEPT ![s] = TRUE] /\ UNCHANGED opened
           /\ Returns(s, "decrypt")
  <2>1. /\ \A t \in Sides : t # s => handed'[t] = handed[t] /\ poisoned'[t] = poisoned[t]
        /\ Len(handed'[s]) = Len(handed[s]) + 1
        /\ \A i \in 1..Len(handed[s]) : handed'[s][i] = handed[s][i]
        /\ Len(handed[s]) \in Nat /\ opened[s] \in Nat
        /\ handed' \in [Sides -> Seq(Frames \cup Forged)] /\ poisoned'[s]
    BY <1>3, <1>4, <1>6
  <2>2. OpeningInv'
    BY <1>1, <1>6, <2>1 DEF IInv, OpeningInv
  <2>3. TypeOK'
    BY <1>1, <1>4, <1>6, <2>1, ResultWords DEF IInv, TypeOK, Returns
  <2>4. QED  BY <1>2, <2>2, <2>3
<1>7. CASE /\ ~poisoned[s] /\ handed' = [handed EXCEPT ![s] = Append(@, f)] /\ Ideal(s, f)
           /\ opened' = [opened EXCEPT ![s] = @ + 1] /\ UNCHANGED poisoned
           /\ Returns(s, "ok")
  <2>1. /\ opened[s] < MaxCounter /\ opened[s] < Len(written[Peer(s)])
        /\ f = written[Peer(s)][opened[s] + 1] /\ f.nonce = opened[s]
    BY <1>7, OnlyTheNextOpens DEF Ideal
  <2>2. /\ \A t \in Sides : t # s => handed'[t] = handed[t] /\ opened'[t] = opened[t]
        /\ Len(handed[s]) = opened[s] /\ Len(handed'[s]) = opened[s] + 1
        /\ \A i \in 1..opened[s] : handed'[s][i] = handed[s][i]
        /\ handed'[s][opened[s] + 1] = f
        /\ opened'[s] = opened[s] + 1 /\ opened[s] \in Nat
        /\ handed' \in [Sides -> Seq(Frames \cup Forged)]
        /\ opened' \in [Sides -> 0..MaxCounter]
    <3>1. Len(handed[s]) = opened[s] /\ opened[s] \in Nat /\ handed[s] \in Seq(Frames \cup Forged)
      BY <1>4, <1>7 DEF IInv, OpeningInv
    <3>2. /\ \A t \in Sides : t # s => handed'[t] = handed[t] /\ opened'[t] = opened[t]
          /\ handed'[s] = Append(handed[s], f) /\ opened'[s] = opened[s] + 1
      BY <1>4, <1>7
    <3>3. /\ Len(handed'[s]) = opened[s] + 1 /\ handed'[s][opened[s] + 1] = f
          /\ \A i \in 1..opened[s] : handed'[s][i] = handed[s][i]
          /\ handed'[s] \in Seq(Frames \cup Forged)
      BY <1>3, <3>1, <3>2
    <3>4. handed' \in [Sides -> Seq(Frames \cup Forged)]
      BY <1>4, <1>7, <3>2, <3>3
    <3>5. opened' \in [Sides -> 0..MaxCounter]
      BY <1>4, <1>7, <2>1, CipherAssumption
    <3>6. QED  BY <3>1, <3>2, <3>3, <3>4, <3>5
  <2>3. \A t \in Sides : Len(written[t]) \in Nat
    BY DEF IInv, TypeOK
  <2>4. OpeningInv'
    <3> SUFFICES ASSUME NEW t \in Sides
                 PROVE  /\ opened'[t] <= Len(handed'[t]) /\ opened'[t] <= Len(written[Peer(t)])
                        /\ \A i \in 1..opened'[t] :
                             handed'[t][i] = written[Peer(t)][i] /\ handed'[t][i].nonce = i - 1
                        /\ ~poisoned[t] => Len(handed'[t]) = opened'[t]
      BY <1>1, <1>7 DEF OpeningInv
    <3>1. CASE t # s
      <4>1. handed'[t] = handed[t] /\ opened'[t] = opened[t]
        BY <2>2, <3>1
      <4>2. QED  BY <4>1 DEF IInv, OpeningInv
    <3>2. CASE t = s
      <4>1. \A i \in 1..opened'[s] : i \in 1..opened[s] \/ i = opened[s] + 1
        BY <2>2
      <4>2. \A i \in 1..opened'[s] :
              handed'[s][i] = written[Peer(s)][i] /\ handed'[s][i].nonce = i - 1
        <5> TAKE i \in 1..opened'[s]
        <5>1. CASE i \in 1..opened[s]
          <6>1. handed[s][i] = written[Peer(s)][i] /\ handed[s][i].nonce = i - 1
            BY <5>1 DEF IInv, OpeningInv
          <6>2. handed'[s][i] = handed[s][i]
            BY <2>2, <5>1
          <6>3. QED  BY <6>1, <6>2
        <5>2. CASE i = opened[s] + 1
          <6>1. handed'[s][i] = f /\ i - 1 = opened[s]
            BY <2>2, <5>2
          <6>2. QED  BY <2>1, <5>2, <6>1
        <5>3. QED  BY <4>1, <5>1, <5>2
      <4>3. QED  BY <2>1, <2>2, <2>3, <3>2, <4>2
    <3>3. QED  BY <3>1, <3>2
  <2>5. TypeOK'
    BY <1>1, <1>4, <1>7, <2>2, ResultWords DEF IInv, TypeOK, Returns
  <2>6. QED  BY <1>2, <2>4, <2>5
<1>8. Ideal(s, f) => opened[s] < MaxCounter
  BY OnlyTheNextOpens
<1>9. opened[s] # MaxCounter \/ ~Ideal(s, f)
  BY <1>4, <1>8
<1>10. QED  BY <1>5, <1>6, <1>7, <1>8, <1>9 DEF Recv, Open

(* On a wire that passes frames on, the next frame opens. *)
LEMMA RecvNextKeepsInv ==
  ASSUME IInv, NEW s \in Sides, RecvNext(s)
  PROVE  IInv'
<1> USE SidesAndPeers
<1> DEFINE p == Peer(s)
           f == written[p][passed[s] + 1]
<1>1. /\ passed[s] \in Nat /\ passed[s] < Len(written[p]) /\ Len(written[p]) \in Nat
      /\ passed \in [Sides -> Nat] /\ disturbed' = disturbed
      /\ disturbed \in [Sides -> BOOLEAN] /\ passed' = [passed EXCEPT ![s] = @ + 1]
      /\ Recv(s, f) /\ sealed' = sealed /\ written' = written
  <2>1. Len(written[p]) \in Nat
    BY TypedFrames DEF IInv
  <2>2. passed \in [Sides -> Nat] /\ disturbed \in [Sides -> BOOLEAN]
    BY DEF IInv, TypeOK
  <2>3. sealed' = sealed /\ written' = written
    BY DEF RecvNext, Recv
  <2>4. QED  BY <2>1, <2>2, <2>3 DEF RecvNext
<1>2. f \in Written
  <2>1. passed[s] + 1 \in 1..Len(written[p])
    BY <1>1
  <2>2. QED  BY <2>1 DEF Written
<1>3. (TypeOK /\ FramesInv /\ OpeningInv /\ LimitsInv)'
  BY <1>1, <1>2, RecvKeepsInv
<1>4. /\ opened \in [Sides -> 0..MaxCounter] /\ poisoned \in [Sides -> BOOLEAN]
      /\ DOMAIN status = Sides
      /\ sealed[p] \in 0..MaxCounter
      /\ f.nonce \in Nat /\ f.size \in Nat /\ Agreed \in Nat /\ readLimit[s] \in Nat
  <2>1. f.nonce \in Nat /\ f.size \in Nat
    <3>1. passed[s] + 1 \in 1..Len(written[p])
      BY <1>1
    <3>2. QED  BY <3>1, TypedFrames DEF IInv
  <2>2. Agreed \in Sizes
    BY AgreedIsCommon DEF IInv, TypeOK
  <2>3. Agreed \in Nat
    BY <2>2 DEF Sizes
  <2>4. readLimit[s] \in Nat
    BY DEF IInv, TypeOK, Sizes
  <2>5. /\ opened \in [Sides -> 0..MaxCounter] /\ poisoned \in [Sides -> BOOLEAN]
        /\ DOMAIN status = Sides /\ sealed[p] \in 0..MaxCounter
    BY DEF IInv, TypeOK
  <2>6. QED  BY <2>1, <2>3, <2>4, <2>5
<1>5. ASSUME ~disturbed[s], sealed[p] = Len(written[p])
      PROVE  opened' = [opened EXCEPT ![s] = @ + 1] /\ Returns(s, "ok") /\ UNCHANGED poisoned
  <2>1. passed[s] = opened[s] /\ ~poisoned[s]
    BY <1>5 DEF IInv, HonestInv
  <2>2. f.key = p /\ f.nonce >= passed[s] /\ f.nonce + Len(written[p]) <= sealed[p] + passed[s]
    <3>1. passed[s] + 1 \in 1..Len(written[p]) /\ passed[s] + 1 - 1 = passed[s]
      BY <1>1
    <3>2. Numbered(written[p], p, sealed[p])
      BY DEF IInv, FramesInv
    <3>3. \A i \in 1..Len(written[p]) :
            /\ written[p][i].key = p /\ written[p][i].nonce >= i - 1
            /\ written[p][i].nonce + Len(written[p]) <= sealed[p] + i - 1
      BY <3>2 DEF Numbered
    <3> DEFINE k == passed[s] + 1
    <3>4. k \in 1..Len(written[p]) /\ f = written[p][k]
      BY <3>1
    <3>5. k = passed[s] + 1
      OBVIOUS
    <3> HIDE DEF k, f
    <3>6. /\ f.key = p /\ f.nonce >= k - 1
          /\ f.nonce + Len(written[p]) <= sealed[p] + k - 1
      BY <3>3, <3>4
    <3>7. QED  BY <1>1, <1>4, <3>5, <3>6
  <2>3. Ideal(s, f)
    BY <1>1, <1>4, <1>5, <2>1, <2>2 DEF Ideal, KeyOf
  <2>4. opened[s] < MaxCounter
    BY <1>2, <2>3, OnlyTheNextOpens
  <2>5. f.size <= readLimit[s]
    <3>1. readLimit[s] >= Agreed /\ passed[s] + 1 \in 1..Len(written[p])
      BY <1>1 DEF IInv, LimitsInv
    <3>2. f.size <= Agreed
      BY <3>1 DEF IInv, LimitsInv
    <3>3. QED  BY <1>4, <3>1, <3>2
  <2>6. QED  BY <1>1, <2>1, <2>3, <2>4, <2>5 DEF Recv, Open
<1>6. \A t \in Sides : t # s => /\ opened'[t] = opened[t] /\ status'[t] = status[t]
                                /\ poisoned'[t] = poisoned[t] /\ passed'[t] = passed[t]
  BY <1>1, <1>4 DEF Recv, Open, Returns
<1>7. HonestInv'
  <2> SUFFICES ASSUME NEW t \in Sides, ~disturbed[t],
                      sealed[Peer(t)] = Len(written[Peer(t)])
               PROVE  /\ passed'[t] = opened'[t] /\ ~poisoned'[t]
                      /\ status'[t] \notin Refusals
    BY <1>1 DEF HonestInv
  <2>1. CASE t # s  BY <1>6, <2>1 DEF IInv, HonestInv
  <2>2. CASE t = s
    <3>1. passed[s] = opened[s] /\ ~poisoned[s]
      BY <2>2 DEF IInv, HonestInv
    <3>2. opened' = [opened EXCEPT ![s] = @ + 1] /\ Returns(s, "ok") /\ UNCHANGED poisoned
      BY <1>5, <2>2
    <3>3. passed'[s] = passed[s] + 1 /\ opened'[s] = opened[s] + 1 /\ status'[s] = "ok"
      BY <1>1, <1>4, <3>2 DEF Returns
    <3>4. QED  BY <2>2, <3>1, <3>2, <3>3, RefusalWords
  <2>3. QED  BY <2>1, <2>2
<1>8. QED  BY <1>3, <1>7 DEF IInv

LEMMA ApplyKeepsInv ==
  ASSUME IInv, NEW s \in Sides, ApplyCapabilities(s)
  PROVE  IInv'
<1> USE SidesAndPeers
<1> DEFINE mine(limit) == MinOf(limit, MaxOf(MinOf(caps[s], caps[Peer(s)]), MinFrame))
<1>1. /\ caps' = caps /\ sealed' = sealed /\ written' = written /\ passed' = passed
      /\ disturbed' = disturbed /\ stream' = stream /\ opened' = opened
      /\ poisoned' = poisoned /\ handed' = handed /\ status' = status
      /\ phase' = [phase EXCEPT ![s] = "agreed"]
      /\ readLimit' = [readLimit EXCEPT ![s] = mine(@)]
      /\ writeLimit' = [writeLimit EXCEPT ![s] = mine(@)]
  BY DEF ApplyCapabilities
<1>2. /\ readLimit \in [Sides -> Sizes] /\ writeLimit \in [Sides -> Sizes]
      /\ caps \in [Sides -> Caps] /\ phase \in [Sides -> Phases]
  BY DEF IInv, TypeOK
<1>3. /\ mine(readLimit[s]) \in Sizes /\ mine(writeLimit[s]) \in Sizes
      /\ mine(writeLimit[s]) <= Agreed
      /\ readLimit[s] >= Agreed => mine(readLimit[s]) >= Agreed
  BY <1>2, AgreedIsCommon
<1> HIDE DEF mine
<1>4. TypeOK'
  <2>1. /\ readLimit' \in [Sides -> Sizes] /\ writeLimit' \in [Sides -> Sizes]
        /\ phase' \in [Sides -> Phases]
    BY <1>1, <1>2, <1>3, PhaseWords
  <2>2. QED  BY <1>1, <2>1 DEF IInv, TypeOK
<1>5. LimitsInv'
  <2>1. Agreed' = Agreed
    BY <1>1 DEF Agreed
  <2>2. QED  BY <1>1, <1>2, <1>3, <2>1 DEF IInv, LimitsInv, WritersLimited
<1>6. (FramesInv /\ OpeningInv /\ HonestInv)'
  BY <1>1 DEF IInv, FramesInv, OpeningInv, HonestInv
<1>7. QED  BY <1>4, <1>5, <1>6 DEF IInv

LEMMA StepInv == IInv /\ [Next]_vars => IInv'
<1> SUFFICES ASSUME IInv, [Next]_vars  PROVE IInv'
  OBVIOUS
<1> USE SidesAndPeers
<1>0. CASE UNCHANGED vars
  BY <1>0 DEF vars, IInv, TypeOK, FramesInv, OpeningInv, LimitsInv, HonestInv, WritersLimited, Agreed
<1>1. ASSUME NEW s \in Sides, TellCapabilities(s)  PROVE IInv'
  <2>1. Agreed \in Sizes
    BY AgreedIsCommon DEF IInv, TypeOK
  <2>2. 1 \in Sizes /\ 1 <= Agreed
    BY <2>1, CipherAssumption DEF Sizes
  <2>3. /\ phase' \in [Sides -> Phases]
        /\ WritersLimited'
    <3>1. /\ phase \in [Sides -> Phases] /\ phase' = [phase EXCEPT ![s] = "told"]
          /\ caps' = caps /\ writeLimit' = writeLimit
      BY <1>1 DEF IInv, TypeOK, TellCapabilities, Write
    <3>2. phase' \in [Sides -> Phases] /\ \A t \in Sides : phase'[t] = "agreed" => phase[t] = "agreed"
      BY <3>1, PhaseWords
    <3>3. QED  BY <3>1, <3>2 DEF IInv, LimitsInv, WritersLimited, Agreed
  <2>4. Write(s, 1)
    BY <1>1 DEF TellCapabilities
  <2>5. QED  BY <2>2, <2>3, <2>4, WriteKeepsInv
<1>2. ASSUME NEW s \in Sides, ApplyCapabilities(s)  PROVE IInv'
  BY <1>2, ApplyKeepsInv
<1>3. ASSUME NEW s \in Sides, SendMessage(s)  PROVE IInv'
  <2>1. PICK size \in Sizes : Write(s, size)
    BY <1>3 DEF SendMessage
  <2>2. phase' = phase /\ phase \in [Sides -> Phases] /\ phase[s] = "agreed"
    BY <1>3 DEF IInv, TypeOK, SendMessage
  <2>3. /\ writeLimit[s] \in Sizes /\ Agreed \in Sizes /\ writeLimit[s] <= Agreed
    BY <2>2, AgreedIsCommon DEF IInv, TypeOK, LimitsInv, WritersLimited
  <2>4. size <= writeLimit[s] => size <= Agreed
    BY <2>3 DEF Sizes
  <2>5. WritersLimited'
    BY <2>1, <2>2 DEF Write, IInv, LimitsInv, WritersLimited, Agreed
  <2>6. QED  BY <2>1, <2>2, <2>4, <2>5, WriteKeepsInv
<1>4. ASSUME NEW s \in Sides, RecvNext(s)  PROVE IInv'
  BY <1>4, RecvNextKeepsInv
<1>5. ASSUME NEW s \in Sides, RecvOther(s)  PROVE IInv'
  <2>1. PICK f \in Written \cup Forged : Recv(s, f)
    BY <1>5 DEF RecvOther
  <2>2. /\ passed' = passed /\ disturbed' = [disturbed EXCEPT ![s] = TRUE]
        /\ passed \in [Sides -> Nat] /\ disturbed \in [Sides -> BOOLEAN]
        /\ sealed' = sealed /\ written' = written /\ DOMAIN status = Sides
        /\ opened \in [Sides -> 0..MaxCounter] /\ poisoned \in [Sides -> BOOLEAN]
    BY <1>5, <2>1 DEF IInv, TypeOK, RecvOther, Recv
  <2>3. (TypeOK /\ FramesInv /\ OpeningInv /\ LimitsInv)'
    BY <2>1, <2>2, RecvKeepsInv
  <2>4. \A t \in Sides : t # s => /\ opened'[t] = opened[t] /\ status'[t] = status[t]
                                  /\ poisoned'[t] = poisoned[t]
                                  /\ disturbed'[t] = disturbed[t]
    BY <2>1, <2>2 DEF Recv, Open, Returns
  <2>5. HonestInv'
    BY <2>2, <2>4 DEF IInv, HonestInv
  <2>6. QED  BY <2>3, <2>5 DEF IInv
<1>6. ASSUME NEW s \in Sides, RecvEnd(s)  PROVE IInv'
  <2>1. /\ \A t \in Sides : status'[t] = status[t] \/ status'[t] \notin Refusals
        /\ status' \in [Sides -> Results]
    <3>1. status \in [Sides -> Results]
      BY DEF IInv, TypeOK
    <3>2. PICK what \in {"closed", "unexpected end"} : status' = [status EXCEPT ![s] = what]
      BY <1>6 DEF RecvEnd, Returns
    <3>3. QED  BY <3>1, <3>2, ResultWords, RefusalWords
  <2>2. TypeOK'
    BY <1>6, <2>1 DEF IInv, TypeOK, RecvEnd
  <2>3. (FramesInv /\ OpeningInv /\ LimitsInv)'
    BY <1>6 DEF IInv, RecvEnd, FramesInv, OpeningInv, LimitsInv, WritersLimited, Agreed
  <2>4. HonestInv'
    <3>1. /\ sealed' = sealed /\ written' = written /\ disturbed' = disturbed
          /\ passed' = passed /\ opened' = opened /\ poisoned' = poisoned
      BY <1>6 DEF RecvEnd
    <3>2. QED  BY <2>1, <3>1 DEF IInv, HonestInv
  <2>5. QED  BY <2>2, <2>3, <2>4 DEF IInv
<1>7. ASSUME NEW s \in Sides, Lose(s)  PROVE IInv'
  <2>1. TypeOK'
    <3>1. passed \in [Sides -> Nat] /\ disturbed \in [Sides -> BOOLEAN]
      BY DEF IInv, TypeOK
    <3>2. passed' \in [Sides -> Nat] /\ disturbed' \in [Sides -> BOOLEAN]
      BY <1>7, <3>1 DEF Lose
    <3>3. QED  BY <1>7, <3>2 DEF IInv, TypeOK, Lose
  <2>2. (FramesInv /\ OpeningInv /\ LimitsInv)'
    BY <1>7 DEF IInv, Lose, FramesInv, OpeningInv, LimitsInv, WritersLimited, Agreed
  <2>3. HonestInv'
    BY <1>7 DEF IInv, TypeOK, Lose, HonestInv
  <2>4. QED  BY <2>1, <2>2, <2>3 DEF IInv
<1>8. ASSUME NEW s \in Sides, CutOff(s)  PROVE IInv'
  <2>1. TypeOK'
    <3>1. stream \in [Sides -> Streams]
      BY DEF IInv, TypeOK
    <3>2. PICK where \in {"boundary", "header", "body"} : stream' = [stream EXCEPT ![s] = where]
      BY <1>8 DEF CutOff
    <3>3. stream' \in [Sides -> Streams]
      BY <3>1, <3>2, StreamWords
    <3>4. QED  BY <1>8, <3>3 DEF IInv, TypeOK, CutOff
  <2>2. (FramesInv /\ OpeningInv /\ LimitsInv /\ HonestInv)'
    BY <1>8 DEF IInv, CutOff, FramesInv, OpeningInv, LimitsInv, HonestInv, WritersLimited, Agreed
  <2>3. QED  BY <2>1, <2>2 DEF IInv
<1>9. QED
  BY <1>0, <1>1, <1>2, <1>3, <1>4, <1>5, <1>6, <1>7, <1>8 DEF Next

(* Every reachable state of the channel satisfies the inductive invariant. *)
THEOREM Inductive == Spec => []IInv
BY InitInv, StepInv, PTL DEF Spec

(* Counters, limits and frames stay in range (crypto/cipher.rs 37-160). *)
THEOREM TypeCorrect == Spec => []TypeOK
BY Inductive, PTL DEF IInv

(***************************************************************************)
(* No key and nonce are used for two frames, however long the counter is   *)
(* and however many frames are sealed and then refused (cipher.rs 75-87).  *)
(***************************************************************************)
THEOREM NoncesHold == Spec => []NonceUsedOnce
<1>1. IInv => NonceUsedOnce
  <2> SUFFICES ASSUME IInv, NEW s \in Sides, NEW t \in Sides,
                      NEW i \in 1..Len(written[s]), NEW j \in 1..Len(written[t]),
                      written[s][i].key = written[t][j].key,
                      written[s][i].nonce = written[t][j].nonce
               PROVE  s = t /\ i = j
    BY DEF NonceUsedOnce
  <2>1. s = t
    BY DEF IInv, FramesInv, Numbered
  <2>2. /\ Len(written[s]) \in Nat
        /\ \A k \in 1..Len(written[s]) : written[s][k].nonce \in Nat
    BY TypedFrames DEF IInv
  <2>3. ~(i < j) /\ ~(j < i)
    BY <2>1, <2>2 DEF IInv, FramesInv, Numbered
  <2>4. QED  BY <2>1, <2>2, <2>3
<1>2. QED  BY <1>1, Inductive, PTL

(* Whatever the wire does, only a prefix is accepted (cipher.rs 122-159). *)
THEOREM OrderHolds == Spec => []OpenedInOrder
<1>1. IInv => OpenedInOrder
  BY DEF IInv, OpeningInv, OpenedInOrder
<1>2. QED  BY <1>1, Inductive, PTL

(* An honest peer is never refused on an honest wire (channel.rs 150-157). *)
THEOREM HonestHolds == Spec => []HonestStreamHolds
<1>1. IInv => HonestStreamHolds
  BY DEF IInv, HonestInv, HonestStreamHolds
<1>2. QED  BY <1>1, Inductive, PTL
=============================================================================
