--------------------------- MODULE TransferProofs ---------------------------
(***************************************************************************)
(* For any files, directories, sizes, window and faults: the reports of a  *)
(* transfer are true, nothing is left half-written, the receiver never     *)
(* accuses a sender that follows the code, and the transfer implements     *)
(* FileTransfer.                                                           *)
(*                                                                         *)
(* The argument: what the connection holds leads, message by message, from *)
(* where the receiver is in the protocol to where the sender is, unless    *)
(* the connection is broken or the sender has given up.                    *)
(***************************************************************************)
EXTENDS Transfer, WellFoundedInduction, TLAPS

IsSequence(s) == \E S : s \in Seq(S)

SenderPlaces == {"start", "caps", "offer", "answer", "next", "filestart", "open", "data",
                 "chunk", "fileend", "complete", "recover"} \cup Ended
ReceiverPlaces == {"caps", "offer", "deciding", "dirs", "loop", "recv", "mode"} \cup Ended
Counts == [Files -> Nat \cup {Absent}]

TypeOK ==
  /\ size \in [Files -> Nat]
  /\ spc \in SenderPlaces /\ todo \subseteq Files \cup Dirs /\ offset \in Nat /\ sent \in Counts
  /\ rpc \in ReceiverPlaces /\ plan \subseteq Files \cup Dirs
  /\ current \in Files \cup {Absent} /\ received \in Nat /\ committed \in Counts
  /\ IsSequence(s2r) /\ IsSequence(r2s)

Accepted == rpc \notin {"caps", "offer", "deciding"}
NoFiles == [f \in Files |-> Absent]

-----------------------------------------------------------------------------
(* Places in the protocol, and what a message does to them. *)

At(phase, file, count, ended) ==
  [phase |-> phase, file |-> file, count |-> count, ended |-> ended]

InFile == {"open", "data", "chunk", "fileend"}
Working == {"next", "filestart", "complete"} \cup InFile

SenderAt ==
  IF spc = "start" THEN At("caps", Absent, 0, NoFiles)
  ELSE IF spc \in {"caps", "offer"} THEN At("offer", Absent, 0, NoFiles)
  ELSE IF spc \in InFile THEN At("files", First(todo), offset, sent)
  ELSE IF spc = "complete" THEN At("done", Absent, 0, sent)
  ELSE At("files", Absent, 0, sent)

ReceiverAt ==
  IF rpc \in {"caps", "offer"} THEN At(rpc, Absent, 0, NoFiles)
  ELSE At("files", current, IF current = Absent THEN 0 ELSE received, committed)

\* The message m may be sent by who is at c.
Fits(c, m) ==
  \/ m.kind = "Capabilities" /\ c.phase = "caps"
  \/ m.kind = "Offer" /\ c.phase = "offer"
  \/ /\ m.kind = "FileStart" /\ c.phase = "files" /\ Accepted
     /\ c.file = Absent /\ m.index \in Wanted
  \/ /\ m.kind = "Data" /\ c.phase = "files" /\ c.file \in Files
     /\ m.offset = c.count /\ c.count \in Nat /\ c.count < size[c.file]
  \/ /\ m.kind = "FileEnd" /\ c.phase = "files" /\ m.index \in Wanted
     /\ c.file = m.index /\ m.size = c.count /\ c.count \in Nat /\ sent[m.index] = c.count
  \/ /\ m.kind = "Complete" /\ c.phase = "files" /\ Accepted
     /\ c.file = Absent /\ \A f \in Wanted : c.ended[f] # Absent

After(c, m) ==
  IF m.kind = "Capabilities" THEN At("offer", c.file, c.count, c.ended)
  ELSE IF m.kind = "Offer" THEN At("files", c.file, c.count, c.ended)
  ELSE IF m.kind = "FileStart" THEN At(c.phase, m.index, c.count, c.ended)
  ELSE IF m.kind = "Data" THEN At(c.phase, c.file, c.count + 1, c.ended)
  ELSE IF m.kind = "FileEnd" THEN At(c.phase, Absent, 0, [c.ended EXCEPT ![m.index] = c.count])
  ELSE At("done", c.file, c.count, c.ended)

\* The last message leads to where the sender is, while it can still send.
Linked == ~broken /\ spc \notin {"recover"} \cup Ended

Chain(c) ==
  /\ c[1] = ReceiverAt
  /\ \A i \in 1..Len(s2r) : Fits(c[i], s2r[i]) /\ c[i + 1] = After(c[i], s2r[i])
  /\ Linked => c[Len(s2r) + 1] = SenderAt

ChainInv == IF ReceiverEnded THEN s2r = <<>> ELSE \E c : Chain(c)

-----------------------------------------------------------------------------
SenderInv ==
  /\ spc \in {"start", "caps", "offer", "answer"} => sent = NoFiles
  /\ \A f \in Files : sent[f] # Absent => Accepted /\ f \in plan
  /\ spc \in Working => /\ Accepted /\ todo \subseteq plan
                        /\ \A f \in Files : f \in todo <=> f \in plan /\ sent[f] = Absent
  /\ spc \in {"filestart"} \cup InFile => First(todo) \in todo /\ First(todo) \in Files
  /\ spc = "open" => offset = 0
  /\ spc = "chunk" => offset < size[First(todo)]
  /\ spc = "data" => offset <= size[First(todo)]
  /\ spc = "complete" => todo = {}
  /\ spc = "ok" => rpc = "ok"

ReceiverInv ==
  /\ rpc \in {"caps", "offer"} => plan = {}
  /\ ~Accepted => current = Absent /\ committed = NoFiles
  /\ current # Absent => current \in Wanted
  /\ \A f \in Files : committed[f] # Absent => f \in plan /\ committed[f] = sent[f]
  /\ partfile => (current # Absent /\ ~ReceiverEnded) \/ failure = "quit"
  /\ rpc = "ok" => \A f \in Wanted : committed[f] # Absent
  /\ failure = "quit" => rpc = "failed"
  /\ NeverAccused

AnswersInv == \A i \in 1..Len(r2s) :
  /\ r2s[i].kind = "Accept" => Accepted /\ r2s[i].wanted = plan
  /\ r2s[i].kind = "Complete" => rpc = "ok"

IInv == TypeOK /\ ChainInv /\ SenderInv /\ ReceiverInv /\ AnswersInv

-----------------------------------------------------------------------------
LEMMA AppendFacts ==
  ASSUME NEW s, IsSequence(s), NEW m
  PROVE  /\ IsSequence(Append(s, m)) /\ Len(s) \in Nat /\ Len(Append(s, m)) = Len(s) + 1
         /\ \A i \in 1..Len(s) : Append(s, m)[i] = s[i]
         /\ Append(s, m)[Len(s) + 1] = m
<1>1. PICK S : s \in Seq(S)
  BY DEF IsSequence
<1> DEFINE T == S \cup {m}
<1>2. s \in Seq(T) /\ m \in T
  BY <1>1
<1> HIDE DEF T
<1>3. Append(s, m) \in Seq(T)
  BY <1>2
<1>4. QED
  BY <1>2, <1>3 DEF IsSequence

LEMMA TailFacts ==
  ASSUME NEW s, IsSequence(s), s # <<>>
  PROVE  /\ IsSequence(Tail(s)) /\ Len(s) \in Nat /\ Len(s) >= 1 /\ Head(s) = s[1]
         /\ Len(Tail(s)) = Len(s) - 1
         /\ \A i \in 1..Len(Tail(s)) : Tail(s)[i] = s[i + 1] /\ i + 1 \in 1..Len(s)
<1>1. PICK S : s \in Seq(S)
  BY DEF IsSequence
<1>2. Tail(s) \in Seq(S)
  BY <1>1
<1>3. QED
  BY <1>1, <1>2 DEF IsSequence

LEMMA NoMessages == IsSequence(<<>>) /\ Len(<<>>) = 0
BY DEF IsSequence

\* The least index of a set of indices is one of them.
LEMMA FirstIsFirst ==
  ASSUME NEW w, w \subseteq Nat, w # {}
  PROVE  First(w) \in w
<1> DEFINE R == {ss \in Nat \X Nat : ss[1] < ss[2]}
<1>1. IsWellFoundedOn(R, Nat)
  BY NatLessThanWellFounded DEF OpToRel
<1>2. PICK i \in w : \A j \in w : ~ (<<j, i>> \in R)
  <2> HIDE DEF R
  <2>1. QED
    BY <1>1, WFMin
<1>3. ASSUME NEW j \in w PROVE i <= j
  <2>1. i \in Nat /\ j \in Nat /\ ~ (<<j, i>> \in R)
    BY <1>2
  <2>2. ~ (j < i)
    BY <2>1
  <2>3. QED
    BY <2>1, <2>2
<1>4. QED
  BY <1>2, <1>3 DEF First

-----------------------------------------------------------------------------
(* The connection: as it is, with one message more, with one less, empty. *)

\* What a step may do to the rest without touching what is on its way.
Steady ==
  /\ size' = size /\ plan' = plan /\ (Accepted => Accepted')
  /\ \A f \in Files : sent[f] # Absent => sent'[f] = sent[f]

LEMMA FitsStays ==
  ASSUME TypeOK, Steady
  PROVE  \A c, m : Fits(c, m) => Fits(c, m)'
<1>1. Wanted' = Wanted /\ Wanted \subseteq Files
  BY DEF Steady, Wanted
<1>2. TAKE c, m
<1>3. HAVE Fits(c, m)
<1>4. CASE m.kind = "FileEnd" /\ c.phase = "files" /\ m.index \in Wanted
             /\ c.file = m.index /\ m.size = c.count /\ c.count \in Nat /\ sent[m.index] = c.count
  <2>1. sent[m.index] # Absent
    BY <1>4 DEF Absent
  <2>2. sent'[m.index] = c.count
    BY <1>1, <1>4, <2>1 DEF Steady
  <2>3. QED
    BY <1>1, <1>4, <2>2 DEF Fits
<1>5. CASE ~ (m.kind = "FileEnd" /\ c.phase = "files" /\ m.index \in Wanted
              /\ c.file = m.index /\ m.size = c.count /\ c.count \in Nat /\ sent[m.index] = c.count)
  BY <1>1, <1>3, <1>5 DEF Fits, Steady
<1>6. QED
  BY <1>4, <1>5

LEMMA ChainStays ==
  ASSUME TypeOK, ChainInv, Steady, s2r' = s2r, ReceiverEnded' = ReceiverEnded,
         ReceiverAt' = ReceiverAt, Linked' => Linked /\ SenderAt' = SenderAt
  PROVE  ChainInv'
<1>1. CASE ReceiverEnded
  BY <1>1 DEF ChainInv
<1>2. CASE ~ReceiverEnded
  <2>1. PICK c : Chain(c)
    BY <1>2 DEF ChainInv
  <2>2. \A i \in 1..Len(s2r) : Fits(c[i], s2r[i])' /\ c[i + 1] = After(c[i], s2r[i])'
    <3>1. \A m : \A i \in 1..Len(s2r) : Fits(c[i], m) => Fits(c[i], m)'
      BY FitsStays
    <3>2. QED
      BY <2>1, <3>1 DEF Chain, Fits, After
  <2>3. QED
    BY <1>2, <2>1, <2>2 DEF Chain, ChainInv
<1>3. QED
  BY <1>1, <1>2

LEMMA ChainGrows ==
  ASSUME TypeOK, ChainInv, Steady, NEW d, NEW m, ~ReceiverEnded, ReceiverEnded' = ReceiverEnded,
         ReceiverAt' = ReceiverAt, Linked, d = SenderAt, s2r' = Append(s2r, m),
         Fits(d, m)', SenderAt' = After(d, m)
  PROVE  ChainInv'
<1> DEFINE n == Len(s2r)
<1>1. PICK c : Chain(c)
  BY DEF ChainInv
<1>2. n \in Nat /\ Len(s2r') = n + 1 /\ s2r'[n + 1] = m /\ \A i \in 1..n : s2r'[i] = s2r[i]
  BY AppendFacts DEF TypeOK
<1>3. c[1] = ReceiverAt /\ c[n + 1] = d
  BY <1>1 DEF Chain
<1>4. ASSUME NEW i \in 1..n PROVE Fits(c[i], s2r[i])' /\ c[i + 1] = After(c[i], s2r'[i])
  <2>1. Fits(c[i], s2r[i]) /\ c[i + 1] = After(c[i], s2r[i])
    BY <1>1 DEF Chain
  <2>2. PICK x : x = s2r[i]
    OBVIOUS
  <2>3. Fits(c[i], x)
    BY <2>1, <2>2
  <2>4. Fits(c[i], x)'
    BY <2>3, FitsStays
  <2>5. x = s2r'[i]
    BY <1>2, <2>2
  <2>6. QED
    BY <2>1, <2>2, <2>4, <2>5 DEF Fits
<1> DEFINE e == [i \in 1..(n + 2) |-> IF i = n + 2 THEN After(d, m) ELSE c[i]]
<1>5. PICK f : f = e
  OBVIOUS
<1>6. /\ f[1] = ReceiverAt' /\ f[(n + 1) + 1] = SenderAt'
      /\ \A i \in 1..(n + 1) : f[i] = c[i]
  BY <1>2, <1>3, <1>5
<1>7. ASSUME NEW i \in 1..(n + 1) PROVE Fits(f[i], s2r[i])' /\ f[i + 1] = After(f[i], s2r'[i])
  <2>1. CASE i \in 1..n
    <3>1. f[i] = c[i] /\ f[i + 1] = c[i + 1]
      BY <1>2, <1>6, <2>1
    <3>2. QED
      BY <1>4, <2>1, <3>1
  <2>2. CASE i = n + 1
    <3>1. f[i] = d /\ f[i + 1] = After(d, m) /\ s2r'[i] = m
      BY <1>2, <1>3, <1>5, <1>6, <2>2
    <3>2. QED
      BY <3>1 DEF Fits
  <2>3. QED
    BY <1>2, <2>1, <2>2
<1>8. Chain(f)'
  BY <1>2, <1>6, <1>7 DEF Chain
<1>9. QED
  BY <1>8 DEF ChainInv

\* What the receiver is given to read fits where it is.
LEMMA HeadFits ==
  ASSUME TypeOK, ChainInv, ~ReceiverEnded, s2r # <<>>
  PROVE  Fits(ReceiverAt, Head(s2r))
<1>1. PICK c : Chain(c)
  BY DEF ChainInv
<1>2. Head(s2r) = s2r[1] /\ 1 \in 1..Len(s2r)
  BY TailFacts DEF TypeOK
<1>3. c[1] = ReceiverAt /\ Fits(c[1], s2r[1])
  BY <1>1, <1>2 DEF Chain
<1>4. QED
  BY <1>2, <1>3

LEMMA ChainShrinks ==
  ASSUME TypeOK, ChainInv, Steady, ~ReceiverEnded, ~ReceiverEnded', s2r # <<>>, s2r' = Tail(s2r),
         ReceiverAt' = After(ReceiverAt, Head(s2r)), Linked' => Linked /\ SenderAt' = SenderAt
  PROVE  ChainInv'
<1> DEFINE n == Len(s2r)
<1>1. PICK c : Chain(c)
  BY DEF ChainInv
<1>2. /\ n \in Nat /\ n >= 1 /\ Len(s2r') = n - 1 /\ Head(s2r) = s2r[1]
      /\ \A i \in 1..(n - 1) : s2r'[i] = s2r[i + 1]
  BY TailFacts DEF TypeOK
<1>3. c[2] = ReceiverAt'
  BY <1>1, <1>2 DEF Chain
<1> DEFINE e == [i \in 1..n |-> c[i + 1]]
<1>4. PICK f : f = e
  OBVIOUS
<1>5. /\ f[1] = ReceiverAt' /\ \A i \in 1..n : f[i] = c[i + 1]
  BY <1>2, <1>3, <1>4
<1>6. ASSUME NEW i \in 1..(n - 1) PROVE Fits(f[i], s2r[i])' /\ f[i + 1] = After(f[i], s2r'[i])
  <2>1. i + 1 \in 1..n /\ i \in 1..n /\ f[i] = c[i + 1] /\ f[i + 1] = c[(i + 1) + 1]
    BY <1>2, <1>5
  <2>2. Fits(c[i + 1], s2r[i + 1]) /\ c[(i + 1) + 1] = After(c[i + 1], s2r[i + 1])
    BY <1>1, <2>1 DEF Chain
  <2>3. PICK x : x = s2r[i + 1]
    OBVIOUS
  <2>4. Fits(c[i + 1], x)'
    BY <2>2, <2>3, FitsStays
  <2>5. x = s2r'[i]
    BY <1>2, <2>3
  <2>6. QED
    BY <2>1, <2>2, <2>3, <2>4, <2>5 DEF Fits
<1>7. Linked' => f[(n - 1) + 1] = SenderAt'
  BY <1>1, <1>2, <1>5 DEF Chain
<1>8. Chain(f)'
  BY <1>2, <1>5, <1>6, <1>7 DEF Chain
<1>9. QED
  BY <1>8 DEF ChainInv

LEMMA ChainEmpties ==
  ASSUME s2r' = <<>>, ReceiverEnded' \/ ~Linked'
  PROVE  ChainInv'
<1>1. CASE ReceiverEnded'
  BY <1>1 DEF ChainInv
<1>2. CASE ~Linked'
  <2>1. PICK f : f = [i \in 1..1 |-> ReceiverAt']
    OBVIOUS
  <2>2. Chain(f)'
    BY <1>2, <2>1, NoMessages DEF Chain
  <2>3. QED
    BY <2>2 DEF ChainInv
<1>3. QED
  BY <1>1, <1>2

-----------------------------------------------------------------------------
(* The sender. *)

LEMMA ReceiverRests ==
  ASSUME TypeOK, ReceiverInv, Steady, UNCHANGED rvars
  PROVE  ReceiverInv' /\ ReceiverAt' = ReceiverAt /\ Accepted' = Accepted /\ ReceiverEnded' = ReceiverEnded
<1>1. UNCHANGED <<rpc, plan, current, received, partfile, committed, failure>>
  BY DEF rvars
<1>2. ReceiverAt' = ReceiverAt /\ Accepted' = Accepted /\ ReceiverEnded' = ReceiverEnded
      /\ Wanted' = Wanted /\ NeverAccused' = NeverAccused
  BY <1>1 DEF ReceiverAt, Accepted, ReceiverEnded, Wanted, NeverAccused
<1>3. \A f \in Files : committed[f] # Absent => f \in plan /\ committed[f] = sent'[f]
  BY DEF ReceiverInv, Steady
<1>4. QED
  BY <1>1, <1>2, <1>3 DEF ReceiverInv

LEMMA SenderTyped ==
  ASSUME TypeOK, UNCHANGED <<size, rvars>>, spc' \in SenderPlaces, todo' \subseteq Files \cup Dirs,
         offset' \in Nat, sent' \in Counts, IsSequence(s2r'), IsSequence(r2s')
  PROVE  TypeOK'
BY DEF TypeOK, rvars

\* Answers are read, or lost.
LEMMA AnswersRead ==
  ASSUME TypeOK, AnswersInv, UNCHANGED rvars,
         r2s' = r2s \/ (r2s # <<>> /\ r2s' = Tail(r2s)) \/ r2s' = <<>>
  PROVE  AnswersInv' /\ IsSequence(r2s')
<1>1. rpc' = rpc /\ plan' = plan /\ Accepted' = Accepted /\ IsSequence(r2s)
  BY DEF rvars, Accepted, TypeOK
<1>2. CASE r2s' = r2s
  BY <1>1, <1>2 DEF AnswersInv
<1>3. CASE r2s # <<>> /\ r2s' = Tail(r2s)
  BY <1>1, <1>3, TailFacts DEF AnswersInv
<1>4. CASE r2s' = <<>>
  BY <1>4, NoMessages DEF AnswersInv
<1>5. QED
  BY <1>2, <1>3, <1>4

LEMMA SenderQuiet ==
  ASSUME IInv, UNCHANGED <<size, rvars, sent, s2r, broken>>, spc' \in SenderPlaces,
         todo' \subseteq Files \cup Dirs, offset' \in Nat,
         r2s' = r2s \/ (r2s # <<>> /\ r2s' = Tail(r2s)),
         Linked' => Linked /\ SenderAt' = SenderAt, SenderInv'
  PROVE  IInv'
<1>1. TypeOK /\ ChainInv /\ ReceiverInv /\ AnswersInv
  BY DEF IInv
<1>2. AnswersInv' /\ IsSequence(r2s')
  BY <1>1, AnswersRead
<1>3. TypeOK'
  BY <1>1, <1>2, SenderTyped DEF TypeOK
<1>4. Steady
  BY DEF Steady, Accepted, rvars
<1>5. ReceiverInv' /\ ReceiverAt' = ReceiverAt /\ ReceiverEnded' = ReceiverEnded
  BY <1>1, <1>4, ReceiverRests
<1>6. ChainInv'
  BY <1>1, <1>4, <1>5, ChainStays
<1>7. QED
  BY <1>2, <1>3, <1>5, <1>6 DEF IInv

LEMMA SenderSpeaks ==
  ASSUME IInv, UNCHANGED <<size, rvars>>, Steady, NEW d, NEW m, NEW next \in SenderPlaces,
         SenderSends(m, next), todo' \subseteq Files \cup Dirs, offset' \in Nat, sent' \in Counts,
         d = SenderAt, spc \notin {"recover"} \cup Ended, Fits(d, m)',
         spc' = next => SenderAt' = After(d, m), SenderInv'
  PROVE  IInv'
<1>1. TypeOK /\ ChainInv /\ ReceiverInv /\ AnswersInv /\ IsSequence(s2r)
  BY DEF IInv, TypeOK
<1>2. spc' \in SenderPlaces /\ (r2s' = r2s \/ r2s' = <<>>)
  BY DEF SenderSends, net, SenderPlaces
<1>3. AnswersInv' /\ IsSequence(r2s')
  BY <1>1, <1>2, AnswersRead
<1>4. ReceiverInv' /\ ReceiverAt' = ReceiverAt /\ ReceiverEnded' = ReceiverEnded
  BY <1>1, ReceiverRests
<1>5. IsSequence(s2r') /\ ChainInv'
  <2>1. CASE ~broken /\ ~ReceiverEnded /\ s2r' = Append(s2r, m) /\ spc' = next
    <3>1. Linked
      BY <2>1 DEF Linked
    <3>2. IsSequence(s2r')
      BY <1>1, <2>1, AppendFacts
    <3>3. QED
      BY <1>1, <1>4, <2>1, <3>1, <3>2, ChainGrows
  <2>2. CASE ReceiverEnded /\ s2r' = s2r
    BY <1>1, <1>4, <2>2 DEF ChainInv
  <2>3. CASE broken /\ spc' = "recover" /\ UNCHANGED net
    <3>1. s2r' = s2r /\ ~Linked'
      BY <2>3 DEF net, Linked
    <3>2. QED
      BY <1>1, <1>4, <3>1, ChainStays
  <2>4. QED
    BY <2>1, <2>2, <2>3 DEF SenderSends
<1>6. TypeOK'
  BY <1>1, <1>2, <1>3, <1>5, SenderTyped
<1>7. QED
  BY <1>3, <1>4, <1>5, <1>6 DEF IInv

LEMMA SenderEnds ==
  ASSUME IInv, UNCHANGED <<size, rvars, todo, offset, sent>>, spc' \in Ended,
         NEW in, SenderCloses(in), SenderInv'
  PROVE  IInv'
<1>1. TypeOK /\ ChainInv /\ ReceiverInv /\ AnswersInv /\ IsSequence(s2r)
  BY DEF IInv, TypeOK
<1>2. r2s' = <<>> /\ (s2r' = s2r \/ s2r' = <<>>)
  BY DEF SenderCloses
<1>3. AnswersInv' /\ IsSequence(r2s')
  BY <1>1, <1>2, AnswersRead
<1>4. Steady
  BY DEF Steady, Accepted, rvars
<1>5. ReceiverInv' /\ ReceiverAt' = ReceiverAt /\ ReceiverEnded' = ReceiverEnded
  BY <1>1, <1>4, ReceiverRests
<1>6. ~Linked'
  BY DEF Linked
<1>7. IsSequence(s2r') /\ ChainInv'
  <2>1. CASE s2r' = s2r
    BY <1>1, <1>4, <1>5, <1>6, <2>1, ChainStays
  <2>2. CASE s2r' = <<>>
    BY <1>6, <2>2, NoMessages, ChainEmpties
  <2>3. QED
    BY <1>2, <2>1, <2>2
<1>8. TypeOK'
  <2>1. spc' \in SenderPlaces
    BY DEF SenderPlaces
  <2>2. QED
    BY <1>1, <1>3, <1>7, <2>1, SenderTyped DEF TypeOK
<1>9. QED
  BY <1>3, <1>5, <1>7, <1>8 DEF IInv

LEMMA Indices ==
  /\ Files \subseteq Nat /\ Dirs \subseteq Nat /\ Absent \notin Files
  /\ \A f \in Files : f \notin Dirs
BY TransferAssumption DEF Absent

\* Steps that say nothing.
LEMMA QuietSenderKeeps ==
  ASSUME IInv, GetCapabilities \/ GetAccept \/ NextEntry \/ OpenFile \/ ReadChunk \/ EndOfFile
  PROVE  IInv'
<1>1. TypeOK /\ SenderInv /\ AnswersInv /\ IsSequence(r2s)
  BY DEF IInv, TypeOK
<1>2. UNCHANGED <<size, rvars, sent, s2r, broken>>
  BY DEF GetCapabilities, GetAccept, NextEntry, OpenFile, ReadChunk, EndOfFile, net
<1>3. Accepted' = Accepted /\ plan' = plan /\ rpc' = rpc /\ sent' = sent /\ size' = size /\ broken' = broken
  BY <1>2 DEF rvars, Accepted
<1>4. CASE GetCapabilities
  <2>1. /\ spc = "caps" /\ spc' = "offer" /\ todo' = todo /\ offset' = offset
        /\ r2s # <<>> /\ r2s' = Tail(r2s)
    BY <1>4 DEF GetCapabilities, Arrived
  <2>2. SenderInv'
    BY <1>1, <1>3, <2>1 DEF SenderInv, Working, InFile
  <2>3. Linked' => Linked /\ SenderAt' = SenderAt
    BY <1>3, <2>1 DEF Linked, SenderAt, Ended
  <2>4. spc' \in SenderPlaces /\ todo' \subseteq Files \cup Dirs /\ offset' \in Nat
    BY <1>1, <2>1 DEF SenderPlaces, TypeOK
  <2>5. QED
    BY <1>2, <2>1, <2>2, <2>3, <2>4, SenderQuiet
<1>5. CASE GetAccept
  <2>1. /\ spc = "answer" /\ spc' = "next" /\ todo' = Head(r2s).wanted /\ offset' = offset
        /\ r2s # <<>> /\ Head(r2s).kind = "Accept" /\ r2s' = Tail(r2s)
    BY <1>5 DEF GetAccept, Arrived
  <2>2. Accepted /\ todo' = plan
    <3>1. Head(r2s) = r2s[1] /\ 1 \in 1..Len(r2s)
      BY <1>1, <2>1, TailFacts
    <3>2. QED
      BY <1>1, <2>1, <3>1 DEF AnswersInv
  <2>3. sent = NoFiles
    BY <1>1, <2>1 DEF SenderInv
  <2>4. SenderInv'
    BY <1>1, <1>3, <2>1, <2>2, <2>3 DEF SenderInv, Working, InFile, NoFiles
  <2>5. Linked' => Linked /\ SenderAt' = SenderAt
    BY <1>3, <2>1 DEF Linked, SenderAt, Ended, InFile
  <2>6. spc' \in SenderPlaces /\ todo' \subseteq Files \cup Dirs /\ offset' \in Nat
    BY <1>1, <2>1, <2>2 DEF SenderPlaces, TypeOK
  <2>7. QED
    BY <1>2, <2>1, <2>4, <2>5, <2>6, SenderQuiet
<1>6. CASE NextEntry
  <2>1. spc = "next" /\ todo # {} /\ offset' = offset /\ r2s' = r2s
    BY <1>6 DEF NextEntry, net
  <2>2. First(todo) \in todo /\ todo \subseteq plan /\ plan \subseteq Files \cup Dirs /\ Accepted
    <3>1. todo \subseteq Nat
      BY <1>1, Indices DEF TypeOK
    <3>2. QED
      BY <1>1, <2>1, <3>1, FirstIsFirst DEF SenderInv, Working, TypeOK
  <2>3. CASE First(todo) \in Dirs
    <3>1. spc' = "next" /\ todo' = todo \ {First(todo)}
      BY <1>6, <2>1, <2>3 DEF NextEntry
    <3>2. SenderInv'
      BY <1>1, <1>3, <2>1, <2>2, <2>3, <3>1, Indices DEF SenderInv, Working, InFile
    <3>3. Linked' => Linked /\ SenderAt' = SenderAt
      BY <1>3, <2>1, <3>1 DEF Linked, SenderAt, Ended, InFile
    <3>4. spc' \in SenderPlaces /\ todo' \subseteq Files \cup Dirs /\ offset' \in Nat
      BY <1>1, <2>1, <3>1 DEF SenderPlaces, TypeOK
    <3>5. QED
      BY <1>2, <2>1, <3>2, <3>3, <3>4, SenderQuiet
  <2>4. CASE First(todo) \notin Dirs
    <3>1. spc' = "filestart" /\ todo' = todo
      BY <1>6, <2>4 DEF NextEntry
    <3>2. SenderInv'
      BY <1>1, <1>3, <2>1, <2>2, <2>4, <3>1 DEF SenderInv, Working, InFile
    <3>3. Linked' => Linked /\ SenderAt' = SenderAt
      BY <1>3, <2>1, <3>1 DEF Linked, SenderAt, Ended, InFile
    <3>4. spc' \in SenderPlaces /\ todo' \subseteq Files \cup Dirs /\ offset' \in Nat
      BY <1>1, <2>1, <3>1 DEF SenderPlaces, TypeOK
    <3>5. QED
      BY <1>2, <2>1, <3>2, <3>3, <3>4, SenderQuiet
  <2>5. QED
    BY <2>3, <2>4
<1>7. CASE OpenFile \/ ReadChunk \/ EndOfFile
  <2>1. /\ spc \in {"open", "data"} /\ spc' \in {"data", "chunk", "fileend"}
        /\ spc' = "data" => spc = "open"
        /\ spc' = "chunk" => spc = "data" /\ offset < size[First(todo)]
        /\ todo' = todo /\ offset' = offset /\ r2s' = r2s
    BY <1>7 DEF OpenFile, ReadChunk, EndOfFile, net
  <2>2. First(todo) \in Files /\ size[First(todo)] \in Nat /\ First(todo') = First(todo)
    BY <1>1, <2>1 DEF SenderInv, InFile, TypeOK
  <2>3. spc' = "data" => offset <= size[First(todo)]
    BY <1>1, <2>1, <2>2 DEF SenderInv
  <2>4. SenderInv'
    BY <1>1, <1>3, <2>1, <2>2, <2>3 DEF SenderInv, Working, InFile
  <2>5. Linked' => Linked /\ SenderAt' = SenderAt
    BY <1>3, <2>1, <2>2 DEF Linked, SenderAt, Ended, InFile
  <2>6. spc' \in SenderPlaces /\ todo' \subseteq Files \cup Dirs /\ offset' \in Nat
    BY <1>1, <2>1 DEF SenderPlaces, TypeOK
  <2>7. QED
    BY <1>2, <2>1, <2>4, <2>5, <2>6, SenderQuiet
<1>8. QED
  BY <1>4, <1>5, <1>6, <1>7

LEMMA GivingUpKeeps ==
  ASSUME IInv, SenderFails \/ SenderTold
  PROVE  IInv'
<1>1. TypeOK /\ SenderInv
  BY DEF IInv
<1>2. /\ UNCHANGED <<size, rvars, sent, s2r, broken>> /\ spc' = "recover"
      /\ todo' = todo /\ offset' = offset
      /\ r2s' = r2s \/ (r2s # <<>> /\ r2s' = Tail(r2s))
  BY DEF SenderFails, SenderTold, Arrived, net
<1>3. Accepted' = Accepted /\ plan' = plan /\ rpc' = rpc /\ sent' = sent
  BY <1>2 DEF rvars, Accepted
<1>4. SenderInv'
  BY <1>1, <1>2, <1>3 DEF SenderInv, Working, InFile
<1>5. ~Linked'
  BY <1>2 DEF Linked
<1>6. spc' \in SenderPlaces /\ todo' \subseteq Files \cup Dirs /\ offset' \in Nat
  BY <1>1, <1>2 DEF SenderPlaces, TypeOK
<1>7. QED
  BY <1>2, <1>4, <1>5, <1>6, SenderQuiet

LEMMA SenderEndKeeps ==
  ASSUME IInv, GetComplete \/ Recover \/ SenderQuits
  PROVE  IInv'
<1>1. TypeOK /\ SenderInv /\ AnswersInv /\ IsSequence(r2s)
  BY DEF IInv, TypeOK
<1>2. /\ UNCHANGED <<size, rvars, todo, offset, sent>> /\ spc' \in Ended
      /\ \E in : SenderCloses(in)
  BY DEF GetComplete, Recover, SenderQuits, Ended
<1>3. Accepted' = Accepted /\ plan' = plan /\ rpc' = rpc /\ sent' = sent
  BY <1>2 DEF rvars, Accepted
<1>4. spc' = "ok" => rpc' = "ok"
  <2>1. spc' = "ok" => r2s # <<>> /\ Head(r2s).kind = "Complete"
    BY DEF GetComplete, Recover, SenderQuits, Arrived
  <2>2. r2s # <<>> => Head(r2s) = r2s[1] /\ 1 \in 1..Len(r2s)
    BY <1>1, TailFacts
  <2>3. QED
    BY <1>1, <1>3, <2>1, <2>2 DEF AnswersInv
<1>5. SenderInv'
  BY <1>1, <1>2, <1>3, <1>4 DEF SenderInv, Working, InFile, Ended
<1>6. QED
  BY <1>2, <1>5, SenderEnds

\* Steps that say something.
LEMMA GreetingKeeps ==
  ASSUME IInv, SendCapabilities \/ SendOffer \/ SendComplete
  PROVE  IInv'
<1>1. TypeOK /\ SenderInv
  BY DEF IInv
<1>2. /\ UNCHANGED <<size, rvars>> /\ todo' = todo /\ offset' = offset /\ sent' = sent
  BY DEF SendCapabilities, SendOffer, SendComplete
<1>3. Accepted' = Accepted /\ plan' = plan /\ rpc' = rpc /\ size' = size /\ Wanted' = Wanted
  BY <1>2 DEF rvars, Accepted, Wanted
<1>4. Steady
  BY <1>2, <1>3 DEF Steady
<1>5. todo' \subseteq Files \cup Dirs /\ offset' \in Nat /\ sent' \in Counts
  BY <1>1, <1>2 DEF TypeOK
<1>6. PICK d : d = SenderAt
  OBVIOUS
<1>7. CASE SendCapabilities
  <2>1. PICK m : m = Plain("Capabilities")
    OBVIOUS
  <2>2. spc = "start" /\ SenderSends(m, "caps") /\ spc' \in {"caps", "recover"}
    BY <1>7, <2>1 DEF SendCapabilities, SenderSends
  <2>3. d = At("caps", Absent, 0, NoFiles)
    BY <1>6, <2>2 DEF SenderAt
  <2>4. Fits(d, m)'
    BY <2>1, <2>3 DEF Fits, Plain, At
  <2>5. spc' = "caps" => SenderAt' = After(d, m)
    BY <2>1, <2>3 DEF SenderAt, After, Plain, At
  <2>6. SenderInv'
    BY <1>1, <1>2, <1>3, <2>2 DEF SenderInv, Working, InFile
  <2>7. QED
    BY <1>2, <1>4, <1>5, <1>6, <2>2, <2>4, <2>5, <2>6, SenderSpeaks DEF SenderPlaces, Ended
<1>8. CASE SendOffer
  <2>1. PICK m : m = Plain("Offer")
    OBVIOUS
  <2>2. spc = "offer" /\ SenderSends(m, "answer") /\ spc' \in {"answer", "recover"}
    BY <1>8, <2>1 DEF SendOffer, SenderSends
  <2>3. d = At("offer", Absent, 0, NoFiles) /\ sent' = NoFiles
    BY <1>1, <1>2, <1>6, <2>2 DEF SenderAt, SenderInv
  <2>4. Fits(d, m)'
    BY <2>1, <2>3 DEF Fits, Plain, At
  <2>5. spc' = "answer" => SenderAt' = After(d, m)
    BY <2>1, <2>3 DEF SenderAt, After, Plain, At, InFile
  <2>6. SenderInv'
    BY <1>1, <1>2, <1>3, <2>2 DEF SenderInv, Working, InFile
  <2>7. QED
    BY <1>2, <1>4, <1>5, <1>6, <2>2, <2>4, <2>5, <2>6, SenderSpeaks DEF SenderPlaces, Ended
<1>9. CASE SendComplete
  <2>1. PICK m : m = Plain("Complete")
    OBVIOUS
  <2>2. spc = "next" /\ todo = {} /\ SenderSends(m, "complete") /\ spc' \in {"complete", "recover"}
    BY <1>9, <2>1 DEF SendComplete, SenderSends
  <2>3. d = At("files", Absent, 0, sent)
    BY <1>6, <2>2 DEF SenderAt, InFile
  <2>4. Fits(d, m)'
    <3>1. Accepted /\ \A f \in Wanted : sent[f] # Absent
      BY <1>1, <2>2 DEF SenderInv, Working, Wanted
    <3>2. \A f \in Wanted : d.ended[f] # Absent
      BY <2>3, <3>1 DEF At
    <3>3. QED
      BY <1>3, <2>1, <2>3, <3>1, <3>2 DEF Fits, Plain, At
  <2>5. spc' = "complete" => SenderAt' = After(d, m)
    BY <1>2, <2>1, <2>3 DEF SenderAt, After, Plain, At, InFile
  <2>6. SenderInv'
    BY <1>1, <1>2, <1>3, <2>2 DEF SenderInv, Working, InFile
  <2>7. QED
    BY <1>2, <1>4, <1>5, <1>6, <2>2, <2>4, <2>5, <2>6, SenderSpeaks DEF SenderPlaces, Ended
<1>10. QED
  BY <1>7, <1>8, <1>9

LEMMA FileStepKeeps ==
  ASSUME IInv, SendFileStart \/ SendData \/ SendFileEnd
  PROVE  IInv'
<1>1. TypeOK /\ SenderInv
  BY DEF IInv
<1>2. /\ UNCHANGED <<size, rvars>> /\ spc \in {"filestart", "chunk", "fileend"}
      /\ todo' \subseteq todo
  BY DEF SendFileStart, SendData, SendFileEnd
<1>3. Accepted' = Accepted /\ plan' = plan /\ rpc' = rpc /\ size' = size /\ Wanted' = Wanted
  BY <1>2 DEF rvars, Accepted, Wanted
<1>4. PICK f : f = First(todo)
  OBVIOUS
<1>5. /\ f \in todo /\ f \in Files /\ todo \subseteq plan /\ f \in Wanted /\ Accepted
      /\ sent[f] = Absent /\ offset \in Nat /\ size[f] \in Nat /\ sent \in Counts
      /\ \A g \in Files : g \in todo <=> g \in plan /\ sent[g] = Absent
  BY <1>1, <1>2, <1>4 DEF SenderInv, Working, InFile, TypeOK, Wanted
<1>6. PICK d : d = SenderAt
  OBVIOUS
<1>7. todo' \subseteq Files \cup Dirs
  BY <1>1, <1>2 DEF TypeOK
<1>8. CASE SendFileStart
  <2>1. PICK m : m = FileStart(f)
    OBVIOUS
  <2>2. /\ spc = "filestart" /\ SenderSends(m, "open") /\ spc' \in {"open", "recover"}
        /\ todo' = todo /\ offset' = 0 /\ sent' = sent
    BY <1>4, <1>8, <2>1 DEF SendFileStart, SenderSends
  <2>3. d = At("files", Absent, 0, sent)
    BY <1>6, <2>2 DEF SenderAt, InFile
  <2>4. Fits(d, m)'
    BY <1>3, <1>5, <2>1, <2>3 DEF Fits, FileStart, At
  <2>5. spc' = "open" => SenderAt' = After(d, m)
    BY <1>4, <2>1, <2>2, <2>3 DEF SenderAt, After, FileStart, At, InFile
  <2>6. SenderInv'
    BY <1>1, <1>3, <1>4, <1>5, <2>2 DEF SenderInv, Working, InFile
  <2>7. Steady
    BY <1>2, <1>3, <2>2 DEF Steady
  <2>8. QED
    BY <1>2, <1>5, <1>6, <1>7, <2>2, <2>4, <2>5, <2>6, <2>7, SenderSpeaks DEF SenderPlaces, Ended
<1>9. CASE SendData
  <2>1. PICK m : m = Data(offset)
    OBVIOUS
  <2>2. /\ spc = "chunk" /\ SenderSends(m, "data") /\ spc' \in {"data", "recover"}
        /\ todo' = todo /\ offset' = offset + 1 /\ sent' = sent
    BY <1>9, <2>1 DEF SendData, SenderSends
  <2>3. d = At("files", f, offset, sent) /\ offset < size[f]
    BY <1>1, <1>4, <1>6, <2>2 DEF SenderAt, InFile, SenderInv
  <2>4. Fits(d, m)'
    BY <1>3, <1>5, <2>1, <2>3 DEF Fits, Data, At
  <2>5. spc' = "data" => SenderAt' = After(d, m)
    BY <1>4, <2>1, <2>2, <2>3 DEF SenderAt, After, Data, At, InFile
  <2>6. SenderInv'
    BY <1>1, <1>3, <1>4, <1>5, <2>2, <2>3 DEF SenderInv, Working, InFile
  <2>7. Steady
    BY <1>2, <1>3, <2>2 DEF Steady
  <2>8. QED
    BY <1>2, <1>5, <1>6, <1>7, <2>2, <2>4, <2>5, <2>6, <2>7, SenderSpeaks DEF SenderPlaces, Ended
<1>10. CASE SendFileEnd
  <2>1. PICK m : m = FileEnd(f, offset)
    OBVIOUS
  <2>2. /\ spc = "fileend" /\ SenderSends(m, "next") /\ spc' \in {"next", "recover"}
        /\ todo' = todo \ {f} /\ offset' = offset /\ sent' = [sent EXCEPT ![f] = offset]
    BY <1>4, <1>10, <2>1 DEF SendFileEnd, SenderSends
  <2>3. d = At("files", f, offset, sent)
    BY <1>4, <1>6, <2>2 DEF SenderAt, InFile
  <2>4. sent' \in Counts /\ sent'[f] = offset /\ offset # Absent
        /\ \A g \in Files \ {f} : sent'[g] = sent[g]
    BY <1>5, <2>2 DEF Counts, Absent
  <2>5. Fits(d, m)'
    BY <1>3, <1>5, <2>1, <2>3, <2>4 DEF Fits, FileEnd, At
  <2>6. spc' = "next" => SenderAt' = After(d, m)
    <3>1. After(d, m) = At("files", Absent, 0, [sent EXCEPT ![f] = offset])
      BY <2>1, <2>3 DEF After, FileEnd, At
    <3>2. QED
      BY <2>2, <3>1 DEF SenderAt, InFile
  <2>7. \A g \in Files : g \in todo' <=> g \in plan' /\ sent'[g] = Absent
    BY <1>3, <1>5, <2>2, <2>4
  <2>8. \A g \in Files : sent'[g] # Absent => Accepted' /\ g \in plan'
    BY <1>1, <1>3, <1>5, <2>4 DEF SenderInv
  <2>9. SenderInv'
    BY <1>3, <1>5, <2>2, <2>7, <2>8 DEF SenderInv, Working, InFile
  <2>10. Steady
    BY <1>2, <1>3, <1>5, <2>4 DEF Steady
  <2>11. QED
    BY <1>2, <1>5, <1>6, <1>7, <2>2, <2>4, <2>5, <2>6, <2>9, <2>10, SenderSpeaks DEF SenderPlaces, Ended
<1>11. QED
  BY <1>8, <1>9, <1>10

-----------------------------------------------------------------------------
(* The receiver. *)

LEMMA SenderRests ==
  ASSUME SenderInv, UNCHANGED <<size, svars>>, ~ReceiverEnded, Accepted => Accepted' /\ plan' = plan
  PROVE  /\ SenderInv' /\ sent' = sent /\ size' = size /\ spc' = spc
         /\ SenderAt' = SenderAt /\ (broken' = broken => (Linked' => Linked))
<1>1. spc' = spc /\ todo' = todo /\ offset' = offset /\ sent' = sent /\ size' = size
  BY DEF svars
<1>2. spc # "ok"
  BY DEF SenderInv, ReceiverEnded, Ended
<1>3. SenderInv'
  BY <1>1, <1>2 DEF SenderInv, Working, InFile
<1>4. SenderAt' = SenderAt /\ (broken' = broken => (Linked' => Linked))
  BY <1>1 DEF SenderAt, Linked
<1>5. QED
  BY <1>1, <1>3, <1>4

LEMMA AnswersGrow ==
  ASSUME TypeOK, AnswersInv, ~ReceiverEnded, Accepted => Accepted' /\ plan' = plan, NEW m,
         m.kind = "Accept" => Accepted' /\ m.wanted = plan', m.kind = "Complete" => rpc' = "ok",
         r2s' = r2s \/ r2s' = Append(r2s, m) \/ r2s' = <<>>
  PROVE  AnswersInv' /\ IsSequence(r2s')
<1>1. IsSequence(r2s) /\ rpc # "ok"
  BY DEF TypeOK, ReceiverEnded, Ended
<1>2. ASSUME NEW i \in 1..Len(r2s)
      PROVE  /\ r2s[i].kind = "Accept" => Accepted' /\ r2s[i].wanted = plan'
             /\ r2s[i].kind = "Complete" => rpc' = "ok"
  BY <1>1, <1>2 DEF AnswersInv
<1>3. CASE r2s' = r2s
  BY <1>1, <1>2, <1>3 DEF AnswersInv
<1>4. CASE r2s' = Append(r2s, m)
  <2> DEFINE n == Len(r2s)
  <2>1. /\ IsSequence(r2s') /\ n \in Nat /\ Len(r2s') = n + 1
        /\ \A i \in 1..n : r2s'[i] = r2s[i]
        /\ r2s'[n + 1] = m
    BY <1>1, <1>4, AppendFacts
  <2>2. ASSUME NEW i \in 1..(n + 1)
        PROVE  /\ r2s'[i].kind = "Accept" => Accepted' /\ r2s'[i].wanted = plan'
               /\ r2s'[i].kind = "Complete" => rpc' = "ok"
    <3>1. CASE i \in 1..n
      <4>1. r2s'[i] = r2s[i]
        BY <2>1, <3>1
      <4>2. QED
        BY <1>2, <3>1, <4>1
    <3>2. CASE i = n + 1
      BY <2>1, <3>2
    <3>3. QED
      BY <2>1, <2>2, <3>1, <3>2
  <2>3. QED
    BY <2>1, <2>2 DEF AnswersInv
<1>5. CASE r2s' = <<>>
  BY <1>5, NoMessages DEF AnswersInv
<1>6. QED
  BY <1>3, <1>4, <1>5

\* Steps of the receiver that read nothing.
LEMMA QuietReceiverKeeps ==
  ASSUME IInv, SendAccept \/ CreateDirectories \/ NextMessage \/ ApplyMode
  PROVE  IInv'
<1>1. TypeOK /\ ChainInv /\ SenderInv /\ ReceiverInv /\ AnswersInv
  BY DEF IInv
<1>2. /\ UNCHANGED <<size, svars, plan, current, received, partfile, committed, failure, s2r, broken>>
      /\ rpc \in {"deciding", "dirs", "loop", "mode"} /\ rpc' \in {"dirs", "loop", "recv"}
  BY DEF SendAccept, CreateDirectories, NextMessage, ApplyMode, net
<1>3. /\ ~ReceiverEnded /\ ReceiverEnded' = ReceiverEnded /\ Accepted' /\ ReceiverAt' = ReceiverAt
      /\ Wanted' = Wanted /\ NeverAccused' = NeverAccused
  BY <1>2 DEF ReceiverEnded, Ended, Accepted, ReceiverAt, Wanted, NeverAccused
<1>4. SenderInv' /\ sent' = sent /\ SenderAt' = SenderAt /\ (Linked' => Linked)
  BY <1>1, <1>2, <1>3, SenderRests
<1>5. PICK m : m = Accepting(plan)
  OBVIOUS
<1>6. r2s' = r2s \/ r2s' = Append(r2s, m)
  BY <1>5 DEF SendAccept, CreateDirectories, NextMessage, ApplyMode, Sendable, net
<1>7. AnswersInv' /\ IsSequence(r2s')
  BY <1>1, <1>2, <1>3, <1>5, <1>6, AnswersGrow DEF Accepting
<1>8. ChainInv'
  <2>1. Steady
    BY <1>2, <1>3, <1>4 DEF Steady
  <2>2. QED
    BY <1>1, <1>2, <1>3, <1>4, <2>1, ChainStays
<1>9. ReceiverInv'
  BY <1>1, <1>2, <1>3, <1>4 DEF ReceiverInv
<1>10. TypeOK'
  BY <1>1, <1>2, <1>7 DEF TypeOK, svars, ReceiverPlaces
<1>11. QED
  BY <1>4, <1>7, <1>8, <1>9, <1>10 DEF IInv

\* What arrives while the receiver reads messages.
LEMMA Reading ==
  ASSUME IInv, rpc = "recv", s2r # <<>>
  PROVE  /\ Objections(Head(s2r)) = {}
         /\ Head(s2r).kind = "FileStart" => current = Absent /\ Head(s2r).index \in Wanted
         /\ Head(s2r).kind = "Data" => current \in Files
         /\ Head(s2r).kind = "FileEnd" =>
              /\ current = Head(s2r).index /\ current \in Wanted
              /\ Head(s2r).size = received /\ sent[current] = received
         /\ Head(s2r).kind = "Complete" =>
              current = Absent /\ \A f \in Wanted : committed[f] # Absent
<1>1. PICK m : m = Head(s2r)
  OBVIOUS
<1>2. Fits(ReceiverAt, m)
  BY <1>1, HeadFits DEF IInv, ReceiverEnded, Ended
<1>3. ReceiverAt = At("files", current, IF current = Absent THEN 0 ELSE received, committed)
  BY DEF ReceiverAt
<1>4. PICK c : c = ReceiverAt
  OBVIOUS
<1>5. /\ c.phase = "files" /\ c.file = current /\ c.ended = committed
      /\ c.count = IF current = Absent THEN 0 ELSE received
  BY <1>3, <1>4 DEF At
<1>6. m.kind \in {"FileStart", "Data", "FileEnd", "Complete"}
  BY <1>2, <1>4, <1>5 DEF Fits
<1>7. m.kind = "FileStart" => current = Absent /\ m.index \in Wanted
  BY <1>2, <1>4, <1>5 DEF Fits
<1>8. m.kind = "Data" => /\ current \in Files /\ current # Absent
                         /\ m.offset = received /\ received < size[current]
  BY <1>2, <1>4, <1>5, Indices DEF Fits
<1>9. m.kind = "FileEnd" => /\ current = m.index /\ current \in Wanted
                            /\ m.size = received /\ sent[current] = received
  BY <1>2, <1>4, <1>5, Indices DEF Fits, Wanted
<1>10. m.kind = "Complete" => current = Absent /\ \A f \in Wanted : committed[f] # Absent
  BY <1>2, <1>4, <1>5 DEF Fits
<1>11. ASSUME NEW why \in Objections(m) PROVE FALSE
  <2>1. received \in Nat /\ size \in [Files -> Nat]
    BY DEF IInv, TypeOK
  <2>2. m.kind = "Data" => ~ (received >= size[current])
    BY <1>8, <2>1
  <2>3. Wanted = Files \cap plan
    BY DEF Wanted
  <2>4. QED
    BY <1>6, <1>7, <1>8, <1>9, <1>10, <1>11, <2>2, <2>3 DEF Objections
<1>12. QED
  BY <1>1, <1>7, <1>8, <1>9, <1>10, <1>11

\* Steps of the receiver that read a message and go on.
LEMMA TakingKeeps ==
  ASSUME IInv, AnswerCapabilities \/ StartFile \/ WriteData \/ Commit
  PROVE  IInv'
<1>1. TypeOK /\ ChainInv /\ SenderInv /\ ReceiverInv /\ AnswersInv
  BY DEF IInv
<1>2. /\ UNCHANGED <<size, svars, plan, failure, broken>>
      /\ rpc \in {"caps", "recv"} /\ rpc' \in {"offer", "loop", "mode"}
      /\ (rpc = "caps" => rpc' = "offer") /\ (rpc = "recv" => rpc' # "offer")
      /\ s2r # <<>> /\ s2r' = Tail(s2r)
  BY DEF AnswerCapabilities, StartFile, WriteData, Commit, Takes, Arrived
<1>3. /\ ~ReceiverEnded /\ ~ReceiverEnded' /\ Accepted' = Accepted
      /\ Wanted' = Wanted /\ NeverAccused' = NeverAccused
  BY <1>2 DEF ReceiverEnded, Ended, Accepted, Wanted, NeverAccused
<1>4. SenderInv' /\ sent' = sent /\ size' = size /\ SenderAt' = SenderAt /\ (Linked' => Linked)
  BY <1>1, <1>2, <1>3, SenderRests
<1>5. Steady
  BY <1>2, <1>3, <1>4 DEF Steady
<1>6. PICK answer : answer = Plain("Capabilities")
  OBVIOUS
<1>7. r2s' = r2s \/ r2s' = Append(r2s, answer)
  BY <1>6 DEF AnswerCapabilities, StartFile, WriteData, Commit, Sendable
<1>8. AnswersInv' /\ IsSequence(r2s') /\ IsSequence(s2r')
  <2>1. IsSequence(s2r')
    BY <1>1, <1>2, TailFacts DEF TypeOK
  <2>2. answer.kind # "Accept" /\ answer.kind # "Complete"
    BY <1>6 DEF Plain
  <2>3. QED
    BY <1>1, <1>2, <1>3, <1>7, <2>1, <2>2, AnswersGrow
<1>9. PICK m : m = Head(s2r)
  OBVIOUS
<1>10. /\ current' \in Files \cup {Absent} /\ received' \in Nat /\ committed' \in Counts
       /\ ReceiverAt' = After(ReceiverAt, m) /\ ReceiverInv'
  <2>1. /\ current \in Files \cup {Absent} /\ received \in Nat /\ committed \in Counts
        /\ Wanted \subseteq Files
    BY <1>1 DEF TypeOK, Wanted
  <2>2. CASE AnswerCapabilities
    <3>1. /\ rpc = "caps" /\ rpc' = "offer" /\ m.kind = "Capabilities"
          /\ UNCHANGED <<current, received, partfile, committed>>
      BY <1>9, <2>2 DEF AnswerCapabilities, Arrived
    <3>2. ReceiverAt' = After(ReceiverAt, m)
      BY <3>1 DEF ReceiverAt, After, At
    <3>3. ReceiverInv'
      BY <1>1, <1>2, <1>3, <1>4, <3>1 DEF ReceiverInv, Accepted, ReceiverEnded, Ended
    <3>4. QED
      BY <2>1, <3>1, <3>2, <3>3
  <2>3. CASE StartFile
    <3>1. /\ rpc = "recv" /\ rpc' = "loop" /\ m.kind = "FileStart" /\ committed' = committed
          /\ current' = m.index /\ received' = 0
      BY <1>9, <2>3 DEF StartFile, Takes, Arrived
    <3>2. current = Absent /\ m.index \in Wanted /\ m.index # Absent
      BY <1>2, <1>9, <2>1, <3>1, Reading, Indices
    <3>3. ReceiverAt = At("files", Absent, 0, committed) /\ ReceiverAt' = At("files", m.index, 0, committed)
      BY <3>1, <3>2 DEF ReceiverAt
    <3>4. ReceiverAt' = After(ReceiverAt, m)
      BY <3>1, <3>3 DEF After, At
    <3>5. ReceiverInv'
      BY <1>1, <1>2, <1>3, <1>4, <3>1, <3>2 DEF ReceiverInv, Accepted, ReceiverEnded, Ended
    <3>6. QED
      BY <2>1, <3>1, <3>2, <3>4, <3>5
  <2>4. CASE WriteData
    <3>1. /\ rpc = "recv" /\ rpc' = "loop" /\ m.kind = "Data"
          /\ UNCHANGED <<current, partfile, committed>> /\ received' = received + 1
      BY <1>9, <2>4 DEF WriteData, Takes, Arrived
    <3>2. current \in Files /\ current # Absent
      BY <1>2, <1>9, <3>1, Reading, Indices
    <3>3. /\ ReceiverAt = At("files", current, received, committed)
          /\ ReceiverAt' = At("files", current, received + 1, committed)
      BY <3>1, <3>2 DEF ReceiverAt
    <3>4. ReceiverAt' = After(ReceiverAt, m)
      BY <3>1, <3>3 DEF After, At
    <3>5. ReceiverInv'
      BY <1>1, <1>2, <1>3, <1>4, <3>1, <3>2 DEF ReceiverInv, Accepted, ReceiverEnded, Ended
    <3>6. QED
      BY <2>1, <3>1, <3>4, <3>5
  <2>5. CASE Commit
    <3>1. /\ rpc = "recv" /\ rpc' = "mode" /\ m.kind = "FileEnd" /\ received' = received
          /\ current' = Absent /\ partfile' = FALSE
          /\ committed' = [committed EXCEPT ![current] = received]
      BY <1>9, <2>5 DEF Commit, Takes, Arrived
    <3>2. /\ current = m.index /\ current \in Wanted /\ current \in Files /\ current # Absent
          /\ m.size = received /\ sent[current] = received
      BY <1>2, <1>9, <2>1, <3>1, Reading, Indices
    <3>3. /\ ReceiverAt = At("files", current, received, committed)
          /\ ReceiverAt' = At("files", Absent, 0, [committed EXCEPT ![current] = received])
      BY <3>1, <3>2 DEF ReceiverAt
    <3>4. ReceiverAt' = After(ReceiverAt, m)
      BY <3>1, <3>2, <3>3 DEF After, At
    <3>5. /\ committed' \in Counts /\ committed'[current] = received
          /\ \A f \in Files \ {current} : committed'[f] = committed[f]
      BY <2>1, <3>1, <3>2 DEF Counts
    <3>6. \A f \in Files : committed'[f] # Absent => f \in plan' /\ committed'[f] = sent'[f]
      BY <1>1, <1>2, <1>4, <3>2, <3>5 DEF ReceiverInv, Wanted
    <3>7. ReceiverInv'
      BY <1>1, <1>2, <1>3, <3>1, <3>6 DEF ReceiverInv, Accepted, ReceiverEnded, Ended
    <3>8. QED
      BY <2>1, <3>1, <3>4, <3>5, <3>7
  <2>6. QED
    BY <2>2, <2>3, <2>4, <2>5
<1>11. ChainInv'
  BY <1>1, <1>2, <1>3, <1>4, <1>5, <1>9, <1>10, ChainShrinks
<1>12. TypeOK'
  BY <1>1, <1>2, <1>8, <1>10 DEF TypeOK, svars, ReceiverPlaces
<1>13. QED
  BY <1>4, <1>8, <1>10, <1>11, <1>12 DEF IInv

\* Before the receiver has answered, nothing follows the offer.
LEMMA PlanOfferKeeps ==
  ASSUME IInv, PlanOffer
  PROVE  IInv'
<1>1. TypeOK /\ ChainInv /\ SenderInv /\ ReceiverInv /\ AnswersInv
  BY DEF IInv
<1>2. /\ UNCHANGED <<size, svars, current, received, partfile, committed, failure, r2s, broken>>
      /\ rpc = "offer" /\ rpc' = "deciding" /\ plan' \subseteq Files \cup Dirs
      /\ s2r # <<>> /\ Head(s2r).kind = "Offer" /\ s2r' = Tail(s2r)
  BY DEF PlanOffer, Arrived
<1>3. /\ ~ReceiverEnded /\ ~ReceiverEnded' /\ ~Accepted /\ ~Accepted'
      /\ NeverAccused' = NeverAccused /\ current = Absent /\ committed = NoFiles
  BY <1>1, <1>2 DEF ReceiverEnded, Ended, Accepted, NeverAccused, ReceiverInv
<1>4. SenderInv' /\ sent' = sent /\ size' = size /\ SenderAt' = SenderAt /\ (Linked' => Linked)
  BY <1>1, <1>2, <1>3, SenderRests
<1>5. ReceiverAt = At("offer", Absent, 0, NoFiles) /\ ReceiverAt' = At("files", Absent, 0, NoFiles)
  BY <1>2, <1>3 DEF ReceiverAt
<1>6. PICK c : Chain(c)
  BY <1>1, <1>3 DEF ChainInv
<1> DEFINE n == Len(s2r)
<1>7. /\ IsSequence(s2r') /\ n \in Nat /\ n >= 1 /\ Head(s2r) = s2r[1] /\ Len(s2r') = n - 1
  BY <1>1, <1>2, TailFacts DEF TypeOK
<1>8. c[2] = At("files", Absent, 0, NoFiles)
  <2>1. c[1] = At("offer", Absent, 0, NoFiles) /\ c[2] = After(c[1], s2r[1])
    BY <1>5, <1>6, <1>7 DEF Chain
  <2>2. QED
    BY <1>2, <1>7, <2>1 DEF After, At
<1>9. n = 1
  <2>1. SUFFICES ASSUME n >= 2 PROVE FALSE
    BY <1>7
  <2>2. Fits(c[2], s2r[2])
    BY <1>6, <1>7, <2>1 DEF Chain
  <2>3. PICK d : d = c[2]
    OBVIOUS
  <2>4. d.phase = "files" /\ d.file = Absent
    BY <1>8, <2>3 DEF At
  <2>5. PICK m : m = s2r[2]
    OBVIOUS
  <2>6. Fits(d, m)
    BY <2>2, <2>3, <2>5
  <2>7. QED
    BY <1>3, <2>4, <2>6, Indices DEF Fits, Wanted
<1>10. ChainInv'
  <2>1. Linked' => SenderAt' = ReceiverAt'
    BY <1>4, <1>5, <1>6, <1>8, <1>9 DEF Chain
  <2>2. PICK f : f = [i \in 1..1 |-> ReceiverAt']
    OBVIOUS
  <2>3. Len(s2r') = 0
    BY <1>7, <1>9
  <2>4. f[1] = ReceiverAt' /\ 1..0 = {}
    BY <2>2
  <2>5. Chain(f)'
    BY <2>1, <2>3, <2>4 DEF Chain
  <2>6. QED
    BY <1>3, <2>5 DEF ChainInv
<1>11. AnswersInv'
  BY <1>1, <1>2, <1>3 DEF AnswersInv
<1>12. ReceiverInv'
  BY <1>1, <1>2, <1>3, <1>4 DEF ReceiverInv, ReceiverEnded, NoFiles
<1>13. TypeOK'
  BY <1>1, <1>2, <1>7 DEF TypeOK, svars, ReceiverPlaces
<1>14. QED
  BY <1>4, <1>10, <1>11, <1>12, <1>13 DEF IInv

\* The receiver ends, whatever the reason.
LEMMA ReceiverEndsKeeps ==
  ASSUME IInv, ~ReceiverEnded, UNCHANGED <<size, svars, plan, received, committed>>, rpc' \in Ended,
         current' \in {current, Absent}, NEW in, NEW m, m.kind # "Accept",
         m.kind = "Complete" => rpc' = "ok",
         ReceiverCloses(in, r2s) \/ ReceiverCloses(in, Sendable(m)),
         ReceiverInv'
  PROVE  IInv'
<1>1. TypeOK /\ ChainInv /\ SenderInv /\ AnswersInv
  BY DEF IInv
<1>2. Accepted' /\ plan' = plan /\ ReceiverEnded'
  BY DEF Accepted, Ended, ReceiverEnded
<1>3. SenderInv'
  BY <1>1, <1>2, SenderRests
<1>4. s2r' = <<>> /\ (r2s' = r2s \/ r2s' = Append(r2s, m) \/ r2s' = <<>>)
  BY DEF ReceiverCloses, Sendable
<1>5. AnswersInv' /\ IsSequence(r2s')
  BY <1>1, <1>2, <1>4, AnswersGrow
<1>6. ChainInv' /\ IsSequence(s2r')
  BY <1>2, <1>4, ChainEmpties, NoMessages
<1>7. TypeOK'
  BY <1>1, <1>5, <1>6 DEF TypeOK, svars, ReceiverPlaces, Ended
<1>8. QED
  BY <1>3, <1>5, <1>6, <1>7 DEF IInv

LEMMA ReceiverFailKeeps ==
  ASSUME IInv, \/ RejectOffer \/ Decline \/ RejectMessage \/ RejectEntry
               \/ ReceiverCancels \/ ReceiverLoses \/ ReceiverQuits
  PROVE  IInv'
<1>1. ReceiverInv
  BY DEF IInv
<1>2. /\ ~ReceiverEnded /\ UNCHANGED <<size, svars, plan, received, committed>> /\ rpc' = "failed"
      /\ \/ current' = Absent /\ partfile' = FALSE
         \/ current' = current /\ partfile' = partfile /\ failure' = "quit"
  BY DEF RejectOffer, Decline, RejectMessage, RejectEntry, ReceiverCancels, ReceiverLoses,
         ReceiverQuits, ReceiverFails, ReceiverEnded, Ended
<1>3. failure' \in {"refused", "declined", "disk", "cancelled", "lost", "quit"}
  <2>1. CASE RejectMessage
    <3>1. rpc = "recv" /\ s2r # <<>> /\ failure' \in Objections(Head(s2r)) \cup {"disk"}
      BY <2>1 DEF RejectMessage, ReceiverFails
    <3>2. QED
      BY <3>1, Reading
  <2>2. CASE ~RejectMessage
    BY <2>2 DEF RejectOffer, Decline, RejectEntry, ReceiverCancels, ReceiverLoses,
                ReceiverQuits, ReceiverFails
  <2>3. QED
    BY <2>1, <2>2
<1>4. \E in, m : /\ m.kind \notin {"Accept", "Complete"}
                 /\ ReceiverCloses(in, r2s) \/ ReceiverCloses(in, Sendable(m))
  <2>1. \A last : last \notin {"Accept", "Complete"} => Plain(last).kind \notin {"Accept", "Complete"}
    BY DEF Plain
  <2>2. ASSUME NEW why, NEW in, NEW last \in {"none", "Failure", "Decline", "Cancel"},
               ReceiverFails(why, in, last)
        PROVE  ReceiverCloses(in, r2s) \/ ReceiverCloses(in, Sendable(Plain(last)))
    BY <2>2 DEF ReceiverFails
  <2>3. CASE ReceiverQuits
    BY <2>1, <2>3 DEF ReceiverQuits
  <2>4. CASE ~ReceiverQuits
    <3>1. \E why, in : \E last \in {"none", "Failure", "Decline", "Cancel"} : ReceiverFails(why, in, last)
      BY <2>4 DEF RejectOffer, Decline, RejectMessage, RejectEntry, ReceiverCancels, ReceiverLoses
    <3>2. QED
      BY <2>1, <2>2, <3>1
  <2>5. QED
    BY <2>3, <2>4
<1>5. ReceiverInv'
  <2>1. Wanted' = Wanted /\ sent' = sent /\ plan' = plan /\ committed' = committed
    BY <1>2 DEF Wanted, svars
  <2>2. Accepted' /\ rpc' \notin {"caps", "offer", "ok"} /\ NeverAccused'
    BY <1>2, <1>3 DEF Accepted, NeverAccused
  <2>3. current' # Absent => current' \in Wanted
    BY <1>1, <1>2 DEF ReceiverInv
  <2>4. partfile' => failure' = "quit"
    BY <1>2
  <2>5. \A f \in Files : committed'[f] # Absent => f \in plan' /\ committed'[f] = sent'[f]
    BY <1>1, <2>1 DEF ReceiverInv
  <2>6. QED
    BY <1>2, <2>1, <2>2, <2>3, <2>4, <2>5 DEF ReceiverInv
<1>6. QED
  BY <1>2, <1>4, <1>5, ReceiverEndsKeeps DEF Ended

LEMMA SucceedKeeps ==
  ASSUME IInv, Succeed
  PROVE  IInv'
<1>1. ReceiverInv
  BY DEF IInv
<1>2. /\ UNCHANGED <<size, svars, plan, received, committed, current, partfile, failure>>
      /\ rpc = "recv" /\ rpc' = "ok" /\ s2r # <<>> /\ Head(s2r).kind = "Complete"
      /\ ReceiverCloses(Tail(s2r), Sendable(Plain("Complete")))
  BY DEF Succeed, Arrived
<1>3. current = Absent /\ \A f \in Wanted : committed[f] # Absent
  BY <1>2, Reading
<1>4. ~ReceiverEnded /\ Accepted /\ Accepted' /\ Wanted' = Wanted /\ sent' = sent /\ failure # "quit"
  BY <1>1, <1>2 DEF ReceiverEnded, Ended, Accepted, Wanted, svars, ReceiverInv
<1>5. ~partfile
  BY <1>1, <1>3, <1>4 DEF ReceiverInv
<1>6. ReceiverInv'
  BY <1>1, <1>2, <1>3, <1>4, <1>5 DEF ReceiverInv, NeverAccused
<1>7. PICK m : m = Plain("Complete")
  OBVIOUS
<1>8. QED
  BY <1>2, <1>4, <1>6, <1>7, ReceiverEndsKeeps DEF Plain, Ended

-----------------------------------------------------------------------------
(* The users and the connection. *)

LEMMA BreakKeeps ==
  ASSUME IInv, Break
  PROVE  IInv'
<1>1. TypeOK /\ ChainInv /\ SenderInv /\ ReceiverInv /\ AnswersInv
  BY DEF IInv
<1>2. /\ UNCHANGED <<size, svars, rvars>> /\ broken'
      /\ s2r' = s2r \/ s2r' = <<>>
      /\ r2s' = r2s \/ r2s' = <<>>
  BY DEF Break
<1>3. /\ UNCHANGED <<spc, todo, offset, sent, rpc, plan, current, received, partfile, committed, failure>>
      /\ Accepted' = Accepted
  BY <1>2 DEF svars, rvars, Accepted
<1>4. AnswersInv' /\ IsSequence(r2s')
  BY <1>1, <1>2, AnswersRead
<1>5. Steady
  BY <1>2, <1>3 DEF Steady
<1>6. ReceiverInv' /\ ReceiverAt' = ReceiverAt /\ ReceiverEnded' = ReceiverEnded
  BY <1>1, <1>2, <1>5, ReceiverRests
<1>7. SenderInv'
  BY <1>1, <1>2, <1>3 DEF SenderInv, Working, InFile
<1>8. ~Linked'
  BY <1>2 DEF Linked
<1>9. ChainInv' /\ IsSequence(s2r')
  <2>1. CASE s2r' = s2r
    BY <1>1, <1>5, <1>6, <1>8, <2>1, ChainStays DEF TypeOK
  <2>2. CASE s2r' = <<>>
    BY <1>8, <2>2, ChainEmpties, NoMessages
  <2>3. QED
    BY <1>2, <2>1, <2>2
<1>10. TypeOK'
  BY <1>1, <1>2, <1>3, <1>4, <1>9 DEF TypeOK
<1>11. QED
  BY <1>4, <1>6, <1>7, <1>9, <1>10 DEF IInv

LEMMA StillKeeps ==
  ASSUME IInv, UNCHANGED <<size, svars, rvars, net>>
  PROVE  IInv'
<1>1. UNCHANGED <<size, spc, todo, offset, sent, rpc, plan, current, received, partfile, committed,
                  failure, s2r, r2s, broken>>
  BY DEF svars, rvars, net
<1>2. TypeOK' /\ SenderInv' /\ ReceiverInv' /\ AnswersInv'
  BY <1>1 DEF IInv, TypeOK, SenderInv, ReceiverInv, AnswersInv, Accepted, Working, InFile, Wanted,
              ReceiverEnded, NeverAccused
<1>3. ReceiverAt' = ReceiverAt /\ SenderAt' = SenderAt /\ (Linked' => Linked)
      /\ ReceiverEnded' = ReceiverEnded
  BY <1>1 DEF ReceiverAt, SenderAt, Linked, ReceiverEnded
<1>4. Steady
  BY <1>1 DEF Steady, Accepted
<1>5. ChainInv'
  BY <1>1, <1>3, <1>4, ChainStays DEF IInv
<1>6. QED
  BY <1>2, <1>5 DEF IInv

-----------------------------------------------------------------------------
(* The whole. *)

LEMMA InitInv == Init => IInv
<1> SUFFICES ASSUME Init PROVE IInv
  OBVIOUS
<1>1. TypeOK
  <2>1. 0..MaxChunks \subseteq Nat
    BY TransferAssumption
  <2>2. size \in [Files -> Nat]
    BY <2>1 DEF Init
  <2>3. IsSequence(s2r) /\ IsSequence(r2s)
    BY NoMessages DEF Init
  <2>4. QED
    BY <2>2, <2>3 DEF Init, TypeOK, SenderPlaces, ReceiverPlaces, Counts
<1>2. ChainInv
  <2>1. ReceiverAt = At("caps", Absent, 0, NoFiles) /\ SenderAt = ReceiverAt
    BY DEF Init, ReceiverAt, SenderAt
  <2>2. PICK f : f = [i \in 1..1 |-> ReceiverAt]
    OBVIOUS
  <2>3. f[1] = ReceiverAt /\ Len(s2r) = 0 /\ 1..0 = {}
    BY <2>2, NoMessages DEF Init
  <2>4. Chain(f)
    BY <2>1, <2>3 DEF Chain
  <2>5. QED
    BY <2>4 DEF Init, ChainInv
<1>3. SenderInv /\ ReceiverInv
  BY DEF Init, SenderInv, ReceiverInv, NoFiles, Working, InFile, Wanted, Accepted, NeverAccused
<1>4. AnswersInv
  BY NoMessages DEF Init, AnswersInv
<1>5. QED
  BY <1>1, <1>2, <1>3, <1>4 DEF IInv

LEMMA NextKeeps == IInv /\ [Next]_vars => IInv'
<1> SUFFICES ASSUME IInv, [Next]_vars PROVE IInv'
  OBVIOUS
<1>1. CASE SenderStep
  BY <1>1, QuietSenderKeeps, GreetingKeeps, FileStepKeeps, GivingUpKeeps, SenderEndKeeps DEF SenderStep
<1>2. CASE ReceiverStep
  BY <1>2, QuietReceiverKeeps, TakingKeeps, PlanOfferKeeps, ReceiverFailKeeps, SucceedKeeps
     DEF ReceiverStep
<1>3. CASE \E side \in Sides : Cancel(side)
  <2>1. UNCHANGED <<size, svars, rvars, net>>
    BY <1>3 DEF Cancel
  <2>2. QED
    BY <2>1, StillKeeps
<1>4. CASE SenderQuits
  BY <1>4, SenderEndKeeps
<1>5. CASE ReceiverQuits
  BY <1>5, ReceiverFailKeeps
<1>6. CASE Break
  BY <1>6, BreakKeeps
<1>7. CASE UNCHANGED vars
  BY <1>7, StillKeeps DEF vars
<1>8. QED
  BY <1>1, <1>2, <1>3, <1>4, <1>5, <1>6, <1>7 DEF Next

LEMMA Inductive == Spec => []IInv
BY InitInv, NextKeeps, PTL DEF Spec

\* Every variable of a transfer, and what lies between its two ends, is what it should be, always.
THEOREM AlwaysTyped == Spec => []TypeOK
<1>1. IInv => TypeOK
  BY DEF IInv
<1>2. QED
  BY <1>1, Inductive, PTL

(* What has a finished name is exactly what the sender sent of that file,    *)
(* for any number of files of any size, whatever breaks, quits or is         *)
(* cancelled.  (writer.rs 113-206, receiver.rs 362-403)                      *)
THEOREM NothingStaysHalfWritten == Spec => []NothingHalfWritten
<1>1. IInv => NothingHalfWritten
  BY DEF IInv, ReceiverInv, NothingHalfWritten
<1>2. QED
  BY <1>1, Inductive, PTL

(* The sender's and the receiver's word on the outcome are true and agree:   *)
(* Complete can be taken without counting, since it is sent only when all    *)
(* files were, and the chain of messages brings the receiver as far.         *)
(* (sender.rs 84-139, receiver.rs 311-348)                                   *)
THEOREM ReportsAlwaysAgree == Spec => []ReportsAgree
<1>1. IInv => ReportsAgree
  <2> SUFFICES ASSUME IInv PROVE ReportsAgree
    OBVIOUS
  <2>1. ReceiverInv /\ SenderInv /\ committed \in Counts /\ sent \in Counts
    BY DEF IInv, TypeOK
  <2>2. rpc = "ok" => \A f \in Wanted : committed[f] # Absent
    BY <2>1 DEF ReceiverInv
  <2>3. ASSUME rpc = "ok", NEW f \in Files
        PROVE  sent[f] = committed[f] /\ (f \in plan <=> sent[f] # Absent)
    <3>1. sent[f] # Absent => f \in plan
      BY <2>1 DEF SenderInv
    <3>2. f \in plan => committed[f] # Absent
      BY <2>2, <2>3 DEF Wanted
    <3>3. committed[f] # Absent => f \in plan /\ committed[f] = sent[f]
      BY <2>1 DEF ReceiverInv
    <3>4. QED
      BY <3>1, <3>2, <3>3
  <2>4. QED
    BY <2>1, <2>2, <2>3 DEF SenderInv, ReportsAgree
<1>2. QED
  BY <1>1, Inductive, PTL

(* No check of the receiver ever fires at a sender that follows the code.    *)
(* (receiver.rs 235-332, 362-403)                                            *)
THEOREM NobodyIsAccused == Spec => []NeverAccused
<1>1. IInv => NeverAccused
  BY DEF IInv, ReceiverInv
<1>2. QED
  BY <1>1, Inductive, PTL

-----------------------------------------------------------------------------
(* The refinement. *)

Delivered == {f \in Files : committed[f] # Absent}

LEMMA SenderRefines ==
  ASSUME IInv, SenderStep \/ SenderQuits
  PROVE  [F!Next]_F!vars
<1>1. UNCHANGED <<rpc, plan, committed>>
  BY DEF SenderStep, SenderQuits, SendCapabilities, GetCapabilities, SendOffer, GetAccept, NextEntry,
         SendFileStart, OpenFile, ReadChunk, SendData, EndOfFile, SendFileEnd, SendComplete,
         GetComplete, SenderFails, SenderTold, Recover, rvars
<1>2. Wanted' = Wanted /\ Delivered' = Delivered /\ Outcome(rpc)' = Outcome(rpc)
  BY <1>1 DEF Wanted, Delivered, Outcome
<1>3. spc \notin Ended
  BY DEF SenderStep, SenderQuits, SendCapabilities, GetCapabilities, SendOffer, GetAccept, NextEntry,
         SendFileStart, OpenFile, ReadChunk, SendData, EndOfFile, SendFileEnd, SendComplete,
         GetComplete, SenderFails, SenderTold, Recover, Ended, SenderEnded
<1>4. CASE spc' \notin Ended
  BY <1>2, <1>3, <1>4 DEF F!vars, Delivered, Outcome
<1>5. CASE spc' = "failed"
  BY <1>2, <1>3, <1>5 DEF F!Next, F!SenderFails, Delivered, Outcome, Ended
<1>6. CASE spc' = "ok"
  <2>1. r2s # <<>> /\ Head(r2s).kind = "Complete"
    BY <1>6 DEF SenderStep, SenderQuits, SendCapabilities, GetCapabilities, SendOffer, GetAccept,
         NextEntry, SendFileStart, OpenFile, ReadChunk, SendData, EndOfFile, SendFileEnd,
         SendComplete, GetComplete, SenderFails, SenderTold, Recover, SenderSends, Arrived,
         Ended, SenderEnded
  <2>2. Head(r2s) = r2s[1] /\ 1 \in 1..Len(r2s)
    BY <2>1, TailFacts DEF IInv, TypeOK
  <2>3. rpc = "ok"
    BY <2>1, <2>2 DEF IInv, AnswersInv
  <2>4. QED
    BY <1>2, <1>3, <1>6, <2>3 DEF F!Next, F!SenderSucceeds, Delivered, Outcome, Ended
<1>7. QED
  BY <1>4, <1>5, <1>6 DEF Ended

LEMMA ReceiverRefines ==
  ASSUME IInv, ReceiverStep \/ ReceiverQuits
  PROVE  [F!Next]_F!vars
<1>1. spc' = spc /\ Outcome(spc)' = Outcome(spc)
  BY DEF ReceiverStep, ReceiverQuits, AnswerCapabilities, PlanOffer, RejectOffer, Decline, SendAccept,
         CreateDirectories, NextMessage, StartFile, WriteData, Commit, ApplyMode, Succeed,
         RejectMessage, RejectEntry, ReceiverCancels, ReceiverLoses, ReceiverFails, svars, Outcome
<1>2. CASE PlanOffer
  <2>1. /\ rpc = "offer" /\ rpc' = "deciding" /\ plan' \subseteq Files \cup Dirs
        /\ committed' = committed
    BY <1>2 DEF PlanOffer
  <2>2. plan = {}
    BY <2>1 DEF IInv, ReceiverInv
  <2>3. Wanted = {} /\ Wanted' \in SUBSET Files /\ Delivered' = Delivered
    BY <2>1, <2>2 DEF Wanted, Delivered
  <2>4. F!Choose(Wanted')
    BY <1>1, <2>1, <2>3 DEF F!Choose, Delivered, Outcome, Ended
  <2>5. QED
    BY <2>3, <2>4 DEF F!Next
<1>3. CASE Commit
  <2>1. /\ rpc = "recv" /\ rpc' = "mode" /\ s2r # <<>> /\ Head(s2r).kind = "FileEnd"
        /\ committed' = [committed EXCEPT ![current] = received] /\ plan' = plan
    BY <1>3 DEF Commit, Takes, Arrived
  <2>2. current \in Wanted /\ sent[current] = received /\ received \in Nat /\ committed \in Counts
    BY <2>1, Reading DEF IInv, TypeOK
  <2>3. current \in Files /\ received # Absent /\ Wanted' = Wanted
    BY <2>1, <2>2 DEF Wanted, Absent
  <2>4. Delivered' = Delivered \cup {current}
    BY <2>1, <2>2, <2>3 DEF Delivered, Counts
  <2>5. CASE current \in Delivered
    <3>1. Delivered' = Delivered
      BY <2>4, <2>5
    <3>2. QED
      BY <1>1, <2>1, <2>3, <3>1 DEF F!vars, Delivered, Outcome, Ended
  <2>6. CASE current \notin Delivered
    <3>1. PICK f \in Files : f = current
      BY <2>3
    <3>2. F!Deliver(f)
      BY <1>1, <2>1, <2>2, <2>3, <2>4, <2>6, <3>1 DEF F!Deliver, Delivered, Outcome, Ended
    <3>3. QED
      BY <3>2 DEF F!Next
  <2>7. QED
    BY <2>5, <2>6
<1>4. CASE Succeed
  <2>1. /\ rpc = "recv" /\ rpc' = "ok" /\ s2r # <<>> /\ Head(s2r).kind = "Complete"
        /\ committed' = committed /\ plan' = plan
    BY <1>4 DEF Succeed, Arrived
  <2>2. \A f \in Wanted : committed[f] # Absent
    BY <2>1, Reading
  <2>3. \A f \in Files : committed[f] # Absent => f \in Wanted
    BY DEF IInv, ReceiverInv, Wanted
  <2>4. Delivered = Wanted /\ Delivered' = Delivered /\ Wanted' = Wanted
    BY <2>1, <2>2, <2>3 DEF Delivered, Wanted
  <2>5. F!ReceiverSucceeds
    BY <1>1, <2>1, <2>4 DEF F!ReceiverSucceeds, Delivered, Outcome, Ended
  <2>6. QED
    BY <2>5 DEF F!Next
<1>5. CASE \/ RejectOffer \/ Decline \/ RejectMessage \/ RejectEntry
           \/ ReceiverCancels \/ ReceiverLoses \/ ReceiverQuits
  <2>1. rpc \notin Ended /\ rpc' = "failed" /\ committed' = committed /\ plan' = plan
    BY <1>5 DEF RejectOffer, Decline, RejectMessage, RejectEntry, ReceiverCancels, ReceiverLoses,
                ReceiverQuits, ReceiverFails, ReceiverEnded, Ended
  <2>2. Wanted' = Wanted /\ Delivered' = Delivered
    BY <2>1 DEF Wanted, Delivered
  <2>3. F!ReceiverFails
    BY <1>1, <2>1, <2>2 DEF F!ReceiverFails, Delivered, Outcome, Ended
  <2>4. QED
    BY <2>3 DEF F!Next
<1>6. CASE \/ AnswerCapabilities \/ SendAccept \/ CreateDirectories \/ NextMessage
           \/ StartFile \/ WriteData \/ ApplyMode
  <2>1. rpc \notin Ended /\ rpc' \notin Ended /\ committed' = committed /\ plan' = plan
    BY <1>6 DEF AnswerCapabilities, SendAccept, CreateDirectories, NextMessage, StartFile, WriteData,
                ApplyMode, Takes, Ended
  <2>2. Wanted' = Wanted /\ Delivered' = Delivered /\ Outcome(rpc)' = Outcome(rpc)
    BY <2>1 DEF Wanted, Delivered, Outcome
  <2>3. QED
    BY <1>1, <2>2 DEF F!vars, Delivered
<1>7. QED
  BY <1>2, <1>3, <1>4, <1>5, <1>6 DEF ReceiverStep

LEMMA RestRefines ==
  ASSUME UNCHANGED <<size, svars, rvars>>
  PROVE  UNCHANGED F!vars
<1>1. UNCHANGED <<spc, rpc, plan, committed>>
  BY DEF svars, rvars
<1>2. QED
  BY <1>1 DEF F!vars, Wanted, Outcome

(* A transfer keeps what FileTransfer promises its users: whole files, one   *)
(* at a time, of what was chosen; the receiver's success after all of them,  *)
(* the sender's after the receiver's.                                        *)
THEOREM TransferImplementsFileTransfer == Spec => ImplementsFileTransfer
<1>1. Init => F!Init
  BY DEF Init, F!Init, Wanted, Outcome, Ended
<1>2. IInv /\ [Next]_vars => [F!Next]_F!vars
  <2> SUFFICES ASSUME IInv, [Next]_vars PROVE [F!Next]_F!vars
    OBVIOUS
  <2>1. CASE SenderStep \/ SenderQuits
    BY <2>1, SenderRefines
  <2>2. CASE ReceiverStep \/ ReceiverQuits
    BY <2>2, ReceiverRefines
  <2>3. CASE \/ \E side \in Sides : Cancel(side)
             \/ Break \/ UNCHANGED vars
    <3>1. UNCHANGED <<size, svars, rvars>>
      BY <2>3 DEF Cancel, Break, vars
    <3>2. QED
      BY <3>1, RestRefines
  <2>4. QED
    BY <2>1, <2>2, <2>3 DEF Next
<1>3. QED
  BY <1>1, <1>2, Inductive, PTL DEF Spec, ImplementsFileTransfer, F!Spec
=============================================================================
