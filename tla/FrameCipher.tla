---------------------------- MODULE FrameCipher ----------------------------
(***************************************************************************)
(* The two directions of an established channel: SealingKey and OpeningKey *)
(* of src/crypto/cipher.rs, the frames and their limits of                 *)
(* src/protocol/frame.rs, and the exchange of capabilities that lowers the *)
(* limits.  The wire between the two may be anybody's: frames are lost,    *)
(* repeated, reordered, reflected, replaced, and the stream is cut         *)
(* anywhere.  The cipher is ideal: a frame opens only under the key and    *)
(* the nonce it was sealed with, and if nobody touched it.                 *)
(***************************************************************************)
EXTENDS Naturals, Sequences

CONSTANTS
  MaxCounter,  \* u64::MAX: the last value of a counter
  MaxFrame,    \* DEFAULT_MAX_FRAME
  MinFrame,    \* MIN_MAX_FRAME
  Caps         \* the max_frame a build may announce

ASSUME CipherAssumption ==
  /\ MaxCounter \in Nat /\ MaxFrame \in Nat /\ MinFrame \in Nat
  /\ 0 < MinFrame /\ MinFrame <= MaxFrame
  /\ Caps \subseteq Nat \ {0}

VARIABLES
  caps,        \* caps[s]: max_frame of the capabilities of s
  phase,       \* phase[s]: "start", "told" once its own are sent, "agreed"
  sealed,      \* the counter of SealingKey
  written,     \* written[s]: the frames s has written
  passed,      \* passed[s]: how many of its peer's frames the wire is through
  disturbed,   \* disturbed[s]: has the wire not just passed them on
  stream,      \* stream[s]: "flowing", or where what s reads was cut off
  opened,      \* the counter of OpeningKey
  poisoned,    \* OpeningKey::poisoned
  handed,      \* handed[s]: the frames that OpeningKey::open has examined
  status,      \* status[s]: what the last recv of s returned
  readLimit, writeLimit   \* max_frame of FrameReader and of FrameWriter

vars == <<caps, phase, sealed, written, passed, disturbed, stream, opened,
          poisoned, handed, status, readLimit, writeLimit>>

Sides == {"sender", "receiver"}
Peer(s) == IF s = "sender" THEN "receiver" ELSE "sender"
Sizes == 1..MaxFrame
MinOf(a, b) == IF a <= b THEN a ELSE b
MaxOf(a, b) == IF a >= b THEN a ELSE b

\* Mutant of KeyOf: one key for both directions.
OneKey(s) == "shared"

(* SessionKeys::derive: each direction has its own key. *)
KeyOf(s) == s

Frame(s, size) ==
  [key |-> KeyOf(s), nonce |-> sealed[s], size |-> size, id |-> Len(written[s]) + 1]

(* What anybody could write: it opens under no key. *)
Forged == {[key |-> "none", nonce |-> 0, size |-> n, id |-> 0] : n \in 1..(MaxFrame + 1)}

Written == UNION {{written[s][i] : i \in 1..Len(written[s])} : s \in Sides}

Init ==
  /\ caps \in [Sides -> Caps]
  /\ phase = [s \in Sides |-> "start"]
  /\ sealed = [s \in Sides |-> 0] /\ opened = [s \in Sides |-> 0]
  /\ written = [s \in Sides |-> <<>>] /\ handed = [s \in Sides |-> <<>>]
  /\ passed = [s \in Sides |-> 0]
  /\ disturbed = [s \in Sides |-> FALSE] /\ poisoned = [s \in Sides |-> FALSE]
  /\ stream = [s \in Sides |-> "flowing"]
  /\ status = [s \in Sides |-> "ok"]
  /\ readLimit = [s \in Sides |-> MaxFrame] /\ writeLimit = [s \in Sides |-> MaxFrame]

-----------------------------------------------------------------------------
(* Sending. *)

\* Mutant of Write: the counter starts again after its last value.
WriteWrapping(s, size) ==
  /\ sealed' = [sealed EXCEPT ![s] = (@ + 1) % (MaxCounter + 1)]
  /\ written' = IF size <= writeLimit[s]
                  THEN [written EXCEPT ![s] = Append(@, Frame(s, size))] ELSE written
  /\ UNCHANGED <<caps, passed, disturbed, stream, opened, poisoned, handed,
                 status, readLimit, writeLimit>>

(* seal, then write_buf. At the last value seal fails and leaves all as it *)
(* is; a frame over the limit is refused when it has been sealed.          *)
Write(s, size) ==
  /\ sealed[s] < MaxCounter
  /\ sealed' = [sealed EXCEPT ![s] = @ + 1]
  /\ written' = IF size <= writeLimit[s]
                  THEN [written EXCEPT ![s] = Append(@, Frame(s, size))] ELSE written
  /\ UNCHANGED <<caps, passed, disturbed, stream, opened, poisoned, handed,
                 status, readLimit, writeLimit>>

(* negotiate: the sender speaks first. Capabilities are a small frame. *)
TellCapabilities(s) ==
  /\ phase[s] = "start"
  /\ s = "receiver" => opened[s] = 1
  /\ phase' = [phase EXCEPT ![s] = "told"]
  /\ Write(s, 1)

\* Mutant of ApplyCapabilities: only what is read is limited.
ApplyToReader(s) ==
  /\ phase[s] = "told" /\ opened[s] = 1
  /\ phase' = [phase EXCEPT ![s] = "agreed"]
  /\ LET agreed == MaxOf(MinOf(caps[s], caps[Peer(s)]), MinFrame)
     IN  readLimit' = [readLimit EXCEPT ![s] = MinOf(@, agreed)]
  /\ UNCHANGED <<caps, sealed, written, passed, disturbed, stream, opened,
                 poisoned, handed, status, writeLimit>>

ApplyCapabilities(s) ==
  /\ phase[s] = "told" /\ opened[s] = 1
  /\ phase' = [phase EXCEPT ![s] = "agreed"]
  /\ LET agreed == MaxOf(MinOf(caps[s], caps[Peer(s)]), MinFrame)
     IN  /\ readLimit' = [readLimit EXCEPT ![s] = MinOf(@, agreed)]
         /\ writeLimit' = [writeLimit EXCEPT ![s] = MinOf(@, agreed)]
  /\ UNCHANGED <<caps, sealed, written, passed, disturbed, stream, opened,
                 poisoned, handed, status>>

SendMessage(s) ==
  /\ phase[s] = "agreed"
  /\ \E size \in Sizes : Write(s, size)
  /\ UNCHANGED phase

-----------------------------------------------------------------------------
(* Receiving: negotiate reads one frame, the transfer any number. *)
Reads(s) ==
  \/ phase[s] = "agreed"
  \/ opened[s] = 0 /\ phase[s] = IF s = "sender" THEN "told" ELSE "start"

Ideal(s, f) == f.key = KeyOf(Peer(s)) /\ f.nonce = opened[s]

Returns(s, what) == status' = [status EXCEPT ![s] = what]

\* Mutant of Open: a bad frame is skipped.
OpenSkipping(s, f) ==
  /\ handed' = [handed EXCEPT ![s] = Append(@, f)]
  /\ IF Ideal(s, f)
       THEN opened' = [opened EXCEPT ![s] = @ + 1] /\ Returns(s, "ok")
       ELSE Returns(s, "decrypt") /\ UNCHANGED opened
  /\ UNCHANGED poisoned

(* OpeningKey::open. *)
Open(s, f) ==
  IF poisoned[s]
    THEN Returns(s, "decrypt") /\ UNCHANGED <<opened, poisoned, handed>>
    ELSE /\ handed' = [handed EXCEPT ![s] = Append(@, f)]
         /\ CASE Ideal(s, f) /\ opened[s] < MaxCounter ->
                   /\ opened' = [opened EXCEPT ![s] = @ + 1]
                   /\ Returns(s, "ok") /\ UNCHANGED poisoned
              [] Ideal(s, f) /\ opened[s] = MaxCounter ->
                   Returns(s, "exhausted") /\ UNCHANGED <<opened, poisoned>>
              [] OTHER ->
                   /\ poisoned' = [poisoned EXCEPT ![s] = TRUE]
                   /\ Returns(s, "decrypt") /\ UNCHANGED opened

(* Channel::recv of a whole frame. A length over the limit is not a frame. *)
Recv(s, f) ==
  /\ Reads(s) /\ stream[s] = "flowing"
  /\ IF f.size <= readLimit[s]
       THEN Open(s, f)
       ELSE Returns(s, "too large") /\ UNCHANGED <<opened, poisoned, handed>>
  /\ UNCHANGED <<caps, phase, sealed, written, stream, readLimit, writeLimit>>

RecvNext(s) ==
  /\ passed[s] < Len(written[Peer(s)])
  /\ passed' = [passed EXCEPT ![s] = @ + 1]
  /\ Recv(s, written[Peer(s)][passed[s] + 1])
  /\ UNCHANGED disturbed

(* Repeated, reordered, reflected or forged. *)
RecvOther(s) ==
  /\ \E f \in Written \cup Forged : Recv(s, f)
  /\ disturbed' = [disturbed EXCEPT ![s] = TRUE]
  /\ UNCHANGED passed

Lose(s) ==
  /\ passed[s] < Len(written[Peer(s)])
  /\ passed' = [passed EXCEPT ![s] = @ + 1]
  /\ disturbed' = [disturbed EXCEPT ![s] = TRUE]
  /\ UNCHANGED <<caps, phase, sealed, written, stream, opened, poisoned, handed,
                 status, readLimit, writeLimit>>

(* The stream ends: between frames, inside a length, inside a payload. *)
CutOff(s) ==
  /\ stream[s] = "flowing"
  /\ \E where \in {"boundary", "header", "body"} :
       /\ where # "boundary" => passed[s] < Len(written[Peer(s)]) \/ disturbed[s]
       /\ stream' = [stream EXCEPT ![s] = where]
  /\ UNCHANGED <<caps, phase, sealed, written, passed, disturbed, opened,
                 poisoned, handed, status, readLimit, writeLimit>>

(* read_exact of the header reports every early end alike. *)
RecvEnd(s) ==
  /\ Reads(s) /\ stream[s] # "flowing"
  /\ Returns(s, IF stream[s] = "body" THEN "unexpected end" ELSE "closed")
  /\ UNCHANGED <<caps, phase, sealed, written, passed, disturbed, stream,
                 opened, poisoned, handed, readLimit, writeLimit>>

Next ==
  \E s \in Sides :
    \/ TellCapabilities(s) \/ ApplyCapabilities(s) \/ SendMessage(s)
    \/ RecvNext(s) \/ RecvOther(s) \/ RecvEnd(s)
    \/ Lose(s) \/ CutOff(s)

Spec == Init /\ [][Next]_vars

-----------------------------------------------------------------------------
Phases == {"start", "told", "agreed"}
Streams == {"flowing", "boundary", "header", "body"}
Results == {"ok", "decrypt", "exhausted", "too large", "closed", "unexpected end"}
Refusals == {"decrypt", "too large", "exhausted"}
Frames == [key : Sides, nonce : 0..MaxCounter, size : Sizes, id : Nat]

TypeOK ==
  /\ caps \in [Sides -> Caps]
  /\ phase \in [Sides -> Phases]
  /\ sealed \in [Sides -> 0..MaxCounter] /\ opened \in [Sides -> 0..MaxCounter]
  /\ written \in [Sides -> Seq(Frames)]
  /\ handed \in [Sides -> Seq(Frames \cup Forged)]
  /\ passed \in [Sides -> Nat]
  /\ disturbed \in [Sides -> BOOLEAN] /\ poisoned \in [Sides -> BOOLEAN]
  /\ stream \in [Sides -> Streams] /\ status \in [Sides -> Results]
  /\ readLimit \in [Sides -> Sizes] /\ writeLimit \in [Sides -> Sizes]

(***************************************************************************)
(* No two frames on the wire share a key and a nonce, in either direction, *)
(* up to the end of the counter.  (crypto/cipher.rs 3-20, 75-87)           *)
(***************************************************************************)
NonceUsedOnce ==
  \A s, t \in Sides : \A i \in 1..Len(written[s]), j \in 1..Len(written[t]) :
    /\ written[s][i].key = written[t][j].key
    /\ written[s][i].nonce = written[t][j].nonce
    => s = t /\ i = j

(***************************************************************************)
(* Whatever the wire does, the frames accepted are the first ones that     *)
(* open was given and the first ones the peer sealed, in order: nothing is *)
(* skipped, and a stream that failed once is never taken up again.         *)
(* (crypto/cipher.rs 14-17, 122-159)                                       *)
(***************************************************************************)
OpenedInOrder ==
  \A s \in Sides :
    /\ opened[s] <= Len(handed[s]) /\ opened[s] <= Len(written[Peer(s)])
    /\ \A i \in 1..opened[s] : handed[s][i] = written[Peer(s)][i]

(***************************************************************************)
(* On a wire that only passes frames on, an honest peer is never taken for *)
(* a bad one: as long as it wrote all it sealed, no frame of it fails to   *)
(* open or is larger than the reader's limit, also while the two lower     *)
(* their limits at different times.  (protocol/channel.rs 150-157,         *)
(* transfer/sender.rs 211-228, transfer/receiver.rs 405-423)               *)
(***************************************************************************)
HonestStreamHolds ==
  \A s \in Sides :
    ~disturbed[s] /\ sealed[Peer(s)] = Len(written[Peer(s)])
      => ~poisoned[s] /\ status[s] \notin Refusals

=============================================================================
