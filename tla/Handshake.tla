----------------------------- MODULE Handshake -----------------------------
(***************************************************************************)
(* Channel::establish of src/protocol/channel.rs, run by two programs on   *)
(* one connection: the magic, the Hello with versions and role, the        *)
(* exchange over the code, the confirmation.  Key exchange, derivation and *)
(* hash are ideal: a value stands for exactly what has gone into it        *)
(* (src/crypto/pake.rs, src/crypto/keys.rs).  The builds may be of         *)
(* different versions, the users may have typed different codes or both    *)
(* have started a sender, the connection may end at any point, and one of  *)
(* the two may be a stranger: a program that is not rusp, or one that says *)
(* every message well-formed, forged or reflected, without having the code *)
(* (who has the code is no stranger).                                      *)
(***************************************************************************)
EXTENDS Naturals, Sequences, Bounds

CONSTANTS
  Builds,      \* the versions that builds speak: records [min, max]
  GivenCodes   \* transfer codes, the room and the words

\* A build speaks at least one version (PROTOCOL_MIN, PROTOCOL_MAX).
HandshakeAssumption ==
  /\ Builds \subseteq [min : Nat, max : Nat]
  /\ \A b \in Builds : b.min <= b.max

Ends == {"a", "b"}

VARIABLES
  build,    \* PROTOCOL_MIN and PROTOCOL_MAX of each end
  role,     \* "sender" or "receiver"
  codeOf,   \* the code given to each end
  foreign,  \* the ends that are strangers
  step,     \* what each end waits for, or how establish ended
  wire,     \* wire[e]: the messages e has written and its peer has not read
  gone,     \* the ends that have closed the connection
  version,  \* the version chosen, 0 before
  heard     \* the Hello and the element that each end has read

handshakeVars == <<build, role, codeOf, foreign, step, wire, gone, version, heard>>

PeerOf(e) == IF e = "a" THEN "b" ELSE "a"
Opposite(r) == IF r = "sender" THEN "receiver" ELSE "sender"

Reading == {"magic", "hello", "pake", "confirm"}
Lost == {"UnexpectedEof", "Io", "Timeout", "Killed"}

-----------------------------------------------------------------------------
(* What is said, and what is made of it. *)

LocalHello(e) == [min |-> build[e].min, max |-> build[e].max, role |-> role[e]]

\* pake::start: the side of SPAKE2, and an element nobody else has.
Element(e) == [side |-> role[e], of |-> e]

\* PakeState::finish: the words are the password and the room is in the
\* identities; both ends get the same if they have the same code.
PakeOutput(e) == [code |-> codeOf[e], elements |-> {Element(e), heard[e].pake}]

\* Mutant of Ordered: each end hashes what it has said itself first.
OwnFirst(e, ours, theirs) == <<ours, theirs>>

\* order: the sender's first, whichever end this is.
Ordered(e, ours, theirs) == IF role[e] = "sender" THEN <<ours, theirs>> ELSE <<theirs, ours>>

\* Transcript: each item is absorbed with its label and its length.
Transcript(e) ==
  [version |-> version[e],
   hello |-> Ordered(e, LocalHello(e), heard[e].hello),
   pake  |-> Ordered(e, Element(e), heard[e].pake)]

\* SessionKeys::derive: the transcript is the salt, info names version and use.
Key(e, purpose, from) ==
  [secret |-> PakeOutput(e), salt |-> Transcript(e), info |-> <<version[e], purpose, from>>]

\* Mutant of SealKey: the roles are not swapped for the receiver.
SealKeyUnswapped(e) == Key(e, "data", "sender")

SealKey(e) == Key(e, "data", role[e])
OpenKey(e) == Key(e, "data", Opposite(role[e]))
ConfirmTag(e)   == [key |-> Key(e, "confirm", role[e]), over |-> Transcript(e)]
ExpectedTag(e) == [key |-> Key(e, "confirm", Opposite(role[e])), over |-> Transcript(e)]

\* negotiate_version: the highest version that both speak.
ChosenVersion(e, hello) == Least(build[e].max, hello.max)

PossibleRange(hello) == hello.min <= hello.max
SharesVersion(e, hello) == ChosenVersion(e, hello) >= build[e].min /\ ChosenVersion(e, hello) >= hello.min

-----------------------------------------------------------------------------
Unheard == [hello |-> [min |-> 0, max |-> 0, role |-> "none"],
            pake |-> [side |-> "none", of |-> "none"]]

HandshakeInit ==
  /\ build \in [Ends -> Builds]
  /\ role \in [Ends -> {"sender", "receiver"}]
  /\ codeOf \in [Ends -> GivenCodes]
  /\ foreign \in {{}} \cup {{e} : e \in Ends}
  /\ step = [e \in Ends |-> "start"]
  /\ wire = [e \in Ends |-> <<>>]
  /\ gone = {}
  /\ version = [e \in Ends |-> 0]
  /\ heard = [e \in Ends |-> Unheard]

Setup == <<build, role, codeOf, foreign>>

Said(kind, body) == [kind |-> kind, body |-> body]

\* Mutant of Begin: the magic is only written when the peer's has been read.
BeginSilently(e) ==
  /\ step[e] = "start" /\ e \notin foreign
  /\ step' = [step EXCEPT ![e] = "magic"]
  /\ UNCHANGED <<wire, gone, version, heard, Setup>>

Begin(e) ==
  /\ step[e] = "start" /\ e \notin foreign
  /\ step' = [step EXCEPT ![e] = "magic"]
  /\ wire' = [wire EXCEPT ![e] = Append(@, Said("magic", "RUSP"))]
  /\ UNCHANGED <<gone, version, heard, Setup>>

\* e reads what it waits for.
HasToRead(e, what) == step[e] = what /\ wire[PeerOf(e)] # <<>>
Message(e) == Head(wire[PeerOf(e)])

\* It says the next thing and waits for the next answer.
GoesOn(e, what, body) ==
  /\ step' = [step EXCEPT ![e] = what]
  /\ wire' = [wire EXCEPT ![PeerOf(e)] = Tail(@), ![e] = Append(@, Said(what, body))]
  /\ UNCHANGED gone

\* establish returns an error: the socket is dropped.
Fails(e, error) ==
  /\ step' = [step EXCEPT ![e] = error]
  /\ gone' = gone \cup {e}
  /\ UNCHANGED <<wire, version, heard, Setup>>

ReadMagic(e) ==
  /\ HasToRead(e, "magic")
  /\ Message(e).kind = "magic"
  /\ GoesOn(e, "hello", LocalHello(e))
  /\ UNCHANGED <<version, heard, Setup>>

\* The transcript is of what was read, whatever was in it.
ReadHello(e) ==
  /\ HasToRead(e, "hello")
  /\ Message(e).kind = "hello"
  /\ LET hello == Message(e).body
     IN  /\ PossibleRange(hello) /\ SharesVersion(e, hello) /\ hello.role = Opposite(role[e])
         /\ version' = [version EXCEPT ![e] = ChosenVersion(e, hello)]
         /\ heard' = [heard EXCEPT ![e].hello = hello]
  /\ GoesOn(e, "pake", Element(e))
  /\ UNCHANGED Setup

\* A range is checked before versions are compared, and these before roles;
\* an impossible range and a wrong role are called malformed.
RefuseHello(e) ==
  /\ HasToRead(e, "hello")
  /\ Message(e).kind = "hello"
  /\ LET hello == Message(e).body
     IN  \/ ~PossibleRange(hello) /\ Fails(e, "Malformed")
         \/ PossibleRange(hello) /\ ~SharesVersion(e, hello) /\ Fails(e, "IncompatibleVersion")
         \/ /\ PossibleRange(hello) /\ SharesVersion(e, hello)
            /\ hello.role # Opposite(role[e]) /\ Fails(e, "Malformed")

ReadPake(e) ==
  /\ HasToRead(e, "pake")
  /\ Message(e).kind = "pake" /\ Message(e).body.side = Opposite(role[e])
  /\ heard' = [heard EXCEPT ![e].pake = Message(e).body]
  /\ step' = [step EXCEPT ![e] = "confirm"]
  /\ UNCHANGED <<gone, version, Setup>>
  /\ wire' = [wire EXCEPT ![PeerOf(e)] = Tail(@), ![e] = Append(@, Said("confirm", ConfirmTag(e)'))]

\* PakeState::finish refuses what is no element of the other side: no point of
\* the curve, or the end's own, reflected.
RefusePake(e) ==
  /\ HasToRead(e, "pake")
  /\ Message(e).kind = "pake" /\ Message(e).body.side # Opposite(role[e])
  /\ Fails(e, "Pake")

\* verify_confirm
ReadConfirm(e) ==
  /\ HasToRead(e, "confirm")
  /\ Message(e).kind = "confirm"
  /\ IF Message(e).body = ExpectedTag(e)
       THEN /\ step' = [step EXCEPT ![e] = "done"]
            /\ wire' = [wire EXCEPT ![PeerOf(e)] = Tail(@)]
            /\ UNCHANGED <<gone, version, heard, Setup>>
       ELSE Fails(e, "KeyMismatch")

\* expect_hello, expect_pake and expect_confirm take only the message whose
\* turn it is; what is no message fails to decode, or is too long a frame.
ReadNoise(e) ==
  /\ HasToRead(e, step[e]) /\ step[e] \in Reading
  /\ Message(e).kind # step[e]
  /\ IF step[e] = "magic" THEN Fails(e, "BadMagic")
     ELSE IF Message(e).kind \in {"hello", "pake", "confirm"} THEN Fails(e, "Unexpected")
     ELSE \E error \in {"Malformed", "FrameTooLarge"} : Fails(e, error)

\* The stream has ended, perhaps within what is no message, or was reset, and
\* with it what was not read.
LosePeer(e) ==
  /\ step[e] \in Reading /\ PeerOf(e) \in gone
  /\ \/ (wire[PeerOf(e)] # <<>> => Message(e).kind = "noise") /\ Fails(e, "UnexpectedEof")
     \/ Fails(e, "Io")

\* HANDSHAKE_TIMEOUT, which a reading end may reach at any time.
TimesOut(e) == step[e] \in Reading /\ Fails(e, "Timeout")

Dies(e) == step[e] \in Reading /\ Fails(e, "Killed")

\* A channel is used and closed in the end.
CloseEnd(e) ==
  /\ step[e] = "done" /\ e \notin gone
  /\ gone' = gone \cup {e}
  /\ UNCHANGED <<step, wire, version, heard, Setup>>

\* A tag under no key that an end derives.
Forgery == [guess |-> 0]

\* What a stranger e may say: bytes that are no message; a Hello of any build
\* and role (its own are any), or of an impossible range; an element of its
\* own, what is none, or the one of its peer; a tag that is made up, or the
\* one of its peer once that has said it.
Sayings(e) ==
  [magic |-> {"RUSP"}, noise |-> {"RUSP"},
   hello |-> {LocalHello(e), [LocalHello(e) EXCEPT !.min = build[e].max + 1]},
   pake |-> {Element(e), Element(PeerOf(e)), [Element(e) EXCEPT !.side = "none"]},
   confirm |-> {Forgery} \cup {ConfirmTag(x) : x \in {y \in Ends : y # e /\ step[y] = "confirm"}}]

\* It says one thing when the last was read, in any order, and leaves when it
\* likes.
Strange(e) ==
  /\ e \in foreign /\ e \notin gone
  /\ \/ /\ wire[e] = <<>>
        /\ \E kind \in DOMAIN Sayings(e) : \E body \in Sayings(e)[kind] :
             wire' = [wire EXCEPT ![e] = Append(@, Said(kind, body))]
        /\ UNCHANGED gone
     \/ gone' = gone \cup {e} /\ UNCHANGED wire
  /\ UNCHANGED <<step, version, heard, Setup>>

HandshakeNext == \E e \in Ends :
  \/ Begin(e) \/ ReadMagic(e) \/ ReadHello(e) \/ RefuseHello(e) \/ ReadPake(e)
  \/ RefusePake(e) \/ ReadConfirm(e) \/ ReadNoise(e) \/ LosePeer(e) \/ TimesOut(e) \/ Dies(e)
  \/ CloseEnd(e) \/ Strange(e)

HandshakeSpec == HandshakeInit /\ [][HandshakeNext]_handshakeVars

-----------------------------------------------------------------------------
Overlap == \E v \in build["a"].min..build["a"].max : v \in build["b"].min..build["b"].max

\* A channel is established only with a peer of the other role that has the
\* same code, and with no stranger, whatever it says or reflects; and the peer
\* is never told anything but success or the loss of the connection. If it
\* succeeds too, each reads with the key the other writes with, and both speak
\* the highest version that both know.
SameSession == \A e \in Ends : step[e] = "done" =>
  /\ PeerOf(e) \notin foreign
  /\ codeOf[e] = codeOf[PeerOf(e)] /\ role[e] = Opposite(role[PeerOf(e)])
  /\ step[PeerOf(e)] \in {"confirm", "done"} \cup Lost
  /\ SealKey(e) = OpenKey(PeerOf(e)) /\ OpenKey(e) = SealKey(PeerOf(e))
  /\ version[e] = version[PeerOf(e)]
  /\ \A x \in Ends : version[e] >= build[x].min /\ version[e] <= build[x].max
  /\ \E x \in Ends : version[e] = build[x].max

\* What establish reports is the true cause. Between two programs that run it
\* a mismatch means that the codes differ, refused versions have nothing in
\* common, only a peer of the same role is called malformed, and nothing is
\* ever out of turn; all else is the doing of a stranger.
ErrorsAreTrue == \A e \in Ends : PeerOf(e) \in foreign \/
  /\ step[e] = "KeyMismatch" => codeOf["a"] # codeOf["b"]
  /\ step[e] = "IncompatibleVersion" => ~Overlap
  /\ step[e] = "Malformed" => role["a"] = role["b"]
  /\ step[e] \notin {"BadMagic", "FrameTooLarge", "Unexpected", "Pake"}

\* Two programs that both run establish never wait for each other: one of
\* them has something to read, or can see that the other has gone.
NobodyWaitsForNobody ==
  ~ \A e \in Ends : /\ step[e] \in Reading
                    /\ wire[e] = <<>> /\ PeerOf(e) \notin foreign
=============================================================================
