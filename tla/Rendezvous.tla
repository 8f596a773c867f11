----------------------------- MODULE Rendezvous -----------------------------
(***************************************************************************)
(* How a sender and a receiver get connected: SenderRendezvous and dial of *)
(* src/net/mod.rs with the clients of src/net/relay.rs and                 *)
(* src/net/discovery.rs, then Channel::establish and the retry loop of     *)
(* app::send.  The relay is RelayServer itself, serving one room: its      *)
(* tasks take the steps of that module, the two programs open, read and    *)
(* close its connections.                                                  *)
(*                                                                         *)
(* A side is shaking while it is in Channel::establish: both write magic,  *)
(* Hello, the SPAKE2 element and the confirmation tag, each after having   *)
(* read the one before.  sent[s] counts what s has written.                *)
(***************************************************************************)
EXTENDS Naturals, Sequences, FiniteSets

CONSTANTS
  SenderConns,   \* the connections the sender can make to the relay
  ReceiverConn,  \* the one the receiver can make
  RoomNames,     \* the room of their code
  MaxRooms, MaxPending, None,   \* as in RelayServer
  Setups,        \* possible options: for each side, which paths it may use
  Codes,         \* "same", "mistyped": what the receiver's user may type
  MaxStrays,     \* strangers that connect to the sender's listener
  StrayKinds,    \* kinds of them, see Strangers
  Troubles       \* sets of what else may go wrong, see AllTroubles

(***************************************************************************)
(* lost: no datagram of a short search arrives.  refused: the sender's     *)
(* port cannot be reached.  ghost: the receiver's connect times out, but   *)
(* the sender's system has completed it.  down: the relay is not reached   *)
(* or does not want this client.  expired: room_timeout passes.            *)
(* impatient: rendezvous_timeout passes.  cancel: Ctrl+C.  reset: the      *)
(* listener cannot accept, or a connection is reset before Connection::new *)
(* asks for the peer's address.                                            *)
(***************************************************************************)
AllTroubles ==
  {"lost", "refused", "ghost", "down", "expired", "impatient", "cancel", "reset"}

Sides == {"sender", "receiver"}
Paths == {"lan", "relay"}

(***************************************************************************)
(* What may be at the sender's listener besides the receiver.  garbage: it *)
(* is not rusp, has other versions, or leaves in the handshake.  unruly:   *)
(* it speaks rusp, but out of turn, in too long a frame, with a bad        *)
(* element or with another code.  silent: it says nothing.  gone: it is    *)
(* reset before it is accepted.  A ghost may be that as well.              *)
(***************************************************************************)
Strangers == {"ghost", "garbage", "unruly", "silent", "gone"}

ASSUME RendezvousAssumption ==
  /\ IsFiniteSet(SenderConns) /\ ReceiverConn \notin SenderConns
  /\ IsFiniteSet(RoomNames) /\ MaxRooms \in Nat \ {0} /\ MaxPending \in Nat \ {0}
  /\ None \notin RoomNames \cup SenderConns \cup {ReceiverConn}
  /\ ({"direct"} \cup Strangers) \cap (SenderConns \cup {ReceiverConn, None}) = {}
  /\ Setups \subseteq [Sides -> SUBSET Paths]
  /\ Codes \subseteq {"same", "mistyped"}
  /\ MaxStrays \in Nat /\ StrayKinds \subseteq Strangers \ {"ghost"}
  /\ Troubles \subseteq SUBSET AllTroubles

VARIABLES
  at,         \* at[s]: where side s is
  paths,      \* NetOptions: paths[s], those side s still uses
  code,       \* is the code of both the same
  troubles,   \* the Troubles this attempt may meet, never changed
  sc,         \* the relay connection of the sender's running accept
  backlog,    \* connections waiting at the sender's listener
  conn,       \* conn[s]: what s shakes hands on, or did last
  sent,       \* sent[s]: handshake messages written on conn[s]
  strays,     \* strangers so far
  pc, room, rooms, holds, chan, stream, reply, hungup, permits, metrics,
  cancelled   \* the relay's, see RelayServer

Conns == SenderConns \cup {ReceiverConn}

R == INSTANCE RelayServer

given == <<code, troubles>>
relay == <<pc, room, rooms, holds, chan, stream, reply, hungup, permits,
           metrics, cancelled>>
vars == <<at, paths, given, sc, backlog, conn, sent, strays, relay>>

Peer(s) == IF s = "sender" THEN "receiver" ELSE "sender"
GoTo(s, place) == at' = [at EXCEPT ![s] = place]

(* A client closes its socket, if the relay has not closed it before. *)
Close(c) ==
  IF c \in Conns \ hungup /\ R!SocketOpen(c) THEN R!HangUp(c) ELSE UNCHANGED relay

Fail(s) == GoTo(s, "failed") /\ UNCHANGED <<paths, given, backlog, conn, sent, strays>>

(* Connected over c: the magic is written at once. *)
Shake(s, c) ==
  /\ GoTo(s, "shaking")
  /\ conn' = [conn EXCEPT ![s] = c]
  /\ sent' = [sent EXCEPT ![s] = 1]

Init ==
  /\ at = [s \in Sides |-> "new"]
  /\ paths \in Setups
  /\ code \in Codes
  /\ troubles \in Troubles
  /\ sc = None
  /\ backlog = <<>>
  /\ conn = [s \in Sides |-> None]
  /\ sent = [s \in Sides |-> 0]
  /\ strays = 0
  /\ R!Init

-----------------------------------------------------------------------------
(* SenderRendezvous. Its listener and responder live as long as app::send. *)
Listening == at["sender"] \in {"accepting", "shaking", "met"} /\ "lan" \in paths["sender"]

Open ==
  /\ at["sender"] = "new"
  /\ GoTo("sender", IF paths["sender"] = {} THEN "failed" ELSE "accepting")
  /\ UNCHANGED <<paths, given, sc, backlog, conn, sent, strays, relay>>

\* Mutant of AcceptLan: the relay registration is left to itself.
AcceptLanOnly ==
  /\ at["sender"] = "accepting"
  /\ backlog # <<>> /\ Head(backlog) # "gone"
  /\ Shake("sender", Head(backlog))
  /\ backlog' = Tail(backlog)
  /\ sc' = None
  /\ UNCHANGED <<paths, given, strays, relay>>

(* accept_inner: the local network wins, and the relay attempt is dropped. *)
AcceptLan ==
  /\ at["sender"] = "accepting"
  /\ backlog # <<>> /\ Head(backlog) # "gone"
  /\ Shake("sender", Head(backlog))
  /\ backlog' = Tail(backlog)
  /\ Close(sc)
  /\ sc' = None
  /\ UNCHANGED <<paths, given, strays>>

(* accept or peer_addr fails: the error leaves accept_inner and app::send. *)
AcceptFails ==
  /\ at["sender"] = "accepting"
  /\ \/ /\ backlog # <<>>
        /\ Head(backlog) \in {"gone", "ghost"} \/ "reset" \in troubles
        /\ conn' = [conn EXCEPT !["sender"] = Head(backlog)]
        /\ backlog' = Tail(backlog)
     \/ /\ backlog = <<>> /\ "reset" \in troubles
        /\ "lan" \in paths["sender"] \/ (sc # None /\ reply[sc] = "paired")
        /\ UNCHANGED <<conn, backlog>>
  /\ GoTo("sender", "failed")
  /\ Close(sc)
  /\ sc' = None
  /\ UNCHANGED <<paths, given, sent, strays>>

JoinRelay(c) ==
  /\ at["sender"] = "accepting"
  /\ "relay" \in paths["sender"]
  /\ sc = None
  /\ R!Accept(c)
  /\ sc' = c
  /\ UNCHANGED <<at, paths, given, backlog, conn, sent, strays>>

(* The relay arm is looked at after the listener. *)
AcceptRelay ==
  /\ at["sender"] = "accepting"
  /\ sc # None /\ reply[sc] = "paired"
  /\ backlog = <<>>
  /\ Shake("sender", sc)
  /\ sc' = None
  /\ UNCHANGED <<paths, given, backlog, strays, relay>>

(* relay::rendezvous gives up on c: refused, or closed without a partner. *)
TurnedAway(c) ==
  /\ c # None
  /\ reply[c] # "paired"
  /\ reply[c] \in R!Refusals \/ ~R!SocketOpen(c)

(* Without a local network that is the end, with one the relay is given up. *)
LoseRelay ==
  /\ at["sender"] = "accepting"
  /\ backlog = <<>>
  /\ \/ TurnedAway(sc)
     \/ "down" \in troubles /\ "relay" \in paths["sender"] /\ sc = None
  /\ Close(sc)
  /\ sc' = None
  /\ IF "lan" \in paths["sender"]
       THEN /\ paths' = [paths EXCEPT !["sender"] = @ \ {"relay"}]
            /\ UNCHANGED <<at, given, backlog, conn, sent, strays>>
       ELSE Fail("sender")

Withdraw ==
  /\ at["sender"] = "accepting"
  /\ Close(sc)
  /\ sc' = None
  /\ Fail("sender")

(* accept: rendezvous_timeout, which starts again with every call. *)
StopAccepting ==
  /\ "impatient" \in troubles
  /\ backlog = <<>> /\ (sc # None => reply[sc] # "paired")
  /\ Withdraw

CancelAccept == "cancel" \in troubles /\ Withdraw

-----------------------------------------------------------------------------
(* dial. *)
Dial ==
  /\ at["receiver"] = "new"
  /\ GoTo("receiver", CASE "lan" \in paths["receiver"] -> "finding"
                        [] paths["receiver"] = {} -> "failed"
                        [] OTHER -> "joining")
  /\ UNCHANGED <<paths, given, sc, backlog, conn, sent, strays, relay>>

(* discovery::find gets an Offer from discovery::serve. *)
FindOffer ==
  /\ at["receiver"] = "finding"
  /\ Listening
  /\ GoTo("receiver", "connecting")
  /\ UNCHANGED <<paths, given, sc, backlog, conn, sent, strays, relay>>

FallBack ==
  GoTo("receiver", IF "relay" \in paths["receiver"] THEN "joining" ELSE "failed")

(* lan_patience: a short search if a relay is waiting, else rendezvous_timeout. *)
FindNothing ==
  /\ at["receiver"] = "finding"
  /\ \/ "relay" \in paths["receiver"] /\ ("lost" \in troubles \/ ~Listening)
     \/ "impatient" \in troubles
  /\ FallBack
  /\ UNCHANGED <<paths, given, sc, backlog, conn, sent, strays, relay>>

\* Mutant of ConnectFails: a connection that fails is the end.
ConnectFailsForGood ==
  /\ at["receiver"] = "connecting"
  /\ "refused" \in troubles \/ ~Listening
  /\ GoTo("receiver", "failed")
  /\ UNCHANGED <<paths, given, sc, backlog, conn, sent, strays, relay>>

ConnectLan ==
  /\ at["receiver"] = "connecting"
  /\ Listening
  /\ Shake("receiver", "direct")
  /\ backlog' = Append(backlog, "direct")
  /\ UNCHANGED <<paths, given, sc, strays, relay>>

ConnectFails ==
  /\ at["receiver"] = "connecting"
  /\ \/ ("refused" \in troubles \/ ~Listening) /\ UNCHANGED backlog
     \/ "ghost" \in troubles /\ Listening /\ backlog' = Append(backlog, "ghost")
  /\ FallBack
  /\ UNCHANGED <<paths, given, sc, conn, sent, strays, relay>>

DialRelay ==
  /\ at["receiver"] = "joining"
  /\ R!Accept(ReceiverConn)
  /\ GoTo("receiver", "joined")
  /\ UNCHANGED <<paths, given, sc, backlog, conn, sent, strays>>

GetPaired ==
  /\ at["receiver"] = "joined"
  /\ reply[ReceiverConn] = "paired"
  /\ Shake("receiver", ReceiverConn)
  /\ UNCHANGED <<paths, given, sc, backlog, strays, relay>>

(* dial returns the error of Connection::new, and does not fall back. *)
DialedInVain ==
  /\ "reset" \in troubles
  /\ \/ at["receiver"] = "connecting" /\ Listening
     \/ at["receiver"] = "joined" /\ reply[ReceiverConn] = "paired"
  /\ Close(ReceiverConn)
  /\ Fail("receiver")
  /\ UNCHANGED sc

(* Refused or unreachable. The receiver itself sets no limit to this wait. *)
StopDialing ==
  /\ \/ at["receiver"] = "joined" /\ TurnedAway(ReceiverConn)
     \/ at["receiver"] = "joining" /\ "down" \in troubles
  /\ Close(ReceiverConn)
  /\ Fail("receiver")
  /\ UNCHANGED sc

(* Both searches look at the token, connecting and shaking hands do not. *)
CancelDial ==
  /\ at["receiver"] \in {"finding", "joining", "joined"}
  /\ "cancel" \in troubles
  /\ Close(ReceiverConn)
  /\ Fail("receiver")
  /\ UNCHANGED sc

-----------------------------------------------------------------------------
(* Channel::establish. A relay link is two connections that were copied. *)
Joined(c, d) ==
  \E w \in Conns : chan[w] = "taken" /\ reply[w] = "paired" /\ {w, stream[w]} = {c, d}

Linked ==
  \/ conn["sender"] = "direct" /\ conn["receiver"] = "direct"
  \/ Joined(conn["sender"], conn["receiver"])

(* How many messages of its peer s can read; they outlive a closed socket. *)
Readable(s) == IF Linked THEN sent[Peer(s)] ELSE 0

\* Mutant of Exchange: the tag of the peer is not waited for.
ExchangeUnconfirmed(s) ==
  /\ at[s] = "shaking"
  /\ Readable(s) >= IF sent[s] = 4 THEN 3 ELSE sent[s]
  /\ IF sent[s] < 4
       THEN /\ sent' = [sent EXCEPT ![s] = @ + 1]
            /\ UNCHANGED <<at, paths, given, backlog, conn, strays, relay>>
       ELSE /\ GoTo(s, "met")
            /\ UNCHANGED <<paths, given, backlog, conn, sent, strays, relay>>
  /\ UNCHANGED sc

(* Read one message and write the next; the fourth is the peer's tag. *)
Exchange(s) ==
  /\ at[s] = "shaking"
  /\ Readable(s) >= sent[s]
  /\ CASE sent[s] < 4 ->
            /\ sent' = [sent EXCEPT ![s] = @ + 1]
            /\ UNCHANGED <<at, paths, given, backlog, conn, strays, relay>>
       [] sent[s] = 4 /\ code = "same" ->
            /\ GoTo(s, "met")
            /\ UNCHANGED <<paths, given, backlog, conn, sent, strays, relay>>
       [] OTHER -> Fail(s) /\ Close(conn[s])
  /\ UNCHANGED sc

(* The stream ended, or what is read from it is not this protocol. *)
Closed(s) ==
  \/ conn[s] \in {"garbage", "ghost"}
  \/ conn[s] = "direct" /\ at[Peer(s)] = "failed"
  \/ conn[s] \in Conns /\ ~R!SocketOpen(conn[s])
  \/ \E c \in hungup : Joined(conn[s], c)

\* Mutant of BrokenOff: the sender does not try again either.
BrokenOffForGood(s) ==
  /\ at[s] = "shaking"
  /\ Readable(s) < sent[s] /\ Closed(s)
  /\ Fail(s)
  /\ Close(conn[s])
  /\ UNCHANGED sc

(* is_retryable: the sender accepts again, the receiver has dialled once. *)
BrokenOff(s) ==
  /\ at[s] = "shaking"
  /\ Readable(s) < sent[s] /\ Closed(s)
  /\ IF s = "sender"
       THEN /\ GoTo(s, "accepting")
            /\ conn' = [conn EXCEPT ![s] = None]
            /\ sent' = [sent EXCEPT ![s] = 0]
            /\ UNCHANGED <<paths, given, backlog, strays>>
       ELSE Fail(s)
  /\ Close(conn[s])
  /\ UNCHANGED sc

\* Mutant of ShakeTimeout: the clock is started again and again.
ShakeTimeoutAgain ==
  /\ at["sender"] = "shaking"
  /\ conn["sender"] = "silent"
  /\ UNCHANGED vars

(* HANDSHAKE_TIMEOUT of app.rs: an error that is not retryable. *)
ShakeTimeout ==
  /\ at["sender"] = "shaking"
  /\ conn["sender"] = "silent"
  /\ Fail("sender")
  /\ UNCHANGED <<sc, relay>>

(* Unexpected, FrameTooLarge, Pake and KeyMismatch are not retryable either. *)
ShakeRefused ==
  /\ at["sender"] = "shaking"
  /\ conn["sender"] = "unruly"
  /\ Fail("sender")
  /\ UNCHANGED <<sc, relay>>

-----------------------------------------------------------------------------
StrayArrives ==
  /\ Listening /\ at["sender"] # "met"
  /\ strays < MaxStrays
  /\ strays' = strays + 1
  /\ \E kind \in StrayKinds : backlog' = Append(backlog, kind)
  /\ UNCHANGED <<at, paths, given, sc, conn, sent, relay>>

(* The relay, whose clients send a good Join at once or not at all. *)
RelayStep(c) ==
  /\ \/ c \in hungup /\ R!HandshakeFails(c)
     \/ "down" \in troubles /\ R!RefuseJoin(c)
     \/ \E r \in RoomNames : R!RefuseBusy(c, r) \/ R!OpenRoom(c, r) \/ R!JoinRoom(c, r)
     \/ R!SendRefusal(c) \/ R!SecondPeer(c)
     \/ R!Welcome(c) \/ R!StopWaiting(c) \/ R!GetPartner(c) \/ R!Announce(c)
     \/ "expired" \in troubles /\ R!RoomTimeout(c)
     \/ R!EndCopy(c) \/ R!Leave(c)
  /\ UNCHANGED <<at, paths, given, sc, backlog, conn, sent, strays>>

SenderStep ==
  \/ AcceptLan \/ AcceptFails \/ AcceptRelay \/ LoseRelay \/ StopAccepting
  \/ \E c \in SenderConns : JoinRelay(c)
  \/ Exchange("sender") \/ BrokenOff("sender") \/ ShakeTimeout \/ ShakeRefused

ReceiverStep ==
  \/ FindOffer \/ FindNothing \/ ConnectLan \/ ConnectFails
  \/ DialRelay \/ GetPaired \/ StopDialing \/ DialedInVain
  \/ Exchange("receiver") \/ BrokenOff("receiver")

Next ==
  \/ Open \/ Dial \/ SenderStep \/ ReceiverStep
  \/ CancelAccept \/ CancelDial \/ StrayArrives
  \/ \E c \in Conns : RelayStep(c)

Spec == Init /\ [][Next]_vars

(* Nobody need start a program, cancel it or send strangers; what runs goes *)
(* on, except that the relay may copy until both clients have gone.         *)
Goes(c) ==
  RelayStep(c) /\ (pc[c] = "copying" => {c, stream[c]} \subseteq hungup)

FairSpec ==
  /\ Spec
  /\ WF_vars(SenderStep) /\ WF_vars(ReceiverStep)
  /\ \A c \in Conns : WF_vars(Goes(c))

-----------------------------------------------------------------------------
Started == at["sender"] # "new" /\ at["receiver"] # "new"

(***************************************************************************)
(* Whichever path wins, the other is withdrawn: of all the sender's        *)
(* registrations at the relay at most the one in use is open, and none     *)
(* once it has failed.  (net/mod.rs 232-275: select! drops the loser.)     *)
(***************************************************************************)
OneRegistration ==
  \A c \in SenderConns :
    pc[c] # "new" /\ c \notin hungup /\ R!SocketOpen(c) =>
      \/ c = sc /\ at["sender"] = "accepting"
      \/ c = conn["sender"] /\ at["sender"] \in {"shaking", "met"}

(***************************************************************************)
(* A meeting is mutual: a side whose handshake succeeded shares the        *)
(* connection and the code with its peer, which has confirmed its keys and *)
(* has not failed.  (protocol/channel.rs 55-125)                           *)
(***************************************************************************)
MeetingIsMutual ==
  \A s \in Sides : at[s] = "met" =>
    /\ code = "same" /\ Linked
    /\ sent[Peer(s)] = 4 /\ at[Peer(s)] \in {"shaking", "met"}

(***************************************************************************)
(* Once the handshake has begun, the only strangers that may end the       *)
(* sender are those whose error is_retryable does not list: what is not    *)
(* rusp, has other versions, or leaves, at whatever point, never does.     *)
(* (Before it has begun, one that was reset does: accept fails.)           *)
(* (net/mod.rs 77-87, 232-275; app.rs 140-153, 430-442)                    *)
(***************************************************************************)
StrangersRetried ==
  at["sender"] = "failed" /\ sent["sender"] > 0 /\ conn["sender"] \in Strangers =>
    conn["sender"] \in {"unruly", "silent"}

(***************************************************************************)
(* "A handshake that fails before the code is used [...] costs nobody a    *)
(* guess, so the sender keeps waiting for the real peer in that case"      *)
(* (README.md 322-324; app.rs 145-151, 424-442): no stranger's connection  *)
(* is the end of the sender.                                               *)
(***************************************************************************)
StrangersAreIgnored == at["sender"] = "failed" => conn["sender"] \notin Strangers

(***************************************************************************)
(* "The sender waits on both at once and takes whichever the receiver      *)
(* actually used" (net/mod.rs 16-18): while the receiver shakes hands      *)
(* through the relay, the sender does not do so on the local network.      *)
(***************************************************************************)
SamePath ==
  conn["receiver"] = ReceiverConn /\ (\A s \in Sides : at[s] = "shaking")
    => conn["sender"] \in Conns

(***************************************************************************)
(* Two peers with a path in common meet, in whatever order they start: both *)
(* may use the relay, or both have only the local network in common and the *)
(* sender can be reached there, when strangers that are retried do not     *)
(* matter.                                                                 *)
(* (net/mod.rs 1-18, 217-320; app.rs 140-153)                              *)
(***************************************************************************)
Compatible ==
  /\ code = "same" /\ troubles \subseteq {"lost", "refused"}
  /\ \/ \A s \in Sides : "relay" \in paths[s]
     \/ /\ "lan" \in paths["sender"] /\ paths["receiver"] = {"lan"}
        /\ "refused" \notin troubles

(* Strangers that may come without keeping the two apart. *)
Bearable ==
  \/ strays = 0
  \/ /\ paths["receiver"] = {"lan"}
     /\ ({conn["sender"]} \cup {backlog[i] : i \in DOMAIN backlog}) \cap Strangers
           \subseteq {"garbage"}

TheyMeet ==
  []Bearable => (Started /\ Compatible ~> \A s \in Sides : at[s] = "met")

(***************************************************************************)
(* Both programs end their search, whatever goes wrong, as long as the     *)
(* clocks of the sender and of the relay run: they meet or fail.           *)
(* (net/mod.rs 221-230, 279-320; app.rs 140-153)                           *)
(***************************************************************************)
BothEnd ==
  {"impatient", "expired"} \subseteq troubles =>
    \A s \in Sides : at[s] # "new" ~> at[s] \in {"met", "failed"}
=============================================================================
