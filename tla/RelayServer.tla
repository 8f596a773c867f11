----------------------------- MODULE RelayServer -----------------------------
(***************************************************************************)
(* The relay server of src/net/server.rs.  One task per accepted           *)
(* connection runs serve_client; tasks share the room map (behind a mutex) *)
(* and the permit semaphore, and hand sockets to each other through a      *)
(* oneshot channel per waiting client.  A step of this module is what one  *)
(* task does between two awaits, so every interleaving of tasks at their   *)
(* await points is a behaviour.                                            *)
(*                                                                         *)
(* `opener` of a paired entry is auxiliary: the code's Room::Paired holds  *)
(* nothing, and no guard reads it.                                         *)
(***************************************************************************)
EXTENDS Integers, FiniteSets

CONSTANTS
  Conns,       \* connections made to the relay, each used once
  RoomNames,   \* room names clients ask for
  MaxRooms,    \* RelaySettings::max_rooms, at least 1 after bind
  MaxPending,  \* MAX_PENDING_HANDSHAKES
  None         \* no room, no connection

ASSUME RelayAssumption ==
  /\ IsFiniteSet(Conns)
  /\ IsFiniteSet(RoomNames)
  /\ MaxRooms \in Nat \ {0}
  /\ MaxPending \in Nat \ {0}
  /\ None \notin Conns
  /\ None \notin RoomNames

VARIABLES
  pc,         \* pc[c]: where c's task is
  room,       \* room[c]: the room c's task claimed or joined
  rooms,      \* Shared::rooms
  holds,      \* holds[c]: the waiter whose oneshot sender c's task took
  chan,       \* chan[c]: the oneshot channel of c's task, ready_tx/ready_rx
  stream,     \* stream[c]: the socket in, or taken out of, that channel
  reply,      \* reply[c]: the last RelayReply written to client c
  hungup,     \* clients that closed their socket, or spoke out of turn
  permits,    \* free permits of the semaphore
  metrics,    \* RelayMetrics
  cancelled   \* the relay's CancellationToken

vars == <<pc, room, rooms, holds, chan, stream, reply, hungup, permits,
          metrics, cancelled>>

-----------------------------------------------------------------------------
Claimants    == {"claimed", "handoff"}           \* a second peer holding a sender
FirstPeers   == {"welcome", "waiting", "announce", "copying", "leaving"}
Refusals     == {"badJoin", "roomBusy", "overloaded"}   \* RefusalReason
Running      == {"handshake", "purging"} \cup Refusals \cup Claimants \cup FirstPeers
Places       == {"new", "done"} \cup Running

Vacant     == [state |-> "vacant", opener |-> None]
Waiting(c) == [state |-> "waiting", opener |-> c]
Paired(c)  == [state |-> "paired", opener |-> c]

Entries == [state : {"vacant", "waiting", "paired"}, opener : Conns \cup {None}]

Active     == {c \in Conns : pc[c] \in Running}
Held       == {r \in RoomNames : rooms[r].state # "vacant"}
AtCapacity == Cardinality(Held) >= MaxRooms

GoTo(c, place) == pc' = [pc EXCEPT ![c] = place]

(* The task of c returns: its permit goes back to the semaphore. *)
Finish(c) == GoTo(c, "done") /\ permits' = permits + 1

\* Mutant of SenderDropped: a clone of the sender survives somewhere.
SenderKept(ch, w) == ch

(* Dropping the sender of w's channel is seen by a receiver still there. *)
SenderDropped(ch, w) ==
  [ch EXCEPT ![w] = IF @ = "open" THEN "dropped" ELSE @]

(* rooms.remove(room): whatever the entry is now, with any sender in it. *)
Remove(r) ==
  /\ rooms' = [rooms EXCEPT ![r] = Vacant]
  /\ chan' = IF rooms[r].state = "waiting"
               THEN SenderDropped(chan, rooms[r].opener)
               ELSE chan

(* A first peer is done with its receiver, and with a socket left in it. *)
CloseReceiver(w) ==
  /\ chan' = [chan EXCEPT ![w] = "closed"]
  /\ stream' = [stream EXCEPT ![w] = None]

Count(field) == metrics' = [metrics EXCEPT ![field] = @ + 1]

-----------------------------------------------------------------------------
Init ==
  /\ pc = [c \in Conns |-> "new"]
  /\ room = [c \in Conns |-> None]
  /\ rooms = [r \in RoomNames |-> Vacant]
  /\ holds = [c \in Conns |-> None]
  /\ chan = [c \in Conns |-> "none"]
  /\ stream = [c \in Conns |-> None]
  /\ reply = [c \in Conns |-> "none"]
  /\ hungup = {}
  /\ permits = MaxPending
  /\ metrics = [accepted |-> 0, refused |-> 0, paired |-> 0]
  /\ cancelled = FALSE

(* Relay::run: a connection is given a permit and a task, or dropped. *)
Accept(c) ==
  /\ ~cancelled
  /\ pc[c] = "new"
  /\ permits > 0
  /\ GoTo(c, "handshake")
  /\ permits' = permits - 1
  /\ Count("accepted")
  /\ UNCHANGED <<room, rooms, holds, chan, stream, reply, hungup, cancelled>>

Drop(c) ==
  /\ ~cancelled
  /\ pc[c] = "new"
  /\ permits = 0
  /\ GoTo(c, "done")
  /\ metrics' = [accepted |-> metrics.accepted + 1, refused |-> metrics.refused + 1,
                 paired |-> metrics.paired]
  /\ UNCHANGED <<room, rooms, holds, chan, stream, reply, hungup, permits,
                 cancelled>>

(* No Join within HANDSHAKE_TIMEOUT, or one that does not decode. *)
HandshakeFails(c) ==
  /\ pc[c] = "handshake"
  /\ Finish(c)
  /\ UNCHANGED <<room, rooms, holds, chan, stream, reply, hungup, metrics,
                 cancelled>>

(* refuse() counts before it writes; the task goes on to write the reason. *)
Refuse(c, reason) ==
  /\ pc[c] = "handshake"
  /\ GoTo(c, reason)
  /\ Count("refused")
  /\ UNCHANGED <<room, rooms, holds, chan, stream, reply, hungup, permits,
                 cancelled>>

(* Wrong token or bad room name, checked before the map is looked at. *)
RefuseJoin(c) == Refuse(c, "badJoin")

RefuseBusy(c, r) == rooms[r].state = "paired" /\ Refuse(c, "roomBusy")

RefuseOverloaded(c, r) ==
  rooms[r].state = "vacant" /\ AtCapacity /\ Refuse(c, "overloaded")

\* Mutant of OpenRoom: a newcomer takes over a room that is paired.
OpenRoomEvicting(c, r) ==
  /\ pc[c] = "handshake"
  /\ rooms[r].state # "waiting"
  /\ rooms[r].state = "vacant" => ~AtCapacity
  /\ rooms' = [rooms EXCEPT ![r] = Waiting(c)]
  /\ chan' = [chan EXCEPT ![c] = "open"]
  /\ room' = [room EXCEPT ![c] = r]
  /\ GoTo(c, "welcome")
  /\ UNCHANGED <<holds, stream, reply, hungup, permits, metrics, cancelled>>

OpenRoom(c, r) ==
  /\ pc[c] = "handshake"
  /\ rooms[r].state = "vacant"
  /\ ~AtCapacity
  /\ rooms' = [rooms EXCEPT ![r] = Waiting(c)]
  /\ chan' = [chan EXCEPT ![c] = "open"]
  /\ room' = [room EXCEPT ![c] = r]
  /\ GoTo(c, "welcome")
  /\ UNCHANGED <<holds, stream, reply, hungup, permits, metrics, cancelled>>

\* Mutant of JoinRoom: the entry is not replaced when its sender is taken.
JoinRoomInPlace(c, r) ==
  /\ pc[c] = "handshake"
  /\ rooms[r].state = "waiting"
  /\ holds' = [holds EXCEPT ![c] = rooms[r].opener]
  /\ room' = [room EXCEPT ![c] = r]
  /\ GoTo(c, "claimed")
  /\ UNCHANGED <<rooms, chan, stream, reply, hungup, permits, metrics, cancelled>>

\* Mutant of JoinRoom: the lookup finds the entry of another room.
JoinRoomElsewhere(c, r) ==
  /\ pc[c] = "handshake"
  /\ \E q \in RoomNames :
       /\ rooms[q].state = "waiting"
       /\ rooms' = [rooms EXCEPT ![q] = Paired(rooms[q].opener)]
       /\ holds' = [holds EXCEPT ![c] = rooms[q].opener]
  /\ room' = [room EXCEPT ![c] = r]
  /\ GoTo(c, "claimed")
  /\ UNCHANGED <<chan, stream, reply, hungup, permits, metrics, cancelled>>

JoinRoom(c, r) ==
  /\ pc[c] = "handshake"
  /\ rooms[r].state = "waiting"
  /\ rooms' = [rooms EXCEPT ![r] = Paired(rooms[r].opener)]
  /\ holds' = [holds EXCEPT ![c] = rooms[r].opener]
  /\ room' = [room EXCEPT ![c] = r]
  /\ GoTo(c, "claimed")
  /\ UNCHANGED <<chan, stream, reply, hungup, permits, metrics, cancelled>>

\* Mutant of SendRefusal: the refusal is counted here as well.
SendRefusalCounts(c) ==
  /\ pc[c] \in Refusals
  /\ reply' = [reply EXCEPT ![c] = pc[c]]
  /\ Count("refused")
  /\ Finish(c)
  /\ UNCHANGED <<room, rooms, holds, chan, stream, hungup, cancelled>>

(* refuse(): the reply is written, or the client is gone already. *)
SendRefusal(c) ==
  /\ pc[c] \in Refusals
  /\ \/ reply' = [reply EXCEPT ![c] = pc[c]]
     \/ c \in hungup /\ UNCHANGED reply
  /\ Finish(c)
  /\ UNCHANGED <<room, rooms, holds, chan, stream, hungup, metrics, cancelled>>

-----------------------------------------------------------------------------
\* Mutant of TellSecond: the socket is handed over before its client is told.
TellSecondLate(c) ==
  /\ pc[c] = "claimed"
  /\ GoTo(c, "handoff")
  /\ UNCHANGED <<room, rooms, holds, chan, stream, reply, hungup, permits,
                 metrics, cancelled>>

(* The second peer: tell its client, then hand the socket to the waiter. *)
TellSecond(c) ==
  /\ pc[c] = "claimed"
  /\ reply' = [reply EXCEPT ![c] = "paired"]
  /\ GoTo(c, "handoff")
  /\ UNCHANGED <<room, rooms, holds, chan, stream, hungup, permits, metrics,
                 cancelled>>

(* The write fails: serve_client returns by `?` and the sender is dropped. *)
TellSecondFails(c) ==
  /\ pc[c] = "claimed"
  /\ c \in hungup
  /\ chan' = SenderDropped(chan, holds[c])
  /\ holds' = [holds EXCEPT ![c] = None]
  /\ Finish(c)
  /\ UNCHANGED <<room, rooms, stream, reply, hungup, metrics, cancelled>>

\* Mutant of HandOff: a failed send is retried for ever.
HandOffRetries(c) ==
  /\ pc[c] = "handoff"
  /\ chan[holds[c]] = "open"
  /\ holds' = [holds EXCEPT ![c] = None]
  /\ chan' = [chan EXCEPT ![holds[c]] = "sent"]
  /\ stream' = [stream EXCEPT ![holds[c]] = c]
  /\ Finish(c)
  /\ UNCHANGED <<room, rooms, reply, hungup, metrics, cancelled>>

(* waiting.send(stream): the receiver may be gone by now. *)
HandOff(c) ==
  /\ pc[c] = "handoff"
  /\ holds' = [holds EXCEPT ![c] = None]
  /\ \/ /\ chan[holds[c]] = "open"
        /\ chan' = [chan EXCEPT ![holds[c]] = "sent"]
        /\ stream' = [stream EXCEPT ![holds[c]] = c]
        /\ Finish(c)
     \/ /\ chan[holds[c]] = "closed"
        /\ GoTo(c, "purging")
        /\ UNCHANGED <<chan, stream, permits>>
  /\ UNCHANGED <<room, rooms, reply, hungup, metrics, cancelled>>

(* The hand-off failed: "leave the room clean for the next pair". *)
Purge(c) ==
  /\ pc[c] = "purging"
  /\ Remove(room[c])
  /\ Finish(c)
  /\ UNCHANGED <<room, holds, stream, reply, hungup, metrics, cancelled>>

-----------------------------------------------------------------------------
(* The first peer: wait_for_partner, then remove the room whatever happened. *)
Welcome(c) ==
  /\ pc[c] = "welcome"
  /\ \/ /\ reply' = [reply EXCEPT ![c] = "welcome"]
        /\ GoTo(c, "waiting")
        /\ UNCHANGED <<chan, stream>>
     \/ /\ c \in hungup
        /\ CloseReceiver(c)
        /\ GoTo(c, "leaving")
        /\ UNCHANGED reply
  /\ UNCHANGED <<room, rooms, holds, hungup, permits, metrics, cancelled>>

\* Mutant of StopWaiting: the early return skips the removal of the room.
StopWaitingReturns(c) ==
  /\ pc[c] = "waiting"
  /\ cancelled \/ c \in hungup \/ chan[c] = "dropped"
  /\ CloseReceiver(c)
  /\ Finish(c)
  /\ UNCHANGED <<room, rooms, holds, reply, hungup, metrics, cancelled>>

(* select!: cancelled, a completed read, or a sender that was dropped. *)
StopWaiting(c) ==
  /\ pc[c] = "waiting"
  /\ cancelled \/ c \in hungup \/ chan[c] = "dropped"
  /\ CloseReceiver(c)
  /\ GoTo(c, "leaving")
  /\ UNCHANGED <<room, rooms, holds, reply, hungup, permits, metrics, cancelled>>

(***************************************************************************)
(* select!: room_timeout.  The receiver is polled before the clock, and is *)
(* dropped only after both: a socket sent in between is in the channel     *)
(* ("sent") when it is dropped.                                            *)
(***************************************************************************)
RoomTimeout(c) ==
  /\ pc[c] = "waiting"
  /\ chan[c] \in {"open", "sent"}
  /\ CloseReceiver(c)
  /\ GoTo(c, "leaving")
  /\ UNCHANGED <<room, rooms, holds, reply, hungup, permits, metrics, cancelled>>

(* select!: the partner's socket arrives. The cancelled branch is polled first. *)
GetPartner(c) ==
  /\ pc[c] = "waiting"
  /\ ~cancelled
  /\ chan[c] = "sent"
  /\ chan' = [chan EXCEPT ![c] = "taken"]
  /\ GoTo(c, "announce")
  /\ UNCHANGED <<room, rooms, holds, stream, reply, hungup, permits, metrics,
                 cancelled>>

Announce(c) ==
  /\ pc[c] = "announce"
  /\ \/ /\ reply' = [reply EXCEPT ![c] = "paired"]
        /\ Count("paired")
        /\ GoTo(c, "copying")
     \/ /\ c \in hungup
        /\ GoTo(c, "leaving")
        /\ UNCHANGED <<reply, metrics>>
  /\ UNCHANGED <<room, rooms, holds, chan, stream, hungup, permits, cancelled>>

\* Mutant of EndCopy: the copy is not raced against cancellation.
EndCopyUncancelled(c) ==
  /\ pc[c] = "copying"
  /\ c \in hungup \/ stream[c] \in hungup
  /\ GoTo(c, "leaving")
  /\ UNCHANGED <<room, rooms, holds, chan, stream, reply, hungup, permits,
                 metrics, cancelled>>

(* copy_bidirectional returns at an error or when both sides are done. *)
EndCopy(c) ==
  /\ pc[c] = "copying"
  /\ cancelled \/ c \in hungup \/ stream[c] \in hungup
  /\ GoTo(c, "leaving")
  /\ UNCHANGED <<room, rooms, holds, chan, stream, reply, hungup, permits,
                 metrics, cancelled>>

Leave(c) ==
  /\ pc[c] = "leaving"
  /\ Remove(room[c])
  /\ Finish(c)
  /\ UNCHANGED <<room, holds, stream, reply, hungup, metrics, cancelled>>

-----------------------------------------------------------------------------
(* Clients and the operator. A socket is open in its own task, or in another's. *)
SocketOpen(c) ==
  \/ pc[c] \in Running \ {"purging", "leaving"}
  \/ \E w \in Conns : stream[w] = c /\ pc[w] \in FirstPeers \ {"leaving"}

HangUp(c) ==
  /\ SocketOpen(c)
  /\ c \notin hungup
  /\ hungup' = hungup \cup {c}
  /\ UNCHANGED <<pc, room, rooms, holds, chan, stream, reply, permits, metrics,
                 cancelled>>

Cancel ==
  /\ ~cancelled
  /\ cancelled' = TRUE
  /\ UNCHANGED <<pc, room, rooms, holds, chan, stream, reply, hungup, permits,
                 metrics>>

Register(c) ==
  \/ HandshakeFails(c) \/ RefuseJoin(c) \/ SendRefusal(c)
  \/ \E r \in RoomNames :
       RefuseBusy(c, r) \/ RefuseOverloaded(c, r) \/ OpenRoom(c, r) \/ JoinRoom(c, r)

SecondPeer(c) ==
  \/ TellSecond(c) \/ TellSecondFails(c) \/ HandOff(c) \/ Purge(c)

FirstPeer(c) ==
  \/ Welcome(c) \/ StopWaiting(c) \/ RoomTimeout(c) \/ GetPartner(c)
  \/ Announce(c) \/ EndCopy(c) \/ Leave(c)

Next ==
  \/ \E c \in Conns :
       Accept(c) \/ Drop(c) \/ Register(c) \/ SecondPeer(c) \/ FirstPeer(c)
       \/ HangUp(c)
  \/ Cancel

Spec == Init /\ [][Next]_vars

(***************************************************************************)
(* Scheduling.  Every await of a task ends: the handshake and the wait for *)
(* a partner are on a clock, the mutex is never held across an await, and  *)
(* the few bytes of a reply fit a socket buffer or fail.  Only a copy may  *)
(* last for ever; it ends once cancelled, or once both clients are gone.   *)
(***************************************************************************)
Progress(c) ==
  /\ Register(c) \/ SecondPeer(c) \/ FirstPeer(c)
  /\ pc[c] = "copying" => cancelled \/ {c, stream[c]} \subseteq hungup

FairSpec == Spec /\ \A c \in Conns : WF_vars(Progress(c))

-----------------------------------------------------------------------------
TypeOK ==
  /\ pc \in [Conns -> Places]
  /\ room \in [Conns -> RoomNames \cup {None}]
  /\ rooms \in [RoomNames -> Entries]
  /\ holds \in [Conns -> Conns \cup {None}]
  /\ chan \in [Conns -> {"none", "open", "sent", "dropped", "closed", "taken"}]
  /\ stream \in [Conns -> Conns \cup {None}]
  /\ reply \in [Conns -> {"none", "welcome", "paired"} \cup Refusals]
  /\ hungup \subseteq Conns
  /\ permits \in 0..MaxPending
  /\ metrics \in [accepted : Nat, refused : Nat, paired : Nat]
  /\ cancelled \in BOOLEAN

(***************************************************************************)
(* A waiting client can be claimed once: a claimant holds the sender of a  *)
(* client of its own room, no other claimant holds it too, and the map     *)
(* offers it to nobody else.  (server.rs 250-287: insert(Paired) takes the *)
(* sender out under the lock.)                                             *)
(***************************************************************************)
ClaimedOnce ==
  \A p \in Conns : pc[p] \in Claimants =>
    /\ holds[p] \in Conns
    /\ room[holds[p]] = room[p]
    /\ \A q \in Conns \ {p} : pc[q] \in Claimants => holds[q] # holds[p]
    /\ \A r \in RoomNames : rooms[r] # Waiting(holds[p])

(***************************************************************************)
(* A waiting client is never forgotten: as long as its receiver is open    *)
(* and nothing came, the map offers it or a claimant is about to answer,   *)
(* so the client cannot sit there with no one able to wake it but the      *)
(* clock.  (server.rs 247-303, the ownership of ready_tx.)                 *)
(***************************************************************************)
NobodyStranded ==
  \A w \in Conns : chan[w] = "open" =>
    \/ rooms[room[w]] = Waiting(w)
    \/ \E p \in Conns : pc[p] \in Claimants /\ holds[p] = w

(***************************************************************************)
(* No room outlives its opener: every entry of the map was opened by a     *)
(* client whose task is still going to remove it, so the map cannot fill   *)
(* up with rooms nobody frees.  (server.rs 305-311: remove on every path.) *)
(***************************************************************************)
NoLeakedRoom ==
  \A r \in Held :
    LET w == rooms[r].opener IN
      /\ w \in Conns
      /\ pc[w] \in FirstPeers
      /\ room[w] = r

(***************************************************************************)
(* The bytes copied are those of two clients of one room: the socket a     *)
(* first peer takes is another client's, was told Paired before, named the *)
(* same room, and no other first peer has it.  (server.rs 292-303, 333-346) *)
(***************************************************************************)
HasPartner(w) == chan[w] \in {"sent", "taken"}

SoundPairs ==
  \A w \in Conns : HasPartner(w) =>
    /\ stream[w] \in Conns \ {w}
    /\ room[stream[w]] = room[w]
    /\ reply[stream[w]] = "paired"
    /\ \A v \in Conns \ {w} : HasPartner(v) => stream[v] # stream[w]
    /\ ~HasPartner(stream[w])

(* The map never holds more rooms than max_rooms.  (server.rs 250, 272) *)
RoomLimit == Cardinality(Held) <= MaxRooms

(***************************************************************************)
(* Every permit is free or held by exactly one running task: none is lost  *)
(* on an error path, none given back twice.  (server.rs 172-185)           *)
(***************************************************************************)
PermitsAccounted ==
  permits + Cardinality(Active) = MaxPending

(***************************************************************************)
(* The counters an operator reads agree: a pair is two accepted clients,   *)
(* and a refused client is in no pair and is counted once.                 *)
(* (server.rs 77-95, 172, 176, 352, 383)                                   *)
(***************************************************************************)
CountersAgree == 2 * metrics.paired + metrics.refused <= metrics.accepted

(***************************************************************************)
(* How the places of the tasks, the channels and the map fit together: the *)
(* facts that make the safety properties inductive.                        *)
(*   Rooms: a task names its room when it registers and never before.      *)
(*   Channels: only first peers have one; its state follows their place.   *)
(*   Claims: a claimant's sender leads to an open or abandoned receiver.   *)
(*   Offers: a waiting entry holds the sender of such a receiver.          *)
(*   Sockets: a handed over socket belongs to a second peer that is done.  *)
(***************************************************************************)
RoomsInv ==
  \A c \in Conns :
    /\ pc[c] \in {"new", "handshake"} \cup Refusals => room[c] = None
    /\ pc[c] \in Claimants \cup FirstPeers \cup {"purging"} => room[c] \in RoomNames
    /\ chan[c] # "none" => room[c] \in RoomNames

ChannelsInv ==
  \A c \in Conns :
    /\ pc[c] \in {"new", "handshake", "purging"} \cup Refusals \cup Claimants =>
         chan[c] = "none"
    /\ pc[c] \in {"welcome", "waiting"} => chan[c] \in {"open", "sent", "dropped"}
    /\ pc[c] \in {"announce", "copying"} => chan[c] = "taken"
    /\ pc[c] = "leaving" => chan[c] \in {"closed", "taken"}
    /\ pc[c] = "done" => chan[c] \in {"none", "closed", "taken"}

ClaimsInv ==
  \A p \in Conns :
    /\ pc[p] \in Claimants =>
         /\ holds[p] \in Conns
         /\ chan[holds[p]] \in {"open", "closed"}
    /\ pc[p] = "handoff" => reply[p] = "paired"

OffersInv ==
  \A r \in RoomNames : rooms[r].state = "waiting" =>
    chan[rooms[r].opener] \in {"open", "closed"}

SocketsInv ==
  \A w \in Conns :
    /\ HasPartner(w) <=> stream[w] # None
    /\ HasPartner(w) => pc[stream[w]] = "done" /\ chan[stream[w]] = "none"

IInv ==
  /\ TypeOK
  /\ RoomsInv /\ ChannelsInv /\ ClaimsInv /\ OffersInv /\ SocketsInv
  /\ ClaimedOnce /\ NobodyStranded /\ NoLeakedRoom /\ SoundPairs
  /\ RoomLimit /\ PermitsAccounted

(***************************************************************************)
(* Refusing rather than evicting: a paired room changes only by becoming   *)
(* vacant, and only in the last step of a task of that room that saw its   *)
(* wait or its hand-off fail or its copy end; a newcomer's registration    *)
(* never changes it.  (server.rs 7-13)                                     *)
(***************************************************************************)
PairedNotDisplaced ==
  [][\A r \in RoomNames :
       rooms[r].state = "paired" /\ rooms'[r] # rooms[r] =>
         /\ rooms'[r] = Vacant
         /\ \E c \in Conns : /\ pc[c] \in {"leaving", "purging"}
                              /\ pc'[c] = "done"
                              /\ room[c] = r]_vars

(***************************************************************************)
(* Liveness.  A cancelled relay comes to rest with no room and no permit   *)
(* in use, although tasks in their handshake still register afterwards.    *)
(* (server.rs 160-161, 336, 361)                                           *)
(***************************************************************************)
AtRest == Held = {} /\ permits = MaxPending

CancelComesToRest == cancelled ~> []AtRest

(***************************************************************************)
(* A client that was told Paired is connected to its partner, or its       *)
(* socket is closed so that it finds out: it never waits on a socket that  *)
(* nobody owns.  And every client that opened a room is paired or let go.  *)
(* (server.rs 292-346)                                                     *)
(***************************************************************************)
ClientsSettle ==
  \A c \in Conns :
    /\ reply[c] = "paired" ~>
         \/ \E w \in Conns : pc[w] = "copying" /\ c \in {w, stream[w]}
         \/ ~SocketOpen(c)
    /\ pc[c] = "welcome" ~> pc[c] \in {"copying", "done"}

(***************************************************************************)
(* The relay implements the matchmaker: a connection names its room when   *)
(* it opens or joins one and is married when its socket is taken.          *)
(***************************************************************************)
Mate(c) ==
  IF chan[c] = "taken" THEN stream[c]
  ELSE IF \E w \in Conns : chan[w] = "taken" /\ stream[w] = c
         THEN CHOOSE w \in Conns : chan[w] = "taken" /\ stream[w] = c
         ELSE None

M == INSTANCE Matchmaker WITH topic <- room, mate <- [c \in Conns |-> Mate(c)]

ImplementsMatchmaker == M!Spec

(***************************************************************************)
(* "When a room already has two occupants [...] a new client is refused"   *)
(* (server.rs 9-10): the room of a live pair stays taken, so that no       *)
(* newcomer can open it again.                                             *)
(***************************************************************************)
LivePairKeepsRoom ==
  \A w \in Conns : pc[w] = "copying" => rooms[room[w]] = Paired(w)
=============================================================================
