-------------------------- MODULE RelayServerProofs --------------------------
(***************************************************************************)
(* Proofs about RelayServer for any number of connections, rooms, permits  *)
(* and any room limit.  The argument: IInv is inductive.  Its part about   *)
(* tasks, channels, sockets and the map (Core) is kept by every action on  *)
(* its own; the two counting facts (RoomLimit, PermitsAccounted) follow    *)
(* from how an action changes Held and Active.                             *)
(***************************************************************************)
EXTENDS RelayServer, TLAPS, FiniteSetTheorems

(* TypeOK without the upper bound of permits, which needs counting. *)
TypeCore ==
  /\ pc \in [Conns -> Places]
  /\ room \in [Conns -> RoomNames \cup {None}]
  /\ rooms \in [RoomNames -> Entries]
  /\ holds \in [Conns -> Conns \cup {None}]
  /\ chan \in [Conns -> {"none", "open", "sent", "dropped", "closed", "taken"}]
  /\ stream \in [Conns -> Conns \cup {None}]
  /\ reply \in [Conns -> {"none", "welcome", "paired"} \cup Refusals]
  /\ hungup \subseteq Conns
  /\ permits \in Nat
  /\ metrics \in [accepted : Nat, refused : Nat, paired : Nat]
  /\ cancelled \in BOOLEAN

Core ==
  /\ TypeCore
  /\ RoomsInv /\ ChannelsInv /\ ClaimsInv /\ OffersInv /\ SocketsInv
  /\ ClaimedOnce /\ NobodyStranded /\ NoLeakedRoom /\ SoundPairs

USE RelayAssumption
USE DEF Places, Running, Refusals, Claimants, FirstPeers, Entries, Vacant

-----------------------------------------------------------------------------
(* Core is kept by every step, one lemma per kind of step. *)

(* Before a task touches the map: nothing of a room changes. *)
LEMMA RegistrationKeepsCore ==
  ASSUME Core, NEW c \in Conns,
         \/ Accept(c) \/ Drop(c) \/ HandshakeFails(c) \/ RefuseJoin(c)
         \/ \E r \in RoomNames : RefuseBusy(c, r) \/ RefuseOverloaded(c, r)
         \/ SendRefusal(c)
  PROVE  Core'
<1> USE DEF GoTo, Finish, Count, Refuse, Held, Core, TypeCore, RoomsInv,
            ChannelsInv, ClaimsInv, OffersInv, SocketsInv, ClaimedOnce,
            NobodyStranded, NoLeakedRoom, SoundPairs, HasPartner
<1>1. CASE Accept(c)  BY <1>1 DEF Accept
<1>2. CASE Drop(c)  BY <1>2 DEF Drop
<1>3. CASE HandshakeFails(c)  BY <1>3 DEF HandshakeFails
<1>4. CASE Refuse(c, "badJoin") \/ Refuse(c, "roomBusy") \/ Refuse(c, "overloaded")
  BY <1>4
<1>5. CASE SendRefusal(c)  BY <1>5 DEF SendRefusal
<1>6. QED
  BY <1>1, <1>2, <1>3, <1>4, <1>5 DEF RefuseJoin, RefuseBusy, RefuseOverloaded

(* A room is opened: its opener had no channel, so nobody holds its sender. *)
LEMMA OpenRoomKeepsCore ==
  ASSUME Core, NEW c \in Conns, NEW r \in RoomNames, OpenRoom(c, r)
  PROVE  Core'
<1> USE DEF OpenRoom, GoTo, Held, Waiting, Core
<1>1. (TypeCore /\ RoomsInv /\ ChannelsInv)'
  BY DEF TypeCore, RoomsInv, ChannelsInv
<1>2. chan[c] = "none" /\ pc[c] = "handshake"
  BY DEF ChannelsInv
<1>3. (ClaimsInv /\ ClaimedOnce)'
  BY <1>2 DEF TypeCore, ClaimsInv, ClaimedOnce
<1>4. (OffersInv /\ NoLeakedRoom)'
  BY <1>2 DEF TypeCore, OffersInv, NoLeakedRoom
<1>5. (SocketsInv /\ SoundPairs)'
  BY <1>2 DEF TypeCore, SocketsInv, SoundPairs, HasPartner, RoomsInv
<1>6. NobodyStranded'
  BY <1>2 DEF TypeCore, NobodyStranded, RoomsInv
<1>7. QED  BY <1>1, <1>3, <1>4, <1>5, <1>6

(* A room is joined: its sender moves from the map to the new claimant. *)
LEMMA JoinRoomKeepsCore ==
  ASSUME Core, NEW c \in Conns, NEW r \in RoomNames, JoinRoom(c, r)
  PROVE  Core'
<1> DEFINE w == rooms[r].opener
<1> USE DEF JoinRoom, GoTo, Held, Paired, Core
<1>1. /\ w \in Conns \ {c}
      /\ rooms[r] = Waiting(w)
      /\ room[w] = r
      /\ chan[w] \in {"open", "closed"}
      /\ chan[c] = "none"
      /\ \A q \in RoomNames \ {r} : rooms[q] # Waiting(w)
  BY DEF TypeCore, NoLeakedRoom, OffersInv, ChannelsInv, Waiting
<1>2. (TypeCore /\ RoomsInv /\ ChannelsInv)'
  BY <1>1 DEF TypeCore, RoomsInv, ChannelsInv
<1>3. \A q \in Conns : pc[q] \in Claimants => holds[q] # w
  BY <1>1 DEF ClaimedOnce, Waiting
<1>4. (ClaimsInv /\ ClaimedOnce)'
  BY <1>1, <1>3 DEF TypeCore, ClaimsInv, ClaimedOnce, Waiting
<1>5. (OffersInv /\ NoLeakedRoom)'
  BY <1>1 DEF TypeCore, OffersInv, NoLeakedRoom
<1>6. (SocketsInv /\ SoundPairs)'
  BY <1>1 DEF TypeCore, SocketsInv, SoundPairs, HasPartner, RoomsInv
<1>7. NobodyStranded'
  BY <1>1 DEF TypeCore, NobodyStranded, RoomsInv, ChannelsInv, Waiting
<1>8. QED  BY <1>2, <1>4, <1>5, <1>6, <1>7

(* The second peer tells its client; on failure the sender is dropped. *)
LEMMA TellSecondKeepsCore ==
  ASSUME Core, NEW c \in Conns, TellSecond(c) \/ TellSecondFails(c)
  PROVE  Core'
<1> USE DEF GoTo, Finish, SenderDropped, Held, Core, TypeCore, RoomsInv,
            ChannelsInv, ClaimsInv, OffersInv, SocketsInv, ClaimedOnce,
            NobodyStranded, NoLeakedRoom, SoundPairs, HasPartner, Waiting
<1>1. CASE TellSecond(c)  BY <1>1 DEF TellSecond
<1>2. CASE TellSecondFails(c)  BY <1>2 DEF TellSecondFails
<1>3. QED  BY <1>1, <1>2

(* The hand-off: the channel of w was open, so c is w's only partner. *)
LEMMA HandOffKeepsCore ==
  ASSUME Core, NEW c \in Conns, HandOff(c)
  PROVE  Core'
<1> DEFINE w == holds[c]
<1> USE DEF HandOff, GoTo, Held, Core
<1>1. /\ w \in Conns \ {c}
      /\ room[w] = room[c]
      /\ reply[c] = "paired"
      /\ chan[c] = "none"
      /\ pc[c] = "handoff"
  BY DEF ClaimsInv, ClaimedOnce, ChannelsInv
<1>2. \A v \in Conns : HasPartner(v) => stream[v] # c
  BY <1>1 DEF SocketsInv
<1>3. CASE chan[w] = "open"
  <2>1. /\ holds' = [holds EXCEPT ![c] = None]
        /\ chan' = [chan EXCEPT ![w] = "sent"]
        /\ stream' = [stream EXCEPT ![w] = c]
        /\ pc' = [pc EXCEPT ![c] = "done"]
        /\ permits' = permits + 1
        /\ UNCHANGED <<room, rooms, reply, hungup, metrics, cancelled>>
    BY <1>3 DEF Finish
  <2> HIDE DEF HandOff
  <2>2. TypeCore'
    BY <1>1, <2>1 DEF TypeCore
  <2>3. (RoomsInv /\ ChannelsInv)'
    BY <1>1, <1>3, <2>1 DEF TypeCore, RoomsInv, ChannelsInv
  <2>4. (ClaimsInv /\ ClaimedOnce)'
    BY <1>1, <2>1 DEF TypeCore, ClaimsInv, ClaimedOnce, Waiting
  <2>5. (OffersInv /\ NoLeakedRoom)'
    BY <1>1, <2>1 DEF TypeCore, OffersInv, NoLeakedRoom, ClaimedOnce, Waiting
  <2>6. (SocketsInv /\ SoundPairs)'
    BY <1>1, <1>2, <1>3, <2>1 DEF TypeCore, SocketsInv, SoundPairs, HasPartner
  <2>7. NobodyStranded'
    BY <1>1, <2>1 DEF TypeCore, NobodyStranded
  <2>8. QED  BY <2>2, <2>3, <2>4, <2>5, <2>6, <2>7
<1>4. CASE chan[w] = "closed"
  <2>1. /\ holds' = [holds EXCEPT ![c] = None]
        /\ pc' = [pc EXCEPT ![c] = "purging"]
        /\ UNCHANGED <<chan, stream, permits, room, rooms, reply, hungup, metrics,
                       cancelled>>
    BY <1>4
  <2> HIDE DEF HandOff
  <2>2. (TypeCore /\ RoomsInv /\ ChannelsInv)'
    BY <1>1, <2>1 DEF TypeCore, RoomsInv, ChannelsInv
  <2>3. (ClaimsInv /\ ClaimedOnce)'
    BY <1>1, <2>1 DEF TypeCore, ClaimsInv, ClaimedOnce, Waiting
  <2>4. (OffersInv /\ NoLeakedRoom)'
    BY <1>1, <2>1 DEF TypeCore, OffersInv, NoLeakedRoom
  <2>5. (SocketsInv /\ SoundPairs)'
    BY <1>1, <2>1 DEF TypeCore, SocketsInv, SoundPairs, HasPartner
  <2>6. NobodyStranded'
    BY <1>1, <1>4, <2>1 DEF TypeCore, NobodyStranded
  <2>7. QED  BY <2>2, <2>3, <2>4, <2>5, <2>6
<1>5. QED  BY <1>1, <1>3, <1>4 DEF ClaimsInv

(* Removing a room, whoever's it is: a sender in it is dropped with it. *)
LEMMA RemovalKeepsCore ==
  ASSUME Core, NEW c \in Conns, Purge(c) \/ Leave(c)
  PROVE  Core'
<1> DEFINE r == room[c]
           w == rooms[r].opener
<1>1. /\ pc[c] \in {"purging", "leaving"}
      /\ r \in RoomNames
      /\ Remove(r)
      /\ pc' = [pc EXCEPT ![c] = "done"]
      /\ permits' = permits + 1
      /\ UNCHANGED <<room, holds, stream, reply, hungup, metrics, cancelled>>
  BY DEF Core, RoomsInv, TypeCore, Purge, Leave, Finish, GoTo
<1> USE DEF Core, Remove, SenderDropped
<1>2. TypeCore'
  <2>1. chan' \in [Conns -> {"none", "open", "sent", "dropped", "closed", "taken"}]
    BY <1>1 DEF TypeCore
  <2>2. rooms' \in [RoomNames -> Entries]
    BY <1>1 DEF TypeCore
  <2>3. QED  BY <1>1, <2>1, <2>2 DEF TypeCore
<1>3. (RoomsInv /\ ChannelsInv)'
  BY <1>1 DEF TypeCore, RoomsInv, ChannelsInv, NoLeakedRoom, Held
<1>4. (ClaimsInv /\ ClaimedOnce)'
  BY <1>1 DEF TypeCore, ClaimsInv, ClaimedOnce, Waiting
<1>5. (OffersInv /\ NoLeakedRoom)'
  BY <1>1 DEF TypeCore, OffersInv, NoLeakedRoom, Held, ChannelsInv
<1>6. (SocketsInv /\ SoundPairs)'
  BY <1>1 DEF TypeCore, SocketsInv, SoundPairs, HasPartner, ChannelsInv
<1>7. NobodyStranded'
  BY <1>1 DEF TypeCore, NobodyStranded, Waiting, NoLeakedRoom, Held, RoomsInv, ChannelsInv
<1>8. QED  BY <1>2, <1>3, <1>4, <1>5, <1>6, <1>7

(* The first peer moves along, until it leaves with its receiver closed. *)
LEMMA FirstPeerKeepsCore ==
  ASSUME Core, NEW c \in Conns,
         \/ Welcome(c) \/ StopWaiting(c) \/ RoomTimeout(c) \/ GetPartner(c)
         \/ Announce(c) \/ EndCopy(c)
  PROVE  Core'
<1> USE DEF GoTo, CloseReceiver, Count, Held, Core, TypeCore, RoomsInv,
            ChannelsInv, ClaimsInv, OffersInv, SocketsInv, ClaimedOnce,
            NobodyStranded, NoLeakedRoom, SoundPairs, HasPartner, Waiting
<1>1. CASE Welcome(c)
  <2>1. CASE pc' = [pc EXCEPT ![c] = "waiting"]
    BY <1>1, <2>1, SMTT(30) DEF Welcome
  <2>2. CASE pc' = [pc EXCEPT ![c] = "leaving"]
    <3>1. /\ pc[c] = "welcome"
          /\ chan' = [chan EXCEPT ![c] = "closed"]
          /\ stream' = [stream EXCEPT ![c] = None]
          /\ UNCHANGED <<room, rooms, holds, reply, hungup, permits, metrics,
                         cancelled>>
      BY <1>1, <2>2 DEF Welcome
    <3>2. QED  BY <2>2, <3>1, SMTT(30)
  <2>3. QED  BY <1>1, <2>1, <2>2 DEF Welcome
<1>2. CASE StopWaiting(c)  BY <1>2 DEF StopWaiting
<1>3. CASE RoomTimeout(c)  BY <1>3 DEF RoomTimeout
<1>4. CASE GetPartner(c)  BY <1>4 DEF GetPartner
<1>5. CASE Announce(c)  BY <1>5, SMTT(30) DEF Announce
<1>6. CASE EndCopy(c)  BY <1>6 DEF EndCopy
<1>7. QED  BY <1>1, <1>2, <1>3, <1>4, <1>5, <1>6

(* Clients, the operator, and steps that change nothing. *)
LEMMA EnvironmentKeepsCore ==
  ASSUME Core, (\E c \in Conns : HangUp(c)) \/ Cancel \/ UNCHANGED vars
  PROVE  Core'
<1> USE DEF vars, Held, Core, TypeCore, RoomsInv, ChannelsInv, ClaimsInv,
            OffersInv, SocketsInv, ClaimedOnce, NobodyStranded, NoLeakedRoom,
            SoundPairs, HasPartner
<1>1. ASSUME NEW c \in Conns, HangUp(c)  PROVE Core'
  BY <1>1, SMTT(30) DEF HangUp
<1>2. CASE Cancel  BY <1>2, SMTT(30) DEF Cancel
<1>3. CASE UNCHANGED vars  BY <1>3, SMTT(30)
<1>4. QED  BY <1>1, <1>2, <1>3

LEMMA StepKeepsCore ==
  ASSUME Core, [Next]_vars
  PROVE  Core'
<1>1. ASSUME NEW c \in Conns, Accept(c) \/ Drop(c) \/ Register(c)
      PROVE  Core'
  BY <1>1, RegistrationKeepsCore, OpenRoomKeepsCore, JoinRoomKeepsCore
     DEF Register
<1>2. ASSUME NEW c \in Conns, SecondPeer(c) \/ FirstPeer(c)
      PROVE  Core'
  BY <1>2, TellSecondKeepsCore, HandOffKeepsCore, RemovalKeepsCore,
     FirstPeerKeepsCore DEF SecondPeer, FirstPeer
<1>3. CASE (\E c \in Conns : HangUp(c)) \/ Cancel \/ UNCHANGED vars
  BY <1>3, EnvironmentKeepsCore
<1>4. QED  BY <1>1, <1>2, <1>3 DEF Next

-----------------------------------------------------------------------------
(* Counting.  RoomLimit: the map grows only below the limit. *)

LEMMA HeldFinite == IsFiniteSet(Held) /\ Cardinality(Held) \in Nat
  BY FS_Subset, FS_CardinalityType DEF Held

LEMMA StepKeepsRoomLimit ==
  ASSUME Core, RoomLimit, [Next]_vars
  PROVE  RoomLimit'
<1>1. CASE Held' \subseteq Held
  BY <1>1, HeldFinite, FS_Subset, FS_CardinalityType DEF RoomLimit
<1>2. ASSUME NEW c \in Conns, NEW r \in RoomNames, OpenRoom(c, r)
      PROVE  RoomLimit'
  <2>1. /\ Held' = Held \cup {r}
        /\ r \notin Held
        /\ ~AtCapacity
    BY <1>2 DEF OpenRoom, Held, Waiting, Core, TypeCore
  <2>2. Cardinality(Held') = Cardinality(Held) + 1
    BY <2>1, HeldFinite, FS_AddElement
  <2>3. QED  BY <2>1, <2>2, HeldFinite DEF AtCapacity, RoomLimit
<1>3. ASSUME NEW c \in Conns, NEW r \in RoomNames, JoinRoom(c, r)
      PROVE  Held' = Held
  BY <1>3 DEF JoinRoom, Held, Paired, Core, TypeCore
<1>4. ASSUME NEW c \in Conns, Purge(c) \/ Leave(c)
      PROVE  Held' \subseteq Held
  BY <1>4 DEF Purge, Leave, Remove, Held, Core, TypeCore
<1>5. CASE UNCHANGED rooms
  BY <1>5 DEF RoomLimit, Held
<1>6. QED
  BY <1>1, <1>2, <1>3, <1>4, <1>5 DEF Next, Accept, Drop, Register, SecondPeer,
     FirstPeer, HandshakeFails, RefuseJoin, RefuseBusy, RefuseOverloaded, Refuse,
     SendRefusal, TellSecond, TellSecondFails, HandOff, Welcome, StopWaiting,
     RoomTimeout, GetPartner, Announce, EndCopy, HangUp, Cancel, vars

(* Permits: a task takes one when it starts and returns it when it ends. *)
LEMMA ActiveFinite == IsFiniteSet(Active) /\ Cardinality(Active) \in Nat
  BY FS_Subset, FS_CardinalityType DEF Active

LEMMA TaskStarts ==
  ASSUME Core, PermitsAccounted, NEW c \in Conns, pc[c] = "new", permits > 0,
         pc' = [pc EXCEPT ![c] = "handshake"], permits' = permits - 1
  PROVE  PermitsAccounted'
<1>1. Active' = Active \cup {c} /\ c \notin Active
  BY DEF Active, Core, TypeCore
<1>2. Cardinality(Active') = Cardinality(Active) + 1
  BY <1>1, ActiveFinite, FS_AddElement
<1>3. QED  BY <1>2, ActiveFinite DEF PermitsAccounted, Core, TypeCore

LEMMA TaskEnds ==
  ASSUME Core, PermitsAccounted, NEW c \in Conns, pc[c] \in Running, Finish(c)
  PROVE  PermitsAccounted'
<1>1. Active' = Active \ {c} /\ c \in Active
  BY DEF Active, Finish, GoTo, Core, TypeCore
<1>2. Cardinality(Active') = Cardinality(Active) - 1
  BY <1>1, ActiveFinite, FS_RemoveElement
<1>3. QED  BY <1>2, ActiveFinite DEF PermitsAccounted, Finish, Core, TypeCore

LEMMA TaskGoesOn ==
  ASSUME Core, PermitsAccounted, NEW c \in Conns, NEW place \in Running,
         pc[c] \in Running, GoTo(c, place), UNCHANGED permits
  PROVE  PermitsAccounted'
<1>1. Active' = Active
  BY DEF Active, GoTo, Core, TypeCore
<1>2. QED  BY <1>1 DEF PermitsAccounted

LEMMA StepKeepsPermits ==
  ASSUME Core, PermitsAccounted, [Next]_vars
  PROVE  PermitsAccounted'
<1>1. ASSUME NEW c \in Conns, Accept(c)  PROVE PermitsAccounted'
  BY <1>1, TaskStarts DEF Accept, GoTo
<1>2. ASSUME NEW c \in Conns, Drop(c)  PROVE PermitsAccounted'
  <2>1. Active' = Active
    BY <1>2 DEF Drop, GoTo, Active, Core, TypeCore
  <2>2. QED  BY <1>2, <2>1 DEF Drop, PermitsAccounted
<1>3. ASSUME NEW c \in Conns,
             \/ HandshakeFails(c) \/ SendRefusal(c) \/ TellSecondFails(c)
             \/ Purge(c) \/ Leave(c)
      PROVE  PermitsAccounted'
  BY <1>3, TaskEnds
     DEF HandshakeFails, SendRefusal, TellSecondFails, Purge, Leave
<1>4. ASSUME NEW c \in Conns, HandOff(c)  PROVE PermitsAccounted'
  BY <1>4, TaskEnds, TaskGoesOn DEF HandOff
<1>5. ASSUME NEW c \in Conns, Register(c)  PROVE PermitsAccounted'
  BY <1>3, <1>5, TaskGoesOn DEF Register, RefuseJoin, RefuseBusy,
     RefuseOverloaded, Refuse, OpenRoom, JoinRoom
<1>6. ASSUME NEW c \in Conns, FirstPeer(c)  PROVE PermitsAccounted'
  BY <1>3, <1>6, TaskGoesOn DEF FirstPeer, Welcome, StopWaiting, RoomTimeout,
     GetPartner, Announce, EndCopy
<1>7. ASSUME NEW c \in Conns, TellSecond(c)  PROVE PermitsAccounted'
  BY <1>7, TaskGoesOn DEF TellSecond
<1>8. CASE UNCHANGED <<pc, permits>>
  BY <1>8 DEF PermitsAccounted, Active
<1>9. QED
  BY <1>1, <1>2, <1>3, <1>4, <1>5, <1>6, <1>7, <1>8
     DEF Next, SecondPeer, HangUp, Cancel, vars

-----------------------------------------------------------------------------
(* The inductive invariant. *)

LEMMA CoreMakesType ==
  ASSUME Core, PermitsAccounted
  PROVE  TypeOK
<1>1. permits \in 0..MaxPending
  BY ActiveFinite DEF PermitsAccounted, Core, TypeCore
<1>2. QED  BY <1>1 DEF TypeOK, Core, TypeCore

LEMMA InitIInv == Init => IInv
<1> SUFFICES ASSUME Init  PROVE IInv
  OBVIOUS
<1>1. Core
  BY DEF Init, Core, TypeCore, RoomsInv, ChannelsInv, ClaimsInv, OffersInv,
     SocketsInv, ClaimedOnce, NobodyStranded, NoLeakedRoom, SoundPairs,
     HasPartner, Held
<1>2. Held = {} /\ Active = {}
  BY DEF Init, Held, Active
<1>3. RoomLimit /\ PermitsAccounted
  BY <1>2, FS_EmptySet DEF RoomLimit, PermitsAccounted, Init
<1>4. QED  BY <1>1, <1>3, CoreMakesType DEF IInv, Core

LEMMA StepIInv == IInv /\ [Next]_vars => IInv'
<1> SUFFICES ASSUME IInv, [Next]_vars  PROVE IInv'
  OBVIOUS
<1>1. Core
  BY DEF IInv, TypeOK, Core, TypeCore
<1>2. Core'
  BY <1>1, StepKeepsCore
<1>3. RoomLimit'
  BY <1>1, StepKeepsRoomLimit DEF IInv
<1>4. PermitsAccounted'
  BY <1>1, StepKeepsPermits DEF IInv
<1>5. (permits \in 0..MaxPending)'
  <2>1. (permits + Cardinality(Active) = MaxPending)' /\ permits' \in Nat
    BY <1>2, <1>4 DEF PermitsAccounted, Core, TypeCore
  <2>2. IsFiniteSet(Active')
    BY FS_Subset DEF Active
  <2>3. Cardinality(Active') \in Nat
    BY <2>2, FS_CardinalityType
  <2>4. QED  BY <2>1, <2>3
<1>6. QED  BY <1>2, <1>3, <1>4, <1>5 DEF IInv, TypeOK, Core, TypeCore

(* Every reachable state of the relay satisfies the inductive invariant. *)
THEOREM Inductive == Spec => []IInv
  BY InitIInv, StepIInv, PTL DEF Spec

-----------------------------------------------------------------------------
(* What follows from it. *)

(* Tasks, channels, the map and the counters keep their types. *)
THEOREM TypeCorrect == Spec => []TypeOK
<1>1. IInv => TypeOK  BY DEF IInv
<1>2. QED  BY <1>1, Inductive, PTL

(* A waiting client is claimed by at most one second peer at a time. *)
THEOREM ClaimedOnceHolds == Spec => []ClaimedOnce
<1>1. IInv => ClaimedOnce  BY DEF IInv
<1>2. QED  BY <1>1, Inductive, PTL

(* A waiting client always has somebody who can wake it. *)
THEOREM NobodyStrandedHolds == Spec => []NobodyStranded
<1>1. IInv => NobodyStranded  BY DEF IInv
<1>2. QED  BY <1>1, Inductive, PTL

(* Every room of the map has a task that will remove it. *)
THEOREM NoLeakedRoomHolds == Spec => []NoLeakedRoom
<1>1. IInv => NoLeakedRoom  BY DEF IInv
<1>2. QED  BY <1>1, Inductive, PTL

(* Bytes are copied between two clients of one room, each in one pair. *)
THEOREM SoundPairsHold == Spec => []SoundPairs
<1>1. IInv => SoundPairs  BY DEF IInv
<1>2. QED  BY <1>1, Inductive, PTL

(* The map never holds more than max_rooms rooms. *)
THEOREM RoomLimitHolds == Spec => []RoomLimit
<1>1. IInv => RoomLimit  BY DEF IInv
<1>2. QED  BY <1>1, Inductive, PTL

(* No permit is lost and none is given back twice. *)
THEOREM PermitsAccountedHolds == Spec => []PermitsAccounted
<1>1. IInv => PermitsAccounted  BY DEF IInv
<1>2. QED  BY <1>1, Inductive, PTL

(* A paired room only ever becomes vacant, by a task of that room ending. *)
THEOREM NoDisplacement == Spec => PairedNotDisplaced
<1> DEFINE Kept ==
      \A r \in RoomNames :
        rooms[r].state = "paired" /\ rooms'[r] # rooms[r] =>
          /\ rooms'[r] = Vacant
          /\ \E c \in Conns : /\ pc[c] \in {"leaving", "purging"}
                               /\ pc'[c] = "done"
                               /\ room[c] = r
<1>1. ASSUME IInv, [Next]_vars  PROVE [Kept]_vars
  <2>1. CASE UNCHANGED rooms
    BY <2>1
  <2>2. ASSUME NEW c \in Conns, Purge(c) \/ Leave(c)
        PROVE  Kept
    BY <1>1, <2>2
       DEF IInv, TypeOK, RoomsInv, Purge, Leave, Remove, Finish, GoTo
  <2>3. ASSUME NEW c \in Conns, NEW r \in RoomNames,
               OpenRoom(c, r) \/ JoinRoom(c, r)
        PROVE  Kept
    BY <1>1, <2>3 DEF IInv, TypeOK, OpenRoom, JoinRoom
  <2>4. QED
    BY <1>1, <2>1, <2>2, <2>3 DEF Next, Accept, Drop, Register, SecondPeer,
       FirstPeer, HandshakeFails, RefuseJoin, RefuseBusy, RefuseOverloaded,
       Refuse, SendRefusal, TellSecond, TellSecondFails, HandOff, Welcome,
       StopWaiting, RoomTimeout, GetPartner, Announce, EndCopy, HangUp, Cancel,
       vars
<1>2. QED  BY <1>1, Inductive, PTL DEF Spec, PairedNotDisplaced

-----------------------------------------------------------------------------
(* The counters.  Each is bounded by the connections it counted: all that  *)
(* began, those done with registering that have no room, and the openers   *)
(* that announced a partner.  The partners are as many again.              *)

Began     == {c \in Conns : pc[c] # "new"}
Roomless  == {c \in Conns : pc[c] \notin {"new", "handshake"} /\ room[c] = None}
Announced == {w \in Conns : chan[w] = "taken" /\ pc[w] # "announce"}
Partners  == {stream[w] : w \in Announced}

Ledger ==
  /\ metrics.accepted = Cardinality(Began)
  /\ metrics.refused <= Cardinality(Roomless)
  /\ metrics.paired <= Cardinality(Announced)

LEMMA ConnsCounted ==
  ASSUME NEW S \in SUBSET Conns
  PROVE  IsFiniteSet(S) /\ Cardinality(S) \in Nat
  BY FS_Subset, FS_CardinalityType

(* The cardinality of two disjoint sets together. *)
LEMMA DisjointCount ==
  ASSUME NEW S, NEW T, IsFiniteSet(S), IsFiniteSet(T), S \cap T = {}
  PROVE  /\ IsFiniteSet(S \cup T)
         /\ Cardinality(S \cup T) = Cardinality(S) + Cardinality(T)
<1>1. Cardinality(S \cap T) = 0
  BY FS_EmptySet
<1>2. Cardinality(S) \in Nat /\ Cardinality(T) \in Nat
  BY FS_CardinalityType
<1>3. /\ IsFiniteSet(S \cup T)
      /\ Cardinality(S \cup T)
           = Cardinality(S) + Cardinality(T) - Cardinality(S \cap T)
  BY FS_Union
<1>4. QED  BY <1>1, <1>2, <1>3

LEMMA LedgerFinite ==
  /\ IsFiniteSet(Began) /\ Cardinality(Began) \in Nat
  /\ IsFiniteSet(Roomless) /\ Cardinality(Roomless) \in Nat
  /\ IsFiniteSet(Announced) /\ Cardinality(Announced) \in Nat
  BY ConnsCounted DEF Began, Roomless, Announced

(* Openers, partners and refused clients are three disjoint sets. *)
LEMMA LedgerAgrees ==
  ASSUME Core, Ledger
  PROVE  CountersAgree
<1>1. \A w \in Announced :
        /\ stream[w] \in Conns
        /\ pc[stream[w]] = "done" /\ chan[stream[w]] = "none"
        /\ room[stream[w]] \in RoomNames
        /\ room[w] \in RoomNames
        /\ pc[w] # "new"
        /\ \A v \in Announced \ {w} : stream[v] # stream[w]
  BY DEF Announced, Core, SoundPairs, SocketsInv, HasPartner, RoomsInv, ChannelsInv
<1>2. IsFiniteSet(Partners) /\ Cardinality(Partners) = Cardinality(Announced)
  <2> DEFINE f == [w \in Announced |-> stream[w]]
  <2>1. f \in [Announced -> Partners]
    BY DEF Partners
  <2>2. IsInjective(f)
    BY <1>1 DEF IsInjective
  <2>3. \A p \in Partners : \E w \in Announced : f[w] = p
    BY DEF Partners
  <2>4. f \in Bijection(Announced, Partners)
    BY <2>1, <2>2, <2>3 DEF Bijection, Injection, Surjection
  <2>5. ExistsBijection(Announced, Partners)
    BY <2>4 DEF ExistsBijection
  <2>6. QED  BY <2>5, LedgerFinite, FS_Bijection
<1>3. /\ Announced \cap Partners = {}
      /\ (Announced \cup Partners) \cap Roomless = {}
      /\ (Announced \cup Partners) \cup Roomless \subseteq Began
  BY <1>1 DEF Announced, Partners, Roomless, Began
<1>4. /\ IsFiniteSet(Announced \cup Partners)
      /\ Cardinality(Announced \cup Partners) = 2 * Cardinality(Announced)
  <2>1. /\ IsFiniteSet(Announced \cup Partners)
        /\ Cardinality(Announced \cup Partners)
             = Cardinality(Announced) + Cardinality(Partners)
    BY <1>2, <1>3, LedgerFinite, DisjointCount
  <2>2. QED  BY <1>2, <2>1, LedgerFinite
<1>5. Cardinality((Announced \cup Partners) \cup Roomless)
        = 2 * Cardinality(Announced) + Cardinality(Roomless)
  BY <1>3, <1>4, LedgerFinite, DisjointCount
<1>6. Cardinality((Announced \cup Partners) \cup Roomless) <= Cardinality(Began)
  BY <1>3, LedgerFinite, FS_Subset
<1>7. QED
  BY <1>5, <1>6, LedgerFinite DEF Ledger, CountersAgree, Core, TypeCore

(* Nothing leaves the ledger, and a counter moves only with its own set. *)
LEMMA LedgerGrows ==
  ASSUME Core, Ledger, Began' = Began, Roomless \subseteq Roomless',
         Announced \subseteq Announced', UNCHANGED metrics
  PROVE  Ledger'
<1>1. /\ IsFiniteSet(Roomless') /\ Cardinality(Roomless') \in Nat
      /\ IsFiniteSet(Announced') /\ Cardinality(Announced') \in Nat
  BY ConnsCounted DEF Roomless, Announced
<1>2. /\ Cardinality(Roomless) <= Cardinality(Roomless')
      /\ Cardinality(Announced) <= Cardinality(Announced')
  BY <1>1, FS_Subset
<1>3. QED  BY <1>1, <1>2, LedgerFinite DEF Ledger, Core, TypeCore

LEMMA StepKeepsLedger ==
  ASSUME Core, Core', Ledger, [Next]_vars
  PROVE  Ledger'
<1> USE DEF Core, TypeCore, GoTo, Finish, Count
<1>1. ASSUME NEW c \in Conns, Accept(c) \/ Drop(c)
      PROVE  Ledger'
  <2>1. Began' = Began \cup {c} /\ c \notin Began
    BY <1>1 DEF Accept, Drop, Began
  <2>2. Cardinality(Began') = Cardinality(Began) + 1
    BY <2>1, LedgerFinite, FS_AddElement
  <2>3. Announced' = Announced
    BY <1>1 DEF Accept, Drop, Announced, ChannelsInv
  <2>4. CASE Accept(c)
    <3>1. Roomless' = Roomless
      BY <2>4 DEF Accept, Roomless
    <3>2. QED  BY <2>2, <2>3, <2>4, <3>1 DEF Accept, Ledger
  <2>5. CASE Drop(c)
    <3>1. Roomless' = Roomless \cup {c} /\ c \notin Roomless
      BY <2>5 DEF Drop, Roomless, RoomsInv
    <3>2. Cardinality(Roomless') = Cardinality(Roomless) + 1
      BY <3>1, LedgerFinite, FS_AddElement
    <3>3. Cardinality(Roomless) \in Nat
      BY LedgerFinite
    <3>4. QED  BY <2>2, <2>3, <2>5, <3>2, <3>3 DEF Drop, Ledger
  <2>6. QED  BY <1>1, <2>4, <2>5
<1>2. ASSUME NEW c \in Conns, NEW reason \in Refusals, Refuse(c, reason)
      PROVE  Ledger'
  <2>1. Began' = Began /\ Announced' = Announced
    BY <1>2 DEF Refuse, Began, Announced, ChannelsInv
  <2>2. Roomless' = Roomless \cup {c} /\ c \notin Roomless
    BY <1>2 DEF Refuse, Roomless, RoomsInv
  <2>3. Cardinality(Roomless') = Cardinality(Roomless) + 1
    BY <2>2, LedgerFinite, FS_AddElement
  <2>4. Cardinality(Roomless) \in Nat
    BY LedgerFinite
  <2>5. QED  BY <1>2, <2>1, <2>3, <2>4 DEF Refuse, Ledger
<1>3. ASSUME NEW c \in Conns, Announce(c)
      PROVE  Ledger'
  <2>1. Began' = Began /\ Roomless' = Roomless
    BY <1>3 DEF Announce, Began, Roomless
  <2>2. Announced' = Announced \cup {c} /\ c \notin Announced
    BY <1>3 DEF Announce, Announced, ChannelsInv
  <2>3. Cardinality(Announced') = Cardinality(Announced) + 1
    BY <2>2, LedgerFinite, FS_AddElement
  <2>4. Cardinality(Announced) \in Nat
    BY LedgerFinite
  <2>5. QED  BY <1>3, <2>1, <2>3, <2>4 DEF Announce, Ledger
<1>4. ASSUME NEW c \in Conns,
             \/ HandshakeFails(c) \/ SendRefusal(c)
             \/ TellSecond(c) \/ TellSecondFails(c) \/ HandOff(c) \/ Purge(c)
             \/ \E r \in RoomNames : OpenRoom(c, r) \/ JoinRoom(c, r)
             \/ Welcome(c) \/ StopWaiting(c) \/ RoomTimeout(c) \/ GetPartner(c)
             \/ EndCopy(c) \/ Leave(c)
      PROVE  Ledger'
  <2>1. UNCHANGED metrics
    BY <1>4 DEF HandshakeFails, SendRefusal, TellSecond, TellSecondFails, HandOff,
       Purge, OpenRoom, JoinRoom, Welcome, StopWaiting, RoomTimeout, GetPartner,
       EndCopy, Leave
  <2>2. Began' = Began
    BY <1>4 DEF HandshakeFails, SendRefusal, TellSecond, TellSecondFails, HandOff,
       Purge, OpenRoom, JoinRoom, Welcome, StopWaiting, RoomTimeout, GetPartner,
       EndCopy, Leave, Began
  <2>3. Roomless \subseteq Roomless'
    BY <1>4 DEF HandshakeFails, SendRefusal, TellSecond, TellSecondFails, HandOff,
       Purge, OpenRoom, JoinRoom, Welcome, StopWaiting, RoomTimeout, GetPartner,
       EndCopy, Leave, Roomless
  <2>4. Announced \subseteq Announced'
    BY <1>4 DEF HandshakeFails, SendRefusal, TellSecond, TellSecondFails, HandOff,
       Purge, OpenRoom, JoinRoom, Welcome, StopWaiting, RoomTimeout, GetPartner,
       EndCopy, Leave, Announced, ChannelsInv, ClaimsInv, OffersInv, Remove,
       SenderDropped, CloseReceiver
  <2>5. QED  BY <2>1, <2>2, <2>3, <2>4, LedgerGrows
<1>5. CASE UNCHANGED <<pc, room, chan, metrics>>
  BY <1>5 DEF Ledger, Began, Roomless, Announced
<1>6. QED
  BY <1>1, <1>2, <1>3, <1>4, <1>5 DEF Next, Register, SecondPeer, FirstPeer,
     RefuseJoin, RefuseBusy, RefuseOverloaded, HangUp, Cancel, vars

(* A pair is two clients, and a refused client is neither of them. *)
THEOREM CountersAgreeHolds == Spec => []CountersAgree
<1>1. IInv => Core
  BY DEF IInv, TypeOK, Core, TypeCore
<1>2. Init => Ledger
  <2> SUFFICES ASSUME Init  PROVE Ledger
    OBVIOUS
  <2>1. Began = {} /\ Roomless = {} /\ Announced = {}
    BY DEF Init, Began, Roomless, Announced
  <2>2. QED  BY <2>1, FS_EmptySet DEF Init, Ledger
<1>3. Core /\ Core' /\ Ledger /\ [Next]_vars => Ledger'
  BY StepKeepsLedger
<1>4. Core /\ Ledger => CountersAgree
  BY LedgerAgrees
<1>5. QED  BY <1>1, <1>2, <1>3, <1>4, Inductive, PTL DEF Spec

-----------------------------------------------------------------------------
(* What clients see: sockets stay closed, pairs stay pairs, and a copy goes *)
(* on until somebody ends it.                                              *)

(* c and d were told of each other: one took the socket of the other. *)
Copied(c, d) ==
  \E w \in Conns : chan[w] = "taken" /\ reply[w] = "paired" /\ {w, stream[w]} = {c, d}

(* First peers are told last, and a copy ends for a reason. *)
ToldLast ==
  \A c \in Conns :
    pc[c] \in {"new", "handshake", "welcome", "waiting", "announce"} =>
      reply[c] # "paired"

CopyEnds ==
  \A w \in Conns : chan[w] = "taken" /\ pc[w] \in {"leaving", "done"} =>
    cancelled \/ {w, stream[w]} \cap hungup # {}

LEMMA StepKeepsCopies ==
  ASSUME Core, ToldLast, CopyEnds, [Next]_vars
  PROVE  (ToldLast /\ CopyEnds)'
<1> USE DEF ToldLast, CopyEnds, Core, TypeCore, GoTo, Finish, Count
<1>1. ASSUME NEW c \in Conns,
             \/ Accept(c) \/ Drop(c) \/ HandshakeFails(c) \/ RefuseJoin(c)
             \/ \E r \in RoomNames : RefuseBusy(c, r) \/ RefuseOverloaded(c, r)
             \/ SendRefusal(c) \/ TellSecond(c)
      PROVE  (ToldLast /\ CopyEnds)'
  BY <1>1 DEF Accept, Drop, HandshakeFails, RefuseJoin, RefuseBusy,
     RefuseOverloaded, Refuse, SendRefusal, TellSecond, ChannelsInv
<1>2. ASSUME NEW c \in Conns, NEW r \in RoomNames, OpenRoom(c, r) \/ JoinRoom(c, r)
      PROVE  (ToldLast /\ CopyEnds)'
  BY <1>2 DEF OpenRoom, JoinRoom, ChannelsInv
<1>3. ASSUME NEW c \in Conns, TellSecondFails(c) \/ HandOff(c)
      PROVE  (ToldLast /\ CopyEnds)'
  BY <1>3 DEF TellSecondFails, HandOff, SenderDropped, ClaimsInv, ChannelsInv
<1>4. ASSUME NEW c \in Conns, Purge(c) \/ Leave(c)
      PROVE  (ToldLast /\ CopyEnds)'
  BY <1>4 DEF Purge, Leave, Remove, SenderDropped, ChannelsInv
<1>5. ASSUME NEW c \in Conns,
             Welcome(c) \/ StopWaiting(c) \/ RoomTimeout(c) \/ GetPartner(c)
      PROVE  (ToldLast /\ CopyEnds)'
  BY <1>5 DEF Welcome, StopWaiting, RoomTimeout, GetPartner, CloseReceiver,
     ChannelsInv
<1>6. ASSUME NEW c \in Conns, Announce(c) \/ EndCopy(c)
      PROVE  (ToldLast /\ CopyEnds)'
  BY <1>6 DEF Announce, EndCopy, ChannelsInv
<1>7. CASE (\E c \in Conns : HangUp(c)) \/ Cancel \/ UNCHANGED vars
  BY <1>7 DEF HangUp, Cancel, vars
<1>8. QED
  BY <1>1, <1>2, <1>3, <1>4, <1>5, <1>6, <1>7
     DEF Next, Register, SecondPeer, FirstPeer

(* A pair, once told, is the same pair for ever. *)
LEMMA CopiedStays ==
  ASSUME Core, [Next]_vars, NEW c, NEW d, Copied(c, d)
  PROVE  Copied(c, d)'
<1>1. PICK w \in Conns : chan[w] = "taken" /\ reply[w] = "paired" /\ {w, stream[w]} = {c, d}
  BY DEF Copied
<1>2. chan'[w] = "taken" /\ reply'[w] = "paired" /\ stream'[w] = stream[w]
  BY <1>1 DEF Core, TypeCore, ChannelsInv, ClaimsInv, Next, Accept, Drop, Register,
     SecondPeer, FirstPeer, HandshakeFails, RefuseJoin, RefuseBusy,
     RefuseOverloaded, Refuse, SendRefusal, OpenRoom, JoinRoom, TellSecond,
     TellSecondFails, HandOff, Purge, Leave, Remove, SenderDropped, Welcome,
     StopWaiting, RoomTimeout, GetPartner, CloseReceiver, Announce, EndCopy,
     HangUp, Cancel, vars
<1>3. QED  BY <1>1, <1>2 DEF Copied

(* Nobody is in two pairs, and both of a pair are connections. *)
LEMMA OnePartner ==
  ASSUME Core, NEW c, NEW d, Copied(c, d)
  PROVE  /\ c \in Conns /\ d \in Conns /\ Copied(d, c)
         /\ \A e : Copied(c, e) => e = d
<1>1. PICK w \in Conns : chan[w] = "taken" /\ reply[w] = "paired" /\ {w, stream[w]} = {c, d}
  BY DEF Copied
<1>2. /\ stream[w] \in Conns \ {w}
      /\ ~HasPartner(stream[w])
      /\ \A v \in Conns \ {w} : HasPartner(v) => stream[v] # stream[w]
      /\ \A v \in Conns : HasPartner(v) => stream[v] # w
  BY <1>1 DEF Core, SoundPairs, HasPartner
<1>3. \A e : Copied(c, e) => e = d
  BY <1>1, <1>2 DEF Copied, HasPartner
<1>4. QED  BY <1>1, <1>2, <1>3 DEF Copied

(* A connection that was closed is not opened again. *)
LEMMA SocketStaysClosed ==
  ASSUME Core, [Next]_vars, NEW c \in Conns, pc[c] # "new", ~SocketOpen(c)
  PROVE  pc'[c] # "new" /\ ~SocketOpen(c)'
<1> USE DEF SocketOpen, Core, TypeCore, GoTo, Finish
<1>1. ASSUME NEW d \in Conns, Accept(d) \/ Drop(d)
      PROVE  pc'[c] # "new" /\ ~SocketOpen(c)'
  BY <1>1 DEF Accept, Drop
<1>2. ASSUME NEW d \in Conns,
             \/ HandshakeFails(d) \/ RefuseJoin(d) \/ SendRefusal(d)
             \/ TellSecond(d) \/ TellSecondFails(d) \/ Purge(d) \/ Leave(d)
             \/ EndCopy(d) \/ GetPartner(d) \/ Announce(d)
             \/ \E r \in RoomNames : RefuseBusy(d, r) \/ RefuseOverloaded(d, r)
      PROVE  pc'[c] # "new" /\ ~SocketOpen(c)'
  BY <1>2 DEF HandshakeFails, RefuseJoin, RefuseBusy, RefuseOverloaded, Refuse,
     SendRefusal, TellSecond, TellSecondFails, Purge, Leave, EndCopy, GetPartner,
     Announce
<1>3. ASSUME NEW d \in Conns, NEW r \in RoomNames, OpenRoom(d, r) \/ JoinRoom(d, r)
      PROVE  pc'[c] # "new" /\ ~SocketOpen(c)'
  BY <1>3 DEF OpenRoom, JoinRoom, SocketsInv, ChannelsInv, HasPartner
<1>4. ASSUME NEW d \in Conns, HandOff(d)
      PROVE  pc'[c] # "new" /\ ~SocketOpen(c)'
  <2>1. CASE c = d
    BY <1>4, <2>1 DEF HandOff
  <2>2. CASE c # d
    <3>1. pc'[c] = pc[c]
      BY <1>4, <2>2 DEF HandOff
    <3>2. \A w \in Conns : pc'[w] \in FirstPeers => pc'[w] = pc[w] /\ w # d
      BY <1>4 DEF HandOff
    <3>3. \A w \in Conns : stream'[w] = c => stream[w] = c
      BY <1>4, <2>2 DEF HandOff
    <3>4. QED  BY <3>1, <3>2, <3>3
  <2>3. QED  BY <2>1, <2>2
<1>5. ASSUME NEW d \in Conns, Welcome(d) \/ StopWaiting(d) \/ RoomTimeout(d)
      PROVE  pc'[c] # "new" /\ ~SocketOpen(c)'
  BY <1>5 DEF Welcome, StopWaiting, RoomTimeout, CloseReceiver
<1>6. CASE (\E d \in Conns : HangUp(d)) \/ Cancel \/ UNCHANGED vars
  BY <1>6 DEF HangUp, Cancel, vars
<1>7. QED
  BY <1>1, <1>2, <1>3, <1>4, <1>5, <1>6 DEF Next, Register, SecondPeer, FirstPeer

(* Tasks go on by themselves: only Accept and Drop start one, only a client *)
(* hangs up, and only the operator cancels.                                *)
LEMMA TasksOnly ==
  ASSUME Core, NEW c \in Conns, Register(c) \/ SecondPeer(c) \/ FirstPeer(c)
  PROVE  /\ UNCHANGED <<hungup, cancelled>>
         /\ \A d \in Conns : pc'[d] = "new" <=> pc[d] = "new"
<1> USE DEF Core, TypeCore, GoTo, Finish
<1>1. CASE Register(c)
  BY <1>1 DEF Register, HandshakeFails, RefuseJoin, RefuseBusy, RefuseOverloaded,
     Refuse, SendRefusal, OpenRoom, JoinRoom
<1>2. CASE SecondPeer(c)
  BY <1>2 DEF SecondPeer, TellSecond, TellSecondFails, HandOff, Purge
<1>3. CASE FirstPeer(c)
  BY <1>3 DEF FirstPeer, Welcome, StopWaiting, RoomTimeout, GetPartner, Announce,
     EndCopy, Leave
<1>4. QED  BY <1>1, <1>2, <1>3

LEMMA TaskStaysStarted ==
  ASSUME Core, [Next]_vars, NEW c \in Conns, pc[c] # "new"
  PROVE  pc'[c] # "new"
<1>1. ASSUME NEW d \in Conns, Accept(d) \/ Drop(d)
      PROVE  pc'[c] # "new"
  BY <1>1 DEF Accept, Drop, GoTo, Core, TypeCore
<1>2. QED  BY <1>1, TasksOnly DEF Next, HangUp, Cancel, vars

(* Only a client that has connected can have hung up. *)
LEMMA OpenIsNotNew ==
  ASSUME Core, NEW c \in Conns, SocketOpen(c)
  PROVE  pc[c] # "new"
  BY DEF SocketOpen, Core, TypeCore, SocketsInv

(***************************************************************************)
(* The relay keeps its promise: as long as it is not cancelled and neither *)
(* of the two hangs up, the sockets of a pair it has told stay open.       *)
(***************************************************************************)
PairsLast ==
  \A c, d \in Conns :
    Copied(c, d) /\ {c, d} \cap hungup = {} /\ ~cancelled =>
      SocketOpen(c) /\ SocketOpen(d)

LEMMA PairIsOpen ==
  ASSUME Core, ToldLast, CopyEnds
  PROVE  PairsLast
<1> SUFFICES ASSUME NEW c \in Conns, NEW d \in Conns, Copied(c, d),
                    {c, d} \cap hungup = {}, ~cancelled
             PROVE  SocketOpen(c) /\ SocketOpen(d)
  BY DEF PairsLast
<1>1. PICK w \in Conns : chan[w] = "taken" /\ reply[w] = "paired" /\ {w, stream[w]} = {c, d}
  BY DEF Copied
<1>2. pc[w] = "copying"
  BY <1>1 DEF Core, TypeCore, ChannelsInv, ToldLast, CopyEnds
<1>3. SocketOpen(w) /\ SocketOpen(stream[w])
  BY <1>2 DEF SocketOpen
<1>4. QED  BY <1>1, <1>3

THEOREM CopiesLast == Spec => [](ToldLast /\ CopyEnds /\ PairsLast)
<1>1. Init => ToldLast /\ CopyEnds
  BY DEF Init, ToldLast, CopyEnds
<1>2. IInv => Core
  BY DEF IInv, TypeOK, Core, TypeCore
<1>3. Core /\ ToldLast /\ CopyEnds /\ [Next]_vars => (ToldLast /\ CopyEnds)'
  BY StepKeepsCopies
<1>4. Core /\ ToldLast /\ CopyEnds => PairsLast
  BY PairIsOpen
<1>5. QED  BY <1>1, <1>2, <1>3, <1>4, Inductive, PTL DEF Spec

-----------------------------------------------------------------------------
(* The relay implements the matchmaker. *)

(* A mate is determined: the socket taken, or the one who took the socket. *)
MateDetermined ==
  /\ \A w \in Conns : chan[w] = "taken" =>
       Mate(w) = stream[w] /\ Mate(stream[w]) = w
  /\ \A c \in Conns :
       chan[c] # "taken" /\ (\A w \in Conns : chan[w] = "taken" => stream[w] # c)
         => Mate(c) = None

LEMMA MateFacts == Core => MateDetermined
<1> SUFFICES ASSUME Core  PROVE MateDetermined
  OBVIOUS
<1>1. ASSUME NEW w \in Conns, chan[w] = "taken"
      PROVE  Mate(w) = stream[w] /\ Mate(stream[w]) = w
  <2>1. /\ chan[stream[w]] = "none"
        /\ \A v \in Conns : chan[v] = "taken" /\ stream[v] = stream[w] => v = w
    BY <1>1 DEF Core, SoundPairs, SocketsInv, HasPartner
  <2>2. QED  BY <1>1, <2>1 DEF Mate
<1>2. ASSUME NEW c \in Conns, chan[c] # "taken",
             \A w \in Conns : chan[w] = "taken" => stream[w] # c
      PROVE  Mate(c) = None
  BY <1>2 DEF Mate
<1>3. QED  BY <1>1, <1>2 DEF MateDetermined

LEMMA InitMatches == Init => M!Init
  BY DEF Init, M!Init, Mate

(* A step that takes no socket leaves every mate as it is. *)
LEMMA MateStable ==
  ASSUME Core, Core',
         \A w \in Conns : /\ chan'[w] = "taken" <=> chan[w] = "taken"
                          /\ chan[w] = "taken" => stream'[w] = stream[w]
  PROVE  \A c \in Conns : Mate(c)' = Mate(c)
<1>1. MateDetermined /\ MateDetermined'
  BY MateFacts, PTL
<1>2. SUFFICES ASSUME NEW c \in Conns  PROVE Mate(c)' = Mate(c)
  OBVIOUS
<1>3. CASE chan[c] = "taken"
  BY <1>1, <1>3 DEF MateDetermined
<1>4. ASSUME NEW w \in Conns, chan[w] = "taken", stream[w] = c
      PROVE  Mate(c)' = Mate(c)
  BY <1>1, <1>4 DEF MateDetermined
<1>5. CASE chan[c] # "taken" /\ \A w \in Conns : chan[w] = "taken" => stream[w] # c
  BY <1>1, <1>5 DEF MateDetermined
<1>6. QED  BY <1>3, <1>4, <1>5

(* Taking a socket out of a channel marries its owner and the taker. *)
LEMMA GetPartnerMarries ==
  ASSUME Core, Core', NEW c \in Conns, GetPartner(c)
  PROVE  M!Marry(c, stream[c])
<1> DEFINE p == stream[c]
<1>1. MateDetermined /\ MateDetermined'
  BY MateFacts, PTL
<1>2. /\ p \in Conns \ {c}
      /\ room[p] = room[c] /\ room[c] # None
      /\ chan[c] = "sent" /\ chan[p] = "none"
      /\ \A v \in Conns \ {c} : HasPartner(v) => stream[v] \notin {p, c}
      /\ chan' = [chan EXCEPT ![c] = "taken"]
      /\ UNCHANGED <<stream, room>>
  BY DEF GetPartner, Core, SoundPairs, SocketsInv, RoomsInv, HasPartner
<1>3. Mate(c) = None /\ Mate(p) = None
  BY <1>1, <1>2 DEF MateDetermined, HasPartner
<1>4. Mate(c)' = p /\ Mate(p)' = c
  BY <1>1, <1>2 DEF MateDetermined, Core, TypeCore
<1>5. ASSUME NEW d \in Conns \ {c, p}
      PROVE  Mate(d)' = Mate(d)
  <2>1. CASE chan[d] = "taken"
    BY <1>1, <1>2, <2>1 DEF MateDetermined, Core, TypeCore
  <2>2. ASSUME NEW w \in Conns, chan[w] = "taken", stream[w] = d
        PROVE  Mate(d)' = Mate(d)
    BY <1>1, <1>2, <2>2 DEF MateDetermined, Core, TypeCore
  <2>3. CASE chan[d] # "taken" /\ \A w \in Conns : chan[w] = "taken" => stream[w] # d
    BY <1>1, <1>2, <2>3 DEF MateDetermined, Core, TypeCore
  <2>4. QED  BY <2>1, <2>2, <2>3
<1>6. [d \in Conns |-> Mate(d)]' =
        [[d \in Conns |-> Mate(d)] EXCEPT ![c] = p, ![p] = c]
  BY <1>2, <1>4, <1>5
<1>7. QED  BY <1>2, <1>3, <1>6 DEF M!Marry

LEMMA StepMatches ==
  ASSUME Core, Core', [Next]_vars
  PROVE  [M!Next]_(M!vars)
<1>1. ASSUME NEW c \in Conns, GetPartner(c)
      PROVE  M!Next
  <2>1. stream[c] \in Conns
    BY <1>1 DEF GetPartner, Core, SoundPairs, HasPartner
  <2>2. QED  BY <1>1, <2>1, GetPartnerMarries DEF M!Next
<1>2. ASSUME NEW c \in Conns, NEW r \in RoomNames,
             OpenRoom(c, r) \/ JoinRoom(c, r)
      PROVE  M!Next
  <2>1. \A w \in Conns : /\ chan'[w] = "taken" <=> chan[w] = "taken"
                         /\ chan[w] = "taken" => stream'[w] = stream[w]
    BY <1>2 DEF OpenRoom, JoinRoom, Core, TypeCore, ChannelsInv
  <2>2. \A d \in Conns : Mate(d)' = Mate(d)
    BY <2>1, MateStable
  <2>3. room[c] = None /\ room' = [room EXCEPT ![c] = r]
    BY <1>2 DEF OpenRoom, JoinRoom, Core, RoomsInv
  <2>4. M!Name(c, r)
    BY <2>2, <2>3 DEF M!Name
  <2>5. QED  BY <2>4 DEF M!Next
<1>3. ASSUME UNCHANGED room,
             \A w \in Conns : /\ chan'[w] = "taken" <=> chan[w] = "taken"
                              /\ chan[w] = "taken" => stream'[w] = stream[w]
      PROVE  UNCHANGED M!vars
  <2>1. \A d \in Conns : Mate(d)' = Mate(d)
    BY <1>3, MateStable
  <2>2. QED  BY <1>3, <2>1 DEF M!vars
<1>4. ASSUME NEW c \in Conns,
             \/ TellSecondFails(c) \/ HandOff(c) \/ Purge(c) \/ Leave(c)
             \/ Welcome(c) \/ StopWaiting(c) \/ RoomTimeout(c)
      PROVE  UNCHANGED M!vars
  <2>1. UNCHANGED room
    BY <1>4 DEF TellSecondFails, HandOff, Purge, Leave, Welcome, StopWaiting,
       RoomTimeout
  <2>2. \A w \in Conns : /\ chan'[w] = "taken" <=> chan[w] = "taken"
                         /\ chan[w] = "taken" => stream'[w] = stream[w]
    BY <1>4 DEF TellSecondFails, HandOff, Purge, Leave, Welcome, StopWaiting,
       RoomTimeout, Remove, SenderDropped, CloseReceiver, Core, TypeCore,
       ChannelsInv, ClaimsInv, OffersInv
  <2>3. QED  BY <1>3, <2>1, <2>2
<1>5. CASE UNCHANGED <<room, chan, stream>>
  BY <1>3, <1>5
<1>6. QED
  BY <1>1, <1>2, <1>4, <1>5 DEF Next, Accept, Drop, Register, SecondPeer,
     FirstPeer, HandshakeFails, RefuseJoin, RefuseBusy, RefuseOverloaded, Refuse,
     SendRefusal, TellSecond, Announce, EndCopy, HangUp, Cancel, vars

(* Every behaviour of the relay is one of the matchmaker's. *)
THEOREM Refinement == Spec => ImplementsMatchmaker
<1>1. IInv => Core
  BY DEF IInv, TypeOK, Core, TypeCore
<1>2. Core /\ Core' /\ [Next]_vars => [M!Next]_(M!vars)
  BY StepMatches
<1>3. QED
  BY <1>1, <1>2, InitMatches, Inductive, PTL DEF Spec, ImplementsMatchmaker, M!Spec
=============================================================================
