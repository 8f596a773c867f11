---------------------------- MODULE MeetingProofs ----------------------------
(***************************************************************************)
(* Proofs about the two ways to meet: through relay and listener           *)
(* (Rendezvous), and by asking the local network (Discovery).  They hold   *)
(* for any number of registrations, rooms, strangers, answers and senders, *)
(* and for any times.                                                      *)
(*                                                                         *)
(* Rendezvous.  Its relay is an instance of RelayServer (R); RP is the     *)
(* same instance of the theorems about it, and RelayIsRelay makes them     *)
(* available.  The inductive invariant of the two programs is Clients,     *)
(* which says where they can be and that nobody has hung up on what he     *)
(* still uses, and FailuresInv, which says how a side that has the right   *)
(* code can have failed.  A side then cannot fail while the other has met  *)
(* on the same connection: the relay keeps a pair (PairsLast), and whoever *)
(* could have broken it is known.                                          *)
(*                                                                         *)
(* Discovery.  SearchInv bounds how late the search can be in each state   *)
(* and how old a datagram can be that it has not read; FirstInv says that  *)
(* the first offer that came in is the first one still to be read.         *)
(***************************************************************************)
EXTENDS Rendezvous, Discovery, TLAPS, FiniteSetTheorems

RP == INSTANCE RelayServerProofs

-----------------------------------------------------------------------------
(* The relay of Rendezvous is a RelayServer. *)

\* Its constants are as RelayServer wants them.
LEMMA RelayAssumed == RP!RelayAssumption
<1>1. IsFiniteSet(Conns)
  BY RendezvousAssumption, FS_AddElement DEF Conns
<1>2. RP!IsFiniteSet(Conns) /\ RP!IsFiniteSet(RoomNames)
  BY <1>1, RendezvousAssumption DEF RP!IsFiniteSet, IsFiniteSet
<1>3. QED  BY <1>2, RendezvousAssumption DEF RP!RelayAssumption, Conns

\* The definitions that R and RP instantiate are the same, action by action.
LEMMA SocketsAgree ==
  /\ \A c : R!SocketOpen(c) <=> RP!SocketOpen(c)
  /\ \A c : R!HangUp(c) <=> RP!HangUp(c)
  BY DEF R!SocketOpen, RP!SocketOpen, R!HangUp, RP!HangUp, R!Running, RP!Running,
     R!FirstPeers, RP!FirstPeers, R!Refusals, RP!Refusals, R!Claimants, RP!Claimants

LEMMA RegistrationAgrees ==
  ASSUME NEW c \in Conns
  PROVE  /\ R!Accept(c) => RP!Accept(c)
         /\ R!HandshakeFails(c) => RP!HandshakeFails(c)
         /\ R!RefuseJoin(c) => RP!RefuseJoin(c)
         /\ R!SendRefusal(c) => RP!SendRefusal(c)
<1> USE DEF R!GoTo, RP!GoTo, R!Finish, RP!Finish, R!Count, RP!Count, R!Refuse,
            RP!Refuse, R!Refusals, RP!Refusals
<1>1. R!Accept(c) => RP!Accept(c)
  BY DEF R!Accept, RP!Accept
<1>2. R!HandshakeFails(c) => RP!HandshakeFails(c)
  BY DEF R!HandshakeFails, RP!HandshakeFails
<1>3. R!RefuseJoin(c) => RP!RefuseJoin(c)
  BY DEF R!RefuseJoin, RP!RefuseJoin
<1>4. R!SendRefusal(c) => RP!SendRefusal(c)
  BY DEF R!SendRefusal, RP!SendRefusal
<1>5. QED  BY <1>1, <1>2, <1>3, <1>4

LEMMA RoomsAgree ==
  ASSUME NEW c \in Conns, NEW r \in RoomNames
  PROVE  /\ R!RefuseBusy(c, r) => RP!RefuseBusy(c, r)
         /\ R!OpenRoom(c, r) => RP!OpenRoom(c, r)
         /\ R!JoinRoom(c, r) => RP!JoinRoom(c, r)
<1> USE DEF R!GoTo, RP!GoTo, R!Count, RP!Count, R!Refuse, RP!Refuse, R!Waiting,
            RP!Waiting, R!Paired, RP!Paired
<1>1. R!RefuseBusy(c, r) => RP!RefuseBusy(c, r)
  BY DEF R!RefuseBusy, RP!RefuseBusy
<1>2. R!OpenRoom(c, r) => RP!OpenRoom(c, r)
  <2>1. R!Held = RP!Held
    BY DEF R!Held, RP!Held
  <2>2. R!AtCapacity = RP!AtCapacity
    BY <2>1 DEF R!AtCapacity, RP!AtCapacity, R!Cardinality, RP!Cardinality
  <2>3. QED  BY <2>2 DEF R!OpenRoom, RP!OpenRoom
<1>3. R!JoinRoom(c, r) => RP!JoinRoom(c, r)
  BY DEF R!JoinRoom, RP!JoinRoom
<1>4. QED  BY <1>1, <1>2, <1>3

LEMMA PeersAgree ==
  ASSUME NEW c \in Conns
  PROVE  /\ R!SecondPeer(c) => RP!SecondPeer(c)
         /\ (\/ R!Welcome(c) \/ R!StopWaiting(c) \/ R!RoomTimeout(c)
             \/ R!GetPartner(c) \/ R!Announce(c) \/ R!EndCopy(c) \/ R!Leave(c))
              => RP!FirstPeer(c)
<1> USE DEF R!GoTo, RP!GoTo, R!Finish, RP!Finish, R!Count, RP!Count, R!Remove,
            RP!Remove, R!SenderDropped, RP!SenderDropped, R!Vacant, RP!Vacant,
            R!CloseReceiver, RP!CloseReceiver
<1>1. R!SecondPeer(c) => RP!SecondPeer(c)
  BY DEF R!SecondPeer, RP!SecondPeer, R!TellSecond, RP!TellSecond,
     R!TellSecondFails, RP!TellSecondFails, R!HandOff, RP!HandOff, R!Purge, RP!Purge
<1>2. R!Welcome(c) => RP!Welcome(c)
  BY DEF R!Welcome, RP!Welcome
<1>3. R!StopWaiting(c) \/ R!RoomTimeout(c) => RP!StopWaiting(c) \/ RP!RoomTimeout(c)
  BY DEF R!StopWaiting, RP!StopWaiting, R!RoomTimeout, RP!RoomTimeout
<1>4. R!GetPartner(c) \/ R!Announce(c) => RP!GetPartner(c) \/ RP!Announce(c)
  BY DEF R!GetPartner, RP!GetPartner, R!Announce, RP!Announce
<1>5. R!EndCopy(c) \/ R!Leave(c) => RP!EndCopy(c) \/ RP!Leave(c)
  BY DEF R!EndCopy, RP!EndCopy, R!Leave, RP!Leave
<1>6. QED  BY <1>1, <1>2, <1>3, <1>4, <1>5 DEF RP!FirstPeer

\* A step of the relay, as Rendezvous lists them, is one of its tasks.
LEMMA RelayMoves ==
  ASSUME NEW c \in Conns, RelayStep(c)
  PROVE  RP!Register(c) \/ RP!SecondPeer(c) \/ RP!FirstPeer(c)
<1>1. CASE R!HandshakeFails(c) \/ R!RefuseJoin(c) \/ R!SendRefusal(c)
  BY <1>1, RegistrationAgrees DEF RP!Register
<1>2. ASSUME NEW r \in RoomNames, R!RefuseBusy(c, r) \/ R!OpenRoom(c, r) \/ R!JoinRoom(c, r)
      PROVE  RP!Register(c)
  BY <1>2, RoomsAgree DEF RP!Register
<1>3. CASE \/ R!SecondPeer(c) \/ R!Welcome(c) \/ R!StopWaiting(c) \/ R!RoomTimeout(c)
           \/ R!GetPartner(c) \/ R!Announce(c) \/ R!EndCopy(c) \/ R!Leave(c)
  BY <1>3, PeersAgree
<1>4. QED  BY <1>1, <1>2, <1>3 DEF RelayStep

\* A program that closes or connects is a client of the relay, and one that does
\* neither leaves it alone.
LEMMA ClientsMove ==
  /\ \A c : Close(c) => [RP!Next]_(RP!vars)
  /\ \A c \in Conns : R!Accept(c) => RP!Next
  /\ UNCHANGED relay => UNCHANGED RP!vars
<1>1. UNCHANGED relay => UNCHANGED RP!vars
  BY DEF relay, RP!vars
<1>2. \A c : Close(c) => [RP!Next]_(RP!vars)
  BY <1>1, SocketsAgree DEF Close, RP!Next
<1>3. \A c \in Conns : R!Accept(c) => RP!Next
  BY RegistrationAgrees DEF RP!Next
<1>4. QED  BY <1>1, <1>2, <1>3

\* So no step of the rendezvous is one that RelayServer could not take.
LEMMA EveryStepIsTheRelays == [Next]_vars => [RP!Next]_(RP!vars)
<1> SUFFICES ASSUME [Next]_vars  PROVE [RP!Next]_(RP!vars)
  OBVIOUS
<1>1. CASE UNCHANGED relay
  BY <1>1, ClientsMove
<1>2. ASSUME NEW c, Close(c)  PROVE [RP!Next]_(RP!vars)
  BY <1>2, ClientsMove
<1>3. ASSUME NEW c \in Conns, R!Accept(c)  PROVE [RP!Next]_(RP!vars)
  BY <1>3, ClientsMove
<1>4. ASSUME NEW c \in Conns, RelayStep(c)  PROVE [RP!Next]_(RP!vars)
  BY <1>4, RelayMoves DEF RP!Next
<1>5. ASSUME NEW s \in Sides, Exchange(s) \/ BrokenOff(s)
      PROVE  [RP!Next]_(RP!vars)
  BY <1>1, <1>2, <1>5 DEF Exchange, BrokenOff
<1>6. CASE SenderStep
  BY <1>1, <1>2, <1>3, <1>5, <1>6 DEF SenderStep, AcceptLan, AcceptFails, AcceptRelay, LoseRelay, StopAccepting,
     Withdraw, JoinRelay, ShakeTimeout, ShakeRefused, Conns, Sides
<1>7. CASE ReceiverStep
  BY <1>1, <1>2, <1>3, <1>5, <1>7 DEF ReceiverStep, FindOffer, FindNothing, ConnectLan,
     ConnectFails, DialRelay, GetPaired, StopDialing, DialedInVain, Conns, Sides
<1>8. QED
  BY <1>1, <1>2, <1>4, <1>6, <1>7 DEF Next, Open, Dial, CancelAccept, CancelDial, StrayArrives, Withdraw, vars

(***************************************************************************)
(* What the two programs do at the relay is what RelayServer lets its      *)
(* clients do, and what the relay does for them is what it does there: the *)
(* theorems about RelayServer hold for its use in a rendezvous.            *)
(* (net/relay.rs 56-204 against net/server.rs 114-446)                     *)
(***************************************************************************)
THEOREM RelayIsRelay == Spec => RP!Spec
<1>1. Init => RP!Init
  BY DEF Init, R!Init, RP!Init, R!Vacant, RP!Vacant
<1>2. QED  BY <1>1, EveryStepIsTheRelays, PTL DEF Spec, RP!Spec

\* Of those theorems, the ones that the following uses: the relay's inductive
\* invariant, and that a pair it has told stays connected.
THEOREM RelayKeepsCore == Spec => [](RP!Core /\ RP!ToldLast /\ RP!CopyEnds /\ RP!PairsLast)
<1>1. RP!Spec => []RP!IInv
  BY RP!Inductive, RelayAssumed
<1>2. RP!IInv => RP!Core
  BY DEF RP!IInv, RP!TypeOK, RP!Core, RP!TypeCore
<1>3. RP!Spec => [](RP!ToldLast /\ RP!CopyEnds /\ RP!PairsLast)
  BY RP!CopiesLast, RelayAssumed
<1>4. QED  BY <1>1, <1>2, <1>3, RelayIsRelay, PTL
-----------------------------------------------------------------------------
(* What a step of either program or of the relay does to its connections. *)

\* R and RP mean the same by an open socket, before and after a step.
LEMMA OpenAgrees == \A c : 
  (R!SocketOpen(c) <=> RP!SocketOpen(c)) /\ (R!SocketOpen(c) <=> RP!SocketOpen(c))'
  BY DEF R!SocketOpen, RP!SocketOpen, R!Running, RP!Running, R!FirstPeers,
     RP!FirstPeers, R!Refusals, RP!Refusals, R!Claimants, RP!Claimants

\* No step takes back a connection, a close or a pairing.
LEMMA StepFacts ==
  ASSUME RP!Core, [Next]_vars
  PROVE  /\ \A c \in Conns : pc[c] # "new" => pc'[c] # "new"
         /\ \A c \in Conns : pc[c] # "new" /\ ~R!SocketOpen(c) => ~R!SocketOpen(c)'
         /\ \A c, d : Joined(c, d) => Joined(c, d)'
<1>1. [RP!Next]_(RP!vars)
  BY EveryStepIsTheRelays
<1>2. ASSUME NEW c \in Conns, pc[c] # "new"
      PROVE  pc'[c] # "new"
  BY <1>1, <1>2, RP!TaskStaysStarted, RelayAssumed
<1>3. ASSUME NEW c \in Conns, pc[c] # "new", ~R!SocketOpen(c)
      PROVE  ~R!SocketOpen(c)'
  <2>1. ~RP!SocketOpen(c)
    BY <1>3, OpenAgrees
  <2>2. ~RP!SocketOpen(c)'
    BY <1>1, <1>3, <2>1, RP!SocketStaysClosed, RelayAssumed
  <2>3. QED  BY <2>2, OpenAgrees
<1>4. ASSUME NEW c, NEW d, Joined(c, d)
      PROVE  Joined(c, d)'
  <2>1. RP!Copied(c, d)
    BY <1>4 DEF Joined, RP!Copied
  <2>2. RP!Copied(c, d)'
    BY <1>1, <2>1, RP!CopiedStays, RelayAssumed
  <2>3. QED  BY <2>2 DEF Joined, RP!Copied
<1>5. QED  BY <1>2, <1>3, <1>4

\* A connection is joined to at most one other, and that one to it.
LEMMA JoinedFacts ==
  ASSUME RP!Core, NEW c, NEW d, Joined(c, d)
  PROVE  /\ c \in Conns /\ d \in Conns /\ Joined(d, c)
         /\ \A e : Joined(c, e) => e = d
<1>1. /\ RP!Copied(c, d)
      /\ RP!Copied(d, c) <=> Joined(d, c)
      /\ \A e : RP!Copied(c, e) <=> Joined(c, e)
  BY DEF Joined, RP!Copied
<1>2. QED  BY <1>1, RP!OnePartner, RelayAssumed

\* The relay keeps a pair open as long as neither hangs up.
LEMMA JoinedIsOpen ==
  ASSUME RP!Core, RP!PairsLast, ~cancelled, NEW c, NEW d, Joined(c, d),
         c \notin hungup, d \notin hungup
  PROVE  R!SocketOpen(c)
<1>1. RP!Copied(c, d)
  BY DEF Joined, RP!Copied
<1>2. RP!SocketOpen(c)
  BY <1>1, JoinedFacts DEF RP!PairsLast
<1>3. QED  BY <1>2, OpenAgrees

(* The tasks of the relay neither start one another nor hang up. *)
LEMMA RelayStepFacts ==
  ASSUME RP!Core, NEW c \in Conns, RelayStep(c)
  PROVE  /\ UNCHANGED <<hungup, cancelled>>
         /\ \A d \in Conns : pc'[d] = "new" <=> pc[d] = "new"
  BY RelayMoves, RP!TasksOnly, RelayAssumed

(* Connecting. *)
LEMMA AcceptFacts ==
  ASSUME RP!Core, NEW c \in Conns, R!Accept(c)
  PROVE  /\ pc[c] = "new" /\ pc'[c] # "new"
         /\ \A d \in Conns \ {c} : pc'[d] = pc[d]
         /\ UNCHANGED <<hungup, cancelled>>
  BY DEF RP!Core, RP!TypeCore, R!Accept, R!GoTo

(* Closing: the client has hung up, if its socket was open. *)
LEMMA CloseFacts ==
  ASSUME RP!Core, NEW c, Close(c)
  PROVE  /\ UNCHANGED <<pc, cancelled>>
         /\ hungup \subseteq hungup' /\ hungup' \subseteq hungup \cup ({c} \cap Conns)
         /\ c \in Conns => c \in hungup' \/ ~R!SocketOpen(c)
         /\ c \in hungup' \ hungup => pc[c] # "new"
<1>1. CASE c \in Conns \ hungup /\ R!SocketOpen(c)
  <2>1. UNCHANGED <<pc, cancelled>> /\ hungup' = hungup \cup {c}
    BY <1>1 DEF Close, R!HangUp
  <2>2. RP!SocketOpen(c)
    BY <1>1, OpenAgrees
  <2>3. pc[c] # "new"
    BY <1>1, <2>2, RP!OpenIsNotNew, RelayAssumed
  <2>4. QED  BY <1>1, <2>1, <2>3
<1>2. CASE ~(c \in Conns \ hungup /\ R!SocketOpen(c))
  BY <1>2 DEF Close, relay
<1>3. QED  BY <1>1, <1>2

-----------------------------------------------------------------------------
(* Where the two programs can be, and what they hold there. *)

InCall         == {"shaking", "met"}
SenderPlaces   == {"new", "accepting", "failed"} \cup InCall
ReceiverPlaces == {"new", "finding", "connecting", "joining", "joined", "failed"} \cup InCall

\* The type invariant of the two programs.
ClientTypes ==
  /\ at \in [Sides -> SenderPlaces \cup ReceiverPlaces]
  /\ at["sender"] \in SenderPlaces /\ at["receiver"] \in ReceiverPlaces
  /\ sc \in SenderConns \cup {None}
  /\ backlog \in Seq({"direct"} \cup Strangers)
  /\ conn \in [Sides -> Conns \cup {"direct", None} \cup Strangers]
  /\ conn["sender"] \in SenderConns \cup {"direct", None} \cup Strangers
  /\ conn["receiver"] \in {ReceiverConn, "direct", None}
  /\ sent \in [Sides -> 0..4]

(* A side holds a connection from its handshake on, and a registration only *)
(* while it accepts.                                                       *)
PlacesInv ==
  /\ \A s \in Sides :
       /\ at[s] \notin InCall \cup {"failed"} => conn[s] = None /\ sent[s] = 0
       /\ at[s] \in InCall => conn[s] # None /\ sent[s] > 0
       /\ at[s] = "met" => sent[s] = 4
  /\ sc # None => at["sender"] = "accepting"

\* The two ways the backlog changes.
LEMMA BacklogTypes ==
  ASSUME NEW S, NEW q \in Seq(S)
  PROVE  /\ q # <<>> => Head(q) \in S /\ Tail(q) \in Seq(S)
         /\ \A x \in S : Append(q, x) \in Seq(S)
  OBVIOUS

\* Both are inductive without a word about the relay.
LEMMA StepKeepsTypes ==
  ASSUME ClientTypes, PlacesInv, [Next]_vars
  PROVE  (ClientTypes /\ PlacesInv)'
<1> DEFINE Kept == (ClientTypes /\ PlacesInv)'
<1> USE RendezvousAssumption
<1> USE DEF ClientTypes, PlacesInv, InCall, SenderPlaces, ReceiverPlaces, Sides, Strangers, GoTo, Fail,
            Shake, Conns
<1>1. CASE Open \/ LoseRelay \/ StopAccepting \/ CancelAccept
  BY <1>1 DEF Open, LoseRelay, StopAccepting, CancelAccept, Withdraw
<1>2. CASE AcceptLan
  <2>1. Head(backlog) \in {"direct"} \cup Strangers /\ Tail(backlog) \in Seq({"direct"} \cup Strangers)
    BY <1>2, BacklogTypes DEF AcceptLan
  <2>2. QED  BY <1>2, <2>1 DEF AcceptLan
<1>15. CASE AcceptFails
  <2>1. backlog # <<>> => /\ Head(backlog) \in {"direct"} \cup Strangers
                          /\ Tail(backlog) \in Seq({"direct"} \cup Strangers)
    BY BacklogTypes
  <2>2. QED  BY <1>15, <2>1 DEF AcceptFails
<1>3. CASE AcceptRelay
  BY <1>3 DEF AcceptRelay
<1>4. ASSUME NEW c \in SenderConns, JoinRelay(c)
      PROVE  Kept
  BY <1>4 DEF JoinRelay
<1>5. CASE Dial \/ FindOffer \/ FindNothing
  BY <1>5 DEF Dial, FindOffer, FindNothing, FallBack
<1>6. CASE ConnectLan
  BY <1>6 DEF ConnectLan
<1>7. CASE ConnectFails
  <2>1. backlog' \in Seq({"direct"} \cup Strangers)
    BY <1>7, BacklogTypes DEF ConnectFails
  <2>2. QED  BY <1>7, <2>1 DEF ConnectFails, FallBack
<1>8. CASE DialRelay \/ GetPaired
  BY <1>8 DEF DialRelay, GetPaired
<1>9. CASE StopDialing \/ DialedInVain \/ CancelDial
  BY <1>9 DEF StopDialing, DialedInVain, CancelDial
<1>10. ASSUME NEW s \in Sides, Exchange(s)
       PROVE  Kept
  BY <1>10 DEF Exchange
<1>11. ASSUME NEW s \in Sides, BrokenOff(s)
       PROVE  Kept
  BY <1>11 DEF BrokenOff
<1>12. CASE ShakeTimeout \/ ShakeRefused
  BY <1>12 DEF ShakeTimeout, ShakeRefused
<1>16. CASE StrayArrives
  <2>1. backlog' \in Seq({"direct"} \cup Strangers)
    BY <1>16, BacklogTypes DEF StrayArrives
  <2>2. QED  BY <1>16, <2>1 DEF StrayArrives
<1>13. CASE UNCHANGED <<at, sc, backlog, conn, sent>>
  BY <1>13
<1>14. QED
  BY <1>1, <1>2, <1>3, <1>4, <1>5, <1>6, <1>7, <1>8, <1>9, <1>10, <1>11, <1>12, <1>13, <1>15, <1>16
     DEF Next, SenderStep, ReceiverStep, RelayStep, vars

-----------------------------------------------------------------------------
(* Which connections are still open at the clients' end. *)

(* Nobody has hung up on what a side waits or shakes hands on. *)
ClosedInv ==
  /\ ~cancelled
  /\ \A c \in hungup : pc[c] # "new"
  /\ sc # None => pc[sc] # "new" /\ sc \notin hungup
  /\ \A s \in Sides : conn[s] \in Conns => pc[conn[s]] # "new"
  /\ \A s \in Sides : at[s] \in InCall => conn[s] \notin hungup
  /\ at["receiver"] = "joined" => pc[ReceiverConn] # "new" /\ ReceiverConn \notin hungup

Clients == ClientTypes /\ PlacesInv /\ ClosedInv

\* Whoever closes a connection forgets it or fails.
LEMMA StepKeepsClosed ==
  ASSUME RP!Core, Clients, [Next]_vars
  PROVE  ClosedInv'
<1> USE RendezvousAssumption
<1> USE DEF Clients, ClientTypes, PlacesInv, ClosedInv, InCall, SenderPlaces,
            ReceiverPlaces, Sides, Strangers, GoTo, Fail, Shake, Conns
<1>0. \A c \in Conns : pc[c] # "new" => pc'[c] # "new"
  BY StepFacts
<1>1. ASSUME UNCHANGED <<hungup, cancelled>>, UNCHANGED <<at, sc, conn>>
      PROVE  ClosedInv'
  BY <1>0, <1>1, RP!OpenIsNotNew DEF RP!Core, RP!TypeCore
<1>2. CASE AcceptLan
  <2>1. Head(backlog) \in {"direct"} \cup Strangers
    BY <1>2, BacklogTypes DEF AcceptLan
  <2>2. hungup' \subseteq hungup \cup ({sc} \cap Conns) /\ cancelled' = cancelled /\ pc' = pc
    BY <1>2, CloseFacts DEF AcceptLan
  <2>3. QED  BY <1>2, <2>1, <2>2 DEF AcceptLan, RP!Core, RP!TypeCore
<1>14. CASE AcceptFails
  <2>1. backlog # <<>> => Head(backlog) \in {"direct"} \cup Strangers
    BY BacklogTypes
  <2>2. hungup' \subseteq hungup \cup ({sc} \cap Conns) /\ cancelled' = cancelled /\ pc' = pc
    BY <1>14, CloseFacts DEF AcceptFails
  <2>3. QED  BY <1>14, <2>1, <2>2 DEF AcceptFails, RP!Core, RP!TypeCore
<1>3. CASE AcceptRelay \/ GetPaired
  BY <1>3 DEF AcceptRelay, GetPaired, relay
<1>4. CASE LoseRelay \/ StopAccepting \/ CancelAccept
  <2>1. Close(sc) /\ sc' = None /\ at'["sender"] \in {"accepting", "failed"}
        /\ at["sender"] = "accepting" /\ conn' = conn /\ at'["receiver"] = at["receiver"]
    BY <1>4 DEF LoseRelay, StopAccepting, CancelAccept, Withdraw
  <2>2. hungup' \subseteq hungup \cup ({sc} \cap Conns) /\ cancelled' = cancelled /\ pc' = pc
    BY <2>1, CloseFacts
  <2>3. QED  BY <2>1, <2>2 DEF RP!Core, RP!TypeCore
<1>5. ASSUME NEW c \in SenderConns, JoinRelay(c)
      PROVE  ClosedInv'
  <2>1. pc[c] = "new" /\ pc'[c] # "new" /\ UNCHANGED <<hungup, cancelled>>
    BY <1>5, AcceptFacts DEF JoinRelay
  <2>2. sc' = c /\ UNCHANGED <<at, conn>>
    BY <1>5 DEF JoinRelay
  <2>3. c \notin hungup /\ hungup \subseteq Conns
    BY <2>1 DEF RP!Core, RP!TypeCore
  <2>4. QED  BY <1>0, <2>1, <2>2, <2>3
<1>6. CASE DialRelay
  <2>1. /\ pc[ReceiverConn] = "new" /\ pc'[ReceiverConn] # "new"
        /\ UNCHANGED <<hungup, cancelled>>
    BY <1>6, AcceptFacts DEF DialRelay
  <2>2. at' = [at EXCEPT !["receiver"] = "joined"] /\ UNCHANGED <<sc, conn>>
    BY <1>6 DEF DialRelay
  <2>3. ReceiverConn \notin hungup /\ hungup \subseteq Conns
    BY <2>1 DEF RP!Core, RP!TypeCore
  <2>4. QED  BY <1>0, <2>1, <2>2, <2>3
<1>7. CASE StopDialing \/ DialedInVain \/ CancelDial
  <2>1. /\ Close(ReceiverConn) /\ at' = [at EXCEPT !["receiver"] = "failed"]
        /\ UNCHANGED <<sc, conn>>
    BY <1>7 DEF StopDialing, DialedInVain, CancelDial
  <2>2. hungup' \subseteq hungup \cup {ReceiverConn} /\ cancelled' = cancelled /\ pc' = pc
        /\ (ReceiverConn \in hungup' \ hungup => pc[ReceiverConn] # "new")
    BY <2>1, CloseFacts
  <2>3. QED  BY <2>1, <2>2
<1>8. ASSUME NEW s \in Sides, Exchange(s) \/ BrokenOff(s)
      PROVE  ClosedInv'
  <2> DEFINE p == Peer(s)
  <2>1. \/ UNCHANGED <<hungup, cancelled, pc, conn, sc>> /\ at'[s] \in InCall
        \/ /\ Close(conn[s]) /\ at'[s] \in {"failed", "accepting"}
           /\ conn'[s] \in {conn[s], None}
    BY <1>8 DEF relay, Exchange, BrokenOff
  <2>2. /\ s # p /\ Sides = {s, p} /\ at[s] = "shaking" /\ at'[p] = at[p]
        /\ conn'[p] = conn[p] /\ sc' = sc
        /\ at'["receiver"] \in {at["receiver"], "met", "failed", "accepting"}
    BY <1>8 DEF Exchange, BrokenOff, Peer
  <2>3. CASE UNCHANGED <<hungup, cancelled, pc, conn, sc>> /\ at'[s] \in InCall
    BY <2>2, <2>3
  <2>4. CASE /\ Close(conn[s]) /\ at'[s] \in {"failed", "accepting"}
             /\ conn'[s] \in {conn[s], None}
    <3>1. /\ hungup' \subseteq hungup \cup ({conn[s]} \cap Conns)
          /\ cancelled' = cancelled /\ pc' = pc
      BY <2>4, CloseFacts
    <3>2. conn[p] \in Conns => conn[p] # conn[s]
      BY <2>2 DEF Peer
    <3>3. sc # None => s # "sender"
      BY <2>2
    <3>4. \A c \in hungup' : pc'[c] # "new"
      BY <3>1
    <3>5. sc' # None => pc'[sc'] # "new" /\ sc' \notin hungup'
      BY <2>2, <3>1, <3>3
    <3>6. \A t \in {s, p} : conn'[t] \in Conns => pc'[conn'[t]] # "new"
      <4>1. conn'[s] \in Conns => pc'[conn'[s]] # "new"
        BY <2>4, <3>1
      <4>2. conn'[p] \in Conns => pc'[conn'[p]] # "new"
        BY <2>2, <3>1 DEF Peer
      <4>3. QED  BY <4>1, <4>2
    <3>7. at'[p] \in InCall => conn'[p] \notin hungup'
      BY <2>2, <3>1, <3>2
    <3>8. at'["receiver"] = "joined" => pc'[ReceiverConn] # "new" /\ ReceiverConn \notin hungup'
      BY <2>2, <2>4, <3>1
    <3>9. QED  BY <2>2, <2>4, <3>1, <3>4, <3>5, <3>6, <3>7, <3>8
  <2>5. QED  BY <2>1, <2>3, <2>4
<1>9. CASE Open \/ Dial \/ FindOffer \/ FindNothing \/ ConnectFails
  <2>1. UNCHANGED <<sc, conn, hungup, cancelled, pc>>
    BY <1>9 DEF Open, Dial, FindOffer, FindNothing, ConnectFails, FallBack, relay
  <2>2. \A s \in Sides : at'[s] = at[s] \/ at'[s] \notin InCall \cup {"joined"}
    BY <1>9 DEF Open, Dial, FindOffer, FindNothing, ConnectFails, FallBack
  <2>3. QED  BY <2>1, <2>2
<1>13. CASE ConnectLan
  BY <1>13 DEF ConnectLan, relay, RP!Core, RP!TypeCore
<1>10. CASE ShakeTimeout \/ ShakeRefused \/ StrayArrives
  BY <1>10 DEF ShakeTimeout, ShakeRefused, StrayArrives, relay
<1>11. ASSUME NEW c \in Conns, RelayStep(c)
       PROVE  ClosedInv'
  BY <1>1, <1>11, RelayStepFacts DEF RelayStep
<1>12. QED
  BY <1>1, <1>2, <1>3, <1>4, <1>5, <1>6, <1>7, <1>8, <1>9, <1>10, <1>11, <1>13, <1>14
     DEF Next, SenderStep, ReceiverStep, vars, relay
-----------------------------------------------------------------------------
(* The sender's registrations. *)

(* Tasks start when a program connects, and nobody takes back hanging up. *)
LEMMA OnlyConnectingStarts ==
  ASSUME RP!Core, [Next]_vars
  PROVE  /\ hungup \subseteq hungup'
         /\ \A c \in SenderConns : pc[c] = "new" /\ pc'[c] # "new" => JoinRelay(c)
<1> USE RendezvousAssumption
<1> USE DEF Conns
<1> DEFINE Goal == /\ hungup \subseteq hungup'
                   /\ \A c \in SenderConns : pc[c] = "new" /\ pc'[c] # "new" => JoinRelay(c)
<1>1. ASSUME NEW c \in Conns, RelayStep(c)  PROVE Goal
  BY <1>1, RelayStepFacts
<1>2. ASSUME NEW c, Close(c)  PROVE Goal
  BY <1>2, CloseFacts
<1>3. CASE UNCHANGED relay
  BY <1>3 DEF relay
<1>4. ASSUME NEW c \in SenderConns, JoinRelay(c)  PROVE Goal
  BY <1>4, AcceptFacts DEF JoinRelay
<1>5. CASE DialRelay
  BY <1>5, AcceptFacts DEF DialRelay
<1>6. ASSUME NEW s \in Sides, Exchange(s) \/ BrokenOff(s)  PROVE Goal
  BY <1>2, <1>3, <1>6 DEF Exchange, BrokenOff, relay
<1>7. CASE \/ AcceptLan \/ AcceptFails \/ LoseRelay \/ StopAccepting \/ CancelAccept
           \/ StopDialing \/ DialedInVain \/ CancelDial
  BY <1>2, <1>7 DEF AcceptLan, AcceptFails, LoseRelay, StopAccepting, CancelAccept, Withdraw,
     StopDialing, DialedInVain, CancelDial
<1>8. CASE \/ Open \/ Dial \/ FindOffer \/ FindNothing \/ ConnectLan \/ ConnectFails
           \/ AcceptRelay \/ GetPaired \/ ShakeTimeout \/ ShakeRefused \/ StrayArrives
  BY <1>3, <1>8 DEF Open, Dial, FindOffer, FindNothing, ConnectLan, ConnectFails, AcceptRelay,
     GetPaired, ShakeTimeout, ShakeRefused, StrayArrives
<1>9. QED
  BY <1>1, <1>3, <1>4, <1>5, <1>6, <1>7, <1>8
     DEF Next, SenderStep, ReceiverStep, vars, Sides

\* A registration that is open afterwards was open before or is the one that
\* JoinRelay made, and whoever leaves a connection has closed it.
LEMMA StepKeepsRegistration ==
  ASSUME RP!Core, Clients, OneRegistration, [Next]_vars
  PROVE  OneRegistration'
<1> USE RendezvousAssumption
<1> USE DEF Clients, ClientTypes, PlacesInv, InCall, GoTo, Fail, Shake, Conns, Sides
<1>1. SUFFICES ASSUME NEW c \in SenderConns, pc'[c] # "new", c \notin hungup',
                      R!SocketOpen(c)'
               PROVE  (\/ c = sc /\ at["sender"] = "accepting"
                       \/ c = conn["sender"] /\ at["sender"] \in {"shaking", "met"})'
  BY DEF OneRegistration
<1> DEFINE Goal == (\/ c = sc /\ at["sender"] = "accepting"
                    \/ c = conn["sender"] /\ at["sender"] \in {"shaking", "met"})'
<1>2. CASE pc[c] = "new"
  BY <1>1, <1>2, OnlyConnectingStarts DEF JoinRelay
<1>3. CASE pc[c] # "new"
  <2>1. R!SocketOpen(c) /\ c \notin hungup
    BY <1>1, <1>3, StepFacts, OnlyConnectingStarts
  <2>2. \/ c = sc /\ at["sender"] = "accepting"
        \/ c = conn["sender"] /\ at["sender"] \in {"shaking", "met"}
    BY <1>3, <2>1 DEF OneRegistration
  <2>3. ~Close(c)
    BY <1>1, <2>1, CloseFacts
  <2>4. CASE UNCHANGED <<sc, conn>> /\ at'["sender"] = at["sender"]
    BY <2>2, <2>4
  <2>5. CASE AcceptLan \/ AcceptFails \/ AcceptRelay \/ LoseRelay \/ StopAccepting \/ CancelAccept
    BY <2>2, <2>3, <2>5 DEF AcceptLan, AcceptFails, AcceptRelay, LoseRelay, StopAccepting,
       CancelAccept, Withdraw
  <2>6. ASSUME NEW d \in SenderConns, JoinRelay(d)
        PROVE  Goal
    BY <2>2, <2>6 DEF JoinRelay
  <2>7. CASE Exchange("sender") \/ BrokenOff("sender") \/ ShakeTimeout \/ ShakeRefused
    BY <2>2, <2>3, <2>7 DEF Exchange, BrokenOff, ShakeTimeout, ShakeRefused, Strangers
  <2>8. CASE Open
    BY <2>2, <2>8 DEF Open
  <2>9. CASE ReceiverStep \/ Dial \/ CancelDial \/ StrayArrives \/ \E d \in Conns : RelayStep(d)
    <3>1. sc' = sc /\ conn'["sender"] = conn["sender"] /\ at'["sender"] = at["sender"]
      BY <2>9 DEF ReceiverStep, Dial, CancelDial, StrayArrives, RelayStep, FindOffer,
         FindNothing, FallBack, ConnectLan, ConnectFails, DialRelay, GetPaired, StopDialing, DialedInVain,
         Exchange, BrokenOff
    <3>2. QED  BY <2>2, <3>1
  <2>10. QED
    BY <2>4, <2>5, <2>6, <2>7, <2>8, <2>9 DEF Next, SenderStep, vars
<1>4. QED  BY <1>2, <1>3

-----------------------------------------------------------------------------
(* How a side that has the right code can fail. *)

(* The link between the receiver and the relay, or its partner, is gone. *)
LinkLost ==
  \/ \E c \in hungup : Joined(ReceiverConn, c)
  \/ ReceiverConn \notin hungup /\ ~R!SocketOpen(ReceiverConn)

(* The sender fails before it shakes hands with its receiver, which fails   *)
(* only after its sender or because its link is gone.                      *)
FailuresInv ==
  code = "same" =>
    /\ at["sender"] = "failed" => conn["sender"] \in {None} \cup Strangers \/ sent["sender"] = 0
    /\ at["receiver"] = "failed" /\ conn["receiver"] = "direct" => at["sender"] = "failed"
    /\ at["receiver"] = "failed" /\ conn["receiver"] = ReceiverConn => LinkLost

\* What is lost stays lost, if only the receiver does not hang up itself.
LEMMA LinkStaysLost ==
  ASSUME RP!Core, [Next]_vars, LinkLost, pc[ReceiverConn] # "new",
         ReceiverConn \notin hungup => ReceiverConn \notin hungup'
  PROVE  LinkLost'
<1>1. CASE \E c \in hungup : Joined(ReceiverConn, c)
  BY <1>1, StepFacts, OnlyConnectingStarts DEF LinkLost
<1>2. CASE ReceiverConn \notin hungup /\ ~R!SocketOpen(ReceiverConn)
  BY <1>2, StepFacts DEF LinkLost, Conns
<1>3. QED  BY <1>1, <1>2 DEF LinkLost

\* With the right code a handshake only fails when its connection does.
LEMMA StepKeepsFailures ==
  ASSUME RP!Core, Clients, FailuresInv, [Next]_vars
  PROVE  FailuresInv'
<1> USE RendezvousAssumption
<1> USE DEF Clients, ClientTypes, PlacesInv, InCall, SenderPlaces, ReceiverPlaces, GoTo, Fail, Shake, Conns, Sides,
        Strangers
<1>1. SUFFICES ASSUME code = "same", code' = code
               PROVE  FailuresInv'
  BY DEF FailuresInv, Next, SenderStep, ReceiverStep, RelayStep, Open, Dial, AcceptLan, AcceptFails,
     AcceptRelay, LoseRelay, StopAccepting, CancelAccept, Withdraw, JoinRelay, Exchange,
     BrokenOff, ShakeTimeout, ShakeRefused, FindOffer, FindNothing, ConnectLan, ConnectFails, DialRelay,
     GetPaired, StopDialing, DialedInVain, CancelDial, StrayArrives, vars, given
<1>2. at'["sender"] = "failed" => conn'["sender"] \in {None} \cup Strangers \/ sent'["sender"] = 0
  BY <1>1 DEF FailuresInv, Next, SenderStep, ReceiverStep, RelayStep, Open, Dial, AcceptLan, AcceptFails,
     AcceptRelay, LoseRelay, StopAccepting, CancelAccept, Withdraw, JoinRelay, Exchange,
     BrokenOff, ShakeTimeout, ShakeRefused, FindOffer, FindNothing, FallBack, ConnectLan, ConnectFails, DialRelay,
     GetPaired, StopDialing, DialedInVain, CancelDial, StrayArrives, vars
<1>3. at'["receiver"] = "failed" /\ conn'["receiver"] = "direct" => at'["sender"] = "failed"
  <2>1. at["sender"] = "failed" => at'["sender"] = "failed"
    BY DEF Next, SenderStep, ReceiverStep, RelayStep, Open, Dial, AcceptLan, AcceptFails,
       AcceptRelay, LoseRelay, StopAccepting, CancelAccept, Withdraw, JoinRelay, Exchange,
       BrokenOff, ShakeTimeout, ShakeRefused, FindOffer, FindNothing, FallBack, ConnectLan, ConnectFails,
       DialRelay, GetPaired, StopDialing, DialedInVain, CancelDial, StrayArrives, vars
  <2>2. CASE at'["receiver"] = at["receiver"] /\ conn'["receiver"] = conn["receiver"]
    BY <1>1, <2>1, <2>2 DEF FailuresInv
  <2>3. CASE BrokenOff("receiver")
    <3>1. \A c : ~Joined("direct", c)
      BY JoinedFacts
    <3>2. QED  BY <2>1, <2>3, <3>1 DEF BrokenOff, Closed, Peer
  <2>4. CASE Exchange("receiver")
    BY <1>1, <2>4 DEF Exchange
  <2>5. CASE \/ Dial \/ FindOffer \/ FindNothing \/ ConnectLan \/ ConnectFails
             \/ DialRelay \/ GetPaired \/ StopDialing \/ DialedInVain \/ CancelDial
    BY <2>5 DEF Dial, FindOffer, FindNothing, FallBack, ConnectLan, ConnectFails,
       DialRelay, GetPaired, StopDialing, DialedInVain, CancelDial
  <2>6. CASE SenderStep \/ Open \/ CancelAccept \/ StrayArrives \/ \E c \in Conns : RelayStep(c)
    <3>1. at'["receiver"] = at["receiver"] /\ conn'["receiver"] = conn["receiver"]
      BY <2>6 DEF SenderStep, RelayStep, Open, AcceptLan, AcceptFails,
         AcceptRelay, LoseRelay, StopAccepting, CancelAccept, Withdraw, JoinRelay, Exchange,
         BrokenOff, ShakeTimeout, ShakeRefused, StrayArrives
    <3>2. QED  BY <2>2, <3>1
  <2>7. QED
    BY <2>2, <2>3, <2>4, <2>5, <2>6 DEF Next, ReceiverStep, vars
<1>4. at'["receiver"] = "failed" /\ conn'["receiver"] = ReceiverConn => LinkLost'
  <2>1. CASE at["receiver"] = "failed" /\ conn'["receiver"] = ReceiverConn
    <3>1. conn["receiver"] = ReceiverConn /\ pc[ReceiverConn] # "new"
      BY <2>1 DEF ClosedInv, Next, SenderStep, ReceiverStep, RelayStep, Open, Dial, AcceptLan, AcceptFails,
         AcceptRelay, LoseRelay, StopAccepting, CancelAccept, Withdraw, JoinRelay, Exchange,
         BrokenOff, ShakeTimeout, ShakeRefused, FindOffer, FindNothing, FallBack, ConnectLan, ConnectFails,
         DialRelay, GetPaired, StopDialing, DialedInVain, CancelDial, StrayArrives, vars
    <3>2. ReceiverConn \notin hungup => ReceiverConn \notin hungup'
      <4>1. ASSUME NEW c \in Conns, RelayStep(c)  PROVE hungup' = hungup
        BY <4>1, RelayStepFacts
      <4>2. ASSUME NEW c, c # ReceiverConn, Close(c)
            PROVE  hungup' \subseteq hungup \cup {c}
        BY <4>2, CloseFacts
      <4>3. ASSUME NEW c \in SenderConns, JoinRelay(c)  PROVE hungup' = hungup
        BY <4>3, AcceptFacts DEF JoinRelay
      <4>4. sc # ReceiverConn /\ conn["sender"] # ReceiverConn
        OBVIOUS
      <4>5. CASE AcceptLan \/ AcceptFails \/ LoseRelay \/ StopAccepting \/ CancelAccept
        BY <4>2, <4>4, <4>5 DEF AcceptLan, AcceptFails, LoseRelay, StopAccepting, CancelAccept, Withdraw
      <4>6. CASE Exchange("sender") \/ BrokenOff("sender")
        BY <4>2, <4>4, <4>6 DEF Exchange, BrokenOff, relay
      <4>7. CASE Open \/ AcceptRelay \/ ShakeTimeout \/ ShakeRefused \/ StrayArrives \/ UNCHANGED vars
        BY <4>7 DEF Open, AcceptRelay, ShakeTimeout, ShakeRefused, StrayArrives, relay, vars
      <4>8. CASE Dial \/ ReceiverStep \/ CancelDial
        BY <2>1, <4>8 DEF Dial, ReceiverStep, CancelDial, FindOffer, FindNothing, ConnectLan,
           ConnectFails, DialRelay, GetPaired, StopDialing, DialedInVain, Exchange, BrokenOff
      <4>9. QED
        BY <4>1, <4>3, <4>5, <4>6, <4>7, <4>8 DEF Next, SenderStep
    <3>3. LinkLost
      BY <1>1, <2>1, <3>1 DEF FailuresInv
    <3>4. QED  BY <3>1, <3>2, <3>3, LinkStaysLost
  <2>2. CASE BrokenOff("receiver") /\ conn["receiver"] = ReceiverConn
    <3>1. ReceiverConn \notin hungup /\ pc[ReceiverConn] # "new"
      BY <2>2 DEF BrokenOff, ClosedInv
    <3>2. Close(ReceiverConn)
      BY <2>2 DEF BrokenOff
    <3>3. \/ \E c \in hungup : Joined(ReceiverConn, c)
          \/ ~R!SocketOpen(ReceiverConn)
      BY <2>2 DEF BrokenOff, Closed
    <3>4. ~R!SocketOpen(ReceiverConn) => hungup' = hungup
      BY <3>2 DEF Close, relay
    <3>5. QED
      BY <3>1, <3>3, <3>4, StepFacts, OnlyConnectingStarts DEF LinkLost
  <2>3. CASE at["receiver"] # "failed" /\ ~BrokenOff("receiver")
    <3>1. at'["receiver"] # "failed" \/ conn'["receiver"] = None
      BY <1>1, <2>3 DEF Next, SenderStep, ReceiverStep, RelayStep, Open, Dial, AcceptLan, AcceptFails,
         AcceptRelay, LoseRelay, StopAccepting, CancelAccept, Withdraw, JoinRelay, Exchange,
         BrokenOff, ShakeTimeout, ShakeRefused, FindOffer, FindNothing, FallBack, ConnectLan, ConnectFails,
         DialRelay, GetPaired, StopDialing, DialedInVain, CancelDial, StrayArrives, vars
    <3>2. QED  BY <3>1
  <2>4. QED
    BY <2>1, <2>2, <2>3 DEF BrokenOff
<1>5. QED  BY <1>2, <1>3, <1>4 DEF FailuresInv

-----------------------------------------------------------------------------
(* A meeting is mutual. *)

LinkInv == Clients /\ FailuresInv /\ ~cancelled /\ RP!Core /\ RP!PairsLast

(* A receiver that failed shares no connection with a sender in its handshake. *)
LEMMA FailedIsNotLinked ==
  ASSUME LinkInv, code = "same", at["receiver"] = "failed", at["sender"] \in InCall
  PROVE  ~Linked
<1> USE RendezvousAssumption
<1> USE DEF LinkInv, Clients, ClientTypes, InCall, Sides, Strangers, Conns
<1>1. ASSUME conn["sender"] = "direct", conn["receiver"] = "direct"
      PROVE  FALSE
  BY <1>1 DEF FailuresInv
<1>2. ASSUME Joined(conn["sender"], conn["receiver"])
      PROVE  FALSE
  <2>1. conn["sender"] \in SenderConns /\ conn["receiver"] = ReceiverConn
        /\ Joined(ReceiverConn, conn["sender"])
    BY <1>2, JoinedFacts
  <2>2. conn["sender"] \notin hungup
    BY DEF ClosedInv
  <2>3. LinkLost
    BY <2>1 DEF FailuresInv
  <2>4. \A e : Joined(ReceiverConn, e) => e = conn["sender"]
    BY <2>1, JoinedFacts
  <2>5. ReceiverConn \notin hungup => R!SocketOpen(ReceiverConn)
    BY <2>1, <2>2, JoinedIsOpen DEF ClosedInv
  <2>6. QED  BY <2>2, <2>3, <2>4, <2>5 DEF LinkLost
<1>3. QED  BY <1>1, <1>2 DEF Linked

(* Nor has a sender that failed written anything on one. *)
LEMMA FailedSenderIsNotLinked ==
  ASSUME LinkInv, code = "same", at["sender"] = "failed", sent["sender"] = 4
  PROVE  ~Linked
<1> USE RendezvousAssumption
<1>1. conn["sender"] \in {None} \cup Strangers
  BY DEF LinkInv, FailuresInv
<1>2. conn["sender"] \notin Conns \cup {"direct"}
  BY <1>1 DEF Conns, Strangers
<1>3. \A d : ~Joined(conn["sender"], d)
  BY <1>2, JoinedFacts DEF LinkInv
<1>4. QED  BY <1>2, <1>3 DEF Linked

\* The last message is written before its writer has met anybody, so the other
\* side can read it; until it has, nothing can break the connection.
LEMMA StepKeepsMeeting ==
  ASSUME LinkInv, LinkInv', MeetingIsMutual, [Next]_vars
  PROVE  MeetingIsMutual'
<1> USE RendezvousAssumption
<1> DEFINE Mutual(s) == /\ code = "same" /\ Linked
                        /\ sent[Peer(s)] = 4 /\ at[Peer(s)] \in InCall
<1>1. SUFFICES ASSUME NEW s \in Sides, at'[s] = "met"
               PROVE  Mutual(s)'
  BY DEF MeetingIsMutual, InCall
<1> DEFINE p == Peer(s)
<1>2. s # p /\ p \in Sides /\ Sides = {s, p} /\ Peer(p) = s
  BY DEF Peer, Sides
<1>3. \A t \in Sides : sent'[t] \in 0..4
  BY DEF LinkInv, Clients, ClientTypes
<1>4. ASSUME UNCHANGED conn, Linked
      PROVE  Linked'
  BY <1>4, StepFacts DEF Linked, LinkInv
<1>5. CASE at[s] = "met"
  <2>1. Mutual(s)
    BY <1>5 DEF MeetingIsMutual, InCall
  <2>2. sent[s] = 4 /\ Readable(p) = 4
    BY <1>2, <1>5, <2>1 DEF Readable, LinkInv, Clients, PlacesInv
  <2>3. at[p] \in InCall /\ conn[p] \notin Strangers /\ at[s] \in InCall
    BY <1>5, <1>2, <2>1, JoinedFacts DEF InCall, Linked, LinkInv, Strangers, Conns, Sides
  <2>4. ~BrokenOff(p) /\ ~BrokenOff(s) /\ ~ShakeTimeout /\ ~ShakeRefused
    BY <1>2, <1>5, <2>1, <2>2, <2>3 DEF BrokenOff, ShakeTimeout, ShakeRefused, Sides,
       Strangers, LinkInv, Clients, ClientTypes
  <2>5. ~Exchange(s)
    BY <1>5 DEF Exchange
  <2>6. CASE Exchange(p)
    <3>1. sent[p] = 4 /\ code = "same"
      BY <2>1
    <3>2. UNCHANGED <<code, conn, sent>> /\ at'[p] = "met"
      BY <1>2, <2>6, <3>1 DEF Exchange, GoTo, LinkInv, Clients, ClientTypes, given
    <3>3. QED  BY <1>4, <2>1, <3>2 DEF InCall
  <2>7. CASE UNCHANGED <<code, conn, sent>> /\ at'[p] = at[p]
    BY <1>4, <2>1, <2>7
  <2>8. QED
    BY <1>2, <2>3, <2>4, <2>5, <2>6, <2>7 DEF Next, SenderStep, ReceiverStep, RelayStep, Open,
       Dial, AcceptLan, AcceptFails,
       AcceptRelay, LoseRelay, StopAccepting, CancelAccept, Withdraw, JoinRelay,
       FindOffer, FindNothing, FallBack, ConnectLan, ConnectFails,
       DialRelay, GetPaired, StopDialing, DialedInVain, CancelDial, StrayArrives, vars, given, InCall, Sides
<1>6. CASE at[s] # "met"
  <2>1. Exchange(s)
    BY <1>1, <1>6 DEF Next, SenderStep, ReceiverStep, RelayStep, Open,
       Dial, AcceptLan, AcceptFails,
       AcceptRelay, LoseRelay, StopAccepting, CancelAccept, Withdraw, JoinRelay,
       FindOffer, FindNothing, FallBack, ConnectLan, ConnectFails, Exchange, BrokenOff, ShakeTimeout, ShakeRefused,
       DialRelay, GetPaired, StopDialing, DialedInVain, CancelDial, StrayArrives, vars, Sides, GoTo, Fail, Shake,
       LinkInv, Clients, ClientTypes
  <2>2. /\ sent[s] = 4 /\ code = "same" /\ Readable(s) >= 4
        /\ UNCHANGED <<code, conn, sent>> /\ at'[p] = at[p] /\ at[s] = "shaking"
    BY <1>1, <1>2, <2>1 DEF Exchange, GoTo, Fail, given, LinkInv, Clients, ClientTypes
  <2>3. Linked /\ sent[p] = 4
    BY <1>2, <2>2 DEF Readable, LinkInv, Clients, ClientTypes
  <2>4. at[p] # "failed"
    BY <1>2, <2>2, <2>3, FailedIsNotLinked, FailedSenderIsNotLinked DEF Sides, InCall, Peer
  <2>5. at[p] \in InCall
    BY <1>2, <2>3, <2>4 DEF LinkInv, Clients, PlacesInv
  <2>6. QED  BY <1>4, <2>2, <2>3, <2>5
<1>7. QED  BY <1>5, <1>6

-----------------------------------------------------------------------------
(* The theorems. *)

\* All of it holds at the start.
LEMMA StartsWell ==
  ASSUME Init
  PROVE  Clients /\ FailuresInv /\ OneRegistration /\ MeetingIsMutual
<1>1. Clients
  BY RendezvousAssumption DEF Init, Clients, ClientTypes, PlacesInv, ClosedInv, R!Init,
     SenderPlaces, ReceiverPlaces, InCall, Sides, Strangers, Conns
<1>2. FailuresInv /\ MeetingIsMutual
  BY DEF Init, FailuresInv, MeetingIsMutual, Sides
<1>3. OneRegistration
  BY DEF Init, OneRegistration, R!Init, Conns
<1>4. QED  BY <1>1, <1>2, <1>3

(***************************************************************************)
(* Of the sender's registrations at the relay only the one it uses is open,*)
(* however often it retries.  (net/mod.rs 232-275, app.rs 134-165)         *)
(***************************************************************************)
THEOREM OneRegistrationHolds == Spec => []OneRegistration
<1>1. Init => Clients /\ OneRegistration
  BY StartsWell
<1>2. RP!Core /\ Clients /\ OneRegistration /\ [Next]_vars => (Clients /\ OneRegistration)'
  BY StepKeepsTypes, StepKeepsClosed, StepKeepsRegistration DEF Clients
<1>3. QED  BY <1>1, <1>2, RelayKeepsCore, PTL DEF Spec

(***************************************************************************)
(* A side that has met shares connection and code with the other, which    *)
(* has confirmed its keys and has not failed.  (protocol/channel.rs 55-125)*)
(***************************************************************************)
THEOREM MeetingIsMutualHolds == Spec => []MeetingIsMutual
<1>1. Init => Clients /\ FailuresInv /\ MeetingIsMutual
  BY StartsWell
<1>2. RP!Core /\ Clients /\ FailuresInv /\ [Next]_vars => (Clients /\ FailuresInv)'
  BY StepKeepsTypes, StepKeepsClosed, StepKeepsFailures DEF Clients
<1>3. Clients /\ FailuresInv /\ RP!Core /\ RP!PairsLast => LinkInv
  BY DEF LinkInv, Clients, ClosedInv
<1>4. LinkInv /\ LinkInv' /\ MeetingIsMutual /\ [Next]_vars => MeetingIsMutual'
  BY StepKeepsMeeting
<1>5. QED  BY <1>1, <1>2, <1>3, <1>4, RelayKeepsCore, PTL DEF Spec

(* Strangers. *)

\* With a stranger nobody comes as far as to compare the codes, so nothing but
\* its silence or what it says out of turn ends the sender.
LEMMA StepKeepsStrangersOut ==
  ASSUME RP!Core, Clients, StrangersRetried, [Next]_vars
  PROVE  StrangersRetried'
<1> USE RendezvousAssumption
<1> USE DEF Clients, ClientTypes, PlacesInv, InCall, SenderPlaces, ReceiverPlaces,
            Sides, GoTo, Fail, Shake, StrangersRetried
<1>1. CASE Open \/ LoseRelay \/ StopAccepting \/ CancelAccept \/ AcceptFails
  BY <1>1 DEF Open, LoseRelay, StopAccepting, CancelAccept, AcceptFails, Withdraw
<1>2. CASE AcceptLan \/ AcceptRelay
  BY <1>2 DEF AcceptLan, AcceptRelay
<1>3. CASE Exchange("sender")
  <2>1. Linked \/ sent["sender"] = 0
    BY <1>3 DEF Exchange, Readable
  <2>2. conn["sender"] \notin Strangers
    BY <1>3, <2>1, JoinedFacts DEF Exchange, Linked, Strangers, Conns
  <2>3. QED  BY <1>3, <2>2 DEF Exchange
<1>4. CASE BrokenOff("sender") \/ ShakeTimeout \/ ShakeRefused
  BY <1>4 DEF BrokenOff, ShakeTimeout, ShakeRefused
<1>5. CASE \/ ReceiverStep \/ Dial \/ CancelDial \/ StrayArrives
           \/ \E c \in SenderConns : JoinRelay(c)
           \/ \E c \in Conns : RelayStep(c)
  <2>1. /\ conn'["sender"] = conn["sender"] /\ at'["sender"] = at["sender"]
        /\ sent'["sender"] = sent["sender"]
    BY <1>5 DEF ReceiverStep, Dial, CancelDial, StrayArrives, JoinRelay, RelayStep, FindOffer,
       FindNothing, FallBack, ConnectLan, ConnectFails, DialRelay, GetPaired, StopDialing,
       DialedInVain, Exchange, BrokenOff
  <2>2. QED  BY <2>1
<1>6. CASE UNCHANGED vars
  BY <1>6 DEF vars
<1>7. QED
  BY <1>1, <1>2, <1>3, <1>4, <1>5, <1>6 DEF Next, SenderStep

(***************************************************************************)
(* Of the strangers that the sender shakes hands with, however many there  *)
(* are and whatever they do, only those end it that keep silent or that    *)
(* say something is_retryable does not list: not one that leaves, that is  *)
(* not rusp or that has other versions.  (app.rs 140-153, 424-442)         *)
(***************************************************************************)
THEOREM StrangersAreRetried == Spec => []StrangersRetried
<1>1. Init => Clients /\ StrangersRetried
  BY StartsWell DEF Init, StrangersRetried, Sides
<1>2. RP!Core /\ Clients /\ StrangersRetried /\ [Next]_vars => (Clients /\ StrangersRetried)'
  BY StepKeepsTypes, StepKeepsClosed, StepKeepsStrangersOut DEF Clients
<1>3. QED  BY <1>1, <1>2, RelayKeepsCore, PTL DEF Spec

-----------------------------------------------------------------------------
(* Discovery: what a search knows, and how late it is. *)

Datagram == [room : BOOLEAN, host : {HostOf[s] : s \in Senders} \cup {"other"},
             port : {PortOf[s] : s \in Senders} \cup {0, 1}, at : Nat]

SearchTypes ==
  /\ now \in Nat /\ listenUntil \in Nat /\ wake \in Nat /\ rounds \in Nat
  /\ failedAt \in Nat /\ cancelAt \in Nat
  /\ state \in {"asking", "listening", "resting"} \cup Ended
  /\ inbox \in Seq(Datagram)

\* What is at the socket.
Unread == {inbox[i] : i \in 1..Len(inbox)}

Sorted == \A i, j \in 1..Len(inbox) : i <= j => inbox[i].at <= inbox[j].at

\* It came before.
Came(d) == d.at <= now

\* How late it can be in each state, with and without a cancellation.
Clock ==
  /\ cancelAt = Never \/ cancelAt <= now
  /\ now <= Patience + Backoff + 2 * Late
  /\ state = "asking" => /\ now <= Patience
                         /\ now <= cancelAt + Backoff + Late
  /\ state = "listening" => /\ listenUntil <= Patience
                            /\ now <= listenUntil + Late
                            /\ now <= cancelAt + Late
  /\ state = "resting" => /\ wake <= Patience + Late + Backoff
                          /\ now <= wake + Late
                          /\ wake <= now + Backoff
                          /\ wake <= cancelAt + Backoff

\* The time that the rounds so far take at least.
Spent == rounds * Backoff

\* A round is over a rest after it began, or has lasted longer.
RoundsTake ==
  /\ Spent <= now + Backoff
  /\ state = "asking" => Spent <= now
  /\ state = "listening" => listenUntil = Patience \/ Spent <= listenUntil
  /\ state = "resting" => Spent <= wake

\* An answer stays unread while the patience lasts; at rest it is no older
\* than the rest, unless receiving has failed.
Failed(d) == failedAt # Never /\ failedAt >= d.at
Fresh ==
  /\ state \in {"asking", "listening"} => now < Patience \/ \A d \in Unread : now <= d.at + Late
  /\ state = "resting" => \A d \in Unread : wake <= d.at + Backoff \/ Failed(d)
  /\ state = "timeout" => \A d \in Unread : Patience <= d.at + Backoff + 2 * Late \/ Failed(d)

SearchInv == SearchTypes /\ Sorted /\ (\A d \in Unread : Came(d)) /\ Clock /\ RoundsTake /\ Fresh

-----------------------------------------------------------------------------
(* The inbox. *)

LEMMA Times ==
  ASSUME DiscoveryAssumption
  PROVE  /\ Patience \in Nat /\ Interval \in Nat /\ Backoff \in Nat /\ Late \in Nat /\ MaxInbox \in Nat
         /\ Backoff <= Interval /\ Never \in Nat /\ Never = Patience + 4 * (Backoff + Late) + 1
BY DEF DiscoveryAssumption, Never

LEMMA UnreadTyped ==
  ASSUME SearchTypes
  PROVE  \A d \in Unread : d \in Datagram /\ d.at \in Nat
<1>1. \A d \in Unread : d \in Datagram
  BY DEF SearchTypes, Unread
<1>2. QED
  BY <1>1 DEF Datagram

LEMMA OneRead ==
  ASSUME SearchTypes, Sorted, inbox # <<>>, inbox' = Tail(inbox)
  PROVE  /\ inbox' \in Seq(Datagram) /\ Unread' \subseteq Unread
         /\ Sorted' /\ Head(inbox) \in Unread
<1>1. inbox \in Seq(Datagram) /\ Len(inbox) \in Nat /\ Len(inbox) >= 1
  BY DEF SearchTypes
<1>2. /\ inbox' \in Seq(Datagram) /\ Len(inbox') = Len(inbox) - 1
      /\ \A i \in 1..Len(inbox') : inbox'[i] = inbox[i + 1] /\ i + 1 \in 1..Len(inbox)
  BY <1>1
<1>3. Unread' \subseteq Unread
  BY <1>2 DEF Unread
<1>4. Sorted'
  BY <1>1, <1>2 DEF Sorted
<1>5. Head(inbox) \in Unread
  BY <1>1 DEF Unread
<1>6. QED
  BY <1>2, <1>3, <1>4, <1>5

LEMMA OneArrived ==
  ASSUME SearchTypes, Sorted, \A d \in Unread : d.at <= now,
         NEW d \in Datagram, d.at = now,
         inbox' = inbox \/ inbox' = Append(inbox, d)
  PROVE  inbox' \in Seq(Datagram) /\ Unread' \subseteq Unread \cup {d} /\ Sorted'
<1>1. inbox \in Seq(Datagram) /\ Len(inbox) \in Nat
  BY DEF SearchTypes
<1>2. CASE inbox' = inbox
  BY <1>1, <1>2 DEF Unread, Sorted
<1>3. CASE inbox' = Append(inbox, d)
  <2>1. /\ inbox' \in Seq(Datagram) /\ Len(inbox') = Len(inbox) + 1
        /\ \A i \in 1..Len(inbox) : inbox'[i] = inbox[i]
        /\ inbox'[Len(inbox) + 1] = d
    BY <1>1, <1>3
  <2>2. Unread' \subseteq Unread \cup {d}
    BY <1>1, <2>1 DEF Unread
  <2>3. Sorted'
    <3>1. ASSUME NEW i \in 1..Len(inbox'), NEW j \in 1..Len(inbox'), i <= j
          PROVE  inbox'[i].at <= inbox'[j].at
      <4>1. CASE j \in 1..Len(inbox)
        BY <1>1, <2>1, <3>1, <4>1 DEF Sorted
      <4>2. CASE j = Len(inbox) + 1 /\ i \in 1..Len(inbox)
        BY <1>1, <2>1, <4>2 DEF Unread
      <4>3. CASE j = Len(inbox) + 1 /\ i = Len(inbox) + 1
        <5>1. now \in Nat
          BY DEF SearchTypes
        <5>2. QED
          BY <2>1, <4>3, <5>1
      <4>4. QED
        BY <1>1, <2>1, <4>1, <4>2, <4>3
    <3>2. QED
      BY <3>1 DEF Sorted
  <2>4. QED
    BY <2>1, <2>2, <2>3
<1>4. QED
  BY <1>2, <1>3

\* Every step keeps what it does not touch.
LEMMA InboxUnread ==
  ASSUME UNCHANGED inbox
  PROVE  Unread' = Unread /\ (Sorted => Sorted')
BY DEF Unread, Sorted

LEMMA SearchStarts ==
  ASSUME DiscoveryAssumption, DiscoveryInit
  PROVE  SearchInv
<1>1. Unread = {}
  BY DEF DiscoveryInit, Unread
<1>2. SearchTypes /\ Sorted
  BY Times DEF DiscoveryInit, SearchTypes, Sorted
<1>3. Clock
  BY Times DEF DiscoveryInit, Clock
<1>4. RoundsTake
  BY Times DEF DiscoveryInit, RoundsTake, Spent
<1>5. QED
  BY <1>1, <1>2, <1>3, <1>4 DEF DiscoveryInit, SearchInv, Fresh

-----------------------------------------------------------------------------
(* The steps of find. *)

\* The end of a window, or of a rest that is over.
LEMMA NextRoundKeeps ==
  ASSUME DiscoveryAssumption, SearchInv, NextRound,
         UNCHANGED <<now, listenUntil, wake, rounds, failedAt, cancelAt, found>>,
         inbox' \in Seq(Datagram), Unread' \subseteq Unread, Sorted',
         Spent <= now, now <= cancelAt + Backoff + Late,
         now >= Patience => \A d \in Unread : Patience <= d.at + Backoff + 2 * Late \/ Failed(d)
  PROVE  SearchInv'
<1>1. /\ now \in Nat /\ cancelAt \in Nat /\ Patience \in Nat /\ Backoff \in Nat /\ Late \in Nat
  BY Times DEF SearchInv, SearchTypes
<1>2. \/ state' = "timeout" /\ now >= Patience
      \/ state' = "asking" /\ now < Patience
  BY <1>1 DEF NextRound
<1>3. SearchTypes'
  BY <1>2 DEF SearchInv, SearchTypes, Ended
<1>4. \A d \in Unread' : Came(d)'
  BY DEF SearchInv, Came
<1>5. Clock'
  BY <1>1, <1>2 DEF SearchInv, Clock
<1>6. RoundsTake'
  BY <1>2 DEF SearchInv, RoundsTake, Spent
<1>7. Fresh'
  BY <1>1, <1>2 DEF Fresh, Failed
<1>8. QED
  BY <1>3, <1>4, <1>5, <1>6, <1>7 DEF SearchInv

LEMMA AskKeeps ==
  ASSUME DiscoveryAssumption, SearchInv, Ask
  PROVE  SearchInv'
<1>1. /\ state = "asking" /\ cancelAt = Never
      /\ UNCHANGED <<now, wake, inbox, found, failedAt, cancelAt>>
  BY DEF Ask
<1>2. /\ now \in Nat /\ rounds \in Nat /\ Patience \in Nat /\ Backoff \in Nat /\ Late \in Nat
      /\ Interval \in Nat /\ Backoff <= Interval /\ now <= Patience /\ Spent <= now
      /\ Never = Patience + 4 * (Backoff + Late) + 1
  BY <1>1, Times DEF SearchInv, SearchTypes, Clock, RoundsTake
<1>3. Unread' = Unread /\ Sorted' /\ \A d \in Unread : Came(d)'
  BY <1>1, InboxUnread DEF SearchInv, Came
<1>4. CASE state' = "unsent" /\ UNCHANGED <<rounds, listenUntil>>
  <2>1. SearchTypes'
    BY <1>1, <1>4 DEF SearchInv, SearchTypes, Ended
  <2>2. Clock' /\ RoundsTake' /\ Fresh'
    BY <1>1, <1>4 DEF SearchInv, Clock, RoundsTake, Spent, Fresh
  <2>3. QED
    BY <1>3, <2>1, <2>2 DEF SearchInv
<1>5. CASE /\ state' = "listening" /\ rounds' = rounds + 1
           /\ listenUntil' = now + Least(Interval, Patience - now)
  <2>1. /\ listenUntil' \in Nat /\ listenUntil' <= Patience /\ now <= listenUntil'
        /\ listenUntil' = Patience \/ listenUntil' >= now + Backoff
    BY <1>2, <1>5 DEF Least
  <2>2. Spent' = Spent + Backoff /\ Spent \in Nat
    BY <1>2, <1>5 DEF Spent
  <2>3. SearchTypes'
    BY <1>1, <1>2, <1>5, <2>1 DEF SearchInv, SearchTypes
  <2>4. Clock'
    BY <1>1, <1>2, <1>5, <2>1 DEF SearchInv, Clock
  <2>5. RoundsTake'
    BY <1>1, <1>2, <1>5, <2>1, <2>2 DEF RoundsTake
  <2>6. Fresh'
    BY <1>1, <1>3, <1>5 DEF SearchInv, Fresh
  <2>7. QED
    BY <1>3, <2>3, <2>4, <2>5, <2>6 DEF SearchInv
<1>6. QED
  BY <1>4, <1>5 DEF Ask, EndSearch

LEMMA HearKeeps ==
  ASSUME DiscoveryAssumption, SearchInv, Hear
  PROVE  SearchInv'
<1> DEFINE d == Head(inbox)
<1>1. /\ state = "listening" /\ inbox # <<>> /\ cancelAt = Never /\ inbox' = Tail(inbox)
      /\ UNCHANGED <<now, listenUntil, wake, rounds, failedAt, cancelAt>>
  BY DEF Hear
<1>2. inbox' \in Seq(Datagram) /\ Unread' \subseteq Unread /\ Sorted' /\ d \in Unread
  BY <1>1, OneRead DEF SearchInv
<1>3. /\ now \in Nat /\ Patience \in Nat /\ Backoff \in Nat /\ Late \in Nat
      /\ cancelAt \in Nat /\ listenUntil \in Nat /\ Spent \in Nat
      /\ \A u \in Unread : u.at \in Nat
  BY Times, UnreadTyped DEF SearchInv, SearchTypes, Spent
<1>4. \A u \in Unread' : Came(u)'
  BY <1>1, <1>2 DEF SearchInv, Came
<1>5. CASE IsOffer(d)
  <2>1. state' = "found" /\ found' = <<d.host, d.port>>
    BY <1>5 DEF Hear, EndSearch
  <2>2. SearchTypes'
    BY <1>1, <1>2, <2>1 DEF SearchInv, SearchTypes, Ended
  <2>3. Clock' /\ RoundsTake' /\ Fresh'
    BY <1>1, <2>1 DEF SearchInv, Clock, RoundsTake, Spent, Fresh
  <2>4. QED
    BY <1>2, <1>4, <2>2, <2>3 DEF SearchInv
<1>6. CASE ~IsOffer(d) /\ now >= listenUntil
  <2>1. NextRound /\ found' = found
    BY <1>6 DEF Hear
  <2>2. CASE now < Patience
    <3>1. Spent <= now
      BY <1>1, <1>3, <1>6, <2>2 DEF SearchInv, RoundsTake
    <3>2. now <= cancelAt + Backoff + Late
      BY <1>1, <1>3 DEF SearchInv, Clock
    <3>3. QED
      BY <1>1, <1>2, <1>3, <2>1, <2>2, <3>1, <3>2, NextRoundKeeps
  <2>3. CASE now >= Patience
    <3>1. state' = "timeout"
      BY <2>1, <2>3 DEF NextRound
    <3>2. \A u \in Unread : Patience <= u.at + Backoff + 2 * Late
      BY <1>1, <1>3, <2>3 DEF SearchInv, Fresh
    <3>3. SearchTypes'
      BY <1>1, <1>2, <2>1, <3>1 DEF SearchInv, SearchTypes, Ended
    <3>4. Clock' /\ RoundsTake'
      BY <1>1, <3>1 DEF SearchInv, Clock, RoundsTake, Spent
    <3>5. Fresh'
      BY <1>2, <3>1, <3>2 DEF Fresh
    <3>6. QED
      BY <1>2, <1>4, <3>3, <3>4, <3>5 DEF SearchInv
  <2>4. QED
    BY <1>3, <2>2, <2>3
<1>7. CASE ~IsOffer(d) /\ ~(now >= listenUntil)
  <2>1. state' = state /\ found' = found
    BY <1>7 DEF Hear
  <2>2. SearchTypes'
    BY <1>1, <1>2, <2>1 DEF SearchInv, SearchTypes
  <2>3. Clock' /\ RoundsTake'
    BY <1>1, <2>1 DEF SearchInv, Clock, RoundsTake, Spent
  <2>4. Fresh'
    BY <1>1, <1>2, <2>1 DEF SearchInv, Fresh
  <2>5. QED
    BY <1>2, <1>4, <2>2, <2>3, <2>4 DEF SearchInv
<1>8. QED
  BY <1>5, <1>6, <1>7

\* A rest begins: WindowCloses and SocketFails.
LEMMA RestKeeps ==
  ASSUME DiscoveryAssumption, SearchInv, WindowCloses \/ SocketFails
  PROVE  SearchInv'
<1>1. /\ state = "listening" /\ cancelAt = Never /\ state' = "resting" /\ wake' = now + Backoff
      /\ UNCHANGED <<now, listenUntil, rounds, inbox, found, cancelAt>>
  BY DEF WindowCloses, SocketFails, Rest
<1>2. /\ now \in Nat /\ Patience \in Nat /\ Backoff \in Nat /\ Late \in Nat
      /\ cancelAt \in Nat /\ listenUntil \in Nat /\ Spent \in Nat /\ Never \in Nat
      /\ Never = Patience + 4 * (Backoff + Late) + 1
      /\ \A u \in Unread : u.at \in Nat
  BY Times, UnreadTyped DEF SearchInv, SearchTypes, Spent
<1>3. Unread' = Unread /\ Sorted' /\ \A d \in Unread : Came(d)'
  BY <1>1, InboxUnread DEF SearchInv, Came
<1>4. failedAt' \in Nat
  BY <1>2 DEF WindowCloses, SocketFails, SearchInv, SearchTypes
<1>5. SearchTypes'
  BY <1>1, <1>2, <1>4 DEF SearchInv, SearchTypes
<1>6. Clock'
  BY <1>1, <1>2 DEF SearchInv, Clock
<1>7. RoundsTake'
  BY <1>1, <1>2 DEF SearchInv, RoundsTake, Spent
<1>8. \A d \in Unread : Failed(d)'
  <2>1. CASE WindowCloses
    BY <2>1 DEF WindowCloses, Unread
  <2>2. CASE SocketFails
    <3>1. failedAt' = now /\ now # Never
      BY <1>2, <2>2 DEF SocketFails, SearchInv, Clock
    <3>2. QED
      BY <1>2, <3>1 DEF SearchInv, Came, Failed
  <2>3. QED
    BY <2>1, <2>2
<1>9. Fresh'
  BY <1>1, <1>3, <1>8 DEF Fresh
<1>10. QED
  BY <1>3, <1>5, <1>6, <1>7, <1>9 DEF SearchInv

LEMMA RestOverKeeps ==
  ASSUME DiscoveryAssumption, SearchInv, RestOver
  PROVE  SearchInv'
<1>1. /\ state = "resting" /\ now >= wake /\ NextRound
      /\ UNCHANGED <<now, listenUntil, wake, rounds, inbox, found, failedAt, cancelAt>>
  BY DEF RestOver
<1>2. /\ now \in Nat /\ Patience \in Nat /\ Backoff \in Nat /\ Late \in Nat /\ wake \in Nat
      /\ cancelAt \in Nat /\ Spent \in Nat /\ \A u \in Unread : u.at \in Nat
  BY Times, UnreadTyped DEF SearchInv, SearchTypes, Spent
<1>3. Unread' = Unread /\ Sorted' /\ inbox' \in Seq(Datagram)
  BY <1>1, InboxUnread DEF SearchInv, SearchTypes
<1>4. Spent <= now /\ now <= cancelAt + Backoff + Late
  BY <1>1, <1>2 DEF SearchInv, Clock, RoundsTake
<1>5. now >= Patience => \A d \in Unread : Patience <= d.at + Backoff + 2 * Late \/ Failed(d)
  <2>1. ASSUME now >= Patience, NEW d \in Unread, wake <= d.at + Backoff
        PROVE  Patience <= d.at + Backoff + 2 * Late
    BY <1>1, <1>2, <2>1 DEF SearchInv, Clock
  <2>2. QED
    BY <1>1, <2>1 DEF SearchInv, Fresh
<1>6. QED
  BY <1>1, <1>3, <1>4, <1>5, NextRoundKeeps

LEMMA CancelsKeep ==
  ASSUME DiscoveryAssumption, SearchInv, HeedCancel \/ Cancel
  PROVE  SearchInv'
<1>1. UNCHANGED <<now, listenUntil, wake, rounds, inbox, found, failedAt>>
  BY DEF HeedCancel, Cancel
<1>2. Unread' = Unread /\ Sorted' /\ \A d \in Unread : Came(d)'
  BY <1>1, InboxUnread DEF SearchInv, Came
<1>3. RoundsTake' /\ SearchTypes' /\ Clock' /\ Fresh'
  <2>1. CASE HeedCancel
    <3>1. state' = "cancelled" /\ cancelAt' = cancelAt
      BY <2>1 DEF HeedCancel, EndSearch
    <3>2. QED
      BY <1>1, <3>1 DEF SearchInv, SearchTypes, Clock, RoundsTake, Spent, Fresh, Ended
  <2>2. CASE Cancel
    <3>1. state' = state /\ cancelAt' = now
      BY <2>2 DEF Cancel
    <3>2. /\ now \in Nat /\ Patience \in Nat /\ Backoff \in Nat /\ Late \in Nat /\ wake \in Nat
      BY Times DEF SearchInv, SearchTypes
    <3>3. SearchTypes' /\ RoundsTake' /\ Fresh'
      BY <1>1, <1>2, <3>1 DEF SearchInv, SearchTypes, RoundsTake, Spent, Fresh, Failed
    <3>4. Clock'
      BY <1>1, <3>1, <3>2 DEF SearchInv, Clock
    <3>5. QED
      BY <3>3, <3>4
  <2>3. QED
    BY <2>1, <2>2
<1>4. QED
  BY <1>2, <1>3 DEF SearchInv

-----------------------------------------------------------------------------
(* The senders, the network, the clock. *)

\* A datagram may arrive, or not.
LEMMA ArriveKeeps ==
  ASSUME DiscoveryAssumption, SearchInv, state \notin Ended, NEW d \in Datagram, d.at = now,
         inbox' = inbox \/ inbox' = Append(inbox, d),
         UNCHANGED <<now, state, listenUntil, wake, rounds, found, failedAt, cancelAt>>
  PROVE  SearchInv'
<1>1. /\ now \in Nat /\ Patience \in Nat /\ Backoff \in Nat /\ Late \in Nat /\ wake \in Nat
  BY Times DEF SearchInv, SearchTypes
<1>2. inbox' \in Seq(Datagram) /\ Unread' \subseteq Unread \cup {d} /\ Sorted'
  BY OneArrived DEF SearchInv, Came
<1>3. SearchTypes'
  BY <1>2 DEF SearchInv, SearchTypes
<1>4. \A u \in Unread' : Came(u)'
  <2>1. Came(d)'
    BY <1>1 DEF Came
  <2>2. \A u \in Unread : Came(u)'
    BY DEF SearchInv, Came
  <2>3. QED
    BY <1>2, <2>1, <2>2
<1>5. Clock' /\ RoundsTake'
  BY DEF SearchInv, Clock, RoundsTake, Spent
<1>6. Fresh'
  <2>1. state \in {"asking", "listening"} => now <= d.at + Late
    BY <1>1
  <2>2. state = "resting" => wake <= d.at + Backoff
    BY DEF SearchInv, Clock
  <2>3. QED
    BY <1>2, <2>1, <2>2 DEF SearchInv, Fresh, Failed, Ended
<1>7. QED
  BY <1>2, <1>3, <1>4, <1>5, <1>6 DEF SearchInv

\* Nothing that find sees has changed.
LEMMA NothingKeeps ==
  ASSUME SearchInv, UNCHANGED <<now, state, listenUntil, wake, rounds, inbox, found, failedAt, cancelAt>>
  PROVE  SearchInv'
<1>1. Unread' = Unread /\ Sorted'
  BY InboxUnread DEF SearchInv
<1>2. SearchTypes' /\ Clock' /\ RoundsTake'
  BY DEF SearchInv, SearchTypes, Clock, RoundsTake, Spent
<1>3. Fresh' /\ \A u \in Unread' : Came(u)'
  BY <1>1 DEF SearchInv, Fresh, Failed, Came
<1>4. QED
  BY <1>1, <1>2, <1>3 DEF SearchInv

LEMMA TransportKeeps ==
  ASSUME DiscoveryAssumption, SearchInv, NEW s \in Senders, Transport(s)
  PROVE  SearchInv'
<1>1. CASE Arrive(Offer(s)) /\ state \notin Ended
  <2>1. Offer(s) \in Datagram /\ Offer(s).at = now
    BY DEF Offer, Datagram, SearchInv, SearchTypes
  <2>2. /\ inbox' = inbox \/ inbox' = Append(inbox, Offer(s))
        /\ UNCHANGED <<now, state, listenUntil, wake, rounds, found, failedAt, cancelAt>>
    BY <1>1 DEF Arrive, Searcher
  <2>3. QED
    BY <1>1, <2>1, <2>2, ArriveKeeps
<1>2. CASE UNCHANGED <<Searcher, inbox>>
  BY <1>2, NothingKeeps DEF Searcher
<1>3. QED
  BY <1>1, <1>2 DEF Transport

LEMMA InterfereKeeps ==
  ASSUME DiscoveryAssumption, SearchInv, StrayDatagram
  PROVE  SearchInv'
<1>1. PICK d \in Stray : Arrive(d)
  BY DEF StrayDatagram
<1>2. d \in Datagram /\ d.at = now
  BY DEF Stray, Datagram, SearchInv, SearchTypes
<1>3. /\ inbox' = inbox \/ inbox' = Append(inbox, d)
      /\ UNCHANGED <<now, state, listenUntil, wake, rounds, found, failedAt, cancelAt>>
  BY <1>1 DEF Arrive, Searcher
<1>4. QED
  BY <1>2, <1>3, ArriveKeeps DEF StrayDatagram

LEMMA TickKeeps ==
  ASSUME DiscoveryAssumption, SearchInv, Tick
  PROVE  SearchInv'
<1>1. /\ state \in {"listening", "resting"} /\ now < Due + Late /\ now' = now + 1
      /\ UNCHANGED <<state, listenUntil, wake, rounds, inbox, found, failedAt, cancelAt>>
  BY DEF Tick
<1>2. /\ now \in Nat /\ Patience \in Nat /\ Backoff \in Nat /\ Late \in Nat /\ wake \in Nat
      /\ cancelAt \in Nat /\ listenUntil \in Nat /\ Never \in Nat /\ Spent \in Nat
      /\ \A u \in Unread : u.at \in Nat
  BY Times, UnreadTyped DEF SearchInv, SearchTypes, Spent
<1>3. Unread' = Unread /\ Sorted'
  BY <1>1, InboxUnread DEF SearchInv
<1>4. \A d \in Unread : Came(d)'
  BY <1>1, <1>2 DEF SearchInv, Came
<1>5. SearchTypes'
  BY <1>1, <1>2 DEF SearchInv, SearchTypes
<1>6. state = "resting" => now' <= wake + Late
  BY <1>1, <1>2 DEF Due
<1>7. state = "listening" => /\ now' <= listenUntil + Late /\ now' <= cancelAt + Late
                            /\ \A d \in Unread : now' <= d.at + Late
  <2>1. CASE inbox = <<>>
    <3>1. Unread = {}
      BY <2>1 DEF Unread
    <3>2. state = "listening" => Due = Least(Least(listenUntil, cancelAt), Never)
      BY <2>1 DEF Due
    <3>3. QED
      BY <1>1, <1>2, <3>1, <3>2 DEF Least
  <2>2. CASE inbox # <<>>
    <3>1. inbox \in Seq(Datagram) /\ Len(inbox) \in Nat /\ Len(inbox) >= 1 /\ Head(inbox) = inbox[1]
      BY <2>2 DEF SearchInv, SearchTypes
    <3>2. Head(inbox) \in Unread /\ \A d \in Unread : Head(inbox).at <= d.at
      BY <3>1 DEF SearchInv, Sorted, Unread
    <3>3. state = "listening" => Due = Least(Least(listenUntil, cancelAt), Head(inbox).at)
      BY <2>2 DEF Due
    <3>4. Head(inbox).at \in Nat
      BY <1>2, <3>2
    <3>5. state = "listening" => now' <= listenUntil + Late /\ now' <= cancelAt + Late
                                  /\ now' <= Head(inbox).at + Late
      BY <1>1, <1>2, <3>3, <3>4 DEF Least
    <3>6. QED
      BY <1>1, <1>2, <3>2, <3>4, <3>5
  <2>3. QED
    BY <2>1, <2>2
<1>8. Clock'
  <2>1. cancelAt' = Never \/ cancelAt' <= now'
    BY <1>1, <1>2 DEF SearchInv, Clock
  <2>2. now' <= Patience + Backoff + 2 * Late
    BY <1>1, <1>2, <1>6, <1>7 DEF SearchInv, Clock
  <2>3. QED
    BY <1>1, <1>2, <1>6, <1>7, <2>1, <2>2 DEF SearchInv, Clock
<1>9. RoundsTake'
  <2>1. Spent' = Spent
    BY <1>1 DEF Spent
  <2>2. QED
    BY <1>1, <1>2, <2>1 DEF SearchInv, RoundsTake
<1>10. Fresh'
  BY <1>1, <1>3, <1>7 DEF SearchInv, Fresh, Failed
<1>11. QED
  BY <1>3, <1>4, <1>5, <1>8, <1>9, <1>10 DEF SearchInv

LEMMA SearchGoesOn ==
  ASSUME DiscoveryAssumption, SearchInv, [DiscoveryNext]_discoveryVars
  PROVE  SearchInv'
<1>1. CASE Ask \/ Hear \/ WindowCloses \/ SocketFails \/ RestOver \/ HeedCancel \/ Cancel
  BY <1>1, AskKeeps, HearKeeps, RestKeeps, RestOverKeeps, CancelsKeep
<1>2. ASSUME NEW s \in Senders, Answer(s) \/ Stop(s)
      PROVE  SearchInv'
  BY <1>2, NothingKeeps DEF Answer, Stop, Searcher
<1>3. ASSUME NEW s \in Senders, Transport(s)
      PROVE  SearchInv'
  BY <1>3, TransportKeeps
<1>4. CASE StrayDatagram \/ Tick
  BY <1>4, InterfereKeeps, TickKeeps
<1>5. CASE UNCHANGED discoveryVars
  BY <1>5, NothingKeeps DEF discoveryVars
<1>6. QED
  BY <1>1, <1>2, <1>3, <1>4, <1>5 DEF DiscoveryNext

\* A search is over one rest after its patience, and one rest after it was
\* cancelled, and asks at most once in that time.  (discovery.rs 187-242)
THEOREM SearchesKeepTime ==
  ASSUME DiscoveryAssumption
  PROVE  DiscoverySpec => []SearchKeepsTime
<1>1. DiscoveryInit => SearchInv
  BY SearchStarts
<1>2. SearchInv /\ [DiscoveryNext]_discoveryVars => SearchInv'
  BY SearchGoesOn
<1>3. SearchInv => SearchKeepsTime
  <2>1. ASSUME SearchInv PROVE SearchKeepsTime
    <3>1. /\ now \in Nat /\ Patience \in Nat /\ Backoff \in Nat /\ Late \in Nat /\ wake \in Nat
          /\ cancelAt \in Nat /\ listenUntil \in Nat
          /\ state \in {"asking", "listening", "resting"} \cup Ended
      BY <2>1, Times DEF SearchInv, SearchTypes
    <3>2. QED
      BY <2>1, <3>1 DEF SearchInv, Clock, RoundsTake, Spent, SearchKeepsTime
  <2>2. QED
    BY <2>1
<1>4. QED
  BY <1>1, <1>2, <1>3, PTL DEF DiscoverySpec

-----------------------------------------------------------------------------
(* Which offer is found. *)

Address(d) == <<d.host, d.port>>

\* The first offer that came in is the first that is unread, until it is read.
FirstUnread(i) == IsOffer(inbox[i]) /\ \A j \in 1..(i - 1) : ~IsOffer(inbox[j])
FirstInv ==
  IF state = "found"
    THEN found = first /\ first # Nowhere
    ELSE \/ first = Nowhere /\ \A i \in 1..Len(inbox) : ~IsOffer(inbox[i])
         \/ \E i \in 1..Len(inbox) : FirstUnread(i) /\ first = Address(inbox[i])

LEMMA HearFirst ==
  ASSUME SearchTypes, FirstInv, Hear
  PROVE  FirstInv'
<1>1. inbox \in Seq(Datagram) /\ Len(inbox) \in Nat /\ Len(inbox) >= 1 /\ Head(inbox) = inbox[1]
  BY DEF SearchTypes, Hear
<1>2. /\ Len(inbox') = Len(inbox) - 1
      /\ \A i \in 1..Len(inbox') : inbox'[i] = inbox[i + 1] /\ i + 1 \in 1..Len(inbox)
  BY <1>1 DEF Hear
<1>3. first' = first /\ state # "found"
  BY DEF Hear
<1>4. CASE IsOffer(Head(inbox))
  <2>1. state' = "found" /\ found' = Address(inbox[1])
    BY <1>1, <1>4 DEF Hear, EndSearch, Address
  <2>2. PICK i \in 1..Len(inbox) : FirstUnread(i) /\ first = Address(inbox[i])
    BY <1>1, <1>3, <1>4 DEF FirstInv
  <2>3. i = 1
    BY <1>1, <1>4, <2>2 DEF FirstUnread
  <2>4. Address(inbox[1]) # Nowhere
    BY <1>1, <1>4 DEF Address, Nowhere, IsOffer
  <2>5. QED
    BY <1>3, <2>1, <2>2, <2>3, <2>4 DEF FirstInv
<1>5. CASE ~IsOffer(Head(inbox))
  <2>1. state' # "found"
    BY <1>3, <1>5 DEF Hear, NextRound
  <2>2. CASE first = Nowhere /\ \A i \in 1..Len(inbox) : ~IsOffer(inbox[i])
    <3>1. \A i \in 1..Len(inbox') : ~IsOffer(inbox'[i])
      BY <1>2, <2>2
    <3>2. QED
      BY <1>3, <2>1, <2>2, <3>1 DEF FirstInv, IsOffer
  <2>3. ASSUME NEW i \in 1..Len(inbox), FirstUnread(i), first = Address(inbox[i])
        PROVE  FirstInv'
    <3>1. i # 1
      BY <1>1, <1>5, <2>3 DEF FirstUnread
    <3>2. i - 1 \in 1..Len(inbox') /\ inbox'[i - 1] = inbox[i]
      BY <1>1, <1>2, <3>1
    <3>3. ASSUME NEW j \in 1..((i - 1) - 1)
          PROVE  ~IsOffer(inbox'[j])
      <4>1. j \in 1..Len(inbox') /\ j + 1 \in 1..(i - 1)
        BY <1>1, <1>2, <3>3
      <4>2. QED
        BY <1>2, <2>3, <4>1 DEF FirstUnread
    <3>4. FirstUnread(i - 1)'
      BY <2>3, <3>2, <3>3 DEF FirstUnread, IsOffer
    <3>5. first' = Address(inbox'[i - 1])
      BY <1>3, <2>3, <3>2
    <3>6. QED
      BY <2>1, <3>2, <3>4, <3>5 DEF FirstInv, Address
  <2>4. QED
    BY <1>3, <2>2, <2>3 DEF FirstInv
<1>6. QED
  BY <1>4, <1>5

LEMMA ArriveFirst ==
  ASSUME SearchTypes, FirstInv, state \notin Ended, NEW d, Arrive(d)
  PROVE  FirstInv'
<1>1. inbox \in Seq(Datagram) /\ Len(inbox) \in Nat
  BY DEF SearchTypes
<1>2. state' = state /\ found' = found /\ state # "found"
  BY DEF Arrive, Searcher, Ended
<1>3. CASE UNCHANGED <<inbox, first>>
  BY <1>2, <1>3 DEF FirstInv, FirstUnread, Address, IsOffer
<1>4. CASE /\ inbox' = Append(inbox, d)
           /\ first' = IF IsOffer(d) /\ first = Nowhere THEN Address(d) ELSE first
  <2>1. /\ Len(inbox') = Len(inbox) + 1
        /\ \A i \in 1..Len(inbox) : inbox'[i] = inbox[i]
        /\ inbox'[Len(inbox) + 1] = d
    BY <1>1, <1>4
  <2>2. CASE first = Nowhere /\ \A i \in 1..Len(inbox) : ~IsOffer(inbox[i])
    <3>1. \A i \in 1..Len(inbox') : IsOffer(inbox'[i]) => i = Len(inbox) + 1
      BY <1>1, <2>1, <2>2
    <3>2. CASE IsOffer(d)
      <4>1. Len(inbox) + 1 \in 1..Len(inbox') /\ inbox'[Len(inbox) + 1] = d
        BY <1>1, <2>1
      <4>2. \A j \in 1..((Len(inbox) + 1) - 1) : ~IsOffer(inbox'[j])
        BY <1>1, <2>1, <2>2
      <4>3. \E i \in 1..Len(inbox') : /\ IsOffer(inbox'[i])
                                      /\ \A j \in 1..(i - 1) : ~IsOffer(inbox'[j])
                                      /\ first' = Address(inbox'[i])
        BY <1>4, <2>2, <3>2, <4>1, <4>2
      <4>4. QED
        BY <1>2, <4>3 DEF FirstInv, FirstUnread, Address, IsOffer
    <3>3. CASE ~IsOffer(d)
      <4>1. first' = Nowhere /\ \A i \in 1..Len(inbox') : ~IsOffer(inbox'[i])
        BY <1>4, <2>1, <2>2, <3>1, <3>3
      <4>2. QED
        BY <1>2, <4>1 DEF FirstInv, IsOffer, Nowhere
    <3>4. QED
      BY <3>2, <3>3
  <2>3. ASSUME NEW i \in 1..Len(inbox), FirstUnread(i), first = Address(inbox[i])
        PROVE  FirstInv'
    <3>1. first # Nowhere
      BY <1>1, <2>3 DEF FirstUnread, IsOffer, Address, Nowhere
    <3>2. i \in 1..Len(inbox') /\ inbox'[i] = inbox[i] /\ first' = first
      BY <1>1, <1>4, <2>1, <3>1
    <3>3. \A j \in 1..(i - 1) : inbox'[j] = inbox[j]
      BY <1>1, <2>1
    <3>4. /\ IsOffer(inbox'[i]) /\ first' = Address(inbox'[i])
          /\ \A j \in 1..(i - 1) : ~IsOffer(inbox'[j])
      BY <2>3, <3>2, <3>3 DEF FirstUnread
    <3>5. QED
      BY <1>2, <3>2, <3>4 DEF FirstInv, FirstUnread, Address, IsOffer
  <2>4. QED
    BY <1>2, <2>2, <2>3 DEF FirstInv
<1>5. QED
  BY <1>3, <1>4 DEF Arrive, Address

LEMMA FirstKept ==
  ASSUME SearchTypes, FirstInv, [DiscoveryNext]_discoveryVars
  PROVE  FirstInv'
<1>1. ASSUME UNCHANGED <<inbox, first, found>>, state' = state \/ (state \notin Ended /\ state' # "found")
      PROVE  FirstInv'
  BY <1>1 DEF FirstInv, FirstUnread, Address, IsOffer, Ended
<1>2. CASE Hear
  BY <1>2, HearFirst
<1>3. CASE \/ Ask \/ WindowCloses \/ SocketFails \/ RestOver \/ HeedCancel \/ Cancel \/ Tick
  BY <1>1, <1>3 DEF Ask, WindowCloses, SocketFails, RestOver, HeedCancel, Cancel, Tick, Rest,
     NextRound, EndSearch, Ended
<1>4. ASSUME NEW s \in Senders, Answer(s) \/ Stop(s)
      PROVE  FirstInv'
  BY <1>1, <1>4 DEF Answer, Stop, Searcher
<1>5. ASSUME NEW s \in Senders, Transport(s)
      PROVE  FirstInv'
  BY <1>1, <1>5, ArriveFirst DEF Transport, Searcher
<1>6. CASE StrayDatagram
  BY <1>6, ArriveFirst DEF StrayDatagram
<1>7. CASE UNCHANGED discoveryVars
  BY <1>1, <1>7 DEF discoveryVars
<1>8. QED
  BY <1>2, <1>3, <1>4, <1>5, <1>6, <1>7 DEF DiscoveryNext

\* What is found is the first offer of the room that came in, a sender's or a
\* forger's, and an answer that was there in time is found, unless a receive
\* failed after it, for any times, senders and traffic.  (discovery.rs 19-23,
\* 206-242)
THEOREM AnswersAreFound ==
  ASSUME DiscoveryAssumption
  PROVE  DiscoverySpec => []HeardIsFound
<1>1. DiscoveryInit => SearchInv /\ FirstInv
  BY SearchStarts DEF DiscoveryInit, FirstInv
<1>2. SearchInv /\ FirstInv /\ [DiscoveryNext]_discoveryVars => (SearchInv /\ FirstInv)'
  BY SearchGoesOn, FirstKept DEF SearchInv
<1>3. SearchInv /\ FirstInv => HeardIsFound
  <2>1. ASSUME SearchInv, FirstInv PROVE HeardIsFound
    <3>1. state = "timeout" => \A d \in Unread : Patience <= d.at + Backoff + 2 * Late \/ Failed(d)
      BY <2>1 DEF SearchInv, Fresh
    <3>2. \A i \in 1..Len(inbox) : inbox[i] \in Unread
      BY DEF Unread
    <3>3. Patience \in Nat /\ Backoff \in Nat /\ Late \in Nat /\ \A d \in Unread : d.at \in Nat
      BY <2>1, Times, UnreadTyped DEF SearchInv
    <3>4. QED
      BY <2>1, <3>1, <3>2, <3>3 DEF FirstInv, Failed, HeardIsFound
  <2>2. QED
    BY <2>1
<1>4. QED
  BY <1>1, <1>2, <1>3, PTL DEF DiscoverySpec

=============================================================================
