----------------------------- MODULE Matchmaker -----------------------------
(***************************************************************************)
(* What the relay promises, with none of its machinery: a connection names *)
(* a room at most once, and two connections that named the same room may   *)
(* be married, for good and to nobody else.  Nobody is ever moved to       *)
(* another room or given a second partner.  RelayServer implements this    *)
(* specification.                                                          *)
(***************************************************************************)
CONSTANTS
  Conns,      \* connections the relay may accept
  RoomNames,  \* names a room can have
  None        \* no room, no partner

VARIABLES
  topic,  \* topic[c]: the room c named, or None
  mate    \* mate[c]: the connection c's bytes are copied to, or None

vars == <<topic, mate>>

Init ==
  /\ topic = [c \in Conns |-> None]
  /\ mate  = [c \in Conns |-> None]

Name(c, r) ==
  /\ topic[c] = None
  /\ topic' = [topic EXCEPT ![c] = r]
  /\ UNCHANGED mate

Marry(a, b) ==
  /\ a # b
  /\ topic[a] = topic[b]
  /\ topic[a] # None
  /\ mate[a] = None
  /\ mate[b] = None
  /\ mate' = [mate EXCEPT ![a] = b, ![b] = a]
  /\ UNCHANGED topic

Next ==
  \/ \E c \in Conns, r \in RoomNames : Name(c, r)
  \/ \E a, b \in Conns : Marry(a, b)

Spec == Init /\ [][Next]_vars
=============================================================================
