----------------------------- MODULE Discovery -----------------------------
(***************************************************************************)
(* Finding a sender on the local network: find and serve of                *)
(* src/net/discovery.rs.  The receiver asks in rounds, listens for a       *)
(* while, backs off, and gives up when its patience is over; each sender   *)
(* answers queries for its room.  Datagrams are lost, late, repeated,      *)
(* somebody else's or forged, sockets fail at any moment, and a program    *)
(* that could run may do so up to Late moments later.                      *)
(***************************************************************************)
EXTENDS Naturals, Sequences, Bounds

CONSTANTS
  Senders, SameRoom,   \* who serves, and which of them the room that is sought
  HostOf, PortOf,      \* where each of them can be reached
  Patience, Interval, Backoff,  \* patience, QUERY_INTERVAL, ERROR_BACKOFF
  Late,                \* how long a program may take to notice
  MaxInbox             \* how many datagrams a socket keeps

\* A round takes longer than the rest after a failure.
DiscoveryAssumption ==
  /\ SameRoom \subseteq Senders
  /\ {Patience, Interval, Backoff, Late, MaxInbox} \subseteq Nat
  /\ Backoff <= Interval

VARIABLES
  now,          \* the time since find was called
  state,        \* "asking", "listening", "resting", or how find ended
  listenUntil,  \* when the window closes
  wake,         \* when the rest is over
  rounds,       \* how often it has asked
  inbox,        \* the datagrams at its socket, with their time of arrival
  first,        \* the address in the first offer that came in (history)
  found,        \* the address it returns
  failedAt,     \* when receiving last failed, Never before
  cancelAt,     \* when it was cancelled, Never before
  serving,      \* the senders that still serve
  asked,        \* the senders with a query at their socket
  answers       \* the senders whose offer is on its way

discoveryVars == <<now, state, listenUntil, wake, rounds, inbox, first, found, failedAt,
          cancelAt, serving, asked, answers>>

Never == Patience + 4 * (Backoff + Late) + 1
Nowhere == <<"none", 0>>
Ended == {"found", "timeout", "unsent", "cancelled"}

Offer(s) == [room |-> s \in SameRoom, host |-> HostOf[s], port |-> PortOf[s], at |-> now]

\* What others send: offers of other rooms or with a port nobody listens on,
\* noise, and answers that are forged.
Stray == {d \in [room : BOOLEAN, host : {"other"}, port : {0, 1}, at : {now}] :
            d.room \/ d.port # 0}

DiscoveryInit ==
  /\ now = 0 /\ state = "asking" /\ listenUntil = 0 /\ wake = 0 /\ rounds = 0
  /\ inbox = <<>> /\ first = Nowhere /\ found = Nowhere /\ failedAt = Never /\ cancelAt = Never
  /\ serving = Senders
  /\ asked = {} /\ answers = {}

Network == <<serving, asked, answers>>

-----------------------------------------------------------------------------
(* find *)

EndSearch(how) == state' = how

\* The three targets are tried; whom a query reaches is up to the network,
\* and when no target can be sent to the search is over.
Ask ==
  /\ state = "asking" /\ cancelAt = Never
  /\ \/ /\ \E reached \in SUBSET Senders : asked' = asked \cup reached
        /\ rounds' = rounds + 1
        /\ LET window == Least(Interval, Patience - now)
           IN  listenUntil' = now + window
        /\ state' = "listening"
     \/ EndSearch("unsent") /\ UNCHANGED <<asked, rounds, listenUntil>>
  /\ UNCHANGED <<now, wake, inbox, first, found, failedAt, cancelAt, serving, answers>>

\* After a window: the next round, or the end. A round is never begun late.
NextRound == state' = IF now >= Patience THEN "timeout" ELSE "asking"

IsOffer(d) == d.room /\ d.port # 0

\* What is no offer for this room is passed over, and the window looked at.
Hear ==
  /\ state = "listening" /\ inbox # <<>> /\ cancelAt = Never
  /\ inbox' = Tail(inbox)
  /\ LET d == Head(inbox)
     IN  IF IsOffer(d) THEN EndSearch("found") /\ found' = <<d.host, d.port>>
         ELSE /\ IF now >= listenUntil THEN NextRound ELSE UNCHANGED state
              /\ UNCHANGED found
  /\ UNCHANGED <<now, listenUntil, wake, rounds, first, failedAt, cancelAt, Network>>

\* Mutant of Rest: a socket that fails is asked again at once.
RestNot == NextRound /\ UNCHANGED wake

Rest == state' = "resting" /\ wake' = now + Backoff

\* The timeout loses against a datagram that is there.
WindowCloses ==
  /\ state = "listening" /\ now >= listenUntil /\ inbox = <<>> /\ cancelAt = Never
  /\ Rest
  /\ UNCHANGED <<now, listenUntil, rounds, inbox, first, found, failedAt, cancelAt, Network>>

SocketFails ==
  /\ state = "listening" /\ cancelAt = Never
  /\ Rest /\ failedAt' = now
  /\ UNCHANGED <<now, listenUntil, rounds, inbox, first, found, cancelAt, Network>>

\* Mutant of RestOver: after every rest the search is over.
RestEnds ==
  /\ state = "resting" /\ now >= wake
  /\ EndSearch("timeout")
  /\ UNCHANGED <<now, listenUntil, wake, rounds, inbox, first, found, failedAt, cancelAt, Network>>

RestOver ==
  /\ state = "resting" /\ now >= wake
  /\ NextRound
  /\ UNCHANGED <<now, listenUntil, wake, rounds, inbox, first, found, failedAt, cancelAt, Network>>

\* Cancellation is seen before a round and while listening, not at rest.
HeedCancel ==
  /\ state \in {"asking", "listening"} /\ cancelAt # Never
  /\ EndSearch("cancelled")
  /\ UNCHANGED <<now, listenUntil, wake, rounds, inbox, first, found, failedAt, cancelAt, Network>>

Cancel ==
  /\ state \notin Ended /\ cancelAt = Never
  /\ cancelAt' = now
  /\ UNCHANGED <<now, state, listenUntil, wake, rounds, inbox, first, found, failedAt, Network>>

-----------------------------------------------------------------------------
(* serve *)
Searcher == <<now, state, listenUntil, wake, rounds, found, failedAt, cancelAt>>

\* Queries for another room are not answered; a lost answer is not noticed.
\* After a failed receive serve rests too, which only delays it.
Answer(s) ==
  /\ s \in serving /\ s \in asked
  /\ asked' = asked \ {s}
  /\ answers' = IF s \in SameRoom THEN answers \cup {s} ELSE answers
  /\ UNCHANGED <<Searcher, inbox, first, serving>>

\* Cancelled, or taken over by the connection of another receiver.
Stop(s) ==
  /\ s \in serving
  /\ serving' = serving \ {s}
  /\ UNCHANGED <<Searcher, inbox, first, asked, answers>>

-----------------------------------------------------------------------------
(* The network and the clock. *)

\* A full socket drops what arrives.
Arrive(d) ==
  /\ IF Len(inbox) < MaxInbox
       THEN /\ inbox' = Append(inbox, d)
            /\ first' = IF IsOffer(d) /\ first = Nowhere THEN <<d.host, d.port>> ELSE first
       ELSE UNCHANGED <<inbox, first>>
  /\ UNCHANGED <<Searcher, serving, asked>>

\* An answer arrives, and may arrive again, or is lost.
Transport(s) ==
  /\ s \in answers /\ state \notin Ended
  /\ \/ Arrive(Offer(s)) /\ answers' \in {answers, answers \ {s}}
     \/ answers' = answers \ {s} /\ UNCHANGED <<Searcher, inbox, first, serving, asked>>

StrayDatagram ==
  /\ state \notin Ended
  /\ \E d \in Stray : Arrive(d)
  /\ UNCHANGED answers

\* When a waiting find has something to do.
Due == IF state = "resting" THEN wake
       ELSE Least(Least(listenUntil, cancelAt), IF inbox = <<>> THEN Never ELSE Head(inbox).at)

Tick ==
  /\ state \in {"listening", "resting"}
  /\ now < Due + Late
  /\ now' = now + 1
  /\ UNCHANGED <<state, listenUntil, wake, rounds, inbox, first, found, failedAt, cancelAt, Network>>

DiscoveryNext ==
  \/ Ask \/ Hear \/ WindowCloses \/ SocketFails \/ RestOver \/ HeedCancel \/ Cancel
  \/ \E s \in Senders : Answer(s) \/ Stop(s) \/ Transport(s)
  \/ StrayDatagram \/ Tick

DiscoverySpec == DiscoveryInit /\ [][DiscoveryNext]_discoveryVars

-----------------------------------------------------------------------------
\* The search ends in time, one rest after its patience at the latest, and as
\* soon after a cancellation; and however sockets fail, it asks no faster than
\* once in ERROR_BACKOFF, so it cannot starve what runs beside it.
SearchKeepsTime ==
  /\ state \notin Ended => /\ now <= Patience + Backoff + 2 * Late
                           /\ now <= cancelAt + Backoff + 2 * Late
  /\ rounds * Backoff <= now + Backoff

\* What find returns is in the first offer of this room that came in, so a
\* forger takes the place of a sender only by answering before it does; and an
\* answer that has arrived is found: one that is still unread when the
\* patience is over has come during the last rest, or before a receive failed.
\* (discovery.rs 19-23, 206-242)
HeardIsFound ==
  /\ state = "found" => found = first /\ first # Nowhere
  /\ state = "timeout" => \A i \in 1..Len(inbox) : IsOffer(inbox[i]) =>
       \/ inbox[i].at + Backoff + 2 * Late >= Patience
       \/ failedAt # Never /\ failedAt >= inbox[i].at
=============================================================================
