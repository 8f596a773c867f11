---------------------------- MODULE FileTransfer ----------------------------
(***************************************************************************)
(* What one transfer promises the two users.  The receiver chooses files,  *)
(* files arrive whole and one at a time, the receiver reports success only *)
(* when everything it chose has arrived, and the sender only after the     *)
(* receiver did.  Either side may fail at any moment, and a side that has  *)
(* reported says nothing else.  Transfer implements this specification.    *)
(***************************************************************************)
CONSTANT Files

VARIABLES
  chosen,     \* the files it chose
  delivered,  \* the files that arrived, in their final place
  receiver,   \* what the receiver reports: "busy", "ok" or "failed"
  sender      \* what the sender reports

vars == <<chosen, delivered, receiver, sender>>

Init ==
  /\ chosen = {}
  /\ delivered = {}
  /\ receiver = "busy"
  /\ sender = "busy"

Choose(w) ==
  /\ receiver = "busy" /\ chosen = {}
  /\ chosen' = w
  /\ UNCHANGED <<delivered, receiver, sender>>

Deliver(f) ==
  /\ receiver = "busy"
  /\ f \in chosen \ delivered
  /\ delivered' = delivered \cup {f}
  /\ UNCHANGED <<chosen, receiver, sender>>

ReceiverSucceeds ==
  /\ receiver = "busy"
  /\ delivered = chosen
  /\ receiver' = "ok"
  /\ UNCHANGED <<chosen, delivered, sender>>

ReceiverFails ==
  /\ receiver = "busy"
  /\ receiver' = "failed"
  /\ UNCHANGED <<chosen, delivered, sender>>

SenderSucceeds ==
  /\ sender = "busy"
  /\ receiver = "ok"
  /\ sender' = "ok"
  /\ UNCHANGED <<chosen, delivered, receiver>>

SenderFails ==
  /\ sender = "busy"
  /\ sender' = "failed"
  /\ UNCHANGED <<chosen, delivered, receiver>>

Next ==
  \/ \E w \in SUBSET Files : Choose(w)
  \/ \E f \in Files : Deliver(f)
  \/ ReceiverSucceeds \/ ReceiverFails \/ SenderSucceeds \/ SenderFails

Spec == Init /\ [][Next]_vars
=============================================================================
