---------------------------- MODULE FrameStream ----------------------------
(***************************************************************************)
(* What a framed connection promises its reader: the messages that were    *)
(* sent, whole and in order, and an end.  A connection that ends "closed"  *)
(* has delivered everything that was sent; one that is "broken" may have   *)
(* lost the last of it.  Framing implements this specification.            *)
(***************************************************************************)
EXTENDS Naturals, Sequences

CONSTANT Messages

VARIABLES
  sent,   \* the messages sent, in order
  got,    \* the messages delivered
  end     \* how the reader's connection ended: "open", "closed" or "broken"

vars == <<sent, got, end>>

Init == sent = <<>> /\ got = <<>> /\ end = "open"

\* One message more, whichever it is.
Send ==
  /\ sent' \in Seq(Messages)
  /\ Len(sent') = Len(sent) + 1 /\ SubSeq(sent', 1, Len(sent)) = sent
  /\ UNCHANGED <<got, end>>

Deliver ==
  /\ end = "open" /\ Len(got) < Len(sent)
  /\ got' = Append(got, sent[Len(got) + 1])
  /\ UNCHANGED <<sent, end>>

Close == end = "open" /\ got = sent /\ end' = "closed" /\ UNCHANGED <<sent, got>>

Break == end = "open" /\ end' = "broken" /\ UNCHANGED <<sent, got>>

Next == Send \/ Deliver \/ Close \/ Break

Spec == Init /\ [][Next]_vars
=============================================================================
