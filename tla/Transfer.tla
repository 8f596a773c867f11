------------------------------ MODULE Transfer ------------------------------
(***************************************************************************)
(* One transfer over an established secure channel: the sender of          *)
(* src/transfer/sender.rs with the end of app::send, the receiver of       *)
(* src/transfer/receiver.rs with the end of app::receive, and the TCP      *)
(* connection between them, which keeps order, has finite buffers, can     *)
(* break, and may forget what it carries when an end closes its socket     *)
(* with data unread.                                                       *)
(*                                                                         *)
(* A step is what one side does between two awaits.  File data is counted  *)
(* in chunks; the bytes are not modelled, so a hash always matches.        *)
(***************************************************************************)
EXTENDS Integers, Sequences, FiniteSets

CONSTANTS
  Files,     \* manifest indices of files, in the order they are sent
  Dirs,      \* manifest indices of directories
  MaxChunks, \* largest file, in chunks
  Window,    \* frames the connection holds towards the receiver
  Faults     \* what may go wrong besides the two programs

(* large: the manifest does not fit one frame. source, disk: files of either *)
(* side cannot be read or written. break: the connection is reset.           *)
AllFaults == {"cancel", "quit", "large", "source", "disk", "break"}

ASSUME TransferAssumption ==
  /\ Files \subseteq Nat /\ IsFiniteSet(Files)
  /\ Dirs \subseteq Nat /\ IsFiniteSet(Dirs) /\ Files \cap Dirs = {}
  /\ MaxChunks \in Nat
  /\ Window \in Nat \ {0}
  /\ Faults \subseteq AllFaults

VARIABLES
  size,       \* size[f]: chunks of f in the manifest, Entry::size
  spc,        \* where send() is
  todo,       \* the rest of `wanted` in send()
  offset,     \* chunks of the current file sent
  sent,       \* sent[f]: chunks announced in f's FileEnd, Absent before
  rpc,        \* where the receiver is
  plan,       \* Plan::wanted
  current,    \* Active::index, Absent when no file is being written
  received,   \* Active::received
  partfile,   \* is there a .rusp-part file on disk
  committed,  \* committed[f]: chunks under f's final name, or Absent
  failure,    \* why the receiver failed
  s2r, r2s,   \* the two directions of the connection
  broken,     \* the connection is reset
  cancelled   \* the sides whose user pressed Ctrl+C

svars == <<spc, todo, offset, sent>>
rvars == <<rpc, plan, current, received, partfile, committed, failure>>
net   == <<s2r, r2s, broken>>
vars  == <<size, svars, rvars, net, cancelled>>

-----------------------------------------------------------------------------
Absent == -1
Ended  == {"ok", "failed"}
Sides  == {"sender", "receiver"}

SenderEnded   == spc \in Ended
ReceiverEnded == rpc \in Ended

\* Messages: ControlMessage and file data. An index is a manifest index.
Plain(kind)    == [kind |-> kind]
Accepting(w)   == [kind |-> "Accept", wanted |-> w]
FileStart(f)   == [kind |-> "FileStart", index |-> f]
Data(n)        == [kind |-> "Data", offset |-> n]
FileEnd(f, n)  == [kind |-> "FileEnd", index |-> f, size |-> n]

\* The indices of a selection go up, as plan_for builds it.
First(w) == CHOOSE i \in w : \A j \in w : i <= j

(***************************************************************************)
(* Sending to a peer that has closed its socket is accepted by the kernel  *)
(* once, answered by a reset, and an error from then on.  A reset may      *)
(* destroy what was not read yet.                                          *)
(***************************************************************************)
SenderSends(m, next) ==
  \/ /\ ~broken /\ ~ReceiverEnded
     /\ Len(s2r) < Window
     /\ s2r' = Append(s2r, m)
     /\ spc' = next
     /\ UNCHANGED <<r2s, broken>>
  \/ /\ ~broken /\ ReceiverEnded
     /\ broken' = TRUE
     /\ r2s' \in {r2s, <<>>}
     /\ spc' = next
     /\ UNCHANGED s2r
  \/ /\ broken
     /\ spc' = "recover"
     /\ UNCHANGED net

(* The receiver's few messages never fill the connection. *)
Sendable(m) == IF broken \/ SenderEnded THEN r2s ELSE Append(r2s, m)

(* A side closes its socket; `in` is what it leaves unread, `out` what it sent. *)
ReceiverCloses(in, out) ==
  /\ s2r' = <<>>
  /\ r2s' \in IF in = <<>> THEN {out} ELSE {out, <<>>}
  /\ broken' = (broken \/ in # <<>>)

SenderCloses(in) ==
  /\ r2s' = <<>>
  /\ s2r' \in IF in = <<>> THEN {s2r} ELSE {s2r, <<>>}
  /\ broken' = (broken \/ in # <<>>)

Arrived(queue, kind) == queue # <<>> /\ Head(queue).kind = kind

Init ==
  /\ size \in [Files -> 0..MaxChunks]
  /\ spc = "start" /\ todo = {} /\ offset = 0
  /\ sent = [f \in Files |-> Absent]
  /\ rpc = "caps" /\ plan = {} /\ current = Absent /\ received = 0
  /\ partfile = FALSE
  /\ committed = [f \in Files |-> Absent]
  /\ failure = "none"
  /\ s2r = <<>> /\ r2s = <<>> /\ broken = FALSE
  /\ cancelled = {}

-----------------------------------------------------------------------------
(* The sender: negotiate, offer, and wait for the answer. *)
SendCapabilities ==
  /\ spc = "start"
  /\ SenderSends(Plain("Capabilities"), "caps")
  /\ UNCHANGED <<size, todo, offset, sent, rvars, cancelled>>

GetCapabilities ==
  /\ spc = "caps" /\ Arrived(r2s, "Capabilities")
  /\ spc' = "offer"
  /\ r2s' = Tail(r2s)
  /\ UNCHANGED <<size, todo, offset, sent, rvars, s2r, broken, cancelled>>

SendOffer ==
  /\ spc = "offer"
  /\ SenderSends(Plain("Offer"), "answer")
  /\ UNCHANGED <<size, todo, offset, sent, rvars, cancelled>>

GetAccept ==
  /\ spc = "answer" /\ Arrived(r2s, "Accept")
  /\ todo' = Head(r2s).wanted
  /\ spc' = "next"
  /\ r2s' = Tail(r2s)
  /\ UNCHANGED <<size, offset, sent, rvars, s2r, broken, cancelled>>

(* The loop over `wanted`: a directory carries no data. *)
NextEntry ==
  /\ spc = "next" /\ todo # {}
  /\ "sender" \notin cancelled
  /\ IF First(todo) \in Dirs
       THEN todo' = todo \ {First(todo)} /\ UNCHANGED spc
       ELSE spc' = "filestart" /\ UNCHANGED todo
  /\ UNCHANGED <<size, offset, sent, rvars, net, cancelled>>

SendFileStart ==
  /\ spc = "filestart"
  /\ SenderSends(FileStart(First(todo)), "open")
  /\ offset' = 0
  /\ UNCHANGED <<size, todo, sent, rvars, cancelled>>

OpenFile ==
  /\ spc = "open"
  /\ spc' = "data"
  /\ UNCHANGED <<size, todo, offset, sent, rvars, net, cancelled>>

(* send_file reads the next chunk: never past the size in the manifest. *)
ReadChunk ==
  /\ spc = "data" /\ offset < size[First(todo)]
  /\ "sender" \notin cancelled
  /\ spc' = "chunk"
  /\ UNCHANGED <<size, todo, offset, sent, rvars, net, cancelled>>

SendData ==
  /\ spc = "chunk"
  /\ SenderSends(Data(offset), "data")
  /\ offset' = offset + 1
  /\ UNCHANGED <<size, todo, sent, rvars, cancelled>>

(* The manifest's size is reached, or the file has shrunk since the scan. *)
EndOfFile ==
  /\ spc = "data"
  /\ \/ offset = size[First(todo)]
     \/ "source" \in Faults /\ "sender" \notin cancelled /\ offset < size[First(todo)]
  /\ spc' = "fileend"
  /\ UNCHANGED <<size, todo, offset, sent, rvars, net, cancelled>>

\* Mutant of SendFileEnd: the loop ends after the first file.
SendFileEndStops ==
  /\ spc = "fileend"
  /\ SenderSends(FileEnd(First(todo), offset), "next")
  /\ sent' = [sent EXCEPT ![First(todo)] = offset]
  /\ todo' = {}
  /\ UNCHANGED <<size, offset, rvars, cancelled>>

SendFileEnd ==
  /\ spc = "fileend"
  /\ SenderSends(FileEnd(First(todo), offset), "next")
  /\ sent' = [sent EXCEPT ![First(todo)] = offset]
  /\ todo' = todo \ {First(todo)}
  /\ UNCHANGED <<size, offset, rvars, cancelled>>

SendComplete ==
  /\ spc = "next" /\ todo = {}
  /\ SenderSends(Plain("Complete"), "complete")
  /\ UNCHANGED <<size, todo, offset, sent, rvars, cancelled>>

\* Mutant of GetComplete: the sender does not wait for the receiver's word.
GetCompleteEarly ==
  /\ spc = "complete"
  /\ spc' = "ok"
  /\ SenderCloses(r2s)
  /\ UNCHANGED <<size, todo, offset, sent, rvars, cancelled>>

GetComplete ==
  /\ spc = "complete" /\ Arrived(r2s, "Complete")
  /\ spc' = "ok"
  /\ SenderCloses(Tail(r2s))
  /\ UNCHANGED <<size, todo, offset, sent, rvars, cancelled>>

(* send() fails on this side: cancel_check, FrameTooLarge, an unreadable file. *)
SenderFails ==
  /\ \/ /\ "sender" \in cancelled
        /\ \/ spc = "next" /\ todo # {}
           \/ spc = "data" /\ offset < size[First(todo)]
     \/ "large" \in Faults /\ spc = "offer"
     \/ "source" \in Faults /\ spc = "open"
     \/ /\ "source" \in Faults /\ "sender" \notin cancelled
        /\ spc = "data" /\ offset < size[First(todo)]
  /\ spc' = "recover"
  /\ UNCHANGED <<size, todo, offset, sent, rvars, net, cancelled>>

(* send() learns in a recv that the receiver has failed, or is gone. *)
SenderTold ==
  /\ spc \in {"caps", "answer", "complete"}
  /\ \/ /\ \E kind \in {"Decline", "Failure", "Cancel"} : Arrived(r2s, kind)
        /\ r2s' = Tail(r2s)
     \/ /\ r2s = <<>> /\ (broken \/ ReceiverEnded)
        /\ UNCHANGED r2s
  /\ spc' = "recover"
  /\ UNCHANGED <<size, todo, offset, sent, rvars, s2r, broken, cancelled>>

\* Mutant of Recover: the end of the stream is not a message, so it waits on.
RecoverWaits ==
  /\ spc = "recover"
  /\ r2s # <<>> \/ broken
  /\ spc' = "failed"
  /\ SenderCloses(IF r2s = <<>> THEN <<>> ELSE Tail(r2s))
  /\ UNCHANGED <<size, todo, offset, sent, rvars, cancelled>>

(* recover_peer_error: one more message, or the end of the stream. *)
Recover ==
  /\ spc = "recover"
  /\ r2s # <<>> \/ broken \/ ReceiverEnded
  /\ spc' = "failed"
  /\ SenderCloses(IF r2s = <<>> THEN <<>> ELSE Tail(r2s))
  /\ UNCHANGED <<size, todo, offset, sent, rvars, cancelled>>

SenderStep ==
  \/ SendCapabilities \/ GetCapabilities \/ SendOffer \/ GetAccept
  \/ NextEntry \/ SendFileStart \/ OpenFile \/ ReadChunk \/ SendData
  \/ EndOfFile \/ SendFileEnd \/ SendComplete \/ GetComplete
  \/ SenderFails \/ SenderTold \/ Recover

-----------------------------------------------------------------------------
(* The receiver gives up: Drop removes the part file, and `last` goes out. *)
ReceiverFails(why, in, last) ==
  /\ rpc' = "failed"
  /\ failure' = why
  /\ current' = Absent
  /\ partfile' = FALSE
  /\ ReceiverCloses(in, IF last = "none" THEN r2s ELSE Sendable(Plain(last)))
  /\ UNCHANGED <<size, svars, plan, received, cancelled>>

(* begin(): negotiate, inspect the offer, plan what to take of it. *)
AnswerCapabilities ==
  /\ rpc = "caps" /\ Arrived(s2r, "Capabilities")
  /\ rpc' = "offer"
  /\ s2r' = Tail(s2r)
  /\ r2s' = Sendable(Plain("Capabilities"))
  /\ UNCHANGED <<size, svars, plan, current, received, partfile, committed,
                 failure, broken, cancelled>>

PlanOffer ==
  /\ rpc = "offer" /\ Arrived(s2r, "Offer")
  /\ \E keep \in SUBSET Files : plan' = Dirs \cup keep
  /\ rpc' = "deciding"
  /\ s2r' = Tail(s2r)
  /\ UNCHANGED <<size, svars, current, received, partfile, committed, failure,
                 r2s, broken, cancelled>>

(* inspect or plan_for fails: an unsafe path, or a conflict under `fail`. *)
RejectOffer ==
  /\ rpc = "offer" /\ Arrived(s2r, "Offer")
  /\ \E last \in {"Failure", "Decline"} : ReceiverFails("refused", Tail(s2r), last)
  /\ UNCHANGED committed

(* The user says no, or yes: an Accept that cannot be written is an error. *)
Decline ==
  /\ rpc = "deciding"
  /\ ReceiverFails("declined", s2r, "Decline")
  /\ UNCHANGED committed

SendAccept ==
  /\ rpc = "deciding" /\ ~broken
  /\ rpc' = "dirs"
  /\ r2s' = Sendable(Accepting(plan))
  /\ UNCHANGED <<size, svars, plan, current, received, partfile, committed,
                 failure, s2r, broken, cancelled>>

CreateDirectories ==
  /\ rpc = "dirs"
  /\ rpc' = "loop"
  /\ UNCHANGED <<size, svars, plan, current, received, partfile, committed,
                 failure, net, cancelled>>

(* The top of the loop: cancellation is looked at between two messages only. *)
NextMessage ==
  /\ rpc = "loop" /\ "receiver" \notin cancelled
  /\ rpc' = "recv"
  /\ UNCHANGED <<size, svars, plan, current, received, partfile, committed,
                 failure, net, cancelled>>

(* The checks run() makes of a message, by the error each ends in. *)
Objections(m) ==
  {why \in {"unexpected", "bad manifest", "size mismatch"} :
     \/ /\ m.kind = "Data"
        /\ \/ why = "unexpected" /\ current = Absent
           \/ why = "bad manifest" /\ current # Absent /\ m.offset # received
           \/ why = "size mismatch" /\ current # Absent /\ received >= size[current]
     \/ /\ m.kind = "FileStart"
        /\ \/ why = "unexpected" /\ current # Absent
           \/ why = "bad manifest" /\ m.index \notin Files \cap plan
     \/ /\ m.kind = "FileEnd"
        /\ \/ why = "unexpected" /\ current # m.index
           \/ why = "size mismatch" /\ m.size # received
     \/ m.kind = "Complete" /\ why = "unexpected" /\ current # Absent
     \/ m.kind \notin {"Data", "FileStart", "FileEnd", "Complete"} /\ why = "unexpected"}

Takes(kind) ==
  /\ rpc = "recv" /\ Arrived(s2r, kind)
  /\ Objections(Head(s2r)) = {}
  /\ s2r' = Tail(s2r)

StartFile ==
  /\ Takes("FileStart")
  /\ current' = Head(s2r).index
  /\ received' = 0
  /\ partfile' = TRUE
  /\ rpc' = "loop"
  /\ UNCHANGED <<size, svars, plan, committed, failure, r2s, broken, cancelled>>

\* Mutant of WriteData: data goes straight to the finished name.
WriteDataInPlace ==
  /\ Takes("Data")
  /\ received' = received + 1
  /\ committed' = [committed EXCEPT ![current] = received + 1]
  /\ rpc' = "loop"
  /\ UNCHANGED <<size, svars, plan, current, partfile, failure, r2s, broken,
                 cancelled>>

WriteData ==
  /\ Takes("Data")
  /\ received' = received + 1
  /\ rpc' = "loop"
  /\ UNCHANGED <<size, svars, plan, current, partfile, committed, failure, r2s,
                 broken, cancelled>>

\* Mutant of Commit: the finished file stays the current one.
CommitNotTaken ==
  /\ Takes("FileEnd")
  /\ committed' = [committed EXCEPT ![current] = received]
  /\ partfile' = FALSE
  /\ rpc' = "mode"
  /\ UNCHANGED <<size, svars, plan, current, received, failure, r2s, broken,
                 cancelled>>

(* commit(): flush, rename into place; apply_mode is left to do. *)
Commit ==
  /\ Takes("FileEnd")
  /\ committed' = [committed EXCEPT ![current] = received]
  /\ current' = Absent
  /\ partfile' = FALSE
  /\ rpc' = "mode"
  /\ UNCHANGED <<size, svars, plan, received, failure, r2s, broken, cancelled>>

ApplyMode ==
  /\ rpc = "mode"
  /\ rpc' = "loop"
  /\ UNCHANGED <<size, svars, plan, current, received, partfile, committed,
                 failure, net, cancelled>>

Succeed ==
  /\ rpc = "recv" /\ Arrived(s2r, "Complete")
  /\ Objections(Head(s2r)) = {}
  /\ ~broken
  /\ rpc' = "ok"
  /\ ReceiverCloses(Tail(s2r), Sendable(Plain("Complete")))
  /\ UNCHANGED <<size, svars, plan, current, received, partfile, committed,
                 failure, cancelled>>

(* run() fails on a message: it objects to it, or the disk does. *)
RejectMessage ==
  /\ rpc = "recv" /\ s2r # <<>>
  /\ LET m == Head(s2r)
         disk == {why \in {"disk"} : "disk" \in Faults /\ m.kind # "Complete"}
     IN \E why \in Objections(m) \cup disk : ReceiverFails(why, Tail(s2r), "Failure")
  /\ UNCHANGED committed

(* A directory cannot be created, or a mode not be set. *)
RejectEntry ==
  /\ "disk" \in Faults
  /\ rpc = "mode" \/ (rpc = "dirs" /\ Dirs # {})
  /\ ReceiverFails("disk", s2r, "Failure")
  /\ UNCHANGED committed

(* cancel_check at the top of the loop. *)
ReceiverCancels ==
  /\ rpc = "loop" /\ "receiver" \in cancelled
  /\ ReceiverFails("cancelled", s2r, "Cancel")
  /\ UNCHANGED committed

(* A read finds the end of the stream; Accept or Complete finds a reset. *)
ReceiverLoses ==
  /\ \/ /\ rpc \in {"caps", "offer", "recv"} /\ s2r = <<>> /\ (broken \/ SenderEnded)
        /\ ReceiverFails("lost", s2r, "none")
     \/ /\ rpc = "deciding" /\ broken
        /\ ReceiverFails("lost", s2r, "none")
     \/ /\ rpc = "recv" /\ Arrived(s2r, "Complete") /\ (broken \/ SenderEnded)
        /\ ReceiverFails("lost", Tail(s2r), "none")
  /\ UNCHANGED committed

ReceiverStep ==
  \/ AnswerCapabilities \/ PlanOffer \/ RejectOffer \/ Decline \/ SendAccept
  \/ CreateDirectories \/ NextMessage \/ StartFile \/ WriteData \/ Commit \/ ApplyMode
  \/ Succeed \/ RejectMessage \/ RejectEntry \/ ReceiverCancels
  \/ ReceiverLoses

-----------------------------------------------------------------------------
(* The users: Ctrl+C once cancels, twice exits at once, with no cleanup. *)
Cancel(side) ==
  /\ "cancel" \in Faults /\ side \notin cancelled
  /\ IF side = "sender" THEN ~SenderEnded ELSE ~ReceiverEnded
  /\ cancelled' = cancelled \cup {side}
  /\ UNCHANGED <<size, svars, rvars, net>>

SenderQuits ==
  /\ "quit" \in Faults /\ "sender" \in cancelled /\ ~SenderEnded
  /\ spc' = "failed"
  /\ SenderCloses(r2s)
  /\ UNCHANGED <<size, todo, offset, sent, rvars, cancelled>>

ReceiverQuits ==
  /\ "quit" \in Faults /\ "receiver" \in cancelled /\ ~ReceiverEnded
  /\ rpc' = "failed"
  /\ failure' = "quit"
  /\ ReceiverCloses(s2r, r2s)
  /\ UNCHANGED <<size, svars, plan, current, received, partfile, committed,
                 cancelled>>

(* The connection is reset, with what it carries or without. *)
Break ==
  /\ "break" \in Faults /\ ~broken /\ ~(SenderEnded /\ ReceiverEnded)
  /\ broken' = TRUE
  /\ s2r' \in {s2r, <<>>}
  /\ r2s' \in {r2s, <<>>}
  /\ UNCHANGED <<size, svars, rvars, cancelled>>

Next ==
  \/ SenderStep \/ ReceiverStep
  \/ \E side \in Sides : Cancel(side)
  \/ SenderQuits \/ ReceiverQuits \/ Break

Spec == Init /\ [][Next]_vars

(***************************************************************************)
(* Both programs run whenever they can; the receiver's user answers.       *)
(* Nobody has to press Ctrl+C and no connection has to break.              *)
(***************************************************************************)
FairSpec == Spec /\ WF_vars(SenderStep) /\ WF_vars(ReceiverStep)

-----------------------------------------------------------------------------
Wanted == plan \cap Files

(***************************************************************************)
(* What has a finished name is exactly what the sender sent of that file,  *)
(* and a file of the plan, whatever broke, quit or was cancelled before or *)
(* after; and a .rusp-part file is there only while a file is received, or *)
(* when the receiver was told to exit at once.  (writer.rs 113-206,        *)
(* receiver.rs 362-403, app.rs 81-85; README "Integrity")                  *)
(***************************************************************************)
NothingHalfWritten ==
  /\ \A f \in Files : committed[f] # Absent => f \in plan /\ committed[f] = sent[f]
  /\ partfile => (current # Absent /\ ~ReceiverEnded) \/ failure = "quit"

(***************************************************************************)
(* The reports are true: the receiver says "received" only when all files  *)
(* of its plan are in place, although it takes the sender's word for it    *)
(* (Complete is accepted without counting), and the sender says "sent"     *)
(* only when the receiver said so, and for the same files and sizes.       *)
(* (sender.rs 84-139, receiver.rs 311-348)                                 *)
(***************************************************************************)
ReportsAgree ==
  /\ rpc = "ok" => \A f \in Wanted : committed[f] # Absent
  /\ spc = "ok" =>
       /\ rpc = "ok"
       /\ \A f \in Files : sent[f] = committed[f] /\ (f \in plan <=> sent[f] # Absent)

(***************************************************************************)
(* Two programs that follow this code never accuse each other: whatever    *)
(* fails, no check of the receiver's protocol state, of the manifest or of *)
(* sizes ever fires.  (receiver.rs 235-332, 362-403)                       *)
(***************************************************************************)
NeverAccused == failure \notin {"unexpected", "bad manifest", "size mismatch"}

(***************************************************************************)
(* Liveness.  Both sides end, or else the sender has failed on its own and *)
(* waits for a message of a receiver that waits for one of the sender's:   *)
(* no other mutual wait exists.  (app.rs 159-167, sender.rs 285-304)       *)
(***************************************************************************)
MutualWait ==
  /\ spc = "recover" /\ rpc \in {"offer", "recv"}
  /\ s2r = <<>> /\ r2s = <<>> /\ ~broken

EndsOrWaits == <>[](SenderEnded /\ ReceiverEnded) \/ <>[]MutualWait

(***************************************************************************)
(* "Cancel on the first Ctrl+C; leave immediately on the second."          *)
(* (app.rs 72): one Ctrl+C is enough to end the sender.                    *)
(***************************************************************************)
SenderCancelEnds == "sender" \in cancelled ~> SenderEnded

(***************************************************************************)
(* The transfer implements what it promises its users.                     *)
(***************************************************************************)
Outcome(place) == IF place \in Ended THEN place ELSE "busy"

F == INSTANCE FileTransfer WITH
       chosen <- Wanted,
       delivered <- {f \in Files : committed[f] # Absent},
       receiver <- Outcome(rpc),
       sender <- Outcome(spc)

ImplementsFileTransfer == F!Spec
=============================================================================
