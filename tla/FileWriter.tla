----------------------------- MODULE FileWriter -----------------------------
(***************************************************************************)
(* Receiving files under one name of the destination directory:            *)
(* plan_for of src/transfer/receiver.rs, then the FileWriter of            *)
(* src/files/writer.rs.  Several writers, each of a transfer of its own,   *)
(* and other programs use the directory at once.  Every file system call   *)
(* is an await, so it is a step; what a writer saw may be stale when used, *)
(* and a look that fails, for whatever reason, says that nothing is there. *)
(*                                                                         *)
(* Name 0 is the name in the manifest, n > 0 is "name (n)".  A part file   *)
(* has a random name of its own, taken never to collide.                   *)
(***************************************************************************)
EXTENDS Naturals, FiniteSets

CONSTANTS
  Writers,    \* the files being received, one FileWriter each
  Policies,   \* conflict policies their users chose from, see AllPolicies
  MaxNames,   \* the last "name (n)" tried: 9999 in free_name
  MaxChunks,  \* longest file, in chunks
  DiskFails   \* may a file system call fail, or the process be killed

AllPolicies == {"skip", "fail", "overwrite", "rename"}   \* ConflictPolicy

ASSUME WriterAssumption ==
  /\ IsFiniteSet(Writers)
  /\ Policies \subseteq AllPolicies
  /\ MaxNames \in Nat \ {0} /\ MaxChunks \in Nat
  /\ DiskFails \in BOOLEAN
  /\ Writers \cap {"nothing", "file", "folder"} = {}

VARIABLES
  dir,      \* dir[n]: what has the name n; a writer stands for its file
  theirs,   \* theirs[n]: what other programs have left under name n
  alone,    \* do no other programs create and remove files meanwhile
  policy,   \* policy[w]
  length,   \* length[w]: chunks the sender announces for w's file
  pc,       \* where w's receiver is
  name,     \* name[w]: the name probed, then FileWriter::final_path
  part,     \* part[w]: is w's part file on disk
  written,  \* FileWriter::written, in chunks
  unseen    \* unseen[w]: w took its name for free, and another program's file is
            \* there: the look failed or was too early (history, no code reads it)

vars == <<dir, theirs, alone, policy, length, pc, name, part, written, unseen>>
given == <<alone, policy, length>>

Names    == 0..MaxNames
Contents == {"nothing", "file", "folder"} \cup Writers
Open     == {"writing", "rename"}
Running  == {"plan", "resolve", "remove", "probe", "create", "mode"} \cup Open
Stopped  == {"done", "skipped", "failed", "died"}

Taken(n)    == dir[n] # "nothing"

\* What a look (symlink_metadata) may say of name n: taken, or not.
Looks(n)    == {Taken(n)} \cup (IF DiskFails THEN {FALSE} ELSE {})
GoTo(w, to) == pc' = [pc EXCEPT ![w] = to]
Named(w, n) == name' = [name EXCEPT ![w] = n]

\* w has looked at name n, and takes it for taken or for free.
Looked(w, n, taken) == unseen' = [unseen EXCEPT ![w] = Taken(n) /\ ~taken]

\* Mutant of Fail: leaving without the Drop of FileWriter.
FailLeaving(w) == GoTo(w, "failed") /\ UNCHANGED part

(* An error: the FileWriter, if there is one, is dropped with its part file. *)
Fail(w) == GoTo(w, "failed") /\ part' = [part EXCEPT ![w] = FALSE]

Init ==
  /\ dir \in [Names -> {"nothing", "file", "folder"}]
  /\ theirs = dir
  /\ alone \in BOOLEAN
  /\ policy \in [Writers -> Policies]
  /\ length \in [Writers -> 0..MaxChunks]
  /\ pc = [w \in Writers |-> "plan"]
  /\ name = [w \in Writers |-> 0]
  /\ part = [w \in Writers |-> FALSE]
  /\ written = [w \in Writers |-> 0]
  /\ unseen = [w \in Writers |-> FALSE]

-----------------------------------------------------------------------------
(* plan_for: the offer is declined under `fail`, the file left out under `skip`. *)
PlanFile(w) ==
  /\ pc[w] = "plan"
  /\ \E taken \in Looks(0) :
       GoTo(w, IF ~taken THEN "resolve"
               ELSE CASE policy[w] = "skip" -> "skipped"
                      [] policy[w] = "fail" -> "failed"
                      [] OTHER -> "resolve")
  /\ UNCHANGED <<dir, theirs, given, name, part, written, unseen>>

(* resolve_conflict, when FileStart arrives: the plan may be out of date. *)
ResolveConflict(w) ==
  /\ pc[w] = "resolve"
  /\ \E taken \in Looks(0) :
       /\ Looked(w, 0, taken)
       /\ IF taken
            THEN CASE policy[w] = "overwrite" -> GoTo(w, "remove") /\ Named(w, 0)
                   [] policy[w] = "rename" -> GoTo(w, "probe") /\ Named(w, 1)
                   [] OTHER -> GoTo(w, "failed") /\ Named(w, 0)
            ELSE GoTo(w, "create") /\ Named(w, 0)
  /\ UNCHANGED <<dir, theirs, given, part, written>>

\* Mutant of RemoveFirst: overwrite does not mind what it removes.
RemoveAnything(w) ==
  /\ pc[w] = "remove"
  /\ dir' = [dir EXCEPT ![0] = "nothing"]
  /\ GoTo(w, "create")
  /\ UNCHANGED <<theirs, given, name, part, written, unseen>>

(* overwrite: a folder or a file that has gone meanwhile is an error.  That *)
(* there is a second look changes only how the error reads: where it fails, *)
(* or is out of date, remove_file fails on a folder too.                    *)
RemoveFirst(w) ==
  /\ pc[w] = "remove"
  /\ IF dir[0] \in {"folder", "nothing"}
       THEN GoTo(w, "failed") /\ UNCHANGED dir
       ELSE dir' = [dir EXCEPT ![0] = "nothing"] /\ GoTo(w, "create")
  /\ UNCHANGED <<theirs, given, name, part, written, unseen>>

\* Mutant of ProbeName: the last name tried is taken for a free one.
ProbeNameGivesIn(w) ==
  /\ pc[w] = "probe"
  /\ \E taken \in Looks(name[w]) :
       /\ Looked(w, name[w], taken)
       /\ IF taken /\ name[w] < MaxNames
            THEN Named(w, name[w] + 1) /\ UNCHANGED pc
            ELSE GoTo(w, "create") /\ UNCHANGED name
  /\ UNCHANGED <<dir, theirs, given, part, written>>

\* Mutant of ProbeName: after the last name it starts over.
ProbeNameAgain(w) ==
  /\ pc[w] = "probe"
  /\ \E taken \in Looks(name[w]) :
       /\ Looked(w, name[w], taken)
       /\ IF taken
            THEN Named(w, IF name[w] < MaxNames THEN name[w] + 1 ELSE 1) /\ UNCHANGED pc
            ELSE GoTo(w, "create") /\ UNCHANGED name
  /\ UNCHANGED <<dir, theirs, given, part, written>>

(* free_name: one candidate at a time. *)
ProbeName(w) ==
  /\ pc[w] = "probe"
  /\ \E taken \in Looks(name[w]) :
       /\ Looked(w, name[w], taken)
       /\ \/ ~taken /\ GoTo(w, "create") /\ UNCHANGED name
          \/ taken /\ name[w] < MaxNames /\ Named(w, name[w] + 1) /\ UNCHANGED pc
          \/ taken /\ name[w] = MaxNames /\ GoTo(w, "failed") /\ UNCHANGED name
  /\ UNCHANGED <<dir, theirs, given, part, written>>

CreatePart(w) ==
  /\ pc[w] = "create"
  /\ part' = [part EXCEPT ![w] = TRUE]
  /\ GoTo(w, "writing")
  /\ UNCHANGED <<dir, theirs, given, name, written, unseen>>

Write(w) ==
  /\ pc[w] = "writing"
  /\ written[w] < length[w]
  /\ written' = [written EXCEPT ![w] = @ + 1]
  /\ UNCHANGED <<dir, theirs, given, pc, name, part, unseen>>

\* Mutant of Verify: the size is not checked before the file is finished.
VerifyNothing(w) ==
  /\ pc[w] = "writing"
  /\ GoTo(w, "rename")
  /\ UNCHANGED <<dir, theirs, given, name, part, written, unseen>>

(* commit: size, hash and flush; then the rename is left to do. *)
Verify(w) ==
  /\ pc[w] = "writing"
  /\ written[w] = length[w]
  /\ GoTo(w, "rename")
  /\ UNCHANGED <<dir, theirs, given, name, part, written, unseen>>

(* rename(2) replaces a file that has the name by now, and fails on a folder. *)
Rename(w) ==
  /\ pc[w] = "rename"
  /\ dir[name[w]] # "folder"
  /\ dir' = [dir EXCEPT ![name[w]] = w]
  /\ part' = [part EXCEPT ![w] = FALSE]
  /\ GoTo(w, "mode")
  /\ UNCHANGED <<theirs, given, name, written, unseen>>

ApplyMode(w) ==
  /\ pc[w] = "mode"
  /\ GoTo(w, "done")
  /\ UNCHANGED <<dir, theirs, given, name, part, written, unseen>>

(* The connection ends, the data does not match, the receiver is cancelled, *)
(* or the name has become a folder.                                         *)
Abort(w) ==
  /\ pc[w] = "writing" \/ (pc[w] = "rename" /\ dir[name[w]] = "folder")
  /\ Fail(w)
  /\ UNCHANGED <<dir, theirs, given, name, written, unseen>>

(* A call whose error is passed on fails: disk full, no permission, read-only.  *)
(* At "resolve" that is making the folders above; a look fails in Looks instead. *)
DiskError(w) ==
  /\ DiskFails /\ pc[w] \in Running \ {"plan", "probe"}
  /\ Fail(w)
  /\ UNCHANGED <<dir, theirs, given, name, written, unseen>>

(* The process is killed: a second Ctrl+C, or a power cut. *)
Die(w) ==
  /\ DiskFails /\ pc[w] \in Running
  /\ GoTo(w, "died")
  /\ UNCHANGED <<dir, theirs, given, name, part, written, unseen>>

(* Other programs create and remove files and folders. *)
Interfere(n) ==
  /\ ~alone
  /\ \E c \in {"nothing", "file", "folder"} \ {dir[n]} :
       /\ c = "nothing" \/ dir[n] = "nothing"
       /\ dir' = [dir EXCEPT ![n] = c]
       /\ theirs' = [theirs EXCEPT ![n] = c]
       /\ unseen' = [w \in Writers |->
            unseen[w] \/ (c # "nothing" /\ name[w] = n /\ pc[w] \in {"create"} \cup Open)]
  /\ UNCHANGED <<given, pc, name, part, written>>

Step(w) ==
  \/ PlanFile(w) \/ ResolveConflict(w) \/ RemoveFirst(w) \/ ProbeName(w)
  \/ CreatePart(w) \/ Write(w) \/ Verify(w) \/ Rename(w) \/ ApplyMode(w)
  \/ Abort(w)

Next ==
  \/ \E w \in Writers : Step(w) \/ DiskError(w) \/ Die(w)
  \/ \E n \in Names : Interfere(n)

Spec == Init /\ [][Next]_vars

(* A file arrives or its connection ends: a receiver does not stay in a step. *)
(* That a look fails is nothing to rely on.                                   *)
FairSpec == Spec /\ \A w \in Writers : WF_vars(Step(w) /\ (unseen'[w] => unseen[w]))

-----------------------------------------------------------------------------
TypeOK ==
  /\ dir \in [Names -> Contents]
  /\ theirs \in [Names -> {"nothing", "file", "folder"}]
  /\ alone \in BOOLEAN
  /\ policy \in [Writers -> Policies]
  /\ length \in [Writers -> 0..MaxChunks]
  /\ pc \in [Writers -> Running \cup Stopped]
  /\ name \in [Writers -> Names]
  /\ part \in [Writers -> BOOLEAN]
  /\ written \in [Writers -> 0..MaxChunks]
  /\ unseen \in [Writers -> BOOLEAN]

(***************************************************************************)
(* "Nothing appears half-written": a name shows a received file only when  *)
(* all of it was written and verified, whoever died or failed since.       *)
(* (writer.rs 5-8, 113-158)                                                *)
(***************************************************************************)
OnlyWholeFiles ==
  \A n \in Names : \A w \in Writers : dir[n] = w =>
    /\ name[w] = n
    /\ written[w] = length[w]
    /\ pc[w] \in {"mode"} \cup Stopped

(***************************************************************************)
(* A part file belongs to a writer that still writes, or one that died     *)
(* without its Drop.  (writer.rs 195-206, app.rs 81-85)                    *)
(***************************************************************************)
PartFilesAccounted ==
  \A w \in Writers :
    /\ part[w] => pc[w] \in Open \cup {"died"}
    /\ pc[w] \in Open => part[w]

(***************************************************************************)
(* A folder is never replaced by a file nor removed, under any policy and  *)
(* whatever other programs do meanwhile.  (writer.rs 301-311, 154)         *)
(***************************************************************************)
FoldersStay ==
  [][\A n \in Names : dir[n] = "folder" => dir'[n] \in {"folder", "nothing"}
                       /\ (dir'[n] = "nothing" => pc' = pc)]_vars

(***************************************************************************)
(* Among other programs and on a failing disk, a receiver replaces or      *)
(* removes what somebody else put there only if it was told to overwrite,  *)
(* or could not know: it came after the receiver had looked, or the look   *)
(* failed, which the code takes for a free name.  (writer.rs 12-14,        *)
(* 290-346; receiver.rs 473)                                               *)
(***************************************************************************)
OthersKept ==
  [][\A w \in Writers : \A n \in Names :
       /\ pc'[w] # pc[w]
       /\ theirs[n] # "nothing" /\ dir[n] = theirs[n] /\ dir'[n] # dir[n]
       => n = name[w] /\ (policy[w] = "overwrite" \/ unseen[w])]_vars

(* Every writer stops.  (writer.rs 325-346: the search for a name ends) *)
WritersStop == \A w \in Writers : <>(pc[w] \in Stopped)

(***************************************************************************)
(* "Nothing existing is destroyed by accident [...] `rename` picks a free  *)
(* name rather than replacing anything" (writer.rs 12-14): among receivers *)
(* a file reported as received is there under its name.                    *)
(***************************************************************************)
ReceivedStays == alone => \A w \in Writers : pc[w] = "done" => dir[name[w]] = w
=============================================================================
