------------------------------ MODULE Folders ------------------------------
(***************************************************************************)
(* The folders below the destination: ensure_root, ensure_directory and    *)
(* create_directory_chain of src/files/writer.rs, which create_directory   *)
(* and FileWriter::create run before anything is written.  Several         *)
(* receives and other programs work in one destination; every file system  *)
(* call is a step, and another one may fall between a look and the         *)
(* creation that relies on it.                                             *)
(***************************************************************************)
EXTENDS Naturals, Sequences

CONSTANTS
  FolderNames, \* names of folders
  Receives,    \* chains being made, each by a receive
  Chains,      \* what they may have to make: names below the destination
  FoldersFail  \* may a call fail for reasons of its own

FoldersAssumption == Chains \subseteq Seq(FolderNames)

VARIABLES
  disk,        \* disk[p]: what is at p; <<>> is the destination
  chain,       \* chain[r]: the target of r, relative to the destination
  doing,       \* what r does next, or how it ended
  depth,       \* depth[r]: how many names of its chain it has passed
  passed,      \* passed[r]: what was at each of them when it went on
  planted,     \* planted[r]: which of them another program put there after r had
               \* looked (like the next two, history that no code reads)
  disturbed,   \* have other programs changed anything
  failedDisk   \* has a call failed for reasons of its own

foldersVars == <<disk, chain, doing, depth, passed, planted, disturbed, failedDisk>>

PrefixesOf(c) == {SubSeq(c, 1, n) : n \in 0..Len(c)}
Places == {<<>>} \cup UNION {PrefixesOf(c) : c \in Chains}
Kinds == {"nothing", "folder", "file", "link", "dangling"}
Parent(p) == SubSeq(p, 1, Len(p) - 1)
Below(p) == {q \in Places : q # <<>> /\ Parent(q) = p}
Over == {"done", "failed"}

\* Places that the file system can have: what is in a folder, or in a folder
\* that a link leads to.
Leads(kind) == kind \in {"folder", "link"}
Sound(d) == \A p \in Places \ {<<>>} : d[p] # "nothing" => Leads(d[Parent(p)])

FoldersInit ==
  /\ disk \in {d \in [Places -> Kinds] : Sound(d)}
  /\ chain \in [Receives -> Chains]
  /\ doing = [r \in Receives |-> "root"]
  /\ depth = [r \in Receives |-> 0]
  /\ passed = [r \in Receives |-> <<>>]
  /\ planted = [r \in Receives |-> {}]
  /\ disturbed = FALSE /\ failedDisk = FALSE

Here(r) == SubSeq(chain[r], 1, depth[r] + 1)
Becomes(r, to) == doing' = [doing EXCEPT ![r] = to]

\* The next name of the chain, or its end.
PassAs(r, kind) ==
  /\ passed' = [passed EXCEPT ![r] = Append(@, kind)]
  /\ depth' = [depth EXCEPT ![r] = @ + 1]
  /\ Becomes(r, IF depth[r] + 1 = Len(chain[r]) THEN "done" ELSE "look")

Stays == UNCHANGED <<depth, passed>>

-----------------------------------------------------------------------------
(* ensure_root: links are followed, as the destination is the user's.       *)
LookAtRoot(r) ==
  /\ doing[r] = "root"
  /\ Becomes(r, IF disk[<<>>] \in {"nothing", "dangling"} THEN "make root"
             ELSE IF disk[<<>>] = "file" THEN "failed"
             ELSE IF chain[r] = <<>> THEN "done" ELSE "look")
  /\ Stays /\ UNCHANGED <<disk, chain, planted, disturbed, failedDisk>>

\* create_dir_all takes a folder that is there by now for its own.
MakeRoot(r) ==
  /\ doing[r] = "make root"
  /\ disk' = [disk EXCEPT ![<<>>] = IF @ = "nothing" THEN "folder" ELSE @]
  /\ Becomes(r, IF disk[<<>>] \in {"file", "dangling"} THEN "failed"
             ELSE IF chain[r] = <<>> THEN "done" ELSE "look")
  /\ Stays /\ UNCHANGED <<chain, planted, disturbed, failedDisk>>

\* Mutant of Look: metadata, which follows links, in place of symlink_metadata.
LookThrough(r) ==
  /\ doing[r] = "look"
  /\ IF Leads(disk[Here(r)]) THEN PassAs(r, disk[Here(r)])
     ELSE Stays /\ Becomes(r, IF disk[Here(r)] = "nothing" THEN "make" ELSE "failed")
  /\ UNCHANGED <<disk, chain, planted, disturbed, failedDisk>>

\* ensure_directory: below the destination a link is refused. A name below
\* something that is no folder cannot be looked at.
Look(r) ==
  /\ doing[r] = "look"
  /\ IF disk[Here(r)] = "folder" THEN PassAs(r, "folder")
     ELSE Stays /\ Becomes(r, IF disk[Here(r)] = "nothing" /\ disk[Parent(Here(r))] # "file"
                             THEN "make" ELSE "failed")
  /\ UNCHANGED <<disk, chain, planted, disturbed, failedDisk>>

\* Mutant of Make: a folder that is there already is an error.
MakeAlone(r) ==
  /\ doing[r] = "make"
  /\ IF disk[Here(r)] = "nothing" /\ Leads(disk[Parent(Here(r))])
       THEN disk' = [disk EXCEPT ![Here(r)] = "folder"] /\ PassAs(r, "folder")
       ELSE Stays /\ Becomes(r, "failed") /\ UNCHANGED disk
  /\ UNCHANGED <<chain, planted, disturbed, failedDisk>>

\* create_dir: AlreadyExists is taken for another receive's folder, whatever
\* it is, a link and a file too; without the folder around it, it is an error.
Make(r) ==
  /\ doing[r] = "make"
  /\ IF disk[Here(r)] # "nothing" THEN PassAs(r, disk[Here(r)]) /\ UNCHANGED disk
     ELSE IF Leads(disk[Parent(Here(r))])
       THEN disk' = [disk EXCEPT ![Here(r)] = "folder"] /\ PassAs(r, "folder")
       ELSE Stays /\ Becomes(r, "failed") /\ UNCHANGED disk
  /\ UNCHANGED <<chain, planted, disturbed, failedDisk>>

FolderError(r) ==
  /\ FoldersFail /\ doing[r] \notin Over
  /\ Becomes(r, "failed") /\ failedDisk' = TRUE
  /\ Stays /\ UNCHANGED <<disk, chain, planted, disturbed>>

\* Other programs make anything where nothing is, or remove something. What
\* a link leads to, or goes with it, takes steps of its own.
OthersChange(p) ==
  /\ \/ /\ disk[p] = "nothing" /\ (p = <<>> \/ Leads(disk[Parent(p)]))
        /\ \E kind \in Kinds \ {"nothing"} : disk' = [disk EXCEPT ![p] = kind]
        /\ planted' = [r \in Receives |-> planted[r] \cup
             (IF doing[r] = "make" /\ Here(r) = p THEN {depth[r] + 1} ELSE {})]
     \/ /\ disk[p] # "nothing" /\ \A q \in Below(p) : disk[q] = "nothing"
        /\ disk' = [disk EXCEPT ![p] = "nothing"] /\ UNCHANGED planted
  /\ disturbed' = TRUE
  /\ UNCHANGED <<chain, doing, depth, passed, failedDisk>>

FoldersNext ==
  \/ \E r \in Receives :
       LookAtRoot(r) \/ MakeRoot(r) \/ Look(r) \/ Make(r) \/ FolderError(r)
  \/ \E p \in Places : OthersChange(p)

FoldersSpec == FoldersInit /\ [][FoldersNext]_foldersVars

-----------------------------------------------------------------------------
\* A link or a file that is there when a receive looks is never passed: every
\* name of a chain it went through was a folder, but for one that another
\* program put there after the look, which may be a link that is followed;
\* and without other programs the folders are there.  (writer.rs 9-11,
\* 218-221, 263-285)
FoldersOnly == \A r \in Receives :
  /\ \A i \in 1..Len(passed[r]) : passed[r][i] = "folder" \/ i \in planted[r]
  /\ ~disturbed => \A i \in 1..Len(passed[r]) :
       passed[r][i] = "folder" /\ disk[SubSeq(chain[r], 1, i)] = "folder"

\* Receives that make the same folders at once do not fail because of each
\* other: one fails only if something that is no folder is in its way, or the
\* disk or another program is to blame.  (writer.rs 277-279)
SharedFoldersWork == \A r \in Receives :
  doing[r] = "failed" /\ ~disturbed /\ ~failedDisk =>
    \/ disk[<<>>] \in {"file", "dangling"}
    \/ \E p \in PrefixesOf(chain[r]) \ {<<>>} : disk[p] \notin {"folder", "nothing"}
=============================================================================
