---------------------------- MODULE WriterProofs ----------------------------
(***************************************************************************)
(* Proofs about both halves of src/files/writer.rs.                        *)
(*                                                                         *)
(* Folders, for any receives, chains of any depth and any contents of the  *)
(* disk: a chain that is made consists of folders and of what came after   *)
(* the look, and receives that make the same folders do not fail because   *)
(* of each other.                                                          *)
(*                                                                         *)
(* FileWriter, for any number of writers, names and chunks, whether or not *)
(* the disk fails and other programs interfere.  What the first three      *)
(* invariants lack to be inductive is that a file waiting for its rename   *)
(* was verified (Verified); what OthersKept lacks is that a writer that    *)
(* settled on a name that is taken did not see what has it (Settled).      *)
(***************************************************************************)
EXTENDS FileWriter, Folders, TLAPS

-----------------------------------------------------------------------------
(* The folders below the destination. *)


\* The first i names of the chain of r.
Upto(r, i) == SubSeq(chain[r], 1, i)

Calls == {"root", "make root", "look", "make"}

FoldersTypeOK ==
  /\ disk \in [Places -> Kinds]
  /\ chain \in [Receives -> Chains]
  /\ doing \in [Receives -> Calls \cup Over]
  /\ depth \in [Receives -> Nat]
  /\ passed \in [Receives -> Seq(Kinds)]
  /\ planted \in [Receives -> SUBSET Nat]
  /\ disturbed \in BOOLEAN /\ failedDisk \in BOOLEAN

\* Where a receive is in its chain.
DepthInv == \A r \in Receives :
  /\ Len(passed[r]) = depth[r] /\ depth[r] <= Len(chain[r])
  /\ doing[r] \in {"look", "make"} => depth[r] < Len(chain[r])
  /\ doing[r] \in {"root", "make root"} => depth[r] = 0

\* What was not there when it looked is a folder now, if another program did
\* not plant it.
MakeInv(r) == doing[r] = "make" =>
  /\ disk[Here(r)] \in {"nothing", "folder"} \/ depth[r] + 1 \in planted[r]
  /\ ~disturbed => disk[Here(r)] \in {"nothing", "folder"}

\* It works below a folder, if nobody removes it.
RootInv(r) == doing[r] \in {"look", "make"} /\ ~disturbed => Leads(disk[<<>>])

\* FoldersOnly and SharedFoldersWork of one receive.
Made(r) ==
  /\ \A i \in 1..Len(passed[r]) : passed[r][i] = "folder" \/ i \in planted[r]
  /\ ~disturbed => \A i \in 1..Len(passed[r]) :
       passed[r][i] = "folder" /\ disk[Upto(r, i)] = "folder"
InTheWay(r) ==
  \/ disk[<<>>] \in {"file", "dangling"}
  \/ \E p \in PrefixesOf(chain[r]) \ {<<>>} : disk[p] \notin {"folder", "nothing"}
Excused(r) == doing[r] = "failed" /\ ~disturbed /\ ~failedDisk => InTheWay(r)

Good(r) == MakeInv(r) /\ RootInv(r) /\ Made(r) /\ Excused(r)

FoldersInv == FoldersTypeOK /\ DepthInv /\ \A r \in Receives : Good(r)

-----------------------------------------------------------------------------
(* Places. *)

LEMMA PrefixFacts ==
  ASSUME NEW c \in Seq(FolderNames), NEW n \in 0..Len(c)
  PROVE  /\ SubSeq(c, 1, n) \in Seq(FolderNames) /\ Len(SubSeq(c, 1, n)) = n
         /\ SubSeq(c, 1, n) = <<>> <=> n = 0
         /\ \A m \in 0..n : SubSeq(SubSeq(c, 1, n), 1, m) = SubSeq(c, 1, m)
<1>1. SubSeq(c, 1, n) \in Seq(FolderNames) /\ Len(SubSeq(c, 1, n)) = n
  OBVIOUS
<1>2. SubSeq(c, 1, n) = <<>> <=> n = 0
  BY <1>1
<1>3. ASSUME NEW m \in 0..n
      PROVE  SubSeq(SubSeq(c, 1, n), 1, m) = SubSeq(c, 1, m)
  OBVIOUS
<1>4. QED
  BY <1>1, <1>2, <1>3

LEMMA PlacesOfAChain ==
  ASSUME FoldersAssumption, FoldersTypeOK, DepthInv, NEW r \in Receives
  PROVE  /\ chain[r] \in Seq(FolderNames) /\ <<>> \in Places
         /\ \A i \in 0..Len(chain[r]) : Upto(r, i) \in Places /\ Upto(r, i) \in PrefixesOf(chain[r])
         /\ \A i \in 1..Len(chain[r]) : Upto(r, i) # <<>>
         /\ depth[r] < Len(chain[r]) =>
              /\ Here(r) = Upto(r, depth[r] + 1) /\ Here(r) \in Places
              /\ Here(r) # <<>> /\ Parent(Here(r)) = Upto(r, depth[r])
         /\ Upto(r, 0) = <<>>
<1>1. chain[r] \in Seq(FolderNames) /\ chain[r] \in Chains
  BY DEF FoldersAssumption, FoldersTypeOK
<1>2. \A i \in 0..Len(chain[r]) : Upto(r, i) \in PrefixesOf(chain[r]) /\ Upto(r, i) \in Places
  BY <1>1 DEF Upto, PrefixesOf, Places
<1>3. \A i \in 1..Len(chain[r]) : Upto(r, i) # <<>>
  BY <1>1, PrefixFacts DEF Upto
<1>4. ASSUME depth[r] < Len(chain[r])
      PROVE  /\ Here(r) = Upto(r, depth[r] + 1) /\ Parent(Here(r)) = Upto(r, depth[r])
             /\ depth[r] + 1 \in 1..Len(chain[r])
  <2>1. depth[r] \in Nat /\ Len(chain[r]) \in Nat
    BY <1>1 DEF FoldersTypeOK
  <2>2. depth[r] + 1 \in 0..Len(chain[r]) /\ depth[r] \in 0..(depth[r] + 1)
    BY <1>4, <2>1
  <2>3. Len(Here(r)) = depth[r] + 1
    BY <1>1, <2>2, PrefixFacts DEF Here
  <2>4. Parent(Here(r)) = SubSeq(SubSeq(chain[r], 1, depth[r] + 1), 1, depth[r])
    BY <2>1, <2>3 DEF Here, Parent
  <2>5. QED
    BY <1>1, <1>4, <2>1, <2>2, <2>4, PrefixFacts DEF Here, Upto
<1>5. Upto(r, 0) = <<>>
  BY <1>1, PrefixFacts DEF Upto
<1>6. QED
  BY <1>1, <1>2, <1>3, <1>4, <1>5 DEF Places

-----------------------------------------------------------------------------
(* The disk. *)

\* Without other programs a folder may appear where nothing was.
Grown == /\ disturbed' = disturbed /\ chain' = chain /\ planted' = planted
         /\ \A p \in Places : disk'[p] = disk[p] \/ (disk[p] = "nothing" /\ disk'[p] = "folder")

\* Other programs make and remove things.
Changed == /\ disturbed' = TRUE /\ chain' = chain
           /\ \A r \in Receives :
                /\ planted[r] \subseteq planted'[r]
                /\ doing[r] = "make" =>
                     \/ disk'[Here(r)] \in {disk[Here(r)], "nothing"}
                     \/ depth[r] + 1 \in planted'[r]

Same(r) == doing'[r] = doing[r] /\ depth'[r] = depth[r] /\ passed'[r] = passed[r]

\* Whatever happens to the disk, a receive that takes no step is as good as it
\* was.
LEMMA OthersStayGood ==
  ASSUME FoldersAssumption, FoldersInv, Grown \/ Changed, failedDisk => failedDisk',
         NEW r \in Receives, Same(r)
  PROVE  Good(r)'
<1>1. /\ chain[r] \in Seq(FolderNames) /\ <<>> \in Places
      /\ \A i \in 0..Len(chain[r]) : Upto(r, i) \in Places
      /\ depth[r] < Len(chain[r]) => Here(r) \in Places
  BY PlacesOfAChain DEF FoldersInv
<1>2. /\ Len(passed[r]) = depth[r] /\ depth[r] <= Len(chain[r]) /\ depth[r] \in Nat
      /\ doing[r] \in {"look", "make"} => depth[r] < Len(chain[r])
  BY DEF FoldersInv, DepthInv, FoldersTypeOK
<1>3. \A i \in 1..Len(passed[r]) : Upto(r, i) \in Places
  BY <1>1, <1>2
<1>4. \A p \in PrefixesOf(chain[r]) : p \in Places
  BY DEF FoldersInv, FoldersTypeOK, Places
<1>5. /\ Here(r)' = Here(r) /\ PrefixesOf(chain[r])' = PrefixesOf(chain[r])
      /\ \A i : Upto(r, i)' = Upto(r, i)
  BY DEF Grown, Changed, Same, Here, PrefixesOf, Upto
<1>6. Good(r)
  BY DEF FoldersInv
<1>7. MakeInv(r)'
  BY <1>1, <1>2, <1>5, <1>6 DEF Good, MakeInv, Grown, Changed, Same
<1>8. RootInv(r)'
  BY <1>1, <1>6 DEF Good, RootInv, Grown, Changed, Same, Leads
<1>9. Made(r)'
  <2>1. Made(r)
    BY <1>6 DEF Good
  <2>2. \A i \in 1..Len(passed'[r]) : passed'[r][i] = "folder" \/ i \in planted'[r]
    BY <2>1 DEF Made, Same, Grown, Changed
  <2>3. ASSUME ~disturbed', NEW i \in 1..Len(passed'[r])
        PROVE  passed'[r][i] = "folder" /\ disk'[Upto(r, i)'] = "folder"
    BY <1>3, <1>5, <2>1, <2>3 DEF Made, Same, Grown, Changed
  <2>4. QED
    BY <2>2, <2>3 DEF Made
<1>10. Excused(r)'
  <2>1. ASSUME doing'[r] = "failed", ~disturbed', ~failedDisk'
        PROVE  InTheWay(r)'
    <3>1. Grown /\ InTheWay(r)
      BY <1>6, <2>1 DEF Good, Excused, Same, Grown, Changed
    <3>2. QED
      BY <1>1, <1>4, <1>5, <3>1 DEF InTheWay, Grown
  <2>2. QED
    BY <2>1 DEF Excused
<1>11. QED
  BY <1>7, <1>8, <1>9, <1>10 DEF Good

LEMMA FoldersStart ==
  ASSUME FoldersAssumption, FoldersInit
  PROVE  FoldersInv
<1>1. FoldersTypeOK
  <2>1. disk \in [Places -> Kinds] /\ chain \in [Receives -> Chains]
    BY DEF FoldersInit
  <2>2. doing \in [Receives -> Calls \cup Over]
    BY DEF FoldersInit, Calls
  <2>3. depth \in [Receives -> Nat] /\ passed \in [Receives -> Seq(Kinds)]
    BY DEF FoldersInit
  <2>4. QED
    BY <2>1, <2>2, <2>3 DEF FoldersInit, FoldersTypeOK
<1>2. DepthInv
  BY DEF FoldersInit, DepthInv, FoldersAssumption
<1>3. ASSUME NEW r \in Receives PROVE Good(r)
  BY DEF FoldersInit, Good, MakeInv, RootInv, Made, Excused
<1>4. QED
  BY <1>1, <1>2, <1>3 DEF FoldersInv

-----------------------------------------------------------------------------
(* The steps of a receive. *)

\* What a step of r shows, so that IInv holds after it.
Keeps(r) == FoldersTypeOK' /\ DepthInv' /\ Grown /\ Good(r)' /\ \A q \in Receives \ {r} : Same(q)

\* Facts that every step uses.
LEMMA StepFacts ==
  ASSUME FoldersAssumption, FoldersInv, NEW r \in Receives
  PROVE  /\ chain[r] \in Seq(FolderNames) /\ Len(chain[r]) \in Nat
         /\ <<>> \in Places /\ depth[r] \in Nat /\ passed[r] \in Seq(Kinds)
         /\ Len(passed[r]) = depth[r] /\ depth[r] <= Len(chain[r])
         /\ doing[r] \in {"look", "make"} =>
              /\ depth[r] < Len(chain[r]) /\ Here(r) = Upto(r, depth[r] + 1)
              /\ Here(r) \in Places /\ Here(r) \in PrefixesOf(chain[r]) \ {<<>>}
              /\ Parent(Here(r)) = Upto(r, depth[r])
              /\ ~disturbed => Leads(disk[Parent(Here(r))])
         /\ Upto(r, 0) = <<>>
         /\ chain[r] # <<>> => Len(chain[r]) > 0
         /\ \A i \in 1..Len(passed[r]) : Upto(r, i) \in Places
<1>1. /\ chain[r] \in Seq(FolderNames) /\ Len(chain[r]) \in Nat
      /\ depth[r] \in Nat /\ passed[r] \in Seq(Kinds)
      /\ Len(passed[r]) = depth[r] /\ depth[r] <= Len(chain[r])
      /\ doing[r] \in {"look", "make"} => depth[r] < Len(chain[r])
  <2>1. FoldersTypeOK /\ DepthInv
    BY DEF FoldersInv
  <2>2. chain[r] \in Seq(FolderNames)
    BY <2>1, PlacesOfAChain
  <2>3. Len(chain[r]) \in Nat
    BY <2>2
  <2>4. depth[r] \in Nat /\ passed[r] \in Seq(Kinds)
    BY <2>1 DEF FoldersTypeOK
  <2>5. QED
    BY <2>1, <2>2, <2>3, <2>4 DEF DepthInv
<1>2. chain[r] # <<>> => Len(chain[r]) > 0
  BY <1>1
<1>3. /\ <<>> \in Places /\ Upto(r, 0) = <<>>
      /\ \A i \in 0..Len(chain[r]) : Upto(r, i) \in PrefixesOf(chain[r])
      /\ depth[r] < Len(chain[r]) =>
           /\ Here(r) = Upto(r, depth[r] + 1) /\ Here(r) \in Places /\ Here(r) # <<>>
           /\ Parent(Here(r)) = Upto(r, depth[r])
  BY PlacesOfAChain DEF FoldersInv
<1>4. depth[r] < Len(chain[r]) => Upto(r, depth[r] + 1) \in PrefixesOf(chain[r])
  <2>1. depth[r] < Len(chain[r]) => depth[r] + 1 \in 0..Len(chain[r])
    BY <1>1
  <2>2. QED
    BY <1>3, <2>1
<1>5. ASSUME doing[r] \in {"look", "make"}, ~disturbed
      PROVE  Leads(disk[Parent(Here(r))])
  <2>1. Parent(Here(r)) = Upto(r, depth[r]) /\ RootInv(r) /\ Made(r)
    BY <1>1, <1>3, <1>5 DEF FoldersInv, Good
  <2>2. CASE depth[r] = 0
    BY <1>3, <1>5, <2>1, <2>2 DEF RootInv
  <2>3. CASE depth[r] # 0
    <3>1. depth[r] \in 1..Len(passed[r])
      BY <1>1, <2>3
    <3>2. QED
      BY <1>5, <2>1, <3>1 DEF Made, Leads
  <2>4. QED
    BY <2>2, <2>3
<1>6. \A i \in 1..Len(passed[r]) : Upto(r, i) \in Places
  <2>1. \A i \in 1..Len(passed[r]) : i \in 0..Len(chain[r])
    BY <1>1
  <2>2. \A i \in 0..Len(chain[r]) : Upto(r, i) \in Places
    BY PlacesOfAChain DEF FoldersInv
  <2>3. QED
    BY <2>1, <2>2
<1>7. QED
  BY <1>1, <1>2, <1>3, <1>4, <1>5, <1>6

\* A step that only changes where r is.
LEMMA StayingKeeps ==
  ASSUME FoldersAssumption, FoldersInv, NEW r \in Receives, Grown, FoldersTypeOK', Stays,
         doing' = [doing EXCEPT ![r] = doing'[r]], doing'[r] # "make" \/ MakeInv(r)',
         doing'[r] \in {"look", "make"} => depth[r] < Len(chain[r]),
         doing'[r] \in {"root", "make root"} => depth[r] = 0,
         RootInv(r)', Excused(r)'
  PROVE  Keeps(r)
<1>1. \A q \in Receives \ {r} : Same(q)
  BY DEF Stays, Same, FoldersInv, FoldersTypeOK
<1>2. DepthInv'
  BY <1>1 DEF DepthInv, FoldersInv, Stays, Grown, Same
<1>3. Made(r)'
  <2>1. Made(r) /\ \A i \in 1..Len(passed[r]) : Upto(r, i) \in Places
    BY StepFacts DEF FoldersInv, Good
  <2>2. passed' = passed /\ \A i : Upto(r, i)' = Upto(r, i)
    BY DEF Stays, Grown, Upto
  <2>3. /\ disturbed' = disturbed /\ planted' = planted
        /\ \A p \in Places : disk[p] = "folder" => disk'[p] = "folder"
    BY DEF Grown
  <2>4. QED
    BY <2>1, <2>2, <2>3, Zenon DEF Made
<1>4. QED
  BY <1>1, <1>2, <1>3 DEF Keeps, Good, MakeInv

\* r goes on to the next name, below which there is a folder.
LEMMA PassingKeeps ==
  ASSUME FoldersAssumption, FoldersInv, NEW r \in Receives, Grown, disk' \in [Places -> Kinds],
         UNCHANGED failedDisk, doing[r] \in {"look", "make"}, NEW kind \in Kinds,
         PassAs(r, kind), kind = "folder" \/ depth[r] + 1 \in planted[r],
         ~disturbed => kind = "folder" /\ disk'[Here(r)] = "folder"
  PROVE  Keeps(r)
<1>1. /\ chain[r] \in Seq(FolderNames) /\ Len(chain[r]) \in Nat
      /\ <<>> \in Places /\ depth[r] \in Nat /\ passed[r] \in Seq(Kinds)
      /\ Len(passed[r]) = depth[r] /\ depth[r] < Len(chain[r])
      /\ Here(r) = Upto(r, depth[r] + 1)
  BY StepFacts
<1>2. /\ passed' = [passed EXCEPT ![r] = Append(@, kind)]
      /\ depth' = [depth EXCEPT ![r] = @ + 1]
      /\ doing' = [doing EXCEPT ![r] = IF depth[r] + 1 = Len(chain[r]) THEN "done" ELSE "look"]
      /\ chain' = chain /\ planted' = planted /\ disturbed' = disturbed /\ failedDisk' = failedDisk
  <2>1. chain' = chain /\ planted' = planted /\ disturbed' = disturbed /\ failedDisk' = failedDisk
    BY Zenon DEF Grown
  <2>2. QED
    BY <2>1, Zenon DEF PassAs, Becomes
<1>3. planted' = planted
  BY DEF Grown
<1>4. Append(passed[r], kind) \in Seq(Kinds)
  BY <1>1
<1>5. FoldersTypeOK'
  <2>1. doing' \in [Receives -> Calls \cup Over]
    BY <1>2 DEF FoldersInv, FoldersTypeOK, Calls, Over
  <2>2. depth' \in [Receives -> Nat]
    BY <1>2 DEF FoldersInv, FoldersTypeOK
  <2>3. passed' \in [Receives -> Seq(Kinds)]
    BY <1>2, <1>4 DEF FoldersInv, FoldersTypeOK
  <2>4. QED
    BY <1>2, <1>3, <2>1, <2>2, <2>3 DEF FoldersInv, FoldersTypeOK
<1>6. \A q \in Receives \ {r} : Same(q)
  BY <1>2 DEF Same, FoldersInv, FoldersTypeOK
<1>7. /\ passed'[r] = Append(passed[r], kind) /\ depth'[r] = depth[r] + 1
      /\ doing'[r] = IF depth[r] + 1 = Len(chain[r]) THEN "done" ELSE "look"
  BY <1>2 DEF FoldersInv, FoldersTypeOK
<1>8. Len(passed'[r]) = depth'[r]
  BY <1>1, <1>7
<1>9. DepthInv'
  <2>1. ASSUME NEW q \in Receives
        PROVE  /\ Len(passed'[q]) = depth'[q] /\ depth'[q] <= Len(chain'[q])
               /\ doing'[q] \in {"look", "make"} => depth'[q] < Len(chain'[q])
               /\ doing'[q] \in {"root", "make root"} => depth'[q] = 0
    <3>1. CASE q = r
      <4>1. depth[r] \in Nat /\ Len(chain[r]) \in Nat /\ depth[r] < Len(chain[r])
        BY <1>1
      <4>2. /\ Len(passed'[q]) = depth'[q] /\ depth'[q] = depth[r] + 1
            /\ chain'[q] = chain[r]
            /\ doing'[q] = IF depth[r] + 1 = Len(chain[r]) THEN "done" ELSE "look"
        BY <1>2, <1>7, <1>8, <3>1, Zenon
      <4>3. QED
        BY <4>1, <4>2
    <3>2. CASE q # r
      BY <1>2, <1>6, <3>2 DEF DepthInv, FoldersInv, Same
    <3>3. QED
      BY <3>1, <3>2
  <2>2. QED
    BY <2>1 DEF DepthInv
<1>10. Made(r)'
  <2>1. Made(r) /\ \A i \in 1..Len(passed[r]) : Upto(r, i) \in Places
    BY StepFacts DEF FoldersInv, Good
  <2>2. \A i : Upto(r, i)' = Upto(r, i)
    BY <1>2 DEF Upto
  <2>3. \A i \in 1..Len(passed'[r]) :
          \/ i \in 1..Len(passed[r]) /\ passed'[r][i] = passed[r][i]
          \/ i = depth[r] + 1 /\ passed'[r][i] = kind
    BY <1>1, <1>7
  <2>4. QED
    BY <1>1, <1>2, <2>1, <2>2, <2>3 DEF Made, Grown
<1>11. RootInv(r)'
  BY <1>1, <1>2 DEF RootInv, Grown, FoldersInv, Good, Leads
<1>12. MakeInv(r)' /\ Excused(r)'
  BY <1>7 DEF MakeInv, Excused
<1>13. QED
  BY <1>5, <1>6, <1>9, <1>10, <1>11, <1>12 DEF Keeps, Good

\* When r fails, or asks for the next thing.
LEMMA GoingKeeps ==
  ASSUME FoldersAssumption, FoldersInv, NEW r \in Receives, Stays, Grown,
         disk' \in [Places -> Kinds], failedDisk' \in BOOLEAN,
         NEW to \in Calls \cup Over, Becomes(r, to),
         to = "make" => disk'[Here(r)] = "nothing",
         to \in {"look", "make"} => depth[r] < Len(chain[r]) /\ (~disturbed => Leads(disk'[<<>>])),
         to \in {"root", "make root"} => depth[r] = 0,
         to = "failed" /\ ~disturbed /\ ~failedDisk' => InTheWay(r)'
  PROVE  Keeps(r)
<1>1. doing' = [doing EXCEPT ![r] = to] /\ doing'[r] = to
  BY DEF Becomes, FoldersInv, FoldersTypeOK
<1>2. /\ disturbed' = disturbed /\ chain' = chain /\ planted' = planted
      /\ depth' = depth /\ passed' = passed
  BY Zenon DEF Grown, Stays
<1>3. FoldersTypeOK'
  <2>1. doing' \in [Receives -> Calls \cup Over]
    BY <1>1 DEF FoldersInv, FoldersTypeOK
  <2>2. QED
    BY <1>2, <2>1, Zenon DEF FoldersInv, FoldersTypeOK
<1>4. Here(r)' = Here(r)
  BY <1>2 DEF Here
<1>5. MakeInv(r)'
  BY <1>1, <1>4 DEF MakeInv
<1>6. RootInv(r)' /\ Excused(r)'
  BY <1>1, <1>2, Zenon DEF RootInv, Excused, Leads
<1>7. QED
  BY <1>1, <1>3, <1>5, <1>6, StayingKeeps

LEMMA LookAtRootKeeps ==
  ASSUME FoldersAssumption, FoldersInv, NEW r \in Receives, LookAtRoot(r)
  PROVE  Keeps(r)
<1> DEFINE to == IF disk[<<>>] \in {"nothing", "dangling"} THEN "make root"
                 ELSE IF disk[<<>>] = "file" THEN "failed"
                 ELSE IF chain[r] = <<>> THEN "done" ELSE "look"
<1>1. Stays /\ Becomes(r, to) /\ UNCHANGED <<disk, chain, planted, disturbed, failedDisk>> /\ doing[r] = "root"
  BY DEF LookAtRoot
<1>2. to \in Calls \cup Over /\ to # "make"
  BY DEF Calls, Over
<1>3. disk[<<>>] \in Kinds /\ disk' \in [Places -> Kinds] /\ failedDisk' \in BOOLEAN
  BY <1>1, StepFacts DEF FoldersInv, FoldersTypeOK
<1>4. Grown
  BY <1>1 DEF Grown
<1>5. depth[r] = 0
  BY <1>1 DEF FoldersInv, DepthInv
<1>6. ASSUME to = "look" PROVE depth[r] < Len(chain[r]) /\ Leads(disk'[<<>>])
  <2>1. chain[r] # <<>> /\ Leads(disk[<<>>])
    BY <1>3, <1>6 DEF Leads, Kinds
  <2>2. QED
    BY <1>1, <1>5, <2>1, StepFacts
<1>7. to = "failed" => InTheWay(r)'
  BY <1>1 DEF InTheWay
<1> HIDE DEF to
<1>8. QED
  BY <1>1, <1>2, <1>3, <1>4, <1>5, <1>6, <1>7, GoingKeeps

LEMMA MakeRootKeeps ==
  ASSUME FoldersAssumption, FoldersInv, NEW r \in Receives, MakeRoot(r)
  PROVE  Keeps(r)
<1> DEFINE to == IF disk[<<>>] \in {"file", "dangling"} THEN "failed"
                 ELSE IF chain[r] = <<>> THEN "done" ELSE "look"
<1>1. /\ Stays /\ Becomes(r, to) /\ doing[r] = "make root"
      /\ disk' = [disk EXCEPT ![<<>>] = IF @ = "nothing" THEN "folder" ELSE @]
      /\ chain' = chain /\ planted' = planted /\ disturbed' = disturbed /\ failedDisk' = failedDisk
  BY DEF MakeRoot
<1>2. to \in Calls \cup Over /\ to # "make" /\ to \notin {"root", "make root"}
  BY DEF Calls, Over
<1>3. /\ <<>> \in Places /\ disk \in [Places -> Kinds] /\ failedDisk' \in BOOLEAN
      /\ disk[<<>>] \in Kinds
  BY <1>1, StepFacts DEF FoldersInv, FoldersTypeOK
<1>4. disk' \in [Places -> Kinds] /\ "folder" \in Kinds
  BY <1>1, <1>3 DEF Kinds
<1>5. Grown
  BY <1>1, <1>3 DEF Grown
<1>6. ASSUME to = "look" PROVE depth[r] < Len(chain[r]) /\ Leads(disk'[<<>>])
  <2>1. chain[r] # <<>> /\ disk'[<<>>] \in {"folder", "link"}
    BY <1>1, <1>3, <1>6 DEF Kinds
  <2>2. depth[r] = 0
    BY <1>1 DEF FoldersInv, DepthInv
  <2>3. QED
    BY <2>1, <2>2, StepFacts DEF Leads
<1>7. to = "failed" => InTheWay(r)'
  BY <1>1, <1>3 DEF InTheWay
<1> HIDE DEF to
<1>8. QED
  BY <1>1, <1>2, <1>3, <1>4, <1>5, <1>6, <1>7, GoingKeeps

LEMMA LookKeeps ==
  ASSUME FoldersAssumption, FoldersInv, NEW r \in Receives, Look(r)
  PROVE  Keeps(r)
<1>1. /\ doing[r] = "look"
      /\ disk' = disk /\ chain' = chain /\ planted' = planted /\ disturbed' = disturbed /\ failedDisk' = failedDisk
  BY DEF Look
<1>2. Grown /\ disk' \in [Places -> Kinds] /\ failedDisk' \in BOOLEAN
  BY <1>1 DEF Grown, FoldersInv, FoldersTypeOK
<1>3. /\ depth[r] < Len(chain[r]) /\ Here(r) \in Places
      /\ Here(r) \in PrefixesOf(chain[r]) \ {<<>>}
      /\ ~disturbed => Leads(disk[Parent(Here(r))]) /\ Leads(disk[<<>>])
  BY <1>1, StepFacts DEF FoldersInv, Good, RootInv
<1>4. CASE disk[Here(r)] = "folder"
  <2>1. PassAs(r, "folder")
    BY <1>4 DEF Look
  <2>2. "folder" \in Kinds
    BY DEF Kinds
  <2>3. QED
    BY <1>1, <1>2, <1>4, <2>1, <2>2, PassingKeeps
<1>5. CASE disk[Here(r)] # "folder"
  <2> DEFINE to == IF disk[Here(r)] = "nothing" /\ disk[Parent(Here(r))] # "file"
                     THEN "make" ELSE "failed"
  <2>1. Stays /\ Becomes(r, to)
    BY <1>5 DEF Look
  <2>2. to \in Calls \cup Over /\ to \in {"make", "failed"}
    BY DEF Calls, Over
  <2>3. to = "make" => disk'[Here(r)] = "nothing"
    BY <1>1
  <2>4. to = "failed" /\ ~disturbed => InTheWay(r)'
    BY <1>1, <1>3, <1>5 DEF InTheWay, Leads
  <2>5. to = "make" => depth[r] < Len(chain[r]) /\ (~disturbed => Leads(disk'[<<>>]))
    BY <1>1, <1>3
  <2> HIDE DEF to
  <2>6. QED
    BY <1>2, <2>1, <2>2, <2>3, <2>4, <2>5, GoingKeeps
<1>6. QED
  BY <1>4, <1>5

LEMMA MakeKeeps ==
  ASSUME FoldersAssumption, FoldersInv, NEW r \in Receives, Make(r)
  PROVE  Keeps(r)
<1>1. doing[r] = "make" /\ chain' = chain /\ planted' = planted /\ disturbed' = disturbed /\ failedDisk' = failedDisk
  BY DEF Make
<1>2. /\ depth[r] < Len(chain[r]) /\ Here(r) \in Places
      /\ Here(r) \in PrefixesOf(chain[r]) \ {<<>>}
      /\ ~disturbed => Leads(disk[Parent(Here(r))])
      /\ disk[Here(r)] \in {"nothing", "folder"} \/ depth[r] + 1 \in planted[r]
      /\ ~disturbed => disk[Here(r)] \in {"nothing", "folder"}
  BY <1>1, StepFacts DEF FoldersInv, Good, MakeInv
<1>3. disk \in [Places -> Kinds] /\ failedDisk' \in BOOLEAN /\ "folder" \in Kinds
  BY <1>1 DEF FoldersInv, FoldersTypeOK, Kinds
<1>4. CASE disk[Here(r)] # "nothing"
  <2>1. PassAs(r, disk[Here(r)]) /\ disk' = disk
    BY <1>4 DEF Make
  <2>2. Grown
    BY <1>1, <2>1 DEF Grown
  <2>3. QED
    BY <1>1, <1>2, <1>3, <1>4, <2>1, <2>2, PassingKeeps
<1>5. CASE disk[Here(r)] = "nothing" /\ Leads(disk[Parent(Here(r))])
  <2>1. PassAs(r, "folder") /\ disk' = [disk EXCEPT ![Here(r)] = "folder"]
    BY <1>5 DEF Make
  <2>2. Grown /\ disk' \in [Places -> Kinds] /\ disk'[Here(r)] = "folder"
    BY <1>1, <1>2, <1>3, <1>5, <2>1 DEF Grown
  <2>3. QED
    BY <1>1, <2>1, <2>2, PassingKeeps
<1>6. CASE disk[Here(r)] = "nothing" /\ ~Leads(disk[Parent(Here(r))])
  <2>1. Stays /\ Becomes(r, "failed") /\ disk' = disk
    BY <1>6 DEF Make
  <2>2. Grown /\ "failed" \in Calls \cup Over
    BY <1>1, <2>1 DEF Grown, Over
  <2>3. disturbed
    BY <1>2, <1>6
  <2>4. QED
    BY <1>3, <2>1, <2>2, <2>3, GoingKeeps
<1>7. QED
  BY <1>4, <1>5, <1>6

LEMMA DiskErrorKeeps ==
  ASSUME FoldersAssumption, FoldersInv, NEW r \in Receives, FolderError(r)
  PROVE  Keeps(r)
<1>1. /\ Becomes(r, "failed") /\ Stays /\ failedDisk' = TRUE
      /\ disk' = disk /\ chain' = chain /\ planted' = planted /\ disturbed' = disturbed
  BY DEF FolderError
<1>2. Grown /\ disk' \in [Places -> Kinds] /\ failedDisk' /\ "failed" \in Calls \cup Over
  BY <1>1 DEF Grown, FoldersInv, FoldersTypeOK, Over
<1>3. QED
  BY <1>1, <1>2, GoingKeeps

\* Other programs.
LEMMA InterfereKeeps ==
  ASSUME FoldersAssumption, FoldersInv, NEW p \in Places, OthersChange(p)
  PROVE  FoldersTypeOK' /\ DepthInv' /\ \A r \in Receives : Good(r)'
<1>1. /\ disturbed' = TRUE
      /\ chain' = chain /\ doing' = doing /\ depth' = depth /\ passed' = passed /\ failedDisk' = failedDisk
      /\ \E kind \in Kinds :
           /\ disk' = [disk EXCEPT ![p] = kind]
           /\ \/ kind = "nothing" /\ planted' = planted
              \/ planted' = [r \in Receives |-> planted[r] \cup
                   (IF doing[r] = "make" /\ Here(r) = p THEN {depth[r] + 1} ELSE {})]
  BY DEF OthersChange, Kinds
<1>2. disk' \in [Places -> Kinds] /\ planted' \in [Receives -> SUBSET Nat]
  BY <1>1 DEF FoldersInv, FoldersTypeOK
<1>3. FoldersTypeOK'
  BY <1>1, <1>2, Zenon DEF FoldersInv, FoldersTypeOK
<1>4. DepthInv'
  BY <1>1 DEF FoldersInv, DepthInv
<1>5. Changed
  <2>1. \A r \in Receives : doing[r] = "make" => Here(r) \in Places
    BY StepFacts
  <2>2. QED
    BY <1>1, <2>1 DEF Changed, FoldersInv, FoldersTypeOK
<1>6. ASSUME NEW r \in Receives PROVE Good(r)'
  BY <1>1, <1>5, OthersStayGood DEF Same
<1>7. QED
  BY <1>3, <1>4, <1>6

LEMMA NextInv ==
  ASSUME FoldersAssumption, FoldersInv, [FoldersNext]_foldersVars
  PROVE  FoldersInv'
<1>1. ASSUME NEW r \in Receives, LookAtRoot(r) \/ MakeRoot(r) \/ Look(r) \/ Make(r) \/ FolderError(r)
      PROVE  FoldersInv'
  <2>1. Keeps(r)
    BY <1>1, LookAtRootKeeps, MakeRootKeeps, LookKeeps, MakeKeeps, DiskErrorKeeps
  <2>2. failedDisk => failedDisk'
    BY <1>1, Zenon DEF LookAtRoot, MakeRoot, Look, Make, FolderError
  <2>3. ASSUME NEW q \in Receives PROVE Good(q)'
    BY <2>1, <2>2, OthersStayGood DEF Keeps
  <2>4. QED
    BY <2>1, <2>3 DEF Keeps, FoldersInv
<1>2. ASSUME NEW p \in Places, OthersChange(p)
      PROVE  FoldersInv'
  BY <1>2, InterfereKeeps DEF FoldersInv
<1>3. CASE UNCHANGED foldersVars
  <2>1. UNCHANGED <<disk, chain, doing, depth, passed, planted, disturbed, failedDisk>>
    BY <1>3 DEF foldersVars
  <2>2. FoldersTypeOK' /\ DepthInv'
    BY <2>1, Zenon DEF FoldersInv, FoldersTypeOK, DepthInv
  <2>3. Grown /\ (failedDisk => failedDisk') /\ \A r \in Receives : Same(r)
    BY <2>1, Zenon DEF Grown, Same
  <2>4. ASSUME NEW r \in Receives PROVE Good(r)'
    BY <2>3, OthersStayGood
  <2>5. QED
    BY <2>2, <2>4 DEF FoldersInv
<1>4. QED
  BY <1>1, <1>2, <1>3 DEF FoldersNext

\* A link or a file that is there when a receive looks is never passed: what
\* a chain goes through is a folder, or came from another program after the
\* look, for any receives, chains and disk.  (writer.rs 9-11, 218-221, 263-285)
THEOREM ChainsAreFolders ==
  ASSUME FoldersAssumption
  PROVE  FoldersSpec => []FoldersOnly
<1>1. FoldersInit => FoldersInv
  BY FoldersStart
<1>2. FoldersInv /\ [FoldersNext]_foldersVars => FoldersInv'
  BY NextInv
<1>3. FoldersInv => FoldersOnly
  BY DEF FoldersInv, Good, Made, FoldersOnly, Upto
<1>4. QED
  BY <1>1, <1>2, <1>3, PTL DEF FoldersSpec

\* However many receives make the same folders at once, none fails because of
\* another.  (writer.rs 277-279)
THEOREM ReceivesShareFolders ==
  ASSUME FoldersAssumption
  PROVE  FoldersSpec => []SharedFoldersWork
<1>1. FoldersInit => FoldersInv
  BY FoldersStart
<1>2. FoldersInv /\ [FoldersNext]_foldersVars => FoldersInv'
  BY NextInv
<1>3. FoldersInv => SharedFoldersWork
  BY DEF FoldersInv, Good, Excused, InTheWay, SharedFoldersWork
<1>4. QED
  BY <1>1, <1>2, <1>3, PTL DEF FoldersSpec

-----------------------------------------------------------------------------
(* The files in them. *)


Verified == \A w \in Writers : pc[w] = "rename" => written[w] = length[w]

IInv == TypeOK /\ OnlyWholeFiles /\ PartFilesAccounted /\ Verified

USE WriterAssumption

LEMMA InitInv == Init => IInv
BY DEF Init, IInv, TypeOK, OnlyWholeFiles, PartFilesAccounted, Verified,
       Names, Contents, Running, Open, Stopped

(* Before there is a part file the directory can only lose names. *)
LEMMA PlanningKeepsInv ==
  ASSUME IInv, NEW w \in Writers,
         PlanFile(w) \/ ResolveConflict(w) \/ RemoveFirst(w) \/ ProbeName(w)
  PROVE  IInv'
<1> USE DEF IInv, TypeOK, OnlyWholeFiles, PartFilesAccounted, Verified, GoTo,
            Named, given, Names, Contents, Running, Open, Stopped
<1>0. ASSUME NEW n \in Names, NEW taken \in Looks(n), Looked(w, n, taken)
      PROVE  unseen' \in [Writers -> BOOLEAN]
  BY <1>0 DEF Looked, Looks, Taken
<1>1. CASE PlanFile(w)
  <2>1. PICK to \in {"resolve", "skipped", "failed"} : GoTo(w, to)
    BY <1>1 DEF PlanFile
  <2>2. QED  BY <1>1, <2>1 DEF PlanFile
<1>2. CASE ResolveConflict(w)
  <2>1. \E to \in {"remove", "probe", "failed", "create"}, n \in {0, 1} :
          GoTo(w, to) /\ Named(w, n)
    BY <1>2 DEF ResolveConflict
  <2>2. {0, 1} \subseteq Names
    OBVIOUS
  <2>3. PICK to \in {"remove", "probe", "failed", "create"}, n \in Names :
          GoTo(w, to) /\ Named(w, n)
    BY <2>1, <2>2
  <2>4. unseen' \in [Writers -> BOOLEAN]
    BY <1>0, <1>2, <2>2 DEF ResolveConflict
  <2>5. TypeOK'
    BY <1>2, <2>3, <2>4 DEF ResolveConflict
  <2>6. (OnlyWholeFiles /\ PartFilesAccounted /\ Verified)'
    BY <1>2, <2>3 DEF ResolveConflict
  <2>7. QED  BY <2>5, <2>6
<1>3. CASE RemoveFirst(w)
  <2>1. dir' \in {dir, [dir EXCEPT ![0] = "nothing"]}
    BY <1>3 DEF RemoveFirst
  <2>2. PICK to \in {"failed", "create"} : GoTo(w, to)
    BY <1>3 DEF RemoveFirst
  <2>3. TypeOK'
    BY <1>3, <2>1, <2>2 DEF RemoveFirst
  <2>4. OnlyWholeFiles'
    BY <1>3, <2>1, <2>2 DEF RemoveFirst
  <2>5. (PartFilesAccounted /\ Verified)'
    BY <1>3, <2>2 DEF RemoveFirst
  <2>6. QED  BY <2>3, <2>4, <2>5
<1>4. CASE ProbeName(w)
  <2>1. unseen' \in [Writers -> BOOLEAN]
    BY <1>0, <1>4 DEF ProbeName
  <2>2. CASE GoTo(w, "create") /\ UNCHANGED name
    BY <1>4, <2>1, <2>2 DEF ProbeName
  <2>3. CASE GoTo(w, "failed") /\ UNCHANGED name
    BY <1>4, <2>1, <2>3 DEF ProbeName
  <2>4. CASE name[w] < MaxNames /\ Named(w, name[w] + 1) /\ UNCHANGED pc
    BY <1>4, <2>1, <2>4 DEF ProbeName
  <2>5. QED  BY <1>4, <2>2, <2>3, <2>4 DEF ProbeName
<1>5. QED  BY <1>1, <1>2, <1>3, <1>4

(* From the part file to the finished name. *)
LEMMA ReceivingKeepsInv ==
  ASSUME IInv, NEW w \in Writers,
         CreatePart(w) \/ Write(w) \/ Verify(w) \/ Rename(w) \/ ApplyMode(w)
  PROVE  IInv'
<1> USE DEF IInv, TypeOK, OnlyWholeFiles, PartFilesAccounted, Verified, GoTo,
            given, Names, Contents, Running, Open, Stopped
<1>1. CASE CreatePart(w)  BY <1>1 DEF CreatePart
<1>2. CASE Write(w)  BY <1>2 DEF Write
<1>3. CASE Verify(w)  BY <1>3 DEF Verify
<1>4. CASE Rename(w)  BY <1>4 DEF Rename
<1>5. CASE ApplyMode(w)  BY <1>5 DEF ApplyMode
<1>6. QED  BY <1>1, <1>2, <1>3, <1>4, <1>5

(* However a writer ends early, and whatever others do to the names. *)
LEMMA TroubleKeepsInv ==
  ASSUME IInv,
         \/ \E w \in Writers : Abort(w) \/ DiskError(w) \/ Die(w)
         \/ \E n \in Names : Interfere(n)
  PROVE  IInv'
<1> USE DEF IInv, TypeOK, OnlyWholeFiles, PartFilesAccounted, Verified, GoTo,
            given, Names, Contents, Running, Open, Stopped
<1>1. ASSUME NEW w \in Writers, Abort(w)  PROVE IInv'
  BY <1>1 DEF Abort, Fail
<1>2. ASSUME NEW w \in Writers, DiskError(w)  PROVE IInv'
  BY <1>2 DEF DiskError, Fail
<1>3. ASSUME NEW w \in Writers, Die(w)  PROVE IInv'
  BY <1>3 DEF Die
<1>4. ASSUME NEW n \in Names, Interfere(n)  PROVE IInv'
  BY <1>4 DEF Interfere
<1>5. QED  BY <1>1, <1>2, <1>3, <1>4

LEMMA StepInv == IInv /\ [Next]_vars => IInv'
<1> SUFFICES ASSUME IInv, [Next]_vars  PROVE IInv'
  OBVIOUS
<1>1. CASE UNCHANGED vars
  BY <1>1 DEF vars, IInv, TypeOK, OnlyWholeFiles, PartFilesAccounted, Verified
<1>2. CASE Next
  BY <1>2, PlanningKeepsInv, ReceivingKeepsInv, TroubleKeepsInv DEF Next, Step
<1>3. QED  BY <1>1, <1>2

(* The invariant from which the rest follows (writer.rs 87-206). *)
THEOREM Inductive == Spec => []IInv
BY InitInv, StepInv, PTL DEF Spec

(* Writers stay within the places, names and lengths of the code. *)
THEOREM TypeCorrect == Spec => []TypeOK
BY Inductive, PTL DEF IInv

(***************************************************************************)
(* No name ever shows a file that is not whole and verified, for any       *)
(* number of writers in one directory (writer.rs 113-158).                 *)
(***************************************************************************)
THEOREM OnlyWholeFilesHolds == Spec => []OnlyWholeFiles
BY Inductive, PTL DEF IInv

(* Only a killed writer leaves its part file behind (writer.rs 195-206). *)
THEOREM PartFilesAccountedHolds == Spec => []PartFilesAccounted
BY Inductive, PTL DEF IInv

(***************************************************************************)
(* No writer replaces or removes a folder, even one that appears between   *)
(* its look at the name and its use of it (writer.rs 154, 301-311).        *)
(***************************************************************************)
THEOREM FoldersStayHolds == Spec => FoldersStay
<1> DEFINE Kept(n) == dir[n] = "folder" => /\ dir'[n] \in {"folder", "nothing"}
                                           /\ dir'[n] = "nothing" => pc' = pc
<1>1. ASSUME TypeOK, [Next]_vars, NEW n \in Names  PROVE Kept(n)
  <2>1. CASE UNCHANGED dir
    BY <2>1
  <2>2. ASSUME NEW w \in Writers, RemoveFirst(w)  PROVE Kept(n)
    BY <1>1, <2>2 DEF RemoveFirst, TypeOK, Names
  <2>3. ASSUME NEW w \in Writers, Rename(w)  PROVE Kept(n)
    BY <1>1, <2>3 DEF Rename, TypeOK
  <2>4. ASSUME NEW m \in Names, Interfere(m)  PROVE Kept(n)
    BY <1>1, <2>4 DEF Interfere, TypeOK
  <2>5. QED
    BY <1>1, <2>1, <2>2, <2>3, <2>4
    DEF Next, Step, vars, PlanFile, ResolveConflict, ProbeName, CreatePart,
        Write, Verify, ApplyMode, Abort, DiskError, Die
<1>2. TypeOK /\ [Next]_vars => \A n \in Names : Kept(n)
  BY <1>1
<1>3. TypeOK /\ [Next]_vars
        => [\A n \in Names : dir[n] = "folder" => dir'[n] \in {"folder", "nothing"}
              /\ (dir'[n] = "nothing" => pc' = pc)]_vars
  BY <1>2
<1>4. QED
  BY <1>3, TypeCorrect, PTL DEF Spec, FoldersStay

-----------------------------------------------------------------------------
(* Where a writer settled on a name that somebody else has, it was told to *)
(* overwrite or could not know; only overwriting comes by "remove".        *)
Settled ==
  \A w \in Writers :
    /\ pc[w] = "remove" => policy[w] = "overwrite" /\ name[w] = 0
    /\ pc[w] \in {"create"} \cup Open /\ theirs[name[w]] # "nothing" /\ dir[name[w]] = theirs[name[w]]
         => policy[w] = "overwrite" \/ unseen[w]

LEMMA SettledInit == Init => Settled
BY DEF Init, Settled, Open

\* What a writer that stays where it is sees of the steps of others.
LEMMA SettledOthers ==
  ASSUME TypeOK, Settled, NEW w \in Writers, UNCHANGED <<theirs, policy>>,
         \A v \in Writers \ {w} : pc'[v] = pc[v] /\ name'[v] = name[v] /\ unseen'[v] = unseen[v],
         \A n \in Names : dir'[n] = dir[n] \/ dir'[n] \in {"nothing", w},
         \/ pc'[w] \notin {"create", "remove"} \cup Open
         \/ pc'[w] = "remove" /\ policy[w] = "overwrite" /\ name'[w] = 0
         \/ /\ pc'[w] \in {"create"} \cup Open
            /\ theirs[name'[w]] # "nothing" /\ dir'[name'[w]] = theirs[name'[w]]
                 => policy[w] = "overwrite" \/ unseen'[w]
  PROVE  Settled'
<1>1. \A n \in Names : theirs[n] # "nothing" /\ dir'[n] = theirs[n] => dir[n] = theirs[n]
  BY WriterAssumption DEF TypeOK
<1>2. "create" # "remove" /\ "remove" \notin Open
  BY DEF Open
<1>3. QED
  BY <1>1, <1>2 DEF Settled, TypeOK

LEMMA SettledStep == TypeOK /\ Settled /\ [Next]_vars => Settled'
<1> SUFFICES ASSUME TypeOK, Settled, [Next]_vars  PROVE Settled'
  OBVIOUS
<1>1. CASE UNCHANGED vars
  BY <1>1 DEF vars, Settled
<1>2. ASSUME NEW w \in Writers, PlanFile(w)  PROVE Settled'
  <2>1. PICK to \in {"resolve", "skipped", "failed"} : GoTo(w, to)
    BY <1>2 DEF PlanFile
  <2>2. QED  BY <1>2, <2>1, SettledOthers DEF PlanFile, GoTo, given, TypeOK, Open
<1>3. ASSUME NEW w \in Writers, ResolveConflict(w)  PROVE Settled'
  <2>1. PICK taken \in Looks(0) :
          /\ Looked(w, 0, taken)
          /\ IF taken
               THEN CASE policy[w] = "overwrite" -> GoTo(w, "remove") /\ Named(w, 0)
                      [] policy[w] = "rename" -> GoTo(w, "probe") /\ Named(w, 1)
                      [] OTHER -> GoTo(w, "failed") /\ Named(w, 0)
               ELSE GoTo(w, "create") /\ Named(w, 0)
    BY <1>3, Zenon DEF ResolveConflict
  <2>2. UNCHANGED <<dir, theirs, policy>>
    BY <1>3 DEF ResolveConflict, given
  <2>3. CASE ~taken
    BY <2>1, <2>2, <2>3, SettledOthers DEF Looked, GoTo, Named, TypeOK, Taken, Names
  <2>4. CASE taken
    <3>1. \/ policy[w] = "overwrite" /\ GoTo(w, "remove") /\ Named(w, 0)
          \/ \E to \in {"probe", "failed"}, n \in {0, 1} : GoTo(w, to) /\ Named(w, n)
      BY <2>1, <2>4
    <3>2. QED
      BY <2>1, <2>2, <3>1, SettledOthers DEF Looked, GoTo, Named, TypeOK, Open
  <2>5. QED  BY <2>3, <2>4
<1>4. ASSUME NEW w \in Writers, RemoveFirst(w)  PROVE Settled'
  <2>1. policy[w] = "overwrite"
    BY <1>4 DEF RemoveFirst, Settled
  <2>2. dir' \in {dir, [dir EXCEPT ![0] = "nothing"]}
    BY <1>4 DEF RemoveFirst
  <2>3. PICK to \in {"failed", "create"} : GoTo(w, to)
    BY <1>4 DEF RemoveFirst
  <2>4. QED
    BY <1>4, <2>1, <2>2, <2>3, SettledOthers DEF RemoveFirst, GoTo, given, TypeOK, Open
<1>5. ASSUME NEW w \in Writers, ProbeName(w)  PROVE Settled'
  <2>1. PICK taken \in Looks(name[w]) :
          /\ Looked(w, name[w], taken)
          /\ \/ ~taken /\ GoTo(w, "create") /\ UNCHANGED name
             \/ taken /\ name[w] < MaxNames /\ Named(w, name[w] + 1) /\ UNCHANGED pc
             \/ taken /\ name[w] = MaxNames /\ GoTo(w, "failed") /\ UNCHANGED name
    BY <1>5, Zenon DEF ProbeName
  <2>2. UNCHANGED <<dir, theirs, policy>> /\ pc[w] = "probe"
    BY <1>5 DEF ProbeName, given
  <2>3. CASE ~taken
    BY <2>1, <2>2, <2>3, SettledOthers DEF Looked, GoTo, TypeOK, Taken
  <2>4. CASE taken
    <3>1. \A v \in Writers \ {w} : pc'[v] = pc[v] /\ name'[v] = name[v] /\ unseen'[v] = unseen[v]
      BY <2>1, <2>4 DEF Looked, GoTo, Named, TypeOK
    <3>2. pc'[w] \in {"probe", "failed"}
      BY <2>1, <2>2, <2>4 DEF GoTo, Named, TypeOK
    <3>3. QED
      BY <2>2, <3>1, <3>2, SettledOthers DEF Open
  <2>5. QED  BY <2>3, <2>4
<1>6. ASSUME NEW w \in Writers, CreatePart(w) \/ Write(w) \/ Verify(w) \/ ApplyMode(w)
      PROVE  Settled'
  BY <1>6 DEF CreatePart, Write, Verify, ApplyMode, Settled, GoTo, given, TypeOK, Open
<1>7. ASSUME NEW w \in Writers, Rename(w)  PROVE Settled'
  <2>1. dir' = [dir EXCEPT ![name[w]] = w] /\ GoTo(w, "mode")
        /\ UNCHANGED <<theirs, policy, name, unseen>>
    BY <1>7 DEF Rename, given
  <2>2. QED
    BY <2>1, SettledOthers DEF GoTo, TypeOK, Open
<1>8. ASSUME NEW w \in Writers, Abort(w) \/ DiskError(w) \/ Die(w)
      PROVE  Settled'
  BY <1>8 DEF Abort, DiskError, Fail, Die, Settled, GoTo, given, TypeOK, Open
<1>9. ASSUME NEW n \in Names, Interfere(n)  PROVE Settled'
  <2>1. PICK c \in {"nothing", "file", "folder"} :
          /\ dir' = [dir EXCEPT ![n] = c] /\ theirs' = [theirs EXCEPT ![n] = c]
          /\ unseen' = [w \in Writers |->
               unseen[w] \/ (c # "nothing" /\ name[w] = n /\ pc[w] \in {"create"} \cup Open)]
    BY <1>9 DEF Interfere
  <2>2. UNCHANGED <<policy, pc, name>>
    BY <1>9 DEF Interfere, given
  <2>3. ASSUME NEW w \in Writers, pc'[w] \in {"create"} \cup Open,
               theirs'[name'[w]] # "nothing", dir'[name'[w]] = theirs'[name'[w]]
        PROVE  policy'[w] = "overwrite" \/ unseen'[w]
    <3>1. pc[w] \in {"create"} \cup Open /\ name[w] \in Names
      BY <2>2, <2>3 DEF TypeOK
    <3>2. CASE name[w] = n
      BY <2>1, <2>2, <2>3, <3>1, <3>2 DEF TypeOK
    <3>3. CASE name[w] # n
      BY <2>1, <2>2, <2>3, <3>1, <3>3 DEF TypeOK, Settled
    <3>4. QED  BY <3>2, <3>3
  <2>4. QED
    BY <2>2, <2>3 DEF Settled
<1>10. QED
  BY <1>1, <1>2, <1>3, <1>4, <1>5, <1>6, <1>7, <1>8, <1>9 DEF Next, Step

(***************************************************************************)
(* A receiver replaces or removes what somebody else put in the directory  *)
(* only if told to overwrite, or if it came after the receiver looked, or  *)
(* the look failed, for any number of receivers and names, whatever other  *)
(* programs and the disk do (writer.rs 12-14, 290-346; receiver.rs 473).   *)
(***************************************************************************)
THEOREM OthersKeptHolds == Spec => OthersKept
<1> DEFINE Kept == \A w \in Writers : \A n \in Names :
       /\ pc'[w] # pc[w]
       /\ theirs[n] # "nothing" /\ dir[n] = theirs[n] /\ dir'[n] # dir[n]
       => n = name[w] /\ (policy[w] = "overwrite" \/ unseen[w])
<1>1. ASSUME TypeOK, Settled, [Next]_vars  PROVE Kept
  <2>1. ASSUME NEW w \in Writers, RemoveFirst(w)  PROVE Kept
    BY <1>1, <2>1 DEF RemoveFirst, Settled, TypeOK, GoTo
  <2>2. ASSUME NEW w \in Writers, Rename(w)  PROVE Kept
    BY <1>1, <2>2 DEF Rename, Settled, TypeOK, GoTo, Open
  <2>3. ASSUME NEW m \in Names, Interfere(m)  PROVE Kept
    BY <2>3 DEF Interfere
  <2>4. CASE UNCHANGED dir
    BY <2>4
  <2>5. QED
    BY <1>1, <2>1, <2>2, <2>3, <2>4
    DEF Next, Step, vars, PlanFile, ResolveConflict, ProbeName, CreatePart,
        Write, Verify, ApplyMode, Abort, DiskError, Die
<1>2. TypeOK /\ Settled /\ [Next]_vars => [Kept]_vars
  BY <1>1
<1>3. Spec => []Settled
  BY SettledInit, SettledStep, TypeCorrect, PTL DEF Spec
<1>4. QED
  BY <1>2, <1>3, TypeCorrect, PTL DEF Spec, OthersKept
=============================================================================
