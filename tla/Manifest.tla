------------------------------ MODULE Manifest ------------------------------
(***************************************************************************)
(* From the arguments of `rusp send` to an agreed selection: scan of       *)
(* src/files/scan.rs with the path rules of src/files/safe_path.rs, the    *)
(* receiver's inspect and plan_for (src/transfer/receiver.rs), and         *)
(* validate_selection (src/transfer/sender.rs).  The other build may       *)
(* announce kinds of items this one does not know.                         *)
(*                                                                         *)
(* A path is a sequence of components: the separator before it, a stem     *)
(* with its extension, the numbers "(n)" that disambiguate has put behind  *)
(* the stem, what the last resort has put behind all that, the length of   *)
(* it all, and what is wrong with it.  The first has no separator, which counts as "/".*)
(* A name, as the file system has it, has no "/", but may have "\", which  *)
(* only the path rules take for a separator.                               *)
(***************************************************************************)
EXTENDS Naturals, FiniteSets, Sequences

Component == [sep : {"slash", "backslash"}, stem : STRING, marks : Seq(Nat), more : Seq(Nat),
              size : Nat, fault : {"none", "drive", "refused"}]
Names == {n \in Seq(Component) : n # <<>> /\ \A i \in 1..Len(n) : n[i].sep = "slash" <=> i = 1}
Relative == {p \in Seq(Component) : p # <<>> /\ p[1].sep = "slash"}

\* What is in a folder, as WalkDir finds it: links that are not followed, or
\* were on the way, included.
Items == [path : Relative, kind : {"file", "directory", "special", "unreadable"},
          link : {"no", "is", "through"}]

\* One more name behind a path.
Inside(folder, path) ==
  LET name == SubSeq(path, Len(folder) + 1, Len(path))
  IN  name \in Names /\ path = folder \o name

\* A walk shows a thing once, unless it cannot be read, and a folder before
\* what is in it.
Walks ==
  {w \in Seq(Items) :
     \A i \in 1..Len(w) :
       /\ \A j \in 1..Len(w) : i # j /\ w[i].path = w[j].path =>
            "unreadable" \in {w[i].kind, w[j].kind}
       /\ w[i].path \in Names \/ \E j \in 1..(i - 1) :
            /\ Inside(w[j].path, w[i].path) /\ w[j].kind = "directory"
            /\ w[i].link = "no" => w[j].link = "no"}

Arguments == [name : Names, kind : {"file", "directory", "special", "missing"},
              link : BOOLEAN, walk : Walks]
Entries == {e \in [path : Seq(Component), kind : {"file", "directory", "unknown"}, local : BOOLEAN] :
              e.local <=> e.kind = "file"}

CONSTANTS
  CommandLines,   \* sequences of arguments
  OtherOffers,    \* what another build may offer: sequences of entries
  MaxComponent, MaxPath, MaxEntries,   \* the limits of a valid offer
  LastTry,        \* the last "(n)" that disambiguate tries
  Policies        \* conflict policies of the receiver

-----------------------------------------------------------------------------
(* safe_path *)

\* The bytes of a path: each component's, and the separators between them.
PathSize(path) == Cardinality(UNION {{i} \X (0..path[i].size) : i \in 1..Len(path)}) - 1

\* The bytes of a number and of " (n)", and that a name leaves room for it, as
\* a file system's 255 bytes do of 4096.
Digits(n) == Cardinality({k \in 0..9 : 10^k <= n})
MarkSize(n) == 3 + Digits(n)
LeavesRoom(name) == \A n \in 2..LastTry : PathSize(name) + MarkSize(n) <= MaxPath

ManifestAssumption ==
  /\ {MaxComponent, MaxPath, MaxEntries, LastTry} \subseteq Nat
  /\ CommandLines \subseteq Seq(Arguments)
  /\ \A line \in CommandLines : \A i \in 1..Len(line) : LeavesRoom(line[i].name)
  /\ OtherOffers \subseteq Seq(Entries)

\* validate: a fault is anything that it refuses in a component anywhere; a
\* letter and a colon are refused at the beginning of the path only.
Validate(path) ==
  /\ path # <<>> /\ PathSize(path) <= MaxPath
  /\ \A i \in 1..Len(path) : /\ path[i].size <= MaxComponent
                             /\ path[i].fault \in {"none", "drive"}
                             /\ path[i].fault = "drive" => i > 1

\* resolve: the components one below the other, under the destination,
\* whichever separators were between them.
OnDisk(path) == [i \in 1..Len(path) |-> [path[i] EXCEPT !.sep = "slash"]]

VARIABLES
  origin,     \* "ours" or "other": who makes the offer
  follow,     \* ScanOptions::follow_symlinks
  toScan,     \* arguments not yet looked at
  toWalk,     \* what is left of the folder that is walked, under its new name
  taken,      \* used_names: the top-level names given
  sources,    \* Scan::sources, entries with a flag: is there a local file
  policy,     \* the receiver's conflict policy
  wanted, skipped,  \* the receiver's Plan, indices into the offer
  nextEntry,  \* the entry that plan_for looks at
  offer       \* "scanning", "offered", "planning", "agreed", or how it failed

manifestVars == <<origin, follow, toScan, toWalk, taken, sources, policy, wanted,
                  skipped, nextEntry, offer>>

-----------------------------------------------------------------------------
(* scan *)

First(S) == CHOOSE n \in S : \A k \in S : n <= k
EndingIn(name, c) == [name EXCEPT ![Len(name)] = c]
Mark(name, n) ==
  EndingIn(name, [name[Len(name)] EXCEPT !.marks = Append(@, n), !.size = @ + MarkSize(n)])

\* The last resort: a number behind everything, compared with nothing.
Fallback(name) ==
  LET n == Cardinality(taken)
  IN  EndingIn(name, [name[Len(name)] EXCEPT !.more = Append(@, n), !.size = @ + 1 + Digits(n)])

\* Mutant of Disambiguate: a name is compared with nothing at all.
DisambiguateNot(name) == name

Disambiguate(name) ==
  LET free == {n \in 2..LastTry : Mark(name, n) \notin taken}
  IN  IF name \notin taken THEN name
      ELSE IF free # {} THEN Mark(name, First(free)) ELSE Fallback(name)

Entry(path, kind) == [path |-> path, kind |-> kind, local |-> kind = "file"]

ManifestInit ==
  /\ origin \in {"ours", "other"}
  /\ follow \in BOOLEAN
  /\ toScan \in IF origin = "ours" THEN CommandLines ELSE {<<>>}
  /\ sources \in IF origin = "ours" THEN {<<>>} ELSE OtherOffers
  /\ toWalk = <<>> /\ taken = {}
  /\ policy \in Policies
  /\ wanted = <<>> /\ skipped = <<>> /\ nextEntry = 1
  /\ offer = IF origin = "ours" THEN "scanning" ELSE "offered"

Fixed == <<origin, follow, policy>>
Plan == <<wanted, skipped, nextEntry>>
Scanning == offer = "scanning" /\ toWalk = <<>> /\ toScan # <<>>
LeftOut(argument) == argument.link /\ ~follow

SkipLink ==
  /\ Scanning /\ LeftOut(Head(toScan))
  /\ toScan' = Tail(toScan)
  /\ UNCHANGED <<toWalk, taken, sources, offer, Fixed, Plan>>

\* The scan ends: nothing there, or no name to send it under; top_level_name
\* also refuses what the receiver would.
Unscannable ==
  /\ Scanning /\ ~LeftOut(Head(toScan))
  /\ Head(toScan).kind = "missing" \/ ~Validate(Head(toScan).name)
  /\ offer' = "unscannable"
  /\ UNCHANGED <<toScan, toWalk, taken, sources, Fixed, Plan>>

\* The name is taken before it is known whether there is anything to send.
\* add_directory begins with the folder itself.
ScanArgument ==
  /\ Scanning /\ ~LeftOut(Head(toScan))
  /\ LET argument == Head(toScan)
         top == Disambiguate(argument.name)
     IN  /\ argument.kind # "missing" /\ Validate(argument.name)
         /\ taken' = taken \cup {top}
         /\ sources' = IF argument.kind = "special" THEN sources
                       ELSE Append(sources, Entry(top, argument.kind))
         /\ toWalk' = IF argument.kind # "directory" THEN <<>>
                      ELSE [i \in 1..Len(argument.walk) |->
                              [argument.walk[i] EXCEPT !.path = top \o @]]
  /\ toScan' = Tail(toScan)
  /\ UNCHANGED <<offer, Fixed, Plan>>

\* Without follow_links WalkDir stays out of linked folders and shows the
\* links themselves, which are then left out.
Unseen(item) == item.kind = "unreadable" \/ (item.link = "through" /\ ~follow)
Kept(item) == item.kind \in {"file", "directory"} /\ (item.link = "no" \/ follow)
Walking == offer = "scanning" /\ toWalk # <<>>

PassItem ==
  /\ Walking /\ Unseen(Head(toWalk))
  /\ toWalk' = Tail(toWalk)
  /\ UNCHANGED <<toScan, taken, sources, offer, Fixed, Plan>>

\* Every path is validated, under the name its folder has been given, also
\* those of the links and sockets that are then left out. A file that is gone
\* when its metadata are read ends the scan as well.
RefuseItem ==
  /\ Walking /\ ~Unseen(Head(toWalk))
  /\ \/ ~Validate(Head(toWalk).path)
     \/ Kept(Head(toWalk)) /\ Head(toWalk).kind = "file"
  /\ offer' = "unscannable"
  /\ UNCHANGED <<toScan, toWalk, taken, sources, Fixed, Plan>>

TakeItem ==
  /\ Walking /\ ~Unseen(Head(toWalk))
  /\ LET item == Head(toWalk)
     IN  /\ Validate(item.path)
         /\ sources' = IF Kept(item) THEN Append(sources, Entry(item.path, item.kind)) ELSE sources
  /\ offer' = IF Len(sources') > MaxEntries THEN "too many" ELSE offer
  /\ toWalk' = Tail(toWalk)
  /\ UNCHANGED <<toScan, taken, Fixed, Plan>>

MakeOffer ==
  /\ offer = "scanning" /\ toWalk = <<>> /\ toScan = <<>>
  /\ offer' = IF sources = <<>> THEN "empty"
              ELSE IF Len(sources) > MaxEntries THEN "too many" ELSE "offered"
  /\ UNCHANGED <<toScan, toWalk, taken, sources, Fixed, Plan>>

-----------------------------------------------------------------------------
(* The receiver. *)

Repeats == \E i, j \in 1..Len(sources) : i # j /\ sources[i].path = sources[j].path

Inspect ==
  /\ offer = "offered"
  /\ offer' = IF /\ Len(sources) \in 1..MaxEntries
                 /\ \A i \in 1..Len(sources) : Validate(sources[i].path)
                 /\ ~Repeats
                THEN "planning" ELSE "refused"
  /\ UNCHANGED <<toScan, toWalk, taken, sources, Fixed, Plan>>

Want == wanted' = Append(wanted, nextEntry) /\ UNCHANGED <<skipped, offer>>
Skip == skipped' = Append(skipped, nextEntry) /\ UNCHANGED <<wanted, offer>>

\* Mutant of PlanEntry: folders are planned like files.
PlanEntryAlike ==
  /\ offer = "planning" /\ nextEntry <= Len(sources)
  /\ nextEntry' = nextEntry + 1
  /\ LET kind == sources[nextEntry].kind
     IN  IF kind = "unknown" THEN Skip
         ELSE \E exists \in BOOLEAN :
                CASE exists /\ policy = "skip" -> Skip
                  [] exists /\ policy = "fail" -> offer' = "exists" /\ UNCHANGED <<wanted, skipped>>
                  [] OTHER -> Want
  /\ UNCHANGED <<toScan, toWalk, taken, sources, Fixed>>

\* plan_for: what is at a file's place decides, and may be anything.
PlanEntry ==
  /\ offer = "planning" /\ nextEntry <= Len(sources)
  /\ nextEntry' = nextEntry + 1
  /\ LET kind == sources[nextEntry].kind
     IN  CASE kind = "unknown"   -> Skip
           [] kind = "directory" -> Want
           [] kind = "file" -> \E exists \in BOOLEAN :
                CASE exists /\ policy = "skip" -> Skip
                  [] exists /\ policy = "fail" -> offer' = "exists" /\ UNCHANGED <<wanted, skipped>>
                  [] OTHER -> Want
  /\ UNCHANGED <<toScan, toWalk, taken, sources, Fixed>>

\* validate_selection, when the Accept has arrived.
ValidSelection ==
  /\ \A i \in 1..Len(wanted) : wanted[i] <= Len(sources)
  /\ \A i \in 2..Len(wanted) : wanted[i - 1] < wanted[i]

Accept ==
  /\ offer = "planning" /\ nextEntry > Len(sources)
  /\ offer' = IF ValidSelection THEN "agreed" ELSE "mistrusted"
  /\ UNCHANGED <<toScan, toWalk, taken, sources, Fixed, Plan>>

ManifestNext ==
  \/ SkipLink \/ Unscannable \/ ScanArgument \/ PassItem \/ RefuseItem \/ TakeItem
  \/ MakeOffer \/ Inspect \/ PlanEntry \/ Accept

ManifestSpec == ManifestInit /\ [][ManifestNext]_manifestVars

-----------------------------------------------------------------------------
\* A name that disambiguate has made too long, or taken without comparing it.
Overdone(name) == \E i \in 1..Len(name) : name[i].size > MaxComponent \/ name[i].more # <<>>

\* "Anything we are about to offer must be something a receiver will accept"
\* (scan.rs 157-158): what scan offers passes inspect of the same build, for
\* all arguments, unless a name was made too long by its "(n)" or the last
\* resort was used, which nothing checks again.
OfferIsAccepted ==
  origin = "ours" /\ offer = "refused" => \E name \in taken : Overdone(name)

\* The selection that an accepted offer leads to is one that the sender takes,
\* item by item: it has a local file for each file asked for, the folder
\* around it is asked for earlier, and no two items would go to one place,
\* except where a name with a "\" in it means two components to the receiver.
\* (scan.rs 36-38, receiver.rs 425-486, sender.rs 229-256)
PlanIsSound ==
  /\ offer # "mistrusted"
  /\ offer = "agreed" => \A i \in 1..Len(wanted) :
       LET e == sources[wanted[i]]
           plain(f) == \A k \in 1..Len(f.path) : f.path[k].sep = "slash"
       IN  /\ e.kind # "unknown" /\ (e.kind = "file" => e.local)
           /\ origin = "ours" => e.path \in Names \/ \E j \in 1..(i - 1) :
                Inside(sources[wanted[j]].path, e.path) /\ sources[wanted[j]].kind = "directory"
           /\ \A j \in 1..(i - 1) : LET f == sources[wanted[j]] IN
                plain(e) /\ plain(f) => OnDisk(e.path) # OnDisk(f.path)
=============================================================================
