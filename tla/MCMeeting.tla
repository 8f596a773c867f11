----------------------------- MODULE MCMeeting -----------------------------
(***************************************************************************)
(* TLC instance of all that leads to a transfer and is around one: the     *)
(* settings, the code that one user gives to the other, the search of the  *)
(* local network, the rendezvous, the handshake, the frames, the offer and *)
(* the folders it is received into.  These components have no state in     *)
(* common, so `part` says which of them takes its steps while the others   *)
(* stay as they begin: one run, and no product of their states.            *)
(***************************************************************************)
EXTENDS MCRendezvous, Discovery, Settings, Codes, Handshake, Folders, Framing, Manifest

VARIABLE part

-----------------------------------------------------------------------------
(* Discovery: one sender, of the room; offers of others come as strays.     *)
TheHost == [s \in Senders |-> "host"]
ThePort == [s \in Senders |-> 2]

(* Handshake: two builds that share a version, one that shares none with    *)
(* the oldest.                                                              *)
ThreeBuilds == {[min |-> 1, max |-> 1], [min |-> 1, max |-> 2], [min |-> 2, max |-> 3]}

(* Framing: limits of zero, between the smallest and our own, and above.    *)
SomeCaps == [max_frame : {0, 6, 9}, chunk_size : {0, 2, 9}]

(* Folders: chains of every length that overlap.                            *)
SomeChains == {<<>>, <<"a">>, <<"a", "b">>}

-----------------------------------------------------------------------------
(* Settings: each there, empty, or not there; relays with and without a     *)
(* port; word counts in and out of range.                                   *)
At(host) == [host |-> host, port |-> Unset]
NoFile == [relay |-> Unset, token |-> Unset, lan |-> Unset, words |-> Unset,
           out |-> Unset, policy |-> Unset]
SomeFiles ==
  {[NoFile EXCEPT !.relay = r, !.token = t] :
     r \in {Unset, Empty, At("f"), [host |-> "f", port |-> 1]}, t \in {Unset, Empty, "ft"}}
    \cup {[NoFile EXCEPT !.lan = FALSE, !.words = w, !.out = "f", !.policy = "skip"] :
            w \in {Unset, 1, 6}}
NoEnv == [file |-> FALSE, relay |-> Unset, token |-> Unset, out |-> Unset]
SomeEnvs ==
  {[NoEnv EXCEPT !.relay = r, !.token = t] :
     r \in {Unset, Empty, At("e")}, t \in {Unset, Empty, "et"}}
    \cup {[NoEnv EXCEPT !.file = TRUE, !.out = o] : o \in {Unset, Empty, "e"}}
NoFlags == [config |-> FALSE, relay |-> Unset, token |-> Unset, noRelay |-> FALSE,
            noLan |-> FALSE, words |-> Unset, out |-> Unset, policy |-> Unset,
            overwrite |-> FALSE]
SomeFlags ==
  {[NoFlags EXCEPT !.relay = r, !.token = t, !.noRelay = n] :
     r \in {Unset, At("g")}, t \in {Unset, Empty, "gt"}, n \in BOOLEAN}
    \cup {[NoFlags EXCEPT !.config = c, !.noLan = TRUE, !.words = w] :
            c \in BOOLEAN, w \in {Unset, 1, 5}}
    \cup {[NoFlags EXCEPT !.out = "g", !.policy = p, !.overwrite = v] :
            p \in {Unset, "fail"}, v \in BOOLEAN}
    \cup {[NoFlags EXCEPT !.config = TRUE]}

-----------------------------------------------------------------------------
(* Offers.  Names: an ordinary one, one too long once it has been numbered, *)
(* one with a "\", one that is refused, and one refused at the top only.    *)
Part(stem, size, fault) ==
  [sep |-> "slash", stem |-> stem, marks |-> <<>>, more |-> <<>>, size |-> size, fault |-> fault]
Name(stem) == <<Part(stem, 3, "none")>>
Long  == <<Part("long", 7, "none")>>
Split == <<Part("x", 1, "none"), [Part("y", 1, "none") EXCEPT !.sep = "backslash"]>>
Bad   == <<Part("con", 3, "refused")>>
Drive == <<Part("c:", 2, "drive")>>
Numbered == <<[Part("a", 5, "none") EXCEPT !.more = <<3>>]>>

\* Folders: empty, nested, with links and sockets, with names that cannot be
\* offered, and one where a name with a "\" meets the path it looks like.
Item(path, kind, link) == [path |-> path, kind |-> kind, link |-> link]
SomeWalks ==
  {<<>>,
   <<Item(Name("a"), "file", "no"), Item(Name("d"), "directory", "no"),
     Item(Name("d") \o Name("a"), "file", "no")>>,
   <<Item(Name("a"), "file", "is"), Item(Name("d"), "directory", "is"),
     Item(Name("d") \o Name("a"), "file", "through"), Item(Name("s"), "special", "no")>>,
   <<Item(Drive, "file", "no"), Item(Name("d"), "directory", "no"), Item(Name("d"), "unreadable", "no")>>,
   <<Item(Bad, "special", "no")>>,
   <<Item(<<Part("x", 1, "none")>>, "directory", "no"),
     Item(<<Part("x", 1, "none"), Part("y", 1, "none")>>, "file", "no"), Item(Split, "file", "no")>>}

Argument(name, kind, link, walk) == [name |-> name, kind |-> kind, link |-> link, walk |-> walk]
File(name) == Argument(name, "file", FALSE, <<>>)
SomeArguments ==
  {File(n) : n \in {Name("a"), Long, Split, Bad, Drive}}
    \cup {Argument(n, "directory", FALSE, w) : n \in {Name("a"), Long}, w \in SomeWalks}
    \cup {Argument(Name("a"), "directory", TRUE, <<Item(Name("a"), "file", "no")>>)}
    \cup {Argument(Name("a"), k, l, <<>>) : k \in {"special", "missing", "file"}, l \in BOOLEAN}

\* Two arguments of any kind, the same name three times, and the last resort
\* where it meets a name that is there.
SomeCommandLines ==
  [1..1 -> SomeArguments] \cup [1..2 -> SomeArguments]
    \cup {[i \in 1..3 |-> File(Name("a"))],
          <<File(Numbered), File(Name("a")), File(Name("a")), File(Name("a"))>>}

SomeEntries == {Entry(p, k) : p \in {Name("a"), Name("d") \o Name("a"), Split, Bad, <<>>},
                              k \in {"file", "directory", "unknown"}}
SomeOffers == {<<>>} \cup [1..1 -> SomeEntries] \cup [1..2 -> SomeEntries]

-----------------------------------------------------------------------------
(* Codes: a capital whose small form is two letters, words on both sides of *)
(* the place where another is looked for, and what users choose: empty,     *)
(* without secret, too short, with a room that is none, and good ones       *)
(* written in several ways.                                                 *)
ThreeLetters == <<"a", "b", "c">>
SmallOf == [c \in {"A", "B", "C", "E'", "I."} |->
  CASE c = "A" -> <<"a">> [] c = "B" -> <<"b">> [] c = "C" -> <<"c">>
    [] c = "E'" -> <<"e'">> [] c = "I." -> <<"i.", "e'">>]
ThreeWords == << <<"a", "b", "a">>, <<"b", "a", "b", "b">>, <<"b", "c">> >>
TwoRooms == {<<"a">>, <<"b", "a">>}
SomeChosen ==
  {<<>>, <<"-", "a">>, <<"a", "-", "b", "b">>, <<"I.", "-", "a", "a", "a", "a">>,
   <<"a", "-", "b", "b", "_", "_", "I.">>, <<"a", "b", "a", "-", "a", "b", "c", "a">>,
   <<"A", "b", "c", " ", "b", "a", "c", "E'", "a", "-">>,
   <<"c", "_", "a", "b", "c", "a", " ">>}

-----------------------------------------------------------------------------
(* What the theorems assume of the constants holds of these.                *)
ASSUME LimitsAssumption == FramingAssumption
ASSUME VersionsAssumption == HandshakeAssumption
ASSUME ChainsAssumption == FoldersAssumption
ASSUME LayersAssumption == SettingsAssumption
ASSUME OffersAssumption == ManifestAssumption
ASSUME TimesAssumption == DiscoveryAssumption
ASSUME WordsAssumption == CodesAssumption

-----------------------------------------------------------------------------
(* A component that is not looked at: one of its initial states.            *)
RendezvousRests == /\ paths = [s \in Sides |-> {}] /\ code = "same" /\ troubles = AllTroubles
                   /\ Init
CodesRest       == CodesInit
SettingsRest    == /\ command = "config" /\ env = NoEnv /\ flags = NoFlags
                   /\ files = [p \in ConfigPlaces |-> Unset]
                   /\ config = Default /\ used = Unset /\ stage = "parse"
FramingRests    == FramingInit /\ theirs = [max_frame |-> 9, chunk_size |-> 9]
HandshakeRests  == /\ HandshakeInit
                   /\ build = [e \in Ends |-> [min |-> 1, max |-> 1]]
                   /\ role = [e \in Ends |-> "sender"]
                   /\ codeOf = [e \in Ends |-> CHOOSE c \in GivenCodes : TRUE]
                   /\ foreign = {}
ManifestRests   == /\ ManifestInit
                   /\ origin = "other" /\ follow = FALSE /\ sources = <<>> /\ policy = "skip"
FoldersRest     == /\ FoldersInit
                   /\ disk = [p \in Places |-> "nothing"]
                   /\ chain = [r \in Receives |-> <<>>]

\* All rest but one.
OthersRest(which) ==
  /\ IF which = "rendezvous" THEN TRUE ELSE RendezvousRests
  /\ IF which = "discovery" THEN TRUE ELSE DiscoveryInit
  /\ IF which = "codes" THEN TRUE ELSE CodesRest
  /\ IF which = "settings" THEN TRUE ELSE SettingsRest
  /\ IF which = "framing" THEN TRUE ELSE FramingRests
  /\ IF which = "handshake" THEN TRUE ELSE HandshakeRests
  /\ IF which = "manifest" THEN TRUE ELSE ManifestRests
  /\ IF which = "folders" THEN TRUE ELSE FoldersRest

MeetingInit ==
  \/ part = "rendezvous" /\ OthersRest(part) /\ Init
  \/ part = "discovery" /\ OthersRest(part) /\ DiscoveryInit
  \/ part = "codes" /\ OthersRest(part) /\ CodesInit
  \/ part = "settings" /\ OthersRest(part) /\ SettingsInit
  \/ part = "framing" /\ OthersRest(part) /\ FramingInit
  \/ part = "handshake" /\ OthersRest(part) /\ HandshakeInit
  \/ part = "manifest" /\ OthersRest(part) /\ ManifestInit
  \/ part = "folders" /\ OthersRest(part) /\ FoldersInit

MeetingNext ==
  \/ part = "rendezvous" /\ Next
     /\ UNCHANGED <<part, discoveryVars, codesVars, settingsVars, framingVars,
                    handshakeVars, manifestVars, foldersVars>>
  \/ part = "discovery" /\ DiscoveryNext
     /\ UNCHANGED <<part, vars, codesVars, settingsVars, framingVars,
                    handshakeVars, manifestVars, foldersVars>>
  \/ part = "codes" /\ CodesNext
     /\ UNCHANGED <<part, vars, discoveryVars, settingsVars, framingVars,
                    handshakeVars, manifestVars, foldersVars>>
  \/ part = "settings" /\ SettingsNext
     /\ UNCHANGED <<part, vars, discoveryVars, codesVars, framingVars,
                    handshakeVars, manifestVars, foldersVars>>
  \/ part = "framing" /\ FramingNext
     /\ UNCHANGED <<part, vars, discoveryVars, codesVars, settingsVars,
                    handshakeVars, manifestVars, foldersVars>>
  \/ part = "handshake" /\ HandshakeNext
     /\ UNCHANGED <<part, vars, discoveryVars, codesVars, settingsVars,
                    framingVars, manifestVars, foldersVars>>
  \/ part = "manifest" /\ ManifestNext
     /\ UNCHANGED <<part, vars, discoveryVars, codesVars, settingsVars,
                    framingVars, handshakeVars, foldersVars>>
  \/ part = "folders" /\ FoldersNext
     /\ UNCHANGED <<part, vars, discoveryVars, codesVars, settingsVars,
                    framingVars, handshakeVars, manifestVars>>

MeetingSpec ==
  MeetingInit
    /\ [][MeetingNext]_<<part, vars, discoveryVars, codesVars, settingsVars,
                          framingVars, handshakeVars, manifestVars, foldersVars>>

=============================================================================
