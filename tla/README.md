# A verification project for rusp

rusp sends files from one machine to another: the sender shows a code, the
receiver types it, the two meet on the local network or through a relay, agree
on keys and transfer files into a directory. This directory holds TLA+ models of
the parts where concurrency and failure decide whether that works, TLC
configurations that check them, and TLAPS proofs. Line numbers below are those
of the files under `src/`.

## 1. Inventory

| Component | State it keeps | Operations | What is hard |
|---|---|---|---|
| Relay server, `net/server.rs` | map room → Waiting(oneshot sender) or Paired, permits, counters; one task per connection | accept, join, wait, hand over the socket, copy, remove the room | tasks interleave at every await; timeouts race hand-offs; removal is by name |
| Sender, `transfer/sender.rs`, `app::send` | position in the selection, offset, report | negotiate, offer, send files, await the receipt, recover the peer's error | blocked sends, cancellation looked at in few places, a recv without a time limit |
| Receiver, `transfer/receiver.rs`, `app::receive` | plan, the file being written, report | negotiate, plan, ask the user, receive files, confirm | every message is checked against the state; failures after the disk changed |
| File writer, `files/writer.rs` | part file, final name, bytes written | resolve a conflict, write, commit, drop | file system calls are separate steps, other processes use the directory |
| Rendezvous, `net/mod.rs`; relay client, `net/relay.rs`; discovery, `net/discovery.rs` | listener, relay registration, responder | race the local network against the relay, retry | a stray connection wins, retry after a failed handshake, lost datagrams |
| Secure channel, `protocol/channel.rs`, `protocol/mod.rs` | versions, roles, keys, limits | magic, hello, key exchange, confirmation, send, receive | two programs run the same steps at once, unequal builds, one guess per code |
| Cipher, `crypto/cipher.rs`; keys, `crypto/keys.rs`, `crypto/pake.rs` | nonce counters, poisoned flag | seal, open, derive, tag | the counter's limit, mirrored keys, one transcript |
| Framing, `protocol/frame.rs`, and messages, `protocol/message.rs` | one reused buffer, frame limits | claim, fill, frame, write, read, encode, decode | short reads and writes, a stale buffer, an end of stream inside a frame, limits that must not cross |
| Path rules and scan, `files/safe_path.rs`, `files/scan.rs` | names used so far | validate, resolve, walk, disambiguate | equal names, what a receiver of the same build refuses, order of the offer |
| Codes, `code/mod.rs`, `code/wordlist.rs` | none | generate, parse, normalise, check, suggest | people retype and misspell them |
| Configuration and command line, `config.rs`, `cli.rs` | none | file, environment, flags, `rusp config` | four layers, two settings kept as one |
| Terminal output, progress, errors | none that matters here | draw, word | - |

How they interact: `app::send` and `app::receive` each make a `Connection`
(rendezvous; directly, or as two clients of one relay room), run the handshake
on it, and hand the channel to the transfer. The receiver gives each file to a
`FileWriter`. A `CancellationToken`, set by the first Ctrl+C, is shared by
everything in one process; the second Ctrl+C exits the process. Two processes
share nothing but the connection; two receivers may share a directory.

What makes each component correct:

* Relay: a waiting client is claimed once and never forgotten, only clients of
  one room are joined, no room and no permit leaks, limits hold, a cancelled
  relay comes to rest.
* Transfer: success means that everything chosen has arrived; the sender's and
  the receiver's reports agree; the two programs never accuse each other; both
  end.
* Writer: finished names show whole files, what was there is kept, nothing is
  left behind by a failure.
* Rendezvous: a real pair of peers that can reach each other meets.
* Discovery: a sender that answers is found, in time, without a busy loop.
* Channel: both sides hold the same keys or fail for the true reason; neither
  waits for the other; frames arrive in order or not at all.
* Framing: messages arrive whole, once and in order, however they are cut, and
  every build's limits leave room for a chunk.
* Offer: what a build offers it would accept itself, and the selection that comes
  back can be sent.
* Folders: what is made below a destination stays below it, and receives do not
  fail because of each other.
* Codes: a code survives being read out; a misspelt word is named.
* Settings: the topmost layer that mentions a setting decides.

The hazards are listed line by line in `PROJECT.json` with the properties that
cover them; two have none, with the reason.

## 2. Modules

| Module | Models | Lines of code it stands for |
|---|---|---|
| `Matchmaker` | what the relay promises | abstract |
| `RelayServer` | the relay | `server.rs` 75-387 |
| `FileTransfer` | what a transfer promises | abstract |
| `Transfer` | sender, receiver and the connection between them | `sender.rs` 19-304, `receiver.rs` 75-489, `app.rs` 72-224, `channel.rs` 166-247 |
| `FileWriter` | planning and writing of single files in a shared directory | `writer.rs` 30-206 and 287-346, `receiver.rs` 472-486 |
| `Folders` | the folders below the destination | `writer.rs` 208-285 |
| `Rendezvous` | sender and receiver looking for each other, the handshake and the retries; composes `RelayServer` | `net/mod.rs` 50-320, `net/relay.rs` 123-214, `discovery.rs` 111-242, `channel.rs` 55-125, `app.rs` 140-440 |
| `Discovery` | the rounds of a search and who answers them | `discovery.rs` 57-242 |
| `Handshake` | `Channel::establish` at both ends | `channel.rs` 46-125, `protocol/mod.rs` 95-154, `keys.rs` 22-159, `pake.rs` 32-67, `message.rs` 71-527 |
| `FrameCipher` | the two directions of an established channel | `cipher.rs` 75-159, `frame.rs` 30-210, `channel.rs` 110-259, `keys.rs` 100-124, both `negotiate` |
| `FrameStream` | what a framed connection promises its reader | abstract |
| `Framing` | bytes, frames and messages on one direction, chunk sizes, and the relay's replies before them | `frame.rs` 39-284, `message.rs` 36-569, `channel.rs` 27-253, `net/relay.rs` 57-228 |
| `Manifest` | from the arguments to the agreed selection | `scan.rs` 30-285, `safe_path.rs` 33-185, `receiver.rs` 425-489, `sender.rs` 230-249 |
| `Codes` | a transfer code from one user to the other | `code/mod.rs` 34-280, `wordlist.rs` 147-169 |
| `Settings` | the settings of each command | `config.rs` 65-298, `cli.rs` 36-316, `app.rs` 34-461 |
| `MCRelayServer`, `MCTransfer`, `MCFileWriter`, `MCRendezvous`, `MCFrameCipher` | TLC instances of one module each | |
| `MCMeeting` | TLC instance of the other eight modules; it extends `MCRendezvous` and all of them | |
| `Bounds` | the smaller and the larger of two numbers | |
| `RelayServerProofs`, `TransferProofs`, `WriterProofs`, `MeetingProofs`, `ChannelProofs`, `FramingProofs`, `ArgumentsProofs`, `CodesProofs` | theorems: `WriterProofs` about `FileWriter` and `Folders`, `MeetingProofs` about `Rendezvous` and `Discovery`, `ChannelProofs` about `Handshake` and `FrameCipher`, `ArgumentsProofs` about `Settings` and `Manifest` | |

Each module contains next to some of its definitions a "Mutant of": the same
definition with a plausible mistake. No definition uses them; they exist so that
every property can be shown to notice a mistake in the code.

### RelayServer

One connection is one task. `pc[c]` is the await it is at: `handshake` (reading
the Join), `claimed` and `handoff` (a second peer before writing Paired and
before `waiting.send`), `purging` (that send failed), `welcome`, `waiting`,
`announce`, `copying`, `leaving` (a first peer along `wait_for_partner`, and
before its `rooms.remove`), the refusals (counted, not yet written). The oneshot
channel of a waiting client is `chan[c]`: open, sent (socket inside), dropped
(sender gone), closed (receiver gone), taken. `stream[c]` is the socket in it or
taken from it. Everything between `rooms.lock()` and its release is one step, as
no await lies in between. Three details matter:

* dropping a sender wakes its receiver, and happens by `?` (`TellSecondFails`)
  and by removing a Waiting entry (`Remove`);
* a room timeout may find a socket already in the channel (`RoomTimeout`), which
  is then lost with it: the second peer learns by the closed socket;
* a cancelled relay accepts nothing, but tasks in their handshake still
  register (`cancelled` guards `Accept`, not `OpenRoom`).

Clients hang up at any time (`HangUp` stands also for a client that speaks out
of turn). A write to a client that hung up may succeed or fail.

### Transfer

`spc` and `rpc` say at which await each side is. The sender: `next`
(the loop over the selection, with its cancel check), `filestart`, `open`,
`data` (the read loop), `chunk` and `fileend` (about to send), `complete`
(waiting for the receipt), `recover` (in `recover_peer_error`). The receiver:
`deciding` (the prompt), `dirs`, `loop` (the cancel check), `recv` (waiting for
a frame), `mode` (between rename and `apply_mode`). The connection `s2r` holds
`Window` frames, so the sender blocks; `r2s` never fills as the receiver sends
three short messages. Closing a socket with unread data resets the connection and
may lose what the peer has not read; a send to a closed peer is swallowed once.
`Faults` names what else may go wrong: cancellation, quitting, unreadable or
shrunken sources, the receiver's disk, a reset, and `large`, a manifest that does
not fit the one frame it is sent in.

The sender never sends Cancel or Failure, so the receiver's branches for them
have no step. Hash mismatches have none either: bytes are not modelled, and the
channel is authenticated.

### FileWriter

A step is one file system call. `plan` is `plan_for`'s look at the name,
`resolve` is `resolve_conflict`'s much later, `probe` is `free_name` trying
"name (n)", `remove` is the removal that `overwrite` starts with. Names of part
files have 48 random bits and are taken never to collide. `theirs` is what other
programs have put in the directory; in some behaviours they do so at any moment,
in others (`alone`) only receivers use it. A look that fails, for whatever reason,
is taken by the code for "nothing is there" (`Looks`), and the writer goes on to the
rename; `unseen` remembers that another program's file was at the name it took for
free. `DiskError` is a call whose error is passed on, `Abort` the end of a connection
or a name that has become a folder; both drop the `FileWriter` with its part file,
`Die` does not. The folder it all happens in is
taken to be there; `Folders` is how it came about.

### Folders

Each receive has a chain of names to make; a step is one file system call. A look
(`symlink_metadata`) and the creation that relies on it are two steps, and another
receive, or another program (`OthersChange`), may come in between. `disk` says of each
place whether there is nothing, a folder, a file, a link to a folder or a dangling
link. Other programs make any of these, links included. `passed` remembers what a
receive took for a folder when it went on, `planted` what others put in its way after
it had looked.

### Rendezvous

`at[s]` is where a side is (`accepting`, `finding`, `connecting`, `joining`,
`joined`, `shaking`, and how it ended), `conn[s]` what it shakes hands on, `sent[s]`
how many of its handshake messages it has written. The sender's `accept_inner`
waits for its listener (`backlog`) and its relay connection `sc` at once and
prefers the listener, so `AcceptRelay` needs an empty backlog; taking one path
drops the other (`Close`). The relay is `RelayServer` itself, one room and one
connection for each of the sender's attempts and the receiver's: its tasks take
the steps of that module, the two programs open, read and close connections.

A failed handshake whose error `is_retryable` lists sends the sender back to
`accepting` (`BrokenOff`), which uses up a relay connection; `SenderConns` bounds how
often. Any other error ends it. What connects to the listener besides the receiver is
one of `Strangers`: "garbage" is retried (not rusp, other versions, or left in the
handshake), "unruly" is not (a message out of turn, too long a frame, a bad element,
another code: `ShakeRefused`), "silent" runs into the time limit (`ShakeTimeout`), and
"gone" was reset before it was accepted, so that `accept` or `peer_addr` fails
(`AcceptFails`) before any handshake. `troubles`, chosen at the start, says what else
may go wrong: lost datagrams, ports that cannot be reached, connections completed after
the other side gave up, a relay that is down, each time limit, Ctrl+C, and connections
that are reset before their handshake at either side (`AcceptFails`, `DialedInVain`;
`dial` does not fall back to the relay then). Discovery is its outcome: the rounds of
queries are not steps here but in `Discovery`. Handshake time limits between two live
peers on a working connection are not taken, "silent" stands for a peer that is too
slow; nor is a cancellation of the relay itself.

### FrameCipher

`written[s]` are the frames side s has put on the wire, each with the key and
nonce it was sealed with; `sealed` and `opened` are the counters. `SealingKey`
advances its counter before the frame's size is checked, so a frame may be sealed
and not written. The wire does anything (`RecvNext`, `RecvOther`, `Lose`,
`CutOff`): a frame opens if it is authentic and its nonce is the expected one,
which is what an ideal AEAD gives. The two builds announce any limits of `Caps`,
and each lowers its own when it has read the other's, at a time of its own. After
an error a side may go on reading, as `recover_peer_error` does. The messages
inside the frames are those of `Transfer`; here only their size counts.

### Discovery

`find` is `asking`, `listening` (in `recv_from` until `listenUntil`), `resting`
(`sleep(ERROR_BACKOFF)` until `wake`) or has ended. Time is `now`; `Due` is the
moment by which the program has to run, at most `Late` after its timer. `serve`
answers a query that has arrived (`Answer`). Datagrams are lost, held up, repeated,
or somebody else's (`Stray`): of another room, of this room with no port, or a forged
answer of this room with a port that `find` cannot tell from a true one. A socket fails
at any moment. `rounds`, `failedAt` and `first` record how often it asked, when a
receive failed last and the first offer that came in, for the properties only.

### Handshake

Each end goes through `magic`, `hello`, `pake`, `confirm`; it writes a few bytes and
then reads the peer's, so only reading waits. `wire[e]` is what it has written and
the peer has not read. Exchange, keys and
tags are values that say what went into them (`PakeOutput`, `Key`, `ExpectedTag`):
two are equal exactly if that is. `Builds` are ranges of versions, and a peer may be
slow, die or close between any two messages. A `foreign` end is a stranger without the
code, and need not run this program: it says anything (`Sayings`), bytes that are no
message or well-formed messages in any order: a Hello of any build and role or of an
impossible range, an element of its own, none, or its peer's reflected, a made-up tag
or its peer's. What it reads is not modelled. `RefusePake` and the three kinds of
`ReadNoise` keep the errors of the code apart.

### Framing

One direction of a connection, byte by byte, with bytes to the base 3 and a length
prefix of two of them. `buf` is the `FrameBuf` (with what earlier frames left in
its allocation), `rest` what the writer has still to hand to the socket, `have` and
`body` what the reader has of a header and a payload; `WriteSome` and `ReadSome`
move any number of bytes. The stream begins with the relay's replies, read by
another reader with its own limit, and the peer's magic. `FramingAssumption` holds
of the constants in the code. It refines `FrameStream`.

### Manifest

`toScan` are the arguments left, and `toWalk` what is left of the folder that is
walked, one step for each item: passed by (`PassItem`), refused with the whole scan
(`RefuseItem`) or taken (`TakeItem`). A path is a sequence of components: the
separator before it, a stem, the numbers `disambiguate` has put behind it (`marks`),
what its last resort has (`more`), the length of it all and what is wrong with it, so that
`Validate` and `OnDisk` (`safe_path.rs`) can be applied. A name of a Unix file with a
"\" is one name for the walk and two components for the path rules. `Walks` says what
WalkDir promises: a folder comes before what is in it, and nothing readable twice.
`Inspect` and `PlanEntry` are the receiver's, `Accept` the sender's
`validate_selection`. The policies overwrite and rename plan alike, so one of them
stands for both. The offer may also be another build's (`origin`), with kinds of items
this build does not know. `ManifestAssumption` is that a limit on paths leaves room for
a number behind a name, as 4096 and the file systems' 255 bytes do.

### Codes and Settings

`Codes` spells texts out, over an alphabet of three letters, as normalising and
suggesting are about single characters: a capital whose small form is two
characters, an accented letter, separators. People rewrite the shown text in every
way (`WriteCapital`, `WriteSeparator`, `Surround`) or misspell a word (`Misspell`).
`normalize` and the joining of words are recursive functions over the places of a
text, one step per character or word as in the loops of the code.
`Settings` goes through `Parse`, `Load`, `ApplyEnv` and `Resolve` in the order of
the code, with the relay's address and token as the pair they are kept as;
`rusp config` is a step of its own.

### MCMeeting

The last eight components are checked in one run, one at a time: `part` names the
component that takes steps and the others keep one of their initial states. Nothing
is composed by it but `Rendezvous` with `RelayServer`, as before.

## 3. Runs

| Run | Question | Bounds | Result |
|---|---|---|---|
| `relay_safety` | Are rooms, claims, pairs, permits and counters sound under every interleaving, and does the relay implement the matchmaker? | 4 connections, 2 rooms, `max_rooms` 1, 3 permits | holds |
| `relay_liveness` | Does everybody who waits get an answer, and a cancelled relay stop? | 3 connections, 1 room, 2 permits | holds |
| `relay_live_pair` | Does a live pair keep its room? | 4 connections, 1 room | violated |
| `transfer` | Are the reports true, and is nothing left half-written? Does the transfer implement its promise? Do both sides end, and if not, why? | 2 files of up to 2 chunks, 1 directory, window 2, all faults | holds |
| `transfer_cancel` | Is one Ctrl+C enough to end the sender? | 2 files of up to 1 chunk, window 1, cancellation only | violated |
| `writer` | Are finished names whole, folders safe, and is what others put there replaced only when told, or unseen? Does each writer stop? | 2 writers, 2 names, every policy, alone or not | holds |
| `writer_two_renames` | Is a received file still there under the name reported? | 2 writers, policy `rename` | violated |
| `meeting` | Everything around a transfer: see the next table | see the next table | holds |
| `rendezvous_live` | Do two peers with a path in common meet? Does nobody search for ever? | 1 relay connection of the sender, every pair of options, both codes, 1 stranger of any kind, few troubles or all | holds |
| `rendezvous_silent` | Does a silent stranger cost the sender nothing? | local network, 1 silent stranger | violated |
| `rendezvous_paths` | Does the sender take the path the receiver used? | both paths, 1 stranger | violated |
| `cipher` | Are nonces used once and frames accepted in order, up to the end of the counter? Are honest peers never refused while limits change? | counters to 2, frames of 1 or 2 units, every pair of limits | holds |

The parts of `meeting`:

| Part | Question | Bounds |
|---|---|---|
| rendezvous | Is the path not taken withdrawn (`OneRegistration`), is a meeting mutual (`MeetingIsMutual`), which strangers can end the sender (`StrangersRetried`)? | 2 relay connections of the sender, every pair of options, right and mistyped codes, 1 stranger ("garbage", "unruly" or "gone"), all troubles |
| discovery | Does a search end in time and ask no more often than it should (`SearchKeepsTime`)? Is what was heard found, and nothing else (`HeardIsFound`)? | one sender, forged and other strays, patience 5, interval 2, backoff 1, timers up to 1 late, sockets of 2 datagrams |
| codes | Does a code survive retyping (`RetypedIsSame`)? Is a misspelt word named with the right one (`TyposAreNamed`)? | 3 letters, 3 words, prefixes of 2, 2 edits, 8 chosen codes |
| settings | Does the topmost layer that mentions a setting decide, and is no other token ever used (`HighestLayerWins`)? | every setting there, empty and absent in every layer, every command |
| framing | Do messages arrive whole, once and in order (`ImplementsFrameStream`)? Do chunks fit (`ChunksFit`)? | base 3, prefix 2, frames up to 7, the peer's limits 0, 6, 9 and chunks 0, 2, 9, a socket of 3 bytes, 2 frames after the magic |
| handshake | Do both ends hold one session, and none with a stranger (`SameSession`)? Between two programs, is the error the true one (`ErrorsAreTrue`)? Does neither wait for the other (`NobodyWaitsForNobody`)? | 3 builds, 2 codes, every pair of roles, at most one end a stranger, one unread word of it at a time |
| manifest | Does a build accept what it offers (`OfferIsAccepted`)? Is the selection sound (`PlanIsSound`)? | up to 3 arguments, folders of up to 4 items, components up to 8, paths up to 16, 5 entries, numbers up to 2, every policy |
| folders | Is a name passed only if it is a folder, or was planted after the look (`FoldersOnly`)? Do receives not hinder each other (`SharedFoldersWork`)? | 2 receives, chains of up to 2 names, any sound directory at the start |

Why the bounds suffice. Relay: the interesting cases need a pair and, in one
room, a second pair meeting the first one's stale removals: four connections;
two rooms make entries of different rooms and the capacity limit distinct, and
fewer permits than connections makes `Drop` happen. Transfer: a second file
shows state left over from the first, a directory between them shows indices that
carry no data, two chunks show a middle of a file, a window of two shows frames
in flight and a blocked sender. Writer: two writers and other programs give every
pair of steps on a name; one candidate beyond the first shows exhaustion.
Rendezvous: two relay connections let the sender come back once, which is
when its old registration can meet the new one, and one stranger is enough to send
it back; where liveness is checked it has one, which a sender that comes back from
the local network does not need. The receiver dials once, as in the code. Cipher: a
counter that ends after two frames is the end of a 64-bit one; a frame in each
direction and one beyond shows repetition, reflection, loss and the frames in
flight while limits change. Discovery: the patience covers two whole rounds and the
beginning of a third, and a timer may be late by as much as a rest. Framing: a
payload spans several reads of the socket, the second frame is written over the
first one's bytes, and the limits lie below, between and above the defaults, the
least and the chunk. Handshake: the builds overlap, contain each other and are
apart; more than one round of four messages there is not. Manifest: the long name
fits as it is and not with a number, the same name three times passes the last
number, five entries are one less than some trees have. Folders: the second name of
a chain is made below something that was a folder a moment ago. Codes: two edits
make doubled and trailing separators; a prefix of two has words on both sides of the
place where it is looked for.
Symmetry is used in two runs without liveness: in `relay_safety` over connections and
rooms, in `meeting` over the sender's connections, which no definition tells apart; the
refinement mapping chooses a unique connection. "silent" is left to `rendezvous_live`
and `rendezvous_silent`: for the safety properties of `meeting` it is a stranger that
ends the sender as "unruly" does.
`CHECK_DEADLOCK FALSE` is set throughout: every system here may come to rest, and
what may rest where is what the liveness properties say.

### What the violated runs show

* `relay_live_pair`. A hand-off that finds its receiver gone removes the room by
  name (`server.rs` 300). In between, the first peer has removed it and two other
  clients have taken the name: the entry of a live pair is deleted, and a fifth
  client would open the room again.
* `transfer_cancel`. A sender that fails on its own side tells the receiver
  nothing and waits in `recover_peer_error` for a message from a receiver that
  waits for the sender. A second Ctrl+C, at either side, resolves it. The run
  `transfer` shows that this is the only mutual wait.
* `writer_two_renames`. A free name is chosen when a file starts and used when it
  has arrived.
* `rendezvous_silent`. The time limit of the handshake is not among the errors
  `is_retryable` lists, so a stranger that connects and stays silent ends the
  sender, although nobody has spent a guess. It is one of three: a message out of turn,
  too long a frame or a bad element are not listed either, and a stranger that is reset
  before `peer_addr` (`net/mod.rs` 77-87) fails `accept` itself (`app.rs` 141), so the
  property (README 322-324, `StrangersAreIgnored`) is false of "unruly" and "gone" too.
  What does hold is `StrangersRetried`: once the handshake has begun, a stranger that
  leaves, is not rusp or has other versions never ends the sender.
* `rendezvous_paths`. The listener is preferred: a stranger's connection is taken
  and the relay connection dropped although the relay has just paired it with the
  receiver, whose `dial` is not retried.

### Seen while modelling

The models contain these too, without a run of their own:

* The relay's permit is held for the whole of `serve_client` (`server.rs` 183), so
  pairs that copy for hours use up the limit that the comments (17, 175) give to
  handshakes.
* The Offer of a tree of some tens of thousands of names exceeds a frame
  (`frame.rs` 129), although the scan accepts a million (`scan.rs` 118). Sending
  it fails, and the sender then waits as in `transfer_cancel`: the fault `large` of
  `Transfer`, and one of the ways into `MutualWait`.
* `overwrite` removes the old file when the new one starts (`writer.rs` 313); a
  transfer that fails later leaves neither, against the comment at 198.
* Coming back after a stranger the sender joins its room again (`net/mod.rs` 244);
  the relay may not have noticed yet that the first registration is closed, and
  pairs the two. A receiver that comes now is told the room is busy.
* `read_exact` reports the same error for no header bytes and for one to three of
  them, and `read_frame` (`frame.rs` 187) takes it for a clean close. Every caller
  but `recover_peer_error` treats a clean close as an error too. `FrameStream`
  allows "closed" only when every whole frame was delivered, and that holds.
* `find` rests after a failed receive without reading; an answer that comes in the
  last rest of its patience stays unread (`discovery.rs` 224), which is why
  `HeardIsFound` speaks of answers that were there before it.
* A name made unique by " (2)" is not validated again (`scan.rs` 262): two
  arguments with one name of 255 bytes make an offer the receiver refuses as a
  whole. The last resort is not compared with the names used either.
  `OfferIsAccepted` excepts both (`Overdone`).
* A Unix name with a "\" is one name to the walk and a path to the receiver; it may
  land on another entry's place, which the check for repeated paths
  (`receiver.rs` 440) does not see.
* A look that fails is taken for a free name (`writer.rs` 293 and 341, `receiver.rs`
  473), whatever the error: the rename then replaces what is there, also under `skip`,
  `fail` and `rename`, where `writer.rs` 12-14 says that "`rename` picks a free name
  rather than replacing anything". `OthersKept` excepts names a writer could not see.
* `create_directory_chain` takes AlreadyExists for a folder without looking
  (`writer.rs` 277): what came in between counts as made. A file there makes the receive
  fail later; a link is followed, although `writer.rs` 9 says that "Nothing is written
  through a symlink". `FoldersOnly` says that nothing else gets past: no link or file that
  was there at the look.
* Any offer that names the room is believed (`discovery.rs` 227-234), as its doc says
  (19-23). `HeardIsFound` says that a forger has to be faster than the sender, and the
  handshake that it gets no channel (`SameSession`): it costs the receiver its search,
  as a mismatch, or a receiver that fails.
* A mismatch may also mean a stranger with another guess or none (`keys.rs` 147-150);
  `ErrorsAreTrue` speaks of two programs that both run the handshake.
* A token without an address in its layer or below is dropped (`config.rs` 162):
  `RUSP_RELAY_TOKEN` under `--relay` alone counts for nothing, and in front of
  `rusp relay` it makes a relay that asks for no token, where the docs have each layer
  override the one before it and list the token as a setting (`config.rs` 3-8,
  `README.md` 247-249 and 267). No property promises that loss: `HighestLayerWins` says
  that no token but the topmost is used, and that one with an address is. An empty
  `--relay-token` next to `--relay` means none, and is kept as an empty token when the
  relay comes from a lower layer.
* `rusp config` shows and writes the usual place also when `RUSP_CONFIG` names
  another (`app.rs` 350), which loading does look at; a file named with `--config`
  is still overridden by the environment, which `from_file`'s doc (`config.rs` 134)
  says is skipped.
* A frame is sealed before it is found too large (`channel.rs` 169) and its counter
  value is used up. The callers send nothing after that, so no peer sees the gap;
  `FrameCipher` lets them, and the peer then opens nothing more.

## 4. Fairness

* Relay (`Progress`): each task runs when it can. Waits in the handshake and for a
  partner are on a clock, the mutex is never held across an await, replies of a
  few bytes fit a socket buffer or fail. A copy need not end unless cancelled or
  both clients are gone. Clients need not hang up, connections need not come.
* Transfer: the two programs run whenever they can, and the receiver's user
  answers the prompt; this is an assumption on a person. Ctrl+C, quitting and
  resets need not happen. A connection that fails resets at both ends; an end
  that vanishes silently is not modelled, and the code has no time limit for it.
* Rendezvous (`FairSpec`): what runs goes on, each program and each task of the
  relay. Nobody need start, cancel or send strangers. A copy of the relay need not
  end before both its clients have gone. `TheyMeet` speaks of behaviours in which
  both have started, `BothEnd` of those in which the time limits pass.
* Writer: calls return, and a file either arrives or its connection ends; calls
  need not fail, looks neither (`FairSpec` is about the other steps), processes need not
  be killed.
* The other parts of `meeting` have safety properties only. That a search ends and
  that nobody waits for nobody are stated as such: `SearchKeepsTime` bounds the time
  at which a search may still run (`Tick` cannot pass `Due`, the assumption that a
  program runs at most `Late` after its timer), and `NobodyWaitsForNobody` says that
  two ends of a handshake are never both waiting with nothing to read.

## 5. Proofs

All theorems are for every value of the constants that their modules' named
assumptions allow; nothing else is assumed. `RelayAssumption`, `WriterAssumption`,
`CipherAssumption`, `TransferAssumption` and `RendezvousAssumption` are facts TLAPS
may use and TLC evaluates. The assumptions of `Handshake`, `Discovery`, `Folders`,
`Framing`, `Settings` and `Codes` are hypotheses of their theorems, and `MCMeeting`
lets TLC evaluate them for the instances it runs.

**RelayServerProofs** shows that `IInv` is inductive, and from it `TypeOK`,
`ClaimedOnce`, `NobodyStranded`, `NoLeakedRoom`, `SoundPairs`, `RoomLimit`,
`PermitsAccounted`, `CountersAgree`, `PairedNotDisplaced` and the refinement
`ImplementsMatchmaker`.
`RelayAssumption`: finitely many connections and rooms, positive limits, and a
`None` outside both.

The safety properties are not inductive alone: that a claimant's sender leads to
somebody needs to know the states of a channel at each place of a task
(`ChannelsInv`), that a claim's channel is open or abandoned and never used twice
(`ClaimsInv`), the same of entries of the map (`OffersInv`), that a task names its
room once (`RoomsInv`), and that a socket in a channel belongs to a second peer
that is done (`SocketsInv`). The proof takes the actions one by one; each step
lists which parts the action can disturb. `PermitsAccounted` and `RoomLimit` use
lemmas on the cardinality of a set that gains or loses one element. `CountersAgree`
needs a `Ledger`: each counter is bounded by the set of connections it counted (all
that began; those refused, which never get a room; the openers that announced a
partner), and the openers, their partners and the refused are disjoint. The refinement
maps `JoinRoom` and `OpenRoom` to `Name`, `GetPartner` to `Marry` and everything
else to a stutter. `CopiesLast` says what a client of the relay can rely on: who has
been told of its partner is being joined to it (`ToldLast`), a copy ends only with
one of its clients gone or the relay cancelled (`CopyEnds`), and two that were
joined stay each other's partners (`PairsLast`). `MeetingProofs` needs it.

**TransferProofs** shows `NothingHalfWritten`, `ReportsAgree`, `NeverAccused` and the
refinement `ImplementsFileTransfer`, for any files, directories, sizes, window and
faults. What has to be added is what the connection holds. A place in the protocol
is a phase, a file, a count and what has ended; `Fits` says which messages may be
sent at a place and `After` where they lead. `ChainInv`: there is a chain of places
from the receiver's (`ReceiverAt`), one message of `s2r` at a time, and it ends where
the sender is (`SenderAt`) unless the connection is broken or the sender has given
up. A sender that speaks makes the chain longer (`ChainGrows`), a receiver that
takes a message shorter (`ChainShrinks`), everything else leaves it or empties it.
So the head of the queue fits where the receiver is (`HeadFits`), none of the
receiver's objections applies (`Reading`), and at Complete all files have been
committed. `SenderInv`, `ReceiverInv` and `AnswersInv` (an Accept carries the plan,
a Complete is sent by a receiver that is done) tie the two ends to it. Offers need
one more thought: before the receiver has accepted, nothing can follow the offer,
so its plan may change without disturbing the chain (`PlanOfferKeeps`).

**WriterProofs**. Of `FileWriter` it shows `TypeOK`, `OnlyWholeFiles`,
`PartFilesAccounted`, `FoldersStay` and `OthersKept` for every set of writers, names,
policies and sizes. What has to be added to make the invariants inductive is `Verified`:
a writer that is about to rename has written as much as the file has. `OthersKept`, of
steps, needs `Settled`: where a writer has settled on a name that another program has,
it was told to overwrite, or `unseen` says that it could not know. Other programs may
come at any time, and any look may fail.

Of `Folders` it shows `FoldersOnly` and `SharedFoldersWork`. What was missing when a
receive looked is, when it makes it, still missing or a folder by now, unless
another program has planted something there (`MakeInv`, which needs `planted`); so going
on at AlreadyExists is right but for that. Folders that were passed stay while only receives work, which put folders
where there was nothing; what a receive fails for is therefore still in its way.

**MeetingProofs**. Of `Rendezvous` it shows `OneRegistration`, `MeetingIsMutual` and
`StrangersRetried`, for any number of retries, rooms, strangers
and troubles. `Rendezvous` holds a whole relay: every step of it is a step of
`RelayServer` or leaves the relay's variables alone (`RelayIsRelay`), so the
invariant and `CopiesLast` of `RelayServerProofs`, instantiated as `RP`, are facts
about its state (`RelayKeepsCore`). On top of them come:

* `Clients`: where each program can be (`ClientTypes`), that it holds a connection from
  its handshake on and a registration only while it accepts (`PlacesInv`), and that
  nobody has hung up on a connection it still uses (`ClosedInv`): who closes one
  forgets it or fails. With it `OneRegistration` is kept: a sender that registers
  again has hung up on the registration it had.
* `FailuresInv`: how a side that has the right code can have failed. The sender fails
  only before it has begun a handshake with its receiver; the receiver, from there on,
  only after its sender, or with its link through the relay gone (`LinkLost`), which stays gone.

`MeetingIsMutual` is then kept step by step (`StepKeepsMeeting`, under `LinkInv`). A
side meets with the last message of the handshake, which it read from the other on
the connection they share: two ends at the relay are the two clients the relay has
joined, and these stay partners. From then on neither can fail while the other is
in the handshake or has met: by `FailuresInv` its link would have to be lost.

`StrangersRetried` is inductive with `Clients`: on a connection that leads to no receiver
nothing can be read, so with a stranger no side comes as far as to compare the codes, and
the two actions left that end the sender then are `ShakeTimeout` and `ShakeRefused`.

Of `Discovery` it shows `SearchKeepsTime` and `HeardIsFound`, given that a rest is
no longer than a round (`Backoff <= Interval`). `SearchInv` says how late a search can
be in each of its states (`Clock`), that a round over takes at least a rest
(`RoundsTake`), and how old a datagram in the inbox can be (`Fresh`): while there is
time left the search reads it as it comes, or it rests and will. `FirstInv` follows the
first offer of the room from its arrival to the one that is read: until then it is the
first of its kind in the inbox, as the inbox is read in order and a full one drops what
comes last.

**ChannelProofs** shows of `Handshake` `SameSession`, `ErrorsAreTrue` and `NobodyWaitsForNobody` for
all builds and codes. Its invariant has four parts for each end: what it has heard
is what the peer is (unless that is a stranger), what is on its wire is what it said and
the peer has not read (`OwnWord`), the order of what it says, and how it ended. A stranger
may say everything but one thing (`StrangeWord`): a tag under the key its peer expects,
which it could only have from the peer itself, and that is one of the other role. Equal
tags mean equal inputs (`TagsMatch`), as keys and transcripts are ideal; and an end that waits
for a message has said one more than it has read, so of two that wait with empty
wires each would have said more than the other.

Of `FrameCipher` it shows `TypeOK`, `NonceUsedOnce`, `OpenedInOrder` and
`HonestStreamHolds` for every counter width, frame limit and pair of capabilities,
from `CipherAssumption` (positive limits, announced limits positive). Its invariant:

* `FramesInv`: nonces grow along what a side has written, and the gaps, frames
  sealed and never written, are bounded by what the counter is ahead. Hence nonces
  are never used twice, and a side that wrote all it sealed used 0, 1, 2, ...
* `OpeningInv`: an opening key that is not poisoned has opened everything it
  examined, and what it opened is the peer's first frames. The one frame that opens
  next is then the peer's next one (`OnlyTheNextOpens`), and it never has the last
  nonce, so opening cannot exhaust the counter.
* `LimitsInv`: both sides compute the same limit (`AgreedIsCommon`); no reader
  enforces less, and no frame is larger, as nothing but the small capabilities is
  written before the writer knows it.
* `HonestInv`: on an undisturbed wire reading keeps step with opening.

**FramingProofs** shows `ChunksFit` and the refinement `ImplementsFrameStream`, for
any base, prefix, limits, announced capabilities and sizes of messages, and any way
in which the socket cuts their bytes. The argument has three layers:

* Numbers. `to_be_bytes` and `from_be_bytes` are inverse to each other below
  `Power[Prefix]`: two numbers with the same digits have the same quotients by every
  power of the base, from the highest down. It takes induction, over a set of
  numbers (`Induction`): a set that has 0 and with each number the next one has them
  all, as a finite part of it could otherwise be mapped one to one into itself
  without its 0. `Iteration` gets from there that recursive functions such as `Power`
  exist.
* Buffers and messages. What has been put into a buffer (`Used`) grows by what is
  pushed, whatever earlier frames left in its allocation (`PushKeeps`, `FillKeeps`),
  so `finish` yields `Bytes(m)` of the message meant, and decoding `Payload(m)` yields
  m (`ReplyDecoded`, `ControlDecoded`, `DataDecoded`).
* The stream. `StreamInv`: there are a sequence of bytes and places in it, where each
  message written ends, and behind the last the part of the one being written; what
  the reader has of a message, followed by what is in flight, is what is behind the
  messages it has read. A header that is complete is therefore the length that was
  stamped, which no limit refuses (`HeaderFits`), a complete payload is a whole
  message that has been written (`BodyIs`), and the next one (`Takes`). A stream that
  ends in a header has nothing whole left (`ClosedGotAll`).

`KindAt` and `Reads` keep the three readers of one stream apart: replies, magic,
frames. `ChunksFit` follows as `Legit` says of each message written that it fits.

**ArgumentsProofs** shows `HighestLayerWins` of `Settings` for any hosts, tokens, files
and flags: the configuration after each step is what the layers so far say, token and
address apart, and `Layered` adds one more. `KeptToken` is the topmost of the tokens that
have an address to go with; it is the topmost of all, or that one has no address, and then
none is used (`KeptIsTopmost`).

Of `Manifest` it shows `OfferIsAccepted` and `PlanIsSound` for any arguments, folders,
limits, policies and offers of other builds that `ManifestAssumption` allows.
`ManifestInv` has a part for each of the things that inspect and the sender look at:

* Names. `Disambiguated`: what a name becomes is one that is not taken, or the last
  resort. A path begins with one name only (`FirstNameIsOne`), so paths of two
  arguments differ because their tops do, and paths of one because the walk shows
  nothing readable twice (`Differ`).
* Validity (`Valid`). What is below a folder is validated as it is offered; the top is
  validated before it gets its number. That makes the path longer by a few bytes
  (`MarkIsLonger`), for which there is room, and its component, which may then be too
  long: `Overdone`, the exception that the property makes.
* Order (`Nested`, `Within`, and `UnderTaken` for the walk in progress). What is
  offered, or still to be walked, is at the top or inside a folder offered earlier. A
  link that is left out is no such folder, hence the clause about links in `Walks`.
* The plan (`PlanInv`): ascending, of what the receiver has looked at and knows, and
  with every folder among them. So an item asked for has the folder around it asked for
  before, and `validate_selection` has nothing to refuse.

The bytes of a path are counted by a set, not by a sum, so that their number can be
reasoned about with the library's facts about finite sets (`BytesAreFinite`).

**CodesProofs** shows `RetypedIsSame` and `TyposAreNamed` for any alphabet, any list of
words, any rooms and chosen codes, and any number of changes (`MaxEdits`).
`CodesAssumption` has what the tests of `wordlist.rs` (182-210) check of the list, that
it is sorted and that the first letters of its words differ, and what the constants of
`mod.rs` (40-53) have in common with it: the first letters of as few words as a code may
have are a secret that is long enough. A separator is never a letter, and what a capital
becomes is small. The argument has four layers:

* Texts. `Absorbed` is a recursive function, which `PathExists` shows to exist by
  `Recursion`, and that by `Induction` over a set of numbers (a set that has 0 and with
  each number the next has them all, from finite sets alone). Reading a text is reading
  its first part and then, from there, the second (`AbsorbedConcat`). What comes out is
  `Clean`: every separator stands between two letters (`NormalizedIsClean`); a clean
  text is read as itself (`CleanIsRead`), so normalising twice is normalising once.
* Changes. Each of the three ways of rewriting leaves what the text is read as
  (`CapitalReads`, `SeparatorsRead`, `SurroundedReads`), wherever it happens, as what
  is before and behind the place is read alike (`ReadAlike`).
* The code. What is shown of a code, a room, a separator and a clean secret, is parted
  at the first separator into the two again (`Halves`, `ParsedHalves`), and a code that
  was read is one of these (`ParsedIsGood`).
* Words. In a sorted list whose first letters differ, the place where these would be is
  the place of the only word that has them (`SoughtByPrefix`, `SuggestedIsRight`), which
  is what `partition_point` in `suggest` relies on. A secret that was generated is made
  of words of the list (`JoinIsSecret`), and one misspelt in place leaves the words
  before and behind it where they were, but for the shift (`OtherWordsStay`,
  `SplicedBehind`).

The invariant, `CodesInv`: the text is read as the room and the secret of the code or,
once a word is misspelt, as the room and a secret of which `lint` points out exactly that
word with the one it was. The properties speak of what was entered only, and would not
survive the changes before it. A misspelling in the model changes or drops one character
behind the first letters, which is within the two that `suggest` allows; as other words
of the list have other first letters, the misspelt word is never one of them.

Only model-checked: everything under fairness (`ClientsSettle`, `CancelComesToRest`,
`EndsOrWaits`, `WritersStop`, `TheyMeet`, `BothEnd`), which is out of the prover's
reach. Every safety invariant and action property that a passing run checks is a
theorem. Violations are TLC's counterexamples.

## 6. Not modelled

* Encryption, key exchange and hashing themselves: they are ideal values. A hash
  always matches, as the channel is authenticated and bytes of files are counted.
* MessagePack, wording, drawing, the progress display, verbosity and colours.
* Sizes, modes and times of files: no decision but `apply_mode`'s failure depends
  on them.
* A connection whose other end vanishes silently has no step: the code sets no
  keepalive or time limit on a transfer, so there is nothing to check but that it
  waits. The two hazards without a property say so in `PROJECT.json`.
* The prompts of `app.rs`, and of its output the order of lines.
* The relay's bytes: a copy goes on until one of its ends closes.
* In `meeting` the components are not composed with each other: what leads from one
  to the next is one value each (a connection, a channel, an agreed selection), and
  that value's properties are what is checked.

## 7. Plan

Done, in this order: relay (the component with real concurrency), transfer, writer,
rendezvous over the relay, cipher, framing, handshake, discovery, folders, offers,
settings and codes, all of them proved. What is left: two transfers into one directory
composed with `FileWriter` and `Folders`.
