------------------------------ MODULE Framing ------------------------------
(***************************************************************************)
(* Bytes, frames and messages on one direction of a connection: FrameBuf,  *)
(* FrameWriter and FrameReader of src/protocol/frame.rs, the messages that *)
(* src/protocol/message.rs puts into frames, the chunk sizes that          *)
(* src/protocol/channel.rs derives from the capabilities, and the reader   *)
(* of src/net/relay.rs that reads the relay's replies and leaves the rest  *)
(* of the stream to the peer protocol.  A byte is a digit to the base Base *)
(* and a length prefix is Prefix of them.  The socket takes and gives any  *)
(* number of bytes at a time and may end after any of them.                *)
(***************************************************************************)
EXTENDS Naturals, Sequences, Bounds

CONSTANTS
  Base, Prefix,              \* values of a byte; LEN_PREFIX
  OffsetLen, TagLen,         \* the width of a chunk's offset; TAG_LEN
  DefaultMax, MinMax,        \* DEFAULT_MAX_FRAME, MIN_MAX_FRAME
  RelayMax,                  \* RELAY_MAX_FRAME, of the relay's replies
  DefaultChunk, MinChunk,    \* DEFAULT_CHUNK_SIZE, MIN_CHUNK_SIZE
  TheirCaps,                 \* the capabilities another build may announce
  ControlSizes,              \* sizes of the control messages it sends
  Socket,                    \* how many bytes the connection holds
  MaxFrames                  \* how many frames the peer sends

\* What a data frame has besides its bytes: DATA_HEADER_LEN and TAG_LEN.
Overhead == 1 + OffsetLen + TagLen

\* Base to the power of k.
Power[k \in Nat] == IF k = 0 THEN 1 ELSE Base * Power[k - 1]

\* What the constants of the code satisfy.
FramingAssumption ==
  /\ Base \in Nat /\ Prefix \in Nat /\ 1 < Base /\ 0 < Prefix
  /\ OffsetLen \in Nat /\ 0 < OffsetLen /\ TagLen \in Nat
  /\ DefaultMax \in Nat /\ MinMax \in Nat /\ RelayMax \in Nat /\ 0 < RelayMax
  /\ DefaultChunk \in Nat /\ MinChunk \in Nat
  /\ 0 < MinChunk /\ MinChunk <= DefaultChunk
  /\ MinChunk + Overhead <= MinMax /\ MinMax <= DefaultMax /\ DefaultMax < Power[Prefix]
  /\ TheirCaps \subseteq [max_frame : Nat, chunk_size : Nat]
  /\ ControlSizes \subseteq Nat /\ Socket \in Nat

VARIABLES
  theirs,          \* the capabilities the peer has announced
  buf,             \* buf[b]: the FrameBufs, those of the relay, of control and of data
  message, rest,   \* the message being written, and its bytes not yet written
  writer,          \* "ready", "writing", "refused" by finish, or "gone"
  inFlight,        \* the bytes written and not read
  written,         \* the messages whose last byte has been written
  reading,         \* what is read: "replies", "magic" or "frames"
  have, body,      \* bytes read: of a header or the magic; of a payload
  due,             \* length of the payload being read, NoLength in a header
  got,             \* the messages read
  reader           \* "reading", or how it ended

framingVars == <<theirs, buf, message, rest, writer, inFlight, written, reading, have, body,
          due, got, reader>>

NoLength == Power[Prefix]
Byte == 0..(Base - 1)

-----------------------------------------------------------------------------
(* Capabilities and sizes. *)

Ours == [max_frame |-> DefaultMax, chunk_size |-> DefaultChunk]

Intersect(a, b) == [max_frame |-> Least(a.max_frame, b.max_frame),
                    chunk_size |-> Least(a.chunk_size, b.chunk_size)]

\* apply_capabilities: a limit only shrinks.
LimitFor(caps) == Least(DefaultMax, Most(caps.max_frame, MinMax))

MaxDataLen(limit) == IF limit >= Overhead THEN limit - Overhead ELSE 0

\* Mutant of ChunkSize: what fits a frame is forgotten.
ChunkSizeUnclamped(caps) == Most(Most(caps.chunk_size, MinChunk), 1)

\* clamp panics when its bounds cross; FramingAssumption says they do not.
ChunkSize(caps) ==
  Most(Least(Most(caps.chunk_size, MinChunk), MaxDataLen(LimitFor(caps))), 1)

\* What receiver::begin takes a chunk to be at most.
ChunkLimit(caps) == Most(MaxDataLen(LimitFor(caps)), caps.chunk_size)

FrameCapacity(chunk) == Most(chunk, Least(DefaultChunk, chunk)) + Overhead

Agreed == Intersect(Ours, theirs)

-----------------------------------------------------------------------------
(* FrameBuf: the allocation, prefix included, and how much of it is used.   *)

Zeros(n) == [i \in 1..n |-> 0]
WithCapacity(n) == [bytes |-> Zeros(Prefix + n), len |-> Prefix]

Clear(b) == [b EXCEPT !.len = Prefix]

Ensure(b, total) ==
  IF Len(b.bytes) < total
    THEN [b EXCEPT !.bytes = @ \o Zeros(Most(total, 2 * Len(b.bytes)) - Len(b.bytes))]
    ELSE b

PushSlice(b, data) ==
  LET e == Ensure(b, b.len + Len(data))
  IN  [bytes |-> [i \in 1..Len(e.bytes) |->
                    IF i > e.len /\ i <= e.len + Len(data) THEN data[i - e.len]
                                                           ELSE e.bytes[i]],
       len |-> e.len + Len(data)]

Claim(b, n) == [Ensure(b, b.len + n) EXCEPT !.len = @ + n]

PayloadLen(b) == b.len - Prefix
SetPayloadLen(b, n) == [b EXCEPT !.len = Prefix + n]

\* The first bytes of a claimed region, filled from the file.
Fill(b, start, data) ==
  [b EXCEPT !.bytes = [i \in 1..Len(@) |->
     IF i > start /\ i <= start + Len(data) THEN data[i - start] ELSE @[i]]]

\* to_be_bytes, and from_be_bytes, its inverse.
BigEndian(n) == [i \in 1..Prefix |-> (n \div Power[Prefix - i]) % Base]
Number(digits) == CHOOSE n \in 0..(NoLength - 1) : BigEndian(n) = digits

\* finish stamps the prefix: the frame is everything up to len.
Finish(b) == BigEndian(PayloadLen(b)) \o SubSeq(b.bytes, Prefix + 1, b.len)

-----------------------------------------------------------------------------
(* Messages: a kind, for data an offset, and content.                       *)
KindOf == [control |-> 0, data |-> 1]
Magic == <<1, 1>>

Content(n) == [i \in 1..n |-> (Len(written) + 1) % Base]
Reply(what) == [kind |-> what, offset |-> 0, bytes |-> <<>>]
Control(n) == [kind |-> "control", offset |-> 0, bytes |-> Content(n)]
Data(offset, n) == [kind |-> "data", offset |-> offset, bytes |-> Content(n)]
MagicItem == [kind |-> "magic", offset |-> 0, bytes |-> Magic]

ReplyCode == [welcome |-> 0, paired |-> 1]

\* relay::encode, and encode_control with the tag that seal appends.
EncodeReply(m) == PushSlice(Clear(buf["relay"]), <<ReplyCode[m.kind]>>)
EncodeControl(m) ==
  PushSlice(PushSlice(PushSlice(Clear(buf["control"]), <<KindOf.control>>), m.bytes), Zeros(TagLen))

\* stage_data claims what a chunk may take, the file fills a part of it,
\* finish_data gives back the rest, and seal appends its tag.
EncodeData(m, claimed) ==
  LET start  == PushSlice(PushSlice(Clear(buf["data"]), <<KindOf.data>>),
                          [i \in 1..OffsetLen |-> m.offset])
      filled == Fill(Claim(start, claimed), start.len, m.bytes)
  IN  PushSlice(SetPayloadLen(filled, 1 + OffsetLen + Len(m.bytes)), Zeros(TagLen))

Malformed == [kind |-> "malformed", offset |-> 0, bytes |-> <<>>]

DecodeReply(payload) ==
  IF Len(payload) = 1 /\ \E k \in DOMAIN ReplyCode : ReplyCode[k] = payload[1]
    THEN Reply(CHOOSE k \in DOMAIN ReplyCode : ReplyCode[k] = payload[1])
    ELSE Malformed

\* open truncates the tag away, then decode_incoming.
DecodeIncoming(frame) ==
  LET payload == SubSeq(frame, 1, Len(frame) - TagLen)
      rests(n) == SubSeq(payload, n, Len(payload))
  IN  CASE payload = <<>> -> Malformed
        [] payload # <<>> /\ payload[1] = KindOf.control ->
             [kind |-> "control", offset |-> 0, bytes |-> rests(2)]
        [] payload # <<>> /\ payload[1] = KindOf.data /\ Len(payload) > OffsetLen ->
             [kind |-> "data", offset |-> payload[2], bytes |-> rests(2 + OffsetLen)]
        [] OTHER -> Malformed

-----------------------------------------------------------------------------
FramingInit ==
  /\ theirs \in TheirCaps
  /\ buf = [relay |-> WithCapacity(1), control |-> WithCapacity(1),
            data |-> WithCapacity(FrameCapacity(ChunkSize(Intersect(Ours, theirs))))]
  /\ message = Malformed /\ rest = <<>> /\ writer = "ready"
  /\ inFlight = <<>> /\ written = <<>> /\ got = <<>>
  /\ reading = "replies" /\ have = <<>> /\ body = <<>> /\ due = NoLength
  /\ reader = "reading"

ReaderVars == <<reading, have, body, due, got, reader>>

-----------------------------------------------------------------------------
(* The writers: the relay, then the peer whose bytes it copies.             *)

\* write_buf and write_payload: finish refuses a frame over the limit and
\* nothing of it is written, otherwise write_all writes it piece by piece.
Submit(which, b, m, limit) ==
  /\ writer = "ready"
  /\ buf' = [buf EXCEPT ![which] = b]
  /\ message' = m
  /\ IF PayloadLen(b) > limit
       THEN writer' = "refused" /\ UNCHANGED rest
       ELSE writer' = "writing" /\ rest' = Finish(b)
  /\ UNCHANGED <<theirs, inFlight, written>>
  /\ UNCHANGED ReaderVars

LastSent == IF written = <<>> THEN "none" ELSE written[Len(written)].kind

\* The relay says Welcome to a client that has to wait, and Paired.
SendReply ==
  \E what \in {"welcome", "paired"} :
    /\ LastSent = "none" \/ (LastSent = "welcome" /\ what = "paired")
    /\ Submit("relay", EncodeReply(Reply(what)), Reply(what), RelayMax)

\* The magic travels without a frame.
SendMagic ==
  /\ writer = "ready" /\ LastSent = "paired"
  /\ writer' = "writing" /\ rest' = Magic /\ message' = MagicItem
  /\ UNCHANGED <<theirs, buf, inFlight, written>>
  /\ UNCHANGED ReaderVars

FramesSent == SelectSeq(written, LAMBDA m : m.kind \in {"control", "data"})
MayFrame == LastSent \in {"magic", "control", "data"} /\ Len(FramesSent) < MaxFrames

SendControl ==
  /\ MayFrame
  /\ \E n \in ControlSizes :
       LET m == Control(n) IN Submit("control", EncodeControl(m), m, LimitFor(Agreed))

\* send_file: a chunk that is the last or read short fills less than claimed.
SendData ==
  /\ MayFrame
  /\ \E claimed \in 1..ChunkSize(Agreed) : \E n \in 1..claimed :
       LET m == Data(Len(written) % Base, n)
       IN  Submit("data", EncodeData(m, claimed), m, LimitFor(Agreed))

WriteSome ==
  /\ writer = "writing"
  /\ \E n \in 1..Least(Len(rest), Socket - Len(inFlight)) :
       /\ inFlight' = inFlight \o SubSeq(rest, 1, n)
       /\ rest' = SubSeq(rest, n + 1, Len(rest))
       /\ IF n = Len(rest) THEN writer' = "ready" /\ written' = Append(written, message)
                           ELSE UNCHANGED <<writer, written>>
  /\ UNCHANGED <<theirs, buf, message>>
  /\ UNCHANGED ReaderVars

\* The writer closes, or is gone in the middle of a frame.
Leave ==
  /\ writer # "gone"
  /\ writer' = "gone" /\ rest' = <<>>
  /\ UNCHANGED <<theirs, buf, message, inFlight, written>>
  /\ UNCHANGED ReaderVars

-----------------------------------------------------------------------------
(* The reader.                                                              *)
WriterVars == <<theirs, buf, message, rest, writer, written>>

\* The bytes that the current read_exact still wants.
Wanted ==
  CASE reading = "magic" -> Len(Magic) - Len(have)
    [] reading # "magic" /\ due = NoLength -> Prefix - Len(have)
    [] OTHER -> due - Len(body)

\* Mutant of ReadSome: a reader that takes what is there, beyond what it needs.
ReadAhead ==
  /\ reader = "reading" /\ inFlight # <<>> /\ Wanted > 0
  /\ LET n == Least(Len(inFlight), Wanted)
     IN  IF due = NoLength \/ reading = "magic"
           THEN have' = have \o SubSeq(inFlight, 1, n) /\ UNCHANGED body
           ELSE body' = body \o SubSeq(inFlight, 1, n) /\ UNCHANGED have
  /\ inFlight' = <<>>
  /\ UNCHANGED <<reading, due, got, reader>>
  /\ UNCHANGED WriterVars

ReadSome ==
  /\ reader = "reading"
  /\ \E n \in 1..Least(Len(inFlight), Wanted) :
       /\ IF due = NoLength \/ reading = "magic"
            THEN have' = have \o SubSeq(inFlight, 1, n) /\ UNCHANGED body
            ELSE body' = body \o SubSeq(inFlight, 1, n) /\ UNCHANGED have
       /\ inFlight' = SubSeq(inFlight, n + 1, Len(inFlight))
  /\ UNCHANGED <<reading, due, got, reader>>
  /\ UNCHANGED WriterVars

ReadLimit == IF reading = "replies" THEN RelayMax ELSE LimitFor(Agreed)

\* The length is looked at before anything of the body is.
HeaderRead ==
  /\ reader = "reading" /\ reading # "magic" /\ due = NoLength /\ Wanted = 0
  /\ IF Number(have) > ReadLimit
       THEN reader' = "too large" /\ UNCHANGED <<due, body>>
       ELSE due' = Number(have) /\ body' = <<>> /\ UNCHANGED reader
  /\ have' = <<>>
  /\ UNCHANGED <<inFlight, reading, got>>
  /\ UNCHANGED WriterVars

\* rendezvous reads one reply or two and rejoins the halves after Paired.
ReplyRead ==
  /\ reader = "reading" /\ reading = "replies" /\ due # NoLength /\ Wanted = 0
  /\ LET m == DecodeReply(body)
     IN  /\ got' = Append(got, m)
         /\ reading' = IF m.kind = "paired" THEN "magic" ELSE reading
         /\ reader' = IF m = Malformed \/ (m.kind = "welcome" /\ got # <<>>)
                        THEN "unexpected" ELSE reader
  /\ due' = NoLength /\ body' = <<>>
  /\ UNCHANGED <<inFlight, have>>
  /\ UNCHANGED WriterVars

MagicRead ==
  /\ reader = "reading" /\ reading = "magic" /\ Wanted = 0
  /\ IF have = Magic
       THEN reading' = "frames" /\ got' = Append(got, MagicItem) /\ UNCHANGED reader
       ELSE reader' = "bad magic" /\ UNCHANGED <<reading, got>>
  /\ have' = <<>>
  /\ UNCHANGED <<inFlight, body, due>>
  /\ UNCHANGED WriterVars

FrameRead ==
  /\ reader = "reading" /\ reading = "frames" /\ due # NoLength /\ Wanted = 0
  /\ LET m == DecodeIncoming(body)
     IN  IF m = Malformed THEN reader' = "unexpected" /\ UNCHANGED got
                          ELSE got' = Append(got, m) /\ UNCHANGED reader
  /\ due' = NoLength /\ body' = <<>>
  /\ UNCHANGED <<inFlight, reading, have>>
  /\ UNCHANGED WriterVars

\* read_exact fails: read_frame takes that for a clean end in a header, also
\* in one that has begun, and for a cut stream in a payload. The replies and
\* the magic must come.
EndOfStream ==
  /\ reader = "reading" /\ writer = "gone" /\ inFlight = <<>> /\ Wanted > 0
  /\ reader' = IF reading = "frames" /\ due = NoLength THEN "closed" ELSE "cut"
  /\ UNCHANGED <<inFlight, reading, have, body, due, got>>
  /\ UNCHANGED WriterVars

\* The connection is reset: what has not been read is lost.
Reset ==
  /\ reader = "reading" /\ writer = "gone"
  /\ reader' = "reset" /\ inFlight' = <<>>
  /\ UNCHANGED <<reading, have, body, due, got>>
  /\ UNCHANGED WriterVars

FramingNext ==
  \/ SendReply \/ SendMagic \/ SendControl \/ SendData \/ WriteSome \/ Leave
  \/ ReadSome \/ HeaderRead \/ ReplyRead \/ MagicRead \/ FrameRead
  \/ EndOfStream \/ Reset

FramingSpec == FramingInit /\ [][FramingNext]_framingVars

-----------------------------------------------------------------------------
\* Chunks fit: whatever the other build announces, a chunk of the agreed size
\* is refused by no limit on its way, not by finish, not by the header check
\* of read_frame and not by the receiver's own chunk_limit, and it is never
\* empty, which would let send_file read on for ever.
ChunksFit ==
  /\ writer = "refused" => message.kind = "control"
  /\ reader # "too large"
  /\ \A i \in 1..Len(got) : got[i].kind = "data" =>
       Len(got[i].bytes) \in 1..ChunkLimit(Agreed)

Stream == INSTANCE FrameStream WITH
  Messages <- [kind : {"welcome", "paired", "magic", "control", "data"},
               offset : Byte, bytes : Seq(Byte)],
  sent <- written,
  end <- IF reader = "reading" THEN "open"
         ELSE IF reader = "closed" THEN "closed" ELSE "broken"

\* However the bytes are cut into pieces, and whoever reads them (the relay's
\* client, the check of the magic, the peer's frames), every message arrives
\* whole, once and in order, bytes left in a reused buffer are in none of
\* them, and a stream that ended as closed has delivered everything.
ImplementsFrameStream == Stream!Spec
=============================================================================
