---------------------------- MODULE StreamParser ----------------------------
(***************************************************************************)
(* Framing on the byte stream: split_into_chunks (remoteway-transport/src/ *)
(* chunk_sender.rs) on the sending side, StreamParser (multiplexer.rs) on  *)
(* the receiving side, and read_loop's use of it.  Bytes are units: a      *)
(* header is HeaderSize units, a payload unit names its message and its    *)
(* place in it.  A read returns any number of units, so a header, a chunk  *)
(* or a message may be cut anywhere.                                       *)
(***************************************************************************)
EXTENDS Integers, Sequences, SequencesExt

CONSTANTS
  Streams,      \* stream ids: 0 control and input, 1 the primary surface
  Lengths,      \* payload lengths, in units
  ChunkSize,    \* CHUNK_SIZE, in units
  MaxPayload,   \* MAX_PAYLOAD_LEN, in units
  MaxMessages,  \* bound: messages sent
  MaxRead,      \* READ_BUF_SIZE, in units
  Corrupts      \* the stream may carry a header that is not this program's

ASSUME ParserAssumption ==
  /\ Lengths \subseteq Nat
  /\ MaxPayload \in Nat
  /\ ChunkSize \in 1 .. MaxPayload
  /\ MaxMessages \in Nat
  /\ MaxRead \in Nat \ {0}
  /\ Corrupts \in BOOLEAN

VARIABLES
  sent,       \* history: the messages sent, in order
  wire,       \* units written and not read yet
  buf,        \* StreamParser::buf
  chunks,     \* StreamParser::chunks: stream id -> payload so far
  parserPc,   \* "read": waiting in reader.read; "push": in the loop of push;
              \* "broken": read_loop ended
  out,        \* the local `out` of push
  delivered   \* messages handed to the incoming channel, in order

vars == <<sent, wire, buf, chunks, parserPc, out, delivered>>

-----------------------------------------------------------------------------
(* chunk_sender.rs *)

HeaderSize == 2

\* A FrameHeader and its payload.
Header(stream, last, len, valid) ==
  << [unit |-> "header", stream |-> stream, last |-> last, len |-> len,
      valid |-> valid],
     [unit |-> "header rest"] >>

Payload(id, len) ==
  [k \in 1 .. len |-> [unit |-> "payload", id |-> id, place |-> k]]

\* chunk_count: one chunk for an empty payload.
chunk_count(len) ==
  IF len = 0 THEN 1 ELSE (len + ChunkSize - 1) \div ChunkSize

\* Fault: a chunk takes one unit too many.
ChunkEndFault(i, len) ==
  IF i * ChunkSize + 1 < len THEN i * ChunkSize + 1 ELSE len

\* Where chunk i of a payload ends: (offset + chunk_size).min(payload.len()).
ChunkEnd(i, len) == IF i * ChunkSize < len THEN i * ChunkSize ELSE len

\* split_into_chunks: chunk i holds the units from where chunk i - 1 ended,
\* and only the final one is marked LAST_CHUNK.
split_into_chunks(stream, payload) ==
  LET n == chunk_count(Len(payload))
      Start(i) == (i - 1) * ChunkSize
      Chunk(i) ==
        Header(stream, i = n, ChunkEnd(i, Len(payload)) - Start(i), TRUE)
          \o SubSeq(payload, Start(i) + 1, ChunkEnd(i, Len(payload)))
  IN  FlattenSeq([i \in 1 .. n |-> Chunk(i)])

-----------------------------------------------------------------------------
Init ==
  /\ sent = <<>> /\ wire = <<>> /\ buf = <<>>
  /\ chunks = <<>>
  /\ parserPc = "read"
  /\ out = <<>> /\ delivered = <<>>

\* The writer writes the chunks of one message in one write_all.
Send(stream, len) ==
  LET payload == Payload(Len(sent) + 1, len)
  IN  /\ Len(sent) < MaxMessages
      /\ sent' = Append(sent, [stream |-> stream, payload |-> payload])
      /\ wire' = wire \o split_into_chunks(stream, payload)
      /\ UNCHANGED <<buf, chunks, parserPc, out, delivered>>

\* Bytes that are not from this program: a header with an unknown msg_type, or
\* one that announces more than MAX_PAYLOAD_LEN.
Corrupt ==
  /\ Corrupts
  /\ Len(sent) < MaxMessages
  /\ sent' = Append(sent, [stream |-> 0, payload |-> <<>>])
  /\ \/ wire' = wire \o Header(0, TRUE, 0, FALSE)
     \/ wire' = wire \o Header(0, TRUE, MaxPayload + 1, TRUE)
  /\ UNCHANGED <<buf, chunks, parserPc, out, delivered>>

\* reader.read(&mut buf) returns n units, which push appends to its buffer.
Read(n) ==
  /\ parserPc = "read"
  /\ n <= Len(wire)
  /\ buf' = buf \o SubSeq(wire, 1, n)
  /\ wire' = SubSeq(wire, n + 1, Len(wire))
  /\ out' = <<>>
  /\ parserPc' = "push"
  /\ UNCHANGED <<sent, chunks, delivered>>

\* Where the first frame of the buffer ends.
FrameEnd == HeaderSize + buf[1].len

\* payload_len > MAX_PAYLOAD_LEN, known as soon as the header is there.
TooLarge == Len(buf) >= HeaderSize /\ buf[1].len > MaxPayload

\* Fault: a frame that ends with the buffer counts as incomplete.
HasFrameFault == Len(buf) >= HeaderSize /\ ~TooLarge /\ Len(buf) > FrameEnd

\* The first frame of the buffer is complete.
HasFrame == Len(buf) >= HeaderSize /\ ~TooLarge /\ Len(buf) >= FrameEnd

\* push breaks out of its loop and returns `out`, which read_loop sends on.
PushReturns ==
  /\ parserPc = "push"
  /\ ~TooLarge /\ ~HasFrame
  /\ delivered' = delivered \o out
  /\ out' = <<>>
  /\ parserPc' = "read"
  /\ UNCHANGED <<sent, wire, buf, chunks>>

\* PayloadTooLarge, or hdr.msg_type()? fails: push returns Err, `out` is lost,
\* and read_loop ends.
PushFails ==
  /\ parserPc = "push"
  /\ TooLarge \/ (HasFrame /\ ~buf[1].valid)
  /\ parserPc' = "broken"
  /\ out' = <<>>
  /\ UNCHANGED <<sent, wire, buf, chunks, delivered>>

\* chunks.entry(stream_id): what the stream has so far, with this payload.
Accumulated(stream, payload) ==
  IF stream \in DOMAIN chunks THEN chunks[stream] \o payload ELSE payload

\* Fault: the finished stream stays in the map.
ForgetFault(stream) == chunks

\* chunks.remove(&stream_id).
Forget(stream) == [s \in DOMAIN chunks \ {stream} |-> chunks[s]]

\* The stream is not finished.
Remember(stream, payload) ==
  [s \in DOMAIN chunks \cup {stream} |->
     IF s = stream THEN payload ELSE chunks[s]]

\* One frame: split_to takes it off the buffer, reassemble completes a message
\* on its last chunk.
PushFrame ==
  /\ parserPc = "push"
  /\ HasFrame
  /\ buf[1].valid
  /\ LET hdr == buf[1]
         payload == SubSeq(buf, HeaderSize + 1, FrameEnd)
         full == Accumulated(hdr.stream, payload)
     IN  IF hdr.last
         THEN /\ out' = Append(out, [stream |-> hdr.stream, payload |-> full])
              /\ chunks' = Forget(hdr.stream)
         ELSE /\ out' = out
              /\ chunks' = Remember(hdr.stream, full)
  /\ buf' = SubSeq(buf, FrameEnd + 1, Len(buf))
  /\ UNCHANGED <<sent, wire, parserPc, delivered>>

Step == \/ \E n \in 1 .. MaxRead : Read(n)
        \/ PushReturns \/ PushFails \/ PushFrame

Done == Len(sent) = MaxMessages /\ wire = <<>> /\ parserPc = "read"
        /\ UNCHANGED vars
Broken == parserPc = "broken" /\ UNCHANGED vars

Next == \/ \E s \in Streams, len \in Lengths : Send(s, len)
        \/ Corrupt
        \/ Step
        \/ Done \/ Broken

\* read_loop keeps reading what is there.
Spec == Init /\ [][Next]_vars /\ WF_vars(Step)

-----------------------------------------------------------------------------
(* Properties *)

\* The buffer always starts with a header, and every unfinished stream is one
\* the sender uses.
TypeOK ==
  /\ parserPc \in {"read", "push", "broken"}
  /\ buf # <<>> => buf[1].unit = "header"
  /\ DOMAIN chunks \subseteq Streams
  /\ Len(sent) <= MaxMessages

\* However the stream is cut into reads, the messages handed on are the
\* messages sent, whole, in order and each once.
Reassembles == IsPrefix(delivered \o out, sent)

\* Once everything that was sent has been parsed, nothing is left over: not in
\* the buffer and not in the map of unfinished streams.
NothingLeftOver ==
  wire = <<>> /\ parserPc = "read" => buf = <<>> /\ chunks = <<>>

\* Every message sent is handed on, unless read_loop has ended.
EventuallyDelivered ==
  \A k \in 1 .. MaxMessages :
    Len(sent) >= k ~> (Len(delivered) >= k \/ parserPc = "broken")
=============================================================================
