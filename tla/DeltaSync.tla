------------------------------ MODULE DeltaSync ------------------------------
(***************************************************************************)
(* The delta pipeline end to end: capture thread, ring, compress thread    *)
(* (remoteway-server/src/pipeline.rs, compress_send_loop), the transport's *)
(* two frame queues and its biased writer (remoteway-transport/src/        *)
(* ssh_transport.rs), the byte stream, and the client's decoder            *)
(* (remoteway-client/src/pipeline.rs, recv_decompress_loop).               *)
(*                                                                         *)
(* The server sends XOR deltas against previous_frame, its idea of what    *)
(* the client holds; the client XORs them onto its own base.  The question *)
(* is whether the two stay the same.                                       *)
(***************************************************************************)
EXTENDS CaptureThread

CONSTANTS
  DoDownscale,       \* --scale differs from 1.0
  AnchorInterval,    \* ANCHOR_INTERVAL
  FrameQueueDepth,   \* FRAME_QUEUE_DEPTH of the transport
  MaxAnchors,        \* bound: anchors queued or on the wire (the anchor queue
                     \* is unbounded in the code)
  WireCapacity       \* bound: messages in the pipe and in the client's queue

ASSUME SyncAssumption ==
  /\ DoDownscale \in BOOLEAN
  /\ AnchorInterval \in Nat \ {0}
  /\ FrameQueueDepth \in Nat \ {0}
  /\ MaxAnchors \in Nat \ {0}
  /\ WireCapacity \in Nat \ {0}

VARIABLES
  compressPc,        \* where compress_send_loop is
  frame,             \* its local `frame`
  previous_frame,    \* its delta base
  is_first, need_full_damage,
  frame_count,       \* 0, then 1..AnchorInterval over and over: only "is it a
                     \* positive multiple of ANCHOR_INTERVAL" is ever asked
  shutdown,          \* the flag every task of the server shares
  anchor_tx, frame_tx,   \* the two frame queues of TransportSender
  wire,              \* messages written, in order, and not yet decoded
  clientBase,        \* previous_frame of recv_decompress_loop
  owed               \* history: XOR of every delta sent and not yet decoded

compressVars == <<compressPc, frame, previous_frame, is_first,
                  need_full_damage, frame_count>>
transportVars == <<anchor_tx, frame_tx, wire>>
vars == <<captureVars, compressVars, shutdown, transportVars, clientBase,
          owed>>

Message == [anchor : BOOLEAN, delta : SUBSET Cells]

TypeOK ==
  /\ CaptureTypeOK
  /\ compressPc \in {"recv", "poll", "drain", "flag", "encode", "stop",
                     "join", "done"}
  /\ frame \in CapturedFrame
  /\ previous_frame \in Picture
  /\ is_first \in BOOLEAN
  /\ need_full_damage \in BOOLEAN
  /\ frame_count \in 0 .. AnchorInterval
  /\ shutdown \in BOOLEAN
  /\ anchor_tx \in Seq(Message)
  /\ frame_tx \in Seq(Message)
  /\ Len(frame_tx) <= FrameQueueDepth
  /\ wire \in Seq(Message)
  /\ clientBase \in Picture
  /\ owed \in SUBSET Cells

Init ==
  /\ CaptureInit
  /\ compressPc = "recv"
  /\ frame = NoFrame
  /\ previous_frame = Zeroes
  /\ is_first = TRUE
  /\ need_full_damage = FALSE
  /\ frame_count = 0
  /\ shutdown = FALSE
  /\ anchor_tx = <<>> /\ frame_tx = <<>> /\ wire = <<>>
  /\ clientBase = Zeroes
  /\ owed = {}

-----------------------------------------------------------------------------
(* compress_send_loop *)

\* capture.try_recv() returns a frame.
TryRecv ==
  /\ compressPc = "recv" /\ ~shutdown
  /\ ring # <<>>
  /\ frame' = Head(ring)
  /\ ring' = Tail(ring)
  /\ compressPc' = "drain"
  /\ UNCHANGED <<screen, paints, changed, capturePc, captureFrame, pushedOnce,
                 frames_dropped, stop_flag, finished, discarded,
                 previous_frame, is_first, need_full_damage, frame_count,
                 shutdown, transportVars, clientBase, owed>>

\* capture.try_recv() returns None ...
TryRecvNone ==
  /\ compressPc = "recv" /\ ~shutdown
  /\ ring = <<>>
  /\ compressPc' = "poll"
  /\ UNCHANGED <<captureVars, frame, previous_frame, is_first,
                 need_full_damage, frame_count, shutdown, transportVars,
                 clientBase, owed>>

\* ... and then capture.is_finished() ends the loop and the server, or the
\* loop sleeps 2 ms and starts over.
PollFinished ==
  /\ compressPc = "poll"
  /\ compressPc' = IF finished THEN "stop" ELSE "recv"
  /\ shutdown' = (shutdown \/ finished)
  /\ UNCHANGED <<captureVars, frame, previous_frame, is_first,
                 need_full_damage, frame_count, transportVars,
                 clientBase, owed>>

\* while let Some(newer) = capture.try_recv(): a skipped frame's damage is
\* lost, so full damage is needed.
DrainRing ==
  /\ compressPc = "drain"
  /\ ring # <<>>
  /\ frame' = Head(ring)
  /\ ring' = Tail(ring)
  /\ need_full_damage' = TRUE
  /\ UNCHANGED <<screen, paints, changed, capturePc, captureFrame, pushedOnce,
                 frames_dropped, stop_flag, finished, discarded, compressPc,
                 previous_frame, is_first, frame_count, shutdown,
                 transportVars, clientBase, owed>>

DrainEmpty ==
  /\ compressPc = "drain"
  /\ ring = <<>>
  /\ compressPc' = "flag"
  /\ UNCHANGED <<captureVars, frame, previous_frame, is_first,
                 need_full_damage, frame_count, shutdown, transportVars,
                 clientBase, owed>>

\* if capture.take_dropped_flag() { need_full_damage = true; }
TakeDroppedFlag ==
  /\ compressPc = "flag"
  /\ need_full_damage' = (need_full_damage \/ frames_dropped)
  /\ frames_dropped' = FALSE
  /\ compressPc' = "encode"
  /\ UNCHANGED <<screen, paints, changed, capturePc, captureFrame, pushedOnce,
                 ring, stop_flag, finished, discarded, frame, previous_frame,
                 is_first, frame_count, shutdown, transportVars, clientBase,
                 owed>>

force_anchor == is_first \/ frame_count = AnchorInterval

\* Fault: need_full_damage is not looked at.
RegionsFault ==
  IF force_anchor \/ frame.damage = {} \/ DoDownscale THEN Cells ELSE frame.damage

\* The regions of the delta: the whole picture, or the compositor's damage.
Regions ==
  IF force_anchor \/ frame.damage = {} \/ need_full_damage \/ DoDownscale
  THEN Cells
  ELSE frame.damage

\* The message for `frame`.  previous_frame.resize(len, 0) before an anchor
\* keeps the bytes the base already has.
Encoded ==
  [anchor |-> force_anchor,
   delta |-> delta_encode(frame.data, previous_frame, Regions)]

\* What every pass of the loop ends with.
FinishPass ==
  /\ is_first' = FALSE
  /\ frame_count' = (frame_count % AnchorInterval) + 1
  /\ frame' = NoFrame
  /\ compressPc' = "recv"
  /\ UNCHANGED <<captureVars, shutdown, wire, clientBase>>

\* `sent`: the delta base advances to the picture just encoded.
AdvanceBase ==
  /\ previous_frame' = frame.data
  /\ need_full_damage' = FALSE
  /\ owed' = XOR(owed, Encoded.delta)

IsAnchor(m) == m.anchor

AnchorsUnderWay == Len(anchor_tx) + Len(SelectSeq(wire, IsAnchor))

\* An anchor: sender.send_anchor() refuses nothing while the transport is up.
SendAnchor ==
  /\ compressPc = "encode"
  /\ force_anchor
  /\ AnchorsUnderWay < MaxAnchors
  /\ anchor_tx' = Append(anchor_tx, Encoded)
  /\ AdvanceBase
  /\ UNCHANGED frame_tx
  /\ FinishPass

\* An update: sender.try_send_frame() finds room in the queue.
SendUpdate ==
  /\ compressPc = "encode"
  /\ ~force_anchor
  /\ Len(frame_tx) < FrameQueueDepth
  /\ frame_tx' = Append(frame_tx, Encoded)
  /\ AdvanceBase
  /\ UNCHANGED anchor_tx
  /\ FinishPass

\* Fault: the base advances although the frame was not sent.
DropUpdateFault ==
  /\ compressPc = "encode"
  /\ ~force_anchor
  /\ Len(frame_tx) >= FrameQueueDepth
  /\ previous_frame' = frame.data /\ need_full_damage' = FALSE
  /\ UNCHANGED <<anchor_tx, frame_tx, owed>>
  /\ FinishPass

\* An update: sender.try_send_frame() finds the queue full, the frame is
\* dropped and the base stays.
DropUpdate ==
  /\ compressPc = "encode"
  /\ ~force_anchor
  /\ Len(frame_tx) >= FrameQueueDepth
  /\ need_full_damage' = TRUE
  /\ UNCHANGED <<previous_frame, anchor_tx, frame_tx, owed>>
  /\ FinishPass

\* Fault: stop() joins without raising stop_flag.
LeaveLoopFault ==
  /\ \/ compressPc = "recv" /\ shutdown
     \/ compressPc = "stop"
  /\ UNCHANGED stop_flag
  /\ compressPc' = "join"
  /\ UNCHANGED <<screen, paints, changed, capturePc, captureFrame, pushedOnce,
                 ring, frames_dropped, finished, discarded, frame, previous_frame,
                 is_first, need_full_damage, frame_count, shutdown,
                 transportVars, clientBase, owed>>

\* while !shutdown ends, and capture.stop() raises the flag ...
LeaveLoop ==
  /\ \/ compressPc = "recv" /\ shutdown
     \/ compressPc = "stop"
  /\ stop_flag' = TRUE
  /\ compressPc' = "join"
  /\ UNCHANGED <<screen, paints, changed, capturePc, captureFrame, pushedOnce,
                 ring, frames_dropped, finished, discarded, frame, previous_frame,
                 is_first, need_full_damage, frame_count, shutdown,
                 transportVars, clientBase, owed>>

\* ... and joins the capture thread.
JoinCapture ==
  /\ compressPc = "join"
  /\ capturePc = "done"
  /\ compressPc' = "done"
  /\ UNCHANGED <<captureVars, frame, previous_frame, is_first,
                 need_full_damage, frame_count, shutdown, transportVars,
                 clientBase, owed>>

CompressStep ==
  \/ TryRecv \/ TryRecvNone \/ PollFinished \/ DrainRing \/ DrainEmpty
  \/ TakeDroppedFlag \/ SendAnchor \/ SendUpdate \/ DropUpdate
  \/ LeaveLoop \/ JoinCapture

-----------------------------------------------------------------------------
(* Transport and client *)

\* write_loop, biased: an anchor before a frame.
WriteAnchor ==
  /\ anchor_tx # <<>>
  /\ Len(wire) < WireCapacity
  /\ wire' = Append(wire, Head(anchor_tx))
  /\ anchor_tx' = Tail(anchor_tx)
  /\ UNCHANGED <<captureVars, compressVars, shutdown, frame_tx, clientBase,
                 owed>>

WriteFrame ==
  /\ anchor_tx = <<>>
  /\ frame_tx # <<>>
  /\ Len(wire) < WireCapacity
  /\ wire' = Append(wire, Head(frame_tx))
  /\ frame_tx' = Tail(frame_tx)
  /\ UNCHANGED <<captureVars, compressVars, shutdown, anchor_tx, clientBase,
                 owed>>

\* recv_decompress_loop takes a message: an anchor only resizes the base,
\* which keeps its bytes; the decoded picture becomes the new base.
ClientDecode ==
  /\ wire # <<>>
  /\ clientBase' = delta_decode(Head(wire).delta, clientBase)
  /\ owed' = XOR(owed, Head(wire).delta)
  /\ wire' = Tail(wire)
  /\ UNCHANGED <<captureVars, compressVars, shutdown, anchor_tx, frame_tx>>

\* Ctrl-C, the exit of the application or the end of recv_dispatch_loop.
Shutdown ==
  /\ MayEnd
  /\ ~shutdown
  /\ shutdown' = TRUE
  /\ UNCHANGED <<captureVars, compressVars, transportVars, clientBase, owed>>

\* Both threads are gone and nothing is left to deliver.
Terminated ==
  /\ compressPc = "done"
  /\ anchor_tx = <<>> /\ frame_tx = <<>> /\ wire = <<>>
  /\ UNCHANGED vars

otherVars == <<compressVars, shutdown, transportVars, clientBase, owed>>

Next ==
  \/ (\E cells \in SUBSET Cells \ {{}} : Paint(cells)) /\ UNCHANGED otherVars
  \/ CaptureStep /\ UNCHANGED otherVars
  \/ CompressStep
  \/ WriteAnchor \/ WriteFrame \/ ClientDecode
  \/ Shutdown \/ Terminated

\* Every thread and task keeps running, and the clock passes min_interval, so
\* the rate limiter cannot win for ever.  Two pushes are min_interval (at least
\* 2 ms) apart, so the drain of the ring, which takes microseconds, gets ahead
\* of them.  The link carries an anchor before the next one is due (MaxAnchors
\* = 1), so the biased writer gets to the updates again and again.  Nothing
\* makes the application draw, the backend fail or the server shut down.
Fairness ==
  /\ WF_vars(CaptureProgress /\ UNCHANGED otherVars)
  /\ SF_vars((Push \/ PushFull) /\ UNCHANGED otherVars)
  /\ WF_vars(CompressStep)
  /\ SF_vars(DrainEmpty)
  /\ WF_vars(WriteAnchor \/ WriteFrame)
  /\ SF_vars(WriteFrame)
  /\ WF_vars(ClientDecode)

Spec == Init /\ [][Next]_vars
FairSpec == Spec /\ Fairness
-----------------------------------------------------------------------------
(* Properties *)

\* Where the server's base, the client's base and what is under way between
\* them disagree.
Divergence == XOR(XOR(previous_frame, clientBase), owed)

\* With full damage (wlr-screencopy) or a downscaled stream, whatever frames
\* the ring, the rate limiter and the transport drop, the server's delta base
\* is the client's base once the deltas under way are applied
\* (compress_send_loop's "only advance the delta base when ... sent").
InSync == FullDamage \/ DoDownscale => Divergence = {}

\* With the compositor's own damage, drained ring frames and frames dropped by
\* the transport never corrupt the client: the two bases differ only in cells
\* that were damaged in a frame which capture_loop itself let go.
DivergenceCovered == Divergence \subseteq discarded

\* The compositor shows p and the pipeline is up.
Quiet(p) ==
  /\ screen = p
  /\ ~shutdown
  /\ capturePc \notin {"exit", "done"}

\* A frame is about to be dropped because the frame queue is full.
Overflow ==
  compressPc = "encode" /\ ~force_anchor /\ Len(frame_tx) >= FrameQueueDepth

\* Once the screen stops changing, the client ends up with the screen and
\* keeps it, whatever was dropped on the way.
EventuallyMirrored ==
  \A p \in Picture : <>[]Quiet(p) => <>[](clientBase = p)

\* With the compositor's own damage, as long as the frame queue has room, a
\* screen that stops changing reaches the client, but for cells of frames that
\* the rate limiter or the full ring let go: on a quiet screen next_frame()
\* delivers nothing that would repair them.  Drained frames, overtaking anchors
\* and the moments at which the flags are read leave no other cell behind.
SettlesUpToDiscarded ==
  \A p \in Picture :
    []~Overflow /\ <>[]Quiet(p) => <>[](XOR(clientBase, p) \subseteq discarded)

\* After a shutdown request the compress thread leaves its loop, the capture
\* thread sees stop_flag ("it will exit after the current frame completes")
\* and the join in capture.stop() returns.
ShutdownCompletes == shutdown ~> compressPc = "done"

\* The bases are always in sync, whatever the capture ring drops: forcing full
\* damage when take_dropped_flag() reports a drop is meant to ensure it.
BaseStaysInSync == Divergence = {}

-----------------------------------------------------------------------------
(* The inductive invariant behind DivergenceCovered and InSync.  Read in     *)
(* order, the last picture the compress thread took, the ring, the frame in  *)
(* the capture thread's hands and the screen form a chain in which each      *)
(* picture differs from the one before it only inside its own damage, or     *)
(* where a discarded frame was damaged.                                      *)

\* a and b differ only in `cells`.
DifferIn(a, b, cells) == XOR(a, b) \subseteq cells

\* The damage of frame f covers its difference from `picture`.
Follows(picture, f) == DifferIn(f.data, picture, f.damage \cup discarded)

\* The compress thread has a frame it has not encoded yet.
Holding == compressPc \in {"drain", "flag", "encode"}

\* The last picture the compress thread took from the ring, known when it is
\* still in hand or when it became the delta base.
TakenKnown == Holding \/ (~need_full_damage /\ ~is_first)
Taken == IF Holding THEN frame.data ELSE previous_frame

RingChain ==
  \A i \in 1 .. Len(ring) - 1 : Follows(ring[i].data, ring[i + 1])

HeadChain ==
  /\ Holding /\ ~need_full_damage /\ ~is_first => Follows(previous_frame, frame)
  /\ TakenKnown /\ ring # <<>> => Follows(Taken, ring[1])

CaptureChain ==
  capturePc = "pace" => DifferIn(screen, captureFrame.data, changed)

\* `picture` is what comes last before the capture thread's own frame, or
\* before the screen.
TailChain(picture) ==
  IF capturePc = "pace"
  THEN Follows(picture, captureFrame)
  ELSE DifferIn(screen, picture, changed \cup discarded)

LastChain ==
  /\ ring # <<>> => TailChain(ring[Len(ring)].data)
  /\ ring = <<>> /\ TakenKnown => TailChain(Taken)

\* With wlr-screencopy every frame on its way is fully damaged.
FullyDamaged ==
  FullDamage => /\ capturePc = "pace" => captureFrame.damage = Cells
                /\ \A i \in 1 .. Len(ring) : ring[i].damage = Cells
                /\ Holding => frame.damage = Cells

ChainInv == RingChain /\ HeadChain /\ CaptureChain /\ LastChain

SyncInv ==
  /\ TypeOK
  /\ ChainInv /\ FullyDamaged
  /\ DivergenceCovered /\ InSync
=============================================================================
