---------------------------- MODULE CaptureThread ----------------------------
(***************************************************************************)
(* The capture thread of the server (remoteway-capture/src/thread.rs): a   *)
(* loop that takes frames from a CaptureBackend and pushes them into a     *)
(* single-producer single-consumer ring, and the flags it shares with the  *)
(* consumer.  The compositor and the backend appear as the screen and as   *)
(* the cells changed since the last captured frame.                        *)
(***************************************************************************)
EXTENDS Frames, Integers, Sequences

CONSTANTS
  RingCapacity,   \* CaptureThreadConfig::ring_capacity
  FullDamage,     \* wlr-screencopy: every frame is reported as fully damaged,
                  \* and a frame is delivered whether or not anything changed;
                  \* otherwise ext-image-copy-capture: exact damage, and a
                  \* frame is delivered only when something changed
  OutpacesLimit,  \* the compositor may deliver frames faster than capture_fps
  MayEnd,         \* the capture session, and the server, may end
  MaxPaints       \* bound: how often the application draws

ASSUME CaptureAssumption ==
  /\ RingCapacity \in Nat \ {0}
  /\ FullDamage \in BOOLEAN
  /\ OutpacesLimit \in BOOLEAN
  /\ MayEnd \in BOOLEAN
  /\ MaxPaints \in Nat

VARIABLES
  screen,         \* what the compositor shows
  paints,         \* how often it changed, up to MaxPaints
  changed,        \* its damage since the last frame it delivered
  capturePc,      \* where capture_loop is
  captureFrame,   \* the local `frame` of capture_loop
  pushedOnce,     \* last_push holds the time of a push
  ring,           \* the rtrb ring
  frames_dropped, stop_flag, finished,   \* the shared atomics
  discarded       \* history: the damage of every frame capture_loop let go

captureVars == <<screen, paints, changed, capturePc, captureFrame, pushedOnce,
                 ring, frames_dropped, stop_flag, finished, discarded>>

CapturedFrame == [data : Picture, damage : SUBSET Cells]

\* No frame in hand: the local variable is out of scope or moved from.
NoFrame == [data |-> Zeroes, damage |-> {}]

CaptureTypeOK ==
  /\ screen \in Picture
  /\ paints \in 0 .. MaxPaints
  /\ changed \in SUBSET Cells
  /\ capturePc \in {"check", "next", "pace", "dropped", "exit", "done"}
  /\ captureFrame \in CapturedFrame
  /\ pushedOnce \in BOOLEAN
  /\ ring \in Seq(CapturedFrame)
  /\ Len(ring) <= RingCapacity
  /\ frames_dropped \in BOOLEAN
  /\ stop_flag \in BOOLEAN
  /\ finished \in BOOLEAN
  /\ discarded \in SUBSET Cells

CaptureInit ==
  /\ screen \in Picture
  /\ paints = 0
  /\ changed = Cells
  /\ capturePc = "check"
  /\ captureFrame = NoFrame
  /\ pushedOnce = FALSE
  /\ ring = <<>>
  /\ frames_dropped = FALSE
  /\ stop_flag = FALSE
  /\ finished = FALSE
  /\ discarded = {}

-----------------------------------------------------------------------------
\* The application draws: the compositor flips some cells and damages them.
Paint(cells) ==
  /\ paints < MaxPaints
  /\ paints' = paints + 1
  /\ screen' = XOR(screen, cells)
  /\ changed' = changed \cup cells
  /\ UNCHANGED <<capturePc, captureFrame, pushedOnce, ring, frames_dropped,
                 stop_flag, finished, discarded>>

-----------------------------------------------------------------------------
\* if stop_flag.load(Acquire) { backend.stop(); break; }
CheckStop ==
  /\ capturePc = "check"
  /\ capturePc' = IF stop_flag THEN "exit" ELSE "next"
  /\ UNCHANGED <<screen, paints, changed, captureFrame, pushedOnce, ring,
                 frames_dropped, stop_flag, finished, discarded>>

\* The damage next_frame() reports: an empty list becomes the full frame.
FrameDamage == IF FullDamage \/ changed = {} THEN Cells ELSE changed

\* backend.next_frame() returns a frame; on ext-image-copy-capture not before
\* something changed.
NextFrame ==
  /\ capturePc = "next"
  /\ FullDamage \/ changed # {}
  /\ captureFrame' = [data |-> screen, damage |-> FrameDamage]
  /\ changed' = {}
  /\ capturePc' = "pace"
  /\ UNCHANGED <<screen, paints, pushedOnce, ring, frames_dropped, stop_flag,
                 finished, discarded>>

\* backend.next_frame() fails: SessionEnded breaks the loop, any other error
\* returns from it, and both go on to set `finished`.
NextFrameFails ==
  /\ MayEnd
  /\ capturePc = "next"
  /\ capturePc' = "exit"
  /\ UNCHANGED <<screen, paints, changed, captureFrame, pushedOnce, ring,
                 frames_dropped, stop_flag, finished, discarded>>

\* if last_push.elapsed() < min_interval { continue; }: the frame is let go.
\* last_push starts one interval in the past, so the first frame is pushed.
RateLimit ==
  /\ capturePc = "pace"
  /\ OutpacesLimit
  /\ pushedOnce
  /\ capturePc' = "check"
  /\ captureFrame' = NoFrame
  /\ discarded' = discarded \cup captureFrame.damage
  /\ UNCHANGED <<screen, paints, changed, pushedOnce, ring,
                 frames_dropped, stop_flag, finished>>

\* producer.push(frame) succeeds.
Push ==
  /\ capturePc = "pace"
  /\ Len(ring) < RingCapacity
  /\ ring' = Append(ring, captureFrame)
  /\ pushedOnce' = TRUE
  /\ capturePc' = "check"
  /\ captureFrame' = NoFrame
  /\ UNCHANGED <<screen, paints, changed, frames_dropped, stop_flag,
                 finished, discarded>>

\* producer.push(frame) finds the ring full: the frame is let go ...
PushFull ==
  /\ capturePc = "pace"
  /\ Len(ring) >= RingCapacity
  /\ discarded' = discarded \cup captureFrame.damage
  /\ capturePc' = "dropped"
  /\ captureFrame' = NoFrame
  /\ UNCHANGED <<screen, paints, changed, pushedOnce, ring,
                 frames_dropped, stop_flag, finished>>

\* ... and then frames_dropped.store(true, Release).
SetDropped ==
  /\ capturePc = "dropped"
  /\ frames_dropped' = TRUE
  /\ pushedOnce' = TRUE
  /\ capturePc' = "check"
  /\ UNCHANGED <<screen, paints, changed, captureFrame, ring, stop_flag,
                 finished, discarded>>

\* finished.store(true, Release), the last thing the thread does.
Exit ==
  /\ capturePc = "exit"
  /\ finished' = TRUE
  /\ capturePc' = "done"
  /\ UNCHANGED <<screen, paints, changed, captureFrame, pushedOnce, ring,
                 frames_dropped, stop_flag, discarded>>

\* One step of the thread.
CaptureStep ==
  \/ CheckStop \/ NextFrame \/ NextFrameFails
  \/ RateLimit \/ Push \/ PushFull \/ SetDropped \/ Exit

\* The steps the thread takes by itself when its backend does not fail it.
CaptureProgress ==
  \/ CheckStop \/ NextFrame \/ Push \/ PushFull \/ SetDropped \/ Exit
=============================================================================
