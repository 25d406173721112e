--------------------------- MODULE ClientPipeline ---------------------------
(***************************************************************************)
(* The client from the transport to the screen: recv_decompress_loop       *)
(* (remoteway-client/src/pipeline.rs) with the InterpolationManager        *)
(* (remoteway-interpolate/src/manager.rs), the display thread and the      *)
(* compositor.  Frames arrive decoded in order (DeltaSync is about whether *)
(* they are decoded right); the question is what the user gets to see.     *)
(***************************************************************************)
EXTENDS DisplayThread

CONSTANTS
  Interpolates,   \* an interpolation backend was found
  FullDamage,     \* every frame update covers the whole picture
  MayEnd,         \* the transport may close
  MaxFrames       \* bound: messages received

ASSUME ClientAssumption ==
  /\ Interpolates \in BOOLEAN
  /\ FullDamage \in BOOLEAN
  /\ MayEnd \in BOOLEAN
  /\ MaxFrames \in Nat

VARIABLES
  recvPc,           \* "recv", "send", "join", "done"
  received,         \* messages received, up to MaxFrames
  previous_frame,   \* its bytes; <<>> before the first frame
  frameSize,        \* their size
  has_previous,
  anchor, target, force_reset,   \* InterpolationManager
  reverted,         \* history: where an interpolated frame differed from the
                    \* real frame sent just before it
  outgoing,         \* frames this message still has to send to the display
  shutdown

interpVars == <<anchor, target, force_reset, reverted>>
recvVars == <<recvPc, received, previous_frame, frameSize, has_previous,
              interpVars, outgoing, shutdown>>
vars == <<displayVars, recvVars>>

None == <<>>

\* A GpuFrame: the picture and its size.
GpuFrame == [data : Picture, size : Sizes]

TypeOK ==
  /\ DisplayTypeOK
  /\ recvPc \in {"recv", "send", "join", "done"}
  /\ received \in 0 .. MaxFrames
  /\ previous_frame \in Picture
  /\ frameSize \in Sizes \cup {NoSize}
  /\ has_previous \in BOOLEAN
  /\ anchor \in {None} \cup GpuFrame
  /\ target \in {None} \cup GpuFrame
  /\ force_reset \in BOOLEAN
  /\ reverted \in SUBSET Cells
  /\ outgoing \in Seq(DisplayFrame)
  /\ shutdown \in BOOLEAN

Init ==
  /\ DisplayInit
  /\ recvPc = "recv" /\ received = 0
  /\ previous_frame = Zeroes /\ frameSize = NoSize /\ has_previous = FALSE
  /\ anchor = None /\ target = None /\ force_reset = FALSE
  /\ reverted = {}
  /\ outgoing = <<>> /\ shutdown = FALSE

-----------------------------------------------------------------------------
\* reset_anchor() before the frame, then push_frame.
PushFrame(f, reset) ==
  /\ anchor' = IF force_reset \/ reset THEN None ELSE target
  /\ target' = f
  /\ force_reset' = FALSE

\* The backend's frame half way between two others.  Wherever they differ it
\* is not yet the newer one.
Midpoint(a, b) == a.data

\* interpolate(0.5): nothing without a pair, an error for two sizes.
Interpolated(a, b) ==
  IF a = None \/ a.size # b.size
  THEN <<>>
  ELSE << [data |-> Midpoint(a, b), damage |-> Cells, size |-> b.size] >>

\* A frame message is received and decoded.  An anchor covers everything, an
\* update at least what changed.  The size may change with an anchor, after a
\* Resize message, and (without debug assertions) in an update to one that fits
\* in the base: beyond it the server's encoder is out of bounds already.
RecvFrame(picture, damage, is_anchor, newSize) ==
  /\ recvPc = "recv" /\ ~shutdown
  /\ received < MaxFrames
  /\ IF is_anchor \/ FullDamage THEN damage = Cells
     ELSE damage # {} /\ XOR(picture, previous_frame) \subseteq damage
  /\ is_anchor \/ ~has_previous \/ newSize <= frameSize
  /\ received' = received + 1
  /\ IF Interpolates
     THEN PushFrame([data |-> picture, size |-> newSize],
                    is_anchor \/ ~has_previous)
     ELSE UNCHANGED <<anchor, target, force_reset>>
  /\ LET between == IF Interpolates THEN Interpolated(anchor', target')
                    ELSE <<>>
     IN  /\ outgoing' =
              << [data |-> picture, damage |-> damage, size |-> newSize] >>
                \o between
         /\ reverted' = IF between = <<>> THEN reverted
                        ELSE reverted \cup XOR(between[1].data, picture)
  /\ previous_frame' = picture /\ frameSize' = newSize
  /\ has_previous' = TRUE
  /\ recvPc' = "send"
  /\ UNCHANGED <<displayVars, shutdown>>

\* display.send_frame: the real frame first, then the interpolated one.
SendFrame ==
  /\ recvPc = "send"
  /\ send_frame(Head(outgoing))
  /\ outgoing' = Tail(outgoing)
  /\ recvPc' = IF Tail(outgoing) = <<>> THEN "recv" ELSE "send"
  /\ UNCHANGED <<received, previous_frame, frameSize, has_previous,
                 interpVars, shutdown>>

\* The payload does not parse or does not decompress: the loop goes on.  By
\* then an anchor may have asked for a reset.
RecvBad ==
  /\ recvPc = "recv" /\ ~shutdown
  /\ received < MaxFrames
  /\ received' = received + 1
  /\ force_reset' \in {force_reset, Interpolates}
  /\ UNCHANGED <<displayVars, recvPc, previous_frame, frameSize, has_previous,
                 anchor, target, reverted, outgoing, shutdown>>

\* A Resize message: has_previous = false and InterpolationManager::clear.
RecvResize ==
  /\ recvPc = "recv" /\ ~shutdown
  /\ received < MaxFrames
  /\ received' = received + 1
  /\ has_previous' = FALSE
  /\ IF Interpolates
     THEN anchor' = None /\ target' = None /\ force_reset' = FALSE
     ELSE UNCHANGED <<anchor, target, force_reset>>
  /\ UNCHANGED <<reverted, displayVars, recvPc, previous_frame, frameSize, outgoing,
                 shutdown>>

\* transport.recv() returns None.
Disconnect ==
  /\ recvPc = "recv" /\ ~shutdown
  /\ MayEnd
  /\ shutdown' = TRUE
  /\ UNCHANGED <<displayVars, recvPc, received, previous_frame, frameSize,
                 has_previous, interpVars, outgoing>>

\* The loop ends in display.stop() ...
StopDisplay ==
  /\ recvPc = "recv" /\ shutdown
  /\ RaiseStop
  /\ recvPc' = "join"
  /\ UNCHANGED <<received, previous_frame, frameSize, has_previous, interpVars,
                 outgoing, shutdown>>

\* ... which joins the thread.
JoinDisplay ==
  /\ recvPc = "join" /\ DisplayJoined
  /\ recvPc' = "done"
  /\ UNCHANGED <<displayVars, received, previous_frame, frameSize,
                 has_previous, interpVars, outgoing, shutdown>>

RecvStep ==
  \/ \E picture \in Picture, damage \in SUBSET Cells, is_anchor \in BOOLEAN,
        newSize \in Sizes : RecvFrame(picture, damage, is_anchor, newSize)
  \/ SendFrame \/ RecvBad \/ RecvResize
  \/ Disconnect \/ StopDisplay \/ JoinDisplay

\* The steps recv_decompress_loop takes without a message.
RecvProgress == SendFrame \/ StopDisplay \/ JoinDisplay

-----------------------------------------------------------------------------
Terminated == recvPc = "done" /\ UNCHANGED vars

Next ==
  \/ RecvStep
  \/ (DisplayStep \/ DispatchFails \/ CallbackTimesOut \/ CompositorStep)
       /\ UNCHANGED recvVars
  \/ Terminated

\* The two loops keep running, 50 ms pass, and the compositor handles commits
\* and lets go of buffers it no longer shows.  It need not send `done`.
Fairness ==
  /\ WF_vars(DisplayStep /\ UNCHANGED recvVars)
  /\ WF_vars(RecvProgress)
  /\ WF_vars(CallbackTimesOut /\ UNCHANGED recvVars)
  /\ WF_vars(HandleCommit /\ UNCHANGED recvVars)
  /\ WF_vars(ReleaseSuperseded /\ UNCHANGED recvVars)

Spec == Init /\ [][Next]_vars
FairSpec == Spec /\ Fairness

-----------------------------------------------------------------------------
(* Properties *)

\* The buffers the compositor reads or is going to read.
InUse == held \cup {requests[i].buffer : i \in 1 .. Len(requests)}

\* The display thread never writes into a buffer the compositor may read:
\* upload() relies on "the compositor has released this buffer", through late
\* and lost callbacks and through resizes.
UploadsOnlyFree ==
  [][\A b \in Buffer : memory'[b] # memory[b] => b \notin InUse]_vars

\* What the compositor shows after a commit is the committed frame, except
\* where a frame that was never committed was damaged, or where an interpolated
\* frame took back what the real one had changed: the damage that present_frame
\* submits makes up for neither.
CommitShown ==
  [][HandleCommit
       => /\ XOR(texture', Head(requests).data) \subseteq skipped \cup reverted
          /\ FullDamage => texture' = Head(requests).data]_vars

\* A frame is about to be refused by the display ring.
Overflow == recvPc = "send" /\ Len(displayRing) >= DisplayRing

\* The last frame received is p, and the client is up.
Newest(p) == previous_frame = p /\ ~shutdown /\ displayPc # "done"

\* As long as the display ring does not overflow, "the display should always
\* show the most recent state": once no more frames arrive, the last one is
\* what the compositor shows, whether or not it ever sends `done`.
NewestShown ==
  \A p \in Picture : []~Overflow /\ <>[]Newest(p) => <>[](texture = p)

\* Once the transport is gone, the display thread sees the stop flag and the
\* join in display.stop() returns.
StopCompletes == shutdown ~> recvPc = "done"

=============================================================================
