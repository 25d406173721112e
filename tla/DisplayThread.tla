---------------------------- MODULE DisplayThread ----------------------------
(***************************************************************************)
(* The display thread of the client (remoteway-display/src/thread.rs, with *)
(* surface.rs and shm.rs) and, external, the Wayland compositor it talks   *)
(* to.  The thread takes frames from a single-producer ring, keeps the     *)
(* newest, copies it into one of two shared buffers and commits it.        *)
(*                                                                         *)
(* The compositor handles commits in order and some time later.  It may    *)
(* read a buffer from the commit until it releases it, takes over only the *)
(* damaged cells of a buffer whose size has not changed, and may send the  *)
(* frame callback's `done` late or never.                                  *)
(***************************************************************************)
EXTENDS Frames, Integers, Sequences

CONSTANTS
  DisplayRing,    \* DisplayThreadConfig::ring_capacity
  Sizes,          \* frame sizes
  MaxResizes,     \* bound: uploaders created after the first one
  MayFail         \* the connection to the compositor may fail

NoSize == 0

ASSUME DisplayAssumption ==
  /\ DisplayRing \in Nat \ {0}
  /\ Sizes \subseteq Nat \ {NoSize}
  /\ MaxResizes \in Nat
  /\ MayFail \in BOOLEAN

DisplayFrame == [data : Picture, damage : SUBSET Cells, size : Sizes]

\* A wl_buffer: the uploader it belongs to and its index there.
Buffer == (0 .. MaxResizes) \X {0, 1}

VARIABLES
  displayRing,    \* the rtrb ring
  stop_flag,
  displayPc,      \* where display_loop is
  pending,        \* pending_frame: <<>> or <<frame>>
  size,           \* ManagedSurface::width and height; NoSize: no surface yet
  uploader,       \* which ShmFrameUploader the surface has: 0, 1, ...
  active, released,            \* its fields
  frame_callback_pending,
  callbackStale,  \* FRAME_CALLBACK_TIMEOUT has passed since the request
  memory,         \* what each buffer holds
  requests,       \* commits the compositor has not handled
  texture, textureSize,        \* what it shows
  held,           \* buffers it may still read
  current,        \* the one it shows: <<>> or <<buffer>>
  callbacks,      \* `done` events it owes
  releases, done, \* events on their way to the display thread
  skipped         \* history: the damage of frames that were never committed

surfaceVars == <<size, uploader, active, released, frame_callback_pending,
                 callbackStale, memory>>
compositorVars == <<texture, textureSize, held, current, callbacks, releases,
                    done>>
displayVars == <<displayRing, stop_flag, displayPc, pending, surfaceVars,
                 requests, compositorVars, skipped>>

Commit == [buffer : Buffer, damage : SUBSET Cells, size : Sizes,
           data : Picture]

DisplayTypeOK ==
  /\ displayRing \in Seq(DisplayFrame) /\ Len(displayRing) <= DisplayRing
  /\ stop_flag \in BOOLEAN
  /\ displayPc \in {"loop", "drain", "present", "done"}
  /\ pending \in Seq(DisplayFrame) /\ Len(pending) <= 1
  /\ size \in Sizes \cup {NoSize}
  /\ uploader \in 0 .. MaxResizes
  /\ active \in {0, 1}
  /\ released \in [{0, 1} -> BOOLEAN]
  /\ frame_callback_pending \in BOOLEAN
  /\ callbackStale \in BOOLEAN
  /\ memory \in [Buffer -> Picture]
  /\ requests \in Seq(Commit)
  /\ texture \in Picture
  /\ textureSize \in Sizes \cup {NoSize}
  /\ held \in SUBSET Buffer
  /\ current \in Seq(Buffer) /\ Len(current) <= 1
  /\ callbacks \in Nat
  /\ releases \in SUBSET Buffer
  /\ done \in BOOLEAN
  /\ skipped \in SUBSET Cells

DisplayInit ==
  /\ displayRing = <<>> /\ stop_flag = FALSE
  /\ displayPc = "loop" /\ pending = <<>>
  /\ size = NoSize /\ uploader = 0
  /\ active = 0 /\ released = [i \in {0, 1} |-> TRUE]
  /\ frame_callback_pending = FALSE /\ callbackStale = FALSE
  /\ memory = [b \in Buffer |-> Zeroes]
  /\ requests = <<>>
  /\ texture = Zeroes /\ textureSize = NoSize
  /\ held = {} /\ current = <<>> /\ callbacks = 0
  /\ releases = {} /\ done = FALSE
  /\ skipped = {}

-----------------------------------------------------------------------------
(* The handle: DisplayThread *)

\* send_frame: a full ring refuses the frame, and the caller lets it go.
send_frame(f) ==
  /\ IF Len(displayRing) < DisplayRing
     THEN /\ displayRing' = Append(displayRing, f)
          /\ UNCHANGED skipped
     ELSE /\ skipped' = skipped \cup f.damage
          /\ UNCHANGED displayRing
  /\ UNCHANGED <<stop_flag, displayPc, pending, surfaceVars, requests,
                 compositorVars>>

\* stop() raises the flag; the join is DisplayJoined.
RaiseStop ==
  /\ stop_flag' = TRUE
  /\ UNCHANGED <<displayRing, displayPc, pending, surfaceVars, requests,
                 compositorVars, skipped>>

DisplayJoined == displayPc = "done"

-----------------------------------------------------------------------------
(* display_loop *)

\* Fault: the loop does not look at stop_flag.
LoopStopsFault == FALSE /\ UNCHANGED displayVars

\* if stop_flag.load(Acquire) { break; }
LoopStops ==
  /\ displayPc = "loop" /\ stop_flag
  /\ displayPc' = "done"
  /\ UNCHANGED <<displayRing, stop_flag, pending, surfaceVars, requests,
                 compositorVars, skipped>>

\* dispatch_pending handles every event that has arrived: a release marks the
\* buffer of that index (a destroyed buffer's release reaches nobody), `done`
\* clears the pending callback.
DispatchPending ==
  /\ displayPc = "loop" /\ ~stop_flag
  /\ released' = [i \in {0, 1} |-> released[i] \/ <<uploader, i>> \in releases]
  /\ releases' = {}
  /\ frame_callback_pending' = (frame_callback_pending /\ ~done)
  /\ callbackStale' = (callbackStale /\ ~done)
  /\ done' = FALSE
  /\ displayPc' = "drain"
  /\ UNCHANGED <<displayRing, stop_flag, pending, size, uploader, active,
                 memory, requests, texture, textureSize, held, current,
                 callbacks, skipped>>

\* dispatch_pending fails, and display_loop with it.
DispatchFails ==
  /\ MayFail
  /\ displayPc = "loop" /\ ~stop_flag
  /\ displayPc' = "done"
  /\ UNCHANGED <<displayRing, stop_flag, pending, surfaceVars, requests,
                 compositorVars, skipped>>

\* while let Ok(frame) = consumer.pop() { pending_frame = Some(frame); }
DrainDisplay ==
  /\ displayPc = "drain" /\ displayRing # <<>>
  /\ pending' = <<Head(displayRing)>>
  /\ displayRing' = Tail(displayRing)
  /\ skipped' = IF pending = <<>> THEN skipped
                ELSE skipped \cup pending[1].damage
  /\ UNCHANGED <<stop_flag, displayPc, surfaceVars, requests, compositorVars>>

\* Nothing to present: sleep IDLE_SLEEP and start over.
DrainDisplayEmpty ==
  /\ displayPc = "drain" /\ displayRing = <<>>
  /\ displayPc' = IF pending = <<>> THEN "loop" ELSE "present"
  /\ UNCHANGED <<displayRing, stop_flag, pending, surfaceVars, requests,
                 compositorVars, skipped>>

\* create_surface: after its round trip the surface is configured and has an
\* uploader, both buffers free.
CreateSurface ==
  /\ displayPc = "present" /\ size = NoSize
  /\ size' = pending[1].size
  /\ UNCHANGED <<displayRing, stop_flag, displayPc, pending, uploader, active,
                 released, frame_callback_pending, callbackStale, memory,
                 requests, compositorVars, skipped>>

\* resize_surface: a new uploader; the old buffers are destroyed.
ResizeSurface ==
  /\ displayPc = "present" /\ size # NoSize
  /\ size # pending[1].size
  /\ uploader < MaxResizes
  /\ size' = pending[1].size
  /\ uploader' = uploader + 1
  /\ active' = 0 /\ released' = [i \in {0, 1} |-> TRUE]
  /\ UNCHANGED <<displayRing, stop_flag, displayPc, pending,
                 frame_callback_pending, callbackStale, memory, requests,
                 compositorVars, skipped>>

\* The surface fits the frame and present_frame is called.
Presenting == displayPc = "present" /\ pending[1].size = size

CallbackBlocks == frame_callback_pending /\ ~callbackStale

can_upload == released[active]

\* Fault: the buffer's release is not waited for.
PresentFrameFault ==
  /\ Presenting /\ ~CallbackBlocks
  /\ memory' = [memory EXCEPT ![<<uploader, active>>] = pending[1].data]
  /\ requests' = Append(requests, [buffer |-> <<uploader, active>>,
       damage |-> pending[1].damage, size |-> size, data |-> pending[1].data])
  /\ released' = [released EXCEPT ![active] = FALSE]
  /\ active' = 1 - active
  /\ frame_callback_pending' = TRUE /\ callbackStale' = FALSE
  /\ pending' = <<>>
  /\ displayPc' = "loop"
  /\ UNCHANGED <<displayRing, stop_flag, size, uploader, compositorVars,
                 skipped>>

\* present_frame uploads into the active buffer, commits it with its damage
\* and a frame callback, and swaps.  `data` is history.
PresentFrame ==
  /\ Presenting /\ ~CallbackBlocks /\ can_upload
  /\ memory' = [memory EXCEPT ![<<uploader, active>>] = pending[1].data]
  /\ requests' = Append(requests, [buffer |-> <<uploader, active>>,
       damage |-> pending[1].damage, size |-> size, data |-> pending[1].data])
  /\ released' = [released EXCEPT ![active] = FALSE]
  /\ active' = 1 - active
  /\ frame_callback_pending' = TRUE /\ callbackStale' = FALSE
  /\ pending' = <<>>
  /\ displayPc' = "loop"
  /\ UNCHANGED <<displayRing, stop_flag, size, uploader, compositorVars,
                 skipped>>

\* Fault: a frame the compositor is not ready for is let go.
KeepFrameFault ==
  /\ Presenting /\ (CallbackBlocks \/ ~can_upload)
  /\ frame_callback_pending' = CallbackBlocks
  /\ callbackStale' = FALSE
  /\ pending' = <<>>
  /\ displayPc' = "loop"
  /\ UNCHANGED <<displayRing, stop_flag, size, uploader, active, released,
                 memory, requests, compositorVars, skipped>>

\* present_frame returns false, and the frame stays pending; a callback that
\* timed out is forgotten all the same.
KeepFrame ==
  /\ Presenting /\ (CallbackBlocks \/ ~can_upload)
  /\ frame_callback_pending' = CallbackBlocks
  /\ callbackStale' = FALSE
  /\ displayPc' = "loop"
  /\ UNCHANGED <<displayRing, stop_flag, pending, size, uploader, active,
                 released, memory, requests, compositorVars, skipped>>

DisplayStep ==
  \/ LoopStops \/ DispatchPending \/ DrainDisplay \/ DrainDisplayEmpty
  \/ CreateSurface \/ ResizeSurface \/ PresentFrame \/ KeepFrame

\* Fault: the callback never counts as timed out.
CallbackTimesOutFault == FALSE /\ UNCHANGED displayVars

\* 50 ms pass without `done`.
CallbackTimesOut ==
  /\ frame_callback_pending /\ ~callbackStale
  /\ callbackStale' = TRUE
  /\ UNCHANGED <<displayRing, stop_flag, displayPc, pending, size, uploader,
                 active, released, frame_callback_pending, memory, requests,
                 compositorVars, skipped>>

-----------------------------------------------------------------------------
(* The compositor *)

\* A commit takes effect.
HandleCommit ==
  /\ requests # <<>>
  /\ LET c == Head(requests)
     IN  /\ texture' = IF c.size # textureSize
                       THEN memory[c.buffer]
                       ELSE (texture \ c.damage)
                              \cup (memory[c.buffer] \cap c.damage)
         /\ textureSize' = c.size
         /\ held' = held \cup {c.buffer}
         /\ current' = <<c.buffer>>
  /\ callbacks' = callbacks + 1
  /\ requests' = Tail(requests)
  /\ UNCHANGED <<displayRing, stop_flag, displayPc, pending, surfaceVars,
                 releases, done, skipped>>

\* The compositor is through with a buffer.
ReleaseBuffer(b) ==
  /\ b \in held
  /\ held' = held \ {b}
  /\ releases' = releases \cup {b}
  /\ UNCHANGED <<displayRing, stop_flag, displayPc, pending, surfaceVars,
                 requests, texture, textureSize, current, callbacks, done,
                 skipped>>

\* A frame callback fires, perhaps long after its commit.
SendDone ==
  /\ callbacks > 0
  /\ callbacks' = callbacks - 1
  /\ done' = TRUE
  /\ UNCHANGED <<displayRing, stop_flag, displayPc, pending, surfaceVars,
                 requests, texture, textureSize, held, current, releases,
                 skipped>>

\* What the compositor does not fail to do: let go of a buffer it no longer
\* shows.
ReleaseSuperseded == \E b \in held : <<b>> # current /\ ReleaseBuffer(b)

CompositorStep ==
  \/ HandleCommit
  \/ \E b \in Buffer : ReleaseBuffer(b)
  \/ SendDone
=============================================================================
