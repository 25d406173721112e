# RemoteWay: TLA+ models, model checks and proofs

RemoteWay shows a Wayland screen, or one window of it, on another machine: a
server on the remote host captures frames, sends their differences over the
stdin/stdout of an `ssh` process, and a client decodes and shows them and sends
keyboard and pointer events back. This directory models the parts of it that
hold state and run concurrently. Paths below are relative to `crates/`.

## 1. Inventory

| Part (source) | State | Operations | Talks to |
|---|---|---|---|
| Capture thread (`remoteway-capture/src/thread.rs`) | ring of frames, `stop_flag`, `frames_dropped`, `finished`, `last_push` | `capture_loop`; `try_recv`, `take_dropped_flag`, `is_finished`, `stop` | a backend (call), the compress thread (ring, three flags) |
| Capture backends (`screencopy.rs`, `ext_capture.rs`, `shm.rs`) | two shm slots, the offer or the constraints, `frame_ready`, `frame_failed`, damage and transform of the frame under way, `stopped` | `next_frame`, `stop`, event handlers | the compositor |
| Backend choice and portal (`detect.rs`, `portal.rs`) | known toplevels, the portal's thread, its ready and frame channels, `stop_flag` | `detect_backend`, `detect_new_toplevel_backend`, `new`, `capture_loop`, `next_frame`, `stop` | registry, D-Bus, PipeWire |
| Compress thread (`remoteway-server/src/pipeline.rs`, `compress_send_loop`) | `previous_frame`, `need_full_damage`, `is_first`, `frame_count` | drain, choose the regions, encode, send or drop | ring, transport queues, `shutdown` |
| Delta coding (`remoteway-compress/src/delta.rs`, `pipeline.rs`) | none | XOR delta on damaged rectangles and its inverse | called by both pipelines |
| Transport (`remoteway-transport/src/ssh_transport.rs`) | input, anchor and frame queues, incoming queue, disconnect watch | `send_input`, `send_anchor`, `try_send_frame`, `recv`, `read_loop`, `write_loop` | both ends of the pipe |
| Framing (`multiplexer.rs`, `chunk_sender.rs`) | `buf`, `chunks` | `push`, `reassemble`, `split_into_chunks` | `read_loop`, senders |
| Receive task (`remoteway-server/src/pipeline.rs`, `recv_dispatch_loop`) | `shutdown` | dispatch input, stop the inject thread | transport, inject ring |
| Server session (`remoteway-server/src/main.rs`) | child process, tasks, `shutdown` | handshake, launch, backend with retries, `select!`, join, kill | everything on the server |
| Client session (`remoteway-client/src/main.rs`) | ssh process | handshake, `select!`, kill | everything on the client |
| Client pipeline (`remoteway-client/src/pipeline.rs`) | `previous_frame`, `has_previous` | decode, resize, interpolate, send to the display | transport, display ring |
| Interpolation manager (`remoteway-interpolate/src/manager.rs`) | `anchor`, `target`, `force_reset` | `push_frame`, `interpolate`, `reset` | client pipeline |
| Display thread (`remoteway-display/src/thread.rs`, `surface.rs`, `shm.rs`) | ring, pending frame, two shm buffers, `released`, `frame_callback_pending` | `display_loop`, `present_frame`, `resize_surface`, release and done events | client pipeline, the compositor |
| Input capture and injection (`remoteway-input`) | pending events, inject ring, `stop_flag` | `poll_events`, `capture_loop`, `send`, `inject_loop` | transport, compositor |
| Buffer pool (`remoteway-core/src/buffer_pool.rs`) | one atomic mask of free slots | `acquire`, `release` | any number of threads |
| Flow control, latency, bandwidth, thread attributes | counters | arithmetic | not used, or only reported |
| Video encoders (`remoteway-encode/src/backends/{h264,h265,av1}.rs`) | `frame_index`, `order_hint`, `force_keyframe`, `prior_ref_slot`, two reference slots, cached input views, the Vulkan objects of the session | `new`, `request_keyframe`, `encode`, `drop` | the driver, a decoder |
| Vulkan context and FSR (`remoteway-vulkan/src/context.rs`, `remoteway-interpolate/src/backends/{fsr2,fsr2_native,fsr3_frame_gen}.rs`) | Vulkan objects, the cache of `Fsr2NativeInterpolator` | `new`, `upscale`, `upscale_blit`, `generate_frame`, `drop` | the driver |
| Desktop detection, output and toplevel lists, overlay, command lines | - | environment, one round trip, pixels | - |

What is hard in it:

* **The delta base.** Server and client each keep a picture, and the client's is
  right only if every delta is applied to the picture it was made from. Frames
  are lost in five places (rate limiter, full ring, draining, full frame queue,
  failed decoding), anchors overtake updates, and "damage" says what changed
  since a frame that may have been one of the lost ones.
* **Flags beside queues.** `frames_dropped` and `finished` are read at other
  moments than the ring they describe, and do not say to which of its frames
  they belong.
* **Buffers lent to the compositor**, which answers late, never, or about a
  buffer that a resize has replaced; and a time-out that commits anyway.
* **Stopping.** Threads that block in the compositor, a blocking read of stdin,
  a child process, two machines, and errors at any stage of setting up.
* **Input order**, and a bounded ring in which a lost event is a stuck key.
* **A lock-free pool**, used by several threads.
* **A compositor that does what it likes** between two events: it paints while it
  copies, resizes, rotates, closes the window, offers another stride for the next
  frame, or falls silent; and `next_frame` has to return a picture, an error, or
  wait for a reason.
* **GPU calls that fail half way.** Almost every `?` between two Vulkan calls
  leaves something behind: a picture in a reference slot, a half rebuilt cache, an
  image in another layout than the next call assumes.
* **Numbers that wrap**: `frame_num`, picture order counts and order hints are
  computed twice, for a picture and later for the same picture as a reference.

What makes each part correct: bases equal up to the deltas under way, and a
screen that stops changing ends up on the client (`DeltaSync`); messages whole,
once and in order (`StreamParser`); no upload into a buffer in use, the newest
picture shown, stopping terminates (`ClientPipeline`); when one side ends so
does the other, and no application is left behind (`Session`); exclusive slots,
none lost (`BufferPool`); events in order, none lost but to a full ring or a
lost connection, no key sticks (`InputPath`); whole, current, upright pictures with
damage that covers the change, no protocol error, and an end when the window
closes (`CaptureBackends`); prediction only from pictures the decoder has, named
by the number it knows (`VideoEncoder`); no use after destruction, images in the
layout, of the size and with the contents a command expects, nothing leaked on
success (`GpuObjects`). The hazards, each at its line and
with the properties that cover it, are listed in `PROJECT.json`.

## 2. Modules

```
Frames <- CaptureThread <- DeltaSync <- MCDeltaSync
                                     <- DeltaSync_proofs
StreamParser <- MCStreamParser, StreamParser_proofs
Frames <- DisplayThread <- ClientPipeline <- MCClientPipeline,
                                             ClientPipeline_proofs
Session <- MCSession, Session_proofs
SlotPool (abstract) <= BufferPool <- MCBufferPool, Ownership_proofs
InputPath <- MCInputPath, InputPath_proofs
ShmBufferPool <- ExtCapture, Screencopy, CaptureBackends
ExtCapture, Screencopy -> CaptureBackends <- MCCaptureBackends,
                                            CaptureBackends_proofs
GpuCalls <- H264Encoder, H265Encoder, Av1Encoder -> VideoEncoder <- MCVideoEncoder
                                                                 <- VideoEncoder_proofs
GpuCalls <- VulkanContext <- Fsr2Native, Fsr2, Fsr3FrameGen
VulkanContext, Fsr2Native, Fsr2, Fsr3FrameGen, the encoders -> GpuObjects <- MCGpuObjects,
                                                                            Ownership_proofs
```
(`<-`: extended by; `->`: instantiated in; `<=`: implemented by, with INSTANCE.)

**Frames.** A picture is the set of cells that differ from a blank screen, so
XOR of pictures is symmetric difference, and a delta is a set of cells. Encoding
restricts the XOR to the damage; decoding XORs onto the base, which is what the
byte-wise code does per region. Two cells are enough to tell "covered by the
damage" from "not covered".

**CaptureThread** follows `capture_loop` step by step: stop check, `next_frame`,
rate limit, push, and, as a step of its own, the store of `frames_dropped` after
a refused push. `FullDamage` selects the backend: wlr-screencopy returns a frame
whenever asked and reports the whole frame as damaged; ext-image-copy-capture
returns when something changed and reports what changed since the last frame it
handed over. Whether a frame comes too early for the rate limiter is a free
choice (`OutpacesLimit`). `discarded` is a history variable: the damage of the
frames that the limiter or the full ring let go.

**DeltaSync** adds the compress thread (one action per read or write of shared
state: `try_recv`, `is_finished`, draining, `take_dropped_flag`, encoding with
the send that belongs to it, leaving the loop, the join), the two frame queues
with the biased writer, the pipe, and the decoder. The `resize` on an anchor is
what the code does: it leaves a base of the right size alone. `owed` is a
history variable, the XOR of all deltas on their way.

**StreamParser** models bytes as items, a header being two of them, so that
reads may end inside a header, inside a payload and between chunks.
`chunk_count`, the chunk boundaries and the reassembly follow the code; `Corrupt`
puts a header on the wire that does not validate or is too large.

**DisplayThread** and **ClientPipeline** model the client from decoded message to
screen. A buffer is named by the generation of its uploader and its index; the
compositor handles the surface's requests in order, keeps the buffers it reads,
releases those that a later commit superseded, and sends `done` when it likes,
or never. Its texture is updated from the committed buffer inside the committed
damage, which is all that `wl_surface.damage_buffer` entitles a client to.
`CallbackTimesOut` is the passage of 50 ms.

**Session** models both processes and the `ssh` between them: setting up with
its error returns, the read task with a message in hand and a bounded queue, the
server's tasks, the `select!`, the join, the kill, and the end of the process,
which waits for the blocking read of stdin. The end of the compress thread is two
steps: `stop()` raises the flag of the capture thread, and its join waits for
`next_frame` to return (`CaptureStops`), which no fairness promises. A spawn that
fails may leave a capture thread that was started before it; the client may fail
before its `select!` and leave `ssh` running.

**SlotPool** is what a pool promises. **BufferPool** is the code: a load of the
mask, then a compare-exchange that succeeds, fails because the mask has changed,
or fails spuriously, and a `fetch_or` on release. The refinement maps a thread
holding a loaded mask to a thread with an open request; a refusal happens at the
load of a zero mask.

**InputPath** numbers key events and follows them from the keyboard through the
socket, `pending_events`, the input queue, the pipe, the incoming queue and the
inject ring to the virtual keyboard, with loss of connection, a failing inject
thread, a full ring and a capture thread that ends with events in hand (`gone`).
A key may go down or up while another window has the focus: the compositor then
says nothing of that key (`missed`), and the handler ignores Enter and Leave.

**CaptureBackends** composes the three backends with the compositor. Its first
half is the server's search for the window (the snapshot of toplevels, the launch,
`detect_new_toplevel_backend`, the retries) and `detect_backend` with its
fallbacks; the second is `next_frame`. The Wayland connection is a queue of events
of which `dispatch_with_deadline` hands the client any prefix, and the events run
through the handlers of **ExtCapture** and **Screencopy**, which are folds over the
backend's state. **ShmBufferPool** has the two slots; a slot the compositor is
writing is `Torn`. Pictures are small grids of 0 and 1, buffers have a stride and
padding, and a transform permutes the cells the way `wl_output.transform` does, so
that `undo_transform` and the damage handling are checked for what they compute.
The portal is a thread with a handshake, a pipeline and a loop, a readiness
channel with a time-out, and a channel of two frames.

**GpuCalls** is a small vocabulary: a function of the Vulkan code is the sequence
of the calls it makes that can fail, create, destroy, transition, write or read.
**VulkanContext**, **Fsr2Native**, **Fsr2**, **Fsr3FrameGen** and the three encoder
modules say what each function calls, in program order and with what its error
path undoes. **GpuObjects** runs these scripts: a component is created, called with
any sizes, fails at any call, and is dropped. A handle is the component's
(`mine`), a local of the running function (`temp`), or beyond reach (`lost`);
images have a layout, an extent and defined or undefined contents, and what a
command buffer records takes effect when it is submitted. The resource states that
FidelityFX is told stand for the layouts its backend takes the images to be in
(`ComputeRead`, `UnorderedAccess`), and it moves an image from one to the other
itself. What `free_descriptor_sets` gives back is the driver's choice
(`UnfreeableSets`), since the pool is made without the flag it needs.

**VideoEncoder** is the protocol of a session rather than its objects: the keyframe
flag, taken before anything can fail; the two reference slots, the setup slot
written by the GPU even when the call then fails; the numbers each codec gives a
picture and computes again for its reference; and a decoder that is given what
`encode` returned and nothing else.

Actions keep the names of the functions they model; `PROJECT.json` maps each
definition to its lines. Definitions whose comment says "Fault" or "Mutant" are deliberately wrong variants, there to show
that a property notices them; no specification uses them.

## 3. Runs

Passing:

| Run | Shows |
|---|---|
| `DeltaSync_screencopy` | `InSync`: with full damage server base = client base XOR deltas under way, through every way of losing a frame and every overtaking. `EventuallyMirrored`: a screen that stops changing is what the client ends up with. `ShutdownCompletes`: a shutdown ends in a joined capture thread |
| `DeltaSync_ext` | `DivergenceCovered`: on exact damage the bases differ only in cells damaged in frames that the capture thread itself let go, so draining and backpressure are repaired. `SettlesUpToDiscarded`: with the limiter on, and while the frame queue has room, a screen that stops changing reaches the client but for cells of frames that the limiter or the full ring let go |
| `StreamParser_reassembly` | `Reassembles`, `NothingLeftOver`: messages whole, once, in order, no residue. `EventuallyDelivered`: every one of them, up to a broken stream |
| `ClientPipeline_display` | `CommitShown`: a handled commit shows the committed frame, except in the damage of frames never committed and where an interpolated frame went back |
| `ClientPipeline_live` | `UploadsOnlyFree`: no write into a buffer the compositor may read, through time-outs and resizes. `NewestShown`: the last frame reaches the screen even if no callback ever comes. `StopCompletes` |
| `Session_follow` | `ServerFollows`, `ClientFollows`: when one side ends the other does. The server's half presumes that `next_frame` returns (`NextFrameReturns`). `NoOrphan`: a regular end leaves no application behind. `ShutdownEnds`: an internal shutdown ends both sides while the user keeps the client busy and `next_frame` returns |
| `BufferPool_slots` | `Exclusive`, `NoSlotLost`, `Implements` (the refinement of `SlotPool`), `LockFree`: `acquire` ends unless others keep changing the mask |
| `InputPath_keys` | `InOrder`, `NothingLost`; `KeysFollow`: while the ring has room a key sticks only if it went down or up outside the focus; `InjectStops` |
| `VideoEncoder_references` | `PredictsFromReturned`: a picture is predicted only from the picture returned last, in another slot than the one written. `StartsWithKeyframe`. `NamesItsReference`: in stream and driver structures the reference has the number the decoder knows it by, across wrap-arounds. `RequestAnswered`: only a failed call loses a keyframe request |
| `GpuObjects_lifetime` | `HandlesLive`: no handle is used or destroyed after its destruction, or overwritten. `ImagesReady`: layouts and contents are what each command expects, across calls and failures, but for four images whose state FidelityFX is told wrongly (`Mistold`). `ExtentsFit`: no image of an old size is used. `ParentsOutlive`: children are destroyed first. `NoLeak`: nothing is left behind unless a call failed, but for descriptor sets that their pool may keep |
| `CaptureBackends_frames` | `FrameIntact`: a frame is a picture the screen showed during the call, upright, neither stale nor torn. `DamageCovers`: changes are inside the damage, in upright coordinates. `NoProtocolError`: one frame object, and buffers that match their offer. `CapturesNewWindow`: never a window listed with an identifier before the launch. `CloseEndsCapture`, `ScreencopyReturns`, `PortalThreadEnds`: the end of a window, a compositor that is silent (but for the round trip, whose answer is a premise) and an abandoned portal thread |

`TypeOK` of `DeltaSync`, `BufferPool`, `VideoEncoder`, `InputPath`,
`ClientPipeline`, `Session` and `StreamParser` is proved; in the other modules it says what values the variables are meant to have. One run ends in a
counterexample: it checks what a comment of the code says and the code does not
do (quoted under "findings" in `PROJECT.json`).

| Run | The counterexample |
|---|---|
| `DeltaSync_dropflag` | A push is refused because an older frame fills the ring, and `frames_dropped` is raised; the compress thread pops that older frame and takes the flag with it, so full damage is spent one frame too early; the frame after the lost one is encoded with its own damage, and the lost frame's cells stay wrong on the client |

Other behaviours the models show, and that a reader of the code should know:

* An anchor is a delta on the current base (`resize` leaves a base of the right
  size alone), so it repairs nothing, although a comment says it resets the base
  to zeroes. `DivergenceCovered` is therefore also what holds after an anchor.
* An anchor that overtakes updates is decoded on a base it was not made for; the
  picture shown is wrong until the updates have arrived (`InSync` is about the
  bases with `owed` applied).
* With ext-image-copy-capture and a quiet screen the join in
  `CaptureThread::stop` waits for the next change, and with it the end of the server,
  also when the client has gone (`NextFrameReturns` is the premise of
  `ServerFollows` and `ShutdownEnds`).
* An interpolated frame is sent after the newer real frame. On a screen that
  goes quiet it is the last picture shown, and with partial damage the next
  frame does not repair it (`reverted` in `CommitShown`).
* After the child's exit the server process stays until stdin delivers or ends.
* An error between `launch_child` and the `select!` leaves the application
  running (`NoOrphan` excludes it by `~failed`), and one in the client between the
  start of `ssh` and its `select!` leaves `ssh` running.
* A failed compare-exchange in `acquire` may be due to another slot.
* The last frame before a quiet period may come too early for the rate limiter and
  be let go with its damage; `next_frame` then blocks and the client keeps the old
  picture. The comment at `thread.rs:188`, that the next call delivers a fresh frame
  anyway, does not hold on ext-image-copy-capture: `SettlesUpToDiscarded` excepts the
  cells of these frames.
* Two frames with different damage wait in the display ring; the drain keeps the
  second, and the cells only the first had changed are never damaged on the
  surface (`NewestShown` is violated with `FullDamage = FALSE`, two cells and
  `DisplayRing = 2`; with the one cell of `ClientPipeline_live` it cannot happen).
* When capture ends, the compress thread sets `shutdown` and returns; `run()` waits
  in its `select!`, whose branches do not include the flag, and the receive task
  waits for a message (`ShutdownEnds` therefore presumes an active user).
* A keyframe request is lost when the call that took it fails (`RequestAnswered`
  excludes `asked = "lost"`), and after a forced IDR picture H.264's `frame_num` and
  H.265's picture order count go on from `frame_index` instead of restarting, so
  that the next picture names a reference the decoder does not know
  (`NamesItsReference` stops at the first forced IDR picture for these two).
* An ext session that is resized reports the new size with the memory of the old
  pool, which is never made again (`Resized` in `FrameIntact`); a window whose app
  id arrives only after the snapshot is taken for new.
* A key held when the window loses the focus stays down on the server, since the
  handler ignores `wl_keyboard.leave` (`missed` in `KeysFollow`).
* `next_frame` of screencopy waits in a round trip between its two phases, which has
  no deadline (`RoundTripAnswered`); damage events, which a comment expects from
  version 2 on (`screencopy.rs:271`), are sent for `copy_with_damage` only, and the
  code requests `copy`.
* The portal's loop turns idly, and `next_frame` waits for ever, once the stream has
  ended; the channel drops the newest frame, not the oldest, when it is full.
* Failed FSR calls leave their objects behind, descriptor sets of a pool of four
  among them (`NoLeak` presumes that no call failed), and that pool is created
  without the flag that `free_descriptor_sets` needs: on a driver that gives nothing
  back the third frame of the fallback fails, since each takes two sets.
* FidelityFX is told that the output of `Fsr2Native` and the three inputs of frame
  generation are in `COMPUTE_READ`, while the code has moved them to `GENERAL`
  (`Mistold` in `ImagesReady`; the comment at `fsr3_frame_gen.rs:482` says
  "Transition input images to COMPUTE_READ", the barriers below it go to `GENERAL`).
* Frame generation names `UNDEFINED` as the layout of images it has just uploaded, is created for one size
  whatever the frames are, and leaves its images to the end of the process.

## 4. Bounds

* Cells: two where partial damage matters (`DeltaSync_ext`, `_dropflag`,
  `ClientPipeline_display`), one where pictures only need to be told
  apart. A property that compares pictures cell by cell needs one cell that is
  covered and one that is not.
* `RingCapacity`, `FrameQueueDepth`, `WireCapacity`, `DisplayRing`, `InjectRing`,
  `IncomingQueueDepth` 1 or 2 instead of 4 to 256: small queues are full and
  empty sooner, and every interleaving around "full" is reached.
* `AnchorInterval` 2 instead of 300: every second frame is an anchor, which
  maximises overtaking. `MaxAnchors` bounds the queue the code leaves unbounded.
* `OutpacesLimit` is TRUE in `DeltaSync_ext` too: any frame may come too early.
* `MaxPaints`, `MaxFrames`, `MaxEvents`, `MaxMessages`: changes, frames, events
  or messages in a behaviour. On wlr-screencopy frames are captured without
  limit, changed or not, so one change at any moment is enough to be lost and
  repaired; on exact damage three changes let one be lost, one be sent and one
  be encoded on top. Three frames fill both shm buffers and ask for the first
  again; three key events of one key are a press, a release and a press.
* `MaxResizes` 2 with two sizes: a surface is resized and resized back while the
  compositor still holds buffers of the first size.
* `MaxRetries` 2 instead of 50: a first, a middle and a last attempt.
* Chunks of 2 with payloads of 0 to 5: empty, exactly one chunk, a chunk and a
  rest, two chunks and a rest. `MaxPayload` 4 refuses a header of 5.

* `CaptureBackends`: pictures of 2x2 and 2x1 cells under five transforms, rows
  padded by one, two windows, one change and one resize: the transforms permute
  four cells differently, a padded row shows a wrong stride, and one change is
  enough to be stale, torn or outside the damage.
* `VideoEncoder`: 258 frames take every counter past its wrap-around (16 and 256),
  two failures and one request meet at every frame.
* `GpuObjects`: two sizes, four calls and two failures: a cache is made, rebuilt,
  lost half way and made again; two input images, one seen before and one not.

The safety of the modules with theorems does not depend on these numbers: see
section 6. Runs that allow the system to stop (`CHECK_DEADLOCK FALSE`) are
those in which a quiet screen, the last event or the end of the display thread
leaves nothing to do. Symmetry of the cells is used in `ClientPipeline_display`,
which checks an invariant and an action property only.

## 5. Fairness

Every thread and task that the code schedules is weakly fair: a loop that is not
blocked takes its next step. So are the writer, the reader and the decoder. The
compositor is assumed to handle the requests it has been sent and to release
buffers that a later commit superseded, as the Wayland protocol requires; `done`
is not assumed. The passage of the callback time-out is fair, since it is the
clock. The screen, the user, signals, the child's exit, lost connections and
failures are never fair; where a property holds only for an active user, that is
its premise (`ShutdownEnds`). So are two answers of a compositor that no code waits
for with a deadline: that `next_frame` returns once the capture thread was told to
stop (`NextFrameReturns`, in `ServerFollows` and `ShutdownEnds`), and that the round
trip of screencopy is answered (`RoundTripAnswered`, in `ScreencopyReturns`). Two strong fairness assumptions stand for rates:
two pushes are at least 2 ms apart while draining the ring takes microseconds,
so the drain ends; and the link carries an anchor before the next one is due, so
updates are written again and again. In
`CaptureBackends` only the client's own steps are fair: dispatching what has
arrived and the one-second deadline; the compositor need not offer, copy or paint. The pipeline of
the portal delivers samples while what it shows is there. `LockFree`
assumes that a thread inside `acquire` keeps running and that a weak
compare-exchange does not fail spuriously for ever.

## 6. Proofs

`DeltaSync_proofs` proves for every set of cells, every capacity and both
backends:

* `TypeCorrect`: `Spec => []TypeOK`.
* `SyncInvariant`: `Spec => []SyncInv`, the inductive invariant.
* `DivergenceIsCovered`: `Spec => []DivergenceCovered`.
* `StaysInSync`: `Spec => []InSync`.

`TypeOK` carries the queue bounds the other proofs use. `DivergenceCovered` is not inductive: when a frame is encoded with its own
damage, one has to know that it differs from `previous_frame` only there. That
is what `ChainInv` says. The pictures on their way form a chain: server base or
frame in hand, the frames in the ring from oldest to newest, the frame that the
capture thread holds, and the screen. Each link (`RingChain`, `HeadChain`,
`CaptureChain`, `LastChain`) says that a picture differs from the one before it
at most in its own damage and in `discarded`. A frame lost by draining or
by a refused send breaks the first link, and exactly then `need_full_damage` is
set; a frame lost inside capture adds its damage to `discarded`. `FullyDamaged`
adds that with full damage every link is trivially covered, which gives
`StaysInSync`. The proof has one lemma per action. The assumptions are the named
ones of the modules (`SyncAssumption`, `CaptureAssumption`): capacities are
positive naturals.

`Ownership_proofs` has the two modules whose subject is who owns what. About
`BufferPool` it proves, for every number of threads and any capacity:

* `PoolIsExclusive` (`[]Exclusive`) and `NoSlotIsLost` (`[]NoSlotLost`). The inductive
  invariant is that the mask is the complement of the slots held and that no slot
  is held twice; a loaded mask may be stale, and the compare-exchange is what makes
  that harmless.
* `PoolImplements`: `PoolSpec => Implements`, initial states and every step mapped
  to a step of `SlotPool` or a stutter.

About `GpuObjects` it proves, for any components, sizes and number of calls and
failures, and any finite set of input images (`GpuAssumption`: the views
of the input images are the entries of a hash map, which `drain()` gives once each):

* `HandlesStayLive` (`[]HandlesLive`), `ImagesAreReady` (`[]ImagesReady`),
  `ExtentsAlwaysFit` (`[]ExtentsFit`), `ParentsAlwaysOutlive` (`[]ParentsOutlive`),
  `NothingLeaks` (`[]NoLeak`), all from `GpuInvariant` (`[]GpuInv`). With the
  exceptions of the properties: the four images of `Mistold`, the descriptor sets of
  `UnfreeableSets`, and for `ParentsOutlive` the handles that an error path has
  leaked, which are out of the code's reach and are not counted as children.

The properties are about the next call of the running function, so they are not
inductive: what the tenth call of `upscale` finds was prepared by the nine before it,
by the call that built the cache, and by whatever failed in between. `Ok(k, x, op)` is
everything a call must find in a state: live handles, new names, layouts, contents
and extents, no child of what it destroys, and, when it can fail, a component that is
`Ready` should the function end here. `After` is what it leaves, and `Runs(k, s, x, y)`
says that the calls `s` lead from `x` to `y`, every one of them `Ok`. `Runs` composes
(`RunsCat`) and can be taken apart (`RunsHead`), so the proof follows the source: each
function has one lemma, from the helpers of the context (`CreateBuffer`, `CreateImage`,
`SubmitAndWait`) to `BlitRuns`, `WithParamsRuns`, `FallbackRuns`, `CreateCachedRuns`,
`InitConstantsRuns`, `NativeUpscaleRuns`, `DestroyCachedRuns`, `DropPipelinesRuns`,
`FrameGenNewRuns`, `GenerateFrameRuns`, `EncoderNewRuns`, `EncodeRuns` and
`EncoderDropRuns`. The three encoders call the driver in the same order (`SameCalls`),
which saves two thirds of their proofs.

`GpuInv` says that the rest of the running function `Runs` from the present state to
one where the component is at rest, that a component that runs nothing is `Ready`, and
that the recorded parents of a handle are among those this code makes it from
(`Family`). `Ready` is what outlives a call: which handles a component holds (`Held`),
with or without the cache and with whichever input views; that the images of a cache
have the sizes it was made for and its two constant images are filled
(`NativeImages`); that the reference slots of an encoder are in the layout `encode`
binds them in. Four steps keep it: a call returns (`ReturnsKeeps`), a call fails
(`FailsKeeps`: the locals are lost, the component is what `Rest` says), the function
ends (`EndsKeeps`), the caller starts another one (`StartsKeep`). The frame generator,
which discards what it uploads, takes frames of any size and destroys only its SDK
context, has the guarantees that `GpuObjects` states for it: its handles are live and
its images in the layout each command names, the three inputs told to FidelityFX excepted
(`Told`, `TransitionTold`).

`VideoEncoder_proofs` proves, for any set of codecs and any number of frames,
failures and requests (`EncoderAssumption`: the bounds are naturals):

* `TypeCorrect`, `ReferencesAreReturned` (`[]PredictsFromReturned`),
  `SessionStartsWithKeyframe`, `RequestIsAnswered`, `ReferenceIsNamed` (AV1 streams
  throughout, H.264 and H.265 streams up to the first forced IDR picture).

None of these is inductive by itself. `IInv` adds that `prior_ref_slot` is set
exactly when a frame was returned and that its slot holds that frame
(`SlotsFollow`), that the locals of a running call still agree with the fields
they were computed from (`CallAgrees`), that the setup slot holds the picture
about to be returned (`WrittenBeforeRead`), that a request is either in the flag
or in the call that took it (`RequestKept`), and that the decoder has the frame
before `frame_index` under the number the encoder will compute for it
(`DecoderFollows`). A failed call changes only the setup slot, which is never
`prior_ref_slot` (`SetupSlotIsOther`); the wrap-arounds are the arithmetic of
`Remainders`.

`StreamParser_proofs` proves, for any payload lengths, chunk size, number of
streams and messages, and reads that cut the stream anywhere
(`ParserAssumption`: header and chunk sizes are positive):

* `TypeCorrect`, `MessagesReassemble` (`[]Reassembles`), `NothingIsLeftOver`
  (`[]NothingLeftOver`).

The invariant (`ParserInv`) relates the parser to the whole stream written so far.
`Written` says where in it each message starts and that its chunks, headers
included, lie there one behind the other (a message takes `SplitLen` units);
`Behind` says that buffer and wire together are what follows a place in it;
`PositionInv` ties the two: that place is the start of the next chunk of the message
after those parsed, and the chunk map holds exactly the earlier chunks of that
message (`Partial`). A read only moves units from wire to buffer, a parsed frame
moves the place by one chunk, and the last chunk of a message empties the map.
`WaitInv` says that `read_loop` waits only when no frame is complete, which is what
`NothingIsLeftOver` needs. What `FlattenSeq` returns for chunks of any number is
proved by the well-foundedness of the naturals (`SmallestNat`, `CountUp`), with a set
of counters in the place of a predicate.

`InputPath_proofs` proves, for any keys, queue depths and number of events
(`InputAssumption`):

* `TypeCorrect`, `EventsStayInOrder` (`[]InOrder`), `NoEventIsLost`
  (`[]NothingLost`).

Everything injected or under way is read as one row, from the oldest event to the
newest (`All`). `OrderInv` says that the row is sorted by number (`Sorted`), that
its numbers were typed (`Bounded`), without which a new event at its end could break
the order, that with the dropped ones and those gone with the capture thread they are
all numbers (`Complete`), and that
`sentUpTo` stands where the capture thread's step expects it (`CaptureInv`). A step
either leaves the row alone, moving an event from one queue to the next, or appends
to it (`Grows`), or takes out events that go to `dropped`, are lost with the
connection (`Thins`), or end with the capture thread (`gone`).

`ClientPipeline_proofs` proves, for any cells, ring sizes, generations of buffers,
lost callbacks and late releases (`DisplayAssumption`, `ClientAssumption`):

* `TypeCorrect`, `UploadsAreSafe` (`UploadsOnlyFree`), `CommitsAreShown`
  (`CommitShown`), `CommitsKeepTheirFrame`: a commit under way finds its own
  frame in its buffer.

`BufferInv` says that a buffer is in one place only: in one commit, held by the
compositor, in a release under way, or free; and that `released` of the uploader
in use speaks of its own buffers, also after a resize that made a new generation
while the old buffers are still out. That gives `UploadsAreSafe`, and with it
`MemoryInv`: commits keep their frame. For `CommitsAreShown` the pictures form a
chain again, from the texture through commits, queue and ring to the last frame
received (`ChainInv`): each differs from the one before only in its damage and in
`Missed`, the damage of skipped frames and what interpolation took back.
`DamageInv` is the case of full damage.

`Session_proofs` proves (`SessionAssumption`):

* `TypeCorrect`, `NoApplicationIsLeft` (`[]NoOrphan`), `ServerJoinsThreads`: a
  `run()` that returns Ok has joined its threads with the flag raised.

`PhaseInv` says which threads exist in which part of `run()`, and that the compress
thread ends only after the capture thread, which its join (`"join"`) waits for; `ExitInv` what holds once `run()` is on
its regular way out.

`CaptureBackends_proofs` proves, for any compositors, shapes, windows, repaints
and resizes:

* `ProtocolIsKept` (`[]NoProtocolError`). The copy request is made long after the
  buffer was described, with a pool that may be of an earlier frame, and the client's
  state is what a fold over any prefix of the queue made of it. `Good` says, for the
  state after the first events of the queue, that the rest of the queue describes the
  buffer of the frame under way and no other, and says so before `BufferDone`; it is
  kept by every single event (`GoodStep`) and so by the fold (`GoodFold`).
  `StageInv` and `OfferInv` tie the stage of the compositor's frame object to the
  place in `next_frame`: no object between two frames, no description left in the
  queue once phase 1 is over, and a pool that matches the offer at the round trip.
* `WindowIsNew` (`[]CapturesNewWindow`). What `enumerate_toplevels` builds from any
  windows, in either order of events, holds only toplevels with no identifier or
  their own (`ToplevelsType`), so the one that `new_toplevel` picks is not in the
  snapshot.
* `FrameIsIntact` (`FrameIntact`) and `DamageIsCovered` (`DamageCovers`), from
  `CaptureBackendsAssumption` alone: shapes have at least one cell, rows no longer
  than their stride, one of the transforms 0, 1, 2, 4, 6, the rotated one square.
  Their premises are those of the properties: no resize of an ext session since its
  pool was made. The inductive invariant `FrameInv` relates the picture, the active
  buffer, the queue and the client's state. `ReadyInv`: once a frame is ready, or its
  `Ready` is in the queue, the active buffer holds one picture `q` out of `seen`
  (`Holds`); it would not be inductive without the damage that the state and the
  queue tell together (`Described`: at least `Changed(q)`, in front of `Ready`), since
  a dispatch moves it from one to the other. `PoolInv`: the compositor writes only to
  the active buffer and only while `next_frame` waits. `QueueInv`: at most one `Ready`,
  none left over for the next frame. `ExtInv`: what differs between the last frame and
  the screen is in the damage the compositor still keeps. That every handler keeps
  this is proved event by event (`ExtQueueEvent`, `ScQueueEvent`) and carried over any
  prefix of the queue (`ExtPrefix`, `ScPrefix`) by the induction of `CountUp`.
  `UndoShows`, `DecodedShows` and `RenderShows` are the arithmetic of rows, columns and
  strides: what is rendered under a transform and undone is decoded as the picture.

Only model-checked: all liveness properties, since they need fairness. Every safety
property that a passing run checks is also stated by a theorem. (Of the inductive
invariants, `GpuInv` is the one TLC cannot evaluate: `Runs` quantifies over
sequences of states.)

## 7. Not modelled

* Shader and codec arithmetic, rate control values, the bits of parameter sets,
  capability queries (`video.rs`): data the driver interprets. `rife.rs` hands two
  frames to ncnn and waits. `ensure_resources` and `run` in `fsr2.rs` have no
  caller.
* D-Bus and GStreamer calls: each is a step that succeeds, fails or never returns.
* Environment probing, output and toplevel lists (`desktop_detect.rs`, `output.rs`,
  `toplevel.rs`): one round trip of registry events whose result is an input of
  `CaptureBackends`.
* Pixel formats, overlay, statistics, argument parsing, the cursor surface and
  presentation feedback: no protocol between components depends on them.
* The flow controller, and the latency and bandwidth counters, which neither binary
  feeds back into anything.

The compositor, `ssh`, the driver, the decoder and the application are external
actors, as permissive as the code has to expect. Real time appears only as "too
early" (rate limit) and "too late" (callback time-out, deadlines). A failed decode
is in `ClientPipeline`, and so is an update of a new size where it fits the base, but messages are not corrupted in `DeltaSync`: the channel
is a pipe and both ends use the same compressor. A change of the captured size is
modelled in the backends and on the client, not in the compress thread, which
resizes `previous_frame` on anchors only. The anchor queue, unbounded in the code,
has a bound in the model.

## 8. Plan

Done: the delta pipeline, framing, the client's display, the session, the pool,
the input path, the capture backends, the video encoders and the life of the GPU
objects; proofs of every safety invariant that a run checks. Next:

1. `CaptureThread`'s backend as the abstract specification of `CaptureBackends`.
2. A change of size on the server side (`previous_frame` between anchors).
3. The three transport queues together with the cancellation of the writer by the
   reader in `SshTransport::new`.
4. Pure algorithms against reference definitions: `stripe_full_frame`, the
   downscale windows, the scaling of damage, the region layout in
   `compress_frame_into`.
