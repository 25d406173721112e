--------------------------- MODULE CaptureBackends ---------------------------
(***************************************************************************)
(* How the server finds the window or the output to capture and the        *)
(* backend to capture it with (remoteway-capture/src/detect.rs, the `new`  *)
(* functions of the backends, the toplevel snapshot of the server's        *)
(* main.rs), and how next_frame of ext_capture.rs, screencopy.rs and       *)
(* portal.rs then works against a compositor that draws, resizes, rotates  *)
(* and closes what is captured at its own pace.                            *)
(*                                                                         *)
(* The Wayland connection is a queue of events.  dispatch_with_deadline    *)
(* hands the client any prefix of it: what the socket held.  The           *)
(* compositor, PipeWire and the applications are external.                 *)
(***************************************************************************)
EXTENDS Integers, Sequences, FiniteSets, SequencesExt, ShmBufferPool

CONSTANTS
  Desktops,     \* the compositors: the globals they offer ("output" when the
                \* wanted one is connected), whether they are GNOME or KDE
                \* (needs_portal) and send a window's identifier before its app
                \* id (lateId), and the shapes their buffers take: a size and
                \* a wl_output transform, 0, 1, 2, 4 or 6
  Spots,        \* bound: the cells an application draws in
  MaxWindows,   \* bound: windows opened
  MaxPaints,    \* bound: changes of the picture
  MaxResizes    \* bound: changes of size or transform

ASSUME CaptureBackendsAssumption ==
  /\ \A o \in UNION {d.shapes : d \in Desktops} :
       /\ o.transform \in {0, 1, 2, 4, 6}
       /\ Width(o.size) \in Nat \ {0} /\ Height(o.size) \in Nat \ {0}
       /\ Stride(o.size) \in Nat /\ Stride(o.size) >= Width(o.size)
       /\ o.transform = 1 => Width(o.size) = Height(o.size)
  /\ Spots \subseteq Nat
  /\ MaxWindows \in Nat /\ MaxPaints \in Nat /\ MaxResizes \in Nat

Ext == INSTANCE ExtCapture
Sc == INSTANCE Screencopy

VARIABLES
  desktop,      \* the compositor the server runs under
  windows,      \* the windows, oldest first: [win, app_id]
  opened, listed,  \* windows opened so far; history: the ones in the snapshot
  output,       \* what is captured: its size, transform, picture, damage
  paints, resizes, closed,  \* closed: the captured window or output is gone
  wire,         \* events sent to the client and not dispatched
  frame,        \* the compositor's frame object: [stage, offer, slot]
  protocolError,
  pc, backend, target, known_identifiers, st, pool,   \* the client
  returned,     \* the last CapturedFrame
  seen,         \* history: the pictures since next_frame was called
  portal        \* PortalBackend and its thread

globals == desktop.globals

windowVars == <<windows, opened, listed>>
outputVars == <<output, paints, resizes, closed>>
setupVars == <<backend, target, known_identifiers>>
vars == <<desktop, windowVars, outputVars, wire, frame, protocolError, pc,
          setupVars, st, pool, returned, seen, portal>>

-----------------------------------------------------------------------------
\* Pictures and events.

Cells(size) == 1 .. Width(size) * Height(size)

Blank(size) == [c \in Cells(size) |-> 0]

\* The cell of the upright picture that a transformed buffer shows at a row
\* and a column, both from 0.
SourceCell(size, transform, row, col) ==
  LET w == Width(size)
      h == Height(size)
  IN 1 + CASE transform = 0 -> row * w + col
           [] transform = 1 -> col * w + (h - 1 - row)
           [] transform = 2 -> (h - 1 - row) * w + (w - 1 - col)
           [] transform = 4 -> row * w + (w - 1 - col)
           [] transform = 6 -> (h - 1 - row) * w + col

\* The transform of the buffers: screencopy asks for upright ones.
BufferTransform == IF backend = "ext" THEN output.transform ELSE 0

\* The compositor's copy into a buffer; the padding of a row is not written.
Render(old) ==
  LET w == Width(output.size)
      s == Len(old) \div Height(output.size)
  IN [i \in DOMAIN old |->
        LET row == (i - 1) \div s
            col == (i - 1) % s
        IN IF col < w
           THEN output.picture[SourceCell(output.size, BufferTransform, row, col)]
           ELSE old[i]]

\* Damage as the ext frame reports it, in the cells of the buffer.
BufferDamage ==
  LET w == Width(output.size)
  IN {i \in Cells(output.size) :
        SourceCell(output.size, output.transform, (i - 1) \div w, (i - 1) % w)
          \in output.damage}

\* What a consumer makes of a CapturedFrame.
Decoded(f) ==
  [c \in Cells(f.size) |->
     f.data[((c - 1) \div Width(f.size)) * Stride(f.size)
            + ((c - 1) % Width(f.size)) + 1]]

NoSize == <<0, 0, 0>>
Event(ev) == [ev |-> ev, size |-> NoSize, format |-> "none", cells |-> {},
              transform |-> 0, win |-> 0]
SizeEvent(ev, size) == [Event(ev) EXCEPT !.size = size]

NoFrame == [stage |-> "none", offer |-> NoSize, format |-> "none", slot |-> 0]
NoReturned == [data |-> <<>>, size |-> NoSize, damage |-> {}, transform |-> 0]
NoPortal == [thread |-> "none", ready |-> "none", frames |-> <<>>,
             open |-> FALSE, stop_flag |-> FALSE]

Init ==
  /\ desktop \in Desktops
  /\ windows \in {<<>>} \cup {<<[win |-> 1, app_id |-> a]>> : a \in BOOLEAN}
  /\ opened = Len(windows)
  /\ listed = {}
  /\ \E o \in desktop.shapes :
       output = [size |-> o.size, transform |-> o.transform,
                 picture |-> Blank(o.size), damage |-> Cells(o.size)]
  /\ paints = 0 /\ resizes = 0
  /\ closed = FALSE
  /\ wire = <<>>
  /\ frame = NoFrame
  /\ protocolError = FALSE
  /\ pc = "snapshot"
  /\ backend = "none" /\ target = 0 /\ known_identifiers = {}
  /\ st = Sc!InitialState
  /\ pool = NoPool
  /\ returned = NoReturned
  /\ seen = {}
  /\ portal = NoPortal

-----------------------------------------------------------------------------
\* Finding the window of the application.

\* External: windows open, with or without an app id, get one, and close.
WindowOpens ==
  /\ pc \in {"snapshot", "spawned"}
  /\ opened < MaxWindows
  /\ opened' = opened + 1
  /\ \E a \in BOOLEAN :
       windows' = Append(windows, [win |-> opened + 1, app_id |-> a])
  /\ UNCHANGED <<desktop, listed, outputVars, wire, frame, protocolError, pc,
                 setupVars, st, pool, returned, seen, portal>>

WindowNamed ==
  /\ pc \in {"snapshot", "spawned"}
  /\ \E i \in DOMAIN windows :
       /\ ~windows[i].app_id
       /\ windows' = [windows EXCEPT ![i].app_id = TRUE]
  /\ UNCHANGED <<desktop, opened, listed, outputVars, wire, frame,
                 protocolError, pc, setupVars, st, pool, returned, seen, portal>>

WindowCloses ==
  /\ pc \in {"snapshot", "spawned"}
  /\ \E i \in DOMAIN windows : windows' = RemoveAt(windows, i)
  /\ UNCHANGED <<desktop, opened, listed, outputVars, wire, frame,
                 protocolError, pc, setupVars, st, pool, returned, seen, portal>>

\* External: what ext_foreign_toplevel_list_v1 sends for the windows.
WindowEvents ==
  LET Named(w) == [Event("AppId") EXCEPT !.win = w.win]
      Identified(w) == [Event("Identifier") EXCEPT !.win = w.win]
      Of(w) == IF ~w.app_id THEN <<Identified(w)>>
               ELSE IF desktop.lateId THEN <<Identified(w), Named(w)>>
               ELSE <<Named(w), Identified(w)>>
  IN FlattenSeq([i \in DOMAIN windows |-> Of(windows[i])])

Toplevels == Ext!enumerate_toplevels(WindowEvents)

\* The windows play no part any more: the output is captured, or a session
\* with the chosen window is under way.
Forget ==
  windows' = <<>> /\ opened' = 0 /\ listed' = {} /\ known_identifiers' = {}

\* main.rs: the snapshot of toplevels, then launch_child.  Without the list
\* protocol the whole output is captured.
Snapshot ==
  /\ pc = "snapshot"
  /\ IF "toplevel_list" \in globals
     THEN /\ pc' = "spawned"
          /\ known_identifiers' = Ext!Identifiers(Toplevels)
          /\ listed' = Ext!Identifiers(Toplevels) \ {0}
          /\ UNCHANGED <<windows, opened>>
     ELSE pc' = "detect" /\ Forget
  /\ UNCHANGED <<desktop, outputVars, wire, frame,
                 protocolError, backend, target, st, pool, returned, seen, portal>>

\* ExtImageCaptureBackend::new up to the session: its globals are there.
ExtGlobals(manager) == {"copy_capture", "shm", manager} \subseteq globals

\* detect_new_toplevel_backend finds a window, the session is requested.
DetectNewToplevel ==
  /\ pc = "spawned"
  /\ ExtGlobals("toplevel_source")
  /\ LET win == Ext!new_toplevel(Toplevels, known_identifiers)
     IN /\ win # Ext!NoWindow
        /\ target' = win
  /\ pc' = "session"
  /\ UNCHANGED <<desktop, windowVars, outputVars, wire, frame, protocolError,
                 backend, known_identifiers, st, pool, returned, seen, portal>>

\* The server's retries are over: it captures the output instead.
GiveUpWindow ==
  /\ pc = "spawned"
  /\ pc' = "detect"
  /\ Forget
  /\ UNCHANGED <<desktop, outputVars, wire, frame, protocolError,
                 backend, target, st, pool, returned, seen, portal>>

\* detect_backend: ext, then for GNOME and KDE the portal, then screencopy.
TryScreencopy ==
  IF {"screencopy", "shm", "output"} \subseteq globals
  THEN pc' = "idle" /\ backend' = "screencopy" /\ st' = Sc!InitialState
  ELSE pc' = "ended" /\ UNCHANGED <<backend, st>>

AfterExt ==
  IF desktop.needs_portal
  THEN /\ pc' = "portal"
       /\ portal' = [NoPortal EXCEPT !.thread = "handshake", !.open = TRUE]
       /\ UNCHANGED <<backend, st>>
  ELSE TryScreencopy /\ UNCHANGED portal

DetectBackend ==
  /\ pc = "detect"
  /\ IF ExtGlobals("output_source") /\ "output" \in globals
     THEN pc' = "session" /\ UNCHANGED <<backend, st, portal>>
     ELSE AfterExt
  /\ target' = 0
  /\ UNCHANGED <<desktop, windowVars, outputVars, wire, frame, protocolError,
                 known_identifiers, pool, returned, seen>>

\* The third round trip of `new` brings the size, and the pool is made, in a
\* format that next_frame may not know.
SessionReady ==
  /\ pc = "session"
  /\ LET sized == Ext!session_event(Ext!InitialState, SizeEvent("BufferSize", output.size))
         s == Ext!session_event(sized, Event("Done"))
     IN /\ st' = s
        /\ \E format \in {"xrgb8888", "other"} : pool' = new(s.size, format)
  /\ backend' = "ext"
  /\ pc' = "idle"
  /\ Forget
  /\ UNCHANGED <<desktop, outputVars, wire, frame, protocolError, target,
                 returned, seen, portal>>

\* No Done, no format, or no memory for the pool: the window closed meanwhile, for one.
SessionFails ==
  /\ pc = "session"
  /\ IF target # 0
     THEN pc' = "spawned" /\ UNCHANGED <<backend, st, portal>>
     ELSE AfterExt
  /\ target' = 0
  /\ UNCHANGED <<desktop, windowVars, outputVars, wire, frame, protocolError,
                 known_identifiers, pool, returned, seen>>

-----------------------------------------------------------------------------
\* The compositor, external.

Capturing == pc \in {"idle", "wait", "phase1", "roundtrip", "phase2", "recv"}

Send(events) == wire' = wire \o events

Paint ==
  /\ Capturing /\ ~closed
  /\ paints < MaxPaints
  /\ paints' = paints + 1
  /\ \E c \in Spots \cap Cells(output.size) :
       output' = [output EXCEPT !.picture[c] = 1 - @, !.damage = @ \cup {c}]
  /\ seen' = IF seen = {} THEN {} ELSE seen \cup {output'.picture}
  /\ UNCHANGED <<desktop, windowVars, resizes, closed, wire, frame,
                 protocolError, pc, setupVars, st, pool, returned, portal>>

\* A new size or a new transform; an ext session announces the size.
Resize ==
  /\ Capturing /\ ~closed
  /\ resizes < MaxResizes
  /\ resizes' = resizes + 1
  /\ \E o \in desktop.shapes :
       /\ o # [size |-> output.size, transform |-> output.transform]
       /\ output' = [size |-> o.size, transform |-> o.transform,
                     picture |-> Blank(o.size), damage |-> Cells(o.size)]
       /\ IF backend = "ext" /\ o.size # output.size
          THEN Send(<<SizeEvent("BufferSize", o.size), Event("Done")>>)
          ELSE UNCHANGED wire
  /\ seen' = IF seen = {} THEN {} ELSE seen \cup {output'.picture}
  /\ UNCHANGED <<desktop, windowVars, paints, closed, frame, protocolError,
                 pc, setupVars, st, pool, returned, portal>>

\* The captured window or output goes away: the frame under way fails, and an
\* ext session stops.
TargetCloses ==
  /\ Capturing /\ ~closed
  /\ closed' = TRUE
  /\ Send((IF frame.stage \in {"none", "answered"} THEN <<>>
           ELSE <<Event("Failed")>>)
          \o (IF backend = "ext" THEN <<Event("Stopped")>> ELSE <<>>))
  /\ frame' = IF frame.stage = "none" THEN frame ELSE [frame EXCEPT !.stage = "answered"]
  /\ UNCHANGED <<desktop, windowVars, output, paints, resizes, protocolError,
                 pc, setupVars, st, pool, returned, seen, portal>>

\* wlr-screencopy describes the buffer it wants, or refuses the frame.
Offer ==
  /\ frame.stage = "offering"
  /\ \E format \in {"xrgb8888", "other", "unknown"} :
       /\ frame' = [frame EXCEPT !.stage = "offered", !.offer = output.size,
                                 !.format = format]
       /\ Send(<<[SizeEvent("Buffer", output.size) EXCEPT !.format = format],
                 Event("BufferDone")>>)
  /\ UNCHANGED <<desktop, windowVars, outputVars, protocolError, pc,
                 setupVars, st, pool, returned, seen, portal>>

\* The compositor has something new to copy and starts writing: while it does
\* the buffer holds neither the old nor the new pixels.  An ext session waits
\* for damage.
StartCopy ==
  /\ frame.stage = "copying"
  /\ backend = "ext" => output.damage # {}
  /\ IF Width(frame.offer) = Width(output.size) /\ Height(frame.offer) = Height(output.size)
     THEN /\ frame' = [frame EXCEPT !.stage = "writing"]
          /\ pool' = [pool EXCEPT !.slots[frame.slot] = [i \in DOMAIN @ |-> Torn]]
          /\ UNCHANGED wire
     ELSE /\ frame' = [frame EXCEPT !.stage = "answered"]
          /\ Send(<<Event("Failed")>>)
          /\ UNCHANGED pool
  /\ UNCHANGED <<desktop, windowVars, outputVars, protocolError, pc,
                 setupVars, st, returned, seen, portal>>

\* Damage is reported for an ext frame.  The client asks screencopy with `copy`,
\* and the protocol sends the event `damage` for `copy_with_damage` only.
FinishCopy ==
  /\ frame.stage = "writing"
  /\ frame' = [frame EXCEPT !.stage = "answered"]
  /\ IF Width(frame.offer) = Width(output.size) /\ Height(frame.offer) = Height(output.size)
     THEN /\ pool' = [pool EXCEPT !.slots[frame.slot] = Render(@)]
          /\ Send((IF backend = "ext"
                   THEN <<[Event("Transform") EXCEPT !.transform = output.transform],
                          [Event("Damage") EXCEPT !.cells = BufferDamage]>>
                   ELSE <<>>) \o <<Event("Ready")>>)
          /\ output' = [output EXCEPT !.damage = {}]
     ELSE /\ Send(<<Event("Failed")>>)
          /\ UNCHANGED <<pool, output>>
  /\ UNCHANGED <<desktop, windowVars, paints, resizes, closed, protocolError,
                 pc, setupVars, st, returned, seen, portal>>

-----------------------------------------------------------------------------
\* The client.  An error of next_frame ends the capture thread.

clientOnly == <<desktop, windowVars, outputVars, setupVars>>

\* A second frame object while one lives is a protocol error.
Request(stage, size, slot) ==
  /\ frame' = [stage |-> stage, offer |-> size, format |-> "none", slot |-> slot]
  /\ protocolError' = (protocolError \/ frame.stage # "none")

\* next_frame of ext, down to its loop: create_frame, attach_buffer, capture.
ExtNextFrame ==
  /\ pc = "idle" /\ backend = "ext"
  /\ IF st.stopped
     THEN pc' = "ended" /\ UNCHANGED <<st, frame, protocolError, seen>>
     ELSE /\ st' = Ext!reset_frame(st)
          /\ Request("copying", pool.size, pool.active)
          /\ seen' = {output.picture}
          /\ pc' = "wait"
  /\ UNCHANGED <<clientOnly, wire, pool, returned, portal>>

ClientEvent(s, e) == IF backend = "ext" THEN Ext!event(s, e) ELSE Sc!event(s, e)

\* dispatch_pending: the handlers of the events, in their order.
Handled(s, events) == FoldLeft(ClientEvent, s, events)

\* dispatch_with_deadline: some of the events are there.  Without any, ext
\* goes on waiting.
Dispatch ==
  /\ \/ pc = "wait" /\ ~Ext!FrameOver(st)
     \/ pc = "phase1" /\ ~Sc!OfferOver(st)
     \/ pc = "phase2" /\ ~Sc!FrameOver(st)
  /\ \E k \in DOMAIN wire :
       /\ st' = Handled(st, SubSeq(wire, 1, k))
       /\ wire' = SubSeq(wire, k + 1, Len(wire))
  /\ UNCHANGED <<clientOnly, frame, protocolError, pc, pool, returned, seen, portal>>

\* The connection breaks: dispatch returns an error.
ConnectionLost ==
  /\ pc \in {"wait", "phase1", "roundtrip", "phase2"}
  /\ pc' = "ended"
  /\ UNCHANGED <<clientOnly, wire, frame, protocolError, st, pool, returned,
                 seen, portal>>

Return(data, damage, transform) ==
  /\ returned' = [data |-> data, size |-> st.size, damage |-> damage,
                  transform |-> transform]
  /\ pool' = swap(pool)
  /\ pc' = "idle"

\* The rest of next_frame of ext, from frame.destroy().
ExtFinishFrame ==
  /\ pc = "wait" /\ Ext!FrameOver(st)
  /\ frame' = NoFrame
  /\ seen' = {}
  /\ IF st.stopped \/ st.frame_failed \/ ~Sc!from_wl_shm(pool.format)
     THEN pc' = "ended" /\ UNCHANGED <<returned, pool>>
     ELSE Return(Ext!undo_transform(active_data(pool), Stride(st.size), st.frame_transform),
                 Ext!frame_damage(st), st.frame_transform)
  /\ UNCHANGED <<clientOnly, wire, protocolError, st, portal>>

\* next_frame of screencopy, down to the loop of phase 1.
ScNextFrame ==
  /\ pc = "idle" /\ backend = "screencopy"
  /\ IF st.stopped
     THEN pc' = "ended" /\ UNCHANGED <<st, frame, protocolError, seen>>
     ELSE /\ st' = Sc!reset_frame(st)
          /\ Request("offering", NoSize, 0)
          /\ seen' = {output.picture}
          /\ pc' = "phase1"
  /\ UNCHANGED <<clientOnly, wire, pool, returned, portal>>

\* Mutant: a second without an event is waited out.
TimeoutGoesOn ==
  /\ \/ pc = "phase1" /\ ~Sc!OfferOver(st)
     \/ pc = "phase2" /\ ~Sc!FrameOver(st)
  /\ wire = <<>>
  /\ UNCHANGED vars

\* One second without an event.
Timeout ==
  /\ \/ pc = "phase1" /\ ~Sc!OfferOver(st)
     \/ pc = "phase2" /\ ~Sc!FrameOver(st)
  /\ wire = <<>>
  /\ frame' = NoFrame
  /\ pc' = "ended"
  /\ UNCHANGED <<clientOnly, wire, protocolError, st, pool, returned, seen, portal>>

\* Between the phases: the pool is made again when the offer differs from it,
\* which ShmBufferPool::new may refuse.
ScPool ==
  /\ pc = "phase1" /\ Sc!OfferOver(st)
  /\ IF st.frame_failed \/ st.format = "none"
     THEN /\ pc' = "ended"
          /\ frame' = IF st.frame_failed THEN NoFrame ELSE frame
          /\ UNCHANGED pool
     ELSE /\ UNCHANGED frame
          /\ IF ~Sc!needs_new_pool(pool, st)
             THEN pc' = "roundtrip" /\ UNCHANGED pool
             ELSE \/ Valid(st.size) /\ pool' = new(st.size, st.format) /\ pc' = "roundtrip"
                  \/ pool' = NoPool /\ pc' = "ended"
  /\ UNCHANGED <<clientOnly, wire, protocolError, st, returned, seen, portal>>

\* The round trip, which has no deadline and returns only when the compositor
\* answers (see RoundTripAnswered), and the copy request: the compositor wants
\* a buffer that matches its offer in size, stride and format.
ScCopy ==
  /\ pc = "roundtrip"
  /\ st' = Handled(st, wire)
  /\ wire' = <<>>
  /\ frame' = [frame EXCEPT !.slot = pool.active,
                            !.stage = IF @ = "offered" THEN "copying" ELSE @]
  /\ protocolError' = (protocolError \/ pool.size # frame.offer
                                     \/ pool.format # frame.format)
  /\ pc' = "phase2"
  /\ UNCHANGED <<clientOnly, pool, returned, seen, portal>>

\* The rest of next_frame of screencopy, from frame.destroy().
ScFinishFrame ==
  /\ pc = "phase2" /\ Sc!FrameOver(st)
  /\ frame' = NoFrame
  /\ seen' = {}
  /\ IF st.stopped \/ st.frame_failed \/ ~Sc!from_wl_shm(st.format)
     THEN pc' = "ended" /\ UNCHANGED <<returned, pool>>
     ELSE Return(active_data(pool), Sc!frame_damage(st), 0)
  /\ UNCHANGED <<clientOnly, wire, protocolError, st, portal>>

\* capture_loop sees its stop flag between two frames and calls stop().
Stop ==
  /\ pc = "idle"
  /\ pc' = "ended"
  /\ IF backend = "portal"
     THEN portal' = [portal EXCEPT !.stop_flag = TRUE, !.open = FALSE]
          /\ UNCHANGED st
     ELSE st' = [st EXCEPT !.stopped = TRUE] /\ UNCHANGED portal
  /\ UNCHANGED <<clientOnly, wire, frame, protocolError, pool, returned, seen>>

-----------------------------------------------------------------------------
\* The portal: `new` waits for the thread it spawns, at most 30 seconds.

PortalThread(from, to) ==
  /\ portal.thread = from
  /\ \/ portal' = to
     \/ portal' = [portal EXCEPT !.thread = "gone", !.ready = "error"]
  /\ UNCHANGED <<clientOnly, wire, frame, protocolError, pc, st, pool, returned, seen>>

\* portal_handshake: the D-Bus calls and the user's answer to the dialog, any
\* of which may fail or never come.
PortalHandshake ==
  PortalThread("handshake", [portal EXCEPT !.thread = "pipeline"])

\* run_capture after the handshake: build_pipeline, the appsink, the start.
PortalPipeline ==
  PortalThread("pipeline", [portal EXCEPT !.thread = "loop", !.ready = "ok"])

\* `new` gets its answer, or times out and drops frame_rx and its handle on
\* the thread; detect_backend then tries screencopy.
PortalNewReturns ==
  /\ pc = "portal"
  /\ \/ /\ portal.ready = "ok"
        /\ pc' = "idle" /\ backend' = "portal"
        /\ UNCHANGED <<st, portal>>
     \/ /\ portal.ready # "ok"
        /\ TryScreencopy
        /\ portal' = [portal EXCEPT !.open = FALSE]
  /\ UNCHANGED <<desktop, windowVars, outputVars, wire, frame, protocolError,
                 target, known_identifiers, pool, returned, seen>>

\* A sample of the pipeline as a frame: size and stride from its caps.
sample_to_frame ==
  [data |-> Render(NewSlot(output.size)), size |-> output.size,
   damage |-> Cells(output.size), transform |-> 0]

\* Mutant: a closed channel is taken for a full one.
PortalSampleStubborn ==
  /\ portal.thread = "loop" /\ ~portal.stop_flag /\ ~closed
  /\ portal' = IF portal.open /\ Len(portal.frames) < 2
               THEN [portal EXCEPT !.frames = Append(@, sample_to_frame)]
               ELSE portal
  /\ UNCHANGED <<clientOnly, wire, frame, protocolError, pc, st, pool, returned, seen>>

\* capture_loop of the portal thread: a sample is sent unless the channel of
\* two is full; a closed channel or the stop flag ends the loop.
PortalSample ==
  /\ portal.thread = "loop" /\ ~portal.stop_flag /\ ~closed
  /\ portal' = IF ~portal.open THEN [portal EXCEPT !.thread = "gone"]
               ELSE IF Len(portal.frames) < 2
               THEN [portal EXCEPT !.frames = Append(@, sample_to_frame)]
               ELSE portal
  /\ UNCHANGED <<clientOnly, wire, frame, protocolError, pc, st, pool, returned, seen>>

PortalStops ==
  /\ portal.thread = "loop" /\ portal.stop_flag
  /\ portal' = [portal EXCEPT !.thread = "gone"]
  /\ UNCHANGED <<clientOnly, wire, frame, protocolError, pc, st, pool, returned, seen>>

\* try_pull_sample comes back without a sample, and the loop goes on.
PortalNoSample ==
  /\ portal.thread = "loop" /\ ~portal.stop_flag
  /\ UNCHANGED vars

\* next_frame of the portal: blocking_recv.
PortalNextFrame ==
  /\ pc = "idle" /\ backend = "portal"
  /\ pc' = "recv"
  /\ UNCHANGED <<clientOnly, wire, frame, protocolError, st, pool, returned, seen, portal>>

PortalReceives ==
  /\ pc = "recv" /\ portal.frames # <<>>
  /\ returned' = Head(portal.frames)
  /\ portal' = [portal EXCEPT !.frames = Tail(@)]
  /\ pc' = "idle"
  /\ UNCHANGED <<clientOnly, wire, frame, protocolError, st, pool, seen>>

Done == pc = "ended" /\ UNCHANGED vars

Next ==
  \/ WindowOpens \/ WindowNamed \/ WindowCloses
  \/ Snapshot \/ DetectNewToplevel \/ GiveUpWindow \/ DetectBackend
  \/ SessionReady \/ SessionFails
  \/ Paint \/ Resize \/ TargetCloses \/ Offer \/ StartCopy \/ FinishCopy
  \/ ExtNextFrame \/ ExtFinishFrame \/ Dispatch \/ ConnectionLost
  \/ ScNextFrame \/ Timeout \/ ScPool \/ ScCopy \/ ScFinishFrame \/ Stop
  \/ PortalHandshake \/ PortalPipeline \/ PortalNewReturns \/ PortalSample
  \/ PortalStops \/ PortalNoSample \/ PortalNextFrame \/ PortalReceives
  \/ Done

\* The client's own steps, a deadline among them, are taken.  Nothing is asked
\* of the compositor: it may be silent, before a round trip as well.  The
\* pipeline delivers samples as long as what it shows is there.
Fairness ==
  /\ WF_vars(Dispatch)
  /\ WF_vars(ExtNextFrame) /\ WF_vars(ExtFinishFrame)
  /\ WF_vars(ScPool) /\ WF_vars(ScFinishFrame)
  /\ WF_vars(Timeout)
  /\ WF_vars(PortalSample) /\ WF_vars(PortalStops)

Spec == Init /\ [][Next]_vars /\ Fairness

-----------------------------------------------------------------------------
TypeOK ==
  /\ desktop \in Desktops
  /\ windows \in Seq([win : 1 .. MaxWindows, app_id : BOOLEAN])
  /\ opened \in 0 .. MaxWindows
  /\ listed \subseteq 1 .. MaxWindows
  /\ [size |-> output.size, transform |-> output.transform] \in desktop.shapes
  /\ output.picture \in [Cells(output.size) -> {0, 1}]
  /\ output.damage \subseteq Cells(output.size)
  /\ pc \in {"snapshot", "spawned", "detect", "session", "portal", "idle",
             "wait", "phase1", "roundtrip", "phase2", "recv", "ended"}
  /\ backend \in {"none", "ext", "screencopy", "portal"}
  /\ target \in 0 .. MaxWindows
  /\ known_identifiers \subseteq 0 .. MaxWindows
  /\ frame.stage \in {"none", "offering", "offered", "copying", "writing", "answered"}
  /\ pool # NoPool => /\ pool.active \in {1, 2}
                      /\ \A i \in {1, 2} : pool.slots[i] \in [1 .. Bytes(pool.size) -> Pixel]
  /\ portal.thread \in {"none", "handshake", "pipeline", "loop", "gone"}
  /\ Len(portal.frames) <= 2

\* next_frame of ext or of screencopy returns a frame.
Returns == pc \in {"wait", "phase2"} /\ pc' = "idle"

\* The ext session was resized after its pool was made: the size of the frame
\* and the memory it was read from may differ.
Resized == backend = "ext" /\ resizes > 0

\* A frame is a picture the screen showed while next_frame ran: never the
\* pixels of an earlier frame, never a half-written buffer, upright whatever
\* transform the compositor uses, and read with the stride it was written
\* with.  (Transforms by 90 degrees are not undone, next_frame warns.)
FrameIntact ==
  [][Returns /\ ~Resized /\ returned'.transform # 1 => Decoded(returned') \in seen]_vars

\* "Regions that changed since the previous frame": whatever differs between
\* two frames in a row is in the damage of the second, also when the damage is
\* reported in the coordinates of a transformed buffer.
DamageCovers ==
  [][Returns /\ ~Resized /\ returned.size = returned'.size
       => \A c \in Cells(returned.size) :
            Decoded(returned)[c] # Decoded(returned')[c] => c \in returned'.damage]_vars

\* The compositor never has a reason to raise an error: one frame object at a
\* time, and every buffer handed to `copy` has the size, the stride and the
\* format that were offered for this very frame.
NoProtocolError == ~protocolError

\* A window with an identifier that was in the snapshot before the application
\* was launched is never captured as the window of the application.
CapturesNewWindow == pc = "session" => target \notin listed

\* When the captured window closes, capture ends, in whatever state next_frame
\* is: the server learns of it through the end of the capture thread.
CloseEndsCapture == (closed /\ backend = "ext") ~> pc = "ended"

\* The compositor answers the round trip between the two phases: nothing in
\* the code asks for it, EventQueue::roundtrip waits without a deadline.
RoundTripAnswered == WF_vars(ScCopy)

\* Provided the round trip is answered, next_frame of screencopy returns: the
\* two phases have a deadline for a compositor that never describes the buffer
\* or never copies.
ScreencopyReturns ==
  RoundTripAnswered =>
    (pc \in {"phase1", "roundtrip", "phase2"} ~> pc \in {"idle", "ended"})

\* The portal thread does not outlive its receiver: neither when capture stops
\* nor when `new` gave up on it and the handshake succeeded later, unless its
\* stream has ended by then: nothing but a sample shows it the closed channel.
PortalThreadEnds ==
  (portal.thread = "loop" /\ ~portal.open)
    ~> (portal.thread = "gone" \/ (closed /\ ~portal.stop_flag))
=============================================================================
