----------------------------- MODULE ExtCapture ------------------------------
(***************************************************************************)
(* The ext-image-copy-capture backend (remoteway-capture/src/              *)
(* ext_capture.rs): what its event handlers and the parts of `new` and     *)
(* next_frame compute.  CaptureBackends runs them.                         *)
(***************************************************************************)
EXTENDS ShmBufferPool, SequencesExt

-----------------------------------------------------------------------------
\* Pixels.

\* Swaps the rows top to bottom; what is left after the last whole row stays.
flip_rows(data, stride) ==
  LET height == Len(data) \div stride
  IN [i \in DOMAIN data |->
        LET row == (i - 1) \div stride
        IN IF row < height
           THEN data[(height - 1 - row) * stride + ((i - 1) % stride) + 1]
           ELSE data[i]]

\* Reverses the pixels within every whole row.
mirror_rows(data, stride) ==
  [i \in DOMAIN data |->
     LET row == (i - 1) \div stride
     IN IF row < Len(data) \div stride
        THEN data[row * stride + stride - ((i - 1) % stride)]
        ELSE data[i]]

\* The match on frame_transform: flipped-180 is a flip, flipped a mirror, 180
\* both; a rotation by 90 degrees is passed on as it is, with a warning.
undo_transform(data, stride, transform) ==
  CASE transform = 2 -> mirror_rows(flip_rows(data, stride), stride)
    [] transform = 4 -> mirror_rows(data, stride)
    [] transform = 6 -> flip_rows(data, stride)
    [] OTHER -> data

full_damage(size) == 1 .. Width(size) * Height(size)

\* Mutant: the damage stands whatever the transform.
frame_damage_trusting(st) ==
  IF st.damage_rects # {} THEN st.damage_rects ELSE full_damage(st.size)

\* The reported damage is in the coordinates of the transformed buffer, so it
\* stands only when there is no transform.
frame_damage(st) ==
  IF st.frame_transform = 0 /\ st.damage_rects # {}
  THEN st.damage_rects ELSE full_damage(st.size)

-----------------------------------------------------------------------------
\* ExtCaptureState, as far as frames go.
InitialState ==
  [size |-> <<0, 0, 0>>, session_ready |-> FALSE, frame_ready |-> FALSE,
   frame_transform |-> 0, frame_failed |-> FALSE, damage_rects |-> {},
   stopped |-> FALSE]

\* Mutant: frame_ready is left from the last frame.
reset_frame_stale(st) == [st EXCEPT !.frame_failed = FALSE, !.damage_rects = {}]

\* The reset at the head of next_frame: not frame_transform, which every frame
\* reports anew.
reset_frame(st) ==
  [st EXCEPT !.frame_ready = FALSE, !.frame_failed = FALSE, !.damage_rects = {}]

\* Mutant: Stopped is not heard.
session_event_deaf(st, e) ==
  CASE e.ev = "BufferSize" -> [st EXCEPT !.size = <<e.size[1], e.size[2], e.size[1]>>]
    [] e.ev = "Done" -> [st EXCEPT !.session_ready = TRUE]
    [] OTHER -> st

\* Events of the session.  BufferSize changes the size that next_frame reports,
\* the pool is never made again.
session_event(st, e) ==
  CASE e.ev = "BufferSize" -> [st EXCEPT !.size = <<e.size[1], e.size[2], e.size[1]>>]
    [] e.ev = "Done" -> [st EXCEPT !.session_ready = TRUE]
    [] e.ev = "Stopped" -> [st EXCEPT !.stopped = TRUE]
    [] OTHER -> st

\* Events of the frame, whichever frame they are of.
frame_event(st, e) ==
  CASE e.ev = "Damage" -> [st EXCEPT !.damage_rects = @ \cup e.cells]
    [] e.ev = "Transform" -> [st EXCEPT !.frame_transform = e.transform]
    [] e.ev = "Ready" -> [st EXCEPT !.frame_ready = TRUE]
    [] e.ev = "Failed" -> [st EXCEPT !.frame_failed = TRUE]
    [] OTHER -> st

event(st, e) == frame_event(session_event(st, e), e)

\* The loop of next_frame ends.
FrameOver(st) == st.frame_ready \/ st.frame_failed \/ st.stopped

-----------------------------------------------------------------------------
\* Windows.  A toplevel of the client is made by its AppId event alone, an
\* Identifier (or a title) that comes first finds nothing to go to.
Known(toplevels, win) == \E i \in DOMAIN toplevels : toplevels[i].win = win

toplevel_event(toplevels, e) ==
  CASE e.ev = "AppId" /\ ~Known(toplevels, e.win) ->
         Append(toplevels, [win |-> e.win, identifier |-> 0])
    [] e.ev = "Identifier" ->
         [i \in DOMAIN toplevels |->
            IF toplevels[i].win = e.win
            THEN [toplevels[i] EXCEPT !.identifier = e.win] ELSE toplevels[i]]
    [] e.ev = "Closed" -> SelectSeq(toplevels, LAMBDA t : t.win # e.win)
    [] OTHER -> toplevels

\* enumerate_toplevels: the list after the second round trip.
enumerate_toplevels(events) == FoldLeft(toplevel_event, <<>>, events)

\* The snapshot the server keeps: identifiers, 0 for an empty one.
Identifiers(toplevels) == {toplevels[i].identifier : i \in DOMAIN toplevels}

\* No toplevel fits.
NoWindow == 0

\* Mutant: the snapshot is not looked at.
new_toplevel_any(toplevels, known_identifiers) ==
  IF toplevels = <<>> THEN NoWindow ELSE Head(toplevels).win

\* CaptureSource::NewToplevel: the first toplevel with an identifier that is
\* not in the snapshot; with an empty snapshot, else the first toplevel.
new_toplevel(toplevels, known_identifiers) ==
  LET IsNew(t) == t.identifier # 0 /\ t.identifier \notin known_identifiers
      fresh == {i \in DOMAIN toplevels : IsNew(toplevels[i])}
  IN IF fresh # {} THEN toplevels[Min(fresh)].win
     ELSE IF known_identifiers = {} /\ toplevels # <<>> THEN Head(toplevels).win
     ELSE NoWindow
=============================================================================
