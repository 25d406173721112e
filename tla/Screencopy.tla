----------------------------- MODULE Screencopy ------------------------------
(***************************************************************************)
(* The wlr-screencopy backend (remoteway-capture/src/screencopy.rs): what  *)
(* its event handlers and the parts of next_frame compute.                 *)
(***************************************************************************)
EXTENDS ShmBufferPool

\* ScreencopyState, as far as frames go.
InitialState ==
  [size |-> <<0, 0, 0>>, format |-> "none", buffer_done |-> FALSE,
   frame_ready |-> FALSE, frame_failed |-> FALSE, damage_rects |-> {},
   stopped |-> FALSE]

\* The reset at the head of next_frame.
reset_frame(st) ==
  [st EXCEPT !.frame_ready = FALSE, !.frame_failed = FALSE,
             !.buffer_done = FALSE, !.damage_rects = {}]

\* Events of the frame.  A format wayland-client does not know fails the frame.
event(st, e) ==
  CASE e.ev = "Buffer" /\ e.format = "unknown" -> [st EXCEPT !.frame_failed = TRUE]
    [] e.ev = "Buffer" /\ e.format # "unknown" ->
         [st EXCEPT !.size = e.size, !.format = e.format]
    [] e.ev = "BufferDone" -> [st EXCEPT !.buffer_done = TRUE]
    [] e.ev = "Damage" -> [st EXCEPT !.damage_rects = @ \cup e.cells]
    [] e.ev = "Ready" -> [st EXCEPT !.frame_ready = TRUE]
    [] e.ev = "Failed" -> [st EXCEPT !.frame_failed = TRUE]
    [] OTHER -> st

\* The loops of the two phases end.
OfferOver(st) == st.buffer_done \/ st.frame_failed \/ st.stopped
FrameOver(st) == st.frame_ready \/ st.frame_failed \/ st.stopped

\* Mutant: the stride is not compared.
needs_new_pool_stride(pool, st) ==
  \/ pool = NoPool
  \/ Width(pool.size) # Width(st.size)
  \/ Height(pool.size) # Height(st.size)
  \/ pool.format # st.format

\* The pool must match the offer in every attribute.
needs_new_pool(pool, st) ==
  \/ pool = NoPool
  \/ pool.size # st.size
  \/ pool.format # st.format

\* PixelFormat::from_wl_shm knows the format.
from_wl_shm(format) == format = "xrgb8888"

frame_damage(st) ==
  IF st.damage_rects # {} THEN st.damage_rects
  ELSE 1 .. Width(st.size) * Height(st.size)
=============================================================================
