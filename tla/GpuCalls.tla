------------------------------ MODULE GpuCalls ------------------------------
(***************************************************************************)
(* The vocabulary in which the Vulkan code is written down: a function is  *)
(* the sequence of the calls it makes that can fail, create or destroy     *)
(* something, in program order.  A call that fails makes the function      *)
(* return, after it has destroyed what `undo` names; most error paths of   *)
(* this code are a bare `?` and undo nothing.                              *)
(*                                                                         *)
(* A handle is a tuple: its name and, in an array of handles, its index.   *)
(***************************************************************************)
EXTENDS Sequences

Instance == <<"instance">>
Device == <<"device">>

Call(op, obj, uses, undo, fallible) ==
  [op |-> op, obj |-> obj, uses |-> uses, undo |-> undo, fallible |-> fallible,
   from |-> "", to |-> "", extent |-> 0]

\* create_* or allocate_*: h is made from the handles in uses.
MakeOr(h, uses, undo) == Call("make", {h}, uses, undo, TRUE)
Make(h, uses) == MakeOr(h, uses, {})

\* A call that can fail and creates nothing.
TryOr(uses, undo) == Call("use", {}, uses, undo, TRUE)
Try(uses) == TryOr(uses, {})

\* A call without a result.
Use(uses) == Call("use", {}, uses, {}, FALSE)

\* destroy_* or free_*; a pool takes along what was allocated from it.
FreeWith(h, along) == Call("free", {h} \cup along, {h}, {}, FALSE)
Free(h) == FreeWith(h, {})

\* The handles move from the function's locals into the object it is called on.
Keep(hs) == Call("keep", hs, hs, {}, FALSE)

\* The handles move out of the object into a local of the function.
Take(hs) == Call("take", hs, hs, {}, FALSE)

\* An image of a given extent.
MakeImage(h, extent) == [Make(h, {Device}) EXCEPT !.extent = extent]

\* Recording: begin_command_buffer, then layout transitions, and commands that
\* write or read the images obj in a layout and over an extent.
Begin(cmd) == Call("begin", {}, {cmd}, {}, TRUE)
Barrier(cmd, image, from, to) ==
  [Call("barrier", {image}, {cmd, image}, {}, FALSE) EXCEPT !.from = from, !.to = to]
Writes(cmd, image, layout, extent) ==
  [Call("write", {image}, {cmd, image}, {}, FALSE) EXCEPT !.from = layout, !.extent = extent]
Reads(cmd, images, layout, extent) ==
  [Call("read", images, {cmd} \cup images, {}, FALSE) EXCEPT !.from = layout, !.extent = extent]

\* The layouts of the resource states the FidelityFX SDK is told of.  It starts from
\* the state it was told, and moves the image itself where it needs another one.
ComputeRead == "SHADER_READ_ONLY"
UnorderedAccess == "GENERAL"

\* A command that expects images in a layout and says nothing of their contents.
Binds(cmd, images, layout) ==
  [Call("bind", images, {cmd} \cup images, {}, FALSE) EXCEPT !.from = layout]

\* queue_submit and wait_for_fences: what was recorded happens.
SubmitOr(cmd, fence, undo) == Call("submit", {}, {cmd, fence}, undo, TRUE)
Submit(cmd, fence) == SubmitOr(cmd, fence, {})
=============================================================================
