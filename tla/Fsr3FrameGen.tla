---------------------------- MODULE Fsr3FrameGen ----------------------------
(***************************************************************************)
(* FSR 3 frame generation                                                  *)
(* (remoteway-interpolate/src/backends/fsr3_frame_gen.rs): a fixed set of  *)
(* images made in `new`, three of them filled anew for every frame.        *)
(***************************************************************************)
EXTENDS VulkanContext

FgCtx == <<"fg_ctx">>
FgCmd == <<"fg_cmd">>
UpCmd == <<"upload_cmd">>
UpBuf == <<"upload_buf">>
UpMem == <<"upload_mem">>
RecBuf == <<"reconstructed_prev_depth">>
RecMem == <<"reconstructed_prev_depth_mem">>
StagingBuf == <<"fg_staging">>
StagingBufMem == <<"fg_staging_mem">>
Image(n) == <<n, "image">>
Memory(n) == <<n, "memory">>
View(n) == <<n, "view">>

Inputs == {"input_color", "input_depth", "input_mv"}
Shared == {"dilated_depth", "dilated_mv", "optical_flow_vector", "optical_flow_scd"}
Images == Inputs \cup Shared \cup {"output_color"}

FrameGenFields ==
  {FgCtx, RecBuf, RecMem, StagingBuf, StagingBufMem}
    \cup {Image(n) : n \in Images} \cup {Memory(n) : n \in Images} \cup {View(n) : n \in Images}

find_memory_type == <<Try({Instance})>>

create_compute_image(n, extent) ==
  <<MakeImage(Image(n), extent)>> \o find_memory_type
    \o <<Make(Memory(n), {Device}), Try({Image(n), Memory(n)}), Make(View(n), {Image(n)})>>

create_fg_context == <<Try({Device}), Make(FgCtx, {Device}), TryOr({FgCtx}, {FgCtx})>>

create_shared(render) ==
  create_compute_image("dilated_depth", render) \o create_compute_image("dilated_mv", render)
    \o create_buffer(RecBuf, RecMem)

create_textures(render, display) ==
  create_compute_image("input_color", render) \o create_compute_image("input_depth", render)
    \o create_compute_image("input_mv", render) \o create_compute_image("output_color", display)
    \o create_compute_image("optical_flow_vector", render)
    \o create_compute_image("optical_flow_scd", render)

new(render, display) ==
  create_fg_context \o create_shared(render) \o create_textures(render, display)
    \o create_buffer(StagingBuf, StagingBufMem) \o <<Keep(FrameGenFields)>>

-----------------------------------------------------------------------------
cmd_barrier(cmd, n, from, to) == <<Barrier(cmd, Image(n), from, to)>>

\* One image filled through a buffer and a command buffer of its own; it is left
\* in the layout it was copied in.
FillImage(n, extent) ==
  create_buffer(UpBuf, UpMem) \o upload_to_buffer(UpMem) \o allocate_command_buffer(UpCmd)
    \o <<Begin(UpCmd)>> \o cmd_barrier(UpCmd, n, "UNDEFINED", "TRANSFER_DST")
    \o <<Use({UpBuf}), Writes(UpCmd, Image(n), "TRANSFER_DST", extent), Try({UpCmd})>>
    \o submit_and_wait(UpCmd) \o <<Free(UpBuf), Free(UpMem), Free(UpCmd)>>

upload_rgba8_to_rgba16f(frame) == FillImage("input_color", frame)
fill_depth_far(render) == FillImage("input_depth", render)
fill_mv_zero(render) == FillImage("input_mv", render)

\* Every image enters the dispatch from UNDEFINED, the filled ones too.
InputBarriers ==
  cmd_barrier(FgCmd, "input_color", "UNDEFINED", "GENERAL")
    \o cmd_barrier(FgCmd, "input_depth", "UNDEFINED", "GENERAL")
    \o cmd_barrier(FgCmd, "input_mv", "UNDEFINED", "GENERAL")

SharedBarriers ==
  cmd_barrier(FgCmd, "dilated_depth", "UNDEFINED", "GENERAL")
    \o cmd_barrier(FgCmd, "dilated_mv", "UNDEFINED", "GENERAL")
    \o cmd_barrier(FgCmd, "optical_flow_vector", "UNDEFINED", "GENERAL")
    \o cmd_barrier(FgCmd, "optical_flow_scd", "UNDEFINED", "GENERAL")
    \o cmd_barrier(FgCmd, "output_color", "UNDEFINED", "GENERAL")

\* Depth and motion vectors are registered as COMPUTE_READ, what is written as
\* UNORDERED_ACCESS.
PreparePass(render) ==
  <<Use({RecBuf}), TryOr({FgCtx, FgCmd}, {FgCmd}),
    Reads(FgCmd, {Image("input_depth"), Image("input_mv")}, ComputeRead, render),
    Writes(FgCmd, Image("dilated_depth"), UnorderedAccess, render),
    Writes(FgCmd, Image("dilated_mv"), UnorderedAccess, render)>>

\* The colours as COMPUTE_READ, the output as UNORDERED_ACCESS.
DispatchPass(render, display) ==
  <<TryOr({FgCtx, FgCmd}, {FgCmd}),
    Reads(FgCmd, {Image("input_color")}, ComputeRead, render),
    Writes(FgCmd, Image("output_color"), UnorderedAccess, display)>>

read_rgba16f_to_rgba8 == <<Try({StagingBufMem})>>

ReadOutput(display) ==
  cmd_barrier(FgCmd, "output_color", "GENERAL", "TRANSFER_SRC")
    \o <<Use({StagingBuf}), Reads(FgCmd, {Image("output_color")}, "TRANSFER_SRC", display),
         Try({FgCmd})>>
    \o submit_and_wait(FgCmd) \o <<Free(FgCmd)>> \o read_rgba16f_to_rgba8

\* frame: the size of the two frames, which need not be the one `new` was given.
generate_frame(frame, render, display) ==
  <<Try({})>> \o upload_rgba8_to_rgba16f(frame) \o fill_depth_far(render) \o fill_mv_zero(render)
    \o allocate_command_buffer(FgCmd) \o <<Begin(FgCmd)>> \o InputBarriers \o SharedBarriers
    \o PreparePass(render) \o DispatchPass(render, display) \o ReadOutput(display)

\* Drop of the frame generator; the images and buffers are not destroyed.
drop_frame_gen == <<Free(FgCtx)>>
=============================================================================
