---------------------------- MODULE Fsr2Native ----------------------------
(***************************************************************************)
(* The FSR 2 upscaler (remoteway-interpolate/src/backends/fsr2_native.rs): *)
(* images, buffers and the FSR context are cached for one pair of source   *)
(* and destination sizes and built anew when a frame has another one.      *)
(***************************************************************************)
EXTENDS VulkanContext

FsrCtx == <<"fsr_ctx">>
Cmd == <<"fsr_cmd">>
InitCmd == <<"fsr_init_cmd">>
Image(n) == <<n, "image">>
Mem(n) == <<n, "mem">>
View(n) == <<n, "view">>
Buf(n) == <<n, "buf">>

Textures == {"color", "depth", "mv", "output"}
Buffers == {"staging_color", "staging_depth", "staging_mv", "readback"}
CachedResources ==
  {FsrCtx, Cmd} \cup {Image(n) : n \in Textures} \cup {View(n) : n \in Textures}
    \cup {Buf(n) : n \in Buffers} \cup {Mem(n) : n \in Textures \cup Buffers}

\* The interface is probed and given back.  Fsr2Interpolator turns a failure into
\* "no native upscaler", which is the caller's choice of `native`.
with_context == <<Use({Instance})>>

build_fsr_context == <<Try({Instance}), Make(FsrCtx, {Device})>>

create_fsr_image(n, extent) ==
  create_image(Image(n), Mem(n), extent) \o <<MakeOr(View(n), {Image(n)}, {Mem(n), Image(n)})>>

\* The same with the format as an argument.
create_fsr_image_format(n, extent) ==
  create_image(Image(n), Mem(n), extent) \o <<MakeOr(View(n), {Image(n)}, {Mem(n), Image(n)})>>

cmd_image_barrier_simple(cmd, n, from, to) == <<Barrier(cmd, Image(n), from, to)>>

copy_buf_to_image(cmd, buf, n, extent) ==
  <<Use({buf}), Writes(cmd, Image(n), "TRANSFER_DST", extent)>>

DestroyTexture(n) == <<Free(View(n)), Free(Image(n)), Free(Mem(n))>>
DestroyBuffer(n) == <<Free(Buf(n)), Free(Mem(n))>>

\* Mutant: the cache still says Some while its resources are destroyed.
DestroyCached_untaken ==
  <<Free(FsrCtx)>>
    \o DestroyTexture("color") \o DestroyTexture("depth") \o DestroyTexture("mv")
    \o DestroyTexture("output")
    \o DestroyBuffer("staging_color") \o DestroyBuffer("staging_depth")
    \o DestroyBuffer("staging_mv") \o DestroyBuffer("readback") \o <<Free(Cmd)>>

\* What both the rebuild and Drop destroy, in this order.
DestroyCached ==
  <<Take(CachedResources), Free(FsrCtx)>>
    \o DestroyTexture("color") \o DestroyTexture("depth") \o DestroyTexture("mv")
    \o DestroyTexture("output")
    \o DestroyBuffer("staging_color") \o DestroyBuffer("staging_depth")
    \o DestroyBuffer("staging_mv") \o DestroyBuffer("readback") \o <<Free(Cmd)>>

\* Mutant: only the destination is compared.
needs_recreate_dst(cached, src, dst) == cached.dst # dst

needs_recreate(cached, src, dst) == cached.src # src \/ cached.dst # dst

CreateCached(src, dst) ==
  build_fsr_context \o create_fsr_image("color", src) \o create_fsr_image_format("depth", src)
    \o create_fsr_image_format("mv", src) \o create_fsr_image("output", dst)
    \o create_host_buffer(Buf("staging_color"), Mem("staging_color"))
    \o create_host_buffer(Buf("staging_depth"), Mem("staging_depth"))
    \o create_host_buffer(Buf("staging_mv"), Mem("staging_mv"))
    \o create_host_buffer(Buf("readback"), Mem("readback"))
    \o allocate_command_buffer(Cmd)

\* Mutant: the image keeps the layout it was copied in.
InitConstant_nobarrier(n, staging, src) ==
  cmd_image_barrier_simple(InitCmd, n, "UNDEFINED", "TRANSFER_DST")
    \o copy_buf_to_image(InitCmd, Buf(staging), n, src)

\* One of the images that never change: filled and made readable.
InitConstant(n, staging, src) ==
  cmd_image_barrier_simple(InitCmd, n, "UNDEFINED", "TRANSFER_DST")
    \o copy_buf_to_image(InitCmd, Buf(staging), n, src)
    \o cmd_image_barrier_simple(InitCmd, n, "TRANSFER_DST", "SHADER_READ_ONLY")

\* Depth and motion vectors, once per rebuild; then the cache is set.
InitConstants(src) ==
  upload_to_buffer(Mem("staging_depth")) \o upload_to_buffer(Mem("staging_mv"))
    \o allocate_command_buffer(InitCmd) \o <<Begin(InitCmd)>>
    \o InitConstant("depth", "staging_depth", src) \o InitConstant("mv", "staging_mv", src)
    \o <<Try({InitCmd})>> \o submit_and_wait(InitCmd) \o <<Free(InitCmd), Keep(CachedResources)>>

RecordColor(src) ==
  upload_to_buffer(Mem("staging_color")) \o <<Try({Cmd}), Begin(Cmd)>>
    \o cmd_image_barrier_simple(Cmd, "color", "UNDEFINED", "TRANSFER_DST")
    \o copy_buf_to_image(Cmd, Buf("staging_color"), "color", src)
    \o cmd_image_barrier_simple(Cmd, "color", "TRANSFER_DST", "SHADER_READ_ONLY")
    \o cmd_image_barrier_simple(Cmd, "output", "UNDEFINED", "GENERAL")

\* All four images are registered with FSR as COMPUTE_READ.  It samples the three
\* inputs, moves the output from there to where it can write it, and writes every pixel.
Dispatch(src, dst) ==
  <<Use({View(n) : n \in Textures}), Try({FsrCtx}),
    Reads(Cmd, {Image("color"), Image("depth"), Image("mv")}, ComputeRead, src),
    Barrier(Cmd, Image("output"), ComputeRead, UnorderedAccess),
    Writes(Cmd, Image("output"), UnorderedAccess, dst)>>

ReadOutput(dst) ==
  cmd_image_barrier_simple(Cmd, "output", "GENERAL", "TRANSFER_SRC")
    \o <<Use({Buf("readback")}), Reads(Cmd, {Image("output")}, "TRANSFER_SRC", dst), Try({Cmd})>>
    \o submit_and_wait(Cmd) \o read_from_buffer(Mem("readback"))

\* have: there are cached resources; cached: the sizes they were made for.
upscale(have, cached, src, dst) ==
  (IF have /\ ~needs_recreate(cached, src, dst) THEN <<>>
   ELSE (IF have THEN DestroyCached ELSE <<>>) \o CreateCached(src, dst) \o InitConstants(src))
    \o RecordColor(src) \o Dispatch(src, dst) \o ReadOutput(dst)

drop_native(have) == IF have THEN DestroyCached ELSE <<>>
=============================================================================
