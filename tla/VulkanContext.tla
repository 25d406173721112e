--------------------------- MODULE VulkanContext ---------------------------
(***************************************************************************)
(* The shared Vulkan context (remoteway-vulkan/src/context.rs): instance,  *)
(* device and command pool, the helpers the backends build on, and the     *)
(* blit upscaler.                                                          *)
(***************************************************************************)
EXTENDS GpuCalls, Integers

CommandPool == <<"command_pool">>
Fields == {Instance, Device, CommandPool}

\* The loader, the devices, the queue families, the device, its queues, the pool.
\* Three of the error paths destroy the instance; the other three leave it.
with_request ==
  <<Try({}), Try({}), Make(Instance, {}), Try({Instance}), TryOr({Instance}, {Instance}),
    Try({Instance}), MakeOr(Device, {Instance}, {Instance}), Try({Device}),
    MakeOr(CommandPool, {Device}, {Device, Instance}), Keep(Fields)>>

-----------------------------------------------------------------------------
(* Helpers *)

create_buffer(buf, mem) ==
  <<Make(buf, {Device}), TryOr({}, {buf}), MakeOr(mem, {Device}, {buf}),
    TryOr({buf, mem}, {buf, mem})>>

\* Cached memory first, then uncached: a failed first attempt leaves nothing.
create_host_buffer(buf, mem) == create_buffer(buf, mem)

upload_to_buffer(mem) == <<Try({mem})>>
read_from_buffer(mem) == <<Try({mem})>>

allocate_command_buffer(cmd) == <<Make(cmd, {CommandPool})>>

\* The fence is destroyed whether the submission worked or not.
submit_and_wait(cmd) ==
  <<Make(<<"fence">>, {Device}), SubmitOr(cmd, <<"fence">>, {<<"fence">>}), Free(<<"fence">>)>>

create_image(image, mem, extent) ==
  <<MakeImage(image, extent), TryOr({}, {image}), MakeOr(mem, {Device}, {image}),
    TryOr({image, mem}, {image, mem})>>

cmd_image_barrier(cmd, image, from, to) == <<Barrier(cmd, image, from, to)>>

-----------------------------------------------------------------------------
(* Operations *)

Staging == <<"blit_staging">>
StagingMem == <<"blit_staging_mem">>
SrcImage == <<"blit_src">>
SrcImageMem == <<"blit_src_mem">>
DstImage == <<"blit_dst">>
DstImageMem == <<"blit_dst_mem">>
Readback == <<"blit_readback">>
ReadbackMem == <<"blit_readback_mem">>
BlitCmd == <<"blit_cmd">>

blit_resources(src, dst) ==
  create_buffer(Staging, StagingMem) \o upload_to_buffer(StagingMem)
    \o create_image(SrcImage, SrcImageMem, src) \o create_image(DstImage, DstImageMem, dst)
    \o create_buffer(Readback, ReadbackMem) \o allocate_command_buffer(BlitCmd)

blit_commands(src, dst) ==
  <<Begin(BlitCmd)>>
    \o cmd_image_barrier(BlitCmd, SrcImage, "UNDEFINED", "TRANSFER_DST")
    \o <<Use({Staging}), Writes(BlitCmd, SrcImage, "TRANSFER_DST", src)>>
    \o cmd_image_barrier(BlitCmd, SrcImage, "TRANSFER_DST", "TRANSFER_SRC")
    \o cmd_image_barrier(BlitCmd, DstImage, "UNDEFINED", "TRANSFER_DST")
    \o <<Reads(BlitCmd, {SrcImage}, "TRANSFER_SRC", src),
         Writes(BlitCmd, DstImage, "TRANSFER_DST", dst)>>
    \o cmd_image_barrier(BlitCmd, DstImage, "TRANSFER_DST", "TRANSFER_SRC")
    \o <<Use({Readback}), Reads(BlitCmd, {DstImage}, "TRANSFER_SRC", dst), Try({BlitCmd})>>

blit_cleanup ==
  <<Free(Staging), Free(StagingMem), Free(SrcImage), Free(SrcImageMem), Free(DstImage),
    Free(DstImageMem), Free(Readback), Free(ReadbackMem), Free(BlitCmd)>>

\* Any error between the first and the last line leaves what was made so far.
upscale_blit(src, dst) ==
  blit_resources(src, dst) \o blit_commands(src, dst) \o submit_and_wait(BlitCmd)
    \o read_from_buffer(ReadbackMem) \o blit_cleanup

\* The pool takes the command buffers along that failed calls have left in it.
drop == <<Free(CommandPool), Free(Device), Free(Instance)>>
=============================================================================
