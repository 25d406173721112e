-------------------------------- MODULE Fsr2 --------------------------------
(***************************************************************************)
(* The FSR 2 backend (remoteway-interpolate/src/backends/fsr2.rs): compute *)
(* pipelines built once, the native upscaler when the SDK starts, and the  *)
(* EASU + RCAS fallback when it does not.  The motion and warp pipelines   *)
(* are built and destroyed; nothing in the program runs them.              *)
(***************************************************************************)
EXTENDS VulkanContext

Passes == <<"motion", "warp", "easu", "rcas">>
Module(p) == <<p, "module">>
DescLayout(p) == <<p, "desc_layout">>
PipelineLayout(p) == <<p, "pipeline_layout">>
Pipeline(p) == <<p, "pipeline">>
DescSet(p) == <<p, "desc_set">>
DescPool == <<"desc_pool">>

PassFields(p) == {DescLayout(p), PipelineLayout(p), Pipeline(p)}
PipelineFields == {DescPool} \cup UNION {PassFields(Passes[i]) : i \in 1 .. 4}

\* Motion and warp: all modules, then all layouts, then both pipelines at once.
create_motion_and_warp ==
  <<Try({}), Try({}), Make(Module("motion"), {Device}), Make(Module("warp"), {Device}),
    Make(DescLayout("motion"), {Device}), Make(DescLayout("warp"), {Device}),
    Use({DescLayout("motion")}), Make(PipelineLayout("motion"), {Device}),
    Use({DescLayout("warp")}), Make(PipelineLayout("warp"), {Device}),
    Use({Module("motion"), Module("warp"), PipelineLayout("motion"), PipelineLayout("warp")}),
    [Make(Pipeline("motion"), {Device}) EXCEPT !.obj = {Pipeline("motion"), Pipeline("warp")}],
    Make(DescPool, {Device}), Free(Module("motion")), Free(Module("warp"))>>

\* EASU and RCAS: one after the other.
create_pass(p) ==
  <<Try({}), Make(Module(p), {Device}), Make(DescLayout(p), {Device}),
    Use({DescLayout(p)}), Make(PipelineLayout(p), {Device}),
    Use({Module(p), PipelineLayout(p)}), Make(Pipeline(p), {Device}), Free(Module(p))>>

\* No error path destroys anything.
with_params ==
  create_motion_and_warp \o create_pass("easu") \o create_pass("rcas")
    \o <<Keep(PipelineFields)>>

-----------------------------------------------------------------------------
SrcBuf == <<"easu_src">>
SrcMem == <<"easu_src_mem">>
DstBuf == <<"easu_dst">>
DstMem == <<"easu_dst_mem">>
EasuCmd == <<"easu_cmd">>

\* A descriptor set, the buffers written into it, and the dispatch.
RunPass(p, bufs) ==
  <<Use(bufs \cup {DescSet(p)}), Use({EasuCmd, Pipeline(p), PipelineLayout(p), DescSet(p)} \cup bufs)>>

AllocSet(p) == <<Use({DescLayout(p)}), Make(DescSet(p), {DescPool})>>

fallback_commands ==
  AllocSet("easu") \o allocate_command_buffer(EasuCmd) \o <<Try({EasuCmd})>>
    \o RunPass("easu", {SrcBuf, DstBuf}) \o AllocSet("rcas") \o RunPass("rcas", {DstBuf})
    \o <<Try({EasuCmd})>>

\* The sets are handed to free_descriptor_sets, which is not valid for a pool that
\* create_motion_and_warp made without FREE_DESCRIPTOR_SET: the pool may keep them,
\* until it is destroyed.
UnfreeableSets == {DescSet("easu"), DescSet("rcas")}

\* Mutant: the memory of the destination is not given back.
fallback_cleanup_dst ==
  <<Free(SrcBuf), Free(SrcMem), Free(DstBuf),
    Free(DescSet("easu")), Free(DescSet("rcas")), Free(EasuCmd)>>

fallback_cleanup ==
  <<Free(SrcBuf), Free(SrcMem), Free(DstBuf), Free(DstMem),
    Free(DescSet("easu")), Free(DescSet("rcas")), Free(EasuCmd)>>

\* upscale without the native upscaler.
upscale_fallback ==
  create_buffer(SrcBuf, SrcMem) \o upload_to_buffer(SrcMem) \o create_buffer(DstBuf, DstMem)
    \o fallback_commands \o submit_and_wait(EasuCmd) \o read_from_buffer(DstMem)
    \o fallback_cleanup

\* Mutant: the pipelines are forgotten.
drop_pipelines_forgotten ==
  <<Free(DescPool)>> \o [i \in 1 .. 4 |-> Free(PipelineLayout(Passes[i]))]
    \o [i \in 1 .. 4 |-> Free(DescLayout(Passes[i]))]

drop_pipelines ==
  <<Free(DescPool)>> \o [i \in 1 .. 4 |-> Free(Pipeline(Passes[i]))]
    \o [i \in 1 .. 4 |-> Free(PipelineLayout(Passes[i]))]
    \o [i \in 1 .. 4 |-> Free(DescLayout(Passes[i]))]
=============================================================================
