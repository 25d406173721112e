---------------------------- MODULE H265Encoder ----------------------------
(***************************************************************************)
(* The H.265 backend (remoteway-encode/src/backends/h265.rs): what its     *)
(* functions call in which order, and how it numbers pictures.             *)
(***************************************************************************)
EXTENDS GpuCalls, Integers

DPB_SLOTS == 2

\* Option<usize>::None for a slot.
NoSlot == -1

\* How many allocations the driver asks for in a session (external).
SessionMemory == {<<"session_memory", 0>>, <<"session_memory", 1>>}

Session == <<"session">>
SessionParams == <<"session_params">>
OutBuffer == <<"out_buffer">>
OutMemory == <<"out_buffer_memory">>
QueryPool == <<"query_pool">>
CmdPool == <<"encode_cmd_pool">>
Cmd == <<"encode_cmd">>
Fence == <<"encode_fence">>
DpbImage(s) == <<"dpb_image", s>>
DpbMemory(s) == <<"dpb_memory", s>>
DpbView(s) == <<"dpb_view", s>>
InputView(image) == <<"input_view", image>>

\* What Self holds once new has returned.
Fields ==
  SessionMemory \cup {Session, SessionParams, OutBuffer, OutMemory, QueryPool, CmdPool, Cmd, Fence}
    \cup UNION {{DpbImage(s), DpbMemory(s), DpbView(s)} : s \in 0 .. DPB_SLOTS - 1}

-----------------------------------------------------------------------------
(* Helpers *)

bind_session_memory ==
  <<Try({Session}), Try({Session}),
    Try({}), Make(<<"session_memory", 0>>, {Device}),
    Try({}), Make(<<"session_memory", 1>>, {Device}),
    Try(SessionMemory \cup {Session})>>

fetch_parameter_sets_blob == <<Try({SessionParams}), Try({SessionParams})>>

create_image_view(view, image) == <<Make(view, {image})>>

create_dpb_slot(s) ==
  <<MakeImage(DpbImage(s), 0), Try({}), Make(DpbMemory(s), {Device}),
    Try({DpbImage(s), DpbMemory(s)})>> \o create_image_view(DpbView(s), DpbImage(s))

create_dpb_pool == create_dpb_slot(0) \o create_dpb_slot(1)

create_output_buffer ==
  <<Make(OutBuffer, {Device}), Try({}), Make(OutMemory, {Device}), Try({OutBuffer, OutMemory})>>

create_encode_query_pool == <<Make(QueryPool, {Device})>>

\* The barrier that transition_dpb_to_initial_layout records for a slot.
cmd_transition(cmd, image) == <<Barrier(cmd, image, "UNDEFINED", "VIDEO_ENCODE_DPB")>>

\* Both one-shot submissions make a command buffer and a fence of their own.
transition_dpb_to_initial_layout ==
  <<Make(<<"init_cmd">>, {CmdPool}), Begin(<<"init_cmd">>)>>
    \o cmd_transition(<<"init_cmd">>, DpbImage(0)) \o cmd_transition(<<"init_cmd">>, DpbImage(1))
    \o <<Try({<<"init_cmd">>}), Make(<<"init_fence">>, {Device}),
         Submit(<<"init_cmd">>, <<"init_fence">>),
         Free(<<"init_fence">>), Free(<<"init_cmd">>)>>

initialize_rate_control ==
  <<Make(<<"rc_cmd">>, {CmdPool}), Begin(<<"rc_cmd">>),
    Use({<<"rc_cmd">>, Session, SessionParams}),
    Try({<<"rc_cmd">>}), Make(<<"rc_fence">>, {Device}),
    Submit(<<"rc_cmd">>, <<"rc_fence">>),
    Free(<<"rc_fence">>), Free(<<"rc_cmd">>)>>

-----------------------------------------------------------------------------
(* The Encoder trait *)

\* The codec, capability and queue checks come before anything is created.
new ==
  <<Try({}), Try({Device}), Try({}), Try({}), Make(Session, {Device})>> \o bind_session_memory
    \o <<Make(SessionParams, {Session})>> \o fetch_parameter_sets_blob
    \o create_dpb_pool \o create_output_buffer \o create_encode_query_pool
    \o <<Make(CmdPool, {Device}), Make(Cmd, {CmdPool}), Make(Fence, {Device})>>
    \o transition_dpb_to_initial_layout \o initialize_rate_control
    \o <<Keep(Fields)>>

\* The setup slot and the slot of the reference are bound together.
begin_coding ==
  <<Try({CmdPool}), Begin(Cmd), Binds(Cmd, {DpbImage(0), DpbImage(1)}, "VIDEO_ENCODE_DPB"),
    Use({Cmd, QueryPool, Session, SessionParams, DpbView(0), DpbView(1)})>>

\* Recording; a view is made for an image that has none in input_views.
encode_record(image, cached) ==
  begin_coding
    \o (IF image \in cached THEN <<>>
        ELSE create_image_view(InputView(image), <<"input", image>>) \o <<Keep({InputView(image)})>>)
    \o <<Use({Cmd, InputView(image), OutBuffer, QueryPool}), Try({Cmd})>>

encode_submit == <<Try({Fence}), Submit(Cmd, Fence)>>

encode_readback == <<Try({QueryPool}), Try({OutMemory})>>

drop(cached) ==
  [i \in 1 .. Len(cached) |-> Free(InputView(cached[i]))]
    \o <<Free(Fence), FreeWith(CmdPool, {Cmd, <<"init_cmd">>, <<"rc_cmd">>}), Free(QueryPool),
         Free(OutBuffer), Free(OutMemory),
         Free(DpbView(0)), Free(DpbImage(0)), Free(DpbMemory(0)),
         Free(DpbView(1)), Free(DpbImage(1)), Free(DpbMemory(1)),
         Free(SessionParams), Free(Session),
         Free(<<"session_memory", 0>>), Free(<<"session_memory", 1>>)>>

-----------------------------------------------------------------------------
(* Numbering *)

\* One short-term reference picture set: the picture just before, delta POC -1.
build_sps(width, height) ==
  [MaxPicOrderCntLsb |-> 256, short_term_ref_pic_set |-> <<-1>>,
   pic_width_in_luma_samples |-> width, pic_height_in_luma_samples |-> height]

setup_slot(prior) == IF prior = NoSlot THEN 0 ELSE (prior + 1) % DPB_SLOTS

\* The count goes on through a forced IDR; P pictures use set 0 of the SPS.
picture_info(frame_index, is_idr, ref_slot) ==
  [idr |-> is_idr, reference |-> TRUE, RefPicList0 |-> ref_slot,
   short_term_ref_pic_set_sps_flag |-> ~is_idr, PicOrderCnt |-> frame_index]

\* What the driver is told of the picture it writes and of the one it reads.
reference_info(info, frame_index) ==
  [setup |-> [PicOrderCnt |-> info.PicOrderCnt], ref |-> [PicOrderCnt |-> frame_index - 1]]
=============================================================================
