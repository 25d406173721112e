------------------------ MODULE VideoEncoder_proofs ------------------------
(***************************************************************************)
(* What an encoder session promises, proved for every set of codecs and    *)
(* for any number of frames, failures and requests: no wrap-around of a    *)
(* counter is out of reach here.                                           *)
(***************************************************************************)
EXTENDS VideoEncoder, TLAPS

-----------------------------------------------------------------------------
(* The inductive invariant. *)

\* prior_ref_slot is set as soon as a frame was returned, and that slot holds it.
SlotsFollow ==
  /\ frame_index = 0 <=> prior_ref_slot = NoSlot
  /\ prior_ref_slot # NoSlot =>
       dpb[prior_ref_slot] = [n |-> frame_index - 1, returned |-> TRUE]

\* The locals of the running call agree with the fields they were computed from.
CallAgrees ==
  pc # "idle" =>
    /\ frame_index < MaxFrames
    /\ cur.setup \in Slots /\ cur.setup # prior_ref_slot
    /\ cur.ref = IF cur.idr THEN NoSlot ELSE prior_ref_slot
    /\ frame_index = 0 => cur.idr

\* The GPU has written what is about to be returned.
WrittenBeforeRead ==
  pc = "readback" => dpb[cur.setup] = [n |-> frame_index, returned |-> FALSE]

\* A request is in the flag, or in the call that took it.
RequestKept ==
  asked = "yes" => IF pc = "idle" THEN force_keyframe ELSE cur.idr

\* The decoder has the frame returned last, under the number the encoder computes
\* for it when it is next used as a reference.
LastNumber ==
  IF codec = "av1" THEN (order_hint - 1) % 256
  ELSE IF codec = "h264" THEN (frame_index - 1) % 16
  ELSE (frame_index - 1) % 256

LastTold ==
  IF codec = "av1" THEN [OrderHint |-> (order_hint - 1) % 256]
  ELSE IF codec = "h264"
  THEN [FrameNum |-> (frame_index - 1) % 16, PicOrderCnt |-> (frame_index - 1) * 2]
  ELSE [PicOrderCnt |-> frame_index - 1]

DecoderFollows ==
  /\ decoder.n = frame_index - 1
  /\ frame_index # 0 /\ (codec = "av1" \/ decoder.start = 0) =>
       decoder.number = LastNumber /\ decoder.told = LastTold

IInv ==
  /\ TypeOK
  /\ SlotsFollow
  /\ CallAgrees
  /\ WrittenBeforeRead
  /\ RequestKept
  /\ DecoderFollows

-----------------------------------------------------------------------------
(* Lemmas about the operators of the encoders. *)

\* Remainders of a predecessor, for the widths the codecs use.
LEMMA Remainders ==
  ASSUME NEW i \in Nat
  PROVE  /\ ((i % 16) - 1) % 16 = (i - 1) % 16
         /\ (i + (-1)) % 256 = (i - 1) % 256
         /\ i \in 0 .. 255 => (((i + 1) % 256) - 1) % 256 = i /\ (i + 1) % 256 \in 0 .. 255
  OBVIOUS

\* A picture is never written to the slot of the picture returned last.
LEMMA SetupSlotIsOther ==
  ASSUME codec \in {"h264", "h265", "av1"}, NEW prior \in Slots \cup {NoSlot}
  PROVE  setup_slot(prior) \in Slots /\ setup_slot(prior) # prior
<1>1. CASE prior = NoSlot
  BY <1>1 DEF setup_slot, Slots, NoSlot, H264!setup_slot, H264!NoSlot, H265!setup_slot,
       H265!NoSlot, Av1!setup_slot, Av1!NoSlot
<1>2. CASE prior \in Slots
  <2>1. (prior + 1) % 2 \in Slots /\ (prior + 1) % 2 # prior /\ prior # -1
    BY <1>2 DEF Slots
  <2>. QED
    BY <2>1 DEF setup_slot, H264!setup_slot, H264!NoSlot, H264!DPB_SLOTS, H265!setup_slot,
         H265!NoSlot, H265!DPB_SLOTS, Av1!setup_slot, Av1!NoSlot, Av1!DPB_SLOTS
<1>. QED  BY <1>1, <1>2 DEF Slots

\* The number in the stream and what the driver is told of a picture are what the
\* next call computes for its reference, unless an IDR picture was forced.
LEMMA NumbersContinue ==
  ASSUME codec \in {"h264", "h265", "av1"}, frame_index \in Nat, order_hint \in 0 .. 255,
         cur.idr \in BOOLEAN, codec = "av1" \/ ~cur.idr \/ frame_index = 0
  PROVE  /\ codec = "h264" => /\ NumberInStream = frame_index % 16
                              /\ References.setup = [FrameNum |-> frame_index % 16,
                                                     PicOrderCnt |-> frame_index * 2]
         /\ codec = "h265" => /\ NumberInStream = frame_index % 256
                              /\ References.setup = [PicOrderCnt |-> frame_index]
         /\ codec = "av1" => /\ NumberInStream = order_hint
                             /\ References.setup = [OrderHint |-> order_hint]
<1>1. CASE codec = "h264"
  <2>1. Info = H264!picture_info(frame_index, cur.idr, cur.ref)
    BY <1>1 DEF Info
  <2>2. Info.frame_num = frame_index % 16 /\ Info.PicOrderCnt = frame_index * 2
    BY <2>1, <1>1 DEF H264!picture_info
  <2>. QED
    BY <2>2, <1>1 DEF NumberInStream, References, H264!reference_info
<1>2. CASE codec = "h265"
  <2>1. Info = H265!picture_info(frame_index, cur.idr, cur.ref)
    BY <1>2 DEF Info
  <2>2. Info.PicOrderCnt = frame_index
    BY <2>1, <1>2 DEF H265!picture_info
  <2>3. H265!build_sps(64, 64).MaxPicOrderCntLsb = 256
    BY DEF H265!build_sps
  <2>. QED
    BY <2>2, <2>3, <1>2 DEF NumberInStream, References, H265!reference_info
<1>3. CASE codec = "av1"
  <2>1. Info = Av1!picture_info(order_hint, cur.idr, cur.ref)
    BY <1>3 DEF Info
  <2>2. Info.order_hint = order_hint
    BY <2>1, <1>3 DEF Av1!picture_info
  <2>. QED
    BY <2>2, <1>3 DEF NumberInStream, References, Av1!reference_info
<1>. QED  BY <1>1, <1>2, <1>3

\* What a predicted picture names as its reference, in the stream and to the driver.
LEMMA ReferenceNamed ==
  ASSUME codec \in {"h264", "h265", "av1"}, frame_index \in Nat, order_hint \in 0 .. 255,
         cur.idr = FALSE, cur.ref # NoSlot
  PROVE  ReferenceInStream = LastNumber /\ References.ref = LastTold
<1>1. CASE codec = "h264"
  <2>1. Info = H264!picture_info(frame_index, cur.idr, cur.ref)
    BY <1>1 DEF Info
  <2>2. Info.frame_num = frame_index % 16
    BY <2>1 DEF H264!picture_info
  <2>3. H264!build_sps(64, 64).MaxFrameNum = 16
    BY DEF H264!build_sps
  <2>. QED
    BY <2>2, <2>3, <1>1, Remainders
       DEF ReferenceInStream, References, H264!reference_info, LastNumber, LastTold
<1>2. CASE codec = "h265"
  <2>1. Info = H265!picture_info(frame_index, cur.idr, cur.ref)
    BY <1>2 DEF Info
  <2>2. Info.PicOrderCnt = frame_index
    BY <2>1 DEF H265!picture_info
  <2>3. /\ H265!build_sps(64, 64).MaxPicOrderCntLsb = 256
        /\ H265!build_sps(64, 64).short_term_ref_pic_set[1] = -1
    BY DEF H265!build_sps
  <2>. QED
    BY <2>2, <2>3, <1>2, Remainders
       DEF ReferenceInStream, References, H265!reference_info, LastNumber, LastTold
<1>3. CASE codec = "av1"
  <2>1. Info = Av1!picture_info(order_hint, cur.idr, cur.ref)
    BY <1>3 DEF Info
  <2>2. Info.ref_order_hint = (order_hint - 1) % 256
    BY <2>1 DEF Av1!picture_info, Av1!NoSlot, NoSlot, Av1!OrderHints
  <2>. QED
    BY <2>2, <1>3
       DEF ReferenceInStream, References, Av1!reference_info, Av1!OrderHints, LastNumber, LastTold
<1>. QED  BY <1>1, <1>2, <1>3

\* A picture whose access unit is returned stays the same picture.
LEMMA MarkReturned ==
  ASSUME NEW p, NEW i \in Nat, p = [n |-> i, returned |-> FALSE]
  PROVE  [p EXCEPT !.returned = TRUE] = [n |-> i, returned |-> TRUE]
<1>. DEFINE q == [p EXCEPT !.returned = TRUE]
<1>1. p \in [n : Nat, returned : BOOLEAN]  OBVIOUS
<1>2. q \in [n : Nat, returned : BOOLEAN]  BY <1>1
<1>3. q.n = i /\ q.returned = TRUE  BY <1>1
<1>. HIDE DEF q
<1>4. q = [n |-> i, returned |-> TRUE]  BY <1>2, <1>3
<1>. QED  BY <1>4 DEF q

-----------------------------------------------------------------------------
(* The invariant. *)

\* Everything a session is created with is in place when `new` returns.
LEMMA Initially == Init => IInv
<1>. SUFFICES ASSUME Init PROVE IInv
  OBVIOUS
<1>. USE DEF Init, NoSlot, Slots, NoCall, NothingDecoded
<1>1. TypeOK
  <2>1. dpb \in [Slots -> Picture]  BY DEF Picture
  <2>2. cur \in [idr : BOOLEAN, setup : Slots \cup {NoSlot}, ref : Slots \cup {NoSlot}]
    OBVIOUS
  <2>3. decoder.n \in -1 .. MaxFrames
    <3>1. decoder.n = -1  OBVIOUS
    <3>. QED  BY <3>1, EncoderAssumption
  <2>4. /\ codec \in Codecs /\ frame_index \in 0 .. MaxFrames /\ order_hint \in 0 .. 255
        /\ prior_ref_slot \in Slots \cup {NoSlot}
    BY EncoderAssumption
  <2>6. force_keyframe \in BOOLEAN  BY Zenon
  <2>5. /\ pc \in {"idle", "record", "submit", "readback"} /\ asked \in {"no", "yes", "lost"}
        /\ failures \in 0 .. MaxFailures /\ requests \in 0 .. MaxRequests
    BY EncoderAssumption
  <2>. QED  BY <2>1, <2>2, <2>3, <2>4, <2>5, <2>6, Zenon DEF TypeOK
<1>2. SlotsFollow /\ CallAgrees /\ WrittenBeforeRead /\ RequestKept
  BY DEF SlotsFollow, CallAgrees, WrittenBeforeRead, RequestKept
<1>3. DecoderFollows  BY DEF DecoderFollows
<1>. QED  BY <1>1, <1>2, <1>3 DEF IInv

\* The GPU's write puts the frame under way in the setup slot and nowhere else.
LEMMA GpuWritesSetup ==
  ASSUME TypeOK, CallAgrees, pc # "idle", GpuEncodes, frame_index \in Nat
  PROVE  /\ dpb' \in [Slots -> Picture]
         /\ dpb'[cur.setup] = [n |-> frame_index, returned |-> FALSE]
         /\ \A s \in Slots \ {cur.setup} : dpb'[s] = dpb[s]
<1>1. [n |-> frame_index, returned |-> FALSE] \in Picture
  BY DEF TypeOK, Picture
<1>. QED  BY <1>1 DEF GpuEncodes, TypeOK, CallAgrees

\* Every step of a session, failed calls included, keeps the invariant.
LEMMA EachStep == IInv /\ [Next]_vars => IInv'
<1>. SUFFICES ASSUME IInv, [Next]_vars PROVE IInv'
  OBVIOUS
<1>. USE EncoderAssumption
<1>0. TypeOK /\ SlotsFollow /\ CallAgrees /\ WrittenBeforeRead /\ RequestKept /\ DecoderFollows
  BY DEF IInv
<1>c. codec \in {"h264", "h265", "av1"} /\ frame_index \in Nat
  BY <1>0 DEF TypeOK
<1>1. CASE request_keyframe
  <2>. USE <1>1 DEF request_keyframe
  <2>1. TypeOK'  BY <1>0 DEF TypeOK
  <2>2. SlotsFollow'  BY <1>0 DEF SlotsFollow, TypeOK
  <2>3. CallAgrees'  BY <1>0 DEF CallAgrees, TypeOK
  <2>4. WrittenBeforeRead'  BY <1>0 DEF WrittenBeforeRead, TypeOK
  <2>5. RequestKept'  BY <1>0 DEF RequestKept, TypeOK
  <2>6. DecoderFollows'  BY <1>0 DEF DecoderFollows, LastNumber, LastTold, TypeOK
  <2>. QED  BY <2>1, <2>2, <2>3, <2>4, <2>5, <2>6 DEF IInv
<1>2. CASE RefuseSize
  <2>. USE <1>2 DEF RefuseSize
  <2>1. TypeOK'  BY <1>0 DEF TypeOK
  <2>2. SlotsFollow'  BY <1>0 DEF SlotsFollow, TypeOK
  <2>3. CallAgrees'  BY <1>0 DEF CallAgrees, TypeOK
  <2>4. WrittenBeforeRead'  BY <1>0 DEF WrittenBeforeRead, TypeOK
  <2>5. RequestKept'  BY <1>0 DEF RequestKept, TypeOK
  <2>6. DecoderFollows'  BY <1>0 DEF DecoderFollows, LastNumber, LastTold, TypeOK
  <2>. QED  BY <2>1, <2>2, <2>3, <2>4, <2>5, <2>6 DEF IInv
<1>3. CASE StartEncode
  <2>. USE <1>3 DEF StartEncode
  <2>0. is_idr \in BOOLEAN  BY DEF is_idr
  <2>a. setup_slot(prior_ref_slot) \in Slots /\ setup_slot(prior_ref_slot) # prior_ref_slot
    BY <1>0, <1>c, SetupSlotIsOther DEF TypeOK
  <2>b. /\ cur' \in [idr : BOOLEAN, setup : Slots \cup {NoSlot}, ref : Slots \cup {NoSlot}]
        /\ cur'.idr = is_idr
        /\ cur'.setup = setup_slot(prior_ref_slot)
        /\ cur'.ref = IF is_idr THEN NoSlot ELSE prior_ref_slot
    BY <1>0, <2>0, <2>a DEF TypeOK
  <2>1. TypeOK'  BY <1>0, <2>b DEF TypeOK
  <2>2. SlotsFollow'  BY <1>0 DEF SlotsFollow
  <2>3. CallAgrees'  BY <1>0, <1>c, <2>0, <2>a, <2>b DEF CallAgrees, is_idr
  <2>4. WrittenBeforeRead'  BY DEF WrittenBeforeRead
  <2>5. RequestKept'  BY <1>0, <2>b DEF RequestKept, is_idr
  <2>6. DecoderFollows'  BY <1>0 DEF DecoderFollows, LastNumber, LastTold
  <2>. QED  BY <2>1, <2>2, <2>3, <2>4, <2>5, <2>6 DEF IInv
<1>4. CASE RecordCommands
  <2>. USE <1>4 DEF RecordCommands
  <2>1. TypeOK'  BY <1>0 DEF TypeOK
  <2>2. SlotsFollow'  BY <1>0 DEF SlotsFollow, TypeOK
  <2>3. CallAgrees'  BY <1>0 DEF CallAgrees, TypeOK
  <2>4. WrittenBeforeRead'  BY <1>0 DEF WrittenBeforeRead, TypeOK
  <2>5. RequestKept'  BY <1>0 DEF RequestKept, TypeOK
  <2>6. DecoderFollows'  BY <1>0 DEF DecoderFollows, LastNumber, LastTold, TypeOK
  <2>. QED  BY <2>1, <2>2, <2>3, <2>4, <2>5, <2>6 DEF IInv
<1>5. CASE SubmitAndWait
  <2>. USE <1>5 DEF SubmitAndWait
  <2>a. dpb' \in [Slots -> Picture] /\ WrittenBeforeRead'
        /\ \A s \in Slots \ {cur.setup} : dpb'[s] = dpb[s]
    BY <1>0, <1>c, GpuWritesSetup DEF WrittenBeforeRead
  <2>1. TypeOK'  BY <1>0, <2>a DEF TypeOK
  <2>2. SlotsFollow'  BY <1>0, <2>a DEF SlotsFollow, CallAgrees, TypeOK
  <2>3. CallAgrees'  BY <1>0 DEF CallAgrees
  <2>4. RequestKept'  BY <1>0 DEF RequestKept
  <2>5. DecoderFollows'  BY <1>0 DEF DecoderFollows, LastNumber, LastTold
  <2>. QED  BY <2>a, <2>1, <2>2, <2>3, <2>4, <2>5 DEF IInv
<1>6. CASE FailEncode
  <2>. USE <1>6 DEF FailEncode
  <2>a. dpb' \in [Slots -> Picture]
        /\ \A s \in Slots \ {cur.setup} : dpb'[s] = dpb[s]
    BY <1>0, <1>c, GpuWritesSetup DEF TypeOK
  <2>1. TypeOK'  BY <1>0, <2>a DEF TypeOK, NoCall
  <2>2. SlotsFollow'  BY <1>0, <2>a DEF SlotsFollow, CallAgrees, TypeOK
  <2>3. CallAgrees' /\ WrittenBeforeRead'  BY DEF CallAgrees, WrittenBeforeRead
  <2>4. RequestKept'  BY DEF RequestKept
  <2>5. DecoderFollows'  BY <1>0 DEF DecoderFollows, LastNumber, LastTold
  <2>. QED  BY <2>1, <2>2, <2>3, <2>4, <2>5 DEF IInv
<1>7. CASE FinishEncode
  <2>. USE <1>7 DEF FinishEncode
  <2>a. /\ frame_index + 1 \in 1 .. MaxFrames /\ cur.setup \in Slots
        /\ dpb[cur.setup] = [n |-> frame_index, returned |-> FALSE]
        /\ cur.idr \in BOOLEAN
    BY <1>0, <1>c DEF CallAgrees, WrittenBeforeRead, TypeOK
  <2>b. dpb' \in [Slots -> Picture] /\ dpb'[cur.setup] = [n |-> frame_index, returned |-> TRUE]
    <3>1. [dpb[cur.setup] EXCEPT !.returned = TRUE] = [n |-> frame_index, returned |-> TRUE]
      BY <2>a, <1>c, MarkReturned
    <3>2. [n |-> frame_index, returned |-> TRUE] \in Picture
      BY <2>a, <1>c DEF Picture
    <3>3. dpb' = [dpb EXCEPT ![cur.setup] = [n |-> frame_index, returned |-> TRUE]]
      BY <3>1
    <3>. QED  BY <2>a, <3>2, <3>3, <1>0 DEF TypeOK
  <2>c. order_hint' \in 0 .. 255 /\ (codec = "av1" => (order_hint' - 1) % 256 = order_hint)
    <3>1. order_hint \in Nat /\ order_hint \in 0 .. 255  BY <1>0 DEF TypeOK
    <3>2. CASE codec = "av1"
      <4>1. order_hint' = (order_hint + 1) % 256
        BY <3>2 DEF Av1!next_order_hint, Av1!OrderHints
      <4>. QED  BY <4>1, <3>1, Remainders
    <3>3. CASE codec # "av1"
      BY <3>3, <3>1
    <3>. QED  BY <3>2, <3>3
  <2>1. TypeOK'
    <3>1. decoder'.n = frame_index  OBVIOUS
    <3>2. cur' \in [idr : BOOLEAN, setup : Slots \cup {NoSlot}, ref : Slots \cup {NoSlot}]
      BY DEF NoCall
    <3>. QED  BY <1>0, <1>c, <2>a, <2>b, <2>c, <3>1, <3>2 DEF TypeOK
  <2>2. SlotsFollow'
    <3>1. prior_ref_slot' = cur.setup /\ cur.setup # NoSlot
      BY <2>a DEF Slots, NoSlot
    <3>2. frame_index' # 0 /\ frame_index' - 1 = frame_index
      BY <1>c
    <3>. QED  BY <2>b, <3>1, <3>2 DEF SlotsFollow
  <2>3. CallAgrees' /\ WrittenBeforeRead' /\ RequestKept'
    BY DEF CallAgrees, WrittenBeforeRead, RequestKept
  <2>4. DecoderFollows'
    <3>1. /\ decoder'.n = frame_index' - 1 /\ frame_index' - 1 = frame_index
          /\ decoder'.number = NumberInStream /\ decoder'.told = References.setup
          /\ decoder'.start = IF cur.idr THEN frame_index ELSE decoder.start
          /\ codec' = codec
      BY <1>c
    <3>2. SUFFICES ASSUME codec = "av1" \/ decoder'.start = 0
                   PROVE  decoder'.number = LastNumber' /\ decoder'.told = LastTold'
      BY <3>1 DEF DecoderFollows
    <3>3. codec = "av1" \/ ~cur.idr \/ frame_index = 0
      BY <3>1, <3>2
    <3>4. order_hint \in 0 .. 255  BY <1>0 DEF TypeOK
    <3>. QED
      BY <1>c, <2>a, <2>c, <3>1, <3>3, <3>4, NumbersContinue DEF LastNumber, LastTold
  <2>. QED  BY <2>1, <2>2, <2>3, <2>4 DEF IInv
<1>8. CASE Done \/ UNCHANGED vars
  <2>1. UNCHANGED vars  BY <1>8 DEF Done
  <2>. QED
    BY <2>1, <1>0 DEF vars, IInv, TypeOK, SlotsFollow, CallAgrees, WrittenBeforeRead, RequestKept,
         DecoderFollows, LastNumber, LastTold
<1>. QED  BY <1>1, <1>2, <1>3, <1>4, <1>5, <1>6, <1>7, <1>8 DEF Next

-----------------------------------------------------------------------------
(* The theorems. *)

\* The type invariant, for sessions of any length.
THEOREM TypeCorrect == Spec => []TypeOK
<1>1. IInv => TypeOK  BY DEF IInv
<1>. QED  BY <1>1, Initially, EachStep, PTL DEF Spec

\* Whatever calls fail, at whatever step, a picture is predicted only from the
\* picture that was returned last, which sits in another slot than the one being
\* written and is the one the decoder has.
THEOREM ReferencesAreReturned == Spec => []PredictsFromReturned
<1>1. IInv => PredictsFromReturned
  <2>. SUFFICES ASSUME IInv, pc # "idle", ~cur.idr
                PROVE  /\ cur.ref \in Slots /\ cur.ref # cur.setup
                       /\ dpb[cur.ref] = [n |-> frame_index - 1, returned |-> TRUE]
                       /\ decoder.n = frame_index - 1
    BY DEF PredictsFromReturned
  <2>1. frame_index # 0 /\ cur.ref = prior_ref_slot /\ cur.setup # prior_ref_slot
    BY DEF IInv, CallAgrees
  <2>. QED
    BY <2>1 DEF IInv, TypeOK, SlotsFollow, DecoderFollows
<1>. QED  BY <1>1, Initially, EachStep, PTL DEF Spec

\* The first access unit of every session is a keyframe.
THEOREM SessionStartsWithKeyframe == Spec => StartsWithKeyframe
<1>1. IInv /\ [Next]_vars => [decoder = NothingDecoded /\ decoder' # decoder => cur.idr]_vars
  <2>. SUFFICES ASSUME IInv, [Next]_vars, decoder = NothingDecoded, decoder' # decoder
                PROVE  cur.idr
    OBVIOUS
  <2>1. pc = "readback"
    BY DEF Next, vars, request_keyframe, RefuseSize, StartEncode, RecordCommands, SubmitAndWait,
         FailEncode, FinishEncode, Done
  <2>2. frame_index = 0
    BY EncoderAssumption DEF IInv, TypeOK, DecoderFollows, NothingDecoded
  <2>. QED  BY <2>1, <2>2 DEF IInv, CallAgrees
<1>. QED  BY <1>1, Initially, EachStep, PTL DEF Spec, StartsWithKeyframe

\* A keyframe request is answered by the next access unit unless the call that
\* took it failed.
THEOREM RequestIsAnswered == Spec => RequestAnswered
<1>1. IInv /\ [Next]_vars => [decoder' # decoder /\ asked = "yes" => cur.idr]_vars
  <2>. SUFFICES ASSUME IInv, [Next]_vars, asked = "yes", decoder' # decoder
                PROVE  cur.idr
    OBVIOUS
  <2>1. pc = "readback"
    BY DEF Next, vars, request_keyframe, RefuseSize, StartEncode, RecordCommands, SubmitAndWait,
         FailEncode, FinishEncode, Done
  <2>. QED  BY <2>1 DEF IInv, RequestKept
<1>. QED  BY <1>1, Initially, EachStep, PTL DEF Spec, RequestAnswered

\* In streams of any length, past every wrap-around, a predicted picture names the
\* picture the decoder has, and the driver is told of the reference what it was
\* told when that picture was written.
THEOREM ReferenceIsNamed == Spec => NamesItsReference
<1>1. IInv /\ [Next]_vars =>
        [decoder' # decoder /\ ~cur.idr /\ (codec = "av1" \/ decoder.start = 0)
           => ReferenceInStream = decoder.number /\ References.ref = decoder.told]_vars
  <2>. SUFFICES ASSUME IInv, [Next]_vars, decoder' # decoder, ~cur.idr,
                       codec = "av1" \/ decoder.start = 0
                PROVE  ReferenceInStream = decoder.number /\ References.ref = decoder.told
    OBVIOUS
  <2>1. pc = "readback"
    BY DEF Next, vars, request_keyframe, RefuseSize, StartEncode, RecordCommands, SubmitAndWait,
         FailEncode, FinishEncode, Done
  <2>2. /\ codec \in {"h264", "h265", "av1"} /\ frame_index \in Nat
        /\ order_hint \in 0 .. 255 /\ cur.idr = FALSE
    BY EncoderAssumption DEF IInv, TypeOK
  <2>3. frame_index # 0 /\ cur.ref # NoSlot
    BY <2>1 DEF IInv, CallAgrees, SlotsFollow
  <2>4. ReferenceInStream = LastNumber /\ References.ref = LastTold
    BY <2>2, <2>3, ReferenceNamed
  <2>. QED  BY <2>3, <2>4 DEF IInv, DecoderFollows
<1>. QED  BY <1>1, Initially, EachStep, PTL DEF Spec, NamesItsReference
=============================================================================
