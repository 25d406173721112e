---------------------------- MODULE VideoEncoder ----------------------------
(***************************************************************************)
(* An encoder session (remoteway-encode/src/encoder.rs and the three       *)
(* backends) from the moment `new` has returned: the keyframe request, the *)
(* two slots of reference pictures, the numbers the pictures carry, and    *)
(* what a decoder makes of the access units the session has returned.      *)
(*                                                                         *)
(* encode() takes &mut self and waits for the GPU, so calls do not overlap *)
(* but any of them can fail at any of its `?`, before or after the GPU has *)
(* written the setup slot.  The caller then goes on with the next frame.   *)
(*                                                                         *)
(* The decoder is external: it is given every access unit and nothing      *)
(* else, starts a new sequence at an IDR picture, and finds the reference  *)
(* of any other picture by the number the bitstream names.                 *)
(***************************************************************************)
EXTENDS Integers

CONSTANTS
  Codecs,         \* which of "h264", "h265", "av1" sessions are opened for
  MaxFrames,      \* bound: access units returned
  MaxFailures,    \* bound: encode calls that return an error
  MaxRequests     \* bound: calls of request_keyframe

ASSUME EncoderAssumption ==
  /\ Codecs \subseteq {"h264", "h265", "av1"}
  /\ MaxFrames \in Nat /\ MaxFailures \in Nat /\ MaxRequests \in Nat

H264 == INSTANCE H264Encoder
H265 == INSTANCE H265Encoder
Av1 == INSTANCE Av1Encoder

NoSlot == -1
Slots == {0, 1}

\* A picture in a slot: which frame, and whether its access unit was returned.
NoPicture == [n |-> -1, returned |-> FALSE]
Picture == [n : 0 .. MaxFrames, returned : BOOLEAN] \cup {NoPicture}

\* What the decoder has last decoded: the frame, the number it knows it by, the
\* frame at which the sequence started, and what the GPU was told of it.
NothingDecoded == [n |-> -1, number |-> 0, start |-> -1, told |-> <<>>]

NoCall == [idr |-> FALSE, setup |-> NoSlot, ref |-> NoSlot]

VARIABLES
  codec,
  frame_index,
  order_hint,       \* AV1 only
  force_keyframe,
  prior_ref_slot,
  dpb,              \* what the slots hold
  pc,               \* how far the running encode() is, or "idle"
  cur,              \* its locals: is_idr, setup_slot, ref_slot
  decoder,          \* external: the state of the decoder
  asked,            \* the last request_keyframe: "no", "yes", or "lost" by a failed call
  failures, requests

vars == <<codec, frame_index, order_hint, force_keyframe, prior_ref_slot, dpb, pc, cur,
          decoder, asked, failures, requests>>

TypeOK ==
  /\ codec \in Codecs
  /\ frame_index \in 0 .. MaxFrames
  /\ order_hint \in 0 .. 255
  /\ force_keyframe \in BOOLEAN
  /\ prior_ref_slot \in Slots \cup {NoSlot}
  /\ dpb \in [Slots -> Picture]
  /\ pc \in {"idle", "record", "submit", "readback"}
  /\ cur \in [idr : BOOLEAN, setup : Slots \cup {NoSlot}, ref : Slots \cup {NoSlot}]
  /\ decoder.n \in -1 .. MaxFrames
  /\ asked \in {"no", "yes", "lost"}
  /\ failures \in 0 .. MaxFailures /\ requests \in 0 .. MaxRequests

Init ==
  /\ codec \in Codecs
  /\ frame_index = 0 /\ order_hint = 0 /\ force_keyframe = FALSE
  /\ prior_ref_slot = NoSlot
  /\ dpb = [s \in Slots |-> NoPicture]
  /\ pc = "idle" /\ cur = NoCall
  /\ decoder = NothingDecoded
  /\ asked = "no" /\ failures = 0 /\ requests = 0

-----------------------------------------------------------------------------
setup_slot(prior) ==
  CASE codec = "h264" -> H264!setup_slot(prior)
    [] codec = "h265" -> H265!setup_slot(prior)
    [] codec = "av1"  -> Av1!setup_slot(prior)

request_keyframe ==
  /\ pc = "idle" /\ requests < MaxRequests
  /\ force_keyframe' = TRUE
  /\ asked' = "yes" /\ requests' = requests + 1
  /\ UNCHANGED <<codec, frame_index, order_hint, prior_ref_slot, dpb, pc, cur, decoder, failures>>

\* A frame of another size is refused before anything has changed.
RefuseSize ==
  /\ pc = "idle" /\ failures < MaxFailures
  /\ failures' = failures + 1
  /\ UNCHANGED <<codec, frame_index, order_hint, force_keyframe, prior_ref_slot, dpb, pc, cur,
                 decoder, asked, requests>>

\* Mutants: the request is forgotten; the first frame is nothing special.
is_idr_unasked == frame_index = 0
is_idr_asked == force_keyframe

is_idr == frame_index = 0 \/ force_keyframe

\* The request is taken out of the flag here, before anything that can fail.
StartEncode ==
  /\ pc = "idle" /\ frame_index < MaxFrames
  /\ cur' = [idr |-> is_idr, setup |-> setup_slot(prior_ref_slot),
             ref |-> IF is_idr THEN NoSlot ELSE prior_ref_slot]
  /\ force_keyframe' = FALSE
  /\ pc' = "record"
  /\ UNCHANGED <<codec, frame_index, order_hint, prior_ref_slot, dpb, decoder, asked,
                 failures, requests>>

\* The command buffer is recorded; a buffer left half recorded by a failed call
\* is reset by the next one.
RecordCommands ==
  /\ pc = "record" /\ pc' = "submit"
  /\ UNCHANGED <<codec, frame_index, order_hint, force_keyframe, prior_ref_slot, dpb, cur,
                 decoder, asked, failures, requests>>

\* The GPU writes the reconstructed picture to the setup slot.
GpuEncodes == dpb' = [dpb EXCEPT ![cur.setup] = [n |-> frame_index, returned |-> FALSE]]

SubmitAndWait ==
  /\ pc = "submit" /\ pc' = "readback"
  /\ GpuEncodes
  /\ UNCHANGED <<codec, frame_index, order_hint, force_keyframe, prior_ref_slot, cur,
                 decoder, asked, failures, requests>>

\* encode() returns an error: nothing of self but the flag has changed.  A call
\* that fails while it waits may leave the slot written or not.
FailEncode ==
  /\ pc # "idle" /\ failures < MaxFailures
  /\ pc' = "idle" /\ cur' = NoCall
  /\ dpb' = dpb \/ (pc = "submit" /\ GpuEncodes)
  /\ asked' = IF asked = "yes" THEN "lost" ELSE asked
  /\ failures' = failures + 1
  /\ UNCHANGED <<codec, frame_index, order_hint, force_keyframe, prior_ref_slot, decoder, requests>>

-----------------------------------------------------------------------------
(* The number a picture carries, and the number it names as its reference. *)

Info ==
  CASE codec = "h264" -> H264!picture_info(frame_index, cur.idr, cur.ref)
    [] codec = "h265" -> H265!picture_info(frame_index, cur.idr, cur.ref)
    [] codec = "av1"  -> Av1!picture_info(order_hint, cur.idr, cur.ref)

References ==
  CASE codec = "h264" -> H264!reference_info(Info, frame_index)
    [] codec = "h265" -> H265!reference_info(Info, frame_index)
    [] codec = "av1"  -> Av1!reference_info(Info, order_hint)

\* External: an H.264 picture follows the one numbered one less, an H.265 picture
\* names the distance to its reference in picture order counts; both counts start
\* at zero at an IDR picture.  An AV1 frame names the order hint.
NumberInStream ==
  CASE codec = "h264" -> Info.frame_num
    [] codec = "h265" -> IF cur.idr THEN 0 ELSE Info.PicOrderCnt % H265!build_sps(64, 64).MaxPicOrderCntLsb
    [] codec = "av1"  -> Info.order_hint

ReferenceInStream ==
  CASE codec = "h264" -> (Info.frame_num - 1) % H264!build_sps(64, 64).MaxFrameNum
    [] codec = "h265" -> (Info.PicOrderCnt + H265!build_sps(64, 64).short_term_ref_pic_set[1])
                           % H265!build_sps(64, 64).MaxPicOrderCntLsb
    [] codec = "av1"  -> Info.ref_order_hint

\* encode() returns the access unit, and the decoder takes it.
FinishEncode ==
  /\ pc = "readback" /\ pc' = "idle" /\ cur' = NoCall
  /\ frame_index' = frame_index + 1
  /\ order_hint' = IF codec = "av1" THEN Av1!next_order_hint(order_hint) ELSE order_hint
  /\ prior_ref_slot' = cur.setup
  /\ dpb' = [dpb EXCEPT ![cur.setup].returned = TRUE]
  /\ decoder' = [n |-> frame_index, number |-> NumberInStream,
                 start |-> IF cur.idr THEN frame_index ELSE decoder.start,
                 told |-> References.setup]
  /\ asked' = "no"
  /\ UNCHANGED <<codec, force_keyframe, failures, requests>>

\* The session is closed, or the caller gives up.
Done ==
  /\ pc = "idle" /\ frame_index = MaxFrames
  /\ UNCHANGED vars

Next ==
  \/ request_keyframe \/ RefuseSize \/ StartEncode \/ RecordCommands \/ SubmitAndWait
  \/ FailEncode \/ FinishEncode \/ Done

Spec == Init /\ [][Next]_vars

-----------------------------------------------------------------------------
(* Properties *)

\* While a picture is predicted, its reference is the picture whose access unit
\* was returned last, in another slot than the one being written, and it is what
\* the decoder decoded last; failed calls and their half-written slots do not
\* come between (prior_ref_slot and frame_index move only when encode succeeds).
PredictsFromReturned ==
  pc # "idle" /\ ~cur.idr =>
    /\ cur.ref \in Slots /\ cur.ref # cur.setup
    /\ dpb[cur.ref] = [n |-> frame_index - 1, returned |-> TRUE]
    /\ decoder.n = frame_index - 1

\* The first access unit of a session is an IDR picture, however many calls fail
\* before it ("The first encoded frame after `new` MUST be an IDR/keyframe").
StartsWithKeyframe == [][decoder = NothingDecoded /\ decoder' # decoder => cur.idr]_vars

\* A picture names, in the numbers of its bitstream, the picture the decoder has,
\* and the GPU is told of the reference what it was told when it was written: for
\* AV1 in every case, for H.264 and H.265 as long as no IDR picture was forced
\* after the first one; across the wrap-around of every counter.
NamesItsReference ==
  [][decoder' # decoder /\ ~cur.idr /\ (codec = "av1" \/ decoder.start = 0)
       => ReferenceInStream = decoder.number /\ References.ref = decoder.told]_vars

\* A keyframe request is answered by the next access unit, unless the call that
\* took the request out of the flag failed.
RequestAnswered == [][decoder' # decoder /\ asked = "yes" => cur.idr]_vars
=============================================================================
