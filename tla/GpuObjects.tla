----------------------------- MODULE GpuObjects -----------------------------
(***************************************************************************)
(* The life of the Vulkan objects of one component: a blit context, an FSR *)
(* backend or a video encoder is created, called, and dropped, and any     *)
(* call of the driver in between can fail.  The scripts are those of the   *)
(* component's module; this module runs them.                              *)
(*                                                                         *)
(* A component is used by one thread at a time (&mut self, or the lock of  *)
(* the context held for the whole operation), and every submission is      *)
(* waited for, so what interleaves is failures, and the caller's choice of *)
(* calls and sizes.                                                        *)
(***************************************************************************)
EXTENDS Sequences, FiniteSets, Integers

CONSTANTS
  Components,     \* which of "context", "fsr2", "fsr3", "h264", "h265", "av1"
  Sizes,          \* picture sizes (positive numbers)
  InputImages,    \* VkImage handles the caller of an encoder uses
  MaxCalls,       \* bound: operations started
  MaxFailures     \* bound: driver calls that fail

ASSUME GpuAssumption ==
  /\ Components \subseteq {"context", "fsr2", "fsr3", "h264", "h265", "av1"}
  /\ Sizes \subseteq Nat \ {0}
  /\ IsFiniteSet(InputImages) /\ MaxCalls \in Nat /\ MaxFailures \in Nat

Ctx == INSTANCE VulkanContext
Native == INSTANCE Fsr2Native
Fsr2 == INSTANCE Fsr2
Fg == INSTANCE Fsr3FrameGen
H264 == INSTANCE H264Encoder
H265 == INSTANCE H265Encoder
Av1 == INSTANCE Av1Encoder

Encoders == {"h264", "h265", "av1"}

\* The sizes Fsr3FrameGen is created with, whatever the frames are.
Render == 1
Display == 2

NoSizes == [src |-> 0, dst |-> 0]

VARIABLES
  component,
  native,       \* the FSR 2 SDK started: native_upscaler is Some
  phase,        \* "context", "new", "ready", "call", "drop", "release", "gone"
  todo,         \* what is left of the running function
  mine,         \* handles the component holds
  temp,         \* handles only the running function knows
  lost,         \* handles nobody knows any more
  parent,       \* <<child, parent>> of the live handles
  img,          \* image -> layout, whether its contents are defined, extent
  rec,          \* the same, as the commands recorded so far will leave it
  sizes,        \* arguments of the running call
  cached,       \* sizes the cached resources of Fsr2Native were made for
  calls, failures

vars == <<component, native, phase, todo, mine, temp, lost, parent, img, rec, sizes, cached,
          calls, failures>>

Phases == {"context", "new", "ready", "call", "drop", "release", "gone"}

TypeOK ==
  /\ component \in Components /\ native \in BOOLEAN /\ phase \in Phases
  /\ mine \cap temp = {}
  /\ DOMAIN img \subseteq mine \cup temp \cup lost
  /\ {e[1] : e \in parent} \subseteq mine \cup temp
  /\ sizes \in [src : Sizes \cup {0}, dst : Sizes \cup {0}]
  /\ cached \in [src : Sizes \cup {0}, dst : Sizes \cup {0}]
  /\ cached # NoSizes => Native!CachedResources \subseteq mine
  /\ calls \in 0 .. MaxCalls /\ failures \in 0 .. MaxFailures

\* The context is created first: by the backend, or by the caller of an encoder.
Init ==
  /\ component \in Components
  /\ native \in IF component = "fsr2" THEN BOOLEAN ELSE {FALSE}
  /\ phase = "context" /\ todo = Ctx!with_request
  /\ mine = {} /\ temp = {} /\ lost = {} /\ parent = {}
  /\ img = <<>> /\ rec = <<>>
  /\ sizes = NoSizes /\ cached = NoSizes
  /\ calls = 0 /\ failures = 0

-----------------------------------------------------------------------------
(* Which function runs *)

New ==
  CASE component = "context" -> <<>>
    [] component = "fsr2" -> Fsr2!with_params \o (IF native THEN Native!with_context ELSE <<>>)
    [] component = "fsr3" -> Fg!new(Render, Display)
    [] component = "h264" -> H264!new
    [] component = "h265" -> H265!new
    [] component = "av1"  -> Av1!new

View(i) == H264!InputView(i)
ViewCached == {i \in InputImages : View(i) \in mine}

Encode(i) ==
  CASE component = "h264" -> H264!encode_record(i, ViewCached) \o H264!encode_submit \o H264!encode_readback
    [] component = "h265" -> H265!encode_record(i, ViewCached) \o H265!encode_submit \o H265!encode_readback
    [] component = "av1"  -> Av1!encode_record(i, ViewCached) \o Av1!encode_submit \o Av1!encode_readback

HaveCached == cached # NoSizes

Upscale(src, dst) ==
  CASE component = "context" -> Ctx!upscale_blit(src, dst)
    [] component = "fsr2" /\ native -> Native!upscale(HaveCached, cached, src, dst)
    [] component = "fsr2" /\ ~native -> Fsr2!upscale_fallback
    [] component = "fsr3" -> Fg!generate_frame(src, Render, Display)

\* drain() gives the views in any order; the order makes no difference.
ViewSeq == CHOOSE s \in [1 .. Cardinality(ViewCached) -> ViewCached] :
             {s[k] : k \in DOMAIN s} = ViewCached

\* Drop, and the drop of the fields it leaves.
Dropped ==
  CASE component = "context" -> <<>>
    [] component = "fsr2" -> Fsr2!drop_pipelines \o Native!drop_native(HaveCached)
    [] component = "fsr3" -> Fg!drop_frame_gen
    [] component = "h264" -> H264!drop(ViewSeq)
    [] component = "h265" -> H265!drop(ViewSeq)
    [] component = "av1"  -> Av1!drop(ViewSeq)

-----------------------------------------------------------------------------
(* Steps of the running function *)

now == Head(todo)

\* The images among the handles a call makes.
NewImages(op) ==
  IF op.extent = 0 THEN op.obj \cap {H264!DpbImage(0), H264!DpbImage(1)} ELSE op.obj

Made(op) ==
  [h \in DOMAIN img \cup NewImages(op) |->
     IF h \in DOMAIN img THEN img[h]
     ELSE [layout |-> "UNDEFINED", defined |-> FALSE, extent |-> op.extent]]

Recorded(op) ==
  [h \in DOMAIN rec |->
     IF h \notin op.obj THEN rec[h]
     ELSE CASE op.op = "barrier" -> [rec[h] EXCEPT !.layout = op.to,
                                                   !.defined = rec[h].defined /\ op.from # "UNDEFINED"]
            [] op.op = "write" -> [rec[h] EXCEPT !.defined = TRUE]
            [] OTHER -> rec[h]]

\* The call at the head of todo returns, and succeeds where it can fail.  What it
\* frees is gone, except for descriptor sets their pool may keep.
CallReturns ==
  /\ todo # <<>>
  /\ todo' = Tail(todo)
  /\ CASE now.op = "make" ->
            /\ temp' = temp \cup now.obj
            /\ parent' = parent \cup (now.obj \X now.uses)
            /\ img' = Made(now)
            /\ UNCHANGED <<mine, rec, cached>>
       [] now.op = "free" ->
            /\ temp' = temp \ now.obj /\ mine' = mine \ now.obj
            /\ parent' = {e \in parent : e[1] \notin now.obj}
            /\ img' = [h \in DOMAIN img \ now.obj |-> img[h]]
            /\ UNCHANGED <<rec, cached>>
       [] now.op = "keep" ->
            /\ temp' = temp \ now.obj /\ mine' = mine \cup now.obj
            /\ cached' = IF Native!FsrCtx \in now.obj THEN sizes ELSE cached
            /\ UNCHANGED <<parent, img, rec>>
       [] now.op = "take" ->
            /\ temp' = temp \cup now.obj /\ mine' = mine \ now.obj
            /\ cached' = NoSizes
            /\ UNCHANGED <<parent, img, rec>>
       [] now.op = "begin" -> rec' = img /\ UNCHANGED <<mine, temp, parent, img, cached>>
       [] now.op = "submit" ->
            /\ img' = rec /\ rec' = <<>>
            /\ UNCHANGED <<mine, temp, parent, cached>>
       [] OTHER -> rec' = Recorded(now) /\ UNCHANGED <<mine, temp, parent, img, cached>>
  /\ \E kept \in SUBSET (IF now.op = "free" THEN now.obj \cap Fsr2!UnfreeableSets ELSE {}) :
       lost' = lost \cup kept
  /\ UNCHANGED <<component, native, phase, sizes, calls, failures>>

\* Where an error takes the component: a failed context is nothing, a failed `new`
\* lets go of the context, a failed operation leaves the component as it is.
AfterError ==
  CASE phase = "context" -> "gone"
    [] phase = "new" -> "release"
    [] phase = "call" -> "ready"

\* The call at the head of todo fails: its `undo` is destroyed and the function
\* returns.  Work handed to the GPU may have been done.
CallFails ==
  /\ todo # <<>> /\ now.fallible /\ failures < MaxFailures
  /\ phase' = AfterError
  /\ todo' = IF phase = "new" THEN Ctx!drop ELSE <<>>
  /\ lost' = lost \cup (temp \ now.undo)
  /\ temp' = {}
  /\ parent' = {e \in parent : e[1] \in mine}
  /\ \E after \in {img} \cup (IF now.op = "submit" THEN {rec} ELSE {}) :
       img' = [h \in DOMAIN after \cap mine |-> after[h]]
  /\ rec' = <<>>
  /\ failures' = failures + 1
  /\ UNCHANGED <<component, native, mine, sizes, cached, calls>>

\* The function has returned Ok.
CallEnds ==
  /\ todo = <<>> /\ phase \in {"context", "new", "call", "drop", "release"}
  /\ phase' = CASE phase = "context" -> "new"
                [] phase \in {"new", "call"} -> "ready"
                [] phase = "drop" -> "release"
                [] phase = "release" -> "gone"
  /\ todo' = CASE phase = "context" -> New
               [] phase = "drop" -> Ctx!drop
               [] OTHER -> <<>>
  /\ sizes' = NoSizes
  /\ lost' = lost \cup temp /\ temp' = {}
  /\ UNCHANGED <<component, native, mine, parent, img, rec, cached, calls, failures>>

-----------------------------------------------------------------------------
(* The caller *)

StartUpscale ==
  /\ phase = "ready" /\ component \notin Encoders /\ calls < MaxCalls
  /\ \E src, dst \in Sizes :
       sizes' = [src |-> src, dst |-> dst] /\ todo' = Upscale(src, dst)
  /\ phase' = "call" /\ calls' = calls + 1
  /\ UNCHANGED <<component, native, mine, temp, lost, parent, img, rec, cached, failures>>

StartEncode ==
  /\ phase = "ready" /\ component \in Encoders /\ calls < MaxCalls
  /\ \E i \in InputImages : todo' = Encode(i)
  /\ phase' = "call" /\ calls' = calls + 1
  /\ UNCHANGED <<component, native, mine, temp, lost, parent, img, rec, sizes, cached, failures>>

DropComponent ==
  /\ phase = "ready"
  /\ phase' = "drop" /\ todo' = Dropped
  /\ UNCHANGED <<component, native, mine, temp, lost, parent, img, rec, sizes, cached,
                 calls, failures>>

Gone == phase = "gone" /\ UNCHANGED vars

Next ==
  \/ CallReturns \/ CallFails \/ CallEnds
  \/ StartUpscale \/ StartEncode \/ DropComponent \/ Gone

Spec == Init /\ [][Next]_vars

-----------------------------------------------------------------------------
(* Properties *)

External == {<<"input", i>> : i \in InputImages}
Live == mine \cup temp \cup External

\* Every call of the driver is given live handles only: nothing is used or
\* destroyed a second time after it was destroyed, by an error path, by a rebuild
\* of the cache or by Drop; and no handle in use is overwritten by a new one.
HandlesLive ==
  todo # <<>> =>
    /\ now.uses \subseteq Live
    /\ now.undo \subseteq temp
    /\ now.op = "make" => now.obj \cap Live = {}

\* The images the code moves to GENERAL and then tells FidelityFX are in COMPUTE_READ
\* (fsr2_native.rs:751, fsr3_frame_gen.rs:580, 587, 662).
Mistold == {Native!Image("output"), Fg!Image("input_color"), Fg!Image("input_depth"),
            Fg!Image("input_mv")}

\* A barrier names the layout its image is in, or discards the contents; every
\* other command finds its images in the layout it is recorded with, and none reads
\* an image that was not filled since it was made or discarded.  Except where the
\* code breaks the rule: the four images in Mistold, given to FidelityFX while in
\* GENERAL, and in no other layout than that.  The images cached
\* by Fsr2Native and the encoders' reference slots keep layout and contents from
\* call to call, through failed ones.  (Contents not for frame generation, whose
\* InputBarriers discard what was uploaded.)
ImagesReady ==
  todo # <<>> /\ now.op \in {"barrier", "write", "read", "bind"} =>
    \A h \in now.obj :
      /\ \/ now.from = rec[h].layout
         \/ now.op = "barrier" /\ now.from = "UNDEFINED"
         \/ h \in Mistold /\ now.from = Ctx!ComputeRead /\ rec[h].layout = "GENERAL"
      /\ now.op = "read" /\ component # "fsr3" => rec[h].defined

\* A copy, blit or dispatch covers exactly the image it is recorded for.  (Not for
\* frame generation, which is created for one size and takes frames of any.)
ExtentsFit ==
  component # "fsr3" /\ todo # <<>> /\ now.op \in {"write", "read"} =>
    \A h \in now.obj : rec[h].extent = now.extent

\* No object is destroyed before the ones made from it: views before images,
\* command buffers before pools, everything before the device.  (Objects that
\* failed calls have lost are beyond reach; frame generation destroys nothing.)
ParentsOutlive ==
  component # "fsr3" /\ todo # <<>> /\ now.op = "free" =>
    \A e \in parent : e[2] \in now.obj => e[1] \in now.obj

\* As long as no call has failed, every function gives back what it made or keeps
\* it in the component, and Drop leaves nothing.  Except for the descriptor sets of
\* the FSR 2 fallback, which nothing but the pool's own destruction need free.
NoLeak ==
  /\ failures = 0 => lost \subseteq Fsr2!UnfreeableSets
  /\ phase = "gone" /\ component # "fsr3" => mine \cup temp = {}
=============================================================================
