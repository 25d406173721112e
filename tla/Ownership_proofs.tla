-------------------------- MODULE Ownership_proofs --------------------------
(***************************************************************************)
(* Proofs about who owns what, in the two modules whose subject is that:   *)
(* GpuObjects (the handles and images of the Vulkan components) and        *)
(* BufferPool (the slots of the frame pool).                               *)
(*                                                                         *)
(* GpuObjects runs the functions of six components as sequences of driver  *)
(* calls, any of which can fail.  The argument has three layers.           *)
(*   1. Ok(k, x, op) is what the call op must find in the state x, and     *)
(*      After(k, x, op) what it makes of it.  Runs(k, s, x, y) says that   *)
(*      the calls of s lead from x to y and that each of them finds what   *)
(*      it must.  Runs composes (RunsCat), so that every function of the   *)
(*      source has a lemma of its own, made of those of the functions it   *)
(*      calls, up to new, upscale or encode, and drop of each component.   *)
(*   2. GpuInv says that the rest of the running function Runs from the    *)
(*      present state to one in which the component is at rest again.  One *)
(*      call takes its head away (RunsHead); a failed one leaves the       *)
(*      component at rest because Ok asks for it at every call that can    *)
(*      fail (Rest); a new function starts with the lemma of layer 1.      *)
(*   3. The properties of GpuObjects are about the next call of the        *)
(*      running function, and are what Ok says of it.                      *)
(***************************************************************************)
EXTENDS GpuObjects, BufferPool, SequenceTheorems, FiniteSetTheorems, TLAPS

-----------------------------------------------------------------------------
(* What a call needs and does *)

\* The part of the state a call reads or changes: the component's handles m, the
\* function's handles t, the images i and as recorded r, and the sizes of the cache c.
St(m, t, i, r, c) == [m |-> m, t |-> t, i |-> i, r |-> r, c |-> c]

\* What is known of an image.
Pic(layout, defined, extent) == [layout |-> layout, defined |-> defined, extent |-> extent]

\* f without the handles hs.
Without(f, hs) == [h \in DOMAIN f \ hs |-> f[h]]

\* The recorded images after one more command.
Recording(r, op) ==
  [h \in DOMAIN r |->
     IF h \notin op.obj THEN r[h]
     ELSE CASE op.op = "barrier" -> Pic(op.to, r[h].defined /\ op.from # "UNDEFINED", r[h].extent)
            [] op.op = "write" -> Pic(r[h].layout, TRUE, r[h].extent)
            [] OTHER -> r[h]]

\* The images after a call that makes some.
Making(i, op) ==
  [h \in DOMAIN i \cup NewImages(op) |->
     IF h \in DOMAIN i THEN i[h]
     ELSE [layout |-> "UNDEFINED", defined |-> FALSE, extent |-> op.extent]]

\* The state after a call that returns Ok, for the component and function k.
After(k, x, op) ==
  CASE op.op = "make" -> St(x.m, x.t \cup op.obj, Making(x.i, op), x.r, x.c)
    [] op.op = "free" -> St(x.m \ op.obj, x.t \ op.obj, Without(x.i, op.obj), x.r, x.c)
    [] op.op = "keep" -> St(x.m \cup op.obj, x.t \ op.obj, x.i, x.r,
                            IF Native!FsrCtx \in op.obj THEN k.sizes ELSE x.c)
    [] op.op = "take" -> St(x.m \ op.obj, x.t \cup op.obj, x.i, x.r, NoSizes)
    [] op.op = "begin" -> St(x.m, x.t, x.i, x.i, x.c)
    [] op.op = "submit" -> St(x.m, x.t, x.r, <<>>, x.c)
    [] OTHER -> St(x.m, x.t, x.i, Recording(x.r, op), x.c)

\* The command buffers allocated from the context's pool.
CmdBuffers == {Ctx!BlitCmd, Native!Cmd, Native!InitCmd, Fsr2!EasuCmd, Fg!UpCmd, Fg!FgCmd}

\* h may be made from p, by some call of this code.
Origin(h, p) ==
  \/ p = Ctx!Instance /\ h = Ctx!Device
  \/ p = Ctx!Device /\ h # Ctx!Instance
  \/ p = Ctx!CommandPool /\ h \in CmdBuffers
  \/ p = Fsr2!DescPool /\ h \in {Fsr2!DescSet("easu"), Fsr2!DescSet("rcas")}
  \/ \E n : /\ n \notin {"input_view", "dpb_image", "dpb_memory", "dpb_view", "session_memory"}
            /\ p = Native!Image(n) /\ h = Native!View(n)
  \/ p = H264!Session /\ h = H264!SessionParams
  \/ p = H264!CmdPool /\ h \in {H264!Cmd, <<"init_cmd">>, <<"rc_cmd">>}
  \/ \E s : p = H264!DpbImage(s) /\ h = H264!DpbView(s)
  \/ p \in External

\* The images of the cache of Fsr2Native: as large as the sizes it was made for, and
\* the two constant ones filled once and for all.
NativeImages(m, i, c) ==
  /\ \A n \in {"color", "depth", "mv"} :
       Native!Image(n) \in DOMAIN i /\ i[Native!Image(n)].extent = c.src
  /\ \A n \in {"depth", "mv"} :
       i[Native!Image(n)].layout = "SHADER_READ_ONLY" /\ i[Native!Image(n)].defined = TRUE
  /\ Native!Image("output") \in DOMAIN i /\ i[Native!Image("output")].extent = c.dst

\* What a component that runs no function holds.
Held(k, m, c) ==
  \/ k.comp = "context" /\ m = Ctx!Fields /\ c = NoSizes
  \/ k.comp = "fsr2" /\ c = NoSizes /\ m = Ctx!Fields \cup Fsr2!PipelineFields
  \/ k.comp = "fsr2" /\ k.native /\ c # NoSizes
       /\ m = Ctx!Fields \cup Fsr2!PipelineFields \cup Native!CachedResources
  \/ k.comp = "fsr3" /\ m = Ctx!Fields \cup Fg!FrameGenFields /\ c = NoSizes
  \/ k.comp \in Encoders /\ c = NoSizes
       /\ Ctx!Fields \cup H264!Fields \subseteq m
       /\ m \subseteq Ctx!Fields \cup H264!Fields \cup {View(j) : j \in InputImages}

\* A component that runs no function can be called, or dropped.
Ready(k, m, i, c) ==
  /\ Held(k, m, c)
  /\ k.comp = "fsr2" /\ c # NoSizes => NativeImages(m, i, c)
  /\ k.comp = "fsr3" => \A n \in Fg!Images : Fg!Image(n) \in DOMAIN i
  /\ k.comp \in Encoders =>
       \A s \in {0, 1} : /\ H264!DpbImage(s) \in DOMAIN i
                         /\ i[H264!DpbImage(s)].layout = "VIDEO_ENCODE_DPB"

\* What the component is left with when the running function fails here.
Rest(k, m, i, c) ==
  \/ k.phase = "context" /\ m = {} /\ c = NoSizes
  \/ k.phase = "new" /\ m = Ctx!Fields /\ c = NoSizes
  \/ k.phase = "call" /\ Ready(k, m, i, c)

\* f is a function.
IsFcn(f) == f = [h \in DOMAIN f |-> f[h]]

\* p is what can be known of an image.
IsPic(p) == p = Pic(p.layout, p.defined, p.extent) /\ p.defined \in BOOLEAN

\* f describes images among the handles hs.
Pics(f, hs) == IsFcn(f) /\ DOMAIN f \subseteq hs /\ \A h \in DOMAIN f : IsPic(f[h])

\* The images, now and as recorded, are among the live handles.
Shape(m, t, i, r) == Pics(i, m \cup t) /\ Pics(r, m \cup t)

\* FidelityFX is told COMPUTE_READ of an image that is in GENERAL.
Told(h, from, r) == h \in Mistold /\ from = Ctx!ComputeRead /\ r[h].layout = "GENERAL"

\* A call is given what it needs: the handles it names are live, the one it makes is
\* not, its images are in the layout, filled and of the extent it says, nothing that is
\* left was made from what it destroys, and if it fails the component is left at rest.
Ok(k, x, op) ==
  /\ op.uses \subseteq x.m \cup x.t \cup External
  /\ op.undo \subseteq x.t
  /\ op.op = "make" =>
       /\ op.obj \cap (x.m \cup x.t \cup External) = {}
       /\ \A h \in op.obj, p \in op.uses : Origin(h, p)
  /\ op.op \in {"barrier", "write", "read", "bind"} =>
       \A h \in op.obj :
         /\ op.from = x.r[h].layout \/ Told(h, op.from, x.r)
              \/ (op.op = "barrier" /\ op.from = "UNDEFINED")
         /\ op.op = "read" /\ k.comp # "fsr3" => x.r[h].defined = TRUE
         /\ op.op \in {"write", "read"} /\ k.comp # "fsr3" => x.r[h].extent = op.extent
  /\ op.op \in {"barrier", "write"} => Shape(x.m, x.t, x.i, x.r)
  /\ op.op = "free" /\ k.comp # "fsr3" =>
       \A h \in x.m \cup x.t, p \in op.obj : Origin(h, p) => h \in op.obj
  /\ op.fallible => Rest(k, x.m, x.i, x.c) /\ Shape(x.m, x.t, x.i, x.r)
  /\ op.op = "submit" => Rest(k, x.m, x.r, x.c)

\* s is a finite sequence.
IsSeq(s) == s \in Seq({s[i] : i \in DOMAIN s})

\* a is the states the calls of s go through, every one given what it needs.
Path(k, s, a) ==
  \A i \in 1 .. Len(s) : Ok(k, a[i - 1], s[i]) /\ a[i] = After(k, a[i - 1], s[i])

\* The calls s lead from x to y, and every one of them is given what it needs.
Runs(k, s, x, y) ==
  IsSeq(s) /\ \E a : a[0] = x /\ a[Len(s)] = y /\ Path(k, s, a)

-----------------------------------------------------------------------------
(* Sequences of calls *)

\* A sequence of a set is a sequence.
LEMMA IsSeqOf ==
  ASSUME NEW S, NEW s \in Seq(S)
  PROVE  IsSeq(s)
<1>1. \A i \in 1 .. Len(s) : s[i] \in {s[j] : j \in DOMAIN s}
  OBVIOUS
<1> QED BY <1>1 DEF IsSeq

\* Two sequences in a row, member by member.
LEMMA SeqFacts ==
  ASSUME NEW s, NEW t, IsSeq(s), IsSeq(t)
  PROVE  /\ IsSeq(s \o t)
         /\ Len(s) \in Nat /\ Len(t) \in Nat /\ Len(s \o t) = Len(s) + Len(t)
         /\ \A i \in 1 .. Len(s) : (s \o t)[i] = s[i]
         /\ \A i \in (Len(s) + 1) .. (Len(s) + Len(t)) : (s \o t)[i] = t[i - Len(s)]
<1> DEFINE S == {s[i] : i \in DOMAIN s} \cup {t[i] : i \in DOMAIN t}
<1>1. s \in Seq(S) /\ t \in Seq(S)
  BY DEF IsSeq
<1> HIDE DEF S
<1>2. /\ s \o t \in Seq(S) /\ Len(s \o t) = Len(s) + Len(t)
      /\ \A i \in 1 .. Len(s) + Len(t) :
           (s \o t)[i] = IF i <= Len(s) THEN s[i] ELSE t[i - Len(s)]
  BY <1>1, ConcatProperties
<1>3. IsSeq(s \o t)
  BY <1>2, IsSeqOf
<1>4. Len(s) \in Nat /\ Len(t) \in Nat
  BY <1>1
<1> QED BY <1>2, <1>3, <1>4

\* No call, no change.
LEMMA RunsNothing ==
  ASSUME NEW k, NEW x
  PROVE  Runs(k, <<>>, x, x)
<1> DEFINE a == [i \in {0} |-> x]
<1>1. IsSeq(<<>>) /\ Len(<<>>) = 0
  BY DEF IsSeq
<1>2. a[0] = x
  OBVIOUS
<1>3. Path(k, <<>>, a)
  BY <1>1 DEF Path
<1> QED BY <1>1, <1>2, <1>3 DEF Runs

\* No call, no change: the converse.
LEMMA NothingRuns ==
  ASSUME NEW k, NEW x, NEW y, Runs(k, <<>>, x, y)
  PROVE  x = y
  BY DEF Runs

\* One call that is given what it needs.
LEMMA RunsOne ==
  ASSUME NEW k, NEW x, NEW op, Ok(k, x, op)
  PROVE  Runs(k, <<op>>, x, After(k, x, op))
<1> DEFINE a == [i \in {0, 1} |-> IF i = 0 THEN x ELSE After(k, x, op)]
<1>1. IsSeq(<<op>>) /\ Len(<<op>>) = 1 /\ <<op>>[1] = op
  BY DEF IsSeq
<1>2. a[0] = x /\ a[1] = After(k, x, op)
  OBVIOUS
<1> HIDE DEF a
<1>3. Path(k, <<op>>, a)
  BY <1>1, <1>2 DEF Path
<1> QED BY <1>1, <1>2, <1>3 DEF Runs

\* A function that ends where the next one starts.
LEMMA RunsCat ==
  ASSUME NEW k, NEW s, NEW t, NEW x, NEW y, NEW z, Runs(k, s, x, y), Runs(k, t, y, z)
  PROVE  Runs(k, s \o t, x, z)
<1>1. IsSeq(s) /\ IsSeq(t)
  BY DEF Runs
<1>2. PICK a : a[0] = x /\ a[Len(s)] = y /\ Path(k, s, a)
  BY DEF Runs
<1>3. PICK b : b[0] = y /\ b[Len(t)] = z /\ Path(k, t, b)
  BY DEF Runs
<1> DEFINE c == [i \in 0 .. (Len(s) + Len(t)) |-> IF i <= Len(s) THEN a[i] ELSE b[i - Len(s)]]
<1>4. \A i \in 0 .. Len(s) : c[i] = a[i]
  BY <1>1, SeqFacts
<1>5. \A i \in Len(s) .. (Len(s) + Len(t)) : c[i] = b[i - Len(s)]
  BY <1>1, <1>2, <1>3, SeqFacts
<1> HIDE DEF c
<1>6. c[0] = x /\ c[Len(s \o t)] = z
  <2>1. Len(s) \in Nat /\ Len(t) \in Nat /\ Len(s \o t) = Len(s) + Len(t)
    BY <1>1, SeqFacts
  <2>2. c[Len(s) + Len(t)] = b[Len(s) + Len(t) - Len(s)]
    BY <1>5, <2>1
  <2> QED BY <1>2, <1>3, <1>4, <2>1, <2>2
<1>7. ASSUME NEW i \in 1 .. Len(s \o t)
      PROVE  Ok(k, c[i - 1], (s \o t)[i]) /\ c[i] = After(k, c[i - 1], (s \o t)[i])
  <2>1. Len(s) \in Nat /\ Len(t) \in Nat /\ i \in 1 .. (Len(s) + Len(t))
    BY <1>1, SeqFacts
  <2>2. CASE i <= Len(s)
    <3>1. (s \o t)[i] = s[i] /\ c[i - 1] = a[i - 1] /\ c[i] = a[i]
      BY <1>1, <1>4, <2>1, <2>2, SeqFacts
    <3>2. i \in 1 .. Len(s)
      BY <2>1, <2>2
    <3> QED BY <1>2, <3>1, <3>2 DEF Path
  <2>3. CASE i > Len(s)
    <3> DEFINE j == i - Len(s)
    <3>1. j \in 1 .. Len(t) /\ i - 1 \in Len(s) .. (Len(s) + Len(t))
          /\ i \in (Len(s) + 1) .. (Len(s) + Len(t)) /\ (i - 1) - Len(s) = j - 1
      BY <2>1, <2>3
    <3>2. (s \o t)[i] = t[j]
      BY <1>1, <3>1, SeqFacts
    <3>3. c[i - 1] = b[j - 1] /\ c[i] = b[j]
      BY <1>5, <2>1, <2>3, <3>1
    <3> HIDE DEF j
    <3> QED BY <1>3, <3>1, <3>2, <3>3 DEF Path
  <2> QED BY <2>1, <2>2, <2>3
<1>8. Path(k, s \o t, c)
  BY <1>7 DEF Path
<1> QED BY <1>1, <1>6, <1>8, SeqFacts DEF Runs

\* The first call of a function is given what it needs, and the others follow.
LEMMA RunsHead ==
  ASSUME NEW k, NEW s, NEW x, NEW y, Runs(k, s, x, y), s # <<>>
  PROVE  Ok(k, x, Head(s)) /\ Runs(k, Tail(s), After(k, x, Head(s)), y)
<1> DEFINE S == {s[i] : i \in DOMAIN s}
<1>1. s \in Seq(S)
  BY DEF Runs, IsSeq
<1>2. PICK a : a[0] = x /\ a[Len(s)] = y /\ Path(k, s, a)
  BY DEF Runs
<1> HIDE DEF S
<1>3. Len(s) \in Nat /\ Len(s) >= 1 /\ Head(s) = s[1]
  BY <1>1
<1>4. Tail(s) \in Seq(S) /\ Len(Tail(s)) = Len(s) - 1
      /\ \A i \in 1 .. (Len(s) - 1) : Tail(s)[i] = s[i + 1]
  BY <1>1, <1>3
<1>5. Ok(k, x, Head(s)) /\ a[1] = After(k, x, Head(s))
  BY <1>2, <1>3 DEF Path
<1> DEFINE b == [i \in 0 .. (Len(s) - 1) |-> a[i + 1]]
<1>6. \A i \in 0 .. (Len(s) - 1) : b[i] = a[i + 1]
  OBVIOUS
<1> HIDE DEF b
<1>7. b[0] = a[1] /\ b[Len(s) - 1] = a[Len(s)]
  BY <1>3, <1>6
<1>8. ASSUME NEW i \in 1 .. (Len(s) - 1)
      PROVE  Ok(k, b[i - 1], Tail(s)[i]) /\ b[i] = After(k, b[i - 1], Tail(s)[i])
  <2>1. b[i - 1] = a[i] /\ b[i] = a[i + 1] /\ Tail(s)[i] = s[i + 1]
    BY <1>3, <1>4, <1>6
  <2>2. i + 1 \in 1 .. Len(s) /\ (i + 1) - 1 = i
    BY <1>3
  <2> QED BY <1>2, <2>1, <2>2 DEF Path
<1>9. Path(k, Tail(s), b)
  BY <1>4, <1>8 DEF Path
<1>10. IsSeq(Tail(s))
  BY <1>4, IsSeqOf
<1> QED BY <1>2, <1>4, <1>5, <1>7, <1>9, <1>10 DEF Runs

\* A sequence with one more member.
LEMMA Snoc ==
  ASSUME NEW s, NEW b, NEW u, IsSeq(s), IsSeq(u), Len(u) = Len(s) + 1,
         \A i \in 1 .. Len(s) : u[i] = s[i], u[Len(s) + 1] = b
  PROVE  u = s \o <<b>>
<1> DEFINE S == {s[i] : i \in DOMAIN s} \cup {u[i] : i \in DOMAIN u} \cup {b}
<1>1. s \in Seq(S) /\ u \in Seq(S)
  BY DEF IsSeq
<1>2. <<b>> \in Seq(S) /\ Len(<<b>>) = 1 /\ <<b>>[1] = b
  OBVIOUS
<1> HIDE DEF S
<1>3. /\ s \o <<b>> \in Seq(S) /\ Len(s \o <<b>>) = Len(s) + 1
      /\ \A i \in 1 .. Len(s) + 1 :
           (s \o <<b>>)[i] = IF i <= Len(s) THEN s[i] ELSE <<b>>[i - Len(s)]
  BY <1>1, <1>2, ConcatProperties
<1>4. Len(s) \in Nat
  BY <1>1
<1>5. ASSUME NEW i \in 1 .. Len(u)
      PROVE  u[i] = (s \o <<b>>)[i]
  <2>1. CASE i <= Len(s)
    BY <1>3, <1>4, <2>1
  <2>2. CASE i = Len(s) + 1
    <3>1. i - Len(s) = 1 /\ ~(i <= Len(s))
      BY <1>4, <2>2
    <3> QED BY <1>2, <1>3, <2>2, <3>1
  <2> QED BY <1>4, <2>1, <2>2
<1> QED BY <1>1, <1>3, <1>5, SeqEqual

-----------------------------------------------------------------------------
(* Pictures *)

\* The picture of h becomes p.
Put(f, h, p) == [g \in DOMAIN f \cup {h} |-> IF g = h THEN p ELSE f[g]]

\* One image more, or one changed.
LEMMA PutPics ==
  ASSUME NEW f, NEW h, NEW p, NEW hs, NEW more, Pics(f, hs), IsPic(p), h \in hs \cup more
  PROVE  Pics(Put(f, h, p), hs \cup more)
<1> DEFINE q == Put(f, h, p)
<1>1. DOMAIN q = DOMAIN f \cup {h} /\ q[h] = p /\ IsFcn(q) /\ \A g \in DOMAIN f : g # h => q[g] = f[g]
  BY DEF Put, IsFcn
<1> HIDE DEF q
<1>2. \A g \in DOMAIN q : IsPic(q[g])
  BY <1>1 DEF Pics
<1>3. DOMAIN q \subseteq hs \cup more
  BY <1>1 DEF Pics
<1>4. Pics(q, hs \cup more)
  BY <1>1, <1>2, <1>3 DEF Pics
<1> QED BY <1>4 DEF q

\* No images.
LEMMA NoPics ==
  ASSUME NEW hs
  PROVE  DOMAIN <<>> = {} /\ IsFcn(<<>>) /\ Pics(<<>>, hs)
<1>1. DOMAIN <<>> = {}
  OBVIOUS
<1>2. IsFcn(<<>>)
  BY <1>1 DEF IsFcn
<1> QED BY <1>1, <1>2 DEF Pics

\* What Without leaves is as it was.
LEMMA WithoutFacts ==
  ASSUME NEW f, NEW hs
  PROVE  /\ DOMAIN Without(f, hs) = DOMAIN f \ hs
         /\ \A g \in DOMAIN f \ hs : Without(f, hs)[g] = f[g]
         /\ IsFcn(Without(f, hs))
  BY DEF Without, IsFcn

\* Images without the destroyed ones are images.
LEMMA WithoutPics ==
  ASSUME NEW f, NEW hs, NEW all, Pics(f, all)
  PROVE  Pics(Without(f, hs), all \ hs)
<1> DEFINE q == Without(f, hs)
<1>1. DOMAIN q = DOMAIN f \ hs /\ IsFcn(q) /\ \A g \in DOMAIN q : q[g] = f[g]
  BY DEF Without, IsFcn
<1> HIDE DEF q
<1>2. \A g \in DOMAIN q : IsPic(q[g])
  BY <1>1 DEF Pics
<1>3. DOMAIN q \subseteq all \ hs
  BY <1>1 DEF Pics
<1>4. Pics(q, all \ hs)
  BY <1>1, <1>2, <1>3 DEF Pics
<1> QED BY <1>4 DEF q

\* The fields of a picture.
LEMMA PicFacts ==
  ASSUME NEW l, NEW d, NEW e
  PROVE  /\ Pic(l, d, e).layout = l /\ Pic(l, d, e).defined = d /\ Pic(l, d, e).extent = e
         /\ d \in BOOLEAN => IsPic(Pic(l, d, e))
  BY DEF Pic, IsPic

\* The two ways Recorded changes a picture.
Relaid(q, layout, defined) == [q EXCEPT !.layout = layout, !.defined = defined]

\* The second: a write.
Filled(q, defined) == [q EXCEPT !.defined = defined]

\* A layout transition keeps the extent.
LEMMA PicRelaid ==
  ASSUME NEW q, NEW l, NEW d, NEW e, NEW l2, NEW d2, q = Pic(l, d, e)
  PROVE  Relaid(q, l2, d2) = Pic(l2, d2, e)
<1> DEFINE p == Pic(l2, d2, e)
<1>1. [q EXCEPT !.layout = l2, !.defined = d2]
        = [f \in DOMAIN q |-> IF f = "layout" THEN l2 ELSE IF f = "defined" THEN d2 ELSE q[f]]
  BY DEF Pic
<1>2. DOMAIN q = {"layout", "defined", "extent"} /\ q["extent"] = e
  BY DEF Pic
<1>3. /\ DOMAIN p = {"layout", "defined", "extent"}
      /\ p["layout"] = l2 /\ p["defined"] = d2 /\ p["extent"] = e
  BY DEF Pic
<1>4. p = [f \in {"layout", "defined", "extent"} |-> p[f]]
  BY DEF Pic
<1> HIDE DEF p
<1>5. [q EXCEPT !.layout = l2, !.defined = d2] = p
  BY <1>1, <1>2, <1>3, <1>4
<1> QED BY <1>5 DEF p, Relaid

\* A write keeps the layout and the extent.
LEMMA PicFilled ==
  ASSUME NEW q, NEW l, NEW d, NEW e, NEW d2, q = Pic(l, d, e)
  PROVE  Filled(q, d2) = Pic(l, d2, e)
  BY DEF Pic, Filled

\* Whether the component is at rest depends on its own images only.
LEMMA RestAgrees ==
  ASSUME NEW k, NEW m, NEW i, NEW j, NEW c, Rest(k, m, i, c),
         \A h \in DOMAIN i \cap m : h \in DOMAIN j /\ j[h] = i[h]
  PROVE  Rest(k, m, j, c)
<1> SUFFICES ASSUME k.phase = "call", Ready(k, m, i, c)
             PROVE  Ready(k, m, j, c)
  BY DEF Rest
<1>1. Held(k, m, c)
  BY DEF Ready
<1>2. ASSUME k.comp = "fsr2", c # NoSizes
      PROVE  NativeImages(m, j, c)
  <2>1. Native!CachedResources \subseteq m
    BY <1>1, <1>2 DEF Held, Encoders
  <2>2. \A n \in {"color", "depth", "mv", "output"} : Native!Image(n) \in m
    BY <2>1 DEF Native!CachedResources, Native!Textures
  <2>3. NativeImages(m, i, c)
    BY <1>2 DEF Ready
  <2>4. \A n \in {"color", "depth", "mv", "output"} :
          Native!Image(n) \in DOMAIN j /\ j[Native!Image(n)] = i[Native!Image(n)]
    BY <2>2, <2>3 DEF NativeImages
  <2> QED BY <2>3, <2>4 DEF NativeImages
<1>3. ASSUME k.comp = "fsr3", NEW n \in Fg!Images
      PROVE  Fg!Image(n) \in DOMAIN j
  <2>1. Fg!FrameGenFields \subseteq m
    BY <1>1, <1>3 DEF Held, Encoders
  <2>2. Fg!Image(n) \in m
    BY <1>3, <2>1 DEF Fg!FrameGenFields
  <2>3. Fg!Image(n) \in DOMAIN i
    BY <1>3 DEF Ready
  <2> QED BY <2>2, <2>3
<1>4. ASSUME k.comp \in Encoders, NEW s \in {0, 1}
      PROVE  H264!DpbImage(s) \in DOMAIN j /\ j[H264!DpbImage(s)].layout = "VIDEO_ENCODE_DPB"
  <2>1. H264!Fields \subseteq m
    BY <1>1, <1>4 DEF Held, Encoders
  <2>2. s \in 0 .. H264!DPB_SLOTS - 1
    BY DEF H264!DPB_SLOTS
  <2>3. H264!DpbImage(s) \in m
    BY <2>1, <2>2 DEF H264!Fields
  <2>4. H264!DpbImage(s) \in DOMAIN i /\ i[H264!DpbImage(s)].layout = "VIDEO_ENCODE_DPB"
    BY <1>4 DEF Ready
  <2> QED BY <2>3, <2>4
<1> QED BY <1>1, <1>2, <1>3, <1>4 DEF Ready

\* A local image does not matter to the component at rest.
LEMMA RestPut ==
  ASSUME NEW k, NEW m, NEW f, NEW h, NEW p, NEW c, Rest(k, m, f, c), h \notin m
  PROVE  Rest(k, m, Put(f, h, p), c)
<1>1. \A g \in DOMAIN f \cap m : g \in DOMAIN Put(f, h, p) /\ Put(f, h, p)[g] = f[g]
  BY DEF Put
<1> QED BY <1>1, RestAgrees

-----------------------------------------------------------------------------
(* Calls *)

\* The component is at rest and the images are among the live handles.
Sound(k, m, t, i, r, c) == Shape(m, t, i, r) /\ Rest(k, m, i, c)

\* A call that changes nothing: what it uses is there.
LEMMA UseRuns ==
  ASSUME NEW k, NEW m, NEW t, NEW i, NEW r, NEW c, NEW U,
         Shape(m, t, i, r), U \subseteq m \cup t \cup External
  PROVE  Runs(k, <<Ctx!Use(U)>>, St(m, t, i, r, c), St(m, t, i, r, c))
<1> DEFINE x == St(m, t, i, r, c)
           op == Ctx!Use(U)
<1>0. x = St(m, t, i, r, c) /\ x.m = m /\ x.t = t /\ x.i = i /\ x.r = r /\ x.c = c
  BY DEF St
<1>1. op.op = "use" /\ op.obj = {} /\ op.uses = U /\ op.undo = {} /\ op.fallible = FALSE
  BY DEF Ctx!Use, Ctx!Call
<1> HIDE DEF x, op
<1>2. Ok(k, x, op)
  BY <1>1, <1>0 DEF Ok
<1>3. Recording(r, op) = r
  BY <1>1 DEF Recording, Shape, Pics, IsFcn
<1>4. After(k, x, op) = x
  BY <1>1, <1>3, <1>0 DEF After
<1> QED BY <1>2, <1>4, RunsOne DEF x, op

\* A call that can fail and makes nothing.
LEMMA TryRuns ==
  ASSUME NEW k, NEW m, NEW t, NEW i, NEW r, NEW c, NEW U, NEW V,
         Sound(k, m, t, i, r, c), U \subseteq m \cup t \cup External, V \subseteq t
  PROVE  Runs(k, <<Ctx!TryOr(U, V)>>, St(m, t, i, r, c), St(m, t, i, r, c))
<1> DEFINE x == St(m, t, i, r, c)
           op == Ctx!TryOr(U, V)
<1>0. x = St(m, t, i, r, c) /\ x.m = m /\ x.t = t /\ x.i = i /\ x.r = r /\ x.c = c
  BY DEF St
<1>1. op.op = "use" /\ op.obj = {} /\ op.uses = U /\ op.undo = V /\ op.fallible = TRUE
  BY DEF Ctx!TryOr, Ctx!Call
<1> HIDE DEF x, op
<1>2. Ok(k, x, op)
  BY <1>1, <1>0 DEF Ok, Sound
<1>3. Recording(r, op) = r
  BY <1>1 DEF Recording, Sound, Shape, Pics, IsFcn
<1>4. After(k, x, op) = x
  BY <1>1, <1>3, <1>0 DEF After
<1> QED BY <1>2, <1>4, RunsOne DEF x, op

\* The images that are made without an extent.
DpbImages == {H264!DpbImage(0), H264!DpbImage(1)}

\* The handle is new, and made from what it may be made from.
Fresh(m, t, h) == h \notin m /\ h \notin t /\ h \notin External

\* A call that makes a handle that is no image.
LEMMA MakeRuns ==
  ASSUME NEW k, NEW m, NEW t, NEW i, NEW r, NEW c, NEW h, NEW U, NEW V,
         Sound(k, m, t, i, r, c), U \subseteq m \cup t \cup External, V \subseteq t,
         Fresh(m, t, h), \A p \in U : Origin(h, p), h \notin DpbImages
  PROVE  /\ Runs(k, <<Ctx!MakeOr(h, U, V)>>, St(m, t, i, r, c), St(m, t \cup {h}, i, r, c))
         /\ Sound(k, m, t \cup {h}, i, r, c)
<1> DEFINE x == St(m, t, i, r, c)
           y == St(m, t \cup {h}, i, r, c)
           op == Ctx!MakeOr(h, U, V)
<1>0. x = St(m, t, i, r, c) /\ x.m = m /\ x.t = t /\ x.i = i /\ x.r = r /\ x.c = c
  BY DEF St
<1>1. op.op = "make" /\ op.obj = {h} /\ op.uses = U /\ op.undo = V /\ op.fallible = TRUE
      /\ op.extent = 0
  BY DEF Ctx!MakeOr, Ctx!Call
<1> HIDE DEF x, op
<1>2. Ok(k, x, op)
  BY <1>1, <1>0 DEF Ok, Sound, Fresh
<1>3. NewImages(op) = {}
  BY <1>1 DEF NewImages, DpbImages
<1>4. Making(i, op) = i
  BY <1>3 DEF Making, Sound, Shape, Pics, IsFcn
<1>5. After(k, x, op) = y
  BY <1>1, <1>4, <1>0 DEF After
<1>6. Sound(k, m, t \cup {h}, i, r, c)
  BY DEF Sound, Shape, Pics
<1> QED BY <1>2, <1>5, <1>6, RunsOne DEF x, op

\* A call that makes an image: its layout is UNDEFINED and it is not filled.
LEMMA MakeImageRuns ==
  ASSUME NEW k, NEW m, NEW t, NEW i, NEW r, NEW c, NEW h, NEW e,
         Sound(k, m, t, i, r, c), Ctx!Device \in m \cup t,
         Fresh(m, t, h), Origin(h, Ctx!Device), h \in DpbImages \/ e # 0
  PROVE  /\ Runs(k, <<Ctx!MakeImage(h, e)>>, St(m, t, i, r, c),
                 St(m, t \cup {h}, Put(i, h, Pic("UNDEFINED", FALSE, e)), r, c))
         /\ Sound(k, m, t \cup {h}, Put(i, h, Pic("UNDEFINED", FALSE, e)), r, c)
<1> DEFINE x == St(m, t, i, r, c)
           p == Pic("UNDEFINED", FALSE, e)
           y == St(m, t \cup {h}, Put(i, h, p), r, c)
           op == Ctx!MakeImage(h, e)
<1>0. x = St(m, t, i, r, c) /\ x.m = m /\ x.t = t /\ x.i = i /\ x.r = r /\ x.c = c
  BY DEF St
<1>1. op.op = "make" /\ op.obj = {h} /\ op.uses = {Ctx!Device} /\ op.undo = {}
      /\ op.fallible = TRUE /\ op.extent = e
  BY DEF Ctx!MakeImage, Ctx!Make, Ctx!MakeOr, Ctx!Call
<1> HIDE DEF x, op
<1>2. Ok(k, x, op)
  BY <1>1, <1>0 DEF Ok, Sound, Fresh
<1>3. NewImages(op) = {h}
  BY <1>1 DEF NewImages, DpbImages
<1>4. Pics(i, m \cup t) /\ Pics(r, m \cup t) /\ Rest(k, m, i, c)
  BY DEF Sound, Shape
<1>5. h \notin DOMAIN i
  BY <1>4 DEF Fresh, Pics
<1>6. Making(i, op) = Put(i, h, p)
  BY <1>1, <1>3, <1>5 DEF Making, Put, Pic
<1>7. After(k, x, op) = y
  BY <1>1, <1>6, <1>0 DEF After
<1>8. IsPic(p)
  BY PicFacts
<1> HIDE DEF p
<1>9. Pics(Put(i, h, p), (m \cup t) \cup {h})
  BY <1>4, <1>8, PutPics
<1>10. (m \cup t) \cup {h} = m \cup (t \cup {h})
  OBVIOUS
<1>11. Pics(Put(i, h, p), m \cup (t \cup {h})) /\ Pics(r, m \cup (t \cup {h}))
  BY <1>4, <1>9, <1>10 DEF Pics
<1>12. Rest(k, m, Put(i, h, p), c)
  BY <1>4, RestPut DEF Fresh
<1>13. Sound(k, m, t \cup {h}, Put(i, h, p), r, c)
  BY <1>11, <1>12 DEF Sound, Shape
<1> QED BY <1>2, <1>7, <1>13, RunsOne DEF x, op, p

\* Nothing that is left was made from what is destroyed.
Childless(k, m, t, hs) ==
  k.comp # "fsr3" => \A g \in m \cup t, p \in hs : Origin(g, p) => g \in hs

\* A pool is destroyed with what was allocated from it.
LEMMA FreeWithRuns ==
  ASSUME NEW k, NEW m, NEW t, NEW i, NEW r, NEW c, NEW h, NEW along,
         h \in m \cup t, Childless(k, m, t, {h} \cup along)
  PROVE  Runs(k, <<Ctx!FreeWith(h, along)>>, St(m, t, i, r, c),
              St(m \ ({h} \cup along), t \ ({h} \cup along), Without(i, {h} \cup along), r, c))
<1> DEFINE x == St(m, t, i, r, c)
           hs == {h} \cup along
           op == Ctx!FreeWith(h, along)
<1>0. x = St(m, t, i, r, c) /\ x.m = m /\ x.t = t /\ x.i = i /\ x.r = r /\ x.c = c
  BY DEF St
<1>1. op.op = "free" /\ op.obj = hs /\ op.uses = {h} /\ op.undo = {} /\ op.fallible = FALSE
  BY DEF Ctx!FreeWith, Ctx!Call
<1> HIDE DEF x, op
<1>2. Ok(k, x, op)
  BY <1>1, <1>0 DEF Ok, Childless
<1>3. After(k, x, op) = St(m \ hs, t \ hs, Without(i, hs), r, c)
  BY <1>1, <1>0 DEF After
<1> QED BY <1>2, <1>3, RunsOne DEF x, op

\* A handle is destroyed.
LEMMA FreeRuns ==
  ASSUME NEW k, NEW m, NEW t, NEW i, NEW r, NEW c, NEW h,
         h \in m \cup t, Childless(k, m, t, {h})
  PROVE  Runs(k, <<Ctx!Free(h)>>, St(m, t, i, r, c),
              St(m \ {h}, t \ {h}, Without(i, {h}), r, c))
<1>1. {h} \cup {} = {h} /\ Ctx!Free(h) = Ctx!FreeWith(h, {})
  BY DEF Ctx!Free
<1>2. Childless(k, m, t, {h} \cup {})
  BY <1>1
<1>3. Runs(k, <<Ctx!FreeWith(h, {})>>, St(m, t, i, r, c),
              St(m \ ({h} \cup {}), t \ ({h} \cup {}), Without(i, {h} \cup {}), r, c))
  BY <1>2, FreeWithRuns
<1> QED BY <1>1, <1>3

\* A local of the function is destroyed; nothing is being recorded.
LEMMA FreeTempRuns ==
  ASSUME NEW k, NEW m, NEW t, NEW i, NEW c, NEW h,
         Sound(k, m, t, i, <<>>, c), h \in t, h \notin m, Childless(k, m, t, {h})
  PROVE  /\ Runs(k, <<Ctx!Free(h)>>, St(m, t, i, <<>>, c),
                 St(m, t \ {h}, Without(i, {h}), <<>>, c))
         /\ Sound(k, m, t \ {h}, Without(i, {h}), <<>>, c)
<1>1. m \ {h} = m
  OBVIOUS
<1>2. Runs(k, <<Ctx!Free(h)>>, St(m, t, i, <<>>, c), St(m, t \ {h}, Without(i, {h}), <<>>, c))
  BY <1>1, FreeRuns
<1>3. Pics(i, m \cup t) /\ Rest(k, m, i, c)
  BY DEF Sound, Shape
<1>4. Pics(Without(i, {h}), (m \cup t) \ {h})
  BY <1>3, WithoutPics
<1>5. (m \cup t) \ {h} = m \cup (t \ {h})
  OBVIOUS
<1>6. Rest(k, m, Without(i, {h}), c)
  <2>1. \A g \in DOMAIN i \cap m : g \in DOMAIN Without(i, {h}) /\ Without(i, {h})[g] = i[g]
    BY WithoutFacts
  <2> QED BY <1>3, <2>1, RestAgrees
<1>7. Sound(k, m, t \ {h}, Without(i, {h}), <<>>, c)
  BY <1>4, <1>5, <1>6, NoPics DEF Sound, Shape
<1> QED BY <1>2, <1>7

\* A handle that is no image leaves the images as they are.
LEMMA FreePlainRuns ==
  ASSUME NEW k, NEW m, NEW t, NEW i, NEW c, NEW h,
         Sound(k, m, t, i, <<>>, c), h \in t, h \notin m, Childless(k, m, t, {h}),
         h \notin DOMAIN i
  PROVE  /\ Runs(k, <<Ctx!Free(h)>>, St(m, t, i, <<>>, c), St(m, t \ {h}, i, <<>>, c))
         /\ Sound(k, m, t \ {h}, i, <<>>, c)
<1>1. Without(i, {h}) = i
  BY DEF Without, Sound, Shape, Pics, IsFcn
<1> QED BY <1>1, FreeTempRuns

\* Locals become the component's.
LEMMA KeepRuns ==
  ASSUME NEW k, NEW m, NEW t, NEW i, NEW r, NEW c, NEW hs, hs \subseteq t
  PROVE  Runs(k, <<Ctx!Keep(hs)>>, St(m, t, i, r, c),
              St(m \cup hs, t \ hs, i, r, IF Native!FsrCtx \in hs THEN k.sizes ELSE c))
<1> DEFINE x == St(m, t, i, r, c)
           op == Ctx!Keep(hs)
<1>0. x = St(m, t, i, r, c) /\ x.m = m /\ x.t = t /\ x.i = i /\ x.r = r /\ x.c = c
  BY DEF St
<1>1. op.op = "keep" /\ op.obj = hs /\ op.uses = hs /\ op.undo = {} /\ op.fallible = FALSE
  BY DEF Ctx!Keep, Ctx!Call
<1> HIDE DEF x, op
<1>2. Ok(k, x, op)
  BY <1>1, <1>0 DEF Ok
<1>3. After(k, x, op) = St(m \cup hs, t \ hs, i, r, IF Native!FsrCtx \in hs THEN k.sizes ELSE c)
  BY <1>1, <1>0 DEF After
<1> QED BY <1>2, <1>3, RunsOne DEF x, op

\* The component's handles become locals.
LEMMA TakeRuns ==
  ASSUME NEW k, NEW m, NEW t, NEW i, NEW r, NEW c, NEW hs, hs \subseteq m
  PROVE  Runs(k, <<Ctx!Take(hs)>>, St(m, t, i, r, c), St(m \ hs, t \cup hs, i, r, NoSizes))
<1> DEFINE x == St(m, t, i, r, c)
           op == Ctx!Take(hs)
<1>0. x = St(m, t, i, r, c) /\ x.m = m /\ x.t = t /\ x.i = i /\ x.r = r /\ x.c = c
  BY DEF St
<1>1. op.op = "take" /\ op.obj = hs /\ op.uses = hs /\ op.undo = {} /\ op.fallible = FALSE
  BY DEF Ctx!Take, Ctx!Call
<1> HIDE DEF x, op
<1>2. Ok(k, x, op)
  BY <1>1, <1>0 DEF Ok
<1>3. After(k, x, op) = St(m \ hs, t \cup hs, i, r, NoSizes)
  BY <1>1, <1>0 DEF After
<1> QED BY <1>2, <1>3, RunsOne DEF x, op

-----------------------------------------------------------------------------
(* Recording *)

\* Recording starts from the images as they are.
LEMMA BeginRuns ==
  ASSUME NEW k, NEW m, NEW t, NEW i, NEW r, NEW c, NEW cmd,
         Sound(k, m, t, i, r, c), cmd \in m \cup t
  PROVE  /\ Runs(k, <<Ctx!Begin(cmd)>>, St(m, t, i, r, c), St(m, t, i, i, c))
         /\ Sound(k, m, t, i, i, c) /\ Rest(k, m, i, c)
<1> DEFINE x == St(m, t, i, r, c)
           op == Ctx!Begin(cmd)
<1>0. x = St(m, t, i, r, c) /\ x.m = m /\ x.t = t /\ x.i = i /\ x.r = r /\ x.c = c
  BY DEF St
<1>1. op.op = "begin" /\ op.obj = {} /\ op.uses = {cmd} /\ op.undo = {} /\ op.fallible = TRUE
  BY DEF Ctx!Begin, Ctx!Call
<1> HIDE DEF x, op
<1>2. Ok(k, x, op)
  BY <1>1, <1>0 DEF Ok, Sound
<1>3. After(k, x, op) = St(m, t, i, i, c)
  BY <1>1, <1>0 DEF After
<1>4. Sound(k, m, t, i, i, c) /\ Rest(k, m, i, c)
  BY DEF Sound, Shape
<1> QED BY <1>2, <1>3, <1>4, RunsOne DEF x, op

\* The contents are discarded.
LEMMA DiscardRuns ==
  ASSUME NEW k, NEW m, NEW t, NEW i, NEW r, NEW c, NEW cmd, NEW h, NEW to,
         Sound(k, m, t, i, r, c), cmd \in m \cup t, h \in DOMAIN r
  PROVE  /\ Runs(k, <<Ctx!Barrier(cmd, h, "UNDEFINED", to)>>, St(m, t, i, r, c),
                 St(m, t, i, Put(r, h, Pic(to, FALSE, r[h].extent)), c))
         /\ Sound(k, m, t, i, Put(r, h, Pic(to, FALSE, r[h].extent)), c)
<1> DEFINE x == St(m, t, i, r, c)
           op == Ctx!Barrier(cmd, h, "UNDEFINED", to)
           p == Pic(to, FALSE, r[h].extent)
           y == St(m, t, i, Put(r, h, p), c)
<1>0. x = St(m, t, i, r, c) /\ x.m = m /\ x.t = t /\ x.i = i /\ x.r = r /\ x.c = c
  BY DEF St
<1>1. op.op = "barrier" /\ op.obj = {h} /\ op.uses = {cmd, h} /\ op.undo = {}
      /\ op.fallible = FALSE /\ op.from = "UNDEFINED" /\ op.to = to
  BY DEF Ctx!Barrier, Ctx!Call
<1> HIDE DEF x, op
<1>2. Pics(i, m \cup t) /\ Pics(r, m \cup t) /\ Rest(k, m, i, c) /\ h \in m \cup t
  BY DEF Sound, Shape, Pics
<1>3. Ok(k, x, op)
  BY <1>1, <1>2, <1>0 DEF Ok, Sound
<1>4. r[h] = Pic(r[h].layout, r[h].defined, r[h].extent)
  BY <1>2 DEF Pics, IsPic
<1>5. Pic(op.to, r[h].defined /\ op.from # "UNDEFINED", r[h].extent) = p
  <2>1. (r[h].defined /\ op.from # "UNDEFINED") = FALSE
    BY <1>1
  <2> QED BY <1>1, <2>1
<1>6. Recording(r, op) = Put(r, h, p)
  <2> HIDE DEF p
  <2>1. DOMAIN r \cup {h} = DOMAIN r
    OBVIOUS
  <2> QED BY <1>1, <1>5, <2>1 DEF Recording, Put
<1>7. After(k, x, op) = y
  BY <1>1, <1>6, <1>0 DEF After
<1>8. IsPic(p)
  BY PicFacts
<1> HIDE DEF p
<1>9. Pics(Put(r, h, p), m \cup t)
  <2>1. Pics(Put(r, h, p), (m \cup t) \cup {})
    BY <1>2, <1>8, PutPics
  <2> QED BY <2>1
<1>10. Sound(k, m, t, i, Put(r, h, p), c)
  BY <1>2, <1>9 DEF Sound, Shape
<1> QED BY <1>3, <1>7, <1>10, RunsOne DEF x, op, p

\* The contents are kept.
LEMMA BarrierRuns ==
  ASSUME NEW k, NEW m, NEW t, NEW i, NEW r, NEW c, NEW cmd, NEW h, NEW from, NEW to,
         Sound(k, m, t, i, r, c), cmd \in m \cup t, h \in DOMAIN r,
         from = r[h].layout \/ Told(h, from, r), from # "UNDEFINED"
  PROVE  /\ Runs(k, <<Ctx!Barrier(cmd, h, from, to)>>, St(m, t, i, r, c),
                 St(m, t, i, Put(r, h, Pic(to, r[h].defined, r[h].extent)), c))
         /\ Sound(k, m, t, i, Put(r, h, Pic(to, r[h].defined, r[h].extent)), c)
<1> DEFINE x == St(m, t, i, r, c)
           op == Ctx!Barrier(cmd, h, from, to)
           p == Pic(to, r[h].defined, r[h].extent)
           y == St(m, t, i, Put(r, h, p), c)
<1>0. x = St(m, t, i, r, c) /\ x.m = m /\ x.t = t /\ x.i = i /\ x.r = r /\ x.c = c
  BY DEF St
<1>1. op.op = "barrier" /\ op.obj = {h} /\ op.uses = {cmd, h} /\ op.undo = {}
      /\ op.fallible = FALSE /\ op.from = from /\ op.to = to
  BY DEF Ctx!Barrier, Ctx!Call
<1> HIDE DEF x, op
<1>2. Pics(i, m \cup t) /\ Pics(r, m \cup t) /\ Rest(k, m, i, c) /\ h \in m \cup t
  BY DEF Sound, Shape, Pics
<1>3. Ok(k, x, op)
  BY <1>1, <1>2, <1>0 DEF Ok, Sound
<1>4. r[h] = Pic(r[h].layout, r[h].defined, r[h].extent) /\ r[h].defined \in BOOLEAN
  BY <1>2 DEF Pics, IsPic
<1>5. Pic(op.to, r[h].defined /\ op.from # "UNDEFINED", r[h].extent) = p
  <2>1. (r[h].defined /\ op.from # "UNDEFINED") = r[h].defined
    BY <1>1, <1>4
  <2> QED BY <1>1, <2>1
<1>6. Recording(r, op) = Put(r, h, p)
  <2> HIDE DEF p
  <2>1. DOMAIN r \cup {h} = DOMAIN r
    OBVIOUS
  <2> QED BY <1>1, <1>5, <2>1 DEF Recording, Put
<1>7. After(k, x, op) = y
  BY <1>1, <1>6, <1>0 DEF After
<1>8. IsPic(p)
  BY <1>4, PicFacts
<1> HIDE DEF p
<1>9. Pics(Put(r, h, p), m \cup t)
  <2>1. Pics(Put(r, h, p), (m \cup t) \cup {})
    BY <1>2, <1>8, PutPics
  <2> QED BY <2>1
<1>10. Sound(k, m, t, i, Put(r, h, p), c)
  BY <1>2, <1>9 DEF Sound, Shape
<1> QED BY <1>3, <1>7, <1>10, RunsOne DEF x, op, p

\* A write in the image's layout and extent fills it.
LEMMA WritesRuns ==
  ASSUME NEW k, NEW m, NEW t, NEW i, NEW r, NEW c, NEW cmd, NEW h, NEW layout, NEW e,
         Sound(k, m, t, i, r, c), cmd \in m \cup t, h \in DOMAIN r,
         layout = r[h].layout, k.comp # "fsr3" => r[h].extent = e
  PROVE  /\ Runs(k, <<Ctx!Writes(cmd, h, layout, e)>>, St(m, t, i, r, c),
                 St(m, t, i, Put(r, h, Pic(layout, TRUE, r[h].extent)), c))
         /\ Sound(k, m, t, i, Put(r, h, Pic(layout, TRUE, r[h].extent)), c)
<1> DEFINE x == St(m, t, i, r, c)
           op == Ctx!Writes(cmd, h, layout, e)
           p == Pic(layout, TRUE, r[h].extent)
           y == St(m, t, i, Put(r, h, p), c)
<1>0. x = St(m, t, i, r, c) /\ x.m = m /\ x.t = t /\ x.i = i /\ x.r = r /\ x.c = c
  BY DEF St
<1>1. op.op = "write" /\ op.obj = {h} /\ op.uses = {cmd, h} /\ op.undo = {}
      /\ op.fallible = FALSE /\ op.from = layout /\ op.extent = e
  BY DEF Ctx!Writes, Ctx!Call
<1> HIDE DEF x, op
<1>2. Pics(i, m \cup t) /\ Pics(r, m \cup t) /\ Rest(k, m, i, c) /\ h \in m \cup t
  BY DEF Sound, Shape, Pics
<1>3. Ok(k, x, op)
  BY <1>1, <1>2, <1>0 DEF Ok, Sound
<1>4. r[h] = Pic(r[h].layout, r[h].defined, r[h].extent)
  BY <1>2 DEF Pics, IsPic
<1>5. Pic(r[h].layout, TRUE, r[h].extent) = p
  OBVIOUS
<1>6. Recording(r, op) = Put(r, h, p)
  <2> HIDE DEF p
  <2>1. DOMAIN r \cup {h} = DOMAIN r
    OBVIOUS
  <2> QED BY <1>1, <1>5, <2>1 DEF Recording, Put
<1>7. After(k, x, op) = y
  BY <1>1, <1>6, <1>0 DEF After
<1>8. IsPic(p)
  BY PicFacts
<1> HIDE DEF p
<1>9. Pics(Put(r, h, p), m \cup t)
  <2>1. Pics(Put(r, h, p), (m \cup t) \cup {})
    BY <1>2, <1>8, PutPics
  <2> QED BY <2>1
<1>10. Sound(k, m, t, i, Put(r, h, p), c)
  BY <1>2, <1>9 DEF Sound, Shape
<1> QED BY <1>3, <1>7, <1>10, RunsOne DEF x, op, p

\* A read finds its images filled, in the layout and of the extent it says.
LEMMA ReadsRuns ==
  ASSUME NEW k, NEW m, NEW t, NEW i, NEW r, NEW c, NEW cmd, NEW hs, NEW layout, NEW e,
         Shape(m, t, i, r), cmd \in m \cup t,
         \A h \in hs : /\ h \in DOMAIN r /\ (layout = r[h].layout \/ Told(h, layout, r))
                       /\ k.comp # "fsr3" => r[h].defined = TRUE /\ r[h].extent = e
  PROVE  Runs(k, <<Ctx!Reads(cmd, hs, layout, e)>>, St(m, t, i, r, c), St(m, t, i, r, c))
<1> DEFINE x == St(m, t, i, r, c)
           op == Ctx!Reads(cmd, hs, layout, e)
<1>0. x = St(m, t, i, r, c) /\ x.m = m /\ x.t = t /\ x.i = i /\ x.r = r /\ x.c = c
  BY DEF St
<1>1. op.op = "read" /\ op.obj = hs /\ op.uses = {cmd} \cup hs /\ op.undo = {}
      /\ op.fallible = FALSE /\ op.from = layout /\ op.extent = e
  BY DEF Ctx!Reads, Ctx!Call
<1> HIDE DEF x, op
<1>2. Pics(r, m \cup t)
  BY DEF Shape
<1>3. Ok(k, x, op)
  BY <1>1, <1>2, <1>0 DEF Ok, Pics
<1>4. Recording(r, op) = r
  BY <1>1, <1>2 DEF Recording, Pics, IsFcn
<1>5. After(k, x, op) = x
  BY <1>1, <1>4, <1>0 DEF After
<1> QED BY <1>3, <1>5, RunsOne DEF x, op

\* A command that only expects a layout.
LEMMA BindsRuns ==
  ASSUME NEW k, NEW m, NEW t, NEW i, NEW r, NEW c, NEW cmd, NEW hs, NEW layout,
         Shape(m, t, i, r), cmd \in m \cup t,
         \A h \in hs : h \in DOMAIN r /\ layout = r[h].layout
  PROVE  Runs(k, <<Ctx!Binds(cmd, hs, layout)>>, St(m, t, i, r, c), St(m, t, i, r, c))
<1> DEFINE x == St(m, t, i, r, c)
           op == Ctx!Binds(cmd, hs, layout)
<1>0. x = St(m, t, i, r, c) /\ x.m = m /\ x.t = t /\ x.i = i /\ x.r = r /\ x.c = c
  BY DEF St
<1>1. op.op = "bind" /\ op.obj = hs /\ op.uses = {cmd} \cup hs /\ op.undo = {}
      /\ op.fallible = FALSE /\ op.from = layout
  BY DEF Ctx!Binds, Ctx!Call
<1> HIDE DEF x, op
<1>2. Pics(r, m \cup t)
  BY DEF Shape
<1>3. Ok(k, x, op)
  BY <1>1, <1>2, <1>0 DEF Ok, Pics
<1>4. Recording(r, op) = r
  BY <1>1, <1>2 DEF Recording, Pics, IsFcn
<1>5. After(k, x, op) = x
  BY <1>1, <1>4, <1>0 DEF After
<1> QED BY <1>3, <1>5, RunsOne DEF x, op

\* The submission makes what was recorded real; if the component is at rest with the
\* recorded images it is so afterwards.
LEMMA SubmitRuns ==
  ASSUME NEW k, NEW m, NEW t, NEW i, NEW r, NEW c, NEW cmd, NEW fence, NEW V,
         Sound(k, m, t, i, r, c), Rest(k, m, r, c),
         {cmd, fence} \subseteq m \cup t, V \subseteq t
  PROVE  /\ Runs(k, <<Ctx!SubmitOr(cmd, fence, V)>>, St(m, t, i, r, c), St(m, t, r, <<>>, c))
         /\ Sound(k, m, t, r, <<>>, c)
<1> DEFINE x == St(m, t, i, r, c)
           op == Ctx!SubmitOr(cmd, fence, V)
<1>0. x = St(m, t, i, r, c) /\ x.m = m /\ x.t = t /\ x.i = i /\ x.r = r /\ x.c = c
  BY DEF St
<1>1. op.op = "submit" /\ op.obj = {} /\ op.uses = {cmd, fence} /\ op.undo = V
      /\ op.fallible = TRUE
  BY DEF Ctx!SubmitOr, Ctx!Call
<1> HIDE DEF x, op
<1>2. Ok(k, x, op)
  BY <1>1, <1>0 DEF Ok, Sound
<1>3. After(k, x, op) = St(m, t, r, <<>>, c)
  BY <1>1, <1>0 DEF After
<1>4. Sound(k, m, t, r, <<>>, c)
  BY NoPics DEF Sound, Shape
<1> QED BY <1>2, <1>3, <1>4, RunsOne DEF x, op

-----------------------------------------------------------------------------
(* Several calls *)

\* Tuples, member after member.
LEMMA Tuple2 ==
  ASSUME NEW a, NEW b
  PROVE  <<a, b>> = <<a>> \o <<b>>
<1>1. <<a>> \in Seq({a}) /\ <<a, b>> \in Seq({a, b})
  OBVIOUS
<1>2. IsSeq(<<a>>) /\ IsSeq(<<a, b>>)
  BY <1>1, IsSeqOf
<1>3. Len(<<a>>) = 1 /\ Len(<<a, b>>) = 2 /\ <<a, b>>[2] = b
  OBVIOUS
<1>4. \A i0 \in 1 .. Len(<<a>>) : <<a, b>>[i0] = <<a>>[i0]
  BY <1>3
<1>5. Len(<<a, b>>) = Len(<<a>>) + 1 /\ <<a, b>>[Len(<<a>>) + 1] = b
  BY <1>3
<1> QED BY <1>2, <1>4, <1>5, Snoc

\* The same, one longer.
LEMMA Tuple3 ==
  ASSUME NEW a, NEW b, NEW c
  PROVE  <<a, b, c>> = <<a, b>> \o <<c>>
<1>1. <<a, b>> \in Seq({a, b}) /\ <<a, b, c>> \in Seq({a, b, c})
  OBVIOUS
<1>2. IsSeq(<<a, b>>) /\ IsSeq(<<a, b, c>>)
  BY <1>1, IsSeqOf
<1>3. Len(<<a, b>>) = 2 /\ Len(<<a, b, c>>) = 3 /\ <<a, b, c>>[3] = c
  OBVIOUS
<1>4. \A i0 \in 1 .. 2 : <<a, b, c>>[i0] = <<a, b>>[i0]
  OBVIOUS
<1> QED BY <1>2, <1>3, <1>4, Snoc

\* The same, one longer.
LEMMA Tuple4 ==
  ASSUME NEW a, NEW b, NEW c, NEW d
  PROVE  <<a, b, c, d>> = <<a, b, c>> \o <<d>>
<1>1. <<a, b, c>> \in Seq({a, b, c}) /\ <<a, b, c, d>> \in Seq({a, b, c, d})
  OBVIOUS
<1>2. IsSeq(<<a, b, c>>) /\ IsSeq(<<a, b, c, d>>)
  BY <1>1, IsSeqOf
<1>3. Len(<<a, b, c>>) = 3 /\ Len(<<a, b, c, d>>) = 4 /\ <<a, b, c, d>>[4] = d
  OBVIOUS
<1>4. \A i0 \in 1 .. 3 : <<a, b, c, d>>[i0] = <<a, b, c>>[i0]
  OBVIOUS
<1> QED BY <1>2, <1>3, <1>4, Snoc

\* The same, one longer.
LEMMA Tuple5 ==
  ASSUME NEW a, NEW b, NEW c, NEW d, NEW e
  PROVE  <<a, b, c, d, e>> = <<a, b, c, d>> \o <<e>>
<1>1. <<a, b, c, d>> \in Seq({a, b, c, d}) /\ <<a, b, c, d, e>> \in Seq({a, b, c, d, e})
  OBVIOUS
<1>2. IsSeq(<<a, b, c, d>>) /\ IsSeq(<<a, b, c, d, e>>)
  BY <1>1, IsSeqOf
<1>3. Len(<<a, b, c, d>>) = 4 /\ Len(<<a, b, c, d, e>>) = 5 /\ <<a, b, c, d, e>>[5] = e
  OBVIOUS
<1>4. \A i0 \in 1 .. 4 : <<a, b, c, d, e>>[i0] = <<a, b, c, d>>[i0]
  OBVIOUS
<1> QED BY <1>2, <1>3, <1>4, Snoc

\* Three functions in a row.
LEMMA Cat3 ==
  ASSUME NEW k, NEW s1, NEW s2, NEW s3,
         NEW x0, NEW x1, NEW x2, NEW x3,
         Runs(k, s1, x0, x1), Runs(k, s2, x1, x2), Runs(k, s3, x2, x3)
  PROVE  Runs(k, s1 \o s2 \o s3, x0, x3)
<1>1. Runs(k, s1 \o s2, x0, x2)
  BY RunsCat
<1> QED BY <1>1, RunsCat

\* Four functions in a row.
LEMMA Cat4 ==
  ASSUME NEW k, NEW s1, NEW s2, NEW s3, NEW s4,
         NEW x0, NEW x1, NEW x2, NEW x3, NEW x4,
         Runs(k, s1, x0, x1), Runs(k, s2, x1, x2), Runs(k, s3, x2, x3), Runs(k, s4, x3, x4)
  PROVE  Runs(k, s1 \o s2 \o s3 \o s4, x0, x4)
<1>1. Runs(k, s1 \o s2 \o s3, x0, x3)
  BY Cat3
<1> QED BY <1>1, RunsCat

\* Five functions in a row.
LEMMA Cat5 ==
  ASSUME NEW k, NEW s1, NEW s2, NEW s3, NEW s4, NEW s5,
         NEW x0, NEW x1, NEW x2, NEW x3, NEW x4, NEW x5,
         Runs(k, s1, x0, x1), Runs(k, s2, x1, x2), Runs(k, s3, x2, x3), Runs(k, s4, x3, x4),
         Runs(k, s5, x4, x5)
  PROVE  Runs(k, s1 \o s2 \o s3 \o s4 \o s5, x0, x5)
<1>1. Runs(k, s1 \o s2 \o s3 \o s4, x0, x4)
  BY Cat4
<1> QED BY <1>1, RunsCat

\* Six functions in a row.
LEMMA Cat6 ==
  ASSUME NEW k, NEW s1, NEW s2, NEW s3, NEW s4, NEW s5, NEW s6,
         NEW x0, NEW x1, NEW x2, NEW x3, NEW x4, NEW x5, NEW x6,
         Runs(k, s1, x0, x1), Runs(k, s2, x1, x2), Runs(k, s3, x2, x3), Runs(k, s4, x3, x4),
         Runs(k, s5, x4, x5), Runs(k, s6, x5, x6)
  PROVE  Runs(k, s1 \o s2 \o s3 \o s4 \o s5 \o s6, x0, x6)
<1>1. Runs(k, s1 \o s2 \o s3 \o s4 \o s5, x0, x5)
  BY Cat5
<1> QED BY <1>1, RunsCat

\* Seven functions in a row.
LEMMA Cat7 ==
  ASSUME NEW k, NEW s1, NEW s2, NEW s3, NEW s4, NEW s5, NEW s6, NEW s7,
         NEW x0, NEW x1, NEW x2, NEW x3, NEW x4, NEW x5, NEW x6, NEW x7,
         Runs(k, s1, x0, x1), Runs(k, s2, x1, x2), Runs(k, s3, x2, x3), Runs(k, s4, x3, x4),
         Runs(k, s5, x4, x5), Runs(k, s6, x5, x6), Runs(k, s7, x6, x7)
  PROVE  Runs(k, s1 \o s2 \o s3 \o s4 \o s5 \o s6 \o s7, x0, x7)
<1>1. Runs(k, s1 \o s2 \o s3 \o s4 \o s5 \o s6, x0, x6)
  BY Cat6
<1> QED BY <1>1, RunsCat

\* Eight functions in a row.
LEMMA Cat8 ==
  ASSUME NEW k, NEW s1, NEW s2, NEW s3, NEW s4, NEW s5, NEW s6, NEW s7, NEW s8,
         NEW x0, NEW x1, NEW x2, NEW x3, NEW x4, NEW x5, NEW x6, NEW x7, NEW x8,
         Runs(k, s1, x0, x1), Runs(k, s2, x1, x2), Runs(k, s3, x2, x3), Runs(k, s4, x3, x4),
         Runs(k, s5, x4, x5), Runs(k, s6, x5, x6), Runs(k, s7, x6, x7), Runs(k, s8, x7, x8)
  PROVE  Runs(k, s1 \o s2 \o s3 \o s4 \o s5 \o s6 \o s7 \o s8, x0, x8)
<1>1. Runs(k, s1 \o s2 \o s3 \o s4 \o s5 \o s6 \o s7, x0, x7)
  BY Cat7
<1> QED BY <1>1, RunsCat

\* Nine functions in a row.
LEMMA Cat9 ==
  ASSUME NEW k, NEW s1, NEW s2, NEW s3, NEW s4, NEW s5, NEW s6, NEW s7, NEW s8, NEW s9,
         NEW x0, NEW x1, NEW x2, NEW x3, NEW x4, NEW x5, NEW x6, NEW x7, NEW x8, NEW x9,
         Runs(k, s1, x0, x1), Runs(k, s2, x1, x2), Runs(k, s3, x2, x3), Runs(k, s4, x3, x4),
         Runs(k, s5, x4, x5), Runs(k, s6, x5, x6), Runs(k, s7, x6, x7), Runs(k, s8, x7, x8),
         Runs(k, s9, x8, x9)
  PROVE  Runs(k, s1 \o s2 \o s3 \o s4 \o s5 \o s6 \o s7 \o s8 \o s9, x0, x9)
<1>1. Runs(k, s1 \o s2 \o s3 \o s4 \o s5 \o s6 \o s7 \o s8, x0, x8)
  BY Cat8
<1> QED BY <1>1, RunsCat

\* Ten functions in a row.
LEMMA Cat10 ==
  ASSUME NEW k, NEW s1, NEW s2, NEW s3, NEW s4, NEW s5, NEW s6, NEW s7, NEW s8, NEW s9, NEW s10,
         NEW x0, NEW x1, NEW x2, NEW x3, NEW x4, NEW x5, NEW x6, NEW x7, NEW x8, NEW x9, NEW x10,
         Runs(k, s1, x0, x1), Runs(k, s2, x1, x2), Runs(k, s3, x2, x3), Runs(k, s4, x3, x4),
         Runs(k, s5, x4, x5), Runs(k, s6, x5, x6), Runs(k, s7, x6, x7), Runs(k, s8, x7, x8),
         Runs(k, s9, x8, x9), Runs(k, s10, x9, x10)
  PROVE  Runs(k, s1 \o s2 \o s3 \o s4 \o s5 \o s6 \o s7 \o s8 \o s9 \o s10, x0, x10)
<1>1. Runs(k, s1 \o s2 \o s3 \o s4 \o s5 \o s6 \o s7 \o s8 \o s9, x0, x9)
  BY Cat9
<1> QED BY <1>1, RunsCat

\* Two calls in a row.
LEMMA Calls2 ==
  ASSUME NEW k, NEW a, NEW b,
         NEW x0, NEW x1, NEW x2,
         Runs(k, <<a>>, x0, x1), Runs(k, <<b>>, x1, x2)
  PROVE  Runs(k, <<a, b>>, x0, x2)
  BY Tuple2, RunsCat

\* Three calls in a row.
LEMMA Calls3 ==
  ASSUME NEW k, NEW a, NEW b, NEW c,
         NEW x0, NEW x1, NEW x2, NEW x3,
         Runs(k, <<a>>, x0, x1), Runs(k, <<b>>, x1, x2), Runs(k, <<c>>, x2, x3)
  PROVE  Runs(k, <<a, b, c>>, x0, x3)
<1>1. Runs(k, <<a, b>>, x0, x2)
  BY Calls2
<1>2. <<a, b, c>> = <<a, b>> \o <<c>>
  BY Tuple3, Zenon
<1>3. Runs(k, <<a, b>> \o <<c>>, x0, x3)
  BY <1>1, RunsCat
<1> QED BY <1>2, <1>3

\* Four calls in a row.
LEMMA Calls4 ==
  ASSUME NEW k, NEW a, NEW b, NEW c, NEW d,
         NEW x0, NEW x1, NEW x2, NEW x3, NEW x4,
         Runs(k, <<a>>, x0, x1), Runs(k, <<b>>, x1, x2), Runs(k, <<c>>, x2, x3), Runs(k, <<d>>, x3, x4)
  PROVE  Runs(k, <<a, b, c, d>>, x0, x4)
<1>1. Runs(k, <<a, b, c>>, x0, x3)
  BY Calls3
<1>2. <<a, b, c, d>> = <<a, b, c>> \o <<d>>
  BY Tuple4, Zenon
<1>3. Runs(k, <<a, b, c>> \o <<d>>, x0, x4)
  BY <1>1, RunsCat
<1> QED BY <1>2, <1>3

\* Five calls in a row.
LEMMA Calls5 ==
  ASSUME NEW k, NEW a, NEW b, NEW c, NEW d, NEW e,
         NEW x0, NEW x1, NEW x2, NEW x3, NEW x4, NEW x5,
         Runs(k, <<a>>, x0, x1), Runs(k, <<b>>, x1, x2), Runs(k, <<c>>, x2, x3), Runs(k, <<d>>, x3,
         x4), Runs(k, <<e>>, x4, x5)
  PROVE  Runs(k, <<a, b, c, d, e>>, x0, x5)
<1>1. Runs(k, <<a, b, c, d>>, x0, x4)
  BY Calls4
<1>2. <<a, b, c, d, e>> = <<a, b, c, d>> \o <<e>>
  BY Tuple5, Zenon
<1>3. Runs(k, <<a, b, c, d>> \o <<e>>, x0, x5)
  BY <1>1, RunsCat
<1> QED BY <1>2, <1>3

\* Six calls in a row.
LEMMA Calls6 ==
  ASSUME NEW k, NEW a, NEW b, NEW c, NEW d, NEW e, NEW f,
         NEW x0, NEW x1, NEW x2, NEW x3, NEW x4, NEW x5, NEW x6,
         Runs(k, <<a>>, x0, x1), Runs(k, <<b>>, x1, x2), Runs(k, <<c>>, x2, x3), Runs(k, <<d>>, x3,
         x4), Runs(k, <<e>>, x4, x5), Runs(k, <<f>>, x5, x6)
  PROVE  Runs(k, <<a, b, c, d, e, f>>, x0, x6)
<1>1. Runs(k, <<a, b, c, d, e>>, x0, x5)
  BY Calls5
<1>2. <<a, b, c, d, e, f>> = <<a, b, c, d, e>> \o <<f>>
  <2>1. <<a, b, c, d, e>> \in Seq({a, b, c, d, e}) /\ <<a, b, c, d, e, f>> \in Seq({a, b, c, d, e, f})
    OBVIOUS
  <2>2. IsSeq(<<a, b, c, d, e>>) /\ IsSeq(<<a, b, c, d, e, f>>)
    BY <2>1, IsSeqOf
  <2>3. Len(<<a, b, c, d, e>>) = 5 /\ Len(<<a, b, c, d, e, f>>) = 6 /\ <<a, b, c, d, e, f>>[6] = f
    OBVIOUS
  <2>4. \A i0 \in 1 .. 5 : <<a, b, c, d, e, f>>[i0] = <<a, b, c, d, e>>[i0]
    OBVIOUS
  <2> QED BY <2>2, <2>3, <2>4, Snoc
<1>3. Runs(k, <<a, b, c, d, e>> \o <<f>>, x0, x6)
  BY <1>1, RunsCat
<1> QED BY <1>2, <1>3

\* Seven calls in a row.
LEMMA Calls7 ==
  ASSUME NEW k, NEW a, NEW b, NEW c, NEW d, NEW e, NEW f, NEW g,
         NEW x0, NEW x1, NEW x2, NEW x3, NEW x4, NEW x5, NEW x6, NEW x7,
         Runs(k, <<a>>, x0, x1), Runs(k, <<b>>, x1, x2), Runs(k, <<c>>, x2, x3), Runs(k, <<d>>, x3,
         x4), Runs(k, <<e>>, x4, x5), Runs(k, <<f>>, x5, x6), Runs(k, <<g>>, x6, x7)
  PROVE  Runs(k, <<a, b, c, d, e, f, g>>, x0, x7)
<1>1. Runs(k, <<a, b, c, d, e, f>>, x0, x6)
  BY Calls6
<1>2. <<a, b, c, d, e, f, g>> = <<a, b, c, d, e, f>> \o <<g>>
  <2>1. <<a, b, c, d, e, f>> \in Seq({a, b, c, d, e, f}) /\ <<a, b, c, d, e, f, g>> \in Seq({a, b,
        c, d, e, f, g})
    OBVIOUS
  <2>2. IsSeq(<<a, b, c, d, e, f>>) /\ IsSeq(<<a, b, c, d, e, f, g>>)
    BY <2>1, IsSeqOf
  <2>3. Len(<<a, b, c, d, e, f>>) = 6 /\ Len(<<a, b, c, d, e, f, g>>) = 7 /\ <<a, b, c, d, e, f,
        g>>[7] = g
    OBVIOUS
  <2>4. \A i0 \in 1 .. 6 : <<a, b, c, d, e, f, g>>[i0] = <<a, b, c, d, e, f>>[i0]
    OBVIOUS
  <2> QED BY <2>2, <2>3, <2>4, Snoc
<1>3. Runs(k, <<a, b, c, d, e, f>> \o <<g>>, x0, x7)
  BY <1>1, RunsCat
<1> QED BY <1>2, <1>3

\* Eight calls in a row.
LEMMA Calls8 ==
  ASSUME NEW k, NEW a, NEW b, NEW c, NEW d, NEW e, NEW f, NEW g, NEW h,
         NEW x0, NEW x1, NEW x2, NEW x3, NEW x4, NEW x5, NEW x6, NEW x7, NEW x8,
         Runs(k, <<a>>, x0, x1), Runs(k, <<b>>, x1, x2), Runs(k, <<c>>, x2, x3), Runs(k, <<d>>, x3,
         x4), Runs(k, <<e>>, x4, x5), Runs(k, <<f>>, x5, x6), Runs(k, <<g>>, x6, x7), Runs(k,
         <<h>>, x7, x8)
  PROVE  Runs(k, <<a, b, c, d, e, f, g, h>>, x0, x8)
<1>1. Runs(k, <<a, b, c, d, e, f, g>>, x0, x7)
  BY Calls7
<1>2. <<a, b, c, d, e, f, g, h>> = <<a, b, c, d, e, f, g>> \o <<h>>
  <2>1. <<a, b, c, d, e, f, g>> \in Seq({a, b, c, d, e, f, g}) /\ <<a, b, c, d, e, f, g,
        h>> \in Seq({a, b, c, d, e, f, g, h})
    OBVIOUS
  <2>2. IsSeq(<<a, b, c, d, e, f, g>>) /\ IsSeq(<<a, b, c, d, e, f, g, h>>)
    BY <2>1, IsSeqOf
  <2>3. Len(<<a, b, c, d, e, f, g>>) = 7 /\ Len(<<a, b, c, d, e, f, g, h>>) = 8 /\ <<a, b, c, d, e,
        f, g, h>>[8] = h
    OBVIOUS
  <2>4. \A i0 \in 1 .. 7 : <<a, b, c, d, e, f, g, h>>[i0] = <<a, b, c, d, e, f, g>>[i0]
    OBVIOUS
  <2> QED BY <2>2, <2>3, <2>4, Snoc
<1>3. Runs(k, <<a, b, c, d, e, f, g>> \o <<h>>, x0, x8)
  BY <1>1, RunsCat
<1> QED BY <1>2, <1>3

\* Nine calls in a row.
LEMMA Calls9 ==
  ASSUME NEW k, NEW a, NEW b, NEW c, NEW d, NEW e, NEW f, NEW g, NEW h, NEW i,
         NEW x0, NEW x1, NEW x2, NEW x3, NEW x4, NEW x5, NEW x6, NEW x7, NEW x8, NEW x9,
         Runs(k, <<a>>, x0, x1), Runs(k, <<b>>, x1, x2), Runs(k, <<c>>, x2, x3), Runs(k, <<d>>, x3,
         x4), Runs(k, <<e>>, x4, x5), Runs(k, <<f>>, x5, x6), Runs(k, <<g>>, x6, x7), Runs(k,
         <<h>>, x7, x8), Runs(k, <<i>>, x8, x9)
  PROVE  Runs(k, <<a, b, c, d, e, f, g, h, i>>, x0, x9)
<1>1. Runs(k, <<a, b, c, d, e, f, g, h>>, x0, x8)
  BY Calls8
<1>2. <<a, b, c, d, e, f, g, h, i>> = <<a, b, c, d, e, f, g, h>> \o <<i>>
  <2>1. <<a, b, c, d, e, f, g, h>> \in Seq({a, b, c, d, e, f, g, h}) /\ <<a, b, c, d, e, f, g, h,
        i>> \in Seq({a, b, c, d, e, f, g, h, i})
    OBVIOUS
  <2>2. IsSeq(<<a, b, c, d, e, f, g, h>>) /\ IsSeq(<<a, b, c, d, e, f, g, h, i>>)
    BY <2>1, IsSeqOf
  <2>3. Len(<<a, b, c, d, e, f, g, h>>) = 8 /\ Len(<<a, b, c, d, e, f, g, h, i>>) = 9 /\ <<a, b, c,
        d, e, f, g, h, i>>[9] = i
    OBVIOUS
  <2>4. \A i0 \in 1 .. 8 : <<a, b, c, d, e, f, g, h, i>>[i0] = <<a, b, c, d, e, f, g, h>>[i0]
    OBVIOUS
  <2> QED BY <2>2, <2>3, <2>4, Snoc
<1>3. Runs(k, <<a, b, c, d, e, f, g, h>> \o <<i>>, x0, x9)
  BY <1>1, RunsCat
<1> QED BY <1>2, <1>3

\* Ten calls in a row.
LEMMA Calls10 ==
  ASSUME NEW k, NEW a, NEW b, NEW c, NEW d, NEW e, NEW f, NEW g, NEW h, NEW i, NEW j,
         NEW x0, NEW x1, NEW x2, NEW x3, NEW x4, NEW x5, NEW x6, NEW x7, NEW x8, NEW x9, NEW x10,
         Runs(k, <<a>>, x0, x1), Runs(k, <<b>>, x1, x2), Runs(k, <<c>>, x2, x3), Runs(k, <<d>>, x3,
         x4), Runs(k, <<e>>, x4, x5), Runs(k, <<f>>, x5, x6), Runs(k, <<g>>, x6, x7), Runs(k,
         <<h>>, x7, x8), Runs(k, <<i>>, x8, x9), Runs(k, <<j>>, x9, x10)
  PROVE  Runs(k, <<a, b, c, d, e, f, g, h, i, j>>, x0, x10)
<1>1. Runs(k, <<a, b, c, d, e, f, g, h, i>>, x0, x9)
  BY Calls9
<1>2. <<a, b, c, d, e, f, g, h, i, j>> = <<a, b, c, d, e, f, g, h, i>> \o <<j>>
  <2>1. <<a, b, c, d, e, f, g, h, i>> \in Seq({a, b, c, d, e, f, g, h, i}) /\ <<a, b, c, d, e, f,
        g, h, i, j>> \in Seq({a, b, c, d, e, f, g, h, i, j})
    OBVIOUS
  <2>2. IsSeq(<<a, b, c, d, e, f, g, h, i>>) /\ IsSeq(<<a, b, c, d, e, f, g, h, i, j>>)
    BY <2>1, IsSeqOf
  <2>3. Len(<<a, b, c, d, e, f, g, h, i>>) = 9 /\ Len(<<a, b, c, d, e, f, g, h, i,
        j>>) = 10 /\ <<a, b, c, d, e, f, g, h, i, j>>[10] = j
    OBVIOUS
  <2>4. \A i0 \in 1 .. 9 : <<a, b, c, d, e, f, g, h, i, j>>[i0] = <<a, b, c, d, e, f, g, h, i>>[i0]
    OBVIOUS
  <2> QED BY <2>2, <2>3, <2>4, Snoc
<1>3. Runs(k, <<a, b, c, d, e, f, g, h, i>> \o <<j>>, x0, x10)
  BY <1>1, RunsCat
<1> QED BY <1>2, <1>3

\* Eight calls, then seven.
LEMMA Calls15 ==
  ASSUME NEW k, NEW a1, NEW a2, NEW a3, NEW a4, NEW a5, NEW a6, NEW a7, NEW a8,
         NEW a9, NEW a10, NEW a11, NEW a12, NEW a13, NEW a14, NEW a15, NEW x, NEW y, NEW z,
         Runs(k, <<a1, a2, a3, a4, a5, a6, a7, a8>>, x, y), Runs(k, <<a9, a10, a11, a12, a13, a14,
         a15>>, y, z)
  PROVE  Runs(k, <<a1, a2, a3, a4, a5, a6, a7, a8,
                    a9, a10, a11, a12, a13, a14, a15>>, x, z)
<1> DEFINE s == <<a1, a2, a3, a4, a5, a6, a7, a8>>
           u == <<a9, a10, a11, a12, a13, a14, a15>>
           w == <<a1, a2, a3, a4, a5, a6, a7, a8,
                    a9, a10, a11, a12, a13, a14, a15>>
           S == {a1, a2, a3, a4, a5, a6, a7, a8,
                 a9, a10, a11, a12, a13, a14, a15}
<1>1. s \in Seq(S) /\ u \in Seq(S) /\ w \in Seq(S) /\ Len(s) = 8 /\ Len(u) = 7 /\ Len(w) = 15
  OBVIOUS
<1>2. \A i \in 1 .. 8 : w[i] = s[i]
  OBVIOUS
<1>3. \A i \in 9 .. 15 : w[i] = u[i - 8]
  OBVIOUS
<1> HIDE DEF s, u, w, S
<1>4. /\ s \o u \in Seq(S) /\ Len(s \o u) = Len(s) + Len(u)
      /\ \A i \in 1 .. (Len(s) + Len(u)) :
           (s \o u)[i] = IF i <= Len(s) THEN s[i] ELSE u[i - Len(s)]
  BY <1>1, ConcatProperties
<1>5. ASSUME NEW i \in 1 .. Len(w)
      PROVE  w[i] = (s \o u)[i]
  <2>1. i \in Int /\ i \in 1 .. (Len(s) + Len(u))
    BY <1>1
  <2>2. CASE i <= 8
    <3>1. i \in 1 .. 8 /\ i <= Len(s)
      BY <1>1, <2>1, <2>2
    <3> QED BY <1>2, <1>4, <2>1, <3>1
  <2>3. CASE i > 8
    <3>1. i \in 9 .. 15 /\ ~(i <= Len(s)) /\ i - Len(s) = i - 8
      BY <1>1, <2>1, <2>3
    <3> QED BY <1>3, <1>4, <2>1, <3>1
  <2> QED BY <2>1, <2>2, <2>3
<1>6. w = s \o u
  <2>1. Len(w) = Len(s \o u)
    BY <1>1, <1>4
  <2> QED BY <1>1, <1>4, <1>5, <2>1, SeqEqual
<1>7. Runs(k, s \o u, x, z)
  BY RunsCat DEF s, u
<1> QED BY <1>6, <1>7 DEF w

-----------------------------------------------------------------------------
(* The helpers of VulkanContext *)

\* Where an operation of a component that has its context is.
At(k, m, t, i, r, c) == Sound(k, m, t, i, r, c) /\ Ctx!Fields \subseteq m

\* The handle is new and is no image.
Plain(m, t, h) == Fresh(m, t, h) /\ h \notin DpbImages

\* A new handle of a component that has its context may be made from the device.
LEMMA MadeFromDevice ==
  ASSUME NEW m, NEW t, NEW h, Ctx!Fields \subseteq m, Fresh(m, t, h)
  PROVE  \A p \in {Ctx!Device} : Origin(h, p)
  BY DEF Fresh, Origin, Ctx!Fields

\* Make and MakeOr with the device, for a handle that is no image.
LEMMA MakePlain ==
  ASSUME NEW k, NEW m, NEW t, NEW i, NEW r, NEW c, NEW h, NEW V,
         At(k, m, t, i, r, c), Plain(m, t, h), V \subseteq t
  PROVE  /\ Runs(k, <<Ctx!MakeOr(h, {Ctx!Device}, V)>>, St(m, t, i, r, c), St(m, t \cup {h}, i, r, c))
         /\ At(k, m, t \cup {h}, i, r, c)
<1>1. Ctx!Device \in m
  BY DEF At, Ctx!Fields
<1>2. \A p \in {Ctx!Device} : Origin(h, p)
  BY MadeFromDevice DEF At, Plain
<1> QED BY <1>1, <1>2, MakeRuns DEF At, Plain

\* The same, when a failure undoes nothing.
LEMMA MakePlain0 ==
  ASSUME NEW k, NEW m, NEW t, NEW i, NEW r, NEW c, NEW h,
         At(k, m, t, i, r, c), Plain(m, t, h)
  PROVE  /\ Runs(k, <<Ctx!Make(h, {Ctx!Device})>>, St(m, t, i, r, c), St(m, t \cup {h}, i, r, c))
         /\ At(k, m, t \cup {h}, i, r, c)
  BY MakePlain DEF Ctx!Make

\* TryOr, in a component that has its context.
LEMMA Tries ==
  ASSUME NEW k, NEW m, NEW t, NEW i, NEW r, NEW c, NEW U, NEW V,
         At(k, m, t, i, r, c), U \subseteq m \cup t, V \subseteq t
  PROVE  Runs(k, <<Ctx!TryOr(U, V)>>, St(m, t, i, r, c), St(m, t, i, r, c))
  BY TryRuns DEF At

\* Try, in a component that has its context.
LEMMA Tries0 ==
  ASSUME NEW k, NEW m, NEW t, NEW i, NEW r, NEW c, NEW U,
         At(k, m, t, i, r, c), U \subseteq m \cup t
  PROVE  Runs(k, <<Ctx!Try(U)>>, St(m, t, i, r, c), St(m, t, i, r, c))
  BY Tries DEF Ctx!Try

\* Use, in a component that has its context.
LEMMA Uses ==
  ASSUME NEW k, NEW m, NEW t, NEW i, NEW r, NEW c, NEW U,
         At(k, m, t, i, r, c), U \subseteq m \cup t
  PROVE  Runs(k, <<Ctx!Use(U)>>, St(m, t, i, r, c), St(m, t, i, r, c))
  BY UseRuns DEF At, Sound

\* create_buffer leaves a buffer and its memory to its caller.
LEMMA CreateBuffer ==
  ASSUME NEW k, NEW m, NEW t, NEW i, NEW r, NEW c, NEW b, NEW mem,
         At(k, m, t, i, r, c), Plain(m, t, b), Plain(m, t, mem), b # mem
  PROVE  /\ Runs(k, Ctx!create_buffer(b, mem), St(m, t, i, r, c), St(m, t \cup {b, mem}, i, r, c))
         /\ At(k, m, t \cup {b, mem}, i, r, c)
<1> DEFINE S(tt, ii, rr) == St(m, tt, ii, rr, c)
<1> DEFINE t1 == t \cup {b}
           t2 == t1 \cup {mem}
<1>0. t2 = t \cup {b, mem} /\ {b} \subseteq t1 /\ {b, mem} \subseteq t2 /\ {} \subseteq t1 \cup m
  OBVIOUS
<1>1. /\ Runs(k, <<Ctx!Make(b, {Ctx!Device})>>, S(t, i, r), S(t1, i, r))
      /\ At(k, m, t1, i, r, c)
  BY MakePlain0
<1>2. Plain(m, t1, mem)
  BY DEF Plain, Fresh
<1> HIDE DEF t1
<1>3. Runs(k, <<Ctx!TryOr({}, {b})>>, S(t1, i, r), S(t1, i, r))
  BY <1>0, <1>1, Tries
<1>4. /\ Runs(k, <<Ctx!MakeOr(mem, {Ctx!Device}, {b})>>, S(t1, i, r), S(t2, i, r))
      /\ At(k, m, t2, i, r, c)
  BY <1>0, <1>1, <1>2, MakePlain
<1> HIDE DEF t2
<1>5. Runs(k, <<Ctx!TryOr({b, mem}, {b, mem})>>, S(t2, i, r), S(t2, i, r))
  BY <1>0, <1>4, Tries
<1>6. Runs(k, Ctx!create_buffer(b, mem), S(t, i, r), S(t2, i, r))
  BY <1>1, <1>3, <1>4, <1>5, Calls4 DEF Ctx!create_buffer
<1> QED BY <1>0, <1>4, <1>6

\* create_image leaves an image and its memory to its caller.
LEMMA CreateImage ==
  ASSUME NEW k, NEW m, NEW t, NEW i, NEW r, NEW c, NEW h, NEW mem, NEW e,
         At(k, m, t, i, r, c), Plain(m, t, h), Plain(m, t, mem), h # mem, e # 0
  PROVE  /\ Runs(k, Ctx!create_image(h, mem, e), St(m, t, i, r, c),
                 St(m, t \cup {h, mem}, Put(i, h, Pic("UNDEFINED", FALSE, e)), r, c))
         /\ At(k, m, t \cup {h, mem}, Put(i, h, Pic("UNDEFINED", FALSE, e)), r, c)
<1> DEFINE S(tt, ii, rr) == St(m, tt, ii, rr, c)
<1> DEFINE t1 == t \cup {h}
           t2 == t1 \cup {mem}
           j == Put(i, h, Pic("UNDEFINED", FALSE, e))
<1>0. t2 = t \cup {h, mem} /\ {h} \subseteq t1 /\ {h, mem} \subseteq t2 /\ {} \subseteq t1 \cup m
  OBVIOUS
<1>1. Origin(h, Ctx!Device) /\ Ctx!Device \in m /\ Fresh(m, t, h)
  BY MadeFromDevice DEF At, Plain, Ctx!Fields
<1>2. /\ Runs(k, <<Ctx!MakeImage(h, e)>>, S(t, i, r), S(t1, j, r))
      /\ At(k, m, t1, j, r, c)
  BY <1>1, MakeImageRuns DEF At
<1>3. Plain(m, t1, mem)
  BY DEF Plain, Fresh
<1> HIDE DEF t1, j
<1>4. Runs(k, <<Ctx!TryOr({}, {h})>>, S(t1, j, r), S(t1, j, r))
  BY <1>0, <1>2, Tries
<1>5. /\ Runs(k, <<Ctx!MakeOr(mem, {Ctx!Device}, {h})>>, S(t1, j, r), S(t2, j, r))
      /\ At(k, m, t2, j, r, c)
  BY <1>0, <1>2, <1>3, MakePlain
<1> HIDE DEF t2
<1>6. Runs(k, <<Ctx!TryOr({h, mem}, {h, mem})>>, S(t2, j, r), S(t2, j, r))
  BY <1>0, <1>5, Tries
<1>7. Runs(k, Ctx!create_image(h, mem, e), S(t, i, r), S(t2, j, r))
  BY <1>2, <1>4, <1>5, <1>6, Calls4 DEF Ctx!create_image
<1> QED BY <1>0, <1>5, <1>7 DEF j

\* allocate_command_buffer leaves a command buffer to its caller.
LEMMA AllocateCommandBuffer ==
  ASSUME NEW k, NEW m, NEW t, NEW i, NEW r, NEW c, NEW h,
         At(k, m, t, i, r, c), Plain(m, t, h), h \in CmdBuffers
  PROVE  /\ Runs(k, Ctx!allocate_command_buffer(h), St(m, t, i, r, c), St(m, t \cup {h}, i, r, c))
         /\ At(k, m, t \cup {h}, i, r, c)
<1>1. Ctx!CommandPool \in m
  BY DEF At, Ctx!Fields
<1>2. \A p \in {Ctx!CommandPool} : Origin(h, p)
  BY DEF Origin
<1> QED BY <1>1, <1>2, MakeRuns DEF At, Plain, Ctx!allocate_command_buffer, Ctx!Make

\* Nothing is made from it.
Barren(h) == \A g : ~Origin(g, h)

\* A local that is no image is destroyed.
LEMMA FreePlain ==
  ASSUME NEW k, NEW m, NEW t, NEW i, NEW c, NEW h,
         At(k, m, t, i, <<>>, c), h \in t, h \notin m, Barren(h), h \notin DOMAIN i
  PROVE  /\ Runs(k, <<Ctx!Free(h)>>, St(m, t, i, <<>>, c), St(m, t \ {h}, i, <<>>, c))
         /\ At(k, m, t \ {h}, i, <<>>, c)
<1>1. Childless(k, m, t, {h})
  BY DEF Barren, Childless
<1> QED BY <1>1, FreePlainRuns DEF At

\* submit_and_wait destroys its fence, and what was recorded has happened.
LEMMA SubmitAndWait ==
  ASSUME NEW k, NEW m, NEW t, NEW i, NEW r, NEW c, NEW cmd,
         At(k, m, t, i, r, c), Rest(k, m, r, c), cmd \in m \cup t,
         Plain(m, t, <<"fence">>)
  PROVE  /\ Runs(k, Ctx!submit_and_wait(cmd), St(m, t, i, r, c), St(m, t, r, <<>>, c))
         /\ At(k, m, t, r, <<>>, c)
<1> DEFINE f == <<"fence">>
           t1 == t \cup {f}
<1>1. /\ Runs(k, <<Ctx!Make(f, {Ctx!Device})>>, St(m, t, i, r, c), St(m, t1, i, r, c))
      /\ At(k, m, t1, i, r, c)
  BY MakePlain0
<1>2. {cmd, f} \subseteq m \cup t1 /\ {f} \subseteq t1
  OBVIOUS
<1>3. /\ Runs(k, <<Ctx!SubmitOr(cmd, f, {f})>>, St(m, t1, i, r, c), St(m, t1, r, <<>>, c))
      /\ At(k, m, t1, r, <<>>, c)
  BY <1>1, <1>2, SubmitRuns DEF At
<1>4. Barren(f)
  BY DEF Barren, Origin, Ctx!Instance, Ctx!Device, Ctx!CommandPool, Fsr2!DescPool, Native!Image,
         H264!Session, H264!CmdPool, H264!DpbImage, External
<1>5. f \notin DOMAIN r /\ f \notin m /\ f \in t1 /\ t1 \ {f} = t
  BY DEF Plain, Fresh, At, Sound, Shape, Pics
<1> HIDE DEF f, t1
<1>6. /\ Runs(k, <<Ctx!Free(f)>>, St(m, t1, r, <<>>, c), St(m, t, r, <<>>, c))
      /\ At(k, m, t, r, <<>>, c)
  BY <1>3, <1>4, <1>5, FreePlain
<1> QED BY <1>1, <1>3, <1>6, Calls3 DEF Ctx!submit_and_wait, f

-----------------------------------------------------------------------------
(* Images in use *)

\* The picture of h is known.
Is(f, h, layout, defined, extent) == h \in DOMAIN f /\ f[h] = Pic(layout, defined, extent)

\* Put makes the picture known.
LEMMA IsPut ==
  ASSUME NEW f, NEW h, NEW l, NEW d, NEW e
  PROVE  Is(Put(f, h, Pic(l, d, e)), h, l, d, e)
  BY DEF Put, Is

\* Another picture stays known.
LEMMA IsKept ==
  ASSUME NEW f, NEW h, NEW p, NEW g, NEW l, NEW d, NEW e, Is(f, g, l, d, e), g # h
  PROVE  Is(Put(f, h, p), g, l, d, e)
  BY DEF Put, Is

\* Begin, in a component that has its context.
LEMMA Begins ==
  ASSUME NEW k, NEW m, NEW t, NEW i, NEW r, NEW c, NEW cmd,
         At(k, m, t, i, r, c), cmd \in m \cup t
  PROVE  /\ Runs(k, <<Ctx!Begin(cmd)>>, St(m, t, i, r, c), St(m, t, i, i, c))
         /\ At(k, m, t, i, i, c) /\ Rest(k, m, i, c)
  BY BeginRuns DEF At

\* A transition from UNDEFINED discards the contents.
LEMMA Discard ==
  ASSUME NEW k, NEW m, NEW t, NEW i, NEW r, NEW c, NEW cmd, NEW h, NEW to,
         NEW l, NEW d, NEW e,
         At(k, m, t, i, r, c), cmd \in m \cup t, Is(r, h, l, d, e)
  PROVE  /\ Runs(k, <<Ctx!Barrier(cmd, h, "UNDEFINED", to)>>, St(m, t, i, r, c),
                 St(m, t, i, Put(r, h, Pic(to, FALSE, e)), c))
         /\ At(k, m, t, i, Put(r, h, Pic(to, FALSE, e)), c)
<1>1. h \in DOMAIN r /\ r[h].extent = e
  BY PicFacts DEF Is
<1> QED BY <1>1, DiscardRuns DEF At

\* A transition from the layout the image is in keeps its contents.
LEMMA Transition ==
  ASSUME NEW k, NEW m, NEW t, NEW i, NEW r, NEW c, NEW cmd, NEW h, NEW from, NEW to,
         NEW d, NEW e,
         At(k, m, t, i, r, c), cmd \in m \cup t, Is(r, h, from, d, e), from # "UNDEFINED"
  PROVE  /\ Runs(k, <<Ctx!Barrier(cmd, h, from, to)>>, St(m, t, i, r, c),
                 St(m, t, i, Put(r, h, Pic(to, d, e)), c))
         /\ At(k, m, t, i, Put(r, h, Pic(to, d, e)), c)
<1>1. h \in DOMAIN r /\ r[h].extent = e /\ r[h].layout = from /\ r[h].defined = d
  BY PicFacts DEF Is
<1>2. Sound(k, m, t, i, r, c) /\ Ctx!Fields \subseteq m /\ from = r[h].layout
  BY <1>1 DEF At
<1>3. /\ Runs(k, <<Ctx!Barrier(cmd, h, from, to)>>, St(m, t, i, r, c),
               St(m, t, i, Put(r, h, Pic(to, r[h].defined, r[h].extent)), c))
      /\ Sound(k, m, t, i, Put(r, h, Pic(to, r[h].defined, r[h].extent)), c)
  BY <1>1, <1>2, BarrierRuns
<1> QED BY <1>1, <1>2, <1>3 DEF At

\* The SDK moves an image it was told is in COMPUTE_READ, and which is in GENERAL.
LEMMA TransitionTold ==
  ASSUME NEW k, NEW m, NEW t, NEW i, NEW r, NEW c, NEW cmd, NEW h, NEW to, NEW d, NEW e,
         At(k, m, t, i, r, c), cmd \in m \cup t, Is(r, h, "GENERAL", d, e), h \in Mistold
  PROVE  /\ Runs(k, <<Ctx!Barrier(cmd, h, Ctx!ComputeRead, to)>>, St(m, t, i, r, c),
                 St(m, t, i, Put(r, h, Pic(to, d, e)), c))
         /\ At(k, m, t, i, Put(r, h, Pic(to, d, e)), c)
<1>1. h \in DOMAIN r /\ r[h].extent = e /\ r[h].layout = "GENERAL" /\ r[h].defined = d
  BY PicFacts DEF Is
<1>2. Sound(k, m, t, i, r, c) /\ Ctx!Fields \subseteq m /\ Told(h, Ctx!ComputeRead, r)
      /\ Ctx!ComputeRead # "UNDEFINED"
  BY <1>1 DEF At, Told, Ctx!ComputeRead
<1>3. /\ Runs(k, <<Ctx!Barrier(cmd, h, Ctx!ComputeRead, to)>>, St(m, t, i, r, c),
               St(m, t, i, Put(r, h, Pic(to, r[h].defined, r[h].extent)), c))
      /\ Sound(k, m, t, i, Put(r, h, Pic(to, r[h].defined, r[h].extent)), c)
  BY <1>1, <1>2, BarrierRuns
<1> QED BY <1>1, <1>2, <1>3 DEF At

\* A write to an image whose picture is known.
LEMMA Write ==
  ASSUME NEW k, NEW m, NEW t, NEW i, NEW r, NEW c, NEW cmd, NEW h, NEW layout,
         NEW d, NEW e, NEW e1,
         At(k, m, t, i, r, c), cmd \in m \cup t, Is(r, h, layout, d, e),
         k.comp # "fsr3" => e1 = e
  PROVE  /\ Runs(k, <<Ctx!Writes(cmd, h, layout, e1)>>, St(m, t, i, r, c),
                 St(m, t, i, Put(r, h, Pic(layout, TRUE, e)), c))
         /\ At(k, m, t, i, Put(r, h, Pic(layout, TRUE, e)), c)
<1>1. h \in DOMAIN r /\ r[h].extent = e /\ r[h].layout = layout
  BY PicFacts DEF Is
<1> QED BY <1>1, WritesRuns DEF At

\* A read of images whose pictures are known.
LEMMA Read ==
  ASSUME NEW k, NEW m, NEW t, NEW i, NEW r, NEW c, NEW cmd, NEW hs, NEW layout, NEW e,
         At(k, m, t, i, r, c), cmd \in m \cup t,
         \A h \in hs : Is(r, h, layout, TRUE, e)
  PROVE  Runs(k, <<Ctx!Reads(cmd, hs, layout, e)>>, St(m, t, i, r, c), St(m, t, i, r, c))
<1>1. \A h \in hs : /\ h \in DOMAIN r /\ r[h].extent = e /\ r[h].layout = layout
                    /\ r[h].defined = TRUE
  BY DEF Is, Pic
<1> QED BY <1>1, ReadsRuns DEF At, Sound

\* Few of the handles with a plain name have something made from them.
LEMMA Barren1 ==
  ASSUME NEW n, n \notin {"instance", "device", "command_pool", "desc_pool", "session",
                          "encode_cmd_pool"}
  PROVE  Barren(<<n>>)
  BY DEF Barren, Origin, Ctx!Instance, Ctx!Device, Ctx!CommandPool, Fsr2!DescPool, Native!Image,
         H264!Session, H264!CmdPool, H264!DpbImage, External

\* The same for the handles of arrays.
LEMMA Barren2 ==
  ASSUME NEW n, NEW q, q # "image", n \notin {"dpb_image", "input"}
  PROVE  Barren(<<n, q>>)
  BY DEF Barren, Origin, Ctx!Instance, Ctx!Device, Ctx!CommandPool, Fsr2!DescPool, Native!Image,
         H264!Session, H264!CmdPool, H264!DpbImage, External

\* A local is destroyed, an image too.
LEMMA FreeTemp ==
  ASSUME NEW k, NEW m, NEW t, NEW i, NEW c, NEW h,
         At(k, m, t, i, <<>>, c), h \in t, h \notin m, Childless(k, m, t, {h})
  PROVE  /\ Runs(k, <<Ctx!Free(h)>>, St(m, t, i, <<>>, c),
                 St(m, t \ {h}, Without(i, {h}), <<>>, c))
         /\ At(k, m, t \ {h}, Without(i, {h}), <<>>, c)
  BY FreeTempRuns DEF At

\* A handle nothing is made from can be destroyed at any time.
LEMMA BarrenChildless ==
  ASSUME NEW k, NEW m, NEW t, NEW h, Barren(h)
  PROVE  Childless(k, m, t, {h})
  BY DEF Barren, Childless

\* No picture has size 0.
LEMMA SizesPositive == \A e \in Sizes : e # 0
  BY GpuAssumption

\* upscale_blit gives back everything it makes, and finds its images as it left them.
LEMMA BlitRuns ==
  ASSUME NEW k, NEW i, NEW src \in Sizes, NEW dst \in Sizes,
         At(k, Ctx!Fields, {}, i, <<>>, NoSizes)
  PROVE  \E j : /\ Runs(k, Ctx!upscale_blit(src, dst), St(Ctx!Fields, {}, i, <<>>, NoSizes),
                        St(Ctx!Fields, {}, j, <<>>, NoSizes))
                /\ At(k, Ctx!Fields, {}, j, <<>>, NoSizes)
<1> DEFINE S(tt, ii, rr) == St(Ctx!Fields, tt, ii, rr, NoSizes)
<1> USE DEF Ctx!Instance, Ctx!Device, Ctx!CommandPool, Ctx!Fields, Ctx!Staging, Ctx!StagingMem,
            Ctx!SrcImage, Ctx!SrcImageMem,
           Ctx!DstImage, Ctx!DstImageMem, Ctx!Readback, Ctx!ReadbackMem, Ctx!BlitCmd
<1> DEFINE t1 == {Ctx!Staging, Ctx!StagingMem}
           t2 == {Ctx!Staging, Ctx!StagingMem, Ctx!SrcImage, Ctx!SrcImageMem}
           i1 == Put(i, Ctx!SrcImage, Pic("UNDEFINED", FALSE, src))
           t3 == {Ctx!Staging, Ctx!StagingMem, Ctx!SrcImage, Ctx!SrcImageMem, Ctx!DstImage,
            Ctx!DstImageMem}
           i2 == Put(i1, Ctx!DstImage, Pic("UNDEFINED", FALSE, dst))
           t4 == {Ctx!Staging, Ctx!StagingMem, Ctx!SrcImage, Ctx!SrcImageMem, Ctx!DstImage,
            Ctx!DstImageMem, Ctx!Readback, Ctx!ReadbackMem}
           t5 == {Ctx!Staging, Ctx!StagingMem, Ctx!SrcImage, Ctx!SrcImageMem, Ctx!DstImage,
            Ctx!DstImageMem, Ctx!Readback, Ctx!ReadbackMem, Ctx!BlitCmd}
           r1 == Put(i2, Ctx!SrcImage, Pic("TRANSFER_DST", FALSE, src))
           r2 == Put(r1, Ctx!SrcImage, Pic("TRANSFER_DST", TRUE, src))
           r3 == Put(r2, Ctx!SrcImage, Pic("TRANSFER_SRC", TRUE, src))
           r4 == Put(r3, Ctx!DstImage, Pic("TRANSFER_DST", FALSE, dst))
           r5 == Put(r4, Ctx!DstImage, Pic("TRANSFER_DST", TRUE, dst))
           r6 == Put(r5, Ctx!DstImage, Pic("TRANSFER_SRC", TRUE, dst))
           t6 == {Ctx!StagingMem, Ctx!SrcImage, Ctx!SrcImageMem, Ctx!DstImage, Ctx!DstImageMem,
            Ctx!Readback, Ctx!ReadbackMem, Ctx!BlitCmd}
           i3 == Without(r6, {Ctx!Staging})
           t7 == {Ctx!SrcImage, Ctx!SrcImageMem, Ctx!DstImage, Ctx!DstImageMem, Ctx!Readback,
            Ctx!ReadbackMem, Ctx!BlitCmd}
           i4 == Without(i3, {Ctx!StagingMem})
           t8 == {Ctx!SrcImageMem, Ctx!DstImage, Ctx!DstImageMem, Ctx!Readback, Ctx!ReadbackMem,
            Ctx!BlitCmd}
           i5 == Without(i4, {Ctx!SrcImage})
           t9 == {Ctx!DstImage, Ctx!DstImageMem, Ctx!Readback, Ctx!ReadbackMem, Ctx!BlitCmd}
           i6 == Without(i5, {Ctx!SrcImageMem})
           t10 == {Ctx!DstImageMem, Ctx!Readback, Ctx!ReadbackMem, Ctx!BlitCmd}
           i7 == Without(i6, {Ctx!DstImage})
           t11 == {Ctx!Readback, Ctx!ReadbackMem, Ctx!BlitCmd}
           i8 == Without(i7, {Ctx!DstImageMem})
           t12 == {Ctx!ReadbackMem, Ctx!BlitCmd}
           i9 == Without(i8, {Ctx!Readback})
           t13 == {Ctx!BlitCmd}
           i10 == Without(i9, {Ctx!ReadbackMem})
           i11 == Without(i10, {Ctx!BlitCmd})
<1> HIDE DEF t1, t2, i1, t3, i2, t4, t5, r1, r2, r3, r4, r5, r6, t6, i3, t7, i4, t8, i5, t9, i6,
            t10, i7, t11, i8, t12, i9, t13, i10, i11
<1>1. /\ Runs(k, Ctx!create_buffer(Ctx!Staging, Ctx!StagingMem), S({}, i, <<>>), S(t1, i, <<>>))
      /\ At(k, Ctx!Fields, t1, i, <<>>, NoSizes)
  <2>1. /\ Plain(Ctx!Fields, {}, Ctx!Staging)
        /\ Plain(Ctx!Fields, {}, Ctx!StagingMem)
        /\ Ctx!Staging # Ctx!StagingMem
    BY DEF Plain, Fresh, DpbImages, H264!DpbImage, External, t1
  <2>2. t1 = {} \cup {Ctx!Staging, Ctx!StagingMem}
    BY DEF t1
  <2> QED BY <2>1, <2>2, CreateBuffer
<1>2. /\ Runs(k, <<Ctx!Try({Ctx!StagingMem})>>, S(t1, i, <<>>), S(t1, i, <<>>))
  <2>1. {Ctx!StagingMem} \subseteq Ctx!Fields \cup t1
    BY DEF t1
  <2> QED BY <1>1, <2>1, Tries0
<1>3. /\ Runs(k, Ctx!create_image(Ctx!SrcImage, Ctx!SrcImageMem, src), S(t1, i, <<>>), S(t2, i1, <<>>))
      /\ At(k, Ctx!Fields, t2, i1, <<>>, NoSizes)
  <2>1. /\ Plain(Ctx!Fields, t1, Ctx!SrcImage)
        /\ Plain(Ctx!Fields, t1, Ctx!SrcImageMem)
        /\ Ctx!SrcImage # Ctx!SrcImageMem
    BY DEF Plain, Fresh, DpbImages, H264!DpbImage, External, t1, t2
  <2>2. t2 = t1 \cup {Ctx!SrcImage, Ctx!SrcImageMem}
    BY DEF t1, t2
  <2> QED BY <1>1, <2>1, <2>2, SizesPositive, CreateImage DEF i1
<1>4. Is(i1, Ctx!SrcImage, "UNDEFINED", FALSE, src)
  BY IsPut, IsKept DEF i1
<1>5. /\ Runs(k, Ctx!create_image(Ctx!DstImage, Ctx!DstImageMem, dst), S(t2, i1, <<>>), S(t3, i2, <<>>))
      /\ At(k, Ctx!Fields, t3, i2, <<>>, NoSizes)
  <2>1. /\ Plain(Ctx!Fields, t2, Ctx!DstImage)
        /\ Plain(Ctx!Fields, t2, Ctx!DstImageMem)
        /\ Ctx!DstImage # Ctx!DstImageMem
    BY DEF Plain, Fresh, DpbImages, H264!DpbImage, External, t2, t3
  <2>2. t3 = t2 \cup {Ctx!DstImage, Ctx!DstImageMem}
    BY DEF t2, t3
  <2> QED BY <1>3, <2>1, <2>2, SizesPositive, CreateImage DEF i2
<1>6. /\ Is(i2, Ctx!SrcImage, "UNDEFINED", FALSE, src)
      /\ Is(i2, Ctx!DstImage, "UNDEFINED", FALSE, dst)
  BY <1>4, IsPut, IsKept DEF i2
<1>7. /\ Runs(k, Ctx!create_buffer(Ctx!Readback, Ctx!ReadbackMem), S(t3, i2, <<>>), S(t4, i2, <<>>))
      /\ At(k, Ctx!Fields, t4, i2, <<>>, NoSizes)
  <2>1. /\ Plain(Ctx!Fields, t3, Ctx!Readback)
        /\ Plain(Ctx!Fields, t3, Ctx!ReadbackMem)
        /\ Ctx!Readback # Ctx!ReadbackMem
    BY DEF Plain, Fresh, DpbImages, H264!DpbImage, External, t3, t4
  <2>2. t4 = t3 \cup {Ctx!Readback, Ctx!ReadbackMem}
    BY DEF t3, t4
  <2> QED BY <1>5, <2>1, <2>2, CreateBuffer
<1>8. /\ Runs(k, Ctx!allocate_command_buffer(Ctx!BlitCmd), S(t4, i2, <<>>), S(t5, i2, <<>>))
      /\ At(k, Ctx!Fields, t5, i2, <<>>, NoSizes)
  <2>1. /\ Plain(Ctx!Fields, t4, Ctx!BlitCmd)
        /\ Ctx!BlitCmd \in CmdBuffers
    BY DEF Plain, Fresh, DpbImages, H264!DpbImage, External, CmdBuffers, t4, t5
  <2>2. t5 = t4 \cup {Ctx!BlitCmd}
    BY DEF t4, t5
  <2> QED BY <1>7, <2>1, <2>2, AllocateCommandBuffer
<1>9. Runs(k, Ctx!blit_resources(src, dst), S({}, i, <<>>), S(t5, i2, <<>>))
  BY <1>1, <1>2, <1>3, <1>5, <1>7, <1>8, Cat6 DEF Ctx!blit_resources, Ctx!upload_to_buffer
<1>10. /\ Runs(k, <<Ctx!Begin(Ctx!BlitCmd)>>, S(t5, i2, <<>>), S(t5, i2, i2))
       /\ At(k, Ctx!Fields, t5, i2, i2, NoSizes)
       /\ Rest(k, Ctx!Fields, i2, NoSizes)
  <2>1. Ctx!BlitCmd \in Ctx!Fields \cup t5
    BY DEF t5
  <2> QED BY <1>8, <2>1, Begins
<1>11. /\ Runs(k, <<Ctx!Barrier(Ctx!BlitCmd, Ctx!SrcImage, "UNDEFINED", "TRANSFER_DST")>>, S(t5,
          i2, i2),
               S(t5, i2, r1))
       /\ At(k, Ctx!Fields, t5, i2, r1, NoSizes)
       /\ Rest(k, Ctx!Fields, r1, NoSizes)
  <2>1. /\ Ctx!BlitCmd \in Ctx!Fields \cup t5
        /\ Ctx!SrcImage \notin Ctx!Fields
    BY DEF t5
  <2> QED BY <1>10, <2>1, <1>6, <1>10, RestPut, Discard DEF r1
<1>12. /\ Is(r1, Ctx!SrcImage, "TRANSFER_DST", FALSE, src)
       /\ Is(r1, Ctx!DstImage, "UNDEFINED", FALSE, dst)
  BY <1>6, IsPut, IsKept DEF r1
<1>13. /\ Runs(k, <<Ctx!Use({Ctx!Staging})>>, S(t5, i2, r1), S(t5, i2, r1))
  <2>1. {Ctx!Staging} \subseteq Ctx!Fields \cup t5
    BY DEF t5
  <2> QED BY <1>11, <2>1, Uses
<1>14. /\ Runs(k, <<Ctx!Writes(Ctx!BlitCmd, Ctx!SrcImage, "TRANSFER_DST", src)>>, S(t5, i2, r1),
               S(t5, i2, r2))
       /\ At(k, Ctx!Fields, t5, i2, r2, NoSizes)
       /\ Rest(k, Ctx!Fields, r2, NoSizes)
  <2>1. /\ Ctx!BlitCmd \in Ctx!Fields \cup t5
        /\ Ctx!SrcImage \notin Ctx!Fields
    BY DEF t5
  <2> QED BY <1>11, <2>1, <1>12, <1>11, RestPut, Write DEF r2
<1>15. /\ Is(r2, Ctx!SrcImage, "TRANSFER_DST", TRUE, src)
       /\ Is(r2, Ctx!DstImage, "UNDEFINED", FALSE, dst)
  BY <1>12, IsPut, IsKept DEF r2
<1>16. Runs(k, <<Ctx!Use({Ctx!Staging}), Ctx!Writes(Ctx!BlitCmd, Ctx!SrcImage, "TRANSFER_DST",
       src)>>, S(t5, i2, r1),
               S(t5, i2, r2))
  BY <1>13, <1>14, Calls2
<1>17. /\ Runs(k, <<Ctx!Barrier(Ctx!BlitCmd, Ctx!SrcImage, "TRANSFER_DST", "TRANSFER_SRC")>>, S(t5,
          i2, r2),
               S(t5, i2, r3))
       /\ At(k, Ctx!Fields, t5, i2, r3, NoSizes)
       /\ Rest(k, Ctx!Fields, r3, NoSizes)
  <2>1. /\ Ctx!BlitCmd \in Ctx!Fields \cup t5
        /\ Ctx!SrcImage \notin Ctx!Fields
    BY DEF t5
  <2> QED BY <1>14, <2>1, <1>15, <1>14, RestPut, Transition DEF r3
<1>18. /\ Is(r3, Ctx!SrcImage, "TRANSFER_SRC", TRUE, src)
       /\ Is(r3, Ctx!DstImage, "UNDEFINED", FALSE, dst)
  BY <1>15, IsPut, IsKept DEF r3
<1>19. /\ Runs(k, <<Ctx!Barrier(Ctx!BlitCmd, Ctx!DstImage, "UNDEFINED", "TRANSFER_DST")>>, S(t5,
          i2, r3),
               S(t5, i2, r4))
       /\ At(k, Ctx!Fields, t5, i2, r4, NoSizes)
       /\ Rest(k, Ctx!Fields, r4, NoSizes)
  <2>1. /\ Ctx!BlitCmd \in Ctx!Fields \cup t5
        /\ Ctx!DstImage \notin Ctx!Fields
    BY DEF t5
  <2> QED BY <1>17, <2>1, <1>18, <1>17, RestPut, Discard DEF r4
<1>20. /\ Is(r4, Ctx!SrcImage, "TRANSFER_SRC", TRUE, src)
       /\ Is(r4, Ctx!DstImage, "TRANSFER_DST", FALSE, dst)
  BY <1>18, IsPut, IsKept DEF r4
<1>21. /\ Runs(k, <<Ctx!Reads(Ctx!BlitCmd, {Ctx!SrcImage}, "TRANSFER_SRC", src)>>, S(t5, i2, r4),
               S(t5, i2, r4))
  <2>1. Ctx!BlitCmd \in Ctx!Fields \cup t5
    BY DEF t5
  <2> QED BY <1>19, <2>1, <1>20, Read
<1>22. /\ Runs(k, <<Ctx!Writes(Ctx!BlitCmd, Ctx!DstImage, "TRANSFER_DST", dst)>>, S(t5, i2, r4),
               S(t5, i2, r5))
       /\ At(k, Ctx!Fields, t5, i2, r5, NoSizes)
       /\ Rest(k, Ctx!Fields, r5, NoSizes)
  <2>1. /\ Ctx!BlitCmd \in Ctx!Fields \cup t5
        /\ Ctx!DstImage \notin Ctx!Fields
    BY DEF t5
  <2> QED BY <1>19, <2>1, <1>20, <1>19, RestPut, Write DEF r5
<1>23. /\ Is(r5, Ctx!SrcImage, "TRANSFER_SRC", TRUE, src)
       /\ Is(r5, Ctx!DstImage, "TRANSFER_DST", TRUE, dst)
  BY <1>20, IsPut, IsKept DEF r5
<1>24. Runs(k, <<Ctx!Reads(Ctx!BlitCmd, {Ctx!SrcImage}, "TRANSFER_SRC", src),
       Ctx!Writes(Ctx!BlitCmd, Ctx!DstImage, "TRANSFER_DST", dst)>>, S(t5, i2, r4),
               S(t5, i2, r5))
  BY <1>21, <1>22, Calls2
<1>25. /\ Runs(k, <<Ctx!Barrier(Ctx!BlitCmd, Ctx!DstImage, "TRANSFER_DST", "TRANSFER_SRC")>>, S(t5,
          i2, r5),
               S(t5, i2, r6))
       /\ At(k, Ctx!Fields, t5, i2, r6, NoSizes)
       /\ Rest(k, Ctx!Fields, r6, NoSizes)
  <2>1. /\ Ctx!BlitCmd \in Ctx!Fields \cup t5
        /\ Ctx!DstImage \notin Ctx!Fields
    BY DEF t5
  <2> QED BY <1>22, <2>1, <1>23, <1>22, RestPut, Transition DEF r6
<1>26. /\ Is(r6, Ctx!SrcImage, "TRANSFER_SRC", TRUE, src)
       /\ Is(r6, Ctx!DstImage, "TRANSFER_SRC", TRUE, dst)
  BY <1>23, IsPut, IsKept DEF r6
<1>27. /\ Runs(k, <<Ctx!Use({Ctx!Readback})>>, S(t5, i2, r6), S(t5, i2, r6))
  <2>1. {Ctx!Readback} \subseteq Ctx!Fields \cup t5
    BY DEF t5
  <2> QED BY <1>25, <2>1, Uses
<1>28. /\ Runs(k, <<Ctx!Reads(Ctx!BlitCmd, {Ctx!DstImage}, "TRANSFER_SRC", dst)>>, S(t5, i2, r6),
               S(t5, i2, r6))
  <2>1. Ctx!BlitCmd \in Ctx!Fields \cup t5
    BY DEF t5
  <2> QED BY <1>25, <2>1, <1>26, Read
<1>29. /\ Runs(k, <<Ctx!Try({Ctx!BlitCmd})>>, S(t5, i2, r6), S(t5, i2, r6))
  <2>1. {Ctx!BlitCmd} \subseteq Ctx!Fields \cup t5
    BY DEF t5
  <2> QED BY <1>25, <2>1, Tries0
<1>30. Runs(k, <<Ctx!Use({Ctx!Readback}), Ctx!Reads(Ctx!BlitCmd, {Ctx!DstImage}, "TRANSFER_SRC",
       dst), Ctx!Try({Ctx!BlitCmd})>>, S(t5, i2, r6),
               S(t5, i2, r6))
  BY <1>27, <1>28, <1>29, Calls3
<1>31. Runs(k, Ctx!blit_commands(src, dst), S(t5, i2, <<>>), S(t5, i2, r6))
  BY <1>10, <1>11, <1>16, <1>17, <1>19, <1>24, <1>25, <1>30, Cat8 DEF Ctx!blit_commands,
       Ctx!cmd_image_barrier
<1>32. /\ Runs(k, Ctx!submit_and_wait(Ctx!BlitCmd), S(t5, i2, r6), S(t5, r6, <<>>))
       /\ At(k, Ctx!Fields, t5, r6, <<>>, NoSizes)
  <2>1. /\ Ctx!BlitCmd \in Ctx!Fields \cup t5
        /\ Plain(Ctx!Fields, t5, <<"fence">>)
    BY DEF Plain, Fresh, DpbImages, H264!DpbImage, External, t5
  <2> QED BY <1>25, <2>1, <1>25, SubmitAndWait
<1>33. /\ Runs(k, <<Ctx!Try({Ctx!ReadbackMem})>>, S(t5, r6, <<>>), S(t5, r6, <<>>))
  <2>1. {Ctx!ReadbackMem} \subseteq Ctx!Fields \cup t5
    BY DEF t5
  <2> QED BY <1>32, <2>1, Tries0
<1>34. /\ Runs(k, <<Ctx!Free(Ctx!Staging)>>, S(t5, r6, <<>>), S(t6, i3, <<>>))
       /\ At(k, Ctx!Fields, t6, i3, <<>>, NoSizes)
  <2>1. Ctx!Staging \in t5 /\ Ctx!Staging \notin Ctx!Fields /\ t5 \ {Ctx!Staging} = t6
    BY DEF t5, t6
  <2>2. Childless(k, Ctx!Fields, t5, {Ctx!Staging})
    BY Barren1, BarrenChildless
  <2> QED BY <1>32, <2>1, <2>2, FreeTemp DEF i3
<1>35. /\ Runs(k, <<Ctx!Free(Ctx!StagingMem)>>, S(t6, i3, <<>>), S(t7, i4, <<>>))
       /\ At(k, Ctx!Fields, t7, i4, <<>>, NoSizes)
  <2>1. Ctx!StagingMem \in t6 /\ Ctx!StagingMem \notin Ctx!Fields /\ t6 \ {Ctx!StagingMem} = t7
    BY DEF t6, t7
  <2>2. Childless(k, Ctx!Fields, t6, {Ctx!StagingMem})
    BY Barren1, BarrenChildless
  <2> QED BY <1>34, <2>1, <2>2, FreeTemp DEF i4
<1>36. /\ Runs(k, <<Ctx!Free(Ctx!SrcImage)>>, S(t7, i4, <<>>), S(t8, i5, <<>>))
       /\ At(k, Ctx!Fields, t8, i5, <<>>, NoSizes)
  <2>1. Ctx!SrcImage \in t7 /\ Ctx!SrcImage \notin Ctx!Fields /\ t7 \ {Ctx!SrcImage} = t8
    BY DEF t7, t8
  <2>2. Childless(k, Ctx!Fields, t7, {Ctx!SrcImage})
    BY Barren1, BarrenChildless
  <2> QED BY <1>35, <2>1, <2>2, FreeTemp DEF i5
<1>37. /\ Runs(k, <<Ctx!Free(Ctx!SrcImageMem)>>, S(t8, i5, <<>>), S(t9, i6, <<>>))
       /\ At(k, Ctx!Fields, t9, i6, <<>>, NoSizes)
  <2>1. Ctx!SrcImageMem \in t8 /\ Ctx!SrcImageMem \notin Ctx!Fields /\ t8 \ {Ctx!SrcImageMem} = t9
    BY DEF t8, t9
  <2>2. Childless(k, Ctx!Fields, t8, {Ctx!SrcImageMem})
    BY Barren1, BarrenChildless
  <2> QED BY <1>36, <2>1, <2>2, FreeTemp DEF i6
<1>38. /\ Runs(k, <<Ctx!Free(Ctx!DstImage)>>, S(t9, i6, <<>>), S(t10, i7, <<>>))
       /\ At(k, Ctx!Fields, t10, i7, <<>>, NoSizes)
  <2>1. Ctx!DstImage \in t9 /\ Ctx!DstImage \notin Ctx!Fields /\ t9 \ {Ctx!DstImage} = t10
    BY DEF t9, t10
  <2>2. Childless(k, Ctx!Fields, t9, {Ctx!DstImage})
    BY Barren1, BarrenChildless
  <2> QED BY <1>37, <2>1, <2>2, FreeTemp DEF i7
<1>39. /\ Runs(k, <<Ctx!Free(Ctx!DstImageMem)>>, S(t10, i7, <<>>), S(t11, i8, <<>>))
       /\ At(k, Ctx!Fields, t11, i8, <<>>, NoSizes)
  <2>1. Ctx!DstImageMem \in t10 /\ Ctx!DstImageMem \notin Ctx!Fields /\ t10 \ {Ctx!DstImageMem} = t11
    BY DEF t10, t11
  <2>2. Childless(k, Ctx!Fields, t10, {Ctx!DstImageMem})
    BY Barren1, BarrenChildless
  <2> QED BY <1>38, <2>1, <2>2, FreeTemp DEF i8
<1>40. /\ Runs(k, <<Ctx!Free(Ctx!Readback)>>, S(t11, i8, <<>>), S(t12, i9, <<>>))
       /\ At(k, Ctx!Fields, t12, i9, <<>>, NoSizes)
  <2>1. Ctx!Readback \in t11 /\ Ctx!Readback \notin Ctx!Fields /\ t11 \ {Ctx!Readback} = t12
    BY DEF t11, t12
  <2>2. Childless(k, Ctx!Fields, t11, {Ctx!Readback})
    BY Barren1, BarrenChildless
  <2> QED BY <1>39, <2>1, <2>2, FreeTemp DEF i9
<1>41. /\ Runs(k, <<Ctx!Free(Ctx!ReadbackMem)>>, S(t12, i9, <<>>), S(t13, i10, <<>>))
       /\ At(k, Ctx!Fields, t13, i10, <<>>, NoSizes)
  <2>1. Ctx!ReadbackMem \in t12 /\ Ctx!ReadbackMem \notin Ctx!Fields /\ t12 \ {Ctx!ReadbackMem} = t13
    BY DEF t12, t13
  <2>2. Childless(k, Ctx!Fields, t12, {Ctx!ReadbackMem})
    BY Barren1, BarrenChildless
  <2> QED BY <1>40, <2>1, <2>2, FreeTemp DEF i10
<1>42. /\ Runs(k, <<Ctx!Free(Ctx!BlitCmd)>>, S(t13, i10, <<>>), S({}, i11, <<>>))
       /\ At(k, Ctx!Fields, {}, i11, <<>>, NoSizes)
  <2>1. Ctx!BlitCmd \in t13 /\ Ctx!BlitCmd \notin Ctx!Fields /\ t13 \ {Ctx!BlitCmd} = {}
    BY DEF t13
  <2>2. Childless(k, Ctx!Fields, t13, {Ctx!BlitCmd})
    BY Barren1, BarrenChildless
  <2>3. /\ Runs(k, <<Ctx!Free(Ctx!BlitCmd)>>, S(t13, i10, <<>>),
                S(t13 \ {Ctx!BlitCmd}, Without(i10, {Ctx!BlitCmd}), <<>>))
        /\ At(k, Ctx!Fields, t13 \ {Ctx!BlitCmd}, Without(i10, {Ctx!BlitCmd}), <<>>, NoSizes)
    BY <1>41, <2>1, <2>2, FreeTemp
  <2> QED BY <2>1, <2>3 DEF i11
<1>43. Runs(k, <<Ctx!Free(Ctx!Staging), Ctx!Free(Ctx!StagingMem), Ctx!Free(Ctx!SrcImage),
       Ctx!Free(Ctx!SrcImageMem), Ctx!Free(Ctx!DstImage), Ctx!Free(Ctx!DstImageMem),
       Ctx!Free(Ctx!Readback), Ctx!Free(Ctx!ReadbackMem), Ctx!Free(Ctx!BlitCmd)>>, S(t5, r6, <<>>),
               S({}, i11, <<>>))
  BY <1>34, <1>35, <1>36, <1>37, <1>38, <1>39, <1>40, <1>41, <1>42, Calls9
<1>44. Runs(k, Ctx!upscale_blit(src, dst), S({}, i, <<>>), S({}, i11, <<>>))
  BY <1>9, <1>31, <1>32, <1>33, <1>43, Cat5 DEF Ctx!upscale_blit, Ctx!blit_cleanup, Ctx!read_from_buffer
<1> QED BY <1>42, <1>44

-----------------------------------------------------------------------------
(* Dropping *)

\* s destroys the handles of all, f[1] first, each after what was made from it.
Destroys(k, m, t, s, f, all) ==
  /\ IsSeq(s)
  /\ \A j \in 1 .. Len(s) : s[j] = Ctx!Free(f[j]) /\ f[j] \in m \cup t /\ f[j] \in all
  /\ \A h \in all : \E j \in 1 .. Len(s) : f[j] = h
  /\ \A j, l \in 1 .. Len(s) : f[j] = f[l] => j = l
  /\ k.comp # "fsr3" => \A j \in 1 .. Len(s) : \A g \in m \cup t :
                          Origin(g, f[j]) => \E l \in 1 .. j : f[l] = g

\* Handles destroyed one after the other.
LEMMA FreesRun ==
  ASSUME NEW k, NEW m, NEW t, NEW i, NEW r, NEW c, NEW s, NEW f, NEW all, IsFcn(i),
         Destroys(k, m, t, s, f, all)
  PROVE  Runs(k, s, St(m, t, i, r, c), St(m \ all, t \ all, Without(i, all), r, c))
<1> DEFINE n == Len(s)
           F(j) == {f[l] : l \in 1 .. j}
           X(j) == St(m \ F(j), t \ F(j), Without(i, F(j)), r, c)
           a == [j \in 0 .. n |-> X(j)]
<1>0. n \in Nat
  BY DEF IsSeq, Destroys
<1> HIDE DEF n
<1>1. X(0) = St(m, t, i, r, c)
  <2>1. F(0) = {}
    OBVIOUS
  <2>2. Without(i, {}) = i
    BY DEF Without, IsFcn
  <2>3. m \ {} = m /\ t \ {} = t
    OBVIOUS
  <2> QED BY <2>1, <2>2, <2>3
<1>2. /\ Len(s) = n
      /\ \A j \in 1 .. n : s[j] = Ctx!Free(f[j]) /\ f[j] \in m \cup t
      /\ \A j, l \in 1 .. n : f[j] = f[l] => j = l
      /\ k.comp # "fsr3" => \A j \in 1 .. n : \A g \in m \cup t :
                              Origin(g, f[j]) => \E l \in 1 .. j : f[l] = g
      /\ F(n) = all /\ IsSeq(s)
  BY DEF n, Destroys
<1>3. ASSUME NEW j \in 1 .. n
      PROVE  Ok(k, X(j - 1), Ctx!Free(f[j])) /\ X(j) = After(k, X(j - 1), Ctx!Free(f[j]))
  <2> DEFINE G == F(j - 1)
             h == f[j]
             op == Ctx!Free(h)
             x == X(j - 1)
  <2>1. F(j) = G \cup {h}
    BY <1>0
  <2>2. h \notin G
    BY <1>0, <1>2
  <2>3. k.comp # "fsr3" => \A g \in m \cup t : Origin(g, h) => g \in G \cup {h}
    BY <1>2, <2>1
  <2>4. h \in m \cup t
    BY <1>2
  <2>5. x.m = m \ G /\ x.t = t \ G /\ x.i = Without(i, G) /\ x.r = r /\ x.c = c
    BY DEF St
  <2>6. op.op = "free" /\ op.obj = {h} /\ op.uses = {h} /\ op.undo = {} /\ op.fallible = FALSE
    BY DEF Ctx!Free, Ctx!FreeWith, Ctx!Call
  <2>7. X(j) = St(m \ (G \cup {h}), t \ (G \cup {h}), Without(i, G \cup {h}), r, c)
    BY <2>1
  <2> HIDE DEF G, h, op, x
  <2>8. Ok(k, x, op)
    <3>1. op.uses \subseteq x.m \cup x.t \cup External /\ op.undo \subseteq x.t
      BY <2>2, <2>4, <2>5, <2>6
    <3>2. k.comp # "fsr3" => \A g \in x.m \cup x.t, p \in op.obj : Origin(g, p) => g \in op.obj
      BY <2>3, <2>5, <2>6
    <3> QED BY <2>6, <3>1, <3>2 DEF Ok
  <2>9. Without(Without(i, G), {h}) = Without(i, G \cup {h})
    <3>1. DOMAIN Without(i, G) = DOMAIN i \ G
      BY DEF Without
    <3>2. (DOMAIN i \ G) \ {h} = DOMAIN i \ (G \cup {h})
      OBVIOUS
    <3>3. \A g \in DOMAIN i \ G : Without(i, G)[g] = i[g]
      BY DEF Without
    <3>4. Without(Without(i, G), {h}) = [g \in DOMAIN i \ (G \cup {h}) |-> Without(i, G)[g]]
      BY <3>1, <3>2 DEF Without
    <3> QED BY <3>3, <3>4 DEF Without
  <2>10. (m \ G) \ {h} = m \ (G \cup {h}) /\ (t \ G) \ {h} = t \ (G \cup {h})
    OBVIOUS
  <2>11. After(k, x, op) = St(m \ (G \cup {h}), t \ (G \cup {h}), Without(i, G \cup {h}), r, c)
    BY <2>5, <2>6, <2>9, <2>10 DEF After
  <2> QED BY <2>7, <2>8, <2>11 DEF op, x, h
<1>4. \A j \in 0 .. n : a[j] = X(j)
  OBVIOUS
<1>5. X(n) = St(m \ all, t \ all, Without(i, all), r, c)
  BY <1>2
<1> HIDE DEF X, a
<1>6. Path(k, s, a)
  <2> SUFFICES ASSUME NEW j \in 1 .. n
               PROVE  Ok(k, a[j - 1], s[j]) /\ a[j] = After(k, a[j - 1], s[j])
    BY <1>2 DEF Path
  <2>1. j - 1 \in 0 .. n /\ j \in 0 .. n
    BY <1>0
  <2> QED BY <1>2, <1>3, <1>4, <2>1
<1>7. a[0] = St(m, t, i, r, c) /\ a[Len(s)] = X(n)
  BY <1>0, <1>1, <1>2, <1>4
<1> QED BY <1>2, <1>5, <1>6, <1>7 DEF Runs

-----------------------------------------------------------------------------
(* The context *)

\* The first function of every component makes the three handles and keeps them.
LEMMA WithRequestRuns ==
  ASSUME NEW k, k.phase = "context"
  PROVE  Runs(k, Ctx!with_request, St({}, {}, <<>>, <<>>, NoSizes),
              St(Ctx!Fields, {}, <<>>, <<>>, NoSizes))
<1> USE DEF Ctx!Instance, Ctx!Device, Ctx!CommandPool
<1> DEFINE x0 == St({}, {}, <<>>, <<>>, NoSizes)
           t1 == {Ctx!Instance}
           x1 == St({}, t1, <<>>, <<>>, NoSizes)
           t2 == t1 \cup {Ctx!Device}
           x2 == St({}, t2, <<>>, <<>>, NoSizes)
           t3 == t2 \cup {Ctx!CommandPool}
           x3 == St({}, t3, <<>>, <<>>, NoSizes)
           x4 == St(Ctx!Fields, {}, <<>>, <<>>, NoSizes)
<1>0. ASSUME NEW t
      PROVE  Sound(k, {}, t, <<>>, <<>>, NoSizes)
  BY NoPics DEF Sound, Shape, Rest
<1>a. {} \cup t1 = t1
  OBVIOUS
<1>1. Runs(k, <<Ctx!Try({})>>, x0, x0)
  BY <1>0, TryRuns DEF Ctx!Try
<1>2. Runs(k, <<Ctx!Make(Ctx!Instance, {})>>, x0, x1)
  <2>1. Fresh({}, {}, Ctx!Instance) /\ Ctx!Instance \notin DpbImages
    BY DEF Fresh, External, DpbImages, H264!DpbImage
  <2> QED BY <1>0, <1>a, <2>1, MakeRuns DEF Ctx!Make
<1>3. /\ Runs(k, <<Ctx!Try({Ctx!Instance})>>, x1, x1)
      /\ Runs(k, <<Ctx!TryOr({Ctx!Instance}, {Ctx!Instance})>>, x1, x1)
  BY <1>0, TryRuns DEF Ctx!Try
<1>4. Runs(k, <<Ctx!MakeOr(Ctx!Device, {Ctx!Instance}, {Ctx!Instance})>>, x1, x2)
  <2>1. Fresh({}, t1, Ctx!Device) /\ Ctx!Device \notin DpbImages
    BY DEF Fresh, External, DpbImages, H264!DpbImage
  <2>2. \A p \in {Ctx!Instance} : Origin(Ctx!Device, p)
    BY DEF Origin
  <2>3. {Ctx!Instance} \subseteq t1
    OBVIOUS
  <2> HIDE DEF t1, Ctx!Instance, Ctx!Device
  <2> QED BY <1>0, <2>1, <2>2, <2>3, MakeRuns
<1>5. Runs(k, <<Ctx!Try({Ctx!Device})>>, x2, x2)
  <2>1. {Ctx!Device} \subseteq t2
    OBVIOUS
  <2> HIDE DEF t2, Ctx!Device
  <2> QED BY <1>0, <2>1, TryRuns DEF Ctx!Try
<1>6. Runs(k, <<Ctx!MakeOr(Ctx!CommandPool, {Ctx!Device}, {Ctx!Device, Ctx!Instance})>>, x2, x3)
  <2>1. Fresh({}, t2, Ctx!CommandPool) /\ Ctx!CommandPool \notin DpbImages
    BY DEF Fresh, External, DpbImages, H264!DpbImage
  <2>2. \A p \in {Ctx!Device} : Origin(Ctx!CommandPool, p)
    BY DEF Origin
  <2>3. {Ctx!Device} \subseteq t2 /\ {Ctx!Device, Ctx!Instance} \subseteq t2
    OBVIOUS
  <2> HIDE DEF t2, Ctx!Device, Ctx!CommandPool, Ctx!Instance
  <2> QED BY <1>0, <2>1, <2>2, <2>3, MakeRuns
<1>7. Runs(k, <<Ctx!Keep(Ctx!Fields)>>, x3, x4)
  <2>1. t3 = Ctx!Fields /\ Ctx!Fields \subseteq t3 /\ {} \cup Ctx!Fields = Ctx!Fields
        /\ t3 \ Ctx!Fields = {} /\ Native!FsrCtx \notin Ctx!Fields
    BY DEF Ctx!Fields, Native!FsrCtx
  <2> HIDE DEF t3
  <2> QED BY <2>1, KeepRuns
<1> HIDE DEF x0, x1, x2, x3, x4
<1> QED BY <1>1, <1>2, <1>3, <1>4, <1>5, <1>6, <1>7, Calls10 DEF Ctx!with_request, x0, x4

\* The context is the last to go; what failed calls left in the pool goes with it.
LEMMA ContextDropRuns ==
  ASSUME NEW k, NEW m, NEW i, NEW r, NEW c, IsFcn(i), Ctx!Fields \subseteq m,
         k.comp # "fsr3" => m = Ctx!Fields
  PROVE  \E j, n : /\ Runs(k, Ctx!drop, St(m, {}, i, r, c), St(n, {}, j, r, c))
                   /\ k.comp # "fsr3" => n = {}
<1> USE DEF Ctx!Instance, Ctx!Device, Ctx!CommandPool
<1> DEFINE f == <<Ctx!CommandPool, Ctx!Device, Ctx!Instance>>
           s == Ctx!drop
<1>1. f[1] = Ctx!CommandPool /\ f[2] = Ctx!Device /\ f[3] = Ctx!Instance
  OBVIOUS
<1>2. /\ s \in Seq({Ctx!Free(f[1]), Ctx!Free(f[2]), Ctx!Free(f[3])}) /\ Len(s) = 3
      /\ s[1] = Ctx!Free(f[1]) /\ s[2] = Ctx!Free(f[2]) /\ s[3] = Ctx!Free(f[3])
  BY DEF Ctx!drop
<1>3. 1 .. 3 = {1, 2, 3}
  OBVIOUS
<1> HIDE DEF f, s
<1>4. IsSeq(s)
  BY <1>2, IsSeqOf
<1>5. /\ \A j \in 1 .. 3 : s[j] = Ctx!Free(f[j]) /\ f[j] \in m \cup {} /\ f[j] \in Ctx!Fields
      /\ \A h \in Ctx!Fields : \E j \in 1 .. 3 : f[j] = h
  BY <1>1, <1>2, <1>3 DEF Ctx!Fields
<1>6. \A j, l \in 1 .. 3 : f[j] = f[l] => j = l
  BY <1>1, <1>3
<1>7. k.comp # "fsr3" => \A j \in 1 .. 3 : \A g \in m \cup {} :
                           Origin(g, f[j]) => \E l \in 1 .. j : f[l] = g
  <2> SUFFICES ASSUME k.comp # "fsr3", NEW j \in 1 .. 3, NEW g \in m \cup {}, Origin(g, f[j])
               PROVE  \E l \in 1 .. j : f[l] = g
    OBVIOUS
  <2>0. g \in Ctx!Fields
    OBVIOUS
  <2>1. CASE j = 1
    <3>1. FALSE
      BY <1>1, <2>0, <2>1
      DEF Origin, Ctx!Fields, CmdBuffers, Ctx!BlitCmd, Native!Cmd, Native!InitCmd, Fsr2!EasuCmd,
          Fg!UpCmd, Fg!FgCmd, Fsr2!DescPool, Native!Image, H264!Session, H264!CmdPool,
          H264!DpbImage, External
    <3> QED BY <3>1
  <2>2. CASE j = 2
    <3>1. g # Ctx!Instance
      BY <1>1, <2>2
      DEF Origin, Fsr2!DescPool, Native!Image, H264!Session, H264!CmdPool, H264!DpbImage, External
    <3> QED BY <1>1, <2>0, <2>2, <3>1 DEF Ctx!Fields
  <2>3. CASE j = 3
    BY <1>1, <2>0, <2>3 DEF Ctx!Fields
  <2> QED BY <1>3, <2>1, <2>2, <2>3
<1>8. Runs(k, s, St(m, {}, i, r, c), St(m \ Ctx!Fields, {} \ Ctx!Fields, Without(i, Ctx!Fields), r, c))
  <2>1. Destroys(k, m, {}, s, f, Ctx!Fields)
    BY <1>2, <1>4, <1>5, <1>6, <1>7 DEF Destroys
  <2> QED BY <2>1, FreesRun
<1>9. {} \ Ctx!Fields = {} /\ (k.comp # "fsr3" => m \ Ctx!Fields = {})
  OBVIOUS
<1> QED BY <1>8, <1>9 DEF s

-----------------------------------------------------------------------------
(* The pipelines of Fsr2 *)

\* The handles of Fsr2Interpolator, listed.
LEMMA PipelineFieldsAre ==
  Fsr2!PipelineFields =
    {Fsr2!DescPool, Fsr2!DescLayout("motion"), Fsr2!PipelineLayout("motion"),
     Fsr2!Pipeline("motion"), Fsr2!DescLayout("warp"), Fsr2!PipelineLayout("warp"),
     Fsr2!Pipeline("warp"), Fsr2!DescLayout("easu"), Fsr2!PipelineLayout("easu"),
     Fsr2!Pipeline("easu"), Fsr2!DescLayout("rcas"), Fsr2!PipelineLayout("rcas"),
     Fsr2!Pipeline("rcas")}
<1>1. /\ Fsr2!Passes[1] = "motion" /\ Fsr2!Passes[2] = "warp" /\ Fsr2!Passes[3] = "easu"
      /\ Fsr2!Passes[4] = "rcas"
  BY DEF Fsr2!Passes
<1>2. 1 .. 4 = {1, 2, 3, 4}
  OBVIOUS
<1>3. UNION {Fsr2!PassFields(Fsr2!Passes[i]) : i \in 1 .. 4}
        = Fsr2!PassFields("motion") \cup Fsr2!PassFields("warp") \cup Fsr2!PassFields("easu")
            \cup Fsr2!PassFields("rcas")
  BY <1>1, <1>2
<1> QED BY <1>3 DEF Fsr2!PipelineFields, Fsr2!PassFields

\* One call makes two handles.
LEMMA MakeTwo ==
  ASSUME NEW k, NEW m, NEW t, NEW i, NEW r, NEW c, NEW h, NEW g,
         At(k, m, t, i, r, c), Plain(m, t, h), Plain(m, t, g)
  PROVE  /\ Runs(k, <<[Ctx!Make(h, {Ctx!Device}) EXCEPT !.obj = {h, g}]>>, St(m, t, i, r, c),
                 St(m, t \cup {h, g}, i, r, c))
         /\ At(k, m, t \cup {h, g}, i, r, c)
<1> DEFINE x == St(m, t, i, r, c)
           op == [Ctx!Make(h, {Ctx!Device}) EXCEPT !.obj = {h, g}]
<1>0. x = St(m, t, i, r, c) /\ x.m = m /\ x.t = t /\ x.i = i /\ x.r = r /\ x.c = c
  BY DEF St
<1>1. op.op = "make" /\ op.obj = {h, g} /\ op.uses = {Ctx!Device} /\ op.undo = {}
      /\ op.fallible = TRUE /\ op.extent = 0
  BY DEF Ctx!Make, Ctx!MakeOr, Ctx!Call
<1>2. Ctx!Device \in m /\ Sound(k, m, t, i, r, c)
  BY DEF At, Ctx!Fields
<1>3. \A f \in {h, g}, p \in {Ctx!Device} : Origin(f, p)
  BY MadeFromDevice DEF At, Plain
<1> HIDE DEF x, op
<1>4. Ok(k, x, op)
  BY <1>0, <1>1, <1>2, <1>3 DEF Ok, Sound, Fresh, Plain
<1>5. NewImages(op) = {}
  BY <1>1 DEF NewImages, DpbImages, Plain
<1>6. Making(i, op) = i
  BY <1>2, <1>5 DEF Making, Sound, Shape, Pics, IsFcn
<1>7. After(k, x, op) = St(m, t \cup {h, g}, i, r, c)
  BY <1>0, <1>1, <1>6 DEF After
<1>8. At(k, m, t \cup {h, g}, i, r, c)
  BY DEF At, Sound, Shape, Pics
<1> QED BY <1>4, <1>7, <1>8, RunsOne DEF x, op

\* What the function has made becomes the component's.
LEMMA KeepAll ==
  ASSUME NEW k, NEW m, NEW t, NEW i, NEW r, NEW c, NEW hs, At(k, m, t, i, r, c), hs = t,
         Native!FsrCtx \notin hs
  PROVE  /\ Runs(k, <<Ctx!Keep(hs)>>, St(m, t, i, r, c), St(m \cup hs, {}, i, r, c))
         /\ Shape(m \cup hs, {}, i, r)
<1>1. Runs(k, <<Ctx!Keep(hs)>>, St(m, t, i, r, c),
           St(m \cup hs, t \ hs, i, r, IF Native!FsrCtx \in hs THEN k.sizes ELSE c))
  BY KeepRuns
<1>2. t \ hs = {} /\ (m \cup hs) \cup {} = m \cup t
  OBVIOUS
<1> QED BY <1>1, <1>2 DEF At, Sound, Shape

\* Fsr2!with_params keeps its pipelines and nothing else.
LEMMA WithParamsRuns ==
  ASSUME NEW k, NEW i, At(k, Ctx!Fields, {}, i, <<>>, NoSizes)
  PROVE  \E j : /\ Runs(k, Fsr2!with_params, St(Ctx!Fields, {}, i, <<>>, NoSizes),
                        St(Ctx!Fields \cup Fsr2!PipelineFields, {}, j, <<>>, NoSizes))
                /\ Shape(Ctx!Fields \cup Fsr2!PipelineFields, {}, j, <<>>)
<1> DEFINE S(tt, ii, rr) == St(Ctx!Fields, tt, ii, rr, NoSizes)
<1> USE DEF Ctx!Instance, Ctx!Device, Ctx!CommandPool, Ctx!Fields, Fsr2!Module, Fsr2!DescLayout,
           Fsr2!PipelineLayout, Fsr2!Pipeline, Fsr2!DescPool
<1> DEFINE t1 == {Fsr2!Module("motion")}
           t2 == {Fsr2!Module("motion"), Fsr2!Module("warp")}
           t3 == {Fsr2!Module("motion"), Fsr2!Module("warp"), Fsr2!DescLayout("motion")}
           t4 == {Fsr2!Module("motion"), Fsr2!Module("warp"), Fsr2!DescLayout("motion"),
            Fsr2!DescLayout("warp")}
           t5 == {Fsr2!Module("motion"), Fsr2!Module("warp"), Fsr2!DescLayout("motion"),
            Fsr2!DescLayout("warp"), Fsr2!PipelineLayout("motion")}
           t6 == {Fsr2!Module("motion"), Fsr2!Module("warp"), Fsr2!DescLayout("motion"),
            Fsr2!DescLayout("warp"), Fsr2!PipelineLayout("motion"), Fsr2!PipelineLayout("warp")}
           t7 == {Fsr2!Module("motion"), Fsr2!Module("warp"), Fsr2!DescLayout("motion"),
            Fsr2!DescLayout("warp"), Fsr2!PipelineLayout("motion"), Fsr2!PipelineLayout("warp"),
            Fsr2!Pipeline("motion"), Fsr2!Pipeline("warp")}
           both == [Ctx!Make(Fsr2!Pipeline("motion"), {Ctx!Device})
                    EXCEPT !.obj = {Fsr2!Pipeline("motion"), Fsr2!Pipeline("warp")}]
           t8 == {Fsr2!Module("motion"), Fsr2!Module("warp"), Fsr2!DescLayout("motion"),
            Fsr2!DescLayout("warp"), Fsr2!PipelineLayout("motion"), Fsr2!PipelineLayout("warp"),
            Fsr2!Pipeline("motion"), Fsr2!Pipeline("warp"), Fsr2!DescPool}
           t9 == {Fsr2!Module("warp"), Fsr2!DescLayout("motion"), Fsr2!DescLayout("warp"),
            Fsr2!PipelineLayout("motion"), Fsr2!PipelineLayout("warp"), Fsr2!Pipeline("motion"),
            Fsr2!Pipeline("warp"), Fsr2!DescPool}
           i1 == Without(i, {Fsr2!Module("motion")})
           t10 == {Fsr2!DescLayout("motion"), Fsr2!DescLayout("warp"),
            Fsr2!PipelineLayout("motion"), Fsr2!PipelineLayout("warp"), Fsr2!Pipeline("motion"),
            Fsr2!Pipeline("warp"), Fsr2!DescPool}
           i2 == Without(i1, {Fsr2!Module("warp")})
           t11 == {Fsr2!DescLayout("motion"), Fsr2!DescLayout("warp"),
            Fsr2!PipelineLayout("motion"), Fsr2!PipelineLayout("warp"), Fsr2!Pipeline("motion"),
            Fsr2!Pipeline("warp"), Fsr2!DescPool, Fsr2!Module("easu")}
           t12 == {Fsr2!DescLayout("motion"), Fsr2!DescLayout("warp"),
            Fsr2!PipelineLayout("motion"), Fsr2!PipelineLayout("warp"), Fsr2!Pipeline("motion"),
            Fsr2!Pipeline("warp"), Fsr2!DescPool, Fsr2!Module("easu"), Fsr2!DescLayout("easu")}
           t13 == {Fsr2!DescLayout("motion"), Fsr2!DescLayout("warp"),
            Fsr2!PipelineLayout("motion"), Fsr2!PipelineLayout("warp"), Fsr2!Pipeline("motion"),
            Fsr2!Pipeline("warp"), Fsr2!DescPool, Fsr2!Module("easu"), Fsr2!DescLayout("easu"),
            Fsr2!PipelineLayout("easu")}
           t14 == {Fsr2!DescLayout("motion"), Fsr2!DescLayout("warp"),
            Fsr2!PipelineLayout("motion"), Fsr2!PipelineLayout("warp"), Fsr2!Pipeline("motion"),
            Fsr2!Pipeline("warp"), Fsr2!DescPool, Fsr2!Module("easu"), Fsr2!DescLayout("easu"),
            Fsr2!PipelineLayout("easu"), Fsr2!Pipeline("easu")}
           t15 == {Fsr2!DescLayout("motion"), Fsr2!DescLayout("warp"),
            Fsr2!PipelineLayout("motion"), Fsr2!PipelineLayout("warp"), Fsr2!Pipeline("motion"),
            Fsr2!Pipeline("warp"), Fsr2!DescPool, Fsr2!DescLayout("easu"),
            Fsr2!PipelineLayout("easu"), Fsr2!Pipeline("easu")}
           i3 == Without(i2, {Fsr2!Module("easu")})
           t16 == {Fsr2!DescLayout("motion"), Fsr2!DescLayout("warp"),
            Fsr2!PipelineLayout("motion"), Fsr2!PipelineLayout("warp"), Fsr2!Pipeline("motion"),
            Fsr2!Pipeline("warp"), Fsr2!DescPool, Fsr2!DescLayout("easu"),
            Fsr2!PipelineLayout("easu"), Fsr2!Pipeline("easu"), Fsr2!Module("rcas")}
           t17 == {Fsr2!DescLayout("motion"), Fsr2!DescLayout("warp"),
            Fsr2!PipelineLayout("motion"), Fsr2!PipelineLayout("warp"), Fsr2!Pipeline("motion"),
            Fsr2!Pipeline("warp"), Fsr2!DescPool, Fsr2!DescLayout("easu"),
            Fsr2!PipelineLayout("easu"), Fsr2!Pipeline("easu"), Fsr2!Module("rcas"),
            Fsr2!DescLayout("rcas")}
           t18 == {Fsr2!DescLayout("motion"), Fsr2!DescLayout("warp"),
            Fsr2!PipelineLayout("motion"), Fsr2!PipelineLayout("warp"), Fsr2!Pipeline("motion"),
            Fsr2!Pipeline("warp"), Fsr2!DescPool, Fsr2!DescLayout("easu"),
            Fsr2!PipelineLayout("easu"), Fsr2!Pipeline("easu"), Fsr2!Module("rcas"),
            Fsr2!DescLayout("rcas"), Fsr2!PipelineLayout("rcas")}
           t19 == {Fsr2!DescLayout("motion"), Fsr2!DescLayout("warp"),
            Fsr2!PipelineLayout("motion"), Fsr2!PipelineLayout("warp"), Fsr2!Pipeline("motion"),
            Fsr2!Pipeline("warp"), Fsr2!DescPool, Fsr2!DescLayout("easu"),
            Fsr2!PipelineLayout("easu"), Fsr2!Pipeline("easu"), Fsr2!Module("rcas"),
            Fsr2!DescLayout("rcas"), Fsr2!PipelineLayout("rcas"), Fsr2!Pipeline("rcas")}
           t20 == {Fsr2!DescLayout("motion"), Fsr2!DescLayout("warp"),
            Fsr2!PipelineLayout("motion"), Fsr2!PipelineLayout("warp"), Fsr2!Pipeline("motion"),
            Fsr2!Pipeline("warp"), Fsr2!DescPool, Fsr2!DescLayout("easu"),
            Fsr2!PipelineLayout("easu"), Fsr2!Pipeline("easu"), Fsr2!DescLayout("rcas"),
            Fsr2!PipelineLayout("rcas"), Fsr2!Pipeline("rcas")}
           i4 == Without(i3, {Fsr2!Module("rcas")})
<1> HIDE DEF t1, t2, t3, t4, t5, t6, t7, both, t8, t9, i1, t10, i2, t11, t12, t13, t14, t15, i3,
            t16, t17, t18, t19, t20, i4
<1>1. /\ Runs(k, <<Ctx!Try({})>>, S({}, i, <<>>), S({}, i, <<>>))
  <2>1. {} \subseteq Ctx!Fields \cup {}
    OBVIOUS
  <2> QED BY <2>1, Tries0
<1>2. /\ Runs(k, <<Ctx!Try({})>>, S({}, i, <<>>), S({}, i, <<>>))
  <2>1. {} \subseteq Ctx!Fields \cup {}
    OBVIOUS
  <2> QED BY <2>1, Tries0
<1>3. /\ Runs(k, <<Ctx!Make(Fsr2!Module("motion"), {Ctx!Device})>>, S({}, i, <<>>), S(t1, i, <<>>))
      /\ At(k, Ctx!Fields, t1, i, <<>>, NoSizes)
  <2>1. Plain(Ctx!Fields, {}, Fsr2!Module("motion"))
    BY DEF Plain, Fresh, DpbImages, H264!DpbImage, External, t1
  <2>2. t1 = {} \cup {Fsr2!Module("motion")}
    BY DEF t1
  <2> QED BY <2>1, <2>2, MakePlain0
<1>4. /\ Runs(k, <<Ctx!Make(Fsr2!Module("warp"), {Ctx!Device})>>, S(t1, i, <<>>), S(t2, i, <<>>))
      /\ At(k, Ctx!Fields, t2, i, <<>>, NoSizes)
  <2>1. Plain(Ctx!Fields, t1, Fsr2!Module("warp"))
    BY DEF Plain, Fresh, DpbImages, H264!DpbImage, External, t1, t2
  <2>2. t2 = t1 \cup {Fsr2!Module("warp")}
    BY DEF t1, t2
  <2> QED BY <1>3, <2>1, <2>2, MakePlain0
<1>5. /\ Runs(k, <<Ctx!Make(Fsr2!DescLayout("motion"), {Ctx!Device})>>, S(t2, i, <<>>), S(t3, i, <<>>))
      /\ At(k, Ctx!Fields, t3, i, <<>>, NoSizes)
  <2>1. Plain(Ctx!Fields, t2, Fsr2!DescLayout("motion"))
    BY DEF Plain, Fresh, DpbImages, H264!DpbImage, External, t2, t3
  <2>2. t3 = t2 \cup {Fsr2!DescLayout("motion")}
    BY DEF t2, t3
  <2> QED BY <1>4, <2>1, <2>2, MakePlain0
<1>6. /\ Runs(k, <<Ctx!Make(Fsr2!DescLayout("warp"), {Ctx!Device})>>, S(t3, i, <<>>), S(t4, i, <<>>))
      /\ At(k, Ctx!Fields, t4, i, <<>>, NoSizes)
  <2>1. Plain(Ctx!Fields, t3, Fsr2!DescLayout("warp"))
    BY DEF Plain, Fresh, DpbImages, H264!DpbImage, External, t3, t4
  <2>2. t4 = t3 \cup {Fsr2!DescLayout("warp")}
    BY DEF t3, t4
  <2> QED BY <1>5, <2>1, <2>2, MakePlain0
<1>7. /\ Runs(k, <<Ctx!Use({Fsr2!DescLayout("motion")})>>, S(t4, i, <<>>), S(t4, i, <<>>))
  <2>1. {Fsr2!DescLayout("motion")} \subseteq Ctx!Fields \cup t4
    BY DEF t4
  <2> QED BY <1>6, <2>1, Uses
<1>8. /\ Runs(k, <<Ctx!Make(Fsr2!PipelineLayout("motion"), {Ctx!Device})>>, S(t4, i, <<>>),
              S(t5, i, <<>>))
      /\ At(k, Ctx!Fields, t5, i, <<>>, NoSizes)
  <2>1. Plain(Ctx!Fields, t4, Fsr2!PipelineLayout("motion"))
    BY DEF Plain, Fresh, DpbImages, H264!DpbImage, External, t4, t5
  <2>2. t5 = t4 \cup {Fsr2!PipelineLayout("motion")}
    BY DEF t4, t5
  <2> QED BY <1>6, <2>1, <2>2, MakePlain0
<1>9. /\ Runs(k, <<Ctx!Use({Fsr2!DescLayout("warp")})>>, S(t5, i, <<>>), S(t5, i, <<>>))
  <2>1. {Fsr2!DescLayout("warp")} \subseteq Ctx!Fields \cup t5
    BY DEF t5
  <2> QED BY <1>8, <2>1, Uses
<1>10. /\ Runs(k, <<Ctx!Make(Fsr2!PipelineLayout("warp"), {Ctx!Device})>>, S(t5, i, <<>>),
               S(t6, i, <<>>))
       /\ At(k, Ctx!Fields, t6, i, <<>>, NoSizes)
  <2>1. Plain(Ctx!Fields, t5, Fsr2!PipelineLayout("warp"))
    BY DEF Plain, Fresh, DpbImages, H264!DpbImage, External, t5, t6
  <2>2. t6 = t5 \cup {Fsr2!PipelineLayout("warp")}
    BY DEF t5, t6
  <2> QED BY <1>8, <2>1, <2>2, MakePlain0
<1>11. /\ Runs(k, <<Ctx!Use({Fsr2!Module("motion"), Fsr2!Module("warp"),
          Fsr2!PipelineLayout("motion"), Fsr2!PipelineLayout("warp")})>>, S(t6, i, <<>>),
               S(t6, i, <<>>))
  <2>1. {Fsr2!Module("motion"), Fsr2!Module("warp"), Fsr2!PipelineLayout("motion"),
        Fsr2!PipelineLayout("warp")} \subseteq Ctx!Fields \cup t6
    BY DEF t6
  <2> QED BY <1>10, <2>1, Uses
<1>12. /\ Runs(k, <<both>>, S(t6, i, <<>>), S(t7, i, <<>>))
       /\ At(k, Ctx!Fields, t7, i, <<>>, NoSizes)
  <2>1. /\ Plain(Ctx!Fields, t6, Fsr2!Pipeline("motion"))
        /\ Plain(Ctx!Fields, t6, Fsr2!Pipeline("warp"))
    BY DEF Plain, Fresh, DpbImages, H264!DpbImage, External, t6, t7
  <2>2. t7 = t6 \cup {Fsr2!Pipeline("motion"), Fsr2!Pipeline("warp")}
    BY DEF t6, t7
  <2> QED BY <1>10, <2>1, <2>2, MakeTwo DEF both
<1>13. /\ Runs(k, <<Ctx!Make(Fsr2!DescPool, {Ctx!Device})>>, S(t7, i, <<>>), S(t8, i, <<>>))
       /\ At(k, Ctx!Fields, t8, i, <<>>, NoSizes)
  <2>1. Plain(Ctx!Fields, t7, Fsr2!DescPool)
    BY DEF Plain, Fresh, DpbImages, H264!DpbImage, External, t7, t8
  <2>2. t8 = t7 \cup {Fsr2!DescPool}
    BY DEF t7, t8
  <2> QED BY <1>12, <2>1, <2>2, MakePlain0
<1>14. /\ Runs(k, <<Ctx!Free(Fsr2!Module("motion"))>>, S(t8, i, <<>>), S(t9, i1, <<>>))
       /\ At(k, Ctx!Fields, t9, i1, <<>>, NoSizes)
  <2>1. Fsr2!Module("motion") \in t8 /\ Fsr2!Module("motion") \notin Ctx!Fields /\ t8 \ {Fsr2!Module("motion")} = t9
    BY DEF t8, t9
  <2>2. Childless(k, Ctx!Fields, t8, {Fsr2!Module("motion")})
    BY Barren2, BarrenChildless
  <2> QED BY <1>13, <2>1, <2>2, FreeTemp DEF i1
<1>15. /\ Runs(k, <<Ctx!Free(Fsr2!Module("warp"))>>, S(t9, i1, <<>>), S(t10, i2, <<>>))
       /\ At(k, Ctx!Fields, t10, i2, <<>>, NoSizes)
  <2>1. Fsr2!Module("warp") \in t9 /\ Fsr2!Module("warp") \notin Ctx!Fields /\ t9 \ {Fsr2!Module("warp")} = t10
    BY DEF t9, t10
  <2>2. Childless(k, Ctx!Fields, t9, {Fsr2!Module("warp")})
    BY Barren2, BarrenChildless
  <2> QED BY <1>14, <2>1, <2>2, FreeTemp DEF i2
<1>16. Runs(k, <<Ctx!Try({}), Ctx!Try({}), Ctx!Make(Fsr2!Module("motion"), {Ctx!Device}),
       Ctx!Make(Fsr2!Module("warp"), {Ctx!Device}), Ctx!Make(Fsr2!DescLayout("motion"),
       {Ctx!Device}), Ctx!Make(Fsr2!DescLayout("warp"), {Ctx!Device}),
       Ctx!Use({Fsr2!DescLayout("motion")}), Ctx!Make(Fsr2!PipelineLayout("motion"),
       {Ctx!Device})>>, S({}, i, <<>>),
               S(t5, i, <<>>))
  BY <1>1, <1>2, <1>3, <1>4, <1>5, <1>6, <1>7, <1>8, Calls8
<1>17. Runs(k, <<Ctx!Use({Fsr2!DescLayout("warp")}), Ctx!Make(Fsr2!PipelineLayout("warp"),
       {Ctx!Device}), Ctx!Use({Fsr2!Module("motion"), Fsr2!Module("warp"),
       Fsr2!PipelineLayout("motion"), Fsr2!PipelineLayout("warp")}), both, Ctx!Make(Fsr2!DescPool,
       {Ctx!Device}), Ctx!Free(Fsr2!Module("motion")), Ctx!Free(Fsr2!Module("warp"))>>, S(t5, i, <<>>),
               S(t10, i2, <<>>))
  BY <1>9, <1>10, <1>11, <1>12, <1>13, <1>14, <1>15, Calls7
<1>18. Runs(k, <<Ctx!Try({}), Ctx!Try({}), Ctx!Make(Fsr2!Module("motion"), {Ctx!Device}),
       Ctx!Make(Fsr2!Module("warp"), {Ctx!Device}), Ctx!Make(Fsr2!DescLayout("motion"),
       {Ctx!Device}), Ctx!Make(Fsr2!DescLayout("warp"), {Ctx!Device}),
       Ctx!Use({Fsr2!DescLayout("motion")}), Ctx!Make(Fsr2!PipelineLayout("motion"), {Ctx!Device}),
       Ctx!Use({Fsr2!DescLayout("warp")}), Ctx!Make(Fsr2!PipelineLayout("warp"), {Ctx!Device}),
       Ctx!Use({Fsr2!Module("motion"), Fsr2!Module("warp"), Fsr2!PipelineLayout("motion"),
       Fsr2!PipelineLayout("warp")}), both, Ctx!Make(Fsr2!DescPool, {Ctx!Device}),
       Ctx!Free(Fsr2!Module("motion")), Ctx!Free(Fsr2!Module("warp"))>>, S({}, i, <<>>),
               S(t10, i2, <<>>))
  BY <1>16, <1>17, Calls15
<1>19. Runs(k, Fsr2!create_motion_and_warp, S({}, i, <<>>), S(t10, i2, <<>>))
  <2>1. Fsr2!create_motion_and_warp = <<Ctx!Try({}), Ctx!Try({}), Ctx!Make(Fsr2!Module("motion"),
        {Ctx!Device}), Ctx!Make(Fsr2!Module("warp"), {Ctx!Device}),
        Ctx!Make(Fsr2!DescLayout("motion"), {Ctx!Device}), Ctx!Make(Fsr2!DescLayout("warp"),
        {Ctx!Device}), Ctx!Use({Fsr2!DescLayout("motion")}),
        Ctx!Make(Fsr2!PipelineLayout("motion"), {Ctx!Device}), Ctx!Use({Fsr2!DescLayout("warp")}),
        Ctx!Make(Fsr2!PipelineLayout("warp"), {Ctx!Device}), Ctx!Use({Fsr2!Module("motion"),
        Fsr2!Module("warp"), Fsr2!PipelineLayout("motion"), Fsr2!PipelineLayout("warp")}), both,
        Ctx!Make(Fsr2!DescPool, {Ctx!Device}), Ctx!Free(Fsr2!Module("motion")),
        Ctx!Free(Fsr2!Module("warp"))>>
    BY DEF Fsr2!create_motion_and_warp, both, Fsr2!Call, Ctx!Call, Fsr2!MakeOr, Ctx!MakeOr,
         Fsr2!Make, Ctx!Make, Fsr2!TryOr, Ctx!TryOr, Fsr2!Try, Ctx!Try, Fsr2!Use, Ctx!Use,
         Fsr2!FreeWith, Ctx!FreeWith, Fsr2!Free, Ctx!Free, Fsr2!Device, Ctx!Device
  <2> QED BY <2>1, <1>18
<1>20. /\ Runs(k, <<Ctx!Try({})>>, S(t10, i2, <<>>), S(t10, i2, <<>>))
  <2>1. {} \subseteq Ctx!Fields \cup t10
    BY DEF t10
  <2> QED BY <1>15, <2>1, Tries0
<1>21. /\ Runs(k, <<Ctx!Make(Fsr2!Module("easu"), {Ctx!Device})>>, S(t10, i2, <<>>), S(t11, i2, <<>>))
       /\ At(k, Ctx!Fields, t11, i2, <<>>, NoSizes)
  <2>1. Plain(Ctx!Fields, t10, Fsr2!Module("easu"))
    BY DEF Plain, Fresh, DpbImages, H264!DpbImage, External, t10, t11
  <2>2. t11 = t10 \cup {Fsr2!Module("easu")}
    BY DEF t10, t11
  <2> QED BY <1>15, <2>1, <2>2, MakePlain0
<1>22. /\ Runs(k, <<Ctx!Make(Fsr2!DescLayout("easu"), {Ctx!Device})>>, S(t11, i2, <<>>),
               S(t12, i2, <<>>))
       /\ At(k, Ctx!Fields, t12, i2, <<>>, NoSizes)
  <2>1. Plain(Ctx!Fields, t11, Fsr2!DescLayout("easu"))
    BY DEF Plain, Fresh, DpbImages, H264!DpbImage, External, t11, t12
  <2>2. t12 = t11 \cup {Fsr2!DescLayout("easu")}
    BY DEF t11, t12
  <2> QED BY <1>21, <2>1, <2>2, MakePlain0
<1>23. /\ Runs(k, <<Ctx!Use({Fsr2!DescLayout("easu")})>>, S(t12, i2, <<>>), S(t12, i2, <<>>))
  <2>1. {Fsr2!DescLayout("easu")} \subseteq Ctx!Fields \cup t12
    BY DEF t12
  <2> QED BY <1>22, <2>1, Uses
<1>24. /\ Runs(k, <<Ctx!Make(Fsr2!PipelineLayout("easu"), {Ctx!Device})>>, S(t12, i2, <<>>),
               S(t13, i2, <<>>))
       /\ At(k, Ctx!Fields, t13, i2, <<>>, NoSizes)
  <2>1. Plain(Ctx!Fields, t12, Fsr2!PipelineLayout("easu"))
    BY DEF Plain, Fresh, DpbImages, H264!DpbImage, External, t12, t13
  <2>2. t13 = t12 \cup {Fsr2!PipelineLayout("easu")}
    BY DEF t12, t13
  <2> QED BY <1>22, <2>1, <2>2, MakePlain0
<1>25. /\ Runs(k, <<Ctx!Use({Fsr2!Module("easu"), Fsr2!PipelineLayout("easu")})>>, S(t13, i2, <<>>),
               S(t13, i2, <<>>))
  <2>1. {Fsr2!Module("easu"), Fsr2!PipelineLayout("easu")} \subseteq Ctx!Fields \cup t13
    BY DEF t13
  <2> QED BY <1>24, <2>1, Uses
<1>26. /\ Runs(k, <<Ctx!Make(Fsr2!Pipeline("easu"), {Ctx!Device})>>, S(t13, i2, <<>>), S(t14, i2, <<>>))
       /\ At(k, Ctx!Fields, t14, i2, <<>>, NoSizes)
  <2>1. Plain(Ctx!Fields, t13, Fsr2!Pipeline("easu"))
    BY DEF Plain, Fresh, DpbImages, H264!DpbImage, External, t13, t14
  <2>2. t14 = t13 \cup {Fsr2!Pipeline("easu")}
    BY DEF t13, t14
  <2> QED BY <1>24, <2>1, <2>2, MakePlain0
<1>27. /\ Runs(k, <<Ctx!Free(Fsr2!Module("easu"))>>, S(t14, i2, <<>>), S(t15, i3, <<>>))
       /\ At(k, Ctx!Fields, t15, i3, <<>>, NoSizes)
  <2>1. Fsr2!Module("easu") \in t14 /\ Fsr2!Module("easu") \notin Ctx!Fields /\ t14 \ {Fsr2!Module("easu")} = t15
    BY DEF t14, t15
  <2>2. Childless(k, Ctx!Fields, t14, {Fsr2!Module("easu")})
    BY Barren2, BarrenChildless
  <2> QED BY <1>26, <2>1, <2>2, FreeTemp DEF i3
<1>28. Runs(k, <<Ctx!Try({}), Ctx!Make(Fsr2!Module("easu"), {Ctx!Device}),
       Ctx!Make(Fsr2!DescLayout("easu"), {Ctx!Device}), Ctx!Use({Fsr2!DescLayout("easu")}),
       Ctx!Make(Fsr2!PipelineLayout("easu"), {Ctx!Device}), Ctx!Use({Fsr2!Module("easu"),
       Fsr2!PipelineLayout("easu")}), Ctx!Make(Fsr2!Pipeline("easu"), {Ctx!Device}),
       Ctx!Free(Fsr2!Module("easu"))>>, S(t10, i2, <<>>),
               S(t15, i3, <<>>))
  BY <1>20, <1>21, <1>22, <1>23, <1>24, <1>25, <1>26, <1>27, Calls8
<1>29. Runs(k, Fsr2!create_pass("easu"), S(t10, i2, <<>>), S(t15, i3, <<>>))
  <2>1. Fsr2!create_pass("easu") = <<Ctx!Try({}), Ctx!Make(Fsr2!Module("easu"), {Ctx!Device}),
        Ctx!Make(Fsr2!DescLayout("easu"), {Ctx!Device}), Ctx!Use({Fsr2!DescLayout("easu")}),
        Ctx!Make(Fsr2!PipelineLayout("easu"), {Ctx!Device}), Ctx!Use({Fsr2!Module("easu"),
        Fsr2!PipelineLayout("easu")}), Ctx!Make(Fsr2!Pipeline("easu"), {Ctx!Device}),
        Ctx!Free(Fsr2!Module("easu"))>>
    BY DEF Fsr2!create_pass, Fsr2!Call, Ctx!Call, Fsr2!MakeOr, Ctx!MakeOr, Fsr2!Make, Ctx!Make,
         Fsr2!TryOr, Ctx!TryOr, Fsr2!Try, Ctx!Try, Fsr2!Use, Ctx!Use, Fsr2!FreeWith, Ctx!FreeWith,
         Fsr2!Free, Ctx!Free, Fsr2!Device, Ctx!Device
  <2> QED BY <2>1, <1>28
<1>30. /\ Runs(k, <<Ctx!Try({})>>, S(t15, i3, <<>>), S(t15, i3, <<>>))
  <2>1. {} \subseteq Ctx!Fields \cup t15
    BY DEF t15
  <2> QED BY <1>27, <2>1, Tries0
<1>31. /\ Runs(k, <<Ctx!Make(Fsr2!Module("rcas"), {Ctx!Device})>>, S(t15, i3, <<>>), S(t16, i3, <<>>))
       /\ At(k, Ctx!Fields, t16, i3, <<>>, NoSizes)
  <2>1. Plain(Ctx!Fields, t15, Fsr2!Module("rcas"))
    BY DEF Plain, Fresh, DpbImages, H264!DpbImage, External, t15, t16
  <2>2. t16 = t15 \cup {Fsr2!Module("rcas")}
    BY DEF t15, t16
  <2> QED BY <1>27, <2>1, <2>2, MakePlain0
<1>32. /\ Runs(k, <<Ctx!Make(Fsr2!DescLayout("rcas"), {Ctx!Device})>>, S(t16, i3, <<>>),
               S(t17, i3, <<>>))
       /\ At(k, Ctx!Fields, t17, i3, <<>>, NoSizes)
  <2>1. Plain(Ctx!Fields, t16, Fsr2!DescLayout("rcas"))
    BY DEF Plain, Fresh, DpbImages, H264!DpbImage, External, t16, t17
  <2>2. t17 = t16 \cup {Fsr2!DescLayout("rcas")}
    BY DEF t16, t17
  <2> QED BY <1>31, <2>1, <2>2, MakePlain0
<1>33. /\ Runs(k, <<Ctx!Use({Fsr2!DescLayout("rcas")})>>, S(t17, i3, <<>>), S(t17, i3, <<>>))
  <2>1. {Fsr2!DescLayout("rcas")} \subseteq Ctx!Fields \cup t17
    BY DEF t17
  <2> QED BY <1>32, <2>1, Uses
<1>34. /\ Runs(k, <<Ctx!Make(Fsr2!PipelineLayout("rcas"), {Ctx!Device})>>, S(t17, i3, <<>>),
               S(t18, i3, <<>>))
       /\ At(k, Ctx!Fields, t18, i3, <<>>, NoSizes)
  <2>1. Plain(Ctx!Fields, t17, Fsr2!PipelineLayout("rcas"))
    BY DEF Plain, Fresh, DpbImages, H264!DpbImage, External, t17, t18
  <2>2. t18 = t17 \cup {Fsr2!PipelineLayout("rcas")}
    BY DEF t17, t18
  <2> QED BY <1>32, <2>1, <2>2, MakePlain0
<1>35. /\ Runs(k, <<Ctx!Use({Fsr2!Module("rcas"), Fsr2!PipelineLayout("rcas")})>>, S(t18, i3, <<>>),
               S(t18, i3, <<>>))
  <2>1. {Fsr2!Module("rcas"), Fsr2!PipelineLayout("rcas")} \subseteq Ctx!Fields \cup t18
    BY DEF t18
  <2> QED BY <1>34, <2>1, Uses
<1>36. /\ Runs(k, <<Ctx!Make(Fsr2!Pipeline("rcas"), {Ctx!Device})>>, S(t18, i3, <<>>), S(t19, i3, <<>>))
       /\ At(k, Ctx!Fields, t19, i3, <<>>, NoSizes)
  <2>1. Plain(Ctx!Fields, t18, Fsr2!Pipeline("rcas"))
    BY DEF Plain, Fresh, DpbImages, H264!DpbImage, External, t18, t19
  <2>2. t19 = t18 \cup {Fsr2!Pipeline("rcas")}
    BY DEF t18, t19
  <2> QED BY <1>34, <2>1, <2>2, MakePlain0
<1>37. /\ Runs(k, <<Ctx!Free(Fsr2!Module("rcas"))>>, S(t19, i3, <<>>), S(t20, i4, <<>>))
       /\ At(k, Ctx!Fields, t20, i4, <<>>, NoSizes)
  <2>1. Fsr2!Module("rcas") \in t19 /\ Fsr2!Module("rcas") \notin Ctx!Fields /\ t19 \ {Fsr2!Module("rcas")} = t20
    BY DEF t19, t20
  <2>2. Childless(k, Ctx!Fields, t19, {Fsr2!Module("rcas")})
    BY Barren2, BarrenChildless
  <2> QED BY <1>36, <2>1, <2>2, FreeTemp DEF i4
<1>38. Runs(k, <<Ctx!Try({}), Ctx!Make(Fsr2!Module("rcas"), {Ctx!Device}),
       Ctx!Make(Fsr2!DescLayout("rcas"), {Ctx!Device}), Ctx!Use({Fsr2!DescLayout("rcas")}),
       Ctx!Make(Fsr2!PipelineLayout("rcas"), {Ctx!Device}), Ctx!Use({Fsr2!Module("rcas"),
       Fsr2!PipelineLayout("rcas")}), Ctx!Make(Fsr2!Pipeline("rcas"), {Ctx!Device}),
       Ctx!Free(Fsr2!Module("rcas"))>>, S(t15, i3, <<>>),
               S(t20, i4, <<>>))
  BY <1>30, <1>31, <1>32, <1>33, <1>34, <1>35, <1>36, <1>37, Calls8
<1>39. Runs(k, Fsr2!create_pass("rcas"), S(t15, i3, <<>>), S(t20, i4, <<>>))
  <2>1. Fsr2!create_pass("rcas") = <<Ctx!Try({}), Ctx!Make(Fsr2!Module("rcas"), {Ctx!Device}),
        Ctx!Make(Fsr2!DescLayout("rcas"), {Ctx!Device}), Ctx!Use({Fsr2!DescLayout("rcas")}),
        Ctx!Make(Fsr2!PipelineLayout("rcas"), {Ctx!Device}), Ctx!Use({Fsr2!Module("rcas"),
        Fsr2!PipelineLayout("rcas")}), Ctx!Make(Fsr2!Pipeline("rcas"), {Ctx!Device}),
        Ctx!Free(Fsr2!Module("rcas"))>>
    BY DEF Fsr2!create_pass, Fsr2!Call, Ctx!Call, Fsr2!MakeOr, Ctx!MakeOr, Fsr2!Make, Ctx!Make,
         Fsr2!TryOr, Ctx!TryOr, Fsr2!Try, Ctx!Try, Fsr2!Use, Ctx!Use, Fsr2!FreeWith, Ctx!FreeWith,
         Fsr2!Free, Ctx!Free, Fsr2!Device, Ctx!Device
  <2> QED BY <2>1, <1>38
<1>40. /\ Runs(k, <<Fsr2!Keep(Fsr2!PipelineFields)>>, S(t20, i4, <<>>),
             St(Ctx!Fields \cup Fsr2!PipelineFields, {}, i4, <<>>, NoSizes))
      /\ Shape(Ctx!Fields \cup Fsr2!PipelineFields, {}, i4, <<>>)
  <2>1. Fsr2!PipelineFields = t20
    BY PipelineFieldsAre DEF t20
  <2>2. Native!FsrCtx \notin Fsr2!PipelineFields
    BY PipelineFieldsAre DEF Native!FsrCtx
  <2>3. Fsr2!Keep(Fsr2!PipelineFields) = Ctx!Keep(Fsr2!PipelineFields)
    BY DEF Fsr2!Keep, Fsr2!Call, Ctx!Keep, Ctx!Call
  <2> QED BY <1>37, <2>1, <2>2, <2>3, KeepAll
<1>41. Runs(k, Fsr2!with_params, S({}, i, <<>>),
               St(Ctx!Fields \cup Fsr2!PipelineFields, {}, i4, <<>>, NoSizes))
  BY <1>19, <1>29, <1>39, <1>40, Cat4 DEF Fsr2!with_params
<1> QED BY <1>40, <1>41

\* A handle made from another one than the device.
LEMMA MakeFrom ==
  ASSUME NEW k, NEW m, NEW t, NEW i, NEW r, NEW c, NEW h, NEW p, NEW V,
         At(k, m, t, i, r, c), Plain(m, t, h), p \in m \cup t, Origin(h, p), V \subseteq t
  PROVE  /\ Runs(k, <<Ctx!MakeOr(h, {p}, V)>>, St(m, t, i, r, c), St(m, t \cup {h}, i, r, c))
         /\ At(k, m, t \cup {h}, i, r, c)
  BY MakeRuns DEF At, Plain

\* The same, when a failure undoes nothing.
LEMMA MakeFrom0 ==
  ASSUME NEW k, NEW m, NEW t, NEW i, NEW r, NEW c, NEW h, NEW p,
         At(k, m, t, i, r, c), Plain(m, t, h), p \in m \cup t, Origin(h, p)
  PROVE  /\ Runs(k, <<Ctx!Make(h, {p})>>, St(m, t, i, r, c), St(m, t \cup {h}, i, r, c))
         /\ At(k, m, t \cup {h}, i, r, c)
  BY MakeFrom DEF Ctx!Make

\* The fallback gives back everything it makes.
LEMMA FallbackRuns ==
  ASSUME NEW k, NEW m, NEW i, m = Ctx!Fields \cup Fsr2!PipelineFields,
         At(k, m, {}, i, <<>>, NoSizes), Rest(k, m, <<>>, NoSizes)
  PROVE  \E j : /\ Runs(k, Fsr2!upscale_fallback, St(m, {}, i, <<>>, NoSizes),
                        St(m, {}, j, <<>>, NoSizes))
                /\ At(k, m, {}, j, <<>>, NoSizes)
<1> DEFINE S(tt, ii, rr) == St(m, tt, ii, rr, NoSizes)
<1> USE DEF Ctx!Instance, Ctx!Device, Ctx!CommandPool, Fsr2!DescLayout, Fsr2!PipelineLayout,
            Fsr2!Pipeline,
           Fsr2!DescPool, Fsr2!DescSet, Fsr2!SrcBuf, Fsr2!SrcMem, Fsr2!DstBuf, Fsr2!DstMem, Fsr2!EasuCmd
<1>1. m = {Ctx!Instance, Ctx!Device, Ctx!CommandPool,
           Fsr2!DescPool, Fsr2!DescLayout("motion"), Fsr2!PipelineLayout("motion"),
           Fsr2!Pipeline("motion"), Fsr2!DescLayout("warp"), Fsr2!PipelineLayout("warp"),
           Fsr2!Pipeline("warp"), Fsr2!DescLayout("easu"), Fsr2!PipelineLayout("easu"),
           Fsr2!Pipeline("easu"), Fsr2!DescLayout("rcas"), Fsr2!PipelineLayout("rcas"),
           Fsr2!Pipeline("rcas")}
  BY PipelineFieldsAre DEF Ctx!Fields
<1>2. Rest(k, m, <<>>, NoSizes)
  OBVIOUS
<1> DEFINE t1 == {Fsr2!SrcBuf, Fsr2!SrcMem}
           t2 == {Fsr2!SrcBuf, Fsr2!SrcMem, Fsr2!DstBuf, Fsr2!DstMem}
           t3 == {Fsr2!SrcBuf, Fsr2!SrcMem, Fsr2!DstBuf, Fsr2!DstMem, Fsr2!DescSet("easu")}
           t4 == {Fsr2!SrcBuf, Fsr2!SrcMem, Fsr2!DstBuf, Fsr2!DstMem, Fsr2!DescSet("easu"),
            Fsr2!EasuCmd}
           t5 == {Fsr2!SrcBuf, Fsr2!SrcMem, Fsr2!DstBuf, Fsr2!DstMem, Fsr2!DescSet("easu"),
            Fsr2!EasuCmd, Fsr2!DescSet("rcas")}
           t6 == {Fsr2!SrcMem, Fsr2!DstBuf, Fsr2!DstMem, Fsr2!DescSet("easu"), Fsr2!EasuCmd,
            Fsr2!DescSet("rcas")}
           i1 == Without(<<>>, {Fsr2!SrcBuf})
           t7 == {Fsr2!DstBuf, Fsr2!DstMem, Fsr2!DescSet("easu"), Fsr2!EasuCmd, Fsr2!DescSet("rcas")}
           i2 == Without(i1, {Fsr2!SrcMem})
           t8 == {Fsr2!DstMem, Fsr2!DescSet("easu"), Fsr2!EasuCmd, Fsr2!DescSet("rcas")}
           i3 == Without(i2, {Fsr2!DstBuf})
           t9 == {Fsr2!DescSet("easu"), Fsr2!EasuCmd, Fsr2!DescSet("rcas")}
           i4 == Without(i3, {Fsr2!DstMem})
           t10 == {Fsr2!EasuCmd, Fsr2!DescSet("rcas")}
           i5 == Without(i4, {Fsr2!DescSet("easu")})
           t11 == {Fsr2!EasuCmd}
           i6 == Without(i5, {Fsr2!DescSet("rcas")})
           i7 == Without(i6, {Fsr2!EasuCmd})
<1> HIDE DEF t1, t2, t3, t4, t5, t6, i1, t7, i2, t8, i3, t9, i4, t10, i5, t11, i6, i7
<1>3. /\ Runs(k, Ctx!create_buffer(Fsr2!SrcBuf, Fsr2!SrcMem), S({}, i, <<>>), S(t1, i, <<>>))
      /\ At(k, m, t1, i, <<>>, NoSizes)
  <2>1. /\ Plain(m, {}, Fsr2!SrcBuf)
        /\ Plain(m, {}, Fsr2!SrcMem)
        /\ Fsr2!SrcBuf # Fsr2!SrcMem
    BY <1>1 DEF Plain, Fresh, DpbImages, H264!DpbImage, External, t1
  <2>2. t1 = {} \cup {Fsr2!SrcBuf, Fsr2!SrcMem}
    BY DEF t1
  <2> QED BY <2>1, <2>2, CreateBuffer
<1>4. /\ Runs(k, <<Ctx!Try({Fsr2!SrcMem})>>, S(t1, i, <<>>), S(t1, i, <<>>))
  <2>1. {Fsr2!SrcMem} \subseteq m \cup t1
    BY <1>1 DEF t1
  <2> QED BY <1>3, <2>1, Tries0
<1>5. /\ Runs(k, Ctx!create_buffer(Fsr2!DstBuf, Fsr2!DstMem), S(t1, i, <<>>), S(t2, i, <<>>))
      /\ At(k, m, t2, i, <<>>, NoSizes)
  <2>1. /\ Plain(m, t1, Fsr2!DstBuf)
        /\ Plain(m, t1, Fsr2!DstMem)
        /\ Fsr2!DstBuf # Fsr2!DstMem
    BY <1>1 DEF Plain, Fresh, DpbImages, H264!DpbImage, External, t1, t2
  <2>2. t2 = t1 \cup {Fsr2!DstBuf, Fsr2!DstMem}
    BY DEF t1, t2
  <2> QED BY <1>3, <2>1, <2>2, CreateBuffer
<1>6. /\ Runs(k, <<Ctx!Use({Fsr2!DescLayout("easu")})>>, S(t2, i, <<>>), S(t2, i, <<>>))
  <2>1. {Fsr2!DescLayout("easu")} \subseteq m \cup t2
    BY <1>1 DEF t2
  <2> QED BY <1>5, <2>1, Uses
<1>7. /\ Runs(k, <<Ctx!Make(Fsr2!DescSet("easu"), {Fsr2!DescPool})>>, S(t2, i, <<>>), S(t3, i, <<>>))
      /\ At(k, m, t3, i, <<>>, NoSizes)
  <2>1. /\ Plain(m, t2, Fsr2!DescSet("easu"))
        /\ Fsr2!DescPool \in m \cup t2
        /\ Origin(Fsr2!DescSet("easu"), Fsr2!DescPool)
    BY <1>1 DEF Plain, Fresh, DpbImages, H264!DpbImage, External, Origin, t2, t3
  <2>2. t3 = t2 \cup {Fsr2!DescSet("easu")}
    BY DEF Origin, t2, t3
  <2> QED BY <1>5, <2>1, <2>2, MakeFrom0
<1>8. Runs(k, <<Ctx!Use({Fsr2!DescLayout("easu")}), Ctx!Make(Fsr2!DescSet("easu"),
      {Fsr2!DescPool})>>, S(t2, i, <<>>),
              S(t3, i, <<>>))
  BY <1>6, <1>7, Calls2
<1>9. /\ Runs(k, Ctx!allocate_command_buffer(Fsr2!EasuCmd), S(t3, i, <<>>), S(t4, i, <<>>))
      /\ At(k, m, t4, i, <<>>, NoSizes)
  <2>1. /\ Plain(m, t3, Fsr2!EasuCmd)
        /\ Fsr2!EasuCmd \in CmdBuffers
    BY <1>1 DEF Plain, Fresh, DpbImages, H264!DpbImage, External, CmdBuffers, t3, t4
  <2>2. t4 = t3 \cup {Fsr2!EasuCmd}
    BY DEF t3, t4
  <2> QED BY <1>7, <2>1, <2>2, AllocateCommandBuffer
<1>10. /\ Runs(k, <<Ctx!Try({Fsr2!EasuCmd})>>, S(t4, i, <<>>), S(t4, i, <<>>))
  <2>1. {Fsr2!EasuCmd} \subseteq m \cup t4
    BY <1>1 DEF t4
  <2> QED BY <1>9, <2>1, Tries0
<1>11. /\ Runs(k, <<Ctx!Use({Fsr2!SrcBuf, Fsr2!DstBuf} \cup {Fsr2!DescSet("easu")})>>, S(t4, i, <<>>),
               S(t4, i, <<>>))
  <2>1. {Fsr2!SrcBuf, Fsr2!DstBuf} \cup {Fsr2!DescSet("easu")} \subseteq m \cup t4
    BY <1>1 DEF t4
  <2> QED BY <1>9, <2>1, Uses
<1>12. /\ Runs(k, <<Ctx!Use({Fsr2!EasuCmd, Fsr2!Pipeline("easu"), Fsr2!PipelineLayout("easu"),
          Fsr2!DescSet("easu")} \cup {Fsr2!SrcBuf, Fsr2!DstBuf})>>, S(t4, i, <<>>),
               S(t4, i, <<>>))
  <2>1. {Fsr2!EasuCmd, Fsr2!Pipeline("easu"), Fsr2!PipelineLayout("easu"),
        Fsr2!DescSet("easu")} \cup {Fsr2!SrcBuf, Fsr2!DstBuf} \subseteq m \cup t4
    BY <1>1 DEF t4
  <2> QED BY <1>9, <2>1, Uses
<1>13. Runs(k, <<Ctx!Use({Fsr2!SrcBuf, Fsr2!DstBuf} \cup {Fsr2!DescSet("easu")}),
       Ctx!Use({Fsr2!EasuCmd, Fsr2!Pipeline("easu"), Fsr2!PipelineLayout("easu"),
       Fsr2!DescSet("easu")} \cup {Fsr2!SrcBuf, Fsr2!DstBuf})>>, S(t4, i, <<>>),
               S(t4, i, <<>>))
  BY <1>11, <1>12, Calls2
<1>14. /\ Runs(k, <<Ctx!Use({Fsr2!DescLayout("rcas")})>>, S(t4, i, <<>>), S(t4, i, <<>>))
  <2>1. {Fsr2!DescLayout("rcas")} \subseteq m \cup t4
    BY <1>1 DEF t4
  <2> QED BY <1>9, <2>1, Uses
<1>15. /\ Runs(k, <<Ctx!Make(Fsr2!DescSet("rcas"), {Fsr2!DescPool})>>, S(t4, i, <<>>), S(t5, i, <<>>))
       /\ At(k, m, t5, i, <<>>, NoSizes)
  <2>1. /\ Plain(m, t4, Fsr2!DescSet("rcas"))
        /\ Fsr2!DescPool \in m \cup t4
        /\ Origin(Fsr2!DescSet("rcas"), Fsr2!DescPool)
    BY <1>1 DEF Plain, Fresh, DpbImages, H264!DpbImage, External, Origin, t4, t5
  <2>2. t5 = t4 \cup {Fsr2!DescSet("rcas")}
    BY DEF Origin, t4, t5
  <2> QED BY <1>9, <2>1, <2>2, MakeFrom0
<1>16. Runs(k, <<Ctx!Use({Fsr2!DescLayout("rcas")}), Ctx!Make(Fsr2!DescSet("rcas"),
       {Fsr2!DescPool})>>, S(t4, i, <<>>),
               S(t5, i, <<>>))
  BY <1>14, <1>15, Calls2
<1>17. /\ Runs(k, <<Ctx!Use({Fsr2!DstBuf} \cup {Fsr2!DescSet("rcas")})>>, S(t5, i, <<>>),
               S(t5, i, <<>>))
  <2>1. {Fsr2!DstBuf} \cup {Fsr2!DescSet("rcas")} \subseteq m \cup t5
    BY <1>1 DEF t5
  <2> QED BY <1>15, <2>1, Uses
<1>18. /\ Runs(k, <<Ctx!Use({Fsr2!EasuCmd, Fsr2!Pipeline("rcas"), Fsr2!PipelineLayout("rcas"),
          Fsr2!DescSet("rcas")} \cup {Fsr2!DstBuf})>>, S(t5, i, <<>>),
               S(t5, i, <<>>))
  <2>1. {Fsr2!EasuCmd, Fsr2!Pipeline("rcas"), Fsr2!PipelineLayout("rcas"),
        Fsr2!DescSet("rcas")} \cup {Fsr2!DstBuf} \subseteq m \cup t5
    BY <1>1 DEF t5
  <2> QED BY <1>15, <2>1, Uses
<1>19. Runs(k, <<Ctx!Use({Fsr2!DstBuf} \cup {Fsr2!DescSet("rcas")}), Ctx!Use({Fsr2!EasuCmd,
       Fsr2!Pipeline("rcas"), Fsr2!PipelineLayout("rcas"),
       Fsr2!DescSet("rcas")} \cup {Fsr2!DstBuf})>>, S(t5, i, <<>>),
               S(t5, i, <<>>))
  BY <1>17, <1>18, Calls2
<1>20. /\ Runs(k, <<Ctx!Try({Fsr2!EasuCmd})>>, S(t5, i, <<>>), S(t5, i, <<>>))
  <2>1. {Fsr2!EasuCmd} \subseteq m \cup t5
    BY <1>1 DEF t5
  <2> QED BY <1>15, <2>1, Tries0
<1>21. Runs(k, <<Ctx!Use({Fsr2!DescLayout("easu")}), Ctx!Make(Fsr2!DescSet("easu"),
       {Fsr2!DescPool})>> \o Ctx!allocate_command_buffer(Fsr2!EasuCmd) \o
       <<Ctx!Try({Fsr2!EasuCmd})>> \o <<Ctx!Use({Fsr2!SrcBuf,
       Fsr2!DstBuf} \cup {Fsr2!DescSet("easu")}), Ctx!Use({Fsr2!EasuCmd, Fsr2!Pipeline("easu"),
       Fsr2!PipelineLayout("easu"), Fsr2!DescSet("easu")} \cup {Fsr2!SrcBuf, Fsr2!DstBuf})>> \o
       <<Ctx!Use({Fsr2!DescLayout("rcas")}), Ctx!Make(Fsr2!DescSet("rcas"), {Fsr2!DescPool})>> \o
       <<Ctx!Use({Fsr2!DstBuf} \cup {Fsr2!DescSet("rcas")}), Ctx!Use({Fsr2!EasuCmd,
       Fsr2!Pipeline("rcas"), Fsr2!PipelineLayout("rcas"),
       Fsr2!DescSet("rcas")} \cup {Fsr2!DstBuf})>> \o <<Ctx!Try({Fsr2!EasuCmd})>>, S(t2, i, <<>>),
               S(t5, i, <<>>))
  BY <1>8, <1>9, <1>10, <1>13, <1>16, <1>19, <1>20, Cat7
<1>22. Runs(k, Fsr2!fallback_commands, S(t2, i, <<>>), S(t5, i, <<>>))
  <2>1. Fsr2!fallback_commands = <<Ctx!Use({Fsr2!DescLayout("easu")}),
        Ctx!Make(Fsr2!DescSet("easu"), {Fsr2!DescPool})>>
        \o Ctx!allocate_command_buffer(Fsr2!EasuCmd)
        \o <<Ctx!Try({Fsr2!EasuCmd})>>
        \o <<Ctx!Use({Fsr2!SrcBuf, Fsr2!DstBuf} \cup {Fsr2!DescSet("easu")}),
        Ctx!Use({Fsr2!EasuCmd, Fsr2!Pipeline("easu"), Fsr2!PipelineLayout("easu"),
        Fsr2!DescSet("easu")} \cup {Fsr2!SrcBuf, Fsr2!DstBuf})>>
        \o <<Ctx!Use({Fsr2!DescLayout("rcas")}), Ctx!Make(Fsr2!DescSet("rcas"), {Fsr2!DescPool})>>
        \o <<Ctx!Use({Fsr2!DstBuf} \cup {Fsr2!DescSet("rcas")}), Ctx!Use({Fsr2!EasuCmd,
        Fsr2!Pipeline("rcas"), Fsr2!PipelineLayout("rcas"), Fsr2!DescSet("rcas")} \cup {Fsr2!DstBuf})>>
        \o <<Ctx!Try({Fsr2!EasuCmd})>>
    BY DEF Fsr2!fallback_commands, Fsr2!AllocSet, Fsr2!RunPass, Fsr2!Call, Ctx!Call, Fsr2!MakeOr,
         Ctx!MakeOr, Fsr2!Make, Ctx!Make, Fsr2!TryOr, Ctx!TryOr, Fsr2!Try, Ctx!Try, Fsr2!Use,
         Ctx!Use, Fsr2!CommandPool, Ctx!CommandPool, Fsr2!allocate_command_buffer,
         Ctx!allocate_command_buffer
  <2> QED BY <2>1, <1>21
<1>23. /\ Runs(k, Ctx!submit_and_wait(Fsr2!EasuCmd), S(t5, i, <<>>), S(t5, <<>>, <<>>))
       /\ At(k, m, t5, <<>>, <<>>, NoSizes)
  <2>1. /\ Fsr2!EasuCmd \in m \cup t5
        /\ Plain(m, t5, <<"fence">>)
    BY <1>1 DEF Plain, Fresh, DpbImages, H264!DpbImage, External, t5
  <2> QED BY <1>15, <2>1, <1>2, SubmitAndWait
<1>24. /\ Runs(k, <<Ctx!Try({Fsr2!DstMem})>>, S(t5, <<>>, <<>>), S(t5, <<>>, <<>>))
  <2>1. {Fsr2!DstMem} \subseteq m \cup t5
    BY <1>1 DEF t5
  <2> QED BY <1>23, <2>1, Tries0
<1>25. /\ Runs(k, <<Ctx!Free(Fsr2!SrcBuf)>>, S(t5, <<>>, <<>>), S(t6, i1, <<>>))
       /\ At(k, m, t6, i1, <<>>, NoSizes)
  <2>1. Fsr2!SrcBuf \in t5 /\ Fsr2!SrcBuf \notin m /\ t5 \ {Fsr2!SrcBuf} = t6
    BY <1>1 DEF t5, t6
  <2>2. Childless(k, m, t5, {Fsr2!SrcBuf})
    BY Barren1, BarrenChildless
  <2> QED BY <1>23, <2>1, <2>2, FreeTemp DEF i1
<1>26. /\ Runs(k, <<Ctx!Free(Fsr2!SrcMem)>>, S(t6, i1, <<>>), S(t7, i2, <<>>))
       /\ At(k, m, t7, i2, <<>>, NoSizes)
  <2>1. Fsr2!SrcMem \in t6 /\ Fsr2!SrcMem \notin m /\ t6 \ {Fsr2!SrcMem} = t7
    BY <1>1 DEF t6, t7
  <2>2. Childless(k, m, t6, {Fsr2!SrcMem})
    BY Barren1, BarrenChildless
  <2> QED BY <1>25, <2>1, <2>2, FreeTemp DEF i2
<1>27. /\ Runs(k, <<Ctx!Free(Fsr2!DstBuf)>>, S(t7, i2, <<>>), S(t8, i3, <<>>))
       /\ At(k, m, t8, i3, <<>>, NoSizes)
  <2>1. Fsr2!DstBuf \in t7 /\ Fsr2!DstBuf \notin m /\ t7 \ {Fsr2!DstBuf} = t8
    BY <1>1 DEF t7, t8
  <2>2. Childless(k, m, t7, {Fsr2!DstBuf})
    BY Barren1, BarrenChildless
  <2> QED BY <1>26, <2>1, <2>2, FreeTemp DEF i3
<1>28. /\ Runs(k, <<Ctx!Free(Fsr2!DstMem)>>, S(t8, i3, <<>>), S(t9, i4, <<>>))
       /\ At(k, m, t9, i4, <<>>, NoSizes)
  <2>1. Fsr2!DstMem \in t8 /\ Fsr2!DstMem \notin m /\ t8 \ {Fsr2!DstMem} = t9
    BY <1>1 DEF t8, t9
  <2>2. Childless(k, m, t8, {Fsr2!DstMem})
    BY Barren1, BarrenChildless
  <2> QED BY <1>27, <2>1, <2>2, FreeTemp DEF i4
<1>29. /\ Runs(k, <<Ctx!Free(Fsr2!DescSet("easu"))>>, S(t9, i4, <<>>), S(t10, i5, <<>>))
       /\ At(k, m, t10, i5, <<>>, NoSizes)
  <2>1. Fsr2!DescSet("easu") \in t9 /\ Fsr2!DescSet("easu") \notin m /\ t9 \ {Fsr2!DescSet("easu")} = t10
    BY <1>1 DEF t9, t10
  <2>2. Childless(k, m, t9, {Fsr2!DescSet("easu")})
    BY Barren2, BarrenChildless
  <2> QED BY <1>28, <2>1, <2>2, FreeTemp DEF i5
<1>30. /\ Runs(k, <<Ctx!Free(Fsr2!DescSet("rcas"))>>, S(t10, i5, <<>>), S(t11, i6, <<>>))
       /\ At(k, m, t11, i6, <<>>, NoSizes)
  <2>1. Fsr2!DescSet("rcas") \in t10 /\ Fsr2!DescSet("rcas") \notin m /\ t10 \ {Fsr2!DescSet("rcas")} = t11
    BY <1>1 DEF t10, t11
  <2>2. Childless(k, m, t10, {Fsr2!DescSet("rcas")})
    BY Barren2, BarrenChildless
  <2> QED BY <1>29, <2>1, <2>2, FreeTemp DEF i6
<1>31. /\ Runs(k, <<Ctx!Free(Fsr2!EasuCmd)>>, S(t11, i6, <<>>), S({}, i7, <<>>))
       /\ At(k, m, {}, i7, <<>>, NoSizes)
  <2>1. Fsr2!EasuCmd \in t11 /\ Fsr2!EasuCmd \notin m /\ t11 \ {Fsr2!EasuCmd} = {}
    BY <1>1 DEF t11
  <2>2. Childless(k, m, t11, {Fsr2!EasuCmd})
    BY Barren1, BarrenChildless
  <2>3. /\ Runs(k, <<Ctx!Free(Fsr2!EasuCmd)>>, S(t11, i6, <<>>),
                S(t11 \ {Fsr2!EasuCmd}, Without(i6, {Fsr2!EasuCmd}), <<>>))
        /\ At(k, m, t11 \ {Fsr2!EasuCmd}, Without(i6, {Fsr2!EasuCmd}), <<>>, NoSizes)
    BY <1>30, <2>1, <2>2, FreeTemp
  <2> QED BY <2>1, <2>3 DEF i7
<1>32. Runs(k, <<Ctx!Free(Fsr2!SrcBuf), Ctx!Free(Fsr2!SrcMem), Ctx!Free(Fsr2!DstBuf),
       Ctx!Free(Fsr2!DstMem), Ctx!Free(Fsr2!DescSet("easu")), Ctx!Free(Fsr2!DescSet("rcas")),
       Ctx!Free(Fsr2!EasuCmd)>>, S(t5, <<>>, <<>>),
               S({}, i7, <<>>))
  BY <1>25, <1>26, <1>27, <1>28, <1>29, <1>30, <1>31, Calls7
<1>33. Runs(k, Fsr2!fallback_cleanup, S(t5, <<>>, <<>>), S({}, i7, <<>>))
  <2>1. Fsr2!fallback_cleanup = <<Ctx!Free(Fsr2!SrcBuf), Ctx!Free(Fsr2!SrcMem),
        Ctx!Free(Fsr2!DstBuf), Ctx!Free(Fsr2!DstMem), Ctx!Free(Fsr2!DescSet("easu")),
        Ctx!Free(Fsr2!DescSet("rcas")), Ctx!Free(Fsr2!EasuCmd)>>
    BY DEF Fsr2!fallback_cleanup, Fsr2!Call, Ctx!Call, Fsr2!FreeWith, Ctx!FreeWith, Fsr2!Free, Ctx!Free
  <2> QED BY <2>1, <1>32
<1>34. Runs(k, Ctx!create_buffer(Fsr2!SrcBuf, Fsr2!SrcMem) \o <<Ctx!Try({Fsr2!SrcMem})>> \o
       Ctx!create_buffer(Fsr2!DstBuf, Fsr2!DstMem) \o Fsr2!fallback_commands \o
       Ctx!submit_and_wait(Fsr2!EasuCmd) \o <<Ctx!Try({Fsr2!DstMem})>> \o Fsr2!fallback_cleanup,
       S({}, i, <<>>),
               S({}, i7, <<>>))
  BY <1>3, <1>4, <1>5, <1>22, <1>23, <1>24, <1>33, Cat7
<1>35. Runs(k, Fsr2!upscale_fallback, S({}, i, <<>>), S({}, i7, <<>>))
  <2>1. Fsr2!upscale_fallback = Ctx!create_buffer(Fsr2!SrcBuf, Fsr2!SrcMem)
        \o <<Ctx!Try({Fsr2!SrcMem})>>
        \o Ctx!create_buffer(Fsr2!DstBuf, Fsr2!DstMem)
        \o Fsr2!fallback_commands
        \o Ctx!submit_and_wait(Fsr2!EasuCmd)
        \o <<Ctx!Try({Fsr2!DstMem})>>
        \o Fsr2!fallback_cleanup
    BY DEF Fsr2!upscale_fallback, Fsr2!Call, Ctx!Call, Fsr2!MakeOr, Ctx!MakeOr, Fsr2!Make,
         Ctx!Make, Fsr2!TryOr, Ctx!TryOr, Fsr2!Try, Ctx!Try, Fsr2!FreeWith, Ctx!FreeWith,
         Fsr2!Free, Ctx!Free, Fsr2!Device, Ctx!Device, Fsr2!SubmitOr, Ctx!SubmitOr,
         Fsr2!create_buffer, Ctx!create_buffer, Fsr2!upload_to_buffer, Fsr2!read_from_buffer,
         Fsr2!submit_and_wait, Ctx!submit_and_wait
  <2> QED BY <2>1, <1>34
<1> QED BY <1>31, <1>35

-----------------------------------------------------------------------------
(* Dropping the pipelines and the cache of FSR 2 *)

\* Locals of a function, destroyed one after the other.
LEMMA FreeLocals ==
  ASSUME NEW k, NEW m, NEW t, NEW i, NEW r, NEW c, NEW s, NEW f, NEW all,
         Pics(i, m \cup t), all \cap m = {}, Destroys(k, m, t, s, f, all)
  PROVE  /\ Runs(k, s, St(m, t, i, r, c), St(m, t \ all, Without(i, all), r, c))
         /\ Pics(Without(i, all), m \cup (t \ all))
<1>1. m \ all = m /\ (m \cup t) \ all = m \cup (t \ all)
  OBVIOUS
<1>2. IsFcn(i)
  BY DEF Pics
<1>4. Runs(k, s, St(m, t, i, r, c), St(m \ all, t \ all, Without(i, all), r, c))
  BY <1>2, FreesRun
<1>5. Pics(Without(i, all), (m \cup t) \ all)
  BY WithoutPics
<1> QED BY <1>1, <1>4, <1>5

\* One local is destroyed.
LEMMA FreeLocal ==
  ASSUME NEW k, NEW m, NEW t, NEW i, NEW r, NEW c, NEW h,
         Pics(i, m \cup t), h \in t, h \notin m, Barren(h)
  PROVE  /\ Runs(k, <<Ctx!Free(h)>>, St(m, t, i, r, c), St(m, t \ {h}, Without(i, {h}), r, c))
         /\ Pics(Without(i, {h}), m \cup (t \ {h}))
<1>1. m \ {h} = m /\ (m \cup t) \ {h} = m \cup (t \ {h})
  OBVIOUS
<1>2. Runs(k, <<Ctx!Free(h)>>, St(m, t, i, r, c), St(m \ {h}, t \ {h}, Without(i, {h}), r, c))
  BY BarrenChildless, FreeRuns
<1>3. Pics(Without(i, {h}), (m \cup t) \ {h})
  BY WithoutPics
<1> QED BY <1>1, <1>2, <1>3

\* A texture of the cache is destroyed: view, image, memory.
LEMMA DestroyTextureRuns ==
  ASSUME NEW k, NEW m, NEW t, NEW i, NEW r, NEW c, NEW n \in Native!Textures,
         Pics(i, m \cup t), {Native!View(n), Native!Image(n), Native!Mem(n)} \subseteq t,
         {Native!View(n), Native!Image(n), Native!Mem(n)} \cap m = {}
  PROVE  LET all == {Native!View(n), Native!Image(n), Native!Mem(n)}
         IN  /\ Runs(k, Native!DestroyTexture(n), St(m, t, i, r, c),
                     St(m, t \ all, Without(i, all), r, c))
             /\ Pics(Without(i, all), m \cup (t \ all))
<1> DEFINE all == {Native!View(n), Native!Image(n), Native!Mem(n)}
           f == <<Native!View(n), Native!Image(n), Native!Mem(n)>>
           s == Native!DestroyTexture(n)
<1>1. f[1] = Native!View(n) /\ f[2] = Native!Image(n) /\ f[3] = Native!Mem(n)
  OBVIOUS
<1>2. /\ s \in Seq({Ctx!Free(f[1]), Ctx!Free(f[2]), Ctx!Free(f[3])}) /\ Len(s) = 3
      /\ s[1] = Ctx!Free(f[1]) /\ s[2] = Ctx!Free(f[2]) /\ s[3] = Ctx!Free(f[3])
  BY DEF Native!DestroyTexture, Native!Free, Native!FreeWith, Native!Call, Ctx!Free, Ctx!FreeWith,
         Ctx!Call
<1>3. 1 .. 3 = {1, 2, 3} /\ n \in {"color", "depth", "mv", "output"}
  BY DEF Native!Textures
<1> HIDE DEF f, s
<1>4. IsSeq(s)
  BY <1>2, IsSeqOf
<1>5. /\ \A j \in 1 .. 3 : s[j] = Ctx!Free(f[j]) /\ f[j] \in all
      /\ \A h \in all : \E j \in 1 .. 3 : f[j] = h
  BY <1>1, <1>2, <1>3
<1>6. \A j, l \in 1 .. 3 : f[j] = f[l] => j = l
  BY <1>1, <1>3 DEF Native!View, Native!Image, Native!Mem
<1>7. \A j \in 1 .. 3 : \A g \in m \cup t : Origin(g, f[j]) => \E l \in 1 .. j : f[l] = g
  <2> SUFFICES ASSUME NEW j \in 1 .. 3, NEW g \in m \cup t, Origin(g, f[j])
               PROVE  \E l \in 1 .. j : f[l] = g
    OBVIOUS
  <2>1. Barren(Native!View(n)) /\ Barren(Native!Mem(n))
    BY <1>3, Barren2 DEF Native!View, Native!Mem
  <2>2. j = 2
    BY <1>1, <1>3, <2>1 DEF Barren
  <2>3. g = Native!View(n)
    BY <1>1, <1>3, <2>2
    DEF Origin, Ctx!Instance, Ctx!Device, Ctx!CommandPool, Fsr2!DescPool, Native!Image,
        Native!View, H264!Session, H264!CmdPool, H264!DpbImage, External
  <2> QED BY <1>1, <2>2, <2>3
<1> HIDE DEF all
<1>8. /\ Runs(k, s, St(m, t, i, r, c), St(m, t \ all, Without(i, all), r, c))
      /\ Pics(Without(i, all), m \cup (t \ all))
  <2>1. all \subseteq t /\ all \cap m = {}
    BY DEF all
  <2>2. Destroys(k, m, t, s, f, all)
    BY <1>2, <1>4, <1>5, <1>6, <1>7, <2>1 DEF Destroys
  <2> QED BY <2>1, <2>2, FreeLocals
<1> QED BY <1>8 DEF all, s

\* A buffer of the cache is destroyed with its memory.
LEMMA DestroyBufferRuns ==
  ASSUME NEW k, NEW m, NEW t, NEW i, NEW r, NEW c, NEW n \in Native!Buffers,
         Pics(i, m \cup t), {Native!Buf(n), Native!Mem(n)} \subseteq t,
         {Native!Buf(n), Native!Mem(n)} \cap m = {}
  PROVE  LET all == {Native!Buf(n), Native!Mem(n)}
         IN  /\ Runs(k, Native!DestroyBuffer(n), St(m, t, i, r, c),
                     St(m, t \ all, Without(i, all), r, c))
             /\ Pics(Without(i, all), m \cup (t \ all))
<1> DEFINE all == {Native!Buf(n), Native!Mem(n)}
           f == <<Native!Buf(n), Native!Mem(n)>>
           s == Native!DestroyBuffer(n)
<1>1. f[1] = Native!Buf(n) /\ f[2] = Native!Mem(n)
  OBVIOUS
<1>2. /\ s \in Seq({Ctx!Free(f[1]), Ctx!Free(f[2])}) /\ Len(s) = 2
      /\ s[1] = Ctx!Free(f[1]) /\ s[2] = Ctx!Free(f[2])
  BY DEF Native!DestroyBuffer, Native!Free, Native!FreeWith, Native!Call, Ctx!Free, Ctx!FreeWith,
         Ctx!Call
<1>3. 1 .. 2 = {1, 2} /\ n \in {"staging_color", "staging_depth", "staging_mv", "readback"}
  BY DEF Native!Buffers
<1> HIDE DEF f, s
<1>4. IsSeq(s)
  BY <1>2, IsSeqOf
<1>5. /\ \A j \in 1 .. 2 : s[j] = Ctx!Free(f[j]) /\ f[j] \in all
      /\ \A h \in all : \E j \in 1 .. 2 : f[j] = h
  BY <1>1, <1>2, <1>3
<1>6. \A j, l \in 1 .. 2 : f[j] = f[l] => j = l
  BY <1>1, <1>3 DEF Native!Buf, Native!Mem
<1>7. \A j \in 1 .. 2 : \A g \in m \cup t : Origin(g, f[j]) => \E l \in 1 .. j : f[l] = g
  <2>1. Barren(Native!Buf(n)) /\ Barren(Native!Mem(n))
    BY <1>3, Barren2 DEF Native!Buf, Native!Mem
  <2> QED BY <1>1, <1>3, <2>1 DEF Barren
<1> HIDE DEF all
<1>8. /\ Runs(k, s, St(m, t, i, r, c), St(m, t \ all, Without(i, all), r, c))
      /\ Pics(Without(i, all), m \cup (t \ all))
  <2>1. all \subseteq t /\ all \cap m = {}
    BY DEF all
  <2>2. Destroys(k, m, t, s, f, all)
    BY <1>2, <1>4, <1>5, <1>6, <1>7, <2>1 DEF Destroys
  <2> QED BY <2>1, <2>2, FreeLocals
<1> QED BY <1>8 DEF all, s

\* The handles of the cache, listed.
LEMMA CachedAre ==
  Native!CachedResources =
    {Native!FsrCtx, Native!Cmd, Native!Image("color"),
     Native!View("color"), Native!Mem("color"), Native!Image("depth"),
     Native!View("depth"), Native!Mem("depth"), Native!Image("mv"),
     Native!View("mv"), Native!Mem("mv"), Native!Image("output"),
     Native!View("output"), Native!Mem("output"), Native!Buf("staging_color"),
     Native!Mem("staging_color"), Native!Buf("staging_depth"), Native!Mem("staging_depth"),
     Native!Buf("staging_mv"), Native!Mem("staging_mv"), Native!Buf("readback"),
     Native!Mem("readback")}
<1>1. {Native!Image(n) : n \in Native!Textures} = {Native!Image("color"), Native!Image("depth"),
                                                   Native!Image("mv"), Native!Image("output")}
  BY DEF Native!Textures
<1>2. {Native!View(n) : n \in Native!Textures} = {Native!View("color"), Native!View("depth"),
                                                  Native!View("mv"), Native!View("output")}
  BY DEF Native!Textures
<1>3. {Native!Buf(n) : n \in Native!Buffers} = {Native!Buf("staging_color"),
      Native!Buf("staging_depth"),
                                                Native!Buf("staging_mv"), Native!Buf("readback")}
  BY DEF Native!Buffers
<1>4. {Native!Mem(n) : n \in Native!Textures \cup Native!Buffers} =
        {Native!Mem("color"), Native!Mem("depth"), Native!Mem("mv"), Native!Mem("output"),
         Native!Mem("staging_color"), Native!Mem("staging_depth"), Native!Mem("staging_mv"),
         Native!Mem("readback")}
  BY DEF Native!Textures, Native!Buffers
<1> QED BY <1>1, <1>2, <1>3, <1>4 DEF Native!CachedResources

\* The cache is taken out of the component and destroyed to the last handle.
LEMMA DestroyCachedRuns ==
  ASSUME NEW k, NEW m, NEW i, NEW c, Pics(i, m), Native!CachedResources \subseteq m
  PROVE  \E j : /\ Runs(k, Native!DestroyCached, St(m, {}, i, <<>>, c),
                        St(m \ Native!CachedResources, {}, j, <<>>, NoSizes))
                /\ Pics(j, m \ Native!CachedResources)
<1> USE DEF Native!FsrCtx, Native!Cmd, Native!Image, Native!View, Native!Mem, Native!Buf
<1> DEFINE m0 == m \ Native!CachedResources
           t0 == {Native!FsrCtx, Native!Cmd, Native!Image("color"),
                  Native!View("color"), Native!Mem("color"), Native!Image("depth"),
                  Native!View("depth"), Native!Mem("depth"), Native!Image("mv"),
                  Native!View("mv"), Native!Mem("mv"), Native!Image("output"),
                  Native!View("output"), Native!Mem("output"), Native!Buf("staging_color"),
                  Native!Mem("staging_color"), Native!Buf("staging_depth"), Native!Mem("staging_depth"),
                  Native!Buf("staging_mv"), Native!Mem("staging_mv"), Native!Buf("readback"),
                  Native!Mem("readback")}
           t1 == {Native!Cmd, Native!Image("color"), Native!View("color"),
                  Native!Mem("color"), Native!Image("depth"), Native!View("depth"),
                  Native!Mem("depth"), Native!Image("mv"), Native!View("mv"),
                  Native!Mem("mv"), Native!Image("output"), Native!View("output"),
                  Native!Mem("output"), Native!Buf("staging_color"), Native!Mem("staging_color"),
                  Native!Buf("staging_depth"), Native!Mem("staging_depth"), Native!Buf("staging_mv"),
                  Native!Mem("staging_mv"), Native!Buf("readback"), Native!Mem("readback")}
           t2 == {Native!Cmd, Native!Image("depth"), Native!View("depth"),
                  Native!Mem("depth"), Native!Image("mv"), Native!View("mv"),
                  Native!Mem("mv"), Native!Image("output"), Native!View("output"),
                  Native!Mem("output"), Native!Buf("staging_color"), Native!Mem("staging_color"),
                  Native!Buf("staging_depth"), Native!Mem("staging_depth"), Native!Buf("staging_mv"),
                  Native!Mem("staging_mv"), Native!Buf("readback"), Native!Mem("readback")}
           t3 == {Native!Cmd, Native!Image("mv"), Native!View("mv"),
                  Native!Mem("mv"), Native!Image("output"), Native!View("output"),
                  Native!Mem("output"), Native!Buf("staging_color"), Native!Mem("staging_color"),
                  Native!Buf("staging_depth"), Native!Mem("staging_depth"), Native!Buf("staging_mv"),
                  Native!Mem("staging_mv"), Native!Buf("readback"), Native!Mem("readback")}
           t4 == {Native!Cmd, Native!Image("output"), Native!View("output"),
                  Native!Mem("output"), Native!Buf("staging_color"), Native!Mem("staging_color"),
                  Native!Buf("staging_depth"), Native!Mem("staging_depth"), Native!Buf("staging_mv"),
                  Native!Mem("staging_mv"), Native!Buf("readback"), Native!Mem("readback")}
           t5 == {Native!Cmd, Native!Buf("staging_color"), Native!Mem("staging_color"),
                  Native!Buf("staging_depth"), Native!Mem("staging_depth"), Native!Buf("staging_mv"),
                  Native!Mem("staging_mv"), Native!Buf("readback"), Native!Mem("readback")}
           t6 == {Native!Cmd, Native!Buf("staging_depth"), Native!Mem("staging_depth"),
                  Native!Buf("staging_mv"), Native!Mem("staging_mv"), Native!Buf("readback"),
                  Native!Mem("readback")}
           t7 == {Native!Cmd, Native!Buf("staging_mv"), Native!Mem("staging_mv"),
                  Native!Buf("readback"), Native!Mem("readback")}
           t8 == {Native!Cmd, Native!Buf("readback"), Native!Mem("readback")}
           t9 == {Native!Cmd}
           t10 == {}
           i1 == Without(i, {Native!FsrCtx})
           i2 == Without(i1, {Native!View("color"), Native!Image("color"), Native!Mem("color")})
           i3 == Without(i2, {Native!View("depth"), Native!Image("depth"), Native!Mem("depth")})
           i4 == Without(i3, {Native!View("mv"), Native!Image("mv"), Native!Mem("mv")})
           i5 == Without(i4, {Native!View("output"), Native!Image("output"), Native!Mem("output")})
           i6 == Without(i5, {Native!Buf("staging_color"), Native!Mem("staging_color")})
           i7 == Without(i6, {Native!Buf("staging_depth"), Native!Mem("staging_depth")})
           i8 == Without(i7, {Native!Buf("staging_mv"), Native!Mem("staging_mv")})
           i9 == Without(i8, {Native!Buf("readback"), Native!Mem("readback")})
           i10 == Without(i9, {Native!Cmd})
<1>1. Native!CachedResources = t0 /\ m0 \cap t0 = {}
  BY CachedAre
<1> HIDE DEF m0, t0, t1, t2, t3, t4, t5, t6, t7, t8, t9, t10, i1, i2, i3, i4, i5, i6, i7, i8, i9, i10
<1>2. /\ Runs(k, <<Ctx!Take(Native!CachedResources)>>, St(m, {}, i, <<>>, c),
              St(m0, t0, i, <<>>, NoSizes))
      /\ Pics(i, m0 \cup t0)
  <2>1. {} \cup Native!CachedResources = t0 /\ m0 \cup t0 = m /\ m \ Native!CachedResources = m0
    BY <1>1 DEF m0
  <2>2. Runs(k, <<Ctx!Take(Native!CachedResources)>>, St(m, {}, i, <<>>, c),
             St(m \ Native!CachedResources, {} \cup Native!CachedResources, i, <<>>, NoSizes))
    BY TakeRuns
  <2> QED BY <2>1, <2>2
<1>3. /\ Runs(k, <<Ctx!Free(Native!FsrCtx)>>, St(m0, t0, i, <<>>, NoSizes), St(m0, t1, i1, <<>>,
         NoSizes))
      /\ Pics(i1, m0 \cup t1)
  <2>1. {Native!FsrCtx} \subseteq t0 /\ {Native!FsrCtx} \cap m0 = {} /\ t0 \ {Native!FsrCtx} = t1
    BY <1>1 DEF t0, t0, t1
  <2> QED BY <1>2, <2>1, FreeLocal, Barren1 DEF i1
<1>4. /\ Runs(k, Native!DestroyTexture("color"), St(m0, t1, i1, <<>>, NoSizes), St(m0, t2, i2,
         <<>>, NoSizes))
      /\ Pics(i2, m0 \cup t2)
  <2>1. {Native!View("color"), Native!Image("color"),
        Native!Mem("color")} \subseteq t1 /\ {Native!View("color"), Native!Image("color"),
        Native!Mem("color")} \cap m0 = {} /\ t1 \ {Native!View("color"), Native!Image("color"),
        Native!Mem("color")} = t2
    BY <1>1 DEF t0, t1, t2
  <2> QED BY <1>3, <2>1, DestroyTextureRuns DEF i2, Native!Textures
<1>5. /\ Runs(k, Native!DestroyTexture("depth"), St(m0, t2, i2, <<>>, NoSizes), St(m0, t3, i3,
         <<>>, NoSizes))
      /\ Pics(i3, m0 \cup t3)
  <2>1. {Native!View("depth"), Native!Image("depth"),
        Native!Mem("depth")} \subseteq t2 /\ {Native!View("depth"), Native!Image("depth"),
        Native!Mem("depth")} \cap m0 = {} /\ t2 \ {Native!View("depth"), Native!Image("depth"),
        Native!Mem("depth")} = t3
    BY <1>1 DEF t0, t2, t3
  <2> QED BY <1>4, <2>1, DestroyTextureRuns DEF i3, Native!Textures
<1>6. /\ Runs(k, Native!DestroyTexture("mv"), St(m0, t3, i3, <<>>, NoSizes), St(m0, t4, i4, <<>>,
         NoSizes))
      /\ Pics(i4, m0 \cup t4)
  <2>1. {Native!View("mv"), Native!Image("mv"),
        Native!Mem("mv")} \subseteq t3 /\ {Native!View("mv"), Native!Image("mv"),
        Native!Mem("mv")} \cap m0 = {} /\ t3 \ {Native!View("mv"), Native!Image("mv"),
        Native!Mem("mv")} = t4
    BY <1>1 DEF t0, t3, t4
  <2> QED BY <1>5, <2>1, DestroyTextureRuns DEF i4, Native!Textures
<1>7. /\ Runs(k, Native!DestroyTexture("output"), St(m0, t4, i4, <<>>, NoSizes), St(m0, t5, i5,
         <<>>, NoSizes))
      /\ Pics(i5, m0 \cup t5)
  <2>1. {Native!View("output"), Native!Image("output"),
        Native!Mem("output")} \subseteq t4 /\ {Native!View("output"), Native!Image("output"),
        Native!Mem("output")} \cap m0 = {} /\ t4 \ {Native!View("output"), Native!Image("output"),
        Native!Mem("output")} = t5
    BY <1>1 DEF t0, t4, t5
  <2> QED BY <1>6, <2>1, DestroyTextureRuns DEF i5, Native!Textures
<1>8. /\ Runs(k, Native!DestroyBuffer("staging_color"), St(m0, t5, i5, <<>>, NoSizes), St(m0, t6,
         i6, <<>>, NoSizes))
      /\ Pics(i6, m0 \cup t6)
  <2>1. {Native!Buf("staging_color"),
        Native!Mem("staging_color")} \subseteq t5 /\ {Native!Buf("staging_color"),
        Native!Mem("staging_color")} \cap m0 = {} /\ t5 \ {Native!Buf("staging_color"),
        Native!Mem("staging_color")} = t6
    BY <1>1 DEF t0, t5, t6
  <2> QED BY <1>7, <2>1, DestroyBufferRuns DEF i6, Native!Buffers
<1>9. /\ Runs(k, Native!DestroyBuffer("staging_depth"), St(m0, t6, i6, <<>>, NoSizes), St(m0, t7,
         i7, <<>>, NoSizes))
      /\ Pics(i7, m0 \cup t7)
  <2>1. {Native!Buf("staging_depth"),
        Native!Mem("staging_depth")} \subseteq t6 /\ {Native!Buf("staging_depth"),
        Native!Mem("staging_depth")} \cap m0 = {} /\ t6 \ {Native!Buf("staging_depth"),
        Native!Mem("staging_depth")} = t7
    BY <1>1 DEF t0, t6, t7
  <2> QED BY <1>8, <2>1, DestroyBufferRuns DEF i7, Native!Buffers
<1>10. /\ Runs(k, Native!DestroyBuffer("staging_mv"), St(m0, t7, i7, <<>>, NoSizes), St(m0, t8, i8,
          <<>>, NoSizes))
      /\ Pics(i8, m0 \cup t8)
  <2>1. {Native!Buf("staging_mv"),
        Native!Mem("staging_mv")} \subseteq t7 /\ {Native!Buf("staging_mv"),
        Native!Mem("staging_mv")} \cap m0 = {} /\ t7 \ {Native!Buf("staging_mv"),
        Native!Mem("staging_mv")} = t8
    BY <1>1 DEF t0, t7, t8
  <2> QED BY <1>9, <2>1, DestroyBufferRuns DEF i8, Native!Buffers
<1>11. /\ Runs(k, Native!DestroyBuffer("readback"), St(m0, t8, i8, <<>>, NoSizes), St(m0, t9, i9,
          <<>>, NoSizes))
      /\ Pics(i9, m0 \cup t9)
  <2>1. {Native!Buf("readback"), Native!Mem("readback")} \subseteq t8 /\ {Native!Buf("readback"),
        Native!Mem("readback")} \cap m0 = {} /\ t8 \ {Native!Buf("readback"),
        Native!Mem("readback")} = t9
    BY <1>1 DEF t0, t8, t9
  <2> QED BY <1>10, <2>1, DestroyBufferRuns DEF i9, Native!Buffers
<1>12. /\ Runs(k, <<Ctx!Free(Native!Cmd)>>, St(m0, t9, i9, <<>>, NoSizes), St(m0, t10, i10, <<>>,
          NoSizes))
      /\ Pics(i10, m0 \cup t10)
  <2>1. {Native!Cmd} \subseteq t9 /\ {Native!Cmd} \cap m0 = {} /\ t9 \ {Native!Cmd} = t10
    BY <1>1 DEF t0, t9, t10
  <2> QED BY <1>11, <2>1, FreeLocal, Barren1 DEF i10
<1>13. Runs(k, <<Ctx!Take(Native!CachedResources), Ctx!Free(Native!FsrCtx)>>, St(m, {}, i, <<>>, c),
           St(m0, t1, i1, <<>>, NoSizes))
  BY <1>2, <1>3, Calls2
<1>14. Native!DestroyCached =
        <<Ctx!Take(Native!CachedResources), Ctx!Free(Native!FsrCtx)>>
          \o Native!DestroyTexture("color") \o Native!DestroyTexture("depth") \o
          Native!DestroyTexture("mv")
          \o Native!DestroyTexture("output")
          \o Native!DestroyBuffer("staging_color") \o Native!DestroyBuffer("staging_depth")
          \o Native!DestroyBuffer("staging_mv") \o Native!DestroyBuffer("readback") \o
          <<Ctx!Free(Native!Cmd)>>
  BY DEF Native!DestroyCached, Native!Take, Native!Free, Native!FreeWith, Native!Call, Ctx!Take,
         Ctx!Free, Ctx!FreeWith, Ctx!Call
<1>15. Runs(k, Native!DestroyCached, St(m, {}, i, <<>>, c), St(m0, t10, i10, <<>>, NoSizes))
  BY <1>13, <1>14, <1>4, <1>5, <1>6, <1>7, <1>8, <1>9, <1>10, <1>11, <1>12, Cat10
<1>16. t10 = {} /\ m0 \cup t10 = m0
  BY DEF t10
<1> QED BY <1>12, <1>15, <1>16 DEF m0

\* One kind of handle of the four passes.
PassHandles(kind) == {<<"motion", kind>>, <<"warp", kind>>, <<"easu", kind>>, <<"rcas", kind>>}

\* The handles of one kind are destroyed, pass by pass.
LEMMA FreePassesRuns ==
  ASSUME NEW k, NEW m, NEW i, NEW r, NEW c, NEW kind, NEW s, Pics(i, m), IsSeq(s), Len(s) = 4,
         \A j \in 1 .. 4 : s[j] = Ctx!Free(<<Fsr2!Passes[j], kind>>),
         PassHandles(kind) \subseteq m, kind # "image"
  PROVE  /\ Runs(k, s, St(m, {}, i, r, c),
                 St(m \ PassHandles(kind), {}, Without(i, PassHandles(kind)), r, c))
         /\ Pics(Without(i, PassHandles(kind)), m \ PassHandles(kind))
<1> DEFINE f == <<<<"motion", kind>>, <<"warp", kind>>, <<"easu", kind>>, <<"rcas", kind>>>>
           all == PassHandles(kind)
<1>1. /\ f[1] = <<"motion", kind>> /\ f[2] = <<"warp", kind>> /\ f[3] = <<"easu", kind>>
      /\ f[4] = <<"rcas", kind>>
  OBVIOUS
<1>2. 1 .. 4 = {1, 2, 3, 4}
  OBVIOUS
<1> HIDE DEF f
<1>3. /\ Fsr2!Passes[1] = "motion" /\ Fsr2!Passes[2] = "warp" /\ Fsr2!Passes[3] = "easu"
      /\ Fsr2!Passes[4] = "rcas"
  BY DEF Fsr2!Passes
<1>4. \A j \in 1 .. 4 : f[j] = <<Fsr2!Passes[j], kind>>
  BY <1>1, <1>2, <1>3
<1>5. \A j \in 1 .. 4 : f[j] \in all
  BY <1>1, <1>2 DEF PassHandles
<1>6. \A h \in all : \E j \in 1 .. 4 : f[j] = h
  BY <1>1, <1>2 DEF PassHandles
<1>7. \A j, l \in 1 .. 4 : f[j] = f[l] => j = l
  BY <1>1, <1>2
<1>8. \A j \in 1 .. 4 : Barren(f[j])
  BY <1>1, <1>2, Barren2
<1>9. Destroys(k, m, {}, s, f, all)
  BY <1>4, <1>5, <1>6, <1>7, <1>8 DEF Barren, Destroys
<1> HIDE DEF all
<1>10. Runs(k, s, St(m, {}, i, r, c), St(m \ all, {} \ all, Without(i, all), r, c))
  BY <1>9, FreesRun DEF Pics
<1>11. {} \ all = {}
  OBVIOUS
<1>12. Pics(Without(i, all), m \ all)
  BY WithoutPics
<1> QED BY <1>10, <1>11, <1>12 DEF all

\* Drop of Fsr2Interpolator: its pipelines go, the rest stays.
LEMMA DropPipelinesRuns ==
  ASSUME NEW k, NEW m, NEW i, NEW r, NEW c, Pics(i, m), Fsr2!PipelineFields \subseteq m,
         Fsr2!DescSet("easu") \notin m, Fsr2!DescSet("rcas") \notin m
  PROVE  \E j : /\ Runs(k, Fsr2!drop_pipelines, St(m, {}, i, r, c),
                        St(m \ Fsr2!PipelineFields, {}, j, r, c))
                /\ Pics(j, m \ Fsr2!PipelineFields)
<1> DEFINE pool == Fsr2!DescPool
           m1 == m \ {pool}
           i1 == Without(i, {pool})
           A == PassHandles("pipeline")
           m2 == m1 \ A
           i2 == Without(i1, A)
           B == PassHandles("pipeline_layout")
           m3 == m2 \ B
           i3 == Without(i2, B)
           C == PassHandles("desc_layout")
           m4 == m3 \ C
           i4 == Without(i3, C)
           s2 == [j \in 1 .. 4 |-> Fsr2!Free(Fsr2!Pipeline(Fsr2!Passes[j]))]
           s3 == [j \in 1 .. 4 |-> Fsr2!Free(Fsr2!PipelineLayout(Fsr2!Passes[j]))]
           s4 == [j \in 1 .. 4 |-> Fsr2!Free(Fsr2!DescLayout(Fsr2!Passes[j]))]
<1>1. /\ Runs(k, <<Fsr2!Free(pool)>>, St(m, {}, i, r, c), St(m1, {}, i1, r, c))
      /\ Pics(i1, m1)
  <2>1. Childless(k, m, {}, {pool})
    BY DEF Childless, Origin, Ctx!Instance, Ctx!Device, Ctx!CommandPool, Fsr2!DescPool,
           Native!Image, H264!Session, H264!CmdPool, H264!DpbImage, External
  <2>2. pool \in m \cup {} /\ {} \ {pool} = {}
    BY DEF Fsr2!PipelineFields
  <2>3. Fsr2!Free(pool) = Ctx!Free(pool)
    BY DEF Fsr2!Free, Fsr2!FreeWith, Fsr2!Call, Ctx!Free, Ctx!FreeWith, Ctx!Call
  <2> HIDE DEF pool
  <2>4. Runs(k, <<Ctx!Free(pool)>>, St(m, {}, i, r, c), St(m \ {pool}, {} \ {pool}, Without(i,
        {pool}), r, c))
    BY <2>1, <2>2, FreeRuns
  <2> QED BY <2>2, <2>3, <2>4, WithoutPics
<1>2. Fsr2!PipelineFields = {pool} \cup A \cup B \cup C
  BY PipelineFieldsAre DEF PassHandles, Fsr2!Pipeline, Fsr2!PipelineLayout, Fsr2!DescLayout
<1>3. A \subseteq m1 /\ B \subseteq m2 /\ C \subseteq m3
  <2>1. pool \notin A /\ pool \notin B /\ pool \notin C
    BY DEF PassHandles, Fsr2!DescPool
  <2>2. A \cap B = {} /\ A \cap C = {} /\ B \cap C = {}
    BY DEF PassHandles
  <2> HIDE DEF A, B, C, pool
  <2> QED BY <1>2, <2>1, <2>2
<1>4. m4 = m \ Fsr2!PipelineFields
  <2> HIDE DEF A, B, C, pool
  <2> QED BY <1>2
<1>5. ASSUME NEW h PROVE Fsr2!Free(h) = Ctx!Free(h)
  BY DEF Fsr2!Free, Fsr2!FreeWith, Fsr2!Call, Ctx!Free, Ctx!FreeWith, Ctx!Call
<1>6. /\ s2 \in Seq({s2[j] : j \in 1 .. 4}) /\ Len(s2) = 4
      /\ \A j \in 1 .. 4 : s2[j] = Fsr2!Free(<<Fsr2!Passes[j], "pipeline">>)
  BY DEF Fsr2!Pipeline
<1>7. /\ s3 \in Seq({s3[j] : j \in 1 .. 4}) /\ Len(s3) = 4
      /\ \A j \in 1 .. 4 : s3[j] = Fsr2!Free(<<Fsr2!Passes[j], "pipeline_layout">>)
  BY DEF Fsr2!PipelineLayout
<1>8. /\ s4 \in Seq({s4[j] : j \in 1 .. 4}) /\ Len(s4) = 4
      /\ \A j \in 1 .. 4 : s4[j] = Fsr2!Free(<<Fsr2!Passes[j], "desc_layout">>)
  BY DEF Fsr2!DescLayout
<1> HIDE DEF s2, s3, s4
<1>9. IsSeq(s2) /\ IsSeq(s3) /\ IsSeq(s4)
  BY <1>6, <1>7, <1>8, IsSeqOf
<1>10. /\ \A j \in 1 .. 4 : s2[j] = Ctx!Free(<<Fsr2!Passes[j], "pipeline">>)
       /\ \A j \in 1 .. 4 : s3[j] = Ctx!Free(<<Fsr2!Passes[j], "pipeline_layout">>)
       /\ \A j \in 1 .. 4 : s4[j] = Ctx!Free(<<Fsr2!Passes[j], "desc_layout">>)
  BY <1>5, <1>6, <1>7, <1>8
<1> HIDE DEF m1, m2, m3, m4, i1, i2, i3, i4
<1>11. Runs(k, s2, St(m1, {}, i1, r, c), St(m2, {}, i2, r, c)) /\ Pics(i2, m2)
  BY <1>1, <1>3, <1>6, <1>9, <1>10, FreePassesRuns DEF m2, i2
<1>12. Runs(k, s3, St(m2, {}, i2, r, c), St(m3, {}, i3, r, c)) /\ Pics(i3, m3)
  BY <1>3, <1>7, <1>9, <1>10, <1>11, FreePassesRuns DEF m3, i3
<1>13. Runs(k, s4, St(m3, {}, i3, r, c), St(m4, {}, i4, r, c)) /\ Pics(i4, m4)
  BY <1>3, <1>8, <1>9, <1>10, <1>12, FreePassesRuns DEF m4, i4
<1>14. Fsr2!drop_pipelines = <<Fsr2!Free(pool)>> \o s2 \o s3 \o s4
  BY DEF Fsr2!drop_pipelines, s2, s3, s4
<1>15. Runs(k, <<Fsr2!Free(pool)>> \o s2 \o s3 \o s4, St(m, {}, i, r, c), St(m4, {}, i4, r, c))
  BY <1>1, <1>11, <1>12, <1>13, Cat4
<1> QED BY <1>4, <1>13, <1>14, <1>15

-----------------------------------------------------------------------------
(* The cache of Fsr2Native *)

\* A picture stays known when another image goes.
LEMMA IsWithout ==
  ASSUME NEW f, NEW hs, NEW g, NEW l, NEW d, NEW e, Is(f, g, l, d, e), g \notin hs
  PROVE  Is(Without(f, hs), g, l, d, e)
  BY DEF Without, Is

\* Everything of the cache is made, and is still a local.
LEMMA CreateCachedRuns ==
  ASSUME NEW k, NEW m, NEW i, NEW src \in Sizes, NEW dst \in Sizes,
         m = Ctx!Fields \cup Fsr2!PipelineFields, At(k, m, {}, i, <<>>, NoSizes)
  PROVE  \E j : /\ Runs(k, Native!CreateCached(src, dst), St(m, {}, i, <<>>, NoSizes),
                        St(m, Native!CachedResources, j, <<>>, NoSizes))
                /\ At(k, m, Native!CachedResources, j, <<>>, NoSizes)
                /\ Is(j, Native!Image("color"), "UNDEFINED", FALSE, src)
                /\ Is(j, Native!Image("depth"), "UNDEFINED", FALSE, src)
                /\ Is(j, Native!Image("mv"), "UNDEFINED", FALSE, src)
                /\ Is(j, Native!Image("output"), "UNDEFINED", FALSE, dst)
<1> DEFINE S(tt, ii, rr) == St(m, tt, ii, rr, NoSizes)
<1> USE DEF Ctx!Instance, Ctx!Device, Ctx!CommandPool, Fsr2!DescLayout, Fsr2!PipelineLayout,
            Fsr2!Pipeline,
           Fsr2!DescPool, Native!FsrCtx, Native!Cmd, Native!InitCmd, Native!Image, Native!View,
           Native!Mem, Native!Buf
<1>1. m = {Ctx!Instance, Ctx!Device, Ctx!CommandPool,
           Fsr2!DescPool, Fsr2!DescLayout("motion"), Fsr2!PipelineLayout("motion"),
           Fsr2!Pipeline("motion"), Fsr2!DescLayout("warp"), Fsr2!PipelineLayout("warp"),
           Fsr2!Pipeline("warp"), Fsr2!DescLayout("easu"), Fsr2!PipelineLayout("easu"),
           Fsr2!Pipeline("easu"), Fsr2!DescLayout("rcas"), Fsr2!PipelineLayout("rcas"),
           Fsr2!Pipeline("rcas")}
  BY PipelineFieldsAre DEF Ctx!Fields
<1> DEFINE t1 == {Native!FsrCtx}
           t2 == {Native!FsrCtx, Native!Image("color"), Native!Mem("color")}
           i1 == Put(i, Native!Image("color"), Pic("UNDEFINED", FALSE, src))
           t3 == {Native!FsrCtx, Native!Image("color"), Native!Mem("color"), Native!View("color")}
           t4 == {Native!FsrCtx, Native!Image("color"), Native!Mem("color"), Native!View("color"),
            Native!Image("depth"), Native!Mem("depth")}
           i2 == Put(i1, Native!Image("depth"), Pic("UNDEFINED", FALSE, src))
           t5 == {Native!FsrCtx, Native!Image("color"), Native!Mem("color"), Native!View("color"),
            Native!Image("depth"), Native!Mem("depth"), Native!View("depth")}
           t6 == {Native!FsrCtx, Native!Image("color"), Native!Mem("color"), Native!View("color"),
            Native!Image("depth"), Native!Mem("depth"), Native!View("depth"), Native!Image("mv"),
            Native!Mem("mv")}
           i3 == Put(i2, Native!Image("mv"), Pic("UNDEFINED", FALSE, src))
           t7 == {Native!FsrCtx, Native!Image("color"), Native!Mem("color"), Native!View("color"),
            Native!Image("depth"), Native!Mem("depth"), Native!View("depth"), Native!Image("mv"),
            Native!Mem("mv"), Native!View("mv")}
           t8 == {Native!FsrCtx, Native!Image("color"), Native!Mem("color"), Native!View("color"),
            Native!Image("depth"), Native!Mem("depth"), Native!View("depth"), Native!Image("mv"),
            Native!Mem("mv"), Native!View("mv"), Native!Image("output"), Native!Mem("output")}
           i4 == Put(i3, Native!Image("output"), Pic("UNDEFINED", FALSE, dst))
           t9 == {Native!FsrCtx, Native!Image("color"), Native!Mem("color"), Native!View("color"),
            Native!Image("depth"), Native!Mem("depth"), Native!View("depth"), Native!Image("mv"),
            Native!Mem("mv"), Native!View("mv"), Native!Image("output"), Native!Mem("output"),
            Native!View("output")}
           t10 == {Native!FsrCtx, Native!Image("color"), Native!Mem("color"), Native!View("color"),
            Native!Image("depth"), Native!Mem("depth"), Native!View("depth"), Native!Image("mv"),
            Native!Mem("mv"), Native!View("mv"), Native!Image("output"), Native!Mem("output"),
            Native!View("output"), Native!Buf("staging_color"), Native!Mem("staging_color")}
           t11 == {Native!FsrCtx, Native!Image("color"), Native!Mem("color"), Native!View("color"),
            Native!Image("depth"), Native!Mem("depth"), Native!View("depth"), Native!Image("mv"),
            Native!Mem("mv"), Native!View("mv"), Native!Image("output"), Native!Mem("output"),
            Native!View("output"), Native!Buf("staging_color"), Native!Mem("staging_color"),
            Native!Buf("staging_depth"), Native!Mem("staging_depth")}
           t12 == {Native!FsrCtx, Native!Image("color"), Native!Mem("color"), Native!View("color"),
            Native!Image("depth"), Native!Mem("depth"), Native!View("depth"), Native!Image("mv"),
            Native!Mem("mv"), Native!View("mv"), Native!Image("output"), Native!Mem("output"),
            Native!View("output"), Native!Buf("staging_color"), Native!Mem("staging_color"),
            Native!Buf("staging_depth"), Native!Mem("staging_depth"), Native!Buf("staging_mv"),
            Native!Mem("staging_mv")}
           t13 == {Native!FsrCtx, Native!Image("color"), Native!Mem("color"), Native!View("color"),
            Native!Image("depth"), Native!Mem("depth"), Native!View("depth"), Native!Image("mv"),
            Native!Mem("mv"), Native!View("mv"), Native!Image("output"), Native!Mem("output"),
            Native!View("output"), Native!Buf("staging_color"), Native!Mem("staging_color"),
            Native!Buf("staging_depth"), Native!Mem("staging_depth"), Native!Buf("staging_mv"),
            Native!Mem("staging_mv"), Native!Buf("readback"), Native!Mem("readback")}
           t14 == {Native!FsrCtx, Native!Image("color"), Native!Mem("color"), Native!View("color"),
            Native!Image("depth"), Native!Mem("depth"), Native!View("depth"), Native!Image("mv"),
            Native!Mem("mv"), Native!View("mv"), Native!Image("output"), Native!Mem("output"),
            Native!View("output"), Native!Buf("staging_color"), Native!Mem("staging_color"),
            Native!Buf("staging_depth"), Native!Mem("staging_depth"), Native!Buf("staging_mv"),
            Native!Mem("staging_mv"), Native!Buf("readback"), Native!Mem("readback"), Native!Cmd}
<1> HIDE DEF t1, t2, i1, t3, t4, i2, t5, t6, i3, t7, t8, i4, t9, t10, t11, t12, t13, t14
<1>2. /\ Runs(k, <<Ctx!Try({Ctx!Instance})>>, S({}, i, <<>>), S({}, i, <<>>))
  <2>1. {Ctx!Instance} \subseteq m \cup {}
    BY <1>1
  <2> QED BY <2>1, Tries0
<1>3. /\ Runs(k, <<Ctx!Make(Native!FsrCtx, {Ctx!Device})>>, S({}, i, <<>>), S(t1, i, <<>>))
      /\ At(k, m, t1, i, <<>>, NoSizes)
  <2>1. Plain(m, {}, Native!FsrCtx)
    BY <1>1 DEF Plain, Fresh, DpbImages, H264!DpbImage, External, t1
  <2>2. t1 = {} \cup {Native!FsrCtx}
    BY <1>1 DEF t1
  <2> QED BY <2>1, <2>2, MakePlain0
<1>4. Runs(k, <<Ctx!Try({Ctx!Instance}), Ctx!Make(Native!FsrCtx, {Ctx!Device})>>, S({}, i, <<>>),
              S(t1, i, <<>>))
  BY <1>2, <1>3, Calls2
<1>5. /\ Runs(k, Ctx!create_image(Native!Image("color"), Native!Mem("color"), src), S(t1, i, <<>>),
              S(t2, i1, <<>>))
      /\ At(k, m, t2, i1, <<>>, NoSizes)
  <2>1. /\ Plain(m, t1, Native!Image("color"))
        /\ Plain(m, t1, Native!Mem("color"))
        /\ Native!Image("color") # Native!Mem("color")
    BY <1>1 DEF Plain, Fresh, DpbImages, H264!DpbImage, External, t1, t2
  <2>2. t2 = t1 \cup {Native!Image("color"), Native!Mem("color")}
    BY <1>1 DEF t1, t2
  <2> QED BY <1>3, <2>1, <2>2, SizesPositive, CreateImage DEF i1
<1>6. Is(i1, Native!Image("color"), "UNDEFINED", FALSE, src)
  BY IsPut, IsKept DEF i1
<1>7. /\ Runs(k, <<Ctx!MakeOr(Native!View("color"), {Native!Image("color")}, {Native!Mem("color"),
         Native!Image("color")})>>, S(t2, i1, <<>>),
              S(t3, i1, <<>>))
      /\ At(k, m, t3, i1, <<>>, NoSizes)
  <2>1. /\ Plain(m, t2, Native!View("color"))
        /\ Native!Image("color") \in m \cup t2
        /\ Origin(Native!View("color"), Native!Image("color"))
        /\ {Native!Mem("color"), Native!Image("color")} \subseteq t2
    BY <1>1 DEF Plain, Fresh, DpbImages, H264!DpbImage, External, Origin, t2, t3
  <2>2. t3 = t2 \cup {Native!View("color")}
    BY <1>1 DEF Origin, t2, t3
  <2> QED BY <1>5, <2>1, <2>2, MakeFrom
<1>8. Runs(k, Ctx!create_image(Native!Image("color"), Native!Mem("color"), src) \o
      <<Ctx!MakeOr(Native!View("color"), {Native!Image("color")}, {Native!Mem("color"),
      Native!Image("color")})>>, S(t1, i, <<>>),
              S(t3, i1, <<>>))
  BY <1>5, <1>7, RunsCat
<1>9. Runs(k, Native!create_fsr_image("color", src), S(t1, i, <<>>), S(t3, i1, <<>>))
  <2>1. Native!create_fsr_image("color", src) = Ctx!create_image(Native!Image("color"),
        Native!Mem("color"), src)
        \o <<Ctx!MakeOr(Native!View("color"), {Native!Image("color")}, {Native!Mem("color"),
        Native!Image("color")})>>
    BY DEF Native!Call, Ctx!Call, Native!MakeOr, Ctx!MakeOr, Native!Make, Ctx!Make, Native!TryOr,
         Ctx!TryOr, Native!MakeImage, Ctx!MakeImage, Native!Device, Ctx!Device,
         Native!create_image, Ctx!create_image, Native!create_fsr_image
  <2> QED BY <2>1, <1>8
<1>10. /\ Runs(k, Ctx!create_image(Native!Image("depth"), Native!Mem("depth"), src), S(t3, i1, <<>>),
               S(t4, i2, <<>>))
       /\ At(k, m, t4, i2, <<>>, NoSizes)
  <2>1. /\ Plain(m, t3, Native!Image("depth"))
        /\ Plain(m, t3, Native!Mem("depth"))
        /\ Native!Image("depth") # Native!Mem("depth")
    BY <1>1 DEF Plain, Fresh, DpbImages, H264!DpbImage, External, t3, t4
  <2>2. t4 = t3 \cup {Native!Image("depth"), Native!Mem("depth")}
    BY <1>1 DEF t3, t4
  <2> QED BY <1>7, <2>1, <2>2, SizesPositive, CreateImage DEF i2
<1>11. /\ Is(i2, Native!Image("color"), "UNDEFINED", FALSE, src)
       /\ Is(i2, Native!Image("depth"), "UNDEFINED", FALSE, src)
  BY <1>6, IsPut, IsKept DEF i2
<1>12. /\ Runs(k, <<Ctx!MakeOr(Native!View("depth"), {Native!Image("depth")}, {Native!Mem("depth"),
          Native!Image("depth")})>>, S(t4, i2, <<>>),
               S(t5, i2, <<>>))
       /\ At(k, m, t5, i2, <<>>, NoSizes)
  <2>1. /\ Plain(m, t4, Native!View("depth"))
        /\ Native!Image("depth") \in m \cup t4
        /\ Origin(Native!View("depth"), Native!Image("depth"))
        /\ {Native!Mem("depth"), Native!Image("depth")} \subseteq t4
    BY <1>1 DEF Plain, Fresh, DpbImages, H264!DpbImage, External, Origin, t4, t5
  <2>2. t5 = t4 \cup {Native!View("depth")}
    BY <1>1 DEF Origin, t4, t5
  <2> QED BY <1>10, <2>1, <2>2, MakeFrom
<1>13. Runs(k, Ctx!create_image(Native!Image("depth"), Native!Mem("depth"), src) \o
       <<Ctx!MakeOr(Native!View("depth"), {Native!Image("depth")}, {Native!Mem("depth"),
       Native!Image("depth")})>>, S(t3, i1, <<>>),
               S(t5, i2, <<>>))
  BY <1>10, <1>12, RunsCat
<1>14. Runs(k, Native!create_fsr_image_format("depth", src), S(t3, i1, <<>>), S(t5, i2, <<>>))
  <2>1. Native!create_fsr_image_format("depth", src) = Ctx!create_image(Native!Image("depth"),
        Native!Mem("depth"), src)
        \o <<Ctx!MakeOr(Native!View("depth"), {Native!Image("depth")}, {Native!Mem("depth"),
        Native!Image("depth")})>>
    BY DEF Native!Call, Ctx!Call, Native!MakeOr, Ctx!MakeOr, Native!Make, Ctx!Make, Native!TryOr,
         Ctx!TryOr, Native!MakeImage, Ctx!MakeImage, Native!Device, Ctx!Device,
         Native!create_image, Ctx!create_image, Native!create_fsr_image_format
  <2> QED BY <2>1, <1>13
<1>15. /\ Runs(k, Ctx!create_image(Native!Image("mv"), Native!Mem("mv"), src), S(t5, i2, <<>>),
               S(t6, i3, <<>>))
       /\ At(k, m, t6, i3, <<>>, NoSizes)
  <2>1. /\ Plain(m, t5, Native!Image("mv"))
        /\ Plain(m, t5, Native!Mem("mv"))
        /\ Native!Image("mv") # Native!Mem("mv")
    BY <1>1 DEF Plain, Fresh, DpbImages, H264!DpbImage, External, t5, t6
  <2>2. t6 = t5 \cup {Native!Image("mv"), Native!Mem("mv")}
    BY <1>1 DEF t5, t6
  <2> QED BY <1>12, <2>1, <2>2, SizesPositive, CreateImage DEF i3
<1>16. /\ Is(i3, Native!Image("color"), "UNDEFINED", FALSE, src)
       /\ Is(i3, Native!Image("depth"), "UNDEFINED", FALSE, src)
       /\ Is(i3, Native!Image("mv"), "UNDEFINED", FALSE, src)
  BY <1>11, IsPut, IsKept DEF i3
<1>17. /\ Runs(k, <<Ctx!MakeOr(Native!View("mv"), {Native!Image("mv")}, {Native!Mem("mv"),
          Native!Image("mv")})>>, S(t6, i3, <<>>),
               S(t7, i3, <<>>))
       /\ At(k, m, t7, i3, <<>>, NoSizes)
  <2>1. /\ Plain(m, t6, Native!View("mv"))
        /\ Native!Image("mv") \in m \cup t6
        /\ Origin(Native!View("mv"), Native!Image("mv"))
        /\ {Native!Mem("mv"), Native!Image("mv")} \subseteq t6
    BY <1>1 DEF Plain, Fresh, DpbImages, H264!DpbImage, External, Origin, t6, t7
  <2>2. t7 = t6 \cup {Native!View("mv")}
    BY <1>1 DEF Origin, t6, t7
  <2> QED BY <1>15, <2>1, <2>2, MakeFrom
<1>18. Runs(k, Ctx!create_image(Native!Image("mv"), Native!Mem("mv"), src) \o
       <<Ctx!MakeOr(Native!View("mv"), {Native!Image("mv")}, {Native!Mem("mv"),
       Native!Image("mv")})>>, S(t5, i2, <<>>),
               S(t7, i3, <<>>))
  BY <1>15, <1>17, RunsCat
<1>19. Runs(k, Native!create_fsr_image_format("mv", src), S(t5, i2, <<>>), S(t7, i3, <<>>))
  <2>1. Native!create_fsr_image_format("mv", src) = Ctx!create_image(Native!Image("mv"),
        Native!Mem("mv"), src)
        \o <<Ctx!MakeOr(Native!View("mv"), {Native!Image("mv")}, {Native!Mem("mv"),
        Native!Image("mv")})>>
    BY DEF Native!Call, Ctx!Call, Native!MakeOr, Ctx!MakeOr, Native!Make, Ctx!Make, Native!TryOr,
         Ctx!TryOr, Native!MakeImage, Ctx!MakeImage, Native!Device, Ctx!Device,
         Native!create_image, Ctx!create_image, Native!create_fsr_image_format
  <2> QED BY <2>1, <1>18
<1>20. /\ Runs(k, Ctx!create_image(Native!Image("output"), Native!Mem("output"), dst), S(t7, i3, <<>>),
               S(t8, i4, <<>>))
       /\ At(k, m, t8, i4, <<>>, NoSizes)
  <2>1. /\ Plain(m, t7, Native!Image("output"))
        /\ Plain(m, t7, Native!Mem("output"))
        /\ Native!Image("output") # Native!Mem("output")
    BY <1>1 DEF Plain, Fresh, DpbImages, H264!DpbImage, External, t7, t8
  <2>2. t8 = t7 \cup {Native!Image("output"), Native!Mem("output")}
    BY <1>1 DEF t7, t8
  <2> QED BY <1>17, <2>1, <2>2, SizesPositive, CreateImage DEF i4
<1>21. /\ Is(i4, Native!Image("color"), "UNDEFINED", FALSE, src)
       /\ Is(i4, Native!Image("depth"), "UNDEFINED", FALSE, src)
       /\ Is(i4, Native!Image("mv"), "UNDEFINED", FALSE, src)
       /\ Is(i4, Native!Image("output"), "UNDEFINED", FALSE, dst)
  BY <1>16, IsPut, IsKept DEF i4
<1>22. /\ Runs(k, <<Ctx!MakeOr(Native!View("output"), {Native!Image("output")},
          {Native!Mem("output"), Native!Image("output")})>>, S(t8, i4, <<>>),
               S(t9, i4, <<>>))
       /\ At(k, m, t9, i4, <<>>, NoSizes)
  <2>1. /\ Plain(m, t8, Native!View("output"))
        /\ Native!Image("output") \in m \cup t8
        /\ Origin(Native!View("output"), Native!Image("output"))
        /\ {Native!Mem("output"), Native!Image("output")} \subseteq t8
    BY <1>1 DEF Plain, Fresh, DpbImages, H264!DpbImage, External, Origin, t8, t9
  <2>2. t9 = t8 \cup {Native!View("output")}
    BY <1>1 DEF Origin, t8, t9
  <2> QED BY <1>20, <2>1, <2>2, MakeFrom
<1>23. Runs(k, Ctx!create_image(Native!Image("output"), Native!Mem("output"), dst) \o
       <<Ctx!MakeOr(Native!View("output"), {Native!Image("output")}, {Native!Mem("output"),
       Native!Image("output")})>>, S(t7, i3, <<>>),
               S(t9, i4, <<>>))
  BY <1>20, <1>22, RunsCat
<1>24. Runs(k, Native!create_fsr_image("output", dst), S(t7, i3, <<>>), S(t9, i4, <<>>))
  <2>1. Native!create_fsr_image("output", dst) = Ctx!create_image(Native!Image("output"),
        Native!Mem("output"), dst)
        \o <<Ctx!MakeOr(Native!View("output"), {Native!Image("output")}, {Native!Mem("output"),
        Native!Image("output")})>>
    BY DEF Native!Call, Ctx!Call, Native!MakeOr, Ctx!MakeOr, Native!Make, Ctx!Make, Native!TryOr,
         Ctx!TryOr, Native!MakeImage, Ctx!MakeImage, Native!Device, Ctx!Device,
         Native!create_image, Ctx!create_image, Native!create_fsr_image
  <2> QED BY <2>1, <1>23
<1>25. /\ Runs(k, Ctx!create_buffer(Native!Buf("staging_color"), Native!Mem("staging_color")),
          S(t9, i4, <<>>),
               S(t10, i4, <<>>))
       /\ At(k, m, t10, i4, <<>>, NoSizes)
  <2>1. /\ Plain(m, t9, Native!Buf("staging_color"))
        /\ Plain(m, t9, Native!Mem("staging_color"))
        /\ Native!Buf("staging_color") # Native!Mem("staging_color")
    BY <1>1 DEF Plain, Fresh, DpbImages, H264!DpbImage, External, t9, t10
  <2>2. t10 = t9 \cup {Native!Buf("staging_color"), Native!Mem("staging_color")}
    BY <1>1 DEF t9, t10
  <2> QED BY <1>22, <2>1, <2>2, CreateBuffer
<1>26. /\ Runs(k, Ctx!create_buffer(Native!Buf("staging_depth"), Native!Mem("staging_depth")),
          S(t10, i4, <<>>),
               S(t11, i4, <<>>))
       /\ At(k, m, t11, i4, <<>>, NoSizes)
  <2>1. /\ Plain(m, t10, Native!Buf("staging_depth"))
        /\ Plain(m, t10, Native!Mem("staging_depth"))
        /\ Native!Buf("staging_depth") # Native!Mem("staging_depth")
    BY <1>1 DEF Plain, Fresh, DpbImages, H264!DpbImage, External, t10, t11
  <2>2. t11 = t10 \cup {Native!Buf("staging_depth"), Native!Mem("staging_depth")}
    BY <1>1 DEF t10, t11
  <2> QED BY <1>25, <2>1, <2>2, CreateBuffer
<1>27. /\ Runs(k, Ctx!create_buffer(Native!Buf("staging_mv"), Native!Mem("staging_mv")), S(t11, i4,
          <<>>),
               S(t12, i4, <<>>))
       /\ At(k, m, t12, i4, <<>>, NoSizes)
  <2>1. /\ Plain(m, t11, Native!Buf("staging_mv"))
        /\ Plain(m, t11, Native!Mem("staging_mv"))
        /\ Native!Buf("staging_mv") # Native!Mem("staging_mv")
    BY <1>1 DEF Plain, Fresh, DpbImages, H264!DpbImage, External, t11, t12
  <2>2. t12 = t11 \cup {Native!Buf("staging_mv"), Native!Mem("staging_mv")}
    BY <1>1 DEF t11, t12
  <2> QED BY <1>26, <2>1, <2>2, CreateBuffer
<1>28. /\ Runs(k, Ctx!create_buffer(Native!Buf("readback"), Native!Mem("readback")), S(t12, i4, <<>>),
               S(t13, i4, <<>>))
       /\ At(k, m, t13, i4, <<>>, NoSizes)
  <2>1. /\ Plain(m, t12, Native!Buf("readback"))
        /\ Plain(m, t12, Native!Mem("readback"))
        /\ Native!Buf("readback") # Native!Mem("readback")
    BY <1>1 DEF Plain, Fresh, DpbImages, H264!DpbImage, External, t12, t13
  <2>2. t13 = t12 \cup {Native!Buf("readback"), Native!Mem("readback")}
    BY <1>1 DEF t12, t13
  <2> QED BY <1>27, <2>1, <2>2, CreateBuffer
<1>29. /\ Runs(k, Ctx!allocate_command_buffer(Native!Cmd), S(t13, i4, <<>>), S(t14, i4, <<>>))
       /\ At(k, m, t14, i4, <<>>, NoSizes)
  <2>1. /\ Plain(m, t13, Native!Cmd)
        /\ Native!Cmd \in CmdBuffers
    BY <1>1 DEF Plain, Fresh, DpbImages, H264!DpbImage, External, CmdBuffers, t13, t14
  <2>2. t14 = t13 \cup {Native!Cmd}
    BY <1>1 DEF t13, t14
  <2> QED BY <1>28, <2>1, <2>2, AllocateCommandBuffer
<1>30. Runs(k, <<Ctx!Try({Ctx!Instance}), Ctx!Make(Native!FsrCtx, {Ctx!Device})>> \o
       Native!create_fsr_image("color", src) \o Native!create_fsr_image_format("depth", src) \o
       Native!create_fsr_image_format("mv", src) \o Native!create_fsr_image("output", dst) \o
       Ctx!create_buffer(Native!Buf("staging_color"), Native!Mem("staging_color")) \o
       Ctx!create_buffer(Native!Buf("staging_depth"), Native!Mem("staging_depth")) \o
       Ctx!create_buffer(Native!Buf("staging_mv"), Native!Mem("staging_mv")) \o
       Ctx!create_buffer(Native!Buf("readback"), Native!Mem("readback")) \o
       Ctx!allocate_command_buffer(Native!Cmd), S({}, i, <<>>),
               S(t14, i4, <<>>))
  BY <1>4, <1>9, <1>14, <1>19, <1>24, <1>25, <1>26, <1>27, <1>28, <1>29, Cat10
<1>31. Runs(k, Native!CreateCached(src, dst), S({}, i, <<>>), S(t14, i4, <<>>))
  <2>1. Native!CreateCached(src, dst) = <<Ctx!Try({Ctx!Instance}), Ctx!Make(Native!FsrCtx,
        {Ctx!Device})>>
        \o Native!create_fsr_image("color", src)
        \o Native!create_fsr_image_format("depth", src)
        \o Native!create_fsr_image_format("mv", src)
        \o Native!create_fsr_image("output", dst)
        \o Ctx!create_buffer(Native!Buf("staging_color"), Native!Mem("staging_color"))
        \o Ctx!create_buffer(Native!Buf("staging_depth"), Native!Mem("staging_depth"))
        \o Ctx!create_buffer(Native!Buf("staging_mv"), Native!Mem("staging_mv"))
        \o Ctx!create_buffer(Native!Buf("readback"), Native!Mem("readback"))
        \o Ctx!allocate_command_buffer(Native!Cmd)
    BY DEF Native!CreateCached, Native!build_fsr_context, Native!Call, Ctx!Call, Native!MakeOr,
         Ctx!MakeOr, Native!Make, Ctx!Make, Native!TryOr, Ctx!TryOr, Native!Try, Ctx!Try,
         Native!MakeImage, Native!Device, Ctx!Device, Native!CommandPool, Ctx!CommandPool,
         Native!Instance, Ctx!Instance, Native!create_buffer, Ctx!create_buffer,
         Native!create_host_buffer, Native!allocate_command_buffer, Ctx!allocate_command_buffer,
         Native!create_image, Native!create_fsr_image, Native!create_fsr_image_format
  <2> QED BY <2>1, <1>30
<1>32. t14 = Native!CachedResources
  BY CachedAre DEF t14
<1> QED BY <1>29, <1>21, <1>32, <1>31

\* The two constant images are filled, and the cache becomes the component's.
LEMMA InitConstantsRuns ==
  ASSUME NEW k, NEW m, NEW i, NEW src \in Sizes, NEW dst \in Sizes,
         m = Ctx!Fields \cup Fsr2!PipelineFields,
         At(k, m, Native!CachedResources, i, <<>>, NoSizes),
         Is(i, Native!Image("color"), "UNDEFINED", FALSE, src),
         Is(i, Native!Image("depth"), "UNDEFINED", FALSE, src),
         Is(i, Native!Image("mv"), "UNDEFINED", FALSE, src),
         Is(i, Native!Image("output"), "UNDEFINED", FALSE, dst)
  PROVE  \E j : /\ Runs(k, Native!InitConstants(src), St(m, Native!CachedResources, i, <<>>, NoSizes),
                        St(m \cup Native!CachedResources, {}, j, <<>>, k.sizes))
                /\ Shape(m \cup Native!CachedResources, {}, j, <<>>)
                /\ Is(j, Native!Image("color"), "UNDEFINED", FALSE, src)
                /\ Is(j, Native!Image("depth"), "SHADER_READ_ONLY", TRUE, src)
                /\ Is(j, Native!Image("mv"), "SHADER_READ_ONLY", TRUE, src)
                /\ Is(j, Native!Image("output"), "UNDEFINED", FALSE, dst)
<1> DEFINE S(tt, ii, rr) == St(m, tt, ii, rr, NoSizes)
<1> USE DEF Ctx!Instance, Ctx!Device, Ctx!CommandPool, Fsr2!DescLayout, Fsr2!PipelineLayout,
            Fsr2!Pipeline,
           Fsr2!DescPool, Native!FsrCtx, Native!Cmd, Native!InitCmd, Native!Image, Native!View,
           Native!Mem, Native!Buf
<1>1. m = {Ctx!Instance, Ctx!Device, Ctx!CommandPool,
           Fsr2!DescPool, Fsr2!DescLayout("motion"), Fsr2!PipelineLayout("motion"),
           Fsr2!Pipeline("motion"), Fsr2!DescLayout("warp"), Fsr2!PipelineLayout("warp"),
           Fsr2!Pipeline("warp"), Fsr2!DescLayout("easu"), Fsr2!PipelineLayout("easu"),
           Fsr2!Pipeline("easu"), Fsr2!DescLayout("rcas"), Fsr2!PipelineLayout("rcas"),
           Fsr2!Pipeline("rcas")}
  BY PipelineFieldsAre DEF Ctx!Fields
<1>2. /\ Is(i, Native!Image("color"), "UNDEFINED", FALSE, src)
      /\ Is(i, Native!Image("depth"), "UNDEFINED", FALSE, src)
      /\ Is(i, Native!Image("mv"), "UNDEFINED", FALSE, src)
      /\ Is(i, Native!Image("output"), "UNDEFINED", FALSE, dst)
  OBVIOUS
<1> DEFINE t1 == {Native!FsrCtx, Native!Cmd, Native!Image("color"), Native!View("color"),
    Native!Mem("color"), Native!Image("depth"), Native!View("depth"), Native!Mem("depth"),
    Native!Image("mv"), Native!View("mv"), Native!Mem("mv"), Native!Image("output"),
    Native!View("output"), Native!Mem("output"), Native!Buf("staging_color"),
    Native!Mem("staging_color"), Native!Buf("staging_depth"), Native!Mem("staging_depth"),
    Native!Buf("staging_mv"), Native!Mem("staging_mv"), Native!Buf("readback"),
    Native!Mem("readback"), Native!InitCmd}
           r1 == Put(i, Native!Image("depth"), Pic("TRANSFER_DST", FALSE, src))
           r2 == Put(r1, Native!Image("depth"), Pic("TRANSFER_DST", TRUE, src))
           r3 == Put(r2, Native!Image("depth"), Pic("SHADER_READ_ONLY", TRUE, src))
           r4 == Put(r3, Native!Image("mv"), Pic("TRANSFER_DST", FALSE, src))
           r5 == Put(r4, Native!Image("mv"), Pic("TRANSFER_DST", TRUE, src))
           r6 == Put(r5, Native!Image("mv"), Pic("SHADER_READ_ONLY", TRUE, src))
           t2 == {Native!FsrCtx, Native!Cmd, Native!Image("color"), Native!View("color"),
            Native!Mem("color"), Native!Image("depth"), Native!View("depth"), Native!Mem("depth"),
            Native!Image("mv"), Native!View("mv"), Native!Mem("mv"), Native!Image("output"),
            Native!View("output"), Native!Mem("output"), Native!Buf("staging_color"),
            Native!Mem("staging_color"), Native!Buf("staging_depth"), Native!Mem("staging_depth"),
            Native!Buf("staging_mv"), Native!Mem("staging_mv"), Native!Buf("readback"),
            Native!Mem("readback")}
           i1 == Without(r6, {Native!InitCmd})
<1> HIDE DEF t1, r1, r2, r3, r4, r5, r6, t2, i1
<1>3. /\ Runs(k, <<Ctx!Try({Native!Mem("staging_depth")})>>, S(Native!CachedResources, i, <<>>),
              S(Native!CachedResources, i, <<>>))
  <2>1. {Native!Mem("staging_depth")} \subseteq m \cup Native!CachedResources
    BY <1>1, CachedAre
  <2> QED BY <2>1, Tries0
<1>4. /\ Runs(k, <<Ctx!Try({Native!Mem("staging_mv")})>>, S(Native!CachedResources, i, <<>>),
              S(Native!CachedResources, i, <<>>))
  <2>1. {Native!Mem("staging_mv")} \subseteq m \cup Native!CachedResources
    BY <1>1, CachedAre
  <2> QED BY <2>1, Tries0
<1>5. /\ Runs(k, Ctx!allocate_command_buffer(Native!InitCmd), S(Native!CachedResources, i, <<>>),
              S(t1, i, <<>>))
      /\ At(k, m, t1, i, <<>>, NoSizes)
  <2>1. /\ Plain(m, Native!CachedResources, Native!InitCmd)
        /\ Native!InitCmd \in CmdBuffers
    BY <1>1, CachedAre DEF Plain, Fresh, DpbImages, H264!DpbImage, External, CmdBuffers, t1
  <2>2. t1 = Native!CachedResources \cup {Native!InitCmd}
    BY <1>1, CachedAre DEF t1
  <2> QED BY <2>1, <2>2, AllocateCommandBuffer
<1>6. /\ Runs(k, <<Ctx!Begin(Native!InitCmd)>>, S(t1, i, <<>>), S(t1, i, i))
      /\ At(k, m, t1, i, i, NoSizes)
      /\ Rest(k, m, i, NoSizes)
  <2>1. Native!InitCmd \in m \cup t1
    BY <1>1, CachedAre DEF t1
  <2> QED BY <1>5, <2>1, Begins
<1>7. /\ Runs(k, <<Ctx!Barrier(Native!InitCmd, Native!Image("depth"), "UNDEFINED",
         "TRANSFER_DST")>>, S(t1, i, i),
              S(t1, i, r1))
      /\ At(k, m, t1, i, r1, NoSizes)
      /\ Rest(k, m, r1, NoSizes)
  <2>1. /\ Native!InitCmd \in m \cup t1
        /\ Native!Image("depth") \notin m
    BY <1>1, CachedAre DEF t1
  <2> QED BY <1>6, <2>1, <1>2, <1>6, RestPut, Discard DEF r1
<1>8. /\ Is(r1, Native!Image("color"), "UNDEFINED", FALSE, src)
      /\ Is(r1, Native!Image("depth"), "TRANSFER_DST", FALSE, src)
      /\ Is(r1, Native!Image("mv"), "UNDEFINED", FALSE, src)
      /\ Is(r1, Native!Image("output"), "UNDEFINED", FALSE, dst)
  BY <1>2, IsPut, IsKept DEF r1
<1>9. /\ Runs(k, <<Ctx!Use({Native!Buf("staging_depth")})>>, S(t1, i, r1), S(t1, i, r1))
  <2>1. {Native!Buf("staging_depth")} \subseteq m \cup t1
    BY <1>1, CachedAre DEF t1
  <2> QED BY <1>7, <2>1, Uses
<1>10. /\ Runs(k, <<Ctx!Writes(Native!InitCmd, Native!Image("depth"), "TRANSFER_DST", src)>>, S(t1,
          i, r1),
               S(t1, i, r2))
       /\ At(k, m, t1, i, r2, NoSizes)
       /\ Rest(k, m, r2, NoSizes)
  <2>1. /\ Native!InitCmd \in m \cup t1
        /\ Native!Image("depth") \notin m
    BY <1>1, CachedAre DEF t1
  <2> QED BY <1>7, <2>1, <1>8, <1>7, RestPut, Write DEF r2
<1>11. /\ Is(r2, Native!Image("color"), "UNDEFINED", FALSE, src)
       /\ Is(r2, Native!Image("depth"), "TRANSFER_DST", TRUE, src)
       /\ Is(r2, Native!Image("mv"), "UNDEFINED", FALSE, src)
       /\ Is(r2, Native!Image("output"), "UNDEFINED", FALSE, dst)
  BY <1>8, IsPut, IsKept DEF r2
<1>12. Runs(k, <<Ctx!Use({Native!Buf("staging_depth")}), Ctx!Writes(Native!InitCmd,
       Native!Image("depth"), "TRANSFER_DST", src)>>, S(t1, i, r1),
               S(t1, i, r2))
  BY <1>9, <1>10, Calls2
<1>13. /\ Runs(k, <<Ctx!Barrier(Native!InitCmd, Native!Image("depth"), "TRANSFER_DST",
          "SHADER_READ_ONLY")>>, S(t1, i, r2),
               S(t1, i, r3))
       /\ At(k, m, t1, i, r3, NoSizes)
       /\ Rest(k, m, r3, NoSizes)
  <2>1. /\ Native!InitCmd \in m \cup t1
        /\ Native!Image("depth") \notin m
    BY <1>1, CachedAre DEF t1
  <2> QED BY <1>10, <2>1, <1>11, <1>10, RestPut, Transition DEF r3
<1>14. /\ Is(r3, Native!Image("color"), "UNDEFINED", FALSE, src)
       /\ Is(r3, Native!Image("depth"), "SHADER_READ_ONLY", TRUE, src)
       /\ Is(r3, Native!Image("mv"), "UNDEFINED", FALSE, src)
       /\ Is(r3, Native!Image("output"), "UNDEFINED", FALSE, dst)
  BY <1>11, IsPut, IsKept DEF r3
<1>15. Runs(k, <<Ctx!Barrier(Native!InitCmd, Native!Image("depth"), "UNDEFINED",
       "TRANSFER_DST")>> \o <<Ctx!Use({Native!Buf("staging_depth")}), Ctx!Writes(Native!InitCmd,
       Native!Image("depth"), "TRANSFER_DST", src)>> \o <<Ctx!Barrier(Native!InitCmd,
       Native!Image("depth"), "TRANSFER_DST", "SHADER_READ_ONLY")>>, S(t1, i, i),
               S(t1, i, r3))
  BY <1>7, <1>12, <1>13, Cat3
<1>16. Runs(k, Native!InitConstant("depth", "staging_depth", src), S(t1, i, i), S(t1, i, r3))
  <2>1. Native!InitConstant("depth", "staging_depth", src) = <<Ctx!Barrier(Native!InitCmd,
        Native!Image("depth"), "UNDEFINED", "TRANSFER_DST")>>
        \o <<Ctx!Use({Native!Buf("staging_depth")}), Ctx!Writes(Native!InitCmd,
        Native!Image("depth"), "TRANSFER_DST", src)>>
        \o <<Ctx!Barrier(Native!InitCmd, Native!Image("depth"), "TRANSFER_DST", "SHADER_READ_ONLY")>>
    BY DEF Native!InitConstant, Native!Call, Ctx!Call, Native!Use, Ctx!Use, Native!Barrier,
         Ctx!Barrier, Native!Writes, Ctx!Writes, Native!cmd_image_barrier_simple,
         Native!copy_buf_to_image
  <2> QED BY <2>1, <1>15
<1>17. /\ Runs(k, <<Ctx!Barrier(Native!InitCmd, Native!Image("mv"), "UNDEFINED", "TRANSFER_DST")>>,
          S(t1, i, r3),
               S(t1, i, r4))
       /\ At(k, m, t1, i, r4, NoSizes)
       /\ Rest(k, m, r4, NoSizes)
  <2>1. /\ Native!InitCmd \in m \cup t1
        /\ Native!Image("mv") \notin m
    BY <1>1, CachedAre DEF t1
  <2> QED BY <1>13, <2>1, <1>14, <1>13, RestPut, Discard DEF r4
<1>18. /\ Is(r4, Native!Image("color"), "UNDEFINED", FALSE, src)
       /\ Is(r4, Native!Image("depth"), "SHADER_READ_ONLY", TRUE, src)
       /\ Is(r4, Native!Image("mv"), "TRANSFER_DST", FALSE, src)
       /\ Is(r4, Native!Image("output"), "UNDEFINED", FALSE, dst)
  BY <1>14, IsPut, IsKept DEF r4
<1>19. /\ Runs(k, <<Ctx!Use({Native!Buf("staging_mv")})>>, S(t1, i, r4), S(t1, i, r4))
  <2>1. {Native!Buf("staging_mv")} \subseteq m \cup t1
    BY <1>1, CachedAre DEF t1
  <2> QED BY <1>17, <2>1, Uses
<1>20. /\ Runs(k, <<Ctx!Writes(Native!InitCmd, Native!Image("mv"), "TRANSFER_DST", src)>>, S(t1, i, r4),
               S(t1, i, r5))
       /\ At(k, m, t1, i, r5, NoSizes)
       /\ Rest(k, m, r5, NoSizes)
  <2>1. /\ Native!InitCmd \in m \cup t1
        /\ Native!Image("mv") \notin m
    BY <1>1, CachedAre DEF t1
  <2> QED BY <1>17, <2>1, <1>18, <1>17, RestPut, Write DEF r5
<1>21. /\ Is(r5, Native!Image("color"), "UNDEFINED", FALSE, src)
       /\ Is(r5, Native!Image("depth"), "SHADER_READ_ONLY", TRUE, src)
       /\ Is(r5, Native!Image("mv"), "TRANSFER_DST", TRUE, src)
       /\ Is(r5, Native!Image("output"), "UNDEFINED", FALSE, dst)
  BY <1>18, IsPut, IsKept DEF r5
<1>22. Runs(k, <<Ctx!Use({Native!Buf("staging_mv")}), Ctx!Writes(Native!InitCmd,
       Native!Image("mv"), "TRANSFER_DST", src)>>, S(t1, i, r4),
               S(t1, i, r5))
  BY <1>19, <1>20, Calls2
<1>23. /\ Runs(k, <<Ctx!Barrier(Native!InitCmd, Native!Image("mv"), "TRANSFER_DST",
          "SHADER_READ_ONLY")>>, S(t1, i, r5),
               S(t1, i, r6))
       /\ At(k, m, t1, i, r6, NoSizes)
       /\ Rest(k, m, r6, NoSizes)
  <2>1. /\ Native!InitCmd \in m \cup t1
        /\ Native!Image("mv") \notin m
    BY <1>1, CachedAre DEF t1
  <2> QED BY <1>20, <2>1, <1>21, <1>20, RestPut, Transition DEF r6
<1>24. /\ Is(r6, Native!Image("color"), "UNDEFINED", FALSE, src)
       /\ Is(r6, Native!Image("depth"), "SHADER_READ_ONLY", TRUE, src)
       /\ Is(r6, Native!Image("mv"), "SHADER_READ_ONLY", TRUE, src)
       /\ Is(r6, Native!Image("output"), "UNDEFINED", FALSE, dst)
  BY <1>21, IsPut, IsKept DEF r6
<1>25. Runs(k, <<Ctx!Barrier(Native!InitCmd, Native!Image("mv"), "UNDEFINED", "TRANSFER_DST")>> \o
       <<Ctx!Use({Native!Buf("staging_mv")}), Ctx!Writes(Native!InitCmd, Native!Image("mv"),
       "TRANSFER_DST", src)>> \o <<Ctx!Barrier(Native!InitCmd, Native!Image("mv"), "TRANSFER_DST",
       "SHADER_READ_ONLY")>>, S(t1, i, r3),
               S(t1, i, r6))
  BY <1>17, <1>22, <1>23, Cat3
<1>26. Runs(k, Native!InitConstant("mv", "staging_mv", src), S(t1, i, r3), S(t1, i, r6))
  <2>1. Native!InitConstant("mv", "staging_mv", src) = <<Ctx!Barrier(Native!InitCmd,
        Native!Image("mv"), "UNDEFINED", "TRANSFER_DST")>>
        \o <<Ctx!Use({Native!Buf("staging_mv")}), Ctx!Writes(Native!InitCmd, Native!Image("mv"),
        "TRANSFER_DST", src)>>
        \o <<Ctx!Barrier(Native!InitCmd, Native!Image("mv"), "TRANSFER_DST", "SHADER_READ_ONLY")>>
    BY DEF Native!InitConstant, Native!Call, Ctx!Call, Native!Use, Ctx!Use, Native!Barrier,
         Ctx!Barrier, Native!Writes, Ctx!Writes, Native!cmd_image_barrier_simple,
         Native!copy_buf_to_image
  <2> QED BY <2>1, <1>25
<1>27. /\ Runs(k, <<Ctx!Try({Native!InitCmd})>>, S(t1, i, r6), S(t1, i, r6))
  <2>1. {Native!InitCmd} \subseteq m \cup t1
    BY <1>1, CachedAre DEF t1
  <2> QED BY <1>23, <2>1, Tries0
<1>28. /\ Runs(k, Ctx!submit_and_wait(Native!InitCmd), S(t1, i, r6), S(t1, r6, <<>>))
       /\ At(k, m, t1, r6, <<>>, NoSizes)
  <2>1. /\ Native!InitCmd \in m \cup t1
        /\ Plain(m, t1, <<"fence">>)
    BY <1>1, CachedAre DEF Plain, Fresh, DpbImages, H264!DpbImage, External, t1
  <2> QED BY <1>23, <2>1, <1>23, SubmitAndWait
<1>29. /\ Runs(k, <<Ctx!Free(Native!InitCmd)>>, S(t1, r6, <<>>), S(t2, i1, <<>>))
       /\ At(k, m, t2, i1, <<>>, NoSizes)
  <2>1. Native!InitCmd \in t1 /\ Native!InitCmd \notin m /\ t1 \ {Native!InitCmd} = t2
    BY <1>1, CachedAre DEF t1, t2
  <2>2. Childless(k, m, t1, {Native!InitCmd})
    BY Barren1, BarrenChildless
  <2> QED BY <1>28, <2>1, <2>2, FreeTemp DEF i1
<1>30. /\ Is(i1, Native!Image("color"), "UNDEFINED", FALSE, src)
       /\ Is(i1, Native!Image("depth"), "SHADER_READ_ONLY", TRUE, src)
       /\ Is(i1, Native!Image("mv"), "SHADER_READ_ONLY", TRUE, src)
       /\ Is(i1, Native!Image("output"), "UNDEFINED", FALSE, dst)
  BY <1>24, IsWithout DEF i1
<1>31. /\ Runs(k, <<Ctx!Keep(Native!CachedResources)>>, S(t2, i1, <<>>),
                St(m \cup Native!CachedResources, {}, i1, <<>>, k.sizes))
       /\ Shape(m \cup Native!CachedResources, {}, i1, <<>>)
  <2>1. t2 = Native!CachedResources
    BY CachedAre DEF t2
  <2>2. Native!FsrCtx \in Native!CachedResources /\ t2 \ Native!CachedResources = {}
        /\ Native!CachedResources \subseteq t2
    BY <2>1, CachedAre
  <2>3. Shape(m \cup Native!CachedResources, {}, i1, <<>>)
    <3>1. (m \cup Native!CachedResources) \cup {} = m \cup t2
      BY <2>1
    <3> QED BY <1>29, <3>1 DEF At, Sound, Shape
  <2> HIDE DEF Native!FsrCtx
  <2>4. Runs(k, <<Ctx!Keep(Native!CachedResources)>>, S(t2, i1, <<>>),
             St(m \cup Native!CachedResources, t2 \ Native!CachedResources, i1, <<>>,
                IF Native!FsrCtx \in Native!CachedResources THEN k.sizes ELSE NoSizes))
    BY <2>2, KeepRuns
  <2> QED BY <2>2, <2>3, <2>4
<1>32. Runs(k, <<Ctx!Free(Native!InitCmd), Ctx!Keep(Native!CachedResources)>>, S(t1, r6, <<>>),
               St(m \cup Native!CachedResources, {}, i1, <<>>, k.sizes))
  BY <1>29, <1>31, Calls2
<1>33. Runs(k, <<Ctx!Try({Native!Mem("staging_depth")})>> \o
       <<Ctx!Try({Native!Mem("staging_mv")})>> \o Ctx!allocate_command_buffer(Native!InitCmd) \o
       <<Ctx!Begin(Native!InitCmd)>> \o Native!InitConstant("depth", "staging_depth", src) \o
       Native!InitConstant("mv", "staging_mv", src) \o <<Ctx!Try({Native!InitCmd})>> \o
       Ctx!submit_and_wait(Native!InitCmd) \o <<Ctx!Free(Native!InitCmd),
       Ctx!Keep(Native!CachedResources)>>, S(Native!CachedResources, i, <<>>),
               St(m \cup Native!CachedResources, {}, i1, <<>>, k.sizes))
  BY <1>3, <1>4, <1>5, <1>6, <1>16, <1>26, <1>27, <1>28, <1>32, Cat9
<1>34. Runs(k, Native!InitConstants(src), S(Native!CachedResources, i, <<>>),
               St(m \cup Native!CachedResources, {}, i1, <<>>, k.sizes))
  <2>1. Native!InitConstants(src) = <<Ctx!Try({Native!Mem("staging_depth")})>>
        \o <<Ctx!Try({Native!Mem("staging_mv")})>>
        \o Ctx!allocate_command_buffer(Native!InitCmd)
        \o <<Ctx!Begin(Native!InitCmd)>>
        \o Native!InitConstant("depth", "staging_depth", src)
        \o Native!InitConstant("mv", "staging_mv", src)
        \o <<Ctx!Try({Native!InitCmd})>>
        \o Ctx!submit_and_wait(Native!InitCmd)
        \o <<Ctx!Free(Native!InitCmd), Ctx!Keep(Native!CachedResources)>>
    BY DEF Native!InitConstants, Native!Call, Ctx!Call, Native!MakeOr, Ctx!MakeOr, Native!Make,
         Ctx!Make, Native!TryOr, Ctx!TryOr, Native!Try, Ctx!Try, Native!FreeWith, Ctx!FreeWith,
         Native!Free, Ctx!Free, Native!Keep, Ctx!Keep, Native!Begin, Ctx!Begin, Native!SubmitOr,
         Ctx!SubmitOr, Native!Device, Ctx!Device, Native!CommandPool, Ctx!CommandPool,
         Native!upload_to_buffer, Native!allocate_command_buffer, Ctx!allocate_command_buffer,
         Native!submit_and_wait, Ctx!submit_and_wait
  <2> QED BY <2>1, <1>33
<1> QED BY <1>31, <1>30, <1>34

\* One frame through the cached resources.
LEMMA UpscaleCachedRuns ==
  ASSUME NEW k, NEW m, NEW i, NEW c, NEW src, NEW dst, NEW lc, NEW dc, NEW lo, NEW do,
         m = Ctx!Fields \cup Fsr2!PipelineFields \cup Native!CachedResources,
         k.phase = "call", k.comp = "fsr2", Held(k, m, c), c.src = src, c.dst = dst,
         At(k, m, {}, i, <<>>, c),
         Is(i, Native!Image("color"), lc, dc, src),
         Is(i, Native!Image("depth"), "SHADER_READ_ONLY", TRUE, src),
         Is(i, Native!Image("mv"), "SHADER_READ_ONLY", TRUE, src),
         Is(i, Native!Image("output"), lo, do, dst)
  PROVE  \E j, y, z : /\ Runs(k, Native!RecordColor(src), St(m, {}, i, <<>>, c), y)
                      /\ Runs(k, Native!Dispatch(src, dst), y, z)
                      /\ Runs(k, Native!ReadOutput(dst), z, St(m, {}, j, <<>>, c))
                      /\ At(k, m, {}, j, <<>>, c)
<1> DEFINE S(tt, ii, rr) == St(m, tt, ii, rr, c)
<1> USE DEF Ctx!Instance, Ctx!Device, Ctx!CommandPool, Fsr2!DescLayout, Fsr2!PipelineLayout,
            Fsr2!Pipeline,
           Fsr2!DescPool, Native!FsrCtx, Native!Cmd, Native!InitCmd, Native!Image, Native!View,
           Native!Mem, Native!Buf
<1>1. m = {Ctx!Instance, Ctx!Device, Ctx!CommandPool,
           Fsr2!DescPool, Fsr2!DescLayout("motion"), Fsr2!PipelineLayout("motion"),
           Fsr2!Pipeline("motion"), Fsr2!DescLayout("warp"), Fsr2!PipelineLayout("warp"),
           Fsr2!Pipeline("warp"), Fsr2!DescLayout("easu"), Fsr2!PipelineLayout("easu"),
           Fsr2!Pipeline("easu"), Fsr2!DescLayout("rcas"), Fsr2!PipelineLayout("rcas"),
           Fsr2!Pipeline("rcas"), Native!FsrCtx, Native!Cmd,
           Native!Image("color"), Native!View("color"), Native!Mem("color"),
           Native!Image("depth"), Native!View("depth"), Native!Mem("depth"),
           Native!Image("mv"), Native!View("mv"), Native!Mem("mv"),
           Native!Image("output"), Native!View("output"), Native!Mem("output"),
           Native!Buf("staging_color"), Native!Mem("staging_color"), Native!Buf("staging_depth"),
           Native!Mem("staging_depth"), Native!Buf("staging_mv"), Native!Mem("staging_mv"),
           Native!Buf("readback"), Native!Mem("readback")}
  BY PipelineFieldsAre, CachedAre DEF Ctx!Fields
<1>2. /\ Is(i, Native!Image("color"), lc, dc, src)
      /\ Is(i, Native!Image("depth"), "SHADER_READ_ONLY", TRUE, src)
      /\ Is(i, Native!Image("mv"), "SHADER_READ_ONLY", TRUE, src)
      /\ Is(i, Native!Image("output"), lo, do, dst)
  OBVIOUS
<1> DEFINE r1 == Put(i, Native!Image("color"), Pic("TRANSFER_DST", FALSE, src))
           r2 == Put(r1, Native!Image("color"), Pic("TRANSFER_DST", TRUE, src))
           r3 == Put(r2, Native!Image("color"), Pic("SHADER_READ_ONLY", TRUE, src))
           r4 == Put(r3, Native!Image("output"), Pic("GENERAL", FALSE, dst))
           q == Put(r4, Native!Image("output"), Pic("GENERAL", FALSE, dst))
           r5 == Put(q, Native!Image("output"), Pic("GENERAL", TRUE, dst))
           r6 == Put(r5, Native!Image("output"), Pic("TRANSFER_SRC", TRUE, dst))
<1> HIDE DEF r1, r2, r3, r4, q, r5, r6
<1>3. /\ Runs(k, <<Ctx!Try({Native!Mem("staging_color")})>>, S({}, i, <<>>), S({}, i, <<>>))
  <2>1. {Native!Mem("staging_color")} \subseteq m \cup {}
    BY <1>1
  <2> QED BY <2>1, Tries0
<1>4. /\ Runs(k, <<Ctx!Try({Native!Cmd})>>, S({}, i, <<>>), S({}, i, <<>>))
  <2>1. {Native!Cmd} \subseteq m \cup {}
    BY <1>1
  <2> QED BY <2>1, Tries0
<1>5. /\ Runs(k, <<Ctx!Begin(Native!Cmd)>>, S({}, i, <<>>), S({}, i, i))
      /\ At(k, m, {}, i, i, c)
      /\ Rest(k, m, i, c)
  <2>1. Native!Cmd \in m \cup {}
    BY <1>1
  <2> QED BY <2>1, Begins
<1>6. Runs(k, <<Ctx!Try({Native!Cmd}), Ctx!Begin(Native!Cmd)>>, S({}, i, <<>>), S({}, i, i))
  BY <1>4, <1>5, Calls2
<1>7. /\ Runs(k, <<Ctx!Barrier(Native!Cmd, Native!Image("color"), "UNDEFINED", "TRANSFER_DST")>>,
         S({}, i, i),
              S({}, i, r1))
      /\ At(k, m, {}, i, r1, c)
  <2>1. Native!Cmd \in m \cup {}
    BY <1>1
  <2> QED BY <1>5, <2>1, <1>2, Discard DEF r1
<1>8. /\ Is(r1, Native!Image("color"), "TRANSFER_DST", FALSE, src)
      /\ Is(r1, Native!Image("depth"), "SHADER_READ_ONLY", TRUE, src)
      /\ Is(r1, Native!Image("mv"), "SHADER_READ_ONLY", TRUE, src)
      /\ Is(r1, Native!Image("output"), lo, do, dst)
  BY <1>2, IsPut, IsKept DEF r1
<1>9. /\ Runs(k, <<Ctx!Use({Native!Buf("staging_color")})>>, S({}, i, r1), S({}, i, r1))
  <2>1. {Native!Buf("staging_color")} \subseteq m \cup {}
    BY <1>1
  <2> QED BY <1>7, <2>1, Uses
<1>10. /\ Runs(k, <<Ctx!Writes(Native!Cmd, Native!Image("color"), "TRANSFER_DST", src)>>, S({}, i, r1),
               S({}, i, r2))
       /\ At(k, m, {}, i, r2, c)
  <2>1. Native!Cmd \in m \cup {}
    BY <1>1
  <2> QED BY <1>7, <2>1, <1>8, Write DEF r2
<1>11. /\ Is(r2, Native!Image("color"), "TRANSFER_DST", TRUE, src)
       /\ Is(r2, Native!Image("depth"), "SHADER_READ_ONLY", TRUE, src)
       /\ Is(r2, Native!Image("mv"), "SHADER_READ_ONLY", TRUE, src)
       /\ Is(r2, Native!Image("output"), lo, do, dst)
  BY <1>8, IsPut, IsKept DEF r2
<1>12. Runs(k, <<Ctx!Use({Native!Buf("staging_color")}), Ctx!Writes(Native!Cmd,
       Native!Image("color"), "TRANSFER_DST", src)>>, S({}, i, r1),
               S({}, i, r2))
  BY <1>9, <1>10, Calls2
<1>13. /\ Runs(k, <<Ctx!Barrier(Native!Cmd, Native!Image("color"), "TRANSFER_DST",
          "SHADER_READ_ONLY")>>, S({}, i, r2),
               S({}, i, r3))
       /\ At(k, m, {}, i, r3, c)
  <2>1. Native!Cmd \in m \cup {}
    BY <1>1
  <2> QED BY <1>10, <2>1, <1>11, Transition DEF r3
<1>14. /\ Is(r3, Native!Image("color"), "SHADER_READ_ONLY", TRUE, src)
       /\ Is(r3, Native!Image("depth"), "SHADER_READ_ONLY", TRUE, src)
       /\ Is(r3, Native!Image("mv"), "SHADER_READ_ONLY", TRUE, src)
       /\ Is(r3, Native!Image("output"), lo, do, dst)
  BY <1>11, IsPut, IsKept DEF r3
<1>15. /\ Runs(k, <<Ctx!Barrier(Native!Cmd, Native!Image("output"), "UNDEFINED", "GENERAL")>>,
          S({}, i, r3),
               S({}, i, r4))
       /\ At(k, m, {}, i, r4, c)
  <2>1. Native!Cmd \in m \cup {}
    BY <1>1
  <2> QED BY <1>13, <2>1, <1>14, Discard DEF r4
<1>16. /\ Is(r4, Native!Image("color"), "SHADER_READ_ONLY", TRUE, src)
       /\ Is(r4, Native!Image("depth"), "SHADER_READ_ONLY", TRUE, src)
       /\ Is(r4, Native!Image("mv"), "SHADER_READ_ONLY", TRUE, src)
       /\ Is(r4, Native!Image("output"), "GENERAL", FALSE, dst)
  BY <1>14, IsPut, IsKept DEF r4
<1>17. Runs(k, <<Ctx!Try({Native!Mem("staging_color")})>> \o <<Ctx!Try({Native!Cmd}),
       Ctx!Begin(Native!Cmd)>> \o <<Ctx!Barrier(Native!Cmd, Native!Image("color"), "UNDEFINED",
       "TRANSFER_DST")>> \o <<Ctx!Use({Native!Buf("staging_color")}), Ctx!Writes(Native!Cmd,
       Native!Image("color"), "TRANSFER_DST", src)>> \o <<Ctx!Barrier(Native!Cmd,
       Native!Image("color"), "TRANSFER_DST", "SHADER_READ_ONLY")>> \o <<Ctx!Barrier(Native!Cmd,
       Native!Image("output"), "UNDEFINED", "GENERAL")>>, S({}, i, <<>>),
               S({}, i, r4))
  BY <1>3, <1>6, <1>7, <1>12, <1>13, <1>15, Cat6
<1>18. Runs(k, Native!RecordColor(src), S({}, i, <<>>), S({}, i, r4))
  <2>1. Native!RecordColor(src) = <<Ctx!Try({Native!Mem("staging_color")})>>
        \o <<Ctx!Try({Native!Cmd}), Ctx!Begin(Native!Cmd)>>
        \o <<Ctx!Barrier(Native!Cmd, Native!Image("color"), "UNDEFINED", "TRANSFER_DST")>>
        \o <<Ctx!Use({Native!Buf("staging_color")}), Ctx!Writes(Native!Cmd, Native!Image("color"),
        "TRANSFER_DST", src)>>
        \o <<Ctx!Barrier(Native!Cmd, Native!Image("color"), "TRANSFER_DST", "SHADER_READ_ONLY")>>
        \o <<Ctx!Barrier(Native!Cmd, Native!Image("output"), "UNDEFINED", "GENERAL")>>
    BY DEF Native!RecordColor, Native!Call, Ctx!Call, Native!TryOr, Ctx!TryOr, Native!Try, Ctx!Try,
         Native!Use, Ctx!Use, Native!Begin, Ctx!Begin, Native!Barrier, Ctx!Barrier, Native!Writes,
         Ctx!Writes, Native!upload_to_buffer, Native!cmd_image_barrier_simple, Native!copy_buf_to_image
  <2> QED BY <2>1, <1>17
<1>19. /\ Runs(k, <<Ctx!Use({Native!View(n) : n \in Native!Textures})>>, S({}, i, r4), S({}, i, r4))
  <2>1. {Native!View(n) : n \in Native!Textures} \subseteq m \cup {}
    BY <1>1 DEF Native!Textures
  <2> QED BY <1>15, <2>1, Uses
<1>20. /\ Runs(k, <<Ctx!Try({Native!FsrCtx})>>, S({}, i, r4), S({}, i, r4))
  <2>1. {Native!FsrCtx} \subseteq m \cup {}
    BY <1>1
  <2> QED BY <1>15, <2>1, Tries0
<1>21. /\ Runs(k, <<Ctx!Reads(Native!Cmd, {Native!Image("color"), Native!Image("depth"),
          Native!Image("mv")}, "SHADER_READ_ONLY", src)>>, S({}, i, r4),
               S({}, i, r4))
  <2>1. Native!Cmd \in m \cup {}
    BY <1>1
  <2> QED BY <1>15, <2>1, <1>16, Read
<1>22a. /\ Runs(k, <<Ctx!Barrier(Native!Cmd, Native!Image("output"), Ctx!ComputeRead, "GENERAL")>>,
           S({}, i, r4),
               S({}, i, q))
       /\ At(k, m, {}, i, q, c)
  <2>1. Native!Cmd \in m \cup {} /\ Native!Image("output") \in Mistold
    BY <1>1 DEF Mistold
  <2> QED BY <1>15, <2>1, <1>16, TransitionTold DEF q
<1>22b. /\ Is(q, Native!Image("color"), "SHADER_READ_ONLY", TRUE, src)
       /\ Is(q, Native!Image("depth"), "SHADER_READ_ONLY", TRUE, src)
       /\ Is(q, Native!Image("mv"), "SHADER_READ_ONLY", TRUE, src)
       /\ Is(q, Native!Image("output"), "GENERAL", FALSE, dst)
  BY <1>16, IsPut, IsKept DEF q
<1>22. /\ Runs(k, <<Ctx!Writes(Native!Cmd, Native!Image("output"), "GENERAL", dst)>>, S({}, i, q),
               S({}, i, r5))
       /\ At(k, m, {}, i, r5, c)
  <2>1. Native!Cmd \in m \cup {}
    BY <1>1
  <2> QED BY <1>22a, <2>1, <1>22b, Write DEF r5
<1>23. /\ Is(r5, Native!Image("color"), "SHADER_READ_ONLY", TRUE, src)
       /\ Is(r5, Native!Image("depth"), "SHADER_READ_ONLY", TRUE, src)
       /\ Is(r5, Native!Image("mv"), "SHADER_READ_ONLY", TRUE, src)
       /\ Is(r5, Native!Image("output"), "GENERAL", TRUE, dst)
  BY <1>22b, IsPut, IsKept DEF r5
<1>24. Runs(k, <<Ctx!Use({Native!View(n) : n \in Native!Textures}), Ctx!Try({Native!FsrCtx}),
       Ctx!Reads(Native!Cmd, {Native!Image("color"), Native!Image("depth"), Native!Image("mv")},
       "SHADER_READ_ONLY", src), Ctx!Barrier(Native!Cmd, Native!Image("output"), Ctx!ComputeRead,
       "GENERAL"), Ctx!Writes(Native!Cmd, Native!Image("output"), "GENERAL", dst)>>, S({}, i, r4),
               S({}, i, r5))
  BY <1>19, <1>20, <1>21, <1>22a, <1>22, Calls5
<1>25. Runs(k, Native!Dispatch(src, dst), S({}, i, r4), S({}, i, r5))
  <2>1. Native!Dispatch(src, dst) = <<Ctx!Use({Native!View(n) : n \in Native!Textures}),
        Ctx!Try({Native!FsrCtx}), Ctx!Reads(Native!Cmd, {Native!Image("color"),
        Native!Image("depth"), Native!Image("mv")}, "SHADER_READ_ONLY", src),
        Ctx!Barrier(Native!Cmd, Native!Image("output"), Ctx!ComputeRead, "GENERAL"),
        Ctx!Writes(Native!Cmd, Native!Image("output"), "GENERAL", dst)>>
    BY DEF Native!Dispatch, Native!ComputeRead, Ctx!ComputeRead, Native!UnorderedAccess,
         Native!Call, Ctx!Call, Native!TryOr, Ctx!TryOr, Native!Try, Ctx!Try, Native!Use, Ctx!Use,
         Native!Barrier, Ctx!Barrier, Native!Writes, Ctx!Writes, Native!Reads, Ctx!Reads
  <2> QED BY <2>1, <1>24
<1>26. /\ Runs(k, <<Ctx!Barrier(Native!Cmd, Native!Image("output"), "GENERAL", "TRANSFER_SRC")>>,
          S({}, i, r5),
               S({}, i, r6))
       /\ At(k, m, {}, i, r6, c)
  <2>1. Native!Cmd \in m \cup {}
    BY <1>1
  <2> QED BY <1>22, <2>1, <1>23, Transition DEF r6
<1>27. /\ Is(r6, Native!Image("color"), "SHADER_READ_ONLY", TRUE, src)
       /\ Is(r6, Native!Image("depth"), "SHADER_READ_ONLY", TRUE, src)
       /\ Is(r6, Native!Image("mv"), "SHADER_READ_ONLY", TRUE, src)
       /\ Is(r6, Native!Image("output"), "TRANSFER_SRC", TRUE, dst)
  BY <1>23, IsPut, IsKept DEF r6
<1>28. /\ Runs(k, <<Ctx!Use({Native!Buf("readback")})>>, S({}, i, r6), S({}, i, r6))
  <2>1. {Native!Buf("readback")} \subseteq m \cup {}
    BY <1>1
  <2> QED BY <1>26, <2>1, Uses
<1>29. /\ Runs(k, <<Ctx!Reads(Native!Cmd, {Native!Image("output")}, "TRANSFER_SRC", dst)>>, S({},
          i, r6),
               S({}, i, r6))
  <2>1. Native!Cmd \in m \cup {}
    BY <1>1
  <2> QED BY <1>26, <2>1, <1>27, Read
<1>30. /\ Runs(k, <<Ctx!Try({Native!Cmd})>>, S({}, i, r6), S({}, i, r6))
  <2>1. {Native!Cmd} \subseteq m \cup {}
    BY <1>1
  <2> QED BY <1>26, <2>1, Tries0
<1>31. Runs(k, <<Ctx!Use({Native!Buf("readback")}), Ctx!Reads(Native!Cmd, {Native!Image("output")},
       "TRANSFER_SRC", dst), Ctx!Try({Native!Cmd})>>, S({}, i, r6),
               S({}, i, r6))
  BY <1>28, <1>29, <1>30, Calls3
<1>32. Rest(k, m, r6, c)
  BY <1>27 DEF Rest, Ready, NativeImages, Is, Pic, Encoders
<1>33. /\ Runs(k, Ctx!submit_and_wait(Native!Cmd), S({}, i, r6), S({}, r6, <<>>))
       /\ At(k, m, {}, r6, <<>>, c)
  <2>1. /\ Native!Cmd \in m \cup {}
        /\ Plain(m, {}, <<"fence">>)
    BY <1>1 DEF Plain, Fresh, DpbImages, H264!DpbImage, External
  <2> QED BY <1>26, <2>1, <1>32, SubmitAndWait
<1>34. /\ Runs(k, <<Ctx!Try({Native!Mem("readback")})>>, S({}, r6, <<>>), S({}, r6, <<>>))
  <2>1. {Native!Mem("readback")} \subseteq m \cup {}
    BY <1>1
  <2> QED BY <1>33, <2>1, Tries0
<1>35. Runs(k, <<Ctx!Barrier(Native!Cmd, Native!Image("output"), "GENERAL", "TRANSFER_SRC")>> \o
       <<Ctx!Use({Native!Buf("readback")}), Ctx!Reads(Native!Cmd, {Native!Image("output")},
       "TRANSFER_SRC", dst), Ctx!Try({Native!Cmd})>> \o Ctx!submit_and_wait(Native!Cmd) \o
       <<Ctx!Try({Native!Mem("readback")})>>, S({}, i, r5),
               S({}, r6, <<>>))
  BY <1>26, <1>31, <1>33, <1>34, Cat4
<1>36. Runs(k, Native!ReadOutput(dst), S({}, i, r5), S({}, r6, <<>>))
  <2>1. Native!ReadOutput(dst) = <<Ctx!Barrier(Native!Cmd, Native!Image("output"), "GENERAL",
        "TRANSFER_SRC")>>
        \o <<Ctx!Use({Native!Buf("readback")}), Ctx!Reads(Native!Cmd, {Native!Image("output")},
        "TRANSFER_SRC", dst), Ctx!Try({Native!Cmd})>>
        \o Ctx!submit_and_wait(Native!Cmd)
        \o <<Ctx!Try({Native!Mem("readback")})>>
    BY DEF Native!ReadOutput, Native!Call, Ctx!Call, Native!MakeOr, Ctx!MakeOr, Native!Make,
         Ctx!Make, Native!TryOr, Ctx!TryOr, Native!Try, Ctx!Try, Native!Use, Ctx!Use,
         Native!FreeWith, Ctx!FreeWith, Native!Free, Ctx!Free, Native!Barrier, Ctx!Barrier,
         Native!Reads, Ctx!Reads, Native!SubmitOr, Ctx!SubmitOr, Native!Device, Ctx!Device,
         Native!read_from_buffer, Native!submit_and_wait, Ctx!submit_and_wait,
         Native!cmd_image_barrier_simple
  <2> QED BY <2>1, <1>35
<1> QED BY <1>33, <1>18, <1>25, <1>36

\* The cache has no handle in common with the rest of the component.
LEMMA NotBoth ==
  /\ Native!CachedResources # {}
  /\ Native!CachedResources \cap (Ctx!Fields \cup Fsr2!PipelineFields) = {}
  /\ \A m : m = Ctx!Fields \cup Fsr2!PipelineFields
              => (m \cup Native!CachedResources) \ Native!CachedResources = m
<1> USE DEF Ctx!Instance, Ctx!Device, Ctx!CommandPool, Fsr2!DescLayout, Fsr2!PipelineLayout,
            Fsr2!Pipeline, Fsr2!DescPool, Native!FsrCtx, Native!Cmd, Native!Image, Native!View,
            Native!Mem, Native!Buf
<1>1. Native!CachedResources \cap (Ctx!Fields \cup Fsr2!PipelineFields) = {}
  BY CachedAre, PipelineFieldsAre DEF Ctx!Fields
<1>2. Native!CachedResources # {}
  BY CachedAre
<1> HIDE DEF Ctx!Fields, Fsr2!PipelineFields, Native!CachedResources
<1> QED BY <1>1, <1>2

\* From a component that holds a cache to its next frame.
LEMMA CachedFrame ==
  ASSUME NEW k, NEW m, NEW i, NEW c, NEW src, NEW dst,
         m = Ctx!Fields \cup Fsr2!PipelineFields \cup Native!CachedResources,
         k.phase = "call", k.comp = "fsr2", Ready(k, m, i, c), Shape(m, {}, i, <<>>),
         c # NoSizes, c.src = src, c.dst = dst
  PROVE  \E j, y, z : /\ Runs(k, Native!RecordColor(src), St(m, {}, i, <<>>, c), y)
                      /\ Runs(k, Native!Dispatch(src, dst), y, z)
                      /\ Runs(k, Native!ReadOutput(dst), z, St(m, {}, j, <<>>, c))
                      /\ Ready(k, m, j, c) /\ Shape(m, {}, j, <<>>)
<1>1. At(k, m, {}, i, <<>>, c)
  BY DEF At, Sound, Rest
<1>2. Held(k, m, c) /\ NativeImages(m, i, c) /\ Pics(i, m \cup {})
  BY DEF Ready, Shape
<1>3. \A h \in DOMAIN i : i[h] = Pic(i[h].layout, i[h].defined, i[h].extent)
  BY <1>2 DEF Pics, IsPic
<1> DEFINE color == Native!Image("color")
           output == Native!Image("output")
<1>4. /\ Is(i, color, i[color].layout, i[color].defined, src)
      /\ Is(i, output, i[output].layout, i[output].defined, dst)
      /\ Is(i, Native!Image("depth"), "SHADER_READ_ONLY", TRUE, src)
      /\ Is(i, Native!Image("mv"), "SHADER_READ_ONLY", TRUE, src)
  BY <1>2, <1>3 DEF NativeImages, Is
<1>5. \E j, y, z : /\ Runs(k, Native!RecordColor(src), St(m, {}, i, <<>>, c), y)
                   /\ Runs(k, Native!Dispatch(src, dst), y, z)
                   /\ Runs(k, Native!ReadOutput(dst), z, St(m, {}, j, <<>>, c))
                   /\ At(k, m, {}, j, <<>>, c)
  BY <1>1, <1>2, <1>4, UpscaleCachedRuns
<1>6. ASSUME NEW j, At(k, m, {}, j, <<>>, c)
      PROVE  Ready(k, m, j, c) /\ Shape(m, {}, j, <<>>)
  BY <1>6 DEF At, Sound, Rest
<1> QED BY <1>5, <1>6

\* A cache is built where there is none.
LEMMA BuildCache ==
  ASSUME NEW k, NEW m, NEW i, NEW src \in Sizes, NEW dst \in Sizes,
         m = Ctx!Fields \cup Fsr2!PipelineFields, k.sizes = [src |-> src, dst |-> dst],
         k.phase = "call", k.comp = "fsr2", k.native = TRUE, Shape(m, {}, i, <<>>)
  PROVE  \E j, y : /\ Runs(k, Native!CreateCached(src, dst), St(m, {}, i, <<>>, NoSizes), y)
                   /\ Runs(k, Native!InitConstants(src), y,
                           St(m \cup Native!CachedResources, {}, j, <<>>, k.sizes))
                   /\ Ready(k, m \cup Native!CachedResources, j, k.sizes)
                   /\ Shape(m \cup Native!CachedResources, {}, j, <<>>)
<1>1. At(k, m, {}, i, <<>>, NoSizes)
  BY DEF At, Sound, Rest, Ready, Held, Encoders
<1>2. PICK i1 :
        /\ Runs(k, Native!CreateCached(src, dst), St(m, {}, i, <<>>, NoSizes),
                St(m, Native!CachedResources, i1, <<>>, NoSizes))
        /\ At(k, m, Native!CachedResources, i1, <<>>, NoSizes)
        /\ Is(i1, Native!Image("color"), "UNDEFINED", FALSE, src)
        /\ Is(i1, Native!Image("depth"), "UNDEFINED", FALSE, src)
        /\ Is(i1, Native!Image("mv"), "UNDEFINED", FALSE, src)
        /\ Is(i1, Native!Image("output"), "UNDEFINED", FALSE, dst)
  BY <1>1, CreateCachedRuns
<1>3. PICK j :
        /\ Runs(k, Native!InitConstants(src), St(m, Native!CachedResources, i1, <<>>, NoSizes),
                St(m \cup Native!CachedResources, {}, j, <<>>, k.sizes))
        /\ Shape(m \cup Native!CachedResources, {}, j, <<>>)
        /\ Is(j, Native!Image("color"), "UNDEFINED", FALSE, src)
        /\ Is(j, Native!Image("depth"), "SHADER_READ_ONLY", TRUE, src)
        /\ Is(j, Native!Image("mv"), "SHADER_READ_ONLY", TRUE, src)
        /\ Is(j, Native!Image("output"), "UNDEFINED", FALSE, dst)
  BY <1>2, InitConstantsRuns
<1>4. k.sizes # NoSizes /\ k.sizes.src = src /\ k.sizes.dst = dst
  BY SizesPositive DEF NoSizes
<1>5. NativeImages(m \cup Native!CachedResources, j, k.sizes)
  BY <1>3, <1>4 DEF NativeImages, Is, Pic
<1>6. Held(k, m \cup Native!CachedResources, k.sizes)
  BY <1>4 DEF Held
<1>7. Ready(k, m \cup Native!CachedResources, j, k.sizes)
  BY <1>5, <1>6 DEF Ready, Encoders
<1> QED BY <1>2, <1>3, <1>7

\* upscale of Fsr2Native leaves the component ready, with a cache for this frame's sizes.
LEMMA NativeUpscaleRuns ==
  ASSUME NEW k, NEW m, NEW i, NEW c, NEW src \in Sizes, NEW dst \in Sizes,
         k.sizes = [src |-> src, dst |-> dst], k.phase = "call", k.comp = "fsr2",
         k.native = TRUE, Ready(k, m, i, c), Shape(m, {}, i, <<>>)
  PROVE  \E n, j, d : /\ Runs(k, Native!upscale(c # NoSizes, c, src, dst), St(m, {}, i, <<>>, c),
                              St(n, {}, j, <<>>, d))
                      /\ Ready(k, n, j, d) /\ Shape(n, {}, j, <<>>)
<1> DEFINE S(tt, ii, rr) == St(m, tt, ii, rr, c)
<1> DEFINE base == Ctx!Fields \cup Fsr2!PipelineFields
           full == base \cup Native!CachedResources
           X == IF (c # NoSizes) /\ ~Native!needs_recreate(c, src, dst) THEN <<>>
                ELSE (IF c # NoSizes THEN Native!DestroyCached ELSE <<>>)
                       \o Native!CreateCached(src, dst) \o Native!InitConstants(src)
<1>1. \/ c = NoSizes /\ m = base
      \/ c # NoSizes /\ m = full
  BY DEF Ready, Held, Encoders
<1>2. Native!upscale(c # NoSizes, c, src, dst)
        = X \o Native!RecordColor(src) \o Native!Dispatch(src, dst) \o Native!ReadOutput(dst)
  BY DEF Native!upscale
<1>3. k.sizes # NoSizes /\ k.sizes.src = src /\ k.sizes.dst = dst
  BY SizesPositive DEF NoSizes
<1> HIDE DEF base
<1>4. \E j, d : /\ Runs(k, X, S({}, i, <<>>), St(full, {}, j, <<>>, d))
                /\ Ready(k, full, j, d) /\ Shape(full, {}, j, <<>>)
                /\ d # NoSizes /\ d.src = src /\ d.dst = dst
  <2>1. CASE c # NoSizes /\ c.src = src /\ c.dst = dst
    <3>1. X = <<>> /\ m = full
      BY <1>1, <2>1 DEF Native!needs_recreate
    <3>2. Runs(k, X, S({}, i, <<>>), S({}, i, <<>>))
      BY <3>1, RunsNothing
    <3> QED BY <2>1, <3>1, <3>2
  <2>2. CASE c = NoSizes
    <3>1. X = <<>> \o Native!CreateCached(src, dst) \o Native!InitConstants(src) /\ m = base
      BY <1>1, <2>2
    <3>2. PICK j, y : /\ Runs(k, Native!CreateCached(src, dst), St(m, {}, i, <<>>, NoSizes), y)
                      /\ Runs(k, Native!InitConstants(src), y, St(full, {}, j, <<>>, k.sizes))
                      /\ Ready(k, full, j, k.sizes) /\ Shape(full, {}, j, <<>>)
      BY <3>1, BuildCache DEF base
    <3>3. Runs(k, <<>>, St(m, {}, i, <<>>, NoSizes), St(m, {}, i, <<>>, NoSizes))
      BY RunsNothing
    <3>4. Runs(k, <<>> \o Native!CreateCached(src, dst) \o Native!InitConstants(src),
               St(m, {}, i, <<>>, NoSizes), St(full, {}, j, <<>>, k.sizes))
      BY <3>2, <3>3, Cat3
    <3>5. Runs(k, X, S({}, i, <<>>), St(full, {}, j, <<>>, k.sizes))
      BY <2>2, <3>1, <3>4
    <3> QED BY <1>3, <3>2, <3>5
  <2>3. CASE c # NoSizes /\ (c.src # src \/ c.dst # dst)
    <3>1. X = Native!DestroyCached \o Native!CreateCached(src, dst) \o Native!InitConstants(src)
          /\ m = full
      BY <1>1, <2>3 DEF Native!needs_recreate
    <3>2. m \ Native!CachedResources = base /\ Native!CachedResources \subseteq m
      BY <3>1, NotBoth DEF base
    <3>3. Pics(i, m)
      <4>1. m \cup {} = m
        OBVIOUS
      <4> QED BY <4>1 DEF Shape
    <3>4. PICK i1 : /\ Runs(k, Native!DestroyCached, S({}, i, <<>>),
                            St(base, {}, i1, <<>>, NoSizes))
                    /\ Pics(i1, base)
      BY <3>2, <3>3, DestroyCachedRuns
    <3>5. Shape(base, {}, i1, <<>>)
      <4>1. base \cup {} = base
        OBVIOUS
      <4> QED BY <3>4, <4>1, NoPics DEF Shape
    <3>6. PICK j, y : /\ Runs(k, Native!CreateCached(src, dst), St(base, {}, i1, <<>>, NoSizes), y)
                      /\ Runs(k, Native!InitConstants(src), y, St(full, {}, j, <<>>, k.sizes))
                      /\ Ready(k, full, j, k.sizes) /\ Shape(full, {}, j, <<>>)
      BY <3>5, BuildCache DEF base
    <3>7. Runs(k, X, S({}, i, <<>>), St(full, {}, j, <<>>, k.sizes))
      BY <3>1, <3>4, <3>6, Cat3
    <3> QED BY <1>3, <3>6, <3>7
  <2> QED BY <2>1, <2>2, <2>3
<1>5. PICK i2, d : /\ Runs(k, X, S({}, i, <<>>), St(full, {}, i2, <<>>, d))
                   /\ Ready(k, full, i2, d) /\ Shape(full, {}, i2, <<>>)
                   /\ d # NoSizes /\ d.src = src /\ d.dst = dst
  BY <1>4
<1> HIDE DEF X
<1>6. PICK j, y, z : /\ Runs(k, Native!RecordColor(src), St(full, {}, i2, <<>>, d), y)
                     /\ Runs(k, Native!Dispatch(src, dst), y, z)
                     /\ Runs(k, Native!ReadOutput(dst), z, St(full, {}, j, <<>>, d))
                     /\ Ready(k, full, j, d) /\ Shape(full, {}, j, <<>>)
  <2>1. full = Ctx!Fields \cup Fsr2!PipelineFields \cup Native!CachedResources
    BY DEF base
  <2> HIDE DEF full
  <2> QED BY <1>5, <2>1, CachedFrame
<1>7. Runs(k, X \o Native!RecordColor(src) \o Native!Dispatch(src, dst) \o Native!ReadOutput(dst),
           S({}, i, <<>>), St(full, {}, j, <<>>, d))
  BY <1>5, <1>6, Cat4
<1> QED BY <1>2, <1>6, <1>7

-----------------------------------------------------------------------------
(* Frame generation *)

\* The images of Fsr3FrameGen, listed.
LEMMA FgImagesAre ==
  Fg!Images = {"input_color", "input_depth", "input_mv", "dilated_depth",
               "dilated_mv", "optical_flow_vector", "optical_flow_scd", "output_color"}
  BY DEF Fg!Images, Fg!Inputs, Fg!Shared

\* The handles of Fsr3FrameGen, listed.
LEMMA FrameGenFieldsAre ==
  Fg!FrameGenFields =
    {Fg!FgCtx, Fg!RecBuf, Fg!RecMem,
     Fg!StagingBuf, Fg!StagingBufMem, Fg!Image("input_color"),
     Fg!Memory("input_color"), Fg!View("input_color"), Fg!Image("input_depth"),
     Fg!Memory("input_depth"), Fg!View("input_depth"), Fg!Image("input_mv"),
     Fg!Memory("input_mv"), Fg!View("input_mv"), Fg!Image("dilated_depth"),
     Fg!Memory("dilated_depth"), Fg!View("dilated_depth"), Fg!Image("dilated_mv"),
     Fg!Memory("dilated_mv"), Fg!View("dilated_mv"), Fg!Image("optical_flow_vector"),
     Fg!Memory("optical_flow_vector"), Fg!View("optical_flow_vector"), Fg!Image("optical_flow_scd"),
     Fg!Memory("optical_flow_scd"), Fg!View("optical_flow_scd"), Fg!Image("output_color"),
     Fg!Memory("output_color"), Fg!View("output_color")}
<1>1. {Fg!Image(n) : n \in Fg!Images} = {Fg!Image("input_color"), Fg!Image("input_depth"),
         Fg!Image("input_mv"), Fg!Image("dilated_depth"),
         Fg!Image("dilated_mv"), Fg!Image("optical_flow_vector"),
         Fg!Image("optical_flow_scd"), Fg!Image("output_color")}
  BY FgImagesAre
<1>2. {Fg!Memory(n) : n \in Fg!Images} = {Fg!Memory("input_color"), Fg!Memory("input_depth"),
         Fg!Memory("input_mv"), Fg!Memory("dilated_depth"),
         Fg!Memory("dilated_mv"), Fg!Memory("optical_flow_vector"),
         Fg!Memory("optical_flow_scd"), Fg!Memory("output_color")}
  BY FgImagesAre
<1>3. {Fg!View(n) : n \in Fg!Images} = {Fg!View("input_color"), Fg!View("input_depth"),
         Fg!View("input_mv"), Fg!View("dilated_depth"),
         Fg!View("dilated_mv"), Fg!View("optical_flow_vector"),
         Fg!View("optical_flow_scd"), Fg!View("output_color")}
  BY FgImagesAre
<1> QED BY <1>1, <1>2, <1>3 DEF Fg!FrameGenFields

\* An image with its memory and view; nothing is undone when one of the calls fails.
LEMMA ComputeImageRuns ==
  ASSUME NEW k, NEW m, NEW t, NEW i, NEW r, NEW c, NEW n, NEW e, At(k, m, t, i, r, c),
         Plain(m, t, Fg!Image(n)), Plain(m, t, Fg!Memory(n)), Plain(m, t, Fg!View(n)), e # 0,
         n \notin {"input_view", "dpb_image", "dpb_memory", "dpb_view", "session_memory"}
  PROVE  LET p == Put(i, Fg!Image(n), Pic("UNDEFINED", FALSE, e))
             u == t \cup {Fg!Image(n), Fg!Memory(n), Fg!View(n)}
         IN  /\ Runs(k, Fg!create_compute_image(n, e), St(m, t, i, r, c), St(m, u, p, r, c))
             /\ At(k, m, u, p, r, c)
<1> DEFINE S(tt, ii, rr) == St(m, tt, ii, rr, c)
<1> USE DEF Ctx!Instance, Ctx!Device
<1> DEFINE h == Fg!Image(n)
           mem == Fg!Memory(n)
           v == Fg!View(n)
           p == Put(i, h, Pic("UNDEFINED", FALSE, e))
           t1 == t \cup {h}
           t2 == t1 \cup {mem}
           t3 == t2 \cup {v}
<1>0. /\ h # mem /\ h # v /\ mem # v /\ Origin(v, h)
      /\ t3 = t \cup {h, mem, v}
  BY DEF Fg!Image, Fg!Memory, Fg!View, Origin, Native!Image, Native!View
<1>1. Origin(h, Ctx!Device) /\ Ctx!Device \in m /\ Fresh(m, t, h) /\ Ctx!Instance \in m
  BY MadeFromDevice DEF At, Plain, Ctx!Fields
<1>2. Plain(m, t1, mem) /\ Plain(m, t2, v)
  BY <1>0 DEF Plain, Fresh
<1>3. {h, mem} \subseteq m \cup t2 /\ h \in m \cup t2
  OBVIOUS
<1> HIDE DEF h, mem, v, Ctx!Instance, Ctx!Device
<1>4. /\ Runs(k, <<Ctx!MakeImage(h, e)>>, S(t, i, r), S(t1, p, r))
      /\ At(k, m, t1, p, r, c)
  BY <1>1, MakeImageRuns DEF At
<1> HIDE DEF p, t1
<1>5. Runs(k, <<Ctx!Try({Ctx!Instance})>>, S(t1, p, r), S(t1, p, r))
  BY <1>1, <1>4, Tries0
<1>6. /\ Runs(k, <<Ctx!Make(mem, {Ctx!Device})>>, S(t1, p, r), S(t2, p, r))
      /\ At(k, m, t2, p, r, c)
  BY <1>2, <1>4, MakePlain0
<1> HIDE DEF t2
<1>7. Runs(k, <<Ctx!Try({h, mem})>>, S(t2, p, r), S(t2, p, r))
  BY <1>3, <1>6, Tries0
<1>8. /\ Runs(k, <<Ctx!Make(v, {h})>>, S(t2, p, r), S(t3, p, r))
      /\ At(k, m, t3, p, r, c)
  BY <1>0, <1>2, <1>3, <1>6, MakeFrom0
<1>9. Runs(k, <<Ctx!Make(mem, {Ctx!Device}), Ctx!Try({h, mem}), Ctx!Make(v, {h})>>,
           S(t1, p, r), S(t3, p, r))
  BY <1>6, <1>7, <1>8, Calls3
<1>10. Runs(k, <<Ctx!MakeImage(h, e)>> \o <<Ctx!Try({Ctx!Instance})>>
                \o <<Ctx!Make(mem, {Ctx!Device}), Ctx!Try({h, mem}), Ctx!Make(v, {h})>>,
            S(t, i, r), S(t3, p, r))
  BY <1>4, <1>5, <1>9, Cat3
<1>11. Fg!create_compute_image(n, e)
         = <<Ctx!MakeImage(h, e)>> \o <<Ctx!Try({Ctx!Instance})>>
             \o <<Ctx!Make(mem, {Ctx!Device}), Ctx!Try({h, mem}), Ctx!Make(v, {h})>>
  BY DEF h, mem, v, Fg!create_compute_image, Fg!find_memory_type, Fg!MakeImage, Fg!Make,
         Fg!MakeOr, Fg!Try, Fg!TryOr, Fg!Call, Fg!Instance, Fg!Device, Ctx!MakeImage, Ctx!Make,
         Ctx!MakeOr, Ctx!Try, Ctx!TryOr, Ctx!Call, Ctx!Instance, Ctx!Device
<1> QED BY <1>0, <1>8, <1>10, <1>11 DEF p, h, mem, v

\* Fsr3FrameGen::new keeps everything it makes, and all its images are there.
LEMMA FrameGenNewRuns ==
  ASSUME NEW k, NEW i, At(k, Ctx!Fields, {}, i, <<>>, NoSizes)
  PROVE  \E j : /\ Runs(k, Fg!new(1, 2), St(Ctx!Fields, {}, i, <<>>, NoSizes),
                        St(Ctx!Fields \cup Fg!FrameGenFields, {}, j, <<>>, NoSizes))
                /\ Shape(Ctx!Fields \cup Fg!FrameGenFields, {}, j, <<>>)
                /\ \A n \in Fg!Images : Fg!Image(n) \in DOMAIN j
<1> DEFINE S(tt, ii, rr) == St(Ctx!Fields, tt, ii, rr, NoSizes)
<1> USE DEF Ctx!Instance, Ctx!Device, Ctx!CommandPool, Fg!FgCtx, Fg!FgCmd, Fg!UpCmd, Fg!UpBuf,
            Fg!UpMem, Fg!RecBuf,
           Fg!RecMem, Fg!StagingBuf, Fg!StagingBufMem, Fg!Image, Fg!Memory, Fg!View, Ctx!Fields
<1> DEFINE t1 == {Fg!FgCtx}
           t2 == {Fg!FgCtx, Fg!Image("dilated_depth"), Fg!Memory("dilated_depth"),
            Fg!View("dilated_depth")}
           i1 == Put(i, Fg!Image("dilated_depth"), Pic("UNDEFINED", FALSE, 1))
           t3 == {Fg!FgCtx, Fg!Image("dilated_depth"), Fg!Memory("dilated_depth"),
            Fg!View("dilated_depth"), Fg!Image("dilated_mv"), Fg!Memory("dilated_mv"),
            Fg!View("dilated_mv")}
           i2 == Put(i1, Fg!Image("dilated_mv"), Pic("UNDEFINED", FALSE, 1))
           t4 == {Fg!FgCtx, Fg!Image("dilated_depth"), Fg!Memory("dilated_depth"),
            Fg!View("dilated_depth"), Fg!Image("dilated_mv"), Fg!Memory("dilated_mv"),
            Fg!View("dilated_mv"), Fg!RecBuf, Fg!RecMem}
           t5 == {Fg!FgCtx, Fg!Image("dilated_depth"), Fg!Memory("dilated_depth"),
            Fg!View("dilated_depth"), Fg!Image("dilated_mv"), Fg!Memory("dilated_mv"),
            Fg!View("dilated_mv"), Fg!RecBuf, Fg!RecMem, Fg!Image("input_color"),
            Fg!Memory("input_color"), Fg!View("input_color")}
           i3 == Put(i2, Fg!Image("input_color"), Pic("UNDEFINED", FALSE, 1))
           t6 == {Fg!FgCtx, Fg!Image("dilated_depth"), Fg!Memory("dilated_depth"),
            Fg!View("dilated_depth"), Fg!Image("dilated_mv"), Fg!Memory("dilated_mv"),
            Fg!View("dilated_mv"), Fg!RecBuf, Fg!RecMem, Fg!Image("input_color"),
            Fg!Memory("input_color"), Fg!View("input_color"), Fg!Image("input_depth"),
            Fg!Memory("input_depth"), Fg!View("input_depth")}
           i4 == Put(i3, Fg!Image("input_depth"), Pic("UNDEFINED", FALSE, 1))
           t7 == {Fg!FgCtx, Fg!Image("dilated_depth"), Fg!Memory("dilated_depth"),
            Fg!View("dilated_depth"), Fg!Image("dilated_mv"), Fg!Memory("dilated_mv"),
            Fg!View("dilated_mv"), Fg!RecBuf, Fg!RecMem, Fg!Image("input_color"),
            Fg!Memory("input_color"), Fg!View("input_color"), Fg!Image("input_depth"),
            Fg!Memory("input_depth"), Fg!View("input_depth"), Fg!Image("input_mv"),
            Fg!Memory("input_mv"), Fg!View("input_mv")}
           i5 == Put(i4, Fg!Image("input_mv"), Pic("UNDEFINED", FALSE, 1))
           t8 == {Fg!FgCtx, Fg!Image("dilated_depth"), Fg!Memory("dilated_depth"),
            Fg!View("dilated_depth"), Fg!Image("dilated_mv"), Fg!Memory("dilated_mv"),
            Fg!View("dilated_mv"), Fg!RecBuf, Fg!RecMem, Fg!Image("input_color"),
            Fg!Memory("input_color"), Fg!View("input_color"), Fg!Image("input_depth"),
            Fg!Memory("input_depth"), Fg!View("input_depth"), Fg!Image("input_mv"),
            Fg!Memory("input_mv"), Fg!View("input_mv"), Fg!Image("output_color"),
            Fg!Memory("output_color"), Fg!View("output_color")}
           i6 == Put(i5, Fg!Image("output_color"), Pic("UNDEFINED", FALSE, 2))
           t9 == {Fg!FgCtx, Fg!Image("dilated_depth"), Fg!Memory("dilated_depth"),
            Fg!View("dilated_depth"), Fg!Image("dilated_mv"), Fg!Memory("dilated_mv"),
            Fg!View("dilated_mv"), Fg!RecBuf, Fg!RecMem, Fg!Image("input_color"),
            Fg!Memory("input_color"), Fg!View("input_color"), Fg!Image("input_depth"),
            Fg!Memory("input_depth"), Fg!View("input_depth"), Fg!Image("input_mv"),
            Fg!Memory("input_mv"), Fg!View("input_mv"), Fg!Image("output_color"),
            Fg!Memory("output_color"), Fg!View("output_color"), Fg!Image("optical_flow_vector"),
            Fg!Memory("optical_flow_vector"), Fg!View("optical_flow_vector")}
           i7 == Put(i6, Fg!Image("optical_flow_vector"), Pic("UNDEFINED", FALSE, 1))
           t10 == {Fg!FgCtx, Fg!Image("dilated_depth"), Fg!Memory("dilated_depth"),
            Fg!View("dilated_depth"), Fg!Image("dilated_mv"), Fg!Memory("dilated_mv"),
            Fg!View("dilated_mv"), Fg!RecBuf, Fg!RecMem, Fg!Image("input_color"),
            Fg!Memory("input_color"), Fg!View("input_color"), Fg!Image("input_depth"),
            Fg!Memory("input_depth"), Fg!View("input_depth"), Fg!Image("input_mv"),
            Fg!Memory("input_mv"), Fg!View("input_mv"), Fg!Image("output_color"),
            Fg!Memory("output_color"), Fg!View("output_color"), Fg!Image("optical_flow_vector"),
            Fg!Memory("optical_flow_vector"), Fg!View("optical_flow_vector"),
            Fg!Image("optical_flow_scd"), Fg!Memory("optical_flow_scd"), Fg!View("optical_flow_scd")}
           i8 == Put(i7, Fg!Image("optical_flow_scd"), Pic("UNDEFINED", FALSE, 1))
           t11 == {Fg!FgCtx, Fg!Image("dilated_depth"), Fg!Memory("dilated_depth"),
            Fg!View("dilated_depth"), Fg!Image("dilated_mv"), Fg!Memory("dilated_mv"),
            Fg!View("dilated_mv"), Fg!RecBuf, Fg!RecMem, Fg!Image("input_color"),
            Fg!Memory("input_color"), Fg!View("input_color"), Fg!Image("input_depth"),
            Fg!Memory("input_depth"), Fg!View("input_depth"), Fg!Image("input_mv"),
            Fg!Memory("input_mv"), Fg!View("input_mv"), Fg!Image("output_color"),
            Fg!Memory("output_color"), Fg!View("output_color"), Fg!Image("optical_flow_vector"),
            Fg!Memory("optical_flow_vector"), Fg!View("optical_flow_vector"),
            Fg!Image("optical_flow_scd"), Fg!Memory("optical_flow_scd"),
            Fg!View("optical_flow_scd"), Fg!StagingBuf, Fg!StagingBufMem}
<1> HIDE DEF t1, t2, i1, t3, i2, t4, t5, i3, t6, i4, t7, i5, t8, i6, t9, i7, t10, i8, t11
<1>1. /\ Runs(k, <<Ctx!Try({Ctx!Device})>>, S({}, i, <<>>), S({}, i, <<>>))
  <2>1. {Ctx!Device} \subseteq Ctx!Fields \cup {}
    OBVIOUS
  <2> QED BY <2>1, Tries0
<1>2. /\ Runs(k, <<Ctx!Make(Fg!FgCtx, {Ctx!Device})>>, S({}, i, <<>>), S(t1, i, <<>>))
      /\ At(k, Ctx!Fields, t1, i, <<>>, NoSizes)
  <2>1. Plain(Ctx!Fields, {}, Fg!FgCtx)
    BY DEF Plain, Fresh, DpbImages, H264!DpbImage, External, t1
  <2>2. t1 = {} \cup {Fg!FgCtx}
    BY DEF t1
  <2> QED BY <2>1, <2>2, MakePlain0
<1>3. /\ Runs(k, <<Ctx!TryOr({Fg!FgCtx}, {Fg!FgCtx})>>, S(t1, i, <<>>), S(t1, i, <<>>))
  <2>1. /\ {Fg!FgCtx} \subseteq Ctx!Fields \cup t1
        /\ {Fg!FgCtx} \subseteq t1
    BY DEF t1
  <2> QED BY <1>2, <2>1, Tries
<1>4. Runs(k, <<Ctx!Try({Ctx!Device}), Ctx!Make(Fg!FgCtx, {Ctx!Device}), Ctx!TryOr({Fg!FgCtx},
      {Fg!FgCtx})>>, S({}, i, <<>>),
              S(t1, i, <<>>))
  BY <1>1, <1>2, <1>3, Calls3
<1>5. Runs(k, Fg!create_fg_context, S({}, i, <<>>), S(t1, i, <<>>))
  <2>1. Fg!create_fg_context = <<Ctx!Try({Ctx!Device}), Ctx!Make(Fg!FgCtx, {Ctx!Device}),
        Ctx!TryOr({Fg!FgCtx}, {Fg!FgCtx})>>
    BY DEF Fg!create_fg_context, Fg!Call, Ctx!Call, Fg!MakeOr, Ctx!MakeOr, Fg!Make, Ctx!Make,
         Fg!TryOr, Ctx!TryOr, Fg!Try, Ctx!Try, Fg!Device, Ctx!Device
  <2> QED BY <2>1, <1>4
<1>6. /\ Runs(k, Fg!create_compute_image("dilated_depth", 1), S(t1, i, <<>>), S(t2, i1, <<>>))
      /\ At(k, Ctx!Fields, t2, i1, <<>>, NoSizes)
  <2>1. /\ Plain(Ctx!Fields, t1, Fg!Image("dilated_depth"))
        /\ Plain(Ctx!Fields, t1, Fg!Memory("dilated_depth"))
        /\ Plain(Ctx!Fields, t1, Fg!View("dilated_depth"))
        /\ 1 # 0
        /\ "dilated_depth" \notin {"input_view", "dpb_image", "dpb_memory", "dpb_view",
           "session_memory"}
    BY DEF Plain, Fresh, DpbImages, H264!DpbImage, External, t1, t2
  <2>2. t2 = t1 \cup {Fg!Image("dilated_depth"), Fg!Memory("dilated_depth"), Fg!View("dilated_depth")}
    BY DEF t1, t2
  <2> QED BY <1>2, <2>1, <2>2, ComputeImageRuns DEF i1
<1>7. Is(i1, Fg!Image("dilated_depth"), "UNDEFINED", FALSE, 1)
  BY IsPut, IsKept DEF i1
<1>8. /\ Runs(k, Fg!create_compute_image("dilated_mv", 1), S(t2, i1, <<>>), S(t3, i2, <<>>))
      /\ At(k, Ctx!Fields, t3, i2, <<>>, NoSizes)
  <2>1. /\ Plain(Ctx!Fields, t2, Fg!Image("dilated_mv"))
        /\ Plain(Ctx!Fields, t2, Fg!Memory("dilated_mv"))
        /\ Plain(Ctx!Fields, t2, Fg!View("dilated_mv"))
        /\ 1 # 0
        /\ "dilated_mv" \notin {"input_view", "dpb_image", "dpb_memory", "dpb_view", "session_memory"}
    BY DEF Plain, Fresh, DpbImages, H264!DpbImage, External, t2, t3
  <2>2. t3 = t2 \cup {Fg!Image("dilated_mv"), Fg!Memory("dilated_mv"), Fg!View("dilated_mv")}
    BY DEF t2, t3
  <2> QED BY <1>6, <2>1, <2>2, ComputeImageRuns DEF i2
<1>9. /\ Is(i2, Fg!Image("dilated_depth"), "UNDEFINED", FALSE, 1)
      /\ Is(i2, Fg!Image("dilated_mv"), "UNDEFINED", FALSE, 1)
  BY <1>7, IsPut, IsKept DEF i2
<1>10. /\ Runs(k, Ctx!create_buffer(Fg!RecBuf, Fg!RecMem), S(t3, i2, <<>>), S(t4, i2, <<>>))
       /\ At(k, Ctx!Fields, t4, i2, <<>>, NoSizes)
  <2>1. /\ Plain(Ctx!Fields, t3, Fg!RecBuf)
        /\ Plain(Ctx!Fields, t3, Fg!RecMem)
        /\ Fg!RecBuf # Fg!RecMem
    BY DEF Plain, Fresh, DpbImages, H264!DpbImage, External, t3, t4
  <2>2. t4 = t3 \cup {Fg!RecBuf, Fg!RecMem}
    BY DEF t3, t4
  <2> QED BY <1>8, <2>1, <2>2, CreateBuffer
<1>11. Runs(k, Fg!create_compute_image("dilated_depth", 1) \o Fg!create_compute_image("dilated_mv",
       1) \o Ctx!create_buffer(Fg!RecBuf, Fg!RecMem), S(t1, i, <<>>),
               S(t4, i2, <<>>))
  BY <1>6, <1>8, <1>10, Cat3
<1>12. Runs(k, Fg!create_shared(1), S(t1, i, <<>>), S(t4, i2, <<>>))
  <2>1. Fg!create_shared(1) = Fg!create_compute_image("dilated_depth", 1)
        \o Fg!create_compute_image("dilated_mv", 1)
        \o Ctx!create_buffer(Fg!RecBuf, Fg!RecMem)
    BY DEF Fg!create_shared, Fg!create_buffer, Ctx!create_buffer, Fg!Call, Ctx!Call, Fg!MakeOr,
         Ctx!MakeOr, Fg!Make, Ctx!Make, Fg!TryOr, Ctx!TryOr, Fg!Device, Ctx!Device,
         Fg!create_buffer, Ctx!create_buffer
  <2> QED BY <2>1, <1>11
<1>13. /\ Runs(k, Fg!create_compute_image("input_color", 1), S(t4, i2, <<>>), S(t5, i3, <<>>))
       /\ At(k, Ctx!Fields, t5, i3, <<>>, NoSizes)
  <2>1. /\ Plain(Ctx!Fields, t4, Fg!Image("input_color"))
        /\ Plain(Ctx!Fields, t4, Fg!Memory("input_color"))
        /\ Plain(Ctx!Fields, t4, Fg!View("input_color"))
        /\ 1 # 0
        /\ "input_color" \notin {"input_view", "dpb_image", "dpb_memory", "dpb_view", "session_memory"}
    BY DEF Plain, Fresh, DpbImages, H264!DpbImage, External, t4, t5
  <2>2. t5 = t4 \cup {Fg!Image("input_color"), Fg!Memory("input_color"), Fg!View("input_color")}
    BY DEF t4, t5
  <2> QED BY <1>10, <2>1, <2>2, ComputeImageRuns DEF i3
<1>14. /\ Is(i3, Fg!Image("dilated_depth"), "UNDEFINED", FALSE, 1)
       /\ Is(i3, Fg!Image("dilated_mv"), "UNDEFINED", FALSE, 1)
       /\ Is(i3, Fg!Image("input_color"), "UNDEFINED", FALSE, 1)
  BY <1>9, IsPut, IsKept DEF i3
<1>15. /\ Runs(k, Fg!create_compute_image("input_depth", 1), S(t5, i3, <<>>), S(t6, i4, <<>>))
       /\ At(k, Ctx!Fields, t6, i4, <<>>, NoSizes)
  <2>1. /\ Plain(Ctx!Fields, t5, Fg!Image("input_depth"))
        /\ Plain(Ctx!Fields, t5, Fg!Memory("input_depth"))
        /\ Plain(Ctx!Fields, t5, Fg!View("input_depth"))
        /\ 1 # 0
        /\ "input_depth" \notin {"input_view", "dpb_image", "dpb_memory", "dpb_view", "session_memory"}
    BY DEF Plain, Fresh, DpbImages, H264!DpbImage, External, t5, t6
  <2>2. t6 = t5 \cup {Fg!Image("input_depth"), Fg!Memory("input_depth"), Fg!View("input_depth")}
    BY DEF t5, t6
  <2> QED BY <1>13, <2>1, <2>2, ComputeImageRuns DEF i4
<1>16. /\ Is(i4, Fg!Image("dilated_depth"), "UNDEFINED", FALSE, 1)
       /\ Is(i4, Fg!Image("dilated_mv"), "UNDEFINED", FALSE, 1)
       /\ Is(i4, Fg!Image("input_color"), "UNDEFINED", FALSE, 1)
       /\ Is(i4, Fg!Image("input_depth"), "UNDEFINED", FALSE, 1)
  BY <1>14, IsPut, IsKept DEF i4
<1>17. /\ Runs(k, Fg!create_compute_image("input_mv", 1), S(t6, i4, <<>>), S(t7, i5, <<>>))
       /\ At(k, Ctx!Fields, t7, i5, <<>>, NoSizes)
  <2>1. /\ Plain(Ctx!Fields, t6, Fg!Image("input_mv"))
        /\ Plain(Ctx!Fields, t6, Fg!Memory("input_mv"))
        /\ Plain(Ctx!Fields, t6, Fg!View("input_mv"))
        /\ 1 # 0
        /\ "input_mv" \notin {"input_view", "dpb_image", "dpb_memory", "dpb_view", "session_memory"}
    BY DEF Plain, Fresh, DpbImages, H264!DpbImage, External, t6, t7
  <2>2. t7 = t6 \cup {Fg!Image("input_mv"), Fg!Memory("input_mv"), Fg!View("input_mv")}
    BY DEF t6, t7
  <2> QED BY <1>15, <2>1, <2>2, ComputeImageRuns DEF i5
<1>18. /\ Is(i5, Fg!Image("dilated_depth"), "UNDEFINED", FALSE, 1)
       /\ Is(i5, Fg!Image("dilated_mv"), "UNDEFINED", FALSE, 1)
       /\ Is(i5, Fg!Image("input_color"), "UNDEFINED", FALSE, 1)
       /\ Is(i5, Fg!Image("input_depth"), "UNDEFINED", FALSE, 1)
       /\ Is(i5, Fg!Image("input_mv"), "UNDEFINED", FALSE, 1)
  BY <1>16, IsPut, IsKept DEF i5
<1>19. /\ Runs(k, Fg!create_compute_image("output_color", 2), S(t7, i5, <<>>), S(t8, i6, <<>>))
       /\ At(k, Ctx!Fields, t8, i6, <<>>, NoSizes)
  <2>1. /\ Plain(Ctx!Fields, t7, Fg!Image("output_color"))
        /\ Plain(Ctx!Fields, t7, Fg!Memory("output_color"))
        /\ Plain(Ctx!Fields, t7, Fg!View("output_color"))
        /\ 2 # 0
        /\ "output_color" \notin {"input_view", "dpb_image", "dpb_memory", "dpb_view", "session_memory"}
    BY DEF Plain, Fresh, DpbImages, H264!DpbImage, External, t7, t8
  <2>2. t8 = t7 \cup {Fg!Image("output_color"), Fg!Memory("output_color"), Fg!View("output_color")}
    BY DEF t7, t8
  <2> QED BY <1>17, <2>1, <2>2, ComputeImageRuns DEF i6
<1>20. /\ Is(i6, Fg!Image("dilated_depth"), "UNDEFINED", FALSE, 1)
       /\ Is(i6, Fg!Image("dilated_mv"), "UNDEFINED", FALSE, 1)
       /\ Is(i6, Fg!Image("input_color"), "UNDEFINED", FALSE, 1)
       /\ Is(i6, Fg!Image("input_depth"), "UNDEFINED", FALSE, 1)
       /\ Is(i6, Fg!Image("input_mv"), "UNDEFINED", FALSE, 1)
       /\ Is(i6, Fg!Image("output_color"), "UNDEFINED", FALSE, 2)
  BY <1>18, IsPut, IsKept DEF i6
<1>21. /\ Runs(k, Fg!create_compute_image("optical_flow_vector", 1), S(t8, i6, <<>>), S(t9, i7, <<>>))
       /\ At(k, Ctx!Fields, t9, i7, <<>>, NoSizes)
  <2>1. /\ Plain(Ctx!Fields, t8, Fg!Image("optical_flow_vector"))
        /\ Plain(Ctx!Fields, t8, Fg!Memory("optical_flow_vector"))
        /\ Plain(Ctx!Fields, t8, Fg!View("optical_flow_vector"))
        /\ 1 # 0
        /\ "optical_flow_vector" \notin {"input_view", "dpb_image", "dpb_memory", "dpb_view",
           "session_memory"}
    BY DEF Plain, Fresh, DpbImages, H264!DpbImage, External, t8, t9
  <2>2. t9 = t8 \cup {Fg!Image("optical_flow_vector"), Fg!Memory("optical_flow_vector"),
        Fg!View("optical_flow_vector")}
    BY DEF t8, t9
  <2> QED BY <1>19, <2>1, <2>2, ComputeImageRuns DEF i7
<1>22. /\ Is(i7, Fg!Image("dilated_depth"), "UNDEFINED", FALSE, 1)
       /\ Is(i7, Fg!Image("dilated_mv"), "UNDEFINED", FALSE, 1)
       /\ Is(i7, Fg!Image("input_color"), "UNDEFINED", FALSE, 1)
       /\ Is(i7, Fg!Image("input_depth"), "UNDEFINED", FALSE, 1)
       /\ Is(i7, Fg!Image("input_mv"), "UNDEFINED", FALSE, 1)
       /\ Is(i7, Fg!Image("output_color"), "UNDEFINED", FALSE, 2)
       /\ Is(i7, Fg!Image("optical_flow_vector"), "UNDEFINED", FALSE, 1)
  BY <1>20, IsPut, IsKept DEF i7
<1>23. /\ Runs(k, Fg!create_compute_image("optical_flow_scd", 1), S(t9, i7, <<>>), S(t10, i8, <<>>))
       /\ At(k, Ctx!Fields, t10, i8, <<>>, NoSizes)
  <2>1. /\ Plain(Ctx!Fields, t9, Fg!Image("optical_flow_scd"))
        /\ Plain(Ctx!Fields, t9, Fg!Memory("optical_flow_scd"))
        /\ Plain(Ctx!Fields, t9, Fg!View("optical_flow_scd"))
        /\ 1 # 0
        /\ "optical_flow_scd" \notin {"input_view", "dpb_image", "dpb_memory", "dpb_view",
           "session_memory"}
    BY DEF Plain, Fresh, DpbImages, H264!DpbImage, External, t9, t10
  <2>2. t10 = t9 \cup {Fg!Image("optical_flow_scd"), Fg!Memory("optical_flow_scd"),
        Fg!View("optical_flow_scd")}
    BY DEF t9, t10
  <2> QED BY <1>21, <2>1, <2>2, ComputeImageRuns DEF i8
<1>24. /\ Is(i8, Fg!Image("dilated_depth"), "UNDEFINED", FALSE, 1)
       /\ Is(i8, Fg!Image("dilated_mv"), "UNDEFINED", FALSE, 1)
       /\ Is(i8, Fg!Image("input_color"), "UNDEFINED", FALSE, 1)
       /\ Is(i8, Fg!Image("input_depth"), "UNDEFINED", FALSE, 1)
       /\ Is(i8, Fg!Image("input_mv"), "UNDEFINED", FALSE, 1)
       /\ Is(i8, Fg!Image("output_color"), "UNDEFINED", FALSE, 2)
       /\ Is(i8, Fg!Image("optical_flow_vector"), "UNDEFINED", FALSE, 1)
       /\ Is(i8, Fg!Image("optical_flow_scd"), "UNDEFINED", FALSE, 1)
  BY <1>22, IsPut, IsKept DEF i8
<1>25. Runs(k, Fg!create_compute_image("input_color", 1) \o Fg!create_compute_image("input_depth",
       1) \o Fg!create_compute_image("input_mv", 1) \o Fg!create_compute_image("output_color",
       2) \o Fg!create_compute_image("optical_flow_vector", 1) \o
       Fg!create_compute_image("optical_flow_scd", 1), S(t4, i2, <<>>),
               S(t10, i8, <<>>))
  BY <1>13, <1>15, <1>17, <1>19, <1>21, <1>23, Cat6
<1>26. Runs(k, Fg!create_textures(1, 2), S(t4, i2, <<>>), S(t10, i8, <<>>))
  <2>1. Fg!create_textures(1, 2) = Fg!create_compute_image("input_color", 1)
        \o Fg!create_compute_image("input_depth", 1)
        \o Fg!create_compute_image("input_mv", 1)
        \o Fg!create_compute_image("output_color", 2)
        \o Fg!create_compute_image("optical_flow_vector", 1)
        \o Fg!create_compute_image("optical_flow_scd", 1)
    BY DEF Fg!create_textures
  <2> QED BY <2>1, <1>25
<1>27. /\ Runs(k, Ctx!create_buffer(Fg!StagingBuf, Fg!StagingBufMem), S(t10, i8, <<>>),
               S(t11, i8, <<>>))
       /\ At(k, Ctx!Fields, t11, i8, <<>>, NoSizes)
  <2>1. /\ Plain(Ctx!Fields, t10, Fg!StagingBuf)
        /\ Plain(Ctx!Fields, t10, Fg!StagingBufMem)
        /\ Fg!StagingBuf # Fg!StagingBufMem
    BY DEF Plain, Fresh, DpbImages, H264!DpbImage, External, t10, t11
  <2>2. t11 = t10 \cup {Fg!StagingBuf, Fg!StagingBufMem}
    BY DEF t10, t11
  <2> QED BY <1>23, <2>1, <2>2, CreateBuffer
<1>28. /\ Runs(k, <<Ctx!Keep(Fg!FrameGenFields)>>, S(t11, i8, <<>>),
                St(Ctx!Fields \cup Fg!FrameGenFields, {}, i8, <<>>, NoSizes))
       /\ Shape(Ctx!Fields \cup Fg!FrameGenFields, {}, i8, <<>>)
  <2>1. Fg!FrameGenFields = t11
    BY FrameGenFieldsAre DEF t11
  <2>2. Native!FsrCtx \notin Fg!FrameGenFields
    BY FrameGenFieldsAre DEF Native!FsrCtx
  <2> QED BY <1>27, <2>1, <2>2, KeepAll
<1>29. Runs(k, Fg!create_fg_context \o Fg!create_shared(1) \o Fg!create_textures(1, 2) \o
       Ctx!create_buffer(Fg!StagingBuf, Fg!StagingBufMem) \o <<Ctx!Keep(Fg!FrameGenFields)>>, S({},
       i, <<>>),
               St(Ctx!Fields \cup Fg!FrameGenFields, {}, i8, <<>>, NoSizes))
  BY <1>5, <1>12, <1>26, <1>27, <1>28, Cat5
<1>30. Runs(k, Fg!new(1, 2), S({}, i, <<>>),
               St(Ctx!Fields \cup Fg!FrameGenFields, {}, i8, <<>>, NoSizes))
  <2>1. Fg!new(1, 2) = Fg!create_fg_context
        \o Fg!create_shared(1)
        \o Fg!create_textures(1, 2)
        \o Ctx!create_buffer(Fg!StagingBuf, Fg!StagingBufMem)
        \o <<Ctx!Keep(Fg!FrameGenFields)>>
    BY DEF Fg!new, Fg!create_buffer, Ctx!create_buffer, Fg!Keep, Ctx!Keep, Fg!Call, Ctx!Call,
         Fg!MakeOr, Ctx!MakeOr, Fg!Make, Ctx!Make, Fg!TryOr, Ctx!TryOr, Fg!Keep, Ctx!Keep,
         Fg!Device, Ctx!Device, Fg!create_buffer, Ctx!create_buffer
  <2> QED BY <2>1, <1>29
<1>31. \A n \in Fg!Images : Fg!Image(n) \in DOMAIN i8
  BY <1>24, FgImagesAre DEF Is
<1> QED BY <1>28, <1>31, <1>30

\* Frame generation asks nothing of its images but that they are there.
LEMMA RestPutFg ==
  ASSUME NEW k, NEW m, NEW f, NEW h, NEW p, NEW c, Rest(k, m, f, c), k.comp = "fsr3"
  PROVE  Rest(k, m, Put(f, h, p), c)
  BY DEF Rest, Ready, Put, Encoders

\* The frame generator reads images whether they are filled or not.
LEMMA ReadAny ==
  ASSUME NEW k, NEW m, NEW t, NEW i, NEW r, NEW c, NEW cmd, NEW hs, NEW layout, NEW e,
         At(k, m, t, i, r, c), cmd \in m \cup t, k.comp = "fsr3",
         \A h \in hs : h \in DOMAIN r /\ (layout = r[h].layout \/ Told(h, layout, r))
  PROVE  Runs(k, <<Ctx!Reads(cmd, hs, layout, e)>>, St(m, t, i, r, c), St(m, t, i, r, c))
  BY ReadsRuns DEF At, Sound

\* One image is filled, with a buffer and a command buffer that are given back.
LEMMA FillRuns ==
  ASSUME NEW k, NEW m, NEW i, NEW n, NEW e, NEW l, NEW d, NEW x,
         m = Ctx!Fields \cup Fg!FrameGenFields, k.comp = "fsr3",
         At(k, m, {}, i, <<>>, NoSizes), Is(i, Fg!Image(n), l, d, x)
  PROVE  \E j : /\ Runs(k, Fg!FillImage(n, e), St(m, {}, i, <<>>, NoSizes),
                        St(m, {}, j, <<>>, NoSizes))
                /\ At(k, m, {}, j, <<>>, NoSizes)
<1> DEFINE S(tt, ii, rr) == St(m, tt, ii, rr, NoSizes)
<1> USE DEF Ctx!Instance, Ctx!Device, Ctx!CommandPool, Fg!FgCtx, Fg!FgCmd, Fg!UpCmd, Fg!UpBuf,
            Fg!UpMem, Fg!RecBuf,
           Fg!RecMem, Fg!StagingBuf, Fg!StagingBufMem, Fg!Image, Fg!Memory, Fg!View
<1>1. m = {Ctx!Instance, Ctx!Device, Ctx!CommandPool,
           Fg!FgCtx, Fg!RecBuf, Fg!RecMem,
           Fg!StagingBuf, Fg!StagingBufMem, Fg!Image("input_color"),
           Fg!Memory("input_color"), Fg!View("input_color"), Fg!Image("input_depth"),
           Fg!Memory("input_depth"), Fg!View("input_depth"), Fg!Image("input_mv"),
           Fg!Memory("input_mv"), Fg!View("input_mv"), Fg!Image("dilated_depth"),
           Fg!Memory("dilated_depth"), Fg!View("dilated_depth"), Fg!Image("dilated_mv"),
           Fg!Memory("dilated_mv"), Fg!View("dilated_mv"), Fg!Image("optical_flow_vector"),
           Fg!Memory("optical_flow_vector"), Fg!View("optical_flow_vector"),
           Fg!Image("optical_flow_scd"),
           Fg!Memory("optical_flow_scd"), Fg!View("optical_flow_scd"), Fg!Image("output_color"),
           Fg!Memory("output_color"), Fg!View("output_color")}
  BY FrameGenFieldsAre DEF Ctx!Fields
<1>2. Is(i, Fg!Image(n), l, d, x)
  OBVIOUS
<1> DEFINE t1 == {Fg!UpBuf, Fg!UpMem}
           t2 == {Fg!UpBuf, Fg!UpMem, Fg!UpCmd}
           r1 == Put(i, Fg!Image(n), Pic("TRANSFER_DST", FALSE, x))
           r2 == Put(r1, Fg!Image(n), Pic("TRANSFER_DST", TRUE, x))
           t3 == {Fg!UpMem, Fg!UpCmd}
           i1 == Without(r2, {Fg!UpBuf})
           t4 == {Fg!UpCmd}
           i2 == Without(i1, {Fg!UpMem})
           i3 == Without(i2, {Fg!UpCmd})
<1> HIDE DEF t1, t2, r1, r2, t3, i1, t4, i2, i3
<1>3. /\ Runs(k, Ctx!create_buffer(Fg!UpBuf, Fg!UpMem), S({}, i, <<>>), S(t1, i, <<>>))
      /\ At(k, m, t1, i, <<>>, NoSizes)
  <2>1. /\ Plain(m, {}, Fg!UpBuf)
        /\ Plain(m, {}, Fg!UpMem)
        /\ Fg!UpBuf # Fg!UpMem
    BY <1>1 DEF Plain, Fresh, DpbImages, H264!DpbImage, External, t1
  <2>2. t1 = {} \cup {Fg!UpBuf, Fg!UpMem}
    BY <1>1 DEF t1
  <2> QED BY <2>1, <2>2, CreateBuffer
<1>4. /\ Runs(k, <<Ctx!Try({Fg!UpMem})>>, S(t1, i, <<>>), S(t1, i, <<>>))
  <2>1. {Fg!UpMem} \subseteq m \cup t1
    BY <1>1 DEF t1
  <2> QED BY <1>3, <2>1, Tries0
<1>5. /\ Runs(k, Ctx!allocate_command_buffer(Fg!UpCmd), S(t1, i, <<>>), S(t2, i, <<>>))
      /\ At(k, m, t2, i, <<>>, NoSizes)
  <2>1. /\ Plain(m, t1, Fg!UpCmd)
        /\ Fg!UpCmd \in CmdBuffers
    BY <1>1 DEF Plain, Fresh, DpbImages, H264!DpbImage, External, CmdBuffers, t1, t2
  <2>2. t2 = t1 \cup {Fg!UpCmd}
    BY <1>1 DEF t1, t2
  <2> QED BY <1>3, <2>1, <2>2, AllocateCommandBuffer
<1>6. /\ Runs(k, <<Ctx!Begin(Fg!UpCmd)>>, S(t2, i, <<>>), S(t2, i, i))
      /\ At(k, m, t2, i, i, NoSizes)
      /\ Rest(k, m, i, NoSizes)
  <2>1. Fg!UpCmd \in m \cup t2
    BY <1>1 DEF t2
  <2> QED BY <1>5, <2>1, Begins
<1>7. /\ Runs(k, <<Ctx!Barrier(Fg!UpCmd, Fg!Image(n), "UNDEFINED", "TRANSFER_DST")>>, S(t2, i, i),
              S(t2, i, r1))
      /\ At(k, m, t2, i, r1, NoSizes)
      /\ Rest(k, m, r1, NoSizes)
  <2>1. Fg!UpCmd \in m \cup t2
    BY <1>1 DEF t2
  <2> QED BY <1>6, <2>1, <1>2, <1>6, RestPutFg, Discard DEF r1
<1>8. Is(r1, Fg!Image(n), "TRANSFER_DST", FALSE, x)
  BY <1>2, IsPut, IsKept DEF r1
<1>9. /\ Runs(k, <<Ctx!Use({Fg!UpBuf})>>, S(t2, i, r1), S(t2, i, r1))
  <2>1. {Fg!UpBuf} \subseteq m \cup t2
    BY <1>1 DEF t2
  <2> QED BY <1>7, <2>1, Uses
<1>10. /\ Runs(k, <<Ctx!Writes(Fg!UpCmd, Fg!Image(n), "TRANSFER_DST", e)>>, S(t2, i, r1), S(t2, i, r2))
       /\ At(k, m, t2, i, r2, NoSizes)
       /\ Rest(k, m, r2, NoSizes)
  <2>1. Fg!UpCmd \in m \cup t2
    BY <1>1 DEF t2
  <2> QED BY <1>7, <2>1, <1>8, <1>7, RestPutFg, Write DEF r2
<1>11. Is(r2, Fg!Image(n), "TRANSFER_DST", TRUE, x)
  BY <1>8, IsPut, IsKept DEF r2
<1>12. /\ Runs(k, <<Ctx!Try({Fg!UpCmd})>>, S(t2, i, r2), S(t2, i, r2))
  <2>1. {Fg!UpCmd} \subseteq m \cup t2
    BY <1>1 DEF t2
  <2> QED BY <1>10, <2>1, Tries0
<1>13. Runs(k, <<Ctx!Use({Fg!UpBuf}), Ctx!Writes(Fg!UpCmd, Fg!Image(n), "TRANSFER_DST", e),
       Ctx!Try({Fg!UpCmd})>>, S(t2, i, r1),
               S(t2, i, r2))
  BY <1>9, <1>10, <1>12, Calls3
<1>14. /\ Runs(k, Ctx!submit_and_wait(Fg!UpCmd), S(t2, i, r2), S(t2, r2, <<>>))
       /\ At(k, m, t2, r2, <<>>, NoSizes)
  <2>1. /\ Fg!UpCmd \in m \cup t2
        /\ Plain(m, t2, <<"fence">>)
    BY <1>1 DEF Plain, Fresh, DpbImages, H264!DpbImage, External, t2
  <2> QED BY <1>10, <2>1, <1>10, SubmitAndWait
<1>15. /\ Runs(k, <<Ctx!Free(Fg!UpBuf)>>, S(t2, r2, <<>>), S(t3, i1, <<>>))
       /\ At(k, m, t3, i1, <<>>, NoSizes)
  <2>1. Fg!UpBuf \in t2 /\ Fg!UpBuf \notin m /\ t2 \ {Fg!UpBuf} = t3
    BY <1>1 DEF t2, t3
  <2>2. Childless(k, m, t2, {Fg!UpBuf})
    BY Barren1, BarrenChildless
  <2> QED BY <1>14, <2>1, <2>2, FreeTemp DEF i1
<1>16. /\ Runs(k, <<Ctx!Free(Fg!UpMem)>>, S(t3, i1, <<>>), S(t4, i2, <<>>))
       /\ At(k, m, t4, i2, <<>>, NoSizes)
  <2>1. Fg!UpMem \in t3 /\ Fg!UpMem \notin m /\ t3 \ {Fg!UpMem} = t4
    BY <1>1 DEF t3, t4
  <2>2. Childless(k, m, t3, {Fg!UpMem})
    BY Barren1, BarrenChildless
  <2> QED BY <1>15, <2>1, <2>2, FreeTemp DEF i2
<1>17. /\ Runs(k, <<Ctx!Free(Fg!UpCmd)>>, S(t4, i2, <<>>), S({}, i3, <<>>))
       /\ At(k, m, {}, i3, <<>>, NoSizes)
  <2>1. Fg!UpCmd \in t4 /\ Fg!UpCmd \notin m /\ t4 \ {Fg!UpCmd} = {}
    BY <1>1 DEF t4
  <2>2. Childless(k, m, t4, {Fg!UpCmd})
    BY Barren1, BarrenChildless
  <2>3. /\ Runs(k, <<Ctx!Free(Fg!UpCmd)>>, S(t4, i2, <<>>),
                S(t4 \ {Fg!UpCmd}, Without(i2, {Fg!UpCmd}), <<>>))
        /\ At(k, m, t4 \ {Fg!UpCmd}, Without(i2, {Fg!UpCmd}), <<>>, NoSizes)
    BY <1>16, <2>1, <2>2, FreeTemp
  <2> QED BY <2>1, <2>3 DEF i3
<1>18. Runs(k, <<Ctx!Free(Fg!UpBuf), Ctx!Free(Fg!UpMem), Ctx!Free(Fg!UpCmd)>>, S(t2, r2, <<>>),
               S({}, i3, <<>>))
  BY <1>15, <1>16, <1>17, Calls3
<1>19. Runs(k, Ctx!create_buffer(Fg!UpBuf, Fg!UpMem) \o <<Ctx!Try({Fg!UpMem})>> \o
       Ctx!allocate_command_buffer(Fg!UpCmd) \o <<Ctx!Begin(Fg!UpCmd)>> \o <<Ctx!Barrier(Fg!UpCmd,
       Fg!Image(n), "UNDEFINED", "TRANSFER_DST")>> \o <<Ctx!Use({Fg!UpBuf}), Ctx!Writes(Fg!UpCmd,
       Fg!Image(n), "TRANSFER_DST", e), Ctx!Try({Fg!UpCmd})>> \o Ctx!submit_and_wait(Fg!UpCmd) \o
       <<Ctx!Free(Fg!UpBuf), Ctx!Free(Fg!UpMem), Ctx!Free(Fg!UpCmd)>>, S({}, i, <<>>),
               S({}, i3, <<>>))
  BY <1>3, <1>4, <1>5, <1>6, <1>7, <1>13, <1>14, <1>18, Cat8
<1>20. Runs(k, Fg!FillImage(n, e), S({}, i, <<>>), S({}, i3, <<>>))
  <2>1. Fg!FillImage(n, e) = Ctx!create_buffer(Fg!UpBuf, Fg!UpMem)
        \o <<Ctx!Try({Fg!UpMem})>>
        \o Ctx!allocate_command_buffer(Fg!UpCmd)
        \o <<Ctx!Begin(Fg!UpCmd)>>
        \o <<Ctx!Barrier(Fg!UpCmd, Fg!Image(n), "UNDEFINED", "TRANSFER_DST")>>
        \o <<Ctx!Use({Fg!UpBuf}), Ctx!Writes(Fg!UpCmd, Fg!Image(n), "TRANSFER_DST", e),
        Ctx!Try({Fg!UpCmd})>>
        \o Ctx!submit_and_wait(Fg!UpCmd)
        \o <<Ctx!Free(Fg!UpBuf), Ctx!Free(Fg!UpMem), Ctx!Free(Fg!UpCmd)>>
    BY DEF Fg!FillImage, Fg!Call, Ctx!Call, Fg!MakeOr, Ctx!MakeOr, Fg!Make, Ctx!Make, Fg!TryOr,
         Ctx!TryOr, Fg!Try, Ctx!Try, Fg!Use, Ctx!Use, Fg!FreeWith, Ctx!FreeWith, Fg!Free, Ctx!Free,
         Fg!Begin, Ctx!Begin, Fg!Barrier, Ctx!Barrier, Fg!Writes, Ctx!Writes, Fg!SubmitOr,
         Ctx!SubmitOr, Fg!Device, Ctx!Device, Fg!CommandPool, Ctx!CommandPool, Fg!create_buffer,
         Ctx!create_buffer, Fg!upload_to_buffer, Fg!allocate_command_buffer,
         Ctx!allocate_command_buffer, Fg!submit_and_wait, Ctx!submit_and_wait, Fg!cmd_barrier
  <2> QED BY <2>1, <1>19
<1> QED BY <1>17, <1>20

\* From the filled images to the generated frame.
LEMMA DispatchRuns ==
  ASSUME NEW k, NEW m, NEW i, NEW e, NEW v, NEW l, NEW d, NEW x,
         m = Ctx!Fields \cup Fg!FrameGenFields, k.comp = "fsr3",
         At(k, m, {}, i, <<>>, NoSizes), \A n \in Fg!Images : Is(i, Fg!Image(n), l[n], d[n], x[n])
  PROVE  \E j, y1, y2, y3, y4, y5, y6 :
           /\ Runs(k, Fg!allocate_command_buffer(Fg!FgCmd), St(m, {}, i, <<>>, NoSizes), y1)
           /\ Runs(k, <<Fg!Begin(Fg!FgCmd)>>, y1, y2)
           /\ Runs(k, Fg!InputBarriers, y2, y3)
           /\ Runs(k, Fg!SharedBarriers, y3, y4)
           /\ Runs(k, Fg!PreparePass(e), y4, y5)
           /\ Runs(k, Fg!DispatchPass(e, v), y5, y6)
           /\ Runs(k, Fg!ReadOutput(v), y6, St(m, {}, j, <<>>, NoSizes))
           /\ At(k, m, {}, j, <<>>, NoSizes)
<1> DEFINE S(tt, ii, rr) == St(m, tt, ii, rr, NoSizes)
<1> USE DEF Ctx!Instance, Ctx!Device, Ctx!CommandPool, Fg!FgCtx, Fg!FgCmd, Fg!UpCmd, Fg!UpBuf,
            Fg!UpMem, Fg!RecBuf,
           Fg!RecMem, Fg!StagingBuf, Fg!StagingBufMem, Fg!Image, Fg!Memory, Fg!View
<1>1. m = {Ctx!Instance, Ctx!Device, Ctx!CommandPool,
           Fg!FgCtx, Fg!RecBuf, Fg!RecMem,
           Fg!StagingBuf, Fg!StagingBufMem, Fg!Image("input_color"),
           Fg!Memory("input_color"), Fg!View("input_color"), Fg!Image("input_depth"),
           Fg!Memory("input_depth"), Fg!View("input_depth"), Fg!Image("input_mv"),
           Fg!Memory("input_mv"), Fg!View("input_mv"), Fg!Image("dilated_depth"),
           Fg!Memory("dilated_depth"), Fg!View("dilated_depth"), Fg!Image("dilated_mv"),
           Fg!Memory("dilated_mv"), Fg!View("dilated_mv"), Fg!Image("optical_flow_vector"),
           Fg!Memory("optical_flow_vector"), Fg!View("optical_flow_vector"),
           Fg!Image("optical_flow_scd"),
           Fg!Memory("optical_flow_scd"), Fg!View("optical_flow_scd"), Fg!Image("output_color"),
           Fg!Memory("output_color"), Fg!View("output_color")}
  BY FrameGenFieldsAre DEF Ctx!Fields
<1>2. /\ Is(i, Fg!Image("input_color"), l["input_color"], d["input_color"], x["input_color"])
      /\ Is(i, Fg!Image("input_depth"), l["input_depth"], d["input_depth"], x["input_depth"])
      /\ Is(i, Fg!Image("input_mv"), l["input_mv"], d["input_mv"], x["input_mv"])
      /\ Is(i, Fg!Image("dilated_depth"), l["dilated_depth"], d["dilated_depth"], x["dilated_depth"])
      /\ Is(i, Fg!Image("dilated_mv"), l["dilated_mv"], d["dilated_mv"], x["dilated_mv"])
      /\ Is(i, Fg!Image("optical_flow_vector"), l["optical_flow_vector"], d["optical_flow_vector"],
         x["optical_flow_vector"])
      /\ Is(i, Fg!Image("optical_flow_scd"), l["optical_flow_scd"], d["optical_flow_scd"],
         x["optical_flow_scd"])
      /\ Is(i, Fg!Image("output_color"), l["output_color"], d["output_color"], x["output_color"])
  BY FgImagesAre
<1> DEFINE t1 == {Fg!FgCmd}
           r1 == Put(i, Fg!Image("input_color"), Pic("GENERAL", FALSE, x["input_color"]))
           r2 == Put(r1, Fg!Image("input_depth"), Pic("GENERAL", FALSE, x["input_depth"]))
           r3 == Put(r2, Fg!Image("input_mv"), Pic("GENERAL", FALSE, x["input_mv"]))
           r4 == Put(r3, Fg!Image("dilated_depth"), Pic("GENERAL", FALSE, x["dilated_depth"]))
           r5 == Put(r4, Fg!Image("dilated_mv"), Pic("GENERAL", FALSE, x["dilated_mv"]))
           r6 == Put(r5, Fg!Image("optical_flow_vector"), Pic("GENERAL", FALSE,
            x["optical_flow_vector"]))
           r7 == Put(r6, Fg!Image("optical_flow_scd"), Pic("GENERAL", FALSE, x["optical_flow_scd"]))
           r8 == Put(r7, Fg!Image("output_color"), Pic("GENERAL", FALSE, x["output_color"]))
           r9 == Put(r8, Fg!Image("dilated_depth"), Pic("GENERAL", TRUE, x["dilated_depth"]))
           r10 == Put(r9, Fg!Image("dilated_mv"), Pic("GENERAL", TRUE, x["dilated_mv"]))
           r11 == Put(r10, Fg!Image("output_color"), Pic("GENERAL", TRUE, x["output_color"]))
           r12 == Put(r11, Fg!Image("output_color"), Pic("TRANSFER_SRC", TRUE, x["output_color"]))
           i1 == Without(r12, {Fg!FgCmd})
<1> HIDE DEF t1, r1, r2, r3, r4, r5, r6, r7, r8, r9, r10, r11, r12, i1
<1>3. /\ Runs(k, Ctx!allocate_command_buffer(Fg!FgCmd), S({}, i, <<>>), S(t1, i, <<>>))
      /\ At(k, m, t1, i, <<>>, NoSizes)
  <2>1. /\ Plain(m, {}, Fg!FgCmd)
        /\ Fg!FgCmd \in CmdBuffers
    BY <1>1 DEF Plain, Fresh, DpbImages, H264!DpbImage, External, CmdBuffers, t1
  <2>2. t1 = {} \cup {Fg!FgCmd}
    BY <1>1 DEF t1
  <2> QED BY <2>1, <2>2, AllocateCommandBuffer
<1>4. /\ Runs(k, <<Ctx!Begin(Fg!FgCmd)>>, S(t1, i, <<>>), S(t1, i, i))
      /\ At(k, m, t1, i, i, NoSizes)
      /\ Rest(k, m, i, NoSizes)
  <2>1. Fg!FgCmd \in m \cup t1
    BY <1>1 DEF t1
  <2> QED BY <1>3, <2>1, Begins
<1>5. /\ Runs(k, <<Ctx!Barrier(Fg!FgCmd, Fg!Image("input_color"), "UNDEFINED", "GENERAL")>>, S(t1,
         i, i),
              S(t1, i, r1))
      /\ At(k, m, t1, i, r1, NoSizes)
      /\ Rest(k, m, r1, NoSizes)
  <2>1. Fg!FgCmd \in m \cup t1
    BY <1>1 DEF t1
  <2> QED BY <1>4, <2>1, <1>2, <1>4, RestPutFg, Discard DEF r1
<1>6. /\ Is(r1, Fg!Image("input_color"), "GENERAL", FALSE, x["input_color"])
      /\ Is(r1, Fg!Image("input_depth"), l["input_depth"], d["input_depth"], x["input_depth"])
      /\ Is(r1, Fg!Image("input_mv"), l["input_mv"], d["input_mv"], x["input_mv"])
      /\ Is(r1, Fg!Image("dilated_depth"), l["dilated_depth"], d["dilated_depth"], x["dilated_depth"])
      /\ Is(r1, Fg!Image("dilated_mv"), l["dilated_mv"], d["dilated_mv"], x["dilated_mv"])
      /\ Is(r1, Fg!Image("optical_flow_vector"), l["optical_flow_vector"],
         d["optical_flow_vector"], x["optical_flow_vector"])
      /\ Is(r1, Fg!Image("optical_flow_scd"), l["optical_flow_scd"], d["optical_flow_scd"],
         x["optical_flow_scd"])
      /\ Is(r1, Fg!Image("output_color"), l["output_color"], d["output_color"], x["output_color"])
  BY <1>2, IsPut, IsKept DEF r1
<1>7. /\ Runs(k, <<Ctx!Barrier(Fg!FgCmd, Fg!Image("input_depth"), "UNDEFINED", "GENERAL")>>, S(t1,
         i, r1),
              S(t1, i, r2))
      /\ At(k, m, t1, i, r2, NoSizes)
      /\ Rest(k, m, r2, NoSizes)
  <2>1. Fg!FgCmd \in m \cup t1
    BY <1>1 DEF t1
  <2> QED BY <1>5, <2>1, <1>6, <1>5, RestPutFg, Discard DEF r2
<1>8. /\ Is(r2, Fg!Image("input_color"), "GENERAL", FALSE, x["input_color"])
      /\ Is(r2, Fg!Image("input_depth"), "GENERAL", FALSE, x["input_depth"])
      /\ Is(r2, Fg!Image("input_mv"), l["input_mv"], d["input_mv"], x["input_mv"])
      /\ Is(r2, Fg!Image("dilated_depth"), l["dilated_depth"], d["dilated_depth"], x["dilated_depth"])
      /\ Is(r2, Fg!Image("dilated_mv"), l["dilated_mv"], d["dilated_mv"], x["dilated_mv"])
      /\ Is(r2, Fg!Image("optical_flow_vector"), l["optical_flow_vector"],
         d["optical_flow_vector"], x["optical_flow_vector"])
      /\ Is(r2, Fg!Image("optical_flow_scd"), l["optical_flow_scd"], d["optical_flow_scd"],
         x["optical_flow_scd"])
      /\ Is(r2, Fg!Image("output_color"), l["output_color"], d["output_color"], x["output_color"])
  BY <1>6, IsPut, IsKept DEF r2
<1>9. /\ Runs(k, <<Ctx!Barrier(Fg!FgCmd, Fg!Image("input_mv"), "UNDEFINED", "GENERAL")>>, S(t1, i, r2),
              S(t1, i, r3))
      /\ At(k, m, t1, i, r3, NoSizes)
      /\ Rest(k, m, r3, NoSizes)
  <2>1. Fg!FgCmd \in m \cup t1
    BY <1>1 DEF t1
  <2> QED BY <1>7, <2>1, <1>8, <1>7, RestPutFg, Discard DEF r3
<1>10. /\ Is(r3, Fg!Image("input_color"), "GENERAL", FALSE, x["input_color"])
       /\ Is(r3, Fg!Image("input_depth"), "GENERAL", FALSE, x["input_depth"])
       /\ Is(r3, Fg!Image("input_mv"), "GENERAL", FALSE, x["input_mv"])
       /\ Is(r3, Fg!Image("dilated_depth"), l["dilated_depth"], d["dilated_depth"], x["dilated_depth"])
       /\ Is(r3, Fg!Image("dilated_mv"), l["dilated_mv"], d["dilated_mv"], x["dilated_mv"])
       /\ Is(r3, Fg!Image("optical_flow_vector"), l["optical_flow_vector"],
          d["optical_flow_vector"], x["optical_flow_vector"])
       /\ Is(r3, Fg!Image("optical_flow_scd"), l["optical_flow_scd"], d["optical_flow_scd"],
          x["optical_flow_scd"])
       /\ Is(r3, Fg!Image("output_color"), l["output_color"], d["output_color"], x["output_color"])
  BY <1>8, IsPut, IsKept DEF r3
<1>11. Runs(k, <<Ctx!Barrier(Fg!FgCmd, Fg!Image("input_color"), "UNDEFINED", "GENERAL")>> \o
       <<Ctx!Barrier(Fg!FgCmd, Fg!Image("input_depth"), "UNDEFINED", "GENERAL")>> \o
       <<Ctx!Barrier(Fg!FgCmd, Fg!Image("input_mv"), "UNDEFINED", "GENERAL")>>, S(t1, i, i),
               S(t1, i, r3))
  BY <1>5, <1>7, <1>9, Cat3
<1>12. Runs(k, Fg!InputBarriers, S(t1, i, i), S(t1, i, r3))
  <2>1. Fg!InputBarriers = <<Ctx!Barrier(Fg!FgCmd, Fg!Image("input_color"), "UNDEFINED", "GENERAL")>>
        \o <<Ctx!Barrier(Fg!FgCmd, Fg!Image("input_depth"), "UNDEFINED", "GENERAL")>>
        \o <<Ctx!Barrier(Fg!FgCmd, Fg!Image("input_mv"), "UNDEFINED", "GENERAL")>>
    BY DEF Fg!InputBarriers, Fg!Call, Ctx!Call, Fg!Barrier, Ctx!Barrier, Fg!cmd_barrier
  <2> QED BY <2>1, <1>11
<1>13. /\ Runs(k, <<Ctx!Barrier(Fg!FgCmd, Fg!Image("dilated_depth"), "UNDEFINED", "GENERAL")>>,
          S(t1, i, r3),
               S(t1, i, r4))
       /\ At(k, m, t1, i, r4, NoSizes)
       /\ Rest(k, m, r4, NoSizes)
  <2>1. Fg!FgCmd \in m \cup t1
    BY <1>1 DEF t1
  <2> QED BY <1>9, <2>1, <1>10, <1>9, RestPutFg, Discard DEF r4
<1>14. /\ Is(r4, Fg!Image("input_color"), "GENERAL", FALSE, x["input_color"])
       /\ Is(r4, Fg!Image("input_depth"), "GENERAL", FALSE, x["input_depth"])
       /\ Is(r4, Fg!Image("input_mv"), "GENERAL", FALSE, x["input_mv"])
       /\ Is(r4, Fg!Image("dilated_depth"), "GENERAL", FALSE, x["dilated_depth"])
       /\ Is(r4, Fg!Image("dilated_mv"), l["dilated_mv"], d["dilated_mv"], x["dilated_mv"])
       /\ Is(r4, Fg!Image("optical_flow_vector"), l["optical_flow_vector"],
          d["optical_flow_vector"], x["optical_flow_vector"])
       /\ Is(r4, Fg!Image("optical_flow_scd"), l["optical_flow_scd"], d["optical_flow_scd"],
          x["optical_flow_scd"])
       /\ Is(r4, Fg!Image("output_color"), l["output_color"], d["output_color"], x["output_color"])
  BY <1>10, IsPut, IsKept DEF r4
<1>15. /\ Runs(k, <<Ctx!Barrier(Fg!FgCmd, Fg!Image("dilated_mv"), "UNDEFINED", "GENERAL")>>, S(t1,
          i, r4),
               S(t1, i, r5))
       /\ At(k, m, t1, i, r5, NoSizes)
       /\ Rest(k, m, r5, NoSizes)
  <2>1. Fg!FgCmd \in m \cup t1
    BY <1>1 DEF t1
  <2> QED BY <1>13, <2>1, <1>14, <1>13, RestPutFg, Discard DEF r5
<1>16. /\ Is(r5, Fg!Image("input_color"), "GENERAL", FALSE, x["input_color"])
       /\ Is(r5, Fg!Image("input_depth"), "GENERAL", FALSE, x["input_depth"])
       /\ Is(r5, Fg!Image("input_mv"), "GENERAL", FALSE, x["input_mv"])
       /\ Is(r5, Fg!Image("dilated_depth"), "GENERAL", FALSE, x["dilated_depth"])
       /\ Is(r5, Fg!Image("dilated_mv"), "GENERAL", FALSE, x["dilated_mv"])
       /\ Is(r5, Fg!Image("optical_flow_vector"), l["optical_flow_vector"],
          d["optical_flow_vector"], x["optical_flow_vector"])
       /\ Is(r5, Fg!Image("optical_flow_scd"), l["optical_flow_scd"], d["optical_flow_scd"],
          x["optical_flow_scd"])
       /\ Is(r5, Fg!Image("output_color"), l["output_color"], d["output_color"], x["output_color"])
  BY <1>14, IsPut, IsKept DEF r5
<1>17. /\ Runs(k, <<Ctx!Barrier(Fg!FgCmd, Fg!Image("optical_flow_vector"), "UNDEFINED",
          "GENERAL")>>, S(t1, i, r5),
               S(t1, i, r6))
       /\ At(k, m, t1, i, r6, NoSizes)
       /\ Rest(k, m, r6, NoSizes)
  <2>1. Fg!FgCmd \in m \cup t1
    BY <1>1 DEF t1
  <2> QED BY <1>15, <2>1, <1>16, <1>15, RestPutFg, Discard DEF r6
<1>18. /\ Is(r6, Fg!Image("input_color"), "GENERAL", FALSE, x["input_color"])
       /\ Is(r6, Fg!Image("input_depth"), "GENERAL", FALSE, x["input_depth"])
       /\ Is(r6, Fg!Image("input_mv"), "GENERAL", FALSE, x["input_mv"])
       /\ Is(r6, Fg!Image("dilated_depth"), "GENERAL", FALSE, x["dilated_depth"])
       /\ Is(r6, Fg!Image("dilated_mv"), "GENERAL", FALSE, x["dilated_mv"])
       /\ Is(r6, Fg!Image("optical_flow_vector"), "GENERAL", FALSE, x["optical_flow_vector"])
       /\ Is(r6, Fg!Image("optical_flow_scd"), l["optical_flow_scd"], d["optical_flow_scd"],
          x["optical_flow_scd"])
       /\ Is(r6, Fg!Image("output_color"), l["output_color"], d["output_color"], x["output_color"])
  BY <1>16, IsPut, IsKept DEF r6
<1>19. /\ Runs(k, <<Ctx!Barrier(Fg!FgCmd, Fg!Image("optical_flow_scd"), "UNDEFINED", "GENERAL")>>,
          S(t1, i, r6),
               S(t1, i, r7))
       /\ At(k, m, t1, i, r7, NoSizes)
       /\ Rest(k, m, r7, NoSizes)
  <2>1. Fg!FgCmd \in m \cup t1
    BY <1>1 DEF t1
  <2> QED BY <1>17, <2>1, <1>18, <1>17, RestPutFg, Discard DEF r7
<1>20. /\ Is(r7, Fg!Image("input_color"), "GENERAL", FALSE, x["input_color"])
       /\ Is(r7, Fg!Image("input_depth"), "GENERAL", FALSE, x["input_depth"])
       /\ Is(r7, Fg!Image("input_mv"), "GENERAL", FALSE, x["input_mv"])
       /\ Is(r7, Fg!Image("dilated_depth"), "GENERAL", FALSE, x["dilated_depth"])
       /\ Is(r7, Fg!Image("dilated_mv"), "GENERAL", FALSE, x["dilated_mv"])
       /\ Is(r7, Fg!Image("optical_flow_vector"), "GENERAL", FALSE, x["optical_flow_vector"])
       /\ Is(r7, Fg!Image("optical_flow_scd"), "GENERAL", FALSE, x["optical_flow_scd"])
       /\ Is(r7, Fg!Image("output_color"), l["output_color"], d["output_color"], x["output_color"])
  BY <1>18, IsPut, IsKept DEF r7
<1>21. /\ Runs(k, <<Ctx!Barrier(Fg!FgCmd, Fg!Image("output_color"), "UNDEFINED", "GENERAL")>>,
          S(t1, i, r7),
               S(t1, i, r8))
       /\ At(k, m, t1, i, r8, NoSizes)
       /\ Rest(k, m, r8, NoSizes)
  <2>1. Fg!FgCmd \in m \cup t1
    BY <1>1 DEF t1
  <2> QED BY <1>19, <2>1, <1>20, <1>19, RestPutFg, Discard DEF r8
<1>22. /\ Is(r8, Fg!Image("input_color"), "GENERAL", FALSE, x["input_color"])
       /\ Is(r8, Fg!Image("input_depth"), "GENERAL", FALSE, x["input_depth"])
       /\ Is(r8, Fg!Image("input_mv"), "GENERAL", FALSE, x["input_mv"])
       /\ Is(r8, Fg!Image("dilated_depth"), "GENERAL", FALSE, x["dilated_depth"])
       /\ Is(r8, Fg!Image("dilated_mv"), "GENERAL", FALSE, x["dilated_mv"])
       /\ Is(r8, Fg!Image("optical_flow_vector"), "GENERAL", FALSE, x["optical_flow_vector"])
       /\ Is(r8, Fg!Image("optical_flow_scd"), "GENERAL", FALSE, x["optical_flow_scd"])
       /\ Is(r8, Fg!Image("output_color"), "GENERAL", FALSE, x["output_color"])
  BY <1>20, IsPut, IsKept DEF r8
<1>23. Runs(k, <<Ctx!Barrier(Fg!FgCmd, Fg!Image("dilated_depth"), "UNDEFINED", "GENERAL")>> \o
       <<Ctx!Barrier(Fg!FgCmd, Fg!Image("dilated_mv"), "UNDEFINED", "GENERAL")>> \o
       <<Ctx!Barrier(Fg!FgCmd, Fg!Image("optical_flow_vector"), "UNDEFINED", "GENERAL")>> \o
       <<Ctx!Barrier(Fg!FgCmd, Fg!Image("optical_flow_scd"), "UNDEFINED", "GENERAL")>> \o
       <<Ctx!Barrier(Fg!FgCmd, Fg!Image("output_color"), "UNDEFINED", "GENERAL")>>, S(t1, i, r3),
               S(t1, i, r8))
  BY <1>13, <1>15, <1>17, <1>19, <1>21, Cat5
<1>24. Runs(k, Fg!SharedBarriers, S(t1, i, r3), S(t1, i, r8))
  <2>1. Fg!SharedBarriers = <<Ctx!Barrier(Fg!FgCmd, Fg!Image("dilated_depth"), "UNDEFINED", "GENERAL")>>
        \o <<Ctx!Barrier(Fg!FgCmd, Fg!Image("dilated_mv"), "UNDEFINED", "GENERAL")>>
        \o <<Ctx!Barrier(Fg!FgCmd, Fg!Image("optical_flow_vector"), "UNDEFINED", "GENERAL")>>
        \o <<Ctx!Barrier(Fg!FgCmd, Fg!Image("optical_flow_scd"), "UNDEFINED", "GENERAL")>>
        \o <<Ctx!Barrier(Fg!FgCmd, Fg!Image("output_color"), "UNDEFINED", "GENERAL")>>
    BY DEF Fg!SharedBarriers, Fg!Call, Ctx!Call, Fg!Barrier, Ctx!Barrier, Fg!cmd_barrier
  <2> QED BY <2>1, <1>23
<1>25. /\ Runs(k, <<Ctx!Use({Fg!RecBuf})>>, S(t1, i, r8), S(t1, i, r8))
  <2>1. {Fg!RecBuf} \subseteq m \cup t1
    BY <1>1 DEF t1
  <2> QED BY <1>21, <2>1, Uses
<1>26. /\ Runs(k, <<Ctx!TryOr({Fg!FgCtx, Fg!FgCmd}, {Fg!FgCmd})>>, S(t1, i, r8), S(t1, i, r8))
  <2>1. /\ {Fg!FgCtx, Fg!FgCmd} \subseteq m \cup t1
        /\ {Fg!FgCmd} \subseteq t1
    BY <1>1 DEF t1
  <2> QED BY <1>21, <2>1, Tries
<1>27. /\ Runs(k, <<Ctx!Reads(Fg!FgCmd, {Fg!Image("input_depth"), Fg!Image("input_mv")},
          Ctx!ComputeRead, e)>>, S(t1, i, r8),
               S(t1, i, r8))
  <2>1. /\ Fg!FgCmd \in m \cup t1
        /\ \A h \in {Fg!Image("input_depth"), Fg!Image("input_mv")} : h \in DOMAIN r8 /\ Told(h,
           Ctx!ComputeRead, r8)
    BY <1>22, <1>1 DEF t1, Is, Pic, Told, Mistold, Native!Image
  <2> QED BY <1>21, <2>1, ReadAny
<1>28. /\ Runs(k, <<Ctx!Writes(Fg!FgCmd, Fg!Image("dilated_depth"), "GENERAL", e)>>, S(t1, i, r8),
               S(t1, i, r9))
       /\ At(k, m, t1, i, r9, NoSizes)
       /\ Rest(k, m, r9, NoSizes)
  <2>1. Fg!FgCmd \in m \cup t1
    BY <1>1 DEF t1
  <2> QED BY <1>21, <2>1, <1>22, <1>21, RestPutFg, Write DEF r9
<1>29. /\ Is(r9, Fg!Image("input_color"), "GENERAL", FALSE, x["input_color"])
       /\ Is(r9, Fg!Image("input_depth"), "GENERAL", FALSE, x["input_depth"])
       /\ Is(r9, Fg!Image("input_mv"), "GENERAL", FALSE, x["input_mv"])
       /\ Is(r9, Fg!Image("dilated_depth"), "GENERAL", TRUE, x["dilated_depth"])
       /\ Is(r9, Fg!Image("dilated_mv"), "GENERAL", FALSE, x["dilated_mv"])
       /\ Is(r9, Fg!Image("optical_flow_vector"), "GENERAL", FALSE, x["optical_flow_vector"])
       /\ Is(r9, Fg!Image("optical_flow_scd"), "GENERAL", FALSE, x["optical_flow_scd"])
       /\ Is(r9, Fg!Image("output_color"), "GENERAL", FALSE, x["output_color"])
  BY <1>22, IsPut, IsKept DEF r9
<1>30. /\ Runs(k, <<Ctx!Writes(Fg!FgCmd, Fg!Image("dilated_mv"), "GENERAL", e)>>, S(t1, i, r9),
               S(t1, i, r10))
       /\ At(k, m, t1, i, r10, NoSizes)
       /\ Rest(k, m, r10, NoSizes)
  <2>1. Fg!FgCmd \in m \cup t1
    BY <1>1 DEF t1
  <2> QED BY <1>28, <2>1, <1>29, <1>28, RestPutFg, Write DEF r10
<1>31. /\ Is(r10, Fg!Image("input_color"), "GENERAL", FALSE, x["input_color"])
       /\ Is(r10, Fg!Image("input_depth"), "GENERAL", FALSE, x["input_depth"])
       /\ Is(r10, Fg!Image("input_mv"), "GENERAL", FALSE, x["input_mv"])
       /\ Is(r10, Fg!Image("dilated_depth"), "GENERAL", TRUE, x["dilated_depth"])
       /\ Is(r10, Fg!Image("dilated_mv"), "GENERAL", TRUE, x["dilated_mv"])
       /\ Is(r10, Fg!Image("optical_flow_vector"), "GENERAL", FALSE, x["optical_flow_vector"])
       /\ Is(r10, Fg!Image("optical_flow_scd"), "GENERAL", FALSE, x["optical_flow_scd"])
       /\ Is(r10, Fg!Image("output_color"), "GENERAL", FALSE, x["output_color"])
  BY <1>29, IsPut, IsKept DEF r10
<1>32. Runs(k, <<Ctx!Use({Fg!RecBuf}), Ctx!TryOr({Fg!FgCtx, Fg!FgCmd}, {Fg!FgCmd}),
       Ctx!Reads(Fg!FgCmd, {Fg!Image("input_depth"), Fg!Image("input_mv")}, Ctx!ComputeRead, e),
       Ctx!Writes(Fg!FgCmd, Fg!Image("dilated_depth"), "GENERAL", e), Ctx!Writes(Fg!FgCmd,
       Fg!Image("dilated_mv"), "GENERAL", e)>>, S(t1, i, r8),
               S(t1, i, r10))
  BY <1>25, <1>26, <1>27, <1>28, <1>30, Calls5
<1>33. Runs(k, Fg!PreparePass(e), S(t1, i, r8), S(t1, i, r10))
  <2>1. Fg!PreparePass(e) = <<Ctx!Use({Fg!RecBuf}), Ctx!TryOr({Fg!FgCtx, Fg!FgCmd}, {Fg!FgCmd}),
        Ctx!Reads(Fg!FgCmd, {Fg!Image("input_depth"), Fg!Image("input_mv")}, Ctx!ComputeRead, e),
        Ctx!Writes(Fg!FgCmd, Fg!Image("dilated_depth"), "GENERAL", e), Ctx!Writes(Fg!FgCmd,
        Fg!Image("dilated_mv"), "GENERAL", e)>>
    BY DEF Fg!PreparePass, Fg!ComputeRead, Ctx!ComputeRead, Fg!UnorderedAccess, Fg!Call, Ctx!Call,
         Fg!TryOr, Ctx!TryOr, Fg!Use, Ctx!Use, Fg!Writes, Ctx!Writes, Fg!Reads, Ctx!Reads
  <2> QED BY <2>1, <1>32
<1>34. /\ Runs(k, <<Ctx!TryOr({Fg!FgCtx, Fg!FgCmd}, {Fg!FgCmd})>>, S(t1, i, r10), S(t1, i, r10))
  <2>1. /\ {Fg!FgCtx, Fg!FgCmd} \subseteq m \cup t1
        /\ {Fg!FgCmd} \subseteq t1
    BY <1>1 DEF t1
  <2> QED BY <1>30, <2>1, Tries
<1>35. /\ Runs(k, <<Ctx!Reads(Fg!FgCmd, {Fg!Image("input_color")}, Ctx!ComputeRead, e)>>, S(t1, i, r10),
               S(t1, i, r10))
  <2>1. /\ Fg!FgCmd \in m \cup t1
        /\ \A h \in {Fg!Image("input_color")} : h \in DOMAIN r10 /\ Told(h, Ctx!ComputeRead, r10)
    BY <1>31, <1>1 DEF t1, Is, Pic, Told, Mistold, Native!Image
  <2> QED BY <1>30, <2>1, ReadAny
<1>36. /\ Runs(k, <<Ctx!Writes(Fg!FgCmd, Fg!Image("output_color"), "GENERAL", v)>>, S(t1, i, r10),
               S(t1, i, r11))
       /\ At(k, m, t1, i, r11, NoSizes)
       /\ Rest(k, m, r11, NoSizes)
  <2>1. Fg!FgCmd \in m \cup t1
    BY <1>1 DEF t1
  <2> QED BY <1>30, <2>1, <1>31, <1>30, RestPutFg, Write DEF r11
<1>37. /\ Is(r11, Fg!Image("input_color"), "GENERAL", FALSE, x["input_color"])
       /\ Is(r11, Fg!Image("input_depth"), "GENERAL", FALSE, x["input_depth"])
       /\ Is(r11, Fg!Image("input_mv"), "GENERAL", FALSE, x["input_mv"])
       /\ Is(r11, Fg!Image("dilated_depth"), "GENERAL", TRUE, x["dilated_depth"])
       /\ Is(r11, Fg!Image("dilated_mv"), "GENERAL", TRUE, x["dilated_mv"])
       /\ Is(r11, Fg!Image("optical_flow_vector"), "GENERAL", FALSE, x["optical_flow_vector"])
       /\ Is(r11, Fg!Image("optical_flow_scd"), "GENERAL", FALSE, x["optical_flow_scd"])
       /\ Is(r11, Fg!Image("output_color"), "GENERAL", TRUE, x["output_color"])
  BY <1>31, IsPut, IsKept DEF r11
<1>38. Runs(k, <<Ctx!TryOr({Fg!FgCtx, Fg!FgCmd}, {Fg!FgCmd}), Ctx!Reads(Fg!FgCmd,
       {Fg!Image("input_color")}, Ctx!ComputeRead, e), Ctx!Writes(Fg!FgCmd,
       Fg!Image("output_color"), "GENERAL", v)>>, S(t1, i, r10),
               S(t1, i, r11))
  BY <1>34, <1>35, <1>36, Calls3
<1>39. Runs(k, Fg!DispatchPass(e, v), S(t1, i, r10), S(t1, i, r11))
  <2>1. Fg!DispatchPass(e, v) = <<Ctx!TryOr({Fg!FgCtx, Fg!FgCmd}, {Fg!FgCmd}), Ctx!Reads(Fg!FgCmd,
        {Fg!Image("input_color")}, Ctx!ComputeRead, e), Ctx!Writes(Fg!FgCmd,
        Fg!Image("output_color"), "GENERAL", v)>>
    BY DEF Fg!DispatchPass, Fg!ComputeRead, Ctx!ComputeRead, Fg!UnorderedAccess, Fg!Call, Ctx!Call,
         Fg!TryOr, Ctx!TryOr, Fg!Writes, Ctx!Writes, Fg!Reads, Ctx!Reads
  <2> QED BY <2>1, <1>38
<1>40. /\ Runs(k, <<Ctx!Barrier(Fg!FgCmd, Fg!Image("output_color"), "GENERAL", "TRANSFER_SRC")>>,
          S(t1, i, r11),
               S(t1, i, r12))
       /\ At(k, m, t1, i, r12, NoSizes)
       /\ Rest(k, m, r12, NoSizes)
  <2>1. Fg!FgCmd \in m \cup t1
    BY <1>1 DEF t1
  <2> QED BY <1>36, <2>1, <1>37, <1>36, RestPutFg, Transition DEF r12
<1>41. /\ Is(r12, Fg!Image("input_color"), "GENERAL", FALSE, x["input_color"])
       /\ Is(r12, Fg!Image("input_depth"), "GENERAL", FALSE, x["input_depth"])
       /\ Is(r12, Fg!Image("input_mv"), "GENERAL", FALSE, x["input_mv"])
       /\ Is(r12, Fg!Image("dilated_depth"), "GENERAL", TRUE, x["dilated_depth"])
       /\ Is(r12, Fg!Image("dilated_mv"), "GENERAL", TRUE, x["dilated_mv"])
       /\ Is(r12, Fg!Image("optical_flow_vector"), "GENERAL", FALSE, x["optical_flow_vector"])
       /\ Is(r12, Fg!Image("optical_flow_scd"), "GENERAL", FALSE, x["optical_flow_scd"])
       /\ Is(r12, Fg!Image("output_color"), "TRANSFER_SRC", TRUE, x["output_color"])
  BY <1>37, IsPut, IsKept DEF r12
<1>42. /\ Runs(k, <<Ctx!Use({Fg!StagingBuf})>>, S(t1, i, r12), S(t1, i, r12))
  <2>1. {Fg!StagingBuf} \subseteq m \cup t1
    BY <1>1 DEF t1
  <2> QED BY <1>40, <2>1, Uses
<1>43. /\ Runs(k, <<Ctx!Reads(Fg!FgCmd, {Fg!Image("output_color")}, "TRANSFER_SRC", v)>>, S(t1, i, r12),
               S(t1, i, r12))
  <2>1. /\ Fg!FgCmd \in m \cup t1
        /\ \A h \in {Fg!Image("output_color")} : h \in DOMAIN r12 /\ "TRANSFER_SRC" = r12[h].layout
    BY <1>41, <1>1 DEF t1, Is, Pic
  <2> QED BY <1>40, <2>1, ReadAny
<1>44. /\ Runs(k, <<Ctx!Try({Fg!FgCmd})>>, S(t1, i, r12), S(t1, i, r12))
  <2>1. {Fg!FgCmd} \subseteq m \cup t1
    BY <1>1 DEF t1
  <2> QED BY <1>40, <2>1, Tries0
<1>45. Runs(k, <<Ctx!Use({Fg!StagingBuf}), Ctx!Reads(Fg!FgCmd, {Fg!Image("output_color")},
       "TRANSFER_SRC", v), Ctx!Try({Fg!FgCmd})>>, S(t1, i, r12),
               S(t1, i, r12))
  BY <1>42, <1>43, <1>44, Calls3
<1>46. /\ Runs(k, Ctx!submit_and_wait(Fg!FgCmd), S(t1, i, r12), S(t1, r12, <<>>))
       /\ At(k, m, t1, r12, <<>>, NoSizes)
  <2>1. /\ Fg!FgCmd \in m \cup t1
        /\ Plain(m, t1, <<"fence">>)
    BY <1>1 DEF Plain, Fresh, DpbImages, H264!DpbImage, External, t1
  <2> QED BY <1>40, <2>1, <1>40, SubmitAndWait
<1>47. /\ Runs(k, <<Ctx!Free(Fg!FgCmd)>>, S(t1, r12, <<>>), S({}, i1, <<>>))
       /\ At(k, m, {}, i1, <<>>, NoSizes)
  <2>1. Fg!FgCmd \in t1 /\ Fg!FgCmd \notin m /\ t1 \ {Fg!FgCmd} = {}
    BY <1>1 DEF t1
  <2>2. Childless(k, m, t1, {Fg!FgCmd})
    BY Barren1, BarrenChildless
  <2>3. /\ Runs(k, <<Ctx!Free(Fg!FgCmd)>>, S(t1, r12, <<>>),
                S(t1 \ {Fg!FgCmd}, Without(r12, {Fg!FgCmd}), <<>>))
        /\ At(k, m, t1 \ {Fg!FgCmd}, Without(r12, {Fg!FgCmd}), <<>>, NoSizes)
    BY <1>46, <2>1, <2>2, FreeTemp
  <2> QED BY <2>1, <2>3 DEF i1
<1>48. /\ Runs(k, <<Ctx!Try({Fg!StagingBufMem})>>, S({}, i1, <<>>), S({}, i1, <<>>))
  <2>1. {Fg!StagingBufMem} \subseteq m \cup {}
    BY <1>1
  <2> QED BY <1>47, <2>1, Tries0
<1>49. Runs(k, <<Ctx!Barrier(Fg!FgCmd, Fg!Image("output_color"), "GENERAL", "TRANSFER_SRC")>> \o
       <<Ctx!Use({Fg!StagingBuf}), Ctx!Reads(Fg!FgCmd, {Fg!Image("output_color")}, "TRANSFER_SRC",
       v), Ctx!Try({Fg!FgCmd})>> \o Ctx!submit_and_wait(Fg!FgCmd) \o <<Ctx!Free(Fg!FgCmd)>> \o
       <<Ctx!Try({Fg!StagingBufMem})>>, S(t1, i, r11),
               S({}, i1, <<>>))
  BY <1>40, <1>45, <1>46, <1>47, <1>48, Cat5
<1>50. Runs(k, Fg!ReadOutput(v), S(t1, i, r11), S({}, i1, <<>>))
  <2>1. Fg!ReadOutput(v) = <<Ctx!Barrier(Fg!FgCmd, Fg!Image("output_color"), "GENERAL",
        "TRANSFER_SRC")>>
        \o <<Ctx!Use({Fg!StagingBuf}), Ctx!Reads(Fg!FgCmd, {Fg!Image("output_color")},
        "TRANSFER_SRC", v), Ctx!Try({Fg!FgCmd})>>
        \o Ctx!submit_and_wait(Fg!FgCmd)
        \o <<Ctx!Free(Fg!FgCmd)>>
        \o <<Ctx!Try({Fg!StagingBufMem})>>
    BY DEF Fg!ReadOutput, Fg!read_rgba16f_to_rgba8, Fg!Call, Ctx!Call, Fg!MakeOr, Ctx!MakeOr,
         Fg!Make, Ctx!Make, Fg!TryOr, Ctx!TryOr, Fg!Try, Ctx!Try, Fg!Use, Ctx!Use, Fg!FreeWith,
         Ctx!FreeWith, Fg!Free, Ctx!Free, Fg!Barrier, Ctx!Barrier, Fg!Reads, Ctx!Reads,
         Fg!SubmitOr, Ctx!SubmitOr, Fg!Device, Ctx!Device, Fg!submit_and_wait, Ctx!submit_and_wait,
         Fg!cmd_barrier
  <2> QED BY <2>1, <1>49
<1>51. Runs(k, Fg!allocate_command_buffer(Fg!FgCmd), S({}, i, <<>>), S(t1, i, <<>>))
  <2>1. Fg!allocate_command_buffer(Fg!FgCmd) = Ctx!allocate_command_buffer(Fg!FgCmd)
    BY DEF Fg!allocate_command_buffer, Ctx!allocate_command_buffer, Fg!Call, Ctx!Call, Fg!MakeOr,
         Ctx!MakeOr, Fg!Make, Ctx!Make, Fg!CommandPool, Ctx!CommandPool,
         Fg!allocate_command_buffer, Ctx!allocate_command_buffer
  <2> QED BY <2>1, <1>3
<1>52. Runs(k, <<Fg!Begin(Fg!FgCmd)>>, S(t1, i, <<>>), S(t1, i, i))
  <2>1. <<Fg!Begin(Fg!FgCmd)>> = <<Ctx!Begin(Fg!FgCmd)>>
    BY DEF Fg!Call, Ctx!Call, Fg!Begin, Ctx!Begin
  <2> QED BY <2>1, <1>4
<1> QED BY <1>47, <1>51, <1>52, <1>12, <1>24, <1>33, <1>39, <1>50

\* At rest, every image of the frame generator is some picture.
LEMMA FgPictures ==
  ASSUME NEW k, NEW m, NEW i, k.comp = "fsr3", k.phase = "call",
         At(k, m, {}, i, <<>>, NoSizes)
  PROVE  \E l, d, x : \A n \in Fg!Images : Is(i, Fg!Image(n), l[n], d[n], x[n])
<1>1. \A n \in Fg!Images : Fg!Image(n) \in DOMAIN i
  BY DEF At, Sound, Rest, Ready
<1>2. \A h \in DOMAIN i : i[h] = Pic(i[h].layout, i[h].defined, i[h].extent)
  BY DEF At, Sound, Shape, Pics, IsPic
<1> DEFINE l == [n \in Fg!Images |-> i[Fg!Image(n)].layout]
           d == [n \in Fg!Images |-> i[Fg!Image(n)].defined]
           x == [n \in Fg!Images |-> i[Fg!Image(n)].extent]
<1>3. \A n \in Fg!Images : Is(i, Fg!Image(n), l[n], d[n], x[n])
  BY <1>1, <1>2 DEF Is
<1> HIDE DEF l, d, x
<1> QED BY <1>3

\* Fsr3FrameGen::generate_frame: three images filled, one dispatch, and what the
\* generator holds is what it held.
LEMMA GenerateFrameRuns ==
  ASSUME NEW k, NEW m, NEW i, NEW f, NEW e, NEW v,
         m = Ctx!Fields \cup Fg!FrameGenFields, k.comp = "fsr3", k.phase = "call",
         At(k, m, {}, i, <<>>, NoSizes)
  PROVE  \E j : /\ Runs(k, Fg!generate_frame(f, e, v), St(m, {}, i, <<>>, NoSizes),
                        St(m, {}, j, <<>>, NoSizes))
                /\ At(k, m, {}, j, <<>>, NoSizes)
<1> DEFINE S(tt, ii, rr) == St(m, tt, ii, rr, NoSizes)
<1>1. ASSUME NEW n \in {"input_color", "input_depth", "input_mv"}, NEW i1, NEW e1,
             At(k, m, {}, i1, <<>>, NoSizes)
      PROVE  \E j : /\ Runs(k, Fg!FillImage(n, e1), S({}, i1, <<>>), S({}, j, <<>>))
                    /\ At(k, m, {}, j, <<>>, NoSizes)
  <2>1. \E l, d, x : \A g \in Fg!Images : Is(i1, Fg!Image(g), l[g], d[g], x[g])
    BY <1>1, FgPictures
  <2>2. n \in Fg!Images
    BY FgImagesAre
  <2>3. PICK l, d, x : Is(i1, Fg!Image(n), l, d, x)
    BY <2>1, <2>2
  <2> QED BY <1>1, <2>3, FillRuns
<1>2. PICK i1 : /\ Runs(k, Fg!FillImage("input_color", f), S({}, i, <<>>), S({}, i1, <<>>))
                /\ At(k, m, {}, i1, <<>>, NoSizes)
  BY <1>1
<1>3. PICK i2 : /\ Runs(k, Fg!FillImage("input_depth", e), S({}, i1, <<>>), S({}, i2, <<>>))
                /\ At(k, m, {}, i2, <<>>, NoSizes)
  BY <1>1, <1>2
<1>4. PICK i3 : /\ Runs(k, Fg!FillImage("input_mv", e), S({}, i2, <<>>), S({}, i3, <<>>))
                /\ At(k, m, {}, i3, <<>>, NoSizes)
  BY <1>1, <1>3
<1> DEFINE s0 == <<Ctx!Try({})>>
           s1 == Fg!FillImage("input_color", f)
           s2 == Fg!FillImage("input_depth", e)
           s3 == Fg!FillImage("input_mv", e)
           a == Fg!allocate_command_buffer(Fg!FgCmd)
           b == <<Fg!Begin(Fg!FgCmd)>>
           p1 == Fg!InputBarriers
           p2 == Fg!SharedBarriers
           p3 == Fg!PreparePass(e)
           p4 == Fg!DispatchPass(e, v)
           p5 == Fg!ReadOutput(v)
<1>5. PICK j, y1, y2, y3, y4, y5, y6 :
        /\ Runs(k, a, S({}, i3, <<>>), y1)
        /\ Runs(k, b, y1, y2) /\ Runs(k, p1, y2, y3) /\ Runs(k, p2, y3, y4)
        /\ Runs(k, p3, y4, y5) /\ Runs(k, p4, y5, y6)
        /\ Runs(k, p5, y6, S({}, j, <<>>))
        /\ At(k, m, {}, j, <<>>, NoSizes)
  <2>1. PICK l, d, x : \A n \in Fg!Images : Is(i3, Fg!Image(n), l[n], d[n], x[n])
    BY <1>4, FgPictures
  <2> QED BY <1>4, <2>1, DispatchRuns
<1>6. Runs(k, s0, S({}, i, <<>>), S({}, i, <<>>))
  BY Tries0
<1>7. Fg!generate_frame(f, e, v)
        = s0 \o s1 \o s2 \o s3 \o a \o b \o p1 \o p2 \o p3 \o p4 \o p5
  BY DEF Fg!generate_frame, Fg!upload_rgba8_to_rgba16f, Fg!fill_depth_far, Fg!fill_mv_zero,
         Fg!Try, Ctx!Try, Fg!TryOr, Ctx!TryOr, Fg!Call, Ctx!Call
<1> HIDE DEF s0, s1, s2, s3, a, b, p1, p2, p3, p4, p5
<1>8. Runs(k, s0 \o s1 \o s2 \o s3 \o a \o b, S({}, i, <<>>), y2)
  BY <1>2, <1>3, <1>4, <1>5, <1>6, Cat6 DEF s1, s2, s3
<1>9. Runs(k, s0 \o s1 \o s2 \o s3 \o a \o b \o p1 \o p2 \o p3 \o p4 \o p5,
           S({}, i, <<>>), S({}, j, <<>>))
  BY <1>5, <1>8, Cat6
<1> QED BY <1>5, <1>7, <1>9

\* Its Drop destroys the SDK's context and nothing else.
LEMMA DropFrameGenRuns ==
  ASSUME NEW k, NEW m, NEW i, NEW c, k.comp = "fsr3", Fg!FgCtx \in m
  PROVE  Runs(k, Fg!drop_frame_gen, St(m, {}, i, <<>>, c),
              St(m \ {Fg!FgCtx}, {}, Without(i, {Fg!FgCtx}), <<>>, c))
<1>1. Childless(k, m, {}, {Fg!FgCtx})
  BY DEF Childless
<1>2. Runs(k, <<Ctx!Free(Fg!FgCtx)>>, St(m, {}, i, <<>>, c),
           St(m \ {Fg!FgCtx}, {} \ {Fg!FgCtx}, Without(i, {Fg!FgCtx}), <<>>, c))
  BY <1>1, FreeRuns
<1>3. Fg!drop_frame_gen = <<Ctx!Free(Fg!FgCtx)>> /\ {} \ {Fg!FgCtx} = {}
  BY DEF Fg!drop_frame_gen, Fg!Free, Fg!FreeWith, Fg!Call, Ctx!Free, Ctx!FreeWith, Ctx!Call
<1> QED BY <1>2, <1>3

-----------------------------------------------------------------------------
(* The encoders *)

\* The handles of an encoder but for its views, listed.
LEMMA EncoderFieldsAre ==
  H264!Fields =
    {<<"session_memory", 0>>, <<"session_memory", 1>>, H264!Session,
     H264!SessionParams, H264!OutBuffer, H264!OutMemory,
     H264!QueryPool, H264!CmdPool, H264!Cmd,
     H264!Fence, H264!DpbImage(0), H264!DpbMemory(0),
     H264!DpbView(0), H264!DpbImage(1), H264!DpbMemory(1),
     H264!DpbView(1)}
<1>1. 0 .. 1 = {0, 1}
  OBVIOUS
<1>2. UNION {{H264!DpbImage(s), H264!DpbMemory(s), H264!DpbView(s)} : s \in 0 .. 1}
        = {H264!DpbImage(0), H264!DpbMemory(0), H264!DpbView(0),
           H264!DpbImage(1), H264!DpbMemory(1), H264!DpbView(1)}
  BY <1>1
<1> QED BY <1>2 DEF H264!Fields, H264!DPB_SLOTS, H264!SessionMemory

\* The two reference slots are two images.
LEMMA DpbApart ==
  H264!DpbImage(0) # H264!DpbImage(1)
  BY DEF H264!DpbImage

\* Submit, in a component that has its context.
LEMMA Submits ==
  ASSUME NEW k, NEW m, NEW t, NEW i, NEW r, NEW c, NEW cmd, NEW fence,
         At(k, m, t, i, r, c), Rest(k, m, r, c), {cmd, fence} \subseteq m \cup t
  PROVE  /\ Runs(k, <<Ctx!Submit(cmd, fence)>>, St(m, t, i, r, c), St(m, t, r, <<>>, c))
         /\ At(k, m, t, r, <<>>, c)
  BY SubmitRuns DEF At, Ctx!Submit

\* The image of a reference slot is made without an extent.
LEMMA MakeDpbImage ==
  ASSUME NEW k, NEW m, NEW t, NEW i, NEW r, NEW c, NEW h,
         At(k, m, t, i, r, c), Fresh(m, t, h), h \in DpbImages
  PROVE  /\ Runs(k, <<Ctx!MakeImage(h, 0)>>, St(m, t, i, r, c),
                 St(m, t \cup {h}, Put(i, h, Pic("UNDEFINED", FALSE, 0)), r, c))
         /\ At(k, m, t \cup {h}, Put(i, h, Pic("UNDEFINED", FALSE, 0)), r, c)
<1>1. Origin(h, Ctx!Device) /\ Ctx!Device \in m \cup t
  BY MadeFromDevice DEF At, Ctx!Fields
<1> QED BY <1>1, MakeImageRuns DEF At

\* H264Encoder::new keeps everything it makes but the two command buffers and the
\* fences of its one-shot submissions, and leaves the reference slots in the layout
\* the encoder reads them in.
LEMMA EncoderNewRuns ==
  ASSUME NEW k, NEW i, At(k, Ctx!Fields, {}, i, <<>>, NoSizes)
  PROVE  \E j, d, e : /\ Runs(k, H264!new, St(Ctx!Fields, {}, i, <<>>, NoSizes),
                              St(Ctx!Fields \cup H264!Fields, {}, j, <<>>, NoSizes))
                      /\ Shape(Ctx!Fields \cup H264!Fields, {}, j, <<>>)
                      /\ Is(j, H264!DpbImage(0), "VIDEO_ENCODE_DPB", d, e)
                      /\ Is(j, H264!DpbImage(1), "VIDEO_ENCODE_DPB", d, e)
<1> DEFINE S(tt, ii, rr) == St(Ctx!Fields, tt, ii, rr, NoSizes)
<1> USE DEF Ctx!Instance, Ctx!Device, Ctx!CommandPool, H264!Session, H264!SessionParams, H264!OutBuffer,
           H264!OutMemory, H264!QueryPool, H264!CmdPool, H264!Cmd, H264!Fence, H264!DpbImage,
           H264!DpbMemory, H264!DpbView, H264!InputView, Ctx!Fields
<1> DEFINE t1 == {H264!Session}
           t2 == {H264!Session, <<"session_memory", 0>>}
           t3 == {H264!Session, <<"session_memory", 0>>, <<"session_memory", 1>>}
           t4 == {H264!Session, <<"session_memory", 0>>, <<"session_memory", 1>>, H264!SessionParams}
           t5 == {H264!Session, <<"session_memory", 0>>, <<"session_memory", 1>>,
            H264!SessionParams, H264!DpbImage(0)}
           i1 == Put(i, H264!DpbImage(0), Pic("UNDEFINED", FALSE, 0))
           t6 == {H264!Session, <<"session_memory", 0>>, <<"session_memory", 1>>,
            H264!SessionParams, H264!DpbImage(0), H264!DpbMemory(0)}
           t7 == {H264!Session, <<"session_memory", 0>>, <<"session_memory", 1>>,
            H264!SessionParams, H264!DpbImage(0), H264!DpbMemory(0), H264!DpbView(0)}
           t8 == {H264!Session, <<"session_memory", 0>>, <<"session_memory", 1>>,
            H264!SessionParams, H264!DpbImage(0), H264!DpbMemory(0), H264!DpbView(0), H264!DpbImage(1)}
           i2 == Put(i1, H264!DpbImage(1), Pic("UNDEFINED", FALSE, 0))
           t9 == {H264!Session, <<"session_memory", 0>>, <<"session_memory", 1>>,
            H264!SessionParams, H264!DpbImage(0), H264!DpbMemory(0), H264!DpbView(0),
            H264!DpbImage(1), H264!DpbMemory(1)}
           t10 == {H264!Session, <<"session_memory", 0>>, <<"session_memory", 1>>,
            H264!SessionParams, H264!DpbImage(0), H264!DpbMemory(0), H264!DpbView(0),
            H264!DpbImage(1), H264!DpbMemory(1), H264!DpbView(1)}
           t11 == {H264!Session, <<"session_memory", 0>>, <<"session_memory", 1>>,
            H264!SessionParams, H264!DpbImage(0), H264!DpbMemory(0), H264!DpbView(0),
            H264!DpbImage(1), H264!DpbMemory(1), H264!DpbView(1), H264!OutBuffer}
           t12 == {H264!Session, <<"session_memory", 0>>, <<"session_memory", 1>>,
            H264!SessionParams, H264!DpbImage(0), H264!DpbMemory(0), H264!DpbView(0),
            H264!DpbImage(1), H264!DpbMemory(1), H264!DpbView(1), H264!OutBuffer, H264!OutMemory}
           t13 == {H264!Session, <<"session_memory", 0>>, <<"session_memory", 1>>,
            H264!SessionParams, H264!DpbImage(0), H264!DpbMemory(0), H264!DpbView(0),
            H264!DpbImage(1), H264!DpbMemory(1), H264!DpbView(1), H264!OutBuffer, H264!OutMemory,
            H264!QueryPool}
           t14 == {H264!Session, <<"session_memory", 0>>, <<"session_memory", 1>>,
            H264!SessionParams, H264!DpbImage(0), H264!DpbMemory(0), H264!DpbView(0),
            H264!DpbImage(1), H264!DpbMemory(1), H264!DpbView(1), H264!OutBuffer, H264!OutMemory,
            H264!QueryPool, H264!CmdPool}
           t15 == {H264!Session, <<"session_memory", 0>>, <<"session_memory", 1>>,
            H264!SessionParams, H264!DpbImage(0), H264!DpbMemory(0), H264!DpbView(0),
            H264!DpbImage(1), H264!DpbMemory(1), H264!DpbView(1), H264!OutBuffer, H264!OutMemory,
            H264!QueryPool, H264!CmdPool, H264!Cmd}
           t16 == {H264!Session, <<"session_memory", 0>>, <<"session_memory", 1>>,
            H264!SessionParams, H264!DpbImage(0), H264!DpbMemory(0), H264!DpbView(0),
            H264!DpbImage(1), H264!DpbMemory(1), H264!DpbView(1), H264!OutBuffer, H264!OutMemory,
            H264!QueryPool, H264!CmdPool, H264!Cmd, H264!Fence}
           t17 == {H264!Session, <<"session_memory", 0>>, <<"session_memory", 1>>,
            H264!SessionParams, H264!DpbImage(0), H264!DpbMemory(0), H264!DpbView(0),
            H264!DpbImage(1), H264!DpbMemory(1), H264!DpbView(1), H264!OutBuffer, H264!OutMemory,
            H264!QueryPool, H264!CmdPool, H264!Cmd, H264!Fence, <<"init_cmd">>}
           r1 == Put(i2, H264!DpbImage(0), Pic("VIDEO_ENCODE_DPB", FALSE, 0))
           r2 == Put(r1, H264!DpbImage(1), Pic("VIDEO_ENCODE_DPB", FALSE, 0))
           t18 == {H264!Session, <<"session_memory", 0>>, <<"session_memory", 1>>,
            H264!SessionParams, H264!DpbImage(0), H264!DpbMemory(0), H264!DpbView(0),
            H264!DpbImage(1), H264!DpbMemory(1), H264!DpbView(1), H264!OutBuffer, H264!OutMemory,
            H264!QueryPool, H264!CmdPool, H264!Cmd, H264!Fence, <<"init_cmd">>, <<"init_fence">>}
           t19 == {H264!Session, <<"session_memory", 0>>, <<"session_memory", 1>>,
            H264!SessionParams, H264!DpbImage(0), H264!DpbMemory(0), H264!DpbView(0),
            H264!DpbImage(1), H264!DpbMemory(1), H264!DpbView(1), H264!OutBuffer, H264!OutMemory,
            H264!QueryPool, H264!CmdPool, H264!Cmd, H264!Fence, <<"init_cmd">>}
           i3 == Without(r2, {<<"init_fence">>})
           t20 == {H264!Session, <<"session_memory", 0>>, <<"session_memory", 1>>,
            H264!SessionParams, H264!DpbImage(0), H264!DpbMemory(0), H264!DpbView(0),
            H264!DpbImage(1), H264!DpbMemory(1), H264!DpbView(1), H264!OutBuffer, H264!OutMemory,
            H264!QueryPool, H264!CmdPool, H264!Cmd, H264!Fence}
           i4 == Without(i3, {<<"init_cmd">>})
           t21 == {H264!Session, <<"session_memory", 0>>, <<"session_memory", 1>>,
            H264!SessionParams, H264!DpbImage(0), H264!DpbMemory(0), H264!DpbView(0),
            H264!DpbImage(1), H264!DpbMemory(1), H264!DpbView(1), H264!OutBuffer, H264!OutMemory,
            H264!QueryPool, H264!CmdPool, H264!Cmd, H264!Fence, <<"rc_cmd">>}
           t22 == {H264!Session, <<"session_memory", 0>>, <<"session_memory", 1>>,
            H264!SessionParams, H264!DpbImage(0), H264!DpbMemory(0), H264!DpbView(0),
            H264!DpbImage(1), H264!DpbMemory(1), H264!DpbView(1), H264!OutBuffer, H264!OutMemory,
            H264!QueryPool, H264!CmdPool, H264!Cmd, H264!Fence, <<"rc_cmd">>, <<"rc_fence">>}
           t23 == {H264!Session, <<"session_memory", 0>>, <<"session_memory", 1>>,
            H264!SessionParams, H264!DpbImage(0), H264!DpbMemory(0), H264!DpbView(0),
            H264!DpbImage(1), H264!DpbMemory(1), H264!DpbView(1), H264!OutBuffer, H264!OutMemory,
            H264!QueryPool, H264!CmdPool, H264!Cmd, H264!Fence, <<"rc_cmd">>}
           i5 == Without(i4, {<<"rc_fence">>})
           t24 == {H264!Session, <<"session_memory", 0>>, <<"session_memory", 1>>,
            H264!SessionParams, H264!DpbImage(0), H264!DpbMemory(0), H264!DpbView(0),
            H264!DpbImage(1), H264!DpbMemory(1), H264!DpbView(1), H264!OutBuffer, H264!OutMemory,
            H264!QueryPool, H264!CmdPool, H264!Cmd, H264!Fence}
           i6 == Without(i5, {<<"rc_cmd">>})
<1> HIDE DEF t1, t2, t3, t4, t5, i1, t6, t7, t8, i2, t9, t10, t11, t12, t13, t14, t15, t16, t17,
            r1, r2, t18, t19, i3, t20, i4, t21, t22, t23, i5, t24, i6
<1>1. /\ Runs(k, <<Ctx!Try({})>>, S({}, i, <<>>), S({}, i, <<>>))
  <2>1. {} \subseteq Ctx!Fields \cup {}
    OBVIOUS
  <2> QED BY <2>1, Tries0
<1>2. /\ Runs(k, <<Ctx!Try({Ctx!Device})>>, S({}, i, <<>>), S({}, i, <<>>))
  <2>1. {Ctx!Device} \subseteq Ctx!Fields \cup {}
    OBVIOUS
  <2> QED BY <2>1, Tries0
<1>3. /\ Runs(k, <<Ctx!Try({})>>, S({}, i, <<>>), S({}, i, <<>>))
  <2>1. {} \subseteq Ctx!Fields \cup {}
    OBVIOUS
  <2> QED BY <2>1, Tries0
<1>4. /\ Runs(k, <<Ctx!Try({})>>, S({}, i, <<>>), S({}, i, <<>>))
  <2>1. {} \subseteq Ctx!Fields \cup {}
    OBVIOUS
  <2> QED BY <2>1, Tries0
<1>5. /\ Runs(k, <<Ctx!Make(H264!Session, {Ctx!Device})>>, S({}, i, <<>>), S(t1, i, <<>>))
      /\ At(k, Ctx!Fields, t1, i, <<>>, NoSizes)
  <2>1. Plain(Ctx!Fields, {}, H264!Session)
    BY DEF Plain, Fresh, DpbImages, H264!DpbImage, External, t1
  <2>2. t1 = {} \cup {H264!Session}
    BY DEF t1
  <2> QED BY <2>1, <2>2, MakePlain0
<1>6. Runs(k, <<Ctx!Try({}), Ctx!Try({Ctx!Device}), Ctx!Try({}), Ctx!Try({}),
      Ctx!Make(H264!Session, {Ctx!Device})>>, S({}, i, <<>>),
              S(t1, i, <<>>))
  BY <1>1, <1>2, <1>3, <1>4, <1>5, Calls5
<1>7. /\ Runs(k, <<Ctx!Try({H264!Session})>>, S(t1, i, <<>>), S(t1, i, <<>>))
  <2>1. {H264!Session} \subseteq Ctx!Fields \cup t1
    BY DEF t1
  <2> QED BY <1>5, <2>1, Tries0
<1>8. /\ Runs(k, <<Ctx!Try({H264!Session})>>, S(t1, i, <<>>), S(t1, i, <<>>))
  <2>1. {H264!Session} \subseteq Ctx!Fields \cup t1
    BY DEF t1
  <2> QED BY <1>5, <2>1, Tries0
<1>9. /\ Runs(k, <<Ctx!Try({})>>, S(t1, i, <<>>), S(t1, i, <<>>))
  <2>1. {} \subseteq Ctx!Fields \cup t1
    BY DEF t1
  <2> QED BY <1>5, <2>1, Tries0
<1>10. /\ Runs(k, <<Ctx!Make(<<"session_memory", 0>>, {Ctx!Device})>>, S(t1, i, <<>>), S(t2, i, <<>>))
       /\ At(k, Ctx!Fields, t2, i, <<>>, NoSizes)
  <2>1. Plain(Ctx!Fields, t1, <<"session_memory", 0>>)
    BY DEF Plain, Fresh, DpbImages, H264!DpbImage, External, t1, t2
  <2>2. t2 = t1 \cup {<<"session_memory", 0>>}
    BY DEF t1, t2
  <2> QED BY <1>5, <2>1, <2>2, MakePlain0
<1>11. /\ Runs(k, <<Ctx!Try({})>>, S(t2, i, <<>>), S(t2, i, <<>>))
  <2>1. {} \subseteq Ctx!Fields \cup t2
    BY DEF t2
  <2> QED BY <1>10, <2>1, Tries0
<1>12. /\ Runs(k, <<Ctx!Make(<<"session_memory", 1>>, {Ctx!Device})>>, S(t2, i, <<>>), S(t3, i, <<>>))
       /\ At(k, Ctx!Fields, t3, i, <<>>, NoSizes)
  <2>1. Plain(Ctx!Fields, t2, <<"session_memory", 1>>)
    BY DEF Plain, Fresh, DpbImages, H264!DpbImage, External, t2, t3
  <2>2. t3 = t2 \cup {<<"session_memory", 1>>}
    BY DEF t2, t3
  <2> QED BY <1>10, <2>1, <2>2, MakePlain0
<1>13. /\ Runs(k, <<Ctx!Try((H264!SessionMemory \cup {H264!Session}))>>, S(t3, i, <<>>), S(t3, i, <<>>))
  <2>1. (H264!SessionMemory \cup {H264!Session}) \subseteq Ctx!Fields \cup t3
    BY DEF H264!SessionMemory, t3
  <2> QED BY <1>12, <2>1, Tries0
<1>14. Runs(k, <<Ctx!Try({H264!Session}), Ctx!Try({H264!Session}), Ctx!Try({}),
       Ctx!Make(<<"session_memory", 0>>, {Ctx!Device}), Ctx!Try({}), Ctx!Make(<<"session_memory",
       1>>, {Ctx!Device}), Ctx!Try((H264!SessionMemory \cup {H264!Session}))>>, S(t1, i, <<>>),
               S(t3, i, <<>>))
  BY <1>7, <1>8, <1>9, <1>10, <1>11, <1>12, <1>13, Calls7
<1>15. Runs(k, H264!bind_session_memory, S(t1, i, <<>>), S(t3, i, <<>>))
  <2>1. H264!bind_session_memory = <<Ctx!Try({H264!Session}), Ctx!Try({H264!Session}), Ctx!Try({}),
        Ctx!Make(<<"session_memory", 0>>, {Ctx!Device}), Ctx!Try({}), Ctx!Make(<<"session_memory",
        1>>, {Ctx!Device}), Ctx!Try((H264!SessionMemory \cup {H264!Session}))>>
    BY DEF H264!bind_session_memory, H264!Call, Ctx!Call, H264!MakeOr, Ctx!MakeOr, H264!Make,
         Ctx!Make, H264!TryOr, Ctx!TryOr, H264!Try, Ctx!Try, H264!Device, Ctx!Device
  <2> QED BY <2>1, <1>14
<1>16. /\ Runs(k, <<Ctx!Make(H264!SessionParams, {H264!Session})>>, S(t3, i, <<>>), S(t4, i, <<>>))
       /\ At(k, Ctx!Fields, t4, i, <<>>, NoSizes)
  <2>1. /\ Plain(Ctx!Fields, t3, H264!SessionParams)
        /\ H264!Session \in Ctx!Fields \cup t3
        /\ Origin(H264!SessionParams, H264!Session)
    BY DEF Plain, Fresh, DpbImages, H264!DpbImage, External, Origin, t3, t4
  <2>2. t4 = t3 \cup {H264!SessionParams}
    BY DEF Origin, t3, t4
  <2> QED BY <1>12, <2>1, <2>2, MakeFrom0
<1>17. /\ Runs(k, <<Ctx!Try({H264!SessionParams})>>, S(t4, i, <<>>), S(t4, i, <<>>))
  <2>1. {H264!SessionParams} \subseteq Ctx!Fields \cup t4
    BY DEF t4
  <2> QED BY <1>16, <2>1, Tries0
<1>18. /\ Runs(k, <<Ctx!Try({H264!SessionParams})>>, S(t4, i, <<>>), S(t4, i, <<>>))
  <2>1. {H264!SessionParams} \subseteq Ctx!Fields \cup t4
    BY DEF t4
  <2> QED BY <1>16, <2>1, Tries0
<1>19. Runs(k, <<Ctx!Try({H264!SessionParams}), Ctx!Try({H264!SessionParams})>>, S(t4, i, <<>>),
               S(t4, i, <<>>))
  BY <1>17, <1>18, Calls2
<1>20. Runs(k, H264!fetch_parameter_sets_blob, S(t4, i, <<>>), S(t4, i, <<>>))
  <2>1. H264!fetch_parameter_sets_blob = <<Ctx!Try({H264!SessionParams}),
        Ctx!Try({H264!SessionParams})>>
    BY DEF H264!fetch_parameter_sets_blob, H264!Call, Ctx!Call, H264!TryOr, Ctx!TryOr, H264!Try, Ctx!Try
  <2> QED BY <2>1, <1>19
<1>21. /\ Runs(k, <<Ctx!MakeImage(H264!DpbImage(0), 0)>>, S(t4, i, <<>>), S(t5, i1, <<>>))
       /\ At(k, Ctx!Fields, t5, i1, <<>>, NoSizes)
  <2>1. /\ Fresh(Ctx!Fields, t4, H264!DpbImage(0))
        /\ H264!DpbImage(0) \in DpbImages
    BY DEF Fresh, External, DpbImages, H264!DpbImage, t4, t5
  <2>2. t5 = t4 \cup {H264!DpbImage(0)}
    BY DEF t4, t5
  <2> QED BY <1>16, <2>1, <2>2, MakeDpbImage DEF i1
<1>22. Is(i1, H264!DpbImage(0), "UNDEFINED", FALSE, 0)
  BY IsPut, IsKept, DpbApart DEF i1
<1>23. /\ Runs(k, <<Ctx!Try({})>>, S(t5, i1, <<>>), S(t5, i1, <<>>))
  <2>1. {} \subseteq Ctx!Fields \cup t5
    BY DEF t5
  <2> QED BY <1>21, <2>1, Tries0
<1>24. /\ Runs(k, <<Ctx!Make(H264!DpbMemory(0), {Ctx!Device})>>, S(t5, i1, <<>>), S(t6, i1, <<>>))
       /\ At(k, Ctx!Fields, t6, i1, <<>>, NoSizes)
  <2>1. Plain(Ctx!Fields, t5, H264!DpbMemory(0))
    BY DEF Plain, Fresh, DpbImages, H264!DpbImage, External, t5, t6
  <2>2. t6 = t5 \cup {H264!DpbMemory(0)}
    BY DEF t5, t6
  <2> QED BY <1>21, <2>1, <2>2, MakePlain0
<1>25. /\ Runs(k, <<Ctx!Try({H264!DpbImage(0), H264!DpbMemory(0)})>>, S(t6, i1, <<>>), S(t6, i1, <<>>))
  <2>1. {H264!DpbImage(0), H264!DpbMemory(0)} \subseteq Ctx!Fields \cup t6
    BY DEF t6
  <2> QED BY <1>24, <2>1, Tries0
<1>26. Runs(k, <<Ctx!MakeImage(H264!DpbImage(0), 0), Ctx!Try({}), Ctx!Make(H264!DpbMemory(0),
       {Ctx!Device}), Ctx!Try({H264!DpbImage(0), H264!DpbMemory(0)})>>, S(t4, i, <<>>),
               S(t6, i1, <<>>))
  BY <1>21, <1>23, <1>24, <1>25, Calls4
<1>27. /\ Runs(k, <<Ctx!Make(H264!DpbView(0), {H264!DpbImage(0)})>>, S(t6, i1, <<>>), S(t7, i1, <<>>))
       /\ At(k, Ctx!Fields, t7, i1, <<>>, NoSizes)
  <2>1. /\ Plain(Ctx!Fields, t6, H264!DpbView(0))
        /\ H264!DpbImage(0) \in Ctx!Fields \cup t6
        /\ Origin(H264!DpbView(0), H264!DpbImage(0))
    BY DEF Plain, Fresh, DpbImages, H264!DpbImage, External, Origin, t6, t7
  <2>2. t7 = t6 \cup {H264!DpbView(0)}
    BY DEF Origin, t6, t7
  <2> QED BY <1>24, <2>1, <2>2, MakeFrom0
<1>28. Runs(k, <<Ctx!MakeImage(H264!DpbImage(0), 0), Ctx!Try({}), Ctx!Make(H264!DpbMemory(0),
       {Ctx!Device}), Ctx!Try({H264!DpbImage(0), H264!DpbMemory(0)})>> \o
       <<Ctx!Make(H264!DpbView(0), {H264!DpbImage(0)})>>, S(t4, i, <<>>),
               S(t7, i1, <<>>))
  BY <1>26, <1>27, RunsCat
<1>29. Runs(k, H264!create_dpb_slot(0), S(t4, i, <<>>), S(t7, i1, <<>>))
  <2>1. H264!create_dpb_slot(0) = <<Ctx!MakeImage(H264!DpbImage(0), 0), Ctx!Try({}),
        Ctx!Make(H264!DpbMemory(0), {Ctx!Device}), Ctx!Try({H264!DpbImage(0), H264!DpbMemory(0)})>>
        \o <<Ctx!Make(H264!DpbView(0), {H264!DpbImage(0)})>>
    BY DEF H264!create_dpb_slot, H264!Call, Ctx!Call, H264!MakeOr, Ctx!MakeOr, H264!Make, Ctx!Make,
         H264!TryOr, Ctx!TryOr, H264!Try, Ctx!Try, H264!MakeImage, Ctx!MakeImage, H264!Device,
         Ctx!Device, H264!create_image_view
  <2> QED BY <2>1, <1>28
<1>30. /\ Runs(k, <<Ctx!MakeImage(H264!DpbImage(1), 0)>>, S(t7, i1, <<>>), S(t8, i2, <<>>))
       /\ At(k, Ctx!Fields, t8, i2, <<>>, NoSizes)
  <2>1. /\ Fresh(Ctx!Fields, t7, H264!DpbImage(1))
        /\ H264!DpbImage(1) \in DpbImages
    BY DEF Fresh, External, DpbImages, H264!DpbImage, t7, t8
  <2>2. t8 = t7 \cup {H264!DpbImage(1)}
    BY DEF t7, t8
  <2> QED BY <1>27, <2>1, <2>2, MakeDpbImage DEF i2
<1>31. /\ Is(i2, H264!DpbImage(0), "UNDEFINED", FALSE, 0)
       /\ Is(i2, H264!DpbImage(1), "UNDEFINED", FALSE, 0)
  BY <1>22, IsPut, IsKept, DpbApart DEF i2
<1>32. /\ Runs(k, <<Ctx!Try({})>>, S(t8, i2, <<>>), S(t8, i2, <<>>))
  <2>1. {} \subseteq Ctx!Fields \cup t8
    BY DEF t8
  <2> QED BY <1>30, <2>1, Tries0
<1>33. /\ Runs(k, <<Ctx!Make(H264!DpbMemory(1), {Ctx!Device})>>, S(t8, i2, <<>>), S(t9, i2, <<>>))
       /\ At(k, Ctx!Fields, t9, i2, <<>>, NoSizes)
  <2>1. Plain(Ctx!Fields, t8, H264!DpbMemory(1))
    BY DEF Plain, Fresh, DpbImages, H264!DpbImage, External, t8, t9
  <2>2. t9 = t8 \cup {H264!DpbMemory(1)}
    BY DEF t8, t9
  <2> QED BY <1>30, <2>1, <2>2, MakePlain0
<1>34. /\ Runs(k, <<Ctx!Try({H264!DpbImage(1), H264!DpbMemory(1)})>>, S(t9, i2, <<>>), S(t9, i2, <<>>))
  <2>1. {H264!DpbImage(1), H264!DpbMemory(1)} \subseteq Ctx!Fields \cup t9
    BY DEF t9
  <2> QED BY <1>33, <2>1, Tries0
<1>35. Runs(k, <<Ctx!MakeImage(H264!DpbImage(1), 0), Ctx!Try({}), Ctx!Make(H264!DpbMemory(1),
       {Ctx!Device}), Ctx!Try({H264!DpbImage(1), H264!DpbMemory(1)})>>, S(t7, i1, <<>>),
               S(t9, i2, <<>>))
  BY <1>30, <1>32, <1>33, <1>34, Calls4
<1>36. /\ Runs(k, <<Ctx!Make(H264!DpbView(1), {H264!DpbImage(1)})>>, S(t9, i2, <<>>), S(t10, i2, <<>>))
       /\ At(k, Ctx!Fields, t10, i2, <<>>, NoSizes)
  <2>1. /\ Plain(Ctx!Fields, t9, H264!DpbView(1))
        /\ H264!DpbImage(1) \in Ctx!Fields \cup t9
        /\ Origin(H264!DpbView(1), H264!DpbImage(1))
    BY DEF Plain, Fresh, DpbImages, H264!DpbImage, External, Origin, t9, t10
  <2>2. t10 = t9 \cup {H264!DpbView(1)}
    BY DEF Origin, t9, t10
  <2> QED BY <1>33, <2>1, <2>2, MakeFrom0
<1>37. Runs(k, <<Ctx!MakeImage(H264!DpbImage(1), 0), Ctx!Try({}), Ctx!Make(H264!DpbMemory(1),
       {Ctx!Device}), Ctx!Try({H264!DpbImage(1), H264!DpbMemory(1)})>> \o
       <<Ctx!Make(H264!DpbView(1), {H264!DpbImage(1)})>>, S(t7, i1, <<>>),
               S(t10, i2, <<>>))
  BY <1>35, <1>36, RunsCat
<1>38. Runs(k, H264!create_dpb_slot(1), S(t7, i1, <<>>), S(t10, i2, <<>>))
  <2>1. H264!create_dpb_slot(1) = <<Ctx!MakeImage(H264!DpbImage(1), 0), Ctx!Try({}),
        Ctx!Make(H264!DpbMemory(1), {Ctx!Device}), Ctx!Try({H264!DpbImage(1), H264!DpbMemory(1)})>>
        \o <<Ctx!Make(H264!DpbView(1), {H264!DpbImage(1)})>>
    BY DEF H264!create_dpb_slot, H264!Call, Ctx!Call, H264!MakeOr, Ctx!MakeOr, H264!Make, Ctx!Make,
         H264!TryOr, Ctx!TryOr, H264!Try, Ctx!Try, H264!MakeImage, Ctx!MakeImage, H264!Device,
         Ctx!Device, H264!create_image_view
  <2> QED BY <2>1, <1>37
<1>39. Runs(k, H264!create_dpb_slot(0) \o H264!create_dpb_slot(1), S(t4, i, <<>>), S(t10, i2, <<>>))
  BY <1>29, <1>38, RunsCat
<1>40. Runs(k, H264!create_dpb_pool, S(t4, i, <<>>), S(t10, i2, <<>>))
  <2>1. H264!create_dpb_pool = H264!create_dpb_slot(0) \o H264!create_dpb_slot(1)
    BY DEF H264!create_dpb_pool
  <2> QED BY <2>1, <1>39
<1>41. /\ Runs(k, <<Ctx!Make(H264!OutBuffer, {Ctx!Device})>>, S(t10, i2, <<>>), S(t11, i2, <<>>))
       /\ At(k, Ctx!Fields, t11, i2, <<>>, NoSizes)
  <2>1. Plain(Ctx!Fields, t10, H264!OutBuffer)
    BY DEF Plain, Fresh, DpbImages, H264!DpbImage, External, t10, t11
  <2>2. t11 = t10 \cup {H264!OutBuffer}
    BY DEF t10, t11
  <2> QED BY <1>36, <2>1, <2>2, MakePlain0
<1>42. /\ Runs(k, <<Ctx!Try({})>>, S(t11, i2, <<>>), S(t11, i2, <<>>))
  <2>1. {} \subseteq Ctx!Fields \cup t11
    BY DEF t11
  <2> QED BY <1>41, <2>1, Tries0
<1>43. /\ Runs(k, <<Ctx!Make(H264!OutMemory, {Ctx!Device})>>, S(t11, i2, <<>>), S(t12, i2, <<>>))
       /\ At(k, Ctx!Fields, t12, i2, <<>>, NoSizes)
  <2>1. Plain(Ctx!Fields, t11, H264!OutMemory)
    BY DEF Plain, Fresh, DpbImages, H264!DpbImage, External, t11, t12
  <2>2. t12 = t11 \cup {H264!OutMemory}
    BY DEF t11, t12
  <2> QED BY <1>41, <2>1, <2>2, MakePlain0
<1>44. /\ Runs(k, <<Ctx!Try({H264!OutBuffer, H264!OutMemory})>>, S(t12, i2, <<>>), S(t12, i2, <<>>))
  <2>1. {H264!OutBuffer, H264!OutMemory} \subseteq Ctx!Fields \cup t12
    BY DEF t12
  <2> QED BY <1>43, <2>1, Tries0
<1>45. Runs(k, <<Ctx!Make(H264!OutBuffer, {Ctx!Device}), Ctx!Try({}), Ctx!Make(H264!OutMemory,
       {Ctx!Device}), Ctx!Try({H264!OutBuffer, H264!OutMemory})>>, S(t10, i2, <<>>),
               S(t12, i2, <<>>))
  BY <1>41, <1>42, <1>43, <1>44, Calls4
<1>46. Runs(k, H264!create_output_buffer, S(t10, i2, <<>>), S(t12, i2, <<>>))
  <2>1. H264!create_output_buffer = <<Ctx!Make(H264!OutBuffer, {Ctx!Device}), Ctx!Try({}),
        Ctx!Make(H264!OutMemory, {Ctx!Device}), Ctx!Try({H264!OutBuffer, H264!OutMemory})>>
    BY DEF H264!create_output_buffer, H264!Call, Ctx!Call, H264!MakeOr, Ctx!MakeOr, H264!Make,
         Ctx!Make, H264!TryOr, Ctx!TryOr, H264!Try, Ctx!Try, H264!Device, Ctx!Device
  <2> QED BY <2>1, <1>45
<1>47. /\ Runs(k, <<Ctx!Make(H264!QueryPool, {Ctx!Device})>>, S(t12, i2, <<>>), S(t13, i2, <<>>))
       /\ At(k, Ctx!Fields, t13, i2, <<>>, NoSizes)
  <2>1. Plain(Ctx!Fields, t12, H264!QueryPool)
    BY DEF Plain, Fresh, DpbImages, H264!DpbImage, External, t12, t13
  <2>2. t13 = t12 \cup {H264!QueryPool}
    BY DEF t12, t13
  <2> QED BY <1>43, <2>1, <2>2, MakePlain0
<1>48. Runs(k, H264!create_encode_query_pool, S(t12, i2, <<>>), S(t13, i2, <<>>))
  <2>1. H264!create_encode_query_pool = <<Ctx!Make(H264!QueryPool, {Ctx!Device})>>
    BY DEF H264!create_encode_query_pool, H264!Call, Ctx!Call, H264!MakeOr, Ctx!MakeOr, H264!Make,
         Ctx!Make, H264!Device, Ctx!Device
  <2> QED BY <2>1, <1>47
<1>49. /\ Runs(k, <<Ctx!Make(H264!CmdPool, {Ctx!Device})>>, S(t13, i2, <<>>), S(t14, i2, <<>>))
       /\ At(k, Ctx!Fields, t14, i2, <<>>, NoSizes)
  <2>1. Plain(Ctx!Fields, t13, H264!CmdPool)
    BY DEF Plain, Fresh, DpbImages, H264!DpbImage, External, t13, t14
  <2>2. t14 = t13 \cup {H264!CmdPool}
    BY DEF t13, t14
  <2> QED BY <1>47, <2>1, <2>2, MakePlain0
<1>50. /\ Runs(k, <<Ctx!Make(H264!Cmd, {H264!CmdPool})>>, S(t14, i2, <<>>), S(t15, i2, <<>>))
       /\ At(k, Ctx!Fields, t15, i2, <<>>, NoSizes)
  <2>1. /\ Plain(Ctx!Fields, t14, H264!Cmd)
        /\ H264!CmdPool \in Ctx!Fields \cup t14
        /\ Origin(H264!Cmd, H264!CmdPool)
    BY DEF Plain, Fresh, DpbImages, H264!DpbImage, External, Origin, t14, t15
  <2>2. t15 = t14 \cup {H264!Cmd}
    BY DEF Origin, t14, t15
  <2> QED BY <1>49, <2>1, <2>2, MakeFrom0
<1>51. /\ Runs(k, <<Ctx!Make(H264!Fence, {Ctx!Device})>>, S(t15, i2, <<>>), S(t16, i2, <<>>))
       /\ At(k, Ctx!Fields, t16, i2, <<>>, NoSizes)
  <2>1. Plain(Ctx!Fields, t15, H264!Fence)
    BY DEF Plain, Fresh, DpbImages, H264!DpbImage, External, t15, t16
  <2>2. t16 = t15 \cup {H264!Fence}
    BY DEF t15, t16
  <2> QED BY <1>50, <2>1, <2>2, MakePlain0
<1>52. Runs(k, <<Ctx!Make(H264!CmdPool, {Ctx!Device}), Ctx!Make(H264!Cmd, {H264!CmdPool}),
       Ctx!Make(H264!Fence, {Ctx!Device})>>, S(t13, i2, <<>>),
               S(t16, i2, <<>>))
  BY <1>49, <1>50, <1>51, Calls3
<1>53. /\ Runs(k, <<Ctx!Make(<<"init_cmd">>, {H264!CmdPool})>>, S(t16, i2, <<>>), S(t17, i2, <<>>))
       /\ At(k, Ctx!Fields, t17, i2, <<>>, NoSizes)
  <2>1. /\ Plain(Ctx!Fields, t16, <<"init_cmd">>)
        /\ H264!CmdPool \in Ctx!Fields \cup t16
        /\ Origin(<<"init_cmd">>, H264!CmdPool)
    BY DEF Plain, Fresh, DpbImages, H264!DpbImage, External, Origin, t16, t17
  <2>2. t17 = t16 \cup {<<"init_cmd">>}
    BY DEF Origin, t16, t17
  <2> QED BY <1>51, <2>1, <2>2, MakeFrom0
<1>54. /\ Runs(k, <<Ctx!Begin(<<"init_cmd">>)>>, S(t17, i2, <<>>), S(t17, i2, i2))
       /\ At(k, Ctx!Fields, t17, i2, i2, NoSizes)
       /\ Rest(k, Ctx!Fields, i2, NoSizes)
  <2>1. <<"init_cmd">> \in Ctx!Fields \cup t17
    BY DEF t17
  <2> QED BY <1>53, <2>1, Begins
<1>55. Runs(k, <<Ctx!Make(<<"init_cmd">>, {H264!CmdPool}), Ctx!Begin(<<"init_cmd">>)>>, S(t16, i2,
       <<>>),
               S(t17, i2, i2))
  BY <1>53, <1>54, Calls2
<1>56. /\ Runs(k, <<Ctx!Barrier(<<"init_cmd">>, H264!DpbImage(0), "UNDEFINED",
          "VIDEO_ENCODE_DPB")>>, S(t17, i2, i2),
               S(t17, i2, r1))
       /\ At(k, Ctx!Fields, t17, i2, r1, NoSizes)
       /\ Rest(k, Ctx!Fields, r1, NoSizes)
  <2>1. /\ <<"init_cmd">> \in Ctx!Fields \cup t17
        /\ H264!DpbImage(0) \notin Ctx!Fields
    BY DEF t17
  <2> QED BY <1>54, <2>1, <1>31, <1>54, RestPut, Discard DEF r1
<1>57. /\ Is(r1, H264!DpbImage(0), "VIDEO_ENCODE_DPB", FALSE, 0)
       /\ Is(r1, H264!DpbImage(1), "UNDEFINED", FALSE, 0)
  BY <1>31, IsPut, IsKept, DpbApart DEF r1
<1>58. /\ Runs(k, <<Ctx!Barrier(<<"init_cmd">>, H264!DpbImage(1), "UNDEFINED",
          "VIDEO_ENCODE_DPB")>>, S(t17, i2, r1),
               S(t17, i2, r2))
       /\ At(k, Ctx!Fields, t17, i2, r2, NoSizes)
       /\ Rest(k, Ctx!Fields, r2, NoSizes)
  <2>1. /\ <<"init_cmd">> \in Ctx!Fields \cup t17
        /\ H264!DpbImage(1) \notin Ctx!Fields
    BY DEF t17
  <2> QED BY <1>56, <2>1, <1>57, <1>56, RestPut, Discard DEF r2
<1>59. /\ Is(r2, H264!DpbImage(0), "VIDEO_ENCODE_DPB", FALSE, 0)
       /\ Is(r2, H264!DpbImage(1), "VIDEO_ENCODE_DPB", FALSE, 0)
  BY <1>57, IsPut, IsKept, DpbApart DEF r2
<1>60. /\ Runs(k, <<Ctx!Try({<<"init_cmd">>})>>, S(t17, i2, r2), S(t17, i2, r2))
  <2>1. {<<"init_cmd">>} \subseteq Ctx!Fields \cup t17
    BY DEF t17
  <2> QED BY <1>58, <2>1, Tries0
<1>61. /\ Runs(k, <<Ctx!Make(<<"init_fence">>, {Ctx!Device})>>, S(t17, i2, r2), S(t18, i2, r2))
       /\ At(k, Ctx!Fields, t18, i2, r2, NoSizes)
  <2>1. Plain(Ctx!Fields, t17, <<"init_fence">>)
    BY DEF Plain, Fresh, DpbImages, H264!DpbImage, External, t17, t18
  <2>2. t18 = t17 \cup {<<"init_fence">>}
    BY DEF t17, t18
  <2> QED BY <1>58, <2>1, <2>2, MakePlain0
<1>62. /\ Runs(k, <<Ctx!Submit(<<"init_cmd">>, <<"init_fence">>)>>, S(t18, i2, r2), S(t18, r2, <<>>))
       /\ At(k, Ctx!Fields, t18, r2, <<>>, NoSizes)
  <2>1. {<<"init_cmd">>, <<"init_fence">>} \subseteq Ctx!Fields \cup t18
    BY DEF t18
  <2> QED BY <1>61, <2>1, <1>58, Submits
<1>63. /\ Runs(k, <<Ctx!Free(<<"init_fence">>)>>, S(t18, r2, <<>>), S(t19, i3, <<>>))
       /\ At(k, Ctx!Fields, t19, i3, <<>>, NoSizes)
  <2>1. <<"init_fence">> \in t18 /\ <<"init_fence">> \notin Ctx!Fields /\ t18 \ {<<"init_fence">>} = t19
    BY DEF t18, t19
  <2>2. Childless(k, Ctx!Fields, t18, {<<"init_fence">>})
    BY Barren1, BarrenChildless
  <2> QED BY <1>62, <2>1, <2>2, FreeTemp DEF i3
<1>64. /\ Is(i3, H264!DpbImage(0), "VIDEO_ENCODE_DPB", FALSE, 0)
       /\ Is(i3, H264!DpbImage(1), "VIDEO_ENCODE_DPB", FALSE, 0)
  BY <1>59, IsWithout DEF i3
<1>65. /\ Runs(k, <<Ctx!Free(<<"init_cmd">>)>>, S(t19, i3, <<>>), S(t20, i4, <<>>))
       /\ At(k, Ctx!Fields, t20, i4, <<>>, NoSizes)
  <2>1. <<"init_cmd">> \in t19 /\ <<"init_cmd">> \notin Ctx!Fields /\ t19 \ {<<"init_cmd">>} = t20
    BY DEF t19, t20
  <2>2. Childless(k, Ctx!Fields, t19, {<<"init_cmd">>})
    BY Barren1, BarrenChildless
  <2> QED BY <1>63, <2>1, <2>2, FreeTemp DEF i4
<1>66. /\ Is(i4, H264!DpbImage(0), "VIDEO_ENCODE_DPB", FALSE, 0)
       /\ Is(i4, H264!DpbImage(1), "VIDEO_ENCODE_DPB", FALSE, 0)
  BY <1>64, IsWithout DEF i4
<1>67. Runs(k, <<Ctx!Try({<<"init_cmd">>}), Ctx!Make(<<"init_fence">>, {Ctx!Device}),
       Ctx!Submit(<<"init_cmd">>, <<"init_fence">>), Ctx!Free(<<"init_fence">>),
       Ctx!Free(<<"init_cmd">>)>>, S(t17, i2, r2),
               S(t20, i4, <<>>))
  BY <1>60, <1>61, <1>62, <1>63, <1>65, Calls5
<1>68. Runs(k, <<Ctx!Make(<<"init_cmd">>, {H264!CmdPool}), Ctx!Begin(<<"init_cmd">>)>> \o
       <<Ctx!Barrier(<<"init_cmd">>, H264!DpbImage(0), "UNDEFINED", "VIDEO_ENCODE_DPB")>> \o
       <<Ctx!Barrier(<<"init_cmd">>, H264!DpbImage(1), "UNDEFINED", "VIDEO_ENCODE_DPB")>> \o
       <<Ctx!Try({<<"init_cmd">>}), Ctx!Make(<<"init_fence">>, {Ctx!Device}),
       Ctx!Submit(<<"init_cmd">>, <<"init_fence">>), Ctx!Free(<<"init_fence">>),
       Ctx!Free(<<"init_cmd">>)>>, S(t16, i2, <<>>),
               S(t20, i4, <<>>))
  BY <1>55, <1>56, <1>58, <1>67, Cat4
<1>69. Runs(k, H264!transition_dpb_to_initial_layout, S(t16, i2, <<>>), S(t20, i4, <<>>))
  <2>1. H264!transition_dpb_to_initial_layout = <<Ctx!Make(<<"init_cmd">>, {H264!CmdPool}),
        Ctx!Begin(<<"init_cmd">>)>>
        \o <<Ctx!Barrier(<<"init_cmd">>, H264!DpbImage(0), "UNDEFINED", "VIDEO_ENCODE_DPB")>>
        \o <<Ctx!Barrier(<<"init_cmd">>, H264!DpbImage(1), "UNDEFINED", "VIDEO_ENCODE_DPB")>>
        \o <<Ctx!Try({<<"init_cmd">>}), Ctx!Make(<<"init_fence">>, {Ctx!Device}),
        Ctx!Submit(<<"init_cmd">>, <<"init_fence">>), Ctx!Free(<<"init_fence">>),
        Ctx!Free(<<"init_cmd">>)>>
    BY DEF H264!transition_dpb_to_initial_layout, H264!Call, Ctx!Call, H264!MakeOr, Ctx!MakeOr,
         H264!Make, Ctx!Make, H264!TryOr, Ctx!TryOr, H264!Try, Ctx!Try, H264!FreeWith,
         Ctx!FreeWith, H264!Free, Ctx!Free, H264!Begin, Ctx!Begin, H264!Barrier, Ctx!Barrier,
         H264!SubmitOr, Ctx!SubmitOr, H264!Submit, Ctx!Submit, H264!Device, Ctx!Device,
         H264!cmd_transition
  <2> QED BY <2>1, <1>68
<1>70. /\ Runs(k, <<Ctx!Make(<<"rc_cmd">>, {H264!CmdPool})>>, S(t20, i4, <<>>), S(t21, i4, <<>>))
       /\ At(k, Ctx!Fields, t21, i4, <<>>, NoSizes)
  <2>1. /\ Plain(Ctx!Fields, t20, <<"rc_cmd">>)
        /\ H264!CmdPool \in Ctx!Fields \cup t20
        /\ Origin(<<"rc_cmd">>, H264!CmdPool)
    BY DEF Plain, Fresh, DpbImages, H264!DpbImage, External, Origin, t20, t21
  <2>2. t21 = t20 \cup {<<"rc_cmd">>}
    BY DEF Origin, t20, t21
  <2> QED BY <1>65, <2>1, <2>2, MakeFrom0
<1>71. /\ Runs(k, <<Ctx!Begin(<<"rc_cmd">>)>>, S(t21, i4, <<>>), S(t21, i4, i4))
       /\ At(k, Ctx!Fields, t21, i4, i4, NoSizes)
       /\ Rest(k, Ctx!Fields, i4, NoSizes)
  <2>1. <<"rc_cmd">> \in Ctx!Fields \cup t21
    BY DEF t21
  <2> QED BY <1>70, <2>1, Begins
<1>72. /\ Runs(k, <<Ctx!Use({<<"rc_cmd">>, H264!Session, H264!SessionParams})>>, S(t21, i4, i4),
               S(t21, i4, i4))
  <2>1. {<<"rc_cmd">>, H264!Session, H264!SessionParams} \subseteq Ctx!Fields \cup t21
    BY DEF t21
  <2> QED BY <1>71, <2>1, Uses
<1>73. /\ Runs(k, <<Ctx!Try({<<"rc_cmd">>})>>, S(t21, i4, i4), S(t21, i4, i4))
  <2>1. {<<"rc_cmd">>} \subseteq Ctx!Fields \cup t21
    BY DEF t21
  <2> QED BY <1>71, <2>1, Tries0
<1>74. /\ Runs(k, <<Ctx!Make(<<"rc_fence">>, {Ctx!Device})>>, S(t21, i4, i4), S(t22, i4, i4))
       /\ At(k, Ctx!Fields, t22, i4, i4, NoSizes)
  <2>1. Plain(Ctx!Fields, t21, <<"rc_fence">>)
    BY DEF Plain, Fresh, DpbImages, H264!DpbImage, External, t21, t22
  <2>2. t22 = t21 \cup {<<"rc_fence">>}
    BY DEF t21, t22
  <2> QED BY <1>71, <2>1, <2>2, MakePlain0
<1>75. /\ Runs(k, <<Ctx!Submit(<<"rc_cmd">>, <<"rc_fence">>)>>, S(t22, i4, i4), S(t22, i4, <<>>))
       /\ At(k, Ctx!Fields, t22, i4, <<>>, NoSizes)
  <2>1. {<<"rc_cmd">>, <<"rc_fence">>} \subseteq Ctx!Fields \cup t22
    BY DEF t22
  <2> QED BY <1>74, <2>1, <1>71, Submits
<1>76. /\ Runs(k, <<Ctx!Free(<<"rc_fence">>)>>, S(t22, i4, <<>>), S(t23, i5, <<>>))
       /\ At(k, Ctx!Fields, t23, i5, <<>>, NoSizes)
  <2>1. <<"rc_fence">> \in t22 /\ <<"rc_fence">> \notin Ctx!Fields /\ t22 \ {<<"rc_fence">>} = t23
    BY DEF t22, t23
  <2>2. Childless(k, Ctx!Fields, t22, {<<"rc_fence">>})
    BY Barren1, BarrenChildless
  <2> QED BY <1>75, <2>1, <2>2, FreeTemp DEF i5
<1>77. /\ Is(i5, H264!DpbImage(0), "VIDEO_ENCODE_DPB", FALSE, 0)
       /\ Is(i5, H264!DpbImage(1), "VIDEO_ENCODE_DPB", FALSE, 0)
  BY <1>66, IsWithout DEF i5
<1>78. /\ Runs(k, <<Ctx!Free(<<"rc_cmd">>)>>, S(t23, i5, <<>>), S(t24, i6, <<>>))
       /\ At(k, Ctx!Fields, t24, i6, <<>>, NoSizes)
  <2>1. <<"rc_cmd">> \in t23 /\ <<"rc_cmd">> \notin Ctx!Fields /\ t23 \ {<<"rc_cmd">>} = t24
    BY DEF t23, t24
  <2>2. Childless(k, Ctx!Fields, t23, {<<"rc_cmd">>})
    BY Barren1, BarrenChildless
  <2> QED BY <1>76, <2>1, <2>2, FreeTemp DEF i6
<1>79. /\ Is(i6, H264!DpbImage(0), "VIDEO_ENCODE_DPB", FALSE, 0)
       /\ Is(i6, H264!DpbImage(1), "VIDEO_ENCODE_DPB", FALSE, 0)
  BY <1>77, IsWithout DEF i6
<1>80. Runs(k, <<Ctx!Make(<<"rc_cmd">>, {H264!CmdPool}), Ctx!Begin(<<"rc_cmd">>),
       Ctx!Use({<<"rc_cmd">>, H264!Session, H264!SessionParams}), Ctx!Try({<<"rc_cmd">>}),
       Ctx!Make(<<"rc_fence">>, {Ctx!Device}), Ctx!Submit(<<"rc_cmd">>, <<"rc_fence">>),
       Ctx!Free(<<"rc_fence">>), Ctx!Free(<<"rc_cmd">>)>>, S(t20, i4, <<>>),
               S(t24, i6, <<>>))
  BY <1>70, <1>71, <1>72, <1>73, <1>74, <1>75, <1>76, <1>78, Calls8
<1>81. Runs(k, H264!initialize_rate_control, S(t20, i4, <<>>), S(t24, i6, <<>>))
  <2>1. H264!initialize_rate_control = <<Ctx!Make(<<"rc_cmd">>, {H264!CmdPool}),
        Ctx!Begin(<<"rc_cmd">>), Ctx!Use({<<"rc_cmd">>, H264!Session, H264!SessionParams}),
        Ctx!Try({<<"rc_cmd">>}), Ctx!Make(<<"rc_fence">>, {Ctx!Device}), Ctx!Submit(<<"rc_cmd">>,
        <<"rc_fence">>), Ctx!Free(<<"rc_fence">>), Ctx!Free(<<"rc_cmd">>)>>
    BY DEF H264!initialize_rate_control, H264!Call, Ctx!Call, H264!MakeOr, Ctx!MakeOr, H264!Make,
         Ctx!Make, H264!TryOr, Ctx!TryOr, H264!Try, Ctx!Try, H264!Use, Ctx!Use, H264!FreeWith,
         Ctx!FreeWith, H264!Free, Ctx!Free, H264!Begin, Ctx!Begin, H264!SubmitOr, Ctx!SubmitOr,
         H264!Submit, Ctx!Submit, H264!Device, Ctx!Device
  <2> QED BY <2>1, <1>80
<1>82. /\ Runs(k, <<Ctx!Keep(H264!Fields)>>, S(t24, i6, <<>>),
                St(Ctx!Fields \cup H264!Fields, {}, i6, <<>>, NoSizes))
       /\ Shape(Ctx!Fields \cup H264!Fields, {}, i6, <<>>)
  <2>1. H264!Fields = t24
    BY EncoderFieldsAre DEF t24
  <2>2. Native!FsrCtx \notin H264!Fields
    BY EncoderFieldsAre DEF Native!FsrCtx
  <2> QED BY <1>78, <2>1, <2>2, KeepAll
<1>83. Runs(k, <<Ctx!Try({}), Ctx!Try({Ctx!Device}), Ctx!Try({}), Ctx!Try({}),
       Ctx!Make(H264!Session, {Ctx!Device})>> \o H264!bind_session_memory \o
       <<Ctx!Make(H264!SessionParams, {H264!Session})>> \o H264!fetch_parameter_sets_blob \o
       H264!create_dpb_pool \o H264!create_output_buffer \o H264!create_encode_query_pool \o
       <<Ctx!Make(H264!CmdPool, {Ctx!Device}), Ctx!Make(H264!Cmd, {H264!CmdPool}),
       Ctx!Make(H264!Fence, {Ctx!Device})>> \o H264!transition_dpb_to_initial_layout \o
       H264!initialize_rate_control, S({}, i, <<>>),
               S(t24, i6, <<>>))
  BY <1>6, <1>15, <1>16, <1>20, <1>40, <1>46, <1>48, <1>52, <1>69, <1>81, Cat10
<1>84. Runs(k, <<Ctx!Try({}), Ctx!Try({Ctx!Device}), Ctx!Try({}), Ctx!Try({}),
       Ctx!Make(H264!Session, {Ctx!Device})>> \o H264!bind_session_memory \o
       <<Ctx!Make(H264!SessionParams, {H264!Session})>> \o H264!fetch_parameter_sets_blob \o
       H264!create_dpb_pool \o H264!create_output_buffer \o H264!create_encode_query_pool \o
       <<Ctx!Make(H264!CmdPool, {Ctx!Device}), Ctx!Make(H264!Cmd, {H264!CmdPool}),
       Ctx!Make(H264!Fence, {Ctx!Device})>> \o H264!transition_dpb_to_initial_layout \o
       H264!initialize_rate_control \o <<Ctx!Keep(H264!Fields)>>, S({}, i, <<>>),
               St(Ctx!Fields \cup H264!Fields, {}, i6, <<>>, NoSizes))
  BY <1>83, <1>82, RunsCat
<1>85. Runs(k, H264!new, S({}, i, <<>>),
               St(Ctx!Fields \cup H264!Fields, {}, i6, <<>>, NoSizes))
  <2>1. H264!new = <<Ctx!Try({}), Ctx!Try({Ctx!Device}), Ctx!Try({}), Ctx!Try({}),
        Ctx!Make(H264!Session, {Ctx!Device})>>
        \o H264!bind_session_memory
        \o <<Ctx!Make(H264!SessionParams, {H264!Session})>>
        \o H264!fetch_parameter_sets_blob
        \o H264!create_dpb_pool
        \o H264!create_output_buffer
        \o H264!create_encode_query_pool
        \o <<Ctx!Make(H264!CmdPool, {Ctx!Device}), Ctx!Make(H264!Cmd, {H264!CmdPool}),
        Ctx!Make(H264!Fence, {Ctx!Device})>>
        \o H264!transition_dpb_to_initial_layout
        \o H264!initialize_rate_control
        \o <<Ctx!Keep(H264!Fields)>>
    BY DEF H264!new, H264!Call, Ctx!Call, H264!MakeOr, Ctx!MakeOr, H264!Make, Ctx!Make, H264!TryOr,
         Ctx!TryOr, H264!Try, Ctx!Try, H264!Keep, Ctx!Keep, H264!Device, Ctx!Device
  <2> QED BY <2>1, <1>84
<1> QED BY <1>82, <1>79, <1>85

\* What an encoder holds is enough for every handle encode names.
LEMMA EncoderHolds ==
  ASSUME NEW k, NEW m, NEW i, NEW c, k.comp \in Encoders, Ready(k, m, i, c)
  PROVE  /\ c = NoSizes /\ Ctx!Fields \subseteq m /\ H264!Fields \subseteq m
         /\ {H264!CmdPool, H264!Cmd, H264!QueryPool, H264!Session, H264!SessionParams,
             H264!DpbView(0), H264!DpbView(1), H264!OutBuffer, H264!OutMemory, H264!Fence}
              \subseteq m
         /\ \A s \in {0, 1} : /\ H264!DpbImage(s) \in DOMAIN i
                              /\ i[H264!DpbImage(s)].layout = "VIDEO_ENCODE_DPB"
<1>1. c = NoSizes /\ Ctx!Fields \subseteq m /\ H264!Fields \subseteq m
  BY DEF Ready, Held, Encoders
<1>2. \A s \in {0, 1} : /\ H264!DpbImage(s) \in DOMAIN i
                        /\ i[H264!DpbImage(s)].layout = "VIDEO_ENCODE_DPB"
  BY DEF Ready
<1>3. {H264!CmdPool, H264!Cmd, H264!QueryPool, H264!Session, H264!SessionParams,
       H264!DpbView(0), H264!DpbView(1), H264!OutBuffer, H264!OutMemory, H264!Fence} \subseteq m
  BY <1>1, EncoderFieldsAre
<1> QED BY <1>1, <1>2, <1>3

\* The view of an input image is none of the encoder's other handles.
LEMMA ViewApart ==
  ASSUME NEW x
  PROVE  /\ View(x) \notin External /\ View(x) \notin DpbImages
         /\ Native!FsrCtx \notin {View(x)}
  BY DEF View, H264!InputView, External, DpbImages, H264!DpbImage, Native!FsrCtx

\* The encoder keeps its guarantees with one more view.
LEMMA OneMoreView ==
  ASSUME NEW k, NEW m, NEW i, NEW c, NEW x \in InputImages, k.comp \in Encoders,
         Ready(k, m, i, c)
  PROVE  Ready(k, m \cup {View(x)}, i, c)
<1>1. Held(k, m \cup {View(x)}, c)
  <2>1. /\ c = NoSizes /\ Ctx!Fields \cup H264!Fields \subseteq m
        /\ m \subseteq Ctx!Fields \cup H264!Fields \cup {View(j) : j \in InputImages}
    BY DEF Ready, Held, Encoders
  <2>2. View(x) \in {View(j) : j \in InputImages}
    OBVIOUS
  <2> QED BY <2>1, <2>2 DEF Held
<1> QED BY <1>1 DEF Ready, Encoders

\* A view of an image the caller owns.
LEMMA MakeFromExternal ==
  ASSUME NEW k, NEW m, NEW t, NEW i, NEW r, NEW c, NEW h, NEW p,
         At(k, m, t, i, r, c), Plain(m, t, h), p \in External
  PROVE  /\ Runs(k, <<Ctx!Make(h, {p})>>, St(m, t, i, r, c), St(m, t \cup {h}, i, r, c))
         /\ Sound(k, m, t \cup {h}, i, r, c)
<1>1. {p} \subseteq m \cup t \cup External /\ \A q \in {p} : Origin(h, q)
  BY DEF Origin
<1>2. /\ Runs(k, <<Ctx!MakeOr(h, {p}, {})>>, St(m, t, i, r, c), St(m, t \cup {h}, i, r, c))
      /\ Sound(k, m, t \cup {h}, i, r, c)
  BY <1>1, MakeRuns DEF At, Plain
<1> QED BY <1>2 DEF Ctx!Make

\* Recording: the reference slots are bound in the layout they are in, and the view
\* of the input image is there, from an earlier call or from this one.
LEMMA EncodeRecordRuns ==
  ASSUME NEW k, NEW m, NEW i, NEW c, NEW x \in InputImages, NEW views,
         k.comp \in Encoders, k.phase = "call", Ready(k, m, i, c), Shape(m, {}, i, <<>>),
         views = {j \in InputImages : View(j) \in m}
  PROVE  LET n == m \cup {View(x)}
         IN  /\ Runs(k, H264!encode_record(x, views), St(m, {}, i, <<>>, c), St(n, {}, i, i, c))
             /\ At(k, n, {}, i, i, c)
<1> DEFINE S(tt, ii, rr) == St(m, tt, ii, rr, c)
<1> DEFINE n == m \cup {View(x)}
<1>1. At(k, m, {}, i, <<>>, c)
  BY EncoderHolds DEF At, Sound, Rest
<1> DEFINE U == {H264!Cmd, H264!QueryPool, H264!Session, H264!SessionParams, H264!DpbView(0),
                 H264!DpbView(1)}
           dpb == {H264!DpbImage(0), H264!DpbImage(1)}
<1>2. /\ {H264!CmdPool} \subseteq m \cup {} /\ H264!Cmd \in m \cup {} /\ U \subseteq m \cup {}
      /\ \A h \in dpb : h \in DOMAIN i /\ "VIDEO_ENCODE_DPB" = i[h].layout
  BY EncoderHolds
<1> HIDE DEF U, dpb
<1>3. Runs(k, <<Ctx!Try({H264!CmdPool})>>, S({}, i, <<>>), S({}, i, <<>>))
  BY <1>1, <1>2, Tries0
<1>4. /\ Runs(k, <<Ctx!Begin(H264!Cmd)>>, S({}, i, <<>>), S({}, i, i))
      /\ At(k, m, {}, i, i, c)
  BY <1>1, <1>2, Begins
<1>5. Runs(k, <<Ctx!Binds(H264!Cmd, dpb, "VIDEO_ENCODE_DPB")>>, S({}, i, i), S({}, i, i))
  BY <1>2, <1>4, BindsRuns DEF At, Sound
<1>6. Runs(k, <<Ctx!Use(U)>>, S({}, i, i), S({}, i, i))
  BY <1>2, <1>4, Uses
<1>7. Runs(k, H264!begin_coding, S({}, i, <<>>), S({}, i, i))
  <2>1. H264!begin_coding = <<Ctx!Try({H264!CmdPool}), Ctx!Begin(H264!Cmd),
                              Ctx!Binds(H264!Cmd, dpb, "VIDEO_ENCODE_DPB"), Ctx!Use(U)>>
    BY DEF U, dpb, H264!begin_coding, H264!Try, H264!TryOr, H264!Call, H264!Begin, H264!Binds,
           H264!Use, Ctx!Try, Ctx!TryOr, Ctx!Call, Ctx!Begin, Ctx!Binds, Ctx!Use
  <2> QED BY <1>3, <1>4, <1>5, <1>6, <2>1, Calls4
<1> DEFINE made == <<Ctx!Make(View(x), {<<"input", x>>})>>
           kept == <<Ctx!Keep({View(x)})>>
           s == IF x \in views THEN <<>> ELSE made \o kept
<1>8. Runs(k, s, S({}, i, i), St(n, {}, i, i, c)) /\ At(k, n, {}, i, i, c)
  <2>1. CASE x \in views
    <3>1. n = m
      BY <2>1
    <3> QED BY <1>4, <2>1, <3>1, RunsNothing
  <2>2. CASE x \notin views
    <3>1. Plain(m, {}, View(x))
      BY <2>2, ViewApart DEF Fresh, Plain
    <3>2. <<"input", x>> \in External
      BY DEF External
    <3>3. /\ Runs(k, made, S({}, i, i), S({} \cup {View(x)}, i, i))
          /\ Sound(k, m, {} \cup {View(x)}, i, i, c)
      BY <1>4, <3>1, <3>2, MakeFromExternal
    <3>4. {} \cup {View(x)} = {View(x)}
      OBVIOUS
    <3>5. Runs(k, kept, S({View(x)}, i, i),
               St(n, {View(x)} \ {View(x)}, i, i,
                  IF Native!FsrCtx \in {View(x)} THEN k.sizes ELSE c))
      BY KeepRuns
    <3>6. Runs(k, kept, S({View(x)}, i, i), St(n, {}, i, i, c))
      <4>1. {View(x)} \ {View(x)} = {}
        OBVIOUS
      <4> QED BY <3>5, <4>1, ViewApart
    <3>7. Ctx!Fields \subseteq n
      BY <1>1 DEF At
    <3>8. Rest(k, n, i, c)
      BY OneMoreView DEF Rest
    <3>9. n \cup {} = m \cup {View(x)}
      OBVIOUS
    <3>10. Shape(n, {}, i, i)
      BY <3>3, <3>4, <3>9 DEF Sound, Shape
    <3> QED BY <2>2, <3>3, <3>4, <3>6, <3>7, <3>8, <3>10, RunsCat DEF At, Sound
  <2> QED BY <2>1, <2>2
<1> DEFINE V == {H264!Cmd, View(x), H264!OutBuffer, H264!QueryPool}
<1>9. V \subseteq n \cup {} /\ {H264!Cmd} \subseteq n \cup {}
  BY EncoderHolds
<1> HIDE DEF n, V, made, kept, s
<1>10. Runs(k, <<Ctx!Use(V)>>, St(n, {}, i, i, c), St(n, {}, i, i, c))
  BY <1>8, <1>9, Uses
<1>11. Runs(k, <<Ctx!Try({H264!Cmd})>>, St(n, {}, i, i, c), St(n, {}, i, i, c))
  BY <1>8, <1>9, Tries0
<1>12. Runs(k, <<Ctx!Use(V), Ctx!Try({H264!Cmd})>>, St(n, {}, i, i, c), St(n, {}, i, i, c))
  BY <1>10, <1>11, Calls2
<1>13. H264!encode_record(x, views)
         = H264!begin_coding \o s \o <<Ctx!Use(V), Ctx!Try({H264!Cmd})>>
  BY DEF s, made, kept, V, View, H264!encode_record, H264!create_image_view, H264!Make, H264!MakeOr,
         H264!Keep, H264!Use, H264!Try, H264!TryOr, H264!Call, Ctx!Make, Ctx!MakeOr, Ctx!Keep,
         Ctx!Use, Ctx!Try, Ctx!TryOr, Ctx!Call
<1>14. Runs(k, H264!encode_record(x, views), S({}, i, <<>>), St(n, {}, i, i, c))
  BY <1>7, <1>8, <1>12, <1>13, Cat3
<1> QED BY <1>8, <1>14 DEF n

\* VideoEncoder::encode: afterwards the encoder has the view of the image it was
\* given, and all else is as it was.
LEMMA EncodeRuns ==
  ASSUME NEW k, NEW m, NEW i, NEW c, NEW x \in InputImages, NEW views,
         k.comp \in Encoders, k.phase = "call", Ready(k, m, i, c), Shape(m, {}, i, <<>>),
         views = {j \in InputImages : View(j) \in m}
  PROVE  LET n == m \cup {View(x)}
         IN  /\ Runs(k, H264!encode_record(x, views) \o H264!encode_submit
                          \o H264!encode_readback, St(m, {}, i, <<>>, c), St(n, {}, i, <<>>, c))
             /\ Ready(k, n, i, c) /\ Shape(n, {}, i, <<>>)
<1> DEFINE n == m \cup {View(x)}
<1>1. /\ Runs(k, H264!encode_record(x, views), St(m, {}, i, <<>>, c), St(n, {}, i, i, c))
      /\ At(k, n, {}, i, i, c)
  BY EncodeRecordRuns
<1>2. Ready(k, n, i, c) /\ Rest(k, n, i, c)
  BY OneMoreView DEF Rest
<1>3. /\ {H264!Fence} \subseteq n \cup {} /\ {H264!Cmd, H264!Fence} \subseteq n \cup {}
      /\ {H264!QueryPool} \subseteq n \cup {} /\ {H264!OutMemory} \subseteq n \cup {}
  BY EncoderHolds
<1> HIDE DEF n
<1>4. Runs(k, <<Ctx!Try({H264!Fence})>>, St(n, {}, i, i, c), St(n, {}, i, i, c))
  BY <1>1, <1>3, Tries0
<1>5. /\ Runs(k, <<Ctx!Submit(H264!Cmd, H264!Fence)>>, St(n, {}, i, i, c), St(n, {}, i, <<>>, c))
      /\ At(k, n, {}, i, <<>>, c)
  BY <1>1, <1>2, <1>3, Submits
<1>6. /\ Runs(k, <<Ctx!Try({H264!QueryPool})>>, St(n, {}, i, <<>>, c), St(n, {}, i, <<>>, c))
      /\ Runs(k, <<Ctx!Try({H264!OutMemory})>>, St(n, {}, i, <<>>, c), St(n, {}, i, <<>>, c))
  BY <1>3, <1>5, Tries0
<1>7. Runs(k, H264!encode_submit, St(n, {}, i, i, c), St(n, {}, i, <<>>, c))
  <2>1. H264!encode_submit = <<Ctx!Try({H264!Fence}), Ctx!Submit(H264!Cmd, H264!Fence)>>
    BY DEF H264!encode_submit, H264!Try, H264!TryOr, H264!Submit, H264!SubmitOr, H264!Call,
           Ctx!Try, Ctx!TryOr, Ctx!Submit, Ctx!SubmitOr, Ctx!Call
  <2> QED BY <1>4, <1>5, <2>1, Calls2
<1>8. Runs(k, H264!encode_readback, St(n, {}, i, <<>>, c), St(n, {}, i, <<>>, c))
  <2>1. H264!encode_readback = <<Ctx!Try({H264!QueryPool}), Ctx!Try({H264!OutMemory})>>
    BY DEF H264!encode_readback, H264!Try, H264!TryOr, H264!Call, Ctx!Try, Ctx!TryOr, Ctx!Call
  <2> QED BY <1>6, <2>1, Calls2
<1>9. Runs(k, H264!encode_record(x, views) \o H264!encode_submit \o H264!encode_readback,
           St(m, {}, i, <<>>, c), St(n, {}, i, <<>>, c))
  BY <1>1, <1>7, <1>8, Cat3
<1> QED BY <1>2, <1>5, <1>9 DEF n, At, Sound

\* The three backends create, encode and drop in the same order.
LEMMA SameCalls ==
  /\ H265!new = H264!new /\ Av1!new = H264!new
  /\ \A x, views :
       /\ H265!encode_record(x, views) = H264!encode_record(x, views)
       /\ Av1!encode_record(x, views) = H264!encode_record(x, views)
  /\ H265!encode_submit = H264!encode_submit /\ Av1!encode_submit = H264!encode_submit
  /\ H265!encode_readback = H264!encode_readback /\ Av1!encode_readback = H264!encode_readback
  /\ \A s : H265!drop(s) = H264!drop(s) /\ Av1!drop(s) = H264!drop(s)
<1> USE DEF H264!Call, H264!MakeOr, H264!Make, H264!TryOr,
            H264!Try, H264!Use, H264!FreeWith, H264!Free,
            H264!Keep, H264!MakeImage, H264!Begin, H264!Barrier,
            H264!Binds, H264!SubmitOr, H264!Submit, H264!Device,
            H264!SessionMemory, H264!Session, H264!SessionParams, H264!OutBuffer,
            H264!OutMemory, H264!QueryPool, H264!CmdPool, H264!Cmd,
            H264!Fence, H264!DpbImage, H264!DpbMemory, H264!DpbView,
            H264!InputView, H264!Fields, H264!DPB_SLOTS, H264!bind_session_memory,
            H264!fetch_parameter_sets_blob, H264!create_image_view, H264!create_dpb_slot,
            H264!create_dpb_pool,
            H264!create_output_buffer, H264!create_encode_query_pool, H264!cmd_transition,
            H264!transition_dpb_to_initial_layout,
            H264!initialize_rate_control
<1> USE DEF H265!Call, H265!MakeOr, H265!Make, H265!TryOr,
            H265!Try, H265!Use, H265!FreeWith, H265!Free,
            H265!Keep, H265!MakeImage, H265!Begin, H265!Barrier,
            H265!Binds, H265!SubmitOr, H265!Submit, H265!Device,
            H265!SessionMemory, H265!Session, H265!SessionParams, H265!OutBuffer,
            H265!OutMemory, H265!QueryPool, H265!CmdPool, H265!Cmd,
            H265!Fence, H265!DpbImage, H265!DpbMemory, H265!DpbView,
            H265!InputView, H265!Fields, H265!DPB_SLOTS, H265!bind_session_memory,
            H265!fetch_parameter_sets_blob, H265!create_image_view, H265!create_dpb_slot,
            H265!create_dpb_pool,
            H265!create_output_buffer, H265!create_encode_query_pool, H265!cmd_transition,
            H265!transition_dpb_to_initial_layout,
            H265!initialize_rate_control
<1> USE DEF Av1!Call, Av1!MakeOr, Av1!Make, Av1!TryOr,
            Av1!Try, Av1!Use, Av1!FreeWith, Av1!Free,
            Av1!Keep, Av1!MakeImage, Av1!Begin, Av1!Barrier,
            Av1!Binds, Av1!SubmitOr, Av1!Submit, Av1!Device,
            Av1!SessionMemory, Av1!Session, Av1!SessionParams, Av1!OutBuffer,
            Av1!OutMemory, Av1!QueryPool, Av1!CmdPool, Av1!Cmd,
            Av1!Fence, Av1!DpbImage, Av1!DpbMemory, Av1!DpbView,
            Av1!InputView, Av1!Fields, Av1!DPB_SLOTS, Av1!bind_session_memory,
            Av1!fetch_parameter_sets_blob, Av1!create_image_view, Av1!create_dpb_slot,
            Av1!create_dpb_pool,
            Av1!create_output_buffer, Av1!create_encode_query_pool, Av1!cmd_transition,
            Av1!transition_dpb_to_initial_layout,
            Av1!initialize_rate_control
<1>1. H265!new = H264!new /\ Av1!new = H264!new
  BY DEF H264!new, H265!new, Av1!new
<1>2. ASSUME NEW x, NEW views
      PROVE  /\ H265!encode_record(x, views) = H264!encode_record(x, views)
             /\ Av1!encode_record(x, views) = H264!encode_record(x, views)
  BY DEF H264!encode_record, H265!encode_record, Av1!encode_record, H264!begin_coding,
         H265!begin_coding, Av1!begin_coding
<1>3. /\ H265!encode_submit = H264!encode_submit /\ Av1!encode_submit = H264!encode_submit
      /\ H265!encode_readback = H264!encode_readback /\ Av1!encode_readback = H264!encode_readback
  BY DEF H264!encode_submit, H265!encode_submit, Av1!encode_submit, H264!encode_readback,
         H265!encode_readback, Av1!encode_readback
<1>4. ASSUME NEW s
      PROVE  H265!drop(s) = H264!drop(s) /\ Av1!drop(s) = H264!drop(s)
  BY DEF H264!drop, H265!drop, Av1!drop
<1> QED BY <1>1, <1>2, <1>3, <1>4

\* s is the list of S that ViewSeq chooses.
Lists(s, S) == s = CHOOSE q \in [1 .. Cardinality(S) -> S] : {q[j] : j \in DOMAIN q} = S

\* A list of a finite set that is as long as the set has members names each once.
LEMMA Listed ==
  ASSUME NEW S, IsFiniteSet(S), NEW s, Lists(s, S)
  PROVE  /\ s \in Seq(S) /\ Len(s) \in Nat
         /\ \A x \in S : \E j \in 1 .. Len(s) : s[j] = x
         /\ \A j, l \in 1 .. Len(s) : s[j] = s[l] => j = l
<1> DEFINE n == Cardinality(S)
<1>1. n \in Nat /\ ExistsBijection(1 .. n, S)
  BY FS_CardinalityType
<1> HIDE DEF n
<1>2. PICK b : b \in Surjection(1 .. n, S)
  BY <1>1 DEF ExistsBijection, Bijection
<1>3. b \in [1 .. n -> S] /\ {b[j] : j \in DOMAIN b} = S
  BY <1>2 DEF Surjection
<1>4. s \in [1 .. n -> S] /\ {s[j] : j \in DOMAIN s} = S
  BY <1>3 DEF n, Lists
<1>5. s \in Seq(S) /\ Len(s) = n
  BY <1>1, <1>4
<1>6. \A x \in S : \E j \in 1 .. n : s[j] = x
  BY <1>4
<1>7. s \in Surjection(1 .. n, S)
  BY <1>4, <1>6 DEF Surjection
<1>8. IsFiniteSet(1 .. n) /\ Cardinality(1 .. n) = Cardinality(S)
  BY <1>1, FS_Interval DEF n
<1>9. s \in Injection(1 .. n, S)
  BY <1>7, <1>8, FS_SurjSameCardinalityImpliesInj
<1>10. \A j, l \in 1 .. n : s[j] = s[l] => j = l
  BY <1>4, <1>9 DEF Injection, IsInjective
<1> QED BY <1>5, <1>6, <1>10

\* Nothing is made from a view.
LEMMA ViewBarren ==
  ASSUME NEW x
  PROVE  Barren(View(x))
  BY DEF Barren, View, H264!InputView, Origin, Ctx!Instance, Ctx!Device, Ctx!CommandPool,
         Fsr2!DescPool, Native!Image, H264!Session, H264!CmdPool, H264!DpbImage, External

\* input_views.drain(): every view is destroyed, and once.
LEMMA DropViewsRuns ==
  ASSUME NEW k, NEW m, NEW i, NEW r, NEW c, NEW S, NEW s, S \subseteq InputImages,
         IsFiniteSet(S), \A x \in S : View(x) \in m, IsFcn(i), Lists(s, S)
  PROVE  LET all == {View(x) : x \in S}
         IN  Runs(k, [j \in 1 .. Len(s) |-> H264!Free(H264!InputView(s[j]))], St(m, {}, i, r, c),
                  St(m \ all, {}, Without(i, all), r, c))
<1> DEFINE all == {View(x) : x \in S}
           f == [j \in 1 .. Len(s) |-> View(s[j])]
           d == [j \in 1 .. Len(s) |-> H264!Free(H264!InputView(s[j]))]
<1> HIDE DEF all, f, d
<1>1. /\ s \in Seq(S) /\ Len(s) \in Nat
      /\ \A x \in S : \E j \in 1 .. Len(s) : s[j] = x
      /\ \A j, l \in 1 .. Len(s) : s[j] = s[l] => j = l
  BY Listed
<1> USE DEF all, f, d
<1>2. \A j \in 1 .. Len(s) : s[j] \in S
  BY <1>1
<1>3. d \in Seq({d[j] : j \in 1 .. Len(s)}) /\ Len(d) = Len(s) /\ IsSeq(d)
  <2> DEFINE T == {d[j] : j \in 1 .. Len(s)}
  <2>1. d \in [1 .. Len(s) -> T]
    OBVIOUS
  <2>2. DOMAIN d = 1 .. Len(s)
    OBVIOUS
  <2> HIDE DEF d, T
  <2>3. d \in Seq(T) /\ Len(d) = Len(s)
    BY <1>1, <2>1
  <2> QED BY <2>2, <2>3 DEF IsSeq, T
<1>4. \A j \in 1 .. Len(s) : d[j] = Ctx!Free(f[j]) /\ f[j] = View(s[j])
  BY DEF View, H264!Free, H264!FreeWith, H264!Call, Ctx!Free, Ctx!FreeWith, Ctx!Call
<1>5. \A x, y : View(x) = View(y) => x = y
  BY DEF View, H264!InputView
<1>6. \A x : Barren(View(x))
  BY ViewBarren
<1> HIDE DEF d, f
<1>7. Destroys(k, m, {}, d, f, all)
  <2>1. \A j \in 1 .. Len(d) : d[j] = Ctx!Free(f[j]) /\ f[j] \in m \cup {} /\ f[j] \in all
    BY <1>2, <1>3, <1>4
  <2>2. ASSUME NEW h \in all PROVE \E j \in 1 .. Len(d) : f[j] = h
    <3>1. PICK x \in S : h = View(x)
      OBVIOUS
    <3>2. PICK j \in 1 .. Len(s) : s[j] = x
      BY <1>1
    <3> QED BY <1>3, <1>4, <3>1, <3>2
  <2>3. \A j, l \in 1 .. Len(d) : f[j] = f[l] => j = l
    BY <1>1, <1>3, <1>4, <1>5
  <2>4. \A j \in 1 .. Len(d) : \A g : ~Origin(g, f[j])
    BY <1>3, <1>4, <1>6 DEF Barren
  <2> QED BY <1>3, <2>1, <2>2, <2>3, <2>4 DEF Destroys
<1>8. Runs(k, d, St(m, {}, i, r, c), St(m \ all, {} \ all, Without(i, all), r, c))
  BY <1>7, FreesRun
<1>9. {} \ all = {}
  OBVIOUS
<1> QED BY <1>8, <1>9 DEF d

\* A handle of the component is destroyed.
LEMMA FreeMine ==
  ASSUME NEW k, NEW m, NEW i, NEW r, NEW c, NEW h, h \in m, Childless(k, m, {}, {h})
  PROVE  Runs(k, <<Ctx!Free(h)>>, St(m, {}, i, r, c), St(m \ {h}, {}, Without(i, {h}), r, c))
<1>1. Runs(k, <<Ctx!Free(h)>>, St(m, {}, i, r, c), St(m \ {h}, {} \ {h}, Without(i, {h}), r, c))
  BY FreeRuns
<1>2. {} \ {h} = {}
  OBVIOUS
<1> QED BY <1>1, <1>2

\* Nothing is made from the memory and views of the reference slots.
LEMMA Barren3 ==
  /\ Barren(H264!DpbMemory(0)) /\ Barren(H264!DpbMemory(1))
  /\ Barren(H264!DpbView(0)) /\ Barren(H264!DpbView(1))
  /\ Barren(<<"session_memory", 0>>) /\ Barren(<<"session_memory", 1>>)
  BY DEF H264!DpbMemory, H264!DpbView, Barren, Origin, Ctx!Instance, Ctx!Device, Ctx!CommandPool,
       Fsr2!DescPool, Native!Image,
         H264!Session, H264!CmdPool, H264!DpbImage, External

\* What is made from the encoders' own objects.
LEMMA ChildrenOf ==
  ASSUME NEW g
  PROVE  /\ Origin(g, H264!Session) => g = H264!SessionParams
         /\ Origin(g, H264!CmdPool) => g \in {H264!Cmd, <<"init_cmd">>, <<"rc_cmd">>}
         /\ Origin(g, H264!DpbImage(0)) => g = H264!DpbView(0)
         /\ Origin(g, H264!DpbImage(1)) => g = H264!DpbView(1)
  BY DEF Origin, Ctx!Instance, Ctx!Device, Ctx!CommandPool, Fsr2!DescPool, Native!Image,
         H264!Session, H264!CmdPool, H264!DpbImage, H264!DpbView, External

\* The rest of an encoder's Drop.
LEMMA DropFieldsRuns ==
  ASSUME NEW k, NEW m, NEW i, NEW r, NEW c, m = Ctx!Fields \cup H264!Fields
  PROVE  \E j : /\ Runs(k, <<Ctx!Free(H264!Fence), Ctx!FreeWith(H264!CmdPool, {H264!Cmd,
                   <<"init_cmd">>, <<"rc_cmd">>}), Ctx!Free(H264!QueryPool),
                       Ctx!Free(H264!OutBuffer), Ctx!Free(H264!OutMemory), Ctx!Free(H264!DpbView(0)),
                       Ctx!Free(H264!DpbImage(0)), Ctx!Free(H264!DpbMemory(0)),
                       Ctx!Free(H264!DpbView(1)),
                       Ctx!Free(H264!DpbImage(1)), Ctx!Free(H264!DpbMemory(1)),
                       Ctx!Free(H264!SessionParams),
                       Ctx!Free(H264!Session), Ctx!Free(<<"session_memory", 0>>),
                       Ctx!Free(<<"session_memory", 1>>)>>,
                        St(m, {}, i, r, c), St(Ctx!Fields, {}, j, r, c))
                /\ IsFcn(j)
<1> USE DEF Ctx!Instance, Ctx!Device, Ctx!CommandPool, H264!Session, H264!SessionParams, H264!OutBuffer,
           H264!OutMemory, H264!QueryPool, H264!CmdPool, H264!Cmd, H264!Fence, H264!DpbImage,
           H264!DpbMemory, H264!DpbView, H264!InputView
<1> DEFINE m0 == {Ctx!Instance, Ctx!Device, Ctx!CommandPool,
                   <<"session_memory", 0>>, <<"session_memory", 1>>, H264!Session,
                   H264!SessionParams, H264!OutBuffer, H264!OutMemory,
                   H264!QueryPool, H264!CmdPool, H264!Cmd,
                   H264!Fence, H264!DpbImage(0), H264!DpbMemory(0),
                   H264!DpbView(0), H264!DpbImage(1), H264!DpbMemory(1),
                   H264!DpbView(1)}
           i0 == i
           m1 == {Ctx!Instance, Ctx!Device, Ctx!CommandPool,
                   <<"session_memory", 0>>, <<"session_memory", 1>>, H264!Session,
                   H264!SessionParams, H264!OutBuffer, H264!OutMemory,
                   H264!QueryPool, H264!CmdPool, H264!Cmd,
                   H264!DpbImage(0), H264!DpbMemory(0), H264!DpbView(0),
                   H264!DpbImage(1), H264!DpbMemory(1), H264!DpbView(1)}
           i1 == Without(i0, {H264!Fence})
           m2 == {Ctx!Instance, Ctx!Device, Ctx!CommandPool,
                   <<"session_memory", 0>>, <<"session_memory", 1>>, H264!Session,
                   H264!SessionParams, H264!OutBuffer, H264!OutMemory,
                   H264!QueryPool, H264!DpbImage(0), H264!DpbMemory(0),
                   H264!DpbView(0), H264!DpbImage(1), H264!DpbMemory(1),
                   H264!DpbView(1)}
           i2 == Without(i1, ({H264!CmdPool} \cup {H264!Cmd, <<"init_cmd">>, <<"rc_cmd">>}))
           m3 == {Ctx!Instance, Ctx!Device, Ctx!CommandPool,
                   <<"session_memory", 0>>, <<"session_memory", 1>>, H264!Session,
                   H264!SessionParams, H264!OutBuffer, H264!OutMemory,
                   H264!DpbImage(0), H264!DpbMemory(0), H264!DpbView(0),
                   H264!DpbImage(1), H264!DpbMemory(1), H264!DpbView(1)}
           i3 == Without(i2, {H264!QueryPool})
           m4 == {Ctx!Instance, Ctx!Device, Ctx!CommandPool,
                   <<"session_memory", 0>>, <<"session_memory", 1>>, H264!Session,
                   H264!SessionParams, H264!OutMemory, H264!DpbImage(0),
                   H264!DpbMemory(0), H264!DpbView(0), H264!DpbImage(1),
                   H264!DpbMemory(1), H264!DpbView(1)}
           i4 == Without(i3, {H264!OutBuffer})
           m5 == {Ctx!Instance, Ctx!Device, Ctx!CommandPool,
                   <<"session_memory", 0>>, <<"session_memory", 1>>, H264!Session,
                   H264!SessionParams, H264!DpbImage(0), H264!DpbMemory(0),
                   H264!DpbView(0), H264!DpbImage(1), H264!DpbMemory(1),
                   H264!DpbView(1)}
           i5 == Without(i4, {H264!OutMemory})
           m6 == {Ctx!Instance, Ctx!Device, Ctx!CommandPool,
                   <<"session_memory", 0>>, <<"session_memory", 1>>, H264!Session,
                   H264!SessionParams, H264!DpbImage(0), H264!DpbMemory(0),
                   H264!DpbImage(1), H264!DpbMemory(1), H264!DpbView(1)}
           i6 == Without(i5, {H264!DpbView(0)})
           m7 == {Ctx!Instance, Ctx!Device, Ctx!CommandPool,
                   <<"session_memory", 0>>, <<"session_memory", 1>>, H264!Session,
                   H264!SessionParams, H264!DpbMemory(0), H264!DpbImage(1),
                   H264!DpbMemory(1), H264!DpbView(1)}
           i7 == Without(i6, {H264!DpbImage(0)})
           m8 == {Ctx!Instance, Ctx!Device, Ctx!CommandPool,
                   <<"session_memory", 0>>, <<"session_memory", 1>>, H264!Session,
                   H264!SessionParams, H264!DpbImage(1), H264!DpbMemory(1),
                   H264!DpbView(1)}
           i8 == Without(i7, {H264!DpbMemory(0)})
           m9 == {Ctx!Instance, Ctx!Device, Ctx!CommandPool,
                   <<"session_memory", 0>>, <<"session_memory", 1>>, H264!Session,
                   H264!SessionParams, H264!DpbImage(1), H264!DpbMemory(1)}
           i9 == Without(i8, {H264!DpbView(1)})
           m10 == {Ctx!Instance, Ctx!Device, Ctx!CommandPool,
                   <<"session_memory", 0>>, <<"session_memory", 1>>, H264!Session,
                   H264!SessionParams, H264!DpbMemory(1)}
           i10 == Without(i9, {H264!DpbImage(1)})
           m11 == {Ctx!Instance, Ctx!Device, Ctx!CommandPool,
                   <<"session_memory", 0>>, <<"session_memory", 1>>, H264!Session,
                   H264!SessionParams}
           i11 == Without(i10, {H264!DpbMemory(1)})
           m12 == {Ctx!Instance, Ctx!Device, Ctx!CommandPool,
                   <<"session_memory", 0>>, <<"session_memory", 1>>, H264!Session}
           i12 == Without(i11, {H264!SessionParams})
           m13 == {Ctx!Instance, Ctx!Device, Ctx!CommandPool,
                   <<"session_memory", 0>>, <<"session_memory", 1>>}
           i13 == Without(i12, {H264!Session})
           m14 == {Ctx!Instance, Ctx!Device, Ctx!CommandPool,
                   <<"session_memory", 1>>}
           i14 == Without(i13, {<<"session_memory", 0>>})
           m15 == {Ctx!Instance, Ctx!Device, Ctx!CommandPool}
           i15 == Without(i14, {<<"session_memory", 1>>})
<1> HIDE DEF m0, i0, m1, i1, m2, i2, m3, i3, m4, i4, m5, i5, m6, i6, m7, i7, m8, i8, m9, i9, m10,
            i10, m11, i11, m12, i12, m13, i13, m14, i14, m15, i15
<1>1. m = m0
  BY EncoderFieldsAre DEF Ctx!Fields, m0
<1>2. Runs(k, <<Ctx!Free(H264!Fence)>>, St(m0, {}, i0, r, c),
               St(m1, {}, i1, r, c))
  <2>1. H264!Fence \in m0 /\ m1 = m0 \ {H264!Fence} /\ {} \ {H264!Fence} = {}
    BY DEF m0, m1
  <2>2. Childless(k, m0, {}, {H264!Fence})
    BY Barren1, BarrenChildless
  <2> QED BY <2>1, <2>2, FreeMine DEF i1
<1>3. Runs(k, <<Ctx!FreeWith(H264!CmdPool, {H264!Cmd, <<"init_cmd">>, <<"rc_cmd">>})>>, St(m1, {},
      i1, r, c),
               St(m2, {}, i2, r, c))
  <2>1. H264!CmdPool \in m1 /\ m2 = m1 \ ({H264!CmdPool} \cup {H264!Cmd, <<"init_cmd">>,
        <<"rc_cmd">>}) /\ {} \ ({H264!CmdPool} \cup {H264!Cmd, <<"init_cmd">>, <<"rc_cmd">>}) = {}
    BY DEF m1, m2
  <2>2. Childless(k, m1, {}, ({H264!CmdPool} \cup {H264!Cmd, <<"init_cmd">>, <<"rc_cmd">>}))
    <3>1. Barren(H264!Cmd) /\ Barren(<<"init_cmd">>) /\ Barren(<<"rc_cmd">>)
      BY Barren1
    <3> HIDE DEF H264!CmdPool, H264!Cmd
    <3> QED BY <3>1, ChildrenOf DEF Childless, Barren
  <2> QED BY <2>1, <2>2, FreeWithRuns DEF i2
<1>4. Runs(k, <<Ctx!Free(H264!QueryPool)>>, St(m2, {}, i2, r, c),
               St(m3, {}, i3, r, c))
  <2>1. H264!QueryPool \in m2 /\ m3 = m2 \ {H264!QueryPool} /\ {} \ {H264!QueryPool} = {}
    BY DEF m2, m3
  <2>2. Childless(k, m2, {}, {H264!QueryPool})
    BY Barren1, BarrenChildless
  <2> QED BY <2>1, <2>2, FreeMine DEF i3
<1>5. Runs(k, <<Ctx!Free(H264!OutBuffer)>>, St(m3, {}, i3, r, c),
               St(m4, {}, i4, r, c))
  <2>1. H264!OutBuffer \in m3 /\ m4 = m3 \ {H264!OutBuffer} /\ {} \ {H264!OutBuffer} = {}
    BY DEF m3, m4
  <2>2. Childless(k, m3, {}, {H264!OutBuffer})
    BY Barren1, BarrenChildless
  <2> QED BY <2>1, <2>2, FreeMine DEF i4
<1>6. Runs(k, <<Ctx!Free(H264!OutMemory)>>, St(m4, {}, i4, r, c),
               St(m5, {}, i5, r, c))
  <2>1. H264!OutMemory \in m4 /\ m5 = m4 \ {H264!OutMemory} /\ {} \ {H264!OutMemory} = {}
    BY DEF m4, m5
  <2>2. Childless(k, m4, {}, {H264!OutMemory})
    BY Barren1, BarrenChildless
  <2> QED BY <2>1, <2>2, FreeMine DEF i5
<1>7. Runs(k, <<Ctx!Free(H264!DpbView(0))>>, St(m5, {}, i5, r, c),
               St(m6, {}, i6, r, c))
  <2>1. H264!DpbView(0) \in m5 /\ m6 = m5 \ {H264!DpbView(0)} /\ {} \ {H264!DpbView(0)} = {}
    BY DEF m5, m6
  <2>2. Childless(k, m5, {}, {H264!DpbView(0)})
    BY Barren3, BarrenChildless
  <2> QED BY <2>1, <2>2, FreeMine DEF i6
<1>8. Runs(k, <<Ctx!Free(H264!DpbImage(0))>>, St(m6, {}, i6, r, c),
               St(m7, {}, i7, r, c))
  <2>1. H264!DpbImage(0) \in m6 /\ m7 = m6 \ {H264!DpbImage(0)} /\ {} \ {H264!DpbImage(0)} = {}
    BY DEF m6, m7
  <2>2. Childless(k, m6, {}, {H264!DpbImage(0)})
    BY ChildrenOf DEF Childless, m6
  <2> QED BY <2>1, <2>2, FreeMine DEF i7
<1>9. Runs(k, <<Ctx!Free(H264!DpbMemory(0))>>, St(m7, {}, i7, r, c),
               St(m8, {}, i8, r, c))
  <2>1. H264!DpbMemory(0) \in m7 /\ m8 = m7 \ {H264!DpbMemory(0)} /\ {} \ {H264!DpbMemory(0)} = {}
    BY DEF m7, m8
  <2>2. Childless(k, m7, {}, {H264!DpbMemory(0)})
    BY Barren3, BarrenChildless
  <2> QED BY <2>1, <2>2, FreeMine DEF i8
<1>10. Runs(k, <<Ctx!Free(H264!DpbView(1))>>, St(m8, {}, i8, r, c),
               St(m9, {}, i9, r, c))
  <2>1. H264!DpbView(1) \in m8 /\ m9 = m8 \ {H264!DpbView(1)} /\ {} \ {H264!DpbView(1)} = {}
    BY DEF m8, m9
  <2>2. Childless(k, m8, {}, {H264!DpbView(1)})
    BY Barren3, BarrenChildless
  <2> QED BY <2>1, <2>2, FreeMine DEF i9
<1>11. Runs(k, <<Ctx!Free(H264!DpbImage(1))>>, St(m9, {}, i9, r, c),
               St(m10, {}, i10, r, c))
  <2>1. H264!DpbImage(1) \in m9 /\ m10 = m9 \ {H264!DpbImage(1)} /\ {} \ {H264!DpbImage(1)} = {}
    BY DEF m9, m10
  <2>2. Childless(k, m9, {}, {H264!DpbImage(1)})
    BY ChildrenOf DEF Childless, m9
  <2> QED BY <2>1, <2>2, FreeMine DEF i10
<1>12. Runs(k, <<Ctx!Free(H264!DpbMemory(1))>>, St(m10, {}, i10, r, c),
               St(m11, {}, i11, r, c))
  <2>1. H264!DpbMemory(1) \in m10 /\ m11 = m10 \ {H264!DpbMemory(1)} /\ {} \ {H264!DpbMemory(1)} = {}
    BY DEF m10, m11
  <2>2. Childless(k, m10, {}, {H264!DpbMemory(1)})
    BY Barren3, BarrenChildless
  <2> QED BY <2>1, <2>2, FreeMine DEF i11
<1>13. Runs(k, <<Ctx!Free(H264!SessionParams)>>, St(m11, {}, i11, r, c),
               St(m12, {}, i12, r, c))
  <2>1. H264!SessionParams \in m11 /\ m12 = m11 \ {H264!SessionParams} /\ {} \ {H264!SessionParams} = {}
    BY DEF m11, m12
  <2>2. Childless(k, m11, {}, {H264!SessionParams})
    BY Barren1, BarrenChildless
  <2> QED BY <2>1, <2>2, FreeMine DEF i12
<1>14. Runs(k, <<Ctx!Free(H264!Session)>>, St(m12, {}, i12, r, c),
               St(m13, {}, i13, r, c))
  <2>1. H264!Session \in m12 /\ m13 = m12 \ {H264!Session} /\ {} \ {H264!Session} = {}
    BY DEF m12, m13
  <2>2. Childless(k, m12, {}, {H264!Session})
    BY ChildrenOf DEF Childless, m12
  <2> QED BY <2>1, <2>2, FreeMine DEF i13
<1>15. Runs(k, <<Ctx!Free(<<"session_memory", 0>>)>>, St(m13, {}, i13, r, c),
               St(m14, {}, i14, r, c))
  <2>1. <<"session_memory", 0>> \in m13 /\ m14 = m13 \ {<<"session_memory",
        0>>} /\ {} \ {<<"session_memory", 0>>} = {}
    BY DEF m13, m14
  <2>2. Childless(k, m13, {}, {<<"session_memory", 0>>})
    BY Barren3, BarrenChildless
  <2> QED BY <2>1, <2>2, FreeMine DEF i14
<1>16. Runs(k, <<Ctx!Free(<<"session_memory", 1>>)>>, St(m14, {}, i14, r, c),
               St(m15, {}, i15, r, c))
  <2>1. <<"session_memory", 1>> \in m14 /\ m15 = m14 \ {<<"session_memory",
        1>>} /\ {} \ {<<"session_memory", 1>>} = {}
    BY DEF m14, m15
  <2>2. Childless(k, m14, {}, {<<"session_memory", 1>>})
    BY Barren3, BarrenChildless
  <2> QED BY <2>1, <2>2, FreeMine DEF i15
<1>17. Runs(k, <<Ctx!Free(H264!Fence), Ctx!FreeWith(H264!CmdPool, {H264!Cmd, <<"init_cmd">>,
       <<"rc_cmd">>}), Ctx!Free(H264!QueryPool),
                    Ctx!Free(H264!OutBuffer), Ctx!Free(H264!OutMemory), Ctx!Free(H264!DpbView(0)),
                    Ctx!Free(H264!DpbImage(0)), Ctx!Free(H264!DpbMemory(0))>>,
               St(m0, {}, i0, r, c), St(m8, {}, i8, r, c))
  BY <1>2, <1>3, <1>4, <1>5, <1>6, <1>7, <1>8, <1>9, Calls8
<1>18. Runs(k, <<Ctx!Free(H264!DpbView(1)), Ctx!Free(H264!DpbImage(1)), Ctx!Free(H264!DpbMemory(1)),
                    Ctx!Free(H264!SessionParams), Ctx!Free(H264!Session),
                    Ctx!Free(<<"session_memory", 0>>),
                    Ctx!Free(<<"session_memory", 1>>)>>,
               St(m8, {}, i8, r, c), St(m15, {}, i15, r, c))
  BY <1>10, <1>11, <1>12, <1>13, <1>14, <1>15, <1>16, Calls7
<1>19. Runs(k, <<Ctx!Free(H264!Fence), Ctx!FreeWith(H264!CmdPool, {H264!Cmd, <<"init_cmd">>,
       <<"rc_cmd">>}), Ctx!Free(H264!QueryPool),
                    Ctx!Free(H264!OutBuffer), Ctx!Free(H264!OutMemory), Ctx!Free(H264!DpbView(0)),
                    Ctx!Free(H264!DpbImage(0)), Ctx!Free(H264!DpbMemory(0)), Ctx!Free(H264!DpbView(1)),
                    Ctx!Free(H264!DpbImage(1)), Ctx!Free(H264!DpbMemory(1)),
                    Ctx!Free(H264!SessionParams),
                    Ctx!Free(H264!Session), Ctx!Free(<<"session_memory", 0>>),
                    Ctx!Free(<<"session_memory", 1>>)>>,
               St(m0, {}, i0, r, c), St(m15, {}, i15, r, c))
  BY <1>17, <1>18, Calls15
<1>20. m15 = Ctx!Fields /\ IsFcn(i15) /\ i0 = i
  BY WithoutFacts DEF m15, i15, i0, Ctx!Fields
<1> QED BY <1>1, <1>19, <1>20

\* Drop of an encoder: the views, then everything else, each after what was made
\* from it; the context is all that is left.
LEMMA EncoderDropRuns ==
  ASSUME NEW k, NEW m, NEW i, NEW c, NEW S, NEW s, k.comp \in Encoders,
         Ready(k, m, i, c), Shape(m, {}, i, <<>>),
         S = {x \in InputImages : View(x) \in m}, Lists(s, S)
  PROVE  \E j : /\ Runs(k, H264!drop(s), St(m, {}, i, <<>>, c), St(Ctx!Fields, {}, j, <<>>, c))
                /\ IsFcn(j)
<1> DEFINE all == {View(x) : x \in S}
           d == [j \in 1 .. Len(s) |-> H264!Free(H264!InputView(s[j]))]
           e == <<Ctx!Free(H264!Fence), Ctx!FreeWith(H264!CmdPool, {H264!Cmd, <<"init_cmd">>,
            <<"rc_cmd">>}), Ctx!Free(H264!QueryPool),
              Ctx!Free(H264!OutBuffer), Ctx!Free(H264!OutMemory), Ctx!Free(H264!DpbView(0)),
              Ctx!Free(H264!DpbImage(0)), Ctx!Free(H264!DpbMemory(0)), Ctx!Free(H264!DpbView(1)),
              Ctx!Free(H264!DpbImage(1)), Ctx!Free(H264!DpbMemory(1)), Ctx!Free(H264!SessionParams),
              Ctx!Free(H264!Session), Ctx!Free(<<"session_memory", 0>>),
              Ctx!Free(<<"session_memory", 1>>)>>
<1>1. IsFiniteSet(S) /\ S \subseteq InputImages /\ \A x \in S : View(x) \in m
  BY GpuAssumption, FS_Subset
<1>2. IsFcn(i)
  BY DEF Shape, Pics
<1>3. m \ all = Ctx!Fields \cup H264!Fields
  <2>1. /\ Ctx!Fields \cup H264!Fields \subseteq m
        /\ m \subseteq Ctx!Fields \cup H264!Fields \cup {View(j) : j \in InputImages}
    BY DEF Ready, Held, Encoders
  <2>2. \A x : View(x) \notin Ctx!Fields \cup H264!Fields
    BY EncoderFieldsAre DEF Ctx!Fields, View, H264!InputView, Ctx!Instance, Ctx!Device,
       Ctx!CommandPool, H264!Session, H264!SessionParams, H264!OutBuffer, H264!OutMemory,
       H264!QueryPool, H264!CmdPool, H264!Cmd, H264!Fence, H264!DpbImage, H264!DpbMemory,
       H264!DpbView
  <2>3. \A x \in InputImages : View(x) \in m => View(x) \in all
    OBVIOUS
  <2> QED BY <2>1, <2>2, <2>3
<1>4. Runs(k, d, St(m, {}, i, <<>>, c), St(m \ all, {}, Without(i, all), <<>>, c))
  BY <1>1, <1>2, DropViewsRuns
<1> HIDE DEF all
<1>5. PICK j : /\ Runs(k, e, St(m \ all, {}, Without(i, all), <<>>, c), St(Ctx!Fields, {}, j, <<>>, c))
               /\ IsFcn(j)
  BY <1>3, DropFieldsRuns
<1>6. H264!drop(s) = d \o e
  BY DEF H264!drop, H264!Free, H264!FreeWith, H264!Call, Ctx!Free, Ctx!FreeWith, Ctx!Call
<1> HIDE DEF d, e
<1>7. Runs(k, d \o e, St(m, {}, i, <<>>, c), St(Ctx!Fields, {}, j, <<>>, c))
  BY <1>4, <1>5, RunsCat
<1> QED BY <1>5, <1>6, <1>7

-----------------------------------------------------------------------------
(* The inductive invariant *)

\* What the running function may leave when it returns Ok.
Finished(k, m, i, c) ==
  /\ k.phase = "context" => m = Ctx!Fields /\ i = <<>> /\ c = NoSizes
  /\ k.phase \in {"new", "call"} => Ready(k, m, i, c) /\ Shape(m, {}, i, <<>>)
  /\ k.phase = "drop" => /\ IsFcn(i) /\ Ctx!Fields \subseteq m
                         /\ k.comp # "fsr3" => m = Ctx!Fields
  /\ k.phase = "release" => (k.comp # "fsr3" => m = {})

\* The rest of the running function is given what it needs, call by call, and ends
\* with no local handle and nothing recorded.
Running(k, s, m, t, i, r, c) ==
  \E n, j, d : /\ Runs(k, s, St(m, t, i, r, c), St(n, {}, j, <<>>, d))
               /\ Finished(k, n, j, d)

\* Which function runs for whom.
Which(comp, nat, ph, sz) == [comp |-> comp, native |-> nat, phase |-> ph, sizes |-> sz]

\* The phases in which a function runs.
Steps == {"context", "new", "call", "drop", "release"}

\* A live handle's recorded parents are those this code makes it from.
Family == \A e \in parent : e[1] \in mine \cup temp /\ Origin(e[1], e[2])

\* The inductive invariant: the running function is given what its remaining calls need,
\* a component that runs none is ready, one that is gone holds nothing, and without a
\* failed call nothing is lost.
GpuInv ==
  /\ component \in Components /\ native \in BOOLEAN /\ (native => component = "fsr2")
  /\ phase \in Phases /\ failures \in Nat
  /\ phase \in Steps =>
       Running(Which(component, native, phase, sizes), todo, mine, temp, img, rec, cached)
  /\ phase = "ready" =>
       /\ todo = <<>> /\ temp = {} /\ rec = <<>>
       /\ Ready(Which(component, native, phase, sizes), mine, img, cached)
       /\ Shape(mine, {}, img, <<>>)
  /\ phase = "gone" => todo = <<>> /\ temp = {} /\ (component # "fsr3" => mine = {})
  /\ Family
  /\ failures = 0 => lost \subseteq Fsr2!UnfreeableSets

\* What a component at rest is depends on what it is, not on the call.
LEMMA ReadyFor ==
  ASSUME NEW k, NEW l, NEW m, NEW i, NEW c, k.comp = l.comp, k.native = l.native,
         Ready(k, m, i, c)
  PROVE  Ready(l, m, i, c)
  BY DEF Ready, Held, NativeImages

\* The names of the components.
LEMMA ComponentNames ==
  ASSUME NEW x \in Components
  PROVE  x \in {"context", "fsr2", "fsr3", "h264", "h265", "av1"}
  BY GpuAssumption

\* The function that creates the component, from a fresh context.
LEMMA NewRuns ==
  ASSUME NEW k, k.phase = "new", k.comp = component, k.native = native,
         component \in Components, native \in BOOLEAN
  PROVE  Running(k, New, Ctx!Fields, {}, <<>>, <<>>, NoSizes)
<1> DEFINE x == St(Ctx!Fields, {}, <<>>, <<>>, NoSizes)
<1>1. At(k, Ctx!Fields, {}, <<>>, <<>>, NoSizes)
  BY NoPics DEF At, Sound, Shape, Rest
<1>2. CASE component = "context"
  <2>1. New = <<>>
    BY <1>2 DEF New
  <2>2. Ready(k, Ctx!Fields, <<>>, NoSizes) /\ Shape(Ctx!Fields, {}, <<>>, <<>>)
    BY <1>1, <1>2 DEF Ready, Held, At, Sound, Encoders
  <2> QED BY <2>1, <2>2, RunsNothing DEF Running, Finished
<1>3. CASE component = "fsr2"
  <2> DEFINE m == Ctx!Fields \cup Fsr2!PipelineFields
             s == IF native THEN Native!with_context ELSE <<>>
  <2>1. PICK j : Runs(k, Fsr2!with_params, x, St(m, {}, j, <<>>, NoSizes)) /\ Shape(m, {}, j, <<>>)
    BY <1>1, WithParamsRuns
  <2>2. Ready(k, m, j, NoSizes)
    BY <1>3 DEF Ready, Held, Encoders
  <2>3. Runs(k, s, St(m, {}, j, <<>>, NoSizes), St(m, {}, j, <<>>, NoSizes))
    <3>1. CASE native
      <4>1. Native!with_context = <<Ctx!Use({Ctx!Instance})>>
        BY DEF Native!with_context, Native!Use, Native!Call, Native!Instance, Ctx!Use, Ctx!Call,
               Ctx!Instance
      <4>2. {Ctx!Instance} \subseteq m \cup {} \cup External
        BY DEF Ctx!Fields
      <4> HIDE DEF m
      <4>3. Runs(k, <<Ctx!Use({Ctx!Instance})>>, St(m, {}, j, <<>>, NoSizes),
                 St(m, {}, j, <<>>, NoSizes))
        BY <2>1, <4>2, UseRuns
      <4> QED BY <3>1, <4>1, <4>3
    <3>2. CASE ~native
      BY <3>2, RunsNothing
    <3> QED BY <3>1, <3>2
  <2>4. New = Fsr2!with_params \o s
    BY <1>3 DEF New
  <2> HIDE DEF m, s, x
  <2>5. Runs(k, New, x, St(m, {}, j, <<>>, NoSizes))
    BY <2>1, <2>3, <2>4, RunsCat
  <2> QED BY <2>1, <2>2, <2>5 DEF Running, Finished, x
<1>4. CASE component = "fsr3"
  <2> DEFINE m == Ctx!Fields \cup Fg!FrameGenFields
  <2>1. PICK j : /\ Runs(k, Fg!new(1, 2), x, St(m, {}, j, <<>>, NoSizes))
                 /\ Shape(m, {}, j, <<>>)
                 /\ \A n \in Fg!Images : Fg!Image(n) \in DOMAIN j
    BY <1>1, FrameGenNewRuns
  <2>2. Ready(k, m, j, NoSizes)
    BY <1>4, <2>1 DEF Ready, Held, Encoders
  <2>3. New = Fg!new(1, 2)
    BY <1>4 DEF New, Render, Display
  <2> QED BY <2>1, <2>2, <2>3 DEF Running, Finished
<1>5. CASE component \in Encoders
  <2> DEFINE m == Ctx!Fields \cup H264!Fields
  <2>1. PICK j, d, e : /\ Runs(k, H264!new, x, St(m, {}, j, <<>>, NoSizes))
                       /\ Shape(m, {}, j, <<>>)
                       /\ Is(j, H264!DpbImage(0), "VIDEO_ENCODE_DPB", d, e)
                       /\ Is(j, H264!DpbImage(1), "VIDEO_ENCODE_DPB", d, e)
    BY <1>1, EncoderNewRuns
  <2>2. \A s \in {0, 1} : /\ H264!DpbImage(s) \in DOMAIN j
                          /\ j[H264!DpbImage(s)].layout = "VIDEO_ENCODE_DPB"
    BY <2>1, PicFacts DEF Is
  <2>3. Held(k, m, NoSizes)
    BY <1>5 DEF Held
  <2>4. Ready(k, m, j, NoSizes)
    BY <1>5, <2>2, <2>3 DEF Ready, Encoders
  <2>5. New = H264!new
    BY <1>5, SameCalls DEF New, Encoders
  <2> QED BY <2>1, <2>4, <2>5 DEF Running, Finished
<1> QED BY <1>2, <1>3, <1>4, <1>5, ComponentNames DEF Encoders

\* One call of the interpolation component, from rest to rest.
LEMMA UpscaleRuns ==
  ASSUME NEW k, NEW src \in Sizes, NEW dst \in Sizes, k.phase = "call", k.comp = component,
         k.native = native, k.sizes = [src |-> src, dst |-> dst],
         component \in Components, component \notin Encoders, native \in BOOLEAN,
         Ready(k, mine, img, cached), Shape(mine, {}, img, <<>>)
  PROVE  Running(k, Upscale(src, dst), mine, {}, img, <<>>, cached)
<1>1. Rest(k, mine, img, cached)
  BY DEF Rest
<1>2. CASE component = "context"
  <2>1. mine = Ctx!Fields /\ cached = NoSizes
    BY <1>2 DEF Ready, Held, Encoders
  <2>2. At(k, Ctx!Fields, {}, img, <<>>, NoSizes)
    BY <1>1, <2>1 DEF At, Sound
  <2>3. PICK j : /\ Runs(k, Ctx!upscale_blit(src, dst), St(Ctx!Fields, {}, img, <<>>, NoSizes),
                         St(Ctx!Fields, {}, j, <<>>, NoSizes))
                 /\ At(k, Ctx!Fields, {}, j, <<>>, NoSizes)
    BY <2>2, BlitRuns
  <2>4. Ready(k, Ctx!Fields, j, NoSizes) /\ Shape(Ctx!Fields, {}, j, <<>>)
    BY <2>3 DEF At, Sound, Rest
  <2>5. Upscale(src, dst) = Ctx!upscale_blit(src, dst)
    BY <1>2 DEF Upscale
  <2> QED BY <2>1, <2>3, <2>4, <2>5 DEF Running, Finished
<1>3. CASE component = "fsr2" /\ native
  <2>1. PICK n, j, d : /\ Runs(k, Native!upscale(cached # NoSizes, cached, src, dst),
                               St(mine, {}, img, <<>>, cached), St(n, {}, j, <<>>, d))
                       /\ Ready(k, n, j, d) /\ Shape(n, {}, j, <<>>)
    BY <1>3, NativeUpscaleRuns
  <2>2. Upscale(src, dst) = Native!upscale(cached # NoSizes, cached, src, dst)
    BY <1>3 DEF Upscale, HaveCached
  <2> QED BY <2>1, <2>2 DEF Running, Finished
<1>4. CASE component = "fsr2" /\ ~native
  <2>1. mine = Ctx!Fields \cup Fsr2!PipelineFields /\ cached = NoSizes
    BY <1>4 DEF Ready, Held, Encoders
  <2>2. At(k, mine, {}, img, <<>>, NoSizes)
    BY <1>1, <2>1 DEF At, Sound
  <2>3. Rest(k, mine, <<>>, NoSizes)
    BY <1>4, <2>1 DEF Rest, Ready, Held, Encoders
  <2>4. PICK j : /\ Runs(k, Fsr2!upscale_fallback, St(mine, {}, img, <<>>, NoSizes),
                         St(mine, {}, j, <<>>, NoSizes))
                 /\ At(k, mine, {}, j, <<>>, NoSizes)
    BY <2>1, <2>2, <2>3, FallbackRuns
  <2>5. Ready(k, mine, j, NoSizes) /\ Shape(mine, {}, j, <<>>)
    BY <2>4 DEF At, Sound, Rest
  <2>6. Upscale(src, dst) = Fsr2!upscale_fallback
    BY <1>4 DEF Upscale
  <2> QED BY <2>1, <2>4, <2>5, <2>6 DEF Running, Finished
<1>5. CASE component = "fsr3"
  <2>1. mine = Ctx!Fields \cup Fg!FrameGenFields /\ cached = NoSizes
    BY <1>5 DEF Ready, Held, Encoders
  <2>2. At(k, mine, {}, img, <<>>, NoSizes)
    BY <1>1, <2>1 DEF At, Sound
  <2>3. PICK j : /\ Runs(k, Fg!generate_frame(src, Render, Display),
                         St(mine, {}, img, <<>>, NoSizes), St(mine, {}, j, <<>>, NoSizes))
                 /\ At(k, mine, {}, j, <<>>, NoSizes)
    BY <1>5, <2>1, <2>2, GenerateFrameRuns
  <2>4. Ready(k, mine, j, NoSizes) /\ Shape(mine, {}, j, <<>>)
    BY <2>3 DEF At, Sound, Rest
  <2>5. Upscale(src, dst) = Fg!generate_frame(src, Render, Display)
    BY <1>5 DEF Upscale
  <2> QED BY <2>1, <2>3, <2>4, <2>5 DEF Running, Finished
<1> QED BY <1>2, <1>3, <1>4, <1>5, ComponentNames DEF Encoders

\* One picture encoded, from rest to rest.
LEMMA EncoderCallRuns ==
  ASSUME NEW k, NEW x \in InputImages, k.phase = "call", k.comp = component,
         component \in Encoders, Ready(k, mine, img, cached), Shape(mine, {}, img, <<>>)
  PROVE  Running(k, Encode(x), mine, {}, img, <<>>, cached)
<1> DEFINE n == mine \cup {View(x)}
           s == H264!encode_record(x, ViewCached) \o H264!encode_submit \o H264!encode_readback
<1>1. /\ Runs(k, s, St(mine, {}, img, <<>>, cached), St(n, {}, img, <<>>, cached))
      /\ Ready(k, n, img, cached) /\ Shape(n, {}, img, <<>>)
  BY EncodeRuns DEF ViewCached
<1>2. Encode(x) = s
  BY SameCalls DEF Encode, Encoders
<1> QED BY <1>1, <1>2 DEF Running, Finished

\* Drop, up to the context.
LEMMA DroppedRuns ==
  ASSUME NEW k, k.phase = "drop", k.comp = component, k.native = native,
         component \in Components, Ready(k, mine, img, cached), Shape(mine, {}, img, <<>>)
  PROVE  Running(k, Dropped, mine, {}, img, <<>>, cached)
<1>1. Pics(img, mine) /\ IsFcn(img)
  <2>1. mine \cup {} = mine
    OBVIOUS
  <2> QED BY <2>1 DEF Shape, Pics
<1>2. CASE component = "context"
  <2>1. mine = Ctx!Fields /\ Dropped = <<>>
    BY <1>2 DEF Ready, Held, Encoders, Dropped
  <2> QED BY <1>1, <2>1, RunsNothing DEF Running, Finished
<1>3. CASE component = "fsr2"
  <2> DEFINE m == Ctx!Fields \cup Fsr2!PipelineFields
             s == IF HaveCached THEN Native!DestroyCached ELSE <<>>
  <2>1. \/ mine = m /\ ~HaveCached
        \/ mine = m \cup Native!CachedResources /\ HaveCached
    BY <1>3 DEF Ready, Held, Encoders, HaveCached
  <2>2. /\ Fsr2!DescSet("easu") \notin m \cup Native!CachedResources
        /\ Fsr2!DescSet("rcas") \notin m \cup Native!CachedResources
        /\ m \ Fsr2!PipelineFields = Ctx!Fields
    BY PipelineFieldsAre, CachedAre DEF Ctx!Fields, Ctx!Instance, Ctx!Device, Ctx!CommandPool,
       Fsr2!DescLayout, Fsr2!PipelineLayout, Fsr2!Pipeline, Fsr2!DescPool, Fsr2!DescSet,
       Native!FsrCtx, Native!Cmd, Native!Image, Native!View, Native!Mem, Native!Buf
  <2>3. Native!CachedResources \cap m = {}
    BY NotBoth
  <2>4. Fsr2!PipelineFields \subseteq m /\ Ctx!Fields \subseteq m
    OBVIOUS
  <2> HIDE DEF m
  <2>5. PICK j : /\ Runs(k, Fsr2!drop_pipelines, St(mine, {}, img, <<>>, cached),
                         St(mine \ Fsr2!PipelineFields, {}, j, <<>>, cached))
                 /\ Pics(j, mine \ Fsr2!PipelineFields)
    BY <1>1, <2>1, <2>2, <2>4, DropPipelinesRuns
  <2>6. \E i, c : /\ Runs(k, s, St(mine \ Fsr2!PipelineFields, {}, j, <<>>, cached),
                          St(Ctx!Fields, {}, i, <<>>, c))
                  /\ IsFcn(i)
    <3>1. CASE HaveCached
      <4> DEFINE l == mine \ Fsr2!PipelineFields
      <4>1. Native!CachedResources \subseteq l /\ l \ Native!CachedResources = Ctx!Fields
        BY <2>1, <2>2, <2>3, <2>4, <3>1
      <4> HIDE DEF l
      <4>2. PICK i : /\ Runs(k, Native!DestroyCached, St(l, {}, j, <<>>, cached),
                             St(l \ Native!CachedResources, {}, i, <<>>, NoSizes))
                     /\ Pics(i, l \ Native!CachedResources)
        BY <2>5, <4>1, DestroyCachedRuns DEF l
      <4> QED BY <3>1, <4>1, <4>2 DEF l, Pics
    <3>2. CASE ~HaveCached
      BY <2>1, <2>2, <2>5, <3>2, RunsNothing DEF Pics
    <3> QED BY <3>1, <3>2
  <2>7. Dropped = Fsr2!drop_pipelines \o s
    BY <1>3 DEF Dropped, Native!drop_native
  <2> HIDE DEF s
  <2>8. PICK i, c : /\ Runs(k, Dropped, St(mine, {}, img, <<>>, cached),
                            St(Ctx!Fields, {}, i, <<>>, c))
                    /\ IsFcn(i)
    BY <2>5, <2>6, <2>7, RunsCat
  <2> QED BY <2>8 DEF Running, Finished
<1>4. CASE component = "fsr3"
  <2> DEFINE m == mine \ {Fg!FgCtx}
             i == Without(img, {Fg!FgCtx})
  <2>1. mine = Ctx!Fields \cup Fg!FrameGenFields
    BY <1>4 DEF Ready, Held, Encoders
  <2>2. Fg!FgCtx \in mine
    BY <2>1 DEF Fg!FrameGenFields
  <2>3. Fg!FgCtx \notin Ctx!Fields
    BY DEF Fg!FgCtx, Ctx!Fields, Ctx!Instance, Ctx!Device, Ctx!CommandPool
  <2>4. Ctx!Fields \subseteq m /\ IsFcn(i)
    BY <2>1, <2>3, WithoutFacts
  <2>5. Runs(k, Fg!drop_frame_gen, St(mine, {}, img, <<>>, cached), St(m, {}, i, <<>>, cached))
    BY <1>4, <2>2, DropFrameGenRuns
  <2>6. Dropped = Fg!drop_frame_gen
    BY <1>4 DEF Dropped
  <2> HIDE DEF m, i
  <2> QED BY <1>4, <2>4, <2>5, <2>6 DEF Running, Finished
<1>5. CASE component \in Encoders
  <2>1. Lists(ViewSeq, ViewCached)
    BY DEF Lists, ViewSeq
  <2>2. PICK j : /\ Runs(k, H264!drop(ViewSeq), St(mine, {}, img, <<>>, cached),
                         St(Ctx!Fields, {}, j, <<>>, cached))
                 /\ IsFcn(j)
    BY <1>5, <2>1, EncoderDropRuns DEF ViewCached
  <2>3. Dropped = H264!drop(ViewSeq)
    BY <1>5, SameCalls DEF Dropped, Encoders
  <2> QED BY <2>2, <2>3 DEF Running, Finished
<1> QED BY <1>2, <1>3, <1>4, <1>5, ComponentNames DEF Encoders

-----------------------------------------------------------------------------
(* Steps *)

\* What a call does to the state of the specification is what After says.
LEMMA ReturnIsAfter ==
  ASSUME NEW k, k.sizes = sizes, CallReturns, Ok(k, St(mine, temp, img, rec, cached), now)
  PROVE  After(k, St(mine, temp, img, rec, cached), now)
           = St(mine', temp', img', rec', cached')
<1> DEFINE x == St(mine, temp, img, rec, cached)
<1>0. x.m = mine /\ x.t = temp /\ x.i = img /\ x.r = rec /\ x.c = cached
  BY DEF St
<1> HIDE DEF x
<1>1. CASE now.op = "make"
  <2>1. Made(now) = Making(img, now)
    BY DEF Made, Making
  <2>2. /\ temp' = temp \cup now.obj /\ img' = Made(now)
        /\ mine' = mine /\ rec' = rec /\ cached' = cached
    BY <1>1 DEF CallReturns
  <2> QED BY <1>0, <1>1, <2>1, <2>2 DEF After, x
<1>2. CASE now.op = "free"
  <2>1. /\ temp' = temp \ now.obj /\ mine' = mine \ now.obj
        /\ img' = Without(img, now.obj) /\ rec' = rec /\ cached' = cached
    BY <1>2 DEF CallReturns, Without
  <2> QED BY <1>0, <1>2, <2>1 DEF After, x
<1>3. CASE now.op = "keep"
  <2>1. /\ temp' = temp \ now.obj /\ mine' = mine \cup now.obj /\ img' = img /\ rec' = rec
        /\ cached' = IF Native!FsrCtx \in now.obj THEN sizes ELSE cached
    BY <1>3 DEF CallReturns
  <2> QED BY <1>0, <1>3, <2>1 DEF After, x
<1>4. CASE now.op = "take"
  <2>1. /\ temp' = temp \cup now.obj /\ mine' = mine \ now.obj /\ img' = img /\ rec' = rec
        /\ cached' = NoSizes
    BY <1>4 DEF CallReturns
  <2> QED BY <1>0, <1>4, <2>1 DEF After, x
<1>5. CASE now.op = "begin"
  <2>1. rec' = img /\ mine' = mine /\ temp' = temp /\ img' = img /\ cached' = cached
    BY <1>5 DEF CallReturns
  <2> QED BY <1>0, <1>5, <2>1 DEF After, x
<1>6. CASE now.op = "submit"
  <2>1. img' = rec /\ rec' = <<>> /\ mine' = mine /\ temp' = temp /\ cached' = cached
    BY <1>6 DEF CallReturns
  <2> QED BY <1>0, <1>6, <2>1 DEF After, x
<1>7. CASE now.op \notin {"make", "free", "keep", "take", "begin", "submit"}
  <2>1. rec' = Recorded(now) /\ mine' = mine /\ temp' = temp /\ img' = img /\ cached' = cached
    BY <1>7 DEF CallReturns
  <2>2. ASSUME NEW h \in DOMAIN rec, now.op \in {"barrier", "write"}
        PROVE  rec[h] = Pic(rec[h].layout, rec[h].defined, rec[h].extent)
    BY <1>0, <2>2 DEF x, Ok, Shape, Pics, IsPic
  <2>3. Recorded(now) = Recording(rec, now)
    <3>1. CASE now.op = "barrier"
      <4>1. ASSUME NEW h \in DOMAIN rec
            PROVE  [rec[h] EXCEPT !.layout = now.to,
                                  !.defined = rec[h].defined /\ now.from # "UNDEFINED"]
                     = Pic(now.to, rec[h].defined /\ now.from # "UNDEFINED", rec[h].extent)
        <5> DEFINE q == rec[h]
                   b == rec[h].defined /\ now.from # "UNDEFINED"
        <5>1. q = Pic(q.layout, q.defined, q.extent)
          BY <2>2, <3>1
        <5> HIDE DEF q, b
        <5>2. Relaid(q, now.to, b) = Pic(now.to, b, q.extent)
          BY <5>1, PicRelaid
        <5> QED BY <5>2 DEF Relaid, q, b
      <4> QED BY <3>1, <4>1 DEF Recorded, Recording
    <3>2. CASE now.op = "write"
      <4>1. ASSUME NEW h \in DOMAIN rec
            PROVE  [rec[h] EXCEPT !.defined = TRUE] = Pic(rec[h].layout, TRUE, rec[h].extent)
        <5> DEFINE q == rec[h]
                   b == TRUE
        <5>1. q = Pic(q.layout, q.defined, q.extent)
          BY <2>2, <3>2
        <5> HIDE DEF q, b
        <5>2. Filled(q, b) = Pic(q.layout, b, q.extent)
          BY <5>1, PicFilled
        <5> QED BY <5>2 DEF Filled, q, b
      <4> QED BY <3>2, <4>1 DEF Recorded, Recording
    <3>3. CASE now.op \notin {"barrier", "write"}
      BY <3>3 DEF Recorded, Recording
    <3> QED BY <3>1, <3>2, <3>3
  <2> QED BY <1>0, <1>7, <2>1, <2>3 DEF After, x
<1> QED BY <1>1, <1>2, <1>3, <1>4, <1>5, <1>6, <1>7

\* The running function has its next call, with all it needs.
LEMMA NextCall ==
  ASSUME GpuInv, todo # <<>>
  PROVE  /\ phase \in Steps
         /\ Ok(Which(component, native, phase, sizes), St(mine, temp, img, rec, cached), now)
<1>1. phase \in Steps
  BY DEF GpuInv, Phases, Steps
<1>2. PICK n, j, d : Runs(Which(component, native, phase, sizes), todo,
                          St(mine, temp, img, rec, cached), St(n, {}, j, <<>>, d))
  BY <1>1 DEF GpuInv, Running
<1> QED BY <1>1, <1>2, RunsHead DEF now

\* At the start, the context's with_request has all it needs.
LEMMA InitHolds ==
  ASSUME Init
  PROVE  GpuInv
<1> DEFINE k == Which(component, native, "context", NoSizes)
<1>1. k.phase = "context" /\ k.comp = component
  BY DEF Which
<1>2. Runs(k, Ctx!with_request, St({}, {}, <<>>, <<>>, NoSizes),
           St(Ctx!Fields, {}, <<>>, <<>>, NoSizes))
  BY <1>1, WithRequestRuns
<1>3. Finished(k, Ctx!Fields, <<>>, NoSizes)
  BY <1>1 DEF Finished
<1>4. Running(k, Ctx!with_request, {}, {}, <<>>, <<>>, NoSizes)
  BY <1>2, <1>3 DEF Running
<1> HIDE DEF k
<1>5. native \in BOOLEAN /\ (native => component = "fsr2")
  BY DEF Init
<1> QED BY <1>4, <1>5 DEF Init, GpuInv, Family, Phases, k

\* A call returns.
LEMMA ReturnsKeeps ==
  ASSUME GpuInv, CallReturns
  PROVE  GpuInv'
<1> DEFINE k == Which(component, native, phase, sizes)
           x == St(mine, temp, img, rec, cached)
<1>1. todo # <<>> /\ phase \in Steps /\ Ok(k, x, now)
  BY NextCall DEF CallReturns
<1>2. /\ todo' = Tail(todo) /\ component' = component /\ native' = native /\ phase' = phase
      /\ sizes' = sizes /\ failures' = failures
      /\ failures = 0 => lost' \subseteq Fsr2!UnfreeableSets
  <2>1. PICK kept \in SUBSET (IF now.op = "free" THEN now.obj \cap Fsr2!UnfreeableSets ELSE {}) :
               lost' = lost \cup kept
    BY DEF CallReturns
  <2>2. kept \subseteq Fsr2!UnfreeableSets
    BY <2>1
  <2> QED BY <2>1, <2>2 DEF CallReturns, GpuInv
<1>3. k.sizes = sizes
  BY DEF Which
<1>4. After(k, x, now) = St(mine', temp', img', rec', cached')
  BY <1>1, <1>3, ReturnIsAfter
<1>5. PICK n, j, d : Runs(k, todo, x, St(n, {}, j, <<>>, d)) /\ Finished(k, n, j, d)
  BY <1>1 DEF GpuInv, Running
<1>6. Runs(k, Tail(todo), St(mine', temp', img', rec', cached'), St(n, {}, j, <<>>, d))
  BY <1>1, <1>4, <1>5, RunsHead DEF now
<1> HIDE DEF k
<1>7. Running(k, Tail(todo), mine', temp', img', rec', cached')
  BY <1>5, <1>6 DEF Running
<1>8. Family'
  <2>0. x.m = mine /\ x.t = temp
    BY DEF St
  <2>1. CASE now.op = "make"
    <3>1. /\ parent' = parent \cup (now.obj \X now.uses) /\ mine' = mine
          /\ temp' = temp \cup now.obj
      BY <2>1 DEF CallReturns
    <3>2. \A h \in now.obj, p \in now.uses : Origin(h, p)
      BY <1>1, <2>1 DEF Ok
    <3>3. ASSUME NEW e \in parent'
          PROVE  e[1] \in mine' \cup temp' /\ Origin(e[1], e[2])
      <4>1. CASE e \in parent
        BY <3>1, <4>1 DEF GpuInv, Family
      <4>2. CASE e \in now.obj \X now.uses
        BY <3>1, <3>2, <4>2
      <4> QED BY <3>1, <4>1, <4>2
    <3> QED BY <3>3 DEF Family
  <2>2. CASE now.op = "free"
    <3>1. /\ parent' = {e \in parent : e[1] \notin now.obj} /\ mine' = mine \ now.obj
          /\ temp' = temp \ now.obj
      BY <2>2 DEF CallReturns
    <3> QED BY <3>1 DEF GpuInv, Family
  <2>3. CASE now.op = "keep"
    <3>1. parent' = parent /\ mine' = mine \cup now.obj /\ temp' = temp \ now.obj
      BY <2>3 DEF CallReturns
    <3> QED BY <3>1 DEF GpuInv, Family
  <2>4. CASE now.op = "take"
    <3>1. parent' = parent /\ mine' = mine \ now.obj /\ temp' = temp \cup now.obj
      BY <2>4 DEF CallReturns
    <3> QED BY <3>1 DEF GpuInv, Family
  <2>5. CASE now.op \notin {"make", "free", "keep", "take"}
    <3>1. parent' = parent /\ mine' = mine /\ temp' = temp
      BY <2>5 DEF CallReturns
    <3> QED BY <3>1 DEF GpuInv, Family
  <2> QED BY <2>1, <2>2, <2>3, <2>4, <2>5
<1> HIDE DEF x
<1>9. phase' \in Steps => Running(Which(component', native', phase', sizes'), todo', mine', temp',
                                  img', rec', cached')
  BY <1>2, <1>7 DEF k
<1>10. phase' # "ready" /\ phase' # "gone"
  BY <1>1, <1>2 DEF Steps
<1> QED BY <1>2, <1>8, <1>9, <1>10 DEF GpuInv

\* What is left of the pictures when only the component's own handles are.
LEMMA Left ==
  ASSUME NEW k, NEW m, NEW t, NEW f, NEW j, NEW c, Rest(k, m, f, c), Pics(f, m \cup t),
         j = [h \in DOMAIN f \cap m |-> f[h]]
  PROVE  Rest(k, m, j, c) /\ IsFcn(j) /\ Shape(m, {}, j, <<>>)
<1>1. /\ DOMAIN j = DOMAIN f \cap m /\ \A h \in DOMAIN f \cap m : j[h] = f[h]
      /\ IsFcn(j)
  BY DEF IsFcn
<1>2. Rest(k, m, j, c)
  BY <1>1, RestAgrees
<1>3. Pics(j, m \cup {})
  BY <1>1 DEF Pics
<1> QED BY <1>1, <1>2, <1>3, NoPics DEF Shape

\* A call fails: the component is what it was before the call, or is given up.
LEMMA FailsKeeps ==
  ASSUME GpuInv, CallFails
  PROVE  GpuInv'
<1> DEFINE k == Which(component, native, phase, sizes)
           x == St(mine, temp, img, rec, cached)
<1>1. /\ todo # <<>> /\ now.fallible /\ phase' = AfterError
      /\ todo' = (IF phase = "new" THEN Ctx!drop ELSE <<>>)
      /\ temp' = {} /\ parent' = {e \in parent : e[1] \in mine} /\ rec' = <<>>
      /\ failures' = failures + 1
      /\ component' = component /\ native' = native /\ mine' = mine /\ sizes' = sizes
      /\ cached' = cached
  BY DEF CallFails
<1>2. Ok(k, x, now) /\ phase \in Steps
  BY <1>1, NextCall
<1>3. /\ Rest(k, mine, img, cached) /\ Shape(mine, temp, img, rec)
      /\ now.op = "submit" => Rest(k, mine, rec, cached)
  <2>1. x.m = mine /\ x.t = temp /\ x.i = img /\ x.r = rec /\ x.c = cached
    BY DEF St
  <2> QED BY <1>1, <1>2, <2>1 DEF Ok
<1>4. k.phase = phase /\ k.comp = component /\ k.native = native
  BY DEF Which
<1> HIDE DEF k, x
<1>5. PICK f : /\ Rest(k, mine, f, cached) /\ Pics(f, mine \cup temp)
               /\ img' = [h \in DOMAIN f \cap mine |-> f[h]]
  <2>1. PICK f \in {img} \cup (IF now.op = "submit" THEN {rec} ELSE {}) :
               img' = [h \in DOMAIN f \cap mine |-> f[h]]
    BY DEF CallFails
  <2>2. f = img \/ (now.op = "submit" /\ f = rec)
    OBVIOUS
  <2> QED BY <1>3, <2>1, <2>2 DEF Shape
<1>6. Rest(k, mine, img', cached) /\ IsFcn(img') /\ Shape(mine, {}, img', <<>>)
  BY <1>5, Left
<1>7. Family'
  BY <1>1 DEF GpuInv, Family
<1>8. failures' \in Nat /\ failures' # 0
  BY <1>1 DEF GpuInv
<1>9. phase \in {"context", "new", "call"}
  BY <1>3, <1>4 DEF Rest
<1>10. CASE phase = "context"
  <2>1. mine = {} /\ phase' = "gone" /\ todo' = <<>>
    BY <1>1, <1>3, <1>4, <1>10 DEF Rest, AfterError
  <2> QED BY <1>1, <1>7, <1>8, <2>1 DEF GpuInv, Steps, Phases
<1>11. CASE phase = "new"
  <2> DEFINE l == Which(component, native, "release", sizes)
  <2>1. mine = Ctx!Fields /\ phase' = "release" /\ todo' = Ctx!drop
    BY <1>1, <1>3, <1>4, <1>11 DEF Rest, AfterError
  <2>2. l.phase = "release" /\ l.comp = component
    BY DEF Which
  <2> HIDE DEF l
  <2>3. PICK j, n : /\ Runs(l, Ctx!drop, St(mine, {}, img', <<>>, cached), St(n, {}, j, <<>>, cached))
                    /\ l.comp # "fsr3" => n = {}
    BY <1>6, <2>1, ContextDropRuns
  <2>4. Finished(l, n, j, cached)
    BY <2>2, <2>3 DEF Finished
  <2>5. Running(l, Ctx!drop, mine, {}, img', <<>>, cached)
    BY <2>3, <2>4 DEF Running
  <2>6. Running(Which(component', native', phase', sizes'), todo', mine', temp', img', rec', cached')
    BY <1>1, <2>1, <2>5 DEF l
  <2> QED BY <1>1, <1>7, <1>8, <2>1, <2>6 DEF GpuInv, Phases
<1>12. CASE phase = "call"
  <2> DEFINE l == Which(component, native, "ready", sizes)
  <2>1. phase' = "ready" /\ todo' = <<>>
    BY <1>1, <1>12 DEF AfterError
  <2>2. l.comp = component /\ l.native = native
    BY DEF Which
  <2>3. Ready(k, mine, img', cached)
    BY <1>4, <1>6, <1>12 DEF Rest
  <2> HIDE DEF l
  <2>4. Ready(l, mine, img', cached)
    BY <1>4, <2>2, <2>3, ReadyFor
  <2>5. Ready(Which(component', native', phase', sizes'), mine', img', cached')
    BY <1>1, <2>1, <2>4 DEF l
  <2>6. Shape(mine', {}, img', <<>>)
    BY <1>1, <1>6
  <2> QED BY <1>1, <1>7, <1>8, <2>1, <2>5, <2>6 DEF GpuInv, Steps, Phases
<1> QED BY <1>9, <1>10, <1>11, <1>12

\* A function returns Ok.
LEMMA EndsKeeps ==
  ASSUME GpuInv, CallEnds
  PROVE  GpuInv'
<1> DEFINE k == Which(component, native, phase, sizes)
<1>1. /\ todo = <<>> /\ phase \in Steps /\ sizes' = NoSizes
      /\ lost' = lost \cup temp /\ temp' = {}
      /\ component' = component /\ native' = native /\ mine' = mine /\ parent' = parent
      /\ img' = img /\ rec' = rec /\ cached' = cached /\ failures' = failures
  BY DEF CallEnds, Steps
<1>2. k.phase = phase /\ k.comp = component /\ k.native = native
  BY DEF Which
<1>3. PICK n, j, d : /\ Runs(k, <<>>, St(mine, temp, img, rec, cached), St(n, {}, j, <<>>, d))
                     /\ Finished(k, n, j, d)
  BY <1>1 DEF GpuInv, Running
<1> HIDE DEF k
<1>4. mine = n /\ temp = {} /\ img = j /\ rec = <<>> /\ cached = d
  <2>1. St(mine, temp, img, rec, cached) = St(n, {}, j, <<>>, d)
    BY <1>3, NothingRuns
  <2> QED BY <2>1 DEF St
<1>5. Finished(k, mine, img, cached)
  BY <1>3, <1>4
<1>6. Family' /\ lost' = lost
  BY <1>1, <1>4 DEF GpuInv, Family
<1>7. CASE phase = "context"
  <2> DEFINE l == Which(component, native, "new", NoSizes)
  <2>1. phase' = "new" /\ todo' = New
    BY <1>7 DEF CallEnds
  <2>2. l.phase = "new" /\ l.comp = component /\ l.native = native
    BY DEF Which
  <2>3. mine = Ctx!Fields /\ img = <<>> /\ cached = NoSizes
    BY <1>2, <1>5, <1>7 DEF Finished
  <2>4. component \in Components /\ native \in BOOLEAN
    BY DEF GpuInv
  <2> HIDE DEF l
  <2>5. Running(l, New, Ctx!Fields, {}, <<>>, <<>>, NoSizes)
    BY <2>2, <2>4, NewRuns
  <2>6. Running(Which(component', native', phase', sizes'), todo', mine', temp', img', rec', cached')
    BY <1>1, <1>4, <2>1, <2>3, <2>5 DEF l
  <2> QED BY <1>1, <1>6, <2>1, <2>6 DEF GpuInv, Phases
<1>8. CASE phase \in {"new", "call"}
  <2> DEFINE l == Which(component, native, "ready", NoSizes)
  <2>1. phase' = "ready" /\ todo' = <<>>
    BY <1>8 DEF CallEnds
  <2>2. l.comp = component /\ l.native = native
    BY DEF Which
  <2>3. Ready(k, mine, img, cached) /\ Shape(mine, {}, img, <<>>)
    BY <1>2, <1>5, <1>8 DEF Finished
  <2> HIDE DEF l
  <2>4. Ready(l, mine, img, cached)
    BY <1>2, <2>2, <2>3, ReadyFor
  <2>5. Ready(Which(component', native', phase', sizes'), mine', img', cached')
    BY <1>1, <2>1, <2>4 DEF l
  <2>6. Shape(mine', {}, img', <<>>)
    BY <1>1, <2>3
  <2> QED BY <1>1, <1>4, <1>6, <2>1, <2>5, <2>6 DEF GpuInv, Steps, Phases
<1>9. CASE phase = "drop"
  <2> DEFINE l == Which(component, native, "release", NoSizes)
  <2>1. phase' = "release" /\ todo' = Ctx!drop
    BY <1>9 DEF CallEnds
  <2>2. l.phase = "release" /\ l.comp = component
    BY DEF Which
  <2>3. IsFcn(img) /\ Ctx!Fields \subseteq mine /\ (component # "fsr3" => mine = Ctx!Fields)
    BY <1>2, <1>5, <1>9 DEF Finished
  <2> HIDE DEF l
  <2>4. PICK i, m : /\ Runs(l, Ctx!drop, St(mine, {}, img, <<>>, cached), St(m, {}, i, <<>>, cached))
                    /\ l.comp # "fsr3" => m = {}
    BY <2>2, <2>3, ContextDropRuns
  <2>5. Finished(l, m, i, cached)
    BY <2>2, <2>4 DEF Finished
  <2>6. Running(l, Ctx!drop, mine, {}, img, <<>>, cached)
    BY <2>4, <2>5 DEF Running
  <2>7. Running(Which(component', native', phase', sizes'), todo', mine', temp', img', rec', cached')
    BY <1>1, <1>4, <2>1, <2>6 DEF l
  <2> QED BY <1>1, <1>6, <2>1, <2>7 DEF GpuInv, Phases
<1>10. CASE phase = "release"
  <2>1. phase' = "gone" /\ todo' = <<>>
    BY <1>10 DEF CallEnds
  <2>2. component # "fsr3" => mine = {}
    BY <1>2, <1>5, <1>10 DEF Finished
  <2> QED BY <1>1, <1>6, <2>1, <2>2 DEF GpuInv, Steps, Phases
<1> QED BY <1>1, <1>7, <1>8, <1>9, <1>10 DEF Steps

\* The caller starts something: a call, or Drop.
LEMMA StartsKeep ==
  ASSUME GpuInv, StartUpscale \/ StartEncode \/ DropComponent
  PROVE  GpuInv'
<1> DEFINE k == Which(component, native, phase, sizes)
           l == Which(component, native, phase', sizes')
<1>1. /\ phase = "ready" /\ component' = component /\ native' = native /\ mine' = mine
      /\ temp' = temp /\ lost' = lost /\ parent' = parent /\ img' = img /\ rec' = rec
      /\ cached' = cached /\ failures' = failures
  BY DEF StartUpscale, StartEncode, DropComponent
<1>2. /\ temp = {} /\ rec = <<>> /\ Ready(k, mine, img, cached) /\ Shape(mine, {}, img, <<>>)
      /\ component \in Components /\ native \in BOOLEAN
  BY <1>1 DEF GpuInv
<1>3. /\ k.comp = component /\ k.native = native
      /\ l.phase = phase' /\ l.comp = component /\ l.native = native /\ l.sizes = sizes'
  BY DEF Which
<1> HIDE DEF k, l
<1>4. Ready(l, mine, img, cached)
  BY <1>2, <1>3, ReadyFor
<1>5. phase' \in {"call", "drop"} /\ Running(l, todo', mine, {}, img, <<>>, cached)
  <2>1. CASE StartUpscale
    <3>1. PICK src \in Sizes, dst \in Sizes :
            sizes' = [src |-> src, dst |-> dst] /\ todo' = Upscale(src, dst)
      BY <2>1 DEF StartUpscale
    <3>2. phase' = "call" /\ component \notin Encoders
      BY <2>1 DEF StartUpscale
    <3> QED BY <1>2, <1>3, <1>4, <3>1, <3>2, UpscaleRuns
  <2>2. CASE StartEncode
    <3>1. PICK i \in InputImages : todo' = Encode(i)
      BY <2>2 DEF StartEncode
    <3>2. phase' = "call" /\ component \in Encoders
      BY <2>2 DEF StartEncode
    <3> QED BY <1>2, <1>3, <1>4, <3>1, <3>2, EncoderCallRuns
  <2>3. CASE DropComponent
    <3>1. phase' = "drop" /\ todo' = Dropped
      BY <2>3 DEF DropComponent
    <3> QED BY <1>2, <1>3, <1>4, <3>1, DroppedRuns
  <2> QED BY <2>1, <2>2, <2>3
<1>6. Running(Which(component', native', phase', sizes'), todo', mine', temp', img', rec', cached')
  BY <1>1, <1>2, <1>5 DEF l
<1>7. Family'
  BY <1>1 DEF GpuInv, Family
<1> QED BY <1>1, <1>5, <1>6, <1>7 DEF GpuInv, Phases

\* Whatever happens to a component, and whichever calls of the driver fail, the
\* function that runs is given what its remaining calls need.
THEOREM GpuInvariant == Spec => []GpuInv
<1>1. Init => GpuInv
  BY InitHolds
<1>2. GpuInv /\ [Next]_vars => GpuInv'
  <2> SUFFICES ASSUME GpuInv, [Next]_vars
               PROVE  GpuInv'
    OBVIOUS
  <2>1. CASE CallReturns
    BY <2>1, ReturnsKeeps
  <2>2. CASE CallFails
    BY <2>2, FailsKeeps
  <2>3. CASE CallEnds
    BY <2>3, EndsKeeps
  <2>4. CASE StartUpscale \/ StartEncode \/ DropComponent
    BY <2>4, StartsKeep
  <2>5. CASE Gone \/ UNCHANGED vars
    BY <2>5 DEF Gone, vars, GpuInv, Family
  <2> QED BY <2>1, <2>2, <2>3, <2>4, <2>5 DEF Next
<1> QED BY <1>1, <1>2, PTL DEF Spec

\* The head of the running function, spelled out.
LEMMA HeadIsOk ==
  ASSUME GpuInv, todo # <<>>
  PROVE  /\ now.uses \subseteq mine \cup temp \cup External
         /\ now.undo \subseteq temp
         /\ now.op = "make" => now.obj \cap (mine \cup temp \cup External) = {}
         /\ now.op \in {"barrier", "write", "read", "bind"} =>
              \A h \in now.obj :
                /\ now.from = rec[h].layout \/ Told(h, now.from, rec)
                     \/ (now.op = "barrier" /\ now.from = "UNDEFINED")
                /\ now.op = "read" /\ component # "fsr3" => rec[h].defined = TRUE
                /\ now.op \in {"write", "read"} /\ component # "fsr3" => rec[h].extent = now.extent
         /\ now.op = "free" /\ component # "fsr3" =>
              \A h \in mine \cup temp, p \in now.obj : Origin(h, p) => h \in now.obj
<1> DEFINE k == Which(component, native, phase, sizes)
           x == St(mine, temp, img, rec, cached)
<1>1. Ok(k, x, now)
  BY NextCall
<1>2. x.m = mine /\ x.t = temp /\ x.r = rec
  BY DEF St
<1>3. k.comp = component
  BY DEF Which
<1> HIDE DEF k, x
<1> QED BY <1>1, <1>2, <1>3 DEF Ok

\* No call of the driver is given a handle that was destroyed or not yet made, on any
\* path through any of the six components, and none overwrites a handle in use.
THEOREM HandlesStayLive == Spec => []HandlesLive
<1>1. GpuInv => HandlesLive
  BY HeadIsOk DEF HandlesLive, Live
<1> QED BY <1>1, GpuInvariant, PTL

\* Every command finds its images in the layout it is recorded with, and reads no
\* contents that were never written; the four images in Mistold are in GENERAL where
\* FidelityFX is told COMPUTE_READ.
THEOREM ImagesAreReady == Spec => []ImagesReady
<1>1. GpuInv => ImagesReady
  BY HeadIsOk DEF ImagesReady, Told
<1> QED BY <1>1, GpuInvariant, PTL

\* Every copy, blit and dispatch is of its image's extent, whatever sizes the caller
\* alternates between.
THEOREM ExtentsAlwaysFit == Spec => []ExtentsFit
<1>1. GpuInv => ExtentsFit
  BY HeadIsOk DEF ExtentsFit
<1> QED BY <1>1, GpuInvariant, PTL

\* Nothing is destroyed before what was made from it and can still be reached: what a
\* failed call has lost is not counted.
THEOREM ParentsAlwaysOutlive == Spec => []ParentsOutlive
<1>1. GpuInv => ParentsOutlive
  <2> SUFFICES ASSUME GpuInv, component # "fsr3", todo # <<>>, now.op = "free",
                      NEW e \in parent, e[2] \in now.obj
               PROVE  e[1] \in now.obj
    BY DEF ParentsOutlive
  <2>1. e[1] \in mine \cup temp /\ Origin(e[1], e[2])
    BY DEF GpuInv, Family
  <2> QED BY <2>1, HeadIsOk
<1> QED BY <1>1, GpuInvariant, PTL

\* Without a failed call nothing is lost but descriptor sets of the FSR 2 fallback, and
\* Drop gives everything back.
THEOREM NothingLeaks == Spec => []NoLeak
<1>1. GpuInv => NoLeak
  BY DEF GpuInv, NoLeak
<1> QED BY <1>1, GpuInvariant, PTL

-----------------------------------------------------------------------------
(***************************************************************************)
(* The pool of frame buffers, for any set of threads and any capacity: the *)
(* inductive invariant PoolInv, from it Exclusive and NoSlotLost, and      *)
(* that the pool implements SlotPool.                                      *)
(***************************************************************************)

\* A new pool (BufferPool::new) satisfies the invariant.
LEMMA InitPool == PoolInit => PoolInv
  BY PoolAssumption DEF PoolInit, PoolInv, PoolTypeOK, Exclusive, NoSlotLost, Slots

\* Every step of acquire() and release() preserves the invariant: a slot leaves
\* the mask and enters one holder's set in the same compare-exchange.
LEMMA NextPool == PoolInv /\ [PoolNext]_poolVars => PoolInv'
<1> SUFFICES ASSUME PoolInv, [PoolNext]_poolVars
             PROVE  PoolInv'
  OBVIOUS
<1> USE DEF PoolInv, PoolTypeOK, Exclusive, NoSlotLost
<1>1. ASSUME NEW t \in Threads, Call(t) \/ Load(t) \/ CasFails(t)
                                  \/ CasFailsSpuriously(t)
      PROVE  PoolInv'
  BY <1>1 DEF Call, Load, CasFails, CasFailsSpuriously
<1>2. ASSUME NEW t \in Threads, CasSucceeds(t)
      PROVE  PoolInv'
  <2>1. PICK slot \in mask[t] :
          /\ free_mask = mask[t]
          /\ free_mask' = free_mask \ {slot}
          /\ holds' = [holds EXCEPT ![t] = @ \cup {slot}]
    BY <1>2 DEF CasSucceeds
  <2>2. slot \in Slots /\ slot \in free_mask
    BY <2>1
  <2>3. PoolTypeOK'
    BY <1>2, <2>1, <2>2 DEF CasSucceeds
  <2>4. Exclusive'
    BY <2>1, <2>2
  <2>5. NoSlotLost'
    <3>1. \A u \in Threads : holds[u] \subseteq holds'[u]
      BY <2>1
    <3>2. slot \in holds'[t]
      BY <2>1
    <3> QED BY <2>1, <3>1, <3>2
  <2> QED BY <2>3, <2>4, <2>5
<1>3. ASSUME NEW t \in Threads, NEW slot \in Slots, Release(t, slot)
      PROVE  PoolInv'
  <2>1. PoolTypeOK' /\ Exclusive'
    BY <1>3 DEF Release
  <2>2. ASSUME NEW s \in Slots, s \notin free_mask'
        PROVE  \E u \in Threads : s \in holds'[u]
    <3>1. s # slot /\ s \notin free_mask
      BY <1>3, <2>2 DEF Release
    <3>2. PICK u \in Threads : s \in holds[u]
      BY <3>1
    <3> QED BY <1>3, <3>1, <3>2 DEF Release
  <2> QED BY <2>1, <2>2
<1>4. ASSUME NEW t \in Threads, NEW u \in Threads, NEW slot \in Slots,
             PassHandle(t, u, slot)
      PROVE  PoolInv'
  <2>1. /\ holds'[t] = holds[t] \ {slot}
        /\ holds'[u] = holds[u] \cup {slot}
        /\ \A v \in Threads \ {t, u} : holds'[v] = holds[v]
        /\ holds' \in [Threads -> SUBSET Slots]
        /\ free_mask' = free_mask
        /\ slot \in holds[t]
        /\ t # u
    BY <1>4 DEF PassHandle
  <2>2. PoolTypeOK'
    BY <1>4, <2>1 DEF PassHandle
  <2>3. Exclusive'
    BY <2>1
  <2>4. ASSUME NEW s \in Slots, s \notin free_mask'
        PROVE  \E v \in Threads : s \in holds'[v]
    <3>1. PICK v \in Threads : s \in holds[v]
      BY <2>1, <2>4
    <3> QED BY <2>1, <3>1
  <2> QED BY <2>2, <2>3, <2>4
<1>5. CASE UNCHANGED poolVars
  BY <1>5 DEF poolVars
<1> QED
  BY <1>1, <1>2, <1>3, <1>4, <1>5 DEF PoolNext, Acquiring

\* "The free_mask ensures no two callers hold the same slot simultaneously":
\* for any number of slots and callers.
THEOREM PoolIsExclusive == PoolSpec => []Exclusive
<1>1. PoolInv => Exclusive
  BY DEF PoolInv
<1> QED
  BY InitPool, NextPool, <1>1, PTL DEF PoolSpec

\* Whatever acquires, releases and hand-overs race, a slot is either free or
\* with a caller: the compare-and-swap loop and fetch_or lose none.
THEOREM NoSlotIsLost == PoolSpec => []NoSlotLost
<1>1. PoolInv => NoSlotLost
  BY DEF PoolInv
<1> QED
  BY InitPool, NextPool, <1>1, PTL DEF PoolSpec

\* Every step of the loop is a step of the abstract pool, or invisible to it.
LEMMA PoolStepImplements ==
  PoolInv /\ [PoolNext]_poolVars
    => [Pool!Next]_<<free_mask, holds, {t \in Threads : pc[t] # "idle"}>>
<1> DEFINE W == {t \in Threads : pc[t] # "idle"}
<1> SUFFICES ASSUME PoolInv, [PoolNext]_poolVars
             PROVE  Pool!Next \/ UNCHANGED <<free_mask, holds, W>>
  OBVIOUS
<1> USE DEF PoolInv, PoolTypeOK
<1>1. ASSUME NEW t \in Threads, Call(t)
      PROVE  Pool!Request(t)
  BY <1>1 DEF Call, Pool!Request
<1>2. ASSUME NEW t \in Threads, Load(t)
      PROVE  Pool!Refuse(t) \/ UNCHANGED <<free_mask, holds, W>>
  <2>1. CASE free_mask = {}
    <3>1. t \in W /\ W' = W \ {t}
      BY <1>2, <2>1 DEF Load
    <3> QED BY <1>2, <2>1, <3>1 DEF Load, Pool!Refuse
  <2>2. CASE free_mask # {}
    <3>1. W' = W
      BY <1>2, <2>2 DEF Load
    <3> QED BY <1>2, <2>2, <3>1 DEF Load
  <2> QED BY <2>1, <2>2
<1>3. ASSUME NEW t \in Threads, CasFails(t) \/ CasFailsSpuriously(t)
      PROVE  UNCHANGED <<free_mask, holds, W>>
  <2>1. W' = W
    BY <1>3 DEF CasFails, CasFailsSpuriously
  <2> QED BY <1>3, <2>1 DEF CasFails, CasFailsSpuriously
<1>4. ASSUME NEW t \in Threads, CasSucceeds(t)
      PROVE  Pool!Grant(t)
  <2>1. t \in W /\ W' = W \ {t}
    BY <1>4 DEF CasSucceeds
  <2> QED BY <1>4, <2>1 DEF CasSucceeds, Pool!Grant
<1>5. ASSUME NEW t \in Threads, NEW slot \in Slots, Release(t, slot)
      PROVE  Pool!Return(t)
  BY <1>5 DEF Release, Pool!Return
<1>6. ASSUME NEW t \in Threads, NEW u \in Threads, NEW slot \in Slots,
             PassHandle(t, u, slot)
      PROVE  t # u /\ Pool!Pass(t, u)
  BY <1>6 DEF PassHandle, Pool!Pass
<1>7. CASE UNCHANGED poolVars
  BY <1>7 DEF poolVars
<1> QED
  BY <1>1, <1>2, <1>3, <1>4, <1>5, <1>6, <1>7
     DEF PoolNext, Acquiring, Pool!Next

\* The lock-free pool implements the abstract one: acquire() returns None only
\* at a moment when no slot is free, and grants only slots nobody has.
THEOREM PoolImplements == PoolSpec => Implements
<1>1. PoolInit => Pool!Init
  BY DEF PoolInit, Pool!Init
<1> QED
  BY <1>1, InitPool, NextPool, PoolStepImplements, PTL
     DEF PoolSpec, Implements, Pool!Spec
=============================================================================
