------------------------ MODULE ClientPipeline_proofs ------------------------
(***************************************************************************)
(* Proofs about ClientPipeline, for any picture, sizes, ring depth and     *)
(* number of frames: the display thread writes only into buffers that the  *)
(* compositor has let go of, and a commit shows the committed frame except *)
(* where a frame was dropped or taken back.                                *)
(***************************************************************************)
EXTENDS ClientPipeline, SequenceTheorems, TLAPS

\* The buffers of the commits under way.
Requested == {requests[i].buffer : i \in 1 .. Len(requests)}

\* The program counters agree with what there is to present or to send.
PcInv ==
  /\ displayPc = "present" => pending # <<>>
  /\ recvPc = "send" <=> outgoing # <<>>

\* A buffer is in one place at a time: in one commit, with the compositor, in a
\* release event, or, if it is marked released, with the display thread.
BufferInv ==
  /\ \A i, j \in 1 .. Len(requests) :
       requests[i].buffer = requests[j].buffer => i = j
  /\ Requested \cap held = {}
  /\ releases \cap InUse = {}
  /\ \A b \in InUse \cup releases : b[1] <= uploader
  /\ \A i \in {0, 1} : released[i] => <<uploader, i>> \notin InUse \cup releases

\* A buffer still holds the frame it was committed with.
MemoryInv ==
  \A i \in 1 .. Len(requests) : memory[requests[i].buffer] = requests[i].data

\* What the damage of the frames under way may leave out.
Missed == skipped \cup reverted

\* Each frame of s differs from the one before it, the first one from x, only
\* inside its damage and in m.
Linked(x, s, m) ==
  \A i \in 1 .. Len(s) :
    XOR(IF i = 1 THEN x ELSE s[i - 1].data, s[i].data) \subseteq s[i].damage \cup m

\* The last picture of a queue that follows picture x.
End(x, s) == IF s = <<>> THEN x ELSE s[Len(s)].data

EndRequests == End(texture, requests)
EndPending == End(EndRequests, pending)
EndRing == End(EndPending, displayRing)
EndOutgoing == End(EndRing, outgoing)

\* From what the compositor shows, through the queues, to the last frame
\* received.
ChainInv ==
  /\ Linked(texture, requests, Missed)
  /\ Linked(EndRequests, pending, Missed)
  /\ Linked(EndPending, displayRing, Missed)
  /\ Linked(EndRing, outgoing, Missed)
  /\ XOR(EndOutgoing, previous_frame) \subseteq Missed

CoversAll(s) == \A i \in 1 .. Len(s) : s[i].damage = Cells

DamageInv ==
  FullDamage => /\ CoversAll(requests) /\ CoversAll(pending)
                /\ CoversAll(displayRing) /\ CoversAll(outgoing)

\* The inductive invariant.
DisplayInv ==
  TypeOK /\ PcInv /\ BufferInv /\ MemoryInv /\ ChainInv /\ DamageInv

-----------------------------------------------------------------------------
(* Chains of frames *)

LEMMA XORTriangle ==
  ASSUME NEW x, NEW y, NEW z
  PROVE  XOR(x, z) \subseteq XOR(x, y) \cup XOR(y, z)
  BY DEF XOR

LEMMA LinkedMonotone ==
  ASSUME NEW x, NEW s, NEW m, NEW n, m \subseteq n, Linked(x, s, m)
  PROVE  Linked(x, s, n)
  BY DEF Linked

\* A frame is put at the end of a queue.
LEMMA LinkedAppend ==
  ASSUME NEW T, NEW s \in Seq(T), NEW f \in T, NEW x, NEW m
  PROVE  /\ End(x, Append(s, f)) = f.data
         /\ Linked(x, Append(s, f), m)
              <=> /\ Linked(x, s, m)
                  /\ XOR(End(x, s), f.data) \subseteq f.damage \cup m
<1>1. /\ Append(s, f) \in Seq(T) /\ Len(s) \in Nat
      /\ Len(Append(s, f)) = Len(s) + 1
      /\ \A i \in 1 .. Len(s) : Append(s, f)[i] = s[i]
      /\ Append(s, f)[Len(s) + 1] = f
      /\ Append(s, f) # <<>>
  BY AppendProperties, LenProperties
<1> DEFINE t == Append(s, f)
           n == Len(s)
           Link(q, i) == XOR(IF i = 1 THEN x ELSE q[i - 1].data, q[i].data)
                           \subseteq q[i].damage \cup m
<1>2. End(x, t) = f.data
  BY <1>1 DEF End
<1>3. Link(t, n + 1) <=> XOR(End(x, s), f.data) \subseteq f.damage \cup m
  <2>1. s = <<>> <=> n = 0
    BY EmptySeq
  <2>2. CASE n = 0
    BY <1>1, <2>1, <2>2 DEF End
  <2>3. CASE n # 0
    <3>1. n \in 1 .. Len(s) /\ n + 1 # 1 /\ (n + 1) - 1 = n
      BY <1>1, <2>3
    <3>2. t[n] = s[n]
      BY <1>1, <3>1
    <3> QED BY <1>1, <2>1, <2>3, <3>1, <3>2 DEF End
  <2> QED BY <2>2, <2>3
<1>4. ASSUME NEW i \in 1 .. n
      PROVE  Link(t, i) <=> Link(s, i)
  <2>1. t[i] = s[i]
    BY <1>1
  <2>2. i # 1 => i - 1 \in 1 .. Len(s)
    BY <1>1
  <2>3. i # 1 => t[i - 1] = s[i - 1]
    BY <1>1, <2>2
  <2> QED BY <2>1, <2>3
<1>5. Linked(x, t, m) <=> \A i \in 1 .. n + 1 : Link(t, i)
  BY <1>1 DEF Linked
<1>6. Linked(x, s, m) <=> \A i \in 1 .. n : Link(s, i)
  BY DEF Linked
<1> HIDE DEF Link
<1>7. (\A i \in 1 .. n + 1 : Link(t, i)) <=> (\A i \in 1 .. n : Link(t, i)) /\ Link(t, n + 1)
  BY <1>1
<1> QED BY <1>2, <1>3, <1>4, <1>5, <1>6, <1>7

\* The first frame of a queue is taken.
LEMMA LinkedTail ==
  ASSUME NEW T, NEW s \in Seq(T), s # <<>>, NEW x, NEW m
  PROVE  /\ End(x, s) = End(Head(s).data, Tail(s))
         /\ Linked(x, s, m)
              => /\ XOR(x, Head(s).data) \subseteq Head(s).damage \cup m
                 /\ Linked(Head(s).data, Tail(s), m)
<1>1. /\ Tail(s) \in Seq(T) /\ Head(s) = s[1]
      /\ Len(s) \in Nat \ {0} /\ Len(Tail(s)) = Len(s) - 1
      /\ \A i \in 1 .. Len(Tail(s)) : Tail(s)[i] = s[i + 1]
  BY HeadTailProperties, EmptySeq
<1>2. End(x, s) = End(Head(s).data, Tail(s))
  <2>1. Tail(s) = <<>> <=> Len(Tail(s)) = 0
    BY <1>1, EmptySeq
  <2>2. CASE Len(s) = 1
    BY <1>1, <2>1, <2>2 DEF End
  <2>3. CASE Len(s) > 1
    <3>1. Len(Tail(s)) \in 1 .. Len(Tail(s)) /\ Len(Tail(s)) + 1 = Len(s)
      BY <1>1, <2>3
    <3>2. Tail(s)[Len(Tail(s))] = s[Len(s)]
      BY <1>1, <3>1
    <3> QED BY <1>1, <2>1, <2>3, <3>2 DEF End
  <2> QED BY <1>1, <2>2, <2>3
<1>3. ASSUME Linked(x, s, m)
      PROVE  XOR(x, Head(s).data) \subseteq Head(s).damage \cup m
  BY <1>1, <1>3 DEF Linked
<1>4. ASSUME Linked(x, s, m), NEW i \in 1 .. Len(Tail(s))
      PROVE  XOR(IF i = 1 THEN Head(s).data ELSE Tail(s)[i - 1].data, Tail(s)[i].data)
               \subseteq Tail(s)[i].damage \cup m
  <2>1. i + 1 \in 1 .. Len(s) /\ i + 1 # 1 /\ (i + 1) - 1 = i
    BY <1>1
  <2>2. XOR(s[i].data, s[i + 1].data) \subseteq s[i + 1].damage \cup m
    BY <1>4, <2>1 DEF Linked
  <2>3. Tail(s)[i] = s[i + 1]
    BY <1>1
  <2>4. i = 1 => Head(s) = s[i]
    BY <1>1
  <2>5. i # 1 => Tail(s)[i - 1] = s[i]
    <3>1. i # 1 => i - 1 \in 1 .. Len(Tail(s)) /\ (i - 1) + 1 = i
      BY <1>1
    <3> QED BY <1>1, <3>1
  <2> QED BY <2>2, <2>3, <2>4, <2>5
<1> QED BY <1>2, <1>3, <1>4 DEF Linked

\* The picture before a queue is replaced by one that hardly differs.
LEMMA LinkedRestart ==
  ASSUME NEW T, NEW s \in Seq(T), NEW x, NEW y, NEW m,
         XOR(x, y) \subseteq m, Linked(x, s, m)
  PROVE  Linked(y, s, m) /\ XOR(End(x, s), End(y, s)) \subseteq m
<1>1. ASSUME NEW i \in 1 .. Len(s)
      PROVE  XOR(IF i = 1 THEN y ELSE s[i - 1].data, s[i].data)
               \subseteq s[i].damage \cup m
  <2>1. XOR(IF i = 1 THEN x ELSE s[i - 1].data, s[i].data)
          \subseteq s[i].damage \cup m
    BY DEF Linked
  <2>2. CASE i = 1
    BY <2>1, <2>2 DEF XOR
  <2>3. CASE i # 1
    BY <2>1, <2>3
  <2> QED BY <2>2, <2>3
<1>2. XOR(End(x, s), End(y, s)) \subseteq m
  BY DEF End, XOR
<1> QED BY <1>1, <1>2 DEF Linked

-----------------------------------------------------------------------------
(* Types *)

\* The first frame of a queue that is not empty, and the rest of it.
LEMMA FirstFrame ==
  ASSUME NEW T, NEW s \in Seq(T), s # <<>>
  PROVE  /\ Head(s) \in T /\ Head(s) = s[1] /\ Tail(s) \in Seq(T)
         /\ Len(s) \in Nat \ {0} /\ Len(Tail(s)) = Len(s) - 1
  BY HeadTailProperties, EmptySeq

\* A queue of one frame.
LEMMA OneFrame ==
  ASSUME NEW T, NEW f \in T
  PROVE  /\ <<f>> \in Seq(T) /\ Len(<<f>>) = 1 /\ <<f>>[1] = f /\ <<f>> # <<>>
  OBVIOUS

\* A queue of two frames.
LEMMA TwoFrames ==
  ASSUME NEW T, NEW f \in T, NEW g \in T
  PROVE  /\ <<f, g>> \in Seq(T) /\ <<f, g>> # <<>>
         /\ <<f>> \o <<g>> = <<f, g>>
<1>1. /\ <<f>> \in Seq(T) /\ <<g>> \in Seq(T) /\ <<f, g>> \in Seq(T)
      /\ Len(<<f>>) = 1 /\ Len(<<g>>) = 1 /\ Len(<<f, g>>) = 2
      /\ <<f>>[1] = f /\ <<g>>[1] = g /\ <<f, g>>[1] = f /\ <<f, g>>[2] = g
  OBVIOUS
<1>2. /\ <<f>> \o <<g>> \in Seq(T) /\ Len(<<f>> \o <<g>>) = 2
      /\ (<<f>> \o <<g>>)[1] = f /\ (<<f>> \o <<g>>)[2] = g
  BY <1>1, ConcatProperties
<1>3. <<f>> \o <<g>> = <<f, g>>
  <2> DEFINE s == <<f>> \o <<g>>
             t == <<f, g>>
  <2>1. /\ s \in Seq(T) /\ t \in Seq(T) /\ Len(s) = 2 /\ Len(t) = 2
        /\ s[1] = t[1] /\ s[2] = t[2]
    BY <1>1, <1>2
  <2> HIDE DEF s, t
  <2>2. \A i \in 1 .. Len(s) : s[i] = t[i]
    BY <2>1
  <2>3. s = t
    BY <2>1, <2>2, SeqEqual
  <2> QED BY <2>3 DEF s, t
<1> QED BY <1>1, <1>3

LEMMA InitType == Init => TypeOK /\ PcInv
<1> SUFFICES ASSUME Init PROVE TypeOK /\ PcInv
  OBVIOUS
<1> USE DisplayAssumption, ClientAssumption
<1>1. <<>> \in Seq(DisplayFrame) /\ <<>> \in Seq(Commit) /\ <<>> \in Seq(Buffer)
      /\ Len(<<>>) = 0
  BY EmptySeq
<1>2. {stop_flag, frame_callback_pending, callbackStale, done, has_previous,
       force_reset, shutdown} \subseteq BOOLEAN
  BY Zenon DEF Init, DisplayInit
<1>3. released \in [{0, 1} -> BOOLEAN] /\ memory \in [Buffer -> Picture]
  BY DEF Init, DisplayInit, Picture, Zeroes
<1>4. DisplayTypeOK
  BY <1>1, <1>2, <1>3 DEF Init, DisplayInit, DisplayTypeOK, Picture, Zeroes
<1>5. TypeOK
  BY <1>1, <1>2, <1>4 DEF Init, TypeOK, Picture, Zeroes
<1> QED BY <1>5 DEF Init, DisplayInit, PcInv

\* The steps of the display thread and of the compositor.
LEMMA DisplayTypes ==
  ASSUME DisplayTypeOK, displayPc = "present" => pending # <<>>,
         DisplayStep \/ DispatchFails \/ CallbackTimesOut \/ CompositorStep
  PROVE  DisplayTypeOK' /\ (displayPc' = "present" => pending' # <<>>)
<1> USE DisplayAssumption
<1>1. CASE LoopStops \/ DispatchFails
  BY <1>1 DEF LoopStops, DispatchFails, DisplayTypeOK, surfaceVars, compositorVars
<1>2. CASE DispatchPending
  <2>1. released' \in [{0, 1} -> BOOLEAN]
    BY <1>2, Zenon DEF DispatchPending, DisplayTypeOK
  <2>2. {frame_callback_pending', callbackStale', done'} \subseteq BOOLEAN
    BY <1>2, Zenon DEF DispatchPending, DisplayTypeOK
  <2> QED BY <1>2, <2>1, <2>2 DEF DispatchPending, DisplayTypeOK
<1>3. CASE DrainDisplay
  <2>1. /\ Head(displayRing) \in DisplayFrame /\ Tail(displayRing) \in Seq(DisplayFrame)
        /\ Len(Tail(displayRing)) <= DisplayRing
    BY <1>3, FirstFrame DEF DrainDisplay, DisplayTypeOK
  <2>2. pending' \in Seq(DisplayFrame) /\ Len(pending') <= 1 /\ pending' # <<>>
    BY <1>3, <2>1, OneFrame DEF DrainDisplay
  <2>3. skipped' \in SUBSET Cells
    <3>1. pending # <<>> => pending[1] \in DisplayFrame
      BY FirstFrame DEF DisplayTypeOK
    <3> QED BY <1>3, <3>1 DEF DrainDisplay, DisplayTypeOK, DisplayFrame
  <2>4. displayRing' \in Seq(DisplayFrame) /\ Len(displayRing') <= DisplayRing
    BY <1>3, <2>1 DEF DrainDisplay
  <2> QED BY <1>3, <2>2, <2>3, <2>4
        DEF DrainDisplay, DisplayTypeOK, surfaceVars, compositorVars
<1>4. CASE DrainDisplayEmpty
  BY <1>4 DEF DrainDisplayEmpty, DisplayTypeOK, surfaceVars, compositorVars
<1>5. CASE CreateSurface \/ ResizeSurface
  <2>1. pending[1] \in DisplayFrame
    BY <1>5, FirstFrame DEF CreateSurface, ResizeSurface, DisplayTypeOK
  <2>2. size' \in Sizes
    BY <1>5, <2>1 DEF CreateSurface, ResizeSurface, DisplayFrame
  <2>3. uploader' \in 0 .. MaxResizes /\ active' \in {0, 1}
    BY <1>5 DEF CreateSurface, ResizeSurface, DisplayTypeOK
  <2>4. released' \in [{0, 1} -> BOOLEAN]
    BY <1>5, Zenon DEF CreateSurface, ResizeSurface, DisplayTypeOK
  <2> QED BY <1>5, <2>2, <2>3, <2>4
        DEF CreateSurface, ResizeSurface, DisplayTypeOK, compositorVars
<1>6. CASE PresentFrame
  <2> DEFINE c == [buffer |-> <<uploader, active>>, damage |-> pending[1].damage,
                   size |-> size, data |-> pending[1].data]
  <2>1. pending[1] \in DisplayFrame /\ pending[1].size = size
    BY <1>6, FirstFrame DEF PresentFrame, Presenting, DisplayTypeOK
  <2>2. <<uploader, active>> \in Buffer
    BY DEF DisplayTypeOK, Buffer
  <2>3. c \in Commit
    BY <2>1, <2>2 DEF Commit, DisplayFrame
  <2>4. requests' \in Seq(Commit)
    <3>1. requests' = Append(requests, c)
      BY <1>6 DEF PresentFrame
    <3> HIDE DEF c
    <3> QED BY <2>3, <3>1, AppendProperties DEF DisplayTypeOK
  <2>5. memory' \in [Buffer -> Picture]
    BY <1>6, <2>1, <2>2 DEF PresentFrame, DisplayTypeOK, DisplayFrame
  <2>6. released' \in [{0, 1} -> BOOLEAN]
    BY <1>6, Zenon DEF PresentFrame, DisplayTypeOK
  <2>7. active' \in {0, 1} /\ pending' = <<>> /\ displayPc' = "loop"
    BY <1>6 DEF PresentFrame, DisplayTypeOK
  <2>8. pending' \in Seq(DisplayFrame) /\ Len(pending') <= 1
    BY <2>7, EmptySeq
  <2> QED BY <1>6, <2>4, <2>5, <2>6, <2>7, <2>8
        DEF PresentFrame, DisplayTypeOK, compositorVars
<1>7. CASE KeepFrame
  <2>1. frame_callback_pending' \in BOOLEAN /\ callbackStale' \in BOOLEAN
    BY <1>7, Zenon DEF KeepFrame, CallbackBlocks, DisplayTypeOK
  <2> QED BY <1>7, <2>1 DEF KeepFrame, DisplayTypeOK, compositorVars
<1>8. CASE CallbackTimesOut
  BY <1>8 DEF CallbackTimesOut, DisplayTypeOK, compositorVars
<1>9. CASE HandleCommit
  <2> DEFINE c == Head(requests)
  <2>1. c \in Commit /\ Tail(requests) \in Seq(Commit)
    BY <1>9, FirstFrame DEF HandleCommit, DisplayTypeOK
  <2>2. memory[c.buffer] \in Picture /\ c.buffer \in Buffer /\ c.size \in Sizes
    BY <2>1 DEF DisplayTypeOK, Commit
  <2> HIDE DEF c
  <2>3. texture' \in Picture
    BY <1>9, <2>2 DEF HandleCommit, DisplayTypeOK, Picture, c
  <2>4. textureSize' \in Sizes /\ held' \in SUBSET Buffer /\ callbacks' \in Nat
    BY <1>9, <2>2 DEF HandleCommit, DisplayTypeOK, c
  <2>5. current' \in Seq(Buffer) /\ Len(current') <= 1
    BY <1>9, <2>2, OneFrame DEF HandleCommit, c
  <2>6. requests' \in Seq(Commit)
    BY <1>9, <2>1 DEF HandleCommit
  <2> QED BY <1>9, <2>3, <2>4, <2>5, <2>6 DEF HandleCommit, DisplayTypeOK, surfaceVars
<1>10. ASSUME NEW b \in Buffer, ReleaseBuffer(b)
       PROVE  DisplayTypeOK' /\ (displayPc' = "present" => pending' # <<>>)
  BY <1>10 DEF ReleaseBuffer, DisplayTypeOK, surfaceVars
<1>11. CASE SendDone
  BY <1>11 DEF SendDone, DisplayTypeOK, surfaceVars
<1> QED BY <1>1, <1>2, <1>3, <1>4, <1>5, <1>6, <1>7, <1>8, <1>9, <1>10, <1>11
      DEF DisplayStep, CompositorStep

\* What RecvFrame makes of the pictures.
LEMMA BetweenType ==
  ASSUME NEW a \in {None} \cup GpuFrame, NEW b \in GpuFrame
  PROVE  \/ Interpolated(a, b) = <<>>
         \/ \E f \in DisplayFrame :
              /\ Interpolated(a, b) = <<f>>
              /\ f.damage = Cells
<1>1. CASE a = None \/ a.size # b.size
  BY <1>1 DEF Interpolated
<1>2. CASE ~(a = None \/ a.size # b.size)
  <2> DEFINE f == [data |-> Midpoint(a, b), damage |-> Cells, size |-> b.size]
  <2>1. a \in GpuFrame
    BY <1>2
  <2>2. f \in DisplayFrame
    <3>1. a.data \in Picture /\ b.size \in Sizes /\ Cells \in SUBSET Cells
      BY <2>1 DEF GpuFrame
    <3> QED BY <3>1 DEF DisplayFrame, Midpoint
  <2>3. Interpolated(a, b) = <<f>>
    BY <1>2 DEF Interpolated
  <2> QED BY <2>2, <2>3
<1> QED BY <1>1, <1>2

\* The frames that one message makes the loop send: the real frame, then
\* perhaps an interpolated one that covers everything.
LEMMA RecvFrameSends ==
  ASSUME TypeOK, NEW picture \in Picture, NEW damage \in SUBSET Cells,
         NEW is_anchor \in BOOLEAN, NEW newSize \in Sizes,
         RecvFrame(picture, damage, is_anchor, newSize)
  PROVE  /\ anchor' \in {None} \cup GpuFrame /\ target' \in {None} \cup GpuFrame
         /\ force_reset' \in BOOLEAN
         /\ \E f \in DisplayFrame :
              /\ f.data = picture /\ f.damage = damage
              /\ \/ outgoing' = <<f>> /\ reverted' = reverted
                 \/ \E g \in DisplayFrame :
                      /\ outgoing' = <<f, g>> /\ g.damage = Cells
                      /\ reverted' = reverted \cup XOR(g.data, picture)
<1> DEFINE f == [data |-> picture, damage |-> damage, size |-> newSize]
           gpu == [data |-> picture, size |-> newSize]
           between == IF Interpolates THEN Interpolated(anchor', target') ELSE <<>>
<1>1. f \in DisplayFrame /\ f.data = picture /\ f.damage = damage
  BY DEF DisplayFrame
<1>2. gpu \in GpuFrame
  BY DEF GpuFrame
<1>3. /\ anchor' \in {None} \cup GpuFrame
      /\ target' \in {None} \cup GpuFrame
      /\ Interpolates => target' \in GpuFrame
  BY <1>2 DEF RecvFrame, PushFrame, TypeOK
<1>4. force_reset' \in BOOLEAN
  BY Zenon DEF RecvFrame, PushFrame, TypeOK
<1>5. \/ between = <<>>
      \/ \E g \in DisplayFrame : between = <<g>> /\ g.damage = Cells
  BY <1>3, BetweenType
<1>6. /\ outgoing' = <<f>> \o between
      /\ reverted' = IF between = <<>> THEN reverted
                     ELSE reverted \cup XOR(between[1].data, picture)
  BY DEF RecvFrame
<1> HIDE DEF f, between
<1>7. CASE between = <<>>
  <2>1. <<f>> \o <<>> = <<f>>
    BY <1>1, OneFrame, ConcatEmptySeq
  <2> QED BY <1>1, <1>3, <1>4, <1>6, <1>7, <2>1
<1>8. CASE \E g \in DisplayFrame : between = <<g>> /\ g.damage = Cells
  <2>1. PICK g \in DisplayFrame : between = <<g>> /\ g.damage = Cells
    BY <1>8
  <2>2. <<f>> \o <<g>> = <<f, g>>
    BY <1>1, TwoFrames
  <2>3. between # <<>> /\ between[1] = g
    BY <2>1, OneFrame
  <2> QED BY <1>1, <1>3, <1>4, <1>6, <2>1, <2>2, <2>3
<1> QED BY <1>5, <1>7, <1>8

\* The steps of recv_decompress_loop.
LEMMA RecvTypes ==
  ASSUME TypeOK, PcInv, RecvStep
  PROVE  TypeOK' /\ PcInv'
<1> USE ClientAssumption
<1>1. ASSUME NEW picture \in Picture, NEW damage \in SUBSET Cells,
             NEW is_anchor \in BOOLEAN, NEW newSize \in Sizes,
             RecvFrame(picture, damage, is_anchor, newSize)
      PROVE  TypeOK' /\ PcInv'
  <2>1. outgoing' \in Seq(DisplayFrame) /\ outgoing' # <<>>
        /\ reverted' \in SUBSET Cells
    <3>1. PICK f \in DisplayFrame :
            \/ outgoing' = <<f>> /\ reverted' = reverted
            \/ \E g \in DisplayFrame :
                 /\ outgoing' = <<f, g>> /\ g.damage = Cells
                 /\ reverted' = reverted \cup XOR(g.data, picture)
      BY <1>1, RecvFrameSends
    <3>2. CASE outgoing' = <<f>> /\ reverted' = reverted
      BY <3>2, OneFrame DEF TypeOK
    <3>3. CASE \E g \in DisplayFrame :
                 /\ outgoing' = <<f, g>> /\ g.damage = Cells
                 /\ reverted' = reverted \cup XOR(g.data, picture)
      <4>1. PICK g \in DisplayFrame :
                 /\ outgoing' = <<f, g>> /\ g.damage = Cells
                 /\ reverted' = reverted \cup XOR(g.data, picture)
        BY <3>3
      <4>2. <<f, g>> \in Seq(DisplayFrame) /\ <<f, g>> # <<>>
        OBVIOUS
      <4>3. reverted' \in SUBSET Cells
        BY <4>1 DEF TypeOK, DisplayFrame, Picture, XOR
      <4> QED BY <4>1, <4>2, <4>3
    <3> QED BY <3>1, <3>2, <3>3
  <2>2. /\ anchor' \in {None} \cup GpuFrame /\ target' \in {None} \cup GpuFrame
        /\ force_reset' \in BOOLEAN
    BY <1>1, RecvFrameSends
  <2>3. DisplayTypeOK' /\ (displayPc' = "present" => pending' # <<>>)
    BY <1>1 DEF RecvFrame, TypeOK, DisplayTypeOK, PcInv, displayVars, surfaceVars,
                compositorVars
  <2>4. received' \in 0 .. MaxFrames
    BY <1>1 DEF RecvFrame, TypeOK
  <2> QED BY <1>1, <2>1, <2>2, <2>3, <2>4 DEF RecvFrame, TypeOK, PcInv
<1>2. CASE SendFrame
  <2>1. /\ Head(outgoing) \in DisplayFrame /\ Tail(outgoing) \in Seq(DisplayFrame)
    BY <1>2, FirstFrame DEF SendFrame, TypeOK, PcInv
  <2>2. displayRing' \in Seq(DisplayFrame) /\ Len(displayRing') <= DisplayRing
    <3>1. CASE Len(displayRing) < DisplayRing
      <4>1. displayRing' = Append(displayRing, Head(outgoing))
        BY <1>2, <3>1 DEF SendFrame, send_frame
      <4> QED BY <2>1, <3>1, <4>1, AppendProperties, LenProperties, DisplayAssumption
            DEF TypeOK, DisplayTypeOK
    <3>2. CASE ~(Len(displayRing) < DisplayRing)
      BY <1>2, <3>2 DEF SendFrame, send_frame, TypeOK, DisplayTypeOK
    <3> QED BY <3>1, <3>2
  <2>3. skipped' \in SUBSET Cells
    BY <1>2, <2>1 DEF SendFrame, send_frame, TypeOK, DisplayTypeOK, DisplayFrame
  <2>4. DisplayTypeOK' /\ (displayPc' = "present" => pending' # <<>>)
    BY <1>2, <2>2, <2>3
       DEF SendFrame, send_frame, TypeOK, DisplayTypeOK, PcInv, surfaceVars, compositorVars
  <2> QED BY <1>2, <2>1, <2>4 DEF SendFrame, TypeOK, PcInv, interpVars
<1>3. CASE RecvBad
  <2>1. force_reset' \in BOOLEAN
    BY <1>3, Zenon DEF RecvBad, TypeOK, ClientAssumption
  <2>2. DisplayTypeOK' /\ (displayPc' = "present" => pending' # <<>>)
    BY <1>3 DEF RecvBad, TypeOK, DisplayTypeOK, PcInv, displayVars, surfaceVars,
                compositorVars
  <2> QED BY <1>3, <2>1, <2>2 DEF RecvBad, TypeOK, PcInv
<1>4. CASE RecvResize
  <2>1. /\ anchor' \in {None} \cup GpuFrame /\ target' \in {None} \cup GpuFrame
        /\ force_reset' \in BOOLEAN
    BY <1>4, Zenon DEF RecvResize, TypeOK
  <2>2. DisplayTypeOK' /\ (displayPc' = "present" => pending' # <<>>)
    BY <1>4 DEF RecvResize, TypeOK, DisplayTypeOK, PcInv, displayVars, surfaceVars,
                compositorVars
  <2>3. /\ received' = received + 1 /\ received < MaxFrames
        /\ UNCHANGED <<reverted, recvPc, previous_frame, frameSize, outgoing, shutdown>>
    BY <1>4 DEF RecvResize
  <2>4. has_previous' \in BOOLEAN
    BY <1>4, Zenon DEF RecvResize
  <2>5. received' \in 0 .. MaxFrames
    BY <2>3 DEF TypeOK
  <2>6. PcInv'
    BY <2>2, <2>3 DEF PcInv
  <2> QED BY <2>1, <2>2, <2>3, <2>4, <2>5, <2>6 DEF TypeOK
<1>5. CASE Disconnect \/ JoinDisplay
  <2>1. DisplayTypeOK' /\ (displayPc' = "present" => pending' # <<>>)
    BY <1>5 DEF Disconnect, JoinDisplay, TypeOK, DisplayTypeOK, PcInv, displayVars,
                surfaceVars, compositorVars
  <2> QED BY <1>5, <2>1 DEF Disconnect, JoinDisplay, TypeOK, PcInv, interpVars
<1>6. CASE StopDisplay
  <2>1. DisplayTypeOK' /\ (displayPc' = "present" => pending' # <<>>)
    BY <1>6 DEF StopDisplay, RaiseStop, TypeOK, DisplayTypeOK, PcInv, surfaceVars,
                compositorVars
  <2> QED BY <1>6, <2>1 DEF StopDisplay, TypeOK, PcInv, interpVars
<1> QED BY <1>1, <1>2, <1>3, <1>4, <1>5, <1>6 DEF RecvStep

LEMMA NextType == TypeOK /\ PcInv /\ [Next]_vars => TypeOK' /\ PcInv'
<1> SUFFICES ASSUME TypeOK, PcInv, [Next]_vars PROVE TypeOK' /\ PcInv'
  OBVIOUS
<1>1. CASE RecvStep
  BY <1>1, RecvTypes
<1>2. CASE /\ DisplayStep \/ DispatchFails \/ CallbackTimesOut \/ CompositorStep
           /\ UNCHANGED recvVars
  <2>1. DisplayTypeOK' /\ (displayPc' = "present" => pending' # <<>>)
    BY <1>2, DisplayTypes DEF TypeOK, PcInv
  <2> QED BY <1>2, <2>1 DEF TypeOK, PcInv, recvVars, interpVars
<1>3. CASE UNCHANGED vars
  BY <1>3 DEF vars, displayVars, recvVars, surfaceVars, compositorVars, interpVars,
              TypeOK, DisplayTypeOK, PcInv
<1> QED BY <1>1, <1>2, <1>3 DEF Next, Terminated

-----------------------------------------------------------------------------
(* Buffers *)

\* The buffers of a queue of commits, and what appending to it and taking from
\* it makes of them.
BuffersOf(s) == {s[i].buffer : i \in 1 .. Len(s)}

Distinct(s) == \A i, j \in 1 .. Len(s) : s[i].buffer = s[j].buffer => i = j

Holds(m, s) == \A i \in 1 .. Len(s) : m[s[i].buffer] = s[i].data

LEMMA BuffersAppend ==
  ASSUME NEW s \in Seq(Commit), NEW c \in Commit
  PROVE  /\ BuffersOf(Append(s, c)) = BuffersOf(s) \cup {c.buffer}
         /\ Distinct(s) /\ c.buffer \notin BuffersOf(s) => Distinct(Append(s, c))
         /\ \A m : Holds(m, s) /\ m[c.buffer] = c.data => Holds(m, Append(s, c))
<1>1. /\ Len(s) \in Nat /\ Len(Append(s, c)) = Len(s) + 1
      /\ \A i \in 1 .. Len(s) : Append(s, c)[i] = s[i]
      /\ Append(s, c)[Len(s) + 1] = c
  BY AppendProperties, LenProperties
<1>2. BuffersOf(Append(s, c)) = BuffersOf(s) \cup {c.buffer}
  BY <1>1 DEF BuffersOf
<1>3. Distinct(s) /\ c.buffer \notin BuffersOf(s) => Distinct(Append(s, c))
  BY <1>1 DEF BuffersOf, Distinct
<1>4. \A m : Holds(m, s) /\ m[c.buffer] = c.data => Holds(m, Append(s, c))
  BY <1>1 DEF Holds
<1> QED BY <1>2, <1>3, <1>4

LEMMA BuffersTail ==
  ASSUME NEW s \in Seq(Commit), s # <<>>
  PROVE  /\ BuffersOf(s) = BuffersOf(Tail(s)) \cup {Head(s).buffer}
         /\ Distinct(s) => /\ Distinct(Tail(s))
                           /\ Head(s).buffer \notin BuffersOf(Tail(s))
         /\ \A m : Holds(m, s) => /\ Holds(m, Tail(s))
                                  /\ m[Head(s).buffer] = Head(s).data
<1>1. /\ Head(s) = s[1] /\ Len(s) \in Nat \ {0} /\ Len(Tail(s)) = Len(s) - 1
      /\ \A i \in 1 .. Len(Tail(s)) : i + 1 \in 1 .. Len(s) /\ Tail(s)[i] = s[i + 1]
      /\ 1 \in 1 .. Len(s)
  BY HeadTailProperties, EmptySeq
<1>2. ASSUME NEW i \in 1 .. Len(s), i # 1
      PROVE  i - 1 \in 1 .. Len(Tail(s)) /\ Tail(s)[i - 1] = s[i]
  BY <1>1, <1>2
<1>3. BuffersOf(s) = BuffersOf(Tail(s)) \cup {Head(s).buffer}
  <2>1. BuffersOf(s) \subseteq BuffersOf(Tail(s)) \cup {Head(s).buffer}
    BY <1>1, <1>2 DEF BuffersOf
  <2>2. BuffersOf(Tail(s)) \cup {Head(s).buffer} \subseteq BuffersOf(s)
    BY <1>1 DEF BuffersOf
  <2> QED BY <2>1, <2>2
<1>4. ASSUME Distinct(s)
      PROVE  Distinct(Tail(s)) /\ Head(s).buffer \notin BuffersOf(Tail(s))
  <2>1. ASSUME NEW i \in 1 .. Len(Tail(s)), NEW j \in 1 .. Len(Tail(s)),
               Tail(s)[i].buffer = Tail(s)[j].buffer
        PROVE  i = j
    <3>1. i + 1 = j + 1
      BY <1>1, <1>4, <2>1 DEF Distinct
    <3> QED BY <3>1
  <2>2. ASSUME NEW i \in 1 .. Len(Tail(s))
        PROVE  Tail(s)[i].buffer # Head(s).buffer
    <3>1. i + 1 # 1
      OBVIOUS
    <3> QED BY <1>1, <1>4, <3>1 DEF Distinct
  <2> QED BY <2>1, <2>2 DEF Distinct, BuffersOf
<1>5. \A m : Holds(m, s) => Holds(m, Tail(s)) /\ m[Head(s).buffer] = Head(s).data
  BY <1>1 DEF Holds
<1> QED BY <1>3, <1>4, <1>5

\* The buffer invariants in these terms.
LEMMA BufferInvParts ==
  /\ BufferInv <=>
       /\ Distinct(requests)
       /\ BuffersOf(requests) \cap held = {}
       /\ releases \cap (held \cup BuffersOf(requests)) = {}
       /\ \A b \in held \cup BuffersOf(requests) \cup releases : b[1] <= uploader
       /\ \A i \in {0, 1} :
            released[i] => <<uploader, i>> \notin held \cup BuffersOf(requests) \cup releases
  /\ MemoryInv <=> Holds(memory, requests)
  BY DEF BufferInv, MemoryInv, InUse, Requested, BuffersOf, Distinct, Holds

LEMMA BufferInvPartsPrime ==
  /\ BufferInv' <=>
       /\ Distinct(requests')
       /\ BuffersOf(requests') \cap held' = {}
       /\ releases' \cap (held' \cup BuffersOf(requests')) = {}
       /\ \A b \in held' \cup BuffersOf(requests') \cup releases' : b[1] <= uploader'
       /\ \A i \in {0, 1} :
            released'[i] => <<uploader', i>>
                              \notin held' \cup BuffersOf(requests') \cup releases'
  /\ MemoryInv' <=> Holds(memory', requests')
  BY DEF BufferInv, MemoryInv, InUse, Requested, BuffersOf, Distinct, Holds

\* present_frame takes the active buffer from the display thread's hands.
LEMMA PresentBuffers ==
  ASSUME TypeOK, PcInv, BufferInv, MemoryInv, PresentFrame
  PROVE  /\ BufferInv' /\ MemoryInv'
         /\ <<uploader, active>> \notin InUse
<1> DEFINE b == <<uploader, active>>
           c == [buffer |-> b, damage |-> pending[1].damage,
                 size |-> size, data |-> pending[1].data]
<1>1. requests \in Seq(Commit) /\ c \in Commit /\ c.buffer = b /\ b \in Buffer
      /\ active \in {0, 1} /\ released \in [{0, 1} -> BOOLEAN]
      /\ memory \in [Buffer -> Picture] /\ uploader \in Nat
      /\ c.data = pending[1].data
  <2>1. pending[1] \in DisplayFrame /\ pending[1].size = size
    BY FirstFrame DEF PresentFrame, Presenting, TypeOK, DisplayTypeOK, PcInv
  <2>2. b \in Buffer
    BY DEF TypeOK, DisplayTypeOK, Buffer
  <2>3. c \in Commit
    BY <2>1, <2>2 DEF Commit, DisplayFrame
  <2> QED BY <2>2, <2>3, DisplayAssumption DEF TypeOK, DisplayTypeOK
<1>2. /\ memory' = [memory EXCEPT ![b] = c.data]
      /\ requests' = Append(requests, c)
      /\ released' = [released EXCEPT ![active] = FALSE]
      /\ released[active]
      /\ UNCHANGED <<uploader, held, releases>>
  BY DEF PresentFrame, can_upload, compositorVars
<1> HIDE DEF c
<1>3. b \notin held \cup BuffersOf(requests) \cup releases
  BY <1>1, <1>2, BufferInvParts
<1>4. BuffersOf(requests') = BuffersOf(requests) \cup {b} /\ Distinct(requests')
  BY <1>1, <1>2, <1>3, BuffersAppend, BufferInvParts
<1>5. \A i \in {0, 1} : released'[i] => released[i] /\ <<uploader, i>> # b
  BY <1>1, <1>2
<1>6. Holds(memory', requests')
  <2>1. Holds(memory', requests)
    <3>1. Holds(memory, requests)
      BY BufferInvParts
    <3>2. ASSUME NEW i \in 1 .. Len(requests)
          PROVE  memory'[requests[i].buffer] = requests[i].data
      <4>1. requests[i].buffer # b /\ requests[i].buffer \in Buffer
        <5>1. requests[i] \in Commit
          BY <1>1, ElementOfSeq
        <5> QED BY <1>3, <5>1 DEF BuffersOf, Commit
      <4> QED BY <1>1, <1>2, <3>1, <4>1 DEF Holds
    <3> QED BY <3>2 DEF Holds
  <2>2. memory'[c.buffer] = c.data
    BY <1>1, <1>2
  <2> QED BY <1>1, <1>2, <2>1, <2>2, BuffersAppend
<1>7. BufferInv'
  <2>1. b[1] <= uploader
    BY <1>1
  <2>2. /\ BuffersOf(requests') \cap held' = {}
        /\ releases' \cap (held' \cup BuffersOf(requests')) = {}
        /\ \A d \in held' \cup BuffersOf(requests') \cup releases' : d[1] <= uploader'
    BY <1>2, <1>3, <1>4, <2>1, BufferInvParts
  <2>3. \A i \in {0, 1} :
            released'[i] => <<uploader', i>>
                              \notin held' \cup BuffersOf(requests') \cup releases'
    BY <1>2, <1>4, <1>5, BufferInvParts
  <2> QED BY <1>4, <2>2, <2>3, BufferInvPartsPrime
<1>8. b \notin InUse
  BY <1>3 DEF InUse, BuffersOf
<1> QED BY <1>6, <1>7, <1>8, BufferInvPartsPrime

\* The compositor takes the buffer of a commit.
LEMMA CommitBuffers ==
  ASSUME TypeOK, BufferInv, MemoryInv, HandleCommit
  PROVE  /\ BufferInv' /\ MemoryInv'
         /\ memory[Head(requests).buffer] = Head(requests).data
<1> DEFINE b == Head(requests).buffer
<1>1. requests \in Seq(Commit) /\ requests # <<>>
  BY DEF TypeOK, DisplayTypeOK, HandleCommit
<1>2. /\ requests' = Tail(requests) /\ held' = held \cup {b}
      /\ UNCHANGED <<uploader, released, releases, memory>>
  BY DEF HandleCommit, surfaceVars
<1>3. /\ BuffersOf(requests) = BuffersOf(requests') \cup {b}
      /\ Distinct(requests') /\ b \notin BuffersOf(requests')
      /\ Holds(memory, requests')
      /\ memory[b] = Head(requests).data
  BY <1>1, <1>2, BuffersTail, BufferInvParts
<1> HIDE DEF b
<1>4. held' \cup BuffersOf(requests') = held \cup BuffersOf(requests)
  BY <1>2, <1>3
<1>5. BuffersOf(requests') \cap held' = {}
  BY <1>2, <1>3, BufferInvParts
<1>6. BufferInv'
  BY <1>2, <1>3, <1>4, <1>5, BufferInvParts, BufferInvPartsPrime
<1> QED BY <1>2, <1>3, <1>6, BufferInvPartsPrime DEF b

\* Every step keeps a buffer in one place.
LEMMA NextBuffers ==
  ASSUME TypeOK, PcInv, BufferInv, MemoryInv, [Next]_vars
  PROVE  BufferInv' /\ MemoryInv'
<1> USE DisplayAssumption
<1>1. CASE PresentFrame
  BY <1>1, PresentBuffers
<1>2. CASE HandleCommit
  BY <1>2, CommitBuffers
<1>3. CASE DispatchPending
  <2>1. /\ UNCHANGED <<requests, held, uploader, memory>> /\ releases' = {}
        /\ released' = [i \in {0, 1} |-> released[i] \/ <<uploader, i>> \in releases]
    BY <1>3 DEF DispatchPending
  <2>2. \A i \in {0, 1} :
            released'[i] => <<uploader', i>> \notin held' \cup BuffersOf(requests')
    BY <2>1, BufferInvParts
  <2> QED BY <2>1, <2>2, BufferInvParts, BufferInvPartsPrime
<1>4. CASE ResizeSurface
  <2>1. /\ UNCHANGED <<requests, held, releases, memory>> /\ uploader' = uploader + 1
    BY <1>4 DEF ResizeSurface, compositorVars
  <2>2. /\ held \subseteq Buffer /\ releases \subseteq Buffer /\ uploader \in Nat
        /\ BuffersOf(requests) \subseteq Buffer
    <3>1. \A i \in 1 .. Len(requests) : requests[i] \in Commit
      BY ElementOfSeq DEF TypeOK, DisplayTypeOK
    <3>2. BuffersOf(requests) \subseteq Buffer
      BY <3>1 DEF BuffersOf, Commit
    <3> QED BY <3>2 DEF TypeOK, DisplayTypeOK
  <2>3. \A b \in held \cup BuffersOf(requests) \cup releases :
          b[1] <= uploader /\ b[1] \in Nat
    BY <2>2, BufferInvParts DEF Buffer
  <2>4. \A b \in held \cup BuffersOf(requests) \cup releases : b[1] <= uploader'
    BY <2>1, <2>2, <2>3
  <2>5. \A i \in {0, 1} :
          <<uploader', i>> \notin held \cup BuffersOf(requests) \cup releases
    BY <2>1, <2>2, <2>3
  <2> QED BY <2>1, <2>4, <2>5, BufferInvParts, BufferInvPartsPrime
<1>5. ASSUME NEW b \in Buffer, ReleaseBuffer(b)
      PROVE  BufferInv' /\ MemoryInv'
  <2>1. /\ UNCHANGED <<requests, uploader, released, memory>>
        /\ b \in held /\ held' = held \ {b} /\ releases' = releases \cup {b}
    BY <1>5 DEF ReleaseBuffer, surfaceVars
  <2> QED BY <2>1, BufferInvParts, BufferInvPartsPrime
<1>6. CASE UNCHANGED <<requests, held, releases, uploader, released, memory>>
  BY <1>6, BufferInvParts, BufferInvPartsPrime
<1>7. CASE RecvStep
  <2>1. UNCHANGED <<requests, held, releases, uploader, released, memory>>
    BY <1>7 DEF RecvStep, RecvFrame, SendFrame, send_frame, RecvBad, RecvResize,
                Disconnect, StopDisplay, RaiseStop, JoinDisplay, displayVars,
                surfaceVars, compositorVars
  <2> QED BY <1>6, <2>1
<1>8. CASE \/ LoopStops \/ DrainDisplay \/ DrainDisplayEmpty \/ CreateSurface
           \/ KeepFrame \/ DispatchFails \/ CallbackTimesOut \/ SendDone
           \/ UNCHANGED vars
  <2>1. UNCHANGED <<requests, held, releases, uploader, released, memory>>
    BY <1>8 DEF LoopStops, DrainDisplay, DrainDisplayEmpty, CreateSurface, KeepFrame,
                DispatchFails, CallbackTimesOut, SendDone, vars, displayVars,
                surfaceVars, compositorVars
  <2> QED BY <1>6, <2>1
<1> QED BY <1>1, <1>2, <1>3, <1>4, <1>5, <1>7, <1>8
      DEF Next, Terminated, DisplayStep, CompositorStep

-----------------------------------------------------------------------------
(* Pictures *)

LEMMA CoversAppend ==
  ASSUME NEW T, NEW s \in Seq(T), NEW f \in T, CoversAll(s), f.damage = Cells
  PROVE  CoversAll(Append(s, f))
  BY AppendProperties, LenProperties DEF CoversAll

LEMMA CoversTail ==
  ASSUME NEW T, NEW s \in Seq(T), s # <<>>, CoversAll(s)
  PROVE  CoversAll(Tail(s)) /\ Head(s).damage = Cells
  BY HeadTailProperties, EmptySeq DEF CoversAll

LEMMA EmptyChain ==
  ASSUME NEW x, NEW m
  PROVE  Linked(x, <<>>, m) /\ End(x, <<>>) = x /\ CoversAll(<<>>)
  BY EmptySeq DEF Linked, End, CoversAll

\* A queue of one frame in the chain.
LEMMA OneLink ==
  ASSUME NEW T, NEW s \in Seq(T), Len(s) <= 1, s # <<>>, NEW x, NEW m
  PROVE  /\ End(x, s) = s[1].data
         /\ Linked(x, s, m) <=> XOR(x, s[1].data) \subseteq s[1].damage \cup m
         /\ CoversAll(s) <=> s[1].damage = Cells
<1>1. Len(s) = 1
  <2> DEFINE n == Len(s)
  <2>1. n \in Nat /\ n # 0 /\ n <= 1
    BY EmptySeq, LenProperties
  <2> HIDE DEF n
  <2>2. n = 1
    BY <2>1
  <2> QED BY <2>2 DEF n
<1> QED BY <1>1 DEF End, Linked, CoversAll

LEMMA SingleLink ==
  ASSUME NEW f \in DisplayFrame, NEW x, NEW m,
         XOR(x, f.data) \subseteq f.damage \cup m
  PROVE  /\ <<f>> \in Seq(DisplayFrame)
         /\ End(x, <<f>>) = f.data /\ Linked(x, <<f>>, m)
         /\ f.damage = Cells => CoversAll(<<f>>)
<1> DEFINE s == <<f>>
<1>1. s \in Seq(DisplayFrame) /\ Len(s) = 1 /\ s[1] = f /\ s # <<>>
  BY OneFrame
<1> HIDE DEF s
<1>2. /\ End(x, s) = f.data /\ Linked(x, s, m)
      /\ f.damage = Cells => CoversAll(s)
  BY <1>1 DEF End, Linked, CoversAll
<1> QED BY <1>1, <1>2 DEF s

\* A frame is received: the chain is empty behind the display ring, and the
\* new frame differs from previous_frame only inside its damage.
LEMMA RecvChain ==
  ASSUME TypeOK, PcInv, ChainInv, DamageInv,
         NEW picture \in Picture, NEW damage \in SUBSET Cells,
         NEW is_anchor \in BOOLEAN, NEW newSize \in Sizes,
         RecvFrame(picture, damage, is_anchor, newSize)
  PROVE  ChainInv' /\ DamageInv'
<1>1. /\ UNCHANGED <<texture, requests, pending, displayRing, skipped>>
      /\ previous_frame' = picture
      /\ damage = Cells \/ XOR(picture, previous_frame) \subseteq damage
      /\ FullDamage => damage = Cells
  BY DEF RecvFrame, displayVars, surfaceVars, compositorVars
<1>2. PICK f \in DisplayFrame :
        /\ f.data = picture /\ f.damage = damage
        /\ \/ outgoing' = <<f>> /\ reverted' = reverted
           \/ \E g \in DisplayFrame :
                /\ outgoing' = <<f, g>> /\ g.damage = Cells
                /\ reverted' = reverted \cup XOR(g.data, picture)
  BY RecvFrameSends
<1>3. Missed \subseteq Missed'
  BY <1>1, <1>2 DEF Missed
<1>4. EndRing' = EndRing
  BY <1>1 DEF EndRing, EndPending, EndRequests
<1>5. /\ Linked(texture, requests, Missed)' /\ Linked(EndRequests, pending, Missed)'
      /\ Linked(EndPending, displayRing, Missed)'
  <2>1. /\ Linked(texture, requests, Missed') /\ Linked(EndRequests, pending, Missed')
        /\ Linked(EndPending, displayRing, Missed')
    BY <1>3, LinkedMonotone DEF ChainInv
  <2> QED BY <1>1, <2>1 DEF Linked, EndPending, EndRequests
<1>6. EndRing \in Picture
  <2>1. EndRequests \in Picture
    <3>1. requests # <<>> => requests[Len(requests)] \in Commit
      BY FirstFrame, ElementOfSeq DEF TypeOK, DisplayTypeOK
    <3> QED BY <3>1 DEF EndRequests, End, Commit, TypeOK, DisplayTypeOK
  <2>2. EndPending \in Picture
    <3>1. pending # <<>> => pending[Len(pending)] \in DisplayFrame
      BY FirstFrame, ElementOfSeq DEF TypeOK, DisplayTypeOK
    <3> QED BY <2>1, <3>1 DEF EndPending, End, DisplayFrame
  <2>3. displayRing # <<>> => displayRing[Len(displayRing)] \in DisplayFrame
    BY FirstFrame, ElementOfSeq DEF TypeOK, DisplayTypeOK
  <2> QED BY <2>2, <2>3 DEF EndRing, End, DisplayFrame
<1>7. XOR(EndRing, f.data) \subseteq f.damage \cup Missed
  <2>1. XOR(EndRing, previous_frame) \subseteq Missed
    <3>1. outgoing = <<>>
      BY DEF RecvFrame, PcInv
    <3> QED BY <3>1, EmptyChain DEF ChainInv, EndOutgoing
  <2> QED BY <1>1, <1>2, <1>6, <2>1 DEF XOR, Picture
<1>8. CASE outgoing' = <<f>> /\ reverted' = reverted
  <2>1. /\ End(EndRing, <<f>>) = f.data /\ Linked(EndRing, <<f>>, Missed')
        /\ FullDamage => CoversAll(<<f>>)
    <3>1. XOR(EndRing, f.data) \subseteq f.damage \cup Missed'
      BY <1>3, <1>7
    <3> QED BY <1>1, <1>2, <3>1, SingleLink
  <2>2. Linked(EndRing, outgoing, Missed)' /\ EndOutgoing' = f.data
    BY <1>4, <1>8, <2>1 DEF Linked, EndOutgoing
  <2>3. XOR(EndOutgoing', previous_frame') \subseteq Missed'
    BY <1>1, <1>2, <2>2 DEF XOR
  <2>4. ChainInv'
    BY <1>5, <2>2, <2>3 DEF ChainInv, XOR
  <2> QED BY <1>1, <1>8, <2>1, <2>4 DEF DamageInv, CoversAll
<1>9. CASE \E g \in DisplayFrame :
                /\ outgoing' = <<f, g>> /\ g.damage = Cells
                /\ reverted' = reverted \cup XOR(g.data, picture)
  <2>1. PICK g \in DisplayFrame :
                /\ outgoing' = <<f, g>> /\ g.damage = Cells
                /\ reverted' = reverted \cup XOR(g.data, picture)
    BY <1>9
  <2> DEFINE p == <<f>>
             q == Append(p, g)
  <2>2. outgoing' = q
    BY <2>1
  <2>3. /\ p \in Seq(DisplayFrame) /\ End(EndRing, p) = f.data
        /\ Linked(EndRing, p, Missed') /\ (FullDamage => CoversAll(p))
    <3>1. XOR(EndRing, f.data) \subseteq f.damage \cup Missed'
      BY <1>3, <1>7
    <3> QED BY <1>1, <1>2, <3>1, SingleLink
  <2> HIDE DEF p
  <2>5. XOR(f.data, g.data) \subseteq g.damage \cup Missed'
    BY <2>1, <1>2 DEF XOR, DisplayFrame, Picture
  <2>6. Linked(EndRing, q, Missed') /\ End(EndRing, q) = g.data
    BY <2>3, <2>5, LinkedAppend
  <2>7. FullDamage => CoversAll(q)
    BY <2>1, <2>3, CoversAppend
  <2> HIDE DEF q
  <2>8. Linked(EndRing, outgoing, Missed)' /\ EndOutgoing' = g.data
    BY <1>4, <2>2, <2>6 DEF Linked, EndOutgoing
  <2>9. XOR(EndOutgoing', previous_frame') \subseteq Missed'
    BY <1>1, <2>1, <2>8 DEF XOR, Missed
  <2>10. ChainInv'
    BY <1>5, <2>8, <2>9 DEF ChainInv, XOR
  <2> QED BY <1>1, <2>2, <2>7, <2>10 DEF DamageInv, CoversAll
<1> QED BY <1>2, <1>8, <1>9

\* A frame goes into the display ring, or is refused: then its damage counts as
\* skipped, and the frame after it may differ there.
LEMMA SendChain ==
  ASSUME TypeOK, PcInv, ChainInv, DamageInv, SendFrame
  PROVE  ChainInv' /\ DamageInv'
<1> DEFINE h == Head(outgoing)
           t == Tail(outgoing)
<1>1. outgoing \in Seq(DisplayFrame) /\ outgoing # <<>>
  BY DEF SendFrame, PcInv, TypeOK
<1>2. /\ h \in DisplayFrame /\ t \in Seq(DisplayFrame)
      /\ XOR(EndRing, h.data) \subseteq h.damage \cup Missed
      /\ Linked(h.data, t, Missed)
      /\ EndOutgoing = End(h.data, t)
      /\ DamageInv /\ FullDamage => CoversAll(t) /\ h.damage = Cells
  BY <1>1, FirstFrame, LinkedTail, CoversTail DEF ChainInv, EndOutgoing, DamageInv
<1>3. /\ outgoing' = t
      /\ UNCHANGED <<texture, requests, pending, reverted, previous_frame>>
  BY DEF SendFrame, send_frame, surfaceVars, compositorVars, interpVars
<1> HIDE DEF h, t
<1>4. EndPending' = EndPending /\ EndRequests' = EndRequests
  BY <1>3 DEF EndPending, EndRequests
<1>5. CASE Len(displayRing) < DisplayRing
  <2>1. displayRing' = Append(displayRing, h) /\ Missed' = Missed
    BY <1>3, <1>5 DEF SendFrame, send_frame, Missed, h
  <2>2. displayRing \in Seq(DisplayFrame)
    BY DEF TypeOK, DisplayTypeOK
  <2>3. /\ Linked(EndPending, displayRing', Missed)
        /\ End(EndPending, displayRing') = h.data
    BY <1>2, <2>1, <2>2, LinkedAppend DEF ChainInv, EndRing
  <2>4. EndRing' = h.data /\ EndOutgoing' = EndOutgoing
    BY <1>2, <1>3, <1>4, <2>3 DEF EndRing, EndOutgoing
  <2>5. ChainInv'
    BY <1>2, <1>3, <1>4, <2>1, <2>3, <2>4 DEF ChainInv, Linked, XOR
  <2>6. FullDamage => CoversAll(displayRing')
    BY <1>2, <2>1, <2>2, CoversAppend DEF DamageInv
  <2> QED BY <1>2, <1>3, <2>5, <2>6 DEF DamageInv, CoversAll
<1>6. CASE ~(Len(displayRing) < DisplayRing)
  <2>1. displayRing' = displayRing /\ Missed' = Missed \cup h.damage
    BY <1>3, <1>6 DEF SendFrame, send_frame, Missed, h
  <2>2. EndRing' = EndRing
    BY <1>4, <2>1 DEF EndRing
  <2>3. XOR(h.data, EndRing) \subseteq Missed' /\ Linked(h.data, t, Missed')
    BY <1>2, <2>1, LinkedMonotone DEF XOR
  <2>4. Linked(EndRing, t, Missed') /\ XOR(EndOutgoing, End(EndRing, t)) \subseteq Missed'
    BY <1>2, <2>3, LinkedRestart
  <2>5. Linked(EndRing, outgoing, Missed)' /\ EndOutgoing' = End(EndRing, t)
    BY <1>3, <2>2, <2>4 DEF Linked, EndOutgoing
  <2>6. XOR(EndOutgoing', previous_frame) \subseteq Missed'
    BY <2>1, <2>4, <2>5 DEF ChainInv, XOR
  <2>7. /\ Linked(texture, requests, Missed') /\ Linked(EndRequests, pending, Missed')
        /\ Linked(EndPending, displayRing, Missed')
    BY <2>1, LinkedMonotone DEF ChainInv
  <2>8. ChainInv'
    BY <1>3, <1>4, <2>1, <2>5, <2>6, <2>7 DEF ChainInv, Linked, XOR
  <2> QED BY <1>2, <1>3, <2>1, <2>8 DEF DamageInv, CoversAll
<1> QED BY <1>5, <1>6

\* The newest frame replaces the pending one, whose damage counts as skipped.
LEMMA DrainChain ==
  ASSUME TypeOK, ChainInv, DamageInv, DrainDisplay, UNCHANGED recvVars
  PROVE  ChainInv' /\ DamageInv'
<1> DEFINE h == Head(displayRing)
           t == Tail(displayRing)
<1>1. displayRing \in Seq(DisplayFrame) /\ displayRing # <<>>
  BY DEF DrainDisplay, TypeOK, DisplayTypeOK
<1>2. /\ h \in DisplayFrame /\ t \in Seq(DisplayFrame)
      /\ XOR(EndPending, h.data) \subseteq h.damage \cup Missed
      /\ Linked(h.data, t, Missed)
      /\ EndRing = End(h.data, t)
      /\ FullDamage => CoversAll(t) /\ h.damage = Cells
  BY <1>1, FirstFrame, LinkedTail, CoversTail DEF ChainInv, EndRing, DamageInv
<1>3. /\ displayRing' = t /\ pending' = <<h>>
      /\ skipped' = IF pending = <<>> THEN skipped ELSE skipped \cup pending[1].damage
      /\ UNCHANGED <<texture, requests>>
  BY DEF DrainDisplay, compositorVars
<1>4. UNCHANGED <<outgoing, previous_frame, reverted>>
  BY DEF recvVars, interpVars
<1> HIDE DEF h, t
<1>5. ASSUME Missed \subseteq Missed',
             XOR(EndRequests, h.data) \subseteq h.damage \cup Missed'
      PROVE  ChainInv' /\ DamageInv'
  <2>1. UNCHANGED <<outgoing, previous_frame>>
    BY <1>4
  <2>2. /\ End(EndRequests, <<h>>) = h.data /\ Linked(EndRequests, <<h>>, Missed')
        /\ FullDamage => CoversAll(<<h>>)
    BY <1>2, <1>5, SingleLink
  <2>3. EndRequests' = EndRequests
    BY <1>3 DEF EndRequests
  <2>4. EndPending' = h.data
    BY <1>3, <2>2, <2>3 DEF EndPending
  <2>5. EndRing' = EndRing
    BY <1>2, <1>3, <2>4 DEF EndRing
  <2>6. EndOutgoing' = EndOutgoing
    BY <2>1, <2>5 DEF EndOutgoing
  <2>7. /\ Linked(texture, requests, Missed') /\ Linked(h.data, t, Missed')
        /\ Linked(EndRing, outgoing, Missed')
    BY <1>2, <1>5, LinkedMonotone DEF ChainInv
  <2>8. /\ Linked(texture, requests, Missed)' /\ Linked(EndRequests, pending, Missed)'
        /\ Linked(EndPending, displayRing, Missed)' /\ Linked(EndRing, outgoing, Missed)'
    BY <1>3, <2>1, <2>2, <2>3, <2>4, <2>5, <2>7 DEF Linked
  <2>9. ChainInv'
    BY <1>5, <2>1, <2>6, <2>8 DEF ChainInv, XOR
  <2> QED BY <1>2, <1>3, <2>1, <2>2, <2>9 DEF DamageInv, CoversAll
<1>6. CASE pending = <<>>
  <2>1. Missed' = Missed /\ EndPending = EndRequests
    BY <1>3, <1>4, <1>6, EmptyChain DEF Missed, EndPending
  <2> QED BY <1>2, <1>5, <2>1
<1>7. CASE pending # <<>>
  <2> DEFINE p == pending[1]
  <2>1. Missed' = Missed \cup p.damage
    BY <1>3, <1>4, <1>7 DEF Missed
  <2>2. /\ EndPending = p.data
        /\ XOR(EndRequests, p.data) \subseteq p.damage \cup Missed
    BY <1>7, OneLink DEF TypeOK, DisplayTypeOK, ChainInv, EndPending
  <2> HIDE DEF p
  <2>3. XOR(EndRequests, h.data) \subseteq h.damage \cup Missed'
    BY <1>2, <2>1, <2>2, XORTriangle
  <2> QED BY <1>5, <2>1, <2>3
<1> QED BY <1>6, <1>7

\* The pending frame becomes a commit.
LEMMA PresentChain ==
  ASSUME TypeOK, PcInv, ChainInv, DamageInv, PresentFrame, UNCHANGED recvVars
  PROVE  ChainInv' /\ DamageInv'
<1> DEFINE p == pending[1]
           c == [buffer |-> <<uploader, active>>, damage |-> p.damage,
                 size |-> size, data |-> p.data]
<1>1. pending \in Seq(DisplayFrame) /\ Len(pending) <= 1 /\ pending # <<>>
  BY DEF PresentFrame, Presenting, TypeOK, DisplayTypeOK, PcInv
<1>2. /\ EndPending = p.data
      /\ XOR(EndRequests, p.data) \subseteq p.damage \cup Missed
      /\ FullDamage => p.damage = Cells
  BY <1>1, OneLink DEF ChainInv, EndPending, DamageInv
<1>3. c \in Commit /\ c.data = p.data /\ c.damage = p.damage
  <2>1. p \in DisplayFrame /\ p.size = size
    BY <1>1, FirstFrame DEF PresentFrame, Presenting
  <2>2. <<uploader, active>> \in Buffer
    BY DEF TypeOK, DisplayTypeOK, Buffer
  <2> QED BY <2>1, <2>2 DEF Commit, DisplayFrame
<1>4. /\ requests' = Append(requests, c) /\ pending' = <<>>
      /\ UNCHANGED <<texture, displayRing, skipped>>
  BY DEF PresentFrame, compositorVars
<1>5. UNCHANGED <<outgoing, previous_frame, reverted>>
  BY DEF recvVars, interpVars
<1> HIDE DEF p, c
<1>6. requests \in Seq(Commit)
  BY DEF TypeOK, DisplayTypeOK
<1>7. Linked(texture, requests', Missed) /\ End(texture, requests') = p.data
  BY <1>2, <1>3, <1>4, <1>6, LinkedAppend DEF ChainInv, EndRequests
<1>8. Missed' = Missed
  BY <1>4, <1>5 DEF Missed
<1>9. EndRequests' = p.data /\ EndPending' = EndPending
  BY <1>2, <1>4, <1>7, EmptyChain DEF EndRequests, EndPending
<1>10. EndRing' = EndRing /\ EndOutgoing' = EndOutgoing
  BY <1>4, <1>5, <1>9 DEF EndRing, EndOutgoing
<1>11. /\ Linked(texture, requests, Missed)' /\ Linked(EndRequests, pending, Missed)'
       /\ Linked(EndPending, displayRing, Missed)' /\ Linked(EndRing, outgoing, Missed)'
  <2>1. Linked(p.data, <<>>, Missed) /\ CoversAll(<<>>)
    BY EmptyChain
  <2> QED BY <1>4, <1>5, <1>7, <1>8, <1>9, <1>10, <2>1 DEF ChainInv, Linked
<1>12. ChainInv'
  BY <1>5, <1>8, <1>10, <1>11 DEF ChainInv, XOR
<1>13. FullDamage => CoversAll(requests')
  BY <1>2, <1>3, <1>4, <1>6, CoversAppend DEF DamageInv
<1>14. CoversAll(pending')
  BY <1>4, EmptyChain
<1> QED BY <1>4, <1>5, <1>12, <1>13, <1>14 DEF DamageInv, CoversAll

\* A commit takes over the damaged cells of its buffer: what the compositor
\* then shows is the frame, but for the cells in Missed.
LEMMA CommitTexture ==
  ASSUME TypeOK, BufferInv, MemoryInv, ChainInv, DamageInv, HandleCommit
  PROVE  /\ XOR(texture', Head(requests).data) \subseteq Missed
         /\ FullDamage => texture' = Head(requests).data
<1> DEFINE c == Head(requests)
<1>1. requests \in Seq(Commit) /\ requests # <<>>
  BY DEF TypeOK, DisplayTypeOK, HandleCommit
<1>2. /\ c \in Commit
      /\ XOR(texture, c.data) \subseteq c.damage \cup Missed
      /\ FullDamage => c.damage = Cells
  BY <1>1, FirstFrame, LinkedTail, CoversTail DEF ChainInv, DamageInv
<1>3. memory[c.buffer] = c.data
  BY CommitBuffers
<1>4. texture' = IF c.size # textureSize THEN c.data
                 ELSE (texture \ c.damage) \cup (c.data \cap c.damage)
  BY <1>3 DEF HandleCommit
<1>5. texture \subseteq Cells /\ c.data \subseteq Cells
  BY <1>2 DEF TypeOK, DisplayTypeOK, Picture, Commit
<1> HIDE DEF c
<1>6. XOR(texture', c.data) \subseteq Missed
  BY <1>2, <1>4 DEF XOR
<1>7. FullDamage => texture' = c.data
  BY <1>2, <1>4, <1>5
<1> QED BY <1>6, <1>7 DEF c

LEMMA CommitChain ==
  ASSUME TypeOK, BufferInv, MemoryInv, ChainInv, DamageInv, HandleCommit,
         UNCHANGED recvVars
  PROVE  ChainInv' /\ DamageInv'
<1> DEFINE c == Head(requests)
           t == Tail(requests)
<1>1. requests \in Seq(Commit) /\ requests # <<>>
  BY DEF TypeOK, DisplayTypeOK, HandleCommit
<1>2. /\ c \in Commit /\ t \in Seq(Commit)
      /\ Linked(c.data, t, Missed) /\ EndRequests = End(c.data, t)
      /\ FullDamage => CoversAll(t)
  BY <1>1, FirstFrame, LinkedTail, CoversTail DEF ChainInv, DamageInv, EndRequests
<1>3. requests' = t /\ UNCHANGED <<displayRing, pending, skipped>>
  BY DEF HandleCommit
<1>4. UNCHANGED <<outgoing, previous_frame, reverted>>
  BY DEF recvVars, interpVars
<1>5. XOR(c.data, texture') \subseteq Missed
  BY CommitTexture DEF XOR
<1>6. /\ pending \in Seq(DisplayFrame) /\ displayRing \in Seq(DisplayFrame)
      /\ outgoing \in Seq(DisplayFrame)
  BY DEF TypeOK, DisplayTypeOK
<1> HIDE DEF c, t
<1>7. Missed' = Missed
  BY <1>3, <1>4 DEF Missed
<1>8. Linked(texture', t, Missed) /\ XOR(EndRequests, EndRequests') \subseteq Missed
  <2>1. Linked(texture', t, Missed) /\ XOR(End(c.data, t), End(texture', t)) \subseteq Missed
    BY <1>2, <1>5, LinkedRestart
  <2>2. EndRequests' = End(texture', t)
    BY <1>3 DEF EndRequests
  <2> QED BY <1>2, <2>1, <2>2
<1>9. /\ Linked(EndRequests', pending, Missed)
      /\ XOR(EndPending, EndPending') \subseteq Missed
  <2>1. EndPending' = End(EndRequests', pending)
    BY <1>3 DEF EndPending
  <2>2. /\ Linked(EndRequests', pending, Missed)
        /\ XOR(End(EndRequests, pending), End(EndRequests', pending)) \subseteq Missed
    BY <1>6, <1>8, LinkedRestart DEF ChainInv
  <2> QED BY <2>1, <2>2 DEF EndPending
<1>10. /\ Linked(EndPending', displayRing, Missed)
       /\ XOR(EndRing, EndRing') \subseteq Missed
  <2>1. EndRing' = End(EndPending', displayRing)
    BY <1>3 DEF EndRing
  <2>2. /\ Linked(EndPending', displayRing, Missed)
        /\ XOR(End(EndPending, displayRing), End(EndPending', displayRing)) \subseteq Missed
    BY <1>6, <1>9, LinkedRestart DEF ChainInv
  <2> QED BY <2>1, <2>2 DEF EndRing
<1>11. /\ Linked(EndRing', outgoing, Missed)
       /\ XOR(EndOutgoing, EndOutgoing') \subseteq Missed
  <2>1. EndOutgoing' = End(EndRing', outgoing)
    BY <1>4 DEF EndOutgoing
  <2>2. /\ Linked(EndRing', outgoing, Missed)
        /\ XOR(End(EndRing, outgoing), End(EndRing', outgoing)) \subseteq Missed
    BY <1>6, <1>10, LinkedRestart DEF ChainInv
  <2> QED BY <2>1, <2>2 DEF EndOutgoing
<1>12. XOR(EndOutgoing', previous_frame) \subseteq Missed
  BY <1>11 DEF ChainInv, XOR
<1>13. ChainInv'
  <2>1. /\ Linked(texture, requests, Missed)' /\ Linked(EndRequests, pending, Missed)'
        /\ Linked(EndPending, displayRing, Missed)' /\ Linked(EndRing, outgoing, Missed)'
    BY <1>3, <1>4, <1>7, <1>8, <1>9, <1>10, <1>11 DEF Linked
  <2> QED BY <1>4, <1>7, <1>12, <2>1 DEF ChainInv, XOR
<1> QED BY <1>2, <1>3, <1>4, <1>13 DEF DamageInv, CoversAll

\* Every step keeps the chain from the screen to the last frame received.
LEMMA NextChain ==
  ASSUME TypeOK, PcInv, BufferInv, MemoryInv, ChainInv, DamageInv, [Next]_vars
  PROVE  ChainInv' /\ DamageInv'
<1> DEFINE chainVars == <<texture, requests, pending, displayRing, outgoing, skipped,
                          reverted, previous_frame>>
<1>1. CASE UNCHANGED chainVars
  <2>1. /\ EndRequests' = EndRequests /\ EndPending' = EndPending
        /\ EndRing' = EndRing /\ EndOutgoing' = EndOutgoing /\ Missed' = Missed
    BY <1>1 DEF EndRequests, EndPending, EndRing, EndOutgoing, Missed
  <2>2. ChainInv'
    BY <1>1, <2>1 DEF ChainInv, Linked, XOR
  <2> QED BY <1>1, <2>2 DEF DamageInv, CoversAll
<1>2. CASE RecvStep
  <2>1. ASSUME NEW picture \in Picture, NEW damage \in SUBSET Cells,
               NEW is_anchor \in BOOLEAN, NEW newSize \in Sizes,
               RecvFrame(picture, damage, is_anchor, newSize)
        PROVE  ChainInv' /\ DamageInv'
    BY <2>1, RecvChain
  <2>2. CASE SendFrame
    BY <2>2, SendChain
  <2>3. CASE RecvBad \/ RecvResize \/ Disconnect \/ StopDisplay \/ JoinDisplay
    <3>1. UNCHANGED chainVars
      BY <2>3 DEF RecvBad, RecvResize, Disconnect, StopDisplay, RaiseStop, JoinDisplay,
                  displayVars, compositorVars, interpVars
    <3> QED BY <1>1, <3>1
  <2> QED BY <1>2, <2>1, <2>2, <2>3 DEF RecvStep
<1>3. CASE /\ DisplayStep \/ DispatchFails \/ CallbackTimesOut \/ CompositorStep
           /\ UNCHANGED recvVars
  <2>1. CASE DrainDisplay
    BY <1>3, <2>1, DrainChain
  <2>2. CASE PresentFrame
    BY <1>3, <2>2, PresentChain
  <2>3. CASE HandleCommit
    BY <1>3, <2>3, CommitChain
  <2>4. CASE \/ LoopStops \/ DispatchPending \/ DrainDisplayEmpty \/ CreateSurface
             \/ ResizeSurface \/ KeepFrame \/ DispatchFails \/ CallbackTimesOut
             \/ (\E b \in Buffer : ReleaseBuffer(b)) \/ SendDone
    <3>1. UNCHANGED <<texture, requests, pending, displayRing, skipped>>
      BY <2>4 DEF LoopStops, DispatchPending, DrainDisplayEmpty, CreateSurface,
                  ResizeSurface, KeepFrame, DispatchFails, CallbackTimesOut,
                  ReleaseBuffer, SendDone, compositorVars
    <3>2. UNCHANGED <<outgoing, reverted, previous_frame>>
      BY <1>3 DEF recvVars, interpVars
    <3> QED BY <1>1, <3>1, <3>2
  <2> QED BY <1>3, <2>1, <2>2, <2>3, <2>4 DEF DisplayStep, CompositorStep
<1>4. CASE UNCHANGED vars
  <2>1. UNCHANGED chainVars
    BY <1>4 DEF vars, displayVars, recvVars, compositorVars, interpVars
  <2> QED BY <1>1, <2>1
<1> QED BY <1>2, <1>3, <1>4 DEF Next, Terminated

-----------------------------------------------------------------------------
LEMMA InitDisplay == Init => DisplayInv
<1> SUFFICES ASSUME Init PROVE DisplayInv
  OBVIOUS
<1>1. TypeOK /\ PcInv
  BY InitType
<1>2. /\ requests = <<>> /\ pending = <<>> /\ displayRing = <<>> /\ outgoing = <<>>
      /\ held = {} /\ releases = {} /\ texture = {} /\ previous_frame = {}
  BY DEF Init, DisplayInit, Zeroes
<1>3. Len(<<>>) = 0
  BY EmptySeq
<1>4. BufferInv /\ MemoryInv
  BY <1>2, <1>3 DEF BufferInv, MemoryInv, InUse, Requested
<1>5. ChainInv
  <2>1. /\ EndRequests = {} /\ EndPending = {} /\ EndRing = {} /\ EndOutgoing = {}
    BY <1>2 DEF EndRequests, EndPending, EndRing, EndOutgoing, End
  <2>2. XOR({}, {}) = {}
    BY DEF XOR
  <2> QED BY <1>2, <2>1, <2>2, EmptyChain DEF ChainInv
<1>6. DamageInv
  BY <1>2, EmptyChain DEF DamageInv
<1> QED BY <1>1, <1>4, <1>5, <1>6 DEF DisplayInv

LEMMA NextDisplay == DisplayInv /\ [Next]_vars => DisplayInv'
  BY NextType, NextBuffers, NextChain DEF DisplayInv

\* For any picture, sizes, ring depth and number of frames, every variable of
\* the client keeps its type; the bounds of the display ring and of the pending
\* frame are among them.
THEOREM TypeCorrect == Spec => []TypeOK
<1>1. DisplayInv => TypeOK
  BY DEF DisplayInv
<1> QED BY <1>1, InitDisplay, NextDisplay, PTL DEF Spec

\* A commit that the compositor has not handled still finds its frame in the
\* buffer, whatever the display thread has uploaded since.
THEOREM CommitsKeepTheirFrame == Spec => []MemoryInv
<1>1. DisplayInv => MemoryInv
  BY DEF DisplayInv
<1> QED BY <1>1, InitDisplay, NextDisplay, PTL DEF Spec

\* ShmFrameUploader::upload never writes into a buffer that the compositor
\* shows or is going to show, through late and lost callbacks, releases of
\* destroyed buffers and resizes.
THEOREM UploadsAreSafe == Spec => UploadsOnlyFree
<1> DEFINE A == \A b \in Buffer : memory'[b] # memory[b] => b \notin InUse
<1>1. DisplayInv /\ [Next]_vars => [A]_vars
  <2> SUFFICES ASSUME DisplayInv, Next, NEW b \in Buffer, memory'[b] # memory[b]
               PROVE  b \notin InUse
    OBVIOUS
  <2>1. CASE PresentFrame
    <3>1. <<uploader, active>> \notin InUse
      BY <2>1, PresentBuffers DEF DisplayInv
    <3>2. memory \in [Buffer -> Picture]
      BY DEF DisplayInv, TypeOK, DisplayTypeOK
    <3>3. memory' = [memory EXCEPT ![<<uploader, active>>] = pending[1].data]
      BY <2>1 DEF PresentFrame
    <3> QED BY <3>1, <3>2, <3>3
  <2>2. CASE ~PresentFrame
    <3>1. memory' = memory
      BY <2>2 DEF Next, Terminated, RecvStep, RecvFrame, SendFrame, send_frame, RecvBad,
                  RecvResize, Disconnect, StopDisplay, RaiseStop, JoinDisplay,
                  DisplayStep, LoopStops, DispatchPending, DrainDisplay,
                  DrainDisplayEmpty, CreateSurface, ResizeSurface, KeepFrame,
                  DispatchFails, CallbackTimesOut, CompositorStep, HandleCommit,
                  ReleaseBuffer, SendDone, vars, displayVars, surfaceVars
    <3> QED BY <3>1
  <2> QED BY <2>1, <2>2
<1> QED BY <1>1, InitDisplay, NextDisplay, PTL DEF Spec, UploadsOnlyFree

\* What the compositor shows after a commit is the committed frame, except in
\* the damage of frames that were never committed and where an interpolated
\* frame took a change back; with full damage it is exactly that frame.
THEOREM CommitsAreShown == Spec => CommitShown
<1> DEFINE A == HandleCommit
                  => /\ XOR(texture', Head(requests).data) \subseteq skipped \cup reverted
                     /\ FullDamage => texture' = Head(requests).data
<1>1. DisplayInv /\ [Next]_vars => [A]_vars
  BY CommitTexture DEF DisplayInv, Missed
<1> QED BY <1>1, InitDisplay, NextDisplay, PTL DEF Spec, CommitShown
=============================================================================
