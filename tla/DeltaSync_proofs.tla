-------------------------- MODULE DeltaSync_proofs --------------------------
(***************************************************************************)
(* Proofs about the delta pipeline, for every set of cells, every capacity *)
(* and every anchor interval.                                              *)
(***************************************************************************)
EXTENDS DeltaSync, TLAPS

-----------------------------------------------------------------------------
(* Facts about XOR *)

\* A cell lies in the XOR of two pictures when exactly one of them lights it.
LEMMA XORElement ==
  ASSUME NEW a, NEW b, NEW c
  PROVE  c \in XOR(a, b) <=> (c \in a /\ c \notin b) \/ (c \in b /\ c \notin a)
BY DEF XOR

\* A XOR of pictures is a picture (the buffers keep their size).
LEMMA XORType ==
  ASSUME NEW a \in SUBSET Cells, NEW b \in SUBSET Cells
  PROVE  XOR(a, b) \in SUBSET Cells
BY DEF XOR

\* A picture does not differ from itself.
LEMMA DifferSelf ==
  ASSUME NEW a, NEW s
  PROVE  DifferIn(a, a, s)
BY XORElement DEF DifferIn

\* Differences add up along a chain of pictures.
LEMMA DifferTrans ==
  ASSUME NEW a, NEW b, NEW c, NEW s, NEW t, NEW u,
         DifferIn(a, b, s), DifferIn(b, c, t), s \subseteq u, t \subseteq u
  PROVE  DifferIn(a, c, u)
BY XORElement DEF DifferIn

\* More cells never hurt.
LEMMA DifferMono ==
  ASSUME NEW a, NEW b, NEW s, NEW t, DifferIn(a, b, s), s \subseteq t
  PROVE  DifferIn(a, b, t)
BY DEF DifferIn

\* Painting `cells` adds at most these cells to a difference.
LEMMA DifferPaint ==
  ASSUME NEW a, NEW b, NEW s, NEW cells, NEW t,
         DifferIn(a, b, s), s \subseteq t, cells \subseteq t
  PROVE  DifferIn(XOR(a, cells), b, t)
BY XORElement DEF DifferIn

\* Sending a delta: the bases grow apart only where the new picture differs
\* from the old base outside the encoded regions.
LEMMA SendDivergence ==
  ASSUME NEW cur, NEW prev, NEW client, NEW o, NEW regions, NEW s,
         XOR(XOR(prev, client), o) \subseteq s,
         XOR(cur, prev) \subseteq regions \cup s
  PROVE  XOR(XOR(cur, client), XOR(o, delta_encode(cur, prev, regions)))
           \subseteq s
<1> SUFFICES ASSUME NEW c,
               c \in XOR(XOR(cur, client),
                         XOR(o, delta_encode(cur, prev, regions)))
             PROVE c \in s
    OBVIOUS
<1> DEFINE d == delta_encode(cur, prev, regions)
<1>1. c \in d <=> c \in XOR(cur, prev) /\ c \in regions
  BY DEF delta_encode
<1>2. c \in XOR(XOR(prev, client), o) => c \in s
  OBVIOUS
<1>3. c \in XOR(cur, prev) => c \in regions \/ c \in s
  OBVIOUS
<1> HIDE DEF d
<1>4. QED
  BY <1>1, <1>2, <1>3, XORElement DEF d

\* Decoding a delta moves it from what is under way to the client's base.
LEMMA DecodeDivergence ==
  ASSUME NEW prev, NEW client, NEW o, NEW d
  PROVE  XOR(XOR(prev, delta_decode(d, client)), XOR(o, d))
           = XOR(XOR(prev, client), o)
BY DEF delta_decode, XOR

-----------------------------------------------------------------------------
(* Type correctness *)

\* What a pop leaves of a queue.
LEMMA PopType ==
  ASSUME NEW S, NEW q \in Seq(S), q # <<>>
  PROVE  /\ Head(q) \in S
         /\ Tail(q) \in Seq(S)
         /\ Len(Tail(q)) = Len(q) - 1
         /\ Len(q) \in Nat
OBVIOUS

\* A queue is empty when it holds nothing.
LEMMA EmptyQueue ==
  ASSUME NEW S, NEW q \in Seq(S)
  PROVE  q = <<>> <=> Len(q) = 0
OBVIOUS

\* What a push makes of a queue.
LEMMA PushType ==
  ASSUME NEW S, NEW q \in Seq(S), NEW e \in S
  PROVE  /\ Append(q, e) \in Seq(S)
         /\ Len(Append(q, e)) = Len(q) + 1
         /\ Len(q) \in Nat
OBVIOUS

\* The empty frame is a frame.
LEMMA NoFrameType == NoFrame \in CapturedFrame
BY DEF NoFrame, CapturedFrame, Picture, Zeroes

\* The message for the frame in hand is a message.
LEMMA EncodedType ==
  ASSUME TypeOK
  PROVE  Encoded \in Message
BY SyncAssumption
DEF TypeOK, CaptureTypeOK, CapturedFrame, Picture, Message, Encoded, Zeroes,
    force_anchor, delta_encode, XOR

\* A step of the application or of the capture thread keeps the types.
LEMMA CaptureStepType ==
  ASSUME TypeOK, UNCHANGED otherVars,
         CaptureStep \/ \E cells \in SUBSET Cells \ {{}} : Paint(cells)
  PROVE  TypeOK'
<1> USE CaptureAssumption
    DEF TypeOK, CaptureTypeOK, CapturedFrame, Picture, NoFrame, Zeroes,
        otherVars, compressVars, transportVars
<1>1. ASSUME NEW cells \in SUBSET Cells \ {{}}, Paint(cells)
      PROVE  TypeOK'
  BY <1>1 DEF Paint, XOR
<1>2. CASE CheckStop
  BY <1>2 DEF CheckStop
<1>3. CASE NextFrame
  BY <1>3 DEF NextFrame, FrameDamage
<1>4. CASE NextFrameFails
  BY <1>4 DEF NextFrameFails
<1>5. CASE RateLimit
  BY <1>5 DEF RateLimit
<1>6. CASE Push
  BY <1>6 DEF Push
<1>7. CASE PushFull
  BY <1>7 DEF PushFull
<1>8. CASE SetDropped
  BY <1>8 DEF SetDropped
<1>9. CASE Exit
  BY <1>9 DEF Exit
<1>10. QED
  BY <1>1, <1>2, <1>3, <1>4, <1>5, <1>6, <1>7, <1>8, <1>9 DEF CaptureStep

\* A step of the compress thread keeps the types.
LEMMA CompressStepType ==
  ASSUME TypeOK, CompressStep
  PROVE  TypeOK'
<1> USE CaptureAssumption, SyncAssumption
    DEF TypeOK, CaptureTypeOK, captureVars, transportVars
<1>1. CASE TryRecv
  <2>1. /\ Head(ring) \in CapturedFrame
        /\ Tail(ring) \in Seq(CapturedFrame)
        /\ Len(Tail(ring)) <= RingCapacity
    BY <1>1, PopType DEF TryRecv
  <2>2. QED
    BY <1>1, <2>1 DEF TryRecv
<1>2. CASE TryRecvNone
  BY <1>2 DEF TryRecvNone
<1>3. CASE PollFinished
  BY <1>3 DEF PollFinished
<1>4. CASE DrainRing
  <2>1. /\ Head(ring) \in CapturedFrame
        /\ Tail(ring) \in Seq(CapturedFrame)
        /\ Len(Tail(ring)) <= RingCapacity
    BY <1>4, PopType DEF DrainRing
  <2>2. QED
    BY <1>4, <2>1 DEF DrainRing
<1>5. CASE DrainEmpty
  BY <1>5 DEF DrainEmpty
<1>6. CASE TakeDroppedFlag
  BY <1>6 DEF TakeDroppedFlag
<1>7. Encoded \in Message /\ XOR(owed, Encoded.delta) \in SUBSET Cells
  BY EncodedType, XORType DEF Message
<1>8. frame.data \in Picture
  BY DEF CapturedFrame
<1>9. (frame_count % AnchorInterval) + 1 \in 0 .. AnchorInterval
  OBVIOUS
<1>10. CASE SendAnchor
  <2>1. Append(anchor_tx, Encoded) \in Seq(Message)
    BY <1>7, PushType
  <2>2. QED
    BY <1>7, <1>8, <1>9, <1>10, <2>1, NoFrameType
    DEF SendAnchor, AdvanceBase, FinishPass
<1>11. CASE SendUpdate
  <2>1. /\ Append(frame_tx, Encoded) \in Seq(Message)
        /\ Len(Append(frame_tx, Encoded)) <= FrameQueueDepth
    BY <1>7, <1>11, PushType DEF SendUpdate
  <2>2. QED
    BY <1>7, <1>8, <1>9, <1>11, <2>1, NoFrameType
    DEF SendUpdate, AdvanceBase, FinishPass
<1>12. CASE DropUpdate
  BY <1>9, <1>12, NoFrameType DEF DropUpdate, FinishPass
<1>13. CASE LeaveLoop
  BY <1>13 DEF LeaveLoop
<1>14. CASE JoinCapture
  BY <1>14 DEF JoinCapture
<1>15. QED
  BY <1>1, <1>2, <1>3, <1>4, <1>5, <1>6, <1>10, <1>11, <1>12, <1>13, <1>14
  DEF CompressStep

\* A step of the writer, of the client or a shutdown keeps the types.
LEMMA DeliveryStepType ==
  ASSUME TypeOK,
         \/ WriteAnchor \/ WriteFrame \/ ClientDecode \/ Shutdown
         \/ UNCHANGED vars
  PROVE  TypeOK'
<1> USE DEF TypeOK, CaptureTypeOK, captureVars, compressVars, transportVars
<1>1. CASE WriteAnchor
  <2>1. /\ Head(anchor_tx) \in Message
        /\ Tail(anchor_tx) \in Seq(Message)
    BY <1>1, PopType DEF WriteAnchor
  <2>2. Append(wire, Head(anchor_tx)) \in Seq(Message)
    BY <2>1, PushType
  <2>3. QED
    BY <1>1, <2>1, <2>2 DEF WriteAnchor
<1>2. CASE WriteFrame
  <2>1. /\ Head(frame_tx) \in Message
        /\ Tail(frame_tx) \in Seq(Message)
        /\ Len(Tail(frame_tx)) <= FrameQueueDepth
    BY <1>2, SyncAssumption, PopType DEF WriteFrame
  <2>2. Append(wire, Head(frame_tx)) \in Seq(Message)
    BY <2>1, PushType
  <2>3. QED
    BY <1>2, <2>1, <2>2 DEF WriteFrame
<1>3. CASE ClientDecode
  <2>1. Head(wire) \in Message /\ Tail(wire) \in Seq(Message)
    BY <1>3, PopType DEF ClientDecode
  <2>2. Head(wire).delta \in SUBSET Cells
    BY <2>1 DEF Message
  <2>3. /\ delta_decode(Head(wire).delta, clientBase) \in Picture
        /\ XOR(owed, Head(wire).delta) \in SUBSET Cells
    BY <2>2, XORType DEF delta_decode, Picture
  <2>4. QED
    BY <1>3, <2>1, <2>3 DEF ClientDecode
<1>4. CASE Shutdown
  BY <1>4 DEF Shutdown
<1>5. CASE UNCHANGED vars
  BY <1>5 DEF vars
<1>6. QED
  BY <1>1, <1>2, <1>3, <1>4, <1>5

\* The initial state is well typed.
LEMMA InitType ==
  ASSUME Init
  PROVE  TypeOK
<1>1. /\ paints \in 0 .. MaxPaints
      /\ ring \in Seq(CapturedFrame) /\ Len(ring) <= RingCapacity
      /\ frame_count \in 0 .. AnchorInterval
      /\ anchor_tx \in Seq(Message) /\ frame_tx \in Seq(Message)
      /\ Len(frame_tx) <= FrameQueueDepth /\ wire \in Seq(Message)
  BY CaptureAssumption, SyncAssumption DEF Init, CaptureInit
<1>2. CaptureTypeOK
  BY <1>1, NoFrameType, Zenon DEF Init, CaptureInit, CaptureTypeOK
<1>3. Zeroes \in Picture
  BY DEF Zeroes, Picture
<1>4. QED
  BY <1>1, <1>2, <1>3, NoFrameType, Zenon DEF Init, TypeOK

\* Every step keeps the types.
LEMMA StepType ==
  ASSUME TypeOK, [Next]_vars
  PROVE  TypeOK'
BY CaptureStepType, CompressStepType, DeliveryStepType DEF Next, Terminated

\* Every reachable state is well typed: in particular no queue outgrows its
\* capacity and the delta bases stay pictures of the screen's size.
THEOREM TypeCorrect == Spec => []TypeOK
<1>1. Init => TypeOK
  BY InitType
<1>2. TypeOK /\ [Next]_vars => TypeOK'
  BY StepType
<1>3. QED
  BY <1>1, <1>2, PTL DEF Spec

-----------------------------------------------------------------------------
(* The chain of pictures *)

\* A step that leaves the pictures and their order alone keeps the chain.
LEMMA ChainStutter ==
  ASSUME ChainInv,
         UNCHANGED <<screen, changed, captureFrame, ring, discarded, frame,
                     previous_frame, need_full_damage, is_first>>,
         capturePc' = "pace" <=> capturePc = "pace",
         Holding' <=> Holding
  PROVE  ChainInv'
BY DEF ChainInv, RingChain, HeadChain, CaptureChain, LastChain, TailChain,
       TakenKnown, Taken, Follows

\* The application draws: only the end of the chain, the screen, moves.
LEMMA PaintChain ==
  ASSUME TypeOK, ChainInv, UNCHANGED otherVars,
         NEW cells \in SUBSET Cells, Paint(cells)
  PROVE  ChainInv'
<1> USE DEF Paint, otherVars, compressVars
<1>1. /\ Holding' <=> Holding
      /\ TakenKnown' <=> TakenKnown
      /\ Taken' = Taken
  BY DEF Holding, TakenKnown, Taken
<1>2. RingChain' /\ HeadChain'
  BY <1>1 DEF ChainInv, RingChain, HeadChain, Follows
<1>3. CaptureChain'
  BY DifferPaint DEF ChainInv, CaptureChain
<1>4. ASSUME NEW p, TailChain(p)
      PROVE  /\ capturePc = "pace" => Follows(p, captureFrame)'
             /\ capturePc # "pace" =>
                  DifferIn(screen', p, changed' \cup discarded')
  BY <1>4, DifferPaint DEF TailChain, Follows
<1>5. LastChain'
  BY <1>1, <1>4 DEF ChainInv, LastChain, TailChain, Follows
<1>6. QED
  BY <1>2, <1>3, <1>5 DEF ChainInv

\* A new frame is the screen, damaged where the screen changed.
LEMMA NextFrameChain ==
  ASSUME TypeOK, ChainInv, UNCHANGED otherVars, NextFrame
  PROVE  ChainInv'
<1> USE DEF NextFrame, otherVars, compressVars
<1>1. /\ Holding' <=> Holding
      /\ TakenKnown' <=> TakenKnown
      /\ Taken' = Taken
  BY DEF Holding, TakenKnown, Taken
<1>2. RingChain' /\ HeadChain'
  BY <1>1 DEF ChainInv, RingChain, HeadChain, Follows
<1>3. CaptureChain'
  BY DifferSelf DEF CaptureChain
<1>4. changed \subseteq FrameDamage
  BY DEF TypeOK, CaptureTypeOK, FrameDamage
<1>5. ASSUME NEW p, TailChain(p)
      PROVE  DifferIn(captureFrame'.data, p, captureFrame'.damage \cup discarded')
  BY <1>4, <1>5, DifferMono DEF TailChain
<1>6. LastChain'
  BY <1>1, <1>5 DEF ChainInv, LastChain, TailChain, Follows
<1>7. QED
  BY <1>2, <1>3, <1>6 DEF ChainInv

\* A frame let go: its damage joins the discarded cells.
LEMMA DiscardChain ==
  ASSUME TypeOK, ChainInv, UNCHANGED otherVars, RateLimit \/ PushFull
  PROVE  ChainInv'
<1> USE DEF RateLimit, PushFull, otherVars, compressVars
<1>1. /\ Holding' <=> Holding
      /\ TakenKnown' <=> TakenKnown
      /\ Taken' = Taken
      /\ capturePc = "pace" /\ capturePc' # "pace"
      /\ discarded' = discarded \cup captureFrame.damage
      /\ UNCHANGED <<screen, changed, ring>>
  BY DEF Holding, TakenKnown, Taken
<1>2. ASSUME NEW p, NEW f, Follows(p, f)
      PROVE  DifferIn(f.data, p, f.damage \cup discarded')
  BY <1>1, <1>2, DifferMono DEF Follows
<1>3. RingChain'
  BY <1>1, <1>2 DEF ChainInv, RingChain, Follows
<1>4. HeadChain'
  BY <1>1, <1>2 DEF ChainInv, HeadChain, Follows
<1>5. CaptureChain'
  BY <1>1 DEF CaptureChain
<1>6. ASSUME NEW p, TailChain(p)
      PROVE  DifferIn(screen', p, changed' \cup discarded')
  <2>1. DifferIn(screen, captureFrame.data, changed)
    BY <1>1 DEF ChainInv, CaptureChain
  <2>2. DifferIn(captureFrame.data, p, captureFrame.damage \cup discarded)
    BY <1>1, <1>6 DEF TailChain, Follows
  <2>3. QED
    BY <1>1, <2>1, <2>2, DifferTrans
<1>7. LastChain'
  BY <1>1, <1>6 DEF ChainInv, LastChain, TailChain
<1>8. QED
  BY <1>3, <1>4, <1>5, <1>7 DEF ChainInv

\* A push moves the capture thread's frame to the end of the ring.
LEMMA PushChain ==
  ASSUME TypeOK, ChainInv, UNCHANGED otherVars, Push
  PROVE  ChainInv'
<1> USE DEF Push, otherVars, compressVars
<1>1. /\ Holding' <=> Holding
      /\ TakenKnown' <=> TakenKnown
      /\ Taken' = Taken
      /\ capturePc = "pace" /\ capturePc' # "pace"
      /\ UNCHANGED <<screen, changed, discarded>>
  BY DEF Holding, TakenKnown, Taken
<1>2. /\ ring \in Seq(CapturedFrame)
      /\ captureFrame \in CapturedFrame
      /\ Len(ring) \in Nat
  BY DEF TypeOK, CaptureTypeOK
<1>3. /\ ring' # <<>>
      /\ Len(ring') = Len(ring) + 1
      /\ \A i \in 1 .. Len(ring) : ring'[i] = ring[i]
      /\ ring'[Len(ring')] = captureFrame
      /\ ring = <<>> <=> Len(ring) = 0
  BY <1>2
<1>4. RingChain'
  <2> SUFFICES ASSUME NEW i \in 1 .. Len(ring') - 1
               PROVE  Follows(ring'[i].data, ring'[i + 1])
      BY <1>1 DEF RingChain, Follows
  <2>1. CASE i < Len(ring)
    <3>1. i \in 1 .. Len(ring) - 1 /\ ring'[i] = ring[i] /\ ring'[i + 1] = ring[i + 1]
      BY <1>2, <1>3, <2>1
    <3>2. QED
      BY <3>1 DEF ChainInv, RingChain
  <2>2. CASE i = Len(ring)
    <3>1. ring # <<>> /\ ring'[i] = ring[Len(ring)] /\ ring'[i + 1] = captureFrame
      BY <1>2, <1>3, <2>2
    <3>2. QED
      BY <1>1, <3>1 DEF ChainInv, LastChain, TailChain
  <2>3. QED
    BY <1>2, <1>3, <2>1, <2>2
<1>5. HeadChain'
  <2>1. CASE ring = <<>>
    <3>1. ring'[1] = captureFrame
      BY <1>2, <1>3, <2>1
    <3>2. TakenKnown => Follows(Taken, captureFrame)
      BY <1>1, <2>1 DEF ChainInv, LastChain, TailChain
    <3>3. QED
      BY <1>1, <3>1, <3>2 DEF ChainInv, HeadChain, Follows
  <2>2. CASE ring # <<>>
    <3>1. ring'[1] = ring[1]
      BY <1>2, <1>3, <2>2
    <3>2. QED
      BY <1>1, <2>2, <3>1 DEF ChainInv, HeadChain, Follows
  <2>3. QED
    BY <2>1, <2>2
<1>6. CaptureChain'
  BY <1>1 DEF CaptureChain
<1>7. LastChain'
  <2>1. DifferIn(screen, captureFrame.data, changed \cup discarded)
    BY <1>1, DifferMono DEF ChainInv, CaptureChain
  <2>2. QED
    BY <1>1, <1>3, <2>1 DEF LastChain, TailChain
<1>8. QED
  BY <1>4, <1>5, <1>6, <1>7 DEF ChainInv

\* A pop moves the head of the ring into the compress thread's hands.  Only
\* the first pop of a pass leaves the delta base next to it in the chain.
LEMMA PopChain ==
  ASSUME TypeOK, ChainInv, TryRecv \/ DrainRing
  PROVE  ChainInv'
<1>1. /\ ring # <<>> /\ frame' = Head(ring) /\ ring' = Tail(ring)
      /\ Holding' /\ TakenKnown'
      /\ UNCHANGED <<screen, changed, capturePc, captureFrame, discarded,
                     previous_frame, is_first>>
  BY DEF TryRecv, DrainRing, Holding, TakenKnown
<1>2. /\ ring \in Seq(CapturedFrame)
      /\ Len(ring) \in Nat \ {0}
  BY <1>1 DEF TypeOK, CaptureTypeOK
<1>3. /\ frame' = ring[1]
      /\ Len(ring') = Len(ring) - 1
      /\ \A i \in 1 .. Len(ring') : ring'[i] = ring[i + 1]
      /\ ring' = <<>> <=> Len(ring) = 1
  <2>1. /\ Tail(ring) \in Seq(CapturedFrame)
        /\ Len(Tail(ring)) = Len(ring) - 1
        /\ \A i \in 1 .. Len(ring) - 1 : Tail(ring)[i] = ring[i + 1]
    BY <1>2
  <2>2. Tail(ring) = <<>> <=> Len(Tail(ring)) = 0
    BY <2>1, EmptyQueue
  <2>3. QED
    BY <1>1, <1>2, <2>1, <2>2
<1>4. Taken' = ring[1].data
  BY <1>1, <1>3 DEF Taken
<1>5. RingChain'
  <2> SUFFICES ASSUME NEW i \in 1 .. Len(ring') - 1
               PROVE  Follows(ring'[i].data, ring'[i + 1])
      BY <1>1 DEF RingChain, Follows
  <2>1. /\ i + 1 \in 1 .. Len(ring) - 1
        /\ ring'[i] = ring[i + 1] /\ ring'[i + 1] = ring[(i + 1) + 1]
    BY <1>2, <1>3
  <2>2. QED
    BY <2>1 DEF ChainInv, RingChain
<1>6. HeadChain'
  <2>1. Holding' /\ ~need_full_damage' /\ ~is_first'
          => Follows(previous_frame, ring[1])
    <3>1. CASE DrainRing
      BY <3>1 DEF DrainRing
    <3>2. CASE TryRecv
      <4>1. ~Holding /\ UNCHANGED need_full_damage
        BY <3>2 DEF TryRecv, Holding
      <4>2. QED
        BY <1>1, <4>1 DEF ChainInv, HeadChain, TakenKnown, Taken
    <3>3. QED
      BY <3>1, <3>2
  <2>2. ring' # <<>> => Follows(ring[1].data, ring'[1])
    <3> SUFFICES ASSUME ring' # <<>>
                 PROVE  Follows(ring[1].data, ring'[1])
        OBVIOUS
    <3>1. 1 \in 1 .. Len(ring) - 1 /\ ring'[1] = ring[1 + 1]
      BY <1>2, <1>3
    <3>2. QED
      BY <3>1 DEF ChainInv, RingChain
  <2>3. QED
    BY <1>1, <1>3, <1>4, <2>1, <2>2 DEF HeadChain, Follows
<1>7. CaptureChain'
  BY <1>1 DEF ChainInv, CaptureChain
<1>8. LastChain'
  <2>1. TailChain(ring[Len(ring)].data)
    BY <1>1 DEF ChainInv, LastChain
  <2>2. ring' # <<>> => ring'[Len(ring')] = ring[Len(ring)]
    BY <1>2, <1>3
  <2>3. ring' = <<>> => Taken' = ring[Len(ring)].data
    BY <1>3, <1>4
  <2>4. QED
    BY <1>1, <2>1, <2>2, <2>3 DEF LastChain, TailChain, Follows
<1>9. QED
  BY <1>5, <1>6, <1>7, <1>8 DEF ChainInv

\* Asking for full damage only forgets links of the chain.
LEMMA FlagChain ==
  ASSUME TypeOK, ChainInv, TakeDroppedFlag
  PROVE  ChainInv'
<1>1. /\ Holding /\ Holding' /\ Taken' = Taken
      /\ ~need_full_damage' => ~need_full_damage
      /\ UNCHANGED <<screen, changed, capturePc, captureFrame, ring, discarded,
                     frame, previous_frame, is_first>>
  BY DEF TakeDroppedFlag, Holding, Taken
<1>2. QED
  BY <1>1 DEF ChainInv, RingChain, HeadChain, CaptureChain, LastChain,
              TailChain, TakenKnown, Follows

\* After a send the base is the picture taken; after a drop nothing is known
\* of it, and full damage is asked for.
LEMMA SendChain ==
  ASSUME TypeOK, ChainInv, SendAnchor \/ SendUpdate \/ DropUpdate
  PROVE  ChainInv'
<1>1. /\ Holding /\ ~Holding'
      /\ need_full_damage' \/ previous_frame' = frame.data
      /\ UNCHANGED <<screen, changed, capturePc, captureFrame, ring, discarded>>
  BY DEF SendAnchor, SendUpdate, DropUpdate, AdvanceBase, FinishPass, Holding,
         captureVars
<1>2. TakenKnown /\ (TakenKnown' => Taken' = Taken)
  BY <1>1 DEF TakenKnown, Taken
<1>3. QED
  BY <1>1, <1>2 DEF ChainInv, RingChain, HeadChain, CaptureChain, LastChain,
                    TailChain, Follows

-----------------------------------------------------------------------------
(* Full damage and divergence *)

\* With wlr-screencopy no frame ever loses its full damage.
LEMMA FullyDamagedStep ==
  ASSUME TypeOK, FullyDamaged, [Next]_vars
  PROVE  FullyDamaged'
<1> SUFFICES ASSUME FullDamage PROVE FullyDamaged'
    BY DEF FullyDamaged
<1> USE DEF FullyDamaged
<1>1. ring \in Seq(CapturedFrame)
  BY DEF TypeOK, CaptureTypeOK
<1>2. CASE UNCHANGED otherVars /\ CaptureStep
  <2> USE DEF otherVars, compressVars, Holding
  <2>1. CASE NextFrame
    BY <1>2, <2>1 DEF NextFrame, FrameDamage
  <2>2. CASE Push
    <3>1. \A i \in 1 .. Len(ring') : ring'[i] = captureFrame \/
            (i \in 1 .. Len(ring) /\ ring'[i] = ring[i])
      BY <1>1, <2>2 DEF Push
    <3>2. QED
      BY <1>2, <2>2, <3>1 DEF Push
  <2>3. CASE CheckStop \/ NextFrameFails \/ RateLimit \/ PushFull \/ SetDropped \/ Exit
    BY <1>2, <2>3
    DEF CheckStop, NextFrameFails, RateLimit, PushFull, SetDropped, Exit
  <2>4. QED
    BY <1>2, <2>1, <2>2, <2>3 DEF CaptureStep
<1>3. CASE TryRecv \/ DrainRing
  <2>1. /\ ring # <<>> /\ frame' = Head(ring) /\ ring' = Tail(ring)
        /\ UNCHANGED <<capturePc, captureFrame>>
    BY <1>3 DEF TryRecv, DrainRing
  <2>2. /\ 1 \in 1 .. Len(ring) /\ frame' = ring[1]
        /\ \A i \in 1 .. Len(ring') :
             i + 1 \in 1 .. Len(ring) /\ ring'[i] = ring[i + 1]
    BY <1>1, <2>1
  <2>3. QED
    BY <2>1, <2>2
<1>4. CASE CompressStep /\ ~(TryRecv \/ DrainRing)
  <2>1. /\ UNCHANGED <<capturePc, captureFrame, ring>>
        /\ Holding' => Holding /\ UNCHANGED frame
    BY <1>4
    DEF CompressStep, TryRecvNone, PollFinished, DrainEmpty, TakeDroppedFlag,
        SendAnchor, SendUpdate, DropUpdate, FinishPass, LeaveLoop, JoinCapture,
        captureVars, Holding
  <2>2. QED
    BY <2>1
<1>5. CASE \/ WriteAnchor \/ WriteFrame \/ ClientDecode \/ Shutdown
           \/ UNCHANGED vars \/ Terminated
           \/ UNCHANGED otherVars /\ \E cells \in SUBSET Cells : Paint(cells)
  BY <1>5 DEF WriteAnchor, WriteFrame, ClientDecode, Shutdown, Terminated,
              vars, otherVars, captureVars, compressVars, Holding, Paint
<1>6. QED
  BY <1>2, <1>3, <1>4, <1>5 DEF Next

\* Each step moves the bases apart at most where capture_loop let damage go,
\* and not at all when every region is the whole picture.
LEMMA DivergenceStep ==
  ASSUME SyncInv, [Next]_vars
  PROVE  DivergenceCovered' /\ InSync'
<1> USE DEF SyncInv
<1>1. discarded \subseteq discarded'
  BY DEF Next, CaptureStep, Paint, CheckStop, NextFrame, NextFrameFails,
         RateLimit, Push, PushFull, SetDropped, Exit, CompressStep, TryRecv,
         TryRecvNone, PollFinished, DrainRing, DrainEmpty, TakeDroppedFlag,
         SendAnchor, SendUpdate, DropUpdate, FinishPass, LeaveLoop, JoinCapture,
         WriteAnchor, WriteFrame, ClientDecode, Shutdown, Terminated, vars,
         captureVars
<1>2. CASE SendAnchor \/ SendUpdate
  <2>1. /\ Divergence' = XOR(XOR(frame.data, clientBase),
               XOR(owed, delta_encode(frame.data, previous_frame, Regions)))
        /\ UNCHANGED discarded
    BY <1>2 DEF SendAnchor, SendUpdate, AdvanceBase, FinishPass, Divergence,
                Encoded, captureVars
  <2>2. /\ frame.data \in SUBSET Cells /\ frame.damage \in SUBSET Cells
        /\ previous_frame \in SUBSET Cells
    BY DEF TypeOK, CapturedFrame, Picture
  <2>3. XOR(frame.data, previous_frame) \subseteq Regions \cup discarded
    <3>1. CASE Regions = Cells
      BY <2>2, <3>1, XORType
    <3>2. CASE Regions # Cells
      <4>1. Holding /\ ~need_full_damage /\ ~is_first /\ Regions = frame.damage
        BY <1>2, <3>2 DEF Regions, force_anchor, Holding, SendAnchor, SendUpdate
      <4>2. QED
        BY <4>1 DEF ChainInv, HeadChain, Follows, DifferIn
    <3>3. QED
      BY <3>1, <3>2
  <2>4. DivergenceCovered'
    BY <2>1, <2>3, SendDivergence DEF DivergenceCovered, Divergence
  <2>5. InSync'
    <3> SUFFICES ASSUME FullDamage \/ DoDownscale PROVE Divergence' = {}
        BY DEF InSync
    <3>1. Regions = Cells
      BY <1>2 DEF Regions, FullyDamaged, Holding, SendAnchor, SendUpdate
    <3>2. XOR(frame.data, previous_frame) \subseteq Regions \cup {}
      BY <2>2, <3>1, XORType
    <3>3. XOR(XOR(previous_frame, clientBase), owed) \subseteq {}
      BY DEF InSync, Divergence
    <3>4. Divergence' \subseteq {}
      BY <2>1, <3>2, <3>3, SendDivergence
    <3>5. QED
      BY <3>4
  <2>6. QED
    BY <2>4, <2>5
<1>3. CASE ClientDecode
  <2>1. Divergence' = Divergence
    BY <1>3, DecodeDivergence DEF ClientDecode, Divergence, compressVars
  <2>2. QED
    BY <1>1, <2>1 DEF DivergenceCovered, InSync
<1>4. CASE UNCHANGED <<previous_frame, clientBase, owed>>
  <2>1. Divergence' = Divergence
    BY <1>4 DEF Divergence
  <2>2. QED
    BY <1>1, <2>1 DEF DivergenceCovered, InSync
<1>5. SendAnchor \/ SendUpdate \/ ClientDecode
        \/ UNCHANGED <<previous_frame, clientBase, owed>>
  BY DEF Next, CompressStep, TryRecv, TryRecvNone, PollFinished, DrainRing,
         DrainEmpty, TakeDroppedFlag, DropUpdate, FinishPass, LeaveLoop,
         JoinCapture, WriteAnchor, WriteFrame, Shutdown, Terminated, vars,
         compressVars, otherVars
<1>6. QED
  BY <1>2, <1>3, <1>4, <1>5

\* Every step keeps the chain of pictures.
LEMMA ChainStep ==
  ASSUME TypeOK, ChainInv, [Next]_vars
  PROVE  ChainInv'
<1>1. ASSUME NEW cells \in SUBSET Cells, Paint(cells), UNCHANGED otherVars
      PROVE  ChainInv'
  BY <1>1, PaintChain
<1>2. CASE CaptureStep /\ UNCHANGED otherVars
  <2>1. CASE CheckStop \/ NextFrameFails \/ SetDropped \/ Exit
    BY <1>2, <2>1, ChainStutter
    DEF CheckStop, NextFrameFails, SetDropped, Exit, otherVars, compressVars,
        Holding
  <2>2. QED
    BY <1>2, <2>1, NextFrameChain, DiscardChain, PushChain DEF CaptureStep
<1>3. CASE CompressStep
  <2>1. CASE \/ TryRecvNone \/ PollFinished \/ DrainEmpty \/ LeaveLoop
             \/ JoinCapture
    BY <2>1, ChainStutter
    DEF TryRecvNone, PollFinished, DrainEmpty, LeaveLoop, JoinCapture,
        captureVars, Holding
  <2>2. QED
    BY <1>3, <2>1, PopChain, FlagChain, SendChain DEF CompressStep
<1>4. CASE \/ WriteAnchor \/ WriteFrame \/ ClientDecode \/ Shutdown
           \/ Terminated \/ UNCHANGED vars
  BY <1>4, ChainStutter
  DEF WriteAnchor, WriteFrame, ClientDecode, Shutdown, Terminated, vars,
      captureVars, compressVars, Holding
<1>5. QED
  BY <1>1, <1>2, <1>3, <1>4 DEF Next

-----------------------------------------------------------------------------
(* The theorems *)

\* The chain of pictures, full damage under wlr-screencopy and the bounds on
\* the divergence hold in every reachable state.
THEOREM SyncInvariant == Spec => []SyncInv
<1>1. ASSUME Init PROVE SyncInv
  <2>1. TypeOK
    BY <1>1, InitType
  <2>2. ChainInv
    <3>1. /\ Len(ring) = 0 /\ ring = <<>>
          /\ capturePc # "pace" /\ ~Holding /\ ~TakenKnown
      BY <1>1 DEF Init, CaptureInit, Holding, TakenKnown
    <3>2. QED
      BY <3>1 DEF ChainInv, RingChain, HeadChain, CaptureChain, LastChain
  <2>3. FullyDamaged
    BY <1>1 DEF Init, CaptureInit, FullyDamaged, Holding
  <2>4. Divergence = {}
    BY <1>1, XORElement DEF Init, Divergence, Zeroes
  <2>5. QED
    BY <2>1, <2>2, <2>3, <2>4 DEF SyncInv, DivergenceCovered, InSync
<1>2. SyncInv /\ [Next]_vars => SyncInv'
  <2> SUFFICES ASSUME SyncInv, [Next]_vars PROVE SyncInv'
      OBVIOUS
  <2>1. TypeOK'
    BY StepType DEF SyncInv
  <2>2. ChainInv' /\ FullyDamaged'
    BY ChainStep, FullyDamagedStep DEF SyncInv
  <2>3. QED
    BY <2>1, <2>2, DivergenceStep DEF SyncInv
<1>3. QED
  BY <1>1, <1>2, PTL DEF Spec

\* Whatever the ring drain, the rate limiter, the ring and the frame queue
\* drop, the client's base differs from compress_send_loop's previous_frame
\* only in cells that were damaged in a frame capture_loop let go.
THEOREM DivergenceIsCovered == Spec => []DivergenceCovered
<1>1. SyncInv => DivergenceCovered
  BY DEF SyncInv
<1>2. QED
  BY <1>1, SyncInvariant, PTL

\* With wlr-screencopy, or with a downscaled stream, the delta base of the
\* server is what the client holds once the deltas under way are applied.
THEOREM StaysInSync == Spec => []InSync
<1>1. SyncInv => InSync
  BY DEF SyncInv
<1>2. QED
  BY <1>1, SyncInvariant, PTL
=============================================================================
