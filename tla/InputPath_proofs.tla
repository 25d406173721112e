-------------------------- MODULE InputPath_proofs --------------------------
(***************************************************************************)
(* Proofs about InputPath, for any set of keys, any queue depths and any   *)
(* number of events: no event overtakes another on its way through the     *)
(* threads and queues, and none is lost unless the inject ring is full or  *)
(* the connection or the capture thread ends.                              *)
(***************************************************************************)
EXTENDS InputPath, SequenceTheorems, TLAPS

\* Every event there is, the farthest first.
All == injected \o UnderWay

Sorted(s) == \A i, j \in 1 .. Len(s) : i < j => s[i].nr < s[j].nr

\* The buffer of poll_events has been sent when the thread polls again.
CaptureInv ==
  /\ capturePc = "poll" => sentUpTo = Len(pending_events)
  /\ capturePc = "send" => sentUpTo < Len(pending_events)

\* Events carry the numbers of events typed.
Bounded == Numbers(All) \subseteq 1 .. typed

Complete == connected => Numbers(All) \cup dropped \cup gone = 1 .. typed

\* The inductive invariant.
OrderInv == TypeOK /\ CaptureInv /\ Sorted(All) /\ Bounded /\ Complete

-----------------------------------------------------------------------------
(* Sequences of events *)

LEMMA ConcatType == \A s, t \in Seq(Event) : s \o t \in Seq(Event)
  BY ConcatProperties

LEMMA Assoc ==
  \A s, t, u \in Seq(Event) : (s \o t) \o u = s \o (t \o u)
  BY ConcatAssociative

\* The head of a queue becomes the last event of the queue before it.
LEMMA MoveHead ==
  ASSUME NEW s \in Seq(Event), NEW t \in Seq(Event), t # <<>>
  PROVE  /\ Append(s, Head(t)) \in Seq(Event)
         /\ Tail(t) \in Seq(Event)
         /\ Append(s, Head(t)) \o Tail(t) = s \o t
<1> DEFINE l == Append(s, Head(t)) \o Tail(t)
           r == s \o t
<1>1. /\ Head(t) \in Event /\ Tail(t) \in Seq(Event) /\ Head(t) = t[1]
      /\ Len(t) \in Nat \ {0} /\ Len(Tail(t)) = Len(t) - 1
      /\ \A i \in 1 .. Len(Tail(t)) : Tail(t)[i] = t[i + 1]
  BY HeadTailProperties, EmptySeq
<1>2. /\ Append(s, Head(t)) \in Seq(Event)
      /\ Len(Append(s, Head(t))) = Len(s) + 1
      /\ \A i \in 1 .. Len(s) : Append(s, Head(t))[i] = s[i]
      /\ Append(s, Head(t))[Len(s) + 1] = Head(t)
  BY <1>1, AppendProperties
<1>3. /\ l \in Seq(Event) /\ r \in Seq(Event)
      /\ Len(l) = Len(s) + 1 + Len(Tail(t)) /\ Len(r) = Len(s) + Len(t)
  BY <1>1, <1>2, ConcatProperties
<1>4. Len(l) = Len(r)
  BY <1>1, <1>3
<1>5. ASSUME NEW i \in 1 .. Len(l)
      PROVE  l[i] = r[i]
  <2>1. l[i] = IF i <= Len(s) + 1 THEN Append(s, Head(t))[i]
               ELSE Tail(t)[i - (Len(s) + 1)]
    BY <1>1, <1>2, <1>3, ConcatProperties
  <2>2. r[i] = IF i <= Len(s) THEN s[i] ELSE t[i - Len(s)]
    BY <1>3, <1>4, ConcatProperties
  <2>3. Len(s) \in Nat
    BY LenProperties
  <2> HIDE DEF l, r
  <2>4. CASE i <= Len(s)
    BY <1>2, <2>1, <2>2, <2>3, <2>4
  <2>5. CASE i = Len(s) + 1
    BY <1>1, <1>2, <2>1, <2>2, <2>3, <2>5
  <2>6. CASE i > Len(s) + 1
    <3>1. i - (Len(s) + 1) \in 1 .. Len(Tail(t))
      BY <1>3, <2>3, <2>6, <1>1
    <3> QED BY <1>1, <2>1, <2>2, <2>3, <2>6, <3>1
  <2> QED BY <2>3, <2>4, <2>5, <2>6
<1>6. l = r
  <2> HIDE DEF l, r
  <2> QED BY <1>3, <1>4, <1>5, SeqEqual
<1> QED BY <1>1, <1>2, <1>6

\* The numbers of a concatenation, and when it is sorted.
LEMMA ConcatNumbers ==
  ASSUME NEW s \in Seq(Event), NEW t \in Seq(Event)
  PROVE  Numbers(s \o t) = Numbers(s) \cup Numbers(t)
<1>1. /\ Len(s) \in Nat /\ Len(t) \in Nat /\ Len(s \o t) = Len(s) + Len(t)
      /\ \A i \in 1 .. Len(s) + Len(t) :
           (s \o t)[i] = IF i <= Len(s) THEN s[i] ELSE t[i - Len(s)]
  BY ConcatProperties, LenProperties
<1>2. ASSUME NEW x \in Numbers(s \o t)
      PROVE  x \in Numbers(s) \cup Numbers(t)
  <2>1. PICK i \in 1 .. Len(s) + Len(t) : x = (s \o t)[i].nr
    BY <1>1 DEF Numbers
  <2>2. CASE i <= Len(s)
    BY <1>1, <2>1, <2>2 DEF Numbers
  <2>3. CASE i > Len(s)
    <3>1. i - Len(s) \in 1 .. Len(t) /\ x = t[i - Len(s)].nr
      BY <1>1, <2>1, <2>3
    <3> QED BY <3>1 DEF Numbers
  <2> QED BY <1>1, <2>2, <2>3
<1>3. ASSUME NEW x \in Numbers(s)
      PROVE  x \in Numbers(s \o t)
  <2>1. PICK i \in 1 .. Len(s) : x = s[i].nr
    BY DEF Numbers
  <2>2. i \in 1 .. Len(s \o t) /\ (s \o t)[i] = s[i]
    BY <1>1
  <2> QED BY <2>1, <2>2 DEF Numbers
<1>4. ASSUME NEW x \in Numbers(t)
      PROVE  x \in Numbers(s \o t)
  <2>1. PICK i \in 1 .. Len(t) : x = t[i].nr
    BY DEF Numbers
  <2>2. Len(s) + i \in 1 .. Len(s \o t) /\ (s \o t)[Len(s) + i] = t[i]
    BY <1>1
  <2> QED BY <2>1, <2>2 DEF Numbers
<1> QED BY <1>2, <1>3, <1>4

LEMMA ConcatSorted ==
  ASSUME NEW s \in Seq(Event), NEW t \in Seq(Event)
  PROVE  Sorted(s \o t) <=> /\ Sorted(s) /\ Sorted(t)
                            /\ \A x \in Numbers(s), y \in Numbers(t) : x < y
<1>1. /\ Len(s) \in Nat /\ Len(t) \in Nat /\ Len(s \o t) = Len(s) + Len(t)
      /\ \A i \in 1 .. Len(s) : i \in 1 .. Len(s \o t) /\ (s \o t)[i] = s[i]
      /\ \A i \in 1 .. Len(t) : /\ Len(s) + i \in 1 .. Len(s \o t)
                                /\ (s \o t)[Len(s) + i] = t[i]
  BY ConcatProperties, LenProperties
<1>2. ASSUME Sorted(s \o t)
      PROVE  /\ Sorted(s) /\ Sorted(t)
             /\ \A x \in Numbers(s), y \in Numbers(t) : x < y
  <2>1. Sorted(s)
    BY <1>1, <1>2 DEF Sorted
  <2>2. ASSUME NEW i \in 1 .. Len(t), NEW j \in 1 .. Len(t), i < j
        PROVE  t[i].nr < t[j].nr
    <3>1. Len(s) + i < Len(s) + j
      BY <1>1, <2>2
    <3> QED BY <1>1, <1>2, <2>2, <3>1 DEF Sorted
  <2>3. ASSUME NEW i \in 1 .. Len(s), NEW j \in 1 .. Len(t)
        PROVE  s[i].nr < t[j].nr
    <3>1. i < Len(s) + j
      BY <1>1
    <3> QED BY <1>1, <1>2, <3>1 DEF Sorted
  <2> QED BY <2>1, <2>2, <2>3 DEF Sorted, Numbers
<1>3. ASSUME Sorted(s), Sorted(t), \A x \in Numbers(s), y \in Numbers(t) : x < y,
             NEW i \in 1 .. Len(s \o t), NEW j \in 1 .. Len(s \o t), i < j
      PROVE  (s \o t)[i].nr < (s \o t)[j].nr
  <2>1. CASE j <= Len(s)
    BY <1>1, <1>3, <2>1 DEF Sorted
  <2>2. CASE i <= Len(s) /\ j > Len(s)
    <3>1. j - Len(s) \in 1 .. Len(t) /\ Len(s) + (j - Len(s)) = j
      BY <1>1, <2>2
    <3>2. (s \o t)[j] = t[j - Len(s)] /\ (s \o t)[i] = s[i]
      BY <1>1, <2>2, <3>1
    <3> QED BY <1>1, <1>3, <2>2, <3>1, <3>2 DEF Numbers
  <2>3. CASE i > Len(s)
    <3>1. /\ i - Len(s) \in 1 .. Len(t) /\ Len(s) + (i - Len(s)) = i
          /\ j - Len(s) \in 1 .. Len(t) /\ Len(s) + (j - Len(s)) = j
          /\ i - Len(s) < j - Len(s)
      BY <1>1, <1>3, <2>3
    <3>2. (s \o t)[j] = t[j - Len(s)] /\ (s \o t)[i] = t[i - Len(s)]
      BY <1>1, <3>1
    <3> QED BY <1>3, <3>1, <3>2 DEF Sorted
  <2> QED BY <1>1, <1>3, <2>1, <2>2, <2>3
<1> QED BY <1>2, <1>3 DEF Sorted

\* s is t with some events left out.
Thins(s, t) ==
  /\ s \in Seq(Event) /\ t \in Seq(Event)
  /\ Numbers(s) \subseteq Numbers(t)
  /\ Sorted(t) => Sorted(s)

LEMMA ThinsRight ==
  ASSUME NEW s, NEW t, NEW u \in Seq(Event), Thins(s, t)
  PROVE  Thins(u \o s, u \o t)
  BY ConcatType, ConcatNumbers, ConcatSorted DEF Thins

LEMMA ThinsBoth ==
  ASSUME NEW s, NEW t, NEW u, NEW v, Thins(s, t), Thins(u, v)
  PROVE  Thins(s \o u, t \o v)
  BY ConcatType, ConcatNumbers, ConcatSorted DEF Thins

LEMMA ThinsPrefix ==
  ASSUME NEW s \in Seq(Event), NEW n \in 0 .. Len(s)
  PROVE  Thins(SubSeq(s, 1, n), s)
<1>1. /\ Len(s) \in Nat /\ SubSeq(s, 1, n) \in Seq(Event)
      /\ Len(SubSeq(s, 1, n)) = n
      /\ \A i \in 1 .. n : SubSeq(s, 1, n)[i] = s[i]
  <2>1. \A i \in 1 .. n : s[i] \in Event
    BY ElementOfSeq, LenProperties
  <2> QED BY <2>1, SubSeqProperties, LenProperties
<1> QED BY <1>1 DEF Thins, Numbers, Sorted

LEMMA ThinsTail ==
  ASSUME NEW s \in Seq(Event), s # <<>>
  PROVE  /\ Thins(Tail(s), s)
         /\ Numbers(s) = Numbers(Tail(s)) \cup {Head(s).nr}
<1>1. /\ Tail(s) \in Seq(Event) /\ Head(s) = s[1]
      /\ Len(s) \in Nat \ {0} /\ Len(Tail(s)) = Len(s) - 1
      /\ \A i \in 1 .. Len(Tail(s)) : Tail(s)[i] = s[i + 1]
  BY HeadTailProperties, EmptySeq
<1>2. Numbers(Tail(s)) \subseteq Numbers(s)
  BY <1>1 DEF Numbers
<1>3. Sorted(s) => Sorted(Tail(s))
  BY <1>1 DEF Sorted
<1>4. ASSUME NEW i \in 1 .. Len(s)
      PROVE  s[i].nr \in Numbers(Tail(s)) \cup {Head(s).nr}
  <2>1. CASE i = 1
    BY <1>1, <2>1
  <2>2. CASE i > 1
    <3>1. i - 1 \in 1 .. Len(Tail(s)) /\ Tail(s)[i - 1] = s[i]
      BY <1>1, <2>2
    <3> QED BY <3>1 DEF Numbers
  <2> QED BY <2>1, <2>2
<1>5. Head(s).nr \in Numbers(s)
  BY <1>1 DEF Numbers
<1> QED BY <1>1, <1>2, <1>3, <1>4, <1>5 DEF Thins, Numbers

\* t is s with one more event at its end, the one numbered n.
Grows(s, t, n) ==
  /\ s \in Seq(Event) /\ t \in Seq(Event)
  /\ Numbers(t) = Numbers(s) \cup {n}
  /\ Sorted(s) /\ (\A x \in Numbers(s) : x < n) => Sorted(t)

LEMMA GrowsRight ==
  ASSUME NEW s, NEW t, NEW n, NEW u \in Seq(Event), Grows(s, t, n)
  PROVE  Grows(u \o s, u \o t, n)
  BY ConcatType, ConcatNumbers, ConcatSorted DEF Grows

LEMMA GrowsAppend ==
  ASSUME NEW s \in Seq(Event), NEW e \in Event
  PROVE  Grows(s, Append(s, e), e.nr)
<1>1. /\ Append(s, e) \in Seq(Event) /\ Len(s) \in Nat
      /\ Len(Append(s, e)) = Len(s) + 1
      /\ \A i \in 1 .. Len(s) : Append(s, e)[i] = s[i]
      /\ Append(s, e)[Len(s) + 1] = e
  BY AppendProperties, LenProperties
<1>2. Numbers(Append(s, e)) = Numbers(s) \cup {e.nr}
  BY <1>1 DEF Numbers
<1>3. Sorted(s) /\ (\A x \in Numbers(s) : x < e.nr) => Sorted(Append(s, e))
  BY <1>1 DEF Numbers, Sorted
<1> QED BY <1>1, <1>2, <1>3 DEF Grows

-----------------------------------------------------------------------------
(* The steps *)

LEMMA InitType == Init => TypeOK
<1>1. <<>> \in Seq(Event) /\ Len(<<>>) = 0
  BY EmptySeq
<1>2. Init => {socket, pending_events, input_tx, wire, incoming, ring, injected}
                \subseteq Seq(Event)
  BY <1>1 DEF Init
<1>3. Init => {captureStop, connected, shutdown, injectStop} \subseteq BOOLEAN
  BY Zenon DEF Init
<1>4. Init => sentUpTo \in 0 .. Len(pending_events)
  BY <1>1 DEF Init
<1>5. Init => Len(incoming) <= IncomingQueueDepth /\ Len(ring) <= InjectRing
  BY <1>1, InputAssumption DEF Init
<1> QED BY <1>2, <1>3, <1>4, <1>5, InputAssumption DEF Init, TypeOK

\* What is left of a round is a sequence of events.
LEMMA RestType ==
  ASSUME NEW s \in Seq(Event), NEW k \in 0 .. Len(s)
  PROVE  SubSeq(s, k + 1, Len(s)) \in Seq(Event)
<1>1. Len(s) \in Nat /\ \A i \in 1 .. Len(s) : s[i] \in Event
  BY LenProperties, ElementOfSeq
<1> QED BY <1>1, SubSeqProperties

LEMMA NumbersType ==
  ASSUME NEW s \in Seq(Event)
  PROVE  Numbers(s) \subseteq 1 .. MaxEvents
<1>1. \A i \in 1 .. Len(s) : s[i] \in Event
  BY ElementOfSeq
<1> QED BY <1>1 DEF Numbers, Event

\* Every thread and queue keeps its type.
LEMMA NextType == TypeOK /\ CaptureInv /\ [Next]_vars => TypeOK' /\ CaptureInv'
<1> SUFFICES ASSUME TypeOK, CaptureInv, [Next]_vars
             PROVE  TypeOK' /\ CaptureInv'
  OBVIOUS
<1> USE InputAssumption
<1>1. ASSUME NEW k \in Keys, Type(k)
      PROVE  TypeOK' /\ CaptureInv'
  <2>1. [nr |-> typed', key |-> k, down |-> k \notin keyboard] \in Event
    BY <1>1 DEF Type, TypeOK, Event
  <2>2. socket' \in Seq(Event)
    BY <1>1, <2>1, AppendProperties DEF Type, TypeOK
  <2>3. keyboard' \in SUBSET Keys /\ missed' \in SUBSET Keys
    BY <1>1 DEF Type, Toggle, TypeOK
  <2> QED BY <1>1, <2>2, <2>3
        DEF Type, TypeOK, CaptureInv, transportVars, serverVars
<1>12. ASSUME NEW k \in Keys, TypeElsewhere(k)
       PROVE  TypeOK' /\ CaptureInv'
  <2>1. keyboard' \in SUBSET Keys /\ missed' \in SUBSET Keys
    BY <1>12 DEF TypeElsewhere, Toggle, TypeOK
  <2> QED BY <1>12, <2>1
        DEF TypeElsewhere, TypeOK, CaptureInv, transportVars, serverVars
<1>2. CASE PollEvents
  <2>1. Len(socket) \in Nat /\ (socket # <<>> => Len(socket) > 0)
    BY EmptySeq, LenProperties DEF TypeOK
  <2> QED BY <1>2, <2>1, EmptySeq
        DEF PollEvents, TypeOK, CaptureInv, userVars, transportVars, serverVars
<1>3. CASE SendInput
  <2>1. /\ sentUpTo' = sentUpTo + 1 /\ Len(pending_events) \in Nat
        /\ sentUpTo' \in 1 .. Len(pending_events)
    BY <1>3, LenProperties DEF SendInput, TypeOK, CaptureInv
  <2>2. pending_events[sentUpTo'] \in Event
    BY <2>1, ElementOfSeq DEF TypeOK
  <2>3. input_tx' = Append(input_tx, pending_events[sentUpTo'])
    BY <1>3 DEF SendInput
  <2>4. input_tx \in Seq(Event)
    BY DEF TypeOK
  <2>5. input_tx' \in Seq(Event)
    BY <2>2, <2>3, <2>4, AppendProperties
  <2> QED BY <1>3, <2>1, <2>5
        DEF SendInput, TypeOK, CaptureInv, userVars, serverVars
<1>4. CASE SendFails \/ CaptureStops \/ PollFails
  <2>1. CaptureEnds /\ UNCHANGED <<transportVars, serverVars>>
    BY <1>4 DEF SendFails, CaptureStops, PollFails
  <2>2. Rest \o socket \in Seq(Event)
    BY RestType, ConcatType DEF TypeOK, Rest
  <2>3. Numbers(Rest \o socket) \subseteq 1 .. MaxEvents
    BY <2>2, NumbersType
  <2>4. gone' \in SUBSET (1 .. MaxEvents)
    BY <2>1, <2>3 DEF CaptureEnds, TypeOK
  <2>5. <<>> \in Seq(Event) /\ Len(<<>>) = 0
    BY EmptySeq
  <2> QED BY <2>1, <2>4, <2>5
        DEF CaptureEnds, TypeOK, CaptureInv, transportVars, serverVars
<1>13. CASE DropCapture
  BY <1>13 DEF DropCapture, TypeOK, CaptureInv, userVars, transportVars, serverVars
<1>5. CASE WriteInput
  <2>1. wire' \in Seq(Event) /\ input_tx' \in Seq(Event)
    BY <1>5, MoveHead DEF WriteInput, TypeOK
  <2> QED BY <1>5, <2>1 DEF WriteInput, TypeOK, CaptureInv, clientVars, userVars, serverVars
<1>6. CASE ReadInput
  <2>1. incoming' \in Seq(Event) /\ wire' \in Seq(Event)
    BY <1>6, MoveHead DEF ReadInput, TypeOK
  <2>2. Len(incoming') = Len(incoming) + 1 /\ Len(incoming) \in Nat
    BY <1>6, HeadTailProperties, AppendProperties, LenProperties
       DEF ReadInput, TypeOK
  <2> QED BY <1>6, <2>1, <2>2
        DEF ReadInput, TypeOK, CaptureInv, clientVars, userVars, serverVars
<1>7. CASE Disconnect
  <2>1. wire' \in Seq(Event)
    BY <1>7, ThinsPrefix DEF Disconnect, TypeOK, Thins
  <2> QED BY <1>7, <2>1, EmptySeq
        DEF Disconnect, TypeOK, CaptureInv, clientVars, userVars, serverVars
<1>8. CASE CheckShutdown \/ RecvNone \/ StopInject \/ JoinInject \/ Shutdown
             \/ CheckStop \/ InjectReady \/ InjectFails
  BY <1>8 DEF CheckShutdown, RecvNone, StopInject, JoinInject, Shutdown,
              CheckStop, InjectReady, InjectFails, TypeOK, CaptureInv,
              clientVars, userVars, transportVars
<1>9. CASE Dispatch
  <2>1. /\ Tail(incoming) \in Seq(Event) /\ Len(Tail(incoming)) = Len(incoming) - 1
        /\ Head(incoming) \in Event /\ Len(incoming) \in Nat /\ Len(ring) \in Nat
    BY <1>9, HeadTailProperties, LenProperties DEF Dispatch, TypeOK
  <2>2. Append(ring, Head(incoming)) \in Seq(Event)
        /\ Len(Append(ring, Head(incoming))) = Len(ring) + 1
    BY <2>1, AppendProperties DEF TypeOK
  <2>3. Head(incoming).nr \in 1 .. MaxEvents
    BY <2>1 DEF Event
  <2>4. /\ ring' \in Seq(Event) /\ Len(ring') <= InjectRing
        /\ dropped' \in SUBSET (1 .. MaxEvents)
    <3>1. CASE Len(ring) < InjectRing
      <4>1. ring' = Append(ring, Head(incoming)) /\ dropped' = dropped
        BY <1>9, <3>1 DEF Dispatch
      <4> QED BY <2>1, <2>2, <3>1, <4>1 DEF TypeOK
    <3>2. CASE ~(Len(ring) < InjectRing)
      <4>1. ring' = ring /\ dropped' = dropped \cup {Head(incoming).nr}
        BY <1>9, <3>2 DEF Dispatch
      <4> QED BY <2>3, <4>1 DEF TypeOK
    <3> QED BY <3>1, <3>2
  <2>5. incoming' \in Seq(Event) /\ Len(incoming') <= IncomingQueueDepth
    BY <1>9, <2>1 DEF Dispatch, TypeOK
  <2> QED BY <1>9, <2>4, <2>5 DEF Dispatch, TypeOK, CaptureInv, clientVars, userVars
<1>10. CASE Inject
  <2>1. CASE ring = <<>>
    BY <1>10, <2>1 DEF Inject, TypeOK, CaptureInv, clientVars, userVars, transportVars
  <2>2. CASE ring # <<>>
    <3>1. /\ Tail(ring) \in Seq(Event) /\ Len(Tail(ring)) = Len(ring) - 1
          /\ Head(ring) \in Event /\ Len(ring) \in Nat
      BY <2>2, HeadTailProperties, LenProperties DEF TypeOK
    <3>2. Append(injected, Head(ring)) \in Seq(Event)
      BY <3>1, AppendProperties DEF TypeOK
    <3>3. remote' \in SUBSET Keys
      BY <1>10, <2>2, <3>1 DEF Inject, KeysAfter, TypeOK, Event
    <3>4. /\ ring' \in Seq(Event) /\ Len(ring') <= InjectRing
          /\ injected' \in Seq(Event)
      <4>1. ring' = Tail(ring) /\ injected' = Append(injected, Head(ring))
        BY <1>10, <2>2 DEF Inject
      <4>2. Len(ring) <= InjectRing
        BY DEF TypeOK
      <4> QED BY <3>1, <3>2, <4>1, <4>2
    <3> QED BY <1>10, <3>3, <3>4
          DEF Inject, TypeOK, CaptureInv, clientVars, userVars, transportVars
  <2> QED BY <2>1, <2>2
<1>11. CASE UNCHANGED vars
  BY <1>11 DEF vars, clientVars, userVars, transportVars, serverVars, TypeOK, CaptureInv
<1> QED BY <1>1, <1>2, <1>3, <1>4, <1>5, <1>6, <1>7, <1>8, <1>9, <1>10, <1>11,
           <1>12, <1>13
     DEF Next, CaptureStep, RecvStep, InjectStep

\* The queues, and what is left of a round, are sequences of events.
LEMMA QueueTypes ==
  TypeOK => /\ injected \in Seq(Event) /\ ring \in Seq(Event)
            /\ incoming \in Seq(Event) /\ wire \in Seq(Event)
            /\ input_tx \in Seq(Event) /\ socket \in Seq(Event)
            /\ pending_events \in Seq(Event) /\ Rest \in Seq(Event)
  BY RestType DEF TypeOK, Rest

\* A thread that takes an event from one queue puts it into the next one: the
\* row of events stays as it is.
LEMMA MovesKeepOrder ==
  ASSUME TypeOK, CaptureInv,
         \/ WriteInput \/ ReadInput \/ PollEvents \/ SendInput
         \/ (Dispatch /\ Len(ring) < InjectRing) \/ Inject
  PROVE  All' = All
<1> DEFINE r1 == Rest \o socket
           r2 == input_tx \o r1
           r3 == wire \o r2
<1>1. r1 \in Seq(Event)
  BY QueueTypes, ConcatType
<1>10. r2 \in Seq(Event)
  BY <1>1, QueueTypes, ConcatType
<1>11. r3 \in Seq(Event)
  BY <1>10, QueueTypes, ConcatType
<1>2. CASE WriteInput
  <2>1. wire' \o input_tx' = wire \o input_tx
        /\ wire' \in Seq(Event) /\ input_tx' \in Seq(Event)
    BY <1>2, QueueTypes, MoveHead DEF WriteInput
  <2>3. wire \in Seq(Event) /\ input_tx \in Seq(Event)
    BY QueueTypes
  <2>2. wire' \o (input_tx' \o r1) = wire \o (input_tx \o r1)
    <3> HIDE DEF r1
    <3>1. wire' \o (input_tx' \o r1) = (wire' \o input_tx') \o r1
      BY <1>1, <2>1, Assoc
    <3>2. wire \o (input_tx \o r1) = (wire \o input_tx) \o r1
      BY <1>1, <2>3, Assoc
    <3> QED BY <2>1, <3>1, <3>2
  <2> QED BY <1>2, <2>2 DEF WriteInput, clientVars, userVars, serverVars, All, UnderWay, Rest
<1>3. CASE ReadInput
  <2>1. incoming' \o wire' = incoming \o wire
        /\ incoming' \in Seq(Event) /\ wire' \in Seq(Event)
    BY <1>3, QueueTypes, MoveHead DEF ReadInput
  <2>3. incoming \in Seq(Event) /\ wire \in Seq(Event)
    BY QueueTypes
  <2>2. incoming' \o (wire' \o r2) = incoming \o (wire \o r2)
    <3> HIDE DEF r2
    <3>1. incoming' \o (wire' \o r2) = (incoming' \o wire') \o r2
      BY <1>10, <2>1, Assoc
    <3>2. incoming \o (wire \o r2) = (incoming \o wire) \o r2
      BY <1>10, <2>3, Assoc
    <3> QED BY <2>1, <3>1, <3>2
  <2> QED BY <1>3, <2>2 DEF ReadInput, clientVars, userVars, serverVars, All, UnderWay, Rest
<1>4. CASE PollEvents
  <2>1. Rest = <<>>
    <3>1. Len(pending_events) \in Nat /\ sentUpTo = Len(pending_events)
      BY <1>4, QueueTypes, LenProperties DEF PollEvents, CaptureInv
    <3>2. SubSeq(pending_events, sentUpTo + 1, Len(pending_events)) = <<>>
      BY <3>1, SubSeqEmpty
    <3> QED BY <3>2 DEF Rest
  <2>2. Rest' = socket
    <3>1. Rest' = SubSeq(socket, 1, Len(socket))
      BY <1>4 DEF PollEvents, Rest
    <3> QED BY <3>1, QueueTypes, SubSeqFull
  <2>3. Rest' \o socket' = Rest \o socket
    <3>1. socket \in Seq(Event) /\ socket' = <<>>
      BY <1>4, QueueTypes DEF PollEvents
    <3>2. socket \o <<>> = socket /\ <<>> \o socket = socket
      BY <3>1, ConcatEmptySeq
    <3> QED BY <2>1, <2>2, <3>1, <3>2
  <2> QED BY <1>4, <2>3
        DEF PollEvents, transportVars, serverVars, All, UnderWay, Rest
<1>5. CASE SendInput
  <2> DEFINE e == pending_events[sentUpTo + 1]
  <2>1. /\ sentUpTo' = sentUpTo + 1 /\ pending_events' = pending_events
        /\ input_tx' = Append(input_tx, e)
    BY <1>5 DEF SendInput
  <2>2. /\ Len(pending_events) \in Nat
        /\ sentUpTo + 1 \in 1 .. Len(pending_events)
    BY <1>5, QueueTypes, LenProperties DEF SendInput, TypeOK, CaptureInv
  <2>3. e \in Event
    BY <2>2, QueueTypes, ElementOfSeq
  <2>4. Rest' \in Seq(Event)
    <3>1. Rest' = SubSeq(pending_events, (sentUpTo + 1) + 1, Len(pending_events))
      BY <2>1 DEF Rest
    <3> QED BY <2>2, <3>1, QueueTypes, RestType
  <2>5. Rest = <<e>> \o Rest'
    <3>1. /\ pending_events \in Seq(Event)
          /\ Len(pending_events) \in (sentUpTo + 1) .. Len(pending_events)
      BY <2>2, QueueTypes
    <3>2. SubSeq(pending_events, sentUpTo + 1, Len(pending_events))
            = <<e>> \o SubSeq(pending_events, (sentUpTo + 1) + 1, Len(pending_events))
      BY <2>2, <3>1, SubSeqRecursiveFirst
    <3> QED BY <2>1, <3>2 DEF Rest
  <2>6. input_tx' = input_tx \o <<e>> /\ <<e>> \in Seq(Event)
    BY <2>1, <2>3, QueueTypes, AppendIsConcat
  <2>7. input_tx' \o Rest' = input_tx \o Rest
    <3> HIDE DEF e
    <3>1. (input_tx \o <<e>>) \o Rest' = input_tx \o (<<e>> \o Rest')
      <4>1. input_tx \in Seq(Event)
        BY QueueTypes
      <4> QED BY <2>4, <2>6, <4>1, Assoc
    <3> QED BY <2>5, <2>6, <3>1
  <2>8. input_tx' \in Seq(Event)
    BY <2>6, QueueTypes, ConcatType
  <2>9. input_tx' \o (Rest' \o socket) = input_tx \o (Rest \o socket)
    <3> HIDE DEF e
    <3>1. input_tx \in Seq(Event) /\ Rest \in Seq(Event) /\ socket \in Seq(Event)
      BY QueueTypes
    <3>2. input_tx' \o (Rest' \o socket) = (input_tx' \o Rest') \o socket
      BY <2>4, <2>8, <3>1, Assoc
    <3>3. input_tx \o (Rest \o socket) = (input_tx \o Rest) \o socket
      BY <3>1, Assoc
    <3> QED BY <2>7, <3>2, <3>3
  <2> QED BY <1>5, <2>9 DEF SendInput, serverVars, All, UnderWay, Rest
<1>7. CASE Dispatch /\ Len(ring) < InjectRing
  <2>1. ring' \o incoming' = ring \o incoming
        /\ ring' \in Seq(Event) /\ incoming' \in Seq(Event)
    BY <1>7, QueueTypes, MoveHead DEF Dispatch
  <2>3. ring \in Seq(Event) /\ incoming \in Seq(Event)
    BY QueueTypes
  <2>2. ring' \o (incoming' \o r3) = ring \o (incoming \o r3)
    <3> HIDE DEF r3
    <3>1. ring' \o (incoming' \o r3) = (ring' \o incoming') \o r3
      BY <1>11, <2>1, Assoc
    <3>2. ring \o (incoming \o r3) = (ring \o incoming) \o r3
      BY <1>11, <2>3, Assoc
    <3> QED BY <2>1, <3>1, <3>2
  <2> QED BY <1>7, <2>2 DEF Dispatch, clientVars, userVars, All, UnderWay, Rest
<1>8. CASE Inject /\ ring = <<>>
  BY <1>8 DEF Inject, Rest, clientVars, userVars, transportVars, All, UnderWay
<1>9. CASE Inject /\ ring # <<>>
  <2> DEFINE r4 == incoming \o r3
  <2>1. injected' \o ring' = injected \o ring
        /\ injected' \in Seq(Event) /\ ring' \in Seq(Event)
    BY <1>9, QueueTypes, MoveHead DEF Inject
  <2>4. injected \in Seq(Event) /\ ring \in Seq(Event)
    BY QueueTypes
  <2>2. r4 \in Seq(Event)
    BY <1>11, QueueTypes, ConcatType
  <2>3. injected' \o (ring' \o r4) = injected \o (ring \o r4)
    <3> HIDE DEF r4
    <3>1. injected' \o (ring' \o r4) = (injected' \o ring') \o r4
      BY <2>1, <2>2, Assoc
    <3>2. injected \o (ring \o r4) = (injected \o ring) \o r4
      BY <2>2, <2>4, Assoc
    <3> QED BY <2>1, <3>1, <3>2
  <2> QED BY <1>9, <2>3
        DEF Inject, clientVars, userVars, transportVars, All, UnderWay, Rest
<1> QED BY <1>2, <1>3, <1>4, <1>5, <1>7, <1>8, <1>9

\* An event that is typed comes last.
LEMMA TypeOrder ==
  ASSUME OrderInv, NEW k \in Keys, Type(k), TypeOK'
  PROVE  Sorted(All)' /\ Bounded' /\ Complete'
<1> DEFINE e == [nr |-> typed', key |-> k, down |-> k \notin keyboard]
<1>1. /\ TypeOK /\ e \in Event /\ e.nr = typed + 1 /\ typed' = typed + 1
      /\ typed \in Nat
  <2>1. typed' = typed + 1 /\ typed < MaxEvents
    BY DEF Type
  <2>2. TypeOK /\ typed \in 0 .. MaxEvents
    BY DEF OrderInv, TypeOK
  <2> QED BY <2>1, <2>2, InputAssumption DEF Event
<1>2. Grows(socket, Append(socket, e), e.nr)
  BY <1>1, QueueTypes, GrowsAppend
<1>3. socket' = Append(socket, e)
  BY DEF Type
<1> HIDE DEF e
<1>4. Grows(Rest \o socket, Rest \o socket', e.nr)
  BY <1>1, <1>2, <1>3, QueueTypes, GrowsRight
<1>5. Grows(input_tx \o (Rest \o socket), input_tx \o (Rest \o socket'), e.nr)
  BY <1>1, <1>4, QueueTypes, GrowsRight
<1>6. Grows(wire \o (input_tx \o (Rest \o socket)),
            wire \o (input_tx \o (Rest \o socket')), e.nr)
  BY <1>1, <1>5, QueueTypes, GrowsRight
<1>7. Grows(incoming \o (wire \o (input_tx \o (Rest \o socket))),
            incoming \o (wire \o (input_tx \o (Rest \o socket'))), e.nr)
  BY <1>1, <1>6, QueueTypes, GrowsRight
<1>8. Grows(ring \o (incoming \o (wire \o (input_tx \o (Rest \o socket)))),
            ring \o (incoming \o (wire \o (input_tx \o (Rest \o socket')))), e.nr)
  BY <1>1, <1>7, QueueTypes, GrowsRight
<1>9. Grows(injected \o (ring \o (incoming \o (wire \o (input_tx \o (Rest \o socket))))),
            injected \o (ring \o (incoming \o (wire \o (input_tx \o (Rest \o socket'))))),
            e.nr)
  BY <1>1, <1>8, QueueTypes, GrowsRight
<1>10. Grows(All, All', e.nr)
  BY <1>9 DEF Type, transportVars, serverVars, All, UnderWay, Rest
<1>11. \A x \in Numbers(All) : x < e.nr
  BY <1>1 DEF OrderInv, Bounded
<1>12. Sorted(All)'
  BY <1>10, <1>11 DEF OrderInv, Grows, Sorted
<1>13. Numbers(All)' = Numbers(All) \cup {typed + 1}
  BY <1>1, <1>10 DEF Grows, Numbers
<1>14. 1 .. typed' = (1 .. typed) \cup {typed + 1}
  BY <1>1
<1>15. dropped' = dropped /\ gone' = gone /\ connected' = connected
  BY DEF Type, transportVars, serverVars
<1>16. Bounded'
  BY <1>13, <1>14 DEF OrderInv, Bounded
<1>17. Complete'
  BY <1>13, <1>14, <1>15 DEF OrderInv, Complete
<1> QED BY <1>12, <1>16, <1>17

\* An event that the full ring refuses leaves a gap.
LEMMA DropOrder ==
  ASSUME OrderInv, Dispatch, ~(Len(ring) < InjectRing), TypeOK'
  PROVE  Sorted(All)' /\ Bounded' /\ Complete'
<1> DEFINE r == wire \o (input_tx \o (Rest \o socket))
<1>1. TypeOK
  BY DEF OrderInv
<1>2. r \in Seq(Event)
  <2>1. Rest \o socket \in Seq(Event)
    BY <1>1, QueueTypes, ConcatType
  <2>2. input_tx \o (Rest \o socket) \in Seq(Event)
    BY <1>1, <2>1, QueueTypes, ConcatType
  <2> QED BY <1>1, <2>2, QueueTypes, ConcatType
<1>3. /\ incoming # <<>> /\ incoming' = Tail(incoming)
      /\ dropped' = dropped \cup {Head(incoming).nr}
      /\ UNCHANGED <<injected, ring, wire, input_tx, Rest, socket, connected, typed,
                     gone>>
  BY DEF Dispatch, clientVars, userVars, Rest
<1>4. /\ Thins(incoming', incoming)
      /\ Numbers(incoming) = Numbers(incoming') \cup {Head(incoming).nr}
  BY <1>1, <1>3, QueueTypes, ThinsTail
<1>5. Thins(r, r)
  BY <1>2 DEF Thins
<1> HIDE DEF r
<1>6. Thins(incoming' \o r, incoming \o r)
  BY <1>4, <1>5, ThinsBoth
<1>7. Thins(ring \o (incoming' \o r), ring \o (incoming \o r))
  BY <1>1, <1>6, QueueTypes, ThinsRight
<1>8. Thins(injected \o (ring \o (incoming' \o r)), injected \o (ring \o (incoming \o r)))
  BY <1>1, <1>7, QueueTypes, ThinsRight
<1>9. Thins(All', All)
  BY <1>3, <1>8 DEF r, All, UnderWay, Rest
<1>10. Sorted(All)'
  BY <1>9 DEF OrderInv, Thins, Sorted
<1>11. Bounded'
  BY <1>3, <1>9 DEF OrderInv, Thins, Bounded, Numbers
<1>12. Numbers(All) = Numbers(All') \cup {Head(incoming).nr}
  <2> DEFINE nr == Head(incoming).nr
             i0 == incoming \o r
             i1 == incoming' \o r
             g0 == ring \o i0
             g1 == ring \o i1
  <2>1. /\ incoming \in Seq(Event) /\ incoming' \in Seq(Event)
        /\ ring \in Seq(Event) /\ injected \in Seq(Event)
    BY <1>1, <1>4, QueueTypes DEF Thins
  <2>2. /\ i0 \in Seq(Event) /\ i1 \in Seq(Event)
        /\ Numbers(i0) = Numbers(i1) \cup {nr}
    <3> HIDE DEF nr
    <3>1. Numbers(i0) = Numbers(incoming) \cup Numbers(r)
      BY <1>2, <2>1, ConcatNumbers
    <3>2. Numbers(i1) = Numbers(incoming') \cup Numbers(r)
      BY <1>2, <2>1, ConcatNumbers
    <3>3. Numbers(incoming) = Numbers(incoming') \cup {nr}
      BY <1>4 DEF nr
    <3> QED BY <1>6, <3>1, <3>2, <3>3 DEF Thins
  <2> HIDE DEF i0, i1, nr
  <2>3. /\ g0 \in Seq(Event) /\ g1 \in Seq(Event)
        /\ Numbers(g0) = Numbers(g1) \cup {nr}
    <3>1. Numbers(g0) = Numbers(ring) \cup Numbers(i0)
      BY <2>1, <2>2, ConcatNumbers
    <3>2. Numbers(g1) = Numbers(ring) \cup Numbers(i1)
      BY <2>1, <2>2, ConcatNumbers
    <3>3. g0 \in Seq(Event) /\ g1 \in Seq(Event)
      BY <2>1, <2>2, ConcatType
    <3> QED BY <2>2, <3>1, <3>2, <3>3
  <2> HIDE DEF g0, g1
  <2>4. Numbers(injected \o g0) = Numbers(injected \o g1) \cup {nr}
    <3>1. Numbers(injected \o g0) = Numbers(injected) \cup Numbers(g0)
      BY <2>1, <2>3, ConcatNumbers
    <3>2. Numbers(injected \o g1) = Numbers(injected) \cup Numbers(g1)
      BY <2>1, <2>3, ConcatNumbers
    <3> QED BY <2>3, <3>1, <3>2
  <2>5. All = injected \o g0
    BY DEF g0, i0, r, All, UnderWay, Rest
  <2>6. All' = injected \o g1
    BY <1>3 DEF g1, i1, r, All, UnderWay, Rest
  <2> QED BY <2>4, <2>5, <2>6 DEF nr
<1>13. Complete'
  BY <1>3, <1>12 DEF OrderInv, Complete, Numbers
<1> QED BY <1>10, <1>11, <1>13

\* What an ended connection takes with it leaves a gap.
LEMMA DisconnectOrder ==
  ASSUME OrderInv, Disconnect, TypeOK'
  PROVE  Sorted(All)' /\ Bounded' /\ Complete'
<1> DEFINE r == Rest \o socket
<1>1. TypeOK
  BY DEF OrderInv
<1>2. r \in Seq(Event)
  BY <1>1, QueueTypes, ConcatType
<1>3. /\ input_tx' = <<>> /\ connected' = FALSE
      /\ \E n \in 0 .. Len(wire) : wire' = SubSeq(wire, 1, n)
      /\ UNCHANGED <<injected, ring, incoming, Rest, socket, typed>>
  BY DEF Disconnect, clientVars, userVars, serverVars, Rest
<1>4. Thins(wire', wire)
  BY <1>1, <1>3, QueueTypes, ThinsPrefix
<1>5. Thins(input_tx', input_tx)
  <2>1. /\ input_tx \in Seq(Event) /\ <<>> \in Seq(Event) /\ Len(<<>>) = 0
    BY <1>1, QueueTypes, EmptySeq
  <2> QED BY <1>3, <2>1 DEF Thins, Numbers, Sorted
<1>6. Thins(r, r)
  BY <1>2 DEF Thins
<1> HIDE DEF r
<1>7. Thins(input_tx' \o r, input_tx \o r)
  BY <1>5, <1>6, ThinsBoth
<1>8. Thins(wire' \o (input_tx' \o r), wire \o (input_tx \o r))
  BY <1>4, <1>7, ThinsBoth
<1>9. Thins(incoming \o (wire' \o (input_tx' \o r)),
            incoming \o (wire \o (input_tx \o r)))
  BY <1>1, <1>8, QueueTypes, ThinsRight
<1>10. Thins(ring \o (incoming \o (wire' \o (input_tx' \o r))),
             ring \o (incoming \o (wire \o (input_tx \o r))))
  BY <1>1, <1>9, QueueTypes, ThinsRight
<1>11. Thins(injected \o (ring \o (incoming \o (wire' \o (input_tx' \o r)))),
             injected \o (ring \o (incoming \o (wire \o (input_tx \o r)))))
  BY <1>1, <1>10, QueueTypes, ThinsRight
<1>12. Thins(All', All)
  BY <1>3, <1>11 DEF r, All, UnderWay, Rest
<1>13. Sorted(All)' /\ Bounded'
  BY <1>3, <1>12 DEF OrderInv, Thins, Sorted, Bounded, Numbers
<1> QED BY <1>3, <1>13 DEF Complete

\* s is t without the events numbered in N.
Loses(s, t, N) == Thins(s, t) /\ Numbers(t) = Numbers(s) \cup N

LEMMA LosesRight ==
  ASSUME NEW s, NEW t, NEW N, NEW u \in Seq(Event), Loses(s, t, N)
  PROVE  Loses(u \o s, u \o t, N)
  BY ThinsRight, ConcatNumbers DEF Loses, Thins

\* What ends with the capture thread leaves a gap, and is counted.
LEMMA EndOrder ==
  ASSUME OrderInv, CaptureEnds, UNCHANGED <<transportVars, serverVars>>
  PROVE  Sorted(All)' /\ Bounded' /\ Complete'
<1> DEFINE N == Numbers(Rest \o socket)
           r == Rest' \o socket'
<1>1. /\ TypeOK /\ gone' = gone \cup N
      /\ pending_events' = <<>> /\ sentUpTo' = 0 /\ socket' = <<>>
      /\ UNCHANGED <<injected, ring, incoming, wire, input_tx, dropped, typed, connected>>
  BY DEF OrderInv, CaptureEnds, transportVars, serverVars
<1>2. <<>> \in Seq(Event) /\ Len(<<>>) = 0 /\ <<>> \o <<>> = <<>>
  BY EmptySeq, ConcatEmptySeq
<1>3. r = <<>>
  <2>1. Rest' = <<>>
    BY <1>1, <1>2, SubSeqEmpty DEF Rest
  <2> QED BY <1>1, <1>2, <2>1
<1>4. Loses(r, Rest \o socket, N)
  <2>1. Rest \o socket \in Seq(Event)
    BY <1>1, QueueTypes, ConcatType
  <2> QED BY <1>2, <1>3, <2>1 DEF Loses, Thins, Numbers, Sorted
<1> HIDE DEF r, N
<1>5. Loses(input_tx \o r, input_tx \o (Rest \o socket), N)
  BY <1>1, <1>4, QueueTypes, LosesRight
<1>6. Loses(wire \o (input_tx \o r), wire \o (input_tx \o (Rest \o socket)), N)
  BY <1>1, <1>5, QueueTypes, LosesRight
<1>7. Loses(incoming \o (wire \o (input_tx \o r)),
            incoming \o (wire \o (input_tx \o (Rest \o socket))), N)
  BY <1>1, <1>6, QueueTypes, LosesRight
<1>8. Loses(ring \o (incoming \o (wire \o (input_tx \o r))),
            ring \o (incoming \o (wire \o (input_tx \o (Rest \o socket)))), N)
  BY <1>1, <1>7, QueueTypes, LosesRight
<1>9. Loses(injected \o (ring \o (incoming \o (wire \o (input_tx \o r)))),
            injected \o (ring \o (incoming \o (wire \o (input_tx \o (Rest \o socket))))), N)
  BY <1>1, <1>8, QueueTypes, LosesRight
<1>10. Loses(All', All, N)
  BY <1>1, <1>9 DEF r, All, UnderWay
<1>11. Sorted(All)' /\ Bounded'
  BY <1>1, <1>10 DEF OrderInv, Loses, Thins, Sorted, Bounded, Numbers
<1>12. Numbers(All) = Numbers(All') \cup N
  BY <1>10 DEF Loses
<1>13. Complete'
  BY <1>1, <1>12 DEF OrderInv, Complete, Numbers
<1> QED BY <1>11, <1>13

LEMMA InitOrder == Init => OrderInv
<1> SUFFICES ASSUME Init PROVE OrderInv
  OBVIOUS
<1>1. TypeOK /\ CaptureInv
  BY InitType, EmptySeq DEF Init, CaptureInv
<1>2. All = <<>>
  <2>1. Rest = <<>>
    BY SubSeqEmpty, EmptySeq DEF Init, Rest
  <2>2. <<>> \o <<>> = <<>>
    BY EmptySeq, ConcatEmptySeq
  <2> QED BY <2>1, <2>2 DEF Init, All, UnderWay, Rest
<1>3. Len(<<>>) = 0
  BY EmptySeq
<1> QED BY <1>1, <1>2, <1>3 DEF Init, OrderInv, Sorted, Bounded, Complete, Numbers

\* Every step of every thread keeps the events in order.
LEMMA NextOrder == OrderInv /\ [Next]_vars => OrderInv'
<1> SUFFICES ASSUME OrderInv, [Next]_vars
             PROVE  OrderInv'
  OBVIOUS
<1>1. TypeOK /\ CaptureInv /\ TypeOK' /\ CaptureInv'
  BY NextType DEF OrderInv
<1> SUFFICES Sorted(All)' /\ Bounded' /\ Complete'
  BY <1>1 DEF OrderInv
<1>2. ASSUME All' = All, UNCHANGED <<typed, connected, dropped, gone>>
      PROVE  Sorted(All)' /\ Bounded' /\ Complete'
  BY <1>2 DEF OrderInv, Sorted, Bounded, Complete, Numbers
<1>3. ASSUME NEW k \in Keys, Type(k)
      PROVE  Sorted(All)' /\ Bounded' /\ Complete'
  BY <1>1, <1>3, TypeOrder
<1>4. CASE \/ WriteInput \/ ReadInput \/ PollEvents \/ SendInput \/ Inject
           \/ (Dispatch /\ Len(ring) < InjectRing)
  <2>1. All' = All
    BY <1>1, <1>4, MovesKeepOrder
  <2>2. UNCHANGED <<typed, connected, dropped, gone>>
    BY <1>4 DEF WriteInput, ReadInput, PollEvents, SendInput, Inject, Dispatch,
                clientVars, userVars, transportVars, serverVars
  <2> QED BY <1>2, <2>1, <2>2
<1>5. CASE Dispatch /\ ~(Len(ring) < InjectRing)
  BY <1>1, <1>5, DropOrder
<1>6. CASE Disconnect
  BY <1>1, <1>6, DisconnectOrder
<1>8. CASE SendFails \/ CaptureStops \/ PollFails
  <2>1. CaptureEnds /\ UNCHANGED <<transportVars, serverVars>>
    BY <1>8 DEF SendFails, CaptureStops, PollFails
  <2> QED BY <2>1, EndOrder
<1>7. CASE \/ DropCapture \/ CheckShutdown \/ RecvNone
           \/ (\E k \in Keys : TypeElsewhere(k))
           \/ StopInject \/ JoinInject \/ Shutdown \/ CheckStop \/ InjectReady
           \/ InjectFails \/ UNCHANGED vars
  <2>1. UNCHANGED <<injected, ring, incoming, wire, input_tx, pending_events,
                    sentUpTo, socket, typed, connected, dropped, gone>>
    BY <1>7 DEF TypeElsewhere, DropCapture, CheckShutdown, RecvNone,
                StopInject, JoinInject, Shutdown, CheckStop, InjectReady,
                InjectFails, vars, clientVars, userVars, transportVars, serverVars
  <2>2. All' = All
    BY <2>1 DEF All, UnderWay, Rest
  <2> QED BY <1>2, <2>1, <2>2
<1> QED BY <1>3, <1>4, <1>5, <1>6, <1>7, <1>8 DEF Next, CaptureStep, RecvStep, InjectStep

-----------------------------------------------------------------------------
\* For any keys, queue depths and number of events, every variable of the input
\* path keeps its type; the bounds of the incoming channel and of the inject
\* ring are among them.
THEOREM TypeCorrect == Spec => []TypeOK
<1>1. OrderInv => TypeOK
  BY DEF OrderInv
<1> QED BY <1>1, InitOrder, NextOrder, PTL DEF Spec

\* Whatever the capture, network and inject threads do, the virtual keyboard
\* gets the events in the order in which they were typed, none twice.
THEOREM EventsStayInOrder == Spec => []InOrder
<1>1. OrderInv => InOrder
  BY DEF OrderInv, Sorted, InOrder, All
<1> QED BY <1>1, InitOrder, NextOrder, PTL DEF Spec

\* While the connection is up, every event the compositor sent has been
\* injected, is on its way, found the inject ring full (recv_dispatch_loop drops
\* it then), or was not yet sent by a capture thread that ended.
THEOREM NoEventIsLost == Spec => []NothingLost
<1>1. OrderInv => NothingLost
  BY DEF OrderInv, Complete, Numbers, NothingLost, All
<1> QED BY <1>1, InitOrder, NextOrder, PTL DEF Spec
=============================================================================
