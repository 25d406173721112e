----------------------- MODULE CaptureBackends_proofs -----------------------
(***************************************************************************)
(* Proofs about CaptureBackends, for any compositors, sizes and windows,   *)
(* any number of changes of the picture and of its size, and whatever the  *)
(* socket holds when the client looks: the compositor never has a reason   *)
(* to raise a protocol error, a window that was there before the           *)
(* application is not taken for the application's, a frame is a picture    *)
(* that was on the screen, and its damage covers what changed.             *)
(***************************************************************************)
EXTENDS CaptureBackends, SequenceTheorems, WellFoundedInduction, TLAPS

-----------------------------------------------------------------------------
(* Induction, and what FoldLeft and FlattenSeq compute *)

\* The order of the naturals as a relation.
Below == {ss \in Nat \X Nat : ss[1] < ss[2]}

LEMMA SmallestNat ==
  ASSUME NEW T, T \subseteq Nat, T # {}
  PROVE  \E m \in T : \A k \in T : m <= k
<1>1. OpToRel(<, Nat) = Below
  BY Zenon DEF OpToRel, Below
<1>2. IsWellFoundedOn(Below, Nat)
  BY NatLessThanWellFounded, <1>1, Zenon
<1>3. PICK m \in T : \A k \in T : ~(<<k, m>> \in Below)
  BY <1>2, WFMin
<1>4. ASSUME NEW k \in T
      PROVE  m <= k
  <2>1. k \in Nat /\ m \in Nat
    OBVIOUS
  <2>2. k < m => <<k, m>> \in Below
    BY <2>1 DEF Below
  <2> QED BY <1>3, <2>1, <2>2
<1> QED BY <1>4

\* A set that holds 0, and with every number below n its successor, holds n.
LEMMA CountUp ==
  ASSUME NEW G, NEW n \in Nat, 0 \in G,
         \A m \in 0 .. n : m \in G /\ m # n => m + 1 \in G
  PROVE  \A m \in 0 .. n : m \in G
<1> DEFINE T == {m \in 0 .. n : m \notin G}
<1> SUFFICES ASSUME T # {} PROVE FALSE
  OBVIOUS
<1>1. T \subseteq Nat
  OBVIOUS
<1>2. PICK m \in T : \A k \in T : m <= k
  <2> HIDE DEF T
  <2> QED BY <1>1, SmallestNat
<1>3. m \in 0 .. n /\ m \notin G /\ m # 0
  OBVIOUS
<1>4. m - 1 \in 0 .. n /\ m - 1 # n /\ (m - 1) + 1 = m
  BY <1>3
<1>5. m - 1 \in G
  BY <1>2, <1>4
<1> QED BY <1>3, <1>4, <1>5

LEMMA LargestOf ==
  ASSUME NEW m \in Nat, NEW s \in SUBSET (1 .. m), m \in s
  PROVE  Max(s) = m
<1>1. \A y \in s : m >= y
  OBVIOUS
<1>2. \A x \in s : (\A y \in s : x >= y) => x = m
  <2>1. ASSUME NEW x \in s, \A y \in s : x >= y
        PROVE  x = m
    <3>1. x >= m /\ m >= x /\ x \in Nat
      BY <1>1, <2>1
    <3> QED BY <3>1
  <2> QED BY <2>1
<1> DEFINE c == CHOOSE x \in s : \A y \in s : x >= y
<1>3. c \in s /\ \A y \in s : c >= y
  BY <1>1, Zenon
<1> HIDE DEF c
<1>4. c = m
  BY <1>2, <1>3
<1> QED BY <1>4 DEF Max, c

\* The recursive function inside Handled(b, e) exists ...
Client(f, b, e, m) ==
  f = [s \in SUBSET (1 .. m) |->
         IF s = {} THEN b ELSE ClientEvent(f[s \ {Max(s)}], e[Max(s)])]

LEMMA ClientExists ==
  ASSUME NEW STATE b, NEW STATE e, NEW STATE n, n \in Nat
  PROVE  \E f : Client(f, b, e, n)
<1> DEFINE Has(m) == \E f : Client(f, b, e, m)
           G == {m \in 0 .. n : Has(m)}
<1>1. Has(0)
  <2> DEFINE f == [s \in SUBSET (1 .. 0) |-> b]
  <2>1. \A s \in SUBSET (1 .. 0) : s = {}
    OBVIOUS
  <2>2. f = [s \in SUBSET (1 .. 0) |->
               IF s = {} THEN b ELSE ClientEvent(f[s \ {Max(s)}], e[Max(s)])]
    BY <2>1
  <2> QED BY <2>2 DEF Client
<1>2. ASSUME NEW m \in Nat, Has(m)
      PROVE  Has(m + 1)
  <2>1. PICK f : Client(f, b, e, m)
    BY <1>2
  <2> DEFINE k == m + 1
             g == [s \in SUBSET (1 .. k) |->
                     IF k \in s THEN ClientEvent(f[s \ {k}], e[k]) ELSE f[s]]
  <2>2. ASSUME NEW s \in SUBSET (1 .. k)
        PROVE  g[s] = IF s = {} THEN b ELSE ClientEvent(g[s \ {Max(s)}], e[Max(s)])
    <3> DEFINE t == s \ {Max(s)}
    <3>1. t \in SUBSET (1 .. k)
      OBVIOUS
    <3>2. CASE k \in s
      <4>1. Max(s) = k
        BY <3>2, LargestOf
      <4>2. k \notin t
        BY <4>1
      <4>3. g[t] = f[t]
        BY <3>1, <4>2
      <4>4. g[s] = ClientEvent(f[t], e[k]) /\ s # {}
        BY <3>2, <4>1
      <4> HIDE DEF g, t
      <4>5. g[s] = ClientEvent(g[t], e[Max(s)])
        BY <4>1, <4>3, <4>4
      <4> QED BY <4>4, <4>5 DEF t
    <3>3. CASE k \notin s
      <4>1. s \in SUBSET (1 .. m) /\ k \notin t
        BY <3>3
      <4>2. g[s] = f[s] /\ g[t] = f[t]
        BY <3>1, <3>3, <4>1
      <4>3. f[s] = IF s = {} THEN b ELSE ClientEvent(f[t], e[Max(s)])
        BY <2>1, <4>1 DEF Client
      <4> HIDE DEF g, t
      <4>4. g[s] = IF s = {} THEN b ELSE ClientEvent(g[t], e[Max(s)])
        BY <4>2, <4>3
      <4> QED BY <4>4 DEF t
    <3> QED BY <3>2, <3>3
  <2>3. g = [s \in SUBSET (1 .. k) |-> g[s]]
    OBVIOUS
  <2> HIDE DEF g
  <2>4. Client(g, b, e, k)
    BY <2>2, <2>3, Zenon DEF Client
  <2> QED BY <2>4
<1>3. \A m \in 0 .. n : m \in G
  <2> HIDE DEF Has
  <2>1. 0 \in G
    BY <1>1
  <2>2. \A m \in 0 .. n : m \in G /\ m # n => m + 1 \in G
    BY <1>2
  <2> HIDE DEF G
  <2> QED BY <2>1, <2>2, CountUp
<1>4. n \in G
  <2> HIDE DEF G
  <2> QED BY <1>3
<1> QED BY <1>4

\* ... and the fold is what the handlers make of b, one event after the other.
Handling(a, b, e, n) ==
  /\ a[0] = b
  /\ \A j \in 1 .. n : a[j] = ClientEvent(a[j - 1], e[j])
  /\ Handled(b, e) = a[n]

LEMMA FoldClient ==
  ASSUME NEW STATE b, NEW STATE e, NEW STATE n, n \in Nat, DOMAIN e = 1 .. n
  PROVE  \E a : Handling(a, b, e, n)
<1> DEFINE c == CHOOSE f : Client(f, b, e, n)
<1>1. Client(c, b, e, n)
  BY ClientExists, Zenon
<1>2. Handled(b, e) = c[1 .. n]
  BY Zenon DEF Handled, FoldLeft, MapThenFoldSet, Client
<1> HIDE DEF c
<1>3. c[{}] = b
  BY <1>1 DEF Client
<1>4. ASSUME NEW j \in 1 .. n
      PROVE  c[1 .. j] = ClientEvent(c[1 .. (j - 1)], e[j])
  <2> DEFINE s == 1 .. j
  <2>1. s \in SUBSET (1 .. n) /\ s # {} /\ s \ {j} = 1 .. (j - 1)
    <3>1. s \in SUBSET (1 .. n) /\ j \in s
      OBVIOUS
    <3>2. \A x : x \in s \ {j} <=> x \in 1 .. (j - 1)
      OBVIOUS
    <3> HIDE DEF s
    <3> QED BY <3>1, <3>2
  <2>2. Max(s) = j
    <3>1. j \in Nat /\ s \in SUBSET (1 .. j) /\ j \in s
      OBVIOUS
    <3> QED BY <3>1, LargestOf
  <2> HIDE DEF s
  <2>3. c[s] = ClientEvent(c[s \ {Max(s)}], e[Max(s)])
    BY <1>1, <2>1 DEF Client
  <2> QED BY <2>1, <2>2, <2>3 DEF s
<1> DEFINE a == [j \in 0 .. n |-> c[1 .. j]]
<1>5. a[0] = b /\ a[n] = c[1 .. n]
  <2>1. 1 .. 0 = {}
    OBVIOUS
  <2> QED BY <1>3, <2>1
<1>6. ASSUME NEW j \in 1 .. n
      PROVE  a[j] = ClientEvent(a[j - 1], e[j])
  <2>1. j \in 0 .. n /\ j - 1 \in 0 .. n
    OBVIOUS
  <2>2. a[j] = c[1 .. j] /\ a[j - 1] = c[1 .. (j - 1)]
    BY <2>1
  <2> HIDE DEF a
  <2> QED BY <1>4, <2>2
<1> HIDE DEF a
<1>7. Handling(a, b, e, n)
  BY <1>2, <1>5, <1>6, Zenon DEF Handling
<1> QED BY <1>7, Zenon

\* The same for enumerate_toplevels.
Toplevel(f, e, m) ==
  f = [s \in SUBSET (1 .. m) |->
         IF s = {} THEN <<>> ELSE Ext!toplevel_event(f[s \ {Max(s)}], e[Max(s)])]

LEMMA ToplevelExists ==
  ASSUME NEW e, NEW n \in Nat
  PROVE  \E f : Toplevel(f, e, n)
<1> DEFINE Has(m) == \E f : Toplevel(f, e, m)
           G == {m \in 0 .. n : Has(m)}
<1>1. Has(0)
  <2> DEFINE f == [s \in SUBSET (1 .. 0) |-> <<>>]
  <2>1. \A s \in SUBSET (1 .. 0) : s = {}
    OBVIOUS
  <2>2. f = [s \in SUBSET (1 .. 0) |->
               IF s = {} THEN <<>> ELSE Ext!toplevel_event(f[s \ {Max(s)}], e[Max(s)])]
    BY <2>1
  <2> QED BY <2>2 DEF Toplevel
<1>2. ASSUME NEW m \in Nat, Has(m)
      PROVE  Has(m + 1)
  <2>1. PICK f : Toplevel(f, e, m)
    BY <1>2
  <2> DEFINE k == m + 1
             g == [s \in SUBSET (1 .. k) |->
                     IF k \in s THEN Ext!toplevel_event(f[s \ {k}], e[k]) ELSE f[s]]
  <2>2. ASSUME NEW s \in SUBSET (1 .. k)
        PROVE  g[s] = IF s = {} THEN <<>> ELSE Ext!toplevel_event(g[s \ {Max(s)}], e[Max(s)])
    <3> DEFINE t == s \ {Max(s)}
    <3>1. t \in SUBSET (1 .. k)
      OBVIOUS
    <3>2. CASE k \in s
      <4>1. Max(s) = k
        BY <3>2, LargestOf
      <4>2. k \notin t
        BY <4>1
      <4>3. g[t] = f[t]
        BY <3>1, <4>2
      <4>4. g[s] = Ext!toplevel_event(f[t], e[k]) /\ s # {}
        BY <3>2, <4>1
      <4> HIDE DEF g, t
      <4>5. g[s] = Ext!toplevel_event(g[t], e[Max(s)])
        BY <4>1, <4>3, <4>4
      <4> QED BY <4>4, <4>5 DEF t
    <3>3. CASE k \notin s
      <4>1. s \in SUBSET (1 .. m) /\ k \notin t
        BY <3>3
      <4>2. g[s] = f[s] /\ g[t] = f[t]
        BY <3>1, <3>3, <4>1
      <4>3. f[s] = IF s = {} THEN <<>> ELSE Ext!toplevel_event(f[t], e[Max(s)])
        BY <2>1, <4>1 DEF Toplevel
      <4> HIDE DEF g, t
      <4>4. g[s] = IF s = {} THEN <<>> ELSE Ext!toplevel_event(g[t], e[Max(s)])
        BY <4>2, <4>3
      <4> QED BY <4>4 DEF t
    <3> QED BY <3>2, <3>3
  <2>3. g = [s \in SUBSET (1 .. k) |-> g[s]]
    OBVIOUS
  <2> HIDE DEF g
  <2>4. Toplevel(g, e, k)
    BY <2>2, <2>3, Zenon DEF Toplevel
  <2> QED BY <2>4
<1>3. \A m \in 0 .. n : m \in G
  <2> HIDE DEF Has
  <2>1. 0 \in G
    BY <1>1
  <2>2. \A m \in 0 .. n : m \in G /\ m # n => m + 1 \in G
    BY <1>2
  <2> HIDE DEF G
  <2> QED BY <2>1, <2>2, CountUp
<1>4. n \in G
  <2> HIDE DEF G
  <2> QED BY <1>3
<1> QED BY <1>4

LEMMA FoldToplevel ==
  ASSUME NEW e, NEW n \in Nat, DOMAIN e = 1 .. n
  PROVE  \E a : /\ a[0] = <<>>
                /\ \A j \in 1 .. n : a[j] = Ext!toplevel_event(a[j - 1], e[j])
                /\ Ext!enumerate_toplevels(e) = a[n]
<1> DEFINE c == CHOOSE f : Toplevel(f, e, n)
<1>1. Toplevel(c, e, n)
  BY ToplevelExists, Zenon
<1>2. Ext!enumerate_toplevels(e) = c[1 .. n]
  BY Zenon DEF Ext!enumerate_toplevels, Ext!FoldLeft, Ext!MapThenFoldSet, Ext!Max, Max, Toplevel
<1> HIDE DEF c
<1>3. c[{}] = <<>>
  BY <1>1 DEF Toplevel
<1>4. ASSUME NEW j \in 1 .. n
      PROVE  c[1 .. j] = Ext!toplevel_event(c[1 .. (j - 1)], e[j])
  <2> DEFINE s == 1 .. j
  <2>1. s \in SUBSET (1 .. n) /\ s # {} /\ s \ {j} = 1 .. (j - 1)
    <3>1. s \in SUBSET (1 .. n) /\ j \in s
      OBVIOUS
    <3>2. \A x : x \in s \ {j} <=> x \in 1 .. (j - 1)
      OBVIOUS
    <3> HIDE DEF s
    <3> QED BY <3>1, <3>2
  <2>2. Max(s) = j
    <3>1. j \in Nat /\ s \in SUBSET (1 .. j) /\ j \in s
      OBVIOUS
    <3> QED BY <3>1, LargestOf
  <2> HIDE DEF s
  <2>3. c[s] = Ext!toplevel_event(c[s \ {Max(s)}], e[Max(s)])
    BY <1>1, <2>1 DEF Toplevel
  <2> QED BY <2>1, <2>2, <2>3 DEF s
<1> DEFINE a == [j \in 0 .. n |-> c[1 .. j]]
<1>5. a[0] = <<>> /\ a[n] = c[1 .. n]
  <2>1. 1 .. 0 = {}
    OBVIOUS
  <2> QED BY <1>3, <2>1
<1>6. ASSUME NEW j \in 1 .. n
      PROVE  a[j] = Ext!toplevel_event(a[j - 1], e[j])
  <2>1. j \in 0 .. n /\ j - 1 \in 0 .. n
    OBVIOUS
  <2>2. a[j] = c[1 .. j] /\ a[j - 1] = c[1 .. (j - 1)]
    BY <2>1
  <2> HIDE DEF a
  <2> QED BY <1>4, <2>2
<1> HIDE DEF a
<1> QED BY <1>2, <1>5, <1>6

\* The recursive function inside FlattenSeq exists ...
Flattens(f, cs, m) ==
  f = [i \in 1 .. m |-> IF i = 1 THEN cs[i] ELSE f[i-1] \o cs[i]]

LEMMA FlattenExists ==
  ASSUME NEW cs, NEW n \in Nat
  PROVE  \E f : Flattens(f, cs, n)
<1> DEFINE Has(m) == \E f : Flattens(f, cs, m)
           G == {m \in 0 .. n : Has(m)}
<1>1. Has(0)
  <2> DEFINE f == [i \in 1 .. 0 |-> cs[i]]
  <2>1. f = [i \in 1 .. 0 |-> IF i = 1 THEN cs[i] ELSE f[i-1] \o cs[i]]
    OBVIOUS
  <2> QED BY <2>1 DEF Flattens
<1>2. ASSUME NEW m \in Nat, Has(m)
      PROVE  Has(m + 1)
  <2>1. PICK f : Flattens(f, cs, m)
    BY <1>2
  <2> DEFINE k == m + 1
             last == IF k = 1 THEN cs[k] ELSE f[m] \o cs[k]
             g == [i \in 1 .. k |-> IF i = k THEN last ELSE f[i]]
  <2>2. ASSUME NEW i \in 1 .. k
        PROVE  g[i] = IF i = 1 THEN cs[i] ELSE g[i - 1] \o cs[i]
    <3>1. CASE i = k
      <4>1. i # 1 => i - 1 \in 1 .. k /\ i - 1 # k /\ i - 1 = m
        BY <3>1
      <4>2. i # 1 => g[i - 1] = f[m]
        BY <4>1
      <4>3. g[i] = last
        BY <3>1
      <4> HIDE DEF g
      <4> QED BY <3>1, <4>2, <4>3
    <3>2. CASE i # k
      <4>1. i \in 1 .. m
        BY <3>2
      <4>2. i # 1 => i - 1 \in 1 .. k /\ i - 1 # k
        BY <4>1
      <4>3. i # 1 => g[i - 1] = f[i - 1]
        BY <4>2
      <4>4. g[i] = f[i]
        BY <3>2
      <4>5. f[i] = IF i = 1 THEN cs[i] ELSE f[i-1] \o cs[i]
        BY <2>1, <4>1 DEF Flattens
      <4> HIDE DEF g
      <4> QED BY <4>3, <4>4, <4>5
    <3> QED BY <3>1, <3>2
  <2>3. g = [i \in 1 .. k |-> g[i]]
    OBVIOUS
  <2> HIDE DEF g
  <2>4. Flattens(g, cs, k)
    BY <2>2, <2>3, Zenon DEF Flattens
  <2> QED BY <2>4
<1>3. \A m \in 0 .. n : m \in G
  <2> HIDE DEF Has
  <2>1. 0 \in G
    BY <1>1
  <2>2. \A m \in 0 .. n : m \in G /\ m # n => m + 1 \in G
    BY <1>2
  <2> HIDE DEF G
  <2> QED BY <2>1, <2>2, CountUp
<1>4. n \in G
  <2> HIDE DEF G
  <2> QED BY <1>3
<1> QED BY <1>4

\* ... and what it returns is made of the elements of the parts.
LEMMA FlattenType ==
  ASSUME NEW U, NEW cs, NEW n \in Nat, DOMAIN cs = 1 .. n, cs \in Seq(Seq(U)),
         Len(cs) = n
  PROVE  FlattenSeq(cs) \in Seq(U)
<1>1. CASE n = 0
  <2>1. cs = <<>>
    BY <1>1, EmptySeq
  <2>2. FlattenSeq(cs) = cs
    BY <1>1, Zenon DEF FlattenSeq
  <2> QED BY <2>1, <2>2, EmptySeq
<1>2. CASE n # 0
  <2> DEFINE c == CHOOSE f : Flattens(f, cs, n)
  <2>1. Flattens(c, cs, n)
    BY FlattenExists, Zenon
  <2>2. FlattenSeq(cs) = c[n]
    BY <1>2, Zenon DEF FlattenSeq, Flattens
  <2> HIDE DEF c
  <2> DEFINE G == {m \in 0 .. n : m = 0 \/ c[m] \in Seq(U)}
  <2>3. \A j \in 1 .. n : cs[j] \in Seq(U)
    BY ElementOfSeq
  <2>4. ASSUME NEW m \in 0 .. n, m # n, m = 0 \/ c[m] \in Seq(U)
        PROVE  c[m + 1] \in Seq(U)
    <3>1. m + 1 \in 1 .. n /\ (m + 1) - 1 = m
      BY <2>4
    <3>2. c[m + 1] = IF m + 1 = 1 THEN cs[m + 1] ELSE c[m] \o cs[m + 1]
      BY <2>1, <3>1 DEF Flattens
    <3>3. cs[m + 1] \in Seq(U)
      BY <2>3, <3>1
    <3>4. CASE m = 0
      BY <3>2, <3>3, <3>4
    <3>5. CASE m # 0
      <4>1. c[m] \in Seq(U) /\ m + 1 # 1
        BY <2>4, <3>5
      <4> QED BY <3>2, <3>3, <4>1, ConcatProperties
    <3> QED BY <3>4, <3>5
  <2>5. \A m \in 0 .. n : m \in G
    <3>1. 0 \in G
      OBVIOUS
    <3>2. \A m \in 0 .. n : m \in G /\ m # n => m + 1 \in G
      <4>1. ASSUME NEW m \in 0 .. n, m \in G, m # n
            PROVE  m + 1 \in G
        <5>1. c[m + 1] \in Seq(U)
          BY <2>4, <4>1
        <5>2. m + 1 \in 0 .. n
          BY <4>1
        <5> QED BY <5>1, <5>2
      <4> QED BY <4>1
    <3> HIDE DEF G
    <3> QED BY <3>1, <3>2, CountUp
  <2>6. n \in G
    <3> HIDE DEF G
    <3> QED BY <2>5
  <2> QED BY <1>2, <2>2, <2>6
<1> QED BY <1>1, <1>2

-----------------------------------------------------------------------------
(* The windows *)

WindowSet == [win : Nat, app_id : BOOLEAN]

\* A toplevel of the client has no identifier yet, or its own.
Tops == {t \in [win : Nat, identifier : Nat] : t.identifier \in {0, t.win}}

\* What the compositor sends of its windows.
TopEvents ==
  {[Event("AppId") EXCEPT !.win = w] : w \in Nat}
    \cup {[Event("Identifier") EXCEPT !.win = w] : w \in Nat}

LEMMA TopEventFields ==
  ASSUME NEW e \in TopEvents
  PROVE  e.win \in Nat /\ e.ev \in {"AppId", "Identifier"}
  BY DEF TopEvents, Event

LEMMA WindowEventsType ==
  ASSUME windows \in Seq(WindowSet)
  PROVE  WindowEvents \in Seq(TopEvents)
<1> DEFINE Named(w) == [Event("AppId") EXCEPT !.win = w.win]
           Identified(w) == [Event("Identifier") EXCEPT !.win = w.win]
           Of(w) == IF ~w.app_id THEN <<Identified(w)>>
                    ELSE IF desktop.lateId THEN <<Identified(w), Named(w)>>
                    ELSE <<Named(w), Identified(w)>>
           e(i) == Of(windows[i])
           n == Len(windows)
           cs == [i \in 1 .. n |-> e(i)]
<1>1. n \in Nat /\ DOMAIN windows = 1 .. n
  BY LenProperties
<1>2. WindowEvents = FlattenSeq(cs)
  BY <1>1, Zenon DEF WindowEvents
<1>3. ASSUME NEW i \in 1 .. n
      PROVE  e(i) \in Seq(TopEvents)
  <2>1. windows[i] \in WindowSet
    BY ElementOfSeq
  <2>2. windows[i].win \in Nat
    BY <2>1 DEF WindowSet
  <2> DEFINE a == Named(windows[i])
             b == Identified(windows[i])
  <2>3. a \in TopEvents /\ b \in TopEvents
    BY <2>2, Zenon DEF TopEvents
  <2>4. e(i) \in {<<b>>, <<b, a>>, <<a, b>>}
    BY Zenon
  <2> HIDE DEF a, b, e
  <2>5. <<b>> \in Seq(TopEvents) /\ <<b, a>> \in Seq(TopEvents) /\ <<a, b>> \in Seq(TopEvents)
    BY <2>3
  <2> QED BY <2>4, <2>5
<1> HIDE DEF e, n
<1>4. cs \in Seq(Seq(TopEvents)) /\ DOMAIN cs = 1 .. n /\ Len(cs) = n
  <2>1. \A i \in 1 .. n : e(i) \in Seq(TopEvents)
    BY <1>3
  <2>2. cs \in Seq(Seq(TopEvents))
    BY <1>1, <2>1, IsASeq
  <2> QED BY <1>1, <2>2
<1> HIDE DEF cs
<1> QED BY <1>1, <1>2, <1>4, FlattenType

LEMMA ToplevelEventType ==
  ASSUME NEW t \in Seq(Tops), NEW e \in TopEvents
  PROVE  Ext!toplevel_event(t, e) \in Seq(Tops)
<1>1. e.win \in Nat /\ e.ev \in {"AppId", "Identifier"}
  BY TopEventFields
<1>2. CASE e.ev = "AppId"
  <2>1. [win |-> e.win, identifier |-> 0] \in Tops
    BY <1>1 DEF Tops
  <2>2. Append(t, [win |-> e.win, identifier |-> 0]) \in Seq(Tops)
    BY <2>1, AppendProperties
  <2> DEFINE k == Ext!Known(t, e.win)
  <2> HIDE DEF k
  <2>3. CASE k
    <3>1. Ext!toplevel_event(t, e) = t
      BY <1>2, <2>3 DEF Ext!toplevel_event, k
    <3> QED BY <3>1
  <2>4. CASE ~k
    <3>1. Ext!toplevel_event(t, e) = Append(t, [win |-> e.win, identifier |-> 0])
      BY <1>2, <2>4 DEF Ext!toplevel_event, k
    <3> QED BY <2>2, <3>1
  <2> QED BY <2>3, <2>4
<1>3. CASE e.ev = "Identifier"
  <2> DEFINE g(i) == IF t[i].win = e.win
                     THEN [t[i] EXCEPT !.identifier = e.win] ELSE t[i]
             n == Len(t)
  <2>1. n \in Nat /\ DOMAIN t = 1 .. n
    BY LenProperties
  <2>2. Ext!toplevel_event(t, e) = [i \in 1 .. n |-> g(i)]
    BY <1>3, <2>1 DEF Ext!toplevel_event
  <2>3. ASSUME NEW i \in 1 .. n
        PROVE  g(i) \in Tops
    <3>1. t[i] \in Tops
      BY ElementOfSeq
    <3> QED BY <1>1, <3>1 DEF Tops
  <2> HIDE DEF g
  <2>4. [i \in 1 .. n |-> g(i)] \in Seq(Tops)
    BY <2>1, <2>3, IsASeq
  <2> QED BY <2>2, <2>4
<1> QED BY <1>1, <1>2, <1>3

\* enumerate_toplevels lists no toplevel with the identifier of another one.
LEMMA ToplevelsType ==
  ASSUME windows \in Seq(WindowSet)
  PROVE  Toplevels \in Seq(Tops)
<1> DEFINE e == WindowEvents
           n == Len(e)
<1>1. e \in Seq(TopEvents)
  BY WindowEventsType
<1> HIDE DEF e
<1>2. n \in Nat /\ DOMAIN e = 1 .. n /\ \A j \in 1 .. n : e[j] \in TopEvents
  BY <1>1, LenProperties, ElementOfSeq
<1>3. PICK a : /\ a[0] = <<>>
               /\ \A j \in 1 .. n : a[j] = Ext!toplevel_event(a[j - 1], e[j])
               /\ Ext!enumerate_toplevels(e) = a[n]
  BY <1>2, FoldToplevel
<1> DEFINE G == {m \in 0 .. n : a[m] \in Seq(Tops)}
<1> HIDE DEF n
<1>4. 0 \in G
  <2>1. a[0] = <<>> /\ <<>> \in Seq(Tops)
    BY <1>3, EmptySeq, Zenon
  <2>2. 0 \in 0 .. n
    BY <1>2
  <2>3. a[0] \in Seq(Tops)
    BY <2>1, Zenon
  <2> QED BY <2>2, <2>3, Zenon
<1>5. ASSUME NEW m \in 0 .. n, m \in G, m # n
      PROVE  m + 1 \in G
  <2>1. m + 1 \in 1 .. n /\ (m + 1) - 1 = m /\ m + 1 \in 0 .. n /\ a[m] \in Seq(Tops)
    BY <1>2, <1>5
  <2>2. a[m + 1] = Ext!toplevel_event(a[m], e[m + 1]) /\ e[m + 1] \in TopEvents
    BY <1>2, <1>3, <2>1
  <2> QED BY <2>1, <2>2, ToplevelEventType
<1>6. \A m \in 0 .. n : m \in G
  <2> HIDE DEF G
  <2> QED BY <1>2, <1>4, <1>5, CountUp
<1>7. a[n] \in Seq(Tops)
  <2>1. n \in G
    <3> HIDE DEF G
    <3> QED BY <1>2, <1>6
  <2> QED BY <2>1
<1> QED BY <1>3, <1>7 DEF Toplevels, e

\* What NewToplevel finds was not in the snapshot.
LEMMA NewToplevelIsNew ==
  ASSUME NEW t \in Seq(Tops), NEW known, Ext!new_toplevel(t, known) # Ext!NoWindow
  PROVE  Ext!new_toplevel(t, known) \notin known \ {0}
<1> DEFINE IsNew(x) == x.identifier # 0 /\ x.identifier \notin known
           fresh == {i \in DOMAIN t : IsNew(t[i])}
           win == Ext!new_toplevel(t, known)
<1>1. CASE fresh # {}
  <2>1. win = t[Min(fresh)].win
    BY <1>1, Zenon DEF Ext!new_toplevel, Ext!Min, Min
  <2>2. fresh \subseteq Nat
    <3>1. DOMAIN t = 1 .. Len(t) /\ Len(t) \in Nat
      BY LenProperties
    <3> QED BY <3>1
  <2>3. Min(fresh) \in fresh
    <3> HIDE DEF fresh
    <3>1. \E m \in fresh : \A k \in fresh : m <= k
      BY <1>1, <2>2, SmallestNat
    <3> QED BY <3>1, Zenon DEF Min
  <2> DEFINE x == t[Min(fresh)]
  <2>4. IsNew(x) /\ Min(fresh) \in DOMAIN t
    BY <2>3, Zenon
  <2>5. x \in Tops
    <3>1. DOMAIN t = 1 .. Len(t)
      BY LenProperties
    <3> HIDE DEF fresh
    <3> QED BY <2>4, <3>1, ElementOfSeq
  <2> HIDE DEF x, fresh
  <2>6. x.win = x.identifier
    BY <2>4, <2>5 DEF Tops
  <2> QED BY <2>1, <2>4, <2>6 DEF x
<1>2. CASE fresh = {}
  <2>1. known = {}
    <3>1. win # Ext!NoWindow
      OBVIOUS
    <3> QED BY <1>2, <3>1, Zenon DEF Ext!new_toplevel
  <2> QED BY <2>1
<1> QED BY <1>1, <1>2

-----------------------------------------------------------------------------
(* A window of the snapshot is not captured *)

WindowInv ==
  /\ windows \in Seq(WindowSet)
  /\ opened \in Nat
  /\ listed = known_identifiers \ {0}
  /\ pc = "session" => target \notin listed

LEMMA RemoveAtType ==
  ASSUME NEW U, NEW s \in Seq(U), NEW i \in 1 .. Len(s)
  PROVE  RemoveAt(s, i) \in Seq(U)
<1> DEFINE n == Len(s)
<1>1. n \in Nat /\ i \in Nat /\ i <= n /\ i >= 1
  BY LenProperties
<1>2. SubSeq(s, 1, i - 1) \in Seq(U)
  <2>1. \A j \in 1 .. (i - 1) : s[j] \in U
    <3>1. \A j \in 1 .. (i - 1) : j \in 1 .. n
      BY <1>1
    <3> QED BY <3>1, ElementOfSeq
  <2> QED BY <1>1, <2>1, SubSeqProperties
<1>3. SubSeq(s, i + 1, n) \in Seq(U)
  <2>1. \A j \in (i + 1) .. n : s[j] \in U
    <3>1. \A j \in (i + 1) .. n : j \in 1 .. n
      BY <1>1
    <3> QED BY <3>1, ElementOfSeq
  <2> QED BY <1>1, <2>1, SubSeqProperties
<1> QED BY <1>2, <1>3, ConcatProperties DEF RemoveAt

LEMMA WindowInit == Init => WindowInv
<1> SUFFICES ASSUME Init PROVE WindowInv
  OBVIOUS
<1> USE DEF Init
<1>1. windows \in Seq(WindowSet) /\ opened \in Nat
  <2>1. windows \in {<<>>} \cup {<<[win |-> 1, app_id |-> a]>> : a \in BOOLEAN}
    OBVIOUS
  <2>2. <<>> \in Seq(WindowSet)
    OBVIOUS
  <2>3. \A a \in BOOLEAN : <<[win |-> 1, app_id |-> a]>> \in Seq(WindowSet)
    BY DEF WindowSet
  <2>4. windows \in Seq(WindowSet)
    BY <2>1, <2>2, <2>3, Zenon
  <2>5. opened = Len(windows)
    OBVIOUS
  <2> QED BY <2>4, <2>5, LenProperties
<1>2. listed = known_identifiers \ {0}
  OBVIOUS
<1>3. pc # "session"
  OBVIOUS
<1> QED BY <1>1, <1>2, <1>3 DEF WindowInv

\* What the steps that follow the choice of the window keep.
LEMMA WindowsForgotten ==
  ASSUME WindowInv, pc' # "session", Forget
  PROVE  WindowInv'
<1>1. windows' = <<>> /\ opened' = 0 /\ listed' = {} /\ known_identifiers' = {}
  BY DEF Forget
<1>2. windows' \in Seq(WindowSet)
  BY <1>1
<1> QED BY <1>1, <1>2, Zenon DEF WindowInv

LEMMA WindowsKept ==
  ASSUME WindowInv, pc' # "session" \/ target' = 0 \/ (pc' = pc /\ target' = target),
         UNCHANGED windowVars, UNCHANGED known_identifiers
  PROVE  WindowInv'
<1>1. windows' = windows /\ opened' = opened /\ listed' = listed
      /\ known_identifiers' = known_identifiers
  BY DEF windowVars
<1>2. listed = known_identifiers \ {0}
  BY DEF WindowInv
<1>3. 0 \notin listed
  BY <1>2
<1> QED BY <1>1, <1>3, Zenon DEF WindowInv

LEMMA WindowStep == WindowInv /\ [Next]_vars => WindowInv'
<1> SUFFICES ASSUME WindowInv, [Next]_vars PROVE WindowInv'
  OBVIOUS
<1>0. /\ windows \in Seq(WindowSet) /\ opened \in Nat
      /\ listed = known_identifiers \ {0}
      /\ pc = "session" => target \notin listed
  BY DEF WindowInv
<1>1. CASE WindowOpens
  <2>1. PICK a \in BOOLEAN : windows' = Append(windows, [win |-> opened + 1, app_id |-> a])
    BY <1>1 DEF WindowOpens
  <2>2. [win |-> opened + 1, app_id |-> a] \in WindowSet
    BY <1>0 DEF WindowSet
  <2>3. windows' \in Seq(WindowSet)
    BY <1>0, <2>1, <2>2, AppendProperties
  <2>4. opened' \in Nat
    BY <1>0, <1>1 DEF WindowOpens
  <2>5. listed' = listed /\ known_identifiers' = known_identifiers
        /\ pc' = pc /\ target' = target
    BY <1>1 DEF WindowOpens, setupVars
  <2> QED BY <1>0, <2>3, <2>4, <2>5, Zenon DEF WindowInv
<1>2. CASE WindowNamed
  <2>1. PICK i \in DOMAIN windows : windows' = [windows EXCEPT ![i].app_id = TRUE]
    BY <1>2 DEF WindowNamed
  <2>2. i \in 1 .. Len(windows)
    BY <1>0, LenProperties
  <2>3. windows[i] \in WindowSet
    BY <1>0, <2>2, ElementOfSeq
  <2>4. [windows[i] EXCEPT !.app_id = TRUE] \in WindowSet
    BY <2>3 DEF WindowSet
  <2>5. windows' \in Seq(WindowSet)
    BY <1>0, <2>1, <2>2, <2>4, ExceptSeq
  <2>6. listed' = listed /\ known_identifiers' = known_identifiers /\ opened' = opened
        /\ pc' = pc /\ target' = target
    BY <1>2 DEF WindowNamed, setupVars
  <2> QED BY <1>0, <2>5, <2>6, Zenon DEF WindowInv
<1>3. CASE WindowCloses
  <2>1. PICK i \in DOMAIN windows : windows' = RemoveAt(windows, i)
    BY <1>3 DEF WindowCloses
  <2>2. i \in 1 .. Len(windows)
    BY <1>0, LenProperties
  <2>3. windows' \in Seq(WindowSet)
    BY <1>0, <2>1, <2>2, RemoveAtType
  <2>4. listed' = listed /\ known_identifiers' = known_identifiers /\ opened' = opened
        /\ pc' = pc /\ target' = target
    BY <1>3 DEF WindowCloses, setupVars
  <2> QED BY <1>0, <2>3, <2>4, Zenon DEF WindowInv
<1>4. CASE Snapshot
  <2>1. CASE "toplevel_list" \in globals
    <3>1. /\ pc' = "spawned"
          /\ known_identifiers' = Ext!Identifiers(Toplevels)
          /\ listed' = Ext!Identifiers(Toplevels) \ {0}
          /\ windows' = windows /\ opened' = opened
      BY <1>4, <2>1, Zenon DEF Snapshot
    <3>2. listed' = known_identifiers' \ {0}
      BY <3>1, Zenon
    <3>3. pc' # "session"
      BY <3>1
    <3> QED BY <1>0, <3>1, <3>2, <3>3, Zenon DEF WindowInv
  <2>2. CASE "toplevel_list" \notin globals
    <3>1. pc' = "detect" /\ Forget
      BY <1>4, <2>2, Zenon DEF Snapshot
    <3> QED BY <3>1, WindowsForgotten
  <2> QED BY <2>1, <2>2
<1>5. CASE DetectNewToplevel
  <2> DEFINE win == Ext!new_toplevel(Toplevels, known_identifiers)
  <2>1. win # Ext!NoWindow /\ target' = win
    BY <1>5, Zenon DEF DetectNewToplevel
  <2>2. Toplevels \in Seq(Tops)
    BY <1>0, ToplevelsType
  <2>3. win \notin known_identifiers \ {0}
    BY <2>1, <2>2, NewToplevelIsNew
  <2>4. windows' = windows /\ opened' = opened /\ listed' = listed
        /\ known_identifiers' = known_identifiers
    BY <1>5, Zenon DEF DetectNewToplevel, windowVars
  <2> HIDE DEF win
  <2>5. target' \notin listed'
    BY <1>0, <2>1, <2>3, <2>4, Zenon
  <2> QED BY <1>0, <2>4, <2>5, Zenon DEF WindowInv
<1>6. CASE GiveUpWindow
  <2>1. pc' # "session" /\ Forget
    BY <1>6 DEF GiveUpWindow
  <2> QED BY <2>1, WindowsForgotten
<1>7. CASE SessionReady
  <2>1. pc' # "session" /\ Forget
    BY <1>7 DEF SessionReady
  <2> QED BY <2>1, WindowsForgotten
<1>8. CASE DetectBackend \/ SessionFails
  <2>1. target' = 0 /\ UNCHANGED windowVars /\ UNCHANGED known_identifiers
    BY <1>8 DEF DetectBackend, SessionFails
  <2> QED BY <2>1, WindowsKept
<1>9. CASE Paint \/ Resize \/ TargetCloses \/ Offer \/ StartCopy \/ FinishCopy
  <2>1. UNCHANGED windowVars /\ UNCHANGED setupVars /\ pc' = pc
    BY <1>9 DEF Paint, Resize, TargetCloses, Offer, StartCopy, FinishCopy
  <2> QED BY <2>1, WindowsKept DEF setupVars
<1>10. CASE \/ ExtNextFrame \/ ExtFinishFrame \/ Dispatch \/ ConnectionLost
            \/ ScNextFrame \/ Timeout \/ ScPool \/ ScCopy \/ ScFinishFrame \/ Stop
  <2>1. UNCHANGED clientOnly
    BY <1>10 DEF ExtNextFrame, ExtFinishFrame, Dispatch, ConnectionLost,
       ScNextFrame, Timeout, ScPool, ScCopy, ScFinishFrame, Stop
  <2>2. pc' = pc \/ pc' # "session"
    BY <1>10 DEF ExtNextFrame, ExtFinishFrame, Dispatch, ConnectionLost,
       ScNextFrame, Timeout, ScPool, ScCopy, ScFinishFrame, Stop, Return
  <2> QED BY <2>1, <2>2, WindowsKept DEF clientOnly, setupVars
<1>11. CASE PortalHandshake \/ PortalPipeline \/ PortalSample \/ PortalStops
            \/ PortalNextFrame \/ PortalReceives
  <2>1. UNCHANGED clientOnly
    BY <1>11 DEF PortalHandshake, PortalPipeline, PortalThread, PortalSample,
       PortalStops, PortalNextFrame, PortalReceives
  <2>2. pc' = pc \/ pc' # "session"
    BY <1>11 DEF PortalHandshake, PortalPipeline, PortalThread, PortalSample,
       PortalStops, PortalNextFrame, PortalReceives
  <2> QED BY <2>1, <2>2, WindowsKept DEF clientOnly, setupVars
<1>12. CASE PortalNewReturns
  <2>1. UNCHANGED windowVars /\ UNCHANGED known_identifiers /\ pc' # "session"
    BY <1>12 DEF PortalNewReturns, TryScreencopy
  <2> QED BY <2>1, WindowsKept
<1>13. CASE PortalNoSample \/ Done \/ UNCHANGED vars
  <2>1. UNCHANGED windowVars /\ UNCHANGED setupVars /\ pc' = pc
    BY <1>13 DEF PortalNoSample, Done, vars
  <2> QED BY <2>1, WindowsKept DEF setupVars
<1> QED BY <1>1, <1>2, <1>3, <1>4, <1>5, <1>6, <1>7, <1>8, <1>9, <1>10, <1>11,
           <1>12, <1>13, Zenon DEF Next

\* A window that had an identifier when the server took its snapshot, before
\* it launched the application, is never the one whose capture session
\* detect_new_toplevel_backend asks for: however many windows open, get their
\* app id and close, and in whatever order the compositor describes them.
THEOREM WindowIsNew == Spec => []CapturesNewWindow
<1>1. WindowInv => CapturesNewWindow
  BY Zenon DEF WindowInv, CapturesNewWindow
<1> QED BY WindowInit, WindowStep, <1>1, PTL DEF Spec

-----------------------------------------------------------------------------
(* No protocol error *)

\* The fields of a ScreencopyState and of the compositor's frame object.
StateFields(s) ==
  s = [size |-> s.size, format |-> s.format, buffer_done |-> s.buffer_done,
       frame_ready |-> s.frame_ready, frame_failed |-> s.frame_failed,
       damage_rects |-> s.damage_rects, stopped |-> s.stopped]

FrameFields(f) ==
  f = [stage |-> f.stage, offer |-> f.offer, format |-> f.format, slot |-> f.slot]

\* Events that describe a buffer.
Offers(e) == e.ev \in {"Buffer", "BufferDone"}

NoOffers(w) == \A i \in 1 .. Len(w) : ~Offers(w[i])

\* The client knows the buffer that the frame f wants, or that it failed.
Offered(s, f) == s.frame_failed \/ (s.size = f.offer /\ s.format = f.format)

\* Phase 1 with the first j events of w handled: what is left describes the
\* buffer of f, and says so before BufferDone.
Good(s, w, j, f) ==
  /\ ~s.stopped
  /\ s.buffer_done => Offered(s, f)
  /\ \A i \in (j + 1) .. Len(w) :
       w[i].ev = "Buffer" => w[i].size = f.offer /\ w[i].format = f.format
  /\ \A i \in (j + 1) .. Len(w) :
       w[i].ev = "BufferDone" => Offered(s, f) \/ (i > j + 1 /\ w[i - 1].ev = "Buffer")
  /\ f.stage = "offering" => /\ ~s.buffer_done
                             /\ \A i \in (j + 1) .. Len(w) : ~Offers(w[i])

\* No frame object lives.
Resting == {"snapshot", "spawned", "detect", "session", "portal", "idle", "recv"}

\* What the two ends know of each other in each part of next_frame.
StageInv ==
  /\ pc \in Resting => frame.stage = "none"
  /\ frame.stage = "offering" => pc \in {"phase1", "ended"}
  /\ pc = "phase1" => frame.stage \in {"offering", "offered", "answered"}
  /\ pc = "roundtrip" => /\ frame.stage \in {"offered", "answered"}
                         /\ pool.size = frame.offer /\ pool.format = frame.format
  /\ pc \in {"phase1", "roundtrip", "phase2"} => backend = "screencopy"
  /\ pc = "wait" => backend # "screencopy"

OfferInv ==
  /\ pc # "ended" /\ backend = "screencopy" => StateFields(st)
  /\ pc \notin {"phase1", "roundtrip", "ended"} => NoOffers(wire)
  /\ pc = "phase1" => Good(st, wire, 0, frame)

IsSequence(w) == \E S : w \in Seq(S)

ProtocolInv ==
  /\ NoProtocolError
  /\ IsSequence(wire)
  /\ FrameFields(frame)
  /\ StageInv
  /\ OfferInv

\* What one event changes in the state of screencopy.
LEMMA ScreencopyEvent ==
  ASSUME NEW s, NEW e, StateFields(s)
  PROVE  /\ StateFields(Sc!event(s, e))
         /\ Sc!event(s, e).stopped = s.stopped
         /\ s.frame_failed => Sc!event(s, e).frame_failed
         /\ e.ev # "BufferDone" => Sc!event(s, e).buffer_done = s.buffer_done
         /\ e.ev # "Buffer" => /\ Sc!event(s, e).size = s.size
                               /\ Sc!event(s, e).format = s.format
         /\ e.ev = "Buffer" => \/ Sc!event(s, e).frame_failed
                               \/ /\ Sc!event(s, e).size = e.size
                                  /\ Sc!event(s, e).format = e.format
<1> DEFINE r == Sc!event(s, e)
           Rest(f, o, b, d, y, c) ==
             [size |-> f, format |-> o, buffer_done |-> b, frame_ready |-> y,
              frame_failed |-> d, damage_rects |-> c, stopped |-> s.stopped]
<1>0. s = Rest(s.size, s.format, s.buffer_done, s.frame_failed, s.frame_ready, s.damage_rects)
  BY DEF StateFields
<1>1. CASE e.ev = "Buffer"
  <2>1. CASE e.format = "unknown"
    <3>1. r = [s EXCEPT !.frame_failed = TRUE]
      BY <1>1, <2>1 DEF Sc!event
    <3>2. r = Rest(s.size, s.format, s.buffer_done, TRUE, s.frame_ready, s.damage_rects)
      BY <1>0, <3>1
    <3> HIDE DEF r
    <3>3. StateFields(r) /\ r.frame_failed /\ r.stopped = s.stopped /\ r.buffer_done = s.buffer_done
      BY <3>2 DEF StateFields
    <3> QED BY <1>1, <3>3 DEF r
  <2>2. CASE e.format # "unknown"
    <3>1. r = [s EXCEPT !.size = e.size, !.format = e.format]
      BY <1>1, <2>2 DEF Sc!event
    <3>2. r = Rest(e.size, e.format, s.buffer_done, s.frame_failed, s.frame_ready, s.damage_rects)
      BY <1>0, <3>1
    <3> HIDE DEF r
    <3>3. /\ StateFields(r) /\ r.frame_failed = s.frame_failed /\ r.stopped = s.stopped
          /\ r.buffer_done = s.buffer_done /\ r.size = e.size /\ r.format = e.format
      BY <3>2 DEF StateFields
    <3> QED BY <1>1, <3>3 DEF r
  <2> QED BY <2>1, <2>2
<1>2. CASE e.ev = "BufferDone"
  <2>1. r = [s EXCEPT !.buffer_done = TRUE]
    BY <1>2 DEF Sc!event
  <2>2. r = Rest(s.size, s.format, TRUE, s.frame_failed, s.frame_ready, s.damage_rects)
    BY <1>0, <2>1
  <2> HIDE DEF r
  <2>3. /\ StateFields(r) /\ r.frame_failed = s.frame_failed /\ r.stopped = s.stopped
        /\ r.size = s.size /\ r.format = s.format
    BY <2>2 DEF StateFields
  <2> QED BY <1>2, <2>3 DEF r
<1>3. CASE e.ev \notin {"Buffer", "BufferDone"}
  <2>1. r \in {[s EXCEPT !.damage_rects = @ \cup e.cells], [s EXCEPT !.frame_ready = TRUE],
               [s EXCEPT !.frame_failed = TRUE], s}
    BY <1>3 DEF Sc!event
  <2>2. \/ r = Rest(s.size, s.format, s.buffer_done, s.frame_failed, s.frame_ready,
                    s.damage_rects \cup e.cells)
        \/ r = Rest(s.size, s.format, s.buffer_done, s.frame_failed, TRUE, s.damage_rects)
        \/ r = Rest(s.size, s.format, s.buffer_done, TRUE, s.frame_ready, s.damage_rects)
        \/ r = s
    BY <1>0, <2>1
  <2> HIDE DEF r
  <2>3. /\ StateFields(r) /\ r.stopped = s.stopped
        /\ r.size = s.size /\ r.format = s.format /\ r.buffer_done = s.buffer_done
        /\ r.frame_failed = s.frame_failed \/ r.frame_failed = TRUE
    <3>1. StateFields(s)
      OBVIOUS
    <3> QED BY <2>2, <3>1 DEF StateFields
  <2> QED BY <1>3, <2>3 DEF r
<1> QED BY <1>1, <1>2, <1>3

\* One event of phase 1.
LEMMA GoodStep ==
  ASSUME NEW s, NEW w, NEW f, NEW n \in Nat, Len(w) = n, NEW j \in 0 .. n, j # n,
         StateFields(s), Good(s, w, j, f)
  PROVE  Good(Sc!event(s, w[j + 1]), w, j + 1, f)
<1> DEFINE k == j + 1
           e == w[k]
           r == Sc!event(s, e)
<1>0. k \in 1 .. n /\ j \in Nat /\ k \in (j + 1) .. Len(w)
  OBVIOUS
<1>1. /\ r.stopped = s.stopped
      /\ s.frame_failed => r.frame_failed
      /\ e.ev # "BufferDone" => r.buffer_done = s.buffer_done
      /\ e.ev # "Buffer" => r.size = s.size /\ r.format = s.format
      /\ e.ev = "Buffer" => r.frame_failed \/ (r.size = e.size /\ r.format = e.format)
  BY ScreencopyEvent, Zenon
<1>2. /\ ~s.stopped
      /\ s.buffer_done => Offered(s, f)
      /\ e.ev = "Buffer" => e.size = f.offer /\ e.format = f.format
      /\ e.ev = "BufferDone" => Offered(s, f)
      /\ f.stage = "offering" => ~s.buffer_done /\ ~Offers(e)
  BY <1>0 DEF Good
<1>3. \A i \in (k + 1) .. Len(w) : i \in (j + 1) .. Len(w) /\ i > j + 1 /\ i - 1 >= k
  BY <1>0
<1>4. /\ \A i \in (k + 1) .. Len(w) :
           w[i].ev = "Buffer" => w[i].size = f.offer /\ w[i].format = f.format
      /\ \A i \in (k + 1) .. Len(w) :
           w[i].ev = "BufferDone" => Offered(s, f) \/ w[i - 1].ev = "Buffer"
      /\ f.stage = "offering" => \A i \in (k + 1) .. Len(w) : ~Offers(w[i])
  BY <1>3 DEF Good
<1> HIDE DEF r, e, k
<1>5. e.ev = "Buffer" => Offered(r, f)
  BY <1>1, <1>2, Zenon DEF Offered
<1>6. Offered(s, f) => Offered(r, f)
  BY <1>1, <1>5, Zenon DEF Offered
<1>7. r.buffer_done => Offered(r, f)
  <2>1. CASE e.ev = "BufferDone"
    BY <1>2, <1>6, <2>1, Zenon
  <2>2. CASE e.ev # "BufferDone"
    BY <1>1, <1>2, <1>6, <2>2, Zenon
  <2> QED BY <2>1, <2>2, Zenon
<1>8. ~r.stopped
  BY <1>1, <1>2, Zenon
<1>9. ASSUME NEW i \in (k + 1) .. Len(w), w[i].ev = "BufferDone"
      PROVE  Offered(r, f) \/ (i > k + 1 /\ w[i - 1].ev = "Buffer")
  <2>1. Offered(s, f) \/ w[i - 1].ev = "Buffer"
    BY <1>4, <1>9, Zenon
  <2>2. CASE i = k + 1
    <3>1. i - 1 = k
      BY <1>0, <2>2
    <3>2. Offered(s, f) \/ e.ev = "Buffer"
      BY <2>1, <3>1 DEF e
    <3> QED BY <1>5, <1>6, <3>2, Zenon
  <2>3. CASE i # k + 1
    <3>1. i > k + 1
      BY <1>0, <2>3
    <3> QED BY <1>6, <2>1, <3>1, Zenon
  <2> QED BY <2>2, <2>3
<1>10. f.stage = "offering" => ~r.buffer_done
  <2>1. e.ev = "BufferDone" => Offers(e)
    BY DEF Offers
  <2> QED BY <1>1, <1>2, <2>1, Zenon
<1>11. Good(r, w, k, f)
  BY <1>4, <1>7, <1>8, <1>9, <1>10, Zenon DEF Good
<1> QED BY <1>11 DEF r, e, k

LEMMA SequenceLength ==
  ASSUME NEW w, IsSequence(w)
  PROVE  Len(w) \in Nat /\ DOMAIN w = 1 .. Len(w)
  BY LenProperties DEF IsSequence

\* The first events of the queue, and the others.
LEMMA FirstEvents ==
  ASSUME NEW w, IsSequence(w), NEW k \in 1 .. Len(w)
  PROVE  /\ DOMAIN SubSeq(w, 1, k) = 1 .. k
         /\ \A i \in 1 .. k : SubSeq(w, 1, k)[i] = w[i]
<1>1. PICK S : w \in Seq(S)
  BY DEF IsSequence
<1>2. Len(w) \in Nat /\ k \in Nat /\ k <= Len(w) /\ 1 <= k
  BY SequenceLength
<1>3. \A i \in 1 .. k : w[i] \in S
  <2>1. \A i \in 1 .. k : i \in 1 .. Len(w)
    BY <1>2
  <2> QED BY <1>1, <2>1, ElementOfSeq
<1> DEFINE v == SubSeq(w, 1, k)
<1>4. v \in Seq(S) /\ Len(v) = k - 1 + 1 /\ \A i \in 1 .. (k - 1 + 1) : v[i] = w[1 + i - 1]
  BY <1>2, <1>3, SubSeqProperties
<1> HIDE DEF v
<1>5. k - 1 + 1 = k /\ \A i \in 1 .. k : 1 + i - 1 = i
  BY <1>2
<1>6. DOMAIN v = 1 .. k
  BY <1>4, <1>5, LenProperties
<1>7. \A i \in 1 .. k : v[i] = w[i]
  BY <1>4, <1>5
<1> QED BY <1>6, <1>7 DEF v

LEMMA OtherEvents ==
  ASSUME NEW w, IsSequence(w), NEW k \in 1 .. Len(w)
  PROVE  /\ IsSequence(SubSeq(w, k + 1, Len(w)))
         /\ Len(SubSeq(w, k + 1, Len(w))) = Len(w) - k
         /\ \A i \in 1 .. Len(w) - k : SubSeq(w, k + 1, Len(w))[i] = w[k + i]
<1> DEFINE n == Len(w)
           v == SubSeq(w, k + 1, n)
<1>1. PICK S : w \in Seq(S)
  BY DEF IsSequence
<1>2. n \in Nat /\ k \in Nat /\ k <= n /\ 1 <= k
  BY SequenceLength
<1>3. \A i \in (k + 1) .. n : w[i] \in S
  <2>1. \A i \in (k + 1) .. n : i \in 1 .. n
    BY <1>2
  <2> QED BY <1>1, <2>1, ElementOfSeq
<1>4. /\ v \in Seq(S) /\ Len(v) = IF k + 1 <= n THEN n - (k + 1) + 1 ELSE 0
      /\ \A i \in 1 .. n - (k + 1) + 1 : v[i] = w[(k + 1) + i - 1]
  <2>1. k + 1 \in Int /\ n \in Int
    BY <1>2
  <2> QED BY <1>3, <2>1, SubSeqProperties
<1> HIDE DEF v, n
<1>5. n - (k + 1) + 1 = n - k /\ \A i \in 1 .. n - k : (k + 1) + i - 1 = k + i
  BY <1>2
<1>6. Len(v) = n - k
  BY <1>2, <1>4
<1>7. \A i \in 1 .. n - k : v[i] = w[k + i]
  BY <1>4, <1>5
<1>8. IsSequence(v)
  BY <1>4, Zenon DEF IsSequence
<1> QED BY <1>6, <1>7, <1>8 DEF v, n

\* Whatever events are handled, the state keeps its fields.
LEMMA FieldsFold ==
  ASSUME backend = "screencopy", StateFields(st), NEW STATE v, NEW STATE n, n \in Nat,
         DOMAIN v = 1 .. n
  PROVE  StateFields(Handled(st, v))
<1>1. PICK a : Handling(a, st, v, n)
  BY FoldClient
<1> DEFINE G == {m \in 0 .. n : StateFields(a[m])}
<1>2. 0 \in G
  BY <1>1 DEF Handling
<1>3. ASSUME NEW m \in 0 .. n, m \in G, m # n
      PROVE  m + 1 \in G
  <2>1. m + 1 \in 1 .. n /\ (m + 1) - 1 = m /\ m + 1 \in 0 .. n
    BY <1>3
  <2>2. a[m + 1] = ClientEvent(a[m], v[m + 1])
    BY <1>1, <2>1 DEF Handling
  <2>3. a[m + 1] = Sc!event(a[m], v[m + 1])
    BY <2>2 DEF ClientEvent
  <2>4. StateFields(a[m])
    BY <1>3
  <2>5. StateFields(a[m + 1])
    BY <2>3, <2>4, ScreencopyEvent
  <2> QED BY <2>1, <2>5
<1>4. n \in G
  <2> HIDE DEF G
  <2>1. \A m \in 0 .. n : m \in G
    BY <1>2, <1>3, CountUp
  <2> QED BY <2>1
<1> QED BY <1>1, <1>4 DEF Handling

\* Phase 1 stays good over any events that arrive together.
LEMMA GoodPrefix ==
  ASSUME backend = "screencopy", StateFields(st), NEW STATE f, NEW STATE w, NEW STATE v,
         NEW STATE k, k \in Nat, Len(w) \in Nat, k <= Len(w), DOMAIN v = 1 .. k,
         \A i \in 1 .. k : v[i] = w[i], Good(st, w, 0, f)
  PROVE  Good(Handled(st, v), w, k, f)
<1> DEFINE n == Len(w)
<1>2. PICK a : Handling(a, st, v, k)
  BY FoldClient
<1> DEFINE G == {m \in 0 .. k : StateFields(a[m]) /\ Good(a[m], w, m, f)}
<1>3. 0 \in G
  BY <1>2 DEF Handling
<1>4. ASSUME NEW m \in 0 .. k, m \in G, m # k
      PROVE  m + 1 \in G
  <2>1. m + 1 \in 1 .. k /\ (m + 1) - 1 = m /\ m + 1 \in 0 .. k /\ m \in 0 .. n /\ m # n
    BY <1>4
  <2>2. a[m + 1] = Sc!event(a[m], w[m + 1])
    <3>1. a[m + 1] = ClientEvent(a[m], v[m + 1]) /\ v[m + 1] = w[m + 1]
      BY <1>2, <2>1 DEF Handling
    <3> QED BY <3>1 DEF ClientEvent
  <2>3. StateFields(a[m]) /\ Good(a[m], w, m, f)
    BY <1>4, Zenon
  <2>4. StateFields(a[m + 1])
    BY <2>2, <2>3, ScreencopyEvent
  <2>5. Good(a[m + 1], w, m + 1, f)
    BY <2>1, <2>2, <2>3, GoodStep
  <2> QED BY <2>1, <2>4, <2>5, Zenon
<1>5. k \in G
  <2> HIDE DEF G
  <2>1. \A m \in 0 .. k : m \in G
    BY <1>3, <1>4, CountUp
  <2> QED BY <2>1
<1> QED BY <1>2, <1>5, Zenon DEF Handling

LEMMA GoodFold ==
  ASSUME backend = "screencopy", StateFields(st), NEW STATE f, NEW STATE w,
         IsSequence(w), NEW k \in 1 .. Len(w), Good(st, w, 0, f)
  PROVE  Good(Handled(st, SubSeq(w, 1, k)), w, k, f)
<1>0. Len(w) \in Nat /\ k \in Nat /\ k <= Len(w)
  BY SequenceLength
<1>1. /\ DOMAIN SubSeq(w, 1, k) = 1 .. k
      /\ \A i \in 1 .. k : SubSeq(w, 1, k)[i] = w[i]
  BY FirstEvents
<1> QED BY <1>0, <1>1, GoodPrefix

LEMMA GoodRest ==
  ASSUME NEW s, NEW f, NEW w, IsSequence(w), NEW k \in 1 .. Len(w), Good(s, w, k, f)
  PROVE  Good(s, SubSeq(w, k + 1, Len(w)), 0, f)
<1> DEFINE n == Len(w)
           v == SubSeq(w, k + 1, n)
<1>0. n \in Nat /\ k \in Nat /\ k <= n
  BY SequenceLength
<1>1. Len(v) = n - k /\ \A i \in 1 .. n - k : v[i] = w[k + i]
  BY OtherEvents
<1> HIDE DEF v, n
<1>2. /\ ~s.stopped
      /\ s.buffer_done => Offered(s, f)
      /\ f.stage = "offering" => ~s.buffer_done
  BY Zenon DEF Good
<1>3. ASSUME NEW i \in (0 + 1) .. Len(v)
      PROVE  /\ v[i].ev = "Buffer" => v[i].size = f.offer /\ v[i].format = f.format
             /\ v[i].ev = "BufferDone" =>
                  Offered(s, f) \/ (i > 0 + 1 /\ v[i - 1].ev = "Buffer")
             /\ f.stage = "offering" => ~Offers(v[i])
  <2>1. i \in 1 .. n - k /\ k + i \in (k + 1) .. n
    BY <1>0, <1>1
  <2>2. v[i] = w[k + i]
    BY <1>1, <2>1
  <2>3. /\ w[k + i].ev = "Buffer" => w[k + i].size = f.offer /\ w[k + i].format = f.format
        /\ w[k + i].ev = "BufferDone" =>
             Offered(s, f) \/ (k + i > k + 1 /\ w[(k + i) - 1].ev = "Buffer")
        /\ f.stage = "offering" => ~Offers(w[k + i])
    BY <2>1, Zenon DEF Good, n
  <2>4. k + i > k + 1 => i > 0 + 1 /\ v[i - 1] = w[(k + i) - 1]
    <3>1. k + i > k + 1 => i > 0 + 1 /\ i - 1 \in 1 .. n - k /\ k + (i - 1) = (k + i) - 1
      BY <1>0, <2>1
    <3>2. \A j \in 1 .. n - k : v[j] = w[k + j]
      BY <1>1
    <3> QED BY <3>1, <3>2
  <2> QED BY <2>2, <2>3, <2>4, Zenon
<1>4. Good(s, v, 0, f)
  BY <1>2, <1>3, Zenon DEF Good
<1> QED BY <1>4 DEF v, n

LEMMA NoOffersRest ==
  ASSUME NEW w, IsSequence(w), NEW k \in 1 .. Len(w), NoOffers(w)
  PROVE  NoOffers(SubSeq(w, k + 1, Len(w)))
<1> DEFINE n == Len(w)
           v == SubSeq(w, k + 1, n)
<1>0. n \in Nat /\ k \in Nat /\ k <= n
  BY SequenceLength
<1>1. Len(v) = n - k /\ \A i \in 1 .. n - k : v[i] = w[k + i]
  BY OtherEvents
<1>2. \A i \in 1 .. n : ~Offers(w[i])
  BY DEF NoOffers
<1> HIDE DEF v, n
<1>3. \A i \in 1 .. n - k : k + i \in 1 .. n
  BY <1>0
<1>4. \A i \in 1 .. Len(v) : ~Offers(v[i])
  BY <1>1, <1>2, <1>3
<1> QED BY <1>4 DEF NoOffers, v, n

\* Events are sent.
LEMMA SentEvents ==
  ASSUME NEW w, IsSequence(w), NEW v, IsSequence(v)
  PROVE  /\ IsSequence(w \o v)
         /\ Len(w \o v) = Len(w) + Len(v)
         /\ \A i \in 1 .. Len(w) + Len(v) :
              (w \o v)[i] = IF i <= Len(w) THEN w[i] ELSE v[i - Len(w)]
<1>1. PICK S : w \in Seq(S)
  BY DEF IsSequence
<1>2. PICK R : v \in Seq(R)
  BY DEF IsSequence
<1>3. w \in Seq(S \cup R) /\ v \in Seq(S \cup R)
  <2>1. S \subseteq S \cup R /\ R \subseteq S \cup R
    OBVIOUS
  <2> QED BY <1>1, <1>2, <2>1, SeqMonotonic
<1>4. w \o v \in Seq(S \cup R)
  BY <1>3, ConcatProperties
<1>5. IsSequence(w \o v)
  BY <1>4, Zenon DEF IsSequence
<1> QED BY <1>3, <1>5, ConcatProperties

\* Events of which none describes a buffer.
LEMMA QuietEvents ==
  ASSUME NEW w, IsSequence(w), NEW v, IsSequence(v), NoOffers(v)
  PROVE  /\ NoOffers(w) => NoOffers(w \o v)
         /\ \A s, f, g : /\ Good(s, w, 0, f) /\ g.offer = f.offer /\ g.format = f.format
                         /\ g.stage = "offering" => f.stage = "offering"
                         => Good(s, w \o v, 0, g)
<1> DEFINE n == Len(w)
           m == Len(v)
           u == w \o v
<1>0. n \in Nat /\ m \in Nat
  BY SequenceLength
<1>1. Len(u) = n + m /\ \A i \in 1 .. n + m : u[i] = IF i <= n THEN w[i] ELSE v[i - n]
  BY SentEvents
<1>2. \A i \in 1 .. m : ~Offers(v[i])
  BY DEF NoOffers
<1> HIDE DEF n, m, u
<1>3. ASSUME NEW i \in 1 .. Len(u)
      PROVE  (i \in 1 .. n /\ u[i] = w[i]) \/ (i \notin 1 .. n /\ ~Offers(u[i]))
  <2>1. CASE i <= n
    BY <1>0, <1>1, <2>1
  <2>2. CASE ~(i <= n)
    <3>1. i - n \in 1 .. m /\ i \notin 1 .. n
      BY <1>0, <1>1, <2>2
    <3>2. u[i] = v[i - n]
      BY <1>1, <2>2
    <3> QED BY <1>2, <3>1, <3>2
  <2> QED BY <2>1, <2>2
<1>4. NoOffers(w) => NoOffers(u)
  BY <1>3, Zenon DEF NoOffers, n
<1>5. ASSUME NEW s, NEW f, NEW g, Good(s, w, 0, f), g.offer = f.offer, g.format = f.format,
             g.stage = "offering" => f.stage = "offering"
      PROVE  Good(s, u, 0, g)
  <2>1. Offered(s, f) = Offered(s, g)
    BY <1>5 DEF Offered
  <2>2. /\ ~s.stopped
        /\ s.buffer_done => Offered(s, g)
        /\ g.stage = "offering" => ~s.buffer_done
    BY <1>5, <2>1 DEF Good
  <2>3. ASSUME NEW i \in (0 + 1) .. Len(u)
        PROVE  /\ u[i].ev = "Buffer" => u[i].size = g.offer /\ u[i].format = g.format
               /\ u[i].ev = "BufferDone" =>
                    Offered(s, g) \/ (i > 0 + 1 /\ u[i - 1].ev = "Buffer")
               /\ g.stage = "offering" => ~Offers(u[i])
    <3>1. CASE i \in 1 .. n /\ u[i] = w[i]
      <4>1. i \in (0 + 1) .. Len(w)
        BY <3>1 DEF n
      <4>2. /\ w[i].ev = "Buffer" => w[i].size = f.offer /\ w[i].format = f.format
            /\ w[i].ev = "BufferDone" =>
                 Offered(s, f) \/ (i > 0 + 1 /\ w[i - 1].ev = "Buffer")
            /\ f.stage = "offering" => ~Offers(w[i])
        BY <1>5, <4>1, Zenon DEF Good
      <4>3. i > 0 + 1 => u[i - 1] = w[i - 1]
        <5>1. i > 0 + 1 => i - 1 \in 1 .. n + m /\ i - 1 <= n
          BY <1>0, <3>1
        <5> QED BY <1>1, <5>1
      <4> QED BY <1>5, <2>1, <3>1, <4>2, <4>3
    <3>2. CASE ~Offers(u[i])
      BY <3>2 DEF Offers
    <3>3. i \in 1 .. Len(u)
      OBVIOUS
    <3> QED BY <1>3, <3>1, <3>2, <3>3, Zenon
  <2> QED BY <2>2, <2>3, Zenon DEF Good
<1> QED BY <1>4, <1>5, Zenon DEF u

\* The compositor asks for a buffer.
LEMMA OfferEvents ==
  ASSUME NEW w, IsSequence(w), NEW p, NEW q, NEW s, NEW f, NEW g,
         Good(s, w, 0, f), f.stage = "offering", g.stage = "offered",
         p.ev = "Buffer", p.size = g.offer, p.format = g.format, q.ev = "BufferDone"
  PROVE  IsSequence(w \o <<p, q>>) /\ Good(s, w \o <<p, q>>, 0, g)
<1> DEFINE n == Len(w)
           v == <<p, q>>
           u == w \o v
<1>0. n \in Nat
  BY SequenceLength
<1>1. IsSequence(v) /\ Len(v) = 2 /\ v[1] = p /\ v[2] = q
  <2>1. v \in Seq({p, q})
    OBVIOUS
  <2> QED BY <2>1 DEF IsSequence
<1> HIDE DEF v
<1>2. /\ IsSequence(u) /\ Len(u) = n + 2
      /\ \A i \in 1 .. n + 2 : u[i] = IF i <= n THEN w[i] ELSE v[i - n]
  <2>1. IsSequence(v) /\ Len(v) = 2
    BY <1>1
  <2>2. /\ IsSequence(u) /\ Len(u) = n + Len(v)
        /\ \A i \in 1 .. n + Len(v) : u[i] = IF i <= n THEN w[i] ELSE v[i - n]
    BY <2>1, SentEvents, Zenon
  <2> QED BY <2>1, <2>2, Zenon
<1>3. ~s.stopped /\ ~s.buffer_done /\ \A i \in (0 + 1) .. Len(w) : ~Offers(w[i])
  BY Zenon DEF Good
<1> HIDE DEF n, u
<1>4. u[n + 1] = p /\ u[n + 2] = q
  <2>1. n + 1 \in 1 .. n + 2 /\ ~(n + 1 <= n) /\ (n + 1) - n = 1
    BY <1>0
  <2>2. n + 2 \in 1 .. n + 2 /\ ~(n + 2 <= n) /\ (n + 2) - n = 2
    BY <1>0
  <2>3. u[n + 1] = v[1]
    BY <1>2, <2>1
  <2>4. u[n + 2] = v[2]
    BY <1>2, <2>2
  <2> QED BY <1>1, <2>3, <2>4
<1>5. ASSUME NEW i \in (0 + 1) .. Len(u)
      PROVE  /\ u[i].ev = "Buffer" => u[i].size = g.offer /\ u[i].format = g.format
             /\ u[i].ev = "BufferDone" =>
                  Offered(s, g) \/ (i > 0 + 1 /\ u[i - 1].ev = "Buffer")
  <2>1. CASE i <= n
    <3>1. i \in (0 + 1) .. Len(w) /\ i \in 1 .. n + 2
      BY <1>0, <1>2, <2>1 DEF n
    <3>2. u[i] = w[i] /\ ~Offers(w[i])
      BY <1>2, <1>3, <2>1, <3>1
    <3> QED BY <3>2 DEF Offers
  <2>2. CASE i = n + 1
    <3>1. u[i] = p
      BY <1>4, <2>2
    <3> QED BY <3>1
  <2>3. CASE i = n + 2
    <3>1. u[i] = q /\ i > 0 + 1 /\ i - 1 = n + 1
      BY <1>0, <1>4, <2>3
    <3> QED BY <1>4, <3>1
  <2>4. i <= n \/ i = n + 1 \/ i = n + 2
    BY <1>0, <1>2
  <2> QED BY <2>1, <2>2, <2>3, <2>4
<1>6. g.stage # "offering"
  OBVIOUS
<1>7. Good(s, u, 0, g)
  BY <1>3, <1>5, <1>6, Zenon DEF Good
<1> QED BY <1>2, <1>7 DEF u, v

-----------------------------------------------------------------------------
(* Events that describe no buffer *)

Quiet(v) == IsSequence(v) /\ NoOffers(v)

LEMMA QuietNone == Quiet(<<>>)
<1>1. <<>> \in Seq({}) /\ Len(<<>>) = 0
  OBVIOUS
<1>2. IsSequence(<<>>)
  BY <1>1, Zenon DEF IsSequence
<1>3. NoOffers(<<>>)
  BY <1>1 DEF NoOffers
<1> QED BY <1>2, <1>3 DEF Quiet

LEMMA QuietOne ==
  ASSUME NEW e, ~Offers(e)
  PROVE  Quiet(<<e>>)
<1> DEFINE v == <<e>>
<1>1. v \in Seq({e}) /\ Len(v) = 1 /\ v[1] = e
  OBVIOUS
<1> HIDE DEF v
<1>2. IsSequence(v)
  BY <1>1, Zenon DEF IsSequence
<1>3. \A i \in 1 .. Len(v) : i = 1
  BY <1>1
<1>4. NoOffers(v)
  BY <1>1, <1>3 DEF NoOffers
<1> QED BY <1>2, <1>4 DEF Quiet, v

LEMMA QuietTwo ==
  ASSUME NEW e, NEW d, ~Offers(e), ~Offers(d)
  PROVE  Quiet(<<e, d>>)
<1> DEFINE v == <<e, d>>
<1>1. v \in Seq({e, d}) /\ Len(v) = 2 /\ v[1] = e /\ v[2] = d
  OBVIOUS
<1> HIDE DEF v
<1>2. IsSequence(v)
  BY <1>1, Zenon DEF IsSequence
<1>3. \A i \in 1 .. Len(v) : i = 1 \/ i = 2
  BY <1>1
<1>4. NoOffers(v)
  BY <1>1, <1>3 DEF NoOffers
<1> QED BY <1>2, <1>4 DEF Quiet, v

LEMMA QuietBoth ==
  ASSUME NEW v, NEW w, Quiet(v), Quiet(w)
  PROVE  Quiet(v \o w)
<1>1. IsSequence(v) /\ IsSequence(w) /\ NoOffers(v) /\ NoOffers(w)
  BY DEF Quiet
<1>2. IsSequence(v \o w)
  BY <1>1, SentEvents
<1>3. NoOffers(v \o w)
  BY <1>1, QuietEvents
<1> QED BY <1>2, <1>3 DEF Quiet

LEMMA OfferFree ==
  ASSUME NEW ev, ev \notin {"Buffer", "BufferDone"}
  PROVE  /\ ~Offers(Event(ev))
         /\ \A x : ~Offers(SizeEvent(ev, x))
         /\ \A x : ~Offers([Event(ev) EXCEPT !.transform = x])
         /\ \A x : ~Offers([Event(ev) EXCEPT !.cells = x])
  BY DEF Offers, Event, SizeEvent

LEMMA StageSet ==
  ASSUME NEW f, NEW x, FrameFields(f)
  PROVE  /\ FrameFields([f EXCEPT !.stage = x])
         /\ [f EXCEPT !.stage = x].stage = x
         /\ [f EXCEPT !.stage = x].offer = f.offer
         /\ [f EXCEPT !.stage = x].format = f.format
<1> DEFINE g == [f EXCEPT !.stage = x]
<1>1. g = [stage |-> x, offer |-> f.offer, format |-> f.format, slot |-> f.slot]
  BY DEF FrameFields
<1> HIDE DEF g
<1>2. FrameFields(g) /\ g.stage = x /\ g.offer = f.offer /\ g.format = f.format
  BY <1>1 DEF FrameFields
<1> QED BY <1>2 DEF g

-----------------------------------------------------------------------------
(* The steps *)

\* The compositor goes on with its frame, or with nothing that counts here.
LEMMA QuietStep ==
  ASSUME ProtocolInv,
         wire' = wire \/ (\E v : Quiet(v) /\ wire' = wire \o v),
         \/ frame' = frame
         \/ frame.stage # "none" /\ frame' = [frame EXCEPT !.stage = "answered"]
         \/ frame.stage = "copying" /\ frame' = [frame EXCEPT !.stage = "writing"],
         pool' = pool \/ frame.stage \in {"copying", "writing"},
         UNCHANGED <<protocolError, pc, backend, st>>
  PROVE  ProtocolInv'
<1>0. /\ NoProtocolError /\ IsSequence(wire) /\ FrameFields(frame) /\ StageInv /\ OfferInv
  BY DEF ProtocolInv
<1>1. protocolError' = protocolError /\ pc' = pc /\ backend' = backend /\ st' = st
  OBVIOUS
<1>2. /\ IsSequence(wire')
      /\ NoOffers(wire) => NoOffers(wire')
      /\ \A g : /\ g.offer = frame.offer /\ g.format = frame.format
                /\ g.stage = "offering" => frame.stage = "offering"
                /\ Good(st, wire, 0, frame)
                => Good(st, wire', 0, g)
  <2>1. CASE wire' = wire
    <3>1. wire' = wire \o <<>>
      <4>1. PICK S : wire \in Seq(S)
        BY <1>0 DEF IsSequence
      <4> QED BY <2>1, <4>1, ConcatEmptySeq
    <3>2. IsSequence(<<>>) /\ NoOffers(<<>>)
      BY QuietNone DEF Quiet
    <3> QED BY <1>0, <2>1, <3>1, <3>2, QuietEvents, Zenon
  <2>2. ASSUME NEW v, Quiet(v), wire' = wire \o v
        PROVE  /\ IsSequence(wire')
               /\ NoOffers(wire) => NoOffers(wire')
               /\ \A g : /\ g.offer = frame.offer /\ g.format = frame.format
                         /\ g.stage = "offering" => frame.stage = "offering"
                         /\ Good(st, wire, 0, frame)
                         => Good(st, wire', 0, g)
    <3>1. IsSequence(v) /\ NoOffers(v)
      BY <2>2 DEF Quiet
    <3>2. IsSequence(wire \o v)
      BY <1>0, <3>1, SentEvents
    <3> QED BY <1>0, <2>2, <3>1, <3>2, QuietEvents, Zenon
  <2> QED BY <2>1, <2>2
<1>3. /\ FrameFields(frame') /\ frame'.offer = frame.offer /\ frame'.format = frame.format
      /\ \/ frame'.stage = frame.stage
         \/ frame.stage # "none" /\ frame'.stage = "answered"
         \/ frame.stage = "copying" /\ frame'.stage = "writing"
  <2>1. CASE frame' = frame
    BY <1>0, <2>1
  <2>2. CASE frame.stage # "none" /\ frame' = [frame EXCEPT !.stage = "answered"]
    <3>1. FrameFields(frame)
      BY <1>0
    <3>2. /\ FrameFields(frame') /\ frame'.stage = "answered"
          /\ frame'.offer = frame.offer /\ frame'.format = frame.format
      BY <2>2, <3>1, StageSet
    <3> QED BY <2>2, <3>2
  <2>3. CASE frame.stage = "copying" /\ frame' = [frame EXCEPT !.stage = "writing"]
    <3>1. FrameFields(frame)
      BY <1>0
    <3>2. /\ FrameFields(frame') /\ frame'.stage = "writing"
          /\ frame'.offer = frame.offer /\ frame'.format = frame.format
      BY <2>3, <3>1, StageSet
    <3> QED BY <2>3, <3>2
  <2> QED BY <2>1, <2>2, <2>3, Zenon
<1>4. StageInv'
  BY <1>0, <1>1, <1>3 DEF StageInv, Resting
<1>5. OfferInv'
  <2>1. frame'.stage = "offering" => frame.stage = "offering"
    BY <1>3
  <2>2. Good(st, wire, 0, frame) => Good(st, wire', 0, frame')
    BY <1>2, <1>3, <2>1, Zenon
  <2> QED BY <1>0, <1>1, <1>2, <2>2, Zenon DEF OfferInv
<1>6. NoProtocolError'
  BY <1>0, <1>1 DEF NoProtocolError
<1> QED BY <1>2, <1>3, <1>4, <1>5, <1>6 DEF ProtocolInv

\* The client is between two frames.
LEMMA RestStep ==
  ASSUME ProtocolInv, pc \notin {"phase1", "roundtrip", "ended"}, pc' \in Resting,
         frame' = NoFrame \/ (frame' = frame /\ pc \in Resting),
         UNCHANGED <<wire, protocolError>>,
         \/ backend' = backend /\ st' = st
         \/ backend' # "screencopy"
         \/ StateFields(st')
  PROVE  ProtocolInv'
<1>0. /\ NoProtocolError /\ IsSequence(wire) /\ FrameFields(frame) /\ StageInv /\ OfferInv
  BY DEF ProtocolInv
<1>1. FrameFields(frame') /\ frame'.stage = "none"
  BY <1>0 DEF StageInv, NoFrame, FrameFields
<1>2. StageInv'
  BY <1>1 DEF StageInv, Resting
<1>3. NoOffers(wire)
  BY <1>0 DEF OfferInv
<1>4. StateFields(st') \/ backend' # "screencopy"
  <2>1. CASE backend' = backend /\ st' = st
    BY <1>0, <2>1 DEF OfferInv
  <2> QED BY <2>1
<1>5. OfferInv'
  <2>1. pc' # "phase1"
    BY DEF Resting
  <2>2. wire' = wire
    OBVIOUS
  <2> QED BY <1>3, <1>4, <2>1, <2>2, Zenon DEF OfferInv
<1>6. NoProtocolError' /\ IsSequence(wire')
  BY <1>0 DEF NoProtocolError
<1> QED BY <1>1, <1>2, <1>5, <1>6 DEF ProtocolInv

\* The capture ends.
LEMMA EndStep ==
  ASSUME ProtocolInv, pc' = "ended", frame' = NoFrame \/ frame' = frame,
         UNCHANGED <<wire, protocolError>>
  PROVE  ProtocolInv'
<1>0. NoProtocolError /\ IsSequence(wire) /\ FrameFields(frame)
  BY DEF ProtocolInv
<1>1. FrameFields(frame')
  BY <1>0 DEF NoFrame, FrameFields
<1>2. StageInv'
  BY DEF StageInv, Resting
<1>3. OfferInv'
  BY DEF OfferInv
<1>4. NoProtocolError' /\ IsSequence(wire')
  BY <1>0 DEF NoProtocolError
<1> QED BY <1>1, <1>2, <1>3, <1>4 DEF ProtocolInv

LEMMA ProtocolInit == Init => ProtocolInv
<1> SUFFICES ASSUME Init PROVE ProtocolInv
  OBVIOUS
<1>1. /\ wire = <<>> /\ frame = NoFrame /\ protocolError = FALSE /\ pc = "snapshot"
      /\ backend = "none"
  BY DEF Init
<1>2. IsSequence(wire) /\ NoOffers(wire)
  BY <1>1, QuietNone DEF Quiet
<1>3. FrameFields(frame) /\ frame.stage = "none"
  BY <1>1 DEF NoFrame, FrameFields
<1>4. StageInv
  BY <1>1, <1>3 DEF StageInv, Resting
<1>5. OfferInv
  BY <1>1, <1>2 DEF OfferInv
<1>6. NoProtocolError
  BY <1>1 DEF NoProtocolError
<1> QED BY <1>2, <1>3, <1>4, <1>5, <1>6 DEF ProtocolInv

LEMMA CompositorSteps ==
  ASSUME ProtocolInv, Paint \/ Resize \/ TargetCloses \/ StartCopy \/ FinishCopy
  PROVE  ProtocolInv'
<1>1. CASE Paint
  <2>1. UNCHANGED <<wire, frame, protocolError, pc, backend, st, pool>>
    BY <1>1 DEF Paint, setupVars
  <2> QED BY <2>1, QuietStep
<1>2. CASE Resize
  <2>1. UNCHANGED <<frame, protocolError, pc, backend, st, pool>>
    BY <1>2, Zenon DEF Resize, setupVars
  <2>2. wire' = wire \/ \E o : wire' = wire \o <<SizeEvent("BufferSize", o), Event("Done")>>
    BY <1>2, Zenon DEF Resize, Send
  <2>3. \A o : Quiet(<<SizeEvent("BufferSize", o), Event("Done")>>)
    <3>1. ASSUME NEW o PROVE ~Offers(SizeEvent("BufferSize", o)) /\ ~Offers(Event("Done"))
      BY OfferFree
    <3> QED BY <3>1, QuietTwo
  <2>4. wire' = wire \/ \E v : Quiet(v) /\ wire' = wire \o v
    BY <2>2, <2>3, Zenon
  <2> QED BY <2>1, <2>4, QuietStep
<1>3. CASE TargetCloses
  <2> DEFINE a == IF frame.stage \in {"none", "answered"} THEN <<>> ELSE <<Event("Failed")>>
             b == IF backend = "ext" THEN <<Event("Stopped")>> ELSE <<>>
  <2>1. UNCHANGED <<protocolError, pc, backend, st, pool>> /\ wire' = wire \o (a \o b)
    BY <1>3, Zenon DEF TargetCloses, setupVars, Send
  <2>2. Quiet(<<Event("Failed")>>) /\ Quiet(<<Event("Stopped")>>)
    <3>1. ~Offers(Event("Failed")) /\ ~Offers(Event("Stopped"))
      BY OfferFree
    <3> QED BY <3>1, QuietOne
  <2>3. Quiet(a) /\ Quiet(b)
    BY <2>2, QuietNone, Zenon
  <2> HIDE DEF a, b
  <2>4. \E v : Quiet(v) /\ wire' = wire \o v
    <3>1. Quiet(a \o b)
      BY <2>3, QuietBoth
    <3> QED BY <2>1, <3>1, Zenon
  <2>5. frame' = frame \/ (frame.stage # "none" /\ frame' = [frame EXCEPT !.stage = "answered"])
    BY <1>3, Zenon DEF TargetCloses
  <2> QED BY <2>1, <2>4, <2>5, QuietStep
<1>4. CASE StartCopy
  <2>1. frame.stage = "copying" /\ UNCHANGED <<protocolError, pc, backend, st>>
    BY <1>4, Zenon DEF StartCopy, setupVars
  <2>2. \/ wire' = wire /\ frame' = [frame EXCEPT !.stage = "writing"]
        \/ wire' = wire \o <<Event("Failed")>> /\ frame' = [frame EXCEPT !.stage = "answered"]
    BY <1>4, Zenon DEF StartCopy, Send
  <2>3. Quiet(<<Event("Failed")>>)
    <3>1. ~Offers(Event("Failed"))
      BY OfferFree
    <3> QED BY <3>1, QuietOne
  <2>4. wire' = wire \/ \E v : Quiet(v) /\ wire' = wire \o v
    BY <2>2, <2>3, Zenon
  <2>5. frame.stage # "none"
    BY <2>1
  <2> QED BY <2>1, <2>2, <2>4, <2>5, QuietStep, Zenon
<1>5. CASE FinishCopy
  <2> DEFINE t == [Event("Transform") EXCEPT !.transform = output.transform]
             d == [Event("Damage") EXCEPT !.cells = BufferDamage]
             a == IF backend = "ext" THEN <<t, d>> ELSE <<>>
  <2>1. /\ frame.stage = "writing" /\ UNCHANGED <<protocolError, pc, backend, st>>
        /\ frame' = [frame EXCEPT !.stage = "answered"]
    BY <1>5, Zenon DEF FinishCopy, setupVars
  <2>2. wire' = wire \o (a \o <<Event("Ready")>>) \/ wire' = wire \o <<Event("Failed")>>
    BY <1>5, Zenon DEF FinishCopy, Send
  <2>3. Quiet(<<Event("Failed")>>) /\ Quiet(<<Event("Ready")>>)
    <3>1. ~Offers(Event("Failed")) /\ ~Offers(Event("Ready"))
      BY OfferFree
    <3> QED BY <3>1, QuietOne
  <2>4. Quiet(a)
    <3>1. ~Offers(t) /\ ~Offers(d)
      BY OfferFree
    <3> HIDE DEF t, d
    <3>2. Quiet(<<t, d>>)
      BY <3>1, QuietTwo
    <3> QED BY <3>2, QuietNone, Zenon
  <2> HIDE DEF a
  <2>5. \E v : Quiet(v) /\ wire' = wire \o v
    <3>1. Quiet(a \o <<Event("Ready")>>)
      BY <2>3, <2>4, QuietBoth
    <3> QED BY <2>2, <2>3, <3>1, Zenon
  <2>6. frame.stage # "none" /\ frame.stage \in {"copying", "writing"}
    BY <2>1
  <2> QED BY <2>1, <2>5, <2>6, QuietStep, Zenon
<1> QED BY <1>1, <1>2, <1>3, <1>4, <1>5

LEMMA OfferStep ==
  ASSUME ProtocolInv, Offer
  PROVE  ProtocolInv'
<1>0. /\ NoProtocolError /\ IsSequence(wire) /\ FrameFields(frame) /\ StageInv /\ OfferInv
  BY DEF ProtocolInv
<1>1. frame.stage = "offering" /\ UNCHANGED <<protocolError, pc, backend, st, pool>>
  BY Zenon DEF Offer, setupVars
<1>2. PICK format :
        /\ frame' = [frame EXCEPT !.stage = "offered", !.offer = output.size,
                                  !.format = format]
        /\ wire' = wire \o <<[SizeEvent("Buffer", output.size) EXCEPT !.format = format],
                             Event("BufferDone")>>
  BY Zenon DEF Offer, Send
<1> DEFINE p == [SizeEvent("Buffer", output.size) EXCEPT !.format = format]
           q == Event("BufferDone")
<1>3. p.ev = "Buffer" /\ p.size = output.size /\ p.format = format /\ q.ev = "BufferDone"
  BY DEF SizeEvent, Event
<1>4. frame' = [stage |-> "offered", offer |-> output.size, format |-> format,
                slot |-> frame.slot]
  BY <1>0, <1>2 DEF FrameFields
<1>5. /\ FrameFields(frame') /\ frame'.stage = "offered" /\ frame'.offer = output.size
      /\ frame'.format = format
  BY <1>4 DEF FrameFields
<1>6. wire' = wire \o <<p, q>>
  BY <1>2
<1> HIDE DEF p, q
<1>7. pc \in {"phase1", "ended"}
  BY <1>0, <1>1 DEF StageInv
<1>8. IsSequence(wire')
  <2>1. IsSequence(<<p, q>>)
    <3>1. <<p, q>> \in Seq({p, q})
      OBVIOUS
    <3> QED BY <3>1, Zenon DEF IsSequence
  <2> QED BY <1>0, <1>6, <2>1, SentEvents
<1>9. pc = "phase1" => Good(st, wire', 0, frame')
  <2>1. SUFFICES ASSUME pc = "phase1" PROVE Good(st, wire', 0, frame')
    OBVIOUS
  <2>2. Good(st, wire, 0, frame)
    BY <1>0, <2>1 DEF OfferInv
  <2> QED BY <1>0, <1>1, <1>3, <1>5, <1>6, <2>2, OfferEvents
<1>10. StageInv'
  BY <1>0, <1>1, <1>5, <1>7 DEF StageInv, Resting
<1>11. OfferInv'
  BY <1>0, <1>1, <1>7, <1>9, Zenon DEF OfferInv
<1>12. NoProtocolError'
  BY <1>0, <1>1 DEF NoProtocolError
<1> QED BY <1>5, <1>8, <1>10, <1>11, <1>12 DEF ProtocolInv

\* The choice of what to capture, and the portal.
LEMMA SetupSteps ==
  ASSUME ProtocolInv,
         \/ Snapshot \/ DetectNewToplevel \/ GiveUpWindow \/ DetectBackend
         \/ SessionReady \/ SessionFails \/ PortalNewReturns \/ PortalNextFrame
         \/ PortalReceives \/ Stop
  PROVE  ProtocolInv'
<1>0. StateFields(Sc!InitialState)
  BY DEF StateFields, Sc!InitialState
<1> DEFINE Kept == UNCHANGED <<wire, frame, protocolError>>
           Rests == /\ pc \in Resting /\ pc' \in Resting
                    /\ \/ backend' = backend /\ st' = st
                       \/ backend' # "screencopy"
                       \/ StateFields(st')
<1>1. ASSUME Kept, Rests
      PROVE  ProtocolInv'
  <2>1. pc \notin {"phase1", "roundtrip", "ended"}
    BY <1>1 DEF Resting
  <2> QED BY <1>1, <2>1, RestStep, Zenon
<1>2. ASSUME Kept, pc' = "ended"
      PROVE  ProtocolInv'
  BY <1>2, EndStep, Zenon
<1>3. TryScreencopy => \/ pc' = "ended"
                       \/ pc' = "idle" /\ StateFields(st')
  BY <1>0, Zenon DEF TryScreencopy
<1>4. AfterExt => \/ pc' = "ended"
                  \/ pc' = "idle" /\ StateFields(st')
                  \/ pc' = "portal" /\ backend' = backend /\ st' = st
  BY <1>3, Zenon DEF AfterExt
<1>5. "snapshot" \in Resting /\ "spawned" \in Resting /\ "detect" \in Resting
      /\ "session" \in Resting /\ "portal" \in Resting /\ "idle" \in Resting
      /\ "recv" \in Resting
  BY DEF Resting
<1>6. CASE Snapshot
  <2>1. Kept /\ backend' = backend /\ st' = st /\ pc = "snapshot" /\ pc' \in {"spawned", "detect"}
    BY <1>6, Zenon DEF Snapshot
  <2> QED BY <1>1, <1>5, <2>1, Zenon
<1>7. CASE DetectNewToplevel
  <2>1. Kept /\ backend' = backend /\ st' = st /\ pc = "spawned" /\ pc' = "session"
    BY <1>7, Zenon DEF DetectNewToplevel
  <2> QED BY <1>1, <1>5, <2>1, Zenon
<1>8. CASE GiveUpWindow
  <2>1. Kept /\ backend' = backend /\ st' = st /\ pc = "spawned" /\ pc' = "detect"
    BY <1>8, Zenon DEF GiveUpWindow
  <2> QED BY <1>1, <1>5, <2>1, Zenon
<1>9. CASE DetectBackend
  <2>1. /\ Kept /\ pc = "detect"
        /\ (pc' = "session" /\ backend' = backend /\ st' = st) \/ AfterExt
    BY <1>9, Zenon DEF DetectBackend
  <2> QED BY <1>1, <1>2, <1>4, <1>5, <2>1, Zenon
<1>10. CASE SessionReady
  <2>1. Kept /\ pc = "session" /\ pc' = "idle" /\ backend' = "ext"
    BY <1>10, Zenon DEF SessionReady
  <2>2. backend' # "screencopy"
    BY <2>1
  <2> QED BY <1>1, <1>5, <2>1, <2>2, Zenon
<1>11. CASE SessionFails
  <2>1. /\ Kept /\ pc = "session"
        /\ (pc' = "spawned" /\ backend' = backend /\ st' = st) \/ AfterExt
    BY <1>11, Zenon DEF SessionFails
  <2> QED BY <1>1, <1>2, <1>4, <1>5, <2>1, Zenon
<1>12. CASE PortalNewReturns
  <2>1. Kept /\ pc = "portal"
    BY <1>12, Zenon DEF PortalNewReturns
  <2>2. (pc' = "idle" /\ backend' = "portal") \/ TryScreencopy
    BY <1>12, Zenon DEF PortalNewReturns
  <2>3. backend' = "portal" => backend' # "screencopy"
    OBVIOUS
  <2> QED BY <1>1, <1>2, <1>3, <1>5, <2>1, <2>2, <2>3, Zenon
<1>13. CASE PortalNextFrame
  <2>1. Kept /\ pc = "idle" /\ pc' = "recv" /\ backend' = backend /\ st' = st
    BY <1>13, Zenon DEF PortalNextFrame, clientOnly, setupVars
  <2> QED BY <1>1, <1>5, <2>1, Zenon
<1>14. CASE PortalReceives
  <2>1. Kept /\ pc = "recv" /\ pc' = "idle" /\ backend' = backend /\ st' = st
    BY <1>14, Zenon DEF PortalReceives, clientOnly, setupVars
  <2> QED BY <1>1, <1>5, <2>1, Zenon
<1>15. CASE Stop
  <2>1. Kept /\ pc' = "ended"
    BY <1>15, Zenon DEF Stop
  <2> QED BY <1>2, <2>1, Zenon
<1> QED BY <1>6, <1>7, <1>8, <1>9, <1>10, <1>11, <1>12, <1>13, <1>14, <1>15

\* The ends of next_frame that give a frame, or give up.
LEMMA FinishSteps ==
  ASSUME ProtocolInv, ExtFinishFrame \/ ScFinishFrame \/ ConnectionLost \/ Timeout
  PROVE  ProtocolInv'
<1>1. CASE ExtFinishFrame \/ ScFinishFrame
  <2>1. /\ pc \in {"wait", "phase2"} /\ frame' = NoFrame /\ backend' = backend /\ st' = st
        /\ UNCHANGED <<wire, protocolError>> /\ pc' \in {"ended", "idle"}
    BY <1>1, Zenon DEF ExtFinishFrame, ScFinishFrame, Return, clientOnly, setupVars
  <2>2. CASE pc' = "ended"
    BY <2>1, <2>2, EndStep, Zenon
  <2>3. CASE pc' = "idle"
    <3>1. pc \notin {"phase1", "roundtrip", "ended"} /\ pc' \in Resting
      BY <2>1, <2>3 DEF Resting
    <3> QED BY <2>1, <3>1, RestStep, Zenon
  <2> QED BY <2>1, <2>2, <2>3, Zenon
<1>2. CASE ConnectionLost
  <2>1. pc' = "ended" /\ frame' = frame /\ UNCHANGED <<wire, protocolError>>
    BY <1>2, Zenon DEF ConnectionLost
  <2> QED BY <2>1, EndStep, Zenon
<1>3. CASE Timeout
  <2>1. pc' = "ended" /\ frame' = NoFrame /\ UNCHANGED <<wire, protocolError>>
    BY <1>3, Zenon DEF Timeout
  <2> QED BY <2>1, EndStep, Zenon
<1> QED BY <1>1, <1>2, <1>3

LEMMA ExtNextFrameStep ==
  ASSUME ProtocolInv, ExtNextFrame
  PROVE  ProtocolInv'
<1>0. /\ NoProtocolError /\ IsSequence(wire) /\ FrameFields(frame) /\ StageInv /\ OfferInv
  BY DEF ProtocolInv
<1>1. pc = "idle" /\ backend = "ext" /\ backend' = backend /\ wire' = wire
  BY Zenon DEF ExtNextFrame, clientOnly, setupVars
<1>2. CASE pc' = "ended" /\ frame' = frame /\ protocolError' = protocolError
  BY <1>1, <1>2, EndStep, Zenon
<1>3. CASE Request("copying", pool.size, pool.active) /\ pc' = "wait"
  <2>1. frame.stage = "none"
    BY <1>0, <1>1 DEF StageInv, Resting
  <2>2. NoProtocolError'
    BY <1>0, <1>3, <2>1 DEF Request, NoProtocolError
  <2>3. FrameFields(frame') /\ frame'.stage = "copying"
    BY <1>3 DEF Request, FrameFields
  <2>4. StageInv'
    BY <1>1, <1>3, <2>3 DEF StageInv, Resting
  <2>5. OfferInv'
    BY <1>0, <1>1, <1>3 DEF OfferInv
  <2> QED BY <1>0, <1>1, <2>2, <2>3, <2>4, <2>5 DEF ProtocolInv
<1> QED BY <1>2, <1>3, Zenon DEF ExtNextFrame

LEMMA ScNextFrameStep ==
  ASSUME ProtocolInv, ScNextFrame
  PROVE  ProtocolInv'
<1>0. /\ NoProtocolError /\ IsSequence(wire) /\ FrameFields(frame) /\ StageInv /\ OfferInv
  BY DEF ProtocolInv
<1>1. pc = "idle" /\ backend = "screencopy" /\ backend' = backend /\ wire' = wire
  BY Zenon DEF ScNextFrame, clientOnly, setupVars
<1>2. CASE pc' = "ended" /\ frame' = frame /\ protocolError' = protocolError
  BY <1>1, <1>2, EndStep, Zenon
<1>3. CASE /\ ~st.stopped /\ st' = Sc!reset_frame(st)
           /\ Request("offering", NoSize, 0) /\ pc' = "phase1"
  <2>1. frame.stage = "none"
    BY <1>0, <1>1 DEF StageInv, Resting
  <2>2. NoProtocolError'
    BY <1>0, <1>3, <2>1 DEF Request, NoProtocolError
  <2>3. FrameFields(frame') /\ frame'.stage = "offering"
    BY <1>3 DEF Request, FrameFields
  <2>4. StageInv'
    BY <1>1, <1>3, <2>3 DEF StageInv, Resting
  <2>5. StateFields(st) /\ NoOffers(wire)
    BY <1>0, <1>1 DEF OfferInv
  <2>6. st' = [size |-> st.size, format |-> st.format, buffer_done |-> FALSE,
               frame_ready |-> FALSE, frame_failed |-> FALSE, damage_rects |-> {},
               stopped |-> st.stopped]
    BY <1>3, <2>5 DEF StateFields, Sc!reset_frame
  <2>7. StateFields(st') /\ st'.buffer_done = FALSE /\ st'.stopped = st.stopped
    BY <2>6 DEF StateFields
  <2>8. Good(st', wire', 0, frame')
    <3>1. \A i \in (0 + 1) .. Len(wire') : ~Offers(wire'[i])
      BY <1>1, <2>5 DEF NoOffers
    <3>2. \A i \in (0 + 1) .. Len(wire') :
            wire'[i].ev # "Buffer" /\ wire'[i].ev # "BufferDone"
      BY <3>1 DEF Offers
    <3>3. ~st'.stopped /\ ~st'.buffer_done
      BY <1>3, <2>7
    <3> QED BY <3>1, <3>2, <3>3, Zenon DEF Good
  <2>9. OfferInv'
    BY <1>3, <2>7, <2>8 DEF OfferInv
  <2> QED BY <1>0, <1>1, <2>2, <2>3, <2>4, <2>9 DEF ProtocolInv
<1> QED BY <1>2, <1>3, Zenon DEF ScNextFrame

\* Whatever part of the queue is there, its events are handled.
LEMMA DispatchStep ==
  ASSUME ProtocolInv, Dispatch
  PROVE  ProtocolInv'
<1>0. /\ NoProtocolError /\ IsSequence(wire) /\ FrameFields(frame) /\ StageInv /\ OfferInv
  BY DEF ProtocolInv
<1>1. /\ pc \in {"wait", "phase1", "phase2"} /\ pc' = pc /\ backend' = backend
      /\ frame' = frame /\ protocolError' = protocolError /\ pool' = pool
  BY Zenon DEF Dispatch, clientOnly, setupVars
<1>2. PICK k \in DOMAIN wire : /\ st' = Handled(st, SubSeq(wire, 1, k))
                               /\ wire' = SubSeq(wire, k + 1, Len(wire))
  BY Zenon DEF Dispatch
<1>3. k \in 1 .. Len(wire) /\ Len(wire) \in Nat /\ k \in Nat
  BY <1>0, SequenceLength
<1>4. IsSequence(wire')
  BY <1>0, <1>2, <1>3, OtherEvents
<1>5. StageInv'
  BY <1>0, <1>1 DEF StageInv, Resting
<1>6. backend = "screencopy" => StateFields(st) /\ StateFields(st')
  <2> SUFFICES ASSUME backend = "screencopy" PROVE StateFields(st) /\ StateFields(st')
    OBVIOUS
  <2>1. StateFields(st)
    BY <1>0, <1>1 DEF OfferInv
  <2>2. DOMAIN SubSeq(wire, 1, k) = 1 .. k
    BY <1>0, <1>3, FirstEvents
  <2>3. StateFields(Handled(st, SubSeq(wire, 1, k)))
    BY <1>3, <2>1, <2>2, FieldsFold
  <2> QED BY <1>2, <2>1, <2>3
<1>7. pc # "phase1" => NoOffers(wire')
  <2> SUFFICES ASSUME pc # "phase1" PROVE NoOffers(wire')
    OBVIOUS
  <2>1. NoOffers(wire)
    BY <1>0, <1>1 DEF OfferInv
  <2> QED BY <1>0, <1>2, <1>3, <2>1, NoOffersRest
<1>8. pc = "phase1" => Good(st', wire', 0, frame')
  <2> SUFFICES ASSUME pc = "phase1" PROVE Good(st', wire', 0, frame')
    OBVIOUS
  <2>1. backend = "screencopy" /\ Good(st, wire, 0, frame)
    BY <1>0 DEF StageInv, OfferInv
  <2>2. StateFields(st)
    BY <1>6, <2>1
  <2>3. Good(Handled(st, SubSeq(wire, 1, k)), wire, k, frame)
    BY <1>0, <1>3, <2>1, <2>2, GoodFold
  <2>4. Good(st', wire, k, frame)
    BY <1>2, <2>3, Zenon
  <2>5. Good(st', SubSeq(wire, k + 1, Len(wire)), 0, frame)
    BY <1>0, <1>3, <2>4, GoodRest
  <2> QED BY <1>1, <1>2, <2>5, Zenon
<1>9. OfferInv'
  BY <1>1, <1>6, <1>7, <1>8, Zenon DEF OfferInv
<1>10. NoProtocolError' /\ FrameFields(frame')
  BY <1>0, <1>1 DEF NoProtocolError
<1> QED BY <1>4, <1>5, <1>9, <1>10 DEF ProtocolInv

\* The pool of the next copy is the one the compositor asked for.
LEMMA ScPoolStep ==
  ASSUME ProtocolInv, ScPool
  PROVE  ProtocolInv'
<1>0. /\ NoProtocolError /\ IsSequence(wire) /\ FrameFields(frame) /\ StageInv /\ OfferInv
  BY DEF ProtocolInv
<1>1. /\ pc = "phase1" /\ Sc!OfferOver(st) /\ backend' = backend /\ st' = st
      /\ wire' = wire /\ protocolError' = protocolError
  BY Zenon DEF ScPool, clientOnly, setupVars
<1>2. CASE pc' = "ended"
  <2>1. frame' = NoFrame \/ frame' = frame
    BY Zenon DEF ScPool
  <2> QED BY <1>1, <1>2, <2>1, EndStep, Zenon
<1>3. CASE pc' # "ended"
  <2>1. /\ pc' = "roundtrip" /\ frame' = frame /\ ~st.frame_failed
        /\ \/ pool' = pool /\ ~Sc!needs_new_pool(pool, st)
           \/ pool' = new(st.size, st.format)
    BY <1>3, Zenon DEF ScPool
  <2>2. pool'.size = st.size /\ pool'.format = st.format
    <3>1. CASE pool' = pool /\ ~Sc!needs_new_pool(pool, st)
      BY <3>1 DEF Sc!needs_new_pool
    <3>2. CASE pool' = new(st.size, st.format)
      BY <3>2 DEF new
    <3> QED BY <2>1, <3>1, <3>2
  <2>3. Good(st, wire, 0, frame) /\ StateFields(st) /\ backend = "screencopy"
    BY <1>0, <1>1 DEF StageInv, OfferInv
  <2>4. st.buffer_done /\ Offered(st, frame) /\ frame.stage # "offering"
    BY <1>1, <2>1, <2>3, Zenon DEF Good, Sc!OfferOver
  <2>5. st.size = frame.offer /\ st.format = frame.format
    BY <2>1, <2>4, Zenon DEF Offered
  <2>6. frame.stage \in {"offered", "answered"}
    BY <1>0, <1>1, <2>4 DEF StageInv
  <2>7. StageInv'
    BY <1>1, <2>1, <2>2, <2>3, <2>5, <2>6 DEF StageInv, Resting
  <2>8. OfferInv'
    BY <1>1, <2>1, <2>3 DEF OfferInv
  <2> QED BY <1>0, <1>1, <2>1, <2>7, <2>8 DEF ProtocolInv, NoProtocolError
<1> QED BY <1>2, <1>3

LEMMA ScCopyStep ==
  ASSUME ProtocolInv, ScCopy
  PROVE  ProtocolInv'
<1>0. /\ NoProtocolError /\ IsSequence(wire) /\ FrameFields(frame) /\ StageInv /\ OfferInv
  BY DEF ProtocolInv
<1>1. /\ pc = "roundtrip" /\ pc' = "phase2" /\ backend' = backend /\ wire' = <<>>
      /\ st' = Handled(st, wire)
      /\ protocolError' = (protocolError \/ pool.size # frame.offer
                                         \/ pool.format # frame.format)
  BY Zenon DEF ScCopy, clientOnly, setupVars
<1>2. /\ pool.size = frame.offer /\ pool.format = frame.format
      /\ frame.stage \in {"offered", "answered"} /\ backend = "screencopy"
  BY <1>0, <1>1 DEF StageInv
<1>3. NoProtocolError'
  BY <1>0, <1>1, <1>2, Zenon DEF NoProtocolError
<1>4. FrameFields(frame') /\ frame'.stage \in {"copying", "answered"}
  <2> DEFINE x == IF frame.stage = "offered" THEN "copying" ELSE frame.stage
             y == pool.active
  <2>1. frame' = [frame EXCEPT !.slot = y, !.stage = x]
    BY Zenon DEF ScCopy
  <2>2. x \in {"copying", "answered"}
    BY <1>2
  <2> HIDE DEF x, y
  <2>3. frame' = [stage |-> x, offer |-> frame.offer, format |-> frame.format, slot |-> y]
    BY <1>0, <2>1 DEF FrameFields
  <2> QED BY <2>2, <2>3 DEF FrameFields
<1>5. IsSequence(wire') /\ NoOffers(wire')
  BY <1>1, QuietNone DEF Quiet
<1>6. StageInv'
  BY <1>1, <1>2, <1>4 DEF StageInv, Resting
<1>7. StateFields(st')
  <2>1. StateFields(st)
    BY <1>0, <1>1, <1>2 DEF OfferInv
  <2>2. Len(wire) \in Nat /\ DOMAIN wire = 1 .. Len(wire)
    BY <1>0, SequenceLength
  <2>3. StateFields(Handled(st, wire))
    BY <1>2, <2>1, <2>2, FieldsFold
  <2> QED BY <1>1, <2>3
<1>8. OfferInv'
  BY <1>1, <1>5, <1>7 DEF OfferInv
<1> QED BY <1>3, <1>4, <1>5, <1>6, <1>8 DEF ProtocolInv

LEMMA ProtocolStep == ProtocolInv /\ [Next]_vars => ProtocolInv'
<1> SUFFICES ASSUME ProtocolInv, [Next]_vars PROVE ProtocolInv'
  OBVIOUS
<1>1. CASE WindowOpens \/ WindowNamed \/ WindowCloses
  <2>1. UNCHANGED <<wire, frame, protocolError, pc, backend, st, pool>>
    BY <1>1, Zenon DEF WindowOpens, WindowNamed, WindowCloses, setupVars
  <2> QED BY <2>1, QuietStep
<1>2. CASE PortalHandshake \/ PortalPipeline \/ PortalSample \/ PortalStops
  <2>1. UNCHANGED <<wire, frame, protocolError, pc, backend, st, pool>>
    BY <1>2, Zenon DEF PortalHandshake, PortalPipeline, PortalThread, PortalSample,
       PortalStops, clientOnly, setupVars
  <2> QED BY <2>1, QuietStep
<1>3. CASE PortalNoSample \/ Done \/ UNCHANGED vars
  <2>1. UNCHANGED <<wire, frame, protocolError, pc, backend, st, pool>>
    BY <1>3, Zenon DEF PortalNoSample, Done, vars, setupVars
  <2> QED BY <2>1, QuietStep
<1>4. CASE \/ Snapshot \/ DetectNewToplevel \/ GiveUpWindow \/ DetectBackend
           \/ SessionReady \/ SessionFails \/ PortalNewReturns \/ PortalNextFrame
           \/ PortalReceives \/ Stop
  BY <1>4, SetupSteps, Zenon
<1>5. CASE Paint \/ Resize \/ TargetCloses \/ StartCopy \/ FinishCopy
  BY <1>5, CompositorSteps, Zenon
<1>6. CASE Offer
  BY <1>6, OfferStep, Zenon
<1>7. CASE ExtFinishFrame \/ ScFinishFrame \/ ConnectionLost \/ Timeout
  BY <1>7, FinishSteps, Zenon
<1>8. CASE ExtNextFrame
  BY <1>8, ExtNextFrameStep, Zenon
<1>9. CASE ScNextFrame
  BY <1>9, ScNextFrameStep, Zenon
<1>10. CASE Dispatch
  BY <1>10, DispatchStep, Zenon
<1>11. CASE ScPool
  BY <1>11, ScPoolStep, Zenon
<1>12. CASE ScCopy
  BY <1>12, ScCopyStep, Zenon
<1> QED BY <1>1, <1>2, <1>3, <1>4, <1>5, <1>6, <1>7, <1>8, <1>9, <1>10, <1>11,
           <1>12, Zenon DEF Next

\* Whatever the compositor does between two requests of next_frame, and
\* however its events are cut up by the socket, the client never has two frame
\* objects at once and never hands `copy` a buffer of another size, stride or
\* format than the compositor offered for this frame, also when the pool is
\* one of an earlier frame.
THEOREM ProtocolIsKept == Spec => []NoProtocolError
<1>1. ProtocolInv => NoProtocolError
  BY DEF ProtocolInv
<1> QED BY ProtocolInit, ProtocolStep, <1>1, PTL DEF Spec

-----------------------------------------------------------------------------
(* Rows and columns *)

LEMMA RowsOrdered ==
  ASSUME NEW a \in Nat, NEW b \in Nat, NEW s \in Nat, a <= b
  PROVE  a * s <= b * s
  OBVIOUS

LEMMA ProductIsNat ==
  ASSUME NEW a \in Nat, NEW b \in Nat
  PROVE  a * b \in Nat /\ a * b = b * a
  OBVIOUS

LEMMA Division ==
  ASSUME NEW x \in Nat, NEW s \in Nat \ {0}
  PROVE  /\ x \div s \in Nat /\ x % s \in 0 .. s - 1
         /\ x = (x \div s) * s + (x % s)
<1>1. x \div s \in Int /\ x % s \in 0 .. s - 1 /\ x = s * (x \div s) + (x % s)
  OBVIOUS
<1> DEFINE q == x \div s
           r == x % s
<1> HIDE DEF q, r
<1>2. q \in Int /\ r \in Nat /\ r < s /\ x = s * q + r
  BY <1>1 DEF q, r
<1>3. q >= 0
  <2> SUFFICES ASSUME q <= -1 PROVE FALSE
    BY <1>2
  <2>1. s * q <= s * (-1)
    BY <1>2
  <2> QED BY <1>2, <2>1
<1>4. s * q = q * s
  BY <1>2
<1> QED BY <1>1, <1>2, <1>3, <1>4 DEF q, r

\* A number has one row and one column.
LEMMA RowColumn ==
  ASSUME NEW q \in Nat, NEW s \in Nat \ {0}, NEW r \in 0 .. s - 1
  PROVE  (q * s + r) \div s = q /\ (q * s + r) % s = r
<1> DEFINE x == q * s + r
           d == x \div s
           m == x % s
<1>0. x \in Nat
  BY ProductIsNat
<1> HIDE DEF x
<1>1. d \in Nat /\ m \in 0 .. s - 1 /\ x = d * s + m
  BY <1>0, Division
<1> HIDE DEF d, m
<1>2. d * s + m = q * s + r
  BY <1>1 DEF x
<1>3. ~(d < q)
  <2> SUFFICES ASSUME d < q PROVE FALSE
    OBVIOUS
  <2>1. (d + 1) * s <= q * s
    <3>1. d + 1 \in Nat /\ d + 1 <= q
      BY <1>1
    <3> QED BY <3>1, RowsOrdered
  <2>2. (d + 1) * s = d * s + s
    BY <1>1
  <2>3. d * s \in Nat /\ q * s \in Nat
    BY <1>1, ProductIsNat
  <2> QED BY <1>1, <1>2, <2>1, <2>2, <2>3
<1>4. ~(q < d)
  <2> SUFFICES ASSUME q < d PROVE FALSE
    OBVIOUS
  <2>1. (q + 1) * s <= d * s
    <3>1. q + 1 \in Nat /\ q + 1 <= d
      BY <1>1
    <3> QED BY <1>1, <3>1, RowsOrdered
  <2>2. (q + 1) * s = q * s + s
    OBVIOUS
  <2>3. d * s \in Nat /\ q * s \in Nat
    BY <1>1, ProductIsNat
  <2> QED BY <1>1, <1>2, <2>1, <2>2, <2>3
<1>5. d = q
  BY <1>1, <1>3, <1>4
<1>6. m = r
  <2>1. q * s \in Nat
    BY ProductIsNat
  <2> QED BY <1>1, <1>2, <1>5, <2>1
<1> QED BY <1>5, <1>6 DEF d, m, x

\* The place of a row and a column in a buffer of h rows.
LEMMA PlaceInBuffer ==
  ASSUME NEW s \in Nat \ {0}, NEW h \in Nat \ {0}, NEW r \in 0 .. h - 1, NEW k \in 0 .. s - 1
  PROVE  /\ r * s + k + 1 \in 1 .. s * h
         /\ (r * s + k + 1) - 1 = r * s + k
<1>1. r * s \in Nat /\ s * h \in Nat /\ h * s = s * h
  BY ProductIsNat
<1>2. (r + 1) * s <= h * s
  <2>1. r + 1 \in Nat /\ r + 1 <= h
    OBVIOUS
  <2> QED BY <2>1, RowsOrdered
<1>3. (r + 1) * s = r * s + s
  OBVIOUS
<1> QED BY <1>1, <1>2, <1>3

\* The row and the column of a cell of the picture.
LEMMA CellPlace ==
  ASSUME NEW w \in Nat \ {0}, NEW h \in Nat \ {0}, NEW c \in 1 .. w * h
  PROVE  /\ (c - 1) \div w \in 0 .. h - 1 /\ (c - 1) % w \in 0 .. w - 1
         /\ c = 1 + (((c - 1) \div w) * w + ((c - 1) % w))
<1> DEFINE x == c - 1
           r == x \div w
           k == x % w
<1>0. w * h \in Nat /\ w * h = h * w
  BY ProductIsNat
<1>1. x \in Nat /\ x < w * h /\ c = 1 + x
  BY <1>0
<1>2. r \in Nat /\ k \in 0 .. w - 1 /\ x = r * w + k
  <2> HIDE DEF x
  <2> QED BY <1>1, Division
<1> HIDE DEF x, r, k
<1>3. r < h
  <2> SUFFICES ASSUME h <= r PROVE FALSE
    BY <1>2
  <2>1. h * w <= r * w
    BY <1>2, RowsOrdered
  <2>2. r * w \in Nat
    BY <1>2, ProductIsNat
  <2> QED BY <1>0, <1>1, <1>2, <2>1, <2>2
<1>4. r \in 0 .. h - 1
  BY <1>2, <1>3
<1>5. c = 1 + (r * w + k)
  BY <1>1, <1>2
<1> QED BY <1>2, <1>4, <1>5 DEF r, k, x

LEMMA RowsOf ==
  ASSUME NEW s \in Nat \ {0}, NEW h \in Nat \ {0}
  PROVE  (s * h) \div h = s /\ (s * h) \div s = h
<1>1. (s * h + 0) \div h = s
  BY RowColumn
<1>2. (h * s + 0) \div s = h
  BY RowColumn
<1>3. s * h + 0 = s * h /\ h * s + 0 = s * h
  BY ProductIsNat
<1> QED BY <1>1, <1>2, <1>3

-----------------------------------------------------------------------------
(* Buffers and what they show *)

\* Memory for n pixels.
Buffer(data, n) == IsSequence(data) /\ Len(data) = n

LEMMA BufferOf ==
  ASSUME NEW n \in Nat, NEW f, f = [i \in 1 .. n |-> f[i]]
  PROVE  Buffer(f, n)
<1> DEFINE S == {f[i] : i \in 1 .. n}
<1>1. \A i \in 1 .. n : f[i] \in S
  OBVIOUS
<1>2. f \in [1 .. n -> S]
  <2> HIDE DEF S
  <2> QED BY <1>1
<1> HIDE DEF S
<1>3. f \in Seq(S) /\ Len(f) = n
  BY <1>2
<1> QED BY <1>3, Zenon DEF Buffer, IsSequence

LEMMA BufferPlaces ==
  ASSUME NEW f, NEW n \in Nat, Buffer(f, n)
  PROVE  DOMAIN f = 1 .. n /\ Len(f) = n
  BY SequenceLength DEF Buffer

\* Memory for h rows of s pixels, and a place in it.
Area(s, h, data) == s \in Nat \ {0} /\ h \in Nat \ {0} /\ Buffer(data, s * h)
Place(s, h, r, k) == r \in 0 .. h - 1 /\ k \in 0 .. s - 1
At(s, r, k) == r * s + k + 1

\* The rows upside down.
LEMMA Flipped ==
  ASSUME NEW s, NEW h, NEW data, Area(s, h, data), NEW r, NEW k, Place(s, h, r, k)
  PROVE  /\ Area(s, h, Ext!flip_rows(data, s))
         /\ Ext!flip_rows(data, s)[At(s, r, k)] = data[At(s, h - 1 - r, k)]
<1> DEFINE n == s * h
           e(i) == LET row == (i - 1) \div s
                   IN IF row < h THEN data[(h - 1 - row) * s + ((i - 1) % s) + 1]
                      ELSE data[i]
           f == Ext!flip_rows(data, s)
<1> s \in Nat \ {0} /\ h \in Nat \ {0} /\ Buffer(data, s * h)
    /\ r \in 0 .. h - 1 /\ k \in 0 .. s - 1
  BY DEF Area, Place
<1>0. n \in Nat
  BY ProductIsNat
<1>1. DOMAIN data = 1 .. n /\ Len(data) = n /\ n \div s = h
  BY <1>0, BufferPlaces, RowsOf
<1>2. f = [i \in 1 .. n |-> e(i)]
  BY <1>1 DEF Ext!flip_rows
<1>3. f[r * s + k + 1] = data[(h - 1 - r) * s + k + 1]
  <2> DEFINE i == r * s + k + 1
  <2>1. i \in 1 .. n /\ i - 1 = r * s + k
    BY PlaceInBuffer
  <2>2. (i - 1) \div s = r /\ (i - 1) % s = k
    <3>1. r \in Nat
      OBVIOUS
    <3> QED BY <2>1, <3>1, RowColumn
  <2> HIDE DEF i
  <2>3. f[i] = e(i)
    BY <1>2, <2>1, Zenon
  <2>4. e(i) = data[(h - 1 - r) * s + k + 1]
    <3>1. r < h
      OBVIOUS
    <3> QED BY <2>2, <3>1, Zenon
  <2> QED BY <2>3, <2>4 DEF i
<1> HIDE DEF e, f, n
<1>4. f = [i \in 1 .. n |-> f[i]]
  BY <1>2
<1>5. Buffer(f, n)
  BY <1>0, <1>4, BufferOf
<1> QED BY <1>3, <1>5, Zenon DEF f, n, Area, At

\* Every row from right to left.
LEMMA Mirrored ==
  ASSUME NEW s, NEW h, NEW data, Area(s, h, data), NEW r, NEW k, Place(s, h, r, k)
  PROVE  /\ Area(s, h, Ext!mirror_rows(data, s))
         /\ Ext!mirror_rows(data, s)[At(s, r, k)] = data[At(s, r, s - 1 - k)]
<1> DEFINE n == s * h
           e(i) == LET row == (i - 1) \div s
                   IN IF row < Len(data) \div s
                      THEN data[row * s + s - ((i - 1) % s)] ELSE data[i]
           f == Ext!mirror_rows(data, s)
<1> s \in Nat \ {0} /\ h \in Nat \ {0} /\ Buffer(data, s * h)
    /\ r \in 0 .. h - 1 /\ k \in 0 .. s - 1
  BY DEF Area, Place
<1>0. n \in Nat
  BY ProductIsNat
<1>1. DOMAIN data = 1 .. n /\ Len(data) = n /\ n \div s = h
  BY <1>0, BufferPlaces, RowsOf
<1>2. f = [i \in 1 .. n |-> e(i)]
  BY <1>1, Zenon DEF Ext!mirror_rows
<1>3. f[r * s + k + 1] = data[r * s + (s - 1 - k) + 1]
  <2> DEFINE i == r * s + k + 1
  <2>1. i \in 1 .. n /\ i - 1 = r * s + k
    BY PlaceInBuffer
  <2>2. (i - 1) \div s = r /\ (i - 1) % s = k
    <3>1. r \in Nat
      OBVIOUS
    <3> QED BY <2>1, <3>1, RowColumn
  <2> HIDE DEF i
  <2>3. f[i] = e(i)
    BY <1>2, <2>1, Zenon
  <2>4. e(i) = data[r * s + s - k]
    <3>1. r < h
      OBVIOUS
    <3>2. Len(data) \div s = h
      BY <1>1
    <3> QED BY <2>2, <3>1, <3>2, Zenon
  <2>5. r * s + s - k = r * s + (s - 1 - k) + 1
    <3>1. r * s \in Nat
      BY ProductIsNat
    <3> QED BY <3>1
  <2> QED BY <2>3, <2>4, <2>5 DEF i
<1> HIDE DEF e, f, n
<1>4. f = [i \in 1 .. n |-> f[i]]
  BY <1>2
<1>5. Buffer(f, n)
  BY <1>0, <1>4, BufferOf
<1> QED BY <1>3, <1>5, Zenon DEF f, n, Area, At

\* A buffer shows the picture p under a transform.
Shows(data, size, t, p) ==
  \A r \in 0 .. Height(size) - 1, k \in 0 .. Width(size) - 1 :
    data[r * Stride(size) + k + 1] = p[SourceCell(size, t, r, k)]

\* The sizes that compositors offer.
GoodSize(size) ==
  /\ Width(size) \in Nat \ {0} /\ Height(size) \in Nat \ {0}
  /\ Stride(size) \in Nat /\ Stride(size) >= Width(size)

\* What next_frame of ext undoes: where it takes a pixel from.
UndoRow(t, h, r) == IF t \in {2, 6} THEN h - 1 - r ELSE r
UndoColumn(t, w, k) == IF t \in {2, 4} THEN w - 1 - k ELSE k

LEMMA Undone ==
  ASSUME NEW w, NEW h, NEW data, Area(w, h, data), NEW t \in {0, 2, 4, 6},
         NEW r, NEW k, Place(w, h, r, k)
  PROVE  Ext!undo_transform(data, w, t)[At(w, r, k)]
           = data[At(w, UndoRow(t, h, r), UndoColumn(t, w, k))]
<1> DEFINE u == Ext!undo_transform(data, w, t)
           f == Ext!flip_rows(data, w)
           a == h - 1 - r
           b == w - 1 - k
<1>1. Place(w, h, r, b)
  BY DEF Place, Area
<1>2. /\ Area(w, h, f)
      /\ f[At(w, r, k)] = data[At(w, a, k)]
      /\ f[At(w, r, b)] = data[At(w, a, b)]
  BY <1>1, Flipped
<1>3. Ext!mirror_rows(data, w)[At(w, r, k)] = data[At(w, r, b)]
  BY Mirrored
<1> HIDE DEF f
<1>4. Ext!mirror_rows(f, w)[At(w, r, k)] = f[At(w, r, b)]
  BY <1>2, Mirrored
<1> HIDE DEF u, a, b
<1>5. CASE t = 0
  <2>1. u = data /\ UndoRow(t, h, r) = r /\ UndoColumn(t, w, k) = k
    BY <1>5 DEF u, Ext!undo_transform, UndoRow, UndoColumn
  <2> QED BY <2>1 DEF u
<1>6. CASE t = 2
  <2>1. u = Ext!mirror_rows(f, w) /\ UndoRow(t, h, r) = a /\ UndoColumn(t, w, k) = b
    BY <1>6 DEF u, f, a, b, Ext!undo_transform, UndoRow, UndoColumn
  <2> QED BY <1>2, <1>4, <2>1 DEF u
<1>7. CASE t = 4
  <2>1. u = Ext!mirror_rows(data, w) /\ UndoRow(t, h, r) = r /\ UndoColumn(t, w, k) = b
    BY <1>7 DEF u, b, Ext!undo_transform, UndoRow, UndoColumn
  <2> QED BY <1>3, <2>1 DEF u
<1>8. CASE t = 6
  <2>1. u = f /\ UndoRow(t, h, r) = a /\ UndoColumn(t, w, k) = k
    BY <1>8 DEF u, f, a, Ext!undo_transform, UndoRow, UndoColumn
  <2> QED BY <1>2, <2>1 DEF u
<1> QED BY <1>5, <1>6, <1>7, <1>8

LEMMA UndoSource ==
  ASSUME NEW size, GoodSize(size), NEW t \in {0, 2, 4, 6},
         NEW r \in 0 .. Height(size) - 1, NEW k \in 0 .. Width(size) - 1
  PROVE  /\ UndoRow(t, Height(size), r) \in 0 .. Height(size) - 1
         /\ UndoColumn(t, Width(size), k) \in 0 .. Width(size) - 1
         /\ SourceCell(size, t, UndoRow(t, Height(size), r), UndoColumn(t, Width(size), k))
              = SourceCell(size, 0, r, k)
<1> DEFINE w == Width(size)
           h == Height(size)
           a == h - 1 - r
           b == w - 1 - k
<1>0. w \in Nat \ {0} /\ h \in Nat \ {0}
  BY DEF GoodSize
<1>1. a \in 0 .. h - 1 /\ b \in 0 .. w - 1 /\ h - 1 - a = r /\ w - 1 - b = k
  BY <1>0
<1> HIDE DEF a, b
<1>2. CASE t = 0
  BY <1>2 DEF UndoRow, UndoColumn
<1>3. CASE t = 2
  BY <1>1, <1>3 DEF UndoRow, UndoColumn, SourceCell, a, b
<1>4. CASE t = 4
  BY <1>1, <1>4 DEF UndoRow, UndoColumn, SourceCell, a, b
<1>5. CASE t = 6
  BY <1>1, <1>5 DEF UndoRow, UndoColumn, SourceCell, a, b
<1> QED BY <1>2, <1>3, <1>4, <1>5

LEMMA UndoShows ==
  ASSUME NEW size, GoodSize(size), Stride(size) = Width(size), NEW t \in {0, 2, 4, 6},
         NEW p, NEW data, Buffer(data, Bytes(size)), Shows(data, size, t, p)
  PROVE  Shows(Ext!undo_transform(data, Stride(size), t), size, 0, p)
<1> DEFINE w == Width(size)
           h == Height(size)
           u == Ext!undo_transform(data, w, t)
<1>0. w \in Nat \ {0} /\ h \in Nat \ {0} /\ Stride(size) = w /\ Bytes(size) = w * h
  BY DEF GoodSize, Bytes
<1>1. Area(w, h, data)
  BY <1>0 DEF Area
<1>2. ASSUME NEW r \in 0 .. h - 1, NEW k \in 0 .. w - 1
      PROVE  u[r * w + k + 1] = p[SourceCell(size, 0, r, k)]
  <2> DEFINE a == UndoRow(t, h, r)
             b == UndoColumn(t, w, k)
  <2>1. a \in 0 .. h - 1 /\ b \in 0 .. w - 1
        /\ SourceCell(size, t, a, b) = SourceCell(size, 0, r, k)
    BY UndoSource
  <2> HIDE DEF w, h
  <2>2. u[At(w, r, k)] = data[At(w, a, b)]
    <3>1. Place(w, h, r, k)
      BY DEF Place
    <3> QED BY <1>1, <3>1, Undone
  <2> HIDE DEF a, b, u
  <2>3. data[a * Stride(size) + b + 1] = p[SourceCell(size, t, a, b)]
    BY <2>1, Zenon DEF Shows, w, h
  <2> QED BY <1>0, <2>1, <2>2, <2>3 DEF At
<1> HIDE DEF u, w, h
<1> QED BY <1>0, <1>2, Zenon DEF Shows, u, w, h

\* A consumer sees the picture.
LEMMA DecodedShows ==
  ASSUME NEW f, GoodSize(f.size), NEW p, p = [c \in Cells(f.size) |-> p[c]],
         Shows(f.data, f.size, 0, p)
  PROVE  Decoded(f) = p
<1> DEFINE w == Width(f.size)
           h == Height(f.size)
           s == Stride(f.size)
           d(c) == f.data[((c - 1) \div w) * s + ((c - 1) % w) + 1]
<1>0. w \in Nat \ {0} /\ h \in Nat \ {0} /\ Cells(f.size) = 1 .. w * h
  BY DEF GoodSize, Cells
<1>1. Decoded(f) = [c \in Cells(f.size) |-> d(c)]
  BY DEF Decoded
<1>2. ASSUME NEW c \in Cells(f.size)
      PROVE  d(c) = p[c]
  <2> DEFINE r == (c - 1) \div w
             k == (c - 1) % w
  <2>1. r \in 0 .. h - 1 /\ k \in 0 .. w - 1 /\ c = 1 + (r * w + k)
    BY <1>0, CellPlace
  <2> HIDE DEF r, k
  <2>2. f.data[r * s + k + 1] = p[SourceCell(f.size, 0, r, k)]
    BY <2>1, Zenon DEF Shows
  <2>3. SourceCell(f.size, 0, r, k) = 1 + (r * w + k)
    BY DEF SourceCell
  <2> QED BY <2>1, <2>2, <2>3 DEF r, k
<1> HIDE DEF d
<1> QED BY <1>1, <1>2

\* What the compositor writes.
LEMMA RenderShows ==
  ASSUME GoodSize(output.size), NEW size, GoodSize(size), NEW STATE old,
         Buffer(old, Bytes(size)),
         Width(size) = Width(output.size), Height(size) = Height(output.size)
  PROVE  /\ Buffer(Render(old), Bytes(size))
         /\ Shows(Render(old), size, BufferTransform, output.picture)
<1> DEFINE w == Width(size)
           h == Height(size)
           s == Stride(size)
           n == s * h
           e(i) == LET row == (i - 1) \div s
                       col == (i - 1) % s
                   IN IF col < w
                      THEN output.picture[SourceCell(output.size, BufferTransform, row, col)]
                      ELSE old[i]
           f == Render(old)
<1>0. w \in Nat \ {0} /\ h \in Nat \ {0} /\ s \in Nat \ {0} /\ s >= w /\ Bytes(size) = n
  BY DEF GoodSize, Bytes
<1>1. n \in Nat /\ n \div h = s
  BY <1>0, ProductIsNat, RowsOf
<1>2. DOMAIN old = 1 .. n /\ Len(old) = n
  BY <1>0, <1>1, BufferPlaces
<1>3. f = [i \in 1 .. n |-> e(i)]
  <2>1. Len(old) \div Height(output.size) = s
    BY <1>1, <1>2
  <2> QED BY <1>2, <2>1, Zenon DEF Render
<1>4. ASSUME NEW r \in 0 .. h - 1, NEW k \in 0 .. w - 1
      PROVE  f[r * s + k + 1] = output.picture[SourceCell(size, BufferTransform, r, k)]
  <2> DEFINE i == r * s + k + 1
  <2>0. k \in 0 .. s - 1 /\ r \in Nat
    BY <1>0
  <2>1. i \in 1 .. n /\ i - 1 = r * s + k
    BY <1>0, <2>0, PlaceInBuffer
  <2>2. (i - 1) \div s = r /\ (i - 1) % s = k
    <3>1. (r * s + k) \div s = r /\ (r * s + k) % s = k
      BY <1>0, <2>0, RowColumn, Zenon
    <3> QED BY <2>1, <3>1, Zenon
  <2> HIDE DEF i
  <2>3. f[i] = e(i)
    BY <1>3, <2>1, Zenon
  <2>4. k < w
    BY <1>0
  <2>5. e(i) = output.picture[SourceCell(output.size, BufferTransform, r, k)]
    BY <2>2, <2>4, Zenon
  <2>6. SourceCell(output.size, BufferTransform, r, k) = SourceCell(size, BufferTransform, r, k)
    BY Zenon DEF SourceCell
  <2> QED BY <2>3, <2>5, <2>6 DEF i
<1> HIDE DEF e, f, n
<1>5. f = [i \in 1 .. n |-> f[i]]
  BY <1>3
<1>6. Buffer(f, n)
  BY <1>1, <1>5, BufferOf
<1> QED BY <1>0, <1>4, <1>6, Zenon DEF f, Shows

-----------------------------------------------------------------------------
(* The events of a frame *)

\* The fields of ExtCaptureState.
ExtFields(s) ==
  s = [size |-> s.size, session_ready |-> s.session_ready, frame_ready |-> s.frame_ready,
       frame_transform |-> s.frame_transform, frame_failed |-> s.frame_failed,
       damage_rects |-> s.damage_rects, stopped |-> s.stopped]

NoneIs(w, j, ev) == \A i \in (j + 1) .. Len(w) : w[i].ev # ev

\* The frame is ready, or will be once the events of the queue are handled.
Pending(s, w, j) == s.frame_ready \/ ~NoneIs(w, j, "Ready")

\* One Ready is left of the frame at most.
Once(s, w, j) ==
  /\ s.frame_ready => NoneIs(w, j, "Ready")
  /\ \A i, m \in (j + 1) .. Len(w) : w[i].ev = "Ready" /\ w[m].ev = "Ready" => i = m

\* As long as there was no resize, the state and the queue of an ext session
\* speak of one size and one transform; ...
Steady(s, w, j, t, size) ==
  /\ s.size = size
  /\ NoneIs(w, j, "BufferSize")
  /\ \A i \in (j + 1) .. Len(w) : w[i].ev = "Transform" => w[i].transform = t

\* ... and before Ready come the transform and the damage, d at least.
Described(s, w, j, t, d) ==
  /\ s.frame_ready => s.frame_transform = t /\ d \subseteq s.damage_rects
  /\ \A i \in (j + 1) .. Len(w) :
       w[i].ev = "Ready" =>
         /\ \/ s.frame_transform = t
            \/ \E m \in (j + 1) .. Len(w) : m < i /\ w[m].ev = "Transform"
         /\ \/ d \subseteq s.damage_rects
            \/ \E m \in (j + 1) .. Len(w) :
                 m < i /\ w[m].ev = "Damage" /\ d \subseteq w[m].cells

\* The client knows the size of the buffer, and what is left of the queue does
\* not say otherwise.
Known(s, w, j, f) ==
  /\ Offered(s, f)
  /\ \A i \in (j + 1) .. Len(w) :
       w[i].ev = "Buffer" => w[i].size = f.offer /\ w[i].format = f.format


\* What one event changes in the state of ext, and in the one of screencopy.
LEMMA ExtEvent ==
  ASSUME NEW s, NEW e, ExtFields(s)
  PROVE  /\ ExtFields(Ext!event(s, e))
         /\ e.ev = "Ready" => Ext!event(s, e).frame_ready
         /\ e.ev # "Ready" => Ext!event(s, e).frame_ready = s.frame_ready
         /\ e.ev # "BufferSize" => Ext!event(s, e).size = s.size
         /\ e.ev = "Transform" => Ext!event(s, e).frame_transform = e.transform
         /\ e.ev # "Transform" => Ext!event(s, e).frame_transform = s.frame_transform
         /\ s.damage_rects \subseteq Ext!event(s, e).damage_rects
         /\ e.ev = "Damage" => e.cells \subseteq Ext!event(s, e).damage_rects
<1> DEFINE v == Ext!session_event(s, e)
           r == Ext!event(s, e)
           Rest(z, x, y, t, f, d, o) ==
             [size |-> z, session_ready |-> x, frame_ready |-> y, frame_transform |-> t,
              frame_failed |-> f, damage_rects |-> d, stopped |-> o]
<1>0. s = Rest(s.size, s.session_ready, s.frame_ready, s.frame_transform, s.frame_failed,
               s.damage_rects, s.stopped)
  BY DEF ExtFields
<1>1. r = Ext!frame_event(v, e)
  BY Zenon DEF Ext!event
<1>2. CASE e.ev \in {"BufferSize", "Done", "Stopped"}
  <2>1. v \in {[s EXCEPT !.size = <<e.size[1], e.size[2], e.size[1]>>],
               [s EXCEPT !.session_ready = TRUE], [s EXCEPT !.stopped = TRUE]}
    BY <1>2 DEF Ext!session_event
  <2>2. e.ev # "BufferSize" =>
          v \in {[s EXCEPT !.session_ready = TRUE], [s EXCEPT !.stopped = TRUE]}
    BY <1>2 DEF Ext!session_event
  <2> HIDE DEF v
  <2>3. r = v
    BY <1>1, <1>2 DEF Ext!frame_event
  <2> HIDE DEF r
  <2> DEFINE z == <<e.size[1], e.size[2], e.size[1]>>
  <2>4. v \in {Rest(z, s.session_ready, s.frame_ready, s.frame_transform, s.frame_failed,
                    s.damage_rects, s.stopped),
               Rest(s.size, TRUE, s.frame_ready, s.frame_transform, s.frame_failed,
                    s.damage_rects, s.stopped),
               Rest(s.size, s.session_ready, s.frame_ready, s.frame_transform,
                    s.frame_failed, s.damage_rects, TRUE)}
    <3> HIDE DEF z
    <3>1. v \in {[s EXCEPT !.size = z],
               [s EXCEPT !.session_ready = TRUE], [s EXCEPT !.stopped = TRUE]}
      BY <2>1 DEF z
    <3> QED BY <1>0, <3>1
  <2> HIDE DEF z
  <2>5. ExtFields(v) /\ v.frame_ready = s.frame_ready /\ v.frame_transform = s.frame_transform
        /\ v.damage_rects = s.damage_rects
    BY <2>4 DEF ExtFields
  <2>6. e.ev # "BufferSize" => v.size = s.size
    <3> SUFFICES ASSUME e.ev # "BufferSize" PROVE v.size = s.size
      OBVIOUS
    <3>1. v \in {[s EXCEPT !.session_ready = TRUE], [s EXCEPT !.stopped = TRUE]}
      BY <2>2
    <3>2. v \in {Rest(s.size, TRUE, s.frame_ready, s.frame_transform, s.frame_failed,
                    s.damage_rects, s.stopped),
                 Rest(s.size, s.session_ready, s.frame_ready, s.frame_transform,
                    s.frame_failed, s.damage_rects, TRUE)}
      BY <1>0, <3>1
    <3> QED BY <3>2
  <2> QED BY <1>2, <2>3, <2>5, <2>6 DEF r
<1>3. CASE e.ev \notin {"BufferSize", "Done", "Stopped"}
  <2>1. v = s
    BY <1>3 DEF Ext!session_event
  <2> HIDE DEF v
  <2>2. CASE e.ev = "Damage"
    <3>1. r = [s EXCEPT !.damage_rects = s.damage_rects \cup e.cells]
      BY <1>1, <2>1, <2>2 DEF Ext!frame_event
    <3> HIDE DEF r
    <3>2. r = Rest(s.size, s.session_ready, s.frame_ready, s.frame_transform,
                   s.frame_failed, s.damage_rects \cup e.cells, s.stopped)
      BY <1>0, <3>1
    <3>3. ExtFields(r) /\ r.frame_ready = s.frame_ready /\ r.frame_transform = s.frame_transform
          /\ r.size = s.size /\ r.damage_rects = s.damage_rects \cup e.cells
      BY <3>2 DEF ExtFields
    <3> QED BY <2>2, <3>3 DEF r
  <2>3. CASE e.ev = "Transform"
    <3>1. r = [s EXCEPT !.frame_transform = e.transform]
      BY <1>1, <2>1, <2>3 DEF Ext!frame_event
    <3> HIDE DEF r
    <3>2. r = Rest(s.size, s.session_ready, s.frame_ready, e.transform, s.frame_failed,
                   s.damage_rects, s.stopped)
      BY <1>0, <3>1
    <3>3. ExtFields(r) /\ r.frame_ready = s.frame_ready /\ r.frame_transform = e.transform
          /\ r.size = s.size /\ r.damage_rects = s.damage_rects
      BY <3>2 DEF ExtFields
    <3> QED BY <2>3, <3>3 DEF r
  <2>4. CASE e.ev = "Ready"
    <3>1. r = [s EXCEPT !.frame_ready = TRUE]
      BY <1>1, <2>1, <2>4 DEF Ext!frame_event
    <3> HIDE DEF r
    <3>2. r = Rest(s.size, s.session_ready, TRUE, s.frame_transform, s.frame_failed,
                   s.damage_rects, s.stopped)
      BY <1>0, <3>1
    <3>3. ExtFields(r) /\ r.frame_ready = TRUE /\ r.frame_transform = s.frame_transform
          /\ r.size = s.size /\ r.damage_rects = s.damage_rects
      BY <3>2 DEF ExtFields
    <3> QED BY <2>4, <3>3 DEF r
  <2>5. CASE e.ev \notin {"Damage", "Transform", "Ready"}
    <3>1. r \in {s, [s EXCEPT !.frame_failed = TRUE]}
      BY <1>1, <2>1, <2>5 DEF Ext!frame_event
    <3> HIDE DEF r
    <3>2. \/ r = s
          \/ r = Rest(s.size, s.session_ready, s.frame_ready, s.frame_transform, TRUE,
                      s.damage_rects, s.stopped)
      BY <1>0, <3>1
    <3>3. ExtFields(r) /\ r.frame_ready = s.frame_ready /\ r.frame_transform = s.frame_transform
          /\ r.size = s.size /\ r.damage_rects = s.damage_rects
      <4>1. ExtFields(s)
        OBVIOUS
      <4> QED BY <3>2, <4>1 DEF ExtFields
    <3> QED BY <2>5, <3>3 DEF r
  <2> QED BY <2>2, <2>3, <2>4, <2>5
<1> QED BY <1>2, <1>3

LEMMA ScEvent ==
  ASSUME NEW s, NEW e, StateFields(s)
  PROVE  /\ e.ev = "Ready" => Sc!event(s, e).frame_ready
         /\ e.ev # "Ready" => Sc!event(s, e).frame_ready = s.frame_ready
         /\ e.ev # "Damage" => Sc!event(s, e).damage_rects = s.damage_rects
<1> DEFINE r == Sc!event(s, e)
           Rest(z, f, b, y, d, c) ==
             [size |-> z, format |-> f, buffer_done |-> b, frame_ready |-> y,
              frame_failed |-> d, damage_rects |-> c, stopped |-> s.stopped]
<1>0. s = Rest(s.size, s.format, s.buffer_done, s.frame_ready, s.frame_failed, s.damage_rects)
  BY DEF StateFields
<1>1. CASE e.ev = "Ready"
  <2>1. r = [s EXCEPT !.frame_ready = TRUE]
    BY <1>1 DEF Sc!event
  <2>2. r = Rest(s.size, s.format, s.buffer_done, TRUE, s.frame_failed, s.damage_rects)
    BY <1>0, <2>1
  <2> QED BY <1>1, <2>2
<1>2. CASE e.ev = "Damage"
  <2>1. r = [s EXCEPT !.damage_rects = s.damage_rects \cup e.cells]
    BY <1>2 DEF Sc!event
  <2>2. r = Rest(s.size, s.format, s.buffer_done, s.frame_ready, s.frame_failed,
                 s.damage_rects \cup e.cells)
    BY <1>0, <2>1
  <2> QED BY <1>2, <2>2
<1>3. CASE e.ev \notin {"Ready", "Damage"}
  <2>1. r \in {[s EXCEPT !.frame_failed = TRUE], [s EXCEPT !.size = e.size, !.format = e.format],
               [s EXCEPT !.buffer_done = TRUE], s}
    BY <1>3 DEF Sc!event
  <2> HIDE DEF r
  <2>2. \/ r = Rest(s.size, s.format, s.buffer_done, s.frame_ready, TRUE, s.damage_rects)
        \/ r = Rest(e.size, e.format, s.buffer_done, s.frame_ready, s.frame_failed, s.damage_rects)
        \/ r = Rest(s.size, s.format, TRUE, s.frame_ready, s.frame_failed, s.damage_rects)
        \/ r = s
    BY <1>0, <2>1
  <2>3. r.frame_ready = s.frame_ready /\ r.damage_rects = s.damage_rects
    BY <2>2
  <2> QED BY <1>3, <2>3 DEF r
<1> QED BY <1>1, <1>2, <1>3

LEMMA NextIndex ==
  ASSUME NEW n \in Nat, NEW j \in 0 .. n, j # n, NEW k, k = j + 1
  PROVE  /\ k \in (j + 1) .. n
         /\ \A i \in (k + 1) .. n : i \in (j + 1) .. n /\ k < i
         /\ \A i \in (j + 1) .. n : i = k \/ i \in (k + 1) .. n
         /\ \A i \in (j + 1) .. n : \A m \in (j + 1) .. n : m < i => i \in (k + 1) .. n
  OBVIOUS

\* Whether the frame will be ready does not depend on how much was handled.
LEMMA ReadyEvent ==
  ASSUME NEW s, NEW r, NEW w, NEW n \in Nat, Len(w) = n, NEW j \in 0 .. n, j # n,
         NEW k, k = j + 1,
         w[k].ev = "Ready" => r.frame_ready,
         w[k].ev # "Ready" => r.frame_ready = s.frame_ready,
         Once(s, w, j)
  PROVE  Once(r, w, k) /\ (Pending(r, w, k) <=> Pending(s, w, j))
<1> DEFINE I == (j + 1) .. Len(w)
           K == (k + 1) .. Len(w)
<1>1. k \in I /\ (\A i \in K : i \in I) /\ (\A i \in I : i = k \/ i \in K) /\ k \notin K
  BY NextIndex
<1> HIDE DEF I, K
<1>2. /\ s.frame_ready => \A i \in I : w[i].ev # "Ready"
      /\ \A i, m \in I : w[i].ev = "Ready" /\ w[m].ev = "Ready" => i = m
  BY Zenon DEF Once, NoneIs, I
<1>3. r.frame_ready => \A i \in K : w[i].ev # "Ready"
  <2>1. CASE w[k].ev = "Ready"
    BY <1>1, <1>2, <2>1, Zenon
  <2>2. CASE w[k].ev # "Ready"
    BY <1>1, <1>2, <2>2, Zenon
  <2> QED BY <2>1, <2>2, Zenon
<1>4. Once(r, w, k)
  BY <1>1, <1>2, <1>3, Zenon DEF Once, NoneIs, K
<1>5. (s.frame_ready \/ \E i \in I : w[i].ev = "Ready")
        <=> (r.frame_ready \/ \E i \in K : w[i].ev = "Ready")
  <2>1. CASE w[k].ev = "Ready"
    BY <1>1, <2>1, Zenon
  <2>2. CASE w[k].ev # "Ready"
    BY <1>1, <2>2, Zenon
  <2> QED BY <2>1, <2>2, Zenon
<1> QED BY <1>4, <1>5, Zenon DEF Pending, NoneIs, I, K

\* What the queue of an ext session says of the frame; b: there was no resize.
ExtQueue(s, w, j, b, t, size, d) ==
  /\ ExtFields(s)
  /\ Once(s, w, j)
  /\ b => Steady(s, w, j, t, size) /\ Described(s, w, j, t, d)

LEMMA ExtQueueEvent ==
  ASSUME NEW s, NEW w, NEW n \in Nat, Len(w) = n, NEW j \in 0 .. n, j # n,
         NEW k, k = j + 1, NEW b, NEW t, NEW size, NEW d, ExtQueue(s, w, j, b, t, size, d)
  PROVE  /\ ExtQueue(Ext!event(s, w[k]), w, k, b, t, size, d)
         /\ Pending(Ext!event(s, w[k]), w, k) <=> Pending(s, w, j)
<1> DEFINE I == (j + 1) .. Len(w)
           K == (k + 1) .. Len(w)
           e == w[k]
           r == Ext!event(s, e)
<1>1. k \in I /\ (\A i \in K : i \in I /\ k < i) /\ \A i \in I : i = k \/ i \in K
  BY NextIndex
<1>2. \A i \in I : \A m \in I : m < i => i \in K
  BY NextIndex
<1>3. ExtFields(s) /\ Once(s, w, j)
  BY DEF ExtQueue
<1>4. /\ ExtFields(r)
      /\ e.ev = "Ready" => r.frame_ready
      /\ e.ev # "Ready" => r.frame_ready = s.frame_ready
      /\ e.ev # "BufferSize" => r.size = s.size
      /\ e.ev = "Transform" => r.frame_transform = e.transform
      /\ e.ev # "Transform" => r.frame_transform = s.frame_transform
      /\ s.damage_rects \subseteq r.damage_rects
      /\ e.ev = "Damage" => e.cells \subseteq r.damage_rects
  BY <1>3, ExtEvent, Zenon
<1> HIDE DEF r
<1>5. Once(r, w, k) /\ (Pending(r, w, k) <=> Pending(s, w, j))
  BY <1>3, <1>4, ReadyEvent
<1>6. ASSUME b
      PROVE  Steady(r, w, k, t, size) /\ Described(r, w, k, t, d)
  <2>0. Steady(s, w, j, t, size) /\ Described(s, w, j, t, d)
    BY <1>6, Zenon DEF ExtQueue
  <2> HIDE DEF e, I, K
  <2>1. /\ s.size = size
        /\ \A i \in I : w[i].ev # "BufferSize"
        /\ \A i \in I : w[i].ev = "Transform" => w[i].transform = t
    BY <2>0, Zenon DEF Steady, NoneIs, I
  <2>2. Steady(r, w, k, t, size)
    <3>1. r.size = size
      BY <1>1, <1>4, <2>1, Zenon DEF e
    <3>2. /\ \A i \in K : w[i].ev # "BufferSize"
          /\ \A i \in K : w[i].ev = "Transform" => w[i].transform = t
      BY <1>1, <2>1, Zenon
    <3> QED BY <3>1, <3>2, Zenon DEF Steady, NoneIs, K
  <2>3. s.frame_transform = t => r.frame_transform = t
    BY <1>1, <1>4, <2>1, Zenon DEF e
  <2>4. d \subseteq s.damage_rects => d \subseteq r.damage_rects
    BY <1>4, Zenon
  <2>5. /\ s.frame_ready => s.frame_transform = t /\ d \subseteq s.damage_rects
        /\ \A i \in I : w[i].ev = "Ready" =>
             /\ s.frame_transform = t
                \/ \E m \in I : m < i /\ w[m].ev = "Transform"
             /\ d \subseteq s.damage_rects
                \/ \E m \in I : m < i /\ w[m].ev = "Damage" /\ d \subseteq w[m].cells
    BY <2>0, Zenon DEF Described, I
  <2>6. ASSUME NEW i \in K, w[i].ev = "Ready"
        PROVE  /\ r.frame_transform = t
                  \/ \E m \in K : m < i /\ w[m].ev = "Transform"
               /\ d \subseteq r.damage_rects
                  \/ \E m \in K : m < i /\ w[m].ev = "Damage" /\ d \subseteq w[m].cells
    <3>1. i \in I
      BY <1>1
    <3>2. r.frame_transform = t \/ \E m \in K : m < i /\ w[m].ev = "Transform"
      <4>1. CASE s.frame_transform = t
        BY <2>3, <4>1, Zenon
      <4>2. CASE \E m \in I : m < i /\ w[m].ev = "Transform"
        <5>1. PICK m \in I : m < i /\ w[m].ev = "Transform"
          BY <4>2
        <5>2. CASE m = k
          BY <1>1, <1>4, <2>1, <5>1, <5>2, Zenon DEF e
        <5>3. CASE m \in K
          BY <5>1, <5>3, Zenon
        <5> QED BY <1>1, <5>2, <5>3, Zenon
      <4> QED BY <2>5, <2>6, <3>1, <4>1, <4>2, Zenon
    <3>3. d \subseteq r.damage_rects
            \/ \E m \in K : m < i /\ w[m].ev = "Damage" /\ d \subseteq w[m].cells
      <4>1. CASE d \subseteq s.damage_rects
        BY <2>4, <4>1, Zenon
      <4>2. CASE \E m \in I : m < i /\ w[m].ev = "Damage" /\ d \subseteq w[m].cells
        <5>1. PICK m \in I : m < i /\ w[m].ev = "Damage" /\ d \subseteq w[m].cells
          BY <4>2
        <5>2. CASE m = k
          BY <1>1, <1>4, <2>1, <5>1, <5>2, Zenon DEF e
        <5>3. CASE m \in K
          BY <5>1, <5>3, Zenon
        <5> QED BY <1>1, <5>2, <5>3, Zenon
      <4> QED BY <2>5, <2>6, <3>1, <4>1, <4>2, Zenon
    <3> QED BY <3>2, <3>3, Zenon
  <2>7. r.frame_ready => r.frame_transform = t /\ d \subseteq r.damage_rects
    <3>1. CASE e.ev = "Ready"
      <4>1. \A m \in I : ~(m < k)
        <5> SUFFICES ASSUME NEW m \in I, m < k PROVE FALSE
          OBVIOUS
        <5>1. k \in K
          BY <1>1, <1>2, Zenon
        <5>2. k < k
          BY <1>1, <5>1, Zenon
        <5> QED BY <5>2
      <4>2. s.frame_transform = t /\ d \subseteq s.damage_rects
        BY <1>1, <2>5, <3>1, <4>1, Zenon DEF e
      <4> QED BY <2>3, <2>4, <4>2, Zenon
    <3>2. CASE e.ev # "Ready"
      BY <1>4, <2>3, <2>4, <2>5, <3>2, Zenon
    <3> QED BY <3>1, <3>2, Zenon
  <2>8. Described(r, w, k, t, d)
    BY <2>6, <2>7, Zenon DEF Described, K
  <2> QED BY <2>2, <2>8
<1> QED BY <1>4, <1>5, <1>6, Zenon DEF ExtQueue, r

\* What the queue says of a screencopy frame f; b: the copy was asked for.
ScQueue(s, w, j, b, f) ==
  /\ StateFields(s)
  /\ Once(s, w, j)
  /\ NoneIs(w, j, "Damage") /\ s.damage_rects = {}
  /\ b => Known(s, w, j, f)

LEMMA ScQueueEvent ==
  ASSUME NEW s, NEW w, NEW n \in Nat, Len(w) = n, NEW j \in 0 .. n, j # n,
         NEW k, k = j + 1, NEW b, NEW f, ScQueue(s, w, j, b, f)
  PROVE  /\ ScQueue(Sc!event(s, w[k]), w, k, b, f)
         /\ Pending(Sc!event(s, w[k]), w, k) <=> Pending(s, w, j)
<1> DEFINE I == (j + 1) .. Len(w)
           K == (k + 1) .. Len(w)
           e == w[k]
           r == Sc!event(s, e)
<1>1. k \in I /\ (\A i \in K : i \in I /\ k < i) /\ \A i \in I : i = k \/ i \in K
  BY NextIndex
<1>2. StateFields(s) /\ Once(s, w, j) /\ s.damage_rects = {} /\ NoneIs(w, j, "Damage")
  BY Zenon DEF ScQueue
<1>3. /\ e.ev = "Ready" => r.frame_ready
      /\ e.ev # "Ready" => r.frame_ready = s.frame_ready
      /\ e.ev # "Damage" => r.damage_rects = s.damage_rects
  BY <1>2, ScEvent, Zenon
<1>4. /\ StateFields(r)
      /\ s.frame_failed => r.frame_failed
      /\ e.ev # "Buffer" => r.size = s.size /\ r.format = s.format
      /\ e.ev = "Buffer" => r.frame_failed \/ (r.size = e.size /\ r.format = e.format)
  BY <1>2, ScreencopyEvent, Zenon
<1> HIDE DEF r
<1>5. Once(r, w, k) /\ (Pending(r, w, k) <=> Pending(s, w, j))
  BY <1>2, <1>3, ReadyEvent
<1> HIDE DEF e, I, K
<1>6. NoneIs(w, k, "Damage") /\ r.damage_rects = {}
  <2>1. \A i \in I : w[i].ev # "Damage"
    BY <1>2, Zenon DEF NoneIs, I
  <2>2. \A i \in K : w[i].ev # "Damage"
    BY <1>1, <2>1, Zenon
  <2>3. e.ev # "Damage"
    BY <1>1, <2>1, Zenon DEF e
  <2> QED BY <1>2, <1>3, <2>2, <2>3, Zenon DEF NoneIs, K
<1>7. ASSUME b PROVE Known(r, w, k, f)
  <2>1. /\ s.frame_failed \/ (s.size = f.offer /\ s.format = f.format)
        /\ \A i \in I : w[i].ev = "Buffer" => w[i].size = f.offer /\ w[i].format = f.format
    BY <1>7, Zenon DEF ScQueue, Known, Offered, I
  <2>2. r.frame_failed \/ (r.size = f.offer /\ r.format = f.format)
    <3>1. CASE e.ev = "Buffer"
      BY <1>1, <1>4, <2>1, <3>1, Zenon DEF e
    <3>2. CASE e.ev # "Buffer"
      BY <1>4, <2>1, <3>2, Zenon
    <3> QED BY <3>1, <3>2, Zenon
  <2>3. \A i \in K : w[i].ev = "Buffer" => w[i].size = f.offer /\ w[i].format = f.format
    BY <1>1, <2>1, Zenon
  <2> QED BY <2>2, <2>3, Zenon DEF Known, Offered, K
<1> QED BY <1>4, <1>5, <1>6, <1>7, Zenon DEF ScQueue, r, e

\* The queue after some of its events were handled.
Shifted(v, w, k) ==
  /\ Len(w) \in Nat /\ k \in 0 .. Len(w) /\ Len(v) = Len(w) - k
  /\ \A i \in 1 .. Len(w) - k : v[i] = w[k + i]

\* The places of the two queues.
Places(v, w, k) ==
  /\ \A i \in (0 + 1) .. Len(v) : k + i \in (k + 1) .. Len(w) /\ v[i] = w[k + i]
  /\ \A i \in (k + 1) .. Len(w) : i - k \in (0 + 1) .. Len(v) /\ v[i - k] = w[i]
  /\ \A i, m \in (0 + 1) .. Len(v) : k + i = k + m => i = m
  /\ \A i \in (0 + 1) .. Len(v) : \A m \in (k + 1) .. Len(w) :
       m < k + i => m - k < i

LEMMA ShiftedIndex ==
  ASSUME NEW v, NEW w, NEW k, Shifted(v, w, k)
  PROVE  Places(v, w, k)
<1> DEFINE n == Len(w)
<1>0. n \in Nat /\ k \in 0 .. n /\ Len(v) = n - k /\ \A i \in 1 .. n - k : v[i] = w[k + i]
  BY DEF Shifted
<1> HIDE DEF n
<1>1. (0 + 1) .. Len(v) = 1 .. n - k
  BY <1>0
<1>2. \A i \in 1 .. n - k : k + i \in (k + 1) .. n
  BY <1>0
<1>3. \A i \in (k + 1) .. n : i - k \in 1 .. n - k /\ k + (i - k) = i
  BY <1>0
<1>4. /\ \A i, m \in 1 .. n - k : k + i = k + m => i = m
      /\ \A i \in 1 .. n - k : \A m \in (k + 1) .. n : m < k + i => m - k < i
  BY <1>0
<1> QED BY <1>0, <1>1, <1>2, <1>3, <1>4 DEF Places, n

LEMMA ShiftedReady ==
  ASSUME NEW s, NEW v, NEW w, NEW k, Shifted(v, w, k)
  PROVE  /\ \A ev : NoneIs(w, k, ev) => NoneIs(v, 0, ev)
         /\ Once(s, w, k) => Once(s, v, 0)
         /\ Pending(s, w, k) <=> Pending(s, v, 0)
<1> DEFINE I == (0 + 1) .. Len(v)
           K == (k + 1) .. Len(w)
<1>1. /\ \A i \in I : k + i \in K /\ v[i] = w[k + i]
      /\ \A i \in K : i - k \in I /\ v[i - k] = w[i]
      /\ \A i, m \in I : k + i = k + m => i = m
  <2>1. Places(v, w, k)
    BY ShiftedIndex
  <2> QED BY <2>1, Zenon DEF Places
<1> HIDE DEF I, K
<1>2. ASSUME NEW ev PROVE NoneIs(w, k, ev) => NoneIs(v, 0, ev)
  BY <1>1, Zenon DEF NoneIs, I, K
<1>3. NoneIs(v, 0, "Ready") => NoneIs(w, k, "Ready")
  BY <1>1, Zenon DEF NoneIs, I, K
<1>4. Once(s, w, k) => Once(s, v, 0)
  <2> SUFFICES ASSUME Once(s, w, k) PROVE Once(s, v, 0)
    OBVIOUS
  <2>1. /\ s.frame_ready => NoneIs(w, k, "Ready")
        /\ \A i, m \in K : w[i].ev = "Ready" /\ w[m].ev = "Ready" => i = m
    BY Zenon DEF Once, K
  <2>2. ASSUME NEW i \in I, NEW m \in I, v[i].ev = "Ready", v[m].ev = "Ready"
        PROVE  i = m
    <3>1. k + i \in K /\ k + m \in K /\ w[k + i].ev = "Ready" /\ w[k + m].ev = "Ready"
      BY <1>1, <2>2, Zenon
    <3>2. k + i = k + m
      BY <2>1, <3>1, Zenon
    <3> QED BY <1>1, <3>2, Zenon
  <2> QED BY <1>2, <2>1, <2>2, Zenon DEF Once, I
<1> QED BY <1>2, <1>3, <1>4, Zenon DEF Pending

LEMMA ExtQueueRest ==
  ASSUME NEW s, NEW v, NEW w, NEW k, Shifted(v, w, k), NEW b, NEW t, NEW size, NEW d,
         ExtQueue(s, w, k, b, t, size, d)
  PROVE  ExtQueue(s, v, 0, b, t, size, d)
<1> DEFINE I == (0 + 1) .. Len(v)
           K == (k + 1) .. Len(w)
<1>1. /\ \A i \in I : k + i \in K /\ v[i] = w[k + i]
      /\ \A i \in K : i - k \in I /\ v[i - k] = w[i]
      /\ \A i \in I : \A m \in K : m < k + i => m - k < i
  <2>1. Places(v, w, k)
    BY ShiftedIndex
  <2> QED BY <2>1, Zenon DEF Places
<1> HIDE DEF I, K
<1>2. ExtFields(s) /\ Once(s, v, 0)
  BY ShiftedReady, Zenon DEF ExtQueue
<1>3. ASSUME b
      PROVE  Steady(s, v, 0, t, size) /\ Described(s, v, 0, t, d)
  <2>0. Steady(s, w, k, t, size) /\ Described(s, w, k, t, d)
    BY <1>3, Zenon DEF ExtQueue
  <2>1. /\ s.size = size
        /\ NoneIs(w, k, "BufferSize")
        /\ \A i \in K : w[i].ev = "Transform" => w[i].transform = t
    BY <2>0, Zenon DEF Steady, K
  <2>2. NoneIs(v, 0, "BufferSize")
    BY <2>1, ShiftedReady, Zenon
  <2>3. \A i \in I : v[i].ev = "Transform" => v[i].transform = t
    BY <1>1, <2>1, Zenon
  <2>4. Steady(s, v, 0, t, size)
    BY <2>1, <2>2, <2>3, Zenon DEF Steady, I
  <2>5. /\ s.frame_ready => s.frame_transform = t /\ d \subseteq s.damage_rects
        /\ \A i \in K : w[i].ev = "Ready" =>
             /\ s.frame_transform = t
                \/ \E m \in K : m < i /\ w[m].ev = "Transform"
             /\ d \subseteq s.damage_rects
                \/ \E m \in K : m < i /\ w[m].ev = "Damage" /\ d \subseteq w[m].cells
    BY <2>0, Zenon DEF Described, K
  <2>6. ASSUME NEW i \in I, v[i].ev = "Ready"
        PROVE  /\ s.frame_transform = t
                  \/ \E m \in I : m < i /\ v[m].ev = "Transform"
               /\ d \subseteq s.damage_rects
                  \/ \E m \in I : m < i /\ v[m].ev = "Damage" /\ d \subseteq v[m].cells
    <3>1. k + i \in K /\ w[k + i].ev = "Ready"
      BY <1>1, <2>6, Zenon
    <3>2. ASSUME NEW m \in K, m < k + i
          PROVE  m - k \in I /\ m - k < i /\ v[m - k] = w[m]
      BY <1>1, <3>2, Zenon
    <3>3. /\ s.frame_transform = t
             \/ \E m \in K : m < k + i /\ w[m].ev = "Transform"
          /\ d \subseteq s.damage_rects
             \/ \E m \in K : m < k + i /\ w[m].ev = "Damage" /\ d \subseteq w[m].cells
      BY <2>5, <3>1, Zenon
    <3>4. s.frame_transform = t \/ \E m \in I : m < i /\ v[m].ev = "Transform"
      <4>1. CASE \E m \in K : m < k + i /\ w[m].ev = "Transform"
        <5>1. PICK m \in K : m < k + i /\ w[m].ev = "Transform"
          BY <4>1
        <5>2. m - k \in I /\ m - k < i /\ v[m - k] = w[m]
          BY <3>2, <5>1, Zenon
        <5> QED BY <5>1, <5>2, Zenon
      <4> QED BY <3>3, <4>1, Zenon
    <3>5. d \subseteq s.damage_rects
            \/ \E m \in I : m < i /\ v[m].ev = "Damage" /\ d \subseteq v[m].cells
      <4>1. CASE \E m \in K : m < k + i /\ w[m].ev = "Damage" /\ d \subseteq w[m].cells
        <5>1. PICK m \in K : m < k + i /\ w[m].ev = "Damage" /\ d \subseteq w[m].cells
          BY <4>1
        <5>2. m - k \in I /\ m - k < i /\ v[m - k] = w[m]
          BY <3>2, <5>1, Zenon
        <5> QED BY <5>1, <5>2, Zenon
      <4> QED BY <3>3, <4>1, Zenon
    <3> QED BY <3>4, <3>5, Zenon
  <2>7. Described(s, v, 0, t, d)
    BY <2>5, <2>6, Zenon DEF Described, I
  <2> QED BY <2>4, <2>7
<1> QED BY <1>2, <1>3, Zenon DEF ExtQueue

LEMMA ScQueueRest ==
  ASSUME NEW s, NEW v, NEW w, NEW k, Shifted(v, w, k), NEW b, NEW f,
         ScQueue(s, w, k, b, f)
  PROVE  ScQueue(s, v, 0, b, f)
<1> DEFINE I == (0 + 1) .. Len(v)
           K == (k + 1) .. Len(w)
<1>1. \A i \in I : k + i \in K /\ v[i] = w[k + i]
  <2>1. Places(v, w, k)
    BY ShiftedIndex
  <2> QED BY <2>1, Zenon DEF Places
<1> HIDE DEF I, K
<1>2. /\ StateFields(s) /\ Once(s, v, 0) /\ NoneIs(v, 0, "Damage") /\ s.damage_rects = {}
  BY ShiftedReady, Zenon DEF ScQueue
<1>3. ASSUME b PROVE Known(s, v, 0, f)
  <2>1. /\ Offered(s, f)
        /\ \A i \in K : w[i].ev = "Buffer" => w[i].size = f.offer /\ w[i].format = f.format
    BY <1>3, Zenon DEF ScQueue, Known, K
  <2>2. \A i \in I : v[i].ev = "Buffer" => v[i].size = f.offer /\ v[i].format = f.format
    BY <1>1, <2>1, Zenon
  <2> QED BY <2>1, <2>2, Zenon DEF Known, I
<1> QED BY <1>2, <1>3, Zenon DEF ScQueue

\* Any first events of the queue are handled.
FirstOf(v, w, k) ==
  /\ Len(w) \in Nat /\ k \in 0 .. Len(w)
  /\ DOMAIN v = 1 .. k /\ \A i \in 1 .. k : v[i] = w[i]

LEMMA ExtPrefix ==
  ASSUME backend = "ext", NEW STATE v, NEW STATE w, NEW STATE k, FirstOf(v, w, k),
         NEW STATE b, NEW STATE t, NEW STATE size, NEW STATE d,
         ExtQueue(st, w, 0, b, t, size, d)
  PROVE  /\ ExtQueue(Handled(st, v), w, k, b, t, size, d)
         /\ Pending(Handled(st, v), w, k) <=> Pending(st, w, 0)
<1> DEFINE n == Len(w)
<1>1. n \in Nat /\ k \in Nat /\ k <= n /\ DOMAIN v = 1 .. k /\ \A i \in 1 .. k : v[i] = w[i]
  BY DEF FirstOf
<1>2. PICK a : Handling(a, st, v, k)
  BY <1>1, FoldClient
<1> DEFINE P(m) == /\ ExtQueue(a[m], w, m, b, t, size, d)
                   /\ Pending(a[m], w, m) <=> Pending(st, w, 0)
           G == {m \in 0 .. k : P(m)}
<1>3. 0 \in G
  <2>1. a[0] = st /\ 0 \in 0 .. k
    BY <1>1, <1>2 DEF Handling
  <2>2. P(0)
    BY <2>1, Zenon
  <2> QED BY <2>1, <2>2, Zenon
<1>4. ASSUME NEW m \in 0 .. k, m \in G, m # k
      PROVE  m + 1 \in G
  <2>1. m + 1 \in 1 .. k /\ (m + 1) - 1 = m /\ m + 1 \in 0 .. k /\ m \in 0 .. n /\ m # n
    BY <1>1, <1>4
  <2>2. a[m + 1] = Ext!event(a[m], w[m + 1])
    <3>1. a[m + 1] = ClientEvent(a[m], v[m + 1]) /\ v[m + 1] = w[m + 1]
      BY <1>1, <1>2, <2>1 DEF Handling
    <3> QED BY <3>1 DEF ClientEvent
  <2>3. P(m)
    BY <1>4, Zenon
  <2>4. /\ ExtQueue(Ext!event(a[m], w[m + 1]), w, m + 1, b, t, size, d)
        /\ Pending(Ext!event(a[m], w[m + 1]), w, m + 1) <=> Pending(a[m], w, m)
    <3> DEFINE j == m + 1
    <3>1. j = m + 1 /\ Len(w) = n
      OBVIOUS
    <3> HIDE DEF n, j
    <3>2. /\ ExtQueue(Ext!event(a[m], w[j]), w, j, b, t, size, d)
          /\ Pending(Ext!event(a[m], w[j]), w, j) <=> Pending(a[m], w, m)
      BY <1>1, <2>1, <2>3, <3>1, ExtQueueEvent
    <3> QED BY <3>2 DEF j
  <2>5. P(m + 1)
    BY <2>2, <2>3, <2>4, Zenon
  <2> QED BY <2>1, <2>5, Zenon
<1>5. k \in G
  <2> HIDE DEF G
  <2>1. \A m \in 0 .. k : m \in G
    BY <1>1, <1>3, <1>4, CountUp
  <2> QED BY <1>1, <2>1
<1>6. P(k) /\ Handled(st, v) = a[k]
  BY <1>2, <1>5, Zenon DEF Handling
<1> QED BY <1>6, Zenon

LEMMA ScPrefix ==
  ASSUME backend = "screencopy", NEW STATE v, NEW STATE w, NEW STATE k, FirstOf(v, w, k),
         NEW STATE b, NEW STATE f, ScQueue(st, w, 0, b, f)
  PROVE  /\ ScQueue(Handled(st, v), w, k, b, f)
         /\ Pending(Handled(st, v), w, k) <=> Pending(st, w, 0)
<1> DEFINE n == Len(w)
<1>1. n \in Nat /\ k \in Nat /\ k <= n /\ DOMAIN v = 1 .. k /\ \A i \in 1 .. k : v[i] = w[i]
  BY DEF FirstOf
<1>2. PICK a : Handling(a, st, v, k)
  BY <1>1, FoldClient
<1> DEFINE P(m) == /\ ScQueue(a[m], w, m, b, f)
                   /\ Pending(a[m], w, m) <=> Pending(st, w, 0)
           G == {m \in 0 .. k : P(m)}
<1>3. 0 \in G
  <2>1. a[0] = st /\ 0 \in 0 .. k
    BY <1>1, <1>2 DEF Handling
  <2>2. P(0)
    BY <2>1, Zenon
  <2> QED BY <2>1, <2>2, Zenon
<1>4. ASSUME NEW m \in 0 .. k, m \in G, m # k
      PROVE  m + 1 \in G
  <2>1. m + 1 \in 1 .. k /\ (m + 1) - 1 = m /\ m + 1 \in 0 .. k /\ m \in 0 .. n /\ m # n
    BY <1>1, <1>4
  <2>2. a[m + 1] = Sc!event(a[m], w[m + 1])
    <3>1. a[m + 1] = ClientEvent(a[m], v[m + 1]) /\ v[m + 1] = w[m + 1]
      BY <1>1, <1>2, <2>1 DEF Handling
    <3> QED BY <3>1 DEF ClientEvent
  <2>3. P(m)
    BY <1>4, Zenon
  <2>4. /\ ScQueue(Sc!event(a[m], w[m + 1]), w, m + 1, b, f)
        /\ Pending(Sc!event(a[m], w[m + 1]), w, m + 1) <=> Pending(a[m], w, m)
    <3> DEFINE j == m + 1
    <3>1. j = m + 1 /\ Len(w) = n
      OBVIOUS
    <3> HIDE DEF n, j
    <3>2. /\ ScQueue(Sc!event(a[m], w[j]), w, j, b, f)
          /\ Pending(Sc!event(a[m], w[j]), w, j) <=> Pending(a[m], w, m)
      BY <1>1, <2>1, <2>3, <3>1, ScQueueEvent
    <3> QED BY <3>2 DEF j
  <2>5. P(m + 1)
    BY <2>2, <2>3, <2>4, Zenon
  <2> QED BY <2>1, <2>5, Zenon
<1>5. k \in G
  <2> HIDE DEF G
  <2>1. \A m \in 0 .. k : m \in G
    BY <1>1, <1>3, <1>4, CountUp
  <2> QED BY <1>1, <2>1
<1>6. P(k) /\ Handled(st, v) = a[k]
  BY <1>2, <1>5, Zenon DEF Handling
<1> QED BY <1>6, Zenon

\* dispatch, and what it leaves in the queue.
LEMMA DispatchQueue ==
  ASSUME NEW w, IsSequence(w), NEW k \in 1 .. Len(w)
  PROVE  /\ FirstOf(SubSeq(w, 1, k), w, k)
         /\ Shifted(SubSeq(w, k + 1, Len(w)), w, k)
<1>1. Len(w) \in Nat /\ k \in 0 .. Len(w)
  BY SequenceLength
<1>2. FirstOf(SubSeq(w, 1, k), w, k)
  BY <1>1, FirstEvents, Zenon DEF FirstOf
<1>3. Shifted(SubSeq(w, k + 1, Len(w)), w, k)
  BY <1>1, OtherEvents, Zenon DEF Shifted
<1> QED BY <1>2, <1>3

-----------------------------------------------------------------------------
(* Events are sent *)

\* Events of these kinds only.
Says(v, S) == IsSequence(v) /\ \A i \in 1 .. Len(v) : v[i].ev \in S

LEMMA SaysNone == \A S : Says(<<>>, S)
<1>1. IsSequence(<<>>)
  BY QuietNone DEF Quiet
<1>2. Len(<<>>) = 0
  OBVIOUS
<1>3. \A i \in 1 .. Len(<<>>) : FALSE
  BY <1>2
<1> QED BY <1>1, <1>3, Zenon DEF Says

LEMMA SaysOne ==
  ASSUME NEW e, NEW S, e.ev \in S
  PROVE  Says(<<e>>, S)
<1> DEFINE v == <<e>>
<1>1. v \in Seq({e}) /\ Len(v) = 1 /\ v[1] = e
  OBVIOUS
<1> HIDE DEF v
<1>2. IsSequence(v)
  BY <1>1, Zenon DEF IsSequence
<1>3. \A i \in 1 .. Len(v) : i = 1
  BY <1>1
<1>4. \A i \in 1 .. Len(v) : v[i].ev \in S
  BY <1>1, <1>3, Zenon
<1> QED BY <1>2, <1>4, Zenon DEF Says, v

LEMMA SaysTwo ==
  ASSUME NEW e, NEW d, NEW S, e.ev \in S, d.ev \in S
  PROVE  Says(<<e, d>>, S)
<1> DEFINE v == <<e, d>>
<1>1. v \in Seq({e, d}) /\ Len(v) = 2 /\ v[1] = e /\ v[2] = d
  OBVIOUS
<1> HIDE DEF v
<1>2. IsSequence(v)
  BY <1>1, Zenon DEF IsSequence
<1>3. \A i \in 1 .. Len(v) : i = 1 \/ i = 2
  BY <1>1
<1>4. \A i \in 1 .. Len(v) : v[i].ev \in S
  BY <1>1, <1>3, Zenon
<1> QED BY <1>2, <1>4, Zenon DEF Says, v

LEMMA SentIndex ==
  ASSUME NEW w, IsSequence(w), NEW v, NEW S, Says(v, S)
  PROVE  /\ \A i \in (0 + 1) .. Len(w) : i \in (0 + 1) .. Len(w \o v) /\ (w \o v)[i] = w[i]
         /\ \A i \in (0 + 1) .. Len(w \o v) :
              \/ i \in (0 + 1) .. Len(w)
              \/ (w \o v)[i].ev \in S
<1> DEFINE n == Len(w)
           m == Len(v)
           u == w \o v
<1>0. n \in Nat /\ m \in Nat /\ IsSequence(v) /\ \A i \in 1 .. m : v[i].ev \in S
  BY SequenceLength DEF Says
<1>1. Len(u) = n + m /\ \A i \in 1 .. n + m : u[i] = IF i <= n THEN w[i] ELSE v[i - n]
  BY <1>0, SentEvents
<1> HIDE DEF n, m, u
<1>2. ASSUME NEW i \in (0 + 1) .. n
      PROVE  i \in (0 + 1) .. Len(u) /\ u[i] = w[i]
  <2>1. i \in 1 .. n + m /\ i <= n
    BY <1>0
  <2> QED BY <1>1, <2>1
<1>3. ASSUME NEW i \in (0 + 1) .. Len(u), i \notin (0 + 1) .. n
      PROVE  u[i].ev \in S
  <2>1. i \in 1 .. n + m /\ ~(i <= n) /\ i - n \in 1 .. m
    BY <1>0, <1>1, <1>3
  <2>2. u[i] = v[i - n]
    BY <1>1, <2>1
  <2> QED BY <1>0, <2>1, <2>2, Zenon
<1> QED BY <1>2, <1>3 DEF n, u

LEMMA SaysBoth ==
  ASSUME NEW w, NEW v, NEW S, Says(w, S), Says(v, S)
  PROVE  Says(w \o v, S)
<1> DEFINE u == w \o v
<1>1. IsSequence(w) /\ IsSequence(v) /\ \A i \in 1 .. Len(w) : w[i].ev \in S
  BY Zenon DEF Says
<1>2. IsSequence(u)
  BY <1>1, SentEvents
<1>3. /\ \A i \in (0 + 1) .. Len(w) : u[i] = w[i]
      /\ \A i \in (0 + 1) .. Len(u) : i \in (0 + 1) .. Len(w) \/ u[i].ev \in S
  BY <1>1, SentIndex
<1> HIDE DEF u
<1>4. \A i \in (0 + 1) .. Len(u) : u[i].ev \in S
  BY <1>1, <1>3
<1> QED BY <1>2, <1>4 DEF Says, u

LEMMA ReadySent ==
  ASSUME NEW s, NEW w, IsSequence(w), NEW v, NEW S, Says(v, S)
  PROVE  /\ \A ev : ev \notin S /\ NoneIs(w, 0, ev) => NoneIs(w \o v, 0, ev)
         /\ "Ready" \notin S /\ Once(s, w, 0) => Once(s, w \o v, 0)
         /\ "Ready" \notin S => (Pending(s, w \o v, 0) <=> Pending(s, w, 0))
<1> DEFINE u == w \o v
           I == (0 + 1) .. Len(w)
           U == (0 + 1) .. Len(u)
<1>1. /\ \A i \in I : i \in U /\ u[i] = w[i]
      /\ \A i \in U : i \in I \/ u[i].ev \in S
  BY SentIndex
<1> HIDE DEF u, I, U
<1>2. ASSUME NEW ev, ev \notin S
      PROVE  NoneIs(w, 0, ev) <=> NoneIs(u, 0, ev)
  BY <1>1, <1>2, Zenon DEF NoneIs, I, U
<1>3. ASSUME "Ready" \notin S, Once(s, w, 0)
      PROVE  Once(s, u, 0)
  <2>1. /\ s.frame_ready => NoneIs(w, 0, "Ready")
        /\ \A i, m \in I : w[i].ev = "Ready" /\ w[m].ev = "Ready" => i = m
    BY <1>3, Zenon DEF Once, I
  <2>2. ASSUME NEW i \in U, u[i].ev = "Ready"
        PROVE  i \in I /\ w[i].ev = "Ready"
    BY <1>1, <1>3, <2>2, Zenon
  <2>3. \A i, m \in U : u[i].ev = "Ready" /\ u[m].ev = "Ready" => i = m
    BY <2>1, <2>2, Zenon
  <2> QED BY <1>2, <1>3, <2>1, <2>3, Zenon DEF Once, U
<1> QED BY <1>2, <1>3, Zenon DEF Pending, u

LEMMA ExtQueueSent ==
  ASSUME NEW s, NEW w, IsSequence(w), NEW v, NEW S, Says(v, S),
         "Ready" \notin S, "BufferSize" \notin S, "Transform" \notin S,
         NEW b, NEW t, NEW size, NEW d, ExtQueue(s, w, 0, b, t, size, d)
  PROVE  ExtQueue(s, w \o v, 0, b, t, size, d)
<1> DEFINE u == w \o v
           I == (0 + 1) .. Len(w)
           U == (0 + 1) .. Len(u)
<1>1. /\ \A i \in I : i \in U /\ u[i] = w[i]
      /\ \A i \in U : i \in I \/ u[i].ev \in S
  BY SentIndex
<1> HIDE DEF I, U
<1>2. ExtFields(s) /\ Once(s, u, 0)
  BY ReadySent, Zenon DEF ExtQueue
<1>3. ASSUME b
      PROVE  Steady(s, u, 0, t, size) /\ Described(s, u, 0, t, d)
  <2>0. Steady(s, w, 0, t, size) /\ Described(s, w, 0, t, d)
    BY <1>3, Zenon DEF ExtQueue
  <2>1. /\ s.size = size
        /\ NoneIs(w, 0, "BufferSize")
        /\ \A i \in I : w[i].ev = "Transform" => w[i].transform = t
    BY <2>0, Zenon DEF Steady, I
  <2>2. NoneIs(u, 0, "BufferSize")
    BY <2>1, ReadySent, Zenon
  <2> HIDE DEF u
  <2>3. \A i \in U : u[i].ev = "Transform" => u[i].transform = t
    BY <1>1, <2>1, Zenon
  <2>4. Steady(s, u, 0, t, size)
    BY <2>1, <2>2, <2>3, Zenon DEF Steady, U
  <2>5. /\ s.frame_ready => s.frame_transform = t /\ d \subseteq s.damage_rects
        /\ \A i \in I : w[i].ev = "Ready" =>
             /\ s.frame_transform = t
                \/ \E m \in I : m < i /\ w[m].ev = "Transform"
             /\ d \subseteq s.damage_rects
                \/ \E m \in I : m < i /\ w[m].ev = "Damage" /\ d \subseteq w[m].cells
    BY <2>0, Zenon DEF Described, I
  <2>6. ASSUME NEW i \in U, u[i].ev = "Ready"
        PROVE  /\ s.frame_transform = t
                  \/ \E m \in U : m < i /\ u[m].ev = "Transform"
               /\ d \subseteq s.damage_rects
                  \/ \E m \in U : m < i /\ u[m].ev = "Damage" /\ d \subseteq u[m].cells
    <3>1. i \in I /\ w[i].ev = "Ready"
      BY <1>1, <2>6, Zenon
    <3>2. /\ s.frame_transform = t
             \/ \E m \in I : m < i /\ w[m].ev = "Transform"
          /\ d \subseteq s.damage_rects
             \/ \E m \in I : m < i /\ w[m].ev = "Damage" /\ d \subseteq w[m].cells
      BY <2>5, <3>1, Zenon
    <3>3. s.frame_transform = t \/ \E m \in U : m < i /\ u[m].ev = "Transform"
      BY <1>1, <3>2, Zenon
    <3>4. d \subseteq s.damage_rects
            \/ \E m \in U : m < i /\ u[m].ev = "Damage" /\ d \subseteq u[m].cells
      BY <1>1, <3>2, Zenon
    <3> QED BY <3>3, <3>4, Zenon
  <2>7. Described(s, u, 0, t, d)
    BY <2>5, <2>6, Zenon DEF Described, U
  <2> QED BY <2>4, <2>7
<1> QED BY <1>2, <1>3, Zenon DEF ExtQueue

LEMMA ScQueueSent ==
  ASSUME NEW s, NEW w, IsSequence(w), NEW v, NEW S, Says(v, S),
         "Ready" \notin S, "Damage" \notin S, NEW b, b => "Buffer" \notin S,
         NEW f, ScQueue(s, w, 0, b, f)
  PROVE  ScQueue(s, w \o v, 0, b, f)
<1> DEFINE u == w \o v
           I == (0 + 1) .. Len(w)
           U == (0 + 1) .. Len(u)
<1>1. /\ \A i \in I : i \in U /\ u[i] = w[i]
      /\ \A i \in U : i \in I \/ u[i].ev \in S
  BY SentIndex
<1> HIDE DEF I, U
<1>2. /\ StateFields(s) /\ Once(s, u, 0) /\ s.damage_rects = {} /\ NoneIs(u, 0, "Damage")
  BY ReadySent, Zenon DEF ScQueue
<1> HIDE DEF u
<1>3. ASSUME b PROVE Known(s, u, 0, f)
  <2>1. /\ Offered(s, f)
        /\ \A i \in I : w[i].ev = "Buffer" => w[i].size = f.offer /\ w[i].format = f.format
    BY <1>3, Zenon DEF ScQueue, Known, I
  <2>2. \A i \in U : u[i].ev = "Buffer" => u[i].size = f.offer /\ u[i].format = f.format
    BY <1>1, <1>3, <2>1, Zenon
  <2> QED BY <2>1, <2>2, Zenon DEF Known, U
<1> QED BY <1>2, <1>3, Zenon DEF ScQueue, u

\* An ext frame is answered: its transform, its damage, and Ready.
LEMMA ExtReadySent ==
  ASSUME NEW s, NEW w, IsSequence(w), ~Pending(s, w, 0), NEW x, NEW y, NEW z, NEW t, NEW d,
         x.ev = "Transform", x.transform = t, y.ev = "Damage", d \subseteq y.cells,
         z.ev = "Ready", NEW b, NEW size, NEW c, ExtQueue(s, w, 0, b, t, size, c)
  PROVE  /\ IsSequence(w \o (<<x, y>> \o <<z>>))
         /\ ExtQueue(s, w \o (<<x, y>> \o <<z>>), 0, b, t, size, d)
         /\ Pending(s, w \o (<<x, y>> \o <<z>>), 0)
<1> DEFINE v == <<x, y>> \o <<z>>
           u == w \o v
           n == Len(w)
           I == (0 + 1) .. Len(w)
           U == (0 + 1) .. Len(u)
<1>1. v \in Seq({x, y, z}) /\ Len(v) = 3 /\ v[1] = x /\ v[2] = y /\ v[3] = z
  OBVIOUS
<1> HIDE DEF v
<1>2. IsSequence(v)
  BY <1>1, Zenon DEF IsSequence
<1>3. n \in Nat /\ IsSequence(u) /\ Len(u) = n + 3
      /\ \A i \in 1 .. n + 3 : u[i] = IF i <= n THEN w[i] ELSE v[i - n]
  <2>1. n \in Nat
    BY SequenceLength
  <2>2. /\ IsSequence(u) /\ Len(u) = n + Len(v)
        /\ \A i \in 1 .. n + Len(v) : u[i] = IF i <= n THEN w[i] ELSE v[i - n]
    BY <1>2, SentEvents, Zenon
  <2>3. Len(v) = 3
    BY <1>1
  <2> QED BY <2>1, <2>2, <2>3, Zenon
<1> HIDE DEF u
<1>4. /\ n + 1 \in U /\ u[n + 1] = x
      /\ n + 2 \in U /\ u[n + 2] = y
      /\ n + 3 \in U /\ u[n + 3] = z
      /\ n + 1 < n + 3 /\ n + 2 < n + 3
  <2>1. n + 1 \in 1 .. n + 3 /\ ~(n + 1 <= n) /\ (n + 1) - n = 1
    BY <1>3
  <2>2. n + 2 \in 1 .. n + 3 /\ ~(n + 2 <= n) /\ (n + 2) - n = 2
    BY <1>3
  <2>3. n + 3 \in 1 .. n + 3 /\ ~(n + 3 <= n) /\ (n + 3) - n = 3
    BY <1>3
  <2>4. u[n + 1] = x
    BY <1>1, <1>3, <2>1
  <2>5. u[n + 2] = y
    BY <1>1, <1>3, <2>2
  <2>6. u[n + 3] = z
    BY <1>1, <1>3, <2>3
  <2>7. n + 1 < n + 3 /\ n + 2 < n + 3
    BY <1>3
  <2> QED BY <1>3, <2>1, <2>2, <2>3, <2>4, <2>5, <2>6, <2>7
<1>5. ASSUME NEW i \in U
      PROVE  (i \in I /\ u[i] = w[i]) \/ i = n + 1 \/ i = n + 2 \/ i = n + 3
  <2>1. CASE i <= n
    BY <1>3, <2>1
  <2>2. CASE ~(i <= n)
    BY <1>3, <2>2
  <2> QED BY <2>1, <2>2
<1> DEFINE n1 == n + 1
           n2 == n + 2
           n3 == n + 3
<1>6. /\ n1 \in U /\ u[n1] = x /\ n2 \in U /\ u[n2] = y /\ n3 \in U /\ u[n3] = z
      /\ n1 < n3 /\ n2 < n3
      /\ \A i \in U : (i \in I /\ u[i] = w[i]) \/ i = n1 \/ i = n2 \/ i = n3
  BY <1>4, <1>5
<1> HIDE DEF n, n1, n2, n3, I, U
<1>7. x.ev # "Ready" /\ y.ev # "Ready" /\ x.ev # "BufferSize" /\ y.ev # "BufferSize"
      /\ z.ev # "BufferSize" /\ y.ev # "Transform" /\ z.ev # "Transform"
  OBVIOUS
<1>8. ~s.frame_ready /\ \A i \in I : w[i].ev # "Ready"
  BY Zenon DEF Pending, NoneIs, I
<1>9. ASSUME NEW i \in U, u[i].ev = "Ready" PROVE i = n3
  BY <1>6, <1>7, <1>8, <1>9, Zenon
<1>10. Once(s, u, 0)
  BY <1>8, <1>9, Zenon DEF Once, U
<1>11. ASSUME b
       PROVE  Steady(s, u, 0, t, size) /\ Described(s, u, 0, t, d)
  <2>1. /\ s.size = size
        /\ \A i \in I : w[i].ev # "BufferSize"
        /\ \A i \in I : w[i].ev = "Transform" => w[i].transform = t
    BY <1>11, Zenon DEF ExtQueue, Steady, NoneIs, I
  <2>2. \A i \in U : u[i].ev # "BufferSize"
    BY <1>6, <1>7, <2>1, Zenon
  <2>3. \A i \in U : u[i].ev = "Transform" => u[i].transform = t
    BY <1>6, <1>7, <2>1, Zenon
  <2>4. Steady(s, u, 0, t, size)
    BY <2>1, <2>2, <2>3, Zenon DEF Steady, NoneIs, U
  <2>5. ASSUME NEW i \in U, u[i].ev = "Ready"
        PROVE  /\ \E m \in U : m < i /\ u[m].ev = "Transform"
               /\ \E m \in U : m < i /\ u[m].ev = "Damage" /\ d \subseteq u[m].cells
    <3>1. i = n3
      BY <1>9, <2>5
    <3>2. n1 \in U /\ n1 < i /\ u[n1].ev = "Transform"
      BY <1>6, <3>1, Zenon
    <3>3. n2 \in U /\ n2 < i /\ u[n2].ev = "Damage" /\ d \subseteq u[n2].cells
      BY <1>6, <3>1, Zenon
    <3> QED BY <3>2, <3>3, Zenon
  <2>6. Described(s, u, 0, t, d)
    BY <1>8, <2>5, Zenon DEF Described, U
  <2> QED BY <2>4, <2>6
<1>12. ExtFields(s)
  BY DEF ExtQueue
<1>13. Pending(s, u, 0)
  BY <1>6, Zenon DEF Pending, NoneIs, U
<1> QED BY <1>3, <1>10, <1>11, <1>12, <1>13, Zenon DEF ExtQueue, u, v

\* The events of a copy.
Answer(t, c) ==
  <<[Event("Transform") EXCEPT !.transform = t], [Event("Damage") EXCEPT !.cells = c]>>
    \o <<Event("Ready")>>

LEMMA ExtAnswered ==
  ASSUME NEW s, NEW w, IsSequence(w), ~Pending(s, w, 0), NEW t, NEW c, NEW d, d \subseteq c,
         NEW b, NEW size, NEW e, ExtQueue(s, w, 0, b, t, size, e)
  PROVE  /\ ExtQueue(s, w \o Answer(t, c), 0, b, t, size, d)
         /\ Pending(s, w \o Answer(t, c), 0)
<1> DEFINE x == [Event("Transform") EXCEPT !.transform = t]
           y == [Event("Damage") EXCEPT !.cells = c]
           z == Event("Ready")
<1>1. x.ev = "Transform" /\ x.transform = t /\ y.ev = "Damage" /\ y.cells = c
      /\ z.ev = "Ready"
  BY DEF Event
<1> HIDE DEF x, y, z
<1>2. /\ ExtQueue(s, w \o (<<x, y>> \o <<z>>), 0, b, t, size, d)
      /\ Pending(s, w \o (<<x, y>> \o <<z>>), 0)
  <2>1. d \subseteq y.cells
    BY <1>1
  <2> QED BY <1>1, <2>1, ExtReadySent
<1> QED BY <1>2 DEF Answer, x, y, z

\* A screencopy frame is answered.
LEMMA ScReadySent ==
  ASSUME NEW s, NEW w, IsSequence(w), ~Pending(s, w, 0), NEW z, z.ev = "Ready",
         NEW b, NEW f, ScQueue(s, w, 0, b, f)
  PROVE  /\ IsSequence(w \o (<<>> \o <<z>>))
         /\ ScQueue(s, w \o (<<>> \o <<z>>), 0, b, f)
<1> DEFINE v == <<>> \o <<z>>
           u == w \o v
           n == Len(w)
           I == (0 + 1) .. Len(w)
           U == (0 + 1) .. Len(u)
<1>1. v \in Seq({z}) /\ Len(v) = 1 /\ v[1] = z
  OBVIOUS
<1> HIDE DEF v
<1>2. IsSequence(v)
  BY <1>1, Zenon DEF IsSequence
<1>3. n \in Nat /\ IsSequence(u) /\ Len(u) = n + 1
      /\ \A i \in 1 .. n + 1 : u[i] = IF i <= n THEN w[i] ELSE v[i - n]
  BY <1>1, <1>2, SequenceLength, SentEvents
<1> HIDE DEF u
<1>4. ASSUME NEW i \in U
      PROVE  (i \in I /\ u[i] = w[i]) \/ (i = n + 1 /\ u[i] = z)
  <2>1. CASE i <= n
    BY <1>3, <2>1
  <2>2. CASE ~(i <= n)
    <3>1. i \in 1 .. n + 1 /\ i = n + 1 /\ i - n = 1
      BY <1>3, <2>2
    <3>2. u[i] = v[1]
      BY <1>3, <2>2, <3>1
    <3> QED BY <1>1, <3>1, <3>2, Zenon
  <2> QED BY <2>1, <2>2
<1> HIDE DEF n, I, U
<1>5. ~s.frame_ready /\ \A i \in I : w[i].ev # "Ready"
  BY Zenon DEF Pending, NoneIs, I
<1>6. Once(s, u, 0)
  <2>1. ASSUME NEW i \in U, u[i].ev = "Ready" PROVE i = n + 1
    BY <1>4, <1>5, <2>1, Zenon
  <2> QED BY <1>5, <2>1, Zenon DEF Once, U
<1>7. /\ StateFields(s) /\ s.damage_rects = {} /\ \A i \in I : w[i].ev # "Damage"
  BY Zenon DEF ScQueue, NoneIs, I
<1>8. z.ev # "Damage" /\ z.ev # "Buffer"
  OBVIOUS
<1>9. NoneIs(u, 0, "Damage")
  BY <1>4, <1>7, <1>8, Zenon DEF NoneIs, U
<1>10. ASSUME b PROVE Known(s, u, 0, f)
  <2>1. /\ Offered(s, f)
        /\ \A i \in I : w[i].ev = "Buffer" => w[i].size = f.offer /\ w[i].format = f.format
    BY <1>10, Zenon DEF ScQueue, Known, I
  <2>2. \A i \in U : u[i].ev = "Buffer" => u[i].size = f.offer /\ u[i].format = f.format
    BY <1>4, <1>8, <2>1, Zenon
  <2> QED BY <2>1, <2>2, Zenon DEF Known, U
<1> QED BY <1>3, <1>6, <1>7, <1>9, <1>10, Zenon DEF ScQueue, u, v

-----------------------------------------------------------------------------
(* What is captured is what is returned *)

\* The fields of what is captured, and of a pool that was made for a size.
OutputFields(o) ==
  o = [size |-> o.size, transform |-> o.transform, picture |-> o.picture,
       damage |-> o.damage]

PoolOk(p) ==
  /\ p = [size |-> p.size, format |-> p.format, active |-> p.active, slots |-> p.slots]
  /\ GoodSize(p.size) /\ p.active \in {1, 2}
  /\ p.slots = <<p.slots[1], p.slots[2]>>
  /\ Buffer(p.slots[1], Bytes(p.size)) /\ Buffer(p.slots[2], Bytes(p.size))

\* p is a picture of this size.
PictureOf(p, size) == DOMAIN p = Cells(size) /\ p = [c \in Cells(size) |-> p[c]]

\* next_frame is under way, the compositor may be copying; no backend yet.
Live == {"wait", "phase1", "roundtrip", "phase2"}
Waiting == pc \in {"wait", "phase2"}
Setup == {"snapshot", "spawned", "detect", "session", "portal"}

OutputInv ==
  /\ desktop \in Desktops /\ resizes \in Nat
  /\ OutputFields(output)
  /\ GoodSize(output.size) /\ output.transform \in {0, 1, 2, 4, 6}
  /\ PictureOf(output.picture, output.size)
  /\ pc \in Live => output.picture \in seen

SetupInv ==
  /\ pc \in Setup => wire = <<>> /\ returned = NoReturned
  /\ backend = "ext" => pc \in {"idle", "wait"}
  /\ pc = "wait" => backend = "ext"

\* The buffer that the compositor writes to is the active one, of the size of
\* the frame.
PoolInv ==
  /\ pool = NoPool \/ PoolOk(pool)
  /\ pc \in {"roundtrip", "phase2"} \/ backend = "ext" => PoolOk(pool)
  /\ frame.stage \in {"copying", "writing"} => Waiting /\ frame.slot = pool.active
  /\ Waiting => frame.offer = pool.size
  /\ pc \in Live => frame.offer = NoSize \/ GoodSize(frame.offer)

\* What the client was told and will be told.
QueueInv ==
  /\ backend = "ext" => ExtQueue(st, wire, 0, resizes = 0, output.transform, pool.size, {})
  /\ backend = "screencopy" =>
       ScQueue(st, wire, 0, pc \in {"roundtrip", "phase2"}, frame)
  /\ ~Waiting => NoneIs(wire, 0, "Ready")
  /\ pc \in {"phase1", "roundtrip"} => ~st.frame_ready

\* Where a picture differs from the frame returned last, as far as the two can
\* be compared.
Changed(p) ==
  IF output.transform = 0 /\ returned.size = pool.size
  THEN {c \in Cells(pool.size) : Decoded(returned)[c] # p[c]} ELSE {}

\* The active buffer holds picture q, and what the damage still has to tell.
Holds(q) ==
  /\ PictureOf(q, pool.size)
  /\ Shows(pool.slots[pool.active], pool.size, BufferTransform, q)
  /\ backend = "ext" =>
       /\ Described(st, wire, 0, output.transform, Changed(q))
       /\ \A c \in Cells(pool.size) : q[c] # output.picture[c] => c \in output.damage

\* A frame that is ready, or about to be, is in the buffer.
ReadyInv ==
  Waiting /\ Pending(st, wire, 0) =>
    /\ frame.stage = "answered"
    /\ ~Resized => \E q \in seen : Holds(q)

\* As long as there was no resize, an ext session keeps its size, and what
\* changed since the last frame is the damage.
ExtInv ==
  backend = "ext" /\ resizes = 0 =>
    /\ Stride(pool.size) = Width(pool.size)
    /\ Width(pool.size) = Width(output.size) /\ Height(pool.size) = Height(output.size)
    /\ pc = "idle" \/ ~Pending(st, wire, 0) => Changed(output.picture) \subseteq output.damage

FrameInv ==
  /\ OutputInv
  /\ pc # "ended" => SetupInv /\ PoolInv /\ QueueInv /\ ReadyInv /\ ExtInv

LEMMA ShapeGood ==
  ASSUME NEW d \in Desktops, NEW o \in d.shapes, NEW x,
         x = [size |-> o.size, transform |-> o.transform,
              picture |-> Blank(o.size), damage |-> Cells(o.size)]
  PROVE  /\ OutputFields(x) /\ GoodSize(x.size) /\ x.transform \in {0, 1, 2, 4, 6}
         /\ PictureOf(x.picture, x.size)
<1>1. o \in UNION {e.shapes : e \in Desktops}
  OBVIOUS
<1>2. GoodSize(o.size) /\ o.transform \in {0, 1, 2, 4, 6}
  BY <1>1, CaptureBackendsAssumption DEF GoodSize
<1>3. x.size = o.size /\ x.transform = o.transform /\ x.picture = Blank(o.size)
      /\ OutputFields(x)
  BY DEF OutputFields
<1>4. PictureOf(Blank(o.size), o.size)
  BY DEF PictureOf, Blank
<1> QED BY <1>2, <1>3, <1>4

LEMMA FrameInit == Init => FrameInv
<1> SUFFICES ASSUME Init PROVE FrameInv
  OBVIOUS
<1>1. /\ desktop \in Desktops /\ resizes = 0 /\ wire = <<>> /\ frame = NoFrame
      /\ pc = "snapshot" /\ backend = "none" /\ pool = NoPool /\ returned = NoReturned
  BY DEF Init
<1>2. PICK o \in desktop.shapes :
        output = [size |-> o.size, transform |-> o.transform,
                  picture |-> Blank(o.size), damage |-> Cells(o.size)]
  BY DEF Init
<1>3. OutputInv
  <2>1. /\ OutputFields(output) /\ GoodSize(output.size) /\ output.transform \in {0, 1, 2, 4, 6}
        /\ PictureOf(output.picture, output.size)
    BY <1>1, <1>2, ShapeGood
  <2> QED BY <1>1, <2>1 DEF OutputInv, Live
<1>4. SetupInv
  BY <1>1 DEF SetupInv
<1>5. PoolInv
  BY <1>1 DEF PoolInv, Waiting, Live, NoFrame
<1>6. QueueInv
  <2>1. Len(wire) = 0
    BY <1>1
  <2>2. NoneIs(wire, 0, "Ready")
    BY <2>1 DEF NoneIs
  <2> QED BY <1>1, <2>2 DEF QueueInv
<1>7. ReadyInv /\ ExtInv
  BY <1>1 DEF ReadyInv, ExtInv, Waiting
<1> QED BY <1>3, <1>4, <1>5, <1>6, <1>7 DEF FrameInv

\* What the invariant is about.
frameVars == <<desktop, output, resizes, wire, frame, pc, backend, st, pool, returned, seen>>

LEMMA FrameQuiet ==
  ASSUME FrameInv, UNCHANGED frameVars
  PROVE  FrameInv'
<1> USE DEF frameVars
<1>1. OutputInv'
  BY Zenon DEF FrameInv, OutputInv
<1>2. ASSUME pc # "ended"
      PROVE  SetupInv' /\ PoolInv' /\ QueueInv' /\ ReadyInv' /\ ExtInv'
  <2>1. SetupInv /\ PoolInv /\ QueueInv /\ ReadyInv /\ ExtInv
    BY <1>2, Zenon DEF FrameInv
  <2>2. SetupInv'
    BY <2>1, Zenon DEF SetupInv
  <2>3. PoolInv'
    BY <2>1, Zenon DEF PoolInv, Waiting
  <2>4. QueueInv'
    BY <2>1, Zenon DEF QueueInv, Waiting
  <2>5. ReadyInv'
    BY <2>1, Zenon DEF ReadyInv, Waiting, Resized, Holds, Changed, BufferTransform
  <2>6. ExtInv'
    BY <2>1, Zenon DEF ExtInv, Changed
  <2> QED BY <2>2, <2>3, <2>4, <2>5, <2>6
<1>3. pc' = pc
  OBVIOUS
<1> QED BY <1>1, <1>2, <1>3, Zenon DEF FrameInv

\* Capture ends.
LEMMA FrameEnds ==
  ASSUME FrameInv, pc' = "ended", UNCHANGED <<desktop, output, resizes>>
  PROVE  FrameInv'
<1>1. OutputInv /\ pc' \notin Live
  BY DEF FrameInv, Live
<1>2. OutputInv'
  BY <1>1, Zenon DEF OutputInv
<1> QED BY <1>2 DEF FrameInv

\* The output is as it was.
LEMMA OutputKept ==
  ASSUME OutputInv, UNCHANGED <<desktop, output, resizes>>,
         \/ pc' \notin Live
         \/ seen' = {output.picture}
         \/ pc \in Live /\ seen' = seen
  PROVE  OutputInv'
<1>1. pc' \in Live => output'.picture \in seen'
  BY Zenon DEF OutputInv
<1> QED BY <1>1, Zenon DEF OutputInv

\* Steps with no frame under way, outside of ext, that send nothing.
LEMMA FrameRests ==
  ASSUME FrameInv, ProtocolInv, pc \in Resting, pc' \in Resting,
         UNCHANGED <<desktop, output, resizes, wire, frame, pool>>,
         backend' # "ext",
         pc' \in Setup => pc \in Setup /\ returned' = returned,
         backend' = "screencopy" => \/ backend = "screencopy" /\ st' = st
                                    \/ st' = Sc!InitialState /\ wire = <<>>
  PROVE  FrameInv'
<1>0. /\ OutputInv /\ SetupInv /\ PoolInv /\ QueueInv /\ ReadyInv /\ ExtInv
      /\ frame.stage = "none"
  BY DEF FrameInv, Resting, ProtocolInv, StageInv
<1>1. pc' \notin {"wait", "phase1", "roundtrip", "phase2", "ended"} /\ pc' \notin Live
      /\ pc \notin {"wait", "phase1", "roundtrip", "phase2"} /\ ~Waiting /\ ~Waiting'
  BY DEF Resting, Live, Waiting
<1>2. OutputInv'
  BY <1>0, <1>1, OutputKept
<1>3. SetupInv'
  <2>1. pc' \in Setup => wire' = <<>> /\ returned' = NoReturned
    BY <1>0, Zenon DEF SetupInv
  <2> QED BY <1>1, <2>1 DEF SetupInv
<1>4. PoolInv'
  BY <1>0, <1>1 DEF PoolInv
<1>5. QueueInv'
  <2>1. NoneIs(wire', 0, "Ready")
    BY <1>0, <1>1, Zenon DEF QueueInv
  <2>2. ASSUME backend' = "screencopy"
        PROVE  ScQueue(st', wire', 0, pc' \in {"roundtrip", "phase2"}, frame')
    <3>1. CASE backend = "screencopy" /\ st' = st
      <4>1. ScQueue(st, wire, 0, pc \in {"roundtrip", "phase2"}, frame)
        BY <1>0, <3>1 DEF QueueInv
      <4> QED BY <1>1, <3>1, <4>1 DEF ScQueue
    <3>2. CASE st' = Sc!InitialState /\ wire = <<>>
      <4>1. Len(wire') = 0
        BY <3>2
      <4>2. StateFields(st') /\ st'.damage_rects = {} /\ ~st'.frame_ready
        BY <3>2 DEF StateFields, Sc!InitialState
      <4>3. Once(st', wire', 0) /\ NoneIs(wire', 0, "Damage")
        BY <4>1, <4>2 DEF Once, NoneIs
      <4> QED BY <1>1, <4>2, <4>3 DEF ScQueue
    <3> QED BY <2>2, <3>1, <3>2
  <2> QED BY <1>1, <2>1, <2>2, Zenon DEF QueueInv
<1>6. ReadyInv' /\ ExtInv'
  BY <1>1, Zenon DEF ReadyInv, ExtInv
<1> QED BY <1>1, <1>2, <1>3, <1>4, <1>5, <1>6 DEF FrameInv

LEMMA NewPool ==
  ASSUME NEW z, GoodSize(z), NEW format, NEW p, p = new(z, format)
  PROVE  PoolOk(p) /\ p.size = z
<1>1. Bytes(z) \in Nat
  BY ProductIsNat DEF Bytes, GoodSize
<1>2. Buffer(NewSlot(z), Bytes(z))
  <2>1. NewSlot(z) = [i \in 1 .. Bytes(z) |-> NewSlot(z)[i]]
    BY DEF NewSlot
  <2> QED BY <1>1, <2>1, BufferOf
<1>3. /\ p = [size |-> z, format |-> format, active |-> 1,
                  slots |-> <<NewSlot(z), NewSlot(z)>>]
  BY DEF new
<1> DEFINE y == NewSlot(z)
<1> HIDE DEF y
<1>4. p = [size |-> z, format |-> format, active |-> 1, slots |-> <<y, y>>]
  BY <1>3 DEF y
<1>5. p.slots[1] = y /\ p.slots[2] = y /\ p.slots = <<y, y>>
      /\ p.size = z /\ p.active = 1
  BY <1>4
<1>6. p = [size |-> p.size, format |-> p.format, active |-> p.active,
               slots |-> p.slots]
  BY <1>4
<1> QED BY <1>2, <1>5, <1>6 DEF PoolOk, y

\* The ext session gets its size, and its pool.
LEMMA FrameSession ==
  ASSUME FrameInv, ProtocolInv, SessionReady
  PROVE  FrameInv'
<1>0. /\ pc = "session" /\ pc' = "idle" /\ backend' = "ext"
      /\ UNCHANGED <<desktop, output, resizes, wire, frame, returned>>
  BY Zenon DEF SessionReady, outputVars
<1>1. /\ OutputInv /\ SetupInv /\ QueueInv /\ frame.stage = "none"
      /\ wire = <<>> /\ returned = NoReturned
  BY <1>0 DEF FrameInv, SetupInv, Setup, ProtocolInv, StageInv, Resting
<1>2. ~Waiting' /\ pc' \notin Live /\ pc' # "ended" /\ pc' \notin Setup
  BY <1>0 DEF Waiting, Live, Setup
<1> DEFINE sized == Ext!session_event(Ext!InitialState, SizeEvent("BufferSize", output.size))
           ss == Ext!session_event(sized, Event("Done"))
           z == <<Width(output.size), Height(output.size), Width(output.size)>>
<1>3. st' = ss /\ \E format : pool' = new(ss.size, format)
  BY Zenon DEF SessionReady
<1>4. ss = [size |-> z, session_ready |-> TRUE, frame_ready |-> FALSE,
           frame_transform |-> 0, frame_failed |-> FALSE, damage_rects |-> {},
           stopped |-> FALSE]
  <2>1. SizeEvent("BufferSize", output.size).ev = "BufferSize"
        /\ SizeEvent("BufferSize", output.size).size = output.size
        /\ Event("Done").ev = "Done"
    BY DEF SizeEvent, Event
  <2>2. sized = [Ext!InitialState EXCEPT !.size = z]
    BY <2>1 DEF Ext!session_event, Width, Height
  <2>3. sized = [size |-> z, session_ready |-> FALSE, frame_ready |-> FALSE,
                 frame_transform |-> 0, frame_failed |-> FALSE, damage_rects |-> {},
                 stopped |-> FALSE]
    <3> HIDE DEF z, sized
    <3> QED BY <2>2 DEF Ext!InitialState
  <2> HIDE DEF z, sized
  <2>4. ss = [sized EXCEPT !.session_ready = TRUE]
    BY <2>1 DEF Ext!session_event
  <2> HIDE DEF ss
  <2> QED BY <2>3, <2>4
<1> HIDE DEF ss
<1>5. /\ Width(z) = Width(output.size) /\ Height(z) = Height(output.size)
      /\ Stride(z) = Width(output.size)
  BY DEF Width, Height, Stride
<1> HIDE DEF z
<1>6. GoodSize(z)
  BY <1>1, <1>5 DEF OutputInv, GoodSize
<1>7. ss.size = z /\ ss.frame_ready = FALSE /\ ExtFields(ss)
  BY <1>4 DEF ExtFields
<1>8. PICK format : pool' = new(z, format)
  BY <1>3, <1>7
<1>9. PoolOk(pool') /\ pool'.size = z
  BY <1>6, <1>8, NewPool
<1>10. OutputInv'
  BY <1>0, <1>1, <1>2, OutputKept
<1>11. SetupInv'
  BY <1>0, <1>2 DEF SetupInv
<1>12. PoolInv'
  BY <1>0, <1>1, <1>2, <1>9 DEF PoolInv
<1>13. Len(wire') = 0
  BY <1>0, <1>1
<1>14. QueueInv'
  <2>1. \A ev : NoneIs(wire', 0, ev)
    BY <1>13 DEF NoneIs
  <2>2. Once(st', wire', 0)
    BY <1>13 , <2>1 DEF Once
  <2>3. Steady(st', wire', 0, output'.transform, pool'.size)
    BY <1>3, <1>7, <1>9, <1>13, <2>1 DEF Steady
  <2>4. Described(st', wire', 0, output'.transform, {})
    BY <1>3, <1>7, <1>13 DEF Described
  <2>5. ExtQueue(st', wire', 0, resizes' = 0, output'.transform, pool'.size, {})
    BY <1>3, <1>7, <2>2, <2>3, <2>4, Zenon DEF ExtQueue
  <2> QED BY <1>0, <2>1, <2>5 DEF QueueInv
<1>15. ReadyInv'
  BY <1>2, Zenon DEF ReadyInv
<1>16. ExtInv'
  <2>1. returned'.size = NoSize
    BY <1>0, <1>1 DEF NoReturned
  <2>2. NoSize # z
    BY <1>6 DEF NoSize, GoodSize, Width
  <2>3. Changed(output.picture)' = {}
    BY <1>9, <2>1, <2>2 DEF Changed
  <2> QED BY <1>0, <1>5, <1>9, <2>3 DEF ExtInv
<1> QED BY <1>2, <1>10, <1>11, <1>12, <1>14, <1>15, <1>16 DEF FrameInv

LEMMA FrameSetup ==
  ASSUME FrameInv, ProtocolInv,
         \/ Snapshot \/ DetectNewToplevel \/ GiveUpWindow \/ DetectBackend
         \/ SessionFails \/ PortalNewReturns \/ PortalNextFrame \/ PortalReceives
         \/ Stop
  PROVE  FrameInv'
<1> DEFINE Kept == UNCHANGED <<desktop, output, resizes, wire, frame, pool>>
           Tried == pc' = "idle" /\ backend' = "screencopy" /\ st' = Sc!InitialState
           Same == backend' = backend /\ st' = st
<1>1. ASSUME Kept, pc' = "ended"
      PROVE  FrameInv'
  BY <1>1, FrameEnds, Zenon
<1>2. ASSUME Kept, returned' = returned, pc \in Setup, pc' \in Setup \cup {"idle"},
             \/ pc' \in Setup /\ Same
             \/ pc' = "idle" /\ (Tried \/ backend' = "portal")
      PROVE  FrameInv'
  <2>1. pc \in Resting /\ pc' \in Resting /\ pc # "ended" /\ pc \notin {"idle", "wait"}
    BY <1>2 DEF Setup, Resting
  <2>2. wire = <<>> /\ backend # "ext"
    BY <1>2, <2>1 DEF FrameInv, SetupInv
  <2>3. "screencopy" # "ext" /\ "portal" # "ext" /\ "portal" # "screencopy"
    OBVIOUS
  <2>4. backend' # "ext"
    BY <1>2, <2>2, <2>3, Zenon
  <2>5. backend' = "screencopy" => \/ backend = "screencopy" /\ st' = st
                                   \/ st' = Sc!InitialState /\ wire = <<>>
    BY <1>2, <2>2, <2>3, Zenon
  <2>6. pc' \in Setup => pc \in Setup /\ returned' = returned
    BY <1>2
  <2> QED BY <1>2, <2>1, <2>4, <2>5, <2>6, FrameRests, Zenon
<1>3. "snapshot" \in Setup /\ "spawned" \in Setup /\ "detect" \in Setup
      /\ "session" \in Setup /\ "portal" \in Setup
  BY DEF Setup
<1>4. TryScreencopy => pc' = "ended" \/ Tried
  BY Zenon DEF TryScreencopy
<1>5. AfterExt => pc' = "ended" \/ Tried \/ (pc' = "portal" /\ Same)
  BY <1>4, Zenon DEF AfterExt
<1> USE DEF outputVars, clientOnly, setupVars
<1>6. CASE Snapshot
  <2>1. Kept /\ Same /\ returned' = returned /\ pc = "snapshot" /\ pc' \in {"spawned", "detect"}
    BY <1>6, Zenon DEF Snapshot
  <2> QED BY <1>2, <1>3, <2>1, Zenon
<1>7. CASE DetectNewToplevel
  <2>1. Kept /\ Same /\ returned' = returned /\ pc = "spawned" /\ pc' = "session"
    BY <1>7, Zenon DEF DetectNewToplevel
  <2> QED BY <1>2, <1>3, <2>1, Zenon
<1>8. CASE GiveUpWindow
  <2>1. Kept /\ Same /\ returned' = returned /\ pc = "spawned" /\ pc' = "detect"
    BY <1>8, Zenon DEF GiveUpWindow
  <2> QED BY <1>2, <1>3, <2>1, Zenon
<1>9. CASE DetectBackend
  <2>1. /\ Kept /\ returned' = returned /\ pc = "detect"
        /\ (pc' = "session" /\ Same) \/ AfterExt
    BY <1>9, Zenon DEF DetectBackend
  <2> QED BY <1>1, <1>2, <1>3, <1>5, <2>1, Zenon
<1>10. CASE SessionFails
  <2>1. /\ Kept /\ returned' = returned /\ pc = "session"
        /\ (pc' = "spawned" /\ Same) \/ AfterExt
    BY <1>10, Zenon DEF SessionFails
  <2> QED BY <1>1, <1>2, <1>3, <1>5, <2>1, Zenon
<1>11. CASE PortalNewReturns
  <2>1. /\ Kept /\ returned' = returned /\ pc = "portal"
        /\ (pc' = "idle" /\ backend' = "portal") \/ TryScreencopy
    BY <1>11, Zenon DEF PortalNewReturns
  <2> QED BY <1>1, <1>2, <1>3, <1>4, <2>1, Zenon
<1>12. CASE PortalNextFrame \/ PortalReceives
  <2>1. /\ Kept /\ Same
        /\ \/ pc = "idle" /\ backend = "portal" /\ pc' = "recv"
           \/ pc = "recv" /\ pc' = "idle"
    BY <1>12, Zenon DEF PortalNextFrame, PortalReceives
  <2>2. pc \in Resting /\ pc' \in Resting /\ pc' \notin Setup /\ pc # "ended"
    BY <2>1 DEF Resting, Setup
  <2>3. backend' # "ext"
    BY <2>1, <2>2 DEF FrameInv, SetupInv
  <2> QED BY <2>1, <2>2, <2>3, FrameRests, Zenon
<1>13. CASE Stop
  <2>1. Kept /\ pc' = "ended"
    BY <1>13, Zenon DEF Stop
  <2> QED BY <1>1, <2>1, Zenon
<1> QED BY <1>6, <1>7, <1>8, <1>9, <1>10, <1>11, <1>12, <1>13

\* An application draws a cell.
Painted(o, c) == [o EXCEPT !.picture[c] = 1 - @, !.damage = @ \cup {c}]

LEMMA PaintedCell ==
  ASSUME NEW o, OutputFields(o), NEW c \in Cells(o.size), PictureOf(o.picture, o.size),
         NEW x, x = Painted(o, c)
  PROVE  /\ OutputFields(x) /\ x.size = o.size /\ x.transform = o.transform
         /\ PictureOf(x.picture, x.size)
         /\ o.damage \subseteq x.damage /\ c \in x.damage
         /\ \A i \in Cells(o.size) : i # c => x.picture[i] = o.picture[i]
<1> DEFINE p == [o.picture EXCEPT ![c] = 1 - @]
<1>1. x = [size |-> o.size, transform |-> o.transform, picture |-> p,
           damage |-> o.damage \cup {c}]
  BY DEF OutputFields, Painted
<1>2. PictureOf(p, o.size) /\ \A i \in Cells(o.size) : i # c => p[i] = o.picture[i]
  BY DEF PictureOf
<1> HIDE DEF p
<1>3. x.size = o.size /\ x.transform = o.transform /\ x.picture = p
      /\ x.damage = o.damage \cup {c}
  BY <1>1
<1>4. OutputFields(x)
  BY <1>1, <1>3 DEF OutputFields
<1>5. o.damage \subseteq x.damage /\ c \in x.damage
  BY <1>3
<1> QED BY <1>2, <1>3, <1>4, <1>5, Zenon

LEMMA FramePaint ==
  ASSUME FrameInv, ProtocolInv, Paint
  PROVE  FrameInv'
<1>0. /\ pc \in {"idle", "wait", "phase1", "roundtrip", "phase2", "recv"}
      /\ UNCHANGED <<desktop, resizes, wire, frame, pc, backend, st, pool, returned>>
  BY Zenon DEF Paint, Capturing, setupVars
<1>1. pc # "ended" /\ pc' # "ended"
  BY <1>0
<1>2. OutputInv /\ SetupInv /\ PoolInv /\ QueueInv /\ ReadyInv /\ ExtInv
  BY <1>1, Zenon DEF FrameInv
<1>3. PICK c \in Spots \cap Cells(output.size) : output' = Painted(output, c)
  BY Zenon DEF Paint, Painted
<1>4. /\ OutputFields(output') /\ output'.size = output.size
      /\ output'.transform = output.transform /\ PictureOf(output'.picture, output'.size)
      /\ output.damage \subseteq output'.damage /\ c \in output'.damage
      /\ \A i \in Cells(output.size) : i # c => output'.picture[i] = output.picture[i]
  <2>1. OutputFields(output) /\ PictureOf(output.picture, output.size)
        /\ c \in Cells(output.size)
    BY <1>2 DEF OutputInv
  <2> QED BY <1>3, <2>1, PaintedCell, Zenon
<1>5. seen \subseteq seen' /\ (pc' \in Live => output'.picture \in seen')
  <2>1. seen' = IF seen = {} THEN {} ELSE seen \cup {output'.picture}
    BY Zenon DEF Paint
  <2>2. pc \in Live => output.picture \in seen
    BY <1>2 DEF OutputInv
  <2> QED BY <1>0, <2>1, <2>2
<1>6. OutputInv'
  BY <1>0, <1>2, <1>4, <1>5, Zenon DEF OutputInv
<1>7. SetupInv'
  BY <1>0, <1>2, Zenon DEF SetupInv
<1>8. PoolInv'
  BY <1>0, <1>2, Zenon DEF PoolInv, Waiting
<1>9. QueueInv'
  BY <1>0, <1>2, <1>4, Zenon DEF QueueInv, Waiting
<1>10. \A q : Changed(q)' = Changed(q)
  BY <1>0, <1>4, Zenon DEF Changed
<1>11. BufferTransform' = BufferTransform /\ Resized' = Resized
  BY <1>0, <1>4, Zenon DEF BufferTransform, Resized
<1>12. ASSUME backend = "ext", resizes = 0
       PROVE  Cells(pool.size) = Cells(output.size)
  BY <1>2, <1>12 DEF ExtInv, Cells
<1>13. ReadyInv'
  <2> SUFFICES ASSUME Waiting', Pending(st', wire', 0)
               PROVE  frame'.stage = "answered" /\ (~Resized' => \E q \in seen' : Holds(q)')
    BY Zenon DEF ReadyInv
  <2>1. frame.stage = "answered" /\ (~Resized => \E q \in seen : Holds(q))
    BY <1>0, <1>2, Zenon DEF ReadyInv, Waiting
  <2>2. ASSUME NEW q \in seen, Holds(q), ~Resized
        PROVE  Holds(q)'
    <3>1. ASSUME backend = "ext"
          PROVE  /\ Described(st', wire', 0, output'.transform, Changed(q)')
                 /\ \A i \in Cells(pool'.size) : q[i] # output'.picture[i] => i \in output'.damage
      <4>1. Described(st', wire', 0, output'.transform, Changed(q)')
        BY <1>0, <1>4, <1>10, <2>2, <3>1, Zenon DEF Holds
      <4>2. resizes = 0
        BY <1>2, <2>2, <3>1 DEF Resized, OutputInv
      <4>3. ASSUME NEW i \in Cells(pool.size), q[i] # output'.picture[i]
            PROVE  i \in output'.damage
        <5>1. q[i] # output.picture[i] => i \in output.damage
          BY <2>2, <3>1, Zenon DEF Holds
        <5>2. i # c => output'.picture[i] = output.picture[i]
          <6>1. i \in Cells(output.size)
            BY <1>12, <3>1, <4>2
          <6> QED BY <1>4, <6>1, Zenon
        <5>3. CASE i = c
          BY <1>4, <5>3, Zenon
        <5>4. CASE i # c
          <6>1. q[i] # output.picture[i]
            BY <4>3, <5>2, <5>4
          <6> QED BY <1>4, <5>1, <6>1, Zenon
        <5> QED BY <5>3, <5>4
      <4> QED BY <1>0, <4>1, <4>3, Zenon
    <3> QED BY <1>0, <1>11, <2>2, <3>1, Zenon DEF Holds
  <2> QED BY <1>0, <1>5, <1>11, <2>1, <2>2, Zenon
<1>14. ExtInv'
  <2> SUFFICES ASSUME backend = "ext", resizes = 0, pc = "idle" \/ ~Pending(st, wire, 0)
               PROVE  Changed(output.picture)' \subseteq output'.damage
    BY <1>0, <1>2, <1>4, Zenon DEF ExtInv
  <2>1. Changed(output.picture) \subseteq output.damage
    BY <1>2, Zenon DEF ExtInv
  <2>2. Changed(output.picture)' \subseteq Changed(output.picture) \cup {c}
    BY <1>0, <1>4, <1>12 DEF Changed
  <2> QED BY <1>4, <2>1, <2>2
<1> QED BY <1>6, <1>7, <1>8, <1>9, <1>13, <1>14, Zenon DEF FrameInv

\* What is captured takes another shape.
LEMMA FrameResize ==
  ASSUME FrameInv, ProtocolInv, Resize
  PROVE  FrameInv'
<1>0. /\ pc \in {"idle", "wait", "phase1", "roundtrip", "phase2", "recv"}
      /\ resizes' = resizes + 1
      /\ UNCHANGED <<desktop, frame, pc, backend, st, pool, returned>>
  BY Zenon DEF Resize, Capturing, setupVars
<1>1. pc # "ended" /\ pc' # "ended" /\ pc \notin Setup
  BY <1>0 DEF Setup
<1>2. OutputInv /\ SetupInv /\ PoolInv /\ QueueInv /\ ReadyInv /\ ExtInv /\ IsSequence(wire)
  BY <1>1, Zenon DEF FrameInv, ProtocolInv
<1>3. PICK o \in desktop.shapes :
        /\ output' = [size |-> o.size, transform |-> o.transform,
                      picture |-> Blank(o.size), damage |-> Cells(o.size)]
        /\ \/ backend = "ext"
              /\ wire' = wire \o <<SizeEvent("BufferSize", o.size), Event("Done")>>
           \/ wire' = wire
  BY Zenon DEF Resize, Send
<1>4. resizes' \in Nat /\ resizes' # 0 /\ resizes' > 0
  BY <1>0, <1>2 DEF OutputInv
<1>5. seen \subseteq seen' /\ (pc' \in Live => output'.picture \in seen')
  <2>1. seen' = IF seen = {} THEN {} ELSE seen \cup {output'.picture}
    BY Zenon DEF Resize
  <2>2. pc \in Live => output.picture \in seen
    BY <1>2 DEF OutputInv
  <2> QED BY <1>0, <2>1, <2>2
<1>6. OutputInv'
  <2>1. desktop \in Desktops
    BY <1>2 DEF OutputInv
  <2>2. /\ OutputFields(output') /\ GoodSize(output'.size)
        /\ output'.transform \in {0, 1, 2, 4, 6} /\ PictureOf(output'.picture, output'.size)
    BY <1>3, <2>1, ShapeGood
  <2> QED BY <1>0, <1>4, <1>5, <2>1, <2>2, Zenon DEF OutputInv
<1>7. SetupInv'
  BY <1>0, <1>1, <1>2, Zenon DEF SetupInv
<1>8. PoolInv'
  BY <1>0, <1>2, Zenon DEF PoolInv, Waiting
<1>9. /\ NoneIs(wire, 0, "Ready") => NoneIs(wire', 0, "Ready")
      /\ Once(st, wire, 0) => Once(st, wire', 0)
      /\ Pending(st, wire', 0) => Pending(st, wire, 0)
  <2> DEFINE v == <<SizeEvent("BufferSize", o.size), Event("Done")>>
             S == {"BufferSize", "Done"}
  <2>1. Says(v, S)
    <3>1. SizeEvent("BufferSize", o.size).ev \in S /\ Event("Done").ev \in S
      BY DEF SizeEvent, Event
    <3> QED BY <3>1, SaysTwo, Zenon
  <2>2. "Ready" \notin S
    OBVIOUS
  <2> HIDE DEF v, S
  <2>3. CASE wire' = wire \o v
    BY <1>2, <2>1, <2>2, <2>3, ReadySent, Zenon
  <2>4. CASE wire' = wire
    BY <2>4, Zenon
  <2> QED BY <1>3, <2>3, <2>4, Zenon DEF v
<1>10. QueueInv'
  <2>1. backend = "ext" => ExtFields(st) /\ Once(st, wire, 0)
    BY <1>2, Zenon DEF QueueInv, ExtQueue
  <2>2. backend = "ext" =>
          ExtQueue(st', wire', 0, resizes' = 0, output'.transform, pool'.size, {})
    BY <1>0, <1>4, <1>9, <2>1, Zenon DEF ExtQueue
  <2>3. backend = "screencopy" => wire' = wire
    BY <1>3
  <2> QED BY <1>0, <1>2, <1>9, <2>2, <2>3, Zenon DEF QueueInv, Waiting
<1>11. ReadyInv'
  <2> SUFFICES ASSUME Waiting', Pending(st', wire', 0)
               PROVE  frame'.stage = "answered" /\ (~Resized' => \E q \in seen' : Holds(q)')
    BY Zenon DEF ReadyInv
  <2>1. frame.stage = "answered" /\ (~Resized => \E q \in seen : Holds(q))
    BY <1>0, <1>2, <1>9, Zenon DEF ReadyInv, Waiting
  <2>2. ~Resized' => backend # "ext" /\ ~Resized
    BY <1>0, <1>4, Zenon DEF Resized
  <2>3. ASSUME NEW q \in seen, Holds(q), backend # "ext"
        PROVE  Holds(q)'
    BY <1>0, <2>3, Zenon DEF Holds, BufferTransform
  <2> QED BY <1>0, <1>5, <2>1, <2>2, <2>3, Zenon
<1>12. ExtInv'
  BY <1>4, Zenon DEF ExtInv
<1> QED BY <1>6, <1>7, <1>8, <1>10, <1>11, <1>12, Zenon DEF FrameInv

\* The frame fails, or the session stops.
LEMMA FrameFails ==
  ASSUME FrameInv, ProtocolInv, NEW v, Says(v, {"Failed", "Stopped"}), wire' = wire \o v,
         UNCHANGED <<desktop, output, resizes, pc, backend, st, pool, returned, seen>>,
         frame'.offer = frame.offer, frame'.format = frame.format,
         frame'.stage \in {"none", "answered"},
         frame.stage = "answered" => frame'.stage = "answered",
         pc \notin Setup
  PROVE  FrameInv'
<1>1. CASE pc = "ended"
  BY <1>1, FrameEnds, Zenon
<1>2. CASE pc # "ended"
  <2>1. OutputInv /\ SetupInv /\ PoolInv /\ QueueInv /\ ReadyInv /\ ExtInv /\ IsSequence(wire)
    BY <1>2, Zenon DEF FrameInv, ProtocolInv
  <2> DEFINE S == {"Failed", "Stopped"}
  <2>2. /\ "Ready" \notin S /\ "Damage" \notin S /\ "Buffer" \notin S
        /\ "BufferSize" \notin S /\ "Transform" \notin S
    OBVIOUS
  <2>3. Says(v, S)
    OBVIOUS
  <2> HIDE DEF S
  <2>4. /\ NoneIs(wire, 0, "Ready") => NoneIs(wire', 0, "Ready")
        /\ Pending(st, wire', 0) <=> Pending(st, wire, 0)
    BY <2>1, <2>2, <2>3, ReadySent, Zenon
  <2>5. OutputInv'
    BY <2>1, Zenon DEF OutputInv
  <2>6. SetupInv'
    BY <2>1, Zenon DEF SetupInv
  <2>7. PoolInv'
    <3>1. frame'.stage \notin {"copying", "writing"}
      OBVIOUS
    <3> QED BY <2>1, <3>1, Zenon DEF PoolInv, Waiting
  <2>8. QueueInv'
    <3>1. backend = "ext" =>
            ExtQueue(st, wire', 0, resizes = 0, output.transform, pool.size, {})
      BY <2>1, <2>2, <2>3, ExtQueueSent, Zenon DEF QueueInv
    <3>2. ASSUME backend = "screencopy"
          PROVE  ScQueue(st, wire', 0, pc \in {"roundtrip", "phase2"}, frame')
      <4>1. ScQueue(st, wire, 0, pc \in {"roundtrip", "phase2"}, frame)
        BY <2>1, <3>2, Zenon DEF QueueInv
      <4>2. ScQueue(st, wire', 0, pc \in {"roundtrip", "phase2"}, frame)
        BY <2>1, <2>2, <2>3, <4>1, ScQueueSent, Zenon
      <4> QED BY <4>2, Zenon DEF ScQueue, Known, Offered
    <3> QED BY <2>1, <2>4, <3>1, <3>2, Zenon DEF QueueInv, Waiting
  <2>9. \A q : Changed(q)' = Changed(q)
    BY Zenon DEF Changed
  <2>10. ReadyInv'
    <3> SUFFICES ASSUME Waiting', Pending(st', wire', 0)
                 PROVE  frame'.stage = "answered" /\ (~Resized' => \E q \in seen' : Holds(q)')
      BY Zenon DEF ReadyInv
    <3>1. frame.stage = "answered" /\ (~Resized => \E q \in seen : Holds(q))
      BY <2>1, <2>4, Zenon DEF ReadyInv, Waiting
    <3>2. Resized' = Resized /\ BufferTransform' = BufferTransform
      BY Zenon DEF Resized, BufferTransform
    <3>3. ASSUME NEW q \in seen, Holds(q), ~Resized
          PROVE  Holds(q)'
      <4>1. ASSUME backend = "ext"
            PROVE  Described(st, wire', 0, output.transform, Changed(q))
        <5>1. resizes = 0
          BY <2>1, <3>3, <4>1 DEF Resized, OutputInv
        <5>2. ExtQueue(st, wire, 0, resizes = 0, output.transform, pool.size, {})
          BY <2>1, <4>1, Zenon DEF QueueInv
        <5>3. ExtQueue(st, wire, 0, TRUE, output.transform, pool.size, Changed(q))
          BY <3>3, <4>1, <5>1, <5>2, Zenon DEF ExtQueue, Holds
        <5>4. ExtQueue(st, wire', 0, TRUE, output.transform, pool.size, Changed(q))
          BY <2>1, <2>2, <2>3, <5>3, ExtQueueSent, Zenon
        <5> QED BY <5>4, Zenon DEF ExtQueue
      <4> QED BY <2>9, <3>2, <3>3, <4>1, Zenon DEF Holds
    <3> QED BY <3>1, <3>2, <3>3, Zenon
  <2>11. ExtInv'
    BY <2>1, <2>4, <2>9, Zenon DEF ExtInv, Changed
  <2> QED BY <2>5, <2>6, <2>7, <2>8, <2>10, <2>11, Zenon DEF FrameInv
<1> QED BY <1>1, <1>2

LEMMA FrameCloses ==
  ASSUME FrameInv, ProtocolInv, TargetCloses
  PROVE  FrameInv'
<1> DEFINE S == {"Failed", "Stopped"}
           v1 == IF frame.stage \in {"none", "answered"} THEN <<>> ELSE <<Event("Failed")>>
           v2 == IF backend = "ext" THEN <<Event("Stopped")>> ELSE <<>>
<1>0. /\ pc \in {"idle", "wait", "phase1", "roundtrip", "phase2", "recv"}
      /\ UNCHANGED <<desktop, output, resizes, pc, backend, st, pool, returned, seen>>
      /\ wire' = wire \o (v1 \o v2)
      /\ frame' = IF frame.stage = "none" THEN frame ELSE [frame EXCEPT !.stage = "answered"]
  BY Zenon DEF TargetCloses, Capturing, setupVars, Send
<1>1. pc \notin Setup
  BY <1>0 DEF Setup
<1>2. Event("Failed").ev \in S /\ Event("Stopped").ev \in S
  BY DEF Event
<1> HIDE DEF S
<1>3. Says(v1, S) /\ Says(v2, S)
  <2>1. Says(<<>>, S) /\ Says(<<Event("Failed")>>, S) /\ Says(<<Event("Stopped")>>, S)
    BY <1>2, SaysNone, SaysOne, Zenon
  <2> QED BY <2>1, Zenon
<1> HIDE DEF v1, v2
<1>4. Says(v1 \o v2, S)
  BY <1>3, SaysBoth
<1>5. /\ frame'.offer = frame.offer /\ frame'.format = frame.format
      /\ frame'.stage \in {"none", "answered"}
      /\ frame.stage = "answered" => frame'.stage = "answered"
  <2>1. FrameFields(frame)
    BY DEF ProtocolInv
  <2>2. CASE frame.stage = "none"
    BY <1>0, <2>2
  <2>3. CASE frame.stage # "none"
    <3>1. frame' = [frame EXCEPT !.stage = "answered"]
      BY <1>0, <2>3
    <3> QED BY <2>1, <3>1, StageSet
  <2> QED BY <2>2, <2>3
<1> QED BY <1>0, <1>1, <1>4, <1>5, FrameFails DEF S

LEMMA FrameOffer ==
  ASSUME FrameInv, ProtocolInv, Offer
  PROVE  FrameInv'
<1>0. /\ frame.stage = "offering"
      /\ UNCHANGED <<desktop, output, resizes, pc, backend, st, pool, returned, seen>>
  BY Zenon DEF Offer, outputVars, setupVars
<1>1. CASE pc = "ended"
  BY <1>0, <1>1, FrameEnds, Zenon
<1>2. CASE pc # "ended"
  <2>1. OutputInv /\ SetupInv /\ PoolInv /\ QueueInv /\ ReadyInv /\ ExtInv /\ IsSequence(wire)
        /\ FrameFields(frame) /\ StageInv
    BY <1>2, Zenon DEF FrameInv, ProtocolInv
  <2>2. pc = "phase1" /\ backend = "screencopy"
    BY <1>0, <1>2, <2>1 DEF StageInv
  <2>3. pc' \notin {"roundtrip", "phase2"} /\ ~Waiting /\ ~Waiting' /\ pc' \in Live /\ pc \notin Setup
        /\ backend' # "ext" /\ pc # "idle" /\ pc # "wait"
    BY <1>0, <2>2 DEF Waiting, Live, Setup
  <2>4. PICK format \in {"xrgb8888", "other", "unknown"} :
          /\ frame' = [frame EXCEPT !.stage = "offered", !.offer = output.size,
                                    !.format = format]
          /\ wire' = wire \o <<[SizeEvent("Buffer", output.size) EXCEPT !.format = format],
                               Event("BufferDone")>>
    BY Zenon DEF Offer, Send
  <2>5. frame'.stage = "offered" /\ frame'.offer = output.size
    <3>1. frame' = [stage |-> "offered", offer |-> output.size, format |-> format,
                    slot |-> frame.slot]
      BY <2>1, <2>4 DEF FrameFields
    <3> QED BY <3>1
  <2> DEFINE v == <<[SizeEvent("Buffer", output.size) EXCEPT !.format = format],
                    Event("BufferDone")>>
             S == {"Buffer", "BufferDone"}
  <2>6. Says(v, S) /\ wire' = wire \o v
    <3> DEFINE e == [SizeEvent("Buffer", output.size) EXCEPT !.format = format]
    <3>1. e.ev \in S /\ Event("BufferDone").ev \in S
      BY DEF SizeEvent, Event
    <3> HIDE DEF S, e
    <3>2. Says(<<e, Event("BufferDone")>>, S)
      BY <3>1, SaysTwo, Zenon
    <3> QED BY <2>4, <3>2 DEF e
  <2>7. "Ready" \notin S /\ "Damage" \notin S
    OBVIOUS
  <2> HIDE DEF v, S
  <2>8. NoneIs(wire', 0, "Ready")
    <3>1. NoneIs(wire, 0, "Ready")
      BY <2>1, <2>3, Zenon DEF QueueInv
    <3> QED BY <2>1, <2>6, <2>7, <3>1, ReadySent, Zenon
  <2>9. ScQueue(st', wire', 0, pc' \in {"roundtrip", "phase2"}, frame')
    <3>1. ScQueue(st, wire, 0, FALSE, frame)
      BY <1>0, <2>1, <2>2, <2>3, Zenon DEF QueueInv, ScQueue
    <3>2. ScQueue(st, wire \o v, 0, FALSE, frame)
      BY <2>1, <2>6, <2>7, <3>1, ScQueueSent
    <3> QED BY <1>0, <2>3, <2>6, <3>2, Zenon DEF ScQueue
  <2>10. OutputInv'
    BY <1>0, <2>1, Zenon DEF OutputInv
  <2>11. SetupInv'
    BY <1>0, <2>1, <2>3, Zenon DEF SetupInv
  <2>12. PoolInv'
    <3>1. GoodSize(output.size) /\ frame'.stage \notin {"copying", "writing"}
      BY <2>1, <2>5 DEF OutputInv
    <3> QED BY <1>0, <2>1, <2>3, <2>5, <3>1, Zenon DEF PoolInv
  <2>13. QueueInv'
    BY <1>0, <2>1, <2>3, <2>8, <2>9, Zenon DEF QueueInv
  <2>14. ReadyInv' /\ ExtInv'
    BY <2>3, Zenon DEF ReadyInv, ExtInv
  <2> QED BY <2>10, <2>11, <2>12, <2>13, <2>14, Zenon DEF FrameInv
<1> QED BY <1>1, <1>2

\* A buffer of the pool is written to.
Written(p, i, x) == [p EXCEPT !.slots[i] = x]

LEMMA WrittenPool ==
  ASSUME NEW p, PoolOk(p), NEW x, Buffer(x, Bytes(p.size)), NEW u, u = Written(p, p.active, x)
  PROVE  /\ PoolOk(u) /\ u.size = p.size /\ u.active = p.active /\ u.format = p.format
         /\ u.slots[u.active] = x
<1>1. /\ p = [size |-> p.size, format |-> p.format, active |-> p.active, slots |-> p.slots]
      /\ GoodSize(p.size) /\ p.active \in {1, 2} /\ p.slots = <<p.slots[1], p.slots[2]>>
      /\ Buffer(p.slots[1], Bytes(p.size)) /\ Buffer(p.slots[2], Bytes(p.size))
  BY DEF PoolOk
<1> DEFINE y == [p.slots EXCEPT ![p.active] = x]
<1>2. u = [size |-> p.size, format |-> p.format, active |-> p.active, slots |-> y]
  BY <1>1 DEF Written
<1>3. CASE p.active = 1
  <2>1. y = <<x, p.slots[2]>>
    BY <1>1, <1>3
  <2> HIDE DEF y
  <2>2. y[1] = x /\ y[2] = p.slots[2]
    BY <2>1
  <2>3. u.size = p.size /\ u.format = p.format /\ u.active = p.active /\ u.slots = y
        /\ u = [size |-> u.size, format |-> u.format, active |-> u.active, slots |-> u.slots]
    BY <1>2
  <2>4. u.slots = <<u.slots[1], u.slots[2]>>
    BY <2>1, <2>2, <2>3, Zenon
  <2> QED BY <1>1, <1>3, <2>2, <2>3, <2>4, Zenon DEF PoolOk
<1>4. CASE p.active = 2
  <2>1. y = <<p.slots[1], x>>
    BY <1>1, <1>4
  <2> HIDE DEF y
  <2>2. y[1] = p.slots[1] /\ y[2] = x
    BY <2>1
  <2>3. u.size = p.size /\ u.format = p.format /\ u.active = p.active /\ u.slots = y
        /\ u = [size |-> u.size, format |-> u.format, active |-> u.active, slots |-> u.slots]
    BY <1>2
  <2>4. u.slots = <<u.slots[1], u.slots[2]>>
    BY <2>1, <2>2, <2>3, Zenon
  <2> QED BY <1>1, <1>4, <2>2, <2>3, <2>4, Zenon DEF PoolOk
<1> QED BY <1>1, <1>3, <1>4

\* Every buffer of the pool is memory for a frame.
LEMMA ActiveBuffer ==
  ASSUME NEW p, PoolOk(p)
  PROVE  /\ Buffer(p.slots[p.active], Bytes(p.size)) /\ GoodSize(p.size)
         /\ Bytes(p.size) \in Nat
<1>1. GoodSize(p.size) /\ p.active \in {1, 2}
      /\ Buffer(p.slots[1], Bytes(p.size)) /\ Buffer(p.slots[2], Bytes(p.size))
  BY DEF PoolOk
<1>2. Bytes(p.size) \in Nat
  BY <1>1, ProductIsNat DEF GoodSize, Bytes
<1> QED BY <1>1, <1>2

LEMMA FrameStartCopy ==
  ASSUME FrameInv, ProtocolInv, StartCopy
  PROVE  FrameInv'
<1>0. /\ frame.stage = "copying"
      /\ UNCHANGED <<desktop, output, resizes, pc, backend, st, returned, seen>>
  BY Zenon DEF StartCopy, outputVars, setupVars
<1>1. CASE pc = "ended"
  BY <1>0, <1>1, FrameEnds, Zenon
<1>2. CASE pc # "ended"
  <2>1. OutputInv /\ SetupInv /\ PoolInv /\ QueueInv /\ ReadyInv /\ ExtInv /\ IsSequence(wire)
        /\ FrameFields(frame) /\ StageInv
    BY <1>2, Zenon DEF FrameInv, ProtocolInv
  <2>2. Waiting /\ frame.slot = pool.active
    BY <1>0, <2>1 DEF PoolInv
  <2>3. pc \notin Setup
    BY <2>2 DEF Waiting, Setup
  <2>4. CASE /\ frame' = [frame EXCEPT !.stage = "answered"] /\ pool' = pool
             /\ wire' = wire \o <<Event("Failed")>>
    <3>1. frame'.offer = frame.offer /\ frame'.format = frame.format
          /\ frame'.stage = "answered"
      BY <2>1, <2>4, StageSet
    <3>2. Event("Failed").ev \in {"Failed", "Stopped"}
      BY DEF Event
    <3>3. Says(<<Event("Failed")>>, {"Failed", "Stopped"})
      BY <3>2, SaysOne
    <3> DEFINE v == <<Event("Failed")>>
    <3> HIDE DEF v
    <3>4. Says(v, {"Failed", "Stopped"}) /\ wire' = wire \o v
      BY <2>4, <3>3 DEF v
    <3>5. frame'.stage \in {"none", "answered"}
      BY <3>1
    <3> QED BY <1>0, <2>3, <2>4, <3>1, <3>4, <3>5, FrameFails, Zenon
  <2>5. CASE /\ frame' = [frame EXCEPT !.stage = "writing"] /\ wire' = wire
             /\ pool' = [pool EXCEPT !.slots[frame.slot] = [i \in DOMAIN @ |-> Torn]]
    <3>1. frame'.offer = frame.offer /\ frame'.format = frame.format
          /\ frame'.stage = "writing" /\ frame'.slot = frame.slot
      <4>1. frame' = [stage |-> "writing", offer |-> frame.offer, format |-> frame.format,
                      slot |-> frame.slot]
        BY <2>1, <2>5 DEF FrameFields
      <4> QED BY <4>1
    <3>2. PoolOk(pool)
      BY <2>1, <2>2 DEF PoolInv, Waiting, SetupInv
    <3> DEFINE old == pool.slots[pool.active]
               x == [i \in DOMAIN old |-> Torn]
               n == Bytes(pool.size)
    <3>3. Buffer(old, n) /\ n \in Nat
      BY <3>2, ActiveBuffer
    <3>4. Buffer(x, n)
      <4>1. DOMAIN old = 1 .. n
        BY <3>3, BufferPlaces
      <4>2. x = [i \in 1 .. n |-> x[i]]
        BY <4>1
      <4> HIDE DEF x, n
      <4> QED BY <3>3, <4>2, BufferOf
    <3>5. pool' = Written(pool, pool.active, x)
      BY <2>2, <2>5, Zenon DEF Written
    <3> HIDE DEF x
    <3>6. PoolOk(pool') /\ pool'.size = pool.size /\ pool'.active = pool.active
      BY <3>2, <3>4, <3>5, WrittenPool
    <3>7. ~Pending(st, wire, 0)
      <4>1. frame.stage # "answered"
        BY <1>0
      <4> QED BY <2>1, <2>2, <4>1, Zenon DEF ReadyInv
    <3>8. OutputInv'
      BY <1>0, <2>1, Zenon DEF OutputInv
    <3>9. SetupInv'
      BY <1>0, <2>1, <2>3, Zenon DEF SetupInv
    <3>10. PoolInv'
      BY <1>0, <2>1, <2>2, <3>1, <3>6, Zenon DEF PoolInv, Waiting
    <3>11. QueueInv'
      <4>1. backend = "screencopy" => ScQueue(st', wire', 0, pc' \in {"roundtrip", "phase2"}, frame')
        BY <1>0, <2>1, <2>5, <3>1, Zenon DEF QueueInv, ScQueue, Known, Offered
      <4> QED BY <1>0, <2>1, <2>5, <3>6, <4>1, Zenon DEF QueueInv, Waiting
    <3>12. ReadyInv'
      BY <1>0, <2>5, <3>7, Zenon DEF ReadyInv
    <3>13. ExtInv'
      BY <1>0, <2>1, <2>5, <3>6, <3>7, Zenon DEF ExtInv, Changed
    <3> QED BY <3>8, <3>9, <3>10, <3>11, <3>12, <3>13, Zenon DEF FrameInv
  <2> QED BY <2>4, <2>5, Zenon DEF StartCopy, Send
<1> QED BY <1>1, <1>2

\* Without a transform the damage of the buffer is the damage of the picture.
LEMMA UprightDamage ==
  ASSUME OutputInv, output.transform = 0
  PROVE  \A c \in Cells(output.size) : c \in output.damage => c \in BufferDamage
<1> DEFINE w == Width(output.size)
           h == Height(output.size)
<1>1. w \in Nat \ {0} /\ h \in Nat \ {0} /\ Cells(output.size) = 1 .. w * h
  BY DEF OutputInv, GoodSize, Cells
<1>2. ASSUME NEW c \in Cells(output.size), c \in output.damage
      PROVE  c \in BufferDamage
  <2> DEFINE r == (c - 1) \div w
             k == (c - 1) % w
  <2>1. c = 1 + (r * w + k)
    <3>1. c \in 1 .. w * h
      BY <1>1
    <3> HIDE DEF w, h
    <3> QED BY <1>1, <3>1, CellPlace
  <2>2. SourceCell(output.size, output.transform, r, k) = 1 + (r * w + k)
    BY DEF SourceCell
  <2>3. SourceCell(output.size, output.transform, r, k) \in output.damage
    BY <1>2, <2>1, <2>2, Zenon
  <2> QED BY <1>2, <2>3, Zenon DEF BufferDamage
<1> QED BY <1>2

LEMMA SameCells ==
  ASSUME NEW a, NEW b, Width(a) = Width(b), Height(a) = Height(b)
  PROVE  Cells(a) = Cells(b) /\ \A p : PictureOf(p, a) => PictureOf(p, b)
  BY Zenon DEF Cells, PictureOf

\* The compositor has copied the picture.
LEMMA FrameCopied ==
  ASSUME FrameInv, ProtocolInv, FinishCopy, pc # "ended",
         Width(frame.offer) = Width(output.size), Height(frame.offer) = Height(output.size)
  PROVE  FrameInv'
<1>0. /\ frame.stage = "writing" /\ frame' = [frame EXCEPT !.stage = "answered"]
      /\ UNCHANGED <<desktop, resizes, pc, backend, st, returned, seen>>
  BY Zenon DEF FinishCopy, setupVars
<1>1. OutputInv /\ SetupInv /\ PoolInv /\ QueueInv /\ ReadyInv /\ ExtInv /\ IsSequence(wire)
      /\ FrameFields(frame) /\ StageInv
  BY Zenon DEF FrameInv, ProtocolInv
<1>2. Waiting /\ frame.slot = pool.active /\ frame.offer = pool.size
  BY <1>0, <1>1 DEF PoolInv
<1>3. /\ pc \notin Setup /\ pc \in Live /\ pc # "idle" /\ pc \notin {"phase1", "roundtrip"}
      /\ backend = "ext" \/ (pc = "phase2" /\ backend = "screencopy")
  BY <1>1, <1>2 DEF Waiting, Setup, Live, SetupInv, StageInv
<1>4. PoolOk(pool)
  BY <1>1, <1>3, Zenon DEF PoolInv
<1> DEFINE old == pool.slots[pool.active]
           x == Render(old)
           n == Bytes(pool.size)
<1>q. PICK q : q = output.picture
  OBVIOUS
<1>5. Buffer(old, n) /\ n \in Nat /\ GoodSize(pool.size)
  BY <1>4, ActiveBuffer
<1>6. Buffer(x, n) /\ Shows(x, pool.size, BufferTransform, q)
  <2>1. GoodSize(output.size) /\ Width(pool.size) = Width(output.size)
        /\ Height(pool.size) = Height(output.size)
    BY <1>1, <1>2 DEF OutputInv
  <2> QED BY <1>q, <1>5, <2>1, RenderShows
<1>7. pool' = Written(pool, pool.active, x)
  BY <1>2, Zenon DEF Written, FinishCopy
<1> HIDE DEF x, n
<1>8. PoolOk(pool') /\ pool'.size = pool.size /\ pool'.active = pool.active
      /\ pool'.slots[pool'.active] = x
  <2>1. Buffer(x, Bytes(pool.size))
    BY <1>6 DEF n
  <2>2. pool.active \in {1, 2}
    BY <1>4 DEF PoolOk
  <2> HIDE DEF old
  <2> QED BY <1>4, <1>7, <2>1, <2>2, WrittenPool
<1>9. /\ output'.size = output.size /\ output'.transform = output.transform
      /\ output'.picture = q /\ output'.damage = {} /\ OutputFields(output')
  <2>1. output' = [size |-> output.size, transform |-> output.transform,
                   picture |-> q, damage |-> {}]
    <3>1. OutputFields(output) /\ output' = [output EXCEPT !.damage = {}]
      BY <1>1, Zenon DEF FinishCopy, OutputInv
    <3> QED BY <1>q, <3>1 DEF OutputFields
  <2> QED BY <2>1 DEF OutputFields
<1>10. frame'.offer = frame.offer /\ frame'.format = frame.format /\ frame'.stage = "answered"
  BY <1>0, <1>1, StageSet
<1>11. ~Pending(st, wire, 0)
  <2>1. frame.stage # "answered"
    BY <1>0
  <2> QED BY <1>1, <1>2, <2>1, Zenon DEF ReadyInv
<1>12. /\ BufferTransform' = BufferTransform /\ Resized' = Resized
       /\ Changed(q)' = Changed(q)
  BY <1>0, <1>8, <1>9, Zenon DEF BufferTransform, Resized, Changed
<1>13. Cells(pool.size) = Cells(output.size) /\ PictureOf(q, pool.size) /\ q \in seen
  <2>1. PictureOf(q, output.size) /\ q \in seen
    BY <1>q, <1>1, <1>3, Zenon DEF OutputInv
  <2> QED BY <1>2, <2>1, SameCells
<1>14. ASSUME backend = "ext"
       PROVE  /\ ExtQueue(st, wire', 0, resizes = 0, output.transform, pool.size, {})
              /\ resizes = 0 => Described(st, wire', 0, output.transform, Changed(q))
              /\ Pending(st, wire', 0)
  <2>1. wire' = wire \o Answer(output.transform, BufferDamage)
    BY <1>14, Zenon DEF Answer, FinishCopy, Send
  <2>3. ExtQueue(st, wire, 0, resizes = 0, output.transform, pool.size, {})
    BY <1>1, <1>14, Zenon DEF QueueInv
  <2>4. {} \subseteq BufferDamage
    OBVIOUS
  <2>5. /\ ExtQueue(st, wire', 0, resizes = 0, output.transform, pool.size, {})
        /\ Pending(st, wire', 0)
    BY <1>1, <1>11, <2>1, <2>3, <2>4, ExtAnswered, Zenon
  <2>6. ASSUME resizes = 0
        PROVE  Described(st, wire', 0, output.transform, Changed(q))
    <3>1. Changed(q) \subseteq output.damage
      BY <1>q, <1>1, <1>11, <1>14, <2>6, Zenon DEF ExtInv
    <3>2. Changed(q) \subseteq BufferDamage
      <4>1. CASE output.transform = 0
        <5>1. \A c \in Cells(pool.size) : c \in output.damage => c \in BufferDamage
          BY <1>1, <1>13, <4>1, UprightDamage
        <5>2. Changed(q) \subseteq Cells(pool.size)
          BY DEF Changed
        <5> QED BY <3>1, <5>1, <5>2
      <4>2. CASE output.transform # 0
        <5>1. Changed(q) = {}
          BY <4>2 DEF Changed
        <5> QED BY <5>1
      <4> QED BY <4>1, <4>2
    <3>3. ExtQueue(st, wire', 0, resizes = 0, output.transform, pool.size, Changed(q))
      BY <1>1, <1>11, <2>1, <2>3, <3>2, ExtAnswered, Zenon
    <3> QED BY <2>6, <3>3, Zenon DEF ExtQueue
  <2> QED BY <2>5, <2>6
<1>15. ASSUME backend = "screencopy"
       PROVE  ScQueue(st, wire', 0, pc \in {"roundtrip", "phase2"}, frame')
  <2> DEFINE re == Event("Ready")
  <2>1. wire' = wire \o (<<>> \o <<re>>)
    BY <1>15 DEF FinishCopy, Send
  <2>2. re.ev = "Ready"
    BY DEF Event
  <2> HIDE DEF re
  <2>3. ScQueue(st, wire, 0, pc \in {"roundtrip", "phase2"}, frame)
    BY <1>1, <1>15, Zenon DEF QueueInv
  <2>4. ScQueue(st, wire', 0, pc \in {"roundtrip", "phase2"}, frame)
    BY <1>1, <1>11, <2>1, <2>2, <2>3, ScReadySent, Zenon
  <2> QED BY <1>10, <2>4, Zenon DEF ScQueue, Known, Offered
<1>16. OutputInv'
  <2>1. PictureOf(output'.picture, output'.size) /\ output'.picture \in seen'
    BY <1>q, <1>0, <1>1, <1>9, <1>13 DEF OutputInv
  <2> QED BY <1>0, <1>1, <1>9, <2>1, Zenon DEF OutputInv
<1>17. SetupInv'
  BY <1>0, <1>1, <1>3, Zenon DEF SetupInv
<1>18. PoolInv'
  <2>1. frame'.stage \notin {"copying", "writing"}
    BY <1>10
  <2> QED BY <1>0, <1>1, <1>2, <1>8, <1>10, <2>1, Zenon DEF PoolInv, Waiting
<1>19. QueueInv'
  <2>1. Waiting'
    BY <1>0, <1>2, Zenon DEF Waiting
  <2> QED BY <1>0, <1>3, <1>8, <1>9, <1>14, <1>15, <2>1, Zenon DEF QueueInv
<1>20. ReadyInv'
  <2>1. ~Resized => Holds(q)'
    <3> SUFFICES ASSUME ~Resized PROVE Holds(q)'
      OBVIOUS
    <3>1. backend = "ext" => resizes = 0
      BY <1>1 DEF Resized, OutputInv
    <3>2. backend = "ext" => Described(st', wire', 0, output'.transform, Changed(q)')
      BY <1>0, <1>9, <1>12, <1>14, <3>1, Zenon
    <3>3. \A c \in Cells(pool'.size) : q[c] # output'.picture[c] => c \in output'.damage
      BY <1>9, Zenon
    <3>4. PictureOf(q, pool'.size)
          /\ Shows(pool'.slots[pool'.active], pool'.size, BufferTransform', q)
      BY <1>6, <1>8, <1>12, <1>13, Zenon
    <3> QED BY <1>0, <3>2, <3>3, <3>4, Zenon DEF Holds
  <2> QED BY <1>0, <1>10, <1>12, <1>13, <2>1, Zenon DEF ReadyInv
<1>21. ExtInv'
  <2> SUFFICES ASSUME backend = "ext", resizes = 0
               PROVE  ExtInv'
    BY <1>0, Zenon DEF ExtInv
  <2>1. Pending(st', wire', 0) /\ pc' # "idle"
    BY <1>0, <1>3, <1>14, Zenon
  <2> QED BY <1>0, <1>1, <1>8, <1>9, <2>1, Zenon DEF ExtInv
<1> QED BY <1>16, <1>17, <1>18, <1>19, <1>20, <1>21, Zenon DEF FrameInv

LEMMA FrameFinishCopy ==
  ASSUME FrameInv, ProtocolInv, FinishCopy
  PROVE  FrameInv'
<1>0. /\ frame.stage = "writing" /\ frame' = [frame EXCEPT !.stage = "answered"]
      /\ UNCHANGED <<desktop, resizes, pc, backend, st, returned, seen>>
  BY Zenon DEF FinishCopy, setupVars
<1>1. CASE pc # "ended" /\ Width(frame.offer) = Width(output.size)
           /\ Height(frame.offer) = Height(output.size)
  BY <1>1, FrameCopied, Zenon
<1>2. CASE ~(Width(frame.offer) = Width(output.size)
             /\ Height(frame.offer) = Height(output.size))
  <2> DEFINE v == <<Event("Failed")>>
  <2>1. wire' = wire \o v /\ pool' = pool /\ output' = output
    BY <1>2, Zenon DEF FinishCopy, Send
  <2>2. Event("Failed").ev \in {"Failed", "Stopped"}
    BY DEF Event
  <2>3. Says(v, {"Failed", "Stopped"})
    BY <2>2, SaysOne
  <2> HIDE DEF v
  <2>4. frame'.offer = frame.offer /\ frame'.format = frame.format /\ frame'.stage = "answered"
    BY <1>0, StageSet DEF ProtocolInv
  <2>5. frame'.stage \in {"none", "answered"}
    BY <2>4
  <2>6. pc \notin Setup
    <3>1. pc # "ended" => Waiting
      BY <1>0, Zenon DEF FrameInv, PoolInv
    <3> QED BY <3>1 DEF Setup, Waiting
  <2> QED BY <1>0, <2>1, <2>3, <2>4, <2>5, <2>6, FrameFails, Zenon
<1>3. CASE pc = "ended"
  <2>1. OutputFields(output)
    BY DEF FrameInv, OutputInv
  <2>2. output' = output \/ output' = [output EXCEPT !.damage = {}]
    BY Zenon DEF FinishCopy
  <2>3. /\ output'.size = output.size /\ output'.transform = output.transform
        /\ output'.picture = output.picture /\ OutputFields(output')
    <3>1. CASE output' = output
      BY <2>1, <3>1
    <3>2. CASE output' = [output EXCEPT !.damage = {}]
      <4>1. output' = [size |-> output.size, transform |-> output.transform,
                       picture |-> output.picture, damage |-> {}]
        BY <2>1, <3>2 DEF OutputFields
      <4> QED BY <4>1 DEF OutputFields
    <3> QED BY <2>2, <3>1, <3>2
  <2>4. OutputInv'
    BY <1>0, <2>3, Zenon DEF FrameInv, OutputInv
  <2> QED BY <1>0, <1>3, <2>4, Zenon DEF FrameInv
<1> QED BY <1>1, <1>2, <1>3

\* The heads of next_frame.
LEMMA FrameExtNext ==
  ASSUME FrameInv, ProtocolInv, ExtNextFrame
  PROVE  FrameInv'
<1>0. /\ pc = "idle" /\ backend = "ext" /\ ~Waiting /\ pc # "ended"
      /\ UNCHANGED <<desktop, output, resizes, wire, pool, returned, backend>>
  BY Zenon DEF ExtNextFrame, clientOnly, outputVars, setupVars, Waiting
<1>1. OutputInv /\ SetupInv /\ PoolInv /\ QueueInv /\ ReadyInv /\ ExtInv
  BY <1>0, Zenon DEF FrameInv
<1>2. CASE st.stopped
  <2>1. pc' = "ended"
    BY <1>2, Zenon DEF ExtNextFrame
  <2> QED BY <1>0, <2>1, FrameEnds, Zenon
<1>3. CASE ~st.stopped
  <2>1. /\ st' = Ext!reset_frame(st) /\ seen' = {output.picture} /\ pc' = "wait"
        /\ frame' = [stage |-> "copying", offer |-> pool.size, format |-> "none",
                     slot |-> pool.active]
    BY <1>3, Zenon DEF ExtNextFrame, Request
  <2>2. frame'.stage = "copying" /\ frame'.offer = pool.size /\ frame'.slot = pool.active
    BY <2>1
  <2>3. pc' \notin Setup /\ Waiting' /\ pc' # "idle" /\ pc' \notin {"phase1", "roundtrip", "phase2"}
        /\ pc' \in {"idle", "wait"}
    BY <2>1 DEF Setup, Waiting
  <2>4. PoolOk(pool) /\ GoodSize(pool.size)
    BY <1>0, <1>1 DEF PoolInv, PoolOk
  <2>5. ExtQueue(st, wire, 0, resizes = 0, output.transform, pool.size, {})
        /\ NoneIs(wire, 0, "Ready")
    BY <1>0, <1>1, Zenon DEF QueueInv
  <2>6. st'.frame_ready = FALSE /\ st'.size = st.size /\ ExtFields(st')
    <3>1. ExtFields(st)
      BY <2>5, Zenon DEF ExtQueue
    <3>2. st' = [size |-> st.size, session_ready |-> st.session_ready, frame_ready |-> FALSE,
                 frame_transform |-> st.frame_transform, frame_failed |-> FALSE,
                 damage_rects |-> {}, stopped |-> st.stopped]
      BY <2>1, <3>1 DEF ExtFields, Ext!reset_frame
    <3> QED BY <3>2 DEF ExtFields
  <2>7. ~st'.frame_ready
    BY <2>6
  <2>8. ~Pending(st', wire, 0) /\ Once(st', wire, 0) /\ Described(st', wire, 0, output.transform, {})
    <3>1. Once(st, wire, 0)
      BY <2>5, Zenon DEF ExtQueue
    <3>2. Described(st', wire, 0, output.transform, {})
      BY <2>5, <2>7, Zenon DEF Described, NoneIs
    <3> QED BY <2>5, <2>7, <3>1, <3>2, Zenon DEF Pending, Once
  <2>9. resizes = 0 => Steady(st', wire, 0, output.transform, pool.size)
    BY <2>5, <2>6, Zenon DEF ExtQueue, Steady
  <2>10. ExtQueue(st', wire, 0, resizes = 0, output.transform, pool.size, {})
    BY <2>6, <2>8, <2>9, Zenon DEF ExtQueue
  <2>11. OutputInv'
    BY <1>0, <1>1, <2>1, OutputKept, Zenon
  <2>12. SetupInv'
    BY <1>0, <2>3, Zenon DEF SetupInv
  <2>13. PoolInv'
    BY <1>0, <2>2, <2>3, <2>4, Zenon DEF PoolInv
  <2>14. QueueInv'
    <3>1. backend' # "screencopy"
      BY <1>0
    <3> QED BY <1>0, <2>3, <2>10, <3>1, Zenon DEF QueueInv
  <2>15. ReadyInv'
    BY <1>0, <2>8, Zenon DEF ReadyInv
  <2>16. ExtInv'
    BY <1>0, <1>1, <2>1, Zenon DEF ExtInv, Changed
  <2> QED BY <2>11, <2>12, <2>13, <2>14, <2>15, <2>16, Zenon DEF FrameInv
<1> QED BY <1>2, <1>3

LEMMA FrameScNext ==
  ASSUME FrameInv, ProtocolInv, ScNextFrame
  PROVE  FrameInv'
<1>0. /\ pc = "idle" /\ backend = "screencopy" /\ ~Waiting /\ pc # "ended"
      /\ UNCHANGED <<desktop, output, resizes, wire, pool, returned, backend>>
  BY Zenon DEF ScNextFrame, clientOnly, outputVars, setupVars, Waiting
<1>1. OutputInv /\ SetupInv /\ PoolInv /\ QueueInv /\ ReadyInv /\ ExtInv
  BY <1>0, Zenon DEF FrameInv
<1>2. CASE st.stopped
  <2>1. pc' = "ended"
    BY <1>2, Zenon DEF ScNextFrame
  <2> QED BY <1>0, <2>1, FrameEnds, Zenon
<1>3. CASE ~st.stopped
  <2>1. /\ st' = Sc!reset_frame(st) /\ seen' = {output.picture} /\ pc' = "phase1"
        /\ frame' = [stage |-> "offering", offer |-> NoSize, format |-> "none", slot |-> 0]
    BY <1>3, Zenon DEF ScNextFrame, Request
  <2>2. frame'.stage \notin {"copying", "writing"} /\ frame'.offer = NoSize
    BY <2>1
  <2>3. pc' \notin Setup /\ ~Waiting' /\ pc' \notin {"roundtrip", "phase2"} /\ pc' # "wait"
        /\ backend' # "ext"
    BY <1>0, <2>1 DEF Setup, Waiting
  <2>4. StateFields(st) /\ Once(st, wire, 0) /\ NoneIs(wire, 0, "Damage")
        /\ NoneIs(wire, 0, "Ready")
    BY <1>0, <1>1, Zenon DEF QueueInv, ScQueue
  <2>5. st'.frame_ready = FALSE /\ st'.damage_rects = {} /\ StateFields(st')
    <3>1. st' = [size |-> st.size, format |-> st.format, buffer_done |-> FALSE,
                 frame_ready |-> FALSE, frame_failed |-> FALSE,
                 damage_rects |-> {}, stopped |-> st.stopped]
      BY <2>1, <2>4 DEF StateFields, Sc!reset_frame
    <3> QED BY <3>1 DEF StateFields
  <2>6. ~st'.frame_ready
    BY <2>5
  <2>7. Once(st', wire, 0)
    BY <2>4, <2>6, Zenon DEF Once
  <2>8. ScQueue(st', wire', 0, pc' \in {"roundtrip", "phase2"}, frame')
    BY <1>0, <2>3, <2>4, <2>5, <2>7, Zenon DEF ScQueue
  <2>9. OutputInv'
    BY <1>0, <1>1, <2>1, OutputKept, Zenon
  <2>10. SetupInv'
    BY <1>0, <2>3, Zenon DEF SetupInv
  <2>11. PoolInv'
    BY <1>0, <1>1, <2>2, <2>3, Zenon DEF PoolInv
  <2>12. QueueInv'
    BY <1>0, <2>3, <2>4, <2>6, <2>8, Zenon DEF QueueInv
  <2>13. ReadyInv' /\ ExtInv'
    BY <2>3, Zenon DEF ReadyInv, ExtInv
  <2> QED BY <2>9, <2>10, <2>11, <2>12, <2>13, Zenon DEF FrameInv
<1> QED BY <1>2, <1>3

\* Whatever events the socket holds, they are handled.
LEMMA FrameDispatch ==
  ASSUME FrameInv, ProtocolInv, Dispatch
  PROVE  FrameInv'
<1>0. /\ pc \in Live /\ pc # "ended" /\ pc \notin Setup /\ pc # "roundtrip" /\ pc # "idle"
      /\ UNCHANGED <<desktop, output, resizes, frame, pc, backend, pool, returned, seen>>
  <2>1. /\ pc \in {"wait", "phase1", "phase2"}
        /\ UNCHANGED <<desktop, output, resizes, frame, pc, backend, pool, returned, seen>>
    BY DEF Dispatch, clientOnly, outputVars, setupVars
  <2> QED BY <2>1 DEF Live, Setup
<1>1. OutputInv /\ SetupInv /\ PoolInv /\ QueueInv /\ ReadyInv /\ ExtInv /\ IsSequence(wire)
      /\ StageInv
  BY <1>0, Zenon DEF FrameInv, ProtocolInv
<1>2. PICK k \in 1 .. Len(wire) :
        /\ st' = Handled(st, SubSeq(wire, 1, k))
        /\ wire' = SubSeq(wire, k + 1, Len(wire))
  BY <1>1, SequenceLength, Zenon DEF Dispatch
<1>3. FirstOf(SubSeq(wire, 1, k), wire, k) /\ Shifted(wire', wire, k)
  BY <1>1, <1>2, DispatchQueue, Zenon
<1>4. backend = "ext" \/ backend = "screencopy"
  BY <1>0, <1>1 DEF SetupInv, StageInv, Live
<1>5. ASSUME backend = "ext", NEW STATE b, NEW STATE d,
             ExtQueue(st, wire, 0, b, output.transform, pool.size, d)
      PROVE  /\ ExtQueue(st', wire', 0, b, output.transform, pool.size, d)
             /\ Pending(st', wire', 0) <=> Pending(st, wire, 0)
  <2>1. /\ ExtQueue(st', wire, k, b, output.transform, pool.size, d)
        /\ Pending(st', wire, k) <=> Pending(st, wire, 0)
    BY <1>2, <1>3, <1>5, ExtPrefix
  <2> QED BY <1>3, <2>1, ExtQueueRest, ShiftedReady, Zenon
<1>6. ASSUME backend = "screencopy"
      PROVE  /\ ScQueue(st', wire', 0, pc \in {"roundtrip", "phase2"}, frame)
             /\ Pending(st', wire', 0) <=> Pending(st, wire, 0)
  <2>1. ScQueue(st, wire, 0, pc \in {"roundtrip", "phase2"}, frame)
    BY <1>1, <1>6, Zenon DEF QueueInv
  <2>2. /\ ScQueue(st', wire, k, pc \in {"roundtrip", "phase2"}, frame)
        /\ Pending(st', wire, k) <=> Pending(st, wire, 0)
    BY <1>2, <1>3, <1>6, <2>1, ScPrefix
  <2> QED BY <1>3, <2>2, ScQueueRest, ShiftedReady, Zenon
<1>7. backend = "ext" =>
        ExtQueue(st', wire', 0, resizes = 0, output.transform, pool.size, {})
  BY <1>1, <1>5, Zenon DEF QueueInv
<1>8. Pending(st', wire', 0) <=> Pending(st, wire, 0)
  <2>1. backend = "ext" =>
          ExtQueue(st, wire, 0, resizes = 0, output.transform, pool.size, {})
    BY <1>1, Zenon DEF QueueInv
  <2> QED BY <1>4, <1>5, <1>6, <2>1, Zenon
<1>9. Waiting' <=> Waiting
  BY <1>0, Zenon DEF Waiting
<1>10. OutputInv'
  BY <1>0, <1>1, OutputKept, Zenon
<1>11. SetupInv'
  BY <1>0, <1>1, Zenon DEF SetupInv
<1>12. PoolInv'
  BY <1>0, <1>1, <1>9, Zenon DEF PoolInv
<1>13. QueueInv'
  <2>1. ~Waiting => ~Pending(st', wire', 0)
    <3> SUFFICES ASSUME ~Waiting PROVE ~Pending(st, wire, 0)
      BY <1>8, Zenon
    <3>1. pc = "phase1"
      BY <1>0 DEF Waiting, Live
    <3>2. ~st.frame_ready /\ NoneIs(wire, 0, "Ready")
      BY <1>1, <3>1 DEF QueueInv
    <3> QED BY <3>2, Zenon DEF Pending
  <2>2. ~Waiting => NoneIs(wire', 0, "Ready") /\ ~st'.frame_ready
    BY <2>1, Zenon DEF Pending
  <2>3. pc \in {"phase1", "roundtrip"} => ~Waiting
    BY DEF Waiting
  <2> QED BY <1>0, <1>6, <1>7, <1>9, <2>2, <2>3, Zenon DEF QueueInv
<1>14. ReadyInv'
  <2> SUFFICES ASSUME Waiting, Pending(st, wire, 0)
               PROVE  /\ frame.stage = "answered"
                      /\ ~Resized => \E q \in seen : Holds(q)'
    BY <1>0, <1>8, <1>9, Zenon DEF ReadyInv, Resized
  <2>1. frame.stage = "answered" /\ (~Resized => \E q \in seen : Holds(q))
    BY <1>1, Zenon DEF ReadyInv
  <2>2. ASSUME ~Resized, NEW q \in seen, Holds(q)
        PROVE  Holds(q)'
    <3>1. Changed(q)' = Changed(q) /\ BufferTransform' = BufferTransform
      BY <1>0, Zenon DEF Changed, BufferTransform
    <3>2. backend = "ext" => Described(st', wire', 0, output.transform, Changed(q))
      <4> SUFFICES ASSUME backend = "ext"
                   PROVE  Described(st', wire', 0, output.transform, Changed(q))
        OBVIOUS
      <4>1. resizes = 0
        BY <1>1, <2>2 DEF Resized, OutputInv
      <4>2. ExtQueue(st, wire, 0, TRUE, output.transform, pool.size, {})
        BY <1>1, <4>1, Zenon DEF QueueInv, ExtQueue
      <4>3. Described(st, wire, 0, output.transform, Changed(q))
        BY <2>2, Zenon DEF Holds
      <4>4. ExtQueue(st, wire, 0, TRUE, output.transform, pool.size, Changed(q))
        BY <4>2, <4>3, Zenon DEF ExtQueue
      <4>5. ExtQueue(st', wire', 0, TRUE, output.transform, pool.size, Changed(q))
        BY <1>5, <4>4, Zenon
      <4> QED BY <4>5, Zenon DEF ExtQueue
    <3> QED BY <1>0, <2>2, <3>1, <3>2, Zenon DEF Holds
  <2> QED BY <2>1, <2>2, Zenon
<1>15. ExtInv'
  BY <1>0, <1>1, <1>8, Zenon DEF ExtInv, Changed
<1> QED BY <1>10, <1>11, <1>12, <1>13, <1>14, <1>15, Zenon DEF FrameInv

\* Between the phases of screencopy the pool is there, in the size offered.
LEMMA FrameScPool ==
  ASSUME FrameInv, ProtocolInv, ScPool
  PROVE  FrameInv'
<1>0. /\ pc = "phase1" /\ Sc!OfferOver(st)
      /\ UNCHANGED <<desktop, output, resizes, wire, backend, st, returned, seen>>
  BY Zenon DEF ScPool, clientOnly, outputVars, setupVars
<1>1. CASE pc' = "ended"
  BY <1>0, <1>1, FrameEnds, Zenon
<1>2. CASE pc' # "ended"
  <2>1. /\ pc' = "roundtrip" /\ frame' = frame /\ ~st.frame_failed
        /\ \/ ~Sc!needs_new_pool(pool, st) /\ pool' = pool
           \/ Valid(st.size) /\ pool' = new(st.size, st.format)
    BY <1>2, Zenon DEF ScPool
  <2>2. OutputInv /\ SetupInv /\ PoolInv /\ QueueInv /\ ReadyInv /\ ExtInv
        /\ StageInv /\ OfferInv /\ backend = "screencopy"
    BY <1>0 DEF FrameInv, ProtocolInv, StageInv
  <2>3. /\ pc \in Live /\ ~Waiting /\ ~Waiting' /\ pc' \in Live /\ pc' \notin Setup
        /\ backend' # "ext" /\ pc' # "wait" /\ frame'.stage \notin {"copying", "writing"}
    BY <1>0, <2>1, <2>2 DEF Live, Waiting, Setup, StageInv
  <2>4. Good(st, wire, 0, frame)
    BY <1>0, <2>2, Zenon DEF OfferInv
  <2>5. Offered(st, frame) /\ st.size = frame.offer
    BY <1>0, <2>1, <2>4, Zenon DEF Good, Offered, Sc!OfferOver
  <2>6. PoolOk(pool')
    <3>1. CASE ~Sc!needs_new_pool(pool, st) /\ pool' = pool
      <4>1. pool # NoPool
        BY <3>1 DEF Sc!needs_new_pool, Sc!NoPool, NoPool
      <4> QED BY <2>2, <3>1, <4>1, Zenon DEF PoolInv
    <3>2. CASE Valid(st.size) /\ pool' = new(st.size, st.format)
      <4>1. frame.offer # NoSize
        <5>1. Bytes(st.size) # 0
          BY <3>2, Zenon DEF Valid
        <5>2. Bytes(NoSize) = 0
          BY DEF Bytes, NoSize, Stride, Height
        <5> QED BY <2>5, <5>1, <5>2
      <4>2. GoodSize(st.size)
        BY <2>2, <2>3, <2>5, <4>1, Zenon DEF PoolInv
      <4> QED BY <3>2, <4>2, NewPool, Zenon
    <3> QED BY <2>1, <3>1, <3>2
  <2>7. ScQueue(st, wire, 0, TRUE, frame)
    <3>1. ScQueue(st, wire, 0, pc \in {"roundtrip", "phase2"}, frame)
      BY <2>2, Zenon DEF QueueInv
    <3>2. Known(st, wire, 0, frame)
      BY <2>4, <2>5, Zenon DEF Known, Good
    <3> QED BY <3>1, <3>2, Zenon DEF ScQueue
  <2>8. OutputInv'
    BY <1>0, <2>2, <2>3, OutputKept, Zenon
  <2>9. SetupInv'
    BY <2>3, Zenon DEF SetupInv
  <2>10. PoolInv'
    BY <2>1, <2>2, <2>3, <2>6, Zenon DEF PoolInv
  <2>11. QueueInv'
    <3>1. pc' \in {"roundtrip", "phase2"} /\ NoneIs(wire, 0, "Ready") /\ ~st.frame_ready
      BY <1>0, <2>1, <2>2, <2>3 DEF QueueInv
    <3>2. ScQueue(st', wire', 0, pc' \in {"roundtrip", "phase2"}, frame')
      BY <1>0, <2>1, <2>7, <3>1, Zenon DEF ScQueue
    <3> QED BY <1>0, <2>3, <3>1, <3>2, Zenon DEF QueueInv
  <2>12. ReadyInv' /\ ExtInv'
    BY <2>3, Zenon DEF ReadyInv, ExtInv
  <2> QED BY <2>8, <2>9, <2>10, <2>11, <2>12, Zenon DEF FrameInv
<1> QED BY <1>1, <1>2

\* The round trip of screencopy, and the copy request.
LEMMA FrameScCopy ==
  ASSUME FrameInv, ProtocolInv, ScCopy
  PROVE  FrameInv'
<1>0. /\ pc = "roundtrip" /\ pc' = "phase2" /\ wire' = <<>> /\ st' = Handled(st, wire)
      /\ frame' = [frame EXCEPT !.slot = pool.active,
                                !.stage = IF @ = "offered" THEN "copying" ELSE @]
      /\ UNCHANGED <<desktop, output, resizes, backend, pool, returned, seen>>
  BY Zenon DEF ScCopy, clientOnly, outputVars, setupVars
<1>1. OutputInv /\ SetupInv /\ PoolInv /\ QueueInv /\ IsSequence(wire) /\ FrameFields(frame)
      /\ backend = "screencopy" /\ pool.size = frame.offer
  BY <1>0 DEF FrameInv, ProtocolInv, StageInv
<1>2. pc \in Live /\ pc' \in Live /\ Waiting' /\ ~Waiting /\ pc' \notin Setup
      /\ pc' \notin {"phase1", "roundtrip"} /\ pc' # "wait" /\ pc' # "ended" /\ backend' # "ext"
  BY <1>0, <1>1 DEF Live, Waiting, Setup
<1>3. frame'.offer = frame.offer /\ frame'.format = frame.format /\ frame'.slot = pool.active
  BY <1>0, <1>1 DEF FrameFields
<1>4. ScQueue(st', wire, Len(wire), TRUE, frame) /\ ~Pending(st', wire, Len(wire))
  <2>1. Len(wire) \in Nat /\ DOMAIN wire = 1 .. Len(wire)
    BY <1>1, SequenceLength
  <2>2. FirstOf(wire, wire, Len(wire))
    BY <2>1 DEF FirstOf
  <2>3. ScQueue(st, wire, 0, TRUE, frame)
    <3>1. ScQueue(st, wire, 0, pc \in {"roundtrip", "phase2"}, frame)
      BY <1>1, Zenon DEF QueueInv
    <3>2. pc \in {"roundtrip", "phase2"}
      BY <1>0
    <3> QED BY <3>1, <3>2, Zenon DEF ScQueue
  <2>4. ~Pending(st, wire, 0)
    <3>1. ~st.frame_ready /\ NoneIs(wire, 0, "Ready")
      BY <1>0, <1>1, <1>2 DEF QueueInv
    <3> QED BY <3>1, Zenon DEF Pending
  <2> QED BY <1>0, <1>1, <2>2, <2>3, <2>4, ScPrefix
<1>5. Shifted(wire', wire, Len(wire))
  <2>1. Len(wire) \in Nat
    BY <1>1, SequenceLength
  <2>2. Len(wire') = 0
    BY <1>0
  <2> QED BY <2>1, <2>2 DEF Shifted
<1>6. ScQueue(st', wire', 0, TRUE, frame) /\ ~Pending(st', wire', 0)
  BY <1>4, <1>5, ScQueueRest, ShiftedReady, Zenon
<1>7. ScQueue(st', wire', 0, pc' \in {"roundtrip", "phase2"}, frame')
  BY <1>3, <1>6, Zenon DEF ScQueue, Known, Offered
<1>8. OutputInv'
  BY <1>0, <1>1, <1>2, OutputKept, Zenon
<1>9. SetupInv'
  BY <1>2, Zenon DEF SetupInv
<1>10. PoolInv'
  <2>1. PoolOk(pool) /\ GoodSize(pool.size)
    BY <1>0, <1>1 DEF PoolInv, PoolOk
  <2> QED BY <1>0, <1>1, <1>2, <1>3, <2>1, Zenon DEF PoolInv
<1>11. QueueInv'
  BY <1>2, <1>7, Zenon DEF QueueInv
<1>12. ReadyInv' /\ ExtInv'
  BY <1>2, <1>6, Zenon DEF ReadyInv, ExtInv
<1> QED BY <1>2, <1>8, <1>9, <1>10, <1>11, <1>12, Zenon DEF FrameInv

-----------------------------------------------------------------------------
(* next_frame returns *)

LEMMA SwappedPool ==
  ASSUME NEW p, PoolOk(p), NEW u, u = swap(p)
  PROVE  PoolOk(u) /\ u.size = p.size
<1>1. u = [size |-> p.size, format |-> p.format, active |-> 3 - p.active, slots |-> p.slots]
  BY DEF PoolOk, swap
<1>2. 3 - p.active \in {1, 2}
  BY DEF PoolOk
<1>3. u.size = p.size /\ u.format = p.format /\ u.active = 3 - p.active /\ u.slots = p.slots
  BY <1>1
<1> QED BY <1>1, <1>2, <1>3, Zenon DEF PoolOk

\* Both backends return what the active buffer holds, in the size of the pool,
\* and the buffers change places.
Returned(data, damage, transform) ==
  /\ Returns /\ PoolOk(pool) /\ PoolOk(pool') /\ pool'.size = pool.size
  /\ Pending(st, wire, 0) /\ st.frame_ready
  /\ st.size = pool.size \/ Resized
  /\ returned'.data = data /\ returned'.size = st.size
  /\ returned'.damage = damage /\ returned'.transform = transform

LEMMA ExtReturned ==
  ASSUME FrameInv, ProtocolInv, ExtFinishFrame, pc' # "ended"
  PROVE  Returned(Ext!undo_transform(active_data(pool), Stride(st.size), st.frame_transform),
                  Ext!frame_damage(st), st.frame_transform)
<1>0. /\ pc = "wait" /\ pc' = "idle" /\ Ext!FrameOver(st) /\ ~st.stopped /\ ~st.frame_failed
      /\ pool' = swap(pool)
      /\ returned' = [data |-> Ext!undo_transform(active_data(pool), Stride(st.size),
                                                  st.frame_transform),
                      size |-> st.size, damage |-> Ext!frame_damage(st),
                      transform |-> st.frame_transform]
  BY Zenon DEF ExtFinishFrame, Return
<1>1. backend = "ext" /\ OutputInv /\ PoolInv /\ QueueInv
  BY <1>0 DEF FrameInv, SetupInv
<1>2. st.frame_ready /\ Pending(st, wire, 0)
  BY <1>0, Zenon DEF Ext!FrameOver, Pending
<1>3. PoolOk(pool) /\ PoolOk(pool') /\ pool'.size = pool.size
  <2>1. PoolOk(pool)
    BY <1>1, Zenon DEF PoolInv
  <2> QED BY <1>0, <2>1, SwappedPool, Zenon
<1>4. st.size = pool.size \/ Resized
  <2>1. resizes = 0 => st.size = pool.size
    BY <1>1, Zenon DEF QueueInv, ExtQueue, Steady
  <2>2. resizes \in Nat
    BY <1>1 DEF OutputInv
  <2> QED BY <1>1, <2>1, <2>2 DEF Resized
<1>5. Returns
  BY <1>0 DEF Returns
<1> DEFINE x == Ext!undo_transform(active_data(pool), Stride(st.size), st.frame_transform)
           d == Ext!frame_damage(st)
<1> HIDE DEF x, d
<1>6. returned' = [data |-> x, size |-> st.size, damage |-> d, transform |-> st.frame_transform]
  BY <1>0 DEF x, d
<1>7. /\ returned'.data = x /\ returned'.size = st.size
      /\ returned'.damage = d /\ returned'.transform = st.frame_transform
  BY <1>6
<1> QED BY <1>2, <1>3, <1>4, <1>5, <1>7, Zenon DEF Returned, x, d

LEMMA ScReturned ==
  ASSUME FrameInv, ProtocolInv, ScFinishFrame, pc' # "ended"
  PROVE  Returned(active_data(pool), Sc!frame_damage(st), 0)
<1>0. /\ pc = "phase2" /\ pc' = "idle" /\ Sc!FrameOver(st) /\ ~st.stopped /\ ~st.frame_failed
      /\ pool' = swap(pool)
      /\ returned' = [data |-> active_data(pool), size |-> st.size,
                      damage |-> Sc!frame_damage(st), transform |-> 0]
  BY Zenon DEF ScFinishFrame, Return
<1>1. backend = "screencopy" /\ OutputInv /\ PoolInv /\ QueueInv
  BY <1>0 DEF FrameInv, ProtocolInv, StageInv
<1>2. st.frame_ready /\ Pending(st, wire, 0)
  BY <1>0, Zenon DEF Sc!FrameOver, Pending
<1>3. PoolOk(pool) /\ PoolOk(pool') /\ pool'.size = pool.size
  <2>1. PoolOk(pool)
    BY <1>0, <1>1 DEF PoolInv
  <2> QED BY <1>0, <2>1, SwappedPool, Zenon
<1>4. st.size = pool.size
  <2>1. pc \in {"roundtrip", "phase2"} /\ Waiting
    BY <1>0 DEF Waiting
  <2>2. Offered(st, frame)
    BY <1>1, <2>1, Zenon DEF QueueInv, ScQueue, Known
  <2>3. st.size = frame.offer
    BY <1>0, <2>2, Zenon DEF Offered
  <2>4. frame.offer = pool.size
    BY <1>1, <2>1, Zenon DEF PoolInv
  <2> QED BY <2>3, <2>4
<1>5. Returns
  BY <1>0 DEF Returns
<1> DEFINE x == active_data(pool)
           d == Sc!frame_damage(st)
<1> HIDE DEF x, d
<1>6. returned' = [data |-> x, size |-> st.size, damage |-> d, transform |-> 0]
  BY <1>0 DEF x, d
<1>7. /\ returned'.data = x /\ returned'.size = st.size
      /\ returned'.damage = d /\ returned'.transform = 0
  BY <1>6
<1> QED BY <1>2, <1>3, <1>4, <1>5, <1>7, Zenon DEF Returned, x, d

\* What next_frame of ext returns: a picture that was there meanwhile.
LEMMA ExtPicture ==
  ASSUME FrameInv, ProtocolInv, ExtFinishFrame, pc' # "ended", resizes = 0
  PROVE  /\ returned'.size = pool.size /\ returned'.transform = output.transform
         /\ \E q \in seen : /\ Holds(q) /\ Changed(q) \subseteq st.damage_rects
                            /\ output.transform # 1 => Decoded(returned') = q
<1> DEFINE t == output.transform
           data == active_data(pool)
<1>0. pc = "wait" /\ pc # "ended" /\ Waiting /\ backend = "ext" /\ ~Resized
  <2>1. pc = "wait"
    BY Zenon DEF ExtFinishFrame
  <2> QED BY <2>1 DEF FrameInv, SetupInv, Waiting, Resized
<1>1. OutputInv /\ QueueInv /\ ReadyInv /\ ExtInv
  BY <1>0, Zenon DEF FrameInv
<1>2. /\ PoolOk(pool) /\ st.frame_ready /\ Pending(st, wire, 0) /\ st.size = pool.size
      /\ returned'.data = Ext!undo_transform(data, Stride(st.size), st.frame_transform)
      /\ returned'.size = st.size /\ returned'.transform = st.frame_transform
  BY <1>0, ExtReturned, Zenon DEF Returned
<1>3. PICK q \in seen : Holds(q)
  BY <1>0, <1>1, <1>2, Zenon DEF ReadyInv
<1>4. st.frame_transform = t /\ Changed(q) \subseteq st.damage_rects
  BY <1>0, <1>2, <1>3, Zenon DEF Holds, Described
<1>5. ASSUME t # 1
      PROVE  Decoded(returned') = q
  <2>1. GoodSize(pool.size) /\ Buffer(data, Bytes(pool.size))
    BY <1>2, ActiveBuffer DEF active_data
  <2>2. Shows(data, pool.size, t, q) /\ PictureOf(q, pool.size)
    BY <1>0, <1>3, Zenon DEF Holds, BufferTransform, active_data
  <2>3. t \in {0, 2, 4, 6} /\ Stride(pool.size) = Width(pool.size)
    BY <1>0, <1>1, <1>5 DEF OutputInv, ExtInv
  <2> HIDE DEF data, t
  <2>4. Shows(Ext!undo_transform(data, Stride(pool.size), t), pool.size, 0, q)
    BY <2>1, <2>2, <2>3, UndoShows, Zenon
  <2>5. Shows(returned'.data, returned'.size, 0, q) /\ GoodSize(returned'.size)
        /\ q = [c \in Cells(returned'.size) |-> q[c]]
    BY <1>2, <1>4, <2>1, <2>2, <2>4, Zenon DEF PictureOf
  <2> QED BY <2>5, DecodedShows
<1> QED BY <1>2, <1>3, <1>4, <1>5, Zenon

LEMMA FrameExtFinish ==
  ASSUME FrameInv, ProtocolInv, ExtFinishFrame
  PROVE  FrameInv'
<1>0. /\ pc = "wait" /\ pc # "ended" /\ frame' = NoFrame
      /\ UNCHANGED <<desktop, output, resizes, backend, wire, st>>
  BY DEF ExtFinishFrame, clientOnly, outputVars, setupVars
<1>1. CASE pc' = "ended"
  BY <1>0, <1>1, FrameEnds, Zenon
<1>2. CASE pc' # "ended"
  <2>1. OutputInv /\ SetupInv /\ QueueInv /\ ExtInv /\ backend = "ext"
    BY <1>0, Zenon DEF FrameInv, SetupInv
  <2>2. PoolOk(pool') /\ pool'.size = pool.size /\ st.frame_ready /\ pc' = "idle"
    BY <1>2, ExtReturned, Zenon DEF Returned, Returns
  <2>3. pc' \notin Live /\ pc' \notin Setup /\ ~Waiting' /\ pc' \in {"idle", "wait"} /\ pc' # "wait"
        /\ pc' \notin {"phase1", "roundtrip", "phase2"} /\ frame'.stage \notin {"copying", "writing"}
        /\ backend' = "ext" /\ backend' # "screencopy"
    BY <1>0, <2>1, <2>2 DEF Live, Setup, Waiting, NoFrame
  <2>4. OutputInv'
    BY <1>0, <2>1, <2>3, OutputKept, Zenon
  <2>5. SetupInv'
    BY <2>3, Zenon DEF SetupInv
  <2>6. PoolInv'
    BY <2>2, <2>3, Zenon DEF PoolInv
  <2>7. QueueInv'
    <3>1. ExtQueue(st, wire, 0, resizes = 0, output.transform, pool.size, {})
      BY <2>1, Zenon DEF QueueInv
    <3>2. NoneIs(wire, 0, "Ready")
      BY <2>2, <3>1, Zenon DEF ExtQueue, Once
    <3> QED BY <1>0, <2>2, <2>3, <3>1, <3>2, Zenon DEF QueueInv
  <2>8. ReadyInv'
    BY <2>3, Zenon DEF ReadyInv
  <2>9. ExtInv'
    <3> SUFFICES ASSUME resizes = 0
                 PROVE  ExtInv'
      BY <1>0, Zenon DEF ExtInv
    <3>1. PICK q \in seen : /\ Holds(q)
                            /\ output.transform # 1 => Decoded(returned') = q
      BY <1>2, ExtPicture, Zenon
    <3>2. Changed(output.picture)' \subseteq output.damage
      <4>1. CASE output.transform = 0
        <5>1. Decoded(returned') = q
          BY <3>1, <4>1
        <5>2. Changed(output.picture)' \subseteq {c \in Cells(pool.size) : q[c] # output.picture[c]}
          BY <1>0, <2>2, <5>1 DEF Changed
        <5>3. \A c \in Cells(pool.size) : q[c] # output.picture[c] => c \in output.damage
          BY <2>1, <3>1, Zenon DEF Holds
        <5> QED BY <5>2, <5>3
      <4>2. CASE output.transform # 0
        <5>1. Changed(output.picture)' = {}
          BY <1>0, <4>2 DEF Changed
        <5> QED BY <5>1
      <4> QED BY <4>1, <4>2
    <3>3. /\ Stride(pool.size) = Width(pool.size)
          /\ Width(pool.size) = Width(output.size) /\ Height(pool.size) = Height(output.size)
      BY <2>1, Zenon DEF ExtInv
    <3> QED BY <1>0, <2>2, <3>2, <3>3, Zenon DEF ExtInv
  <2> QED BY <2>4, <2>5, <2>6, <2>7, <2>8, <2>9, Zenon DEF FrameInv
<1> QED BY <1>1, <1>2

\* What next_frame of screencopy returns.
LEMMA ScPicture ==
  ASSUME FrameInv, ProtocolInv, ScFinishFrame, pc' # "ended"
  PROVE  Decoded(returned') \in seen
<1>0. pc = "phase2" /\ pc # "ended" /\ Waiting /\ backend = "screencopy" /\ ~Resized
  <2>1. pc = "phase2"
    BY Zenon DEF ScFinishFrame
  <2> QED BY <2>1 DEF ProtocolInv, StageInv, Waiting, Resized
<1>1. ReadyInv
  BY <1>0, Zenon DEF FrameInv
<1>2. /\ PoolOk(pool) /\ Pending(st, wire, 0) /\ st.size = pool.size
      /\ returned'.data = active_data(pool) /\ returned'.size = st.size
  BY <1>0, ScReturned, Zenon DEF Returned
<1>3. PICK q \in seen : Holds(q)
  BY <1>0, <1>1, <1>2, Zenon DEF ReadyInv
<1>4. GoodSize(pool.size)
  BY <1>2, ActiveBuffer
<1>5. BufferTransform = 0
  BY <1>0 DEF BufferTransform
<1>6. Shows(active_data(pool), pool.size, 0, q) /\ PictureOf(q, pool.size)
  BY <1>3, <1>5, Zenon DEF Holds, active_data
<1>7. Shows(returned'.data, returned'.size, 0, q) /\ GoodSize(returned'.size)
      /\ q = [c \in Cells(returned'.size) |-> q[c]]
  BY <1>2, <1>4, <1>6, Zenon DEF PictureOf
<1>8. Decoded(returned') = q
  BY <1>7, DecodedShows
<1> QED BY <1>3, <1>8

LEMMA FrameScFinish ==
  ASSUME FrameInv, ProtocolInv, ScFinishFrame
  PROVE  FrameInv'
<1>0. /\ pc = "phase2" /\ pc # "ended" /\ frame' = NoFrame
      /\ UNCHANGED <<desktop, output, resizes, backend, wire, st>>
  BY DEF ScFinishFrame, clientOnly, outputVars, setupVars
<1>1. CASE pc' = "ended"
  BY <1>0, <1>1, FrameEnds, Zenon
<1>2. CASE pc' # "ended"
  <2>1. OutputInv /\ QueueInv /\ backend = "screencopy"
    BY <1>0 DEF FrameInv, ProtocolInv, StageInv
  <2>2. PoolOk(pool') /\ st.frame_ready /\ pc' = "idle"
    BY <1>2, ScReturned, Zenon DEF Returned, Returns
  <2>3. pc' \notin Live /\ pc' \notin Setup /\ ~Waiting' /\ pc' # "wait" /\ backend' # "ext"
        /\ pc' \notin {"phase1", "roundtrip"} /\ pc' \notin {"roundtrip", "phase2"}
        /\ frame'.stage \notin {"copying", "writing"}
    BY <1>0, <2>1, <2>2 DEF Live, Setup, Waiting, NoFrame
  <2>4. OutputInv'
    BY <1>0, <2>1, <2>3, OutputKept, Zenon
  <2>5. SetupInv'
    BY <2>3, Zenon DEF SetupInv
  <2>6. PoolInv'
    BY <2>2, <2>3, Zenon DEF PoolInv
  <2>7. QueueInv'
    <3>1. ScQueue(st, wire, 0, pc \in {"roundtrip", "phase2"}, frame)
      BY <2>1, Zenon DEF QueueInv
    <3>2. NoneIs(wire, 0, "Ready")
      BY <2>2, <3>1, Zenon DEF ScQueue, Once
    <3>3. ScQueue(st', wire', 0, pc' \in {"roundtrip", "phase2"}, frame')
      BY <1>0, <2>3, <3>1, Zenon DEF ScQueue
    <3> QED BY <1>0, <2>3, <3>2, <3>3, Zenon DEF QueueInv
  <2>8. ReadyInv' /\ ExtInv'
    BY <2>3, Zenon DEF ReadyInv, ExtInv
  <2> QED BY <2>4, <2>5, <2>6, <2>7, <2>8, Zenon DEF FrameInv
<1> QED BY <1>1, <1>2

LEMMA FrameStep == ProtocolInv /\ FrameInv /\ [Next]_vars => FrameInv'
<1> SUFFICES ASSUME ProtocolInv, FrameInv, [Next]_vars PROVE FrameInv'
  OBVIOUS
<1>1. CASE WindowOpens \/ WindowNamed \/ WindowCloses
  <2>1. UNCHANGED frameVars
    BY <1>1, Zenon DEF WindowOpens, WindowNamed, WindowCloses, setupVars, outputVars, frameVars
  <2> QED BY <2>1, FrameQuiet, Zenon
<1>2. CASE PortalHandshake \/ PortalPipeline \/ PortalSample \/ PortalStops
  <2>1. UNCHANGED frameVars
    BY <1>2, Zenon DEF PortalHandshake, PortalPipeline, PortalThread, PortalSample,
       PortalStops, clientOnly, setupVars, outputVars, frameVars
  <2> QED BY <2>1, FrameQuiet, Zenon
<1>3. CASE PortalNoSample \/ Done \/ UNCHANGED vars
  <2>1. UNCHANGED frameVars
    BY <1>3, Zenon DEF PortalNoSample, Done, vars, setupVars, outputVars, frameVars
  <2> QED BY <2>1, FrameQuiet, Zenon
<1>4. CASE \/ Snapshot \/ DetectNewToplevel \/ GiveUpWindow \/ DetectBackend
           \/ SessionFails \/ PortalNewReturns \/ PortalNextFrame \/ PortalReceives
           \/ Stop
  BY <1>4, FrameSetup, Zenon
<1>5. CASE SessionReady
  BY <1>5, FrameSession, Zenon
<1>6. CASE Paint \/ Resize \/ TargetCloses
  BY <1>6, FramePaint, FrameResize, FrameCloses, Zenon
<1>7. CASE Offer \/ StartCopy \/ FinishCopy
  BY <1>7, FrameOffer, FrameStartCopy, FrameFinishCopy, Zenon
<1>8. CASE ExtNextFrame \/ ScNextFrame \/ Dispatch
  BY <1>8, FrameExtNext, FrameScNext, FrameDispatch, Zenon
<1>9. CASE ScPool \/ ScCopy
  BY <1>9, FrameScPool, FrameScCopy, Zenon
<1>10. CASE ExtFinishFrame \/ ScFinishFrame
  BY <1>10, FrameExtFinish, FrameScFinish, Zenon
<1>11. CASE ConnectionLost \/ Timeout
  <2>1. pc' = "ended" /\ UNCHANGED <<desktop, output, resizes>>
    BY <1>11, Zenon DEF ConnectionLost, Timeout, clientOnly, outputVars
  <2> QED BY <2>1, FrameEnds, Zenon
<1> QED BY <1>1, <1>2, <1>3, <1>4, <1>5, <1>6, <1>7, <1>8, <1>9, <1>10, <1>11, Zenon DEF Next

\* No other step returns a frame.
LEMMA OnlyFinishReturns ==
  ASSUME Returns, [Next]_vars
  PROVE  ExtFinishFrame \/ ScFinishFrame
<1>1. pc \in {"wait", "phase2"} /\ pc' = "idle" /\ pc' # pc
  BY DEF Returns
<1>2. ~(WindowOpens \/ WindowNamed \/ WindowCloses)
  BY <1>1, Zenon DEF WindowOpens, WindowNamed, WindowCloses
<1>3. ~(PortalHandshake \/ PortalPipeline \/ PortalSample \/ PortalStops)
  BY <1>1, Zenon DEF PortalHandshake, PortalPipeline, PortalThread, PortalSample, PortalStops
<1>4. ~(PortalNoSample \/ Done \/ UNCHANGED vars)
  BY <1>1, Zenon DEF PortalNoSample, Done, vars
<1>5. ~(Snapshot \/ DetectNewToplevel \/ GiveUpWindow \/ DetectBackend)
  <2>1. pc \notin {"snapshot", "spawned", "detect"}
    BY <1>1
  <2> QED BY <2>1, Zenon DEF Snapshot, DetectNewToplevel, GiveUpWindow, DetectBackend
<1>6. ~(SessionReady \/ SessionFails \/ PortalNewReturns \/ PortalReceives)
  <2>1. pc # "session" /\ pc # "portal" /\ pc # "recv"
    BY <1>1
  <2> QED BY <2>1, Zenon DEF SessionReady, SessionFails, PortalNewReturns, PortalReceives
<1>7. ~(PortalNextFrame \/ Stop \/ ExtNextFrame \/ ScNextFrame)
  <2>1. pc # "idle"
    BY <1>1
  <2> QED BY <2>1, Zenon DEF PortalNextFrame, Stop, ExtNextFrame, ScNextFrame
<1>8. ~(Paint \/ Resize \/ TargetCloses \/ Offer \/ StartCopy \/ FinishCopy \/ Dispatch)
  BY <1>1, Zenon DEF Paint, Resize, TargetCloses, Offer, StartCopy, FinishCopy, Dispatch
<1>9. ~(ConnectionLost \/ Timeout \/ ScPool \/ ScCopy)
  <2>1. pc' # "ended" /\ pc # "phase1" /\ pc # "roundtrip"
    BY <1>1
  <2> QED BY <2>1, Zenon DEF ConnectionLost, Timeout, ScPool, ScCopy
<1> QED BY <1>2, <1>3, <1>4, <1>5, <1>6, <1>7, <1>8, <1>9, Zenon DEF Next

\* Without a resize the frame that next_frame returns, with either backend and
\* whatever the compositor draws, is one picture that the screen showed since
\* the call: not the last frame again, not a buffer the compositor still
\* writes to, upright for every transform that next_frame undoes, with every
\* row read where it was written.  For any sizes and strides, any number of
\* paints, and any cutting up of the event queue.
THEOREM FrameIsIntact == Spec => FrameIntact
<1>1. ASSUME ProtocolInv, FrameInv, [Next]_vars,
             Returns, ~Resized, returned'.transform # 1
      PROVE  Decoded(returned') \in seen
  <2>1. pc' # "ended" /\ OutputInv
    BY <1>1 DEF Returns, FrameInv
  <2>2. CASE ExtFinishFrame
    <3>1. resizes = 0
      <4>1. pc = "wait"
        BY <2>2, Zenon DEF ExtFinishFrame
      <4>2. backend = "ext"
        BY <1>1, <4>1 DEF FrameInv, SetupInv
      <4> QED BY <1>1, <2>1, <4>2 DEF Resized, OutputInv
    <3> QED BY <1>1, <2>1, <2>2, <3>1, ExtPicture, Zenon
  <2>3. CASE ScFinishFrame
    BY <1>1, <2>1, <2>3, ScPicture, Zenon
  <2> QED BY <1>1, <2>2, <2>3, OnlyFinishReturns, Zenon
<1>2. ProtocolInv /\ FrameInv /\ [Next]_vars =>
        [Returns /\ ~Resized /\ returned'.transform # 1 => Decoded(returned') \in seen]_vars
  BY <1>1, Zenon
<1> QED BY ProtocolInit, ProtocolStep, FrameInit, FrameStep, <1>2, PTL DEF Spec, FrameIntact

\* The damage of a frame of either backend covers every cell in which it
\* differs from the frame before it, so that a consumer that repaints only the
\* damage shows the frame: also for cells drawn while the last copy was under
\* way or after it, and for transformed buffers, whose damage is reported in
\* other coordinates.  For any sizes, paints and cutting up of the queue.
THEOREM DamageIsCovered == Spec => DamageCovers
<1>1. ASSUME ProtocolInv, FrameInv, [Next]_vars,
             Returns, ~Resized, returned.size = returned'.size, NEW c \in Cells(returned.size),
             Decoded(returned)[c] # Decoded(returned')[c]
      PROVE  c \in returned'.damage
  <2>1. pc' # "ended" /\ OutputInv /\ pc # "ended"
    BY <1>1 DEF Returns, FrameInv
  <2>2. CASE ExtFinishFrame
    <3>1. backend = "ext"
      <4>1. pc = "wait"
        BY <2>2, Zenon DEF ExtFinishFrame
      <4> QED BY <1>1, <4>1 DEF FrameInv, SetupInv
    <3>2. resizes = 0
      BY <1>1, <2>1, <3>1 DEF Resized, OutputInv
    <3>3. PICK q \in seen : /\ Changed(q) \subseteq st.damage_rects
                            /\ output.transform # 1 => Decoded(returned') = q
      BY <1>1, <2>1, <2>2, <3>2, ExtPicture, Zenon
    <3>4. /\ returned'.size = pool.size /\ returned'.size = st.size
          /\ returned'.damage = Ext!frame_damage(st)
          /\ st.frame_transform = output.transform
      BY <1>1, <2>1, <2>2, <3>2, ExtPicture, ExtReturned, Zenon DEF Returned
    <3>5. c \in Ext!full_damage(st.size)
      BY <1>1, <3>4 DEF Cells, Ext!full_damage, Ext!Width, Ext!Height, Width, Height
    <3>6. CASE output.transform = 0
      <4>1. Decoded(returned') = q
        BY <3>3, <3>6
      <4>2. c \in Changed(q)
        BY <1>1, <3>4, <3>6, <4>1 DEF Changed
      <4>3. c \in st.damage_rects
        BY <3>3, <4>2
      <4> QED BY <3>4, <3>5, <3>6, <4>3, Zenon DEF Ext!frame_damage
    <3>7. CASE output.transform # 0
      BY <3>4, <3>5, <3>7, Zenon DEF Ext!frame_damage
    <3> QED BY <3>6, <3>7
  <2>3. CASE ScFinishFrame
    <3>1. returned'.size = st.size /\ returned'.damage = Sc!frame_damage(st)
      BY <1>1, <2>1, <2>3, ScReturned, Zenon DEF Returned
    <3>2. st.damage_rects = {}
      <4>1. pc = "phase2"
        BY <2>3, Zenon DEF ScFinishFrame
      <4>2. backend = "screencopy" /\ QueueInv
        BY <1>1, <2>1, <4>1 DEF ProtocolInv, StageInv, FrameInv
      <4> QED BY <4>2, Zenon DEF QueueInv, ScQueue
    <3> QED BY <1>1, <3>1, <3>2 DEF Sc!frame_damage, Sc!Width, Sc!Height, Cells, Width, Height
  <2> QED BY <1>1, <2>2, <2>3, OnlyFinishReturns, Zenon
<1>2. ProtocolInv /\ FrameInv /\ [Next]_vars =>
        [Returns /\ ~Resized /\ returned.size = returned'.size
           => \A c \in Cells(returned.size) :
                Decoded(returned)[c] # Decoded(returned')[c] => c \in returned'.damage]_vars
  BY <1>1, Zenon
<1> QED BY ProtocolInit, ProtocolStep, FrameInit, FrameStep, <1>2, PTL DEF Spec, DamageCovers
=============================================================================
