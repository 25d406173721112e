------------------------------ MODULE SlotPool ------------------------------
(***************************************************************************)
(* What a pool of frame buffers promises its callers: a request is granted *)
(* a slot nobody else has, or refused, and refused only when no slot is    *)
(* free; a slot that is given back is free again at once.                  *)
(***************************************************************************)
CONSTANTS Threads, Slots

VARIABLES
  free,      \* the slots nobody has
  holds,     \* the slots each thread has
  waiting    \* the threads whose request has not been answered

Init ==
  /\ free = Slots
  /\ holds = [t \in Threads |-> {}]
  /\ waiting = {}

Request(t) ==
  /\ t \notin waiting
  /\ waiting' = waiting \cup {t}
  /\ UNCHANGED <<free, holds>>

Grant(t) ==
  /\ t \in waiting
  /\ \E s \in free : /\ free' = free \ {s}
                     /\ holds' = [holds EXCEPT ![t] = @ \cup {s}]
  /\ waiting' = waiting \ {t}

Refuse(t) ==
  /\ t \in waiting
  /\ free = {}
  /\ waiting' = waiting \ {t}
  /\ UNCHANGED <<free, holds>>

Return(t) ==
  /\ \E s \in holds[t] : /\ free' = free \cup {s}
                         /\ holds' = [holds EXCEPT ![t] = @ \ {s}]
  /\ UNCHANGED waiting

\* A slot changes hands.
Pass(t, u) ==
  /\ \E s \in holds[t] :
       holds' = [holds EXCEPT ![t] = @ \ {s}, ![u] = @ \cup {s}]
  /\ UNCHANGED <<free, waiting>>

Next ==
  \/ \E t \in Threads : Request(t) \/ Grant(t) \/ Refuse(t) \/ Return(t)
  \/ \E t, u \in Threads : t # u /\ Pass(t, u)

Spec == Init /\ [][Next]_<<free, holds, waiting>>
=============================================================================
