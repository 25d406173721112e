----------------------------- MODULE BufferPool -----------------------------
(***************************************************************************)
(* The pool of frame buffers (remoteway-core/src/buffer_pool.rs): a bitset *)
(* of free slots in one atomic word, acquire() as a loop around a weak     *)
(* compare-exchange, release() as a fetch_or.  The bitset is the set of    *)
(* its one bits.                                                           *)
(*                                                                         *)
(* Callers keep the contract of slot_mut(): they release a slot only while *)
(* they hold its FrameHandle, and hand a FrameHandle on to another stage   *)
(* instead of keeping a copy of it.                                        *)
(***************************************************************************)
EXTENDS Integers

CONSTANTS
  Threads,    \* the callers
  Capacity    \* the number of slots

ASSUME PoolAssumption == Capacity \in 1 .. 64

VARIABLES
  free_mask,  \* the atomic word
  pc,         \* where each thread is in acquire(): "idle" is outside
  mask,       \* its local `mask`
  holds       \* the FrameHandles it has

poolVars == <<free_mask, pc, mask, holds>>

Slots == 0 .. Capacity - 1

PoolTypeOK ==
  /\ free_mask \in SUBSET Slots
  /\ pc \in [Threads -> {"idle", "load", "cas"}]
  /\ mask \in [Threads -> SUBSET Slots]
  /\ holds \in [Threads -> SUBSET Slots]

\* new(): every slot is free.
PoolInit ==
  /\ free_mask = Slots
  /\ pc = [t \in Threads |-> "idle"]
  /\ mask = [t \in Threads |-> {}]
  /\ holds = [t \in Threads |-> {}]

\* slot is m.trailing_zeros().
trailing_zeros(m, slot) == slot \in m /\ \A s \in m : slot <= s

\* A thread calls acquire().
Call(t) ==
  /\ pc[t] = "idle"
  /\ pc' = [pc EXCEPT ![t] = "load"]
  /\ UNCHANGED <<free_mask, mask, holds>>

\* The load: an empty mask ends the call with None.
Load(t) ==
  /\ pc[t] = "load"
  /\ IF free_mask = {}
     THEN /\ pc' = [pc EXCEPT ![t] = "idle"]
          /\ UNCHANGED mask
     ELSE /\ pc' = [pc EXCEPT ![t] = "cas"]
          /\ mask' = [mask EXCEPT ![t] = free_mask]
  /\ UNCHANGED <<free_mask, holds>>

\* Fault: the new mask is stored without comparing.
CasSucceedsFault(t) ==
  /\ pc[t] = "cas"
  /\ \E slot \in mask[t] :
       /\ trailing_zeros(mask[t], slot)
       /\ free_mask' = mask[t] \ {slot}
       /\ holds' = [holds EXCEPT ![t] = @ \cup {slot}]
  /\ pc' = [pc EXCEPT ![t] = "idle"]
  /\ mask' = [mask EXCEPT ![t] = {}]

\* The compare-exchange takes the lowest slot out of the mask.
CasSucceeds(t) ==
  /\ pc[t] = "cas"
  /\ free_mask = mask[t]
  /\ \E slot \in mask[t] :
       /\ trailing_zeros(mask[t], slot)
       /\ free_mask' = mask[t] \ {slot}
       /\ holds' = [holds EXCEPT ![t] = @ \cup {slot}]
  /\ pc' = [pc EXCEPT ![t] = "idle"]
  /\ mask' = [mask EXCEPT ![t] = {}]

\* Fault: the loop goes round without a new load.
CasFailsFault(t) == pc[t] = "cas" /\ free_mask # mask[t] /\ UNCHANGED poolVars

\* The word has changed since the load: once more.
CasFails(t) ==
  /\ pc[t] = "cas"
  /\ free_mask # mask[t]
  /\ pc' = [pc EXCEPT ![t] = "load"]
  /\ mask' = [mask EXCEPT ![t] = {}]
  /\ UNCHANGED <<free_mask, holds>>

\* A weak compare-exchange may fail although the word is the same.
CasFailsSpuriously(t) ==
  /\ pc[t] = "cas"
  /\ free_mask = mask[t]
  /\ pc' = [pc EXCEPT ![t] = "load"]
  /\ mask' = [mask EXCEPT ![t] = {}]
  /\ UNCHANGED <<free_mask, holds>>

\* Fault: the word is stored, not or-ed.
ReleaseFault(t, slot) ==
  /\ pc[t] = "idle"
  /\ slot \in holds[t]
  /\ free_mask' = {slot}
  /\ holds' = [holds EXCEPT ![t] = @ \ {slot}]
  /\ UNCHANGED <<pc, mask>>

\* release(): fetch_or of the slot's bit.
Release(t, slot) ==
  /\ pc[t] = "idle"
  /\ slot \in holds[t]
  /\ free_mask' = free_mask \cup {slot}
  /\ holds' = [holds EXCEPT ![t] = @ \ {slot}]
  /\ UNCHANGED <<pc, mask>>

\* A FrameHandle is passed to another pipeline stage.
PassHandle(t, u, slot) ==
  /\ pc[t] = "idle"
  /\ slot \in holds[t]
  /\ t # u
  /\ holds' = [holds EXCEPT ![t] = @ \ {slot}, ![u] = @ \cup {slot}]
  /\ UNCHANGED <<free_mask, pc, mask>>

Acquiring(t) == Load(t) \/ CasSucceeds(t) \/ CasFails(t)

PoolNext ==
  \/ \E t \in Threads :
       Call(t) \/ Acquiring(t) \/ CasFailsSpuriously(t)
  \/ \E t \in Threads, slot \in Slots :
       Release(t, slot) \/ \E u \in Threads : PassHandle(t, u, slot)

\* A thread inside acquire() keeps running, and compare-exchanges do not fail
\* spuriously for ever.  A thread may still lose every race.
Fairness ==
  \A t \in Threads :
    WF_poolVars(Acquiring(t)) /\ <>[][~CasFailsSpuriously(t)]_poolVars

PoolSpec == PoolInit /\ [][PoolNext]_poolVars
FairSpec == PoolSpec /\ Fairness

-----------------------------------------------------------------------------
(* Properties *)

\* "The free_mask ensures no two callers hold the same slot simultaneously":
\* a slot has at most one holder, and none while it is free, however the
\* callers' loads and compare-exchanges interleave.
Exclusive ==
  /\ \A t \in Threads : holds[t] \cap free_mask = {}
  /\ \A t, u \in Threads : t # u => holds[t] \cap holds[u] = {}

\* No slot is lost: one that nobody holds is free.
NoSlotLost == Slots \subseteq free_mask \cup UNION {holds[t] : t \in Threads}

PoolInv == PoolTypeOK /\ Exclusive /\ NoSlotLost

Pool == INSTANCE SlotPool
  WITH free <- free_mask, waiting <- {t \in Threads : pc[t] # "idle"}

\* The loop around the compare-exchange answers like the abstract pool: a
\* request is refused only when no slot is free at that moment.
Implements == Pool!Spec

\* acquire() is lock-free: it returns unless other calls keep changing the
\* mask for ever.
LockFree ==
  \A t \in Threads :
    (pc[t] # "idle" ~> pc[t] = "idle") \/ []<><<free_mask' # free_mask>>_poolVars
=============================================================================
