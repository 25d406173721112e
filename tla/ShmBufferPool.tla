---------------------------- MODULE ShmBufferPool ----------------------------
(***************************************************************************)
(* The double-buffered shared memory pool of the capture backends          *)
(* (remoteway-capture/src/shm.rs).  Memory is a sequence of pixels; a size *)
(* is <<width, height, stride>> with the stride counted in pixels, so that *)
(* `width * 4` bytes is one width of pixels.                               *)
(***************************************************************************)
EXTENDS Integers, Sequences

Width(size) == size[1]
Height(size) == size[2]
Stride(size) == size[3]

Bytes(size) == Stride(size) * Height(size)

\* What a pixel holds: the two colours of the model, the zero of fresh memory,
\* and what a reader may find while the compositor writes.
Fresh == 2
Torn == 3
Pixel == 0 .. 3

NoPool == [size |-> <<0, 0, 0>>, format |-> "none", active |-> 0, slots |-> <<>>]

\* ShmSlot::new: memfd_create, ftruncate and mmap give zeroed memory.
NewSlot(size) == [i \in 1 .. Bytes(size) |-> Fresh]

\* The checks of ShmBufferPool::new.
Valid(size) == Stride(size) >= Width(size) /\ Bytes(size) # 0

new(size, format) ==
  [size |-> size, format |-> format, active |-> 1,
   slots |-> <<NewSlot(size), NewSlot(size)>>]

active_data(pool) == pool.slots[pool.active]

swap(pool) == [pool EXCEPT !.active = 3 - @]
=============================================================================
