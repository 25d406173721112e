------------------------------- MODULE Frames -------------------------------
(***************************************************************************)
(* The pictures of the pipeline and the delta codec on them                *)
(* (remoteway-compress/src/delta.rs).                                      *)
(*                                                                         *)
(* A picture is a set of lit cells: a cell stands for a block of pixels    *)
(* that the compositor damages as a whole, lit or dark for its two         *)
(* contents.  The byte-wise XOR of two buffers is then the symmetric       *)
(* difference of two sets, and a damage list is the set of cells its       *)
(* rectangles cover.                                                       *)
(***************************************************************************)
CONSTANT Cells

Picture == SUBSET Cells

\* The all-zero buffer that Vec::resize(_, 0) appends.
Zeroes == {}

XOR(a, b) == (a \ b) \cup (b \ a)

\* delta_encode: XOR of the current picture and the base, inside the damage.
delta_encode(current, previous, regions) == XOR(current, previous) \cap regions

\* delta_decode: a copy of the base, XORed with the delta inside its regions
\* (a delta holds no cell outside them).
delta_decode(delta, previous) == XOR(previous, delta)
=============================================================================
