--------------------------- MODULE MCStreamParser ---------------------------
(* Payloads below, at and above multiples of the chunk size. *)
EXTENDS StreamParser
=============================================================================
