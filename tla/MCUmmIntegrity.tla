--------------------------- MODULE MCUmmIntegrity ---------------------------
(* Model checking of UmmIntegrity: checks over a heap of a few blocks.     *)
EXTENDS UmmIntegrity
=============================================================================
