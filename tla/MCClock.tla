------------------------------ MODULE MCClock ------------------------------
(* Model checking of Clock: a span of days with the turns of several       *)
(* months in it.                                                           *)
EXTENDS Clock
=============================================================================
