------------------------------ MODULE MCTimer ------------------------------
(* Two slots, so that the timer fills up and slots are used again, and a      *)
(* clock that wraps during a behaviour.                                       *)
EXTENDS Timer

MCRepeats == {-1, 1, 2}
=============================================================================
