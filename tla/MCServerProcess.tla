-------------------------- MODULE MCServerProcess --------------------------
(***************************************************************************)
(* ServerProcess with words of five bits, five nanoseconds to the unit:    *)
(* time-outs to 3 fit; with 3 the buffer overflows, and the wait is longer *)
(* than Grace; 6 wraps to a negative count that the buffer makes positive, *)
(* 13 to less than a unit.                                                 *)
(***************************************************************************)
EXTENDS ServerProcess

MCTexts == {Unset, Garbage, 0, 3, 6, 13}
=============================================================================
