-------------------------- MODULE MCTransactionTTL --------------------------
(***************************************************************************)
(* TransactionTTL with words of five bits, in which a second is three      *)
(* nanoseconds: durations up to 5 fit, the others wrap, some of them to a  *)
(* negative count.                                                         *)
(***************************************************************************)
EXTENDS TransactionTTL

AllDurations == -1 .. HalfWord - 1
=============================================================================
