---------------------------- MODULE MCCheckQueue ----------------------------
(* CheckQueue with two workers and a batch of at most two of four checks. *)
EXTENDS CheckQueue

CONSTANTS w1, w2, good1, good2, good3, bad

===============================================================================
