----------------------------- MODULE MCCallbacks -----------------------------
(* Callbacks with two service threads, one producer and two subscribers. *)
EXTENDS Callbacks

CONSTANTS t1, t2, p1, s1, s2

===============================================================================
