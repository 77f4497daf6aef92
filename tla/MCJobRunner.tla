----------------------------- MODULE MCJobRunner -----------------------------
(* Two workers, one of them always active; one adder queues a job that may *)
(* hang, another a batch of two.                                           *)
EXTENDS JobRunner

CONSTANTS hang, j1, j2, single, batch

MCBatch == [a \in Adders |-> IF a = single THEN <<hang>> ELSE <<j1, j2>>]
=============================================================================
