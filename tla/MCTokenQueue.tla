---------------------------- MODULE MCTokenQueue -----------------------------
(* TLC instance of TokenQueue: enough tokens for the queue to fill, drain  *)
(* and refill several times.                                               *)
EXTENDS TokenQueue, TLC
=============================================================================
