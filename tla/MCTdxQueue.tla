---------------------------- MODULE MCTdxQueue ----------------------------
(* A small instance of TdxQueue.                                           *)
EXTENDS TdxQueue
CONSTANTS t1, t2, m1, m2
=============================================================================
