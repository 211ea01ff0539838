------------------------------ MODULE MCLogOne ------------------------------
(* The instance of LogRing with one thread, as LogRingProofs assumes it.   *)
EXTENDS LogRingProofs
=============================================================================
