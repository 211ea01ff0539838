----------------------------- MODULE MCCmdOne -----------------------------
(* The instance with one client, with the assumption of CmdServerProofs.   *)
EXTENDS CmdServerProofs
CONSTANTS c1, r1, r2
=============================================================================
