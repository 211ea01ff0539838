---------------------------- MODULE MCCmdServer ----------------------------
(* Small instances of CmdServer: one client, or two.                       *)
EXTENDS CmdServer
CONSTANTS c1, c2, r1, r2
=============================================================================
