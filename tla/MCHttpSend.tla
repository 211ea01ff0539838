---------------------------- MODULE MCHttpSend ----------------------------
(* The instances of HttpSend for TLC.                                      *)
EXTENDS HttpSend
=============================================================================
