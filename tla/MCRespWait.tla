----------------------------- MODULE MCRespWait -----------------------------
(* Instances of RespWait for TLC.                                          *)
EXTENDS RespWait
=============================================================================
