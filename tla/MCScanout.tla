----------------------------- MODULE MCScanout ------------------------------
(* Instances of Scanout for TLC.                                           *)
EXTENDS Scanout
=============================================================================
