---------------------------- MODULE MCMicSession -----------------------------
(* Instances of MicSession for TLC.                                          *)
EXTENDS MicSession
=============================================================================
