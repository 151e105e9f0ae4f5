--------------------------- MODULE MCAuthSession ---------------------------
(* Instances of AuthSession for TLC.  No symmetry: it has a liveness property. *)
EXTENDS AuthSession, TLC
=============================================================================
