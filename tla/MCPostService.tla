---------------------------- MODULE MCPostService ----------------------------
(* Instances of PostService for TLC.                                         *)
EXTENDS PostService
=============================================================================
