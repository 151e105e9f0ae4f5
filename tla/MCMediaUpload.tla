---------------------------- MODULE MCMediaUpload ---------------------------
(* Instances of MediaUpload for TLC: threads are interchangeable.              *)
EXTENDS MediaUpload, TLC

Symmetry == Permutations(Handlers)
=============================================================================
