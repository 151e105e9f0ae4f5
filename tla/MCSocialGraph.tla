---------------------------- MODULE MCSocialGraph ---------------------------
(* Instances of SocialGraph for TLC: profiles and threads are interchangeable. *)
EXTENDS SocialGraph, TLC

Symmetry == { f @@ g : f \in Permutations(Profiles), g \in Permutations(Handlers) }
=============================================================================
