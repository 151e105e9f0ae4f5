---------------------------- MODULE MCModeration ----------------------------
(* Instances of Moderation for TLC: cases, targets and threads are             *)
(* interchangeable.                                                            *)
EXTENDS Moderation, TLC

Symmetry ==
  { f @@ g @@ h : f \in Permutations(CaseIds), g \in Permutations(Targets),
                  h \in Permutations(Handlers) }
=============================================================================
