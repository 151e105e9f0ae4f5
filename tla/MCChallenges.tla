----------------------------- MODULE MCChallenges -----------------------------
(* Instances of Challenges for TLC: profiles, rows, events and threads are     *)
(* interchangeable.                                                            *)
EXTENDS Challenges, TLC

Symmetry ==
  { f @@ g @@ i @@ h : f \in Permutations(Profiles), g \in Permutations(InviteIds),
                       i \in Permutations(Events), h \in Permutations(Handlers) }
=============================================================================
