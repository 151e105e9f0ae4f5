------------------------------- MODULE MCClubs -------------------------------
(* Instances of Clubs for TLC: profiles, rows and threads are                  *)
(* interchangeable.                                                            *)
EXTENDS Clubs, TLC

Symmetry ==
  { f @@ g @@ i @@ h : f \in Permutations(Profiles), g \in Permutations(ClubIds),
                       i \in Permutations(InviteIds), h \in Permutations(Handlers) }
=============================================================================
