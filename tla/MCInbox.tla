------------------------------ MODULE MCInbox -------------------------------
(* Instances of Inbox for TLC: actors, kinds and threads are interchangeable. *)
EXTENDS Inbox, TLC

Symmetry ==
  { f @@ g @@ h : f \in Permutations(Actors), g \in Permutations(Kinds),
                  h \in Permutations(Handlers) }
=============================================================================
