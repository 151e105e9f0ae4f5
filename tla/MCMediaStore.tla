---------------------------- MODULE MCMediaStore ----------------------------
(* Instances of MediaStore for TLC: threads, profiles, rows, digests and posts *)
(* are interchangeable.                                                        *)
EXTENDS MediaStore, TLC

Symmetry ==
  { f @@ g @@ h @@ i : f \in Permutations(Handlers), g \in Permutations(Profiles),
                       h \in Permutations(RowIds), i \in Permutations(Posts) }
=============================================================================
