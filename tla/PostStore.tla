------------------------------ MODULE PostStore ------------------------------
(***************************************************************************)
(* What the post service promises its clients, with every request taken    *)
(* as one atomic step: an author has at most one live post per             *)
(* idempotency key, and a deleted post never comes back.                   *)
(*                                                                         *)
(* The promise is read off backend/app/community/services/post_service.py: *)
(* a retry with a key whose post is live returns that post, a retry with a *)
(* key whose post was deleted makes a new post, and deletion is final.     *)
(***************************************************************************)

CONSTANTS
  Profiles,  \* community profiles, the possible authors
  Keys,      \* idempotency keys
  NoKey,     \* "no idempotency key was sent"
  RowIds,    \* internal ids of the rows of community_posts
  NoPost     \* an unused row

VARIABLE board  \* row id -> NoPost, or the post's author, key and deletion

BoardPost ==
  [author : Profiles, origin : Keys \cup {NoKey}, deleted : BOOLEAN]

Init == board = [i \in RowIds |-> NoPost]

\* A post of p made with key k that readers can see.
LiveFor(p, k) ==
  { i \in RowIds : /\ board[i] # NoPost
                   /\ board[i].author = p
                   /\ board[i].origin = k
                   /\ ~board[i].deleted }

Publish(i, p, k) ==
  /\ board[i] = NoPost
  /\ k # NoKey => LiveFor(p, k) = {}
  /\ board' = [board EXCEPT
                 ![i] = [author |-> p, origin |-> k, deleted |-> FALSE]]

Retract(i) ==
  /\ board[i] # NoPost
  /\ board' = [board EXCEPT
                 ![i] = [author |-> board[i].author,
                         origin |-> board[i].origin, deleted |-> TRUE]]

Next ==
  \E i \in RowIds :
    \/ \E p \in Profiles, k \in Keys \cup {NoKey} : Publish(i, p, k)
    \/ Retract(i)

Spec == Init /\ [][Next]_board
=============================================================================
