---------------------------- MODULE SocialGraph ----------------------------
(***************************************************************************)
(* backend/app/community/services/follow_service.py and block_service.py   *)
(* with routers/social_graph.py and routers/safety.py: who follows whom,   *)
(* who has asked to, and who blocks whom.                                  *)
(*                                                                         *)
(* A request reads the rows of a pair and decides what to write (an action *)
(* May...); what it decided is flushed and committed later, in one piece   *)
(* (Write), where a row that someone else has inserted in between rolls    *)
(* all of it back.  Rows are deleted by their key: a row that was made     *)
(* again is another row.  A key is the number of the request that made it. *)
(*                                                                         *)
(* Left out: mutes, rows of their own that no other operation reads or     *)
(* writes; the lists; notifications.                                       *)
(***************************************************************************)

EXTENDS Naturals, FiniteSets, Requests

CONSTANT Profiles

VARIABLES
  edges,     \* community_follows: the key of the row of a pair, 0 without one
  asks,      \* community_follow_requests: status of the row of a pair, and the
             \* request that wrote it
  blocks,    \* community_blocks, like edges
  private,   \* profiles whose visibility is private
  consent,   \* history: pairs whose follow was wanted by both sides
  dropped,   \* history: pairs whose edge was deleted
  raced      \* history: pairs of profiles two requests worked on at once

vars == <<edges, asks, blocks, private, job, consent, dropped, raced, requests>>

Pairs == { <<a, b>> : a, b \in Profiles } \ { <<a, a>> : a \in Profiles }
Back(p) == <<p[2], p[1]>>
Both(p) == {p, Back(p)}

Statuses == {"requested", "accepted", "declined", "cancelled", "blocked"}
Keys == 0 .. MaxRequests

\* What a request writes: rows it inserts for its pair (edge, ask, block), keys of
\* the rows it deletes, statuses it sets.
Nothing == [key |-> 0, pair |-> None, inserts |-> {}, deletes |-> {},
            sets |-> {}, to |-> None]

Job == [key : Keys, pair : Pairs \cup {None}, inserts : SUBSET {"edge", "ask", "block"},
        deletes : SUBSET Keys, sets : SUBSET Pairs, to : Statuses \cup {None}]

ASSUME SocialGraphAssumptions ==
  /\ None \notin Pairs /\ None \notin Statuses
  /\ None \notin [status : Statuses, by : Keys]
  /\ MaxRequests \in Nat

TypeOK ==
  /\ edges \in [Pairs -> Keys] /\ blocks \in [Pairs -> Keys]
  /\ asks \in [Pairs -> [status : Statuses, by : Keys] \cup {None}]
  /\ private \subseteq Profiles
  /\ job \in [Handlers -> Job]
  /\ consent \subseteq Pairs /\ dropped \subseteq Pairs
  /\ raced \subseteq Pairs
  /\ requests \in Keys

Init ==
  /\ edges = [p \in Pairs |-> 0] /\ blocks = [p \in Pairs |-> 0]
  /\ asks = [p \in Pairs |-> None]
  /\ private \in SUBSET Profiles
  /\ job = [h \in Handlers |-> Nothing]
  /\ consent = {} /\ dropped = {} /\ raced = {}
  /\ requests = 0

Status(p) == IF asks[p] = None THEN None ELSE asks[p].status

Busy(h) == job[h].key # 0

\* A request that has something to write about pair p.
Plan(h, p, j) ==
  /\ ~Busy(h) /\ requests < MaxRequests
  /\ requests' = requests + 1
  /\ job' = [job EXCEPT ![h] = [j EXCEPT !.key = requests + 1, !.pair = p]]
  /\ raced' = IF \E k \in Handlers : Busy(k) /\ job[k].pair \in Both(p)
              THEN raced \cup Both(p) ELSE raced
  /\ UNCHANGED <<edges, asks, blocks, private, dropped>>

(***************************************************************************)
(* follow, accept_follow_request, decline_follow_request, unfollow and     *)
(* remove_follower.  p is follower and followed.                           *)
(***************************************************************************)

Insert(row) == [Nothing EXCEPT !.inserts = {row}]

\* A mutant: the service spells a status in another way than its readers.
SetMisspelt(p, status) ==
  [Nothing EXCEPT !.sets = {p}, !.to = IF status = "cancelled" THEN "canceled" ELSE status]

Set(p, status) == [Nothing EXCEPT !.sets = {p}, !.to = status]

\* Of a private profile the edge is not looked at, and a row of any other status
\* is asked again.  Blocks are not looked at.
MayFollow(h, p) ==
  \/ /\ p[2] \notin private /\ edges[p] = 0
     /\ Plan(h, p, Insert("edge"))
     /\ consent' = consent \cup {p}
  \/ /\ p[2] \in private /\ asks[p] = None
     /\ Plan(h, p, Insert("ask")) /\ UNCHANGED consent
  \/ /\ p[2] \in private /\ asks[p] # None /\ Status(p) # "requested"
     /\ Plan(h, p, Set(p, "requested")) /\ UNCHANGED consent

\* A mutant: the edge is left to a second transaction.
AcceptFirst(p, j) == j

WithEdge(p, j) == IF edges[p] = 0 THEN [j EXCEPT !.inserts = {"edge"}] ELSE j

\* A mutant: whoever knows the request may answer it.
AnyoneAccepts(h, who, p) ==
  /\ Status(p) = "requested"
  /\ Plan(h, p, WithEdge(p, Set(p, "accepted")))
  /\ consent' = IF who = p[2] THEN consent \cup {p} ELSE consent

\* Accepting again restores the edge.
MayAccept(h, who, p) ==
  /\ who = p[2]
  /\ \/ /\ Status(p) = "requested"
        /\ Plan(h, p, WithEdge(p, Set(p, "accepted")))
     \/ /\ Status(p) = "accepted" /\ edges[p] = 0
        /\ Plan(h, p, Insert("edge"))
  /\ consent' = consent \cup {p}

MayDecline(h, who, p) ==
  /\ who = p[2] /\ asks[p] # None /\ Status(p) \notin {"declined", "accepted"}
  /\ Plan(h, p, Set(p, "declined")) /\ UNCHANGED consent

MayUnfollow(h, p) ==
  /\ \/ /\ edges[p] # 0
        /\ Plan(h, p, [Nothing EXCEPT !.deletes = {edges[p]}])
     \/ /\ edges[p] = 0 /\ Status(p) = "requested"
        /\ Plan(h, p, Set(p, "cancelled"))
  /\ UNCHANGED consent

MayRemoveFollower(h, who, p) ==
  /\ who = p[2] /\ edges[p] # 0
  /\ Plan(h, p, [Nothing EXCEPT !.deletes = {edges[p]}]) /\ UNCHANGED consent

(***************************************************************************)
(* block and unblock.  p is blocker and blocked.                           *)
(***************************************************************************)

\* A mutant: only the edge of the blocked is removed.
BlockOneWay(h, p) ==
  /\ blocks[p] = 0
  /\ Plan(h, p, [Nothing EXCEPT !.inserts = {"block"}, !.deletes = {edges[Back(p)]} \ {0},
                  !.sets = { q \in Both(p) : Status(q) = "requested" }, !.to = "blocked"])
  /\ UNCHANGED consent

MayBlock(h, p) ==
  /\ blocks[p] = 0
  /\ Plan(h, p, [Nothing EXCEPT !.inserts = {"block"},
                  !.deletes = { edges[q] : q \in Both(p) } \ {0},
                  !.sets = { q \in Both(p) : Status(q) = "requested" }, !.to = "blocked"])
  /\ UNCHANGED consent

MayUnblock(h, p) ==
  /\ blocks[p] # 0
  /\ Plan(h, p, [Nothing EXCEPT !.deletes = {blocks[p]}]) /\ UNCHANGED consent

(***************************************************************************)
(* The end of a request.                                                   *)
(***************************************************************************)

Done(h) ==
  /\ job' = [job EXCEPT ![h] = Nothing]
  /\ UNCHANGED <<private, consent, raced, requests>>

\* The unique indexes of the three tables.
Conflict(j) ==
  \/ "edge" \in j.inserts /\ edges[j.pair] # 0
  \/ "ask" \in j.inserts /\ asks[j.pair] # None
  \/ "block" \in j.inserts /\ blocks[j.pair] # 0

Rewrite(table, j, row) ==
  [p \in Pairs |-> IF p = j.pair /\ row \in j.inserts THEN j.key
                   ELSE IF table[p] \in j.deletes THEN 0 ELSE table[p]]

Write(h) ==
  LET j == job[h] IN
  /\ Busy(h) /\ ~Conflict(j)
  /\ edges' = Rewrite(edges, j, "edge")
  /\ blocks' = Rewrite(blocks, j, "block")
  /\ asks' = [p \in Pairs |->
       IF p = j.pair /\ "ask" \in j.inserts THEN [status |-> "requested", by |-> j.key]
       ELSE IF p \in j.sets THEN [status |-> j.to, by |-> j.key]
       ELSE asks[p]]
  /\ dropped' = dropped \cup { p \in Pairs : edges[p] \in j.deletes }
  /\ Done(h)

\* Another request was faster, or the process dies.
RollBack(h) == Busy(h) /\ Done(h) /\ UNCHANGED <<edges, asks, blocks, dropped>>

\* The privacy settings, which are another service's.
ChangePrivacy(a) ==
  /\ private' = IF a \in private THEN private \ {a} ELSE private \cup {a}
  /\ UNCHANGED <<edges, asks, blocks, job, consent, dropped, raced, requests>>

Next ==
  \/ \E h \in Handlers :
       \/ \E p \in Pairs :
            \/ MayFollow(h, p) \/ MayUnfollow(h, p) \/ MayBlock(h, p) \/ MayUnblock(h, p)
            \/ \E who \in Profiles :
                 MayAccept(h, who, p) \/ MayDecline(h, who, p) \/ MayRemoveFollower(h, who, p)
       \/ Write(h) \/ RollBack(h)
  \/ \E a \in Profiles : ChangePrivacy(a)

Spec == Init /\ [][Next]_vars

(***************************************************************************)
(* Properties.                                                             *)
(***************************************************************************)

\* Nobody is followed without having agreed: whatever overlaps, an edge stands for
\* a follow of a profile that was public or for an answer of the one followed.
NoEdgeWithoutConsent == \A p \in Pairs : edges[p] # 0 => p \in consent

\* The type invariant with it.
Sound == TypeOK /\ NoEdgeWithoutConsent

\* Status and edge are written together: a request that is accepted has its edge
\* unless someone deleted it since (accept_follow_request).
AcceptedHasEdge ==
  \A p \in Pairs : Status(p) = "accepted" => edges[p] # 0 \/ p \in dropped

\* A block closes the relation in both directions: what is left of it was made by
\* a request that came after the block, unless one overlapped it (ADR 0402, D1).
BlockSevers ==
  \A p \in Pairs \ raced : blocks[p] # 0 =>
    \A q \in Both(p) :
      /\ edges[q] # 0 => edges[q] > blocks[p]
      /\ Status(q) = "requested" => asks[q].by > blocks[p]

\* What follow says: a pair with an active follow is left as it is.
FollowersDoNotAsk == \A p \in Pairs : edges[p] # 0 => Status(p) # "requested"

\* What the design of the block asks for: no direct interaction after it.
NoFollowAcrossBlock ==
  \A p \in Pairs \ raced : edges[p] # 0 => blocks[p] = 0 /\ blocks[Back(p)] = 0
=============================================================================
