-------------------------------- MODULE Clubs --------------------------------
(***************************************************************************)
(* backend/app/community: clubs, their members, roles, invitations and     *)
(* pinned posts (services/club_service.py, services/club_content_service.py*)
(* routers/clubs.py).                                                      *)
(*                                                                         *)
(* A request is served by one thread with one session.  It reads what its  *)
(* guards need and decides (an action May...), and later writes and        *)
(* commits (the action of the operation).  Nothing is locked in between:   *)
(* whatever another request commits there is not seen again.  A request    *)
(* that is refused changes nothing and is not modelled.  The SELECTs of    *)
(* one request are taken at one instant, and so are its writes, which      *)
(* nobody sees before its commit.                                          *)
(***************************************************************************)

EXTENDS Integers, FiniteSets

CONSTANTS
  Profiles, ClubIds, InviteIds, Posts, Keys,
  Handlers,     \* threads that serve requests
  None,         \* NULL, and no row
  Down,         \* the club of a post that was deleted or hidden
  MaxMembers,   \* MAX_CLUB_MEMBERS
  MaxPending,   \* MAX_CLUB_PENDING_INVITES
  MaxPins,      \* MAX_CLUB_PINNED_POSTS
  MaxRequests   \* bound of the model

VARIABLES
  clubs,    \* community_clubs
  role,     \* community_club_members: one row per club and profile, or none
  invites,  \* community_club_invites, join requests included
  pins,     \* community_club_pinned_posts
  posts,    \* the club of a visible post; None: not written yet
  blocked,  \* community_blocks as pairs <<blocker, blocked>>
  job,      \* what each thread has decided to write
  requests  \* number of requests so far, for the bound

tables == <<clubs, role, invites, pins, posts, blocked>>
vars == <<clubs, role, invites, pins, posts, blocked, job, requests>>

Roles == {"owner", "moderator", "member"}

\* maker, moved and opened are history: who made the club, whether ownership was
\* ever transferred, and whether anyone was ever free to join.
Club == [owner : Profiles, key : Keys \cup {None}, open : BOOLEAN,
         maker : Profiles, moved : BOOLEAN, opened : BOOLEAN]

\* A request to join is an invitation of oneself.
Invite == [club : ClubIds, inviter : Profiles, invitee : Profiles,
           key : Keys \cup {None},
           status : {"pending", "accepted", "declined", "cancelled"}]

ASSUME ClubsAssumptions ==
  /\ None \notin Profiles \cup ClubIds \cup InviteIds \cup Posts \cup Keys
  /\ None \notin Club \cup Invite
  /\ MaxMembers \in Nat \ {0} /\ MaxPending \in Nat /\ MaxPins \in Nat
  /\ MaxRequests \in Nat
  /\ IsFiniteSet(Handlers)

Answers == {"accepted", "declined", "cancelled"}
Ops == Answers \cup {"idle", "create", "update", "join", "invite", "leave", "remove",
                    "promote", "demote", "transfer", "pin", "unpin"}

\* rows: profiles whose membership row the thread has loaded and which still
\* exists.  seen: the role of the other profile as loaded.
Job == [op : Ops, actor : Profiles \cup {None}, club : ClubIds \cup {None},
        other : Profiles \cup {None}, item : InviteIds \cup Posts \cup {None},
        key : Keys \cup {None}, open : BOOLEAN, rows : SUBSET Profiles,
        seen : Roles \cup {"none"}]

Idle == [op |-> "idle", actor |-> None, club |-> None, other |-> None, item |-> None,
         key |-> None, open |-> FALSE, rows |-> {}, seen |-> "none"]

Request(op, p, c) == [Idle EXCEPT !.op = op, !.actor = p, !.club = c]

TypeOK ==
  /\ clubs \in [ClubIds -> Club \cup {None}]
  /\ role \in [ClubIds -> [Profiles -> Roles \cup {"none"}]]
  /\ invites \in [InviteIds -> Invite \cup {None}]
  /\ pins \in [ClubIds -> SUBSET Posts]
  /\ posts \in [Posts -> ClubIds \cup {None, Down}]
  /\ blocked \subseteq Profiles \X Profiles
  /\ job \in [Handlers -> Job]
  /\ requests \in 0 .. MaxRequests

Init ==
  /\ clubs = [c \in ClubIds |-> None]
  /\ role = [c \in ClubIds |-> [p \in Profiles |-> "none"]]
  /\ invites = [i \in InviteIds |-> None]
  /\ pins = [c \in ClubIds |-> {}]
  /\ posts = [x \in Posts |-> None]
  /\ blocked = {}
  /\ job = [h \in Handlers |-> Idle]
  /\ requests = 0

(***************************************************************************)
(* What the guards ask of the database.                                    *)
(***************************************************************************)

Exists(c) == clubs[c] # None
Members(c) == { p \in Profiles : role[c][p] # "none" }
Owners(c) == { p \in Profiles : role[c][p] = "owner" }
Pending(c) == { i \in InviteIds : /\ invites[i] # None
                                  /\ invites[i].club = c
                                  /\ invites[i].status = "pending" }

BlockedPair(p, q) == <<p, q>> \in blocked \/ <<q, p>> \in blocked

\* Rows that hold (owner, key) or (club, inviter, invitee, key) in a unique
\* index; NULL keys never collide.
ClubsWithKey(p, k) ==
  { c \in ClubIds : Exists(c) /\ k # None /\ clubs[c].owner = p
                                          /\ clubs[c].key = k }
InvitesWithKey(c, p, q, k) ==
  { i \in InviteIds : /\ k # None /\ invites[i] # None
                      /\ invites[i].club = c /\ invites[i].inviter = p
                      /\ invites[i].invitee = q /\ invites[i].key = k }

\* The matrix of policies/club_permissions.py, as far as services ask it.
MayPerform(r, action, target) ==
  CASE action = "update" -> r = "owner"
    [] action = "demote" -> r = "owner" /\ target = "moderator"
    [] action = "promote" -> r \in {"owner", "moderator"} /\ target = "member"
    [] OTHER -> r \in {"owner", "moderator"}

(***************************************************************************)
(* A thread takes a request, and ends it with or without its writes.       *)
(***************************************************************************)

Decide(h, j) ==
  /\ job[h] = Idle /\ requests < MaxRequests
  /\ requests' = requests + 1
  /\ job' = [job EXCEPT ![h] = j]
  /\ UNCHANGED tables

Done(h) == job' = [job EXCEPT ![h] = Idle] /\ UNCHANGED requests

\* An UPDATE that finds no row, a constraint nobody handles, or a crash: the
\* transaction is rolled back.
Abort(h) == job[h] # Idle /\ Done(h) /\ UNCHANGED tables

\* Mutant: a membership is kept, with a role the table's CHECK does not know.
DeleteSoftly(h, c, p) == role' = [role EXCEPT ![c][p] = "left"] /\ Done(h)

\* Deletes the membership row of p, also from under those who have loaded it.
DeleteMember(h, c, p) ==
  /\ role' = [role EXCEPT ![c][p] = "none"]
  /\ job' = [g \in Handlers |->
               IF g = h THEN Idle
               ELSE IF job[g].club = c
                    THEN [job[g] EXCEPT !.rows = @ \ {p}]
                    ELSE job[g]]
  /\ UNCHANGED requests

(***************************************************************************)
(* create_club and update_club.                                            *)
(***************************************************************************)

MayCreate(h, p, k, open) ==
  /\ ClubsWithKey(p, k) = {}
  /\ Decide(h, [Request("create", p, None) EXCEPT !.key = k, !.open = open])

\* Mutant: a club is inserted whatever the unique index says.
CreateAgain(h) ==
  LET j == job[h] IN
  /\ j.op = "create"
  /\ \E c \in ClubIds :
       /\ ~Exists(c)
       /\ clubs' = [clubs EXCEPT ![c] =
             [owner |-> j.actor, key |-> j.key, open |-> j.open,
              maker |-> j.actor, moved |-> FALSE, opened |-> j.open]]
       /\ role' = [role EXCEPT ![c][j.actor] = "owner"]
  /\ Done(h) /\ UNCHANGED <<invites, pins, posts, blocked>>

Create(h) ==
  LET j == job[h] IN
  /\ j.op = "create"
  /\ \/ /\ ClubsWithKey(j.actor, j.key) # {}      \* the unique index: read again
        /\ UNCHANGED <<clubs, role>>
     \/ /\ ClubsWithKey(j.actor, j.key) = {}
        /\ \E c \in ClubIds :
             /\ ~Exists(c)
             /\ clubs' = [clubs EXCEPT ![c] =
                   [owner |-> j.actor, key |-> j.key, open |-> j.open,
                    maker |-> j.actor, moved |-> FALSE, opened |-> j.open]]
             /\ role' = [role EXCEPT ![c][j.actor] = "owner"]
  /\ Done(h) /\ UNCHANGED <<invites, pins, posts, blocked>>

MayUpdate(h, p, c) ==
  /\ Exists(c) /\ MayPerform(role[c][p], "update", "none")
  /\ Decide(h, [Request("update", p, c) EXCEPT !.open = ~clubs[c].open])

Update(h) ==
  LET j == job[h] IN
  /\ j.op = "update"
  /\ clubs' = [clubs EXCEPT ![j.club].open = j.open,
                            ![j.club].opened = @ \/ j.open]
  /\ Done(h) /\ UNCHANGED <<role, invites, pins, posts, blocked>>

(***************************************************************************)
(* Joining: at once, on request, on invitation.                            *)
(***************************************************************************)

\* Mutants: visibility is not looked at; the last place is given away twice.
JoinAnyClub(h, p, c) ==
  /\ Exists(c) /\ ~BlockedPair(p, clubs[c].owner) /\ role[c][p] = "none"
  /\ Cardinality(Members(c)) < MaxMembers
  /\ Decide(h, Request("join", p, c))
JoinFullClub(h, p, c) ==
  /\ Exists(c) /\ ~BlockedPair(p, clubs[c].owner) /\ role[c][p] = "none"
  /\ clubs[c].open /\ Cardinality(Members(c)) <= MaxMembers
  /\ Decide(h, Request("join", p, c))

MayJoin(h, p, c) ==
  /\ Exists(c) /\ ~BlockedPair(p, clubs[c].owner)
  /\ role[c][p] = "none" /\ clubs[c].open
  /\ Cardinality(Members(c)) < MaxMembers
  /\ Decide(h, Request("join", p, c))

\* A row that is there by now is the answer.
Join(h) ==
  LET j == job[h] IN
  /\ j.op = "join"
  /\ role' = [role EXCEPT ![j.club][j.actor] = IF @ = "none" THEN "member" ELSE @]
  /\ Done(h) /\ UNCHANGED <<clubs, invites, pins, posts, blocked>>

MayAskToJoin(h, p, c, k) ==
  /\ Exists(c) /\ ~BlockedPair(p, clubs[c].owner)
  /\ role[c][p] = "none" /\ ~clubs[c].open
  /\ Cardinality(Pending(c)) < MaxPending
  /\ InvitesWithKey(c, p, p, k) = {}
  /\ Decide(h, [Request("invite", p, c) EXCEPT !.other = p, !.key = k])

MayInvite(h, p, c, q, k) ==
  /\ Exists(c) /\ MayPerform(role[c][p], "invite", "none")
  /\ p # q /\ ~BlockedPair(p, q)
  /\ Cardinality(Pending(c)) < MaxPending
  /\ InvitesWithKey(c, p, q, k) = {}
  /\ Decide(h, [Request("invite", p, c) EXCEPT !.other = q, !.key = k])

InsertInvite(h) ==
  LET j == job[h] IN
  /\ j.op = "invite"
  /\ \/ /\ InvitesWithKey(j.club, j.actor, j.other, j.key) # {}
        /\ UNCHANGED invites
     \/ /\ InvitesWithKey(j.club, j.actor, j.other, j.key) = {}
        /\ \E i \in InviteIds :
             /\ invites[i] = None
             /\ invites' = [invites EXCEPT ![i] =
                   [club |-> j.club, inviter |-> j.actor, invitee |-> j.other,
                    key |-> j.key, status |-> "pending"]]
  /\ Done(h) /\ UNCHANGED <<clubs, role, pins, posts, blocked>>

\* A cancellation may also come from the inviter, if still a member.
MayAnswer(h, p, i, answer) ==
  /\ invites[i] # None /\ invites[i].status = "pending"
  /\ LET c == invites[i].club IN
     /\ \/ MayPerform(role[c][p], "answer", "none")
        \/ answer = "cancelled" /\ invites[i].inviter = p /\ role[c][p] # "none"
     /\ answer = "accepted" => Cardinality(Members(c)) < MaxMembers
     /\ Decide(h, [Request(answer, p, c) EXCEPT !.item = i])

\* The status is written whatever it is by now; an invitee who is a member by now
\* stays what they are.
AnswerInvite(h) ==
  LET j == job[h] IN
  /\ j.op \in Answers
  /\ invites' = [invites EXCEPT ![j.item].status = j.op]
  /\ role' = IF j.op = "accepted"
             THEN [role EXCEPT ![j.club][invites[j.item].invitee] =
                                  IF @ = "none" THEN "member" ELSE @]
             ELSE role
  /\ Done(h) /\ UNCHANGED <<clubs, pins, posts, blocked>>

(***************************************************************************)
(* Leaving, removal and roles.                                             *)
(***************************************************************************)

\* Mutant: the lone owner may leave.
LeaveAnyway(h, p, c) ==
  /\ Exists(c) /\ role[c][p] # "none"
  /\ Decide(h, [Request("leave", p, c) EXCEPT !.other = p, !.rows = {p}])

MayLeave(h, p, c) ==
  /\ Exists(c) /\ role[c][p] # "none"
  /\ role[c][p] = "owner" => Cardinality(Owners(c)) > 1
  /\ Decide(h, [Request("leave", p, c) EXCEPT !.other = p, !.rows = {p}])

MayRemove(h, p, c, q) ==
  /\ Exists(c) /\ role[c][q] \notin {"none", "owner"}
  /\ MayPerform(role[c][p], "remove", role[c][q])
  /\ ~BlockedPair(p, q)
  /\ Decide(h, [Request("remove", p, c) EXCEPT !.other = q, !.rows = {q}])

\* A DELETE that finds no row is not an error.
Delete(h) ==
  LET j == job[h] IN
  /\ j.op \in {"leave", "remove"}
  /\ IF j.other \in j.rows
     THEN DeleteMember(h, j.club, j.other)
     ELSE Done(h) /\ UNCHANGED role
  /\ UNCHANGED <<clubs, invites, pins, posts, blocked>>

MayPromote(h, p, c, q) ==
  /\ Exists(c) /\ p # q /\ MayPerform(role[c][p], "promote", role[c][q])
  /\ Decide(h, [Request("promote", p, c) EXCEPT !.other = q, !.rows = {q}])

MayDemote(h, p, c, q) ==
  /\ Exists(c) /\ p # q /\ MayPerform(role[c][p], "demote", role[c][q])
  /\ Decide(h, [Request("demote", p, c) EXCEPT !.other = q, !.rows = {q}])

SetRole(h) ==
  LET j == job[h] IN
  /\ j.op \in {"promote", "demote"} /\ j.other \in j.rows
  /\ role' = [role EXCEPT ![j.club][j.other] =
                IF j.op = "promote" THEN "moderator" ELSE "member"]
  /\ Done(h) /\ UNCHANGED <<clubs, invites, pins, posts, blocked>>

MayTransfer(h, p, c, q) ==
  /\ Exists(c) /\ p # q
  /\ clubs[c].owner = p /\ role[c][p] = "owner" /\ role[c][q] # "none"
  /\ Decide(h, [Request("transfer", p, c) EXCEPT
                  !.other = q, !.rows = {p, q}, !.seen = role[c][q]])

\* Mutant: the UPDATE of the new owner's row may find nothing.
TransferAnyway(h) ==
  LET j == job[h] IN
  /\ j.op = "transfer"
  /\ role' = [role EXCEPT ![j.club] =
                [q \in Profiles |-> IF q \notin j.rows THEN @[q]
                                    ELSE IF q = j.actor THEN "member" ELSE "owner"]]
  /\ clubs' = [clubs EXCEPT ![j.club].owner = j.other, ![j.club].moved = TRUE]
  /\ Done(h) /\ UNCHANGED <<invites, pins, posts, blocked>>

\* Both rows must still be there; a role that was loaded as "owner" is not
\* written.  The new owner may hold the club's key already: the index refuses.
Transfer(h) ==
  LET j == job[h] IN
  /\ j.op = "transfer" /\ {j.actor, j.other} \subseteq j.rows
  /\ ClubsWithKey(j.other, clubs[j.club].key) \subseteq {j.club}
  /\ role' = [role EXCEPT ![j.club][j.actor] = "member",
                          ![j.club][j.other] = IF j.seen = "owner" THEN @ ELSE "owner"]
  /\ clubs' = [clubs EXCEPT ![j.club].owner = j.other, ![j.club].moved = TRUE]
  /\ Done(h) /\ UNCHANGED <<invites, pins, posts, blocked>>

(***************************************************************************)
(* Pinned posts.                                                           *)
(***************************************************************************)

MayPin(h, p, c, x) ==
  /\ Exists(c) /\ MayPerform(role[c][p], "pin", "none")
  /\ posts[x] = c /\ x \notin pins[c]
  /\ Cardinality(pins[c]) < MaxPins
  /\ Decide(h, [Request("pin", p, c) EXCEPT !.item = x])

\* A second INSERT of the same pair fails.
Pin(h) ==
  LET j == job[h] IN
  /\ j.op = "pin" /\ j.item \notin pins[j.club]
  /\ pins' = [pins EXCEPT ![j.club] = @ \cup {j.item}]
  /\ Done(h) /\ UNCHANGED <<clubs, role, invites, posts, blocked>>

MayUnpin(h, p, c, x) ==
  /\ Exists(c) /\ MayPerform(role[c][p], "pin", "none")
  /\ Decide(h, [Request("unpin", p, c) EXCEPT !.item = x])

Unpin(h) ==
  LET j == job[h] IN
  /\ j.op = "unpin"
  /\ pins' = [pins EXCEPT ![j.club] = @ \ {j.item}]
  /\ Done(h) /\ UNCHANGED <<clubs, role, invites, posts, blocked>>

(***************************************************************************)
(* What other components do: members post, posts are taken down, profiles  *)
(* block each other.                                                       *)
(***************************************************************************)

Outside == requests < MaxRequests /\ requests' = requests + 1 /\ UNCHANGED job

PostInClub(p, c, x) ==
  /\ Exists(c) /\ role[c][p] # "none" /\ posts[x] = None
  /\ posts' = [posts EXCEPT ![x] = c]
  /\ Outside /\ UNCHANGED <<clubs, role, invites, pins, blocked>>

TakeDown(x) ==
  /\ posts[x] \in ClubIds /\ posts' = [posts EXCEPT ![x] = Down]
  /\ Outside /\ UNCHANGED <<clubs, role, invites, pins, blocked>>

Block(p, q) ==
  /\ p # q /\ blocked' = blocked \cup {<<p, q>>}
  /\ Outside /\ UNCHANGED <<clubs, role, invites, pins, posts>>

Unblock(p, q) ==
  /\ blocked' = blocked \ {<<p, q>>}
  /\ Outside /\ UNCHANGED <<clubs, role, invites, pins, posts>>

Reads(h) ==
  \/ \E p \in Profiles, k \in Keys \cup {None}, open \in BOOLEAN :
        MayCreate(h, p, k, open)
  \/ \E p \in Profiles, c \in ClubIds :
        MayUpdate(h, p, c) \/ MayJoin(h, p, c) \/ MayLeave(h, p, c)
  \/ \E p \in Profiles, c \in ClubIds, k \in Keys \cup {None} :
        MayAskToJoin(h, p, c, k)
  \/ \E p, q \in Profiles, c \in ClubIds, k \in Keys \cup {None} :
        MayInvite(h, p, c, q, k)
  \/ \E p \in Profiles, i \in InviteIds, answer \in Answers :
        MayAnswer(h, p, i, answer)
  \/ \E p, q \in Profiles, c \in ClubIds :
        \/ MayRemove(h, p, c, q) \/ MayPromote(h, p, c, q)
        \/ MayDemote(h, p, c, q) \/ MayTransfer(h, p, c, q)
  \/ \E p \in Profiles, c \in ClubIds, x \in Posts :
        MayPin(h, p, c, x) \/ MayUnpin(h, p, c, x)

Writes(h) ==
  \/ Create(h) \/ Update(h) \/ Join(h) \/ InsertInvite(h) \/ AnswerInvite(h)
  \/ Delete(h) \/ SetRole(h) \/ Transfer(h) \/ Pin(h) \/ Unpin(h)

Others ==
  \/ \E p \in Profiles, c \in ClubIds, x \in Posts : PostInClub(p, c, x)
  \/ \E x \in Posts : TakeDown(x)
  \/ \E p, q \in Profiles : Block(p, q) \/ Unblock(p, q)

Next == Others \/ \E h \in Handlers : Reads(h) \/ Writes(h) \/ Abort(h)

Spec == Init /\ [][Next]_vars

(***************************************************************************)
(* Properties.                                                             *)
(***************************************************************************)

\* As long as ownership of a club was never transferred, its maker is its only
\* owner, in the column and in the roster, however leaving, removals and role
\* changes overlap (A1, A8).
StableOwner ==
  \A c \in ClubIds : Exists(c) /\ ~clubs[c].moved =>
    /\ clubs[c].owner = clubs[c].maker
    /\ Owners(c) = {clubs[c].maker}

\* One profile makes at most one club with one key, over retries that overlap
\* (A3, D5), unless it gave one of them away: the index then no longer sees it.
CreatedOnce ==
  \A c, d \in ClubIds :
    /\ c # d /\ Exists(c) /\ Exists(d)
    /\ clubs[c].key # None /\ clubs[c].key = clubs[d].key
    /\ clubs[c].maker = clubs[d].maker
    => clubs[c].moved \/ clubs[d].moved

\* The type invariant with it.
Sound == TypeOK /\ CreatedOnce

\* Nobody gets into a club that was never open without an invitation, or a
\* request of theirs, that was answered (A4, D6).
AdmittedByInvite ==
  \A c \in ClubIds, p \in Profiles :
    /\ Exists(c) /\ ~clubs[c].opened /\ role[c][p] # "none"
    => \/ p = clubs[c].maker
       \/ \E i \in InviteIds : /\ invites[i] # None
                               /\ invites[i].club = c /\ invites[i].invitee = p
                               /\ invites[i].status # "pending"

\* The caps are checked before the insert and can be overrun, but by no more than
\* the requests that are served at the same time: what is there and what threads
\* have decided to add (A7).
Adding(c, ops) == { h \in Handlers : job[h].op \in ops /\ job[h].club = c }
OverrunBounded ==
  LET Racing == Cardinality(Handlers) - 1
      Within(rows, ops, c, max) ==
        Cardinality(rows) + Cardinality(Adding(c, ops)) <= max + Racing
  IN \A c \in ClubIds : Exists(c) =>
       /\ Within(Members(c), {"join", "accepted"}, c, MaxMembers)
       /\ Within(Pending(c), {"invite"}, c, MaxPending)
       /\ Within(pins[c], {"pin"}, c, MaxPins)

\* Ownership only moves to a profile whose membership row is there when the
\* transfer commits, even if it was read before they left and came back.
OwnerMovesToAMember ==
  [][ \A c \in ClubIds :
        Exists(c) /\ clubs'[c].owner # clubs[c].owner =>
          /\ role[c][clubs'[c].owner] # "none"
          /\ role'[c][clubs'[c].owner] # "none" ]_vars

\* What cancel_invite says: it flips the row by "the same conditional UPDATE shape" as
\* the cancel_invite of challenges, which cancels what is pending only.  Refuted: the row
\* may have been accepted since its status was checked, and the invitee let in.
CancelsPendingOnly ==
  [][ \A i \in InviteIds :
        invites[i] # None /\ invites[i].status # "cancelled"
          /\ invites'[i].status = "cancelled" => invites[i].status = "pending" ]_vars
=============================================================================
