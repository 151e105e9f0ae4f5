----------------------------- MODULE Clubs_proofs -----------------------------
(***************************************************************************)
(* Proofs about Clubs, for any number of clubs, members and requests that  *)
(* overlap: who owns a club, who gets into it, how often it is created,    *)
(* and by how much its caps can be overrun.                                *)
(***************************************************************************)
EXTENDS Clubs, FiniteSetTheorems, TLAPS

\* What holds of a decision until it is written.
PlannedBy(j) ==
  /\ j.op # "idle" => j.actor \in Profiles
  /\ j.op \notin {"idle", "create"} => j.club \in ClubIds /\ Exists(j.club)
  /\ \A p \in j.rows : j.club \in ClubIds /\ role[j.club][p] # "none"
  /\ j.op = "join" => clubs[j.club].opened
  /\ j.op \in {"invite", "transfer", "leave", "remove", "promote", "demote"} =>
       j.other \in Profiles
  /\ j.op \in Answers =>
       /\ j.item \in InviteIds /\ invites[j.item] # None
       /\ invites[j.item].club = j.club
  /\ j.op \in {"leave", "remove", "promote", "demote"} /\ ~clubs[j.club].moved =>
       j.other # clubs[j.club].maker
  /\ j.op = "transfer" => j.actor # j.other
  /\ j.op = "pin" => j.item \in Posts

Planned == \A h \in Handlers : PlannedBy(job[h])

\* Rows refer to clubs that are there, and a club that is open has been opened.
Rosters ==
  /\ \A c \in ClubIds : clubs[c] = None =>
       /\ \A p \in Profiles : role[c][p] = "none"
       /\ pins[c] = {}
  /\ \A c \in ClubIds : Exists(c) /\ clubs[c].open => clubs[c].opened
  /\ \A i \in InviteIds : invites[i] # None => Exists(invites[i].club)

Owned == StableOwner /\ CreatedOnce /\ AdmittedByInvite
Inv == TypeOK /\ Rosters /\ Planned /\ Owned

LEMMA Constants ==
  /\ None \notin Profiles /\ None \notin ClubIds /\ None \notin InviteIds
  /\ None \notin Posts /\ None \notin Keys /\ None \notin Club /\ None \notin Invite
  /\ MaxRequests \in Nat
  BY ClubsAssumptions

LEMMA IdleFacts ==
  /\ Idle \in Job /\ Idle.op = "idle" /\ Idle.rows = {} /\ PlannedBy(Idle)
<1>1. Idle \in Job
  BY DEF Idle, Job, Ops
<1>2. Idle.op = "idle" /\ Idle.rows = {}
  BY DEF Idle
<1> QED
  BY <1>1, <1>2 DEF PlannedBy, Answers

LEMMA InitInv == Init => Inv
<1> SUFFICES ASSUME Init PROVE Inv
  OBVIOUS
<1>1. TypeOK
  BY Constants, IdleFacts DEF Init, TypeOK
<1>2. Planned
  BY IdleFacts DEF Init, Planned
<1> QED
  BY <1>1, <1>2
  DEF Init, Inv, Rosters, Owned, StableOwner, CreatedOnce, AdmittedByInvite, Exists

(***************************************************************************)
(* Steps that found no club                                                *)
(***************************************************************************)

\* What every step keeps of the clubs and invitations that are there.
Keeps ==
  /\ \A c \in ClubIds : Exists(c) =>
       /\ clubs'[c] # None
       /\ clubs'[c].maker = clubs[c].maker /\ clubs'[c].key = clubs[c].key
       /\ clubs[c].moved => clubs'[c].moved
       /\ clubs[c].opened => clubs'[c].opened
  /\ \A i \in InviteIds : invites[i] # None =>
       /\ invites'[i] # None
       /\ invites'[i].club = invites[i].club /\ invites'[i].invitee = invites[i].invitee
       /\ invites[i].status # "pending" => invites'[i].status # "pending"

NobodyLeaves ==
  \A c \in ClubIds, p \in Profiles : role[c][p] # "none" => role'[c][p] # "none"

\* No club is founded, owners change only with a transfer, and who gets in was
\* invited unless the club was open.
Orderly ==
  /\ \A c \in ClubIds : clubs[c] = None =>
       /\ clubs'[c] = None
       /\ \A p \in Profiles : role'[c][p] = "none"
       /\ pins'[c] = {}
  /\ \A c \in ClubIds : Exists(c) /\ ~clubs'[c].moved =>
       /\ clubs'[c].owner = clubs[c].owner
       /\ \A p \in Profiles : role'[c][p] = "owner" <=> role[c][p] = "owner"
  /\ \A c \in ClubIds : Exists(c) /\ clubs'[c].open => clubs'[c].opened
  /\ \A c \in ClubIds, p \in Profiles :
       Exists(c) /\ role[c][p] = "none" /\ role'[c][p] # "none" =>
         \/ clubs'[c].opened
         \/ \E i \in InviteIds : /\ invites'[i] # None
                                 /\ invites'[i].club = c /\ invites'[i].invitee = p
                                 /\ invites'[i].status # "pending"
  /\ \A i \in InviteIds : invites[i] = None /\ invites'[i] # None =>
       invites'[i].club \in ClubIds /\ Exists(invites'[i].club)

LEMMA OrderlyInv ==
  ASSUME TypeOK, Rosters, Owned, Keeps, Orderly
  PROVE  Rosters' /\ Owned'
<1>1. Rosters'
  <2>1. \A c \in ClubIds : clubs'[c] = None =>
          (\A p \in Profiles : role'[c][p] = "none") /\ pins'[c] = {}
    BY DEF Keeps, Orderly, Exists
  <2>2. \A c \in ClubIds : clubs'[c] # None /\ clubs'[c].open => clubs'[c].opened
    BY DEF Orderly, Exists
  <2>3. ASSUME NEW i \in InviteIds, invites'[i] # None
        PROVE  clubs'[invites'[i].club] # None
    <3>1. CASE invites[i] = None
      <4>1. invites'[i].club \in ClubIds /\ Exists(invites'[i].club)
        BY <2>3, <3>1 DEF Orderly
      <4> QED
        BY <4>1, <2>3 DEF Keeps, Exists
    <3>2. CASE invites[i] # None
      <4>1. invites'[i].club = invites[i].club /\ Exists(invites[i].club)
        BY <3>2 DEF Keeps, Rosters
      <4>2. invites[i].club \in ClubIds
        BY <3>2 DEF TypeOK, Invite
      <4> QED
        BY <4>1, <4>2 DEF Keeps
    <3> QED
      BY <3>1, <3>2
  <2> QED
    BY <2>1, <2>2, <2>3 DEF Rosters, Exists
<1>2. \A c \in ClubIds : clubs'[c] # None => clubs[c] # None
  BY DEF Orderly
<1>3. StableOwner'
  <2> SUFFICES ASSUME NEW c \in ClubIds, clubs'[c] # None, ~clubs'[c].moved
               PROVE  /\ clubs'[c].owner = clubs'[c].maker
                      /\ \A p \in Profiles : role'[c][p] = "owner" <=> p = clubs'[c].maker
                      /\ clubs'[c].maker \in Profiles
    BY DEF StableOwner, Exists, Owners
  <2>1. Exists(c) /\ ~clubs[c].moved /\ clubs'[c].maker = clubs[c].maker
    BY <1>2 DEF Keeps, Exists
  <2>2. clubs[c].maker \in Profiles
    BY <2>1 DEF Exists, TypeOK, Club
  <2>3. clubs[c].owner = clubs[c].maker
        /\ \A p \in Profiles : role[c][p] = "owner" <=> p = clubs[c].maker
    BY <2>1, <2>2 DEF Owned, StableOwner, Owners
  <2> QED
    BY <2>1, <2>2, <2>3 DEF Orderly
<1>4. CreatedOnce'
  BY <1>2 DEF Owned, CreatedOnce, Keeps, Exists
<1>5. AdmittedByInvite'
  <2> SUFFICES ASSUME NEW c \in ClubIds, NEW p \in Profiles, clubs'[c] # None,
                      ~clubs'[c].opened, role'[c][p] # "none", p # clubs'[c].maker
               PROVE  \E i \in InviteIds : /\ invites'[i] # None
                                           /\ invites'[i].club = c /\ invites'[i].invitee = p
                                           /\ invites'[i].status # "pending"
    BY DEF AdmittedByInvite, Exists
  <2>1. Exists(c) /\ ~clubs[c].opened /\ p # clubs[c].maker
    BY <1>2 DEF Keeps, Exists
  <2>2. CASE role[c][p] = "none"
    BY <2>1, <2>2 DEF Orderly
  <2>3. CASE role[c][p] # "none"
    BY <2>1, <2>3 DEF Owned, AdmittedByInvite, Keeps
  <2> QED
    BY <2>2, <2>3
<1> QED
  BY <1>1, <1>3, <1>4, <1>5 DEF Owned

\* A request that ends where nobody left keeps the plans of the others.
LEMMA DoneFacts ==
  ASSUME TypeOK, Planned, NEW h \in Handlers, Done(h), Keeps, NobodyLeaves
  PROVE  job' \in [Handlers -> Job] /\ Planned' /\ requests' = requests
<1>1. job' = [job EXCEPT ![h] = Idle] /\ requests' = requests
  BY DEF Done
<1>2. job' \in [Handlers -> Job] /\ job'[h] = Idle
  BY <1>1, IdleFacts DEF TypeOK
<1>3. PlannedBy(job[h])'
  BY <1>2, IdleFacts DEF PlannedBy, Answers
<1>4. ASSUME NEW g \in Handlers \ {h} PROVE PlannedBy(job[g])'
  <2>1. PICK j \in Job : j = job[g] /\ j = job'[g]
    BY <1>1 DEF TypeOK
  <2>2. \A p \in j.rows : p \in Profiles
    BY <2>1 DEF Job
  <2>3. PlannedBy(job[g])
    BY DEF Planned
  <2> QED
    BY <2>1, <2>2, <2>3 DEF PlannedBy, Keeps, NobodyLeaves, Exists
<1> QED
  BY <1>1, <1>2, <1>3, <1>4 DEF Planned

(***************************************************************************)
(* Reading and deciding                                                    *)
(***************************************************************************)

LEMMA PlanInv ==
  ASSUME Inv, NEW h \in Handlers, NEW j \in Job, Decide(h, j), PlannedBy(j)
  PROVE  Inv'
<1>1. UNCHANGED <<clubs, role, invites, pins, posts, blocked>>
      /\ job' = [job EXCEPT ![h] = j]
  BY DEF Decide, tables
<1>2. TypeOK'
  BY <1>1, Constants DEF Decide, Inv, TypeOK
<1>3. Planned'
  BY <1>1 DEF Inv, TypeOK, Planned, PlannedBy, Exists
<1>4. Keeps /\ Orderly
  BY <1>1 DEF Inv, Rosters, Keeps, Orderly, Exists
<1> QED
  BY <1>2, <1>3, <1>4, OrderlyInv DEF Inv

LEMMA MayCreateInv ==
  ASSUME Inv, NEW h \in Handlers, NEW p \in Profiles, NEW k \in Keys \cup {None},
         NEW open \in BOOLEAN, MayCreate(h, p, k, open)
  PROVE  Inv'
<1>1. PICK j : /\ Decide(h, j)
               /\ j = [Request("create", p, None) EXCEPT !.key = k, !.open = open]
  BY DEF MayCreate
<1>2. j = [op |-> "create", actor |-> p, club |-> None, other |-> None, item |-> None,
           key |-> k, open |-> open, rows |-> {}, seen |-> "none"]
  BY <1>1 DEF Request, Idle
<1>3. j \in Job /\ PlannedBy(j)
  BY <1>2 DEF Job, Ops, PlannedBy, Answers
<1> QED
  BY <1>1, <1>3, PlanInv

\* Requests that plan nothing about a second profile.
LEMMA MayUpdateJoinInv ==
  ASSUME Inv, NEW h \in Handlers, NEW p \in Profiles, NEW c \in ClubIds,
         MayUpdate(h, p, c) \/ MayJoin(h, p, c)
  PROVE  Inv'
<1>1. CASE MayUpdate(h, p, c)
  <2>1. PICK j : /\ Decide(h, j)
                 /\ j = [Request("update", p, c) EXCEPT !.open = ~clubs[c].open]
    BY <1>1 DEF MayUpdate
  <2>2. j = [op |-> "update", actor |-> p, club |-> c, other |-> None, item |-> None,
             key |-> None, open |-> ~clubs[c].open, rows |-> {}, seen |-> "none"]
    BY <2>1 DEF Request, Idle
  <2>3. clubs[c].open \in BOOLEAN /\ Exists(c)
    BY <1>1 DEF MayUpdate, Inv, TypeOK, Exists, Club
  <2>4. j \in Job /\ PlannedBy(j)
    BY <2>2, <2>3 DEF Job, Ops, PlannedBy, Answers
  <2> QED
    BY <2>1, <2>4, PlanInv
<1>2. CASE MayJoin(h, p, c)
  <2>1. PICK j : Decide(h, j) /\ j = Request("join", p, c)
    BY <1>2 DEF MayJoin
  <2>2. j = [op |-> "join", actor |-> p, club |-> c, other |-> None, item |-> None,
             key |-> None, open |-> FALSE, rows |-> {}, seen |-> "none"]
    BY <2>1 DEF Request, Idle
  <2>3. Exists(c) /\ clubs[c].opened
    BY <1>2 DEF MayJoin, Inv, Rosters
  <2>4. j \in Job /\ PlannedBy(j)
    BY <2>2, <2>3 DEF Job, Ops, PlannedBy, Answers
  <2> QED
    BY <2>1, <2>4, PlanInv
<1> QED
  BY <1>1, <1>2

LEMMA MayInviteInv ==
  ASSUME Inv, NEW h \in Handlers, NEW p \in Profiles, NEW c \in ClubIds,
         NEW q \in Profiles, NEW k \in Keys \cup {None},
         MayInvite(h, p, c, q, k) \/ (q = p /\ MayAskToJoin(h, p, c, k))
  PROVE  Inv'
<1>1. PICK j : /\ Decide(h, j)
               /\ j = [Request("invite", p, c) EXCEPT !.other = q, !.key = k]
  BY DEF MayInvite, MayAskToJoin
<1>2. j = [op |-> "invite", actor |-> p, club |-> c, other |-> q, item |-> None,
           key |-> k, open |-> FALSE, rows |-> {}, seen |-> "none"]
  BY <1>1 DEF Request, Idle
<1>3. Exists(c)
  BY DEF MayInvite, MayAskToJoin
<1>4. j \in Job /\ PlannedBy(j)
  BY <1>2, <1>3 DEF Job, Ops, PlannedBy, Answers
<1> QED
  BY <1>1, <1>4, PlanInv

LEMMA MayAnswerInv ==
  ASSUME Inv, NEW h \in Handlers, NEW p \in Profiles, NEW i \in InviteIds,
         NEW answer \in Answers, MayAnswer(h, p, i, answer)
  PROVE  Inv'
<1>1. PICK c : c = invites[i].club
  OBVIOUS
<1>2. PICK j : Decide(h, j) /\ j = [Request(answer, p, c) EXCEPT !.item = i]
  BY <1>1 DEF MayAnswer
<1>3. j = [op |-> answer, actor |-> p, club |-> c, other |-> None, item |-> i,
           key |-> None, open |-> FALSE, rows |-> {}, seen |-> "none"]
  BY <1>2 DEF Request, Idle
<1>4. invites[i] # None /\ c \in ClubIds /\ Exists(c)
  BY <1>1 DEF MayAnswer, Inv, TypeOK, Rosters, Invite
<1>5. j \in Job
  BY <1>3, <1>4 DEF Job, Ops
<1>6. PlannedBy(j)
  BY <1>1, <1>3, <1>4 DEF PlannedBy, Answers
<1> QED
  BY <1>2, <1>5, <1>6, PlanInv

\* Who makes a club keeps its only "owner" until a transfer: nobody plans to
\* remove that profile or to change its role.
LEMMA MayChangeInv ==
  ASSUME Inv, NEW h \in Handlers, NEW p \in Profiles, NEW c \in ClubIds, NEW q \in Profiles,
         \/ MayLeave(h, p, c) /\ q = p
         \/ MayRemove(h, p, c, q) \/ MayPromote(h, p, c, q) \/ MayDemote(h, p, c, q)
  PROVE  Inv'
<1>1. PICK op, j :
        /\ op \in {"leave", "remove", "promote", "demote"} /\ Decide(h, j)
        /\ j = [Request(op, p, c) EXCEPT !.other = q, !.rows = {q}]
  BY DEF MayLeave, MayRemove, MayPromote, MayDemote
<1>2. j = [op |-> op, actor |-> p, club |-> c, other |-> q, item |-> None,
           key |-> None, open |-> FALSE, rows |-> {q}, seen |-> "none"]
  BY <1>1 DEF Request, Idle
<1>3. Exists(c) /\ role[c][q] # "none"
  BY DEF MayLeave, MayRemove, MayPromote, MayDemote, MayPerform
<1>4. ~clubs[c].moved => q # clubs[c].maker
  <2> SUFFICES ASSUME ~clubs[c].moved, q = clubs[c].maker PROVE FALSE
    OBVIOUS
  <2>1. Owners(c) = {q} /\ role[c][q] = "owner"
    BY <1>3 DEF Inv, Owned, StableOwner, Owners
  <2>2. Cardinality(Owners(c)) = 1
    BY <2>1, FS_Singleton
  <2> QED
    BY <2>1, <2>2 DEF MayLeave, MayRemove, MayPromote, MayDemote, MayPerform
<1>5. j \in Job /\ PlannedBy(j)
  <2>1. op \in Ops /\ op \notin Answers
    BY <1>1 DEF Ops, Answers
  <2>2. j \in Job
    BY <1>2, <2>1 DEF Job
  <2>3. PlannedBy(j)
    <3>1. op \notin {"idle", "join", "transfer", "pin"}
      BY <1>1
    <3>2. /\ j.op = op /\ j.actor = p /\ j.club = c /\ j.other = q
          /\ j.rows = {q}
      BY <1>2
    <3> QED
      BY <1>3, <1>4, <2>1, <3>1, <3>2 DEF PlannedBy
  <2> QED
    BY <2>2, <2>3
<1> QED
  BY <1>1, <1>5, PlanInv

LEMMA MayTransferInv ==
  ASSUME Inv, NEW h \in Handlers, NEW p \in Profiles, NEW c \in ClubIds, NEW q \in Profiles,
         MayTransfer(h, p, c, q)
  PROVE  Inv'
<1>1. PICK j : /\ Decide(h, j)
               /\ j = [Request("transfer", p, c) EXCEPT
                          !.other = q, !.rows = {p, q}, !.seen = role[c][q]]
  BY DEF MayTransfer
<1>2. j = [op |-> "transfer", actor |-> p, club |-> c, other |-> q, item |-> None,
           key |-> None, open |-> FALSE, rows |-> {p, q}, seen |-> role[c][q]]
  BY <1>1 DEF Request, Idle
<1>3. /\ Exists(c) /\ role[c][q] # "none" /\ role[c][p] # "none" /\ p # q
      /\ role[c][q] \in Roles \cup {"none"}
  BY DEF MayTransfer, Inv, TypeOK
<1>4. j \in Job /\ PlannedBy(j)
  BY <1>2, <1>3 DEF Job, Ops, PlannedBy, Answers
<1> QED
  BY <1>1, <1>4, PlanInv

LEMMA MayPinInv ==
  ASSUME Inv, NEW h \in Handlers, NEW p \in Profiles, NEW c \in ClubIds, NEW x \in Posts,
         MayPin(h, p, c, x) \/ MayUnpin(h, p, c, x)
  PROVE  Inv'
<1>1. PICK op, j :
        op \in {"pin", "unpin"} /\ Decide(h, j) /\ j = [Request(op, p, c) EXCEPT !.item = x]
  BY DEF MayPin, MayUnpin
<1>2. j = [op |-> op, actor |-> p, club |-> c, other |-> None, item |-> x,
           key |-> None, open |-> FALSE, rows |-> {}, seen |-> "none"]
  BY <1>1 DEF Request, Idle
<1>3. Exists(c)
  BY DEF MayPin, MayUnpin
<1>4. j \in Job /\ PlannedBy(j)
  <2>1. op \in Ops /\ op \notin Answers
    BY <1>1 DEF Ops, Answers
  <2>2. j \in Job
    BY <1>2, <2>1 DEF Job
  <2>3. PlannedBy(j)
    BY <1>1, <1>2, <1>3, <2>1 DEF PlannedBy
  <2> QED
    BY <2>2, <2>3
<1> QED
  BY <1>1, <1>4, PlanInv

LEMMA ReadsInv ==
  ASSUME Inv, NEW h \in Handlers, Reads(h)
  PROVE  Inv'
  BY MayCreateInv, MayUpdateJoinInv, MayInviteInv, MayAnswerInv, MayChangeInv,
     MayTransferInv, MayPinInv DEF Reads

(***************************************************************************)
(* Writing                                                                 *)
(***************************************************************************)

\* A write that founds no club and deletes no membership.
LEMMA WriteInv ==
  ASSUME Inv, NEW h \in Handlers, Done(h), UNCHANGED <<posts, blocked>>,
         clubs' \in [ClubIds -> Club \cup {None}],
         role' \in [ClubIds -> [Profiles -> Roles \cup {"none"}]],
         invites' \in [InviteIds -> Invite \cup {None}],
         pins' \in [ClubIds -> SUBSET Posts],
         Keeps, NobodyLeaves, Orderly
  PROVE  Inv'
<1>1. job' \in [Handlers -> Job] /\ Planned' /\ requests' = requests
  BY DoneFacts DEF Inv
<1>2. TypeOK'
  BY <1>1 DEF Inv, TypeOK
<1> QED
  BY <1>1, <1>2, OrderlyInv DEF Inv

LEMMA UpdateInv ==
  ASSUME Inv, NEW h \in Handlers, Update(h)
  PROVE  Inv'
<1>1. PICK j : j = job[h]
  OBVIOUS
<1>2. /\ j.club \in ClubIds /\ Exists(j.club) /\ clubs[j.club] \in Club
      /\ j.open \in BOOLEAN
  BY <1>1 DEF Update, Inv, TypeOK, Planned, PlannedBy, Exists, Answers, Job
<1>3. PICK new : new = [clubs[j.club] EXCEPT !.open = j.open, !.opened = @ \/ j.open]
  OBVIOUS
<1>4. /\ new \in Club /\ new # None /\ new.owner = clubs[j.club].owner
      /\ new.maker = clubs[j.club].maker /\ new.key = clubs[j.club].key
      /\ new.moved = clubs[j.club].moved
      /\ (clubs[j.club].opened => new.opened) /\ (new.open => new.opened)
  BY <1>2, <1>3, Constants DEF Club
<1>5. clubs' = [clubs EXCEPT ![j.club] = new]
  BY <1>1, <1>2, <1>3 DEF Update, Inv, TypeOK
<1>6. /\ clubs' \in [ClubIds -> Club \cup {None}] /\ clubs'[j.club] = new
      /\ \A c \in ClubIds \ {j.club} : clubs'[c] = clubs[c]
  BY <1>2, <1>4, <1>5 DEF Inv, TypeOK
<1>7. Done(h) /\ UNCHANGED <<role, invites, pins, posts, blocked>>
  BY DEF Update
<1>8. Keeps /\ NobodyLeaves
  BY <1>4, <1>6, <1>7 DEF Keeps, NobodyLeaves, Exists
<1>9. Orderly
  BY <1>2, <1>4, <1>6, <1>7 DEF Orderly, Exists, Inv, Rosters
<1> QED
  BY <1>6, <1>7, <1>8, <1>9, WriteInv DEF Inv, TypeOK

LEMMA JoinInv ==
  ASSUME Inv, NEW h \in Handlers, Join(h)
  PROVE  Inv'
<1>1. PICK j : j = job[h]
  OBVIOUS
<1>2. /\ j.club \in ClubIds /\ Exists(j.club) /\ clubs[j.club].opened
      /\ j.actor \in Profiles
  BY <1>1 DEF Join, Inv, Planned, PlannedBy, Answers
<1>3. PICK v : v = IF role[j.club][j.actor] = "none" THEN "member" ELSE role[j.club][j.actor]
  OBVIOUS
<1>4. v \in Roles /\ (v = "owner" <=> role[j.club][j.actor] = "owner")
  BY <1>2, <1>3 DEF Inv, TypeOK, Roles
<1>5. role' = [role EXCEPT ![j.club][j.actor] = v]
  BY <1>1, <1>3 DEF Join
<1>6. /\ role' \in [ClubIds -> [Profiles -> Roles \cup {"none"}]]
      /\ role'[j.club][j.actor] = v
      /\ \A d \in ClubIds, q \in Profiles :
           d # j.club \/ q # j.actor => role'[d][q] = role[d][q]
  BY <1>2, <1>4, <1>5 DEF Inv, TypeOK
<1>7. Done(h) /\ UNCHANGED <<clubs, invites, pins, posts, blocked>>
  BY DEF Join
<1>8. Keeps
  BY <1>7 DEF Keeps, Exists
<1>9. NobodyLeaves
  BY <1>4, <1>6 DEF NobodyLeaves, Roles
<1>10. Orderly
  BY <1>2, <1>4, <1>6, <1>7 DEF Orderly, Exists, Inv, Rosters
<1> QED
  BY <1>6, <1>7, <1>8, <1>9, <1>10, WriteInv DEF Inv, TypeOK

LEMMA InsertInviteInv ==
  ASSUME Inv, NEW h \in Handlers, InsertInvite(h)
  PROVE  Inv'
<1>1. PICK j : j = job[h]
  OBVIOUS
<1>2. /\ j.club \in ClubIds /\ Exists(j.club) /\ j.actor \in Profiles
      /\ j.other \in Profiles /\ j.key \in Keys \cup {None}
  BY <1>1 DEF InsertInvite, Inv, TypeOK, Planned, PlannedBy, Job, Answers
<1>3. Done(h) /\ UNCHANGED <<clubs, role, pins, posts, blocked>>
  BY DEF InsertInvite
<1>4. NobodyLeaves
  BY <1>3 DEF NobodyLeaves
<1>5. CASE UNCHANGED invites
  <2>1. Keeps /\ Orderly
    BY <1>3, <1>5 DEF Keeps, Orderly, Exists, Inv, Rosters
  <2> QED
    BY <1>3, <1>4, <1>5, <2>1, WriteInv DEF Inv, TypeOK
<1>6. ASSUME NEW i \in InviteIds, invites[i] = None, NEW new,
             new = [club |-> j.club, inviter |-> j.actor, invitee |-> j.other,
                    key |-> j.key, status |-> "pending"],
             invites' = [invites EXCEPT ![i] = new]
      PROVE  Inv'
  <2>1. new \in Invite /\ new # None /\ new.club = j.club
    BY <1>2, <1>6, Constants DEF Invite
  <2>2. /\ invites' \in [InviteIds -> Invite \cup {None}] /\ invites'[i] = new
        /\ \A k \in InviteIds \ {i} : invites'[k] = invites[k]
    BY <1>6, <2>1 DEF Inv, TypeOK
  <2>3. Keeps
    BY <1>3, <1>6, <2>2 DEF Keeps, Exists
  <2>4. Orderly
    BY <1>2, <1>3, <2>1, <2>2 DEF Orderly, Exists, Inv, Rosters
  <2> QED
    BY <1>3, <1>4, <2>2, <2>3, <2>4, WriteInv DEF Inv, TypeOK
<1> QED
  BY <1>1, <1>5, <1>6 DEF InsertInvite

LEMMA AnswerInviteInv ==
  ASSUME Inv, NEW h \in Handlers, AnswerInvite(h)
  PROVE  Inv'
<1>1. PICK j : j = job[h]
  OBVIOUS
<1>2. /\ j.op \in Answers /\ j.club \in ClubIds /\ Exists(j.club)
      /\ j.item \in InviteIds /\ invites[j.item] # None /\ invites[j.item] \in Invite
      /\ invites[j.item].club = j.club
  BY <1>1 DEF AnswerInvite, Inv, TypeOK, Planned, PlannedBy, Answers
<1>3. PICK new : new = [invites[j.item] EXCEPT !.status = j.op]
  OBVIOUS
<1>4. /\ new \in Invite /\ new # None /\ new.club = j.club /\ new.status # "pending"
      /\ new.invitee = invites[j.item].invitee /\ new.invitee \in Profiles
  BY <1>2, <1>3, Constants DEF Invite, Answers
<1>5. /\ invites' \in [InviteIds -> Invite \cup {None}] /\ invites'[j.item] = new
      /\ \A k \in InviteIds \ {j.item} : invites'[k] = invites[k]
  BY <1>1, <1>2, <1>3, <1>4 DEF AnswerInvite, Inv, TypeOK
<1>6. Done(h) /\ UNCHANGED <<clubs, pins, posts, blocked>>
  BY DEF AnswerInvite
<1>7. Keeps
  BY <1>2, <1>4, <1>5, <1>6 DEF Keeps, Exists
<1>8. PICK v : v = IF role[j.club][new.invitee] = "none" THEN "member"
                   ELSE role[j.club][new.invitee]
  OBVIOUS
<1>9. v \in Roles /\ (v = "owner" <=> role[j.club][new.invitee] = "owner")
  BY <1>2, <1>4, <1>8 DEF Inv, TypeOK, Roles
<1>10. CASE role' = [role EXCEPT ![j.club][new.invitee] = v]
  <2>1. /\ role' \in [ClubIds -> [Profiles -> Roles \cup {"none"}]]
        /\ role'[j.club][new.invitee] = v
        /\ \A d \in ClubIds, q \in Profiles :
             d # j.club \/ q # new.invitee => role'[d][q] = role[d][q]
    <3>1. TypeOK /\ j.club \in ClubIds /\ new.invitee \in Profiles
      BY <1>2, <1>4 DEF Inv
    <3> QED
      BY <1>9, <1>10, <3>1 DEF TypeOK
  <2>2. NobodyLeaves
    BY <1>9, <2>1 DEF NobodyLeaves, Roles
  <2>3. Orderly
    BY <1>2, <1>4, <1>5, <1>6, <1>9, <2>1 DEF Orderly, Exists, Inv, Rosters
  <2> QED
    BY <1>5, <1>6, <1>7, <2>1, <2>2, <2>3, WriteInv DEF Inv, TypeOK
<1>11. CASE UNCHANGED role
  <2>1. NobodyLeaves
    BY <1>11 DEF NobodyLeaves
  <2>2. Orderly
    BY <1>2, <1>5, <1>6, <1>11 DEF Orderly, Exists, Inv, Rosters
  <2> QED
    BY <1>5, <1>6, <1>7, <1>11, <2>1, <2>2, WriteInv DEF Inv, TypeOK
<1> QED
  BY <1>1, <1>4, <1>8, <1>10, <1>11 DEF AnswerInvite

LEMMA SetRoleInv ==
  ASSUME Inv, NEW h \in Handlers, SetRole(h)
  PROVE  Inv'
<1>1. PICK j : j = job[h]
  OBVIOUS
<1>2. /\ j.club \in ClubIds /\ Exists(j.club) /\ clubs[j.club] \in Club
      /\ j.other \in Profiles /\ role[j.club][j.other] # "none"
      /\ ~clubs[j.club].moved => j.other # clubs[j.club].maker
  BY <1>1 DEF SetRole, Inv, TypeOK, Planned, PlannedBy, Exists, Answers
<1>3. ~clubs[j.club].moved => role[j.club][j.other] # "owner"
  BY <1>2 DEF Inv, Owned, StableOwner, Owners
<1>4. PICK v \in {"moderator", "member"} : role' = [role EXCEPT ![j.club][j.other] = v]
  BY <1>1 DEF SetRole
<1>5. v \in Roles \cup {"none"} /\ v # "none" /\ v # "owner"
  BY DEF Roles
<1>6. /\ role' \in [ClubIds -> [Profiles -> Roles \cup {"none"}]]
      /\ role'[j.club][j.other] = v
      /\ \A d \in ClubIds, q \in Profiles :
           d # j.club \/ q # j.other => role'[d][q] = role[d][q]
  <2>1. TypeOK /\ j.club \in ClubIds /\ j.other \in Profiles
    BY <1>2 DEF Inv
  <2> QED
    BY <1>4, <1>5, <2>1 DEF TypeOK
<1>7. Done(h) /\ UNCHANGED <<clubs, invites, pins, posts, blocked>>
  BY DEF SetRole
<1>8. Keeps /\ NobodyLeaves
  BY <1>5, <1>6, <1>7 DEF Keeps, NobodyLeaves, Exists
<1>9. Orderly
  BY <1>2, <1>3, <1>5, <1>6, <1>7 DEF Orderly, Exists, Inv, Rosters
<1> QED
  BY <1>6, <1>7, <1>8, <1>9, WriteInv DEF Inv, TypeOK

\* Both rows of a transfer are there when it commits.
OwnersAreMembers ==
  \A c \in ClubIds : Exists(c) /\ clubs'[c].owner # clubs[c].owner =>
    role[c][clubs'[c].owner] # "none" /\ role'[c][clubs'[c].owner] # "none"

LEMMA TransferInv ==
  ASSUME Inv, NEW h \in Handlers, Transfer(h)
  PROVE  Inv' /\ OwnersAreMembers
<1>0. PICK j : j = job[h]
  OBVIOUS
<1>1. /\ j.club \in ClubIds /\ Exists(j.club) /\ clubs[j.club] \in Club
      /\ j.actor \in Profiles /\ j.other \in Profiles /\ j.actor # j.other
      /\ role[j.club][j.actor] # "none" /\ role[j.club][j.other] # "none"
      /\ role[j.club] \in [Profiles -> Roles \cup {"none"}]
  BY <1>0 DEF Transfer, Inv, TypeOK, Planned, PlannedBy, Exists, Answers
<1>2. PICK new : new = [clubs[j.club] EXCEPT !.owner = j.other, !.moved = TRUE]
  OBVIOUS
<1>3. /\ new \in Club /\ new # None /\ new.owner = j.other /\ new.moved = TRUE
      /\ new.maker = clubs[j.club].maker /\ new.key = clubs[j.club].key
      /\ new.open = clubs[j.club].open /\ new.opened = clubs[j.club].opened
  <2>1. /\ new \in Club /\ new.owner = j.other /\ new.moved = TRUE
        /\ new.maker = clubs[j.club].maker /\ new.key = clubs[j.club].key
    BY <1>1, <1>2 DEF Club
  <2>2. new.open = clubs[j.club].open /\ new.opened = clubs[j.club].opened
    BY <1>1, <1>2 DEF Club
  <2> QED
    BY <2>1, <2>2, Constants
<1>4. clubs' = [clubs EXCEPT ![j.club] = new]
  BY <1>0, <1>1, <1>2 DEF Transfer, Inv, TypeOK
<1>5. /\ clubs' \in [ClubIds -> Club \cup {None}] /\ clubs'[j.club] = new
      /\ \A c \in ClubIds \ {j.club} : clubs'[c] = clubs[c]
  BY <1>1, <1>3, <1>4 DEF Inv, TypeOK
<1>6. PICK v : v = IF j.seen = "owner" THEN role[j.club][j.other] ELSE "owner"
  OBVIOUS
<1>7. v \in Roles
  BY <1>1, <1>6 DEF Roles
<1>8. role' = [role EXCEPT ![j.club][j.actor] = "member", ![j.club][j.other] = v]
  BY <1>0, <1>1, <1>6 DEF Transfer, Inv, TypeOK
<1>9. /\ role' \in [ClubIds -> [Profiles -> Roles \cup {"none"}]]
      /\ role'[j.club][j.actor] = "member" /\ role'[j.club][j.other] = v
      /\ \A p \in Profiles \ {j.actor, j.other} : role'[j.club][p] = role[j.club][p]
      /\ \A c \in ClubIds \ {j.club} : role'[c] = role[c]
  BY <1>1, <1>7, <1>8 DEF Inv, TypeOK, Roles
<1>10. Done(h) /\ UNCHANGED <<invites, pins, posts, blocked>>
  BY DEF Transfer
<1>11. \A p \in Profiles : role'[j.club][p] = "none" <=> role[j.club][p] = "none"
  BY <1>1, <1>7, <1>9 DEF Roles
<1>12. Keeps /\ NobodyLeaves
  BY <1>1, <1>3, <1>5, <1>9, <1>10, <1>11 DEF Keeps, NobodyLeaves, Exists
<1>13. Orderly
  BY <1>1, <1>3, <1>5, <1>9, <1>10, <1>11 DEF Orderly, Exists, Inv, Rosters
<1>14. Inv'
  BY <1>5, <1>9, <1>10, <1>12, <1>13, WriteInv DEF Inv, TypeOK
<1>15. OwnersAreMembers
  BY <1>1, <1>3, <1>5, <1>11 DEF OwnersAreMembers
<1> QED
  BY <1>14, <1>15

LEMMA PinInv ==
  ASSUME Inv, NEW h \in Handlers, Pin(h) \/ Unpin(h)
  PROVE  Inv'
<1>1. PICK j : j = job[h]
  OBVIOUS
<1>2. /\ j.club \in ClubIds /\ Exists(j.club) /\ (j.op = "pin" => j.item \in Posts)
  BY <1>1 DEF Pin, Unpin, Inv, Planned, PlannedBy, Answers
<1>3. /\ pins' \in [ClubIds -> SUBSET Posts]
      /\ \A c \in ClubIds \ {j.club} : pins'[c] = pins[c]
  BY <1>1, <1>2 DEF Pin, Unpin, Inv, TypeOK
<1>4. Done(h) /\ UNCHANGED <<clubs, role, invites, posts, blocked>>
  BY DEF Pin, Unpin
<1>5. Keeps /\ NobodyLeaves
  BY <1>4 DEF Keeps, NobodyLeaves, Exists
<1>6. Orderly
  BY <1>2, <1>3, <1>4 DEF Orderly, Exists, Inv, Rosters
<1> QED
  BY <1>3, <1>4, <1>5, <1>6, WriteInv DEF Inv, TypeOK

LEMMA AbortInv ==
  ASSUME Inv, NEW h \in Handlers, Abort(h)
  PROVE  Inv'
<1>1. Done(h) /\ UNCHANGED <<clubs, role, invites, pins, posts, blocked>>
  BY DEF Abort, tables
<1>2. Keeps /\ NobodyLeaves /\ Orderly
  BY <1>1 DEF Keeps, NobodyLeaves, Orderly, Exists, Inv, Rosters
<1> QED
  BY <1>1, <1>2, WriteInv DEF Inv, TypeOK

\* A deletion takes the row from those who had loaded it.
LEMMA DeleteInv ==
  ASSUME Inv, NEW h \in Handlers, Delete(h)
  PROVE  Inv'
<1>1. PICK j : j = job[h]
  OBVIOUS
<1>2. UNCHANGED <<clubs, invites, pins, posts, blocked>>
  BY DEF Delete
<1>3. /\ j.club \in ClubIds /\ Exists(j.club) /\ j.other \in Profiles
      /\ ~clubs[j.club].moved => j.other # clubs[j.club].maker
  BY <1>1 DEF Delete, Inv, Planned, PlannedBy, Answers
<1>4. CASE Done(h) /\ UNCHANGED role
  <2>1. Keeps /\ NobodyLeaves /\ Orderly
    BY <1>2, <1>4 DEF Keeps, NobodyLeaves, Orderly, Exists, Inv, Rosters
  <2> QED
    BY <1>2, <1>4, <2>1, WriteInv DEF Inv, TypeOK
<1>5. CASE DeleteMember(h, j.club, j.other)
  <2>1. role' = [role EXCEPT ![j.club][j.other] = "none"] /\ requests' = requests
    BY <1>5 DEF DeleteMember
  <2>2. /\ role' \in [ClubIds -> [Profiles -> Roles \cup {"none"}]]
        /\ role'[j.club][j.other] = "none"
        /\ \A d \in ClubIds, q \in Profiles :
             d # j.club \/ q # j.other => role'[d][q] = role[d][q]
    <3>1. TypeOK /\ j.club \in ClubIds /\ j.other \in Profiles
      BY <1>3 DEF Inv
    <3> QED
      BY <2>1, <3>1 DEF TypeOK
  <2>3. ~clubs[j.club].moved => role[j.club][j.other] # "owner"
    BY <1>3 DEF Inv, Owned, StableOwner, Owners
  <2>4. Keeps
    BY <1>2 DEF Keeps, Exists
  <2>5. Orderly
    BY <1>2, <1>3, <2>2, <2>3 DEF Orderly, Exists, Inv, Rosters
  <2>6. job'[h] = Idle /\ job' \in [Handlers -> Job]
    BY <1>5, IdleFacts DEF DeleteMember, Inv, TypeOK, Job
  <2>7. PlannedBy(job[h])'
    BY <2>6, IdleFacts DEF PlannedBy, Answers
  <2>8. ASSUME NEW g \in Handlers \ {h} PROVE PlannedBy(job[g])'
    <3>1. PICK k : k = job[g]
      OBVIOUS
    <3>2. k \in Job /\ PlannedBy(k)
      BY <3>1 DEF Inv, TypeOK, Planned
    <3>3. PICK l : l = job'[g]
      OBVIOUS
    <3>4. /\ l.op = k.op /\ l.actor = k.actor /\ l.club = k.club /\ l.other = k.other
          /\ l.item = k.item
          /\ l.rows = IF k.club = j.club THEN k.rows \ {j.other} ELSE k.rows
      BY <1>5, <3>1, <3>2, <3>3 DEF DeleteMember, Job
    <3>5. \A p \in l.rows : k.club \in ClubIds /\ role'[k.club][p] # "none"
      BY <3>2, <3>4, <2>2 DEF PlannedBy, Job
    <3> QED
      BY <3>2, <3>3, <3>4, <3>5, <1>2 DEF PlannedBy, Exists
  <2>9. TypeOK'
    BY <1>2, <2>1, <2>2, <2>6 DEF Inv, TypeOK
  <2> QED
    BY <2>4, <2>5, <2>7, <2>8, <2>9, OrderlyInv DEF Inv, Planned
<1> QED
  BY <1>1, <1>4, <1>5 DEF Delete

\* What members and other services do besides.
LEMMA OthersInv ==
  ASSUME Inv, Others \/ UNCHANGED vars
  PROVE  Inv'
<1>1. UNCHANGED <<clubs, role, invites, pins, job>>
  BY DEF Others, vars, PostInClub, TakeDown, Block, Unblock, Outside
<1>2. /\ posts' \in [Posts -> ClubIds \cup {None, Down}]
      /\ blocked' \subseteq Profiles \X Profiles /\ requests' \in 0 .. MaxRequests
  <2>1. /\ posts \in [Posts -> ClubIds \cup {None, Down}]
        /\ blocked \subseteq Profiles \X Profiles /\ requests \in 0 .. MaxRequests
    BY DEF Inv, TypeOK
  <2>2. CASE UNCHANGED vars
    BY <2>1, <2>2 DEF vars
  <2>3. CASE Others
    <3>1. requests' \in 0 .. MaxRequests
      BY <2>1, <2>3, Constants DEF Others, PostInClub, TakeDown, Block, Unblock, Outside
    <3>2. posts' \in [Posts -> ClubIds \cup {None, Down}]
      BY <2>1, <2>3 DEF Others, PostInClub, TakeDown, Block, Unblock
    <3>3. blocked' \subseteq Profiles \X Profiles
      BY <2>1, <2>3 DEF Others, PostInClub, TakeDown, Block, Unblock
    <3> QED
      BY <3>1, <3>2, <3>3
  <2> QED
    BY <2>2, <2>3
<1>3. TypeOK'
  BY <1>1, <1>2 DEF Inv, TypeOK
<1>4. Planned'
  BY <1>1 DEF Inv, Planned, PlannedBy, Exists
<1>5. Keeps /\ Orderly
  BY <1>1 DEF Keeps, Orderly, Exists, Inv, Rosters
<1> QED
  BY <1>3, <1>4, <1>5, OrderlyInv DEF Inv

(***************************************************************************)
(* Creating a club                                                         *)
(***************************************************************************)

LEMMA CreateInv ==
  ASSUME Inv, NEW h \in Handlers, Create(h)
  PROVE  Inv'
<1>1. PICK j : j = job[h]
  OBVIOUS
<1>2. j.actor \in Profiles /\ j.key \in Keys \cup {None} /\ j.open \in BOOLEAN
  BY <1>1 DEF Create, Inv, TypeOK, Planned, PlannedBy, Job
<1>3. Done(h) /\ UNCHANGED <<invites, pins, posts, blocked>>
  BY DEF Create
<1>4. CASE UNCHANGED <<clubs, role>>
  <2>1. Keeps /\ NobodyLeaves /\ Orderly
    BY <1>3, <1>4 DEF Keeps, NobodyLeaves, Orderly, Exists, Inv, Rosters
  <2> QED
    BY <1>3, <1>4, <2>1, WriteInv DEF Inv, TypeOK
<1>5. ASSUME NEW c \in ClubIds, ~Exists(c), NEW new,
             ClubsWithKey(j.actor, j.key) = {},
             new = [owner |-> j.actor, key |-> j.key, open |-> j.open,
                    maker |-> j.actor, moved |-> FALSE, opened |-> j.open],
             clubs' = [clubs EXCEPT ![c] = new],
             role' = [role EXCEPT ![c][j.actor] = "owner"]
      PROVE  Inv'
  <2>1. /\ new \in Club /\ new # None /\ new.owner = j.actor /\ new.maker = j.actor
        /\ new.moved = FALSE /\ new.open = new.opened /\ new.key = j.key
    <3>1. new \in Club
      BY <1>2, <1>5 DEF Club
    <3>2. new # None
      BY <3>1, Constants
    <3>3. /\ new.owner = j.actor /\ new.maker = j.actor
          /\ new.moved = FALSE /\ new.open = new.opened /\ new.key = j.key
      BY <1>5
    <3> QED
      BY <3>1, <3>2, <3>3
  <2>2. /\ clubs' \in [ClubIds -> Club \cup {None}] /\ clubs'[c] = new
        /\ \A d \in ClubIds \ {c} : clubs'[d] = clubs[d]
    BY <1>5, <2>1 DEF Inv, TypeOK
  <2>3. /\ role' \in [ClubIds -> [Profiles -> Roles \cup {"none"}]]
        /\ role'[c][j.actor] = "owner"
        /\ \A d \in ClubIds, q \in Profiles :
             d # c \/ q # j.actor => role'[d][q] = role[d][q]
    BY <1>2, <1>5 DEF Inv, TypeOK, Roles
  <2>4. \A p \in Profiles : role[c][p] = "none"
    BY <1>5 DEF Inv, Rosters, Exists
  <2>5. Keeps /\ NobodyLeaves
    BY <1>3, <1>5, <2>2, <2>3, <2>4 DEF Keeps, NobodyLeaves, Exists
  <2>6. job' \in [Handlers -> Job] /\ Planned' /\ requests' = requests
    BY <1>3, <2>5, DoneFacts DEF Inv
  <2>7. TypeOK'
    BY <1>3, <2>2, <2>3, <2>6 DEF Inv, TypeOK
  <2>8. Rosters'
    <3>1. \A d \in ClubIds : clubs'[d] = None =>
            (\A p \in Profiles : role'[d][p] = "none") /\ pins'[d] = {}
      BY <1>3, <2>1, <2>2, <2>3 DEF Inv, Rosters
    <3>2. \A d \in ClubIds : clubs'[d] # None /\ clubs'[d].open => clubs'[d].opened
      BY <2>1, <2>2 DEF Inv, Rosters, Exists
    <3>3. \A i \in InviteIds : invites'[i] # None => clubs'[invites'[i].club] # None
      BY <1>3, <2>1, <2>2 DEF Inv, Rosters, Exists, TypeOK, Invite
    <3> QED
      BY <3>1, <3>2, <3>3 DEF Rosters, Exists
  <2>9. \A d \in ClubIds \ {c} : role'[d] = role[d]
    BY <1>5 DEF Inv, TypeOK
  <2>10. StableOwner'
    <3>1. \A p \in Profiles : role'[c][p] = "owner" <=> p = j.actor
      BY <1>2, <2>3, <2>4
    <3>2. Owners(c)' = {j.actor}
      BY <1>2, <3>1 DEF Owners
    <3>3. \A d \in ClubIds \ {c} : Owners(d)' = Owners(d)
      BY <2>9 DEF Owners
    <3> QED
      BY <2>1, <2>2, <3>2, <3>3 DEF StableOwner, Inv, Owned, Exists
  <2>11. \A d \in ClubIds : Exists(d) /\ clubs[d].maker = j.actor /\ j.key # None
                            /\ clubs[d].key = j.key => clubs[d].moved
    BY <1>5 DEF ClubsWithKey, Inv, Owned, StableOwner, Exists, TypeOK
  <2>12. CreatedOnce'
    BY <2>1, <2>2, <2>11 DEF CreatedOnce, Inv, Owned, Exists
  <2>13. AdmittedByInvite'
    BY <1>3, <2>1, <2>2, <2>3, <2>4, <2>9 DEF AdmittedByInvite, Inv, Owned, Exists
  <2> QED
    BY <2>6, <2>7, <2>8, <2>10, <2>12, <2>13 DEF Inv, Owned
<1> QED
  BY <1>1, <1>4, <1>5 DEF Create

LEMMA NextInv ==
  ASSUME Inv, [Next]_vars
  PROVE  Inv'
<1>1. ASSUME NEW h \in Handlers, Writes(h) PROVE Inv'
  BY <1>1, CreateInv, UpdateInv, JoinInv, InsertInviteInv, AnswerInviteInv, DeleteInv,
     SetRoleInv, TransferInv, PinInv DEF Writes
<1> QED
  BY <1>1, ReadsInv, AbortInv, OthersInv DEF Next

(***************************************************************************)
(* How far the caps are overrun                                            *)
(***************************************************************************)

\* What is there and what is being added stay within the cap and the requests
\* that run beside one another.
Within(rows, adding, max) ==
  /\ IsFiniteSet(rows)
  /\ Cardinality(rows) + Cardinality(adding) <= max + (Cardinality(Handlers) - 1)

Caps ==
  \A c \in ClubIds : Exists(c) =>
    /\ Within(Members(c), Adding(c, {"join", "accepted"}), MaxMembers)
    /\ Within(Pending(c), Adding(c, {"invite"}), MaxPending)
    /\ Within(pins[c], Adding(c, {"pin"}), MaxPins)

LEMMA AddingFinite ==
  ASSUME NEW S \in SUBSET Handlers
  PROVE  IsFiniteSet(S) /\ Cardinality(S) \in Nat
         /\ Cardinality(S) <= Cardinality(Handlers) /\ Cardinality(Handlers) \in Nat
  BY ClubsAssumptions, FS_Subset, FS_CardinalityType

\* Rows are deleted, and no request has come.
LEMMA FewerWithin ==
  ASSUME NEW R, NEW A \in SUBSET Handlers, NEW max \in Nat, Within(R, A, max),
         NEW R2 \in SUBSET R, NEW A2 \in SUBSET A
  PROVE  Within(R2, A2, max)
<1>1. IsFiniteSet(R2) /\ Cardinality(R2) <= Cardinality(R) /\ Cardinality(R2) \in Nat
      /\ Cardinality(R) \in Nat
  BY FS_Subset, FS_CardinalityType DEF Within
<1>2. Cardinality(A2) <= Cardinality(A) /\ Cardinality(A2) \in Nat /\ Cardinality(A) \in Nat
      /\ Cardinality(Handlers) \in Nat
  BY AddingFinite, FS_Subset
<1> QED
  BY <1>1, <1>2 DEF Within

\* A request ends with the row that it had decided to add.
LEMMA AddedWithin ==
  ASSUME NEW R, NEW A \in SUBSET Handlers, NEW max \in Nat, Within(R, A, max),
         NEW x, NEW R2 \in SUBSET (R \cup {x}), NEW h \in A, NEW A2 \in SUBSET (A \ {h})
  PROVE  Within(R2, A2, max)
<1>1. IsFiniteSet(R) /\ Cardinality(R) \in Nat
  BY FS_CardinalityType DEF Within
<1>2. IsFiniteSet(R \cup {x}) /\ Cardinality(R \cup {x}) <= Cardinality(R) + 1
  <2>1. Cardinality(R \cup {x}) = IF x \in R THEN Cardinality(R) ELSE Cardinality(R) + 1
    BY <1>1, FS_AddElement
  <2>2. IsFiniteSet(R \cup {x})
    BY <1>1, FS_AddElement
  <2> QED
    BY <1>1, <2>1, <2>2
<1>3. /\ IsFiniteSet(R2) /\ Cardinality(R2) <= Cardinality(R \cup {x})
      /\ Cardinality(R2) \in Nat /\ Cardinality(R \cup {x}) \in Nat
  BY <1>2, FS_Subset, FS_CardinalityType
<1>4. IsFiniteSet(A) /\ Cardinality(A) \in Nat /\ Cardinality(Handlers) \in Nat
  BY AddingFinite
<1>5. IsFiniteSet(A \ {h}) /\ Cardinality(A \ {h}) = Cardinality(A) - 1
  BY <1>4, FS_RemoveElement
<1>6. Cardinality(A2) <= Cardinality(A \ {h}) /\ Cardinality(A2) \in Nat
  BY <1>5, FS_Subset, FS_CardinalityType
<1> QED
  BY <1>1, <1>2, <1>3, <1>4, <1>5, <1>6 DEF Within

\* A request has decided to add one and found the cap not reached.
LEMMA DecidedWithin ==
  ASSUME NEW R, NEW A2 \in SUBSET Handlers, NEW max \in Nat,
         IsFiniteSet(R), Cardinality(R) < max
  PROVE  Within(R, A2, max)
<1>1. Cardinality(R) \in Nat
  BY FS_CardinalityType
<1>2. /\ Cardinality(A2) \in Nat /\ Cardinality(Handlers) \in Nat
      /\ Cardinality(A2) <= Cardinality(Handlers)
  BY AddingFinite
<1> QED
  BY <1>1, <1>2 DEF Within

\* A new club has one member, and nobody has decided to add one to it.
LEMMA NewWithin ==
  ASSUME NEW h \in Handlers, NEW x, NEW R \in SUBSET {x}, NEW max \in Nat,
         R = {} \/ max > 0
  PROVE  Within(R, {}, max)
<1>1. Cardinality({}) = 0 /\ IsFiniteSet({x}) /\ Cardinality({x}) = 1
  BY FS_EmptySet, FS_Singleton
<1>2. IsFiniteSet(R) /\ Cardinality(R) \in Nat /\ Cardinality(R) <= 1
  BY <1>1, FS_Subset, FS_CardinalityType
<1>3. R = {} => Cardinality(R) = 0
  BY <1>1
<1>4. Cardinality(Handlers) \in Nat /\ Cardinality(Handlers) >= 1
  <2>1. {h} \in SUBSET Handlers /\ Cardinality({h}) = 1
    BY FS_Singleton
  <2> QED
    BY <2>1, AddingFinite
<1> QED
  BY <1>1, <1>2, <1>3, <1>4 DEF Within

LEMMA Maxima ==
  /\ MaxMembers \in Nat /\ MaxMembers > 0 /\ MaxPending \in Nat /\ MaxPins \in Nat
  BY ClubsAssumptions

\* Who is adding, after a request has ended.
LEMMA AddingEnds ==
  ASSUME TypeOK, NEW h \in Handlers,
         Done(h) \/ (\E c \in ClubIds, p \in Profiles : DeleteMember(h, c, p)),
         NEW c, NEW ops, "idle" \notin ops
  PROVE  Adding(c, ops)' \subseteq Adding(c, ops) \ {h}
<1>1. job'[h].op = "idle"
  BY IdleFacts DEF Done, DeleteMember, TypeOK
<1>2. \A g \in Handlers \ {h} : job'[g].op = job[g].op /\ job'[g].club = job[g].club
  BY DEF Done, DeleteMember, TypeOK, Job
<1> QED
  BY <1>1, <1>2 DEF Adding

LEMMA SameCaps ==
  ASSUME Caps, UNCHANGED <<clubs, role, invites, pins, job>>
  PROVE  Caps'
  BY DEF Caps, Within, Members, Pending, Adding, Exists

\* What a write other than a creation adds.
LEMMA WriteAdds ==
  ASSUME Inv, NEW h \in Handlers, Writes(h), ~Create(h), NEW c \in ClubIds
  PROVE  /\ \/ Members(c)' \subseteq Members(c)
            \/ /\ h \in Adding(c, {"join", "accepted"})
               /\ \E x : Members(c)' \subseteq Members(c) \cup {x}
         /\ \/ Pending(c)' \subseteq Pending(c)
            \/ /\ h \in Adding(c, {"invite"})
               /\ \E x : Pending(c)' \subseteq Pending(c) \cup {x}
         /\ \/ pins'[c] \subseteq pins[c]
            \/ /\ h \in Adding(c, {"pin"})
               /\ \E x : pins'[c] \subseteq pins[c] \cup {x}
         /\ clubs'[c] # None => clubs[c] # None
         /\ Done(h) \/ \E d \in ClubIds, p \in Profiles : DeleteMember(h, d, p)
<1>1. PICK j : j = job[h]
  OBVIOUS
<1>2. PlannedBy(j)
  BY <1>1 DEF Inv, Planned
<1>3. \/ Members(c)' \subseteq Members(c)
      \/ /\ h \in Adding(c, {"join", "accepted"})
         /\ \E x : Members(c)' \subseteq Members(c) \cup {x}
  <2>1. CASE UNCHANGED role
    BY <2>1 DEF Members
  <2>2. CASE Join(h)
    <3>1. Members(c)' \subseteq Members(c) \cup {j.actor}
      BY <1>1, <2>2 DEF Join, Members, Inv, TypeOK
    <3>2. j.club # c => Members(c)' \subseteq Members(c)
      BY <1>1, <2>2 DEF Join, Members, Inv, TypeOK
    <3>3. j.club = c => h \in Adding(c, {"join", "accepted"})
      BY <1>1, <2>2 DEF Join, Adding
    <3> QED
      BY <3>1, <3>2, <3>3
  <2>3. CASE AnswerInvite(h) /\ j.op = "accepted"
    <3>1. Members(c)' \subseteq Members(c) \cup {invites[j.item].invitee}
      BY <1>1, <2>3 DEF AnswerInvite, Members, Inv, TypeOK
    <3>2. j.club # c => Members(c)' \subseteq Members(c)
      BY <1>1, <2>3 DEF AnswerInvite, Members, Inv, TypeOK
    <3>3. j.club = c => h \in Adding(c, {"join", "accepted"})
      BY <1>1, <2>3 DEF Adding
    <3> QED
      BY <3>1, <3>2, <3>3
  <2>4. CASE Delete(h)
    BY <2>4 DEF Delete, DeleteMember, Members, Inv, TypeOK
  <2>5. CASE SetRole(h)
    BY <1>1, <1>2, <2>5 DEF SetRole, Members, PlannedBy, Inv, TypeOK
  <2>6. CASE Transfer(h)
    BY <1>1, <1>2, <2>6 DEF Transfer, Members, PlannedBy, Inv, TypeOK
  <2> QED
    BY <1>1, <2>1, <2>2, <2>3, <2>4, <2>5, <2>6
    DEF Writes, Update, InsertInvite, AnswerInvite, Pin, Unpin
<1>4. \/ Pending(c)' \subseteq Pending(c)
      \/ /\ h \in Adding(c, {"invite"})
         /\ \E x : Pending(c)' \subseteq Pending(c) \cup {x}
  <2>1. CASE UNCHANGED invites
    BY <2>1 DEF Pending
  <2>2. CASE InsertInvite(h)
    <3>1. ASSUME NEW i \in InviteIds, invites[i] = None, NEW new, new.club = j.club,
                 invites' = [invites EXCEPT ![i] = new]
          PROVE  /\ Pending(c)' \subseteq Pending(c) \cup {i}
                 /\ j.club # c => Pending(c)' \subseteq Pending(c)
      BY <3>1 DEF Pending, Inv, TypeOK
    <3>2. j.club = c => h \in Adding(c, {"invite"})
      BY <1>1, <2>2 DEF InsertInvite, Adding
    <3> QED
      BY <1>1, <2>1, <2>2, <3>1, <3>2 DEF InsertInvite
  <2>3. CASE AnswerInvite(h)
    <3>1. \A i \in InviteIds \ {j.item} : invites'[i] = invites[i]
      BY <1>1, <2>3 DEF AnswerInvite, Inv, TypeOK
    <3>2. invites'[j.item].status # "pending"
      BY <1>1, <1>2, <2>3 DEF AnswerInvite, PlannedBy, Inv, TypeOK, Answers, Invite
    <3> QED
      BY <3>1, <3>2 DEF Pending
  <2> QED
    BY <2>1, <2>2, <2>3
    DEF Writes, Update, Join, Delete, SetRole, Transfer, Pin, Unpin
<1>5. \/ pins'[c] \subseteq pins[c]
      \/ /\ h \in Adding(c, {"pin"})
         /\ \E x : pins'[c] \subseteq pins[c] \cup {x}
  <2>1. CASE UNCHANGED pins
    BY <2>1
  <2>2. CASE Pin(h)
    <3>1. pins'[c] \subseteq pins[c] \cup {j.item} /\ (j.club # c => pins'[c] = pins[c])
      BY <1>1, <2>2 DEF Pin, Inv, TypeOK
    <3>2. j.club = c => h \in Adding(c, {"pin"})
      BY <1>1, <2>2 DEF Pin, Adding
    <3> QED
      BY <3>1, <3>2
  <2>3. CASE Unpin(h)
    BY <1>1, <2>3 DEF Unpin, Inv, TypeOK
  <2> QED
    BY <2>1, <2>2, <2>3
    DEF Writes, Update, Join, InsertInvite, AnswerInvite, Delete, SetRole, Transfer
<1>6. clubs'[c] # None => clubs[c] # None
  <2>1. CASE UNCHANGED clubs
    BY <2>1
  <2>2. CASE Update(h) \/ Transfer(h)
    BY <1>1, <1>2, <2>2 DEF Update, Transfer, PlannedBy, Inv, TypeOK, Exists, Answers
  <2> QED
    BY <2>1, <2>2
    DEF Writes, Join, InsertInvite, AnswerInvite, Delete, SetRole, Pin, Unpin
<1>7. Done(h) \/ \E d \in ClubIds, p \in Profiles : DeleteMember(h, d, p)
  <2>1. CASE Delete(h)
    BY <1>1, <1>2, <2>1 DEF Delete, PlannedBy, Answers
  <2> QED
    BY <2>1 DEF Writes, Update, Join, InsertInvite, AnswerInvite, SetRole, Transfer, Pin, Unpin
<1> QED
  BY <1>3, <1>4, <1>5, <1>6, <1>7

LEMMA WriteCaps ==
  ASSUME Inv, Caps, NEW h \in Handlers, Writes(h), ~Create(h)
  PROVE  Caps'
<1> SUFFICES ASSUME NEW c \in ClubIds, clubs'[c] # None
             PROVE  /\ Within(Members(c), Adding(c, {"join", "accepted"}), MaxMembers)'
                    /\ Within(Pending(c), Adding(c, {"invite"}), MaxPending)'
                    /\ Within(pins[c], Adding(c, {"pin"}), MaxPins)'
  BY DEF Caps, Exists
<1>1. Exists(c)
  BY WriteAdds DEF Exists
<1>2. ASSUME NEW ops, "idle" \notin ops
      PROVE  /\ Adding(c, ops) \in SUBSET Handlers
             /\ Adding(c, ops)' \in SUBSET (Adding(c, ops) \ {h})
             /\ Adding(c, ops)' \in SUBSET Adding(c, ops)
  BY <1>2, WriteAdds, AddingEnds DEF Inv, Adding
<1>3. Within(Members(c)', Adding(c, {"join", "accepted"})', MaxMembers)
  <2>1. Within(Members(c), Adding(c, {"join", "accepted"}), MaxMembers)
    BY <1>1 DEF Caps
  <2>2. CASE Members(c)' \subseteq Members(c)
    BY <1>2, <2>1, <2>2, FewerWithin, Maxima
  <2>3. ASSUME h \in Adding(c, {"join", "accepted"}),
               NEW x, Members(c)' \subseteq Members(c) \cup {x}
        PROVE  Within(Members(c)', Adding(c, {"join", "accepted"})', MaxMembers)
    <3>1. PICK R, R2, A, A2 : /\ R = Members(c) /\ R2 = Members(c)'
                              /\ A = Adding(c, {"join", "accepted"}) /\ A2 = Adding(c, {"join", "accepted"})'
      OBVIOUS
    <3>2. /\ A \in SUBSET Handlers /\ A2 \in SUBSET (A \ {h}) /\ h \in A
          /\ R2 \in SUBSET (R \cup {x})
      BY <1>2, <2>3, <3>1
    <3>3. Within(R, A, MaxMembers) /\ MaxMembers \in Nat
      BY <2>1, <3>1, Maxima
    <3>4. Within(R2, A2, MaxMembers)
      BY <3>2, <3>3, AddedWithin
    <3> QED
      BY <3>1, <3>4
  <2> QED
    BY <2>2, <2>3, WriteAdds
<1>4. Within(Pending(c)', Adding(c, {"invite"})', MaxPending)
  <2>1. Within(Pending(c), Adding(c, {"invite"}), MaxPending)
    BY <1>1 DEF Caps
  <2>2. CASE Pending(c)' \subseteq Pending(c)
    BY <1>2, <2>1, <2>2, FewerWithin, Maxima
  <2>3. ASSUME h \in Adding(c, {"invite"}), NEW x, Pending(c)' \subseteq Pending(c) \cup {x}
        PROVE  Within(Pending(c)', Adding(c, {"invite"})', MaxPending)
    <3>1. PICK R, R2, A, A2 : /\ R = Pending(c) /\ R2 = Pending(c)'
                              /\ A = Adding(c, {"invite"}) /\ A2 = Adding(c, {"invite"})'
      OBVIOUS
    <3>2. /\ A \in SUBSET Handlers /\ A2 \in SUBSET (A \ {h}) /\ h \in A
          /\ R2 \in SUBSET (R \cup {x})
      BY <1>2, <2>3, <3>1
    <3>3. Within(R, A, MaxPending) /\ MaxPending \in Nat
      BY <2>1, <3>1, Maxima
    <3>4. Within(R2, A2, MaxPending)
      BY <3>2, <3>3, AddedWithin
    <3> QED
      BY <3>1, <3>4
  <2> QED
    BY <2>2, <2>3, WriteAdds
<1>5. Within(pins'[c], Adding(c, {"pin"})', MaxPins)
  <2>1. Within(pins[c], Adding(c, {"pin"}), MaxPins)
    BY <1>1 DEF Caps
  <2>2. CASE pins'[c] \subseteq pins[c]
    BY <1>2, <2>1, <2>2, FewerWithin, Maxima
  <2>3. ASSUME h \in Adding(c, {"pin"}), NEW x, pins'[c] \subseteq pins[c] \cup {x}
        PROVE  Within(pins'[c], Adding(c, {"pin"})', MaxPins)
    BY <1>2, <2>1, <2>3, AddedWithin, Maxima
  <2> QED
    BY <2>2, <2>3, WriteAdds
<1> QED
  BY <1>3, <1>4, <1>5 DEF Within

LEMMA CreateCaps ==
  ASSUME Inv, Caps, NEW h \in Handlers, Create(h)
  PROVE  Caps'
<1>1. PICK j : j = job[h]
  OBVIOUS
<1>2. Done(h) /\ UNCHANGED <<invites, pins>>
  BY DEF Create
<1>3. ASSUME NEW c, NEW ops, "idle" \notin ops
      PROVE  Adding(c, ops) \in SUBSET Handlers /\ Adding(c, ops)' \in SUBSET Adding(c, ops)
  BY <1>2, <1>3, AddingEnds DEF Inv, Adding
<1>4. ASSUME NEW c \in ClubIds, Exists(c), Members(c)' = Members(c)
      PROVE  /\ Within(Members(c), Adding(c, {"join", "accepted"}), MaxMembers)'
             /\ Within(Pending(c), Adding(c, {"invite"}), MaxPending)'
             /\ Within(pins[c], Adding(c, {"pin"}), MaxPins)'
  <2>1. /\ Within(Members(c), Adding(c, {"join", "accepted"}), MaxMembers)
        /\ Within(Pending(c), Adding(c, {"invite"}), MaxPending)
        /\ Within(pins[c], Adding(c, {"pin"}), MaxPins)
    BY <1>4 DEF Caps
  <2>2. Pending(c)' = Pending(c) /\ pins'[c] = pins[c]
    BY <1>2 DEF Pending
  <2>3. Within(Members(c)', Adding(c, {"join", "accepted"})', MaxMembers)
    BY <1>3, <1>4, <2>1, FewerWithin, Maxima
  <2>4. Within(Pending(c)', Adding(c, {"invite"})', MaxPending)
    BY <1>3, <2>1, <2>2, FewerWithin, Maxima
  <2>5. Within(pins'[c], Adding(c, {"pin"})', MaxPins)
    BY <1>3, <2>1, <2>2, FewerWithin, Maxima
  <2> QED
    BY <2>3, <2>4, <2>5 DEF Within
<1>5. ASSUME NEW c \in ClubIds, ~Exists(c), Members(c)' \subseteq {j.actor}
      PROVE  /\ Within(Members(c), Adding(c, {"join", "accepted"}), MaxMembers)'
             /\ Within(Pending(c), Adding(c, {"invite"}), MaxPending)'
             /\ Within(pins[c], Adding(c, {"pin"}), MaxPins)'
  <2>1. \A g \in Handlers : job[g].op \notin {"idle", "create"} => job[g].club # c
    BY <1>5 DEF Inv, Planned, PlannedBy
  <2>2. /\ Adding(c, {"join", "accepted"}) = {} /\ Adding(c, {"invite"}) = {}
        /\ Adding(c, {"pin"}) = {}
    BY <2>1 DEF Adding
  <2>3. /\ Adding(c, {"join", "accepted"})' = {} /\ Adding(c, {"invite"})' = {}
        /\ Adding(c, {"pin"})' = {}
    BY <1>3, <2>2
  <2>4. Pending(c)' = {} /\ pins'[c] = {}
    BY <1>2, <1>5 DEF Pending, Inv, Rosters, Exists
  <2>5. Within(Members(c)', {}, MaxMembers)
    BY <1>5, NewWithin, Maxima
  <2>6. Within({}, {}, MaxPending) /\ Within({}, {}, MaxPins)
    BY NewWithin, Maxima
  <2> QED
    BY <2>3, <2>4, <2>5, <2>6 DEF Within
<1>6. CASE UNCHANGED <<clubs, role>>
  <2>1. \A c \in ClubIds : Members(c)' = Members(c)
    BY <1>6 DEF Members
  <2> QED
    BY <1>4, <1>6, <2>1 DEF Caps, Exists
<1>7. ASSUME NEW c \in ClubIds, ~Exists(c), NEW new, clubs' = [clubs EXCEPT ![c] = new],
             role' = [role EXCEPT ![c][j.actor] = "owner"]
      PROVE  Caps'
  <2>1. \A d \in ClubIds \ {c} : Members(d)' = Members(d) /\ clubs'[d] = clubs[d]
    BY <1>7 DEF Members, Inv, TypeOK
  <2>2. Members(c)' \subseteq {j.actor}
    BY <1>7 DEF Members, Inv, TypeOK, Rosters, Exists
  <2> QED
    BY <1>4, <1>5, <1>7, <2>1, <2>2 DEF Caps, Exists
<1> QED
  BY <1>1, <1>6, <1>7 DEF Create

\* A request that has decided to add one found room.
FoundRoom(j) ==
  /\ j.op \in {"join", "accepted"} => Cardinality(Members(j.club)) < MaxMembers
  /\ j.op = "invite" => Cardinality(Pending(j.club)) < MaxPending
  /\ j.op = "pin" => Cardinality(pins[j.club]) < MaxPins

LEMMA ReadFindsRoom ==
  ASSUME NEW h \in Handlers, Reads(h)
  PROVE  \E j : Decide(h, j) /\ FoundRoom(j)
<1>1. ASSUME NEW p, NEW k, NEW open, MayCreate(h, p, k, open)
      PROVE  \E j : Decide(h, j) /\ FoundRoom(j)
  <2>1. PICK j : Decide(h, j) /\ j = [Request("create", p, None) EXCEPT !.key = k, !.open = open]
    BY <1>1 DEF MayCreate
  <2>2. j.op = "create"
    BY <2>1 DEF Request, Idle
  <2> QED
    BY <2>1, <2>2 DEF FoundRoom
<1>2. ASSUME NEW p, NEW c, MayUpdate(h, p, c)
      PROVE  \E j : Decide(h, j) /\ FoundRoom(j)
  <2>1. PICK j : Decide(h, j) /\ j = [Request("update", p, c) EXCEPT !.open = ~clubs[c].open]
    BY <1>2 DEF MayUpdate
  <2>2. j.op = "update"
    BY <2>1 DEF Request, Idle
  <2> QED
    BY <2>1, <2>2 DEF FoundRoom
<1>3. ASSUME NEW p, NEW c, MayJoin(h, p, c)
      PROVE  \E j : Decide(h, j) /\ FoundRoom(j)
  <2>1. PICK j : Decide(h, j) /\ j = Request("join", p, c)
    BY <1>3 DEF MayJoin
  <2>2. j.op = "join" /\ j.club = c
    BY <2>1 DEF Request, Idle
  <2>3. Cardinality(Members(c)) < MaxMembers
    BY <1>3 DEF MayJoin
  <2> QED
    BY <2>1, <2>2, <2>3 DEF FoundRoom
<1>4. ASSUME NEW p, NEW c, NEW q, NEW k, MayInvite(h, p, c, q, k) \/ (q = p /\ MayAskToJoin(h, p, c, k))
      PROVE  \E j : Decide(h, j) /\ FoundRoom(j)
  <2>1. PICK j : Decide(h, j) /\ j = [Request("invite", p, c) EXCEPT !.other = q, !.key = k]
    BY <1>4 DEF MayInvite, MayAskToJoin
  <2>2. j.op = "invite" /\ j.club = c
    BY <2>1 DEF Request, Idle
  <2>3. Cardinality(Pending(c)) < MaxPending
    BY <1>4 DEF MayInvite, MayAskToJoin
  <2> QED
    BY <2>1, <2>2, <2>3 DEF FoundRoom
<1>5. ASSUME NEW p, NEW i, NEW answer \in Answers, MayAnswer(h, p, i, answer)
      PROVE  \E j : Decide(h, j) /\ FoundRoom(j)
  <2>1. PICK c : c = invites[i].club
    OBVIOUS
  <2>2. PICK j : Decide(h, j) /\ j = [Request(answer, p, c) EXCEPT !.item = i]
    BY <1>5, <2>1 DEF MayAnswer
  <2>3. j.op = answer /\ j.club = c
    BY <2>2 DEF Request, Idle
  <2>4. answer = "accepted" => Cardinality(Members(c)) < MaxMembers
    BY <1>5, <2>1 DEF MayAnswer
  <2> QED
    BY <2>2, <2>3, <2>4 DEF FoundRoom, Answers
<1>6. ASSUME NEW p, NEW c, NEW q,
             \/ MayLeave(h, p, c) /\ q = p
             \/ MayRemove(h, p, c, q) \/ MayPromote(h, p, c, q) \/ MayDemote(h, p, c, q)
      PROVE  \E j : Decide(h, j) /\ FoundRoom(j)
  <2>1. PICK op, j :
          /\ op \in {"leave", "remove", "promote", "demote"} /\ Decide(h, j)
          /\ j = [Request(op, p, c) EXCEPT !.other = q, !.rows = {q}]
    BY <1>6 DEF MayLeave, MayRemove, MayPromote, MayDemote
  <2>2. j.op = op
    BY <2>1 DEF Request, Idle
  <2> QED
    BY <2>1, <2>2 DEF FoundRoom
<1>7. ASSUME NEW p, NEW c, NEW q, MayTransfer(h, p, c, q)
      PROVE  \E j : Decide(h, j) /\ FoundRoom(j)
  <2>1. PICK j : /\ Decide(h, j)
                 /\ j = [Request("transfer", p, c) EXCEPT
                            !.other = q, !.rows = {p, q}, !.seen = role[c][q]]
    BY <1>7 DEF MayTransfer
  <2>2. j.op = "transfer"
    BY <2>1 DEF Request, Idle
  <2> QED
    BY <2>1, <2>2 DEF FoundRoom
<1>8. ASSUME NEW p, NEW c, NEW x, MayPin(h, p, c, x)
      PROVE  \E j : Decide(h, j) /\ FoundRoom(j)
  <2>1. PICK j : Decide(h, j) /\ j = [Request("pin", p, c) EXCEPT !.item = x]
    BY <1>8 DEF MayPin
  <2>2. j.op = "pin" /\ j.club = c
    BY <2>1 DEF Request, Idle
  <2>3. Cardinality(pins[c]) < MaxPins
    BY <1>8 DEF MayPin
  <2> QED
    BY <2>1, <2>2, <2>3 DEF FoundRoom
<1>9. ASSUME NEW p, NEW c, NEW x, MayUnpin(h, p, c, x)
      PROVE  \E j : Decide(h, j) /\ FoundRoom(j)
  <2>1. PICK j : Decide(h, j) /\ j = [Request("unpin", p, c) EXCEPT !.item = x]
    BY <1>9 DEF MayUnpin
  <2>2. j.op = "unpin"
    BY <2>1 DEF Request, Idle
  <2> QED
    BY <2>1, <2>2 DEF FoundRoom
<1> QED
  BY <1>1, <1>2, <1>3, <1>4, <1>5, <1>6, <1>7, <1>8, <1>9 DEF Reads

LEMMA ReadCaps ==
  ASSUME Inv, Caps, NEW h \in Handlers, Reads(h)
  PROVE  Caps'
<1>1. PICK j : Decide(h, j) /\ FoundRoom(j)
  BY ReadFindsRoom
<1>2. UNCHANGED <<clubs, role, invites, pins>> /\ job' = [job EXCEPT ![h] = j]
  BY <1>1 DEF Decide, tables
<1>3. ASSUME NEW c, NEW ops
      PROVE  /\ Adding(c, ops) \in SUBSET Handlers /\ Adding(c, ops)' \in SUBSET Handlers
             /\ ~(j.op \in ops /\ j.club = c) => Adding(c, ops)' \in SUBSET Adding(c, ops)
  BY <1>2 DEF Adding, Inv, TypeOK
<1> SUFFICES ASSUME NEW c \in ClubIds, Exists(c)
             PROVE  /\ Within(Members(c), Adding(c, {"join", "accepted"}), MaxMembers)'
                    /\ Within(Pending(c), Adding(c, {"invite"}), MaxPending)'
                    /\ Within(pins[c], Adding(c, {"pin"}), MaxPins)'
  BY <1>2 DEF Caps, Exists
<1>4. /\ Within(Members(c), Adding(c, {"join", "accepted"}), MaxMembers)
      /\ Within(Pending(c), Adding(c, {"invite"}), MaxPending)
      /\ Within(pins[c], Adding(c, {"pin"}), MaxPins)
  BY DEF Caps
<1>5. Members(c)' = Members(c) /\ Pending(c)' = Pending(c) /\ pins'[c] = pins[c]
  BY <1>2 DEF Members, Pending
<1>6. Within(Members(c), Adding(c, {"join", "accepted"})', MaxMembers)
  <2>1. CASE j.op \in {"join", "accepted"} /\ j.club = c
    BY <1>1, <1>3, <1>4, <2>1, DecidedWithin, Maxima DEF FoundRoom, Within
  <2>2. CASE ~(j.op \in {"join", "accepted"} /\ j.club = c)
    BY <1>3, <1>4, <2>2, FewerWithin, Maxima
  <2> QED
    BY <2>1, <2>2
<1>7. Within(Pending(c), Adding(c, {"invite"})', MaxPending)
  <2>1. CASE j.op = "invite" /\ j.club = c
    BY <1>1, <1>3, <1>4, <2>1, DecidedWithin, Maxima DEF FoundRoom, Within
  <2>2. CASE ~(j.op = "invite" /\ j.club = c)
    BY <1>3, <1>4, <2>2, FewerWithin, Maxima
  <2> QED
    BY <2>1, <2>2
<1>8. Within(pins[c], Adding(c, {"pin"})', MaxPins)
  <2>1. CASE j.op = "pin" /\ j.club = c
    BY <1>1, <1>3, <1>4, <2>1, DecidedWithin, Maxima DEF FoundRoom, Within
  <2>2. CASE ~(j.op = "pin" /\ j.club = c)
    BY <1>3, <1>4, <2>2, FewerWithin, Maxima
  <2> QED
    BY <2>1, <2>2
<1> QED
  BY <1>5, <1>6, <1>7, <1>8 DEF Within

LEMMA AbortCaps ==
  ASSUME Inv, Caps, NEW h \in Handlers, Abort(h)
  PROVE  Caps'
<1>1. UNCHANGED <<clubs, role, invites, pins>> /\ Done(h)
  BY DEF Abort, tables
<1>2. ASSUME NEW c, NEW ops, "idle" \notin ops
      PROVE  Adding(c, ops) \in SUBSET Handlers /\ Adding(c, ops)' \in SUBSET Adding(c, ops)
  BY <1>1, <1>2, AddingEnds DEF Inv, Adding
<1> SUFFICES ASSUME NEW c \in ClubIds, Exists(c)
             PROVE  /\ Within(Members(c), Adding(c, {"join", "accepted"}), MaxMembers)'
                    /\ Within(Pending(c), Adding(c, {"invite"}), MaxPending)'
                    /\ Within(pins[c], Adding(c, {"pin"}), MaxPins)'
  BY <1>1 DEF Caps, Exists
<1>3. /\ Within(Members(c), Adding(c, {"join", "accepted"}), MaxMembers)
      /\ Within(Pending(c), Adding(c, {"invite"}), MaxPending)
      /\ Within(pins[c], Adding(c, {"pin"}), MaxPins)
  BY DEF Caps
<1>4. Members(c)' = Members(c) /\ Pending(c)' = Pending(c) /\ pins'[c] = pins[c]
  BY <1>1 DEF Members, Pending
<1>5. /\ Within(Members(c), Adding(c, {"join", "accepted"})', MaxMembers)
      /\ Within(Pending(c), Adding(c, {"invite"})', MaxPending)
      /\ Within(pins[c], Adding(c, {"pin"})', MaxPins)
  BY <1>2, <1>3, FewerWithin, Maxima
<1> QED
  BY <1>4, <1>5 DEF Within

LEMMA NextCaps ==
  ASSUME Inv, Caps, [Next]_vars
  PROVE  Caps'
<1>1. CASE Others \/ UNCHANGED vars
  <2>1. UNCHANGED <<clubs, role, invites, pins, job>>
    BY <1>1 DEF Others, vars, PostInClub, TakeDown, Block, Unblock, Outside
  <2> QED
    BY <2>1, SameCaps
<1> QED
  BY <1>1, ReadCaps, WriteCaps, CreateCaps, AbortCaps DEF Next

(***************************************************************************)
(* Theorems                                                                *)
(***************************************************************************)

\* The invariant of the rosters, of the decisions not yet written, and of the owners.
THEOREM Invariance == Spec => []Inv
  BY InitInv, NextInv, PTL DEF Spec

\* A1, A8: until a transfer the maker of a club is its only owner.
THEOREM OwnersAreStable == Spec => []StableOwner
  BY Invariance, PTL DEF Inv, Owned

\* The tables keep their types, and (A3, D5) a retry makes no second club with
\* the key.
THEOREM ClubsAreCreatedOnce == Spec => []Sound
  BY Invariance, PTL DEF Inv, Owned, Sound

\* A4, D6: a club that was never open is joined by an answered invitation only.
THEOREM MembersWereInvited == Spec => []AdmittedByInvite
  BY Invariance, PTL DEF Inv, Owned

\* A7: members, pending invitations and pins overrun their caps by no more than the
\* requests served beside one another.
THEOREM OverrunIsBounded == Spec => []OverrunBounded
<1>1. Init => Caps
  BY DEF Init, Caps, Exists
<1>2. Inv /\ Caps /\ [Next]_vars => Caps'
  BY NextCaps
<1>3. Caps => OverrunBounded
  BY DEF Caps, Within, OverrunBounded
<1> QED
  BY <1>1, <1>2, <1>3, Invariance, PTL DEF Spec

\* Ownership moves to a profile that is a member when the transfer commits.
THEOREM OwnershipMovesToMembers == Spec => OwnerMovesToAMember
<1>1. Inv /\ [Next]_vars =>
        [\A c \in ClubIds :
           Exists(c) /\ clubs'[c].owner # clubs[c].owner =>
             /\ role[c][clubs'[c].owner] # "none"
             /\ role'[c][clubs'[c].owner] # "none"]_vars
  <2> SUFFICES ASSUME Inv, [Next]_vars PROVE OwnersAreMembers
    BY DEF OwnersAreMembers
  <2>1. ASSUME \A c \in ClubIds : Exists(c) => clubs'[c].owner = clubs[c].owner
        PROVE  OwnersAreMembers
    BY <2>1 DEF OwnersAreMembers
  <2>2. CASE UNCHANGED clubs
    BY <2>1, <2>2
  <2>3. ASSUME NEW h \in Handlers, Create(h) PROVE OwnersAreMembers
    <3>1. \A c \in ClubIds : Exists(c) => clubs'[c] = clubs[c]
      BY <2>3 DEF Create, Inv, TypeOK
    <3> QED
      BY <2>1, <3>1
  <2>4. ASSUME NEW h \in Handlers, Update(h) PROVE OwnersAreMembers
    <3>1. \A c \in ClubIds : Exists(c) => clubs'[c].owner = clubs[c].owner
      BY <2>4 DEF Update, Inv, TypeOK, Exists, Club
    <3> QED
      BY <2>1, <3>1
  <2>5. ASSUME NEW h \in Handlers, Transfer(h) PROVE OwnersAreMembers
    BY <2>5, TransferInv
  <2>6. UNCHANGED clubs \/ \E h \in Handlers : Create(h) \/ Update(h) \/ Transfer(h)
    <3>1. ASSUME NEW h \in Handlers, Reads(h) PROVE UNCHANGED clubs
      <4>1. ASSUME NEW j, Decide(h, j) PROVE UNCHANGED clubs
        BY <4>1 DEF Decide, tables
      <4> QED
        BY <3>1, <4>1 DEF Reads, MayCreate, MayUpdate, MayJoin, MayLeave, MayAskToJoin,
          MayInvite, MayAnswer, MayRemove, MayPromote, MayDemote, MayTransfer, MayPin, MayUnpin
    <3>2. Others \/ UNCHANGED vars => UNCHANGED clubs
      BY DEF Others, vars, PostInClub, TakeDown, Block, Unblock
    <3>3. ASSUME NEW h \in Handlers, Writes(h) \/ Abort(h)
          PROVE  UNCHANGED clubs \/ Create(h) \/ Update(h) \/ Transfer(h)
      BY <3>3 DEF Writes, Abort, tables, Join, InsertInvite, AnswerInvite, Delete, SetRole,
                  Pin, Unpin
    <3> QED
      BY <3>1, <3>2, <3>3 DEF Next
  <2> QED
    BY <2>2, <2>3, <2>4, <2>5, <2>6
<1> QED
  BY <1>1, Invariance, PTL DEF Spec, OwnerMovesToAMember
=============================================================================
