--------------------------- MODULE Challenges_proofs ---------------------------
(***************************************************************************)
(* Proofs about Challenges, for any number of requests that overlap: an    *)
(* invitation is answered once, the participants are those who accepted    *)
(* one, a practice event leaves one row, and a best value only improves.   *)
(***************************************************************************)
EXTENDS Challenges, TLAPS

\* What a request has decided still holds when it writes: invitations are never
\* deleted or given to another, participants never leave, and ends_at never
\* moves beyond where it started.
PlannedBy(j) ==
  /\ j.op = "invite" => j.actor \in Profiles /\ j.other \in Profiles
  /\ j.op \in Answers =>
       /\ j.actor \in Profiles /\ j.item \in InviteIds /\ invites[j.item] # None
       /\ j.op = "accepted" => invites[j.item].invitee = j.actor
  /\ j.op = "submit" =>
       /\ j.actor \in Profiles /\ j.item \in Events /\ j.metric \in Metrics
       /\ best[j.actor] # None
  /\ j.op = "end" => j.at <= EndsAt

Planned == \A h \in Handlers : PlannedBy(job[h])

Inv == Sound /\ JoinedByAccepting /\ OneRowPerEvent /\ Planned

LEMMA Constants ==
  /\ None \notin Profiles /\ None \notin InviteIds /\ None \notin Events /\ None \notin Keys
  /\ None \notin Metrics /\ None \notin Invite
  /\ None # Nothing /\ Nothing \notin Metrics /\ Metrics \subseteq Nat
  /\ StartsAt \in Nat /\ EndsAt \in Nat /\ StartsAt < EndsAt
  /\ MaxClock \in Nat /\ MaxRequests \in Nat /\ Windows \subseteq Nat
<1>1. Nothing \notin Nat
  BY DEF Nothing
<1>2. Nothing \notin Metrics
  BY <1>1, ChallengesAssumptions
<1> QED
  BY <1>2, ChallengesAssumptions

LEMMA IdleFacts == Idle \in Job /\ Idle.op = "idle" /\ PlannedBy(Idle)
  BY DEF Idle, Job, PlannedBy, Answers

LEMMA InitInv == Init => Inv
<1> SUFFICES ASSUME Init PROVE Inv
  OBVIOUS
<1>1. results \in Seq(Result) /\ DOMAIN results = {}
  BY DEF Init
<1>2. TypeOK
  BY <1>1, Constants, IdleFacts DEF Init, TypeOK, Best
<1>3. Planned
  BY IdleFacts DEF Init, Planned
<1>4. Joined = {}
  BY DEF Init, Joined
<1>5. JoinedByAccepting
  BY <1>4 DEF Init, JoinedByAccepting
<1> QED
  BY <1>1, <1>2, <1>3, <1>4, <1>5 DEF Inv, Sound, ClaimHasRow, OneRowPerEvent

(***************************************************************************)
(* What steps leave alone                                                  *)
(***************************************************************************)

\* The participants are judged by the invitations.
LEMMA SameJoined ==
  ASSUME JoinedByAccepting, UNCHANGED <<invites, best>>
  PROVE  JoinedByAccepting'
  BY DEF JoinedByAccepting, Joined

\* And the claims by the results.
LEMMA SameResults ==
  ASSUME ClaimHasRow, OneRowPerEvent, UNCHANGED <<type, best, results>>
  PROVE  ClaimHasRow' /\ OneRowPerEvent'
  BY DEF ClaimHasRow, OneRowPerEvent, Joined

\* Invitations stay with their invitee and participants stay, so that a request
\* that ends leaves the plans of the others as they were.
LEMMA DoneFacts ==
  ASSUME TypeOK, Planned, NEW h \in Handlers, Done(h),
         \A i \in InviteIds : invites[i] # None =>
           invites'[i] # None /\ invites'[i].invitee = invites[i].invitee,
         \A p \in Profiles : best[p] # None => best'[p] # None
  PROVE  /\ job' \in [Handlers -> Job] /\ Planned'
         /\ UNCHANGED <<clock, type, requests>>
<1>1. job' = [job EXCEPT ![h] = Idle] /\ UNCHANGED <<clock, type, requests>>
  BY DEF Done
<1>2. job' \in [Handlers -> Job] /\ job'[h] = Idle
  BY <1>1, IdleFacts DEF TypeOK
<1>3. \A g \in Handlers \ {h} : job'[g] = job[g]
  BY <1>1 DEF TypeOK
<1>4. PlannedBy(job[h])'
  BY <1>2, IdleFacts DEF PlannedBy, Answers
<1>5. \A g \in Handlers \ {h} : PlannedBy(job[g])'
  BY <1>3 DEF Planned, PlannedBy
<1> QED
  BY <1>1, <1>2, <1>4, <1>5 DEF Planned

(***************************************************************************)
(* Reading and deciding                                                    *)
(***************************************************************************)

LEMMA PlanInv ==
  ASSUME Inv, NEW h \in Handlers, NEW j \in Job, Decide(h, j), PlannedBy(j)
  PROVE  Inv'
<1>1. /\ UNCHANGED <<clock, type, ends, invites, best, results, blocked>>
      /\ job' = [job EXCEPT ![h] = j]
  BY DEF Decide
<1>2. TypeOK'
  BY <1>1, Constants DEF Decide, Inv, Sound, TypeOK
<1>3. Planned'
  BY <1>1 DEF Inv, Sound, TypeOK, Planned, PlannedBy
<1> QED
  BY <1>1, <1>2, <1>3, SameJoined, SameResults DEF Inv, Sound

LEMMA MayInviteInv ==
  ASSUME Inv, NEW h \in Handlers, NEW p \in Profiles, NEW q \in Profiles,
         NEW k \in Keys \cup {None}, NEW w \in Windows, MayInvite(h, p, q, k, w)
  PROVE  Inv'
<1>1. PICK j : j = [Request("invite", p) EXCEPT !.other = q, !.key = k, !.until = clock + w]
  OBVIOUS
<1>2. clock \in Nat /\ w \in Nat
  BY Constants DEF Inv, Sound, TypeOK
<1>3. j = [op |-> "invite", actor |-> p, other |-> q, item |-> None, key |-> k,
           metric |-> None, until |-> clock + w, at |-> clock, ok |-> FALSE]
  BY <1>1 DEF Request, Idle
<1>4. j \in Job
  BY <1>2, <1>3 DEF Job
<1>5. PlannedBy(j)
  BY <1>3 DEF PlannedBy, Answers
<1>6. Decide(h, j)
  BY <1>1 DEF MayInvite
<1> QED
  BY <1>4, <1>5, <1>6, PlanInv

LEMMA MayAnswerInv ==
  ASSUME Inv, NEW h \in Handlers, NEW p \in Profiles, NEW i \in InviteIds,
         MayAccept(h, p, i) \/ MayDecline(h, p, i) \/ MayCancel(h, p, i)
  PROVE  Inv'
<1>1. PICK op, ok, j :
        /\ op \in Answers /\ ok \in BOOLEAN /\ Decide(h, j)
        /\ invites[i] # None /\ (op = "accepted" => invites[i].invitee = p)
        /\ \/ j = [Request(op, p) EXCEPT !.item = i, !.ok = ok]
           \/ j = [Request(op, p) EXCEPT !.item = i] /\ ok = FALSE
  BY DEF MayAccept, MayDecline, MayCancel, Answers
<1>2. j = [op |-> op, actor |-> p, other |-> None, item |-> i, key |-> None,
           metric |-> None, until |-> 0, at |-> clock, ok |-> ok]
  <2>1. CASE j = [Request(op, p) EXCEPT !.item = i, !.ok = ok]
    BY <2>1 DEF Request, Idle
  <2>2. CASE j = [Request(op, p) EXCEPT !.item = i] /\ ok = FALSE
    BY <2>2 DEF Request, Idle
  <2> QED
    BY <1>1, <2>1, <2>2
<1>3. clock \in Nat
  BY Constants DEF Inv, Sound, TypeOK
<1>4. j \in Job
  BY <1>1, <1>2, <1>3 DEF Job, Answers
<1>5. PlannedBy(j)
  BY <1>1, <1>2 DEF PlannedBy, Answers
<1> QED
  BY <1>1, <1>4, <1>5, PlanInv

LEMMA MaySubmitInv ==
  ASSUME Inv, NEW h \in Handlers, NEW p \in Profiles, NEW e \in Events, NEW m \in Metrics,
         NEW stated \in BOOLEAN, MaySubmit(h, p, e, m, stated)
  PROVE  Inv'
<1>1. PICK ok, j :
        /\ ok \in BOOLEAN /\ Decide(h, j)
        /\ j = [Request("submit", p) EXCEPT !.item = e, !.metric = m, !.ok = ok]
  BY DEF MaySubmit, Acceptable
<1>2. j = [op |-> "submit", actor |-> p, other |-> None, item |-> e, key |-> None,
           metric |-> m, until |-> 0, at |-> clock, ok |-> ok]
  BY <1>1 DEF Request, Idle
<1>3. clock \in Nat
  BY Constants DEF Inv, Sound, TypeOK
<1>4. j \in Job
  BY <1>1, <1>2, <1>3 DEF Job
<1>5. PlannedBy(j)
  BY <1>2 DEF PlannedBy, Answers, MaySubmit, Joined
<1> QED
  BY <1>1, <1>4, <1>5, PlanInv

LEMMA MayEndInv ==
  ASSUME Inv, NEW h \in Handlers, NEW p \in Profiles, MayEnd(h, p)
  PROVE  Inv'
<1>1. PICK j : j = Request("end", p)
  OBVIOUS
<1>2. clock \in Nat /\ clock <= EndsAt
  BY Constants DEF MayEnd, Inv, Sound, TypeOK
<1>3. j \in Job
  BY <1>1, <1>2 DEF Request, Idle, Job
<1>4. PlannedBy(j)
  BY <1>1, <1>2 DEF PlannedBy, Answers, Request, Idle
<1>5. Decide(h, j)
  BY <1>1 DEF MayEnd
<1> QED
  BY <1>3, <1>4, <1>5, PlanInv

(***************************************************************************)
(* Writing: invitations                                                    *)
(***************************************************************************)

\* A new invitation takes a free row and is not yet answered.
LEMMA CreateInviteFacts ==
  ASSUME Inv, NEW h \in Handlers, CreateInvite(h)
  PROVE  /\ invites' \in [InviteIds -> Invite \cup {None}]
         /\ \A i \in InviteIds :
              \/ invites'[i] = invites[i]
              \/ invites[i] = None /\ invites'[i] # None /\ invites'[i].state = "sent"
         /\ UNCHANGED <<ends, best, results, blocked>> /\ Done(h)
<1>1. CASE UNCHANGED invites
  BY <1>1 DEF CreateInvite, Inv, Sound, TypeOK
<1>2. ASSUME NEW i \in InviteIds, invites[i] = None,
             NEW new, new = [inviter |-> job[h].actor, invitee |-> job[h].other,
                             key |-> job[h].key, made |-> job[h].at,
                             expires |-> job[h].until, state |-> "sent"],
             invites' = [invites EXCEPT ![i] = new]
      PROVE  /\ invites' \in [InviteIds -> Invite \cup {None}]
             /\ invites'[i] # None /\ invites'[i].state = "sent"
             /\ \A k \in InviteIds \ {i} : invites'[k] = invites[k]
  <2>1. job[h] \in Job /\ job[h].actor \in Profiles /\ job[h].other \in Profiles
    BY DEF CreateInvite, Inv, Sound, TypeOK, Planned, PlannedBy
  <2>2. new \in Invite
    BY <2>1, <1>2 DEF Invite, Job
  <2> QED
    BY <2>2, <1>2, Constants DEF Inv, Sound, TypeOK
<1> QED
  BY <1>1, <1>2 DEF CreateInvite

LEMMA CreateInviteInv ==
  ASSUME Inv, NEW h \in Handlers, CreateInvite(h)
  PROVE  Inv'
<1>1. /\ invites' \in [InviteIds -> Invite \cup {None}]
      /\ \A i \in InviteIds :
           \/ invites'[i] = invites[i]
           \/ invites[i] = None /\ invites'[i] # None /\ invites'[i].state = "sent"
      /\ UNCHANGED <<ends, best, results, blocked>> /\ Done(h)
  BY CreateInviteFacts
<1>2. job' \in [Handlers -> Job] /\ Planned' /\ UNCHANGED <<clock, type, requests>>
  BY <1>1, DoneFacts DEF Inv, Sound
<1>3. TypeOK'
  BY <1>1, <1>2 DEF Inv, Sound, TypeOK
<1>4. \A i \in InviteIds, p \in Profiles :
        (invites'[i] # None /\ invites'[i].invitee = p /\ invites'[i].state = "accepted")
          <=> (invites[i] # None /\ invites[i].invitee = p /\ invites[i].state = "accepted")
  BY <1>1
<1>5. JoinedByAccepting'
  BY <1>1, <1>4 DEF Inv, JoinedByAccepting, Joined
<1> QED
  BY <1>1, <1>2, <1>3, <1>5, SameResults DEF Inv, Sound

\* An answer keeps every answer given before and every participant.
LEMMA AnswerFacts ==
  ASSUME Inv, NEW h \in Handlers, AnswerInvite(h)
  PROVE  /\ invites' \in [InviteIds -> Invite \cup {None}]
         /\ \A i \in InviteIds : invites[i] # None =>
              invites'[i] # None /\ invites'[i].invitee = invites[i].invitee
         /\ \A i \in InviteIds :
              invites[i] # None /\ invites[i].state # "sent" => invites'[i] = invites[i]
         /\ best' \in [Profiles -> Best]
         /\ \A p \in Profiles : best[p] # None => best'[p] = best[p]
         /\ \A p \in Profiles : best'[p] \in {best[p], Nothing}
         /\ JoinedByAccepting'
         /\ UNCHANGED <<ends, results, blocked>> /\ Done(h)
<1>1. PICK j : j = job[h]
  OBVIOUS
<1>2. /\ j.op \in Answers /\ j.actor \in Profiles /\ j.item \in InviteIds
      /\ invites[j.item] # None /\ invites[j.item] \in Invite
      /\ j.op = "accepted" => invites[j.item].invitee = j.actor
  BY <1>1 DEF AnswerInvite, Inv, Sound, TypeOK, Planned, PlannedBy
<1>3. UNCHANGED <<ends, results, blocked>> /\ Done(h)
  BY DEF AnswerInvite
<1>4. CASE UNCHANGED <<invites, best>>
  BY <1>3, <1>4, SameJoined DEF Inv, Sound, TypeOK
<1>5. CASE invites[j.item].state = "sent" /\ Answer(j.item, j.op)
  <2>1. PICK new : new = [invites[j.item] EXCEPT !.state = j.op]
    OBVIOUS
  <2>2. /\ new \in Invite /\ new # None /\ new.state = j.op
        /\ new.invitee = invites[j.item].invitee
    BY <1>2, <2>1, Constants DEF Invite, Answers
  <2>3. invites' = [invites EXCEPT ![j.item] = new]
    BY <1>5, <2>1 DEF Answer
  <2>4. /\ invites' \in [InviteIds -> Invite \cup {None}] /\ invites'[j.item] = new
        /\ \A i \in InviteIds \ {j.item} : invites'[i] = invites[i]
    BY <1>2, <2>2, <2>3 DEF Inv, Sound, TypeOK
  <2>5. CASE j.op # "accepted" /\ UNCHANGED best
    <3>1. \A i \in InviteIds, p \in Profiles :
            (invites'[i] # None /\ invites'[i].invitee = p /\ invites'[i].state = "accepted")
              <=> (invites[i] # None /\ invites[i].invitee = p /\ invites[i].state = "accepted")
      BY <1>5, <2>2, <2>4, <2>5
    <3>2. JoinedByAccepting'
      BY <2>5, <3>1 DEF Inv, JoinedByAccepting, Joined
    <3> QED
      BY <1>2, <1>3, <1>5, <2>2, <2>4, <2>5, <3>2 DEF Inv, Sound, TypeOK
  <2>6. CASE /\ j.op = "accepted"
             /\ best' = [best EXCEPT ![j.actor] = IF @ = None THEN Nothing ELSE @]
    <3>1. /\ best' \in [Profiles -> Best] /\ best'[j.actor] # None
          /\ \A p \in Profiles : /\ best[p] # None => best'[p] = best[p]
                                 /\ best'[p] \in {best[p], Nothing}
                                 /\ p # j.actor => best'[p] = best[p]
      BY <1>2, <2>6, Constants DEF Inv, Sound, TypeOK, Best
    <3>2. \A i \in InviteIds, p \in Profiles : p # j.actor =>
            ((invites'[i] # None /\ invites'[i].invitee = p /\ invites'[i].state = "accepted")
              <=> (invites[i] # None /\ invites[i].invitee = p /\ invites[i].state = "accepted"))
      BY <1>2, <1>5, <2>2, <2>4, <2>6
    <3>3. invites'[j.item].invitee = j.actor /\ invites'[j.item].state = "accepted"
      BY <1>2, <2>2, <2>4, <2>6
    <3>4. JoinedByAccepting'
      <4> SUFFICES ASSUME NEW p \in Profiles
                   PROVE  best'[p] # None <=>
                            \E i \in InviteIds : /\ invites'[i] # None
                                                 /\ invites'[i].invitee = p
                                                 /\ invites'[i].state = "accepted"
        BY DEF JoinedByAccepting, Joined
      <4>1. CASE p = j.actor
        BY <4>1, <1>2, <2>2, <2>4, <3>1, <3>3
      <4>2. CASE p # j.actor
        BY <4>2, <3>1, <3>2 DEF Inv, JoinedByAccepting, Joined
      <4> QED
        BY <4>1, <4>2
    <3> QED
      BY <1>2, <1>3, <1>5, <2>2, <2>4, <3>1, <3>4
  <2> QED
    BY <1>1, <1>4, <1>5, <2>5, <2>6 DEF AnswerInvite
<1> QED
  BY <1>1, <1>4, <1>5 DEF AnswerInvite

LEMMA AnswerInviteInv ==
  ASSUME Inv, NEW h \in Handlers, AnswerInvite(h)
  PROVE  Inv'
<1>1. /\ invites' \in [InviteIds -> Invite \cup {None}]
      /\ \A i \in InviteIds : invites[i] # None =>
           invites'[i] # None /\ invites'[i].invitee = invites[i].invitee
      /\ best' \in [Profiles -> Best]
      /\ \A p \in Profiles : best[p] # None => best'[p] = best[p]
      /\ \A p \in Profiles : best'[p] \in {best[p], Nothing}
      /\ JoinedByAccepting'
      /\ UNCHANGED <<ends, results, blocked>> /\ Done(h)
  BY AnswerFacts
<1>2. job' \in [Handlers -> Job] /\ Planned' /\ UNCHANGED <<clock, type, requests>>
  BY <1>1, DoneFacts DEF Inv, Sound
<1>3. TypeOK'
  BY <1>1, <1>2 DEF Inv, Sound, TypeOK
<1>4. \A p \in Profiles : best'[p] # None /\ best'[p] # Nothing => best'[p] = best[p]
  BY <1>1
<1>5. ClaimHasRow' /\ OneRowPerEvent'
  BY <1>1, <1>2, <1>4 DEF Inv, Sound, ClaimHasRow, OneRowPerEvent, Joined
<1> QED
  BY <1>1, <1>2, <1>3, <1>5 DEF Inv, Sound

(***************************************************************************)
(* Writing: results and the end of the challenge                           *)
(***************************************************************************)

\* What a submission leaves: the rows as they were but for verdicts, at most one
\* more, and the best values of the others.
LEMMA SubmitFacts ==
  ASSUME Inv, NEW h \in Handlers, Submit(h)
  PROVE  /\ results' \in Seq(Result) /\ OneRowPerEvent' /\ ClaimHasRow'
         /\ \A n \in DOMAIN results :
              /\ n \in DOMAIN results'
              /\ results'[n] = [results[n] EXCEPT !.state = results'[n].state]
         /\ best' \in [Profiles -> Best]
         /\ \A p \in Profiles :
              /\ best'[p] # None <=> best[p] # None
              /\ best[p] # None /\ best[p] # Nothing /\ best'[p] # best[p] =>
                   type = "personalBest" /\ best'[p] > best[p]
         /\ UNCHANGED <<type, ends, invites, blocked>> /\ Done(h)
<1>1. PICK j : j = job[h]
  OBVIOUS
<1>2. /\ j.actor \in Profiles /\ j.item \in Events /\ j.metric \in Metrics
      /\ best[j.actor] # None /\ j \in Job /\ j.at \in Nat
  BY <1>1 DEF Submit, Inv, Sound, TypeOK, Planned, PlannedBy, Job
<1>3. UNCHANGED <<ends, invites, blocked>> /\ Done(h) /\ UNCHANGED type
  BY DEF Submit, Done
<1>4. /\ results \in Seq(Result) /\ best \in [Profiles -> Best]
      /\ \A n \in DOMAIN results : results[n] \in Result
      /\ DOMAIN results = 1 .. Len(results) /\ Len(results) \in Nat
  BY DEF Inv, Sound, TypeOK
<1>5. best[j.actor] \in Nat \/ best[j.actor] = Nothing
  BY <1>2, <1>4, Constants DEF Best
<1>6. Better(j) \in Metrics /\ (best[j.actor] # Nothing => Better(j) >= best[j.actor])
      /\ (best[j.actor] = Nothing => Better(j) = j.metric)
  <2>1. CASE best[j.actor] = Nothing
    BY <2>1, <1>2 DEF Better
  <2>2. CASE best[j.actor] \in Nat
    <3>1. best[j.actor] \in Metrics /\ best[j.actor] # Nothing /\ j.metric \in Nat
      <4>1. best[j.actor] # Nothing
        BY <2>2 DEF Nothing
      <4> QED
        BY <4>1, <1>2, <1>4, Constants DEF Best
    <3>2. CASE best[j.actor] < j.metric
      BY <3>1, <3>2, <2>2, <1>2 DEF Better
    <3>3. CASE ~(best[j.actor] < j.metric)
      BY <3>1, <3>3, <2>2, <1>2 DEF Better
    <3> QED
      BY <3>2, <3>3
  <2> QED
    BY <1>5, <2>1, <2>2
<1>7. Verdict(j) \in {"verified", "rejected"}
  BY DEF Verdict
<1>8. CASE InsertResult(j)
  <2>1. PICK new : new = [who |-> j.actor, event |-> j.item, metric |-> j.metric,
                          at |-> j.at, state |-> Verdict(j)]
    OBVIOUS
  <2>2. /\ new \in Result /\ new.who = j.actor /\ new.event = j.item
        /\ new.metric = j.metric
    BY <2>1, <1>2, <1>7 DEF Result
  <2>3. results' = Append(results, new) /\ Rows(j.actor, j.item) = {}
    BY <1>8, <2>1 DEF InsertResult
  <2> DEFINE N == Len(results) + 1
  <2>4. /\ results' \in Seq(Result) /\ DOMAIN results' = DOMAIN results \cup {N}
        /\ N \notin DOMAIN results /\ results'[N] = new
        /\ \A n \in DOMAIN results : results'[n] = results[n]
    BY <1>4, <2>2, <2>3
  <2> HIDE DEF N
  <2>5. \A n \in DOMAIN results : ~(results[n].who = j.actor /\ results[n].event = j.item)
    BY <2>3 DEF Rows
  <2>6. OneRowPerEvent'
    <3> SUFFICES ASSUME NEW m \in DOMAIN results', NEW n \in DOMAIN results',
                        results'[m].who = results'[n].who, results'[m].event = results'[n].event
                 PROVE  m = n
      BY DEF OneRowPerEvent
    <3>1. CASE m \in DOMAIN results /\ n \in DOMAIN results
      BY <3>1, <2>4 DEF Inv, OneRowPerEvent
    <3>2. CASE m = N /\ n \in DOMAIN results
      BY <3>2, <2>2, <2>4, <2>5
    <3>3. CASE n = N /\ m \in DOMAIN results
      BY <3>3, <2>2, <2>4, <2>5
    <3> QED
      BY <3>1, <3>2, <3>3, <2>4
  <2>7. \A n \in DOMAIN results : results'[n] = [results[n] EXCEPT !.state = results'[n].state]
    BY <1>4, <2>4 DEF Result
  <2>8. best' = [best EXCEPT ![j.actor] = IF Claimed(j) THEN Better(j) ELSE @]
    BY <1>8 DEF InsertResult
  <2>9. /\ best' \in [Profiles -> Best]
        /\ \A p \in Profiles \ {j.actor} : best'[p] = best[p]
        /\ best'[j.actor] = IF Claimed(j) THEN Better(j) ELSE best[j.actor]
    BY <2>8, <1>2, <1>4, <1>6 DEF Best
  <2>10. /\ best'[j.actor] # None
         /\ best[j.actor] # Nothing /\ best'[j.actor] # best[j.actor] =>
              type = "personalBest" /\ best'[j.actor] > best[j.actor]
    <3>1. Better(j) # None /\ Better(j) \in Nat
      BY <1>6, Constants
    <3>2. CASE ~Claimed(j)
      BY <3>2, <2>9, <1>2
    <3>3. CASE Claimed(j) /\ best[j.actor] = Nothing
      BY <3>1, <3>3, <2>9
    <3>4. CASE Claimed(j) /\ best[j.actor] # Nothing
      <4>1. type = "personalBest" /\ best[j.actor] \in Nat /\ Better(j) >= best[j.actor]
        BY <3>4, <1>5, <1>6 DEF Claimed
      <4>2. Better(j) # best[j.actor] => Better(j) > best[j.actor]
        BY <4>1, <3>1
      <4>3. best'[j.actor] = Better(j)
        BY <3>4, <2>9
      <4> QED
        BY <4>1, <4>2, <4>3, <3>1
    <3> QED
      BY <3>2, <3>3, <3>4
  <2>11. ClaimHasRow'
    <3> SUFFICES ASSUME type # "personalBest", NEW p \in Profiles,
                        best'[p] # None, best'[p] # Nothing
                 PROVE  \E n \in DOMAIN results' :
                          results'[n].who = p /\ results'[n].metric = best'[p]
      BY <1>3 DEF ClaimHasRow, Joined
    <3>1. CASE best'[p] = best[p]
      BY <3>1, <2>4 DEF Inv, Sound, ClaimHasRow, Joined
    <3>2. CASE best'[p] # best[p]
      <4>1. p = j.actor /\ Claimed(j) /\ best'[p] = Better(j)
        BY <3>2, <2>9
      <4>2. best'[p] = j.metric
        BY <4>1, <1>6 DEF Claimed
      <4> QED
        BY <4>1, <4>2, <2>2, <2>4
    <3> QED
      BY <3>1, <3>2
  <2> QED
    BY <1>2, <1>3, <2>4, <2>6, <2>7, <2>9, <2>10, <2>11
<1>9. CASE OverwriteVerdict(j)
  <2>1. results' = [n \in DOMAIN results |->
                      IF n \in Rows(j.actor, j.item)
                      THEN [results[n] EXCEPT !.state = Verdict(j)] ELSE results[n]]
    BY <1>9 DEF OverwriteVerdict
  <2>2. /\ DOMAIN results' = DOMAIN results
        /\ \A n \in DOMAIN results :
             /\ results'[n] \in Result
             /\ results'[n] = [results[n] EXCEPT !.state = results'[n].state]
             /\ results'[n].who = results[n].who /\ results'[n].event = results[n].event
             /\ results'[n].metric = results[n].metric
    BY <2>1, <1>4, <1>7 DEF Result
  <2>3. results' \in Seq(Result)
    <3>1. results' \in [1 .. Len(results) -> Result]
      BY <2>1, <2>2, <1>4
    <3> QED
      BY <3>1, <1>4
  <2>4. OneRowPerEvent'
    BY <2>2 DEF Inv, OneRowPerEvent
  <2>5. best' = [best EXCEPT ![j.actor] =
                   IF Claimed(j) /\ type = "personalBest" THEN Better(j) ELSE @]
    BY <1>9 DEF OverwriteVerdict
  <2>6. /\ best' \in [Profiles -> Best]
        /\ \A p \in Profiles \ {j.actor} : best'[p] = best[p]
        /\ best'[j.actor] = IF Claimed(j) /\ type = "personalBest" THEN Better(j)
                            ELSE best[j.actor]
    BY <2>5, <1>2, <1>4, <1>6 DEF Best
  <2>7. /\ best'[j.actor] # None
        /\ best[j.actor] # Nothing /\ best'[j.actor] # best[j.actor] =>
             type = "personalBest" /\ best'[j.actor] > best[j.actor]
    <3>1. Better(j) # None /\ Better(j) \in Nat
      BY <1>6, Constants
    <3>2. CASE best'[j.actor] = best[j.actor]
      BY <3>2, <1>2
    <3>3. CASE best'[j.actor] = Better(j) /\ type = "personalBest"
      <4>1. best[j.actor] # Nothing => best[j.actor] \in Nat /\ Better(j) >= best[j.actor]
        BY <1>5, <1>6
      <4>2. best[j.actor] # Nothing /\ Better(j) # best[j.actor] => Better(j) > best[j.actor]
        BY <4>1, <3>1
      <4> QED
        BY <4>2, <3>1, <3>3
    <3> QED
      BY <3>2, <3>3, <2>6
  <2>8. type # "personalBest" => \A p \in Profiles : best'[p] = best[p]
    BY <2>6
  <2>9. ClaimHasRow'
    <3> SUFFICES ASSUME type # "personalBest", NEW p \in Profiles,
                        best'[p] # None, best'[p] # Nothing
                 PROVE  \E n \in DOMAIN results' :
                          results'[n].who = p /\ results'[n].metric = best'[p]
      BY <1>3 DEF ClaimHasRow, Joined
    <3> QED
      BY <2>2, <2>8 DEF Inv, Sound, ClaimHasRow, Joined
  <2> QED
    BY <1>2, <1>3, <2>2, <2>3, <2>4, <2>6, <2>7, <2>9
<1> QED
  BY <1>1, <1>8, <1>9 DEF Submit

LEMMA SubmitInv ==
  ASSUME Inv, NEW h \in Handlers, Submit(h)
  PROVE  Inv'
<1>1. /\ results' \in Seq(Result) /\ OneRowPerEvent' /\ ClaimHasRow'
      /\ best' \in [Profiles -> Best]
      /\ UNCHANGED <<ends, invites, blocked>> /\ Done(h)
  BY SubmitFacts
<1>2. \A p \in Profiles : best'[p] # None <=> best[p] # None
  BY SubmitFacts
<1>3. job' \in [Handlers -> Job] /\ Planned' /\ UNCHANGED <<clock, type, requests>>
  BY <1>1, <1>2, DoneFacts DEF Inv, Sound
<1>4. TypeOK'
  BY <1>1, <1>3 DEF Inv, Sound, TypeOK
<1>5. JoinedByAccepting'
  BY <1>1, <1>2 DEF Inv, JoinedByAccepting, Joined
<1> QED
  BY <1>1, <1>3, <1>4, <1>5 DEF Inv, Sound

LEMMA EndInv ==
  ASSUME Inv, NEW h \in Handlers, End(h)
  PROVE  Inv'
<1>1. UNCHANGED <<invites, best, results, blocked>> /\ Done(h)
  BY DEF End
<1>2. job' \in [Handlers -> Job] /\ Planned' /\ UNCHANGED <<clock, type, requests>>
  BY <1>1, DoneFacts DEF Inv, Sound
<1>3. ends' \in StartsAt + 1 .. EndsAt
  <2>1. job[h] \in Job /\ job[h].at <= EndsAt /\ job[h].at > StartsAt /\ ends' = job[h].at
    BY DEF End, Inv, Sound, TypeOK, Planned, PlannedBy
  <2>2. job[h].at \in Nat
    BY <2>1 DEF Job
  <2> QED
    BY <2>1, <2>2, Constants
<1>4. TypeOK'
  BY <1>1, <1>2, <1>3 DEF Inv, Sound, TypeOK
<1> QED
  BY <1>1, <1>2, <1>4, SameJoined, SameResults DEF Inv, Sound

LEMMA AbortInv ==
  ASSUME Inv, NEW h \in Handlers, Abort(h)
  PROVE  Inv'
<1>1. UNCHANGED <<ends, invites, best, results, blocked>> /\ Done(h)
  BY DEF Abort
<1>2. job' \in [Handlers -> Job] /\ Planned' /\ UNCHANGED <<clock, type, requests>>
  BY <1>1, DoneFacts DEF Inv, Sound
<1>3. TypeOK'
  BY <1>1, <1>2 DEF Inv, Sound, TypeOK
<1> QED
  BY <1>1, <1>2, <1>3, SameJoined, SameResults DEF Inv, Sound

\* Time passes and people block each other without a request to this service.
LEMMA OutsideInv ==
  ASSUME Inv,
         \/ Tick
         \/ \E p, q \in Profiles : Block(p, q) \/ Unblock(p, q)
         \/ UNCHANGED vars
  PROVE  Inv'
<1>1. UNCHANGED <<type, ends, invites, best, results, job>>
  BY DEF Tick, Block, Unblock, vars
<1>2. /\ clock' \in 0 .. MaxClock /\ requests' \in 0 .. MaxRequests
      /\ blocked' \subseteq Profiles \X Profiles
  <2>1. /\ clock \in 0 .. MaxClock /\ requests \in 0 .. MaxRequests
        /\ blocked \subseteq Profiles \X Profiles
    BY DEF Inv, Sound, TypeOK
  <2>2. CASE Tick
    BY <2>1, <2>2, Constants DEF Tick
  <2>3. ASSUME NEW p \in Profiles, NEW q \in Profiles, Block(p, q) \/ Unblock(p, q)
        PROVE  /\ clock' = clock /\ requests' \in 0 .. MaxRequests
               /\ blocked' \subseteq blocked \cup {<<p, q>>}
    BY <2>1, <2>3, Constants DEF Block, Unblock, Outside
  <2>4. CASE UNCHANGED vars
    BY <2>1, <2>4 DEF vars
  <2> QED
    BY <2>1, <2>2, <2>3, <2>4
<1>3. TypeOK'
  BY <1>1, <1>2 DEF Inv, Sound, TypeOK
<1>4. Planned'
  BY <1>1 DEF Inv, Planned, PlannedBy
<1> QED
  BY <1>1, <1>3, <1>4, SameJoined, SameResults DEF Inv, Sound

LEMMA NextInv ==
  ASSUME Inv, [Next]_vars
  PROVE  Inv'
<1>1. ASSUME NEW h \in Handlers, Reads(h) PROVE Inv'
  BY <1>1, MayInviteInv, MayAnswerInv, MaySubmitInv, MayEndInv DEF Reads
<1>2. ASSUME NEW h \in Handlers, Writes(h) PROVE Inv'
  BY <1>2, CreateInviteInv, AnswerInviteInv, SubmitInv, EndInv DEF Writes
<1> QED
  BY <1>1, <1>2, AbortInv, OutsideInv DEF Next

(***************************************************************************)
(* Theorems                                                                *)
(***************************************************************************)

\* The invariant of the rows and of what the requests under way rely on.
THEOREM Invariance == Spec => []Inv
  BY InitInv, NextInv, PTL DEF Spec

\* Types, no first-wins claim without the submission it was made for, and one row
\* for the retries of a submission that overlap.
THEOREM ClaimsAreSubmissions == Spec => []Sound
  BY Invariance, PTL DEF Inv

\* Who takes part has accepted an invitation, and who accepted one takes part.
THEOREM ParticipantsAccepted == Spec => []JoinedByAccepting
  BY Invariance, PTL DEF Inv

\* What a step does to the answers, the rows and the best values.
LEMMA StepFacts ==
  ASSUME Inv, [Next]_vars
  PROVE  /\ \A i \in InviteIds :
              invites[i] # None /\ invites[i].state # "sent" => invites'[i] = invites[i]
         /\ \A n \in DOMAIN results :
              /\ n \in DOMAIN results'
              /\ results'[n] = [results[n] EXCEPT !.state = results'[n].state]
         /\ \A p \in Joined : best[p] # Nothing /\ best'[p] # best[p] =>
              type = "personalBest" /\ best'[p] > best[p]
<1>1. \A n \in DOMAIN results : results[n] = [results[n] EXCEPT !.state = results[n].state]
  <2>1. \A n \in DOMAIN results : results[n] \in Result
    BY DEF Inv, Sound, TypeOK
  <2> QED
    BY <2>1 DEF Result
<1>2. CASE UNCHANGED <<invites, best, results>>
  BY <1>1, <1>2
<1>3. ASSUME NEW h \in Handlers, CreateInvite(h)
      PROVE  UNCHANGED <<best, results>> /\ \A i \in InviteIds :
               invites[i] # None => invites'[i] = invites[i]
  BY <1>3, CreateInviteFacts
<1>4. ASSUME NEW h \in Handlers, AnswerInvite(h)
      PROVE  /\ UNCHANGED results /\ \A p \in Profiles : best[p] # None => best'[p] = best[p]
             /\ \A i \in InviteIds :
                  invites[i] # None /\ invites[i].state # "sent" => invites'[i] = invites[i]
  BY <1>4, AnswerFacts
<1>5. ASSUME NEW h \in Handlers, Submit(h)
      PROVE  /\ UNCHANGED invites
             /\ \A n \in DOMAIN results :
                  /\ n \in DOMAIN results'
                  /\ results'[n] = [results[n] EXCEPT !.state = results'[n].state]
             /\ \A p \in Profiles :
                  best[p] # None /\ best[p] # Nothing /\ best'[p] # best[p] =>
                    type = "personalBest" /\ best'[p] > best[p]
  BY <1>5, SubmitFacts
<1>6. \/ UNCHANGED <<invites, best, results>>
      \/ \E h \in Handlers : CreateInvite(h) \/ AnswerInvite(h) \/ Submit(h)
  <2>1. ASSUME NEW h \in Handlers, Reads(h) PROVE UNCHANGED <<invites, best, results>>
    BY <2>1 DEF Reads, MayInvite, MayAccept, MayDecline, MayCancel, MaySubmit, MayEnd, Decide
  <2>2. Tick \/ (\E p, q \in Profiles : Block(p, q) \/ Unblock(p, q)) \/ UNCHANGED vars
          => UNCHANGED <<invites, best, results>>
    BY DEF Tick, Block, Unblock, vars
  <2>3. ASSUME NEW h \in Handlers, End(h) \/ Abort(h) PROVE UNCHANGED <<invites, best, results>>
    BY <2>3 DEF End, Abort
  <2> QED
    BY <2>1, <2>2, <2>3 DEF Next, Writes
<1> QED
  BY <1>1, <1>2, <1>3, <1>4, <1>5, <1>6 DEF Joined

\* A6, D6: a slot is won once and a personal best only grows.
THEOREM BestsImprove == Spec => BestOnlyImproves
<1>1. Inv /\ [Next]_vars =>
        [\A p \in Joined : best[p] # Nothing /\ best'[p] # best[p] =>
           type = "personalBest" /\ best'[p] > best[p]]_vars
  BY StepFacts
<1> QED
  BY <1>1, Invariance, PTL DEF Spec, BestOnlyImproves

\* D5, A1, A8: an answered invitation keeps its answer, and of a row only the
\* verdict ever changes; A6, D6: a best value only improves.
THEOREM RecordStays == Spec => RecordIsKept
<1>1. Inv /\ [Next]_vars =>
        [\A i \in InviteIds :
           invites[i] # None /\ invites[i].state # "sent" => invites'[i] = invites[i]]_vars
  BY StepFacts
<1>2. Inv /\ [Next]_vars =>
        [\A n \in DOMAIN results :
           /\ n \in DOMAIN results'
           /\ results'[n] = [results[n] EXCEPT !.state = results'[n].state]]_vars
  BY StepFacts
<1>3. Spec => AnsweredOnce
  BY <1>1, Invariance, PTL DEF Spec, AnsweredOnce
<1>4. Spec => RowsAreKept
  BY <1>2, Invariance, PTL DEF Spec, RowsAreKept
<1> QED
  BY <1>3, <1>4, BestsImprove DEF RecordIsKept
=============================================================================
