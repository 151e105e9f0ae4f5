------------------------------ MODULE Challenges ------------------------------
(***************************************************************************)
(* backend/app/community: one challenge, the invitations to it, and the    *)
(* results its participants submit (services/challenge_invite_service.py,  *)
(* services/challenge_verification_service.py, routers/challenges.py).     *)
(*                                                                         *)
(* As in Clubs, a request reads and decides (an action May...) and later   *)
(* writes and commits; here the writes have conditions of their own.       *)
(* Requests overlap when threads or worker processes do.  The services     *)
(* flush before the route commits, but an UPDATE or an INSERT that touches *)
(* the row or the key of an open transaction waits for it, so that the     *)
(* writes of a request are one step.                                       *)
(***************************************************************************)

EXTENDS Integers, Sequences, FiniteSets

CONSTANTS
  Profiles, InviteIds, Keys, Events,
  Metrics,           \* values a client may submit
  Types,             \* kinds of challenge
  Handlers, None,
  StartsAt, EndsAt,  \* the window of the challenge
  Windows,           \* how long an invitation may be open
  MaxClock, MaxRequests   \* bounds of the model

VARIABLES
  clock,    \* the server's clock
  type,     \* community_challenges.type
  ends,     \* community_challenges.ends_at
  invites,  \* community_challenge_invites
  best,     \* community_challenge_participants: best_metric_value, or no row
  results,  \* community_challenge_results in the order of their ids
  blocked,  \* community_blocks as pairs <<blocker, blocked>>
  job,      \* what each request has decided
  requests

vars == <<clock, type, ends, invites, best, results, blocked, job, requests>>

Invite == [inviter : Profiles, invitee : Profiles, key : Keys \cup {None},
           made : Nat, expires : Nat,
           state : {"sent", "accepted", "declined", "cancelled"}]

Result == [who : Profiles, event : Events, metric : Metrics, at : Nat,
           state : {"verified", "rejected"}]

\* A participant without a verified result has the best value Nothing; a profile
\* without a row, None.
Nothing == -1
Best == Metrics \cup {Nothing, None}

ASSUME ChallengesAssumptions ==
  /\ None \notin Profiles \cup InviteIds \cup Keys \cup Events \cup Metrics
  /\ None \notin Invite \cup {Nothing}
  /\ Metrics \subseteq Nat /\ Windows \subseteq Nat \ {0}
  /\ StartsAt \in Nat /\ EndsAt \in Nat /\ StartsAt < EndsAt
  /\ MaxClock \in Nat /\ MaxRequests \in Nat

Answers == {"accepted", "declined", "cancelled"}
Job == [op : Answers \cup {"idle", "invite", "submit", "end"},
        actor : Profiles \cup {None}, other : Profiles \cup {None},
        item : InviteIds \cup Events \cup {None}, key : Keys \cup {None},
        metric : Metrics \cup {None}, until : Nat, at : Nat, ok : BOOLEAN]

Idle == [op |-> "idle", actor |-> None, other |-> None, item |-> None, key |-> None,
         metric |-> None, until |-> 0, at |-> 0, ok |-> FALSE]

Request(op, p) == [Idle EXCEPT !.op = op, !.actor = p, !.at = clock]

Joined == { p \in Profiles : best[p] # None }

TypeOK ==
  /\ clock \in 0 .. MaxClock
  /\ type \in Types
  /\ ends \in StartsAt + 1 .. EndsAt
  /\ invites \in [InviteIds -> Invite \cup {None}]
  /\ best \in [Profiles -> Best]
  /\ results \in Seq(Result)
  /\ blocked \subseteq Profiles \X Profiles
  /\ job \in [Handlers -> Job]
  /\ requests \in 0 .. MaxRequests

Init ==
  /\ clock = 0
  /\ type \in Types
  /\ ends = EndsAt
  /\ invites = [i \in InviteIds |-> None]
  /\ best = [p \in Profiles |-> None]
  /\ results = << >>
  /\ blocked = {}
  /\ job = [h \in Handlers |-> Idle]
  /\ requests = 0

Decide(h, j) ==
  /\ job[h] = Idle /\ requests < MaxRequests
  /\ requests' = requests + 1
  /\ job' = [job EXCEPT ![h] = j]
  /\ UNCHANGED <<clock, type, ends, invites, best, results, blocked>>

Done(h) == job' = [job EXCEPT ![h] = Idle] /\ UNCHANGED <<clock, type, requests>>

\* A crash before the commit.
Abort(h) ==
  /\ job[h] # Idle /\ Done(h)
  /\ UNCHANGED <<ends, invites, best, results, blocked>>

(***************************************************************************)
(* Invitations.                                                            *)
(***************************************************************************)

BlockedPair(p, q) == <<p, q>> \in blocked \/ <<q, p>> \in blocked

InvitesWithKey(p, q, k) ==
  { i \in InviteIds : /\ k # None /\ invites[i] # None
                      /\ invites[i].inviter = p /\ invites[i].invitee = q
                      /\ invites[i].key = k }

MayInvite(h, p, q, k, window) ==
  /\ p # q /\ clock < ends /\ ~BlockedPair(p, q)
  /\ InvitesWithKey(p, q, k) = {}
  /\ Decide(h, [Request("invite", p) EXCEPT
                  !.other = q, !.key = k, !.until = clock + window])

\* The unique index turns a second INSERT with the key into a read.
CreateInvite(h) ==
  LET j == job[h] IN
  /\ j.op = "invite"
  /\ \/ /\ InvitesWithKey(j.actor, j.other, j.key) # {}
        /\ UNCHANGED invites
     \/ /\ InvitesWithKey(j.actor, j.other, j.key) = {}
        /\ \E i \in InviteIds :
             /\ invites[i] = None
             /\ invites' = [invites EXCEPT ![i] =
                   [inviter |-> j.actor, invitee |-> j.other, key |-> j.key,
                    made |-> j.at, expires |-> j.until, state |-> "sent"]]
  /\ Done(h) /\ UNCHANGED <<ends, best, results, blocked>>

\* other remembers whether the invitee had joined already.
MayAccept(h, p, i) ==
  /\ invites[i] # None /\ invites[i].invitee = p
  /\ ~BlockedPair(p, invites[i].inviter)
  /\ invites[i].expires > clock
  /\ Decide(h, [Request("accepted", p) EXCEPT !.item = i, !.ok = best[p] # None])

MayDecline(h, p, i) ==
  /\ invites[i] # None /\ invites[i].invitee = p
  /\ Decide(h, [Request("declined", p) EXCEPT !.item = i])

MayCancel(h, p, i) ==
  /\ invites[i] # None /\ invites[i].inviter = p
  /\ Decide(h, [Request("cancelled", p) EXCEPT !.item = i])

Answer(i, state) == invites' = [invites EXCEPT ![i].state = state]

\* Mutants: the UPDATE without its condition on the state; an acceptance that
\* waits for another page to insert the participant.
AnswerAnyInvite(h) ==
  LET j == job[h] IN
  /\ j.op \in Answers
  /\ Answer(j.item, j.op)
  /\ best' = [best EXCEPT ![j.actor] =
                IF @ = None /\ j.op = "accepted" THEN Nothing ELSE @]
  /\ Done(h) /\ UNCHANGED <<ends, results, blocked>>
AnswerKeepingWhoJoined(h) ==
  LET j == job[h] IN
  /\ j.op \in Answers
  /\ IF invites[j.item].state = "sent" THEN Answer(j.item, j.op) ELSE UNCHANGED invites
  /\ best' = IF j.op = "accepted" /\ ~j.ok
             THEN [best EXCEPT ![j.actor] = Nothing] ELSE best
  /\ Done(h) /\ UNCHANGED <<ends, results, blocked>>

\* The UPDATE hits only an invitation that is still open.  One that is accepted
\* gets its participant in the same transaction; when the row appears after it
\* was looked for, the INSERT fails and the whole transaction is rolled back.
AnswerInvite(h) ==
  LET j == job[h] IN
  /\ j.op \in Answers
  /\ \/ /\ invites[j.item].state # "sent"
        /\ UNCHANGED <<invites, best>>
     \/ /\ invites[j.item].state = "sent" /\ j.op # "accepted"
        /\ Answer(j.item, j.op) /\ UNCHANGED best
     \/ /\ invites[j.item].state = "sent" /\ j.op = "accepted"
        /\ Answer(j.item, j.op)
        /\ best' = [best EXCEPT ![j.actor] = IF @ = None THEN Nothing ELSE @]
     \/ /\ invites[j.item].state = "sent" /\ j.op = "accepted"
        /\ ~j.ok /\ best[j.actor] # None
        /\ UNCHANGED <<invites, best>>
  /\ Done(h) /\ UNCHANGED <<ends, results, blocked>>

(***************************************************************************)
(* Results.                                                                *)
(***************************************************************************)

Rows(p, e) == { n \in DOMAIN results : results[n].who = p /\ results[n].event = e }

\* The newest invitation addressed to p, whoever sent it; any of those made at
\* the same instant.
Newest(p) ==
  { i \in InviteIds :
      /\ invites[i] # None /\ invites[i].invitee = p
      /\ \A k \in InviteIds : invites[k] # None /\ invites[k].invitee = p
                              => invites[k].made <= invites[i].made }

\* The chain of policies/integrity_policy.py, but for the first-wins claim.
Acceptable(p, i, m, stated) ==
  /\ ~stated
  /\ StartsAt <= clock /\ clock <= ends
  /\ invites[i].state = "accepted"
  /\ type = "personalBest" /\ best[p] # Nothing => m > best[p]

\* stated: the body names the challenge's version, a field the route accepts and
\* the chain does not trust.  A result that is there already is the answer, and
\* the request changes nothing.
MaySubmit(h, p, e, m, stated) ==
  /\ p \in Joined /\ Rows(p, e) = {}
  /\ \E i \in Newest(p) :
       Decide(h, [Request("submit", p) EXCEPT
                    !.item = e, !.metric = m, !.ok = Acceptable(p, i, m, stated)])

\* The first-wins slot is claimed by a conditional UPDATE.
Claimed(j) == j.ok /\ (type # "personalBest" => best[j.actor] = Nothing)
Verdict(j) == IF Claimed(j) THEN "verified" ELSE "rejected"

\* A mutant: the last verified submission counts, not the best one.
Latest(j) == j.metric

Better(j) == IF best[j.actor] = Nothing \/ best[j.actor] < j.metric
             THEN j.metric ELSE best[j.actor]

\* A mutant: no unique index on the participant and the event.
InsertAlways(j) ==
  /\ results' = Append(results, [who |-> j.actor, event |-> j.item,
                                 metric |-> j.metric, at |-> j.at,
                                 state |-> Verdict(j)])
  /\ best' = [best EXCEPT ![j.actor] = IF Claimed(j) THEN Better(j) ELSE @]

\* A fresh row, with its verdict.
InsertResult(j) ==
  /\ Rows(j.actor, j.item) = {}
  /\ results' = Append(results, [who |-> j.actor, event |-> j.item,
                                 metric |-> j.metric, at |-> j.at,
                                 state |-> Verdict(j)])
  /\ best' = [best EXCEPT ![j.actor] = IF Claimed(j) THEN Better(j) ELSE @]

\* Mutants: the row that was found takes the new value as well; the claim
\* survives the failed INSERT.
OverwriteRow(j) ==
  /\ results' = [n \in DOMAIN results |->
                   IF n \in Rows(j.actor, j.item)
                   THEN [results[n] EXCEPT !.state = Verdict(j), !.metric = j.metric]
                   ELSE results[n]]
  /\ best' = [best EXCEPT ![j.actor] =
                IF Claimed(j) /\ type = "personalBest" THEN Better(j) ELSE @]
OverwriteKeepingClaim(j) ==
  /\ results' = [n \in DOMAIN results |->
                   IF n \in Rows(j.actor, j.item)
                   THEN [results[n] EXCEPT !.state = Verdict(j)]
                   ELSE results[n]]
  /\ best' = [best EXCEPT ![j.actor] = IF Claimed(j) THEN Better(j) ELSE @]

\* A row that was inserted since the probe.  The failed INSERT rolls the claim
\* back, yet the verdict is written on the row that was found.
OverwriteVerdict(j) ==
  /\ results' = [n \in DOMAIN results |->
                   IF n \in Rows(j.actor, j.item)
                   THEN [results[n] EXCEPT !.state = Verdict(j)]
                   ELSE results[n]]
  /\ best' = [best EXCEPT ![j.actor] =
                IF Claimed(j) /\ type = "personalBest" THEN Better(j) ELSE @]

Submit(h) ==
  LET j == job[h] IN
  /\ j.op = "submit"
  /\ \/ InsertResult(j)
     \/ Rows(j.actor, j.item) # {} /\ OverwriteVerdict(j)
  /\ Done(h) /\ UNCHANGED <<ends, invites, blocked>>

(***************************************************************************)
(* A moderator ends a club's challenge; the block service; time.           *)
(***************************************************************************)

MayEnd(h, p) ==
  /\ type = "club" /\ StartsAt <= clock /\ clock < ends
  /\ Decide(h, Request("end", p))

\* At the very start the window would be empty, which a CHECK refuses.
End(h) ==
  LET j == job[h] IN
  /\ j.op = "end" /\ StartsAt < j.at
  /\ ends' = j.at
  /\ Done(h) /\ UNCHANGED <<invites, best, results, blocked>>

Outside == requests < MaxRequests /\ requests' = requests + 1

Block(p, q) ==
  /\ p # q /\ <<p, q>> \notin blocked /\ blocked' = blocked \cup {<<p, q>>}
  /\ Outside /\ UNCHANGED <<clock, type, ends, invites, best, results, job>>

Unblock(p, q) ==
  /\ <<p, q>> \in blocked /\ blocked' = blocked \ {<<p, q>>}
  /\ Outside /\ UNCHANGED <<clock, type, ends, invites, best, results, job>>

Tick ==
  /\ clock < MaxClock /\ clock' = clock + 1
  /\ UNCHANGED <<type, ends, invites, best, results, blocked, job, requests>>

Reads(h) ==
  \/ \E p, q \in Profiles, k \in Keys \cup {None}, w \in Windows :
        MayInvite(h, p, q, k, w)
  \/ \E p \in Profiles, i \in InviteIds :
        MayAccept(h, p, i) \/ MayDecline(h, p, i) \/ MayCancel(h, p, i)
  \/ \E p \in Profiles, e \in Events, m \in Metrics, stated \in BOOLEAN :
        MaySubmit(h, p, e, m, stated)
  \/ \E p \in Profiles : MayEnd(h, p)

Writes(h) == CreateInvite(h) \/ AnswerInvite(h) \/ Submit(h) \/ End(h)

Next ==
  \/ Tick
  \/ \E p, q \in Profiles : Block(p, q) \/ Unblock(p, q)
  \/ \E h \in Handlers : Reads(h) \/ Writes(h) \/ Abort(h)

Spec == Init /\ [][Next]_vars

(***************************************************************************)
(* Properties.                                                             *)
(***************************************************************************)

\* An answered invitation keeps its answer: of an acceptance and a cancellation
\* that overlap exactly one succeeds (D5).
AnsweredOnce ==
  [][ \A i \in InviteIds :
        invites[i] # None /\ invites[i].state # "sent" => invites'[i] = invites[i] ]_vars

\* The participants are exactly the profiles with an accepted invitation, also
\* when two invitations of one profile are accepted at the same time.
JoinedByAccepting ==
  Joined = { p \in Profiles :
               \E i \in InviteIds : /\ invites[i] # None
                                    /\ invites[i].invitee = p
                                    /\ invites[i].state = "accepted" }

\* One practice event leaves at most one row per participant, over retries that
\* overlap, and rows are a record: only the verdict ever changes (A1, A8).
OneRowPerEvent ==
  \A m, n \in DOMAIN results :
    results[m].who = results[n].who /\ results[m].event = results[n].event => m = n
RowsAreKept ==
  [][ \A n \in DOMAIN results :
        /\ n \in DOMAIN results'
        /\ results'[n] = [results[n] EXCEPT !.state = results'[n].state] ]_vars

\* A best value is set once in a first-wins challenge and only ever improves in
\* a personal-best one, however submissions overlap (A6, D6).
BestOnlyImproves ==
  [][ \A p \in Joined : best[p] # Nothing /\ best'[p] # best[p] =>
        type = "personalBest" /\ best'[p] > best[p] ]_vars

\* What was recorded stays: no step that works on what it read earlier takes an
\* answer, a row or a best value back.
RecordIsKept == AnsweredOnce /\ RowsAreKept /\ BestOnlyImproves

\* In a first-wins challenge the value that won was submitted: a claim never
\* outlives the row it was made for, whichever of two inserts comes second.
ClaimHasRow ==
  type # "personalBest" => \A p \in Joined : best[p] # Nothing =>
    \E n \in DOMAIN results : results[n].who = p /\ results[n].metric = best[p]

\* Both, with the type invariant.
Sound == TypeOK /\ ClaimHasRow /\ OneRowPerEvent
=============================================================================
