----------------------------- MODULE Moderation -----------------------------
(***************************************************************************)
(* backend/app/community/moderation/case_service.py and                    *)
(* routers/moderation.py: the cases of the moderation queue, the signals   *)
(* and decisions that move them, and the author's one appeal.              *)
(*                                                                         *)
(* A route reads the case, decides on what it read (an action May...) and  *)
(* commits later.  The ORM writes only the columns whose value differs     *)
(* from the one it loaded, so of two requests that overlap each may keep   *)
(* columns of the other.                                                   *)
(*                                                                         *)
(* Left out: the priority score, which only orders the queue, and the      *)
(* texts of reasons and evidence.  All targets are by one Author.          *)
(***************************************************************************)

EXTENDS Naturals, Sequences, FiniteSets, Requests

CONSTANTS
  Targets, CaseIds,
  Moderators, Author   \* users; the author may be a moderator

VARIABLES
  cases,     \* community_moderation_cases
  log,       \* community_moderation_actions in the order of their ids
  raced      \* history: cases written by a request that had read an older row

vars == <<cases, log, job, raced, requests>>

States == {"visible", "limited", "pending_review", "removed", "author_only"}
Closed == {"removed", "author_only"}
ToReview == {"limited", "pending_review"}   \* where automation may move a case

\* ALLOWED_TRANSITIONS.
Allowed ==
  [s \in States |->
     CASE s = "visible"        -> ToReview
       [] s = "limited"        -> {"visible", "pending_review"} \cup Closed
       [] s = "pending_review" -> {"visible", "limited"} \cup Closed
       [] s = "removed"        -> {"visible", "author_only"}
       [] s = "author_only"    -> {"visible", "removed"}]

Case == [target : Targets, state : States, open : BOOLEAN,
         appeal : {None, "submitted", "resolved"}]

ASSUME ModerationAssumptions ==
  /\ None \notin Targets \cup CaseIds \cup Moderators \cup {Author}
  /\ None \notin {"submitted", "resolved"} \cup Case
  /\ MaxRequests \in Nat

Users == Moderators \cup {Author}

Kinds == {"automation_signal", "moderator_decision", "appeal_submitted", "appeal_resolved"}

Action == [id : CaseIds, kind : Kinds, from : States, to : States, by : Users \cup {None}]

\* seen is the row as the request read it, new the row it means to leave.
Job == [op : Kinds \cup {"idle", "open"}, id : CaseIds \cup {None},
        target : Targets \cup {None}, by : Users \cup {None},
        seen : Case \cup {None}, new : Case \cup {None}]

Idle == [op |-> "idle", id |-> None, target |-> None, by |-> None,
         seen |-> None, new |-> None]

TypeOK ==
  /\ cases \in [CaseIds -> Case \cup {None}]
  /\ log \in Seq(Action)
  /\ job \in [Handlers -> Job]
  /\ raced \subseteq CaseIds
  /\ requests \in 0 .. MaxRequests

Init ==
  /\ cases = [c \in CaseIds |-> None]
  /\ log = << >>
  /\ job = [h \in Handlers |-> Idle]
  /\ raced = {}
  /\ requests = 0

Decide(h, j) ==
  /\ job[h] = Idle /\ requests < MaxRequests
  /\ requests' = requests + 1
  /\ job' = [job EXCEPT ![h] = j]
  /\ UNCHANGED <<cases, log, raced>>

Done(h) == job' = [job EXCEPT ![h] = Idle] /\ UNCHANGED requests

\* A crash before the commit.
Abort(h) ==
  /\ job[h] # Idle /\ Done(h)
  /\ UNCHANGED <<cases, log, raced>>

(***************************************************************************)
(* get_or_create_case.                                                     *)
(***************************************************************************)

OpenCases(t) == { c \in CaseIds : cases[c] # None /\ cases[c].target = t /\ cases[c].open }

MayOpen(h, t) == OpenCases(t) = {} /\ Decide(h, [Idle EXCEPT !.op = "open", !.target = t])

\* The lookup is not repeated and no index is unique.
OpenCase(h) ==
  /\ job[h].op = "open"
  /\ \E c \in CaseIds :
       /\ cases[c] = None
       /\ cases' = [cases EXCEPT ![c] = [target |-> job[h].target, state |-> "visible",
                                         open |-> TRUE, appeal |-> None]]
  /\ Done(h) /\ UNCHANGED <<log, raced>>

(***************************************************************************)
(* What a request may do with the case it has read.                        *)
(***************************************************************************)

Plan(h, op, c, u, new) ==
  Decide(h, [op |-> op, id |-> c, target |-> None, by |-> u,
             seen |-> cases[c], new |-> new])

\* A mutant: a signal of the automation moves any case to review.
SignalAnyCase(h, c, to) ==
  /\ cases[c] # None
  /\ Plan(h, "automation_signal", c, None, [cases[c] EXCEPT !.state = to])

MaySignal(h, c, to) ==
  /\ cases[c] # None /\ to \in Allowed[cases[c].state] \cap ToReview
  /\ Plan(h, "automation_signal", c, None, [cases[c] EXCEPT !.state = to])

\* removed -> visible is reserved for an appeal.
MayDecide(h, c, u, to) ==
  /\ cases[c] # None /\ u \in Moderators
  /\ to \in Allowed[cases[c].state]
  /\ ~(cases[c].state = "removed" /\ to = "visible")
  /\ Plan(h, "moderator_decision", c, u,
          [cases[c] EXCEPT !.state = to, !.open = to \notin Closed])

\* A mutant: the appeal is only checked for being open, not for having been.
AppealAgain(h, c, u) ==
  /\ cases[c] # None /\ cases[c].appeal # "submitted"
  /\ Plan(h, "appeal_submitted", c, u, [cases[c] EXCEPT !.appeal = "submitted"])

MayAppeal(h, c, u) ==
  /\ cases[c] # None /\ cases[c].appeal = None
  /\ Plan(h, "appeal_submitted", c, u, [cases[c] EXCEPT !.appeal = "submitted"])

\* A mutant: the verdict is stored as the state of the appeal.
ResolveTo(h, c, u, verdict) ==
  /\ cases[c] # None /\ u \in Moderators /\ cases[c].appeal = "submitted"
  /\ Plan(h, "appeal_resolved", c, u, [cases[c] EXCEPT !.appeal = verdict])

\* "upheld" grants the appeal.
MayResolve(h, c, u, verdict) ==
  /\ cases[c] # None /\ u \in Moderators /\ cases[c].appeal = "submitted"
  /\ Plan(h, "appeal_resolved", c, u,
          IF verdict = "upheld"
          THEN [cases[c] EXCEPT !.appeal = "resolved", !.state = "visible", !.open = TRUE]
          ELSE [cases[c] EXCEPT !.appeal = "resolved"])

\* A mutant: the UPDATE names every column.
OverwriteRow(row, j) == j.new

\* The UPDATE names the columns that the request has changed.
Changed(new, seen, now) == IF new # seen THEN new ELSE now
Merge(row, j) ==
  [row EXCEPT !.state = Changed(j.new.state, j.seen.state, @),
              !.open = Changed(j.new.open, j.seen.open, @),
              !.appeal = Changed(j.new.appeal, j.seen.appeal, @)]

\* The case and its audit row, in one transaction.
Write(h) ==
  LET j == job[h] IN
  /\ j.op \in Kinds
  /\ cases' = [cases EXCEPT ![j.id] = Merge(@, j)]
  /\ log' = Append(log, [id |-> j.id, kind |-> j.op, from |-> j.seen.state,
                         to |-> j.new.state, by |-> j.by])
  /\ raced' = IF cases[j.id] = j.seen THEN raced ELSE raced \cup {j.id}
  /\ Done(h)

Next ==
  \E h \in Handlers :
    \/ \E t \in Targets : MayOpen(h, t)
    \/ \E c \in CaseIds :
         \/ \E to \in ToReview : MaySignal(h, c, to)
         \/ \E u \in Users, to \in States : MayDecide(h, c, u, to)
         \/ \E u \in Users : MayAppeal(h, c, u)
         \/ \E u \in Users, verdict \in {"upheld", "overturned"} :
              MayResolve(h, c, u, verdict)
    \/ OpenCase(h) \/ Write(h) \/ Abort(h)

Spec == Init /\ [][Next]_vars

(***************************************************************************)
(* Properties.                                                             *)
(***************************************************************************)

RowsOf(c, kind) == { n \in DOMAIN log : log[n].id = c /\ log[n].kind = kind }
Moves(c) == { n \in DOMAIN log : log[n].id = c /\ log[n].from # log[n].to }

\* The audit log explains the state of a case, however its requests overlap: it is
\* the one its latest move says, a closed one was closed by a moderator's decision
\* (D4, D5), and a case that never moved is visible.
AuditExplainsState ==
  \A c \in CaseIds : cases[c] # None =>
    \/ Moves(c) = {} /\ cases[c].state = "visible"
    \/ \E n \in Moves(c) :
         /\ \A k \in Moves(c) : k <= n
         /\ cases[c].state = log[n].to
         /\ (log[n].to \in Closed => log[n].kind = "moderator_decision")

\* The type invariant with it.
Sound == TypeOK /\ AuditExplainsState

\* As long as no request wrote over a row that had changed since it was read, a
\* case is in the queue exactly while it is not closed, and its author appeals
\* once and is answered once (D2, D6).
InOrder ==
  \A c \in CaseIds \ raced : cases[c] # None =>
    LET submitted == Cardinality(RowsOf(c, "appeal_submitted"))
        resolved == Cardinality(RowsOf(c, "appeal_resolved")) IN
    /\ cases[c].open = (cases[c].state \notin Closed)
    /\ submitted = IF cases[c].appeal = None THEN 0 ELSE 1
    /\ resolved = IF cases[c].appeal = "resolved" THEN 1 ELSE 0

\* What a moderator has closed only a moderator releases, by a decision or an
\* upheld appeal, and never the automation, unless it read the case before.
RemovalSticks ==
  [][ \A c \in CaseIds \ raced' :
        cases[c] # None /\ cases[c].state \in Closed /\ cases'[c].state \notin Closed
          => log'[Len(log')].by \in Moderators ]_vars

\* What submit_appeal says: "the appeal is one-per-case".  Refuted: two that overlap both
\* find none.
OneAppealPerCase ==
  \A c \in CaseIds : Cardinality(RowsOf(c, "appeal_submitted")) <= 1
=============================================================================
