---------------------------- MODULE Content_proofs ---------------------------
(***************************************************************************)
(* Proofs about what users publish, for any number of uploads, rows, cases *)
(* and of requests that overlap: Moderation, MediaUpload and MediaStore, in*)
(* this order.  The three have disjoint names and share the requests.      *)
(***************************************************************************)
EXTENDS Moderation, MediaUpload, MediaStore, FiniteSetTheorems, TLAPS

(***************************************************************************)
(* Moderation: the audit log explains every case, a case whose requests did*)
(* not run into each other is in order, and a removal sticks.              *)
(***************************************************************************)

\* What a request has planned, seen from the row it had read.
PlannedBy(j) ==
  /\ j.id \in CaseIds /\ cases[j.id] # None
  /\ j.seen \in Case /\ j.new \in Case
  /\ j.op = "automation_signal" =>
       /\ j.seen.state \notin Closed /\ j.new.state \in ToReview
       /\ j.new.open = j.seen.open /\ j.new.appeal = j.seen.appeal
  /\ j.op = "moderator_decision" =>
       /\ j.by \in Moderators /\ j.new.appeal = j.seen.appeal
       /\ j.new.open = (j.new.state \notin Closed)
  /\ j.op = "appeal_submitted" =>
       /\ j.seen.appeal = None /\ j.new.appeal = "submitted"
       /\ j.new.state = j.seen.state /\ j.new.open = j.seen.open
  /\ j.op = "appeal_resolved" =>
       /\ j.by \in Moderators
       /\ j.seen.appeal = "submitted" /\ j.new.appeal = "resolved"
       /\ \/ j.new.state = j.seen.state /\ j.new.open = j.seen.open
          \/ j.new.state = "visible" /\ j.new.open = TRUE

Planned ==
  \A h \in Handlers :
    /\ job[h].op \in Kinds => PlannedBy(job[h])
    /\ job[h].op = "open" => job[h].target \in Targets

\* Only a case that is there has a log.
Logged == \A n \in DOMAIN log : cases[log[n].id] # None

Inv == TypeOK /\ Planned /\ Logged /\ AuditExplainsState /\ InOrder

LEMMA NoCaseIsNone == None \notin Case
  BY ModerationAssumptions

\* Case and log alone determine the properties.
LEMMA SameRows ==
  ASSUME Inv, UNCHANGED <<cases, log, raced>>
  PROVE  Logged' /\ AuditExplainsState' /\ InOrder'
<1>1. Logged'
  BY DEF Inv, Logged
<1>2. \A c, kind : Moves(c)' = Moves(c) /\ RowsOf(c, kind)' = RowsOf(c, kind)
  BY DEF Moves, RowsOf
<1>3. AuditExplainsState'
  BY <1>2 DEF Inv, AuditExplainsState
<1>4. InOrder'
  BY <1>2 DEF Inv, InOrder
<1> QED
  BY <1>1, <1>3, <1>4

LEMMA IdleFacts ==
  /\ Idle \in Job /\ Idle.op = "idle" /\ "idle" \notin Kinds /\ "open" \notin Kinds
  BY DEF Idle, Job, Kinds

LEMMA RowsFinite ==
  ASSUME log \in Seq(Action), NEW c, NEW kind
  PROVE  /\ IsFiniteSet(RowsOf(c, kind)) /\ Len(log) + 1 \notin RowsOf(c, kind)
         /\ Cardinality(RowsOf(c, kind)) \in Nat
<1>1. DOMAIN log = 1 .. Len(log) /\ Len(log) \in Nat
  OBVIOUS
<1>2. IsFiniteSet(1 .. Len(log))
  BY <1>1, FS_Interval
<1>3. RowsOf(c, kind) \subseteq 1 .. Len(log)
  BY <1>1 DEF RowsOf
<1> QED
  BY <1>1, <1>2, <1>3, FS_Subset, FS_CardinalityType

LEMMA InitInv == Init => Inv
<1> SUFFICES ASSUME Init PROVE Inv
  OBVIOUS
<1>1. log \in Seq(Action) /\ DOMAIN log = {}
  BY DEF Init
<1>2. TypeOK
  BY <1>1, IdleFacts, ModerationAssumptions DEF Init, TypeOK
<1>3. Planned
  BY IdleFacts DEF Init, Planned
<1> QED
  BY <1>1, <1>2, <1>3 DEF Init, Inv, Logged, AuditExplainsState, InOrder

\* A request that has only read changes nothing but its plan.
LEMMA PlanInv ==
  ASSUME Inv, NEW h \in Handlers, NEW j \in Job, Decide(h, j),
         j.op \in Kinds => PlannedBy(j), j.op = "open" => j.target \in Targets
  PROVE  Inv'
<1>1. UNCHANGED <<cases, log, raced>> /\ job' = [job EXCEPT ![h] = j]
  BY DEF Decide
<1>2. TypeOK'
  BY <1>1, ModerationAssumptions DEF Decide, Inv, TypeOK
<1>3. Planned'
  BY <1>1 DEF Inv, Planned, PlannedBy, TypeOK
<1> QED
  BY <1>1, <1>2, <1>3, SameRows DEF Inv

LEMMA DoneFacts ==
  ASSUME TypeOK, NEW h \in Handlers, Done(h)
  PROVE  /\ job' \in [Handlers -> Job] /\ job'[h] = Idle
         /\ \A g \in Handlers \ {h} : job'[g] = job[g]
         /\ requests' = requests
  BY IdleFacts DEF Done, TypeOK

LEMMA AbortInv ==
  ASSUME Inv, NEW h \in Handlers, Abort(h)
  PROVE  Inv'
<1>1. UNCHANGED <<cases, log, raced>>
  BY DEF Abort
<1>2. TypeOK' /\ Planned'
  BY <1>1, DoneFacts, IdleFacts DEF Abort, Inv, TypeOK, Planned, PlannedBy
<1> QED
  BY <1>1, <1>2, SameRows DEF Inv

LEMMA OpenCaseInv ==
  ASSUME Inv, NEW h \in Handlers, OpenCase(h)
  PROVE  Inv'
<1>1. PICK c \in CaseIds :
        /\ cases[c] = None
        /\ cases' = [cases EXCEPT ![c] = [target |-> job[h].target, state |-> "visible",
                                          open |-> TRUE, appeal |-> None]]
  BY DEF OpenCase
<1> DEFINE row == [target |-> job[h].target, state |-> "visible",
                   open |-> TRUE, appeal |-> None]
<1>2. UNCHANGED <<log, raced>> /\ Done(h)
  BY DEF OpenCase
<1>3. /\ row \in Case /\ row # None
      /\ row.state = "visible" /\ row.open = TRUE /\ row.appeal = None
  <2>1. job[h].target \in Targets
    BY DEF OpenCase, Inv, Planned
  <2>2. row \in Case
    BY <2>1 DEF Case, States
  <2> QED
    BY <2>2, NoCaseIsNone
<1>4. cases'[c] = row /\ (\A d \in CaseIds \ {c} : cases'[d] = cases[d])
      /\ cases' \in [CaseIds -> Case \cup {None}]
  BY <1>1, <1>3 DEF Inv, TypeOK
<1> HIDE DEF row
<1>5. TypeOK'
  BY <1>2, <1>4, DoneFacts DEF Inv, TypeOK
<1>6. \A d \in CaseIds : cases[d] # None => cases'[d] # None
  BY <1>1, <1>4
<1>7. Planned'
  BY <1>2, <1>6, DoneFacts, IdleFacts DEF Inv, Planned, PlannedBy
<1>8. \A n \in DOMAIN log : log[n].id \in CaseIds /\ log[n].id # c
  <2>1. \A n \in DOMAIN log : log[n] \in Action
    BY DEF Inv, TypeOK
  <2> QED
    BY <2>1, <1>1 DEF Inv, Logged, Action
<1>9. Logged'
  BY <1>2, <1>6, <1>8 DEF Inv, Logged
<1>10. Moves(c) = {} /\ (\A kind : RowsOf(c, kind) = {})
  BY <1>8 DEF Moves, RowsOf
<1>11. \A d, kind : Moves(d)' = Moves(d) /\ RowsOf(d, kind)' = RowsOf(d, kind)
  BY <1>2 DEF Moves, RowsOf
<1>12. AuditExplainsState'
  BY <1>2, <1>3, <1>4, <1>10, <1>11 DEF Inv, AuditExplainsState
<1>13. InOrder'
  <2>1. \A kind : Cardinality(RowsOf(c, kind)') = 0
    BY <1>10, <1>11, FS_EmptySet
  <2>2. SUFFICES ASSUME NEW d \in CaseIds \ raced, cases'[d] # None
                 PROVE  /\ cases'[d].open = (cases'[d].state \notin Closed)
                        /\ Cardinality(RowsOf(d, "appeal_submitted")')
                             = IF cases'[d].appeal = None THEN 0 ELSE 1
                        /\ Cardinality(RowsOf(d, "appeal_resolved")')
                             = IF cases'[d].appeal = "resolved" THEN 1 ELSE 0
    BY <1>2 DEF InOrder
  <2>3. CASE d = c
    BY <2>1, <2>3, <1>3, <1>4, ModerationAssumptions DEF Closed
  <2>4. CASE d # c
    BY <2>2, <2>4, <1>4, <1>11 DEF Inv, InOrder
  <2> QED
    BY <2>3, <2>4
<1> QED
  BY <1>5, <1>7, <1>9, <1>12, <1>13 DEF Inv

(***************************************************************************)
(* The write of a case and its log entry                                   *)
(***************************************************************************)

Entry(j) == [id |-> j.id, kind |-> j.op, from |-> j.seen.state,
             to |-> j.new.state, by |-> j.by]

\* What Write leaves, in terms of the plan it carries out.
LEMMA WriteFacts ==
  ASSUME Inv, NEW h \in Handlers, Write(h), NEW j, j = job[h]
  PROVE  /\ j \in Job /\ j.op \in Kinds /\ PlannedBy(j)
         /\ cases' \in [CaseIds -> Case \cup {None}] /\ cases'[j.id] \in Case
         /\ cases'[j.id].state
              = IF j.new.state # j.seen.state THEN j.new.state ELSE cases[j.id].state
         /\ cases[j.id] = j.seen =>
              /\ cases'[j.id].state = j.new.state
              /\ cases'[j.id].open = j.new.open
              /\ cases'[j.id].appeal = j.new.appeal
         /\ \A c \in CaseIds \ {j.id} : cases'[c] = cases[c]
         /\ Entry(j) \in Action
         /\ log' = Append(log, Entry(j))
         /\ raced' = IF cases[j.id] = j.seen THEN raced ELSE raced \cup {j.id}
         /\ Done(h)
<1>1. j \in Job /\ j.op \in Kinds /\ PlannedBy(j)
  BY DEF Write, Inv, TypeOK, Planned
<1>2. cases[j.id] \in Case /\ j.id \in CaseIds
  BY <1>1 DEF PlannedBy, Inv, TypeOK
<1>3. /\ Merge(cases[j.id], j) \in Case
      /\ Merge(cases[j.id], j).state = Changed(j.new.state, j.seen.state, cases[j.id].state)
      /\ Merge(cases[j.id], j).open = Changed(j.new.open, j.seen.open, cases[j.id].open)
      /\ Merge(cases[j.id], j).appeal = Changed(j.new.appeal, j.seen.appeal, cases[j.id].appeal)
  BY <1>1, <1>2 DEF Merge, Changed, Case, PlannedBy
<1>4. cases' = [cases EXCEPT ![j.id] = Merge(cases[j.id], j)]
  BY DEF Write
<1>5. /\ cases' \in [CaseIds -> Case \cup {None}] /\ cases'[j.id] = Merge(cases[j.id], j)
      /\ \A c \in CaseIds \ {j.id} : cases'[c] = cases[c]
  BY <1>2, <1>3, <1>4 DEF Inv, TypeOK
<1>6. Entry(j) \in Action
  BY <1>1 DEF Entry, Action, Job, PlannedBy, Case
<1>7. log' = Append(log, Entry(j))
  BY DEF Write, Entry
<1> QED
  BY <1>1, <1>3, <1>5, <1>6, <1>7 DEF Write, Changed

LEMMA LogGrows ==
  ASSUME log \in Seq(Action), NEW e \in Action, log' = Append(log, e)
  PROVE  /\ log' \in Seq(Action) /\ Len(log) \in Nat
         /\ DOMAIN log = 1 .. Len(log)
         /\ DOMAIN log' = 1 .. Len(log) + 1 /\ Len(log') = Len(log) + 1
         /\ log'[Len(log) + 1] = e
         /\ \A n \in DOMAIN log : log'[n] = log[n]
  OBVIOUS

LEMMA WriteInv ==
  ASSUME Inv, NEW h \in Handlers, Write(h)
  PROVE  Inv'
<1>0. PICK j : j = job[h]
  OBVIOUS
<1> DEFINE e == Entry(j)
           N == Len(log) + 1
<1>1. /\ j \in Job /\ j.op \in Kinds /\ PlannedBy(j)
      /\ cases' \in [CaseIds -> Case \cup {None}] /\ cases'[j.id] \in Case
      /\ cases'[j.id].state
           = IF j.new.state # j.seen.state THEN j.new.state ELSE cases[j.id].state
      /\ cases[j.id] = j.seen =>
           /\ cases'[j.id].state = j.new.state
           /\ cases'[j.id].open = j.new.open
           /\ cases'[j.id].appeal = j.new.appeal
      /\ \A c \in CaseIds \ {j.id} : cases'[c] = cases[c]
      /\ e \in Action
      /\ log' = Append(log, e)
      /\ raced' = IF cases[j.id] = j.seen THEN raced ELSE raced \cup {j.id}
      /\ Done(h)
  BY <1>0, WriteFacts
<1>2. /\ e.id = j.id /\ e.kind = j.op /\ e.from = j.seen.state /\ e.to = j.new.state
      /\ e.by = j.by
  BY DEF Entry
<1>3. /\ log' \in Seq(Action) /\ Len(log) \in Nat
      /\ DOMAIN log = 1 .. Len(log) /\ DOMAIN log' = 1 .. N
      /\ log'[N] = e /\ \A n \in DOMAIN log : log'[n] = log[n]
  BY <1>1, LogGrows DEF Inv, TypeOK
<1>4. j.id \in CaseIds /\ cases[j.id] # None /\ cases'[j.id] # None
  BY <1>1, NoCaseIsNone DEF PlannedBy
<1> HIDE DEF e
<1>5. TypeOK'
  BY <1>1, <1>3, <1>4, DoneFacts DEF Inv, TypeOK
<1>6. \A c \in CaseIds : cases[c] # None => cases'[c] # None
  BY <1>1, <1>4
<1>7. Planned'
  BY <1>1, <1>6, DoneFacts, IdleFacts DEF Inv, Planned, PlannedBy
<1>8. Logged'
  <2>1. \A n \in DOMAIN log : log[n].id \in CaseIds
    <3>1. \A n \in DOMAIN log : log[n] \in Action
      BY DEF Inv, TypeOK
    <3> QED
      BY <3>1 DEF Action
  <2>2. \A n \in DOMAIN log' : n = N \/ n \in DOMAIN log
    BY <1>3
  <2> QED
    BY <2>1, <2>2, <1>2, <1>3, <1>4, <1>6 DEF Inv, Logged
<1>14. N \in Nat /\ N \notin DOMAIN log /\ DOMAIN log' = DOMAIN log \cup {N}
  BY <1>3
<1>9. \A c \in CaseIds \ {j.id} :
        Moves(c)' = Moves(c) /\ \A kind : RowsOf(c, kind)' = RowsOf(c, kind)
  BY <1>2, <1>3, <1>14 DEF Moves, RowsOf
<1>10. \A kind : RowsOf(j.id, kind)'
                   = IF j.op = kind THEN RowsOf(j.id, kind) \cup {N} ELSE RowsOf(j.id, kind)
  <2> SUFFICES ASSUME NEW kind
               PROVE  RowsOf(j.id, kind)'
                        = IF j.op = kind THEN RowsOf(j.id, kind) \cup {N} ELSE RowsOf(j.id, kind)
    OBVIOUS
  <2> SUFFICES ASSUME NEW n
               PROVE  n \in RowsOf(j.id, kind)' <=>
                        n \in IF j.op = kind THEN RowsOf(j.id, kind) \cup {N}
                              ELSE RowsOf(j.id, kind)
    OBVIOUS
  <2>1. CASE n = N
    BY <2>1, <1>2, <1>3, <1>14 DEF RowsOf
  <2>2. CASE n # N
    BY <2>2, <1>3, <1>14 DEF RowsOf
  <2> QED
    BY <2>1, <2>2
<1>11. Moves(j.id)' = IF j.new.state # j.seen.state THEN Moves(j.id) \cup {N} ELSE Moves(j.id)
  <2> SUFFICES ASSUME NEW n
               PROVE  n \in Moves(j.id)' <=>
                        n \in IF j.new.state # j.seen.state THEN Moves(j.id) \cup {N}
                              ELSE Moves(j.id)
    OBVIOUS
  <2>1. CASE n = N
    BY <2>1, <1>2, <1>3, <1>14 DEF Moves
  <2>2. CASE n # N
    BY <2>2, <1>3, <1>14 DEF Moves
  <2> QED
    BY <2>1, <2>2
<1>12. AuditExplainsState'
  <2> SUFFICES ASSUME NEW c \in CaseIds, cases'[c] # None
               PROVE  \/ Moves(c)' = {} /\ cases'[c].state = "visible"
                      \/ \E n \in Moves(c)' :
                           /\ \A k \in Moves(c)' : k <= n
                           /\ cases'[c].state = log'[n].to
                           /\ (log'[n].to \in Closed => log'[n].kind = "moderator_decision")
    BY DEF AuditExplainsState
  <2>0. \A n \in Moves(c) : n \in DOMAIN log
    BY DEF Moves
  <2>1. CASE c # j.id
    BY <2>0, <2>1, <1>1, <1>3, <1>9 DEF Inv, AuditExplainsState
  <2>2. CASE c = j.id /\ j.new.state = j.seen.state
    <3>1. Moves(c)' = Moves(c) /\ cases'[c].state = cases[c].state /\ cases[c] # None
      BY <2>2, <1>1, <1>4, <1>11
    <3>2. \A n \in Moves(c) : log'[n] = log[n]
      BY <2>0, <1>3
    <3> QED
      BY <3>1, <3>2 DEF Inv, AuditExplainsState
  <2>3. CASE c = j.id /\ j.new.state # j.seen.state
    <3>1. N \in Moves(c)' /\ \A k \in Moves(c)' : k <= N
      <4>1. Moves(c)' = Moves(c) \cup {N}
        BY <2>3, <1>11
      <4>2. \A k \in Moves(c) : k <= N
        BY <2>0, <1>3
      <4> QED
        BY <4>1, <4>2, <1>14
    <3>2. cases'[c].state = log'[N].to
      BY <2>3, <1>1, <1>2, <1>3
    <3>3. log'[N].to \in Closed => log'[N].kind = "moderator_decision"
      BY <2>3, <1>1, <1>2, <1>3 DEF PlannedBy, Kinds, Closed, ToReview
    <3> QED
      BY <3>1, <3>2, <3>3
  <2> QED
    BY <2>1, <2>2, <2>3
<1>13. InOrder'
  <2> SUFFICES ASSUME NEW c \in CaseIds \ raced', cases'[c] # None
               PROVE  /\ cases'[c].open = (cases'[c].state \notin Closed)
                      /\ Cardinality(RowsOf(c, "appeal_submitted")')
                           = IF cases'[c].appeal = None THEN 0 ELSE 1
                      /\ Cardinality(RowsOf(c, "appeal_resolved")')
                           = IF cases'[c].appeal = "resolved" THEN 1 ELSE 0
    BY DEF InOrder
  <2>1. c \notin raced
    BY <1>1
  <2>2. CASE c # j.id
    BY <2>1, <2>2, <1>1, <1>9 DEF Inv, InOrder
  <2>3. CASE c = j.id
    <3>1. cases[c] = j.seen /\ cases[c] # None
      BY <2>3, <1>1, <1>4
    <3>2. /\ j.seen.open = (j.seen.state \notin Closed)
          /\ Cardinality(RowsOf(c, "appeal_submitted")) = IF j.seen.appeal = None THEN 0 ELSE 1
          /\ Cardinality(RowsOf(c, "appeal_resolved"))
               = IF j.seen.appeal = "resolved" THEN 1 ELSE 0
      BY <2>1, <3>1 DEF Inv, InOrder
    <3>3. /\ cases'[c].state = j.new.state /\ cases'[c].open = j.new.open
          /\ cases'[c].appeal = j.new.appeal
      BY <2>3, <3>1, <1>1
    <3>4. \A kind : Cardinality(RowsOf(c, kind)')
                      = IF j.op = kind THEN Cardinality(RowsOf(c, kind)) + 1
                        ELSE Cardinality(RowsOf(c, kind))
      <4> SUFFICES ASSUME NEW kind
                   PROVE  Cardinality(RowsOf(c, kind)')
                            = IF j.op = kind THEN Cardinality(RowsOf(c, kind)) + 1
                              ELSE Cardinality(RowsOf(c, kind))
        OBVIOUS
      <4>1. IsFiniteSet(RowsOf(c, kind)) /\ N \notin RowsOf(c, kind)
        BY RowsFinite DEF Inv, TypeOK
      <4>2. Cardinality(RowsOf(c, kind) \cup {N}) = Cardinality(RowsOf(c, kind)) + 1
        BY <4>1, FS_AddElement
      <4> QED
        <5>1. RowsOf(c, kind)' = IF j.op = kind THEN RowsOf(c, kind) \cup {N} ELSE RowsOf(c, kind)
          BY <2>3, <1>10
        <5>2. CASE j.op = kind
          <6>1. RowsOf(c, kind)' = RowsOf(c, kind) \cup {N}
            BY <5>1, <5>2
          <6> QED
            BY <6>1, <5>2, <4>2
        <5>3. CASE j.op # kind
          <6>1. RowsOf(c, kind)' = RowsOf(c, kind)
            BY <5>1, <5>3
          <6> QED
            BY <6>1, <5>3
        <5> QED
          BY <5>2, <5>3
    <3>5. cases'[c].open = (cases'[c].state \notin Closed)
      BY <3>2, <3>3, <1>1 DEF PlannedBy, Kinds, Closed, ToReview
    <3>6. CASE j.op \in {"automation_signal", "moderator_decision"}
      BY <3>2, <3>3, <3>4, <3>5, <3>6, <1>1 DEF PlannedBy
    <3>7. CASE j.op = "appeal_submitted"
      BY <3>2, <3>3, <3>4, <3>5, <3>7, <1>1, ModerationAssumptions DEF PlannedBy
    <3>8. CASE j.op = "appeal_resolved"
      BY <3>2, <3>3, <3>4, <3>5, <3>8, <1>1, ModerationAssumptions DEF PlannedBy
    <3> QED
      BY <3>6, <3>7, <3>8, <1>1 DEF Kinds
  <2> QED
    BY <2>2, <2>3
<1> QED
  BY <1>5, <1>7, <1>8, <1>12, <1>13 DEF Inv

(***************************************************************************)
(* What a request may plan                                                 *)
(***************************************************************************)

LEMMA MayInv ==
  ASSUME Inv, NEW h \in Handlers, NEW c \in CaseIds, cases[c] # None, NEW op \in Kinds,
         NEW u \in Users \cup {None}, NEW new \in Case, Plan(h, op, c, u, new),
         PlannedBy([op |-> op, id |-> c, target |-> None, by |-> u,
                    seen |-> cases[c], new |-> new])
  PROVE  Inv'
<1> DEFINE j == [op |-> op, id |-> c, target |-> None, by |-> u,
                 seen |-> cases[c], new |-> new]
<1>1. j \in Job /\ j.op = op
  BY DEF Job, Inv, TypeOK
<1>2. Decide(h, j) /\ PlannedBy(j)
  BY DEF Plan
<1> HIDE DEF j
<1> QED
  BY <1>1, <1>2, PlanInv, IdleFacts

LEMMA MayOpenInv ==
  ASSUME Inv, NEW h \in Handlers, NEW t \in Targets, MayOpen(h, t)
  PROVE  Inv'
<1> DEFINE j == [Idle EXCEPT !.op = "open", !.target = t]
<1>1. j \in Job /\ j.op = "open" /\ j.target = t
  BY DEF Idle, Job
<1>2. Decide(h, j)
  BY DEF MayOpen
<1> HIDE DEF j
<1> QED
  BY <1>1, <1>2, PlanInv, IdleFacts

LEMMA MaySignalInv ==
  ASSUME Inv, NEW h \in Handlers, NEW c \in CaseIds, NEW to \in ToReview, MaySignal(h, c, to)
  PROVE  Inv'
<1> DEFINE new == [cases[c] EXCEPT !.state = to]
<1>1. cases[c] \in Case /\ cases[c] # None /\ cases[c].state \notin Closed
  BY DEF MaySignal, Inv, TypeOK, Case, Allowed, States, Closed, ToReview
<1>2. /\ new \in Case /\ new.state = to /\ new.open = cases[c].open
      /\ new.appeal = cases[c].appeal
  BY <1>1 DEF Case, ToReview, States
<1>3. Plan(h, "automation_signal", c, None, new) /\ "automation_signal" \in Kinds
  BY DEF MaySignal, Kinds
<1> HIDE DEF new
<1>4. PlannedBy([op |-> "automation_signal", id |-> c, target |-> None, by |-> None,
                 seen |-> cases[c], new |-> new])
  BY <1>1, <1>2 DEF PlannedBy
<1> QED
  BY <1>1, <1>2, <1>3, <1>4, MayInv

LEMMA MayDecideInv ==
  ASSUME Inv, NEW h \in Handlers, NEW c \in CaseIds, NEW u \in Users, NEW to \in States,
         MayDecide(h, c, u, to)
  PROVE  Inv'
<1> DEFINE new == [cases[c] EXCEPT !.state = to, !.open = to \notin Closed]
<1>1. cases[c] \in Case /\ cases[c] # None /\ u \in Moderators
  BY DEF MayDecide, Inv, TypeOK
<1>2. /\ new \in Case /\ new.state = to /\ new.open = (to \notin Closed)
      /\ new.appeal = cases[c].appeal
  BY <1>1 DEF Case, States
<1>3. Plan(h, "moderator_decision", c, u, new) /\ "moderator_decision" \in Kinds
  BY DEF MayDecide, Kinds
<1> HIDE DEF new
<1>4. PlannedBy([op |-> "moderator_decision", id |-> c, target |-> None, by |-> u,
                 seen |-> cases[c], new |-> new])
  BY <1>1, <1>2 DEF PlannedBy
<1> QED
  BY <1>1, <1>2, <1>3, <1>4, MayInv

LEMMA MayAppealInv ==
  ASSUME Inv, NEW h \in Handlers, NEW c \in CaseIds, NEW u \in Users, MayAppeal(h, c, u)
  PROVE  Inv'
<1> DEFINE new == [cases[c] EXCEPT !.appeal = "submitted"]
<1>1. cases[c] \in Case /\ cases[c] # None /\ cases[c].appeal = None
  BY DEF MayAppeal, Inv, TypeOK
<1>2. /\ new \in Case /\ new.appeal = "submitted" /\ new.open = cases[c].open
      /\ new.state = cases[c].state
  BY <1>1 DEF Case
<1>3. Plan(h, "appeal_submitted", c, u, new) /\ "appeal_submitted" \in Kinds
  BY DEF MayAppeal, Kinds
<1> HIDE DEF new
<1>4. PlannedBy([op |-> "appeal_submitted", id |-> c, target |-> None, by |-> u,
                 seen |-> cases[c], new |-> new])
  BY <1>1, <1>2 DEF PlannedBy
<1> QED
  BY <1>1, <1>2, <1>3, <1>4, MayInv

LEMMA MayResolveInv ==
  ASSUME Inv, NEW h \in Handlers, NEW c \in CaseIds, NEW u \in Users, NEW verdict,
         MayResolve(h, c, u, verdict)
  PROVE  Inv'
<1>1. /\ cases[c] \in Case /\ cases[c] # None /\ cases[c].appeal = "submitted"
      /\ u \in Moderators
  BY ModerationAssumptions DEF MayResolve, Inv, TypeOK
<1>2. PICK new : /\ Plan(h, "appeal_resolved", c, u, new)
                 /\ \/ new = [cases[c] EXCEPT !.appeal = "resolved", !.state = "visible",
                                              !.open = TRUE]
                    \/ new = [cases[c] EXCEPT !.appeal = "resolved"]
  BY DEF MayResolve
<1>3. /\ new \in Case /\ new.appeal = "resolved"
      /\ \/ new.state = cases[c].state /\ new.open = cases[c].open
         \/ new.state = "visible" /\ new.open = TRUE
  BY <1>1, <1>2 DEF Case, States
<1>4. PlannedBy([op |-> "appeal_resolved", id |-> c, target |-> None, by |-> u,
                 seen |-> cases[c], new |-> new])
  BY <1>1, <1>3 DEF PlannedBy
<1> QED
  BY <1>1, <1>2, <1>3, <1>4, MayInv DEF Kinds

LEMMA NextInv ==
  ASSUME Inv, [Next]_vars
  PROVE  Inv'
<1>1. CASE UNCHANGED vars
  BY <1>1
  DEF vars, Inv, TypeOK, Planned, PlannedBy, Logged, AuditExplainsState, InOrder,
      Moves, RowsOf
<1>2. CASE Next
  <2> SUFFICES ASSUME NEW h \in Handlers,
                      \/ \E t \in Targets : MayOpen(h, t)
                      \/ \E c \in CaseIds :
                           \/ \E to \in ToReview : MaySignal(h, c, to)
                           \/ \E u \in Users, to \in States : MayDecide(h, c, u, to)
                           \/ \E u \in Users : MayAppeal(h, c, u)
                           \/ \E u \in Users, verdict \in {"upheld", "overturned"} :
                                MayResolve(h, c, u, verdict)
                      \/ OpenCase(h) \/ Write(h) \/ Abort(h)
               PROVE  Inv'
    BY <1>2 DEF Next
  <2> QED
    BY MayOpenInv, MaySignalInv, MayDecideInv, MayAppealInv, MayResolveInv,
       OpenCaseInv, WriteInv, AbortInv
<1> QED
  BY <1>1, <1>2

(***************************************************************************)
(* Theorems                                                                *)
(***************************************************************************)

\* The invariant of the cases, their log, and the requests that work on them.
THEOREM Invariance == Spec => []Inv
  BY InitInv, NextInv, PTL DEF Spec

\* D4, D5: the last move in the log is the state of the case, also when requests
\* overlap, and only a moderator's decision closes.
THEOREM TheLogExplains == Spec => []Sound
  BY Invariance, PTL DEF Inv, Sound

\* D2, D6: the queue flag, the state and the appeal of a case agree with each other
\* and with its log until two requests run into each other.
THEOREM CasesAreInOrder == Spec => []InOrder
  BY Invariance, PTL DEF Inv

\* The automation never releases what a moderator has closed.
THEOREM RemovalsStick == Spec => RemovalSticks
<1> DEFINE Kept == \A c \in CaseIds \ raced' :
              cases[c] # None /\ cases[c].state \in Closed /\ cases'[c].state \notin Closed
                => log'[Len(log')].by \in Moderators
<1>1. ASSUME Inv, [Next]_vars PROVE Kept
  <2>1. UNCHANGED cases => Kept
    OBVIOUS
  <2>2. ASSUME NEW h \in Handlers, OpenCase(h) PROVE Kept
    BY <1>1, <2>2 DEF OpenCase, Inv, TypeOK
  <2>3. ASSUME NEW h \in Handlers, Write(h) PROVE Kept
    <3> DEFINE j == job[h]
    <3>1. /\ j.op \in Kinds /\ PlannedBy(j)
          /\ cases[j.id] = j.seen => cases'[j.id].state = j.new.state
          /\ \A c \in CaseIds \ {j.id} : cases'[c] = cases[c]
          /\ Entry(j) \in Action /\ log' = Append(log, Entry(j))
          /\ raced' = IF cases[j.id] = j.seen THEN raced ELSE raced \cup {j.id}
      BY <1>1, <2>3, WriteFacts
    <3>2. log'[Len(log')] = Entry(j) /\ Entry(j).by = j.by
      BY <1>1, <3>1, LogGrows DEF Entry, Inv, TypeOK
    <3> HIDE DEF j
    <3>3. \A c \in CaseIds \ raced' : cases[c].state \in Closed /\ cases'[c].state \notin Closed
            => c = j.id /\ j.seen.state \in Closed /\ j.new.state \notin Closed
      BY <3>1
    <3>4. j.seen.state \in Closed /\ j.new.state \notin Closed => j.by \in Moderators
      BY <3>1 DEF PlannedBy, Kinds
    <3> QED
      BY <3>2, <3>3, <3>4
  <2>4. ASSUME NEW h \in Handlers,
               \/ \E t \in Targets : MayOpen(h, t)
               \/ \E c \in CaseIds :
                    \/ \E to \in ToReview : MaySignal(h, c, to)
                    \/ \E u \in Users, to \in States : MayDecide(h, c, u, to)
                    \/ \E u \in Users : MayAppeal(h, c, u)
                    \/ \E u \in Users, verdict \in {"upheld", "overturned"} :
                         MayResolve(h, c, u, verdict)
               \/ Abort(h)
        PROVE  UNCHANGED cases
    <3>1. ASSUME NEW j, Decide(h, j) PROVE UNCHANGED cases
      BY <3>1 DEF Decide
    <3>2. CASE Abort(h)
      BY <3>2 DEF Abort
    <3>3. (\E j : Decide(h, j)) => UNCHANGED cases
      BY <3>1
    <3>4. ASSUME ~Abort(h) PROVE \E j : Decide(h, j)
      BY <2>4, <3>4, Zenon DEF MayOpen, MaySignal, MayDecide, MayAppeal, MayResolve, Plan
    <3> QED
      BY <3>2, <3>3, <3>4
  <2>5. UNCHANGED vars => UNCHANGED cases
    BY DEF vars
  <2> HIDE DEF Kept
  <2> QED
    BY <1>1, <2>1, <2>2, <2>3, <2>4, <2>5, Zenon DEF Next
<1>2. Inv /\ [Next]_vars => [Kept]_vars
  BY <1>1
<1> QED
  BY <1>2, Invariance, PTL DEF Spec, RemovalSticks

(***************************************************************************)
(* How far a limit is overrun that every request compares with what is     *)
(* there before it adds one.                                               *)
(***************************************************************************)

\* What is there and what the requests of Adding are about to add.
Within(There, Adding, H, max) ==
  /\ IsFiniteSet(There)
  /\ Cardinality(There) + Cardinality(Adding) <= max + (Cardinality(H) - 1)

LEMMA AddingFinite ==
  ASSUME NEW H, IsFiniteSet(H), NEW A \in SUBSET H
  PROVE  IsFiniteSet(A) /\ Cardinality(A) \in Nat
         /\ Cardinality(A) <= Cardinality(H) /\ Cardinality(H) \in Nat
  BY FS_Subset, FS_CardinalityType

\* Some are gone, and no request has come.
LEMMA FewerWithin ==
  ASSUME NEW H, IsFiniteSet(H), NEW R, NEW A \in SUBSET H, NEW max \in Nat,
         Within(R, A, H, max), NEW R2 \in SUBSET R, NEW A2 \in SUBSET A
  PROVE  Within(R2, A2, H, max)
<1>1. IsFiniteSet(R2) /\ Cardinality(R2) <= Cardinality(R) /\ Cardinality(R2) \in Nat
      /\ Cardinality(R) \in Nat
  BY FS_Subset, FS_CardinalityType DEF Within
<1>2. Cardinality(A2) <= Cardinality(A) /\ Cardinality(A2) \in Nat /\ Cardinality(A) \in Nat
      /\ Cardinality(H) \in Nat
  BY AddingFinite, FS_Subset
<1> QED
  BY <1>1, <1>2 DEF Within

\* A request ends with what it had decided to add.
LEMMA AddedWithin ==
  ASSUME NEW H, IsFiniteSet(H), NEW R, NEW A \in SUBSET H, NEW max \in Nat,
         Within(R, A, H, max), NEW x, NEW R2 \in SUBSET (R \cup {x}), NEW h \in A,
         NEW A2 \in SUBSET (A \ {h})
  PROVE  Within(R2, A2, H, max)
<1>1. IsFiniteSet(R) /\ Cardinality(R) \in Nat
  BY FS_CardinalityType DEF Within
<1>2. IsFiniteSet(R \cup {x}) /\ Cardinality(R \cup {x}) <= Cardinality(R) + 1
  <2>1. /\ Cardinality(R \cup {x}) = IF x \in R THEN Cardinality(R) ELSE Cardinality(R) + 1
        /\ IsFiniteSet(R \cup {x})
    BY <1>1, FS_AddElement
  <2> QED
    BY <1>1, <2>1
<1>3. /\ IsFiniteSet(R2) /\ Cardinality(R2) <= Cardinality(R \cup {x})
      /\ Cardinality(R2) \in Nat /\ Cardinality(R \cup {x}) \in Nat
  BY <1>2, FS_Subset, FS_CardinalityType
<1>4. IsFiniteSet(A) /\ Cardinality(A) \in Nat /\ Cardinality(H) \in Nat
  BY AddingFinite
<1>5. IsFiniteSet(A \ {h}) /\ Cardinality(A \ {h}) = Cardinality(A) - 1
  BY <1>4, FS_RemoveElement
<1>6. Cardinality(A2) <= Cardinality(A \ {h}) /\ Cardinality(A2) \in Nat
  BY <1>5, FS_Subset, FS_CardinalityType
<1> QED
  BY <1>1, <1>2, <1>3, <1>4, <1>5, <1>6 DEF Within

\* A request has found the limit not reached and decided to add one.
LEMMA DecidedWithin ==
  ASSUME NEW H, IsFiniteSet(H), NEW R, NEW A2 \in SUBSET H, NEW max \in Nat,
         IsFiniteSet(R), Cardinality(R) < max
  PROVE  Within(R, A2, H, max)
<1>1. Cardinality(R) \in Nat
  BY FS_CardinalityType
<1>2. /\ Cardinality(A2) \in Nat /\ Cardinality(H) \in Nat
      /\ Cardinality(A2) <= Cardinality(H)
  BY AddingFinite
<1> QED
  BY <1>1, <1>2 DEF Within

LEMMA WithinBounds ==
  ASSUME NEW H, IsFiniteSet(H), NEW R, NEW A \in SUBSET H, NEW max \in Nat,
         Within(R, A, H, max)
  PROVE  Cardinality(R) <= max + (Cardinality(H) - 1)
<1>1. Cardinality(R) \in Nat /\ Cardinality(A) \in Nat /\ Cardinality(H) \in Nat
  BY AddingFinite, FS_CardinalityType DEF Within
<1> QED
  BY <1>1 DEF Within

(***************************************************************************)
(* MediaUpload: bytes have an owner and a finalized row its object, and the*)
(* uploads of a profile stay within the limit.                             *)
(***************************************************************************)

\* What a request has in its hands, whatever the others do.
UploadShaped(j) ==
  /\ j.op = "idle" => j = UploadIdle
  /\ j.op = "intent" => j.ids = {} /\ j.at = "writing"
  /\ j.at = "checking" => j.todo = {} /\ j.to = None /\ \A i, k \in j.ids : i = k
  /\ j.at = "writing" => j.todo = {}
  /\ j.at = "deleting" => j.to \in {"cancelled", "failed"}
  /\ j.at = "writing" /\ j.op # "intent" => j.to \in {"finalized", "cancelled", "failed"}
  /\ j.todo \subseteq j.ids /\ j.late \subseteq due

\* What it knows of the uploads that nobody else works on.
UploadJudged(j) ==
  \A i \in j.ids \ overlapped :
    /\ state[i] \in Open \cup {"failed"}
    /\ j.to = "finalized" => i \in bucket \cap Declared
    /\ j.to = "failed" /\ i \notin j.todo => i \notin bucket \/ i \in expired
    /\ j.to = "cancelled" /\ i \notin j.todo => i \notin bucket

UploadsAlone ==
  \A h, k \in Handlers : h # k => job[h].ids \cap job[k].ids \subseteq overlapped

UploadInv ==
  /\ UploadTypeOK /\ BucketMatchesRows /\ UploadsAlone
  /\ \A h \in Handlers : UploadShaped(job[h]) /\ UploadJudged(job[h])

\* Uploads that a request loaded alone are as it found them, and it goes on.
LEMMA UploadOthersKeep ==
  ASSUME UploadTypeOK, NEW k \in Handlers, UploadShaped(job[k]), UploadJudged(job[k]),
         job'[k] = job[k],
         overlapped \subseteq overlapped', due \subseteq due', expired \subseteq expired',
         \A i \in job[k].ids \ overlapped' :
           state'[i] = state[i] /\ (i \in bucket' <=> i \in bucket)
  PROVE  UploadShaped(job[k])' /\ UploadJudged(job[k])'
  BY DEF UploadShaped, UploadJudged

LEMMA UploadJobTyped ==
  ASSUME UploadTypeOK, NEW h \in Handlers
  PROVE  job[h] \in UploadJob /\ job[h].ids \subseteq Uploads
         /\ job[h].todo \subseteq Uploads
  BY DEF UploadTypeOK, UploadJob

\* A request that begins, with what it has loaded.
LEMMA UploadLoadInv ==
  ASSUME UploadInv, NEW h \in Handlers, NEW j \in UploadJob, Load(h, j), UploadShaped(j),
         UploadJudged(j)
  PROVE  UploadInv'
<1> USE DEF UploadInv
<1>1. UploadTypeOK'
  BY MediaUploadAssumptions DEF Load, UploadTypeOK, UploadJob
<1>2. job'[h] = j /\ \A k \in Handlers \ {h} : job'[k] = job[k]
  BY DEF Load, UploadTypeOK
<1>3. BucketMatchesRows'
  BY DEF Load, BucketMatchesRows, FinalizedHasItsObject, BytesHaveAnOwner
<1>4. \A k \in Handlers : job[k].ids \cap j.ids \subseteq overlapped'
  BY DEF Load, AtWork, UploadJob
<1>5. UploadsAlone'
  BY <1>2, <1>4 DEF UploadsAlone, Load
<1>6. UploadShaped(j)' /\ UploadJudged(j)'
  BY DEF Load, UploadShaped, UploadJudged
<1>7. ASSUME NEW k \in Handlers \ {h} PROVE UploadShaped(job[k])' /\ UploadJudged(job[k])'
  <2>1. job'[k] = job[k] /\ overlapped \subseteq overlapped' /\ UNCHANGED <<state, bucket,
        due, expired>>
    BY <1>2 DEF Load
  <2> QED BY <2>1, UploadOthersKeep
<1>8. ASSUME NEW k \in Handlers PROVE UploadShaped(job[k])' /\ UploadJudged(job[k])'
  <2>1. CASE k = h
    BY <1>2, <1>6, <2>1 DEF UploadShaped, UploadJudged
  <2>2. CASE k # h
    BY <1>7, <2>2
  <2> QED BY <2>1, <2>2
<1> QED BY <1>1, <1>3, <1>5, <1>8

\* A step of a request that it takes with the uploads it has loaded, some of them
\* in a new state or without their object.
LEMMA UploadGoInv ==
  ASSUME UploadInv, NEW h \in Handlers, NEW j \in UploadJob, Go(h, j), UploadTypeOK',
         j.ids \subseteq job[h].ids, UploadShaped(j)', UploadJudged(j)', BucketMatchesRows',
         \A k \in Handlers \ {h} : \A i \in job[k].ids \ overlapped :
           state'[i] = state[i] /\ (i \in bucket' <=> i \in bucket)
  PROVE  UploadInv'
<1> USE DEF UploadInv
<1>1. /\ job'[h] = j /\ (\A k \in Handlers \ {h} : job'[k] = job[k])
      /\ overlapped' = overlapped /\ due' = due /\ expired' = expired
  BY DEF Go, UploadTypeOK
<1>2. UploadsAlone'
  BY <1>1 DEF UploadsAlone
<1>3. ASSUME NEW k \in Handlers PROVE UploadShaped(job[k])' /\ UploadJudged(job[k])'
  <2>1. CASE k = h
    BY <1>1, <2>1 DEF UploadShaped, UploadJudged
  <2>2. CASE k # h
    BY <1>1, <2>2, UploadOthersKeep
  <2> QED BY <2>1, <2>2
<1> QED BY <1>2, <1>3

LEMMA UploadIdleFits ==
  /\ UploadIdle \in UploadJob /\ UploadIdle.ids = {}
  /\ UploadShaped(UploadIdle) /\ UploadJudged(UploadIdle)
  BY DEF UploadIdle, UploadJob, UploadShaped, UploadJudged

LEMMA UploadInitInv == UploadInit => UploadInv
<1> SUFFICES ASSUME UploadInit PROVE UploadInv
  OBVIOUS
<1>1. UploadTypeOK
  BY UploadIdleFits, MediaUploadAssumptions DEF UploadInit, UploadTypeOK
<1>2. BucketMatchesRows
  BY MediaUploadAssumptions
     DEF UploadInit, BucketMatchesRows, FinalizedHasItsObject, BytesHaveAnOwner,
          UploadStates
<1>3. UploadsAlone /\ \A h \in Handlers : UploadShaped(job[h]) /\ UploadJudged(job[h])
  BY UploadIdleFits DEF UploadInit, UploadsAlone
<1> QED BY <1>1, <1>2, <1>3 DEF UploadInv

LEMMA UploadCountInv == ASSUME UploadInv, NEW h \in Handlers, CountOpen(h) PROVE UploadInv'
<1> DEFINE j == [UploadIdle EXCEPT !.op = "intent", !.at = "writing"]
<1>1. j \in UploadJob /\ UploadShaped(j) /\ UploadJudged(j)
  BY DEF UploadIdle, UploadJob, UploadShaped, UploadJudged
<1>2. Load(h, j)
  BY DEF CountOpen
<1> QED BY <1>1, <1>2, UploadLoadInv

LEMMA UploadSweepInv == ASSUME UploadInv, NEW h \in Handlers, StartSweep(h) PROVE UploadInv'
<1> DEFINE j == [op |-> "sweep", at |-> IF Orphans = {} THEN "writing" ELSE "deleting",
                 ids |-> Orphans, todo |-> Orphans, to |-> "cancelled", late |-> due]
<1>1. Orphans \subseteq Uploads /\ due \subseteq Uploads
      /\ \A i \in Orphans : state[i] \in Open
  BY DEF Orphans, UploadInv, UploadTypeOK
<1>2. j \in UploadJob
  BY <1>1 DEF UploadJob, UploadStates
<1>3. UploadShaped(j) /\ UploadJudged(j)
  BY <1>1 DEF UploadShaped, UploadJudged
<1>4. Load(h, j)
  BY DEF StartSweep
<1> QED BY <1>2, <1>3, <1>4, UploadLoadInv

LEMMA UploadStartFinalizeInv ==
  ASSUME UploadInv, NEW h \in Handlers, NEW i \in Uploads, StartFinalize(h, i)
  PROVE  UploadInv'
<1>1. CASE i \in expired
  <2> DEFINE j == [UploadIdle EXCEPT !.op = "finalize", !.at = "writing", !.ids = {i},
                                      !.to = "failed"]
  <2>1. j \in UploadJob /\ UploadShaped(j) /\ UploadJudged(j)
    BY <1>1 DEF UploadIdle, UploadJob, UploadStates, UploadShaped, UploadJudged,
       StartFinalize
  <2>2. Load(h, j)
    BY <1>1 DEF StartFinalize
  <2> QED BY <2>1, <2>2, UploadLoadInv
<1>2. CASE i \notin expired
  <2> DEFINE j == [UploadIdle EXCEPT !.op = "finalize", !.at = "checking", !.ids = {i}]
  <2>1. j \in UploadJob /\ UploadShaped(j) /\ UploadJudged(j)
    BY MediaUploadAssumptions DEF UploadIdle, UploadJob, UploadStates, UploadShaped,
       UploadJudged, StartFinalize
  <2>2. Load(h, j)
    BY <1>2 DEF StartFinalize
  <2> QED BY <2>1, <2>2, UploadLoadInv
<1> QED BY <1>1, <1>2

LEMMA UploadStartCancelInv ==
  ASSUME UploadInv, NEW h \in Handlers, NEW i \in Uploads, StartCancel(h, i)
  PROVE  UploadInv'
<1> DEFINE j == [UploadIdle EXCEPT !.op = "cancel", !.at = "deleting", !.ids = {i},
    !.todo = {i},
                             !.to = "cancelled"]
<1>1. j \in UploadJob /\ UploadShaped(j) /\ UploadJudged(j)
  BY DEF UploadIdle, UploadJob, UploadStates, UploadShaped, UploadJudged, StartCancel
<1>2. Load(h, j)
  BY DEF StartCancel
<1> QED BY <1>1, <1>2, UploadLoadInv

LEMMA UploadInsertInv == ASSUME UploadInv, NEW h \in Handlers, InsertIntent(h)
     PROVE UploadInv'
<1> USE DEF UploadInv
<1>1. PICK i \in Uploads : ~Exists(i) /\ state' = [state EXCEPT ![i] = "pending"]
  BY DEF InsertIntent
<1>2. Go(h, UploadIdle) /\ UNCHANGED <<bucket, swept>>
  BY DEF InsertIntent
<1>3. UploadTypeOK'
  BY <1>1, <1>2, UploadIdleFits DEF Go, UploadTypeOK, UploadStates
<1>4. BucketMatchesRows'
  BY <1>1, <1>2
     DEF Go, UploadTypeOK, BucketMatchesRows, FinalizedHasItsObject, BytesHaveAnOwner
<1>5. \A k \in Handlers : \A o \in job[k].ids \ overlapped : state'[o] = state[o]
  BY <1>1, UploadJobTyped, MediaUploadAssumptions DEF UploadTypeOK, UploadJudged, Exists,
     UploadStates, Open
<1>6. UploadShaped(UploadIdle)' /\ UploadJudged(UploadIdle)'
  BY DEF UploadShaped, UploadJudged, UploadIdle
<1> QED BY <1>2, <1>3, <1>4, <1>5, <1>6, UploadIdleFits, UploadGoInv

LEMMA UploadHeadInv == ASSUME UploadInv, NEW h \in Handlers, HeadObject(h) PROVE UploadInv'
<1> USE DEF UploadInv
<1> DEFINE j == job[h]
<1>1. PICK i \in j.ids :
        Go(h, IF i \notin bucket THEN UploadIdle
              ELSE IF Acceptable(i) THEN [j EXCEPT !.at = "writing", !.to = "finalized"]
              ELSE [j EXCEPT !.at = "deleting", !.todo = {i}, !.to = "failed"])
  BY DEF HeadObject
<1>2. j.at = "checking" /\ UNCHANGED <<state, bucket, swept>>
  BY DEF HeadObject
<1>3. PICK n \in UploadJob : /\ Go(h, n) /\ n.ids \subseteq j.ids
                       /\ UploadShaped(n) /\ UploadJudged(n)
  <2>0. j \in UploadJob /\ UploadShaped(j) /\ UploadJudged(j) /\ i \in Uploads
    BY UploadJobTyped
  <2>1. CASE i \notin bucket
    BY <1>1, <2>1, UploadIdleFits
  <2>2. CASE i \in bucket /\ Acceptable(i)
    <3> DEFINE n == [j EXCEPT !.at = "writing", !.to = "finalized"]
    <3>1. n \in UploadJob /\ n.ids = j.ids
      BY <2>0 DEF UploadJob, UploadStates
    <3>2. UploadShaped(n)
      BY <1>2, <2>0 DEF UploadShaped, UploadJob, UploadIdle
    <3>3. UploadJudged(n)
      BY <1>2, <2>0, <2>2 DEF UploadShaped, UploadJudged, UploadJob, Acceptable
    <3> QED BY <1>1, <2>2, <3>1, <3>2, <3>3
  <2>3. CASE i \in bucket /\ ~Acceptable(i)
    <3> DEFINE n == [j EXCEPT !.at = "deleting", !.todo = {i}, !.to = "failed"]
    <3>1. n \in UploadJob /\ n.ids = j.ids
      BY <2>0 DEF UploadJob, UploadStates
    <3>2. UploadShaped(n)
      BY <1>2, <2>0 DEF UploadShaped, UploadJob, UploadIdle
    <3>3. UploadJudged(n)
      BY <1>2, <2>0, <2>3 DEF UploadShaped, UploadJudged, UploadJob
    <3> QED BY <1>1, <2>3, <3>1, <3>2, <3>3
  <2> QED BY <2>1, <2>2, <2>3
<1>4. UploadShaped(n)' /\ UploadJudged(n)'
  BY <1>2, <1>3 DEF Go, UploadShaped, UploadJudged
<1>5. UploadTypeOK' /\ BucketMatchesRows'
  BY <1>2, <1>3 DEF Go, UploadTypeOK, BucketMatchesRows, FinalizedHasItsObject,
     BytesHaveAnOwner
<1> QED BY <1>2, <1>3, <1>4, <1>5, UploadGoInv

LEMMA UploadAbortInv == ASSUME UploadInv, NEW h \in Handlers, AbortUpload(h)
     PROVE UploadInv'
<1> USE DEF UploadInv
<1>1. Go(h, UploadIdle) /\ UNCHANGED <<state, bucket, swept>>
  BY DEF AbortUpload
<1>2. UploadTypeOK' /\ BucketMatchesRows'
  BY <1>1, UploadIdleFits
     DEF Go, UploadTypeOK, BucketMatchesRows, FinalizedHasItsObject, BytesHaveAnOwner
<1>3. UploadShaped(UploadIdle)' /\ UploadJudged(UploadIdle)'
  BY DEF UploadShaped, UploadJudged, UploadIdle
<1> QED BY <1>1, <1>2, <1>3, UploadIdleFits, UploadGoInv

LEMMA UploadDeleteInv == ASSUME UploadInv, NEW h \in Handlers, DeleteObject(h)
     PROVE UploadInv'
<1> USE DEF UploadInv
<1> DEFINE j == job[h]
<1>0. j \in UploadJob /\ UploadShaped(j) /\ UploadJudged(j) /\ j.ids \subseteq Uploads
  BY UploadJobTyped
<1>1. PICK i \in j.todo :
        /\ bucket' = bucket \ {i}
        /\ Go(h, [j EXCEPT !.todo = @ \ {i},
                           !.at = IF j.todo = {i} THEN "writing" ELSE "deleting"])
  BY DEF DeleteObject
<1>2. j.at = "deleting" /\ UNCHANGED <<state, swept>>
  BY DEF DeleteObject
<1>3. PICK n \in UploadJob :
        /\ n = [j EXCEPT !.todo = @ \ {i},
                         !.at = IF j.todo = {i} THEN "writing" ELSE "deleting"]
        /\ n.ids = j.ids /\ n.to = j.to /\ n.todo = j.todo \ {i}
        /\ n.op = j.op /\ n.late = j.late /\ n.at \in {"writing", "deleting"}
        /\ n.at = "writing" => j.todo = {i}
  <2> DEFINE m == [j EXCEPT !.todo = @ \ {i},
                            !.at = IF j.todo = {i} THEN "writing" ELSE "deleting"]
  <2>1. /\ m \in UploadJob
        /\ m.ids = j.ids /\ m.to = j.to /\ m.todo = j.todo \ {i}
        /\ m.op = j.op /\ m.late = j.late /\ m.at \in {"writing", "deleting"}
        /\ m.at = "writing" => j.todo = {i}
    BY <1>0 DEF UploadJob
  <2> QED BY <2>1
<1>4. i \in Uploads /\ i \in j.ids
  BY <1>0, <1>1 DEF UploadShaped
<1>5. UploadTypeOK'
  BY <1>1, <1>2, <1>3 DEF Go, UploadTypeOK
<1>6. i \notin overlapped => state[i] \in Open \cup {"failed"}
  BY <1>0, <1>4 DEF UploadJudged
<1>7. BucketMatchesRows'
  BY <1>1, <1>2, <1>6
     DEF Go, BucketMatchesRows, FinalizedHasItsObject, BytesHaveAnOwner, Open
<1>8. UploadShaped(n)'
  BY <1>0, <1>1, <1>2, <1>3 DEF Go, UploadShaped, UploadIdle
<1>9. UploadJudged(n)'
  <2>1. j.to # "finalized"
    BY <1>0, <1>2 DEF UploadShaped
  <2> QED BY <1>0, <1>1, <1>2, <1>3, <2>1 DEF Go, UploadJudged
<1>10. \A k \in Handlers \ {h} : \A o \in job[k].ids \ overlapped :
         state'[o] = state[o] /\ (o \in bucket' <=> o \in bucket)
  BY <1>1, <1>2, <1>4 DEF UploadsAlone
<1>11. Go(h, n) /\ n.ids \subseteq job[h].ids
  BY <1>1, <1>3
<1> QED BY <1>3, <1>5, <1>7, <1>8, <1>9, <1>10, <1>11, UploadGoInv

LEMMA UploadWriteInv == ASSUME UploadInv, NEW h \in Handlers, WriteState(h) PROVE UploadInv'
<1> USE DEF UploadInv
<1> DEFINE j == job[h]
<1>0. j \in UploadJob /\ UploadShaped(j) /\ UploadJudged(j) /\ j.ids \subseteq Uploads
  BY UploadJobTyped
<1>1. /\ j.at = "writing" /\ j.op # "intent"
      /\ state' = [i \in Uploads |-> IF i \in j.ids THEN j.to ELSE state[i]]
      /\ swept' = swept \cup j.late
      /\ Go(h, UploadIdle) /\ UNCHANGED bucket
  BY DEF WriteState
<1>2. j.todo = {} /\ j.to \in {"finalized", "cancelled", "failed"} /\ j.late \subseteq due
  BY <1>0, <1>1 DEF UploadShaped
<1>3. UploadTypeOK'
  BY <1>0, <1>1, <1>2, UploadIdleFits DEF Go, UploadTypeOK, UploadStates
<1>4. BucketMatchesRows'
  <2>1. ASSUME NEW i \in Uploads \ overlapped
        PROVE  /\ state'[i] = "finalized" => i \in bucket \cap Declared
               /\ state'[i] = "cancelled" => i \notin bucket
               /\ state'[i] = "failed" /\ i \in bucket => i \in expired
    <3>1. CASE i \in j.ids
      BY <1>0, <1>1, <1>2, <3>1 DEF UploadJudged
    <3>2. CASE i \notin j.ids
      BY <1>1, <3>2 DEF BucketMatchesRows, FinalizedHasItsObject, BytesHaveAnOwner
    <3> QED BY <3>1, <3>2
  <2> QED
    BY <1>1, <2>1 DEF Go, BucketMatchesRows, FinalizedHasItsObject, BytesHaveAnOwner
<1>5. UploadShaped(UploadIdle)' /\ UploadJudged(UploadIdle)'
  BY DEF UploadShaped, UploadJudged, UploadIdle
<1>6. \A k \in Handlers \ {h} : \A i \in job[k].ids \ overlapped : state'[i] = state[i]
  BY <1>1, UploadJobTyped DEF UploadsAlone
<1> QED BY <1>1, <1>3, <1>4, <1>5, <1>6, UploadIdleFits, UploadGoInv

LEMMA UploadPutInv == ASSUME UploadInv, NEW i \in Uploads, PutBytes(i) PROVE UploadInv'
<1> USE DEF UploadInv
<1>1. UploadTypeOK'
  BY DEF PutBytes, UploadTypeOK
<1>2. BucketMatchesRows'
  BY DEF PutBytes, BucketMatchesRows, FinalizedHasItsObject, BytesHaveAnOwner
<1>3. UploadsAlone'
  BY DEF PutBytes, UploadsAlone
<1>4. ASSUME NEW k \in Handlers PROVE UploadShaped(job[k])' /\ UploadJudged(job[k])'
  <2>1. i \in job[k].ids => i \in overlapped'
    BY DEF PutBytes, AtWork
  <2>2. /\ job'[k] = job[k] /\ overlapped \subseteq overlapped'
        /\ UNCHANGED <<state, due, expired>>
        /\ bucket' = bucket \cup {i}
    BY DEF PutBytes
  <2> QED BY <2>1, <2>2, UploadOthersKeep
<1> QED BY <1>1, <1>2, <1>3, <1>4

LEMMA UploadTimeInv ==
  ASSUME UploadInv, (\E i \in Uploads : Expire(i) \/ FallDue(i)) \/ UNCHANGED uploadVars
  PROVE  UploadInv'
<1> USE DEF UploadInv
<1>1. /\ UNCHANGED <<state, bucket, job, swept, overlapped, requests>>
      /\ expired \subseteq expired' /\ due \subseteq due'
      /\ due' \subseteq expired' /\ expired' \subseteq Uploads
  BY DEF Expire, FallDue, uploadVars, UploadTypeOK
<1>2. UploadTypeOK'
  BY <1>1 DEF UploadTypeOK
<1>3. BucketMatchesRows' /\ UploadsAlone'
  BY <1>1 DEF BucketMatchesRows, FinalizedHasItsObject, BytesHaveAnOwner, UploadsAlone
<1> QED BY <1>1, <1>2, <1>3, UploadOthersKeep

LEMMA UploadNextInv == UploadInv /\ [UploadNext]_uploadVars => UploadInv'
  BY UploadCountInv, UploadInsertInv, UploadSweepInv, UploadStartFinalizeInv,
     UploadStartCancelInv, UploadHeadInv, UploadDeleteInv,
     UploadWriteInv, UploadAbortInv, UploadPutInv, UploadTimeInv DEF UploadNext

\* The invariant of rows and bucket and of what the requests know of them.
THEOREM UploadInvariance == UploadSpec => []UploadInv
  BY UploadInitInv, UploadNextInv, PTL DEF UploadSpec

\* Rows and bucket agree on every upload that one request at a time works on.
THEOREM RowsAndBucketAgree == UploadSpec => []BucketMatchesRows
  BY UploadInvariance, PTL DEF UploadInv

Intents == { h \in Handlers : job[h].op = "intent" }
UploadLimit == Within(OpenUploads, Intents, Handlers, MaxLive)

LEMMA UploadBounds == MaxLive \in Nat /\ MaxLive > 0 /\ IsFiniteSet(Handlers)
  BY MediaUploadAssumptions

LEMMA UploadLimitInit == UploadInit => UploadLimit
<1> SUFFICES ASSUME UploadInit PROVE UploadLimit
  OBVIOUS
<1>1. OpenUploads = {} /\ Intents = {}
  BY MediaUploadAssumptions DEF UploadInit, OpenUploads, Intents, UploadIdle, Open,
     UploadStates
<1>2. IsFiniteSet({}) /\ Cardinality({}) = 0 /\ Cardinality(Handlers) \in Nat
  BY FS_EmptySet, FS_CardinalityType, UploadBounds
<1> QED
  BY <1>1, <1>2, UploadBounds DEF UploadLimit, Within

LEMMA UploadLimitKept ==
  ASSUME UploadInv, UploadLimit, OpenUploads' \subseteq OpenUploads,
         Intents' \subseteq Intents
  PROVE  UploadLimit'
  BY FewerWithin, UploadBounds DEF UploadLimit, Intents

LEMMA UploadLimitNext ==
  ASSUME UploadInv, UploadLimit, [UploadNext]_uploadVars
  PROVE  UploadLimit'
<1> USE DEF UploadInv
<1>1. ASSUME NEW h \in Handlers, CountOpen(h) PROVE UploadLimit'
  <2>1. OpenUploads' = OpenUploads /\ Intents' \subseteq Handlers
    BY <1>1 DEF CountOpen, Load, OpenUploads, Intents
  <2>2. IsFiniteSet(OpenUploads) /\ Cardinality(OpenUploads) < MaxLive
    BY <1>1 DEF CountOpen, UploadLimit, Within
  <2> QED
    BY <2>1, <2>2, DecidedWithin, UploadBounds DEF UploadLimit
<1>2. ASSUME NEW h \in Handlers, InsertIntent(h) PROVE UploadLimit'
  <2>1. PICK i \in Uploads : state' = [state EXCEPT ![i] = "pending"]
    BY <1>2 DEF InsertIntent
  <2>2. OpenUploads' \in SUBSET (OpenUploads \cup {i})
    BY <2>1 DEF OpenUploads, UploadTypeOK
  <2>3. Intents' \in SUBSET (Intents \ {h})
    BY <1>2 DEF InsertIntent, Go, UploadIdle, Intents, UploadTypeOK
  <2>4. h \in Intents /\ Intents \in SUBSET Handlers
    BY <1>2 DEF InsertIntent, Intents
  <2>5. Within(OpenUploads', Intents', Handlers, MaxLive)
    BY <2>2, <2>3, <2>4, AddedWithin, UploadBounds DEF UploadLimit
  <2> QED
    BY <2>5 DEF UploadLimit
<1>3. ASSUME NEW h \in Handlers,
             \/ StartSweep(h) \/ \E i \in Uploads : StartFinalize(h, i) \/ StartCancel(h, i)
      PROVE  UploadLimit'
  <2>1. /\ job'[h].op # "intent" /\ \A k \in Handlers \ {h} : job'[k] = job[k]
        /\ UNCHANGED state
    <3>1. CASE StartSweep(h)
      BY <3>1 DEF StartSweep, Load, UploadTypeOK
    <3>2. CASE \E i \in Uploads : StartFinalize(h, i)
      BY <3>2 DEF StartFinalize, Load, UploadIdle, UploadTypeOK
    <3>3. CASE \E i \in Uploads : StartCancel(h, i)
      BY <3>3 DEF StartCancel, Load, UploadIdle, UploadTypeOK
    <3> QED
      BY <1>3, <3>1, <3>2, <3>3
  <2>2. OpenUploads' = OpenUploads /\ Intents' \subseteq Intents
    BY <2>1 DEF OpenUploads, Intents
  <2> QED
    BY <2>2, UploadLimitKept
<1>4. ASSUME NEW h \in Handlers, HeadObject(h) \/ DeleteObject(h) \/ AbortUpload(h)
             PROVE UploadLimit'
  <2>1. job'[h].op \in {job[h].op, "idle"} /\ \A k \in Handlers \ {h} : job'[k] = job[k]
    <3>1. CASE HeadObject(h)
      BY <3>1, UploadJobTyped DEF HeadObject, Go, UploadJob, UploadIdle, UploadTypeOK
    <3>2. CASE DeleteObject(h)
      BY <3>2, UploadJobTyped DEF DeleteObject, Go, UploadJob, UploadTypeOK
    <3>3. CASE AbortUpload(h)
      BY <3>3 DEF AbortUpload, Go, UploadIdle, UploadTypeOK
    <3> QED
      BY <1>4, <3>1, <3>2, <3>3
  <2>2. Intents' \subseteq Intents
    BY <2>1 DEF Intents
  <2>3. OpenUploads' = OpenUploads
    BY <1>4 DEF HeadObject, DeleteObject, AbortUpload, OpenUploads
  <2> QED
    BY <2>2, <2>3, UploadLimitKept
<1>5. ASSUME NEW h \in Handlers, WriteState(h) PROVE UploadLimit'
  <2>1. UploadShaped(job[h])
    OBVIOUS
  <2>2. job[h].to \notin Open
    BY <1>5, <2>1 DEF WriteState, UploadShaped, Open
  <2>3. OpenUploads' \subseteq OpenUploads
    BY <1>5, <2>2 DEF WriteState, OpenUploads
  <2>4. Intents' \subseteq Intents
    BY <1>5 DEF WriteState, Go, UploadIdle, Intents, UploadTypeOK
  <2> QED
    BY <2>3, <2>4, UploadLimitKept
<1>6. ASSUME \/ \E i \in Uploads : PutBytes(i) \/ Expire(i) \/ FallDue(i)
             \/ UNCHANGED uploadVars
      PROVE  UploadLimit'
  <2>1. OpenUploads' = OpenUploads /\ Intents' = Intents
    BY <1>6 DEF PutBytes, Expire, FallDue, uploadVars, OpenUploads, Intents
  <2> QED
    BY <2>1, UploadLimitKept
<1> QED
  BY <1>1, <1>2, <1>3, <1>4, <1>5, <1>6 DEF UploadNext

\* However many intents overlap, a profile has at most one more open upload than
\* the limit for each other request (create_upload_intent).
THEOREM UploadsStayWithinLimit == UploadSpec => []WithinLimit
<1>1. UploadInv /\ UploadLimit => WithinLimit
  BY WithinBounds, UploadBounds DEF WithinLimit, LiveOverrun, UploadLimit, UploadInv,
     Intents
<1> QED
  BY <1>1, UploadInitInv, UploadNextInv, UploadLimitInit, UploadLimitNext, PTL
     DEF UploadSpec

(***************************************************************************)
(* MediaStore: rows are formed well, the quota, the files, and the media of*)
(* posts.                                                                  *)
(***************************************************************************)

(***************************************************************************)
(* What every request has in its hands                                     *)
(***************************************************************************)

MediaSteps == {"idle", "scanning", "storing", "counting", "marking", "unlinking", "committing"}

MediaJobs == [op : Ops, at : MediaSteps, who : Profiles \cup {None}, ids : Seq(RowIds),
         seen : Seq(Row), new : Row \cup {None}, others : BOOLEAN,
         post : Posts \cup {None}]

MediaTyped ==
  /\ rows \in [RowIds -> Row \cup {None}]
  /\ files \subseteq Digests
  /\ posts \in [Posts -> Post \cup {None}]
  /\ job \in [Handlers -> MediaJobs]
  /\ disturbed \subseteq Digests /\ contended \subseteq RowIds
  /\ requests \in 0 .. MaxRequests

\* The row of an upload says what the scanner found.
FormedUpload(j) ==
  /\ j.at \in {"scanning", "storing", "committing"}
  /\ j.who \in Profiles
  /\ j.at = "scanning" => j.new = None
  /\ j.at # "scanning" =>
       /\ j.new \in Row /\ j.new.owner = j.who /\ j.new.post = None
       /\ j.new.state \in {"ready", "review", "rejected"}
       /\ j.new.digest = None <=> j.new.state = "rejected"
  /\ j.at = "storing" => j.new.digest # None

\* A row that was read to be deleted or attached is still there, with its owner
\* and its digest.
FormedDelete(j) ==
  /\ j.at \in {"counting", "marking", "unlinking", "committing"}
  /\ Len(j.ids) = 1 /\ Len(j.seen) = 1
  /\ j.who \in Profiles
  /\ rows[j.ids[1]] # None /\ rows[j.ids[1]].digest = j.seen[1].digest
  /\ j.at = "unlinking" => ~j.others /\ j.seen[1].digest # None

FormedAttach(j) ==
  /\ j.at \in {"marking", "committing"}
  /\ j.ids \in Lists /\ Len(j.seen) = Len(j.ids)
  /\ j.who \in Profiles /\ j.post \in Posts /\ posts[j.post] = None
  /\ \A i \in DOMAIN j.ids :
       /\ rows[j.ids[i]] # None /\ rows[j.ids[i]].owner = j.who
       /\ rows[j.ids[i]].state \in {"ready", "deleted"}

Formed(j) ==
  /\ j.op = "idle" => j = MediaIdle
  /\ j.op = "upload" => FormedUpload(j)
  /\ j.op = "delete" => FormedDelete(j)
  /\ j.op = "attach" => FormedAttach(j)
  /\ j.op # "attach" => j.post = None
  /\ Len(j.seen) = Len(j.ids)

\* No two requests create the same post.
OnePerPost ==
  \A h, k \in Handlers : h # k /\ job[h].post # None => job[h].post # job[k].post

MediaBase ==
  /\ MediaTyped /\ (\A h \in Handlers : Formed(job[h])) /\ OnePerPost
  /\ AttachedMediaIsOwn

LEMMA MediaBaseTypes == MediaBase => MediaTypeOK
  BY DEF MediaBase, MediaTyped, MediaTypeOK, MediaJobs, Formed

LEMMA MediaNone ==
  /\ None \notin Digests /\ None \notin Posts /\ None \notin Profiles
  /\ None \notin Row /\ None \notin Post
  BY MediaStoreAssumptions

LEMMA MediaIdleFits ==
  /\ MediaIdle \in MediaJobs /\ Formed(MediaIdle)
  /\ MediaIdle.op = "idle" /\ MediaIdle.post = None
  BY DEF MediaIdle, MediaJobs, Ops, MediaSteps, Formed

LEMMA MediaIdleFields ==
  MediaIdle.new = None /\ MediaIdle.ids = << >> /\ MediaIdle.seen = << >>
  BY DEF MediaIdle

\* A list of attachments names every row once.
LEMMA ListFacts ==
  ASSUME NEW l \in Lists
  PROVE  /\ l \in Seq(RowIds) /\ DOMAIN l = 1 .. Len(l) /\ Len(l) \in Nat
         /\ \A i \in DOMAIN l : l[i] \in RowIds
         /\ \A i, k \in DOMAIN l : l[i] = l[k] => i = k
<1>1. PICK n \in 1 .. MaxAttachments : l \in [1 .. n -> RowIds]
  BY DEF Lists
<1>2. n \in Nat
  BY <1>1, MediaStoreAssumptions
<1> QED
  BY <1>1, <1>2 DEF Lists

\* Rows stay, with owner and digest, and what may be attached or is deleted does
\* not go into review.
RowsGoOn ==
  \A r \in RowIds : rows[r] # None =>
    /\ rows'[r] # None /\ rows'[r].owner = rows[r].owner /\ rows'[r].digest = rows[r].digest
    /\ rows[r].state \in {"ready", "deleted"} => rows'[r].state \in {"ready", "deleted"}

LEMMA FormedStays ==
  ASSUME MediaTyped, NEW j \in MediaJobs, Formed(j), RowsGoOn,
         j.post # None => posts'[j.post] = posts[j.post]
  PROVE  Formed(j)'
<1>1. FormedUpload(j)' <=> FormedUpload(j)
  BY DEF FormedUpload
<1>2. j.op = "delete" => FormedDelete(j)'
  <2>1. j.op = "delete" => j.ids[1] \in RowIds
    BY DEF Formed, FormedDelete, MediaJobs
  <2> QED
    BY <2>1 DEF Formed, FormedDelete, RowsGoOn
<1>3. j.op = "attach" => FormedAttach(j)'
  <2> SUFFICES ASSUME j.op = "attach" PROVE FormedAttach(j)'
    OBVIOUS
  <2>1. FormedAttach(j) /\ \A i \in DOMAIN j.ids : j.ids[i] \in RowIds
    BY ListFacts DEF Formed, FormedAttach
  <2>2. j.post # None
    BY <2>1, MediaNone DEF FormedAttach
  <2>3. \A i \in DOMAIN j.ids : rows'[j.ids[i]] # None /\ rows'[j.ids[i]].owner = j.who
                                /\ rows'[j.ids[i]].state \in {"ready", "deleted"}
    BY <2>1 DEF FormedAttach, RowsGoOn
  <2>4. Lists' = Lists
    BY DEF Lists
  <2> QED
    BY <2>1, <2>2, <2>3, <2>4 DEF FormedAttach
<1> QED
  BY <1>1, <1>2, <1>3 DEF Formed

\* A step of one request.
LEMMA StepBase ==
  ASSUME MediaBase, NEW h \in Handlers, NEW j \in MediaJobs, job' = [job EXCEPT ![h] = j],
         MediaTyped', RowsGoOn, AttachedMediaIsOwn', Formed(j)',
         j.post = None \/ \A k \in Handlers \ {h} : job[k].post # j.post,
         \A k \in Handlers \ {h} : job[k].post # None => posts'[job[k].post] = posts[job[k].post]
  PROVE  MediaBase'
<1>1. job'[h] = j /\ \A k \in Handlers \ {h} : job'[k] = job[k]
  BY DEF MediaBase, MediaTyped
<1>2. ASSUME NEW k \in Handlers PROVE Formed(job[k])'
  <2>1. CASE k = h
    BY <1>1, <2>1 DEF Formed, FormedUpload, FormedDelete, FormedAttach
  <2>2. CASE k # h
    <3>1. PICK g \in MediaJobs : g = job[k] /\ g = job'[k]
      BY <1>1, <2>2 DEF MediaBase, MediaTyped
    <3>2. Formed(g)'
      BY <2>2, <3>1, FormedStays DEF MediaBase
    <3> QED
      BY <3>1, <3>2 DEF Formed, FormedUpload, FormedDelete, FormedAttach
  <2> QED
    BY <2>1, <2>2
<1>3. OnePerPost'
  BY <1>1 DEF OnePerPost, MediaBase
<1> QED
  BY <1>2, <1>3 DEF MediaBase

\* Such a step that leaves the rows and the posts alone.
LEMMA JobBase ==
  ASSUME MediaBase, NEW h \in Handlers, NEW j \in MediaJobs, job' = [job EXCEPT ![h] = j],
         Formed(j), UNCHANGED <<rows, posts>>,
         files' \subseteq Digests, disturbed' \subseteq Digests, contended' \subseteq RowIds,
         requests' \in 0 .. MaxRequests,
         j.post = None \/ \A k \in Handlers \ {h} : job[k].post # j.post
  PROVE  MediaBase'
<1>1. MediaTyped'
  BY DEF MediaBase, MediaTyped
<1>2. RowsGoOn
  BY DEF RowsGoOn
<1>3. AttachedMediaIsOwn'
  BY DEF MediaBase, AttachedMediaIsOwn
<1>4. Formed(j)'
  BY <1>2, FormedStays DEF MediaBase
<1> QED
  BY <1>1, <1>2, <1>3, <1>4, StepBase

LEMMA MediaInitBase == MediaInit => MediaBase
<1> SUFFICES ASSUME MediaInit PROVE MediaBase
  OBVIOUS
<1>1. MediaTyped
  BY MediaIdleFits, MediaStoreAssumptions DEF MediaInit, MediaTyped
<1>2. AttachedMediaIsOwn
  BY DEF MediaInit, AttachedMediaIsOwn
<1> QED
  BY <1>1, <1>2, MediaIdleFits DEF MediaInit, MediaBase, OnePerPost

LEMMA MediaJobTyped ==
  ASSUME MediaBase, NEW h \in Handlers
  PROVE  job[h] \in MediaJobs /\ Formed(job[h])
  BY DEF MediaBase, MediaTyped

\* A request that begins.
LEMMA BeginBase ==
  ASSUME MediaBase, NEW h \in Handlers, NEW j \in MediaJobs, Begin(h, j), Formed(j),
         UNCHANGED <<rows, files, posts>>, disturbed' \subseteq Digests,
         contended' \subseteq RowIds,
         j.post = None \/ \A k \in Handlers \ {h} : job[k].post # j.post
  PROVE  MediaBase'
<1>1. files' \subseteq Digests /\ requests' \in 0 .. MaxRequests
  BY MediaStoreAssumptions DEF Begin, MediaBase, MediaTyped
<1> QED
  BY <1>1, JobBase DEF Begin

\* One that goes on, with the same post.
LEMMA MoveBase ==
  ASSUME MediaBase, NEW h \in Handlers, NEW j \in MediaJobs, Move(h, j), Formed(j),
         UNCHANGED <<rows, posts, contended>>, files' \subseteq Digests,
         disturbed' \subseteq Digests, j.post \in {None, job[h].post}
  PROVE  MediaBase'
<1>1. contended' \subseteq RowIds /\ requests' \in 0 .. MaxRequests
  BY DEF Move, MediaBase, MediaTyped
<1>2. j.post = None \/ \A k \in Handlers \ {h} : job[k].post # j.post
  BY DEF MediaBase, OnePerPost
<1> QED
  BY <1>1, <1>2, JobBase DEF Move

LEMMA DisturbTyped ==
  ASSUME MediaBase, NEW ds, Disturb(ds), ds \subseteq Digests \cup {None}
  PROVE  disturbed' \subseteq Digests
  BY DEF Disturb, MediaBase, MediaTyped

LEMMA DigestTyped ==
  ASSUME NEW j \in MediaJobs, Formed(j)
  PROVE  Digest(j) \in Digests \cup {None}
<1>1. j.op = "upload" /\ j.new # None => j.new.digest \in Digests \cup {None}
  BY DEF MediaJobs, Row
<1>2. j.op = "delete" => j.seen[1].digest \in Digests \cup {None}
  <2>1. j.op = "delete" => j.seen \in Seq(Row) /\ Len(j.seen) = 1
    BY DEF MediaJobs, Formed, FormedDelete
  <2>2. j.op = "delete" => j.seen[1] \in Row
    BY <2>1
  <2> QED
    BY <2>2 DEF Row
<1> QED
  BY <1>1, <1>2 DEF Digest

LEMMA CountLiveBase ==
  ASSUME MediaBase, NEW h \in Handlers, NEW p \in Profiles, CountLive(h, p)
  PROVE  MediaBase'
<1> DEFINE j == [MediaIdle EXCEPT !.op = "upload", !.at = "scanning", !.who = p]
<1>1. j \in MediaJobs /\ Formed(j) /\ j.post = None
  BY MediaIdleFits, MediaIdleFields DEF MediaJobs, Ops, MediaSteps, Formed, FormedUpload
<1>2. Begin(h, j) /\ UNCHANGED <<rows, files, posts, disturbed, contended>>
  BY DEF CountLive
<1>3. disturbed' \subseteq Digests /\ contended' \subseteq RowIds
  BY <1>2 DEF MediaBase, MediaTyped
<1> QED
  BY <1>1, <1>2, <1>3, BeginBase

LEMMA NewRowFits ==
  ASSUME NEW j \in MediaJobs, FormedUpload(j),
         NEW s \in {"ready", "review", "rejected"}, NEW d \in Digests \cup {None}
  PROVE  /\ NewRow(j, s, d) \in Row /\ NewRow(j, s, d) # None
         /\ NewRow(j, s, d).owner = j.who /\ NewRow(j, s, d).post = None
         /\ NewRow(j, s, d).state = s /\ NewRow(j, s, d).digest = d
<1>1. NewRow(j, s, d) \in Row
  BY DEF NewRow, Row, FormedUpload
<1> QED
  BY <1>1, MediaNone DEF NewRow

LEMMA RejectBase == ASSUME MediaBase, NEW h \in Handlers, Reject(h) PROVE MediaBase'
<1>1. job[h] \in MediaJobs /\ Formed(job[h]) /\ FormedUpload(job[h])
  BY MediaJobTyped DEF Reject, Formed
<1>2. PICK row : /\ row = NewRow(job[h], "rejected", None) /\ row \in Row /\ row # None
                 /\ row.owner = job[h].who /\ row.post = None /\ row.state = "rejected"
                 /\ row.digest = None
  BY <1>1, NewRowFits
<1> DEFINE j == [job[h] EXCEPT !.at = "committing", !.new = row]
<1>3. j \in MediaJobs /\ Formed(j) /\ j.post = job[h].post
  BY <1>1, <1>2 DEF Reject, MediaJobs, MediaSteps, Formed, FormedUpload
<1>4. Move(h, j) /\ UNCHANGED <<rows, files, posts, disturbed, contended>>
  BY <1>2 DEF Reject
<1>5. files' \subseteq Digests /\ disturbed' \subseteq Digests
  BY <1>4 DEF MediaBase, MediaTyped
<1> QED
  BY <1>3, <1>4, <1>5, MoveBase

LEMMA EncodeBase ==
  ASSUME MediaBase, NEW h \in Handlers, NEW d \in Digests, NEW s \in FirstStates,
         Encode(h, d, s)
  PROVE  MediaBase'
<1>1. job[h] \in MediaJobs /\ Formed(job[h]) /\ FormedUpload(job[h])
  BY MediaJobTyped DEF Encode, Formed
<1>2. PICK row : /\ row = NewRow(job[h], s, d) /\ row \in Row /\ row # None
                 /\ row.owner = job[h].who /\ row.post = None
                 /\ row.state \in {"ready", "review"} /\ row.digest = d
  BY <1>1, NewRowFits, MediaStoreAssumptions
<1> DEFINE j == [job[h] EXCEPT !.at = "storing", !.new = row]
<1>3. j \in MediaJobs /\ Formed(j) /\ j.post = job[h].post
  BY <1>1, <1>2, MediaNone DEF Encode, MediaJobs, MediaSteps, Formed, FormedUpload
<1>4. Move(h, j) /\ UNCHANGED <<rows, files, posts, contended>>
  BY <1>2 DEF Encode
<1>5. files' \subseteq Digests /\ disturbed' \subseteq Digests
  BY <1>4 DEF Encode, Disturb, MediaBase, MediaTyped
<1> QED
  BY <1>3, <1>4, <1>5, MoveBase

LEMMA PutBase == ASSUME MediaBase, NEW h \in Handlers, Put(h) PROVE MediaBase'
<1>1. job[h] \in MediaJobs /\ Formed(job[h]) /\ FormedUpload(job[h])
  BY MediaJobTyped DEF Put, Formed
<1> DEFINE j == [job[h] EXCEPT !.at = "committing"]
<1>2. j \in MediaJobs /\ Formed(j) /\ j.post = job[h].post
  BY <1>1 DEF Put, MediaJobs, MediaSteps, Formed, FormedUpload
<1>3. job[h].new.digest \in Digests
  BY <1>1 DEF Put, FormedUpload, Row
<1>4. /\ Move(h, j) /\ UNCHANGED <<rows, posts, disturbed, contended>>
      /\ files' \subseteq Digests /\ disturbed' \subseteq Digests
  BY <1>3 DEF Put, MediaBase, MediaTyped
<1> QED
  BY <1>2, <1>4, MoveBase

LEMMA StartDeleteBase ==
  ASSUME MediaBase, NEW h \in Handlers, NEW r \in RowIds, StartDelete(h, r)
  PROVE  MediaBase'
<1>1. rows[r] # None /\ rows[r] \in Row
  BY DEF StartDelete, MediaBase, MediaTyped
<1> DEFINE j == [MediaIdle EXCEPT !.op = "delete", !.at = "counting", !.who = rows[r].owner,
                                  !.ids = <<r>>, !.seen = <<rows[r]>>]
<1>2. <<r>> \in Seq(RowIds) /\ <<rows[r]>> \in Seq(Row) /\ rows[r].owner \in Profiles
  BY <1>1 DEF Row
<1>3. j \in MediaJobs /\ Formed(j) /\ j.post = None
  BY <1>1, <1>2 DEF MediaIdle, MediaJobs, Ops, MediaSteps, Formed, FormedDelete
<1>4. Begin(h, j) /\ UNCHANGED <<rows, files, posts, contended>>
  BY DEF StartDelete
<1>5. disturbed' \subseteq Digests
  BY <1>1, DisturbTyped DEF StartDelete, Row
<1>6. contended' \subseteq RowIds
  BY <1>4 DEF MediaBase, MediaTyped
<1> QED
  BY <1>3, <1>4, <1>5, <1>6, BeginBase

LEMMA DeleteMovesBase ==
  ASSUME MediaBase, NEW h \in Handlers, CountReferences(h) \/ MarkDeleted(h) \/ Unlink(h)
  PROVE  MediaBase'
<1>1. /\ job[h] \in MediaJobs /\ Formed(job[h]) /\ FormedDelete(job[h])
      /\ job[h].op = "delete" /\ Digest(job[h]) = job[h].seen[1].digest
  BY MediaJobTyped DEF CountReferences, MarkDeleted, Unlink, Formed, Digest
<1>2. CASE CountReferences(h)
  <2> DEFINE j == [job[h] EXCEPT !.at = "marking",
                     !.others = /\ Digest(job[h]) # None
                                /\ References(Digest(job[h]), job[h].ids[1]) # {}]
  <2>1. j \in MediaJobs /\ Formed(j) /\ j.post = job[h].post
    BY <1>1 DEF MediaJobs, MediaSteps, Formed, FormedDelete
  <2>2. Move(h, j) /\ UNCHANGED <<rows, files, posts, disturbed, contended>>
    BY <1>2 DEF CountReferences
  <2>3. files' \subseteq Digests /\ disturbed' \subseteq Digests
    BY <2>2 DEF MediaBase, MediaTyped
  <2> QED
    BY <2>1, <2>2, <2>3, MoveBase
<1>3. CASE MarkDeleted(h)
  <2> DEFINE j == [job[h] EXCEPT !.at = IF Digest(job[h]) = None \/ job[h].others
                                        THEN "committing" ELSE "unlinking"]
  <2>1. j \in MediaJobs /\ Formed(j) /\ j.post = job[h].post
    BY <1>1 DEF MediaJobs, MediaSteps, Formed, FormedDelete
  <2>2. Move(h, j) /\ UNCHANGED <<rows, files, posts, disturbed, contended>>
    BY <1>3 DEF MarkDeleted
  <2>3. files' \subseteq Digests /\ disturbed' \subseteq Digests
    BY <2>2 DEF MediaBase, MediaTyped
  <2> QED
    BY <2>1, <2>2, <2>3, MoveBase
<1>4. CASE Unlink(h)
  <2> DEFINE j == [job[h] EXCEPT !.at = "committing"]
  <2>1. j \in MediaJobs /\ Formed(j) /\ j.post = job[h].post
    BY <1>1 DEF MediaJobs, MediaSteps, Formed, FormedDelete
  <2>2. Move(h, j) /\ UNCHANGED <<rows, posts, contended>>
    BY <1>4 DEF Unlink
  <2>3. files' \subseteq Digests /\ disturbed' \subseteq Digests
    BY <1>1, <1>4, DigestTyped DEF Unlink, Disturb, MediaBase, MediaTyped
  <2> QED
    BY <2>1, <2>2, <2>3, MoveBase
<1> QED
  BY <1>2, <1>3, <1>4

LEMMA StartAttachBase ==
  ASSUME MediaBase, NEW h \in Handlers, NEW p \in Profiles, NEW x \in Posts,
         NEW list \in Lists, StartAttach(h, p, x, list)
  PROVE  MediaBase'
<1>1. /\ list \in Seq(RowIds) /\ DOMAIN list = 1 .. Len(list) /\ Len(list) \in Nat
      /\ \A i \in DOMAIN list : list[i] \in RowIds
  BY ListFacts
<1>2. \A i \in DOMAIN list : rows[list[i]] \in Row /\ Attachable(p, list[i])
  BY <1>1 DEF StartAttach, Attachable, MediaBase, MediaTyped
<1> DEFINE found == [i \in DOMAIN list |-> rows[list[i]]]
<1>3. found \in Seq(Row) /\ Len(found) = Len(list)
  BY <1>1, <1>2
<1> DEFINE j == [MediaIdle EXCEPT !.op = "attach", !.at = "marking", !.who = p, !.post = x,
                                  !.ids = list, !.seen = found]
<1> HIDE DEF found
<1>4. j \in MediaJobs /\ j.post = x
  BY <1>1, <1>3, MediaIdleFits DEF MediaJobs, Ops, MediaSteps
<1>5. Formed(j)
  <2>1. j.op = "attach" /\ j.at = "marking" /\ j.who = p /\ j.ids = list /\ j.seen = found
    BY MediaIdleFits DEF MediaJobs
  <2>2. posts[x] = None
    BY DEF StartAttach
  <2> QED
    BY <1>2, <1>3, <1>4, <2>1, <2>2 DEF Formed, FormedAttach, Attachable
<1>6. Begin(h, j) /\ UNCHANGED <<rows, files, posts, disturbed>>
  BY DEF StartAttach, found
<1>7. \A k \in Handlers \ {h} : job[k].post # j.post
  BY <1>4 DEF StartAttach
<1>8. contended' \subseteq RowIds /\ disturbed' \subseteq Digests
  BY <1>1 DEF StartAttach, MediaBase, MediaTyped
<1> QED
  BY <1>4, <1>5, <1>6, <1>7, <1>8, BeginBase

LEMMA MarkAttachedBase ==
  ASSUME MediaBase, NEW h \in Handlers, MarkAttached(h) PROVE MediaBase'
<1>1. job[h] \in MediaJobs /\ Formed(job[h]) /\ FormedAttach(job[h]) /\ job[h].op = "attach"
  BY MediaJobTyped DEF MarkAttached, Formed
<1> DEFINE j == [job[h] EXCEPT !.at = "committing"]
<1>2. j \in MediaJobs /\ Formed(j) /\ j.post = job[h].post
  BY <1>1 DEF MediaJobs, MediaSteps, Formed, FormedAttach
<1>3. Move(h, j) /\ UNCHANGED <<rows, files, posts, disturbed, contended>>
  BY DEF MarkAttached
<1>4. files' \subseteq Digests /\ disturbed' \subseteq Digests
  BY <1>3 DEF MediaBase, MediaTyped
<1> QED
  BY <1>2, <1>3, <1>4, MoveBase

LEMMA CutBase == ASSUME MediaBase, NEW h \in Handlers, Cut(h) PROVE MediaBase'
<1>1. Move(h, MediaIdle) /\ UNCHANGED <<rows, files, posts, contended>>
  BY DEF Cut, Finish
<1>2. disturbed' \subseteq Digests
  BY MediaJobTyped, DigestTyped, DisturbTyped DEF Cut
<1>3. files' \subseteq Digests
  BY <1>1 DEF MediaBase, MediaTyped
<1> QED
  BY <1>1, <1>2, <1>3, MediaIdleFits, MoveBase

\* A request that commits: it writes rows and perhaps its post, and ends.
LEMMA CommitBase ==
  ASSUME MediaBase, NEW h \in Handlers, Finish(h), RowsGoOn, AttachedMediaIsOwn',
         UNCHANGED <<files, disturbed, contended>>,
         rows' \in [RowIds -> Row \cup {None}], posts' \in [Posts -> Post \cup {None}],
         \A x \in Posts : posts'[x] = posts[x] \/ x = job[h].post
  PROVE  MediaBase'
<1>1. MediaTyped'
  BY MediaIdleFits DEF MediaBase, MediaTyped, Finish, Move
<1>2. \A k \in Handlers \ {h} : job[k].post # None => posts'[job[k].post] = posts[job[k].post]
  BY DEF MediaBase, MediaTyped, OnePerPost, MediaJobs
<1>3. job' = [job EXCEPT ![h] = MediaIdle]
  BY DEF Finish, Move
<1>4. Formed(MediaIdle)'
  BY DEF Formed, MediaIdle
<1> QED
  BY <1>1, <1>2, <1>3, <1>4, MediaIdleFits, StepBase

LEMMA CommitUploadBase ==
  ASSUME MediaBase, NEW h \in Handlers, CommitUpload(h) PROVE MediaBase'
<1>1. PICK r \in RowIds : rows[r] = None /\ rows' = [rows EXCEPT ![r] = job[h].new]
  BY DEF CommitUpload
<1>2. job[h].new \in Row /\ job[h].new.post = None
  BY MediaJobTyped DEF CommitUpload, Formed, FormedUpload
<1>3. rows \in [RowIds -> Row \cup {None}] /\ posts \in [Posts -> Post \cup {None}]
  BY DEF MediaBase, MediaTyped
<1>4. rows'[r] = job[h].new /\ \A q \in RowIds \ {r} : rows'[q] = rows[q]
  BY <1>1, <1>3
<1>5. RowsGoOn
  BY <1>1, <1>4 DEF RowsGoOn
<1>6. AttachedMediaIsOwn'
  BY <1>2, <1>4 DEF MediaBase, AttachedMediaIsOwn, CommitUpload
<1>7. rows' \in [RowIds -> Row \cup {None}]
  BY <1>1, <1>2, <1>3
<1> QED
  BY <1>3, <1>5, <1>6, <1>7, CommitBase DEF CommitUpload

\* What CommitDelete writes.
LEMMA DeletedRow ==
  ASSUME MediaBase, NEW h \in Handlers, CommitDelete(h)
  PROVE  \E r \in RowIds :
           /\ r = job[h].ids[1] /\ rows[r] # None /\ rows'[r] \in Row
           /\ rows'[r].owner = rows[r].owner /\ rows'[r].digest = rows[r].digest
           /\ rows'[r].state = "deleted" /\ rows'[r].post \in {None, rows[r].post}
           /\ rows'[r].digest = Digest(job[h])
           /\ rows' \in [RowIds -> Row \cup {None}]
           /\ \A q \in RowIds \ {r} : rows'[q] = rows[q]
<1>1. /\ job[h] \in MediaJobs /\ FormedDelete(job[h])
      /\ Digest(job[h]) = job[h].seen[1].digest
  BY MediaJobTyped DEF CommitDelete, Formed, Digest
<1>2. job[h].ids[1] \in RowIds
  BY <1>1 DEF MediaJobs, FormedDelete
<1>3. PICK r \in RowIds : r = job[h].ids[1]
  BY <1>2
<1>4. rows[r] \in Row /\ rows \in [RowIds -> Row \cup {None}]
  BY <1>1, <1>3 DEF FormedDelete, MediaBase, MediaTyped
<1>5. PICK post \in {None, rows[r].post} :
        rows' = [rows EXCEPT ![r] = [rows[r] EXCEPT !.state = "deleted", !.post = post]]
  <2>1. rows' = [rows EXCEPT ![r].state = "deleted",
                   ![r].post = IF job[h].seen[1].post # None THEN None ELSE @]
    BY <1>3 DEF CommitDelete
  <2>2. rows' = [rows EXCEPT ![r] = [rows[r] EXCEPT !.state = "deleted",
                   !.post = IF job[h].seen[1].post # None THEN None ELSE rows[r].post]]
    BY <1>4, <2>1 DEF Row
  <2> QED
    BY <2>2
<1>6. [rows[r] EXCEPT !.state = "deleted", !.post = post] \in Row
  BY <1>4, <1>5 DEF Row
<1>7. /\ rows'[r] = [rows[r] EXCEPT !.state = "deleted", !.post = post]
      /\ rows' \in [RowIds -> Row \cup {None}]
      /\ \A q \in RowIds \ {r} : rows'[q] = rows[q]
  BY <1>4, <1>5, <1>6
<1>8. /\ rows'[r].owner = rows[r].owner /\ rows'[r].digest = rows[r].digest
      /\ rows'[r].state = "deleted" /\ rows'[r].post \in {None, rows[r].post}
  BY <1>4, <1>5, <1>7 DEF Row
<1>9. rows[r] # None /\ rows[r].digest = Digest(job[h])
  BY <1>1, <1>3 DEF FormedDelete
<1> QED
  BY <1>3, <1>6, <1>7, <1>8, <1>9

LEMMA CommitDeleteBase ==
  ASSUME MediaBase, NEW h \in Handlers, CommitDelete(h) PROVE MediaBase'
<1>1. PICK r \in RowIds :
        /\ rows[r] # None /\ rows'[r] \in Row
        /\ rows'[r].owner = rows[r].owner /\ rows'[r].digest = rows[r].digest
        /\ rows'[r].state = "deleted" /\ rows'[r].post \in {None, rows[r].post}
        /\ rows' \in [RowIds -> Row \cup {None}]
        /\ \A q \in RowIds \ {r} : rows'[q] = rows[q]
  BY DeletedRow
<1>2. RowsGoOn
  BY <1>1, MediaNone DEF RowsGoOn
<1>3. AttachedMediaIsOwn'
  <2>1. UNCHANGED posts
    BY DEF CommitDelete
  <2> QED
    BY <1>1, <2>1 DEF MediaBase, AttachedMediaIsOwn
<1> QED
  BY <1>1, <1>2, <1>3, CommitBase DEF CommitDelete, MediaBase, MediaTyped

\* What CommitPost writes: every row of the list gets the post and its place in it.
LEMMA PlacedRows ==
  ASSUME MediaBase, NEW h \in Handlers, CommitPost(h)
  PROVE  LET j == job[h] IN
         /\ j \in MediaJobs /\ FormedAttach(j)
         /\ rows' \in [RowIds -> Row \cup {None}]
         /\ posts' \in [Posts -> Post \cup {None}]
         /\ posts'[j.post] = [author |-> j.who, media |-> j.ids]
         /\ \A x \in Posts \ {j.post} : posts'[x] = posts[x]
         /\ \A r \in RowIds \ Ids(j) : rows'[r] = rows[r]
         /\ \A i \in DOMAIN j.ids :
              /\ j.ids[i] \in RowIds /\ rows[j.ids[i]] \in Row /\ rows'[j.ids[i]] \in Row
              /\ rows'[j.ids[i]].owner = rows[j.ids[i]].owner
              /\ rows'[j.ids[i]].state = rows[j.ids[i]].state
              /\ rows'[j.ids[i]].digest = rows[j.ids[i]].digest
              /\ rows'[j.ids[i]].post = j.post
              /\ rows'[j.ids[i]].position =
                   IF j.seen[i].position = i - 1 THEN rows[j.ids[i]].position ELSE i - 1
<1> DEFINE j == job[h]
<1>1. j \in MediaJobs /\ FormedAttach(j)
  BY MediaJobTyped DEF CommitPost, Formed
<1>2. /\ j.ids \in Seq(RowIds) /\ DOMAIN j.ids = 1 .. Len(j.ids) /\ Len(j.ids) \in Nat
      /\ \A i \in DOMAIN j.ids : j.ids[i] \in RowIds
      /\ \A i, k \in DOMAIN j.ids : j.ids[i] = j.ids[k] => i = k
  BY <1>1, ListFacts DEF FormedAttach
<1>3. /\ rows' = [r \in RowIds |->
            IF r \in Ids(j) THEN LET i == CHOOSE i \in DOMAIN j.ids : j.ids[i] = r
                                 IN  Place(j, i, rows[r])
            ELSE rows[r]]
      /\ posts' = [posts EXCEPT ![j.post] = [author |-> j.who, media |-> j.ids]]
  BY DEF CommitPost
<1>4. rows \in [RowIds -> Row \cup {None}] /\ posts \in [Posts -> Post \cup {None}]
  BY DEF MediaBase, MediaTyped
<1>5. ASSUME NEW i \in DOMAIN j.ids
      PROVE  /\ j.ids[i] \in RowIds /\ rows[j.ids[i]] \in Row
             /\ rows'[j.ids[i]] = Place(j, i, rows[j.ids[i]])
  <2>1. rows[j.ids[i]] # None
    BY <1>1 DEF FormedAttach
  <2>2. (CHOOSE k \in DOMAIN j.ids : j.ids[k] = j.ids[i]) = i
    BY <1>2
  <2>3. j.ids[i] \in Ids(j)
    BY DEF Ids
  <2> QED
    BY <1>2, <1>3, <1>4, <2>1, <2>2, <2>3
<1>6. ASSUME NEW i \in DOMAIN j.ids, NEW row \in Row
      PROVE  /\ Place(j, i, row) \in Row
             /\ Place(j, i, row).owner = row.owner /\ Place(j, i, row).state = row.state
             /\ Place(j, i, row).digest = row.digest /\ Place(j, i, row).post = j.post
             /\ Place(j, i, row).position =
                  IF j.seen[i].position = i - 1 THEN row.position ELSE i - 1
  <2>1. j.post \in Posts /\ i - 1 \in Nat /\ row.position \in Nat
    BY <1>1, <1>2 DEF FormedAttach, Row
  <2> QED
    BY <2>1 DEF Place, Row
<1>7. \A r \in RowIds \ Ids(j) : rows'[r] = rows[r]
  BY <1>3
<1>8. rows' \in [RowIds -> Row \cup {None}]
  <2>1. ASSUME NEW r \in RowIds PROVE rows'[r] \in Row \cup {None}
    <3>1. CASE r \in Ids(j)
      <4>1. PICK i \in DOMAIN j.ids : j.ids[i] = r
        BY <3>1 DEF Ids
      <4> QED
        BY <1>5, <1>6, <4>1
    <3>2. CASE r \notin Ids(j)
      BY <1>4, <1>7, <3>2
    <3> QED
      BY <3>1, <3>2
  <2>2. rows' = [r \in RowIds |-> rows'[r]]
    BY <1>3
  <2> QED
    BY <2>1, <2>2
<1>9. /\ posts' \in [Posts -> Post \cup {None}]
      /\ posts'[j.post] = [author |-> j.who, media |-> j.ids]
      /\ \A x \in Posts \ {j.post} : posts'[x] = posts[x]
  BY <1>1, <1>2, <1>3, <1>4 DEF FormedAttach, Post
<1>10. ASSUME NEW i \in DOMAIN j.ids
       PROVE  /\ j.ids[i] \in RowIds /\ rows[j.ids[i]] \in Row /\ rows'[j.ids[i]] \in Row
              /\ rows'[j.ids[i]].owner = rows[j.ids[i]].owner
              /\ rows'[j.ids[i]].state = rows[j.ids[i]].state
              /\ rows'[j.ids[i]].digest = rows[j.ids[i]].digest
              /\ rows'[j.ids[i]].post = j.post
              /\ rows'[j.ids[i]].position =
                   IF j.seen[i].position = i - 1 THEN rows[j.ids[i]].position ELSE i - 1
  BY <1>5, <1>6
<1> QED
  BY <1>1, <1>7, <1>8, <1>9, <1>10

LEMMA PlacedRow ==
  ASSUME MediaBase, NEW h \in Handlers, CommitPost(h), NEW r \in Ids(job[h])
  PROVE  /\ r \in RowIds /\ rows[r] \in Row /\ rows[r] # None /\ rows'[r] \in Row
         /\ rows'[r].owner = rows[r].owner /\ rows'[r].digest = rows[r].digest
         /\ rows'[r].state = rows[r].state /\ rows'[r].post = job[h].post
         /\ rows[r].owner = job[h].who
<1>1. PICK i \in DOMAIN job[h].ids : job[h].ids[i] = r
  BY DEF Ids
<1>2. FormedAttach(job[h])
  BY PlacedRows
<1>3. /\ r \in RowIds /\ rows[r] \in Row /\ rows'[r] \in Row
      /\ rows'[r].owner = rows[r].owner /\ rows'[r].digest = rows[r].digest
      /\ rows'[r].state = rows[r].state /\ rows'[r].post = job[h].post
  BY <1>1, PlacedRows
<1>4. rows[r].owner = job[h].who
  BY <1>1, <1>2 DEF FormedAttach
<1> QED
  BY <1>3, <1>4, MediaNone

LEMMA CommitPostBase ==
  ASSUME MediaBase, NEW h \in Handlers, CommitPost(h) PROVE MediaBase'
<1> DEFINE j == job[h]
<1>1. /\ FormedAttach(j)
      /\ rows' \in [RowIds -> Row \cup {None}]
      /\ posts' \in [Posts -> Post \cup {None}]
      /\ posts'[j.post] = [author |-> j.who, media |-> j.ids]
      /\ \A x \in Posts \ {j.post} : posts'[x] = posts[x]
      /\ \A r \in RowIds \ Ids(j) : rows'[r] = rows[r]
  BY PlacedRows
<1>2. ASSUME NEW r \in RowIds, r \in Ids(j)
      PROVE  /\ rows'[r] \in Row /\ rows'[r].owner = rows[r].owner
             /\ rows'[r].digest = rows[r].digest /\ rows'[r].state = rows[r].state
             /\ rows'[r].post = j.post /\ rows[r].owner = j.who
  BY <1>2, PlacedRow
<1>3. RowsGoOn
  BY <1>1, <1>2, MediaNone DEF RowsGoOn
<1>4. AttachedMediaIsOwn'
  <2>1. ASSUME NEW r \in RowIds, rows'[r] # None, rows'[r].post # None
        PROVE  /\ posts'[rows'[r].post] # None
               /\ posts'[rows'[r].post].author = rows'[r].owner
    <3>1. CASE r \in Ids(j)
      <4>1. [author |-> j.who, media |-> j.ids] \in Post
        BY <1>1, ListFacts DEF FormedAttach, Post
      <4> QED
        BY <1>1, <1>2, <3>1, <4>1, MediaNone
    <3>2. CASE r \notin Ids(j)
      <4>1. rows[r] \in Row /\ rows'[r] = rows[r] /\ rows[r].post \in Posts
        BY <1>1, <2>1, <3>2 DEF MediaBase, MediaTyped, Row
      <4>2. rows[r].post # j.post
        BY <1>1, <2>1, <4>1 DEF MediaBase, AttachedMediaIsOwn, FormedAttach
      <4> QED
        BY <1>1, <2>1, <4>1, <4>2 DEF MediaBase, AttachedMediaIsOwn
    <3> QED
      BY <3>1, <3>2
  <2> QED
    BY <2>1 DEF AttachedMediaIsOwn
<1>5. Finish(h) /\ UNCHANGED <<files, disturbed, contended>>
  BY DEF CommitPost
<1> QED
  BY <1>1, <1>3, <1>4, <1>5, CommitBase

LEMMA ReleaseBase ==
  ASSUME MediaBase, NEW r \in RowIds, Release(r) PROVE MediaBase'
<1>1. rows \in [RowIds -> Row \cup {None}] /\ rows[r] \in Row
  BY DEF MediaBase, MediaTyped, Release
<1>2. /\ rows'[r] = [rows[r] EXCEPT !.state = "ready"]
      /\ rows' \in [RowIds -> Row \cup {None}]
      /\ \A q \in RowIds \ {r} : rows'[q] = rows[q]
  BY <1>1 DEF Release, Row
<1>3. /\ rows'[r] \in Row /\ rows'[r].owner = rows[r].owner
      /\ rows'[r].digest = rows[r].digest
      /\ rows'[r].post = rows[r].post /\ rows'[r].state = "ready"
  BY <1>1, <1>2 DEF Row
<1>4. UNCHANGED <<files, posts, job, disturbed, contended, requests>>
  BY DEF Release
<1>5. RowsGoOn
  BY <1>2, <1>3, MediaNone DEF RowsGoOn
<1>6. ASSUME NEW k \in Handlers PROVE Formed(job[k])'
  <2>1. PICK g \in MediaJobs : g = job[k] /\ g = job'[k]
    BY <1>4, MediaJobTyped
  <2>2. Formed(g)'
    BY <1>4, <1>5, <2>1, FormedStays, MediaJobTyped DEF MediaBase
  <2> QED
    BY <2>1, <2>2 DEF Formed, FormedUpload, FormedDelete, FormedAttach
<1>7. MediaTyped' /\ OnePerPost'
  BY <1>2, <1>4 DEF MediaBase, MediaTyped, OnePerPost
<1>8. AttachedMediaIsOwn'
  BY <1>2, <1>3, <1>4 DEF MediaBase, AttachedMediaIsOwn, Release
<1> QED
  BY <1>6, <1>7, <1>8 DEF MediaBase

LEMMA StutterBase == MediaBase /\ UNCHANGED mediaVars => MediaBase'
  BY DEF mediaVars, MediaBase, MediaTyped, Formed, FormedUpload, FormedDelete, FormedAttach,
         OnePerPost, AttachedMediaIsOwn, Lists

LEMMA NextBase == MediaBase /\ [MediaNext]_mediaVars => MediaBase'
  BY CountLiveBase, EncodeBase, RejectBase, PutBase, CommitUploadBase, StartDeleteBase,
     DeleteMovesBase, CommitDeleteBase, StartAttachBase, MarkAttachedBase, CommitPostBase,
     CutBase, ReleaseBase, StutterBase DEF MediaNext

\* What every request has read is still there, and it plans what it may.
THEOREM MediaBaseInvariance == MediaSpec => []MediaBase
  BY MediaInitBase, NextBase, PTL DEF MediaSpec

(***************************************************************************)
(* How far the quota is overrun                                            *)
(***************************************************************************)

\* Uploads in flight whose row will count.
Uploading(p) ==
  { h \in Handlers : /\ job[h].op = "upload" /\ job[h].who = p
                     /\ job[h].new = None \/ job[h].new.state # "rejected" }

MediaQuota == \A p \in Profiles : Within(Live(p), Uploading(p), Handlers, MaxItems)

LEMMA MediaBounds ==
  /\ MaxItems \in Nat /\ IsFiniteSet(Handlers)
  /\ Cardinality(Handlers) \in Nat /\ Cardinality(Handlers) > 0
<1>1. MaxItems \in Nat /\ IsFiniteSet(Handlers) /\ Handlers # {}
  BY MediaStoreAssumptions
<1> QED
  BY <1>1, FS_CardinalityType, FS_EmptySet

LEMMA QuotaInit == MediaInit => MediaQuota
<1> SUFFICES ASSUME MediaInit, NEW p \in Profiles
             PROVE  Within(Live(p), Uploading(p), Handlers, MaxItems)
  BY DEF MediaQuota
<1>1. Live(p) = {} /\ Uploading(p) = {}
  BY MediaIdleFits DEF MediaInit, Live, Uploading
<1>2. IsFiniteSet({}) /\ Cardinality({}) = 0
  BY FS_EmptySet
<1> QED
  BY <1>1, <1>2, MediaBounds DEF Within

\* Rows do not begin to count.
NoneBeginsToCount ==
  \A r \in RowIds : \/ rows'[r] = rows[r]
                    \/ /\ rows[r] # None /\ rows'[r].owner = rows[r].owner
                       /\ \/ rows[r].state \notin {"rejected", "deleted"}
                          \/ rows'[r].state \in {"rejected", "deleted"}

LEMMA QuotaKept ==
  ASSUME MediaQuota, NEW p \in Profiles, NoneBeginsToCount,
         Uploading(p)' \subseteq Uploading(p)
  PROVE  Within(Live(p), Uploading(p), Handlers, MaxItems)'
<1>1. Live(p)' \in SUBSET Live(p)
  BY DEF Live, NoneBeginsToCount
<1>2. Uploading(p) \in SUBSET Handlers /\ Uploading(p)' \in SUBSET Uploading(p)
  BY DEF Uploading
<1>3. Within(Live(p)', Uploading(p)', Handlers, MaxItems)
  BY <1>1, <1>2, MediaBounds, FewerWithin DEF MediaQuota
<1> QED
  BY <1>3

\* A request that does not begin an upload.
LEMMA UploadingAfter ==
  ASSUME MediaBase, NEW h \in Handlers, \A k \in Handlers \ {h} : job'[k] = job[k],
         \/ job'[h].op # "upload"
         \/ /\ job[h].op = "upload" /\ job'[h].who = job[h].who
            /\ job[h].new \in {None, job'[h].new},
         NEW p
  PROVE  Uploading(p)' \subseteq Uploading(p)
  BY DEF Uploading

LEMMA QuotaJob ==
  ASSUME MediaBase, MediaQuota, NEW h \in Handlers,
         \A k \in Handlers \ {h} : job'[k] = job[k],
         \/ job'[h].op # "upload"
         \/ /\ job[h].op = "upload" /\ job'[h].who = job[h].who
            /\ job[h].new \in {None, job'[h].new},
         NoneBeginsToCount
  PROVE  MediaQuota'
  BY UploadingAfter, QuotaKept DEF MediaQuota

LEMMA MoveFacts ==
  ASSUME MediaBase, NEW h \in Handlers, NEW j, Move(h, j) \/ Begin(h, j)
  PROVE  job'[h] = j /\ \A k \in Handlers \ {h} : job'[k] = job[k]
  BY DEF Move, Begin, MediaBase, MediaTyped

LEMMA QuotaCountLive ==
  ASSUME MediaBase, MediaQuota, NEW h \in Handlers, NEW p \in Profiles, CountLive(h, p)
  PROVE  MediaQuota'
<1>1. /\ job'[h].who = p /\ \A k \in Handlers \ {h} : job'[k] = job[k]
      /\ UNCHANGED rows
  BY MoveFacts, MediaIdleFits DEF CountLive, Begin, MediaBase, MediaTyped, MediaJobs
<1>2. NoneBeginsToCount
  BY <1>1 DEF NoneBeginsToCount
<1>3. ASSUME NEW q \in Profiles \ {p} PROVE Within(Live(q), Uploading(q), Handlers, MaxItems)'
  <2>1. Uploading(q)' \subseteq Uploading(q)
    BY <1>1 DEF Uploading
  <2> QED
    BY <1>2, <2>1, QuotaKept
<1>4. Within(Live(p), Uploading(p), Handlers, MaxItems)'
  <2>1. Live(p)' = Live(p) /\ Uploading(p)' \in SUBSET Handlers
    BY <1>1 DEF Live, Uploading
  <2>2. IsFiniteSet(Live(p)) /\ Cardinality(Live(p)) < MaxItems
    BY DEF CountLive, MediaQuota, Within
  <2>3. Within(Live(p)', Uploading(p)', Handlers, MaxItems)
    BY <2>1, <2>2, MediaBounds, DecidedWithin
  <2> QED
    BY <2>3
<1> QED
  BY <1>3, <1>4 DEF MediaQuota

LEMMA QuotaCommitUpload ==
  ASSUME MediaBase, MediaQuota, NEW h \in Handlers, CommitUpload(h)
  PROVE  MediaQuota'
<1> DEFINE new == job[h].new
<1>1. PICK r \in RowIds : rows[r] = None /\ rows' = [rows EXCEPT ![r] = job[h].new]
  BY DEF CommitUpload
<1>2. rows'[r] = new /\ \A q \in RowIds \ {r} : rows'[q] = rows[q]
  BY <1>1 DEF MediaBase, MediaTyped
<1>3. new # None /\ new.owner = job[h].who
  BY MediaJobTyped, MediaNone DEF CommitUpload, Formed, FormedUpload
<1>4. job'[h].op = "idle" /\ \A k \in Handlers \ {h} : job'[k] = job[k]
  BY MoveFacts, MediaIdleFits DEF CommitUpload, Finish
<1> SUFFICES ASSUME NEW p \in Profiles
             PROVE  Within(Live(p)', Uploading(p)', Handlers, MaxItems)
  BY DEF MediaQuota
<1>5. Uploading(p) \in SUBSET Handlers /\ Uploading(p)' \in SUBSET (Uploading(p) \ {h})
  BY <1>4 DEF Uploading
<1>6. CASE h \in Uploading(p)
  <2>1. Live(p)' \in SUBSET (Live(p) \cup {r})
    BY <1>2 DEF Live
  <2> QED
    BY <1>5, <1>6, <2>1, MediaBounds, AddedWithin DEF MediaQuota
<1>7. CASE h \notin Uploading(p)
  <2>1. new.owner = p => new.state = "rejected"
    BY <1>3, <1>7 DEF Uploading, CommitUpload
  <2>2. Live(p)' \in SUBSET Live(p)
    BY <1>2, <2>1 DEF Live
  <2>3. Uploading(p)' \in SUBSET Uploading(p)
    BY <1>5
  <2> QED
    BY <1>5, <2>2, <2>3, MediaBounds, FewerWithin DEF MediaQuota
<1> QED
  BY <1>6, <1>7

LEMMA QuotaNext == ASSUME MediaBase, MediaQuota, [MediaNext]_mediaVars PROVE MediaQuota'
<1>1. ASSUME NEW h \in Handlers,
             Reject(h) \/ \E d \in Digests, s \in FirstStates : Encode(h, d, s)
      PROVE  MediaQuota'
  <2>1. /\ job'[h].who = job[h].who /\ job[h].new = None /\ job[h].op = "upload"
        /\ \A k \in Handlers \ {h} : job'[k] = job[k]
    <3>1. job[h].op = "upload" /\ job[h].at = "scanning" /\ job[h] \in MediaJobs
      BY <1>1, MediaJobTyped DEF Reject, Encode
    <3>2. job[h].new = None
      BY <3>1, MediaJobTyped DEF Formed, FormedUpload
    <3>3. PICK row : Move(h, [job[h] EXCEPT !.at = "committing", !.new = row])
                     \/ Move(h, [job[h] EXCEPT !.at = "storing", !.new = row])
      BY <1>1 DEF Reject, Encode
    <3>4. job'[h].who = job[h].who /\ \A k \in Handlers \ {h} : job'[k] = job[k]
      BY <3>1, <3>3 DEF Move, MediaBase, MediaTyped, MediaJobs
    <3> QED
      BY <3>1, <3>2, <3>4
  <2>2. NoneBeginsToCount
    BY <1>1 DEF NoneBeginsToCount, Reject, Encode
  <2> QED
    BY <2>1, <2>2, QuotaJob
<1>2. ASSUME NEW h \in Handlers, Put(h) PROVE MediaQuota'
  <2>1. /\ job'[h].who = job[h].who /\ job'[h].new = job[h].new /\ job[h].op = "upload"
        /\ \A k \in Handlers \ {h} : job'[k] = job[k]
    BY <1>2, MediaJobTyped DEF Put, Move, MediaBase, MediaTyped, MediaJobs
  <2>2. NoneBeginsToCount
    BY <1>2 DEF NoneBeginsToCount, Put
  <2> QED
    BY <2>1, <2>2, QuotaJob
<1>3. ASSUME NEW h \in Handlers, NEW r \in RowIds, StartDelete(h, r) PROVE MediaQuota'
  <2>1. job'[h].op = "delete" /\ \A k \in Handlers \ {h} : job'[k] = job[k]
    BY <1>3, MediaIdleFits DEF StartDelete, Begin, MediaBase, MediaTyped, MediaJobs
  <2>2. NoneBeginsToCount
    BY <1>3 DEF NoneBeginsToCount, StartDelete
  <2> QED
    BY <2>1, <2>2, QuotaJob
<1>4. ASSUME NEW h \in Handlers, CountReferences(h) \/ MarkDeleted(h) \/ Unlink(h)
      PROVE  MediaQuota'
  <2>1. job'[h].op = "delete" /\ \A k \in Handlers \ {h} : job'[k] = job[k]
    BY <1>4, MediaJobTyped
       DEF CountReferences, MarkDeleted, Unlink, Move, MediaBase, MediaTyped, MediaJobs
  <2>2. NoneBeginsToCount
    BY <1>4 DEF NoneBeginsToCount, CountReferences, MarkDeleted, Unlink
  <2> QED
    BY <2>1, <2>2, QuotaJob
<1>5. ASSUME NEW h \in Handlers, NEW p \in Profiles, NEW x \in Posts, NEW list \in Lists,
             StartAttach(h, p, x, list)
      PROVE  MediaQuota'
  <2>1. job'[h].op = "attach" /\ \A k \in Handlers \ {h} : job'[k] = job[k]
    BY <1>5, MediaIdleFits DEF StartAttach, Begin, MediaBase, MediaTyped, MediaJobs
  <2>2. NoneBeginsToCount
    BY <1>5 DEF NoneBeginsToCount, StartAttach
  <2> QED
    BY <2>1, <2>2, QuotaJob
<1>6. ASSUME NEW h \in Handlers, MarkAttached(h) PROVE MediaQuota'
  <2>1. job'[h].op = "attach" /\ \A k \in Handlers \ {h} : job'[k] = job[k]
    BY <1>6, MediaJobTyped DEF MarkAttached, Move, MediaBase, MediaTyped, MediaJobs
  <2>2. NoneBeginsToCount
    BY <1>6 DEF NoneBeginsToCount, MarkAttached
  <2> QED
    BY <2>1, <2>2, QuotaJob
<1>7. ASSUME NEW h \in Handlers, CommitDelete(h) \/ CommitPost(h) \/ Cut(h) PROVE MediaQuota'
  <2>1. job'[h].op = "idle" /\ \A k \in Handlers \ {h} : job'[k] = job[k]
    BY <1>7, MediaIdleFits, MoveFacts DEF CommitDelete, CommitPost, Cut, Finish
  <2>2. CASE CommitDelete(h)
    <3>1. NoneBeginsToCount
      BY <2>2, DeletedRow DEF NoneBeginsToCount
    <3> QED
      BY <2>1, <3>1, QuotaJob
  <2>3. CASE CommitPost(h)
    <3>1. ASSUME NEW r \in RowIds, r \in Ids(job[h])
          PROVE  /\ rows[r] # None /\ rows'[r].owner = rows[r].owner
                 /\ rows'[r].state = rows[r].state
      BY <2>3, <3>1, PlacedRow
    <3>2. NoneBeginsToCount
      BY <2>3, <3>1, PlacedRows DEF NoneBeginsToCount
    <3> QED
      BY <2>1, <3>2, QuotaJob
  <2>4. CASE Cut(h)
    <3>1. NoneBeginsToCount
      BY <2>4 DEF Cut, NoneBeginsToCount
    <3> QED
      BY <2>1, <3>1, QuotaJob
  <2> QED
    BY <1>7, <2>2, <2>3, <2>4
<1>8. ASSUME NEW r \in RowIds, Release(r) PROVE MediaQuota'
  <2>1. NoneBeginsToCount
    BY <1>8 DEF Release, NoneBeginsToCount, MediaBase, MediaTyped, Row
  <2>2. UNCHANGED job
    BY <1>8 DEF Release
  <2> QED
    BY <2>1, <2>2, QuotaKept DEF MediaQuota, Uploading
<1>9. CASE UNCHANGED mediaVars
  BY <1>9 DEF mediaVars, MediaQuota, Live, Uploading, Within
<1> QED
  BY <1>1, <1>2, <1>3, <1>4, <1>5, <1>6, <1>7, <1>8, <1>9, QuotaCountLive,
     QuotaCommitUpload DEF MediaNext

\* Whatever overlaps, a profile holds at most one live row more than its quota for
\* each other thread (ingest), and media hangs on posts of its own owner only
\* (attach_media_to_post).
THEOREM RowsStaySound == MediaSpec => []RowsAreSound
<1>1. MediaBase /\ MediaQuota => RowsAreSound
  <2> SUFFICES ASSUME MediaBase, MediaQuota PROVE RowsAreSound
    OBVIOUS
  <2>1. ASSUME NEW p \in Profiles
        PROVE  Cardinality(Live(p)) <= MaxItems + (Cardinality(Handlers) - 1)
    <3>1. Uploading(p) \in SUBSET Handlers
      BY DEF Uploading
    <3> QED
      BY <3>1, MediaBounds, WithinBounds DEF MediaQuota
  <2> QED
    BY <2>1, MediaBaseTypes DEF RowsAreSound, QuotaOverrun, MediaBase
<1> QED
  BY <1>1, MediaInitBase, NextBase, QuotaInit, QuotaNext, PTL DEF MediaSpec

(***************************************************************************)
(* Files and the rows that name them                                       *)
(***************************************************************************)

\* An upload whose file is there and whose row is not.
Storing(d) ==
  \E h \in Handlers :
    job[h].op = "upload" /\ job[h].at = "committing" /\ Digest(job[h]) = d

Deletes(h, d) == job[h].op = "delete" /\ Digest(job[h]) = d

\* A delete that has its digest for itself knows what refers to it; the file is gone
\* exactly from its Unlink to its commit.
FileKnown(d) ==
  /\ ~Working(d, {"delete"}) /\ (LiveReferences(d) # {} \/ Storing(d)) => d \in files
  /\ d \in files => LiveReferences(d) # {} \/ Storing(d)
  /\ \A h \in Handlers : Deletes(h, d) =>
       /\ job[h].ids[1] \in LiveReferences(d)
       /\ job[h].at # "counting" =>
            (job[h].others <=> LiveReferences(d) \ {job[h].ids[1]} # {})
       /\ d \in files <=> ~(job[h].at = "committing" /\ ~job[h].others)
       /\ \A k \in Handlers \ {h} : Digest(job[k]) # d

FilesKnown == \A d \in Digests \ disturbed : FileKnown(d)

LEMMA DigestIs ==
  ASSUME NEW j
  PROVE  /\ j.op = "upload" /\ j.new # None => Digest(j) = j.new.digest
         /\ j.op = "delete" => Digest(j) = j.seen[1].digest
         /\ j.op # "delete" /\ ~(j.op = "upload" /\ j.new # None) => Digest(j) = None
  BY DEF Digest

LEMMA ReferencesAre ==
  ASSUME NEW d, NEW r
  PROVE  References(d, r) = LiveReferences(d) \ {r}
  BY DEF References, LiveReferences

\* A digest that a step is not about.
LEMMA Unconcerned ==
  ASSUME MediaBase, NEW d \in Digests, FileKnown(d), NEW h \in Handlers,
         \A k \in Handlers \ {h} : job'[k] = job[k],
         Digest(job[h]) # d, Digest(job[h])' # d,
         d \in files' <=> d \in files, LiveReferences(d)' = LiveReferences(d)
  PROVE  FileKnown(d)'
<1>1. \A k \in Handlers : Digest(job[k])' = d <=> Digest(job[k]) = d
  OBVIOUS
<1>2. \A k \in Handlers : Digest(job[k]) = d => job'[k] = job[k]
  OBVIOUS
<1>3. Storing(d)' <=> Storing(d)
  BY <1>1, <1>2 DEF Storing
<1>4. Working(d, {"delete"})' <=> Working(d, {"delete"})
  BY <1>1, <1>2 DEF Working
<1>5. \A k \in Handlers : Deletes(k, d)' <=> Deletes(k, d)
  BY <1>1, <1>2 DEF Deletes
<1>6. \A k \in Handlers : Deletes(k, d) => job'[k] = job[k]
  BY <1>2 DEF Deletes
<1> QED
  BY <1>1, <1>3, <1>4, <1>5, <1>6 DEF FileKnown

\* One that no delete works on, before and after the step.
LEMMA NoDelete ==
  ASSUME NEW d \in Digests, \A k \in Handlers : ~Deletes(k, d)',
         LiveReferences(d)' # {} \/ Storing(d)' => d \in files',
         d \in files' => LiveReferences(d)' # {} \/ Storing(d)'
  PROVE  FileKnown(d)'
  BY DEF FileKnown

\* One that only one request works on, and deletes.
LEMMA OneDelete ==
  ASSUME NEW d \in Digests, NEW h \in Handlers, Deletes(h, d)',
         \A k \in Handlers \ {h} : Digest(job[k])' # d,
         job'[h].ids[1] \in LiveReferences(d)',
         job'[h].at # "counting" =>
           (job'[h].others <=> LiveReferences(d)' \ {job'[h].ids[1]} # {}),
         d \in files' <=> ~(job'[h].at = "committing" /\ ~job'[h].others)
  PROVE  FileKnown(d)'
<1>1. Working(d, {"delete"})'
  BY DEF Working, Deletes
<1>2. \A k \in Handlers : Deletes(k, d)' => k = h
  BY DEF Deletes
<1> QED
  BY <1>1, <1>2 DEF FileKnown

\* What is known when a request works on a digest that nobody has disturbed.
LEMMA StoringAlone ==
  ASSUME NEW d \in Digests, FileKnown(d), NEW h \in Handlers,
         job[h].op = "upload", Digest(job[h]) = d
  PROVE  \A k \in Handlers : ~Deletes(k, d)
  BY DEF FileKnown, Deletes

LEMMA WorkingIsDeleting ==
  ASSUME NEW d PROVE Working(d, {"delete"}) <=> \E h \in Handlers : Deletes(h, d)
  BY DEF Working, Deletes

LEMMA EncodeFiles ==
  ASSUME MediaBase, NEW h \in Handlers, NEW e \in Digests, NEW s \in FirstStates,
         Encode(h, e, s), NEW d \in Digests \ disturbed', FileKnown(d)
  PROVE  FileKnown(d)'
<1>1. /\ job[h] \in MediaJobs /\ job[h].op = "upload" /\ job[h].at = "scanning"
      /\ job[h].new = None
  BY MediaJobTyped DEF Encode, Formed, FormedUpload
<1>2. NewRow(job[h], s, e) # None /\ NewRow(job[h], s, e).digest = e
  BY <1>1, NewRowFits, MediaJobTyped, MediaStoreAssumptions DEF Formed
<1>3. /\ job'[h].op = "upload" /\ job'[h].at = "storing"
      /\ job'[h].new = NewRow(job[h], s, e)
      /\ \A k \in Handlers \ {h} : job'[k] = job[k]
      /\ UNCHANGED <<rows, files>>
  BY <1>1 DEF Encode, Move, MediaBase, MediaTyped, MediaJobs
<1>4. Digest(job[h]) = None /\ Digest(job[h])' = e
  BY <1>1, <1>2, <1>3, DigestIs
<1>5. LiveReferences(d)' = LiveReferences(d)
  BY <1>3 DEF LiveReferences
<1>6. CASE e # d
  BY <1>3, <1>4, <1>5, <1>6, Unconcerned, MediaNone
<1>7. CASE e = d
  <2>1. ~Working(d, {"delete"})
    BY <1>7, MediaNone DEF Encode, Disturb
  <2>2. \A k \in Handlers : ~Deletes(k, d) /\ ~Deletes(k, d)'
    BY <1>3, <2>1, WorkingIsDeleting DEF Deletes
  <2>3. Storing(d)' <=> Storing(d)
    BY <1>1, <1>3 DEF Storing
  <2> QED
    BY <1>3, <1>5, <2>1, <2>2, <2>3, NoDelete DEF FileKnown
<1> QED
  BY <1>6, <1>7

LEMMA PutFiles ==
  ASSUME MediaBase, NEW h \in Handlers, Put(h), NEW d \in Digests, FileKnown(d)
  PROVE  FileKnown(d)'
<1>1. /\ job[h] \in MediaJobs /\ job[h].op = "upload" /\ job[h].at = "storing"
      /\ job[h].new # None
  BY MediaJobTyped, MediaNone DEF Put, Formed, FormedUpload
<1>2. /\ job'[h].op = "upload" /\ job'[h].at = "committing" /\ job'[h].new = job[h].new
      /\ \A k \in Handlers \ {h} : job'[k] = job[k]
      /\ UNCHANGED rows /\ files' = files \cup {job[h].new.digest}
  BY <1>1 DEF Put, Move, MediaBase, MediaTyped, MediaJobs
<1>3. Digest(job[h]) = job[h].new.digest /\ Digest(job[h])' = job[h].new.digest
  BY <1>1, <1>2, DigestIs
<1>4. LiveReferences(d)' = LiveReferences(d)
  BY <1>2 DEF LiveReferences
<1>5. CASE job[h].new.digest # d
  BY <1>2, <1>3, <1>4, <1>5, Unconcerned
<1>6. CASE job[h].new.digest = d
  <2>1. \A k \in Handlers : ~Deletes(k, d)
    BY <1>1, <1>3, <1>6, StoringAlone
  <2>2. \A k \in Handlers : ~Deletes(k, d)'
    BY <1>2, <2>1 DEF Deletes
  <2>3. Storing(d)' /\ d \in files'
    BY <1>2, <1>3, <1>6 DEF Storing
  <2> QED
    BY <2>2, <2>3, NoDelete
<1> QED
  BY <1>5, <1>6

LEMMA CommitUploadFiles ==
  ASSUME MediaBase, NEW h \in Handlers, CommitUpload(h), NEW d \in Digests, FileKnown(d)
  PROVE  FileKnown(d)'
<1>1. /\ job[h].op = "upload" /\ job[h].at = "committing" /\ job[h].new \in Row
      /\ job[h].new # None /\ job[h].new.state # "deleted"
  BY MediaJobTyped, MediaNone DEF CommitUpload, Formed, FormedUpload
<1>2. job'[h] = MediaIdle /\ \A k \in Handlers \ {h} : job'[k] = job[k]
  BY MoveFacts DEF CommitUpload, Finish
<1>3. Digest(job[h]) = job[h].new.digest /\ Digest(job[h])' = None
  BY <1>1, <1>2, DigestIs, MediaIdleFits
<1>4. PICK r \in RowIds : rows[r] = None /\ rows' = [rows EXCEPT ![r] = job[h].new]
  BY DEF CommitUpload
<1>5. rows'[r] = job[h].new /\ \A q \in RowIds \ {r} : rows'[q] = rows[q]
  BY <1>4 DEF MediaBase, MediaTyped
<1>6. UNCHANGED files
  BY DEF CommitUpload
<1>7. CASE job[h].new.digest # d
  <2>1. LiveReferences(d)' = LiveReferences(d)
    BY <1>4, <1>5, <1>7 DEF LiveReferences
  <2> QED
    BY <1>2, <1>3, <1>6, <1>7, <2>1, Unconcerned, MediaNone
<1>8. CASE job[h].new.digest = d
  <2>1. \A k \in Handlers : ~Deletes(k, d)
    BY <1>1, <1>3, <1>8, StoringAlone
  <2>2. \A k \in Handlers : ~Deletes(k, d)'
    BY <1>2, <2>1, MediaIdleFits DEF Deletes
  <2>3. r \in LiveReferences(d)'
    BY <1>1, <1>5, <1>8 DEF LiveReferences
  <2>4. Storing(d) /\ ~Working(d, {"delete"})
    BY <1>1, <1>3, <1>8, <2>1, WorkingIsDeleting DEF Storing
  <2>5. d \in files'
    BY <1>6, <2>4 DEF FileKnown
  <2> QED
    BY <2>2, <2>3, <2>5, NoDelete
<1> QED
  BY <1>7, <1>8

\* A delete that goes on.
LEMMA DeleteGoesOn ==
  ASSUME MediaBase, NEW h \in Handlers,
         CountReferences(h) \/ MarkDeleted(h) \/ Unlink(h)
  PROVE  /\ job[h] \in MediaJobs /\ FormedDelete(job[h])
         /\ job[h].op = "delete" /\ job'[h].op = "delete"
         /\ job'[h].ids = job[h].ids /\ job'[h].seen = job[h].seen
         /\ Digest(job[h])' = Digest(job[h])
         /\ \A k \in Handlers \ {h} : job'[k] = job[k]
         /\ UNCHANGED rows
<1>1. /\ job[h] \in MediaJobs /\ FormedDelete(job[h]) /\ job[h].op = "delete"
  BY MediaJobTyped DEF CountReferences, MarkDeleted, Unlink, Formed
<1>2. /\ job'[h].op = "delete" /\ job'[h].ids = job[h].ids /\ job'[h].seen = job[h].seen
      /\ \A k \in Handlers \ {h} : job'[k] = job[k]
  <2>1. CASE CountReferences(h)
    BY <1>1, <2>1 DEF CountReferences, Move, MediaBase, MediaTyped, MediaJobs
  <2>2. CASE MarkDeleted(h)
    BY <1>1, <2>2 DEF MarkDeleted, Move, MediaBase, MediaTyped, MediaJobs
  <2>3. CASE Unlink(h)
    BY <1>1, <2>3 DEF Unlink, Move, MediaBase, MediaTyped, MediaJobs
  <2> QED
    BY <2>1, <2>2, <2>3
<1>3. Digest(job[h])' = Digest(job[h])
  BY <1>1, <1>2, DigestIs
<1>4. UNCHANGED rows
  BY DEF CountReferences, MarkDeleted, Unlink
<1> QED
  BY <1>1, <1>2, <1>3, <1>4

\* What is known of the digest of a delete, and what has to be known after a step of it.
LEMMA DeleteKnows ==
  ASSUME MediaBase, NEW h \in Handlers, NEW d \in Digests, FileKnown(d), Deletes(h, d)
  PROVE  /\ job[h].ids[1] \in LiveReferences(d)
         /\ job[h].at # "counting" =>
              (job[h].others <=> LiveReferences(d) \ {job[h].ids[1]} # {})
         /\ d \in files <=> ~(job[h].at = "committing" /\ ~job[h].others)
         /\ \A k \in Handlers \ {h} : Digest(job[k]) # d
  BY DEF FileKnown

LEMMA DeleteKeeps ==
  ASSUME MediaBase, NEW h \in Handlers,
         CountReferences(h) \/ MarkDeleted(h) \/ Unlink(h),
         NEW d \in Digests, FileKnown(d), Digest(job[h]) = d,
         job'[h].at # "counting" =>
           (job'[h].others <=> LiveReferences(d) \ {job[h].ids[1]} # {}),
         d \in files' <=> ~(job'[h].at = "committing" /\ ~job'[h].others)
  PROVE  FileKnown(d)'
<1>1. /\ job'[h].op = "delete" /\ job[h].op = "delete" /\ job'[h].ids = job[h].ids
      /\ Digest(job[h])' = Digest(job[h])
      /\ \A k \in Handlers \ {h} : job'[k] = job[k]
      /\ UNCHANGED rows
  BY DeleteGoesOn
<1>2. LiveReferences(d)' = LiveReferences(d)
  BY <1>1 DEF LiveReferences
<1>3. Deletes(h, d) /\ Deletes(h, d)'
  BY <1>1 DEF Deletes
<1>4. \A k \in Handlers \ {h} : Digest(job[k])' # d
  BY <1>1, <1>3, DeleteKnows
<1>5. job'[h].ids[1] \in LiveReferences(d)'
  BY <1>1, <1>2, <1>3, DeleteKnows
<1> QED
  BY <1>1, <1>2, <1>3, <1>4, <1>5, OneDelete

LEMMA DeleteUnconcerned ==
  ASSUME MediaBase, NEW h \in Handlers,
         CountReferences(h) \/ MarkDeleted(h) \/ Unlink(h),
         NEW d \in Digests, FileKnown(d), Digest(job[h]) # d,
         d \in files' <=> d \in files
  PROVE  FileKnown(d)'
<1>1. /\ Digest(job[h])' = Digest(job[h])
      /\ \A k \in Handlers \ {h} : job'[k] = job[k]
      /\ UNCHANGED rows
  BY DeleteGoesOn
<1>2. LiveReferences(d)' = LiveReferences(d)
  BY <1>1 DEF LiveReferences
<1> QED
  BY <1>1, <1>2, Unconcerned

LEMMA CountReferencesFiles ==
  ASSUME MediaBase, NEW h \in Handlers, CountReferences(h), NEW d \in Digests, FileKnown(d)
  PROVE  FileKnown(d)'
<1>1. UNCHANGED files
  BY DEF CountReferences
<1>2. CASE Digest(job[h]) # d
  BY <1>1, <1>2, DeleteUnconcerned
<1>3. CASE Digest(job[h]) = d
  <2>1. /\ job[h] \in MediaJobs /\ job[h].op = "delete" /\ job[h].at = "counting"
        /\ Deletes(h, d)
    BY <1>3, DeleteGoesOn DEF CountReferences, Deletes
  <2>2. /\ job'[h].at = "marking"
        /\ job'[h].others = (Digest(job[h]) # None /\ References(d, job[h].ids[1]) # {})
    BY <1>3, <2>1 DEF CountReferences, Move, MediaBase, MediaTyped, MediaJobs
  <2>3. job'[h].others <=> LiveReferences(d) \ {job[h].ids[1]} # {}
    BY <1>3, <2>2, ReferencesAre, MediaNone
  <2>4. d \in files'
    BY <1>1, <2>1, DeleteKnows
  <2> QED
    BY <1>3, <2>2, <2>3, <2>4, DeleteKeeps
<1> QED
  BY <1>2, <1>3

LEMMA MarkDeletedFiles ==
  ASSUME MediaBase, NEW h \in Handlers, MarkDeleted(h), NEW d \in Digests, FileKnown(d)
  PROVE  FileKnown(d)'
<1>1. UNCHANGED files
  BY DEF MarkDeleted
<1>2. CASE Digest(job[h]) # d
  BY <1>1, <1>2, DeleteUnconcerned
<1>3. CASE Digest(job[h]) = d
  <2>1. /\ job[h] \in MediaJobs /\ job[h].op = "delete" /\ job[h].at = "marking"
        /\ Deletes(h, d)
    BY <1>3, DeleteGoesOn DEF MarkDeleted, Deletes
  <2>2. /\ job'[h].at = (IF Digest(job[h]) = None \/ job[h].others THEN "committing"
                         ELSE "unlinking")
        /\ job'[h].others = job[h].others
    BY <2>1 DEF MarkDeleted, Move, MediaBase, MediaTyped, MediaJobs
  <2>3. job'[h].at = "committing" => job'[h].others
    BY <1>3, <2>2, MediaNone
  <2>4. job'[h].others <=> LiveReferences(d) \ {job[h].ids[1]} # {}
    BY <2>1, <2>2, DeleteKnows
  <2>5. d \in files'
    BY <1>1, <2>1, DeleteKnows
  <2> QED
    BY <1>3, <2>3, <2>4, <2>5, DeleteKeeps
<1> QED
  BY <1>2, <1>3

LEMMA UnlinkFiles ==
  ASSUME MediaBase, NEW h \in Handlers, Unlink(h), NEW d \in Digests \ disturbed',
         FileKnown(d)
  PROVE  FileKnown(d)'
<1>1. \/ files' = files \ {Digest(job[h])}
      \/ UNCHANGED files /\ disturbed' = disturbed \cup ({Digest(job[h])} \ {None})
  BY DEF Unlink, Disturb
<1>2. CASE Digest(job[h]) # d
  BY <1>1, <1>2, DeleteUnconcerned
<1>3. CASE Digest(job[h]) = d
  <2>1. /\ job[h] \in MediaJobs /\ job[h].op = "delete" /\ job[h].at = "unlinking"
        /\ Deletes(h, d) /\ ~job[h].others
    BY <1>3, DeleteGoesOn DEF Unlink, Deletes, FormedDelete
  <2>2. job'[h].at = "committing" /\ job'[h].others = job[h].others
    BY <2>1 DEF Unlink, Move, MediaBase, MediaTyped, MediaJobs
  <2>3. d \notin files'
    BY <1>1, <1>3, MediaNone
  <2>4. job'[h].others <=> LiveReferences(d) \ {job[h].ids[1]} # {}
    BY <2>1, <2>2, DeleteKnows
  <2> QED
    BY <1>3, <2>1, <2>2, <2>3, <2>4, DeleteKeeps
<1> QED
  BY <1>2, <1>3

LEMMA StartDeleteFiles ==
  ASSUME MediaBase, NEW h \in Handlers, NEW r \in RowIds, StartDelete(h, r),
         NEW d \in Digests \ disturbed', FileKnown(d)
  PROVE  FileKnown(d)'
<1>1. /\ rows[r] # None /\ rows[r].state \in {"ready", "rejected"}
      /\ job[h] = MediaIdle /\ UNCHANGED <<rows, files>>
  BY DEF StartDelete, Begin
<1>2. /\ job'[h].op = "delete" /\ job'[h].at = "counting" /\ job'[h].ids = <<r>>
      /\ job'[h].seen = <<rows[r]>> /\ \A k \in Handlers \ {h} : job'[k] = job[k]
  BY MediaIdleFits DEF StartDelete, Begin, MediaBase, MediaTyped, MediaJobs
<1>3. Digest(job[h]) = None /\ Digest(job[h])' = rows[r].digest
  BY <1>1, <1>2, DigestIs, MediaIdleFits
<1>4. LiveReferences(d)' = LiveReferences(d)
  BY <1>1 DEF LiveReferences
<1>5. CASE rows[r].digest # d
  BY <1>1, <1>2, <1>3, <1>4, <1>5, Unconcerned, MediaNone
<1>6. CASE rows[r].digest = d
  <2>1. ~Working(d, Ops)
    BY <1>6, MediaNone DEF StartDelete, Disturb
  <2>2. \A k \in Handlers : Digest(job[k]) # d
    BY <2>1, MediaJobTyped DEF Working, MediaJobs
  <2>3. r \in LiveReferences(d) /\ ~Working(d, {"delete"})
    BY <1>1, <1>6, <2>2 DEF LiveReferences, Working
  <2>4. d \in files'
    BY <1>1, <2>3 DEF FileKnown
  <2>5. Deletes(h, d)' /\ \A k \in Handlers \ {h} : Digest(job[k])' # d
    BY <1>2, <1>3, <1>6, <2>2 DEF Deletes
  <2> QED
    BY <1>2, <1>4, <2>3, <2>4, <2>5, OneDelete
<1> QED
  BY <1>5, <1>6

LEMMA CommitDeleteFiles ==
  ASSUME MediaBase, NEW h \in Handlers, CommitDelete(h), NEW d \in Digests, FileKnown(d)
  PROVE  FileKnown(d)'
<1>1. PICK r \in RowIds :
        /\ r = job[h].ids[1] /\ rows[r] # None /\ rows'[r].digest = rows[r].digest
        /\ rows'[r].state = "deleted" /\ rows'[r].digest = Digest(job[h])
        /\ \A q \in RowIds \ {r} : rows'[q] = rows[q]
  BY DeletedRow
<1>2. /\ job'[h] = MediaIdle /\ (\A k \in Handlers \ {h} : job'[k] = job[k])
      /\ UNCHANGED files /\ job[h].op = "delete" /\ job[h].at = "committing"
  BY MoveFacts DEF CommitDelete, Finish
<1>3. Digest(job[h])' = None
  BY <1>2, DigestIs, MediaIdleFits
<1>4. CASE Digest(job[h]) # d
  <2>1. LiveReferences(d)' = LiveReferences(d)
    BY <1>1, <1>4 DEF LiveReferences
  <2> QED
    BY <1>2, <1>3, <1>4, <2>1, Unconcerned, MediaNone
<1>5. CASE Digest(job[h]) = d
  <2>1. Deletes(h, d)
    BY <1>2, <1>5 DEF Deletes
  <2>2. LiveReferences(d)' = LiveReferences(d) \ {r}
    BY <1>1 DEF LiveReferences
  <2>3. job[h].others <=> LiveReferences(d)' # {}
    BY <1>1, <1>2, <2>1, <2>2, DeleteKnows
  <2>4. d \in files' <=> job[h].others
    BY <1>2, <2>1, DeleteKnows
  <2>5. \A k \in Handlers : Digest(job[k])' # d
    BY <1>2, <1>3, <2>1, DeleteKnows, MediaNone
  <2>6. ~Storing(d)' /\ \A k \in Handlers : ~Deletes(k, d)'
    BY <2>5 DEF Storing, Deletes
  <2> QED
    BY <2>3, <2>4, <2>6, NoDelete
<1> QED
  BY <1>4, <1>5

LEMMA CutFiles ==
  ASSUME MediaBase, NEW h \in Handlers, Cut(h), NEW d \in Digests \ disturbed', FileKnown(d)
  PROVE  FileKnown(d)'
<1>1. /\ job'[h] = MediaIdle /\ (\A k \in Handlers \ {h} : job'[k] = job[k])
      /\ UNCHANGED <<rows, files>>
  BY MoveFacts DEF Cut, Finish
<1>2. Digest(job[h])' = None
  BY <1>1, DigestIs, MediaIdleFits
<1>3. LiveReferences(d)' = LiveReferences(d)
  BY <1>1 DEF LiveReferences
<1>4. CASE Digest(job[h]) # d
  BY <1>1, <1>2, <1>3, <1>4, Unconcerned, MediaNone
<1>5. CASE Digest(job[h]) = d
  <2>1. job[h].at # "committing"
    BY <1>5, MediaNone DEF Cut, Disturb
  <2>2. Storing(d)' <=> Storing(d)
    BY <1>1, <2>1, MediaIdleFits DEF Storing
  <2>3. job[h].op \in {"upload", "delete"}
    BY <1>5, DigestIs, MediaNone
  <2>4. CASE job[h].op = "upload"
    <3>1. \A k \in Handlers : ~Deletes(k, d)
      BY <1>5, <2>4, StoringAlone
    <3>2. (\A k \in Handlers : ~Deletes(k, d)') /\ ~Working(d, {"delete"})
      BY <1>1, <3>1, MediaIdleFits, WorkingIsDeleting DEF Deletes
    <3> QED
      BY <1>1, <1>3, <2>2, <3>2, NoDelete DEF FileKnown
  <2>5. CASE job[h].op = "delete"
    <3>1. Deletes(h, d)
      BY <1>5, <2>5 DEF Deletes
    <3>2. d \in files' /\ LiveReferences(d)' # {}
      BY <1>1, <1>3, <2>1, <3>1, DeleteKnows
    <3>3. \A k \in Handlers : Digest(job[k])' # d
      BY <1>1, <1>2, <3>1, DeleteKnows, MediaNone
    <3>4. \A k \in Handlers : ~Deletes(k, d)'
      BY <3>3 DEF Deletes
    <3> QED
      BY <3>2, <3>4, NoDelete
  <2> QED
    BY <2>3, <2>4, <2>5
<1> QED
  BY <1>4, <1>5

\* Requests that have no digest before and after: rows keep theirs.
LEMMA NoDigest ==
  ASSUME MediaBase, NEW h \in Handlers, \A k \in Handlers \ {h} : job'[k] = job[k],
         Digest(job[h]) = None, Digest(job[h])' = None, UNCHANGED files,
         \A d \in Digests : LiveReferences(d)' = LiveReferences(d),
         NEW d \in Digests, FileKnown(d)
  PROVE  FileKnown(d)'
  BY Unconcerned, MediaNone

LEMMA OtherFiles ==
  ASSUME MediaBase, NEW h \in Handlers,
         \/ \E p \in Profiles : CountLive(h, p)
         \/ Reject(h) \/ MarkAttached(h) \/ CommitPost(h)
         \/ \E p \in Profiles, x \in Posts, list \in Lists : StartAttach(h, p, x, list),
         NEW d \in Digests, FileKnown(d)
  PROVE  FileKnown(d)'
<1>1. UNCHANGED files /\ \A k \in Handlers \ {h} : job'[k] = job[k]
  BY DEF CountLive, Reject, MarkAttached, CommitPost, StartAttach, Begin, Move, Finish,
         MediaBase, MediaTyped
<1>2. Digest(job[h]) = None
  <2>1. CASE Reject(h)
    BY <2>1, MediaJobTyped, DigestIs DEF Reject, Formed, FormedUpload
  <2>2. CASE ~Reject(h)
    <3>1. job[h].op \in {"idle", "attach"}
      BY <2>2, MediaIdleFits DEF CountLive, MarkAttached, CommitPost, StartAttach, Begin
    <3> QED
      BY <3>1, DigestIs
  <2> QED
    BY <2>1, <2>2
<1>3. Digest(job[h])' = None
  <2>1. ASSUME NEW p \in Profiles, CountLive(h, p)
        PROVE  job'[h].op = "upload" /\ job'[h].new = None
    BY <2>1, MediaIdleFields DEF CountLive, Begin, MediaBase, MediaTyped, MediaIdle
  <2>2. ASSUME Reject(h) PROVE job'[h].op = "upload" /\ job'[h].new # None
                               /\ job'[h].new.digest = None
    <3>1. job[h] \in MediaJobs /\ FormedUpload(job[h]) /\ job[h].op = "upload"
      BY <2>2, MediaJobTyped DEF Reject, Formed
    <3>2. /\ NewRow(job[h], "rejected", None) # None
          /\ NewRow(job[h], "rejected", None).digest = None
      BY <3>1, NewRowFits
    <3>3. /\ job'[h].op = "upload" /\ job'[h].new = NewRow(job[h], "rejected", None)
      BY <2>2, <3>1 DEF Reject, Move, MediaBase, MediaTyped, MediaJobs
    <3> QED
      BY <3>2, <3>3
  <2>3. ASSUME NEW p \in Profiles, NEW x \in Posts, NEW list \in Lists,
               StartAttach(h, p, x, list)
        PROVE  job'[h].op = "attach"
    BY <2>3, MediaIdleFits DEF StartAttach, Begin, MediaBase, MediaTyped, MediaJobs
  <2>4. ASSUME MarkAttached(h) PROVE job'[h].op = "attach"
    BY <2>4, MediaJobTyped DEF MarkAttached, Move, MediaBase, MediaTyped, MediaJobs
  <2>5. ASSUME CommitPost(h) PROVE job'[h].op = "idle"
    BY <2>5, MoveFacts, MediaIdleFits DEF CommitPost, Finish
  <2> QED
    BY <2>1, <2>2, <2>3, <2>4, <2>5, DigestIs
<1>4. \A e \in Digests : LiveReferences(e)' = LiveReferences(e)
  <2>1. CASE CommitPost(h)
    <3>1. ASSUME NEW r \in RowIds
          PROVE  \/ rows'[r] = rows[r]
                 \/ /\ rows[r] # None /\ rows'[r] # None
                    /\ rows'[r].digest = rows[r].digest /\ rows'[r].state = rows[r].state
      <4>1. CASE r \in Ids(job[h])
        BY <2>1, <4>1, PlacedRow, MediaNone
      <4>2. CASE r \notin Ids(job[h])
        BY <2>1, <4>2, PlacedRows
      <4> QED
        BY <4>1, <4>2
    <3> QED
      BY <3>1 DEF LiveReferences
  <2>2. CASE ~CommitPost(h)
    <3>1. UNCHANGED rows
      BY <2>2 DEF CountLive, Reject, MarkAttached, StartAttach
    <3> QED
      BY <3>1 DEF LiveReferences
  <2> QED
    BY <2>1, <2>2
<1> QED
  BY <1>1, <1>2, <1>3, <1>4, NoDigest

LEMMA ReleaseFiles ==
  ASSUME MediaBase, NEW r \in RowIds, Release(r), NEW d \in Digests, FileKnown(d)
  PROVE  FileKnown(d)'
<1>1. UNCHANGED <<files, job>>
  BY DEF Release
<1>2. LiveReferences(d)' = LiveReferences(d)
  <2>1. rows'[r].digest = rows[r].digest /\ rows'[r].state = "ready"
        /\ rows[r].state = "review" /\ rows[r] # None /\ rows'[r] # None
        /\ \A q \in RowIds \ {r} : rows'[q] = rows[q]
    <3>1. rows[r] \in Row /\ rows' = [rows EXCEPT ![r].state = "ready"]
      BY DEF MediaBase, MediaTyped, Release
    <3>2. rows'[r] = [rows[r] EXCEPT !.state = "ready"]
          /\ \A q \in RowIds \ {r} : rows'[q] = rows[q]
      BY <3>1 DEF MediaBase, MediaTyped
    <3>3. rows'[r] \in Row
      BY <3>1, <3>2 DEF Row
    <3>4. rows'[r].digest = rows[r].digest /\ rows'[r].state = "ready"
      BY <3>1, <3>2 DEF Row
    <3> QED
      BY <3>2, <3>3, <3>4, MediaNone DEF Release
  <2> QED
    BY <2>1 DEF LiveReferences
<1> QED
  BY <1>1, <1>2 DEF FileKnown, Storing, Working, Deletes

LEMMA FilesInit == MediaInit => FilesKnown
<1> SUFFICES ASSUME MediaInit, NEW d \in Digests PROVE FileKnown(d)
  BY DEF FilesKnown
<1>1. \A h \in Handlers : ~Deletes(h, d) /\ job[h].op = "idle"
  BY MediaIdleFits DEF MediaInit, Deletes
<1>2. LiveReferences(d) = {} /\ ~Storing(d) /\ d \notin files
  BY <1>1 DEF MediaInit, LiveReferences, Storing
<1> QED
  BY <1>1, <1>2 DEF FileKnown

LEMMA FilesNext ==
  ASSUME MediaBase, FilesKnown, [MediaNext]_mediaVars PROVE FilesKnown'
<1>1. disturbed \subseteq disturbed'
  BY DEF MediaNext, CountLive, Encode, Reject, Put, CommitUpload, StartDelete,
         CountReferences, MarkDeleted, Unlink, CommitDelete, StartAttach, MarkAttached,
         CommitPost, Cut, Release, mediaVars, Disturb
<1> SUFFICES ASSUME NEW d \in Digests \ disturbed' PROVE FileKnown(d)'
  BY DEF FilesKnown
<1>2. FileKnown(d)
  BY <1>1 DEF FilesKnown
<1>3. CASE UNCHANGED mediaVars
  BY <1>2, <1>3 DEF mediaVars, FileKnown, Storing, Working, Deletes, LiveReferences
<1> QED
  BY <1>2, <1>3, EncodeFiles, PutFiles, CommitUploadFiles, StartDeleteFiles,
     CountReferencesFiles, MarkDeletedFiles, UnlinkFiles, CommitDeleteFiles, CutFiles,
     OtherFiles, ReleaseFiles DEF MediaNext

\* The reference count of a delete is exact for whoever is left alone: a digest that
\* no request works on has a file exactly while a row that is not deleted names it,
\* but for digests whose delete overlapped another request or met the disk and did
\* not commit (pipeline.delete, store.delete).
THEOREM FilesFollowRows == MediaSpec => []FilesMatchRows
<1>1. MediaBase /\ FilesKnown => FilesMatchRows
  <2> SUFFICES ASSUME MediaBase, FilesKnown, NEW d \in Digests \ disturbed
               PROVE  /\ LiveReferences(d) # {} /\ ~Working(d, {"delete"}) => d \in files
                      /\ d \in files /\ ~Working(d, Ops) => LiveReferences(d) # {}
    BY DEF FilesMatchRows
  <2>1. Storing(d) => Working(d, Ops)
    BY DEF Storing, Working, Ops
  <2> QED
    BY <2>1 DEF FilesKnown, FileKnown
<1> QED
  BY <1>1, MediaInitBase, NextBase, FilesInit, FilesNext, PTL DEF MediaSpec

(***************************************************************************)
(* Posts and the rows they were published with                             *)
(***************************************************************************)

AsRead(j, i) ==
  LET r == j.ids[i] IN
  r \notin contended /\ rows[r].state = "ready" =>
    rows[r].post = None /\ rows[r].position = j.seen[i].position

\* A row that two posts want is contended; one that only one post wants is as that
\* post has read it, until its owner deletes it.
Wanted ==
  \A h \in Handlers : job[h].op = "attach" =>
    /\ \A k \in Handlers \ {h} :
         job[k].op = "attach" => Ids(job[h]) \cap Ids(job[k]) \subseteq contended
    /\ \A i \in DOMAIN job[h].ids : AsRead(job[h], i)

\* Media of a post does not go back into review.
Published ==
  \A x \in Posts : posts[x] # None =>
    \A i \in DOMAIN posts[x].media :
      LET r == posts[x].media[i] IN
      r \in RowIds /\ rows[r] # None /\ rows[r].state \in {"ready", "deleted"}

MediaKept == Wanted /\ Published /\ KeepsItsMedia

\* What may be attached stays as it is, or is deleted.
RowsCalm ==
  \A r \in RowIds : rows[r] # None /\ rows[r].state \in {"ready", "deleted"} =>
    rows'[r] # None /\ (rows'[r] = rows[r] \/ rows'[r].state = "deleted")

LEMMA PublishedStays ==
  ASSUME Published, RowsCalm, UNCHANGED posts
  PROVE  Published'
  BY DEF Published, RowsCalm

LEMMA KeepsStays ==
  ASSUME Published, KeepsItsMedia, RowsCalm, UNCHANGED posts, contended \subseteq contended'
  PROVE  KeepsItsMedia'
<1> SUFFICES ASSUME NEW x \in Posts, posts[x] # None, NEW i \in DOMAIN posts[x].media,
                    posts[x].media[i] \notin contended',
                    rows'[posts[x].media[i]].state = "ready"
             PROVE  /\ rows'[posts[x].media[i]].post = x
                    /\ rows'[posts[x].media[i]].position = i - 1
  BY DEF KeepsItsMedia
<1>1. PICK r : r = posts[x].media[i]
  OBVIOUS
<1>2. r \in RowIds /\ rows[r] # None /\ rows[r].state \in {"ready", "deleted"}
  BY <1>1 DEF Published
<1>3. rows'[r] = rows[r]
  BY <1>1, <1>2 DEF RowsCalm
<1>4. r \notin contended /\ rows[r].state = "ready"
  BY <1>1, <1>3
<1> QED
  BY <1>1, <1>3, <1>4 DEF KeepsItsMedia

LEMMA AttachedRow ==
  ASSUME NEW j \in MediaJobs, Formed(j), j.op = "attach", NEW i \in DOMAIN j.ids
  PROVE  /\ j.ids[i] \in RowIds /\ rows[j.ids[i]] # None
         /\ rows[j.ids[i]].state \in {"ready", "deleted"}
  BY ListFacts DEF Formed, FormedAttach

\* A step after which no other request attaches.
LEMMA CalmKept ==
  ASSUME MediaBase, MediaKept, RowsCalm, UNCHANGED <<posts, contended>>,
         \A k \in Handlers : job'[k].op = "attach" =>
           /\ job[k].op = "attach"
           /\ job'[k].ids = job[k].ids /\ job'[k].seen = job[k].seen
  PROVE  MediaKept'
<1>1. Published' /\ KeepsItsMedia'
  BY PublishedStays, KeepsStays DEF MediaKept
<1>2. ASSUME NEW h \in Handlers, job'[h].op = "attach"
      PROVE  /\ \A k \in Handlers \ {h} : job'[k].op = "attach" =>
                  Ids(job[h])' \cap Ids(job[k])' \subseteq contended'
             /\ \A i \in DOMAIN job'[h].ids : AsRead(job[h], i)'
  <2>1. \A k \in Handlers : job'[k].op = "attach" => Ids(job[k])' = Ids(job[k])
    BY DEF Ids
  <2>2. ASSUME NEW i \in DOMAIN job'[h].ids PROVE AsRead(job[h], i)'
    <3>1. i \in DOMAIN job[h].ids /\ job[h].op = "attach"
      BY <1>2
    <3>2. PICK r \in RowIds : /\ r = job[h].ids[i] /\ rows[r] # None
                              /\ rows[r].state \in {"ready", "deleted"}
      BY <3>1, AttachedRow, MediaJobTyped
    <3>3. AsRead(job[h], i)
      BY <3>1 DEF MediaKept, Wanted
    <3> QED
      BY <1>2, <3>2, <3>3 DEF AsRead, RowsCalm
  <2> QED
    BY <1>2, <2>1, <2>2 DEF MediaKept, Wanted
<1> QED
  BY <1>1, <1>2 DEF MediaKept, Wanted

LEMMA KeptInit == MediaInit => MediaKept
  BY MediaIdleFits DEF MediaInit, MediaKept, Wanted, Published, KeepsItsMedia

LEMMA CalmRows ==
  ASSUME MediaBase,
         \/ UNCHANGED rows
         \/ \E h \in Handlers : CommitUpload(h) \/ CommitDelete(h)
         \/ \E r \in RowIds : Release(r)
  PROVE  RowsCalm
<1>1. ASSUME UNCHANGED rows PROVE RowsCalm
  BY <1>1 DEF RowsCalm
<1>2. ASSUME NEW h \in Handlers, CommitUpload(h) PROVE RowsCalm
  <2>1. PICK r \in RowIds : rows[r] = None /\ rows' = [rows EXCEPT ![r] = job[h].new]
    BY <1>2 DEF CommitUpload
  <2>2. \A q \in RowIds \ {r} : rows'[q] = rows[q]
    BY <2>1 DEF MediaBase, MediaTyped
  <2> QED
    BY <2>1, <2>2 DEF RowsCalm
<1>3. ASSUME NEW h \in Handlers, CommitDelete(h) PROVE RowsCalm
  BY <1>3, DeletedRow, MediaNone DEF RowsCalm
<1>4. ASSUME NEW r \in RowIds, Release(r) PROVE RowsCalm
  <2>1. rows[r].state = "review" /\ \A q \in RowIds \ {r} : rows'[q] = rows[q]
    BY <1>4 DEF Release, MediaBase, MediaTyped
  <2> QED
    BY <2>1 DEF RowsCalm
<1> QED
  BY <1>1, <1>2, <1>3, <1>4

LEMMA CalmSteps ==
  ASSUME MediaBase, MediaKept, NEW h \in Handlers,
         \/ \E p \in Profiles : CountLive(h, p)
         \/ \E d \in Digests, s \in FirstStates : Encode(h, d, s)
         \/ Reject(h) \/ Put(h) \/ CommitUpload(h)
         \/ \E r \in RowIds : StartDelete(h, r)
         \/ CountReferences(h) \/ MarkDeleted(h) \/ Unlink(h) \/ CommitDelete(h)
         \/ MarkAttached(h) \/ Cut(h)
  PROVE  MediaKept'
<1>1. RowsCalm
  BY CalmRows DEF CountLive, Encode, Reject, Put, StartDelete, CountReferences,
                  MarkDeleted, Unlink, MarkAttached, Cut
<1>2. UNCHANGED <<posts, contended>>
  BY DEF CountLive, Encode, Reject, Put, CommitUpload, StartDelete, CountReferences,
         MarkDeleted, Unlink, CommitDelete, MarkAttached, Cut
<1>3. \A k \in Handlers \ {h} : job'[k] = job[k]
  BY DEF CountLive, Encode, Reject, Put, CommitUpload, StartDelete, CountReferences,
         MarkDeleted, Unlink, CommitDelete, MarkAttached, Cut, Begin, Move, Finish,
         MediaBase, MediaTyped
<1>4. job'[h].op = "attach" => /\ job[h].op = "attach"
                               /\ job'[h].ids = job[h].ids /\ job'[h].seen = job[h].seen
  <2>1. ASSUME NEW p \in Profiles, CountLive(h, p) PROVE job'[h].op # "attach"
    BY <2>1, MediaIdleFits DEF CountLive, Begin, MediaBase, MediaTyped, MediaJobs
  <2>2. ASSUME Reject(h) \/ \E d \in Digests, s \in FirstStates : Encode(h, d, s)
        PROVE  job'[h].op # "attach"
    <3>1. job[h].op = "upload" /\ job[h] \in MediaJobs
      BY <2>2, MediaJobTyped DEF Reject, Encode
    <3>2. PICK row : Move(h, [job[h] EXCEPT !.at = "committing", !.new = row])
                     \/ Move(h, [job[h] EXCEPT !.at = "storing", !.new = row])
      BY <2>2 DEF Reject, Encode
    <3> QED
      BY <3>1, <3>2 DEF Move, MediaBase, MediaTyped, MediaJobs
  <2>3. ASSUME Put(h) PROVE job'[h].op # "attach"
    BY <2>3, MediaJobTyped DEF Put, Move, MediaBase, MediaTyped, MediaJobs
  <2>4. ASSUME CommitUpload(h) \/ CommitDelete(h) \/ Cut(h) PROVE job'[h].op # "attach"
    BY <2>4, MoveFacts, MediaIdleFits DEF CommitUpload, CommitDelete, Cut, Finish
  <2>5. ASSUME NEW r \in RowIds, StartDelete(h, r) PROVE job'[h].op # "attach"
    BY <2>5, MediaIdleFits DEF StartDelete, Begin, MediaBase, MediaTyped, MediaJobs
  <2>6. ASSUME CountReferences(h) \/ MarkDeleted(h) \/ Unlink(h) PROVE job'[h].op # "attach"
    BY <2>6, DeleteGoesOn
  <2>7. ASSUME MarkAttached(h)
        PROVE  /\ job[h].op = "attach"
               /\ job'[h].ids = job[h].ids /\ job'[h].seen = job[h].seen
    BY <2>7, MediaJobTyped DEF MarkAttached, Move, MediaBase, MediaTyped, MediaJobs
  <2> QED
    BY <2>1, <2>2, <2>3, <2>4, <2>5, <2>6, <2>7
<1> QED
  BY <1>1, <1>2, <1>3, <1>4, CalmKept

LEMMA StartAttachKept ==
  ASSUME MediaBase, MediaKept, NEW h \in Handlers, NEW p \in Profiles, NEW x \in Posts,
         NEW list \in Lists, StartAttach(h, p, x, list)
  PROVE  MediaKept'
<1> DEFINE found == [i \in DOMAIN list |-> rows[list[i]]]
<1>1. /\ job'[h].op = "attach" /\ job'[h].ids = list /\ job'[h].seen = found
      /\ \A k \in Handlers \ {h} : job'[k] = job[k]
  BY MediaIdleFits DEF StartAttach, Begin, MediaBase, MediaTyped, MediaJobs
<1>2. UNCHANGED <<rows, posts>> /\ contended \subseteq contended'
  BY DEF StartAttach
<1>3. Published' /\ KeepsItsMedia'
  BY <1>2, CalmRows, PublishedStays, KeepsStays DEF MediaKept
<1>4. Ids(job[h])' = { list[i] : i \in DOMAIN list }
  BY <1>1 DEF Ids
<1>5. ASSUME NEW k \in Handlers \ {h}, job'[k].op = "attach"
      PROVE  /\ Ids(job[k])' = Ids(job[k])
             /\ Ids(job[h])' \cap Ids(job[k])' \subseteq contended'
  <2>1. Ids(job[k])' = Ids(job[k]) /\ job[k].op = "attach"
    BY <1>1, <1>5 DEF Ids
  <2>2. ASSUME NEW i \in DOMAIN list, list[i] \in Ids(job[k]) PROVE list[i] \in contended'
    BY <2>1, <2>2 DEF StartAttach
  <2> QED
    BY <1>4, <2>1, <2>2
<1>6. \A i \in DOMAIN job'[h].ids : AsRead(job[h], i)'
  <2>1. \A i \in DOMAIN list : rows[list[i]].post = None
    BY DEF StartAttach, Attachable
  <2> QED
    BY <1>1, <1>2, <2>1 DEF AsRead
<1>7. ASSUME NEW k \in Handlers \ {h}, job'[k].op = "attach"
      PROVE  \A i \in DOMAIN job'[k].ids : AsRead(job[k], i)'
  BY <1>1, <1>2, <1>7 DEF AsRead, MediaKept, Wanted
<1>8. Wanted'
  BY <1>1, <1>2, <1>5, <1>6, <1>7 DEF Wanted, MediaKept
<1> QED
  BY <1>3, <1>8 DEF MediaKept

LEMMA CommitPostKept ==
  ASSUME MediaBase, MediaKept, NEW h \in Handlers, CommitPost(h)
  PROVE  MediaKept'
<1>1. /\ job[h] \in MediaJobs /\ Formed(job[h]) /\ FormedAttach(job[h])
      /\ job[h].op = "attach"
  BY MediaJobTyped DEF CommitPost, Formed
<1>2. /\ job'[h] = MediaIdle /\ (\A k \in Handlers \ {h} : job'[k] = job[k])
      /\ UNCHANGED contended
  BY MoveFacts DEF CommitPost, Finish
<1>3. PICK j : j = job[h]
  OBVIOUS
<1>4. /\ posts'[j.post] = [author |-> j.who, media |-> j.ids]
      /\ \A x \in Posts \ {j.post} : posts'[x] = posts[x]
      /\ \A r \in RowIds \ Ids(j) : rows'[r] = rows[r]
      /\ j.post \in Posts /\ posts[j.post] = None
  BY <1>1, <1>3, PlacedRows DEF FormedAttach
<1>5. ASSUME NEW i \in DOMAIN j.ids
      PROVE  /\ j.ids[i] \in RowIds /\ rows[j.ids[i]] \in Row /\ rows'[j.ids[i]] \in Row
             /\ rows'[j.ids[i]].state = rows[j.ids[i]].state
             /\ rows[j.ids[i]].state \in {"ready", "deleted"}
             /\ rows'[j.ids[i]].post = j.post
             /\ rows'[j.ids[i]].position =
                  IF j.seen[i].position = i - 1 THEN rows[j.ids[i]].position ELSE i - 1
  BY <1>1, <1>3, PlacedRows, AttachedRow
<1>6. ASSUME NEW r \in RowIds, rows[r] # None, rows[r].state \in {"ready", "deleted"}
      PROVE  rows'[r] # None /\ rows'[r].state = rows[r].state
  BY <1>3, <1>4, <1>6, PlacedRow, MediaNone
\* An uncontended row of the list is written by nobody else's list.
<1>7. Wanted'
  <2>1. ASSUME NEW k \in Handlers, job'[k].op = "attach"
        PROVE  /\ k # h /\ job'[k] = job[k] /\ job[k].op = "attach"
               /\ Ids(job[k])' = Ids(job[k])
    BY <1>2, <2>1, MediaIdleFits DEF Ids
  <2>2. ASSUME NEW k \in Handlers \ {h}, job[k].op = "attach", NEW i \in DOMAIN job[k].ids
        PROVE  AsRead(job[k], i) /\ ( job[k].ids[i] \notin contended =>
                                        rows'[job[k].ids[i]] = rows[job[k].ids[i]] )
    <3>1. AsRead(job[k], i) /\ Ids(job[h]) \cap Ids(job[k]) \subseteq contended
      BY <1>1, <2>2 DEF MediaKept, Wanted
    <3>2. job[k].ids[i] \in Ids(job[k]) /\ job[k].ids[i] \in RowIds
      BY <2>2, AttachedRow, MediaJobTyped DEF Ids
    <3> QED
      BY <1>3, <1>4, <3>1, <3>2
  <2>3. ASSUME NEW k \in Handlers, job'[k].op = "attach", NEW i \in DOMAIN job'[k].ids
        PROVE  AsRead(job[k], i)'
    BY <1>2, <2>1, <2>2, <2>3 DEF AsRead
  <2> QED
    BY <1>2, <2>1, <2>3 DEF Wanted, MediaKept
<1>8. Published'
  <2> SUFFICES ASSUME NEW x \in Posts, posts'[x] # None, NEW i \in DOMAIN posts'[x].media
               PROVE  /\ posts'[x].media[i] \in RowIds
                      /\ rows'[posts'[x].media[i]] # None
                      /\ rows'[posts'[x].media[i]].state \in {"ready", "deleted"}
    BY DEF Published
  <2>1. CASE x = j.post
    BY <1>4, <1>5, <2>1, MediaNone
  <2>2. CASE x # j.post
    BY <1>4, <1>6, <2>2 DEF MediaKept, Published
  <2> QED
    BY <2>1, <2>2
<1>9. KeepsItsMedia'
  <2> SUFFICES ASSUME NEW x \in Posts, posts'[x] # None, NEW i \in DOMAIN posts'[x].media,
                      NEW r, r = posts'[x].media[i], r \notin contended,
                      rows'[r].state = "ready"
               PROVE  rows'[r].post = x /\ rows'[r].position = i - 1
    BY <1>2 DEF KeepsItsMedia
  <2>1. CASE x = j.post
    <3>1. i \in DOMAIN j.ids /\ r = j.ids[i]
      BY <1>4, <2>1
    <3>2. rows[r].state = "ready"
      BY <1>5, <3>1
    <3>3. rows[r].position = j.seen[i].position
      BY <1>1, <1>3, <3>1, <3>2 DEF MediaKept, Wanted, AsRead
    <3> QED
      BY <1>5, <2>1, <3>1, <3>3
  <2>2. CASE x # j.post
    <3>1. posts'[x] = posts[x]
      BY <1>4, <2>2
    <3>2. r \in RowIds /\ rows[r] # None /\ rows[r].state \in {"ready", "deleted"}
      BY <3>1 DEF MediaKept, Published
    <3>3. rows[r].state = "ready"
      BY <1>6, <3>2
    <3>4. rows[r].post = x /\ rows[r].position = i - 1
      BY <3>1, <3>3 DEF MediaKept, KeepsItsMedia
    <3>5. r \notin Ids(j)
      <4>1. ASSUME NEW n \in DOMAIN j.ids, j.ids[n] = r PROVE FALSE
        <5>1. rows[r].post = None
          BY <1>1, <1>3, <3>3, <4>1 DEF MediaKept, Wanted, AsRead
        <5> QED
          BY <3>4, <5>1, MediaNone
      <4> QED
        BY <4>1 DEF Ids
    <3> QED
      BY <1>4, <3>2, <3>4, <3>5
  <2> QED
    BY <2>1, <2>2
<1> QED
  BY <1>7, <1>8, <1>9 DEF MediaKept

LEMMA KeptNext == ASSUME MediaBase, MediaKept, [MediaNext]_mediaVars PROVE MediaKept'
<1>1. ASSUME NEW r \in RowIds, Release(r) PROVE MediaKept'
  <2>1. UNCHANGED <<posts, contended, job>>
    BY <1>1 DEF Release
  <2> QED
    BY <1>1, <2>1, CalmRows, CalmKept
<1>2. CASE UNCHANGED mediaVars
  <2>1. UNCHANGED <<rows, posts, contended, job>>
    BY <1>2 DEF mediaVars
  <2> QED
    BY <2>1, CalmRows, CalmKept
<1> QED
  BY <1>1, <1>2, CalmSteps, StartAttachKept, CommitPostKept DEF MediaNext

\* A post keeps the media it was published with, each at its place of the list, as long
\* as the owner has not deleted it and no other post wanted it at the same time
\* (attach_media_to_post).
THEOREM PostsKeepTheirMedia == MediaSpec => []KeepsItsMedia
<1>1. MediaKept => KeepsItsMedia
  BY DEF MediaKept
<1> QED
  BY <1>1, MediaInitBase, NextBase, KeptInit, KeptNext, PTL DEF MediaSpec
===============================================================================
