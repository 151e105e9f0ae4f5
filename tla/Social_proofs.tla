---------------------------- MODULE Social_proofs -----------------------------
(***************************************************************************)
(* Proofs about SocialGraph and Inbox, for any number of profiles, actors  *)
(* and handlers at work.  SocialGraph: nobody is followed without having   *)
(* agreed, an accepted request has its edge, and a block severs what was   *)
(* there before it.  Inbox: what the entries say is true, for a window and *)
(* pages of any size; paging to the end misses no entry it owes; what was  *)
(* read stays read.                                                        *)
(***************************************************************************)
EXTENDS SocialGraph, Inbox, FiniteSetTheorems, TLAPS

(***************************************************************************)
(* SocialGraph                                                             *)
(***************************************************************************)

\* What a request means to write, seen from the rows as they are now.
Planned(j) ==
  /\ j.pair \in Pairs /\ j.key <= requests
  /\ j.sets \subseteq Both(j.pair) /\ (j.sets = {} \/ j.to \in Statuses)
  /\ "edge" \in j.inserts => j.pair \in consent
  /\ j.to = "accepted" =>
       /\ j.sets \subseteq {j.pair}
       /\ "edge" \in j.inserts \/ edges[j.pair] # 0 \/ j.pair \in dropped
  /\ "block" \in j.inserts => j.inserts = {"block"} /\ j.to = "blocked"

\* A pair that no two requests worked on at once is as its request has read it.
Fresh(j) ==
  \A p \in Both(j.pair) \ raced :
    /\ blocks[p] < j.key
    /\ "block" \in j.inserts =>
         /\ edges[p] \in j.deletes \cup {0}
         /\ Status(p) = "requested" => p \in j.sets

Alone ==
  \A h, k \in Handlers :
    h # k /\ Busy(h) /\ Busy(k) /\ job[k].pair \in Both(job[h].pair)
      => job[h].pair \in raced

Settled ==
  /\ \A h \in Handlers : Busy(h) => Planned(job[h]) /\ Fresh(job[h])
  /\ \A p \in Pairs : blocks[p] <= requests
  /\ \A p \in raced : Back(p) \in raced

Inv == TypeOK /\ Settled /\ Alone /\ NoEdgeWithoutConsent /\ AcceptedHasEdge /\ BlockSevers

LEMMA PairFacts ==
  ASSUME NEW p \in Pairs, NEW q \in Both(p)
  PROVE  /\ q \in Pairs /\ Back(p) \in Pairs /\ Both(p) \subseteq Pairs
         /\ p \in Both(q) /\ Both(q) = Both(p)
         /\ q = p \/ q = Back(p)
         /\ p \in Both(p) /\ Back(p) \in Both(p)
  BY DEF Pairs, Both, Back

LEMMA InitInv == Init => Inv
<1> SUFFICES ASSUME Init PROVE Inv
  OBVIOUS
<1>1. TypeOK
  BY SocialGraphAssumptions DEF Init, TypeOK, Keys, Nothing, Job
<1>2. \A p \in Pairs : Status(p) = None /\ None \notin {"accepted", "requested"}
  BY SocialGraphAssumptions DEF Init, Status, Statuses
<1>3. \A h \in Handlers : ~Busy(h)
  BY DEF Init, Busy, Nothing
<1> QED
  BY <1>1, <1>2, <1>3 DEF Init, Inv, Settled, Alone, NoEdgeWithoutConsent,
     AcceptedHasEdge, BlockSevers

\* A request that has only read adds its plan; everything else is as it was.
LEMMA PlanInv ==
  ASSUME Inv, NEW h \in Handlers, NEW p \in Pairs, NEW j \in Job, Plan(h, p, j),
         consent \subseteq consent', consent' \subseteq Pairs,
         j.sets \subseteq Both(p), j.sets = {} \/ j.to \in Statuses,
         "edge" \in j.inserts => p \in consent',
         j.to = "accepted" =>
           j.sets \subseteq {p} /\ ("edge" \in j.inserts \/ edges[p] # 0),
         "block" \in j.inserts =>
           /\ j.inserts = {"block"} /\ j.to = "blocked"
           /\ \A q \in Both(p) : /\ edges[q] \in j.deletes \cup {0}
                                 /\ Status(q) = "requested" => q \in j.sets
  PROVE  Inv'
<1> DEFINE new == [j EXCEPT !.key = requests + 1, !.pair = p]
<1>1. /\ UNCHANGED <<edges, asks, blocks, private, dropped>>
      /\ requests' = requests + 1 /\ requests' \in Keys
      /\ job' = [job EXCEPT ![h] = new] /\ ~Busy(h)
      /\ new \in Job /\ new.key = requests + 1 /\ new.pair = p
      /\ new.inserts = j.inserts /\ new.deletes = j.deletes
      /\ new.sets = j.sets /\ new.to = j.to
  <2>1. /\ UNCHANGED <<edges, asks, blocks, private, dropped>>
        /\ requests' = requests + 1 /\ requests' \in Keys
        /\ job' = [job EXCEPT ![h] = new] /\ ~Busy(h)
    BY SocialGraphAssumptions DEF Plan, Inv, TypeOK, Keys
  <2> QED
    BY <2>1 DEF Job
<1> HIDE DEF new
<1>2. /\ raced \subseteq raced' /\ raced' \subseteq raced \cup Both(p)
      /\ raced' \subseteq Pairs
      /\ \A k \in Handlers : Busy(k) /\ job[k].pair \in Both(p) => Both(p) \subseteq raced'
  BY PairFacts DEF Plan, Inv, TypeOK, Both
<1>3. TypeOK'
  BY <1>1, <1>2 DEF Inv, TypeOK
<1>4. /\ job'[h] = new
      /\ \A k \in Handlers \ {h} : job'[k] = job[k] /\ Busy(k)' = Busy(k)
  BY <1>1 DEF Inv, TypeOK, Busy
<1>5. \A q \in raced' : Back(q) \in raced'
  BY <1>2, PairFacts DEF Plan, Inv, Settled, Both, Back
<1>6. \A q \in Pairs : blocks'[q] <= requests' /\ blocks[q] < requests + 1
  BY <1>1 DEF Inv, Settled, TypeOK, Keys
<1>7. \A k \in Handlers \ {h} : Busy(k) => Planned(job[k])' /\ Fresh(job[k])'
  <2> TAKE k \in Handlers \ {h}
  <2> HAVE Busy(k)
  <2>1. Planned(job[k]) /\ Fresh(job[k]) /\ job[k].key \in Nat /\ requests \in Nat
    BY DEF Inv, Settled, TypeOK, Keys, Job
  <2>2. Planned(job[k])'
    BY <2>1, <1>1, <1>4 DEF Planned
  <2>3. Fresh(job[k])'
    BY <2>1, <1>1, <1>2, <1>4 DEF Fresh, Status
  <2> QED
    BY <2>2, <2>3
<1>8. Planned(job[h])'
  BY <1>1, <1>4 DEF Planned, Inv, TypeOK, Keys
<1>9. Fresh(job[h])'
  BY <1>1, <1>4, <1>6, PairFacts DEF Fresh, Status
<1>10. Settled'
  BY <1>4, <1>5, <1>6, <1>7, <1>8, <1>9 DEF Settled
<1>11. Alone'
  <2> SUFFICES ASSUME NEW g \in Handlers, NEW k \in Handlers, g # k, Busy(g)', Busy(k)',
                      job'[k].pair \in Both(job'[g].pair)
               PROVE  job'[g].pair \in raced'
    BY DEF Alone
  <2>1. CASE g = h
    BY <2>1, <1>1, <1>2, <1>4, PairFacts
  <2>2. CASE k = h
    <3>1. Busy(g) /\ job'[g] = job[g] /\ job[g].pair \in Pairs /\ job'[k].pair = p
      BY <2>2, <1>1, <1>4 DEF Inv, Settled, Planned
    <3>2. job[g].pair \in Both(p)
      BY <3>1, PairFacts
    <3> QED
      BY <3>1, <3>2, <1>2
  <2>3. CASE g # h /\ k # h
    BY <2>3, <1>2, <1>4 DEF Inv, Alone
  <2> QED
    BY <2>1, <2>2, <2>3
<1>12. NoEdgeWithoutConsent' /\ AcceptedHasEdge' /\ BlockSevers'
  BY <1>1, <1>2 DEF Inv, NoEdgeWithoutConsent, AcceptedHasEdge, BlockSevers, Status
<1> QED
  BY <1>3, <1>10, <1>11, <1>12 DEF Inv

\* Follow, decline, unfollow and the like write one row about their pair.
LEMMA JobFacts ==
  ASSUME Inv, NEW p \in Pairs
  PROVE  /\ \A row \in {"edge", "ask"} :
              /\ Insert(row) \in Job /\ Insert(row).inserts = {row}
              /\ Insert(row).sets = {} /\ Insert(row).to = None
         /\ \A to \in Statuses :
              /\ Set(p, to) \in Job /\ Set(p, to).inserts = {}
              /\ Set(p, to).sets = {p} /\ Set(p, to).to = to
              /\ WithEdge(p, Set(p, to)) \in Job
              /\ WithEdge(p, Set(p, to)).sets = {p} /\ WithEdge(p, Set(p, to)).to = to
              /\ WithEdge(p, Set(p, to)).inserts = IF edges[p] = 0 THEN {"edge"} ELSE {}
         /\ \A key \in Keys :
              LET j == [Nothing EXCEPT !.deletes = {key}] IN
              /\ j \in Job /\ j.inserts = {} /\ j.sets = {} /\ j.to = None
<1>1. 0 \in Keys /\ edges[p] \in Keys
  BY SocialGraphAssumptions DEF Keys, Inv, TypeOK
<1> QED
  BY <1>1 DEF Insert, Set, WithEdge, Nothing, Job

LEMMA ReadInv ==
  ASSUME Inv, NEW h \in Handlers, NEW p \in Pairs, NEW who \in Profiles,
         \/ MayFollow(h, p) \/ MayUnfollow(h, p) \/ MayBlock(h, p) \/ MayUnblock(h, p)
         \/ MayAccept(h, who, p) \/ MayDecline(h, who, p) \/ MayRemoveFollower(h, who, p)
  PROVE  Inv'
<1>1. /\ consent \subseteq Pairs /\ p \in Both(p) /\ Both(p) \subseteq Pairs
      /\ consent \cup {p} \subseteq Pairs
      /\ edges[p] \in Keys /\ blocks[p] \in Keys
      /\ None \notin Statuses
      /\ {"requested", "accepted", "declined", "cancelled", "blocked"} \subseteq Statuses
  <2>1. p \in Both(p)
    BY DEF Both
  <2>2. Both(p) \subseteq Pairs
    BY <2>1, PairFacts
  <2> QED
    BY <2>1, <2>2, SocialGraphAssumptions DEF Inv, TypeOK, Statuses
<1>2. None # "accepted" /\ None # "blocked"
  BY <1>1
<1>3. CASE MayFollow(h, p)
  <2>1. CASE Plan(h, p, Insert("edge")) /\ consent' = consent \cup {p}
    BY <1>1, <1>2, <2>1, JobFacts, PlanInv
  <2>2. CASE Plan(h, p, Insert("ask")) /\ UNCHANGED consent
    BY <1>1, <1>2, <2>2, JobFacts, PlanInv
  <2>3. CASE Plan(h, p, Set(p, "requested")) /\ UNCHANGED consent
    BY <1>1, <1>2, <2>3, JobFacts, PlanInv
  <2> QED
    BY <1>3, <2>1, <2>2, <2>3 DEF MayFollow
<1>4. CASE MayAccept(h, who, p)
  <2>1. consent' = consent \cup {p}
    BY <1>4 DEF MayAccept
  <2>2. CASE Plan(h, p, WithEdge(p, Set(p, "accepted")))
    BY <1>1, <1>2, <2>1, <2>2, JobFacts, PlanInv
  <2>3. CASE Plan(h, p, Insert("edge"))
    BY <1>1, <1>2, <2>1, <2>3, JobFacts, PlanInv
  <2> QED
    BY <1>4, <2>2, <2>3 DEF MayAccept
<1>5. CASE \/ Plan(h, p, Set(p, "declined")) /\ UNCHANGED consent
           \/ Plan(h, p, Set(p, "cancelled")) /\ UNCHANGED consent
  BY <1>1, <1>2, <1>5, JobFacts, PlanInv
<1>6. CASE \/ Plan(h, p, [Nothing EXCEPT !.deletes = {edges[p]}]) /\ UNCHANGED consent
           \/ Plan(h, p, [Nothing EXCEPT !.deletes = {blocks[p]}]) /\ UNCHANGED consent
  BY <1>1, <1>2, <1>6, JobFacts, PlanInv
<1>7. CASE MayBlock(h, p)
  <2> DEFINE gone == { edges[q] : q \in Both(p) } \ {0}
             asked == { q \in Both(p) : Status(q) = "requested" }
             j == [Nothing EXCEPT !.inserts = {"block"}, !.deletes = gone,
                     !.sets = asked, !.to = "blocked"]
  <2>1. /\ gone \subseteq Keys /\ 0 \in Keys
        /\ asked \subseteq Both(p) /\ asked \subseteq Pairs
    BY <1>1, SocialGraphAssumptions DEF Inv, TypeOK, Keys
  <2>2. \A q \in Both(p) : edges[q] \in gone \cup {0}
    OBVIOUS
  <2>3. \A q \in Both(p) : Status(q) = "requested" => q \in asked
    OBVIOUS
  <2>4. Plan(h, p, j) /\ UNCHANGED consent
    BY <1>7 DEF MayBlock
  <2> HIDE DEF gone, asked
  <2>5. /\ j \in Job /\ j.inserts = {"block"} /\ j.deletes = gone
        /\ j.sets = asked /\ j.to = "blocked"
    BY <1>1, <2>1 DEF Job, Nothing
  <2> HIDE DEF j
  <2> QED
    BY <1>1, <2>1, <2>2, <2>3, <2>4, <2>5, PlanInv
<1> QED
  BY <1>3, <1>4, <1>5, <1>6, <1>7
  DEF MayDecline, MayUnfollow, MayRemoveFollower, MayUnblock

\* What a commit changes, table by table.
LEMMA WriteFacts ==
  ASSUME Inv, NEW h \in Handlers, Write(h)
  PROVE  LET j == job[h] IN
         /\ j.key \in Nat \ {0} /\ j.key <= requests /\ requests \in Nat
         /\ j \in Job /\ Planned(j) /\ Fresh(j)
         /\ j.pair \in Pairs /\ j.pair \in Both(j.pair) /\ Both(j.pair) \subseteq Pairs
         /\ \A q \in Pairs :
              /\ \/ q = j.pair /\ "edge" \in j.inserts /\ edges'[q] = j.key
                 \/ edges'[q] \in {0, edges[q]}
              /\ edges[q] \in j.deletes /\ (q # j.pair \/ "edge" \notin j.inserts)
                   => edges'[q] = 0
              /\ "edge" \in j.inserts /\ q = j.pair => edges'[q] = j.key
              /\ edges[q] # 0 /\ edges'[q] = 0 => q \in dropped'
              /\ \/ q = j.pair /\ "block" \in j.inserts /\ blocks'[q] = j.key
                 \/ blocks'[q] \in {0, blocks[q]}
              /\ asks'[q] = asks[q] \/ q \in Both(j.pair)
              /\ \/ asks'[q] = asks[q] /\ q \notin j.sets
                 \/ q \in j.sets /\ asks'[q] = [status |-> j.to, by |-> j.key]
                 \/ /\ q = j.pair /\ "ask" \in j.inserts
                    /\ asks'[q] = [status |-> "requested", by |-> j.key]
         /\ dropped \subseteq dropped' /\ dropped' \subseteq Pairs
         /\ job' = [job EXCEPT ![h] = Nothing]
         /\ UNCHANGED <<private, consent, raced, requests>>
<1> DEFINE j == job[h]
<1>1. j \in Job /\ Planned(j) /\ Fresh(j) /\ j.key # 0
  BY DEF Write, Busy, Inv, Settled, TypeOK
<1>2. j.key \in Nat /\ j.key <= requests /\ requests \in Nat /\ j.pair \in Pairs
  BY <1>1, SocialGraphAssumptions DEF Job, Keys, Planned, Inv, TypeOK
<1>3. j.pair \in Both(j.pair)
  BY DEF Both
<1>4. Both(j.pair) \subseteq Pairs /\ j.sets \subseteq Both(j.pair)
  BY <1>1, <1>2, <1>3, PairFacts DEF Planned
<1>5. /\ edges' = Rewrite(edges, j, "edge") /\ blocks' = Rewrite(blocks, j, "block")
      /\ asks' = [p \in Pairs |->
           IF p = j.pair /\ "ask" \in j.inserts THEN [status |-> "requested", by |-> j.key]
           ELSE IF p \in j.sets THEN [status |-> j.to, by |-> j.key]
           ELSE asks[p]]
      /\ dropped' = dropped \cup { p \in Pairs : edges[p] \in j.deletes }
      /\ job' = [job EXCEPT ![h] = Nothing]
      /\ UNCHANGED <<private, consent, raced, requests>>
  BY DEF Write, Done
<1> HIDE DEF j
<1>6. ASSUME NEW q \in Pairs
      PROVE  /\ edges'[q] = IF q = j.pair /\ "edge" \in j.inserts THEN j.key
                            ELSE IF edges[q] \in j.deletes THEN 0 ELSE edges[q]
             /\ blocks'[q] = IF q = j.pair /\ "block" \in j.inserts THEN j.key
                             ELSE IF blocks[q] \in j.deletes THEN 0 ELSE blocks[q]
             /\ edges[q] \in j.deletes => q \in dropped'
             /\ asks'[q] = IF q = j.pair /\ "ask" \in j.inserts
                           THEN [status |-> "requested", by |-> j.key]
                           ELSE IF q \in j.sets THEN [status |-> j.to, by |-> j.key]
                           ELSE asks[q]
  BY <1>5 DEF Rewrite
<1>7. dropped \subseteq dropped' /\ dropped' \subseteq Pairs
  BY <1>5 DEF Inv, TypeOK
<1> QED
  BY <1>1, <1>2, <1>3, <1>4, <1>5, <1>6, <1>7 DEF j

LEMMA WriteInv ==
  ASSUME Inv, NEW h \in Handlers, Write(h)
  PROVE  Inv'
<1>1. PICK j : j = job[h]
  OBVIOUS
<1>2. /\ j.key \in Nat \ {0} /\ j.key <= requests /\ requests \in Nat
      /\ j \in Job /\ Planned(j) /\ Fresh(j)
      /\ j.pair \in Pairs /\ j.pair \in Both(j.pair) /\ Both(j.pair) \subseteq Pairs
  BY <1>1, WriteFacts
<1>3. ASSUME NEW q \in Pairs
      PROVE  /\ \/ q = j.pair /\ "edge" \in j.inserts /\ edges'[q] = j.key
                \/ edges'[q] \in {0, edges[q]}
             /\ edges[q] \in j.deletes /\ (q # j.pair \/ "edge" \notin j.inserts)
                  => edges'[q] = 0
             /\ "edge" \in j.inserts /\ q = j.pair => edges'[q] = j.key
             /\ edges[q] # 0 /\ edges'[q] = 0 => q \in dropped'
             /\ \/ q = j.pair /\ "block" \in j.inserts /\ blocks'[q] = j.key
                \/ blocks'[q] \in {0, blocks[q]}
             /\ asks'[q] = asks[q] \/ q \in Both(j.pair)
             /\ \/ asks'[q] = asks[q] /\ q \notin j.sets
                \/ q \in j.sets /\ asks'[q] = [status |-> j.to, by |-> j.key]
                \/ /\ q = j.pair /\ "ask" \in j.inserts
                   /\ asks'[q] = [status |-> "requested", by |-> j.key]
  BY <1>1, WriteFacts
<1>4. /\ dropped \subseteq dropped' /\ dropped' \subseteq Pairs
      /\ job' = [job EXCEPT ![h] = Nothing]
      /\ UNCHANGED <<private, consent, raced, requests>>
  BY WriteFacts
<1>5. /\ ~Busy(h)'
      /\ \A k \in Handlers \ {h} : job'[k] = job[k] /\ Busy(k)' = Busy(k)
  BY <1>4 DEF Inv, TypeOK, Busy, Nothing
<1>6. \A q \in Pairs : /\ edges[q] \in Keys /\ edges[q] \in Nat /\ blocks[q] \in Nat
                       /\ blocks[q] <= requests
                       /\ asks[q] \in [status : Statuses, by : Keys] \cup {None}
  BY SocialGraphAssumptions DEF Inv, TypeOK, Settled, Keys
<1>7. \A q \in Pairs : asks'[q] # asks[q] =>
        \/ q \in j.sets /\ Status(q)' = j.to /\ asks'[q].by = j.key
        \/ /\ q = j.pair /\ "ask" \in j.inserts
           /\ Status(q)' = "requested" /\ asks'[q].by = j.key
  <2> TAKE q \in Pairs
  <2> HAVE asks'[q] # asks[q]
  <2>1. CASE q \in j.sets /\ asks'[q] = [status |-> j.to, by |-> j.key]
    <3>1. asks'[q] \in [status : Statuses, by : Keys]
      BY <2>1, <1>2 DEF Planned, Job
    <3> QED
      BY <2>1, <3>1, SocialGraphAssumptions DEF Status
  <2>2. CASE /\ q = j.pair /\ "ask" \in j.inserts
             /\ asks'[q] = [status |-> "requested", by |-> j.key]
    <3>1. asks'[q] \in [status : Statuses, by : Keys]
      BY <2>2, <1>2 DEF Job, Statuses
    <3> QED
      BY <2>2, <3>1, SocialGraphAssumptions DEF Status
  <2> QED
    BY <2>1, <2>2, <1>3
<1>8. TypeOK'
  <2>1. edges' \in [Pairs -> Keys] /\ blocks' \in [Pairs -> Keys]
    <3>1. j.key \in Keys /\ 0 \in Keys
      BY <1>2, SocialGraphAssumptions DEF Job, Keys
    <3>2. \A q \in Pairs : edges'[q] \in Keys /\ blocks'[q] \in Keys
      BY <1>3, <3>1 DEF Inv, TypeOK
    <3> QED
      BY <3>2, <1>1 DEF Write, Rewrite
  <2>2. asks' \in [Pairs -> [status : Statuses, by : Keys] \cup {None}]
    <3>1. \A q \in Pairs : asks'[q] \in [status : Statuses, by : Keys] \cup {None}
      BY <1>2, <1>3, <1>6 DEF Planned, Job, Statuses
    <3> QED
      BY <3>1 DEF Write
  <2>3. Nothing \in Job
    BY SocialGraphAssumptions DEF Nothing, Job, Keys
  <2> QED
    BY <1>4, <2>1, <2>2, <2>3 DEF Inv, TypeOK
<1>9. NoEdgeWithoutConsent'
  BY <1>2, <1>3, <1>4 DEF Inv, NoEdgeWithoutConsent, Planned
<1>10. AcceptedHasEdge'
  <2> SUFFICES ASSUME NEW q \in Pairs, Status(q)' = "accepted"
               PROVE  edges'[q] # 0 \/ q \in dropped'
    BY DEF AcceptedHasEdge
  <2>1. CASE asks'[q] = asks[q]
    BY <2>1, <1>2, <1>3, <1>4 DEF Inv, AcceptedHasEdge, Status
  <2>2. CASE q \in j.sets /\ j.to = "accepted"
    BY <2>2, <1>2, <1>3, <1>4 DEF Planned
  <2> QED
    BY <2>1, <2>2, <1>7
<1>11. \A p, q \in Pairs : p \in Both(q) =>
         q \in Both(p) /\ Both(p) = Both(q) /\ (p \in raced <=> q \in raced)
  <2> TAKE p, q \in Pairs
  <2> HAVE p \in Both(q)
  <2>1. q \in Both(p) /\ Both(p) = Both(q)
    BY PairFacts
  <2>2. p = q \/ (p = Back(q) /\ q = Back(p))
    BY DEF Both, Back, Pairs
  <2> QED
    BY <2>1, <2>2 DEF Inv, Settled
<1>12. BlockSevers'
  <2> SUFFICES ASSUME NEW p \in Pairs \ raced, blocks'[p] # 0, NEW q \in Both(p)
               PROVE  /\ edges'[q] # 0 => edges'[q] > blocks'[p]
                      /\ Status(q)' = "requested" => asks'[q].by > blocks'[p]
    BY <1>4 DEF BlockSevers
  <2>1. q \in Pairs \ raced /\ p \in Both(q)
    BY PairFacts, <1>11
  <2>2. CASE p = j.pair /\ "block" \in j.inserts /\ blocks'[p] = j.key
    <3>1. q \in Both(j.pair) \ raced /\ j.inserts = {"block"} /\ j.to = "blocked"
      BY <2>1, <2>2, <1>2 DEF Planned
    <3>2. edges[q] \in j.deletes \cup {0} /\ (Status(q) = "requested" => q \in j.sets)
      BY <2>2, <3>1, <1>2 DEF Fresh
    <3>3. edges'[q] = 0
      BY <2>1, <3>1, <3>2, <1>3
    <3>4. Status(q)' # "requested"
      <4>1. CASE asks'[q] = asks[q]
        <5>1. q \notin j.sets \/ asks'[q] = [status |-> j.to, by |-> j.key]
          BY <2>1, <3>1, <1>3
        <5>2. CASE q \notin j.sets
          BY <4>1, <5>2, <3>2 DEF Status
        <5>3. CASE asks'[q] = [status |-> j.to, by |-> j.key]
          BY <5>3, <3>1, <2>1, <1>6, SocialGraphAssumptions DEF Status, Statuses
        <5> QED
          BY <5>1, <5>2, <5>3
      <4>2. CASE asks'[q] # asks[q]
        BY <4>2, <2>1, <3>1, <1>7
      <4> QED
        BY <4>1, <4>2
    <3> QED
      BY <3>3, <3>4
  <2>3. CASE blocks'[p] = blocks[p]
    <3>1. /\ edges[q] # 0 => edges[q] > blocks[p]
          /\ Status(q) = "requested" => asks[q].by > blocks[p]
      BY <2>3 DEF Inv, BlockSevers
    <3>2. q \in Both(j.pair) => j.key > blocks[p]
      <4> HAVE q \in Both(j.pair)
      <4>1. p \in Both(j.pair)
        BY <2>1, <1>2, <1>11
      <4> QED
        BY <4>1, <1>2, <1>6 DEF Fresh
    <3>3. edges'[q] # 0 => edges'[q] > blocks[p]
      BY <2>1, <3>1, <3>2, <1>2, <1>3
    <3>4. Status(q)' = "requested" => asks'[q].by > blocks[p]
      <4>1. CASE asks'[q] = asks[q]
        BY <4>1, <3>1 DEF Status
      <4>2. CASE asks'[q] # asks[q]
        <5>1. q \in Both(j.pair) /\ asks'[q].by = j.key
          BY <4>2, <2>1, <1>3, <1>7
        <5> QED
          BY <5>1, <3>2
      <4> QED
        BY <4>1, <4>2
    <3> QED
      BY <2>3, <3>3, <3>4
  <2> QED
    BY <2>2, <2>3, <1>3
<1>13. \A k \in Handlers \ {h} : Busy(k) => Planned(job[k])' /\ Fresh(job[k])'
  <2> TAKE k \in Handlers \ {h}
  <2> HAVE Busy(k)
  <2>1. PICK i : i = job[k]
    OBVIOUS
  <2>2. /\ Planned(i) /\ Fresh(i) /\ i.key \in Nat \ {0} /\ i.pair \in Pairs
        /\ i.pair \in Both(i.pair) /\ Both(i.pair) \subseteq Pairs
    <3>1. Planned(i) /\ Fresh(i) /\ i.key \in Nat \ {0}
      BY <2>1, SocialGraphAssumptions DEF Inv, Settled, TypeOK, Keys, Job, Busy
    <3>2. i.pair \in Both(i.pair)
      BY DEF Both
    <3> QED
      BY <3>1, <3>2, PairFacts DEF Planned
  <2>3. \A p \in Both(i.pair) \ raced : p \notin Both(j.pair)
    <3> TAKE p \in Both(i.pair) \ raced
    <3> SUFFICES ASSUME p \in Both(j.pair) PROVE FALSE
      OBVIOUS
    <3>1. p \in Pairs /\ i.pair \in Both(j.pair)
      BY <2>2, <1>2, <1>11
    <3>2. j.pair \in raced
      BY <3>1, <2>1, <1>1 DEF Inv, Alone, Write
    <3> QED
      BY <3>1, <3>2, <1>2, <1>11
  <2>4. Planned(i)'
    BY <2>2, <1>3, <1>4 DEF Planned
  <2>5. ASSUME NEW p \in Both(i.pair) \ raced
        PROVE  /\ blocks'[p] < i.key
               /\ "block" \in i.inserts =>
                    /\ edges'[p] \in i.deletes \cup {0}
                    /\ Status(p)' = "requested" => p \in i.sets
    <3>1. p \in Pairs /\ p # j.pair /\ asks'[p] = asks[p]
      BY <2>2, <2>3, <1>2, <1>3
    <3>2. blocks'[p] \in {0, blocks[p]} /\ edges'[p] \in {0, edges[p]}
      BY <3>1, <1>3
    <3>3. /\ blocks[p] < i.key
          /\ "block" \in i.inserts =>
               /\ edges[p] \in i.deletes \cup {0}
               /\ Status(p) = "requested" => p \in i.sets
      BY <2>2 DEF Fresh
    <3> QED
      BY <3>1, <3>2, <3>3, <2>2 DEF Status
  <2>6. Fresh(i)'
    BY <2>5, <1>4 DEF Fresh
  <2> QED
    BY <2>1, <2>4, <2>6, <1>5
<1>14. Settled'
  <2>1. \A q \in Pairs : blocks'[q] <= requests'
    BY <1>2, <1>3, <1>4, <1>6
  <2>2. \A q \in raced' : Back(q) \in raced'
    BY <1>4 DEF Inv, Settled
  <2> QED
    BY <2>1, <2>2, <1>5, <1>13 DEF Settled
<1>15. Alone'
  BY <1>4, <1>5 DEF Inv, Alone
<1> QED
  BY <1>8, <1>9, <1>10, <1>12, <1>14, <1>15 DEF Inv

\* A request that ends without a commit, and a change of the settings.
LEMMA OtherInv ==
  ASSUME Inv, (\E h \in Handlers : RollBack(h)) \/ (\E a \in Profiles : ChangePrivacy(a))
              \/ UNCHANGED vars
  PROVE  Inv'
<1>1. ASSUME UNCHANGED <<edges, asks, blocks, consent, dropped, raced, requests>>,
             private' \subseteq Profiles, job' \in [Handlers -> Job],
             \A k \in Handlers : Busy(k)' => Busy(k) /\ job'[k] = job[k]
      PROVE  Inv'
  <2>1. TypeOK' /\ Alone'
    BY <1>1 DEF Inv, TypeOK, Alone
  <2>2. Settled'
    <3>1. \A k \in Handlers : Busy(k)' => Planned(job[k])' /\ Fresh(job[k])'
      BY <1>1 DEF Inv, Settled, Planned, Fresh, Status
    <3> QED
      BY <1>1, <3>1 DEF Inv, Settled
  <2>3. NoEdgeWithoutConsent' /\ AcceptedHasEdge' /\ BlockSevers'
    BY <1>1 DEF Inv, NoEdgeWithoutConsent, AcceptedHasEdge, BlockSevers, Status
  <2> QED
    BY <2>1, <2>2, <2>3 DEF Inv
<1>2. ASSUME NEW h \in Handlers, RollBack(h) PROVE Inv'
  <2>1. Nothing \in Job
    BY SocialGraphAssumptions DEF Nothing, Job, Keys
  <2>2. job' \in [Handlers -> Job]
    BY <1>2, <2>1 DEF RollBack, Done, Inv, TypeOK
  <2>3. \A k \in Handlers : Busy(k)' => Busy(k) /\ job'[k] = job[k]
    BY <1>2 DEF RollBack, Done, Inv, TypeOK, Busy, Nothing
  <2> QED
    BY <1>1, <1>2, <2>2, <2>3 DEF RollBack, Done, Inv, TypeOK
<1>3. ASSUME NEW a \in Profiles, ChangePrivacy(a) PROVE Inv'
  BY <1>1, <1>3 DEF ChangePrivacy, Inv, TypeOK, Busy
<1>4. CASE UNCHANGED vars
  BY <1>1, <1>4 DEF vars, Inv, TypeOK, Busy
<1> QED
  BY <1>2, <1>3, <1>4

LEMMA NextInv == Inv /\ [Next]_vars => Inv'
<1> SUFFICES ASSUME Inv, [Next]_vars PROVE Inv'
  OBVIOUS
<1>1. ASSUME NEW h \in Handlers, NEW p \in Pairs,
             \/ MayFollow(h, p) \/ MayUnfollow(h, p) \/ MayBlock(h, p) \/ MayUnblock(h, p)
      PROVE  Inv'
  <2>1. p[2] \in Profiles
    BY DEF Pairs
  <2> QED
    BY <1>1, <2>1, ReadInv
<1>2. ASSUME NEW h \in Handlers, NEW p \in Pairs, NEW who \in Profiles,
             \/ MayAccept(h, who, p) \/ MayDecline(h, who, p)
             \/ MayRemoveFollower(h, who, p)
      PROVE  Inv'
  BY <1>2, ReadInv
<1>3. ASSUME NEW h \in Handlers, Write(h) PROVE Inv'
  BY <1>3, WriteInv
<1> QED
  BY <1>1, <1>2, <1>3, OtherInv DEF Next

(***************************************************************************)
(* Theorems                                                                *)
(***************************************************************************)

\* The invariant of edges, requests and blocks and of what is planned for them.
THEOREM Invariance == Spec => []Inv
  BY InitInv, NextInv, PTL DEF Spec

\* An edge was agreed to by both of its sides, whatever overlapped.
THEOREM EdgesAreWanted == Spec => []Sound
  BY Invariance, PTL DEF Inv, Sound

\* A request that was accepted has its edge until somebody deletes it.
THEOREM AcceptanceIsAnEdge == Spec => []AcceptedHasEdge
  BY Invariance, PTL DEF Inv

\* D1: what a block finds is gone, in both directions, for every pair whose
\* requests did not overlap.
THEOREM BlocksSever == Spec => []BlockSevers
  BY Invariance, PTL DEF Inv

(***************************************************************************)
(* Inbox: the order of the pages                                           *)
(***************************************************************************)

\* A family of subsets of a finite set has a minimal one.
LEMMA LeastSubset ==
  ASSUME NEW D, IsFiniteSet(D), NEW F \in SUBSET SUBSET D, F # {}
  PROVE  \E X \in F : \A Y \in F : Y \subseteq X => Y = X
<1>1. IsWellFoundedOn(StrictSubsetOrdering(D), SUBSET D)
  BY FS_FiniteSubsetsOfFinite, FS_StrictSubsetOrderingWellFounded
<1>2. PICK X \in F : \A Y \in F : ~(<<Y, X>> \in StrictSubsetOrdering(D))
  BY <1>1, WFMin
<1> QED
  BY <1>2 DEF StrictSubsetOrdering

LEMMA RowFacts ==
  ASSUME InboxTypeOK
  PROVE  /\ DOMAIN rows = 1 .. Len(rows) /\ Len(rows) \in Nat /\ IsFiniteSet(DOMAIN rows)
         /\ rows \in [DOMAIN rows -> Row]
         /\ \A i \in DOMAIN rows : /\ i \in Ids /\ rows[i] \in Row
                                   /\ rows[i].at \in Times /\ rows[i].actor \in Actors
                                   /\ rows[i].count \in Ids /\ rows[i].read \in BOOLEAN
                                   /\ rows[i].about \in {"post", "actor"}
<1>1. rows \in Seq(Row)
  BY DEF InboxTypeOK
<1>2. DOMAIN rows = 1 .. Len(rows) /\ Len(rows) \in Nat /\ rows \in [DOMAIN rows -> Row]
  BY <1>1
<1>3. IsFiniteSet(DOMAIN rows)
  BY <1>2, FS_Interval
<1>4. \A i \in DOMAIN rows : i \in Ids /\ rows[i] \in Row
  BY <1>2 DEF Ids
<1> QED
  BY <1>2, <1>3, <1>4 DEF Row

LEMMA TimesFacts == Times \subseteq Nat /\ 0 \in Times
  BY InboxAssumptions DEF Times

\* The order of the pages.
LEMMA KeysOrdered ==
  ASSUME NEW k \in Times \X Ids, NEW l \in Times \X Ids, NEW m \in Times \X Ids
  PROVE  /\ ~Before(k, k)
         /\ k # l => Before(k, l) \/ Before(l, k)
         /\ Before(k, l) /\ Before(l, m) => Before(k, m)
<1>1. /\ k[1] \in Nat /\ k[2] \in Nat /\ l[1] \in Nat /\ l[2] \in Nat
      /\ m[1] \in Nat /\ m[2] \in Nat
  BY TimesFacts DEF Ids
<1>2. k = <<k[1], k[2]>> /\ l = <<l[1], l[2]>>
  OBVIOUS
<1>3. k # l => k[1] # l[1] \/ k[2] # l[2]
  BY <1>2
<1> QED
  BY <1>1, <1>3 DEF Before

LEMMA KeyOrder ==
  ASSUME InboxTypeOK
  PROVE  /\ \A i \in DOMAIN rows : Key(i) \in Times \X Ids /\ ~Before(Key(i), Key(i))
         /\ \A i, o \in DOMAIN rows :
              i # o => Before(Key(i), Key(o)) \/ Before(Key(o), Key(i))
         /\ \A i, o, m \in DOMAIN rows :
              Before(Key(i), Key(o)) /\ Before(Key(o), Key(m)) => Before(Key(i), Key(m))
         /\ \A i, o \in DOMAIN rows : \A c \in Times \X Ids :
              Before(Key(i), Key(o)) /\ Before(Key(o), c) => Before(Key(i), c)
<1>1. \A i \in DOMAIN rows : Key(i) \in Times \X Ids
  BY RowFacts DEF Key
<1>2. \A i, o \in DOMAIN rows : i # o => Key(i) # Key(o)
  BY DEF Key
<1> QED
  BY <1>1, <1>2, KeysOrdered

Newer(S, i) == { o \in S : Before(Key(i), Key(o)) }

LEMMA NewerFinite ==
  ASSUME InboxTypeOK, NEW S \in SUBSET DOMAIN rows, NEW i \in DOMAIN rows,
         NEW o \in DOMAIN rows
  PROVE  /\ IsFiniteSet(S) /\ Cardinality(S) \in Nat
         /\ IsFiniteSet(Newer(S, i)) /\ Cardinality(Newer(S, i)) \in Nat
         /\ Before(Key(o), Key(i)) => Cardinality(Newer(S, i)) <= Cardinality(Newer(S, o))
         /\ Before(Key(o), Key(i)) /\ i \in S =>
              Cardinality(Newer(S, i)) < Cardinality(Newer(S, o))
<1>1. IsFiniteSet(S) /\ Cardinality(S) \in Nat
  BY RowFacts, FS_Subset, FS_CardinalityType
<1>2. /\ IsFiniteSet(Newer(S, i)) /\ Cardinality(Newer(S, i)) \in Nat
      /\ IsFiniteSet(Newer(S, o)) /\ Cardinality(Newer(S, o)) \in Nat
  <2>1. Newer(S, i) \in SUBSET S /\ Newer(S, o) \in SUBSET S
    BY DEF Newer
  <2> QED
    BY <1>1, <2>1, FS_Subset, FS_CardinalityType
<1>3. ASSUME Before(Key(o), Key(i))
      PROVE  /\ Cardinality(Newer(S, i)) <= Cardinality(Newer(S, o))
             /\ i \in S => Cardinality(Newer(S, i)) < Cardinality(Newer(S, o))
  <2>1. Newer(S, i) \in SUBSET Newer(S, o)
    BY <1>3, KeyOrder DEF Newer
  <2>2. Cardinality(Newer(S, i)) <= Cardinality(Newer(S, o))
    BY <1>2, <2>1, FS_Subset
  <2>3. ASSUME i \in S PROVE Cardinality(Newer(S, i)) < Cardinality(Newer(S, o))
    <3>1. i \in Newer(S, o) /\ i \notin Newer(S, i)
      BY <1>3, <2>3, KeyOrder DEF Newer
    <3>2. Newer(S, i) \in SUBSET (Newer(S, o) \ {i})
      BY <2>1, <3>1
    <3>3. /\ IsFiniteSet(Newer(S, o) \ {i})
          /\ Cardinality(Newer(S, o) \ {i}) = Cardinality(Newer(S, o)) - 1
      BY <1>2, <3>1, FS_RemoveElement
    <3>4. Cardinality(Newer(S, i)) <= Cardinality(Newer(S, o) \ {i})
      BY <3>2, <3>3, FS_Subset
    <3> QED
      BY <1>2, <3>3, <3>4
  <2> QED
    BY <2>2, <2>3
<1> QED
  BY <1>1, <1>2, <1>3

LEMMA OldestThere ==
  ASSUME InboxTypeOK, NEW S \in SUBSET DOMAIN rows, S # {}
  PROVE  \E i \in S : \A o \in S : o = i \/ Before(Key(i), Key(o))
<1> DEFINE Older(i) == { o \in S : Before(Key(o), Key(i)) }
<1> DEFINE F == { Older(i) : i \in S }
<1>1. F \in SUBSET SUBSET DOMAIN rows /\ F # {}
  OBVIOUS
<1>2. PICK X \in F : \A Y \in F : Y \subseteq X => Y = X
  <2> HIDE DEF F
  <2> QED
    BY <1>1, RowFacts, LeastSubset
<1>3. PICK i \in S : X = Older(i)
  BY <1>2
<1>4. ASSUME NEW o \in Older(i) PROVE FALSE
  <2>1. Older(o) \subseteq Older(i) /\ o \notin Older(o) /\ o \in S
    BY <1>4, KeyOrder
  <2> QED
    BY <1>2, <1>3, <1>4, <2>1
<1>5. ASSUME NEW o \in S, o # i PROVE Before(Key(i), Key(o))
  BY <1>4, <1>5, KeyOrder
<1> QED
  BY <1>5

LEMMA NewestFacts ==
  ASSUME InboxTypeOK, NEW S \in SUBSET DOMAIN rows, NEW n \in Nat
  PROVE  /\ Newest(S, n) \in SUBSET S
         /\ \A i \in S \ Newest(S, n), o \in Newest(S, n) : Before(Key(i), Key(o))
         /\ Cardinality(S) <= n => Newest(S, n) = S
         /\ n # 0 /\ S # {} => Newest(S, n) # {}
<1>1. Newest(S, n) = { i \in S : Cardinality(Newer(S, i)) < n }
  BY DEF Newest, Newer
<1>2. ASSUME NEW i \in S \ Newest(S, n), NEW o \in Newest(S, n)
      PROVE  Before(Key(i), Key(o))
  <2>1. i # o /\ i \in DOMAIN rows /\ o \in DOMAIN rows
    BY <1>1, <1>2
  <2>2. ~(Cardinality(Newer(S, i)) <= Cardinality(Newer(S, o)))
    BY <1>1, <1>2, <2>1, NewerFinite
  <2>3. ~Before(Key(o), Key(i))
    BY <2>1, <2>2, NewerFinite
  <2> QED
    BY <2>1, <2>3, KeyOrder
<1>3. ASSUME Cardinality(S) <= n, NEW i \in S PROVE i \in Newest(S, n)
  <2>1. IsFiniteSet(S) /\ Cardinality(S) \in Nat
    BY RowFacts, FS_Subset, FS_CardinalityType
  <2>2. i \notin Newer(S, i) /\ Newer(S, i) \in SUBSET (S \ {i})
    BY <1>3, KeyOrder DEF Newer
  <2>3. IsFiniteSet(S \ {i}) /\ Cardinality(S \ {i}) = Cardinality(S) - 1
    BY <1>3, <2>1, FS_RemoveElement
  <2>4. Cardinality(Newer(S, i)) <= Cardinality(S) - 1 /\ Cardinality(Newer(S, i)) \in Nat
    BY <2>2, <2>3, FS_Subset, FS_CardinalityType
  <2> QED
    BY <1>1, <1>3, <2>1, <2>4
<1>4. ASSUME n # 0, S # {} PROVE Newest(S, n) # {}
  <2> DEFINE F == { Newer(S, i) : i \in S }
  <2>1. F \in SUBSET SUBSET DOMAIN rows /\ F # {}
    BY <1>4 DEF Newer
  <2>2. PICK X \in F : \A Y \in F : Y \subseteq X => Y = X
    <3> HIDE DEF F
    <3> QED
      BY <2>1, RowFacts, LeastSubset
  <2>3. PICK i \in S : X = Newer(S, i)
    BY <2>2
  <2>4. ASSUME NEW o \in Newer(S, i) PROVE FALSE
    <3>1. Newer(S, o) \subseteq Newer(S, i) /\ o \notin Newer(S, o) /\ o \in S
      BY <2>4, KeyOrder DEF Newer
    <3> QED
      BY <2>2, <2>3, <2>4, <3>1
  <2>5. Cardinality(Newer(S, i)) = 0
    BY <2>4, FS_EmptySet
  <2> QED
    BY <1>1, <1>4, <2>5
<1> QED
  BY <1>1, <1>2, <1>3, <1>4

\* What a page shows, and what it leaves to the next one.
LEMMA PageFacts ==
  ASSUME InboxTypeOK, NEW c \in (Times \X Ids) \cup {None}
  PROVE  /\ Page(c).rows \in SUBSET DOMAIN rows
         /\ Page(c).next \in (Times \X Ids) \cup {None}
         /\ Page(c).cut \in BOOLEAN
         /\ ~Page(c).cut =>
              \A i \in OlderThan(c) : rows[i].actor \notin blocked =>
                i \in Page(c).rows \/ (Page(c).next # None /\ Before(Key(i), Page(c).next))
<1> DEFINE read    == Newest(OlderThan(c), PageSize + 1)
           visible == { i \in read : rows[i].actor \notin blocked }
           page    == Newest(visible, PageSize)
           last    == CHOOSE i \in page : \A o \in page : o = i \/ Before(Key(i), Key(o))
<1>1. /\ Page(c).rows = page
      /\ Page(c).next = IF Cardinality(visible) > PageSize THEN Key(last) ELSE None
      /\ Page(c).cut = (Cardinality(visible) <= PageSize /\ OlderThan(c) # read)
  BY DEF Page
<1>2. PageSize \in Nat /\ PageSize # 0 /\ PageSize + 1 \in Nat
  BY InboxAssumptions
<1>3. OlderThan(c) \in SUBSET DOMAIN rows
  BY DEF OlderThan
<1>4. /\ read \in SUBSET OlderThan(c)
      /\ \A i \in OlderThan(c) \ read, o \in read : Before(Key(i), Key(o))
  BY <1>2, <1>3, NewestFacts
<1>5. visible \in SUBSET DOMAIN rows /\ visible \subseteq read
  BY <1>3, <1>4
<1> HIDE DEF read
<1>6. /\ page \in SUBSET visible
      /\ \A i \in visible \ page, o \in page : Before(Key(i), Key(o))
      /\ Cardinality(visible) <= PageSize => page = visible
      /\ visible # {} => page # {}
  <2> HIDE DEF visible
  <2> QED
    BY <1>2, <1>5, NewestFacts
<1>7. Cardinality(visible) \in Nat
  <2> HIDE DEF visible
  <2> QED
    BY <1>5, RowFacts, FS_Subset, FS_CardinalityType
<1>8. ASSUME Cardinality(visible) > PageSize
      PROVE  /\ last \in page /\ Key(last) \in Times \X Ids
             /\ \A o \in page : o = last \/ Before(Key(last), Key(o))
  <2>1. visible # {}
    BY <1>2, <1>8, FS_EmptySet
  <2>2. page # {} /\ page \in SUBSET DOMAIN rows
    BY <1>5, <1>6, <2>1
  <2> HIDE DEF page
  <2>3. \E i \in page : \A o \in page : o = i \/ Before(Key(i), Key(o))
    BY <2>2, OldestThere
  <2>4. last \in page /\ \A o \in page : o = last \/ Before(Key(last), Key(o))
    BY <2>3
  <2> QED
    BY <2>2, <2>4, KeyOrder
<1> HIDE DEF last, page
<1>9. Page(c).next \in (Times \X Ids) \cup {None}
  BY <1>1, <1>8
<1>10. None \notin Times \X Ids
  BY InboxAssumptions
<1>11. ASSUME ~Page(c).cut, NEW i \in OlderThan(c), rows[i].actor \notin blocked,
              i \notin Page(c).rows
       PROVE  Page(c).next # None /\ Before(Key(i), Page(c).next)
  <2>1. CASE Cardinality(visible) <= PageSize
    <3>1. i \in read
      BY <1>1, <1>11, <2>1
    <3>2. i \in visible
      BY <1>11, <3>1
    <3> QED
      BY <1>1, <1>6, <1>11, <2>1, <3>2
  <2>2. CASE Cardinality(visible) > PageSize
    <3>1. Before(Key(i), Key(last))
      <4>1. CASE i \in read
        BY <1>1, <1>6, <1>8, <1>11, <2>2, <4>1
      <4>2. CASE i \notin read
        BY <1>4, <1>6, <1>8, <1>11, <2>2, <4>2
      <4> QED
        BY <4>1, <4>2
    <3>2. Page(c).next = Key(last) /\ Page(c).next # None
      BY <1>1, <1>8, <1>10, <2>2
    <3> QED
      BY <3>1, <3>2
  <2> QED
    BY <1>2, <1>7, <2>1, <2>2
<1>12. Page(c).rows \in SUBSET DOMAIN rows /\ Page(c).cut \in BOOLEAN
  BY <1>1, <1>5, <1>6
<1> QED
  BY <1>9, <1>11, <1>12

(***************************************************************************)
(* The entries                                                             *)
(***************************************************************************)

Posting(j) == j.what \in {"comment", "reaction"}

\* What a handler has in its hands: the row it adds to is there and is of the post,
\* and its count is at most what has been told of that row, and one.
EntryShaped(j) ==
  /\ j.what # None => j.actor \in Actors /\ j.now <= clock
  /\ j.what = "follow" => j.looked /\ j.adds = 0
  /\ j.adds # 0 =>
       /\ Posting(j) /\ j.looked
       /\ j.adds \in DOMAIN rows /\ rows[j.adds].about = "post"
       /\ j.count \in Ids /\ j.count <= events[j.adds] + 1

\* The rows of a handler that is alone on the post are as it has read them: all in
\* its past, outside the window if it found none there, and the one it adds to as
\* long as it was.
EntryJudged(j) ==
  Posting(j) =>
    /\ \A i \in PostRows : rows[i].at <= j.now
    /\ j.looked /\ j.adds = 0 => \A i \in PostRows : j.now > rows[i].at + Window
    /\ j.adds # 0 => j.count = rows[j.adds].count + 1 /\ j.now <= rows[j.adds].at + Window

PostAlone == \A h, k \in Handlers : Posting(job[h]) /\ Posting(job[k]) => h = k

RowsPast == \A i \in DOMAIN rows : rows[i].at <= clock

InboxInv ==
  /\ InboxTypeOK /\ RowsPast
  /\ \A h \in Handlers : EntryShaped(job[h])
  /\ OneEntryPerBurst /\ CountsAreEvents /\ OneEntryPerAsker
  /\ ~overlapped => PostAlone /\ \A h \in Handlers : EntryJudged(job[h])

LEMMA InboxNone ==
  /\ None \notin Actors /\ None \notin Kinds /\ None \notin Times \X Ids
  /\ None \notin {"comment", "reaction", "follow"}
  BY InboxAssumptions

LEMMA InboxIdle == Idle \in InboxJob /\ Idle.what = None /\ Idle.adds = 0
  BY TimesFacts DEF Idle, InboxJob

LEMMA InboxJobTyped ==
  ASSUME InboxTypeOK, NEW h \in Handlers
  PROVE  /\ job[h] \in InboxJob /\ job[h].now \in Times /\ job[h].now \in Nat
         /\ job[h].adds \in Nat /\ job[h].count \in Nat /\ job[h].looked \in BOOLEAN
  BY TimesFacts DEF InboxTypeOK, InboxJob

\* A step of one handler that writes no row.
LEMMA JobEntries ==
  ASSUME InboxInv, NEW h \in Handlers, NEW j \in InboxJob, job' = [job EXCEPT ![h] = j],
         UNCHANGED <<rows, reaction, blocked, clock, view, events>>,
         overlapped' \in BOOLEAN, overlapped => overlapped',
         requests' \in 0 .. MaxRequests, EntryShaped(j),
         ~overlapped' => /\ EntryJudged(j)
                         /\ Posting(j) => \A k \in Handlers \ {h} : ~Posting(job[k])
  PROVE  InboxInv'
<1>1. job'[h] = j /\ \A k \in Handlers \ {h} : job'[k] = job[k]
  BY DEF InboxInv, InboxTypeOK
<1>2. InboxTypeOK' /\ RowsPast'
  BY DEF InboxInv, InboxTypeOK, RowsPast
<1>3. \A g : (EntryShaped(g)' <=> EntryShaped(g)) /\ (EntryJudged(g)' <=> EntryJudged(g))
  BY DEF EntryShaped, EntryJudged, PostRows
<1>4. \A k \in Handlers : EntryShaped(job[k])'
  <2>1. \A k \in Handlers : EntryShaped(job'[k])
    BY <1>1 DEF InboxInv
  <2> QED
    BY <2>1 DEF EntryShaped
<1>5. OneEntryPerBurst' /\ CountsAreEvents' /\ OneEntryPerAsker'
  BY DEF InboxInv, OneEntryPerBurst, CountsAreEvents, OneEntryPerAsker, PostRows
<1>6. ASSUME ~overlapped' PROVE PostAlone' /\ \A k \in Handlers : EntryJudged(job[k])'
  <2>1. \A k \in Handlers : EntryJudged(job'[k])
    BY <1>1, <1>6 DEF InboxInv
  <2>2. PostAlone'
    BY <1>1, <1>6 DEF InboxInv, PostAlone
  <2> QED
    BY <2>1, <2>2 DEF EntryJudged, PostRows
<1> QED
  BY <1>2, <1>4, <1>5, <1>6 DEF InboxInv

LEMMA InboxInitInv == InboxInit => InboxInv
<1> SUFFICES ASSUME InboxInit PROVE InboxInv
  OBVIOUS
<1>1. view \in View
  BY TimesFacts DEF InboxInit, Closed, View
<1>2. InboxTypeOK
  <2>1. rows \in Seq(Row) /\ events \in Seq(Ids) /\ Len(events) = Len(rows)
    BY DEF InboxInit
  <2>2. reaction \in [Actors -> Kinds \cup {None}] /\ job \in [Handlers -> InboxJob]
    BY InboxIdle DEF InboxInit
  <2>3. blocked = {} /\ clock = 0 /\ overlapped = FALSE /\ requests = 0
    BY DEF InboxInit
  <2>4. 0 \in 0 .. MaxRequests
    BY InboxAssumptions
  <2> QED
    BY <1>1, <2>1, <2>2, <2>3, <2>4, TimesFacts DEF InboxTypeOK
<1>3. DOMAIN rows = {} /\ PostRows = {}
  BY DEF InboxInit, PostRows
<1>4. \A h \in Handlers : ~Posting(job[h]) /\ EntryShaped(job[h])
  BY InboxIdle, InboxNone DEF InboxInit, Posting, EntryShaped
<1>5. OneEntryPerBurst /\ CountsAreEvents /\ OneEntryPerAsker /\ RowsPast
  BY <1>3 DEF OneEntryPerBurst, CountsAreEvents, OneEntryPerAsker, RowsPast
<1> QED
  BY <1>2, <1>4, <1>5 DEF InboxInv, PostAlone, EntryJudged

LEMMA BeginEntries ==
  ASSUME InboxInv, NEW h \in Handlers, NEW a \in Actors,
         Comment(h, a) \/ Follow(h, a) \/ \E k \in Kinds : React(h, a, k)
  PROVE  InboxInv'
<1>1. PICK j \in InboxJob :
        /\ Begin(h, j) /\ j.what \in {"comment", "reaction", "follow"}
        /\ j.actor = a /\ j.adds = 0 /\ (j.looked <=> j.what = "follow")
  <2>1. CASE Comment(h, a)
    <3> DEFINE j == [Idle EXCEPT !.what = "comment", !.actor = a]
    <3>1. /\ j \in InboxJob /\ j.what = "comment" /\ j.actor = a /\ j.adds = 0
          /\ j.looked = FALSE
      BY InboxIdle DEF Idle, InboxJob
    <3> QED
      BY <2>1, <3>1 DEF Comment
  <2>2. CASE Follow(h, a)
    <3> DEFINE j == [Idle EXCEPT !.what = "follow", !.actor = a, !.looked = TRUE]
    <3>1. /\ j \in InboxJob /\ j.what = "follow" /\ j.actor = a /\ j.adds = 0
          /\ j.looked = TRUE
      BY InboxIdle DEF Idle, InboxJob
    <3> QED
      BY <2>2, <3>1 DEF Follow
  <2>3. ASSUME NEW k \in Kinds, React(h, a, k)
        PROVE  \E j \in InboxJob :
                 /\ Begin(h, j) /\ j.what \in {"comment", "reaction", "follow"}
                 /\ j.actor = a /\ j.adds = 0 /\ (j.looked <=> j.what = "follow")
    <3>1. CASE reaction[a] = k
      <4> DEFINE j == [Idle EXCEPT !.what = "reaction", !.actor = a]
      <4>1. /\ j \in InboxJob /\ j.what = "reaction" /\ j.actor = a /\ j.adds = 0
            /\ j.looked = FALSE
        BY InboxIdle DEF Idle, InboxJob
      <4> QED
        BY <2>3, <3>1, <4>1 DEF React
    <3>2. CASE reaction[a] # k
      <4> DEFINE j == [Idle EXCEPT !.what = "reaction", !.actor = a, !.kind = k]
      <4>1. /\ j \in InboxJob /\ j.what = "reaction" /\ j.actor = a /\ j.adds = 0
            /\ j.looked = FALSE
        BY InboxIdle DEF Idle, InboxJob
      <4> QED
        BY <2>3, <3>2, <4>1 DEF React
    <3> QED
      BY <3>1, <3>2
  <2> QED
    BY <2>1, <2>2, <2>3
<1> DEFINE g == [j EXCEPT !.now = clock]
<1>2. clock \in Times /\ clock \in Nat
  BY TimesFacts DEF InboxInv, InboxTypeOK
<1>3. /\ g \in InboxJob /\ g.now = clock /\ g.what = j.what /\ g.actor = a
      /\ g.adds = 0 /\ (g.looked <=> g.what = "follow")
  BY <1>1, <1>2 DEF InboxJob
<1>4. /\ job' = [job EXCEPT ![h] = g]
      /\ UNCHANGED <<rows, reaction, blocked, clock, view, events>>
      /\ overlapped' = (overlapped \/ (j.what # "follow" /\ \E k \in Handlers : OnPost(k)))
      /\ requests' = requests + 1 /\ requests < MaxRequests
  BY <1>1 DEF Begin
<1> HIDE DEF g
<1>5. requests' \in 0 .. MaxRequests /\ overlapped' \in BOOLEAN
  BY <1>4, InboxAssumptions DEF InboxInv, InboxTypeOK
<1>6. EntryShaped(g)
  BY <1>1, <1>2, <1>3 DEF EntryShaped
<1>7. ASSUME ~overlapped'
      PROVE  /\ EntryJudged(g)
             /\ Posting(g) => \A k \in Handlers \ {h} : ~Posting(job[k])
  <2>1. EntryJudged(g)
    BY <1>1, <1>3 DEF EntryJudged, Posting, InboxInv, RowsPast, PostRows
  <2>2. Posting(g) => \A k \in Handlers : ~Posting(job[k])
    BY <1>3, <1>4, <1>7 DEF Posting, OnPost
  <2> QED
    BY <2>1, <2>2
<1> QED
  BY <1>3, <1>4, <1>5, <1>6, <1>7, JobEntries

LEMMA LookEntries ==
  ASSUME InboxInv, NEW h \in Handlers, Look(h) PROVE InboxInv'
<1> DEFINE j == job[h]
           found == InWindow(job[h].now)
<1>1. /\ j \in InboxJob /\ j.now \in Nat /\ EntryShaped(j) /\ ~j.looked /\ j.what # None
      /\ j.adds = 0
  BY InboxJobTyped DEF InboxInv, Look, Working, EntryShaped
<1>2. Window \in Nat
  BY InboxAssumptions
<1>3. PICK g \in InboxJob :
        /\ job' = [job EXCEPT ![h] = g]
        /\ g.what = j.what /\ g.actor = j.actor /\ g.now = j.now /\ g.looked
        /\ \/ found = {} /\ g.adds = 0
           \/ g.adds \in found /\ g.count = rows[g.adds].count + 1
  <2>1. CASE found = {} /\ job' = [job EXCEPT ![h].looked = TRUE]
    <3> DEFINE g == [j EXCEPT !.looked = TRUE]
    <3>1. g \in InboxJob /\ job' = [job EXCEPT ![h] = g]
      BY <1>1, <2>1 DEF InboxJob
    <3> QED
      BY <1>1, <2>1, <3>1 DEF InboxJob
  <2>2. ASSUME NEW i \in found,
               job' = [job EXCEPT ![h].looked = TRUE, ![h].adds = i,
                                  ![h].count = rows[i].count + 1]
        PROVE  \E g \in InboxJob :
                 /\ job' = [job EXCEPT ![h] = g]
                 /\ g.what = j.what /\ g.actor = j.actor /\ g.now = j.now /\ g.looked
                 /\ g.adds \in found /\ g.count = rows[g.adds].count + 1
    <3> DEFINE g == [j EXCEPT !.looked = TRUE, !.adds = i, !.count = rows[i].count + 1]
    <3>1. i \in Nat /\ rows[i].count + 1 \in Nat
      BY RowFacts DEF InWindow, InboxInv, Ids
    <3>2. g \in InboxJob
      BY <1>1, <3>1 DEF InboxJob
    <3>3. job' = [job EXCEPT ![h] = g]
      BY <1>1, <2>2 DEF InboxInv, InboxTypeOK, InboxJob
    <3> QED
      BY <1>1, <3>2, <3>3 DEF InboxJob
  <2> QED
    BY <2>1, <2>2 DEF Look
<1>4. UNCHANGED <<rows, reaction, blocked, clock, view, events, overlapped, requests>>
  BY DEF Look
<1>5. Posting(j)
  BY <1>1 DEF Posting, InboxJob, EntryShaped
<1> HIDE DEF found
<1>6. ASSUME g.adds # 0
      PROVE  /\ g.adds \in DOMAIN rows /\ rows[g.adds].about = "post"
             /\ g.count = rows[g.adds].count + 1 /\ j.now <= rows[g.adds].at + Window
             /\ g.count \in Ids /\ g.count <= events[g.adds] + 1
  <2>1. /\ g.adds \in DOMAIN rows /\ rows[g.adds].about = "post"
        /\ g.count = rows[g.adds].count + 1 /\ j.now <= rows[g.adds].at + Window
    BY <1>3, <1>6 DEF found, InWindow
  <2>2. rows[g.adds].count \in Nat
    BY <2>1, RowFacts DEF InboxInv, Ids
  <2>3. events[g.adds] \in Nat /\ rows[g.adds].count <= events[g.adds]
    <3>1. DOMAIN events = DOMAIN rows
      BY RowFacts DEF InboxInv, InboxTypeOK
    <3> QED
      BY <2>1, <3>1 DEF InboxInv, InboxTypeOK, CountsAreEvents, Ids
  <2> QED
    BY <2>1, <2>2, <2>3 DEF Ids
<1>7. EntryShaped(g)
  BY <1>1, <1>3, <1>5, <1>6 DEF EntryShaped, Posting
<1>8. ASSUME ~overlapped' PROVE EntryJudged(g)
  <2>1. \A i \in PostRows : rows[i].at <= j.now
    BY <1>4, <1>5, <1>8 DEF InboxInv, EntryJudged
  <2>2. ASSUME g.adds = 0, NEW i \in PostRows PROVE j.now > rows[i].at + Window
    <3>1. i \in DOMAIN rows /\ rows[i].about = "post" /\ rows[i].at <= j.now
      BY <2>1 DEF PostRows
    <3>2. found = {}
      BY <1>3, <2>2 DEF found, InWindow, InboxInv, InboxTypeOK
    <3>3. ~(j.now <= rows[i].at + Window)
      BY <3>1, <3>2 DEF found, InWindow
    <3>4. rows[i].at \in Nat
      BY <3>1, RowFacts, TimesFacts DEF InboxInv
    <3> QED
      BY <1>1, <1>2, <3>3, <3>4
  <2> QED
    BY <1>3, <1>6, <2>1, <2>2 DEF EntryJudged
<1>9. ~overlapped' => \A k \in Handlers \ {h} : ~Posting(job[k])
  BY <1>4, <1>5 DEF InboxInv, PostAlone
<1> QED
  BY <1>3, <1>4, <1>7, <1>8, <1>9, JobEntries DEF InboxInv, InboxTypeOK

LEMMA AbortEntries ==
  ASSUME InboxInv, NEW h \in Handlers, Abort(h) PROVE InboxInv'
<1>1. /\ job' = [job EXCEPT ![h] = Idle]
      /\ UNCHANGED <<rows, reaction, blocked, clock, view, events, overlapped, requests>>
  BY DEF Abort, Rest
<1>2. EntryShaped(Idle) /\ ~Posting(Idle)
  BY InboxIdle, InboxNone DEF EntryShaped, Posting
<1> QED
  BY <1>1, <1>2, InboxIdle, JobEntries DEF InboxInv, InboxTypeOK, EntryJudged

\* A step that leaves entries and handlers alone.
LEMMA ViewEntries ==
  ASSUME InboxInv, UNCHANGED <<rows, clock, job, events, overlapped, requests>>,
         reaction' \in [Actors -> Kinds \cup {None}], blocked' \subseteq Actors,
         view' \in View
  PROVE  InboxInv'
<1>1. InboxTypeOK' /\ RowsPast'
  BY DEF InboxInv, InboxTypeOK, RowsPast
<1>2. OneEntryPerBurst' /\ CountsAreEvents' /\ OneEntryPerAsker'
  BY DEF InboxInv, OneEntryPerBurst, CountsAreEvents, OneEntryPerAsker, PostRows
<1>3. \A k \in Handlers : EntryShaped(job[k])'
  BY DEF InboxInv, EntryShaped
<1>4. ~overlapped' => PostAlone' /\ \A k \in Handlers : EntryJudged(job[k])'
  BY DEF InboxInv, PostAlone, EntryJudged, PostRows
<1> QED
  BY <1>1, <1>2, <1>3, <1>4 DEF InboxInv

LEMMA TickEntries == ASSUME InboxInv, Tick PROVE InboxInv'
<1>1. clock \in Nat /\ clock' = clock + 1 /\ clock' \in Times
  BY TimesFacts, InboxAssumptions DEF InboxInv, InboxTypeOK, Tick, Times
<1>2. UNCHANGED <<rows, reaction, blocked, job, view, events, overlapped, requests>>
  BY DEF Tick
<1>3. InboxTypeOK'
  BY <1>1, <1>2 DEF InboxInv, InboxTypeOK
<1>4. RowsPast'
  <2>1. \A i \in DOMAIN rows : rows[i].at \in Nat /\ rows[i].at <= clock
    BY RowFacts, TimesFacts DEF InboxInv, RowsPast
  <2> QED
    BY <1>1, <1>2, <2>1 DEF RowsPast
<1>5. OneEntryPerBurst' /\ CountsAreEvents' /\ OneEntryPerAsker'
  BY <1>2 DEF InboxInv, OneEntryPerBurst, CountsAreEvents, OneEntryPerAsker, PostRows
<1>6. ASSUME NEW k \in Handlers PROVE EntryShaped(job[k])'
  <2>1. EntryShaped(job[k]) /\ job[k].now \in Nat
    BY InboxJobTyped DEF InboxInv
  <2> QED
    BY <1>1, <1>2, <2>1 DEF EntryShaped
<1>7. ~overlapped' => PostAlone' /\ \A k \in Handlers : EntryJudged(job[k])'
  BY <1>2 DEF InboxInv, PostAlone, EntryJudged, PostRows
<1> QED
  BY <1>3, <1>4, <1>5, <1>6, <1>7 DEF InboxInv

\* Marking rows as read changes nothing else of them.
LEMMA MarkedFacts ==
  ASSUME InboxTypeOK, NEW S, rows' = Marked(S)
  PROVE  /\ rows' \in Seq(Row) /\ Len(rows') = Len(rows) /\ DOMAIN rows' = DOMAIN rows
         /\ \A i \in DOMAIN rows :
              /\ rows'[i].about = rows[i].about /\ rows'[i].actor = rows[i].actor
              /\ rows'[i].count = rows[i].count /\ rows'[i].at = rows[i].at
              /\ rows[i].read => rows'[i].read
              /\ i \notin S => rows'[i].read = rows[i].read
<1>1. /\ DOMAIN rows = 1 .. Len(rows) /\ Len(rows) \in Nat
      /\ \A i \in DOMAIN rows : rows[i] \in Row
  BY RowFacts
<1>2. rows' = [i \in DOMAIN rows |-> [rows[i] EXCEPT !.read = rows[i].read \/ i \in S]]
  BY DEF Marked
<1>3. ASSUME NEW i \in DOMAIN rows
      PROVE  /\ rows'[i] \in Row
             /\ rows'[i].about = rows[i].about /\ rows'[i].actor = rows[i].actor
             /\ rows'[i].count = rows[i].count /\ rows'[i].at = rows[i].at
             /\ rows[i].read => rows'[i].read
             /\ i \notin S => rows'[i].read = rows[i].read
  <2>1. rows'[i] = [rows[i] EXCEPT !.read = rows[i].read \/ i \in S] /\ rows[i] \in Row
    BY <1>1, <1>2
  <2>2. rows[i].read \in BOOLEAN
    BY <2>1 DEF Row
  <2> QED
    BY <2>1, <2>2 DEF Row
<1>4. rows' \in Seq(Row) /\ Len(rows') = Len(rows) /\ DOMAIN rows' = DOMAIN rows
  <2>1. rows' \in [1 .. Len(rows) -> Row]
    BY <1>1, <1>2, <1>3
  <2> QED
    BY <1>1, <2>1
<1> QED
  BY <1>3, <1>4

LEMMA MarkedEntries ==
  ASSUME InboxInv, NEW S, rows' = Marked(S),
         UNCHANGED <<reaction, blocked, clock, job, view, events, overlapped, requests>>
  PROVE  InboxInv'
<1>1. /\ rows' \in Seq(Row) /\ Len(rows') = Len(rows) /\ DOMAIN rows' = DOMAIN rows
      /\ \A i \in DOMAIN rows :
           /\ rows'[i].about = rows[i].about /\ rows'[i].actor = rows[i].actor
           /\ rows'[i].count = rows[i].count /\ rows'[i].at = rows[i].at
  BY MarkedFacts DEF InboxInv
<1>2. InboxTypeOK' /\ RowsPast'
  BY <1>1 DEF InboxInv, InboxTypeOK, RowsPast
<1>3. PostRows' = PostRows
  BY <1>1 DEF PostRows
<1>4. OneEntryPerBurst' /\ CountsAreEvents' /\ OneEntryPerAsker'
  <2>1. OneEntryPerBurst'
    BY <1>1, <1>3 DEF InboxInv, OneEntryPerBurst, PostRows
  <2>2. CountsAreEvents'
    BY <1>1 DEF InboxInv, CountsAreEvents
  <2>3. OneEntryPerAsker'
    BY <1>1 DEF InboxInv, OneEntryPerAsker
  <2> QED
    BY <2>1, <2>2, <2>3
<1>5. \A k \in Handlers : EntryShaped(job[k])'
  BY <1>1 DEF InboxInv, EntryShaped
<1>6. ASSUME ~overlapped' PROVE PostAlone' /\ \A k \in Handlers : EntryJudged(job[k])'
  <2>1. PostAlone /\ \A k \in Handlers : EntryJudged(job[k])
    BY <1>6 DEF InboxInv
  <2>2. ASSUME NEW k \in Handlers PROVE EntryJudged(job[k])'
    <3>1. job[k].adds # 0 => job[k].adds \in DOMAIN rows
      BY DEF InboxInv, EntryShaped
    <3>2. \A i \in PostRows : i \in DOMAIN rows
      BY DEF PostRows
    <3> QED
      BY <1>1, <1>3, <2>1, <3>1, <3>2 DEF EntryJudged
  <2> QED
    BY <2>1, <2>2 DEF PostAlone
<1> QED
  BY <1>2, <1>4, <1>5, <1>6 DEF InboxInv

LEMMA CommitFacts ==
  ASSUME InboxInv, NEW h \in Handlers, Commit(h)
  PROVE  /\ job[h] \in InboxJob /\ EntryShaped(job[h])
         /\ job[h].looked /\ job[h].what # None
         /\ job[h].actor \in Actors /\ job[h].now \in Times /\ job[h].now \in Nat
         /\ job[h].now <= clock
         /\ job' \in [Handlers -> InboxJob]
         /\ job'[h] = Idle /\ \A k \in Handlers \ {h} : job'[k] = job[k]
         /\ UNCHANGED <<blocked, clock, overlapped, requests>>
         /\ reaction' \in [Actors -> Kinds \cup {None}] /\ view' \in View
<1>1. /\ job[h] \in InboxJob /\ EntryShaped(job[h]) /\ job[h].looked /\ job[h].what # None
      /\ job[h].now \in Times /\ job[h].now \in Nat
  BY InboxJobTyped DEF InboxInv, Commit, Working
<1>2. /\ job' = [job EXCEPT ![h] = Idle]
      /\ UNCHANGED <<blocked, clock, overlapped, requests>>
  BY DEF Commit, Rest
<1>3. /\ job' \in [Handlers -> InboxJob]
      /\ job'[h] = Idle /\ \A k \in Handlers \ {h} : job'[k] = job[k]
  BY <1>2, InboxIdle DEF InboxInv, InboxTypeOK
<1>4. reaction' \in [Actors -> Kinds \cup {None}]
  <2>1. job[h].kind \in Kinds \cup {None} /\ reaction \in [Actors -> Kinds \cup {None}]
    BY <1>1 DEF InboxJob, InboxInv, InboxTypeOK
  <2> QED
    BY <2>1 DEF Commit
<1>5. view' \in View
  BY DEF Commit, View, InboxInv, InboxTypeOK
<1> QED
  BY <1>1, <1>2, <1>3, <1>4, <1>5 DEF EntryShaped

\* After a commit the handlers left have what they had, whatever it wrote.
LEMMA CommitEntries ==
  ASSUME InboxInv, NEW h \in Handlers, Commit(h), rows' \in Seq(Row), events' \in Seq(Ids),
         Len(events') = Len(rows'), RowsPast', OneEntryPerBurst', CountsAreEvents',
         OneEntryPerAsker', DOMAIN rows \subseteq DOMAIN rows',
         \A i \in DOMAIN rows : /\ rows'[i].about = rows[i].about
                                /\ events[i] <= events'[i] /\ events'[i] \in Nat,
         ~overlapped /\ ~Posting(job[h]) =>
           /\ PostRows' = PostRows
           /\ \A i \in PostRows :
                rows'[i].at = rows[i].at /\ rows'[i].count = rows[i].count
  PROVE  InboxInv'
<1>1. /\ job' \in [Handlers -> InboxJob]
      /\ job'[h] = Idle /\ \A k \in Handlers \ {h} : job'[k] = job[k]
      /\ UNCHANGED <<blocked, clock, overlapped, requests>>
      /\ reaction' \in [Actors -> Kinds \cup {None}] /\ view' \in View
  BY CommitFacts
<1>2. InboxTypeOK'
  BY <1>1 DEF InboxInv, InboxTypeOK
<1>3. ASSUME NEW k \in Handlers PROVE EntryShaped(job[k])'
  <2>1. CASE k = h
    BY <1>1, <2>1, InboxIdle, InboxNone DEF EntryShaped
  <2>2. CASE k # h
    <3>1. EntryShaped(job[k]) /\ job'[k] = job[k] /\ job[k].count \in Nat
      BY <1>1, <2>2, InboxJobTyped DEF InboxInv
    <3>2. job[k].adds # 0 => events[job[k].adds] \in Nat
      <4>1. DOMAIN events = DOMAIN rows /\ \A i \in DOMAIN events : events[i] \in Nat
        BY RowFacts DEF InboxInv, InboxTypeOK, Ids
      <4> QED
        BY <3>1, <4>1 DEF EntryShaped
    <3> QED
      BY <1>1, <3>1, <3>2 DEF EntryShaped, Posting
  <2> QED
    BY <2>1, <2>2
<1>4. ASSUME ~overlapped' PROVE PostAlone' /\ \A k \in Handlers : EntryJudged(job[k])'
  <2>1. PostAlone /\ \A k \in Handlers : EntryJudged(job[k]) /\ EntryShaped(job[k])
    BY <1>1, <1>4 DEF InboxInv
  <2>2. ~Posting(Idle)
    BY InboxIdle, InboxNone DEF Posting
  <2>3. PostAlone'
    BY <1>1, <2>1, <2>2 DEF PostAlone, Posting
  <2>4. ASSUME NEW k \in Handlers PROVE EntryJudged(job[k])'
    <3>1. CASE k = h \/ ~Posting(job[k])
      BY <1>1, <2>2, <3>1 DEF EntryJudged, Posting
    <3>2. CASE k # h /\ Posting(job[k])
      <4>1. ~Posting(job[h])
        BY <2>1, <3>2 DEF PostAlone
      <4>2. /\ PostRows' = PostRows
            /\ \A i \in PostRows :
                 rows'[i].at = rows[i].at /\ rows'[i].count = rows[i].count
        BY <1>1, <1>4, <4>1
      <4>3. job[k].adds # 0 => job[k].adds \in PostRows
        BY <2>1 DEF EntryShaped, PostRows
      <4> QED
        BY <1>1, <2>1, <3>2, <4>2, <4>3 DEF EntryJudged
    <3> QED
      BY <3>1, <3>2
  <2> QED
    BY <2>3, <2>4
<1> QED
  BY <1>2, <1>3, <1>4 DEF InboxInv

LEMMA InboxNumbers ==
  ASSUME InboxInv
  PROVE  /\ Window \in Nat /\ clock \in Nat /\ DOMAIN events = DOMAIN rows
         /\ \A i \in DOMAIN rows : /\ rows[i].at \in Nat /\ rows[i].count \in Nat
                                   /\ events[i] \in Nat /\ events[i] \in Ids
  BY RowFacts, TimesFacts, InboxAssumptions DEF InboxInv, InboxTypeOK, Ids

\* A commit that adds to the row it has read.
LEMMA BumpEntries ==
  ASSUME InboxInv, NEW h \in Handlers, Commit(h), job[h].adds # 0
  PROVE  InboxInv'
<1> DEFINE j == job[h]
           a == job[h].adds
<1>1. /\ j \in InboxJob /\ EntryShaped(j)
      /\ j.now \in Times /\ j.now \in Nat /\ j.now <= clock
      /\ UNCHANGED <<clock, overlapped>>
  BY CommitFacts
<1>2. /\ a \in DOMAIN rows /\ rows[a].about = "post" /\ Posting(j)
      /\ j.count \in Ids /\ j.count \in Nat /\ j.count <= events[a] + 1
      /\ j.what # "follow"
  BY <1>1 DEF EntryShaped, Ids
<1>3. /\ rows' = [rows EXCEPT ![a] = Bumped(rows[a], j)]
      /\ events' = [events EXCEPT ![a] = events[a] + 1]
  BY <1>2 DEF Commit
<1>4. rows \in Seq(Row) /\ events \in Seq(Ids) /\ Len(events) = Len(rows) /\ rows[a] \in Row
  BY <1>2, RowFacts DEF InboxInv, InboxTypeOK
<1>5. /\ Bumped(rows[a], j) \in Row /\ Bumped(rows[a], j).about = "post"
      /\ Bumped(rows[a], j).actor = rows[a].actor /\ Bumped(rows[a], j).at = j.now
      /\ Bumped(rows[a], j).count = j.count
  BY <1>1, <1>2, <1>4 DEF Bumped, Row
<1>6. events[a] + 1 \in Ids
  BY <1>2, InboxNumbers DEF Ids
<1>7. /\ rows' \in Seq(Row) /\ events' \in Seq(Ids) /\ Len(events') = Len(rows')
      /\ DOMAIN rows' = DOMAIN rows
      /\ rows'[a] = Bumped(rows[a], j) /\ \A i \in DOMAIN rows \ {a} : rows'[i] = rows[i]
      /\ events'[a] = events[a] + 1 /\ \A i \in DOMAIN rows \ {a} : events'[i] = events[i]
  BY <1>2, <1>3, <1>4, <1>5, <1>6, InboxNumbers
<1> HIDE DEF j, a
<1>8. PostRows' = PostRows
  BY <1>2, <1>5, <1>7 DEF PostRows
<1>9. RowsPast'
  BY <1>1, <1>2, <1>5, <1>7 DEF InboxInv, RowsPast
<1>10. OneEntryPerAsker'
  <2>1. \A i \in DOMAIN rows : /\ rows'[i].about = rows[i].about
                               /\ rows'[i].actor = rows[i].actor
    BY <1>2, <1>5, <1>7
  <2> QED
    BY <1>7, <2>1 DEF InboxInv, OneEntryPerAsker
<1>11. ASSUME ~overlapped
       PROVE  /\ \A i \in PostRows : rows[i].at <= j.now
              /\ j.count = rows[a].count + 1 /\ j.now <= rows[a].at + Window
  BY <1>2, <1>11 DEF InboxInv, EntryJudged, j, a
<1>12. CountsAreEvents'
  <2>1. \A i \in DOMAIN rows : rows[i].count <= events[i]
                               /\ (~overlapped => rows[i].count = events[i])
    BY DEF InboxInv, CountsAreEvents
  <2>2. rows'[a].count <= events'[a] /\ (~overlapped => rows'[a].count = events'[a])
    BY <1>2, <1>5, <1>7, <1>11, <2>1
  <2> QED
    BY <1>1, <1>7, <2>1, <2>2 DEF CountsAreEvents
<1>13. OneEntryPerBurst'
  <2> SUFFICES ASSUME ~overlapped, NEW i \in PostRows, NEW o \in PostRows, i < o
               PROVE  rows'[o].at > rows'[i].at + Window
    BY <1>1, <1>8 DEF OneEntryPerBurst
  <2>1. /\ i \in DOMAIN rows /\ o \in DOMAIN rows /\ rows[o].at > rows[i].at + Window
        /\ rows[i].at \in Nat /\ rows[o].at \in Nat /\ Window \in Nat /\ i # o
    BY InboxNumbers, RowFacts DEF InboxInv, OneEntryPerBurst, PostRows, Ids
  <2>2. rows[o].at <= j.now /\ (i = a => j.now <= rows[i].at + Window)
    BY <1>11
  <2>3. i # a
    BY <1>1, <2>1, <2>2
  <2>4. rows'[i] = rows[i]
    BY <1>7, <2>1, <2>3
  <2>5. rows'[o].at = IF o = a THEN j.now ELSE rows[o].at
    BY <1>5, <1>7, <2>1
  <2> QED
    BY <1>1, <2>1, <2>2, <2>4, <2>5
<1>14. \A i \in DOMAIN rows : /\ rows'[i].about = rows[i].about
                              /\ events[i] <= events'[i] /\ events'[i] \in Nat
  BY <1>2, <1>5, <1>7, InboxNumbers
<1> QED
  BY <1>2, <1>7, <1>9, <1>10, <1>12, <1>13, <1>14, CommitEntries DEF j

\* One that inserts a row.
LEMMA InsertEntries ==
  ASSUME InboxInv, NEW h \in Handlers, Commit(h), job[h].adds = 0,
         ~(job[h].what = "follow" /\ Told(job[h].actor))
  PROVE  InboxInv'
<1> DEFINE j == job[h]
           new == NewRow(job[h])
           n == Len(rows) + 1
<1>1. /\ j \in InboxJob /\ j.looked /\ j.what # None /\ j.actor \in Actors
      /\ j.now \in Times /\ j.now \in Nat /\ j.now <= clock
      /\ UNCHANGED <<clock, overlapped>>
  BY CommitFacts
<1>2. rows' = Append(rows, new) /\ events' = Append(events, 1)
  BY DEF Commit
<1>3. /\ new \in Row /\ new.actor = j.actor /\ new.count = 1 /\ new.at = j.now
      /\ new.about = IF j.what = "follow" THEN "actor" ELSE "post"
  BY <1>1 DEF NewRow, Row, Ids
<1>4. /\ rows \in Seq(Row) /\ events \in Seq(Ids) /\ Len(events) = Len(rows)
      /\ DOMAIN rows = 1 .. Len(rows) /\ Len(rows) \in Nat /\ 1 \in Ids
  BY RowFacts DEF InboxInv, InboxTypeOK, Ids
<1> HIDE DEF j, new
<1>5. /\ rows' \in Seq(Row) /\ events' \in Seq(Ids) /\ Len(events') = Len(rows')
      /\ DOMAIN rows' = DOMAIN rows \cup {n} /\ n \notin DOMAIN rows
      /\ rows'[n] = new /\ \A i \in DOMAIN rows : rows'[i] = rows[i] /\ n > i
      /\ events'[n] = 1 /\ \A i \in DOMAIN rows : events'[i] = events[i]
  BY <1>2, <1>3, <1>4
<1> HIDE DEF n
<1>6. Posting(j) <=> j.what # "follow"
  BY <1>1 DEF Posting, InboxJob
<1>7. /\ Posting(j) => PostRows' = PostRows \cup {n}
      /\ ~Posting(j) => PostRows' = PostRows
  BY <1>3, <1>5, <1>6 DEF PostRows
<1>8. RowsPast'
  BY <1>1, <1>3, <1>5 DEF InboxInv, RowsPast
<1>9. CountsAreEvents'
  BY <1>1, <1>3, <1>5 DEF InboxInv, CountsAreEvents
<1>10. OneEntryPerAsker'
  <2>1. ASSUME NEW i \in DOMAIN rows, rows[i].about = "actor", new.about = "actor"
        PROVE  rows[i].actor # new.actor
    BY <1>3, <2>1 DEF Told, j
  <2> QED
    BY <1>5, <2>1 DEF InboxInv, OneEntryPerAsker
<1>11. OneEntryPerBurst'
  <2> SUFFICES ASSUME ~overlapped, NEW i \in PostRows', NEW o \in PostRows', i < o
               PROVE  rows'[o].at > rows'[i].at + Window
    BY <1>1 DEF OneEntryPerBurst
  <2>1. i \in PostRows
    <3>1. i # n
      <4>1. o \in DOMAIN rows \cup {n}
        BY <1>5 DEF PostRows
      <4>2. n \in Nat /\ o \in Nat
        BY <1>4, <1>5, <4>1 DEF n
      <4> QED
        BY <1>5, <4>1, <4>2
    <3> QED
      BY <1>7, <3>1
  <2>2. i \in DOMAIN rows /\ rows'[i] = rows[i]
    BY <1>5, <2>1 DEF PostRows
  <2>3. CASE o \in PostRows
    <3>1. rows'[o] = rows[o]
      BY <1>5, <2>3 DEF PostRows
    <3> QED
      BY <2>1, <2>2, <2>3, <3>1 DEF InboxInv, OneEntryPerBurst
  <2>4. CASE o \notin PostRows
    <3>1. Posting(j) /\ o = n
      BY <1>7, <2>4
    <3>2. j.now > rows[i].at + Window
      BY <1>1, <2>1, <3>1 DEF InboxInv, EntryJudged, j
    <3> QED
      BY <1>3, <1>5, <2>2, <3>1, <3>2
  <2> QED
    BY <2>3, <2>4
<1>12. \A i \in DOMAIN rows : /\ rows'[i].about = rows[i].about
                              /\ events[i] <= events'[i] /\ events'[i] \in Nat
  BY <1>5, InboxNumbers
<1>13. ~Posting(j) => \A i \in PostRows : rows'[i].at = rows[i].at
                                          /\ rows'[i].count = rows[i].count
  BY <1>5 DEF PostRows
<1> QED
  BY <1>5, <1>7, <1>8, <1>9, <1>10, <1>11, <1>12, <1>13, CommitEntries DEF j

\* One that has asked before: it writes no row.
LEMMA AskedEntries ==
  ASSUME InboxInv, NEW h \in Handlers, Commit(h), job[h].adds = 0,
         job[h].what = "follow", Told(job[h].actor)
  PROVE  InboxInv'
<1>1. UNCHANGED <<rows, events, clock, overlapped>>
  BY CommitFacts DEF Commit
<1>2. rows \in Seq(Row) /\ events \in Seq(Ids) /\ Len(events) = Len(rows)
  BY DEF InboxInv, InboxTypeOK
<1>3. /\ OneEntryPerBurst' /\ CountsAreEvents' /\ OneEntryPerAsker' /\ RowsPast'
      /\ PostRows' = PostRows
  BY <1>1 DEF InboxInv, OneEntryPerBurst, CountsAreEvents, OneEntryPerAsker, PostRows,
              RowsPast
<1>4. \A i \in DOMAIN rows : events[i] <= events[i] /\ events[i] \in Nat
  BY InboxNumbers
<1>5. \A i \in PostRows : rows'[i].at = rows[i].at /\ rows'[i].count = rows[i].count
  BY <1>1
<1> QED
  BY <1>1, <1>2, <1>3, <1>4, <1>5, CommitEntries

LEMMA FetchedFits ==
  ASSUME InboxTypeOK, NEW c \in (Times \X Ids) \cup {None}, NEW v \in View
  PROVE  /\ Fetched(Page(c), v) \in View
         /\ Fetched(Page(c), v).open = v.open
         /\ Fetched(Page(c), v).shown = v.shown \cup Page(c).rows
         /\ Fetched(Page(c), v).next = Page(c).next
         /\ Fetched(Page(c), v).due = IF Page(c).cut THEN {} ELSE v.due \ Page(c).rows
         /\ Fetched(Page(c), v).top = v.top /\ Fetched(Page(c), v).known = v.known
<1>1. Page(c).rows \in SUBSET Ids /\ Page(c).next \in (Times \X Ids) \cup {None}
  BY PageFacts, RowFacts
<1> QED
  BY <1>1 DEF Fetched, View

\* The list as it is loaded.
LEMMA LoadFits ==
  ASSUME InboxTypeOK, Load
  PROVE  \E v \in View :
           /\ view' = Fetched(Page(None), v)
           /\ v.open /\ v.shown = {} /\ v.known = Len(rows)
           /\ v.due = { i \in DOMAIN rows : rows[i].actor \notin blocked }
           /\ v.top # 0 => v.top \in Page(None).rows
<1> DEFINE due == { i \in DOMAIN rows : rows[i].actor \notin blocked }
           new == [Closed EXCEPT !.open = TRUE, !.known = Len(rows), !.due = due]
<1>1. due \subseteq Ids /\ Len(rows) \in Nat
  BY RowFacts
<1> HIDE DEF due
<1>2. /\ new \in View /\ new.open /\ new.shown = {} /\ new.known = Len(rows)
      /\ new.due = due /\ new.top = 0
  BY <1>1, TimesFacts DEF Closed, View
<1>3. CASE view' = Fetched(Page(None), new)
  BY <1>2, <1>3 DEF due
<1>4. ASSUME NEW i \in Page(None).rows,
             view' = Fetched(Page(None), [new EXCEPT !.top = i, !.topAt = rows[i].at])
      PROVE  \E v \in View :
               /\ view' = Fetched(Page(None), v)
               /\ v.open /\ v.shown = {} /\ v.known = Len(rows)
               /\ v.due = due /\ v.top \in Page(None).rows
  <2> DEFINE v == [new EXCEPT !.top = i, !.topAt = rows[i].at]
  <2>1. i \in Nat /\ rows[i].at \in Times
    BY <1>4, PageFacts, RowFacts DEF Ids
  <2>2. /\ v \in View /\ v.open /\ v.shown = {} /\ v.known = Len(rows)
        /\ v.due = due /\ v.top = i
    BY <1>1, <2>1, TimesFacts DEF Closed, View
  <2> QED
    BY <1>4, <2>2
<1> QED
  BY <1>3, <1>4 DEF Load, due

LEMMA ViewStepEntries ==
  ASSUME InboxInv,
         Load \/ LoadMore \/ \E a \in Actors : Unreact(a) \/ Block(a) \/ Unblock(a)
  PROVE  InboxInv'
<1>1. UNCHANGED <<rows, clock, job, events, overlapped, requests>>
  BY DEF Load, LoadMore, Unreact, Block, Unblock
<1>2. /\ reaction \in [Actors -> Kinds \cup {None}] /\ blocked \subseteq Actors
      /\ view \in View /\ InboxTypeOK
  BY DEF InboxInv, InboxTypeOK
<1>3. CASE Load
  <2>1. PICK v \in View : view' = Fetched(Page(None), v)
    BY <1>2, <1>3, LoadFits
  <2>2. PICK c \in (Times \X Ids) \cup {None} : c = None
    OBVIOUS
  <2>3. Fetched(Page(c), v) \in View
    BY <1>2, FetchedFits
  <2>4. UNCHANGED <<reaction, blocked>>
    BY <1>3 DEF Load
  <2> QED
    BY <1>1, <1>2, <2>1, <2>2, <2>3, <2>4, ViewEntries
<1>4. CASE LoadMore
  <2>1. view.next \in (Times \X Ids) \cup {None}
    BY <1>2 DEF View
  <2>2. view' \in View
    BY <1>2, <1>4, <2>1, FetchedFits DEF LoadMore
  <2> QED
    BY <1>1, <1>2, <1>4, <2>2, ViewEntries DEF LoadMore
<1>5. ASSUME NEW a \in Actors, Unreact(a) PROVE InboxInv'
  <2>1. reaction' \in [Actors -> Kinds \cup {None}] /\ UNCHANGED <<view, blocked>>
    BY <1>2, <1>5 DEF Unreact
  <2> QED
    BY <1>1, <1>2, <2>1, ViewEntries
<1>6. ASSUME NEW a \in Actors, Block(a) \/ Unblock(a) PROVE InboxInv'
  <2>1. view' \in View
    BY <1>2, <1>6 DEF Block, Unblock, View
  <2> QED
    BY <1>1, <1>2, <1>6, <2>1, ViewEntries DEF Block, Unblock
<1> QED
  BY <1>3, <1>4, <1>5, <1>6

LEMMA InboxNextInv == ASSUME InboxInv, [InboxNext]_inboxVars PROVE InboxInv'
<1>1. ASSUME NEW h \in Handlers, Commit(h) PROVE InboxInv'
  BY <1>1, BumpEntries, InsertEntries, AskedEntries
<1>2. CASE MarkAllRead
  BY <1>2, MarkedEntries DEF MarkAllRead
<1>3. ASSUME NEW i \in DOMAIN rows, MarkRead(i) PROVE InboxInv'
  BY <1>3, MarkedEntries DEF MarkRead
<1>4. CASE UNCHANGED inboxVars
  <2>1. /\ view \in View /\ blocked \subseteq Actors
        /\ reaction \in [Actors -> Kinds \cup {None}]
    BY DEF InboxInv, InboxTypeOK
  <2> QED
    BY <1>4, <2>1, ViewEntries DEF inboxVars
<1> QED
  BY <1>1, <1>2, <1>3, <1>4, BeginEntries, LookEntries, AbortEntries, ViewStepEntries,
     TickEntries DEF InboxNext

\* The invariant of the entries and of the handlers that write them.
THEOREM InboxInvariance == InboxSpec => []InboxInv
  BY InboxInitInv, InboxNextInv, PTL DEF InboxSpec

\* What the entries of an inbox say is true, however handlers overlap: none counts an
\* event twice, and who asks to follow again is not announced again; unless they
\* overlapped, a burst is one entry that counts all of it (_existing_burst_row,
\* emitters.py).
THEOREM InboxTellsTheTruth == InboxSpec => []EntriesAreSound
<1>1. InboxInv => EntriesAreSound
  BY DEF InboxInv, EntriesAreSound
<1> QED
  BY <1>1, InboxInvariance, PTL

(***************************************************************************)
(* The pages                                                               *)
(***************************************************************************)

\* What is still owed to the device is older than the page it would ask for next,
\* and the row it marks everything up to is one it has shown.
PagesGoOn ==
  /\ view.due \subseteq DOMAIN rows
  /\ \A i \in view.due : rows[i].actor \notin blocked
  /\ \A i \in view.due : view.next # None /\ Before(Key(i), view.next)
  /\ view.top # 0 => view.top \in view.shown /\ view.top <= view.known

\* Rows that are owed keep their place.
LEMMA PagesStay ==
  ASSUME PagesGoOn, UNCHANGED <<view, blocked>>, DOMAIN rows \subseteq DOMAIN rows',
         \A i \in view.due : rows'[i].at = rows[i].at /\ rows'[i].actor = rows[i].actor
  PROVE  PagesGoOn'
  BY DEF PagesGoOn, Key, Before

LEMMA CommitPages ==
  ASSUME InboxInv, PagesGoOn, NEW h \in Handlers, Commit(h) PROVE PagesGoOn'
<1>1. /\ view' = [view EXCEPT !.due = view.due \ {job[h].adds}] /\ UNCHANGED blocked
      /\ view \in View
  BY CommitFacts DEF Commit, InboxInv, InboxTypeOK
<1>2. /\ view'.due = view.due \ {job[h].adds} /\ view'.shown = view.shown
      /\ view'.next = view.next /\ view'.top = view.top /\ view'.known = view.known
  BY <1>1 DEF View
<1>3. /\ DOMAIN rows \subseteq DOMAIN rows'
      /\ \A i \in DOMAIN rows \ {job[h].adds} : rows'[i] = rows[i]
  <2>1. CASE job[h].adds # 0
    BY <2>1, CommitFacts DEF Commit, EntryShaped
  <2>2. CASE job[h].adds = 0
    <3>1. UNCHANGED rows \/ rows' = Append(rows, NewRow(job[h]))
      BY <2>2 DEF Commit
    <3>2. rows \in Seq(Row)
      BY DEF InboxInv, InboxTypeOK
    <3> QED
      BY <3>1, <3>2
  <2> QED
    BY <2>1, <2>2
<1> QED
  BY <1>1, <1>2, <1>3 DEF PagesGoOn, Key, Before

LEMMA LoadPages == ASSUME InboxInv, Load PROVE PagesGoOn'
<1>1. InboxTypeOK /\ UNCHANGED <<rows, blocked>>
  BY DEF InboxInv, Load
<1>2. PICK v \in View :
        /\ view' = Fetched(Page(None), v)
        /\ v.open /\ v.shown = {} /\ v.known = Len(rows)
        /\ v.due = { i \in DOMAIN rows : rows[i].actor \notin blocked }
        /\ v.top # 0 => v.top \in Page(None).rows
  BY <1>1, LoadFits
<1>3. /\ view'.shown = Page(None).rows /\ view'.next = Page(None).next
      /\ view'.due = (IF Page(None).cut THEN {} ELSE v.due \ Page(None).rows)
      /\ view'.top = v.top /\ view'.known = Len(rows)
  <2>1. PICK c \in (Times \X Ids) \cup {None} : c = None
    OBVIOUS
  <2>2. view' = Fetched(Page(c), v)
    BY <1>2, <2>1
  <2>3. /\ view'.shown = v.shown \cup Page(c).rows /\ view'.next = Page(c).next
        /\ view'.due = (IF Page(c).cut THEN {} ELSE v.due \ Page(c).rows)
        /\ view'.top = v.top /\ view'.known = v.known
    BY <1>1, <2>2, FetchedFits
  <2> QED
    BY <1>2, <2>1, <2>3
<1>4. ASSUME NEW i \in view'.due
      PROVE  view'.next # None /\ Before(Key(i), view'.next)
  <2>1. ~Page(None).cut /\ i \in DOMAIN rows /\ rows[i].actor \notin blocked
    BY <1>2, <1>3, <1>4
  <2>2. i \in OlderThan(None)
    BY <2>1 DEF OlderThan
  <2> QED
    BY <1>1, <1>3, <1>4, <2>1, <2>2, PageFacts
<1>5. Page(None).rows \subseteq DOMAIN rows /\ \A i \in DOMAIN rows : i <= Len(rows)
  BY <1>1, PageFacts, RowFacts
<1> QED
  BY <1>1, <1>2, <1>3, <1>4, <1>5 DEF PagesGoOn, Key, Before

LEMMA LoadMorePages == ASSUME InboxInv, PagesGoOn, LoadMore PROVE PagesGoOn'
<1>1. /\ InboxTypeOK /\ UNCHANGED <<rows, blocked>> /\ view \in View
      /\ view.next \in Times \X Ids /\ view.next # None
      /\ view' = Fetched(Page(view.next), view)
  BY DEF InboxInv, InboxTypeOK, LoadMore, View
<1>2. PICK c \in (Times \X Ids) \cup {None} : c = view.next /\ c # None
  BY <1>1
<1>3. /\ view'.shown = view.shown \cup Page(c).rows /\ view'.next = Page(c).next
      /\ view'.due = (IF Page(c).cut THEN {} ELSE view.due \ Page(c).rows)
      /\ view'.top = view.top /\ view'.known = view.known
  BY <1>1, <1>2, FetchedFits
<1>4. ASSUME NEW i \in view'.due
      PROVE  view'.next # None /\ Before(Key(i), view'.next)
  <2>1. /\ ~Page(c).cut /\ i \in DOMAIN rows /\ rows[i].actor \notin blocked
        /\ i \in view.due /\ i \notin Page(c).rows
    BY <1>3, <1>4 DEF PagesGoOn
  <2>2. i \in OlderThan(c)
    BY <1>2, <2>1 DEF OlderThan, PagesGoOn
  <2> QED
    BY <1>1, <1>3, <2>1, <2>2, PageFacts
<1> QED
  BY <1>1, <1>3, <1>4 DEF PagesGoOn, Key, Before

LEMMA BlockPages ==
  ASSUME InboxInv, PagesGoOn, NEW a \in Actors, Block(a) \/ Unblock(a) PROVE PagesGoOn'
<1>1. UNCHANGED rows /\ view \in View
  BY DEF Block, Unblock, InboxInv, InboxTypeOK
<1>2. CASE Block(a)
  <2>1. /\ view'.due = { i \in view.due : rows[i].actor # a } /\ view'.shown = view.shown
        /\ view'.next = view.next /\ view'.top = view.top /\ view'.known = view.known
        /\ blocked' = blocked \cup {a}
    BY <1>1, <1>2 DEF Block, View
  <2> QED
    BY <1>1, <2>1 DEF PagesGoOn, Key, Before
<1>3. CASE Unblock(a)
  <2>1. UNCHANGED view /\ blocked' = blocked \ {a}
    BY <1>3 DEF Unblock
  <2> QED
    BY <1>1, <2>1 DEF PagesGoOn, Key, Before
<1> QED
  BY <1>2, <1>3

LEMMA PagesNext ==
  ASSUME InboxInv, PagesGoOn, [InboxNext]_inboxVars PROVE PagesGoOn'
<1>1. ASSUME NEW h \in Handlers,
             \/ \E a \in Actors :
                  Comment(h, a) \/ Follow(h, a) \/ \E k \in Kinds : React(h, a, k)
             \/ Look(h) \/ Abort(h)
      PROVE  UNCHANGED <<view, blocked, rows>>
  BY <1>1 DEF Comment, Follow, React, Begin, Look, Abort, Rest
<1>2. ASSUME Tick \/ UNCHANGED inboxVars \/ \E a \in Actors : Unreact(a)
      PROVE  UNCHANGED <<view, blocked, rows>>
  BY <1>2 DEF Tick, inboxVars, Unreact
<1>3. ASSUME UNCHANGED <<view, blocked, rows>> PROVE PagesGoOn'
  BY <1>3, PagesStay
<1>4. ASSUME MarkAllRead \/ \E i \in DOMAIN rows : MarkRead(i) PROVE PagesGoOn'
  <2>1. PICK S : rows' = Marked(S)
    BY <1>4 DEF MarkAllRead, MarkRead
  <2>2. UNCHANGED <<view, blocked>>
    BY <1>4 DEF MarkAllRead, MarkRead
  <2>3. DOMAIN rows' = DOMAIN rows /\ view.due \subseteq DOMAIN rows
        /\ \A i \in DOMAIN rows : rows'[i].at = rows[i].at /\ rows'[i].actor = rows[i].actor
    BY <2>1, MarkedFacts DEF InboxInv, PagesGoOn
  <2> QED
    BY <2>2, <2>3, PagesStay
<1> QED
  BY <1>1, <1>2, <1>3, <1>4, CommitPages, LoadPages, LoadMorePages, BlockPages DEF InboxNext

\* Paging to the end shows every entry that was there when the list was loaded, unless
\* it has been added to since, its actor is blocked, or a blocked row ended the list
\* early (list_inbox, NotificationInboxNotifier).
THEOREM PagesMissNothing == InboxSpec => []PagesShowEverything
<1>1. InboxInit => PagesGoOn
  BY DEF InboxInit, Closed, PagesGoOn
<1>2. PagesGoOn => PagesShowEverything
  BY DEF PagesGoOn, PagesShowEverything
<1> QED
  BY <1>1, <1>2, InboxInitInv, InboxNextInv, PagesNext, PTL DEF InboxSpec

\* MarkRead and MarkAllRead leave alone what came after load() with a key above that
\* of the row at the top, when that row is where load() found it.
LEMMA MarkingSpares ==
  ASSUME InboxInv, PagesGoOn,
         MarkAllRead \/ \E i \in DOMAIN rows : MarkRead(i),
         NEW n \in DOMAIN rows, view.top # 0, n > view.known, rows[n].at >= view.topAt,
         n \notin view.shown, rows[view.top].at = view.topAt
  PROVE  rows'[n].read = rows[n].read
<1>1. InboxTypeOK /\ view.top \in view.shown /\ view.top <= view.known
  BY DEF InboxInv, PagesGoOn
<1>2. CASE MarkAllRead
  <2>1. /\ rows[n].at \in Nat /\ view.topAt \in Nat /\ n \in Nat
        /\ view.top \in Nat /\ view.known \in Nat
    BY <1>1, RowFacts, TimesFacts DEF InboxTypeOK, View, Ids
  <2>2. n \notin UpTo(view.top)
    BY <1>1, <2>1 DEF UpTo, Before, Key
  <2> QED
    BY <1>1, <1>2, <2>2, MarkedFacts DEF MarkAllRead
<1>3. ASSUME NEW i \in DOMAIN rows, MarkRead(i) PROVE rows'[n].read = rows[n].read
  <2>1. n \notin {i} /\ rows' = Marked({i})
    BY <1>3 DEF MarkRead
  <2> QED
    BY <1>1, <2>1, MarkedFacts
<1> QED
  BY <1>2, <1>3

\* What a handler commits leaves the column alone.
LEMMA CommitSpares ==
  ASSUME InboxInv, NEW h \in Handlers, Commit(h), NEW n \in DOMAIN rows
  PROVE  rows'[n].read = rows[n].read
<1>1. rows \in Seq(Row) /\ rows[n] \in Row /\ EntryShaped(job[h])
  BY RowFacts, CommitFacts DEF InboxInv, InboxTypeOK
<1>2. CASE job[h].adds # 0
  <2>1. rows' = [rows EXCEPT ![job[h].adds] = Bumped(rows[job[h].adds], job[h])]
    BY <1>1, <1>2 DEF Commit, EntryShaped
  <2>2. Bumped(rows[n], job[h]).read = rows[n].read
    BY <1>1 DEF Bumped, Row
  <2> QED
    BY <1>1, <2>1, <2>2
<1>3. CASE job[h].adds = 0
  <2>1. UNCHANGED rows \/ rows' = Append(rows, NewRow(job[h]))
    BY <1>3 DEF Commit
  <2> QED
    BY <1>1, <2>1
<1> QED
  BY <1>2, <1>3

LEMMA ReadStateNext ==
  ASSUME InboxInv, PagesGoOn, [InboxNext]_inboxVars, NEW i \in DOMAIN rows
  PROVE  /\ rows[i].read => rows'[i].read
         /\ view.top # 0 /\ i > view.known /\ rows[i].at >= view.topAt
              /\ i \notin view.shown /\ rows[view.top].at = view.topAt
              => rows'[i].read = rows[i].read
<1>1. ASSUME NEW h \in Handlers,
             \/ \E a \in Actors :
                  Comment(h, a) \/ Follow(h, a) \/ \E k \in Kinds : React(h, a, k)
             \/ Look(h) \/ Abort(h)
      PROVE  UNCHANGED rows
  BY <1>1 DEF Comment, Follow, React, Begin, Look, Abort
<1>2. ASSUME \/ Tick \/ UNCHANGED inboxVars \/ Load \/ LoadMore
             \/ \E a \in Actors : Unreact(a) \/ Block(a) \/ Unblock(a)
      PROVE  UNCHANGED rows
  BY <1>2 DEF Tick, inboxVars, Load, LoadMore, Unreact, Block, Unblock
<1>3. ASSUME NEW h \in Handlers, Commit(h) PROVE rows'[i].read = rows[i].read
  BY <1>3, CommitSpares
<1>4. CASE MarkAllRead \/ \E o \in DOMAIN rows : MarkRead(o)
  <2>1. PICK S : rows' = Marked(S)
    BY <1>4 DEF MarkAllRead, MarkRead
  <2>2. rows[i].read => rows'[i].read
    BY <2>1, MarkedFacts DEF InboxInv
  <2> QED
    BY <1>4, <2>2, MarkingSpares
<1>5. CASE UNCHANGED rows
  BY <1>5
<1>6. CASE rows'[i].read = rows[i].read
  BY <1>6
<1> QED
  BY <1>1, <1>2, <1>3, <1>4, <1>5, <1>6 DEF InboxNext

\* What was read stays read: an event that is added to a row (the columns _emit_burst
\* assigns) and both ways of marking leave the column true.  And marking everything up to
\* the top row (mark_all_read_up_to) spares a row that came after load() and was not
\* shown, if it is not stamped before the time the top row had at load() and the top row
\* still has that time; of any other newcomer it says nothing.
THEOREM ReadStateStaysKept == InboxSpec => ReadStateIsKept
<1> DEFINE Keeps == \A i \in DOMAIN rows : rows[i].read => rows'[i].read
           Spares == \A i \in DOMAIN rows :
                       /\ view.top # 0 /\ i > view.known /\ i \notin view.shown
                       /\ rows[i].at >= view.topAt /\ rows[view.top].at = view.topAt
                       => rows'[i].read = rows[i].read
<1>1. InboxInit => PagesGoOn
  BY DEF InboxInit, Closed, PagesGoOn
<1>2. InboxInv /\ PagesGoOn /\ [InboxNext]_inboxVars =>
        [Keeps]_inboxVars /\ [Spares]_inboxVars
  BY ReadStateNext
<1>3. ReadStateIsKept <=> [][Keeps]_inboxVars /\ [][Spares]_inboxVars
  BY PTL DEF ReadStateIsKept, ReadStays, NewerStayUnread
<1> HIDE DEF Keeps, Spares
<1> QED
  BY <1>1, <1>2, <1>3, InboxInitInv, InboxNextInv, PagesNext, PTL DEF InboxSpec
===============================================================================
