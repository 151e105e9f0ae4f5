-------------------------- MODULE PostService_proofs --------------------------
(***************************************************************************)
(* Proofs about PostService, for every value of its constants.             *)
(*                                                                         *)
(* OneLivePostPerKey is not inductive: that a retry makes no second live   *)
(* post depends on the unique index (UniqueKeys), on a live row never      *)
(* losing its key (LiveHoldsItsKey) and on what the open transactions have *)
(* found and flushed (Transactions, InsertsOwnTheirKeys).  Consistent is   *)
(* the conjunction of these and of the type invariant.                     *)
(***************************************************************************)
EXTENDS PostService, TLAPS

\* A row that is written to the table is a post and so not "no row".
LEMMA PostsAreRows ==
  ASSUME NEW p \in Profiles, NEW k \in MaybeKey, NEW o \in MaybeKey,
         NEW n \in Nat, NEW d \in BOOLEAN
  PROVE  /\ [author |-> p, key |-> k, origin |-> o, version |-> n,
             deleted |-> d] \in Post
         /\ [author |-> p, key |-> k, origin |-> o, version |-> n,
             deleted |-> d] # NoPost
BY PostServiceAssumptions DEF Post

LEMMA IdleRequestTyped == IdleRequest \in Request
BY PostServiceAssumptions DEF IdleRequest, Request, MaybeKey

\* The service starts consistent: an empty table and no request.
LEMMA InitConsistent == Init => Consistent
<1> SUFFICES ASSUME Init PROVE Consistent
  OBVIOUS
<1> USE DEF Init
<1>1. TypeOK
  BY IdleRequestTyped, PostServiceAssumptions DEF TypeOK, MaybeRow, Steps
<1>2. UniqueKeys /\ LiveHoldsItsKey
  BY DEF UniqueKeys, LiveHoldsItsKey, Live
<1>3. Transactions /\ InsertsOwnTheirKeys
  BY DEF Transactions, Transaction, InsertsOwnTheirKeys, Inserted
<1> QED BY <1>1, <1>2, <1>3 DEF Consistent

(***************************************************************************)
(* Type correctness, one step per action.                                  *)
(***************************************************************************)

\* The row an INSERT takes is a row id.
LEMMA NewRowTyped ==
  UnusedRows # {} => (CHOOSE i \in UnusedRows : TRUE) \in UnusedRows
OBVIOUS

LEMMA ForgetTyped ==
  ASSUME TypeOK, NEW h \in Handlers, Forget(h)
  PROVE  /\ pc' \in [Handlers -> Steps]
         /\ req' \in [Handlers -> Request]
         /\ row' \in [Handlers -> MaybeRow]
         /\ cleared' \in [Handlers -> MaybeRow]
BY IdleRequestTyped DEF TypeOK, Forget, Steps, MaybeRow

LEMMA ReplyTyped ==
  ASSUME TypeOK, NEW h \in Handlers, NEW s \in {"ok", "error"},
         NEW i \in MaybeRow
  PROVE  Reply(h, s, i) \in Answer
BY DEF TypeOK, Reply, Answer, Request

\* What a commit writes is a table of posts.
LEMMA AppliedTyped ==
  ASSUME Consistent, NEW h \in Handlers
  PROVE  Applied(h) \in [RowIds -> Post \cup {NoPost}]
<1> USE DEF Consistent, TypeOK
<1> SUFFICES ASSUME NEW i \in RowIds
             PROVE  Applied(h)[i] \in Post \cup {NoPost}
  BY DEF Applied
<1>1. CASE Inserted(h) /\ i = row[h]
  <2>1. /\ req[h].who \in Profiles /\ req[h].key \in MaybeKey
        /\ req[h].now \in Nat
    BY DEF Request
  <2> QED BY <1>1, <2>1, PostsAreRows DEF Applied, NewPost
<1>2. CASE ~(Inserted(h) /\ i = row[h]) /\ cleared[h] = i
  <2>1. posts[i] \in Post /\ req[h].now \in Nat
    BY <1>2, PostServiceAssumptions DEF Transactions, Transaction, Request
  <2> QED BY <1>2, <2>1 DEF Applied, Post, MaybeKey
<1>3. CASE /\ ~(Inserted(h) /\ i = row[h]) /\ cleared[h] # i
           /\ Written(h) /\ i = row[h]
  <2>1. posts[i] \in Post /\ req[h].now \in Nat
    BY <1>3, PostServiceAssumptions DEF Transactions, Transaction, Request, Written
  <2> QED BY <1>3, <2>1 DEF Applied, WrittenPost, Post
<1>4. CASE /\ ~(Inserted(h) /\ i = row[h]) /\ cleared[h] # i
           /\ ~(Written(h) /\ i = row[h])
  BY <1>4 DEF Applied
<1> QED BY <1>1, <1>2, <1>3, <1>4

\* A step of any handler keeps the types.
LEMMA TypeStep == Consistent /\ [Next]_vars => TypeOK'
<1> SUFFICES ASSUME Consistent, [Next]_vars PROVE TypeOK'
  OBVIOUS
<1> USE DEF TypeOK
<1>0. TypeOK /\ Transactions
  BY DEF Consistent
<1>1. CASE UNCHANGED vars
  BY <1>0, <1>1 DEF vars
<1>2. ASSUME NEW h \in Handlers,
             PostRequest(h) \/ PatchRequest(h) \/ DeleteRequest(h)
      PROVE  TypeOK'
  <2>1. ASSUME NEW request \in Request, NEW first \in Steps,
               NEW i \in MaybeRow, Receive(h, request, first, i)
        PROVE  TypeOK'
    BY <1>0, <2>1 DEF Receive
  <2>2. clock + 1 \in Nat /\ 0 \in Nat
    BY <1>0
  <2>3. CASE PostRequest(h)
    <3>1. PICK p \in Profiles, k \in MaybeKey :
            Receive(h, [op |-> "create", who |-> p, key |-> k,
                        base |-> 0, now |-> clock + 1], "gate", NoRow)
      BY <2>3 DEF PostRequest
    <3>2. [op |-> "create", who |-> p, key |-> k,
           base |-> 0, now |-> clock + 1] \in Request
      BY <2>2 DEF Request
    <3> QED BY <2>1, <3>1, <3>2 DEF Steps, MaybeRow
  <2>4. CASE PatchRequest(h)
    <3>1. PICK p \in Profiles, i \in RowIds :
            /\ posts[i] # NoPost
            /\ Receive(h, [op |-> "patch", who |-> p, key |-> NoKey,
                           base |-> posts[i].version, now |-> clock + 1],
                       "read", i)
      BY <2>4 DEF PatchRequest
    <3>2. posts[i].version \in Nat
      BY <1>0, <3>1 DEF Post
    <3>3. [op |-> "patch", who |-> p, key |-> NoKey,
           base |-> posts[i].version, now |-> clock + 1] \in Request
      BY <2>2, <3>2 DEF Request, MaybeKey
    <3> QED BY <2>1, <3>1, <3>3 DEF Steps, MaybeRow
  <2>5. CASE DeleteRequest(h)
    <3>1. PICK p \in Profiles, i \in RowIds :
            Receive(h, [op |-> "delete", who |-> p, key |-> NoKey,
                        base |-> 0, now |-> clock + 1], "read", i)
      BY <2>5 DEF DeleteRequest
    <3>2. [op |-> "delete", who |-> p, key |-> NoKey,
           base |-> 0, now |-> clock + 1] \in Request
      BY <2>2 DEF Request, MaybeKey
    <3> QED BY <2>1, <3>1, <3>2 DEF Steps, MaybeRow
  <2> QED BY <1>2, <2>3, <2>4, <2>5
<1>3. ASSUME NEW h \in Handlers, Refuse(h) \/ Fail(h) PROVE TypeOK'
  <2>1. Reply(h, "error", NoRow) \in Answer
    BY <1>0, ReplyTyped DEF MaybeRow
  <2> QED BY <1>0, <1>3, <2>1, ForgetTyped DEF Refuse, Fail
<1>4. ASSUME NEW h \in Handlers, NEW step \in Steps, Goto(h, step),
             row' \in [Handlers -> MaybeRow],
             cleared' \in [Handlers -> MaybeRow]
      PROVE  TypeOK'
  BY <1>0, <1>4 DEF Goto
<1>5. ASSUME NEW h \in Handlers, Serve(h) PROVE TypeOK'
  <2> USE DEF Steps
  <2>1. CASE ClubGate(h)
    BY <1>0, <1>3, <1>4, <2>1 DEF ClubGate
  <2>2. CASE Probe(h)
    BY <1>0, <1>4, <2>2 DEF Probe, LiveHolders, Holders, MaybeRow
  <2>3. CASE Insert(h)
    BY <1>0, <1>4, <2>3, NewRowTyped
    DEF Insert, InsertInto, UnusedRows, MaybeRow
  <2>4. CASE Reread(h)
    BY <1>0, <1>4, <2>4 DEF Reread, LiveHolders, Holders, MaybeRow
  <2>5. CASE Tombstone(h)
    BY <1>0, <1>3, <1>4, <2>5 DEF Tombstone, Holders, MaybeRow
  <2>6. CASE HandOver(h)
    BY <1>0, <1>4, <2>6 DEF HandOver, MaybeRow
  <2>7. CASE Reinsert(h)
    BY <1>0, <1>3, <1>4, <2>7, NewRowTyped
    DEF Reinsert, InsertInto, UnusedRows, MaybeRow
  <2>8. CASE AttachMedia(h)
    BY <1>0, <1>3, <1>4, <2>8 DEF AttachMedia
  <2>9. CASE ReadTarget(h)
    BY <1>0, <1>3, <1>4, <2>9 DEF ReadTarget
  <2>10. CASE WriteTarget(h)
    BY <1>0, <1>4, <2>10 DEF WriteTarget
  <2>11. CASE Commit(h)
    BY <1>0, <2>11, AppliedTyped DEF Commit, MaybeRow
  <2>12. CASE Respond(h)
    <3>1. Reply(h, "ok", row[h]) \in Answer
      BY <1>0, ReplyTyped
    <3> QED BY <1>0, <2>12, <3>1, ForgetTyped DEF Respond
  <2> QED BY <1>5, <2>1, <2>2, <2>3, <2>4, <2>5, <2>6, <2>7, <2>8, <2>9,
             <2>10, <2>11, <2>12 DEF Serve
<1>6. ASSUME NEW h \in Handlers, HandlerDies(h) PROVE TypeOK'
  BY <1>0, <1>6, ForgetTyped DEF HandlerDies
<1> QED BY <1>1, <1>2, <1>5, <1>6 DEF Next

(***************************************************************************)
(* The table and the open transactions.                                    *)
(***************************************************************************)

\* A step of handler h touches no other handler's state.
OthersKeep(h) ==
  \A g \in Handlers \ {h} :
    /\ pc'[g] = pc[g] /\ req'[g] = req[g]
    /\ row'[g] = row[g] /\ cleared'[g] = cleared[g]

\* Everything Consistent says besides the types.
Rest == UniqueKeys /\ LiveHoldsItsKey /\ Transactions /\ InsertsOwnTheirKeys

\* A step that leaves the table alone and flushes no INSERT has only its own
\* transaction to account for.
LEMMA QuietStep ==
  ASSUME Consistent, NEW h \in Handlers, posts' = posts, OthersKeep(h),
         Transaction(h)', ~Inserted(h)'
  PROVE  Rest'
<1> USE DEF Consistent, OthersKeep
<1>1. UniqueKeys' /\ LiveHoldsItsKey'
  BY DEF UniqueKeys, LiveHoldsItsKey, Live
<1>2. Transactions'
  BY DEF Transactions, Transaction
<1>3. InsertsOwnTheirKeys'
  <2> SUFFICES ASSUME NEW g \in Handlers, Inserted(g)'
               PROVE  /\ Holders(g)' = {}
                      /\ \A f \in Handlers \ {g} : Inserted(f)' =>
                           /\ row'[f] # row'[g]
                           /\ ~ /\ req'[f].who = req'[g].who
                                /\ req'[f].key = req'[g].key
                                /\ req'[g].key # NoKey
    BY DEF InsertsOwnTheirKeys
  <2>1. g # h /\ Inserted(g)
    BY DEF Inserted
  <2>2. Holders(g)' = Holders(g)
    BY <2>1 DEF Holders
  <2>3. ASSUME NEW f \in Handlers \ {g}, Inserted(f)'
        PROVE  Inserted(f) /\ f # h
    BY <2>3 DEF Inserted
  <2> QED BY <2>1, <2>2, <2>3 DEF InsertsOwnTheirKeys
<1> QED BY <1>1, <1>2, <1>3 DEF Rest

\* A flushed INSERT met no holder of its key and no rival.
LEMMA InsertStep ==
  ASSUME Consistent, NEW h \in Handlers, InsertInto(h), req[h].op = "create",
         ~Inserted(h)
  PROVE  Rest'
<1> USE DEF Consistent, TypeOK
<1>1. /\ posts' = posts /\ OthersKeep(h) /\ req' = req
      /\ cleared' = cleared /\ pc'[h] = "attach" /\ row'[h] \in UnusedRows
  BY NewRowTyped DEF InsertInto, Goto, OthersKeep
<1>2. UniqueKeys' /\ LiveHoldsItsKey'
  BY <1>1 DEF UniqueKeys, LiveHoldsItsKey, Live
<1>3. row'[h] \in RowIds /\ posts[row'[h]] = NoPost
  BY <1>1 DEF UnusedRows
<1>4. Transactions'
  <2>1. Transaction(h)'
    BY <1>1, <1>3, PostServiceAssumptions DEF Transactions, Transaction
  <2> QED BY <1>1, <2>1 DEF Transactions, Transaction, OthersKeep
<1>5. InsertsOwnTheirKeys'
  <2>1. \A g \in Handlers : Holders(g)' = Holders(g)
    BY <1>1 DEF Holders
  <2>2. Holders(h) = {} /\ ~KeyContended(h)
    BY DEF InsertInto
  <2>3. \A g \in Handlers \ {h} : Inserted(g)' = Inserted(g) /\ row'[g] = row[g]
    BY <1>1 DEF Inserted, OthersKeep
  <2>4. \A g \in Handlers \ {h} : Inserted(g) =>
          /\ row[g] # row'[h]
          /\ ~ /\ req[g].who = req[h].who
               /\ req[g].key = req[h].key
               /\ req[h].key # NoKey
    BY <1>1, <2>2 DEF UnusedRows, KeyContended
  <2> QED BY <1>1, <2>1, <2>2, <2>3, <2>4 DEF InsertsOwnTheirKeys
<1> QED BY <1>2, <1>4, <1>5 DEF Rest

\* Ending a request, whatever the answer.
LEMMA ForgetStep ==
  ASSUME Consistent, NEW h \in Handlers, Forget(h), posts' = posts
  PROVE  Rest'
<1>1. OthersKeep(h) /\ pc'[h] = "idle" /\ row'[h] = NoRow
      /\ cleared'[h] = NoRow
  BY DEF Forget, OthersKeep, Consistent, TypeOK
<1>2. Transaction(h)' /\ ~Inserted(h)'
  BY <1>1 DEF Transaction, Inserted
<1> QED BY <1>1, <1>2, QuietStep

\* What a commit does to one row.
LEMMA CommittedRow ==
  ASSUME Consistent, NEW h \in Handlers, Commit(h), NEW i \in RowIds
  PROVE
    \/ /\ Inserted(h) /\ i = row[h] /\ posts[i] = NoPost
       /\ posts'[i] = NewPost(h)
    \/ /\ ~(Inserted(h) /\ i = row[h])
       /\ posts[i] = NoPost /\ posts'[i] = NoPost
    \/ /\ ~(Inserted(h) /\ i = row[h])
       /\ posts[i] \in Post /\ posts'[i] \in Post
       /\ posts'[i] # NoPost
       /\ posts'[i].author = posts[i].author
       /\ posts'[i].origin = posts[i].origin
       /\ \/ posts'[i].key = posts[i].key /\ cleared[h] # i
          \/ posts'[i].key = NoKey /\ posts[i].deleted
       /\ posts[i].deleted => posts'[i].deleted
<1> USE DEF Consistent, TypeOK
<1>a. posts' = Applied(h) /\ pc[h] = "commit" /\ req' = req /\ row' = row
  BY DEF Commit
<1>b. row[h] \in RowIds /\ Transaction(h)
  BY <1>a DEF Transactions, Transaction, MaybeRow
<1>c. NewPost(h) \in Post /\ NewPost(h) # NoPost
  BY PostsAreRows DEF NewPost, Request
<1>1. CASE Inserted(h) /\ i = row[h]
  BY <1>a, <1>1 DEF Inserted, Applied
<1>2. CASE ~(Inserted(h) /\ i = row[h]) /\ cleared[h] = i
  <2>1. posts[i] \in Post /\ posts[i].deleted /\ req[h].now \in Nat
    BY <1>b, <1>2, PostServiceAssumptions DEF Transaction, Request
  <2>2. posts'[i] = [posts[i] EXCEPT !.key = NoKey, !.version = req[h].now]
    BY <1>a, <1>2 DEF Applied
  <2>3. posts'[i] \in Post /\ posts'[i] # NoPost
    BY <2>1, <2>2, PostServiceAssumptions DEF Post, MaybeKey
  <2> QED BY <1>2, <2>1, <2>2, <2>3 DEF Post
<1>3. CASE /\ ~(Inserted(h) /\ i = row[h]) /\ cleared[h] # i
           /\ Written(h) /\ i = row[h]
  <2>1. posts[i] \in Post /\ req[h].now \in Nat
    BY <1>b, <1>3 DEF Transaction, Written, Request
  <2>2. posts'[i] = WrittenPost(h, i)
    BY <1>a, <1>3 DEF Applied
  <2>3. posts'[i] \in Post /\ posts'[i] # NoPost
    BY <2>1, <2>2, PostServiceAssumptions DEF Post, WrittenPost
  <2> QED BY <1>3, <2>1, <2>2, <2>3 DEF Post, WrittenPost
<1>4. CASE /\ ~(Inserted(h) /\ i = row[h]) /\ cleared[h] # i
           /\ ~(Written(h) /\ i = row[h])
  <2>1. posts'[i] = posts[i]
    BY <1>a, <1>4 DEF Applied
  <2> QED BY <1>4, <2>1
<1> QED BY <1>1, <1>2, <1>3, <1>4

\* A commit publishes what its transaction flushed.
LEMMA CommitStep ==
  ASSUME Consistent, NEW h \in Handlers, Commit(h)
  PROVE  Rest'
<1> USE DEF Consistent, TypeOK
<1>1. /\ posts' = Applied(h) /\ OthersKeep(h) /\ req' = req /\ row' = row
      /\ pc[h] = "commit" /\ pc'[h] = "answer" /\ cleared'[h] = NoRow
  BY DEF Commit, OthersKeep
<1>2. row[h] \in RowIds /\ Transaction(h)
  BY <1>1 DEF Transactions, Transaction, MaybeRow
<1>3. NewPost(h) \in Post /\ NewPost(h) # NoPost
  BY PostsAreRows DEF NewPost, Request
\* What a commit does to one row.
<1>4. ASSUME NEW i \in RowIds
      PROVE  \/ /\ Inserted(h) /\ i = row[h] /\ posts[i] = NoPost
                /\ posts'[i] = NewPost(h)
             \/ /\ ~(Inserted(h) /\ i = row[h])
                /\ posts[i] = NoPost /\ posts'[i] = NoPost
             \/ /\ ~(Inserted(h) /\ i = row[h])
                /\ posts[i] \in Post /\ posts'[i] \in Post
                /\ posts'[i] # NoPost
                /\ posts'[i].author = posts[i].author
                /\ posts'[i].origin = posts[i].origin
                /\ \/ posts'[i].key = posts[i].key /\ cleared[h] # i
                   \/ posts'[i].key = NoKey /\ posts[i].deleted
                /\ posts[i].deleted => posts'[i].deleted
  BY CommittedRow
<1>a. ASSUME Inserted(h) PROVE posts'[row[h]] = NewPost(h)
  BY <1>2, <1>4, <1>a
<1>b. ASSUME NEW i \in RowIds, ~(Inserted(h) /\ i = row[h]),
             posts'[i] # NoPost, posts'[i].key # NoKey
      PROVE  /\ posts[i] # NoPost /\ posts'[i].author = posts[i].author
             /\ posts'[i].key = posts[i].key /\ cleared[h] # i
  BY <1>4, <1>b, PostServiceAssumptions
<1>c. ASSUME NEW i \in RowIds, ~(Inserted(h) /\ i = row[h]),
             posts'[i] # NoPost, ~posts'[i].deleted
      PROVE  /\ posts[i] # NoPost /\ ~posts[i].deleted
             /\ posts'[i].key = posts[i].key
             /\ posts'[i].origin = posts[i].origin
  BY <1>4, <1>c, PostServiceAssumptions
\* Another row with the new row's key is the tombstone that gave it up.
<1>5. ASSUME NEW i \in RowIds, Inserted(h), i # row[h], posts[i] # NoPost,
             posts[i].author = req[h].who, posts[i].key = req[h].key,
             req[h].key # NoKey
      PROVE  cleared[h] = i
  BY <1>5 DEF InsertsOwnTheirKeys, Holders
<1>6. UniqueKeys'
  <2> SUFFICES ASSUME NEW i \in RowIds, NEW j \in RowIds,
                      posts'[i] # NoPost, posts'[j] # NoPost,
                      posts'[i].author = posts'[j].author,
                      posts'[i].key = posts'[j].key,
                      posts'[i].key # NoKey
               PROVE  i = j
    BY DEF UniqueKeys
  <2>1. CASE Inserted(h) /\ i = row[h]
    <3>1. /\ posts'[i].author = req[h].who /\ posts'[i].key = req[h].key
      BY <1>a, <2>1 DEF NewPost
    <3> QED BY <1>b, <1>5, <2>1, <3>1
  <2>2. CASE Inserted(h) /\ j = row[h]
    <3>1. /\ posts'[j].author = req[h].who /\ posts'[j].key = req[h].key
      BY <1>a, <2>2 DEF NewPost
    <3> QED BY <1>b, <1>5, <2>2, <3>1
  <2>3. CASE ~(Inserted(h) /\ i = row[h]) /\ ~(Inserted(h) /\ j = row[h])
    BY <2>3, <1>b DEF UniqueKeys
  <2> QED BY <2>1, <2>2, <2>3
<1>7. LiveHoldsItsKey'
  <2> SUFFICES ASSUME NEW i \in RowIds, posts'[i] # NoPost,
                      ~posts'[i].deleted
               PROVE  posts'[i].key = posts'[i].origin
    BY DEF LiveHoldsItsKey, Live
  <2>1. CASE Inserted(h) /\ i = row[h]
    BY <1>a, <2>1 DEF NewPost
  <2>2. CASE ~(Inserted(h) /\ i = row[h])
    BY <1>c, <2>2 DEF LiveHoldsItsKey, Live
  <2> QED BY <2>1, <2>2
<1>8. Transactions'
  <2> SUFFICES ASSUME NEW g \in Handlers PROVE Transaction(g)'
    BY DEF Transactions
  <2>1. Transaction(g)
    BY DEF Transactions
  <2>2. CASE g = h
    BY <1>1, <1>2, <1>4, <2>2 DEF Transaction
  <2>3. CASE g # h
    <3>1. pc'[g] = pc[g] /\ req'[g] = req[g] /\ row'[g] = row[g]
          /\ cleared'[g] = cleared[g]
      BY <1>1, <2>3 DEF OthersKeep
    <3>2. row[g] \in MaybeRow /\ cleared[g] \in MaybeRow
      OBVIOUS
    <3> QED BY <2>1, <3>1, <3>2, <1>4 DEF Transaction, MaybeRow
  <2> QED BY <2>2, <2>3
<1>9. InsertsOwnTheirKeys'
  <2> SUFFICES ASSUME NEW g \in Handlers, Inserted(g)'
               PROVE  /\ Holders(g)' = {}
                      /\ \A f \in Handlers \ {g} : Inserted(f)' =>
                           /\ row'[f] # row'[g]
                           /\ ~ /\ req'[f].who = req'[g].who
                                /\ req'[f].key = req'[g].key
                                /\ req'[g].key # NoKey
    BY DEF InsertsOwnTheirKeys
  <2>1. ASSUME NEW f \in Handlers, Inserted(f)' PROVE f # h /\ Inserted(f)
    <3>1. f # h
      BY <1>1, <2>1 DEF Inserted
    <3>2. row[f] \in RowIds
      BY <1>1, <2>1 DEF Inserted, MaybeRow
    <3> QED BY <1>1, <1>4, <2>1, <3>1, <3>2 DEF Inserted, OthersKeep
  <2>2. g # h /\ Inserted(g) /\ Holders(g) = {} /\ cleared'[g] = cleared[g]
    BY <1>1, <2>1 DEF InsertsOwnTheirKeys, OthersKeep
  <2>3. Holders(g)' = {}
    <3> SUFFICES ASSUME NEW i \in Holders(g)' PROVE FALSE
      OBVIOUS
    <3>1. /\ i \in RowIds /\ posts'[i] # NoPost /\ req[g].key # NoKey
          /\ posts'[i].author = req[g].who /\ posts'[i].key = req[g].key
          /\ cleared[g] # i
      BY <1>1, <2>2 DEF Holders
    <3>2. CASE Inserted(h) /\ i = row[h]
      BY <1>a, <2>2, <3>1, <3>2 DEF NewPost, InsertsOwnTheirKeys
    <3>3. CASE ~(Inserted(h) /\ i = row[h])
      BY <1>b, <2>2, <3>1, <3>3 DEF Holders
    <3> QED BY <3>2, <3>3
  <2> QED BY <1>1, <2>1, <2>2, <2>3 DEF InsertsOwnTheirKeys
<1> QED BY <1>6, <1>7, <1>8, <1>9 DEF Rest

\* Every step of the service.
LEMMA RestStep == Consistent /\ [Next]_vars => Rest'
<1> SUFFICES ASSUME Consistent, [Next]_vars PROVE Rest'
  OBVIOUS
<1>0. TypeOK /\ Transactions
  BY DEF Consistent
<1>1. CASE UNCHANGED vars
  BY <1>1 DEF vars, Consistent, Rest, UniqueKeys, LiveHoldsItsKey, Live,
     Transactions, Transaction, InsertsOwnTheirKeys, Inserted, Holders
<1>2. ASSUME NEW h \in Handlers,
             PostRequest(h) \/ PatchRequest(h) \/ DeleteRequest(h)
      PROVE  Rest'
  <2>1. posts' = posts /\ OthersKeep(h)
    BY <1>0, <1>2 DEF PostRequest, PatchRequest, DeleteRequest, Receive,
       TypeOK, OthersKeep
  <2>2. pc[h] = "idle" /\ cleared' = cleared
    BY <1>2 DEF PostRequest, PatchRequest, DeleteRequest, Receive
  <2>3. cleared'[h] # NoRow => /\ posts'[cleared'[h]] # NoPost
                              /\ posts'[cleared'[h]].deleted
    BY <1>0, <2>1, <2>2 DEF Transactions, Transaction
  <2>4. CASE PostRequest(h)
    <3>1. pc'[h] = "gate" /\ req'[h].op = "create"
      BY <1>0, <2>4 DEF PostRequest, Receive, TypeOK
    <3>2. Transaction(h)' /\ ~Inserted(h)'
      BY <2>3, <3>1 DEF Transaction, Inserted
    <3> QED BY <2>1, <3>2, QuietStep
  <2>5. CASE PatchRequest(h) \/ DeleteRequest(h)
    <3>1. pc'[h] = "read" /\ req'[h].op # "create" /\ row'[h] # NoRow
          /\ posts[row'[h]] # NoPost
      BY <1>0, <2>5, PostServiceAssumptions
      DEF PatchRequest, DeleteRequest, Receive, TypeOK
    <3>2. Transaction(h)' /\ ~Inserted(h)'
      BY <2>1, <2>3, <3>1 DEF Transaction, Inserted
    <3> QED BY <2>1, <3>2, QuietStep
  <2> QED BY <1>2, <2>4, <2>5
<1>3. ASSUME NEW h \in Handlers, Refuse(h) \/ Fail(h) \/ HandlerDies(h)
                                 \/ Respond(h)
      PROVE  Rest'
  BY <1>3, ForgetStep DEF Refuse, Fail, HandlerDies, Respond
<1>4. ASSUME NEW h \in Handlers, NEW step \in Steps, Goto(h, step)
      PROVE  posts' = posts /\ req' = req /\ pc'[h] = step
             /\ \A g \in Handlers \ {h} : pc'[g] = pc[g]
  BY <1>0, <1>4 DEF Goto, TypeOK
<1>5. ASSUME NEW h \in Handlers, Serve(h) PROVE Rest'
  <2> USE DEF Steps
  <2>0. Transaction(h)
    BY <1>0 DEF Transactions
  <2>1. CASE ClubGate(h)
    <3>1. CASE Refuse(h)
      BY <1>3, <3>1
    <3>2. CASE Goto(h, "probe") /\ UNCHANGED <<row, cleared>>
      BY <1>4, <2>0, <2>1, <3>2, QuietStep
      DEF ClubGate, OthersKeep, Transaction, Inserted
    <3> QED BY <2>1, <3>1, <3>2 DEF ClubGate
  <2>2. CASE Probe(h)
    <3>1. CASE \E i \in LiveHolders(h) : /\ row' = [row EXCEPT ![h] = i]
                                         /\ Goto(h, "commit")
      BY <1>0, <1>4, <2>0, <2>2, <3>1, PostServiceAssumptions, QuietStep
      DEF Probe, OthersKeep, Transaction, Inserted, LiveHolders, Holders,
          TypeOK
    <3>2. CASE Goto(h, "insert") /\ UNCHANGED row
      BY <1>4, <2>0, <2>2, <3>2, QuietStep
      DEF Probe, OthersKeep, Transaction, Inserted
    <3> QED BY <2>2, <3>1, <3>2 DEF Probe
  <2>3. CASE Insert(h)
    <3>1. CASE InsertInto(h)
      BY <2>0, <2>3, <3>1, InsertStep DEF Insert, Transaction, Inserted
    <3>2. CASE Goto(h, "reread") /\ UNCHANGED <<row, cleared>>
      BY <1>4, <2>0, <2>3, <3>2, QuietStep
      DEF Insert, OthersKeep, Transaction, Inserted
    <3> QED BY <2>3, <3>1, <3>2 DEF Insert
  <2>4. CASE Reread(h)
    <3>1. CASE \E i \in LiveHolders(h) : /\ row' = [row EXCEPT ![h] = i]
                                         /\ Goto(h, "commit")
      BY <1>0, <1>4, <2>0, <2>4, <3>1, PostServiceAssumptions, QuietStep
      DEF Reread, OthersKeep, Transaction, Inserted, LiveHolders, Holders,
          TypeOK
    <3>2. CASE Goto(h, "tombstone") /\ UNCHANGED row
      BY <1>4, <2>0, <2>4, <3>2, QuietStep
      DEF Reread, OthersKeep, Transaction, Inserted
    <3> QED BY <2>4, <3>1, <3>2 DEF Reread
  <2>5. CASE Tombstone(h)
    <3>1. CASE Fail(h)
      BY <1>3, <3>1
    <3>2. CASE \E i \in Holders(h) : /\ posts[i].deleted
                                     /\ row' = [row EXCEPT ![h] = i]
                                     /\ Goto(h, "handover")
                                     /\ UNCHANGED cleared
      BY <1>0, <1>4, <2>0, <2>5, <3>2, PostServiceAssumptions, QuietStep
      DEF Tombstone, OthersKeep, Transaction, Inserted, Holders, TypeOK
    <3> QED BY <2>5, <3>1, <3>2 DEF Tombstone
  <2>6. CASE HandOver(h)
    <3>1. pc[h] = "handover" /\ pc'[h] = "reinsert" /\ posts' = posts
          /\ req' = req /\ OthersKeep(h) /\ row'[h] = NoRow
          /\ cleared'[h] = row[h]
      BY <1>0, <1>4, <2>6 DEF HandOver, OthersKeep, TypeOK
    <3>2. Transaction(h)' /\ ~Inserted(h)'
      BY <2>0, <3>1 DEF Transaction, Inserted
    <3> QED BY <3>1, <3>2, QuietStep
  <2>7. CASE Reinsert(h)
    <3>1. CASE InsertInto(h)
      BY <2>0, <2>7, <3>1, InsertStep DEF Reinsert, Transaction, Inserted
    <3>2. CASE Fail(h)
      BY <1>3, <3>2
    <3> QED BY <2>7, <3>1, <3>2 DEF Reinsert
  <2>8. CASE AttachMedia(h)
    <3>1. CASE Refuse(h)
      BY <1>3, <3>1
    <3>2. CASE Goto(h, "commit") /\ UNCHANGED <<row, cleared>>
      <4>1. /\ posts' = posts /\ req' = req /\ OthersKeep(h)
            /\ pc[h] = "attach" /\ pc'[h] = "commit"
        BY <1>4, <2>8, <3>2 DEF AttachMedia, OthersKeep
      <4>2. Transaction(h)'
        BY <2>0, <3>2, <4>1 DEF Transaction
      <4>3. \A g \in Handlers : /\ Inserted(g)' = Inserted(g)
                                /\ Holders(g)' = Holders(g)
        BY <3>2, <4>1 DEF Inserted, Holders, OthersKeep
      <4>4. InsertsOwnTheirKeys'
        BY <3>2, <4>1, <4>3 DEF InsertsOwnTheirKeys, Consistent
      <4>5. Transactions'
        BY <1>0, <4>1, <4>2 DEF Transactions, Transaction, OthersKeep
      <4>6. UniqueKeys' /\ LiveHoldsItsKey'
        BY <4>1 DEF Consistent, UniqueKeys, LiveHoldsItsKey, Live
      <4> QED BY <4>4, <4>5, <4>6 DEF Rest
    <3> QED BY <2>8, <3>1, <3>2 DEF AttachMedia
  <2>9. CASE ReadTarget(h)
    <3>1. CASE Refuse(h)
      BY <1>3, <3>1
    <3>2. CASE /\ Goto(h, "answer") \/ Goto(h, "write")
               /\ UNCHANGED <<row, cleared>>
      BY <1>4, <2>0, <2>9, <3>2, QuietStep
      DEF ReadTarget, OthersKeep, Transaction, Inserted
    <3> QED BY <2>9, <3>1, <3>2 DEF ReadTarget
  <2>10. CASE WriteTarget(h)
    BY <1>4, <2>0, <2>10, QuietStep
    DEF WriteTarget, OthersKeep, Transaction, Inserted
  <2>11. CASE Commit(h)
    BY <2>11, CommitStep
  <2>12. CASE Respond(h)
    BY <1>3, <2>12
  <2> QED BY <1>5, <2>1, <2>2, <2>3, <2>4, <2>5, <2>6, <2>7, <2>8, <2>9,
             <2>10, <2>11, <2>12 DEF Serve
<1>6. ASSUME NEW h \in Handlers, HandlerDies(h) PROVE Rest'
  BY <1>3, <1>6
<1> QED BY <1>1, <1>2, <1>5, <1>6 DEF Next

\* The unique index, the tombstones and the open transactions always agree.
THEOREM AlwaysConsistent == Spec => []Consistent
<1>1. Consistent /\ [Next]_vars => Consistent'
  BY TypeStep, RestStep DEF Rest, Consistent
<1> QED BY InitConsistent, <1>1, PTL DEF Spec

\* Every variable keeps its type.
THEOREM TypeCorrect == Spec => []TypeOK
BY AlwaysConsistent, PTL DEF Consistent

\* However requests overlap, are retried or die, no author ever has two live
\* posts made with one key.
THEOREM IdempotentCreation == Spec => []OneLivePostPerKey
<1>1. Consistent => OneLivePostPerKey
  BY DEF Consistent, UniqueKeys, LiveHoldsItsKey, OneLivePostPerKey, Live
<1> QED BY AlwaysConsistent, <1>1, PTL

(***************************************************************************)
(* What create_post answers is true.  The claim about a 500 is about a row *)
(* that was deleted some time before it, so Knowing follows it through the *)
(* statements: who met a holder of the key on INSERT and no live one after *)
(* the rollback knows of a deleted row that was made with the key.         *)
(***************************************************************************)

\* A step that commits nothing leaves the table alone.
LEMMA OnlyCommitWrites ==
  ASSUME [Next]_vars
  PROVE  posts' = posts \/ \E h \in Handlers : Commit(h)
BY DEF Next, vars, PostRequest, PatchRequest, DeleteRequest, Receive, Serve,
       ClubGate, Probe, Insert, InsertInto, Reread, Tombstone, HandOver, Reinsert,
       AttachMedia, ReadTarget, WriteTarget, Respond, HandlerDies,
       Refuse, Fail, Goto

\* Posts are never lost, author and origin never change, deletion is for good.
LEMMA PostsPersist ==
  ASSUME Consistent, [Next]_vars, NEW i \in RowIds, posts[i] # NoPost
  PROVE  /\ posts'[i] # NoPost
         /\ posts'[i].author = posts[i].author
         /\ posts'[i].origin = posts[i].origin
         /\ posts'[i].key \in {posts[i].key, NoKey}
         /\ posts[i].deleted => posts'[i].deleted
<1>1. CASE posts' = posts
  BY <1>1
<1>2. ASSUME NEW h \in Handlers, Commit(h) 
      PROVE  /\ posts'[i] # NoPost
             /\ posts'[i].author = posts[i].author
             /\ posts'[i].origin = posts[i].origin
             /\ posts'[i].key \in {posts[i].key, NoKey}
             /\ posts[i].deleted => posts'[i].deleted
  BY <1>2, CommittedRow
<1> QED BY <1>1, <1>2, OnlyCommitWrites

\* A post appears where a commit inserts it.
LEMMA PostsAreInserted ==
  ASSUME Consistent, [Next]_vars, NEW i \in RowIds, posts[i] = NoPost
  PROVE  \/ posts'[i] = NoPost
         \/ \E h \in Handlers : /\ Commit(h) /\ Inserted(h) /\ i = row[h]
                                /\ posts'[i] = NewPost(h)
<1>1. CASE posts' = posts
  BY <1>1
<1>2. ASSUME NEW h \in Handlers, Commit(h)
      PROVE  posts'[i] = NoPost \/ (Inserted(h) /\ i = row[h] /\ posts'[i] = NewPost(h))
  BY <1>2, CommittedRow, PostServiceAssumptions
<1> QED BY <1>1, <1>2, OnlyCommitWrites

\* The table keeps what a handler knows, whatever the others commit.
LEMMA KnowledgePersists ==
  ASSUME Consistent, [Next]_vars, NEW g \in Handlers, Knowledge(g),
         pc'[g] = pc[g], req'[g] = req[g], row'[g] = row[g],
         ~Commit(g)
  PROVE  Knowledge(g)'
<1> USE DEF Consistent, TypeOK
<1>1. ASSUME NEW i \in RowIds, MadeFor(i, g)
      PROVE  MadeFor(i, g)' /\ (posts[i].deleted => posts'[i].deleted)
  BY <1>1, PostsPersist DEF MadeFor
<1>2. Transaction(g)
  BY DEF Transactions
<1>3. ASSUME Inserted(g) PROVE posts'[row[g]] = NoPost
  <2>1. row[g] \in RowIds /\ posts[row[g]] = NoPost
    BY <1>3 DEF Inserted, MaybeRow
  <2>2. ASSUME NEW h \in Handlers, Commit(h), Inserted(h) PROVE row[h] # row[g]
    BY <1>3, <2>2 DEF InsertsOwnTheirKeys
  <2> QED BY <2>1, <2>2, PostsAreInserted
<1>4. pc'[g] = "attach" => posts'[row'[g]] = NoPost
  BY <1>2, <1>3 DEF Knowledge, Transaction, Inserted
<1>5. pc'[g] \in {"commit", "answer"} => row[g] \in RowIds
  BY <1>2 DEF Transaction, MaybeRow
<1>6. pc'[g] = "commit" /\ req'[g].op = "create" =>
        posts'[row'[g]] = NoPost \/ MadeFor(row[g], g)'
  BY <1>1, <1>2, <1>3, <1>5 DEF Knowledge, Transaction, Inserted
<1>7. pc'[g] = "answer" /\ req'[g].op = "create" => MadeFor(row[g], g)'
  BY <1>1, <1>5 DEF Knowledge
<1>8. pc'[g] = "reread" =>
        req'[g].key # NoKey /\ \E i \in RowIds : MadeFor(i, g)'
  BY <1>1 DEF Knowledge
<1>9. pc'[g] \in {"tombstone", "handover", "reinsert"} =>
        \E i \in RowIds : MadeFor(i, g)' /\ posts'[i].deleted
  BY <1>1 DEF Knowledge
<1> QED BY <1>4, <1>6, <1>7, <1>8, <1>9 DEF Knowledge, MadeFor

\* A live post that was made with the key of a request holds it.
LEMMA LiveOnesHold ==
  ASSUME Consistent, NEW h \in Handlers, NEW i \in RowIds, MadeFor(i, h),
         req[h].key # NoKey, ~posts[i].deleted
  PROVE  i \in LiveHolders(h)
<1>1. posts[i].key = posts[i].origin
  BY DEF Consistent, LiveHoldsItsKey, Live, MadeFor
<1>2. cleared[h] # i
  BY PostServiceAssumptions DEF Consistent, Transactions, Transaction
<1> QED BY <1>1, <1>2 DEF LiveHolders, Holders, MadeFor

\* Who holds the key of a request was made with it.
LEMMA HoldersWereMadeFor ==
  ASSUME KeysAreKept, NEW h \in Handlers, NEW i \in Holders(h)
  PROVE  i \in RowIds /\ MadeFor(i, h) /\ req[h].key # NoKey
BY DEF KeysAreKept, Holders, MadeFor

\* A step is one handler's.
LEMMA StepOfOne ==
  ASSUME TypeOK, NEW h \in Handlers,
         \/ PostRequest(h) \/ PatchRequest(h) \/ DeleteRequest(h)
         \/ Serve(h) \/ HandlerDies(h)
  PROVE  OthersKeep(h)
<1> USE DEF OthersKeep, TypeOK
<1>1. CASE PostRequest(h) \/ PatchRequest(h) \/ DeleteRequest(h)
  BY <1>1 DEF PostRequest, PatchRequest, DeleteRequest, Receive
<1>2. ASSUME Forget(h) PROVE OthersKeep(h)
  BY <1>2 DEF Forget
<1>3. CASE HandlerDies(h)
  BY <1>2, <1>3 DEF HandlerDies
<1>4. CASE ClubGate(h) \/ Probe(h) \/ Insert(h) \/ Reread(h)
  BY <1>2, <1>4 DEF ClubGate, Probe, Insert, InsertInto, Reread, Refuse, Goto
<1>5. CASE Tombstone(h) \/ HandOver(h) \/ Reinsert(h) \/ AttachMedia(h)
  BY <1>2, <1>5 DEF Tombstone, HandOver, Reinsert, InsertInto, AttachMedia, Refuse,
     Fail, Goto
<1>6. CASE ReadTarget(h) \/ WriteTarget(h) \/ Commit(h) \/ Respond(h)
  BY <1>2, <1>6 DEF ReadTarget, WriteTarget, Commit, Respond, Refuse, Goto
<1> QED BY <1>1, <1>3, <1>4, <1>5, <1>6 DEF Serve

\* Each statement of a handler knows what the one before it found.
LEMMA OwnKnowledge ==
  ASSUME Consistent, KeysAreKept, NEW h \in Handlers, Knowledge(h),
         \/ PostRequest(h) \/ PatchRequest(h) \/ DeleteRequest(h)
         \/ Serve(h) \/ HandlerDies(h)
  PROVE  Knowledge(h)'
<1> USE DEF Consistent, TypeOK
<1>0. Transaction(h)
  BY DEF Transactions
<1>1. ASSUME pc'[h] \in {"idle", "gate", "probe", "insert", "read", "write"}
      PROVE  Knowledge(h)'
  BY <1>1 DEF Knowledge
<1>2. CASE PostRequest(h) \/ PatchRequest(h) \/ DeleteRequest(h)
  BY <1>1, <1>2 DEF PostRequest, PatchRequest, DeleteRequest, Receive
<1>3. ASSUME Forget(h) PROVE Knowledge(h)'
  BY <1>1, <1>3 DEF Forget
<1>4. ASSUME NEW step \in Steps, Goto(h, step)
      PROVE  posts' = posts /\ req' = req /\ pc'[h] = step
  BY <1>4 DEF Goto
<1>5. ASSUME NEW i \in LiveHolders(h), row' = [row EXCEPT ![h] = i], Goto(h, "commit")
      PROVE  Knowledge(h)'
  <2>1. MadeFor(i, h) /\ row'[h] = i
    BY <1>5, HoldersWereMadeFor DEF LiveHolders, Holders
  <2> QED BY <1>4, <1>5, <2>1 DEF Knowledge, MadeFor, Steps
<1>6. ASSUME InsertInto(h) PROVE Knowledge(h)'
  <2>1. pc'[h] = "attach" /\ posts' = posts /\ posts[row'[h]] = NoPost
    BY <1>6, NewRowTyped DEF InsertInto, Goto, UnusedRows
  <2> QED BY <2>1 DEF Knowledge
<1>7. CASE ClubGate(h) \/ ReadTarget(h)
  <2>1. CASE Refuse(h)
    BY <1>3, <2>1 DEF Refuse
  <2>2. CASE Goto(h, "probe") \/ Goto(h, "write")
    BY <1>1, <2>2 DEF Goto
  <2>3. CASE Goto(h, "answer") /\ req[h].op # "create"
    BY <2>3 DEF Knowledge, Goto
  <2> QED BY <1>0, <1>7, <2>1, <2>2, <2>3 DEF ClubGate, ReadTarget, Transaction
<1>8. CASE Probe(h)
  <2>1. CASE Goto(h, "insert")
    BY <1>1, <2>1 DEF Goto
  <2> QED BY <1>5, <1>8, <2>1 DEF Probe
<1>9. CASE Insert(h)
  <2>1. ASSUME Holders(h) # {}, Goto(h, "reread") PROVE Knowledge(h)'
    <3>1. PICK i \in Holders(h) : TRUE
      BY <2>1
    <3>2. i \in RowIds /\ MadeFor(i, h) /\ req[h].key # NoKey
      BY HoldersWereMadeFor
    <3>3. pc'[h] = "reread" /\ posts' = posts /\ req' = req
      BY <2>1 DEF Goto
    <3> QED BY <3>2, <3>3 DEF Knowledge, MadeFor
  <2> QED BY <1>6, <1>9, <2>1 DEF Insert
<1>10. CASE Reread(h)
  <2>1. ASSUME LiveHolders(h) = {}, Goto(h, "tombstone") PROVE Knowledge(h)'
    <3>1. PICK i \in RowIds : MadeFor(i, h) /\ req[h].key # NoKey
      BY <1>10 DEF Reread, Knowledge
    <3>2. posts[i].deleted
      <4>1. posts[i] \in Post
        BY <3>1 DEF MadeFor
      <4> QED BY <2>1, <3>1, <4>1, LiveOnesHold DEF Post
    <3>3. pc'[h] = "tombstone" /\ posts' = posts /\ req' = req
      BY <2>1 DEF Goto
    <3> QED BY <3>1, <3>2, <3>3 DEF Knowledge, MadeFor
  <2> QED BY <1>5, <1>10, <2>1 DEF Reread
<1>11. CASE Tombstone(h) \/ HandOver(h)
  <2>1. CASE Fail(h)
    BY <1>3, <2>1 DEF Fail
  <2>2. ASSUME NEW step \in {"handover", "reinsert"}, Goto(h, step),
               pc[h] \in {"tombstone", "handover"}
        PROVE  Knowledge(h)'
    <3>1. PICK i \in RowIds : MadeFor(i, h) /\ posts[i].deleted
      BY <2>2 DEF Knowledge
    <3>2. pc'[h] \in {"handover", "reinsert"} /\ posts' = posts /\ req' = req
      BY <2>2 DEF Goto
    <3> QED BY <3>1, <3>2 DEF Knowledge, MadeFor
  <2> QED BY <1>11, <2>1, <2>2 DEF Tombstone, HandOver
<1>12. CASE Reinsert(h)
  BY <1>3, <1>6, <1>12 DEF Reinsert, Fail
<1>13. CASE AttachMedia(h)
  <2>1. CASE Refuse(h)
    BY <1>3, <2>1 DEF Refuse
  <2>2. CASE Goto(h, "commit") /\ UNCHANGED <<row, cleared>>
    <3>1. posts[row[h]] = NoPost /\ pc'[h] = "commit" /\ posts' = posts
      BY <1>13, <2>2 DEF AttachMedia, Knowledge, Goto
    <3> QED BY <2>2, <3>1 DEF Knowledge
  <2> QED BY <1>13, <2>1, <2>2 DEF AttachMedia
<1>14. CASE WriteTarget(h)
  <2>1. pc'[h] = "commit" /\ req'[h].op # "create"
    BY <1>0, <1>14 DEF WriteTarget, Goto, Transaction
  <2> QED BY <2>1 DEF Knowledge
<1>15. CASE Commit(h)
  <2>1. /\ pc[h] = "commit" /\ pc'[h] = "answer" /\ req' = req /\ row' = row
        /\ row[h] \in RowIds
    BY <1>0, <1>15 DEF Commit, Transaction, MaybeRow
  <2>2. ASSUME req[h].op = "create", posts[row[h]] = NoPost PROVE MadeFor(row[h], h)'
    <3>1. Inserted(h)
      BY <2>1, <2>2, <1>0 DEF Inserted, Transaction
    <3>2. NewPost(h) # NoPost
      BY PostsAreRows DEF NewPost, Request
    <3>3. posts'[row[h]] = NewPost(h)
      BY <1>15, <2>1, <3>1, CommittedRow
    <3> QED BY <2>1, <3>2, <3>3 DEF MadeFor, NewPost
  <2>3. ASSUME MadeFor(row[h], h) PROVE MadeFor(row[h], h)'
    <3>1. [Next]_vars
      BY <1>15 DEF Next, Serve
    <3> QED BY <2>1, <2>3, <3>1, PostsPersist DEF MadeFor
  <2> QED BY <2>1, <2>2, <2>3 DEF Knowledge, MadeFor
<1>16. CASE Respond(h) \/ HandlerDies(h)
  BY <1>3, <1>16 DEF Respond, HandlerDies
<1> QED BY <1>2, <1>7, <1>8, <1>9, <1>10, <1>11, <1>12, <1>13, <1>14, <1>15, <1>16
   DEF Serve

\* The others' steps leave alone what a handler knows.
LEMMA KnowledgeStep ==
  ASSUME Consistent, KeysAreKept, [Next]_vars, NEW g \in Handlers, Knowledge(g)
  PROVE  Knowledge(g)'
<1> USE DEF Consistent, TypeOK
<1>1. CASE UNCHANGED vars
  BY <1>1 DEF vars, Knowledge, MadeFor
<1>2. ASSUME NEW h \in Handlers,
             \/ PostRequest(h) \/ PatchRequest(h) \/ DeleteRequest(h)
             \/ Serve(h) \/ HandlerDies(h)
      PROVE  Knowledge(g)'
  <2>1. CASE h = g
    BY <1>2, <2>1, OwnKnowledge
  <2>2. CASE h # g
    <3>1. pc'[g] = pc[g] /\ req'[g] = req[g] /\ row'[g] = row[g]
      BY <1>2, <2>2, StepOfOne DEF OthersKeep
    <3>2. ~Commit(g)
      BY <3>1 DEF Commit
    <3> QED BY <3>1, <3>2, KnowledgePersists
  <2> QED BY <2>1, <2>2
<1> QED BY <1>1, <1>2 DEF Next

\* A new post holds the key it was made with.
LEMMA KeysStayKept ==
  ASSUME Consistent, KeysAreKept, [Next]_vars
  PROVE  KeysAreKept'
<1>1. SUFFICES ASSUME NEW i \in RowIds, posts'[i] # NoPost, posts'[i].key # NoKey
               PROVE  posts'[i].key = posts'[i].origin
  BY DEF KeysAreKept
<1>2. CASE posts[i] = NoPost
  <2>1. PICK h \in Handlers : posts'[i] = NewPost(h)
    BY <1>1, <1>2, PostsAreInserted
  <2> QED BY <2>1 DEF NewPost
<1>3. CASE posts[i] # NoPost
  BY <1>1, <1>3, PostsPersist DEF KeysAreKept
<1> QED BY <1>2, <1>3

\* A step gives at most one answer, and the handler knew it to be true.
LEMMA NewAnswers ==
  ASSUME Consistent, [Next]_vars, NEW a \in answers', a \notin answers
  PROVE  /\ posts' = posts
         /\ \E h \in Handlers :
              \/ pc[h] = "answer" /\ a = Reply(h, "ok", row[h])
              \/ pc[h] \in {"tombstone", "reinsert"} /\ a = Reply(h, "error", NoRow)
<1>1. ASSUME NEW h \in Handlers, ClubGate(h) \/ Probe(h) \/ Insert(h) \/ Reread(h)
                                 \/ HandOver(h) \/ AttachMedia(h)
      PROVE  answers' = answers
  BY <1>1 DEF ClubGate, Probe, Insert, InsertInto, Reread, HandOver, AttachMedia,
     Refuse, Goto
<1>2. ASSUME NEW h \in Handlers, ReadTarget(h) \/ WriteTarget(h) \/ Commit(h)
                                 \/ HandlerDies(h)
      PROVE  answers' = answers
  BY <1>2 DEF ReadTarget, WriteTarget, Commit, HandlerDies, Refuse, Goto
<1>3. ASSUME NEW h \in Handlers, PostRequest(h) \/ PatchRequest(h) \/ DeleteRequest(h)
      PROVE  answers' = answers
  BY <1>3 DEF PostRequest, PatchRequest, DeleteRequest, Receive
<1>4. ASSUME NEW h \in Handlers, Tombstone(h) \/ Reinsert(h)
      PROVE  \/ answers' = answers
             \/ /\ posts' = posts
                /\ pc[h] \in {"tombstone", "reinsert"}
                /\ answers' = answers \cup {Reply(h, "error", NoRow)}
  BY <1>4 DEF Tombstone, Reinsert, InsertInto, Fail, Goto
<1>5. ASSUME NEW h \in Handlers, Respond(h)
      PROVE  /\ posts' = posts
             /\ pc[h] = "answer"
             /\ answers' \subseteq answers \cup {Reply(h, "ok", row[h])}
  BY <1>5 DEF Respond
<1>6. ~UNCHANGED vars
  BY DEF vars
<1> QED BY <1>1, <1>2, <1>3, <1>4, <1>5, <1>6 DEF Next, Serve

\* What was answered stays true, and what is answered is known.
LEMMA AnswersStayTrue ==
  ASSUME Consistent, Knowing, [Next]_vars
  PROVE  AnswersAreTrue'
<1> USE DEF Consistent, TypeOK
<1>1. ASSUME NEW a \in answers', a.op = "create", a.status = "ok"
      PROVE  /\ posts'[a.row] # NoPost
             /\ posts'[a.row].author = a.who
             /\ posts'[a.row].origin = a.key
  <2>1. CASE a \in answers
    <3>1. a.row \in RowIds
      BY <1>1, <2>1 DEF Knowing, Answer, MaybeRow
    <3>2. /\ posts[a.row] # NoPost
          /\ posts[a.row].author = a.who
          /\ posts[a.row].origin = a.key
      BY <1>1, <2>1 DEF Knowing, AnswersAreTrue, CreatedPostIsStored
    <3> QED BY <3>1, <3>2, PostsPersist
  <2>2. CASE a \notin answers
    BY <1>1, <2>2, NewAnswers DEF Knowing, Knowledge, MadeFor, Reply
  <2> QED BY <2>1, <2>2
<1>2. ASSUME NEW a \in answers', a.status = "error"
      PROVE  \E i \in RowIds : /\ posts'[i] # NoPost
                               /\ posts'[i].author = a.who
                               /\ posts'[i].origin = a.key
                               /\ posts'[i].deleted
  <2>1. CASE a \in answers
    <3>1. PICK i \in RowIds : /\ posts[i] # NoPost
                              /\ posts[i].author = a.who
                              /\ posts[i].origin = a.key
                              /\ posts[i].deleted
      BY <1>2, <2>1 DEF Knowing, AnswersAreTrue, ErrorsNeedADeletion
    <3> QED BY <3>1, PostsPersist
  <2>2. CASE a \notin answers
    <3>1. posts' = posts
      BY <2>2, NewAnswers
    <3>2. PICK h \in Handlers : /\ pc[h] \in {"tombstone", "reinsert"}
                                /\ a = Reply(h, "error", NoRow)
      BY <1>2, <2>2, NewAnswers DEF Reply
    <3>3. PICK i \in RowIds : MadeFor(i, h) /\ posts[i].deleted
      BY <3>2 DEF Knowing, Knowledge
    <3> QED BY <3>1, <3>2, <3>3 DEF MadeFor, Reply
  <2> QED BY <2>1, <2>2
<1> QED BY <1>1, <1>2 DEF AnswersAreTrue, CreatedPostIsStored, ErrorsNeedADeletion

\* An answer that is not an error names a row.
LEMMA AnswersKeepNamingRows ==
  ASSUME Consistent, Knowing, [Next]_vars, NEW a \in answers', a.status = "ok"
  PROVE  a.row # NoRow
<1> USE DEF Consistent, TypeOK
<1>1. CASE a \in answers
  BY <1>1 DEF Knowing
<1>2. CASE a \notin answers
  BY <1>2, NewAnswers DEF Transactions, Transaction, Reply
<1> QED BY <1>1, <1>2

\* What create_post answers is true, for any number of profiles, keys, rows and
\* overlapping requests: a 201 names a stored post made with the key that was
\* sent, and a 500 means that a post made with it was deleted.
THEOREM TrueAnswers == Spec => []AnswersAreTrue
<1>1. Init => Knowing
  BY DEF Init, Knowing, KeysAreKept, Knowledge, AnswersAreTrue, CreatedPostIsStored,
     ErrorsNeedADeletion
<1>2. Consistent /\ Knowing /\ [Next]_vars => Knowing'
  <2>1. SUFFICES ASSUME Consistent, Knowing, [Next]_vars PROVE Knowing'
    OBVIOUS
  <2>2. KeysAreKept'
    BY <2>1, KeysStayKept DEF Knowing
  <2>3. \A h \in Handlers : Knowledge(h)'
    BY <2>1, KnowledgeStep DEF Knowing
  <2>4. \A a \in answers' : a.status = "ok" => a.row # NoRow
    BY <2>1, AnswersKeepNamingRows
  <2>5. AnswersAreTrue'
    BY <2>1, AnswersStayTrue
  <2> QED BY <2>2, <2>3, <2>4, <2>5 DEF Knowing
<1>3. Knowing => AnswersAreTrue
  BY DEF Knowing
<1> QED BY <1>1, <1>2, <1>3, AlwaysConsistent, PTL DEF Spec

(***************************************************************************)
(* PostService implements PostStore.                                       *)
(***************************************************************************)

\* A step that leaves the table alone leaves the board alone; a commit is one
\* step of the board.
LEMMA CommitIsStoreStep ==
  ASSUME Consistent, NEW h \in Handlers, Commit(h)
  PROVE  [Store!Next]_Board
<1> USE DEF Consistent, TypeOK
<1>1. /\ posts' = Applied(h) /\ pc[h] = "commit"
      /\ row[h] \in RowIds /\ Transaction(h)
  BY DEF Commit, Transactions, Transaction, MaybeRow
<1>2. /\ DOMAIN Board = RowIds /\ DOMAIN Board' = RowIds
      /\ Board = [i \in RowIds |-> Board[i]]
      /\ Board' = [i \in RowIds |-> Board'[i]]
  BY DEF Board
\* Handing a key over changes nothing the board shows.
<1>t. ASSUME NEW i \in RowIds, cleared[h] = i, ~(Inserted(h) /\ i = row[h])
      PROVE  Board'[i] = Board[i]
  <2>1. posts[i] \in Post /\ req[h].now \in Nat
    BY <1>1, <1>t, PostServiceAssumptions DEF Transaction, Request
  <2>2. posts'[i] = [posts[i] EXCEPT !.key = NoKey, !.version = req[h].now]
    BY <1>1, <1>t DEF Applied
  <2>3. posts'[i] \in Post
    BY <2>1, <2>2 DEF Post, MaybeKey
  <2> QED BY <2>1, <2>2, <2>3, PostServiceAssumptions DEF Board, Post
<1>3. CASE Inserted(h)
  <2>1. posts[row[h]] = NoPost /\ posts'[row[h]] = NewPost(h)
    BY <1>1, <1>3 DEF Applied, Inserted
  <2>2. NewPost(h) # NoPost /\ req[h].who \in Profiles
        /\ req[h].key \in Keys \cup {NoKey}
    BY PostsAreRows DEF NewPost, Request, MaybeKey
  <2>3. ASSUME NEW i \in RowIds, i # row[h] PROVE Board'[i] = Board[i]
    <3>1. CASE cleared[h] = i
      BY <1>3, <2>3, <1>t, <3>1
    <3>2. CASE cleared[h] # i
      BY <1>1, <1>3, <2>3, <3>2 DEF Applied, Board, Written, Inserted
    <3> QED BY <3>1, <3>2
  <2>4. Board[row[h]] = NoPost
        /\ Board'[row[h]] = [author |-> req[h].who, origin |-> req[h].key,
                             deleted |-> FALSE]
    <3>1. /\ NewPost(h).author = req[h].who /\ NewPost(h).origin = req[h].key
          /\ NewPost(h).deleted = FALSE
      BY DEF NewPost
    <3> QED BY <1>1, <2>1, <2>2, <3>1 DEF Board
  <2>5. Board' = [Board EXCEPT
                    ![row[h]] = [author |-> req[h].who,
                                 origin |-> req[h].key, deleted |-> FALSE]]
    BY <1>1, <1>2, <2>3, <2>4
  <2>6. ASSUME req[h].key # NoKey
        PROVE  Store!LiveFor(req[h].who, req[h].key) = {}
    <3> SUFFICES ASSUME NEW i \in RowIds, Board[i] # NoPost,
                        Board[i].author = req[h].who,
                        Board[i].origin = req[h].key, ~Board[i].deleted
                 PROVE  FALSE
      BY DEF Store!LiveFor
    <3>1. /\ posts[i] # NoPost /\ posts[i].author = req[h].who
          /\ posts[i].origin = req[h].key /\ ~posts[i].deleted
      BY DEF Board
    <3>2. posts[i].key = req[h].key
      BY <3>1 DEF LiveHoldsItsKey, Live
    <3>3. cleared[h] # i
      BY <1>1, <3>1, PostServiceAssumptions DEF Transaction
    <3> QED BY <1>3, <2>6, <3>1, <3>2, <3>3 DEF InsertsOwnTheirKeys, Holders
  <2>7. Store!Publish(row[h], req[h].who, req[h].key)
    BY <2>4, <2>5, <2>6 DEF Store!Publish
  <2> QED BY <1>1, <2>2, <2>7 DEF Store!Next
<1>4. CASE Written(h)
  <2>1. posts[row[h]] \in Post /\ req[h].now \in Nat /\ cleared[h] \in MaybeRow
    BY <1>1, <1>4 DEF Transaction, Written, Request
  <2>2. ~Inserted(h)
    BY <1>4 DEF Inserted, Written
  <2>3. ASSUME NEW i \in RowIds, i # row[h] PROVE Board'[i] = Board[i]
    <3>1. CASE cleared[h] = i
      BY <2>2, <2>3, <1>t, <3>1
    <3>2. CASE cleared[h] # i
      BY <1>1, <2>2, <2>3, <3>2 DEF Applied, Board
    <3> QED BY <3>1, <3>2
  <2>4. /\ posts'[row[h]] \in Post
        /\ posts'[row[h]].author = posts[row[h]].author
        /\ posts'[row[h]].origin = posts[row[h]].origin
        /\ \/ posts'[row[h]].deleted = posts[row[h]].deleted
           \/ posts'[row[h]].deleted = TRUE
    <3>1. CASE cleared[h] = row[h]
      <4>1. posts'[row[h]] = [posts[row[h]] EXCEPT !.key = NoKey,
                                                  !.version = req[h].now]
        BY <1>1, <2>2, <3>1 DEF Applied
      <4> QED BY <2>1, <4>1 DEF Post, MaybeKey
    <3>2. CASE cleared[h] # row[h]
      <4>1. posts'[row[h]] = WrittenPost(h, row[h])
        BY <1>1, <1>4, <2>2, <3>2 DEF Applied
      <4> QED BY <2>1, <4>1 DEF Post, WrittenPost
    <3> QED BY <3>1, <3>2
  <2>5. posts[row[h]] # NoPost /\ posts'[row[h]] # NoPost
    BY <2>1, <2>4, PostServiceAssumptions
  <2>6. CASE posts'[row[h]].deleted = posts[row[h]].deleted
    <3>1. Board'[row[h]] = Board[row[h]]
      BY <1>1, <2>4, <2>5, <2>6 DEF Board
    <3> QED BY <1>2, <2>3, <3>1
  <2>7. CASE posts'[row[h]].deleted = TRUE
    <3>1. /\ Board[row[h]] # NoPost
          /\ Board'[row[h]] = [author |-> Board[row[h]].author,
                               origin |-> Board[row[h]].origin,
                               deleted |-> TRUE]
      <4>1. Board[row[h]] = [author |-> posts[row[h]].author,
                             origin |-> posts[row[h]].origin,
                             deleted |-> posts[row[h]].deleted]
        BY <1>1, <2>5 DEF Board
      <4>2. Board[row[h]] # NoPost
        BY <2>1, <4>1, PostServiceAssumptions DEF Post, Store!BoardPost
      <4> QED BY <1>1, <2>4, <2>5, <2>7, <4>1, <4>2 DEF Board
    <3>2. Store!Retract(row[h])
      BY <1>1, <1>2, <2>3, <3>1 DEF Store!Retract
    <3> QED BY <1>1, <3>2 DEF Store!Next
  <2> QED BY <2>4, <2>6, <2>7
<1>5. CASE ~Inserted(h) /\ ~Written(h)
  <2>1. ASSUME NEW i \in RowIds PROVE Board'[i] = Board[i]
    <3>1. CASE cleared[h] = i
      BY <1>5, <1>t, <3>1
    <3>2. CASE cleared[h] # i
      BY <1>1, <1>5, <2>1, <3>2 DEF Applied, Board
    <3> QED BY <3>1, <3>2
  <2> QED BY <1>2, <2>1
<1> QED BY <1>3, <1>4, <1>5

\* Every behaviour of the service is a behaviour of the promised store: posts
\* are published once per key and deleted for good.
THEOREM ServiceImplementsStore == Spec => ImplementsPostStore
<1>1. Init => Store!Init
  BY DEF Init, Store!Init, Board
<1>2. Consistent /\ [Next]_vars => [Store!Next]_Board
  <2> SUFFICES ASSUME Consistent, [Next]_vars PROVE [Store!Next]_Board
    OBVIOUS
  <2>1. CASE posts' = posts
    BY <2>1 DEF Board
  <2>2. ASSUME NEW h \in Handlers, Commit(h) PROVE [Store!Next]_Board
    BY <2>2, CommitIsStoreStep
  <2>3. posts' = posts \/ \E h \in Handlers : Commit(h)
    BY DEF Next, vars, PostRequest, PatchRequest, DeleteRequest, Receive,
       Serve, ClubGate, Probe, Insert, InsertInto, Reread, Tombstone,
       HandOver, Reinsert, AttachMedia, ReadTarget, WriteTarget, Respond,
       HandlerDies, Refuse, Fail, Goto
  <2> QED BY <2>1, <2>2, <2>3
<1> QED BY AlwaysConsistent, <1>1, <1>2, PTL
     DEF Spec, ImplementsPostStore, Store!Spec
=============================================================================
