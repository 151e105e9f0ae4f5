----------------------------- MODULE PostService -----------------------------
(***************************************************************************)
(* backend/app/community/services/post_service.py and routers/posts.py:    *)
(* creating, editing and deleting a community post.                        *)
(*                                                                         *)
(* The routes are synchronous functions, so requests run in a pool of      *)
(* threads (and in several server processes), each with a database session *)
(* of its own.  A handler is cut at each SQL statement: between two        *)
(* statements any other handler may run and commit.  Committed rows are    *)
(* in `posts`; what an open transaction has flushed is derived from its    *)
(* handler's state and becomes visible in Commit.  As PostgreSQL does, a   *)
(* flush waits while another open transaction holds a lock on the row, or  *)
(* has inserted the unique key, that it needs.                             *)
(***************************************************************************)
EXTENDS Naturals

CONSTANTS
  Profiles,     \* community profiles
  Keys,         \* client-chosen idempotency keys
  NoKey,        \* the request carries no key (the column is NULL)
  RowIds,       \* ids of the rows of community_posts
  NoPost,       \* value of a row that does not exist
  NoRow,        \* "no row" in a handler's state
  Handlers,     \* request handlers that can be in progress at once
  MaxRequests   \* bound of the model: requests received altogether

MaybeKey == Keys \cup {NoKey}
MaybeRow == RowIds \cup {NoRow}

(***************************************************************************)
(* A row of community_posts.  `origin` is a history field: the key the     *)
(* post was created with, which handing the key over does not change.      *)
(* `version` is updated_at, the resource_version clients send back.        *)
(***************************************************************************)
Post == [author : Profiles, key : MaybeKey, origin : MaybeKey,
         version : Nat, deleted : BOOLEAN]

ASSUME PostServiceAssumptions ==
  /\ Profiles # {}
  /\ NoKey \notin Keys
  /\ NoRow \notin RowIds
  /\ NoPost \notin Post
  /\ NoPost \notin [author : Profiles, origin : MaybeKey, deleted : BOOLEAN]
  /\ MaxRequests \in Nat

VARIABLES
  posts,    \* the committed table community_posts
  pc,       \* handler -> the statement it executes next
  req,      \* handler -> the request it serves
  row,      \* handler -> the row it found, will insert or will write
  cleared,  \* handler -> the tombstone whose key it has set to NULL
  clock,    \* requests received so far, which is also datetime_now()
  answers   \* history: the 2xx and 500 answers to POST and PATCH

vars == <<posts, pc, req, row, cleared, clock, answers>>

Request ==
  [op : {"create", "patch", "delete"}, who : Profiles, key : MaybeKey,
   base : Nat, now : Nat]

Answer == [op : {"create", "patch", "delete"}, who : Profiles,
           key : MaybeKey, row : MaybeRow, base : Nat,
           now : Nat, status : {"ok", "error"}]

Steps == {"idle", "gate", "probe", "insert", "reread", "tombstone",
          "handover", "reinsert", "attach", "read", "write", "commit",
          "answer"}

TypeOK ==
  /\ posts \in [RowIds -> Post \cup {NoPost}]
  /\ pc \in [Handlers -> Steps]
  /\ req \in [Handlers -> Request]
  /\ row \in [Handlers -> MaybeRow]
  /\ cleared \in [Handlers -> MaybeRow]
  /\ clock \in Nat
  /\ answers \subseteq Answer

IdleRequest ==
  [op |-> "create", who |-> CHOOSE p \in Profiles : TRUE, key |-> NoKey,
   base |-> 0, now |-> 0]

Init ==
  /\ posts = [i \in RowIds |-> NoPost]
  /\ pc = [h \in Handlers |-> "idle"]
  /\ req = [h \in Handlers |-> IdleRequest]
  /\ row = [h \in Handlers |-> NoRow]
  /\ cleared = [h \in Handlers |-> NoRow]
  /\ clock = 0
  /\ answers = {}

(***************************************************************************)
(* The database as a statement of handler h sees it.                       *)
(***************************************************************************)

\* h has flushed an INSERT, or an UPDATE of row[h], that is not committed.
Inserted(h) == req[h].op = "create" /\ pc[h] \in {"attach", "commit"}
                                    /\ row[h] # NoRow
                                    /\ posts[row[h]] = NoPost
Written(h) == req[h].op # "create" /\ pc[h] = "commit" /\ row[h] # NoRow

\* Mutant: rows are locked when they are read, and the lock is shared until the
\* write wants it alone.
LockedFromRead(h) ==
  { i \in RowIds : \E g \in Handlers \ {h} :
                      \/ cleared[g] = i
                      \/ pc[g] \in {"write", "commit"} /\ row[g] = i }

\* Rows another open transaction has updated and not committed.
LockedAgainst(h) ==
  { i \in RowIds : \E g \in Handlers \ {h} :
                      \/ cleared[g] = i
                      \/ Written(g) /\ row[g] = i }

\* Committed rows that hold (who, key) in the unique index, as h sees them.
Holders(h) ==
  { i \in RowIds : /\ posts[i] # NoPost
                   /\ posts[i].author = req[h].who
                   /\ posts[i].key = req[h].key
                   /\ req[h].key # NoKey
                   /\ cleared[h] # i }

LiveHolders(h) == { i \in Holders(h) : ~posts[i].deleted }

\* An uncommitted INSERT of the same key, or an uncommitted release of it,
\* by another transaction: the unique check waits for its outcome.
KeyContended(h) ==
  /\ req[h].key # NoKey
  /\ \/ \E g \in Handlers \ {h} : /\ Inserted(g)
                                  /\ req[g].who = req[h].who
                                  /\ req[g].key = req[h].key
     \/ Holders(h) \cap LockedAgainst(h) # {}

UnusedRows ==
  { i \in RowIds : /\ posts[i] = NoPost
                   /\ \A g \in Handlers : Inserted(g) => row[g] # i }

(***************************************************************************)
(* The end of a request.                                                   *)
(***************************************************************************)

Reply(h, status, i) ==
  [op |-> req[h].op, who |-> req[h].who, key |-> req[h].key, row |-> i,
   base |-> req[h].base, now |-> req[h].now, status |-> status]

Forget(h) ==
  /\ pc' = [pc EXCEPT ![h] = "idle"]
  /\ req' = [req EXCEPT ![h] = IdleRequest]
  /\ row' = [row EXCEPT ![h] = NoRow]
  /\ cleared' = [cleared EXCEPT ![h] = NoRow]

\* A 4xx answer: rollback, and the session is closed.
Refuse(h) == Forget(h) /\ UNCHANGED <<posts, clock, answers>>

\* An exception nothing catches: a 500 answer, and the session is closed.
Fail(h) ==
  /\ Forget(h)
  /\ answers' = answers \cup {Reply(h, "error", NoRow)}
  /\ UNCHANGED <<posts, clock>>

Goto(h, step) ==
  /\ pc' = [pc EXCEPT ![h] = step]
  /\ UNCHANGED <<posts, req, clock, answers>>

(***************************************************************************)
(* Requests arrive.  A client edits the version it has just read; versions *)
(* go stale while the request is under way.                                *)
(***************************************************************************)

Receive(h, request, first, i) ==
  /\ pc[h] = "idle"
  /\ clock < MaxRequests
  /\ clock' = clock + 1
  /\ req' = [req EXCEPT ![h] = request]
  /\ pc' = [pc EXCEPT ![h] = first]
  /\ row' = [row EXCEPT ![h] = i]
  /\ UNCHANGED <<posts, cleared, answers>>

PostRequest(h) ==
  \E p \in Profiles, k \in MaybeKey :
    Receive(h, [op |-> "create", who |-> p, key |-> k,
                base |-> 0, now |-> clock + 1], "gate", NoRow)

PatchRequest(h) ==
  \E p \in Profiles, i \in RowIds :
    /\ posts[i] # NoPost
    /\ Receive(h, [op |-> "patch", who |-> p, key |-> NoKey,
                   base |-> posts[i].version, now |-> clock + 1], "read", i)

DeleteRequest(h) ==
  \E p \in Profiles, i \in RowIds :
    /\ posts[i] # NoPost
    /\ Receive(h, [op |-> "delete", who |-> p, key |-> NoKey,
                   base |-> 0, now |-> clock + 1], "read", i)

(***************************************************************************)
(* create_post                                                             *)
(***************************************************************************)

\* _resolve_club_for_author, before the idempotency probe.  Whether the author
\* is (still) a member of the club the post names is another component's
\* state: the gate may refuse or let pass.
ClubGate(h) ==
  /\ pc[h] = "gate"
  /\ \/ Refuse(h)
     \/ Goto(h, "probe") /\ UNCHANGED <<row, cleared>>

\* _existing_post_by_idempotency_key: only live rows count.
Probe(h) ==
  /\ pc[h] = "probe"
  /\ \/ \E i \in LiveHolders(h) :
          /\ row' = [row EXCEPT ![h] = i]
          /\ Goto(h, "commit")
     \/ LiveHolders(h) = {} /\ Goto(h, "insert") /\ UNCHANGED row
  /\ UNCHANGED cleared

\* The two INSERTs.  A conflict of the first is caught, of the second not.
InsertInto(h) ==
  /\ ~KeyContended(h)
  /\ Holders(h) = {}
  /\ UnusedRows # {}
  /\ row' = [row EXCEPT ![h] = CHOOSE i \in UnusedRows : TRUE]
  /\ Goto(h, "attach")
  /\ UNCHANGED cleared

\* Mutant: after a conflict the key is taken to be a tombstone's at once.
InsertWithoutReread(h) ==
  /\ pc[h] = "insert"
  /\ \/ InsertInto(h)
     \/ /\ ~KeyContended(h)
        /\ Holders(h) # {}
        /\ Goto(h, "tombstone")
        /\ UNCHANGED <<row, cleared>>

Insert(h) ==
  /\ pc[h] = "insert"
  /\ \/ InsertInto(h)
     \/ /\ ~KeyContended(h)
        /\ Holders(h) # {}
        /\ Goto(h, "reread")
        /\ UNCHANGED <<row, cleared>>

\* After the rollback: the winner of the race, if it is live; its
\* media are its own, so attach_media_to_post is not called.
Reread(h) ==
  /\ pc[h] = "reread"
  /\ \/ \E i \in LiveHolders(h) :
          /\ row' = [row EXCEPT ![h] = i]
          /\ Goto(h, "commit")
     \/ LiveHolders(h) = {} /\ Goto(h, "tombstone") /\ UNCHANGED row
  /\ UNCHANGED cleared

\* Mutant: the key is taken from whichever row holds it.
TombstoneAnyHolder(h) ==
  /\ pc[h] = "tombstone"
  /\ \/ \E i \in Holders(h) :
          /\ row' = [row EXCEPT ![h] = i]
          /\ Goto(h, "handover")
          /\ UNCHANGED cleared
     \/ Holders(h) = {} /\ Fail(h)

\* The row that holds the key, deleted or not; only a deleted one yields it.
Tombstone(h) ==
  /\ pc[h] = "tombstone"
  /\ \/ \E i \in Holders(h) :
          /\ posts[i].deleted
          /\ row' = [row EXCEPT ![h] = i]
          /\ Goto(h, "handover")
          /\ UNCHANGED cleared
     \/ /\ \A i \in Holders(h) : ~posts[i].deleted
        /\ Fail(h)

\* Mutant: the update is addressed by the key instead of the row's id.
HandOverByKey(h) ==
  /\ pc[h] = "handover"
  /\ cleared' = [cleared EXCEPT ![h] = req[h].key]
  /\ row' = [row EXCEPT ![h] = NoRow]
  /\ Goto(h, "reinsert")

\* tombstone.idempotency_key = None; flush.
HandOver(h) ==
  /\ pc[h] = "handover"
  /\ row[h] \notin LockedAgainst(h)
  /\ cleared' = [cleared EXCEPT ![h] = row[h]]
  /\ row' = [row EXCEPT ![h] = NoRow]
  /\ Goto(h, "reinsert")

Reinsert(h) ==
  /\ pc[h] = "reinsert"
  /\ \/ InsertInto(h)
     \/ ~KeyContended(h) /\ Holders(h) # {} /\ Fail(h)

\* Mutant: the route answers without committing.
AttachThenAnswer(h) ==
  /\ pc[h] = "attach"
  /\ Goto(h, "answer")
  /\ UNCHANGED <<row, cleared>>

\* attach_media_to_post may reject the media ids the request names.
AttachMedia(h) ==
  /\ pc[h] = "attach"
  /\ \/ Goto(h, "commit") /\ UNCHANGED <<row, cleared>>
     \/ Refuse(h)

(***************************************************************************)
(* patch_post and soft_delete_post                                         *)
(***************************************************************************)

\* The row is read once; every check is made on that read.
ReadTarget(h) ==
  /\ pc[h] = "read"
  /\ LET post == posts[row[h]] IN
       \/ /\ \/ post.author # req[h].who
             \/ req[h].op = "patch" /\ post.deleted
             \/ req[h].op = "patch" /\ post.version # req[h].base
          /\ Refuse(h)
       \/ /\ post.author = req[h].who
          /\ req[h].op = "patch" => /\ ~post.deleted
                                    /\ post.version = req[h].base
          /\ IF req[h].op = "delete" /\ post.deleted
             THEN Goto(h, "answer")
             ELSE Goto(h, "write")
          /\ UNCHANGED <<row, cleared>>

\* UPDATE ... WHERE id = ...: waits for the row lock, checks nothing again.
WriteTarget(h) ==
  /\ pc[h] = "write"
  /\ row[h] \notin LockedAgainst(h)
  /\ Goto(h, "commit")
  /\ UNCHANGED <<row, cleared>>

(***************************************************************************)
(* _commit_via and the response                                            *)
(***************************************************************************)

\* The row a create request inserts.
NewPost(h) ==
  [author |-> req[h].who, key |-> req[h].key, origin |-> req[h].key,
   version |-> req[h].now, deleted |-> FALSE]

\* Mutant: an edit writes back every column it has read.
WrittenWholeRow(h, i) ==
  [posts[i] EXCEPT !.version = req[h].now, !.deleted = req[h].op = "delete"]

\* The row an edit or a deletion leaves: only the columns it assigned.
WrittenPost(h, i) ==
  [posts[i] EXCEPT !.version = req[h].now,
                   !.deleted = @ \/ req[h].op = "delete"]

\* The table with the flushed statements of h applied.
Applied(h) ==
  [i \in RowIds |->
     IF Inserted(h) /\ i = row[h] THEN NewPost(h)
     ELSE IF cleared[h] = i
     THEN [posts[i] EXCEPT !.key = NoKey, !.version = req[h].now]
     ELSE IF Written(h) /\ i = row[h] THEN WrittenPost(h, i)
     ELSE posts[i]]

Commit(h) ==
  /\ pc[h] = "commit"
  /\ posts' = Applied(h)
  /\ pc' = [pc EXCEPT ![h] = "answer"]
  /\ cleared' = [cleared EXCEPT ![h] = NoRow]
  /\ UNCHANGED <<req, row, clock, answers>>

Respond(h) ==
  /\ pc[h] = "answer"
  /\ answers' = IF req[h].op = "delete" THEN answers
                ELSE answers \cup {Reply(h, "ok", row[h])}
  /\ Forget(h)
  /\ UNCHANGED <<posts, clock>>

\* The process is killed or the connection breaks: the transaction is
\* rolled back and the client hears nothing, even after a commit.
HandlerDies(h) ==
  /\ pc[h] # "idle"
  /\ Forget(h)
  /\ UNCHANGED <<posts, clock, answers>>

Serve(h) ==
  \/ ClubGate(h) \/ Probe(h) \/ Insert(h) \/ Reread(h) \/ Tombstone(h)
  \/ HandOver(h) \/ Reinsert(h) \/ AttachMedia(h)
  \/ ReadTarget(h) \/ WriteTarget(h) \/ Commit(h) \/ Respond(h)

Next ==
  \E h \in Handlers :
    \/ PostRequest(h) \/ PatchRequest(h) \/ DeleteRequest(h)
    \/ Serve(h) \/ HandlerDies(h)

\* A thread that can run is eventually run; requests and deaths are never
\* forced.
Spec == Init /\ [][Next]_vars /\ \A h \in Handlers : WF_vars(Serve(h))
-----------------------------------------------------------------------------
(***************************************************************************)
(* Properties                                                              *)
(***************************************************************************)

Live(i) == posts[i] # NoPost /\ ~posts[i].deleted

\* However often a create request is sent, lost, repeated and raced, an author
\* never has two live posts made with the same key, although the tombstone
\* branch of create_post releases keys that were used before.
OneLivePostPerKey ==
  \A i, j \in RowIds :
    /\ Live(i) /\ Live(j)
    /\ posts[i].author = posts[j].author
    /\ posts[i].origin = posts[j].origin
    /\ posts[i].origin # NoKey
    => i = j

\* The inductive invariant behind OneLivePostPerKey.
\* The unique index: no key of an author is held by two rows.
UniqueKeys ==
  \A i, j \in RowIds :
    /\ posts[i] # NoPost /\ posts[j] # NoPost
    /\ posts[i].author = posts[j].author
    /\ posts[i].key = posts[j].key
    /\ posts[i].key # NoKey
    => i = j

\* A live post still holds the key it was made with, so a retry finds it.
LiveHoldsItsKey ==
  \A i \in RowIds : Live(i) => posts[i].key = posts[i].origin

\* What each open transaction has found or flushed.
Transaction(h) ==
  /\ pc[h] \in {"gate", "probe", "insert", "reread", "tombstone",
                "handover", "reinsert", "attach"} => req[h].op = "create"
  /\ pc[h] \in {"read", "write"} => req[h].op # "create"
  /\ pc[h] \in {"read", "write", "handover", "attach", "commit", "answer"}
       => row[h] # NoRow
  /\ req[h].op # "create" /\ row[h] # NoRow => posts[row[h]] # NoPost
  /\ pc[h] = "handover" => posts[row[h]] # NoPost /\ posts[row[h]].deleted
  /\ cleared[h] # NoRow => /\ posts[cleared[h]] # NoPost
                           /\ posts[cleared[h]].deleted

Transactions == \A h \in Handlers : Transaction(h)

\* A flushed INSERT owns its row id and, apart from the tombstone its own
\* transaction releases, its key.
InsertsOwnTheirKeys ==
  \A h \in Handlers : Inserted(h) =>
    /\ Holders(h) = {}
    /\ \A g \in Handlers \ {h} : Inserted(g) =>
         /\ row[g] # row[h]
         /\ ~ /\ req[g].who = req[h].who
              /\ req[g].key = req[h].key
              /\ req[h].key # NoKey

\* The unique index, the tombstones and the open transactions agree at every
\* statement boundary of overlapping requests.
Consistent ==
  TypeOK /\ UniqueKeys /\ LiveHoldsItsKey /\ Transactions
         /\ InsertsOwnTheirKeys

\* A client that was told "201" was given a committed post of its own that was
\* made with the key it sent, whichever branch of create_post answered.
CreatedPostIsStored ==
  \A a \in answers :
    a.op = "create" /\ a.status = "ok" =>
      /\ posts[a.row] # NoPost
      /\ posts[a.row].author = a.who
      /\ posts[a.row].origin = a.key

\* The unhandled IntegrityError (500) of create_post is met only where a post
\* made with that key was deleted: retries alone are always answered.
ErrorsNeedADeletion ==
  \A a \in answers :
    a.status = "error" =>
      \E i \in RowIds : /\ posts[i] # NoPost
                        /\ posts[i].author = a.who
                        /\ posts[i].origin = a.key
                        /\ posts[i].deleted

\* What create_post answers is true of the table, a 201 as much as a 500.
AnswersAreTrue == CreatedPostIsStored /\ ErrorsNeedADeletion

\* The inductive invariant behind AnswersAreTrue, which Knowing adds up.
\* A key is given up, never exchanged for another.
KeysAreKept ==
  \A i \in RowIds :
    posts[i] # NoPost /\ posts[i].key # NoKey => posts[i].key = posts[i].origin

MadeFor(i, h) ==
  posts[i] # NoPost /\ posts[i].author = req[h].who /\ posts[i].origin = req[h].key

\* What a create request knows of the table at each of its statements.
Knowledge(h) ==
  /\ pc[h] = "attach" => posts[row[h]] = NoPost
  /\ pc[h] = "commit" /\ req[h].op = "create" =>
       posts[row[h]] = NoPost \/ MadeFor(row[h], h)
  /\ pc[h] = "answer" /\ req[h].op = "create" => MadeFor(row[h], h)
  /\ pc[h] = "reread" => req[h].key # NoKey /\ \E i \in RowIds : MadeFor(i, h)
  /\ pc[h] \in {"tombstone", "handover", "reinsert"} =>
       \E i \in RowIds : MadeFor(i, h) /\ posts[i].deleted

Knowing ==
  /\ KeysAreKept
  /\ \A h \in Handlers : Knowledge(h)
  /\ \A a \in answers : a.status = "ok" => a.row # NoRow
  /\ AnswersAreTrue

\* "Optimistic concurrency" of patch_post: no two edits of a post that were
\* both accepted were based on the same version of it.
NoLostUpdate ==
  \A a, b \in answers :
    /\ a.op = "patch" /\ a.status = "ok"
    /\ b.op = "patch" /\ b.status = "ok"
    /\ a.row = b.row /\ a.base = b.base
    => a.now = b.now

\* Row locks and unique checks of overlapping requests never block each other
\* for good: every handler comes to an end.
RequestsEnd == \A h \in Handlers : pc[h] # "idle" ~> pc[h] = "idle"

\* What the atomic store of PostStore shows of the table.
Board ==
  [i \in RowIds |->
     IF posts[i] = NoPost THEN NoPost
     ELSE [author |-> posts[i].author, origin |-> posts[i].origin,
           deleted |-> posts[i].deleted]]

Store == INSTANCE PostStore WITH board <- Board

\* Every commit is one step of the promised store, or changes nothing it shows:
\* a row is published only when its author has no live post with that key, and
\* what is deleted stays deleted.
ImplementsPostStore == Store!Spec
=============================================================================
