------------------------------ MODULE Publishing ------------------------------
(***************************************************************************)
(* Publishing a post from the phone: the composer, its draft in the key    *)
(* value store, the persisted outbox, the network and the post service.    *)
(*                                                                         *)
(*   composer  lib/features/community/application/controllers/             *)
(*             post_composer_controller.dart                               *)
(*   draft     .../data/local/community_draft_store.dart                   *)
(*   outbox    .../application/outbox/community_outbox.dart                *)
(*   server    PostStore, which PostService is shown to implement          *)
(*                                                                         *)
(* One author, posts with a text only: no club, no attachment.  An action  *)
(* is what the Dart code runs from one await to the next.  The app can be  *)
(* killed at any time; a request or its answer can be lost, and a request  *)
(* the client has given up on can still reach the server later.            *)
(***************************************************************************)
EXTENDS Naturals

CONSTANTS
  Texts,       \* what the user may type
  Keys,        \* idempotency keys the composer generates
  None,        \* Dart's null
  Author,      \* the community profile that is signed in
  NoKey,       \* PostStore's "no idempotency key" (the client always has one)
  RowIds,      \* rows of community_posts
  NoPost,      \* an unused row
  MaxAttempts  \* bound on a record's attempts

ASSUME PublishingAssumptions ==
  /\ None \notin Texts \cup Keys /\ NoKey \notin Keys
  /\ None \notin [key : Keys, body : Texts, heard : BOOLEAN]
  /\ NoPost \notin [author : {Author}, origin : Keys \cup {NoKey},
                    deleted : BOOLEAN]
  /\ MaxAttempts \in Nat

VARIABLES
  (* PostComposerController: status "closed" when the screen is not open *)
  composer,   \* [status, body, key]
  discarding, \* discard() waits for the draft store
  draft,      \* CommunityDraftStore: [key, body] on disk, or None
  (* LocalCommunityOutbox *)
  pending,    \* _pending: a set of records [key, body, attempts]
  stored,     \* the outbox document on disk
  queued,     \* the submit() that waits for the tail of the queue, or None
  job,        \* the submit() that is being worked on, or None
  work,       \* what it waits for
  batch,      \* records the running _drain has still to send
  acked,      \* its acknowledged keys
  leftOver,   \* a queue found at launch that no drain has begun on
  (* the network *)
  awaiting,   \* the request the client waits for, or None
  wire,       \* requests on their way to the server
  answered,   \* the awaited request's success is on its way back
  (* the post service *)
  board,      \* PostStore's rows
  text,       \* row id -> its body
  (* history *)
  confirmed   \* [key, body] of the posts whose success the user was shown

composerVars == <<composer, discarding, draft>>
outboxVars == <<pending, stored, queued, job, work, batch, acked, leftOver>>
networkVars == <<awaiting, wire, answered>>
serverVars == <<board, text>>
vars == <<composerVars, outboxVars, networkVars, serverVars, confirmed>>

Server == INSTANCE PostStore WITH Profiles <- {Author}

Composer ==
  [status : {"closed", "editing", "submitting", "success", "failure"},
   body : Texts \cup {None}, key : Keys \cup {None}]

Draft == [key : Keys, body : Texts]

Record == [key : Keys, body : Texts, attempts : 0..MaxAttempts]

\* A submit() in flight; heard while its composer has not been disposed.
Job == [key : Keys, body : Texts, heard : BOOLEAN]

RowsOf(k) == {i \in RowIds : board[i] # NoPost /\ board[i].origin = k}

TypeOK ==
  /\ composer \in Composer
  /\ discarding \in BOOLEAN
  /\ draft \in Draft \cup {None}
  /\ pending \subseteq Record
  /\ stored \subseteq Record
  /\ queued \in Job \cup {None}
  /\ job \in Job \cup {None}
  /\ work \in {"idle", "saving", "sending", "reporting", "clearing"}
  /\ batch \subseteq Record
  /\ acked \subseteq Keys
  /\ leftOver \in BOOLEAN
  /\ awaiting \in Record \cup {None}
  /\ wire \subseteq Record
  /\ answered \in BOOLEAN
  /\ board \in [RowIds -> Server!BoardPost \cup {NoPost}]
  /\ text \in [RowIds -> Texts \cup {None}]
  /\ confirmed \subseteq Draft

Blank(status) == [status |-> status, body |-> None, key |-> None]

Init ==
  /\ composer = Blank("closed") /\ discarding = FALSE /\ draft = None
  /\ pending = {} /\ stored = {} /\ queued = None /\ job = None
  /\ work = "idle" /\ batch = {} /\ acked = {} /\ leftOver = FALSE
  /\ awaiting = None /\ wire = {} /\ answered = FALSE
  /\ Server!Init /\ text = [i \in RowIds |-> None]
  /\ confirmed = {}

(***************************************************************************)
(* The composer                                                            *)
(***************************************************************************)

\* build(): a stored draft comes back with its key.
OpenComposer ==
  /\ composer.status = "closed"
  /\ composer' = IF draft = None THEN Blank("editing")
                 ELSE [status |-> "editing", body |-> draft.body,
                       key |-> draft.key]
  /\ UNCHANGED <<discarding, draft, outboxVars, networkVars, serverVars, confirmed>>

Unheard(j) == IF j = None THEN None ELSE [j EXCEPT !.heard = FALSE]

\* The screen is left: the controller is disposed and whatever awaits in it
\* throws when it next uses its ref.
CloseComposer ==
  /\ composer.status # "closed"
  /\ composer' = Blank("closed")
  /\ discarding' = FALSE
  /\ queued' = Unheard(queued)
  /\ job' = Unheard(job)
  /\ UNCHANGED <<draft, pending, stored, work, batch, acked, leftOver,
                 networkVars, serverVars, confirmed>>

KeysOf(records) == {r.key : r \in records}

UsedKeys ==
  {composer.key} \cup KeysOf(pending \cup wire)
  \cup {j.key : j \in {queued, job} \ {None}}
  \cup {board[i].origin : i \in {j \in RowIds : board[j] # NoPost}}
  \cup (IF draft = None THEN {} ELSE {draft.key})

\* The key of a fresh draft is one that was never used.
Unused == Keys \ UsedKeys

FreshKey == CHOOSE k \in Unused : TRUE

\* updateBody and the _persistDraft it awaits.
Edit(body) ==
  /\ composer.status \in {"editing", "success", "failure"}
  /\ body # composer.body
  /\ IF body = None
     THEN /\ composer' = [composer EXCEPT !.body = None]
          /\ draft' = None
     ELSE LET k == IF composer.key = None THEN FreshKey ELSE composer.key
          IN /\ composer.key = None => Unused # {}
             /\ composer' = [composer EXCEPT !.body = body, !.key = k]
             /\ draft' = [key |-> k, body |-> body]
  /\ UNCHANGED <<discarding, outboxVars, networkVars, serverVars, confirmed>>

\* discard() up to `await clearDraft()`.
Discard ==
  /\ composer.status \in {"editing", "success", "failure"}
  /\ ~discarding
  /\ discarding' = TRUE
  /\ draft' = None
  /\ UNCHANGED <<composer, outboxVars, networkVars, serverVars, confirmed>>

\* discard() after it: whatever the state is by now is dropped.  The outbox is
\* not told.
Discarded ==
  /\ discarding
  /\ discarding' = FALSE
  /\ composer' = Blank("editing")
  /\ UNCHANGED <<draft, outboxVars, networkVars, serverVars, confirmed>>

(***************************************************************************)
(* submit() and the outbox                                                 *)
(***************************************************************************)

\* submit() as far as the outbox's tail future.
Submit ==
  /\ composer.status \in {"editing", "success", "failure"}
  /\ composer.body # None
  /\ queued = None
  /\ composer' = [composer EXCEPT !.status = "submitting"]
  /\ queued' = [key |-> composer.key, body |-> composer.body, heard |-> TRUE]
  /\ UNCHANGED <<discarding, draft, pending, stored, job, work, batch, acked,
                 leftOver, networkVars, serverVars, confirmed>>

NewRecord(j) == [key |-> j.key, body |-> j.body, attempts |-> 0]

\* What follows _enqueue: submit() calls drain(), unless its ref is dead.
GoOn(j) ==
  IF j.heard
  THEN /\ job' = j
       /\ work' = "sending"
       /\ batch' = pending'
       /\ acked' = {}
       /\ leftOver' = FALSE
  ELSE /\ job' = None
       /\ work' = "idle"
       /\ UNCHANGED <<batch, acked, leftOver>>

\* Mutant: the record of an earlier attempt is replaced by a second one.
EnqueueAgain ==
  /\ queued # None
  /\ work = "idle"
  /\ queued' = None
  /\ pending' = pending \cup {NewRecord(queued)}
  /\ job' = queued
  /\ work' = "saving"
  /\ UNCHANGED <<stored, batch, acked, leftOver, composerVars, networkVars,
                 serverVars, confirmed>>

\* _enqueue: a record with the draft's key is left as it is.
Enqueue ==
  /\ queued # None
  /\ work = "idle"
  /\ queued' = None
  /\ \/ /\ queued.key \in KeysOf(pending)
        /\ pending' = pending
        /\ GoOn(queued)
     \/ /\ queued.key \notin KeysOf(pending)
        /\ pending' = pending \cup {NewRecord(queued)}
        /\ job' = queued
        /\ work' = "saving"
        /\ UNCHANGED <<batch, acked, leftOver>>
  /\ UNCHANGED <<stored, composerVars, networkVars, serverVars, confirmed>>

\* Its _persist is done.
Enqueued ==
  /\ work = "saving"
  /\ stored' = pending
  /\ pending' = pending
  /\ GoOn(job)
  /\ UNCHANGED <<queued, composerVars, networkVars, serverVars, confirmed>>

\* _drain: the next record of the batch goes out (the code takes the oldest
\* first; nothing below depends on the order).
Send ==
  /\ work = "sending"
  /\ awaiting = None
  /\ \E r \in batch :
       /\ awaiting' = r
       /\ wire' = wire \cup {r}
       /\ batch' = batch \ {r}
  /\ answered' = FALSE
  /\ UNCHANGED <<pending, stored, queued, job, work, acked, leftOver,
                 composerVars, serverVars, confirmed>>

Others(k) == {r \in pending : r.key # k}

\* The repository answers: the record leaves the queue in memory.
Acknowledged ==
  /\ work = "sending"
  /\ awaiting # None
  /\ answered
  /\ acked' = acked \cup {awaiting.key}
  /\ pending' = Others(awaiting.key)
  /\ awaiting' = None
  /\ answered' = FALSE
  /\ UNCHANGED <<wire, batch, stored, queued, job, work, leftOver, composerVars,
                 serverVars, confirmed>>

\* Mutant: a record that could not be sent is dropped.
GiveUpAndDrop ==
  /\ work = "sending"
  /\ awaiting # None
  /\ pending' = Others(awaiting.key)
  /\ awaiting' = None
  /\ answered' = FALSE
  /\ UNCHANGED <<wire, batch, stored, work, queued, job, acked, leftOver,
                 composerVars, serverVars, confirmed>>

\* attempts + 1; the model stops counting at MaxAttempts.
OneMore(n) == IF n < MaxAttempts THEN n + 1 ELSE n

Retried(r, k) ==
  [r EXCEPT !.attempts = IF r.key = k THEN OneMore(@) ELSE @]

\* Mutant: a record that was tried counts as acknowledged.
GiveUpAsSent ==
  /\ work = "sending"
  /\ awaiting # None
  /\ acked' = acked \cup {awaiting.key}
  /\ pending' = Others(awaiting.key)
  /\ awaiting' = None
  /\ answered' = FALSE
  /\ UNCHANGED <<wire, batch, stored, queued, job, work, leftOver, composerVars,
                 serverVars, confirmed>>

\* A timeout or an error: the record stays, with one more attempt.
GiveUp ==
  /\ work = "sending"
  /\ awaiting # None
  /\ pending' = {Retried(r, awaiting.key) : r \in pending}
  /\ awaiting' = None
  /\ answered' = FALSE
  /\ UNCHANGED <<wire, batch, stored, work, queued, job, acked, leftOver,
                 composerVars, serverVars, confirmed>>

\* Every record was tried: _persist.
EndDrain ==
  /\ work = "sending"
  /\ awaiting = None
  /\ batch = {}
  /\ stored' = pending
  /\ work' = "reporting"
  /\ UNCHANGED <<pending, queued, job, batch, acked, leftOver, composerVars,
                 networkVars, serverVars, confirmed>>

\* Mutant: whatever was in the queue, the composer reports a success.
ReportAnyway ==
  /\ work = "reporting"
  /\ job.heard
  /\ draft' = None
  /\ work' = "clearing"
  /\ UNCHANGED <<composer, discarding, pending, stored, queued, job, batch,
                 acked, leftOver, networkVars, serverVars, confirmed>>

\* submit() has the report; its key is acknowledged: `await clearDraft()`.
Published ==
  /\ work = "reporting"
  /\ job.heard /\ job.key \in acked
  /\ draft' = None
  /\ work' = "clearing"
  /\ UNCHANGED <<composer, discarding, pending, stored, queued, job, batch,
                 acked, leftOver, networkVars, serverVars, confirmed>>

EndJob ==
  /\ job' = None
  /\ work' = "idle"
  /\ acked' = {}
  /\ UNCHANGED <<discarding, pending, stored, queued, batch, leftOver,
                 networkVars, serverVars>>

\* ... is done: the user is shown a success and a blank composer.
Confirmed ==
  /\ work = "clearing"
  /\ composer' = IF job.heard THEN Blank("success") ELSE composer
  /\ confirmed' = IF job.heard
                  THEN confirmed \cup {[key |-> job.key, body |-> job.body]}
                  ELSE confirmed
  /\ EndJob
  /\ UNCHANGED draft

\* Mutant: a post that was not acknowledged loses its draft.
NotPublishedClearsDraft ==
  /\ work = "reporting"
  /\ ~(job.heard /\ job.key \in acked)
  /\ composer' = IF job.heard THEN [composer EXCEPT !.status = "failure"]
                 ELSE composer
  /\ draft' = None
  /\ EndJob
  /\ UNCHANGED confirmed

\* Mutant: after a failure isSubmitting is not reset.
NotPublishedUnnoticed ==
  /\ work = "reporting"
  /\ ~(job.heard /\ job.key \in acked)
  /\ EndJob
  /\ UNCHANGED <<composer, draft, confirmed>>

\* The key is not acknowledged: the composer keeps the text.  Without its
\* composer the report is lost.
NotPublished ==
  /\ work = "reporting"
  /\ ~(job.heard /\ job.key \in acked)
  /\ composer' = IF job.heard THEN [composer EXCEPT !.status = "failure"]
                 ELSE composer
  /\ EndJob
  /\ UNCHANGED <<draft, confirmed>>

(***************************************************************************)
(* The network, the service, the system                                    *)
(***************************************************************************)

FreeRows == {i \in RowIds : board[i] = NoPost}

NextRow == CHOOSE i \in FreeRows : TRUE

\* A request reaches the service, perhaps long after the client gave up on it.
\* One that is lost stays in `wire` for ever; when an answer is lost the client
\* gives up.
Serve(r) ==
  /\ wire' = wire \ {r}
  /\ \/ /\ Server!LiveFor(Author, r.key) # {}
        /\ UNCHANGED serverVars
     \/ /\ FreeRows # {}
        /\ Server!Publish(NextRow, Author, r.key)
        /\ text' = [text EXCEPT ![NextRow] = r.body]
  /\ answered' = (answered \/ r = awaiting)
  /\ UNCHANGED <<awaiting, composerVars, outboxVars, confirmed>>

\* The author deletes a post from the feed.
DeletePost(i) ==
  /\ board[i] # NoPost /\ ~board[i].deleted
  /\ Server!Retract(i)
  /\ UNCHANGED <<text, composerVars, outboxVars, networkVars, confirmed>>

\* The app is killed and launched again: what is on disk is what is left.
\* The queue is read when the outbox is first used, and nothing else writes
\* it before that.
Kill ==
  /\ composer' = Blank("closed") /\ discarding' = FALSE
  /\ pending' = stored
  /\ queued' = None /\ job' = None /\ work' = "idle" /\ batch' = {}
  /\ acked' = {} /\ leftOver' = (stored # {})
  /\ awaiting' = None /\ answered' = FALSE
  /\ UNCHANGED <<draft, stored, wire, serverVars, confirmed>>

Outbox ==
  \/ Enqueue \/ Enqueued \/ Send \/ Acknowledged \/ GiveUp \/ EndDrain
  \/ Published \/ Confirmed \/ NotPublished

Next ==
  \/ OpenComposer \/ CloseComposer
  \/ \E body \in Texts \cup {None} : Edit(body)
  \/ Discard \/ Discarded \/ Submit
  \/ Outbox
  \/ \E r \in wire : Serve(r)
  \/ \E i \in RowIds : DeletePost(i)
  \/ Kill

\* What the event loop, the timeouts of dio_factory.dart and the disk owe.
\* The user, the network and the service owe nothing.
Spec == Init /\ [][Next]_vars /\ WF_vars(Outbox) /\ WF_vars(Discarded)

-----------------------------------------------------------------------------
(***************************************************************************)
(* Properties                                                              *)
(***************************************************************************)

\* A success is never shown for a post the service does not have, whatever
\* was lost or killed on the way.
NoFalseSuccess == \A c \in confirmed : RowsOf(c.key) # {}

\* Why: everybody between the service and the user who believes that a post is
\* published is right, and what left the queue in memory is published.
Truthful ==
  /\ composer.body # None => composer.key # None
  /\ work = "idle" <=> job = None
  /\ answered /\ awaiting # None => RowsOf(awaiting.key) # {}
  /\ \A k \in acked : RowsOf(k) # {}
  /\ work = "clearing" /\ job.heard => RowsOf(job.key) # {}
  /\ \A k \in KeysOf(stored) : k \in KeysOf(pending) \/ RowsOf(k) # {}
  /\ NoFalseSuccess

\* What the composer shows is what a restart brings back, also while a submit
\* is in flight and after it failed (A4, A5).
DraftSurvives ==
  composer.body # None /\ ~discarding /\ work # "clearing" =>
    draft = [key |-> composer.key, body |-> composer.body]

\* A post that reached the queue on disk stays there, across kills, lost
\* requests and failing neighbours, until the service has it.
StaysQueuedUntilPublished ==
  [][ \A k \in Keys :
        k \in KeysOf(stored) /\ k \notin KeysOf(stored') => RowsOf(k) # {}]_vars

OnePlace(records) == \A r, s \in records : r.key = s.key => r = s

\* A draft has at most one place in the queue, in memory and on disk, and
\* between two jobs a kill changes nothing in it.
QueueIsSound ==
  /\ TypeOK
  /\ OnePlace(pending) /\ OnePlace(stored)
  /\ work \in {"idle", "reporting", "clearing"} => stored = pending

\* The spinner stops: every submit() ends.
SubmitEnds == composer.status = "submitting" ~> composer.status # "submitting"

\* updateBody: "the user's text is never lost".  The text of a submit() that
\* was confirmed is the text that was published.
ConfirmedTextIsPublished ==
  \A c \in confirmed : \E i \in RowsOf(c.key) : text[i] = c.body

\* CommunityPendingPost.attempts: "the server-side idempotency-key dedupe
\* makes a double-submit impossible regardless of how many retries fire".
NoDoubleSubmit ==
  \A i, j \in RowIds :
    board[i] # NoPost /\ board[j] # NoPost /\ board[i].origin = board[j].origin
      => i = j

\* The outbox is drained at "composer submit, app-launch, manual
\* pull-to-refresh": after a launch a waiting post is tried.
LaunchDrains == leftOver ~> ~leftOver
=============================================================================
