---------------------------- MODULE MediaUpload ----------------------------
(***************************************************************************)
(* backend/app/community/services/media_upload_service.py: uploads through *)
(* a signed URL.  An intent makes a row and hands out the URL, the client  *)
(* puts the bytes into the bucket, finalize checks and accepts them,       *)
(* cancel and the sweep of orphans remove them.                            *)
(*                                                                         *)
(* The row is a transaction's, the bucket is not: what a request does to   *)
(* it happens at once and stays.  A row is loaded, judged and written      *)
(* later, by its key only.  Nothing in the repository calls the service    *)
(* yet; a caller may commit or roll back where the service raises.         *)
(*                                                                         *)
(* A client puts the same bytes when it tries again.  Of them it matters   *)
(* whether they are what the intent declared (Declared).                   *)
(***************************************************************************)

EXTENDS Naturals, FiniteSets, Requests

CONSTANTS
  Uploads,       \* ids of intents; the key of the object is derived from it
  Declared,      \* those whose client puts what it has declared
  MaxLive        \* MAX_LIVE_UPLOADS_PER_PROFILE, of one profile

VARIABLES
  state,      \* upload_state of each committed row
  bucket,     \* ids whose object is there
  expired,    \* ids whose expires_at has passed
  due,        \* ids whose retention_until has passed
  swept,      \* history: ids that were due when a finished sweep began
  overlapped  \* history: ids two requests worked on at once, or put to while or
              \* after a request worked on them

uploadVars == <<state, bucket, expired, due, job, swept, overlapped, requests>>

UploadStates == {"pending", "uploaded", "finalized", "cancelled", "failed"}
Open == {"pending", "uploaded"}

\* ids is what the request has loaded and will write, todo whose objects it has
\* still to delete, to the state it will leave, late what a sweep began with.
UploadIdle ==
  [op |-> "idle", at |-> "idle", ids |-> {}, todo |-> {}, to |-> None, late |-> {}]

UploadJob ==
  [op : {"idle", "intent", "finalize", "cancel", "sweep"},
   at : {"idle", "checking", "deleting", "writing"},
   ids : SUBSET Uploads, todo : SUBSET Uploads,
   to : UploadStates \cup {None}, late : SUBSET Uploads]

ASSUME MediaUploadAssumptions ==
  /\ Declared \subseteq Uploads /\ None \notin UploadStates
  /\ MaxLive \in Nat \ {0} /\ MaxRequests \in Nat
  /\ IsFiniteSet(Handlers)

UploadTypeOK ==
  /\ state \in [Uploads -> UploadStates \cup {None}]
  /\ bucket \subseteq Uploads /\ due \subseteq expired /\ expired \subseteq Uploads
  /\ job \in [Handlers -> UploadJob]
  /\ swept \subseteq due /\ overlapped \subseteq Uploads
  /\ requests \in 0 .. MaxRequests

UploadInit ==
  /\ state = [i \in Uploads |-> None]
  /\ bucket = {} /\ expired = {} /\ due = {}
  /\ job = [h \in Handlers |-> UploadIdle]
  /\ swept = {} /\ overlapped = {}
  /\ requests = 0

Exists(i) == state[i] # None
AtWork(i, H) == \E h \in H : i \in job[h].ids

\* Load some rows, which is where a request that overlaps another one is noted.
Load(h, j) ==
  /\ job[h] = UploadIdle /\ requests < MaxRequests
  /\ requests' = requests + 1
  /\ job' = [job EXCEPT ![h] = j]
  /\ overlapped' = overlapped \cup { i \in j.ids : AtWork(i, Handlers) }
  /\ UNCHANGED <<state, bucket, expired, due, swept>>

Go(h, j) == job' = [job EXCEPT ![h] = j] /\ UNCHANGED <<expired, due, overlapped, requests>>

(***************************************************************************)
(* create_upload_intent.                                                   *)
(***************************************************************************)

OpenUploads == { i \in Uploads : state[i] \in Open }

\* A mutant: a profile at its limit may still open one more.
CountOpenInclusive(h) ==
  /\ Cardinality(OpenUploads) <= MaxLive
  /\ Load(h, [UploadIdle EXCEPT !.op = "intent", !.at = "writing"])

CountOpen(h) ==
  /\ Cardinality(OpenUploads) < MaxLive
  /\ Load(h, [UploadIdle EXCEPT !.op = "intent", !.at = "writing"])

InsertIntent(h) ==
  /\ job[h].op = "intent"
  /\ \E i \in Uploads : ~Exists(i) /\ state' = [state EXCEPT ![i] = "pending"]
  /\ Go(h, UploadIdle) /\ UNCHANGED <<bucket, swept>>

(***************************************************************************)
(* The client, and time.                                                   *)
(***************************************************************************)

\* The bucket takes bytes as long as the URL is valid and knows nothing of rows.
PutBytes(i) ==
  /\ Exists(i) /\ i \notin expired /\ i \notin bucket
  /\ bucket' = bucket \cup {i}
  /\ overlapped' = overlapped \cup
       (IF AtWork(i, Handlers) \/ state[i] # "pending" THEN {i} ELSE {})
  /\ UNCHANGED <<state, expired, due, job, swept, requests>>

Expire(i) ==
  /\ Exists(i) /\ i \notin expired /\ expired' = expired \cup {i}
  /\ UNCHANGED <<state, bucket, due, job, swept, overlapped, requests>>

\* The retention window is much longer than the life of a URL.
FallDue(i) ==
  /\ i \in expired \ due /\ due' = due \cup {i}
  /\ UNCHANGED <<state, bucket, expired, job, swept, overlapped, requests>>

(***************************************************************************)
(* finalize_upload: the expiry, then what the bucket says of the object.   *)
(***************************************************************************)

StartFinalize(h, i) ==
  /\ state[i] \in Open
  /\ Load(h, IF i \in expired
             THEN [UploadIdle EXCEPT !.op = "finalize", !.at = "writing", !.ids = {i},
                                     !.to = "failed"]
             ELSE [UploadIdle EXCEPT !.op = "finalize", !.at = "checking", !.ids = {i}])

\* A mutant: an object is accepted whatever it is.
AcceptAny(i) == TRUE

\* Type, size and checksum are those of the intent.
Acceptable(i) == i \in Declared

HeadObject(h) ==
  LET j == job[h] IN
  /\ j.at = "checking"
  /\ \E i \in j.ids :
       Go(h, IF i \notin bucket THEN UploadIdle
             ELSE IF Acceptable(i) THEN [j EXCEPT !.at = "writing", !.to = "finalized"]
             ELSE [j EXCEPT !.at = "deleting", !.todo = {i}, !.to = "failed"])
  /\ UNCHANGED <<state, bucket, swept>>

(***************************************************************************)
(* cancel_upload and cleanup_orphan_uploads.                               *)
(***************************************************************************)

\* A failed upload may be cancelled.
StartCancel(h, i) ==
  /\ state[i] \in Open \cup {"failed"}
  /\ Load(h, [UploadIdle EXCEPT !.op = "cancel", !.at = "deleting", !.ids = {i}, !.todo = {i},
                                !.to = "cancelled"])

Orphans == { i \in due : state[i] \in Open }

\* A mutant: the sweep does not look at retention_until.
SweepEarly(h) ==
  /\ OpenUploads # {}
  /\ Load(h, [op |-> "sweep", at |-> "deleting", ids |-> OpenUploads, todo |-> OpenUploads,
              to |-> "cancelled", late |-> OpenUploads])

StartSweep(h) ==
  /\ due \ swept # {}
  /\ Load(h, [op |-> "sweep", at |-> IF Orphans = {} THEN "writing" ELSE "deleting",
              ids |-> Orphans, todo |-> Orphans, to |-> "cancelled", late |-> due])

(***************************************************************************)
(* What finalize, cancel and the sweep end with.                           *)
(***************************************************************************)

\* A mutant: the object is left to the life cycle rules of the bucket.
SkipDelete(h) ==
  /\ job[h].at = "deleting"
  /\ Go(h, [job[h] EXCEPT !.todo = {}, !.at = "writing"])
  /\ UNCHANGED <<state, bucket, swept>>

DeleteObject(h) ==
  LET j == job[h] IN
  /\ j.at = "deleting"
  /\ \E i \in j.todo :
       /\ bucket' = bucket \ {i}
       /\ Go(h, [j EXCEPT !.todo = @ \ {i}, !.at = IF j.todo = {i} THEN "writing" ELSE "deleting"])
  /\ UNCHANGED <<state, swept>>

WriteState(h) ==
  LET j == job[h] IN
  /\ j.at = "writing" /\ j.op # "intent"
  /\ state' = [i \in Uploads |-> IF i \in j.ids THEN j.to ELSE state[i]]
  /\ swept' = swept \cup j.late
  /\ Go(h, UploadIdle) /\ UNCHANGED bucket

\* A crash, or a caller that rolls back.
AbortUpload(h) ==
  /\ job[h] # UploadIdle
  /\ Go(h, UploadIdle) /\ UNCHANGED <<state, bucket, swept>>

UploadNext ==
  \/ \E h \in Handlers :
       \/ CountOpen(h) \/ InsertIntent(h) \/ StartSweep(h)
       \/ \E i \in Uploads : StartFinalize(h, i) \/ StartCancel(h, i)
       \/ HeadObject(h) \/ DeleteObject(h) \/ WriteState(h) \/ AbortUpload(h)
  \/ \E i \in Uploads : PutBytes(i) \/ Expire(i) \/ FallDue(i)

UploadSpec == UploadInit /\ [][UploadNext]_uploadVars

(***************************************************************************)
(* Properties.                                                             *)
(***************************************************************************)

\* A finalized upload has its object, and one that was declared, unless another
\* request worked on it at the same time (finalize_upload, cancel_upload).
FinalizedHasItsObject ==
  \A i \in Uploads \ overlapped : state[i] = "finalized" => i \in bucket \cap Declared

\* What was cancelled keeps no bytes in the bucket, and what has failed keeps none
\* while its URL is valid (a finalize after that deletes nothing), unless requests
\* or late bytes overlapped.
BytesHaveAnOwner ==
  \A i \in Uploads \ overlapped :
    /\ state[i] = "cancelled" => i \notin bucket
    /\ state[i] = "failed" /\ i \in bucket => i \in expired

\* The two sides of it: rows and bucket agree on what is left of an upload.
BucketMatchesRows == FinalizedHasItsObject /\ BytesHaveAnOwner

\* A profile has at most as many open uploads as the limit and the other requests
\* allow: each counts before it inserts (create_upload_intent).
LiveOverrun == Cardinality(OpenUploads) <= MaxLive + (Cardinality(Handlers) - 1)

\* The type invariant with it.
WithinLimit == UploadTypeOK /\ LiveOverrun

\* What finalize_upload says of an expired upload: it is marked failed "so the
\* orphan-cleanup function will sweep the row".
SweptIsFreed ==
  \A i \in swept \ overlapped : state[i] # "finalized" => i \notin bucket

\* What cancel_upload says: "a finalized row is immutable".
FinalizedIsImmutable ==
  [][ \A i \in Uploads : state[i] = "finalized" => state'[i] = "finalized" ]_uploadVars
=============================================================================
