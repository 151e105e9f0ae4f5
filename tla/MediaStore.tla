----------------------------- MODULE MediaStore -----------------------------
(***************************************************************************)
(* backend/app/community/media/pipeline.py, store.py and attach.py with    *)
(* routers/media.py: rows of uploads in the database, files named by their *)
(* digest on the disk, and the posts that media hangs on.                  *)
(*                                                                         *)
(* A request is cut where another one may come in between: at each query,  *)
(* at the write of a locked row, at the file operation, at the commit.  An *)
(* upload inserts its row in the transaction that ends with it, so other   *)
(* requests see it in its last state only.                                 *)
(*                                                                         *)
(* Left out: sniffing, sizes and transcoding, which decide between a       *)
(* digest and a rejection; the rate limit; who may read.                   *)
(***************************************************************************)

EXTENDS Naturals, Sequences, FiniteSets, Requests

CONSTANTS
  Profiles, Digests, RowIds, Posts,
  FirstStates,     \* of the rows: {"ready"}, and "review" where it is required
  MaxItems,        \* Settings.media_max_items_per_profile
  MaxAttachments   \* MAX_MEDIA_PER_POST

VARIABLES
  rows,       \* community_media_uploads, as committed
  files,      \* digests that have a file
  posts,      \* the attachments each committed post was made with
  disturbed,  \* history: digests a delete of which overlapped another request, or
              \* whose file some request touched without a commit
  contended   \* history: rows that two posts wanted at the same time

mediaVars == <<rows, files, posts, job, disturbed, contended, requests>>

Row == [owner : Profiles, state : {"review", "ready", "rejected", "deleted"},
        digest : Digests \cup {None}, post : Posts \cup {None}, position : Nat]

Post == [author : Profiles, media : Seq(RowIds)]

Ops == {"idle", "upload", "delete", "attach"}

\* ids are the rows the request is about, seen what it has read of them; others
\* is _other_references; new the row of an upload.
MediaIdle ==
  [op |-> "idle", at |-> "idle", who |-> None, ids |-> << >>, seen |-> << >>,
   new |-> None, others |-> FALSE, post |-> None]

ASSUME MediaStoreAssumptions ==
  /\ None \notin Digests \cup Posts \cup Profiles \cup Row \cup Post
  /\ FirstStates \subseteq {"ready", "review"}
  /\ MaxItems \in Nat /\ MaxAttachments \in Nat /\ MaxRequests \in Nat
  /\ IsFiniteSet(Handlers) /\ Handlers # {}

MediaTypeOK ==
  /\ rows \in [RowIds -> Row \cup {None}]
  /\ files \subseteq Digests
  /\ posts \in [Posts -> Post \cup {None}]
  /\ \A h \in Handlers :
       /\ job[h].op \in Ops
       /\ job[h].ids \in Seq(RowIds)
       /\ Len(job[h].seen) \in {0, Len(job[h].ids)}
       /\ job[h].new \in Row \cup {None}
  /\ disturbed \subseteq Digests /\ contended \subseteq RowIds
  /\ requests \in 0 .. MaxRequests

MediaInit ==
  /\ rows = [r \in RowIds |-> None]
  /\ files = {}
  /\ posts = [p \in Posts |-> None]
  /\ job = [h \in Handlers |-> MediaIdle]
  /\ disturbed = {} /\ contended = {}
  /\ requests = 0

(***************************************************************************)
(* Requests and locks.                                                     *)
(***************************************************************************)

Begin(h, j) ==
  /\ job[h] = MediaIdle /\ requests < MaxRequests
  /\ requests' = requests + 1
  /\ job' = [job EXCEPT ![h] = j]

Move(h, j) == job' = [job EXCEPT ![h] = j] /\ UNCHANGED requests

Finish(h) == Move(h, MediaIdle)

Digest(j) == CASE j.op = "upload" /\ j.new # None -> j.new.digest
               [] j.op = "delete"                 -> j.seen[1].digest
               [] OTHER                           -> None

Working(d, ops) == \E h \in Handlers : job[h].op \in ops /\ Digest(job[h]) = d

Ids(j) == { j.ids[i] : i \in DOMAIN j.ids }

\* Rows this request has written and not committed.
Locked(j) == IF j.at \in {"unlinking", "committing"} /\ j.op # "upload" THEN Ids(j) ELSE {}
Free(h, ids) == \A k \in Handlers \ {h} : Locked(job[k]) \cap ids = {}

Disturb(ds) == disturbed' = disturbed \cup (ds \ {None})

(***************************************************************************)
(* ingest: the quota, then the row with its verdict, then the file.        *)
(***************************************************************************)

Live(p) == { r \in RowIds : rows[r] # None /\ rows[r].owner = p
                            /\ rows[r].state \notin {"rejected", "deleted"} }

\* A mutant: the quota allows one row too many.
CountInclusive(h, p) ==
  /\ Cardinality(Live(p)) <= MaxItems
  /\ Begin(h, [MediaIdle EXCEPT !.op = "upload", !.at = "scanning", !.who = p])
  /\ UNCHANGED <<rows, files, posts, disturbed, contended>>

CountLive(h, p) ==
  /\ Cardinality(Live(p)) < MaxItems
  /\ Begin(h, [MediaIdle EXCEPT !.op = "upload", !.at = "scanning", !.who = p])
  /\ UNCHANGED <<rows, files, posts, disturbed, contended>>

\* A mutant: the row is left in the state the scanner found it in.
ScannedRow(j, state, d) ==
  [owner |-> j.who, state |-> "scanning", digest |-> d, post |-> None, position |-> 0]

NewRow(j, state, d) ==
  [owner |-> j.who, state |-> state, digest |-> d, post |-> None, position |-> 0]

\* The scanner or the encoder refuses: the row is kept and says so.
Reject(h) ==
  /\ job[h].op = "upload" /\ job[h].at = "scanning"
  /\ Move(h, [job[h] EXCEPT !.at = "committing", !.new = NewRow(job[h], "rejected", None)])
  /\ UNCHANGED <<rows, files, posts, disturbed, contended>>

Encode(h, d, state) ==
  /\ job[h].op = "upload" /\ job[h].at = "scanning"
  /\ Move(h, [job[h] EXCEPT !.at = "storing", !.new = NewRow(job[h], state, d)])
  /\ Disturb(IF Working(d, {"delete"}) THEN {d} ELSE {})
  /\ UNCHANGED <<rows, files, posts, contended>>

\* FileMediaStore.put: nothing to do when the file is there.
Put(h) ==
  /\ job[h].op = "upload" /\ job[h].at = "storing"
  /\ files' = files \cup {job[h].new.digest}
  /\ Move(h, [job[h] EXCEPT !.at = "committing"])
  /\ UNCHANGED <<rows, posts, disturbed, contended>>

CommitUpload(h) ==
  /\ job[h].op = "upload" /\ job[h].at = "committing"
  /\ \E r \in RowIds : rows[r] = None /\ rows' = [rows EXCEPT ![r] = job[h].new]
  /\ Finish(h)
  /\ UNCHANGED <<files, posts, disturbed, contended>>

\* release: a parked row becomes ready.
Release(r) ==
  /\ rows[r] # None /\ rows[r].state = "review"
  /\ rows' = [rows EXCEPT ![r].state = "ready"]
  /\ UNCHANGED <<files, posts, job, disturbed, contended, requests>>

(***************************************************************************)
(* delete: row and references are read, the row is written, the file goes, *)
(* then the transaction commits.                                           *)
(***************************************************************************)

\* A row in review has no transition to deleted, a deleted one is left alone.
StartDelete(h, r) ==
  /\ rows[r] # None /\ rows[r].state \in {"ready", "rejected"}
  /\ Begin(h, [MediaIdle EXCEPT !.op = "delete", !.at = "counting", !.who = rows[r].owner,
                           !.ids = <<r>>, !.seen = <<rows[r]>>])
  /\ Disturb(IF Working(rows[r].digest, Ops) THEN {rows[r].digest} ELSE {})
  /\ UNCHANGED <<rows, files, posts, contended>>

References(d, r) == { q \in RowIds \ {r} : rows[q] # None /\ rows[q].digest = d
                                          /\ rows[q].state # "deleted" }

\* A mutant: only the rows of the same owner are counted.
CountOwn(h) ==
  LET j == job[h] IN
  /\ j.op = "delete" /\ j.at = "counting"
  /\ Move(h, [j EXCEPT !.at = "marking",
       !.others = \E q \in References(Digest(j), j.ids[1]) : rows[q].owner = j.who])
  /\ UNCHANGED <<rows, files, posts, disturbed, contended>>

CountReferences(h) ==
  LET j == job[h] IN
  /\ j.op = "delete" /\ j.at = "counting"
  /\ Move(h, [j EXCEPT !.at = "marking",
       !.others = Digest(j) # None /\ References(Digest(j), j.ids[1]) # {}])
  /\ UNCHANGED <<rows, files, posts, disturbed, contended>>

\* The UPDATE waits for whoever has written the row.
MarkDeleted(h) ==
  LET j == job[h] IN
  /\ j.op = "delete" /\ j.at = "marking" /\ Free(h, Ids(j))
  /\ Move(h, [j EXCEPT !.at = IF Digest(j) = None \/ j.others THEN "committing"
                              ELSE "unlinking"])
  /\ UNCHANGED <<rows, files, posts, disturbed, contended>>

\* FileMediaStore.delete; an error of the disk is swallowed.
Unlink(h) ==
  LET j == job[h] IN
  /\ j.op = "delete" /\ j.at = "unlinking"
  /\ Move(h, [j EXCEPT !.at = "committing"])
  /\ \/ files' = files \ {Digest(j)} /\ UNCHANGED disturbed
     \/ UNCHANGED files /\ Disturb({Digest(j)})
  /\ UNCHANGED <<rows, posts, contended>>

\* post_id is written only where the row was read with one.
CommitDelete(h) ==
  LET j == job[h] IN
  /\ j.op = "delete" /\ j.at = "committing"
  /\ rows' = [rows EXCEPT ![j.ids[1]].state = "deleted",
                          ![j.ids[1]].post = IF j.seen[1].post # None THEN None ELSE @]
  /\ Finish(h)
  /\ UNCHANGED <<files, posts, disturbed, contended>>

(***************************************************************************)
(* attach_media_to_post, inside the transaction that creates the post.     *)
(***************************************************************************)

\* A mutant: the owner of the media is not compared with the author.
AttachableToAll(p, r) ==
  rows[r] # None /\ rows[r].state = "ready" /\ rows[r].post = None

Attachable(p, r) ==
  rows[r] # None /\ rows[r].owner = p /\ rows[r].state = "ready" /\ rows[r].post = None

Lists == { l \in UNION { [1 .. n -> RowIds] : n \in 1 .. MaxAttachments } :
             \A i, k \in DOMAIN l : l[i] = l[k] => i = k }

StartAttach(h, p, x, list) ==
  /\ posts[x] = None /\ \A k \in Handlers : job[k].post # x
  /\ \A i \in DOMAIN list : Attachable(p, list[i])
  /\ Begin(h, [MediaIdle EXCEPT !.op = "attach", !.at = "marking", !.who = p, !.post = x,
                           !.ids = list, !.seen = [i \in DOMAIN list |-> rows[list[i]]]])
  /\ contended' = contended \cup
       { list[i] : i \in { i \in DOMAIN list : \E k \in Handlers \ {h} :
                             job[k].op = "attach" /\ list[i] \in Ids(job[k]) } }
  /\ UNCHANGED <<rows, files, posts, disturbed>>

\* Rows are written in the order of their keys: no two requests wait for each other.
MarkAttached(h) ==
  LET j == job[h] IN
  /\ j.op = "attach" /\ j.at = "marking" /\ Free(h, Ids(j))
  /\ Move(h, [j EXCEPT !.at = "committing"])
  /\ UNCHANGED <<rows, files, posts, disturbed, contended>>

\* A mutant: every attachment gets the position of the list's end.
PlaceLast(j, i, row) == [row EXCEPT !.post = j.post, !.position = Len(j.ids)]

\* A position equal to the one that was read is not part of the UPDATE.
Place(j, i, row) ==
  [row EXCEPT !.post = j.post, !.position = IF j.seen[i].position = i - 1 THEN @ ELSE i - 1]

CommitPost(h) ==
  LET j == job[h] IN
  /\ j.op = "attach" /\ j.at = "committing"
  /\ posts' = [posts EXCEPT ![j.post] = [author |-> j.who, media |-> j.ids]]
  /\ rows' = [r \in RowIds |->
       IF r \in Ids(j) THEN LET i == CHOOSE i \in DOMAIN j.ids : j.ids[i] = r
                            IN  Place(j, i, rows[r])
       ELSE rows[r]]
  /\ Finish(h)
  /\ UNCHANGED <<files, disturbed, contended>>

\* The process dies or the commit fails; what was done to the disk stays.
Cut(h) ==
  /\ job[h] # MediaIdle /\ Finish(h)
  /\ Disturb(IF job[h].at = "committing" THEN {Digest(job[h])} ELSE {})
  /\ UNCHANGED <<rows, files, posts, contended>>

MediaNext ==
  \/ \E h \in Handlers :
       \/ \E p \in Profiles : CountLive(h, p)
       \/ \E d \in Digests, s \in FirstStates : Encode(h, d, s)
       \/ Reject(h) \/ Put(h) \/ CommitUpload(h)
       \/ \E r \in RowIds : StartDelete(h, r)
       \/ CountReferences(h) \/ MarkDeleted(h) \/ Unlink(h) \/ CommitDelete(h)
       \/ \E p \in Profiles, x \in Posts, list \in Lists : StartAttach(h, p, x, list)
       \/ MarkAttached(h) \/ CommitPost(h) \/ Cut(h)
  \/ \E r \in RowIds : Release(r)

MediaSpec == MediaInit /\ [][MediaNext]_mediaVars

(***************************************************************************)
(* Properties.                                                             *)
(***************************************************************************)

LiveReferences(d) == { r \in RowIds : rows[r] # None /\ rows[r].digest = d
                                      /\ rows[r].state # "deleted" }

\* The reference count is exact for whoever is left alone: once no request works on
\* a digest, its file is there exactly while some row that is not deleted names it -
\* unless a delete of it overlapped another request, or one touched the disk and
\* did not commit (pipeline.delete, store.delete).
FilesMatchRows ==
  \A d \in Digests \ disturbed :
    /\ LiveReferences(d) # {} /\ ~Working(d, {"delete"}) => d \in files
    /\ d \in files /\ ~Working(d, Ops) => LiveReferences(d) # {}

\* A profile holds at most as many live rows as the quota and the other threads
\* allow: each counts before it inserts (ingest).
QuotaOverrun ==
  \A p \in Profiles : Cardinality(Live(p)) <= MaxItems + (Cardinality(Handlers) - 1)

\* A post keeps the media it was published with, each at its place of the list, as
\* long as the owner has not deleted it and no other post wanted it at the time
\* (attach.py, rule 3).
KeepsItsMedia ==
  \A x \in Posts : posts[x] # None =>
    \A i \in DOMAIN posts[x].media :
      LET r == posts[x].media[i] IN
      r \notin contended /\ rows[r].state = "ready" =>
        rows[r].post = x /\ rows[r].position = i - 1

\* Media is shown by posts of its own owner only, whatever overlaps (attach.py,
\* rule 1).
AttachedMediaIsOwn ==
  \A r \in RowIds : rows[r] # None /\ rows[r].post # None =>
    posts[rows[r].post] # None /\ posts[rows[r].post].author = rows[r].owner

\* Both, with the type invariant: what holds of the rows whatever overlaps.
RowsAreSound == MediaTypeOK /\ QuotaOverrun /\ AttachedMediaIsOwn

\* What pipeline.py says of a crash, "rather than a row pointing at nothing".
RowsPointAtFiles ==
  \A r \in RowIds : rows[r] # None /\ rows[r].state \in {"ready", "review"} =>
    \/ rows[r].digest \in files
    \/ \E h \in Handlers : job[h].op = "delete" /\ r \in Ids(job[h])

\* What attach.py says: a row attached to a post is not attached to another.
AttachedOnce ==
  [][ \A r \in RowIds : rows[r] # None /\ rows[r].post # None
        => rows'[r].post \in {rows[r].post, None} ]_mediaVars
=============================================================================
