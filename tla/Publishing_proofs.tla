-------------------------- MODULE Publishing_proofs --------------------------
(***************************************************************************)
(* Proof that a success shown by the composer is never false, for any      *)
(* number of drafts, records, retries and kills.                           *)
(***************************************************************************)
EXTENDS Publishing, TLAPS

\* Every action but the service's leaves the rows alone, and with them what is
\* published.
LEMMA PublishedStays ==
  ASSUME UNCHANGED serverVars, NEW k
  PROVE  RowsOf(k)' = RowsOf(k)
  BY DEF serverVars, RowsOf

\* What the service does to the rows never unpublishes a key.
LEMMA RetractKeepsOrigins ==
  ASSUME board \in [RowIds -> Server!BoardPost \cup {NoPost}],
         NEW i \in RowIds, Server!Retract(i), NEW k
  PROVE  /\ RowsOf(k) # {} => RowsOf(k)' # {}
         /\ board' \in [RowIds -> Server!BoardPost \cup {NoPost}]
<1> DEFINE post == [author |-> board[i].author, origin |-> board[i].origin,
                   deleted |-> TRUE]
<1>1. board[i] \in Server!BoardPost
  BY DEF Server!Retract
<1>2. post \in Server!BoardPost /\ post.origin = board[i].origin
  BY <1>1 DEF Server!BoardPost
<1>3. post # NoPost
  BY <1>2, PublishingAssumptions DEF Server!BoardPost
<1>4. board' = [board EXCEPT ![i] = post]
  BY DEF Server!Retract
<1> HIDE DEF post
<1> QED
  BY <1>2, <1>3, <1>4 DEF RowsOf

LEMMA PublishKeepsOrigins ==
  ASSUME board \in [RowIds -> Server!BoardPost \cup {NoPost}],
         NEW i \in RowIds, NEW key \in Keys, Server!Publish(i, Author, key),
         NEW k
  PROVE  /\ RowsOf(k) # {} => RowsOf(k)' # {}
         /\ RowsOf(key)' # {}
         /\ board' \in [RowIds -> Server!BoardPost \cup {NoPost}]
<1> DEFINE post == [author |-> Author, origin |-> key, deleted |-> FALSE]
<1>1. post \in Server!BoardPost /\ post.origin = key
  BY DEF Server!BoardPost
<1>2. post # NoPost
  BY <1>1, PublishingAssumptions DEF Server!BoardPost
<1>3. board[i] = NoPost /\ board' = [board EXCEPT ![i] = post]
  BY DEF Server!Publish
<1> HIDE DEF post
<1> QED
  BY <1>1, <1>2, <1>3 DEF RowsOf

\* The inductive invariant: the queue is sound and everybody is truthful.
Sound == QueueIsSound /\ Truthful

LEMMA InitSound == Init => Sound
<1> SUFFICES ASSUME Init PROVE Sound
  OBVIOUS
<1>1. TypeOK
  BY PublishingAssumptions DEF Init, TypeOK, Blank, Composer, Server!Init
<1>2. QueueIsSound
  BY <1>1 DEF Init, QueueIsSound, OnePlace
<1>3. Truthful
  BY DEF Init, Truthful, Blank, KeysOf, NoFalseSuccess
<1> QED
  BY <1>2, <1>3 DEF Sound

LEMMA OpenComposerSound ==
  ASSUME Sound, OpenComposer
  PROVE  Sound'
<1>1. TypeOK'
  BY PublishingAssumptions
  DEF Sound, QueueIsSound, TypeOK, OpenComposer, Blank, Composer, Draft, composerVars,
      outboxVars, networkVars, serverVars
<1>2. QueueIsSound'
  BY <1>1
  DEF Sound, QueueIsSound, OnePlace, OpenComposer, composerVars,
      outboxVars, networkVars, serverVars
<1>3. Truthful'
  BY PublishingAssumptions
  DEF Sound, QueueIsSound, TypeOK, Truthful, OpenComposer, Blank, Draft, KeysOf, RowsOf,
      NoFalseSuccess, composerVars, outboxVars, networkVars, serverVars
<1> QED
  BY <1>2, <1>3 DEF Sound

\* Disposing of the composer changes what a job may do, not which it is.
LEMMA UnheardKeepsJob ==
  ASSUME NEW j \in Job \cup {None}
  PROVE  /\ Unheard(j) \in Job \cup {None}
         /\ Unheard(j) = None <=> j = None
         /\ j # None => ~Unheard(j).heard
<1>1. CASE j = None
  BY <1>1 DEF Unheard
<1>2. CASE j # None
  <2>1. j \in Job
    BY <1>2
  <2>2. Unheard(j) = [j EXCEPT !.heard = FALSE]
    BY <1>2 DEF Unheard
  <2>3. Unheard(j) \in Job /\ ~Unheard(j).heard
    BY <2>1, <2>2 DEF Job
  <2> QED
    BY <1>2, <2>3, PublishingAssumptions DEF Job
<1> QED
  BY <1>1, <1>2

LEMMA CloseComposerSound ==
  ASSUME Sound, CloseComposer
  PROVE  Sound'
<1>1. job' = Unheard(job) /\ queued' = Unheard(queued)
  BY DEF CloseComposer
<1>2. /\ job' \in Job \cup {None} /\ queued' \in Job \cup {None}
      /\ job' = None <=> job = None
      /\ job # None => ~job'.heard
  BY <1>1, UnheardKeepsJob DEF Sound, QueueIsSound, TypeOK
<1>3. TypeOK'
  BY <1>2
  DEF Sound, QueueIsSound, TypeOK, CloseComposer, Blank, Composer, networkVars,
      serverVars
<1>4. QueueIsSound'
  BY <1>3 DEF Sound, QueueIsSound, OnePlace, CloseComposer
<1>5. Truthful'
  BY <1>2
  DEF Sound, Truthful, CloseComposer, Blank, KeysOf, RowsOf, NoFalseSuccess,
      networkVars, serverVars
<1> QED
  BY <1>4, <1>5 DEF Sound

LEMMA EditSound ==
  ASSUME Sound, NEW body \in Texts \cup {None}, Edit(body)
  PROVE  Sound'
<1>1. composer \in Composer
  BY DEF Sound, QueueIsSound, TypeOK
<1>2. /\ composer' \in Composer
      /\ composer'.body # None => composer'.key # None
      /\ draft' \in Draft \cup {None}
  <2>1. CASE body = None
    <3>1. composer' = [composer EXCEPT !.body = None] /\ draft' = None
      BY <2>1 DEF Edit
    <3> QED
      BY <1>1, <3>1 DEF Composer
  <2>2. CASE body # None
    <3>1. PICK k \in Keys :
            /\ composer' = [composer EXCEPT !.body = body, !.key = k]
            /\ draft' = [key |-> k, body |-> body]
      <4> DEFINE k == IF composer.key = None THEN FreshKey ELSE composer.key
      <4>1. Unused # {} => FreshKey \in Keys
        BY DEF FreshKey, Unused
      <4>2. k \in Keys
        BY <1>1, <2>2, <4>1 DEF Edit, Composer
      <4> QED
        BY <2>2, <4>2 DEF Edit
    <3>2. body \in Texts
      BY <2>2
    <3> QED
      BY <1>1, <3>1, <3>2, PublishingAssumptions DEF Composer, Draft
  <2> QED
    BY <2>1, <2>2
<1>3. UNCHANGED <<discarding, outboxVars, networkVars, serverVars, confirmed>>
  BY DEF Edit
<1>4. TypeOK'
  BY <1>2, <1>3
  DEF Sound, QueueIsSound, TypeOK, outboxVars, networkVars, serverVars
<1>5. QueueIsSound'
  BY <1>3, <1>4 DEF Sound, QueueIsSound, OnePlace, outboxVars
<1>6. Truthful'
  BY <1>2, <1>3
  DEF Sound, Truthful, NoFalseSuccess, KeysOf, RowsOf, outboxVars, networkVars,
      serverVars
<1> QED
  BY <1>5, <1>6 DEF Sound

LEMMA DiscardSound ==
  ASSUME Sound, Discard
  PROVE  Sound'
<1>1. TypeOK'
  BY PublishingAssumptions
  DEF Sound, QueueIsSound, TypeOK, Discard, Composer, composerVars,
      outboxVars, networkVars, serverVars
<1>2. QueueIsSound'
  BY <1>1
  DEF Sound, QueueIsSound, OnePlace, Discard, composerVars,
      outboxVars, networkVars, serverVars
<1>3. Truthful'
  BY PublishingAssumptions
  DEF Sound, QueueIsSound, TypeOK, Truthful, Discard, KeysOf, RowsOf,
      NoFalseSuccess, composerVars, outboxVars, networkVars, serverVars
<1> QED
  BY <1>2, <1>3 DEF Sound

LEMMA DiscardedSound ==
  ASSUME Sound, Discarded
  PROVE  Sound'
<1>1. TypeOK'
  BY PublishingAssumptions
  DEF Sound, QueueIsSound, TypeOK, Discarded, Blank, Composer, composerVars,
      outboxVars, networkVars, serverVars
<1>2. QueueIsSound'
  BY <1>1
  DEF Sound, QueueIsSound, OnePlace, Discarded, composerVars,
      outboxVars, networkVars, serverVars
<1>3. Truthful'
  BY PublishingAssumptions
  DEF Sound, QueueIsSound, TypeOK, Truthful, Discarded, Blank, KeysOf, RowsOf,
      NoFalseSuccess, composerVars, outboxVars, networkVars, serverVars
<1> QED
  BY <1>2, <1>3 DEF Sound

LEMMA SubmitSound ==
  ASSUME Sound, Submit
  PROVE  Sound'
<1>1. composer \in Composer /\ composer.key # None /\ composer.body # None
  BY DEF Sound, QueueIsSound, TypeOK, Truthful, Submit
<1>2. composer' \in Composer /\ composer'.key = composer.key
  BY <1>1 DEF Submit, Composer
<1>3. queued' \in Job
  BY <1>1 DEF Submit, Composer, Job
<1>4. TypeOK'
  BY <1>2, <1>3
  DEF Sound, QueueIsSound, TypeOK, Submit, networkVars, serverVars
<1>5. QueueIsSound'
  BY <1>4 DEF Sound, QueueIsSound, OnePlace, Submit
<1>6. Truthful'
  BY <1>1, <1>2, PublishingAssumptions
  DEF Sound, Truthful, Submit, KeysOf, RowsOf, NoFalseSuccess, networkVars,
      serverVars
<1> QED
  BY <1>5, <1>6 DEF Sound

LEMMA EnqueueSound ==
  ASSUME Sound, Enqueue
  PROVE  Sound'
<1>1. queued \in Job /\ NewRecord(queued) \in Record
  BY PublishingAssumptions
  DEF Sound, QueueIsSound, TypeOK, Enqueue, Job, NewRecord, Record
<1>2. pending' \subseteq Record /\ batch' \subseteq Record
  BY <1>1 DEF Sound, QueueIsSound, TypeOK, Enqueue, GoOn
<1>3. /\ job' \in Job \cup {None} /\ acked' \subseteq Keys
      /\ work' \in {"idle", "saving", "sending"} /\ leftOver' \in BOOLEAN
  BY <1>1 DEF Sound, QueueIsSound, TypeOK, Enqueue, GoOn
<1>4. TypeOK'
  BY <1>2, <1>3
  DEF Sound, QueueIsSound, TypeOK, Enqueue, composerVars, networkVars,
      serverVars
<1>5. QueueIsSound'
  BY <1>4
  DEF Sound, QueueIsSound, OnePlace, Enqueue, GoOn, NewRecord, KeysOf
<1>6. Truthful'
  BY PublishingAssumptions, <1>1
  DEF Sound, Truthful, Enqueue, GoOn, Job, KeysOf, RowsOf, NoFalseSuccess,
      composerVars, networkVars, serverVars
<1> QED
  BY <1>5, <1>6 DEF Sound

LEMMA EnqueuedSound ==
  ASSUME Sound, Enqueued
  PROVE  Sound'
<1>1. TypeOK'
  BY PublishingAssumptions
  DEF Sound, QueueIsSound, TypeOK, Enqueued, GoOn, composerVars,
      outboxVars, networkVars, serverVars
<1>2. QueueIsSound'
  BY <1>1
  DEF Sound, QueueIsSound, OnePlace, Enqueued, GoOn, composerVars,
      outboxVars, networkVars, serverVars
<1>3. Truthful'
  BY PublishingAssumptions
  DEF Sound, QueueIsSound, TypeOK, Truthful, Enqueued, GoOn, KeysOf, RowsOf,
      NoFalseSuccess, composerVars, outboxVars, networkVars, serverVars
<1> QED
  BY <1>2, <1>3 DEF Sound

LEMMA SendSound ==
  ASSUME Sound, Send
  PROVE  Sound'
<1>1. TypeOK'
  BY PublishingAssumptions
  DEF Sound, QueueIsSound, TypeOK, Send, composerVars,
      outboxVars, networkVars, serverVars
<1>2. QueueIsSound'
  BY <1>1
  DEF Sound, QueueIsSound, OnePlace, Send, composerVars,
      outboxVars, networkVars, serverVars
<1>3. /\ answered' = FALSE
      /\ UNCHANGED <<pending, stored, job, work, acked, composerVars,
                     serverVars, confirmed>>
  BY DEF Send
<1>4. Truthful'
  BY <1>3
  DEF Sound, Truthful, KeysOf, RowsOf, NoFalseSuccess, composerVars, serverVars
<1> QED
  BY <1>2, <1>4 DEF Sound

LEMMA AcknowledgedSound ==
  ASSUME Sound, Acknowledged
  PROVE  Sound'
<1>1. TypeOK'
  BY PublishingAssumptions
  DEF Sound, QueueIsSound, TypeOK, Acknowledged, Others, Record, composerVars,
      outboxVars, networkVars, serverVars
<1>2. QueueIsSound'
  BY <1>1
  DEF Sound, QueueIsSound, OnePlace, Acknowledged, Others, composerVars,
      outboxVars, networkVars, serverVars
<1>3. Truthful'
  BY PublishingAssumptions
  DEF Sound, QueueIsSound, TypeOK, Truthful, Acknowledged, Others, Record, KeysOf, RowsOf,
      NoFalseSuccess, composerVars, outboxVars, networkVars, serverVars
<1> QED
  BY <1>2, <1>3 DEF Sound

LEMMA GiveUpSound ==
  ASSUME Sound, GiveUp
  PROVE  Sound'
<1> DEFINE more(r) == Retried(r, awaiting.key)
<1>1. \A r \in Record : more(r) \in Record /\ more(r).key = r.key
  <2> SUFFICES ASSUME NEW r \in Record
               PROVE  more(r) \in Record /\ more(r).key = r.key
    OBVIOUS
  <2>1. OneMore(r.attempts) \in 0..MaxAttempts
    BY PublishingAssumptions DEF OneMore, Record
  <2> QED
    BY <2>1 DEF Retried, Record
<1>2. pending \subseteq Record /\ pending' = {more(r) : r \in pending}
  BY DEF Sound, QueueIsSound, TypeOK, GiveUp
<1> HIDE DEF more
<1>3. pending' \subseteq Record /\ KeysOf(pending') = KeysOf(pending)
  BY <1>1, <1>2 DEF KeysOf
<1>4. OnePlace(pending) => OnePlace(pending')
  BY <1>1, <1>2 DEF OnePlace
<1>5. TypeOK'
  BY <1>3
  DEF Sound, QueueIsSound, TypeOK, GiveUp, composerVars, serverVars
<1>6. QueueIsSound'
  BY <1>4, <1>5 DEF Sound, QueueIsSound, OnePlace, GiveUp
<1>7. Truthful'
  BY <1>3
  DEF Sound, Truthful, GiveUp, KeysOf, RowsOf, NoFalseSuccess, composerVars,
      serverVars
<1> QED
  BY <1>6, <1>7 DEF Sound

LEMMA EndDrainSound ==
  ASSUME Sound, EndDrain
  PROVE  Sound'
<1>1. TypeOK'
  BY PublishingAssumptions
  DEF Sound, QueueIsSound, TypeOK, EndDrain, composerVars,
      outboxVars, networkVars, serverVars
<1>2. QueueIsSound'
  BY <1>1
  DEF Sound, QueueIsSound, OnePlace, EndDrain, composerVars,
      outboxVars, networkVars, serverVars
<1>3. Truthful'
  BY PublishingAssumptions
  DEF Sound, QueueIsSound, TypeOK, Truthful, EndDrain, KeysOf, RowsOf,
      NoFalseSuccess, composerVars, outboxVars, networkVars, serverVars
<1> QED
  BY <1>2, <1>3 DEF Sound

LEMMA PublishedSound ==
  ASSUME Sound, Published
  PROVE  Sound'
<1>1. TypeOK'
  BY PublishingAssumptions
  DEF Sound, QueueIsSound, TypeOK, Published, composerVars,
      outboxVars, networkVars, serverVars
<1>2. QueueIsSound'
  BY <1>1
  DEF Sound, QueueIsSound, OnePlace, Published, composerVars,
      outboxVars, networkVars, serverVars
<1>3. Truthful'
  BY PublishingAssumptions
  DEF Sound, QueueIsSound, TypeOK, Truthful, Published, KeysOf, RowsOf,
      NoFalseSuccess, composerVars, outboxVars, networkVars, serverVars
<1> QED
  BY <1>2, <1>3 DEF Sound

LEMMA ConfirmedSound ==
  ASSUME Sound, Confirmed
  PROVE  Sound'
<1>1. job \in Job
  BY DEF Sound, QueueIsSound, TypeOK, Truthful, Confirmed
<1>2. /\ composer' \in Composer
      /\ composer'.body # None => composer'.key # None
  BY DEF Sound, QueueIsSound, TypeOK, Truthful, Confirmed, Blank, Composer
<1>3. confirmed' \subseteq Draft
  BY <1>1 DEF Sound, QueueIsSound, TypeOK, Confirmed, Draft, Job
<1>4. TypeOK'
  BY <1>2, <1>3
  DEF Sound, QueueIsSound, TypeOK, Confirmed, EndJob, networkVars, serverVars
<1>5. QueueIsSound'
  BY <1>4 DEF Sound, QueueIsSound, OnePlace, Confirmed, EndJob
<1>6. \A c \in confirmed' : RowsOf(c.key) # {}
  BY DEF Sound, Truthful, NoFalseSuccess, Confirmed
<1>7. Truthful'
  BY <1>2, <1>6
  DEF Sound, Truthful, NoFalseSuccess, Confirmed, EndJob, KeysOf, RowsOf,
      networkVars, serverVars
<1> QED
  BY <1>5, <1>7 DEF Sound

LEMMA NotPublishedSound ==
  ASSUME Sound, NotPublished
  PROVE  Sound'
<1>1. TypeOK'
  BY PublishingAssumptions
  DEF Sound, QueueIsSound, TypeOK, NotPublished, EndJob, Composer, composerVars,
      outboxVars, networkVars, serverVars
<1>2. QueueIsSound'
  BY <1>1
  DEF Sound, QueueIsSound, OnePlace, NotPublished, EndJob, composerVars,
      outboxVars, networkVars, serverVars
<1>3. Truthful'
  BY PublishingAssumptions
  DEF Sound, QueueIsSound, TypeOK, Truthful, NotPublished, EndJob, Composer, KeysOf, RowsOf,
      NoFalseSuccess, composerVars, outboxVars, networkVars, serverVars
<1> QED
  BY <1>2, <1>3 DEF Sound

\* A request reaches the service: whatever was published stays, and the
\* request's key is published.
LEMMA ServeSound ==
  ASSUME Sound, NEW r \in wire, Serve(r)
  PROVE  Sound'
<1>1. r \in Record /\ r.key \in Keys /\ r.body \in Texts
  BY DEF Sound, QueueIsSound, TypeOK, Record
<1>2. /\ \A k : RowsOf(k) # {} => RowsOf(k)' # {}
      /\ RowsOf(r.key)' # {}
      /\ board' \in [RowIds -> Server!BoardPost \cup {NoPost}]
      /\ text' \in [RowIds -> Texts \cup {None}]
  <2>1. CASE Server!LiveFor(Author, r.key) # {} /\ UNCHANGED serverVars
    BY <2>1, PublishedStays
    DEF Sound, QueueIsSound, TypeOK, Server!LiveFor, RowsOf, serverVars
  <2>2. CASE /\ FreeRows # {} /\ Server!Publish(NextRow, Author, r.key)
             /\ text' = [text EXCEPT ![NextRow] = r.body]
    <3>1. NextRow \in RowIds
      BY <2>2 DEF FreeRows, NextRow
    <3>2. /\ RowsOf(r.key)' # {}
          /\ board' \in [RowIds -> Server!BoardPost \cup {NoPost}]
      BY <1>1, <2>2, <3>1, PublishKeepsOrigins DEF Sound, QueueIsSound, TypeOK
    <3>3. \A k : RowsOf(k) # {} => RowsOf(k)' # {}
      BY <1>1, <2>2, <3>1, PublishKeepsOrigins DEF Sound, QueueIsSound, TypeOK
    <3>4. text' \in [RowIds -> Texts \cup {None}]
      BY <1>1, <2>2, <3>1 DEF Sound, QueueIsSound, TypeOK
    <3> QED
      BY <3>2, <3>3, <3>4
  <2> QED
    BY <2>1, <2>2 DEF Serve
<1>3. /\ UNCHANGED <<awaiting, composerVars, outboxVars, confirmed>>
      /\ wire' = wire \ {r}
      /\ answered' = (answered \/ r = awaiting)
  BY DEF Serve
<1>4. QueueIsSound'
  BY <1>2, <1>3, Zenon
  DEF Sound, QueueIsSound, TypeOK, OnePlace, composerVars, outboxVars
<1>5. answered' /\ awaiting' # None => RowsOf(awaiting.key)' # {}
  BY <1>2, <1>3 DEF Sound, Truthful
<1>6. Truthful'
  BY <1>2, <1>3, <1>5
  DEF Sound, Truthful, NoFalseSuccess, composerVars, outboxVars, KeysOf, RowsOf
<1> QED
  BY <1>4, <1>6 DEF Sound

LEMMA DeletePostSound ==
  ASSUME Sound, NEW i \in RowIds, DeletePost(i)
  PROVE  Sound'
<1>1. Server!Retract(i)
      /\ UNCHANGED <<text, composerVars, outboxVars, networkVars, confirmed>>
  BY DEF DeletePost
<1>2. board \in [RowIds -> Server!BoardPost \cup {NoPost}]
  BY DEF Sound, QueueIsSound, TypeOK
<1>3. board' \in [RowIds -> Server!BoardPost \cup {NoPost}]
  BY <1>1, <1>2, RetractKeepsOrigins
<1>4. \A k : RowsOf(k) # {} => RowsOf(k)' # {}
  BY <1>1, <1>2, RetractKeepsOrigins
<1>5. QueueIsSound'
  BY <1>1, <1>3
  DEF Sound, QueueIsSound, TypeOK, OnePlace, composerVars, outboxVars,
      networkVars
<1>6. Truthful'
  BY <1>1, <1>4
  DEF Sound, Truthful, NoFalseSuccess, composerVars, outboxVars, networkVars,
      KeysOf, RowsOf
<1> QED
  BY <1>5, <1>6 DEF Sound

LEMMA KillSound ==
  ASSUME Sound, Kill
  PROVE  Sound'
<1>1. TypeOK'
  BY DEF Sound, QueueIsSound, TypeOK, Kill, Blank, Composer, serverVars
<1>2. QueueIsSound'
  BY <1>1 DEF Sound, QueueIsSound, OnePlace, Kill
<1>3. Truthful'
  BY DEF Sound, Truthful, Kill, Blank, KeysOf, RowsOf, NoFalseSuccess, serverVars
<1> QED
  BY <1>2, <1>3 DEF Sound

LEMMA NextSound ==
  ASSUME Sound, [Next]_vars
  PROVE  Sound'
<1>1. CASE UNCHANGED vars
  BY <1>1
  DEF vars, composerVars, outboxVars, networkVars, serverVars, Sound,
      QueueIsSound, TypeOK, Truthful, OnePlace, KeysOf, RowsOf, NoFalseSuccess
<1>2. CASE Outbox
  BY <1>2, EnqueueSound, EnqueuedSound, SendSound, AcknowledgedSound,
     GiveUpSound, EndDrainSound, PublishedSound, ConfirmedSound,
     NotPublishedSound
  DEF Outbox
<1> QED
  BY <1>1, <1>2, OpenComposerSound, CloseComposerSound, EditSound,
     DiscardSound, DiscardedSound, SubmitSound, ServeSound, DeletePostSound,
     KillSound
  DEF Next

\* The queue is sound and everybody who says "published" is right.
THEOREM AlwaysSound == Spec => []Sound
<1>1. Init => Sound
  BY InitSound
<1>2. Sound /\ [Next]_vars => Sound'
  BY NextSound
<1> QED
  BY <1>1, <1>2, PTL DEF Spec

\* The queue holds a draft once, and between two jobs the disk has all of it:
\* a retry never becomes a second record, a kill between two submits loses
\* nothing.
THEOREM SoundQueue == Spec => []QueueIsSound
  BY AlwaysSound, PTL DEF Sound

\* Brief 5.1, "no false success": what the user was told is published is a row
\* of the service.
THEOREM SuccessIsTrue == Spec => []NoFalseSuccess
<1>1. Sound => NoFalseSuccess
  BY DEF Sound, Truthful
<1> QED
  BY <1>1, AlwaysSound, PTL

\* A key leaves the queue on disk only by what _persist writes (Enqueued and
\* EndDrain), and what is not in memory then is published.
THEOREM NothingQueuedIsLost == Spec => StaysQueuedUntilPublished
<1> DEFINE Kept == \A k \in Keys :
              k \in KeysOf(stored) /\ k \notin KeysOf(stored') => RowsOf(k) # {}
<1>1. ASSUME Sound, [Next]_vars PROVE Kept
  <2>1. UNCHANGED stored => Kept
    BY DEF KeysOf
  <2>2. stored' = pending => Kept
    BY <1>1 DEF Sound, Truthful
  <2>3. UNCHANGED stored \/ stored' = pending
    BY <1>1
    DEF Next, Outbox, OpenComposer, CloseComposer, Edit, Discard, Discarded,
        Submit, Enqueue, Enqueued, Send, Acknowledged, GiveUp, EndDrain,
        Published, Confirmed, NotPublished, EndJob, Serve, DeletePost, Kill,
        vars, outboxVars
  <2> QED
    BY <2>1, <2>2, <2>3
<1>2. Sound /\ [Next]_vars => [Kept]_vars
  BY <1>1
<1> QED
  BY <1>2, AlwaysSound, PTL DEF Spec, StaysQueuedUntilPublished

\* A draft is on disk while its composer shows it, from the moment a submit that
\* was published has begun to clear it until it has told its composer.
DraftKept ==
  composer.body # None /\ ~discarding /\ ~(work = "clearing" /\ job.heard) =>
    draft = [key |-> composer.key, body |-> composer.body]

\* Its proof needs no more of the invariant than the types.
LEMMA DraftKeptStep ==
  ASSUME Sound, DraftKept, [Next]_vars
  PROVE  DraftKept'
<1>1. CASE OpenComposer
  BY <1>1 DEF OpenComposer, DraftKept, Blank, outboxVars, Sound, QueueIsSound, TypeOK, Draft
<1>2. CASE CloseComposer
  BY <1>2 DEF CloseComposer, DraftKept, Blank
<1>3. CASE \E body \in Texts \cup {None} : Edit(body)
  BY <1>3 DEF Edit, DraftKept, outboxVars, Sound, QueueIsSound, TypeOK, Composer
<1>4. CASE Discard \/ Discarded
  BY <1>4 DEF Discard, Discarded, DraftKept, Blank
<1>5. CASE Submit
  BY <1>5 DEF Submit, DraftKept, Sound, QueueIsSound, TypeOK, Composer
<1>6. CASE Enqueue \/ Enqueued
  BY <1>6 DEF Enqueue, Enqueued, GoOn, DraftKept, composerVars
<1>7. CASE Send \/ Acknowledged \/ GiveUp \/ EndDrain
  BY <1>7 DEF Send, Acknowledged, GiveUp, EndDrain, DraftKept, composerVars
<1>8. CASE Published
  BY <1>8 DEF Published, DraftKept
<1>9. CASE Confirmed
  BY <1>9 DEF Confirmed, EndJob, DraftKept, Blank
<1>10. CASE NotPublished
  BY <1>10 DEF NotPublished, EndJob, DraftKept, Sound, QueueIsSound, TypeOK, Composer
<1>11. CASE (\E r \in wire : Serve(r)) \/ (\E i \in RowIds : DeletePost(i))
  BY <1>11 DEF Serve, DeletePost, DraftKept, composerVars, outboxVars
<1>12. CASE Kill
  BY <1>12 DEF Kill, DraftKept, Blank
<1>13. CASE UNCHANGED vars
  BY <1>13 DEF vars, composerVars, outboxVars, DraftKept
<1> QED
  BY <1>1, <1>2, <1>3, <1>4, <1>5, <1>6, <1>7, <1>8, <1>9, <1>10, <1>11, <1>12,
     <1>13 DEF Next, Outbox

\* A4, A5: what the user sees in the composer is what a restart brings back,
\* whatever has become of the submit in between and for any number of texts.
THEOREM DraftIsNeverLost == Spec => []DraftSurvives
<1>1. Init => DraftKept
  BY DEF Init, Blank, DraftKept
<1>2. Sound /\ DraftKept /\ [Next]_vars => DraftKept'
  BY DraftKeptStep
<1>3. DraftKept => DraftSurvives
  BY DEF DraftKept, DraftSurvives
<1> QED
  BY <1>1, <1>2, <1>3, AlwaysSound, PTL DEF Spec

\* Nobody between the service and the user believes in a post that is not there:
\* the acknowledgements, the answer on its way and the disk included.
THEOREM EverybodyIsTruthful == Spec => []Truthful
  BY AlwaysSound, PTL DEF Sound
==============================================================================
