------------------------------- MODULE Inbox --------------------------------
(***************************************************************************)
(* The inbox of one author: notifications/notification_service.py and      *)
(* notifications/emitters.py, with the handlers of routers/comments.py and *)
(* routers/reactions.py that fill it, services/reaction_service.py and     *)
(* routers/notifications.py, from which it is read.                        *)
(*                                                                         *)
(* All comments and reactions are on one post of the author.  A handler    *)
(* writes its comment or reaction and takes the time (Comment, React,      *)
(* Follow), reads the row it may add to (Look) and commits everything in   *)
(* one piece (Commit).  The ORM writes the columns a handler assigned and  *)
(* no others.  Marking rows as read is one step: its two queries, for the   *)
(* cutoff and for the rows, are taken at one instant.                      *)
(*                                                                         *)
(* Left out: invitations to clubs and accepted requests, which are         *)
(* deduplicated like requests to follow; posts that are deleted, whose     *)
(* rows keep their place; push messages, which no caller asks for; the     *)
(* preferences; editing and listing comments.                              *)
(***************************************************************************)

EXTENDS Naturals, Sequences, FiniteSets, Requests

CONSTANTS
  Actors,         \* profiles other than the author: nobody is told of what is theirs
  Kinds,
  Window,         \* REACTION_BURST_WINDOW_SECONDS
  PageSize,
  MaxBlocked,     \* bounds of the model: actors blocked at a time,
  MaxClock        \* and the clock

VARIABLES
  rows,       \* community_notifications of the author, by primary key
  reaction,   \* community_reactions on the post
  blocked,    \* actors in a block with the author, in either direction
  clock,
  view,       \* the pages the author's device has fetched
  events,     \* history: how many events each row of rows has been written for
  overlapped  \* history: two handlers worked on the post at the same time

inboxVars == <<rows, reaction, blocked, clock, job, view, events, overlapped, requests>>

Times == 0 .. MaxClock
Ids == Nat \ {0}

\* Of a post, or of the profile of the actor; the latter with a dedup_key.
Row == [about : {"post", "actor"}, actor : Actors, count : Ids, at : Times, read : BOOLEAN]

\* adds is the row read by Look and 0 for a new one.
Idle == [what |-> None, actor |-> None, kind |-> None, now |-> 0, looked |-> FALSE,
         adds |-> 0, count |-> 0]

InboxJob ==
  [what : {"comment", "reaction", "follow", None}, actor : Actors \cup {None},
   kind : Kinds \cup {None}, now : Times, looked : BOOLEAN, adds : Nat, count : Nat]

\* The device: rows it showed, the page it would ask for next, and the row at the
\* top of its list as load() found it.
Closed == [open |-> FALSE, shown |-> {}, next |-> None, top |-> 0, topAt |-> 0,
           known |-> 0, due |-> {}]

View == [open : BOOLEAN, shown : SUBSET Ids, next : (Times \X Ids) \cup {None},
         top : Nat, topAt : Times,
         known : Nat,               \* history: rows there were at load()
         due : SUBSET Ids]          \* history: rows the pages still owe the device

ASSUME InboxAssumptions ==
  /\ None \notin Actors \cup Kinds \cup {"comment", "reaction", "follow"}
  /\ None \notin Times \X Ids
  /\ Window \in Nat /\ PageSize \in Nat \ {0}
  /\ MaxBlocked \in Nat /\ MaxClock \in Nat /\ MaxRequests \in Nat

InboxTypeOK ==
  /\ rows \in Seq(Row)
  /\ reaction \in [Actors -> Kinds \cup {None}]
  /\ blocked \subseteq Actors
  /\ clock \in Times
  /\ job \in [Handlers -> InboxJob]
  /\ view \in View
  /\ events \in Seq(Ids) /\ Len(events) = Len(rows)
  /\ overlapped \in BOOLEAN
  /\ requests \in 0 .. MaxRequests

InboxInit ==
  /\ rows = <<>>
  /\ reaction = [a \in Actors |-> None]
  /\ blocked = {}
  /\ clock = 0
  /\ job = [h \in Handlers |-> Idle]
  /\ view = Closed
  /\ events = <<>> /\ overlapped = FALSE
  /\ requests = 0

Working(h) == job[h].what # None
OnPost(h) == job[h].what \in {"comment", "reaction"}

(***************************************************************************)
(* A comment, a reaction, a request to follow.                             *)
(***************************************************************************)

Begin(h, j) ==
  /\ ~Working(h) /\ requests < MaxRequests
  /\ requests' = requests + 1
  /\ job' = [job EXCEPT ![h] = [j EXCEPT !.now = clock]]
  /\ overlapped' = (overlapped \/ (j.what # "follow" /\ \E k \in Handlers : OnPost(k)))
  /\ UNCHANGED <<rows, reaction, blocked, clock, view, events>>

Comment(h, a) == Begin(h, [Idle EXCEPT !.what = "comment", !.actor = a])

\* The row of an actor is locked by whoever has changed it; who comes second to
\* insert one reads again and updates it.  The same kind again writes nothing, and
\* is told of all the same.
React(h, a, k) ==
  IF reaction[a] = k
  THEN Begin(h, [Idle EXCEPT !.what = "reaction", !.actor = a])
  ELSE /\ ~\E o \in Handlers : job[o].actor = a /\ job[o].kind # None
       /\ Begin(h, [Idle EXCEPT !.what = "reaction", !.actor = a, !.kind = k])

Unreact(a) ==
  /\ ~\E o \in Handlers : job[o].actor = a /\ job[o].kind # None
  /\ reaction[a] # None /\ reaction' = [reaction EXCEPT ![a] = None]
  /\ UNCHANGED <<rows, blocked, clock, job, view, events, overlapped, requests>>

Follow(h, a) == Begin(h, [Idle EXCEPT !.what = "follow", !.actor = a, !.looked = TRUE])

\* A mutant: a row that is exactly as old as the window has left it.
HalfOpen(t) == { i \in DOMAIN rows :
  rows[i].about = "post" /\ t < rows[i].at + Window /\ rows[i].at <= t }

\* Rows of the post inside the window that ends at t.
InWindow(t) == { i \in DOMAIN rows :
  rows[i].about = "post" /\ t <= rows[i].at + Window /\ rows[i].at <= t }

\* _existing_burst_row: the most recent of them, any of two with the same time.
Look(h) ==
  LET found == InWindow(job[h].now) IN
  /\ Working(h) /\ ~job[h].looked
  /\ \/ /\ found = {}
        /\ job' = [job EXCEPT ![h].looked = TRUE]
     \/ \E i \in found :
          /\ \A o \in found : rows[o].at <= rows[i].at
          /\ job' = [job EXCEPT ![h].looked = TRUE, ![h].adds = i,
                                ![h].count = rows[i].count + 1]
  /\ UNCHANGED <<rows, reaction, blocked, clock, view, events, overlapped, requests>>

Told(a) == \E i \in DOMAIN rows : rows[i].about = "actor" /\ rows[i].actor = a

\* A mutant: an entry that something was added to is unread again.
Reopened(row, j) == [row EXCEPT !.count = j.count, !.at = j.now, !.read = FALSE]

Bumped(row, j) == [row EXCEPT !.count = j.count, !.at = j.now]

NewRow(j) ==
  [about |-> IF j.what = "follow" THEN "actor" ELSE "post", actor |-> j.actor,
   count |-> 1, at |-> j.now, read |-> FALSE]

Rest(h) ==
  /\ job' = [job EXCEPT ![h] = Idle]
  /\ UNCHANGED <<blocked, clock, overlapped, requests>>

\* A repeated request to follow finds its dedup_key taken: the savepoint of its
\* notification is rolled back and nothing else.
Commit(h) ==
  LET j == job[h] IN
  /\ Working(h) /\ j.looked
  /\ \/ /\ j.adds # 0
        /\ rows' = [rows EXCEPT ![j.adds] = Bumped(@, j)]
        /\ events' = [events EXCEPT ![j.adds] = @ + 1]
     \/ /\ j.adds = 0 /\ ~(j.what = "follow" /\ Told(j.actor))
        /\ rows' = Append(rows, NewRow(j))
        /\ events' = Append(events, 1)
     \/ /\ j.what = "follow" /\ Told(j.actor)
        /\ UNCHANGED <<rows, events>>
  /\ reaction' = IF j.kind = None THEN reaction
                 ELSE [reaction EXCEPT ![j.actor] = j.kind]
  /\ view' = [view EXCEPT !.due = @ \ {j.adds}]
  /\ Rest(h)

\* The process dies, or a row it has read is gone (StaleDataError).
Abort(h) == Working(h) /\ Rest(h) /\ UNCHANGED <<rows, reaction, view, events>>

(***************************************************************************)
(* The device: load(), loadMore(), markRead() and markAllRead().           *)
(***************************************************************************)

Key(i) == <<rows[i].at, i>>
Before(k, l) == k[1] < l[1] \/ (k[1] = l[1] /\ k[2] < l[2])

\* A mutant: rows of the same time are not told apart.
OlderByTime(c) == { i \in DOMAIN rows : c = None \/ rows[i].at < c[1] }

OlderThan(c) == { i \in DOMAIN rows : c = None \/ Before(Key(i), c) }

\* The n most recent of a set of rows.
Newest(S, n) == { i \in S : Cardinality({ o \in S : Before(Key(i), Key(o)) }) < n }

\* list_inbox: one row more than the page is read, and then blocked actors are left
\* out.  So a page that lost a row to that is the last one, whatever follows it.
Page(c) ==
  LET read == Newest(OlderThan(c), PageSize + 1)
      visible == { i \in read : rows[i].actor \notin blocked }
      page == Newest(visible, PageSize)
      last == CHOOSE i \in page : \A o \in page : o = i \/ Before(Key(i), Key(o))
  IN [rows |-> page,
      next |-> IF Cardinality(visible) > PageSize THEN Key(last) ELSE None,
      cut  |-> Cardinality(visible) <= PageSize /\ OlderThan(c) # read]

Fetched(page, v) ==
  [v EXCEPT !.shown = @ \cup page.rows, !.next = page.next,
            !.due = IF page.cut THEN {} ELSE @ \ page.rows]

Load ==
  LET page == Page(None)
      top == { i \in page.rows : \A o \in page.rows : o = i \/ Before(Key(o), Key(i)) }
      due == { i \in DOMAIN rows : rows[i].actor \notin blocked }
      new == [Closed EXCEPT !.open = TRUE, !.known = Len(rows), !.due = due]
  IN /\ \/ page.rows = {} /\ view' = Fetched(page, new)
        \/ \E i \in top :
             view' = Fetched(page, [new EXCEPT !.top = i, !.topAt = rows[i].at])
     /\ UNCHANGED <<rows, reaction, blocked, clock, job, events, overlapped, requests>>

LoadMore ==
  /\ view.open /\ view.next # None
  /\ view' = Fetched(Page(view.next), view)
  /\ UNCHANGED <<rows, reaction, blocked, clock, job, events, overlapped, requests>>

Marked(S) == [i \in DOMAIN rows |-> [rows[i] EXCEPT !.read = @ \/ i \in S]]

MarkRead(i) ==
  /\ i \in view.shown /\ ~rows[i].read
  /\ rows' = Marked({i})
  /\ UNCHANGED <<reaction, blocked, clock, job, view, events, overlapped, requests>>

\* A mutant: all rows, the ones that have just come too.
Everything(t) == DOMAIN rows

\* Up to the row at the top of the list, at the time it has by now.
UpTo(t) == { i \in DOMAIN rows : i = t \/ Before(Key(i), Key(t)) }

MarkAllRead ==
  /\ view.top # 0
  /\ \E i \in UpTo(view.top) : ~rows[i].read
  /\ rows' = Marked(UpTo(view.top))
  /\ UNCHANGED <<reaction, blocked, clock, job, view, events, overlapped, requests>>

(***************************************************************************)
(* Around it.                                                              *)
(***************************************************************************)

\* The social graph blocks and unblocks; a row nobody may see is not owed.
Block(a) ==
  /\ Cardinality(blocked) < MaxBlocked
  /\ blocked' = blocked \cup {a}
  /\ view' = [view EXCEPT !.due = { i \in @ : rows[i].actor # a }]
  /\ UNCHANGED <<rows, reaction, clock, job, events, overlapped, requests>>

Unblock(a) ==
  /\ blocked' = blocked \ {a}
  /\ UNCHANGED <<rows, reaction, clock, job, view, events, overlapped, requests>>

Tick ==
  /\ clock < MaxClock /\ clock' = clock + 1
  /\ UNCHANGED <<rows, reaction, blocked, job, view, events, overlapped, requests>>

InboxNext ==
  \/ \E h \in Handlers :
       \/ \E a \in Actors :
            \/ Comment(h, a) \/ Follow(h, a)
            \/ \E k \in Kinds : React(h, a, k)
       \/ Look(h) \/ Commit(h) \/ Abort(h)
  \/ Load \/ LoadMore \/ MarkAllRead
  \/ \E i \in DOMAIN rows : MarkRead(i)
  \/ \E a \in Actors : Unreact(a) \/ Block(a) \/ Unblock(a)
  \/ Tick

InboxSpec == InboxInit /\ [][InboxNext]_inboxVars

(***************************************************************************)
(* Properties.                                                             *)
(***************************************************************************)

PostRows == { i \in DOMAIN rows : rows[i].about = "post" }

\* A2: a burst is one entry.  Unless handlers overlapped, two entries of the post
\* are more than a window apart.
OneEntryPerBurst ==
  ~overlapped => \A i, o \in PostRows : i < o => rows[o].at > rows[i].at + Window

\* No entry counts an event twice or one of another entry, and unless handlers
\* overlapped it misses none of its own.
CountsAreEvents ==
  \A i \in DOMAIN rows :
    rows[i].count <= events[i] /\ (~overlapped => rows[i].count = events[i])

\* A7: however often someone asks, and however the requests overlap, one entry.
OneEntryPerAsker ==
  \A i, o \in DOMAIN rows :
    rows[i].about = "actor" /\ rows[o].about = "actor" /\ rows[i].actor = rows[o].actor
      => i = o

\* What the entries say is true; the type invariant with it.
EntriesAreSound == InboxTypeOK /\ OneEntryPerBurst /\ CountsAreEvents /\ OneEntryPerAsker

\* Paging to the end shows every entry that was there when the list was loaded,
\* unless it has been added to since, its actor is blocked, or a blocked row ended
\* the list early: rows added and moved in between push nothing off a page.
PagesShowEverything == view.open /\ view.next = None => view.due = {}

\* What was read stays read when an event is added to it in the meantime.
ReadStays ==
  [][ \A i \in DOMAIN rows : rows[i].read => rows'[i].read ]_inboxVars

\* "Mark all as read" spares an entry that the device has not shown and that came after
\* load(), on two conditions: it is not stamped before the row at the top of the list,
\* as no handler that began after load() stamps it, and that row has not been added to
\* itself.  Without them it need not: NewcomersStayUnread.
NewerStayUnread ==
  [][ \A i \in DOMAIN rows :
        /\ view.top # 0 /\ i > view.known /\ i \notin view.shown
        /\ rows[i].at >= view.topAt /\ rows[view.top].at = view.topAt
        => rows'[i].read = rows[i].read ]_inboxVars

\* ReadStays, and NewerStayUnread with its two conditions.
ReadStateIsKept == ReadStays /\ NewerStayUnread

\* What mark_all_read_up_to says: it covers "only notifications that the user has
\* actually seen", and ids are in the order of created_at.  Refuted: a handler that took
\* its time before the top row's and commits after load() gives a new row with an older
\* time, and a top row that is added to takes the cutoff with it.
NewcomersStayUnread ==
  [][ \A i \in DOMAIN rows :
        view.top # 0 /\ i > view.known /\ i \notin view.shown
        => rows'[i].read = rows[i].read ]_inboxVars

\* What get_unread_count says: the badge counts nothing that the pages do not show.
BadgeIsReachable ==
  view.open /\ view.next = None =>
    \A i \in DOMAIN rows :
      i <= view.known /\ rows[i].actor \notin blocked /\ rows[i].at < view.topAt
        => i \in view.shown
=============================================================================
