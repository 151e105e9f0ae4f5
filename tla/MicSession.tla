------------------------------ MODULE MicSession ------------------------------
(***************************************************************************)
(* lib/core/audio: the microphone is handed out by AudioSessionCoordinator *)
(* as a lease, used by one MicCapture per owner (Live, Tuner, Analyze...), *)
(* and taken back by AudioLifecycleGuard when the app goes to the          *)
(* background.                                                             *)
(*                                                                         *)
(* The app is one Dart isolate: code between two awaits is atomic, and an  *)
(* action below is what runs from one await to the next.  At an await any  *)
(* other owner, a second stop(), or a change of the app's lifecycle may    *)
(* come first; platform calls take arbitrarily long and may throw.         *)
(*                                                                         *)
(* A start() that gets past the coordinator makes one lease and one        *)
(* AudioCapture; both are named by the same element of Leases.             *)
(***************************************************************************)

EXTENDS Naturals, FiniteSets

CONSTANTS
  Owners,  \* the values of AudioOwner that have a MicCapture
  Leases,  \* lease objects, one per start() that is granted the microphone
  MaxStops, \* stop() calls that wait for the platform at the same time
  None     \* Dart's null

ASSUME MicSessionAssumptions ==
  /\ None \notin Leases /\ None \notin Owners
  /\ MaxStops \in Nat \ {0}

VARIABLES
  (* AudioSessionCoordinator *)
  holder,     \* _active: the lease that has the microphone, or None
  leaseOwner, \* lease -> the owner it was granted to, None if not granted yet
  active,     \* leases whose isActive is true
  revoking,   \* leases with _revoking set
  (* MicCapture, one per owner *)
  lease,      \* _lease
  capture,    \* _capture
  stopReq,    \* _stopRequested
  starting,   \* the await the start() in flight (_inFlight) is at
  granted,    \* the lease and capture that start() holds in local variables
  stops,      \* stop() calls that wait for the platform, with their snapshots
  (* AudioCapture: whether the platform delivers audio to its subscription; *)
  (* a stop() ends that whether it returns or throws *)
  stream      \* lease -> "none", "open" or "closed"

coordinatorVars == <<holder, leaseOwner, active, revoking>>
vars == <<holder, leaseOwner, active, revoking, lease, capture, stopReq,
          starting, granted, stops, stream>>

MaybeLease == Leases \cup {None}

StopCall ==
  [owner : Owners, capture : MaybeLease, lease : MaybeLease,
   revoked : MaybeLease]

TypeOK ==
  /\ holder \in MaybeLease
  /\ leaseOwner \in [Leases -> Owners \cup {None}]
  /\ active \subseteq Leases
  /\ revoking \subseteq Leases
  /\ lease \in [Owners -> MaybeLease]
  /\ capture \in [Owners -> MaybeLease]
  /\ stopReq \in [Owners -> BOOLEAN]
  /\ starting \in [Owners -> {"no", "permission", "acquired", "opening",
                              "unwinding"}]
  /\ granted \in [Owners -> MaybeLease]
  /\ stops \subseteq StopCall
  /\ stream \in [Leases -> {"none", "open", "closed"}]

Init ==
  /\ holder = None
  /\ leaseOwner = [l \in Leases |-> None]
  /\ active = {}
  /\ revoking = {}
  /\ lease = [o \in Owners |-> None]
  /\ capture = [o \in Owners |-> None]
  /\ stopReq = [o \in Owners |-> FALSE]
  /\ starting = [o \in Owners |-> "no"]
  /\ granted = [o \in Owners |-> None]
  /\ stops = {}
  /\ stream = [l \in Leases |-> "none"]

(***************************************************************************)
(* Leases.                                                                 *)
(***************************************************************************)

\* _clear: only the holder's own release frees the session.
Clear(released) == IF holder \in released THEN None ELSE holder

\* Mutant: a release frees the session again, whoever holds it by now.
ReleaseAgain(released) ==
  /\ active' = active \ released
  /\ holder' = IF released = {} THEN holder ELSE None
  /\ UNCHANGED <<leaseOwner, revoking>>

\* lease.release() of each lease in `released`; idempotent.
Release(released) ==
  /\ active' = active \ released
  /\ holder' = Clear(released \cap active)
  /\ UNCHANGED <<leaseOwner, revoking>>

\* The session is free: no lease, or one that is no longer active.
Free == holder = None \/ holder \notin active

(***************************************************************************)
(* MicCapture.start                                                        *)
(***************************************************************************)

\* A call while one is in flight joins it; a call while capturing returns.
Start(o) ==
  /\ starting[o] = "no"
  /\ capture[o] = None
  /\ stopReq' = [stopReq EXCEPT ![o] = FALSE]
  /\ starting' = [starting EXCEPT ![o] = "permission"]
  /\ UNCHANGED coordinatorVars
  /\ UNCHANGED <<lease, capture, granted, stops, stream>>

EndStart(o) ==
  /\ starting' = [starting EXCEPT ![o] = "no"]
  /\ granted' = [granted EXCEPT ![o] = None]

\* Permission denied, or the owner stopped while the dialog was up.
StartRefused(o) ==
  /\ starting[o] = "permission"
  /\ EndStart(o)
  /\ UNCHANGED coordinatorVars
  /\ UNCHANGED <<lease, capture, stopReq, stops, stream>>

Unused == {l \in Leases : leaseOwner[l] = None}

\* The name the next lease gets.
NewLease == CHOOSE l \in Unused : TRUE

\* The permission is granted: check for a stop and acquire() without an await.
Acquire(o) ==
  /\ starting[o] = "permission"
  /\ ~stopReq[o]
  /\ Free
  /\ Unused # {}
  /\ leaseOwner' = [leaseOwner EXCEPT ![NewLease] = o]
  /\ holder' = NewLease
  /\ active' = active \cup {NewLease}
  /\ granted' = [granted EXCEPT ![o] = NewLease]
  /\ starting' = [starting EXCEPT ![o] = "acquired"]
  /\ UNCHANGED <<revoking, lease, capture, stopReq, stops, stream>>

\* audioSessionBusy.
Busy(o) ==
  /\ starting[o] = "permission"
  /\ ~stopReq[o]
  /\ ~Free
  /\ EndStart(o)
  /\ UNCHANGED coordinatorVars
  /\ UNCHANGED <<lease, capture, stopReq, stops, stream>>

\* The lease has arrived: give it back if stop() came, else call
\* capture.start().
Open(o) ==
  /\ starting[o] = "acquired"
  /\ \/ /\ stopReq[o]
        /\ Release({granted[o]})
        /\ EndStart(o)
        /\ UNCHANGED lease
     \/ /\ ~stopReq[o]
        /\ lease' = [lease EXCEPT ![o] = granted[o]]
        /\ starting' = [starting EXCEPT ![o] = "opening"]
        /\ UNCHANGED coordinatorVars
        /\ UNCHANGED granted
  /\ UNCHANGED <<capture, stopReq, stops, stream>>

\* The platform opens the device; start() has not returned yet.
StreamOpens(o) ==
  /\ starting[o] = "opening"
  /\ stream[granted[o]] = "none"
  /\ stream' = [stream EXCEPT ![granted[o]] = "open"]
  /\ UNCHANGED coordinatorVars
  /\ UNCHANGED <<lease, capture, stopReq, starting, granted, stops>>

\* Mutant: a stop that came during the handshake is not looked for.
OpenedUnchecked(o) ==
  /\ starting[o] = "opening"
  /\ stream[granted[o]] = "open"
  /\ capture' = [capture EXCEPT ![o] = granted[o]]
  /\ EndStart(o)
  /\ UNCHANGED coordinatorVars
  /\ UNCHANGED <<lease, stopReq, stops, stream>>

\* capture.start() returned: the capture is ours, unless stop() came first.
Opened(o) ==
  /\ starting[o] = "opening"
  /\ stream[granted[o]] = "open"
  /\ \/ /\ stopReq[o]
        /\ starting' = [starting EXCEPT ![o] = "unwinding"]
        /\ UNCHANGED <<capture, granted>>
     \/ /\ ~stopReq[o]
        /\ capture' = [capture EXCEPT ![o] = granted[o]]
        /\ EndStart(o)
  /\ UNCHANGED coordinatorVars
  /\ UNCHANGED <<lease, stopReq, stops, stream>>

\* capture.start() threw: the catch block awaits capture.stop().
OpenFails(o) ==
  /\ starting[o] = "opening"
  /\ starting' = [starting EXCEPT ![o] = "unwinding"]
  /\ UNCHANGED coordinatorVars
  /\ UNCHANGED <<lease, capture, stopReq, granted, stops, stream>>

Forget(o, released) ==
  lease' = [lease EXCEPT ![o] = IF @ \in released THEN None ELSE @]

\* Mutant: the unwinding start drops its lease without releasing it.
UnwoundWithoutRelease(o) ==
  /\ starting[o] = "unwinding"
  /\ stream' = [stream EXCEPT ![granted[o]] = "closed"]
  /\ Forget(o, {granted[o]})
  /\ EndStart(o)
  /\ UNCHANGED coordinatorVars
  /\ UNCHANGED <<capture, stopReq, stops>>

\* Mutant: the unwinding start does not stop the capture it opened.
UnwoundWithoutStop(o) ==
  /\ starting[o] = "unwinding"
  /\ Forget(o, {granted[o]})
  /\ Release({granted[o]})
  /\ EndStart(o)
  /\ UNCHANGED <<capture, stopReq, stops, stream>>

\* capture.stop() of a start that must not go on has returned: _release.
Unwound(o) ==
  /\ starting[o] = "unwinding"
  /\ stream' = [stream EXCEPT ![granted[o]] = "closed"]
  /\ Forget(o, {granted[o]})
  /\ Release({granted[o]})
  /\ EndStart(o)
  /\ UNCHANGED <<capture, stopReq, stops>>

\* ... or has thrown: start() fails and releases nothing.
UnwindThrows(o) ==
  /\ starting[o] = "unwinding"
  /\ stream' = [stream EXCEPT ![granted[o]] = "closed"]
  /\ EndStart(o)
  /\ UNCHANGED coordinatorVars
  /\ UNCHANGED <<lease, capture, stopReq, stops>>

(***************************************************************************)
(* MicCapture.stop and the revocation                                      *)
(***************************************************************************)

\* What stop() finds, called for the revocation of `revoked` or (None) by the
\* owner.
Snapshot(o, revoked) ==
  [owner |-> o, capture |-> capture[o], lease |-> lease[o],
   revoked |-> revoked]

\* stop() up to its first await.  One that found nothing has nothing left to
\* do after it.
BeginStop(o, revoked) ==
  LET pending == capture[o] # None \/ lease[o] # None \/ revoked # None
  IN /\ pending => Cardinality(stops) < MaxStops
     /\ stopReq' = [stopReq EXCEPT ![o] = TRUE]
     /\ capture' = [capture EXCEPT ![o] = None]
     /\ stops' = IF pending THEN stops \cup {Snapshot(o, revoked)} ELSE stops
     /\ UNCHANGED <<lease, starting, granted, stream>>

Stop(o) ==
  /\ BeginStop(o, None)
  /\ UNCHANGED coordinatorVars

\* AudioLifecycleGuard._onState -> revokeActive -> _revoke -> onRevoke.
Background ==
  /\ holder \in active
  /\ holder \notin revoking
  /\ revoking' = revoking \cup {holder}
  /\ BeginStop(leaseOwner[holder], holder)
  /\ UNCHANGED <<holder, leaseOwner, active>>

Close(c) ==
  stream' = [l \in Leases |-> IF l = c THEN "closed" ELSE stream[l]]

\* Mutant: the lease the owner has NOW is released, not the snapshot's.
ReleasedNow(s) == {lease[s.owner], s.revoked} \ {None}

\* What a stop() that comes back releases: its snapshot, and in _revoke's
\* finally block the lease being revoked.
ReleasedBy(s) == {s.lease, s.revoked} \ {None}

\* The platform closed the stream (or there was none to close).
StopReturns(s) ==
  /\ s \in stops
  /\ Close(s.capture)
  /\ Forget(s.owner, {s.lease} \ {None})
  /\ Release(ReleasedBy(s))
  /\ stops' = stops \ {s}
  /\ UNCHANGED <<capture, stopReq, starting, granted>>

\* Mutant: a teardown that throws keeps the lease being revoked (no finally).
StopThrowsOut(s) ==
  /\ s \in stops
  /\ s.capture # None
  /\ Close(s.capture)
  /\ stops' = stops \ {s}
  /\ UNCHANGED coordinatorVars
  /\ UNCHANGED <<lease, capture, stopReq, starting, granted>>

\* capture.stop() threw: stop() releases nothing, the revocation its lease.
StopThrows(s) ==
  /\ s \in stops
  /\ s.capture # None
  /\ Close(s.capture)
  /\ Release({s.revoked} \ {None})
  /\ stops' = stops \ {s}
  /\ UNCHANGED <<lease, capture, stopReq, starting, granted>>

Next ==
  \/ \E o \in Owners :
       \/ Start(o) \/ StartRefused(o) \/ Acquire(o) \/ Busy(o) \/ Open(o)
       \/ StreamOpens(o) \/ Opened(o) \/ OpenFails(o)
       \/ Unwound(o) \/ UnwindThrows(o) \/ Stop(o)
  \/ Background
  \/ \E s \in stops : StopReturns(s) \/ StopThrows(s)

\* Awaited calls come back: what the event loop and the platform owe.  The
\* user may leave the permission dialog open for ever, and nothing has to
\* throw.
StartGoesOn(o) == Open(o) \/ StreamOpens(o) \/ Opened(o) \/ Unwound(o)

\* A stop() whose platform call closes l, or that only has l to release.
StopOf(l) ==
  \E s \in stops :
    /\ l = s.capture \/ (s.capture = None /\ l \in {s.lease, s.revoked})
    /\ StopReturns(s)

Spec ==
  /\ Init /\ [][Next]_vars
  /\ \A o \in Owners : WF_vars(StartGoesOn(o))
  /\ \A l \in Leases : WF_vars(StopOf(l))

-----------------------------------------------------------------------------
(***************************************************************************)
(* Properties                                                              *)
(***************************************************************************)

\* "One owner at a time": whatever late release, second stop() or revocation
\* arrives, at most one lease is active and the coordinator knows it.
ExclusiveLease == \A l \in active : l = holder

\* A running capture always has a live session behind it, so going to the
\* background finds it (the stale stop() of "round 114").
CaptureHasLease ==
  \A o \in Owners :
    capture[o] # None => /\ capture[o] \in active
                         /\ holder = capture[o]
                         /\ leaseOwner[capture[o]] = o

\* An open stream is always somebody's to close: the capture of its owner, a
\* start() that is still opening or unwinding it, or a stop() waiting for it.
NoOrphanStream ==
  \A l \in Leases :
    stream[l] = "open" =>
      \/ capture[leaseOwner[l]] = l
      \/ granted[leaseOwner[l]] = l
      \/ \E s \in stops : s.capture = l

\* An active lease is never lost, even when the platform throws: its owner can
\* release it with one more stop(), or a pending call will.
LeaseReachable ==
  \A l \in active :
    \/ lease[leaseOwner[l]] = l
    \/ granted[leaseOwner[l]] = l
    \/ \E s \in stops : l \in ReleasedBy(s)

\* The four together: the microphone has one owner, who can give it back, and
\* neither a stream nor a lease outlives everybody who could end it.
MicrophoneIsSafe ==
  ExclusiveLease /\ CaptureHasLease /\ NoOrphanStream /\ LeaseReachable

\* Going to the background always frees the microphone in the end.
BackgroundFreesMicrophone ==
  \A l \in Leases : l \in revoking ~> l \notin active

\* A stop() is never overtaken by the start() it raced: the owner's streams
\* end up closed unless it is started again.
StopTakesEffect ==
  \A o \in Owners :
    stopReq[o] ~> \/ ~stopReq[o]
                  \/ \A l \in Leases :
                       leaseOwner[l] = o => stream[l] # "open"

\* Every reference an owner or one of its pending calls keeps is to a lease
\* that was granted to that owner.
OwnLeasesOnly ==
  /\ \A l \in active \cup revoking : leaseOwner[l] # None
  /\ \A o \in Owners :
       \A l \in {lease[o], capture[o], granted[o]} \ {None} :
         leaseOwner[l] = o
  /\ \A s \in stops :
       \A l \in {s.lease, s.capture, s.revoked} \ {None} :
         leaseOwner[l] = s.owner
  /\ \A l \in Leases : leaseOwner[l] = None => stream[l] = "none"

\* A start() past acquire() has its lease, and while no stop() came nobody
\* else can release it; a capture runs only between starts.
StartsKeepTheirLease ==
  \A o \in Owners :
    /\ granted[o] = None <=> starting[o] \in {"no", "permission"}
    /\ starting[o] # "no" => capture[o] = None
    /\ starting[o] = "acquired" => stream[granted[o]] = "none"
    /\ starting[o] \in {"opening", "unwinding"} /\ granted[o] \in active =>
         lease[o] = granted[o]
    /\ starting[o] \in {"acquired", "opening"} /\ ~stopReq[o] =>
         /\ granted[o] \in active
         /\ \A s \in stops : granted[o] \notin {s.lease, s.revoked}

\* The capture that runs is released by its owner alone: no pending stop() has
\* it in its snapshot.
CaptureKeepsItsLease ==
  \A o \in Owners :
    capture[o] # None =>
      /\ lease[o] = capture[o]
      /\ stream[capture[o]] # "none"
      /\ \A s \in stops : capture[o] \notin {s.lease, s.revoked}

\* A stop() whose lease is still active has not been overtaken, and the stream
\* it closes was opened.
StopsFindTheirLease ==
  \A s \in stops :
    /\ s.lease \in active => lease[s.owner] = s.lease
    /\ s.capture # None => stream[s.capture] # "none"

\* The inductive invariant: in every reachable state the coordinator's, the
\* owners' and the pending calls' ideas of who has the microphone agree.
Consistent ==
  /\ TypeOK
  /\ OwnLeasesOnly
  /\ ExclusiveLease
  /\ CaptureHasLease
  /\ StartsKeepTheirLease
  /\ CaptureKeepsItsLease
  /\ StopsFindTheirLease
  /\ NoOrphanStream
  /\ LeaseReachable

\* What AudioSessionCoordinator.revokeActive promises: "the owner's onRevoke
\* runs first so the stream and the DSP isolate are gone before the lease is
\* freed".
RevokedLeaseHasNoStream ==
  \A l \in revoking : l \notin active => stream[l] # "open"
=============================================================================
