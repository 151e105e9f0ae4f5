-------------------------- MODULE MicSession_proofs ---------------------------
(***************************************************************************)
(* Proofs about MicSession, for any sets of owners and leases and any      *)
(* number of stop() calls waiting at once.                                 *)
(***************************************************************************)
EXTENDS MicSession, TLAPS

LEMMA InitConsistent == Init => Consistent
  BY MicSessionAssumptions
  DEF Init, Consistent, TypeOK, MaybeLease, StopCall, OwnLeasesOnly,
      ExclusiveLease, CaptureHasLease, StartsKeepTheirLease,
      CaptureKeepsItsLease, StopsFindTheirLease, NoOrphanStream, LeaseReachable

\* A start() waiting for the permission.
LEMMA StartKeeps ==
  ASSUME Consistent, NEW o \in Owners, Start(o)
  PROVE  Consistent'
<1> USE MicSessionAssumptions DEF Consistent, TypeOK, MaybeLease, StopCall
<1> USE DEF Start, coordinatorVars
<1>1. TypeOK'
  OBVIOUS
<1>2. OwnLeasesOnly'
  BY DEF OwnLeasesOnly
<1>3. ExclusiveLease'
  BY DEF OwnLeasesOnly, ExclusiveLease
<1>4. CaptureHasLease'
  BY DEF OwnLeasesOnly, ExclusiveLease, CaptureHasLease, StartsKeepTheirLease,
         CaptureKeepsItsLease
<1>5. StartsKeepTheirLease'
  BY DEF OwnLeasesOnly, ExclusiveLease, CaptureHasLease, StartsKeepTheirLease,
         CaptureKeepsItsLease, StopsFindTheirLease
<1>6. CaptureKeepsItsLease'
  BY DEF OwnLeasesOnly, CaptureHasLease, StartsKeepTheirLease,
         CaptureKeepsItsLease
<1>7. StopsFindTheirLease'
  BY DEF OwnLeasesOnly, ExclusiveLease, StartsKeepTheirLease,
         StopsFindTheirLease, CaptureKeepsItsLease
<1>8. NoOrphanStream'
  BY DEF OwnLeasesOnly, StartsKeepTheirLease, NoOrphanStream
<1>9. LeaseReachable'
  BY DEF OwnLeasesOnly, ExclusiveLease, StartsKeepTheirLease,
         StopsFindTheirLease, CaptureKeepsItsLease, LeaseReachable, ReleasedBy
<1> QED
  BY <1>1, <1>2, <1>3, <1>4, <1>5, <1>6, <1>7, <1>8, <1>9

\* A start() that is refused.
LEMMA StartRefusedKeeps ==
  ASSUME Consistent, NEW o \in Owners, StartRefused(o)
  PROVE  Consistent'
<1> USE MicSessionAssumptions DEF Consistent, TypeOK, MaybeLease, StopCall
<1> USE DEF StartRefused, EndStart, coordinatorVars
<1>1. TypeOK'
  OBVIOUS
<1>2. OwnLeasesOnly'
  BY DEF OwnLeasesOnly
<1>3. ExclusiveLease'
  BY DEF OwnLeasesOnly, ExclusiveLease
<1>4. CaptureHasLease'
  BY DEF OwnLeasesOnly, ExclusiveLease, CaptureHasLease, StartsKeepTheirLease,
         CaptureKeepsItsLease
<1>5. StartsKeepTheirLease'
  BY DEF OwnLeasesOnly, ExclusiveLease, CaptureHasLease, StartsKeepTheirLease,
         CaptureKeepsItsLease, StopsFindTheirLease
<1>6. CaptureKeepsItsLease'
  BY DEF OwnLeasesOnly, CaptureHasLease, StartsKeepTheirLease,
         CaptureKeepsItsLease
<1>7. StopsFindTheirLease'
  BY DEF OwnLeasesOnly, ExclusiveLease, StartsKeepTheirLease,
         StopsFindTheirLease, CaptureKeepsItsLease
<1>8. NoOrphanStream'
  BY DEF OwnLeasesOnly, StartsKeepTheirLease, NoOrphanStream
<1>9. LeaseReachable'
  BY DEF OwnLeasesOnly, ExclusiveLease, StartsKeepTheirLease,
         StopsFindTheirLease, CaptureKeepsItsLease, LeaseReachable, ReleasedBy
<1> QED
  BY <1>1, <1>2, <1>3, <1>4, <1>5, <1>6, <1>7, <1>8, <1>9

\* The coordinator grants a lease that nothing refers to yet.
LEMMA AcquireKeeps ==
  ASSUME Consistent, NEW o \in Owners, Acquire(o)
  PROVE  Consistent'
<1> USE MicSessionAssumptions DEF Consistent, TypeOK, MaybeLease, StopCall
<1> USE DEF Acquire, Free, NewLease, Unused
<1>1. TypeOK'
  OBVIOUS
<1>2. OwnLeasesOnly'
  BY DEF OwnLeasesOnly
<1>3. ExclusiveLease'
  BY DEF OwnLeasesOnly, ExclusiveLease
<1>4. CaptureHasLease'
  BY DEF OwnLeasesOnly, ExclusiveLease, CaptureHasLease, StartsKeepTheirLease,
         CaptureKeepsItsLease
<1>5. StartsKeepTheirLease'
  BY DEF OwnLeasesOnly, ExclusiveLease, CaptureHasLease, StartsKeepTheirLease,
         CaptureKeepsItsLease, StopsFindTheirLease
<1>6. CaptureKeepsItsLease'
  BY DEF OwnLeasesOnly, CaptureHasLease, StartsKeepTheirLease,
         CaptureKeepsItsLease
<1>7. StopsFindTheirLease'
  BY DEF OwnLeasesOnly, ExclusiveLease, StartsKeepTheirLease,
         StopsFindTheirLease, CaptureKeepsItsLease
<1>8. NoOrphanStream'
  BY DEF OwnLeasesOnly, StartsKeepTheirLease, NoOrphanStream
<1>9. LeaseReachable'
  BY DEF OwnLeasesOnly, ExclusiveLease, StartsKeepTheirLease,
         StopsFindTheirLease, CaptureKeepsItsLease, LeaseReachable, ReleasedBy
<1> QED
  BY <1>1, <1>2, <1>3, <1>4, <1>5, <1>6, <1>7, <1>8, <1>9

\* The coordinator refuses.
LEMMA BusyKeeps ==
  ASSUME Consistent, NEW o \in Owners, Busy(o)
  PROVE  Consistent'
<1> USE MicSessionAssumptions DEF Consistent, TypeOK, MaybeLease, StopCall
<1> USE DEF Busy, EndStart, coordinatorVars
<1>1. TypeOK'
  OBVIOUS
<1>2. OwnLeasesOnly'
  BY DEF OwnLeasesOnly
<1>3. ExclusiveLease'
  BY DEF OwnLeasesOnly, ExclusiveLease
<1>4. CaptureHasLease'
  BY DEF OwnLeasesOnly, ExclusiveLease, CaptureHasLease, StartsKeepTheirLease,
         CaptureKeepsItsLease
<1>5. StartsKeepTheirLease'
  BY DEF OwnLeasesOnly, ExclusiveLease, CaptureHasLease, StartsKeepTheirLease,
         CaptureKeepsItsLease, StopsFindTheirLease
<1>6. CaptureKeepsItsLease'
  BY DEF OwnLeasesOnly, CaptureHasLease, StartsKeepTheirLease,
         CaptureKeepsItsLease
<1>7. StopsFindTheirLease'
  BY DEF OwnLeasesOnly, ExclusiveLease, StartsKeepTheirLease,
         StopsFindTheirLease, CaptureKeepsItsLease
<1>8. NoOrphanStream'
  BY DEF OwnLeasesOnly, StartsKeepTheirLease, NoOrphanStream
<1>9. LeaseReachable'
  BY DEF OwnLeasesOnly, ExclusiveLease, StartsKeepTheirLease,
         StopsFindTheirLease, CaptureKeepsItsLease, LeaseReachable, ReleasedBy
<1> QED
  BY <1>1, <1>2, <1>3, <1>4, <1>5, <1>6, <1>7, <1>8, <1>9

\* The lease reaches its start().
LEMMA OpenKeeps ==
  ASSUME Consistent, NEW o \in Owners, Open(o)
  PROVE  Consistent'
<1> USE MicSessionAssumptions DEF Consistent, TypeOK, MaybeLease, StopCall
<1> USE DEF Open, Release, Clear, EndStart, coordinatorVars
<1>1. TypeOK'
  OBVIOUS
<1>2. OwnLeasesOnly'
  BY DEF OwnLeasesOnly
<1>3. ExclusiveLease'
  BY DEF OwnLeasesOnly, ExclusiveLease
<1>4. CaptureHasLease'
  BY DEF OwnLeasesOnly, ExclusiveLease, CaptureHasLease, StartsKeepTheirLease,
         CaptureKeepsItsLease
<1>5. StartsKeepTheirLease'
  BY DEF OwnLeasesOnly, ExclusiveLease, CaptureHasLease, StartsKeepTheirLease,
         CaptureKeepsItsLease, StopsFindTheirLease
<1>6. CaptureKeepsItsLease'
  BY DEF OwnLeasesOnly, CaptureHasLease, StartsKeepTheirLease,
         CaptureKeepsItsLease
<1>7. StopsFindTheirLease'
  BY DEF OwnLeasesOnly, ExclusiveLease, StartsKeepTheirLease,
         StopsFindTheirLease, CaptureKeepsItsLease
<1>8. NoOrphanStream'
  BY DEF OwnLeasesOnly, StartsKeepTheirLease, NoOrphanStream
<1>9. LeaseReachable'
  BY DEF OwnLeasesOnly, ExclusiveLease, StartsKeepTheirLease,
         StopsFindTheirLease, CaptureKeepsItsLease, LeaseReachable, ReleasedBy
<1> QED
  BY <1>1, <1>2, <1>3, <1>4, <1>5, <1>6, <1>7, <1>8, <1>9

\* The platform opens the stream.
LEMMA StreamOpensKeeps ==
  ASSUME Consistent, NEW o \in Owners, StreamOpens(o)
  PROVE  Consistent'
<1> USE MicSessionAssumptions DEF Consistent, TypeOK, MaybeLease, StopCall
<1> USE DEF StreamOpens, coordinatorVars
<1>1. TypeOK'
  OBVIOUS
<1>2. OwnLeasesOnly'
  BY DEF OwnLeasesOnly
<1>3. ExclusiveLease'
  BY DEF OwnLeasesOnly, ExclusiveLease
<1>4. CaptureHasLease'
  BY DEF OwnLeasesOnly, ExclusiveLease, CaptureHasLease, StartsKeepTheirLease,
         CaptureKeepsItsLease
<1>5. StartsKeepTheirLease'
  BY DEF OwnLeasesOnly, ExclusiveLease, CaptureHasLease, StartsKeepTheirLease,
         CaptureKeepsItsLease, StopsFindTheirLease
<1>6. CaptureKeepsItsLease'
  BY DEF OwnLeasesOnly, CaptureHasLease, StartsKeepTheirLease,
         CaptureKeepsItsLease
<1>7. StopsFindTheirLease'
  BY DEF OwnLeasesOnly, ExclusiveLease, StartsKeepTheirLease,
         StopsFindTheirLease, CaptureKeepsItsLease
<1>8. NoOrphanStream'
  BY DEF OwnLeasesOnly, StartsKeepTheirLease, NoOrphanStream
<1>9. LeaseReachable'
  BY DEF OwnLeasesOnly, ExclusiveLease, StartsKeepTheirLease,
         StopsFindTheirLease, CaptureKeepsItsLease, LeaseReachable, ReleasedBy
<1> QED
  BY <1>1, <1>2, <1>3, <1>4, <1>5, <1>6, <1>7, <1>8, <1>9

\* capture.start() returns.
LEMMA OpenedKeeps ==
  ASSUME Consistent, NEW o \in Owners, Opened(o)
  PROVE  Consistent'
<1> USE MicSessionAssumptions DEF Consistent, TypeOK, MaybeLease, StopCall
<1> USE DEF Opened, EndStart, coordinatorVars
<1>1. TypeOK'
  OBVIOUS
<1>2. OwnLeasesOnly'
  BY DEF OwnLeasesOnly
<1>3. ExclusiveLease'
  BY DEF OwnLeasesOnly, ExclusiveLease
<1>4. CaptureHasLease'
  BY DEF OwnLeasesOnly, ExclusiveLease, CaptureHasLease, StartsKeepTheirLease,
         CaptureKeepsItsLease
<1>5. StartsKeepTheirLease'
  BY DEF OwnLeasesOnly, ExclusiveLease, CaptureHasLease, StartsKeepTheirLease,
         CaptureKeepsItsLease, StopsFindTheirLease
<1>6. CaptureKeepsItsLease'
  BY DEF OwnLeasesOnly, CaptureHasLease, StartsKeepTheirLease,
         CaptureKeepsItsLease
<1>7. StopsFindTheirLease'
  BY DEF OwnLeasesOnly, ExclusiveLease, StartsKeepTheirLease,
         StopsFindTheirLease, CaptureKeepsItsLease
<1>8. NoOrphanStream'
  BY DEF OwnLeasesOnly, StartsKeepTheirLease, NoOrphanStream
<1>9. LeaseReachable'
  BY DEF OwnLeasesOnly, ExclusiveLease, StartsKeepTheirLease,
         StopsFindTheirLease, CaptureKeepsItsLease, LeaseReachable, ReleasedBy
<1> QED
  BY <1>1, <1>2, <1>3, <1>4, <1>5, <1>6, <1>7, <1>8, <1>9

\* capture.start() throws.
LEMMA OpenFailsKeeps ==
  ASSUME Consistent, NEW o \in Owners, OpenFails(o)
  PROVE  Consistent'
<1> USE MicSessionAssumptions DEF Consistent, TypeOK, MaybeLease, StopCall
<1> USE DEF OpenFails, coordinatorVars
<1>1. TypeOK'
  OBVIOUS
<1>2. OwnLeasesOnly'
  BY DEF OwnLeasesOnly
<1>3. ExclusiveLease'
  BY DEF OwnLeasesOnly, ExclusiveLease
<1>4. CaptureHasLease'
  BY DEF OwnLeasesOnly, ExclusiveLease, CaptureHasLease, StartsKeepTheirLease,
         CaptureKeepsItsLease
<1>5. StartsKeepTheirLease'
  BY DEF OwnLeasesOnly, ExclusiveLease, CaptureHasLease, StartsKeepTheirLease,
         CaptureKeepsItsLease, StopsFindTheirLease
<1>6. CaptureKeepsItsLease'
  BY DEF OwnLeasesOnly, CaptureHasLease, StartsKeepTheirLease,
         CaptureKeepsItsLease
<1>7. StopsFindTheirLease'
  BY DEF OwnLeasesOnly, ExclusiveLease, StartsKeepTheirLease,
         StopsFindTheirLease, CaptureKeepsItsLease
<1>8. NoOrphanStream'
  BY DEF OwnLeasesOnly, StartsKeepTheirLease, NoOrphanStream
<1>9. LeaseReachable'
  BY DEF OwnLeasesOnly, ExclusiveLease, StartsKeepTheirLease,
         StopsFindTheirLease, CaptureKeepsItsLease, LeaseReachable, ReleasedBy
<1> QED
  BY <1>1, <1>2, <1>3, <1>4, <1>5, <1>6, <1>7, <1>8, <1>9

\* The start() that must not go on has closed its stream.
LEMMA UnwoundKeeps ==
  ASSUME Consistent, NEW o \in Owners, Unwound(o)
  PROVE  Consistent'
<1> USE MicSessionAssumptions DEF Consistent, TypeOK, MaybeLease, StopCall
<1> USE DEF Unwound, Forget, Release, Clear, EndStart
<1>1. TypeOK'
  OBVIOUS
<1>2. OwnLeasesOnly'
  BY DEF OwnLeasesOnly
<1>3. ExclusiveLease'
  BY DEF OwnLeasesOnly, ExclusiveLease
<1>4. CaptureHasLease'
  BY DEF OwnLeasesOnly, ExclusiveLease, CaptureHasLease, StartsKeepTheirLease,
         CaptureKeepsItsLease
<1>5. StartsKeepTheirLease'
  BY DEF OwnLeasesOnly, ExclusiveLease, CaptureHasLease, StartsKeepTheirLease,
         CaptureKeepsItsLease, StopsFindTheirLease
<1>6. CaptureKeepsItsLease'
  BY DEF OwnLeasesOnly, CaptureHasLease, StartsKeepTheirLease,
         CaptureKeepsItsLease
<1>7. StopsFindTheirLease'
  BY DEF OwnLeasesOnly, ExclusiveLease, StartsKeepTheirLease,
         StopsFindTheirLease, CaptureKeepsItsLease
<1>8. NoOrphanStream'
  BY DEF OwnLeasesOnly, StartsKeepTheirLease, NoOrphanStream
<1>9. LeaseReachable'
  BY DEF OwnLeasesOnly, ExclusiveLease, StartsKeepTheirLease,
         StopsFindTheirLease, CaptureKeepsItsLease, LeaseReachable, ReleasedBy
<1> QED
  BY <1>1, <1>2, <1>3, <1>4, <1>5, <1>6, <1>7, <1>8, <1>9

\* The start() that must not go on could not close its stream.
LEMMA UnwindThrowsKeeps ==
  ASSUME Consistent, NEW o \in Owners, UnwindThrows(o)
  PROVE  Consistent'
<1> USE MicSessionAssumptions DEF Consistent, TypeOK, MaybeLease, StopCall
<1> USE DEF UnwindThrows, EndStart, coordinatorVars
<1>1. TypeOK'
  OBVIOUS
<1>2. OwnLeasesOnly'
  BY DEF OwnLeasesOnly
<1>3. ExclusiveLease'
  BY DEF OwnLeasesOnly, ExclusiveLease
<1>4. CaptureHasLease'
  BY DEF OwnLeasesOnly, ExclusiveLease, CaptureHasLease, StartsKeepTheirLease,
         CaptureKeepsItsLease
<1>5. StartsKeepTheirLease'
  BY DEF OwnLeasesOnly, ExclusiveLease, CaptureHasLease, StartsKeepTheirLease,
         CaptureKeepsItsLease, StopsFindTheirLease
<1>6. CaptureKeepsItsLease'
  BY DEF OwnLeasesOnly, CaptureHasLease, StartsKeepTheirLease,
         CaptureKeepsItsLease
<1>7. StopsFindTheirLease'
  BY DEF OwnLeasesOnly, ExclusiveLease, StartsKeepTheirLease,
         StopsFindTheirLease, CaptureKeepsItsLease
<1>8. NoOrphanStream'
  BY DEF OwnLeasesOnly, StartsKeepTheirLease, NoOrphanStream
<1>9. LeaseReachable'
  BY DEF OwnLeasesOnly, ExclusiveLease, StartsKeepTheirLease,
         StopsFindTheirLease, CaptureKeepsItsLease, LeaseReachable, ReleasedBy
<1> QED
  BY <1>1, <1>2, <1>3, <1>4, <1>5, <1>6, <1>7, <1>8, <1>9

\* What stop() leaves behind: a snapshot of the owner's capture and lease.
LEMMA BeginStopTakesASnapshot ==
  ASSUME Consistent, NEW o \in Owners, NEW r \in MaybeLease, BeginStop(o, r)
  PROVE  /\ stopReq' = [stopReq EXCEPT ![o] = TRUE]
         /\ capture' = [capture EXCEPT ![o] = None]
         /\ UNCHANGED <<lease, starting, granted, stream>>
         /\ \E s \in StopCall :
              /\ s.owner = o /\ s.capture = capture[o] /\ s.lease = lease[o]
              /\ s.revoked = r
              /\ \/ stops' = stops \cup {s}
                 \/ /\ stops' = stops
                    /\ s.capture = None /\ s.lease = None /\ s.revoked = None
<1>1. Snapshot(o, r) \in StopCall
  BY DEF Snapshot, StopCall, Consistent, TypeOK
<1>2. /\ Snapshot(o, r).owner = o
      /\ Snapshot(o, r).capture = capture[o]
      /\ Snapshot(o, r).lease = lease[o]
      /\ Snapshot(o, r).revoked = r
  BY DEF Snapshot
<1>3. \/ stops' = stops \cup {Snapshot(o, r)}
      \/ stops' = stops /\ capture[o] = None /\ lease[o] = None /\ r = None
  BY DEF BeginStop
<1>4. /\ stopReq' = [stopReq EXCEPT ![o] = TRUE]
      /\ capture' = [capture EXCEPT ![o] = None]
      /\ UNCHANGED <<lease, starting, granted, stream>>
  BY DEF BeginStop
<1> QED
  BY <1>1, <1>2, <1>3, <1>4

\* stop() takes its snapshot.
LEMMA StopKeeps ==
  ASSUME Consistent, NEW o \in Owners, Stop(o)
  PROVE  Consistent'
<1> USE MicSessionAssumptions DEF Consistent, TypeOK, MaybeLease, StopCall
<1> USE DEF Stop, coordinatorVars
<1>a. o \in Owners /\ None \in MaybeLease /\ BeginStop(o, None)
  BY DEF OwnLeasesOnly
<1>b. /\ stopReq' = [stopReq EXCEPT ![o] = TRUE]
      /\ capture' = [capture EXCEPT ![o] = None]
      /\ UNCHANGED <<lease, starting, granted, stream>>
  BY <1>a, BeginStopTakesASnapshot
<1>c. PICK s \in StopCall :
        /\ s.owner = o /\ s.capture = capture[o]
        /\ s.lease = lease[o] /\ s.revoked = None
        /\ \/ stops' = stops \cup {s}
           \/ /\ stops' = stops
              /\ s.capture = None /\ s.lease = None /\ s.revoked = None
  BY <1>a, BeginStopTakesASnapshot
<1>1. TypeOK'
  BY <1>a, <1>b, <1>c
<1>2. OwnLeasesOnly'
  BY <1>a, <1>b, <1>c
  DEF OwnLeasesOnly
<1>3. ExclusiveLease'
  BY <1>a, <1>b, <1>c
  DEF OwnLeasesOnly, ExclusiveLease
<1>4. CaptureHasLease'
  BY <1>a, <1>b, <1>c
  DEF OwnLeasesOnly, ExclusiveLease, CaptureHasLease, StartsKeepTheirLease,
         CaptureKeepsItsLease
<1>5. StartsKeepTheirLease'
  BY <1>a, <1>b, <1>c
  DEF OwnLeasesOnly, ExclusiveLease, CaptureHasLease, StartsKeepTheirLease,
         CaptureKeepsItsLease, StopsFindTheirLease
<1>6. CaptureKeepsItsLease'
  BY <1>a, <1>b, <1>c
  DEF OwnLeasesOnly, CaptureHasLease, StartsKeepTheirLease,
         CaptureKeepsItsLease
<1>7. StopsFindTheirLease'
  BY <1>a, <1>b, <1>c
  DEF OwnLeasesOnly, ExclusiveLease, StartsKeepTheirLease,
         StopsFindTheirLease, CaptureKeepsItsLease
<1>8. NoOrphanStream'
  BY <1>a, <1>b, <1>c
  DEF OwnLeasesOnly, StartsKeepTheirLease, NoOrphanStream
<1>9. LeaseReachable'
  BY <1>a, <1>b, <1>c
  DEF OwnLeasesOnly, ExclusiveLease, StartsKeepTheirLease,
         StopsFindTheirLease, CaptureKeepsItsLease, LeaseReachable, ReleasedBy
<1> QED
  BY <1>1, <1>2, <1>3, <1>4, <1>5, <1>6, <1>7, <1>8, <1>9

\* The app goes to the background and the holder is revoked.
LEMMA BackgroundKeeps ==
  ASSUME Consistent, Background
  PROVE  Consistent'
<1> USE MicSessionAssumptions DEF Consistent, TypeOK, MaybeLease, StopCall
<1> USE DEF Background
<1>a. leaseOwner[holder] \in Owners /\ holder \in MaybeLease /\ BeginStop(leaseOwner[holder], holder)
  BY DEF OwnLeasesOnly
<1>b. /\ stopReq' = [stopReq EXCEPT ![leaseOwner[holder]] = TRUE]
      /\ capture' = [capture EXCEPT ![leaseOwner[holder]] = None]
      /\ UNCHANGED <<lease, starting, granted, stream>>
  BY <1>a, BeginStopTakesASnapshot
<1>c. PICK s \in StopCall :
        /\ s.owner = leaseOwner[holder] /\ s.capture = capture[leaseOwner[holder]]
        /\ s.lease = lease[leaseOwner[holder]] /\ s.revoked = holder
        /\ \/ stops' = stops \cup {s}
           \/ /\ stops' = stops
              /\ s.capture = None /\ s.lease = None /\ s.revoked = None
  BY <1>a, BeginStopTakesASnapshot
<1>1. TypeOK'
  BY <1>a, <1>b, <1>c
<1>2. OwnLeasesOnly'
  BY <1>a, <1>b, <1>c
  DEF OwnLeasesOnly
<1>3. ExclusiveLease'
  BY <1>a, <1>b, <1>c
  DEF OwnLeasesOnly, ExclusiveLease
<1>4. CaptureHasLease'
  BY <1>a, <1>b, <1>c
  DEF OwnLeasesOnly, ExclusiveLease, CaptureHasLease, StartsKeepTheirLease,
         CaptureKeepsItsLease
<1>5. StartsKeepTheirLease'
  BY <1>a, <1>b, <1>c
  DEF OwnLeasesOnly, ExclusiveLease, CaptureHasLease, StartsKeepTheirLease,
         CaptureKeepsItsLease, StopsFindTheirLease
<1>6. CaptureKeepsItsLease'
  BY <1>a, <1>b, <1>c
  DEF OwnLeasesOnly, CaptureHasLease, StartsKeepTheirLease,
         CaptureKeepsItsLease
<1>7. StopsFindTheirLease'
  BY <1>a, <1>b, <1>c
  DEF OwnLeasesOnly, ExclusiveLease, StartsKeepTheirLease,
         StopsFindTheirLease, CaptureKeepsItsLease
<1>8. NoOrphanStream'
  BY <1>a, <1>b, <1>c
  DEF OwnLeasesOnly, StartsKeepTheirLease, NoOrphanStream
<1>9. LeaseReachable'
  BY <1>a, <1>b, <1>c
  DEF OwnLeasesOnly, ExclusiveLease, StartsKeepTheirLease,
         StopsFindTheirLease, CaptureKeepsItsLease, LeaseReachable, ReleasedBy
<1> QED
  BY <1>1, <1>2, <1>3, <1>4, <1>5, <1>6, <1>7, <1>8, <1>9

\* A stop() comes back and releases what it had found.
LEMMA StopReturnsKeeps ==
  ASSUME Consistent, NEW s \in stops, StopReturns(s)
  PROVE  Consistent'
<1> USE MicSessionAssumptions DEF Consistent, TypeOK, MaybeLease, StopCall
<1> USE DEF StopReturns, Close, Forget, Release, Clear, ReleasedBy
<1>1. TypeOK'
  OBVIOUS
<1>2. OwnLeasesOnly'
  BY DEF OwnLeasesOnly
<1>3. ExclusiveLease'
  BY DEF OwnLeasesOnly, ExclusiveLease
<1>4. CaptureHasLease'
  BY DEF OwnLeasesOnly, ExclusiveLease, CaptureHasLease, StartsKeepTheirLease,
         CaptureKeepsItsLease
<1>5. StartsKeepTheirLease'
  BY DEF OwnLeasesOnly, ExclusiveLease, CaptureHasLease, StartsKeepTheirLease,
         CaptureKeepsItsLease, StopsFindTheirLease
<1>6. CaptureKeepsItsLease'
  BY DEF OwnLeasesOnly, CaptureHasLease, StartsKeepTheirLease,
         CaptureKeepsItsLease
<1>7. StopsFindTheirLease'
  BY DEF OwnLeasesOnly, ExclusiveLease, StartsKeepTheirLease,
         StopsFindTheirLease, CaptureKeepsItsLease
<1>8. NoOrphanStream'
  BY DEF OwnLeasesOnly, StartsKeepTheirLease, NoOrphanStream
<1>9. LeaseReachable'
  BY DEF OwnLeasesOnly, ExclusiveLease, StartsKeepTheirLease,
         StopsFindTheirLease, CaptureKeepsItsLease, LeaseReachable, ReleasedBy
<1> QED
  BY <1>1, <1>2, <1>3, <1>4, <1>5, <1>6, <1>7, <1>8, <1>9

\* A stop() comes back with an error.
LEMMA StopThrowsKeeps ==
  ASSUME Consistent, NEW s \in stops, StopThrows(s)
  PROVE  Consistent'
<1> USE MicSessionAssumptions DEF Consistent, TypeOK, MaybeLease, StopCall
<1> USE DEF StopThrows, Close, Release, Clear
<1>1. TypeOK'
  OBVIOUS
<1>2. OwnLeasesOnly'
  BY DEF OwnLeasesOnly
<1>3. ExclusiveLease'
  BY DEF OwnLeasesOnly, ExclusiveLease
<1>4. CaptureHasLease'
  BY DEF OwnLeasesOnly, ExclusiveLease, CaptureHasLease, StartsKeepTheirLease,
         CaptureKeepsItsLease
<1>5. StartsKeepTheirLease'
  BY DEF OwnLeasesOnly, ExclusiveLease, CaptureHasLease, StartsKeepTheirLease,
         CaptureKeepsItsLease, StopsFindTheirLease
<1>6. CaptureKeepsItsLease'
  BY DEF OwnLeasesOnly, CaptureHasLease, StartsKeepTheirLease,
         CaptureKeepsItsLease
<1>7. StopsFindTheirLease'
  BY DEF OwnLeasesOnly, ExclusiveLease, StartsKeepTheirLease,
         StopsFindTheirLease, CaptureKeepsItsLease
<1>8. NoOrphanStream'
  BY DEF OwnLeasesOnly, StartsKeepTheirLease, NoOrphanStream
<1>9. LeaseReachable'
  BY DEF OwnLeasesOnly, ExclusiveLease, StartsKeepTheirLease,
         StopsFindTheirLease, CaptureKeepsItsLease, LeaseReachable, ReleasedBy
<1> QED
  BY <1>1, <1>2, <1>3, <1>4, <1>5, <1>6, <1>7, <1>8, <1>9

-----------------------------------------------------------------------------
(***************************************************************************)
(* The theorems                                                            *)
(***************************************************************************)

LEMMA StepConsistent == Consistent /\ [Next]_vars => Consistent'
<1> SUFFICES ASSUME Consistent, [Next]_vars PROVE Consistent'
  OBVIOUS
<1>1. ASSUME NEW o \in Owners, Start(o) PROVE Consistent'
  BY <1>1, StartKeeps
<1>2. ASSUME NEW o \in Owners, StartRefused(o) PROVE Consistent'
  BY <1>2, StartRefusedKeeps
<1>3. ASSUME NEW o \in Owners, Acquire(o) PROVE Consistent'
  BY <1>3, AcquireKeeps
<1>4. ASSUME NEW o \in Owners, Busy(o) PROVE Consistent'
  BY <1>4, BusyKeeps
<1>5. ASSUME NEW o \in Owners, Open(o) PROVE Consistent'
  BY <1>5, OpenKeeps
<1>6. ASSUME NEW o \in Owners, StreamOpens(o) PROVE Consistent'
  BY <1>6, StreamOpensKeeps
<1>7. ASSUME NEW o \in Owners, Opened(o) PROVE Consistent'
  BY <1>7, OpenedKeeps
<1>8. ASSUME NEW o \in Owners, OpenFails(o) PROVE Consistent'
  BY <1>8, OpenFailsKeeps
<1>9. ASSUME NEW o \in Owners, Unwound(o) PROVE Consistent'
  BY <1>9, UnwoundKeeps
<1>10. ASSUME NEW o \in Owners, UnwindThrows(o) PROVE Consistent'
  BY <1>10, UnwindThrowsKeeps
<1>11. ASSUME NEW o \in Owners, Stop(o) PROVE Consistent'
  BY <1>11, StopKeeps
<1>12. ASSUME Background PROVE Consistent'
  BY <1>12, BackgroundKeeps
<1>13. ASSUME NEW s \in stops, StopReturns(s) PROVE Consistent'
  BY <1>13, StopReturnsKeeps
<1>14. ASSUME NEW s \in stops, StopThrows(s) PROVE Consistent'
  BY <1>14, StopThrowsKeeps
<1>15. CASE UNCHANGED vars
  BY <1>15
  DEF vars, Consistent, TypeOK, OwnLeasesOnly, ExclusiveLease,
      CaptureHasLease, StartsKeepTheirLease, CaptureKeepsItsLease,
      StopsFindTheirLease, NoOrphanStream, LeaseReachable, ReleasedBy
<1> QED
  BY <1>1, <1>2, <1>3, <1>4, <1>5, <1>6, <1>7, <1>8, <1>9, <1>10, <1>11,
     <1>12, <1>13, <1>14, <1>15 DEF Next

\* The coordinator, every MicCapture and every pending call agree, in every
\* reachable state, on who has the microphone.
THEOREM AlwaysConsistent == Spec => []Consistent
<1>1. Init => Consistent
  BY InitConsistent
<1>2. Consistent /\ [Next]_vars => Consistent'
  BY StepConsistent
<1> QED
  BY <1>1, <1>2, PTL DEF Spec

\* "One owner at a time" and "no orphan stream", for any number of owners: two
\* leases are never active together, a running capture has the session behind
\* it, and what is open or active is in the hands of somebody who can end it,
\* whatever late release, stop() or revocation arrives and even if the platform
\* throws.
THEOREM TheMicrophoneIsSafe == Spec => []MicrophoneIsSafe
<1>1. Consistent => MicrophoneIsSafe
  BY DEF Consistent, MicrophoneIsSafe
<1> QED
  BY <1>1, AlwaysConsistent, PTL
=============================================================================
