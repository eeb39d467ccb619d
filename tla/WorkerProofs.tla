---------------------------- MODULE WorkerProofs ----------------------------
(***************************************************************************)
(* Proofs about the ownership protocol of Worker, for every set of workers *)
(* and every number of buckets.                                            *)
(***************************************************************************)
EXTENDS Worker, FiniteSetTheorems, TLAPS

USE DEF NoWorker, NoBucket, Undecided

-----------------------------------------------------------------------------
(***************************************************************************)
(* Type correctness.                                                       *)
(***************************************************************************)
LEMMA TypeInit == Init => TypeOK
BY DEF Init, TypeOK, NoRecords, Unassigned, BucketRecord, BucketState, Phase,
       Step, Event

LEMMA NotBuckets == NoBucket \notin Bucket /\ Undecided \notin Bucket
BY DEF Bucket

\* The ways a coordination ends keep the types.
LEMMA ForgetType ==
  ASSUME TypeOK, NEW w \in Worker, Forget(w)
  PROVE  /\ live' \in [Worker -> SUBSET Worker]
         /\ ready' \in [Worker -> SUBSET Worker]
         /\ seen' \in [Worker -> [Bucket -> BucketRecord]]
         /\ eff' \in [Worker -> [Bucket -> Worker \cup {NoWorker}]]
         /\ todo' \in [Worker -> SUBSET Bucket]
         /\ moves' \in [Worker -> Nat]
<1>1. NoRecords \in [Bucket -> BucketRecord]
  BY DEF NoRecords, Unassigned, BucketRecord, BucketState
<1> QED
  BY <1>1 DEF Forget, TypeOK

\* So do an outside event and the writes of bucket records.
LEMMA SpendType ==
  ASSUME TypeOK, NEW e \in Event, Spend(e)
  PROVE  events' \in [Event -> Nat]
BY DEF Spend, TypeOK

LEMMA SetType ==
  ASSUME TypeOK, NEW b \in Bucket, NEW o \in Worker \cup {NoWorker},
         NEW s \in BucketState, SetBucketAssignment(b, o, s)
  PROVE  bucket' \in [Bucket -> BucketRecord]
BY DEF SetBucketAssignment, TypeOK, BucketRecord

LEMMA MarkType ==
  ASSUME TypeOK, NEW b \in Bucket, NEW o \in Worker \cup {NoWorker},
         NEW v \in Worker, MarkBucketDraining(b, o, v)
  PROVE  bucket' \in [Bucket -> BucketRecord]
<1>1. [owner |-> o, successor |-> v, state |-> "draining"] \in BucketRecord
  BY DEF BucketRecord, BucketState
<1> QED
  BY <1>1 DEF MarkBucketDraining, TypeOK

LEMMA TypeStep == TypeOK /\ [Next]_vars => TypeOK'
<1> SUFFICES ASSUME TypeOK, [Next]_vars PROVE TypeOK'
  OBVIOUS
<1> USE DEF memberVars, queueVars, lifeVars, planVars
<1>1. CASE UNCHANGED vars
  BY <1>1 DEF vars, TypeOK
<1>2. ASSUME NEW w \in Worker, Start(w) PROVE TypeOK'
  BY <1>2 DEF Start, TypeOK, UpsertWorker, Status, Phase, Step
<1>3. ASSUME NEW w \in Worker, Heartbeat(w) PROVE TypeOK'
  BY <1>3 DEF Heartbeat, TypeOK, UpsertWorker, Status, Step
<1>4. ASSUME NEW w \in Worker, AcquireLock(w) PROVE TypeOK'
  BY <1>4 DEF AcquireLock, TypeOK, Step, Critical
<1>5. ASSUME NEW w \in Worker, Fail(w) PROVE /\ lock' \in Worker \cup {NoWorker}
                                              /\ pc' \in [Worker -> Step]
                                              /\ phase' \in [Worker -> Phase]
  BY <1>5 DEF Fail, ReleaseLock, TypeOK, Step, Phase
<1>6. ASSUME NEW w \in Worker, LockTimeout(w) PROVE TypeOK'
  <2>1. Fail(w) /\ Forget(w) /\ Spend("error")
    BY <1>6 DEF LockTimeout, Fail
  <2>2. events' \in [Event -> Nat]
    BY <2>1, SpendType DEF Event
  <2> QED
    BY <1>5, <1>6, <2>1, <2>2, ForgetType DEF LockTimeout, TypeOK
<1>7. ASSUME NEW w \in Worker, PublishLocalBucketStates(w) PROVE TypeOK'
  <2>1. \A b \in Bucket, s \in BucketState :
          [bucket[b] EXCEPT !.state = s] \in BucketRecord
    <3>1. ASSUME NEW r \in BucketRecord, NEW s \in BucketState
          PROVE  [r EXCEPT !.state = s] \in BucketRecord
      BY <3>1 DEF BucketRecord
    <3>2. \A b \in Bucket : bucket[b] \in BucketRecord
      BY DEF TypeOK
    <3> QED
      BY <3>1, <3>2
  <2>2. bucket' \in [Bucket -> BucketRecord]
    BY <1>7, <2>1 DEF PublishLocalBucketStates, TypeOK, BucketState
  <2> QED
    BY <1>7, <2>2 DEF PublishLocalBucketStates, TypeOK, Step
<1>8. ASSUME NEW w \in Worker, GetOwnedBuckets(w) PROVE TypeOK'
  BY <1>8 DEF GetOwnedBuckets, TypeOK, BucketRecord, BucketState, Unassigned,
              Step, Critical
<1>9. ASSUME NEW w \in Worker, SyncBackQueueAssignments(w) PROVE TypeOK'
  BY <1>9 DEF SyncBackQueueAssignments, SetBuckets, TypeOK, BucketRecord,
              BucketState, NoRecords, Unassigned, Step, Critical, Phase
<1>10. ASSUME NEW w \in Worker, ReadMembers(w) PROVE TypeOK'
  BY <1>10 DEF ReadMembers, TypeOK, Step, Critical
<1>11. ASSUME NEW w \in Worker, GetBuckets(w) PROVE TypeOK'
  BY <1>11 DEF GetBuckets, Lost, TypeOK, Step, Critical
<1>12. ASSUME NEW w \in Worker, Reclaim(w) PROVE TypeOK'
  <2>1. PICK b \in Bucket :
          /\ IF Inherits(w, seen[w][b])
               THEN SetBucketAssignment(b, seen[w][b].successor, "idle")
               ELSE SetBucketAssignment(b, NoWorker, "unassigned")
          /\ todo' = [todo EXCEPT ![w] = @ \ {b}]
    BY <1>12 DEF Reclaim
  <2>2. seen[w][b].successor \in Worker \cup {NoWorker}
    BY DEF TypeOK, BucketRecord
  <2>3. bucket' \in [Bucket -> BucketRecord]
    BY <2>1, <2>2, SetType DEF BucketState
  <2> QED
    BY <1>12, <2>1, <2>3 DEF Reclaim, TypeOK
<1>13. ASSUME NEW w \in Worker, NobodyReady(w) \/ Reconciled(w) PROVE TypeOK'
  <2>1. Forget(w) /\ Leave(w)
    BY <1>13 DEF NobodyReady, Reconciled, Leave, Fail
  <2>2. /\ lock' \in Worker \cup {NoWorker}
        /\ pc' \in [Worker -> Step]
        /\ phase' \in [Worker -> Phase]
    <3>1. CASE Fail(w)
      BY <1>5, <3>1
    <3>2. CASE ~Fail(w)
      BY <2>1, <3>2 DEF Leave, TypeOK, Step
    <3> QED
      BY <3>1, <3>2
  <2> QED
    BY <1>13, <2>1, <2>2, ForgetType DEF NobodyReady, Reconciled, TypeOK
<1>14. ASSUME NEW w \in Worker, Plan(w) PROVE TypeOK'
  BY <1>14 DEF Plan, TypeOK, BucketRecord, BucketState, NoRecords, Unassigned,
               Inherits, Step, Critical
<1>15. ASSUME NEW w \in Worker, AssignBucket(w) PROVE TypeOK'
  BY <1>15 DEF AssignBucket, SetBucketAssignment, TypeOK, BucketRecord,
               BucketState
<1>16. ASSUME NEW w \in Worker, Assigned(w) PROVE TypeOK'
  BY <1>16 DEF Assigned, TypeOK, Step, Critical
<1>17. ASSUME NEW w \in Worker, MoveBucket(w) PROVE TypeOK'
  <2>1. PICK b \in Bucket, v \in Worker :
          /\ MarkBucketDraining(b, eff[w][b], v)
          /\ IF CanMarkDraining(b, eff[w][b])
               THEN /\ eff' = [eff EXCEPT ![w][b] = v]
                    /\ moves' = [moves EXCEPT ![w] = @ + 1]
               ELSE UNCHANGED <<eff, moves>>
          /\ todo' = [todo EXCEPT ![w] = @ \ {b}]
    BY <1>17 DEF MoveBucket
  <2>2. bucket' \in [Bucket -> BucketRecord]
    <3>1. eff[w][b] \in Worker \cup {NoWorker}
      BY DEF TypeOK
    <3> QED
      BY <2>1, <3>1, MarkType
  <2>3. /\ eff' \in [Worker -> [Bucket -> Worker \cup {NoWorker}]]
        /\ moves' \in [Worker -> Nat]
        /\ todo' \in [Worker -> SUBSET Bucket]
    <3>1. CASE CanMarkDraining(b, eff[w][b])
      <4>1. [eff[w] EXCEPT ![b] = v] \in [Bucket -> Worker \cup {NoWorker}]
        BY DEF TypeOK
      <4>2. eff' = [eff EXCEPT ![w] = [eff[w] EXCEPT ![b] = v]]
        BY <2>1, <3>1
      <4>3. eff' \in [Worker -> [Bucket -> Worker \cup {NoWorker}]]
        BY <4>1, <4>2 DEF TypeOK
      <4>4. moves' = [moves EXCEPT ![w] = @ + 1] /\ moves[w] \in Nat
        BY <2>1, <3>1 DEF TypeOK
      <4>5. moves' \in [Worker -> Nat]
        BY <4>4 DEF TypeOK
      <4> QED
        BY <2>1, <4>3, <4>5 DEF TypeOK
    <3>2. CASE ~CanMarkDraining(b, eff[w][b])
      BY <2>1, <3>2 DEF TypeOK
    <3> QED
      BY <3>1, <3>2
  <2> QED
    BY <1>17, <2>2, <2>3 DEF MoveBucket, TypeOK
<1>18. ASSUME NEW w \in Worker, Attest(w) PROVE TypeOK'
  BY <1>18 DEF Attest, DrainedBuckets, TypeOK, Step, Critical
<1>19. ASSUME NEW w \in Worker, Promote(w) PROVE TypeOK'
  BY <1>19 DEF Promote, PromoteDrainedBucket, TypeOK, BucketRecord, BucketState
<1>20. ASSUME NEW w \in Worker, LocalWork(w) PROVE TypeOK'
  <2>1. CASE BeginEnqueue(w) \/ GiveUpEnqueue(w)
    <3>1. \E b \in Bucket \cup {NoBucket} : enqueuing' = [enqueuing EXCEPT ![w] = b]
      BY <2>1 DEF BeginEnqueue, GiveUpEnqueue, TypeOK
    <3>2. enqueuing' \in [Worker -> Bucket \cup {NoBucket, Undecided}]
      BY <3>1 DEF TypeOK
    <3> QED
      BY <2>1, <3>2 DEF BeginEnqueue, GiveUpEnqueue, TypeOK
  <2>2. CASE EndEnqueue(w)
    <3>1. enqueuing[w] \in Bucket
      BY <2>2 DEF EndEnqueue
    <3>2. busy' \in [Worker -> SUBSET Bucket]
      <4>1. CASE busy' = [busy EXCEPT ![w] = @ \cup {enqueuing[w]}]
        BY <3>1, <4>1 DEF TypeOK
      <4> QED
        BY <2>2, <4>1 DEF EndEnqueue, TypeOK
    <3>3. enqueuing' \in [Worker -> Bucket \cup {NoBucket, Undecided}]
      BY <2>2 DEF EndEnqueue, TypeOK
    <3> QED
      BY <2>2, <3>2, <3>3 DEF EndEnqueue, TypeOK
  <2>3. ASSUME NEW b \in Bucket, FinishWork(w, b) PROVE TypeOK'
    BY <2>3 DEF FinishWork, TypeOK
  <2> QED
    BY <1>20, <2>1, <2>2, <2>3 DEF LocalWork
<1>21. ASSUME NEW w \in Worker, Signal(w) \/ Shutdown(w) PROVE TypeOK'
  <2>1. events' \in [Event -> Nat]
    <3>1. Spend("stop") \/ UNCHANGED events
      BY <1>21 DEF Signal, Shutdown
    <3> QED
      BY <3>1, SpendType DEF TypeOK, Event
  <2>2. /\ draining' \in SUBSET Worker
        /\ enqueuing' \in [Worker -> Bucket \cup {NoBucket, Undecided}]
    BY <1>21 DEF Signal, Shutdown, MarkDraining, TypeOK
  <2>3. /\ members' \in [Worker -> {"absent", "ready", "draining"}]
        /\ expired' \in SUBSET Worker
    BY <1>21 DEF Signal, Shutdown, UpsertWorker, TypeOK
  <2>4. phase' \in [Worker -> Phase]
    BY <1>21 DEF Signal, Shutdown, TypeOK, Phase
  <2> QED
    BY <1>21, <2>1, <2>2, <2>3, <2>4 DEF Signal, Shutdown, TypeOK
<1>22. ASSUME NEW w \in Worker, Drained(w) \/ DrainTimeout(w) PROVE TypeOK'
  <2>1. PICK p \in Phase : CancelTasks(w, p)
    BY <1>22 DEF Drained, DrainTimeout, Phase
  <2>2. Forget(w)
    BY <2>1 DEF CancelTasks
  <2> QED
    BY <2>1, <2>2, ForgetType DEF CancelTasks, ReleaseLock, TypeOK, Step
<1>23. ASSUME NEW w \in Worker, Vanish(w)
       PROVE  /\ phase' \in [Worker -> Phase]
              /\ draining' \in SUBSET Worker
              /\ admitted' \in [Worker -> SUBSET Bucket]
              /\ ceding' \in [Worker -> SUBSET Bucket]
              /\ busy' \in [Worker -> SUBSET Bucket]
              /\ enqueuing' \in [Worker -> Bucket \cup {NoBucket, Undecided}]
              /\ pc' \in [Worker -> Step]
  BY <1>23 DEF Vanish, TypeOK, Phase, Step
<1>24. ASSUME NEW w \in Worker, Exit(w) \/ ReleaseTimeout(w) \/ Crash(w)
       PROVE TypeOK'
  <2>1. Vanish(w) /\ events' \in [Event -> Nat]
    BY <1>24 DEF Exit, ReleaseTimeout, Crash, Spend, TypeOK
  <2> QED
    BY <1>23, <1>24, <2>1, ForgetType
       DEF Exit, ReleaseTimeout, Crash, Vanish, TypeOK
<1>25. ASSUME NEW w \in Worker, BeginRelease(w) PROVE TypeOK'
  BY <1>25 DEF BeginRelease, OwnedBuckets, TypeOK, Step
<1>26. ASSUME NEW w \in Worker, ReleaseBucket(w) PROVE TypeOK'
  BY <1>26 DEF ReleaseBucket, SetBucketAssignment, TypeOK, BucketRecord,
               BucketState
<1>27. ASSUME NEW w \in Worker, EndRelease(w) PROVE TypeOK'
  BY <1>23, <1>27, ForgetType
     DEF EndRelease, Vanish, UpsertWorker, ReleaseLock, TypeOK
<1>28. ASSUME NEW w \in Worker, DatabaseError(w) PROVE TypeOK'
  <2>1. Fail(w) /\ Forget(w) /\ Spend("error")
    BY <1>28 DEF DatabaseError, Fail
  <2>2. events' \in [Event -> Nat]
    BY <2>1, SpendType DEF Event
  <2> QED
    BY <1>5, <1>28, <2>1, <2>2, ForgetType DEF DatabaseError, TypeOK
<1>29. ASSUME NEW w \in Worker, LeaseExpires(w) PROVE TypeOK'
  <2>1. events' \in [Event -> Nat]
    BY <1>29, SpendType DEF LeaseExpires, TypeOK, Event
  <2> QED
    BY <1>29, <2>1 DEF LeaseExpires, TypeOK
<1>30. CASE LockExpires
  <2>1. events' \in [Event -> Nat]
    <3>1. Spend("lockLoss") \/ UNCHANGED events
      BY <1>30 DEF LockExpires
    <3> QED
      BY <3>1, SpendType DEF TypeOK, Event
  <2> QED
    BY <1>30, <2>1 DEF LockExpires, TypeOK
<1> QED
  BY <1>1, <1>2, <1>3, <1>4, <1>6, <1>7, <1>8, <1>9, <1>10, <1>11, <1>12,
     <1>13, <1>14, <1>15, <1>16, <1>17, <1>18, <1>19, <1>20, <1>21, <1>22,
     <1>24, <1>25, <1>26, <1>27, <1>28, <1>29, <1>30
     DEF Next, Coordinate, Reconcile, Stop

(***************************************************************************)
(* Every variable keeps its type, whatever leases and locks do.            *)
(***************************************************************************)
THEOREM TypeCorrect == Spec => []TypeOK
BY TypeInit, TypeStep, PTL DEF Spec

-----------------------------------------------------------------------------
(***************************************************************************)
(* Bucket records.  BucketSteps names the only actions that write them.    *)
(***************************************************************************)
LEMMA BucketSteps ==
  ASSUME [Next]_vars
  PROVE  \/ UNCHANGED bucket
         \/ \E w \in Worker :
              \/ PublishLocalBucketStates(w) \/ Reclaim(w) \/ AssignBucket(w)
              \/ MoveBucket(w) \/ Promote(w) \/ ReleaseBucket(w)
<1>1. CASE UNCHANGED vars
  BY <1>1 DEF vars
<1>2. CASE LockExpires
  BY <1>2 DEF LockExpires
<1>3. ASSUME NEW w \in Worker,
             \/ Start(w) \/ Heartbeat(w) \/ AcquireLock(w) \/ LockTimeout(w)
             \/ GetOwnedBuckets(w) \/ SyncBackQueueAssignments(w)
             \/ ReadMembers(w) \/ GetBuckets(w) \/ NobodyReady(w) \/ Plan(w)
             \/ Assigned(w) \/ Attest(w) \/ Reconciled(w)
      PROVE  UNCHANGED bucket
  BY <1>3 DEF Start, Heartbeat, AcquireLock, LockTimeout, GetOwnedBuckets,
              SyncBackQueueAssignments, ReadMembers, GetBuckets, NobodyReady,
              Plan, Assigned, Attest, Reconciled
<1>4. ASSUME NEW w \in Worker,
             \/ LocalWork(w) \/ Crash(w) \/ DatabaseError(w)
             \/ LeaseExpires(w)
      PROVE  UNCHANGED bucket
  BY <1>4 DEF LocalWork, BeginEnqueue, GiveUpEnqueue, EndEnqueue,
              FinishWork, Crash,
              DatabaseError, LeaseExpires
<1>5. ASSUME NEW w \in Worker, Stop(w), ~ReleaseBucket(w)
      PROVE  UNCHANGED bucket
  BY <1>5 DEF Stop, Signal, Shutdown, Drained, DrainTimeout, CancelTasks, Exit,
              BeginRelease, ReleaseTimeout, EndRelease
<1> QED
  BY <1>1, <1>2, <1>3, <1>4, <1>5 DEF Next, Coordinate, Reconcile

(***************************************************************************)
(* A bucket is never reserved for the worker it is taken from: the source  *)
(* of a move is above its target, the destination below.                   *)
(***************************************************************************)
LEMMA LoadType ==
  ASSUME NEW w \in Worker, NEW v PROVE Load(w, v) \in Nat
<1>1. IsFiniteSet(Bucket)
  BY BucketAssumption, FS_Interval DEF Bucket
<1>2. IsFiniteSet({b \in Bucket : eff[w][b] = v})
  BY <1>1, FS_Subset
<1> QED
  BY <1>2, FS_CardinalityType DEF Load

LEMMA TargetType ==
  ASSUME NEW R \in SUBSET Worker, NEW v \in R
  PROVE  TargetCount(R, v) \in Nat
<1>1. IsFiniteSet(R) /\ IsFiniteSet({u \in R : u < v})
  BY WorkerAssumption, FS_Subset
<1>2. Cardinality(R) \in Nat \ {0} /\ Cardinality({u \in R : u < v}) \in Nat
  BY <1>1, FS_CardinalityType, FS_EmptySet
<1>3. BucketCount \div Cardinality(R) \in Nat
  BY <1>2, BucketAssumption
<1> QED
  BY <1>3 DEF TargetCount

LEMMA SourceIsNotDestination ==
  ASSUME TypeOK, NEW w \in Worker, NEW b \in Bucket, NEW v \in Worker,
         Movable(w, b), Receiver(w, v)
  PROVE  eff[w][b] # v
<1>1. /\ Load(w, v) < TargetCount(ready[w], v)
      /\ v \in ready[w] /\ ready[w] \in SUBSET Worker
  BY DEF Receiver, Below, TypeOK
<1>2. Load(w, v) \in Nat /\ TargetCount(ready[w], v) \in Nat
  BY <1>1, LoadType, TargetType
<1>3. Load(w, eff[w][b]) > TargetCount(ready[w], eff[w][b])
  BY DEF Movable
<1> QED
  BY <1>1, <1>2, <1>3

LEMMA RecordsStep ==
  ASSUME TypeOK, RecordsWellFormed, [Next]_vars PROVE RecordsWellFormed'
<1> USE WorkerAssumption DEF TypeOK, RecordsWellFormed, BucketRecord
<1>1. CASE UNCHANGED bucket
  BY <1>1
<1>2. ASSUME NEW w \in Worker, PublishLocalBucketStates(w)
      PROVE  RecordsWellFormed'
  BY <1>2 DEF PublishLocalBucketStates, CanMarkDraining
<1>3. ASSUME NEW b \in Bucket, NEW o \in Worker, SetBucketAssignment(b, o, "idle")
      PROVE  RecordsWellFormed'
  BY <1>3 DEF SetBucketAssignment
<1>4. ASSUME NEW b \in Bucket, SetBucketAssignment(b, NoWorker, "unassigned")
      PROVE  RecordsWellFormed'
  BY <1>4 DEF SetBucketAssignment
<1>5. ASSUME NEW w \in Worker,
             Reclaim(w) \/ AssignBucket(w) \/ ReleaseBucket(w)
      PROVE  RecordsWellFormed'
  BY <1>3, <1>4, <1>5 DEF Reclaim, Inherits, AssignBucket, ReleaseBucket
<1>6. ASSUME NEW w \in Worker, MoveBucket(w) PROVE RecordsWellFormed'
  <2>1. PICK b \in Bucket, v \in Worker :
          Movable(w, b) /\ Receiver(w, v) /\ MarkBucketDraining(b, eff[w][b], v)
    BY <1>6 DEF MoveBucket, NextMovable
  <2>2. eff[w][b] # v
    BY <2>1, SourceIsNotDestination
  <2> QED
    BY <2>1, <2>2 DEF MarkBucketDraining, CanMarkDraining
<1>7. ASSUME NEW w \in Worker, Promote(w) PROVE RecordsWellFormed'
  <2>1. PICK b \in Bucket : PromoteDrainedBucket(b, w, seen[w][b].successor)
    BY <1>7 DEF Promote
  <2> QED
    BY <2>1 DEF PromoteDrainedBucket, CanPromote
<1> QED
  BY <1>1, <1>2, <1>5, <1>6, <1>7, BucketSteps

(***************************************************************************)
(* Bucket records stay consistent, whatever leases and locks do.           *)
(***************************************************************************)
THEOREM RecordsCorrect == Spec => []RecordsWellFormed
<1>1. Init => RecordsWellFormed
  BY WorkerAssumption DEF Init, RecordsWellFormed, NoRecords, Unassigned
<1> QED
  BY <1>1, RecordsStep, TypeCorrect, PTL DEF Spec

-----------------------------------------------------------------------------
(***************************************************************************)
(* The inductive invariant.  Rest is IndInv without the two parts proved   *)
(* above.  The lemmas follow the life of a worker: membership, learning,   *)
(* reconciling, local work, stopping.                                      *)
(***************************************************************************)
Rest ==
  /\ NewUnknown /\ PhaseInv /\ LockInv /\ LeaseInv
  /\ WorkIsOwned /\ AdmissionInv /\ SnapshotInv /\ TodoInv

\* Clearing the local variables of a worker leaves nothing behind in them.
LEMMA ForgetNew ==
  ASSUME TypeOK, NewUnknown, NEW w \in Worker, Forget(w)
  PROVE  /\ todo'[w] = {}
         /\ \A v \in Worker : v # w => todo'[v] = todo[v] /\ seen'[v] = seen[v]
                                        /\ live'[v] = live[v]
         /\ \A u, v \in Worker : phase[u] = "new" =>
              u \notin ready'[v] /\ \A b \in Bucket : seen'[v][b].successor # u
BY WorkerAssumption DEF Forget, TypeOK, NewUnknown, NoRecords, Unassigned

LEMMA MembershipSteps ==
  ASSUME Timely, IndInv, TypeOK', NEW w \in Worker,
         \/ Start(w) \/ Heartbeat(w) \/ LeaseExpires(w) \/ ReadMembers(w)
  PROVE  Rest'
<1> USE WorkerAssumption
    DEF Rest, IndInv, TypeOK, NewUnknown, PhaseInv, LockInv, LeaseInv,
        WorkIsOwned, AdmissionInv, SnapshotInv, TodoInv, Alive, Work,
        OwnedBuckets, Critical, UpsertWorker, memberVars, queueVars, lifeVars,
        planVars
<1>1. CASE Start(w)
  BY <1>1 DEF Start, Status
<1>2. CASE Heartbeat(w)
  BY <1>2 DEF Heartbeat, Status
<1>3. CASE LeaseExpires(w)
  <2>1. ~Alive(w)
    BY <1>3 DEF LeaseExpires, Spend, Timely, Event
  <2>2. LeaseInv'
    BY <1>3, <2>1 DEF LeaseExpires
  <2>3. NewUnknown' /\ PhaseInv' /\ LockInv' /\ WorkIsOwned'
    BY <1>3 DEF LeaseExpires
  <2>4. AdmissionInv' /\ SnapshotInv' /\ TodoInv'
    BY <1>3 DEF LeaseExpires
  <2> QED
    BY <2>2, <2>3, <2>4
<1>4. CASE ReadMembers(w)
  <2>1. NewUnknown' /\ PhaseInv' /\ LockInv'
    BY <1>4 DEF ReadMembers
  <2>2. LeaseInv'
    BY <1>4 DEF ReadMembers
  <2>3. WorkIsOwned'
    BY <1>4 DEF ReadMembers
  <2>4. AdmissionInv' /\ SnapshotInv'
    BY <1>4 DEF ReadMembers
  <2>5. TodoInv'
    <3> HIDE DEF TypeOK, NewUnknown, PhaseInv, LockInv, WorkIsOwned,
                 AdmissionInv, SnapshotInv
    <3>1. \A v \in Worker : v # w => pc'[v] = pc[v] /\ live'[v] = live[v]
      BY <1>4 DEF ReadMembers, TypeOK
    <3>2. /\ UNCHANGED <<bucket, phase, admitted, busy, enqueuing, todo>>
          /\ pc'[w] = "records"
      BY <1>4 DEF ReadMembers, TypeOK
    <3>3. \A v \in Worker : Alive(v) => v \in live'[w]
      BY <1>4 DEF ReadMembers, TypeOK
    <3> QED
      BY <3>1, <3>2, <3>3
  <2> QED
    BY <2>1, <2>2, <2>3, <2>4, <2>5
<1> QED
  BY <1>1, <1>2, <1>3, <1>4

LEMMA LockSteps ==
  ASSUME IndInv, NEW w \in Worker,
         PublishLocalBucketStates(w) \/ AcquireLock(w)
  PROVE  Rest'
<1> USE WorkerAssumption
    DEF Rest, IndInv, TypeOK, NewUnknown, PhaseInv, LockInv, LeaseInv,
        WorkIsOwned, AdmissionInv, SnapshotInv, TodoInv, Alive, Work,
        OwnedBuckets, Critical, memberVars, queueVars, lifeVars, planVars
<1>1. CASE PublishLocalBucketStates(w)
  BY <1>1 DEF PublishLocalBucketStates, CanMarkDraining
<1>2. CASE AcquireLock(w)
  <2>1. LockInv'
    BY <1>2 DEF AcquireLock
  <2>2. NewUnknown' /\ PhaseInv' /\ LeaseInv' /\ WorkIsOwned'
    BY <1>2 DEF AcquireLock
  <2>3. AdmissionInv' /\ SnapshotInv' /\ TodoInv'
    BY <1>2 DEF AcquireLock
  <2> QED
    BY <2>1, <2>2, <2>3
<1> QED
  BY <1>1, <1>2

LEMMA SyncSteps ==
  ASSUME IndInv, NEW w \in Worker,
         GetOwnedBuckets(w) \/ SyncBackQueueAssignments(w)
  PROVE  Rest'
<1> USE DEF memberVars, queueVars
<1>1. TypeOK /\ Rest
  BY DEF IndInv, Rest
<1>2. /\ UNCHANGED <<members, expired, bucket, lock, draining, busy, enqueuing,
                     live, ready, todo>>
      /\ \A v \in Worker : v # w =>
           /\ pc'[v] = pc[v] /\ seen'[v] = seen[v] /\ phase'[v] = phase[v]
           /\ admitted'[v] = admitted[v] /\ ceding'[v] = ceding[v]
  BY <1>1 DEF GetOwnedBuckets, SyncBackQueueAssignments, SetBuckets, lifeVars,
              TypeOK
<1>3. /\ phase'[w] = phase[w] \/ (phase[w] = "starting" /\ phase'[w] = "running")
      /\ pc[w] \in {"learn", "relearn", "apply", "reapply"}
      /\ pc'[w] \in {"apply", "reapply", "members", "idle"}
      /\ pc'[w] = "reapply" => pc[w] = "relearn"
      /\ pc'[w] \in {"apply", "members"} => pc[w] \in {"learn", "apply"}
  BY <1>1 DEF GetOwnedBuckets, SyncBackQueueAssignments, lifeVars, TypeOK
<1>4. \A b \in Bucket :
        /\ seen'[w][b].successor \in {bucket[b].successor, NoWorker}
        /\ pc'[w] \in {"apply", "reapply"} /\ seen'[w][b].state # "unassigned"
             => bucket[b].owner = w
  BY <1>1, <1>3 DEF GetOwnedBuckets, SyncBackQueueAssignments, TypeOK,
                    NoRecords, Unassigned
<1>5. \A b \in admitted'[w] :
        b \notin ceding'[w] /\ (Alive(w) => bucket[b].owner = w \/ b \in admitted[w])
  <2>1. CASE GetOwnedBuckets(w)
    BY <1>1, <2>1 DEF GetOwnedBuckets, Rest, AdmissionInv
  <2>2. CASE SyncBackQueueAssignments(w)
    <3>1. /\ admitted'[w] = {b \in Bucket : seen[w][b].state \in {"idle", "active"}}
          /\ ceding'[w] = {b \in Bucket : seen[w][b].state = "draining"}
      BY <1>1, <2>2 DEF SyncBackQueueAssignments, SetBuckets, TypeOK
    <3>2. \A b \in Bucket : seen[w][b].state # "unassigned" => bucket[b].owner = w
      BY <1>1, <2>2 DEF SyncBackQueueAssignments, Rest, SnapshotInv
    <3> QED
      BY <3>1, <3>2
  <2> QED
    BY <2>1, <2>2
<1>6. Alive(w) /\ \A v \in Worker : /\ Work(v)' = Work(v)
                                    /\ (Alive(v)' <=> Alive(v))
                                    /\ phase'[v] = "new" => phase[v] = "new"
  BY <1>1, <1>2, <1>3 DEF Alive, Work, Rest, PhaseInv
<1>7. NewUnknown'
  <2> SUFFICES ASSUME NEW u \in Worker, phase[u] = "new", u # w, NEW v \in Worker
               PROVE  \A b \in Bucket : seen'[v][b].successor # u
    BY <1>1, <1>2, <1>6 DEF Rest, NewUnknown, Alive
  <2>1. CASE v = w
    BY <1>1, <1>4, <2>1, WorkerAssumption DEF Rest, NewUnknown
  <2>2. CASE v # w
    BY <1>1, <1>2, <2>2 DEF Rest, NewUnknown
  <2> QED
    BY <2>1, <2>2
<1>8. PhaseInv'
  BY <1>1, <1>2, <1>3, <1>6 DEF Rest, PhaseInv
<1>9. LockInv'
  BY <1>1, <1>2, <1>3 DEF Rest, LockInv, Critical
<1>10. LeaseInv'
  BY <1>1, <1>2, <1>6 DEF Rest, LeaseInv
<1>11. WorkIsOwned'
  BY <1>1, <1>2, <1>6 DEF Rest, WorkIsOwned
<1>12. AdmissionInv'
  <2> SUFFICES ASSUME NEW v \in Worker
               PROVE  /\ admitted'[v] \cap ceding'[v] = {}
                      /\ phase'[v] \in Admitting =>
                           \A b \in admitted'[v] : bucket[b].owner = v
    BY <1>2 DEF AdmissionInv
  <2>1. CASE v = w
    BY <1>1, <1>3, <1>5, <1>6, <2>1 DEF Rest, AdmissionInv, Admitting
  <2>2. CASE v # w
    BY <1>1, <1>2, <2>2 DEF Rest, AdmissionInv
  <2> QED
    BY <2>1, <2>2
<1>13. SnapshotInv'
  <2> SUFFICES ASSUME NEW v \in Worker, pc'[v] \in {"apply", "reapply"},
                      NEW b \in Bucket, seen'[v][b].state # "unassigned"
               PROVE  bucket[b].owner = v
    BY <1>2 DEF SnapshotInv
  <2>1. CASE v = w
    BY <1>4, <2>1
  <2>2. CASE v # w
    BY <1>1, <1>2, <2>2 DEF Rest, SnapshotInv
  <2> QED
    BY <2>1, <2>2
<1>14. TodoInv'
  <2> SUFFICES ASSUME NEW v \in Worker
               PROVE  /\ pc'[v] = "records" => \A u \in Worker :
                           Alive(u)' /\ u \notin live[v] => OwnedBuckets(u)' = {}
                      /\ \A b \in todo[v] :
                           /\ pc'[v] = "reclaim" => ~Alive(bucket[b].owner)'
                           /\ pc'[v] = "assign" => bucket[b].owner = NoWorker
                           /\ pc'[v] = "promote" =>
                                b \notin Work(v)' \cup admitted'[v]
                           /\ pc'[v] = "release" => bucket[b].owner = v
    BY <1>2 DEF TodoInv
  <2>1. CASE v = w
    BY <1>3, <2>1
  <2>2. CASE v # w
    BY <1>1, <1>2, <1>6, <2>2 DEF Rest, TodoInv, OwnedBuckets, Alive
  <2> QED
    BY <2>1, <2>2
<1> QED
  BY <1>7, <1>8, <1>9, <1>10, <1>11, <1>12, <1>13, <1>14 DEF Rest

LEMMA ReadSteps ==
  ASSUME Timely, IndInv, TypeOK', NEW w \in Worker,
         \/ GetBuckets(w) \/ Plan(w) \/ Assigned(w) \/ Attest(w)
  PROVE  Rest'
<1> USE DEF memberVars, queueVars, lifeVars, planVars, TypeOK
<1>1. TypeOK /\ RecordsWellFormed /\ Rest
  BY DEF IndInv, Rest
<1> HIDE DEF IndInv
<1>2. /\ UNCHANGED <<members, expired, bucket, lock, phase, draining, admitted,
                     ceding, busy, enqueuing>>
      /\ pc[w] \in {"records", "reclaim", "assign", "move"}
      /\ pc'[w] \in {"reclaim", "assign", "move", "promote"}
      /\ \A v \in Worker : v # w => pc'[v] = pc[v]
  BY DEF GetBuckets, Plan, Assigned, Attest
<1>3. /\ ready'[w] \in {ready[w], {}}
      /\ \A b \in Bucket :
           seen'[w][b].successor \in {seen[w][b].successor,
                                      bucket[b].successor, NoWorker}
  BY DEF GetBuckets, Plan, Assigned, Attest, NoRecords, Unassigned
<1>4. \A v \in Worker : v # w => /\ ready'[v] = ready[v] /\ seen'[v] = seen[v]
                                 /\ todo'[v] = todo[v] /\ live'[v] = live[v]
  BY DEF GetBuckets, Plan, Assigned, Attest
<1>5. NewUnknown'
  <2> SUFFICES ASSUME NEW u \in Worker, phase[u] = "new", NEW v \in Worker
               PROVE  /\ u \notin ready'[v]
                      /\ \A b \in Bucket : seen'[v][b].successor # u
    BY <1>1, <1>2 DEF NewUnknown, Rest
  <2>1. /\ u \notin ready[v] /\ u # NoWorker
        /\ \A b \in Bucket : seen[v][b].successor # u /\ bucket[b].successor # u
    BY <1>1, WorkerAssumption DEF NewUnknown, Rest
  <2>2. CASE v = w
    BY <2>1, <2>2, <1>3
  <2>3. CASE v # w
    BY <2>1, <2>3, <1>4
  <2> QED
    BY <2>2, <2>3
<1>6. PhaseInv'
  BY <1>1, <1>2 DEF Rest, PhaseInv, Work
<1>7. LockInv'
  BY <1>1, <1>2 DEF Rest, LockInv, Critical
<1>8. LeaseInv'
  BY <1>1, <1>2 DEF Rest, LeaseInv, Alive
<1>9. WorkIsOwned'
  BY <1>1, <1>2 DEF Rest, WorkIsOwned, Work
<1>12. AdmissionInv'
  BY <1>1, <1>2 DEF Rest, AdmissionInv
<1>10. SnapshotInv'
  <2> SUFFICES ASSUME NEW v \in Worker, pc'[v] \in {"apply", "reapply"},
                      NEW b \in Bucket, seen'[v][b].state # "unassigned"
               PROVE  bucket[b].owner = v
    BY <1>2 DEF SnapshotInv
  <2>1. v # w
    BY <1>2
  <2> QED
    BY <1>1, <1>2, <1>4, <2>1 DEF Rest, SnapshotInv
<1>11. TodoInv'
  <2>1. ASSUME NEW b \in todo'[w]
        PROVE  /\ pc'[w] = "reclaim" => ~Alive(bucket[b].owner)
               /\ pc'[w] = "assign" => bucket[b].owner = NoWorker
               /\ pc'[w] = "promote" => b \notin Work(w) \cup admitted[w]
    <3>1. CASE GetBuckets(w)
      <4>1. b \in Lost(w) /\ pc'[w] = "reclaim" /\ pc[w] = "records"
        BY <2>1, <3>1 DEF GetBuckets
      <4>2. ASSUME Alive(bucket[b].owner) PROVE FALSE
        <5>1. PICK v \in Worker : v = bucket[b].owner
          BY <4>2 DEF Alive
        <5>2. v \notin live[w] /\ b \in OwnedBuckets(v) /\ Alive(v)
          BY <4>1, <4>2, <5>1 DEF Lost, OwnedBuckets
        <5> QED
          BY <1>1, <4>1, <5>2 DEF Rest, TodoInv
      <4> QED
        BY <4>1, <4>2
    <3>2. CASE Plan(w)
      <4>1. pc'[w] = "assign" /\ b \in Bucket /\ bucket[b].state = "unassigned"
        BY <2>1, <3>2 DEF Plan
      <4> QED
        BY <1>1, <4>1 DEF RecordsWellFormed
    <3>3. CASE Assigned(w)
      BY <3>3 DEF Assigned
    <3>4. CASE Attest(w)
      <4>1. /\ pc'[w] = "promote" /\ enqueuing[w] \notin Bucket
            /\ b \in ceding[w] /\ b \notin busy[w]
        BY <2>1, <3>4 DEF Attest, DrainedBuckets
      <4> QED
        BY <1>1, <4>1 DEF Rest, AdmissionInv, Work
    <3> QED
      BY <3>1, <3>2, <3>3, <3>4
  <2> SUFFICES ASSUME NEW v \in Worker
               PROVE  /\ pc'[v] = "records" => \A u \in Worker :
                           Alive(u) /\ u \notin live'[v] => OwnedBuckets(u) = {}
                      /\ \A b \in todo'[v] :
                           /\ pc'[v] = "reclaim" => ~Alive(bucket[b].owner)
                           /\ pc'[v] = "assign" => bucket[b].owner = NoWorker
                           /\ pc'[v] = "promote" => b \notin Work(v) \cup admitted[v]
                           /\ pc'[v] = "release" => bucket[b].owner = v
    BY <1>2 DEF TodoInv, OwnedBuckets, Alive, Work
  <2>2. CASE v = w
    BY <1>2, <2>1, <2>2
  <2>3. CASE v # w
    BY <1>1, <1>2, <1>4, <2>3 DEF Rest, TodoInv
  <2> QED
    BY <2>2, <2>3
<1> QED
  BY <1>5, <1>6, <1>7, <1>8, <1>9, <1>10, <1>11, <1>12 DEF Rest

(***************************************************************************)
(* What every write of one bucket record under the lock has in common: it  *)
(* takes the bucket from nobody, from a worker that is not alive, or from  *)
(* the writer itself once its work there is over.                          *)
(***************************************************************************)
LEMMA WriteStep ==
  ASSUME TypeOK, Rest, NEW w \in Worker, NEW b0 \in Bucket,
         pc[w] \in {"reclaim", "assign", "move", "promote", "release"},
         UNCHANGED <<memberVars, lock, lifeVars, queueVars, pc, live, ready,
                     seen>>,
         \A b \in Bucket : b # b0 => bucket'[b] = bucket[b],
         todo'[w] \subseteq todo[w] \ {b0},
         \A v \in Worker : v # w => todo'[v] = todo[v],
         \/ bucket'[b0].owner = bucket[b0].owner
         \/ ~Alive(bucket[b0].owner)
         \/ /\ bucket[b0].owner = w
            /\ b0 \notin Work(w)
            /\ b0 \in admitted[w] => phase[w] = "releasing",
         \A u \in Worker : phase[u] = "new" =>
           bucket'[b0].owner # u /\ bucket'[b0].successor # u
  PROVE  Rest'
<1> USE DEF memberVars, queueVars, lifeVars
<1> DEFINE Untouched(v) ==
      \A b \in Bucket : bucket[b].owner = v /\ (b \in Work(v) \cup admitted[v]
                            \/ v # w) /\ (v = w => phase[v] # "releasing")
                        => bucket'[b].owner = v
<1>1. lock = w
  BY DEF Rest, LockInv, Critical
<1>2. \A v \in Worker : Alive(v) => Untouched(v)
  BY DEF Alive
<1>3. NewUnknown'
  BY DEF Rest, NewUnknown
<1>4. PhaseInv'
  BY DEF Rest, PhaseInv, Work
<1>5. LockInv'
  BY DEF Rest, LockInv
<1>6. LeaseInv'
  BY DEF Rest, LeaseInv, Alive
<1>7. WorkIsOwned'
  <2> SUFFICES ASSUME NEW v \in Worker, NEW b \in Work(v)
               PROVE  bucket'[b].owner = v
    BY DEF WorkIsOwned, Work
  <2>1. Alive(v) /\ phase[v] # "releasing"
    BY DEF Rest, PhaseInv, Alive
  <2>2. bucket[b].owner = v
    BY DEF Rest, WorkIsOwned
  <2>3. b \in Bucket
    BY DEF Work, TypeOK
  <2> QED
    BY <1>2, <2>1, <2>2, <2>3
<1>8. AdmissionInv'
  <2> SUFFICES ASSUME NEW v \in Worker, phase[v] \in Admitting,
                      NEW b \in admitted[v]
               PROVE  bucket'[b].owner = v
    BY DEF Rest, AdmissionInv
  <2>1. Alive(v) /\ b \in Bucket
    BY DEF Alive, TypeOK, Admitting
  <2>2. bucket[b].owner = v
    BY DEF Rest, AdmissionInv
  <2> QED
    BY <1>2, <2>1, <2>2 DEF Admitting
<1>9. SnapshotInv'
  <2> SUFFICES ASSUME NEW v \in Worker, pc[v] \in {"apply", "reapply"},
                      NEW b \in Bucket, seen[v][b].state # "unassigned"
               PROVE  bucket'[b].owner = v
    BY DEF SnapshotInv
  <2>1. bucket[b].owner = v
    BY DEF Rest, SnapshotInv
  <2>2. v # w /\ Alive(v)
    BY DEF Rest, PhaseInv, Alive
  <2> QED
    BY <1>2, <2>1, <2>2
<1>10. TodoInv'
  <2> SUFFICES ASSUME NEW v \in Worker, v = w
               PROVE  \A b \in todo'[w] :
                        /\ pc[w] = "reclaim" => ~Alive(bucket'[b].owner)
                        /\ pc[w] = "assign" => bucket'[b].owner = NoWorker
                        /\ pc[w] = "promote" => b \notin Work(w) \cup admitted[w]
                        /\ pc[w] = "release" => bucket'[b].owner = w
    <3>1. \A v \in Worker : v # w => pc[v] \notin Critical \cup {"release"}
      BY <1>1 DEF Rest, LockInv
    <3> QED
      BY <3>1 DEF TodoInv, Critical, Alive, Work
  <2>1. \A b \in todo'[w] : b \in todo[w] /\ bucket'[b] = bucket[b]
    BY DEF TypeOK
  <2> QED
    BY <2>1 DEF Rest, TodoInv
<1> QED
  BY <1>3, <1>4, <1>5, <1>6, <1>7, <1>8, <1>9, <1>10 DEF Rest

LEMMA ReconcileSteps ==
  ASSUME IndInv, NEW w \in Worker,
         \/ Reclaim(w) \/ AssignBucket(w) \/ MoveBucket(w) \/ Promote(w)
         \/ ReleaseBucket(w)
  PROVE  Rest'
<1>1. TypeOK /\ RecordsWellFormed /\ Rest
  BY DEF IndInv, Rest
<1> DEFINE Known(v) == v = NoWorker \/ (v \in Worker /\ phase[v] # "new")
<1>2. \A v \in Worker, b \in Bucket :
        /\ Known(seen[v][b].successor)
        /\ Known(bucket[b].owner) /\ Known(bucket[b].successor)
        /\ \A u \in ready[v] : Known(u)
  <2>1. ASSUME NEW v \in Worker, NEW b \in Bucket
        PROVE  /\ seen[v][b] \in BucketRecord /\ bucket[b] \in BucketRecord
               /\ ready[v] \subseteq Worker
    BY <1>1 DEF TypeOK
  <2>2. \A r \in BucketRecord : /\ r.owner \in Worker \cup {NoWorker}
                                /\ r.successor \in Worker \cup {NoWorker}
    BY DEF BucketRecord
  <2>3. ASSUME NEW v \in Worker, NEW b \in Bucket,
               NEW x \in {seen[v][b].successor, bucket[b].owner,
                          bucket[b].successor} \cup ready[v]
        PROVE  Known(x)
    <3>1. x \in Worker \cup {NoWorker}
      BY <2>1, <2>2
    <3>2. CASE x \in Worker
      BY <1>1, <3>2 DEF Rest, NewUnknown
    <3> QED
      BY <3>1, <3>2
  <2> QED
    BY <2>3
<1>3. CASE Reclaim(w)
  <2>1. PICK b \in Bucket :
          /\ b \in todo[w]
          /\ todo' = [todo EXCEPT ![w] = @ \ {b}]
          /\ \/ SetBucketAssignment(b, seen[w][b].successor, "idle")
             \/ SetBucketAssignment(b, NoWorker, "unassigned")
    BY <1>3 DEF Reclaim, First
  <2>2. /\ bucket'[b].owner \in {seen[w][b].successor, NoWorker}
        /\ bucket'[b].successor = NoWorker
    BY <1>1, <2>1 DEF SetBucketAssignment, TypeOK
  <2>3. ~Alive(bucket[b].owner)
    BY <1>1, <1>3, <2>1 DEF Reclaim, Rest, TodoInv
  <2>4. \A u \in Worker : phase[u] = "new" =>
           bucket'[b].owner # u /\ bucket'[b].successor # u
    BY <1>2, <2>1, <2>2, WorkerAssumption
  <2>5. \A c \in Bucket : c # b => bucket'[c] = bucket[c]
    BY <1>1, <2>1 DEF SetBucketAssignment, TypeOK
  <2>6. todo'[w] \subseteq todo[w] \ {b} /\ \A v \in Worker : v # w => todo'[v] = todo[v]
    BY <1>1, <2>1 DEF TypeOK
  <2> QED
    BY <1>1, <1>3, <2>3, <2>4, <2>5, <2>6, WriteStep DEF Reclaim
<1>4. CASE AssignBucket(w)
  <2>1. PICK b \in Bucket, v \in ready[w] :
          b \in todo[w] /\ SetBucketAssignment(b, v, "idle")
            /\ todo' = [todo EXCEPT ![w] = @ \ {b}]
    BY <1>4 DEF AssignBucket, First, Receiver, Below
  <2>2. bucket'[b] = [owner |-> v, successor |-> NoWorker, state |-> "idle"]
    BY <1>1, <2>1 DEF SetBucketAssignment, TypeOK
  <2>3. ~Alive(bucket[b].owner)
    BY <1>1, <1>4, <2>1, WorkerAssumption DEF AssignBucket, Rest, TodoInv, Alive
  <2>4. \A u \in Worker : phase[u] = "new" =>
           bucket'[b].owner # u /\ bucket'[b].successor # u
    BY <1>2, <2>1, <2>2, WorkerAssumption
  <2>5. \A c \in Bucket : c # b => bucket'[c] = bucket[c]
    BY <1>1, <2>1 DEF SetBucketAssignment, TypeOK
  <2>6. todo'[w] \subseteq todo[w] \ {b} /\ \A u \in Worker : u # w => todo'[u] = todo[u]
    BY <1>1, <2>1 DEF TypeOK
  <2> QED
    BY <1>1, <1>4, <2>3, <2>4, <2>5, <2>6, WriteStep DEF AssignBucket
<1>5. CASE MoveBucket(w)
  <2>1. PICK b \in Bucket, v \in ready[w] :
          MarkBucketDraining(b, eff[w][b], v)
            /\ todo' = [todo EXCEPT ![w] = @ \ {b}]
    BY <1>5 DEF MoveBucket, Receiver, Below
  <2>2. /\ bucket'[b].owner = bucket[b].owner
        /\ bucket'[b].successor \in {bucket[b].successor, v}
    BY <1>1, <2>1 DEF MarkBucketDraining, CanMarkDraining, TypeOK
  <2>4. \A u \in Worker : phase[u] = "new" =>
           bucket'[b].owner # u /\ bucket'[b].successor # u
    BY <1>2, <2>1, <2>2, WorkerAssumption
  <2>5. \A c \in Bucket : c # b => bucket'[c] = bucket[c]
    BY <1>1, <2>1 DEF MarkBucketDraining, TypeOK
  <2>6. todo'[w] \subseteq todo[w] \ {b} /\ \A u \in Worker : u # w => todo'[u] = todo[u]
    BY <1>1, <2>1 DEF TypeOK
  <2> QED
    BY <1>1, <1>5, <2>2, <2>4, <2>5, <2>6, WriteStep DEF MoveBucket
<1>6. CASE Promote(w)
  <2>1. PICK b \in Bucket :
          b \in todo[w] /\ PromoteDrainedBucket(b, w, seen[w][b].successor)
            /\ todo' = [todo EXCEPT ![w] = @ \ {b}]
    BY <1>6 DEF Promote, First
  <2>2. \/ bucket'[b] = bucket[b]
        \/ /\ bucket[b].owner = w
           /\ bucket'[b].owner = seen[w][b].successor
           /\ bucket'[b].successor = NoWorker
    BY <1>1, <2>1 DEF PromoteDrainedBucket, CanPromote, TypeOK
  <2>3. b \notin Work(w) \cup admitted[w]
    BY <1>1, <1>6, <2>1 DEF Promote, Rest, TodoInv
  <2>4. \A u \in Worker : phase[u] = "new" =>
           bucket'[b].owner # u /\ bucket'[b].successor # u
    BY <1>2, <2>1, <2>2, WorkerAssumption
  <2>5. \A c \in Bucket : c # b => bucket'[c] = bucket[c]
    BY <1>1, <2>1 DEF PromoteDrainedBucket, TypeOK
  <2>6. todo'[w] \subseteq todo[w] \ {b} /\ \A u \in Worker : u # w => todo'[u] = todo[u]
    BY <1>1, <2>1 DEF TypeOK
  <2> QED
    BY <1>1, <1>6, <2>2, <2>3, <2>4, <2>5, <2>6, WriteStep DEF Promote
<1>7. CASE ReleaseBucket(w)
  <2>1. PICK b \in Bucket :
          b \in todo[w] /\ SetBucketAssignment(b, NoWorker, "unassigned")
            /\ todo' = [todo EXCEPT ![w] = @ \ {b}]
    BY <1>7 DEF ReleaseBucket, First
  <2>2. bucket'[b] = Unassigned
    BY <1>1, <2>1 DEF SetBucketAssignment, TypeOK, Unassigned
  <2>3. bucket[b].owner = w /\ phase[w] = "releasing" /\ b \notin Work(w)
    BY <1>1, <1>7, <2>1 DEF ReleaseBucket, Rest, TodoInv, PhaseInv
  <2>4. \A u \in Worker : phase[u] = "new" =>
           bucket'[b].owner # u /\ bucket'[b].successor # u
    BY <1>2, <2>1, <2>2, WorkerAssumption DEF Unassigned
  <2>5. \A c \in Bucket : c # b => bucket'[c] = bucket[c]
    BY <1>1, <2>1 DEF SetBucketAssignment, TypeOK
  <2>6. todo'[w] \subseteq todo[w] \ {b} /\ \A u \in Worker : u # w => todo'[u] = todo[u]
    BY <1>1, <2>1 DEF TypeOK
  <2> QED
    BY <1>1, <1>7, <2>3, <2>4, <2>5, <2>6, WriteStep DEF ReleaseBucket
<1> QED
  BY <1>3, <1>4, <1>5, <1>6, <1>7

(***************************************************************************)
(* Local work moves only inside what the worker admits and is not ceding.  *)
(***************************************************************************)
LEMMA WorkSteps ==
  ASSUME IndInv, NEW w \in Worker, LocalWork(w)
  PROVE  Rest'
<1> USE DEF memberVars, queueVars, lifeVars, planVars
<1>1. TypeOK /\ Rest
  BY DEF IndInv, Rest
<1>2. /\ UNCHANGED <<memberVars, bucket, lock, lifeVars, admitted, ceding, pc,
                     planVars>>
      /\ \A v \in Worker : v # w => busy'[v] = busy[v]
                                    /\ enqueuing'[v] = enqueuing[v]
  BY <1>1 DEF LocalWork, BeginEnqueue, GiveUpEnqueue, EndEnqueue,
              FinishWork, TypeOK
<1>3. /\ phase[w] \in {"running", "stopping", "abandoning"}
      /\ \A b \in Work(w)' : b \in Work(w) \/ b \in admitted[w]
  <2>1. CASE BeginEnqueue(w)
    <3>1. phase[w] \in {"running", "stopping", "abandoning"}
      BY <1>1, <2>1 DEF BeginEnqueue, Rest, PhaseInv
    <3>2. \A b \in Work(w)' : b \in Work(w) \/ b \in admitted[w]
      BY <1>1, <2>1 DEF BeginEnqueue, Work, TypeOK
    <3> QED
      BY <3>1, <3>2
  <2>2. CASE GiveUpEnqueue(w)
    BY <1>1, <2>2, NotBuckets DEF GiveUpEnqueue, Work, TypeOK, Rest, PhaseInv
  <2>3. CASE EndEnqueue(w)
    <3>1. phase[w] \in {"running", "stopping", "abandoning"}
      BY <1>1, <2>3, NotBuckets DEF EndEnqueue, Rest, PhaseInv
    <3>2. Work(w)' \subseteq Work(w)
      BY <1>1, <2>3, NotBuckets DEF EndEnqueue, Work, TypeOK
    <3> QED
      BY <3>1, <3>2
  <2>4. ASSUME NEW b \in Bucket, FinishWork(w, b)
        PROVE  /\ phase[w] \in {"running", "stopping", "abandoning"}
               /\ Work(w)' \subseteq Work(w)
    <3>1. b \in Work(w)
      BY <2>4 DEF FinishWork, Work
    <3>2. phase[w] \in {"running", "stopping", "abandoning"}
      BY <1>1, <3>1 DEF Rest, PhaseInv
    <3>3. Work(w)' \subseteq Work(w)
      BY <1>1, <2>4 DEF FinishWork, Work, TypeOK
    <3> QED
      BY <3>2, <3>3
  <2> QED
    BY <2>1, <2>2, <2>3, <2>4 DEF LocalWork
<1>4. \A v \in Worker : v # w => Work(v)' = Work(v)
  BY <1>2 DEF Work
<1>5. NewUnknown' /\ LockInv' /\ SnapshotInv'
  BY <1>1, <1>2 DEF Rest, NewUnknown, LockInv, SnapshotInv
<1>6. LeaseInv'
  BY <1>1, <1>2 DEF Rest, LeaseInv, Alive
<1>10. AdmissionInv'
  BY <1>1, <1>2 DEF Rest, AdmissionInv
<1>7. PhaseInv'
  <2>1. UNCHANGED <<pc, phase, lock, draining>>
    BY <1>2
  <2> QED
    BY <1>1, <1>2, <1>3, <1>4, <2>1 DEF Rest, PhaseInv
<1>8. WorkIsOwned'
  <2>1. \A b \in admitted[w] : bucket[b].owner = w
    BY <1>1, <1>3 DEF Rest, AdmissionInv, Admitting
  <2> QED
    BY <1>1, <1>2, <1>3, <1>4, <2>1 DEF Rest, WorkIsOwned
<1>9. TodoInv'
  BY <1>1, <1>2, <1>3, <1>4 DEF Rest, TodoInv, Alive, OwnedBuckets
<1> QED
  BY <1>5, <1>6, <1>7, <1>8, <1>9, <1>10 DEF Rest

(***************************************************************************)
(* What every way to end a coordination or a process has in common: the    *)
(* local variables go, the work and the admission can only shrink, and the *)
(* lock is kept or given up by its holder.                                 *)
(***************************************************************************)
LEMMA EndStep ==
  ASSUME TypeOK, Rest, NEW w \in Worker, Forget(w), TypeOK',
         UNCHANGED bucket,
         \A v \in Worker : v # w =>
           /\ members'[v] = members[v] /\ phase'[v] = phase[v]
           /\ admitted'[v] = admitted[v] /\ ceding'[v] = ceding[v]
           /\ busy'[v] = busy[v] /\ enqueuing'[v] = enqueuing[v]
           /\ pc'[v] = pc[v] /\ (v \in draining' <=> v \in draining),
         expired' \subseteq expired,
         Alive(w),
         phase'[w] \in {phase[w], "releasing", "abandoning", "gone"},
         phase'[w] = phase[w] /\ w \in draining => w \in draining',
         phase'[w] # "gone" => members'[w] = members[w],
         pc'[w] \in {"idle", "relearn"},
         lock' = lock \/ (lock = w /\ lock' = NoWorker),
         pc'[w] = "relearn" => lock' # w /\ phase'[w] = phase[w]
                                 /\ pc[w] \notin {"idle", "release"},
         Work(w)' \subseteq Work(w),
         phase'[w] = "abandoning" => phase[w] \in {"stopping", "abandoning"},
         enqueuing'[w] \in {enqueuing[w], NoBucket},
         Work(w)' # {} \/ enqueuing'[w] # NoBucket
           => phase'[w] \in {phase[w], "abandoning"},
         admitted'[w] \subseteq admitted[w], ceding'[w] \subseteq ceding[w]
  PROVE  Rest'
<1>1. /\ todo'[w] = {}
      /\ \A v \in Worker : v # w => /\ todo'[v] = todo[v] /\ seen'[v] = seen[v]
                                    /\ live'[v] = live[v]
      /\ \A u, v \in Worker : phase[u] = "new" =>
           u \notin ready'[v] /\ \A b \in Bucket : seen'[v][b].successor # u
  BY ForgetNew DEF Rest
<1>2. \A v \in Worker : v # w => Work(v)' = Work(v)
  BY DEF Work
<1>3. \A v \in Worker : /\ Alive(v)' => Alive(v)
                        /\ phase'[v] = "new" => v # w /\ phase[v] = "new"
  BY DEF Alive
<1>4. NewUnknown'
  BY <1>1, <1>3 DEF Rest, NewUnknown
<1>5. PhaseInv'
  <2> SUFFICES ASSUME NEW v \in Worker
               PROVE  /\ pc'[v] \notin {"idle", "release"} =>
                           phase'[v] \in {"starting", "running", "stopping"}
                      /\ pc'[v] = "release" => phase'[v] = "releasing"
                      /\ pc'[v] = "reapply" \/ pc'[v] = "relearn" => lock' # v
                      /\ Work(v)' # {} \/ enqueuing'[v] # NoBucket =>
                           phase'[v] \in {"running", "stopping", "abandoning"}
                      /\ phase'[v] = "stopping" => v \in draining'
    BY DEF PhaseInv
  <2>1. CASE v = w
    BY <2>1 DEF Rest, PhaseInv
  <2>2. CASE v # w
    BY <1>2, <2>2, WorkerAssumption DEF Rest, PhaseInv
  <2> QED
    BY <2>1, <2>2
<1>6. LockInv'
  BY DEF Rest, LockInv, Critical
<1>7. LeaseInv'
  BY <1>3 DEF Rest, LeaseInv, Alive
<1>8. WorkIsOwned'
  BY <1>2 DEF Rest, WorkIsOwned
<1>9. AdmissionInv'
  <2>1. phase'[w] \in Admitting => phase[w] \in Admitting
    BY DEF Admitting
  <2> QED
    BY <2>1 DEF Rest, AdmissionInv
<1>10. SnapshotInv'
  BY <1>1 DEF Rest, SnapshotInv
<1>11. TodoInv'
  <2> SUFFICES ASSUME NEW v \in Worker
               PROVE  /\ pc'[v] = "records" => \A u \in Worker :
                           Alive(u)' /\ u \notin live'[v] => OwnedBuckets(u)' = {}
                      /\ \A b \in todo'[v] :
                           /\ pc'[v] = "reclaim" => ~Alive(bucket[b].owner)'
                           /\ pc'[v] = "assign" => bucket[b].owner = NoWorker
                           /\ pc'[v] = "promote" =>
                                b \notin Work(v)' \cup admitted'[v]
                           /\ pc'[v] = "release" => bucket[b].owner = v
    BY DEF TodoInv
  <2>1. CASE v = w
    BY <1>1, <2>1
  <2>2. CASE v # w
    BY <1>1, <1>2, <1>3, <2>2 DEF Rest, TodoInv, OwnedBuckets, Alive
  <2> QED
    BY <2>1, <2>2
<1> QED
  BY <1>4, <1>5, <1>6, <1>7, <1>8, <1>9, <1>10, <1>11 DEF Rest

LEMMA FailSteps ==
  ASSUME IndInv, TypeOK', NEW w \in Worker,
         \/ LockTimeout(w) \/ DatabaseError(w) \/ NobodyReady(w)
         \/ Reconciled(w)
  PROVE  Rest'
<1> USE DEF memberVars, queueVars
<1>1. TypeOK /\ Rest
  BY DEF IndInv, Rest
<1>2. pc[w] \notin {"idle", "release"}
  BY DEF LockTimeout, DatabaseError, NobodyReady, Reconciled
<1>3. phase[w] \in {"starting", "running", "stopping"} /\ Alive(w)
  BY <1>1, <1>2 DEF Rest, PhaseInv, Alive
<1>4. UNCHANGED <<memberVars, bucket, draining, queueVars>>
  BY DEF LockTimeout, DatabaseError, NobodyReady, Reconciled
<1>7. Fail(w) \/ (Leave(w) /\ lock = w)
  BY DEF LockTimeout, DatabaseError, NobodyReady, Reconciled, Leave
<1>5. CASE Fail(w)
  <2>1. /\ phase'[w] \in {phase[w], "releasing"} /\ pc'[w] = "idle"
        /\ phase[w] # "starting" => phase'[w] = phase[w]
        /\ \A v \in Worker : v # w => phase'[v] = phase[v] /\ pc'[v] = pc[v]
        /\ lock' = lock \/ (lock = w /\ lock' = NoWorker)
    BY <1>1, <1>5 DEF Fail, ReleaseLock, TypeOK
  <2>2. Work(w)' = Work(w)
    BY <1>4 DEF Work
  <2>3. phase[w] = "starting" => Work(w) = {} /\ enqueuing[w] = NoBucket
    BY <1>1 DEF Rest, PhaseInv
  <2>4. Forget(w) /\ enqueuing' = enqueuing
    BY <1>4, <1>5 DEF Fail
  <2> QED
    BY <1>1, <1>3, <1>4, <2>1, <2>2, <2>3, <2>4, EndStep
<1>6. CASE Leave(w) /\ lock = w
  <2>1. /\ phase' = phase /\ pc'[w] = "relearn" /\ lock' = NoWorker
        /\ \A v \in Worker : v # w => pc'[v] = pc[v]
        /\ Forget(w)
    BY <1>1, <1>6 DEF Leave, Fail, TypeOK
  <2>2. Work(w)' = Work(w)
    BY <1>4 DEF Work
  <2> QED
    BY <1>1, <1>2, <1>3, <1>4, <1>6, <2>1, <2>2, EndStep, WorkerAssumption
<1> QED
  BY <1>5, <1>6, <1>7

LEMMA StopSteps ==
  ASSUME IndInv, TypeOK', NEW w \in Worker,
         \/ Drained(w) \/ DrainTimeout(w) \/ Exit(w) \/ ReleaseTimeout(w)
         \/ EndRelease(w) \/ Crash(w)
  PROVE  Rest'
<1> USE DEF memberVars, queueVars
<1>1. TypeOK /\ Rest
  BY DEF IndInv, Rest
<1>2. Alive(w)
  BY <1>1 DEF Rest, PhaseInv, Alive, Drained, DrainTimeout, Exit,
              ReleaseTimeout, EndRelease, Crash
<1>3. CASE Drained(w) \/ DrainTimeout(w)
  <2>1. PICK next \in {"releasing", "abandoning"} :
          /\ CancelTasks(w, next)
          /\ Work(w) # {} \/ enqueuing[w] # NoBucket => next = "abandoning"
    BY <1>3 DEF Drained, DrainTimeout
  <2>2. /\ phase'[w] = next /\ pc'[w] = "idle"
        /\ \A v \in Worker : v # w => phase'[v] = phase[v] /\ pc'[v] = pc[v]
        /\ lock' = lock \/ (lock = w /\ lock' = NoWorker)
    BY <1>1, <2>1 DEF CancelTasks, ReleaseLock, TypeOK
  <2>4. Forget(w) /\ UNCHANGED <<memberVars, bucket, draining, queueVars>>
    BY <2>1 DEF CancelTasks
  <2>3. Work(w)' = Work(w)
    BY <2>4 DEF Work
  <2>5. phase[w] = "stopping"
    BY <1>3 DEF Drained, DrainTimeout
  <2> QED
    BY <1>1, <1>2, <2>1, <2>2, <2>3, <2>4, <2>5, EndStep
<1>4. ASSUME Vanish(w)
      PROVE  /\ phase'[w] = "gone" /\ pc'[w] = "idle" /\ Forget(w)
             /\ admitted'[w] = {} /\ ceding'[w] = {} /\ Work(w)' = {}
             /\ enqueuing'[w] = NoBucket
             /\ \A v \in Worker : v # w =>
                  /\ phase'[v] = phase[v]
                  /\ admitted'[v] = admitted[v] /\ ceding'[v] = ceding[v]
                  /\ busy'[v] = busy[v] /\ enqueuing'[v] = enqueuing[v]
                  /\ pc'[v] = pc[v] /\ (v \in draining' <=> v \in draining)
  BY <1>1, <1>4, NotBuckets DEF Vanish, Work, TypeOK
<1>5. CASE Exit(w) \/ ReleaseTimeout(w) \/ Crash(w)
  <2>1. Vanish(w) /\ UNCHANGED <<members, expired, bucket, lock>>
    BY <1>5 DEF Exit, ReleaseTimeout, Crash
  <2> QED
    BY <1>1, <1>2, <1>4, <2>1, EndStep DEF Alive
<1>6. CASE EndRelease(w)
  <2>1. /\ Vanish(w) /\ UNCHANGED bucket /\ expired' \subseteq expired
        /\ lock' = lock \/ (lock = w /\ lock' = NoWorker)
        /\ \A v \in Worker : v # w => members'[v] = members[v]
    BY <1>1, <1>6 DEF EndRelease, UpsertWorker, ReleaseLock, TypeOK
  <2> QED
    BY <1>1, <1>2, <1>4, <2>1, EndStep DEF Alive
<1> QED
  BY <1>3, <1>5, <1>6

LEMMA SignalSteps ==
  ASSUME IndInv, NEW w \in Worker, Signal(w) \/ Shutdown(w)
  PROVE  Rest'
<1> USE DEF memberVars
<1>1. TypeOK /\ Rest
  BY DEF IndInv, Rest
<1>2. /\ UNCHANGED <<bucket, lock, admitted, ceding, busy, pc, planVars>>
      /\ phase[w] \in {"starting", "running"}
      /\ phase'[w] \in {phase[w], "stopping"}
      /\ phase'[w] = "stopping" => w \in draining'
      /\ draining \subseteq draining'
      /\ expired' \subseteq expired /\ members'[w] \in {members[w], "draining"}
      /\ \A v \in Worker : v # w => phase'[v] = phase[v] /\ members'[v] = members[v]
  BY <1>1 DEF Signal, Shutdown, MarkDraining, UpsertWorker, TypeOK
<1>3. /\ \A v \in Worker : v # w => enqueuing'[v] = enqueuing[v]
      /\ \/ enqueuing'[w] = enqueuing[w]
         \/ /\ phase[w] = "running"
            /\ enqueuing[w] = NoBucket
            /\ enqueuing'[w] = Undecided
  BY <1>1 DEF Signal, Shutdown, MarkDraining, TypeOK
<1>4. phase'[w] = "stopping" => phase[w] = "running"
  BY <1>1 DEF Signal, Shutdown
<1>5. \A v \in Worker : /\ Work(v)' = Work(v)
                        /\ (Alive(v)' <=> Alive(v))
                        /\ phase'[v] = "new" => v # w /\ phase[v] = "new"
  BY <1>2, <1>3, NotBuckets DEF Work, Alive
<1>6. NewUnknown'
  BY <1>1, <1>2, <1>5 DEF Rest, NewUnknown, planVars
<1>7. PhaseInv'
  <2> SUFFICES ASSUME NEW v \in Worker
               PROVE  /\ pc[v] \notin {"idle", "release"} =>
                           phase'[v] \in {"starting", "running", "stopping"}
                      /\ pc[v] = "release" => phase'[v] = "releasing"
                      /\ pc[v] = "reapply" \/ pc[v] = "relearn" => lock # v
                      /\ Work(v)' # {} \/ enqueuing'[v] # NoBucket =>
                           phase'[v] \in {"running", "stopping", "abandoning"}
                      /\ phase'[v] = "stopping" => v \in draining'
    BY <1>2 DEF PhaseInv
  <2>1. CASE v = w
    BY <1>1, <1>2, <1>3, <1>4, <1>5, <2>1 DEF Rest, PhaseInv
  <2>2. CASE v # w
    BY <1>1, <1>2, <1>3, <1>5, <2>2 DEF Rest, PhaseInv
  <2> QED
    BY <2>1, <2>2
<1>8. LockInv'
  BY <1>1, <1>2 DEF Rest, LockInv
<1>9. LeaseInv'
  BY <1>1, <1>2, <1>5 DEF Rest, LeaseInv
<1>10. WorkIsOwned'
  BY <1>1, <1>2, <1>5 DEF Rest, WorkIsOwned
<1>11. AdmissionInv'
  BY <1>1, <1>2 DEF Rest, AdmissionInv, Admitting
<1>12. SnapshotInv'
  BY <1>1, <1>2 DEF Rest, SnapshotInv, planVars
<1>13. TodoInv'
  <2>1. UNCHANGED <<bucket, pc, live, todo, admitted>>
    BY <1>2 DEF planVars
  <2>2. \A v \in Worker : OwnedBuckets(v)' = OwnedBuckets(v)
    BY <2>1 DEF OwnedBuckets
  <2>3. \A o : Alive(o)' <=> Alive(o)
    BY <1>5 DEF Alive
  <2> QED
    BY <1>1, <1>5, <2>1, <2>2, <2>3 DEF Rest, TodoInv
<1> QED
  BY <1>6, <1>7, <1>8, <1>9, <1>10, <1>11, <1>12, <1>13 DEF Rest

LEMMA ReleaseStep ==
  ASSUME IndInv, NEW w \in Worker, BeginRelease(w)
  PROVE  Rest'
<1> USE WorkerAssumption
    DEF Rest, IndInv, TypeOK, NewUnknown, PhaseInv, LockInv, LeaseInv,
        WorkIsOwned, AdmissionInv, SnapshotInv, TodoInv, Alive, Work,
        OwnedBuckets, Critical, memberVars, queueVars, lifeVars, planVars
<1> QED
  BY SMTT(30) DEF BeginRelease

\* The only lock that expires in time is that of a process that is gone.
LEMMA LockStep ==
  ASSUME Timely, IndInv, LockExpires \/ UNCHANGED vars
  PROVE  Rest'
<1> USE WorkerAssumption
    DEF Rest, IndInv, TypeOK, NewUnknown, PhaseInv, LockInv, LeaseInv,
        WorkIsOwned, AdmissionInv, SnapshotInv, TodoInv, Alive, Work,
        OwnedBuckets, Critical, memberVars, queueVars, lifeVars, planVars
<1>1. CASE LockExpires
  <2>1. ~Alive(lock)
    BY <1>1 DEF LockExpires, Spend, Timely, Event
  <2> QED
    BY <1>1, <2>1, SMTT(30) DEF LockExpires
<1>2. CASE UNCHANGED vars
  BY <1>2 DEF vars
<1> QED
  BY <1>1, <1>2

LEMMA IndStep == Timely /\ IndInv /\ [Next]_vars => IndInv'
<1> SUFFICES ASSUME Timely, IndInv, [Next]_vars PROVE IndInv'
  OBVIOUS
<1>1. TypeOK' /\ RecordsWellFormed'
  BY TypeStep, RecordsStep DEF IndInv
<1>2. ASSUME NEW w \in Worker,
             \/ Start(w) \/ Heartbeat(w)
             \/ AcquireLock(w) \/ LockTimeout(w) \/ Coordinate(w)
             \/ LocalWork(w) \/ Stop(w)
             \/ Crash(w) \/ DatabaseError(w) \/ LeaseExpires(w)
      PROVE  Rest'
  BY <1>1, <1>2, MembershipSteps, LockSteps, SyncSteps, ReadSteps, ReconcileSteps,
     WorkSteps, FailSteps, StopSteps, SignalSteps,
     ReleaseStep
     DEF Coordinate, Reconcile, Stop
<1>3. ASSUME LockExpires \/ UNCHANGED vars PROVE Rest'
  BY <1>3, LockStep
<1>4. Rest'
  BY <1>2, <1>3 DEF Next
<1> QED
  BY <1>1, <1>4 DEF IndInv, Rest

LEMMA IndInit == Init => IndInv
<1> SUFFICES ASSUME Init PROVE IndInv
  OBVIOUS
<1>1. TypeOK
  BY TypeInit
<1>2. RecordsWellFormed /\ NewUnknown
  BY WorkerAssumption
     DEF Init, RecordsWellFormed, NewUnknown, NoRecords, Unassigned
<1>3. PhaseInv /\ LockInv /\ LeaseInv
  BY NotBuckets DEF Init, PhaseInv, LockInv, LeaseInv, Critical, Work, Alive
<1>4. WorkIsOwned /\ AdmissionInv /\ SnapshotInv /\ TodoInv
  BY NotBuckets
     DEF Init, WorkIsOwned, AdmissionInv, SnapshotInv, TodoInv, Work, Alive
<1> QED
  BY <1>1, <1>2, <1>3, <1>4 DEF IndInv

(***************************************************************************)
(* As long as leases are renewed and locks kept in time, every part of the *)
(* inductive invariant holds.                                              *)
(***************************************************************************)
THEOREM InvariantHolds == Timely => (Spec => []IndInv)
<1> SUFFICES ASSUME Timely PROVE Spec => []IndInv
  OBVIOUS
<1>1. Init => IndInv
  BY IndInit
<1>2. IndInv /\ [Next]_vars => IndInv'
  BY IndStep
<1> QED
  BY <1>1, <1>2, PTL DEF Spec

(***************************************************************************)
(* ... and with it the exclusion the protocol is there for: each bucket is *)
(* worked on by its owner or by nobody.                                    *)
(***************************************************************************)
THEOREM Exclusion == Timely => (Spec => []ExclusiveWork)
<1>1. IndInv => ExclusiveWork
  BY DEF IndInv, WorkIsOwned, ExclusiveWork
<1> QED
  BY <1>1, InvariantHolds, PTL

(***************************************************************************)
(* A bucket is admitted nowhere else while its owner still has work in it. *)
(***************************************************************************)
THEOREM Successors == Timely => (Spec => []SuccessorWaits)
<1>1. ASSUME IndInv PROVE SuccessorWaits
  <2> SUFFICES ASSUME NEW v \in Worker, NEW w \in Worker, v # w,
                      phase[w] \notin {"releasing", "gone"},
                      NEW b \in Work(v), b \in admitted[w]
               PROVE  FALSE
    BY DEF SuccessorWaits
  <2>1. phase[w] \in Admitting
    BY <1>1 DEF IndInv, TypeOK, Phase, NewUnknown, Admitting
  <2> QED
    BY <1>1, <2>1 DEF IndInv, WorkIsOwned, AdmissionInv
<1> QED
  BY <1>1, InvariantHolds, PTL

-----------------------------------------------------------------------------
(***************************************************************************)
(* Ownership is given, never taken: of the actions of BucketSteps, reclaim *)
(* and assignment touch only buckets without a live owner, and promotion   *)
(* and release only buckets of the worker that takes the step.             *)
(***************************************************************************)
Yielded(b, w) ==
  bucket[b].owner = w /\ Alive(w) /\ bucket'[b].owner # w
    => lock = w /\ pc[w] \in {"promote", "release"}

LEMMA YieldStep ==
  ASSUME IndInv, [Next]_vars, NEW b \in Bucket, NEW w \in Worker
  PROVE  Yielded(b, w)
<1>1. TypeOK /\ LockInv /\ TodoInv
  BY DEF IndInv
<1> SUFFICES ASSUME bucket[b].owner = w, Alive(w), bucket'[b].owner # w
             PROVE  lock = w /\ pc[w] \in {"promote", "release"}
  BY DEF Yielded
<1>2. ASSUME NEW v \in Worker, pc[v] \in {"promote", "release"}, v = w
      PROVE  lock = w /\ pc[w] \in {"promote", "release"}
  BY <1>1, <1>2 DEF LockInv, Critical
<1>3. ASSUME NEW v \in Worker, NEW c \in Bucket, NEW o, NEW s,
             SetBucketAssignment(c, o, s)
      PROVE  c = b
  BY <1>1, <1>3 DEF SetBucketAssignment, TypeOK
<1>4. ASSUME NEW v \in Worker, PublishLocalBucketStates(v)
      PROVE  bucket'[b].owner = bucket[b].owner
  BY <1>1, <1>4 DEF PublishLocalBucketStates, TypeOK, BucketRecord
<1>5. ASSUME NEW v \in Worker, Reclaim(v) PROVE FALSE
  <2>1. pc[v] = "reclaim" /\ b \in todo[v]
    BY <1>3, <1>5 DEF Reclaim, First
  <2> QED
    BY <1>1, <2>1 DEF TodoInv
<1>6. ASSUME NEW v \in Worker, AssignBucket(v) PROVE FALSE
  <2>1. pc[v] = "assign" /\ b \in todo[v]
    BY <1>3, <1>6 DEF AssignBucket, First
  <2> QED
    BY <1>1, <2>1, WorkerAssumption DEF TodoInv
<1>7. ASSUME NEW v \in Worker, MoveBucket(v)
      PROVE  bucket'[b].owner = bucket[b].owner
  BY <1>1, <1>7 DEF MoveBucket, MarkBucketDraining, CanMarkDraining, TypeOK
<1>8. ASSUME NEW v \in Worker, Promote(v) PROVE v = w /\ pc[v] = "promote"
  BY <1>1, <1>8 DEF Promote, PromoteDrainedBucket, CanPromote, TypeOK
<1>9. ASSUME NEW v \in Worker, ReleaseBucket(v)
      PROVE  v = w /\ pc[v] = "release"
  <2>1. pc[v] = "release" /\ b \in todo[v]
    BY <1>3, <1>9 DEF ReleaseBucket, First
  <2> QED
    BY <1>1, <2>1 DEF TodoInv
<1> QED
  BY <1>2, <1>4, <1>5, <1>6, <1>7, <1>8, <1>9, BucketSteps

(***************************************************************************)
(* No step of another worker ends the ownership of a live one.             *)
(***************************************************************************)
THEOREM Yields == Timely => (Spec => YieldedByOwner)
<1> SUFFICES ASSUME Timely PROVE Spec => YieldedByOwner
  OBVIOUS
<1>1. IndInv /\ [Next]_vars => \A b \in Bucket, w \in Worker : Yielded(b, w)
  BY YieldStep
<1>2. (\A b \in Bucket, w \in Worker : Yielded(b, w))
        => \A b \in Bucket, w \in Worker :
             bucket[b].owner = w /\ Alive(w) /\ bucket'[b].owner # w
               => lock = w /\ pc[w] \in {"promote", "release"}
  BY DEF Yielded
<1> QED
  BY <1>1, <1>2, InvariantHolds, PTL DEF Spec, YieldedByOwner

-----------------------------------------------------------------------------
(***************************************************************************)
(* Free buckets first: the targets of the ready workers add up to all the  *)
(* buckets.  A non-empty set of workers has a last one, as a set without   *)
(* one would have a smallest subset without one.                           *)
(***************************************************************************)
LEMMA LastWorker ==
  ASSUME NEW S \in SUBSET Worker, S # {}
  PROVE  \E m \in S : \A x \in S : x <= m
<1> DEFINE Last(U) == \E m \in U : \A x \in U : x <= m
           T == {U \in SUBSET S : U # {} /\ ~Last(U)}
<1>1. IsFiniteSet(S) /\ S \subseteq Nat
  BY WorkerAssumption, FS_Subset
<1>2. T \subseteq FiniteSubsetsOf(S)
  BY <1>1, FS_Subset DEF FiniteSubsetsOf
<1>3. T = {}
  <2> SUFFICES ASSUME T # {} PROVE FALSE
    OBVIOUS
  <2>1. PICK U \in T : \A V \in T : <<V, U>> \notin StrictSubsetOrdering(S)
    BY <1>2, FS_StrictSubsetOrderingWellFounded, WFMin
  <2>2. U \subseteq S /\ U # {} /\ ~Last(U)
    BY <2>1
  <2>3. PICK x \in U : TRUE
    BY <2>2
  <2>4. <<U \ {x}, U>> \in StrictSubsetOrdering(S)
    BY <2>2, <2>3 DEF StrictSubsetOrdering
  <2>5. U \ {x} = {} \/ Last(U \ {x})
    BY <2>1, <2>2, <2>4
  <2>6. CASE U \ {x} = {}
    BY <1>1, <2>2, <2>3, <2>6
  <2>7. CASE Last(U \ {x})
    <3>1. PICK m \in U \ {x} : \A y \in U \ {x} : y <= m
      BY <2>7
    <3>2. x \in Nat /\ m \in Nat /\ \A y \in U : y \in Nat
      BY <1>1, <2>2, <3>1
    <3>3. CASE x <= m
      BY <2>2, <3>1, <3>3
    <3>4. CASE m <= x
      BY <2>2, <3>1, <3>2, <3>4
    <3> QED
      BY <3>2, <3>3, <3>4
  <2> QED
    BY <2>5, <2>6, <2>7
<1> QED
  BY <1>3

\* The number of buckets the workers of S have by the plan of w, and the share
\* of the buckets that the targets give to the first n workers of R.
Held(w, S) == Cardinality({b \in Bucket : eff[w][b] \in S})
Share(R, n) ==
  (BucketCount \div Cardinality(R)) * n
    + (IF n < BucketCount % Cardinality(R) THEN n
                                           ELSE BucketCount % Cardinality(R))

LEMMA HeldType ==
  ASSUME NEW w \in Worker, NEW S PROVE Held(w, S) \in Nat
<1>1. IsFiniteSet(Bucket)
  BY BucketAssumption, FS_Interval DEF Bucket
<1>2. IsFiniteSet({b \in Bucket : eff[w][b] \in S})
  BY <1>1, FS_Subset
<1> QED
  BY <1>2, FS_CardinalityType DEF Held

\* A bucket that nobody of a set has is missing from what the set holds.
LEMMA HeldSome ==
  ASSUME NEW w \in Worker, NEW S, NEW b \in Bucket, eff[w][b] \notin S
  PROVE  Held(w, S) < BucketCount
<1> DEFINE A == {c \in Bucket : eff[w][c] \in S}
<1>1. IsFiniteSet(Bucket) /\ Cardinality(Bucket) = BucketCount
  BY BucketAssumption, FS_Interval DEF Bucket
<1>2. A \subseteq Bucket /\ A # Bucket
  OBVIOUS
<1>3. Cardinality(A) <= Cardinality(Bucket) /\ Cardinality(A) # Cardinality(Bucket)
  <2> HIDE DEF A
  <2> QED
    BY <1>1, <1>2, FS_Subset
<1> QED
  BY <1>1, <1>3, HeldType, BucketAssumption DEF Held

\* One more worker adds its load.
LEMMA HeldAdd ==
  ASSUME NEW w \in Worker, NEW S, NEW m, m \notin S
  PROVE  Held(w, S \cup {m}) = Held(w, S) + Load(w, m)
<1> DEFINE A == {b \in Bucket : eff[w][b] \in S}
           B == {b \in Bucket : eff[w][b] = m}
<1>1. IsFiniteSet(Bucket)
  BY BucketAssumption, FS_Interval DEF Bucket
<1>2. IsFiniteSet(A) /\ IsFiniteSet(B) /\ A \cap B = {}
  BY <1>1, FS_Subset
<1>3. {b \in Bucket : eff[w][b] \in S \cup {m}} = A \cup B
  OBVIOUS
<1>4. Cardinality(A \cup B) = Cardinality(A) + Cardinality(B)
  <2> HIDE DEF A, B
  <2>1. Cardinality(A \cup B)
          = Cardinality(A) + Cardinality(B) - Cardinality(A \cap B)
    BY <1>2, FS_Union
  <2> QED
    <3>1. Cardinality(A \cap B) = 0
      BY <1>2, FS_EmptySet
    <3>2. Cardinality(A) \in Nat /\ Cardinality(B) \in Nat
      BY <1>2, FS_CardinalityType
    <3> QED
      BY <2>1, <3>1, <3>2
<1> QED
  BY <1>3, <1>4 DEF Held, Load

\* The share grows by the target of the next worker, from nothing to all buckets.
LEMMA ShareAdd ==
  ASSUME NEW R \in SUBSET Worker, NEW v \in R, NEW n \in Nat,
         n = Cardinality({u \in R : u < v})
  PROVE  /\ Share(R, n + 1) = Share(R, n) + TargetCount(R, v)
         /\ Share(R, n) \in Nat
<1>1. IsFiniteSet(R)
  BY WorkerAssumption, FS_Subset
<1>2. Cardinality(R) \in Nat \ {0}
  BY <1>1, FS_CardinalityType, FS_EmptySet
<1>3. PICK q \in Nat, r \in Nat :
        q = BucketCount \div Cardinality(R) /\ r = BucketCount % Cardinality(R)
  BY <1>2, BucketAssumption
<1>4. /\ TargetCount(R, v) = q + (IF n < r THEN 1 ELSE 0)
      /\ Share(R, n) = q * n + (IF n < r THEN n ELSE r)
      /\ Share(R, n + 1) = q * (n + 1) + (IF n + 1 < r THEN n + 1 ELSE r)
  BY <1>3 DEF TargetCount, Share
<1>5. PICK p \in Nat : p = q * n
  <2>1. \A i, j \in Nat : i * j \in Nat
    OBVIOUS
  <2> QED
    BY <2>1
<1>6. q * (n + 1) = p + q
  <2>1. \A i, j \in Nat : i * (j + 1) = i * j + i
    OBVIOUS
  <2> QED
    BY <1>5, <2>1
<1>7. Share(R, n) = p + (IF n < r THEN n ELSE r)
  BY <1>4, <1>5
<1>8. Share(R, n + 1) = (p + q) + (IF n + 1 < r THEN n + 1 ELSE r)
  BY <1>4, <1>6
<1> QED
  <2> HIDE DEF TargetCount, Share
  <2>1. TargetCount(R, v) = q + (IF n < r THEN 1 ELSE 0)
    BY <1>4
  <2> QED
    BY <1>3, <1>5, <1>7, <1>8, <2>1

LEMMA ShareNone ==
  ASSUME NEW R \in SUBSET Worker, R # {} PROVE Share(R, 0) = 0
<1>1. IsFiniteSet(R)
  BY WorkerAssumption, FS_Subset
<1>2. Cardinality(R) \in Nat \ {0}
  BY <1>1, FS_CardinalityType, FS_EmptySet
<1>3. \A N \in Nat, k \in Nat \ {0} :
        (N % k) \in Nat /\ (N \div k) \in Nat
  OBVIOUS
<1>4. PICK q \in Nat, r \in Nat :
        q = BucketCount \div Cardinality(R) /\ r = BucketCount % Cardinality(R)
  BY <1>2, <1>3, BucketAssumption
<1>5. Share(R, 0) = q * 0 + (IF 0 < r THEN 0 ELSE r)
  BY <1>4 DEF Share
<1> QED
  BY <1>4, <1>5

LEMMA ShareAll ==
  ASSUME NEW R \in SUBSET Worker, R # {}
  PROVE  Share(R, Cardinality(R)) = BucketCount
<1>1. IsFiniteSet(R)
  BY WorkerAssumption, FS_Subset
<1>2. Cardinality(R) \in Nat \ {0}
  BY <1>1, FS_CardinalityType, FS_EmptySet
<1>3. \A N \in Nat, k \in Nat \ {0} :
        (N % k) < k /\ (N % k) \in Nat /\ (N \div k) * k + (N % k) = N
  OBVIOUS
<1>4. PICK k \in Nat \ {0} : k = Cardinality(R)
  BY <1>2
<1>5. PICK q \in Nat, r \in Nat : q = BucketCount \div k /\ r = BucketCount % k
  BY <1>3, BucketAssumption
<1>6. r < k /\ q * k + r = BucketCount
  BY <1>3, <1>5, BucketAssumption
<1>7. Share(R, Cardinality(R)) = q * k + (IF k < r THEN k ELSE r)
  BY <1>4, <1>5 DEF Share
<1> QED
  BY <1>6, <1>7
(***************************************************************************)
(* The targets leave room: if no ready worker is below its target, they    *)
(* have all the buckets between them.  A set of the first workers with     *)
(* less than its share would lose one worker and still have less.          *)
(***************************************************************************)
LEMMA TargetsCover ==
  ASSUME TypeOK, NEW w \in Worker, ready[w] # {}, Below(w) = {}
  PROVE  BucketCount <= Held(w, ready[w])
<1> DEFINE R == ready[w]
           Lowest(S) == \A v \in S : \A u \in R : u < v => u \in S
           T == {S \in SUBSET R : Lowest(S) /\ ~(Share(R, Cardinality(S)) <= Held(w, S))}
<1>1. R \in SUBSET Worker /\ R # {}
  BY DEF TypeOK
<1>2. IsFiniteSet(R) /\ R \subseteq Nat
  BY <1>1, WorkerAssumption, FS_Subset
<1>3. \A v \in R : TargetCount(R, v) <= Load(w, v)
  <2> TAKE v \in R
  <2>1. ~(Load(w, v) < TargetCount(R, v))
    BY DEF Below
  <2>2. Load(w, v) \in Nat /\ TargetCount(R, v) \in Nat
    BY <1>1, LoadType, TargetType
  <2> QED
    BY <2>1, <2>2
<1>4. T \subseteq FiniteSubsetsOf(R)
  BY <1>2, FS_Subset DEF FiniteSubsetsOf
<1>5. T = {}
  <2> SUFFICES ASSUME T # {} PROVE FALSE
    OBVIOUS
  <2>1. PICK S \in T : \A V \in T : <<V, S>> \notin StrictSubsetOrdering(R)
    <3> HIDE DEF T
    <3> QED
      BY <1>4, FS_StrictSubsetOrderingWellFounded, WFMin
  <2>2. S \subseteq R /\ Lowest(S) /\ ~(Share(R, Cardinality(S)) <= Held(w, S))
    BY <2>1
  <2>3. S # {}
    <3> SUFFICES ASSUME S = {} PROVE FALSE
      OBVIOUS
    <3>1. Cardinality(S) = 0
      BY FS_EmptySet
    <3>2. Share(R, 0) = 0
      BY <1>1, ShareNone
    <3>3. Held(w, S) \in Nat
      BY HeldType
    <3> QED
      BY <2>2, <3>1, <3>2, <3>3
  <2>4. PICK m \in S : \A x \in S : x <= m
    BY <1>1, <2>2, <2>3, LastWorker
  <2>5. /\ S \ {m} = {u \in R : u < m}
        /\ m \in R
        /\ S \ {m} \subseteq R
    BY <1>2, <2>2, <2>4
  <2>6. Lowest(S \ {m})
    BY <1>2, <2>5
  <2>7. <<S \ {m}, S>> \in StrictSubsetOrdering(R)
    BY <2>2, <2>4 DEF StrictSubsetOrdering
  <2>8. Share(R, Cardinality(S \ {m})) <= Held(w, S \ {m})
    BY <2>1, <2>5, <2>6, <2>7
  <2>9. PICK n \in Nat : n = Cardinality(S \ {m})
    BY <1>2, <2>5, FS_Subset, FS_CardinalityType
  <2>10. Cardinality(S) = n + 1
    <3>1. IsFiniteSet(S \ {m}) /\ S = (S \ {m}) \cup {m}
      BY <1>2, <2>4, <2>5, FS_Subset
    <3> QED
      BY <2>9, <3>1, FS_AddElement
  <2>11. Held(w, S) = Held(w, S \ {m}) + Load(w, m)
    <3>1. S = (S \ {m}) \cup {m} /\ m \notin S \ {m}
      BY <2>4
    <3> QED
      BY <3>1, HeldAdd
  <2>12. /\ Share(R, n + 1) = Share(R, n) + TargetCount(R, m)
         /\ Share(R, n) \in Nat
    BY <1>1, <2>5, <2>9, ShareAdd
  <2>13. /\ Held(w, S \ {m}) \in Nat /\ Load(w, m) \in Nat
         /\ TargetCount(R, m) \in Nat
    BY <1>1, <2>5, HeldType, LoadType, TargetType
  <2>14. Share(R, n + 1) <= Held(w, S)
    <3> HIDE DEF R, T, Lowest
    <3> QED
      BY <1>3, <2>5, <2>8, <2>9, <2>11, <2>12, <2>13
  <2> QED
    BY <2>2, <2>10, <2>14
<1>6. Share(R, Cardinality(R)) <= Held(w, R)
  BY <1>5
<1> QED
  BY <1>1, <1>6, ShareAll

(***************************************************************************)
(* A free bucket is one the reconciler still has to assign, and counts in  *)
(* no worker's load; the lock keeps others from making more of them.       *)
(***************************************************************************)
Free(w) ==
  pc[w] \in {"assign", "move"} =>
    /\ ready[w] # {}
    /\ pc[w] = "assign" => \A b \in todo[w] : eff[w][b] = NoWorker
    /\ \A b \in Bucket : bucket[b].state = "unassigned"
                           => pc[w] = "assign" /\ b \in todo[w]

FreeInv == \A w \in Worker : Free(w)

\* While a worker plans, only its own steps change its plan, and no other step
\* frees a bucket.
KeepsPlan(w) ==
  /\ pc'[w] = pc[w] /\ ready'[w] = ready[w]
  /\ eff'[w] = eff[w] /\ todo'[w] = todo[w]
  /\ \A b \in Bucket : bucket'[b].state = "unassigned"
                         => bucket[b].state = "unassigned"

LEMMA PlanSteps ==
  ASSUME IndInv, [Next]_vars, NEW u \in Worker, pc'[u] \in {"assign", "move"}
  PROVE  \/ Plan(u) \/ AssignBucket(u) \/ Assigned(u) \/ MoveBucket(u)
         \/ KeepsPlan(u)
<1> USE DEF memberVars, lifeVars, queueVars, planVars
<1>1. TypeOK /\ LockInv
  BY DEF IndInv
<1>2. CASE UNCHANGED vars
  BY <1>2 DEF vars, KeepsPlan
<1>3. CASE LockExpires
  BY <1>3 DEF LockExpires, KeepsPlan
<1>4. ASSUME NEW w \in Worker, pc[u] = pc'[u], u # w,
             \/ Reclaim(w) \/ AssignBucket(w) \/ MoveBucket(w) \/ Promote(w)
             \/ ReleaseBucket(w) \/ Plan(w) \/ Assigned(w)
      PROVE  FALSE
  <2>1. lock = w
    BY <1>1, <1>4 DEF LockInv, Critical, Reclaim, AssignBucket, MoveBucket,
                      Promote, ReleaseBucket, Plan, Assigned
  <2>2. lock = u
    BY <1>1, <1>4 DEF LockInv, Critical
  <2> QED
    BY <1>4, <2>1, <2>2
<1>5. ASSUME NEW w \in Worker, Forget(w), pc'[w] \in {"idle", "relearn"},
             \A v \in Worker : v # w => pc'[v] = pc[v], UNCHANGED bucket
      PROVE  KeepsPlan(u)
  BY <1>1, <1>5 DEF Forget, TypeOK, KeepsPlan
<1>6. ASSUME NEW w \in Worker,
             \/ Start(w) \/ Heartbeat(w) \/ AcquireLock(w)
             \/ LocalWork(w) \/ LeaseExpires(w) \/ Signal(w) \/ Shutdown(w)
      PROVE  KeepsPlan(u)
  <2>1. UNCHANGED <<bucket, ready, eff, todo>>
    BY <1>6 DEF Start, Heartbeat, AcquireLock, LocalWork, BeginEnqueue,
                GiveUpEnqueue, EndEnqueue, FinishWork, LeaseExpires, Signal,
                Shutdown
  <2>2. pc'[u] = pc[u]
    BY <1>1, <1>6 DEF Start, Heartbeat, AcquireLock, LocalWork, BeginEnqueue,
                GiveUpEnqueue, EndEnqueue, FinishWork, LeaseExpires, Signal,
                Shutdown, TypeOK
  <2> QED
    BY <2>1, <2>2 DEF KeepsPlan
<1>7. ASSUME NEW w \in Worker, PublishLocalBucketStates(w) PROVE KeepsPlan(u)
  <2>1. UNCHANGED <<ready, eff, todo>> /\ pc'[u] = pc[u]
    BY <1>1, <1>7 DEF PublishLocalBucketStates, TypeOK
  <2>2. \A b \in Bucket : bucket'[b].state = "unassigned"
                            => bucket[b].state = "unassigned"
    BY <1>1, <1>7 DEF PublishLocalBucketStates, TypeOK, BucketRecord
  <2> QED
    BY <2>1, <2>2 DEF KeepsPlan
<1>8. ASSUME NEW w \in Worker,
             \/ GetOwnedBuckets(w) \/ SyncBackQueueAssignments(w)
             \/ ReadMembers(w) \/ GetBuckets(w) \/ Attest(w) \/ BeginRelease(w)
      PROVE  KeepsPlan(u)
  <2>1. UNCHANGED bucket /\ w # u
    BY <1>1, <1>8 DEF GetOwnedBuckets, SyncBackQueueAssignments, ReadMembers,
                      GetBuckets, Attest, BeginRelease, TypeOK
  <2>2. /\ pc'[u] = pc[u] /\ ready'[u] = ready[u]
        /\ eff'[u] = eff[u] /\ todo'[u] = todo[u]
    BY <1>1, <1>8, <2>1 DEF GetOwnedBuckets, SyncBackQueueAssignments,
                      ReadMembers, GetBuckets, Attest, BeginRelease, TypeOK
  <2> QED
    BY <2>1, <2>2 DEF KeepsPlan
<1>9. ASSUME NEW w \in Worker,
             \/ LockTimeout(w) \/ NobodyReady(w) \/ Reconciled(w)
             \/ Drained(w) \/ DrainTimeout(w) \/ Exit(w) \/ ReleaseTimeout(w)
             \/ EndRelease(w) \/ Crash(w) \/ DatabaseError(w)
      PROVE  KeepsPlan(u)
  BY <1>1, <1>5, <1>9 DEF LockTimeout, NobodyReady, Reconciled, Drained,
        DrainTimeout, Exit, ReleaseTimeout, EndRelease, Crash, DatabaseError,
        CancelTasks, Fail, Leave, Vanish, TypeOK
<1>10. ASSUME NEW w \in Worker,
             \/ Reclaim(w) \/ AssignBucket(w) \/ MoveBucket(w) \/ Promote(w)
             \/ ReleaseBucket(w) \/ Plan(w) \/ Assigned(w)
      PROVE  Plan(u) \/ AssignBucket(u) \/ Assigned(u) \/ MoveBucket(u)
  <2>1. CASE w = u
    BY <1>1, <1>10, <2>1 DEF Reclaim, Promote, ReleaseBucket
  <2>2. CASE w # u
    <3>1. pc'[u] = pc[u]
      BY <1>1, <1>10, <2>2 DEF Reclaim, AssignBucket, MoveBucket, Promote,
                               ReleaseBucket, Plan, Assigned, TypeOK
    <3> QED
      BY <1>4, <1>10, <2>2, <3>1
  <2> QED
    BY <2>1, <2>2
<1> QED
  BY <1>2, <1>3, <1>6, <1>7, <1>8, <1>9, <1>10
     DEF Next, Coordinate, Reconcile, Stop

LEMMA FreeStep ==
  ASSUME IndInv, FreeInv, [Next]_vars PROVE FreeInv'
<1>1. TypeOK /\ RecordsWellFormed
  BY DEF IndInv
<1> SUFFICES ASSUME NEW w \in Worker, pc'[w] \in {"assign", "move"}
             PROVE  Free(w)'
  BY DEF FreeInv, Free
<1>2. Free(w)
  BY DEF FreeInv
<1>3. CASE KeepsPlan(w)
  BY <1>2, <1>3 DEF KeepsPlan, Free
<1>4. CASE Plan(w)
  <2>1. /\ pc'[w] = "assign" /\ ready'[w] # {} /\ UNCHANGED bucket
        /\ todo'[w] = {b \in Bucket : bucket[b].state = "unassigned"}
    BY <1>1, <1>4 DEF Plan, TypeOK
  <2>2. ASSUME NEW b \in todo'[w] PROVE eff'[w][b] = NoWorker
    <3>1. b \in Bucket /\ bucket[b].state = "unassigned"
      BY <2>1, <2>2
    <3>2. bucket[b].owner = NoWorker /\ ~Inherits(w, bucket[b])
      BY <1>1, <3>1 DEF RecordsWellFormed, Inherits
    <3> QED
      BY <1>1, <1>4, <3>1, <3>2 DEF Plan, TypeOK
  <2> QED
    BY <2>1, <2>2 DEF Free
<1>5. CASE AssignBucket(w)
  <2>1. PICK c \in Bucket, v \in Worker :
          /\ SetBucketAssignment(c, v, "idle")
          /\ eff' = [eff EXCEPT ![w][c] = v]
          /\ todo' = [todo EXCEPT ![w] = @ \ {c}]
    BY <1>5 DEF AssignBucket
  <2>2. pc[w] = "assign" /\ pc'[w] = "assign" /\ ready'[w] = ready[w]
    BY <1>5 DEF AssignBucket
  <2>3. todo'[w] = todo[w] \ {c}
    BY <1>1, <2>1 DEF TypeOK
  <2>4. \A b \in Bucket : /\ b # c => bucket'[b] = bucket[b]
                          /\ b = c => bucket'[b].state = "idle"
    BY <1>1, <2>1 DEF SetBucketAssignment, TypeOK
  <2>5. \A b \in Bucket \ {c} : eff'[w][b] = eff[w][b]
    BY <1>1, <2>1 DEF TypeOK
  <2>6. todo[w] \subseteq Bucket
    BY <1>1 DEF TypeOK
  <2> QED
    BY <1>2, <2>2, <2>3, <2>4, <2>5, <2>6 DEF Free
<1>6. CASE Assigned(w)
  <2>1. /\ pc[w] = "assign" /\ pc'[w] = "move" /\ ready'[w] = ready[w]
        /\ UNCHANGED bucket
    BY <1>1, <1>6 DEF Assigned, TypeOK
  <2>2. todo[w] = {}
    <3> SUFFICES ASSUME NEW b \in todo[w] PROVE FALSE
      OBVIOUS
    <3>1. Below(w) = {}
      BY <1>6 DEF Assigned
    <3>2. b \in Bucket /\ eff[w][b] \notin ready[w]
      BY <1>1, <1>2, <2>1, WorkerAssumption DEF Free, TypeOK
    <3>3. Held(w, ready[w]) < BucketCount
      BY <3>2, HeldSome
    <3>4. BucketCount <= Held(w, ready[w])
      BY <1>1, <1>2, <2>1, <3>1, TargetsCover DEF Free
    <3>5. Held(w, ready[w]) \in Nat
      BY HeldType
    <3> QED
      BY <3>3, <3>4, <3>5, BucketAssumption
  <2> QED
    BY <1>2, <2>1, <2>2 DEF Free
<1>7. CASE MoveBucket(w)
  <2>1. pc[w] = "move" /\ pc'[w] = "move" /\ ready'[w] = ready[w]
    BY <1>7 DEF MoveBucket
  <2>2. \A b \in Bucket : bucket'[b].state = "unassigned"
                            => bucket[b].state = "unassigned"
    BY <1>1, <1>7 DEF MoveBucket, MarkBucketDraining, TypeOK
  <2> QED
    BY <1>2, <2>1, <2>2 DEF Free
<1> QED
  BY <1>3, <1>4, <1>5, <1>6, <1>7, PlanSteps

(***************************************************************************)
(* "Free buckets are always assigned before any worker is asked to give    *)
(* work away" (worker.py:217): the targets of the ready workers add up to  *)
(* all buckets, so while one is free some worker is below its target.      *)
(***************************************************************************)
THEOREM FreeFirstHolds == Timely => (Spec => []FreeFirst)
<1> SUFFICES ASSUME Timely PROVE Spec => []FreeFirst
  OBVIOUS
<1>1. Init => FreeInv
  BY DEF Init, FreeInv, Free
<1>2. IndInv /\ FreeInv /\ [Next]_vars => FreeInv'
  BY FreeStep
<1>3. FreeInv => FreeFirst
  BY DEF FreeInv, Free, FreeFirst
<1>4. Spec => []IndInv
  BY InvariantHolds
<1> QED
  BY <1>1, <1>2, <1>3, <1>4, PTL DEF Spec
=============================================================================
