-------------------------- MODULE WorkerRefinement --------------------------
(***************************************************************************)
(* The refinement of BucketOwnership: what a step does to the owners and   *)
(* to the work, pointwise, determines the abstract step.                   *)
(***************************************************************************)
EXTENDS WorkerProofs

USE DEF NoWorker, NoBucket, Undecided

AbstractVars == <<[b \in Bucket |-> bucket[b].owner],
                  [b \in Bucket |-> {w \in Worker : b \in Work(w)}]>>

LEMMA AbstractStutter ==
  ASSUME \A b \in Bucket : bucket'[b].owner = bucket[b].owner,
         \A v \in Worker : Work(v)' = Work(v)
  PROVE  UNCHANGED AbstractVars
BY DEF AbstractVars

LEMMA AbstractBegin ==
  ASSUME WorkIsOwned, NEW w \in Worker, NEW c \in Bucket, bucket[c].owner = w,
         \A b \in Bucket : bucket'[b].owner = bucket[b].owner,
         Work(w)' = Work(w) \cup {c}, c \notin Work(w),
         \A v \in Worker : v # w => Work(v)' = Work(v)
  PROVE  Ownership!Begin(c)
<1>1. {v \in Worker : c \in Work(v)} = {}
  BY DEF WorkIsOwned
<1>2. {v \in Worker : c \in Work(v)'} = {w}
  BY <1>1
<1>3. \A b \in Bucket : b # c =>
        {v \in Worker : b \in Work(v)'} = {v \in Worker : b \in Work(v)}
  OBVIOUS
<1>4. [b \in Bucket |-> {v \in Worker : b \in Work(v)'}] =
        [[b \in Bucket |-> {v \in Worker : b \in Work(v)}] EXCEPT ![c] = {w}]
  <2> DEFINE Old(b) == {v \in Worker : b \in Work(v)}
             New(b) == {v \in Worker : b \in Work(v)'}
  <2>1. New(c) = {w} /\ \A b \in Bucket : b # c => New(b) = Old(b)
    BY <1>2, <1>3
  <2> HIDE DEF Old, New
  <2>2. [b \in Bucket |-> New(b)] = [[b \in Bucket |-> Old(b)] EXCEPT ![c] = {w}]
    BY <2>1
  <2> QED
    BY <2>2 DEF Old, New
<1>5. [b \in Bucket |-> bucket'[b].owner] = [b \in Bucket |-> bucket[b].owner]
  OBVIOUS
<1> QED
  BY <1>1, <1>4, <1>5 DEF Ownership!Begin

LEMMA AbstractEnd ==
  ASSUME NEW w \in Worker, NEW S \in SUBSET Bucket,
         \A b \in Bucket : bucket'[b].owner = bucket[b].owner,
         Work(w)' = Work(w) \ S,
         \A v \in Worker : v # w => Work(v)' = Work(v)
  PROVE  Ownership!End(w, S)
<1>1. \A b \in Bucket :
        {v \in Worker : b \in Work(v)'} =
          IF b \in S THEN {v \in Worker : b \in Work(v)} \ {w}
                     ELSE {v \in Worker : b \in Work(v)}
  OBVIOUS
<1> QED
  BY <1>1 DEF Ownership!End

LEMMA AbstractTransfer ==
  ASSUME NEW c \in Bucket, NEW o \in Worker \cup {NoWorker},
         bucket'[c].owner = o,
         \A b \in Bucket : b # c => bucket'[b] = bucket[b],
         \A v \in Worker : Work(v)' = Work(v) /\ c \notin Work(v)
  PROVE  Ownership!Transfer(c, o)
BY DEF Ownership!Transfer

\* What the writers of bucket records do to the abstract state.
LEMMA TransferSteps ==
  ASSUME IndInv, TypeOK', NEW w \in Worker,
         \/ PublishLocalBucketStates(w) \/ Reclaim(w) \/ AssignBucket(w)
         \/ MoveBucket(w) \/ Promote(w) \/ ReleaseBucket(w)
  PROVE  Ownership!Next \/ UNCHANGED AbstractVars
<1>1. TypeOK /\ PhaseInv /\ WorkIsOwned /\ TodoInv
  BY DEF IndInv
<1>2. \A v \in Worker : Work(v)' = Work(v)
  <2>1. UNCHANGED queueVars
    BY DEF PublishLocalBucketStates, Reclaim, AssignBucket, MoveBucket, Promote,
           ReleaseBucket
  <2> QED
    BY <2>1 DEF queueVars, Work
<1>3. \A v \in Worker : \A b \in Work(v) : bucket[b].owner = v /\ Alive(v)
  BY <1>1 DEF WorkIsOwned, PhaseInv, Alive
<1>4. ASSUME NEW c \in Bucket, \A v \in Worker : c \notin Work(v),
             \A b \in Bucket : b # c => bucket'[b] = bucket[b]
      PROVE  Ownership!Next
  <2>1. bucket'[c].owner \in Worker \cup {NoWorker}
    BY DEF TypeOK, BucketRecord
  <2> QED
    BY <1>2, <1>4, <2>1, AbstractTransfer DEF Ownership!Next
<1>5. CASE PublishLocalBucketStates(w) \/ MoveBucket(w)
  <2>1. \A b \in Bucket : bucket'[b].owner = bucket[b].owner
    <3>1. CASE PublishLocalBucketStates(w)
      BY <1>1, <3>1 DEF PublishLocalBucketStates, TypeOK, BucketRecord
    <3>2. CASE MoveBucket(w)
      BY <1>1, <3>2
         DEF MoveBucket, MarkBucketDraining, CanMarkDraining, TypeOK
    <3> QED
      BY <1>5, <3>1, <3>2
  <2> QED
    BY <1>2, <2>1, AbstractStutter
<1>6. CASE Reclaim(w)
  <2>1. PICK c \in todo[w] : \E o, s : SetBucketAssignment(c, o, s)
    BY <1>6 DEF Reclaim, First
  <2>2. c \in Bucket /\ \A b \in Bucket : b # c => bucket'[b] = bucket[b]
    BY <1>1, <2>1 DEF SetBucketAssignment, TypeOK
  <2>3. \A v \in Worker : c \notin Work(v)
    BY <1>1, <1>3, <1>6, <2>1 DEF Reclaim, TodoInv
  <2> QED
    BY <1>4, <2>2, <2>3
<1>7. CASE AssignBucket(w)
  <2>1. PICK c \in todo[w] : \E o, s : SetBucketAssignment(c, o, s)
    BY <1>7 DEF AssignBucket, First
  <2>2. c \in Bucket /\ \A b \in Bucket : b # c => bucket'[b] = bucket[b]
    BY <1>1, <2>1 DEF SetBucketAssignment, TypeOK
  <2>3. \A v \in Worker : c \notin Work(v)
    BY <1>1, <1>3, <1>7, <2>1, WorkerAssumption DEF AssignBucket, TodoInv
  <2> QED
    BY <1>4, <2>2, <2>3
<1>8. CASE Promote(w)
  <2>1. PICK c \in todo[w] :
          c \in Bucket /\ PromoteDrainedBucket(c, w, seen[w][c].successor)
    BY <1>8 DEF Promote, First
  <2>2. /\ \A b \in Bucket : b # c => bucket'[b] = bucket[b]
        /\ bucket[c].owner = w \/ bucket'[c] = bucket[c]
    BY <1>1, <2>1 DEF PromoteDrainedBucket, CanPromote, TypeOK
  <2>3. c \notin Work(w)
    BY <1>1, <1>8, <2>1 DEF Promote, TodoInv
  <2>4. CASE bucket[c].owner = w
    BY <1>3, <1>4, <2>1, <2>2, <2>3, <2>4
  <2>5. CASE bucket'[c] = bucket[c]
    BY <1>2, <2>2, <2>5, AbstractStutter
  <2> QED
    BY <2>2, <2>4, <2>5
<1>9. CASE ReleaseBucket(w)
  <2>1. PICK c \in todo[w] : \E o, s : SetBucketAssignment(c, o, s)
    BY <1>9 DEF ReleaseBucket, First
  <2>2. c \in Bucket /\ \A b \in Bucket : b # c => bucket'[b] = bucket[b]
    BY <1>1, <2>1 DEF SetBucketAssignment, TypeOK
  <2>3. bucket[c].owner = w /\ Work(w) = {}
    BY <1>1, <1>9, <2>1 DEF ReleaseBucket, TodoInv, PhaseInv
  <2>4. \A v \in Worker : c \notin Work(v)
    BY <1>3, <2>3
  <2> QED
    BY <1>4, <2>2, <2>4
<1> QED
  BY <1>5, <1>6, <1>7, <1>8, <1>9

\* The only actions that touch the queues.
LEMMA QueueWriters ==
  ASSUME [Next]_vars, ~UNCHANGED <<busy, enqueuing>>
  PROVE  \E w \in Worker : \/ LocalWork(w) \/ Exit(w) \/ ReleaseTimeout(w)
                           \/ EndRelease(w) \/ Crash(w)
                           \/ Signal(w) \/ Shutdown(w)
<1>1. CASE LockExpires \/ UNCHANGED vars
  BY <1>1 DEF LockExpires, vars, queueVars
<1>2. ASSUME NEW w \in Worker,
             \/ Start(w) \/ Heartbeat(w) \/ AcquireLock(w) \/ LockTimeout(w)
             \/ DatabaseError(w) \/ LeaseExpires(w)
      PROVE  FALSE
  BY <1>2 DEF Start, Heartbeat, AcquireLock, LockTimeout, DatabaseError,
              LeaseExpires, queueVars
<1>3. ASSUME NEW w \in Worker, Coordinate(w) PROVE FALSE
  BY <1>3 DEF Coordinate, Reconcile, PublishLocalBucketStates, GetOwnedBuckets,
              SyncBackQueueAssignments, SetBuckets, ReadMembers, GetBuckets,
              Reclaim, NobodyReady, Plan, AssignBucket, Assigned, MoveBucket,
              Attest, Promote, Reconciled, queueVars
<1>4. ASSUME NEW w \in Worker,
             \/ Drained(w) \/ DrainTimeout(w)
             \/ BeginRelease(w) \/ ReleaseBucket(w)
      PROVE  FALSE
  BY <1>4 DEF Drained, DrainTimeout, CancelTasks, BeginRelease, ReleaseBucket,
              queueVars
<1> QED
  BY <1>1, <1>2, <1>3, <1>4 DEF Next, Stop

\* What local work and the end of a process do to the abstract state.
LEMMA QueueSteps ==
  ASSUME IndInv, NEW w \in Worker, UNCHANGED bucket,
         \/ LocalWork(w) \/ Exit(w) \/ ReleaseTimeout(w) \/ EndRelease(w)
         \/ Crash(w) \/ Signal(w) \/ Shutdown(w)
  PROVE  Ownership!Next \/ UNCHANGED AbstractVars
<1>1. TypeOK /\ WorkIsOwned /\ AdmissionInv /\ PhaseInv
  BY DEF IndInv
<1>2. ASSUME NEW S \in SUBSET Bucket, Work(w)' = Work(w) \ S,
             \A v \in Worker : v # w => Work(v)' = Work(v)
      PROVE  Ownership!Next
  BY <1>2, AbstractEnd DEF Ownership!Next
<1>3. CASE BeginEnqueue(w)
  <2>1. PICK c \in admitted[w] : enqueuing' = [enqueuing EXCEPT ![w] = c]
    BY <1>3 DEF BeginEnqueue
  <2>2. c \in Bucket /\ bucket[c].owner = w
    <3>1. phase[w] \in Admitting
      BY <1>1, <1>3 DEF BeginEnqueue, PhaseInv, Admitting
    <3> QED
      BY <1>1, <3>1 DEF AdmissionInv, TypeOK
  <2>3. /\ Work(w)' = Work(w) \cup {c}
        /\ \A v \in Worker : v # w => Work(v)' = Work(v)
    BY <1>1, <1>3, <2>1, <2>2, NotBuckets DEF BeginEnqueue, Work, TypeOK
  <2>4. CASE c \in Work(w)
    BY <2>3, <2>4, AbstractStutter
  <2>5. CASE c \notin Work(w)
    BY <1>1, <2>2, <2>3, <2>5, AbstractBegin DEF Ownership!Next
  <2> QED
    BY <2>4, <2>5
<1>4. CASE EndEnqueue(w)
  <2>1. enqueuing[w] \in Bucket
    BY <1>4 DEF EndEnqueue
  <2>2. \A v \in Worker : v # w => Work(v)' = Work(v)
    BY <1>1, <1>4 DEF EndEnqueue, Work, TypeOK
  <2>3. enqueuing'[w] \notin Bucket
    BY <1>1, <1>4, NotBuckets DEF EndEnqueue, TypeOK
  <2>4. CASE busy' = [busy EXCEPT ![w] = @ \cup {enqueuing[w]}]
    <3>1. Work(w)' = Work(w)
      BY <1>1, <2>1, <2>3, <2>4 DEF Work, TypeOK
    <3> QED
      BY <2>2, <3>1, AbstractStutter
  <2>5. CASE UNCHANGED busy
    <3>1. Work(w)' = Work(w) \ ({enqueuing[w]} \ busy[w])
      BY <1>1, <2>1, <2>3, <2>5 DEF Work, TypeOK
    <3> QED
      BY <1>2, <2>1, <2>2, <3>1
  <2> QED
    BY <1>4, <2>4, <2>5 DEF EndEnqueue
<1>5. ASSUME NEW b \in Bucket, FinishWork(w, b) PROVE Ownership!Next
  <2>1. /\ Work(w)' = Work(w) \ {b}
        /\ \A v \in Worker : v # w => Work(v)' = Work(v)
    BY <1>1, <1>5 DEF FinishWork, Work, TypeOK
  <2> QED
    BY <1>2, <2>1
<1>7. CASE GiveUpEnqueue(w)
  BY <1>1, <1>7, NotBuckets, AbstractStutter DEF GiveUpEnqueue, Work, TypeOK
<1>8. CASE Signal(w) \/ Shutdown(w)
  <2>1. \A v \in Worker : Work(v)' = Work(v)
    BY <1>1, <1>8, NotBuckets DEF Signal, Shutdown, MarkDraining, Work, TypeOK
  <2> QED
    BY <2>1, AbstractStutter
<1>6. ASSUME Vanish(w) PROVE Ownership!Next
  <2>1. /\ Work(w)' = Work(w) \ Bucket
        /\ \A v \in Worker : v # w => Work(v)' = Work(v)
    BY <1>1, <1>6, NotBuckets DEF Vanish, Work, TypeOK
  <2> QED
    BY <1>2, <2>1
<1> QED
  BY <1>3, <1>4, <1>5, <1>6, <1>7, <1>8
     DEF LocalWork, Exit, ReleaseTimeout, EndRelease, Crash
(***************************************************************************)
(* The ownership protocol implements BucketOwnership: each step is one of  *)
(* Begin, End and Transfer of a bucket, or invisible there.                *)
(***************************************************************************)
LEMMA RefinementStep ==
  ASSUME IndInv, IndInv', [Next]_vars
  PROVE  Ownership!Next \/ UNCHANGED AbstractVars
<1>1. CASE UNCHANGED bucket
  <2>1. CASE UNCHANGED <<busy, enqueuing>>
    BY <1>1, <2>1, AbstractStutter DEF Work
  <2>2. CASE ~UNCHANGED <<busy, enqueuing>>
    <3>1. PICK w \in Worker : \/ LocalWork(w) \/ Exit(w) \/ ReleaseTimeout(w)
                              \/ EndRelease(w) \/ Crash(w)
                              \/ Signal(w) \/ Shutdown(w)
      BY <2>2, QueueWriters
    <3> QED
      BY <1>1, <3>1, QueueSteps
  <2> QED
    BY <2>1, <2>2
<1>2. CASE ~UNCHANGED bucket
  <2>1. TypeOK'
    BY DEF IndInv
  <2> QED
    BY <1>2, <2>1, BucketSteps, TransferSteps
<1> QED
  BY <1>1, <1>2

(***************************************************************************)
(* Under timely leases and locks the protocol implements BucketOwnership:  *)
(* a bucket changes owner only while no worker has work in it.             *)
(***************************************************************************)
THEOREM Refinement == Timely => (Spec => ImplementsOwnership)
<1> SUFFICES ASSUME Timely PROVE Spec => ImplementsOwnership
  OBVIOUS
<1>1. Init => Ownership!Init
  <2> SUFFICES ASSUME Init PROVE Ownership!Init
    OBVIOUS
  <2>1. \A b \in Bucket : bucket[b].owner = NoWorker
    BY DEF Init, NoRecords, Unassigned
  <2>2. \A w \in Worker : Work(w) = {}
    BY NotBuckets DEF Init, Work
  <2> QED
    BY <2>1, <2>2 DEF Ownership!Init
<1>2. IndInv /\ IndInv' /\ [Next]_vars
        => [Ownership!Next]_<<[b \in Bucket |-> bucket[b].owner],
                              [b \in Bucket |-> {w \in Worker : b \in Work(w)}]>>
  BY RefinementStep DEF AbstractVars
<1> QED
  BY <1>1, <1>2, InvariantHolds, PTL DEF Spec, ImplementsOwnership, Ownership!Spec
=============================================================================
