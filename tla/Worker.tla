------------------------------- MODULE Worker -------------------------------
(***************************************************************************)
(* The bucket-ownership protocol of linksurf: worker processes that share  *)
(* BucketCount buckets of domains through two MongoDB collections (workers *)
(* and buckets) and a Redis lock (linksurf/worker.py), the life cycle the  *)
(* application gives each of them (linksurf/application.py), and, of the   *)
(* BackQueue (linksurf/backqueue.py), what ownership depends on: which     *)
(* buckets it admits, which it drains and which hold local work.           *)
(*                                                                         *)
(* One action is one await-free stretch of the code, ending in at most one *)
(* database or lock operation, except where the next operation follows     *)
(* under the lock and touches only what the worker owns: BeginRelease and  *)
(* EndRelease.  A worker identity is a uuid4 made when the process starts, *)
(* so a restarted process is a new element of Worker.                      *)
(***************************************************************************)
EXTENDS Integers, FiniteSets

CONSTANTS Worker,          \* worker identities, ordered as their ids sort
          BucketCount,     \* BUCKET_COUNT
          MaxBucketMoves,  \* MAX_BUCKET_MOVES ("all" is BucketCount)
          EventLimit       \* how often each kind of outside event may happen

NoWorker == 0
NoBucket == 0
Undecided == -1  \* an enqueuer that saw no draining and has yet to choose
Bucket == 1 .. BucketCount

(***************************************************************************)
(* What happens to the workers from outside, each bounded by EventLimit.   *)
(* "stop": a worker is told to stop.  "crash": a process dies.  "error": a *)
(* coordination raises, on a database call or after 120 seconds without    *)
(* the lock.  "stall": the lease of a live process runs out.  "lockLoss":  *)
(* the 30 second TTL of the lock runs out under a holder still using it.   *)
(***************************************************************************)
Event == {"stop", "crash", "error", "stall", "lockLoss"}

ASSUME WorkerAssumption == Worker \subseteq Nat \ {0} /\ IsFiniteSet(Worker)
ASSUME BucketAssumption == BucketCount \in Nat \ {0} /\ MaxBucketMoves \in Nat
ASSUME EventAssumption == EventLimit \in [Event -> Nat]

VARIABLES
  members,    \* the workers collection: a worker's published status
  expired,    \* the workers whose document is past expires_at
  bucket,     \* the buckets collection
  lock,       \* holder of the coordination lock
  phase,      \* where each process is in Application.start and shutdown
  draining,   \* the workers that ran mark_draining
  admitted,   \* BackQueue.buckets
  ceding,     \* BackQueue._draining_buckets
  busy,       \* the buckets with queued or in-flight local URLs
  enqueuing,  \* the bucket that _enqueue_new_domain takes URLs from
  pc,         \* where each worker's coordination (or release) is
  live, ready, seen, eff, todo, moves, \* its local variables
  events      \* how often each of them has happened

memberVars == <<members, expired>>
queueVars == <<admitted, ceding, busy, enqueuing>>
lifeVars == <<phase, draining, events>>
planVars == <<live, ready, seen, eff, todo, moves>>
vars == <<memberVars, bucket, lock, lifeVars, queueVars, pc, planVars>>

BucketState == {"unassigned", "idle", "active", "draining"}
BucketRecord ==
  [owner: Worker \cup {NoWorker}, successor: Worker \cup {NoWorker},
   state: BucketState]
Unassigned ==
  [owner |-> NoWorker, successor |-> NoWorker, state |-> "unassigned"]
NoRecords == [b \in Bucket |-> Unassigned]
Phase == {"new", "starting", "running", "stopping", "releasing",
          "abandoning", "gone"}
Critical == {"learn", "apply", "members", "records", "reclaim", "assign",
             "move", "promote"}
Step == {"idle", "publish", "acquire", "relearn", "reapply", "release"}
          \cup Critical

(***************************************************************************)
(* Every collection, field and local variable holds a value of its type:   *)
(* in particular a published status is never one of the internal phases,   *)
(* and a stored owner or successor is a worker or nobody.                  *)
(***************************************************************************)
TypeOK ==
  /\ members \in [Worker -> {"absent", "ready", "draining"}]
  /\ expired \in SUBSET Worker
  /\ bucket \in [Bucket -> BucketRecord]
  /\ lock \in Worker \cup {NoWorker}
  /\ phase \in [Worker -> Phase]
  /\ draining \in SUBSET Worker
  /\ admitted \in [Worker -> SUBSET Bucket]
  /\ ceding \in [Worker -> SUBSET Bucket]
  /\ busy \in [Worker -> SUBSET Bucket]
  /\ enqueuing \in [Worker -> Bucket \cup {NoBucket, Undecided}]
  /\ pc \in [Worker -> Step]
  /\ live \in [Worker -> SUBSET Worker]
  /\ ready \in [Worker -> SUBSET Worker]
  /\ seen \in [Worker -> [Bucket -> BucketRecord]]
  /\ eff \in [Worker -> [Bucket -> Worker \cup {NoWorker}]]
  /\ todo \in [Worker -> SUBSET Bucket]
  /\ moves \in [Worker -> Nat]
  /\ events \in [Event -> Nat]

Init ==
  /\ members = [w \in Worker |-> "absent"]
  /\ expired = {}
  /\ bucket = NoRecords
  /\ lock = NoWorker
  /\ phase = [w \in Worker |-> "new"]
  /\ draining = {}
  /\ admitted = [w \in Worker |-> {}]
  /\ ceding = [w \in Worker |-> {}]
  /\ busy = [w \in Worker |-> {}]
  /\ enqueuing = [w \in Worker |-> NoBucket]
  /\ pc = [w \in Worker |-> "idle"]
  /\ live = [w \in Worker |-> {}]
  /\ ready = [w \in Worker |-> {}]
  /\ seen = [w \in Worker |-> NoRecords]
  /\ eff = [w \in Worker |-> [b \in Bucket |-> NoWorker]]
  /\ todo = [w \in Worker |-> {}]
  /\ moves = [w \in Worker |-> 0]
  /\ events = [e \in Event |-> 0]

Alive(w) == w \in Worker /\ phase[w] \notin {"new", "gone"}
Work(w) == busy[w] \cup ({enqueuing[w]} \cap Bucket)
OwnedBuckets(w) == {b \in Bucket : bucket[b].owner = w}
First(b, S) == b \in S /\ \A c \in S : b <= c

-----------------------------------------------------------------------------
(***************************************************************************)
(* The MongoDB operations on workers and buckets.                          *)
(***************************************************************************)
UpsertWorker(w, status) ==
  /\ members' = [members EXCEPT ![w] = status]
  /\ expired' = expired \ {w}

SetBucketAssignment(b, owner, state) ==
  bucket' = [bucket EXCEPT ![b] =
              [owner |-> owner, successor |-> NoWorker, state |-> state]]

CanMarkDraining(b, owner) ==
  bucket[b].owner = owner /\ bucket[b].state \in {"idle", "active"}

\* Faulty variant: an idle bucket is handed over without draining.
IdleHandedOver(b, owner, successor) ==
  bucket' = [bucket EXCEPT ![b] =
    IF bucket[b].owner = owner /\ bucket[b].state = "idle"
      THEN [owner |-> successor, successor |-> NoWorker, state |-> "idle"]
    ELSE IF CanMarkDraining(b, owner)
      THEN [owner |-> owner, successor |-> successor, state |-> "draining"]
    ELSE @]

MarkBucketDraining(b, owner, successor) ==
  bucket' = [bucket EXCEPT ![b] = IF CanMarkDraining(b, owner)
              THEN [owner |-> owner, successor |-> successor,
                    state |-> "draining"]
              ELSE @]

CanPromote(b, owner, successor) ==
  bucket[b] = [owner |-> owner, successor |-> successor, state |-> "draining"]

\* Faulty variant: the promotion leaves the reservation in place.
ReservationKept(b, owner, successor) ==
  bucket' = [bucket EXCEPT ![b] = IF CanPromote(b, owner, successor)
              THEN [@ EXCEPT !.owner = successor, !.state = "idle"]
              ELSE @]

PromoteDrainedBucket(b, owner, successor) ==
  bucket' = [bucket EXCEPT ![b] = IF CanPromote(b, owner, successor)
              THEN [owner |-> successor, successor |-> NoWorker,
                    state |-> "idle"]
              ELSE @]

-----------------------------------------------------------------------------
(***************************************************************************)
(* How a coordination ends.  Forget clears the local variables.  Fail is   *)
(* an exception leaving Worker.coordinate: the lock, if still owned, is    *)
(* released on the way out; the heartbeat logs it, a starting application  *)
(* shuts down and, its BackQueue not being ready, goes on to release.      *)
(***************************************************************************)
Spend(e) ==
  /\ events[e] < EventLimit[e]
  /\ events' = [events EXCEPT ![e] = @ + 1]

\* Faulty variant: the phase is published in place of the status.
PhaseAsStatus(w) == IF w \in draining THEN "stopping" ELSE "ready"

Status(w) == IF w \in draining THEN "draining" ELSE "ready"

Forget(w) ==
  /\ live' = [live EXCEPT ![w] = {}]
  /\ ready' = [ready EXCEPT ![w] = {}]
  /\ seen' = [seen EXCEPT ![w] = NoRecords]
  /\ eff' = [eff EXCEPT ![w] = [b \in Bucket |-> NoWorker]]
  /\ todo' = [todo EXCEPT ![w] = {}]
  /\ moves' = [moves EXCEPT ![w] = 0]

ReleaseLock(w) == lock' = IF lock = w THEN NoWorker ELSE lock

Fail(w) ==
  /\ ReleaseLock(w)
  /\ Forget(w)
  /\ pc' = [pc EXCEPT ![w] = "idle"]
  /\ phase' = [phase EXCEPT ![w] = IF @ = "starting" THEN "releasing" ELSE @]

(***************************************************************************)
(* The end of the locked section: releasing a lock that is no longer owned *)
(* raises LockOwnershipError, and the second synchronisation is skipped.   *)
(***************************************************************************)
Leave(w) ==
  \/ /\ lock = w
     /\ lock' = NoWorker
     /\ Forget(w)
     /\ pc' = [pc EXCEPT ![w] = "relearn"]
     /\ UNCHANGED phase
  \/ lock # w /\ Fail(w)

-----------------------------------------------------------------------------
(***************************************************************************)
(* Membership: on_start and the heartbeat.                                 *)
(***************************************************************************)
Start(w) ==
  /\ phase[w] = "new"
  /\ phase' = [phase EXCEPT ![w] = "starting"]
  /\ UpsertWorker(w, Status(w))
  /\ pc' = [pc EXCEPT ![w] = "acquire"]
  /\ UNCHANGED <<bucket, lock, draining, events, queueVars, planVars>>

\* A heartbeat starts a coordination unless one is still in progress.
Heartbeat(w) ==
  /\ phase[w] \in {"starting", "running", "stopping"}
  /\ UpsertWorker(w, Status(w))
  /\ pc' = [pc EXCEPT ![w] =
              IF phase[w] = "running" /\ @ = "idle" THEN "publish" ELSE @]
  /\ UNCHANGED <<bucket, lock, lifeVars, queueVars, planVars>>

(***************************************************************************)
(* Worker.coordinate up to the lock.  bucket_states takes BackQueue.lock,  *)
(* so it waits for an enqueuer; the bulk write is guarded per bucket.      *)
(***************************************************************************)
PublishLocalBucketStates(w) ==
  /\ pc[w] = "publish"
  /\ enqueuing[w] \notin Bucket
  /\ bucket' = [b \in Bucket |->
       IF b \in admitted[w] /\ CanMarkDraining(b, w)
         THEN [bucket[b] EXCEPT !.state =
                 IF b \in busy[w] THEN "active" ELSE "idle"]
         ELSE bucket[b]]
  /\ pc' = [pc EXCEPT ![w] = "acquire"]
  /\ UNCHANGED <<memberVars, lock, lifeVars, queueVars, planVars>>

\* Faulty variant: the lock is taken over from its holder.
LockStolen(w) ==
  /\ pc[w] = "acquire"
  /\ lock' = w
  /\ pc' = [pc EXCEPT ![w] = "learn"]
  /\ UNCHANGED <<memberVars, bucket, lifeVars, queueVars, planVars>>

AcquireLock(w) ==
  /\ pc[w] = "acquire"
  /\ lock = NoWorker
  /\ lock' = w
  /\ pc' = [pc EXCEPT ![w] = "learn"]
  /\ UNCHANGED <<memberVars, bucket, lifeVars, queueVars, planVars>>

LockTimeout(w) ==
  /\ pc[w] = "acquire"
  /\ lock # NoWorker
  /\ Spend("error")
  /\ Fail(w)
  /\ UNCHANGED <<memberVars, bucket, draining, queueVars>>

(***************************************************************************)
(* sync_backqueue_assignments, run under the lock ("learn") and again      *)
(* after it ("relearn"): the query, then BackQueue.set_buckets, which      *)
(* takes no lock and leaves the queues as they are.  The second one ends   *)
(* the coordination, and with it the start of a starting application.      *)
(***************************************************************************)
GetOwnedBuckets(w) ==
  /\ pc[w] \in {"learn", "relearn"}
  /\ seen' = [seen EXCEPT ![w] = [b \in Bucket |->
                IF bucket[b].owner = w THEN bucket[b] ELSE Unassigned]]
  /\ pc' = [pc EXCEPT ![w] = IF @ = "learn" THEN "apply" ELSE "reapply"]
  /\ UNCHANGED <<memberVars, bucket, lock, lifeVars, queueVars,
                 live, ready, eff, todo, moves>>

\* Faulty variant: admission is only ever extended.
AdmissionKept(w) ==
  /\ admitted' = [admitted EXCEPT ![w] =
       @ \cup {b \in Bucket : seen[w][b].state \in {"idle", "active"}}]
  /\ ceding' = [ceding EXCEPT ![w] =
       {b \in Bucket : seen[w][b].state = "draining"}]
  /\ UNCHANGED <<busy, enqueuing>>

SetBuckets(w) ==
  /\ admitted' = [admitted EXCEPT ![w] =
       {b \in Bucket : seen[w][b].state \in {"idle", "active"}}]
  /\ ceding' = [ceding EXCEPT ![w] =
       {b \in Bucket : seen[w][b].state = "draining"}]
  /\ UNCHANGED <<busy, enqueuing>>

SyncBackQueueAssignments(w) ==
  /\ pc[w] \in {"apply", "reapply"}
  /\ SetBuckets(w)
  /\ seen' = [seen EXCEPT ![w] = NoRecords]
  /\ pc' = [pc EXCEPT ![w] = IF @ = "apply" THEN "members" ELSE "idle"]
  /\ phase' = [phase EXCEPT ![w] =
       IF @ = "starting" /\ pc[w] = "reapply" THEN "running" ELSE @]
  /\ UNCHANGED <<memberVars, bucket, lock, draining, events,
                 live, ready, eff, todo, moves>>

-----------------------------------------------------------------------------
(***************************************************************************)
(* Worker.reconcile: delete_expired_workers and get_live_workers, for one  *)
(* value of now, then get_buckets and the reclaim loop.                    *)
(***************************************************************************)
ReadMembers(w) ==
  /\ pc[w] = "members"
  /\ members' = [v \in Worker |->
                   IF v \in expired THEN "absent" ELSE members[v]]
  /\ expired' = {}
  /\ live' = [live EXCEPT ![w] = {v \in Worker : members'[v] # "absent"}]
  /\ ready' = [ready EXCEPT ![w] = {v \in Worker : members'[v] = "ready"}]
  /\ pc' = [pc EXCEPT ![w] = "records"]
  /\ UNCHANGED <<bucket, lock, lifeVars, queueVars, seen, eff, todo, moves>>

\* Faulty variant: a bucket in handoff is left to its owner, gone or not.
LostButNotDraining(w) ==
  {b \in Bucket : /\ bucket[b].owner \notin live[w] \cup {NoWorker}
                  /\ bucket[b].state # "draining"}

Lost(w) == {b \in Bucket : bucket[b].owner \notin live[w] \cup {NoWorker}}

GetBuckets(w) ==
  /\ pc[w] = "records"
  /\ seen' = [seen EXCEPT ![w] = bucket]
  /\ todo' = [todo EXCEPT ![w] = Lost(w)]
  /\ live' = [live EXCEPT ![w] = {}]
  /\ pc' = [pc EXCEPT ![w] = "reclaim"]
  /\ UNCHANGED <<memberVars, bucket, lock, lifeVars, queueVars,
                 ready, eff, moves>>

\* A reserved bucket whose successor is ready goes on to that successor.
Inherits(w, r) == r.state = "draining" /\ r.successor \in ready[w]

Reclaim(w) ==
  /\ pc[w] = "reclaim"
  /\ \E b \in Bucket :
       /\ First(b, todo[w])
       /\ IF Inherits(w, seen[w][b])
            THEN SetBucketAssignment(b, seen[w][b].successor, "idle")
            ELSE SetBucketAssignment(b, NoWorker, "unassigned")
       /\ todo' = [todo EXCEPT ![w] = @ \ {b}]
  /\ UNCHANGED <<memberVars, lock, lifeVars, queueVars, pc,
                 live, ready, seen, eff, moves>>

\* Without a ready worker reconcile returns before it can promote anything.
NobodyReady(w) ==
  /\ pc[w] = "reclaim"
  /\ todo[w] = {}
  /\ ready[w] = {}
  /\ Leave(w)
  /\ UNCHANGED <<memberVars, bucket, draining, events, queueVars>>

(***************************************************************************)
(* The plan.  loads is the number of buckets each ready worker effectively *)
(* owns, and is derived here from effective_owner, with which the code     *)
(* keeps it in step.                                                       *)
(***************************************************************************)
\* Faulty variant: the remainder of the division is dropped.
WithoutRemainder(R, v) == BucketCount \div Cardinality(R)

TargetCount(R, v) ==
  LET rank == Cardinality({u \in R : u < v})
      size == Cardinality(R)
  IN  (BucketCount \div size)
        + (IF rank < BucketCount % size THEN 1 ELSE 0)

Load(w, v) == Cardinality({b \in Bucket : eff[w][b] = v})
Below(w) == {v \in ready[w] : Load(w, v) < TargetCount(ready[w], v)}
Receiver(w, v) ==
  /\ v \in Below(w)
  /\ \A u \in Below(w) : \/ Load(w, v) < Load(w, u)
                         \/ Load(w, v) = Load(w, u) /\ v <= u

Plan(w) ==
  /\ pc[w] = "reclaim"
  /\ todo[w] = {}
  /\ ready[w] # {}
  /\ eff' = [eff EXCEPT ![w] = [b \in Bucket |->
       IF Inherits(w, bucket[b]) THEN bucket[b].successor
                                 ELSE bucket[b].owner]]
  /\ todo' = [todo EXCEPT ![w] =
                {b \in Bucket : bucket[b].state = "unassigned"}]
  /\ seen' = [seen EXCEPT ![w] = NoRecords]
  /\ pc' = [pc EXCEPT ![w] = "assign"]
  /\ UNCHANGED <<memberVars, bucket, lock, lifeVars, queueVars,
                 live, ready, moves>>

\* A free bucket goes to the least loaded ready worker.
AssignBucket(w) ==
  /\ pc[w] = "assign"
  /\ \E b \in Bucket, v \in Worker :
       /\ First(b, todo[w])
       /\ Receiver(w, v)
       /\ SetBucketAssignment(b, v, "idle")
       /\ eff' = [eff EXCEPT ![w][b] = v]
       /\ todo' = [todo EXCEPT ![w] = @ \ {b}]
  /\ UNCHANGED <<memberVars, lock, lifeVars, queueVars, pc,
                 live, ready, seen, moves>>

\* No free bucket or no receiver is left: the buckets are read once more.
Assigned(w) ==
  /\ pc[w] = "assign"
  /\ todo[w] = {} \/ Below(w) = {}
  /\ seen' = [seen EXCEPT ![w] = bucket]
  /\ todo' = [todo EXCEPT ![w] = Bucket]
  /\ pc' = [pc EXCEPT ![w] = "move"]
  /\ UNCHANGED <<memberVars, bucket, lock, lifeVars, queueVars,
                 live, ready, eff, moves>>

(***************************************************************************)
(* Rebalancing: the idle buckets in order, then the active ones.  What the *)
(* loop skips can never become movable later (the load of a source only    *)
(* falls, that of a destination stops at its target), so each step takes   *)
(* the first movable bucket not tried yet.                                 *)
(***************************************************************************)
Movable(w, b) ==
  /\ b \in todo[w]
  /\ seen[w][b].state \in {"idle", "active"}
  /\ eff[w][b] \in ready[w]
  /\ Load(w, eff[w][b]) > TargetCount(ready[w], eff[w][b])

NextMovable(w, b) ==
  /\ Movable(w, b)
  /\ \A c \in Bucket : Movable(w, c) =>
       \/ seen[w][b].state = "idle" /\ seen[w][c].state = "active"
       \/ seen[w][b].state = seen[w][c].state /\ b <= c

MoveBucket(w) ==
  /\ pc[w] = "move"
  /\ moves[w] < MaxBucketMoves
  /\ \E b \in Bucket, v \in Worker :
       /\ NextMovable(w, b)
       /\ Receiver(w, v)
       /\ MarkBucketDraining(b, eff[w][b], v)
       /\ IF CanMarkDraining(b, eff[w][b])
            THEN /\ eff' = [eff EXCEPT ![w][b] = v]
                 /\ moves' = [moves EXCEPT ![w] = @ + 1]
            ELSE UNCHANGED <<eff, moves>>
       /\ todo' = [todo EXCEPT ![w] = @ \ {b}]
  /\ UNCHANGED <<memberVars, lock, lifeVars, queueVars, pc, live, ready, seen>>

(***************************************************************************)
(* The attestation: drained_buckets, under BackQueue.lock, and then one    *)
(* promotion per drained bucket that the last read shows with a successor. *)
(* A starting worker has no BackQueue to ask.                              *)
(***************************************************************************)
\* Faulty variant: local work is not looked at.
AllCeding(w) == {b \in ceding[w] : seen[w][b].successor # NoWorker}

DrainedBuckets(w) ==
  IF phase[w] = "starting" THEN {}
  ELSE {b \in ceding[w] : b \notin busy[w] /\ seen[w][b].successor # NoWorker}

LastMove(w) ==
  \/ moves[w] >= MaxBucketMoves
  \/ \A b \in Bucket : ~Movable(w, b)
  \/ Below(w) = {}

\* Faulty variant: the attestation does not wait for an enqueuer.
UnlockedAttest(w) ==
  /\ pc[w] = "move"
  /\ LastMove(w)
  /\ todo' = [todo EXCEPT ![w] = DrainedBuckets(w)]
  /\ ready' = [ready EXCEPT ![w] = {}]
  /\ eff' = [eff EXCEPT ![w] = [b \in Bucket |-> NoWorker]]
  /\ moves' = [moves EXCEPT ![w] = 0]
  /\ pc' = [pc EXCEPT ![w] = "promote"]
  /\ UNCHANGED <<memberVars, bucket, lock, lifeVars, queueVars, live, seen>>

Attest(w) ==
  /\ pc[w] = "move"
  /\ LastMove(w)
  /\ enqueuing[w] \notin Bucket
  /\ todo' = [todo EXCEPT ![w] = DrainedBuckets(w)]
  /\ ready' = [ready EXCEPT ![w] = {}]
  /\ eff' = [eff EXCEPT ![w] = [b \in Bucket |-> NoWorker]]
  /\ moves' = [moves EXCEPT ![w] = 0]
  /\ pc' = [pc EXCEPT ![w] = "promote"]
  /\ UNCHANGED <<memberVars, bucket, lock, lifeVars, queueVars, live, seen>>

Promote(w) ==
  /\ pc[w] = "promote"
  /\ \E b \in Bucket :
       /\ First(b, todo[w])
       /\ PromoteDrainedBucket(b, w, seen[w][b].successor)
       /\ todo' = [todo EXCEPT ![w] = @ \ {b}]
  /\ UNCHANGED <<memberVars, lock, lifeVars, queueVars, pc,
                 live, ready, seen, eff, moves>>

Reconciled(w) ==
  /\ pc[w] = "promote"
  /\ todo[w] = {}
  /\ Leave(w)
  /\ UNCHANGED <<memberVars, bucket, draining, events, queueVars>>

-----------------------------------------------------------------------------
(***************************************************************************)
(* Local work.  An enqueue tests _draining, waits for BackQueue.lock,      *)
(* chooses among the buckets admitted then and keeps the lock to the last  *)
(* put, across several awaits; it may find nothing to put.  The test and   *)
(* the choice are one step here, except for enqueuers that mark_draining   *)
(* finds in between: they are Undecided, and go on one after the other.    *)
(* FinishWork is the last payload of a bucket completed, or its queue      *)
(* cleaned up; it waits for the lock.                                      *)
(***************************************************************************)
BeginEnqueue(w) ==
  /\ \/ enqueuing[w] = NoBucket /\ phase[w] = "running" /\ w \notin draining
     \/ enqueuing[w] = Undecided
  /\ \E b \in admitted[w] \ ceding[w] :
       enqueuing' = [enqueuing EXCEPT ![w] = b]
  /\ UNCHANGED <<memberVars, bucket, lock, lifeVars, admitted, ceding, busy,
                 pc, planVars>>

\* No bucket or no domain is left to choose for the last Undecided one.
GiveUpEnqueue(w) ==
  /\ enqueuing[w] = Undecided
  /\ enqueuing' = [enqueuing EXCEPT ![w] = NoBucket]
  /\ UNCHANGED <<memberVars, bucket, lock, lifeVars, admitted, ceding, busy,
                 pc, planVars>>

EndEnqueue(w) ==
  /\ enqueuing[w] \in Bucket
  /\ \/ busy' = [busy EXCEPT ![w] = @ \cup {enqueuing[w]}]
     \/ UNCHANGED busy
  /\ \E next \in {NoBucket} \cup (IF w \in draining THEN {Undecided} ELSE {}) :
       enqueuing' = [enqueuing EXCEPT ![w] = next]
  /\ UNCHANGED <<memberVars, bucket, lock, lifeVars, admitted, ceding,
                 pc, planVars>>

FinishWork(w, b) ==
  /\ b \in busy[w]
  /\ enqueuing[w] \notin Bucket
  /\ busy' = [busy EXCEPT ![w] = @ \ {b}]
  /\ UNCHANGED <<memberVars, bucket, lock, lifeVars, admitted, ceding,
                 enqueuing, pc, planVars>>

-----------------------------------------------------------------------------
(***************************************************************************)
(* Shutdown.  A signal only marks the worker; shutdown proper follows when *)
(* the broker loop returns (which it also does on a broker error), waits   *)
(* for the local work and cancels the heartbeat and the coordination.      *)
(***************************************************************************)
MarkDraining(w) ==
  /\ draining' = draining \cup {w}
  /\ \/ UNCHANGED enqueuing
     \/ /\ phase[w] = "running"
        /\ w \notin draining
        /\ enqueuing[w] = NoBucket
        /\ enqueuing' = [enqueuing EXCEPT ![w] = Undecided]

Signal(w) ==
  /\ phase[w] \in {"starting", "running"}
  /\ w \notin draining
  /\ Spend("stop")
  /\ MarkDraining(w)
  /\ UNCHANGED <<memberVars, bucket, lock, phase, admitted, ceding, busy,
                 pc, planVars>>

\* Publishing the draining status may fail; that is only logged.
Shutdown(w) ==
  /\ phase[w] = "running"
  /\ phase' = [phase EXCEPT ![w] = "stopping"]
  /\ MarkDraining(w)
  /\ IF w \in draining THEN UNCHANGED events ELSE Spend("stop")
  /\ \/ UpsertWorker(w, "draining")
     \/ UNCHANGED memberVars
  /\ UNCHANGED <<bucket, lock, admitted, ceding, busy, pc, planVars>>

CancelTasks(w, next) ==
  /\ ReleaseLock(w)
  /\ Forget(w)
  /\ pc' = [pc EXCEPT ![w] = "idle"]
  /\ phase' = [phase EXCEPT ![w] = next]
  /\ UNCHANGED <<memberVars, bucket, draining, events, queueVars>>

\* Faulty variant: shutdown does not wait for the local work.
NotDrained(w) == phase[w] = "stopping" /\ CancelTasks(w, "releasing")

Drained(w) ==
  /\ phase[w] = "stopping"
  /\ Work(w) = {} /\ enqueuing[w] = NoBucket
  /\ CancelTasks(w, "releasing")

DrainTimeout(w) ==
  /\ phase[w] = "stopping"
  /\ Work(w) # {} \/ enqueuing[w] = Undecided
  /\ CancelTasks(w, "abandoning")

\* The memory of a process ends with it; its documents and its lock remain.
Vanish(w) ==
  /\ phase' = [phase EXCEPT ![w] = "gone"]
  /\ draining' = draining \ {w}
  /\ admitted' = [admitted EXCEPT ![w] = {}]
  /\ ceding' = [ceding EXCEPT ![w] = {}]
  /\ busy' = [busy EXCEPT ![w] = {}]
  /\ enqueuing' = [enqueuing EXCEPT ![w] = NoBucket]
  /\ pc' = [pc EXCEPT ![w] = "idle"]
  /\ Forget(w)

Exit(w) ==
  /\ phase[w] = "abandoning"
  /\ Vanish(w)
  /\ UNCHANGED <<memberVars, bucket, lock, events>>

(***************************************************************************)
(* Worker.release, with a lock timeout of 10 seconds; a timeout is an      *)
(* exception out of shutdown, and the process ends without releasing.      *)
(***************************************************************************)
BeginRelease(w) ==
  /\ phase[w] = "releasing"
  /\ pc[w] = "idle"
  /\ lock = NoWorker
  /\ lock' = w
  /\ todo' = [todo EXCEPT ![w] = OwnedBuckets(w)]
  /\ pc' = [pc EXCEPT ![w] = "release"]
  /\ UNCHANGED <<memberVars, bucket, lifeVars, queueVars,
                 live, ready, seen, eff, moves>>

ReleaseTimeout(w) ==
  /\ phase[w] = "releasing"
  /\ pc[w] = "idle"
  /\ lock # NoWorker
  /\ Vanish(w)
  /\ UNCHANGED <<memberVars, bucket, lock, events>>

ReleaseBucket(w) ==
  /\ pc[w] = "release"
  /\ \E b \in Bucket :
       /\ First(b, todo[w])
       /\ SetBucketAssignment(b, NoWorker, "unassigned")
       /\ todo' = [todo EXCEPT ![w] = @ \ {b}]
  /\ UNCHANGED <<memberVars, lock, lifeVars, queueVars, pc,
                 live, ready, seen, eff, moves>>

EndRelease(w) ==
  /\ pc[w] = "release"
  /\ todo[w] = {}
  /\ UpsertWorker(w, "absent")
  /\ ReleaseLock(w)
  /\ Vanish(w)
  /\ UNCHANGED <<bucket, events>>

-----------------------------------------------------------------------------
(***************************************************************************)
(* Faults, and the passing of time for what a gone process leaves behind,  *)
(* which EventLimit does not bound.                                        *)
(***************************************************************************)
Crash(w) ==
  /\ Alive(w)
  /\ Spend("crash")
  /\ Vanish(w)
  /\ UNCHANGED <<memberVars, bucket, lock>>

\* An error during release ends the process: that is Crash and LockExpires.
DatabaseError(w) ==
  /\ pc[w] \notin {"idle", "release"}
  /\ Spend("error")
  /\ Fail(w)
  /\ UNCHANGED <<memberVars, bucket, draining, queueVars>>

LeaseExpires(w) ==
  /\ members[w] # "absent"
  /\ w \notin expired
  /\ IF Alive(w) THEN Spend("stall") ELSE UNCHANGED events
  /\ expired' = expired \cup {w}
  /\ UNCHANGED <<members, bucket, lock, phase, draining, queueVars,
                 pc, planVars>>

LockExpires ==
  /\ lock # NoWorker
  /\ IF Alive(lock) THEN Spend("lockLoss") ELSE UNCHANGED events
  /\ lock' = NoWorker
  /\ UNCHANGED <<memberVars, bucket, phase, draining, queueVars, pc, planVars>>

-----------------------------------------------------------------------------
Reconcile(w) ==
  \/ ReadMembers(w) \/ GetBuckets(w) \/ Reclaim(w) \/ NobodyReady(w)
  \/ Plan(w) \/ AssignBucket(w) \/ Assigned(w) \/ MoveBucket(w)
  \/ Attest(w) \/ Promote(w) \/ Reconciled(w)

Coordinate(w) ==
  \/ PublishLocalBucketStates(w)
  \/ GetOwnedBuckets(w) \/ SyncBackQueueAssignments(w)
  \/ Reconcile(w)

LocalWork(w) ==
  \/ BeginEnqueue(w) \/ GiveUpEnqueue(w) \/ EndEnqueue(w)
  \/ \E b \in Bucket : FinishWork(w, b)

Stop(w) ==
  \/ Signal(w) \/ Shutdown(w) \/ Drained(w) \/ DrainTimeout(w) \/ Exit(w)
  \/ BeginRelease(w) \/ ReleaseTimeout(w) \/ ReleaseBucket(w) \/ EndRelease(w)

Next ==
  \/ \E w \in Worker :
       \/ Start(w) \/ Heartbeat(w)
       \/ AcquireLock(w) \/ LockTimeout(w) \/ Coordinate(w)
       \/ LocalWork(w) \/ Stop(w)
       \/ Crash(w) \/ DatabaseError(w) \/ LeaseExpires(w)
  \/ LockExpires

Spec == Init /\ [][Next]_vars

(***************************************************************************)
(* Fairness.  The heartbeat, the drain and the release are loops or        *)
(* straight code of one task, with timeouts: weak fairness.  A step of a   *)
(* coordination or the end of a payload may have to wait for BackQueue's   *)
(* lock, which asyncio grants in order of arrival, and a coordination may  *)
(* have to wait for the Redis lock, which it polls for 120 seconds while   *)
(* no holder keeps it longer than 30: strong fairness.                     *)
(***************************************************************************)
Fairness ==
  /\ \A w \in Worker :
       /\ WF_vars(Heartbeat(w))
       /\ SF_vars(Coordinate(w))
       /\ SF_vars(AcquireLock(w))
       /\ WF_vars(GiveUpEnqueue(w) \/ EndEnqueue(w))
       /\ \A b \in Bucket : SF_vars(FinishWork(w, b))
       /\ WF_vars(w \in draining /\ Shutdown(w))
       /\ WF_vars(Drained(w) \/ DrainTimeout(w) \/ Exit(w))
       /\ WF_vars(BeginRelease(w) \/ ReleaseTimeout(w)
                    \/ ReleaseBucket(w) \/ EndRelease(w))
       /\ WF_vars(phase[w] = "gone" /\ LeaseExpires(w))
  /\ WF_vars(~Alive(lock) /\ LockExpires)

FairSpec == Spec /\ Fairness

-----------------------------------------------------------------------------
(***************************************************************************)
(* No two workers ever have local work (an enqueue in progress, queued or  *)
(* in-flight URLs) in the same bucket: "Every handoff must therefore drain *)
(* under the old owner before the successor is allowed to admit work"      *)
(* (worker.py:249).                                                        *)
(***************************************************************************)
ExclusiveWork ==
  \A v, w \in Worker : v # w => Work(v) \cap Work(w) = {}

(***************************************************************************)
(* A worker that no longer owns a bucket has no URL of it left: ownership  *)
(* in MongoDB never runs ahead of the memory of the previous owner.        *)
(***************************************************************************)
WorkIsOwned ==
  \A w \in Worker : \A b \in Work(w) : bucket[b].owner = w

(***************************************************************************)
(* A bucket is never in the admission list of a worker that may still take *)
(* URLs of it while another has local work in it (the same comment, at the *)
(* successor's side).                                                      *)
(***************************************************************************)
SuccessorWaits ==
  \A v, w \in Worker :
    v # w /\ phase[w] \notin {"releasing", "gone"}
      => Work(v) \cap admitted[w] = {}

(***************************************************************************)
(* The three fields of a bucket record stay consistent through every       *)
(* write, even when leases lapse and the lock is lost: nobody owns an      *)
(* unassigned bucket, exactly the draining ones are reserved, and never    *)
(* for their own owner.                                                    *)
(***************************************************************************)
RecordsWellFormed ==
  \A b \in Bucket :
    /\ (bucket[b].state = "unassigned") = (bucket[b].owner = NoWorker)
    /\ (bucket[b].state = "draining") = (bucket[b].successor # NoWorker)
    /\ bucket[b].owner # NoWorker => bucket[b].owner # bucket[b].successor

(***************************************************************************)
(* "Free buckets are always assigned before any worker is asked to give    *)
(* work away" (worker.py:217): the targets leave room for every free       *)
(* bucket, so none is left when the moves begin.                           *)
(***************************************************************************)
FreeFirst ==
  \A w \in Worker : pc[w] = "move" =>
    \A b \in Bucket : bucket[b].state # "unassigned"

(***************************************************************************)
(* A bucket leaves a live worker only by that worker's own promotion or    *)
(* release, made under the lock: no other reconciler takes it away.        *)
(***************************************************************************)
YieldedByOwner ==
  [][\A b \in Bucket, w \in Worker :
       bucket[b].owner = w /\ Alive(w) /\ bucket'[b].owner # w
         => lock = w /\ pc[w] \in {"promote", "release"}]_vars

(***************************************************************************)
(* The protocol implements the abstract ownership of BucketOwnership.      *)
(***************************************************************************)
Ownership == INSTANCE BucketOwnership WITH
  owner <- [b \in Bucket |-> bucket[b].owner],
  working <- [b \in Bucket |-> {w \in Worker : b \in Work(w)}]

ImplementsOwnership == Ownership!Spec

(***************************************************************************)
(* Whatever happened before, ownership settles: in the end either no       *)
(* worker is left to serve, or every bucket is idle or active and every    *)
(* serving worker owns its target number of buckets and admits them.       *)
(***************************************************************************)
Serving == {w \in Worker : phase[w] = "running" /\ w \notin draining}
Balanced ==
  \A w \in Serving :
    /\ Cardinality(OwnedBuckets(w)) = TargetCount(Serving, w)
    /\ \A b \in OwnedBuckets(w) : bucket[b].state # "draining"
    /\ OwnedBuckets(w) = admitted[w]
Settles == <>[]Balanced

(***************************************************************************)
(* After a lapsed lease put one bucket in two hands, the duplicate work    *)
(* dries up: in the end only owners work.                                  *)
(***************************************************************************)
Heals == <>[]WorkIsOwned

-----------------------------------------------------------------------------
(***************************************************************************)
(* The inductive invariant behind the safety theorems, for executions in   *)
(* which no live worker loses its lease and no user of the lock its TTL.   *)
(***************************************************************************)
Timely == EventLimit["stall"] = 0 /\ EventLimit["lockLoss"] = 0

\* Nobody refers to a worker that has not started.
NewUnknown ==
  \A w \in Worker : phase[w] = "new" =>
    /\ members[w] = "absent" /\ admitted[w] = {}
    /\ \A b \in Bucket : bucket[b].owner # w /\ bucket[b].successor # w
    /\ \A v \in Worker : /\ w \notin ready[v]
                         /\ \A b \in Bucket : seen[v][b].successor # w

PhaseInv ==
  \A w \in Worker :
    /\ pc[w] \notin {"idle", "release"} =>
         phase[w] \in {"starting", "running", "stopping"}
    /\ pc[w] = "release" => phase[w] = "releasing"
    /\ pc[w] = "reapply" \/ pc[w] = "relearn" => lock # w
    /\ Work(w) # {} \/ enqueuing[w] # NoBucket =>
         phase[w] \in {"running", "stopping", "abandoning"}
    /\ phase[w] = "stopping" => w \in draining

LockInv == \A w \in Worker : pc[w] \in Critical \cup {"release"} => lock = w

LeaseInv ==
  \A w \in Worker : Alive(w) => members[w] # "absent" /\ w \notin expired

Admitting == {"starting", "running", "stopping", "abandoning"}
AdmissionInv ==
  \A w \in Worker :
    /\ admitted[w] \cap ceding[w] = {}
    /\ phase[w] \in Admitting => \A b \in admitted[w] : bucket[b].owner = w

SnapshotInv ==
  \A w \in Worker : pc[w] \in {"apply", "reapply"} =>
    \A b \in Bucket : seen[w][b].state # "unassigned" => bucket[b].owner = w

TodoInv ==
  \A w \in Worker :
    /\ pc[w] = "records" =>
         \A v \in Worker : Alive(v) /\ v \notin live[w] => OwnedBuckets(v) = {}
    /\ \A b \in todo[w] :
         /\ pc[w] = "reclaim" => ~Alive(bucket[b].owner)
         /\ pc[w] = "assign" => bucket[b].owner = NoWorker
         /\ pc[w] = "promote" => b \notin Work(w) \cup admitted[w]
         /\ pc[w] = "release" => bucket[b].owner = w

IndInv ==
  /\ TypeOK /\ RecordsWellFormed /\ NewUnknown /\ PhaseInv /\ LockInv
  /\ LeaseInv /\ WorkIsOwned /\ AdmissionInv /\ SnapshotInv /\ TodoInv
=============================================================================
