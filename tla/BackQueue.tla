----------------------------- MODULE BackQueue -----------------------------
(***************************************************************************)
(* The BackQueue of one process (linksurf/backqueue.py) and the tasks that *)
(* share it: the Downloader's loops (linksurf/components/downloader), the  *)
(* cleanups that report starts, the drain of a shutdown and the attestation*)
(* of drained buckets of a coordination.                                   *)
(*                                                                         *)
(* One action is one await-free stretch of a task.  BackQueue.lock is an   *)
(* asyncio.Lock: requests are served in order (line), and an operation     *)
(* that holds it without an await is the single step of its turn.  Only an *)
(* enqueue keeps it across awaits.  A domain's own Lock is an object that  *)
(* tasks may still refer to after the table has dropped it.                *)
(***************************************************************************)
EXTENDS Integers, Sequences, FiniteSets

CONSTANTS Task,              \* the Downloader's loops
          Cleaner,           \* cleanups that may be under way at a time
          LockObject,        \* identities of the domains' Locks
          URL, Domain, Bucket,
          DomainOf,          \* the domain of each URL
          BucketOf,          \* bucketize
          MaxActiveDomains,  \* MAX_ACTIVE_DOMAINS
          MaxUrlsPerDomain,  \* MAX_URLS_PER_DOMAIN
          EventLimit         \* how often each kind of outside event may happen

(***************************************************************************)
(* "slow": a domain's delay (at least a second) runs out while a payload   *)
(* selected from it waits for the database or for a lock.  "error": a      *)
(* database call raises.  "assign": the assignment of buckets changes.     *)
(***************************************************************************)
Event == {"slow", "error", "assign"}

NoURL == "no url"
NoDomain == "no domain"
NoLock == "no lock"
Drainer == "drainer"    \* Application.shutdown in wait_for_drain
Attester == "attester"  \* Worker.reconcile in drained_buckets
Enqueuer == Task \cup Cleaner
Actor == Enqueuer \cup {Drainer, Attester}

ASSUME TaskAssumption ==
  /\ IsFiniteSet(Task) /\ IsFiniteSet(Cleaner)
  /\ Task \cap Cleaner = {}
  /\ Enqueuer \cap {Drainer, Attester} = {}
ASSUME DataAssumption ==
  /\ DomainOf \in [URL -> Domain] /\ BucketOf \in [Domain -> Bucket]
  /\ NoURL \notin URL /\ NoDomain \notin Domain /\ NoLock \notin LockObject
ASSUME LimitAssumption ==
  /\ MaxActiveDomains \in Nat \ {0} /\ MaxUrlsPerDomain \in Nat \ {0}
  /\ IsFiniteSet(Domain) /\ EventLimit \in [Event -> Nat]

VARIABLES
  queues,    \* domain -> its queued URLs (the dictionary queues)
  locks,     \* domain -> its Lock (the dictionary locks)
  release,   \* domain -> its release time: "due" or "later" (release_times)
  inFlight,  \* _in_flight_buckets, 0 for a bucket that has no entry
  admitted, ceding,  \* buckets and _draining_buckets
  draining,  \* _draining
  line,      \* the actors waiting for BackQueue.lock, in order
  at,        \* where each actor is
  url,       \* the payload each task has in hand
  site,      \* the domain each actor is busy with
  held,      \* the domain Lock each actor refers to
  banned, fetchable, batch,  \* local variables of the enqueue in progress
  pending,   \* registered URLs whose crawls are empty in the database
  unseen,    \* URLs that are not registered yet
  excluded,  \* locked or blocked domains in the database
  attested,  \* buckets found drained since the last assignment
  drained,   \* wait_for_drain has returned True
  events     \* how often each outside event has happened

tables == <<queues, locks, release, inFlight>>
policy == <<admitted, ceding, draining>>
actors == <<line, at, url, site, held>>
scratch == <<banned, fetchable, batch>>
database == <<pending, unseen, excluded>>
ghosts == <<attested, drained>>
vars == <<tables, policy, actors, scratch, database, ghosts, events>>

\* Where an actor holds BackQueue.lock, waits for it, holds a domain Lock.
Locked == {"exclude", "choose", "load", "warm"}
Queueing == {"enter", "scan", "complete", "abort", "pop", "poll"}
InHand == {"start", "wait", "fetch", "report", "punish", "complete", "abort"}
Fetching == {"fetch", "report", "punish", "complete"}
Place == {"none", "pull", "clean", "done"} \cup Locked \cup Queueing \cup InHand

(***************************************************************************)
(* Every table, counter, place and local variable has its type; the        *)
(* dictionaries are functions on the domains they have an entry for.       *)
(***************************************************************************)
TypeOK ==
  /\ DOMAIN queues \subseteq Domain
  /\ queues \in [DOMAIN queues -> SUBSET URL]
  /\ DOMAIN locks \subseteq Domain
  /\ locks \in [DOMAIN locks -> LockObject]
  /\ DOMAIN release \subseteq Domain
  /\ release \in [DOMAIN release -> {"due", "later"}]
  /\ inFlight \in [Bucket -> Nat]
  /\ admitted \in SUBSET Bucket /\ ceding \in SUBSET Bucket
  /\ draining \in BOOLEAN
  /\ line \in Seq(Actor)
  /\ at \in [Actor -> Place]
  /\ url \in [Task -> URL \cup {NoURL}]
  /\ site \in [Enqueuer -> Domain \cup {NoDomain}]
  /\ held \in [Enqueuer -> LockObject \cup {NoLock}]
  /\ banned \in SUBSET Domain /\ fetchable \in SUBSET Bucket
  /\ batch \in SUBSET URL
  /\ pending \in SUBSET URL /\ unseen \in SUBSET URL
  /\ excluded \in SUBSET Domain
  /\ attested \in SUBSET Bucket /\ drained \in BOOLEAN
  /\ events \in [Event -> Nat]

\* The assignment is what Worker.on_start left: the BackQueue starts after it.
Init ==
  /\ queues = <<>> /\ locks = <<>> /\ release = <<>>
  /\ inFlight = [b \in Bucket |-> 0]
  /\ admitted \in SUBSET Bucket /\ ceding \in SUBSET (Bucket \ admitted)
  /\ draining = FALSE
  /\ line = <<>>
  /\ at = [a \in Actor |-> IF a \in Task THEN "pull" ELSE "none"]
  /\ url = [t \in Task |-> NoURL]
  /\ site = [a \in Enqueuer |-> NoDomain]
  /\ held = [a \in Enqueuer |-> NoLock]
  /\ banned = {} /\ fetchable = {} /\ batch = {}
  /\ pending = {} /\ unseen = URL /\ excluded = {}
  /\ attested = {} /\ drained = FALSE
  /\ events = [e \in Event |-> 0]

-----------------------------------------------------------------------------
(***************************************************************************)
(* Dictionaries, the two kinds of lock, and local work.                    *)
(***************************************************************************)
Store(f, k, v) == [x \in DOMAIN f \cup {k} |-> IF x = k THEN v ELSE f[x]]
Remove(f, k) == [x \in DOMAIN f \ {k} |-> f[x]]

Free == \A a \in Enqueuer : at[a] \notin Locked
Turn(a) == line # <<>> /\ Head(line) = a /\ Free
Taken(l) == \E a \in Enqueuer : held[a] = l /\ at[a] \in Fetching \cup {"pop"}
InUse == {locks[d] : d \in DOMAIN locks} \cup {held[a] : a \in Enqueuer}

Go(a, place) == at' = [at EXCEPT ![a] = place] /\ UNCHANGED line
Wait(a, place) == at' = [at EXCEPT ![a] = place] /\ line' = Append(line, a)
Pass(a, place) == at' = [at EXCEPT ![a] = place] /\ line' = Tail(line)

BucketHasWork(b) ==
  \/ inFlight[b] > 0
  \/ \E d \in DOMAIN queues : BucketOf[d] = b /\ queues[d] # {}
HasLocalWork == \E b \in Bucket : BucketHasWork(b)

Spend(e) ==
  /\ events[e] < EventLimit[e]
  /\ events' = [events EXCEPT ![e] = @ + 1]

-----------------------------------------------------------------------------
(***************************************************************************)
(* _enqueue_new_domain.  It returns True or raises (Leave), upon which a   *)
(* Downloader loop tries again, or returns False (Refuse), upon which the  *)
(* loop goes on to scan the queues; a cleanup is over either way.          *)
(***************************************************************************)
Leave(a) ==
  /\ Go(a, IF a \in Task THEN "pull" ELSE "none")
  /\ site' = [site EXCEPT ![a] = NoDomain]

Refuse(a, others) ==
  /\ at' = [at EXCEPT ![a] = IF a \in Task THEN "scan" ELSE "none"]
  /\ line' = IF a \in Task THEN Append(others, a) ELSE others
  /\ site' = [site EXCEPT ![a] = NoDomain]

\* Faulty variant: a loop takes in new domains while the process drains.
EnqueueWhileDraining(t) ==
  /\ at[t] = "pull"
  /\ IF Cardinality(DOMAIN queues) < MaxActiveDomains
       THEN Wait(t, "enter") ELSE Wait(t, "scan")
  /\ UNCHANGED <<tables, policy, url, site, held, scratch, database, ghosts,
                 events>>

\* The tests before the lock: the number of domains, then _draining.
TryEnqueue(t) ==
  /\ at[t] = "pull"
  /\ IF Cardinality(DOMAIN queues) < MaxActiveDomains /\ ~draining
       THEN Wait(t, "enter") ELSE Wait(t, "scan")
  /\ UNCHANGED <<tables, policy, url, site, held, scratch, database, ghosts,
                 events>>

EnterEnqueue(a) ==
  /\ at[a] = "enter"
  /\ Turn(a)
  /\ IF Cardinality(DOMAIN queues) >= MaxActiveDomains
       THEN Refuse(a, Tail(line))
       ELSE Pass(a, "exclude") /\ UNCHANGED site
  /\ UNCHANGED <<tables, policy, url, held, scratch, database, ghosts, events>>

\* A failed query excludes nothing.  The buckets are read after it.
GetExcludedDomains(a) ==
  /\ at[a] = "exclude"
  /\ IF admitted \ ceding = {}
       THEN Refuse(a, line) /\ UNCHANGED <<banned, fetchable, events>>
       ELSE /\ Go(a, "choose")
            /\ fetchable' = admitted \ ceding
            /\ \/ banned' = excluded /\ UNCHANGED events
               \/ banned' = {} /\ Spend("error")
            /\ UNCHANGED site
  /\ UNCHANGED <<tables, policy, url, held, batch, database, ghosts>>

Stored(d) == {u \in pending : DomainOf[u] = d}

\* Faulty variant: domains that are in the tables are not left out.
EveryDomain ==
  {d \in Domain \ banned : BucketOf[d] \in fetchable /\ Stored(d) # {}}

NewDomains ==
  {d \in Domain \ (DOMAIN queues \cup banned) :
     BucketOf[d] \in fetchable /\ Stored(d) # {}}

GetDistinctDomains(a) ==
  /\ at[a] = "choose"
  /\ IF NewDomains = {}
       THEN Refuse(a, line)
       ELSE /\ Go(a, "load")
            /\ \E d \in NewDomains : site' = [site EXCEPT ![a] = d]
  /\ banned' = {} /\ fetchable' = {}
  /\ UNCHANGED <<tables, policy, url, held, batch, database, ghosts, events>>

(***************************************************************************)
(* The URLs, and the first put: it creates the queue and the Lock, and     *)
(* asks the cache for a release time unless the domain still has one.      *)
(***************************************************************************)
GetDomainUrls(a) ==
  /\ at[a] = "load"
  /\ LET d == site[a] IN
     \/ Stored(d) = {} /\ Refuse(a, line) /\ UNCHANGED <<tables, batch>>
     \/ \E S \in SUBSET Stored(d) : \E u \in S :
          /\ \/ Cardinality(S) = MaxUrlsPerDomain
             \/ S = Stored(d) /\ Cardinality(S) < MaxUrlsPerDomain
          /\ \E l \in IF d \in DOMAIN locks THEN {locks[d]}
                      ELSE LockObject \ InUse :
               locks' = Store(locks, d, l)
          /\ IF d \in DOMAIN release
               THEN /\ queues' = Store(queues, d, S)
                    /\ Leave(a)
                    /\ UNCHANGED batch
               ELSE /\ queues' = Store(queues, d, {u})
                    /\ batch' = S \ {u}
                    /\ Go(a, "warm")
                    /\ UNCHANGED site
          /\ UNCHANGED <<release, inFlight>>
  /\ UNCHANGED <<policy, url, held, banned, fetchable, database, ghosts,
                 events>>

\* Faulty variant: what the cache lacks is stored as it is.
ReleaseUnknown(a) ==
  /\ at[a] = "warm"
  /\ release' = Store(release, site[a], "none")
  /\ queues' = [queues EXCEPT ![site[a]] = @ \cup batch]
  /\ batch' = {}
  /\ Leave(a)
  /\ UNCHANGED <<locks, inFlight, policy, url, held, banned, fetchable,
                 database, ghosts, events>>

\* The cache never has a release time (nothing saves one): it is now.
GetDomainReleaseTime(a) ==
  /\ at[a] = "warm"
  /\ release' = Store(release, site[a], "due")
  /\ queues' = [queues EXCEPT ![site[a]] = @ \cup batch]
  /\ batch' = {}
  /\ Leave(a)
  /\ UNCHANGED <<locks, inFlight, policy, url, held, banned, fetchable,
                 database, ghosts, events>>

QueryFails(a) ==
  /\ at[a] \in {"choose", "load"}
  /\ Spend("error")
  /\ Leave(a)
  /\ banned' = {} /\ fetchable' = {}
  /\ UNCHANGED <<tables, policy, url, held, batch, database, ghosts>>

-----------------------------------------------------------------------------
(***************************************************************************)
(* The rest of next: one turn of the lock to scan and consume.             *)
(***************************************************************************)
Ready(d) ==
  /\ d \in DOMAIN release /\ release[d] = "due"
  /\ queues[d] # {} /\ ~Taken(locks[d])

\* Faulty variant: a payload is not counted when it is selected.
SelectUncounted(t) ==
  /\ at[t] = "scan"
  /\ Turn(t)
  /\ \E d \in DOMAIN queues : \E u \in queues[d] :
       /\ Ready(d)
       /\ queues' = [queues EXCEPT ![d] = @ \ {u}]
       /\ release' = [release EXCEPT ![d] = "later"]
       /\ url' = [url EXCEPT ![t] = u]
       /\ site' = [site EXCEPT ![t] = d]
       /\ held' = [held EXCEPT ![t] = locks[d]]
  /\ Pass(t, "start")
  /\ UNCHANGED <<locks, inFlight, policy, scratch, database, ghosts, events>>

Select(t) ==
  /\ at[t] = "scan"
  /\ Turn(t)
  /\ \E d \in DOMAIN queues : \E u \in queues[d] :
       /\ Ready(d)
       /\ queues' = [queues EXCEPT ![d] = @ \ {u}]
       /\ release' = [release EXCEPT ![d] = "later"]
       /\ inFlight' = [inFlight EXCEPT ![BucketOf[d]] = @ + 1]
       /\ url' = [url EXCEPT ![t] = u]
       /\ site' = [site EXCEPT ![t] = d]
       /\ held' = [held EXCEPT ![t] = locks[d]]
  /\ Pass(t, "start")
  /\ UNCHANGED <<locks, policy, scratch, database, ghosts, events>>

\* No domain is ready: the loop sleeps for a second and starts again.
Sleep(t) ==
  /\ at[t] = "scan"
  /\ Turn(t)
  /\ \A d \in DOMAIN queues : ~Ready(d)
  /\ Pass(t, "pull")
  /\ UNCHANGED <<tables, policy, url, site, held, scratch, database, ghosts,
                 events>>

-----------------------------------------------------------------------------
(***************************************************************************)
(* Downloader.download.                                                    *)
(***************************************************************************)
StartCrawl(t) ==
  /\ at[t] = "start"
  /\ pending' = pending \ {url[t]}
  /\ Go(t, "wait")
  /\ UNCHANGED <<tables, policy, url, site, held, scratch, unseen, excluded,
                 ghosts, events>>

\* Faulty variant: the payload is not completed.
LeaveUncounted(t) ==
  /\ at[t] = "start"
  /\ Spend("error")
  /\ \/ pending' = pending \ {url[t]}
     \/ UNCHANGED pending
  /\ url' = [url EXCEPT ![t] = NoURL]
  /\ held' = [held EXCEPT ![t] = NoLock]
  /\ Leave(t)
  /\ UNCHANGED <<tables, policy, scratch, unseen, excluded, ghosts>>

\* The write may have been made all the same.  Nothing is reported.
StartCrawlFails(t) ==
  /\ at[t] = "start"
  /\ Spend("error")
  /\ \/ pending' = pending \ {url[t]}
     \/ UNCHANGED pending
  /\ Wait(t, "abort")
  /\ UNCHANGED <<tables, policy, url, site, held, scratch, unseen, excluded,
                 ghosts>>

AcquireLock(a) ==
  /\ at[a] = "wait"
  /\ ~Taken(held[a])
  /\ IF a \in Task THEN Go(a, "fetch") ELSE Wait(a, "pop")
  /\ UNCHANGED <<tables, policy, url, site, held, scratch, database, ghosts,
                 events>>

\* The fetch ends: "punish" with a status or an exception that locks.
Fetch(t) ==
  /\ at[t] = "fetch"
  /\ Go(t, "report") \/ Go(t, "punish")
  /\ UNCHANGED <<tables, policy, url, site, held, scratch, database, ghosts,
                 events>>

(***************************************************************************)
(* report: the domain document (a failure is only logged), the delay, and  *)
(* a cleanup if the domain was locked or its queue is empty.  When it has  *)
(* no queue any more, the KeyError makes a failure of the download; complete*)
(* runs in any case.                                                       *)
(***************************************************************************)
Delay(t) ==
  /\ release' = Store(release, site[t], "later")
  /\ line' = Append(line, t)
  /\ UNCHANGED <<queues, locks, inFlight, ghosts>>

StartCleanup(t) ==
  \E c \in Cleaner :
    /\ at[c] = "none"
    /\ at' = [at EXCEPT ![t] = "complete", ![c] = "clean"]
    /\ site' = [site EXCEPT ![c] = site[t]]

\* Faulty variant: only a lock of the domain starts a cleanup.
ReportKeeps(t) ==
  /\ at[t] = "report"
  /\ excluded' = excluded \ {site[t]} \/ UNCHANGED excluded
  /\ Delay(t)
  /\ at' = [at EXCEPT ![t] = "complete"]
  /\ UNCHANGED <<policy, url, site, held, scratch, pending, unseen, events>>

Report(t) ==
  /\ at[t] = "report"
  /\ excluded' = excluded \ {site[t]} \/ UNCHANGED excluded
  /\ Delay(t)
  /\ IF site[t] \in DOMAIN queues /\ queues[site[t]] = {}
       THEN StartCleanup(t)
       ELSE at' = [at EXCEPT ![t] = "complete"] /\ UNCHANGED site
  /\ UNCHANGED <<policy, url, held, scratch, pending, unseen, events>>

Punish(t) ==
  /\ at[t] = "punish"
  /\ \/ excluded' = excluded \cup {site[t]} /\ UNCHANGED events
     \/ UNCHANGED excluded /\ Spend("error")
  /\ Delay(t)
  /\ StartCleanup(t)
  /\ UNCHANGED <<policy, url, held, scratch, pending, unseen>>

Complete(t) ==
  /\ at[t] \in {"complete", "abort"}
  /\ Turn(t)
  /\ inFlight' = [inFlight EXCEPT ![BucketOf[site[t]]] =
                    IF @ <= 1 THEN 0 ELSE @ - 1]
  /\ url' = [url EXCEPT ![t] = NoURL]
  /\ site' = [site EXCEPT ![t] = NoDomain]
  /\ held' = [held EXCEPT ![t] = NoLock]
  /\ Pass(t, "pull")
  /\ UNCHANGED <<queues, locks, release, policy, scratch, database, ghosts,
                 events>>

-----------------------------------------------------------------------------
(***************************************************************************)
(* _cleanup_domain.  It takes the Lock the table has when it starts; once  *)
(* it has both locks it drops the domain and goes on to enqueue another.   *)
(***************************************************************************)
\* Faulty variant: the domain's Lock is not taken.
CleanUnlocked(c) ==
  /\ at[c] = "clean"
  /\ IF site[c] \notin DOMAIN locks
       THEN Leave(c)
       ELSE Wait(c, "pop") /\ UNCHANGED site
  /\ UNCHANGED <<tables, policy, url, held, scratch, database, ghosts, events>>

StartCleaning(c) ==
  /\ at[c] = "clean"
  /\ IF site[c] \notin DOMAIN locks
       THEN Leave(c) /\ UNCHANGED held
       ELSE /\ held' = [held EXCEPT ![c] = locks[site[c]]]
            /\ Go(c, "wait")
            /\ UNCHANGED site
  /\ UNCHANGED <<tables, policy, url, scratch, database, ghosts, events>>

\* Faulty variant: the release time is dropped and the queue stays.
QueueKept(c) ==
  /\ at[c] = "pop"
  /\ Turn(c)
  /\ release' = Remove(release, site[c])
  /\ held' = [held EXCEPT ![c] = NoLock]
  /\ site' = [site EXCEPT ![c] = NoDomain]
  /\ Pass(c, "none")
  /\ UNCHANGED <<queues, locks, inFlight, policy, url, scratch, database,
                 ghosts, events>>

CleanupDomain(c) ==
  /\ at[c] = "pop"
  /\ Turn(c)
  /\ queues' = Remove(queues, site[c])
  /\ release' = Remove(release, site[c])
  /\ locks' = Remove(locks, site[c])
  /\ held' = [held EXCEPT ![c] = NoLock]
  /\ site' = [site EXCEPT ![c] = NoDomain]
  /\ at' = [at EXCEPT ![c] = IF draining THEN "none" ELSE "enter"]
  /\ line' = IF draining THEN Tail(line) ELSE Append(Tail(line), c)
  /\ UNCHANGED <<inFlight, policy, url, scratch, database, ghosts, events>>

-----------------------------------------------------------------------------
(***************************************************************************)
(* Shutdown and coordination: drain, wait_for_drain (polling until it sees *)
(* no local work), set_buckets and drained_buckets, the latter two by the  *)
(* one coordination task.                                                  *)
(***************************************************************************)
Drain ==
  /\ ~draining
  /\ draining' = TRUE
  /\ UNCHANGED <<tables, admitted, ceding, actors, scratch, database, ghosts,
                 events>>

WaitForDrain ==
  /\ draining
  /\ at[Drainer] = "none"
  /\ Wait(Drainer, "poll")
  /\ UNCHANGED <<tables, policy, url, site, held, scratch, database, ghosts,
                 events>>

\* Faulty variant: payloads in flight are not waited for.
PollQueuesOnly ==
  /\ at[Drainer] = "poll"
  /\ Turn(Drainer)
  /\ drained' = (\A d \in DOMAIN queues : queues[d] = {})
  /\ Pass(Drainer, IF drained' THEN "done" ELSE "none")
  /\ UNCHANGED <<tables, policy, url, site, held, scratch, database, attested, events>>

PollDrained ==
  /\ at[Drainer] = "poll"
  /\ Turn(Drainer)
  /\ drained' = ~HasLocalWork
  /\ Pass(Drainer, IF HasLocalWork THEN "none" ELSE "done")
  /\ UNCHANGED <<tables, policy, url, site, held, scratch, database, attested, events>>

SetBuckets ==
  /\ at[Attester] = "none"
  /\ Spend("assign")
  /\ admitted' \in SUBSET Bucket
  /\ ceding' \in SUBSET (Bucket \ admitted')
  /\ attested' = {}
  /\ UNCHANGED <<tables, draining, actors, scratch, database, drained>>

\* Faulty variant: drained_buckets does not take the lock.
AttestUnlocked ==
  /\ at[Attester] = "none"
  /\ ceding # {}
  /\ attested' = {b \in ceding : ~BucketHasWork(b)}
  /\ UNCHANGED <<tables, policy, actors, scratch, database, drained,
                 events>>

RequestDrained ==
  /\ at[Attester] = "none"
  /\ ceding # {}
  /\ Wait(Attester, "poll")
  /\ UNCHANGED <<tables, policy, url, site, held, scratch, database, ghosts,
                 events>>

DrainedBuckets ==
  /\ at[Attester] = "poll"
  /\ Turn(Attester)
  /\ attested' = {b \in ceding : ~BucketHasWork(b)}
  /\ Pass(Attester, "none")
  /\ UNCHANGED <<tables, policy, url, site, held, scratch, database, drained, events>>

-----------------------------------------------------------------------------
(***************************************************************************)
(* The rest of the system: the Frontier registers URLs, domain locks lapse *)
(* and other components block domains, and time passes.                    *)
(***************************************************************************)
RegisterUrl(u) ==
  /\ u \in unseen
  /\ unseen' = unseen \ {u}
  /\ pending' = pending \cup {u}
  /\ UNCHANGED <<tables, policy, actors, scratch, excluded, ghosts, events>>

ExcludedChanges(d) ==
  /\ excluded' = excluded \ {d} \/ excluded' = excluded \cup {d}
  /\ UNCHANGED <<tables, policy, actors, scratch, pending, unseen, ghosts,
                 events>>

Hurried(d) ==
  \E a \in Enqueuer :
    /\ site[a] = d
    /\ at[a] \in {"start", "wait", "complete", "abort", "clean"}

Elapse(d) ==
  /\ d \in DOMAIN release /\ release[d] = "later"
  /\ release' = [release EXCEPT ![d] = "due"]
  /\ IF Hurried(d) THEN Spend("slow") ELSE UNCHANGED events
  /\ UNCHANGED <<queues, locks, inFlight, policy, actors, scratch, database, ghosts>>

-----------------------------------------------------------------------------
EnqueueNewDomain(a) ==
  \/ EnterEnqueue(a) \/ GetExcludedDomains(a) \/ GetDistinctDomains(a)
  \/ GetDomainUrls(a) \/ GetDomainReleaseTime(a)

Download(t) ==
  \/ TryEnqueue(t) \/ Select(t) \/ Sleep(t)
  \/ StartCrawl(t) \/ Fetch(t) \/ Report(t) \/ Punish(t) \/ Complete(t)

Cleanup(c) == StartCleaning(c) \/ CleanupDomain(c)

Next ==
  \/ \E t \in Task : Download(t) \/ StartCrawlFails(t)
  \/ \E c \in Cleaner : Cleanup(c)
  \/ \E a \in Enqueuer : EnqueueNewDomain(a) \/ QueryFails(a) \/ AcquireLock(a)
  \/ Drain \/ WaitForDrain \/ PollDrained
  \/ SetBuckets \/ RequestDrained \/ DrainedBuckets
  \/ \E u \in URL : RegisterUrl(u)
  \/ \E d \in Domain : ExcludedChanges(d) \/ Elapse(d)

Spec == Init /\ [][Next]_vars

(***************************************************************************)
(* The event loop runs every task that can run, database calls and fetches *)
(* return, and asyncio.Lock serves requests in order.  A delay that is not *)
(* over when the loops look for it is over some time later: the loops look *)
(* again every second.  Outside events are not fair, and nobody has to     *)
(* shut the process down or to coordinate.                                 *)
(***************************************************************************)
Fairness ==
  /\ \A t \in Task : WF_vars(Download(t))
  /\ \A c \in Cleaner : WF_vars(Cleanup(c))
  /\ \A a \in Enqueuer : WF_vars(EnqueueNewDomain(a)) /\ SF_vars(AcquireLock(a))
  /\ WF_vars(PollDrained) /\ WF_vars(DrainedBuckets)
  /\ \A d \in Domain : SF_vars(~Hurried(d) /\ Elapse(d))

FairSpec == Spec /\ Fairness

-----------------------------------------------------------------------------
(***************************************************************************)
(* The scan of next never meets a domain without its Lock or release time  *)
(* (the KeyError of the comment at backqueue.py:188), although entries come*)
(* and go across awaits; and the number of domains stays within its limit. *)
(***************************************************************************)
ScanSafe ==
  /\ DOMAIN queues = DOMAIN locks
  /\ Free => DOMAIN queues \subseteq DOMAIN release
  /\ Cardinality(DOMAIN queues) <= MaxActiveDomains

(***************************************************************************)
(* The in-flight count of a bucket is the number of its payloads in hand,  *)
(* through every way a download can end: a bucket is attested as drained,  *)
(* and a process released, on the strength of it.                          *)
(***************************************************************************)
Holders(b) ==
  {t \in Task : url[t] # NoURL /\ BucketOf[DomainOf[url[t]]] = b}
CountsExact == \A b \in Bucket : inFlight[b] = Cardinality(Holders(b))

(***************************************************************************)
(* No call has outlasted the delay of the domain it was made for.          *)
(***************************************************************************)
Prompt == events["slow"] = 0

(***************************************************************************)
(* While calls are prompt, at most one page of a domain is fetched at a    *)
(* time, whatever cleanups and enqueues do to its Lock.                    *)
(***************************************************************************)
OneFetch ==
  Prompt =>
    \A s, t \in Task :
      s # t /\ at[s] = "fetch" /\ at[t] = "fetch" => site[s] # site[t]

(***************************************************************************)
(* "fresh Payload because these URLs have never been crawled"              *)
(* (backqueue.py:344): no queued URL has a crawl, or is in hand already.   *)
(***************************************************************************)
FreshPayloads ==
  \A d \in DOMAIN queues : \A u \in queues[d] :
    u \in pending /\ \A t \in Task : url[t] # u

\* While calls are prompt, what _enqueue_new_domain queues is indeed fresh.
QueuedUncrawled == Prompt => FreshPayloads

(***************************************************************************)
(* While calls are prompt, a report finds the queue of its domain, and     *)
(* does not fail a download that succeeded.                                *)
(***************************************************************************)
ReportFinds ==
  Prompt => \A t \in Task : at[t] = "report" => site[t] \in DOMAIN queues

(***************************************************************************)
(* Once wait_for_drain has returned True there is no local work again:     *)
(* enqueuers that passed the test of _draining before it are ahead of it   *)
(* in the line.                                                            *)
(***************************************************************************)
DrainIsFinal == drained => ~HasLocalWork

(***************************************************************************)
(* A bucket that drained_buckets found drained has no work again before    *)
(* the next assignment, although set_buckets takes no lock and an enqueue  *)
(* may have read the buckets before it.                                    *)
(***************************************************************************)
AttestedStaysEmpty == \A b \in attested : ~BucketHasWork(b)

(***************************************************************************)
(* A draining process runs out of local work.                              *)
(***************************************************************************)
DrainEnds == draining ~> ~HasLocalWork

\* A URL that this process should crawl.
Wanted(u) ==
  /\ u \in pending /\ ~draining
  /\ BucketOf[DomainOf[u]] \in admitted \ ceding
  /\ DomainOf[u] \notin excluded

(***************************************************************************)
(* A registered URL of a bucket that stays admitted and of a domain that   *)
(* stays allowed is crawled, unless a database call fails.                 *)
(***************************************************************************)
Failed == events["error"] > 0
Crawled == \A u \in URL : Wanted(u) ~> ~Wanted(u) \/ Failed

(***************************************************************************)
(* A payload that ends without a report, for which next sets a release     *)
(* time "in case the caller task fails unexpectedly and doesn't send a     *)
(* report" (backqueue.py:199), keeps no other URL from being crawled.      *)
(***************************************************************************)
NoneStranded == \A u \in URL : Wanted(u) ~> ~Wanted(u)
=============================================================================
