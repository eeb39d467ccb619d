# linksurf in TLA+

linksurf is a distributed web crawler.  Any number of worker processes run the
same pipeline (Frontier, Downloader, Parser, Storage) and share RabbitMQ topics,
MongoDB collections, a Redis cache and a Redis lock.  Each process fetches only
the domains of the *buckets* it owns; a bucket changes hands when workers come
and go.  This directory holds the specifications of it, their TLC instances and
the theorems TLAPS proves about them.

## Inventory

| Part | State | Operations | Interacts through | What is hard | What makes it correct |
|---|---|---|---|---|---|
| Worker (`worker.py`) | identity, status, copy of its buckets | start, heartbeat upsert, coordinate (publish, lock, sync, reconcile, sync), release | workers and buckets collections, coordination lock, BackQueue | every write of a reconcile is an `await`; leases and the lock expire; crashes between writes | one worker per bucket, no handoff before a drain, balance in the end |
| Application (`application.py`) | heartbeat and coordination tasks, `stopping` | start, signal, shutdown, heartbeat, seed | all parts | a signal during start-up, a drain that times out, a coordination cancelled half-way | a stopped worker gives its buckets back, or its lease does |
| BackQueue (`backqueue.py`) | queues, release times and locks per domain, in-flight counts, admission | put, next, report, complete, cleanup, enqueue, drain | Downloader (20 tasks), Worker, urls and domains collections | a lock shared by tasks, objects removed while referred to | politeness, no lost or doubled payload, exact counts |
| Downloader (`components/downloader`) | payload in hand | download, redirect | BackQueue, fetcher, urls collection | crash between start_crawl and fetch | each URL fetched once per crawl |
| Frontier (`components/frontier`) | seen set in the cache | process: rules, deduplication, filters, priority, registration | cache, urls and domains collections | 100 concurrent consumers, seen before registered | a discovered URL is registered once or rejected |
| Parser, Storage, Component base (`components/`) | crawl records | parse, store, save execution | broker, urls collection | publication before the status is saved, redelivery | a crawl's status is final once it is final |
| Domains collection (`services/database.py`) | status, lock count | lock, unlock, record_language | BackQueue, Parser | two-step updates of several workers | a blocked domain stays blocked |
| Cache (`services/cache.py`) | robots, metrics, countries, seen URLs | get and set | Frontier, Downloader listener | read-modify-write of the metrics | no update is lost |
| Lock (`services/lock.py`) | Redis keys with a TTL | acquire, release, extend | Worker, seed | TTL expiry under a holder | mutual exclusion while the TTL lasts |
| Broker (`broker/rabbitmq.py`) | connection, consumers | connect, subscribe, publish, loop, stop | components | redelivery | acknowledged after processing |
| Services, events, extensions | registries, a bounded queue | connect, disconnect, emit, send | application | partial start, dropped events | what was started is stopped |
| Visualization API (`src/visualization`) | clusters and a tree of nodes | send_event, get_graph, stream | SQL database, browsers | arrival order, threadpool | every page hangs off its nearest ancestor |

`PROJECT.json` lists the same parts with the status of each, and the hazards
with the line where each bites.

## Modules

| Module | What it is |
|---|---|
| `BucketOwnership` | What the ownership protocol promises, with no database, lock or lease: one owner per bucket, only the owner crawls, a bucket changes hands only while nobody crawls it |
| `Worker` | The protocol of `worker.py`, the life cycle of `application.py`, the bucket operations of `database.py` and `lock.py`, and of `backqueue.py` what ownership depends on |
| `MCWorker` | Instances of `Worker` for TLC |
| `WorkerProofs` | Type correctness, the inductive invariant and the safety theorems |
| `WorkerRefinement` | `Worker` implements `BucketOwnership` |
| `BackQueue` | `backqueue.py` and the Downloader's loops up to the report, with the cleanups, the drain and the attestation that share its lock |
| `MCBackQueue` | Instances of `BackQueue` for TLC |
| `BackQueueProofs` | The inductive invariant of `BackQueue` and its safety theorems |
| `Pipeline` | Frontier, Downloader, Parser and Storage over the topics of the broker, the seen set of the cache and the urls collection, with `base.py`'s handlers and saved executions |
| `MCPipeline` | An instance of `Pipeline` for TLC |
| `PipelineProofs` | Every step of `Pipeline` as a move of one job, and the counts and theorems that follow |
| `DomainRecords` | What all workers keep of one domain: its document in the domains collection and its keys in the cache |
| `MCDomainRecords` | An instance of `DomainRecords` for TLC |
| `DomainRecordsProofs` | The safety theorems of `DomainRecords` |
| `CrawlGraph` | The visualization: the extension's queue, `send_event` statement by statement, the stream and what the browser makes of it |
| `MCCrawlGraph` | Instances of `CrawlGraph` for TLC |
| `CrawlGraphProofs` | What holds however requests overlap: types, the tree of the API, the tree of the browser |
| `CrawlGraphAlone` | What holds while requests come one at a time and none dies: the place of every node, and that successes are shown |
| `CrawlGraphFollows` | That a browser that has caught up shows the graph of the API |

`Worker` and `BackQueue` meet in the local work of a process.  `Worker` takes it as
a set of buckets (`busy`), an enqueue in progress and the assumptions that new
work enters only admitted buckets, that a bucket attested as drained stays
empty until the next assignment, and that a drain that has ended stays ended.
`BackQueue` is where the code makes them true: `GetDistinctDomains`,
`AttestedStaysEmpty`, `DrainIsFinal`, with `CountsExact` beneath both.

`Pipeline` and `BackQueue` meet in the Downloader.  `BackQueue` follows a payload from
the queue to the report, with the locks and the delay of its domain;
`Pipeline` takes the payloads it hands out as any registered URL without a crawl,
one loop at a time (`Pull`; `QueuedUncrawled` and its exception in `BackQueue` say when
that is so), and follows them on through the topics.  `DomainRecords` has
the documents behind the exclusions and reports of `BackQueue` and the caches behind the
filters of `Pipeline`, where a refusal is an event.  `CrawlGraph` takes
the crawl events of `Pipeline` as given: pending, start and finish of each URL, each
sent by whichever process it happens in.

### How Worker corresponds to the code

One action is one stretch of code without an `await`, ending in at most one
database or lock operation, so other processes, and other tasks of the same
process, may act between any two of them.  The exceptions are `BeginRelease`
and `EndRelease`, where the next operation follows under the lock and touches
only what the releasing worker owns.

* `members` and `expired` are the workers collection.  Time is abstract: a
  lease runs out by `LeaseExpires`, at any moment for a process that is gone and
  by a "stall" event for one that is alive (its heartbeat, every 60 seconds, has
  to fail or stall through the whole lease of 120).
* `bucket` is the buckets collection.  A record's `revision` is incremented by
  every write and compared by none, and is left out; so is `updated_at`.  The
  reads of all buckets are taken as one step: under the lock only the idle and
  active marks of other workers change, which nothing below depends on.
* `lock` is the Redis lock.  `LockExpires` is its TTL of 30 seconds, a
  "lockLoss" event while the holder is alive.  Releasing a lock that is no longer
  owned raises, and skips the second synchronisation (`Leave`).
* `phase` is where a process is in `Application.start` and `shutdown`: starting
  (its first coordination, BackQueue not ready yet), running, stopping
  (`wait_for_drain`), releasing (`Worker.release`), abandoning (the drain timed
  out), gone.  A heartbeat renews the lease in the first three and starts a
  coordination, one at a time, when running.
* `pc`, `live`, `ready`, `seen`, `eff`, `todo` and `moves` are the program
  counter and local variables of the one coordination of a worker.  `loads` is
  derived from `effective_owner`, with which the code keeps it in step.
* `admitted` and `ceding` are `BackQueue.buckets` and `_draining_buckets`.
  `busy` is the set of buckets with queued or in-flight URLs, `enqueuing` the
  bucket of the enqueue that holds `BackQueue.lock`; what needs that lock
  (publishing states, attesting, finishing a payload) waits for it.  An enqueue
  tests `_draining` before it waits for the lock, so `mark_draining` may find
  enqueuers in between: they are `Undecided` and choose later.
* A worker identity is a fresh uuid4, so a restarted process is another element
  of `Worker`.

Every reconcile step is one action: `ReadMembers`, `GetBuckets`, `Reclaim` (one
write per lost bucket), `NobodyReady` (the early return), `Plan`, `AssignBucket`,
`Assigned`, `MoveBucket`, `Attest`, `Promote`, `Reconciled`.  `DatabaseError` is an
exception out of any step; the heartbeat logs it, a starting application
shuts down.  `Crash` ends a process between any two steps and leaves its lock,
its lease and its half-written plan behind.

### How BackQueue corresponds to the code

One action is one stretch of a task between awaits, named after the place it
leaves (`at`).  The actors are the Downloader's loops (`Task`), the cleanups
`report` starts (`Cleaner`), `Application.shutdown` in `wait_for_drain` and
`Worker.reconcile` in `drained_buckets`.

* `BackQueue.lock` is an `asyncio.Lock`, which serves requests in order: `line`
  is the queue of actors at an `async with self.lock`.  A turn without an await
  (scan and consume, complete, the pops of a cleanup, the two polls) is one
  action.  An enqueue holds the lock across its awaits: `exclude`, `choose`, `load`,
  `warm`.  Somebody may act between a request and a turn even when the lock is
  free, which the code allows only when it is taken: the model has more
  interleavings, not fewer.
* `queues`, `locks`, `release` are the three dictionaries, functions on the
  domains that have an entry.  A domain's `Lock` is an object with an identity
  (`LockObject`), since a task keeps the one it received (`held`) after a cleanup
  drops it and an enqueue makes another.
* Time is whether a release time is `"due"` or `"later"`.  It becomes due by
  `Elapse`.  A delay is at least a second, a database call usually
  milliseconds: that one runs out while a payload selected from the
  domain waits for the database or a lock is a "slow" event.  During a fetch it
  runs out freely.
* A database call takes effect when it is answered.  `pending` are the URLs whose
  `crawls` are empty.  A failed call is an "error" event; a failed `start_crawl` may
  have been written.
* `next` picks the first ready domain of a dictionary and the queue's first
  payload, the aggregation the domain with the highest average priority: here, any.
* `attested` and `drained` only record what was promised: the last answer of
  `drained_buckets` and the answer of `wait_for_drain`, whose timeout is left out;
  `Worker` has it.

### How Pipeline corresponds to the code

One action is one call to the broker, the cache or the database.  A `Task` is a
handler of a consumer or a loop of the Downloader that can be busy; it takes
whatever is there, so two tasks are any two of the program's hundreds that
race.

* `waiting` is a bag of messages: the broker keeps no order that redelivery and many
  consumers would not break.  A message is a topic, a URL and the number
  of redirects so far (`hops`).  Acknowledgement follows the handler (`Ack`).
* `seen` is the cache's set, `registered` the documents of the urls collection, `status`
  and `entries` the crawl of a URL: the code appends to a list per attempt,
  and a URL has at most one attempt, as it is queued only without one.
* A job's `at` is its next call.  The Frontier: `Check` (rules and `URLDeduplicator.check`),
  `Mark`, `Enrich` (middlewares, filters, prioritizer), `RegisterUrl`.
  The Downloader: `Pull`, `StartCrawl`, `Fetch` or `HandleRedirect`, `Forward`.  The
  Parser: `Extract`, `PublishLink` link by link, `FilterPage`, `Forward`.  Storage: `StorePage`.
  Then `_save_execution`: `Overwrite`, and `Append` when nothing matched, `Finish`
  (`CrawlFinishEvent`), `Ack`.  `ended` is how the callback ended, from which
  `StatusOf` has the status.
* An "error" event is an exception out of any call, and a write that raises may
  have been made.  A "crash" is the death of a process; the broker takes
  its unacknowledged messages back.  A "reconnect" does so while the handler
  goes on, and its acknowledgement then means nothing.  A "refuse" is the answer of a
  rule or a filter.
* `finishes` counts the `CrawlFinishEvent`s of a URL and is read by nobody.
* A Payload that cannot be parsed, the `Retry` branch of the handlers (`retrying` is
  never set by the program) and priorities are left out.

### How DomainRecords corresponds to the code

One action is one call to the database or the cache, with the code up to the next one.
A `Task` is any handler busy with the domain, of any worker.

* `status`, `lockCount`, `until`, `blockedAt` and `foreign` are the document;
  "unset" is the status of one that `record_language` upserted.  `lock_domain` and
  `record_language` decide on the result of their first update whether to make the
  second (`block`, `ban`).  One clock is assumed for the workers and the database.
* `queued` is whether a scan of some worker has let the domain in (`Enqueue`), from the
  answer of `get_excluded_domains` until its queue ends (`Cleanup`).  `Excluded` is that
  query.  When it fails the scan goes on with an empty list (`backqueue.py:317`), which
  `misses` counts, and the domain is let in all the same.
* A `Fetch` begins while the domain is queued and ends in `LockDomain`, `UnlockDomain` or
  `Unanswered`, also after the queue is gone.  Fetches may overlap: `OneFetch` is a
  promise for prompt calls and one worker.
* `fact` has the three keys the middlewares cache, in the order of
  their calls: host status, country, robots.txt; `hset` and `expire` are two calls.
  What a fact says decides whether the URL goes on, hence `Refuse`.
* `total` is `total_crawled`; `read` is what a Storage has read of it and writes back.
  The message is acknowledged after the write (`Acknowledge`).  A message whose process
  dies (`Fails`) or whose connection breaks while its handler goes on (`Redeliver`) comes back,
  before the write or after it (`waiting`).  One whose handler raises does not: the
  exception is caught and the message acknowledged (`base.py:512`).
* `pages` counts the pages that have come to a Storage, a redelivered one
  once; a page that a redelivered Parser publishes twice counts as two.  `overlapped`
  only records what happened.

### How CrawlGraph corresponds to the code

* A URL's three events happen in order, each in any process, and enter the bounded
  queue of that process's extension (`Emit`).  Its delivery worker sends one request at a time
  (`Post`); a timeout frees the worker while the API goes on (`Timeout`), a refused connection
  loses the event (`Unreached`), a process that stops drops what is left (`End`).
* `send_event` runs in a thread: one action is one SQL statement, committed before
  the next.  Two inserts of one row meet the unique constraint, and the later
  request is answered with an error and its event lost (`Add`).  Reads that cannot
  change any more are joined to the statement after them.
* A name is a path cut at its slashes, so that `ancestor_names`, the prefix tests and the
  length comparisons of `utils.py` and `main.py` are computed as they are there.
  Lengths count slashes and segments, not letters: what matters is that a name that
  extends another is longer.
* The browser is `view` and `reload`.  `Fetch(k)` and `Load(k)` are a `reload()` up to its request and
  after it, `FailedReload(k)` one whose request is answered with an error or not at all.
  Nothing in the page keeps two from being under way.  `Subscribe` follows the first
  reload, failed or not, `Reconnect` a broken stream.
* `Merge` is `merge()` with the nodes in the order of the update.  When it cannot place one, or after
  `Reconnect`, a resync is due (`drifted`): the page's timer.  The timer is cleared before
  the reload it starts (`index.html:966`), so a resync that fails is not tried again; `due`
  marks its reload.
* `Dies(r)` ends a request between any two of its statements: one fails for a reason that is
  not the unique constraint, or the process of the API ends.  The database and the browser are kept.
* `lost`, `died`, `overlaps`, `dropped` and the two `stale` only record what the properties except.

## Properties

Of `Worker`:

* `ExclusiveWork`: no two workers have local work in one bucket.
* `SuccessorWaits`: no worker admits a bucket another still has work in.
* `YieldedByOwner`: a live worker loses a bucket only by its own promotion or
  release under the lock.
* `RecordsWellFormed`: owner, successor and state of a record agree, in every
  execution.
* `FreeFirst`: no bucket is free when the moves begin.
* `ImplementsOwnership`: the protocol refines `BucketOwnership`; the owner maps
  to the stored owner, the crawlers of a bucket to those with local work in it.
* `Settles`: in the end ownership is balanced among those that serve.
* `Heals`: duplicate work after a lapsed lease ends.

Of `BackQueue`:

* `CountsExact`: the in-flight count of a bucket is the number of its payloads in
  hand, however a download ends.
* `ScanSafe`: the scan never meets a domain without lock or release time, and the
  number of domains keeps to the limit.
* `DrainIsFinal`, `AttestedStaysEmpty`: no new work after a finished drain, or in a
  bucket found drained.
* `OneFetch`, `QueuedUncrawled`, `ReportFinds`: while calls are prompt, one fetch per domain, no URL queued
  that is crawled or in hand, no report of a domain that is gone.
* `DrainEnds`, `Crawled`: a drain ends; while no call fails, a registered URL is
  crawled.
* `NoneStranded`: no domain keeps an empty queue that nobody cleans up; violated.

Of `Pipeline`:

* `Reaches`: every URL the seeds lead to is crawled to an end if no call fails, no URL is
  refused and neither a Frontier nor a Downloader dies.
* `Announced`: a crawl that a Downloader has begun to fetch is reported as finished, unless a
  Downloader's process dies.
* `SeenIsKept`: a URL that is marked seen is registered or about to be, but
  for one per failure in the Frontier.
* `AttemptsKept`: no registration undoes a crawl and no execution entry is lost.
* `OneEntry`: redelivery overwrites the entry of a component; `Doubling` names the
  events after which two handlers of one crawl can both append.
* `FinishedOnce`: one finish event for a URL, and one more per failure at most.
* `OnlyLateProgress`: but for a late `IN_PROGRESS`, a final status is final.

Of `DomainRecords`:

* `LimitBlocks`, `LanguageBlocks`: the limits block the domain, and not one page later,
  but for failed calls.
* `Readmission`: an exclusion stands once no page that was let in before it is queued or being
  fetched: a blocked domain stays blocked, a locked one locked until its lock ends, and only a scan
  whose query failed lets it in.
* `FactsExpire`: every cached fact has an expiry, but for one per failure between the two calls.
* `PagesCounted`: `total_crawled` never exceeds the pages that came to a Storage by more than
  the failures and redeliveries, and falls short by no more unless two updates have overlapped.

Of `CrawlGraph`:

* `Rooted`: whatever requests overlap, every node hangs off an existing node whose
  directory form its name starts with.
* `NearestAncestor`: while requests come one at a time and none dies, off the nearest one,
  in any order of arrival.
* `Shown`: a page that succeeded is shown as such, in any order of its events.
* `ViewIsTree`: the browser never shows a node without its parent, whatever it missed.
* `FollowsGraph`: a connected browser with nothing on its way shows what the API has, moved nodes
  included, whatever reloads and broken streams came before.  Excepted are requests that
  overlap or die, a dropped update, a failed resync without a reload since, and a graph given before an update
  that was merged first or before the subscription.

## Runs

| Run | Instance | Events | Checks | Distinct states |
|---|---|---|---|---|
| `MCWorkerHandoff` | 2 workers, 1 bucket | a stop, a crash, an error | `TypeOK`, `IndInv`, `YieldedByOwner`, `ImplementsOwnership` | 205 thousand |
| `MCWorkerBalance` | 2, 3, one move a round | none | `FreeFirst`, `ExclusiveWork`, `SuccessorWaits` | 837 thousand |
| `MCWorkerSettles` | 2, 2, fair | a crash | `Settles` | 82 thousand |
| `MCWorkerHeals` | 2, 1, fair | a lapsed lease | `RecordsWellFormed`, `Heals` | 66 thousand |
| `MCBackQueueTasks` | 2 loops, 2 cleanups, 1 domain, 2 URLs | an error, a slow call | `TypeOK`, `OneFetch`, `QueuedUncrawled`, `ReportFinds`, `DrainIsFinal` | 128 thousand |
| `MCBackQueueDomains` | 2 loops, 2 domains of a bucket, 1 may be active | an assignment | `ScanSafe`, `CountsExact`, `AttestedStaysEmpty` | 103 thousand |
| `MCBackQueueEnds` | 2 loops, 1 domain, 2 URLs, fair | an error | `Crawled`, `DrainEnds` | 57 thousand |
| `MCBackQueueStranded` | the same, fair | an error | `NoneStranded`: violated | |
| `MCPipelineCrawls` | 2 tasks, 3 URLs, fair | any one event | `TypeOK`, `OneEntry`, `SeenIsKept`, `FinishedOnce`, `AttemptsKept`, `OnlyLateProgress`, `Announced`, `Reaches` | 93 thousand |
| `MCDomainRecordsCalls` | 3 tasks, 5 operations | a failure or redelivery, or a failed exclusion query | `TypeOK`, `LimitBlocks`, `LanguageBlocks`, `FactsExpire`, `PagesCounted`, `Readmission` | 1.7 million |
| `MCCrawlGraphTree` | 2 processes, 3 URLs, 2 requests | an overlap or a failure | `Rooted`, `NearestAncestor`, `Shown` | 618 thousand |
| `MCCrawlGraphStream` | 1 process, 2 URLs, 2 reloads | two broken streams or failed reloads | `TypeOK`, `ViewIsTree`, `FollowsGraph` | 1.5 million |

The bounds of `Worker` are `Worker`, `BucketCount`, `MaxBucketMoves` and `EventLimit`, the
number of outside events of each kind; everything else is finite by itself.
Two workers and a bucket make a handoff in each direction possible.  Three
buckets over two workers make the division leave a remainder and handoffs leave
buckets out, and one move a round makes the cap bite.  The theorems below
carry the safety properties to any number of both.  One event of a kind is where
the protocol's guarantees start to differ.  Deadlock is not checked: once every
worker has stopped nothing is left to do.

The bounds of `BackQueue` are its sets, the two `MAX_` constants and `EventLimit`.
Two URLs of a domain let one be selected while the other is queued, in hand or
back in the database; two loops and two cleanups make each race the code
comments on possible.  A report waits when every cleanup of `Cleaner` is busy,
where the code would start one more.  `LockObject` is large enough that an enqueue
always finds an identity that nobody refers to.  `OneFetch`, `QueuedUncrawled` and
`ReportFinds` say what holds while no call has outlasted a delay, and fail after
one has: the code relies on the delay of a domain being longer than its database
calls.  `Crawled` says what holds while no call has failed.  Deadlock is not
checked: a drained process has nothing left to do.

The bounds of `Pipeline` are its sets, `Possible` and `MaxEvents`.  The seed `u1` redirects
to `u2`, whose page links to `u1` and `u3`, and `u3` redirects to `u1`: pages, redirects,
links to what is seen and to what is not, and a cycle.  Two tasks are what each race
needs (two Frontiers over copies of one URL, a handler and the one
its message went to next).  Any one of the sixteen kinds of event may happen, at any point;
the properties that count failures allow one for each.
`MaxRedirectDepth` bounds nothing, as explained below.

Those of `DomainRecords` are `Task`, `MaxCalls`, `MaxErrors`, `MaxMisses` and the two limits.  Two
locks block and two pages do, so that five operations reach both
limits with a reset in between; three tasks let two languages be counted while a
fetch is reported.  One failed query or one failed call (`OneTrouble`) is where the properties begin to
make exceptions; the theorems carry more of both.

Those of `CrawlGraph` are its sets and the constants `Max...`.  The three names are a page `/a/b`,
its directory `/a/` and that directory in page form `/a`, the smallest set in which
a node is adopted twice and two names compete for one child.  In the first
instance two processes send them in every order, and one request may begin
while another is served, or an event fails.  In the second one process and the browser are followed
through updates that are dropped, a gap before the subscription, and two broken streams or failed reloads, which
is what it takes for a stream to break and its resync to fail.  To keep the instances
small, in the first nothing fails where requests overlap, and then these are about pending and start
events (`FailureOrOverlap`): `Rooted`, which is what it checks of them, does not look at a status.  The second has
neither failures nor overlaps, and two reloads
are too few for two to be under way after the first has opened the stream.  The theorems
carry these cases.  Deadlock is not checked in
these three: a crawl has an end.

One run ends in a violation, and shows where the code keeps less than a
comment promises.  `MCBackQueueStranded`: a payload whose `start_crawl` fails ends without a
report, which `backqueue.py:199` provides for, but only a report starts a cleanup.
If it was the last of its queue, its domain stays in the tables with an empty
queue for the life of the process and is not enqueued again.

### Seen while modelling

These are in the models, as what a property excepts or as a choice of an
action; no run is kept for them.

* "A lost owner cannot finish its local queue" (`worker.py:179`).  A worker whose lease
  ran out while it was alive keeps its queues and finishes them.  `Heals` shows
  that the overlap ends.
* The lock's TTL is neither extended nor checked, and `set_bucket_assignment` compares no revision
  (`worker.py:249`, `database.py:502`): a reconciler that outlives its lock can
  write an assignment planned from an old read over a newer one.  `RecordsCorrect` is
  proved without excluding it; `Exclusion` needs `Timely`.
* A URL is queued again if its `start_crawl` is still under way when its domain is
  cleaned up and enqueued (`backqueue.py:344`); `QueuedUncrawled` excepts it.
* A cleanup drops the delay that a report has just set (`backqueue.py:216`, `294`); the
  cache it would be read back from is never written (`cache.py:193` has no
  caller).
* A payload is published before `IN_PROGRESS` is saved (`base.py:460`), so a crawl that
  the next component has finished can go back to it; `OnlyLateProgress` is about
  everything else.
* The redirect limit of `downloader:141` is never met: the BackQueue builds a fresh Payload
  for each URL (`backqueue.py:345`), whose list of redirects is empty.
* A process that dies between `start_crawl` and the next publication leaves a crawl
  nobody carries on, and the URL is not queued again (`Announced`).
* A URL marked seen whose registration fails is lost (`SeenIsKept`).
* `update_crawl` is two updates; two handlers of one crawl can both append (`OneEntry`).
* A block is called permanent (`database.py:123`, `132`, `backqueue.py:218`), but
  `unlock_domain` sets the status whatever it was, so a page of a domain that was queued
  before the block and is answered after it makes the domain active again.  It takes a count of locks above
  zero: the domain is locked once, its lock ends, its pages are fetched again, and meanwhile the Parser bans its
  language.  A scan whose exclusion query fails lets a blocked domain in as well (`backqueue.py:317`).
  `Readmission` says what remains true.
* Concurrent updates of the metrics lose pages, and a page redelivered after its
  metrics were written counts twice (`PagesCounted`).
* A resync whose reload fails is not tried again (`index.html:966`): the page stays stale although its stream
  is connected, until an update names a parent it does not hold or the reader reloads.  Two reloads at once, or
  one that is answered after an update was merged, leave an older graph (`FollowsGraph`).
* A request that dies between the commits at `main.py:252` and `284` leaves an adoption
  undone for good: the node is found when its event is repeated, and adoption is for new nodes
  (`NearestAncestor` excepts `died`).
* Two first requests of a host, root or page both insert, and the later event is lost;
  overlapping requests can overwrite a success read before it was written
  (`main.py:215`).
* `ancestor_names` does not give the directory `/a/` for a path like `/a//b` (`utils.py:36`), while the search
  for descendants compares prefixes (`main.py:272`): `/a/` adopts that page if it arrives later and is
  not looked for if it arrives first.  `NearestHolds` assumes paths without it.
* A browser that is behind notices missed updates only if a later one names a parent it does not
  hold (`main.py:98`); a missed status stays wrong until a reload.

### Fairness

In `Worker`, the heartbeat, the drain and the release are loops or straight code
of one task with timeouts: weak fairness.  A step of a coordination and the end of a payload
may wait for `BackQueue.lock`, which asyncio grants in order of arrival, and a
coordination may wait for the Redis lock, which it polls for 120 seconds while no
holder keeps it longer than 30: strong fairness.  Starting a worker, taking in
new work, and every outside event are not fair.  A signalled worker does
shut down, and the lease and the lock of a process that is gone do run out.

In `BackQueue`, every task that can run does (the event loop, and calls that
return): weak fairness, and strong for a domain's Lock, which others take and
release meanwhile.  A delay runs out at a moment when nobody is racing with it
(strong), since the loops look again every second.  `DrainEnds` needs no poll of
the drain to be fair; nothing outside is fair.

In `Pipeline`, each task goes on with its steps (the event loop runs it and calls return or
raise) and, when idle, takes a message or a URL that is there, since consumers
stay subscribed and loops look again every second: weak fairness of each `Step`.  A task
stands for whichever handler comes next, so that it goes on after a crash says that another
worker process is left.  No event is fair.

## Proofs

The theorems hold for every value of the constants that the named assumptions
of the modules allow: finite sets of processes, tasks and kinds of events,
limits that are positive numbers, functions of the right type, and marks like
`NoURL` that are no URL.  The bounds on events and calls are constants too, so
that what is proved holds for any number of failures; in `Pipeline`, which keeps them in a set,
for any combination of the kinds of event, each counted once per component.

### Worker

For any finite set of workers, any number of buckets and any cap on moves
(`WorkerAssumption`, `BucketAssumption`, `EventAssumption`):

* `TypeCorrect` and `RecordsCorrect` hold in every execution, lapsed leases and
  lost locks included.
* Under `Timely` (no live worker loses its lease, no user of the lock its TTL;
  crashes, stops and errors are unrestricted) `InvariantHolds`, and from it
  `Exclusion`, `Successors`, `Yields` and `Refinement`.  Without `Timely`
  exclusion is false: a live worker that has lost its lease goes on with its queues,
  and a reconciler that has lost its lock writes over the assignment of another.

`ExclusiveWork` is not inductive.  Its strengthening is `WorkIsOwned`: work is
only in owned buckets, so two workers cannot share one.  That needs every write
that changes an owner to find no work behind it.  The writes of a reclaim do
because their old owner is dead (`TodoInv`, from `LeaseInv`: a live worker is a member,
so an owner that is no member is gone).  Those of an assignment do because
the bucket has no owner when it is planned, and the plan is still true when it is
written because the lock excludes every other writer (`LockInv`).  A promotion does
because the attested bucket holds no work and cannot get any: it is
not admitted any more (`AdmissionInv`, `SnapshotInv`), and no enqueue was
in progress when it was attested.  A release does because the
process has drained (`PhaseInv`).  `NewUnknown` keeps identities that have not started
out of all records.  `IndInv` is the conjunction; TLC checks it in `MCWorkerHandoff`.

`FreeFirstHolds` needs the sum of the targets.  `TargetsCover`: if no ready worker is below
its target, the ready workers have all buckets between them, as otherwise a
set of the first workers with less than its share would lose its last worker and still have less.  A
bucket still to be assigned is in no worker's load, so some worker is
below its target, and the assignment does not end (`FreeInv`).

The refinement proof maps each step to `Begin`, `End`, `Transfer` or a stutter of
`BucketOwnership` by what it does to owners and to work, bucket by bucket.

### BackQueue

For any finite sets of loops, cleanups and domains, any URLs and any limits
(`TaskAssumption`, `DataAssumption`, `LimitAssumption`) every safety property of the
runs is proved from one inductive invariant, `IndInv` (`Inductive`):

* `CountsHold` needs no more than the places of the actors (`PlaceInv`): a task has a
  payload, its domain and its Lock exactly while it has one in hand, so each step that takes
  or gives up one moves the count and the cardinality of `Holders` alike.
* `ScanHolds` needs `TableInv`: one actor at most keeps `BackQueue.lock` across
  its awaits, and only that one's domain may lack a release time.
* `AttestationHolds` needs `AttestInv`: an enqueue that was under way when a bucket was
  attested is not for that bucket, as the attestation had to wait for the lock.
* `DrainHolds` needs the order of the line.  An enqueuer tests `draining` before it
  waits, so some may still wait when it is set; `LineOK` says they all wait
  ahead of the drain.  When the drain has its turn and finds nothing, nobody is left who
  could take in work.
* `FetchesExclude`, `QueuedHolds` and `ReportHolds` hold while calls are prompt and need the
  three together (`PromptInv`).  `HoldInv`: the domain somebody is busy with stays in the
  tables with the Lock they hold, and is not due while they wait for a call.
  `AloneInv`: nobody else is busy with it, but for a loop that has reported and the
  cleanup it has started, which waits for its Lock.  `FreshInv`: what is queued, or about to be, has no crawl and
  is in nobody's hand.  Each needs the others: a second fetch would need a second entry of the domain,
  that one a cleanup during the first fetch, and that one an empty queue and
  a release time that is due.

### Pipeline

For any number of tasks and URLs, any links, redirects and events
(`PipelineAssumption`).  `BaseStep` shows that every step is one of the moves `Moves(t)`
of one task, each stated by what it does to that task's job, to the queues, to the
crawl of its URL and to the events.  The theorems are about what a job can become,
and use the moves only:

* `AttemptsHold`: `StartCrawl` meets no crawl, because a URL is in the hands of one
  Downloader at a time (`JobInv`) and a URL with a status is not pulled.
* `FinishHolds` from `FinishInv`: the finishes of a URL, its payloads on the way to Parser or
  Storage and the jobs that are about to report its end are together at most one
  and an extra one for each event.  A payload that is forwarded takes the place of
  the job that forwards it; only an error, a crash or a reconnection opens another place.
* `ProgressHolds` from `WriteInv`, the same account for those who may still write a final status.
* `EntryHolds` from `SingleParser` and `SingleStorage`: until an event of `Doubling` a URL has
  one Parser and one Storage, at work or to come.
* `SeenHolds`: every step loses no URL, or its own to an event of the Frontier (`LostMove`).

`events` is a set, so each kind of event counts once for a component; the bounds
are proved for that count.

### DomainRecords

For any finite set of tasks, any limits and any number of calls and failures
(`RecordsAssumption`).  The properties bound a count by its limit and the failures, which is not inductive:
between the two calls of an operation the count has passed the limit and the block is still to come.
`LockInv` adds the tasks about to block and `LanguageInv` those about to ban
(`Blocking`, `Banning`; their cardinality pays for the excess), `Stuck` are the facts that nobody is about to give
an expiry.  `PagesInv` leaves a page for each update under way and each message to come
back, and says that what a Storage has read is current while it is alone.  `ReadmissionHolds`
needs no more than the types: who could undo the exclusion is queued or at a fetch.

### CrawlGraph

For any processes, URLs, names and limits (`GraphAssumption`).

* `RootedHolds` and `AcyclicHolds` hold however requests are interleaved between their
  statements.  No request deletes a node, so what a request has found stays (`Knows`), and a
  row's parent is the place its request chose or a node that adopted it, whose
  directory form its name starts with in both cases.  A parent has a segment less than
  the node, so there is no cycle.
* `ViewIsTreeHolds`: an update tells the root at the top of the tree, and `merge` places a node
  only under one it shows or has just placed.
* `NearestHolds` and `ShownHolds` are about requests that come one at a time, the first also of ones that do not die.  What such a request has
  read stays true until it writes (`AloneInv`), so it takes the nearest ancestor
  there is, and adopts exactly the nodes it is nearer to than their parents.  A
  success is in a queue, in a request that will write it, or in its row (`ShownInv`).
  "The longest name is the nearest" is true of ancestors of one name because each has a
  length of its own, if no path has two slashes in a row (`CleanNames`).
* `FollowsHolds` from `FollowInv`: a graph differs from that of the API only in what is still told of it, in the
  stream or by the request being served.  That holds of the graph the browser shows and of every copy
  under way that is not stale (`AllFollow`), so that any of them may be loaded.  The last that is told of a node
  is current, and a parent is told before the nodes it adopts.

A greatest element of a finite set, which these proofs and that of `FreeFirst` need, comes from the
strict subset ordering being well-founded; the induction theorems of the library are
not needed.

### Only model-checked

* `Settles`, `Heals`, `DrainEnds`, `Crawled`, `Reaches`, `Announced`: liveness under fairness, which TLAPS does not prove
  here.

## Plan

1. `Worker`, `BucketOwnership` and their proofs: done.
2. `BackQueue`: modelled, checked, and its safety proved.  To state: an abstract
   `LocalWork` (admit, cede, take, finish, drain) that `BackQueue`
   implements and that is what `Worker` assumes of a process.
3. `Pipeline`, `DomainRecords`: modelled, checked, and their safety proved.
4. `CrawlGraph`: modelled, checked, and its safety proved.
5. Out of TLAPS's reach and left to TLC: `Reaches`, `Announced`, `Settles`, `Heals`,
   `DrainEnds`, `Crawled` (liveness).

## Not modelled

* Fetcher and blob storage: clients of external systems without state of their own.
  Their answers and failures are choices of the actions that call them.
* Services registry: starts and stops the services one after the other at the edges of a
  process's life.  A service that `disconnect` did not reach is a connection
  that outlives the program's interest in it, not a state of the program.
* Event bus: calls handlers in order and catches what they raise.  The
  events that have a consumer are in `Pipeline` (`finishes`) and `CrawlGraph`.
* Text: URL normalisation, extraction of links and metadata, robots.txt, the HTML of
  the page.  Their results are constants (`LinksOf`, `Target`, `NameOf`) or choices
  (a rule refuses or does not).
* Priorities: the prioritizer and the orders derived from it decide which URL comes next,
  and the models allow any.
* Settings, logging, entry point: wiring.

Of modelled parts: payload priorities and prefetch of the broker, the hooks
of components, layout and drawing in the page, more than one host and
more than one browser (they share nothing but the API's process).
