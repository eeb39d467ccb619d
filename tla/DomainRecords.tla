--------------------------- MODULE DomainRecords ---------------------------
(***************************************************************************)
(* What all workers keep of one domain: its document in the database       *)
(* (services/database.py) and its keys in the cache (services/cache.py).   *)
(* The Downloader reports fetches, the Parser counts languages, the        *)
(* Frontier saves the domain and looks up its hosts, the Storage counts    *)
(* pages.  One action is one call to the database or the cache.            *)
(*                                                                         *)
(* Of what a middleware finds out only its place in the cache is kept, and *)
(* of a time whether it lies "ahead" or has "past".                        *)
(***************************************************************************)
EXTENDS Integers, FiniteSets

CONSTANTS Task,               \* handlers busy with the domain at a time
          MaxLocks,           \* MAX_DOMAIN_CONSECUTIVE_LOCKS
          LanguageThreshold,  \* record_language's threshold
          MaxCalls,           \* how many operations begin
          MaxErrors,          \* how many calls raise, die or are repeated
          MaxMisses           \* how many exclusion queries fail

Fact == {"status", "country", "robots"}  \* what the middlewares cache
Saving == [status |-> "save status", country |-> "save country", robots |-> "save robots"]
Expiring == [status |-> "expire status", country |-> "expire country", robots |-> "expire robots"]
After == [status |-> "country", country |-> "robots", robots |-> "register"]
Place == {"idle", "fetch", "block", "ban", "write", "ack"}
           \cup {f[k] : f \in {Saving, Expiring, After}, k \in Fact}

ASSUME RecordsAssumption ==
  /\ IsFiniteSet(Task)
  /\ MaxLocks \in Nat \ {0} /\ LanguageThreshold \in Nat \ {0}
  /\ MaxCalls \in Nat /\ MaxErrors \in Nat /\ MaxMisses \in Nat

VARIABLES
  at,         \* what a task is about: a fetch, its next call, its acknowledgement
  read,       \* total_crawled as a Storage has read it
  status,     \* the domain's status, "absent" without a document
  lockCount,  \* lock_count
  until,      \* locked_until
  blockedAt,  \* blocked_at is set
  foreign,    \* metrics.languages of the one language that is not allowed
  queued,     \* a scan has let the domain in: it is in a queue, or about to be
  fact,       \* the cached facts: "absent", "kept" (no expiry), "expiring"
  total,      \* total_crawled, 0 without metrics
  waiting,    \* messages of stored pages that are to be handled once more
  pages,      \* pages that have come to a Storage
  overlapped, \* two updates of the metrics have overlapped
  calls, errors, misses

document == <<status, lockCount, until, blockedAt, foreign>>
cache == <<fact, total>>
ghosts == <<pages, overlapped>>
counting == <<read, waiting, ghosts>>
bounds == <<calls, errors, misses>>
vars == <<at, document, queued, cache, counting, bounds>>

\* Every task, document and key has its type.
TypeOK ==
  /\ at \in [Task -> Place]
  /\ read \in [Task -> Nat]
  /\ status \in {"absent", "unset", "active", "locked", "blocked"}
  /\ lockCount \in Nat
  /\ until \in {"none", "ahead", "past"}
  /\ blockedAt \in BOOLEAN /\ foreign \in Nat /\ queued \in BOOLEAN
  /\ fact \in [Fact -> {"absent", "kept", "expiring"}]
  /\ total \in Nat /\ waiting \in Nat /\ pages \in Nat /\ overlapped \in BOOLEAN
  /\ calls \in 0..MaxCalls /\ errors \in 0..MaxErrors /\ misses \in 0..MaxMisses

Init ==
  /\ at = [t \in Task |-> "idle"] /\ read = [t \in Task |-> 0]
  /\ status = "absent" /\ lockCount = 0 /\ until = "none"
  /\ blockedAt = FALSE /\ foreign = 0
  /\ queued = FALSE
  /\ fact = [k \in Fact |-> "absent"] /\ total = 0
  /\ waiting = 0 /\ pages = 0 /\ overlapped = FALSE
  /\ calls = 0 /\ errors = 0 /\ misses = 0

Begins(t) ==
  /\ at[t] = "idle" /\ calls < MaxCalls
  /\ calls' = calls + 1
Goto(t, place) == at' = [at EXCEPT ![t] = place]

-----------------------------------------------------------------------------
(***************************************************************************)
(* The Downloaders: a scan lets in a domain that is not excluded, its      *)
(* pages are fetched and report locks or unlocks it.  Fetches may overlap: *)
(* BackQueue!OneFetch is a promise for prompt calls and one worker.        *)
(***************************************************************************)
Excluded == status = "blocked" \/ (status = "locked" /\ until = "ahead")

\* The domain has URLs: they are registered before its own document.  When the
\* query for the excluded domains fails the scan goes on as if there were none.
Enqueue ==
  /\ ~queued /\ queued' = TRUE
  /\ \/ ~Excluded /\ UNCHANGED misses
     \/ misses < MaxMisses /\ misses' = misses + 1
  /\ UNCHANGED <<at, document, cache, counting, calls, errors>>

\* The scan puts nothing in after all, or the queue ends, by a cleanup or with
\* its worker.
Cleanup ==
  /\ queued /\ queued' = FALSE
  /\ UNCHANGED <<at, document, cache, counting, bounds>>

Fetch(t) ==
  /\ queued /\ Begins(t)
  /\ Goto(t, "fetch")
  /\ UNCHANGED <<document, queued, cache, counting, errors, misses>>

\* Faulty variant: the limit itself does not block yet.
LockPastLimit(t) ==
  /\ at[t] = "fetch"
  /\ lockCount' = lockCount + 1 /\ status' = "locked" /\ until' = "ahead"
  /\ Goto(t, IF lockCount' > MaxLocks THEN "block" ELSE "idle")
  /\ UNCHANGED <<blockedAt, foreign, queued, cache, counting, bounds>>

\* A refused fetch: lock_domain counts and locks, and knows from the result
\* whether it has to block.
LockDomain(t) ==
  /\ at[t] = "fetch"
  /\ lockCount' = lockCount + 1 /\ status' = "locked" /\ until' = "ahead"
  /\ Goto(t, IF lockCount' >= MaxLocks THEN "block" ELSE "idle")
  /\ UNCHANGED <<blockedAt, foreign, queued, cache, counting, bounds>>

BlockDomain(t) ==
  /\ at[t] = "block"
  /\ status' = "blocked" /\ blockedAt' = TRUE /\ until' = "none"
  /\ Goto(t, "idle")
  /\ UNCHANGED <<lockCount, foreign, queued, cache, counting, bounds>>

\* Faulty variant: the count is taken down by one.
UnlockOnce(t) ==
  /\ at[t] = "fetch"
  /\ status' = "active" /\ lockCount' = lockCount - 1 /\ until' = "none"
  /\ Goto(t, "idle")
  /\ UNCHANGED <<blockedAt, foreign, queued, cache, counting, bounds>>

\* A fetch that is answered.
UnlockDomain(t) ==
  /\ at[t] = "fetch"
  /\ IF lockCount > 0
       THEN status' = "active" /\ lockCount' = 0 /\ until' = "none"
       ELSE UNCHANGED <<status, lockCount, until>>
  /\ Goto(t, "idle")
  /\ UNCHANGED <<blockedAt, foreign, queued, cache, counting, bounds>>

\* A payload whose crawl could not be started, a fetch that fails in a way that
\* locks nothing, a report whose call fails, or a worker that dies.
Unanswered(t) ==
  /\ at[t] = "fetch"
  /\ Goto(t, "idle")
  /\ UNCHANGED <<document, queued, cache, counting, bounds>>

-----------------------------------------------------------------------------
(***************************************************************************)
(* The Parser: LanguageFilter.                                             *)
(***************************************************************************)
\* Faulty variant: the count is the one before this page.
RecordedBefore(t) ==
  /\ Begins(t)
  /\ status' = IF status = "absent" THEN "unset" ELSE status
  /\ foreign' = foreign + 1
  /\ Goto(t, IF foreign >= LanguageThreshold THEN "ban" ELSE "idle")
  /\ UNCHANGED <<lockCount, until, blockedAt, queued, cache, counting, errors, misses>>

\* A page in a language: the count is the one after this page.
RecordLanguage(t) ==
  /\ Begins(t)
  /\ status' = IF status = "absent" THEN "unset" ELSE status
  /\ \/ UNCHANGED <<at, foreign>>
     \/ /\ foreign' = foreign + 1
        /\ Goto(t, IF foreign' >= LanguageThreshold THEN "ban" ELSE "idle")
  /\ UNCHANGED <<lockCount, until, blockedAt, queued, cache, counting, errors, misses>>

BanLanguage(t) ==
  /\ at[t] = "ban"
  /\ status' = "blocked" /\ blockedAt' = TRUE
  /\ Goto(t, "idle")
  /\ UNCHANGED <<lockCount, until, foreign, queued, cache, counting, bounds>>

-----------------------------------------------------------------------------
(***************************************************************************)
(* The Frontier: three middlewares look a fact up, ask the outside world   *)
(* for one that is missing and save it; the filters may refuse the URL     *)
(* after any of them; the domain is saved last.                            *)
(***************************************************************************)
Lookup(t, k) ==
  /\ Goto(t, IF fact[k] = "absent" THEN Saving[k] ELSE After[k])
  /\ UNCHANGED <<document, queued, cache, counting, errors, misses>>

DNSMiddleware(t) == Begins(t) /\ Lookup(t, "status")

\* A Brazilian name needs no lookup.
CountryMiddleware(t) ==
  /\ at[t] = "country"
  /\ \/ Lookup(t, "country")
     \/ /\ Goto(t, "robots")
        /\ UNCHANGED <<document, queued, cache, counting, errors, misses>>
  /\ UNCHANGED calls

RobotsExclusionMiddleware(t) ==
  /\ at[t] = "robots"
  /\ Lookup(t, "robots")
  /\ UNCHANGED calls

\* hset keeps the expiry of a key that has one.
SaveFact(t, k) ==
  /\ at[t] = Saving[k]
  /\ fact' = [fact EXCEPT ![k] = IF @ = "absent" THEN "kept" ELSE @]
  /\ Goto(t, Expiring[k])
  /\ UNCHANGED <<document, queued, total, counting, bounds>>

\* Faulty variant: a fact that refuses the URL is saved without an expiry.
ExpireUnlessRefused(t, k) ==
  /\ at[t] = Expiring[k]
  /\ \/ Goto(t, "idle") /\ UNCHANGED fact
     \/ Goto(t, After[k]) /\ fact' = [fact EXCEPT ![k] = "expiring"]
  /\ UNCHANGED <<document, queued, total, counting, bounds>>

\* expire needs the key; an unavailable host or a refusing robots.txt ends
\* the Frontier's work.
ExpireFact(t, k) ==
  /\ at[t] = Expiring[k]
  /\ fact' = [fact EXCEPT ![k] = IF @ = "absent" THEN @ ELSE "expiring"]
  /\ Goto(t, "idle") \/ Goto(t, After[k])
  /\ UNCHANGED <<document, queued, total, counting, bounds>>

Refuse(t) ==
  /\ at[t] \in {"country", "robots", "register"}
  /\ Goto(t, "idle")
  /\ UNCHANGED <<document, queued, cache, counting, bounds>>

\* Faulty variant: a document that exists is overwritten.
SaveOver(t) ==
  /\ at[t] = "register"
  /\ status' = "active" /\ lockCount' = 0 /\ until' = "none" /\ blockedAt' = FALSE
  /\ foreign' = 0
  /\ Goto(t, "idle")
  /\ UNCHANGED <<queued, cache, counting, bounds>>

SaveDomain(t) ==
  /\ at[t] = "register"
  /\ status' = IF status = "absent" THEN "active" ELSE status
  /\ Goto(t, "idle")
  /\ UNCHANGED <<lockCount, until, blockedAt, foreign, queued, cache, counting, bounds>>

-----------------------------------------------------------------------------
(***************************************************************************)
(* The Storage: update_domain_metrics for a new page, or for one whose     *)
(* message has come back; the message is acknowledged at the end.          *)
(***************************************************************************)
GetMetrics(t) ==
  /\ \/ Begins(t) /\ pages' = pages + 1 /\ UNCHANGED waiting
     \/ /\ at[t] = "idle" /\ waiting > 0
        /\ waiting' = waiting - 1 /\ UNCHANGED <<pages, calls>>
  /\ read' = [read EXCEPT ![t] = total]
  /\ Goto(t, "write")
  /\ overlapped' = (overlapped \/ \E s \in Task : at[s] = "write")
  /\ UNCHANGED <<document, queued, cache, errors, misses>>

\* Faulty variant: the first page is not counted.
SaveFirstAsZero(t) ==
  /\ at[t] = "write"
  /\ total' = IF read[t] = 0 THEN 0 ELSE read[t] + 1
  /\ read' = [read EXCEPT ![t] = 0]
  /\ Goto(t, "ack")
  /\ UNCHANGED <<document, queued, fact, waiting, ghosts, bounds>>

SaveMetrics(t) ==
  /\ at[t] = "write"
  /\ total' = read[t] + 1
  /\ read' = [read EXCEPT ![t] = 0]
  /\ Goto(t, "ack")
  /\ UNCHANGED <<document, queued, fact, waiting, ghosts, bounds>>

Acknowledge(t) ==
  /\ at[t] = "ack"
  /\ Goto(t, "idle")
  /\ UNCHANGED <<document, queued, cache, counting, bounds>>

\* The connection to the broker breaks: the message will come back, although
\* its handler goes on.
Redeliver(t) ==
  /\ at[t] \in {"write", "ack"} /\ errors < MaxErrors
  /\ errors' = errors + 1
  /\ waiting' = waiting + 1
  /\ UNCHANGED <<at, read, document, queued, cache, ghosts, calls, misses>>

-----------------------------------------------------------------------------
\* A call raises, whether or not it has written, and the message is
\* acknowledged all the same; or the process dies and the message comes back.
\* What was written before stays.
Fails(t) ==
  /\ at[t] \notin {"idle", "fetch"} /\ errors < MaxErrors
  /\ errors' = errors + 1
  /\ Goto(t, "idle")
  /\ read' = [read EXCEPT ![t] = 0]
  /\ \/ UNCHANGED waiting
     \/ at[t] \in {"write", "ack"} /\ waiting' = waiting + 1
  /\ UNCHANGED <<document, queued, cache, ghosts, calls, misses>>

LockEnds ==
  /\ until = "ahead" /\ until' = "past"
  /\ UNCHANGED <<at, status, lockCount, blockedAt, foreign, queued, cache, counting, bounds>>

FactExpires ==
  /\ \E k \in Fact : fact[k] = "expiring" /\ fact' = [fact EXCEPT ![k] = "absent"]
  /\ UNCHANGED <<at, document, queued, total, counting, bounds>>

Next ==
  \/ \E t \in Task :
       \/ Fetch(t) \/ LockDomain(t) \/ BlockDomain(t)
       \/ UnlockDomain(t) \/ Unanswered(t)
       \/ RecordLanguage(t) \/ BanLanguage(t)
       \/ DNSMiddleware(t) \/ CountryMiddleware(t) \/ RobotsExclusionMiddleware(t)
       \/ \E k \in Fact : SaveFact(t, k) \/ ExpireFact(t, k)
       \/ Refuse(t) \/ SaveDomain(t)
       \/ GetMetrics(t) \/ SaveMetrics(t) \/ Acknowledge(t) \/ Redeliver(t)
       \/ Fails(t)
  \/ Enqueue \/ Cleanup \/ LockEnds \/ FactExpires

Spec == Init /\ [][Next]_vars

-----------------------------------------------------------------------------
(***************************************************************************)
(* Properties.                                                             *)
(***************************************************************************)
\* Consecutive locks end in a block: from the limit on the domain has been
\* blocked or lock_domain is between its two writes.  Each failure of the
\* second write puts the block off by one lock.
LimitBlocks ==
  lockCount >= MaxLocks + errors =>
    blockedAt \/ \E t \in Task : at[t] = "block"

\* Enough pages in another language get the domain blocked, by the Parser that
\* counted the page or by one that is about to; a failure puts it off by one.
LanguageBlocks ==
  foreign >= LanguageThreshold + errors =>
    blockedAt \/ \E t \in Task : at[t] = "ban"

\* An exclusion stands.  Once no page that was let in before it is queued or
\* being fetched a blocked domain stays blocked ("permanently",
\* get_excluded_domains) and a locked one stays locked or gets blocked until its
\* lock ends ("doesn't overwrite existing lock state", save_domain); and no page
\* is let in but by a scan that could not learn of the exclusion.
Fetchable == queued \/ \E t \in Task : at[t] = "fetch"
Readmission ==
  [][Excluded /\ ~Fetchable =>
       /\ status = "blocked" => status' = "blocked"
       /\ Excluded' \/ until' = "past"
       /\ Fetchable' => misses' > misses]_vars

\* A cached fact expires: each one that has no expiry has a middleware that is
\* about to set it, unless one has failed between its two calls.
FactsExpire ==
  Cardinality({k \in Fact : fact[k] = "kept"
                            /\ \A t \in Task : at[t] # Expiring[k]}) <= errors

\* Every page that comes to a Storage counts once in total_crawled.  A failure
\* counts one page once more, or not at all; beyond that only overlapping
\* updates lose pages, and nothing adds any.
PagesCounted ==
  /\ total <= pages + errors
  /\ ~overlapped /\ waiting = 0 /\ (\A t \in Task : at[t] # "write") =>
       pages <= total + errors
=============================================================================
