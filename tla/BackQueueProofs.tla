-------------------------- MODULE BackQueueProofs --------------------------
(***************************************************************************)
(* Proofs about the BackQueue of a process, for any number of loops,       *)
(* cleanups, domains and buckets, and any assignment.                      *)
(***************************************************************************)
EXTENDS BackQueue, FiniteSetTheorems, SequenceTheorems, TLAPS

USE DEF Locked, Queueing, InHand, Fetching
USE DEF tables, policy, actors, scratch, database, ghosts

-----------------------------------------------------------------------------
(***************************************************************************)
(* The parts of the inductive invariant.                                   *)
(***************************************************************************)
(***************************************************************************)
(* Where an actor can be, and what it refers to there: a task has a        *)
(* payload, its domain and its Lock exactly while it has one in hand.      *)
(***************************************************************************)
PlaceInv ==
  /\ \A t \in Task :
       /\ at[t] \in {"pull", "scan", "enter"} \cup Locked \cup InHand
       /\ at[t] \in InHand =>
            url[t] \in URL /\ site[t] = DomainOf[url[t]] /\ held[t] \in LockObject
       /\ at[t] \notin InHand => url[t] = NoURL /\ held[t] = NoLock
  /\ \A c \in Cleaner :
       /\ at[c] \in {"none", "clean", "wait", "pop", "enter"} \cup Locked
       /\ at[c] \in {"wait", "pop"} => held[c] \in LockObject
       /\ at[c] \in {"clean", "wait", "pop"} => site[c] \in Domain
  /\ \A a \in Enqueuer : at[a] \in {"load", "warm"} => site[a] \in Domain
  /\ at[Drainer] \in {"none", "poll", "done"}
  /\ at[Attester] \in {"none", "poll"}

(***************************************************************************)
(* The three dictionaries.  One actor at most keeps BackQueue.lock across  *)
(* awaits; until it has put the last URL, its domain may lack a release    *)
(* time, and the domain it has chosen is new.                              *)
(***************************************************************************)
TableInv ==
  /\ DOMAIN queues = DOMAIN locks
  /\ \A d \in DOMAIN queues : \A u \in queues[d] : DomainOf[u] = d
  /\ Cardinality(DOMAIN queues) <= MaxActiveDomains
  /\ \A a, b \in Enqueuer : at[a] \in Locked /\ at[b] \in Locked => a = b
  /\ \A a \in Enqueuer :
       /\ at[a] \in {"exclude", "choose", "load"} =>
            Cardinality(DOMAIN queues) < MaxActiveDomains
       /\ at[a] = "load" => site[a] \notin DOMAIN queues
       /\ at[a] = "warm" => /\ site[a] \in DOMAIN queues
                            /\ \A u \in batch : DomainOf[u] = site[a]
  /\ \A d \in DOMAIN queues \ DOMAIN release :
       \E a \in Enqueuer : at[a] = "warm" /\ site[a] = d

(***************************************************************************)
(* Attested buckets are ceding, and no enqueue under way is for one.       *)
(***************************************************************************)
AttestInv ==
  /\ attested \subseteq ceding
  /\ \A a \in Enqueuer :
       /\ at[a] = "choose" => fetchable \cap attested = {}
       /\ at[a] \in {"load", "warm"} => BucketOf[site[a]] \notin attested

(***************************************************************************)
(* A queue l of actors at the places p.  It holds each waiting actor once, *)
(* and an enqueuer never comes after a waiting drain.                      *)
(***************************************************************************)
LineOK(l, p) ==
  /\ \A i \in 1..Len(l) : p[l[i]] \in Queueing
  /\ \A a \in Actor : p[a] \in Queueing => \E i \in 1..Len(l) : l[i] = a
  /\ \A i, j \in 1..Len(l) : l[i] = l[j] => i = j
  /\ \A i, j \in 1..Len(l) :
       l[i] = Drainer /\ p[l[j]] = "enter" => j < i

(***************************************************************************)
(* The drain is polled after draining is set, and finds nobody who could   *)
(* still take in work.                                                     *)
(***************************************************************************)
DrainInv ==
  /\ LineOK(line, at)
  /\ at[Drainer] = "poll" \/ drained => draining
  /\ drained => \A a \in Enqueuer : at[a] \notin Locked \cup {"enter"}

(***************************************************************************)
(* Who is busy with a domain, from the selection of a payload until it is  *)
(* completed or until the domain is cleaned up; who waits meanwhile for a  *)
(* database call or a lock; and a loop that has reported and is about to   *)
(* give its Lock to the cleanup it has started.                            *)
(***************************************************************************)
Busy == {"start", "wait", "fetch", "report", "punish", "complete", "abort",
         "clean", "pop"}
Waiting == {"start", "wait", "complete", "abort", "clean"}
Leaving(a, b) ==
  a \in Task /\ at[a] = "complete" /\ b \in Cleaner /\ at[b] \in {"clean", "wait"}

\* While calls are prompt, the domain that somebody is busy with stays in the
\* tables with the Lock they refer to, and is not due while they wait.
HoldInv ==
  \A a \in Enqueuer : at[a] \in Busy =>
    /\ site[a] \in DOMAIN queues \cap DOMAIN release
    /\ at[a] # "clean" => held[a] = locks[site[a]]
    /\ at[a] \in Waiting => release[site[a]] = "later"

\* While calls are prompt, nobody else is busy with it, but for that handover.
AloneInv ==
  \A a, b \in Enqueuer :
    at[a] \in Busy /\ at[b] \in Busy /\ site[a] = site[b] /\ a # b =>
      Leaving(a, b) \/ Leaving(b, a)

\* While calls are prompt, what is queued or about to be has not been crawled
\* and is in nobody's hand.
Fresh(u) == u \in pending /\ \A t \in Task : url[t] # u

FreshInv ==
  /\ \A d \in DOMAIN queues : \A u \in queues[d] : Fresh(u)
  /\ \A a \in Enqueuer : at[a] = "warm" =>
       site[a] \notin DOMAIN release /\ \A u \in batch : Fresh(u)

PromptInv == HoldInv /\ AloneInv /\ FreshInv

IndInv ==
  /\ TypeOK /\ PlaceInv /\ TableInv /\ CountsExact
  /\ AttestInv /\ AttestedStaysEmpty
  /\ DrainInv /\ DrainIsFinal
  /\ Prompt => PromptInv

-----------------------------------------------------------------------------
(***************************************************************************)
(* Type correctness.                                                       *)
(***************************************************************************)
LEMMA TypeInit == Init => TypeOK
<1> SUFFICES ASSUME Init PROVE TypeOK
  OBVIOUS
<1>1. draining \in BOOLEAN /\ drained \in BOOLEAN
  BY Zenon DEF Init
<1>2. line \in Seq(Actor)
  BY EmptySeq DEF Init
<1> QED
  BY <1>1, <1>2, DataAssumption DEF Init, TypeOK, Place

\* The flags keep their type.
LEMMA FlagStep == TypeOK /\ [Next]_vars => draining' \in BOOLEAN /\ drained' \in BOOLEAN
<1> DEFINE Flags == draining \in BOOLEAN /\ drained \in BOOLEAN
<1> SUFFICES ASSUME Flags, [Next]_vars PROVE Flags'
  BY DEF TypeOK
<1>1. CASE UNCHANGED vars
  BY <1>1 DEF vars
<1>2. ASSUME NEW t \in Task, Download(t) \/ StartCrawlFails(t) PROVE Flags'
  BY <1>2, Zenon DEF Download, TryEnqueue, Select, Sleep, StartCrawl, StartCrawlFails,
                     Fetch, Report, Punish, Complete, Delay
<1>3. ASSUME NEW a \in Enqueuer, EnqueueNewDomain(a) \/ QueryFails(a) \/ AcquireLock(a)
      PROVE  Flags'
  BY <1>3, Zenon DEF EnqueueNewDomain, EnterEnqueue, GetExcludedDomains, GetDistinctDomains,
                     GetDomainUrls, GetDomainReleaseTime, QueryFails, AcquireLock
<1>4. ASSUME NEW c \in Cleaner, Cleanup(c) PROVE Flags'
  BY <1>4, Zenon DEF Cleanup, StartCleaning, CleanupDomain
<1>5. CASE Drain \/ WaitForDrain \/ SetBuckets \/ RequestDrained \/ DrainedBuckets
  BY <1>5, Zenon DEF Drain, WaitForDrain, SetBuckets, RequestDrained, DrainedBuckets
<1>6. CASE PollDrained
  BY <1>6, Zenon DEF PollDrained, HasLocalWork
<1>7. ASSUME NEW u \in URL, RegisterUrl(u) PROVE Flags'
  BY <1>7, Zenon DEF RegisterUrl
<1>8. ASSUME NEW d \in Domain, ExcludedChanges(d) \/ Elapse(d) PROVE Flags'
  BY <1>8, Zenon DEF ExcludedChanges, Elapse
<1> QED
  BY <1>1, <1>2, <1>3, <1>4, <1>5, <1>6, <1>7, <1>8 DEF Next
(***************************************************************************)
(* The parts of TypeOK.                                                    *)
(***************************************************************************)
TablesType ==
  /\ DOMAIN queues \subseteq Domain /\ queues \in [DOMAIN queues -> SUBSET URL]
  /\ DOMAIN locks \subseteq Domain /\ locks \in [DOMAIN locks -> LockObject]
  /\ DOMAIN release \subseteq Domain
  /\ release \in [DOMAIN release -> {"due", "later"}]
  /\ inFlight \in [Bucket -> Nat]

ActorsType ==
  /\ line \in Seq(Actor)
  /\ at \in [Actor -> Place]
  /\ url \in [Task -> URL \cup {NoURL}]
  /\ site \in [Enqueuer -> Domain \cup {NoDomain}]
  /\ held \in [Enqueuer -> LockObject \cup {NoLock}]

RestType ==
  /\ admitted \in SUBSET Bucket /\ ceding \in SUBSET Bucket
  /\ banned \in SUBSET Domain /\ fetchable \in SUBSET Bucket
  /\ batch \in SUBSET URL
  /\ pending \in SUBSET URL /\ unseen \in SUBSET URL
  /\ excluded \in SUBSET Domain
  /\ attested \in SUBSET Bucket
  /\ events \in [Event -> Nat]

LEMMA TypeParts ==
  TypeOK <=> /\ TablesType /\ ActorsType /\ RestType
             /\ draining \in BOOLEAN /\ drained \in BOOLEAN
BY Zenon DEF TypeOK, TablesType, ActorsType, RestType

LEMMA TypePartsNext ==
  TypeOK' <=> /\ TablesType' /\ ActorsType' /\ RestType'
              /\ draining' \in BOOLEAN /\ drained' \in BOOLEAN
BY Zenon DEF TypeOK, TablesType, ActorsType, RestType

LEMMA Places ==
  /\ "none" \in Place /\ "pull" \in Place /\ "clean" \in Place /\ "done" \in Place
  /\ "exclude" \in Place /\ "choose" \in Place /\ "load" \in Place /\ "warm" \in Place
  /\ "enter" \in Place /\ "scan" \in Place /\ "complete" \in Place /\ "abort" \in Place
  /\ "pop" \in Place /\ "poll" \in Place /\ "start" \in Place /\ "wait" \in Place
  /\ "fetch" \in Place /\ "report" \in Place /\ "punish" \in Place
BY DEF Place

(***************************************************************************)
(* What a step does to the line.  One actor at a time comes or goes; it    *)
(* comes for an enqueue only before the drain.                             *)
(***************************************************************************)
LineMove(a) ==
  /\ \A b \in Actor \ {a} :
       at[b] \in Queueing \/ at'[b] \in Queueing => at'[b] = at[b]
  /\ at'[a] = "enter" => ~draining
  /\ \/ line' = line /\ at[a] \notin Queueing /\ at'[a] \notin Queueing
     \/ line' = Append(line, a) /\ at[a] \notin Queueing /\ at'[a] \in Queueing
     \/ line # <<>> /\ Head(line) = a /\ line' = Tail(line) /\ at'[a] \notin Queueing
     \/ /\ line # <<>> /\ Head(line) = a
        /\ line' = Append(Tail(line), a) /\ at'[a] \in Queueing

LEMMA GoMove ==
  ASSUME ActorsType, NEW a \in Actor, NEW p, Go(a, p),
         at[a] \notin Queueing, p \notin Queueing
  PROVE  LineMove(a)
BY DEF Go, LineMove, ActorsType

LEMMA WaitMove ==
  ASSUME ActorsType, NEW a \in Actor, NEW p, Wait(a, p),
         at[a] \notin Queueing, p \in Queueing, p = "enter" => ~draining
  PROVE  LineMove(a)
<1>1. at'[a] = p /\ \A b \in Actor \ {a} : at'[b] = at[b]
  BY DEF Wait, ActorsType
<1>2. line' = Append(line, a)
  BY DEF Wait
<1> QED
  BY <1>1, <1>2, Zenon DEF LineMove

LEMMA PassMove ==
  ASSUME ActorsType, NEW a \in Actor, NEW p, Turn(a), Pass(a, p), p \notin Queueing
  PROVE  LineMove(a)
<1>1. at'[a] = p /\ \A b \in Actor \ {a} : at'[b] = at[b]
  BY DEF Pass, ActorsType
<1>2. line' = Tail(line) /\ line # <<>> /\ Head(line) = a
  BY DEF Pass, Turn
<1>3. at'[a] # "enter"
  BY <1>1
<1> QED
  BY <1>1, <1>2, <1>3, Zenon DEF LineMove

LEMMA RefuseMove ==
  ASSUME ActorsType, NEW a \in Enqueuer,
         \/ Refuse(a, line) /\ at[a] \notin Queueing
         \/ Refuse(a, Tail(line)) /\ Turn(a)
  PROVE  LineMove(a)
<1>1. a \in Actor
  BY DEF Actor
<1>2. /\ at'[a] = IF a \in Task THEN "scan" ELSE "none"
      /\ \A b \in Actor \ {a} : at'[b] = at[b]
  BY <1>1 DEF Refuse, ActorsType
<1>3. CASE a \in Task
  <2>1. at'[a] \in Queueing /\ at'[a] # "enter"
    BY <1>2, <1>3
  <2>2. \/ line' = Append(line, a) /\ at[a] \notin Queueing
        \/ line' = Append(Tail(line), a) /\ line # <<>> /\ Head(line) = a
    BY <1>3, Zenon DEF Refuse, Turn
  <2> QED
    BY <1>2, <2>1, <2>2, Zenon DEF LineMove
<1>4. CASE a \notin Task
  <2>1. at'[a] \notin Queueing /\ at'[a] # "enter"
    BY <1>2, <1>4
  <2>2. \/ line' = line /\ at[a] \notin Queueing
        \/ line' = Tail(line) /\ line # <<>> /\ Head(line) = a
    BY <1>4, Zenon DEF Refuse, Turn
  <2> QED
    BY <1>2, <2>1, <2>2, Zenon DEF LineMove
<1> QED
  BY <1>3, <1>4
LEMMA LineStep ==
  ASSUME ActorsType, PlaceInv, Next
  PROVE  UNCHANGED <<line, at>> \/ \E a \in Actor : LineMove(a)
<1>a. /\ \A t \in Task : t \in Actor /\ t \in Enqueuer
      /\ \A c \in Cleaner : c \in Actor /\ c \in Enqueuer
      /\ \A a \in Enqueuer : a \in Actor
      /\ Drainer \in Actor /\ Attester \in Actor
  BY DEF Actor, Enqueuer
<1>1. ASSUME NEW t \in Task, TryEnqueue(t) PROVE LineMove(t)
  <2>1. CASE Wait(t, "enter") /\ ~draining
    BY <1>1, <1>a, <2>1, WaitMove DEF TryEnqueue
  <2>2. CASE Wait(t, "scan")
    BY <1>1, <1>a, <2>2, WaitMove DEF TryEnqueue
  <2> QED
    BY <1>1, <2>1, <2>2 DEF TryEnqueue
<1>2. ASSUME NEW t \in Task, Select(t) \/ Sleep(t) \/ Complete(t) PROVE LineMove(t)
  <2>1. Turn(t) /\ (Pass(t, "start") \/ Pass(t, "pull"))
    BY <1>2 DEF Select, Sleep, Complete
  <2> QED
    BY <1>a, <2>1, PassMove
<1>3. ASSUME NEW t \in Task, StartCrawl(t) \/ Fetch(t) PROVE LineMove(t)
  <2>1. /\ at[t] \notin Queueing
        /\ Go(t, "wait") \/ Go(t, "report") \/ Go(t, "punish")
    BY <1>3 DEF StartCrawl, Fetch
  <2> QED
    BY <1>a, <2>1, GoMove
<1>4. ASSUME NEW t \in Task, StartCrawlFails(t) PROVE LineMove(t)
  BY <1>4, <1>a, WaitMove DEF StartCrawlFails
<1>5. ASSUME NEW t \in Task, Report(t) \/ Punish(t) PROVE LineMove(t)
  <2>1. line' = Append(line, t) /\ at[t] \notin Queueing
    BY <1>5 DEF Report, Punish, Delay
  <2>2. at'[t] = "complete"
    BY <1>5, <1>a DEF Report, Punish, StartCleanup, ActorsType
  <2>3. \A b \in Actor \ {t} : at'[b] = at[b] \/ (at[b] = "none" /\ at'[b] = "clean")
    BY <1>5, <1>a DEF Report, Punish, StartCleanup, ActorsType
  <2>4. /\ at'[t] \in Queueing /\ at'[t] # "enter"
        /\ \A b \in Actor \ {t} :
             at[b] \in Queueing \/ at'[b] \in Queueing => at'[b] = at[b]
    BY <2>2, <2>3
  <2> QED
    BY <2>1, <2>4, Zenon DEF LineMove
<1>6. ASSUME NEW c \in Cleaner, StartCleaning(c) PROVE LineMove(c)
  <2>1. /\ at[c] \notin Queueing
        /\ Go(c, "pull") \/ Go(c, "none") \/ Go(c, "wait")
    BY <1>6 DEF StartCleaning, Leave
  <2> QED
    BY <1>a, <2>1, GoMove
<1>7. ASSUME NEW c \in Cleaner, CleanupDomain(c) PROVE LineMove(c)
  <2>1. /\ at'[c] = IF draining THEN "none" ELSE "enter"
        /\ \A b \in Actor \ {c} : at'[b] = at[b]
    BY <1>7, <1>a DEF CleanupDomain, ActorsType
  <2>2. /\ line # <<>> /\ Head(line) = c
        /\ line' = IF draining THEN Tail(line) ELSE Append(Tail(line), c)
    BY <1>7, Zenon DEF CleanupDomain, Turn
  <2>3. CASE draining
    <3>1. at'[c] \notin Queueing /\ at'[c] # "enter" /\ line' = Tail(line)
      BY <2>1, <2>2, <2>3
    <3> QED
      BY <2>1, <2>2, <3>1, Zenon DEF LineMove
  <2>4. CASE ~draining
    <3>1. at'[c] \in Queueing
      BY <2>1, <2>4
    <3>2. line' = Append(Tail(line), c)
      BY <2>2, <2>4, Zenon
    <3> QED
      BY <2>1, <2>2, <2>4, <3>1, <3>2, Zenon DEF LineMove
  <2> QED
    BY <2>3, <2>4
<1>8. ASSUME NEW a \in Enqueuer,
             \/ EnterEnqueue(a) \/ GetExcludedDomains(a) \/ GetDistinctDomains(a)
             \/ GetDomainUrls(a) \/ GetDomainReleaseTime(a) \/ QueryFails(a)
      PROVE  LineMove(a)
  <2>1. \/ /\ at[a] \notin Queueing
           /\ \/ Refuse(a, line) \/ Go(a, "choose") \/ Go(a, "load") \/ Go(a, "warm")
              \/ Go(a, "pull") \/ Go(a, "none")
        \/ Turn(a) /\ (Refuse(a, Tail(line)) \/ Pass(a, "exclude"))
    BY <1>8 DEF EnterEnqueue, GetExcludedDomains, GetDistinctDomains, GetDomainUrls,
                GetDomainReleaseTime, QueryFails, Leave
  <2> QED
    BY <1>a, <2>1, RefuseMove, GoMove, PassMove
<1>9. ASSUME NEW a \in Enqueuer, AcquireLock(a) PROVE LineMove(a)
  <2>1. at[a] \notin Queueing /\ (Go(a, "fetch") \/ Wait(a, "pop"))
    BY <1>9 DEF AcquireLock
  <2> QED
    BY <1>a, <2>1, GoMove, WaitMove
<1>10. ASSUME WaitForDrain PROVE LineMove(Drainer)
  BY <1>10, <1>a, WaitMove DEF WaitForDrain
<1>11. ASSUME RequestDrained PROVE LineMove(Attester)
  BY <1>11, <1>a, WaitMove DEF RequestDrained
<1>12. ASSUME PollDrained PROVE LineMove(Drainer)
  <2>1. Turn(Drainer) /\ (Pass(Drainer, "none") \/ Pass(Drainer, "done"))
    BY <1>12 DEF PollDrained
  <2> QED
    BY <1>a, <2>1, PassMove
<1>13. ASSUME DrainedBuckets PROVE LineMove(Attester)
  BY <1>13, <1>a, PassMove DEF DrainedBuckets
<1>14. ASSUME \/ Drain \/ SetBuckets
              \/ \E u \in URL : RegisterUrl(u)
              \/ \E d \in Domain : ExcludedChanges(d) \/ Elapse(d)
       PROVE  UNCHANGED <<line, at>>
  BY <1>14 DEF Drain, SetBuckets, RegisterUrl, ExcludedChanges, Elapse
<1> QED
  BY <1>a, <1>1, <1>2, <1>3, <1>4, <1>5, <1>6, <1>7, <1>8, <1>9, <1>10, <1>11, <1>12,
     <1>13, <1>14, Zenon
     DEF Next, Download, Cleanup, EnqueueNewDomain
LEMMA LineType ==
  ASSUME ActorsType, PlaceInv, Next
  PROVE  line' \in Seq(Actor)
<1>1. ASSUME NEW a \in Actor, LineMove(a) PROVE line' \in Seq(Actor)
  <2>1. line' = line \/ line' = Append(line, a)
        \/ (line # <<>> /\ (line' = Tail(line) \/ line' = Append(Tail(line), a)))
    BY <1>1, Zenon DEF LineMove
  <2>2. line \in Seq(Actor) /\ Append(line, a) \in Seq(Actor)
    BY DEF ActorsType
  <2>3. line # <<>> => Tail(line) \in Seq(Actor) /\ Append(Tail(line), a) \in Seq(Actor)
    BY AppendProperties, HeadTailProperties DEF ActorsType
  <2> QED
    BY <2>1, <2>2, <2>3, Zenon
<1>2. ASSUME UNCHANGED <<line, at>> PROVE line' \in Seq(Actor)
  BY <1>2 DEF ActorsType
<1> QED
  BY <1>1, <1>2, LineStep

LEMMA AtType ==
  ASSUME ActorsType, PlaceInv, Next
  PROVE  at' \in [Actor -> Place]
<1>a. at \in [Actor -> Place]
  BY DEF ActorsType
<1>b. ASSUME NEW a, NEW p \in Place, Go(a, p) \/ Wait(a, p) \/ Pass(a, p)
      PROVE  at' \in [Actor -> Place]
  BY <1>a, <1>b DEF Go, Wait, Pass
<1>c. ASSUME NEW a, NEW l, Refuse(a, l) PROVE at' \in [Actor -> Place]
  BY <1>a, <1>c, Places DEF Refuse
<1>1. ASSUME NEW t \in Task,
             \/ TryEnqueue(t) \/ Select(t) \/ Sleep(t) \/ StartCrawl(t)
             \/ StartCrawlFails(t) \/ Fetch(t) \/ Complete(t)
      PROVE  at' \in [Actor -> Place]
  BY <1>1, <1>b, Places, Zenon
     DEF TryEnqueue, Select, Sleep, StartCrawl, StartCrawlFails, Fetch, Complete
<1>2. ASSUME NEW t \in Task, Report(t) \/ Punish(t) PROVE at' \in [Actor -> Place]
  BY <1>a, <1>2, Places DEF Report, Punish, StartCleanup
<1>3. ASSUME NEW c \in Cleaner, Cleanup(c) PROVE at' \in [Actor -> Place]
  <2>1. \/ Go(c, "pull") \/ Go(c, "none") \/ Go(c, "wait")
        \/ \E p \in {"none", "enter"} : at' = [at EXCEPT ![c] = p]
    BY <1>3 DEF Cleanup, StartCleaning, CleanupDomain, Leave
  <2> QED
    BY <1>a, <1>b, <2>1, Places
<1>4. ASSUME NEW a \in Enqueuer, EnqueueNewDomain(a) \/ QueryFails(a) \/ AcquireLock(a)
      PROVE  at' \in [Actor -> Place]
  <2>1. \/ Refuse(a, line) \/ Refuse(a, Tail(line)) \/ Pass(a, "exclude")
        \/ Go(a, "choose") \/ Go(a, "load") \/ Go(a, "warm") \/ Go(a, "pull")
        \/ Go(a, "none") \/ Go(a, "fetch") \/ Wait(a, "pop")
    BY <1>4 DEF EnqueueNewDomain, EnterEnqueue, GetExcludedDomains, GetDistinctDomains,
                GetDomainUrls, GetDomainReleaseTime, QueryFails, AcquireLock, Leave
  <2> QED
    BY <1>b, <1>c, <2>1, Places, Zenon
<1>5. CASE WaitForDrain \/ PollDrained \/ RequestDrained \/ DrainedBuckets
  BY <1>5, <1>b, Places, Zenon DEF WaitForDrain, PollDrained, RequestDrained, DrainedBuckets
<1>6. CASE \/ Drain \/ SetBuckets
           \/ \E u \in URL : RegisterUrl(u)
           \/ \E d \in Domain : ExcludedChanges(d) \/ Elapse(d)
  BY <1>a, <1>6 DEF Drain, SetBuckets, RegisterUrl, ExcludedChanges, Elapse
<1> QED
  BY <1>1, <1>2, <1>3, <1>4, <1>5, <1>6 DEF Next, Download

RefsType ==
  /\ url \in [Task -> URL \cup {NoURL}]
  /\ site \in [Enqueuer -> Domain \cup {NoDomain}]
  /\ held \in [Enqueuer -> LockObject \cup {NoLock}]

LEMMA ActorsStep ==
  ASSUME ActorsType, TablesType, PlaceInv, DOMAIN queues = DOMAIN locks, Next
  PROVE  ActorsType'
<1> USE DataAssumption
<1>a. RefsType
  BY DEF ActorsType, RefsType
<1>1. ASSUME NEW t \in Task, Select(t) PROVE RefsType'
  <2>1. PICK d \in DOMAIN queues : \E u \in queues[d] :
          /\ url' = [url EXCEPT ![t] = u] /\ site' = [site EXCEPT ![t] = d]
          /\ held' = [held EXCEPT ![t] = locks[d]] /\ Ready(d)
    BY <1>1 DEF Select
  <2>2. d \in Domain /\ queues[d] \subseteq URL
    BY DEF TablesType
  <2>3. locks[d] \in LockObject
    BY DEF TablesType
  <2> QED
    BY <1>a, <2>1, <2>2, <2>3 DEF RefsType
<1>2. ASSUME NEW t \in Task,
             \/ TryEnqueue(t) \/ Sleep(t) \/ StartCrawl(t)
             \/ StartCrawlFails(t) \/ Fetch(t) \/ Report(t) \/ Punish(t)
      PROVE  RefsType'
  BY <1>a, <1>2
     DEF TryEnqueue, Sleep, StartCrawl, StartCrawlFails, Fetch, Report, Punish, StartCleanup,
         Enqueuer, RefsType
<1>3. ASSUME NEW t \in Task, Complete(t) PROVE RefsType'
  BY <1>a, <1>3 DEF Complete, RefsType
<1>4. ASSUME NEW c \in Cleaner, StartCleaning(c) \/ CleanupDomain(c) PROVE RefsType'
  BY <1>a, <1>4 DEF StartCleaning, CleanupDomain, Leave, TablesType, RefsType
<1>5. ASSUME NEW a \in Enqueuer, EnqueueNewDomain(a) \/ QueryFails(a) \/ AcquireLock(a)
      PROVE  RefsType'
  <2>1. /\ UNCHANGED <<url, held>>
        /\ \/ UNCHANGED site
           \/ \E d \in Domain \cup {NoDomain} : site' = [site EXCEPT ![a] = d]
    BY <1>5 DEF EnqueueNewDomain, EnterEnqueue, GetExcludedDomains, GetDistinctDomains,
                GetDomainUrls, GetDomainReleaseTime, QueryFails, AcquireLock, Leave,
                Refuse, NewDomains
  <2> QED
    BY <1>a, <2>1 DEF RefsType
<1>6. ASSUME \/ Drain \/ SetBuckets
             \/ WaitForDrain \/ PollDrained \/ RequestDrained \/ DrainedBuckets
             \/ \E u \in URL : RegisterUrl(u)
             \/ \E d \in Domain : ExcludedChanges(d) \/ Elapse(d)
      PROVE  RefsType'
  <2>1. UNCHANGED <<url, site, held>>
    BY <1>6 DEF Drain, SetBuckets, RegisterUrl, ExcludedChanges, Elapse, WaitForDrain,
                PollDrained, RequestDrained, DrainedBuckets
  <2> QED
    BY <1>a, <2>1 DEF RefsType
<1>7. RefsType'
  BY <1>1, <1>2, <1>3, <1>4, <1>5, <1>6, Zenon DEF Next, Download, Cleanup
<1>8. line' \in Seq(Actor)
  BY LineType
<1>9. at' \in [Actor -> Place]
  BY AtType
<1> QED
  BY <1>7, <1>8, <1>9 DEF RefsType, ActorsType
LEMMA TablesStep ==
  ASSUME TablesType, RestType, PlaceInv, DOMAIN queues = DOMAIN locks, Next
  PROVE  TablesType'
<1> USE DataAssumption
<1>a. ASSUME UNCHANGED tables PROVE TablesType'
  BY <1>a DEF TablesType
<1>b. ASSUME NEW d \in Domain, NEW v \in {"due", "later"}, release' = Store(release, d, v)
      PROVE  DOMAIN release' \subseteq Domain /\ release' \in [DOMAIN release' -> {"due", "later"}]
  BY <1>b DEF TablesType, Store
<1>1. ASSUME NEW t \in Task, Select(t) PROVE TablesType'
  <2>1. PICK d \in DOMAIN queues : \E u \in queues[d] :
          /\ queues' = [queues EXCEPT ![d] = @ \ {u}]
          /\ release' = [release EXCEPT ![d] = "later"]
          /\ inFlight' = [inFlight EXCEPT ![BucketOf[d]] = @ + 1]
    BY <1>1 DEF Select
  <2>2. locks' = locks
    BY <1>1 DEF Select
  <2>3. d \in Domain /\ BucketOf[d] \in Bucket
    BY DEF TablesType
  <2>4. DOMAIN queues' = DOMAIN queues /\ queues' \in [DOMAIN queues -> SUBSET URL]
    BY <2>1 DEF TablesType
  <2>5. DOMAIN release' = DOMAIN release /\ release' \in [DOMAIN release -> {"due", "later"}]
    BY <2>1 DEF TablesType
  <2>6. inFlight' \in [Bucket -> Nat]
    BY <2>1, <2>3 DEF TablesType
  <2> QED
    BY <2>2, <2>4, <2>5, <2>6 DEF TablesType
<1>2. ASSUME NEW t \in Task, Report(t) \/ Punish(t) PROVE TablesType'
  <2>1. /\ UNCHANGED <<queues, locks, inFlight>>
        /\ release' = Store(release, site[t], "later") /\ site[t] \in Domain
    BY <1>2 DEF Report, Punish, Delay, PlaceInv
  <2> QED
    BY <1>b, <2>1 DEF TablesType
<1>3. ASSUME NEW t \in Task, Complete(t) PROVE TablesType'
  <2>1. /\ UNCHANGED <<queues, locks, release>>
        /\ \E b \in Bucket : inFlight' = [inFlight EXCEPT ![b] = IF @ <= 1 THEN 0 ELSE @ - 1]
    BY <1>3 DEF Complete, PlaceInv
  <2> QED
    BY <2>1 DEF TablesType
<1>4. ASSUME NEW c \in Cleaner, CleanupDomain(c) PROVE TablesType'
  BY <1>4 DEF CleanupDomain, TablesType, Remove
<1>5. ASSUME NEW a \in Enqueuer, GetDomainUrls(a) PROVE TablesType'
  <2>1. site[a] \in Domain
    BY <1>5 DEF GetDomainUrls, PlaceInv
  <2>2. ASSUME NEW S \in SUBSET URL, NEW l \in LockObject,
               queues' = Store(queues, site[a], S), locks' = Store(locks, site[a], l),
               UNCHANGED <<release, inFlight>>
        PROVE  TablesType'
    BY <2>1, <2>2 DEF Store, TablesType
  <2>3. \/ UNCHANGED tables
        \/ \E S \in SUBSET URL : \E l \in LockObject :
             /\ queues' = Store(queues, site[a], S) /\ locks' = Store(locks, site[a], l)
             /\ UNCHANGED <<release, inFlight>>
    <3>1. \A d \in DOMAIN locks : locks[d] \in LockObject
      BY DEF TablesType
    <3>2. \A S \in SUBSET Stored(site[a]) : S \in SUBSET URL /\ \A u \in S : {u} \in SUBSET URL
      BY DEF Stored, RestType
    <3> QED
      BY <1>5, <3>1, <3>2 DEF GetDomainUrls
  <2> QED
    BY <1>a, <2>2, <2>3
<1>6. ASSUME NEW a \in Enqueuer, GetDomainReleaseTime(a) PROVE TablesType'
  <2>1. /\ queues' = [queues EXCEPT ![site[a]] = @ \cup batch] /\ UNCHANGED <<locks, inFlight>>
        /\ release' = Store(release, site[a], "due") /\ site[a] \in Domain
    BY <1>6 DEF GetDomainReleaseTime, PlaceInv
  <2> QED
    BY <1>b, <2>1 DEF TablesType, RestType
<1>7. ASSUME NEW d \in Domain, Elapse(d) PROVE TablesType'
  BY <1>7 DEF Elapse, TablesType
<1>8. ASSUME NEW t \in Task,
             \/ TryEnqueue(t) \/ Sleep(t) \/ StartCrawl(t) \/ StartCrawlFails(t) \/ Fetch(t)
      PROVE  UNCHANGED tables
  BY <1>8 DEF TryEnqueue, Sleep, StartCrawl, StartCrawlFails, Fetch
<1>9. ASSUME NEW a \in Enqueuer,
             \/ EnterEnqueue(a) \/ GetExcludedDomains(a) \/ GetDistinctDomains(a)
             \/ QueryFails(a) \/ AcquireLock(a)
      PROVE  UNCHANGED tables
  BY <1>9 DEF EnterEnqueue, GetExcludedDomains, GetDistinctDomains, QueryFails, AcquireLock
<1>10. ASSUME NEW c \in Cleaner, StartCleaning(c) PROVE UNCHANGED tables
  BY <1>10 DEF StartCleaning
<1>11. ASSUME \/ Drain \/ SetBuckets \/ WaitForDrain \/ PollDrained \/ RequestDrained
              \/ DrainedBuckets
              \/ \E u \in URL : RegisterUrl(u)
              \/ \E d \in Domain : ExcludedChanges(d)
       PROVE  UNCHANGED tables
  BY <1>11 DEF Drain, SetBuckets, WaitForDrain, PollDrained, RequestDrained, DrainedBuckets,
               RegisterUrl, ExcludedChanges
<1> QED
  BY <1>a, <1>1, <1>2, <1>3, <1>4, <1>5, <1>6, <1>7, <1>8, <1>9, <1>10, <1>11, Zenon
     DEF Next, Download, Cleanup, EnqueueNewDomain

LEMMA RestStep ==
  ASSUME ActorsType, RestType, PlaceInv, Next
  PROVE  RestType'
<1> USE DataAssumption
<1>1. ASSUME NEW t \in Task, Download(t) \/ StartCrawlFails(t) PROVE RestType'
  <2>1. at[t] \in {"report", "punish"} => site[t] \in Domain
    BY DEF PlaceInv
  <2>2. UNCHANGED <<admitted, ceding, scratch, unseen, attested>>
    BY <1>1 DEF Download, TryEnqueue, Select, Sleep, StartCrawl, StartCrawlFails, Fetch,
                Report, Punish, Delay, Complete
  <2>3. pending' \in SUBSET pending
    BY <1>1 DEF Download, TryEnqueue, Select, Sleep, StartCrawl, StartCrawlFails, Fetch,
                Report, Punish, Complete
  <2>4. excluded' \in SUBSET Domain
    BY <1>1, <2>1 DEF Download, TryEnqueue, Select, Sleep, StartCrawl, StartCrawlFails, Fetch,
                      Report, Punish, Complete, RestType
  <2>5. events' = events \/ Spend("error")
    BY <1>1 DEF Download, TryEnqueue, Select, Sleep, StartCrawl, StartCrawlFails, Fetch,
                Report, Punish, Complete
  <2>6. events' \in [Event -> Nat]
    BY <2>5 DEF Spend, RestType
  <2> QED
    BY <2>2, <2>3, <2>4, <2>6 DEF RestType
<1>2. ASSUME NEW c \in Cleaner, Cleanup(c) PROVE RestType'
  BY <1>2 DEF Cleanup, StartCleaning, CleanupDomain, RestType
<1>3. ASSUME NEW a \in Enqueuer, EnqueueNewDomain(a) \/ QueryFails(a) \/ AcquireLock(a)
      PROVE  RestType'
  <2>1. UNCHANGED <<admitted, ceding, database, attested>>
    BY <1>3 DEF EnqueueNewDomain, EnterEnqueue, GetExcludedDomains, GetDistinctDomains,
                GetDomainUrls, GetDomainReleaseTime, QueryFails, AcquireLock
  <2>2. banned' \in SUBSET Domain /\ fetchable' \in SUBSET Bucket
    BY <1>3 DEF EnqueueNewDomain, EnterEnqueue, GetExcludedDomains, GetDistinctDomains,
                GetDomainUrls, GetDomainReleaseTime, QueryFails, AcquireLock, RestType
  <2>3. batch' \in SUBSET URL
    BY <1>3 DEF EnqueueNewDomain, EnterEnqueue, GetExcludedDomains, GetDistinctDomains,
                GetDomainUrls, GetDomainReleaseTime, QueryFails, AcquireLock, Stored, RestType
  <2>4. events' = events \/ Spend("error")
    BY <1>3 DEF EnqueueNewDomain, EnterEnqueue, GetExcludedDomains, GetDistinctDomains,
                GetDomainUrls, GetDomainReleaseTime, QueryFails, AcquireLock
  <2>5. events' \in [Event -> Nat]
    BY <2>4 DEF Spend, RestType
  <2> QED
    BY <2>1, <2>2, <2>3, <2>5 DEF RestType
<1>4. ASSUME \/ Drain \/ WaitForDrain \/ PollDrained \/ RequestDrained \/ DrainedBuckets
             \/ SetBuckets
      PROVE  RestType'
  BY <1>4 DEF Drain, WaitForDrain, PollDrained, RequestDrained, DrainedBuckets, SetBuckets,
              Spend, RestType
<1>5. ASSUME NEW u \in URL, RegisterUrl(u) PROVE RestType'
  BY <1>5 DEF RegisterUrl, RestType
<1>6. ASSUME NEW d \in Domain, ExcludedChanges(d) \/ Elapse(d) PROVE RestType'
  BY <1>6 DEF ExcludedChanges, Elapse, Spend, RestType
<1> QED
  BY <1>1, <1>2, <1>3, <1>4, <1>5, <1>6, Zenon DEF Next

LEMMA TypeStep ==
  ASSUME TypeOK, PlaceInv, DOMAIN queues = DOMAIN locks, [Next]_vars
  PROVE  TypeOK'
<1>1. CASE UNCHANGED vars
  <2>1. UNCHANGED <<tables, policy, actors, scratch, database, ghosts, events>>
    BY <1>1 DEF vars
  <2> QED
    BY <2>1, Zenon DEF TypeOK
<1>2. CASE Next
  <2>1. TablesType' /\ ActorsType' /\ RestType'
    BY <1>2, TypeParts, TablesStep, ActorsStep, RestStep
  <2> QED
    BY <2>1, FlagStep, TypePartsNext
<1> QED
  BY <1>1, <1>2
-----------------------------------------------------------------------------
(***************************************************************************)
(* Where the actors are.                                                   *)
(***************************************************************************)
LEMMA PlaceInit == Init => PlaceInv
<1> SUFFICES ASSUME Init PROVE PlaceInv
  OBVIOUS
<1>1. /\ \A t \in Task : at[t] = "pull" /\ url[t] = NoURL /\ held[t] = NoLock
      /\ \A a \in Actor \ Task : at[a] = "none"
  BY DEF Init, Actor, Enqueuer
<1> QED
  BY <1>1, TaskAssumption DEF PlaceInv, Actor, Enqueuer

LEMMA PlaceStep ==
  ASSUME ActorsType, TablesType, RestType, PlaceInv, TableInv, Next
  PROVE  PlaceInv'
<1> USE TaskAssumption, DataAssumption
<1>1. ASSUME NEW t \in Task,
             TryEnqueue(t) \/ Sleep(t) \/ StartCrawl(t) \/ StartCrawlFails(t) \/ Fetch(t)
      PROVE  PlaceInv'
  <2>1. /\ UNCHANGED <<url, site, held>>
        /\ \A b \in Actor \ {t} : at'[b] = at[b]
        /\ at[t] \in InHand <=> at'[t] \in InHand
        /\ at'[t] \in {"pull", "scan", "enter"} \cup InHand
    BY <1>1 DEF TryEnqueue, Sleep, StartCrawl, StartCrawlFails, Fetch, Go, Wait, Pass,
                ActorsType, Actor, Enqueuer
  <2> QED
    BY <2>1 DEF PlaceInv, Actor, Enqueuer
<1>2. ASSUME NEW t \in Task, Select(t) PROVE PlaceInv'
  <2>1. PICK d \in DOMAIN queues : \E u \in queues[d] :
          /\ url' = [url EXCEPT ![t] = u] /\ site' = [site EXCEPT ![t] = d]
          /\ held' = [held EXCEPT ![t] = locks[d]]
    BY <1>2 DEF Select
  <2>2. locks[d] \in LockObject /\ \A u \in queues[d] : u \in URL /\ DomainOf[u] = d
    BY DEF TablesType, TableInv
  <2>3. /\ url'[t] \in URL /\ site'[t] = DomainOf[url'[t]] /\ held'[t] \in LockObject
        /\ \A s \in Task \ {t} : url'[s] = url[s]
        /\ \A b \in Enqueuer \ {t} : site'[b] = site[b] /\ held'[b] = held[b]
    BY <2>1, <2>2 DEF ActorsType, Enqueuer
  <2>4. at'[t] = "start" /\ \A b \in Actor \ {t} : at'[b] = at[b]
    BY <1>2 DEF Select, Pass, ActorsType, Actor, Enqueuer
  <2> QED
    BY <2>3, <2>4 DEF PlaceInv, Actor, Enqueuer
<1>3. ASSUME NEW t \in Task, Report(t) \/ Punish(t) PROVE PlaceInv'
  <2>1. /\ UNCHANGED <<url, held>>
        /\ at[t] \in {"report", "punish"}
        /\ \/ UNCHANGED site /\ at' = [at EXCEPT ![t] = "complete"]
           \/ \E c \in Cleaner : /\ at[c] = "none"
                                 /\ at' = [at EXCEPT ![t] = "complete", ![c] = "clean"]
                                 /\ site' = [site EXCEPT ![c] = site[t]]
    BY <1>3 DEF Report, Punish, StartCleanup
  <2>2. site[t] \in Domain
    BY <2>1 DEF PlaceInv
  <2> QED
    BY <2>1, <2>2 DEF PlaceInv, ActorsType, Actor, Enqueuer
<1>4. ASSUME NEW t \in Task, Complete(t) PROVE PlaceInv'
  <2>1. /\ at'[t] = "pull" /\ url'[t] = NoURL /\ held'[t] = NoLock
        /\ \A b \in Actor \ {t} : at'[b] = at[b]
        /\ \A s \in Task \ {t} : url'[s] = url[s]
        /\ \A b \in Enqueuer \ {t} : site'[b] = site[b] /\ held'[b] = held[b]
    BY <1>4 DEF Complete, Pass, ActorsType, Actor, Enqueuer
  <2> QED
    BY <2>1 DEF PlaceInv, Actor, Enqueuer
<1>5. ASSUME NEW c \in Cleaner, StartCleaning(c) PROVE PlaceInv'
  <2>1. \A l \in DOMAIN locks : locks[l] \in LockObject
    BY DEF TablesType
  <2> QED
    BY <1>5, <2>1 DEF StartCleaning, Leave, Go, PlaceInv, ActorsType, Actor, Enqueuer
<1>6. ASSUME NEW c \in Cleaner, CleanupDomain(c) PROVE PlaceInv'
  <2>1. /\ at'[c] \in {"none", "enter"} /\ UNCHANGED url
        /\ \A b \in Actor \ {c} : at'[b] = at[b]
        /\ \A b \in Enqueuer \ {c} : site'[b] = site[b] /\ held'[b] = held[b]
    BY <1>6 DEF CleanupDomain, ActorsType, Actor, Enqueuer
  <2> QED
    BY <2>1 DEF PlaceInv, Actor, Enqueuer
<1>7. ASSUME NEW a \in Enqueuer,
             \/ EnterEnqueue(a) \/ GetExcludedDomains(a) \/ GetDistinctDomains(a)
             \/ GetDomainUrls(a) \/ GetDomainReleaseTime(a) \/ QueryFails(a)
      PROVE  PlaceInv'
  <2>1. /\ UNCHANGED <<url, held>>
        /\ at[a] \in {"enter"} \cup Locked
        /\ at'[a] \in Locked \cup (IF a \in Task THEN {"pull", "scan"} ELSE {"none"})
        /\ \A b \in Actor \ {a} : at'[b] = at[b]
        /\ \A b \in Enqueuer \ {a} : site'[b] = site[b]
    BY <1>7 DEF EnterEnqueue, GetExcludedDomains, GetDistinctDomains, GetDomainUrls,
                GetDomainReleaseTime, QueryFails, Refuse, Leave, Go, Pass, ActorsType,
                Actor, Enqueuer
  <2>2. CASE GetDistinctDomains(a)
    <3>1. at'[a] = "load" => site'[a] \in Domain
      BY <2>2 DEF GetDistinctDomains, NewDomains, Refuse, Go, ActorsType, Actor, Enqueuer
    <3>2. at'[a] # "warm"
      BY <2>2 DEF GetDistinctDomains, Refuse, Go, ActorsType, Actor, Enqueuer
    <3> QED
      BY <2>1, <3>1, <3>2 DEF PlaceInv, Actor, Enqueuer
  <2>3. CASE GetDomainUrls(a)
    <3>0. Refuse(a, line) \/ Leave(a) \/ (Go(a, "warm") /\ UNCHANGED site)
      BY <2>3, Zenon DEF GetDomainUrls
    <3>1. at'[a] # "load" /\ (at'[a] = "warm" => site'[a] = site[a] /\ site[a] \in Domain)
      BY <2>3, <3>0 DEF GetDomainUrls, Refuse, Leave, Go, PlaceInv, ActorsType, Actor, Enqueuer
    <3> QED
      BY <2>1, <3>1 DEF PlaceInv, Actor, Enqueuer
  <2>4. CASE EnterEnqueue(a) \/ GetExcludedDomains(a) \/ GetDomainReleaseTime(a) \/ QueryFails(a)
    <3>1. at'[a] \notin {"load", "warm"}
      BY <2>4 DEF EnterEnqueue, GetExcludedDomains, GetDomainReleaseTime, QueryFails, Refuse,
                  Leave, Go, Pass, ActorsType, Actor, Enqueuer
    <3> QED
      BY <2>1, <3>1 DEF PlaceInv, Actor, Enqueuer
  <2> QED
    BY <1>7, <2>2, <2>3, <2>4
<1>8. ASSUME NEW a \in Enqueuer, AcquireLock(a) PROVE PlaceInv'
  <2>1. /\ UNCHANGED <<url, site, held>> /\ at[a] = "wait"
        /\ at'[a] = IF a \in Task THEN "fetch" ELSE "pop"
        /\ \A b \in Actor \ {a} : at'[b] = at[b]
    BY <1>8 DEF AcquireLock, Go, Wait, ActorsType, Actor, Enqueuer
  <2> QED
    BY <2>1 DEF PlaceInv, Actor, Enqueuer
<1>9. ASSUME WaitForDrain \/ PollDrained \/ RequestDrained \/ DrainedBuckets
      PROVE  PlaceInv'
  <2>1. /\ UNCHANGED <<url, site, held>>
        /\ at'[Drainer] \in {at[Drainer], "none", "poll", "done"}
        /\ at'[Attester] \in {at[Attester], "none", "poll"}
        /\ \A b \in Enqueuer : at'[b] = at[b]
    BY <1>9 DEF WaitForDrain, PollDrained, RequestDrained, DrainedBuckets, Wait, Pass,
                ActorsType, Actor, Drainer, Attester
  <2> QED
    BY <2>1 DEF PlaceInv, Enqueuer
<1>10. ASSUME \/ Drain \/ SetBuckets
              \/ \E u \in URL : RegisterUrl(u)
              \/ \E d \in Domain : ExcludedChanges(d) \/ Elapse(d)
       PROVE  PlaceInv'
  <2>1. UNCHANGED <<at, url, site, held>>
    BY <1>10 DEF Drain, SetBuckets, RegisterUrl, ExcludedChanges, Elapse
  <2> QED
    BY <2>1 DEF PlaceInv
<1> QED
  BY <1>1, <1>2, <1>3, <1>4, <1>5, <1>6, <1>7, <1>8, <1>9, <1>10, Zenon
     DEF Next, Download, Cleanup, EnqueueNewDomain
-----------------------------------------------------------------------------
(***************************************************************************)
(* The dictionaries.                                                       *)
(***************************************************************************)
LEMMA TableInit == Init => TableInv
<1> SUFFICES ASSUME Init PROVE TableInv
  OBVIOUS
<1>1. DOMAIN queues = {} /\ DOMAIN locks = {}
  BY DEF Init
<1>2. \A a \in Enqueuer : at[a] \notin Locked
  BY DEF Init, Actor, Enqueuer
<1>3. Cardinality(DOMAIN queues) <= MaxActiveDomains
  BY <1>1, FS_EmptySet, LimitAssumption
<1> QED
  BY <1>1, <1>2, <1>3 DEF TableInv

\* The keys are few.
LEMMA KeysFinite ==
  ASSUME TablesType
  PROVE  IsFiniteSet(DOMAIN queues) /\ Cardinality(DOMAIN queues) \in Nat
BY LimitAssumption, FS_Subset, FS_CardinalityType DEF TablesType

\* A step that only takes URLs out of the queues, and lets nobody have the lock.
LEMMA TableQuiet ==
  ASSUME TableInv, UNCHANGED <<locks, batch>>,
         DOMAIN queues' = DOMAIN queues,
         \A d \in DOMAIN queues : queues'[d] \subseteq queues[d],
         DOMAIN release \subseteq DOMAIN release',
         \A a \in Enqueuer :
           at[a] = "warm" \/ at'[a] \in Locked => at'[a] = at[a] /\ site'[a] = site[a]
  PROVE  TableInv'
BY DEF TableInv

LEMMA TableStep ==
  ASSUME ActorsType, TablesType, PlaceInv, TableInv, Next
  PROVE  TableInv'
<1> USE TaskAssumption
<1>1. ASSUME NEW t \in Task,
             \/ TryEnqueue(t) \/ Sleep(t) \/ StartCrawl(t) \/ StartCrawlFails(t)
             \/ Fetch(t)
      PROVE  TableInv'
  <2>1. /\ UNCHANGED <<tables, batch, site>> /\ at[t] \notin Locked /\ at'[t] \notin Locked
        /\ \A b \in Enqueuer \ {t} : at'[b] = at[b]
    BY <1>1 DEF TryEnqueue, Sleep, StartCrawl, StartCrawlFails, Fetch, Go, Wait, Pass,
                ActorsType, Actor, Enqueuer
  <2> QED
    BY <2>1, TableQuiet
<1>2. ASSUME NEW t \in Task, Select(t) PROVE TableInv'
  <2>1. PICK d \in DOMAIN queues : \E u \in queues[d] :
          /\ queues' = [queues EXCEPT ![d] = @ \ {u}]
          /\ release' = [release EXCEPT ![d] = "later"]
          /\ site' = [site EXCEPT ![t] = d]
    BY <1>2 DEF Select
  <2>2. /\ DOMAIN queues' = DOMAIN queues /\ DOMAIN release' = DOMAIN release
        /\ \A e \in DOMAIN queues : queues'[e] \subseteq queues[e]
        /\ \A b \in Enqueuer \ {t} : site'[b] = site[b]
    BY <2>1 DEF TablesType, ActorsType
  <2>3. /\ UNCHANGED <<locks, batch>> /\ at[t] \notin Locked /\ at'[t] \notin Locked
        /\ \A b \in Enqueuer \ {t} : at'[b] = at[b]
    BY <1>2 DEF Select, Pass, ActorsType, Actor, Enqueuer
  <2> QED
    BY <2>2, <2>3, TableQuiet
<1>3. ASSUME NEW t \in Task, Report(t) \/ Punish(t) PROVE TableInv'
  <2>1. /\ UNCHANGED <<queues, locks, batch>>
        /\ DOMAIN release \subseteq DOMAIN release'
    BY <1>3 DEF Report, Punish, Delay, Store
  <2>2. \A b \in Enqueuer :
           \/ at'[b] = at[b] /\ site'[b] = site[b]
           \/ at[b] \notin Locked /\ at'[b] \notin Locked
    BY <1>3 DEF Report, Punish, StartCleanup, ActorsType, Actor, Enqueuer
  <2> QED
    BY <2>1, <2>2, TableQuiet
<1>4. ASSUME NEW t \in Task, Complete(t) PROVE TableInv'
  <2>1. /\ UNCHANGED <<queues, locks, release, batch>>
        /\ at[t] \notin Locked /\ at'[t] \notin Locked
        /\ \A b \in Enqueuer \ {t} : at'[b] = at[b] /\ site'[b] = site[b]
    BY <1>4 DEF Complete, Pass, ActorsType, Actor, Enqueuer
  <2> QED
    BY <2>1, TableQuiet
<1>5. ASSUME NEW a \in Enqueuer, AcquireLock(a) \/ StartCleaning(a) PROVE TableInv'
  <2>1. /\ UNCHANGED <<tables, batch>>
        /\ at[a] \notin Locked /\ at'[a] \notin Locked
        /\ \A b \in Enqueuer \ {a} : at'[b] = at[b] /\ site'[b] = site[b]
    BY <1>5 DEF AcquireLock, StartCleaning, Leave, Go, Wait, ActorsType, Actor, Enqueuer
  <2> QED
    BY <2>1, TableQuiet
<1>6. ASSUME NEW c \in Cleaner, CleanupDomain(c) PROVE TableInv'
  <2>1. \A a \in Enqueuer : at[a] \notin Locked /\ at'[a] \notin Locked
    BY <1>6 DEF CleanupDomain, Turn, Free, ActorsType, Actor, Enqueuer
  <2>2. /\ DOMAIN queues' = DOMAIN queues \ {site[c]}
        /\ DOMAIN locks' = DOMAIN locks \ {site[c]}
        /\ DOMAIN release' = DOMAIN release \ {site[c]}
        /\ \A d \in DOMAIN queues' : queues'[d] = queues[d]
    BY <1>6 DEF CleanupDomain, Remove
  <2>3. Cardinality(DOMAIN queues') <= MaxActiveDomains
    BY <2>2, KeysFinite, FS_Subset, FS_CardinalityType, LimitAssumption DEF TableInv
  <2> QED
    BY <2>1, <2>2, <2>3 DEF TableInv
<1>7. ASSUME NEW a \in Enqueuer, EnterEnqueue(a) PROVE TableInv'
  <2>1. /\ UNCHANGED tables /\ \A b \in Enqueuer : at[b] \notin Locked
        /\ \A b \in Enqueuer \ {a} : at'[b] = at[b]
        /\ at'[a] \in Locked => /\ at'[a] = "exclude"
                                /\ ~(Cardinality(DOMAIN queues) >= MaxActiveDomains)
    BY <1>7 DEF EnterEnqueue, Refuse, Pass, Turn, Free, ActorsType, Actor, Enqueuer
  <2>2. at'[a] \in Locked => Cardinality(DOMAIN queues) < MaxActiveDomains
    BY <2>1, KeysFinite, LimitAssumption
  <2> QED
    BY <2>1, <2>2 DEF TableInv
<1>8. ASSUME NEW a \in Enqueuer,
             GetExcludedDomains(a) \/ GetDistinctDomains(a) \/ QueryFails(a)
      PROVE  TableInv'
  <2>1. /\ UNCHANGED <<tables, batch>> /\ at[a] \in {"exclude", "choose", "load"}
        /\ \A b \in Enqueuer \ {a} : at'[b] = at[b] /\ site'[b] = site[b]
        /\ at'[a] \in Locked => /\ at'[a] \in {"choose", "load"}
                                /\ at'[a] = "load" => site'[a] \notin DOMAIN queues
    BY <1>8 DEF GetExcludedDomains, GetDistinctDomains, NewDomains, QueryFails, Refuse, Leave,
                Go, ActorsType, Actor, Enqueuer
  <2> QED
    BY <2>1 DEF TableInv
<1>9. ASSUME NEW a \in Enqueuer, GetDomainUrls(a) PROVE TableInv'
  <2>1. /\ at[a] = "load" /\ \A b \in Enqueuer \ {a} : at'[b] = at[b] /\ site'[b] = site[b]
    BY <1>9 DEF GetDomainUrls, Refuse, Leave, Go, ActorsType, Actor, Enqueuer
  <2>2. \A b \in Enqueuer \ {a} : at[b] \notin Locked
    BY <2>1 DEF TableInv
  <2>3. CASE UNCHANGED <<tables, batch>> /\ at'[a] \notin Locked
    BY <2>1, <2>2, <2>3 DEF TableInv
  <2>4. ASSUME NEW S \in SUBSET Stored(site[a]), NEW u \in S, NEW l,
               locks' = Store(locks, site[a], l), release' = release,
               \/ /\ site[a] \in DOMAIN release /\ at'[a] \notin Locked
                  /\ queues' = Store(queues, site[a], S)
               \/ /\ at'[a] = "warm" /\ site'[a] = site[a] /\ batch' = S \ {u}
                  /\ queues' = Store(queues, site[a], {u})
        PROVE  TableInv'
    <3>1. \A v \in S : DomainOf[v] = site[a]
      BY DEF Stored
    <3>2. /\ DOMAIN queues' = DOMAIN queues \cup {site[a]}
          /\ DOMAIN locks' = DOMAIN locks \cup {site[a]}
          /\ \A d \in DOMAIN queues : d # site[a] => queues'[d] = queues[d]
          /\ queues'[site[a]] \subseteq S
      BY <2>4 DEF Store
    <3>3. Cardinality(DOMAIN queues') <= MaxActiveDomains
      <4>1. Cardinality(DOMAIN queues) < MaxActiveDomains
        BY <2>1 DEF TableInv
      <4>2. Cardinality(DOMAIN queues') \in {Cardinality(DOMAIN queues), Cardinality(DOMAIN queues) + 1}
        BY <3>2, KeysFinite, FS_AddElement
      <4> QED
        BY <4>1, <4>2, KeysFinite, LimitAssumption
    <3>4. \A d \in DOMAIN queues' \ DOMAIN release' :
            \E b \in Enqueuer : at'[b] = "warm" /\ site'[b] = d
      BY <2>1, <2>2, <2>4, <3>2 DEF TableInv
    <3>5. \A d \in DOMAIN queues' : \A v \in queues'[d] : DomainOf[v] = d
      BY <3>1, <3>2 DEF TableInv
    <3>6. at'[a] \in Locked =>
            at'[a] = "warm" /\ site'[a] = site[a] /\ \A v \in batch' : DomainOf[v] = site[a]
      BY <2>4, <3>1
    <3>7. DOMAIN queues' = DOMAIN locks'
      BY <3>2 DEF TableInv
    <3> QED
      BY <2>1, <2>2, <3>2, <3>3, <3>4, <3>5, <3>6, <3>7 DEF TableInv
  <2>5. \/ UNCHANGED <<tables, batch>> /\ at'[a] \notin Locked
        \/ \E S \in SUBSET Stored(site[a]) : \E u \in S : \E l :
             /\ locks' = Store(locks, site[a], l) /\ release' = release
             /\ \/ /\ site[a] \in DOMAIN release /\ at'[a] \notin Locked
                   /\ queues' = Store(queues, site[a], S)
                \/ /\ at'[a] = "warm" /\ site'[a] = site[a] /\ batch' = S \ {u}
                   /\ queues' = Store(queues, site[a], {u})
    <3>1. Refuse(a, line) \/ Leave(a) => at'[a] \notin Locked
      BY DEF Refuse, Leave, Go, ActorsType, Actor
    <3>2. Go(a, "warm") => at'[a] = "warm"
      BY DEF Go, ActorsType, Actor
    <3> QED
      BY <1>9, <3>1, <3>2, Zenon DEF GetDomainUrls
  <2> QED
    BY <2>3, <2>4, <2>5
<1>10. ASSUME NEW a \in Enqueuer, GetDomainReleaseTime(a) PROVE TableInv'
  <2>1. /\ at[a] = "warm" /\ at'[a] \notin Locked /\ locks' = locks /\ batch' = {}
        /\ \A b \in Enqueuer \ {a} : at'[b] = at[b] /\ site'[b] = site[b]
        /\ queues' = [queues EXCEPT ![site[a]] = @ \cup batch]
        /\ DOMAIN release' = DOMAIN release \cup {site[a]}
    BY <1>10 DEF GetDomainReleaseTime, Leave, Go, ActorsType, Actor, Enqueuer, Store
  <2>2. /\ \A b \in Enqueuer \ {a} : at[b] \notin Locked
        /\ site[a] \in DOMAIN queues /\ \A u \in batch : DomainOf[u] = site[a]
    BY <2>1 DEF TableInv
  <2>3. /\ DOMAIN queues' = DOMAIN queues /\ queues'[site[a]] = queues[site[a]] \cup batch
        /\ \A d \in DOMAIN queues : d # site[a] => queues'[d] = queues[d]
    BY <2>1, <2>2 DEF TablesType
  <2> QED
    BY <2>1, <2>2, <2>3 DEF TableInv
<1>11. ASSUME \/ Drain \/ SetBuckets \/ WaitForDrain \/ PollDrained \/ RequestDrained
              \/ DrainedBuckets
              \/ \E u \in URL : RegisterUrl(u)
              \/ \E d \in Domain : ExcludedChanges(d) \/ Elapse(d)
       PROVE  TableInv'
  <2>1. /\ UNCHANGED <<queues, locks, batch, site>> /\ DOMAIN release' = DOMAIN release
        /\ \A b \in Enqueuer : at'[b] = at[b]
    BY <1>11 DEF Drain, SetBuckets, WaitForDrain, PollDrained, RequestDrained, DrainedBuckets,
                 RegisterUrl, ExcludedChanges, Elapse, Wait, Pass, ActorsType, Actor
  <2> QED
    BY <2>1, TableQuiet
<1> QED
  BY <1>1, <1>2, <1>3, <1>4, <1>5, <1>6, <1>7, <1>8, <1>9, <1>10, <1>11, Zenon
     DEF Next, Download, Cleanup, EnqueueNewDomain, Enqueuer
-----------------------------------------------------------------------------
(***************************************************************************)
(* The in-flight counts.                                                   *)
(***************************************************************************)
LEMMA HoldersFinite ==
  ASSUME NEW b
  PROVE  IsFiniteSet(Holders(b)) /\ Cardinality(Holders(b)) \in Nat
<1>1. Holders(b) \in SUBSET Task
  BY DEF Holders
<1> QED
  BY <1>1, TaskAssumption, FS_Subset, FS_CardinalityType

LEMMA CountsInit == Init => CountsExact
<1> SUFFICES ASSUME Init, NEW b \in Bucket PROVE inFlight[b] = Cardinality(Holders(b))
  BY DEF CountsExact
<1>1. inFlight[b] = 0 /\ Holders(b) = {}
  BY DEF Init, Holders
<1> QED
  BY <1>1, FS_EmptySet

LEMMA CountsQuiet ==
  ASSUME CountsExact, UNCHANGED <<inFlight, url>>
  PROVE  CountsExact'
BY DEF CountsExact, Holders

LEMMA CountsStep ==
  ASSUME ActorsType, TablesType, PlaceInv, TableInv, CountsExact, Next
  PROVE  CountsExact'
<1> USE DataAssumption
<1>1. ASSUME NEW t \in Task, Select(t) PROVE CountsExact'
  <2>1. PICK d \in DOMAIN queues : \E u \in queues[d] :
          /\ inFlight' = [inFlight EXCEPT ![BucketOf[d]] = @ + 1]
          /\ url' = [url EXCEPT ![t] = u]
    BY <1>1 DEF Select
  <2>2. d \in Domain /\ \A u \in queues[d] : u \in URL /\ DomainOf[u] = d
    BY DEF TablesType, TableInv
  <2>3. url[t] = NoURL
    BY <1>1 DEF Select, PlaceInv
  <2>4. /\ url'[t] \in URL /\ DomainOf[url'[t]] = d
        /\ \A s \in Task \ {t} : url'[s] = url[s]
    BY <2>1, <2>2 DEF ActorsType
  <2> SUFFICES ASSUME NEW b \in Bucket PROVE inFlight'[b] = Cardinality(Holders(b)')
    BY DEF CountsExact
  <2>5. t \notin Holders(b)
    BY <2>3 DEF Holders
  <2>6. CASE b = BucketOf[d]
    <3>1. Holders(b)' = Holders(b) \cup {t}
      BY <2>4, <2>6 DEF Holders
    <3>2. Cardinality(Holders(b)') = Cardinality(Holders(b)) + 1
      BY <2>5, <3>1, HoldersFinite, FS_AddElement
    <3> QED
      BY <2>1, <2>6, <3>2 DEF CountsExact, TablesType
  <2>7. CASE b # BucketOf[d]
    <3>1. Holders(b)' = Holders(b)
      BY <2>3, <2>4, <2>7 DEF Holders
    <3> QED
      BY <2>1, <2>7, <3>1 DEF CountsExact, TablesType
  <2> QED
    BY <2>6, <2>7
<1>2. ASSUME NEW t \in Task, Complete(t) PROVE CountsExact'
  <2>1. /\ url[t] \in URL /\ site[t] = DomainOf[url[t]]
    BY <1>2 DEF Complete, PlaceInv
  <2>2. /\ inFlight' = [inFlight EXCEPT ![BucketOf[site[t]]] = IF @ <= 1 THEN 0 ELSE @ - 1]
        /\ url'[t] = NoURL
        /\ \A s \in Task \ {t} : url'[s] = url[s]
    BY <1>2 DEF Complete, ActorsType
  <2> SUFFICES ASSUME NEW b \in Bucket PROVE inFlight'[b] = Cardinality(Holders(b)')
    BY DEF CountsExact
  <2>3. CASE b = BucketOf[site[t]]
    <3>1. t \in Holders(b) /\ Holders(b)' = Holders(b) \ {t}
      BY <2>1, <2>2, <2>3 DEF Holders
    <3>2. Cardinality(Holders(b)') = Cardinality(Holders(b)) - 1
      BY <3>1, HoldersFinite, FS_RemoveElement
    <3>3. Cardinality(Holders(b)') \in Nat
      BY <3>1, HoldersFinite, FS_RemoveElement, FS_CardinalityType
    <3>4. inFlight[b] = Cardinality(Holders(b)) /\ inFlight[b] \in Nat
      BY DEF CountsExact, TablesType
    <3>5. inFlight'[b] = IF inFlight[b] <= 1 THEN 0 ELSE inFlight[b] - 1
      BY <2>2, <2>3 DEF TablesType
    <3> QED
      BY <3>2, <3>3, <3>4, <3>5
  <2>4. CASE b # BucketOf[site[t]]
    <3>1. Holders(b)' = Holders(b)
      BY <2>1, <2>2, <2>4 DEF Holders
    <3> QED
      BY <2>2, <2>4, <3>1 DEF CountsExact, TablesType
  <2> QED
    BY <2>3, <2>4
<1>3. ASSUME NEW t \in Task,
             \/ TryEnqueue(t) \/ Sleep(t) \/ StartCrawl(t) \/ StartCrawlFails(t)
             \/ Fetch(t) \/ Report(t) \/ Punish(t)
      PROVE  UNCHANGED <<inFlight, url>>
  BY <1>3 DEF TryEnqueue, Sleep, StartCrawl, StartCrawlFails, Fetch, Report, Punish, Delay
<1>4. ASSUME NEW a \in Enqueuer, EnqueueNewDomain(a) \/ QueryFails(a) \/ AcquireLock(a)
      PROVE  UNCHANGED <<inFlight, url>>
  BY <1>4 DEF EnqueueNewDomain, EnterEnqueue, GetExcludedDomains, GetDistinctDomains,
              GetDomainUrls, GetDomainReleaseTime, QueryFails, AcquireLock
<1>5. ASSUME NEW c \in Cleaner, Cleanup(c) PROVE UNCHANGED <<inFlight, url>>
  BY <1>5 DEF Cleanup, StartCleaning, CleanupDomain
<1>6. ASSUME \/ Drain \/ SetBuckets \/ WaitForDrain \/ PollDrained \/ RequestDrained
             \/ DrainedBuckets
             \/ \E u \in URL : RegisterUrl(u)
             \/ \E d \in Domain : ExcludedChanges(d) \/ Elapse(d)
       PROVE  UNCHANGED <<inFlight, url>>
  BY <1>6 DEF Drain, SetBuckets, WaitForDrain, PollDrained, RequestDrained, DrainedBuckets,
              RegisterUrl, ExcludedChanges, Elapse
<1> QED
  BY <1>1, <1>2, <1>3, <1>4, <1>5, <1>6, CountsQuiet, Zenon DEF Next, Download

-----------------------------------------------------------------------------
(***************************************************************************)
(* Local work of a bucket begins only with an enqueue of one of its        *)
(* domains.                                                                *)
(***************************************************************************)
LEMMA WorkShrinks ==
  ASSUME NEW b, inFlight'[b] > 0 => inFlight[b] > 0,
         DOMAIN queues' \subseteq DOMAIN queues,
         \A d \in DOMAIN queues' : queues'[d] \subseteq queues[d]
  PROVE  BucketHasWork(b)' => BucketHasWork(b)
BY DEF BucketHasWork

LEMMA WorkStep ==
  ASSUME ActorsType, TablesType, PlaceInv, TableInv, Next, NEW b \in Bucket,
         \A a \in Enqueuer : at[a] \in {"load", "warm"} => BucketOf[site[a]] # b
  PROVE  BucketHasWork(b)' => BucketHasWork(b)
<1> USE DataAssumption
<1>1. ASSUME NEW t \in Task, Select(t) PROVE BucketHasWork(b)' => BucketHasWork(b)
  <2>1. PICK d \in DOMAIN queues : \E u \in queues[d] :
          /\ queues' = [queues EXCEPT ![d] = @ \ {u}]
          /\ inFlight' = [inFlight EXCEPT ![BucketOf[d]] = @ + 1]
    BY <1>1 DEF Select
  <2>2. CASE b = BucketOf[d]
    BY <2>1, <2>2 DEF BucketHasWork
  <2>3. CASE b # BucketOf[d]
    <3>1. inFlight'[b] = inFlight[b] /\ DOMAIN queues' = DOMAIN queues
      BY <2>1, <2>3 DEF TablesType
    <3>2. \A e \in DOMAIN queues' : queues'[e] \subseteq queues[e]
      BY <2>1 DEF TablesType
    <3> QED
      BY <3>1, <3>2, WorkShrinks
  <2> QED
    BY <2>2, <2>3
<1>2. ASSUME NEW t \in Task, Complete(t) PROVE BucketHasWork(b)' => BucketHasWork(b)
  <2>1. /\ UNCHANGED queues
        /\ inFlight' = [inFlight EXCEPT ![BucketOf[site[t]]] = IF @ <= 1 THEN 0 ELSE @ - 1]
    BY <1>2 DEF Complete
  <2>2. inFlight'[b] > 0 => inFlight[b] > 0
    BY <2>1 DEF TablesType
  <2> QED
    BY <2>1, <2>2, WorkShrinks
<1>3. ASSUME NEW c \in Cleaner, CleanupDomain(c) PROVE BucketHasWork(b)' => BucketHasWork(b)
  BY <1>3, WorkShrinks DEF CleanupDomain, Remove
<1>4. ASSUME NEW a \in Enqueuer, GetDomainUrls(a) PROVE BucketHasWork(b)' => BucketHasWork(b)
  <2>1. inFlight' = inFlight /\ BucketOf[site[a]] # b
    BY <1>4 DEF GetDomainUrls
  <2>2. \/ queues' = queues
        \/ \E S : queues' = Store(queues, site[a], S)
    BY <1>4, Zenon DEF GetDomainUrls
  <2>3. \A d \in DOMAIN queues' : BucketOf[d] = b => d \in DOMAIN queues /\ queues'[d] = queues[d]
    BY <2>1, <2>2 DEF Store
  <2> QED
    BY <2>1, <2>3 DEF BucketHasWork
<1>5. ASSUME NEW a \in Enqueuer, GetDomainReleaseTime(a)
      PROVE  BucketHasWork(b)' => BucketHasWork(b)
  <2>1. /\ inFlight' = inFlight /\ BucketOf[site[a]] # b
        /\ queues' = [queues EXCEPT ![site[a]] = @ \cup batch]
    BY <1>5 DEF GetDomainReleaseTime
  <2>2. \A d \in DOMAIN queues' : BucketOf[d] = b => d \in DOMAIN queues /\ queues'[d] = queues[d]
    BY <2>1 DEF TablesType
  <2> QED
    BY <2>1, <2>2 DEF BucketHasWork
<1>6. ASSUME UNCHANGED <<inFlight, queues>> PROVE BucketHasWork(b)' => BucketHasWork(b)
  BY <1>6 DEF BucketHasWork
<1>7. ASSUME NEW t \in Task,
             \/ TryEnqueue(t) \/ Sleep(t) \/ StartCrawl(t) \/ StartCrawlFails(t)
             \/ Fetch(t) \/ Report(t) \/ Punish(t)
      PROVE  UNCHANGED <<inFlight, queues>>
  BY <1>7 DEF TryEnqueue, Sleep, StartCrawl, StartCrawlFails, Fetch, Report, Punish, Delay
<1>8. ASSUME NEW a \in Enqueuer,
             \/ EnterEnqueue(a) \/ GetExcludedDomains(a) \/ GetDistinctDomains(a)
             \/ QueryFails(a) \/ AcquireLock(a) \/ StartCleaning(a)
      PROVE  UNCHANGED <<inFlight, queues>>
  BY <1>8 DEF EnterEnqueue, GetExcludedDomains, GetDistinctDomains, QueryFails, AcquireLock,
              StartCleaning
<1>9. ASSUME \/ Drain \/ SetBuckets \/ WaitForDrain \/ PollDrained \/ RequestDrained
             \/ DrainedBuckets
             \/ \E u \in URL : RegisterUrl(u)
             \/ \E d \in Domain : ExcludedChanges(d) \/ Elapse(d)
       PROVE  UNCHANGED <<inFlight, queues>>
  BY <1>9 DEF Drain, SetBuckets, WaitForDrain, PollDrained, RequestDrained, DrainedBuckets,
              RegisterUrl, ExcludedChanges, Elapse
<1> QED
  BY <1>1, <1>2, <1>3, <1>4, <1>5, <1>6, <1>7, <1>8, <1>9, Zenon
     DEF Next, Download, Cleanup, EnqueueNewDomain, Enqueuer
-----------------------------------------------------------------------------
(***************************************************************************)
(* The line.                                                               *)
(***************************************************************************)
LEMMA LineAppend ==
  ASSUME NEW l \in Seq(Actor), NEW p, NEW q, NEW a \in Actor,
         LineOK(l, p), p[a] \notin Queueing, q[a] \in Queueing,
         \A b \in Actor \ {a} : p[b] \in Queueing \/ q[b] \in Queueing => q[b] = p[b],
         q[a] = "enter" => p[Drainer] # "poll",
         p[Drainer] \in {"none", "poll", "done"}, q[Drainer] \in {"none", "poll", "done"}
  PROVE  LineOK(Append(l, a), q)
<1> DEFINE m == Append(l, a)
<1>1. /\ Len(l) \in Nat /\ Len(m) = Len(l) + 1
      /\ \A i \in 1..Len(l) : m[i] = l[i] /\ l[i] \in Actor
      /\ m[Len(l) + 1] = a
  BY AppendProperties, LenProperties, ElementOfSeq
<1>2. \A i \in 1..Len(m) : i \in 1..Len(l) \/ i = Len(l) + 1
  BY <1>1
<1>3. \A i \in 1..Len(l) : l[i] # a /\ p[l[i]] \in Queueing
  BY DEF LineOK
<1> HIDE DEF m
<1>4. \A i \in 1..Len(m) : q[m[i]] \in Queueing
  BY <1>1, <1>2, <1>3
<1>5. ASSUME NEW b \in Actor, q[b] \in Queueing PROVE \E i \in 1..Len(m) : m[i] = b
  <2>1. CASE b = a
    BY <1>1, <2>1
  <2>2. CASE b # a
    <3>1. PICK i \in 1..Len(l) : l[i] = b
      BY <1>5, <2>2 DEF LineOK
    <3> QED
      BY <1>1, <3>1
  <2> QED
    BY <2>1, <2>2
<1>6. \A i, j \in 1..Len(m) : m[i] = m[j] => i = j
  <2>1. \A i, j \in 1..Len(l) : l[i] = l[j] => i = j
    BY DEF LineOK
  <2> QED
    BY <1>1, <1>2, <1>3, <2>1
<1>7. ASSUME NEW i \in 1..Len(m), NEW j \in 1..Len(m), m[i] = Drainer, q[m[j]] = "enter"
      PROVE  j < i
  <2>1. CASE i = Len(l) + 1
    <3>1. j # i
      BY <1>7
    <3> QED
      BY <1>1, <1>2, <2>1, <3>1
  <2>2. CASE i \in 1..Len(l)
    <3>1. p[Drainer] = "poll"
      BY <1>1, <1>3, <1>7, <2>2
    <3>2. j \in 1..Len(l)
      BY <1>1, <1>2, <1>7, <3>1
    <3>3. p[l[j]] = "enter" /\ l[i] = Drainer
      BY <1>1, <1>3, <1>7, <2>2, <3>2
    <3> QED
      BY <2>2, <3>2, <3>3 DEF LineOK
  <2> QED
    BY <1>2, <2>1, <2>2
<1> QED
  BY <1>4, <1>5, <1>6, <1>7 DEF LineOK, m

LEMMA LineTail ==
  ASSUME NEW l \in Seq(Actor), NEW p, NEW q, NEW a \in Actor,
         LineOK(l, p), l # <<>>, Head(l) = a, q[a] \notin Queueing,
         \A b \in Actor \ {a} : p[b] \in Queueing \/ q[b] \in Queueing => q[b] = p[b]
  PROVE  LineOK(Tail(l), q)
<1> DEFINE m == Tail(l)
<1>1. /\ Len(l) \in Nat \ {0} /\ Len(m) = Len(l) - 1 /\ l[1] = a
      /\ \A i \in 1..Len(m) : m[i] = l[i + 1]
      /\ \A i \in 1..Len(l) : l[i] \in Actor
  BY HeadTailProperties, LenProperties, ElementOfSeq, EmptySeq
<1> HIDE DEF m
<1>2. \A i \in 1..Len(m) : i + 1 \in 1..Len(l) /\ i + 1 # 1
  BY <1>1
<1>3. /\ \A i \in 1..Len(l) : p[l[i]] \in Queueing
      /\ \A i, j \in 1..Len(l) : l[i] = l[j] => i = j
      /\ \A i, j \in 1..Len(l) : l[i] = Drainer /\ p[l[j]] = "enter" => j < i
  BY DEF LineOK
<1>4. \A i \in 1..Len(m) : m[i] # a /\ m[i] \in Actor /\ q[m[i]] = p[m[i]] /\ q[m[i]] \in Queueing
  BY <1>1, <1>2, <1>3
<1>5. ASSUME NEW b \in Actor, q[b] \in Queueing PROVE \E i \in 1..Len(m) : m[i] = b
  <2>1. PICK i \in 1..Len(l) : l[i] = b
    BY <1>5 DEF LineOK
  <2>2. i # 1
    BY <1>1, <1>5, <2>1
  <2>3. i - 1 \in 1..Len(m) /\ m[i - 1] = l[i]
    BY <1>1, <2>2
  <2> QED
    BY <2>1, <2>3
<1>6. ASSUME NEW i \in 1..Len(m), NEW j \in 1..Len(m), m[i] = m[j] PROVE i = j
  <2>1. i + 1 \in 1..Len(l) /\ j + 1 \in 1..Len(l) /\ l[i + 1] = l[j + 1]
    BY <1>1, <1>2, <1>6
  <2>2. i + 1 = j + 1
    BY <1>3, <2>1
  <2> QED
    BY <2>2
<1>7. \A i, j \in 1..Len(m) : m[i] = Drainer /\ q[m[j]] = "enter" => j < i
  BY <1>1, <1>2, <1>3, <1>4
<1> QED
  BY <1>4, <1>5, <1>6, <1>7 DEF LineOK, m

LEMMA LineKept ==
  ASSUME ActorsType, PlaceInv, PlaceInv', LineOK(line, at),
         at[Drainer] = "poll" => draining, NEW a \in Actor, LineMove(a)
  PROVE  LineOK(line', at')
<1>a. /\ line \in Seq(Actor)
      /\ \A b \in Actor \ {a} : at[b] \in Queueing \/ at'[b] \in Queueing => at'[b] = at[b]
      /\ at'[a] = "enter" => at[Drainer] # "poll"
      /\ at[Drainer] \in {"none", "poll", "done"} /\ at'[Drainer] \in {"none", "poll", "done"}
  BY DEF ActorsType, LineMove, PlaceInv
<1>1. CASE line' = line /\ at[a] \notin Queueing /\ at'[a] \notin Queueing
  <2>1. \A b \in Actor : at[b] \in Queueing \/ at'[b] \in Queueing => at'[b] = at[b]
    BY <1>a, <1>1
  <2>2. \A i \in 1..Len(line) : line[i] \in Actor
    BY <1>a, ElementOfSeq
  <2> QED
    BY <1>1, <2>1, <2>2 DEF LineOK
<1>2. CASE line' = Append(line, a) /\ at[a] \notin Queueing /\ at'[a] \in Queueing
  <2>1. LineOK(Append(line, a), at')
    BY <1>a, <1>2, LineAppend
  <2> QED
    BY <1>2, <2>1, Zenon
<1>3. CASE line # <<>> /\ Head(line) = a /\ line' = Tail(line) /\ at'[a] \notin Queueing
  <2>1. LineOK(Tail(line), at')
    BY <1>a, <1>3, LineTail
  <2> QED
    BY <1>3, <2>1, Zenon
<1>4. CASE line # <<>> /\ Head(line) = a /\ line' = Append(Tail(line), a) /\ at'[a] \in Queueing
  <2>1. PICK q : q[a] = "none" /\ \A b \in Actor \ {a} : q[b] = at[b]
    <3>1. /\ [at EXCEPT ![a] = "none"][a] = "none"
          /\ \A b \in Actor \ {a} : [at EXCEPT ![a] = "none"][b] = at[b]
      BY DEF ActorsType
    <3> QED
      BY <3>1, Zenon
  <2>2. PICK l \in Seq(Actor) : l = Tail(line)
    BY <1>a, <1>4, HeadTailProperties
  <2>3. LineOK(Tail(line), q)
    <3>1. /\ \A b \in Actor \ {a} : at[b] \in Queueing \/ q[b] \in Queueing => q[b] = at[b]
          /\ q[a] \notin Queueing
      BY <2>1
    <3>2. line # <<>> /\ Head(line) = a
      BY <1>4, Zenon
    <3>3. line \in Seq(Actor)
      BY <1>a
    <3> QED
      BY <3>1, <3>2, <3>3, LineTail
  <2>4. q[Drainer] \in {"none", "poll", "done"} /\ (at'[a] = "enter" => q[Drainer] # "poll")
    BY <1>a, <2>1 DEF Actor
  <2>5. /\ \A b \in Actor \ {a} : q[b] \in Queueing \/ at'[b] \in Queueing => at'[b] = q[b]
        /\ q[a] \notin Queueing /\ at'[a] \in Queueing
    BY <1>4, <1>a, <2>1
  <2>6. LineOK(l, q)
    BY <2>2, <2>3, Zenon
  <2>7. at'[Drainer] \in {"none", "poll", "done"}
    BY <1>a
  <2>8. LineOK(Append(l, a), at')
    BY <2>4, <2>5, <2>6, <2>7, LineAppend
  <2> QED
    BY <1>4, <2>2, <2>8, Zenon
<1> QED
  BY <1>1, <1>2, <1>3, <1>4, Zenon DEF LineMove
-----------------------------------------------------------------------------
(***************************************************************************)
(* The drain.                                                              *)
(***************************************************************************)
LEMMA DrainInit == Init => DrainInv /\ DrainIsFinal
<1> SUFFICES ASSUME Init PROVE DrainInv /\ DrainIsFinal
  OBVIOUS
<1>1. /\ Len(line) = 0 /\ ~drained
      /\ at[Drainer] # "poll"
      /\ \A a \in Actor : at[a] \notin Queueing
  BY TaskAssumption DEF Init, Actor, Enqueuer
<1>2. LineOK(line, at)
  BY <1>1 DEF LineOK
<1> QED
  BY <1>1, <1>2, Zenon DEF DrainInv, DrainIsFinal

\* A waiting drain whose turn has come finds nobody who could take in work.
LEMMA TurnOfDrain ==
  ASSUME ActorsType, PlaceInv, DrainInv, Turn(Drainer)
  PROVE  \A a \in Enqueuer : at[a] \notin Locked \cup {"enter"}
<1>1. /\ line \in Seq(Actor) /\ line # <<>> /\ Head(line) = Drainer
      /\ \A a \in Enqueuer : at[a] \notin Locked
  BY DEF Turn, Free, ActorsType
<1>2. Len(line) \in Nat \ {0} /\ line[1] = Drainer
  BY <1>1, EmptySeq
<1>3. LineOK(line, at)
  BY DEF DrainInv
<1>4. ASSUME NEW a \in Enqueuer, at[a] = "enter" PROVE FALSE
  <2>1. PICK i \in 1..Len(line) : line[i] = a
    BY <1>3, <1>4 DEF LineOK, Actor
  <2>2. i < 1
    BY <1>2, <1>3, <1>4, <2>1 DEF LineOK
  <2> QED
    BY <2>1, <2>2, <1>2
<1> QED
  BY <1>1, <1>4

\* Nobody takes in work after the drain has ended.
LEMMA NobodyEnters ==
  ASSUME ActorsType, PlaceInv, drained, draining, Next,
         \A a \in Enqueuer : at[a] \notin Locked \cup {"enter"}
  PROVE  \A a \in Enqueuer : at'[a] \notin Locked \cup {"enter"}
<1> USE TaskAssumption
<1> DEFINE Clear == \A a \in Enqueuer : at'[a] \notin Locked \cup {"enter"}
<1>a. ASSUME NEW a \in Enqueuer, NEW p, p \notin Locked \cup {"enter"},
             Go(a, p) \/ Wait(a, p) \/ Pass(a, p)
      PROVE  Clear
  BY <1>a DEF Go, Wait, Pass, ActorsType, Actor
<1>1. ASSUME NEW t \in Task,
             \/ TryEnqueue(t) \/ Select(t) \/ Sleep(t) \/ StartCrawl(t)
             \/ StartCrawlFails(t) \/ Fetch(t) \/ Complete(t)
      PROVE  Clear
  <2>1. \/ Wait(t, "scan") \/ Pass(t, "start") \/ Pass(t, "pull") \/ Go(t, "wait")
        \/ Wait(t, "abort") \/ Go(t, "report") \/ Go(t, "punish")
    BY <1>1, Zenon DEF TryEnqueue, Select, Sleep, StartCrawl, StartCrawlFails, Fetch, Complete
  <2>2. t \in Enqueuer
    BY DEF Enqueuer
  <2> QED
    BY <1>a, <2>1, <2>2
<1>2. ASSUME NEW t \in Task, Report(t) \/ Punish(t) PROVE Clear
  BY <1>2 DEF Report, Punish, StartCleanup, ActorsType, Actor, Enqueuer
<1>3. ASSUME NEW c \in Cleaner, StartCleaning(c) \/ CleanupDomain(c) PROVE Clear
  BY <1>3 DEF StartCleaning, CleanupDomain, Leave, Go, ActorsType, Actor, Enqueuer
<1>4. ASSUME NEW a \in Enqueuer, AcquireLock(a) PROVE Clear
  <2>1. Go(a, "fetch") \/ Wait(a, "pop")
    BY <1>4 DEF AcquireLock
  <2> QED
    BY <1>a, <2>1
<1>5. ASSUME NEW a \in Enqueuer, EnqueueNewDomain(a) \/ QueryFails(a) PROVE FALSE
  BY <1>5 DEF EnqueueNewDomain, EnterEnqueue, GetExcludedDomains, GetDistinctDomains,
              GetDomainUrls, GetDomainReleaseTime, QueryFails
<1>6. ASSUME \/ Drain \/ SetBuckets \/ WaitForDrain \/ PollDrained \/ RequestDrained
             \/ DrainedBuckets
             \/ \E u \in URL : RegisterUrl(u)
             \/ \E d \in Domain : ExcludedChanges(d) \/ Elapse(d)
       PROVE  Clear
  <2>1. \A b \in Enqueuer : at'[b] = at[b]
    BY <1>6 DEF Drain, SetBuckets, WaitForDrain, PollDrained, RequestDrained, DrainedBuckets,
                RegisterUrl, ExcludedChanges, Elapse, Wait, Pass, ActorsType, Actor
  <2> QED
    BY <2>1
<1> HIDE DEF Clear
<1>7. Clear
  BY <1>1, <1>2, <1>3, <1>4, <1>5, <1>6, Zenon DEF Next, Download, Cleanup
<1> QED
  BY <1>7 DEF Clear

\* Only the drain's own steps set it on its way.
LEMMA DrainerStep ==
  ASSUME ActorsType, PlaceInv, Next
  PROVE  /\ draining => draining'
         /\ PollDrained \/ (drained' = drained)
         /\ at'[Drainer] = "poll" => at[Drainer] = "poll" \/ draining
<1> USE TaskAssumption
<1>1. ASSUME NEW a \in Enqueuer,
             \/ \E t \in Task : t = a /\ (Download(t) \/ StartCrawlFails(t))
             \/ \E c \in Cleaner : c = a /\ Cleanup(c)
             \/ EnqueueNewDomain(a) \/ QueryFails(a) \/ AcquireLock(a)
      PROVE  UNCHANGED <<draining, drained>> /\ at'[Drainer] = at[Drainer]
  <2>1. CASE \E t \in Task : t = a /\ (Download(t) \/ StartCrawlFails(t))
    BY <2>1 DEF Download, TryEnqueue, Select, Sleep, StartCrawl, StartCrawlFails, Fetch, Report,
                Punish, Delay, StartCleanup, Complete, Go, Wait, Pass, ActorsType, Actor, Enqueuer
  <2>2. CASE \E c \in Cleaner : c = a /\ Cleanup(c)
    BY <2>2 DEF Cleanup, StartCleaning, CleanupDomain, Leave, Go, ActorsType, Actor, Enqueuer
  <2>3. CASE EnqueueNewDomain(a)
    BY <2>3 DEF EnqueueNewDomain, EnterEnqueue, GetExcludedDomains, GetDistinctDomains,
                GetDomainUrls, GetDomainReleaseTime, Refuse, Leave, Go, Pass, ActorsType, Actor
  <2>4. CASE QueryFails(a) \/ AcquireLock(a)
    BY <2>4 DEF QueryFails, AcquireLock, Leave, Go, Wait, ActorsType, Actor
  <2> QED
    BY <1>1, <2>1, <2>2, <2>3, <2>4
<1>2. ASSUME \/ Drain \/ SetBuckets \/ WaitForDrain \/ PollDrained \/ RequestDrained
             \/ DrainedBuckets
             \/ \E u \in URL : RegisterUrl(u)
             \/ \E d \in Domain : ExcludedChanges(d) \/ Elapse(d)
      PROVE  /\ draining => draining'
             /\ PollDrained \/ (drained' = drained)
             /\ at'[Drainer] = "poll" => at[Drainer] = "poll" \/ draining
  <2>1. draining => draining'
    BY <1>2, Zenon DEF Drain, SetBuckets, WaitForDrain, PollDrained, RequestDrained,
       DrainedBuckets, RegisterUrl, ExcludedChanges, Elapse
  <2>2. PollDrained \/ (drained' = drained)
    BY <1>2, Zenon DEF Drain, SetBuckets, WaitForDrain, RequestDrained,
       DrainedBuckets, RegisterUrl, ExcludedChanges, Elapse
  <2>3. at'[Drainer] = "poll" => at[Drainer] = "poll" \/ draining
    BY <1>2 DEF Drain, SetBuckets, WaitForDrain, PollDrained, RequestDrained, DrainedBuckets,
                RegisterUrl, ExcludedChanges, Elapse, Wait, Pass, ActorsType, Actor, Drainer,
                Attester
  <2> QED
    BY <2>1, <2>2, <2>3
<1> QED
  BY <1>1, <1>2, Zenon DEF Next, Enqueuer
LEMMA DrainStep ==
  ASSUME ActorsType, TablesType, PlaceInv, TableInv, DrainInv, DrainIsFinal, Next, PlaceInv'
  PROVE  DrainInv' /\ DrainIsFinal'
<1>a. /\ at[Drainer] = "poll" => draining
      /\ drained => draining
      /\ drained => \A a \in Enqueuer : at[a] \notin Locked \cup {"enter"}
      /\ LineOK(line, at)
  BY DEF DrainInv
<1>1. LineOK(line', at')
  BY <1>a, LineStep, LineKept DEF LineOK
<1>2. at'[Drainer] = "poll" => draining'
  BY <1>a, DrainerStep, Zenon
<1>3. CASE PollDrained
  <2>1. /\ at' = [at EXCEPT ![Drainer] = IF HasLocalWork THEN "none" ELSE "done"]
        /\ UNCHANGED <<inFlight, queues, draining>>
        /\ at[Drainer] = "poll" /\ Turn(Drainer)
    BY <1>3, Zenon DEF PollDrained, Pass
  <2>2. \A a \in Enqueuer : at'[a] \notin Locked \cup {"enter"}
    <3>1. \A a \in Enqueuer : at'[a] = at[a]
      BY <2>1, TaskAssumption DEF ActorsType
    <3> QED
      BY <2>1, <3>1, TurnOfDrain
  <2>3. HasLocalWork' <=> HasLocalWork
    BY <2>1 DEF HasLocalWork, BucketHasWork
  <2>4. drained' => ~HasLocalWork
    BY <1>3, Zenon DEF PollDrained
  <2>5. draining'
    BY <1>a, <2>1, Zenon
  <2> QED
    BY <1>1, <2>2, <2>3, <2>4, <2>5, Zenon DEF DrainInv, DrainIsFinal
<1>4. CASE ~PollDrained
  <2>1. drained' = drained
    BY <1>4, DrainerStep, Zenon
  <2>2. drained => draining'
    BY <1>a, DrainerStep, Zenon
  <2>3. drained => \A a \in Enqueuer : at'[a] \notin Locked \cup {"enter"}
    BY <1>a, NobodyEnters, Zenon
  <2>4. ASSUME drained PROVE ~HasLocalWork'
    <3>1. \A a \in Enqueuer : at[a] \notin {"load", "warm"}
      BY <1>a, <2>4
    <3>2. \A b \in Bucket : BucketHasWork(b)' => BucketHasWork(b)
      BY <3>1, WorkStep
    <3> QED
      BY <2>4, <3>2, Zenon DEF DrainIsFinal, HasLocalWork
  <2> QED
    BY <1>1, <1>2, <2>1, <2>2, <2>3, <2>4, Zenon DEF DrainInv, DrainIsFinal
<1> QED
  BY <1>3, <1>4

-----------------------------------------------------------------------------
(***************************************************************************)
(* The attestation.                                                        *)
(***************************************************************************)
LEMMA AttestInit == Init => AttestInv /\ AttestedStaysEmpty
<1> SUFFICES ASSUME Init PROVE AttestInv /\ AttestedStaysEmpty
  OBVIOUS
<1>1. attested = {} /\ \A a \in Enqueuer : at[a] \notin Locked
  BY DEF Init, Actor, Enqueuer
<1> QED
  BY <1>1 DEF AttestInv, AttestedStaysEmpty

\* The buckets an enqueue has read are not attested.
LEMMA AttestKept ==
  ASSUME ActorsType, TablesType, PlaceInv, AttestInv, Next, UNCHANGED <<attested, ceding>>
  PROVE  AttestInv'
<1> USE TaskAssumption, DataAssumption
<1> DEFINE Quiet == /\ UNCHANGED fetchable
                    /\ \A a \in Enqueuer : at'[a] \in {"choose", "load", "warm"} =>
                         at'[a] = at[a] /\ site'[a] = site[a]
<1>a. Quiet => AttestInv'
  BY DEF AttestInv
<1>1. ASSUME NEW t \in Task,
             \/ TryEnqueue(t) \/ Select(t) \/ Sleep(t) \/ StartCrawl(t)
             \/ StartCrawlFails(t) \/ Fetch(t) \/ Complete(t)
      PROVE  Quiet
  BY <1>1 DEF TryEnqueue, Select, Sleep, StartCrawl, StartCrawlFails, Fetch, Complete,
              Go, Wait, Pass, ActorsType, Actor, Enqueuer
<1>2. ASSUME NEW t \in Task, Report(t) \/ Punish(t) PROVE Quiet
  BY <1>2 DEF Report, Punish, StartCleanup, ActorsType, Actor, Enqueuer
<1>3. ASSUME NEW c \in Cleaner, StartCleaning(c) \/ CleanupDomain(c) PROVE Quiet
  BY <1>3 DEF StartCleaning, CleanupDomain, Leave, Go, ActorsType, Actor, Enqueuer
<1>4. ASSUME NEW a \in Enqueuer, EnterEnqueue(a) \/ AcquireLock(a) PROVE Quiet
  BY <1>4 DEF EnterEnqueue, AcquireLock, Refuse, Go, Wait, Pass, ActorsType, Actor, Enqueuer
<1>5. ASSUME \/ Drain \/ SetBuckets \/ WaitForDrain \/ PollDrained \/ RequestDrained
             \/ DrainedBuckets
             \/ \E u \in URL : RegisterUrl(u)
             \/ \E d \in Domain : ExcludedChanges(d) \/ Elapse(d)
      PROVE  Quiet
  BY <1>5 DEF Drain, SetBuckets, WaitForDrain, PollDrained, RequestDrained, DrainedBuckets,
              RegisterUrl, ExcludedChanges, Elapse, Wait, Pass, ActorsType, Actor
<1> HIDE DEF Quiet
<1>6. ASSUME NEW a \in Enqueuer,
             \/ GetExcludedDomains(a) \/ GetDistinctDomains(a) \/ GetDomainUrls(a)
             \/ GetDomainReleaseTime(a) \/ QueryFails(a)
      PROVE  AttestInv'
  <2>1. \A b \in Enqueuer \ {a} : at'[b] = at[b] /\ site'[b] = site[b]
    BY <1>6 DEF GetExcludedDomains, GetDistinctDomains, GetDomainUrls, GetDomainReleaseTime,
                QueryFails, Refuse, Leave, Go, ActorsType, Actor, Enqueuer
  <2>2. fetchable' \subseteq fetchable \cup (admitted \ ceding)
    BY <1>6 DEF GetExcludedDomains, GetDistinctDomains, GetDomainUrls, GetDomainReleaseTime,
                QueryFails
  <2>3. at'[a] = "choose" => fetchable' = admitted \ ceding
    BY <1>6 DEF GetExcludedDomains, GetDistinctDomains, GetDomainUrls, GetDomainReleaseTime,
                QueryFails, Refuse, Leave, Go, ActorsType, Actor, Enqueuer
  <2>4. at'[a] = "load" => at[a] = "choose" /\ BucketOf[site'[a]] \in fetchable
    BY <1>6 DEF GetExcludedDomains, GetDistinctDomains, NewDomains, GetDomainUrls,
                GetDomainReleaseTime, QueryFails, Refuse, Leave, Go, ActorsType, Actor, Enqueuer
  <2>5. at'[a] = "warm" => at[a] = "load" /\ site'[a] = site[a]
    <3>1. GetDomainUrls(a) => \/ Refuse(a, line) \/ Leave(a)
                              \/ Go(a, "warm") /\ UNCHANGED site /\ at[a] = "load"
      BY Zenon DEF GetDomainUrls
    <3>2. ~GetDomainUrls(a) => at'[a] # "warm"
      BY <1>6 DEF GetExcludedDomains, GetDistinctDomains, GetDomainReleaseTime,
                  QueryFails, Refuse, Leave, Go, ActorsType, Actor, Enqueuer
    <3>3. Refuse(a, line) \/ Leave(a) => at'[a] # "warm"
      BY DEF Refuse, Leave, Go, ActorsType, Actor, Enqueuer
    <3> QED
      BY <3>1, <3>2, <3>3, Zenon
  <2> QED
    BY <2>1, <2>2, <2>3, <2>4, <2>5 DEF AttestInv
<1> QED
  BY <1>a, <1>1, <1>2, <1>3, <1>4, <1>5, <1>6, Zenon
     DEF Next, Download, Cleanup, EnqueueNewDomain

LEMMA AttestStep ==
  ASSUME ActorsType, TablesType, RestType, PlaceInv, TableInv, AttestInv, AttestedStaysEmpty, Next
  PROVE  AttestInv' /\ AttestedStaysEmpty'
<1> USE TaskAssumption
<1>1. CASE SetBuckets
  <2>1. attested' = {}
    BY <1>1 DEF SetBuckets
  <2> QED
    BY <2>1 DEF AttestInv, AttestedStaysEmpty
<1>2. CASE DrainedBuckets
  <2>1. /\ attested' = {b \in ceding : ~BucketHasWork(b)}
        /\ UNCHANGED <<queues, inFlight, ceding>>
        /\ \A a \in Enqueuer : at[a] \notin Locked /\ at'[a] = at[a]
    BY <1>2 DEF DrainedBuckets, Turn, Free, Pass, ActorsType, Actor
  <2>2. \A b \in attested' : ~BucketHasWork(b)'
    BY <2>1 DEF BucketHasWork
  <2> QED
    BY <2>1, <2>2 DEF AttestInv, AttestedStaysEmpty
<1>3. CASE ~SetBuckets /\ ~DrainedBuckets
  <2>1. UNCHANGED <<attested, ceding>>
    <3>1. ASSUME NEW t \in Task, Download(t) \/ StartCrawlFails(t)
          PROVE  UNCHANGED <<attested, ceding>>
      BY <3>1 DEF Download, TryEnqueue, Select, Sleep, StartCrawl, StartCrawlFails, Fetch,
                  Report, Punish, Delay, Complete
    <3>2. ASSUME NEW a \in Enqueuer,
                 EnqueueNewDomain(a) \/ QueryFails(a) \/ AcquireLock(a)
          PROVE  UNCHANGED <<attested, ceding>>
      BY <3>2 DEF EnqueueNewDomain, EnterEnqueue, GetExcludedDomains, GetDistinctDomains,
                  GetDomainUrls, GetDomainReleaseTime, QueryFails, AcquireLock
    <3>3. ASSUME NEW c \in Cleaner, Cleanup(c) PROVE UNCHANGED <<attested, ceding>>
      BY <3>3 DEF Cleanup, StartCleaning, CleanupDomain
    <3>4. ASSUME \/ Drain \/ WaitForDrain \/ PollDrained \/ RequestDrained
                 \/ \E u \in URL : RegisterUrl(u)
                 \/ \E d \in Domain : ExcludedChanges(d) \/ Elapse(d)
          PROVE  UNCHANGED <<attested, ceding>>
      BY <3>4 DEF Drain, WaitForDrain, PollDrained, RequestDrained, RegisterUrl,
                  ExcludedChanges, Elapse
    <3> QED
      BY <1>3, <3>1, <3>2, <3>3, <3>4, Zenon DEF Next
  <2>2. AttestInv'
    BY <2>1, AttestKept
  <2>3. ASSUME NEW b \in attested PROVE ~BucketHasWork(b)'
    <3>1. b \in Bucket
      BY DEF RestType
    <3>2. \A a \in Enqueuer : at[a] \in {"load", "warm"} => BucketOf[site[a]] # b
      BY DEF AttestInv
    <3> QED
      BY <3>1, <3>2, WorkStep DEF AttestedStaysEmpty
  <2> QED
    BY <2>1, <2>2, <2>3 DEF AttestedStaysEmpty
<1> QED
  BY <1>1, <1>2, <1>3
-----------------------------------------------------------------------------
(***************************************************************************)
(* Prompt calls.                                                           *)
(***************************************************************************)
USE DEF Busy, Waiting

LEMMA PromptInit == Init => PromptInv
<1> SUFFICES ASSUME Init PROVE PromptInv
  OBVIOUS
<1>1. DOMAIN queues = {} /\ \A a \in Enqueuer : at[a] \in {"pull", "none"}
  BY DEF Init, Actor, Enqueuer
<1> QED
  BY <1>1 DEF PromptInv, HoldInv, AloneInv, FreshInv

\* Calls have been prompt before; if time passes, nobody is kept waiting.
LEMMA PromptBefore ==
  ASSUME RestType, Next, Prompt'
  PROVE  Prompt /\ \A d \in Domain : Elapse(d) => ~Hurried(d)
<1>a. ASSUME NEW e \in Event, Spend(e) PROVE Prompt /\ e # "slow"
  BY <1>a DEF Spend, Prompt, RestType, Event
<1>b. ASSUME UNCHANGED events PROVE Prompt
  BY <1>b DEF Prompt
<1>c. "error" \in Event /\ "assign" \in Event /\ "slow" \in Event
  BY DEF Event
<1>1. ASSUME NEW t \in Task, Download(t) \/ StartCrawlFails(t)
      PROVE  UNCHANGED events \/ Spend("error")
  BY <1>1 DEF Download, TryEnqueue, Select, Sleep, StartCrawl, StartCrawlFails, Fetch, Report,
              Punish, Complete
<1>2. ASSUME NEW a \in Enqueuer, EnqueueNewDomain(a) \/ QueryFails(a) \/ AcquireLock(a)
      PROVE  UNCHANGED events \/ Spend("error")
  BY <1>2 DEF EnqueueNewDomain, EnterEnqueue, GetExcludedDomains, GetDistinctDomains,
              GetDomainUrls, GetDomainReleaseTime, QueryFails, AcquireLock
<1>3. ASSUME NEW c \in Cleaner, Cleanup(c) PROVE UNCHANGED events
  BY <1>3 DEF Cleanup, StartCleaning, CleanupDomain
<1>4. ASSUME \/ Drain \/ SetBuckets \/ WaitForDrain \/ PollDrained \/ RequestDrained
             \/ DrainedBuckets
             \/ \E u \in URL : RegisterUrl(u)
             \/ \E d \in Domain : ExcludedChanges(d)
      PROVE  UNCHANGED events \/ Spend("assign")
  BY <1>4 DEF Drain, SetBuckets, WaitForDrain, PollDrained, RequestDrained, DrainedBuckets,
              RegisterUrl, ExcludedChanges
<1>5. ASSUME NEW d \in Domain, Elapse(d) PROVE Prompt /\ ~Hurried(d)
  BY <1>5, <1>a, <1>b, <1>c DEF Elapse
<1> QED
  BY <1>a, <1>b, <1>c, <1>1, <1>2, <1>3, <1>4, <1>5, Zenon DEF Next

(***************************************************************************)
(* Steps by which nobody becomes busy or gets on with what it is busy with.*)
(***************************************************************************)
LEMMA HoldQuiet ==
  ASSUME HoldInv,
         \A d \in DOMAIN queues \cap DOMAIN release :
           /\ d \in DOMAIN queues' \cap DOMAIN release'
           /\ locks'[d] = locks[d]
           /\ release[d] = "later" => release'[d] = "later",
         \A a \in Enqueuer : at'[a] \in Busy =>
           /\ at[a] \in Busy /\ site'[a] = site[a]
           /\ at'[a] # "clean" => at[a] # "clean" /\ held'[a] = held[a]
           /\ at'[a] \in Waiting => at[a] \in Waiting
  PROVE  HoldInv'
BY DEF HoldInv

LEMMA AloneQuiet ==
  ASSUME AloneInv,
         \A a \in Enqueuer : at'[a] \in Busy => at'[a] = at[a] /\ site'[a] = site[a]
  PROVE  AloneInv'
BY DEF AloneInv, Leaving

\* An actor that is alone with its domain gets on with what it is busy with.
LEMMA AloneMoves ==
  ASSUME AloneInv, NEW c \in Enqueuer,
         \A b \in Enqueuer : b # c /\ at[b] \in Busy => site[b] # site'[c],
         \A b \in Enqueuer \ {c} : at'[b] = at[b] /\ site'[b] = site[b]
  PROVE  AloneInv'
BY DEF AloneInv, Leaving

LEMMA FreshQuiet ==
  ASSUME FreshInv,
         DOMAIN queues' \subseteq DOMAIN queues,
         \A d \in DOMAIN queues' : queues'[d] \subseteq queues[d],
         batch' = batch, pending \subseteq pending',
         \A t \in Task : url'[t] = url[t] \/ url'[t] = NoURL,
         NoURL \notin batch, \A d \in DOMAIN queues : NoURL \notin queues[d],
         \A a \in Enqueuer : at'[a] = "warm" =>
           /\ at[a] = "warm" /\ site'[a] = site[a]
           /\ site[a] \notin DOMAIN release => site[a] \notin DOMAIN release'
  PROVE  FreshInv'
<1>1. \A d \in DOMAIN queues : \A u \in queues[d] : Fresh(u) /\ u # NoURL
  BY DEF FreshInv
<1>2. \A u : Fresh(u) /\ u # NoURL => Fresh(u)'
  BY DEF Fresh
<1>3. \A d \in DOMAIN queues' : \A u \in queues'[d] : Fresh(u)'
  BY <1>1, <1>2
<1>4. ASSUME NEW a \in Enqueuer, at'[a] = "warm"
      PROVE  site'[a] \notin DOMAIN release' /\ \A u \in batch' : Fresh(u)'
  <2>1. site[a] \notin DOMAIN release /\ \A u \in batch : Fresh(u) /\ u # NoURL
    BY <1>4 DEF FreshInv
  <2> QED
    BY <1>2, <1>4, <2>1
<1> QED
  BY <1>3, <1>4 DEF FreshInv
LEMMA NoURLs ==
  ASSUME TablesType, RestType
  PROVE  NoURL \notin batch /\ \A d \in DOMAIN queues : NoURL \notin queues[d]
BY DataAssumption DEF TablesType, RestType

LEMMA PromptQuiet ==
  ASSUME TablesType, RestType, PromptInv,
         UNCHANGED <<queues, locks, release, batch>>, pending \subseteq pending',
         \A t \in Task : url'[t] = url[t] \/ url'[t] = NoURL,
         \A a \in Enqueuer : at'[a] \in Busy \cup {"warm"} =>
           at'[a] = at[a] /\ site'[a] = site[a] /\ held'[a] = held[a]
  PROVE  PromptInv'
<1>1. HoldInv'
  BY HoldQuiet DEF PromptInv
<1>2. AloneInv'
  BY AloneQuiet DEF PromptInv
<1>3. FreshInv'
  BY FreshQuiet, NoURLs DEF PromptInv
<1> QED
  BY <1>1, <1>2, <1>3 DEF PromptInv

\* Steps that keep to themselves.
LEMMA QuietStep ==
  ASSUME ActorsType, TablesType, RestType, PlaceInv, PromptInv,
         \/ \E t \in Task : TryEnqueue(t) \/ Sleep(t) \/ Complete(t)
         \/ \E a \in Enqueuer : \/ EnterEnqueue(a) \/ GetExcludedDomains(a)
                                \/ GetDistinctDomains(a) \/ QueryFails(a)
         \/ Drain \/ SetBuckets \/ WaitForDrain \/ PollDrained \/ RequestDrained
         \/ DrainedBuckets
         \/ \E u \in URL : RegisterUrl(u)
         \/ \E d \in Domain : ExcludedChanges(d)
  PROVE  PromptInv'
<1> USE TaskAssumption
<1>1. ASSUME NEW t \in Task, TryEnqueue(t) \/ Sleep(t) \/ Complete(t) PROVE PromptInv'
  <2>1. /\ UNCHANGED <<queues, locks, release, batch, pending>>
        /\ \A s \in Task : url'[s] = url[s] \/ url'[s] = NoURL
    BY <1>1 DEF TryEnqueue, Sleep, Complete, ActorsType
  <2>2. \A b \in Enqueuer : at'[b] \in Busy \cup {"warm"} =>
          at'[b] = at[b] /\ site'[b] = site[b] /\ held'[b] = held[b]
    BY <1>1 DEF TryEnqueue, Sleep, Complete, Wait, Pass, ActorsType, Actor, Enqueuer
  <2> QED
    BY <2>1, <2>2, PromptQuiet
<1>2. ASSUME NEW a \in Enqueuer,
             \/ EnterEnqueue(a) \/ GetExcludedDomains(a) \/ GetDistinctDomains(a)
             \/ QueryFails(a)
      PROVE  PromptInv'
  <2>1. /\ UNCHANGED <<queues, locks, release, batch, pending, url>>
    BY <1>2 DEF EnterEnqueue, GetExcludedDomains, GetDistinctDomains, QueryFails
  <2>2. \A b \in Enqueuer : at'[b] \in Busy \cup {"warm"} =>
          at'[b] = at[b] /\ site'[b] = site[b] /\ held'[b] = held[b]
    BY <1>2 DEF EnterEnqueue, GetExcludedDomains, GetDistinctDomains, QueryFails, Refuse, Leave,
                Go, Pass, ActorsType, Actor, Enqueuer
  <2> QED
    BY <2>1, <2>2, PromptQuiet
<1>3. ASSUME \/ Drain \/ SetBuckets \/ WaitForDrain \/ PollDrained \/ RequestDrained
             \/ DrainedBuckets
             \/ \E u \in URL : RegisterUrl(u)
             \/ \E d \in Domain : ExcludedChanges(d)
      PROVE  PromptInv'
  <2>1. /\ UNCHANGED <<queues, locks, release, batch, url, site, held>>
        /\ pending \subseteq pending'
    BY <1>3 DEF Drain, SetBuckets, WaitForDrain, PollDrained, RequestDrained, DrainedBuckets,
                RegisterUrl, ExcludedChanges
  <2>2. \A b \in Enqueuer : at'[b] = at[b]
    BY <1>3 DEF Drain, SetBuckets, WaitForDrain, PollDrained, RequestDrained, DrainedBuckets,
                RegisterUrl, ExcludedChanges, Wait, Pass, ActorsType, Actor
  <2> QED
    BY <2>1, <2>2, PromptQuiet
<1> QED
  BY <1>1, <1>2, <1>3, Zenon

-----------------------------------------------------------------------------
(***************************************************************************)
(* The payload that next selects is of a domain nobody is busy with.       *)
(***************************************************************************)
LEMMA SelectPrompt ==
  ASSUME ActorsType, TablesType, RestType, PlaceInv, TableInv, PromptInv,
         NEW t \in Task, Select(t)
  PROVE  PromptInv'
<1> USE TaskAssumption, DataAssumption
<1>0. PICK d \in DOMAIN queues : \E u \in queues[d] :
        /\ Ready(d)
        /\ queues' = [queues EXCEPT ![d] = @ \ {u}]
        /\ release' = [release EXCEPT ![d] = "later"]
        /\ url' = [url EXCEPT ![t] = u]
        /\ site' = [site EXCEPT ![t] = d]
        /\ held' = [held EXCEPT ![t] = locks[d]]
  BY Zenon DEF Select
<1>1. PICK u \in queues[d] :
        /\ Ready(d)
        /\ queues' = [queues EXCEPT ![d] = @ \ {u}]
        /\ release' = [release EXCEPT ![d] = "later"]
        /\ url' = [url EXCEPT ![t] = u]
        /\ site' = [site EXCEPT ![t] = d]
        /\ held' = [held EXCEPT ![t] = locks[d]]
  BY <1>0, Zenon
<1>2. /\ at[t] = "scan" /\ at'[t] = "start" /\ \A b \in Actor \ {t} : at'[b] = at[b]
      /\ UNCHANGED <<locks, batch, pending>>
      /\ \A a \in Enqueuer : at[a] \notin Locked
  BY DEF Select, Pass, Turn, Free, ActorsType, Actor, Enqueuer
<1>3. /\ site'[t] = d /\ held'[t] = locks[d] /\ url'[t] = u
      /\ \A b \in Enqueuer \ {t} : site'[b] = site[b] /\ held'[b] = held[b]
      /\ \A s \in Task \ {t} : url'[s] = url[s]
  BY <1>1 DEF ActorsType, Enqueuer
<1>4. /\ DOMAIN queues' = DOMAIN queues /\ DOMAIN release' = DOMAIN release
      /\ d \in DOMAIN release /\ release[d] = "due" /\ release'[d] = "later"
      /\ \A e \in DOMAIN release : e # d => release'[e] = release[e]
      /\ queues'[d] = queues[d] \ {u}
      /\ \A e \in DOMAIN queues : e # d => queues'[e] = queues[e]
  BY <1>1 DEF Ready, TablesType
<1>5. \A b \in Enqueuer : at[b] \in Busy => site[b] # d
  <2> SUFFICES ASSUME NEW b \in Enqueuer, at[b] \in Busy, site[b] = d PROVE FALSE
    OBVIOUS
  <2>1. at[b] \notin Waiting
    BY <1>4 DEF PromptInv, HoldInv
  <2>2. at[b] \in Fetching \cup {"pop"} /\ held[b] = locks[d]
    BY <2>1 DEF PromptInv, HoldInv
  <2> QED
    BY <1>1, <2>2 DEF Ready, Taken
<1>6. HoldInv'
  <2>1. ASSUME NEW b \in Enqueuer \ {t}, at'[b] \in Busy
        PROVE  /\ site'[b] \in DOMAIN queues' \cap DOMAIN release'
               /\ at'[b] # "clean" => held'[b] = locks'[site'[b]]
               /\ at'[b] \in Waiting => release'[site'[b]] = "later"
    BY <1>2, <1>3, <1>4, <1>5, <2>1 DEF PromptInv, HoldInv, Actor
  <2> QED
    BY <1>2, <1>3, <1>4, <2>1 DEF HoldInv
<1>7. AloneInv'
  BY <1>2, <1>3, <1>5, AloneMoves DEF PromptInv, Actor, Enqueuer
<1>8. FreshInv'
  <2>1. \A e \in DOMAIN queues' : \A v \in queues'[e] : v # u /\ Fresh(v)
    BY <1>4 DEF PromptInv, FreshInv, TableInv
  <2>2. \A v : v # u /\ Fresh(v) => Fresh(v)'
    BY <1>2, <1>3 DEF Fresh
  <2>3. \A a \in Enqueuer : at'[a] # "warm"
    BY <1>2 DEF Actor
  <2> QED
    BY <2>1, <2>2, <2>3 DEF FreshInv
<1> QED
  BY <1>6, <1>7, <1>8 DEF PromptInv
\* What an enqueue queues is in nobody's hand: the domain is not in the tables.
LEMMA EnqueuePrompt ==
  ASSUME ActorsType, TablesType, RestType, PlaceInv, TableInv, PromptInv,
         NEW a \in Enqueuer, GetDomainUrls(a) \/ GetDomainReleaseTime(a)
  PROVE  PromptInv'
<1> USE TaskAssumption, DataAssumption
<1>1. /\ at[a] \in {"load", "warm"} /\ UNCHANGED <<url, held, pending>>
      /\ \A b \in Actor \ {a} : at'[b] = at[b]
      /\ \A b \in Enqueuer \ {a} : site'[b] = site[b]
  BY DEF GetDomainUrls, GetDomainReleaseTime, Refuse, Leave, Go, ActorsType, Actor
<1>2. \A b \in Enqueuer \ {a} : at'[b] \notin Locked
  BY <1>1 DEF TableInv, Actor
<1>3. at'[a] \notin Busy
  BY DEF GetDomainUrls, GetDomainReleaseTime, Refuse, Leave, Go, ActorsType, Actor
<1>4. \A b \in Enqueuer : at'[b] \in Busy =>
        at'[b] = at[b] /\ site'[b] = site[b] /\ held'[b] = held[b]
  BY <1>1, <1>3 DEF Actor
<1>5. AloneInv'
  BY <1>4, AloneQuiet DEF PromptInv
<1>6. \A v : Fresh(v)' <=> Fresh(v)
  BY <1>1 DEF Fresh
<1>7. CASE GetDomainUrls(a)
  <2>1. at[a] = "load" /\ site[a] \notin DOMAIN queues /\ release' = release
    BY <1>7 DEF GetDomainUrls, TableInv
  <2>2. ASSUME NEW v \in Stored(site[a]) PROVE Fresh(v)
    <3>1. v \in pending /\ v \in URL /\ DomainOf[v] = site[a]
      BY DEF Stored, RestType
    <3>2. ASSUME NEW t \in Task, url[t] = v PROVE FALSE
      <4>1. at[t] \in InHand /\ site[t] = DomainOf[v]
        BY <3>1, <3>2 DEF PlaceInv
      <4>2. t \in Enqueuer /\ at[t] \in Busy
        BY <4>1 DEF Enqueuer
      <4> QED
        BY <2>1, <3>1, <4>1, <4>2 DEF PromptInv, HoldInv
    <3> QED
      BY <3>1, <3>2 DEF Fresh
  <2>3. \/ UNCHANGED <<queues, locks, batch>> /\ at'[a] # "warm"
        \/ \E S \in SUBSET Stored(site[a]) : \E l :
             /\ locks' = Store(locks, site[a], l) /\ queues' = Store(queues, site[a], S)
             /\ at'[a] # "warm"
        \/ \E S, R \in SUBSET Stored(site[a]) : \E l :
             /\ locks' = Store(locks, site[a], l) /\ queues' = Store(queues, site[a], S)
             /\ batch' = R /\ site'[a] = site[a] /\ site[a] \notin DOMAIN release
    <3>1. Refuse(a, line) \/ Leave(a) => at'[a] # "warm"
      BY DEF Refuse, Leave, Go, ActorsType, Actor
    <3>2. \A S \in SUBSET Stored(site[a]) : \A u \in S :
            {u} \in SUBSET Stored(site[a]) /\ S \ {u} \in SUBSET Stored(site[a])
      OBVIOUS
    <3> QED
      BY <1>7, <3>1, <3>2 DEF GetDomainUrls
  <2>4. CASE UNCHANGED <<queues, locks, batch>> /\ at'[a] # "warm"
    <3>1. HoldInv'
      BY <1>4, <2>1, <2>4, HoldQuiet DEF PromptInv
    <3>2. FreshInv'
      BY <1>2, <1>6, <2>4 DEF PromptInv, FreshInv
    <3> QED
      BY <1>5, <3>1, <3>2 DEF PromptInv
  <2>5. ASSUME NEW S \in SUBSET Stored(site[a]), NEW l,
               locks' = Store(locks, site[a], l), queues' = Store(queues, site[a], S),
               \/ at'[a] # "warm"
               \/ /\ batch' \in SUBSET Stored(site[a]) /\ site'[a] = site[a]
                  /\ site[a] \notin DOMAIN release
        PROVE  PromptInv'
    <3>1. /\ DOMAIN queues' = DOMAIN queues \cup {site[a]} /\ queues'[site[a]] = S
          /\ \A d \in DOMAIN queues : queues'[d] = queues[d] /\ locks'[d] = locks[d]
      BY <2>1, <2>5 DEF Store, TableInv
    <3>2. HoldInv'
      BY <1>4, <2>1, <3>1, HoldQuiet DEF PromptInv
    <3>3. \A d \in DOMAIN queues' : \A u \in queues'[d] : Fresh(u)
      BY <2>2, <3>1 DEF PromptInv, FreshInv
    <3>4. \A b \in Enqueuer : at'[b] = "warm" =>
            site'[b] \notin DOMAIN release' /\ \A u \in batch' : Fresh(u)
      BY <1>2, <2>1, <2>2, <2>5
    <3>5. FreshInv'
      BY <1>6, <3>3, <3>4 DEF FreshInv
    <3> QED
      BY <1>5, <3>2, <3>5 DEF PromptInv
  <2> QED
    BY <2>3, <2>4, <2>5
<1>8. CASE GetDomainReleaseTime(a)
  <2>1. /\ at[a] = "warm" /\ at'[a] # "warm" /\ locks' = locks
        /\ queues' = [queues EXCEPT ![site[a]] = @ \cup batch]
        /\ release' = Store(release, site[a], "due")
    BY <1>8 DEF GetDomainReleaseTime, Leave, Go, ActorsType, Actor
  <2>2. /\ site[a] \in DOMAIN queues /\ site[a] \notin DOMAIN release
        /\ \A u \in batch : Fresh(u)
    BY <2>1 DEF TableInv, PromptInv, FreshInv
  <2>3. /\ DOMAIN queues' = DOMAIN queues /\ queues'[site[a]] = queues[site[a]] \cup batch
        /\ \A d \in DOMAIN queues : d # site[a] => queues'[d] = queues[d]
        /\ DOMAIN release' = DOMAIN release \cup {site[a]}
        /\ \A d \in DOMAIN release : release'[d] = release[d]
    BY <2>1, <2>2 DEF TablesType, Store
  <2>4. HoldInv'
    BY <1>4, <2>1, <2>3, HoldQuiet DEF PromptInv
  <2>5. \A d \in DOMAIN queues' : \A u \in queues'[d] : Fresh(u)
    BY <2>2, <2>3 DEF PromptInv, FreshInv
  <2>6. \A b \in Enqueuer : at'[b] # "warm"
    BY <1>2, <2>1
  <2>7. FreshInv'
    BY <1>6, <2>5, <2>6 DEF FreshInv
  <2> QED
    BY <1>5, <2>4, <2>7 DEF PromptInv
<1> QED
  BY <1>7, <1>8

(***************************************************************************)
(* A call that gets on: its loop is alone with the domain until it reports.*)
(***************************************************************************)
LEMMA CallPrompt ==
  ASSUME ActorsType, TablesType, RestType, PlaceInv, PromptInv,
         NEW t \in Task,
         \/ StartCrawl(t) \/ StartCrawlFails(t) \/ Fetch(t)
         \/ AcquireLock(t)
  PROVE  PromptInv'
<1> USE TaskAssumption, DataAssumption
<1>1. /\ UNCHANGED <<tables, batch, url, site, held>>
      /\ \A b \in Actor \ {t} : at'[b] = at[b]
      /\ at[t] \in {"start", "wait", "fetch"}
      /\ at'[t] \in {"wait", "abort", "fetch", "report", "punish"}
      /\ at'[t] \in Waiting => at[t] \in Waiting
      /\ pending' = pending \/ (at[t] = "start" /\ pending' = pending \ {url[t]})
  BY DEF StartCrawl, StartCrawlFails, Fetch, AcquireLock, Go, Wait, ActorsType, Actor, Enqueuer
<1>2. t \in Enqueuer /\ t \notin Cleaner /\ t \in Actor
  BY DEF Enqueuer, Actor
<1>3. HoldInv'
  BY <1>1, <1>2, HoldQuiet DEF PromptInv, Actor
<1>4. \A b \in Enqueuer : b # t /\ at[b] \in Busy => site[b] # site[t]
  BY <1>1, <1>2 DEF PromptInv, AloneInv, Leaving
<1>5. AloneInv'
  BY <1>1, <1>2, <1>4, AloneMoves DEF PromptInv, Actor
<1>6. \A v : Fresh(v) => Fresh(v)'
  BY <1>1 DEF Fresh
<1>7. FreshInv'
  BY <1>1, <1>2, <1>6 DEF PromptInv, FreshInv, Actor
<1> QED
  BY <1>3, <1>5, <1>7 DEF PromptInv

\* A report finds its domain in the tables; it may start a cleanup of it.
LEMMA ReportPrompt ==
  ASSUME ActorsType, TablesType, RestType, PlaceInv, TableInv, PromptInv,
         NEW t \in Task, Report(t) \/ Punish(t)
  PROVE  PromptInv'
<1> USE TaskAssumption, DataAssumption
<1>1. /\ at[t] \in {"report", "punish"} /\ UNCHANGED <<queues, locks, batch, url, held, pending>>
      /\ release' = Store(release, site[t], "later")
      /\ \/ UNCHANGED site /\ at' = [at EXCEPT ![t] = "complete"]
         \/ \E c \in Cleaner : /\ at[c] = "none"
                               /\ at' = [at EXCEPT ![t] = "complete", ![c] = "clean"]
                               /\ site' = [site EXCEPT ![c] = site[t]]
  BY DEF Report, Punish, Delay, StartCleanup
<1>2. t \in Enqueuer /\ t \notin Cleaner /\ t \in Actor
  BY DEF Enqueuer, Actor
<1>3. site[t] \in DOMAIN queues \cap DOMAIN release /\ held[t] = locks[site[t]]
  BY <1>1, <1>2 DEF PromptInv, HoldInv
<1>4. /\ DOMAIN release' = DOMAIN release /\ release'[site[t]] = "later"
      /\ \A d \in DOMAIN release : release[d] = "later" => release'[d] = "later"
  BY <1>1, <1>3 DEF Store
<1>5. \A b \in Enqueuer : b # t /\ at[b] \in Busy => site[b] # site[t]
  BY <1>1, <1>2 DEF PromptInv, AloneInv, Leaving
<1>6. \A b \in Enqueuer :
        \/ b = t /\ at'[b] = "complete" /\ site'[b] = site[b]
        \/ b # t /\ at'[b] = at[b] /\ site'[b] = site[b]
        \/ b # t /\ b \in Cleaner /\ at[b] = "none" /\ at'[b] = "clean" /\ site'[b] = site[t]
  BY <1>1, <1>2 DEF ActorsType, Actor, Enqueuer
<1>7. \A b, c \in Cleaner : at[b] = "none" /\ at'[b] = "clean" /\ at[c] = "none" /\ at'[c] = "clean"
        => b = c
  BY <1>1, <1>2 DEF ActorsType, Actor, Enqueuer
<1>8. HoldInv'
  BY <1>1, <1>3, <1>4, <1>6 DEF PromptInv, HoldInv
<1>9. AloneInv'
  BY <1>1, <1>2, <1>5, <1>6, <1>7 DEF PromptInv, AloneInv, Leaving
<1>10. FreshInv'
  <2>1. \A v : Fresh(v) => Fresh(v)'
    BY <1>1 DEF Fresh
  <2>2. \A b \in Enqueuer : at'[b] = "warm" => at[b] = "warm" /\ site'[b] = site[b]
    BY <1>6
  <2> QED
    BY <1>1, <1>4, <2>1, <2>2 DEF PromptInv, FreshInv
<1> QED
  BY <1>8, <1>9, <1>10 DEF PromptInv
(***************************************************************************)
(* A cleanup takes the Lock of its domain from the loop that started it,   *)
(* and is alone with the domain when it drops it.                          *)
(***************************************************************************)
LEMMA CleanPrompt ==
  ASSUME ActorsType, TablesType, RestType, PlaceInv, TableInv, PromptInv,
         NEW c \in Cleaner, StartCleaning(c) \/ AcquireLock(c)
  PROVE  PromptInv'
<1> USE TaskAssumption, DataAssumption
<1>1. c \in Enqueuer /\ c \notin Task /\ c \in Actor
  BY DEF Enqueuer, Actor
<1>2. at[c] \in {"clean", "wait"} /\ site[c] \in DOMAIN queues
  BY <1>1 DEF StartCleaning, AcquireLock, PromptInv, HoldInv
<1>3. /\ UNCHANGED <<queues, locks, release, batch, pending, url, site>>
      /\ \A b \in Actor \ {c} : at'[b] = at[b]
      /\ \A b \in Enqueuer \ {c} : held'[b] = held[b]
      /\ held'[c] = locks[site[c]]
      /\ \/ at[c] = "clean" /\ at'[c] = "wait"
         \/ at[c] = "wait" /\ at'[c] = "pop" /\ ~Taken(locks[site[c]])
  <2>1. CASE StartCleaning(c)
    <3>1. site[c] \in DOMAIN locks
      BY <1>2 DEF TableInv
    <3> QED
      BY <1>1, <2>1, <3>1 DEF StartCleaning, Go, ActorsType
  <2>2. CASE AcquireLock(c)
    <3>1. held[c] = locks[site[c]]
      BY <1>1, <2>2 DEF AcquireLock, PromptInv, HoldInv
    <3> QED
      BY <1>1, <2>2, <3>1 DEF AcquireLock, Wait, ActorsType
  <2> QED
    BY <2>1, <2>2
<1>4. HoldInv'
  <2>1. at[c] = "clean" => release[site[c]] = "later"
    BY <1>1 DEF PromptInv, HoldInv
  <2>2. ASSUME NEW b \in Enqueuer \ {c}, at'[b] \in Busy
        PROVE  /\ site'[b] \in DOMAIN queues' \cap DOMAIN release'
               /\ at'[b] # "clean" => held'[b] = locks'[site'[b]]
               /\ at'[b] \in Waiting => release'[site'[b]] = "later"
    BY <1>3, <2>2 DEF PromptInv, HoldInv, Actor
  <2>3. site[c] \in DOMAIN release
    BY <1>1, <1>2 DEF PromptInv, HoldInv
  <2> QED
    BY <1>2, <1>3, <2>1, <2>2, <2>3 DEF HoldInv
<1>5. AloneInv'
  <2>1. CASE at[c] = "clean" /\ at'[c] = "wait"
    BY <1>1, <1>3, <2>1 DEF PromptInv, AloneInv, Leaving, Actor
  <2>2. CASE at[c] = "wait" /\ at'[c] = "pop" /\ ~Taken(locks[site[c]])
    <3>1. ASSUME NEW b \in Enqueuer, b # c, at[b] \in Busy, site[b] = site[c] PROVE FALSE
      <4>1. at[b] = "complete"
        BY <1>1, <2>2, <3>1 DEF PromptInv, AloneInv, Leaving
      <4>2. held[b] = locks[site[c]]
        BY <3>1, <4>1 DEF PromptInv, HoldInv
      <4> QED
        BY <2>2, <4>1, <4>2 DEF Taken
    <3> QED
      BY <1>1, <1>3, <3>1, AloneMoves DEF PromptInv, Actor
  <2> QED
    BY <1>3, <2>1, <2>2
<1>6. FreshInv'
  <2>1. \A v : Fresh(v)' <=> Fresh(v)
    BY <1>3 DEF Fresh
  <2>2. \A b \in Enqueuer : at'[b] = "warm" => at[b] = "warm"
    BY <1>3 DEF Actor
  <2> QED
    BY <1>3, <2>1, <2>2 DEF PromptInv, FreshInv
<1> QED
  BY <1>4, <1>5, <1>6 DEF PromptInv

LEMMA CleanupPrompt ==
  ASSUME ActorsType, TablesType, RestType, PlaceInv, TableInv, PromptInv,
         NEW c \in Cleaner, CleanupDomain(c)
  PROVE  PromptInv'
<1> USE TaskAssumption, DataAssumption
<1>1. c \in Enqueuer /\ c \notin Task /\ c \in Actor
  BY DEF Enqueuer, Actor
<1>2. /\ at[c] = "pop" /\ at'[c] \in {"none", "enter"}
      /\ \A b \in Actor \ {c} : at'[b] = at[b]
      /\ \A b \in Enqueuer \ {c} : site'[b] = site[b] /\ held'[b] = held[b]
      /\ UNCHANGED <<batch, pending, url>>
      /\ \A b \in Enqueuer : at[b] \notin Locked
  BY <1>1 DEF CleanupDomain, Turn, Free, ActorsType, Enqueuer
<1>3. /\ DOMAIN queues' = DOMAIN queues \ {site[c]}
      /\ DOMAIN release' = DOMAIN release \ {site[c]}
      /\ \A d \in DOMAIN queues' : queues'[d] = queues[d] /\ locks'[d] = locks[d]
      /\ \A d \in DOMAIN release' : release'[d] = release[d]
  BY DEF CleanupDomain, Remove, TableInv
<1>4. \A b \in Enqueuer : b # c /\ at[b] \in Busy => site[b] # site[c]
  BY <1>1, <1>2 DEF PromptInv, AloneInv, Leaving
<1>5. \A b \in Enqueuer : at'[b] \in Busy =>
        b # c /\ at'[b] = at[b] /\ site'[b] = site[b] /\ held'[b] = held[b] /\ site[b] # site[c]
  BY <1>2, <1>4 DEF Actor
<1>6. HoldInv'
  BY <1>3, <1>5 DEF PromptInv, HoldInv
<1>7. AloneInv'
  BY <1>5, AloneQuiet DEF PromptInv
<1>8. FreshInv'
  <2>1. \A v : Fresh(v)' <=> Fresh(v)
    BY <1>2 DEF Fresh
  <2>2. \A b \in Enqueuer : at'[b] # "warm"
    BY <1>2 DEF Actor
  <2> QED
    BY <1>2, <1>3, <2>1, <2>2 DEF PromptInv, FreshInv
<1> QED
  BY <1>6, <1>7, <1>8 DEF PromptInv

\* A delay that runs out while nobody waits with a payload of the domain.
LEMMA ElapsePrompt ==
  ASSUME TablesType, RestType, PromptInv, NEW d \in Domain, Elapse(d), ~Hurried(d)
  PROVE  PromptInv'
<1>1. /\ UNCHANGED <<queues, locks, batch, pending, at, url, site, held>>
      /\ DOMAIN release' = DOMAIN release
      /\ \A e \in DOMAIN release : e # d => release'[e] = release[e]
  BY DEF Elapse, TablesType
<1>2. \A a \in Enqueuer : at[a] \in Waiting => site[a] # d
  BY DEF Hurried
<1>3. HoldInv'
  BY <1>1, <1>2 DEF PromptInv, HoldInv
<1>4. AloneInv'
  BY <1>1, AloneQuiet DEF PromptInv
<1>5. FreshInv'
  BY <1>1 DEF PromptInv, FreshInv, Fresh
<1> QED
  BY <1>3, <1>4, <1>5 DEF PromptInv

LEMMA PromptStep ==
  ASSUME ActorsType, TablesType, RestType, PlaceInv, TableInv, Prompt => PromptInv, Next
  PROVE  Prompt' => PromptInv'
<1> SUFFICES ASSUME Prompt' PROVE PromptInv'
  OBVIOUS
<1>0. PromptInv /\ \A d \in Domain : Elapse(d) => ~Hurried(d)
  BY PromptBefore
<1>1. ASSUME NEW t \in Task, Download(t) \/ StartCrawlFails(t) PROVE PromptInv'
  <2>1. CASE TryEnqueue(t) \/ Sleep(t) \/ Complete(t)
    BY <1>0, <2>1, QuietStep, Zenon
  <2>2. CASE Select(t)
    BY <1>0, <2>2, SelectPrompt, Zenon
  <2>3. CASE StartCrawl(t) \/ StartCrawlFails(t) \/ Fetch(t)
    BY <1>0, <2>3, CallPrompt, Zenon
  <2>4. CASE Report(t) \/ Punish(t)
    BY <1>0, <2>4, ReportPrompt, Zenon
  <2> QED
    BY <1>1, <2>1, <2>2, <2>3, <2>4, Zenon DEF Download
<1>2. ASSUME NEW c \in Cleaner, Cleanup(c) PROVE PromptInv'
  BY <1>0, <1>2, CleanPrompt, CleanupPrompt, Zenon DEF Cleanup
<1>3. ASSUME NEW a \in Enqueuer, EnqueueNewDomain(a) \/ QueryFails(a) \/ AcquireLock(a)
      PROVE  PromptInv'
  <2>1. CASE EnterEnqueue(a) \/ GetExcludedDomains(a) \/ GetDistinctDomains(a) \/ QueryFails(a)
    BY <1>0, <2>1, QuietStep, Zenon
  <2>2. CASE GetDomainUrls(a) \/ GetDomainReleaseTime(a)
    BY <1>0, <2>2, EnqueuePrompt, Zenon
  <2>3. CASE AcquireLock(a)
    BY <1>0, <2>3, CallPrompt, CleanPrompt, Zenon DEF Enqueuer
  <2> QED
    BY <1>3, <2>1, <2>2, <2>3, Zenon DEF EnqueueNewDomain
<1>4. ASSUME \/ Drain \/ SetBuckets \/ WaitForDrain \/ PollDrained \/ RequestDrained
             \/ DrainedBuckets
             \/ \E u \in URL : RegisterUrl(u)
             \/ \E d \in Domain : ExcludedChanges(d)
      PROVE  PromptInv'
  BY <1>0, <1>4, QuietStep, Zenon
<1>5. ASSUME NEW d \in Domain, Elapse(d) PROVE PromptInv'
  BY <1>0, <1>5, ElapsePrompt, Zenon
<1> QED
  BY <1>1, <1>2, <1>3, <1>4, <1>5, Zenon DEF Next
-----------------------------------------------------------------------------
(***************************************************************************)
(* The inductive invariant and what follows from it.                       *)
(***************************************************************************)
LEMMA IndInit == Init => IndInv
BY TypeInit, PlaceInit, TableInit, CountsInit, AttestInit, DrainInit, PromptInit, Zenon
   DEF IndInv

LEMMA IndStep == IndInv /\ [Next]_vars => IndInv'
<1>1. CASE UNCHANGED vars
  <2>1. /\ UNCHANGED <<queues, locks, release, inFlight>>
        /\ UNCHANGED <<admitted, ceding, draining, line, at, url, site, held>>
        /\ UNCHANGED <<banned, fetchable, batch, pending, unseen, excluded>>
        /\ UNCHANGED <<attested, drained, events>>
    BY <1>1 DEF vars
  <2>2. (TypeOK => TypeOK') /\ (PlaceInv => PlaceInv') /\ (TableInv => TableInv')
    BY <2>1, Zenon DEF TypeOK, PlaceInv, TableInv
  <2>3. CountsExact => CountsExact'
    BY <2>1, Zenon DEF CountsExact, Holders
  <2>4. /\ AttestInv => AttestInv'
        /\ AttestedStaysEmpty => AttestedStaysEmpty'
        /\ DrainIsFinal => DrainIsFinal'
    BY <2>1, Zenon DEF AttestInv, AttestedStaysEmpty, DrainIsFinal, HasLocalWork, BucketHasWork
  <2>5. DrainInv => DrainInv'
    BY <2>1, Zenon DEF DrainInv, LineOK
  <2>6. PromptInv => PromptInv'
    <3>1. HoldInv => HoldInv'
      BY <2>1, Zenon DEF HoldInv
    <3>2. AloneInv => AloneInv'
      BY <2>1, Zenon DEF AloneInv, Leaving
    <3>3. FreshInv => FreshInv'
      BY <2>1 DEF FreshInv, Fresh
    <3> QED
      BY <3>1, <3>2, <3>3, Zenon DEF PromptInv
  <2>7. Prompt' => Prompt
    BY <2>1 DEF Prompt
  <2> QED
    BY <2>2, <2>3, <2>4, <2>5, <2>6, <2>7, Zenon DEF IndInv
<1>2. ASSUME IndInv, Next PROVE IndInv'
  <2>1. /\ TypeOK /\ PlaceInv /\ TableInv /\ CountsExact /\ AttestInv /\ AttestedStaysEmpty
        /\ DrainInv /\ DrainIsFinal /\ (Prompt => PromptInv)
        /\ ActorsType /\ TablesType /\ RestType
    BY <1>2, TypeParts, Zenon DEF IndInv
  <2>2. TypeOK'
    BY <1>2, <2>1, TypeStep, Zenon DEF TableInv
  <2>3. PlaceInv'
    BY <1>2, <2>1, PlaceStep, Zenon
  <2>4. TableInv' /\ CountsExact'
    BY <1>2, <2>1, TableStep, CountsStep, Zenon
  <2>5. AttestInv' /\ AttestedStaysEmpty'
    BY <1>2, <2>1, AttestStep, Zenon
  <2>6. DrainInv' /\ DrainIsFinal'
    BY <1>2, <2>1, <2>3, DrainStep, Zenon
  <2>7. Prompt' => PromptInv'
    BY <1>2, <2>1, PromptStep, Zenon
  <2> QED
    BY <2>2, <2>3, <2>4, <2>5, <2>6, <2>7, Zenon DEF IndInv
<1> QED
  BY <1>1, <1>2, Zenon

\* The invariant that the theorems below follow from.
THEOREM Inductive == Spec => []IndInv
BY IndInit, IndStep, PTL DEF Spec

\* Every table, counter, place and local variable keeps its type.
THEOREM TypeCorrect == Spec => []TypeOK
<1>1. IndInv => TypeOK
  BY DEF IndInv
<1> QED
  BY <1>1, Inductive, PTL

(***************************************************************************)
(* The scan of next never raises the KeyError of the comment at            *)
(* backqueue.py:188, and there are at most MAX_ACTIVE_DOMAINS domains.     *)
(***************************************************************************)
THEOREM ScanHolds == Spec => []ScanSafe
<1>1. IndInv => ScanSafe
  BY DEF IndInv, TableInv, ScanSafe, Free
<1> QED
  BY <1>1, Inductive, PTL

(***************************************************************************)
(* The in-flight count of a bucket is the number of its payloads in hand,  *)
(* whichever way downloads end (next and complete).                        *)
(***************************************************************************)
THEOREM CountsHold == Spec => []CountsExact
<1>1. IndInv => CountsExact
  BY DEF IndInv
<1> QED
  BY <1>1, Inductive, PTL

(***************************************************************************)
(* Once wait_for_drain has returned True there is no local work again.     *)
(***************************************************************************)
THEOREM DrainHolds == Spec => []DrainIsFinal
<1>1. IndInv => DrainIsFinal
  BY DEF IndInv
<1> QED
  BY <1>1, Inductive, PTL

(***************************************************************************)
(* A bucket found by drained_buckets has no work before the next           *)
(* assignment, although set_buckets takes no lock.                         *)
(***************************************************************************)
THEOREM AttestationHolds == Spec => []AttestedStaysEmpty
<1>1. IndInv => AttestedStaysEmpty
  BY DEF IndInv
<1> QED
  BY <1>1, Inductive, PTL

(***************************************************************************)
(* While calls are prompt, at most one page of a domain is fetched at a    *)
(* time, although domains come and go with their Locks.                    *)
(***************************************************************************)
THEOREM FetchesExclude == Spec => []OneFetch
<1>1. IndInv => OneFetch
  BY DEF IndInv, PromptInv, AloneInv, Leaving, OneFetch, Enqueuer
<1> QED
  BY <1>1, Inductive, PTL

(***************************************************************************)
(* While calls are prompt, what is queued has no crawl and is in nobody's  *)
(* hand (the comment at backqueue.py:344).                                 *)
(***************************************************************************)
THEOREM QueuedHolds == Spec => []QueuedUncrawled
<1>1. IndInv => QueuedUncrawled
  BY DEF IndInv, PromptInv, FreshInv, Fresh, QueuedUncrawled, FreshPayloads
<1> QED
  BY <1>1, Inductive, PTL

(***************************************************************************)
(* While calls are prompt, a report finds the queue of its domain.         *)
(***************************************************************************)
THEOREM ReportHolds == Spec => []ReportFinds
<1>1. IndInv => ReportFinds
  BY DEF IndInv, PromptInv, HoldInv, ReportFinds, Enqueuer
<1> QED
  BY <1>1, Inductive, PTL
=============================================================================
