------------------------------ MODULE Pipeline ------------------------------
(***************************************************************************)
(* The crawl pipeline: the Frontier, Parser and Storage consume topics of  *)
(* the broker, the Downloader loops over the registered URLs               *)
(* (linksurf/components), and each saves its execution into the crawl of   *)
(* the URL (components/base.py, services/database.py).                     *)
(*                                                                         *)
(* One action is one call to the broker, the cache or the database.  Every *)
(* task belongs to a process of its own; the tasks of one process fail one *)
(* after the other.  Here a URL without a crawl is handed to one loop at a *)
(* time: that is BackQueue's concern, as the domains are DomainRecords'.   *)
(***************************************************************************)
EXTENDS Integers, FiniteSets

CONSTANTS Task,              \* handlers and loops that may be busy at a time
          URL,
          Seed,              \* the URLs Application.seed publishes
          LinksOf,           \* the links of each page
          Target,            \* where a URL redirects to, NoURL for a page
          MaxRedirectDepth,  \* MAX_REDIRECT_DEPTH
          Possible,          \* the outside events that may happen, each once
          MaxEvents          \* how many of them a behaviour may have

NoURL == "no url"
Component == {"Frontier", "Downloader", "Parser", "Storage"}
Recorder == Component \ {"Frontier"}

(***************************************************************************)
(* "error": a call of the component raises.  "refuse": a rule or a filter  *)
(* says no.  "crash": its process dies.  "reconnect": the connection to    *)
(* the broker is lost and restored while a message is in a handler.        *)
(***************************************************************************)
Event == Component \X {"error", "refuse", "crash", "reconnect"}

ASSUME PipelineAssumption ==
  /\ NoURL \notin URL /\ Seed \subseteq URL
  /\ LinksOf \in [URL -> SUBSET URL]
  /\ Target \in [URL -> URL \cup {NoURL}]
  /\ MaxRedirectDepth \in Nat \ {0}
  /\ IsFiniteSet(Possible) /\ Possible \subseteq Event /\ MaxEvents \in Nat

Topic == {"url.process", "url.parse", "url.store"}
\* What matters of a Payload in a queue; "hops" is the length of redirects.
Message == [topic : Topic, url : URL, hops : 0..MaxRedirectDepth]

(***************************************************************************)
(* A job is what a task is doing, for which component, with which payload. *)
(* "ended" is how the callback ended, payload.published and the response   *)
(* included; "links" are those a Parser has still to publish; "lost" is a  *)
(* message the broker has taken back.                                      *)
(***************************************************************************)
Place == {"check", "mark", "enrich", "register", "start", "fetch", "extract",
          "links", "forward", "store", "overwrite", "append", "finish", "ack"}
Job == [of : Component, at : Place, url : URL, hops : 0..MaxRedirectDepth,
        ended : {"none", "error", "published", "redirect"},
        links : SUBSET URL, lost : BOOLEAN]
Idle == [of |-> "nobody", at |-> "idle", url |-> NoURL, hops |-> 0,
         ended |-> "none", links |-> {}, lost |-> FALSE]
Final == {"errored", "redirected", "succeeded", "skipped"}

VARIABLES
  waiting,     \* message -> how many copies its queue holds
  job,         \* what each task is doing
  seen,        \* the set of seen URLs in the cache
  registered,  \* the URLs that have a document in the database
  status,      \* the status of a URL's crawl, "none" before start_crawl
  entries,     \* how many execution entries the crawl has per component
  finishes,    \* CrawlFinishEvents emitted for each URL
  events       \* the outside events that have happened

crawls == <<status, entries>>
vars == <<waiting, job, seen, registered, crawls, finishes, events>>

\* Every queue, job and record has its type.
TypeOK ==
  /\ waiting \in [Message -> Nat]
  /\ job \in [Task -> Job \cup {Idle}]
  /\ seen \in SUBSET URL /\ registered \in SUBSET URL
  /\ status \in [URL -> Final \cup {"none", "in_progress"}]
  /\ entries \in [URL -> [Recorder -> Nat]]
  /\ finishes \in [URL -> Nat]
  /\ events \in SUBSET Possible

Mail(topic, u, hops) == [topic |-> topic, url |-> u, hops |-> hops]

\* The seeds are published; database and cache are empty.
Init ==
  /\ waiting = [m \in Message |->
       IF \E u \in Seed : m = Mail("url.process", u, 0) THEN 1 ELSE 0]
  /\ job = [t \in Task |-> Idle]
  /\ seen = {} /\ registered = {}
  /\ status = [u \in URL |-> "none"]
  /\ entries = [u \in URL |-> [c \in Recorder |-> 0]]
  /\ finishes = [u \in URL |-> 0]
  /\ events = {}

-----------------------------------------------------------------------------
(***************************************************************************)
(* The steps of a job.                                                     *)
(***************************************************************************)
Busy(t) == job[t] # Idle
At(t, place) == job[t].at = place
Runs(t, c) == job[t].of = c

Occurs(c, kind) ==
  /\ <<c, kind>> \in Possible \ events
  /\ Cardinality(events) < MaxEvents
  /\ events' = events \cup {<<c, kind>>}

Begin(t, c, place, u, hops) ==
  job' = [job EXCEPT ![t] = [of |-> c, at |-> place, url |-> u, hops |-> hops,
                             ended |-> "none", links |-> {}, lost |-> FALSE]]
Goto(t, place) == job' = [job EXCEPT ![t].at = place]
Leave(t) == job' = [job EXCEPT ![t] = Idle]

\* The callback returns; the Frontier has no crawl to save its execution in.
Return(t, how) ==
  job' = [job EXCEPT
    ![t].at = IF @ \in {"check", "mark", "enrich", "register"} THEN "ack"
              ELSE "overwrite",
    ![t].ended = how, ![t].links = {}]

Send(m) == waiting' = [waiting EXCEPT ![m] = @ + 1]

\* The job goes on, or its callback returns, with nothing else to show.
Quiet == UNCHANGED <<waiting, seen, registered, crawls, finishes>>
Passes(t, place) == Goto(t, place) /\ Quiet /\ UNCHANGED events
Ends(t, how) == Return(t, how) /\ Quiet /\ UNCHANGED events
Raises(t) == Occurs(job[t].of, "error") /\ Return(t, "error") /\ Quiet
Refuses(t) == Occurs(job[t].of, "refuse") /\ Return(t, "none") /\ Quiet

\* The broker hands a message to a free handler of its topic.
Deliver(t) ==
  /\ ~Busy(t)
  /\ \E m \in Message :
       /\ waiting[m] > 0
       /\ waiting' = [waiting EXCEPT ![m] = @ - 1]
       /\ \/ m.topic = "url.process" /\ Begin(t, "Frontier", "check", m.url, m.hops)
          \/ m.topic = "url.parse" /\ Begin(t, "Parser", "extract", m.url, m.hops)
          \/ m.topic = "url.store" /\ Begin(t, "Storage", "store", m.url, m.hops)
  /\ UNCHANGED <<seen, registered, crawls, finishes, events>>

-----------------------------------------------------------------------------
(***************************************************************************)
(* Frontier.process.                                                       *)
(***************************************************************************)
\* The rules, then URLDeduplicator.check.
Check(t) ==
  /\ At(t, "check")
  /\ \/ job[t].url \in seen /\ Ends(t, "none")
     \/ job[t].url \notin seen /\ Passes(t, "mark")
     \/ Raises(t)
     \/ Refuses(t)

\* URLDeduplicator.register.  Here as in every write, a call that raises may
\* have been made all the same.
Mark(t) ==
  /\ At(t, "mark")
  /\ \/ /\ seen' = seen \cup {job[t].url}
        /\ \/ Goto(t, "enrich") /\ UNCHANGED events
           \/ Occurs("Frontier", "error") /\ Return(t, "error")
        /\ UNCHANGED <<waiting, registered, crawls, finishes>>
     \/ Raises(t)

\* The middlewares, the filters and the prioritizer.
Enrich(t) ==
  /\ At(t, "enrich")
  /\ Passes(t, "register") \/ Raises(t) \/ Refuses(t)

\* Faulty variant: the document is replaced.
RegisterReplaces(t) ==
  /\ At(t, "register")
  /\ registered' = registered \cup {job[t].url}
  /\ status' = [status EXCEPT ![job[t].url] = "none"]
  /\ Return(t, "none")
  /\ UNCHANGED <<waiting, seen, entries, finishes, events>>

\* register_url inserts a document or leaves the one there is.  An error of
\* save_domain, which follows, ends the callback as its success does.
RegisterUrl(t) ==
  /\ At(t, "register")
  /\ \/ /\ registered' = registered \cup {job[t].url}
        /\ Return(t, "none")
        /\ UNCHANGED <<waiting, seen, crawls, finishes, events>>
     \/ Raises(t)

-----------------------------------------------------------------------------
(***************************************************************************)
(* Downloader.download.                                                    *)
(***************************************************************************)
\* The BackQueue hands out a fresh Payload of a URL that has no crawl.
Pull(t) ==
  /\ ~Busy(t)
  /\ \E u \in registered :
       /\ status[u] = "none"
       /\ \A s \in Task : Runs(s, "Downloader") => job[s].url # u
       /\ Begin(t, "Downloader", "start", u, 0)
  /\ Quiet /\ UNCHANGED events

\* If it raises, the payload has no crawl to save an execution in.
StartCrawl(t) ==
  /\ At(t, "start")
  /\ \/ /\ status' = [status EXCEPT ![job[t].url] = "in_progress"]
        /\ \/ Goto(t, "fetch") /\ UNCHANGED events
           \/ Occurs("Downloader", "error") /\ Leave(t)
        /\ UNCHANGED <<waiting, seen, registered, entries, finishes>>
     \/ Occurs("Downloader", "error") /\ Leave(t) /\ Quiet

\* A page: the response, the filters and the upload.
Fetch(t) ==
  /\ At(t, "fetch") /\ Target[job[t].url] = NoURL
  /\ Passes(t, "forward") \/ Raises(t) \/ Refuses(t)

\* Faulty variant: the target is marked seen before the Frontier gets it.
RedirectMarksSeen(t) ==
  /\ Send(Mail("url.process", Target[job[t].url], job[t].hops + 1))
  /\ seen' = seen \cup {Target[job[t].url]}
  /\ Return(t, "redirect")
  /\ UNCHANGED <<registered, crawls, finishes, events>>

\* _handle_redirect: the depth is the length of redirects before this one,
\* which Pull leaves empty: the limit is never met.
Redirect(t) ==
  /\ Send(Mail("url.process", Target[job[t].url], job[t].hops + 1))
  /\ \/ Return(t, "redirect") /\ UNCHANGED events
     \/ Occurs("Downloader", "error") /\ Return(t, "error")
  /\ UNCHANGED <<seen, registered, crawls, finishes>>

HandleRedirect(t) ==
  /\ At(t, "fetch") /\ Target[job[t].url] # NoURL
  /\ \/ IF job[t].hops < MaxRedirectDepth THEN Redirect(t) ELSE Ends(t, "error")
     \/ Raises(t)

\* The Downloader publishes to the Parser, the Parser to the Storage.  A
\* publish that raises may have reached the broker.
NextTopic(t) == IF Runs(t, "Downloader") THEN "url.parse" ELSE "url.store"
\* Faulty variant: the Parser does not set payload.published.
ForwardUnmarked(t) ==
  /\ At(t, "forward")
  /\ Send(Mail(NextTopic(t), job[t].url, 0))
  /\ Return(t, IF Runs(t, "Parser") THEN "none" ELSE "published")
  /\ UNCHANGED <<seen, registered, crawls, finishes, events>>

Forward(t) ==
  /\ At(t, "forward")
  /\ \/ /\ Send(Mail(NextTopic(t), job[t].url, 0))
        /\ \/ Return(t, "published") /\ UNCHANGED events
           \/ Occurs(job[t].of, "error") /\ Return(t, "error")
        /\ UNCHANGED <<seen, registered, crawls, finishes>>
     \/ Raises(t)

-----------------------------------------------------------------------------
(***************************************************************************)
(* Parser.parse and Storage.store.                                         *)
(***************************************************************************)
\* Download, extract, and ask which links are new.  When only the question
\* fails, or an extractor, the page goes on without its links.
Extract(t) ==
  LET u == job[t].url
  IN  /\ At(t, "extract")
      /\ \/ /\ job' = [job EXCEPT ![t].at = "links",
                                  ![t].links = LinksOf[u] \ (seen \cup {u})]
            /\ Quiet /\ UNCHANGED events
         \/ Occurs("Parser", "error") /\ Goto(t, "links") /\ Quiet
         \/ Raises(t)

\* Faulty variant: a link is marked seen when it is published.
LinkMarkedSeen(t) ==
  /\ At(t, "links")
  /\ \E v \in job[t].links :
       /\ Send(Mail("url.process", v, 0))
       /\ job' = [job EXCEPT ![t].links = @ \ {v}]
       /\ seen' = seen \cup {v}
  /\ UNCHANGED <<registered, crawls, finishes, events>>

\* publish sends the links one by one.
PublishLink(t) ==
  /\ At(t, "links") /\ job[t].links # {}
  /\ \/ /\ \E v \in job[t].links :
             /\ Send(Mail("url.process", v, 0))
             /\ job' = [job EXCEPT ![t].links = @ \ {v}]
        /\ UNCHANGED <<seen, registered, crawls, finishes, events>>
     \/ Raises(t)

\* LanguageMiddleware and LanguageFilter, after the links are gone.
FilterPage(t) ==
  /\ At(t, "links") /\ job[t].links = {}
  /\ Passes(t, "forward") \/ Raises(t) \/ Refuses(t)

\* update_domain_metrics.
StorePage(t) ==
  /\ At(t, "store")
  /\ Ends(t, "none") \/ Raises(t)

-----------------------------------------------------------------------------
(***************************************************************************)
(* _save_execution and update_crawl, and the end of the handler.           *)
(***************************************************************************)
\* Faulty variant: what the callback ended with is the status.
StatusRaw(j) == IF j.ended = "none" THEN "succeeded" ELSE j.ended

StatusOf(j) ==
  CASE j.ended = "error" -> "errored"
    [] j.ended = "published" -> "in_progress"
    [] j.ended = "redirect" -> "redirected"
    [] j.ended = "none" /\ j.of = "Storage" -> "succeeded"
    [] OTHER -> "skipped"

\* Faulty variant: every component reports the crawl as finished.
AlwaysFinish(t) == Goto(t, "finish")

\* After update_crawl: CrawlFinishEvent unless the crawl goes on.
AfterSave(t) ==
  IF StatusOf(job[t]) # "in_progress" THEN Goto(t, "finish")
  ELSE IF Runs(t, "Downloader") THEN Leave(t) ELSE Goto(t, "ack")

SaveStatus(t) == status' = [status EXCEPT ![job[t].url] = StatusOf(job[t])]

\* A failure is only logged.
SaveFails(t) == Occurs(job[t].of, "error") /\ AfterSave(t) /\ Quiet

\* Faulty variant: an execution is always appended.
AppendOnly(t) == At(t, "overwrite") /\ Passes(t, "append")

\* The first update matches a crawl that has an entry of the component.
Overwrite(t) ==
  /\ At(t, "overwrite")
  /\ \/ /\ entries[job[t].url][job[t].of] > 0
        /\ SaveStatus(t) /\ AfterSave(t)
        /\ UNCHANGED <<waiting, seen, registered, entries, finishes, events>>
     \/ entries[job[t].url][job[t].of] = 0 /\ Passes(t, "append")
     \/ SaveFails(t)

Append(t) ==
  /\ At(t, "append")
  /\ \/ /\ entries' = [entries EXCEPT ![job[t].url][job[t].of] = @ + 1]
        /\ SaveStatus(t) /\ AfterSave(t)
        /\ UNCHANGED <<waiting, seen, registered, finishes, events>>
     \/ SaveFails(t)

Finish(t) ==
  /\ At(t, "finish")
  /\ finishes' = [finishes EXCEPT ![job[t].url] = @ + 1]
  /\ IF Runs(t, "Downloader") THEN Leave(t) ELSE Goto(t, "ack")
  /\ UNCHANGED <<waiting, seen, registered, crawls, events>>

\* message.process acknowledges when the handler returns; the broker does not
\* know a message that it has taken back.
Ack(t) == At(t, "ack") /\ Leave(t) /\ Quiet /\ UNCHANGED events

-----------------------------------------------------------------------------
(***************************************************************************)
(* Crashes and reconnections: an unacknowledged message goes back to its   *)
(* queue as it was published.                                              *)
(***************************************************************************)
TopicOf(c) == CASE c = "Frontier" -> "url.process"
                [] c = "Parser" -> "url.parse"
                [] c = "Storage" -> "url.store"
TakeBack(t) == Send(Mail(TopicOf(job[t].of), job[t].url, job[t].hops))
Unacked(t) == Busy(t) /\ job[t].of # "Downloader" /\ ~job[t].lost

\* Faulty variant: a message is acknowledged as it is delivered.
CrashForgets(t) ==
  /\ Busy(t)
  /\ Occurs(job[t].of, "crash")
  /\ Leave(t)
  /\ UNCHANGED <<waiting, seen, registered, crawls, finishes>>

Crash(t) ==
  /\ Busy(t)
  /\ Occurs(job[t].of, "crash")
  /\ IF Unacked(t) THEN TakeBack(t) ELSE UNCHANGED waiting
  /\ Leave(t)
  /\ UNCHANGED <<seen, registered, crawls, finishes>>

\* The robust connection subscribes again; the handler goes on as if nothing
\* had happened.
Reconnect(t) ==
  /\ Unacked(t)
  /\ Occurs(job[t].of, "reconnect")
  /\ TakeBack(t)
  /\ job' = [job EXCEPT ![t].lost = TRUE]
  /\ UNCHANGED <<seen, registered, crawls, finishes>>

Step(t) ==
  \/ Deliver(t) \/ Check(t) \/ Mark(t) \/ Enrich(t) \/ RegisterUrl(t)
  \/ Pull(t) \/ StartCrawl(t) \/ Fetch(t) \/ HandleRedirect(t) \/ Forward(t)
  \/ Extract(t) \/ PublishLink(t) \/ FilterPage(t) \/ StorePage(t)
  \/ Overwrite(t) \/ Append(t) \/ Finish(t) \/ Ack(t)
Next == \E t \in Task : Step(t) \/ Crash(t) \/ Reconnect(t)

Spec == Init /\ [][Next]_vars

\* A process runs its tasks on, and when it dies another is left or started
\* whose handlers and loops are free: steps, messages and URLs are taken.
FairSpec == Spec /\ \A t \in Task : WF_vars(Step(t))

-----------------------------------------------------------------------------
(***************************************************************************)
(* Properties.                                                             *)
(***************************************************************************)
Concerning(C) == Cardinality({e \in events : e[1] \in C})

\* update_crawl overwrites the entry of a component that runs again, so a
\* crawl keeps one entry per component, also when a handler dies and its
\* message comes back.  Only two handlers at a time can both append: after a
\* reconnection, or when a Parser has died between its url.store and its ack.
Doubling == [c \in Recorder |->
  CASE c = "Downloader" -> {}
    [] c = "Parser" -> {<<"Parser", "reconnect">>}
    [] c = "Storage" -> {<<"Parser", "crash">>, <<"Parser", "reconnect">>,
                         <<"Storage", "reconnect">>}]
OneEntry ==
  \A u \in URL, c \in Recorder : entries[u][c] <= 1 \/ events \cap Doubling[c] # {}

\* A URL that the cache knows as seen is never taken up again, so it has to be
\* on its way to the database or there: of those that are not, each was lost to
\* an event in the Frontier (an error, a refusal, a crash) of its own.
LostURLs ==
  {u \in seen \ registered :
     ~\E t \in Task : Runs(t, "Frontier") /\ job[t].url = u
                      /\ job[t].at \in {"enrich", "register"}}
SeenIsKept == Cardinality(LostURLs) <= Concerning({"Frontier"})

\* A crawl is reported as finished once, and once more at most for every
\* failure, crash or reconnection of one of the components that record it.
FinishedOnce == \A u \in URL : finishes[u] <= 1 + Concerning(Recorder)

\* "Doesn't upsert to prevent state loss" (register_url): two copies of a URL
\* can both pass the deduplicator, and the later registration must not undo
\* the crawl that the earlier one led to.  No entry is ever lost either.
AttemptsKept ==
  [][\A u \in URL :
       /\ status[u] # "none" => status'[u] # "none"
       /\ \A c \in Recorder : entries'[u][c] >= entries[u][c]]_vars

\* While nothing fails, the only write that replaces the final status of a
\* crawl is the late IN_PROGRESS of a component that has forwarded it.
OnlyLateProgress ==
  [][events' = {} =>
       \A u \in URL : status[u] \in Final =>
         status'[u] \in {status[u], "in_progress"}]_vars

\* A crawl that a Downloader has taken up is reported as finished, whatever
\* fails and whoever dies after it, unless a Downloader's process dies: its
\* payload is in no queue of the broker.
TakenUp(u) == \E t \in Task : At(t, "fetch") /\ job[t].url = u
Announced ==
  \A u \in URL :
    TakenUp(u) ~> finishes[u] > 0 \/ <<"Downloader", "crash">> \in events

\* Every URL that the seeds lead to, by links and redirects, is crawled to an
\* end if no call fails, no URL is refused and neither a Frontier nor a
\* Downloader dies: crashes of the other two and reconnections lose nothing.
Reachable ==
  {u \in URL : \A S \in SUBSET URL :
     /\ Seed \subseteq S
     /\ \A v \in S : IF Target[v] = NoURL THEN LinksOf[v] \subseteq S ELSE Target[v] \in S
     => u \in S}
Harmless == ({"Parser", "Storage"} \X {"crash"}) \cup (Component \X {"reconnect"})
Reaches == \A u \in Reachable : <>(finishes[u] > 0 \/ ~(events \subseteq Harmless))
=============================================================================
