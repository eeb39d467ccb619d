--------------------------- MODULE PipelineProofs ---------------------------
(***************************************************************************)
(* Proofs about the crawl pipeline, for any number of tasks and URLs, any  *)
(* links and redirects, and any outside events.                            *)
(***************************************************************************)
EXTENDS Pipeline, FiniteSetTheorems, TLAPS

-----------------------------------------------------------------------------
(***************************************************************************)
(* The parts of the inductive invariants.                                  *)
(***************************************************************************)
Ahead == {"start", "fetch", "extract", "links", "forward"}
Ending == {"overwrite", "append", "finish"}
PlacesOf(c) ==
  CASE c = "Frontier" -> {"check", "mark", "enrich", "register", "ack"}
    [] c = "Downloader" -> {"start", "fetch", "forward"} \cup Ending
    [] c = "Parser" -> {"extract", "links", "forward", "ack"} \cup Ending
    [] c = "Storage" -> {"store", "ack"} \cup Ending

(***************************************************************************)
(* What a job can be.  A URL is in the hands of one Downloader at a time;  *)
(* from StartCrawl on it has a status.                                     *)
(***************************************************************************)
JobInv ==
  /\ \A t \in Task : job[t] \in Job =>
       /\ job[t].at \in PlacesOf(job[t].of)
       /\ job[t].at \in Ahead \cup {"store"} => job[t].ended = "none"
       /\ job[t].at = "finish" => job[t].ended # "published"
       /\ job[t].of = "Storage" => job[t].ended # "published"
       /\ job[t].of # "Frontier" => job[t].hops = 0
       /\ job[t].of = "Downloader" /\ job[t].at # "start" =>
            status[job[t].url] # "none"
  /\ \A s, t \in Task :
       /\ job[s].of = "Downloader" /\ job[t].of = "Downloader"
       /\ job[s].url = job[t].url
       => s = t

\* Only a message to the Frontier carries redirects.
MailInv ==
  \A m \in Message : waiting[m] > 0 /\ m.topic # "url.process" => m.hops = 0

(***************************************************************************)
(* Where a URL that has been registered can be on its way to its end: with *)
(* nobody yet, in a queue, or in a job.                                    *)
(***************************************************************************)
Jobs(K) == {t \in Task : job[t] \in K}
ToParse(u) == waiting[Mail("url.parse", u, 0)]
ToStore(u) == waiting[Mail("url.store", u, 0)]
Unstarted(u) ==
  status[u] = "none" /\ \A t \in Task : ~(Runs(t, "Downloader") /\ job[t].url = u)
Fresh(u) == IF Unstarted(u) THEN 1 ELSE 0

\* The jobs that are about to report the end of u, or to write it.
Reporting(u) ==
  {j \in Job : /\ j.of \in Recorder /\ j.url = u
               /\ j.at # "ack" /\ j.ended # "published"}
Writing(u) == {j \in Reporting(u) : j.at # "finish"}

\* The jobs of a Parser or Storage with u, and those that may lead to one.
Parsing(u) ==
  {j \in Job : /\ j.url = u
               /\ \/ j.of = "Parser"
                  \/ j.of = "Downloader" /\ j.at \in Ahead}
Storing(u) ==
  {j \in Job : /\ j.url = u
               /\ \/ j.of = "Storage"
                  \/ j.of \in {"Downloader", "Parser"} /\ j.at \in Ahead}

(***************************************************************************)
(* Every end that is still to be reported has a place of its own, and each *)
(* failure, crash or reconnection opens one more.                          *)
(***************************************************************************)
FinishInv ==
  \A u \in URL :
    /\ IsFiniteSet(Jobs(Reporting(u)))
    /\ finishes[u] + Fresh(u) + ToParse(u) + ToStore(u)
         + Cardinality(Jobs(Reporting(u))) <= 1 + Concerning(Recorder)

(***************************************************************************)
(* While nothing fails, a crawl with a final status is in nobody's hand    *)
(* who could write another.                                                *)
(***************************************************************************)
Done(u) == IF status[u] \in Final THEN 1 ELSE 0
WriteInv ==
  events = {} =>
    \A u \in URL :
      /\ IsFiniteSet(Jobs(Writing(u)))
      /\ Done(u) + Fresh(u) + ToParse(u) + ToStore(u)
           + Cardinality(Jobs(Writing(u))) <= 1

(***************************************************************************)
(* Until an event that can double them, a URL has one Parser and one       *)
(* Storage, at work or still to come, and one that is about to append its  *)
(* entry to the crawl is the first to do so.                               *)
(***************************************************************************)
Single(c) == events \cap Doubling[c] = {}
SingleParser ==
  Single("Parser") => \A u \in URL :
    /\ IsFiniteSet(Jobs(Parsing(u)))
    /\ Fresh(u) + ToParse(u) + Cardinality(Jobs(Parsing(u))) <= 1

SingleStorage ==
  Single("Storage") => \A u \in URL :
    /\ IsFiniteSet(Jobs(Storing(u)))
    /\ Fresh(u) + ToParse(u) + ToStore(u) + Cardinality(Jobs(Storing(u))) <= 1

SingleAppend ==
  \A t \in Task : job[t] \in Job /\ job[t].at = "append" /\ Single(job[t].of) =>
    entries[job[t].url][job[t].of] = 0

-----------------------------------------------------------------------------
(***************************************************************************)
(* Jobs.  Every step changes the job of one task.                          *)
(***************************************************************************)
JobsType == job \in [Task -> Job \cup {Idle}]
Others(t) == \A s \in Task \ {t} : job'[s] = job[s]

\* The fields of a job.
LEMMA JobFields ==
  ASSUME NEW j \in Job
  PROVE  /\ j.of \in Component /\ j.at \in Place /\ j.url \in URL
         /\ j.hops \in 0..MaxRedirectDepth
         /\ j.ended \in {"none", "error", "published", "redirect"}
         /\ j.links \in SUBSET URL
         /\ j # Idle
BY DEF Job, Idle, Component

\* An idle task is no job of any component.
LEMMA IdleFields ==
  Idle \notin Job /\ Idle.of = "nobody" /\ Idle.at = "idle" /\ Idle.url = NoURL
BY DEF Idle, Job, Component

\* What begins, ends or goes on is the job of one task: it begins,
LEMMA BeginJob ==
  ASSUME JobsType, NEW t \in Task, NEW c \in Component, NEW p \in Place, NEW u \in URL,
         NEW h \in 0..MaxRedirectDepth, Begin(t, c, p, u, h)
  PROVE  /\ JobsType' /\ Others(t)
         /\ job'[t] \in Job /\ job'[t].of = c /\ job'[t].at = p /\ job'[t].url = u
         /\ job'[t].hops = h /\ job'[t].ended = "none" /\ job'[t].links = {}
<1> DEFINE j == [of |-> c, at |-> p, url |-> u, hops |-> h,
                 ended |-> "none", links |-> {}, lost |-> FALSE]
<1>1. job' = [job EXCEPT ![t] = j]
  BY DEF Begin
<1>2. j \in Job
  BY DEF Job
<1>3. job'[t] = j
  BY <1>1 DEF JobsType
<1>4. JobsType' /\ Others(t)
  BY <1>1, <1>2 DEF JobsType, Others
<1> QED
  BY <1>2, <1>3, <1>4

\* is left,
LEMMA LeaveJob ==
  ASSUME JobsType, NEW t \in Task, Leave(t)
  PROVE  JobsType' /\ Others(t) /\ job'[t] = Idle
BY DEF Leave, JobsType, Others

\* goes on to another place,
LEMMA GotoJob ==
  ASSUME JobsType, NEW t \in Task, job[t] \in Job, NEW p \in Place, Goto(t, p)
  PROVE  /\ JobsType' /\ Others(t)
         /\ job'[t] \in Job /\ job'[t].of = job[t].of /\ job'[t].at = p
         /\ job'[t].url = job[t].url /\ job'[t].hops = job[t].hops
         /\ job'[t].ended = job[t].ended /\ job'[t].links = job[t].links
         /\ job'[t].lost = job[t].lost
<1> DEFINE j == [job[t] EXCEPT !.at = p]
<1>1. job' = [job EXCEPT ![t] = j]
  BY DEF Goto
<1>2. /\ j \in Job /\ j.of = job[t].of /\ j.at = p /\ j.url = job[t].url
      /\ j.hops = job[t].hops /\ j.ended = job[t].ended /\ j.links = job[t].links
      /\ j.lost = job[t].lost
  BY DEF Job
<1>3. job'[t] = j
  BY <1>1 DEF JobsType
<1>4. JobsType' /\ Others(t)
  BY <1>1, <1>2 DEF JobsType, Others
<1> QED
  BY <1>2, <1>3, <1>4

\* or returns from its component's handler.
LEMMA ReturnJob ==
  ASSUME JobsType, NEW t \in Task, job[t] \in Job,
         NEW how \in {"none", "error", "published", "redirect"}, Return(t, how)
  PROVE  /\ JobsType' /\ Others(t)
         /\ job'[t] \in Job /\ job'[t].of = job[t].of /\ job'[t].url = job[t].url
         /\ job'[t].at = IF job[t].at \in {"check", "mark", "enrich", "register"}
                           THEN "ack" ELSE "overwrite"
         /\ job'[t].hops = job[t].hops /\ job'[t].ended = how /\ job'[t].links = {}
         /\ job'[t].lost = job[t].lost
<1> DEFINE p == IF job[t].at \in {"check", "mark", "enrich", "register"}
                  THEN "ack" ELSE "overwrite"
           j == [job[t] EXCEPT !.at = p, !.ended = how, !.links = {}]
<1>1. job' = [job EXCEPT ![t] = j]
  BY DEF Return, JobsType
<1>2. /\ j \in Job /\ j.of = job[t].of /\ j.at = p /\ j.url = job[t].url
      /\ j.hops = job[t].hops /\ j.ended = how /\ j.links = {}
      /\ j.lost = job[t].lost
  BY DEF Job, Place
<1>3. job'[t] = j
  BY <1>1 DEF JobsType
<1>4. JobsType' /\ Others(t)
  BY <1>1, <1>2 DEF JobsType, Others
<1> QED
  BY <1>2, <1>3, <1>4
-----------------------------------------------------------------------------
(***************************************************************************)
(* What a step does, stated for the job of one task, the queues that lead  *)
(* to Parser and Storage, and the crawls.                                  *)
(***************************************************************************)
Held == UNCHANGED <<status, entries, finishes>>
Kept == UNCHANGED <<seen, registered>>
NoMail == \A u \in URL : ToParse(u)' = ToParse(u) /\ ToStore(u)' = ToStore(u)
\* One message more (n = 1) or less (n = -1) that component c gets for u.
Mailed(c, u, n) ==
  \A v \in URL :
    /\ ToParse(v)' = IF c = "Parser" /\ v = u THEN ToParse(v) + n ELSE ToParse(v)
    /\ ToStore(v)' = IF c = "Storage" /\ v = u THEN ToStore(v) + n ELSE ToStore(v)
\* The job goes on, with the same payload.
Goes(t) ==
  /\ job[t] \in Job /\ job'[t] \in Job
  /\ job'[t].of = job[t].of /\ job'[t].url = job[t].url /\ job'[t].hops = job[t].hops

FrontierMove(t) ==
  /\ job[t] \in Job => job[t].of = "Frontier"
  /\ job'[t] \in Job => /\ job'[t].of = "Frontier"
                        /\ job'[t].at \in PlacesOf("Frontier")
  /\ NoMail /\ Held /\ events \subseteq events'

TakeMove(t) ==
  /\ job[t] = Idle /\ job'[t] \in Job
  /\ \/ job'[t].of = "Parser" /\ job'[t].at = "extract"
     \/ job'[t].of = "Storage" /\ job'[t].at = "store"
  /\ job'[t].ended = "none" /\ job'[t].hops = 0
  /\ Mailed(job'[t].of, job'[t].url, -1)
  /\ Held /\ Kept /\ UNCHANGED events

PullMove(t) ==
  /\ job[t] = Idle /\ job'[t] \in Job
  /\ job'[t].of = "Downloader" /\ job'[t].at = "start"
  /\ job'[t].ended = "none" /\ job'[t].hops = 0
  /\ Unstarted(job'[t].url)
  /\ NoMail /\ Held /\ Kept /\ UNCHANGED events

StartMove(t) ==
  /\ job[t] \in Job /\ job[t].of = "Downloader" /\ job[t].at = "start"
  /\ \/ /\ Goes(t) /\ job'[t].at = "fetch" /\ job'[t].ended = "none"
        /\ status'[job[t].url] = "in_progress" /\ UNCHANGED events
     \/ /\ job'[t] = Idle /\ Occurs("Downloader", "error")
        /\ status'[job[t].url] \in {status[job[t].url], "in_progress"}
  /\ \A u \in URL \ {job[t].url} : status'[u] = status[u]
  /\ NoMail /\ Kept /\ UNCHANGED <<entries, finishes>>

\* A step within the callback.
WorkMove(t) ==
  /\ Goes(t) /\ job[t].at \in Ahead \ {"start"} /\ job'[t].at \in Ahead \ {"start"}
  /\ job'[t].at \in PlacesOf(job[t].of) /\ job[t].of # "Frontier"
  /\ job'[t].ended = "none"
  /\ NoMail /\ Held /\ Kept /\ events \subseteq events'

\* The callback returns or raises, without having published.
ReturnMove(t) ==
  /\ Goes(t) /\ job[t].at \in (Ahead \ {"start"}) \cup {"store"}
  /\ job[t].of # "Frontier"
  /\ job'[t].at = "overwrite" /\ job'[t].ended # "published"
  /\ NoMail /\ Held /\ Kept /\ events \subseteq events'

ForwardMove(t) ==
  /\ Goes(t) /\ job[t].at = "forward" /\ job[t].of \in {"Downloader", "Parser"}
  /\ job'[t].at = "overwrite"
  /\ \/ job'[t].ended = "published" /\ UNCHANGED events
     \/ job'[t].ended # "published" /\ Occurs(job[t].of, "error")
  /\ Mailed(IF job[t].of = "Downloader" THEN "Parser" ELSE "Storage", job[t].url, 1)
  /\ Held /\ Kept

AppendMove(t) ==
  /\ Goes(t) /\ job[t].at = "overwrite" /\ job[t].of # "Frontier"
  /\ job'[t].at = "append" /\ job'[t].ended = job[t].ended
  /\ entries[job[t].url][job[t].of] = 0
  /\ NoMail /\ Held /\ Kept /\ UNCHANGED events

\* What the save of an execution leaves to do.
Saved(t) ==
  \/ job[t].ended # "published" /\ Goes(t) /\ job'[t].at = "finish"
  \/ job[t].ended = "published" /\ job[t].of = "Downloader" /\ job'[t] = Idle
  \/ job[t].ended = "published" /\ job[t].of # "Downloader" /\ Goes(t) /\ job'[t].at = "ack"

SaveMove(t) ==
  LET u == job[t].url
      c == job[t].of
  IN  /\ job[t] \in Job /\ job[t].at \in {"overwrite", "append"} /\ c # "Frontier"
      /\ Saved(t) /\ (job'[t] \in Job => job'[t].ended = job[t].ended)
      /\ \/ Occurs(c, "error") /\ UNCHANGED <<status, entries>>
         \/ /\ UNCHANGED events
            /\ \A v \in URL : status'[v] = IF v = u THEN StatusOf(job[t]) ELSE status[v]
            /\ \A v \in URL, d \in Recorder :
                 entries'[v][d] = entries[v][d] +
                   (IF v = u /\ d = c /\ job[t].at = "append" THEN 1 ELSE 0)
      /\ NoMail /\ Kept /\ UNCHANGED finishes

FinishMove(t) ==
  /\ job[t] \in Job /\ job[t].at = "finish" /\ job[t].of # "Frontier"
  /\ \/ job[t].of = "Downloader" /\ job'[t] = Idle
     \/ /\ job[t].of # "Downloader" /\ Goes(t)
        /\ job'[t].at = "ack" /\ job'[t].ended = job[t].ended
  /\ \A u \in URL : finishes'[u] = finishes[u] + (IF u = job[t].url THEN 1 ELSE 0)
  /\ NoMail /\ Kept /\ UNCHANGED <<status, entries, events>>

AckMove(t) ==
  /\ job[t] \in Job /\ job[t].at = "ack" /\ job[t].of # "Frontier" /\ job'[t] = Idle
  /\ NoMail /\ Held /\ Kept /\ UNCHANGED events

CrashMove(t) ==
  /\ job[t] \in Job /\ job[t].of # "Frontier" /\ job'[t] = Idle
  /\ Occurs(job[t].of, "crash")
  /\ NoMail \/ Mailed(job[t].of, job[t].url, 1)
  /\ Held /\ Kept

ReconnectMove(t) ==
  /\ Goes(t) /\ job[t].of \in {"Parser", "Storage"}
  /\ job'[t].at = job[t].at /\ job'[t].ended = job[t].ended
  /\ Occurs(job[t].of, "reconnect")
  /\ Mailed(job[t].of, job[t].url, 1)
  /\ Held /\ Kept

Moves(t) ==
  /\ Others(t)
  /\ \/ FrontierMove(t) \/ TakeMove(t) \/ PullMove(t) \/ StartMove(t) \/ WorkMove(t)
     \/ ReturnMove(t) \/ ForwardMove(t) \/ AppendMove(t) \/ SaveMove(t) \/ FinishMove(t)
     \/ AckMove(t) \/ CrashMove(t) \/ ReconnectMove(t)
-----------------------------------------------------------------------------
(***************************************************************************)
(* Messages.                                                               *)
(***************************************************************************)
MailType == waiting \in [Message -> Nat]

\* The fields of a message.
LEMMA MailFields ==
  ASSUME NEW topic \in Topic, NEW u \in URL, NEW h \in 0..MaxRedirectDepth
  PROVE  /\ Mail(topic, u, h) \in Message
         /\ Mail(topic, u, h).topic = topic /\ Mail(topic, u, h).hops = h
         /\ \A tp, v, g : Mail(topic, u, h) = Mail(tp, v, g) <=>
              topic = tp /\ u = v /\ h = g
BY DEF Mail, Message

\* A message can carry no redirects.
LEMMA NoHops == 0 \in 0..MaxRedirectDepth
BY PipelineAssumption

\* A message that is sent waits in its own queue only.
LEMMA SendMail ==
  ASSUME MailType, MailInv, NEW topic \in Topic, NEW u \in URL,
         NEW h \in 0..MaxRedirectDepth, topic # "url.process" => h = 0,
         Send(Mail(topic, u, h))
  PROVE  /\ MailType' /\ MailInv'
         /\ topic = "url.process" => NoMail
         /\ topic = "url.parse" => Mailed("Parser", u, 1)
         /\ topic = "url.store" => Mailed("Storage", u, 1)
<1>1. PICK m \in Message :
        /\ m = Mail(topic, u, h) /\ m.topic = topic /\ m.hops = h
  BY MailFields
<1>2. /\ waiting' \in [Message -> Nat] /\ waiting'[m] = waiting[m] + 1
      /\ \A n \in Message \ {m} : waiting'[n] = waiting[n]
  BY <1>1 DEF MailType, Send
<1>3. MailInv'
  BY <1>1, <1>2 DEF MailInv
<1>4. ASSUME NEW v \in URL
      PROVE  /\ Mail("url.parse", v, 0) \in Message /\ Mail("url.store", v, 0) \in Message
             /\ m = Mail("url.parse", v, 0) <=> topic = "url.parse" /\ v = u
             /\ m = Mail("url.store", v, 0) <=> topic = "url.store" /\ v = u
  BY <1>1, NoHops, MailFields DEF Topic
<1>5. ASSUME NEW v \in URL
      PROVE  /\ ToParse(v)' = IF topic = "url.parse" /\ v = u THEN ToParse(v) + 1 ELSE ToParse(v)
             /\ ToStore(v)' = IF topic = "url.store" /\ v = u THEN ToStore(v) + 1 ELSE ToStore(v)
  BY <1>2, <1>4 DEF ToParse, ToStore
<1> QED
  BY <1>2, <1>3, <1>5 DEF MailType, NoMail, Mailed

\* A message that is taken leaves its own queue only.
LEMMA TakeMail ==
  ASSUME MailType, MailInv, NEW m \in Message, waiting[m] > 0,
         waiting' = [waiting EXCEPT ![m] = @ - 1]
  PROVE  /\ MailType' /\ MailInv' /\ (m.topic # "url.process" => m.hops = 0)
         /\ m.topic = "url.process" => NoMail
         /\ m.topic = "url.parse" => Mailed("Parser", m.url, -1)
         /\ m.topic = "url.store" => Mailed("Storage", m.url, -1)
<1>1. /\ waiting' \in [Message -> Nat] /\ waiting'[m] = waiting[m] - 1
      /\ \A n \in Message \ {m} : waiting'[n] = waiting[n]
  BY DEF MailType
<1>2. MailInv' /\ (m.topic # "url.process" => m.hops = 0)
  BY <1>1 DEF MailInv, MailType
<1>3. m = Mail(m.topic, m.url, m.hops) /\ m.topic \in Topic /\ m.url \in URL
      /\ m.hops \in 0..MaxRedirectDepth
  BY DEF Mail, Message
<1>4. ASSUME NEW v \in URL
      PROVE  /\ Mail("url.parse", v, 0) \in Message /\ Mail("url.store", v, 0) \in Message
             /\ m = Mail("url.parse", v, 0) <=> m.topic = "url.parse" /\ v = m.url
             /\ m = Mail("url.store", v, 0) <=> m.topic = "url.store" /\ v = m.url
  BY <1>2, <1>3, NoHops, MailFields DEF Topic
<1>5. ASSUME NEW v \in URL
      PROVE  /\ ToParse(v)' = IF m.topic = "url.parse" /\ v = m.url
                                THEN ToParse(v) + (-1) ELSE ToParse(v)
             /\ ToStore(v)' = IF m.topic = "url.store" /\ v = m.url
                                THEN ToStore(v) + (-1) ELSE ToStore(v)
  BY <1>1, <1>4 DEF ToParse, ToStore, MailType
<1> QED
  BY <1>1, <1>2, <1>5 DEF MailType, NoMail, Mailed

\* A step that leaves the queues alone sends nothing.
LEMMA MailKept == UNCHANGED waiting => NoMail
BY DEF NoMail, ToParse, ToStore

-----------------------------------------------------------------------------
(***************************************************************************)
(* Every step is one of these moves.                                       *)
(***************************************************************************)
Base == JobsType /\ MailType /\ MailInv /\ JobInv
Moved(t) == JobsType' /\ MailType' /\ MailInv' /\ Moves(t)

\* A task that is at work has a job, of the component the place belongs to.
LEMMA AtJob ==
  ASSUME JobsType, JobInv, NEW t \in Task, job[t].at # "idle"
  PROVE  /\ job[t] \in Job
         /\ job[t].at \in {"check", "mark", "enrich", "register"} => job[t].of = "Frontier"
         /\ job[t].at \in {"start", "fetch"} => job[t].of = "Downloader"
         /\ job[t].at \in {"extract", "links"} => job[t].of = "Parser"
         /\ job[t].at = "store" => job[t].of = "Storage"
         /\ job[t].at = "forward" => job[t].of \in {"Downloader", "Parser"}
         /\ job[t].at \in Ending => job[t].of # "Frontier"
         /\ job[t].at = "ack" => job[t].of # "Downloader"
<1>1. job[t] \in Job
  BY IdleFields DEF JobsType
<1>2. job[t].of \in Component /\ job[t].at \in PlacesOf(job[t].of)
  BY <1>1, JobFields DEF JobInv
<1> QED
  BY <1>1, <1>2 DEF Component, PlacesOf, Ending

\* So what is known of the queues stays true.
LEMMA MailStays ==
  ASSUME MailType, MailInv, UNCHANGED waiting
  PROVE  MailType' /\ MailInv' /\ NoMail
BY MailKept DEF MailType, MailInv

\* The places of a job.
LEMMA PlaceNames ==
  \A p \in {"check", "mark", "enrich", "register", "start", "fetch", "extract",
            "links", "forward", "store", "overwrite", "append", "finish", "ack"} : p \in Place
BY DEF Place

\* The move each action is: a delivery,
LEMMA DeliverMoves ==
  ASSUME Base, NEW t \in Task, Deliver(t)
  PROVE  Moved(t)
<1>1. PICK m \in Message :
        /\ waiting[m] > 0 /\ waiting' = [waiting EXCEPT ![m] = @ - 1]
        /\ \/ m.topic = "url.process" /\ Begin(t, "Frontier", "check", m.url, m.hops)
           \/ m.topic = "url.parse" /\ Begin(t, "Parser", "extract", m.url, m.hops)
           \/ m.topic = "url.store" /\ Begin(t, "Storage", "store", m.url, m.hops)
  BY DEF Deliver
<1>2. /\ MailType' /\ MailInv' /\ (m.topic # "url.process" => m.hops = 0)
      /\ m.topic = "url.process" => NoMail
      /\ m.topic = "url.parse" => Mailed("Parser", m.url, -1)
      /\ m.topic = "url.store" => Mailed("Storage", m.url, -1)
  BY <1>1, TakeMail DEF Base
<1>3. /\ m.url \in URL /\ m.hops \in 0..MaxRedirectDepth
      /\ job[t] = Idle /\ Held /\ Kept /\ UNCHANGED events
  BY DEF Message, Deliver, Busy, Held, Kept, crawls
<1>4. CASE m.topic = "url.process"
  <2>1. Begin(t, "Frontier", "check", m.url, m.hops)
    BY <1>1, <1>4
  <2>2. JobsType' /\ Others(t) /\ job'[t].of = "Frontier" /\ job'[t].at = "check"
    BY <1>3, <2>1, BeginJob, PlaceNames DEF Base, Component
  <2>3. FrontierMove(t)
    BY <1>2, <1>3, <1>4, <2>2, IdleFields DEF FrontierMove, PlacesOf
  <2> QED
    BY <1>2, <2>2, <2>3 DEF Moved, Moves
<1>5. CASE m.topic = "url.parse"
  <2>1. Begin(t, "Parser", "extract", m.url, m.hops)
    BY <1>1, <1>5
  <2>2. /\ JobsType' /\ Others(t) /\ job'[t] \in Job /\ job'[t].url = m.url
        /\ job'[t].of = "Parser" /\ job'[t].at = "extract"
        /\ job'[t].ended = "none" /\ job'[t].hops = 0
    BY <1>2, <1>3, <1>5, <2>1, BeginJob, PlaceNames DEF Base, Component
  <2>3. TakeMove(t)
    BY <1>2, <1>3, <1>5, <2>2 DEF TakeMove
  <2> QED
    BY <1>2, <2>2, <2>3 DEF Moved, Moves
<1>6. CASE m.topic = "url.store"
  <2>1. Begin(t, "Storage", "store", m.url, m.hops)
    BY <1>1, <1>6
  <2>2. /\ JobsType' /\ Others(t) /\ job'[t] \in Job /\ job'[t].url = m.url
        /\ job'[t].of = "Storage" /\ job'[t].at = "store"
        /\ job'[t].ended = "none" /\ job'[t].hops = 0
    BY <1>2, <1>3, <1>6, <2>1, BeginJob, PlaceNames DEF Base, Component
  <2>3. TakeMove(t)
    BY <1>2, <1>3, <1>6, <2>2 DEF TakeMove
  <2> QED
    BY <1>2, <2>2, <2>3 DEF Moved, Moves
<1> QED
  BY <1>1, <1>4, <1>5, <1>6

\* The steps of a callback that only go on, or return, or raise.
LEMMA FrontierGoes ==
  ASSUME Base, NEW t \in Task, job[t] \in Job, job[t].of = "Frontier",
         \/ \E p \in {"mark", "enrich", "register"} : Goto(t, p)
         \/ /\ job[t].at \in {"check", "mark", "enrich", "register"}
            /\ \E how \in {"none", "error"} : Return(t, how)
         \/ Leave(t),
         UNCHANGED waiting, Held, events \subseteq events'
  PROVE  Moved(t)
<1>1. /\ JobsType' /\ Others(t)
      /\ job'[t] \in Job => /\ job'[t].of = "Frontier"
                            /\ job'[t].at \in {"mark", "enrich", "register", "ack"}
  BY GotoJob, ReturnJob, LeaveJob, PlaceNames, IdleFields DEF Base
<1>2. FrontierMove(t)
  BY <1>1, MailStays DEF FrontierMove, PlacesOf, Base
<1> QED
  BY <1>1, <1>2, MailStays DEF Moved, Moves, Base

\* Events are only added.
LEMMA OccursMore == \A c, kind : Occurs(c, kind) => events \subseteq events'
BY DEF Occurs

\* a step of the Frontier,
LEMMA FrontierMoves ==
  ASSUME Base, NEW t \in Task, Check(t) \/ Mark(t) \/ Enrich(t) \/ RegisterUrl(t)
  PROVE  Moved(t)
<1>1. job[t].at \in {"check", "mark", "enrich", "register"} /\ job[t].at # "idle"
  BY DEF Check, Mark, Enrich, RegisterUrl, At
<1>2. job[t] \in Job /\ job[t].of = "Frontier"
  BY <1>1, AtJob DEF Base
<1>3. /\ \/ \E p \in {"mark", "enrich", "register"} : Goto(t, p)
         \/ \E how \in {"none", "error"} : Return(t, how)
      /\ UNCHANGED waiting /\ Held /\ events \subseteq events'
  BY OccursMore DEF Check, Mark, Enrich, RegisterUrl, Passes, Ends, Raises, Refuses, Quiet, Held,
     crawls
<1> QED
  BY <1>1, <1>2, <1>3, FrontierGoes
\* a step on of the others, without a message,
LEMMA RecorderGoes ==
  ASSUME Base, NEW t \in Task, job[t] \in Job,
         job[t].at \in {"fetch", "extract", "links", "forward", "store"},
         \/ \E how \in {"none", "error", "redirect"} : Return(t, how)
         \/ /\ job[t].at # "store"
            /\ \E p \in {"links", "forward"} : p \in PlacesOf(job[t].of) /\ Goto(t, p),
         MailType', MailInv', NoMail, Held, Kept, events \subseteq events'
  PROVE  Moved(t)
<1>1. job[t].of # "Frontier" /\ job[t].at \in Ahead \cup {"store"} /\ job[t].at # "start"
  BY AtJob DEF Base, Ahead
<1>2. ASSUME NEW how \in {"none", "error", "redirect"}, Return(t, how) PROVE Moved(t)
  <2>1. /\ JobsType' /\ Others(t) /\ Goes(t)
        /\ job'[t].at = "overwrite" /\ job'[t].ended = how
    BY <1>2, ReturnJob DEF Base, Goes
  <2>2. ReturnMove(t)
    BY <1>1, <2>1 DEF ReturnMove
  <2> QED
    BY <2>1, <2>2 DEF Moved, Moves
<1>3. ASSUME job[t].at # "store", NEW p \in {"links", "forward"}, p \in PlacesOf(job[t].of),
             Goto(t, p)
      PROVE  Moved(t)
  <2>1. /\ JobsType' /\ Others(t) /\ Goes(t)
        /\ job'[t].at = p /\ job'[t].ended = job[t].ended
    BY <1>3, GotoJob, PlaceNames DEF Base, Goes
  <2>2. job[t].ended = "none"
    BY <1>1 DEF Base, JobInv
  <2>3. WorkMove(t)
    BY <1>1, <1>3, <2>1, <2>2 DEF WorkMove, Ahead
  <2> QED
    BY <2>1, <2>3 DEF Moved, Moves
<1> QED
  BY <1>2, <1>3

\* The work of a component.
LEMMA WorkMoves ==
  ASSUME Base, NEW t \in Task,
         Fetch(t) \/ FilterPage(t) \/ StorePage(t)
  PROVE  Moved(t)
<1>1. job[t].at \in {"fetch", "links", "store"} /\ job[t].at # "idle"
  BY DEF Fetch, FilterPage, StorePage, At
<1>2. /\ job[t] \in Job
      /\ job[t].at # "store" => job[t].of \in {"Downloader", "Parser"}
  BY <1>1, AtJob DEF Base
<1>3. /\ \/ \E how \in {"none", "error", "redirect"} : Return(t, how)
         \/ job[t].at # "store" /\ Goto(t, "forward")
      /\ UNCHANGED waiting /\ Held /\ Kept /\ events \subseteq events'
  BY <1>1, OccursMore DEF Fetch, FilterPage, StorePage, At, Passes, Ends, Raises, Refuses, Quiet,
     Held, Kept, crawls
<1>4. job[t].at # "store" => "forward" \in PlacesOf(job[t].of)
  BY <1>2 DEF PlacesOf
<1> QED
  BY <1>1, <1>2, <1>3, <1>4, MailStays, RecorderGoes DEF Base

\* a redirect,
LEMMA RedirectMoves ==
  ASSUME Base, NEW t \in Task, HandleRedirect(t)
  PROVE  Moved(t)
<1>1. job[t].at = "fetch" /\ job[t].at # "idle" /\ Target[job[t].url] # NoURL
  BY DEF HandleRedirect, At
<1>2. job[t] \in Job
  BY <1>1, AtJob DEF Base
<1>3. /\ Target[job[t].url] \in URL
      /\ job[t].hops < MaxRedirectDepth => job[t].hops + 1 \in 0..MaxRedirectDepth
  BY <1>1, <1>2, JobFields, PipelineAssumption
<1>4. \/ Ends(t, "error") \/ Raises(t)
      \/ job[t].hops < MaxRedirectDepth /\ Redirect(t)
  BY DEF HandleRedirect
<1>5. CASE Ends(t, "error") \/ Raises(t)
  <2>1. Return(t, "error") /\ UNCHANGED waiting /\ Held /\ Kept /\ events \subseteq events'
    BY <1>5, OccursMore DEF Ends, Raises, Quiet, Held, Kept, crawls
  <2> QED
    BY <1>1, <1>2, <2>1, MailStays, RecorderGoes DEF Base
<1>6. CASE job[t].hops < MaxRedirectDepth /\ Redirect(t)
  <2>1. /\ Send(Mail("url.process", Target[job[t].url], job[t].hops + 1))
        /\ \E how \in {"none", "error", "redirect"} : Return(t, how)
        /\ Held /\ Kept /\ events \subseteq events'
    BY <1>6, OccursMore DEF Redirect, Held, Kept, crawls
  <2>2. MailType' /\ MailInv' /\ NoMail
    BY <1>3, <1>6, <2>1, SendMail DEF Base, Topic
  <2> QED
    BY <1>1, <1>2, <2>1, <2>2, RecorderGoes
<1> QED
  BY <1>4, <1>5, <1>6

\* what is forwarded to the next component,
LEMMA ForwardMoves ==
  ASSUME Base, NEW t \in Task, Forward(t)
  PROVE  Moved(t)
<1>1. job[t].at = "forward" /\ job[t].at # "idle"
  BY DEF Forward, At
<1>2. job[t] \in Job /\ job[t].of \in {"Downloader", "Parser"}
  BY <1>1, AtJob DEF Base
<1>3. CASE Raises(t)
  <2>1. Return(t, "error") /\ UNCHANGED waiting /\ Held /\ Kept /\ events \subseteq events'
    BY <1>3, OccursMore DEF Raises, Quiet, Held, Kept, crawls
  <2> QED
    BY <1>1, <1>2, <2>1, MailStays, RecorderGoes DEF Base
<1>4. ASSUME NEW how \in {"error", "published"}, Return(t, how),
             \/ how = "published" /\ UNCHANGED events
             \/ how = "error" /\ Occurs(job[t].of, "error"),
             Send(Mail(NextTopic(t), job[t].url, 0)), Held, Kept
      PROVE  Moved(t)
  <2>1. /\ JobsType' /\ Others(t) /\ Goes(t)
        /\ job'[t].at = "overwrite" /\ job'[t].ended = how
    BY <1>1, <1>2, <1>4, ReturnJob DEF Base, Goes
  <2>2. /\ NextTopic(t) \in Topic /\ NextTopic(t) # "url.process"
        /\ NextTopic(t) = IF job[t].of = "Downloader" THEN "url.parse" ELSE "url.store"
    BY DEF NextTopic, Runs, Topic
  <2>3. /\ MailType' /\ MailInv'
        /\ Mailed(IF job[t].of = "Downloader" THEN "Parser" ELSE "Storage", job[t].url, 1)
    BY <1>2, <1>4, <2>2, SendMail, NoHops, JobFields DEF Base
  <2>4. ForwardMove(t)
    BY <1>1, <1>2, <1>4, <2>1, <2>3 DEF ForwardMove
  <2> QED
    BY <2>1, <2>3, <2>4 DEF Moved, Moves
<1>5. \/ Raises(t)
      \/ /\ Send(Mail(NextTopic(t), job[t].url, 0)) /\ Held /\ Kept
         /\ \/ Return(t, "published") /\ UNCHANGED events
            \/ Occurs(job[t].of, "error") /\ Return(t, "error")
  BY DEF Forward, Held, Kept, crawls
<1> QED
  BY <1>3, <1>4, <1>5

\* an extraction,
LEMMA ExtractMoves ==
  ASSUME Base, NEW t \in Task, Extract(t)
  PROVE  Moved(t)
<1>1. job[t].at = "extract" /\ job[t].at # "idle"
  BY DEF Extract, At
<1>2. job[t] \in Job /\ job[t].of = "Parser"
  BY <1>1, AtJob DEF Base
<1>3. CASE Raises(t) \/ (Occurs("Parser", "error") /\ Goto(t, "links") /\ Quiet)
  <2>1. /\ \/ \E how \in {"none", "error", "redirect"} : Return(t, how)
           \/ Goto(t, "links")
        /\ UNCHANGED waiting /\ Held /\ Kept /\ events \subseteq events'
    BY <1>3, OccursMore DEF Raises, Quiet, Held, Kept, crawls
  <2>2. "links" \in PlacesOf(job[t].of)
    BY <1>2 DEF PlacesOf
  <2> QED
    BY <1>1, <1>2, <2>1, <2>2, MailStays, RecorderGoes DEF Base
<1>4. CASE /\ job' = [job EXCEPT ![t].at = "links",
                                 ![t].links = LinksOf[job[t].url] \ (seen \cup {job[t].url})]
           /\ Quiet /\ UNCHANGED events
  <2> DEFINE L == LinksOf[job[t].url] \ (seen \cup {job[t].url})
             j == [job[t] EXCEPT !.at = "links", !.links = L]
  <2>1. job' = [job EXCEPT ![t] = j]
    BY <1>4 DEF Base, JobsType
  <2>2. L \in SUBSET URL
    BY <1>2, JobFields, PipelineAssumption
  <2> HIDE DEF L
  <2>3. /\ j \in Job /\ j.of = job[t].of /\ j.at = "links" /\ j.url = job[t].url
        /\ j.hops = job[t].hops /\ j.ended = job[t].ended
    BY <1>2, <2>2, PlaceNames DEF Job
  <2> HIDE DEF j
  <2>4. job'[t] = j /\ JobsType' /\ Others(t)
    BY <2>1, <2>3 DEF Base, JobsType, Others
  <2>5. job[t].ended = "none"
    BY <1>1, <1>2 DEF Base, JobInv, Ahead
  <2>6. UNCHANGED waiting /\ Held /\ Kept /\ UNCHANGED events
    BY <1>4 DEF Quiet, Held, Kept, crawls
  <2>7. MailType' /\ MailInv' /\ NoMail
    BY <2>6, MailStays DEF Base
  <2>8. WorkMove(t)
    BY <1>1, <1>2, <2>3, <2>4, <2>5, <2>6, <2>7 DEF WorkMove, Goes, Ahead, PlacesOf
  <2> QED
    BY <2>4, <2>7, <2>8 DEF Moved, Moves
<1> QED
  BY <1>3, <1>4 DEF Extract

\* a link that is published,
LEMMA PublishMoves ==
  ASSUME Base, NEW t \in Task, PublishLink(t)
  PROVE  Moved(t)
<1>1. job[t].at = "links" /\ job[t].at # "idle"
  BY DEF PublishLink, At
<1>2. job[t] \in Job /\ job[t].of = "Parser"
  BY <1>1, AtJob DEF Base
<1>3. CASE Raises(t)
  <2>1. Return(t, "error") /\ UNCHANGED waiting /\ Held /\ Kept /\ events \subseteq events'
    BY <1>3, OccursMore DEF Raises, Quiet, Held, Kept, crawls
  <2> QED
    BY <1>1, <1>2, <2>1, MailStays, RecorderGoes DEF Base
<1>4. ASSUME NEW v \in job[t].links,
             Send(Mail("url.process", v, 0)), job' = [job EXCEPT ![t].links = @ \ {v}],
             Held, Kept, UNCHANGED events
      PROVE  Moved(t)
  <2> DEFINE L == job[t].links \ {v}
             j == [job[t] EXCEPT !.links = L]
  <2>1. job' = [job EXCEPT ![t] = j]
    BY <1>4 DEF Base, JobsType
  <2>2. L \in SUBSET URL /\ v \in URL
    BY <1>2, JobFields
  <2> HIDE DEF L
  <2>3. /\ j \in Job /\ j.of = job[t].of /\ j.at = job[t].at /\ j.url = job[t].url
        /\ j.hops = job[t].hops /\ j.ended = job[t].ended
    BY <1>2, <2>2 DEF Job
  <2> HIDE DEF j
  <2>4. job'[t] = j /\ JobsType' /\ Others(t)
    BY <2>1, <2>3 DEF Base, JobsType, Others
  <2>5. job[t].ended = "none"
    BY <1>1, <1>2 DEF Base, JobInv, Ahead
  <2>6. MailType' /\ MailInv' /\ NoMail
    BY <1>4, <2>2, SendMail, NoHops DEF Base, Topic
  <2>7. WorkMove(t)
    BY <1>1, <1>2, <1>4, <2>3, <2>4, <2>5, <2>6 DEF WorkMove, Goes, Ahead, PlacesOf
  <2> QED
    BY <2>4, <2>6, <2>7 DEF Moved, Moves
<1> QED
  BY <1>3, <1>4 DEF PublishLink, Held, Kept, crawls
(***************************************************************************)
(* The steps that write to the crawl, and those that end a job.            *)
(***************************************************************************)
CrawlsType ==
  /\ status \in [URL -> Final \cup {"none", "in_progress"}]
  /\ entries \in [URL -> [Recorder -> Nat]]
  /\ finishes \in [URL -> Nat]

\* a URL that the Downloader takes,
LEMMA PullMoves ==
  ASSUME Base, NEW t \in Task, registered \in SUBSET URL, Pull(t)
  PROVE  Moved(t)
<1>1. PICK u \in registered :
        /\ status[u] = "none"
        /\ \A s \in Task : Runs(s, "Downloader") => job[s].url # u
        /\ Begin(t, "Downloader", "start", u, 0)
  BY DEF Pull
<1>2. job[t] = Idle /\ UNCHANGED waiting /\ Held /\ Kept /\ UNCHANGED events
  BY DEF Pull, Busy, Quiet, Held, Kept, crawls
<1>3. /\ JobsType' /\ Others(t) /\ job'[t] \in Job /\ job'[t].url = u
      /\ job'[t].of = "Downloader" /\ job'[t].at = "start"
      /\ job'[t].ended = "none" /\ job'[t].hops = 0
  BY <1>1, BeginJob, PlaceNames, NoHops DEF Base, Component
<1>4. Unstarted(u)
  BY <1>1 DEF Unstarted
<1>5. PullMove(t)
  BY <1>2, <1>3, <1>4, MailStays DEF PullMove, Base
<1> QED
  BY <1>2, <1>3, <1>5, MailStays DEF Moved, Moves, Base

\* the start of its crawl,
LEMMA StartMoves ==
  ASSUME Base, CrawlsType, NEW t \in Task, StartCrawl(t)
  PROVE  Moved(t)
<1>1. job[t].at = "start" /\ job[t].at # "idle"
  BY DEF StartCrawl, At
<1>2. job[t] \in Job /\ job[t].of = "Downloader" /\ job[t].ended = "none" /\ job[t].url \in URL
  BY <1>1, AtJob, JobFields DEF Base, JobInv, Ahead
<1>3. /\ \/ /\ status' = [status EXCEPT ![job[t].url] = "in_progress"]
            /\ \/ Goto(t, "fetch") /\ UNCHANGED events
               \/ Occurs("Downloader", "error") /\ Leave(t)
         \/ Occurs("Downloader", "error") /\ Leave(t) /\ UNCHANGED status
      /\ Kept /\ UNCHANGED <<waiting, entries, finishes>>
  BY DEF StartCrawl, Quiet, Kept, crawls
<1>4. /\ \A u \in URL \ {job[t].url} : status'[u] = status[u]
      /\ \/ status'[job[t].url] = "in_progress"
         \/ status'[job[t].url] = status[job[t].url] /\ Leave(t)
  BY <1>2, <1>3 DEF CrawlsType
<1>5. CASE Goto(t, "fetch") /\ UNCHANGED events
  <2>1. /\ JobsType' /\ Others(t) /\ Goes(t)
        /\ job'[t].at = "fetch" /\ job'[t].ended = "none"
    BY <1>2, <1>5, GotoJob, PlaceNames DEF Base, Goes
  <2>2. status'[job[t].url] = "in_progress"
    BY <1>4, <2>1, LeaveJob, IdleFields DEF Base, Goes
  <2>3. StartMove(t)
    BY <1>1, <1>2, <1>3, <1>4, <1>5, <2>1, <2>2, MailStays DEF StartMove, Base
  <2> QED
    BY <1>3, <2>1, <2>3, MailStays DEF Moved, Moves, Base
<1>6. CASE Occurs("Downloader", "error") /\ Leave(t)
  <2>1. JobsType' /\ Others(t) /\ job'[t] = Idle
    BY <1>6, LeaveJob DEF Base
  <2>2. StartMove(t)
    BY <1>1, <1>2, <1>3, <1>4, <1>6, <2>1, MailStays DEF StartMove, Base
  <2> QED
    BY <1>3, <2>1, <2>2, MailStays DEF Moved, Moves, Base
<1> QED
  BY <1>3, <1>5, <1>6

\* The statuses are different strings.
LEMMA StatusNames ==
  ASSUME NEW j \in Job
  PROVE  /\ j.ended = "published" <=> StatusOf(j) = "in_progress"
         /\ j.ended # "published" => StatusOf(j) \in Final
         /\ StatusOf(j) # "none"
<1>1. j.ended \in {"none", "error", "published", "redirect"}
  BY JobFields
<1>2. CASE j.ended = "none"
  BY <1>2 DEF StatusOf, Final
<1>3. CASE j.ended # "none"
  BY <1>1, <1>3 DEF StatusOf, Final
<1> QED
  BY <1>2, <1>3

\* the place after a save,
LEMMA AfterSaveJob ==
  ASSUME Base, NEW t \in Task, job[t] \in Job, AfterSave(t)
  PROVE  /\ JobsType' /\ Others(t) /\ Saved(t)
         /\ job'[t] \in Job => job'[t].ended = job[t].ended
<1>1. \/ job[t].ended # "published" /\ Goto(t, "finish")
      \/ job[t].ended = "published" /\ job[t].of = "Downloader" /\ Leave(t)
      \/ job[t].ended = "published" /\ job[t].of # "Downloader" /\ Goto(t, "ack")
  BY StatusNames DEF AfterSave, Runs
<1> QED
  BY <1>1, GotoJob, LeaveJob, PlaceNames, IdleFields DEF Base, Saved, Goes

\* the save that overwrites a crawl,
LEMMA OverwriteMoves ==
  ASSUME Base, CrawlsType, NEW t \in Task, Overwrite(t)
  PROVE  Moved(t)
<1>1. job[t].at = "overwrite" /\ job[t].at # "idle"
  BY DEF Overwrite, At
<1>2. job[t] \in Job /\ job[t].of # "Frontier" /\ job[t].url \in URL
  BY <1>1, AtJob, JobFields DEF Base, Ending
<1>3. CASE entries[job[t].url][job[t].of] = 0 /\ Passes(t, "append")
  <2>1. Goto(t, "append") /\ UNCHANGED waiting /\ Held /\ Kept /\ UNCHANGED events
    BY <1>3 DEF Passes, Quiet, Held, Kept, crawls
  <2>2. /\ JobsType' /\ Others(t) /\ Goes(t)
        /\ job'[t].at = "append" /\ job'[t].ended = job[t].ended
    BY <1>2, <2>1, GotoJob, PlaceNames DEF Base, Goes
  <2>3. AppendMove(t)
    BY <1>1, <1>2, <1>3, <2>1, <2>2, MailStays DEF AppendMove, Base
  <2> QED
    BY <2>1, <2>2, <2>3, MailStays DEF Moved, Moves, Base
<1>4. CASE SaveFails(t)
  <2>1. /\ Occurs(job[t].of, "error") /\ AfterSave(t)
        /\ UNCHANGED <<waiting, status, entries, finishes>> /\ Kept
    BY <1>4 DEF SaveFails, Quiet, Kept, crawls
  <2>2. /\ JobsType' /\ Others(t) /\ Saved(t)
        /\ job'[t] \in Job => job'[t].ended = job[t].ended
    BY <1>2, <2>1, AfterSaveJob
  <2>3. SaveMove(t)
    BY <1>1, <1>2, <2>1, <2>2, MailStays DEF SaveMove, Base
  <2> QED
    BY <2>1, <2>2, <2>3, MailStays DEF Moved, Moves, Base
<1>5. CASE /\ SaveStatus(t) /\ AfterSave(t)
           /\ UNCHANGED <<waiting, seen, registered, entries, finishes, events>>
  <2>1. \A v \in URL : status'[v] = IF v = job[t].url THEN StatusOf(job[t]) ELSE status[v]
    BY <1>2, <1>5 DEF SaveStatus, CrawlsType
  <2>2. /\ JobsType' /\ Others(t) /\ Saved(t)
        /\ job'[t] \in Job => job'[t].ended = job[t].ended
    BY <1>2, <1>5, AfterSaveJob
  <2>3. \A v \in URL, d \in Recorder : entries[v][d] = entries[v][d] + 0
    BY DEF CrawlsType
  <2>4. SaveMove(t)
    BY <1>1, <1>2, <1>5, <2>1, <2>2, <2>3, MailStays DEF SaveMove, Base, Kept
  <2> QED
    BY <1>5, <2>2, <2>4, MailStays DEF Moved, Moves, Base
<1> QED
  BY <1>3, <1>4, <1>5 DEF Overwrite

\* the entry that is appended to it,
LEMMA AppendMoves ==
  ASSUME Base, CrawlsType, NEW t \in Task, Append(t)
  PROVE  Moved(t)
<1>1. job[t].at = "append" /\ job[t].at # "idle"
  BY DEF Append, At
<1>2. job[t] \in Job /\ job[t].of \in Recorder /\ job[t].of # "Frontier" /\ job[t].url \in URL
  BY <1>1, AtJob, JobFields DEF Base, Ending, Recorder
<1>3. CASE SaveFails(t)
  <2>1. /\ Occurs(job[t].of, "error") /\ AfterSave(t)
        /\ UNCHANGED <<waiting, status, entries, finishes>> /\ Kept
    BY <1>3 DEF SaveFails, Quiet, Kept, crawls
  <2>2. /\ JobsType' /\ Others(t) /\ Saved(t)
        /\ job'[t] \in Job => job'[t].ended = job[t].ended
    BY <1>2, <2>1, AfterSaveJob
  <2>3. SaveMove(t)
    BY <1>1, <1>2, <2>1, <2>2, MailStays DEF SaveMove, Base
  <2> QED
    BY <2>1, <2>2, <2>3, MailStays DEF Moved, Moves, Base
<1>4. CASE /\ entries' = [entries EXCEPT ![job[t].url][job[t].of] = @ + 1]
           /\ SaveStatus(t) /\ AfterSave(t)
           /\ UNCHANGED <<waiting, seen, registered, finishes, events>>
  <2>1. \A v \in URL : status'[v] = IF v = job[t].url THEN StatusOf(job[t]) ELSE status[v]
    BY <1>2, <1>4 DEF SaveStatus, CrawlsType
  <2>2. /\ JobsType' /\ Others(t) /\ Saved(t)
        /\ job'[t] \in Job => job'[t].ended = job[t].ended
    BY <1>2, <1>4, AfterSaveJob
  <2>3. \A v \in URL, d \in Recorder :
          entries'[v][d] = entries[v][d] +
            (IF v = job[t].url /\ d = job[t].of /\ job[t].at = "append" THEN 1 ELSE 0)
    BY <1>1, <1>2, <1>4 DEF CrawlsType
  <2>4. SaveMove(t)
    BY <1>1, <1>2, <1>4, <2>1, <2>2, <2>3, MailStays DEF SaveMove, Base, Kept
  <2> QED
    BY <1>4, <2>2, <2>4, MailStays DEF Moved, Moves, Base
<1> QED
  BY <1>3, <1>4 DEF Append
\* the report of its end,
LEMMA FinishMoves ==
  ASSUME Base, CrawlsType, NEW t \in Task, Finish(t)
  PROVE  Moved(t)
<1>1. job[t].at = "finish" /\ job[t].at # "idle"
  BY DEF Finish, At
<1>2. job[t] \in Job /\ job[t].of # "Frontier" /\ job[t].url \in URL
  BY <1>1, AtJob, JobFields DEF Base, Ending
<1>3. /\ \A u \in URL : finishes'[u] = finishes[u] + (IF u = job[t].url THEN 1 ELSE 0)
      /\ Kept /\ UNCHANGED <<waiting, status, entries, events>>
  BY <1>2 DEF Finish, Kept, crawls, CrawlsType
<1>4. /\ JobsType' /\ Others(t)
      /\ \/ job[t].of = "Downloader" /\ job'[t] = Idle
         \/ /\ job[t].of # "Downloader" /\ Goes(t)
            /\ job'[t].at = "ack" /\ job'[t].ended = job[t].ended
  BY <1>2, GotoJob, LeaveJob, PlaceNames DEF Finish, Runs, Base, Goes
<1>5. FinishMove(t)
  BY <1>1, <1>2, <1>3, <1>4, MailStays DEF FinishMove, Base
<1> QED
  BY <1>3, <1>4, <1>5, MailStays DEF Moved, Moves, Base

\* an acknowledgement,
LEMMA AckMoves ==
  ASSUME Base, NEW t \in Task, Ack(t)
  PROVE  Moved(t)
<1>1. job[t].at = "ack" /\ job[t].at # "idle"
  BY DEF Ack, At
<1>2. job[t] \in Job
  BY <1>1, AtJob DEF Base
<1>3. Leave(t) /\ UNCHANGED waiting /\ Held /\ Kept /\ UNCHANGED events
  BY DEF Ack, Quiet, Held, Kept, crawls
<1>4. CASE job[t].of = "Frontier"
  BY <1>2, <1>3, <1>4, FrontierGoes
<1>5. CASE job[t].of # "Frontier"
  <2>1. JobsType' /\ Others(t) /\ job'[t] = Idle
    BY <1>3, LeaveJob DEF Base
  <2>2. AckMove(t)
    BY <1>1, <1>2, <1>3, <1>5, <2>1, MailStays DEF AckMove, Base
  <2> QED
    BY <1>3, <2>1, <2>2, MailStays DEF Moved, Moves, Base
<1> QED
  BY <1>4, <1>5

\* a message that goes back to its queue,
LEMMA BackMail ==
  ASSUME Base, NEW t \in Task, Unacked(t), TakeBack(t)
  PROVE  /\ MailType' /\ MailInv'
         /\ job[t] \in Job /\ job[t].of \in {"Frontier", "Parser", "Storage"}
         /\ job[t].of = "Frontier" => NoMail
         /\ job[t].of # "Frontier" => Mailed(job[t].of, job[t].url, 1)
<1>1. job[t] \in Job /\ job[t].of \in {"Frontier", "Parser", "Storage"}
  BY JobFields DEF Unacked, Busy, Base, JobsType, Component
<1>2. /\ TopicOf(job[t].of) \in Topic
      /\ TopicOf(job[t].of) # "url.process" => job[t].hops = 0
      /\ TopicOf(job[t].of) = IF job[t].of = "Frontier" THEN "url.process"
                              ELSE IF job[t].of = "Parser" THEN "url.parse" ELSE "url.store"
  BY <1>1 DEF TopicOf, Topic, Base, JobInv
<1>3. job[t].url \in URL /\ job[t].hops \in 0..MaxRedirectDepth
  BY <1>1, JobFields
<1> QED
  BY <1>1, <1>2, <1>3, SendMail DEF TakeBack, Base

\* in a crash,
LEMMA CrashMoves ==
  ASSUME Base, NEW t \in Task, Crash(t)
  PROVE  Moved(t)
<1>1. /\ job[t] \in Job /\ Leave(t) /\ Occurs(job[t].of, "crash") /\ Held /\ Kept
      /\ (Unacked(t) /\ TakeBack(t)) \/ UNCHANGED waiting
  BY DEF Crash, Busy, Base, JobsType, Held, Kept, crawls
<1>2. JobsType' /\ Others(t) /\ job'[t] = Idle
  BY <1>1, LeaveJob DEF Base
<1>3. /\ MailType' /\ MailInv'
      /\ job[t].of = "Frontier" => NoMail
      /\ NoMail \/ Mailed(job[t].of, job[t].url, 1)
  BY <1>1, BackMail, MailStays DEF Base
<1>4. CASE job[t].of = "Frontier"
  <2>1. FrontierMove(t)
    BY <1>1, <1>2, <1>3, <1>4, OccursMore, IdleFields DEF FrontierMove
  <2> QED
    BY <1>2, <1>3, <2>1 DEF Moved, Moves
<1>5. CASE job[t].of # "Frontier"
  <2>1. CrashMove(t)
    BY <1>1, <1>2, <1>3, <1>5 DEF CrashMove
  <2> QED
    BY <1>2, <1>3, <2>1 DEF Moved, Moves
<1> QED
  BY <1>4, <1>5

\* or for a lost connection.
LEMMA ReconnectMoves ==
  ASSUME Base, NEW t \in Task, Reconnect(t)
  PROVE  Moved(t)
<1> DEFINE j == [job[t] EXCEPT !.lost = TRUE]
<1>1. /\ Unacked(t) /\ TakeBack(t) /\ Occurs(job[t].of, "reconnect") /\ Held /\ Kept
      /\ job' = [job EXCEPT ![t] = j]
  BY DEF Reconnect, Held, Kept, crawls
<1>2. /\ MailType' /\ MailInv'
      /\ job[t] \in Job /\ job[t].of \in {"Frontier", "Parser", "Storage"}
      /\ job[t].of = "Frontier" => NoMail
      /\ job[t].of # "Frontier" => Mailed(job[t].of, job[t].url, 1)
  BY <1>1, BackMail
<1>3. /\ j \in Job /\ j.of = job[t].of /\ j.at = job[t].at /\ j.url = job[t].url
      /\ j.hops = job[t].hops /\ j.ended = job[t].ended
  BY <1>2 DEF Job
<1> HIDE DEF j
<1>4. job'[t] = j /\ JobsType' /\ Others(t)
  BY <1>1, <1>3 DEF Base, JobsType, Others
<1>5. CASE job[t].of = "Frontier"
  <2>1. job[t].at \in PlacesOf("Frontier")
    BY <1>2, <1>5 DEF Base, JobInv
  <2>2. FrontierMove(t)
    BY <1>1, <1>2, <1>3, <1>4, <1>5, <2>1, OccursMore DEF FrontierMove
  <2> QED
    BY <1>2, <1>4, <2>2 DEF Moved, Moves
<1>6. CASE job[t].of # "Frontier"
  <2>1. ReconnectMove(t)
    BY <1>1, <1>2, <1>3, <1>4, <1>6 DEF ReconnectMove, Goes
  <2> QED
    BY <1>2, <1>4, <2>1 DEF Moved, Moves
<1> QED
  BY <1>5, <1>6

-----------------------------------------------------------------------------
(***************************************************************************)
(* Type correctness, and where jobs can be.                                *)
(***************************************************************************)
RestType ==
  /\ seen \in SUBSET URL /\ registered \in SUBSET URL
  /\ CrawlsType /\ events \in SUBSET Possible

\* The type invariant, in the parts the moves disturb.
LEMMA TypeParts == TypeOK <=> MailType /\ JobsType /\ RestType
BY Zenon DEF TypeOK, MailType, JobsType, RestType, CrawlsType

\* The same of the next state.
LEMMA TypePartsNext == TypeOK' <=> MailType' /\ JobsType' /\ RestType'
BY Zenon DEF TypeOK, MailType, JobsType, RestType, CrawlsType

\* The types, the jobs and the messages at the start.
LEMMA BaseInit == Init => TypeOK /\ Base
<1> SUFFICES ASSUME Init PROVE TypeOK /\ Base
  OBVIOUS
<1>1. \A t \in Task : job[t] = Idle
  BY DEF Init
<1>2. TypeOK
  BY PipelineAssumption DEF Init, TypeOK
<1>3. MailInv
  <2> SUFFICES ASSUME NEW m \in Message, waiting[m] > 0, m.topic # "url.process" PROVE FALSE
    BY DEF MailInv
  <2>1. \A u : m # Mail("url.process", u, 0)
    BY DEF Mail
  <2> QED
    BY <2>1 DEF Init
<1> QED
  BY <1>1, <1>2, <1>3, TypeParts, IdleFields DEF Base, JobInv

\* The variables that no move describes keep their types.
LEMMA RestStep ==
  ASSUME RestType, Base, NEW t \in Task, Step(t) \/ Crash(t) \/ Reconnect(t)
  PROVE  RestType'
<1>1. \A c, kind : Occurs(c, kind) => events' \in SUBSET Possible
  BY DEF Occurs, RestType
<1>2. SaveStatus(t) => status' \in [URL -> Final \cup {"none", "in_progress"}]
  <2>1. StatusOf(job[t]) \in Final \cup {"in_progress"}
    BY DEF StatusOf, Final
  <2> QED
    BY <2>1 DEF SaveStatus, RestType, CrawlsType
<1>3. CASE Mark(t) \/ RegisterUrl(t)
  <2>1. job[t].at # "idle"
    BY <1>3 DEF Mark, RegisterUrl, At
  <2>2. job[t].url \in URL
    BY <2>1, AtJob, JobFields DEF Base
  <2>3. seen' \in SUBSET URL /\ registered' \in SUBSET URL /\ Held /\ events' \in SUBSET Possible
    BY <1>1, <1>3, <2>2 DEF Mark, RegisterUrl, Raises, Quiet, Held, crawls, RestType
  <2> QED
    BY <2>3 DEF RestType, CrawlsType, Held
<1>4. CASE \/ Deliver(t) \/ Check(t) \/ Enrich(t) \/ Pull(t) \/ Fetch(t) \/ HandleRedirect(t)
           \/ Forward(t) \/ Extract(t) \/ PublishLink(t) \/ FilterPage(t) \/ StorePage(t)
           \/ Ack(t) \/ Crash(t) \/ Reconnect(t)
  <2>1. Kept /\ Held /\ (UNCHANGED events \/ \E c, kind : Occurs(c, kind))
    BY <1>4 DEF Deliver, Check, Enrich, Pull, Fetch, HandleRedirect, Redirect, Forward, Extract,
       PublishLink, FilterPage, StorePage, Ack, Crash, Reconnect, Passes, Ends, Raises, Refuses,
       Quiet, Kept, Held, crawls
  <2> QED
    BY <1>1, <2>1 DEF RestType, CrawlsType, Held, Kept
<1>5. CASE StartCrawl(t)
  <2>1. /\ Kept /\ UNCHANGED <<entries, finishes>>
        /\ UNCHANGED status \/ status' = [status EXCEPT ![job[t].url] = "in_progress"]
        /\ UNCHANGED events \/ \E c, kind : Occurs(c, kind)
    BY <1>5 DEF StartCrawl, Quiet, Kept, crawls
  <2> QED
    BY <1>1, <2>1 DEF RestType, CrawlsType, Kept
<1>6. CASE Overwrite(t) \/ Append(t)
  <2>1. /\ Kept /\ UNCHANGED finishes
        /\ UNCHANGED status \/ SaveStatus(t)
        /\ \/ UNCHANGED entries
           \/ entries' = [entries EXCEPT ![job[t].url][job[t].of] = @ + 1]
        /\ UNCHANGED events \/ \E c, kind : Occurs(c, kind)
    BY <1>6 DEF Overwrite, Append, SaveFails, Passes, Quiet, Kept, crawls
  <2>2. entries' \in [URL -> [Recorder -> Nat]]
    BY <2>1 DEF RestType, CrawlsType
  <2>3. status' \in [URL -> Final \cup {"none", "in_progress"}]
    BY <1>2, <2>1 DEF RestType, CrawlsType
  <2> QED
    BY <1>1, <2>1, <2>2, <2>3 DEF RestType, CrawlsType, Kept
<1>7. CASE Finish(t)
  <2>1. /\ Kept /\ UNCHANGED <<status, entries, events>>
        /\ finishes' = [finishes EXCEPT ![job[t].url] = @ + 1]
    BY <1>7 DEF Finish, Kept, crawls
  <2>2. job[t].at # "idle" /\ finishes \in [URL -> Nat]
    BY <1>7 DEF Finish, At, RestType, CrawlsType
  <2>3. job[t].url \in URL
    BY <2>2, AtJob, JobFields DEF Base
  <2>4. finishes' \in [URL -> Nat]
    BY <2>1, <2>2, <2>3
  <2> QED
    BY <2>1, <2>4 DEF RestType, CrawlsType, Kept
<1> QED
  BY <1>3, <1>4, <1>5, <1>6, <1>7 DEF Step

(***************************************************************************)
(* A Downloader that takes up a URL is alone with it, for no other has it. *)
(***************************************************************************)
LEMMA JobStep ==
  ASSUME JobsType, JobInv, CrawlsType, NEW t \in Task, JobsType', Moves(t)
  PROVE  JobInv'
<1>1. \A s \in Task \ {t} : job'[s] = job[s]
  BY DEF Moves, Others
<1>2. \A u \in URL : status[u] # "none" => status'[u] # "none"
  BY StatusNames DEF Moves, FrontierMove, TakeMove, PullMove, StartMove, WorkMove, ReturnMove,
     ForwardMove, AppendMove, SaveMove, FinishMove, AckMove, CrashMove, ReconnectMove, Held
<1>3. ASSUME job'[t] \in Job
      PROVE  /\ job'[t].at \in PlacesOf(job'[t].of)
             /\ job'[t].at \in Ahead \cup {"store"} => job'[t].ended = "none"
             /\ job'[t].at = "finish" => job'[t].ended # "published"
             /\ job'[t].of = "Storage" => job'[t].ended # "published"
             /\ job'[t].of # "Frontier" => job'[t].hops = 0
             /\ job'[t].of = "Downloader" /\ job'[t].at # "start" =>
                  status'[job'[t].url] # "none"
  <2>1. job'[t].of \in Component /\ job'[t].url \in URL
    BY <1>3, JobFields
  <2>2. job[t] \in Job =>
          /\ job[t].of \in Component /\ job[t].url \in URL
          /\ job[t].of # "Frontier" => job[t].hops = 0
          /\ job[t].of = "Storage" => job[t].ended # "published"
          /\ job[t].of = "Downloader" /\ job[t].at # "start" => status'[job[t].url] # "none"
    BY <1>2, JobFields DEF JobInv
  <2>3. CASE FrontierMove(t) \/ TakeMove(t) \/ PullMove(t)
    BY <1>3, <2>1, <2>3 DEF FrontierMove, TakeMove, PullMove, PlacesOf, Ahead
  <2>4. CASE StartMove(t)
    BY <1>3, <2>1, <2>2, <2>4, IdleFields DEF StartMove, Goes, PlacesOf, Ahead
  <2>5. CASE WorkMove(t) \/ ReturnMove(t) \/ ForwardMove(t)
    BY <1>3, <2>1, <2>2, <2>5 DEF WorkMove, ReturnMove, ForwardMove, Goes, PlacesOf, Ahead,
       Ending, Component
  <2>6. CASE AppendMove(t)
    BY <1>3, <2>1, <2>2, <2>6 DEF AppendMove, Goes, PlacesOf, Ahead, Ending, Component
  <2>7. CASE SaveMove(t)
    BY <1>3, <2>1, <2>2, <2>7, IdleFields DEF SaveMove, Saved, Goes, PlacesOf, Ahead, Ending, Component
  <2>8. CASE FinishMove(t)
    <3>1. /\ Goes(t) /\ job'[t].at = "ack" /\ job'[t].of \in {"Parser", "Storage"}
          /\ job'[t].ended = job[t].ended
      BY <1>3, <2>1, <2>8, IdleFields DEF FinishMove, Goes, Component
    <3>2. job'[t].of = "Storage" => job'[t].ended # "published"
      BY <3>1, <2>2 DEF Goes
    <3> QED
      BY <2>1, <2>2, <3>1, <3>2 DEF Goes, PlacesOf, Ahead
  <2>9. CASE AckMove(t) \/ CrashMove(t)
    BY <1>3, <2>9, IdleFields DEF AckMove, CrashMove
  <2>10. CASE ReconnectMove(t)
    BY <2>2, <2>10 DEF ReconnectMove, Goes, JobInv
  <2> QED
    BY <2>3, <2>4, <2>5, <2>6, <2>7, <2>8, <2>9, <2>10 DEF Moves
<1>4. \/ job'[t].of = "Downloader" => job[t].of = "Downloader" /\ job[t].url = job'[t].url
      \/ \A s \in Task : ~(job[s].of = "Downloader" /\ job[s].url = job'[t].url)
  <2>1. job'[t] = Idle => job'[t].of # "Downloader"
    BY IdleFields
  <2>2. job'[t] \in Job \/ job'[t] = Idle
    BY DEF JobsType
  <2>3. PullMove(t) => \A s \in Task : ~(job[s].of = "Downloader" /\ job[s].url = job'[t].url)
    BY DEF PullMove, Unstarted, Runs
  <2> QED
    BY <2>1, <2>2, <2>3 DEF Moves, FrontierMove, TakeMove, StartMove, WorkMove, ReturnMove,
     ForwardMove, AppendMove, SaveMove, Saved, FinishMove, AckMove, CrashMove, ReconnectMove, Goes
<1> QED
  BY <1>1, <1>2, <1>3, <1>4, JobFields DEF JobInv, JobsType
\* Every step keeps the base invariant and is a move of one task.
LEMMA BaseStep ==
  ASSUME TypeOK, Base, Next
  PROVE  /\ TypeOK' /\ Base'
         /\ \E t \in Task : Moves(t) /\ (Step(t) \/ Crash(t) \/ Reconnect(t))
<1>1. PICK t \in Task : Step(t) \/ Crash(t) \/ Reconnect(t)
  BY DEF Next
<1>2. RestType /\ CrawlsType /\ registered \in SUBSET URL
  BY TypeParts DEF RestType
<1>3. Moved(t)
  BY <1>1, <1>2, DeliverMoves, FrontierMoves, PullMoves, StartMoves, WorkMoves, RedirectMoves,
     ForwardMoves, ExtractMoves, PublishMoves, OverwriteMoves, AppendMoves, FinishMoves,
     AckMoves, CrashMoves, ReconnectMoves, Zenon DEF Step
<1>4. RestType'
  BY <1>1, <1>2, RestStep
<1>5. JobInv'
  BY <1>2, <1>3, JobStep DEF Base, Moved
<1> QED
  BY <1>1, <1>3, <1>4, <1>5, TypePartsNext, Zenon DEF Moved, Base

\* A stutter changes nothing.
LEMMA BaseStutter == UNCHANGED vars => (TypeOK /\ Base => TypeOK' /\ Base')
<1> SUFFICES ASSUME UNCHANGED vars, TypeOK, Base PROVE TypeOK' /\ Base'
  OBVIOUS
<1>1. UNCHANGED <<waiting, job, seen, registered, status, entries, finishes, events>>
  BY DEF vars, crawls
<1>2. MailType' /\ JobsType' /\ RestType'
  BY <1>1, TypeParts DEF MailType, JobsType, RestType, CrawlsType
<1>3. MailInv' /\ JobInv'
  BY <1>1 DEF Base, MailInv, JobInv
<1> QED
  BY <1>2, <1>3, TypePartsNext DEF Base

\* So the base invariant always holds.
LEMMA BaseAlways == Spec => [](TypeOK /\ Base)
<1>1. TypeOK /\ Base /\ [Next]_vars => TypeOK' /\ Base'
  BY BaseStep, BaseStutter
<1> QED
  BY <1>1, BaseInit, PTL DEF Spec

\* Every queue, job and record keeps its type.
THEOREM TypeCorrect == Spec => []TypeOK
BY BaseAlways, PTL

(***************************************************************************)
(* No crawl is undone and no entry is lost (register_url, update_crawl),   *)
(* whatever else has the URL in hand.                                      *)
(***************************************************************************)
THEOREM AttemptsHold == Spec => AttemptsKept
<1> DEFINE Kept1 == \A u \in URL :
                      /\ status[u] # "none" => status'[u] # "none"
                      /\ \A c \in Recorder : entries'[u][c] >= entries[u][c]
<1>1. ASSUME TypeOK, Base, Next PROVE Kept1
  <2>1. PICK t \in Task : Moves(t)
    BY <1>1, BaseStep
  <2>2. CrawlsType
    BY <1>1, TypeParts DEF RestType
  <2>3. \A u \in URL : status[u] # "none" => status'[u] # "none"
    BY <2>1, StatusNames DEF Moves, FrontierMove, TakeMove, PullMove, StartMove, WorkMove,
       ReturnMove, ForwardMove, AppendMove, SaveMove, FinishMove, AckMove, CrashMove,
       ReconnectMove, Held
  <2>4. \A u \in URL, c \in Recorder :
          \/ entries'[u][c] = entries[u][c]
          \/ entries'[u][c] = entries[u][c] + 1
          \/ entries'[u][c] = entries[u][c] + 0
    BY <2>1 DEF Moves, FrontierMove, TakeMove, PullMove, StartMove, WorkMove,
       ReturnMove, ForwardMove, AppendMove, SaveMove, FinishMove, AckMove, CrashMove,
       ReconnectMove, Held
  <2>5. \A u \in URL, c \in Recorder : entries[u][c] \in Nat
    BY <2>2 DEF CrawlsType
  <2>6. \A u \in URL, c \in Recorder : entries'[u][c] >= entries[u][c]
    BY <2>4, <2>5
  <2> QED
    BY <2>3, <2>6
<1>2. TypeOK /\ Base /\ [Next]_vars => [Kept1]_vars
  BY <1>1
<1> QED
  BY <1>2, BaseAlways, PTL DEF Spec, AttemptsKept
-----------------------------------------------------------------------------
(***************************************************************************)
(* Counting jobs and events.                                               *)
(***************************************************************************)
In(j, K) == IF j \in K THEN 1 ELSE 0

\* When one job changes, the number of jobs of a kind changes by that job.
LEMMA JobsCount ==
  ASSUME NEW K, NEW t \in Task, Others(t), IsFiniteSet(Jobs(K))
  PROVE  /\ IsFiniteSet(Jobs(K)')
         /\ Cardinality(Jobs(K)) \in Nat /\ Cardinality(Jobs(K)') \in Nat
         /\ Cardinality(Jobs(K)') + In(job[t], K) = Cardinality(Jobs(K)) + In(job'[t], K)
<1> DEFINE R == Jobs(K) \ {t}
<1>1. /\ Jobs(K) = IF job[t] \in K THEN R \cup {t} ELSE R
      /\ Jobs(K)' = IF job'[t] \in K THEN R \cup {t} ELSE R
      /\ t \notin R
  BY DEF Others, Jobs
<1>2. IsFiniteSet(R) /\ Cardinality(R) \in Nat
  BY FS_RemoveElement, FS_CardinalityType
<1>3. /\ IsFiniteSet(R \cup {t}) /\ Cardinality(R \cup {t}) = Cardinality(R) + 1
  BY <1>1, <1>2, FS_AddElement
<1> HIDE DEF R
<1>4. /\ IsFiniteSet(Jobs(K)')
      /\ Cardinality(Jobs(K)) = Cardinality(R) + In(job[t], K)
  BY <1>1, <1>2, <1>3 DEF In
<1>5. Cardinality(Jobs(K)') = Cardinality(R) + In(job'[t], K)
  BY <1>1, <1>2, <1>3 DEF In
<1>6. In(job[t], K) \in Nat /\ In(job'[t], K) \in Nat
  BY DEF In
<1> QED
  BY <1>1, <1>2, <1>3, <1>4, <1>5, <1>6

\* Of a kind with at most one job there are no two tasks.
LEMMA OneJob ==
  ASSUME NEW K, IsFiniteSet(Jobs(K)), Cardinality(Jobs(K)) <= 1,
         NEW s \in Jobs(K), NEW t \in Jobs(K)
  PROVE  s = t
<1>1. IsFiniteSet(Jobs(K) \ {s}) /\ Cardinality(Jobs(K) \ {s}) = Cardinality(Jobs(K)) - 1
  BY FS_RemoveElement
<1>2. Cardinality(Jobs(K) \ {s}) \in Nat /\ Cardinality(Jobs(K)) \in Nat
  BY <1>1, FS_CardinalityType
<1>3. Jobs(K) \ {s} = {}
  BY <1>1, <1>2, FS_EmptySet
<1> QED
  BY <1>3

\* Idle tasks have no job of any kind.
LEMMA NoJobs ==
  ASSUME \A t \in Task : job[t] = Idle, NEW K \in SUBSET Job
  PROVE  IsFiniteSet(Jobs(K)) /\ Cardinality(Jobs(K)) = 0
<1>1. Jobs(K) = {}
  BY IdleFields DEF Jobs
<1> QED
  BY <1>1, FS_EmptySet

\* There are finitely many events.
LEMMA EventsFinite == TypeOK => IsFiniteSet(events)
BY PipelineAssumption, FS_Subset DEF TypeOK

\* The events of some components are counted by a number,
LEMMA ConcernType ==
  ASSUME TypeOK, NEW C
  PROVE  Concerning(C) \in Nat
<1>1. IsFiniteSet({e \in events : e[1] \in C})
  BY EventsFinite, FS_Subset
<1> QED
  BY <1>1, FS_CardinalityType DEF Concerning

\* which never falls
LEMMA ConcernMore ==
  ASSUME TypeOK, TypeOK', NEW C, events \subseteq events'
  PROVE  Concerning(C) <= Concerning(C)'
<1>1. IsFiniteSet(events')
  BY PipelineAssumption, FS_Subset DEF TypeOK
<1>2. IsFiniteSet({e \in events' : e[1] \in C})
  BY <1>1, FS_Subset
<1>3. {e \in events : e[1] \in C} \subseteq {e \in events' : e[1] \in C}
  OBVIOUS
<1> QED
  BY <1>2, <1>3, FS_Subset DEF Concerning

\* and rises by one when another occurs.
LEMMA ConcernOne ==
  ASSUME TypeOK, NEW C, NEW c \in C, NEW kind, Occurs(c, kind)
  PROVE  Concerning(C)' = Concerning(C) + 1
<1> DEFINE E == {e \in events : e[1] \in C}
           e0 == <<c, kind>>
<1>1. IsFiniteSet(E) /\ e0 \notin E
  BY EventsFinite, FS_Subset DEF Occurs
<1>2. e0[1] = c
  OBVIOUS
<1>3. events' = events \cup {e0}
  BY DEF Occurs
<1> HIDE DEF e0
<1>4. {e \in events' : e[1] \in C} = E \cup {e0}
  BY <1>2, <1>3
<1>5. Cardinality(E \cup {e0}) = Cardinality(E) + 1
  BY <1>1, FS_AddElement
<1> QED
  BY <1>4, <1>5 DEF Concerning

\* A crawl that has a status never loses it.
LEMMA StatusKept ==
  ASSUME CrawlsType, NEW t \in Task, Moves(t), NEW u \in URL, status[u] # "none"
  PROVE  status'[u] # "none"
BY StatusNames DEF Moves, FrontierMove, TakeMove, PullMove, StartMove, WorkMove,
   ReturnMove, ForwardMove, AppendMove, SaveMove, FinishMove, AckMove, CrashMove,
   ReconnectMove, Held

\* A URL is fresh again only when its Downloader ends before it has started.
LEMMA FreshStep ==
  ASSUME TypeOK, Base, NEW t \in Task, Moves(t), NEW u \in URL
  PROVE  /\ Fresh(u) \in Nat /\ Fresh(u)' \in Nat
         /\ Fresh(u)' <= Fresh(u) +
              (IF /\ job[t] \in Job /\ job[t].of = "Downloader" /\ job[t].url = u
                  /\ job[t].at = "start" /\ job'[t] = Idle THEN 1 ELSE 0)
         /\ PullMove(t) /\ job'[t].url = u => Fresh(u) = 1 /\ Fresh(u)' = 0
<1>1. ASSUME Unstarted(u)', ~Unstarted(u)
      PROVE  /\ job[t] \in Job /\ job[t].of = "Downloader" /\ job[t].url = u
             /\ job[t].at = "start" /\ job'[t] = Idle
  <2>1. status[u] = "none"
    BY <1>1, StatusKept, TypeParts DEF Unstarted, RestType
  <2>2. PICK s \in Task : job[s].of = "Downloader" /\ job[s].url = u
    BY <1>1, <2>1 DEF Unstarted, Runs
  <2>3. ~(job'[s].of = "Downloader" /\ job'[s].url = u)
    BY <1>1 DEF Unstarted, Runs
  <2>4. s = t
    BY <2>2, <2>3 DEF Moves, Others
  <2>5. job[t] \in Job /\ job[t].at = "start"
    BY <2>1, <2>2, <2>4, IdleFields DEF Base, JobsType, JobInv
  <2>6. ~Goes(t)
    BY <2>2, <2>3, <2>4 DEF Goes
  <2>7. job'[t] = Idle
    BY <2>2, <2>4, <2>5, <2>6, IdleFields DEF Moves, FrontierMove, TakeMove, PullMove, StartMove,
       WorkMove, ReturnMove, ForwardMove, AppendMove, SaveMove, FinishMove, AckMove, CrashMove,
       ReconnectMove
  <2> QED
    BY <2>2, <2>4, <2>5, <2>7
<1>2. ASSUME PullMove(t), job'[t].url = u PROVE Unstarted(u) /\ ~Unstarted(u)'
  BY <1>2 DEF PullMove, Unstarted, Runs
<1> QED
  BY <1>1, <1>2 DEF Fresh
\* The queues to Parser and Storage hold no message of the Frontier.
LEMMA PayloadMail ==
  ASSUME NEW u \in URL
  PROVE  /\ Mail("url.parse", u, 0) \in Message /\ Mail("url.store", u, 0) \in Message
         /\ \A v \in URL : /\ Mail("url.parse", u, 0) # Mail("url.process", v, 0)
                           /\ Mail("url.store", u, 0) # Mail("url.process", v, 0)
BY NoHops, MailFields DEF Topic

\* The counts are natural numbers before and after a step.
LEMMA Counts ==
  ASSUME TypeOK, TypeOK', NEW u \in URL
  PROVE  /\ ToParse(u) \in Nat /\ ToStore(u) \in Nat
         /\ ToParse(u)' \in Nat /\ ToStore(u)' \in Nat
         /\ finishes[u] \in Nat /\ finishes'[u] \in Nat
<1>1. waiting \in [Message -> Nat] /\ waiting' \in [Message -> Nat]
  BY DEF TypeOK
<1>2. finishes \in [URL -> Nat] /\ finishes' \in [URL -> Nat]
  BY DEF TypeOK
<1> QED
  BY <1>1, <1>2, PayloadMail DEF ToParse, ToStore

\* The queues at the start.
LEMMA QueuesEmpty ==
  ASSUME Init, NEW u \in URL
  PROVE  ToParse(u) = 0 /\ ToStore(u) = 0
BY PayloadMail, PipelineAssumption DEF Init, ToParse, ToStore

\* The events that the Recorders have had, in both states.
LEMMA Concerned ==
  ASSUME TypeOK, TypeOK'
  PROVE  /\ Concerning(Recorder) \in Nat /\ Concerning(Recorder)' \in Nat
         /\ events \subseteq events' => Concerning(Recorder) <= Concerning(Recorder)'
         /\ \A c \in Recorder : \A kind : Occurs(c, kind) =>
              Concerning(Recorder)' = Concerning(Recorder) + 1
<1>1. Concerning(Recorder) \in Nat
  BY ConcernType
<1>2. events \subseteq events' => Concerning(Recorder) <= Concerning(Recorder)'
  BY ConcernMore
<1>3. \A c \in Recorder : \A kind : Occurs(c, kind) =>
        Concerning(Recorder)' = Concerning(Recorder) + 1
  BY ConcernOne
<1>4. Concerning(Recorder)' \in Nat
  <2>1. IsFiniteSet(events')
    BY PipelineAssumption, FS_Subset DEF TypeOK
  <2>2. IsFiniteSet({e \in events' : e[1] \in Recorder})
    BY <2>1, FS_Subset
  <2> QED
    BY <2>2, FS_CardinalityType DEF Concerning
<1> QED
  BY <1>1, <1>2, <1>3, <1>4

\* A task has a job or is idle, before and after a step.
LEMMA JobParts ==
  ASSUME TypeOK, TypeOK', NEW t \in Task
  PROVE  /\ job[t] \in Job \/ job[t] = Idle
         /\ job'[t] \in Job \/ job'[t] = Idle
         /\ job[t] \in Job => job[t].of \in Component
         /\ job'[t] \in Job => job'[t].of \in Component
BY JobFields, TypeParts, TypePartsNext DEF JobsType

-----------------------------------------------------------------------------
(***************************************************************************)
(* The ends that are reported.                                             *)
(***************************************************************************)
LEMMA FinishInit == Init => FinishInv
<1> SUFFICES ASSUME Init, NEW u \in URL
             PROVE  /\ IsFiniteSet(Jobs(Reporting(u)))
                    /\ finishes[u] + Fresh(u) + ToParse(u) + ToStore(u)
                         + Cardinality(Jobs(Reporting(u))) <= 1 + Concerning(Recorder)
  BY DEF FinishInv
<1>1. IsFiniteSet(Jobs(Reporting(u))) /\ Cardinality(Jobs(Reporting(u))) = 0
  <2>1. Reporting(u) \in SUBSET Job /\ \A t \in Task : job[t] = Idle
    BY DEF Reporting, Init
  <2> QED
    BY <2>1, NoJobs
<1>2. finishes[u] = 0 /\ Fresh(u) \in {0, 1} /\ ToParse(u) = 0 /\ ToStore(u) = 0
  BY QueuesEmpty DEF Init, Fresh
<1>3. Concerning(Recorder) \in Nat
  BY BaseInit, ConcernType
<1> QED
  BY <1>1, <1>2, <1>3

\* A move keeps the account of the ends to be reported.
LEMMA FinishStep ==
  ASSUME TypeOK, Base, TypeOK', Base', FinishInv, NEW t \in Task, Moves(t)
  PROVE  FinishInv'
<1> SUFFICES ASSUME NEW u \in URL
             PROVE  /\ IsFiniteSet(Jobs(Reporting(u)))'
                    /\ (finishes[u] + Fresh(u) + ToParse(u) + ToStore(u)
                         + Cardinality(Jobs(Reporting(u))) <= 1 + Concerning(Recorder))'
  BY DEF FinishInv
<1> DEFINE K == Reporting(u)
           x == In(job[t], K)
           y == In(job'[t], K)
           E == Concerning(Recorder)
           Started == /\ job[t] \in Job /\ job[t].of = "Downloader" /\ job[t].url = u
                      /\ job[t].at = "start" /\ job'[t] = Idle
           Here == job[t].url = u
<1>1. /\ IsFiniteSet(Jobs(K)')
      /\ Cardinality(Jobs(K)) \in Nat /\ Cardinality(Jobs(K)') \in Nat
      /\ Cardinality(Jobs(K)') + x = Cardinality(Jobs(K)) + y
  BY JobsCount DEF Moves, FinishInv
<1>2. /\ Fresh(u) \in Nat /\ Fresh(u)' \in Nat
      /\ Fresh(u)' <= Fresh(u) + (IF Started THEN 1 ELSE 0)
      /\ PullMove(t) /\ job'[t].url = u => Fresh(u) = 1 /\ Fresh(u)' = 0
  BY FreshStep
<1>3. /\ ToParse(u) \in Nat /\ ToStore(u) \in Nat
      /\ ToParse(u)' \in Nat /\ ToStore(u)' \in Nat
      /\ finishes[u] \in Nat /\ finishes'[u] \in Nat
  BY Counts
<1>4. /\ E \in Nat /\ E' \in Nat
      /\ events \subseteq events' => E <= E'
      /\ \A c \in Recorder : \A kind : Occurs(c, kind) => E' = E + 1
  BY Concerned
<1>5. /\ job[t] \in Job \/ job[t] = Idle
      /\ job'[t] \in Job \/ job'[t] = Idle
      /\ job[t] \in Job => job[t].of \in Component
      /\ job'[t] \in Job => job'[t].of \in Component
  BY JobParts
<1>6. x \in {0, 1} /\ y \in {0, 1} /\ Idle \notin K
  BY IdleFields DEF In, Reporting
<1>7. Started => x = 1
  BY DEF In, Reporting, Recorder, Component, Base, JobInv, Ahead
<1> HIDE DEF E, K
<1>8. finishes'[u] + Fresh(u)' + ToParse(u)' + ToStore(u)' + y + E
        <= finishes[u] + Fresh(u) + ToParse(u) + ToStore(u) + x + E'
  <2> HIDE DEF x, y
  <2>1. CASE FrontierMove(t)
    <3>1. x = 0 /\ y = 0
      BY <1>5, <1>6, <2>1 DEF FrontierMove, In, K, Reporting, Recorder, x, y
    <3> QED
      BY <1>2, <1>3, <1>4, <1>7, <2>1, <3>1 DEF FrontierMove, Held, NoMail
  <2>2. CASE TakeMove(t)
    <3>1. x = 0 /\ (y = 1 <=> job'[t].url = u)
      BY <1>5, <1>6, <2>2 DEF TakeMove, In, K, Reporting, Recorder, Component, x, y
    <3> QED
      BY <1>2, <1>3, <1>4, <1>6, <1>7, <2>2, <3>1 DEF TakeMove, Held, Mailed
  <2>3. CASE PullMove(t)
    <3>1. x = 0 /\ (y = 1 <=> job'[t].url = u)
      BY <1>5, <1>6, <2>3 DEF PullMove, In, K, Reporting, Recorder, Component, x, y
    <3> QED
      BY <1>2, <1>3, <1>4, <1>6, <1>7, <2>3, <3>1 DEF PullMove, Held, NoMail
  <2>4. CASE StartMove(t)
    <3>1. CASE Goes(t)
      <4>1. job[t].ended = "none"
        BY <2>4 DEF StartMove, Base, JobInv, Ahead
      <4>2. x = y /\ ~Started
        BY <2>4, <3>1, <4>1, IdleFields DEF StartMove, Goes, In, K, Reporting, x, y
      <4>3. E <= E'
        BY <1>4, <2>4, OccursMore DEF StartMove
      <4> QED
        BY <1>2, <1>3, <1>4, <1>6, <2>4, <4>2, <4>3 DEF StartMove, NoMail
    <3>2. CASE job'[t] = Idle /\ Occurs("Downloader", "error")
      <4>1. y = 0 /\ E' = E + 1
        BY <1>4, <1>6, <3>2 DEF In, Recorder, Component, y
      <4> QED
        BY <1>2, <1>3, <1>4, <1>6, <1>7, <2>4, <4>1 DEF StartMove, NoMail
    <3> QED
      BY <2>4, <3>1, <3>2 DEF StartMove
  <2>5. CASE WorkMove(t) \/ ReturnMove(t)
    <3>1. x = y /\ ~Started
      BY <1>5, <1>6, <2>5 DEF WorkMove, ReturnMove, Goes, In, K, Reporting, Recorder, Ahead, x, y,
         Base, JobInv
    <3> QED
      BY <1>2, <1>3, <1>4, <1>6, <2>5, <3>1 DEF WorkMove, ReturnMove, Held, NoMail
  <2>6. CASE ForwardMove(t)
    <3>1. /\ x = 1 <=> job[t].url = u
          /\ ~Started
      <4>1. job[t].ended = "none"
        BY <2>6 DEF ForwardMove, Goes, Base, JobInv, Ahead
      <4> QED
        BY <2>6, <4>1 DEF ForwardMove, Goes, In, K, Reporting, Recorder, Component, x
    <3>2. \/ y = 0 /\ UNCHANGED events
          \/ y = x /\ E' = E + 1
      BY <1>4, <1>6, <2>6, <3>1 DEF ForwardMove, Goes, In, K, Reporting, Recorder, Component, x, y
    <3>3. E <= E'
      BY <1>4, <2>6, OccursMore DEF ForwardMove
    <3> QED
      BY <1>2, <1>3, <1>4, <1>6, <2>6, <3>1, <3>2, <3>3 DEF ForwardMove, Held, Mailed
  <2>7. CASE AppendMove(t)
    <3>1. x = y /\ ~Started
      BY <2>7 DEF AppendMove, Goes, In, K, Reporting, x, y
    <3> QED
      BY <1>2, <1>3, <1>4, <1>6, <2>7, <3>1 DEF AppendMove, Held, NoMail
  <2>8. CASE SaveMove(t)
    <3>1. x = y /\ ~Started
      BY <1>6, <2>8 DEF SaveMove, Saved, Goes, In, K, Reporting, x, y
    <3>2. E <= E'
      BY <1>4, <2>8, OccursMore DEF SaveMove
    <3> QED
      BY <1>2, <1>3, <1>4, <1>6, <2>8, <3>1, <3>2 DEF SaveMove, NoMail
  <2>9. CASE FinishMove(t)
    <3>1. (x = 1 <=> job[t].url = u) /\ y = 0 /\ ~Started
      BY <1>5, <1>6, <2>9
         DEF FinishMove, Goes, In, K, Reporting, Recorder, Base, JobInv, x, y
    <3> QED
      BY <1>2, <1>3, <1>4, <1>6, <2>9, <3>1 DEF FinishMove, NoMail
  <2>10. CASE AckMove(t)
    <3>1. x = 0 /\ y = 0 /\ ~Started
      BY <1>6, <2>10 DEF AckMove, In, K, Reporting, x, y
    <3> QED
      BY <1>2, <1>3, <1>4, <2>10, <3>1 DEF AckMove, Held, NoMail
  <2>11. CASE CrashMove(t)
    <3>1. y = 0 /\ E' = E + 1
      BY <1>4, <1>5, <1>6, <2>11 DEF CrashMove, In, Recorder, y
    <3>2. /\ ToParse(u)' + ToStore(u)' <= ToParse(u) + ToStore(u) + 1
          /\ Started => ToParse(u)' + ToStore(u)' = ToParse(u) + ToStore(u)
      BY <1>3, <2>11 DEF CrashMove, NoMail, Mailed
    <3> QED
      BY <1>2, <1>3, <1>4, <1>6, <1>7, <2>11, <3>1, <3>2 DEF CrashMove, Held
  <2>12. CASE ReconnectMove(t)
    <3>1. x = y /\ ~Started /\ E' = E + 1
      BY <1>4, <1>5, <1>6, <2>12
         DEF ReconnectMove, Goes, In, K, Reporting, Recorder, Component, x, y
    <3> QED
      BY <1>2, <1>3, <1>4, <1>6, <2>12, <3>1 DEF ReconnectMove, Held, Mailed
  <2> QED
    BY <2>1, <2>2, <2>3, <2>4, <2>5, <2>6, <2>7, <2>8, <2>9, <2>10, <2>11, <2>12 DEF Moves
<1>9. finishes[u] + Fresh(u) + ToParse(u) + ToStore(u) + Cardinality(Jobs(K)) <= 1 + E
  BY DEF FinishInv, K, E
<1>10. finishes'[u] + Fresh(u)' + ToParse(u)' + ToStore(u)' + Cardinality(Jobs(K)') <= 1 + E'
  <2> HIDE DEF x, y
  <2> QED
    BY <1>1, <1>2, <1>3, <1>4, <1>6, <1>8, <1>9
<1> QED
  BY <1>1, <1>10 DEF K, E
\* A stutter keeps it.
LEMMA FinishStutter == UNCHANGED vars /\ FinishInv => FinishInv'
<1> SUFFICES ASSUME UNCHANGED vars, FinishInv PROVE FinishInv'
  OBVIOUS
<1>1. UNCHANGED <<waiting, job, status, entries, finishes, events>>
  BY DEF vars, crawls
<1> QED
  BY <1>1 DEF FinishInv, Jobs, ToParse, ToStore, Fresh, Unstarted, Runs, Concerning

(***************************************************************************)
(* A crawl is reported as finished once, and once more at most for every   *)
(* failure, crash or reconnection (CrawlFinishEvent in base.py).           *)
(***************************************************************************)
THEOREM FinishHolds == Spec => []FinishedOnce
<1>1. TypeOK /\ Base /\ FinishInv /\ [Next]_vars => FinishInv'
  <2> SUFFICES ASSUME TypeOK, Base, FinishInv, Next PROVE FinishInv'
    BY FinishStutter
  <2> QED
    BY BaseStep, FinishStep
<1>2. TypeOK /\ FinishInv => FinishedOnce
  <2> SUFFICES ASSUME TypeOK, FinishInv, NEW u \in URL
               PROVE  finishes[u] <= 1 + Concerning(Recorder)
    BY DEF FinishedOnce
  <2>1. /\ finishes[u] \in Nat /\ ToParse(u) \in Nat /\ ToStore(u) \in Nat
        /\ Fresh(u) \in Nat /\ Concerning(Recorder) \in Nat
        /\ Cardinality(Jobs(Reporting(u))) \in Nat
    BY PayloadMail, ConcernType, FS_CardinalityType
       DEF TypeOK, ToParse, ToStore, Fresh, FinishInv
  <2> QED
    BY <2>1 DEF FinishInv
<1> QED
  BY <1>1, <1>2, FinishInit, BaseAlways, PTL DEF Spec

-----------------------------------------------------------------------------
(***************************************************************************)
(* The statuses that are written.                                          *)
(***************************************************************************)
LEMMA WriteInit == Init => WriteInv
<1> SUFFICES ASSUME Init, NEW u \in URL
             PROVE  /\ IsFiniteSet(Jobs(Writing(u)))
                    /\ Done(u) + Fresh(u) + ToParse(u) + ToStore(u)
                         + Cardinality(Jobs(Writing(u))) <= 1
  BY DEF WriteInv
<1>1. Writing(u) \in SUBSET Job /\ \A t \in Task : job[t] = Idle
  BY DEF Writing, Reporting, Init
<1>2. IsFiniteSet(Jobs(Writing(u))) /\ Cardinality(Jobs(Writing(u))) = 0
  BY <1>1, NoJobs
<1>3. Done(u) = 0 /\ Fresh(u) \in {0, 1} /\ ToParse(u) = 0 /\ ToStore(u) = 0
  BY QueuesEmpty DEF Init, Done, Final, Fresh
<1> QED
  BY <1>2, <1>3

\* A move keeps the account of the ends to be written.
LEMMA WriteStep ==
  ASSUME TypeOK, Base, TypeOK', Base', WriteInv, NEW t \in Task, Moves(t)
  PROVE  WriteInv'
<1> SUFFICES ASSUME events' = {}, NEW u \in URL
             PROVE  /\ IsFiniteSet(Jobs(Writing(u)))'
                    /\ (Done(u) + Fresh(u) + ToParse(u) + ToStore(u)
                         + Cardinality(Jobs(Writing(u))) <= 1)'
  BY DEF WriteInv
<1> DEFINE K == Writing(u)
           x == In(job[t], K)
           y == In(job'[t], K)
<1>0. events = {} /\ \A c, kind : ~Occurs(c, kind)
  <2>1. \A c, kind : ~Occurs(c, kind)
    BY DEF Occurs
  <2> QED
    BY <2>1 DEF Moves, FrontierMove, TakeMove, PullMove, StartMove, WorkMove, ReturnMove,
       ForwardMove, AppendMove, SaveMove, FinishMove, AckMove, CrashMove, ReconnectMove
<1>1. /\ IsFiniteSet(Jobs(K)')
      /\ Cardinality(Jobs(K)) \in Nat /\ Cardinality(Jobs(K)') \in Nat
      /\ Cardinality(Jobs(K)') + x = Cardinality(Jobs(K)) + y
  BY <1>0, JobsCount DEF Moves, WriteInv
<1>2. /\ Fresh(u) \in Nat /\ Fresh(u)' \in Nat
      /\ ~(job[t].at = "start" /\ job'[t] = Idle) => Fresh(u)' <= Fresh(u)
      /\ PullMove(t) /\ job'[t].url = u => Fresh(u) = 1 /\ Fresh(u)' = 0
  BY FreshStep
<1>3. /\ ToParse(u) \in Nat /\ ToStore(u) \in Nat
      /\ ToParse(u)' \in Nat /\ ToStore(u)' \in Nat
      /\ Done(u) \in {0, 1} /\ Done(u)' \in {0, 1}
      /\ status'[u] = status[u] => Done(u)' = Done(u)
  BY Counts DEF Done
<1>5. /\ job[t] \in Job \/ job[t] = Idle
      /\ job'[t] \in Job \/ job'[t] = Idle
      /\ job[t] \in Job => job[t].of \in Component
      /\ job'[t] \in Job => job'[t].of \in Component
  BY JobParts
<1>6. x \in {0, 1} /\ y \in {0, 1} /\ Idle \notin K
  BY IdleFields DEF In, Writing, Reporting
<1>7. Idle.at # "start"
  BY IdleFields
<1> HIDE DEF K
<1>8. Done(u)' + Fresh(u)' + ToParse(u)' + ToStore(u)' + y
        <= Done(u) + Fresh(u) + ToParse(u) + ToStore(u) + x
  <2> HIDE DEF x, y
  <2>1. CASE FrontierMove(t)
    <3>1. x = 0 /\ y = 0 /\ job[t].at # "start"
      BY <1>5, <1>6, <1>7, <2>1
         DEF FrontierMove, In, K, Writing, Reporting, Recorder, x, y, Base, JobInv, PlacesOf
    <3> QED
      BY <1>2, <1>3, <2>1, <3>1 DEF FrontierMove, Held, NoMail
  <2>2. CASE TakeMove(t)
    <3>1. x = 0 /\ (y = 1 <=> job'[t].url = u) /\ job[t].at # "start"
      BY <1>5, <1>6, <1>7, <2>2
         DEF TakeMove, In, K, Writing, Reporting, Recorder, Component, x, y
    <3> QED
      BY <1>2, <1>3, <1>6, <2>2, <3>1 DEF TakeMove, Held, Mailed
  <2>3. CASE PullMove(t)
    <3>1. x = 0 /\ (y = 1 <=> job'[t].url = u) /\ job[t].at # "start"
      BY <1>5, <1>6, <1>7, <2>3
         DEF PullMove, In, K, Writing, Reporting, Recorder, Component, x, y
    <3> QED
      BY <1>2, <1>3, <1>6, <2>3, <3>1 DEF PullMove, Held, NoMail
  <2>4. CASE StartMove(t)
    <3>1. Goes(t) /\ job'[t] # Idle /\ job[t].ended = "none" /\ job'[t].ended = "none"
      BY <1>0, <2>4, IdleFields DEF StartMove, Goes, Base, JobInv, Ahead
    <3>2. x = y
      BY <2>4, <3>1 DEF StartMove, Goes, In, K, Writing, Reporting, x, y
    <3>3. Done(u)' <= Done(u)
      BY <1>0, <1>3, <2>4 DEF StartMove, Done, Final
    <3> QED
      BY <1>2, <1>3, <1>6, <2>4, <3>1, <3>2, <3>3 DEF StartMove, NoMail
  <2>5. CASE WorkMove(t) \/ ReturnMove(t)
    <3>1. x = y /\ job[t].at # "start"
      BY <1>5, <1>6, <2>5 DEF WorkMove, ReturnMove, Goes, In, K, Writing, Reporting, Recorder,
         Ahead, x, y, Base, JobInv
    <3> QED
      BY <1>2, <1>3, <1>6, <2>5, <3>1 DEF WorkMove, ReturnMove, Held, NoMail
  <2>6. CASE ForwardMove(t)
    <3>1. (x = 1 <=> job[t].url = u) /\ y = 0
      <4>1. job[t].ended = "none"
        BY <2>6 DEF ForwardMove, Goes, Base, JobInv, Ahead
      <4> QED
        BY <1>0, <2>6, <4>1
           DEF ForwardMove, Goes, In, K, Writing, Reporting, Recorder, Component, x, y
    <3> QED
      BY <1>2, <1>3, <1>6, <2>6, <3>1 DEF ForwardMove, Held, Mailed
  <2>7. CASE AppendMove(t)
    <3>1. x = y
      BY <2>7 DEF AppendMove, Goes, In, K, Writing, Reporting, x, y
    <3> QED
      BY <1>2, <1>3, <1>6, <2>7, <3>1 DEF AppendMove, Held, NoMail
  <2>8. CASE SaveMove(t)
    <3>1. /\ y = 0
          /\ job[t].url = u /\ job[t].ended # "published" => x = 1
      BY <1>5, <1>6, <2>8
         DEF SaveMove, Saved, Goes, In, K, Writing, Reporting, Recorder, x, y
    <3>2. \/ status'[u] = status[u]
          \/ job[t].url = u /\ status'[u] = StatusOf(job[t])
      BY <1>0, <2>8 DEF SaveMove
    <3>3. job[t].ended = "published" => StatusOf(job[t]) \notin Final
      BY <2>8, StatusNames DEF SaveMove, Final
    <3>4. Done(u)' <= Done(u) + x
      BY <1>3, <1>6, <3>1, <3>2, <3>3 DEF Done
    <3> QED
      BY <1>2, <1>3, <1>6, <2>8, <3>1, <3>4 DEF SaveMove, NoMail
  <2>9. CASE FinishMove(t)
    <3>1. x = 0 /\ y = 0
      BY <1>6, <2>9 DEF FinishMove, Goes, In, K, Writing, Reporting, x, y
    <3> QED
      BY <1>2, <1>3, <2>9, <3>1 DEF FinishMove, NoMail
  <2>10. CASE AckMove(t)
    <3>1. x = 0 /\ y = 0
      BY <1>6, <2>10 DEF AckMove, In, K, Writing, Reporting, x, y
    <3> QED
      BY <1>2, <1>3, <2>10, <3>1 DEF AckMove, Held, NoMail
  <2> QED
    BY <1>0, <2>1, <2>2, <2>3, <2>4, <2>5, <2>6, <2>7, <2>8, <2>9, <2>10
       DEF Moves, CrashMove, ReconnectMove
<1>9. Done(u) + Fresh(u) + ToParse(u) + ToStore(u) + Cardinality(Jobs(K)) <= 1
  BY <1>0 DEF WriteInv, K
<1>10. Done(u)' + Fresh(u)' + ToParse(u)' + ToStore(u)' + Cardinality(Jobs(K)') <= 1
  <2> HIDE DEF x, y
  <2> QED
    BY <1>1, <1>2, <1>3, <1>6, <1>8, <1>9
<1> QED
  BY <1>1, <1>10 DEF K
\* A stutter keeps it.
LEMMA WriteStutter == UNCHANGED vars /\ WriteInv => WriteInv'
<1> SUFFICES ASSUME UNCHANGED vars, WriteInv PROVE WriteInv'
  OBVIOUS
<1>1. UNCHANGED <<waiting, job, status, entries, finishes, events>>
  BY DEF vars, crawls
<1> QED
  BY <1>1 DEF WriteInv, Jobs, ToParse, ToStore, Fresh, Unstarted, Runs, Done

\* While nothing fails a final status is left only for progress that comes late.
LEMMA ProgressStep ==
  ASSUME TypeOK, Base, TypeOK', WriteInv, NEW t \in Task, Moves(t), events' = {},
         NEW u \in URL, status[u] \in Final
  PROVE  status'[u] \in {status[u], "in_progress"}
<1>1. events = {}
  BY DEF Moves, FrontierMove, TakeMove, PullMove, StartMove, WorkMove, ReturnMove, ForwardMove,
     AppendMove, SaveMove, FinishMove, AckMove, CrashMove, ReconnectMove, Occurs
<1>2. SaveMove(t) /\ job[t].url = u => job[t].ended = "published"
  <2> SUFFICES ASSUME SaveMove(t), job[t].url = u, job[t].ended # "published" PROVE FALSE
    OBVIOUS
  <2>1. t \in Jobs(Writing(u))
    BY JobParts DEF SaveMove, Jobs, Writing, Reporting, Recorder
  <2>2. /\ IsFiniteSet(Jobs(Writing(u)))
        /\ Done(u) + Fresh(u) + ToParse(u) + ToStore(u) + Cardinality(Jobs(Writing(u))) <= 1
    BY <1>1 DEF WriteInv
  <2>3. /\ ToParse(u) \in Nat /\ ToStore(u) \in Nat /\ Done(u) = 1 /\ Fresh(u) \in Nat
        /\ Cardinality(Jobs(Writing(u))) \in Nat
    BY <2>2, Counts, FS_CardinalityType DEF Done, Fresh
  <2>4. Cardinality(Jobs(Writing(u))) = 0
    BY <2>2, <2>3
  <2> QED
    BY <2>1, <2>2, <2>4, FS_EmptySet
<1>3. SaveMove(t) /\ job[t].url = u =>
        status'[u] = status[u] \/ status'[u] = "in_progress"
  BY <1>2, StatusNames DEF SaveMove
<1> QED
  BY <1>3 DEF Moves, FrontierMove, TakeMove, PullMove, StartMove, WorkMove, ReturnMove,
     ForwardMove, AppendMove, SaveMove, FinishMove, AckMove, CrashMove, ReconnectMove, Held

(***************************************************************************)
(* While nothing fails, a final status is only ever replaced by the late   *)
(* IN_PROGRESS of a component that has forwarded the crawl (update_crawl). *)
(***************************************************************************)
THEOREM ProgressHolds == Spec => OnlyLateProgress
<1> DEFINE Late == events' = {} =>
                     \A u \in URL : status[u] \in Final =>
                       status'[u] \in {status[u], "in_progress"}
<1>1. TypeOK /\ Base /\ WriteInv /\ [Next]_vars => WriteInv'
  <2> SUFFICES ASSUME TypeOK, Base, WriteInv, Next PROVE WriteInv'
    BY WriteStutter
  <2> QED
    BY BaseStep, WriteStep
<1>2. TypeOK /\ Base /\ WriteInv /\ [Next]_vars => [Late]_vars
  BY BaseStep, ProgressStep
<1> QED
  BY <1>1, <1>2, WriteInit, BaseAlways, PTL DEF Spec, OnlyLateProgress

-----------------------------------------------------------------------------
(***************************************************************************)
(* One Parser and one Storage for a URL, kept by every step.               *)
(***************************************************************************)
LEMMA EntryInit == Init => SingleParser /\ SingleStorage /\ SingleAppend
<1> SUFFICES ASSUME Init PROVE SingleParser /\ SingleStorage /\ SingleAppend
  OBVIOUS
<1>1. \A t \in Task : job[t] = Idle
  BY DEF Init
<1>2. ASSUME NEW u \in URL
      PROVE  /\ IsFiniteSet(Jobs(Parsing(u))) /\ Cardinality(Jobs(Parsing(u))) = 0
             /\ IsFiniteSet(Jobs(Storing(u))) /\ Cardinality(Jobs(Storing(u))) = 0
             /\ Fresh(u) \in {0, 1} /\ ToParse(u) = 0 /\ ToStore(u) = 0
  <2>1. Parsing(u) \in SUBSET Job /\ Storing(u) \in SUBSET Job
    BY DEF Parsing, Storing
  <2>2. Fresh(u) \in {0, 1}
    BY DEF Fresh
  <2> QED
    BY <1>1, <2>1, <2>2, NoJobs, QueuesEmpty
<1>3. SingleParser /\ SingleStorage
  BY <1>2 DEF SingleParser, SingleStorage
<1> QED
  BY <1>1, <1>3, IdleFields DEF SingleAppend

\* The events that double a component have not happened before either.
LEMMA SingleBefore ==
  ASSUME NEW t \in Task, Moves(t), NEW c, Single(c)'
  PROVE  Single(c) /\ \A b, kind : Occurs(b, kind) => <<b, kind>> \notin Doubling[c]
<1>1. events \subseteq events'
  BY OccursMore DEF Moves, FrontierMove, TakeMove, PullMove, StartMove, WorkMove, ReturnMove,
     ForwardMove, AppendMove, SaveMove, FinishMove, AckMove, CrashMove, ReconnectMove
<1> QED
  BY <1>1 DEF Single, Occurs

\* Events that double a Parser, and those that double a Storage.
LEMMA DoublingEvents ==
  /\ <<"Parser", "reconnect">> \in Doubling["Parser"]
  /\ <<"Parser", "crash">> \in Doubling["Storage"]
  /\ <<"Parser", "reconnect">> \in Doubling["Storage"]
  /\ <<"Storage", "reconnect">> \in Doubling["Storage"]
BY DEF Doubling, Recorder, Component

\* A move keeps a Parser single.
LEMMA ParserStep ==
  ASSUME TypeOK, Base, TypeOK', Base', SingleParser, NEW t \in Task, Moves(t)
  PROVE  SingleParser'
<1> SUFFICES ASSUME Single("Parser")', NEW u \in URL
             PROVE  /\ IsFiniteSet(Jobs(Parsing(u)))'
                    /\ (Fresh(u) + ToParse(u) + Cardinality(Jobs(Parsing(u))) <= 1)'
  BY DEF SingleParser
<1> DEFINE K == Parsing(u)
           x == In(job[t], K)
           y == In(job'[t], K)
           Started == /\ job[t] \in Job /\ job[t].of = "Downloader" /\ job[t].url = u
                      /\ job[t].at = "start" /\ job'[t] = Idle
<1>0. /\ Single("Parser")
      /\ \A b, kind : Occurs(b, kind) => <<b, kind>> \notin Doubling["Parser"]
  BY SingleBefore
<1>1. /\ IsFiniteSet(Jobs(K)')
      /\ Cardinality(Jobs(K)) \in Nat /\ Cardinality(Jobs(K)') \in Nat
      /\ Cardinality(Jobs(K)') + x = Cardinality(Jobs(K)) + y
  BY <1>0, JobsCount DEF Moves, SingleParser
<1>2. /\ Fresh(u) \in Nat /\ Fresh(u)' \in Nat
      /\ Fresh(u)' <= Fresh(u) + (IF Started THEN 1 ELSE 0)
      /\ PullMove(t) /\ job'[t].url = u => Fresh(u) = 1 /\ Fresh(u)' = 0
  BY FreshStep
<1>3. /\ ToParse(u) \in Nat /\ ToStore(u) \in Nat
      /\ ToParse(u)' \in Nat /\ ToStore(u)' \in Nat
  BY Counts
<1>5. /\ job[t] \in Job \/ job[t] = Idle
      /\ job'[t] \in Job \/ job'[t] = Idle
      /\ job[t] \in Job => job[t].of \in Component
      /\ job'[t] \in Job => job'[t].of \in Component
  BY JobParts
<1>6. x \in {0, 1} /\ y \in {0, 1} /\ Idle \notin K
  BY IdleFields DEF In, Parsing
<1>7. Started => x = 1
  BY DEF In, Parsing, Ahead
<1> HIDE DEF K
<1>8. Fresh(u)' + ToParse(u)' + y <= Fresh(u) + ToParse(u) + x
  <2> HIDE DEF x, y
  <2>1. CASE FrontierMove(t)
    <3>1. x = 0 /\ y = 0
      BY <1>5, <1>6, <2>1 DEF FrontierMove, In, K, Parsing, x, y
    <3> QED
      BY <1>2, <1>3, <1>7, <2>1, <3>1 DEF FrontierMove, NoMail
  <2>2. CASE TakeMove(t)
    <3>1. x = 0 /\ (y = 1 => job'[t].url = u /\ job'[t].of = "Parser")
      BY <1>5, <1>6, <2>2 DEF TakeMove, In, K, Parsing, Ahead, x, y
    <3> QED
      BY <1>2, <1>3, <1>6, <1>7, <2>2, <3>1 DEF TakeMove, Mailed
  <2>3. CASE PullMove(t)
    <3>1. x = 0 /\ (y = 1 => job'[t].url = u)
      BY <1>5, <1>6, <2>3 DEF PullMove, In, K, Parsing, x, y
    <3> QED
      BY <1>2, <1>3, <1>6, <1>7, <2>3, <3>1 DEF PullMove, NoMail
  <2>4. CASE StartMove(t)
    <3>1. CASE Goes(t)
      <4>1. x = y /\ ~Started
        BY <2>4, <3>1, IdleFields DEF StartMove, Goes, In, K, Parsing, Ahead, x, y
      <4> QED
        BY <1>2, <1>3, <1>6, <2>4, <4>1 DEF StartMove, NoMail
    <3>2. CASE job'[t] = Idle
      <4>1. y = 0
        BY <1>6, <3>2 DEF In, y
      <4> QED
        BY <1>2, <1>3, <1>6, <1>7, <2>4, <4>1 DEF StartMove, NoMail
    <3> QED
      BY <2>4, <3>1, <3>2 DEF StartMove
  <2>5. CASE WorkMove(t) \/ ReturnMove(t)
    <3>1. y <= x /\ ~Started
      BY <1>5, <1>6, <2>5 DEF WorkMove, ReturnMove, Goes, In, K, Parsing, Ahead, x, y
    <3> QED
      BY <1>2, <1>3, <1>6, <2>5, <3>1 DEF WorkMove, ReturnMove, NoMail
  <2>6. CASE ForwardMove(t)
    <3>1. /\ ~Started /\ y <= x
          /\ job[t].url = u /\ job[t].of = "Downloader" => x = 1 /\ y = 0
      BY <1>6, <2>6 DEF ForwardMove, Goes, In, K, Parsing, Ahead, x, y
    <3> QED
      BY <1>2, <1>3, <1>6, <2>6, <3>1 DEF ForwardMove, Mailed
  <2>7. CASE AppendMove(t)
    <3>1. y <= x /\ ~Started
      BY <1>6, <2>7 DEF AppendMove, Goes, In, K, Parsing, Ahead, x, y
    <3> QED
      BY <1>2, <1>3, <1>6, <2>7, <3>1 DEF AppendMove, NoMail
  <2>8. CASE SaveMove(t)
    <3>1. y <= x /\ ~Started
      BY <1>6, <2>8 DEF SaveMove, Saved, Goes, In, K, Parsing, Ahead, x, y
    <3> QED
      BY <1>2, <1>3, <1>6, <2>8, <3>1 DEF SaveMove, NoMail
  <2>9. CASE FinishMove(t)
    <3>1. y <= x /\ ~Started
      BY <1>6, <2>9 DEF FinishMove, Goes, In, K, Parsing, Ahead, x, y
    <3> QED
      BY <1>2, <1>3, <1>6, <2>9, <3>1 DEF FinishMove, NoMail
  <2>10. CASE AckMove(t)
    <3>1. y <= x /\ ~Started
      BY <1>6, <2>10 DEF AckMove, In, K, y
    <3> QED
      BY <1>2, <1>3, <1>6, <2>10, <3>1 DEF AckMove, NoMail
  <2>11. CASE CrashMove(t)
    <3>1. y = 0 /\ (~Started /\ job[t].url = u /\ job[t].of = "Parser" => x = 1)
      BY <1>5, <1>6, <2>11 DEF CrashMove, In, K, Parsing, x, y
    <3>2. ToParse(u)' <= ToParse(u) + (IF Started THEN 0 ELSE x)
      BY <1>3, <1>6, <2>11, <3>1 DEF CrashMove, NoMail, Mailed
    <3> QED
      BY <1>2, <1>3, <1>6, <1>7, <2>11, <3>1, <3>2
  <2>12. CASE ReconnectMove(t)
    <3>1. x = y /\ ~Started
      BY <1>6, <2>12 DEF ReconnectMove, Goes, In, K, Parsing, x, y
    <3>2. job[t].of = "Storage"
      BY <1>0, <2>12, DoublingEvents DEF ReconnectMove
    <3> QED
      BY <1>2, <1>3, <1>6, <2>12, <3>1, <3>2 DEF ReconnectMove, Mailed
  <2> QED
    BY <2>1, <2>2, <2>3, <2>4, <2>5, <2>6, <2>7, <2>8, <2>9, <2>10, <2>11, <2>12 DEF Moves
<1>9. Fresh(u) + ToParse(u) + Cardinality(Jobs(K)) <= 1
  BY <1>0 DEF SingleParser, K
<1>10. Fresh(u)' + ToParse(u)' + Cardinality(Jobs(K)') <= 1
  <2> HIDE DEF x, y
  <2> QED
    BY <1>1, <1>2, <1>3, <1>6, <1>8, <1>9
<1> QED
  BY <1>1, <1>10 DEF K

\* A move keeps a Storage single.
LEMMA StorageStep ==
  ASSUME TypeOK, Base, TypeOK', Base', SingleStorage, NEW t \in Task, Moves(t)
  PROVE  SingleStorage'
<1> SUFFICES ASSUME Single("Storage")', NEW u \in URL
             PROVE  /\ IsFiniteSet(Jobs(Storing(u)))'
                    /\ (Fresh(u) + ToParse(u) + ToStore(u) + Cardinality(Jobs(Storing(u))) <= 1)'
  BY DEF SingleStorage
<1> DEFINE K == Storing(u)
           x == In(job[t], K)
           y == In(job'[t], K)
           Started == /\ job[t] \in Job /\ job[t].of = "Downloader" /\ job[t].url = u
                      /\ job[t].at = "start" /\ job'[t] = Idle
<1>0. /\ Single("Storage")
      /\ \A b, kind : Occurs(b, kind) => <<b, kind>> \notin Doubling["Storage"]
  BY SingleBefore
<1>1. /\ IsFiniteSet(Jobs(K)')
      /\ Cardinality(Jobs(K)) \in Nat /\ Cardinality(Jobs(K)') \in Nat
      /\ Cardinality(Jobs(K)') + x = Cardinality(Jobs(K)) + y
  BY <1>0, JobsCount DEF Moves, SingleStorage
<1>2. /\ Fresh(u) \in Nat /\ Fresh(u)' \in Nat
      /\ Fresh(u)' <= Fresh(u) + (IF Started THEN 1 ELSE 0)
      /\ PullMove(t) /\ job'[t].url = u => Fresh(u) = 1 /\ Fresh(u)' = 0
  BY FreshStep
<1>3. /\ ToParse(u) \in Nat /\ ToStore(u) \in Nat
      /\ ToParse(u)' \in Nat /\ ToStore(u)' \in Nat
  BY Counts
<1>5. /\ job[t] \in Job \/ job[t] = Idle
      /\ job'[t] \in Job \/ job'[t] = Idle
      /\ job[t] \in Job => job[t].of \in Component
      /\ job'[t] \in Job => job'[t].of \in Component
  BY JobParts
<1>6. x \in {0, 1} /\ y \in {0, 1} /\ Idle \notin K
  BY IdleFields DEF In, Storing
<1>7. Started => x = 1
  BY DEF In, Storing, Ahead
<1> HIDE DEF K
<1>8. Fresh(u)' + ToParse(u)' + ToStore(u)' + y <= Fresh(u) + ToParse(u) + ToStore(u) + x
  <2> HIDE DEF x, y
  <2>1. CASE FrontierMove(t)
    <3>1. x = 0 /\ y = 0
      BY <1>5, <1>6, <2>1 DEF FrontierMove, In, K, Storing, x, y
    <3> QED
      BY <1>2, <1>3, <1>7, <2>1, <3>1 DEF FrontierMove, NoMail
  <2>2. CASE TakeMove(t)
    <3>1. x = 0 /\ (y = 1 => job'[t].url = u)
      BY <1>5, <1>6, <2>2 DEF TakeMove, In, K, Storing, Ahead, x, y
    <3> QED
      BY <1>2, <1>3, <1>6, <1>7, <2>2, <3>1 DEF TakeMove, Mailed
  <2>3. CASE PullMove(t)
    <3>1. x = 0 /\ (y = 1 => job'[t].url = u)
      BY <1>5, <1>6, <2>3 DEF PullMove, In, K, Storing, x, y
    <3> QED
      BY <1>2, <1>3, <1>6, <1>7, <2>3, <3>1 DEF PullMove, NoMail
  <2>4. CASE StartMove(t)
    <3>1. CASE Goes(t)
      <4>1. x = y /\ ~Started
        BY <2>4, <3>1, IdleFields DEF StartMove, Goes, In, K, Storing, Ahead, x, y
      <4> QED
        BY <1>2, <1>3, <1>6, <2>4, <4>1 DEF StartMove, NoMail
    <3>2. CASE job'[t] = Idle
      <4>1. y = 0
        BY <1>6, <3>2 DEF In, y
      <4> QED
        BY <1>2, <1>3, <1>6, <1>7, <2>4, <4>1 DEF StartMove, NoMail
    <3> QED
      BY <2>4, <3>1, <3>2 DEF StartMove
  <2>5. CASE WorkMove(t) \/ ReturnMove(t)
    <3>1. y <= x /\ ~Started
      BY <1>5, <1>6, <2>5 DEF WorkMove, ReturnMove, Goes, In, K, Storing, Ahead, x, y
    <3> QED
      BY <1>2, <1>3, <1>6, <2>5, <3>1 DEF WorkMove, ReturnMove, NoMail
  <2>6. CASE ForwardMove(t)
    <3>1. /\ ~Started /\ y <= x
          /\ job[t].url = u => x = 1 /\ y = 0
      BY <1>6, <2>6 DEF ForwardMove, Goes, In, K, Storing, Ahead, x, y
    <3> QED
      BY <1>2, <1>3, <1>6, <2>6, <3>1 DEF ForwardMove, Mailed
  <2>7. CASE AppendMove(t)
    <3>1. y <= x /\ ~Started
      BY <1>6, <2>7 DEF AppendMove, Goes, In, K, Storing, Ahead, x, y
    <3> QED
      BY <1>2, <1>3, <1>6, <2>7, <3>1 DEF AppendMove, NoMail
  <2>8. CASE SaveMove(t)
    <3>1. y <= x /\ ~Started
      BY <1>6, <2>8 DEF SaveMove, Saved, Goes, In, K, Storing, Ahead, x, y
    <3> QED
      BY <1>2, <1>3, <1>6, <2>8, <3>1 DEF SaveMove, NoMail
  <2>9. CASE FinishMove(t)
    <3>1. y <= x /\ ~Started
      BY <1>6, <2>9 DEF FinishMove, Goes, In, K, Storing, Ahead, x, y
    <3> QED
      BY <1>2, <1>3, <1>6, <2>9, <3>1 DEF FinishMove, NoMail
  <2>10. CASE AckMove(t)
    <3>1. y <= x /\ ~Started
      BY <1>6, <2>10 DEF AckMove, In, K, y
    <3> QED
      BY <1>2, <1>3, <1>6, <2>10, <3>1 DEF AckMove, NoMail
  <2>11. CASE CrashMove(t)
    <3>1. y = 0 /\ (~Started /\ job[t].url = u /\ job[t].of = "Storage" => x = 1)
      BY <1>5, <1>6, <2>11 DEF CrashMove, In, K, Storing, x, y
    <3>2. ToParse(u)' + ToStore(u)' <= ToParse(u) + ToStore(u) + (IF Started THEN 0 ELSE x)
      <4>1. job[t].of # "Parser"
        BY <1>0, <2>11, DoublingEvents DEF CrashMove
      <4> QED
        BY <1>3, <1>5, <1>6, <2>11, <3>1, <4>1 DEF CrashMove, NoMail, Mailed
    <3> QED
      BY <1>2, <1>3, <1>6, <1>7, <2>11, <3>1, <3>2
  <2>12. CASE ReconnectMove(t)
    <3>1. x = y /\ ~Started
      BY <1>6, <2>12 DEF ReconnectMove, Goes, In, K, Storing, x, y
    <3>2. FALSE
      BY <1>0, <2>12, DoublingEvents DEF ReconnectMove
    <3> QED
      BY <1>2, <1>3, <1>6, <2>12, <3>1, <3>2 DEF ReconnectMove, Mailed
  <2> QED
    BY <2>1, <2>2, <2>3, <2>4, <2>5, <2>6, <2>7, <2>8, <2>9, <2>10, <2>11, <2>12 DEF Moves
<1>9. Fresh(u) + ToParse(u) + ToStore(u) + Cardinality(Jobs(K)) <= 1
  BY <1>0 DEF SingleStorage, K
<1>10. Fresh(u)' + ToParse(u)' + ToStore(u)' + Cardinality(Jobs(K)') <= 1
  <2> HIDE DEF x, y
  <2> QED
    BY <1>1, <1>2, <1>3, <1>6, <1>8, <1>9
<1> QED
  BY <1>1, <1>10 DEF K
\* An entry is appended by the only job of its component that has the URL.
LEMMA AppendStep ==
  ASSUME TypeOK, Base, TypeOK', Base', SingleParser, SingleStorage, SingleAppend, OneEntry,
         NEW t \in Task, Moves(t)
  PROVE  SingleAppend' /\ OneEntry'
<1>1. /\ job[t] \in Job \/ job[t] = Idle
      /\ job'[t] \in Job \/ job'[t] = Idle
      /\ \A j \in Job : j.of \in Component /\ j.url \in URL
      /\ \A s \in Task : job[s] \in Job \/ job[s] = Idle
  BY JobParts, JobFields, TypeParts DEF JobsType
<1>2. \A u \in URL, c \in Recorder :
        \/ entries'[u][c] = entries[u][c]
        \/ /\ SaveMove(t) /\ job[t].at = "append" /\ u = job[t].url /\ c = job[t].of
           /\ entries'[u][c] = entries[u][c] + 1
        \/ entries'[u][c] = entries[u][c] + 0
  BY DEF Moves, FrontierMove, TakeMove, PullMove, StartMove, WorkMove, ReturnMove, ForwardMove,
     AppendMove, SaveMove, FinishMove, AckMove, CrashMove, ReconnectMove, Held
<1>3. \A u \in URL, c \in Recorder : entries[u][c] \in Nat
  BY DEF TypeOK
<1>4. ASSUME NEW s \in Task \ {t}, job[s] \in Job, job[s].at = "append",
             job[t] \in Job, job[t].at = "append",
             job[s].of = job[t].of, job[s].url = job[t].url, Single(job[s].of)
      PROVE  FALSE
  <2>1. job[s].of \in Recorder /\ job[s].url \in URL
    BY <1>1, <1>4, AtJob DEF Base, Ending, Recorder
  <2>2. CASE job[s].of = "Downloader"
    BY <1>4, <2>2 DEF Base, JobInv
  <2>3. CASE job[s].of = "Parser"
    <3> DEFINE K == Parsing(job[s].url)
    <3>1. s \in Jobs(K) /\ t \in Jobs(K)
      BY <1>4, <2>3 DEF Jobs, Parsing
    <3>2. /\ IsFiniteSet(Jobs(K))
          /\ Fresh(job[s].url) + ToParse(job[s].url) + Cardinality(Jobs(K)) <= 1
      BY <1>4, <2>1, <2>3 DEF SingleParser
    <3>3. /\ ToParse(job[s].url) \in Nat /\ Fresh(job[s].url) \in Nat
          /\ Cardinality(Jobs(K)) \in Nat
      BY <2>1, <3>2, Counts, FS_CardinalityType DEF Fresh
    <3>4. Cardinality(Jobs(K)) <= 1
      BY <3>2, <3>3
    <3> QED
      BY <3>1, <3>2, <3>4, OneJob
  <2>4. CASE job[s].of = "Storage"
    <3> DEFINE K == Storing(job[s].url)
    <3>1. s \in Jobs(K) /\ t \in Jobs(K)
      BY <1>4, <2>4 DEF Jobs, Storing
    <3>2. /\ IsFiniteSet(Jobs(K))
          /\ Fresh(job[s].url) + ToParse(job[s].url) + ToStore(job[s].url)
               + Cardinality(Jobs(K)) <= 1
      BY <1>4, <2>1, <2>4 DEF SingleStorage
    <3>3. /\ ToParse(job[s].url) \in Nat /\ ToStore(job[s].url) \in Nat
          /\ Fresh(job[s].url) \in Nat /\ Cardinality(Jobs(K)) \in Nat
      BY <2>1, <3>2, Counts, FS_CardinalityType DEF Fresh
    <3>4. Cardinality(Jobs(K)) <= 1
      BY <3>2, <3>3
    <3> QED
      BY <3>1, <3>2, <3>4, OneJob
  <2> QED
    BY <2>1, <2>2, <2>3, <2>4 DEF Recorder, Component
<1>5. SingleAppend'
  <2> SUFFICES ASSUME NEW s \in Task, job'[s] \in Job, job'[s].at = "append",
                      NEW c, c = job'[s].of, Single(c)'
               PROVE  entries'[job'[s].url][job'[s].of] = 0
    BY DEF SingleAppend, Single
  <2>1. Single(c) /\ c = job'[s].of
    BY SingleBefore
  <2>2. job'[s].url \in URL /\ job'[s].of \in Recorder
    <3>1. job'[s].at \in PlacesOf(job'[s].of) /\ job'[s].of \in Component
      BY <1>1 DEF Base, JobInv
    <3> QED
      BY <1>1, <3>1 DEF PlacesOf, Component, Recorder
  <2>3. CASE s # t
    <3>1. job'[s] = job[s]
      BY <2>3 DEF Moves, Others
    <3>2. entries[job[s].url][job[s].of] = 0
      BY <2>1, <3>1 DEF SingleAppend
    <3>3. ~(/\ SaveMove(t) /\ job[t].at = "append" /\ job[s].url = job[t].url
            /\ job[s].of = job[t].of)
      BY <1>4, <2>1, <2>3, <3>1 DEF SaveMove
    <3> QED
      BY <1>2, <2>2, <3>1, <3>2, <3>3
  <2>4. CASE s = t
    <3>1. \/ AppendMove(t)
          \/ ReconnectMove(t)
      BY <2>2, <2>4, IdleFields DEF Moves, FrontierMove, TakeMove, PullMove, StartMove, WorkMove,
         ReturnMove, ForwardMove, SaveMove, Saved, FinishMove, AckMove, CrashMove, PlacesOf, Ahead,
         Recorder
    <3> QED
      BY <2>1, <2>4, <3>1 DEF AppendMove, ReconnectMove, Goes, Held, SingleAppend
  <2> QED
    BY <2>3, <2>4
<1>6. OneEntry'
  <2> SUFFICES ASSUME NEW u \in URL, NEW c \in Recorder, Single(c)'
               PROVE  entries'[u][c] <= 1
    BY DEF OneEntry, Single
  <2>1. Single(c)
    BY SingleBefore
  <2>2. entries[u][c] <= 1
    BY <2>1 DEF OneEntry, Single
  <2>3. SaveMove(t) /\ job[t].at = "append" /\ u = job[t].url /\ c = job[t].of =>
          entries[u][c] = 0
    BY <2>1 DEF SingleAppend, SaveMove
  <2> QED
    BY <1>2, <1>3, <2>2, <2>3
<1> QED
  BY <1>5, <1>6

EntryInv == SingleParser /\ SingleStorage /\ SingleAppend /\ OneEntry

\* A stutter keeps all of it.
LEMMA EntryStutter == UNCHANGED vars /\ EntryInv => EntryInv'
<1> SUFFICES ASSUME UNCHANGED vars, EntryInv PROVE EntryInv'
  OBVIOUS
<1>1. UNCHANGED <<waiting, job, status, entries, finishes, events>>
  BY DEF vars, crawls
<1> QED
  BY <1>1 DEF EntryInv, SingleParser, SingleStorage, SingleAppend, Single, OneEntry,
     Jobs, ToParse, ToStore, Fresh, Unstarted, Runs

(***************************************************************************)
(* A crawl has one entry for each component (update_crawl), until an event *)
(* that leaves a message with two handlers, or a page with two Storages.   *)
(***************************************************************************)
THEOREM EntryHolds == Spec => []OneEntry
<1>1. Init => EntryInv
  <2>1. Init => OneEntry
    BY DEF Init, OneEntry
  <2> QED
    BY <2>1, EntryInit DEF EntryInv
<1>2. TypeOK /\ Base /\ EntryInv /\ [Next]_vars => EntryInv'
  <2> SUFFICES ASSUME TypeOK, Base, EntryInv, Next PROVE EntryInv'
    BY EntryStutter
  <2>1. PICK t \in Task : Moves(t)
    BY BaseStep
  <2>2. TypeOK' /\ Base'
    BY BaseStep
  <2> QED
    BY <2>1, <2>2, ParserStep, StorageStep, AppendStep, Zenon DEF EntryInv
<1>3. EntryInv => OneEntry
  BY DEF EntryInv
<1> QED
  BY <1>1, <1>2, <1>3, BaseAlways, PTL DEF Spec
-----------------------------------------------------------------------------
(***************************************************************************)
(* The URLs that are seen and lost.  Each has an event of the Frontier.    *)
(***************************************************************************)
Saves(t) == Runs(t, "Frontier") /\ job[t].at \in {"enrich", "register"}

\* A step can lose no URL but its own,
LEMMA LostOne ==
  ASSUME NEW t \in Task, Others(t), registered \subseteq registered',
         seen' \subseteq seen \cup {job[t].url}
  PROVE  LostURLs' \subseteq LostURLs \cup {job[t].url}
BY DEF Others, LostURLs, Runs

\* nor that one while the step has it saved or leads to saving it.
LEMMA LostNone ==
  ASSUME NEW t \in Task, Others(t), registered \subseteq registered',
         \/ seen' = seen /\ ~Saves(t)
         \/ /\ seen' \subseteq seen \cup {job[t].url}
            /\ \/ job[t].url \in registered'
               \/ Saves(t)' /\ job'[t].url = job[t].url
  PROVE  LostURLs' \subseteq LostURLs
<1>1. CASE seen' = seen /\ ~Saves(t)
  BY <1>1 DEF Others, LostURLs, Runs, Saves
<1>2. CASE /\ seen' \subseteq seen \cup {job[t].url}
           /\ \/ job[t].url \in registered'
              \/ Saves(t)' /\ job'[t].url = job[t].url
  <2>1. LostURLs' \subseteq LostURLs \cup {job[t].url}
    BY <1>2, LostOne
  <2>2. job[t].url \notin LostURLs'
    BY <1>2 DEF LostURLs, Saves, Runs
  <2> QED
    BY <2>1, <2>2
<1> QED
  BY <1>1, <1>2

\* So every step loses nothing, or its own URL to an event of the Frontier.
LEMMA LostMove ==
  ASSUME TypeOK, Base, NEW t \in Task, Step(t) \/ Crash(t) \/ Reconnect(t), Moves(t)
  PROVE  /\ events \subseteq events'
         /\ \/ LostURLs' \subseteq LostURLs
            \/ /\ LostURLs' \subseteq LostURLs \cup {job[t].url}
               /\ \E kind : Occurs("Frontier", kind)
<1>1. Others(t) /\ events \subseteq events'
  BY OccursMore DEF Moves, FrontierMove, TakeMove, PullMove, StartMove, WorkMove, ReturnMove,
     ForwardMove, AppendMove, SaveMove, FinishMove, AckMove, CrashMove, ReconnectMove
<1>2. CASE ~FrontierMove(t)
  <2>1. Kept /\ job[t].of # "Frontier"
    BY <1>2, IdleFields DEF Moves, TakeMove, PullMove, StartMove, WorkMove, ReturnMove,
       ForwardMove, AppendMove, SaveMove, FinishMove, AckMove, CrashMove, ReconnectMove, Goes
  <2> QED
    BY <1>1, <2>1, LostNone DEF Kept, Saves, Runs
<1>3. CASE FrontierMove(t) /\ job[t] = Idle
  <2>1. Deliver(t) \/ Pull(t)
    BY <1>3, IdleFields DEF Step, Crash, Reconnect, Unacked, Busy, Check, Mark, Enrich,
       RegisterUrl, StartCrawl, Fetch, HandleRedirect, Forward, Extract, PublishLink, FilterPage,
       StorePage, Overwrite, Append, Finish, Ack, At
  <2>2. Kept
    BY <2>1 DEF Deliver, Pull, Quiet, Kept
  <2> QED
    BY <1>1, <1>3, <2>2, IdleFields, LostNone DEF Kept, Saves, Runs
<1>4. CASE FrontierMove(t) /\ job[t] # Idle
  <2>1. job[t] \in Job /\ job[t].of = "Frontier" /\ job[t].at \in PlacesOf("Frontier")
    BY <1>4 DEF TypeOK, FrontierMove, Base, JobInv
  <2>2. job[t].at \in {"check", "mark", "enrich", "register", "ack"}
    BY <2>1 DEF PlacesOf
  <2>3. \/ Check(t) \/ Mark(t) \/ Enrich(t) \/ RegisterUrl(t) \/ Ack(t)
        \/ Crash(t) \/ Reconnect(t)
    BY <1>4, <2>2 DEF Step, Deliver, Pull, Busy, StartCrawl, Fetch, HandleRedirect, Forward,
       Extract, PublishLink, FilterPage, StorePage, Overwrite, Append, Finish, At
  <2>4. CASE Check(t) \/ Ack(t)
    <3>1. seen' = seen /\ registered' = registered /\ ~Saves(t)
      BY <2>4 DEF Check, Ack, At, Passes, Ends, Raises, Refuses, Quiet, Saves
    <3> QED
      BY <1>1, <3>1, LostNone
  <2>5. CASE Mark(t)
    <3>1. /\ registered' = registered
          /\ \/ seen' = seen
             \/ seen' = seen \cup {job[t].url} /\ Goto(t, "enrich")
             \/ seen' = seen \cup {job[t].url} /\ Occurs("Frontier", "error")
      BY <2>5 DEF Mark, Raises, Quiet
    <3>2. ~Saves(t)
      BY <2>5 DEF Mark, At, Saves
    <3>3. Goto(t, "enrich") => Saves(t)' /\ job'[t].url = job[t].url
      BY <2>1, GotoJob, PlaceNames DEF Base, Saves, Runs
    <3>4. CASE seen' = seen
      BY <1>1, <3>1, <3>2, <3>4, LostNone
    <3>5. CASE seen' = seen \cup {job[t].url} /\ Goto(t, "enrich")
      BY <1>1, <3>1, <3>3, <3>5, LostNone
    <3>6. CASE seen' = seen \cup {job[t].url} /\ Occurs("Frontier", "error")
      BY <1>1, <3>1, <3>6, LostOne
    <3> QED
      BY <3>1, <3>4, <3>5, <3>6
  <2>6. CASE Enrich(t)
    <3>1. /\ registered' = registered /\ seen' = seen
          /\ Goto(t, "register") \/ \E kind : Occurs("Frontier", kind)
      BY <2>1, <2>6 DEF Enrich, Passes, Raises, Refuses, Quiet
    <3>2. Goto(t, "register") => Saves(t)' /\ job'[t].url = job[t].url
      BY <2>1, GotoJob, PlaceNames DEF Base, Saves, Runs
    <3>3. CASE Goto(t, "register")
      BY <1>1, <3>1, <3>2, <3>3, LostNone
    <3>4. CASE \E kind : Occurs("Frontier", kind)
      BY <1>1, <3>1, <3>4, LostOne
    <3> QED
      BY <3>1, <3>3, <3>4
  <2>7. CASE RegisterUrl(t)
    <3>1. /\ seen' = seen
          /\ \/ registered' = registered \cup {job[t].url}
             \/ registered' = registered /\ Occurs("Frontier", "error")
      BY <2>1, <2>7 DEF RegisterUrl, Raises, Quiet
    <3>2. CASE registered' = registered \cup {job[t].url}
      BY <1>1, <3>1, <3>2, LostNone
    <3>3. CASE registered' = registered /\ Occurs("Frontier", "error")
      BY <1>1, <3>1, <3>3, LostOne
    <3> QED
      BY <3>1, <3>2, <3>3
  <2>8. CASE Crash(t)
    <3>1. seen' = seen /\ registered' = registered /\ Occurs("Frontier", "crash")
      BY <2>1, <2>8 DEF Crash
    <3> QED
      BY <1>1, <3>1, LostOne
  <2>9. CASE Reconnect(t)
    <3>1. /\ seen' = seen /\ registered' = registered
          /\ job' = [job EXCEPT ![t] = [job[t] EXCEPT !.lost = TRUE]]
      BY <2>9 DEF Reconnect
    <3>2. job'[t].of = job[t].of /\ job'[t].at = job[t].at /\ job'[t].url = job[t].url
      BY <2>1, <3>1 DEF TypeOK, Job
    <3>3. CASE Saves(t)
      BY <1>1, <3>1, <3>2, <3>3, LostNone DEF Saves, Runs
    <3>4. CASE ~Saves(t)
      BY <1>1, <3>1, <3>4, LostNone
    <3> QED
      BY <3>3, <3>4
  <2> QED
    BY <2>3, <2>4, <2>5, <2>6, <2>7, <2>8, <2>9
<1> QED
  BY <1>2, <1>3, <1>4

LostInv == IsFiniteSet(LostURLs) /\ SeenIsKept

(***************************************************************************)
(* A seen URL that is neither in the database nor on its way there was     *)
(* lost to an event of its own in the Frontier (URLDeduplicator.register   *)
(* comes before register_url).                                             *)
(***************************************************************************)
THEOREM SeenHolds == Spec => []SeenIsKept
<1>1. Init => LostInv
  <2> SUFFICES ASSUME Init PROVE LostInv
    OBVIOUS
  <2>1. LostURLs = {}
    BY DEF Init, LostURLs
  <2>2. IsFiniteSet(LostURLs) /\ Cardinality(LostURLs) = 0
    BY <2>1, FS_EmptySet
  <2>3. Concerning({"Frontier"}) \in Nat
    BY BaseInit, ConcernType
  <2> QED
    BY <2>2, <2>3 DEF LostInv, SeenIsKept
<1>2. ASSUME TypeOK, Base, LostInv, Next PROVE LostInv'
  <2>1. PICK t \in Task : Moves(t) /\ (Step(t) \/ Crash(t) \/ Reconnect(t))
    BY <1>2, BaseStep
  <2>2. TypeOK'
    BY <1>2, BaseStep
  <2>3. /\ events \subseteq events'
        /\ \/ LostURLs' \subseteq LostURLs
           \/ /\ LostURLs' \subseteq LostURLs \cup {job[t].url}
              /\ \E kind : Occurs("Frontier", kind)
    BY <1>2, <2>1, LostMove
  <2>4. /\ IsFiniteSet(LostURLs) /\ Cardinality(LostURLs) <= Concerning({"Frontier"})
        /\ Cardinality(LostURLs) \in Nat /\ Concerning({"Frontier"}) \in Nat
    BY <1>2, ConcernType, FS_CardinalityType DEF LostInv, SeenIsKept
  <2> DEFINE E == Concerning({"Frontier"})
             ES == Concerning({"Frontier"})'
  <2>7. IsFiniteSet(LostURLs') /\ Cardinality(LostURLs') <= ES => LostInv'
    BY DEF LostInv, SeenIsKept
  <2>8. ES \in Nat
    <3>0. IsFiniteSet(events')
      BY <2>2, PipelineAssumption, FS_Subset DEF TypeOK
    <3>1. IsFiniteSet({e \in events' : e[1] \in {"Frontier"}})
      BY <3>0, FS_Subset
    <3> QED
      BY <3>1, FS_CardinalityType DEF Concerning
  <2>5. CASE LostURLs' \subseteq LostURLs
    <3>1. /\ IsFiniteSet(LostURLs') /\ Cardinality(LostURLs') <= Cardinality(LostURLs)
          /\ Cardinality(LostURLs') \in Nat
      BY <2>4, <2>5, FS_Subset, FS_CardinalityType
    <3>2. E <= ES
      BY <1>2, <2>2, <2>3, ConcernMore
    <3>3. E \in Nat /\ Cardinality(LostURLs) <= E /\ Cardinality(LostURLs) \in Nat
      BY <2>4
    <3> HIDE DEF E, ES
    <3>4. Cardinality(LostURLs') <= ES
      BY <2>8, <3>1, <3>2, <3>3
    <3> QED
      BY <2>7, <3>1, <3>4
  <2>6. CASE /\ LostURLs' \subseteq LostURLs \cup {job[t].url}
             /\ \E kind : Occurs("Frontier", kind)
    <3>1. /\ IsFiniteSet(LostURLs \cup {job[t].url})
          /\ Cardinality(LostURLs \cup {job[t].url}) <= Cardinality(LostURLs) + 1
      <4>1. CASE job[t].url \in LostURLs
        <5>1. LostURLs \cup {job[t].url} = LostURLs
          BY <4>1
        <5> QED
          BY <2>4, <5>1
      <4>2. CASE job[t].url \notin LostURLs
        <5>1. /\ IsFiniteSet(LostURLs \cup {job[t].url})
              /\ Cardinality(LostURLs \cup {job[t].url}) = Cardinality(LostURLs) + 1
          BY <2>4, <4>2, FS_AddElement
        <5> QED
          BY <2>4, <5>1
      <4> QED
        BY <4>1, <4>2
    <3>2. /\ IsFiniteSet(LostURLs')
          /\ Cardinality(LostURLs') <= Cardinality(LostURLs \cup {job[t].url})
          /\ Cardinality(LostURLs') \in Nat /\ Cardinality(LostURLs \cup {job[t].url}) \in Nat
      BY <2>6, <3>1, FS_Subset, FS_CardinalityType
    <3>3. ES = E + 1
      BY <1>2, <2>6, ConcernOne
    <3>4. E \in Nat /\ Cardinality(LostURLs) <= E /\ Cardinality(LostURLs) \in Nat
      BY <2>4
    <3> HIDE DEF E, ES
    <3>5. Cardinality(LostURLs') <= ES
      BY <2>8, <3>1, <3>2, <3>3, <3>4
    <3> QED
      BY <2>7, <3>2, <3>5
  <2> QED
    BY <2>3, <2>5, <2>6
<1>3. UNCHANGED vars /\ LostInv => LostInv'
  <2> SUFFICES ASSUME UNCHANGED vars, LostInv PROVE LostInv'
    OBVIOUS
  <2>1. UNCHANGED <<job, seen, registered, events>>
    BY DEF vars
  <2> QED
    BY <2>1 DEF LostInv, SeenIsKept, LostURLs, Runs, Concerning
<1>4. TypeOK /\ Base /\ LostInv /\ [Next]_vars => LostInv'
  BY <1>2, <1>3
<1>5. LostInv => SeenIsKept
  BY DEF LostInv
<1> QED
  BY <1>1, <1>4, <1>5, BaseAlways, PTL DEF Spec
=============================================================================
