----------------------------- MODULE CrawlGraph -----------------------------
(***************************************************************************)
(* The live graph of a crawl.  Every process of the crawler queues the     *)
(* events of its crawls and sends them one at a time to the Visualization  *)
(* API (linksurf/extensions.py).  The API runs each request in a thread of *)
(* its own, keeps a tree of the pages of a host in its database, one       *)
(* committed statement after the other, and streams what a request changed *)
(* to the browser (visualization/main.py).                                 *)
(*                                                                         *)
(* A page's name is its path, split at the slashes: "/a/b" is <<"a","b">>, *)
(* "/a/" is <<"a","">> and "/" is <<"">>.  One host and one browser are    *)
(* modelled.                                                               *)
(***************************************************************************)
EXTENDS Integers, Sequences, FiniteSets, SequencesExt

CONSTANTS Sender,       \* processes of the crawler with the extension
          URL,          \* the URLs that are crawled
          NameOf,       \* node_name: two schemes may share a name
          Result,       \* the status each URL ends with
          MaxRequests,  \* threads that serve requests
          MaxQueued,    \* MAX_PENDING_EVENTS
          MaxUpdates,   \* MAX_PENDING_UPDATES
          MaxFailures,  \* events dropped, requests that time out or die
          MaxOverlaps,  \* requests that begin while another is being served
          MaxReloads,   \* how often the browser asks for the graph
          MaxBreaks     \* broken streams, and reloads that fail

\* The segment after a slash that ends a name.
Empty == ""
Root == <<Empty>>
Request == 1..MaxRequests
Reload == 1..MaxReloads
Name == {Root} \cup {NameOf[u] : u \in URL}
Status == {"pending", "in_progress", "skipped", "redirected", "errored", "succeeded"}

ASSUME GraphAssumption ==
  /\ IsFiniteSet(URL) /\ NameOf \in [URL -> Seq(STRING) \ {<<>>}]
  /\ Result \in [URL -> Status \ {"pending", "in_progress"}]
  /\ MaxRequests \in Nat \ {0} /\ MaxQueued \in Nat \ {0} /\ MaxUpdates \in Nat \ {0}
  /\ MaxFailures \in Nat /\ MaxOverlaps \in Nat /\ MaxReloads \in Nat /\ MaxBreaks \in Nat

-----------------------------------------------------------------------------
(***************************************************************************)
(* Names (visualization/utils.py).                                         *)
(***************************************************************************)
IsDirectory(n) == Last(n) = Empty

\* func.length: the slashes and, to keep it short, one for each segment.
Length(n) == Len(n) + Cardinality({i \in 1..Len(n) : n[i] # Empty})

\* rstrip("/").
Stripped(n) ==
  SubSeq(n, 1, CHOOSE k \in 0..Len(n) : /\ \A i \in (k + 1)..Len(n) : n[i] = Empty
                                        /\ k = 0 \/ n[k] # Empty)

\* Every directory that could hold n, and its page form.
ancestor_names(n) ==
  {Root} \cup UNION {{Append(SubSeq(n, 1, j - 1), Empty), Stripped(SubSeq(n, 1, j - 1))} :
                       j \in {i \in 2..Len(n) : n[i] # Empty}}

\* The segments that a page and its directory share.
Base(n) == IF IsDirectory(n) THEN Front(n) ELSE n

\* The name starts with the directory form of n, and is not that directory.
Below(n, m) == IsStrictPrefix(Base(n), m) /\ m # Append(Base(n), Empty)

\* The nearest of the nodes that could hold n: the one with the longest name.
Nearest(n, nodes) ==
  LET above == ancestor_names(n) \cap nodes
  IN  IF above = {} THEN Root
      ELSE CHOOSE a \in above : \A b \in above : Length(b) <= Length(a)

-----------------------------------------------------------------------------
VARIABLES
  stage,      \* the events of a URL that have happened: pending, start, finish
  queue,      \* the events a process has still to send
  request,    \* the requests the API is serving
  cluster,    \* the host has its row
  node,       \* the rows of the nodes: their parent and status
  stream,     \* the updates queued for the browser, while it is subscribed
  view,       \* what the browser shows
  reload,     \* the reloads of the graph, each with the copy it was given
  failures, breaks,
  lost,       \* an event was dropped or its request failed
  died,       \* a request died between two of its statements
  overlaps,   \* requests that have begun while another was being served
  dropped     \* the browser was behind, and an update was dropped

crawl == <<stage, queue>>
database == <<cluster, node>>
browser == <<stream, view, reload, breaks>>
ghosts == <<lost, died, overlaps, dropped>>
vars == <<crawl, request, database, browser, failures, ghosts>>

NoOne == "no one"
Nothing == <<>>
Idle == [at |-> "idle", by |-> NoOne, name |-> Root, status |-> "pending",
         seen |-> "pending", parent |-> Root, moved |-> {}, made |-> FALSE, told |-> <<>>]

\* The root's own parent_id, null in the database, is written as Root.
Row == [parent : Name, status : Status]
Graph == UNION {[N -> Row] : N \in SUBSET Name}
Told == Seq([name : Name, row : Row])  \* node_update
Place == {"idle", "cluster", "add cluster", "root", "add root", "node", "status", "parent",
          "place", "descendants", "adopt", "refresh", "tell"}
Asked == [at : Place, by : Sender \cup {NoOne}, name : Name, status : Status, seen : Status,
          parent : Name, moved : SUBSET Name, made : BOOLEAN, told : Told]

\* A resync is due while the page has drifted.  A graph is stale, which the
\* page cannot tell, when an update it lacks will not come.
View == [cluster : BOOLEAN, node : Graph, open : BOOLEAN, drifted : BOOLEAN, stale : BOOLEAN]
Copy == [at : {"none", "given", "over"}, due : BOOLEAN, node : Graph, stale : BOOLEAN]
NoCopy == [at |-> "none", due |-> FALSE, node |-> Nothing, stale |-> FALSE]

\* Every queue, row and request has its type.
TypeOK ==
  /\ stage \in [URL -> 0..3]
  /\ queue \in [Sender -> Seq([name : Name, status : Status])]
  /\ \A s \in Sender : Len(queue[s]) <= MaxQueued
  /\ request \in [Request -> Asked]
  /\ cluster \in BOOLEAN
  /\ node \in Graph
  /\ stream \in Seq([cluster : BOOLEAN, nodes : Told]) /\ Len(stream) <= MaxUpdates
  /\ view \in View
  /\ reload \in [Reload -> Copy]
  /\ failures \in 0..MaxFailures /\ breaks \in 0..MaxBreaks
  /\ lost \in BOOLEAN /\ died \in BOOLEAN /\ dropped \in BOOLEAN
  /\ overlaps \in 0..MaxOverlaps

Init ==
  /\ stage = [u \in URL |-> 0]
  /\ queue = [s \in Sender |-> <<>>]
  /\ request = [r \in Request |-> Idle]
  /\ cluster = FALSE /\ node = Nothing
  /\ stream = <<>> /\ reload = [k \in Reload |-> NoCopy]
  /\ view = [cluster |-> FALSE, node |-> Nothing, open |-> FALSE, drifted |-> FALSE,
             stale |-> FALSE]
  /\ failures = 0 /\ breaks = 0
  /\ lost = FALSE /\ died = FALSE /\ overlaps = 0 /\ dropped = FALSE

-----------------------------------------------------------------------------
(***************************************************************************)
(* The extension: VisualizationAPIClient of a process.                     *)
(***************************************************************************)

\* Faulty variant: the queue has no limit.
EmitAlways(s, u) ==
  LET status == <<"pending", "in_progress", Result[u]>>[stage[u] + 1]
      full == FALSE
  IN  /\ stage[u] < 3
      /\ stage' = [stage EXCEPT ![u] = @ + 1]
      /\ queue' = IF full THEN queue
                  ELSE [queue EXCEPT ![s] = Append(@, [name |-> NameOf[u], status |-> status])]
      /\ full => failures < MaxFailures
      /\ lost' = (lost \/ full)
      /\ failures' = IF full THEN failures + 1 ELSE failures
      /\ UNCHANGED <<request, database, browser, died, overlaps, dropped>>

\* The crawl of u goes on, in any process: the listener queues its event, or
\* drops it when the queue is full.
Emit(s, u) ==
  LET status == <<"pending", "in_progress", Result[u]>>[stage[u] + 1]
      full == Len(queue[s]) = MaxQueued
  IN  /\ stage[u] < 3
      /\ stage' = [stage EXCEPT ![u] = @ + 1]
      /\ queue' = IF full THEN queue
                  ELSE [queue EXCEPT ![s] = Append(@, [name |-> NameOf[u], status |-> status])]
      /\ full => failures < MaxFailures
      /\ lost' = (lost \/ full)
      /\ failures' = IF full THEN failures + 1 ELSE failures
      /\ UNCHANGED <<request, database, browser, died, overlaps, dropped>>

Waiting(s) == \E r \in Request : request[r].by = s

Quiet == \A r \in Request : request[r] = Idle

\* The event a process sends next, when its last request has been answered.
Sends(s) == queue[s] # <<>> /\ ~Waiting(s)
Sent(s) == queue' = [queue EXCEPT ![s] = Tail(@)]

Post(s) ==
  /\ Sends(s)
  /\ Sent(s)
  /\ \E r \in Request :
       /\ request[r] = Idle /\ \A q \in 1..(r - 1) : request[q] # Idle
       /\ request' = [request EXCEPT
            ![r] = [Idle EXCEPT !.at = "cluster", !.by = s, !.name = Head(queue[s]).name,
                                !.status = Head(queue[s]).status]]
  /\ overlaps' = IF Quiet THEN overlaps ELSE overlaps + 1
  /\ overlaps' <= MaxOverlaps
  /\ UNCHANGED <<stage, database, browser, failures, lost, died, dropped>>

\* The API is not reached: the event is gone.
Unreached(s) ==
  /\ Sends(s) /\ failures < MaxFailures
  /\ Sent(s)
  /\ failures' = failures + 1 /\ lost' = TRUE
  /\ UNCHANGED <<stage, request, database, browser, died, overlaps, dropped>>

\* No answer for 5 seconds: the process sends its next event, and the API
\* still serves the request.
Timeout(r) ==
  /\ request[r].by # NoOne /\ failures < MaxFailures
  /\ failures' = failures + 1
  /\ request' = [request EXCEPT ![r].by = NoOne]
  /\ UNCHANGED <<crawl, database, browser, ghosts>>

\* The process ends with events left when the drain timeout has passed.
End(s) ==
  /\ queue[s] # <<>> /\ failures < MaxFailures
  /\ failures' = failures + 1 /\ lost' = TRUE
  /\ queue' = [queue EXCEPT ![s] = <<>>]
  /\ request' = [r \in Request |-> IF request[r].by = s THEN [request[r] EXCEPT !.by = NoOne]
                                   ELSE request[r]]
  /\ UNCHANGED <<stage, database, browser, died, overlaps, dropped>>

-----------------------------------------------------------------------------
(***************************************************************************)
(* send_event.                                                             *)
(***************************************************************************)
Nodes == DOMAIN node
At(r, place) == request[r].at = place

\* The rows with one written, which may be new.
With(rows, n, row) == [m \in DOMAIN rows \cup {n} |-> IF m = n THEN row ELSE rows[m]]

\* The next statement of r is at place, with what q knows.
Goto(r, place, q) == request' = [request EXCEPT ![r] = [q EXCEPT !.at = place]]
Answer(r) == request' = [request EXCEPT ![r] = Idle]

\* A row another request has added since violates a unique constraint: the
\* request is answered with an error.
Add(r, exists, place, q) ==
  /\ IF exists THEN Answer(r) ELSE Goto(r, place, q)
  /\ lost' = (lost \/ exists)

SelectCluster(r) ==
  /\ At(r, "cluster") /\ ~cluster
  /\ Goto(r, "add cluster", request[r])
  /\ UNCHANGED <<crawl, database, browser, failures, ghosts>>

AddCluster(r) ==
  /\ At(r, "add cluster")
  /\ Add(r, cluster, "root", [request[r] EXCEPT !.made = TRUE])
  /\ cluster' = TRUE
  /\ UNCHANGED <<crawl, node, browser, failures, died, overlaps, dropped>>

\* A cluster that is there is never deleted: it and the root are read in one
\* step.  The root is the node itself when "/" is crawled.
SelectRoot(r) ==
  /\ At(r, "root") \/ (At(r, "cluster") /\ cluster)
  /\ IF Root \notin Nodes THEN Goto(r, "add root", request[r])
     ELSE IF request[r].name = Root
          THEN Goto(r, "status", [request[r] EXCEPT !.seen = node[Root].status])
     ELSE Goto(r, "node", request[r])
  /\ UNCHANGED <<crawl, database, browser, failures, ghosts>>

\* The new root is told as it is now, whatever becomes of it.
AddRoot(r) ==
  LET row == [parent |-> Root, status |-> "pending"]
  IN  /\ At(r, "add root")
      /\ Add(r, Root \in Nodes, IF request[r].name = Root THEN "status" ELSE "node",
             [request[r] EXCEPT !.told = <<[name |-> Root, row |-> row]>>])
      /\ node' = IF Root \in Nodes THEN node ELSE With(node, Root, row)
      /\ UNCHANGED <<crawl, cluster, browser, failures, died, overlaps, dropped>>

SelectNode(r) ==
  LET q == request[r]
  IN  /\ At(r, "node")
      /\ IF q.name \in Nodes
         THEN Goto(r, "status", [q EXCEPT !.seen = node[q.name].status])
         ELSE Goto(r, "parent", q)
      /\ UNCHANGED <<crawl, database, browser, failures, ghosts>>

\* Faulty variant: a node takes a status only once.
SetFirstStatus(r) ==
  LET q == request[r]
      writes == q.seen = "pending"
  IN  /\ At(r, "status")
      /\ node' = IF writes THEN [node EXCEPT ![q.name].status = q.status] ELSE node
      /\ IF q.seen = "succeeded" THEN Goto(r, "tell", q)
         ELSE Goto(r, "refresh", [q EXCEPT !.moved = {q.name}, !.seen = "pending"])
      /\ UNCHANGED <<crawl, cluster, browser, failures, ghosts>>

\* A node in its place takes the status, unless it was read as succeeded; one
\* that was read with this very status is not written.
SetStatus(r) ==
  LET q == request[r]
      writes == q.seen \notin {"succeeded", q.status}
  IN  /\ At(r, "status")
      /\ node' = IF writes THEN [node EXCEPT ![q.name].status = q.status] ELSE node
      /\ IF q.seen = "succeeded" THEN Goto(r, "tell", q)
         ELSE Goto(r, "refresh", [q EXCEPT !.moved = {q.name}, !.seen = "pending"])
      /\ UNCHANGED <<crawl, cluster, browser, failures, ghosts>>

SelectParent(r) ==
  /\ At(r, "parent")
  /\ Goto(r, "place", [request[r] EXCEPT !.parent = Nearest(request[r].name, Nodes)])
  /\ UNCHANGED <<crawl, database, browser, failures, ghosts>>

AddNode(r) ==
  LET q == request[r]
  IN  /\ At(r, "place")
      /\ Add(r, q.name \in Nodes, "descendants", [q EXCEPT !.parent = Root])
      /\ node' = IF q.name \in Nodes THEN node
                 ELSE With(node, q.name, [parent |-> q.parent, status |-> q.status])
      /\ UNCHANGED <<crawl, cluster, browser, failures, died, overlaps, dropped>>

\* Faulty variant: those on a nearer node are taken as well.
AdoptedAll(n) == {m \in Nodes : Below(n, m)}

\* Faulty variant: the directory of a page is taken for a descendant of it.
AdoptedBeside(n) ==
  {m \in Nodes : /\ IsStrictPrefix(Base(n), m) /\ m # n
                 /\ Length(node[m].parent) < Length(n)}

\* Those that settled on a shallower node before this one existed.
Adopted(n) == {m \in Nodes : Below(n, m) /\ Length(node[m].parent) < Length(n)}

SelectDescendants(r) ==
  /\ At(r, "descendants")
  /\ Goto(r, "adopt", [request[r] EXCEPT !.moved = Adopted(request[r].name)])
  /\ UNCHANGED <<crawl, database, browser, failures, ghosts>>

\* Faulty variant: the moved nodes are not told.
AdoptUntold(r) ==
  LET q == request[r]
  IN  /\ At(r, "adopt")
      /\ node' = [m \in Nodes |-> IF m \in q.moved THEN [node[m] EXCEPT !.parent = q.name]
                                  ELSE node[m]]
      /\ Goto(r, "refresh", [q EXCEPT !.moved = {q.name}])
      /\ UNCHANGED <<crawl, cluster, browser, failures, ghosts>>

Adopt(r) ==
  LET q == request[r]
  IN  /\ At(r, "adopt")
      /\ node' = [m \in Nodes |-> IF m \in q.moved THEN [node[m] EXCEPT !.parent = q.name]
                                  ELSE node[m]]
      /\ Goto(r, "refresh", [q EXCEPT !.moved = q.moved \cup {q.name}])
      /\ UNCHANGED <<crawl, cluster, browser, failures, ghosts>>

\* The node and those it adopted, as they are now.
Refresh(r) ==
  LET q == request[r]
      names == <<q.name>> \o SetToSeq(q.moved \ {q.name})
  IN  /\ At(r, "refresh")
      /\ Goto(r, "tell", [q EXCEPT !.moved = {}, !.told = q.told \o
              [i \in 1..Len(names) |-> [name |-> names[i], row |-> node[names[i]]]]])
      /\ UNCHANGED <<crawl, database, browser, failures, ghosts>>

\* The update is queued for the browser, or dropped when the browser is
\* behind, and the request is answered.
Broadcast(r) ==
  LET q == request[r]
      tells == view.open /\ q.told # <<>>
      full == Len(stream) = MaxUpdates
  IN  /\ At(r, "tell")
      /\ stream' = IF tells /\ ~full
                   THEN Append(stream, [cluster |-> q.made, nodes |-> q.told]) ELSE stream
      /\ dropped' = (dropped \/ (tells /\ full))
      /\ Answer(r)
      /\ UNCHANGED <<crawl, database, view, reload, breaks, failures, lost, died, overlaps>>

\* A statement fails, or the process of the API ends: what the request has
\* committed stays, and the rest is not done.
Dies(r) ==
  /\ request[r] # Idle /\ failures < MaxFailures
  /\ failures' = failures + 1 /\ lost' = TRUE /\ died' = TRUE
  /\ Answer(r)
  /\ UNCHANGED <<crawl, database, browser, overlaps, dropped>>

Serve(r) ==
  \/ SelectCluster(r) \/ AddCluster(r) \/ SelectRoot(r) \/ AddRoot(r)
  \/ SelectNode(r) \/ SetStatus(r) \/ SelectParent(r) \/ AddNode(r)
  \/ SelectDescendants(r) \/ Adopt(r) \/ Refresh(r) \/ Broadcast(r)

-----------------------------------------------------------------------------
(***************************************************************************)
(* The browser (templates/index.html): it loads the graph, subscribes to   *)
(* the stream and merges each update into what it shows; an update it      *)
(* cannot place makes it load the graph again.                             *)
(***************************************************************************)

UnderWay(k) == reload[k].at = "given"
Over(k) == reload' = [reload EXCEPT ![k] = [NoCopy EXCEPT !.at = "over"]]

\* Of the copies under way, those in old have become stale.
Aged(old) ==
  reload' = [k \in Reload |-> IF UnderWay(k) THEN [reload[k] EXCEPT !.stale = @ \/ k \in old]
                              ELSE reload[k]]

\* A reload asks for the graph and is given what the API has: when the page
\* opens, for the reload button, or when the resync that is due starts one.
\* Nothing keeps it from running beside another.
Fetch(k) ==
  /\ reload[k].at = "none" /\ \A j \in 1..(k - 1) : reload[j].at # "none"
  /\ \E due \in BOOLEAN :
       /\ due => view.drifted
       /\ view' = [view EXCEPT !.drifted = @ /\ ~due]
       /\ reload' = [reload EXCEPT ![k] = [NoCopy EXCEPT !.at = "given", !.due = due,
                                                         !.node = node]]
  /\ UNCHANGED <<crawl, request, database, stream, breaks, failures, ghosts>>

Load(k) ==
  /\ UnderWay(k)
  /\ view' = [view EXCEPT !.node = reload[k].node, !.cluster = reload[k].node # Nothing,
                          !.stale = reload[k].stale]
  /\ Over(k)
  /\ UNCHANGED <<crawl, request, database, stream, breaks, failures, ghosts>>

\* The answer is an error or does not come.  The page says so and does no
\* more: the resync that asked for this reload is not due any longer.
FailedReload(k) ==
  /\ UnderWay(k) /\ breaks < MaxBreaks
  /\ breaks' = breaks + 1
  /\ view' = [view EXCEPT !.stale = @ \/ reload[k].due]
  /\ Over(k)
  /\ UNCHANGED <<crawl, request, database, stream, failures, ghosts>>

\* After the first reload, failed or not.  What has changed since a graph
\* was given is never told.
Subscribe ==
  /\ ~view.open /\ \E k \in Reload : k = 1 /\ reload[k].at = "over"
  /\ view' = [view EXCEPT !.open = TRUE, !.stale = @ \/ view.node # node]
  /\ Aged({k \in Reload : reload[k].node # node})
  /\ UNCHANGED <<crawl, request, database, stream, breaks, failures, ghosts>>

\* The connection breaks, what is on it is lost, and once it is back a resync
\* is due.
Reconnect ==
  /\ view.open /\ breaks < MaxBreaks
  /\ breaks' = breaks + 1
  /\ stream' = <<>> /\ dropped' = FALSE
  /\ view' = [view EXCEPT !.drifted = TRUE]
  /\ Aged(Reload)
  /\ UNCHANGED <<crawl, request, database, failures, lost, died, overlaps>>

NamesOf(nodes, indices) == {nodes[i].name : i \in indices}

\* Faulty variant: the parent is not looked up.
PlaceableAnyway(nodes, i, names) == TRUE

\* A node of an update finds its place when its parent is shown by then.
Placeable(nodes, i, names) ==
  nodes[i].name = Root \/ nodes[i].row.parent \in names \cup NamesOf(nodes, 1..(i - 1))

\* The nodes of an update are placed in their order, up to the first that
\* finds no place among the names that are shown.
Placed(nodes, names) == {i \in 1..Len(nodes) : \A j \in 1..i : Placeable(nodes, j, names)}

\* The rows with those that the nodes at the indices tell, the last of each.
Merged(rows, nodes, indices) ==
  [n \in DOMAIN rows \cup NamesOf(nodes, indices) |->
     LET told == {i \in indices : nodes[i].name = n}
     IN  IF told = {} THEN rows[n] ELSE nodes[Max(told)].row]

Merge ==
  LET update == Head(stream)
      known == view.cluster \/ update.cluster
      placed == IF known THEN Placed(update.nodes, DOMAIN view.node) ELSE {}
  IN  /\ stream # <<>>
      /\ stream' = Tail(stream)
      /\ view' = [view EXCEPT !.node = Merged(@, update.nodes, placed), !.cluster = known,
                              !.drifted = @ \/ placed # 1..Len(update.nodes)]
      /\ Aged(Reload)  \* Load will undo it
      /\ UNCHANGED <<crawl, request, database, breaks, failures, ghosts>>

-----------------------------------------------------------------------------
Next ==
  \/ \E s \in Sender : \/ \E u \in URL : Emit(s, u)
                       \/ Post(s) \/ Unreached(s) \/ End(s)
  \/ \E r \in Request : Timeout(r) \/ Dies(r) \/ Serve(r)
  \/ \E k \in Reload : Fetch(k) \/ Load(k) \/ FailedReload(k)
  \/ Subscribe \/ Reconnect \/ Merge

Spec == Init /\ [][Next]_vars

-----------------------------------------------------------------------------
(***************************************************************************)
(* Properties.                                                             *)
(***************************************************************************)

\* A node hangs off an existing node whose directory form it starts with, and
\* so off a shallower one: whatever requests do at the same time, the tree of
\* send_event has no cycle and no loose part.
Rooted ==
  \A n \in Nodes \ {Root} : node[n].parent \in Nodes /\ Below(node[n].parent, n)

Orderly == overlaps = 0 /\ ~died

\* While requests come one at a time and none dies on the way, every node
\* hangs off the nearest node that could hold it, in whatever order pages have
\* been found: adoption makes up for those found before their directory.
NearestAncestor ==
  Quiet /\ Orderly => \A n \in Nodes \ {Root} : node[n].parent = Nearest(n, Nodes)

\* Every node the browser shows hangs off another it shows: merge never bends
\* the tree, whatever updates were dropped, late or older than the graph.
ViewIsTree ==
  \A n \in DOMAIN view.node : view.node[n].parent \in DOMAIN view.node

CaughtUp == /\ Quiet /\ view.open /\ stream = <<>> /\ ~view.drifted
            /\ \A k \in Reload : ~UnderWay(k)

\* A browser that is connected, with nothing on its way, shows the graph of
\* the API, moved nodes included, whatever reloads, broken streams and resyncs
\* came before.  Excepted are a dropped update, a resync that failed and no
\* reload since, and a graph that was given before an update that was merged,
\* or before the stream was opened on a change.
FollowsGraph == CaughtUp /\ Orderly /\ ~dropped /\ ~view.stale => view.node = node

\* When every event has been sent and none was lost, and requests came one at
\* a time, a page that has succeeded is shown as succeeded, in whatever order
\* its events arrived from the processes that had them.
Shown ==
  Quiet /\ ~lost /\ overlaps = 0 /\ (\A s \in Sender : queue[s] = <<>>) =>
    \A u \in URL : stage[u] = 3 /\ Result[u] = "succeeded" =>
                      NameOf[u] \in Nodes /\ node[NameOf[u]].status = "succeeded"
=============================================================================
