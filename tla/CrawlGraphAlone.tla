--------------------------- MODULE CrawlGraphAlone ---------------------------
(***************************************************************************)
(* What holds of the live graph while its requests come one at a time:     *)
(* where a node hangs, and that a success is shown.                        *)
(***************************************************************************)
EXTENDS CrawlGraphProofs

-----------------------------------------------------------------------------
(***************************************************************************)
(* Lengths.  send_event tells the nearest ancestor by the length of its    *)
(* name, which is right when no path has two slashes in a row: the forms   *)
(* of the directories above a name then have different lengths.            *)
(***************************************************************************)
Clean(n) == \A i \in 1..(Len(n) - 1) : n[i] # Empty
CleanNames == \A u \in URL : Clean(NameOf[u])

\* Every name is then such a path, the root included.
LEMMA NamesClean ==
  ASSUME CleanNames, NEW n \in Name
  PROVE  n \in Path /\ Clean(n)
<1>1. Len(Root) = 1
  BY DEF Root
<1>2. Clean(Root)
  BY <1>1 DEF Clean
<1> QED
  BY <1>2, Names DEF CleanNames, Name

\* A page's length, and that of its directory.
LEMMA LengthIs ==
  ASSUME NEW n \in Seq(Segment), NEW h \in Nat, \A i \in 1..h : n[i] # Empty,
         \/ Len(n) = h
         \/ Len(n) = h + 1 /\ n[h + 1] = Empty
  PROVE  Length(n) = Len(n) + h
<1>1. {i \in 1..Len(n) : n[i] # Empty} = 1..h
  OBVIOUS
<1>2. Cardinality(1..h) = h
  BY FS_Interval
<1> QED
  BY <1>1, <1>2 DEF Length

\* A form of the directory that the first h segments of n name.
Form(a, n, h) ==
  /\ \A i \in 1..h : a[i] = n[i]
  /\ \/ Len(a) = h /\ Length(a) = 2 * h
     \/ Len(a) = h + 1 /\ a[h + 1] = Empty /\ Length(a) = 2 * h + 1

\* Every name that could hold n is a form of a directory above it.
LEMMA AncestorForm ==
  ASSUME NEW n \in Path, Clean(n), NEW a \in ancestor_names(n), a \in Path
  PROVE  \E h \in 0..(Len(n) - 1) : Form(a, n, h)
<1>1. n \in Seq(Segment) /\ a \in Seq(Segment) /\ Len(n) \in Nat \ {0} /\ Empty \in Segment
  BY PathLength DEF Segment
<1>2. CASE a = Root
  <2>1. Len(a) = 1 /\ a[1] = Empty
    BY <1>2 DEF Root
  <2>2. Length(a) = 1
    <3>1. Len(a) = 0 + 1 /\ a[0 + 1] = Empty /\ 0 \in Nat /\ \A i \in 1..0 : a[i] # Empty
      BY <2>1
    <3>2. Length(a) = Len(a) + 0
      BY <1>1, <3>1, LengthIs
    <3> QED
      BY <2>1, <3>2
  <2>3. Form(a, n, 0)
    BY <2>1, <2>2 DEF Form
  <2> QED
    BY <1>1, <2>3
<1>3. CASE a # Root
  <2>1. PICK j \in 2..Len(n) :
          /\ n[j] # Empty
          /\ a \in {Append(SubSeq(n, 1, j - 1), Empty), Stripped(SubSeq(n, 1, j - 1))}
    BY <1>3, AncestorIs
  <2> DEFINE h == j - 1
             p == SubSeq(n, 1, h)
  <2>2. h \in 1..(Len(n) - 1) /\ h \in 0..Len(n) /\ h \in Nat
    BY <1>1
  <2> HIDE DEF h
  <2>3. /\ p \in Seq(Segment) /\ Len(p) = h /\ \A i \in 1..h : p[i] = n[i]
    BY <1>1, <2>2, StartOf
  <2>4. a \in {Append(p, Empty), Stripped(p)}
    BY <2>1 DEF h
  <2> HIDE DEF p
  <2>5. \A i \in 1..h : n[i] # Empty
    BY <1>1, <2>2 DEF Clean
  <2>6. CASE a = Append(p, Empty)
    <3>1. /\ Len(a) = h + 1 /\ a[h + 1] = Empty /\ \A i \in 1..h : a[i] = n[i]
      BY <1>1, <2>3, <2>6, AppendProperties
    <3>2. \A i \in 1..h : a[i] # Empty
      BY <2>5, <3>1
    <3>3. Length(a) = Len(a) + h
      BY <1>1, <2>2, <3>1, <3>2, LengthIs
    <3>4. Length(a) = 2 * h + 1
      BY <2>2, <3>1, <3>3
    <3> QED
      BY <2>2, <3>1, <3>4 DEF Form
  <2>7. CASE a = Stripped(p)
    <3>1. PICK k \in 0..h : /\ a = SubSeq(p, 1, k)
                            /\ \A i \in (k + 1)..h : p[i] = Empty
                            /\ k = 0 \/ p[k] # Empty
      BY <2>3, <2>7, StrippedIs
    <3>2. k = h
      BY <2>2, <2>3, <2>5, <3>1
    <3>3. a = p
      BY <2>3, <3>1, <3>2, SubSeqFull
    <3>4. Len(a) = h /\ \A i \in 1..h : a[i] = n[i] /\ a[i] # Empty
      BY <2>3, <2>5, <3>3
    <3>5. Length(a) = Len(a) + h
      BY <1>1, <2>2, <3>4, LengthIs
    <3>6. Length(a) = 2 * h
      BY <2>2, <3>4, <3>5
    <3> QED
      BY <2>2, <3>4, <3>6 DEF Form
  <2> QED
    BY <2>4, <2>6, <2>7
<1> QED
  BY <1>2, <1>3

\* No two of them have one length.
LEMMA AncestorsDiffer ==
  ASSUME NEW n \in Path, Clean(n), NEW a \in ancestor_names(n), a \in Path,
         NEW b \in ancestor_names(n), b \in Path, Length(a) = Length(b)
  PROVE  a = b
<1>1. PICK h \in 0..(Len(n) - 1) : Form(a, n, h)
  BY AncestorForm
<1>2. PICK k \in 0..(Len(n) - 1) : Form(b, n, k)
  BY AncestorForm
<1>3. a \in Seq(Segment) /\ b \in Seq(Segment) /\ Len(n) \in Nat
  BY PathLength
<1>4. h = k /\ Len(a) = Len(b) /\ (Len(a) = h + 1 => a[h + 1] = Empty /\ b[h + 1] = Empty)
  BY <1>1, <1>2, <1>3 DEF Form
<1>5. Len(a) = h \/ Len(a) = h + 1
  BY <1>1 DEF Form
<1>6. \A i \in 1..h : a[i] = b[i]
  BY <1>1, <1>2, <1>4 DEF Form
<1>7. \A i \in 1..Len(a) : a[i] = b[i]
  BY <1>3, <1>4, <1>5, <1>6
<1> QED
  BY <1>3, <1>4, <1>7, SeqEqual

\* What can be adopted by n could have been placed below it.
LEMMA BelowIsAncestor ==
  ASSUME NEW a \in Path, Clean(a), a # Root, NEW n \in Path, Clean(n), Below(a, n)
  PROVE  a \in ancestor_names(n)
<1> DEFINE h == Len(Base(a))
           p == SubSeq(n, 1, h)
<1>1. n \in Seq(Segment) /\ a \in Seq(Segment) /\ Len(n) \in Nat \ {0} /\ Len(a) \in Nat \ {0}
      /\ Empty \in Segment
  BY PathLength DEF Segment
<1>2. /\ h = IF a[Len(a)] = Empty THEN Len(a) - 1 ELSE Len(a)
      /\ \A i \in 1..h : Base(a)[i] = a[i]
      /\ h \in Nat
  BY BaseIs, LenProperties
<1>3. /\ h < Len(n)
      /\ \A i \in 1..h : Base(a)[i] = n[i]
      /\ Len(n) = h + 1 => n[Len(n)] # Empty
  BY BelowIs
<1>4. h # 0
  <2> SUFFICES ASSUME h = 0 PROVE FALSE
    OBVIOUS
  <2>1. Len(a) = 1 /\ a[1] = Empty
    BY <1>1, <1>2
  <2>2. Len(Root) = 1 /\ Root[1] = Empty /\ Root \in Seq(Segment)
    BY <1>1 DEF Root
  <2> QED
    BY <1>1, <2>1, <2>2, SeqEqual
<1> HIDE DEF h
<1>5. h \in Nat /\ h \in 0..Len(n) /\ h + 1 \in 2..Len(n)
  <2>1. h \in Nat /\ h < Len(n) /\ h # 0 /\ Len(n) \in Nat
    BY <1>1, <1>2, <1>3, <1>4
  <2> QED
    BY <2>1
<1>6. n[h + 1] # Empty
  BY <1>1, <1>3, <1>5 DEF Clean
<1>7. \A i \in 1..h : a[i] = n[i] /\ a[i] # Empty
  BY <1>1, <1>2, <1>3, <1>5 DEF Clean
<1>8. p \in Seq(Segment) /\ Len(p) = h /\ \A i \in 1..h : p[i] = n[i]
  BY <1>1, <1>5, StartOf
<1>9. {Append(p, Empty), Stripped(p)} \subseteq ancestor_names(n)
  <2>1. h + 1 \in {i \in 2..Len(n) : n[i] # Empty} /\ (h + 1) - 1 = h
    BY <1>5, <1>6
  <2> QED
    BY <2>1 DEF ancestor_names
<1> HIDE DEF p
<1>10. CASE a[Len(a)] = Empty
  <2>1. Len(Append(p, Empty)) = h + 1 /\ Append(p, Empty) \in Seq(Segment)
        /\ Append(p, Empty)[h + 1] = Empty /\ \A i \in 1..h : Append(p, Empty)[i] = p[i]
    BY <1>1, <1>8, AppendProperties
  <2>2. Len(a) = h + 1 /\ a[h + 1] = Empty
    BY <1>1, <1>2, <1>10
  <2>3. \A i \in 1..(h + 1) : a[i] = Append(p, Empty)[i]
    <3> SUFFICES ASSUME NEW i \in 1..(h + 1) PROVE a[i] = Append(p, Empty)[i]
      OBVIOUS
    <3>1. i \in 1..h \/ i = h + 1
      BY <1>5
    <3> QED
      BY <1>7, <1>8, <2>1, <2>2, <3>1
  <2>4. a = Append(p, Empty)
    BY <1>1, <2>1, <2>2, <2>3, SeqEqual
  <2> QED
    BY <1>9, <2>4
<1>11. CASE a[Len(a)] # Empty
  <2>1. Len(a) = h
    BY <1>1, <1>2, <1>11
  <2>2. a = p
    BY <1>1, <1>7, <1>8, <2>1, SeqEqual
  <2>3. PICK k \in 0..h : /\ Stripped(p) = SubSeq(p, 1, k)
                          /\ \A i \in (k + 1)..h : p[i] = Empty
                          /\ k = 0 \/ p[k] # Empty
    BY <1>8, StrippedIs
  <2>4. k = h
    BY <1>4, <1>5, <1>7, <1>8, <2>3
  <2>5. Stripped(p) = p
    BY <1>8, <2>3, <2>4, SubSeqFull
  <2> QED
    BY <1>9, <2>2, <2>5
<1> QED
  BY <1>10, <1>11

\* The nearest node is the only one that no other is longer than.
LEMMA NearestUnique ==
  ASSUME CleanNames, NEW n \in Name, NEW nodes \in SUBSET Name, Root \in nodes,
         NEW a \in ancestor_names(n) \cap nodes,
         \A b \in ancestor_names(n) \cap nodes : Length(b) <= Length(a)
  PROVE  Nearest(n, nodes) = a
<1> DEFINE near == Nearest(n, nodes)
<1>1. /\ near \in ancestor_names(n) \cap nodes
      /\ \A b \in ancestor_names(n) \cap nodes : Length(b) <= Length(near)
  BY NearestIs
<1> HIDE DEF near
<1>2. a \in Path /\ near \in Path /\ n \in Path /\ Clean(n)
  BY <1>1, NamesClean
<1>3. Length(a) \in Nat /\ Length(near) \in Nat
  BY <1>2, LengthType
<1>4. Length(near) = Length(a)
  BY <1>1, <1>3
<1>5. near = a
  BY <1>1, <1>2, <1>4, AncestorsDiffer
<1> QED
  BY <1>5 DEF near

\* One more node is the nearest if it is an ancestor and a longer one.
LEMMA NearestMore ==
  ASSUME CleanNames, NEW n \in Name, NEW nodes \in SUBSET Name, Root \in nodes, NEW x \in Name
  PROVE  Nearest(n, nodes \cup {x}) =
           IF x \in ancestor_names(n) /\ Length(Nearest(n, nodes)) < Length(x)
           THEN x ELSE Nearest(n, nodes)
<1> DEFINE near == Nearest(n, nodes)
           above == ancestor_names(n)
<1>1. near \in above \cap nodes /\ \A b \in above \cap nodes : Length(b) <= Length(near)
  BY NearestIs
<1> HIDE DEF near, above
<1>2. Length(x) \in Nat /\ Length(near) \in Nat /\ \A b \in nodes : Length(b) \in Nat
  BY <1>1, NamesClean, LengthType
<1>3. nodes \cup {x} \in SUBSET Name /\ Root \in nodes \cup {x}
  OBVIOUS
<1>4. CASE x \in above /\ Length(near) < Length(x)
  <2>1. x \in above \cap (nodes \cup {x})
    BY <1>4
  <2>2. \A b \in above \cap (nodes \cup {x}) : Length(b) <= Length(x)
    BY <1>1, <1>2, <1>4
  <2> QED
    BY <1>3, <1>4, <2>1, <2>2, NearestUnique DEF near, above
<1>5. CASE ~(x \in above /\ Length(near) < Length(x))
  <2>1. near \in above \cap (nodes \cup {x})
    BY <1>1
  <2>2. \A b \in above \cap (nodes \cup {x}) : Length(b) <= Length(near)
    BY <1>1, <1>2, <1>5
  <2> QED
    BY <1>3, <1>5, <2>1, <2>2, NearestUnique DEF near, above
<1> QED
  BY <1>4, <1>5

\* No name could hold itself.
LEMMA NotOwnAncestor ==
  ASSUME NEW n \in Path, n # Root
  PROVE  n \notin ancestor_names(n)
<1> SUFFICES ASSUME n \in ancestor_names(n) PROVE FALSE
  OBVIOUS
<1>1. Len(Base(n)) < Len(Base(n))
  BY AncestorBelow, BelowDeeper
<1>2. Len(Base(n)) \in Nat
  BY BaseIs, LenProperties
<1> QED
  BY <1>1, <1>2

-----------------------------------------------------------------------------
(***************************************************************************)
(* The invariants.                                                         *)
(***************************************************************************)
\* One of the requests at most is being served.
Alone(req) == \A r, s \in Request : req[r] # Idle /\ req[s] # Idle => r = s

\* The nodes that have been added and have not adopted their descendants yet.
Adopting == {"descendants", "adopt"}
Fresh(req) == {req[r].name : r \in {s \in Request : req[s].at \in Adopting}}

\* What q has read of the rows is still what they say.
ReadsHold(q, rows) ==
  /\ q.at \in {"cluster", "add cluster", "root", "add root"} => q.seen = "pending"
  /\ q.at = "status" => q.seen = rows[q.name].status
  /\ q.at \in {"parent", "place"} => q.name \notin DOMAIN rows
  /\ q.at = "place" => q.parent = Nearest(q.name, DOMAIN rows)
  /\ q.at = "adopt" => q.moved = {m \in DOMAIN rows : /\ Below(q.name, m)
                                                      /\ Length(rows[m].parent) < Length(q.name)}

\* Every node hangs off the nearest of the nodes that it has been offered to.
Placement(rows, fresh) ==
  CleanNames => \A n \in DOMAIN rows \ {Root} : rows[n].parent = Nearest(n, DOMAIN rows \ fresh)

OrderOK(req, rows) ==
  /\ Alone(req)
  /\ \A r \in Request : ReadsHold(req[r], rows)
  /\ Placement(rows, Fresh(req))

AloneInv ==
  /\ \A r \in Request : request[r].at = "idle" => request[r] = Idle
  /\ Nodes # {} => Root \in Nodes
  /\ Orderly => OrderOK(request, node)
  /\ died => lost

\* The success of u is queued, being written, or there.
Success(u) == [name |-> NameOf[u], status |-> "succeeded"]
Queued(u) == \E s \in Sender : \E i \in 1..Len(queue[s]) : queue[s][i] = Success(u)
Writing == {"cluster", "add cluster", "root", "add root", "node", "status", "parent", "place"}
Brings(q, u) == q.at \in Writing /\ q.name = NameOf[u] /\ q.status = "succeeded"
There(rows, u) == NameOf[u] \in DOMAIN rows /\ rows[NameOf[u]].status = "succeeded"

Carried(u) == Queued(u) \/ (\E r \in Request : Brings(request[r], u)) \/ There(node, u)

ShownInv ==
  ~lost /\ overlaps = 0 =>
    \A u \in URL : stage[u] = 3 /\ Result[u] = "succeeded" => Carried(u)

-----------------------------------------------------------------------------
(***************************************************************************)
(* A statement of the one request that is served.                          *)
(***************************************************************************)
Only(q) == IF q.at \in Adopting THEN {q.name} ELSE {}

\* An idle request has read nothing.
LEMMA IdleReads ==
  /\ Idle.at = "idle" /\ Only(Idle) = {}
  /\ \A rows : ReadsHold(Idle, rows)
BY DEF Idle, Only, Adopting, ReadsHold

\* When one request is served, the others are idle.
LEMMA BusyIs ==
  ASSUME NEW req, Alone(req), NEW r \in Request, req[r] # Idle
  PROVE  (\A s \in Request \ {r} : req[s] = Idle) /\ Fresh(req) = Only(req[r])
<1>1. \A s \in Request \ {r} : req[s] = Idle
  BY DEF Alone
<1>2. \A s \in Request \ {r} : req[s].at \notin Adopting
  BY <1>1, IdleReads DEF Adopting
<1>3. Fresh(req) = Only(req[r])
  BY <1>2 DEF Fresh, Only
<1> QED
  BY <1>1, <1>3

\* What holds of the one that is served holds of all.
LEMMA OneBusy ==
  ASSUME NEW req, NEW rows, NEW r \in Request, \A s \in Request \ {r} : req[s] = Idle,
         ReadsHold(req[r], rows), Placement(rows, Only(req[r]))
  PROVE  OrderOK(req, rows)
<1>1. Alone(req)
  BY DEF Alone
<1>2. \A s \in Request : ReadsHold(req[s], rows)
  BY IdleReads
<1>3. \A s \in Request \ {r} : req[s].at \notin Adopting
  BY IdleReads DEF Adopting
<1>4. Fresh(req) = Only(req[r])
  BY <1>3 DEF Fresh, Only
<1> QED
  BY <1>1, <1>2, <1>4 DEF OrderOK

\* p is what becomes of the request r.
Becomes(r, p) ==
  /\ request' = [request EXCEPT ![r] = p]
  /\ p.at = "idle" => p = Idle
  /\ ReadsHold(p, node')
  /\ Placement(node', Only(p))

\* A request that goes to its next statement, or is answered.
LEMMA GoesOn ==
  ASSUME NEW r \in Request, NEW q \in Asked, NEW place \in Place \ {"idle"}, Goto(r, place, q),
         ReadsHold([q EXCEPT !.at = place], node'),
         Placement(node', IF place \in Adopting THEN {q.name} ELSE {})
  PROVE  \E p : Becomes(r, p)
<1> DEFINE p == [q EXCEPT !.at = place]
<1>1. p.at = place /\ p.name = q.name
  BY DEF Asked
<1>2. request' = [request EXCEPT ![r] = p] /\ ReadsHold(p, node')
  BY DEF Goto
<1>3. Placement(node', Only(p))
  BY <1>1 DEF Only
<1> HIDE DEF p
<1> QED
  BY <1>1, <1>2, <1>3 DEF Becomes

LEMMA AnswerIs ==
  ASSUME NEW r \in Request, Answer(r), Placement(node', {})
  PROVE  \E p : Becomes(r, p)
<1>1. Becomes(r, Idle)
  BY IdleReads DEF Becomes, Answer
<1> QED
  BY <1>1

\* The tree after an adoption.
LEMMA AdoptPlaces ==
  ASSUME Inv, NEW r \in Request, Adopt(r), ReadsHold(request[r], node),
         Placement(node, {request[r].name})
  PROVE  Placement(node', {})
<1> SUFFICES ASSUME CleanNames PROVE Placement(node', {})
  BY DEF Placement
<1> DEFINE x == request[r].name
           N == Nodes \ {x}
<1>1. /\ x \in Nodes /\ x # Root /\ Root \in N /\ Nodes \subseteq Name
      /\ \A n \in Nodes : n \in Path /\ Clean(n)
  <2>1. Knows(request[r], Nodes) /\ Nodes \subseteq Name
    BY Given
  <2>2. x \in Nodes /\ Root \in Nodes /\ x # Root
    BY <2>1 DEF Adopt, At, Knows
  <2> QED
    BY <2>1, <2>2, NamesClean
<1>2. request[r].moved = {m \in Nodes : Below(x, m) /\ Length(node[m].parent) < Length(x)}
  BY DEF Adopt, At, ReadsHold, Nodes
<1>3. \A n \in Nodes \ {Root} : node[n].parent = Nearest(n, N)
  BY DEF Placement, Nodes
<1>4. node \in [Nodes -> Row]
  BY Given
<1>5. /\ DOMAIN node' = Nodes
      /\ \A n \in Nodes : node'[n].parent = IF n \in request[r].moved THEN x ELSE node[n].parent
  BY <1>4 DEF Adopt, Row
<1>6. N \cup {x} = Nodes /\ Nodes \ {} = Nodes /\ N \in SUBSET Name
  BY <1>1
<1> HIDE DEF x, N
<1>7. ASSUME NEW n \in Nodes \ {Root} PROVE node'[n].parent = Nearest(n, Nodes)
  <2>1. Nearest(n, Nodes) = IF x \in ancestor_names(n) /\ Length(Nearest(n, N)) < Length(x)
                            THEN x ELSE Nearest(n, N)
    <3>1. Nearest(n, N \cup {x}) = IF x \in ancestor_names(n) /\ Length(Nearest(n, N)) < Length(x)
                                   THEN x ELSE Nearest(n, N)
      BY <1>1, <1>6, NearestMore
    <3> QED
      BY <1>6, <3>1
  <2>2. Below(x, n) <=> x \in ancestor_names(n)
    BY <1>1, AncestorBelow, BelowIsAncestor
  <2>3. node[n].parent = Nearest(n, N)
    BY <1>3
  <2>4. CASE n \in request[r].moved
    BY <1>2, <1>5, <2>1, <2>2, <2>3, <2>4
  <2>5. CASE n \notin request[r].moved
    <3>1. ~(Below(x, n) /\ Length(Nearest(n, N)) < Length(x))
      BY <1>2, <2>3, <2>5
    <3> QED
      BY <1>5, <2>1, <2>2, <2>3, <2>5, <3>1
  <2> QED
    BY <2>4, <2>5
<1> QED
  BY <1>5, <1>6, <1>7 DEF Placement

\* The tree after a node has been added.
LEMMA AddPlaces ==
  ASSUME Inv, NEW r \in Request, AddNode(r), request[r].name \notin Nodes,
         ReadsHold(request[r], node), Placement(node, {})
  PROVE  Placement(node', {request[r].name})
<1> SUFFICES ASSUME CleanNames PROVE Placement(node', {request[r].name})
  BY DEF Placement
<1> DEFINE x == request[r].name
           row == [parent |-> request[r].parent, status |-> request[r].status]
<1>1. x \in Name /\ row \in Row /\ node \in Graph /\ node' = With(node, x, row)
  BY Given DEF AddNode, Row
<1>2. row.parent = Nearest(x, Nodes)
  BY DEF AddNode, At, ReadsHold, Nodes
<1> HIDE DEF row
<1>3. PICK n, h : n \in Name /\ n = x /\ h = With(node, n, row) /\ node' = h
  BY <1>1
<1>4. /\ DOMAIN h = Nodes \cup {n} /\ h[n] = row
      /\ \A m \in Nodes \ {n} : h[m] = node[m]
  BY <1>1, <1>3, WithIs DEF Nodes
<1>5. DOMAIN h \ {n} = Nodes /\ Nodes \ {} = Nodes
  BY <1>3, <1>4
<1>6. \A m \in Nodes \ {Root} : node[m].parent = Nearest(m, Nodes)
  BY <1>5 DEF Placement, Nodes
<1>7. ASSUME NEW m \in DOMAIN h \ {Root} PROVE h[m].parent = Nearest(m, Nodes)
  <2>1. CASE m = n
    BY <1>2, <1>3, <1>4, <2>1
  <2>2. CASE m # n
    BY <1>4, <1>6, <2>2
  <2> QED
    BY <2>1, <2>2
<1>8. Placement(h, {n})
  BY <1>5, <1>7 DEF Placement
<1> QED
  BY <1>3, <1>8

\* A request that is served goes on, and what it has read stays true.
LEMMA ServeOrder ==
  ASSUME Inv, AloneInv, Orderly, NEW r \in Request, Serve(r)
  PROVE  \E p : Becomes(r, p)
<1> DEFINE q == request[r]
<1>1. q \in Asked /\ Knows(q, Nodes) /\ q.name \in Name /\ q.status \in Status /\ node \in Graph
  BY Given
<1>2. ReadsHold(q, node) /\ Placement(node, Only(q))
  <2>1. q.at # "idle"
    BY DEF Serve, At, SelectCluster, AddCluster, SelectRoot, AddRoot, SelectNode, SetStatus,
           SelectParent, AddNode, SelectDescendants, Adopt, Refresh, Broadcast
  <2>2. q # Idle
    BY <2>1, IdleReads
  <2>3. OrderOK(request, node)
    BY DEF AloneInv
  <2> QED
    BY <2>2, <2>3, BusyIs DEF OrderOK
<1>3. CASE SelectCluster(r)
  <2>1. ReadsHold([q EXCEPT !.at = "add cluster"], node') /\ Placement(node', {})
    BY <1>1, <1>2, <1>3 DEF ReadsHold, Asked, SelectCluster, At, database, Only, Adopting
  <2> QED
    BY <1>1, <1>3, <2>1, GoesOn DEF SelectCluster, Place, Adopting
<1>4. CASE AddCluster(r)
  <2> DEFINE p == [q EXCEPT !.made = TRUE]
  <2>1. p \in Asked /\ ReadsHold([p EXCEPT !.at = "root"], node') /\ Placement(node', {})
    BY <1>1, <1>2, <1>4 DEF ReadsHold, Asked, AddCluster, At, Only, Adopting
  <2>2. Answer(r) \/ Goto(r, "root", p)
    BY <1>4 DEF AddCluster, Add
  <2> HIDE DEF p
  <2>3. CASE Answer(r)
    BY <2>1, <2>3, AnswerIs
  <2>4. CASE Goto(r, "root", p)
    BY <2>1, <2>4, GoesOn DEF Place, Adopting
  <2> QED
    BY <2>2, <2>3, <2>4
<1>5. CASE SelectRoot(r)
  <2>1. Placement(node', {}) /\ node' = node
    BY <1>2, <1>5 DEF SelectRoot, At, database, Only, Adopting
  <2>2. CASE Root \notin Nodes
    <3>1. ReadsHold([q EXCEPT !.at = "add root"], node')
      BY <1>1, <1>2, <1>5 DEF ReadsHold, Asked, SelectRoot, At
    <3> QED
      BY <1>1, <1>5, <2>1, <2>2, <3>1, GoesOn DEF SelectRoot, Place, Adopting
  <2>3. CASE Root \in Nodes /\ q.name = Root
    <3> DEFINE p == [q EXCEPT !.seen = node[Root].status]
    <3>1. node[Root].status \in Status
      BY <2>3, Given
    <3>2. p \in Asked /\ ReadsHold([p EXCEPT !.at = "status"], node')
      BY <1>1, <2>1, <2>3, <3>1 DEF ReadsHold, Asked
    <3>3. Goto(r, "status", p)
      BY <1>5, <2>3 DEF SelectRoot
    <3> HIDE DEF p
    <3> QED
      BY <2>1, <3>2, <3>3, GoesOn DEF Place, Adopting
  <2>4. CASE Root \in Nodes /\ q.name # Root
    <3>1. ReadsHold([q EXCEPT !.at = "node"], node')
      BY <1>1 DEF ReadsHold, Asked
    <3> QED
      BY <1>1, <1>5, <2>1, <2>4, <3>1, GoesOn DEF SelectRoot, Place, Adopting
  <2> QED
    BY <2>2, <2>3, <2>4
<1>6. CASE AddRoot(r)
  <2> DEFINE row == [parent |-> Root, status |-> "pending"]
             p == [q EXCEPT !.told = <<[name |-> Root, row |-> row]>>]
             place == IF q.name = Root THEN "status" ELSE "node"
  <2>1. CASE Root \in Nodes
    <3>1. Answer(r) /\ Placement(node', {})
      BY <1>2, <1>6, <2>1 DEF AddRoot, Add, At, Only, Adopting
    <3> QED
      BY <3>1, AnswerIs
  <2>2. CASE Root \notin Nodes
    <3>1. Nodes = {} /\ Root \in Name /\ row \in Row
      BY <2>2, Names DEF AloneInv, Row, Status
    <3>2. PICK h : h = With(node, Root, row)
      OBVIOUS
    <3>3. DOMAIN h = {Root} /\ h[Root] = row
      <4> HIDE DEF row
      <4>1. DOMAIN h = DOMAIN node \cup {Root} /\ h[Root] = row
        BY <1>1, <3>1, <3>2, WithIs
      <4> QED
        BY <3>1, <4>1 DEF Nodes
    <3>4. node' = h
      BY <1>6, <2>2, <3>2 DEF AddRoot
    <3>5. Placement(node', {})
      BY <3>3, <3>4 DEF Placement
    <3>6. <<[name |-> Root, row |-> row]>> \in Told
      BY <3>1 DEF Told
    <3>7. p \in Asked /\ p.seen = q.seen /\ p.name = q.name
      BY <1>1, <3>6 DEF Asked
    <3>8. q.seen = "pending" /\ row.status = "pending"
      BY <1>2, <1>6 DEF ReadsHold, AddRoot, At
    <3>9. Goto(r, place, p)
      BY <1>6, <2>2 DEF AddRoot, Add
    <3> HIDE DEF p, row
    <3>10. ReadsHold([p EXCEPT !.at = place], node')
      BY <3>3, <3>4, <3>7, <3>8 DEF ReadsHold, Asked
    <3> QED
      BY <3>5, <3>7, <3>9, <3>10, GoesOn DEF Place, Adopting
  <2> QED
    BY <2>1, <2>2
<1>7. CASE SelectNode(r)
  <2>1. Placement(node', {}) /\ node' = node
    BY <1>2, <1>7 DEF SelectNode, At, database, Only, Adopting
  <2>2. CASE q.name \in Nodes
    <3> DEFINE p == [q EXCEPT !.seen = node[q.name].status]
    <3>1. node[q.name].status \in Status
      BY <2>2, Given
    <3>2. p \in Asked /\ ReadsHold([p EXCEPT !.at = "status"], node')
      BY <1>1, <2>1, <2>2, <3>1 DEF ReadsHold, Asked
    <3>3. Goto(r, "status", p)
      BY <1>7, <2>2 DEF SelectNode
    <3> HIDE DEF p
    <3> QED
      BY <2>1, <3>2, <3>3, GoesOn DEF Place, Adopting
  <2>3. CASE q.name \notin Nodes
    <3>1. ReadsHold([q EXCEPT !.at = "parent"], node')
      BY <1>1, <2>1, <2>3 DEF ReadsHold, Asked, Nodes
    <3> QED
      BY <1>1, <1>7, <2>1, <2>3, <3>1, GoesOn DEF SelectNode, Place, Adopting
  <2> QED
    BY <2>2, <2>3
<1>8. CASE SetStatus(r)
  <2>1. Placement(node', {})
    <3>1. CASE node' = node
      BY <1>2, <1>8, <3>1 DEF SetStatus, At, Only, Adopting
    <3>2. CASE node' = [node EXCEPT ![q.name].status = q.status]
      <4>1. node \in [Nodes -> Row]
        BY Given
      <4>2. DOMAIN node' = DOMAIN node /\ \A n \in DOMAIN node : node'[n].parent = node[n].parent
        BY <3>2, <4>1 DEF Row
      <4>3. Placement(node, {})
        BY <1>2, <1>8 DEF SetStatus, At, Only, Adopting
      <4> QED
        BY <4>2, <4>3 DEF Placement
    <3> QED
      BY <1>8, <3>1, <3>2 DEF SetStatus
  <2>2. CASE q.seen = "succeeded"
    <3>1. ReadsHold([q EXCEPT !.at = "tell"], node')
      BY <1>1 DEF ReadsHold, Asked
    <3> QED
      BY <1>1, <1>8, <2>1, <2>2, <3>1, GoesOn DEF SetStatus, Place, Adopting
  <2>3. CASE q.seen # "succeeded"
    <3> DEFINE p == [q EXCEPT !.moved = {q.name}, !.seen = "pending"]
    <3>1. p \in Asked /\ ReadsHold([p EXCEPT !.at = "refresh"], node')
      BY <1>1 DEF ReadsHold, Asked, Status
    <3>2. Goto(r, "refresh", p)
      BY <1>8, <2>3 DEF SetStatus
    <3> HIDE DEF p
    <3> QED
      BY <2>1, <3>1, <3>2, GoesOn DEF Place, Adopting
  <2> QED
    BY <2>2, <2>3
<1>9. CASE SelectParent(r)
  <2> DEFINE near == Nearest(q.name, Nodes)
             p == [q EXCEPT !.parent = near]
  <2>1. near \in Name
    <3>1. Nodes \in SUBSET Name /\ Root \in Nodes
      BY <1>1, <1>9, Given DEF SelectParent, At, Knows
    <3> QED
      BY <1>1, <3>1, NearestIs
  <2>2. Placement(node', {}) /\ node' = node /\ q.name \notin DOMAIN node
    BY <1>2, <1>9 DEF SelectParent, At, database, Only, Adopting, ReadsHold
  <2>3. near = Nearest(q.name, DOMAIN node')
    BY <2>2 DEF Nodes
  <2> HIDE DEF near
  <2>4. p \in Asked /\ ReadsHold([p EXCEPT !.at = "place"], node')
    BY <1>1, <2>1, <2>2, <2>3 DEF ReadsHold, Asked
  <2>5. Goto(r, "place", p)
    BY <1>9 DEF SelectParent, near
  <2> HIDE DEF p
  <2> QED
    BY <2>2, <2>4, <2>5, GoesOn DEF Place, Adopting
<1>10. CASE AddNode(r)
  <2> DEFINE p == [q EXCEPT !.parent = Root]
  <2>1. q.name \notin Nodes /\ Placement(node, {})
    BY <1>2, <1>10 DEF AddNode, At, ReadsHold, Nodes, Only, Adopting
  <2>2. Placement(node', {q.name})
    BY <1>2, <1>10, <2>1, AddPlaces
  <2>3. p \in Asked /\ p.name = q.name /\ ReadsHold([p EXCEPT !.at = "descendants"], node')
    BY <1>1, Names DEF ReadsHold, Asked
  <2>4. Goto(r, "descendants", p)
    BY <1>10, <2>1 DEF AddNode, Add
  <2> HIDE DEF p
  <2> QED
    BY <2>2, <2>3, <2>4, GoesOn DEF Place, Adopting
<1>11. CASE SelectDescendants(r)
  <2> DEFINE below == Adopted(q.name)
             p == [q EXCEPT !.moved = below]
  <2>1. below \subseteq Nodes /\ Nodes \subseteq Name
    BY Given DEF Adopted
  <2>2. Placement(node', {q.name}) /\ node' = node
    BY <1>2, <1>11 DEF SelectDescendants, At, database, Only, Adopting
  <2>3. below = {m \in DOMAIN node' : Below(q.name, m) /\ Length(node'[m].parent) < Length(q.name)}
    BY <2>2 DEF Adopted, Nodes
  <2> HIDE DEF below
  <2>4. p \in Asked /\ p.name = q.name /\ ReadsHold([p EXCEPT !.at = "adopt"], node')
    BY <1>1, <2>1, <2>3 DEF ReadsHold, Asked
  <2>5. Goto(r, "adopt", p)
    BY <1>11 DEF SelectDescendants, below
  <2> HIDE DEF p
  <2> QED
    BY <2>2, <2>4, <2>5, GoesOn DEF Place, Adopting
<1>12. CASE Adopt(r)
  <2> DEFINE p == [q EXCEPT !.moved = q.moved \cup {q.name}]
  <2>1. Placement(node, {q.name})
    BY <1>2, <1>12 DEF Adopt, At, Only, Adopting
  <2>2. Placement(node', {})
    BY <1>2, <1>12, <2>1, AdoptPlaces
  <2>3. p \in Asked /\ ReadsHold([p EXCEPT !.at = "refresh"], node')
    BY <1>1 DEF ReadsHold, Asked
  <2>4. Goto(r, "refresh", p)
    BY <1>12 DEF Adopt
  <2> HIDE DEF p
  <2> QED
    BY <2>2, <2>3, <2>4, GoesOn DEF Place, Adopting
<1>13. CASE Refresh(r)
  <2> DEFINE names == <<q.name>> \o SetToSeq(q.moved \ {q.name})
             all == q.told \o [i \in 1..Len(names) |->
                                 [name |-> names[i], row |-> node[names[i]]]]
             p == [q EXCEPT !.moved = {}, !.told = all]
  <2>1. all \in Told
    <3>1. RowsOK(node) /\ q.name \in Nodes /\ q.moved \subseteq Nodes /\ q.told \in Told
          /\ RootIsTop(q.told)
      BY <1>1, <1>13, InvRows DEF Refresh, At, Knows, Asked
    <3> QED
      BY <3>1, RefreshedIs DEF Nodes
  <2> HIDE DEF all
  <2>2. p \in Asked /\ ReadsHold([p EXCEPT !.at = "tell"], node') /\ Placement(node', {})
    BY <1>1, <1>2, <1>13, <2>1 DEF ReadsHold, Asked, Refresh, At, database, Only, Adopting
  <2>3. Goto(r, "tell", p)
    BY <1>13 DEF Refresh, all
  <2> HIDE DEF p
  <2> QED
    BY <2>2, <2>3, GoesOn DEF Place, Adopting
<1>14. CASE Broadcast(r)
  <2>1. Answer(r) /\ Placement(node', {})
    BY <1>2, <1>14 DEF Broadcast, At, database, Only, Adopting
  <2> QED
    BY <2>1, AnswerIs
<1> QED
  BY <1>3, <1>4, <1>5, <1>6, <1>7, <1>8, <1>9, <1>10, <1>11, <1>12, <1>13, <1>14 DEF Serve

\* Whoever gives up waiting for an answer changes nothing else.
Abandoned(p, q) == p = q \/ p = [q EXCEPT !.by = NoOne]

\* What a request has read stays true when its sender gives it up.
LEMMA AbandonedIs ==
  ASSUME NEW q \in Asked, NEW p, Abandoned(p, q), NEW rows
  PROVE  /\ p.at = q.at /\ p.name = q.name /\ p.status = q.status
         /\ ReadsHold(q, rows) => ReadsHold(p, rows)
         /\ q = Idle => p = Idle
<1>1. CASE p = q
  BY <1>1
<1>2. CASE p = [q EXCEPT !.by = NoOne]
  <2>1. /\ p.at = q.at /\ p.name = q.name /\ p.status = q.status /\ p.seen = q.seen
        /\ p.parent = q.parent /\ p.moved = q.moved
    BY <1>2 DEF Asked
  <2>2. q = Idle => p = Idle
    <3>1. Idle \in Asked /\ Idle.by = NoOne
      BY IdleIs DEF Idle
    <3>2. [Idle EXCEPT !.by = NoOne] = Idle
      BY <3>1 DEF Asked
    <3> QED
      BY <1>2, <3>2
  <2>3. ReadsHold(q, rows) => ReadsHold(p, rows)
    BY <2>1 DEF ReadsHold
  <2> QED
    BY <2>1, <2>2, <2>3
<1> QED
  BY <1>1, <1>2 DEF Abandoned

LEMMA AbandonedOrder ==
  ASSUME NEW req \in [Request -> Asked], NEW req2, \A r \in Request : Abandoned(req2[r], req[r]),
         NEW rows, OrderOK(req, rows)
  PROVE  OrderOK(req2, rows)
<1>1. \A r \in Request : /\ req2[r].at = req[r].at /\ req2[r].name = req[r].name
                         /\ ReadsHold(req2[r], rows)
                         /\ req[r] = Idle => req2[r] = Idle
  BY AbandonedIs DEF OrderOK
<1>2. Fresh(req2) = Fresh(req)
  BY <1>1 DEF Fresh
<1>3. Alone(req2)
  BY <1>1 DEF OrderOK, Alone
<1> QED
  BY <1>1, <1>2, <1>3 DEF OrderOK

\* Only a root is added while there is none.
LEMMA RootFirst ==
  ASSUME Inv, AloneInv, [Next]_vars
  PROVE  Nodes' # {} => Root \in Nodes'
<1>1. Nodes \subseteq Nodes'
  BY RowsStep
<1>2. \A r \in Request : Knows(request[r], Nodes)
  BY DEF Inv
<1>3. CASE Nodes' = Nodes
  BY <1>3 DEF AloneInv
<1>4. ASSUME NEW r \in Request, AddNode(r) PROVE Root \in Nodes'
  BY <1>1, <1>2, <1>4 DEF AddNode, At, Knows
<1>5. ASSUME NEW r \in Request, AddRoot(r) PROVE Root \in Nodes'
  <2>1. CASE Root \in Nodes
    BY <1>1, <2>1
  <2>2. CASE Root \notin Nodes
    <3>1. PICK row : row = [parent |-> Root, status |-> "pending"] /\ node' = With(node, Root, row)
      BY <1>5, <2>2 DEF AddRoot
    <3>2. DOMAIN With(node, Root, row) = DOMAIN node \cup {Root}
      BY DEF With
    <3> QED
      BY <3>1, <3>2 DEF Nodes
  <2> QED
    BY <2>1, <2>2
<1>6. ASSUME NEW r \in Request, SetStatus(r) \/ Adopt(r) PROVE Nodes' = Nodes
  BY <1>6, SetStatusRows, AdoptRows
<1>7. \/ UNCHANGED node
      \/ \E r \in Request : AddRoot(r) \/ AddNode(r) \/ SetStatus(r) \/ Adopt(r)
  BY DEF Next, Serve, vars, database, Emit, Post, Unreached, End, Timeout, Dies, SelectCluster,
         AddCluster, SelectRoot, SelectNode, SelectParent, SelectDescendants, Refresh,
         Broadcast, Fetch, Load, FailedReload, Subscribe, Reconnect, Merge
<1> QED
  BY <1>3, <1>4, <1>5, <1>6, <1>7 DEF Nodes

\* What has been lost stays lost.
LEMMA LostStays ==
  ASSUME Inv, [Next]_vars, ~lost'
  PROVE  ~lost
BY DEF Inv, TypeOK, Next, Serve, vars, ghosts, Emit, Post, Unreached, End, Timeout, Dies,
       SelectCluster,
       AddCluster, SelectRoot, AddRoot, SelectNode, SetStatus, SelectParent, AddNode, Add,
       SelectDescendants, Adopt, Refresh, Broadcast, Fetch, Load, FailedReload, Subscribe,
       Reconnect, Merge

\* A request that dies is lost.
LEMMA DiedLost ==
  ASSUME Inv, [Next]_vars, died => lost
  PROVE  died' => lost'
<1>1. lost => lost'
  BY LostStays
<1>2. died' = died \/ lost'
  BY DEF Next, Serve, vars, ghosts, Emit, Post, Unreached, End, Timeout, Dies, SelectCluster,
         AddCluster, SelectRoot, AddRoot, SelectNode, SetStatus, SelectParent, AddNode, Add,
         SelectDescendants, Adopt, Refresh, Broadcast, Fetch, Load, FailedReload, Subscribe,
         Reconnect, Merge
<1> QED
  BY <1>1, <1>2

\* Requests come one at a time and none has died as long as none has begun
\* while another was being served, and none dies.
LEMMA OrderlyOnly ==
  ASSUME Inv, [Next]_vars, Orderly'
  PROVE  /\ Orderly /\ \A r \in Request : ~Dies(r)
         /\ \A s \in Sender : Post(s) => Quiet
<1>1. overlaps \in Nat /\ overlaps' = 0 /\ ~died' /\ died \in BOOLEAN
  BY GraphAssumption DEF Inv, TypeOK, Orderly
<1>2. overlaps' = overlaps \/ overlaps' = overlaps + 1
  BY DEF Next, Serve, vars, ghosts, Emit, Post, Unreached, End, Timeout, Dies, SelectCluster,
         AddCluster, SelectRoot, AddRoot, SelectNode, SetStatus, SelectParent, AddNode, Add,
         SelectDescendants, Adopt, Refresh, Broadcast, Fetch, Load, FailedReload, Subscribe,
         Reconnect, Merge
<1>3. died' = died \/ died' = TRUE
  BY DEF Next, Serve, vars, ghosts, Emit, Post, Unreached, End, Timeout, Dies, SelectCluster,
         AddCluster, SelectRoot, AddRoot, SelectNode, SetStatus, SelectParent, AddNode, Add,
         SelectDescendants, Adopt, Refresh, Broadcast, Fetch, Load, FailedReload, Subscribe,
         Reconnect, Merge
<1>4. ASSUME NEW r \in Request, Dies(r) PROVE FALSE
  BY <1>1, <1>4 DEF Dies
<1>5. ASSUME NEW s \in Sender, Post(s), ~Quiet PROVE FALSE
  BY <1>1, <1>5 DEF Post
<1> QED
  BY <1>1, <1>2, <1>3, <1>4, <1>5 DEF Orderly

\* What a step that is no statement of send_event does to the requests.
LEMMA OtherSteps ==
  ASSUME Inv, [Next]_vars, \A r \in Request : ~Serve(r) /\ ~Dies(r)
  PROVE  /\ node' = node
         /\ \/ \A r \in Request : Abandoned(request'[r], request[r])
            \/ \E s \in Sender, r \in Request :
                 /\ Post(s)
                 /\ request' = [request EXCEPT
                      ![r] = [Idle EXCEPT !.at = "cluster", !.by = s, !.name = Head(queue[s]).name,
                                          !.status = Head(queue[s]).status]]
<1>1. node' = node
  BY DEF Next, vars, database, Emit, Post, Unreached, End, Timeout, Dies, Fetch, Load,
         FailedReload, Subscribe,
         Reconnect, Merge
<1>2. request \in [Request -> Asked]
  BY DEF Inv, TypeOK
<1>3. CASE UNCHANGED request
  BY <1>1, <1>3 DEF Abandoned
<1>4. ASSUME NEW r \in Request, Timeout(r) PROVE \A s \in Request : Abandoned(request'[s], request[s])
  BY <1>2, <1>4 DEF Timeout, Abandoned
<1>5. ASSUME NEW s \in Sender, End(s) PROVE \A r \in Request : Abandoned(request'[r], request[r])
  BY <1>5 DEF End, Abandoned
<1>6. ASSUME NEW s \in Sender, Post(s)
      PROVE  \E r \in Request : request' = [request EXCEPT
               ![r] = [Idle EXCEPT !.at = "cluster", !.by = s, !.name = Head(queue[s]).name,
                                   !.status = Head(queue[s]).status]]
  BY <1>6 DEF Post
<1>7. \/ UNCHANGED request
      \/ \E r \in Request : Timeout(r)
      \/ \E s \in Sender : Post(s) \/ End(s)
  BY DEF Next, vars, Emit, Unreached, Fetch, Load, FailedReload, Subscribe, Reconnect, Merge
<1> QED
  BY <1>1, <1>3, <1>4, <1>5, <1>6, <1>7

\* Every statement answers the request or leads to another.
LEMMA ServeIdle ==
  ASSUME Inv, NEW r \in Request, Serve(r)
  PROVE  /\ request'[r].at = "idle" => request'[r] = Idle
         /\ \A s \in Request \ {r} : request'[s] = request[s]
<1>1. request \in [Request -> Asked] /\ request[r] \in Asked
  BY DEF Inv, TypeOK
<1>2. CASE Answer(r)
  BY <1>1, <1>2 DEF Answer
<1>3. CASE SelectCluster(r)
  BY <1>1, <1>3 DEF SelectCluster, Goto, Asked
<1>4. CASE AddCluster(r) /\ ~Answer(r)
  BY <1>1, <1>4 DEF AddCluster, Add, Goto, Asked
<1>5. CASE SelectRoot(r)
  BY <1>1, <1>5 DEF SelectRoot, Goto, Asked
<1>6. CASE AddRoot(r) /\ ~Answer(r)
  BY <1>1, <1>6 DEF AddRoot, Add, Goto, Asked
<1>7. CASE SelectNode(r)
  BY <1>1, <1>7 DEF SelectNode, Goto, Asked
<1>8. CASE SetStatus(r)
  BY <1>1, <1>8 DEF SetStatus, Goto, Asked
<1>9. CASE SelectParent(r)
  BY <1>1, <1>9 DEF SelectParent, Goto, Asked
<1>10. CASE AddNode(r) /\ ~Answer(r)
  BY <1>1, <1>10 DEF AddNode, Add, Goto, Asked
<1>11. CASE SelectDescendants(r)
  BY <1>1, <1>11 DEF SelectDescendants, Goto, Asked
<1>12. CASE Adopt(r)
  BY <1>1, <1>12 DEF Adopt, Goto, Asked
<1>13. CASE Refresh(r)
  BY <1>1, <1>13 DEF Refresh, Goto, Asked
<1>14. CASE Broadcast(r)
  BY <1>2, <1>14 DEF Broadcast
<1> QED
  BY <1>2, <1>3, <1>4, <1>5, <1>6, <1>7, <1>8, <1>9, <1>10, <1>11, <1>12, <1>13, <1>14 DEF Serve

\* The invariant holds after every step, at first, and so always.
LEMMA AloneStep ==
  ASSUME Inv, AloneInv, [Next]_vars
  PROVE  AloneInv'
<1>1. request \in [Request -> Asked] /\ \A r \in Request : request[r].at = "idle" => request[r] = Idle
  BY DEF Inv, TypeOK, AloneInv
<1>2. Nodes' # {} => Root \in Nodes'
  BY RootFirst
<1>3. Orderly' => Orderly /\ OrderOK(request, node)
  BY OrderlyOnly DEF AloneInv
<1>4. ASSUME NEW r \in Request, Serve(r)
      PROVE  /\ \A s \in Request : request'[s].at = "idle" => request'[s] = Idle
             /\ Orderly' => OrderOK(request', node')
  <2>1. \A s \in Request \ {r} : request'[s] = request[s]
    BY <1>4, ServeIdle
  <2>2. request'[r].at = "idle" => request'[r] = Idle
    BY <1>4, ServeIdle
  <2>3. ASSUME Orderly' PROVE OrderOK(request', node')
    <3>1. Orderly /\ OrderOK(request, node)
      BY <1>3, <2>3
    <3>2. PICK p : Becomes(r, p)
      BY <1>4, <3>1, ServeOrder
    <3>3. request'[r] = p /\ ReadsHold(request'[r], node') /\ Placement(node', Only(request'[r]))
      BY <1>1, <3>2 DEF Becomes
    <3>4. request[r] # Idle
      BY <1>4, IdleReads DEF Serve, At, SelectCluster, AddCluster, SelectRoot, AddRoot,
             SelectNode,
         SetStatus, SelectParent, AddNode, SelectDescendants, Adopt, Refresh, Broadcast
    <3>5. \A s \in Request \ {r} : request'[s] = Idle
      BY <2>1, <3>1, <3>4, BusyIs DEF OrderOK
    <3> QED
      BY <3>3, <3>5, OneBusy
  <2> QED
    BY <1>1, <2>1, <2>2, <2>3
<1>5. ASSUME \A r \in Request : ~Serve(r) /\ ~Dies(r)
      PROVE  /\ \A s \in Request : request'[s].at = "idle" => request'[s] = Idle
             /\ Orderly' => OrderOK(request', node')
  <2>1. node' = node
    BY <1>5, OtherSteps
  <2>2. CASE \A r \in Request : Abandoned(request'[r], request[r])
    <3>1. \A s \in Request : request'[s].at = "idle" => request'[s] = Idle
      BY <1>1, <2>2, AbandonedIs
    <3>2. Orderly' => OrderOK(request', node')
      BY <1>1, <1>3, <2>1, <2>2, AbandonedOrder
    <3> QED
      BY <3>1, <3>2
  <2>3. ASSUME NEW s \in Sender, NEW r \in Request, Post(s),
               request' = [request EXCEPT
                 ![r] = [Idle EXCEPT !.at = "cluster", !.by = s, !.name = Head(queue[s]).name,
                                     !.status = Head(queue[s]).status]]
        PROVE  /\ \A t \in Request : request'[t].at = "idle" => request'[t] = Idle
               /\ Orderly' => OrderOK(request', node')
    <3> DEFINE q == [Idle EXCEPT !.at = "cluster", !.by = s, !.name = Head(queue[s]).name,
                                 !.status = Head(queue[s]).status]
    <3>1. q.at = "cluster" /\ q.seen = "pending" /\ request' = [request EXCEPT ![r] = q]
      BY <2>3 DEF Idle
    <3>2. ReadsHold(q, node') /\ Only(q) = {}
      BY <3>1 DEF ReadsHold, Only, Adopting
    <3> HIDE DEF q
    <3>3. \A t \in Request : request'[t].at = "idle" => request'[t] = Idle
      BY <1>1, <3>1
    <3>4. ASSUME Orderly' PROVE OrderOK(request', node')
      <4>1. \A t \in Request : request[t] = Idle
        BY <2>3, <3>4, OrderlyOnly DEF Quiet
      <4>2. Fresh(request) = {}
        BY <4>1, IdleReads DEF Fresh, Adopting
      <4>3. Placement(node', {})
        BY <1>3, <2>1, <3>4, <4>2 DEF OrderOK
      <4>4. request'[r] = q /\ \A t \in Request \ {r} : request'[t] = Idle
        BY <1>1, <3>1, <4>1
      <4> QED
        BY <3>2, <4>3, <4>4, OneBusy
    <3> QED
      BY <3>3, <3>4
  <2> QED
    BY <1>5, <2>2, <2>3, OtherSteps
<1>6. ASSUME NEW r \in Request, Dies(r)
      PROVE  /\ \A s \in Request : request'[s].at = "idle" => request'[s] = Idle
             /\ ~Orderly'
  BY <1>1, <1>6 DEF Dies, Answer, Orderly
<1>7. died' => lost'
  BY DiedLost DEF AloneInv
<1> QED
  BY <1>2, <1>4, <1>5, <1>6, <1>7 DEF AloneInv

LEMMA AloneInit == Init => AloneInv
<1> SUFFICES ASSUME Init PROVE AloneInv
  OBVIOUS
<1>1. \A r \in Request : request[r] = Idle
  BY DEF Init
<1>2. node = Nothing /\ DOMAIN node = {} /\ Nodes = {}
  BY NothingIs DEF Init, Nodes
<1>3. OrderOK(request, node)
  BY <1>1, <1>2, IdleReads DEF OrderOK, Alone, Placement
<1>4. died = FALSE
  BY DEF Init
<1> QED
  BY <1>1, <1>2, <1>3, <1>4 DEF AloneInv

LEMMA AloneHolds == Spec => [](Inv /\ AloneInv)
<1>1. Inv /\ AloneInv /\ [Next]_vars => Inv' /\ AloneInv'
  BY InvStep, AloneStep
<1> QED
  BY <1>1, InvInit, AloneInit, PTL DEF Spec

\* When requests come one at a time and no path has two slashes in a row, every
\* node hangs off the nearest node that could hold it, in whatever order the
\* pages of the host have been found (send_event's choice of a parent by the
\* length of its name, and its adoption of descendants).
THEOREM NearestHolds ==
  ASSUME CleanNames
  PROVE  Spec => []NearestAncestor
<1>1. Inv /\ AloneInv => NearestAncestor
  <2> SUFFICES ASSUME Inv, AloneInv, Quiet, Orderly, NEW n \in Nodes \ {Root}
               PROVE  node[n].parent = Nearest(n, Nodes)
    BY DEF NearestAncestor
  <2>1. Fresh(request) = {}
    BY IdleReads DEF Quiet, Fresh, Adopting
  <2>2. Placement(node, {}) /\ Nodes \ {} = Nodes
    BY <2>1 DEF AloneInv, OrderOK
  <2> QED
    BY <2>2 DEF Placement, Nodes
<1> QED
  BY <1>1, AloneHolds, PTL

-----------------------------------------------------------------------------
(***************************************************************************)
(* A success is never lost on its way.                                     *)
(***************************************************************************)

\* A statement is made of what the request before it has read, while requests
\* come one at a time.
LEMMA ServeReads ==
  ASSUME AloneInv, Orderly, NEW r \in Request
  PROVE  ReadsHold(request[r], node)
BY DEF AloneInv, OrderOK

\* A node that has succeeded stays so.
LEMMA SucceededStays ==
  ASSUME Inv, AloneInv, Orderly, NEW u \in URL, There(node, u), [Next]_vars
  PROVE  There(node', u)
<1> DEFINE n == NameOf[u]
<1>1. node \in Graph /\ node \in [Nodes -> Row] /\ n \in Nodes /\ node[n].status = "succeeded"
  BY GraphIs DEF There, Nodes, Inv, TypeOK
<1>2. CASE UNCHANGED node
  BY <1>2 DEF There
<1>3. ASSUME NEW r \in Request, SetStatus(r) PROVE There(node', u)
  <2>1. request[r].seen = node[request[r].name].status
    BY <1>3, ServeReads DEF SetStatus, At, ReadsHold
  <2>2. CASE node' = node
    BY <2>2 DEF There
  <2>3. CASE node' # node
    <3>1. request[r].seen # "succeeded"
          /\ node' = [node EXCEPT ![request[r].name].status = request[r].status]
      BY <1>3, <2>3 DEF SetStatus
    <3>2. request[r].name # n
      BY <1>1, <2>1, <3>1
    <3> QED
      BY <1>1, <3>1, <3>2 DEF There
  <2> QED
    BY <2>2, <2>3
<1>4. ASSUME NEW r \in Request, Adopt(r) PROVE There(node', u)
  BY <1>1, <1>4 DEF Adopt, There, Row
<1>5. ASSUME NEW m \in Name \ Nodes, NEW row \in Row, node' = With(node, m, row) PROVE There(node', u)
  <2>1. node' = [k \in Nodes \cup {m} |-> IF k = m THEN row ELSE node[k]]
    BY <1>5 DEF With, Nodes
  <2> QED
    BY <1>1, <2>1 DEF There
<1>6. ASSUME NEW r \in Request, AddRoot(r), Root \notin Nodes PROVE There(node', u)
  <2>1. PICK row : row = [parent |-> Root, status |-> "pending"] /\ node' = With(node, Root, row)
    BY <1>6 DEF AddRoot
  <2>2. row \in Row /\ Root \in Name \ Nodes
    BY <1>6, <2>1, Names DEF Row, Status
  <2> QED
    BY <1>5, <2>1, <2>2
<1>7. ASSUME NEW r \in Request, AddNode(r), request[r].name \notin Nodes PROVE There(node', u)
  <2>1. PICK row : /\ row = [parent |-> request[r].parent, status |-> request[r].status]
                   /\ node' = With(node, request[r].name, row)
    BY <1>7 DEF AddNode
  <2>2. row \in Row /\ request[r].name \in Name \ Nodes
    BY <1>7, <2>1, Given DEF Row
  <2> QED
    BY <1>5, <2>1, <2>2
<1>8. \/ UNCHANGED node
      \/ \E r \in Request : \/ SetStatus(r) \/ Adopt(r)
                            \/ AddRoot(r) /\ Root \notin Nodes
                            \/ AddNode(r) /\ request[r].name \notin Nodes
  BY DEF Next, Serve, vars, database, Emit, Post, Unreached, End, Timeout, Dies, SelectCluster,
         AddCluster, SelectRoot, AddRoot, SelectNode, SelectParent, AddNode, SelectDescendants,
         Refresh, Broadcast, Fetch, Load, FailedReload, Subscribe, Reconnect, Merge
<1> QED
  BY <1>2, <1>3, <1>4, <1>6, <1>7, <1>8

\* A request brings its success on, until the statement that writes it.
LEMMA BroughtOn ==
  ASSUME Inv, AloneInv, Orderly, NEW u \in URL, NEW r \in Request, Serve(r), ~lost',
         Brings(request[r], u)
  PROVE  Brings(request'[r], u) \/ There(node', u)
<1> DEFINE q == request[r]
           n == NameOf[u]
<1>1. q \in Asked /\ Knows(q, Nodes) /\ q.name = n /\ q.status = "succeeded" /\ q.at \in Writing
      /\ node \in Graph /\ node \in [Nodes -> Row] /\ n \in Name
      /\ request \in [Request -> Asked]
  BY Given DEF Brings, Inv, TypeOK
<1>2. ASSUME NEW p \in Asked, NEW place \in Writing, Goto(r, place, p), p.name = q.name,
             p.status = q.status
      PROVE  Brings(request'[r], u)
  <2>1. request'[r] = [p EXCEPT !.at = place]
    BY <1>1, <1>2 DEF Goto
  <2> QED
    BY <1>1, <1>2, <2>1 DEF Asked, Brings
<1>3. CASE SelectCluster(r)
  BY <1>1, <1>2, <1>3 DEF SelectCluster, Writing
<1>4. CASE AddCluster(r)
  <2>1. [q EXCEPT !.made = TRUE] \in Asked
    BY <1>1 DEF Asked
  <2>2. Goto(r, "root", [q EXCEPT !.made = TRUE])
    BY <1>4 DEF AddCluster, Add
  <2> QED
    BY <1>1, <1>2, <2>1, <2>2 DEF Writing, Asked
<1>5. CASE SelectRoot(r)
  <2>1. CASE Root \in Nodes /\ q.name = Root
    <3> DEFINE p == [q EXCEPT !.seen = node[Root].status]
    <3>1. p \in Asked /\ p.name = q.name /\ p.status = q.status
      BY <1>1, <2>1, Given DEF Asked
    <3>2. Goto(r, "status", p)
      BY <1>5, <2>1 DEF SelectRoot
    <3> HIDE DEF p
    <3> QED
      BY <1>2, <3>1, <3>2 DEF Writing
  <2>2. CASE ~(Root \in Nodes /\ q.name = Root)
    BY <1>1, <1>2, <1>5, <2>2 DEF SelectRoot, Writing
  <2> QED
    BY <2>1, <2>2
<1>6. CASE AddRoot(r)
  <2> DEFINE row == [parent |-> Root, status |-> "pending"]
             p == [q EXCEPT !.told = <<[name |-> Root, row |-> row]>>]
             place == IF q.name = Root THEN "status" ELSE "node"
  <2>1. <<[name |-> Root, row |-> row]>> \in Told
    BY Names DEF Told, Row, Status
  <2>2. p \in Asked /\ p.name = q.name /\ p.status = q.status
    BY <1>1, <2>1 DEF Asked
  <2>3. Goto(r, place, p)
    BY <1>6 DEF AddRoot, Add
  <2> HIDE DEF p
  <2> QED
    BY <1>2, <2>2, <2>3 DEF Writing
<1>7. CASE SelectNode(r)
  <2> DEFINE p == [q EXCEPT !.seen = node[q.name].status]
  <2>1. CASE q.name \in Nodes
    <3>1. p \in Asked /\ p.name = q.name /\ p.status = q.status
      BY <1>1, <2>1, Given DEF Asked
    <3>2. Goto(r, "status", p)
      BY <1>7, <2>1 DEF SelectNode
    <3> HIDE DEF p
    <3> QED
      BY <1>2, <3>1, <3>2 DEF Writing
  <2>2. CASE q.name \notin Nodes
    BY <1>1, <1>2, <1>7, <2>2 DEF SelectNode, Writing
  <2> QED
    BY <2>1, <2>2
<1>8. CASE SetStatus(r)
  <2>1. n \in Nodes /\ q.seen = node[n].status
    BY <1>1, <1>8, ServeReads DEF SetStatus, At, ReadsHold, Knows
  <2>2. CASE q.seen = "succeeded"
    <3>1. node' = node
      BY <1>8, <2>2 DEF SetStatus
    <3> QED
      BY <2>1, <2>2, <3>1 DEF There, Nodes
  <2>3. CASE q.seen # "succeeded"
    <3>1. node' = [node EXCEPT ![n].status = "succeeded"]
      BY <1>1, <1>8, <2>3 DEF SetStatus
    <3> QED
      BY <1>1, <2>1, <3>1 DEF There, Row
  <2> QED
    BY <2>2, <2>3
<1>9. CASE SelectParent(r)
  <2> DEFINE near == Nearest(q.name, Nodes)
             p == [q EXCEPT !.parent = near]
  <2>1. near \in Name
    <3>1. Nodes \in SUBSET Name /\ Root \in Nodes
      BY <1>1, <1>9, Given DEF SelectParent, At, Knows
    <3> QED
      BY <1>1, <3>1, NearestIs
  <2> HIDE DEF near
  <2>2. p \in Asked /\ p.name = q.name /\ p.status = q.status
    BY <1>1, <2>1 DEF Asked
  <2>3. Goto(r, "place", p)
    BY <1>9 DEF SelectParent, near
  <2> HIDE DEF p
  <2> QED
    BY <1>2, <2>2, <2>3 DEF Writing
<1>10. CASE AddNode(r)
  <2>1. n \notin Nodes
    BY <1>1, <1>10, ServeReads DEF AddNode, At, ReadsHold, Nodes
  <2>2. PICK row : row = [parent |-> q.parent, status |-> q.status] /\ node' = With(node, n, row)
    BY <1>1, <1>10, <2>1 DEF AddNode
  <2>3. row \in Row /\ row.status = "succeeded"
    BY <1>1, <2>2, Given DEF Row
  <2>4. PICK k, h : k \in Name /\ k = n /\ h = With(node, k, row) /\ node' = h
    BY <1>1, <2>2
  <2>5. DOMAIN h = DOMAIN node \cup {k} /\ h[k] = row
    BY <1>1, <2>3, <2>4, WithIs
  <2> QED
    BY <2>3, <2>4, <2>5 DEF There
<1>11. CASE SelectDescendants(r) \/ Adopt(r) \/ Refresh(r) \/ Broadcast(r)
  BY <1>1, <1>11 DEF SelectDescendants, Adopt, Refresh, Broadcast, At, Writing
<1> QED
  BY <1>3, <1>4, <1>5, <1>6, <1>7, <1>8, <1>9, <1>10, <1>11 DEF Serve

\* Every step keeps a success that is on its way, or there.
LEMMA CarriedStep ==
  ASSUME Inv, AloneInv, Orderly, [Next]_vars, ~lost', NEW u \in URL, Carried(u)
  PROVE  Carried(u)'
<1>1. queue \in [Sender -> Seq(Event)] /\ request \in [Request -> Asked]
  BY DEF Inv, TypeOK, Event
<1>2. CASE There(node, u)
  BY <1>2, SucceededStays DEF Carried
<1>3. ASSUME NEW r \in Request, Brings(request[r], u) PROVE Carried(u)'
  <2>1. CASE Serve(r)
    BY <1>3, <2>1, BroughtOn DEF Carried
  <2>2. ASSUME NEW s \in Request, Serve(s), s # r PROVE Carried(u)'
    BY <1>3, <2>2, ServeIdle DEF Carried
  <2>3. CASE \A s \in Request : ~Serve(s)
    <3>1. \A s \in Request : ~Dies(s)
      BY DEF Dies
    <3>2. CASE \A s \in Request : Abandoned(request'[s], request[s])
      <4>1. /\ request'[r].at = request[r].at /\ request'[r].name = request[r].name
            /\ request'[r].status = request[r].status
        BY <1>1, <3>2, AbandonedIs
      <4> QED
        BY <1>3, <4>1 DEF Carried, Brings
    <3>3. ASSUME NEW s \in Sender, NEW t \in Request, Post(s), request[t] = Idle,
                 \A k \in Request \ {t} : request'[k] = request[k]
          PROVE  Carried(u)'
      <4>1. t # r
        BY <1>3, <3>3, IdleReads DEF Brings, Writing
      <4> QED
        BY <1>3, <3>3, <4>1 DEF Carried
    <3>4. ASSUME NEW s \in Sender, Post(s)
          PROVE  \E t \in Request : /\ request[t] = Idle
                                   /\ \A k \in Request \ {t} : request'[k] = request[k]
      BY <1>1, <3>4 DEF Post
    <3> QED
      BY <2>3, <3>1, <3>2, <3>3, <3>4, OtherSteps
  <2> QED
    BY <2>1, <2>2, <2>3
<1>4. ASSUME NEW s \in Sender, NEW i \in 1..Len(queue[s]), queue[s][i] = Success(u)
      PROVE  Carried(u)'
  <2>1. queue[s] \in Seq(Event) /\ Len(queue[s]) \in Nat
    BY <1>1, LenProperties
  <2>2. CASE queue'[s] = queue[s]
    BY <1>4, <2>2 DEF Carried, Queued
  <2>3. ASSUME NEW e \in Event, queue'[s] = Append(queue[s], e) PROVE Carried(u)'
    <3>1. Len(queue'[s]) = Len(queue[s]) + 1 /\ queue'[s][i] = queue[s][i]
      BY <1>4, <2>1, <2>3, AppendProperties
    <3>2. i \in 1..Len(queue'[s])
      BY <2>1, <3>1
    <3> QED
      BY <1>4, <3>1, <3>2 DEF Carried, Queued
  <2>4. CASE Post(s)
    <3>1. queue'[s] = Tail(queue[s]) /\ queue[s] # <<>>
      BY <1>1, <2>4 DEF Post, Sends, Sent
    <3>2. CASE i = 1
      <4>1. Head(queue[s]) = Success(u)
        BY <1>4, <2>1, <3>2
      <4>2. PICK r \in Request :
              request' = [request EXCEPT
                ![r] = [Idle EXCEPT !.at = "cluster", !.by = s, !.name = Head(queue[s]).name,
                                    !.status = Head(queue[s]).status]]
        BY <2>4 DEF Post
      <4>3. Brings(request'[r], u)
        BY <1>1, <4>1, <4>2 DEF Brings, Writing, Success, Idle
      <4> QED
        BY <4>3 DEF Carried
    <3>3. CASE i # 1
      <4>1. Len(queue'[s]) = Len(queue[s]) - 1
            /\ \A j \in 1..Len(queue'[s]) : queue'[s][j] = queue[s][j + 1]
        BY <2>1, <3>1, HeadTailProperties
      <4>2. i - 1 \in 1..Len(queue'[s]) /\ (i - 1) + 1 = i
        BY <2>1, <3>3, <4>1
      <4> QED
        BY <1>4, <4>1, <4>2 DEF Carried, Queued
    <3> QED
      BY <3>2, <3>3
  <2>5. CASE UNCHANGED queue
    BY <2>2, <2>5
  <2>6. ASSUME NEW t \in Sender, NEW v \in URL, Emit(t, v) PROVE Carried(u)'
    <3>1. queue' = [queue EXCEPT ![t] = Append(queue[t], Said(v))] /\ Said(v) \in Event
      BY <2>6, EmitIs
    <3>2. CASE t = s
      BY <1>1, <2>3, <3>1, <3>2
    <3>3. CASE t # s
      BY <1>1, <2>2, <3>1, <3>3
    <3> QED
      BY <3>2, <3>3
  <2>7. ASSUME NEW t \in Sender, Post(t) PROVE Carried(u)'
    <3>1. CASE t = s
      BY <2>4, <2>7, <3>1
    <3>2. CASE t # s
      BY <1>1, <2>2, <2>7, <3>2 DEF Post, Sent
    <3> QED
      BY <3>1, <3>2
  <2>8. \/ UNCHANGED queue
        \/ \E t \in Sender : Post(t) \/ \E v \in URL : Emit(t, v)
    BY DEF Next, vars, crawl, Serve, Unreached, End, Timeout, Dies, SelectCluster,
           AddCluster, SelectRoot,
           AddRoot, SelectNode, SetStatus, SelectParent, AddNode, SelectDescendants, Adopt,
           Refresh, Broadcast, Fetch, Load, FailedReload, Subscribe, Reconnect, Merge
  <2> QED
    BY <2>5, <2>6, <2>7, <2>8
<1> QED
  BY <1>2, <1>3, <1>4 DEF Carried, Queued

\* The success of a page is carried from its event to its row.
LEMMA ShownStep ==
  ASSUME Inv, AloneInv, ShownInv, [Next]_vars
  PROVE  ShownInv'
<1> SUFFICES ASSUME ~lost', overlaps' = 0, NEW u \in URL, stage'[u] = 3, Result[u] = "succeeded"
             PROVE  Carried(u)'
  BY DEF ShownInv
<1>1. ~lost /\ ~died' /\ Orderly'
  BY LostStays, DiedLost DEF AloneInv, Orderly
<1>2. Orderly /\ overlaps = 0
  BY <1>1, OrderlyOnly DEF Orderly
<1>3. CASE stage[u] = 3
  BY <1>1, <1>2, <1>3, CarriedStep DEF ShownInv
<1>4. ASSUME NEW s \in Sender, NEW v \in URL, Emit(s, v), stage[u] # 3 PROVE Carried(u)'
  <2>1. stage \in [URL -> 0..3] /\ queue \in [Sender -> Seq(Event)]
    BY DEF Inv, TypeOK, Event
  <2>2. /\ stage' = [stage EXCEPT ![v] = stage[v] + 1] /\ Said(v) \in Event
        /\ queue' = [queue EXCEPT ![s] = Append(queue[s], Said(v))]
    BY <1>4, EmitIs
  <2>3. v = u /\ stage[u] = 2
    BY <1>4, <2>1, <2>2
  <2>4. Said(u) = Success(u)
    BY <2>3 DEF Said, Success
  <2>5. queue'[s] = Append(queue[s], Success(u)) /\ Success(u) \in Event /\ queue[s] \in Seq(Event)
    BY <2>1, <2>2, <2>3, <2>4
  <2>6. /\ Len(queue[s]) \in Nat /\ Len(queue'[s]) = Len(queue[s]) + 1
        /\ queue'[s][Len(queue[s]) + 1] = Success(u)
    BY <2>5, LenProperties, AppendProperties
  <2>7. Len(queue[s]) + 1 \in 1..Len(queue'[s])
    BY <2>6
  <2> QED
    BY <2>6, <2>7 DEF Carried, Queued
<1>5. stage' = stage \/ \E s \in Sender, v \in URL : Emit(s, v)
  BY DEF Next, vars, crawl, Serve, Post, Unreached, End, Timeout, Dies, SelectCluster, AddCluster,
         SelectRoot, AddRoot, SelectNode, SetStatus, SelectParent, AddNode, SelectDescendants,
         Adopt, Refresh, Broadcast, Fetch, Load, FailedReload, Subscribe, Reconnect, Merge
<1> QED
  BY <1>3, <1>4, <1>5

\* When every event has been sent, none was lost and requests came one at a
\* time, a page that has succeeded is shown so, in whatever order its events
\* arrived (send_event never writes over a success, and a request that is
\* answered has written its own).
THEOREM ShownHolds == Spec => []Shown
<1>1. Init => ShownInv
  BY DEF Init, ShownInv
<1>2. Inv /\ AloneInv /\ ShownInv => Shown
  <2> SUFFICES ASSUME ShownInv, Quiet, ~lost, overlaps = 0, \A s \in Sender : queue[s] = <<>>,
                      NEW u \in URL, stage[u] = 3, Result[u] = "succeeded"
               PROVE  NameOf[u] \in Nodes /\ node[NameOf[u]].status = "succeeded"
    BY DEF Shown
  <2>1. Carried(u)
    BY DEF ShownInv
  <2>2. ~Queued(u)
    BY DEF Queued
  <2>3. \A r \in Request : ~Brings(request[r], u)
    BY IdleReads DEF Quiet, Brings, Writing
  <2> QED
    BY <2>1, <2>2, <2>3 DEF Carried, There, Nodes
<1> QED
  BY <1>1, <1>2, AloneHolds, ShownStep, PTL DEF Spec
=============================================================================
