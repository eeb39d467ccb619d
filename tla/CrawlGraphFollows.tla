-------------------------- MODULE CrawlGraphFollows --------------------------
(***************************************************************************)
(* A browser that was given every update shows the graph: whatever differs *)
(* is told in an update that waits for the browser, or will be told by the *)
(* request that is being served.                                           *)
(***************************************************************************)
EXTENDS CrawlGraphAlone

\* The names an update tells, and those told by the updates after the kth.
All(nodes) == NamesOf(nodes, 1..Len(nodes))
After(updates, k) == UNION {All(updates[l].nodes) : l \in (k + 1)..Len(updates)}

\* What q has changed and not read again yet, and what it will tell in all.
Changed(q) == (IF q.at \in Adopting \cup {"refresh"} THEN {q.name} ELSE {})
              \cup (IF q.at = "refresh" THEN q.moved ELSE {})
Tells(q) == All(q.told) \cup Changed(q)
Due(req) == UNION {Tells(req[r]) : r \in Request}

\* The last that is told of a node is what its row says, unless later ones
\* tell it again.
Latest(nodes, i) == \A j \in (i + 1)..Len(nodes) : nodes[j].name # nodes[i].name
Current(nodes, later, rows) ==
  \A i \in 1..Len(nodes) :
    /\ nodes[i].name \in DOMAIN rows
    /\ Latest(nodes, i) /\ nodes[i].name \notin later => nodes[i].row = rows[nodes[i].name]

Early == {"cluster", "add cluster", "root", "add root"}
TellsTrue(q, rows) ==
  /\ q.at \in Early => q.told = <<>>
  /\ Current(q.told, Changed(q), rows)

StreamTrue(updates, due, rows) ==
  \A k \in 1..Len(updates) : Current(updates[k].nodes, due \cup After(updates, k), rows)

\* A graph agrees with the rows but for what is still to be told.
Follows(shown, due, rows) ==
  /\ DOMAIN shown \subseteq DOMAIN rows
  /\ \A n \in DOMAIN rows \ due : n \in DOMAIN shown /\ shown[n] = rows[n]

\* So do what is shown, unless it is stale or a resync is to replace it, and
\* the copies under way that are not stale.
AllFollow(shown, copies, due, rows) ==
  /\ /\ ~shown.stale /\ ~shown.drifted
     /\ \A k \in Reload : copies[k].at = "given" => ~copies[k].due
     => Follows(shown.node, due, rows)
  /\ \A k \in Reload :
       copies[k].at = "given" /\ ~copies[k].stale => Follows(copies[k].node, due, rows)

FollowInv ==
  /\ ~view.open => stream = <<>>
  /\ Orderly => \A r \in Request : TellsTrue(request[r], node)
  /\ Orderly /\ ~dropped => StreamTrue(stream, Due(request), node)
  /\ Orderly /\ ~dropped /\ view.open =>
       AllFollow(view, reload, Due(request) \cup After(stream, 0), node)

-----------------------------------------------------------------------------
(***************************************************************************)
(* What an update tells.                                                   *)
(***************************************************************************)
LEMMA AllIs ==
  ASSUME NEW nodes
  PROVE  \A n : n \in All(nodes) <=> \E i \in 1..Len(nodes) : nodes[i].name = n
BY DEF All, NamesOf

\* The names that later updates tell.
LEMMA AfterIs ==
  ASSUME NEW updates, NEW k
  PROVE  \A n : n \in After(updates, k) <=>
                  \E l \in (k + 1)..Len(updates) : n \in All(updates[l].nodes)
BY DEF After

\* A request that is idle tells nothing, and one that is alone tells all that
\* is due.
LEMMA IdleTells == Tells(Idle) = {} /\ \A rows : TellsTrue(Idle, rows)
<1>1. Idle.at = "idle" /\ Idle.told = <<>> /\ Len(Idle.told) = 0
  BY DEF Idle
<1>2. All(Idle.told) = {} /\ Changed(Idle) = {}
  BY <1>1 DEF All, NamesOf, Changed, Adopting
<1>3. \A rows : Current(Idle.told, {}, rows)
  BY <1>1 DEF Current
<1> QED
  BY <1>1, <1>2, <1>3 DEF Tells, TellsTrue

\* What is due when one request is served, and when none is.
LEMMA DueIs ==
  ASSUME NEW req, NEW r \in Request, \A s \in Request \ {r} : req[s] = Idle
  PROVE  Due(req) = Tells(req[r])
BY IdleTells DEF Due

LEMMA NoneDue ==
  ASSUME NEW req, \A s \in Request : req[s] = Idle
  PROVE  Due(req) = {}
BY IdleTells DEF Due

\* SetToSeq leaves out no element.
LEMMA SetToSeqHas ==
  ASSUME NEW S, IsFiniteSet(S)
  PROVE  \A x \in S : \E i \in 1..Len(SetToSeq(S)) : SetToSeq(S)[i] = x
<1> DEFINE k == Cardinality(S)
           f == SetToSeq(S)
<1>1. k \in Nat /\ ExistsBijection(1..k, S)
  BY FS_CardinalityType
<1>2. \E g \in [1..k -> S] : IsInjective(g)
  BY <1>1 DEF ExistsBijection, Bijection, Injection
<1>3. SetToSeq(S) = CHOOSE g \in [1..k -> S] : IsInjective(g)
  BY DEF SetToSeq
<1>4. f \in [1..k -> S] /\ IsInjective(f)
  BY <1>2, <1>3
<1>5. Cardinality(1..k) = k
  BY <1>1, FS_Interval
<1> HIDE DEF k
<1>6. f \in Injection(1..k, S)
  BY <1>4 DEF Injection
<1>7. f \in Surjection(1..k, S)
  BY <1>5, <1>6, FS_Injection DEF k
<1>8. Len(f) = k
  BY <1>1, <1>4
<1> HIDE DEF f
<1>9. \A x \in S : \E i \in 1..Len(f) : f[i] = x
  BY <1>7, <1>8 DEF Surjection
<1> QED
  BY <1>9 DEF f

\* What Refresh makes of what was told before.
Retold(told, n, M, rows) ==
  LET names == <<n>> \o SetToSeq(M \ {n})
  IN  told \o [i \in 1..Len(names) |-> [name |-> names[i], row |-> rows[names[i]]]]

LEMMA RefreshTells ==
  ASSUME NEW rows, RowsOK(rows), NEW n \in DOMAIN rows, NEW M \in SUBSET DOMAIN rows,
         NEW told \in Told, Current(told, {n} \cup M, rows),
         NEW all,
         all = Retold(told, n, M, rows)
  PROVE  All(all) = All(told) \cup {n} \cup M /\ Current(all, {}, rows)
<1> DEFINE N == DOMAIN rows
           rest == SetToSeq(M \ {n})
           names == <<n>> \o rest
           now == [i \in 1..Len(names) |-> [name |-> names[i], row |-> rows[names[i]]]]
<1>1. N \subseteq Name /\ IsFiniteSet(M \ {n})
  <2>1. N \subseteq Name
    BY GraphIs DEF RowsOK
  <2> QED
    BY <2>1, Names, FS_Subset
<1>2. rest \in Seq(M \ {n}) /\ \A x \in M \ {n} : \E i \in 1..Len(rest) : rest[i] = x
  BY <1>1, SetToSeqIs, SetToSeqHas
<1>3. all = told \o now
  BY DEF Retold
<1> HIDE DEF rest
<1>4. rest \in Seq(N) /\ <<n>> \in Seq(N) /\ Len(<<n>>) = 1 /\ <<n>>[1] = n
  <2>1. M \ {n} \subseteq N
    OBVIOUS
  <2> QED
    BY <1>2, <2>1, SeqMonotonic
<1>5. /\ names \in Seq(N) /\ Len(names) = 1 + Len(rest) /\ Len(rest) \in Nat
      /\ \A i \in 1..Len(names) : names[i] = IF i <= 1 THEN <<n>>[i] ELSE rest[i - 1]
  BY <1>4, ConcatProperties, LenProperties
<1> HIDE DEF names
<1>6. \A x : x \in {n} \cup M <=> \E i \in 1..Len(names) : names[i] = x
  <2>1. ASSUME NEW i \in 1..Len(names) PROVE names[i] \in {n} \cup M
    <3>1. CASE i = 1
      BY <1>4, <1>5, <3>1
    <3>2. CASE i # 1
      <4>1. i - 1 \in 1..Len(rest) /\ names[i] = rest[i - 1]
        BY <1>5, <3>2
      <4> QED
        BY <1>2, <4>1, ElementOfSeq
    <3> QED
      BY <3>1, <3>2
  <2>2. 1 \in 1..Len(names) /\ names[1] = n
    BY <1>4, <1>5
  <2>3. ASSUME NEW x \in M \ {n} PROVE \E i \in 1..Len(names) : names[i] = x
    <3>1. PICK i \in 1..Len(rest) : rest[i] = x
      BY <1>2
    <3>2. i + 1 \in 1..Len(names) /\ names[i + 1] = rest[i]
      BY <1>5, <3>1
    <3> QED
      BY <3>1, <3>2
  <2> QED
    BY <2>1, <2>2, <2>3
<1>7. Len(names) \in Nat /\ \A i \in 1..Len(names) : names[i] \in N
  BY <1>5, ElementOfSeq
<1>8. now \in Seq([name : N, row : Row]) /\ Len(now) = Len(names)
      /\ \A i \in 1..Len(names) : now[i].name = names[i] /\ now[i].row = rows[names[i]]
  <2>1. rows \in [N -> Row]
    BY GraphIs DEF RowsOK
  <2>2. now \in [1..Len(names) -> [name : N, row : Row]]
    BY <1>7, <2>1
  <2>3. \A i \in 1..Len(names) : now[i].name = names[i] /\ now[i].row = rows[names[i]]
    OBVIOUS
  <2> HIDE DEF now
  <2>4. PICK R : R = [name : N, row : Row]
    OBVIOUS
  <2>5. now \in [1..Len(names) -> R]
    BY <2>2, <2>4
  <2>6. now \in Seq(R)
    BY <1>7, <2>5, SeqDef
  <2>7. Len(now) = Len(names)
    BY <1>7, <2>5, <2>6, LenProperties
  <2> QED
    BY <2>3, <2>4, <2>6, <2>7
<1> HIDE DEF now
<1>9. \A i \in 1..Len(now) : now[i].name \in N /\ now[i].row = rows[now[i].name]
  BY <1>7, <1>8
<1>10. \A x : x \in {n} \cup M <=> \E i \in 1..Len(now) : now[i].name = x
  <2>1. Len(now) = Len(names) /\ \A i \in 1..Len(names) : now[i].name = names[i]
    BY <1>8
  <2> QED
    BY <1>6, <2>1, Zenon
<1>11. /\ Len(all) = Len(told) + Len(now) /\ Len(told) \in Nat /\ Len(now) \in Nat
       /\ \A i \in 1..Len(all) : all[i] = IF i <= Len(told) THEN told[i] ELSE now[i - Len(told)]
  <2>1. PICK Q : Q = [name : N, row : Row]
    OBVIOUS
  <2>2. PICK R : R = [name : Name, row : Row]
    OBVIOUS
  <2>3. told \in Seq(R) /\ now \in Seq(Q) /\ Q \subseteq R
    BY <1>1, <1>8, <2>1, <2>2 DEF Told
  <2>4. now \in Seq(R)
    BY <2>3, SeqMonotonic
  <2>5. Len(told) \in Nat /\ Len(now) \in Nat
    BY <2>3, <2>4, LenProperties
  <2>6. /\ Len(told \o now) = Len(told) + Len(now)
        /\ \A i \in 1..(Len(told) + Len(now)) :
              (told \o now)[i] = IF i <= Len(told) THEN told[i] ELSE now[i - Len(told)]
    BY <2>3, <2>4, ConcatProperties
  <2> QED
    BY <1>3, <2>5, <2>6
<1>12. \A i \in 1..Len(told) : i \in 1..Len(all) /\ all[i] = told[i]
  BY <1>11
<1>13. \A i \in 1..Len(now) : /\ Len(told) + i \in 1..Len(all)
                              /\ all[Len(told) + i] = now[i]
  <2> SUFFICES ASSUME NEW i \in 1..Len(now)
               PROVE  Len(told) + i \in 1..Len(all) /\ all[Len(told) + i] = now[i]
    OBVIOUS
  <2>1. /\ Len(told) + i \in 1..Len(all) /\ ~(Len(told) + i <= Len(told))
        /\ (Len(told) + i) - Len(told) = i
    BY <1>11
  <2> QED
    BY <1>11, <2>1
<1>14. \A i \in 1..Len(all) : \/ i \in 1..Len(told)
                              \/ \E j \in 1..Len(now) : i = Len(told) + j
  <2> SUFFICES ASSUME NEW i \in 1..Len(all), i \notin 1..Len(told)
               PROVE  \E j \in 1..Len(now) : i = Len(told) + j
    OBVIOUS
  <2>1. i - Len(told) \in 1..Len(now) /\ i = Len(told) + (i - Len(told))
    BY <1>11
  <2> QED
    BY <2>1
<1>15. All(all) = All(told) \cup {n} \cup M
  <2>1. \A x : (\E i \in 1..Len(all) : all[i].name = x) <=>
                 \/ \E i \in 1..Len(told) : told[i].name = x
                 \/ \E j \in 1..Len(now) : now[j].name = x
    <3>1. ASSUME NEW x, NEW i \in 1..Len(all), all[i].name = x
          PROVE  \/ \E j \in 1..Len(told) : told[j].name = x
                 \/ \E j \in 1..Len(now) : now[j].name = x
      BY <1>12, <1>13, <1>14, <3>1
    <3>2. ASSUME NEW x, NEW i \in 1..Len(told), told[i].name = x
          PROVE  \E j \in 1..Len(all) : all[j].name = x
      BY <1>12, <3>2
    <3>3. ASSUME NEW x, NEW i \in 1..Len(now), now[i].name = x
          PROVE  \E j \in 1..Len(all) : all[j].name = x
      BY <1>13, <3>3
    <3> QED
      BY <3>1, <3>2, <3>3
  <2>2. \A x : x \in All(all) <=> x \in All(told) \/ x \in {n} \cup M
    <3>1. \A x : x \in All(all) <=> \E i \in 1..Len(all) : all[i].name = x
      BY AllIs
    <3>2. \A x : x \in All(told) <=> \E i \in 1..Len(told) : told[i].name = x
      BY AllIs
    <3> QED
      BY <1>10, <2>1, <3>1, <3>2, Zenon
  <2> QED
    BY <2>2
<1>16. ASSUME NEW i \in 1..Len(all)
       PROVE  all[i].name \in N /\ (Latest(all, i) => all[i].row = rows[all[i].name])
  <2>1. CASE i \in 1..Len(told)
    <3>1. /\ told[i].name \in N
          /\ Latest(told, i) /\ told[i].name \notin {n} \cup M => told[i].row = rows[told[i].name]
      BY <2>1 DEF Current
    <3>2. ASSUME Latest(all, i) PROVE Latest(told, i) /\ told[i].name \notin {n} \cup M
      <4>1. ASSUME NEW j \in (i + 1)..Len(told) PROVE told[j].name # told[i].name
        <5>1. j \in (i + 1)..Len(all) /\ j \in 1..Len(told)
          BY <1>11, <2>1
        <5> QED
          BY <1>12, <2>1, <3>2, <5>1 DEF Latest
      <4>2. ASSUME NEW j \in 1..Len(now) PROVE now[j].name # told[i].name
        <5>1. Len(told) + j \in (i + 1)..Len(all)
          BY <1>11, <2>1
        <5> QED
          BY <1>12, <1>13, <2>1, <3>2, <5>1 DEF Latest
      <4> QED
        BY <1>10, <4>1, <4>2 DEF Latest
    <3> QED
      BY <1>12, <2>1, <3>1, <3>2
  <2>2. ASSUME NEW j \in 1..Len(now), i = Len(told) + j
        PROVE  all[i].name \in N /\ all[i].row = rows[all[i].name]
    BY <1>9, <1>13, <2>2
  <2> QED
    BY <1>14, <2>1, <2>2
<1> QED
  BY <1>15, <1>16 DEF Current

-----------------------------------------------------------------------------
(***************************************************************************)
(* A statement tells what it changes, or leaves it to be told.             *)
(***************************************************************************)
\* The rows differ only in what is due.
Changes(rows, rows2, due) ==
  /\ DOMAIN rows \subseteq DOMAIN rows2
  /\ \A n \in DOMAIN rows2 \ due : n \in DOMAIN rows /\ rows2[n] = rows[n]

\* What is current stays so when only what is told later changes.
LEMMA CurrentGrows ==
  ASSUME NEW nodes, NEW later, NEW later2, NEW rows, NEW rows2,
         Current(nodes, later, rows), later \subseteq later2, Changes(rows, rows2, later2)
  PROVE  Current(nodes, later2, rows2)
BY DEF Current, Changes

\* What becomes of the request r when it goes on.
Grows(r, p) ==
  /\ request' = [request EXCEPT ![r] = p]
  /\ Tells(request[r]) \subseteq Tells(p)
  /\ TellsTrue(p, node')
  /\ Changes(node, node', Tells(p))

\* q has become p, and has told nothing more yet.
LEMMA GrowsSame ==
  ASSUME NEW q, NEW p, NEW rows, NEW rows2, TellsTrue(q, rows), p.told = q.told,
         p.at \in Early => q.at \in Early,
         Changed(q) \subseteq Changed(p), Changes(rows, rows2, Changed(p))
  PROVE  Tells(q) \subseteq Tells(p) /\ TellsTrue(p, rows2) /\ Changes(rows, rows2, Tells(p))
<1>1. Current(p.told, Changed(p), rows2)
  BY CurrentGrows DEF TellsTrue
<1>2. Changes(rows, rows2, Tells(p))
  BY DEF Changes, Tells
<1> QED
  BY <1>1, <1>2 DEF TellsTrue, Tells

LEMMA NoChange ==
  ASSUME NEW rows, NEW due
  PROVE  Changes(rows, rows, due)
BY DEF Changes

\* Before a node is added, or its status set, nothing is changed.
LEMMA NotChanged ==
  ASSUME NEW q, q.at \notin {"descendants", "adopt", "refresh"}
  PROVE  Changed(q) = {}
BY DEF Changed, Adopting

\* A request that goes to its next statement.
LEMMA GrowsOn ==
  ASSUME NEW r \in Request, NEW q \in Asked, NEW place \in Place, Goto(r, place, q),
         TellsTrue(request[r], node), q.told = request[r].told,
         place \in Early => request[r].at \in Early,
         Changed(request[r]) \subseteq Changed([q EXCEPT !.at = place]),
         Changes(node, node', Changed([q EXCEPT !.at = place]))
  PROVE  \E p : Grows(r, p)
<1> DEFINE p == [q EXCEPT !.at = place]
<1>1. p.at = place /\ p.told = request[r].told
  BY DEF Asked
<1>2. request' = [request EXCEPT ![r] = p]
  BY DEF Goto
<1> HIDE DEF p
<1>3. Changed(request[r]) \subseteq Changed(p) /\ Changes(node, node', Changed(p))
  BY DEF p
<1>4. Grows(r, p)
  BY <1>1, <1>2, <1>3, GrowsSame DEF Grows
<1> QED
  BY <1>4

\* An answer without an update.
LEMMA GrowsAnswered ==
  ASSUME NEW r \in Request, Answer(r), node' = node, TellsTrue(request[r], node),
         request[r].at \in Early
  PROVE  \E p : Grows(r, p)
<1>1. request[r].told = <<>> /\ Changed(request[r]) = {}
  BY NotChanged DEF TellsTrue, Early
<1>2. Tells(request[r]) = {}
  <2>1. Len(<<>>) = 0 /\ All(<<>>) = {}
    BY DEF All, NamesOf
  <2> QED
    BY <1>1, <2>1 DEF Tells
<1>3. Grows(r, Idle)
  BY <1>2, NoChange, IdleTells DEF Grows, Answer
<1> QED
  BY <1>3

\* Every statement but the last leaves to be told what it has changed.
LEMMA ServeTells ==
  ASSUME Inv, AloneInv, Orderly, NEW r \in Request, Serve(r), ~Broadcast(r),
         TellsTrue(request[r], node)
  PROVE  \E p : Grows(r, p)
<1> DEFINE q == request[r]
<1>1. /\ q \in Asked /\ Knows(q, Nodes) /\ q.name \in Name /\ q.status \in Status /\ q.told \in Told
      /\ node \in Graph /\ node \in [Nodes -> Row] /\ Nodes \subseteq Name
  BY Given
<1>2. CASE SelectCluster(r)
  <2>1. Changed([q EXCEPT !.at = "add cluster"]) = {} /\ Changed(q) = {} /\ node' = node
    BY <1>1, <1>2, NotChanged DEF SelectCluster, At, database, Asked
  <2> QED
    BY <1>1, <1>2, <2>1, NoChange, GrowsOn DEF SelectCluster, At, Place, Early
<1>3. CASE AddCluster(r)
  <2> DEFINE p == [q EXCEPT !.made = TRUE]
  <2>1. p \in Asked /\ p.told = q.told /\ Changed([p EXCEPT !.at = "root"]) = {}
        /\ Changed(q) = {} /\ node' = node /\ q.at = "add cluster"
    BY <1>1, <1>3, NotChanged DEF AddCluster, At, Asked
  <2>2. Answer(r) \/ Goto(r, "root", p)
    BY <1>3 DEF AddCluster, Add
  <2> HIDE DEF p
  <2>3. CASE Answer(r)
    BY <2>1, <2>3, GrowsAnswered DEF Early
  <2>4. CASE Goto(r, "root", p)
    BY <2>1, <2>4, NoChange, GrowsOn DEF Place, Early
  <2> QED
    BY <2>2, <2>3, <2>4
<1>4. CASE SelectRoot(r)
  <2>1. node' = node /\ Changed(q) = {} /\ q.at \in Early
    BY <1>4, NotChanged DEF SelectRoot, At, database, Early
  <2>2. PICK p \in Asked, place \in {"add root", "status", "node"} :
          Goto(r, place, p) /\ p.told = q.told
    <3>1. CASE Root \in Nodes /\ q.name = Root
      <4>1. [q EXCEPT !.seen = node[Root].status] \in Asked
        BY <1>1, <3>1, Given DEF Asked
      <4>2. Goto(r, "status", [q EXCEPT !.seen = node[Root].status])
        BY <1>4, <3>1 DEF SelectRoot
      <4> QED
        BY <1>1, <4>1, <4>2 DEF Asked
    <3>2. CASE ~(Root \in Nodes /\ q.name = Root)
      BY <1>1, <1>4, <3>2 DEF SelectRoot
    <3> QED
      BY <3>1, <3>2
  <2>3. Changed([p EXCEPT !.at = place]) = {}
    BY NotChanged DEF Asked
  <2> QED
    BY <2>1, <2>2, <2>3, NoChange, GrowsOn DEF Place, Early
<1>5. CASE AddRoot(r)
  <2> DEFINE row == [parent |-> Root, status |-> "pending"]
             told == <<[name |-> Root, row |-> row]>>
             place == IF q.name = Root THEN "status" ELSE "node"
             p == [[q EXCEPT !.told = told] EXCEPT !.at = place]
  <2>1. q.at = "add root"
    BY <1>5 DEF AddRoot, At
  <2>2. CASE Root \in Nodes
    <3>1. Answer(r) /\ node' = node
      BY <1>5, <2>2 DEF AddRoot, Add
    <3> QED
      BY <2>1, <3>1, GrowsAnswered DEF Early
  <2>3. CASE Root \notin Nodes
    <3>1. Tells(q) = {}
      <4>1. q.told = <<>> /\ Changed(q) = {}
        BY <2>1, NotChanged DEF TellsTrue, Early
      <4>2. Len(<<>>) = 0 /\ All(<<>>) = {}
        BY DEF All, NamesOf
      <4> QED
        BY <4>1, <4>2 DEF Tells
    <3>2. request' = [request EXCEPT ![r] = p] /\ node' = With(node, Root, row)
      BY <1>5, <2>3 DEF AddRoot, Add, Goto
    <3>3. p.told = told /\ p.at = place
      BY <1>1 DEF Asked
    <3> HIDE DEF p
    <3>4. Len(told) = 1 /\ told[1].name = Root /\ told[1].row = row
      OBVIOUS
    <3>5. row \in Row
      BY Names DEF Row, Status
    <3> HIDE DEF row
    <3>6. PICK h : h = With(node, Root, row) /\ node' = h
      BY <3>2
    <3>7. DOMAIN h = DOMAIN node \cup {Root} /\ h[Root] = row /\ \A n \in DOMAIN node \ {Root} : h[n] = node[n]
      BY <3>6 DEF With
    <3>8. Current(told, Changed(p), h)
      BY <3>4, <3>7 DEF Current
    <3>9. Root \in Tells(p)
      BY <3>3, <3>4, AllIs DEF Tells
    <3>10. TellsTrue(p, node') /\ Changes(node, node', Tells(p))
      BY <3>3, <3>6, <3>7, <3>8, <3>9 DEF TellsTrue, Changes, Early
    <3>11. Grows(r, p)
      BY <3>1, <3>2, <3>10 DEF Grows
    <3> QED
      BY <3>11
  <2> QED
    BY <2>2, <2>3
<1>6. CASE SelectNode(r)
  <2>1. node' = node /\ Changed(q) = {}
    BY <1>6, NotChanged DEF SelectNode, At, database
  <2>2. PICK p \in Asked, place \in {"status", "parent"} : Goto(r, place, p) /\ p.told = q.told
    <3>1. CASE q.name \in Nodes
      <4>1. [q EXCEPT !.seen = node[q.name].status] \in Asked
        BY <1>1, <3>1, Given DEF Asked
      <4>2. Goto(r, "status", [q EXCEPT !.seen = node[q.name].status])
        BY <1>6, <3>1 DEF SelectNode
      <4> QED
        BY <1>1, <4>1, <4>2 DEF Asked
    <3>2. CASE q.name \notin Nodes
      BY <1>1, <1>6, <3>2 DEF SelectNode
    <3> QED
      BY <3>1, <3>2
  <2>3. Changed([p EXCEPT !.at = place]) = {}
    BY NotChanged DEF Asked
  <2> QED
    BY <2>1, <2>2, <2>3, NoChange, GrowsOn DEF Place, Early
<1>7. CASE SetStatus(r)
  <2>1. q.at = "status" /\ q.name \in Nodes /\ Changed(q) = {}
    BY <1>1, <1>7, NotChanged DEF SetStatus, At, Knows
  <2>2. CASE q.seen = "succeeded"
    <3>1. node' = node /\ Goto(r, "tell", q)
      BY <1>7, <2>2 DEF SetStatus
    <3> QED
      BY <1>1, <2>1, <3>1, NoChange, GrowsOn DEF Place, Early
  <2>3. CASE q.seen # "succeeded"
    <3> DEFINE p == [q EXCEPT !.moved = {q.name}, !.seen = "pending"]
    <3>1. p \in Asked /\ p.told = q.told /\ Changed([p EXCEPT !.at = "refresh"]) = {q.name}
      BY <1>1 DEF Asked, Status, Changed, Adopting
    <3>2. Goto(r, "refresh", p)
      BY <1>7, <2>3 DEF SetStatus
    <3>3. node' = node \/ node' = [node EXCEPT ![q.name].status = q.status]
      BY <1>7 DEF SetStatus
    <3>4. Changes(node, node', {q.name})
      BY <1>1, <2>1, <3>3 DEF Changes
    <3> HIDE DEF p
    <3> QED
      BY <2>1, <3>1, <3>2, <3>4, GrowsOn DEF Place, Early
  <2> QED
    BY <2>2, <2>3
<1>8. CASE SelectParent(r)
  <2> DEFINE near == Nearest(q.name, Nodes)
             p == [q EXCEPT !.parent = near]
  <2>1. near \in Name
    <3>1. Nodes \in SUBSET Name /\ Root \in Nodes
      BY <1>1, <1>8 DEF SelectParent, At, Knows
    <3> QED
      BY <1>1, <3>1, NearestIs
  <2> HIDE DEF near
  <2>2. p \in Asked /\ p.told = q.told /\ Changed([p EXCEPT !.at = "place"]) = {}
    BY <1>1, <2>1, NotChanged DEF Asked
  <2>3. Goto(r, "place", p) /\ node' = node /\ Changed(q) = {}
    BY <1>8, NotChanged DEF SelectParent, near, At, database
  <2> HIDE DEF p
  <2> QED
    BY <2>2, <2>3, NoChange, GrowsOn DEF Place, Early
<1>9. CASE AddNode(r)
  <2> DEFINE p == [q EXCEPT !.parent = Root]
             row == [parent |-> q.parent, status |-> q.status]
  <2>1. q.name \notin Nodes /\ Changed(q) = {}
    BY <1>1, <1>9, ServeReads, NotChanged DEF AddNode, At, ReadsHold, Nodes
  <2>2. Goto(r, "descendants", p) /\ node' = With(node, q.name, row)
    BY <1>9, <2>1 DEF AddNode, Add
  <2>3. p \in Asked /\ p.told = q.told /\ Changed([p EXCEPT !.at = "descendants"]) = {q.name}
    BY <1>1, Names DEF Asked, Changed, Adopting
  <2> HIDE DEF p, row
  <2>4. node' = [k \in Nodes \cup {q.name} |-> IF k = q.name THEN row ELSE node[k]]
    BY <2>2 DEF With, Nodes
  <2>5. Changes(node, node', {q.name})
    BY <2>4 DEF Changes, Nodes
  <2> QED
    BY <2>1, <2>2, <2>3, <2>5, GrowsOn DEF Place, Early
<1>10. CASE SelectDescendants(r)
  <2> DEFINE below == Adopted(q.name)
             p == [q EXCEPT !.moved = below]
  <2>1. below \subseteq Name
    BY <1>1 DEF Adopted
  <2>2. Goto(r, "adopt", p) /\ node' = node /\ q.at = "descendants"
    BY <1>10 DEF SelectDescendants, At, database
  <2> HIDE DEF below
  <2>3. p \in Asked /\ p.told = q.told /\ Changed([p EXCEPT !.at = "adopt"]) = {q.name}
        /\ Changed(q) = {q.name}
    BY <1>1, <2>1, <2>2 DEF Asked, Changed, Adopting
  <2> HIDE DEF p
  <2> QED
    BY <2>2, <2>3, NoChange, GrowsOn DEF Place, Early
<1>11. CASE Adopt(r)
  <2> DEFINE p == [q EXCEPT !.moved = q.moved \cup {q.name}]
  <2>1. q.at = "adopt" /\ Goto(r, "refresh", p)
        /\ node' = [m \in Nodes |-> IF m \in q.moved THEN [node[m] EXCEPT !.parent = q.name]
                                    ELSE node[m]]
    BY <1>11 DEF Adopt, At
  <2>2. p \in Asked /\ p.told = q.told /\ Changed([p EXCEPT !.at = "refresh"]) = {q.name} \cup q.moved
        /\ Changed(q) = {q.name}
    BY <1>1, <2>1 DEF Asked, Changed, Adopting
  <2>3. Changes(node, node', {q.name} \cup q.moved)
    BY <2>1 DEF Changes, Nodes
  <2> HIDE DEF p
  <2> QED
    BY <2>1, <2>2, <2>3, GrowsOn DEF Place, Early
<1>12. CASE Refresh(r)
  <2> DEFINE names == <<q.name>> \o SetToSeq(q.moved \ {q.name})
             all == q.told \o [i \in 1..Len(names) |->
                                 [name |-> names[i], row |-> node[names[i]]]]
             p == [[q EXCEPT !.moved = {}, !.told = all] EXCEPT !.at = "tell"]
  <2>1. q.at = "refresh" /\ q.name \in Nodes /\ q.moved \subseteq Nodes
    BY <1>1, <1>12 DEF Refresh, At, Knows
  <2>2. Changed(q) = {q.name} \cup q.moved /\ RowsOK(node)
    BY <2>1, InvRows DEF Changed, Adopting
  <2>3. All(all) = All(q.told) \cup {q.name} \cup q.moved /\ Current(all, {}, node)
    <3>1. Current(q.told, {q.name} \cup q.moved, node)
      BY <2>2 DEF TellsTrue
    <3>2. PICK n, M, told : n = q.name /\ M = q.moved /\ told = q.told
      OBVIOUS
    <3>3. n \in DOMAIN node /\ M \in SUBSET DOMAIN node /\ told \in Told
          /\ Current(told, {n} \cup M, node)
      BY <1>1, <2>1, <3>1, <3>2 DEF Nodes
    <3>4. all = Retold(told, n, M, node)
      BY <3>2 DEF Retold
    <3> HIDE DEF all
    <3>5. All(all) = All(told) \cup {n} \cup M /\ Current(all, {}, node)
      BY <2>2, <3>3, <3>4, RefreshTells
    <3> QED
      BY <3>2, <3>5
  <2>4. request' = [request EXCEPT ![r] = p] /\ node' = node
    BY <1>12 DEF Refresh, Goto, database
  <2> HIDE DEF all
  <2>5. p.told = all /\ p.at = "tell"
    BY <1>1 DEF Asked
  <2> HIDE DEF p
  <2>6. Changed(p) = {}
    BY <2>5, NotChanged
  <2>7. Tells(q) \subseteq Tells(p) /\ TellsTrue(p, node')
    BY <2>2, <2>3, <2>4, <2>5, <2>6 DEF Tells, TellsTrue, Early
  <2>8. Grows(r, p)
    BY <2>4, <2>7, NoChange DEF Grows
  <2> QED
    BY <2>8
<1> QED
  BY <1>2, <1>3, <1>4, <1>5, <1>6, <1>7, <1>8, <1>9, <1>10, <1>11, <1>12 DEF Serve

-----------------------------------------------------------------------------
(***************************************************************************)
(* The stream and what is shown.                                           *)
(***************************************************************************)
LEMMA StreamGrows ==
  ASSUME NEW updates, NEW due, NEW due2, NEW rows, NEW rows2,
         StreamTrue(updates, due, rows), due \subseteq due2, Changes(rows, rows2, due2)
  PROVE  StreamTrue(updates, due2, rows2)
<1> SUFFICES ASSUME NEW k \in 1..Len(updates)
             PROVE  Current(updates[k].nodes, due2 \cup After(updates, k), rows2)
  BY DEF StreamTrue
<1>1. Changes(rows, rows2, due2 \cup After(updates, k))
  BY DEF Changes
<1>2. Current(updates[k].nodes, due \cup After(updates, k), rows)
  BY DEF StreamTrue
<1>3. due \cup After(updates, k) \subseteq due2 \cup After(updates, k)
  OBVIOUS
<1> QED
  BY <1>1, <1>2, <1>3, CurrentGrows

\* What is shown falls behind by what is due.
LEMMA FollowsGrows ==
  ASSUME NEW shown, NEW due, NEW due2, NEW rows, NEW rows2,
         Follows(shown, due, rows), due \subseteq due2, Changes(rows, rows2, due2)
  PROVE  Follows(shown, due2, rows2)
BY DEF Follows, Changes

LEMMA AllFollowGrows ==
  ASSUME NEW shown, NEW copies, NEW due, NEW due2, NEW rows, NEW rows2,
         AllFollow(shown, copies, due, rows), due \subseteq due2, Changes(rows, rows2, due2)
  PROVE  AllFollow(shown, copies, due2, rows2)
BY FollowsGrows DEF AllFollow

\* What a request tells at last, told to the stream.
LEMMA StreamAppend ==
  ASSUME NEW updates \in Seq(Update), NEW update \in Update, NEW rows,
         StreamTrue(updates, All(update.nodes), rows), Current(update.nodes, {}, rows)
  PROVE  /\ StreamTrue(Append(updates, update), {}, rows)
         /\ After(Append(updates, update), 0) = After(updates, 0) \cup All(update.nodes)
<1> DEFINE len == Len(updates)
           more == Append(updates, update)
<1>1. /\ len \in Nat /\ Len(more) = len + 1 /\ more[len + 1] = update
      /\ \A i \in 1..len : more[i] = updates[i]
  BY LenProperties, AppendProperties
<1> HIDE DEF more
<1>2. ASSUME NEW k \in 0..len PROVE After(more, k) = After(updates, k) \cup All(update.nodes)
  <2>1. \A l \in (k + 1)..len : l \in (k + 1)..Len(more) /\ more[l] = updates[l]
    BY <1>1
  <2>2. len + 1 \in (k + 1)..Len(more)
    BY <1>1
  <2>3. \A l \in (k + 1)..Len(more) : l = len + 1 \/ l \in (k + 1)..len
    BY <1>1
  <2>4. ASSUME NEW n, n \in After(more, k) PROVE n \in After(updates, k) \cup All(update.nodes)
    <3>1. PICK l \in (k + 1)..Len(more) : n \in All(more[l].nodes)
      BY <2>4, AfterIs
    <3>2. CASE l = len + 1
      BY <1>1, <3>1, <3>2
    <3>3. CASE l \in (k + 1)..len
      BY <2>1, <3>1, <3>3, AfterIs
    <3> QED
      BY <2>3, <3>2, <3>3
  <2>5. ASSUME NEW n, n \in After(updates, k) PROVE n \in After(more, k)
    <3>1. PICK l \in (k + 1)..len : n \in All(updates[l].nodes)
      BY <2>5, AfterIs
    <3>2. l \in (k + 1)..Len(more) /\ n \in All(more[l].nodes)
      BY <2>1, <3>1
    <3> QED
      BY <3>2, AfterIs
  <2>6. ASSUME NEW n \in All(update.nodes) PROVE n \in After(more, k)
    BY <1>1, <2>2, AfterIs
  <2> QED
    BY <2>4, <2>5, <2>6
<1>3. ASSUME NEW k \in 1..Len(more) PROVE Current(more[k].nodes, {} \cup After(more, k), rows)
  <2>1. CASE k = len + 1
    <3>1. more[k] = update
      BY <1>1, <2>1
    <3>2. Changes(rows, rows, {} \cup After(more, k)) /\ {} \subseteq {} \cup After(more, k)
      BY NoChange
    <3> QED
      BY <3>1, <3>2, CurrentGrows
  <2>2. CASE k # len + 1
    <3>1. k \in 1..len /\ k \in 0..len
      BY <1>1, <2>2
    <3>2. Current(updates[k].nodes, All(update.nodes) \cup After(updates, k), rows)
      BY <3>1 DEF StreamTrue
    <3>3. {} \cup After(more, k) = All(update.nodes) \cup After(updates, k)
      BY <1>2, <3>1
    <3> QED
      BY <1>1, <3>1, <3>2, <3>3
  <2> QED
    BY <2>1, <2>2
<1>4. 0 \in 0..len
  BY <1>1
<1>5. StreamTrue(more, {}, rows) /\ After(more, 0) = After(updates, 0) \cup All(update.nodes)
  BY <1>2, <1>3, <1>4 DEF StreamTrue
<1> QED
  BY <1>5 DEF more

\* The first update of the stream, taken from it.
LEMMA StreamTail ==
  ASSUME NEW updates \in Seq(Update), updates # <<>>
  PROVE  /\ After(updates, 0) = All(Head(updates).nodes) \cup After(Tail(updates), 0)
         /\ After(updates, 1) = After(Tail(updates), 0)
         /\ Head(updates) = updates[1] /\ 1 \in 1..Len(updates)
         /\ \A due, rows : StreamTrue(updates, due, rows) => StreamTrue(Tail(updates), due, rows)
<1> DEFINE len == Len(updates)
           rest == Tail(updates)
<1>1. /\ len \in Nat /\ len # 0 /\ Len(rest) = len - 1 /\ Head(updates) = updates[1]
      /\ \A i \in 1..Len(rest) : rest[i] = updates[i + 1]
  BY LenProperties, EmptySeq, HeadTailProperties
<1> HIDE DEF rest
<1>2. ASSUME NEW k \in 0..Len(rest) PROVE After(rest, k) = After(updates, k + 1)
  <2>1. ASSUME NEW l \in (k + 1)..Len(rest)
        PROVE  l + 1 \in ((k + 1) + 1)..len /\ rest[l] = updates[l + 1]
    BY <1>1
  <2>2. ASSUME NEW l \in ((k + 1) + 1)..len
        PROVE  l - 1 \in (k + 1)..Len(rest) /\ rest[l - 1] = updates[l]
    <3>1. l - 1 \in (k + 1)..Len(rest) /\ l - 1 \in 1..Len(rest) /\ (l - 1) + 1 = l
      BY <1>1
    <3> QED
      BY <1>1, <3>1
  <2>3. ASSUME NEW n, n \in After(rest, k) PROVE n \in After(updates, k + 1)
    <3>1. PICK l \in (k + 1)..Len(rest) : n \in All(rest[l].nodes)
      BY <2>3, AfterIs
    <3>2. n \in All(updates[l + 1].nodes) /\ l + 1 \in ((k + 1) + 1)..len
      BY <2>1, <3>1
    <3> QED
      BY <3>2, AfterIs
  <2>4. ASSUME NEW n, n \in After(updates, k + 1) PROVE n \in After(rest, k)
    <3>1. PICK l \in ((k + 1) + 1)..len : n \in All(updates[l].nodes)
      BY <2>4, AfterIs
    <3>2. n \in All(rest[l - 1].nodes) /\ l - 1 \in (k + 1)..Len(rest)
      BY <2>2, <3>1
    <3> QED
      BY <3>2, AfterIs
  <2> QED
    BY <2>3, <2>4
<1>3. After(rest, 0) = After(updates, 1)
  BY <1>1, <1>2
<1>4. After(updates, 0) = All(updates[1].nodes) \cup After(updates, 1)
  <2>1. (0 + 1)..len = {1} \cup (1 + 1)..len
    BY <1>1
  <2> QED
    BY <2>1 DEF After
<1>5. ASSUME NEW due, NEW rows, StreamTrue(updates, due, rows), NEW k \in 1..Len(rest)
      PROVE  Current(rest[k].nodes, due \cup After(rest, k), rows)
  <2>1. k + 1 \in 1..len /\ k \in 0..Len(rest)
    BY <1>1
  <2> QED
    BY <1>1, <1>2, <1>5, <2>1 DEF StreamTrue
<1>6. \A due, rows : StreamTrue(updates, due, rows) => StreamTrue(rest, due, rows)
  BY <1>5 DEF StreamTrue
<1>7. 1 \in 1..len
  BY <1>1
<1> QED
  BY <1>1, <1>3, <1>4, <1>6, <1>7 DEF rest

\* A merge of a whole update shows the last that it tells of each node.
MergeTold(h, shown, told) ==
  /\ DOMAIN h = DOMAIN shown \cup All(told)
  /\ \A n \in DOMAIN shown \ All(told) : h[n] = shown[n]
  /\ \A n \in All(told) : \E i \in 1..Len(told) :
       told[i].name = n /\ Latest(told, i) /\ h[n] = told[i].row

LEMMA MergedTells ==
  ASSUME NEW shown \in Graph, NEW told \in Told, NEW h, h = Merged(shown, told, 1..Len(told))
  PROVE  MergeTold(h, shown, told)
<1> DEFINE N == DOMAIN shown \cup All(told)
           At2(n) == {i \in 1..Len(told) : told[i].name = n}
           RowOf(n) == IF At2(n) = {} THEN shown[n] ELSE told[Max(At2(n))].row
<1>1. h = [n \in N |-> RowOf(n)]
  BY DEF Merged, All
<1>2. Len(told) \in Nat /\ IsFiniteSet(1..Len(told)) /\ 1..Len(told) \subseteq Int
  BY ToldIs, FS_Interval
<1>3. ASSUME NEW n \in All(told)
      PROVE  \E i \in 1..Len(told) : told[i].name = n /\ Latest(told, i) /\ RowOf(n) = told[i].row
  <2> DEFINE S == At2(n)
  <2>1. S \subseteq 1..Len(told) /\ S # {}
    BY AllIs
  <2>2. IsFiniteSet(S) /\ S \in SUBSET Int
    BY <1>2, <2>1, FS_Subset
  <2> DEFINE m == Max(S)
  <2>3. m \in S /\ \A j \in S : j <= m
    <3> HIDE DEF S
    <3> QED
      BY <2>1, <2>2, MaxIsGreatest
  <2>4. RowOf(n) = told[m].row
    BY <2>1
  <2> HIDE DEF m
  <2>5. m \in 1..Len(told) /\ told[m].name = n
    BY <2>3
  <2>6. ASSUME NEW j \in (m + 1)..Len(told) PROVE told[j].name # told[m].name
    <3>1. j \in 1..Len(told) /\ ~(j <= m)
      BY <1>2, <2>5
    <3> QED
      BY <2>3, <2>5, <3>1
  <2> QED
    BY <2>4, <2>5, <2>6 DEF Latest
<1>4. ASSUME NEW n \in DOMAIN shown \ All(told) PROVE RowOf(n) = shown[n]
  <2>1. At2(n) = {}
    BY AllIs
  <2> QED
    BY <2>1
<1>5. DOMAIN h = N /\ \A n \in N : h[n] = RowOf(n)
  BY <1>1
<1> HIDE DEF RowOf
<1> QED
  BY <1>3, <1>4, <1>5 DEF MergeTold

\* Merging what is current brings the browser nearer to the rows.
LEMMA MergedFollows ==
  ASSUME NEW shown \in Graph, NEW told \in Told, NEW h, h = Merged(shown, told, 1..Len(told)),
         NEW rows, NEW later, Current(told, later, rows), Follows(shown, All(told) \cup later, rows)
  PROVE  Follows(h, later, rows)
<1>1. /\ DOMAIN h = DOMAIN shown \cup All(told)
      /\ \A n \in DOMAIN shown \ All(told) : h[n] = shown[n]
      /\ \A n \in All(told) : \E i \in 1..Len(told) :
           told[i].name = n /\ Latest(told, i) /\ h[n] = told[i].row
  <2>1. MergeTold(h, shown, told)
    BY MergedTells
  <2> QED
    BY <2>1 DEF MergeTold
<1>2. \A n \in All(told) : n \in DOMAIN rows /\ (n \notin later => h[n] = rows[n])
  BY <1>1 DEF Current
<1>3. ASSUME NEW n \in DOMAIN rows \ later PROVE n \in DOMAIN h /\ h[n] = rows[n]
  <2>1. CASE n \in All(told)
    BY <1>1, <1>2, <2>1
  <2>2. CASE n \notin All(told)
    BY <1>1, <2>2 DEF Follows
  <2> QED
    BY <2>1, <2>2
<1> QED
  BY <1>1, <1>2, <1>3 DEF Follows

-----------------------------------------------------------------------------
(***************************************************************************)
(* The invariant.                                                          *)
(***************************************************************************)
LEMMA AbandonedTells ==
  ASSUME NEW q \in Asked, NEW p, Abandoned(p, q)
  PROVE  Tells(p) = Tells(q) /\ \A rows : TellsTrue(q, rows) => TellsTrue(p, rows)
<1>1. p.at = q.at /\ p.name = q.name /\ p.told = q.told /\ p.moved = q.moved
  BY DEF Abandoned, Asked
<1>2. Changed(p) = Changed(q)
  BY <1>1 DEF Changed
<1> QED
  BY <1>1, <1>2 DEF Tells, TellsTrue

\* What a step that is no statement of send_event leaves to be told.
LEMMA OtherTells ==
  ASSUME Inv, AloneInv, FollowInv, [Next]_vars, \A r \in Request : ~Serve(r), Orderly'
  PROVE  /\ Due(request') = Due(request)
         /\ \A r \in Request : TellsTrue(request'[r], node')
<1>1. /\ Orderly /\ \A s \in Sender : Post(s) => Quiet
      /\ \A r \in Request : ~Dies(r)
  BY OrderlyOnly
<1>2. request \in [Request -> Asked] /\ node' = node
      /\ \A r \in Request : TellsTrue(request[r], node)
  BY <1>1, OtherSteps DEF Inv, TypeOK, FollowInv
<1>3. CASE \A r \in Request : Abandoned(request'[r], request[r])
  <2>1. \A r \in Request : /\ Tells(request'[r]) = Tells(request[r])
                           /\ TellsTrue(request'[r], node)
    BY <1>2, <1>3, AbandonedTells
  <2> QED
    BY <1>2, <2>1 DEF Due
<1>4. ASSUME NEW s \in Sender, NEW r \in Request, Post(s),
             request' = [request EXCEPT
               ![r] = [Idle EXCEPT !.at = "cluster", !.by = s, !.name = Head(queue[s]).name,
                                   !.status = Head(queue[s]).status]]
      PROVE  Due(request') = Due(request) /\ \A t \in Request : TellsTrue(request'[t], node')
  <2> DEFINE q == [Idle EXCEPT !.at = "cluster", !.by = s, !.name = Head(queue[s]).name,
                               !.status = Head(queue[s]).status]
  <2>1. q.at = "cluster" /\ q.told = <<>> /\ request' = [request EXCEPT ![r] = q]
    BY <1>4 DEF Idle
  <2> HIDE DEF q
  <2>2. \A t \in Request : request[t] = Idle
    BY <1>1, <1>4 DEF Quiet
  <2>3. request'[r] = q /\ \A t \in Request \ {r} : request'[t] = Idle
    BY <1>2, <2>1, <2>2
  <2>4. Tells(q) = {} /\ TellsTrue(q, node')
    <3>1. Changed(q) = {} /\ Len(q.told) = 0
      BY <2>1, NotChanged
    <3> QED
      BY <2>1, <3>1 DEF Tells, All, NamesOf, TellsTrue, Current
  <2>5. Due(request') = {}
    <3>1. PICK req : req = request'
      OBVIOUS
    <3> QED
      BY <2>3, <2>4, <3>1, DueIs
  <2>6. Due(request) = {}
    BY <2>2, NoneDue
  <2> QED
    BY <2>3, <2>4, <2>5, <2>6, IdleTells
<1> QED
  BY <1>1, <1>3, <1>4, OtherSteps

\* A request that goes on leaves the stream and what is shown behind by what
\* it will tell.
LEMMA FollowServe ==
  ASSUME Inv, AloneInv, FollowInv, NEW r \in Request, Serve(r), ~Broadcast(r), [Next]_vars
  PROVE  FollowInv'
<1>1. stream' = stream /\ view' = view /\ reload' = reload /\ dropped' = dropped
  BY DEF Serve, browser, ghosts, SelectCluster, AddCluster, SelectRoot, AddRoot, SelectNode,
         SetStatus, SelectParent, AddNode, SelectDescendants, Adopt, Refresh
<1>2. ASSUME Orderly'
      PROVE  /\ Orderly /\ \A s \in Request : TellsTrue(request'[s], node')
             /\ Due(request) \subseteq Due(request') /\ Changes(node, node', Due(request'))
  <2>1. Orderly /\ TellsTrue(request[r], node) /\ Alone(request) /\ request \in [Request -> Asked]
    BY <1>2, OrderlyOnly DEF FollowInv, AloneInv, OrderOK, Inv, TypeOK
  <2>2. PICK p : Grows(r, p)
    BY <2>1, ServeTells
  <2>3. request[r] # Idle
    BY IdleReads DEF Serve, At, SelectCluster, AddCluster, SelectRoot, AddRoot, SelectNode,
       SetStatus, SelectParent, AddNode, SelectDescendants, Adopt, Refresh, Broadcast
  <2>4. \A s \in Request \ {r} : request[s] = Idle
    BY <2>1, <2>3, BusyIs
  <2>5. request'[r] = p /\ \A s \in Request \ {r} : request'[s] = Idle
    BY <2>1, <2>2, <2>4 DEF Grows
  <2>6. Due(request) = Tells(request[r])
    BY <2>4, DueIs
  <2>7. Due(request') = Tells(p)
    <3>1. PICK req : req = request'
      OBVIOUS
    <3> QED
      BY <2>5, <3>1, DueIs
  <2> QED
    BY <2>1, <2>2, <2>5, <2>6, <2>7, IdleTells DEF Grows
<1>3. ASSUME Orderly', ~dropped' PROVE StreamTrue(stream', Due(request'), node')
  <2>1. StreamTrue(stream, Due(request), node)
    BY <1>1, <1>2, <1>3 DEF FollowInv
  <2>2. StreamTrue(stream, Due(request'), node')
    BY <1>2, <1>3, <2>1, StreamGrows
  <2> QED
    BY <1>1, <2>2
<1>4. ASSUME Orderly', ~dropped', view'.open
      PROVE  AllFollow(view', reload', Due(request') \cup After(stream', 0), node')
  <2>1. AllFollow(view, reload, Due(request) \cup After(stream, 0), node)
    BY <1>1, <1>2, <1>4 DEF FollowInv
  <2>2. /\ Due(request) \cup After(stream, 0) \subseteq Due(request') \cup After(stream, 0)
        /\ Changes(node, node', Due(request') \cup After(stream, 0))
    BY <1>2, <1>4 DEF Changes
  <2>3. AllFollow(view, reload, Due(request') \cup After(stream, 0), node')
    BY <2>1, <2>2, AllFollowGrows
  <2> QED
    BY <1>1, <2>3
<1>5. ~view'.open => stream' = <<>>
  BY <1>1 DEF FollowInv
<1> QED
  BY <1>2, <1>3, <1>4, <1>5 DEF FollowInv

\* What a request has to tell goes to the stream, or is dropped.
LEMMA FollowBroadcast ==
  ASSUME Inv, AloneInv, FollowInv, NEW r \in Request, Broadcast(r), [Next]_vars
  PROVE  FollowInv'
<1> DEFINE q == request[r]
           update == [cluster |-> q.made, nodes |-> q.told]
<1>1. /\ q \in Asked /\ q.at = "tell" /\ q.told \in Told
      /\ request' = [request EXCEPT ![r] = Idle] /\ request \in [Request -> Asked]
      /\ node' = node /\ view' = view /\ reload' = reload /\ (Orderly' <=> Orderly)
      /\ stream \in Seq(Update)
  BY Given DEF Broadcast, At, Answer, database, Inv, TypeOK, Orderly, Update
<1>2. update \in Update /\ update.nodes = q.told
  BY <1>1 DEF Update, Asked
<1>3. ASSUME Orderly'
      PROVE  /\ \A s \in Request : request'[s] = Idle
             /\ Due(request') = {} /\ Due(request) = All(q.told) /\ Current(q.told, {}, node)
  <2>1. Alone(request) /\ TellsTrue(q, node)
    BY <1>1, <1>3 DEF FollowInv, AloneInv, OrderOK
  <2>2. q # Idle
    BY <1>1, IdleReads
  <2>3. \A s \in Request \ {r} : request[s] = Idle
    BY <2>1, <2>2, BusyIs
  <2>4. \A s \in Request : request'[s] = Idle
    BY <1>1, <2>3
  <2>5. Due(request') = {}
    <3>1. PICK req : req = request'
      OBVIOUS
    <3> QED
      BY <2>4, <3>1, NoneDue
  <2>6. Changed(q) = {}
    BY <1>1, NotChanged
  <2>7. Due(request) = All(q.told)
    <3>1. Due(request) = Tells(request[r])
      BY <2>3, DueIs
    <3> QED
      BY <2>6, <3>1 DEF Tells
  <2> QED
    BY <2>1, <2>4, <2>5, <2>6, <2>7 DEF TellsTrue
<1> HIDE DEF update
<1>4. CASE view.open /\ q.told # <<>> /\ Len(stream) # MaxUpdates
  <2>1. stream' = Append(stream, update) /\ (dropped' <=> dropped)
    BY <1>4 DEF Broadcast, update
  <2>2. ASSUME Orderly', ~dropped'
        PROVE  /\ StreamTrue(stream', {}, node)
               /\ After(stream', 0) = After(stream, 0) \cup All(q.told)
    <3>1. StreamTrue(stream, All(update.nodes), node) /\ Current(update.nodes, {}, node)
      BY <1>1, <1>2, <1>3, <2>1, <2>2 DEF FollowInv
    <3> QED
      BY <1>1, <1>2, <2>1, <3>1, StreamAppend
  <2>3. ASSUME Orderly', ~dropped'
        PROVE  AllFollow(view, reload, Due(request') \cup After(stream', 0), node)
    <3>1. AllFollow(view, reload, Due(request) \cup After(stream, 0), node)
      BY <1>1, <1>4, <2>1, <2>3 DEF FollowInv
    <3>2. Due(request') \cup After(stream', 0) = Due(request) \cup After(stream, 0)
      BY <1>3, <2>2, <2>3
    <3> QED
      BY <3>1, <3>2
  <2> QED
    BY <1>1, <1>3, <1>4, <2>2, <2>3, IdleTells DEF FollowInv
<1>5. CASE view.open /\ q.told = <<>>
  <2>1. stream' = stream /\ (dropped' <=> dropped)
    BY <1>5 DEF Broadcast
  <2>2. All(q.told) = {}
    BY <1>5 DEF All, NamesOf
  <2>3. Orderly' => Due(request') = Due(request) /\ \A s \in Request : request'[s] = Idle
    BY <1>3, <2>2
  <2> QED
    BY <1>1, <2>1, <2>3, IdleTells DEF FollowInv
<1>6. CASE view.open /\ q.told # <<>> /\ Len(stream) = MaxUpdates
  <2>1. dropped'
    BY <1>6 DEF Broadcast
  <2> QED
    BY <1>1, <1>3, <1>6, <2>1, IdleTells DEF FollowInv
<1>7. CASE ~view.open
  <2>1. stream = <<>> /\ stream' = <<>> /\ Len(stream') = 0
    BY <1>7 DEF Broadcast, FollowInv
  <2>2. StreamTrue(stream', Due(request'), node')
    BY <2>1 DEF StreamTrue
  <2> QED
    BY <1>1, <1>3, <1>7, <2>1, <2>2, IdleTells DEF FollowInv
<1> QED
  BY <1>4, <1>5, <1>6, <1>7

\* An update that is placed brings what is shown as far as the update after it.
LEMMA FollowMerge ==
  ASSUME Inv, FollowInv, Merge, ~view'.drifted,
         NEW due, Follows(view.node, due \cup After(stream, 0), node), StreamTrue(stream, due, node)
  PROVE  Follows(view'.node, due \cup After(stream', 0), node)
<1> DEFINE update == Head(stream)
           known == view.cluster \/ update.cluster
           placed == IF known THEN Placed(update.nodes, DOMAIN view.node) ELSE {}
           h == Merged(view.node, update.nodes, placed)
<1>1. stream \in Seq(Update) /\ stream # <<>> /\ stream' = Tail(stream)
      /\ view \in View /\ view.node \in Graph
  BY DEF Merge, Inv, TypeOK, Update, View
<1>2. /\ After(stream, 0) = All(update.nodes) \cup After(stream', 0)
      /\ After(stream, 1) = After(stream', 0)
      /\ update = stream[1] /\ 1 \in 1..Len(stream)
  BY <1>1, StreamTail
<1>3. update \in Update /\ update.nodes \in Told
  <2>1. update \in Update
    BY <1>1, <1>2, ElementOfSeq
  <2> QED
    BY <2>1 DEF Update
<1>4. view' = [view EXCEPT !.node = h, !.cluster = known,
                           !.drifted = view.drifted \/ placed # 1..Len(update.nodes)]
  BY DEF Merge
<1> HIDE DEF update, known, placed, h
<1>5. view'.node = h /\ placed = 1..Len(update.nodes)
  BY <1>1, <1>4 DEF View
<1>6. h = Merged(view.node, update.nodes, 1..Len(update.nodes))
  BY <1>5 DEF h
<1>7. Current(update.nodes, due \cup After(stream', 0), node)
  BY <1>2 DEF StreamTrue
<1>8. Follows(view.node, All(update.nodes) \cup (due \cup After(stream', 0)), node)
  <2>1. due \cup After(stream, 0) = All(update.nodes) \cup (due \cup After(stream', 0))
    BY <1>2
  <2> QED
    BY <2>1
<1>9. PICK told, g, later : told = update.nodes /\ g = h /\ later = due \cup After(stream', 0)
  OBVIOUS
<1>10. Follows(g, later, node)
  BY <1>1, <1>3, <1>6, <1>7, <1>8, <1>9, MergedFollows
<1> QED
  BY <1>5, <1>9, <1>10

\* A reload that starts is given the rows, one that ends shows them or leaves
\* the page stale when it was the resync.
LEMMA FollowReload ==
  ASSUME Inv, NEW k \in Reload, Fetch(k) \/ Load(k) \/ FailedReload(k),
         NEW due, AllFollow(view, reload, due, node)
  PROVE  AllFollow(view', reload', due, node)
<1>1. view \in View /\ reload \in [Reload -> Copy]
  BY DEF Inv, TypeOK
<1>2. \A j \in Reload : reload[j] \in Copy
  BY <1>1
<1>3. CASE Fetch(k)
  <2>1. /\ reload'[k].node = node /\ reload'[k].at = "given" /\ reload'[k].due \in BOOLEAN
        /\ \A j \in Reload \ {k} : reload'[j] = reload[j]
        /\ view' = [view EXCEPT !.drifted = view.drifted /\ ~reload'[k].due]
    BY <1>3, FetchIs
  <2>2. /\ view'.node = view.node /\ view'.stale = view.stale
        /\ ~reload'[k].due => view'.drifted = view.drifted
    BY <1>1, <2>1 DEF View
  <2>3. Follows(node, due, node)
    BY DEF Follows
  <2>4. reload[k].at = "none"
    BY <1>3 DEF Fetch
  <2> QED
    BY <2>1, <2>2, <2>3, <2>4 DEF AllFollow
<1>4. CASE Load(k)
  <2>1. reload'[k].at = "over" /\ \A j \in Reload \ {k} : reload'[j] = reload[j]
    BY <1>1, <1>4, OverIs DEF Load
  <2>2. view'.node = reload[k].node /\ view'.stale = reload[k].stale
    BY <1>1, <1>4 DEF Load, View
  <2>3. reload[k].at = "given"
    BY <1>4 DEF Load, UnderWay
  <2> QED
    BY <2>1, <2>2, <2>3 DEF AllFollow
<1>5. CASE FailedReload(k)
  <2>1. reload'[k].at = "over" /\ \A j \in Reload \ {k} : reload'[j] = reload[j]
    BY <1>1, <1>5, OverIs DEF FailedReload
  <2>2. PICK s \in BOOLEAN : s = (view.stale \/ reload[k].due) /\ view' = [view EXCEPT !.stale = s]
    BY <1>5 DEF FailedReload
  <2>3. view'.node = view.node /\ view'.drifted = view.drifted /\ view'.stale = s
    BY <1>1, <2>2 DEF View
  <2>4. ~view'.stale => ~view.stale /\ ~reload[k].due
    BY <2>2, <2>3
  <2> QED
    BY <2>1, <2>3, <2>4 DEF AllFollow
<1> QED
  BY <1>3, <1>4, <1>5

\* The steps that are no statement of send_event.
LEMMA FollowOther ==
  ASSUME Inv, AloneInv, FollowInv, \A r \in Request : ~Serve(r), [Next]_vars
  PROVE  FollowInv'
<1>1. view \in View /\ stream \in Seq(Update) /\ reload \in [Reload -> Copy]
  BY DEF Inv, TypeOK, Update
<1>2. ASSUME Orderly'
      PROVE  /\ Orderly /\ node' = node /\ Due(request') = Due(request)
             /\ \A r \in Request : TellsTrue(request'[r], node')
  BY <1>2, OrderlyOnly, OtherSteps, OtherTells
<1>3. CASE UNCHANGED <<stream, view, reload, dropped>>
  BY <1>2, <1>3 DEF FollowInv
<1>4. ASSUME NEW k \in Reload, Fetch(k) \/ Load(k) \/ FailedReload(k) PROVE FollowInv'
  <2>1. stream' = stream /\ dropped' = dropped
    BY <1>4 DEF Fetch, Load, FailedReload, ghosts
  <2>2. view'.open = view.open
    <3>1. CASE Fetch(k)
      BY <1>1, <3>1, FetchIs DEF View
    <3>2. CASE Load(k)
      BY <1>1, <3>2 DEF Load, View
    <3>3. CASE FailedReload(k)
      BY <1>1, <3>3 DEF FailedReload, View
    <3> QED
      BY <1>4, <3>1, <3>2, <3>3
  <2>3. ASSUME Orderly', ~dropped', view'.open
        PROVE  AllFollow(view', reload', Due(request') \cup After(stream', 0), node')
    <3>1. PICK due : /\ due = Due(request) \cup After(stream, 0)
                     /\ due = Due(request') \cup After(stream', 0)
      BY <1>2, <2>1, <2>3
    <3>2. AllFollow(view, reload, due, node)
      BY <1>2, <2>1, <2>2, <2>3, <3>1 DEF FollowInv
    <3>3. AllFollow(view', reload', due, node)
      BY <1>4, <3>2, FollowReload
    <3> QED
      BY <1>2, <2>3, <3>1, <3>3
  <2> QED
    BY <1>2, <2>1, <2>2, <2>3 DEF FollowInv
<1>5. CASE Subscribe
  <2>1. /\ stream' = stream /\ stream = <<>> /\ Len(stream') = 0 /\ view'.open
        /\ view'.node = view.node /\ (~view'.stale => view.node = node)
        /\ dropped' = dropped
    BY <1>1, <1>5 DEF Subscribe, View, FollowInv, ghosts
  <2>2. \A k \in Reload : /\ reload'[k].at = reload[k].at /\ reload'[k].node = reload[k].node
                          /\ reload'[k].at = "given" /\ ~reload'[k].stale => reload[k].node = node
    <3>1. PICK old : old = {k \in Reload : reload[k].node # node} /\ Aged(old)
      BY <1>5 DEF Subscribe
    <3>2. \A k \in Reload : k \in old <=> reload[k].node # node
      BY <3>1
    <3> QED
      BY <1>1, <3>1, <3>2, AgedIs DEF UnderWay
  <2>3. \A due : Follows(node, due, node)
    BY DEF Follows
  <2>4. \A due : AllFollow(view', reload', due, node)
    BY <2>1, <2>2, <2>3 DEF AllFollow
  <2>5. StreamTrue(stream', Due(request'), node')
    BY <2>1 DEF StreamTrue
  <2> QED
    BY <1>2, <2>1, <2>4, <2>5 DEF FollowInv
<1>6. CASE Reconnect
  <2>1. stream' = <<>> /\ Len(stream') = 0 /\ view'.drifted
    BY <1>1, <1>6 DEF Reconnect, View
  <2>2. \A k \in Reload : reload'[k].at = "given" => reload'[k].stale
    BY <1>1, <1>6, AgedIs DEF Reconnect, UnderWay
  <2>3. \A due, rows : AllFollow(view', reload', due, rows)
    BY <2>1, <2>2 DEF AllFollow
  <2>4. StreamTrue(stream', Due(request'), node')
    BY <2>1 DEF StreamTrue
  <2> QED
    BY <1>2, <2>1, <2>3, <2>4 DEF FollowInv
<1>7. CASE Merge
  <2>1. /\ view'.open = view.open /\ (~view'.drifted => ~view.drifted)
        /\ view'.stale = view.stale
        /\ stream # <<>> /\ stream' = Tail(stream) /\ dropped' = dropped
    BY <1>1, <1>7 DEF Merge, View, ghosts
  <2>2. view.open
    BY <2>1 DEF FollowInv
  <2>3. ASSUME Orderly', ~dropped' PROVE StreamTrue(stream', Due(request'), node')
    <3>1. StreamTrue(stream, Due(request), node)
      BY <1>2, <2>1, <2>3 DEF FollowInv
    <3>2. StreamTrue(Tail(stream), Due(request), node)
      BY <1>1, <2>1, <3>1, StreamTail
    <3> QED
      BY <1>2, <2>1, <2>3, <3>2
  <2>4. \A k \in Reload : /\ reload'[k].at = reload[k].at /\ reload'[k].due = reload[k].due
                          /\ reload'[k].at = "given" => reload'[k].stale
    BY <1>1, <1>7, AgedIs DEF Merge, UnderWay
  <2>5. ASSUME Orderly', ~dropped'
        PROVE  AllFollow(view', reload', Due(request') \cup After(stream', 0), node')
    <3>1. /\ StreamTrue(stream, Due(request), node)
          /\ AllFollow(view, reload, Due(request) \cup After(stream, 0), node)
      BY <1>2, <2>1, <2>2, <2>5 DEF FollowInv
    <3>2. PICK due : due = Due(request) /\ due = Due(request')
      BY <1>2, <2>5
    <3>3. ASSUME ~view'.stale, ~view'.drifted,
                 \A k \in Reload : reload'[k].at = "given" => ~reload'[k].due
          PROVE  Follows(view'.node, due \cup After(stream', 0), node)
      <4>1. Follows(view.node, due \cup After(stream, 0), node)
        BY <2>1, <2>4, <3>1, <3>2, <3>3 DEF AllFollow
      <4> QED
        BY <1>7, <3>1, <3>2, <3>3, <4>1, FollowMerge
    <3>4. AllFollow(view', reload', due \cup After(stream', 0), node)
      BY <2>4, <3>3 DEF AllFollow
    <3> QED
      BY <1>2, <2>5, <3>2, <3>4
  <2> QED
    BY <1>2, <2>1, <2>2, <2>3, <2>5 DEF FollowInv
<1>8. \/ UNCHANGED <<stream, view, reload, dropped>> \/ Subscribe \/ Reconnect \/ Merge
      \/ \E k \in Reload : Fetch(k) \/ Load(k) \/ FailedReload(k)
  BY DEF Next, vars, browser, ghosts, Emit, Post, Unreached, End, Timeout, Dies
<1> QED
  BY <1>3, <1>4, <1>5, <1>6, <1>7, <1>8

\* The stream is empty at first, and nobody has subscribed.
LEMMA FollowInit == Init => FollowInv
<1> SUFFICES ASSUME Init PROVE FollowInv
  OBVIOUS
<1>1. \A r \in Request : TellsTrue(request[r], node)
  BY IdleTells DEF Init
<1>2. stream = <<>> /\ Len(stream) = 0 /\ ~view.open
  BY DEF Init
<1>3. StreamTrue(stream, Due(request), node)
  BY <1>2 DEF StreamTrue
<1> QED
  BY <1>1, <1>2, <1>3 DEF FollowInv

\* A browser that has caught up shows exactly the graph of the API, adopted
\* nodes, a root added on the way and updates told before a reload included:
\* after any number of broken streams and of reloads that overlap, fail or come
\* late, as long as requests came one at a time and none died, no update was
\* dropped, and neither did the last resync fail nor was an update merged that
\* the reload shown had missed (stream_updates, merge, reload and resync).
THEOREM FollowsHolds == Spec => []FollowsGraph
<1>1. Inv /\ AloneInv /\ FollowInv /\ [Next]_vars => FollowInv'
  BY FollowServe, FollowBroadcast, FollowOther
<1>2. Inv /\ AloneInv /\ FollowInv => FollowsGraph
  <2> SUFFICES ASSUME Inv, FollowInv, CaughtUp, Orderly, ~dropped, ~view.stale
               PROVE  view.node = node
    BY DEF FollowsGraph
  <2>1. Due(request) = {}
    BY NoneDue DEF CaughtUp, Quiet
  <2>2. After(stream, 0) = {}
    <3>1. Len(stream) = 0
      BY DEF CaughtUp
    <3> QED
      BY <3>1 DEF After
  <2>3. AllFollow(view, reload, {}, node)
    BY <2>1, <2>2 DEF CaughtUp, FollowInv
  <2>4. Follows(view.node, {}, node)
    BY <2>3 DEF AllFollow, CaughtUp, UnderWay
  <2>5. DOMAIN view.node = DOMAIN node /\ \A n \in DOMAIN node : view.node[n] = node[n]
    BY <2>4 DEF Follows
  <2>6. view.node \in [DOMAIN view.node -> Row] /\ node \in [DOMAIN node -> Row]
    BY GraphIs DEF Inv, TypeOK, View
  <2> QED
    BY <2>5, <2>6
<1> QED
  BY <1>1, <1>2, FollowInit, AloneHolds, PTL DEF Spec
=============================================================================
