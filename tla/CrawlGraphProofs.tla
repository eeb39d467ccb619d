-------------------------- MODULE CrawlGraphProofs --------------------------
(***************************************************************************)
(* Proofs about the live graph of a crawl, for any number of processes,    *)
(* pages, requests and failures, and any limits of the queues.             *)
(***************************************************************************)
EXTENDS CrawlGraph, FiniteSetTheorems, SequenceTheorems, TLAPS

-----------------------------------------------------------------------------
(***************************************************************************)
(* A finite set has a greatest element: a set without one would have a     *)
(* smallest subset without one.                                            *)
(***************************************************************************)
LEMMA GreatestExists ==
  ASSUME NEW S, IsFiniteSet(S), S # {}, NEW f \in [S -> Int]
  PROVE  \E m \in S : \A x \in S : f[x] <= f[m]
<1> DEFINE Greatest(U) == \E m \in U : \A x \in U : f[x] <= f[m]
           T == {U \in SUBSET S : U # {} /\ ~Greatest(U)}
<1>1. T \subseteq FiniteSubsetsOf(S)
  BY FS_Subset DEF FiniteSubsetsOf
<1>2. T = {}
  <2> SUFFICES ASSUME T # {} PROVE FALSE
    OBVIOUS
  <2>1. PICK U \in T : \A V \in T : <<V, U>> \notin StrictSubsetOrdering(S)
    BY <1>1, FS_StrictSubsetOrderingWellFounded, WFMin
  <2>2. U \subseteq S /\ U # {} /\ ~Greatest(U)
    BY <2>1
  <2>3. PICK x \in U : TRUE
    BY <2>2
  <2>4. <<U \ {x}, U>> \in StrictSubsetOrdering(S)
    BY <2>2, <2>3 DEF StrictSubsetOrdering
  <2>5. U \ {x} = {} \/ Greatest(U \ {x})
    BY <2>1, <2>2, <2>4
  <2>6. CASE U \ {x} = {}
    BY <2>2, <2>3, <2>6
  <2>7. CASE Greatest(U \ {x})
    <3>1. PICK m \in U \ {x} : \A y \in U \ {x} : f[y] <= f[m]
      BY <2>7
    <3>2. f[x] \in Int /\ \A y \in U : f[y] \in Int
      BY <2>2, <2>3
    <3>3. CASE f[x] <= f[m]
      BY <2>2, <3>1, <3>3
    <3>4. CASE f[m] <= f[x]
      BY <2>2, <3>1, <3>2, <3>4
    <3> QED
      BY <3>1, <3>2, <3>3, <3>4
  <2> QED
    BY <2>5, <2>6, <2>7
<1> QED
  BY <1>2

\* What Max is of a finite set of integers.
LEMMA MaxIsGreatest ==
  ASSUME NEW S \in SUBSET Int, IsFiniteSet(S), S # {}
  PROVE  Max(S) \in S /\ \A x \in S : x <= Max(S)
<1>1. \E m \in S : \A x \in S : [y \in S |-> y][x] <= [y \in S |-> y][m]
  BY GreatestExists
<1>2. \E m \in S : \A x \in S : m >= x
  BY <1>1
<1> QED
  BY <1>2 DEF Max

-----------------------------------------------------------------------------
(***************************************************************************)
(* Names: what Base, Stripped and ancestor_names make of a path.           *)
(***************************************************************************)
\* The provers do not know by themselves that Empty is a string.
Segment == STRING \cup {Empty}
Path == Seq(Segment) \ {<<>>}

\* Names are paths, and there are finitely many.
LEMMA Names == Name \subseteq Path /\ IsFiniteSet(Name) /\ Root \in Name
<1> DEFINE Given == {NameOf[u] : u \in URL}
<1>1. NameOf \in Surjection(URL, Given)
  BY GraphAssumption DEF Surjection
<1>2. IsFiniteSet(Given)
  BY <1>1, GraphAssumption, FS_Surjection
<1>3. IsFiniteSet(Name)
  BY <1>2, FS_AddElement DEF Name
<1>4. Root \in Path
  <2>1. Empty \in Segment
    BY DEF Segment
  <2>2. <<Empty>> \in Seq(Segment) /\ <<Empty>> # <<>>
    BY <2>1
  <2> QED
    BY <2>2 DEF Root, Path
<1>5. Given \subseteq Path
  <2> SUFFICES ASSUME NEW u \in URL PROVE NameOf[u] \in Path
    OBVIOUS
  <2>1. NameOf[u] \in Seq(STRING) /\ NameOf[u] # <<>>
    BY GraphAssumption
  <2>2. STRING \subseteq Segment
    BY DEF Segment
  <2>3. NameOf[u] \in Seq(Segment)
    BY <2>1, <2>2, SeqMonotonic
  <2> QED
    BY <2>1, <2>3 DEF Path
<1> QED
  BY <1>3, <1>4, <1>5 DEF Name

\* A path is a sequence of at least one segment.
LEMMA PathLength ==
  ASSUME NEW n \in Path
  PROVE  /\ n \in Seq(Segment) /\ Len(n) \in Nat \ {0}
         /\ \A i \in 1..Len(n) : n[i] \in Segment
BY EmptySeq, ElementOfSeq DEF Path

\* The first h segments of a path.
LEMMA StartOf ==
  ASSUME NEW n \in Seq(Segment), NEW k \in 0..Len(n)
  PROVE  /\ SubSeq(n, 1, k) \in Seq(Segment) /\ Len(SubSeq(n, 1, k)) = k
         /\ \A i \in 1..k : SubSeq(n, 1, k)[i] = n[i]
<1>1. Len(n) \in Nat
  BY LenProperties
<1>2. k \in Int /\ \A i \in 1..k : n[i] \in Segment
  BY <1>1, ElementOfSeq
<1> QED
  BY <1>1, <1>2, SubSeqProperties

\* A prefix, segment by segment.
LEMMA PrefixIs ==
  ASSUME NEW s \in Seq(Segment), NEW t \in Seq(Segment)
  PROVE  IsPrefix(s, t) <=> Len(s) <= Len(t) /\ \A i \in 1..Len(s) : s[i] = t[i]
<1>1. Len(s) \in Nat /\ Len(t) \in Nat
  BY LenProperties
<1>2. SubSeq(s, 1, Len(s)) = s
  BY SubSeqFull
<1>3. ASSUME Len(s) <= Len(t)
      PROVE  SubSeq(t, 1, Len(s)) = s <=> \A i \in 1..Len(s) : s[i] = t[i]
  <2>1. /\ SubSeq(t, 1, Len(s)) \in Seq(Segment) /\ Len(SubSeq(t, 1, Len(s))) = Len(s)
        /\ \A i \in 1..Len(s) : SubSeq(t, 1, Len(s))[i] = t[i]
    BY <1>1, <1>3, StartOf
  <2> QED
    BY <2>1, SeqEqual
<1> QED
  BY <1>1, <1>2, <1>3 DEF IsPrefix

\* Base drops the empty segment that ends a directory.
LEMMA BaseIs ==
  ASSUME NEW n \in Path
  PROVE  /\ Base(n) \in Seq(Segment)
         /\ Len(Base(n)) = IF n[Len(n)] = Empty THEN Len(n) - 1 ELSE Len(n)
         /\ \A i \in 1..Len(Base(n)) : Base(n)[i] = n[i]
<1>1. n \in Seq(Segment) /\ Len(n) \in Nat \ {0}
  BY PathLength
<1>2. CASE n[Len(n)] = Empty
  <2>1. Base(n) = SubSeq(n, 1, Len(n) - 1)
    BY <1>2 DEF Base, IsDirectory, Last, Front
  <2>2. Len(n) - 1 \in 0..Len(n)
    BY <1>1
  <2>3. /\ Base(n) \in Seq(Segment) /\ Len(Base(n)) = Len(n) - 1
        /\ \A i \in 1..(Len(n) - 1) : Base(n)[i] = n[i]
    <3> DEFINE k == Len(n) - 1
    <3>1. k \in 0..Len(n) /\ Base(n) = SubSeq(n, 1, k)
      BY <2>1, <2>2
    <3> HIDE DEF k
    <3>2. Base(n) \in Seq(Segment) /\ Len(Base(n)) = k /\ \A i \in 1..k : Base(n)[i] = n[i]
      BY <1>1, <3>1, StartOf
    <3> QED
      BY <3>2 DEF k
  <2> QED
    BY <1>2, <2>3
<1>3. CASE n[Len(n)] # Empty
  BY <1>1, <1>3 DEF Base, IsDirectory, Last
<1> QED
  BY <1>2, <1>3

\* What Below says of the segments.
LEMMA BelowIs ==
  ASSUME NEW a \in Path, NEW n \in Path
  PROVE  Below(a, n) <=>
           /\ Len(Base(a)) < Len(n)
           /\ \A i \in 1..Len(Base(a)) : Base(a)[i] = n[i]
           /\ Len(n) = Len(Base(a)) + 1 => n[Len(n)] # Empty
<1> DEFINE b == Base(a)
<1>1. b \in Seq(Segment) /\ Len(b) \in Nat
  BY BaseIs, LenProperties
<1>2. n \in Seq(Segment) /\ Len(n) \in Nat \ {0} /\ Empty \in Segment
  BY PathLength DEF Segment
<1>3. IsPrefix(b, n) <=> Len(b) <= Len(n) /\ \A i \in 1..Len(b) : b[i] = n[i]
  BY <1>1, <1>2, PrefixIs
<1>4. /\ Append(b, Empty) \in Seq(Segment) /\ Len(Append(b, Empty)) = Len(b) + 1
      /\ \A i \in 1..Len(b) : Append(b, Empty)[i] = b[i]
      /\ Append(b, Empty)[Len(b) + 1] = Empty
  <2> HIDE DEF b
  <2> QED
    BY <1>1, <1>2, AppendProperties
<1> HIDE DEF b
<1>5. ASSUME IsPrefix(b, n)
      PROVE  /\ b = n <=> Len(b) = Len(n)
             /\ n = Append(b, Empty) <=> Len(n) = Len(b) + 1 /\ n[Len(n)] = Empty
  <2>1. b = n <=> Len(b) = Len(n)
    BY <1>1, <1>2, <1>3, <1>5, SeqEqual
  <2>2. ASSUME Len(n) = Len(b) + 1, n[Len(n)] = Empty PROVE n = Append(b, Empty)
    <3>1. \A i \in 1..Len(n) : n[i] = Append(b, Empty)[i]
      BY <1>1, <1>2, <1>3, <1>4, <1>5, <2>2
    <3> QED
      BY <1>2, <1>4, <2>2, <3>1, SeqEqual
  <2> QED
    BY <1>1, <1>4, <2>1, <2>2
<1>6. Below(a, n) <=> IsPrefix(b, n) /\ b # n /\ n # Append(b, Empty)
  BY DEF Below, IsStrictPrefix, b
<1>7. Below(a, n) <=> /\ Len(b) < Len(n)
                      /\ \A i \in 1..Len(b) : b[i] = n[i]
                      /\ Len(n) = Len(b) + 1 => n[Len(n)] # Empty
  BY <1>1, <1>2, <1>3, <1>5, <1>6
<1> QED
  BY <1>7 DEF b

\* Every name but the root is below the root.
LEMMA BelowRoot ==
  ASSUME NEW n \in Path, n # Root
  PROVE  Below(Root, n)
<1>1. Empty \in Segment
  BY DEF Segment
<1>2. Root \in Path /\ Root \in Seq(Segment) /\ Len(Root) = 1 /\ Root[1] = Empty
  BY <1>1, Names DEF Root, Path
<1>3. Len(Base(Root)) = 0
  BY <1>2, BaseIs
<1>4. n \in Seq(Segment) /\ Len(n) \in Nat \ {0}
  BY PathLength
<1>5. Len(n) = 1 => n[1] # Empty
  BY <1>2, <1>4, SeqEqual
<1> QED
  BY <1>2, <1>3, <1>4, <1>5, BelowIs

\* rstrip("/") keeps the segments up to the last that is not empty.
LEMMA StrippedIs ==
  ASSUME NEW n \in Seq(Segment)
  PROVE  \E k \in 0..Len(n) : /\ Stripped(n) = SubSeq(n, 1, k)
                              /\ \A i \in (k + 1)..Len(n) : n[i] = Empty
                              /\ k = 0 \/ n[k] # Empty
<1> DEFINE S == {i \in 1..Len(n) : n[i] # Empty} \cup {0}
           Ends(k) == /\ \A i \in (k + 1)..Len(n) : n[i] = Empty
                      /\ k = 0 \/ n[k] # Empty
<1>1. Len(n) \in Nat
  BY LenProperties
<1>2. IsFiniteSet(S) /\ S \in SUBSET Int /\ S # {}
  <2>1. IsFiniteSet(0..Len(n))
    BY <1>1, FS_Interval
  <2>2. S \subseteq 0..Len(n)
    BY <1>1
  <2> QED
    BY <1>1, <2>1, <2>2, FS_Subset
<1>3. Max(S) \in S /\ \A i \in S : i <= Max(S)
  BY <1>2, MaxIsGreatest
<1>4. PICK m \in S : \A i \in S : i <= m
  BY <1>3
<1>5. \E k \in 0..Len(n) : Ends(k)
  <2>1. m \in 0..Len(n) /\ (m = 0 \/ n[m] # Empty)
    BY <1>1
  <2>2. \A i \in (m + 1)..Len(n) : n[i] = Empty
    BY <1>1, <1>4, <2>1
  <2> QED
    BY <2>1, <2>2
<1> DEFINE c == CHOOSE k \in 0..Len(n) : Ends(k)
<1>6. c \in 0..Len(n) /\ Ends(c)
  BY <1>5
<1>7. Stripped(n) = SubSeq(n, 1, c)
  BY DEF Stripped
<1> QED
  BY <1>6, <1>7

(***************************************************************************)
(* The forms of the directories above a name: each ends before a segment   *)
(* that is not empty.                                                      *)
(***************************************************************************)
LEMMA AncestorIs ==
  ASSUME NEW n \in Path, NEW a \in ancestor_names(n), a # Root
  PROVE  \E j \in 2..Len(n) :
           /\ n[j] # Empty
           /\ a \in {Append(SubSeq(n, 1, j - 1), Empty), Stripped(SubSeq(n, 1, j - 1))}
BY DEF ancestor_names

\* A name is below each name that could hold it.
LEMMA AncestorBelow ==
  ASSUME NEW n \in Path, n # Root, NEW a \in ancestor_names(n), a \in Path
  PROVE  Below(a, n)
<1>1. CASE a = Root
  BY <1>1, BelowRoot
<1>2. CASE a # Root
  <2>1. PICK j \in 2..Len(n) :
          /\ n[j] # Empty
          /\ a \in {Append(SubSeq(n, 1, j - 1), Empty), Stripped(SubSeq(n, 1, j - 1))}
    BY <1>2, AncestorIs
  <2> DEFINE h == j - 1
             p == SubSeq(n, 1, h)
  <2>2. n \in Seq(Segment) /\ Len(n) \in Nat \ {0} /\ Empty \in Segment
    BY PathLength DEF Segment
  <2>3. h \in 1..Len(n) /\ h \in 0..Len(n) /\ h < Len(n) /\ h + 1 = j /\ h \in Nat
    BY <2>2
  <2> HIDE DEF h
  <2>4. /\ p \in Seq(Segment) /\ Len(p) = h /\ \A i \in 1..h : p[i] = n[i]
    BY <2>2, <2>3, StartOf
  <2>5. a \in {Append(p, Empty), Stripped(p)}
    BY <2>1 DEF h
  <2> HIDE DEF p
  <2>6. CASE a = Append(p, Empty)
    <3>1. /\ Len(a) = h + 1 /\ a[Len(a)] = Empty /\ \A i \in 1..h : a[i] = n[i]
      BY <2>2, <2>3, <2>4, <2>6, AppendProperties
    <3>2. Len(Base(a)) = h /\ \A i \in 1..h : Base(a)[i] = n[i]
      BY <2>3, <3>1, BaseIs
    <3> QED
      BY <2>1, <2>2, <2>3, <3>2, BelowIs
  <2>7. CASE a = Stripped(p)
    <3>1. PICK k \in 0..h : /\ a = SubSeq(p, 1, k)
                            /\ \A i \in (k + 1)..h : p[i] = Empty
                            /\ k = 0 \/ p[k] # Empty
      BY <2>4, <2>7, StrippedIs
    <3>2. Len(a) = k /\ \A i \in 1..k : a[i] = n[i]
      BY <2>3, <2>4, <3>1, StartOf
    <3>3. Len(a) \in Nat \ {0}
      BY PathLength
    <3>4. k \in 1..h /\ a[k] # Empty
      BY <2>3, <2>4, <3>1, <3>2, <3>3
    <3>5. Len(Base(a)) = k /\ \A i \in 1..k : Base(a)[i] = n[i]
      BY <3>2, <3>4, BaseIs
    <3>6. Len(n) = k + 1 => n[Len(n)] # Empty
      BY <2>1, <2>3, <3>4
    <3> QED
      BY <2>2, <2>3, <3>4, <3>5, <3>6, BelowIs
  <2> QED
    BY <2>5, <2>6, <2>7
<1> QED
  BY <1>1, <1>2

\* A directory form is shorter than what is below it, and not the root.
LEMMA BelowNotRoot ==
  ASSUME NEW a \in Path, NEW n \in Path, Below(a, n)
  PROVE  n # Root
<1>1. Root[1] = Empty /\ Len(Root) = 1
  BY DEF Root
<1>2. Len(Base(a)) \in Nat
  BY BaseIs, LenProperties
<1>3. /\ Len(Base(a)) < Len(n)
      /\ Len(n) = Len(Base(a)) + 1 => n[Len(n)] # Empty
  BY BelowIs
<1>4. ASSUME n = Root PROVE FALSE
  <2>1. Len(n) = 1 /\ n[1] = Empty
    BY <1>1, <1>4
  <2> QED
    BY <1>2, <1>3, <2>1
<1> QED
  BY <1>4

\* What is below a name has more segments that count.
LEMMA BelowDeeper ==
  ASSUME NEW a \in Path, NEW n \in Path, Below(a, n)
  PROVE  Len(Base(a)) < Len(Base(n))
<1>1. Len(Base(a)) \in Nat
  BY BaseIs, LenProperties
<1>2. /\ Len(Base(a)) < Len(n)
      /\ Len(n) = Len(Base(a)) + 1 => n[Len(n)] # Empty
  BY BelowIs
<1>3. Len(n) \in Nat /\ Len(Base(n)) = IF n[Len(n)] = Empty THEN Len(n) - 1 ELSE Len(n)
  BY PathLength, BaseIs
<1> QED
  BY <1>1, <1>2, <1>3

(***************************************************************************)
(* The nearest of the nodes that could hold a name is one of them, and no  *)
(* other is longer (the ORDER BY of send_event).                           *)
(***************************************************************************)
LEMMA LengthType ==
  ASSUME NEW n \in Path
  PROVE  Length(n) \in Nat
<1>1. Len(n) \in Nat
  BY PathLength
<1>2. IsFiniteSet(1..Len(n))
  BY <1>1, FS_Interval
<1>3. IsFiniteSet({i \in 1..Len(n) : n[i] # Empty})
  BY <1>2, FS_Subset
<1> QED
  BY <1>1, <1>3, FS_CardinalityType DEF Length

\* While the root is there, the nearest node is one that could hold the name.
LEMMA NearestIs ==
  ASSUME NEW n \in Name, NEW nodes \in SUBSET Name, Root \in nodes
  PROVE  /\ Nearest(n, nodes) \in ancestor_names(n) \cap nodes
         /\ \A b \in ancestor_names(n) \cap nodes : Length(b) <= Length(Nearest(n, nodes))
<1> DEFINE above == ancestor_names(n) \cap nodes
           f == [a \in above |-> Length(a)]
<1>1. Root \in above
  BY DEF ancestor_names
<1>2. IsFiniteSet(above)
  BY Names, FS_Subset
<1>3. f \in [above -> Int]
  BY Names, LengthType
<1>4. \E a \in above : \A b \in above : Length(b) <= Length(a)
  <2>1. PICK a \in above : \A b \in above : f[b] <= f[a]
    BY <1>1, <1>2, <1>3, GreatestExists
  <2> QED
    BY <2>1
<1>5. Nearest(n, nodes) = CHOOSE a \in above : \A b \in above : Length(b) <= Length(a)
  BY <1>1 DEF Nearest
<1> HIDE DEF above
<1>6. Nearest(n, nodes) \in above /\ \A b \in above : Length(b) <= Length(Nearest(n, nodes))
  BY <1>4, <1>5
<1> QED
  BY <1>6 DEF above

-----------------------------------------------------------------------------
(***************************************************************************)
(* The inductive invariant.  What a request has read stays true while it   *)
(* waits for its next statement, because no request deletes a node: a node *)
(* it found is still there, and so is the parent it chose.  What a node    *)
(* hangs off is then either the place that was chosen for it, or a node    *)
(* that adopted it, and both have a directory form that its name starts    *)
(* with.                                                                   *)
(***************************************************************************)
RootIsTop(told) == \A i \in 1..Len(told) : told[i].name = Root => told[i].row.parent = Root

\* What q, being served, knows of the nodes.
Knows(q, nodes) ==
  /\ q.moved \subseteq nodes
  /\ q.at \in {"node", "status", "parent", "place", "descendants", "adopt", "refresh"} =>
       Root \in nodes
  /\ q.at \in {"node", "parent", "place", "descendants", "adopt"} => q.name # Root
  /\ q.at \in {"status", "descendants", "adopt", "refresh"} => q.name \in nodes
  /\ q.at = "place" => q.parent \in nodes \cap ancestor_names(q.name)
  /\ q.at = "adopt" => \A m \in q.moved : Below(q.name, m)
  /\ RootIsTop(q.told)

\* The same rows as a tree: every parent is there.
Closed(rows) == \A n \in DOMAIN rows : rows[n].parent \in DOMAIN rows

Inv ==
  /\ TypeOK
  /\ Rooted
  /\ Root \in Nodes => node[Root].parent = Root
  /\ \A r \in Request : Knows(request[r], Nodes)
  /\ \A i \in 1..Len(stream) : RootIsTop(stream[i].nodes)
  /\ Closed(view.node) /\ \A k \in Reload : Closed(reload[k].node)

-----------------------------------------------------------------------------
(***************************************************************************)
(* Rows: writing one, and merging those of an update, gives rows again.    *)
(***************************************************************************)
LEMMA GraphIs ==
  ASSUME NEW g
  PROVE  g \in Graph <=> DOMAIN g \subseteq Name /\ g \in [DOMAIN g -> Row]
BY DEF Graph

\* A database without nodes.
LEMMA NothingIs == Nothing \in Graph /\ DOMAIN Nothing = {}
<1>1. DOMAIN Nothing = {}
  BY DEF Nothing
<1>2. Nothing = [n \in {} |-> Root]
  BY DEF Nothing
<1>3. Nothing \in [{} -> Row]
  BY <1>2
<1> QED
  BY <1>1, <1>3, GraphIs

\* The rows with one written.
LEMMA WithIs ==
  ASSUME NEW g \in Graph, NEW n \in Name, NEW row \in Row
  PROVE  /\ With(g, n, row) \in Graph
         /\ DOMAIN With(g, n, row) = DOMAIN g \cup {n}
         /\ With(g, n, row)[n] = row
         /\ \A m \in DOMAIN g \ {n} : With(g, n, row)[m] = g[m]
<1>1. DOMAIN g \subseteq Name /\ g \in [DOMAIN g -> Row]
  BY GraphIs
<1> DEFINE h == With(g, n, row)
<1>2. /\ DOMAIN h = DOMAIN g \cup {n} /\ h[n] = row /\ \A m \in DOMAIN g \ {n} : h[m] = g[m]
      /\ h \in [DOMAIN g \cup {n} -> Row]
  BY <1>1 DEF With
<1>3. h \in Graph
  BY <1>1, <1>2, GraphIs
<1> QED
  BY <1>2, <1>3

\* What is told are names and rows.
LEMMA ToldIs ==
  ASSUME NEW told \in Told
  PROVE  /\ Len(told) \in Nat
         /\ \A i \in 1..Len(told) : told[i].name \in Name /\ told[i].row \in Row
<1>1. \A i \in 1..Len(told) : told[i] \in [name : Name, row : Row]
  BY ElementOfSeq DEF Told
<1>2. Len(told) \in Nat
  BY LenProperties DEF Told
<1> QED
  BY <1>1, <1>2

\* Every row of h is one of g, or the one that an index of I tells.
MergeOf(h, g, told, I) ==
  /\ h \in Graph
  /\ DOMAIN h = DOMAIN g \cup NamesOf(told, I)
  /\ \A n \in DOMAIN h : \/ n \in DOMAIN g /\ h[n] = g[n]
                         \/ \E i \in I : told[i].name = n /\ h[n] = told[i].row

\* A merge brings rows of the update or leaves those that were shown.
LEMMA MergedIs ==
  ASSUME NEW g \in Graph, NEW told \in Told, NEW I \in SUBSET (1..Len(told)),
         NEW h, h = Merged(g, told, I)
  PROVE  MergeOf(h, g, told, I)
<1> DEFINE N == DOMAIN g \cup NamesOf(told, I)
           Tells(n) == {i \in I : told[i].name = n}
           RowOf(n) == IF Tells(n) = {} THEN g[n] ELSE told[Max(Tells(n))].row
<1>1. h = [n \in N |-> RowOf(n)]
  BY DEF Merged
<1>2. DOMAIN g \subseteq Name /\ g \in [DOMAIN g -> Row]
  BY GraphIs
<1>3. /\ Len(told) \in Nat
      /\ \A i \in 1..Len(told) : told[i].name \in Name /\ told[i].row \in Row
  BY ToldIs
<1>4. IsFiniteSet(1..Len(told)) /\ 1..Len(told) \subseteq Int
  BY <1>3, FS_Interval
<1>5. ASSUME NEW n \in N
      PROVE  \/ n \in DOMAIN g /\ RowOf(n) = g[n]
             \/ \E i \in I : told[i].name = n /\ RowOf(n) = told[i].row
  <2>1. CASE Tells(n) = {}
    BY <2>1 DEF NamesOf
  <2>2. CASE Tells(n) # {}
    <3> DEFINE S == Tells(n)
    <3>1. IsFiniteSet(S) /\ S \in SUBSET Int /\ S # {}
      BY <1>4, <2>2, FS_Subset
    <3> HIDE DEF S
    <3>2. Max(S) \in S
      BY <3>1, MaxIsGreatest
    <3>3. Max(Tells(n)) \in Tells(n)
      BY <3>2 DEF S
    <3> QED
      BY <2>2, <3>3
  <2> QED
    BY <2>1, <2>2
<1>6. h = [n \in N |-> h[n]] /\ DOMAIN h = N /\ \A n \in N : h[n] = RowOf(n)
  BY <1>1
<1> HIDE DEF RowOf
<1> HIDE DEF N
<1>7. /\ DOMAIN h = N
      /\ \A n \in N : \/ n \in DOMAIN g /\ h[n] = g[n]
                      \/ \E i \in I : told[i].name = n /\ h[n] = told[i].row
  BY <1>5, <1>6
<1>8. N \subseteq Name
  BY <1>2, <1>3 DEF N, NamesOf
<1>9. \A n \in N : h[n] \in Row
  BY <1>2, <1>3, <1>7
<1>10. h \in Graph
  BY <1>6, <1>8, <1>9, GraphIs
<1> QED
  BY <1>7, <1>10 DEF MergeOf, N

-----------------------------------------------------------------------------
(***************************************************************************)
(* The statements that write rows.                                         *)
(***************************************************************************)
\* The facts about one request and the rows that its statements need.
LEMMA Given ==
  ASSUME Inv, NEW r \in Request
  PROVE  /\ request[r] \in Asked /\ Knows(request[r], Nodes)
         /\ request[r].name \in Name /\ request[r].status \in Status
         /\ request[r].parent \in Name /\ request[r].told \in Told
         /\ node \in Graph /\ Nodes \subseteq Name /\ node \in [Nodes -> Row]
         /\ \A n \in Nodes : node[n].parent \in Name /\ node[n].status \in Status
<1>1. request[r] \in Asked /\ Knows(request[r], Nodes) /\ node \in Graph
  BY DEF Inv, TypeOK
<1>2. Nodes \subseteq Name /\ node \in [Nodes -> Row]
  BY <1>1, GraphIs DEF Nodes
<1>3. \A n \in Nodes : node[n] \in Row
  BY <1>2
<1> QED
  BY <1>1, <1>2, <1>3 DEF Asked, Row

\* What Inv says of the rows.
RowsOK(rows) ==
  /\ rows \in Graph
  /\ \A n \in DOMAIN rows \ {Root} : rows[n].parent \in DOMAIN rows /\ Below(rows[n].parent, n)
  /\ Root \in DOMAIN rows => rows[Root].parent = Root

\* A row below one that is there can be added.
LEMMA WithRowsOK ==
  ASSUME NEW g, RowsOK(g), NEW n \in Name \ DOMAIN g, NEW row \in Row,
         IF n = Root THEN row.parent = Root ELSE row.parent \in DOMAIN g /\ Below(row.parent, n)
  PROVE  RowsOK(With(g, n, row)) /\ DOMAIN g \subseteq DOMAIN With(g, n, row)
<1> DEFINE h == With(g, n, row)
<1>1. /\ h \in Graph /\ DOMAIN h = DOMAIN g \cup {n} /\ h[n] = row
      /\ \A m \in DOMAIN g \ {n} : h[m] = g[m]
  BY WithIs DEF RowsOK
<1> HIDE DEF h
<1>2. ASSUME NEW m \in DOMAIN h \ {Root} PROVE h[m].parent \in DOMAIN h /\ Below(h[m].parent, m)
  <2>1. CASE m = n
    BY <1>1, <2>1
  <2>2. CASE m # n
    <3>1. m \in DOMAIN g \ {Root} /\ h[m] = g[m]
      BY <1>1, <2>2
    <3>2. g[m].parent \in DOMAIN g /\ Below(g[m].parent, m)
      BY <3>1 DEF RowsOK
    <3> QED
      BY <1>1, <3>1, <3>2
  <2> QED
    BY <2>1, <2>2
<1>3. Root \in DOMAIN h => h[Root].parent = Root
  <2>1. CASE n = Root
    BY <1>1, <2>1
  <2>2. CASE n # Root
    BY <1>1, <2>2 DEF RowsOK
  <2> QED
    BY <2>1, <2>2
<1>4. RowsOK(h) /\ DOMAIN g \subseteq DOMAIN h
  BY <1>1, <1>2, <1>3 DEF RowsOK
<1> QED
  BY <1>4 DEF h

\* The rows of the database are such rows.
LEMMA InvRows == Inv => RowsOK(node)
BY DEF Inv, TypeOK, Rooted, RowsOK, Nodes

\* The root is added.
LEMMA AddRootRows ==
  ASSUME Inv, NEW r \in Request, AddRoot(r)
  PROVE  RowsOK(node') /\ Nodes \subseteq Nodes'
<1> DEFINE row == [parent |-> Root, status |-> "pending"]
<1>1. RowsOK(node)
  BY InvRows
<1>2. CASE Root \in Nodes
  BY <1>1, <1>2 DEF AddRoot, Nodes
<1>3. CASE Root \notin Nodes
  <2>1. row \in Row /\ row.parent = Root /\ Root \in Name \ Nodes
    BY <1>3, Names DEF Row, Status
  <2>2. node' = With(node, Root, row)
    BY <1>3 DEF AddRoot
  <2> HIDE DEF row
  <2> QED
    BY <1>1, <2>1, <2>2, WithRowsOK DEF Nodes
<1> QED
  BY <1>2, <1>3

\* A node is added below the place that was chosen for it.
LEMMA AddNodeRows ==
  ASSUME Inv, NEW r \in Request, AddNode(r)
  PROVE  RowsOK(node') /\ Nodes \subseteq Nodes'
<1> DEFINE q == request[r]
           row == [parent |-> q.parent, status |-> q.status]
<1>1. RowsOK(node)
  BY InvRows
<1>2. CASE q.name \in Nodes
  BY <1>1, <1>2 DEF AddNode, Nodes
<1>3. CASE q.name \notin Nodes
  <2>1. q.name \in Name \ Nodes /\ q.parent \in Name /\ q.status \in Status /\ Knows(q, Nodes)
    BY <1>3, Given
  <2>2. q.name # Root /\ q.parent \in Nodes /\ q.parent \in ancestor_names(q.name)
    BY <2>1 DEF AddNode, At, Knows
  <2>3. Below(q.parent, q.name)
    BY <2>1, <2>2, AncestorBelow, Names
  <2>4. row \in Row /\ row.parent = q.parent
    BY <2>1 DEF Row
  <2>5. node' = With(node, q.name, row)
    BY <1>3 DEF AddNode
  <2> HIDE DEF row, q
  <2> QED
    BY <1>1, <2>1, <2>2, <2>3, <2>4, <2>5, WithRowsOK DEF Nodes
<1> QED
  BY <1>2, <1>3

\* A status is set, which moves no node.
LEMMA SetStatusRows ==
  ASSUME Inv, NEW r \in Request, SetStatus(r)
  PROVE  RowsOK(node') /\ Nodes = Nodes'
<1> DEFINE q == request[r]
           row == [node[q.name] EXCEPT !.status = q.status]
<1>1. RowsOK(node)
  BY InvRows
<1>2. CASE node' = node
  BY <1>1, <1>2 DEF Nodes
<1>3. CASE node' = [node EXCEPT ![q.name].status = q.status]
  <2>1. node \in [Nodes -> Row] /\ q.status \in Status /\ Nodes \subseteq Name
    BY Given
  <2>2. q.name \in Nodes /\ node[q.name] \in Row
    BY <2>1, Given DEF SetStatus, At, Knows
  <2>3. row \in Row /\ row.parent = node[q.name].parent
    BY <2>1, <2>2 DEF Row
  <2>4. node' = [node EXCEPT ![q.name] = row]
    BY <1>3
  <2> HIDE DEF row, q
  <2>5. /\ node' \in [Nodes -> Row] /\ DOMAIN node' = Nodes
        /\ \A n \in Nodes : node'[n].parent = node[n].parent
    BY <2>1, <2>2, <2>3, <2>4
  <2>6. node' \in Graph
    BY <2>1, <2>5, GraphIs
  <2> QED
    BY <1>1, <2>5, <2>6 DEF RowsOK, Nodes
<1> QED
  BY <1>2, <1>3 DEF SetStatus

\* Nodes are moved below the one that adopts them.
LEMMA AdoptRows ==
  ASSUME Inv, NEW r \in Request, Adopt(r)
  PROVE  RowsOK(node') /\ Nodes = Nodes'
<1> DEFINE q == request[r]
<1>1. RowsOK(node)
  BY InvRows
<1>2. node \in [Nodes -> Row] /\ Nodes \subseteq Name /\ Knows(q, Nodes) /\ q.name \in Name
  BY Given
<1>3. q.name \in Nodes /\ q.moved \subseteq Nodes /\ \A m \in q.moved : Below(q.name, m)
  BY <1>2 DEF Adopt, At, Knows
<1>4. node' = [m \in Nodes |-> IF m \in q.moved THEN [node[m] EXCEPT !.parent = q.name]
                               ELSE node[m]]
  BY DEF Adopt
<1> HIDE DEF q
<1>5. /\ node' \in [Nodes -> Row] /\ DOMAIN node' = Nodes
      /\ \A n \in Nodes : node'[n].parent = IF n \in q.moved THEN q.name ELSE node[n].parent
  BY <1>2, <1>3, <1>4 DEF Row
<1>6. node' \in Graph
  BY <1>2, <1>5, GraphIs
<1>7. Root \notin q.moved
  BY <1>2, <1>3, BelowNotRoot, Names
<1>8. \A n \in Nodes \ {Root} : node'[n].parent \in Nodes /\ Below(node'[n].parent, n)
  BY <1>1, <1>3, <1>5 DEF RowsOK, Nodes
<1>9. Root \in Nodes => node'[Root].parent = Root
  BY <1>1, <1>5, <1>7 DEF RowsOK, Nodes
<1> QED
  BY <1>5, <1>6, <1>8, <1>9 DEF RowsOK, Nodes

\* No other step writes a row, and none deletes one.
LEMMA RowsStep ==
  ASSUME Inv, [Next]_vars
  PROVE  RowsOK(node') /\ Nodes \subseteq Nodes'
<1>1. CASE UNCHANGED node
  BY <1>1, InvRows DEF Nodes
<1>2. ASSUME NEW r \in Request, AddRoot(r) \/ AddNode(r) \/ SetStatus(r) \/ Adopt(r)
      PROVE  RowsOK(node') /\ Nodes \subseteq Nodes'
  BY <1>2, AddRootRows, AddNodeRows, SetStatusRows, AdoptRows
<1>3. \/ UNCHANGED node
      \/ \E r \in Request : AddRoot(r) \/ AddNode(r) \/ SetStatus(r) \/ Adopt(r)
  BY DEF Next, Serve, vars, database, Emit, Post, Unreached, End, Timeout, Dies, SelectCluster,
         AddCluster, SelectRoot, SelectNode, SelectParent, SelectDescendants, Refresh,
         Broadcast, Fetch, Load, FailedReload, Subscribe, Reconnect, Merge
<1> QED
  BY <1>1, <1>2, <1>3

-----------------------------------------------------------------------------
(***************************************************************************)
(* The requests.                                                           *)
(***************************************************************************)
LEMMA SetToSeqIs ==
  ASSUME NEW S, IsFiniteSet(S)
  PROVE  SetToSeq(S) \in Seq(S)
<1> DEFINE k == Cardinality(S)
<1>1. k \in Nat /\ Bijection(1..k, S) # {}
  BY FS_CardinalityType DEF ExistsBijection
<1>2. \E f \in [1..k -> S] : IsInjective(f)
  BY <1>1 DEF Bijection, Injection
<1>3. SetToSeq(S) = CHOOSE f \in [1..k -> S] : IsInjective(f)
  BY DEF SetToSeq
<1> HIDE DEF k
<1>4. SetToSeq(S) \in [1..k -> S]
  BY <1>2, <1>3
<1> QED
  BY <1>1, <1>4, SeqDef

\* What Refresh tells is typed, and has the root at the top.
LEMMA RefreshedIs ==
  ASSUME NEW rows, RowsOK(rows), NEW n \in DOMAIN rows, NEW M \in SUBSET DOMAIN rows,
         NEW told \in Told, RootIsTop(told)
  PROVE  LET names == <<n>> \o SetToSeq(M \ {n})
             all == told \o [i \in 1..Len(names) |-> [name |-> names[i], row |-> rows[names[i]]]]
         IN  all \in Told /\ RootIsTop(all)
<1> DEFINE N == DOMAIN rows
           rest == SetToSeq(M \ {n})
           names == <<n>> \o rest
           now == [i \in 1..Len(names) |-> [name |-> names[i], row |-> rows[names[i]]]]
           all == told \o now
<1>1. N \subseteq Name /\ rows \in [N -> Row]
  BY GraphIs DEF RowsOK
<1>2. IsFiniteSet(M \ {n})
  BY <1>1, Names, FS_Subset
<1>3. rest \in Seq(N) /\ <<n>> \in Seq(N)
  <2>1. rest \in Seq(M \ {n}) /\ M \ {n} \subseteq N
    BY <1>2, SetToSeqIs
  <2> HIDE DEF rest
  <2>2. rest \in Seq(N)
    BY <2>1, SeqMonotonic
  <2> QED
    BY <2>2
<1> HIDE DEF rest
<1>4. names \in Seq(N)
  BY <1>3, ConcatProperties
<1> HIDE DEF names
<1>5. Len(names) \in Nat /\ \A i \in 1..Len(names) : names[i] \in N
  BY <1>4, LenProperties, ElementOfSeq
<1>6. \A i \in 1..Len(names) : [name |-> names[i], row |-> rows[names[i]]] \in [name : Name, row : Row]
  BY <1>1, <1>5
<1>7. now \in Told /\ Len(now) = Len(names) /\ RootIsTop(now)
  <2>1. now \in [1..Len(names) -> [name : Name, row : Row]]
    BY <1>6
  <2>2. \A i \in 1..Len(names) : now[i].name = names[i] /\ now[i].row = rows[names[i]]
    OBVIOUS
  <2> HIDE DEF now
  <2>3. now \in Told
    <3> DEFINE Rec == [name : Name, row : Row]
    <3>1. now \in [1..Len(names) -> Rec] /\ Told = Seq(Rec)
      BY <2>1 DEF Told
    <3> HIDE DEF Rec
    <3> QED
      BY <1>5, <3>1, SeqDef
  <2>4. Len(now) = Len(names)
    BY <1>5, <2>1, <2>3, LenProperties DEF Told
  <2>5. RootIsTop(now)
    BY <1>5, <2>2, <2>4 DEF RootIsTop, RowsOK
  <2> QED
    BY <2>3, <2>4, <2>5
<1> HIDE DEF now
<1>8. all \in Told /\ Len(all) = Len(told) + Len(now)
      /\ \A i \in 1..Len(all) : all[i] = IF i <= Len(told) THEN told[i] ELSE now[i - Len(told)]
  BY <1>7, ConcatProperties DEF Told
<1>9. Len(told) \in Nat /\ Len(now) \in Nat
  BY <1>7, ToldIs
<1> HIDE DEF all
<1>10. RootIsTop(all)
  <2> SUFFICES ASSUME NEW i \in 1..Len(all), all[i].name = Root PROVE all[i].row.parent = Root
    BY DEF RootIsTop
  <2>1. CASE i <= Len(told)
    BY <1>8, <1>9, <2>1 DEF RootIsTop
  <2>2. CASE ~(i <= Len(told))
    <3>1. i - Len(told) \in 1..Len(now) /\ all[i] = now[i - Len(told)]
      BY <1>8, <1>9, <2>2
    <3> QED
      BY <1>7, <3>1 DEF RootIsTop
  <2> QED
    BY <2>1, <2>2
<1> QED
  BY <1>8, <1>10 DEF all, now, names, rest

\* What a request knows stays true when rows are added.
LEMMA KnowsMore ==
  ASSUME NEW q, NEW N, NEW M, N \subseteq M, Knows(q, N)
  PROVE  Knows(q, M)
BY DEF Knows

\* An idle request knows nothing.
LEMMA IdleIs == Idle \in Asked /\ \A N : Knows(Idle, N)
<1>1. <<>> \in Told /\ RootIsTop(<<>>)
  BY EmptySeq DEF Told, RootIsTop
<1>2. Root \in Name
  BY Names
<1> QED
  BY <1>1, <1>2 DEF Idle, Asked, Knows, Status, Place

RequestsOK == request \in [Request -> Asked] /\ \A r \in Request : Knows(request[r], Nodes)

\* A step that changes one request.
LEMMA RequestSet ==
  ASSUME Inv, Nodes \subseteq Nodes', NEW r \in Request, NEW q \in Asked, Knows(q, Nodes'),
         request' = [request EXCEPT ![r] = q]
  PROVE  RequestsOK'
<1>1. request \in [Request -> Asked] /\ \A s \in Request : Knows(request[s], Nodes)
  BY DEF Inv, TypeOK
<1>2. \A s \in Request : Knows(request[s], Nodes')
  BY <1>1, KnowsMore
<1>3. request' \in [Request -> Asked]
  BY <1>1
<1>4. \A s \in Request : request'[s] = IF s = r THEN q ELSE request[s]
  BY <1>1
<1>5. \A s \in Request : Knows(request'[s], Nodes')
  BY <1>2, <1>4
<1> QED
  BY <1>3, <1>5 DEF RequestsOK

\* A request that goes to its next statement.
LEMMA RequestGoes ==
  ASSUME Inv, Nodes \subseteq Nodes', NEW r \in Request, NEW q \in Asked, NEW place \in Place,
         Knows([q EXCEPT !.at = place], Nodes'), Goto(r, place, q)
  PROVE  RequestsOK'
<1>1. [q EXCEPT !.at = place] \in Asked
  BY DEF Asked
<1> QED
  BY <1>1, RequestSet DEF Goto

\* A request that is answered.
LEMMA RequestAnswered ==
  ASSUME Inv, Nodes \subseteq Nodes', NEW r \in Request, Answer(r)
  PROVE  RequestsOK'
BY RequestSet, IdleIs DEF Answer

\* A request that goes on to its next statement.
LEMMA ServeRequests ==
  ASSUME Inv, Nodes \subseteq Nodes', NEW r \in Request, Serve(r)
  PROVE  RequestsOK'
<1> DEFINE q == request[r]
<1>1. q \in Asked /\ Knows(q, Nodes) /\ Knows(q, Nodes')
  BY Given, KnowsMore
<1>2. Root \in Name /\ "pending" \in Status
  BY Names DEF Status
<1>3. \A n \in Nodes : node[n].status \in Status
  BY Given
<1>4. CASE SelectCluster(r)
  <2>1. Knows([q EXCEPT !.at = "add cluster"], Nodes')
    BY <1>1 DEF Knows, Asked
  <2> QED
    BY <1>1, <1>4, <2>1, RequestGoes DEF SelectCluster, Place
<1>5. CASE AddCluster(r)
  <2> DEFINE p == [q EXCEPT !.made = TRUE]
  <2>1. p \in Asked /\ Knows([p EXCEPT !.at = "root"], Nodes')
    BY <1>1 DEF Knows, Asked
  <2>2. Answer(r) \/ Goto(r, "root", p)
    BY <1>5 DEF AddCluster, Add
  <2> HIDE DEF p
  <2> QED
    BY <2>1, <2>2, RequestAnswered, RequestGoes DEF Place
<1>6. CASE SelectRoot(r)
  <2>1. CASE Root \notin Nodes
    <3>1. Knows([q EXCEPT !.at = "add root"], Nodes')
      BY <1>1 DEF Knows, Asked
    <3> QED
      BY <1>1, <1>6, <2>1, <3>1, RequestGoes DEF SelectRoot, Place
  <2>2. CASE Root \in Nodes /\ q.name = Root
    <3> DEFINE p == [q EXCEPT !.seen = node[Root].status]
    <3>1. p \in Asked /\ Knows([p EXCEPT !.at = "status"], Nodes')
      BY <1>1, <1>3, <2>2 DEF Knows, Asked
    <3>2. Goto(r, "status", p)
      BY <1>6, <2>2 DEF SelectRoot
    <3> HIDE DEF p
    <3> QED
      BY <3>1, <3>2, RequestGoes DEF Place
  <2>3. CASE Root \in Nodes /\ q.name # Root
    <3>1. Knows([q EXCEPT !.at = "node"], Nodes')
      BY <1>1, <2>3 DEF Knows, Asked
    <3> QED
      BY <1>1, <1>6, <2>3, <3>1, RequestGoes DEF SelectRoot, Place
  <2> QED
    BY <2>1, <2>2, <2>3
<1>7. CASE AddRoot(r)
  <2> DEFINE row == [parent |-> Root, status |-> "pending"]
             p == [q EXCEPT !.told = <<[name |-> Root, row |-> row]>>]
             place == IF q.name = Root THEN "status" ELSE "node"
  <2>1. CASE Root \in Nodes
    BY <1>7, <2>1, RequestAnswered DEF AddRoot, Add
  <2>2. CASE Root \notin Nodes
    <3>1. <<[name |-> Root, row |-> row]>> \in Told
      BY <1>2 DEF Told, Row
    <3>2. RootIsTop(<<[name |-> Root, row |-> row]>>)
      BY DEF RootIsTop
    <3>3. Root \in Nodes'
      <4>1. row \in Row /\ node \in Graph /\ node' = With(node, Root, row)
        BY <1>2, <1>7, <2>2, Given DEF AddRoot, Row
      <4> HIDE DEF row
      <4>2. DOMAIN With(node, Root, row) = Nodes \cup {Root}
        BY <1>2, <4>1, WithIs DEF Nodes
      <4> QED
        BY <4>1, <4>2 DEF Nodes
    <3>4. p \in Asked /\ p.told = <<[name |-> Root, row |-> row]>> /\ p.name = q.name /\ p.moved = q.moved
      BY <1>1, <3>1 DEF Asked
    <3>5. Goto(r, place, p)
      BY <1>7, <2>2 DEF AddRoot, Add
    <3> HIDE DEF p, row
    <3>6. Knows([p EXCEPT !.at = place], Nodes')
      BY <1>1, <3>2, <3>3, <3>4 DEF Knows, Asked
    <3> QED
      BY <3>4, <3>5, <3>6, RequestGoes DEF Place
  <2> QED
    BY <2>1, <2>2
<1>8. CASE SelectNode(r)
  <2>1. CASE q.name \in Nodes
    <3> DEFINE p == [q EXCEPT !.seen = node[q.name].status]
    <3>1. p \in Asked /\ Knows([p EXCEPT !.at = "status"], Nodes')
      BY <1>1, <1>3, <1>8, <2>1 DEF Knows, Asked, SelectNode, At
    <3>2. Goto(r, "status", p)
      BY <1>8, <2>1 DEF SelectNode
    <3> HIDE DEF p
    <3> QED
      BY <3>1, <3>2, RequestGoes DEF Place
  <2>2. CASE q.name \notin Nodes
    <3>1. Knows([q EXCEPT !.at = "parent"], Nodes')
      BY <1>1, <1>8 DEF Knows, Asked, SelectNode, At
    <3> QED
      BY <1>1, <1>8, <2>2, <3>1, RequestGoes DEF SelectNode, Place
  <2> QED
    BY <2>1, <2>2
<1>9. CASE SetStatus(r)
  <2>1. CASE q.seen = "succeeded"
    <3>1. Knows([q EXCEPT !.at = "tell"], Nodes')
      BY <1>1 DEF Knows, Asked
    <3> QED
      BY <1>1, <1>9, <2>1, <3>1, RequestGoes DEF SetStatus, Place
  <2>2. CASE q.seen # "succeeded"
    <3> DEFINE p == [q EXCEPT !.moved = {q.name}, !.seen = "pending"]
    <3>1. p \in Asked /\ Knows([p EXCEPT !.at = "refresh"], Nodes')
      BY <1>1, <1>2, <1>9 DEF Knows, Asked, SetStatus, At
    <3>2. Goto(r, "refresh", p)
      BY <1>9, <2>2 DEF SetStatus
    <3> HIDE DEF p
    <3> QED
      BY <3>1, <3>2, RequestGoes DEF Place
  <2> QED
    BY <2>1, <2>2
<1>10. CASE SelectParent(r)
  <2> DEFINE near == Nearest(q.name, Nodes)
             p == [q EXCEPT !.parent = near]
  <2>1. near \in ancestor_names(q.name) \cap Nodes /\ near \in Name
    <3>1. Nodes \in SUBSET Name /\ Root \in Nodes /\ q.name \in Name
      BY <1>1, <1>10, Given DEF SelectParent, At, Knows
    <3> QED
      BY <3>1, NearestIs
  <2> HIDE DEF near
  <2>2. p \in Asked /\ Knows([p EXCEPT !.at = "place"], Nodes')
    BY <1>1, <1>10, <2>1 DEF Knows, Asked, SelectParent, At
  <2>3. Goto(r, "place", p)
    BY <1>10 DEF SelectParent, near
  <2> HIDE DEF p
  <2> QED
    BY <2>2, <2>3, RequestGoes DEF Place
<1>11. CASE AddNode(r)
  <2> DEFINE p == [q EXCEPT !.parent = Root]
             row == [parent |-> q.parent, status |-> q.status]
  <2>1. CASE q.name \in Nodes
    BY <1>11, <2>1, RequestAnswered DEF AddNode, Add
  <2>2. CASE q.name \notin Nodes
    <3>1. row \in Row /\ node \in Graph /\ q.name \in Name /\ node' = With(node, q.name, row)
      BY <1>11, <2>2, Given DEF AddNode, Row
    <3> HIDE DEF row
    <3>2. q.name \in Nodes'
      <4>1. PICK n \in Name : n = q.name /\ node' = With(node, n, row)
        BY <3>1
      <4>2. DOMAIN With(node, n, row) = DOMAIN node \cup {n}
        BY <3>1, WithIs
      <4> QED
        BY <4>1, <4>2 DEF Nodes
    <3>3. p \in Asked /\ Knows([p EXCEPT !.at = "descendants"], Nodes')
      BY <1>1, <1>2, <1>11, <3>2 DEF Knows, Asked, AddNode, At
    <3>4. Goto(r, "descendants", p)
      BY <1>11, <2>2 DEF AddNode, Add
    <3> HIDE DEF p
    <3> QED
      BY <3>3, <3>4, RequestGoes DEF Place
  <2> QED
    BY <2>1, <2>2
<1>12. CASE SelectDescendants(r)
  <2> DEFINE below == Adopted(q.name)
             p == [q EXCEPT !.moved = below]
  <2>1. below \subseteq Nodes /\ Nodes \subseteq Name /\ \A m \in below : Below(q.name, m)
    BY Given DEF Adopted
  <2> HIDE DEF below
  <2>2. p \in Asked /\ Knows([p EXCEPT !.at = "adopt"], Nodes')
    BY <1>1, <1>12, <2>1 DEF Knows, Asked, SelectDescendants, At
  <2>3. Goto(r, "adopt", p)
    BY <1>12 DEF SelectDescendants, below
  <2> HIDE DEF p
  <2> QED
    BY <2>2, <2>3, RequestGoes DEF Place
<1>13. CASE Adopt(r)
  <2> DEFINE p == [q EXCEPT !.moved = q.moved \cup {q.name}]
  <2>1. p \in Asked /\ Knows([p EXCEPT !.at = "refresh"], Nodes')
    BY <1>1, <1>13 DEF Knows, Asked, Adopt, At
  <2>2. Goto(r, "refresh", p)
    BY <1>13 DEF Adopt
  <2> HIDE DEF p
  <2> QED
    BY <2>1, <2>2, RequestGoes DEF Place
<1>14. CASE Refresh(r)
  <2> DEFINE names == <<q.name>> \o SetToSeq(q.moved \ {q.name})
             all == q.told \o [i \in 1..Len(names) |->
                                 [name |-> names[i], row |-> node[names[i]]]]
             p == [q EXCEPT !.moved = {}, !.told = all]
  <2>1. all \in Told /\ RootIsTop(all)
    <3>1. RowsOK(node) /\ q.name \in Nodes /\ q.moved \subseteq Nodes /\ q.told \in Told
          /\ RootIsTop(q.told)
      BY <1>1, <1>14, InvRows DEF Refresh, At, Knows, Asked
    <3> QED
      BY <3>1, RefreshedIs DEF Nodes
  <2> HIDE DEF all
  <2>2. p \in Asked /\ Knows([p EXCEPT !.at = "tell"], Nodes')
    BY <1>1, <2>1 DEF Knows, Asked
  <2>3. Goto(r, "tell", p)
    BY <1>14 DEF Refresh, all
  <2> HIDE DEF p
  <2> QED
    BY <2>2, <2>3, RequestGoes DEF Place
<1>15. CASE Broadcast(r)
  BY <1>15, RequestAnswered DEF Broadcast
<1> QED
  BY <1>4, <1>5, <1>6, <1>7, <1>8, <1>9, <1>10, <1>11, <1>12, <1>13, <1>14, <1>15 DEF Serve

Event == [name : Name, status : Status]

\* The event that a process sends.
LEMMA HeadIs ==
  ASSUME Inv, NEW s \in Sender, queue[s] # <<>>
  PROVE  /\ Head(queue[s]).name \in Name /\ Head(queue[s]).status \in Status
         /\ Tail(queue[s]) \in Seq(Event) /\ Len(Tail(queue[s])) <= MaxQueued
<1>1. queue[s] \in Seq(Event) /\ Len(queue[s]) <= MaxQueued
  BY DEF Inv, TypeOK, Event
<1>2. Head(queue[s]) \in Event /\ Tail(queue[s]) \in Seq(Event)
      /\ Len(Tail(queue[s])) = Len(queue[s]) - 1
  BY <1>1, HeadTailProperties
<1>3. Len(queue[s]) \in Nat /\ MaxQueued \in Nat
  BY <1>1, LenProperties, GraphAssumption
<1> QED
  BY <1>1, <1>2, <1>3 DEF Event

\* Every step leaves the requests typed, and what they know true.
LEMMA RequestsStep ==
  ASSUME Inv, [Next]_vars
  PROVE  RequestsOK'
<1>1. Nodes \subseteq Nodes'
  BY RowsStep
<1>2. request \in [Request -> Asked] /\ \A r \in Request : Knows(request[r], Nodes')
  BY <1>1, KnowsMore DEF Inv, TypeOK
<1>3. CASE UNCHANGED request
  BY <1>2, <1>3 DEF RequestsOK
<1>4. ASSUME NEW r \in Request, Serve(r) PROVE RequestsOK'
  BY <1>1, <1>4, ServeRequests
<1>5. ASSUME NEW s \in Sender, Post(s) PROVE RequestsOK'
  <2> DEFINE q == [Idle EXCEPT !.at = "cluster", !.by = s, !.name = Head(queue[s]).name,
                               !.status = Head(queue[s]).status]
  <2>1. PICK r \in Request : request' = [request EXCEPT ![r] = q]
    BY <1>5 DEF Post
  <2>2. Head(queue[s]).name \in Name /\ Head(queue[s]).status \in Status
    BY <1>5, HeadIs DEF Post, Sends
  <2>3. q \in Asked
    BY <2>2, IdleIs DEF Asked, Place
  <2>4. Knows(Idle, Nodes')
    BY IdleIs
  <2>5. Knows(q, Nodes')
    BY <2>2, <2>4, IdleIs DEF Knows, Asked
  <2> HIDE DEF q
  <2> QED
    BY <1>1, <2>1, <2>3, <2>5, RequestSet
<1>6. ASSUME NEW r \in Request, Timeout(r) PROVE RequestsOK'
  <2> DEFINE q == [request[r] EXCEPT !.by = NoOne]
  <2>1. request' = [request EXCEPT ![r] = q]
    BY <1>6 DEF Timeout
  <2>2. request[r] \in Asked /\ Knows(request[r], Nodes')
    BY <1>2
  <2>3. q \in Asked /\ Knows(q, Nodes')
    BY <2>2 DEF Asked, Knows
  <2> HIDE DEF q
  <2> QED
    BY <1>1, <2>1, <2>3, RequestSet
<1>7. ASSUME NEW s \in Sender, End(s) PROVE RequestsOK'
  <2> SUFFICES ASSUME NEW r \in Request PROVE request'[r] \in Asked /\ Knows(request'[r], Nodes')
    BY <1>7 DEF End, RequestsOK
  <2> DEFINE q == [request[r] EXCEPT !.by = NoOne]
  <2>1. request[r] \in Asked /\ Knows(request[r], Nodes')
    BY <1>2
  <2>2. q \in Asked /\ Knows(q, Nodes')
    BY <2>1 DEF Asked, Knows
  <2>3. request'[r] = q \/ request'[r] = request[r]
    BY <1>7 DEF End
  <2> HIDE DEF q
  <2> QED
    BY <2>1, <2>2, <2>3
<1>8. ASSUME NEW r \in Request, Dies(r) PROVE RequestsOK'
  BY <1>1, <1>8, RequestAnswered DEF Dies
<1>9. \/ UNCHANGED request
      \/ \E r \in Request : Serve(r) \/ Timeout(r) \/ Dies(r)
      \/ \E s \in Sender : Post(s) \/ End(s)
  BY DEF Next, vars, Emit, Unreached, Fetch, Load, FailedReload, Subscribe, Reconnect, Merge
<1> QED
  BY <1>3, <1>4, <1>5, <1>6, <1>7, <1>8, <1>9

\* The event that the crawl of u has next, and what becomes of it.
Said(u) ==
  [name |-> NameOf[u], status |-> <<"pending", "in_progress", Result[u]>>[stage[u] + 1]]

LEMMA EmitIs ==
  ASSUME Inv, NEW s \in Sender, NEW u \in URL, Emit(s, u)
  PROVE  /\ stage[u] \in 0..2 /\ stage' = [stage EXCEPT ![u] = stage[u] + 1]
         /\ Said(u) \in Event
         /\ \/ queue' = queue /\ lost'
            \/ /\ Len(queue[s]) # MaxQueued
               /\ queue' = [queue EXCEPT ![s] = Append(queue[s], Said(u))]
<1>1. stage[u] \in 0..3 /\ stage[u] < 3 /\ stage' = [stage EXCEPT ![u] = stage[u] + 1]
  BY DEF Emit, Inv, TypeOK
<1>2. stage[u] = 0 \/ stage[u] = 1 \/ stage[u] = 2
  BY <1>1
<1>3. Result[u] \in Status
  BY GraphAssumption
<1>4. Said(u) \in Event
  BY <1>2, <1>3 DEF Said, Event, Status, Name
<1> DEFINE full == Len(queue[s]) = MaxQueued
<1>5. /\ queue' = IF full THEN queue ELSE [queue EXCEPT ![s] = Append(queue[s], Said(u))]
      /\ full => lost'
  BY ZenonT(30) DEF Emit, Said
<1>6. \/ queue' = queue /\ lost'
      \/ ~full /\ queue' = [queue EXCEPT ![s] = Append(queue[s], Said(u))]
  BY <1>5
<1> QED
  BY <1>1, <1>2, <1>4, <1>6

\* The queues of the processes.
QueuesOK ==
  /\ stage \in [URL -> 0..3]
  /\ queue \in [Sender -> Seq(Event)]
  /\ \A s \in Sender : Len(queue[s]) <= MaxQueued

\* Every step leaves the queues typed and within their limit.
LEMMA QueuesStep ==
  ASSUME Inv, [Next]_vars
  PROVE  QueuesOK'
<1>1. QueuesOK
  BY DEF Inv, TypeOK, QueuesOK, Event
<1>2. CASE UNCHANGED crawl
  BY <1>1, <1>2 DEF QueuesOK, crawl
<1>3. ASSUME NEW s \in Sender, NEW u \in URL, Emit(s, u) PROVE QueuesOK'
  <2> DEFINE e == Said(u)
  <2>1. stage[u] \in 0..2 /\ stage' = [stage EXCEPT ![u] = stage[u] + 1] /\ e \in Event
    BY <1>3, EmitIs
  <2>2. stage' \in [URL -> 0..3]
    BY <1>1, <2>1 DEF QueuesOK
  <2>5. \/ queue' = queue
        \/ Len(queue[s]) # MaxQueued /\ queue' = [queue EXCEPT ![s] = Append(queue[s], e)]
    BY <1>3, EmitIs
  <2> HIDE DEF e
  <2>6. queue[s] \in Seq(Event) /\ Len(queue[s]) \in Nat /\ Len(queue[s]) <= MaxQueued
        /\ MaxQueued \in Nat
    BY <1>1, LenProperties, GraphAssumption DEF QueuesOK
  <2>7. Append(queue[s], e) \in Seq(Event) /\ Len(Append(queue[s], e)) = Len(queue[s]) + 1
    BY <2>1, <2>6, AppendProperties
  <2>8. Len(queue[s]) # MaxQueued => Len(Append(queue[s], e)) <= MaxQueued
    BY <2>6, <2>7
  <2> QED
    BY <1>1, <2>2, <2>5, <2>7, <2>8 DEF QueuesOK
<1>4. ASSUME NEW s \in Sender, queue[s] # <<>>, Sent(s), stage' = stage PROVE QueuesOK'
  <2>1. Tail(queue[s]) \in Seq(Event) /\ Len(Tail(queue[s])) <= MaxQueued
    BY <1>4, HeadIs
  <2>2. queue' = [queue EXCEPT ![s] = Tail(queue[s])]
    BY <1>4 DEF Sent
  <2> QED
    BY <1>1, <1>4, <2>1, <2>2 DEF QueuesOK
<1>5. ASSUME NEW s \in Sender, End(s) PROVE QueuesOK'
  <2>1. <<>> \in Seq(Event) /\ Len(<<>>) <= MaxQueued
    BY EmptySeq, GraphAssumption
  <2>2. queue' = [queue EXCEPT ![s] = <<>>] /\ stage' = stage
    BY <1>5 DEF End
  <2> QED
    BY <1>1, <2>1, <2>2 DEF QueuesOK
<1>6. \/ UNCHANGED crawl
      \/ \E s \in Sender : \E u \in URL : Emit(s, u)
      \/ \E s \in Sender : queue[s] # <<>> /\ Sent(s) /\ stage' = stage
      \/ \E s \in Sender : End(s)
  BY DEF Next, Serve, vars, Post, Unreached, Sends, Timeout, Dies, SelectCluster, AddCluster,
         SelectRoot,
         AddRoot, SelectNode, SetStatus, SelectParent, AddNode, SelectDescendants, Adopt,
         Refresh, Broadcast, Fetch, Load, FailedReload, Subscribe, Reconnect, Merge
<1> QED
  BY <1>2, <1>3, <1>4, <1>5, <1>6

-----------------------------------------------------------------------------
(***************************************************************************)
(* The browser.                                                            *)
(***************************************************************************)
Update == [cluster : BOOLEAN, nodes : Told]

StreamOK ==
  /\ stream \in Seq(Update) /\ Len(stream) <= MaxUpdates
  /\ \A i \in 1..Len(stream) : RootIsTop(stream[i].nodes)

\* An update tells what its request was told.
LEMMA StreamStep ==
  ASSUME Inv, [Next]_vars
  PROVE  StreamOK'
<1>1. stream \in Seq(Update) /\ Len(stream) <= MaxUpdates
      /\ (\A i \in 1..Len(stream) : RootIsTop(stream[i].nodes))
  BY DEF Inv, TypeOK, Update
<1>2. Len(stream) \in Nat /\ MaxUpdates \in Nat
  BY <1>1, LenProperties, GraphAssumption
<1>3. CASE UNCHANGED stream
  BY <1>1, <1>3 DEF StreamOK
<1>4. ASSUME NEW r \in Request, Broadcast(r) PROVE StreamOK'
  <2> DEFINE u == [cluster |-> request[r].made, nodes |-> request[r].told]
  <2>1. u \in Update /\ RootIsTop(u.nodes)
    BY Given DEF Update, Asked, Knows
  <2>2. \/ stream' = stream
        \/ Len(stream) # MaxUpdates /\ stream' = Append(stream, u)
    BY <1>4 DEF Broadcast
  <2> HIDE DEF u
  <2>3. CASE Len(stream) # MaxUpdates /\ stream' = Append(stream, u)
    <3>1. /\ stream' \in Seq(Update) /\ Len(stream') = Len(stream) + 1
          /\ \A i \in 1..Len(stream) : stream'[i] = stream[i]
          /\ stream'[Len(stream) + 1] = u
      BY <1>1, <2>1, <2>3, AppendProperties
    <3>2. \A i \in 1..Len(stream') : RootIsTop(stream'[i].nodes)
      BY <1>1, <1>2, <2>1, <3>1
    <3> QED
      BY <1>1, <1>2, <2>3, <3>1, <3>2 DEF StreamOK
  <2> QED
    BY <1>3, <2>2, <2>3
<1>5. CASE stream # <<>> /\ stream' = Tail(stream)
  <2>1. /\ stream' \in Seq(Update) /\ Len(stream') = Len(stream) - 1
        /\ \A i \in 1..Len(stream') : stream'[i] = stream[i + 1]
    BY <1>1, <1>5, HeadTailProperties
  <2>2. \A i \in 1..Len(stream') : RootIsTop(stream'[i].nodes)
    BY <1>1, <1>2, <2>1
  <2> QED
    BY <1>1, <1>2, <2>1, <2>2 DEF StreamOK
<1>6. CASE stream' = <<>>
  BY <1>6, EmptySeq, GraphAssumption DEF StreamOK
<1>7. \/ UNCHANGED stream
      \/ \E r \in Request : Broadcast(r)
      \/ stream # <<>> /\ stream' = Tail(stream)
      \/ stream' = <<>>
  BY DEF Next, Serve, vars, browser, Emit, Post, Unreached, End, Timeout, Dies, SelectCluster,
         AddCluster, SelectRoot, AddRoot, SelectNode, SetStatus, SelectParent, AddNode,
         SelectDescendants, Adopt, Refresh, Fetch, Load, FailedReload, Subscribe, Reconnect,
         Merge
<1> QED
  BY <1>3, <1>4, <1>5, <1>6, <1>7

\* Rows of a tree stay a tree when an update is merged: a row is placed below
\* a node that is shown or that an earlier row of the update has brought.
LEMMA MergedClosed ==
  ASSUME NEW g \in Graph, Closed(g), NEW told \in Told, RootIsTop(told)
  PROVE  /\ Placed(told, DOMAIN g) \subseteq 1..Len(told)
         /\ Closed(Merged(g, told, Placed(told, DOMAIN g)))
         /\ Merged(g, told, Placed(told, DOMAIN g)) \in Graph
<1> DEFINE N == DOMAIN g
           I == Placed(told, N)
<1>1. I \in SUBSET (1..Len(told))
  BY DEF Placed
<1>2. Len(told) \in Nat
  BY ToldIs
<1>3. ASSUME NEW i \in I
      PROVE  \/ told[i].name = Root
             \/ told[i].row.parent \in N \cup NamesOf(told, I)
  <2>1. i \in 1..Len(told) /\ \A j \in 1..i : Placeable(told, j, N)
    BY DEF Placed
  <2>2. Placeable(told, i, N)
    BY <1>2, <2>1
  <2>3. ASSUME NEW k \in 1..(i - 1) PROVE k \in I
    <3>1. k \in 1..Len(told) /\ 1..k \subseteq 1..i
      BY <1>2, <2>1
    <3> QED
      BY <2>1, <3>1 DEF Placed
  <2> QED
    BY <2>2, <2>3 DEF Placeable, NamesOf
<1> HIDE DEF I
<1>4. PICK h : h = Merged(g, told, I)
  OBVIOUS
<1>5. /\ h \in Graph
      /\ DOMAIN h = N \cup NamesOf(told, I)
      /\ \A n \in DOMAIN h : \/ n \in N /\ h[n] = g[n]
                             \/ \E i \in I : told[i].name = n /\ h[n] = told[i].row
  <2>1. MergeOf(h, g, told, I)
    BY <1>1, <1>4, MergedIs
  <2> QED
    BY <2>1 DEF MergeOf
<1>6. ASSUME NEW n \in DOMAIN h PROVE h[n].parent \in DOMAIN h
  <2>1. CASE n \in N /\ h[n] = g[n]
    BY <1>5, <2>1 DEF Closed
  <2>2. ASSUME NEW i \in I, told[i].name = n, h[n] = told[i].row PROVE h[n].parent \in DOMAIN h
    <3>1. CASE told[i].name = Root
      BY <1>1, <2>2, <3>1 DEF RootIsTop
    <3>2. CASE told[i].row.parent \in N \cup NamesOf(told, I)
      BY <1>5, <2>2, <3>2
    <3> QED
      BY <1>3, <3>1, <3>2
  <2> QED
    BY <1>5, <2>1, <2>2
<1>7. Closed(h)
  BY <1>6 DEF Closed
<1> QED
  BY <1>1, <1>4, <1>5, <1>7 DEF I

\* Rows of the database are a tree that can be shown.
LEMMA RowsClosed ==
  ASSUME NEW rows, RowsOK(rows)
  PROVE  rows \in Graph /\ Closed(rows)
BY DEF RowsOK, Closed

\* An update that is not merged changes no row.
LEMMA MergedNone ==
  ASSUME NEW g \in Graph, Closed(g), NEW told \in Told
  PROVE  Merged(g, told, {}) \in Graph /\ Closed(Merged(g, told, {}))
<1>1. PICK h : h = Merged(g, told, {})
  OBVIOUS
<1>2. MergeOf(h, g, told, {})
  BY <1>1, MergedIs
<1>3. h \in Graph /\ DOMAIN h = DOMAIN g \cup NamesOf(told, {}) /\ \A n \in DOMAIN h : h[n] = g[n]
  BY <1>2 DEF MergeOf
<1>4. NamesOf(told, {}) = {}
  BY DEF NamesOf
<1>5. Closed(h)
  BY <1>3, <1>4 DEF Closed
<1> QED
  BY <1>1, <1>3, <1>5

\* Copies that have aged are what they were, but for being stale.
LEMMA AgedIs ==
  ASSUME reload \in [Reload -> Copy], NEW old, Aged(old)
  PROVE  /\ reload' \in [Reload -> Copy]
         /\ \A k \in Reload : /\ reload'[k].at = reload[k].at
                              /\ reload'[k].due = reload[k].due
                              /\ reload'[k].node = reload[k].node
                              /\ reload'[k].stale =
                                   (reload[k].stale \/ (UnderWay(k) /\ k \in old))
<1> SUFFICES ASSUME NEW k \in Reload
             PROVE  /\ reload'[k] \in Copy /\ reload'[k].at = reload[k].at
                    /\ reload'[k].due = reload[k].due /\ reload'[k].node = reload[k].node
                    /\ reload'[k].stale = (reload[k].stale \/ (UnderWay(k) /\ k \in old))
  BY DEF Aged
<1> DEFINE older == reload[k].stale \/ k \in old
<1>1. reload[k] \in Copy
  OBVIOUS
<1>2. reload'[k] = IF UnderWay(k) THEN [reload[k] EXCEPT !.stale = older] ELSE reload[k]
  BY DEF Aged
<1>3. older \in BOOLEAN
  OBVIOUS
<1>4. CASE UnderWay(k)
  <2> HIDE DEF older
  <2>1. /\ reload'[k] \in Copy /\ reload'[k].at = reload[k].at
        /\ reload'[k].due = reload[k].due /\ reload'[k].node = reload[k].node
        /\ reload'[k].stale = older
    BY <1>1, <1>2, <1>3, <1>4 DEF Copy
  <2> QED
    BY <1>4, <2>1 DEF older
<1>5. CASE ~UnderWay(k)
  <2>1. reload'[k] = reload[k] /\ reload[k].stale \in BOOLEAN
    BY <1>1, <1>2, <1>5 DEF Copy
  <2>2. reload[k].stale = (reload[k].stale \/ (UnderWay(k) /\ k \in old))
    BY <1>5, <2>1
  <2> QED
    BY <1>1, <2>1, <2>2
<1> QED
  BY <1>4, <1>5

\* A reload that is over keeps no copy.
LEMMA OverIs ==
  ASSUME reload \in [Reload -> Copy], NEW k \in Reload, Over(k)
  PROVE  /\ reload' \in [Reload -> Copy]
         /\ reload'[k].at = "over" /\ reload'[k].node = Nothing
         /\ \A j \in Reload \ {k} : reload'[j] = reload[j]
<1> DEFINE c == [NoCopy EXCEPT !.at = "over"]
<1>1. c \in Copy /\ c.at = "over" /\ c.node = Nothing
  BY NothingIs DEF NoCopy, Copy
<1>2. reload' = [reload EXCEPT ![k] = c]
  BY DEF Over
<1> HIDE DEF c
<1> QED
  BY <1>1, <1>2

\* A reload that starts is given the rows of the API.
LEMMA FetchIs ==
  ASSUME Inv, NEW k \in Reload, Fetch(k)
  PROVE  /\ reload' \in [Reload -> Copy]
         /\ reload'[k].node = node /\ reload'[k].at = "given" /\ ~reload'[k].stale
         /\ reload'[k].due \in BOOLEAN
         /\ \A j \in Reload \ {k} : reload'[j] = reload[j]
         /\ view' = [view EXCEPT !.drifted = view.drifted /\ ~reload'[k].due]
         /\ reload'[k].due => view.drifted
<1>1. PICK due \in BOOLEAN :
        /\ due => view.drifted
        /\ view' = [view EXCEPT !.drifted = view.drifted /\ ~due]
        /\ reload' = [reload EXCEPT ![k] = [NoCopy EXCEPT !.at = "given", !.due = due,
                                                          !.node = node]]
  BY DEF Fetch
<1> DEFINE c == [NoCopy EXCEPT !.at = "given", !.due = due, !.node = node]
<1>2. c \in Copy /\ c.node = node /\ c.at = "given" /\ c.stale = FALSE /\ c.due = due
  BY NothingIs DEF NoCopy, Copy, Inv, TypeOK
<1>3. reload' = [reload EXCEPT ![k] = c]
  BY <1>1
<1> HIDE DEF c
<1>4. /\ reload' \in [Reload -> Copy] /\ reload'[k] = c
      /\ \A j \in Reload \ {k} : reload'[j] = reload[j]
  BY <1>2, <1>3 DEF Inv, TypeOK
<1> QED
  BY <1>1, <1>2, <1>4

BrowserOK ==
  /\ view \in View /\ Closed(view.node)
  /\ reload \in [Reload -> Copy] /\ \A k \in Reload : Closed(reload[k].node)

\* Every step leaves what the browser shows, or has been given, a tree.
LEMMA BrowserStep ==
  ASSUME Inv, [Next]_vars
  PROVE  BrowserOK'
<1>1. /\ view \in View /\ Closed(view.node)
      /\ reload \in [Reload -> Copy] /\ \A k \in Reload : Closed(reload[k].node)
  BY DEF Inv, TypeOK
<1>2. CASE UNCHANGED <<view, reload>>
  BY <1>1, <1>2 DEF BrowserOK
<1>3. ASSUME NEW k \in Reload, Fetch(k) PROVE BrowserOK'
  <2>1. node \in Graph /\ Closed(node)
    BY InvRows, RowsClosed
  <2>2. /\ reload' \in [Reload -> Copy] /\ reload'[k].node = node
        /\ \A j \in Reload \ {k} : reload'[j] = reload[j]
        /\ \E drifts \in BOOLEAN : view' = [view EXCEPT !.drifted = drifts]
    BY <1>3, FetchIs
  <2>3. view' \in View /\ view'.node = view.node
    BY <1>1, <2>2 DEF View
  <2> QED
    BY <1>1, <2>1, <2>2, <2>3 DEF BrowserOK
<1>4. ASSUME NEW k \in Reload, Load(k) \/ FailedReload(k) PROVE BrowserOK'
  <2>1. /\ reload' \in [Reload -> Copy] /\ reload'[k].node = Nothing
        /\ \A j \in Reload \ {k} : reload'[j] = reload[j]
    BY <1>1, <1>4, OverIs DEF Load, FailedReload
  <2>2. Closed(Nothing)
    BY NothingIs DEF Closed
  <2>3. reload[k] \in Copy
    BY <1>1
  <2>4. view' \in View /\ (view'.node = view.node \/ view'.node = reload[k].node)
    <3>1. CASE Load(k)
      BY <1>1, <2>3, <3>1 DEF Load, View, Copy
    <3>2. CASE FailedReload(k)
      <4>1. PICK s \in BOOLEAN : view' = [view EXCEPT !.stale = s]
        BY <3>2 DEF FailedReload
      <4> QED
        BY <1>1, <4>1 DEF View
    <3> QED
      BY <1>4, <3>1, <3>2
  <2> QED
    BY <1>1, <2>1, <2>2, <2>4 DEF BrowserOK
<1>5. CASE Subscribe \/ Reconnect
  <2>1. \E old : Aged(old)
    BY <1>5 DEF Subscribe, Reconnect
  <2>2. reload' \in [Reload -> Copy] /\ \A k \in Reload : reload'[k].node = reload[k].node
    BY <1>1, <2>1, AgedIs
  <2>3. view' \in View /\ view'.node = view.node
    <3>1. \/ \E s \in BOOLEAN : view' = [view EXCEPT !.open = TRUE, !.stale = s]
          \/ view' = [view EXCEPT !.drifted = TRUE]
      BY <1>5 DEF Subscribe, Reconnect
    <3> QED
      BY <1>1, <3>1 DEF View
  <2> QED
    BY <1>1, <2>2, <2>3 DEF BrowserOK
<1>6. CASE Merge
  <2> DEFINE update == Head(stream)
             known == view.cluster \/ update.cluster
             placed == IF known THEN Placed(update.nodes, DOMAIN view.node) ELSE {}
             rows == Merged(view.node, update.nodes, placed)
             lags == view.drifted \/ placed # 1..Len(update.nodes)
  <2>1. update \in Update /\ RootIsTop(update.nodes)
    <3>1. stream # <<>> /\ stream \in Seq(Update) /\ \A i \in 1..Len(stream) : RootIsTop(stream[i].nodes)
      BY <1>6 DEF Inv, TypeOK, Merge, Update
    <3>2. Len(stream) \in Nat \ {0} /\ Head(stream) = stream[1]
      BY <3>1, EmptySeq
    <3> QED
      BY <3>1, <3>2, HeadTailProperties
  <2>2. update.nodes \in Told /\ update.cluster \in BOOLEAN /\ view.node \in Graph
        /\ view.cluster \in BOOLEAN /\ view.drifted \in BOOLEAN
    BY <1>1, <2>1 DEF Update, View
  <2> HIDE DEF update
  <2>3. rows \in Graph /\ Closed(rows)
    <3>1. CASE known
      BY <1>1, <2>1, <2>2, <3>1, MergedClosed
    <3>2. CASE ~known
      BY <1>1, <2>2, <3>2, MergedNone
    <3> QED
      BY <3>1, <3>2
  <2>4. /\ view' = [view EXCEPT !.node = rows, !.cluster = known, !.drifted = lags]
        /\ Aged(Reload)
    BY <1>6 DEF Merge, update
  <2>5. known \in BOOLEAN /\ lags \in BOOLEAN
    BY <2>2
  <2> HIDE DEF rows, known, lags
  <2>6. view' \in View /\ view'.node = rows
    BY <1>1, <2>3, <2>4, <2>5 DEF View
  <2>7. reload' \in [Reload -> Copy] /\ \A k \in Reload : reload'[k].node = reload[k].node
    BY <1>1, <2>4, AgedIs
  <2> QED
    BY <1>1, <2>3, <2>6, <2>7 DEF BrowserOK
<1>7. \/ UNCHANGED <<view, reload>> \/ Subscribe \/ Reconnect \/ Merge
      \/ \E k \in Reload : Fetch(k) \/ Load(k) \/ FailedReload(k)
  BY DEF Next, Serve, vars, browser, Emit, Post, Unreached, End, Timeout, Dies, SelectCluster,
         AddCluster, SelectRoot, AddRoot, SelectNode, SetStatus, SelectParent, AddNode,
         SelectDescendants, Adopt, Refresh, Broadcast
<1> QED
  BY <1>2, <1>3, <1>4, <1>5, <1>6, <1>7

\* The cluster's row, and what counts the steps that are bounded.
CountsOK ==
  /\ cluster \in BOOLEAN /\ lost \in BOOLEAN
  /\ died \in BOOLEAN /\ dropped \in BOOLEAN
  /\ failures \in 0..MaxFailures /\ breaks \in 0..MaxBreaks
  /\ overlaps \in 0..MaxOverlaps

\* Every step leaves the counts within their bounds.
LEMMA CountsStep ==
  ASSUME Inv, [Next]_vars
  PROVE  CountsOK'
<1>1. CountsOK
  BY DEF Inv, TypeOK, CountsOK
<1>2. MaxFailures \in Nat /\ MaxBreaks \in Nat /\ MaxOverlaps \in Nat
  BY GraphAssumption
<1>3. cluster' \in BOOLEAN
  <2>1. cluster' = cluster \/ cluster' = TRUE
    BY DEF Next, Serve, vars, database, Emit, Post, Unreached, End, Timeout, Dies,
           SelectCluster,
           AddCluster, SelectRoot, AddRoot, SelectNode, SetStatus, SelectParent, AddNode,
           SelectDescendants, Adopt, Refresh, Broadcast, Fetch, Load, FailedReload,
           Subscribe, Reconnect, Merge
  <2> QED
    BY <1>1, <2>1 DEF CountsOK
<1>4. lost' \in BOOLEAN
  <2>1. lost' = lost \/ lost' \in BOOLEAN
    BY DEF Next, Serve, vars, ghosts, Emit, Post, Unreached, End, Timeout, Dies, SelectCluster,
           AddCluster, SelectRoot, AddRoot, SelectNode, SetStatus, SelectParent, AddNode, Add,
           SelectDescendants, Adopt, Refresh, Broadcast, Fetch, Load, FailedReload,
           Subscribe, Reconnect, Merge
  <2> QED
    BY <1>1, <2>1 DEF CountsOK
<1>5. failures' \in 0..MaxFailures
  <2>1. \/ failures' = failures
        \/ failures < MaxFailures /\ failures' = failures + 1
    BY DEF Next, Serve, vars, ghosts, Emit, Post, Unreached, End, Timeout, Dies, SelectCluster,
           AddCluster, SelectRoot, AddRoot, SelectNode, SetStatus, SelectParent, AddNode, Add,
           SelectDescendants, Adopt, Refresh, Broadcast, Fetch, Load, FailedReload,
           Subscribe, Reconnect, Merge
  <2> QED
    BY <1>1, <1>2, <2>1 DEF CountsOK
<1>6. breaks' \in 0..MaxBreaks
  <2>1. \/ breaks' = breaks
        \/ breaks < MaxBreaks /\ breaks' = breaks + 1
    BY DEF Next, Serve, vars, browser, Emit, Post, Unreached, End, Timeout, Dies, SelectCluster,
           AddCluster, SelectRoot, AddRoot, SelectNode, SetStatus, SelectParent, AddNode,
           SelectDescendants, Adopt, Refresh, Broadcast, Fetch, Load, FailedReload,
           Subscribe, Reconnect, Merge
  <2> QED
    BY <1>1, <1>2, <2>1 DEF CountsOK
<1>7. overlaps' \in 0..MaxOverlaps
  <2>1. \/ overlaps' = overlaps
        \/ overlaps' = overlaps + 1 /\ overlaps' <= MaxOverlaps
    BY DEF Next, Serve, vars, ghosts, Emit, Post, Unreached, End, Timeout, Dies, SelectCluster,
           AddCluster, SelectRoot, AddRoot, SelectNode, SetStatus, SelectParent, AddNode,
           SelectDescendants, Adopt, Refresh, Broadcast, Fetch, Load, FailedReload,
           Subscribe, Reconnect, Merge
  <2> QED
    BY <1>1, <1>2, <2>1 DEF CountsOK
<1>8. died' \in BOOLEAN /\ dropped' \in BOOLEAN
  <2>1. (died' = died \/ died' = TRUE) /\ (dropped' = dropped \/ dropped' \in BOOLEAN)
    BY DEF Next, Serve, vars, ghosts, Emit, Post, Unreached, End, Timeout, Dies, SelectCluster,
           AddCluster, SelectRoot, AddRoot, SelectNode, SetStatus, SelectParent, AddNode,
           SelectDescendants, Adopt, Refresh, Broadcast, Fetch, Load, FailedReload,
           Subscribe, Reconnect, Merge
  <2> QED
    BY <1>1, <2>1 DEF CountsOK
<1> QED
  BY <1>3, <1>4, <1>5, <1>6, <1>7, <1>8 DEF CountsOK

-----------------------------------------------------------------------------
\* The invariant holds at first, after every step, and so always.
LEMMA InvInit == Init => Inv
<1> SUFFICES ASSUME Init PROVE Inv
  OBVIOUS
<1>1. Nothing \in Graph /\ DOMAIN Nothing = {}
  BY NothingIs
<1>2. node = Nothing /\ Nodes = {}
  BY <1>1 DEF Init, Nodes
<1>3. request \in [Request -> Asked] /\ \A r \in Request : Knows(request[r], Nodes)
  BY IdleIs DEF Init
<1>4. /\ stage \in [URL -> 0..3] /\ queue \in [Sender -> Seq(Event)]
      /\ \A s \in Sender : Len(queue[s]) <= MaxQueued
  <2>1. <<>> \in Seq(Event) /\ Len(<<>>) = 0
    BY EmptySeq
  <2> QED
    BY <2>1, GraphAssumption DEF Init
<1>5. stream \in Seq(Update) /\ Len(stream) = 0
  BY EmptySeq DEF Init
<1>6. /\ view \in View /\ reload \in [Reload -> Copy]
      /\ view.node = Nothing /\ \A k \in Reload : reload[k].node = Nothing
  BY <1>1 DEF Init, View, Copy, NoCopy
<1>7. CountsOK
  <2>1. MaxFailures \in Nat /\ MaxBreaks \in Nat /\ MaxOverlaps \in Nat
    BY GraphAssumption
  <2>2. /\ cluster = FALSE /\ lost = FALSE /\ died = FALSE /\ dropped = FALSE
        /\ failures = 0 /\ breaks = 0 /\ overlaps = 0
    BY DEF Init
  <2>3. 0 \in 0..MaxFailures /\ 0 \in 0..MaxBreaks /\ 0 \in 0..MaxOverlaps
    BY <2>1
  <2>4. /\ cluster \in BOOLEAN /\ lost \in BOOLEAN /\ failures \in 0..MaxFailures
        /\ breaks \in 0..MaxBreaks /\ overlaps \in 0..MaxOverlaps
        /\ died \in BOOLEAN /\ dropped \in BOOLEAN
    BY <2>2, <2>3
  <2> QED
    BY <2>4 DEF CountsOK
<1>8. TypeOK
  <2>1. Len(stream) <= MaxUpdates
    BY <1>5, GraphAssumption
  <2> QED
    BY <1>1, <1>2, <1>3, <1>4, <1>5, <1>6, <1>7, <2>1
    DEF TypeOK, Event, Update, View, CountsOK
<1>9. Closed(view.node) /\ \A k \in Reload : Closed(reload[k].node)
  BY <1>1, <1>6 DEF Closed
<1> QED
  BY <1>2, <1>3, <1>5, <1>8, <1>9 DEF Inv, Rooted

LEMMA InvStep ==
  ASSUME Inv, [Next]_vars
  PROVE  Inv'
<1>1. RowsOK(node') /\ RequestsOK' /\ QueuesOK' /\ StreamOK' /\ BrowserOK' /\ CountsOK'
  BY RowsStep, RequestsStep, QueuesStep, StreamStep, BrowserStep, CountsStep
<1>2. TypeOK'
  BY <1>1 DEF TypeOK, RowsOK, RequestsOK, QueuesOK, StreamOK, BrowserOK, CountsOK, Event, Update, View
<1>3. Rooted' /\ (Root \in Nodes => node[Root].parent = Root)'
  BY <1>1 DEF Rooted, RowsOK, Nodes
<1> QED
  BY <1>1, <1>2, <1>3 DEF Inv, RequestsOK, StreamOK, BrowserOK

LEMMA InvHolds == Spec => []Inv
<1>1. Inv /\ UNCHANGED vars => Inv'
  BY InvStep
<1> QED
  BY InvInit, InvStep, PTL DEF Spec

\* Whatever processes, requests and failures do, every queue, row and request
\* has its type, and no queue outgrows its limit (extensions.py, main.py).
THEOREM TypeCorrect == Spec => []TypeOK
<1>1. Inv => TypeOK
  BY DEF Inv
<1> QED
  BY <1>1, InvHolds, PTL

\* However requests are interleaved between their statements, every node the
\* API keeps hangs off a node that exists and whose directory form its name
\* starts with (send_event's search for a parent and for descendants).
THEOREM RootedHolds == Spec => []Rooted
<1>1. Inv => Rooted
  BY DEF Inv
<1> QED
  BY <1>1, InvHolds, PTL

\* A parent has a segment less than the node.
Acyclic ==
  \A n \in Nodes \ {Root} : /\ node[n].parent \in Nodes
                            /\ Len(Base(node[n].parent)) < Len(Base(n))

\* The parents of the API's rows form no cycle, since each step to a parent
\* drops a segment, and every node leads to the root, although send_event
\* looks up, writes and adopts in statements of their own.
THEOREM AcyclicHolds == Spec => []Acyclic
<1>1. Inv => Acyclic
  <2> SUFFICES ASSUME Inv, NEW n \in Nodes \ {Root}
               PROVE  node[n].parent \in Nodes /\ Len(Base(node[n].parent)) < Len(Base(n))
    BY DEF Acyclic
  <2>1. node[n].parent \in Nodes /\ Below(node[n].parent, n)
    BY DEF Inv, Rooted
  <2>2. Nodes \subseteq Path
    BY GraphIs, Names DEF Inv, TypeOK, Nodes
  <2> QED
    BY <2>1, <2>2, BelowDeeper
<1> QED
  BY <1>1, InvHolds, PTL

\* Whatever updates the browser was not given, was given late, or found no
\* place for, every node it shows hangs off another it shows (merge).
THEOREM ViewIsTreeHolds == Spec => []ViewIsTree
<1>1. Inv => ViewIsTree
  BY DEF Inv, Closed, ViewIsTree
<1> QED
  BY <1>1, InvHolds, PTL
=============================================================================
