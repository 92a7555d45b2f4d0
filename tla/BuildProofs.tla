----------------------------- MODULE BuildProofs -----------------------------
(***************************************************************************)
(* Proofs about building a network (client.cpp, partgraph.cpp, graphio.cpp *)
(* with the tracker and the servers around the client), for every number   *)
(* of servers, every file the generator can write and every number of      *)
(* groups.                                                                 *)
(***************************************************************************)
EXTENDS Build, FiniteSetTheorems, SequenceTheorems, TLAPS

-----------------------------------------------------------------------------
(* Arithmetic of dealing: the j-th vertex of group p is node (j-1)n+p.     *)

\* Integer division rounds down.
LEMMA DivFacts ==
    ASSUME NEW n \in Nat \ {0}, NEW x \in Nat
    PROVE  /\ x \div n \in Nat /\ x % n \in 0 .. n - 1
           /\ x = n * (x \div n) + (x % n)
BY SMT

\* A factor less is at least n less.
LEMMA LessTimes ==
    ASSUME NEW n \in Nat \ {0}, NEW d \in Nat, NEW j \in Nat, d < j
    PROVE  n * d + n <= n * j
<1>1. PICK e \in Nat : j = d + 1 + e
  <2>1. j - d - 1 \in Nat /\ j = d + 1 + (j - d - 1)
    OBVIOUS
  <2>2. QED BY <2>1
<1>2. n * (d + 1 + e) = n * d + n + n * e /\ n * e \in Nat /\ n * d \in Nat
  BY SMT
<1>3. QED BY <1>1, <1>2

\* A quotient is at least q when q times the divisor fits.
LEMMA DivLe ==
    ASSUME NEW n \in Nat \ {0}, NEW x \in Nat, NEW j \in Nat
    PROVE  j <= x \div n <=> n * j <= x
<1> DEFINE d == x \div n
           r == x % n
<1>1. d \in Nat /\ r \in 0 .. n - 1 /\ x = n * d + r
  BY DivFacts
<1> HIDE DEF d, r
<1>2. n * d \in Nat /\ n * j \in Nat
  BY <1>1
<1>3. j < d => n * j + n <= n * d
  BY <1>1, LessTimes
<1>4. d < j => n * d + n <= n * j
  BY <1>1, LessTimes
<1>5. j = d => n * j = n * d
  OBVIOUS
<1>6. j <= d <=> n * j <= x
  BY <1>1, <1>2, <1>3, <1>4, <1>5
<1>7. QED BY <1>6 DEF d

Dealt(n, p, j) == (j - 1) * n + p

\* Every vertex of a group is a node of the file.
LEMMA DealtInRange ==
    ASSUME NEW n \in Nat \ {0}, NEW p \in 1 .. n, NEW L \in Nat, NEW j \in Nat \ {0}
    PROVE  j \in 1 .. (L + n - p) \div n <=> Dealt(n, p, j) \in 1 .. L
<1>1. L + n - p \in Nat
  OBVIOUS
<1>2. (L + n - p) \div n \in Nat /\ (j <= (L + n - p) \div n <=> n * j <= L + n - p)
  BY <1>1, DivFacts, DivLe
<1>3. (j - 1) * n = n * j - n /\ n * j \in Nat /\ (j - 1) * n \in Nat
  BY SMT
<1>4. QED BY <1>2, <1>3 DEF Dealt

\* No node is dealt to two places.
LEMMA DealtOnce ==
    ASSUME NEW n \in Nat \ {0}, NEW p \in 1 .. n, NEW j \in Nat \ {0},
           NEW q \in 1 .. n, NEW h \in Nat \ {0}, Dealt(n, p, j) = Dealt(n, q, h)
    PROVE  p = q /\ j = h
<1>1. /\ (j - 1) * n = n * j - n /\ n * j \in Nat
      /\ (h - 1) * n = n * h - n /\ n * h \in Nat
  BY SMT
<1>2. n * j + p = n * h + q
  BY <1>1 DEF Dealt
<1>3. ~(j < h)
  BY <1>1, <1>2, LessTimes
<1>4. ~(h < j)
  BY <1>1, <1>2, LessTimes
<1>5. j = h
  BY <1>3, <1>4
<1>6. QED BY <1>1, <1>2, <1>5

\* Every node is dealt to some place.
LEMMA DealtAll ==
    ASSUME NEW n \in Nat \ {0}, NEW i \in Nat \ {0}
    PROVE  \E p \in 1 .. n, j \in Nat \ {0} : Dealt(n, p, j) = i
<1> DEFINE d == (i - 1) \div n
           r == (i - 1) % n
<1>1. d \in Nat /\ r \in 0 .. n - 1 /\ i - 1 = n * d + r
  <2>1. i - 1 \in Nat
    OBVIOUS
  <2>2. QED BY <2>1, DivFacts
<1> HIDE DEF d, r
<1>2. r + 1 \in 1 .. n /\ d + 1 \in Nat \ {0}
  BY <1>1
<1>3. ((d + 1) - 1) * n = n * d /\ n * d \in Nat
  BY <1>1, SMT
<1>4. Dealt(n, r + 1, d + 1) = i
  BY <1>1, <1>3 DEF Dealt
<1>5. QED BY <1>2, <1>4

-----------------------------------------------------------------------------
(* Files, and what is read back from them.                                 *)

Node == [id : Nat, label : Int]
Edge == [from : Nat, to : Nat, label : Int]

\* g draws the graph of the generated file f: its nodes, in any order and with
\* any label, and its edges, those with a weight above 0 being the same.
Drawn(g, f) ==
    /\ g.nodes \in Seq(Node) /\ g.edges \in Seq(Edge)
    /\ Len(g.nodes) = Len(f.nodes) /\ Len(g.edges) = Len(f.edges)
    /\ \A i \in 1 .. Len(g.nodes) : g.nodes[i].id \in 1 .. Len(f.nodes)
    /\ \A i, h \in 1 .. Len(g.nodes) : g.nodes[i].id = g.nodes[h].id => i = h
    /\ \A n \in 1 .. Len(f.nodes) : \E i \in 1 .. Len(g.nodes) : g.nodes[i].id = n
    /\ \A j \in 1 .. Len(g.edges) :
        /\ g.edges[j].from = f.edges[j].from /\ g.edges[j].to = f.edges[j].to
        /\ g.edges[j].label > 0 <=> f.edges[j].label > 0

\* What IsGenerated says of a file, and that its ids are reserved ones.
LEMMA FileFacts ==
    ASSUME NEW f \in Files
    PROVE  /\ f.nodes \in Seq(Node) /\ f.edges \in Seq(Edge)
           /\ Len(f.nodes) \in Nat /\ Len(f.edges) \in Nat
           /\ DOMAIN f.nodes = 1 .. Len(f.nodes) /\ DOMAIN f.edges = 1 .. Len(f.edges)
           /\ \A i \in 1 .. Len(f.nodes) : f.nodes[i].id = i
           /\ \A j \in 1 .. Len(f.edges) : /\ f.edges[j].from \in 1 .. Len(f.nodes)
                                           /\ f.edges[j].to \in 1 .. Len(f.nodes)
           /\ 1 .. Len(f.nodes) \subseteq Reserved
<1>1. f \in [nodes : Seq([id : Nat, label : Int]),
             edges : Seq([from : Nat, to : Nat, label : Nat])]
  BY FilesAssumption DEF IsGenerated
<1>2. f.nodes \in Seq(Node) /\ f.edges \in Seq([from : Nat, to : Nat, label : Nat])
  BY <1>1 DEF Node
<1>3. f.edges \in Seq(Edge)
  <2>1. [from : Nat, to : Nat, label : Nat] \subseteq Edge
    BY DEF Edge
  <2>2. QED BY <1>2, <2>1, SeqMonotonic
<1>4. /\ Len(f.nodes) \in Nat /\ Len(f.edges) \in Nat
      /\ DOMAIN f.nodes = 1 .. Len(f.nodes) /\ DOMAIN f.edges = 1 .. Len(f.edges)
  BY <1>2, <1>3, LenProperties
<1>5. \A i \in 1 .. Len(f.nodes) : f.nodes[i].id = i
  BY FilesAssumption DEF IsGenerated
<1>6. \A j \in 1 .. Len(f.edges) : /\ f.edges[j].from \in 1 .. Len(f.nodes)
                                   /\ f.edges[j].to \in 1 .. Len(f.nodes)
  BY <1>4, FilesAssumption DEF IsGenerated
<1>7. 1 .. Len(f.nodes) \subseteq Reserved
  BY <1>4, NodesAssumption, IdAssumption DEF Reserved
<1>8. QED BY <1>2, <1>3, <1>4, <1>5, <1>6, <1>7

\* A file draws its own graph.
LEMMA SourceDrawn ==
    ASSUME NEW f \in Files
    PROVE  Drawn(f, f)
BY FileFacts DEF Drawn

\* Parsing a line keeps ids and the sign of a weight above 0.
LEMMA LineRead ==
    /\ \A line \in Node :
        LET new == [line EXCEPT !.label = ParseLabel(@)]
        IN  new \in Node /\ new.id = line.id
    /\ \A line \in Edge :
        LET new == [line EXCEPT !.label = ParseLabel(@)]
        IN  /\ new \in Edge /\ new.from = line.from /\ new.to = line.to
            /\ new.label > 0 <=> line.label > 0
<1>1. ASSUME NEW line \in Node
      PROVE  LET new == [line EXCEPT !.label = ParseLabel(@)]
             IN  new \in Node /\ new.id = line.id
  <2>1. line = [id |-> line.id, label |-> line.label] /\ line.id \in Nat /\ line.label \in Int
    BY DEF Node
  <2>2. ParseLabel(line.label) \in Int
    BY <2>1 DEF ParseLabel
  <2>3. [line EXCEPT !.label = ParseLabel(@)] = [id |-> line.id, label |-> ParseLabel(line.label)]
    BY <2>1
  <2>4. QED BY <2>1, <2>2, <2>3 DEF Node
<1>2. ASSUME NEW line \in Edge
      PROVE  LET new == [line EXCEPT !.label = ParseLabel(@)]
             IN  /\ new \in Edge /\ new.from = line.from /\ new.to = line.to
                 /\ new.label > 0 <=> line.label > 0
  <2>1. /\ line = [from |-> line.from, to |-> line.to, label |-> line.label]
        /\ line.from \in Nat /\ line.to \in Nat /\ line.label \in Int
    BY DEF Edge
  <2>2. /\ ParseLabel(line.label) \in Int
        /\ ParseLabel(line.label) > 0 <=> line.label > 0
    BY <2>1 DEF ParseLabel
  <2>3. [line EXCEPT !.label = ParseLabel(@)]
            = [from |-> line.from, to |-> line.to, label |-> ParseLabel(line.label)]
    BY <2>1
  <2>4. QED BY <2>1, <2>2, <2>3 DEF Edge
<1>3. QED BY <1>1, <1>2

\* Parse keeps ids, order and ends, and turns the label 0 into -1.
LEMMA ParseFacts ==
    ASSUME NEW g, g.nodes \in Seq(Node), g.edges \in Seq(Edge)
    PROVE  /\ Parse(g).nodes \in Seq(Node) /\ Parse(g).edges \in Seq(Edge)
           /\ Len(Parse(g).nodes) = Len(g.nodes) /\ Len(Parse(g).edges) = Len(g.edges)
           /\ \A i \in 1 .. Len(g.nodes) : Parse(g).nodes[i].id = g.nodes[i].id
           /\ \A j \in 1 .. Len(g.edges) :
                /\ Parse(g).edges[j].from = g.edges[j].from
                /\ Parse(g).edges[j].to = g.edges[j].to
                /\ Parse(g).edges[j].label > 0 <=> g.edges[j].label > 0
<1> DEFINE N == Len(g.nodes)
           E == Len(g.edges)
           Read(line) == [line EXCEPT !.label = ParseLabel(@)]
           nodes == [i \in 1 .. N |-> Read(g.nodes[i])]
           edges == [j \in 1 .. E |-> Read(g.edges[j])]
<1>1. /\ N \in Nat /\ DOMAIN g.nodes = 1 .. N
      /\ E \in Nat /\ DOMAIN g.edges = 1 .. E
  BY LenProperties
<1>2. \A i \in 1 .. N : g.nodes[i] \in Node
  BY ElementOfSeq
<1>3. \A j \in 1 .. E : g.edges[j] \in Edge
  BY ElementOfSeq
<1>4. Parse(g) = [nodes |-> nodes, edges |-> edges]
  BY <1>1 DEF Parse
<1>5. \A i \in 1 .. N : Read(g.nodes[i]) \in Node /\ Read(g.nodes[i]).id = g.nodes[i].id
  BY <1>2, LineRead
<1>6. \A j \in 1 .. E : /\ Read(g.edges[j]) \in Edge
                        /\ Read(g.edges[j]).from = g.edges[j].from
                        /\ Read(g.edges[j]).to = g.edges[j].to
                        /\ Read(g.edges[j]).label > 0 <=> g.edges[j].label > 0
  BY <1>3, LineRead
<1> HIDE DEF N, E, Read
<1>7. nodes \in [1 .. N -> Node] /\ edges \in [1 .. E -> Edge]
  BY <1>5, <1>6
<1>8. nodes \in Seq(Node) /\ edges \in Seq(Edge)
  BY <1>1, <1>7, SeqDef
<1>9. Len(nodes) = N /\ Len(edges) = E
  BY <1>1, <1>7, <1>8, LenProperties
<1>10. Parse(g).nodes = nodes /\ Parse(g).edges = edges
  BY <1>4
<1>11. \A i \in 1 .. N : nodes[i].id = g.nodes[i].id
  BY <1>5
<1>12. \A j \in 1 .. E : /\ edges[j].from = g.edges[j].from
                         /\ edges[j].to = g.edges[j].to
                         /\ edges[j].label > 0 <=> g.edges[j].label > 0
  BY <1>6
<1> HIDE DEF nodes, edges
<1>13. QED BY <1>8, <1>9, <1>10, <1>11, <1>12 DEF N, E

\* Parse (graphio.cpp) keeps the graph that is drawn.
LEMMA ParseDrawn ==
    ASSUME NEW f \in Files, NEW g, Drawn(g, f)
    PROVE  Drawn(Parse(g), f)
<1>1. g.nodes \in Seq(Node) /\ g.edges \in Seq(Edge)
  BY DEF Drawn
<1> DEFINE h == Parse(g)
<1>2. /\ h.nodes \in Seq(Node) /\ h.edges \in Seq(Edge)
      /\ Len(h.nodes) = Len(g.nodes) /\ Len(h.edges) = Len(g.edges)
      /\ \A i \in 1 .. Len(g.nodes) : h.nodes[i].id = g.nodes[i].id
      /\ \A j \in 1 .. Len(g.edges) :
            /\ h.edges[j].from = g.edges[j].from /\ h.edges[j].to = g.edges[j].to
            /\ h.edges[j].label > 0 <=> g.edges[j].label > 0
  BY <1>1, ParseFacts
<1> HIDE DEF h
<1>3. Len(g.nodes) \in Nat /\ Len(g.edges) \in Nat
  BY <1>1, LenProperties
<1>4. /\ \A i \in 1 .. Len(h.nodes) : h.nodes[i].id \in 1 .. Len(f.nodes)
      /\ \A i, x \in 1 .. Len(h.nodes) : h.nodes[i].id = h.nodes[x].id => i = x
      /\ \A n \in 1 .. Len(f.nodes) : \E i \in 1 .. Len(h.nodes) : h.nodes[i].id = n
  <2>1. /\ \A i \in 1 .. Len(g.nodes) : g.nodes[i].id \in 1 .. Len(f.nodes)
        /\ \A i, x \in 1 .. Len(g.nodes) : g.nodes[i].id = g.nodes[x].id => i = x
        /\ \A n \in 1 .. Len(f.nodes) : \E i \in 1 .. Len(g.nodes) : g.nodes[i].id = n
    BY DEF Drawn
  <2>2. QED BY <1>2, <2>1
<1>5. \A j \in 1 .. Len(h.edges) :
        /\ h.edges[j].from = f.edges[j].from /\ h.edges[j].to = f.edges[j].to
        /\ h.edges[j].label > 0 <=> f.edges[j].label > 0
  <2>1. \A j \in 1 .. Len(g.edges) :
            /\ g.edges[j].from = f.edges[j].from /\ g.edges[j].to = f.edges[j].to
            /\ g.edges[j].label > 0 <=> f.edges[j].label > 0
    BY DEF Drawn
  <2>2. QED BY <1>2, <2>1
<1>6. Len(h.nodes) = Len(f.nodes) /\ Len(h.edges) = Len(f.edges)
  BY <1>2 DEF Drawn
<1>7. Drawn(h, f)
  BY <1>2, <1>4, <1>5, <1>6 DEF Drawn
<1>8. QED BY <1>7 DEF h

-----------------------------------------------------------------------------
(* The optimizer.                                                          *)

\* Every place holds a vertex of the file and no vertex is in two places; all
\* are in one.
AllInPlace(parts, f) ==
    /\ DOMAIN parts \subseteq Nat \ {0} /\ IsFiniteSet(DOMAIN parts)
    /\ \A p \in DOMAIN parts : DOMAIN parts[p] \subseteq 1 .. Len(f.nodes)
    /\ IsFiniteSet(Places(parts)) /\ Cardinality(Places(parts)) = Len(f.nodes)
    /\ \A x \in Places(parts) : \E i \in 1 .. Len(f.nodes) :
            parts[x[1]][x[2]] = VertexOf(Parse(f), i)
    /\ \A i \in 1 .. Len(f.nodes) : \E x \in Places(parts) :
            parts[x[1]][x[2]] = VertexOf(Parse(f), i)
    /\ \A x, y \in Places(parts) :
            parts[x[1]][x[2]].id = parts[y[1]][y[2]].id => x = y

\* A place is a group and a position in it.
LEMMA PlaceFacts ==
    ASSUME NEW parts
    PROVE  /\ \A p \in DOMAIN parts : \A a \in DOMAIN parts[p] : <<p, a>> \in Places(parts)
           /\ \A x \in Places(parts) : /\ x = <<x[1], x[2]>>
                                       /\ x[1] \in DOMAIN parts
                                       /\ x[2] \in DOMAIN parts[x[1]]
BY DEF Places

\* A vertex has its node's id, and that node's edges.
LEMMA VertexFacts ==
    ASSUME NEW f \in Files, NEW i \in 1 .. Len(f.nodes)
    PROVE  /\ VertexOf(Parse(f), i).id = i
           /\ DOMAIN VertexOf(Parse(f), i).edges \subseteq 1 .. Len(f.edges)
<1>1. f.nodes \in Seq(Node) /\ f.edges \in Seq(Edge) /\ f.nodes[i].id = i
  BY FileFacts
<1>2. Parse(f).nodes[i].id = i
  BY <1>1, ParseFacts
<1>3. Parse(f).edges \in Seq(Edge) /\ Len(Parse(f).edges) = Len(f.edges)
  BY <1>1, ParseFacts
<1>4. DOMAIN Parse(f).edges = 1 .. Len(f.edges)
  BY <1>3, LenProperties
<1>5. DOMAIN Targets(Parse(f).edges, i) \subseteq 1 .. Len(f.edges)
  BY <1>4 DEF Targets
<1>6. QED BY <1>2, <1>5 DEF VertexOf

\* loadGraph (partgraph.cpp) deals every node out exactly once.
LEMMA LoadInPlace ==
    ASSUME NEW f \in Files, NEW n \in groupCounts
    PROVE  AllInPlace([p \in 1 .. n |->
                [j \in 1 .. (Len(f.nodes) + n - p) \div n |->
                    VertexOf(Parse(f), Dealt(n, p, j))]], f)
<1> DEFINE L == Len(f.nodes)
           Size(p) == (L + n - p) \div n
           Group(p) == [j \in 1 .. Size(p) |-> VertexOf(Parse(f), Dealt(n, p, j))]
           parts == [p \in 1 .. n |-> Group(p)]
           P == Places(parts)
           number == [x \in P |-> Dealt(n, x[1], x[2])]
<1>1. n \in Nat \ {0} /\ L \in Nat
  BY GroupAssumption, FileFacts
<1>2. \A p \in 1 .. n : 1 .. Size(p) \subseteq Nat \ {0}
  <2>1. TAKE p \in 1 .. n
  <2>2. L + n - p \in Nat
    BY <1>1
  <2>3. Size(p) \in Nat
    BY <1>1, <2>2, DivFacts
  <2>4. QED BY <2>3
<1>3. \A p \in 1 .. n, j \in Nat \ {0} : j \in 1 .. Size(p) <=> Dealt(n, p, j) \in 1 .. L
  BY <1>1, DealtInRange
<1> HIDE DEF Size, L
<1>4. \A p \in 1 .. n : \A j \in 1 .. Size(p) : j \in 1 .. L
  <2>1. SUFFICES ASSUME NEW p \in 1 .. n, NEW j \in 1 .. Size(p)
                 PROVE  j \in 1 .. L
    OBVIOUS
  <2>2. j \in Nat \ {0} /\ (j - 1) * n + p \in 1 .. L
    BY <1>2, <1>3 DEF Dealt
  <2>3. j - 1 <= (j - 1) * n
    <3>1. \A m \in Nat : m <= m * n
      BY <1>1
    <3>2. j - 1 \in Nat
      BY <2>2
    <3>3. QED BY <3>1, <3>2
  <2>4. (j - 1) * n \in Nat
    BY <1>1, <2>2
  <2>5. QED BY <1>1, <2>2, <2>3, <2>4
<1>5. DOMAIN parts = 1 .. n /\ \A p \in 1 .. n : DOMAIN parts[p] = 1 .. Size(p)
  OBVIOUS
<1>6. \A x \in P : /\ x = <<x[1], x[2]>> /\ x[1] \in 1 .. n /\ x[2] \in 1 .. Size(x[1])
                   /\ x[2] \in Nat \ {0}
                   /\ parts[x[1]][x[2]] = VertexOf(Parse(f), Dealt(n, x[1], x[2]))
  <2>1. \A x \in P : /\ x = <<x[1], x[2]>> /\ x[1] \in 1 .. n /\ x[2] \in 1 .. Size(x[1])
    BY <1>5, PlaceFacts
  <2>2. QED BY <1>2, <2>1
<1>7. \A p \in 1 .. n : \A j \in 1 .. Size(p) : <<p, j>> \in P
  BY <1>5, PlaceFacts
<1> HIDE DEF parts, P
<1>8. number \in [P -> 1 .. L]
  BY <1>3, <1>6
<1>9. \A x, y \in P : number[x] = number[y] => x = y
  <2>1. SUFFICES ASSUME NEW x \in P, NEW y \in P,
                        Dealt(n, x[1], x[2]) = Dealt(n, y[1], y[2])
                 PROVE  x = y
    OBVIOUS
  <2>2. x[1] = y[1] /\ x[2] = y[2]
    BY <1>1, <1>6, <2>1, DealtOnce
  <2>3. QED BY <1>6, <2>2
<1>10. \A i \in 1 .. L : \E x \in P : number[x] = i
  <2>1. TAKE i \in 1 .. L
  <2>2. PICK p \in 1 .. n, j \in Nat \ {0} : Dealt(n, p, j) = i
    <3>1. i \in Nat \ {0}
      BY <1>1
    <3>2. QED BY <1>1, <3>1, DealtAll
  <2>3. <<p, j>> \in P
    BY <1>3, <1>7, <2>2
  <2>4. number[<<p, j>>] = i
    BY <2>2, <2>3
  <2>5. QED BY <2>3, <2>4
<1>11. IsFiniteSet(P) /\ Cardinality(P) = L
  <2>1. number \in Injection(P, 1 .. L)
    BY <1>8, <1>9 DEF Injection, IsInjective
  <2>2. number \in Surjection(P, 1 .. L)
    BY <1>8, <1>10 DEF Surjection
  <2>3. IsFiniteSet(1 .. L) /\ Cardinality(1 .. L) = L
    BY <1>1, FS_Interval
  <2>4. QED BY <2>1, <2>2, <2>3, FS_Injection
<1>12. \A x \in P : number[x] \in 1 .. L /\ parts[x[1]][x[2]] = VertexOf(Parse(f), number[x])
  BY <1>6, <1>8
<1>13. \A x \in P : parts[x[1]][x[2]].id = number[x]
  BY <1>12, VertexFacts DEF L
<1> HIDE DEF number
<1>14. \A x \in P : \E i \in 1 .. L : parts[x[1]][x[2]] = VertexOf(Parse(f), i)
  BY <1>12
<1>15. \A i \in 1 .. L : \E x \in P : parts[x[1]][x[2]] = VertexOf(Parse(f), i)
  BY <1>10, <1>12
<1>16. \A x, y \in P : parts[x[1]][x[2]].id = parts[y[1]][y[2]].id => x = y
  BY <1>9, <1>13
<1>17. IsFiniteSet(1 .. n) /\ 1 .. n \subseteq Nat \ {0}
  BY <1>1, FS_Interval
<1>18. \A p \in 1 .. n : 1 .. Size(p) \subseteq 1 .. L
  BY <1>4
<1>19. AllInPlace(parts, f)
  BY <1>5, <1>11, <1>14, <1>15, <1>16, <1>17, <1>18 DEF AllInPlace, P, L
<1>20. QED BY <1>19 DEF parts, Size, L

\* What Vertex::swap does: the places stay, and their vertices are the same but
\* for two that change places.
SwapOf(tried, parts, p, a, q, b) ==
    /\ DOMAIN tried = DOMAIN parts
    /\ \A r \in DOMAIN parts : DOMAIN tried[r] = DOMAIN parts[r]
    /\ Places(tried) = Places(parts)
    /\ \A r \in DOMAIN parts \ {p, q} : tried[r] = parts[r]
    /\ tried[p][a] = parts[q][b] /\ tried[q][b] = parts[p][a]
    /\ \A x \in Places(parts) : (x # <<p, a>> /\ x # <<q, b>>)
         => tried[x[1]][x[2]] = parts[x[1]][x[2]]

\* Vertex::swap moves two vertices and touches no other.
LEMMA SwapFacts ==
    ASSUME NEW parts, NEW p \in DOMAIN parts, NEW q \in DOMAIN parts, p # q,
           NEW a \in DOMAIN parts[p], NEW b \in DOMAIN parts[q]
    PROVE  SwapOf([parts EXCEPT ![p][a] = parts[q][b], ![q][b] = parts[p][a]],
                  parts, p, a, q, b)
<1> DEFINE tried == [parts EXCEPT ![p][a] = parts[q][b], ![q][b] = parts[p][a]]
<1>1. DOMAIN tried = DOMAIN parts
  OBVIOUS
<1>2. tried[p] = [parts[p] EXCEPT ![a] = parts[q][b]]
  OBVIOUS
<1>3. tried[q] = [parts[q] EXCEPT ![b] = parts[p][a]]
  OBVIOUS
<1>4. \A r \in DOMAIN parts \ {p, q} : tried[r] = parts[r]
  OBVIOUS
<1>5. \A r \in DOMAIN parts : DOMAIN tried[r] = DOMAIN parts[r]
  BY <1>2, <1>3, <1>4
<1>6. Places(tried) = Places(parts)
  <2> HIDE DEF tried
  <2>1. QED BY <1>1, <1>5 DEF Places
<1>7. \A x \in Places(parts) : (x # <<p, a>> /\ x # <<q, b>>)
                => tried[x[1]][x[2]] = parts[x[1]][x[2]]
  <2>1. SUFFICES ASSUME NEW x \in Places(parts), x # <<p, a>>, x # <<q, b>>
                 PROVE  tried[x[1]][x[2]] = parts[x[1]][x[2]]
    OBVIOUS
  <2>2. x = <<x[1], x[2]>> /\ x[1] \in DOMAIN parts /\ x[2] \in DOMAIN parts[x[1]]
    BY PlaceFacts
  <2>3. CASE x[1] = p
    BY <1>2, <2>1, <2>2, <2>3
  <2>4. CASE x[1] = q
    BY <1>3, <2>1, <2>2, <2>4
  <2>5. QED BY <1>4, <2>2, <2>3, <2>4
<1>8. tried[p][a] = parts[q][b] /\ tried[q][b] = parts[p][a]
  BY <1>2, <1>3
<1> HIDE DEF tried
<1>9. SwapOf(tried, parts, p, a, q, b)
  BY <1>1, <1>4, <1>5, <1>6, <1>7, <1>8 DEF SwapOf
<1>10. QED BY <1>9 DEF tried

\* A swap loses and repeats no vertex.
LEMMA SwapInPlace ==
    ASSUME NEW f, NEW parts, AllInPlace(parts, f),
           NEW p \in DOMAIN parts, NEW q \in DOMAIN parts, p # q,
           NEW a \in DOMAIN parts[p], NEW b \in DOMAIN parts[q],
           NEW tried, SwapOf(tried, parts, p, a, q, b)
    PROVE  AllInPlace(tried, f)
<1> DEFINE P == Places(parts)
           from(x) == IF x = <<p, a>> THEN <<q, b>> ELSE IF x = <<q, b>> THEN <<p, a>> ELSE x
<1>1. <<p, a>> \in P /\ <<q, b>> \in P
  BY PlaceFacts
<1>2. \A x \in P : /\ from(x) \in P /\ from(from(x)) = x
                   /\ tried[x[1]][x[2]] = parts[from(x)[1]][from(x)[2]]
  BY <1>1 DEF SwapOf
<1>3. \A x, y \in P : from(x) = from(y) => x = y
  BY <1>2
<1> HIDE DEF from
<1>4. /\ \A x \in P : \E i \in 1 .. Len(f.nodes) : parts[x[1]][x[2]] = VertexOf(Parse(f), i)
      /\ \A i \in 1 .. Len(f.nodes) : \E x \in P : parts[x[1]][x[2]] = VertexOf(Parse(f), i)
      /\ \A x, y \in P : parts[x[1]][x[2]].id = parts[y[1]][y[2]].id => x = y
  BY DEF AllInPlace
<1>5. Places(tried) = P /\ DOMAIN tried = DOMAIN parts
      /\ \A r \in DOMAIN parts : DOMAIN tried[r] = DOMAIN parts[r]
  BY DEF SwapOf
<1> HIDE DEF P
<1>6. \A x \in P : \E i \in 1 .. Len(f.nodes) : tried[x[1]][x[2]] = VertexOf(Parse(f), i)
  <2>1. TAKE x \in P
  <2>2. from(x) \in P /\ tried[x[1]][x[2]] = parts[from(x)[1]][from(x)[2]]
    BY <1>2
  <2>3. PICK i \in 1 .. Len(f.nodes) : parts[from(x)[1]][from(x)[2]] = VertexOf(Parse(f), i)
    BY <1>4, <2>2
  <2>4. QED BY <2>2, <2>3
<1>7. \A i \in 1 .. Len(f.nodes) : \E x \in P : tried[x[1]][x[2]] = VertexOf(Parse(f), i)
  <2>1. TAKE i \in 1 .. Len(f.nodes)
  <2>2. PICK x \in P : parts[x[1]][x[2]] = VertexOf(Parse(f), i)
    BY <1>4
  <2>3. from(x) \in P /\ tried[from(x)[1]][from(x)[2]] = parts[x[1]][x[2]]
    BY <1>2
  <2>4. QED BY <2>2, <2>3
<1>8. \A x, y \in P : tried[x[1]][x[2]].id = tried[y[1]][y[2]].id => x = y
  <2>1. SUFFICES ASSUME NEW x \in P, NEW y \in P,
                        tried[x[1]][x[2]].id = tried[y[1]][y[2]].id
                 PROVE  x = y
    OBVIOUS
  <2>2. parts[from(x)[1]][from(x)[2]].id = parts[from(y)[1]][from(y)[2]].id
    BY <1>2, <2>1
  <2>3. from(x) = from(y)
    BY <1>2, <1>4, <2>2
  <2>4. QED BY <1>3, <2>3
<1>9. /\ DOMAIN parts \subseteq Nat \ {0} /\ IsFiniteSet(DOMAIN parts)
      /\ \A r \in DOMAIN parts : DOMAIN parts[r] \subseteq 1 .. Len(f.nodes)
      /\ IsFiniteSet(P) /\ Cardinality(P) = Len(f.nodes)
  BY DEF AllInPlace, P
<1>10. QED BY <1>5, <1>6, <1>7, <1>8, <1>9 DEF AllInPlace

-----------------------------------------------------------------------------
(* Counting the edges between groups.                                      *)

\* The external edges of all groups but two.
OtherEdges(parts, p, q) ==
    UNION { {r} \X HyperEdges(parts[r]) : r \in DOMAIN parts \ {p, q} }

\* Finitely many pairs of a position and an edge.
LEMMA PairsFinite ==
    ASSUME NEW f \in Files
    PROVE  IsFiniteSet((1 .. Len(f.nodes)) \X (1 .. Len(f.edges)))
<1>1. Len(f.nodes) \in Nat /\ Len(f.edges) \in Nat
  BY FileFacts
<1>2. \A n \in Nat : IsFiniteSet(1 .. n)
  BY FS_Interval
<1>3. IsFiniteSet(1 .. Len(f.nodes)) /\ IsFiniteSet(1 .. Len(f.edges))
  BY <1>1, <1>2
<1>4. QED BY <1>3, FS_Product

\* countHyperEdges counts a finite set.
LEMMA HyperEdgesFinite ==
    ASSUME NEW f \in Files, NEW parts, AllInPlace(parts, f), NEW r \in DOMAIN parts
    PROVE  HyperEdges(parts[r]) \subseteq (1 .. Len(f.nodes)) \X (1 .. Len(f.edges))
<1>1. SUFFICES ASSUME NEW a \in DOMAIN parts[r], NEW j \in DOMAIN parts[r][a].edges
               PROVE  a \in 1 .. Len(f.nodes) /\ j \in 1 .. Len(f.edges)
  BY DEF HyperEdges
<1>2. a \in 1 .. Len(f.nodes)
  BY DEF AllInPlace
<1>3. <<r, a>> \in Places(parts)
  BY PlaceFacts
<1>4. \A x \in Places(parts) : \E i \in 1 .. Len(f.nodes) :
            parts[x[1]][x[2]] = VertexOf(Parse(f), i)
  BY DEF AllInPlace
<1>5. PICK i \in 1 .. Len(f.nodes) : parts[r][a] = VertexOf(Parse(f), i)
  BY <1>3, <1>4
<1>6. DOMAIN VertexOf(Parse(f), i).edges \subseteq 1 .. Len(f.edges)
  BY VertexFacts
<1>7. QED BY <1>2, <1>5, <1>6

\* The number of external edges of all groups is a number.
LEMMA TotalNat ==
    ASSUME NEW f \in Files, NEW parts, AllInPlace(parts, f)
    PROVE  TotalEdges(parts) \in Nat
<1> DEFINE R == (1 .. Len(f.nodes)) \X (1 .. Len(f.edges))
           U == UNION { {r} \X HyperEdges(parts[r]) : r \in DOMAIN parts }
<1>1. IsFiniteSet(R)
  BY PairsFinite
<1>2. \A r \in DOMAIN parts : HyperEdges(parts[r]) \subseteq R
  BY HyperEdgesFinite
<1> HIDE DEF R
<1>3. U \subseteq (DOMAIN parts) \X R
  BY <1>2
<1>4. IsFiniteSet((DOMAIN parts) \X R)
  BY <1>1, FS_Product DEF AllInPlace
<1>5. IsFiniteSet(U)
  BY <1>3, <1>4, FS_Subset
<1>6. Cardinality(U) \in Nat
  BY <1>5, FS_CardinalityType
<1>7. QED BY <1>6 DEF TotalEdges

\* It is that of any two groups and that of the others.
LEMMA TotalSplit ==
    ASSUME NEW f \in Files, NEW parts, AllInPlace(parts, f),
           NEW p \in DOMAIN parts, NEW q \in DOMAIN parts, p # q
    PROVE  /\ Cardinality(OtherEdges(parts, p, q)) \in Nat
           /\ countHyperEdges(parts[p]) \in Nat /\ countHyperEdges(parts[q]) \in Nat
           /\ TotalEdges(parts) = Cardinality(OtherEdges(parts, p, q))
                                    + countHyperEdges(parts[p]) + countHyperEdges(parts[q])
<1> DEFINE H(r) == HyperEdges(parts[r])
           R == (1 .. Len(f.nodes)) \X (1 .. Len(f.edges))
           D == DOMAIN parts
           Rest == UNION { {r} \X H(r) : r \in D \ {p, q} }
           U == ({p} \X H(p)) \cup ({q} \X H(q))
<1>1. IsFiniteSet(R)
  BY PairsFinite
<1>2. \A r \in D : H(r) \subseteq R
  BY HyperEdgesFinite
<1> HIDE DEF H, R
<1>3. \A r \in D : IsFiniteSet(H(r))
  BY <1>1, <1>2, FS_Subset
<1>4. IsFiniteSet(D)
  BY DEF AllInPlace
<1>5. IsFiniteSet(Rest)
  <2>1. IsFiniteSet(D \X R)
    BY <1>1, <1>4, FS_Product
  <2>2. Rest \subseteq D \X R
    BY <1>2
  <2>3. QED BY <2>1, <2>2, FS_Subset
<1>6. \A r \in D : /\ IsFiniteSet({r} \X H(r))
                   /\ Cardinality({r} \X H(r)) = Cardinality(H(r))
                   /\ Cardinality(H(r)) \in Nat
  <2>1. TAKE r \in D
  <2>2. IsFiniteSet({r}) /\ Cardinality({r}) = 1
    BY FS_Singleton
  <2>3. Cardinality(H(r)) \in Nat
    BY <1>3, FS_CardinalityType
  <2>4. /\ IsFiniteSet({r} \X H(r))
        /\ Cardinality({r} \X H(r)) = Cardinality({r}) * Cardinality(H(r))
    BY <1>3, <2>2, FS_Product
  <2>5. QED BY <2>2, <2>3, <2>4
<1>7. IsFiniteSet(U) /\ Cardinality(U) = Cardinality(H(p)) + Cardinality(H(q))
  <2>1. ({p} \X H(p)) \cap ({q} \X H(q)) = {}
    OBVIOUS
  <2>2. /\ IsFiniteSet(U)
        /\ Cardinality(U) = Cardinality({p} \X H(p)) + Cardinality({q} \X H(q))
                            - Cardinality(({p} \X H(p)) \cap ({q} \X H(q)))
    BY <1>6, FS_Union
  <2>3. Cardinality(({p} \X H(p)) \cap ({q} \X H(q))) = 0
    BY <2>1, FS_EmptySet
  <2>4. /\ Cardinality({p} \X H(p)) = Cardinality(H(p)) /\ Cardinality(H(p)) \in Nat
        /\ Cardinality({q} \X H(q)) = Cardinality(H(q)) /\ Cardinality(H(q)) \in Nat
    BY <1>6
  <2> HIDE DEF U
  <2>5. QED BY <2>2, <2>3, <2>4
<1>8. Cardinality(Rest) \in Nat /\ Cardinality(Rest \cup U) = Cardinality(Rest) + Cardinality(U)
  <2>1. Rest \cap U = {}
    OBVIOUS
  <2>2. Cardinality(Rest \cup U) = Cardinality(Rest) + Cardinality(U) - Cardinality(Rest \cap U)
    BY <1>5, <1>7, FS_Union
  <2>3. Cardinality(Rest) \in Nat /\ Cardinality(U) \in Nat
    BY <1>5, <1>7, FS_CardinalityType
  <2>4. Cardinality(Rest \cap U) = 0
    BY <2>1, FS_EmptySet
  <2> HIDE DEF Rest, U
  <2>5. QED BY <2>2, <2>3, <2>4
<1>9. UNION { {r} \X H(r) : r \in D } = Rest \cup U
  OBVIOUS
<1> HIDE DEF Rest, U
<1>10. TotalEdges(parts) = Cardinality(Rest \cup U)
  BY <1>9 DEF TotalEdges, H
<1>11. OtherEdges(parts, p, q) = Rest
  BY DEF OtherEdges, Rest, H
<1>12. countHyperEdges(parts[p]) = Cardinality(H(p)) /\ countHyperEdges(parts[q]) = Cardinality(H(q))
  BY DEF countHyperEdges, H
<1>13. Cardinality(H(p)) \in Nat /\ Cardinality(H(q)) \in Nat
  BY <1>6
<1>14. QED BY <1>7, <1>8, <1>10, <1>11, <1>12, <1>13

\* A step of the search that is kept does not add to the edges of all groups,
\* although it counts only two of them.
LEMMA SwapNotWorse ==
    ASSUME NEW f \in Files, NEW parts, AllInPlace(parts, f),
           NEW p \in DOMAIN parts, NEW q \in DOMAIN parts, p # q,
           NEW a \in DOMAIN parts[p], NEW b \in DOMAIN parts[q],
           NEW tried, SwapOf(tried, parts, p, a, q, b),
           ~ (countHyperEdges(parts[p]) + countHyperEdges(parts[q])
                < countHyperEdges(tried[p]) + countHyperEdges(tried[q]))
    PROVE  TotalEdges(tried) <= TotalEdges(parts)
<1>1. DOMAIN tried = DOMAIN parts /\ \A r \in DOMAIN parts \ {p, q} : tried[r] = parts[r]
  BY DEF SwapOf
<1>2. OtherEdges(tried, p, q) = OtherEdges(parts, p, q)
  BY <1>1 DEF OtherEdges
<1>3. AllInPlace(tried, f)
  BY SwapInPlace
<1>4. /\ countHyperEdges(tried[p]) \in Nat /\ countHyperEdges(tried[q]) \in Nat
      /\ TotalEdges(tried) = Cardinality(OtherEdges(tried, p, q))
                                + countHyperEdges(tried[p]) + countHyperEdges(tried[q])
  BY <1>1, <1>3, TotalSplit
<1>5. /\ Cardinality(OtherEdges(parts, p, q)) \in Nat
      /\ countHyperEdges(parts[p]) \in Nat /\ countHyperEdges(parts[q]) \in Nat
      /\ TotalEdges(parts) = Cardinality(OtherEdges(parts, p, q))
                                + countHyperEdges(parts[p]) + countHyperEdges(parts[q])
  BY TotalSplit
<1>6. QED BY <1>2, <1>4, <1>5

-----------------------------------------------------------------------------
(* What is saved draws the graph that was read.                            *)

\* saveGraph (partgraph.cpp) writes every node and its edges in the source's order.
LEMMA SavedDrawn ==
    ASSUME NEW f \in Files, NEW parts, AllInPlace(parts, f),
           NEW order \in SetToSeqs(Places(parts))
    PROVE  Drawn([nodes |-> [i \in DOMAIN order |->
                                [id |-> parts[order[i][1]][order[i][2]].id,
                                 label |-> order[i][1] - 1]],
                  edges |-> Parse(f).edges], f)
<1> DEFINE L == Len(f.nodes)
           P == Places(parts)
           idAt(x) == parts[x[1]][x[2]].id
           nodes == [i \in DOMAIN order |-> [id |-> idAt(order[i]), label |-> order[i][1] - 1]]
           g == [nodes |-> nodes, edges |-> Parse(f).edges]
<1>1. L \in Nat /\ IsFiniteSet(P) /\ Cardinality(P) = L
  BY FileFacts DEF AllInPlace
<1>2. /\ order \in [1 .. L -> P] /\ DOMAIN order = 1 .. L
      /\ \A i, j \in 1 .. L : i # j => order[i] # order[j]
  BY <1>1 DEF SetToSeqs
<1>3. \A x \in P : \E i \in 1 .. L : order[i] = x
  <2>1. order \in Injection(1 .. L, P)
    BY <1>2 DEF Injection, IsInjective
  <2>2. IsFiniteSet(1 .. L) /\ Cardinality(1 .. L) = L
    <3>1. \A n \in Nat : IsFiniteSet(1 .. n) /\ Cardinality(1 .. n) = n
      BY FS_Interval
    <3>2. QED BY <1>1, <3>1
  <2>3. order \in Surjection(1 .. L, P)
    BY <1>1, <2>1, <2>2, FS_Injection
  <2>4. QED BY <2>3 DEF Surjection
<1>4. \A x \in P : idAt(x) \in 1 .. L /\ x[1] \in Nat \ {0}
  <2>1. \A x \in P : \E i \in 1 .. L : parts[x[1]][x[2]] = VertexOf(Parse(f), i)
    BY DEF AllInPlace
  <2>2. \A x \in P : x[1] \in DOMAIN parts
    BY PlaceFacts
  <2>3. DOMAIN parts \subseteq Nat \ {0}
    BY DEF AllInPlace
  <2>4. \A i \in 1 .. L : VertexOf(Parse(f), i).id = i
    BY VertexFacts
  <2>5. QED BY <2>1, <2>2, <2>3, <2>4
<1>5. \A i \in 1 .. L : \E x \in P : idAt(x) = i
  <2>1. TAKE i \in 1 .. L
  <2>2. PICK x \in P : parts[x[1]][x[2]] = VertexOf(Parse(f), i)
    BY DEF AllInPlace
  <2>3. VertexOf(Parse(f), i).id = i
    BY VertexFacts
  <2>4. QED BY <2>2, <2>3
<1>6. \A x, y \in P : idAt(x) = idAt(y) => x = y
  BY DEF AllInPlace
<1> HIDE DEF P, L, idAt
<1>7. nodes \in [1 .. L -> Node] /\ \A i \in 1 .. L : nodes[i].id = idAt(order[i])
  <2>1. \A i \in 1 .. L : order[i] \in P /\ idAt(order[i]) \in Nat /\ order[i][1] - 1 \in Int
    BY <1>1, <1>2, <1>4
  <2>2. \A i \in 1 .. L : [id |-> idAt(order[i]), label |-> order[i][1] - 1] \in Node
    BY <2>1 DEF Node
  <2>3. QED BY <1>2, <2>2
<1> HIDE DEF nodes
<1>8. nodes \in Seq(Node) /\ Len(nodes) = L
  <2>1. nodes \in Seq(Node)
    BY <1>1, <1>7, SeqDef
  <2>2. DOMAIN nodes = 1 .. L
    BY <1>7
  <2>3. Len(nodes) \in Nat /\ DOMAIN nodes = 1 .. Len(nodes)
    BY <2>1, LenProperties
  <2>4. QED BY <1>1, <2>1, <2>2, <2>3
<1>9. \A i \in 1 .. L : nodes[i].id \in 1 .. L
  BY <1>2, <1>4, <1>7
<1>10. \A i, h \in 1 .. L : nodes[i].id = nodes[h].id => i = h
  BY <1>2, <1>6, <1>7
<1>11. \A n \in 1 .. L : \E i \in 1 .. L : nodes[i].id = n
  <2>1. TAKE n \in 1 .. L
  <2>2. PICK x \in P : idAt(x) = n
    BY <1>5
  <2>3. PICK i \in 1 .. L : order[i] = x
    BY <1>3
  <2>4. QED BY <1>7, <2>2, <2>3
<1>12. Drawn(Parse(f), f)
  BY SourceDrawn, ParseDrawn
<1>13. /\ Parse(f).edges \in Seq(Edge) /\ Len(Parse(f).edges) = Len(f.edges)
       /\ \A j \in 1 .. Len(Parse(f).edges) :
            /\ Parse(f).edges[j].from = f.edges[j].from
            /\ Parse(f).edges[j].to = f.edges[j].to
            /\ Parse(f).edges[j].label > 0 <=> f.edges[j].label > 0
  BY <1>12 DEF Drawn
<1>14. g.nodes = nodes /\ g.edges = Parse(f).edges
  OBVIOUS
<1> HIDE DEF g
<1>15. Drawn(g, f)
  BY <1>8, <1>9, <1>10, <1>11, <1>13, <1>14 DEF Drawn, L
<1>16. QED BY <1>15 DEF g, nodes, idAt

-----------------------------------------------------------------------------
(* The invariant of the files: what is in the groups, in the file that the *)
(* optimizer wrote and in the client's graph is the source's graph.        *)

StageInv ==
    /\ source \in Files
    /\ stage \in {"file", "optimizing", "empty", "saved"}
    /\ stage \in {"optimizing", "empty"} => AllInPlace(groups, source)
    /\ stage \in {"file", "saved"} => groups = <<>>

GraphInv ==
    /\ StageInv
    /\ (stage = "saved" /\ phase = "off") => Drawn(saved, source)
    /\ phase # "off" => Drawn(graph, source)
    /\ phase = "off" => wait = "no" /\ graph = EmptyFile

\* The client takes up no other graph, and does not start again.
LEMMA ClientKeepsGraph ==
    ASSUME ClientNext, phase = "off" => wait = "no"
    PROVE  graph' = graph /\ (phase' = "off" <=> phase = "off") /\ (phase' = "off" => wait' = "no")
<1> USE DEF trackerVars, serverVars, clientVars, cursor, GetLoops, CommandLoops, Ended
<1>1. CASE AnnounceTimeServer
  BY <1>1 DEF AnnounceTimeServer
<1>2. ASSUME NEW s \in Server, Announce(s)
      PROVE  graph' = graph /\ phase' = phase /\ wait' = wait
  BY <1>2 DEF Announce
<1>3. ASSUME NEW m \in net, Handle(m) \/ Lose(m)
      PROVE  graph' = graph /\ phase' = phase /\ wait' = wait
  BY <1>3 DEF Handle, HandleList, HandleGet, HandleRun, HandleAdd, HandleConnect, Lose
<1>4. CASE EndLoop
  BY <1>4 DEF EndLoop
<1>5. CASE AskList \/ Locate
  BY <1>5 DEF AskList, Locate, Send
<1>6. CASE AskAddress \/ SendCommand \/ SendNothing \/ Skip
  BY <1>6 DEF AskAddress, SendCommand, SendNothing, Skip, InCommand, InLoop, Send
<1>7. ASSUME NEW r, Got(r)
      PROVE  graph' = graph /\ phase # "off" /\ phase' # "off"
  BY <1>7 DEF Got, GotList, GotPoint, GotAck
<1>8. CASE Timeout
  BY <1>7, <1>8 DEF Timeout
<1>9. ASSUME NEW m \in net, Receive(m)
      PROVE  graph' = graph /\ phase # "off" /\ phase' # "off"
  BY <1>7, <1>9 DEF Receive
<1>10. QED
  BY <1>1, <1>2, <1>3, <1>4, <1>5, <1>6, <1>8, <1>9 DEF ClientNext, CreateNetwork

\* loadGraph establishes the optimizer's part of the invariant.
LEMMA LoadGraphStep ==
    ASSUME StageInv, NEW n \in groupCounts, LoadGraph(n)
    PROVE  StageInv' /\ stage' # "saved"
<1> DEFINE L == Len(Parse(source).nodes)
           F == Len(source.nodes)
<1>1. source \in Files /\ source' = source /\ stage' \in {"optimizing", "empty"}
  BY DEF StageInv, LoadGraph
<1>2. L = F
  BY <1>1, FileFacts, ParseFacts
<1>3. groups' = [p \in 1 .. n |-> [j \in 1 .. (L + n - p) \div n |->
                    VertexOf(Parse(source), (j - 1) * n + p)]]
  BY DEF LoadGraph
<1>4. groups' = [p \in 1 .. n |-> [j \in 1 .. (F + n - p) \div n |->
                    VertexOf(Parse(source), Dealt(n, p, j))]]
  <2> HIDE DEF L, F
  <2>1. QED BY <1>2, <1>3 DEF Dealt
<1>5. AllInPlace(groups', source)
  BY <1>1, <1>4, LoadInPlace
<1>6. QED BY <1>1, <1>5 DEF StageInv

\* What a step of the search does, whichever way it ends.
LEMMA OptimizeStep ==
    ASSUME StageInv, NEW p \in DOMAIN groups, NEW q \in DOMAIN groups,
           NEW a \in DOMAIN groups[p], NEW b \in DOMAIN groups[q],
           OptimizePartitions(p, a, q, b)
    PROVE  /\ StageInv' /\ stage' # "saved"
           /\ TotalEdges(groups') <= TotalEdges(groups)
<1> DEFINE tried == Swapped(p, a, q, b)
<1>1. /\ source \in Files /\ AllInPlace(groups, source) /\ p # q
      /\ stage = "optimizing" /\ stage' = stage /\ source' = source
  BY DEF StageInv, OptimizePartitions
<1>2. groups' = IF countHyperEdges(groups[p]) + countHyperEdges(groups[q])
                     < countHyperEdges(tried[p]) + countHyperEdges(tried[q])
                  THEN groups ELSE tried
  BY DEF OptimizePartitions
<1>3. SwapOf(tried, groups, p, a, q, b)
  BY <1>1, SwapFacts DEF Swapped
<1> HIDE DEF tried
<1>4. AllInPlace(tried, source)
  BY <1>1, <1>3, SwapInPlace
<1>5. AllInPlace(groups', source)
  BY <1>1, <1>2, <1>4
<1>6. TotalEdges(groups) \in Nat
  BY <1>1, TotalNat
<1>7. TotalEdges(groups') <= TotalEdges(groups)
  <2>1. CASE groups' = groups
    BY <1>6, <2>1
  <2>2. CASE /\ groups' = tried
             /\ ~ (countHyperEdges(groups[p]) + countHyperEdges(groups[q])
                     < countHyperEdges(tried[p]) + countHyperEdges(tried[q]))
    <3>1. TotalEdges(tried) <= TotalEdges(groups)
      BY <1>1, <1>3, <2>2, SwapNotWorse
    <3>2. QED BY <2>2, <3>1
  <2>3. QED BY <1>2, <2>1, <2>2
<1>8. QED BY <1>1, <1>5, <1>7 DEF StageInv

\* saveGraph leaves a file of the source's graph.
LEMMA SaveGraphStep ==
    ASSUME StageInv, SaveGraph
    PROVE  StageInv' /\ stage' = "saved" /\ Drawn(saved', source')
<1>1. /\ source \in Files /\ AllInPlace(groups, source)
      /\ stage' = "saved" /\ groups' = <<>> /\ source' = source
  BY DEF StageInv, SaveGraph
<1>2. PICK order \in SetToSeqs(Places(groups)) :
        saved' = [nodes |-> [i \in DOMAIN order |->
                                [id |-> groups[order[i][1]][order[i][2]].id,
                                 label |-> order[i][1] - 1]],
                  edges |-> Parse(source).edges]
  BY DEF SaveGraph
<1>3. Drawn(saved', source)
  BY <1>1, <1>2, SavedDrawn
<1>4. QED BY <1>1, <1>3 DEF StageInv

\* Before anything is loaded the files agree.
LEMMA InitGraphInv == BuildInit => GraphInv
BY DEF BuildInit, ClientInit, PartInit, GraphInv, StageInv, EmptyFile

\* Every step of the tools and the client keeps the files' invariant.
LEMMA NextGraphInv == GraphInv /\ [BuildNext]_vars => GraphInv'
<1>1. SUFFICES ASSUME GraphInv, [BuildNext]_vars PROVE GraphInv'
  OBVIOUS
<1>2. /\ StageInv /\ source \in Files
      /\ phase = "off" => wait = "no" /\ graph = EmptyFile
      /\ (stage = "saved" /\ phase = "off") => Drawn(saved, source)
      /\ phase # "off" => Drawn(graph, source)
  BY <1>1 DEF GraphInv, StageInv
<1>3. ASSUME UNCHANGED vars PROVE GraphInv'
  BY <1>2, <1>3 DEF vars, clientNetVars, partVars, GraphInv, StageInv
<1>4. ASSUME phase = "off", Optimize PROVE GraphInv'
  <2>1. phase' = "off" /\ wait' = "no" /\ graph' = EmptyFile
    BY <1>2, <1>4 DEF Optimize, clientNetVars
  <2>2. ASSUME NEW n \in groupCounts, LoadGraph(n) PROVE StageInv' /\ stage' # "saved"
    BY <1>2, <2>2, LoadGraphStep
  <2>3. ASSUME NEW p \in DOMAIN groups, NEW q \in DOMAIN groups,
               NEW a \in DOMAIN groups[p], NEW b \in DOMAIN groups[q],
               OptimizePartitions(p, a, q, b)
        PROVE  StageInv' /\ stage' # "saved"
    BY <1>2, <2>3, OptimizeStep
  <2>4. CASE SaveGraph
    <3>1. StageInv' /\ Drawn(saved', source')
      BY <1>2, <2>4, SaveGraphStep
    <3>2. QED BY <2>1, <3>1 DEF GraphInv
  <2>5. CASE StageInv' /\ stage' # "saved"
    BY <2>1, <2>5 DEF GraphInv
  <2>6. PartNext
    BY <1>4 DEF Optimize
  <2>7. QED BY <2>2, <2>3, <2>4, <2>5, <2>6 DEF PartNext
<1>5. ASSUME CreateFromSource PROVE GraphInv'
  <2>1. Drawn(Parse(source), source)
    BY <1>2, SourceDrawn, ParseDrawn
  <2>2. graph' = Parse(source) /\ phase' = "list" /\ UNCHANGED partVars
    BY <1>5 DEF CreateFromSource, Start
  <2>3. QED BY <1>2, <2>1, <2>2 DEF partVars, GraphInv, StageInv
<1>6. ASSUME CreateFromSaved PROVE GraphInv'
  <2>1. stage = "saved" /\ phase = "off" /\ graph' = Parse(saved) /\ phase' = "list"
        /\ UNCHANGED <<source, groups, stage>>
    BY <1>6 DEF CreateFromSaved, Start
  <2>2. Drawn(Parse(saved), source)
    BY <1>2, <2>1, ParseDrawn
  <2>3. QED BY <1>2, <2>1, <2>2 DEF GraphInv, StageInv
<1>7. ASSUME ClientNext, UNCHANGED partVars PROVE GraphInv'
  <2>1. graph' = graph /\ (phase' = "off" <=> phase = "off") /\ (phase' = "off" => wait' = "no")
    BY <1>2, <1>7, ClientKeepsGraph
  <2>2. QED BY <1>2, <1>7, <2>1 DEF partVars, GraphInv, StageInv
<1>8. QED BY <1>1, <1>3, <1>4, <1>5, <1>6, <1>7 DEF BuildNext

\* In every behaviour the groups, the saved file and the client's graph draw the source.
THEOREM SpecGraphInv == BuildSpec => []GraphInv
<1>1. BuildInit => GraphInv
  BY InitGraphInv
<1>2. GraphInv /\ [BuildNext]_vars => GraphInv'
  BY NextGraphInv
<1>3. QED BY <1>1, <1>2, PTL DEF BuildSpec

\* optimizePartitions (partgraph.cpp) loses, repeats and changes no vertex, for every
\* file and number of groups.
THEOREM BuildGraphKept == BuildSpec => []GraphKept
<1>1. GraphInv => GraphKept
  <2>1. SUFFICES ASSUME GraphInv, groups # <<>>
                 PROVE  /\ Cardinality(Places(groups)) = Len(Parse(source).nodes)
                        /\ \A i \in DOMAIN Parse(source).nodes : \E x \in Places(groups) :
                                groups[x[1]][x[2]] = VertexOf(Parse(source), i)
    BY DEF GraphKept
  <2>2. source \in Files /\ AllInPlace(groups, source)
    BY <2>1 DEF GraphInv, StageInv
  <2>3. Parse(source).nodes \in Seq(Node) /\ Len(Parse(source).nodes) = Len(source.nodes)
    BY <2>2, FileFacts, ParseFacts
  <2>4. DOMAIN Parse(source).nodes = 1 .. Len(source.nodes)
    BY <2>3, LenProperties
  <2>5. QED BY <2>2, <2>3, <2>4 DEF AllInPlace
<1>2. QED BY <1>1, SpecGraphInv, PTL

\* optimizePartitions takes back a swap that makes two groups worse, so that the external
\* edges of all groups never become more, whatever vertices rand() picks.
THEOREM BuildNeverWorse == BuildSpec => NeverWorse
<1>1. ASSUME GraphInv, [BuildNext]_vars
      PROVE  [stage = "optimizing" => TotalEdges(groups') <= TotalEdges(groups)]_partVars
  <2>1. SUFFICES ASSUME ~ UNCHANGED partVars, stage = "optimizing"
                 PROVE  TotalEdges(groups') <= TotalEdges(groups)
    OBVIOUS
  <2>2. StageInv
    BY <1>1 DEF GraphInv
  <2>3. Optimize
    BY <1>1, <2>1 DEF BuildNext, vars, CreateFromSource, CreateFromSaved
  <2>4. ASSUME NEW n \in groupCounts PROVE ~ LoadGraph(n)
    BY <2>1 DEF LoadGraph
  <2>5. ASSUME NEW p \in DOMAIN groups, NEW q \in DOMAIN groups,
               NEW a \in DOMAIN groups[p], NEW b \in DOMAIN groups[q],
               OptimizePartitions(p, a, q, b)
        PROVE  TotalEdges(groups') <= TotalEdges(groups)
    BY <2>2, <2>5, OptimizeStep
  <2>6. ASSUME SaveGraph PROVE TotalEdges(groups') <= TotalEdges(groups)
    <3>1. TotalEdges(groups) \in Nat
      BY <2>1, <2>2, TotalNat DEF StageInv
    <3>2. groups' = <<>>
      BY <2>6 DEF SaveGraph
    <3>3. TotalEdges(<<>>) = Cardinality({})
      BY DEF TotalEdges
    <3>4. Cardinality({}) = 0
      BY FS_EmptySet
    <3>5. QED BY <3>1, <3>2, <3>3, <3>4
  <2>7. QED BY <2>3, <2>4, <2>5, <2>6 DEF Optimize, PartNext
<1>2. QED BY <1>1, SpecGraphInv, PTL DEF BuildSpec, NeverWorse

-----------------------------------------------------------------------------
(* The invariant of the client, the servers and the datagrams.             *)

\* The ids that the tracker gave out.
Handed == RESERVED_CLUSTER_ID + 1 .. next - 1

\* Somewhere it is said, or was and may still arrive, that a runs under i.
Claim(i, a) ==
    \/ a \in Server /\ id[a] = i
    \/ clusters[i] = a
    \/ known[i] = a
    \/ Point(i, a) \in net
    \/ ToServer("RUN", a, i) \in net

MessageOK(m) ==
    \/ m = ToTracker("LIST", 0)
    \/ \E i \in Id : m = ToTracker("GET", i) \/ m = Drop(i)
    \/ \E i \in Id, a \in Addr : m = Point(i, a)
    \/ \E a \in Server : m = ToServer("ADD", a, 0)
    \/ \E a \in Server, n \in Reserved : m = ToServer("RUN", a, n) \/ m = ToServer("CONNECT", a, n)
    \/ m = Ack \/ m = Nack
    \/ \E s \in Seq(Id) : m = Listed(s)

DataOK ==
    /\ TrackerTypeOK
    /\ id \in [Server -> Id \cup {0}]
    /\ conn \subseteq [at : Server, own : Id, other : Id]
    /\ \A m \in net : MessageOK(m)
    /\ odd \in 0 .. MaxOdd
    /\ ids \in Seq(Id \ {TIME_SERVER_ID})
    /\ known \in [Id -> Addr \cup {NoAddr}]
    /\ phase \in {"off", "list"} \cup GetLoops \cup CommandLoops \cup Ended

LoopOK ==
    /\ k \in 1 .. Len(Jobs) + 1
    /\ tries \in 0 .. COMMAND_RETRY_COUNT /\ gets \in 0 .. GetRetries
    /\ wait \in {"no", "list", "get", "reply"}
    /\ wait = "list" => phase = "list"
    /\ wait = "get" => /\ phase \in GetLoops \cup CommandLoops /\ k <= Len(Jobs)
                       /\ phase \in CommandLoops => known[Job.for] = NoAddr
    /\ wait = "reply" => phase \in CommandLoops /\ k <= Len(Jobs)
    /\ phase = "off" => net = {} /\ conn = {}

\* Who runs under an id is undisputed, and so is which id of a kind a server has.
OneHome == \A i \in Id : \A a, b \in Addr : (Claim(i, a) /\ Claim(i, b)) => a = b
OneName == \A i, j \in Id : \A a \in Addr :
    (Claim(i, a) /\ Claim(j, a) /\ (i \in Reserved <=> j \in Reserved)) => i = j

\* Only ids in use are claimed, and a server only has a claim when it has an id.
ClaimOK == \A i \in Id : \A a \in Addr : Claim(i, a) =>
    /\ i \in Reserved \cup Handed \cup {TIME_SERVER_ID}
    /\ i = TIME_SERVER_ID <=> a = TimeServer
    /\ a \in Server => id[a] # 0

\* What the tracker and the client know of a node's id is true.
Settled == \A n \in Reserved : \A a \in Server :
    (clusters[n] = a \/ known[n] = a \/ Point(n, a) \in net) => id[a] = n

\* Nodes begin to run in phase "run", each on the server of the same place in ids.
NoneRuns == phase \in {"off", "list", "locate"} => \A n \in Reserved : \A a \in Addr : ~ Claim(n, a)
RunsInTurn == phase = "run" => \A n \in Reserved : \A a \in Addr : Claim(n, a) =>
    \E j \in DOMAIN ids \cap DOMAIN graph.nodes :
        j <= k /\ graph.nodes[j].id = n /\ known[ids[j]] = a

\* The client works with ids that the tracker gave out, each listed once.
ListOK ==
    /\ phase \in {"off", "list"} => \A m \in net : m.cmd = "LISTED" =>
        /\ ToSet(m.ids) \subseteq Handed \cup {TIME_SERVER_ID}
        /\ \A i, j \in DOMAIN m.ids : m.ids[i] = m.ids[j] => i = j
    /\ ToSet(ids) \subseteq Handed
    /\ \A i, j \in DOMAIN ids : ids[i] = ids[j] => i = j
    /\ phase \in {"locate", "run"} => Len(graph.nodes) <= Len(ids)

\* A server is asked for, and has, only connections that its node has in the graph.
Connects ==
    /\ \A a \in Server, n \in Reserved : ToServer("CONNECT", a, n) \in net =>
        \E e \in ToSet(graph.edges) : e.from = id[a] /\ e.to = n
    /\ \A c \in conn : /\ c.own = id[c.at] /\ c.own \in Reserved
                       /\ \E e \in ToSet(graph.edges) : e.from = c.own /\ e.to = c.other

NamesInv == DataOK /\ LoopOK /\ OneHome /\ OneName /\ ClaimOK /\ Settled
            /\ NoneRuns /\ RunsInTurn /\ ListOK /\ Connects

\* As long as no datagram was late or repeated, what is under way belongs to what
\* the client waits for, and what it went past is done.
NodeRuns(j) == \E s \in Server : id[s] = graph.nodes[j].id
EdgeMade(j) == \E c \in conn : c.own = graph.edges[j].from /\ c.other = graph.edges[j].to

JobDone == (phase = "run" => NodeRuns(k)) /\ (phase = "connect" => EdgeMade(k))

InStep == odd = 0 =>
    /\ wait = "no" => net = {}
    /\ \A m, o \in net : m = o
    /\ \A m \in net : m.cmd \in {"RUN", "ADD", "CONNECT"} =>
            wait = "reply" /\ m = ToServer(Job.cmd, known[Job.for], Job.id)
    /\ Ack \in net => wait = "reply" /\ JobDone

DoneSoFar == odd = 0 =>
    /\ phase = "run" => \A j \in 1 .. k - 1 : NodeRuns(j)
    /\ phase \in {"refresh", "add", "connect", "running"} =>
            \A j \in 1 .. Len(graph.nodes) : NodeRuns(j)
    /\ phase = "connect" => \A j \in 1 .. k - 1 : graph.edges[j].label > 0 => EdgeMade(j)
    /\ phase = "running" =>
            \A j \in 1 .. Len(graph.edges) : graph.edges[j].label > 0 => EdgeMade(j)

Done == InStep /\ DoneSoFar

IInv == GraphInv /\ NamesInv /\ Done

-----------------------------------------------------------------------------
(* The client's jobs.                                                      *)

\* A function on 1 .. n is a sequence of length n.
LEMMA LenOfFun ==
    ASSUME NEW n \in Nat, NEW S, NEW f \in [1 .. n -> S]
    PROVE  f \in Seq(S) /\ Len(f) = n
<1>1. f \in Seq(S)
  BY SeqDef
<1>2. Len(f) \in Nat /\ DOMAIN f = 1 .. Len(f)
  BY <1>1, LenProperties
<1>3. QED BY <1>1, <1>2

JobsOf(ph, g, is) ==
    CASE ph \in GetLoops ->
            [i \in DOMAIN is |-> [for |-> is[i], cmd |-> "GET", id |-> is[i]]]
      [] ph = "run" ->
            [i \in DOMAIN is \cap DOMAIN g.nodes |->
                [for |-> is[i], cmd |-> "RUN", id |-> g.nodes[i].id]]
      [] ph = "add" ->
            [i \in DOMAIN g.nodes |-> [for |-> g.nodes[i].id, cmd |-> "ADD", id |-> 0]]
      [] ph = "connect" ->
            [i \in DOMAIN g.edges |->
                [for |-> g.edges[i].from, cmd |-> "CONNECT", id |-> g.edges[i].to]]
      [] OTHER -> <<>>

\* Jobs depends on the phase, the graph and the list only.
LEMMA JobsAre ==
    /\ Jobs = JobsOf(phase, graph, ids)
    /\ Jobs' = JobsOf(phase', graph', ids')
    /\ Job = JobsOf(phase, graph, ids)[k]
    /\ Job' = JobsOf(phase', graph', ids')[k']
BY DEF Job, Jobs, JobsOf

\* A file that the client can work with.
GraphOK(g) ==
    /\ Len(g.nodes) \in Nat /\ Len(g.edges) \in Nat
    /\ DOMAIN g.nodes = 1 .. Len(g.nodes) /\ DOMAIN g.edges = 1 .. Len(g.edges)
    /\ \A i \in 1 .. Len(g.nodes) : g.nodes[i].id \in Reserved
    /\ \A i, j \in 1 .. Len(g.nodes) : g.nodes[i].id = g.nodes[j].id => i = j
    /\ \A j \in 1 .. Len(g.edges) : g.edges[j].from \in Reserved /\ g.edges[j].to \in Reserved

\* A file that draws a generated graph can be worked with.
LEMMA DrawnOK ==
    ASSUME NEW f \in Files, NEW g, Drawn(g, f)
    PROVE  GraphOK(g)
<1>1. 1 .. Len(f.nodes) \subseteq Reserved
  BY FileFacts
<1>2. g.nodes \in Seq(Node) /\ g.edges \in Seq(Edge)
  BY DEF Drawn
<1>3. /\ Len(g.nodes) \in Nat /\ DOMAIN g.nodes = 1 .. Len(g.nodes)
      /\ Len(g.edges) \in Nat /\ DOMAIN g.edges = 1 .. Len(g.edges)
  BY <1>2, LenProperties
<1>4. \A i \in 1 .. Len(g.nodes) : g.nodes[i].id \in Reserved
  BY <1>1 DEF Drawn
<1>5. \A i, j \in 1 .. Len(g.nodes) : g.nodes[i].id = g.nodes[j].id => i = j
  BY DEF Drawn
<1>6. \A j \in 1 .. Len(g.edges) : g.edges[j].from \in Reserved /\ g.edges[j].to \in Reserved
  <2>1. \A j \in 1 .. Len(f.edges) : /\ f.edges[j].from \in 1 .. Len(f.nodes)
                                     /\ f.edges[j].to \in 1 .. Len(f.nodes)
    BY FileFacts
  <2>2. Len(g.edges) = Len(f.edges) /\ \A j \in 1 .. Len(g.edges) :
            g.edges[j].from = f.edges[j].from /\ g.edges[j].to = f.edges[j].to
    BY DEF Drawn
  <2>3. QED BY <1>1, <2>1, <2>2
<1>7. QED BY <1>3, <1>4, <1>5, <1>6 DEF GraphOK

\* So can the client's graph.
LEMMA GraphIsOK == ASSUME GraphInv PROVE GraphOK(graph)
<1>1. CASE phase = "off"
  <2>1. graph.nodes = <<>> /\ graph.edges = <<>>
    BY <1>1 DEF GraphInv, EmptyFile
  <2>2. Len(<<>>) = 0 /\ DOMAIN <<>> = 1 .. 0
    OBVIOUS
  <2>3. QED BY <2>1, <2>2 DEF GraphOK
<1>2. CASE phase # "off"
  BY <1>2, DrawnOK DEF GraphInv, StageInv
<1>3. QED BY <1>1, <1>2

\* How many jobs J there are in every phase, and what they are.
JobsOK(J, ph, g, is) ==
    /\ Len(J) \in Nat
    /\ ph \in GetLoops =>
         /\ Len(J) = Len(is)
         /\ \A i \in 1 .. Len(J) : J[i] = [for |-> is[i], cmd |-> "GET", id |-> is[i]]
    /\ ph = "run" =>
         /\ Len(J) = IF Len(is) < Len(g.nodes) THEN Len(is) ELSE Len(g.nodes)
         /\ \A i \in 1 .. Len(J) : J[i] = [for |-> is[i], cmd |-> "RUN", id |-> g.nodes[i].id]
    /\ ph = "add" =>
         /\ Len(J) = Len(g.nodes)
         /\ \A i \in 1 .. Len(J) : J[i] = [for |-> g.nodes[i].id, cmd |-> "ADD", id |-> 0]
    /\ ph = "connect" =>
         /\ Len(J) = Len(g.edges)
         /\ \A i \in 1 .. Len(J) :
                J[i] = [for |-> g.edges[i].from, cmd |-> "CONNECT", id |-> g.edges[i].to]
    /\ ph \notin GetLoops \cup CommandLoops => Len(J) = 0

\* The loops of createNetwork go through what JobsOK says.
LEMMA JobsOfFacts ==
    ASSUME NEW ph, NEW g, GraphOK(g), NEW is \in Seq(Id)
    PROVE  JobsOK(JobsOf(ph, g, is), ph, g, is)
<1> DEFINE J == JobsOf(ph, g, is)
           Vals == { J[i] : i \in DOMAIN J }
<1>1. Len(is) \in Nat /\ DOMAIN is = 1 .. Len(is)
  BY LenProperties
<1>2. /\ Len(g.nodes) \in Nat /\ DOMAIN g.nodes = 1 .. Len(g.nodes)
      /\ Len(g.edges) \in Nat /\ DOMAIN g.edges = 1 .. Len(g.edges)
  BY DEF GraphOK
<1>3. ASSUME NEW n \in Nat, J = [i \in 1 .. n |-> J[i]]
      PROVE  Len(J) = n /\ DOMAIN J = 1 .. n
  <2> HIDE DEF J
  <2>1. DOMAIN J = 1 .. n
    BY <1>3
  <2>2. J \in [1 .. n -> Vals]
    BY <1>3, <2>1
  <2>3. QED BY <2>1, <2>2, LenOfFun
<1> USE DEF GetLoops, CommandLoops
<1>4. ASSUME ph \in GetLoops PROVE JobsOK(J, ph, g, is)
  <2>1. J = [i \in 1 .. Len(is) |-> [for |-> is[i], cmd |-> "GET", id |-> is[i]]]
    BY <1>1, <1>4 DEF JobsOf
  <2> HIDE DEF J
  <2>2. Len(J) = Len(is) /\ DOMAIN J = 1 .. Len(is)
    BY <1>1, <1>3, <2>1
  <2>3. QED BY <1>1, <1>4, <2>1, <2>2 DEF JobsOK
<1>5. ASSUME ph = "run" PROVE JobsOK(J, ph, g, is)
  <2> DEFINE n == IF Len(is) < Len(g.nodes) THEN Len(is) ELSE Len(g.nodes)
  <2>1. n \in Nat /\ (1 .. Len(is)) \cap (1 .. Len(g.nodes)) = 1 .. n
    BY <1>1, <1>2
  <2>2. J = [i \in 1 .. n |-> [for |-> is[i], cmd |-> "RUN", id |-> g.nodes[i].id]]
    <3> HIDE DEF n
    <3>1. QED BY <1>1, <1>2, <1>5, <2>1 DEF JobsOf
  <2> HIDE DEF J
  <2>3. Len(J) = n /\ DOMAIN J = 1 .. n
    <3> HIDE DEF n
    <3>1. QED BY <1>3, <2>1, <2>2
  <2>4. /\ ph \notin GetLoops /\ ph # "add" /\ ph # "connect" /\ ph \in CommandLoops
        /\ \A i \in 1 .. Len(J) : J[i] = [for |-> is[i], cmd |-> "RUN", id |-> g.nodes[i].id]
    BY <1>5, <2>2, <2>3
  <2>5. QED BY <1>5, <2>1, <2>3, <2>4 DEF JobsOK
<1>6. ASSUME ph = "add" PROVE JobsOK(J, ph, g, is)
  <2>1. J = [i \in 1 .. Len(g.nodes) |-> [for |-> g.nodes[i].id, cmd |-> "ADD", id |-> 0]]
    BY <1>2, <1>6 DEF JobsOf
  <2> HIDE DEF J
  <2>2. Len(J) = Len(g.nodes) /\ DOMAIN J = 1 .. Len(g.nodes)
    BY <1>2, <1>3, <2>1
  <2>3. QED BY <1>2, <1>6, <2>1, <2>2 DEF JobsOK
<1>7. ASSUME ph = "connect" PROVE JobsOK(J, ph, g, is)
  <2>1. J = [i \in 1 .. Len(g.edges) |->
                [for |-> g.edges[i].from, cmd |-> "CONNECT", id |-> g.edges[i].to]]
    BY <1>2, <1>7 DEF JobsOf
  <2> HIDE DEF J
  <2>2. Len(J) = Len(g.edges) /\ DOMAIN J = 1 .. Len(g.edges)
    BY <1>2, <1>3, <2>1
  <2>3. QED BY <1>2, <1>7, <2>1, <2>2 DEF JobsOK
<1>8. ASSUME ph \notin GetLoops \cup CommandLoops PROVE JobsOK(J, ph, g, is)
  <2>1. J = <<>>
    BY <1>8 DEF JobsOf
  <2>2. Len(<<>>) = 0 /\ DOMAIN <<>> = 1 .. 0
    OBVIOUS
  <2> HIDE DEF J
  <2>3. QED BY <1>8, <2>1, <2>2 DEF JobsOK
<1>9. QED BY <1>4, <1>5, <1>6, <1>7, <1>8

-----------------------------------------------------------------------------
(* Datagrams and lists.                                                    *)

\* What a datagram is follows from its command.
LEMMA MessageKinds ==
    ASSUME NEW m, MessageOK(m)
    PROVE  /\ m.cmd = "GET" => \E i \in Id : m = ToTracker("GET", i)
           /\ m.cmd = "RUN" => \E a \in Server, n \in Reserved : m = ToServer("RUN", a, n)
           /\ m.cmd = "ADD" => \E a \in Server : m = ToServer("ADD", a, 0)
           /\ m.cmd = "CONNECT" => \E a \in Server, n \in Reserved : m = ToServer("CONNECT", a, n)
           /\ m.cmd = "POINT" => \E i \in Id, a \in Addr : m = Point(i, a)
           /\ m.cmd = "LISTED" => \E s \in Seq(Id) : m = Listed(s)
           /\ m.cmd = "ACK" => m = Ack
           /\ IsReply(m) \/ m.to \in Server \cup {NoAddr}
<1>1. CASE m = ToTracker("LIST", 0)
  <2>1. m.cmd = "LIST" /\ m.to = NoAddr
    BY <1>1 DEF ToTracker
  <2>2. QED BY <2>1
<1>2. CASE \E i \in Id : m = ToTracker("GET", i)
  <2>1. m.cmd = "GET" /\ m.to = NoAddr
    BY <1>2 DEF ToTracker
  <2>2. QED BY <1>2, <2>1
<1>3. CASE \E i \in Id : m = Drop(i)
  <2>1. m.cmd = "DROP"
    BY <1>3 DEF Drop
  <2>2. QED BY <2>1 DEF IsReply
<1>4. CASE \E i \in Id, a \in Addr : m = Point(i, a)
  <2>1. m.cmd = "POINT"
    BY <1>4 DEF Point
  <2>2. QED BY <1>4, <2>1 DEF IsReply
<1>5. CASE \E a \in Server : m = ToServer("ADD", a, 0)
  <2>1. m.cmd = "ADD" /\ m.to \in Server
    BY <1>5 DEF ToServer
  <2>2. QED BY <1>5, <2>1
<1>6. CASE \E a \in Server, n \in Reserved : m = ToServer("RUN", a, n)
  <2>1. m.cmd = "RUN" /\ m.to \in Server
    BY <1>6 DEF ToServer
  <2>2. QED BY <1>6, <2>1
<1>7. CASE \E a \in Server, n \in Reserved : m = ToServer("CONNECT", a, n)
  <2>1. m.cmd = "CONNECT" /\ m.to \in Server
    BY <1>7 DEF ToServer
  <2>2. QED BY <1>7, <2>1
<1>8. CASE m = Ack
  <2>1. m.cmd = "ACK"
    BY <1>8 DEF Ack
  <2>2. QED BY <1>8, <2>1 DEF IsReply
<1>9. CASE m = Nack
  <2>1. m.cmd = "NACK"
    BY <1>9 DEF Nack
  <2>2. QED BY <2>1 DEF IsReply
<1>10. CASE \E s \in Seq(Id) : m = Listed(s)
  <2>1. m.cmd = "LISTED"
    BY <1>10 DEF Listed
  <2>2. QED BY <1>10, <2>1 DEF IsReply
<1>11. QED BY <1>1, <1>2, <1>3, <1>4, <1>5, <1>6, <1>7, <1>8, <1>9, <1>10 DEF MessageOK

\* RemoveAt leaves out one element and moves the later ones up.
LEMMA RemoveAtFacts ==
    ASSUME NEW S, NEW s \in Seq(S), NEW i \in 1 .. Len(s)
    PROVE  /\ RemoveAt(s, i) \in Seq(S) /\ Len(RemoveAt(s, i)) = Len(s) - 1
           /\ \A j \in 1 .. Len(s) - 1 :
                RemoveAt(s, i)[j] = IF j < i THEN s[j] ELSE s[j + 1]
<1> DEFINE a == SubSeq(s, 1, i - 1)
           b == SubSeq(s, i + 1, Len(s))
<1>1. Len(s) \in Nat /\ \A j \in 1 .. Len(s) : s[j] \in S
  BY LenProperties, ElementOfSeq
<1>2. /\ a \in Seq(S) /\ Len(a) = i - 1
      /\ \A j \in 1 .. i - 1 : a[j] = s[j]
  <2>1. 1 \in Int /\ i - 1 \in Int /\ \A j \in 1 .. i - 1 : s[j] \in S
    BY <1>1
  <2>2. /\ a \in Seq(S) /\ Len(a) = IF 1 <= i - 1 THEN (i - 1) - 1 + 1 ELSE 0
        /\ \A j \in 1 .. (i - 1) - 1 + 1 : a[j] = s[1 + j - 1]
    BY <2>1, SubSeqProperties
  <2> HIDE DEF a
  <2>3. QED BY <1>1, <2>2
<1>3. /\ b \in Seq(S) /\ Len(b) = Len(s) - i
      /\ \A j \in 1 .. Len(s) - i : b[j] = s[i + j]
  <2>1. i + 1 \in Int /\ Len(s) \in Int /\ \A j \in i + 1 .. Len(s) : s[j] \in S
    BY <1>1
  <2>2. /\ b \in Seq(S) /\ Len(b) = IF i + 1 <= Len(s) THEN Len(s) - (i + 1) + 1 ELSE 0
        /\ \A j \in 1 .. Len(s) - (i + 1) + 1 : b[j] = s[(i + 1) + j - 1]
    BY <2>1, SubSeqProperties
  <2> HIDE DEF b
  <2>3. QED BY <1>1, <2>2
<1>4. RemoveAt(s, i) = a \o b
  BY DEF RemoveAt
<1> HIDE DEF a, b
<1>5. /\ a \o b \in Seq(S) /\ Len(a \o b) = Len(a) + Len(b)
      /\ \A j \in 1 .. Len(a) + Len(b) :
            (a \o b)[j] = IF j <= Len(a) THEN a[j] ELSE b[j - Len(a)]
  BY <1>2, <1>3, ConcatProperties
<1>6. ASSUME NEW j \in 1 .. Len(s) - 1
      PROVE  (a \o b)[j] = IF j < i THEN s[j] ELSE s[j + 1]
  <2>1. j \in 1 .. Len(a) + Len(b) /\ Len(a) = i - 1
    BY <1>1, <1>2, <1>3
  <2>2. CASE j < i
    BY <1>1, <1>2, <1>5, <2>1, <2>2
  <2>3. CASE ~ (j < i)
    <3>1. j - (i - 1) \in 1 .. Len(s) - i
      BY <1>1, <2>1, <2>3
    <3>2. b[j - (i - 1)] = s[i + (j - (i - 1))] /\ i + (j - (i - 1)) = j + 1
      BY <1>1, <1>3, <3>1
    <3>3. (a \o b)[j] = b[j - (i - 1)]
      BY <1>1, <1>5, <2>1, <2>3
    <3>4. QED BY <2>3, <3>2, <3>3
  <2>4. QED BY <2>2, <2>3
<1>7. Len(a \o b) = Len(s) - 1
  BY <1>1, <1>2, <1>3, <1>5
<1>8. QED BY <1>4, <1>5, <1>6, <1>7

\* What the assumptions on ids and addresses come to.
LEMMA Constants ==
    /\ RESERVED_CLUSTER_ID \in Nat /\ MaxIssued \in Nat /\ MaxId \in Nat
    /\ Reserved \subseteq Id /\ TIME_SERVER_ID \in Id \ Reserved
    /\ TimeServer \in Addr /\ Server \subseteq Addr /\ TimeServer \notin Server
    /\ Addr = Server \cup {TimeServer} /\ NoAddr \notin Addr
BY IdAssumption, AddrAssumption, NoAddrAssumption, TimeServerIdAssumption DEF Id, Reserved

-----------------------------------------------------------------------------
(* Who claims what: a step that adds no claim disturbs nothing.            *)

NoNewClaim == \A i \in Id : \A a \in Addr : Claim(i, a)' => Claim(i, a)

\* Without a new claim nobody can come to dispute one.
LEMMA ClaimsStay ==
    ASSUME OneHome, OneName, ClaimOK, NoNewClaim, Handed \subseteq Handed',
           \A s \in Server : id[s] # 0 => id'[s] # 0
    PROVE  OneHome' /\ OneName' /\ ClaimOK'
<1>1. OneHome'
  <2>1. SUFFICES ASSUME NEW i \in Id, NEW a \in Addr, NEW b \in Addr, Claim(i, a)', Claim(i, b)'
                 PROVE  a = b
    BY DEF OneHome
  <2>2. Claim(i, a) /\ Claim(i, b)
    BY <2>1 DEF NoNewClaim
  <2>3. QED BY <2>2 DEF OneHome
<1>2. OneName'
  <2>1. SUFFICES ASSUME NEW i \in Id, NEW j \in Id, NEW a \in Addr, Claim(i, a)', Claim(j, a)',
                        i \in Reserved <=> j \in Reserved
                 PROVE  i = j
    BY DEF OneName
  <2>2. Claim(i, a) /\ Claim(j, a)
    BY <2>1 DEF NoNewClaim
  <2>3. QED BY <2>1, <2>2 DEF OneName
<1>3. ClaimOK'
  <2>1. SUFFICES ASSUME NEW i \in Id, NEW a \in Addr, Claim(i, a)'
                 PROVE  /\ i \in Reserved \cup Handed' \cup {TIME_SERVER_ID}
                        /\ i = TIME_SERVER_ID <=> a = TimeServer
                        /\ a \in Server => id'[a] # 0
    BY DEF ClaimOK
  <2>2. Claim(i, a)
    BY <2>1 DEF NoNewClaim
  <2>3. QED BY <2>2 DEF ClaimOK
<1>4. QED BY <1>1, <1>2, <1>3

\* Nor does a node begin to run out of turn.
LEMMA RunsStay ==
    ASSUME NoneRuns, RunsInTurn, NoNewClaim,
           phase' = phase, graph' = graph, ids' = ids, k' >= k, k \in Nat, k' \in Nat,
           DOMAIN graph.nodes \subseteq Nat,
           \A j \in DOMAIN ids : known[ids[j]] \in Addr => known'[ids[j]] = known[ids[j]]
    PROVE  NoneRuns' /\ RunsInTurn'
<1>1. NoneRuns'
  <2>1. Reserved \subseteq Id
    BY Constants
  <2>2. QED BY <2>1 DEF NoneRuns, NoNewClaim
<1>2. RunsInTurn'
  <2>1. SUFFICES ASSUME phase' = "run", NEW n \in Reserved, NEW a \in Addr, Claim(n, a)'
                 PROVE  \E j \in DOMAIN ids' \cap DOMAIN graph'.nodes :
                            j <= k' /\ graph'.nodes[j].id = n /\ known'[ids'[j]] = a
    BY DEF RunsInTurn
  <2>2. Claim(n, a) /\ phase = "run"
    BY <2>1, Constants DEF NoNewClaim
  <2>3. PICK j \in DOMAIN ids \cap DOMAIN graph.nodes :
                j <= k /\ graph.nodes[j].id = n /\ known[ids[j]] = a
    BY <2>2 DEF RunsInTurn
  <2>4. j <= k' /\ known'[ids[j]] = a
    BY <2>3
  <2>5. QED BY <2>3, <2>4
<1>3. QED BY <1>1, <1>2

\* An id of a node stays with its server.
IdsStay == \A a \in Server : id[a] \in Reserved => id'[a] = id[a]

\* Connections stay right when ids of nodes stay and none is asked for.
LEMMA ConnectsStay ==
    ASSUME Connects, GraphOK(graph), DataOK, IdsStay, graph' = graph, conn' = conn,
           \A a \in Server, n \in Reserved :
                ToServer("CONNECT", a, n) \in net' => ToServer("CONNECT", a, n) \in net
    PROVE  Connects'
<1>1. ASSUME NEW a \in Server, NEW n \in Reserved, ToServer("CONNECT", a, n) \in net'
      PROVE  \E e \in ToSet(graph.edges) : e.from = id'[a] /\ e.to = n
  <2>1. PICK e \in ToSet(graph.edges) : e.from = id[a] /\ e.to = n
    BY <1>1 DEF Connects
  <2>2. e.from \in Reserved
    BY DEF GraphOK, ToSet
  <2>3. QED BY <2>1, <2>2 DEF IdsStay
<1>2. ASSUME NEW c \in conn
      PROVE  /\ c.own = id'[c.at] /\ c.own \in Reserved
             /\ \E e \in ToSet(graph.edges) : e.from = c.own /\ e.to = c.other
  <2>1. c.at \in Server
    BY DEF DataOK
  <2>2. QED BY <2>1 DEF Connects, IdsStay
<1>3. QED BY <1>1, <1>2 DEF Connects

-----------------------------------------------------------------------------
(* The tracker, the servers and the network answer, repeat and lose.       *)

\* Messages are taken, and those of o may be sent, which are answers or questions;
\* the client may come to know what it was told.
Moves(o) ==
    /\ UNCHANGED <<trackerVars, serverVars, graph>> /\ odd' \in 0 .. MaxOdd
    /\ net' \subseteq net \cup o
    /\ \A m \in o : MessageOK(m) /\ m.cmd # "RUN" /\ m.cmd # "CONNECT"
    /\ \A m \in o : m.cmd = "POINT" => \E i \in Id : m = Point(i, clusters[i])
    /\ \A i \in Id : \A a \in Addr : known'[i] = a => known[i] = a \/ Point(i, a) \in net

\* What any such step leaves true.
LEMMA MoveFacts ==
    ASSUME GraphOK(graph), NamesInv, NEW o, Moves(o)
    PROVE  /\ NoNewClaim /\ OneHome' /\ OneName' /\ ClaimOK' /\ Settled' /\ Connects'
           /\ Handed' = Handed /\ \A m \in net' : MessageOK(m)
           /\ TrackerTypeOK' /\ id' = id /\ conn' = conn /\ graph' = graph
<1> USE DEF NamesInv, Moves
<1>1. /\ clusters' = clusters /\ fresh' = fresh /\ next' = next /\ id' = id /\ conn' = conn
      /\ graph' = graph
  BY DEF trackerVars, serverVars
<1>2. \A i, a : Point(i, a) \in o => i \in Id /\ a = clusters[i]
  BY DEF Point
<1>3. \A a, n : ToServer("RUN", a, n) \notin o /\ ToServer("CONNECT", a, n) \notin o
  BY DEF ToServer
<1>4. NoNewClaim
  <2>1. SUFFICES ASSUME NEW i \in Id, NEW a \in Addr, Claim(i, a)' PROVE Claim(i, a)
    BY DEF NoNewClaim
  <2>2. Point(i, a) \in net' => Point(i, a) \in net \/ clusters[i] = a
    BY <1>2
  <2>3. ToServer("RUN", a, i) \in net' => ToServer("RUN", a, i) \in net
    BY <1>3
  <2>4. known'[i] = a => known[i] = a \/ Point(i, a) \in net
    OBVIOUS
  <2>5. QED BY <1>1, <2>1, <2>2, <2>3, <2>4 DEF Claim
<1>5. OneHome' /\ OneName' /\ ClaimOK'
  BY <1>1, <1>4, ClaimsStay DEF Handed
<1>6. Settled'
  <2>1. SUFFICES ASSUME NEW n \in Reserved, NEW a \in Server,
                        clusters'[n] = a \/ known'[n] = a \/ Point(n, a) \in net'
                 PROVE  id'[a] = n
    BY DEF Settled
  <2>2. n \in Id /\ a \in Addr
    BY Constants
  <2>3. clusters[n] = a \/ known[n] = a \/ Point(n, a) \in net
    BY <1>1, <1>2, <2>1, <2>2
  <2>4. QED BY <1>1, <2>3 DEF Settled
<1>7. Connects'
  BY <1>1, <1>3, ConnectsStay DEF IdsStay
<1>8. \A m \in net' : MessageOK(m)
  BY DEF DataOK
<1>9. TrackerTypeOK'
  BY <1>1 DEF DataOK, TrackerTypeOK
<1>10. QED BY <1>1, <1>4, <1>5, <1>6, <1>7, <1>8, <1>9 DEF Handed

\* A step that the client has no part in.
Replies(o) ==
    /\ UNCHANGED <<trackerVars, serverVars, clientVars>> /\ odd' \in 0 .. MaxOdd
    /\ net' \subseteq net \cup o
    /\ \A m \in o : MessageOK(m) /\ m.cmd # "RUN" /\ m.cmd # "CONNECT"
    /\ \A m \in o : m.cmd = "POINT" => \E i \in Id : m = Point(i, clusters[i])
    /\ phase = "list" => \A m \in o : m.cmd = "LISTED" =>
            /\ ToSet(m.ids) \subseteq Handed \cup {TIME_SERVER_ID}
            /\ \A i, j \in DOMAIN m.ids : m.ids[i] = m.ids[j] => i = j

\* A step that the client has no part in keeps the invariant.
LEMMA NetStep ==
    ASSUME GraphOK(graph), NamesInv, phase # "off", NEW o, Replies(o)
    PROVE  NamesInv'
<1>1. /\ phase' = phase /\ graph' = graph /\ ids' = ids /\ known' = known
      /\ k' = k /\ tries' = tries /\ gets' = gets /\ wait' = wait
  BY DEF Replies, clientVars
<1>2. Moves(o)
  BY <1>1 DEF Replies, Moves
<1>3. /\ NoNewClaim /\ OneHome' /\ OneName' /\ ClaimOK' /\ Settled' /\ Connects'
      /\ Handed' = Handed /\ \A m \in net' : MessageOK(m)
      /\ TrackerTypeOK' /\ id' = id /\ conn' = conn
  BY <1>2, MoveFacts
<1>4. Jobs' = Jobs /\ Job' = Job
  BY <1>1 DEF Jobs, Job
<1> USE DEF NamesInv
<1>5. DataOK'
  BY <1>1, <1>3 DEF DataOK, Replies
<1>6. LoopOK'
  BY <1>1, <1>4 DEF LoopOK
<1>7. NoneRuns' /\ RunsInTurn'
  <2>1. k \in Nat /\ DOMAIN graph.nodes \subseteq Nat
    BY DEF LoopOK, GraphOK
  <2>2. QED BY <1>1, <1>3, <2>1, RunsStay
<1>8. ListOK'
  BY <1>1, <1>3 DEF ListOK, Replies
<1>9. QED BY <1>3, <1>5, <1>6, <1>7, <1>8

\* Taking a datagram leaves nothing new but what is sent.
LEMMA Consumed ==
    ASSUME odd \in 0 .. MaxOdd, NEW m, NEW sent, Consume(m, sent)
    PROVE  odd' \in 0 .. MaxOdd /\ net' \subseteq net \cup sent
BY RetryAssumption DEF Consume

\* A datagram is lost.
LEMMA LoseNames ==
    ASSUME GraphOK(graph), NamesInv, NEW m, Lose(m) PROVE NamesInv'
<1>1. phase # "off" /\ odd \in 0 .. MaxOdd
  BY DEF NamesInv, LoopOK, DataOK, Lose
<1>2. UNCHANGED <<trackerVars, serverVars, clientVars>> /\ odd' = odd /\ net' \subseteq net \cup {}
  BY DEF Lose
<1>3. Replies({})
  BY <1>1, <1>2 DEF Replies
<1>4. QED BY <1>1, <1>3, NetStep

\* A server's cluster answers ADD.
LEMMA HandleAddNames ==
    ASSUME GraphOK(graph), NamesInv, NEW m, HandleAdd(m) PROVE NamesInv'
<1>1. phase # "off" /\ odd \in 0 .. MaxOdd
  BY DEF NamesInv, LoopOK, DataOK, HandleAdd
<1>2. PICK r \in {Ack, Nack} : Consume(m, {r})
  BY DEF HandleAdd
<1>3. UNCHANGED <<trackerVars, serverVars, clientVars>>
  BY DEF HandleAdd
<1>4. odd' \in 0 .. MaxOdd /\ net' \subseteq net \cup {r}
  BY <1>1, <1>2, Consumed
<1>5. MessageOK(r) /\ r.cmd \in {"ACK", "NACK"}
  BY <1>2 DEF MessageOK, Ack, Nack
<1>6. Replies({r})
  BY <1>3, <1>4, <1>5 DEF Replies
<1>7. QED BY <1>1, <1>6, NetStep

\* The tracker answers GET with what it has on record, or with DROP.
LEMMA HandleGetNames ==
    ASSUME GraphOK(graph), NamesInv, NEW m, HandleGet(m) PROVE NamesInv'
<1>1. phase # "off" /\ odd \in 0 .. MaxOdd
  BY DEF NamesInv, LoopOK, DataOK, HandleGet
<1> DEFINE r == IF clusters[m.id] = NoAddr THEN Drop(m.id) ELSE Point(m.id, clusters[m.id])
<1>2. UNCHANGED <<trackerVars, serverVars, clientVars>> /\ Consume(m, {r})
  BY DEF HandleGet
<1>3. odd' \in 0 .. MaxOdd /\ net' \subseteq net \cup {r}
  BY <1>1, <1>2, Consumed
<1>4. m.id \in Id
  <2>1. m \in net /\ m.cmd = "GET"
    BY DEF HandleGet
  <2>2. PICK i \in Id : m = ToTracker("GET", i)
    BY <2>1, MessageKinds DEF NamesInv, DataOK
  <2>3. QED BY <2>2 DEF ToTracker
<1>5. CASE clusters[m.id] = NoAddr
  <2>1. r = Drop(m.id) /\ r.cmd = "DROP"
    BY <1>5 DEF Drop
  <2>2. MessageOK(r)
    BY <1>4, <2>1 DEF MessageOK
  <2> HIDE DEF r
  <2>3. Replies({r})
    BY <1>2, <1>3, <2>1, <2>2 DEF Replies
  <2>4. QED BY <1>1, <2>3, NetStep
<1>6. CASE clusters[m.id] # NoAddr
  <2>1. r = Point(m.id, clusters[m.id]) /\ r.cmd = "POINT"
    BY <1>6 DEF Point
  <2>2. clusters[m.id] \in Addr
    BY <1>4, <1>6 DEF NamesInv, DataOK, TrackerTypeOK
  <2>3. MessageOK(r)
    BY <1>4, <2>1, <2>2 DEF MessageOK
  <2> HIDE DEF r
  <2>4. Replies({r})
    BY <1>2, <1>3, <1>4, <2>1, <2>3 DEF Replies
  <2>5. QED BY <1>1, <2>4, NetStep
<1>7. QED BY <1>5, <1>6

\* The tracker lists ids that it has on record, each once.
LEMMA HandleListNames ==
    ASSUME GraphOK(graph), NamesInv, NEW m, HandleList(m) PROVE NamesInv'
<1> DEFINE S == { i \in fresh : clusters[i] # NoAddr }
<1>1. phase # "off" /\ odd \in 0 .. MaxOdd /\ fresh \subseteq Id
      /\ \A i \in Id : clusters[i] \in Addr \cup {NoAddr}
  BY DEF NamesInv, LoopOK, DataOK, TrackerTypeOK, HandleList
<1>2. PICK s \in SetToSeqs(S) : Consume(m, IF s = <<>> THEN {} ELSE {Listed(s)})
  BY DEF HandleList
<1>3. UNCHANGED <<trackerVars, serverVars, clientVars>>
  BY DEF HandleList
<1>4. odd' \in 0 .. MaxOdd /\ net' \subseteq net \cup {Listed(s)}
  <2>1. odd' \in 0 .. MaxOdd /\ net' \subseteq net \cup (IF s = <<>> THEN {} ELSE {Listed(s)})
    BY <1>1, <1>2, Consumed
  <2>2. QED BY <2>1
<1>5. S \subseteq Id /\ Cardinality(S) \in Nat
  <2>1. MaxId \in Nat
    BY Constants
  <2>2. IsFiniteSet(1 .. MaxId)
    BY <2>1, FS_Interval
  <2>3. S \subseteq 1 .. MaxId
    BY <1>1 DEF Id
  <2>4. IsFiniteSet(S)
    BY <2>2, <2>3, FS_Subset
  <2>5. QED BY <2>3, <2>4, FS_CardinalityType DEF Id
<1>6. s \in [1 .. Cardinality(S) -> S]
      /\ \A i, j \in 1 .. Cardinality(S) : i # j => s[i] # s[j]
  BY <1>2 DEF SetToSeqs
<1> HIDE DEF S
<1>7. s \in Seq(Id) /\ DOMAIN s = 1 .. Cardinality(S)
  <2>1. s \in [1 .. Cardinality(S) -> Id]
    BY <1>5, <1>6
  <2>2. QED BY <1>5, <2>1, LenOfFun
<1>8. Listed(s).cmd = "LISTED" /\ Listed(s).ids = s /\ MessageOK(Listed(s))
  BY <1>7 DEF Listed, MessageOK
<1>9. phase = "list" => ToSet(s) \subseteq Handed \cup {TIME_SERVER_ID}
  <2>1. SUFFICES ASSUME phase = "list", NEW i \in S PROVE i \in Handed \cup {TIME_SERVER_ID}
    BY <1>6, <1>7 DEF ToSet
  <2>2. i \in Id /\ clusters[i] \in Addr
    BY <1>1, <2>1 DEF S
  <2>3. Claim(i, clusters[i])
    BY DEF Claim
  <2>4. i \notin Reserved
    BY <2>1, <2>2, <2>3 DEF NamesInv, NoneRuns
  <2>5. QED BY <2>2, <2>3, <2>4 DEF NamesInv, ClaimOK
<1>10. \A i, j \in DOMAIN s : s[i] = s[j] => i = j
  BY <1>6, <1>7
<1>11. Replies({Listed(s)})
  BY <1>3, <1>4, <1>8, <1>9, <1>10 DEF Replies
<1>12. QED BY <1>1, <1>11, NetStep

\* A server takes the id of a node, and keeps the one it has.
LEMMA RunFacts ==
    ASSUME NamesInv, NEW m, HandleRun(m)
    PROVE  /\ \E a \in Server, n \in Reserved :
                /\ m = ToServer("RUN", a, n) /\ m \in net
                /\ id' = [id EXCEPT ![a] = n]
           /\ IdsStay /\ \A a \in Server : id[a] # 0 => id'[a] # 0
<1>1. m \in net /\ m.cmd = "RUN" /\ id' = [id EXCEPT ![m.to] = m.id]
      /\ id \in [Server -> Id \cup {0}]
  BY DEF HandleRun, NamesInv, DataOK
<1>2. PICK a \in Server, n \in Reserved : m = ToServer("RUN", a, n)
  BY <1>1, MessageKinds DEF NamesInv, DataOK
<1>3. m.to = a /\ m.id = n
  BY <1>2 DEF ToServer
<1>4. id' = [id EXCEPT ![a] = n]
  BY <1>1, <1>3
<1>5. id[a] \in Reserved => id[a] = n
  <2>1. SUFFICES ASSUME id[a] \in Reserved PROVE id[a] = n
    OBVIOUS
  <2>2. id[a] \in Id /\ n \in Id /\ a \in Addr
    BY <2>1, Constants
  <2>3. Claim(id[a], a) /\ Claim(n, a)
    BY <1>1, <1>2 DEF Claim
  <2>4. QED BY <2>1, <2>2, <2>3 DEF NamesInv, OneName
<1>6. n # 0
  BY DEF Reserved
<1>7. IdsStay /\ \A b \in Server : id[b] # 0 => id'[b] # 0
  BY <1>1, <1>4, <1>5, <1>6 DEF IdsStay
<1>8. QED BY <1>1, <1>2, <1>4, <1>7

\* A server obeys RUN: the node's id was claimed for it before.
LEMMA HandleRunNames ==
    ASSUME GraphOK(graph), NamesInv, NEW m, HandleRun(m) PROVE NamesInv'
<1> USE DEF NamesInv
<1>1. PICK a \in Server, n \in Reserved :
            /\ m = ToServer("RUN", a, n) /\ m \in net
            /\ id' = [id EXCEPT ![a] = n]
  BY RunFacts
<1>2. IdsStay /\ \A b \in Server : id[b] # 0 => id'[b] # 0
  BY RunFacts
<1>3. /\ clusters' = clusters /\ fresh' = fresh /\ next' = next /\ conn' = conn
      /\ phase' = phase /\ graph' = graph /\ ids' = ids /\ known' = known
      /\ k' = k /\ tries' = tries /\ gets' = gets /\ wait' = wait
  BY DEF HandleRun, trackerVars, clientVars
<1>4. odd' \in 0 .. MaxOdd /\ net' \subseteq net \cup {Ack}
  BY Consumed DEF HandleRun, DataOK
<1>5. Jobs' = Jobs /\ Job' = Job
  BY <1>3 DEF Jobs, Job
<1>6. n \in Id /\ id \in [Server -> Id \cup {0}]
  BY Constants DEF DataOK
<1>7. DataOK'
  <2>1. id' \in [Server -> Id \cup {0}]
    BY <1>1, <1>6
  <2>2. \A o \in net' : MessageOK(o)
    BY <1>4 DEF DataOK, MessageOK
  <2>3. QED BY <1>3, <1>4, <2>1, <2>2 DEF DataOK, TrackerTypeOK
<1>8. phase # "off"
  BY <1>1 DEF LoopOK
<1>9. LoopOK'
  BY <1>3, <1>5, <1>8 DEF LoopOK
<1>10. /\ \A i, b : Point(i, b) \in net' => Point(i, b) \in net
       /\ \A c, b, i : ToServer(c, b, i) \in net' => ToServer(c, b, i) \in net
  <2>1. \A i, b : Point(i, b) # Ack
    BY DEF Point, Ack
  <2>2. \A c, b, i : ToServer(c, b, i) # Ack
    BY DEF ToServer, Ack
  <2>3. QED BY <1>4, <2>1, <2>2
<1>11. NoNewClaim
  <2>1. SUFFICES ASSUME NEW i \in Id, NEW b \in Addr, Claim(i, b)' PROVE Claim(i, b)
    BY DEF NoNewClaim
  <2>2. CASE b \in Server /\ id'[b] = i
    <3>1. id[b] = i \/ (b = a /\ i = n)
      BY <1>1, <1>6, <2>2
    <3>2. QED BY <1>1, <2>2, <3>1 DEF Claim
  <2>3. QED BY <1>3, <1>10, <2>1, <2>2 DEF Claim
<1>12. OneHome' /\ OneName' /\ ClaimOK'
  BY <1>2, <1>3, <1>11, ClaimsStay DEF Handed
<1>13. Settled'
  <2>1. SUFFICES ASSUME NEW i \in Reserved, NEW b \in Server,
                        clusters'[i] = b \/ known'[i] = b \/ Point(i, b) \in net'
                 PROVE  id'[b] = i
    BY DEF Settled
  <2>2. id[b] = i
    BY <1>3, <1>10, <2>1 DEF Settled
  <2>3. QED BY <1>2, <2>2 DEF IdsStay
<1>14. NoneRuns' /\ RunsInTurn'
  <2>1. k \in Nat /\ DOMAIN graph.nodes \subseteq Nat
    BY DEF LoopOK, GraphOK
  <2>2. QED BY <1>3, <1>11, <2>1, RunsStay
<1>15. ListOK'
  <2>1. Ack.cmd # "LISTED"
    BY DEF Ack
  <2>2. QED BY <1>3, <1>4, <2>1 DEF ListOK, Handed
<1>16. Connects'
  BY <1>2, <1>3, <1>10, ConnectsStay
<1>17. QED BY <1>7, <1>9, <1>12, <1>13, <1>14, <1>15, <1>16

\* A server obeys CONNECT: its node has that edge in the graph.
LEMMA HandleConnectNames ==
    ASSUME GraphOK(graph), NamesInv, NEW m, HandleConnect(m) PROVE NamesInv'
<1> USE DEF NamesInv
<1>1. PICK a \in Server, n \in Reserved : m = ToServer("CONNECT", a, n) /\ m \in net
  BY MessageKinds DEF HandleConnect, DataOK
<1>2. m.to = a /\ m.id = n
  BY <1>1 DEF ToServer
<1>3. conn' = conn \cup {[at |-> a, own |-> id[a], other |-> n]}
  BY <1>2 DEF HandleConnect
<1>4. PICK e \in ToSet(graph.edges) : e.from = id[a] /\ e.to = n
  BY <1>1 DEF Connects
<1>5. id[a] \in Reserved /\ id[a] \in Id /\ n \in Id
  <2>1. e.from \in Reserved
    BY DEF GraphOK, ToSet
  <2>2. QED BY <1>4, <2>1, Constants
<1>6. /\ clusters' = clusters /\ fresh' = fresh /\ next' = next /\ id' = id
      /\ phase' = phase /\ graph' = graph /\ ids' = ids /\ known' = known
      /\ k' = k /\ tries' = tries /\ gets' = gets /\ wait' = wait
  BY DEF HandleConnect, trackerVars, clientVars
<1>7. odd' \in 0 .. MaxOdd /\ net' \subseteq net \cup {Ack}
  BY Consumed DEF HandleConnect, DataOK
<1>8. Jobs' = Jobs /\ Job' = Job
  BY <1>6 DEF Jobs, Job
<1>9. DataOK'
  <2>1. conn' \subseteq [at : Server, own : Id, other : Id]
    BY <1>3, <1>5 DEF DataOK
  <2>2. \A o \in net' : MessageOK(o)
    BY <1>7 DEF DataOK, MessageOK
  <2>3. QED BY <1>6, <1>7, <2>1, <2>2 DEF DataOK, TrackerTypeOK
<1>10. phase # "off"
  BY <1>1 DEF LoopOK
<1>11. LoopOK'
  BY <1>6, <1>8, <1>10 DEF LoopOK
<1>12. /\ \A i, b : Point(i, b) \in net' => Point(i, b) \in net
       /\ \A c, b, i : ToServer(c, b, i) \in net' => ToServer(c, b, i) \in net
  <2>1. \A i, b : Point(i, b) # Ack
    BY DEF Point, Ack
  <2>2. \A c, b, i : ToServer(c, b, i) # Ack
    BY DEF ToServer, Ack
  <2>3. QED BY <1>7, <2>1, <2>2
<1>13. NoNewClaim
  BY <1>6, <1>12 DEF NoNewClaim, Claim
<1>14. OneHome' /\ OneName' /\ ClaimOK'
  BY <1>6, <1>13, ClaimsStay DEF Handed
<1>15. Settled'
  BY <1>6, <1>12 DEF Settled
<1>16. NoneRuns' /\ RunsInTurn'
  <2>1. k \in Nat /\ DOMAIN graph.nodes \subseteq Nat
    BY DEF LoopOK, GraphOK
  <2>2. QED BY <1>6, <1>13, <2>1, RunsStay
<1>17. ListOK'
  <2>1. Ack.cmd # "LISTED"
    BY DEF Ack
  <2>2. QED BY <1>6, <1>7, <2>1 DEF ListOK, Handed
<1>18. Connects'
  <2>1. ASSUME NEW b \in Server, NEW i \in Reserved, ToServer("CONNECT", b, i) \in net'
        PROVE  \E x \in ToSet(graph.edges) : x.from = id[b] /\ x.to = i
    BY <1>12, <2>1 DEF Connects
  <2>2. ASSUME NEW c \in conn'
        PROVE  /\ c.own = id[c.at] /\ c.own \in Reserved
               /\ \E x \in ToSet(graph.edges) : x.from = c.own /\ x.to = c.other
    <3>1. CASE c \in conn
      BY <3>1 DEF Connects
    <3>2. CASE c = [at |-> a, own |-> id[a], other |-> n]
      <4>1. c.at = a /\ c.own = id[a] /\ c.other = n
        BY <3>2
      <4>2. QED BY <1>4, <1>5, <4>1
    <3>3. QED BY <1>3, <3>1, <3>2
  <2>3. QED BY <1>6, <2>1, <2>2 DEF Connects
<1>19. QED BY <1>9, <1>11, <1>14, <1>15, <1>16, <1>17, <1>18

-----------------------------------------------------------------------------
(* A server or the time server speaks to the tracker.                      *)

\* What the client, the network and the connections have to do with an announcement.
LEMMA AnnounceRest ==
    ASSUME GraphOK(graph), NamesInv, UNCHANGED <<conn, net, odd, clientVars>>,
           IdsStay, Handed \subseteq Handed'
    PROVE  LoopOK' /\ ListOK' /\ Connects'
<1> USE DEF NamesInv
<1>1. /\ conn' = conn /\ net' = net /\ odd' = odd
      /\ phase' = phase /\ graph' = graph /\ ids' = ids /\ known' = known
      /\ k' = k /\ tries' = tries /\ gets' = gets /\ wait' = wait
  BY DEF clientVars
<1>2. Jobs' = Jobs /\ Job' = Job
  BY <1>1 DEF Jobs, Job
<1>3. LoopOK'
  BY <1>1, <1>2 DEF LoopOK
<1>4. ListOK'
  <2>1. phase' \in {"off", "list"} => \A m \in net' : m.cmd = "LISTED" =>
            /\ ToSet(m.ids) \subseteq Handed' \cup {TIME_SERVER_ID}
            /\ \A i, j \in DOMAIN m.ids : m.ids[i] = m.ids[j] => i = j
    BY <1>1 DEF ListOK
  <2>2. ToSet(ids') \subseteq Handed'
    BY <1>1 DEF ListOK
  <2>3. /\ \A i, j \in DOMAIN ids' : ids'[i] = ids'[j] => i = j
        /\ phase' \in {"locate", "run"} => Len(graph'.nodes) <= Len(ids')
    BY <1>1 DEF ListOK
  <2>4. QED BY <2>1, <2>2, <2>3 DEF ListOK
<1>5. Connects'
  BY <1>1, ConnectsStay
<1>6. QED BY <1>3, <1>4, <1>5

\* OnIdUpdate adds the sender's entry and no other.
LEMMA UpdateFacts ==
    ASSUME TrackerTypeOK, NEW a \in Addr, NEW i \in Id, OnIdUpdate(a, i)
    PROVE  /\ TrackerTypeOK' /\ next' = next
           /\ \A j \in Id : \A b \in Addr :
                clusters'[j] = b => clusters[j] = b \/ (j = i /\ b = a)
<1>1. clusters' = [j \in Id |-> IF j = i THEN a
                                ELSE IF j = FindByValue(a) THEN NoAddr ELSE clusters[j]]
      /\ fresh' = fresh \cup {i} /\ next' = next
  BY DEF OnIdUpdate
<1>2. clusters \in [Id -> Addr \cup {NoAddr}] /\ fresh \subseteq Id
      /\ next \in RESERVED_CLUSTER_ID + 1 .. MaxIssued + 1
  BY DEF TrackerTypeOK
<1>3. clusters' \in [Id -> Addr \cup {NoAddr}]
  BY <1>1, <1>2
<1>4. \A j \in Id : \A b \in Addr : clusters'[j] = b => clusters[j] = b \/ (j = i /\ b = a)
  BY <1>1, Constants
<1>5. QED BY <1>1, <1>2, <1>3, <1>4 DEF TrackerTypeOK

\* "ID n": the tracker records an id that the sender has already.
LEMMA AnnounceOld ==
    ASSUME GraphOK(graph), NamesInv, NEW s \in Server, id[s] # 0, OnIdUpdate(s, id[s]),
           UNCHANGED <<serverVars, net, odd, clientVars>>
    PROVE  NamesInv'
<1> USE DEF NamesInv
<1>1. /\ id' = id /\ conn' = conn /\ net' = net /\ odd' = odd
      /\ phase' = phase /\ graph' = graph /\ ids' = ids /\ known' = known
      /\ k' = k /\ tries' = tries /\ gets' = gets /\ wait' = wait
  BY DEF serverVars, clientVars
<1>2. id[s] \in Id /\ s \in Addr
  BY Constants DEF DataOK
<1>3. /\ TrackerTypeOK' /\ next' = next
      /\ \A j \in Id : \A b \in Addr :
            clusters'[j] = b => clusters[j] = b \/ (j = id[s] /\ b = s)
  BY <1>2, UpdateFacts DEF DataOK
<1>4. DataOK'
  BY <1>1, <1>3 DEF DataOK
<1>5. NoNewClaim
  BY <1>1, <1>3 DEF NoNewClaim, Claim
<1>6. OneHome' /\ OneName' /\ ClaimOK'
  BY <1>1, <1>3, <1>5, ClaimsStay DEF Handed
<1>7. Settled'
  <2>1. Reserved \subseteq Id /\ Server \subseteq Addr
    BY Constants
  <2>2. QED BY <1>1, <1>3, <2>1 DEF Settled
<1>8. NoneRuns' /\ RunsInTurn'
  <2>1. k \in Nat /\ DOMAIN graph.nodes \subseteq Nat
    BY DEF LoopOK, GraphOK
  <2>2. QED BY <1>1, <1>5, <2>1, RunsStay
<1>9. LoopOK' /\ ListOK' /\ Connects'
  <2>1. IdsStay /\ Handed \subseteq Handed'
    BY <1>1, <1>3 DEF IdsStay, Handed
  <2>2. QED BY <1>1, <2>1, AnnounceRest
<1>10. QED BY <1>4, <1>6, <1>7, <1>8, <1>9

\* A new claim that disputes no other one.
LEMMA ClaimsGrow ==
    ASSUME OneHome, OneName, ClaimOK, Handed \subseteq Handed',
           NEW i \in Id, NEW a \in Addr,
           \A j \in Id : \A b \in Addr : Claim(j, b)' => Claim(j, b) \/ (j = i /\ b = a),
           \A b \in Addr : Claim(i, b) => b = a,
           \A j \in Id : (Claim(j, a) /\ (i \in Reserved <=> j \in Reserved)) => j = i,
           \A s \in Server : id[s] # 0 => id'[s] # 0,
           i \in Reserved \cup Handed' \cup {TIME_SERVER_ID},
           i = TIME_SERVER_ID <=> a = TimeServer,
           a \in Server => id'[a] # 0
    PROVE  OneHome' /\ OneName' /\ ClaimOK'
<1>1. OneHome'
  <2>1. SUFFICES ASSUME NEW j \in Id, NEW b \in Addr, NEW c \in Addr, Claim(j, b)', Claim(j, c)'
                 PROVE  b = c
    BY DEF OneHome
  <2>2. Claim(j, b) \/ (j = i /\ b = a)
    BY <2>1
  <2>3. Claim(j, c) \/ (j = i /\ c = a)
    BY <2>1
  <2>4. QED BY <2>2, <2>3 DEF OneHome
<1>2. OneName'
  <2>1. SUFFICES ASSUME NEW j \in Id, NEW h \in Id, NEW b \in Addr, Claim(j, b)', Claim(h, b)',
                        j \in Reserved <=> h \in Reserved
                 PROVE  j = h
    BY DEF OneName
  <2>2. Claim(j, b) \/ (j = i /\ b = a)
    BY <2>1
  <2>3. Claim(h, b) \/ (h = i /\ b = a)
    BY <2>1
  <2>4. QED BY <2>1, <2>2, <2>3 DEF OneName
<1>3. ClaimOK'
  <2>1. SUFFICES ASSUME NEW j \in Id, NEW b \in Addr, Claim(j, b)'
                 PROVE  /\ j \in Reserved \cup Handed' \cup {TIME_SERVER_ID}
                        /\ j = TIME_SERVER_ID <=> b = TimeServer
                        /\ b \in Server => id'[b] # 0
    BY DEF ClaimOK
  <2>2. Claim(j, b) \/ (j = i /\ b = a)
    BY <2>1
  <2>3. CASE Claim(j, b)
    BY <2>3 DEF ClaimOK
  <2>4. QED BY <2>2, <2>3
<1>4. QED BY <1>1, <1>2, <1>3

\* "ID 0": the tracker gives the sender its next number.
LEMMA AnnounceNew ==
    ASSUME GraphOK(graph), NamesInv, NEW s \in Server, id[s] = 0, OnIdRequest(s),
           id' = [id EXCEPT ![s] = Granted(s)], UNCHANGED <<conn, net, odd, clientVars>>
    PROVE  NamesInv'
<1> USE DEF NamesInv
<1>1. /\ conn' = conn /\ net' = net /\ odd' = odd
      /\ phase' = phase /\ graph' = graph /\ ids' = ids /\ known' = known
      /\ k' = k /\ tries' = tries /\ gets' = gets /\ wait' = wait
  BY DEF clientVars
<1>2. s \in Addr /\ s # TimeServer
  BY Constants
<1>3. \A i \in Id : ~ Claim(i, s)
  BY <1>2 DEF ClaimOK
<1>4. Granted(s) = next
  <2>1. \A i \in Id : clusters[i] # s
    BY <1>3 DEF Claim
  <2>2. FindByValue(s) = 0
    BY <2>1 DEF FindByValue
  <2>3. QED BY <2>2 DEF Granted
<1>5. /\ next <= MaxIssued /\ clusters' = [clusters EXCEPT ![next] = s]
      /\ next' = next + 1 /\ fresh' = fresh \cup {next}
      /\ id' = [id EXCEPT ![s] = next]
  <2>1. \A i \in Id : clusters[i] # s
    BY <1>3 DEF Claim
  <2>2. FindByValue(s) = 0
    BY <2>1 DEF FindByValue
  <2>3. QED BY <1>4, <2>2 DEF OnIdRequest
<1>6. /\ next \in Id \ Reserved /\ next \in RESERVED_CLUSTER_ID + 1 .. MaxIssued
      /\ next # TIME_SERVER_ID /\ next \notin Handed /\ next # 0
      /\ next \in Handed' /\ Handed \subseteq Handed'
  <2>1. next \in RESERVED_CLUSTER_ID + 1 .. MaxIssued
    BY <1>5 DEF DataOK, TrackerTypeOK
  <2>2. QED BY <1>5, <2>1, IdAssumption, TimeServerIdAssumption DEF Id, Reserved, Handed
<1>7. DataOK'
  <2>1. clusters' \in [Id -> Addr \cup {NoAddr}] /\ fresh' \subseteq Id
        /\ next' \in RESERVED_CLUSTER_ID + 1 .. MaxIssued + 1
    <3>1. clusters' \in [Id -> Addr \cup {NoAddr}]
      BY <1>2, <1>5, <1>6 DEF DataOK, TrackerTypeOK
    <3>2. next' \in RESERVED_CLUSTER_ID + 1 .. MaxIssued + 1
      BY <1>5, <1>6, IdAssumption
    <3>3. QED BY <1>5, <1>6, <3>1, <3>2 DEF DataOK, TrackerTypeOK
  <2>2. id' \in [Server -> Id \cup {0}]
    BY <1>5, <1>6 DEF DataOK
  <2>3. QED BY <1>1, <2>1, <2>2 DEF DataOK, TrackerTypeOK
<1>8. \A j \in Id : \A b \in Addr : Claim(j, b)' => Claim(j, b) \/ (j = next /\ b = s)
  <2>1. SUFFICES ASSUME NEW j \in Id, NEW b \in Addr, Claim(j, b)'
                 PROVE  Claim(j, b) \/ (j = next /\ b = s)
    OBVIOUS
  <2>2. clusters'[j] = b => clusters[j] = b \/ (j = next /\ b = s)
    BY <1>5 DEF DataOK, TrackerTypeOK
  <2>3. (b \in Server /\ id'[b] = j) => (b \in Server /\ id[b] = j) \/ (j = next /\ b = s)
    BY <1>5 DEF DataOK
  <2>4. QED BY <1>1, <2>1, <2>2, <2>3 DEF Claim
<1>9. \A b \in Addr : ~ Claim(next, b)
  BY <1>6 DEF ClaimOK
<1>10. \A b \in Server : id[b] # 0 => id'[b] # 0
  BY <1>5, <1>6 DEF DataOK
<1>11. id'[s] # 0
  BY <1>5, <1>6 DEF DataOK
<1>12. OneHome' /\ OneName' /\ ClaimOK'
  BY <1>2, <1>3, <1>6, <1>8, <1>9, <1>10, <1>11, ClaimsGrow
<1>13. IdsStay
  <2>1. 0 \notin Reserved
    BY DEF Reserved
  <2>2. QED BY <1>5, <2>1 DEF IdsStay, DataOK
<1>14. ASSUME NEW n \in Reserved, NEW b \in Addr, Claim(n, b)' PROVE Claim(n, b)
  <2>1. n \in Id /\ n # next
    BY <1>6, Constants
  <2>2. QED BY <1>8, <1>14, <2>1
<1>15. Settled'
  <2>1. SUFFICES ASSUME NEW n \in Reserved, NEW b \in Server,
                        clusters'[n] = b \/ known'[n] = b \/ Point(n, b) \in net'
                 PROVE  id'[b] = n
    BY DEF Settled
  <2>2. n \in Id /\ n # next
    BY <1>6, Constants
  <2>3. clusters[n] = b \/ known[n] = b \/ Point(n, b) \in net
    BY <1>1, <1>5, <2>1, <2>2 DEF DataOK, TrackerTypeOK
  <2>4. id[b] = n
    BY <2>3 DEF Settled
  <2>5. QED BY <1>13, <2>4 DEF IdsStay
<1>16. NoneRuns'
  BY <1>1, <1>14 DEF NoneRuns
<1>17. RunsInTurn'
  <2>1. SUFFICES ASSUME phase' = "run", NEW n \in Reserved, NEW b \in Addr, Claim(n, b)'
                 PROVE  \E j \in DOMAIN ids' \cap DOMAIN graph'.nodes :
                            j <= k' /\ graph'.nodes[j].id = n /\ known'[ids'[j]] = b
    BY DEF RunsInTurn
  <2>2. Claim(n, b) /\ phase = "run"
    BY <1>1, <1>14, <2>1
  <2>3. QED BY <1>1, <2>2 DEF RunsInTurn
<1>18. LoopOK' /\ ListOK' /\ Connects'
  BY <1>6, <1>13, AnnounceRest
<1>19. QED BY <1>7, <1>12, <1>15, <1>16, <1>17, <1>18

\* The time server registers itself, under an id no one else claims.
LEMMA AnnounceTimeServerNames ==
    ASSUME GraphOK(graph), NamesInv, AnnounceTimeServer PROVE NamesInv'
<1> USE DEF NamesInv
<1>1. /\ id' = id /\ conn' = conn /\ net' = net /\ odd' = odd
      /\ phase' = phase /\ graph' = graph /\ ids' = ids /\ known' = known
      /\ k' = k /\ tries' = tries /\ gets' = gets /\ wait' = wait
  BY DEF AnnounceTimeServer, serverVars, clientVars
<1>2. TIME_SERVER_ID \in Id /\ TIME_SERVER_ID \notin Reserved /\ TimeServer \in Addr
      /\ TimeServer \notin Server
  BY Constants
<1>3. /\ TrackerTypeOK' /\ next' = next
      /\ \A j \in Id : \A b \in Addr :
            clusters'[j] = b => clusters[j] = b \/ (j = TIME_SERVER_ID /\ b = TimeServer)
  BY <1>2, UpdateFacts DEF DataOK, AnnounceTimeServer
<1>4. DataOK'
  BY <1>1, <1>3 DEF DataOK
<1>5. \A j \in Id : \A b \in Addr : Claim(j, b)' =>
            Claim(j, b) \/ (j = TIME_SERVER_ID /\ b = TimeServer)
  BY <1>1, <1>3 DEF Claim
<1>6. Handed' = Handed
  BY <1>3 DEF Handed
<1>7. OneHome' /\ OneName' /\ ClaimOK'
  <2>1. /\ \A b \in Addr : Claim(TIME_SERVER_ID, b) => b = TimeServer
        /\ \A j \in Id : Claim(j, TimeServer) => j = TIME_SERVER_ID
    BY <1>2 DEF ClaimOK
  <2>2. QED BY <1>1, <1>2, <1>5, <1>6, <2>1, ClaimsGrow
<1>8. Settled'
  <2>1. Reserved \subseteq Id /\ Server \subseteq Addr
    BY Constants
  <2>2. QED BY <1>1, <1>2, <1>3, <2>1 DEF Settled
<1>9. ASSUME NEW n \in Reserved, NEW b \in Addr, Claim(n, b)' PROVE Claim(n, b)
  BY <1>2, <1>5, <1>9, Constants
<1>10. NoneRuns'
  BY <1>1, <1>9 DEF NoneRuns
<1>11. RunsInTurn'
  <2>1. SUFFICES ASSUME phase' = "run", NEW n \in Reserved, NEW b \in Addr, Claim(n, b)'
                 PROVE  \E j \in DOMAIN ids' \cap DOMAIN graph'.nodes :
                            j <= k' /\ graph'.nodes[j].id = n /\ known'[ids'[j]] = b
    BY DEF RunsInTurn
  <2>2. Claim(n, b) /\ phase = "run"
    BY <1>1, <1>9, <2>1
  <2>3. QED BY <1>1, <2>2 DEF RunsInTurn
<1>12. LoopOK' /\ ListOK' /\ Connects'
  <2>1. IdsStay /\ Handed \subseteq Handed' /\ UNCHANGED <<conn, net, odd, clientVars>>
    BY <1>1, <1>6 DEF IdsStay, clientVars
  <2>2. QED BY <2>1, AnnounceRest
<1>13. QED BY <1>4, <1>7, <1>8, <1>10, <1>11, <1>12

-----------------------------------------------------------------------------
(* The client sends.                                                       *)

\* The job that the client is at.
LEMMA JobFacts ==
    ASSUME GraphOK(graph), DataOK, k \in 1 .. Len(Jobs)
    PROVE  /\ phase \in GetLoops => k \in DOMAIN ids /\ Job.for = ids[k]
           /\ phase = "run" => /\ k \in DOMAIN ids /\ k \in DOMAIN graph.nodes
                               /\ Job.for = ids[k] /\ Job.cmd = "RUN"
                               /\ Job.id = graph.nodes[k].id
           /\ phase = "add" => /\ k \in DOMAIN graph.nodes /\ Job.for = graph.nodes[k].id
                               /\ Job.cmd = "ADD" /\ Job.id = 0
           /\ phase = "connect" => /\ k \in DOMAIN graph.edges /\ Job.for = graph.edges[k].from
                                   /\ Job.cmd = "CONNECT" /\ Job.id = graph.edges[k].to
           /\ phase \in GetLoops \cup CommandLoops
           /\ Job.for \in Id \ {TIME_SERVER_ID}
<1>1. Job = Jobs[k]
  BY DEF Job
<1>2. ids \in Seq(Id \ {TIME_SERVER_ID})
  BY DEF DataOK
<1>3. JobsOK(Jobs, phase, graph, ids)
  <2>1. ids \in Seq(Id)
    BY <1>2, SeqMonotonic
  <2>2. QED BY <2>1, JobsAre, JobsOfFacts
<1>4. Len(ids) \in Nat /\ DOMAIN ids = 1 .. Len(ids)
      /\ \A i \in 1 .. Len(ids) : ids[i] \in Id \ {TIME_SERVER_ID}
  BY <1>2, LenProperties, ElementOfSeq
<1>5. \A n \in Reserved : n \in Id \ {TIME_SERVER_ID}
  BY Constants
<1> USE DEF GetLoops, CommandLoops
<1>6. CASE phase \in GetLoops
  <2>1. Len(Jobs) = Len(ids) /\ \A i \in 1 .. Len(Jobs) : Jobs[i] = [for |-> ids[i], cmd |-> "GET", id |-> ids[i]]
    BY <1>3, <1>6 DEF JobsOK
  <2>2. k \in 1 .. Len(ids) /\ Job = [for |-> ids[k], cmd |-> "GET", id |-> ids[k]]
    BY <1>1, <2>1
  <2>3. Job.for = ids[k]
    BY <2>2
  <2>4. QED BY <1>4, <1>6, <2>2, <2>3
<1>7. CASE phase = "run"
  <2>1. /\ Len(Jobs) = IF Len(ids) < Len(graph.nodes) THEN Len(ids) ELSE Len(graph.nodes)
        /\ \A i \in 1 .. Len(Jobs) : Jobs[i] = [for |-> ids[i], cmd |-> "RUN", id |-> graph.nodes[i].id]
    BY <1>3, <1>7 DEF JobsOK
  <2>2. k \in 1 .. Len(ids) /\ k \in 1 .. Len(graph.nodes)
    BY <1>1, <1>4, <2>1 DEF GraphOK
  <2>3. Job = [for |-> ids[k], cmd |-> "RUN", id |-> graph.nodes[k].id]
    BY <1>1, <2>1
  <2>4. Job.for = ids[k] /\ Job.cmd = "RUN" /\ Job.id = graph.nodes[k].id
    BY <2>3
  <2>5. k \in DOMAIN ids /\ k \in DOMAIN graph.nodes
    BY <1>4, <2>2 DEF GraphOK
  <2>6. QED BY <1>4, <1>7, <2>2, <2>4, <2>5
<1>8. CASE phase = "add"
  <2>1. /\ Len(Jobs) = Len(graph.nodes)
        /\ \A i \in 1 .. Len(Jobs) : Jobs[i] = [for |-> graph.nodes[i].id, cmd |-> "ADD", id |-> 0]
    BY <1>3, <1>8 DEF JobsOK
  <2>2. k \in 1 .. Len(graph.nodes)
        /\ Job = [for |-> graph.nodes[k].id, cmd |-> "ADD", id |-> 0]
    BY <1>1, <2>1
  <2>3. Job.for = graph.nodes[k].id /\ Job.cmd = "ADD" /\ Job.id = 0
    BY <2>2
  <2>4. k \in DOMAIN graph.nodes /\ graph.nodes[k].id \in Reserved
    BY <2>2 DEF GraphOK
  <2>5. QED BY <1>5, <1>8, <2>3, <2>4
<1>9. CASE phase = "connect"
  <2>1. /\ Len(Jobs) = Len(graph.edges)
        /\ \A i \in 1 .. Len(Jobs) :
            Jobs[i] = [for |-> graph.edges[i].from, cmd |-> "CONNECT", id |-> graph.edges[i].to]
    BY <1>3, <1>9 DEF JobsOK
  <2>2. k \in 1 .. Len(graph.edges)
        /\ Job = [for |-> graph.edges[k].from, cmd |-> "CONNECT", id |-> graph.edges[k].to]
    BY <1>1, <2>1
  <2>3. Job.for = graph.edges[k].from /\ Job.cmd = "CONNECT" /\ Job.id = graph.edges[k].to
    BY <2>2
  <2>4. k \in DOMAIN graph.edges /\ graph.edges[k].from \in Reserved
    BY <2>2 DEF GraphOK
  <2>5. QED BY <1>5, <1>9, <2>3, <2>4
<1>10. CASE phase \notin GetLoops \cup CommandLoops
  <2>1. Len(Jobs) = 0
    BY <1>3, <1>10 DEF JobsOK
  <2>2. QED BY <1>1, <2>1
<1>11. QED BY <1>6, <1>7, <1>8, <1>9, <1>10

\* Within a loop the client asks, or goes on to the next job, and never loses an
\* address.
LEMMA LoopStep ==
    ASSUME GraphOK(graph), NamesInv, LoopOK', k' >= k, UNCHANGED <<phase, ids>>,
           NEW o, Moves(o), \A m \in o : m.cmd # "LISTED",
           known' \in [Id -> Addr \cup {NoAddr}],
           \A i \in Id : known[i] \in Addr => known'[i] = known[i]
    PROVE  NamesInv'
<1>1. /\ NoNewClaim /\ OneHome' /\ OneName' /\ ClaimOK' /\ Settled' /\ Connects'
      /\ Handed' = Handed /\ \A m \in net' : MessageOK(m)
      /\ TrackerTypeOK' /\ id' = id /\ conn' = conn /\ graph' = graph
  BY MoveFacts
<1> USE DEF NamesInv
<1>2. DataOK'
  BY <1>1 DEF DataOK, Moves
<1>3. NoneRuns' /\ RunsInTurn'
  <2>1. k \in Nat /\ k' \in Nat /\ DOMAIN graph.nodes \subseteq Nat
    BY DEF LoopOK, GraphOK
  <2>2. \A j \in DOMAIN ids : ids[j] \in Id
    BY LenProperties, ElementOfSeq DEF DataOK
  <2>3. QED BY <1>1, <2>1, <2>2, RunsStay
<1>4. ListOK'
  BY <1>1 DEF ListOK, Moves
<1>5. QED BY <1>1, <1>2, <1>3, <1>4

\* The client sends a question, or nothing, or goes on to the next job.
LEMMA QuietStep ==
    ASSUME GraphOK(graph), NamesInv, LoopOK', k' >= k, UNCHANGED <<phase, ids, known>>,
           NEW o, Moves(o), \A m \in o : m.cmd # "LISTED"
    PROVE  NamesInv'
<1>1. /\ known' \in [Id -> Addr \cup {NoAddr}]
      /\ \A i \in Id : known[i] \in Addr => known'[i] = known[i]
  BY DEF NamesInv, DataOK
<1>2. QED BY <1>1, LoopStep

\* A question to the tracker claims nothing.
LEMMA SendQuietly ==
    ASSUME GraphOK(graph), NamesInv, phase # "off", NEW m,
           m = ToTracker("LIST", 0) \/ \E i \in Id : m = ToTracker("GET", i),
           NEW reply \in {"list", "get"}, Send(m, reply), gets' \in 0 .. GetRetries,
           reply = "list" => phase = "list",
           reply = "get" => /\ phase \in GetLoops \cup CommandLoops /\ k <= Len(Jobs)
                            /\ phase \in CommandLoops => known[Job.for] = NoAddr
    PROVE  NamesInv'
<1>1. /\ net' = net \cup {m} /\ wait' = reply
      /\ UNCHANGED <<trackerVars, serverVars, odd, phase, graph, ids, known, k, tries>>
  BY DEF Send
<1>2. MessageOK(m) /\ m.cmd \in {"LIST", "GET"}
  BY DEF MessageOK, ToTracker
<1>3. Moves({m})
  BY <1>1, <1>2 DEF Moves, NamesInv, DataOK
<1>4. Jobs' = Jobs /\ Job' = Job
  BY <1>1 DEF Jobs, Job
<1>5. LoopOK'
  BY <1>1, <1>4 DEF LoopOK, NamesInv, GetLoops, CommandLoops
<1>6. k' >= k /\ \A x \in {m} : x.cmd # "LISTED"
  BY <1>1, <1>2 DEF NamesInv, LoopOK
<1>7. QED BY <1>1, <1>3, <1>5, <1>6, QuietStep

\* createNetwork asks for the list.
LEMMA AskListNames ==
    ASSUME GraphOK(graph), NamesInv, AskList PROVE NamesInv'
<1>1. phase = "list" /\ Send(ToTracker("LIST", 0), "list") /\ gets' = gets
  BY DEF AskList
<1>2. gets' \in 0 .. GetRetries /\ phase # "off"
  BY <1>1 DEF NamesInv, LoopOK
<1>3. QED BY <1>1, <1>2, SendQuietly

\* getCluster asks for an address.
LEMMA LocateNames ==
    ASSUME GraphOK(graph), NamesInv, Locate PROVE NamesInv'
<1>1. /\ phase \in GetLoops /\ k <= Len(Jobs) /\ gets' = gets
      /\ Send(ToTracker("GET", Job.for), "get")
  BY DEF Locate
<1>2. gets' \in 0 .. GetRetries /\ phase # "off" /\ phase \notin CommandLoops
  BY <1>1 DEF NamesInv, LoopOK, GetLoops, CommandLoops
<1>3. Job.for \in Id
  <2>1. k \in 1 .. Len(Jobs)
    BY <1>1 DEF NamesInv, LoopOK
  <2>2. QED BY <2>1, JobFacts DEF NamesInv
<1>4. QED BY <1>1, <1>2, <1>3, SendQuietly

\* command asks for an address it does not know.
LEMMA AskAddressNames ==
    ASSUME GraphOK(graph), NamesInv, AskAddress PROVE NamesInv'
<1>1. /\ phase \in CommandLoops /\ k <= Len(Jobs) /\ gets > 0 /\ gets' = gets - 1
      /\ known[Job.for] = NoAddr /\ Send(ToTracker("GET", Job.for), "get")
  BY DEF AskAddress, InCommand, InLoop
<1>2. gets' \in 0 .. GetRetries /\ phase # "off"
  BY <1>1, RetryAssumption DEF NamesInv, LoopOK, CommandLoops
<1>3. Job.for \in Id
  <2>1. k \in 1 .. Len(Jobs)
    BY <1>1 DEF NamesInv, LoopOK
  <2>2. QED BY <2>1, JobFacts DEF NamesInv
<1>4. QED BY <1>1, <1>2, <1>3, SendQuietly

\* command gives up without an address.
LEMMA SendNothingNames ==
    ASSUME GraphOK(graph), NamesInv, SendNothing PROVE NamesInv'
<1>1. /\ phase \in CommandLoops /\ k <= Len(Jobs) /\ wait' = "reply"
      /\ UNCHANGED <<trackerVars, serverVars, net, odd, phase, graph, ids, known, cursor>>
  BY DEF SendNothing, InCommand, InLoop
<1>2. k' = k /\ tries' = tries /\ gets' = gets
  BY <1>1 DEF cursor
<1>3. Jobs' = Jobs /\ Job' = Job
  BY <1>1, <1>2 DEF Jobs, Job
<1>4. LoopOK'
  BY <1>1, <1>2, <1>3 DEF LoopOK, NamesInv, CommandLoops
<1>5. Moves({}) /\ k' >= k
  BY <1>1, <1>2 DEF Moves, NamesInv, DataOK, LoopOK
<1>6. QED BY <1>1, <1>4, <1>5, QuietStep

\* A node or an edge without a positive label is passed over.
LEMMA SkipNames ==
    ASSUME GraphOK(graph), NamesInv, Skip PROVE NamesInv'
<1>1. /\ phase \in CommandLoops /\ k <= Len(Jobs) /\ wait = "no" /\ k' = k + 1
      /\ UNCHANGED <<trackerVars, serverVars, net, odd, phase, graph, ids, known, tries,
                     gets, wait>>
  BY DEF Skip, InLoop
<1>2. Jobs' = Jobs
  BY <1>1 DEF Jobs
<1>3. Len(Jobs) \in Nat
  <2>1. ids \in Seq(Id)
    BY SeqMonotonic DEF NamesInv, DataOK
  <2>2. QED BY <2>1, JobsAre, JobsOfFacts DEF JobsOK
<1>4. LoopOK'
  BY <1>1, <1>2, <1>3 DEF LoopOK, NamesInv, CommandLoops
<1>5. Moves({}) /\ k' >= k
  BY <1>1 DEF Moves, NamesInv, DataOK, LoopOK
<1>6. QED BY <1>1, <1>4, <1>5, QuietStep

\* A command goes to a server: the client has its address.
LEMMA CommandFacts ==
    ASSUME GraphOK(graph), NamesInv, SendCommand
    PROVE  /\ phase \in CommandLoops /\ k \in 1 .. Len(Jobs)
           /\ known[Job.for] \in Server /\ Claim(Job.for, known[Job.for])
           /\ net' = net \cup {ToServer(Job.cmd, known[Job.for], Job.id)} /\ wait' = "reply"
           /\ UNCHANGED <<trackerVars, serverVars, odd, phase, graph, ids, known, k, tries, gets>>
           /\ Jobs' = Jobs /\ Job' = Job
           /\ LoopOK'
<1> USE DEF NamesInv
<1>1. /\ phase \in CommandLoops /\ k <= Len(Jobs) /\ known[Job.for] # NoAddr
      /\ net' = net \cup {ToServer(Job.cmd, known[Job.for], Job.id)} /\ wait' = "reply"
      /\ UNCHANGED <<trackerVars, serverVars, odd, phase, graph, ids, known, k, tries, gets>>
  BY DEF SendCommand, InCommand, InLoop, Send
<1>2. k \in 1 .. Len(Jobs)
  BY <1>1 DEF LoopOK
<1>3. Job.for \in Id \ {TIME_SERVER_ID}
  BY <1>2, JobFacts
<1>4. known[Job.for] \in Addr
  BY <1>1, <1>3 DEF DataOK
<1>5. Claim(Job.for, known[Job.for])
  BY DEF Claim
<1>6. known[Job.for] \in Server
  BY <1>3, <1>4, <1>5, Constants DEF ClaimOK
<1>7. Jobs' = Jobs /\ Job' = Job
  BY <1>1 DEF Jobs, Job
<1>8. LoopOK'
  BY <1>1, <1>7 DEF LoopOK, CommandLoops
<1>9. QED BY <1>1, <1>2, <1>5, <1>6, <1>7, <1>8

\* ADD goes to the server that runs the node.
LEMMA SendAddNames ==
    ASSUME GraphOK(graph), NamesInv, SendCommand, phase = "add" PROVE NamesInv'
<1> DEFINE m == ToServer("ADD", known[Job.for], 0)
<1>1. Job.cmd = "ADD" /\ Job.id = 0
  BY CommandFacts, JobFacts DEF NamesInv
<1>2. /\ known[Job.for] \in Server /\ LoopOK'
      /\ UNCHANGED <<trackerVars, serverVars, odd, phase, graph, ids, known, k, tries, gets>>
      /\ net' = net \cup {m}
  BY <1>1, CommandFacts
<1>3. MessageOK(m) /\ m.cmd = "ADD"
  BY <1>2 DEF MessageOK, ToServer
<1> HIDE DEF m
<1>4. Moves({m})
  BY <1>2, <1>3 DEF Moves, NamesInv, DataOK
<1>5. k' >= k /\ \A x \in {m} : x.cmd # "LISTED"
  BY <1>2, <1>3 DEF NamesInv, LoopOK
<1>6. QED BY <1>2, <1>4, <1>5, QuietStep

\* CONNECT goes to the server that runs the node the edge comes from.
LEMMA SendConnectNames ==
    ASSUME GraphOK(graph), NamesInv, SendCommand, phase = "connect" PROVE NamesInv'
<1> USE DEF NamesInv
<1> DEFINE a == known[Job.for]
           n == graph.edges[k].to
           m == ToServer("CONNECT", a, n)
<1>1. /\ Job.cmd = "CONNECT" /\ Job.id = n /\ Job.for = graph.edges[k].from
      /\ k \in DOMAIN graph.edges
  BY CommandFacts, JobFacts
<1>2. /\ a \in Server /\ LoopOK' /\ net' = net \cup {m}
      /\ UNCHANGED <<trackerVars, serverVars, odd, phase, graph, ids, known, k, tries, gets>>
  BY <1>1, CommandFacts
<1>3. /\ clusters' = clusters /\ fresh' = fresh /\ next' = next /\ id' = id /\ conn' = conn
  BY <1>2 DEF trackerVars, serverVars
<1>4. Job.for \in Reserved /\ n \in Reserved
  BY <1>1 DEF GraphOK
<1>5. id[a] = Job.for
  BY <1>2, <1>4 DEF Settled
<1>6. MessageOK(m) /\ m.cmd = "CONNECT"
  BY <1>2, <1>4 DEF MessageOK, ToServer
<1>7. /\ \A i, b : Point(i, b) # m
      /\ \A i, b : ToServer("RUN", b, i) # m
      /\ \A i, b : ToServer("CONNECT", b, i) = m => b = a /\ i = n
  BY DEF Point, ToServer
<1> HIDE DEF m, a, n
<1>8. DataOK'
  BY <1>2, <1>3, <1>6 DEF DataOK, TrackerTypeOK
<1>9. NoNewClaim
  BY <1>2, <1>3, <1>7 DEF NoNewClaim, Claim
<1>10. OneHome' /\ OneName' /\ ClaimOK'
  BY <1>3, <1>9, ClaimsStay DEF Handed
<1>11. Settled'
  BY <1>2, <1>3, <1>7 DEF Settled
<1>12. NoneRuns' /\ RunsInTurn'
  <2>1. k \in Nat /\ DOMAIN graph.nodes \subseteq Nat
    BY DEF LoopOK, GraphOK
  <2>2. QED BY <1>2, <1>9, <2>1, RunsStay
<1>13. ListOK'
  BY <1>2, <1>3, <1>6 DEF ListOK, Handed
<1>14. Connects'
  <2>1. ASSUME NEW b \in Server, NEW i \in Reserved, ToServer("CONNECT", b, i) \in net'
        PROVE  \E e \in ToSet(graph.edges) : e.from = id[b] /\ e.to = i
    <3>1. CASE ToServer("CONNECT", b, i) \in net
      BY <3>1 DEF Connects
    <3>2. CASE b = a /\ i = n
      <4>1. graph.edges[k] \in ToSet(graph.edges)
        BY <1>1 DEF ToSet
      <4>2. graph.edges[k].from = id[b] /\ graph.edges[k].to = i
        BY <1>1, <1>5, <3>2 DEF n
      <4>3. QED BY <4>1, <4>2
    <3>3. QED BY <1>2, <1>7, <2>1, <3>1, <3>2
  <2>2. QED BY <1>2, <1>3, <2>1 DEF Connects
<1>15. QED BY <1>2, <1>8, <1>10, <1>11, <1>12, <1>13, <1>14

\* A server gets the id of a node, which no other one was given, and it was given no
\* other one: its place in ids is the node's place in the file.
LEMMA SendRunNames ==
    ASSUME GraphOK(graph), NamesInv, SendCommand, phase = "run" PROVE NamesInv'
<1> USE DEF NamesInv
<1> DEFINE a == known[ids[k]]
           n == graph.nodes[k].id
           m == ToServer("RUN", a, n)
<1>1. /\ Job.cmd = "RUN" /\ Job.id = n /\ Job.for = ids[k]
      /\ k \in DOMAIN ids /\ k \in DOMAIN graph.nodes
  BY CommandFacts, JobFacts
<1>2. /\ a \in Server /\ LoopOK' /\ net' = net \cup {m} /\ Claim(ids[k], a)
      /\ UNCHANGED <<trackerVars, serverVars, odd, phase, graph, ids, known, k, tries, gets>>
  BY <1>1, CommandFacts
<1>3. /\ clusters' = clusters /\ fresh' = fresh /\ next' = next /\ id' = id /\ conn' = conn
  BY <1>2 DEF trackerVars, serverVars
<1>4. n \in Reserved /\ n \in Id /\ n # TIME_SERVER_ID /\ a \in Addr /\ a # TimeServer
  <2>1. n \in Reserved
    BY <1>1 DEF GraphOK
  <2>2. QED BY <1>2, <2>1, Constants
<1>5. \A j \in DOMAIN ids : ids[j] \in Id \ Reserved
  <2>1. TAKE j \in DOMAIN ids
  <2>2. ids[j] \in Handed /\ next \in RESERVED_CLUSTER_ID + 1 .. MaxIssued + 1
    BY DEF ListOK, ToSet, DataOK, TrackerTypeOK
  <2>3. QED BY <2>2, IdAssumption DEF Handed, Id, Reserved
<1>6. MessageOK(m) /\ m.cmd = "RUN"
  BY <1>2, <1>4 DEF MessageOK, ToServer
<1>7. /\ \A i, b : Point(i, b) # m
      /\ \A i, b : ToServer("RUN", b, i) = m => b = a /\ i = n
      /\ \A i, b : ToServer("CONNECT", b, i) # m
  BY DEF Point, ToServer
<1> HIDE DEF m
<1>8. DataOK'
  BY <1>2, <1>3, <1>6 DEF DataOK, TrackerTypeOK
<1>9. \A i \in Id : \A b \in Addr : Claim(i, b)' => Claim(i, b) \/ (i = n /\ b = a)
  BY <1>2, <1>3, <1>7 DEF Claim
<1>10. \A b \in Addr : Claim(n, b) => b = a
  <2>1. SUFFICES ASSUME NEW b \in Addr, Claim(n, b) PROVE b = a
    OBVIOUS
  <2>2. PICK j \in DOMAIN ids \cap DOMAIN graph.nodes :
            j <= k /\ graph.nodes[j].id = n /\ known[ids[j]] = b
    BY <1>4, <2>1 DEF RunsInTurn
  <2>3. j = k
    BY <1>1, <2>2 DEF GraphOK
  <2>4. QED BY <2>2, <2>3
<1>11. \A i \in Id : (Claim(i, a) /\ (n \in Reserved <=> i \in Reserved)) => i = n
  <2>1. SUFFICES ASSUME NEW i \in Reserved, Claim(i, a) PROVE i = n
    BY <1>4
  <2>2. PICK j \in DOMAIN ids \cap DOMAIN graph.nodes :
            j <= k /\ graph.nodes[j].id = i /\ known[ids[j]] = a
    BY <1>4, <2>1 DEF RunsInTurn
  <2>3. Claim(ids[j], a)
    BY <2>2 DEF Claim
  <2>4. ids[j] \in Id \ Reserved /\ ids[k] \in Id \ Reserved
    BY <1>1, <1>5, <2>2
  <2>5. ids[j] = ids[k]
    BY <1>2, <1>4, <2>3, <2>4 DEF OneName
  <2>6. j = k
    BY <1>1, <2>2, <2>5 DEF ListOK
  <2>7. QED BY <2>2, <2>6
<1>12. id[a] # 0
  <2>1. ids[k] \in Id
    BY <1>1, <1>5
  <2>2. QED BY <1>2, <1>4, <2>1 DEF ClaimOK
<1> HIDE DEF a, n
<1>13. OneHome' /\ OneName' /\ ClaimOK'
  <2>1. Handed \subseteq Handed' /\ \A s \in Server : id[s] # 0 => id'[s] # 0
    BY <1>3 DEF Handed
  <2>2. id'[a] # 0
    BY <1>3, <1>12
  <2>3. QED BY <1>4, <1>9, <1>10, <1>11, <2>1, <2>2, ClaimsGrow
<1>14. Settled'
  BY <1>2, <1>3, <1>7 DEF Settled
<1>15. NoneRuns'
  BY <1>2 DEF NoneRuns
<1>16. RunsInTurn'
  <2>1. SUFFICES ASSUME NEW i \in Reserved, NEW b \in Addr, Claim(i, b)'
                 PROVE  \E j \in DOMAIN ids' \cap DOMAIN graph'.nodes :
                            j <= k' /\ graph'.nodes[j].id = i /\ known'[ids'[j]] = b
    BY DEF RunsInTurn
  <2>2. CASE Claim(i, b)
    <3>1. PICK j \in DOMAIN ids \cap DOMAIN graph.nodes :
                j <= k /\ graph.nodes[j].id = i /\ known[ids[j]] = b
      BY <2>2 DEF RunsInTurn
    <3>2. QED BY <1>2, <3>1
  <2>3. CASE i = n /\ b = a
    <3>1. k <= k /\ graph.nodes[k].id = i /\ known[ids[k]] = b
      BY <2>3 DEF n, a, LoopOK
    <3>2. QED BY <1>1, <1>2, <3>1
  <2>4. i \in Id
    BY Constants
  <2>5. QED BY <1>9, <2>1, <2>2, <2>3, <2>4
<1>17. ListOK'
  BY <1>2, <1>3, <1>6 DEF ListOK, Handed
<1>18. Connects'
  BY <1>2, <1>3, <1>7, ConnectsStay DEF IdsStay
<1>19. QED BY <1>2, <1>8, <1>13, <1>14, <1>15, <1>16, <1>17, <1>18

\* Any command that is sent keeps the invariant.
LEMMA SendCommandNames ==
    ASSUME GraphOK(graph), NamesInv, SendCommand PROVE NamesInv'
<1>1. phase \in CommandLoops
  BY CommandFacts
<1>2. QED BY <1>1, SendRunNames, SendAddNames, SendConnectNames DEF CommandLoops

\* The next loop begins, or the last has ended: no node runs before phase "run".
LEMMA TurnStep ==
    ASSUME GraphOK(graph), NamesInv, Moves({}), DataOK', ListOK', k' = 1, wait' = "no",
           tries' \in 0 .. COMMAND_RETRY_COUNT, gets' \in 0 .. GetRetries, phase' # "off",
           phase' \in {"list", "locate"} => phase = "list",
           phase' = "run" => phase = "locate"
    PROVE  NamesInv'
<1> USE DEF NamesInv
<1>1. NoNewClaim /\ OneHome' /\ OneName' /\ ClaimOK' /\ Settled' /\ Connects' /\ graph' = graph
  BY MoveFacts
<1>2. LoopOK'
  <2>1. ids' \in Seq(Id)
    BY SeqMonotonic DEF DataOK
  <2>2. GraphOK(graph')
    BY <1>1
  <2>3. Len(Jobs') \in Nat
    BY <2>1, <2>2, JobsAre, JobsOfFacts DEF JobsOK
  <2>4. k' \in 1 .. Len(Jobs') + 1
    BY <2>3
  <2>5. QED BY <2>4 DEF LoopOK
<1>3. phase \in {"off", "list", "locate"} => \A n \in Reserved : \A a \in Addr : ~ Claim(n, a)'
  <2>1. Reserved \subseteq Id
    BY Constants
  <2>2. QED BY <1>1, <2>1 DEF NoneRuns, NoNewClaim
<1>4. NoneRuns'
  BY <1>3 DEF NoneRuns
<1>5. RunsInTurn'
  BY <1>3 DEF RunsInTurn
<1>6. QED BY <1>1, <1>2, <1>4, <1>5

\* One loop of createNetwork ends; after RUN the addresses are forgotten.
LEMMA EndLoopNames ==
    ASSUME GraphOK(graph), NamesInv, EndLoop PROVE NamesInv'
<1> USE DEF NamesInv
<1>1. /\ phase \in GetLoops \cup CommandLoops /\ wait = "no" /\ k' = 1
      /\ known' = IF phase = "run" THEN [i \in Id |-> NoAddr] ELSE known
      /\ UNCHANGED <<trackerVars, serverVars, net, odd, graph, ids, tries, gets, wait>>
  BY DEF EndLoop
<1>2. /\ phase' \in {"run", "crashed", "refresh", "add", "connect", "running"}
      /\ phase' = "run" => phase = "locate"
  BY <1>1 DEF EndLoop, GetLoops, CommandLoops
<1>3. /\ known' \in [Id -> Addr \cup {NoAddr}]
      /\ \A i \in Id : \A a \in Addr : known'[i] = a => known[i] = a
  BY <1>1, Constants DEF DataOK
<1>4. Moves({})
  BY <1>1, <1>3 DEF Moves, DataOK
<1>5. DataOK'
  <2>1. UNCHANGED <<clusters, fresh, next, id, conn, net, odd, ids>>
    BY <1>1 DEF trackerVars, serverVars
  <2>2. phase' \in {"off", "list"} \cup GetLoops \cup CommandLoops \cup Ended
    BY <1>2 DEF GetLoops, CommandLoops, Ended
  <2>3. QED BY <1>3, <2>1, <2>2 DEF DataOK, TrackerTypeOK
<1>6. ListOK'
  BY <1>1, <1>2 DEF ListOK, trackerVars, Handed
<1>7. /\ tries' \in 0 .. COMMAND_RETRY_COUNT /\ gets' \in 0 .. GetRetries /\ wait' = "no"
      /\ phase' # "off" /\ phase' \notin {"list", "locate"}
  BY <1>1, <1>2 DEF LoopOK
<1>8. QED BY <1>1, <1>2, <1>4, <1>5, <1>6, <1>7, TurnStep

-----------------------------------------------------------------------------
(* The client receives.                                                    *)

\* What Receive and Timeout have in common.
Heard(r) ==
    /\ r \in net \/ r = NoReply
    /\ net' \subseteq net /\ odd' \in 0 .. MaxOdd /\ wait' = "no"
    /\ UNCHANGED <<trackerVars, serverVars, graph>>

\* A reply that teaches no address moves nothing.
LEMMA HeardMoves ==
    ASSUME GraphOK(graph), NamesInv, NEW r, Heard(r), known' = known
    PROVE  Moves({})
BY DEF Heard, Moves

\* A command is confirmed, repeated, or given up.
LEMMA GotAckNames ==
    ASSUME GraphOK(graph), NamesInv, NEW r, Heard(r), GotAck(r) PROVE NamesInv'
<1> USE DEF NamesInv
<1>1. /\ wait = "reply" /\ phase \in CommandLoops /\ k \in 1 .. Len(Jobs)
      /\ k \in Nat /\ Len(Jobs) \in Nat
  <2>1. ids \in Seq(Id)
    BY SeqMonotonic DEF DataOK
  <2>2. Len(Jobs) \in Nat
    BY <2>1, JobsAre, JobsOfFacts DEF JobsOK
  <2>3. QED BY <2>2 DEF GotAck, LoopOK
<1>2. /\ gets' = GetRetries /\ ids' = ids /\ known' = known /\ wait' = "no" /\ graph' = graph
  BY DEF GotAck, Heard
<1>3. gets' \in 0 .. GetRetries /\ COMMAND_RETRY_COUNT \in 0 .. COMMAND_RETRY_COUNT
  BY <1>2, RetryAssumption
<1>4. Moves({})
  BY <1>2, HeardMoves
<1>5. ASSUME phase' = phase, k' \in {k, k + 1}, tries' \in 0 .. COMMAND_RETRY_COUNT
      PROVE  NamesInv'
  <2>1. Jobs' = Jobs
    BY <1>2, <1>5 DEF Jobs
  <2>2. k' \in 1 .. Len(Jobs') + 1
    BY <1>1, <1>5, <2>1
  <2>3. LoopOK'
    BY <1>1, <1>2, <1>3, <1>5, <2>2 DEF LoopOK, CommandLoops
  <2>4. k' >= k
    BY <1>1, <1>5
  <2>5. QED BY <1>2, <1>4, <1>5, <2>3, <2>4, QuietStep
<1>6. ASSUME phase' = "failed", k' = 1, tries' = COMMAND_RETRY_COUNT
      PROVE  NamesInv'
  <2>1. DataOK'
    <3>1. /\ \A m \in net' : MessageOK(m)
          /\ TrackerTypeOK' /\ id' = id /\ conn' = conn
      BY <1>4, MoveFacts
    <3>2. phase' \in Ended
      BY <1>6 DEF Ended
    <3>3. QED BY <1>2, <3>1, <3>2 DEF DataOK, Heard
  <2>2. ListOK'
    BY <1>2, <1>6 DEF ListOK, Heard, trackerVars, Handed
  <2>3. QED BY <1>2, <1>3, <1>4, <1>6, <2>1, <2>2, TurnStep
<1>7. CASE r.cmd # "ACK" /\ tries > 0
  <2>1. tries' = tries - 1 /\ k' = k /\ phase' = phase
    BY <1>7 DEF GotAck
  <2>2. tries' \in 0 .. COMMAND_RETRY_COUNT
    BY <1>7, <2>1, RetryAssumption DEF LoopOK
  <2>3. QED BY <1>5, <2>1, <2>2
<1>8. CASE r.cmd # "ACK" /\ tries = 0 /\ phase # "add"
  <2>1. phase' = "failed" /\ k' = 1 /\ tries' = COMMAND_RETRY_COUNT
    BY <1>8 DEF GotAck
  <2>2. QED BY <1>6, <2>1
<1>9. CASE r.cmd = "ACK" \/ (tries = 0 /\ phase = "add")
  <2>1. phase' = phase /\ k' = k + 1 /\ tries' = COMMAND_RETRY_COUNT
    BY <1>9 DEF GotAck
  <2>2. QED BY <1>3, <1>5, <2>1
<1>10. tries \in Nat
  BY RetryAssumption DEF LoopOK
<1>11. QED BY <1>7, <1>8, <1>9, <1>10

\* An address comes for an id whose address is not known, or is the same.
LEMMA GotPointNames ==
    ASSUME GraphOK(graph), NamesInv, NEW r, Heard(r), GotPoint(r) PROVE NamesInv'
<1> USE DEF NamesInv
<1>1. /\ wait = "get" /\ phase \in GetLoops \cup CommandLoops /\ k \in 1 .. Len(Jobs)
      /\ k \in Nat /\ Len(Jobs) \in Nat
  <2>1. ids \in Seq(Id)
    BY SeqMonotonic DEF DataOK
  <2>2. Len(Jobs) \in Nat
    BY <2>1, JobsAre, JobsOfFacts DEF JobsOK
  <2>3. QED BY <2>2 DEF GotPoint, LoopOK
<1>2. /\ known' = IF r.cmd = "POINT" /\ r.id = Job.for
                    THEN [known EXCEPT ![Job.for] = r.addr] ELSE known
      /\ k' = IF phase \in GetLoops THEN k + 1 ELSE k
      /\ phase' = phase /\ ids' = ids /\ tries' = tries /\ gets' = gets /\ wait' = "no"
      /\ graph' = graph
  BY DEF GotPoint, Heard
<1>3. Job.for \in Id
  BY <1>1, JobFacts
<1>4. \/ known' = known
      \/ \E a \in Addr : /\ Point(Job.for, a) \in net
                         /\ known' = [known EXCEPT ![Job.for] = a]
  <2>1. SUFFICES ASSUME r.cmd = "POINT", r.id = Job.for
                 PROVE  \E a \in Addr : /\ Point(Job.for, a) \in net
                                        /\ known' = [known EXCEPT ![Job.for] = a]
    BY <1>2
  <2>2. r \in net
    <3>1. NoReply.cmd = ""
      BY DEF NoReply
    <3>2. QED BY <2>1, <3>1 DEF Heard
  <2>3. PICK i \in Id, a \in Addr : r = Point(i, a)
    BY <2>1, <2>2, MessageKinds DEF DataOK
  <2>4. r.id = i /\ r.addr = a
    BY <2>3 DEF Point
  <2>5. QED BY <1>2, <2>1, <2>2, <2>3, <2>4
<1>5. known \in [Id -> Addr \cup {NoAddr}]
  BY DEF DataOK
<1>6. known' \in [Id -> Addr \cup {NoAddr}]
  BY <1>3, <1>4, <1>5
<1>7. \A i \in Id : \A a \in Addr : known'[i] = a => known[i] = a \/ Point(i, a) \in net
  BY <1>3, <1>4, <1>5
<1>8. \A i \in Id : known[i] \in Addr => known'[i] = known[i]
  <2>1. SUFFICES ASSUME NEW i \in Id, known[i] \in Addr PROVE known'[i] = known[i]
    OBVIOUS
  <2>2. ASSUME NEW a \in Addr, Point(Job.for, a) \in net,
               known' = [known EXCEPT ![Job.for] = a], i = Job.for
        PROVE  known'[i] = known[i]
    <3>1. known'[i] = a
      BY <1>5, <2>2
    <3>2. Claim(i, a) /\ Claim(i, known[i])
      BY <2>2 DEF Claim
    <3>3. QED BY <2>1, <3>1, <3>2 DEF OneHome
  <2>3. QED BY <1>4, <1>5, <2>2
<1>9. Moves({})
  BY <1>7 DEF Moves, Heard
<1>10. LoopOK' /\ k' >= k
  <2>1. Jobs' = Jobs
    BY <1>2 DEF Jobs
  <2>2. k' \in 1 .. Len(Jobs') + 1 /\ k' >= k
    BY <1>1, <1>2, <2>1
  <2>3. QED BY <1>1, <1>2, <2>2 DEF LoopOK, GetLoops, CommandLoops
<1>11. QED BY <1>2, <1>6, <1>8, <1>9, <1>10, LoopStep

\* The list without the time server: ids that the tracker gave out, each once.
LEMMA GotListNames ==
    ASSUME GraphOK(graph), NamesInv, NEW r, Heard(r), GotList(r) PROVE NamesInv'
<1> USE DEF NamesInv
<1>1. /\ wait = "list" /\ phase = "list" /\ known' = known /\ wait' = "no" /\ graph' = graph
      /\ k' = k /\ tries' = tries /\ gets' = gets
  BY DEF GotList, LoopOK, cursor, Heard
<1>2. k' = 1
  <2>1. Len(Jobs) = 0
    <3>1. ids \in Seq(Id)
      BY SeqMonotonic DEF DataOK
    <3>2. JobsOK(Jobs, phase, graph, ids)
      BY <3>1, JobsAre, JobsOfFacts
    <3>3. phase \notin GetLoops \cup CommandLoops
      BY <1>1 DEF GetLoops, CommandLoops
    <3>4. QED BY <3>2, <3>3 DEF JobsOK
  <2>2. QED BY <1>1, <2>1 DEF LoopOK
<1>3. Moves({})
  BY <1>1, HeardMoves
<1>4. tries' \in 0 .. COMMAND_RETRY_COUNT /\ gets' \in 0 .. GetRetries
  BY <1>1 DEF LoopOK
<1>5. /\ TrackerTypeOK' /\ id' = id /\ conn' = conn /\ next' = next
      /\ \A m \in net' : m \in net /\ MessageOK(m)
  BY <1>3, MoveFacts DEF Heard, trackerVars
<1>6. CASE phase' = "crashed" /\ ids' = ids
  <2>1. DataOK'
    BY <1>1, <1>5, <1>6 DEF DataOK, Heard, Ended
  <2>2. ListOK'
    BY <1>5, <1>6 DEF ListOK, Handed
  <2>3. QED BY <1>1, <1>2, <1>3, <1>4, <1>6, <2>1, <2>2, TurnStep
<1>7. CASE \E i \in DOMAIN r.ids : /\ r.cmd = "LISTED" /\ r.ids[i] = TIME_SERVER_ID
                                  /\ ids' = RemoveAt(r.ids, i)
                                  /\ phase' = IF Len(ids') < Len(graph.nodes)
                                                THEN "list" ELSE "locate"
  <2>1. PICK i \in DOMAIN r.ids : /\ r.cmd = "LISTED" /\ r.ids[i] = TIME_SERVER_ID
                                 /\ ids' = RemoveAt(r.ids, i)
    BY <1>7
  <2>2. phase' = IF Len(ids') < Len(graph.nodes) THEN "list" ELSE "locate"
    BY <1>7
  <2>3. r \in net
    <3>1. NoReply.cmd = ""
      BY DEF NoReply
    <3>2. QED BY <2>1, <3>1 DEF Heard
  <2>4. r.ids \in Seq(Id)
    <3>1. PICK s \in Seq(Id) : r = Listed(s)
      BY <2>1, <2>3, MessageKinds DEF DataOK
    <3>2. QED BY <3>1 DEF Listed
  <2>5. /\ ToSet(r.ids) \subseteq Handed \cup {TIME_SERVER_ID}
        /\ \A j, h \in DOMAIN r.ids : r.ids[j] = r.ids[h] => j = h
    BY <1>1, <2>1, <2>3 DEF ListOK
  <2> DEFINE s == r.ids
  <2>6. Len(s) \in Nat /\ DOMAIN s = 1 .. Len(s) /\ \A j \in 1 .. Len(s) : s[j] \in Id
    BY <2>4, LenProperties, ElementOfSeq
  <2>7. /\ ids' \in Seq(Id) /\ Len(ids') = Len(s) - 1
        /\ \A j \in 1 .. Len(s) - 1 : ids'[j] = IF j < i THEN s[j] ELSE s[j + 1]
    BY <2>1, <2>4, <2>6, RemoveAtFacts
  <2>8. Len(ids') \in Nat /\ DOMAIN ids' = 1 .. Len(ids')
    BY <2>7, LenProperties
  <2> HIDE DEF s
  <2>9. ASSUME NEW j \in DOMAIN ids'
        PROVE  \E h \in DOMAIN s : h # i /\ ids'[j] = s[h] /\ h = IF j < i THEN j ELSE j + 1
    <3>1. j \in 1 .. Len(s) - 1 /\ i \in 1 .. Len(s) /\ Len(s) \in Nat
      BY <2>1, <2>6, <2>7, <2>8 DEF s
    <3>2. CASE j < i
      <4>1. j \in DOMAIN s /\ j # i
        BY <2>6, <3>1, <3>2
      <4>2. ids'[j] = s[j]
        BY <2>7, <3>1, <3>2
      <4>3. QED BY <3>2, <4>1, <4>2
    <3>3. CASE ~ (j < i)
      <4>1. j + 1 \in DOMAIN s /\ j + 1 # i
        BY <2>6, <3>1, <3>3
      <4>2. ids'[j] = s[j + 1]
        BY <2>7, <3>1, <3>3
      <4>3. QED BY <3>3, <4>1, <4>2
    <3>4. QED BY <3>2, <3>3
  <2>10. \A j \in DOMAIN ids' : ids'[j] \in Handed /\ ids'[j] \in Id \ {TIME_SERVER_ID}
    <3>1. TAKE j \in DOMAIN ids'
    <3>2. PICK h \in DOMAIN s : h # i /\ ids'[j] = s[h]
      BY <2>9
    <3>3. s[h] # TIME_SERVER_ID
      BY <2>1, <2>5, <3>2 DEF s
    <3>4. s[h] \in Handed \cup {TIME_SERVER_ID}
      BY <2>5, <3>2 DEF ToSet, s
    <3>5. s[h] \in Id
      BY <2>6, <3>2
    <3>6. QED BY <3>2, <3>3, <3>4, <3>5
  <2>11. \A j, h \in DOMAIN ids' : ids'[j] = ids'[h] => j = h
    <3>1. TAKE j, h \in DOMAIN ids'
    <3>2. PICK x \in DOMAIN s : ids'[j] = s[x] /\ x = IF j < i THEN j ELSE j + 1
      BY <2>9
    <3>3. PICK y \in DOMAIN s : ids'[h] = s[y] /\ y = IF h < i THEN h ELSE h + 1
      BY <2>9
    <3>4. HAVE ids'[j] = ids'[h]
    <3>5. x = y
      BY <2>5, <3>2, <3>3, <3>4 DEF s
    <3>6. j \in Nat /\ h \in Nat /\ i \in Nat
      BY <2>1, <2>6, <2>8 DEF s
    <3>7. QED BY <3>2, <3>3, <3>5, <3>6
  <2>12. ids' \in Seq(Id \ {TIME_SERVER_ID})
    <3>1. ids' \in [1 .. Len(ids') -> Id \ {TIME_SERVER_ID}]
      BY <2>7, <2>8, <2>10, LenProperties
    <3>2. QED BY <2>8, <3>1, SeqDef
  <2>13. DataOK'
    <3>1. phase' \in {"off", "list"} \cup GetLoops \cup CommandLoops \cup Ended
      BY <2>2 DEF GetLoops
    <3>2. QED BY <1>1, <1>5, <2>12, <3>1 DEF DataOK, Heard
  <2>14. ListOK'
    <3>1. ToSet(ids') \subseteq Handed'
      BY <1>5, <2>10 DEF ToSet, Handed
    <3>2. phase' \in {"locate", "run"} => Len(graph'.nodes) <= Len(ids')
      BY <1>1, <2>2, <2>8 DEF GraphOK
    <3>3. \A m \in net' : m.cmd = "LISTED" =>
            /\ ToSet(m.ids) \subseteq Handed' \cup {TIME_SERVER_ID}
            /\ \A j, h \in DOMAIN m.ids : m.ids[j] = m.ids[h] => j = h
      BY <1>1, <1>5 DEF ListOK, Handed
    <3>4. QED BY <2>11, <3>1, <3>2, <3>3 DEF ListOK
  <2>15. phase' \in {"list", "locate"}
    BY <2>2
  <2>16. QED BY <1>1, <1>2, <1>3, <1>4, <2>13, <2>14, <2>15, TurnStep
<1>8. QED
  <2>1. CASE r.cmd = "LISTED" /\ TIME_SERVER_ID \in ToSet(r.ids)
    BY <1>7, <2>1 DEF GotList
  <2>2. CASE r.cmd = "LISTED" /\ TIME_SERVER_ID \notin ToSet(r.ids)
    BY <1>6, <2>2 DEF GotList
  <2>3. CASE r.cmd # "LISTED"
    <3>1. ToSet(<<>>) = {}
      BY DEF ToSet
    <3>2. QED BY <1>6, <2>3, <3>1 DEF GotList
  <2>4. QED BY <2>1, <2>2, <2>3

\* Whatever is heard keeps the invariant.
LEMMA GotNames ==
    ASSUME GraphOK(graph), NamesInv, NEW r, r \in net \/ r = NoReply,
           net' \subseteq net, odd' \in 0 .. MaxOdd, Got(r)
    PROVE  NamesInv'
<1>1. Heard(r)
  BY DEF Heard, Got
<1>2. QED BY <1>1, GotListNames, GotPointNames, GotAckNames DEF Got

\* A reply comes, the current one or another.
LEMMA ReceiveNames ==
    ASSUME GraphOK(graph), NamesInv, NEW m, Receive(m) PROVE NamesInv'
<1>1. m \in net /\ Consume(m, {}) /\ Got(m)
  BY DEF Receive
<1>2. odd' \in 0 .. MaxOdd /\ net' \subseteq net \cup {}
  BY <1>1, Consumed DEF NamesInv, DataOK
<1>3. QED BY <1>1, <1>2, GotNames

\* waitReply gives up.
LEMMA TimeoutNames ==
    ASSUME GraphOK(graph), NamesInv, Timeout PROVE NamesInv'
<1>1. net' = net /\ Got(NoReply)
  BY DEF Timeout
<1>2. odd' \in 0 .. MaxOdd
  BY RetryAssumption DEF Timeout, NamesInv, DataOK
<1>3. QED BY <1>1, <1>2, GotNames

-----------------------------------------------------------------------------
(* The beginning, and all steps together.                                  *)

\* Servers begin without an id or with different ones of the tracker's.
LEMMA InitNames == ASSUME BuildInit PROVE NamesInv
<1>1. /\ id = startId /\ conn = {} /\ net = {} /\ odd = 0 /\ phase = "off" /\ ids = <<>>
      /\ graph = [nodes |-> <<>>, edges |-> <<>>] /\ known = [i \in Id |-> NoAddr]
      /\ k = 1 /\ tries = COMMAND_RETRY_COUNT /\ gets = GetRetries /\ wait = "no"
      /\ next = startNext /\ fresh = { i \in Id : clusters[i] # NoAddr }
      /\ clusters = [i \in Id |-> IF \E s \in Server : startId[s] = i
                                    THEN CHOOSE s \in Server : startId[s] = i ELSE NoAddr]
  BY DEF BuildInit, ClientInit
<1>2. /\ startNext \in RESERVED_CLUSTER_ID + 1 .. MaxIssued + 1
      /\ startId \in [Server -> {0} \cup RESERVED_CLUSTER_ID + 1 .. startNext - 1]
      /\ \A s, t \in Server : (s # t /\ startId[s] = startId[t]) => startId[s] = 0
  BY StartIdAssumption
<1>3. Handed \subseteq Id \ ({0, TIME_SERVER_ID} \cup Reserved)
  BY <1>1, <1>2, IdAssumption, TimeServerIdAssumption DEF Handed, Id, Reserved
<1>4. \A i \in Id : \A a \in Addr : clusters[i] = a => a \in Server /\ startId[a] = i
  BY <1>1, Constants
<1>5. clusters \in [Id -> Addr \cup {NoAddr}]
  BY <1>1, Constants
<1>6. \A i \in Id : \A a \in Addr : Claim(i, a) => a \in Server /\ startId[a] = i /\ i \in Handed
  <2>1. SUFFICES ASSUME NEW i \in Id, NEW a \in Addr, Claim(i, a)
                 PROVE  a \in Server /\ startId[a] = i /\ i \in Handed
    OBVIOUS
  <2>2. a \in Server /\ startId[a] = i
    BY <1>1, <1>4, <2>1, Constants DEF Claim
  <2>3. i # 0
    BY DEF Id
  <2>4. QED BY <1>1, <1>2, <2>2, <2>3 DEF Handed
<1>7. DataOK
  <2>1. id \in [Server -> Id \cup {0}]
    <3>1. RESERVED_CLUSTER_ID + 1 .. startNext - 1 \subseteq Id
      BY <1>1, <1>3 DEF Handed
    <3>2. QED BY <1>1, <1>2, <3>1
  <2>2. ids \in Seq(Id \ {TIME_SERVER_ID}) /\ odd \in 0 .. MaxOdd
    BY <1>1, RetryAssumption
  <2>3. QED BY <1>1, <1>2, <1>5, <2>1, <2>2 DEF DataOK, TrackerTypeOK
<1>8. LoopOK
  <2>1. Jobs = <<>>
    BY <1>1 DEF Jobs, GetLoops
  <2>2. k \in 1 .. Len(Jobs) + 1
    BY <1>1, <2>1
  <2>3. QED BY <1>1, <2>2, RetryAssumption DEF LoopOK
<1>9. OneHome
  <2>1. SUFFICES ASSUME NEW i \in Id, NEW a \in Addr, NEW b \in Addr, Claim(i, a), Claim(i, b)
                 PROVE  a = b
    BY DEF OneHome
  <2>2. a \in Server /\ b \in Server /\ startId[a] = i /\ startId[b] = i /\ i # 0
    BY <1>3, <1>6, <2>1
  <2>3. QED BY <1>2, <2>2
<1>10. OneName
  BY <1>6 DEF OneName
<1>11. ClaimOK
  <2>1. SUFFICES ASSUME NEW i \in Id, NEW a \in Addr, Claim(i, a)
                 PROVE  /\ i \in Reserved \cup Handed \cup {TIME_SERVER_ID}
                        /\ i = TIME_SERVER_ID <=> a = TimeServer
                        /\ a \in Server => id[a] # 0
    BY DEF ClaimOK
  <2>2. a \in Server /\ startId[a] = i /\ i \in Handed
    BY <1>6, <2>1
  <2>3. i # 0 /\ i # TIME_SERVER_ID /\ a # TimeServer
    BY <1>3, <2>2, Constants
  <2>4. QED BY <1>1, <2>2, <2>3
<1>12. \A n \in Reserved : \A a \in Addr : ~ Claim(n, a)
  BY <1>3, <1>6, Constants
<1>13. Settled
  <2>1. Server \subseteq Addr /\ \A n \in Reserved, a \in Server :
            (clusters[n] = a \/ known[n] = a \/ Point(n, a) \in net) => Claim(n, a)
    BY Constants DEF Claim
  <2>2. QED BY <1>12, <2>1 DEF Settled
<1>14. NoneRuns /\ RunsInTurn /\ ListOK /\ Connects
  BY <1>1, <1>12 DEF NoneRuns, RunsInTurn, ListOK, Connects, ToSet
<1>15. QED BY <1>7, <1>8, <1>9, <1>10, <1>11, <1>13, <1>14 DEF NamesInv

\* The client reads a file; nobody was spoken to before.
LEMMA StartNames ==
    ASSUME NamesInv, NEW g, Start(g) PROVE NamesInv'
<1> USE DEF NamesInv
<1>1. /\ phase = "off" /\ phase' = "list"
      /\ UNCHANGED <<clusters, fresh, next, id, conn, net, odd, ids, known, k, tries, gets, wait>>
  BY DEF Start, trackerVars, serverVars, cursor
<1>2. net = {} /\ conn = {}
  BY <1>1 DEF LoopOK
<1>3. Jobs = <<>> /\ Jobs' = <<>>
  BY <1>1 DEF Jobs, GetLoops
<1>4. DataOK'
  BY <1>1 DEF DataOK, TrackerTypeOK
<1>5. LoopOK'
  BY <1>1, <1>2, <1>3 DEF LoopOK, GetLoops, CommandLoops
<1>6. NoNewClaim
  BY <1>1 DEF NoNewClaim, Claim
<1>7. OneHome' /\ OneName' /\ ClaimOK'
  BY <1>1, <1>6, ClaimsStay DEF Handed
<1>8. Settled'
  BY <1>1 DEF Settled
<1>9. \A n \in Reserved : \A a \in Addr : ~ Claim(n, a)'
  BY <1>1, <1>6, Constants DEF NoneRuns, NoNewClaim
<1>10. NoneRuns' /\ RunsInTurn'
  BY <1>1, <1>9 DEF NoneRuns, RunsInTurn
<1>11. ListOK' /\ Connects'
  BY <1>1, <1>2 DEF ListOK, Connects, Handed
<1>12. QED BY <1>4, <1>5, <1>7, <1>8, <1>10, <1>11

\* The optimizer leaves the network alone.
LEMMA StillNames ==
    ASSUME NamesInv, UNCHANGED clientNetVars PROVE NamesInv'
<1>1. UNCHANGED <<clusters, fresh, next, id, conn, net, odd, phase, graph, ids, known,
                  k, tries, gets, wait>>
  BY DEF clientNetVars
<1>2. Jobs' = Jobs /\ Job' = Job
  BY <1>1 DEF Jobs, Job
<1>3. DataOK' /\ LoopOK' /\ Settled' /\ ListOK' /\ Connects'
  BY <1>1, <1>2 DEF NamesInv, DataOK, TrackerTypeOK, LoopOK, Settled, ListOK, Connects, Handed
<1>4. \A i, a : Claim(i, a)' <=> Claim(i, a)
  BY <1>1 DEF Claim
<1>5. OneHome' /\ OneName' /\ ClaimOK' /\ NoneRuns' /\ RunsInTurn'
  BY <1>1, <1>4 DEF NamesInv, OneHome, OneName, ClaimOK, NoneRuns, RunsInTurn, Handed
<1>6. QED BY <1>3, <1>5 DEF NamesInv

\* Every step of tracker, servers, network and client keeps the invariant.
LEMMA ClientNextNames ==
    ASSUME GraphOK(graph), NamesInv, ClientNext PROVE NamesInv'
<1>1. CASE AnnounceTimeServer
  BY <1>1, AnnounceTimeServerNames
<1>2. ASSUME NEW s \in Server, Announce(s) PROVE NamesInv'
  <2>1. CASE id[s] = 0 /\ OnIdRequest(s) /\ id' = [id EXCEPT ![s] = Granted(s)]
    BY <1>2, <2>1, AnnounceNew DEF Announce
  <2>2. CASE id[s] # 0 /\ OnIdUpdate(s, id[s]) /\ UNCHANGED id
    BY <1>2, <2>2, AnnounceOld DEF Announce, serverVars
  <2>3. QED BY <1>2, <2>1, <2>2 DEF Announce
<1>3. ASSUME NEW m \in net, Handle(m) \/ Lose(m) PROVE NamesInv'
  BY <1>3, HandleListNames, HandleGetNames, HandleRunNames, HandleAddNames,
     HandleConnectNames, LoseNames DEF Handle
<1>4. CASE CreateNetwork
  BY <1>4, EndLoopNames, AskListNames, LocateNames, AskAddressNames, SendCommandNames,
     SendNothingNames, SkipNames, TimeoutNames, ReceiveNames DEF CreateNetwork
<1>5. QED BY <1>1, <1>2, <1>3, <1>4 DEF ClientNext

\* So does every step of the composition.
LEMMA NextNames ==
    ASSUME GraphOK(graph), NamesInv, [BuildNext]_vars PROVE NamesInv'
<1>1. CASE UNCHANGED clientNetVars
  BY <1>1, StillNames
<1>2. CASE CreateFromSource
  BY <1>2, StartNames DEF CreateFromSource
<1>3. CASE CreateFromSaved
  BY <1>3, StartNames DEF CreateFromSaved
<1>4. CASE ClientNext
  BY <1>4, ClientNextNames
<1>5. QED BY <1>1, <1>2, <1>3, <1>4 DEF BuildNext, Optimize, vars

-----------------------------------------------------------------------------
(* What is done stays done, and the client goes past nothing undone.       *)

\* A node that runs goes on running.
LEMMA RunsKept ==
    ASSUME GraphOK(graph), IdsStay, graph' = graph, NEW j \in 1 .. Len(graph.nodes), NodeRuns(j)
    PROVE  \E s \in Server : id'[s] = graph.nodes[j].id
<1>1. PICK s \in Server : id[s] = graph.nodes[j].id
  BY DEF NodeRuns
<1>2. graph.nodes[j].id \in Reserved
  BY DEF GraphOK
<1>3. QED BY <1>1, <1>2 DEF IdsStay

\* What is done stays done while the client is at the same job.
LEMMA DoneStays ==
    ASSUME GraphOK(graph), LoopOK, NamesInv, DoneSoFar, IdsStay, conn \subseteq conn',
           UNCHANGED <<phase, graph, k>>, odd' = 0 => odd = 0
    PROVE  DoneSoFar' /\ ((k <= Len(Jobs) /\ JobDone) => JobDone')
<1>1. \A j \in 1 .. Len(graph.nodes) : NodeRuns(j) => NodeRuns(j)'
  BY RunsKept DEF NodeRuns
<1>2. \A j : EdgeMade(j) => EdgeMade(j)'
  BY DEF EdgeMade
<1>3. k \in Nat /\ Len(Jobs) \in Nat /\ Len(graph.nodes) \in Nat
  <2>1. ids \in Seq(Id)
    BY SeqMonotonic DEF NamesInv, DataOK
  <2>2. JobsOK(Jobs, phase, graph, ids)
    BY <2>1, JobsAre, JobsOfFacts
  <2>3. QED BY <2>2 DEF JobsOK, LoopOK, GraphOK
<1>4. phase = "run" => Len(Jobs) <= Len(graph.nodes)
  <2>1. ids \in Seq(Id)
    BY SeqMonotonic DEF NamesInv, DataOK
  <2>2. JobsOK(Jobs, phase, graph, ids)
    BY <2>1, JobsAre, JobsOfFacts
  <2>3. Len(ids) \in Nat
    BY <2>1, LenProperties
  <2>4. QED BY <1>3, <2>2, <2>3 DEF JobsOK
<1>5. DoneSoFar'
  <2>1. SUFFICES ASSUME odd' = 0
                 PROVE  /\ phase = "run" => \A j \in 1 .. k - 1 : NodeRuns(j)'
                        /\ phase \in {"refresh", "add", "connect", "running"} =>
                                \A j \in 1 .. Len(graph.nodes) : NodeRuns(j)'
                        /\ phase = "connect" =>
                                \A j \in 1 .. k - 1 : graph.edges[j].label > 0 => EdgeMade(j)'
                        /\ phase = "running" => \A j \in 1 .. Len(graph.edges) :
                                graph.edges[j].label > 0 => EdgeMade(j)'
    BY DEF DoneSoFar
  <2>2. phase = "run" => \A j \in 1 .. k - 1 : NodeRuns(j)'
    <3>1. SUFFICES ASSUME phase = "run", NEW j \in 1 .. k - 1 PROVE NodeRuns(j)'
      OBVIOUS
    <3>2. NodeRuns(j)
      BY <2>1, <3>1 DEF DoneSoFar
    <3>3. j \in 1 .. Len(graph.nodes)
      BY <1>3, <1>4, <3>1 DEF LoopOK
    <3>4. QED BY <1>1, <3>2, <3>3
  <2>3. QED BY <1>1, <1>2, <2>1, <2>2 DEF DoneSoFar
<1>6. ASSUME k <= Len(Jobs), JobDone PROVE JobDone'
  <2>1. phase = "run" => k \in 1 .. Len(graph.nodes)
    BY <1>3, <1>4, <1>6 DEF LoopOK
  <2>2. phase = "run" => NodeRuns(k)'
    BY <1>1, <1>6, <2>1 DEF JobDone
  <2>3. phase = "connect" => EdgeMade(k)'
    BY <1>2, <1>6 DEF JobDone
  <2>4. QED BY <2>2, <2>3 DEF JobDone
<1>7. QED BY <1>5, <1>6

\* A datagram is taken in its time: nothing else was under way.
LEMMA TakenInTime ==
    ASSUME InStep, odd \in 0 .. MaxOdd, NEW m \in net, NEW sent, Consume(m, sent), odd' = 0
    PROVE  odd = 0 /\ net' \subseteq sent
<1>1. odd = 0
  BY RetryAssumption DEF Consume
<1>2. net' = (net \ {m}) \cup sent
  BY <1>1 DEF Consume
<1>3. \A x \in net : x = m
  BY <1>1 DEF InStep
<1>4. QED BY <1>1, <1>2, <1>3

\* A step of the tracker, a server or the network.
Serves(sent) ==
    /\ UNCHANGED clientVars /\ IdsStay /\ conn \subseteq conn'
    /\ odd' = 0 => odd = 0 /\ net' \subseteq sent
    /\ wait # "no"
    /\ \A x \in sent : x.cmd \notin {"RUN", "ADD", "CONNECT"}
    /\ \A x, y \in sent : x = y

\* A step of the tracker, a server or the network undoes nothing.
LEMMA NetDone ==
    ASSUME GraphOK(graph), NamesInv, Done, NEW sent, Serves(sent),
           (odd = 0 /\ Ack \in sent) => wait = "reply" /\ JobDone'
    PROVE  Done'
<1>1. /\ phase' = phase /\ graph' = graph /\ k' = k /\ wait' = wait
      /\ odd' = 0 => odd = 0 /\ net' \subseteq sent
  BY DEF Serves, clientVars
<1>2. DoneSoFar'
  BY <1>1, DoneStays DEF Done, NamesInv, Serves
<1>3. InStep'
  BY <1>1 DEF InStep, Serves
<1>4. QED BY <1>2, <1>3 DEF Done

\* What a datagram to a server is, and what the client waits for meanwhile.
LEMMA CommandInTime ==
    ASSUME GraphOK(graph), NamesInv, Done, odd = 0, NEW m \in net,
           m.cmd \in {"RUN", "ADD", "CONNECT"}
    PROVE  /\ wait = "reply" /\ k \in 1 .. Len(Jobs)
           /\ m = ToServer(Job.cmd, known[Job.for], Job.id) /\ m.cmd = Job.cmd
           /\ (phase = "run" <=> m.cmd = "RUN") /\ (phase = "connect" <=> m.cmd = "CONNECT")
<1>1. wait = "reply" /\ m = ToServer(Job.cmd, known[Job.for], Job.id)
  BY DEF Done, InStep
<1>2. phase \in CommandLoops /\ k \in 1 .. Len(Jobs)
  BY <1>1 DEF NamesInv, LoopOK
<1>3. m.cmd = Job.cmd
  BY <1>1 DEF ToServer
<1>4. /\ phase = "run" => Job.cmd = "RUN"
      /\ phase = "add" => Job.cmd = "ADD"
      /\ phase = "connect" => Job.cmd = "CONNECT"
  BY <1>2, JobFacts DEF NamesInv
<1>5. QED BY <1>1, <1>2, <1>3, <1>4 DEF CommandLoops

\* A server that answers in time has done what the client waits for.
LEMMA HandleDone ==
    ASSUME GraphOK(graph), NamesInv, Done, NEW m, Handle(m) \/ Lose(m) PROVE Done'
<1>1. m \in net /\ odd \in 0 .. MaxOdd /\ InStep
  BY DEF Handle, HandleList, HandleGet, HandleRun, HandleAdd, HandleConnect, Lose,
         NamesInv, DataOK, Done
<1>2. ASSUME wait = "no" PROVE Done'
  <2>1. odd # 0 /\ odd \in Nat
    BY <1>1, <1>2, RetryAssumption DEF InStep
  <2>2. \A sent : Consume(m, sent) => odd' \in {odd, odd + 1}
    BY DEF Consume
  <2>3. odd' \in {odd, odd + 1}
    <3>1. CASE HandleList(m)
      BY <2>2, <3>1 DEF HandleList
    <3>2. CASE HandleGet(m)
      BY <2>2, <3>2 DEF HandleGet
    <3>3. CASE HandleRun(m) \/ HandleAdd(m) \/ HandleConnect(m)
      BY <2>2, <3>3 DEF HandleRun, HandleAdd, HandleConnect
    <3>4. CASE Lose(m)
      BY <3>4 DEF Lose
    <3>5. QED BY <3>1, <3>2, <3>3, <3>4 DEF Handle
  <2>4. odd' # 0
    BY <2>1, <2>3
  <2>5. QED BY <2>4 DEF Done, InStep, DoneSoFar
<1>3. ASSUME wait # "no", NEW sent, Consume(m, sent), UNCHANGED clientVars, IdsStay,
             conn \subseteq conn', \A x \in sent : x.cmd \notin {"RUN", "ADD", "CONNECT"},
             \A x, y \in sent : x = y
      PROVE  Serves(sent)
  BY <1>1, <1>3, TakenInTime DEF Serves
<1>4. CASE wait # "no" /\ HandleList(m)
  <2>1. PICK s \in SetToSeqs({ i \in fresh : clusters[i] # NoAddr }) :
            Consume(m, IF s = <<>> THEN {} ELSE {Listed(s)})
    BY <1>4 DEF HandleList
  <2>2. UNCHANGED clientVars /\ id' = id /\ conn' = conn
    BY <1>4 DEF HandleList, serverVars
  <2> DEFINE sent == IF s = <<>> THEN {} ELSE {Listed(s)}
  <2>3. /\ \A x \in sent : x.cmd \notin {"RUN", "ADD", "CONNECT"}
        /\ \A x, y \in sent : x = y
        /\ Ack \notin sent
    BY DEF Listed, Ack
  <2>4. Consume(m, sent)
    BY <2>1
  <2> HIDE DEF sent
  <2>5. Serves(sent)
    BY <1>3, <1>4, <2>2, <2>3, <2>4 DEF IdsStay
  <2>6. QED BY <2>3, <2>5, NetDone
<1>5. CASE wait # "no" /\ HandleGet(m)
  <2> DEFINE r == IF clusters[m.id] = NoAddr THEN Drop(m.id) ELSE Point(m.id, clusters[m.id])
  <2>1. UNCHANGED clientVars /\ id' = id /\ conn' = conn /\ Consume(m, {r})
    BY <1>5 DEF HandleGet, serverVars
  <2>2. r.cmd \notin {"RUN", "ADD", "CONNECT"} /\ Ack # r
    BY DEF Drop, Point, Ack
  <2> HIDE DEF r
  <2>3. Serves({r})
    BY <1>3, <1>5, <2>1, <2>2 DEF IdsStay
  <2>4. QED BY <2>2, <2>3, NetDone
<1>6. Ack.cmd = "ACK" /\ Nack.cmd = "NACK" /\ Ack # Nack
  BY DEF Ack, Nack
<1>7. CASE wait # "no" /\ HandleAdd(m)
  <2>1. PICK r \in {Ack, Nack} : Consume(m, {r})
    BY <1>7 DEF HandleAdd
  <2>2. UNCHANGED clientVars /\ id' = id /\ conn' = conn /\ m.cmd = "ADD"
    BY <1>7 DEF HandleAdd, serverVars
  <2>3. r.cmd \notin {"RUN", "ADD", "CONNECT"}
    BY <1>6
  <2>4. Serves({r})
    BY <1>3, <1>7, <2>1, <2>2, <2>3 DEF IdsStay
  <2>5. odd = 0 => wait = "reply" /\ JobDone'
    <3>1. SUFFICES ASSUME odd = 0 PROVE wait = "reply" /\ phase # "run" /\ phase # "connect"
      BY <2>2 DEF JobDone, clientVars
    <3>2. QED BY <1>1, <2>2, <3>1, CommandInTime
  <2>6. QED BY <2>4, <2>5, NetDone
<1>8. CASE wait # "no" /\ HandleRun(m)
  <2>1. UNCHANGED clientVars /\ conn' = conn /\ Consume(m, {Ack}) /\ m.cmd = "RUN"
    BY <1>8 DEF HandleRun
  <2>2. IdsStay
    BY <1>8, RunFacts
  <2>3. Serves({Ack})
    BY <1>3, <1>6, <1>8, <2>1, <2>2
  <2>4. odd = 0 => wait = "reply" /\ JobDone'
    <3>1. SUFFICES ASSUME odd = 0 PROVE wait = "reply" /\ JobDone'
      OBVIOUS
    <3>2. /\ wait = "reply" /\ k \in 1 .. Len(Jobs) /\ phase = "run"
          /\ m = ToServer(Job.cmd, known[Job.for], Job.id)
      BY <1>1, <2>1, <3>1, CommandInTime
    <3>3. Job.id = graph.nodes[k].id
      BY <3>2, JobFacts DEF NamesInv
    <3>4. PICK a \in Server, n \in Reserved :
                m = ToServer("RUN", a, n) /\ id' = [id EXCEPT ![a] = n]
      BY <1>8, RunFacts
    <3>5. n = Job.id
      BY <3>2, <3>4 DEF ToServer
    <3>6. id'[a] = graph.nodes[k].id
      BY <3>3, <3>4, <3>5 DEF NamesInv, DataOK
    <3>7. graph' = graph /\ k' = k /\ phase' = phase
      BY <2>1 DEF clientVars
    <3>8. NodeRuns(k)'
      BY <3>6, <3>7 DEF NodeRuns
    <3>9. QED BY <3>2, <3>7, <3>8 DEF JobDone
  <2>5. QED BY <2>3, <2>4, NetDone
<1>9. CASE wait # "no" /\ HandleConnect(m)
  <2>1. /\ UNCHANGED clientVars /\ id' = id /\ Consume(m, {Ack}) /\ m.cmd = "CONNECT"
        /\ conn' = conn \cup {[at |-> m.to, own |-> id[m.to], other |-> m.id]}
    BY <1>9 DEF HandleConnect
  <2>2. Serves({Ack})
    BY <1>3, <1>6, <1>9, <2>1 DEF IdsStay
  <2>3. odd = 0 => wait = "reply" /\ JobDone'
    <3>1. SUFFICES ASSUME odd = 0 PROVE wait = "reply" /\ JobDone'
      OBVIOUS
    <3>2. /\ wait = "reply" /\ k \in 1 .. Len(Jobs) /\ phase = "connect"
          /\ m = ToServer(Job.cmd, known[Job.for], Job.id)
      BY <1>1, <2>1, <3>1, CommandInTime
    <3>3. /\ k \in DOMAIN graph.edges /\ Job.for = graph.edges[k].from
          /\ Job.id = graph.edges[k].to
      BY <3>2, JobFacts DEF NamesInv
    <3>4. m.to = known[Job.for] /\ m.id = Job.id
      BY <3>2 DEF ToServer
    <3>5. m.to \in Server
      <4>1. PICK a \in Server, n \in Reserved : m = ToServer("CONNECT", a, n)
        BY <1>1, <2>1, MessageKinds DEF NamesInv, DataOK
      <4>2. QED BY <4>1 DEF ToServer
    <3>6. Job.for \in Reserved
      BY <3>3 DEF GraphOK
    <3>7. id[m.to] = graph.edges[k].from
      BY <3>3, <3>4, <3>5, <3>6 DEF NamesInv, Settled
    <3>8. graph' = graph /\ k' = k /\ phase' = phase
      BY <2>1 DEF clientVars
    <3>9. \E c \in conn' : c.own = graph.edges[k].from /\ c.other = graph.edges[k].to
      <4>1. [at |-> m.to, own |-> id[m.to], other |-> m.id] \in conn'
        BY <2>1
      <4>2. QED BY <3>3, <3>4, <3>7, <4>1
    <3>10. EdgeMade(k)'
      BY <3>8, <3>9 DEF EdgeMade
    <3>11. QED BY <3>2, <3>8, <3>10 DEF JobDone
  <2>4. QED BY <2>2, <2>3, NetDone
<1>10. CASE wait # "no" /\ Lose(m)
  <2>1. /\ UNCHANGED clientVars /\ id' = id /\ conn' = conn /\ odd' = odd
        /\ net' = net \ {m}
    BY <1>10 DEF Lose, serverVars
  <2>2. odd' = 0 => odd = 0 /\ net' \subseteq {}
    BY <1>1, <2>1 DEF InStep
  <2>3. Serves({})
    BY <1>10, <2>1, <2>2 DEF Serves, IdsStay
  <2>4. QED BY <2>3, NetDone
<1>11. QED BY <1>2, <1>4, <1>5, <1>7, <1>8, <1>9, <1>10 DEF Handle

\* An announcement to the tracker undoes nothing.
LEMMA AnnounceDone ==
    ASSUME GraphOK(graph), NamesInv, Done, IdsStay, UNCHANGED <<conn, net, odd, clientVars>>
    PROVE  Done'
<1>1. /\ phase' = phase /\ graph' = graph /\ ids' = ids /\ k' = k /\ wait' = wait
      /\ known' = known /\ odd' = odd /\ net' = net /\ conn' = conn
  BY DEF clientVars
<1>2. DoneSoFar' /\ ((k <= Len(Jobs) /\ JobDone) => JobDone')
  BY <1>1, DoneStays DEF Done, NamesInv
<1>3. Job' = Job
  BY <1>1 DEF Jobs, Job
<1>4. InStep'
  <2>1. SUFFICES ASSUME odd = 0
                 PROVE  /\ wait = "no" => net = {}
                        /\ \A m, o \in net : m = o
                        /\ \A m \in net : m.cmd \in {"RUN", "ADD", "CONNECT"} =>
                            wait = "reply" /\ m = ToServer(Job.cmd, known[Job.for], Job.id)
                        /\ Ack \in net => wait = "reply" /\ JobDone'
    BY <1>1, <1>3 DEF InStep
  <2>2. Ack \in net => wait = "reply" /\ JobDone /\ k <= Len(Jobs)
    BY <2>1 DEF Done, InStep, NamesInv, LoopOK
  <2>3. QED BY <1>2, <2>1, <2>2 DEF Done, InStep
<1>5. QED BY <1>2, <1>4 DEF Done

\* A step of the client that sends what is in sent, and then waits.
Sends(sent) ==
    /\ wait = "no" /\ wait' # "no"
    /\ net' = net \cup sent
    /\ \A x, y \in sent : x = y
    /\ Ack \notin sent
    /\ \A x \in sent : x.cmd \in {"RUN", "ADD", "CONNECT"} =>
            wait' = "reply" /\ x = ToServer(Job.cmd, known[Job.for], Job.id)
    /\ UNCHANGED <<trackerVars, serverVars, odd, phase, graph, ids, known, k>>

\* The client only sends when nothing is under way.
LEMMA SendDone ==
    ASSUME GraphOK(graph), NamesInv, Done, NEW sent, Sends(sent) PROVE Done'
<1>1. id' = id /\ conn' = conn
  BY DEF Sends, serverVars
<1>2. DoneSoFar'
  BY <1>1, DoneStays DEF Done, NamesInv, IdsStay, Sends
<1>3. Job' = Job
  BY DEF Sends, Jobs, Job
<1>4. odd' = 0 => net' = sent
  BY DEF Done, InStep, Sends
<1>5. InStep'
  BY <1>3, <1>4 DEF InStep, Sends
<1>6. QED BY <1>2, <1>5 DEF Done

\* Every action that sends, or gives up to, is such a step.
LEMMA SendingDone ==
    ASSUME GraphOK(graph), NamesInv, Done,
           AskList \/ Locate \/ AskAddress \/ SendCommand \/ SendNothing
    PROVE  Done'
<1>1. /\ \A i : ToTracker("LIST", i).cmd = "LIST" /\ ToTracker("GET", i).cmd = "GET"
      /\ \A c, i : ToTracker(c, i) # Ack
      /\ \A c, a, i : ToServer(c, a, i) # Ack
  BY DEF ToTracker, ToServer, Ack
<1>2. CASE AskList
  <2>1. /\ wait = "no" /\ wait' = "list" /\ net' = net \cup {ToTracker("LIST", 0)}
        /\ UNCHANGED <<trackerVars, serverVars, odd, phase, graph, ids, known, k>>
    BY <1>2 DEF AskList, Send
  <2>2. Sends({ToTracker("LIST", 0)})
    BY <1>1, <2>1 DEF Sends
  <2>3. QED BY <2>2, SendDone
<1>3. CASE Locate \/ AskAddress
  <2>1. /\ wait = "no" /\ wait' = "get" /\ net' = net \cup {ToTracker("GET", Job.for)}
        /\ UNCHANGED <<trackerVars, serverVars, odd, phase, graph, ids, known, k>>
    BY <1>3 DEF Locate, AskAddress, Send, InCommand, InLoop
  <2>2. Sends({ToTracker("GET", Job.for)})
    BY <1>1, <2>1 DEF Sends
  <2>3. QED BY <2>2, SendDone
<1>4. CASE SendCommand
  <2> DEFINE m == ToServer(Job.cmd, known[Job.for], Job.id)
  <2>1. /\ wait = "no" /\ wait' = "reply" /\ net' = net \cup {m}
        /\ UNCHANGED <<trackerVars, serverVars, odd, phase, graph, ids, known, k>>
    BY <1>4 DEF SendCommand, Send, InCommand, InLoop
  <2>2. Sends({m})
    BY <1>1, <2>1 DEF Sends
  <2>3. QED BY <2>2, SendDone
<1>5. CASE SendNothing
  <2>1. /\ wait = "no" /\ wait' = "reply" /\ net' = net \cup {}
        /\ UNCHANGED <<trackerVars, serverVars, odd, phase, graph, ids, known, k>>
    BY <1>5 DEF SendNothing, InCommand, InLoop, cursor
  <2>2. Sends({})
    BY <2>1 DEF Sends
  <2>3. QED BY <2>2, SendDone
<1>6. QED BY <1>2, <1>3, <1>4, <1>5

\* Nothing is under way when the client goes on.
LEMMA NothingLeft ==
    ASSUME odd' = 0 => net' = {}
    PROVE  InStep'
BY DEF InStep

\* What is passed over was not to be done.
LEMMA SkipDone ==
    ASSUME GraphOK(graph), NamesInv, Done, Skip PROVE Done'
<1>1. /\ wait = "no" /\ k' = k + 1 /\ ~ Labelled /\ k <= Len(Jobs)
      /\ UNCHANGED <<trackerVars, serverVars, net, odd, phase, graph, ids, known>>
  BY DEF Skip, InLoop
<1>2. id' = id /\ conn' = conn /\ net' = net
  BY <1>1 DEF serverVars
<1>3. InStep'
  BY <1>1, <1>2, NothingLeft DEF Done, InStep
<1>4. /\ phase # "run" /\ phase # "running" /\ phase # "refresh"
      /\ phase = "connect" => ~ (graph.edges[k].label > 0)
  <2>1. phase \in CommandLoops
    BY DEF Skip, InLoop
  <2>2. QED BY <1>1, <2>1 DEF Labelled, CommandLoops
<1>5. k \in Nat
  BY DEF NamesInv, LoopOK
<1>6. \A j : NodeRuns(j)' <=> NodeRuns(j)
  BY <1>1, <1>2 DEF NodeRuns
<1>7. \A j : EdgeMade(j)' <=> EdgeMade(j)
  BY <1>1, <1>2 DEF EdgeMade
<1>8. ASSUME odd' = 0, phase = "connect", NEW j \in 1 .. k' - 1, graph.edges[j].label > 0
      PROVE  EdgeMade(j)'
  <2>1. j # k
    BY <1>4, <1>8
  <2>2. j \in 1 .. k - 1
    BY <1>1, <1>5, <1>8, <2>1
  <2>3. EdgeMade(j)
    BY <1>1, <1>8, <2>2 DEF Done, DoneSoFar
  <2>4. QED BY <1>7, <2>3
<1>9. ASSUME odd' = 0, phase \in {"add", "connect"}, NEW j \in 1 .. Len(graph.nodes)
      PROVE  NodeRuns(j)'
  <2>1. NodeRuns(j)
    BY <1>1, <1>9 DEF Done, DoneSoFar
  <2>2. QED BY <1>6, <2>1
<1>10. DoneSoFar'
  BY <1>1, <1>4, <1>8, <1>9 DEF DoneSoFar
<1>11. QED BY <1>3, <1>10 DEF Done

\* A loop that ends has done all its jobs.
LEMMA EndLoopDone ==
    ASSUME GraphOK(graph), NamesInv, Done, EndLoop PROVE Done'
<1>1. /\ wait = "no" /\ k > Len(Jobs) /\ k' = 1 /\ phase \in GetLoops \cup CommandLoops
      /\ UNCHANGED <<trackerVars, serverVars, net, odd, graph, ids, wait>>
      /\ phase' = CASE phase = "locate" -> "run"
                    [] phase = "run" -> IF Len(ids) > Len(Jobs) THEN "crashed" ELSE "refresh"
                    [] phase = "refresh" -> "add"
                    [] phase = "add" -> "connect"
                    [] phase = "connect" -> "running"
  BY DEF EndLoop
<1>2. id' = id /\ conn' = conn /\ net' = net
  BY <1>1 DEF serverVars
<1>3. InStep'
  BY <1>1, <1>2, NothingLeft DEF Done, InStep
<1>4. /\ phase' \notin {"refresh", "add", "connect", "running"}
         \/ phase \in {"refresh", "add", "connect"}
         \/ (phase = "run" /\ ~ (Len(ids) > Len(Jobs)))
      /\ phase' = "running" => phase = "connect"
  BY <1>1 DEF GetLoops, CommandLoops
<1>5. \A j : NodeRuns(j)' <=> NodeRuns(j)
  BY <1>1, <1>2 DEF NodeRuns
<1>6. \A j : EdgeMade(j)' <=> EdgeMade(j)
  BY <1>1, <1>2 DEF EdgeMade
<1>7. JobsOK(Jobs, phase, graph, ids) /\ Len(ids) \in Nat /\ Len(graph.nodes) \in Nat /\ k \in Nat
  <2>1. ids \in Seq(Id)
    BY SeqMonotonic DEF NamesInv, DataOK
  <2>2. JobsOK(Jobs, phase, graph, ids)
    BY <2>1, JobsAre, JobsOfFacts
  <2>3. Len(ids) \in Nat
    BY <2>1, LenProperties
  <2>4. QED BY <2>2, <2>3 DEF NamesInv, LoopOK, GraphOK
<1>8. ASSUME odd' = 0, phase' \in {"refresh", "add", "connect", "running"},
             NEW j \in 1 .. Len(graph.nodes)
      PROVE  NodeRuns(j)
  <2>1. CASE phase \in {"refresh", "add", "connect"}
    BY <1>1, <1>8, <2>1 DEF Done, DoneSoFar
  <2>2. CASE phase = "run" /\ ~ (Len(ids) > Len(Jobs))
    <3>1. Len(graph.nodes) <= Len(ids)
      BY <2>2 DEF NamesInv, ListOK
    <3>2. Len(Jobs) = Len(graph.nodes)
      BY <1>7, <2>2, <3>1 DEF JobsOK
    <3>3. j \in 1 .. k - 1
      BY <1>1, <1>7, <1>8, <3>2
    <3>4. QED BY <1>1, <1>8, <2>2, <3>3 DEF Done, DoneSoFar
  <2>3. QED BY <1>4, <1>8, <2>1, <2>2
<1>9. ASSUME odd' = 0, phase' = "running", NEW j \in 1 .. Len(graph.edges),
             graph.edges[j].label > 0
      PROVE  EdgeMade(j)
  <2>1. phase = "connect"
    BY <1>4, <1>9
  <2>2. Len(Jobs) = Len(graph.edges) /\ Len(Jobs) \in Nat
    BY <1>7, <2>1 DEF JobsOK
  <2>3. j \in 1 .. k - 1
    BY <1>1, <1>7, <1>9, <2>2
  <2>4. QED BY <1>1, <1>9, <2>1, <2>3 DEF Done, DoneSoFar
<1>10. graph' = graph /\ 1 .. k' - 1 = {}
  BY <1>1
<1>11. DoneSoFar'
  BY <1>5, <1>6, <1>8, <1>9, <1>10 DEF DoneSoFar
<1>12. QED BY <1>3, <1>11 DEF Done

\* The client hears what it waited for, or gave up waiting when nothing was under way.
LEMMA GotDone ==
    ASSUME GraphOK(graph), NamesInv, Done, NEW r, Heard(r), Got(r),
           odd' = 0 => odd = 0 /\ net' = {}, r = NoReply \/ r \in net
    PROVE  Done'
<1>1. InStep'
  BY NothingLeft
<1>2. id' = id /\ conn' = conn /\ graph' = graph
  BY DEF Heard, serverVars
<1>3. IdsStay /\ conn \subseteq conn'
  BY <1>2 DEF IdsStay
<1>4. CASE GotList(r)
  <2>1. phase = "list" /\ phase' \in {"crashed", "list", "locate"}
    BY <1>4 DEF GotList, NamesInv, LoopOK
  <2>2. DoneSoFar'
    BY <2>1 DEF DoneSoFar
  <2>3. QED BY <1>1, <2>2 DEF Done
<1>5. ASSUME phase' = phase, k' = k PROVE Done'
  <2>1. DoneSoFar'
    BY <1>2, <1>3, <1>5, DoneStays DEF Done, NamesInv
  <2>2. QED BY <1>1, <2>1 DEF Done
<1>6. \A j : NodeRuns(j)' <=> NodeRuns(j)
  BY <1>2 DEF NodeRuns
<1>7. \A j : EdgeMade(j)' <=> EdgeMade(j)
  BY <1>2 DEF EdgeMade
<1>8. k \in Nat
  BY DEF NamesInv, LoopOK
<1>9. ASSUME phase' = phase, k' = k + 1,
             \/ phase \in GetLoops \cup {"add"}
             \/ phase \in CommandLoops /\ (odd' = 0 => JobDone)
      PROVE  Done'
  <2>1. ASSUME odd' = 0, phase = "run", NEW j \in 1 .. k' - 1 PROVE NodeRuns(j)'
    <3>1. CASE j = k
      <4>1. JobDone
        BY <1>9, <2>1 DEF GetLoops
      <4>2. NodeRuns(j)
        BY <2>1, <3>1, <4>1 DEF JobDone
      <4>3. QED BY <1>6, <4>2
    <3>2. CASE j # k
      <4>1. j \in 1 .. k - 1
        BY <1>8, <1>9, <2>1, <3>2
      <4>2. NodeRuns(j)
        BY <2>1, <4>1 DEF Done, DoneSoFar
      <4>3. QED BY <1>6, <4>2
    <3>3. QED BY <3>1, <3>2
  <2>2. ASSUME odd' = 0, phase = "connect", NEW j \in 1 .. k' - 1, graph.edges[j].label > 0
        PROVE  EdgeMade(j)'
    <3>1. CASE j = k
      <4>1. JobDone
        BY <1>9, <2>2 DEF GetLoops
      <4>2. EdgeMade(j)
        BY <2>2, <3>1, <4>1 DEF JobDone
      <4>3. QED BY <1>7, <4>2
    <3>2. CASE j # k
      <4>1. j \in 1 .. k - 1
        BY <1>8, <1>9, <2>2, <3>2
      <4>2. EdgeMade(j)
        BY <2>2, <4>1 DEF Done, DoneSoFar
      <4>3. QED BY <1>7, <4>2
    <3>3. QED BY <3>1, <3>2
  <2>3. ASSUME odd' = 0, phase \in {"refresh", "add", "connect", "running"},
               NEW j \in 1 .. Len(graph.nodes)
        PROVE  NodeRuns(j)'
    <3>1. NodeRuns(j)
      BY <2>3 DEF Done, DoneSoFar
    <3>2. QED BY <1>6, <3>1
  <2>4. phase # "running"
    BY <1>9 DEF GetLoops, CommandLoops
  <2>5. DoneSoFar'
    BY <1>2, <1>9, <2>1, <2>2, <2>3, <2>4 DEF DoneSoFar
  <2>6. QED BY <1>1, <2>5 DEF Done
<1>10. CASE GotPoint(r)
  <2>1. phase' = phase /\ k' = IF phase \in GetLoops THEN k + 1 ELSE k
    BY <1>10 DEF GotPoint
  <2>2. QED BY <1>5, <1>9, <2>1
<1>11. CASE GotAck(r)
  <2>1. phase \in CommandLoops /\ tries \in Nat
    BY <1>11, RetryAssumption DEF GotAck, NamesInv, LoopOK
  <2>2. CASE r.cmd # "ACK" /\ tries > 0
    BY <1>5, <1>11, <2>2 DEF GotAck
  <2>3. CASE r.cmd # "ACK" /\ tries = 0 /\ phase # "add"
    <3>1. phase' = "failed"
      BY <1>11, <2>3 DEF GotAck
    <3>2. DoneSoFar'
      BY <3>1 DEF DoneSoFar
    <3>3. QED BY <1>1, <3>2 DEF Done
  <2>4. CASE r.cmd = "ACK"
    <3>1. phase' = phase /\ k' = k + 1
      BY <1>11, <2>4 DEF GotAck
    <3>2. r \in net /\ r = Ack
      <4>1. NoReply.cmd = ""
        BY DEF NoReply
      <4>2. r \in net
        BY <2>4, <4>1
      <4>3. QED BY <2>4, <4>2, MessageKinds DEF NamesInv, DataOK
    <3>3. odd' = 0 => JobDone
      BY <3>2 DEF Done, InStep
    <3>4. QED BY <1>9, <2>1, <3>1, <3>3
  <2>5. CASE r.cmd # "ACK" /\ tries = 0 /\ phase = "add"
    <3>1. phase' = phase /\ k' = k + 1
      BY <1>11, <2>5 DEF GotAck
    <3>2. QED BY <1>9, <2>5, <3>1
  <2>6. QED BY <2>1, <2>2, <2>3, <2>4, <2>5
<1>12. QED BY <1>4, <1>10, <1>11 DEF Got

\* A reply comes in time, or is counted as odd.
LEMMA ReceivingDone ==
    ASSUME GraphOK(graph), NamesInv, Done, NEW m, Receive(m) PROVE Done'
<1>1. m \in net /\ Consume(m, {}) /\ Got(m) /\ odd \in 0 .. MaxOdd
  BY DEF Receive, NamesInv, DataOK
<1>2. odd' \in 0 .. MaxOdd /\ net' \subseteq net \cup {}
  BY <1>1, Consumed
<1>3. Heard(m)
  BY <1>1, <1>2 DEF Heard, Got
<1>4. odd' = 0 => odd = 0 /\ net' = {}
  BY <1>1, TakenInTime DEF Done
<1>5. QED BY <1>1, <1>3, <1>4, GotDone

\* The wait ends when nothing is under way, or is counted as odd.
LEMMA TimeoutDone ==
    ASSUME GraphOK(graph), NamesInv, Done, Timeout PROVE Done'
<1>1. net' = net /\ Got(NoReply) /\ odd \in 0 .. MaxOdd
  BY DEF Timeout, NamesInv, DataOK
<1>2. /\ odd' \in 0 .. MaxOdd
      /\ odd' = 0 => odd = 0 /\ net' = {}
  BY <1>1, RetryAssumption DEF Timeout
<1>3. Heard(NoReply)
  BY <1>1, <1>2 DEF Heard, Got
<1>4. QED BY <1>1, <1>2, <1>3, GotDone

\* Every step of tracker, servers, network and client keeps what is done.
LEMMA ClientNextDone ==
    ASSUME GraphOK(graph), NamesInv, Done, ClientNext PROVE Done'
<1>1. CASE AnnounceTimeServer
  BY <1>1, AnnounceDone DEF AnnounceTimeServer, serverVars, IdsStay
<1>2. ASSUME NEW s \in Server, Announce(s) PROVE Done'
  <2>1. UNCHANGED <<conn, net, odd, clientVars>>
    BY <1>2 DEF Announce
  <2>2. CASE id[s] = 0 /\ id' = [id EXCEPT ![s] = Granted(s)]
    <3>1. 0 \notin Reserved
      BY DEF Reserved
    <3>2. IdsStay
      BY <2>2, <3>1 DEF IdsStay, NamesInv, DataOK
    <3>3. QED BY <2>1, <3>2, AnnounceDone
  <2>3. CASE id' = id
    BY <2>1, <2>3, AnnounceDone DEF IdsStay
  <2>4. QED BY <1>2, <2>2, <2>3 DEF Announce
<1>3. ASSUME NEW m \in net, Handle(m) \/ Lose(m) PROVE Done'
  BY <1>3, HandleDone
<1>4. CASE CreateNetwork
  BY <1>4, EndLoopDone, SendingDone, SkipDone, TimeoutDone, ReceivingDone DEF CreateNetwork
<1>5. QED BY <1>1, <1>2, <1>3, <1>4 DEF ClientNext

\* Nothing is done yet.
LEMMA StartDone ==
    ASSUME GraphInv, NamesInv, Done, NEW g, Start(g) PROVE Done'
<1>1. phase = "off" /\ phase' = "list" /\ net' = net /\ net = {}
  BY DEF Start, NamesInv, LoopOK
<1>2. InStep' /\ DoneSoFar'
  BY <1>1, NothingLeft DEF DoneSoFar
<1>3. QED BY <1>2 DEF Done

\* The optimizer undoes nothing.
LEMMA StillDone ==
    ASSUME Done, UNCHANGED clientNetVars PROVE Done'
<1>1. UNCHANGED <<clusters, fresh, next, id, conn, net, odd, phase, graph, ids, known,
                  k, tries, gets, wait>>
  BY DEF clientNetVars
<1>2. Job' = Job
  BY <1>1 DEF Jobs, Job
<1>3. (\A j : NodeRuns(j)' <=> NodeRuns(j)) /\ (\A j : EdgeMade(j)' <=> EdgeMade(j))
  BY <1>1 DEF NodeRuns, EdgeMade
<1>4. JobDone' <=> JobDone
  BY <1>1 DEF JobDone, NodeRuns, EdgeMade
<1>5. InStep'
  BY <1>1, <1>2, <1>4 DEF Done, InStep
<1>6. DoneSoFar'
  BY <1>1, <1>3 DEF Done, DoneSoFar
<1>7. QED BY <1>5, <1>6 DEF Done

\* Every step of the composition keeps what is done.
LEMMA NextDone ==
    ASSUME GraphInv, NamesInv, Done, [BuildNext]_vars PROVE Done'
<1>1. CASE UNCHANGED clientNetVars
  BY <1>1, StillDone
<1>2. CASE CreateFromSource
  BY <1>2, StartDone DEF CreateFromSource
<1>3. CASE CreateFromSaved
  BY <1>3, StartDone DEF CreateFromSaved
<1>4. CASE ClientNext
  BY <1>4, GraphIsOK, ClientNextDone
<1>5. QED BY <1>1, <1>2, <1>3, <1>4 DEF BuildNext, Optimize, vars

-----------------------------------------------------------------------------
(* What holds of every network that is built.                              *)

\* In every behaviour of the tools, the client (client.cpp), the tracker and the servers
\* the inductive invariant holds.
THEOREM SpecIInv == BuildSpec => []IInv
<1>1. BuildInit => IInv
  <2>1. BuildInit => Done
    BY DEF BuildInit, ClientInit, Done, InStep, DoneSoFar
  <2>2. QED BY <2>1, InitGraphInv, InitNames DEF IInv
<1>2. IInv /\ [BuildNext]_vars => IInv'
  BY NextGraphInv, GraphIsOK, NextNames, NextDone DEF IInv
<1>3. QED BY <1>1, <1>2, PTL DEF BuildSpec

\* All state of the composition keeps its types, for every number of servers, every
\* generated file and every bound on retries and odd datagrams.
THEOREM BuildTypeOK == BuildSpec => []TypeOK
<1>1. GraphInv /\ NamesInv => TypeOK
  <2>1. SUFFICES ASSUME GraphInv, NamesInv PROVE TypeOK
    OBVIOUS
  <2>2. TrackerTypeOK /\ id \in [Server -> Id \cup {0}] /\ odd \in 0 .. MaxOdd
        /\ known \in [Id -> Addr \cup {NoAddr}]
        /\ phase \in {"off", "list"} \cup GetLoops \cup CommandLoops \cup Ended
    BY <2>1 DEF NamesInv, DataOK
  <2>3. \A c \in conn : c.at \in Server /\ c.own \in Id /\ c.other \in Id
    BY <2>1 DEF NamesInv, DataOK
  <2>4. \A m \in net : IsReply(m) \/ m.to \in Server \cup {NoAddr}
    BY <2>1, MessageKinds DEF NamesInv, DataOK
  <2>5. ToSet(ids) \subseteq Id \ {TIME_SERVER_ID}
    <3>1. ids \in Seq(Id \ {TIME_SERVER_ID})
      BY <2>1 DEF NamesInv, DataOK
    <3>2. QED BY <3>1, LenProperties, ElementOfSeq DEF ToSet
  <2>6. /\ k \in 1 .. Len(Jobs) + 1 /\ wait \in {"no", "list", "get", "reply"}
        /\ tries \in 0 .. COMMAND_RETRY_COUNT /\ gets \in 0 .. GetRetries
    BY <2>1 DEF NamesInv, LoopOK
  <2>7. ClientTypeOK
    BY <2>2, <2>3, <2>4, <2>5, <2>6 DEF ClientTypeOK
  <2>8. source \in Files /\ stage \in {"file", "optimizing", "empty", "saved"}
    BY <2>1 DEF GraphInv, StageInv
  <2>9. \A i \in DOMAIN graph.nodes : graph.nodes[i].id \in Reserved
    BY <2>1, GraphIsOK DEF GraphOK
  <2>10. QED BY <2>7, <2>8, <2>9 DEF TypeOK
<1>2. QED BY <1>1, SpecIInv, PTL DEF IInv

\* createNetwork (client.cpp) never makes two servers run one node, and no server
\* subscribes to what its node is not connected to, whatever replies come late or twice.
THEOREM BuildNoForeignEdges == BuildSpec => []NoForeignEdges
<1>1. NamesInv => NoForeignEdges
  <2>1. SUFFICES ASSUME NamesInv PROVE NoForeignEdges
    OBVIOUS
  <2>2. ASSUME NEW s \in Server, NEW t \in Server, s # t, id[s] = id[t] PROVE id[s] = 0
    <3>1. SUFFICES ASSUME id[s] \in Id PROVE FALSE
      BY <2>1 DEF NamesInv, DataOK
    <3>2. Claim(id[s], s) /\ Claim(id[s], t) /\ s \in Addr /\ t \in Addr
      BY <2>2, Constants DEF Claim
    <3>3. QED BY <2>1, <2>2, <3>1, <3>2 DEF NamesInv, OneHome
  <2>3. QED BY <2>1, <2>2 DEF NoForeignEdges, NamesInv, Connects
<1>2. QED BY <1>1, SpecIInv, PTL DEF IInv

\* When the client says that the network is running (client.cpp:122) and every datagram
\* came once and in time, or was lost, the graph that was drawn is what runs.
THEOREM BuildBuiltAsDrawn == BuildSpec => []BuiltAsDrawn
<1>1. IInv => BuiltAsDrawn
  <2>1. SUFFICES ASSUME IInv, phase = "running", odd = 0 PROVE Wired(source)
    BY DEF BuiltAsDrawn
  <2>2. source \in Files /\ Drawn(graph, source) /\ GraphOK(graph)
    BY <2>1, GraphIsOK DEF IInv, GraphInv, StageInv
  <2>3. /\ \A j \in 1 .. Len(graph.nodes) : NodeRuns(j)
        /\ \A j \in 1 .. Len(graph.edges) : graph.edges[j].label > 0 => EdgeMade(j)
    BY <2>1 DEF IInv, Done, DoneSoFar
  <2>4. /\ DOMAIN source.nodes = 1 .. Len(source.nodes)
        /\ DOMAIN source.edges = 1 .. Len(source.edges)
        /\ \A i \in 1 .. Len(source.nodes) : source.nodes[i].id = i
    BY <2>2, FileFacts
  <2>5. ASSUME NEW i \in DOMAIN source.nodes
        PROVE  \E s \in Server : { t \in Server : id[t] = source.nodes[i].id } = {s}
    <3>1. source.nodes[i].id = i
      BY <2>4
    <3>2. PICK j \in 1 .. Len(graph.nodes) : graph.nodes[j].id = i
      BY <2>2, <2>4 DEF Drawn
    <3>3. PICK s \in Server : id[s] = i
      BY <2>3, <3>2 DEF NodeRuns
    <3>4. i \in Id
      BY <2>2, <3>2, Constants DEF GraphOK
    <3>5. ASSUME NEW t \in Server, id[t] = i PROVE t = s
      <4>1. Claim(i, s) /\ Claim(i, t) /\ s \in Addr /\ t \in Addr
        BY <3>3, <3>5, Constants DEF Claim
      <4>2. QED BY <2>1, <3>4, <4>1 DEF IInv, NamesInv, OneHome
    <3>6. { t \in Server : id[t] = source.nodes[i].id } = {s}
      BY <3>1, <3>3, <3>5
    <3>7. QED BY <3>6
  <2>6. ASSUME NEW e \in ToSet(source.edges), e.label > 0
        PROVE  \E c \in conn : c.own = e.from /\ c.other = e.to /\ id[c.at] = e.from
    <3>1. PICK j \in 1 .. Len(source.edges) : e = source.edges[j]
      BY <2>4 DEF ToSet
    <3>2. /\ j \in 1 .. Len(graph.edges)
          /\ graph.edges[j].from = e.from /\ graph.edges[j].to = e.to
          /\ graph.edges[j].label > 0
      BY <2>2, <2>6, <3>1 DEF Drawn
    <3>3. PICK c \in conn : c.own = e.from /\ c.other = e.to
      BY <2>3, <3>2 DEF EdgeMade
    <3>4. c.own = id[c.at]
      BY <2>1 DEF IInv, NamesInv, Connects
    <3>5. QED BY <3>3, <3>4
  <2>7. QED BY <2>5, <2>6 DEF Wired
<1>2. QED BY <1>1, SpecIInv, PTL
=============================================================================
