----------------------------- MODULE DPhypProofs -----------------------------
(***************************************************************************)
(* Proofs about DPhyp, for every graph: the pairs that the enumeration     *)
(* offers are apart, and none is offered twice.                            *)
(***************************************************************************)
EXTENDS DPhyp, FiniteSetTheorems, WellFoundedInduction, TLAPS

(***************************************************************************)
(* The inductive invariant.  Its parts about frames and pairs are stated   *)
(* over a graph g, a stack st and the pairs em offered so far.             *)
(***************************************************************************)
\* What the loop of frame f grows, and the relations it may grow it by.
IsCmp(f) == f.op \in {"cmpEmit", "cmpGrow"}
Base(f) == IF IsCmp(f) THEN f.c ELSE f.s
Around(g, f) == Neighborhood(g.edges, Base(f), f.x)

\* The complement of a frame lies apart from its subgraph, above its least
\* relation, and what is forbidden to the frame keeps it there.
Apart(S, C) == S \cap C = {} /\ \A r \in C : Least(S) < r
FrameOK(g, f) ==
  /\ f \in Frames
  /\ f.s \subseteq g.relations /\ f.s # {} /\ f.c \subseteq g.relations
  /\ Apart(f.s, f.c)
  /\ Prefix(Least(f.s)) \subseteq f.x
  /\ IsCmp(f) => f.s \subseteq f.x /\ f.c # {}
  /\ IF f.op = "csg" THEN f.todo \subseteq {{v} : v \in Around(g, f)}
     ELSE f.todo \subseteq Subsets(Around(g, f))

\* The sets T that a Rec function can still reach from base B with neighbours
\* N: they agree with B on what is forbidden, and the neighbours they take tell
\* how they are reached.  A set that takes nothing else is reached by the
\* emit loop, any other by the call that the grow loop makes for these neighbours.
InReach(B, x, T) == B \subseteq T /\ T \cap x = B \cap x
EmitAhead(B, x, N, todo, T) ==
  InReach(B, x, T) /\ T \cap N # {} /\ (T = B \cup (T \cap N) => T \cap N \in todo)
GrowAhead(B, x, N, todo, T) ==
  InReach(B, x, T) /\ T \cap N \in todo /\ T # B \cup (T \cap N)

\* The pairs that frame f and the calls it has still to make can offer.  The
\* complements that emitCsg() seeds with v have v as their least neighbour.
Ahead(g, f, S, C) ==
  \/ /\ f.op = "csg" /\ S = f.s /\ C \cap (f.x \cup f.s) = {}
     /\ \E v \in C : {v} \in f.todo /\ \A u \in C \cap Around(g, f) : v <= u
  \/ f.op = "csgEmit" /\ EmitAhead(f.s, f.x, Around(g, f), f.todo, S)
  \/ f.op = "csgGrow" /\ GrowAhead(f.s, f.x, Around(g, f), f.todo, S)
  \/ f.op = "cmpEmit" /\ S = f.s /\ EmitAhead(f.c, f.x, Around(g, f), f.todo, C)
  \/ f.op = "cmpGrow" /\ S = f.s /\ GrowAhead(f.c, f.x, Around(g, f), f.todo, C)

\* No pair lies ahead of two frames; none that lies ahead of h is not ahead of f.
Exclusive(g, f, h) ==
  \A S, C \in SUBSET g.relations : ~(Ahead(g, f, S, C) /\ Ahead(g, h, S, C))
Within(g, f, h) ==
  \A S, C \in SUBSET g.relations : Ahead(g, h, S, C) => Ahead(g, f, S, C)

StackOK(g, st) ==
  /\ st \in Seq(Frames)
  /\ \A k \in 1..Len(st) : FrameOK(g, st[k])
  /\ \A k, l \in 1..Len(st) : k < l => Exclusive(g, st[k], st[l])

\* A pair that was offered is apart, and lies ahead of no frame.
PairOK(g, S, C) ==
  S \subseteq g.relations /\ S # {} /\ C \subseteq g.relations /\ C # {} /\ Apart(S, C)
EmittedOK(g, st, em) ==
  /\ em \in Seq((SUBSET Nat) \X (SUBSET Nat))
  /\ \A i \in 1..Len(em) : PairOK(g, em[i][1], em[i][2])
  /\ \A i, j \in 1..Len(em) : em[i] = em[j] => i = j
  /\ \A i \in 1..Len(em), k \in 1..Len(st) : ~Ahead(g, st[k], em[i][1], em[i][2])

\* A subgraph is named after its least relation.  Those of the frames and of the
\* pairs offered are none of P, the relations that are still to be seeded.
SeededOK(st, em, P) ==
  /\ \A k \in 1..Len(st) : Least(st[k].s) \notin P
  /\ \A i \in 1..Len(em) : Least(em[i][1]) \notin P

GraphInv == /\ graph \in Graphs /\ seeds \subseteq component
            /\ component \in Components(E, graph.relations)
            /\ phase \in {"greedy", "expand", "fallback"} => seeds = {}
StackInv == StackOK(graph, stack)
EmittedInv == EmittedOK(graph, stack, emitted)
SeedInv == phase \in {"dp", "greedy", "expand"}
             => SeededOK(stack, emitted, seeds \cup UNION Rest)
EnumInv == GraphInv /\ StackInv /\ EmittedInv /\ SeedInv

(***************************************************************************)
(* Facts about Least, Largest and the graph.                               *)
(***************************************************************************)
\* A nonempty set of naturals has a least element.
LEMMA LeastIs ==
  ASSUME NEW S \in SUBSET Nat, S # {}
  PROVE  Least(S) \in S /\ \A n \in S : Least(S) <= n
<1>1. \E m \in S : \A n \in S : ~(<<n, m>> \in OpToRel(<, Nat))
  BY NatLessThanWellFounded, WFMin, Zenon
<1>2. \E m \in S : \A n \in S : ~(n < m)
  BY <1>1, Zenon DEF OpToRel
<1>3. \E m \in S : \A n \in S : m <= n
  BY <1>2
<1> QED
  BY <1>3 DEF Least

\* A nonempty finite set of naturals has a largest element: the smallest
\* counterexample has an element without which it is none.
LEMMA LargestExists ==
  ASSUME NEW S \in SUBSET Nat, IsFiniteSet(S), S # {}
  PROVE  \E m \in S : \A n \in S : n <= m
<1> DEFINE Bad == {T \in SUBSET S : T # {} /\ ~\E m \in T : \A n \in T : n <= m}
           Sizes == {Cardinality(T) : T \in Bad}
<1>1. SUFFICES ASSUME Bad # {} PROVE FALSE
  BY Zenon
<1>2. \A T \in SUBSET S : IsFiniteSet(T) /\ Cardinality(T) \in Nat
  BY FS_Subset, FS_CardinalityType
<1>3. Sizes \in SUBSET Nat /\ Sizes # {}
  BY <1>1, <1>2
<1> HIDE DEF Sizes
<1>4. Least(Sizes) \in Sizes /\ \A n \in Sizes : Least(Sizes) <= n
  BY <1>3, LeastIs
<1>5. PICK T \in Bad : \A U \in Bad : Cardinality(T) <= Cardinality(U)
  BY <1>4 DEF Sizes
<1>6. PICK a \in T : TRUE
  BY <1>5
<1>7. IsFiniteSet(T) /\ T \ {a} \in SUBSET S
  BY <1>2, <1>5
<1>8. Cardinality(T \ {a}) = Cardinality(T) - 1
  BY <1>6, <1>7, FS_RemoveElement
<1>9. T \ {a} \notin Bad
  <2>1. Cardinality(T) \in Nat /\ Cardinality(T \ {a}) < Cardinality(T)
    BY <1>2, <1>5, <1>7, <1>8
  <2>2. T \ {a} \in Bad => Cardinality(T) <= Cardinality(T \ {a})
    BY <1>5, Zenon
  <2> QED
    BY <1>2, <1>7, <2>1, <2>2
<1>10. CASE T \ {a} = {}
  <2>1. \A n \in T : n <= a
    BY <1>5, <1>6, <1>10
  <2> QED
    BY <2>1, <1>5, <1>6
<1>11. CASE T \ {a} # {}
  <2>1. PICK m \in T \ {a} : \A n \in T \ {a} : n <= m
    BY <1>7, <1>9, <1>11
  <2>2. a \in Nat /\ m \in Nat /\ T \subseteq Nat
    BY <1>5, <1>6, <2>1
  <2>3. (\A n \in T : n <= m) \/ (\A n \in T : n <= a)
    BY <2>1, <2>2
  <2> QED
    BY <2>1, <2>3, <1>5, <1>6
<1> QED
  BY <1>10, <1>11

LEMMA LargestIs ==
  ASSUME NEW S \in SUBSET Nat, IsFiniteSet(S), S # {}
  PROVE  Largest(S) \in S /\ \A n \in S : n <= Largest(S)
BY LargestExists DEF Largest

LEMMA GraphFacts ==
  ASSUME NEW g \in Graphs
  PROVE  /\ g.relations \subseteq Nat /\ IsFiniteSet(g.relations) /\ g.relations # {}
         /\ g.noStats \subseteq g.relations /\ g.cap \in Nat
         /\ \A i \in DOMAIN g.edges :
              /\ g.edges[i].left \subseteq g.relations /\ g.edges[i].left # {}
              /\ g.edges[i].right \subseteq g.relations /\ g.edges[i].right # {}
              /\ g.edges[i].left \cap g.edges[i].right = {}
              /\ g.edges[i].type \in {"inner", "left", "full", "semi", "mark", "anti"}
              /\ g.edges[i].unnest \in BOOLEAN
              /\ g.edges[i].unnest => \E u : g.edges[i].right = {u}
<1> DEFINE R == g.relations
           Edge == [left : SUBSET R, right : SUBSET R, ends : SUBSET R,
                    type : {"inner", "left", "full", "semi", "mark", "anti"},
                    unnest : BOOLEAN,
                    keys : {e.keys : e \in {g.edges[i] : i \in DOMAIN g.edges}},
                    filter : {e.filter : e \in {g.edges[i] : i \in DOMAIN g.edges}}]
<1>1. /\ R \subseteq Nat /\ IsFiniteSet(R) /\ R # {}
      /\ g.noStats \subseteq R /\ g.cap \in Nat /\ g.edges \in Seq(Edge)
      /\ \A i \in DOMAIN g.edges : /\ g.edges[i].left # {} /\ g.edges[i].right # {}
                                   /\ g.edges[i].left \cap g.edges[i].right = {}
                                   /\ g.edges[i].unnest => \E u : g.edges[i].right = {u}
  BY GraphsAssumption, Zenon DEF Meets
<1>2. \A i \in DOMAIN g.edges : g.edges[i] \in Edge
  <2> HIDE DEF Edge
  <2> QED
    BY <1>1
<1>3. ASSUME NEW i \in DOMAIN g.edges
      PROVE  /\ g.edges[i].left \subseteq R /\ g.edges[i].right \subseteq R
             /\ g.edges[i].type \in {"inner", "left", "full", "semi", "mark", "anti"}
             /\ g.edges[i].unnest \in BOOLEAN
  BY <1>2
<1> QED
  BY <1>1, <1>3, Zenon

\* neighborhood() stays outside of the set and of what is forbidden.
LEMMA NeighborhoodIs ==
  ASSUME NEW g \in Graphs, NEW S, NEW x
  PROVE  /\ Neighborhood(g.edges, S, x) \subseteq g.relations
         /\ Neighborhood(g.edges, S, x) \cap S = {}
         /\ Neighborhood(g.edges, S, x) \cap x = {}
<1> SUFFICES ASSUME NEW v \in Neighborhood(g.edges, S, x)
             PROVE  v \in g.relations /\ v \notin S /\ v \notin x
  OBVIOUS
<1>1. PICK o : /\ v = Least(o) /\ o \cap x = {} /\ o \cap S = {}
               /\ \E i \in DOMAIN g.edges : o = g.edges[i].left \/ o = g.edges[i].right
  BY DEF Neighborhood, Meets
<1>2. o \subseteq g.relations /\ o # {} /\ o \subseteq Nat
  BY <1>1, GraphFacts
<1>3. Least(o) \in o
  BY <1>2, LeastIs
<1> QED
  BY <1>1, <1>2, <1>3

\* connectedComponents() partitions the relations: the complement of a set that
\* no edge leaves is one, too.
LEMMA ComponentsArePartition ==
  ASSUME NEW g \in Graphs
  PROVE  /\ Components(g.edges, g.relations) # {}
         /\ \A K \in Components(g.edges, g.relations) : K \subseteq g.relations /\ K # {}
         /\ \A K, L \in Components(g.edges, g.relations) : K # L => K \cap L = {}
<1> DEFINE R == g.relations
           Closed == {S \in SUBSET R : \A i \in DOMAIN g.edges :
                        Meets(Tes(g.edges[i]), S) => Tes(g.edges[i]) \subseteq S}
           Of(r) == {q \in R : \A S \in Closed : r \in S => q \in S}
<1>1. Components(g.edges, g.relations) = {Of(r) : r \in R}
  BY DEF Components
<1>2. \A i \in DOMAIN g.edges : Tes(g.edges[i]) \subseteq R
  BY GraphFacts DEF Tes
<1>3. \A S \in Closed : R \ S \in Closed
  <2> SUFFICES ASSUME NEW S \in Closed, NEW i \in DOMAIN g.edges,
                      Meets(Tes(g.edges[i]), R \ S)
               PROVE  Tes(g.edges[i]) \subseteq R \ S
    OBVIOUS
  <2>1. Meets(Tes(g.edges[i]), S) => Tes(g.edges[i]) \subseteq S
    OBVIOUS
  <2> QED
    BY <1>2, <2>1 DEF Meets
<1> HIDE DEF Closed
<1>4. \A r, q \in R : q \in Of(r) => Of(q) = Of(r)
  <2> SUFFICES ASSUME NEW r \in R, NEW q \in R, q \in Of(r)
               PROVE  \A S \in Closed : q \in S <=> r \in S
    BY Zenon
  <2> TAKE S \in Closed
  <2>1. CASE r \in S
    BY <2>1
  <2>2. CASE r \notin S
    BY <2>2, <1>3
  <2> QED
    BY <2>1, <2>2
<1>5. \A r \in R : r \in Of(r) /\ Of(r) \subseteq R
  OBVIOUS
<1> HIDE DEF Of
<1>6. R # {}
  BY GraphFacts
<1>7. ASSUME NEW K \in Components(g.edges, g.relations),
             NEW L \in Components(g.edges, g.relations), K \cap L # {}
      PROVE  K = L
  <2>1. PICK r \in R, q \in R : K = Of(r) /\ L = Of(q)
    BY <1>1
  <2>2. PICK s : s \in K /\ s \in L
    BY <1>7
  <2> QED
    BY <2>1, <2>2, <1>4, <1>5
<1>8. ASSUME NEW K \in Components(g.edges, g.relations)
      PROVE  K \subseteq g.relations /\ K # {}
  <2>1. PICK r \in R : K = Of(r)
    BY <1>1
  <2> QED
    BY <2>1, <1>5
<1>9. Components(g.edges, g.relations) # {}
  BY <1>1, <1>6
<1> QED
  BY <1>7, <1>8, <1>9

\* connectedComponents(): an edge lies within a component.
LEMMA EdgeInComponent ==
  ASSUME NEW g \in Graphs, NEW i \in DOMAIN g.edges
  PROVE  \E K \in Components(g.edges, g.relations) : Tes(g.edges[i]) \subseteq K
<1> DEFINE R == g.relations
           Closed == {S \in SUBSET R : \A j \in DOMAIN g.edges :
                        Meets(Tes(g.edges[j]), S) => Tes(g.edges[j]) \subseteq S}
           Of(r) == {q \in R : \A S \in Closed : r \in S => q \in S}
<1>1. Components(g.edges, g.relations) = {Of(r) : r \in R}
  BY DEF Components
<1>2. Tes(g.edges[i]) \subseteq R /\ Tes(g.edges[i]) # {}
  BY GraphFacts DEF Tes
<1>3. PICK r \in R : r \in Tes(g.edges[i])
  BY <1>2
<1>4. \A S \in Closed : r \in S => Tes(g.edges[i]) \subseteq S
  BY <1>3 DEF Meets
<1> HIDE DEF Closed
<1>5. Tes(g.edges[i]) \subseteq Of(r)
  BY <1>2, <1>4
<1>6. Of(r) \in Components(g.edges, g.relations)
  BY <1>1
<1> HIDE DEF Of
<1> QED
  BY <1>5, <1>6

\* There is a first one of several components.
LEMMA FirstIs ==
  ASSUME NEW Ks, Ks # {}, \A K \in Ks : K \in SUBSET Nat /\ K # {}
  PROVE  First(Ks) \in Ks
<1>1. \A K \in Ks : Least(K) \in Nat
  BY LeastIs
<1> DEFINE Ls == {Least(K) : K \in Ks}
<1>2. Ls \in SUBSET Nat /\ Ls # {}
  BY <1>1
<1>3. Least(Ls) \in Ls /\ \A n \in Ls : Least(Ls) <= n
  BY <1>2, LeastIs
<1>4. \E K \in Ks : \A L \in Ks : Least(K) <= Least(L)
  BY <1>3
<1> QED
  BY <1>4 DEF First

(***************************************************************************)
(* Frames.                                                                 *)
(***************************************************************************)
\* What a frame grows by lies above the least relation of its subgraph, outside
\* of its subgraph and its complement.
LEMMA AroundIs ==
  ASSUME NEW g \in Graphs, NEW f, FrameOK(g, f)
  PROVE  /\ Around(g, f) \subseteq g.relations /\ Around(g, f) \subseteq Nat
         /\ IsFiniteSet(Around(g, f))
         /\ Around(g, f) \cap f.x = {} /\ Around(g, f) \cap f.s = {}
         /\ IsCmp(f) => Around(g, f) \cap f.c = {}
         /\ \A v \in Around(g, f) : Least(f.s) < v
         /\ Least(f.s) \in Nat /\ Least(f.s) \in f.s
<1>1. /\ Around(g, f) \subseteq g.relations
      /\ Around(g, f) \cap Base(f) = {} /\ Around(g, f) \cap f.x = {}
  BY NeighborhoodIs DEF Around
<1>2. g.relations \subseteq Nat /\ IsFiniteSet(g.relations)
  BY GraphFacts
<1>3. IsFiniteSet(Around(g, f))
  BY <1>1, <1>2, FS_Subset
<1>4. Around(g, f) \cap f.s = {} /\ (IsCmp(f) => Around(g, f) \cap f.c = {})
  BY <1>1 DEF Base, FrameOK
<1>5. f.s \in SUBSET Nat /\ f.s # {}
  BY <1>2 DEF FrameOK
<1>6. Least(f.s) \in f.s /\ Least(f.s) \in Nat
  BY <1>5, LeastIs
<1>7. \A v \in Around(g, f) : Least(f.s) < v
  <2> TAKE v \in Around(g, f)
  <2>1. v \in Nat /\ v \notin 0..Least(f.s)
    BY <1>1, <1>2 DEF FrameOK, Prefix
  <2> QED
    BY <1>6, <2>1
<1> QED
  BY <1>1, <1>2, <1>3, <1>4, <1>6, <1>7

\* Growing a subgraph by larger relations keeps its least one.
LEMMA LeastGrown ==
  ASSUME NEW S \in SUBSET Nat, S # {}, NEW T \in SUBSET Nat, \A v \in T : Least(S) < v
  PROVE  Least(S \cup T) = Least(S)
<1>1. Least(S) \in S /\ \A n \in S : Least(S) <= n
  BY LeastIs
<1>2. Least(S \cup T) \in S \cup T /\ \A n \in S \cup T : Least(S \cup T) <= n
  <2>1. S \cup T \in SUBSET Nat /\ S \cup T # {}
    OBVIOUS
  <2> QED
    BY <2>1, LeastIs
<1>3. Least(S) \in Nat /\ Least(S \cup T) \in Nat
  BY <1>1, <1>2
<1>4. Least(S \cup T) <= Least(S)
  BY <1>1, <1>2
<1>5. Least(S) <= Least(S \cup T)
  BY <1>1, <1>2, <1>3
<1> QED
  BY <1>3, <1>4, <1>5

\* The frame after a round of its loop, with fewer sets left.
LEMMA FewerLeft ==
  ASSUME NEW g \in Graphs, NEW f, FrameOK(g, f), NEW left, left \subseteq f.todo
  PROVE  LET h == [f EXCEPT !.todo = left]
         IN /\ FrameOK(g, h) /\ Within(g, f, h) /\ h.s = f.s
            /\ h.op = f.op /\ h.c = f.c /\ h.x = f.x /\ h.todo = left
            /\ Around(g, h) = Around(g, f)
<1> DEFINE h == [f EXCEPT !.todo = left]
<1>1. f \in Frames
  BY DEF FrameOK
<1>2. /\ h \in Frames /\ h.s = f.s /\ h.op = f.op /\ h.c = f.c /\ h.x = f.x /\ h.todo = left
  BY <1>1 DEF Frames
<1> HIDE DEF h
<1>3. Around(g, h) = Around(g, f) /\ (IsCmp(h) <=> IsCmp(f))
  BY <1>2 DEF Around, Base, IsCmp
<1>4. FrameOK(g, h)
  BY <1>2, <1>3 DEF FrameOK
<1>5. Within(g, f, h)
  <2> SUFFICES ASSUME NEW S \in SUBSET g.relations, NEW C \in SUBSET g.relations, Ahead(g, h, S, C)
               PROVE  Ahead(g, f, S, C)
    BY DEF Within
  <2>1. \A B, x, N, T : EmitAhead(B, x, N, left, T) => EmitAhead(B, x, N, f.todo, T)
    BY DEF EmitAhead
  <2>2. \A B, x, N, T : GrowAhead(B, x, N, left, T) => GrowAhead(B, x, N, f.todo, T)
    BY DEF GrowAhead
  <2> QED
    BY <1>2, <1>3, <2>1, <2>2 DEF Ahead
<1> QED
  BY <1>2, <1>3, <1>4, <1>5 DEF h

\* The frame that emitCsg(S) starts with.
LEMMA CsgIs ==
  ASSUME NEW g \in Graphs, NEW S, S \subseteq g.relations, S # {}
  PROVE  LET x == Prefix(Least(S))
             h == Frame("csg", S, {}, x, {{v} : v \in Neighborhood(g.edges, S, x)})
         IN h \in Frames /\ FrameOK(g, h)
<1> DEFINE x == Prefix(Least(S))
           N == Neighborhood(g.edges, S, x)
           h == Frame("csg", S, {}, x, {{v} : v \in N})
<1>1. S \in SUBSET Nat /\ N \subseteq Nat
  BY GraphFacts, NeighborhoodIs
<1>2. Least(S) \in Nat
  BY <1>1, LeastIs
<1>3. x \subseteq Nat
  BY <1>2 DEF Prefix
<1> HIDE DEF x, N
<1>4. /\ h \in Frames /\ h.op = "csg" /\ h.s = S /\ h.c = {} /\ h.x = x
      /\ h.todo = {{v} : v \in N}
  BY <1>1, <1>3 DEF Frame, Frames
<1> HIDE DEF h
<1>5. ~IsCmp(h) /\ Around(g, h) = N
  BY <1>4 DEF IsCmp, Around, Base, N
<1>6. FrameOK(g, h)
  BY <1>4, <1>5 DEF FrameOK, Apart, x
<1> QED
  BY <1>4, <1>6 DEF h, N, x

\* The frames of enumerateCsgRec(S, x).
LEMMA CsgRecIs ==
  ASSUME NEW g \in Graphs, NEW S, S \subseteq g.relations, S # {},
         NEW x \in SUBSET Nat, Prefix(Least(S)) \subseteq x, NEW op \in {"csgEmit", "csgGrow"},
         NEW h, h = Frame(op, S, {}, x, Subsets(Neighborhood(g.edges, S, x)))
  PROVE  /\ h \in Frames /\ FrameOK(g, h) /\ ~IsCmp(h) /\ h.op = op /\ h.s = S /\ h.x = x
         /\ Around(g, h) = Neighborhood(g.edges, S, x)
         /\ h.todo = Subsets(Around(g, h))
<1> DEFINE N == Neighborhood(g.edges, S, x)
<1>1. S \in SUBSET Nat /\ N \subseteq Nat
  BY GraphFacts, NeighborhoodIs
<1>2. Subsets(N) \subseteq SUBSET Nat
  BY <1>1 DEF Subsets
<1> HIDE DEF N
<1>3. h = Frame(op, S, {}, x, Subsets(N))
  BY DEF N
<1>4. h \in Frames /\ h.op = op /\ h.s = S /\ h.c = {} /\ h.x = x /\ h.todo = Subsets(N)
  BY <1>1, <1>2, <1>3 DEF Frame, Frames
<1>5. ~IsCmp(h) /\ Around(g, h) = N
  BY <1>4 DEF IsCmp, Around, Base, N
<1>6. FrameOK(g, h)
  BY <1>4, <1>5 DEF FrameOK, Apart
<1> QED
  BY <1>4, <1>5, <1>6 DEF N

\* h is a frame of enumerateCmpRec(S, C, x).
CmpFrame(g, op, S, C, x, h) ==
  /\ S \subseteq g.relations /\ S # {} /\ C \subseteq g.relations /\ C # {} /\ Apart(S, C)
  /\ x \in SUBSET Nat /\ Prefix(Least(S)) \subseteq x /\ S \subseteq x
  /\ op \in {"cmpEmit", "cmpGrow"}
  /\ h = Frame(op, S, C, x, Subsets(Neighborhood(g.edges, C, x)))
LEMMA CmpRecIs ==
  ASSUME NEW g \in Graphs, NEW S, NEW C, NEW x, NEW op, NEW h, CmpFrame(g, op, S, C, x, h)
  PROVE  /\ h \in Frames /\ FrameOK(g, h) /\ IsCmp(h)
         /\ h.op = op /\ h.s = S /\ h.c = C /\ h.x = x
         /\ Around(g, h) = Neighborhood(g.edges, C, x)
         /\ h.todo = Subsets(Around(g, h))
<1> DEFINE N == Neighborhood(g.edges, C, x)
<1>0. /\ S \subseteq g.relations /\ S # {} /\ C \subseteq g.relations /\ C # {} /\ Apart(S, C)
      /\ x \in SUBSET Nat /\ Prefix(Least(S)) \subseteq x /\ S \subseteq x
      /\ op \in {"cmpEmit", "cmpGrow"} /\ h = Frame(op, S, C, x, Subsets(N))
  BY DEF CmpFrame
<1>1. S \in SUBSET Nat /\ C \in SUBSET Nat /\ N \subseteq Nat
  BY <1>0, GraphFacts, NeighborhoodIs
<1>2. Subsets(N) \subseteq SUBSET Nat
  BY <1>1 DEF Subsets
<1> HIDE DEF N
<1>3. h = Frame(op, S, C, x, Subsets(N))
  BY <1>0
<1>4. h \in Frames /\ h.op = op /\ h.s = S /\ h.c = C /\ h.x = x /\ h.todo = Subsets(N)
  BY <1>0, <1>1, <1>2, <1>3 DEF Frame, Frames
<1>5. IsCmp(h) /\ Around(g, h) = N
  BY <1>0, <1>4 DEF IsCmp, Around, Base, N
<1>6. FrameOK(g, h)
  BY <1>0, <1>4, <1>5 DEF FrameOK
<1> QED
  BY <1>4, <1>5, <1>6 DEF N

(***************************************************************************)
(* What the loops of a Rec function leave ahead.  N are the neighbours of  *)
(* base B.                                                                 *)
(***************************************************************************)
\* The set that the emit loop visits was ahead of it, and is so no more.
LEMMA EmitVisits ==
  ASSUME NEW B, NEW x, NEW N, N \cap B = {}, N \cap x = {}, NEW todo, NEW sub \in todo,
         sub \subseteq N, sub # {}
  PROVE  /\ EmitAhead(B, x, N, todo, B \cup sub)
         /\ ~EmitAhead(B, x, N, todo \ {sub}, B \cup sub)
<1>1. (B \cup sub) \cap N = sub /\ (B \cup sub) \cap x = B \cap x
  OBVIOUS
<1> QED
  BY <1>1 DEF EmitAhead, InReach

\* What is ahead of the call that the grow loop makes was ahead of it, and
\* is so no more.
LEMMA GrowVisits ==
  ASSUME NEW B, NEW x, NEW N, N \cap B = {}, N \cap x = {}, NEW todo, NEW sub \in todo,
         sub \subseteq N, sub # {},
         NEW M, M \cap (B \cup sub) = {}, NEW some, NEW T,
         EmitAhead(B \cup sub, x \cup N, M, some, T)
  PROVE  /\ GrowAhead(B, x, N, todo, T)
         /\ ~GrowAhead(B, x, N, todo \ {sub}, T)
<1>1. B \cup sub \subseteq T /\ T \cap (x \cup N) = (B \cup sub) \cap (x \cup N) /\ T \cap M # {}
  BY DEF EmitAhead, InReach
<1>2. T \cap N = sub /\ T \cap x = B \cap x
  BY <1>1
<1>3. T # B \cup sub
  BY <1>1
<1> QED
  BY <1>1, <1>2, <1>3 DEF GrowAhead, InReach

\* When the emit loop has ended, what is ahead of the grow loop is ahead of it.
LEMMA GrowFollows ==
  ASSUME NEW B, NEW x, NEW N, NEW T, GrowAhead(B, x, N, Subsets(N), T)
  PROVE  EmitAhead(B, x, N, {}, T)
BY DEF GrowAhead, EmitAhead, Subsets

(***************************************************************************)
(* What one round of each loop leaves ahead.                               *)
(***************************************************************************)
Less(f, sub) == [f EXCEPT !.todo = f.todo \ {sub}]

\* A round of emitCsg(): the pair with {v}, and the complements seeded by v.
LEMMA EmitCsgFrames ==
  ASSUME NEW g \in Graphs, NEW f, FrameOK(g, f), f.op = "csg", NEW v, {v} \in f.todo
  PROVE  LET N == Neighborhood(g.edges, f.s, f.x)
             x == f.x \cup f.s \cup (Prefix(v) \cap N)
             h == Frame("cmpEmit", f.s, {v}, x, Subsets(Neighborhood(g.edges, {v}, x)))
             k == Less(f, {v})
         IN /\ FrameOK(g, h) /\ h.s = f.s /\ FrameOK(g, k) /\ k.s = f.s
            /\ Within(g, f, h) /\ Within(g, f, k) /\ Exclusive(g, h, k)
            /\ PairOK(g, f.s, {v}) /\ Ahead(g, f, f.s, {v})
            /\ ~Ahead(g, h, f.s, {v}) /\ ~Ahead(g, k, f.s, {v})
<1> DEFINE N == Neighborhood(g.edges, f.s, f.x)
           x == f.x \cup f.s \cup (Prefix(v) \cap N)
           h == Frame("cmpEmit", f.s, {v}, x, Subsets(Neighborhood(g.edges, {v}, x)))
           k == Less(f, {v})
<1>1. Around(g, f) = N /\ ~IsCmp(f) /\ f \in Frames
  BY DEF Around, Base, IsCmp, FrameOK
<1>2. v \in N
  BY <1>1 DEF FrameOK
<1>3. /\ N \subseteq g.relations /\ N \subseteq Nat /\ N \cap f.x = {} /\ N \cap f.s = {}
      /\ \A u \in N : Least(f.s) < u
  BY <1>1, AroundIs
<1> HIDE DEF N
<1>4. PairOK(g, f.s, {v})
  BY <1>2, <1>3 DEF PairOK, Apart, FrameOK
<1>5. f.x \subseteq Nat /\ f.s \subseteq Nat
  BY <1>1 DEF Frames
<1>6. x \in SUBSET Nat /\ Prefix(Least(f.s)) \subseteq x /\ f.s \subseteq x
  BY <1>3, <1>5 DEF FrameOK
<1> HIDE DEF x
<1>7. /\ h \in Frames /\ FrameOK(g, h) /\ IsCmp(h) /\ h.op = "cmpEmit" /\ h.s = f.s
      /\ h.c = {v} /\ h.x = x /\ h.todo = Subsets(Around(g, h))
  <2>1. f.s \subseteq g.relations /\ f.s # {} /\ {v} \subseteq g.relations /\ {v} # {}
        /\ Apart(f.s, {v})
    BY <1>4 DEF PairOK
  <2>2. CmpFrame(g, "cmpEmit", f.s, {v}, x, h)
    BY <1>6, <2>1 DEF CmpFrame
  <2> HIDE DEF h
  <2> QED
    BY <2>2, CmpRecIs
<1>8. /\ FrameOK(g, k) /\ Within(g, f, k) /\ k.s = f.s /\ k.op = "csg" /\ k.x = f.x
      /\ k.todo = f.todo \ {{v}} /\ Around(g, k) = N
  <2>1. f.todo \ {{v}} \subseteq f.todo
    OBVIOUS
  <2> QED
    BY <1>1, <2>1, FewerLeft DEF Less
<1> HIDE DEF h, k
<1>9. Ahead(g, f, f.s, {v})
  <2>1. {v} \cap (f.x \cup f.s) = {}
    BY <1>2, <1>3
  <2>2. \A u \in {v} \cap Around(g, f) : v <= u
    BY <1>2, <1>3
  <2> QED
    BY <2>1, <2>2 DEF Ahead
<1>10. ASSUME NEW S, NEW C, Ahead(g, h, S, C)
       PROVE  /\ S = f.s /\ v \in C /\ C # {v} /\ C \cap (f.x \cup f.s) = {}
              /\ \A u \in C \cap N : v <= u
  <2>1. S = f.s /\ EmitAhead({v}, x, Around(g, h), h.todo, C)
    BY <1>7, <1>10 DEF Ahead
  <2>2. v \in C /\ C \cap x = {v} \cap x /\ C \cap Around(g, h) # {}
    BY <2>1 DEF EmitAhead, InReach
  <2>3. Around(g, h) \cap {v} = {}
    BY <1>7, AroundIs
  <2>4. v \notin f.x /\ v \notin f.s /\ v \in Nat
    BY <1>2, <1>3
  <2>5. C \cap (f.x \cup f.s) = {}
    BY <2>2, <2>4 DEF x
  <2>6. ASSUME NEW u \in C \cap N, ~(v <= u) PROVE FALSE
    <3>1. u \in Nat /\ u \in Prefix(v)
      BY <1>3, <2>4, <2>6 DEF Prefix
    <3>2. u \in C \cap x
      BY <3>1 DEF x
    <3> QED
      BY <2>2, <2>4, <2>6, <3>2
  <2> QED
    BY <2>1, <2>2, <2>3, <2>5, <2>6
<1>11. ~Ahead(g, h, f.s, {v})
  BY <1>10
<1>12. Within(g, f, h)
  BY <1>1, <1>10, ZenonT(90) DEF Within, Ahead
<1>13. ASSUME NEW S, NEW C, Ahead(g, k, S, C), v \in C, \A u \in C \cap N : v <= u
       PROVE  FALSE
  <2>1. PICK w \in C : {w} \in k.todo /\ \A u \in C \cap N : w <= u
    BY <1>8, <1>13 DEF Ahead
  <2>2. w \in N /\ w # v
    BY <1>1, <1>8, <2>1 DEF FrameOK
  <2>3. w <= v /\ v <= w
    BY <1>2, <1>13, <2>1, <2>2
  <2> QED
    BY <1>2, <1>3, <2>2, <2>3
<1>14. ~Ahead(g, k, f.s, {v})
  <2>1. v <= v
    BY <1>2, <1>3
  <2> QED
    BY <1>13, <2>1
<1>15. Exclusive(g, h, k)
  BY <1>10, <1>13 DEF Exclusive
<1> QED
  BY <1>4, <1>7, <1>8, <1>9, <1>11, <1>12, <1>14, <1>15 DEF h, k, x, N

\* A round of the emit loop of enumerateCsgRec(): the subgraph grown by sub.
LEMMA CsgEmitFrames ==
  ASSUME NEW g \in Graphs, NEW f, FrameOK(g, f), f.op = "csgEmit", NEW sub \in f.todo
  PROVE  LET S == f.s \cup sub
             x == Prefix(Least(S))
             h == Frame("csg", S, {}, x, {{v} : v \in Neighborhood(g.edges, S, x)})
             k == Less(f, sub)
         IN /\ FrameOK(g, h) /\ Least(h.s) = Least(f.s) /\ FrameOK(g, k) /\ k.s = f.s
            /\ Within(g, f, h) /\ Within(g, f, k) /\ Exclusive(g, h, k)
<1> DEFINE S == f.s \cup sub
           x == Prefix(Least(S))
           h == Frame("csg", S, {}, x, {{v} : v \in Neighborhood(g.edges, S, x)})
           k == Less(f, sub)
           N == Around(g, f)
<1>1. /\ N \subseteq g.relations /\ N \subseteq Nat /\ N \cap f.x = {} /\ N \cap f.s = {}
      /\ \A u \in N : Least(f.s) < u
  BY AroundIs
<1>2. sub \subseteq N /\ sub # {} /\ f \in Frames
  BY DEF FrameOK, Subsets
<1>3. S \subseteq g.relations /\ S # {}
  BY <1>1, <1>2 DEF FrameOK
<1>4. h \in Frames /\ FrameOK(g, h)
  BY <1>3, CsgIs
<1>5. h.op = "csg" /\ h.s = S
  BY DEF Frame
<1>6. Least(S) = Least(f.s)
  <2>1. f.s \in SUBSET Nat /\ f.s # {} /\ sub \in SUBSET Nat
    BY <1>1, <1>2 DEF FrameOK, Frames
  <2> QED
    BY <1>1, <1>2, <2>1, LeastGrown
<1>7. /\ FrameOK(g, k) /\ Within(g, f, k) /\ k.s = f.s /\ k.op = "csgEmit" /\ k.x = f.x
      /\ k.todo = f.todo \ {sub} /\ Around(g, k) = N
  <2>1. f.todo \ {sub} \subseteq f.todo
    OBVIOUS
  <2> QED
    BY <2>1, FewerLeft DEF Less
<1> HIDE DEF h, k, N
<1>8. EmitAhead(f.s, f.x, N, f.todo, S) /\ ~EmitAhead(f.s, f.x, N, f.todo \ {sub}, S)
  BY <1>1, <1>2, EmitVisits
<1>9. \A T, C : Ahead(g, h, T, C) => T = S
  BY <1>5 DEF Ahead
<1>10. Within(g, f, h)
  BY <1>8, <1>9 DEF Within, Ahead, N
<1>11. Exclusive(g, h, k)
  BY <1>7, <1>8, <1>9 DEF Exclusive, Ahead
<1> QED
  BY <1>4, <1>5, <1>6, <1>7, <1>10, <1>11 DEF h, k

\* A round of the grow loop of enumerateCsgRec(): the call for the subgraph
\* grown by sub.
LEMMA CsgGrowFrames ==
  ASSUME NEW g \in Graphs, NEW f, FrameOK(g, f), f.op = "csgGrow", NEW sub \in f.todo
  PROVE  LET S == f.s \cup sub
             x == f.x \cup Neighborhood(g.edges, f.s, f.x)
             h == Frame("csgEmit", S, {}, x, Subsets(Neighborhood(g.edges, S, x)))
             k == Less(f, sub)
         IN /\ FrameOK(g, h) /\ Least(h.s) = Least(f.s) /\ FrameOK(g, k) /\ k.s = f.s
            /\ Within(g, f, h) /\ Within(g, f, k) /\ Exclusive(g, h, k)
<1> DEFINE N == Neighborhood(g.edges, f.s, f.x)
           S == f.s \cup sub
           x == f.x \cup N
           h == Frame("csgEmit", S, {}, x, Subsets(Neighborhood(g.edges, S, x)))
           k == Less(f, sub)
<1>1. Around(g, f) = N /\ ~IsCmp(f) /\ f \in Frames
  BY DEF Around, Base, IsCmp, FrameOK
<1>2. /\ N \subseteq g.relations /\ N \subseteq Nat /\ N \cap f.x = {} /\ N \cap f.s = {}
      /\ \A u \in N : Least(f.s) < u
  BY <1>1, AroundIs
<1>3. sub \subseteq N /\ sub # {}
  BY <1>1 DEF FrameOK, Subsets
<1> HIDE DEF N
<1>4. S \subseteq g.relations /\ S # {}
  BY <1>2, <1>3 DEF FrameOK
<1>5. Least(S) = Least(f.s)
  <2>1. f.s \in SUBSET Nat /\ f.s # {} /\ sub \in SUBSET Nat
    BY <1>1, <1>2, <1>3 DEF FrameOK, Frames
  <2> QED
    BY <1>2, <1>3, <2>1, LeastGrown
<1>6. x \in SUBSET Nat /\ Prefix(Least(S)) \subseteq x
  BY <1>1, <1>2, <1>5 DEF FrameOK, Frames
<1>7. /\ h \in Frames /\ FrameOK(g, h) /\ ~IsCmp(h) /\ h.op = "csgEmit" /\ h.s = S
      /\ h.x = x
  <2>1. "csgEmit" \in {"csgEmit", "csgGrow"}
    OBVIOUS
  <2>2. h = Frame("csgEmit", S, {}, x, Subsets(Neighborhood(g.edges, S, x)))
    OBVIOUS
  <2> HIDE DEF h, x, S
  <2> QED
    BY <1>4, <1>6, <2>1, <2>2, CsgRecIs
<1>8. /\ FrameOK(g, k) /\ Within(g, f, k) /\ k.s = f.s /\ k.op = "csgGrow" /\ k.x = f.x
      /\ k.todo = f.todo \ {sub} /\ Around(g, k) = N
  <2>1. f.todo \ {sub} \subseteq f.todo
    OBVIOUS
  <2> QED
    BY <1>1, <2>1, FewerLeft DEF Less
<1> HIDE DEF h, k
<1>9. ASSUME NEW T, NEW C, Ahead(g, h, T, C)
      PROVE  GrowAhead(f.s, f.x, N, f.todo, T) /\ ~GrowAhead(f.s, f.x, N, f.todo \ {sub}, T)
  <2>1. EmitAhead(f.s \cup sub, f.x \cup N, Around(g, h), h.todo, T)
    BY <1>7, <1>9 DEF Ahead
  <2>2. Around(g, h) \cap (f.s \cup sub) = {}
    BY <1>7, AroundIs
  <2> QED
    BY <1>2, <1>3, <2>1, <2>2, GrowVisits
<1>10. Within(g, f, h)
  BY <1>1, <1>9 DEF Within, Ahead
<1>11. Exclusive(g, h, k)
  BY <1>8, <1>9 DEF Exclusive, Ahead
<1> QED
  BY <1>5, <1>7, <1>8, <1>10, <1>11 DEF h, k, N

\* A round of the emit loop of enumerateCmpRec(): the complement grown by sub.
LEMMA CmpEmitFrames ==
  ASSUME NEW g \in Graphs, NEW f, FrameOK(g, f), f.op = "cmpEmit", NEW sub \in f.todo
  PROVE  LET k == Less(f, sub)
         IN /\ FrameOK(g, k) /\ k.s = f.s /\ Within(g, f, k)
            /\ PairOK(g, f.s, f.c \cup sub)
            /\ Ahead(g, f, f.s, f.c \cup sub) /\ ~Ahead(g, k, f.s, f.c \cup sub)
<1> DEFINE k == Less(f, sub)
           N == Around(g, f)
<1>1. /\ N \subseteq g.relations /\ N \subseteq Nat /\ N \cap f.x = {} /\ N \cap f.s = {}
      /\ N \cap f.c = {} /\ \A u \in N : Least(f.s) < u
  BY AroundIs DEF IsCmp
<1>2. sub \subseteq N /\ sub # {}
  BY DEF FrameOK, Subsets
<1>3. /\ FrameOK(g, k) /\ Within(g, f, k) /\ k.s = f.s /\ k.op = "cmpEmit" /\ k.x = f.x
      /\ k.c = f.c /\ k.todo = f.todo \ {sub} /\ Around(g, k) = N
  <2>1. f.todo \ {sub} \subseteq f.todo
    OBVIOUS
  <2> QED
    BY <2>1, FewerLeft DEF Less
<1> HIDE DEF k, N
<1>4. EmitAhead(f.c, f.x, N, f.todo, f.c \cup sub)
      /\ ~EmitAhead(f.c, f.x, N, f.todo \ {sub}, f.c \cup sub)
  BY <1>1, <1>2, EmitVisits
<1>5. PairOK(g, f.s, f.c \cup sub)
  BY <1>1, <1>2 DEF PairOK, Apart, FrameOK
<1>6. Ahead(g, f, f.s, f.c \cup sub) /\ ~Ahead(g, k, f.s, f.c \cup sub)
  BY <1>3, <1>4 DEF Ahead, N
<1> QED
  BY <1>3, <1>5, <1>6 DEF k

\* A round of the grow loop of enumerateCmpRec().
LEMMA CmpGrowFrames ==
  ASSUME NEW g \in Graphs, NEW f, FrameOK(g, f), f.op = "cmpGrow", NEW sub \in f.todo
  PROVE  LET C == f.c \cup sub
             x == f.x \cup Neighborhood(g.edges, f.c, f.x)
             h == Frame("cmpEmit", f.s, C, x, Subsets(Neighborhood(g.edges, C, x)))
             k == Less(f, sub)
         IN /\ FrameOK(g, h) /\ h.s = f.s /\ FrameOK(g, k) /\ k.s = f.s
            /\ Within(g, f, h) /\ Within(g, f, k) /\ Exclusive(g, h, k)
<1> DEFINE N == Neighborhood(g.edges, f.c, f.x)
           C == f.c \cup sub
           x == f.x \cup N
           h == Frame("cmpEmit", f.s, C, x, Subsets(Neighborhood(g.edges, C, x)))
           k == Less(f, sub)
<1>1. Around(g, f) = N /\ IsCmp(f) /\ f \in Frames
  BY DEF Around, Base, IsCmp, FrameOK
<1>2. /\ N \subseteq g.relations /\ N \subseteq Nat /\ N \cap f.x = {} /\ N \cap f.s = {}
      /\ N \cap f.c = {} /\ \A u \in N : Least(f.s) < u
  BY <1>1, AroundIs
<1>3. sub \subseteq N /\ sub # {}
  BY <1>1 DEF FrameOK, Subsets
<1> HIDE DEF N
<1>4. C \subseteq g.relations /\ C # {} /\ Apart(f.s, C) /\ f.s \subseteq g.relations /\ f.s # {}
  BY <1>2, <1>3 DEF FrameOK, Apart
<1>5. x \in SUBSET Nat /\ Prefix(Least(f.s)) \subseteq x /\ f.s \subseteq x
  BY <1>1, <1>2 DEF FrameOK, Frames
<1>6. /\ h \in Frames /\ FrameOK(g, h) /\ IsCmp(h) /\ h.op = "cmpEmit" /\ h.s = f.s
      /\ h.c = C /\ h.x = x
  <2>1. CmpFrame(g, "cmpEmit", f.s, C, x, h)
    BY <1>4, <1>5 DEF CmpFrame
  <2> HIDE DEF h, x, C
  <2> QED
    BY <2>1, CmpRecIs
<1>7. /\ FrameOK(g, k) /\ Within(g, f, k) /\ k.s = f.s /\ k.op = "cmpGrow" /\ k.x = f.x
      /\ k.c = f.c /\ k.todo = f.todo \ {sub} /\ Around(g, k) = N
  <2>1. f.todo \ {sub} \subseteq f.todo
    OBVIOUS
  <2> QED
    BY <1>1, <2>1, FewerLeft DEF Less
<1> HIDE DEF h, k
<1>8. ASSUME NEW S, NEW T, Ahead(g, h, S, T)
      PROVE  /\ S = f.s /\ GrowAhead(f.c, f.x, N, f.todo, T)
             /\ ~GrowAhead(f.c, f.x, N, f.todo \ {sub}, T)
  <2>1. S = f.s /\ EmitAhead(f.c \cup sub, f.x \cup N, Around(g, h), h.todo, T)
    BY <1>6, <1>8 DEF Ahead
  <2>2. Around(g, h) \cap (f.c \cup sub) = {}
    BY <1>6, AroundIs
  <2> QED
    BY <1>2, <1>3, <2>1, <2>2, GrowVisits
<1>9. Within(g, f, h)
  BY <1>1, <1>8 DEF Within, Ahead
<1>10. Exclusive(g, h, k)
  BY <1>7, <1>8 DEF Exclusive, Ahead
<1> QED
  BY <1>6, <1>7, <1>9, <1>10 DEF h, k, N

\* The grow loop that follows an emit loop.
LEMMA SecondCsgLoop ==
  ASSUME NEW g \in Graphs, NEW f, FrameOK(g, f), f.op = "csgEmit", f.todo = {}
  PROVE  LET h == Frame("csgGrow", f.s, {}, f.x, Subsets(Neighborhood(g.edges, f.s, f.x)))
         IN h \in Frames /\ FrameOK(g, h) /\ h.s = f.s /\ Within(g, f, h)
<1> DEFINE h == Frame("csgGrow", f.s, {}, f.x, Subsets(Neighborhood(g.edges, f.s, f.x)))
<1>1. Around(g, f) = Neighborhood(g.edges, f.s, f.x)
  BY DEF Around, Base, IsCmp
<1>2. /\ f.s \subseteq g.relations /\ f.s # {} /\ f.x \in SUBSET Nat
      /\ Prefix(Least(f.s)) \subseteq f.x
  BY DEF FrameOK, Frames
<1>3. /\ h \in Frames /\ FrameOK(g, h) /\ h.op = "csgGrow" /\ h.s = f.s /\ h.x = f.x
      /\ Around(g, h) = Around(g, f) /\ h.todo = Subsets(Around(g, f))
  <2>1. "csgGrow" \in {"csgEmit", "csgGrow"}
    OBVIOUS
  <2>2. h = Frame("csgGrow", f.s, {}, f.x, Subsets(Neighborhood(g.edges, f.s, f.x)))
    OBVIOUS
  <2> HIDE DEF h
  <2> QED
    BY <1>1, <1>2, <2>1, <2>2, CsgRecIs, SMTT(60)
<1> HIDE DEF h
<1>4. \A S, C : Ahead(g, h, S, C) => EmitAhead(f.s, f.x, Around(g, f), f.todo, S)
  BY <1>3, GrowFollows DEF Ahead
<1>5. Within(g, f, h)
  BY <1>4 DEF Within, Ahead
<1> QED
  BY <1>3, <1>5 DEF h

LEMMA SecondCmpLoop ==
  ASSUME NEW g \in Graphs, NEW f, FrameOK(g, f), f.op = "cmpEmit", f.todo = {}
  PROVE  LET h == Frame("cmpGrow", f.s, f.c, f.x, Subsets(Neighborhood(g.edges, f.c, f.x)))
         IN h \in Frames /\ FrameOK(g, h) /\ h.s = f.s /\ Within(g, f, h)
<1> DEFINE C == f.c
           x == f.x
           h == Frame("cmpGrow", f.s, f.c, f.x, Subsets(Neighborhood(g.edges, f.c, f.x)))
<1>1. Around(g, f) = Neighborhood(g.edges, f.c, f.x) /\ IsCmp(f)
  BY DEF Around, Base, IsCmp
<1>2. /\ f.s \subseteq g.relations /\ f.s # {} /\ f.c \subseteq g.relations /\ f.c # {}
      /\ Apart(f.s, f.c) /\ f.x \in SUBSET Nat /\ Prefix(Least(f.s)) \subseteq f.x
      /\ f.s \subseteq f.x
  BY <1>1 DEF FrameOK, Frames
<1>3. /\ h \in Frames /\ FrameOK(g, h) /\ h.op = "cmpGrow" /\ h.s = f.s /\ h.c = f.c
      /\ h.x = f.x /\ Around(g, h) = Around(g, f) /\ h.todo = Subsets(Around(g, f))
  <2>1. /\ C \subseteq g.relations /\ C # {} /\ Apart(f.s, C) /\ x \in SUBSET Nat
        /\ Prefix(Least(f.s)) \subseteq x /\ f.s \subseteq x
        /\ f.s \subseteq g.relations /\ f.s # {}
    BY <1>2
  <2>2. h = Frame("cmpGrow", f.s, C, x, Subsets(Neighborhood(g.edges, C, x)))
    OBVIOUS
  <2> HIDE DEF h, C, x
  <2>3. /\ h \in Frames /\ FrameOK(g, h) /\ IsCmp(h)
        /\ h.op = "cmpGrow" /\ h.s = f.s /\ h.c = C /\ h.x = x
        /\ Around(g, h) = Neighborhood(g.edges, C, x)
        /\ h.todo = Subsets(Around(g, h))
    <3>1. CmpFrame(g, "cmpGrow", f.s, C, x, h)
      BY <2>1, <2>2 DEF CmpFrame
    <3> QED
      BY <3>1, CmpRecIs
  <2> QED
    BY <1>1, <2>3 DEF C, x
<1> HIDE DEF h
<1>4. \A S, D : Ahead(g, h, S, D)
                  => S = f.s /\ EmitAhead(f.c, f.x, Around(g, f), f.todo, D)
  BY <1>3, GrowFollows DEF Ahead
<1>5. Within(g, f, h)
  BY <1>4 DEF Within, Ahead
<1> QED
  BY <1>3, <1>5 DEF h

(***************************************************************************)
(* The stack.                                                              *)
(***************************************************************************)
\* A frame of the stack after the first was replaced by those of new is one of
\* these or an old one.
LEMMA Replaced ==
  ASSUME NEW st \in Seq(Frames), st # <<>>, NEW new \in Seq(Frames)
  PROVE  /\ new \o Tail(st) \in Seq(Frames)
         /\ \A k \in 1..Len(new \o Tail(st)) :
              \/ k \in 1..Len(new) /\ (new \o Tail(st))[k] = new[k]
              \/ /\ k - Len(new) + 1 \in 2..Len(st) /\ k > Len(new)
                 /\ (new \o Tail(st))[k] = st[k - Len(new) + 1]
<1>1. /\ Tail(st) \in Seq(Frames) /\ Len(Tail(st)) = Len(st) - 1
      /\ \A k \in 1..Len(Tail(st)) : Tail(st)[k] = st[k + 1]
  OBVIOUS
<1>2. Len(st) \in Nat /\ Len(new) \in Nat
  OBVIOUS
<1>3. /\ new \o Tail(st) \in Seq(Frames)
      /\ Len(new \o Tail(st)) = Len(new) + Len(Tail(st))
      /\ \A k \in 1..(Len(new) + Len(Tail(st))) :
           (new \o Tail(st))[k] = IF k <= Len(new) THEN new[k] ELSE Tail(st)[k - Len(new)]
  BY <1>1
<1> QED
  BY <1>1, <1>2, <1>3

\* What a round of a loop must leave: frames whose pairs were ahead of the old
\* one, and of only one of them.
Leaves(g, f, new) ==
  /\ new \in Seq(Frames)
  /\ \A k \in 1..Len(new) : /\ FrameOK(g, new[k]) /\ Within(g, f, new[k])
                            /\ Least(new[k].s) = Least(f.s)
  /\ \A k, l \in 1..Len(new) : k < l => Exclusive(g, new[k], new[l])

LEMMA StackStep ==
  ASSUME NEW g, NEW st, StackOK(g, st), st # <<>>, NEW em, EmittedOK(g, st, em),
         NEW new, Leaves(g, st[1], new), NEW P, SeededOK(st, em, P)
  PROVE  /\ StackOK(g, new \o Tail(st)) /\ EmittedOK(g, new \o Tail(st), em)
         /\ SeededOK(new \o Tail(st), em, P)
<1> DEFINE n == Len(new)
           r == new \o Tail(st)
<1>1. /\ r \in Seq(Frames)
      /\ \A k \in 1..Len(r) : \/ k \in 1..n /\ r[k] = new[k]
                              \/ /\ k - n + 1 \in 2..Len(st) /\ k > n
                                 /\ r[k] = st[k - n + 1]
  BY Replaced DEF StackOK, Leaves
<1>2. n \in Nat /\ Len(st) \in Nat /\ Len(r) \in Nat /\ Len(st) >= 1 /\ 1 \in 1..Len(st)
  BY <1>1 DEF StackOK, Leaves
<1> HIDE DEF n, r
<1>3. \A k \in 1..Len(r) : FrameOK(g, r[k])
  BY <1>1, <1>2, SMTT(60) DEF StackOK, Leaves, n
<1>4. ASSUME NEW k \in 1..Len(r), NEW l \in 1..Len(r), k < l
      PROVE  Exclusive(g, r[k], r[l])
  <2>1. CASE k \in 1..n /\ l \in 1..n /\ r[k] = new[k] /\ r[l] = new[l]
    BY <1>4, <2>1 DEF Leaves, n
  <2>2. CASE k \in 1..n /\ l > n
    <3>1. r[k] = new[k] /\ l - n + 1 \in 2..Len(st) /\ r[l] = st[l - n + 1]
      BY <1>1, <1>2, <2>2
    <3>2. Within(g, st[1], new[k]) /\ Exclusive(g, st[1], st[l - n + 1])
      BY <1>2, <2>2, <3>1 DEF Leaves, StackOK, n
    <3> QED
      BY <3>1, <3>2 DEF Within, Exclusive
  <2>3. CASE k > n
    <3>1. /\ k - n + 1 \in 1..Len(st) /\ r[k] = st[k - n + 1]
          /\ l - n + 1 \in 1..Len(st) /\ r[l] = st[l - n + 1]
      BY <1>1, <1>2, <1>4, <2>3
    <3>2. k - n + 1 < l - n + 1
      BY <1>2, <1>4
    <3> QED
      BY <3>1, <3>2 DEF StackOK
  <2> QED
    BY <1>1, <1>2, <2>1, <2>2, <2>3
<1>5. ASSUME NEW i \in 1..Len(em), NEW k \in 1..Len(r)
      PROVE  ~Ahead(g, r[k], em[i][1], em[i][2])
  <2>1. em[i][1] \in SUBSET g.relations /\ em[i][2] \in SUBSET g.relations
    BY DEF EmittedOK, PairOK
  <2>2. CASE k \in 1..n /\ r[k] = new[k]
    <3>1. Within(g, st[1], new[k]) /\ ~Ahead(g, st[1], em[i][1], em[i][2])
      BY <1>2, <2>2 DEF Leaves, EmittedOK, n
    <3> QED
      BY <2>1, <2>2, <3>1 DEF Within
  <2>3. CASE k - n + 1 \in 2..Len(st) /\ r[k] = st[k - n + 1]
    BY <1>2, <2>3 DEF EmittedOK
  <2> QED
    BY <1>1, <2>2, <2>3
<1>6. \A k \in 1..Len(r) : Least(r[k].s) \notin P
  <2> TAKE k \in 1..Len(r)
  <2>1. \A l \in 1..Len(st) : Least(st[l].s) \notin P
    BY DEF SeededOK
  <2>2. CASE k \in 1..n /\ r[k] = new[k]
    BY <1>2, <2>1, <2>2 DEF Leaves, n
  <2>3. CASE k - n + 1 \in 2..Len(st) /\ r[k] = st[k - n + 1]
    BY <1>2, <2>1, <2>3
  <2> QED
    BY <1>1, <2>2, <2>3
<1>7. StackOK(g, r)
  BY <1>1, <1>3, <1>4 DEF StackOK
<1>8. EmittedOK(g, r, em)
  BY <1>5 DEF EmittedOK
<1>9. SeededOK(r, em, P)
  BY <1>6 DEF SeededOK
<1> QED
  BY <1>7, <1>8, <1>9 DEF r

\* The same for a round that offers the pair (S, C), which is ahead of none of
\* the frames it leaves.
LEMMA StackOffer ==
  ASSUME NEW g \in Graphs, NEW st, StackOK(g, st), st # <<>>, NEW em, EmittedOK(g, st, em),
         NEW new, Leaves(g, st[1], new), NEW P, SeededOK(st, em, P),
         NEW C, PairOK(g, st[1].s, C), Ahead(g, st[1], st[1].s, C),
         \A k \in 1..Len(new) : ~Ahead(g, new[k], st[1].s, C)
  PROVE  LET em2 == Append(em, <<st[1].s, C>>)
         IN /\ StackOK(g, new \o Tail(st)) /\ EmittedOK(g, new \o Tail(st), em2)
            /\ SeededOK(new \o Tail(st), em2, P)
<1> DEFINE S == st[1].s
           em2 == Append(em, <<S, C>>)
           n == Len(new)
           r == new \o Tail(st)
<1>1. StackOK(g, r) /\ EmittedOK(g, r, em) /\ SeededOK(r, em, P)
  BY StackStep
<1>2. /\ r \in Seq(Frames)
      /\ \A k \in 1..Len(r) : \/ k \in 1..n /\ r[k] = new[k]
                              \/ /\ k - n + 1 \in 2..Len(st) /\ k > n
                                 /\ r[k] = st[k - n + 1]
  BY Replaced DEF StackOK, Leaves
<1>3. n \in Nat /\ Len(st) \in Nat /\ Len(r) \in Nat /\ Len(st) >= 1 /\ 1 \in 1..Len(st)
  BY <1>2 DEF StackOK, Leaves
<1> HIDE DEF r, n
<1>4. S \in SUBSET g.relations /\ C \in SUBSET g.relations /\ g.relations \subseteq Nat
  BY GraphFacts DEF PairOK
<1>5. em \in Seq((SUBSET Nat) \X (SUBSET Nat)) /\ Len(em) \in Nat
  BY DEF EmittedOK
<1>6. <<S, C>> \in (SUBSET Nat) \X (SUBSET Nat)
  BY <1>4
<1>7. /\ em2 \in Seq((SUBSET Nat) \X (SUBSET Nat)) /\ Len(em2) = Len(em) + 1
      /\ \A i \in 1..Len(em) : em2[i] = em[i]
      /\ em2[Len(em) + 1] = <<S, C>>
  BY <1>5, <1>6
<1> HIDE DEF em2, S
<1>8. \A i \in 1..Len(em2) : i \in 1..Len(em) \/ i = Len(em) + 1
  BY <1>5, <1>7
<1>9. \A i \in 1..Len(em2) : PairOK(g, em2[i][1], em2[i][2])
  BY <1>7, <1>8 DEF EmittedOK, S
<1>10. \A i \in 1..Len(em) : em[i] # <<S, C>>
  BY <1>3 DEF EmittedOK, S
<1>11. \A i, j \in 1..Len(em2) : em2[i] = em2[j] => i = j
  BY <1>5, <1>7, <1>8, <1>10 DEF EmittedOK
<1>12. ASSUME NEW k \in 1..Len(r) PROVE ~Ahead(g, r[k], S, C)
  <2>1. CASE k \in 1..n /\ r[k] = new[k]
    BY <2>1 DEF n, S
  <2>2. CASE k - n + 1 \in 2..Len(st) /\ r[k] = st[k - n + 1]
    <3>1. 1 < k - n + 1 /\ k - n + 1 \in 1..Len(st)
      BY <1>3, <2>2
    <3>2. Exclusive(g, st[1], st[k - n + 1])
      BY <1>3, <3>1 DEF StackOK
    <3> QED
      BY <1>4, <2>2, <3>2 DEF Exclusive, S
  <2> QED
    BY <1>2, <2>1, <2>2
<1>13. \A i \in 1..Len(em2), k \in 1..Len(r) : ~Ahead(g, r[k], em2[i][1], em2[i][2])
  BY <1>1, <1>7, <1>8, <1>12 DEF EmittedOK
<1>14. \A i \in 1..Len(em2) : Least(em2[i][1]) \notin P
  BY <1>3, <1>7, <1>8, SMTT(60) DEF SeededOK, S
<1>15. EmittedOK(g, r, em2) /\ SeededOK(r, em2, P)
  BY <1>1, <1>7, <1>9, <1>11, <1>13, <1>14 DEF EmittedOK, SeededOK
<1> QED
  BY <1>1, <1>15 DEF r, em2, S

\* A call and the frame that made it, or that frame alone.
LEMMA LeavesTwo ==
  ASSUME NEW g, NEW f, NEW h, NEW k, FrameOK(g, h), FrameOK(g, k), Within(g, f, h),
         Within(g, f, k), Least(h.s) = Least(f.s), k.s = f.s, Exclusive(g, h, k),
         NEW new, new \in {Call(h) \o <<k>>, <<>> \o <<k>>}
  PROVE  Leaves(g, f, new) /\ \A i \in 1..Len(new) : new[i] = h \/ new[i] = k
<1>1. h \in Frames /\ k \in Frames
  BY DEF FrameOK
<1>2. <<h>> \in Seq(Frames) /\ <<k>> \in Seq(Frames) /\ <<>> \in Seq(Frames)
  BY <1>1
<1>3. /\ <<>> \o <<k>> \in Seq(Frames) /\ Len(<<>> \o <<k>>) = 1 /\ (<<>> \o <<k>>)[1] = k
  BY <1>1, <1>2
<1>4. /\ <<h>> \o <<k>> \in Seq(Frames) /\ Len(<<h>> \o <<k>>) = 2
      /\ (<<h>> \o <<k>>)[1] = h /\ (<<h>> \o <<k>>)[2] = k
  <2>1. Len(<<h>>) = 1 /\ Len(<<k>>) = 1 /\ <<h>>[1] = h /\ <<k>>[1] = k
    BY <1>2
  <2> QED
    BY <1>2, <2>1
<1>5. /\ new \in Seq(Frames)
      /\ \/ Len(new) = 1 /\ new[1] = k
         \/ Len(new) = 2 /\ new[1] = h /\ new[2] = k
  BY <1>3, <1>4 DEF Call
<1>6. \A i \in 1..Len(new) : new[i] = h \/ new[i] = k
  <2> TAKE i \in 1..Len(new)
  <2>1. i = 1 \/ (i = 2 /\ Len(new) = 2)
    <3>1. \A n \in {1, 2} : \A m \in 1..n : m = 1 \/ (m = 2 /\ n = 2)
      OBVIOUS
    <3> QED
      BY <1>5, <3>1, Zenon
  <2> QED
    BY <1>5, <2>1
<1>7. \A i, j \in 1..Len(new) : i < j => new[i] = h /\ new[j] = k
  <2> SUFFICES ASSUME NEW i \in 1..Len(new), NEW j \in 1..Len(new), i < j
               PROVE  new[i] = h /\ new[j] = k
    OBVIOUS
  <2>1. i = 1 /\ j = 2 /\ Len(new) = 2
    <3>1. \A n \in {1, 2} : \A m, l \in 1..n : m < l => m = 1 /\ l = 2 /\ n = 2
      OBVIOUS
    <3> QED
      BY <1>5, <3>1, Zenon
  <2> QED
    BY <1>5, <2>1
<1> QED
  BY <1>5, <1>6, <1>7 DEF Leaves

\* One frame in the place of another, or none.
LEMMA LeavesOne ==
  ASSUME NEW g, NEW f, NEW h, FrameOK(g, h), Within(g, f, h), h.s = f.s
  PROVE  Leaves(g, f, <<h>>)
<1>1. h \in Frames
  BY DEF FrameOK
<1>2. <<h>> \in Seq(Frames) /\ Len(<<h>>) = 1 /\ <<h>>[1] = h
  BY <1>1
<1>3. \A i \in 1..Len(<<h>>) : <<h>>[i] = h
  BY <1>2
<1>4. \A i, j \in 1..Len(<<h>>) : ~(i < j)
  BY <1>2
<1> QED
  BY <1>2, <1>3, <1>4 DEF Leaves

LEMMA LeavesNone == ASSUME NEW g, NEW f PROVE Leaves(g, f, <<>>)
BY DEF Leaves

(***************************************************************************)
(* The steps of the recursion.                                             *)
(***************************************************************************)
LEMMA TopIs ==
  ASSUME EnumInv, stack # <<>>
  PROVE  /\ top = stack[1] /\ FrameOK(graph, top) /\ top \in Frames /\ graph \in Graphs
         /\ \A sub : Visited(sub) = Less(top, sub)
<1>1. stack \in Seq(Frames) /\ \A k \in 1..Len(stack) : FrameOK(graph, stack[k])
  BY DEF EnumInv, StackInv, StackOK
<1>2. top = stack[1] /\ 1 \in 1..Len(stack)
  BY <1>1 DEF top
<1>3. FrameOK(graph, top)
  BY <1>1, <1>2
<1> QED
  BY <1>2, <1>3 DEF FrameOK, Visited, Less, EnumInv, GraphInv

\* The stack and the pairs are all that a step of the recursion changes.
LEMMA SamePlace ==
  ASSUME EnumInv, UNCHANGED <<graph, component, solved, seeds>>, phase = "dp",
         phase' \in {"dp", "thrown"},
         StackOK(graph, stack'), EmittedOK(graph, stack', emitted'),
         SeededOK(stack', emitted', seeds \cup UNION Rest)
  PROVE  EnumInv'
<1>1. GraphInv'
  BY DEF EnumInv, GraphInv, E
<1>2. StackInv' /\ EmittedInv'
  BY DEF StackInv, EmittedInv
<1>3. Rest' = Rest
  BY DEF Rest, E
<1>4. SeedInv'
  BY <1>3 DEF SeedInv
<1> QED
  BY <1>1, <1>2, <1>4 DEF EnumInv

\* A round that offers nothing, and one that offers the pair (top.s, C).
LEMMA SilentRound ==
  ASSUME EnumInv, UNCHANGED <<graph, component, solved, seeds>>, phase = "dp", stack # <<>>,
         phase' \in {"dp", "thrown"},
         NEW new, Leaves(graph, top, new), stack' = new \o Tail(stack), emitted' = emitted
  PROVE  EnumInv'
<1>1. top = stack[1]
  BY TopIs
<1>2. /\ StackOK(graph, stack) /\ EmittedOK(graph, stack, emitted)
      /\ SeededOK(stack, emitted, seeds \cup UNION Rest)
  BY DEF EnumInv, StackInv, EmittedInv, SeedInv
<1>3. /\ StackOK(graph, stack') /\ EmittedOK(graph, stack', emitted')
      /\ SeededOK(stack', emitted', seeds \cup UNION Rest)
  BY <1>1, <1>2, StackStep
<1> QED
  BY <1>3, SamePlace

LEMMA OfferingRound ==
  ASSUME EnumInv, UNCHANGED <<graph, component, solved, seeds>>, phase = "dp", stack # <<>>,
         phase' \in {"dp", "thrown"},
         NEW new, Leaves(graph, top, new), stack' = new \o Tail(stack),
         NEW C, emitted' = Append(emitted, <<top.s, C>>), PairOK(graph, top.s, C),
         Ahead(graph, top, top.s, C), \A k \in 1..Len(new) : ~Ahead(graph, new[k], top.s, C)
  PROVE  EnumInv'
<1>1. top = stack[1] /\ graph \in Graphs
  BY TopIs
<1>2. /\ StackOK(graph, stack) /\ EmittedOK(graph, stack, emitted)
      /\ SeededOK(stack, emitted, seeds \cup UNION Rest)
  BY DEF EnumInv, StackInv, EmittedInv, SeedInv
<1>3. /\ StackOK(graph, stack') /\ EmittedOK(graph, stack', emitted')
      /\ SeededOK(stack', emitted', seeds \cup UNION Rest)
  BY <1>1, <1>2, StackOffer
<1> QED
  BY <1>3, SamePlace

LEMMA LoopNames == /\ CsgLoops[1] = "csgEmit" /\ CsgLoops[2] = "csgGrow"
                   /\ CmpLoops[1] = "cmpEmit" /\ CmpLoops[2] = "cmpGrow"
BY DEF CsgLoops, CmpLoops

\* What emitCsg() has still to visit are single neighbours, one of them largest.
LEMMA NextNeighbour ==
  ASSUME EnumInv, stack # <<>>, top.op = "csg", top.todo # {}
  PROVE  {Largest(UNION top.todo)} \in top.todo
<1>1. FrameOK(graph, top) /\ graph \in Graphs
  BY TopIs
<1>2. top.todo \subseteq {{v} : v \in Around(graph, top)}
  BY <1>1 DEF FrameOK
<1>3. Around(graph, top) \subseteq Nat /\ IsFiniteSet(Around(graph, top))
  BY <1>1, AroundIs
<1>4. UNION top.todo \subseteq Around(graph, top) /\ UNION top.todo # {}
  BY <1>2
<1>5. UNION top.todo \in SUBSET Nat /\ IsFiniteSet(UNION top.todo)
  BY <1>3, <1>4, FS_Subset
<1>6. Largest(UNION top.todo) \in UNION top.todo
  BY <1>4, <1>5, LargestIs
<1> HIDE DEF top
<1> QED
  BY <1>2, <1>6

LEMMA EmitCsgKeeps == ASSUME EnumInv, EmitCsg PROVE EnumInv'
<1> DEFINE v == Largest(UNION top.todo)
           N == Neighborhood(graph.edges, top.s, top.x)
           x == top.x \cup top.s \cup (Prefix(v) \cap N)
           h == Frame("cmpEmit", top.s, {v}, x, Subsets(Neighborhood(graph.edges, {v}, x)))
           k == Less(top, {v})
           new == Call(h) \o <<k>>
<1>1. /\ phase = "dp" /\ stack # <<>> /\ top.op = "csg" /\ top.todo # {}
      /\ UNCHANGED <<graph, component, solved, seeds>> /\ phase' \in {"dp", "thrown"}
      /\ stack' = Call(CmpRec(CmpLoops[1], top.s, {v}, CmpForbidden(v)))
                  \o <<Visited({v})>> \o Tail(stack)
      /\ emitted' = Append(emitted, <<top.s, {v}>>)
  BY DEF EmitCsg, Running, Offer, EnumVars
<1>2. /\ FrameOK(graph, top) /\ graph \in Graphs /\ Visited({v}) = k
  BY <1>1, TopIs
<1>3. {v} \in top.todo
  BY <1>1, NextNeighbour
<1> HIDE DEF v
<1>4. CmpRec(CmpLoops[1], top.s, {v}, CmpForbidden(v)) = h
  BY LoopNames DEF CmpRec, CmpForbidden, E
<1>5. stack' = new \o Tail(stack) /\ new \in {Call(h) \o <<k>>, <<>> \o <<k>>}
  BY <1>1, <1>2, <1>4
<1>6. /\ FrameOK(graph, h) /\ h.s = top.s /\ FrameOK(graph, k) /\ k.s = top.s
      /\ Within(graph, top, h) /\ Within(graph, top, k) /\ Exclusive(graph, h, k)
      /\ PairOK(graph, top.s, {v}) /\ Ahead(graph, top, top.s, {v})
      /\ ~Ahead(graph, h, top.s, {v}) /\ ~Ahead(graph, k, top.s, {v})
  BY <1>1, <1>2, <1>3, EmitCsgFrames, Zenon
<1> HIDE DEF h, k, new
<1>7. Leaves(graph, top, new) /\ \A i \in 1..Len(new) : new[i] = h \/ new[i] = k
  BY <1>5, <1>6, LeavesTwo, SMTT(60)
<1>8. \A i \in 1..Len(new) : ~Ahead(graph, new[i], top.s, {v})
  BY <1>6, <1>7
<1> QED
  BY <1>1, <1>5, <1>6, <1>7, <1>8, OfferingRound

LEMMA CsgEmitKeeps == ASSUME EnumInv, CsgEmit PROVE EnumInv'
<1>1. PICK sub \in top.todo :
        stack' = (IF HasPlan(memo, top.s \cup sub) THEN Call(Csg(top.s \cup sub)) ELSE <<>>)
                 \o <<Visited(sub)>> \o Tail(stack)
  BY DEF CsgEmit
<1>2. /\ phase = "dp" /\ stack # <<>> /\ top.op = "csgEmit" /\ emitted' = emitted
      /\ UNCHANGED <<graph, component, solved, seeds>> /\ phase' \in {"dp", "thrown"}
  BY DEF CsgEmit, Running, EnumVars
<1> DEFINE S == top.s \cup sub
           x == Prefix(Least(S))
           h == Frame("csg", S, {}, x, {{v} : v \in Neighborhood(graph.edges, S, x)})
           k == Less(top, sub)
           new == (IF HasPlan(memo, top.s \cup sub) THEN Call(h) ELSE <<>>) \o <<k>>
<1>3. /\ FrameOK(graph, top) /\ graph \in Graphs /\ Visited(sub) = k
  BY <1>2, TopIs
<1>4. Csg(top.s \cup sub) = h
  BY DEF Csg, E
<1>5. /\ FrameOK(graph, h) /\ Least(h.s) = Least(top.s) /\ FrameOK(graph, k) /\ k.s = top.s
      /\ Within(graph, top, h) /\ Within(graph, top, k) /\ Exclusive(graph, h, k)
  BY <1>2, <1>3, CsgEmitFrames, Zenon
<1>6. stack' = new \o Tail(stack)
  BY <1>1, <1>3, <1>4
<1>7. new \in {Call(h) \o <<k>>, <<>> \o <<k>>}
  BY DEF new
<1> HIDE DEF h, k, new
<1>8. Leaves(graph, top, new)
  BY <1>5, <1>7, LeavesTwo
<1> QED
  BY <1>2, <1>6, <1>8, SilentRound

LEMMA CsgGrowKeeps == ASSUME EnumInv, CsgGrow PROVE EnumInv'
<1>1. PICK sub \in top.todo :
        stack' = Call(CsgRec(CsgLoops[1], top.s \cup sub,
                             top.x \cup Neighborhood(E, top.s, top.x)))
                 \o <<Visited(sub)>> \o Tail(stack)
  BY DEF CsgGrow
<1>2. /\ phase = "dp" /\ stack # <<>> /\ top.op = "csgGrow" /\ emitted' = emitted
      /\ UNCHANGED <<graph, component, solved, seeds>> /\ phase' \in {"dp", "thrown"}
  BY DEF CsgGrow, Running, EnumVars
<1> DEFINE S == top.s \cup sub
           x == top.x \cup Neighborhood(graph.edges, top.s, top.x)
           h == Frame("csgEmit", S, {}, x, Subsets(Neighborhood(graph.edges, S, x)))
           k == Less(top, sub)
           new == Call(h) \o <<k>>
<1>3. /\ FrameOK(graph, top) /\ graph \in Graphs /\ Visited(sub) = k
  BY <1>2, TopIs
<1>4. CsgRec(CsgLoops[1], top.s \cup sub, top.x \cup Neighborhood(E, top.s, top.x)) = h
  BY LoopNames DEF CsgRec, E
<1>5. /\ FrameOK(graph, h) /\ Least(h.s) = Least(top.s) /\ FrameOK(graph, k) /\ k.s = top.s
      /\ Within(graph, top, h) /\ Within(graph, top, k) /\ Exclusive(graph, h, k)
  BY <1>2, <1>3, CsgGrowFrames, Zenon
<1>6. stack' = new \o Tail(stack)
  BY <1>1, <1>3, <1>4
<1> HIDE DEF h, k
<1>7. Leaves(graph, top, new)
  BY <1>5, LeavesTwo
<1> HIDE DEF new
<1> QED
  BY <1>2, <1>6, <1>7, SilentRound

LEMMA CmpEmitKeeps == ASSUME EnumInv, CmpEmit PROVE EnumInv'
<1>1. PICK sub \in top.todo :
        /\ stack' = <<Visited(sub)>> \o Tail(stack)
        /\ IF HasPlan(memo, top.c \cup sub) THEN Offer(top.s, top.c \cup sub)
           ELSE UNCHANGED <<phase, memo, count, emitted>>
  BY DEF CmpEmit
<1>2. /\ phase = "dp" /\ stack # <<>> /\ top.op = "cmpEmit"
      /\ UNCHANGED <<graph, component, solved, seeds>> /\ phase' \in {"dp", "thrown"}
  BY <1>1 DEF CmpEmit, Running, EnumVars, Offer
<1> DEFINE k == Less(top, sub)
<1>3. /\ FrameOK(graph, top) /\ graph \in Graphs /\ Visited(sub) = k
  BY <1>2, TopIs
<1>4. /\ FrameOK(graph, k) /\ k.s = top.s /\ Within(graph, top, k)
      /\ PairOK(graph, top.s, top.c \cup sub) /\ Ahead(graph, top, top.s, top.c \cup sub)
      /\ ~Ahead(graph, k, top.s, top.c \cup sub)
  BY <1>2, <1>3, CmpEmitFrames
<1> HIDE DEF k
<1>5. Leaves(graph, top, <<k>>) /\ stack' = <<k>> \o Tail(stack)
  BY <1>1, <1>3, <1>4, LeavesOne
<1>6. CASE emitted' = emitted
  BY <1>2, <1>5, <1>6, SilentRound
<1>7. CASE emitted' = Append(emitted, <<top.s, top.c \cup sub>>)
  <2>1. \A i \in 1..Len(<<k>>) : ~Ahead(graph, <<k>>[i], top.s, top.c \cup sub)
    <3>1. \A i \in 1..Len(<<k>>) : <<k>>[i] = k
      OBVIOUS
    <3> QED
      BY <1>4, <3>1
  <2> QED
    BY <1>2, <1>4, <1>5, <1>7, <2>1, OfferingRound
<1> QED
  BY <1>1, <1>6, <1>7 DEF Offer

LEMMA CmpGrowKeeps == ASSUME EnumInv, CmpGrow PROVE EnumInv'
<1>1. PICK sub \in top.todo :
        stack' = Call(CmpRec(CmpLoops[1], top.s, top.c \cup sub,
                             top.x \cup Neighborhood(E, top.c, top.x)))
                 \o <<Visited(sub)>> \o Tail(stack)
  BY DEF CmpGrow
<1>2. /\ phase = "dp" /\ stack # <<>> /\ top.op = "cmpGrow" /\ emitted' = emitted
      /\ UNCHANGED <<graph, component, solved, seeds>> /\ phase' \in {"dp", "thrown"}
  BY DEF CmpGrow, Running, EnumVars
<1> DEFINE C == top.c \cup sub
           x == top.x \cup Neighborhood(graph.edges, top.c, top.x)
           h == Frame("cmpEmit", top.s, C, x, Subsets(Neighborhood(graph.edges, C, x)))
           k == Less(top, sub)
           new == Call(h) \o <<k>>
<1>3. /\ FrameOK(graph, top) /\ graph \in Graphs /\ Visited(sub) = k
  BY <1>2, TopIs
<1>4. CmpRec(CmpLoops[1], top.s, top.c \cup sub, top.x \cup Neighborhood(E, top.c, top.x)) = h
  BY LoopNames DEF CmpRec, E
<1>5. /\ FrameOK(graph, h) /\ h.s = top.s /\ FrameOK(graph, k) /\ k.s = top.s
      /\ Within(graph, top, h) /\ Within(graph, top, k) /\ Exclusive(graph, h, k)
  BY <1>2, <1>3, CmpGrowFrames, Zenon
<1>6. stack' = new \o Tail(stack)
  BY <1>1, <1>3, <1>4
<1> HIDE DEF h, k
<1>7. Leaves(graph, top, new)
  BY <1>5, LeavesTwo
<1> HIDE DEF new
<1> QED
  BY <1>2, <1>6, <1>7, SilentRound

LEMMA LoopEndKeeps == ASSUME EnumInv, LoopEnd PROVE EnumInv'
<1>1. /\ phase = "dp" /\ stack # <<>> /\ top.todo = {} /\ emitted' = emitted
      /\ UNCHANGED <<graph, component, solved, seeds>> /\ phase' \in {"dp", "thrown"}
      /\ stack' = (CASE top.op = CsgLoops[1] -> <<CsgRec(CsgLoops[2], top.s, top.x)>>
                     [] top.op = CmpLoops[1] -> <<CmpRec(CmpLoops[2], top.s, top.c, top.x)>>
                     [] OTHER -> <<>>) \o Tail(stack)
  BY DEF LoopEnd, EnumVars
<1>2. FrameOK(graph, top) /\ graph \in Graphs
  BY <1>1, TopIs
<1>3. CASE top.op = "csgEmit"
  <2> DEFINE h == CsgRec("csgGrow", top.s, top.x)
  <2>1. stack' = <<h>> \o Tail(stack)
    BY <1>1, <1>3, LoopNames
  <2>2. h = Frame("csgGrow", top.s, {}, top.x, Subsets(Neighborhood(graph.edges, top.s, top.x)))
    BY DEF CsgRec, E
  <2>3. FrameOK(graph, h) /\ h.s = top.s /\ Within(graph, top, h)
    BY <1>1, <1>2, <1>3, <2>2, SecondCsgLoop
  <2> HIDE DEF h
  <2>4. Leaves(graph, top, <<h>>)
    BY <2>3, LeavesOne
  <2> QED
    BY <1>1, <2>1, <2>4, SilentRound
<1>4. CASE top.op = "cmpEmit"
  <2> DEFINE h == CmpRec("cmpGrow", top.s, top.c, top.x)
  <2>1. stack' = <<h>> \o Tail(stack)
    BY <1>1, <1>4, LoopNames
  <2>2. h = Frame("cmpGrow", top.s, top.c, top.x,
                  Subsets(Neighborhood(graph.edges, top.c, top.x)))
    BY DEF CmpRec, E
  <2>3. FrameOK(graph, h) /\ h.s = top.s /\ Within(graph, top, h)
    BY <1>1, <1>2, <1>4, <2>2, SecondCmpLoop
  <2> HIDE DEF h
  <2>4. Leaves(graph, top, <<h>>)
    BY <2>3, LeavesOne
  <2> QED
    BY <1>1, <2>1, <2>4, SilentRound
<1>5. CASE top.op # "csgEmit" /\ top.op # "cmpEmit"
  <2>1. stack' = <<>> \o Tail(stack)
    BY <1>1, <1>5, LoopNames
  <2> QED
    BY <1>1, <2>1, LeavesNone, SilentRound
<1> QED
  BY <1>3, <1>4, <1>5

\* The frames of a seed r: whatever they can offer has r as the least relation
\* of its subgraph.
LEMMA SeedFrames ==
  ASSUME NEW g \in Graphs, NEW r \in g.relations
  PROVE  LET x == Prefix(Least({r}))
             h == Frame("csg", {r}, {}, x, {{v} : v \in Neighborhood(g.edges, {r}, x)})
             k == Frame("csgEmit", {r}, {}, Prefix(r),
                        Subsets(Neighborhood(g.edges, {r}, Prefix(r))))
         IN /\ FrameOK(g, h) /\ FrameOK(g, k) /\ h.s = {r} /\ k.s = {r}
            /\ Least({r}) = r /\ Exclusive(g, h, k)
            /\ \A S, C \in SUBSET g.relations :
                 S # {} /\ (Ahead(g, h, S, C) \/ Ahead(g, k, S, C)) => Least(S) = r
<1> DEFINE x == Prefix(Least({r}))
           h == Frame("csg", {r}, {}, x, {{v} : v \in Neighborhood(g.edges, {r}, x)})
           k == Frame("csgEmit", {r}, {}, Prefix(r),
                      Subsets(Neighborhood(g.edges, {r}, Prefix(r))))
<1>1. {r} \subseteq g.relations /\ {r} # {} /\ g.relations \subseteq Nat /\ r \in Nat
  BY GraphFacts
<1>2. Least({r}) = r
  BY <1>1, LeastIs
<1>3. FrameOK(g, h)
  BY <1>1, CsgIs
<1>4. h.op = "csg" /\ h.s = {r}
  BY DEF Frame
<1>5. Prefix(r) \in SUBSET Nat /\ Prefix(Least({r})) \subseteq Prefix(r)
  BY <1>1, <1>2 DEF Prefix
<1>6. /\ FrameOK(g, k) /\ k.op = "csgEmit" /\ k.s = {r} /\ k.x = Prefix(r)
  <2>1. "csgEmit" \in {"csgEmit", "csgGrow"}
    OBVIOUS
  <2> DEFINE S == {r}
             y == Prefix(r)
  <2>2. k = Frame("csgEmit", S, {}, y, Subsets(Neighborhood(g.edges, S, y)))
    OBVIOUS
  <2>3. S \subseteq g.relations /\ S # {} /\ y \in SUBSET Nat /\ Prefix(Least(S)) \subseteq y
    BY <1>1, <1>5
  <2> HIDE DEF k, S, y
  <2>4. FrameOK(g, k) /\ k.op = "csgEmit" /\ k.s = S /\ k.x = y
    BY <2>1, <2>2, <2>3, CsgRecIs
  <2> QED
    BY <2>4 DEF S, y
<1> HIDE DEF h, k
<1>7. \A S, C : Ahead(g, h, S, C) => S = {r}
  BY <1>4 DEF Ahead
<1>8. ASSUME NEW S, NEW C, Ahead(g, k, S, C)
      PROVE  r \in S /\ S # {r} /\ S \cap Prefix(r) = {r} \cap Prefix(r)
  <2>1. EmitAhead({r}, Prefix(r), Around(g, k), k.todo, S)
    BY <1>6, <1>8 DEF Ahead
  <2>2. {r} \subseteq S /\ S \cap Prefix(r) = {r} \cap Prefix(r) /\ S \cap Around(g, k) # {}
    BY <2>1 DEF EmitAhead, InReach
  <2>3. Around(g, k) \cap {r} = {}
    BY <1>6, AroundIs
  <2> QED
    BY <2>2, <2>3
<1>9. Exclusive(g, h, k)
  BY <1>7, <1>8 DEF Exclusive
<1>10. ASSUME NEW S \in SUBSET g.relations, r \in S, S \cap Prefix(r) = {r} \cap Prefix(r)
       PROVE  Least(S) = r
  <2>1. S \in SUBSET Nat /\ S # {}
    BY <1>1, <1>10
  <2>2. Least(S) \in S /\ Least(S) <= r /\ Least(S) \in Nat
    BY <1>10, <2>1, LeastIs
  <2>3. Least(S) \in Prefix(r)
    BY <1>1, <2>2 DEF Prefix
  <2> QED
    BY <1>10, <2>2, <2>3
<1>11. \A S, C \in SUBSET g.relations :
         S # {} /\ (Ahead(g, h, S, C) \/ Ahead(g, k, S, C)) => Least(S) = r
  BY <1>2, <1>7, <1>8, <1>10
<1> QED
  BY <1>2, <1>3, <1>4, <1>6, <1>9, <1>11 DEF h, k

LEMMA SeedKeeps == ASSUME EnumInv, Seed PROVE EnumInv'
<1> DEFINE r == Largest(seeds)
           x == Prefix(Least({r}))
           h == Frame("csg", {r}, {}, x, {{v} : v \in Neighborhood(graph.edges, {r}, x)})
           k == Frame("csgEmit", {r}, {}, Prefix(r),
                      Subsets(Neighborhood(graph.edges, {r}, Prefix(r))))
           new == Call(h) \o Call(k)
<1>1. /\ phase = "dp" /\ stack = <<>> /\ seeds # {} /\ seeds' = seeds \ {r}
      /\ UNCHANGED <<graph, component, solved, phase, emitted>>
      /\ stack' = Call(Csg({r})) \o Call(CsgRec(CsgLoops[1], {r}, Prefix(r)))
  BY DEF Seed, EnumVars
<1>2. /\ graph \in Graphs /\ seeds \subseteq component
      /\ component \in Components(graph.edges, graph.relations)
  BY DEF EnumInv, GraphInv, E
<1>3. /\ component \subseteq graph.relations
      /\ \A K \in Components(graph.edges, graph.relations) : K # component => K \cap component = {}
  BY <1>2, ComponentsArePartition
<1>4. graph.relations \subseteq Nat /\ IsFiniteSet(graph.relations)
  BY <1>2, GraphFacts
<1>5. r \in seeds
  <2>1. seeds \in SUBSET Nat /\ seeds \subseteq graph.relations
    BY <1>2, <1>3, <1>4
  <2>2. IsFiniteSet(seeds)
    BY <1>4, <2>1, FS_Subset
  <2> QED
    BY <1>1, <2>1, <2>2, LargestIs
<1> HIDE DEF r
<1>6. r \in graph.relations /\ r \notin UNION Rest
  BY <1>2, <1>3, <1>5 DEF Rest, E
<1>7. stack' = new
  BY <1>1, LoopNames DEF Csg, CsgRec, E
<1>8. /\ FrameOK(graph, h) /\ FrameOK(graph, k) /\ h.s = {r} /\ k.s = {r}
      /\ Least({r}) = r /\ Exclusive(graph, h, k)
      /\ \A S, C \in SUBSET graph.relations :
           S # {} /\ (Ahead(graph, h, S, C) \/ Ahead(graph, k, S, C)) => Least(S) = r
  BY <1>2, <1>6, SeedFrames, Zenon
<1> HIDE DEF h, k, x
<1>9. /\ new \in Seq(Frames)
      /\ \A i \in 1..Len(new) : new[i] = h \/ new[i] = k
      /\ \A i, j \in 1..Len(new) : i < j => new[i] = h /\ new[j] = k
  <2>1. h \in Frames /\ k \in Frames
    BY <1>8 DEF FrameOK
  <2>2. Call(h) \in Seq(Frames) /\ (Call(h) = <<>> \/ Call(h) = <<h>>)
    BY <2>1 DEF Call
  <2>3. Call(k) \in Seq(Frames) /\ (Call(k) = <<>> \/ Call(k) = <<k>>)
    BY <2>1 DEF Call
  <2>4. /\ Len(Call(h)) \in 0..1 /\ (Len(Call(h)) = 1 => Call(h)[1] = h)
        /\ Len(Call(k)) \in 0..1 /\ (Len(Call(k)) = 1 => Call(k)[1] = k)
    BY <2>1, <2>2, <2>3
  <2> DEFINE a == Call(h)
             b == Call(k)
  <2> HIDE DEF a, b
  <2>5. /\ a \in Seq(Frames) /\ Len(a) \in 0..1 /\ (Len(a) = 1 => a[1] = h)
        /\ b \in Seq(Frames) /\ Len(b) \in 0..1 /\ (Len(b) = 1 => b[1] = k)
    BY <2>2, <2>3, <2>4 DEF a, b
  <2>6. /\ a \o b \in Seq(Frames) /\ Len(a \o b) = Len(a) + Len(b)
        /\ \A i \in 1..(Len(a) + Len(b)) :
             (a \o b)[i] = IF i <= Len(a) THEN a[i] ELSE b[i - Len(a)]
    BY <2>5
  <2>7. new = a \o b
    BY DEF new, a, b
  <2>8. ASSUME NEW i \in 1..Len(new) PROVE new[i] = h \/ new[i] = k
    <3>1. i \in 1..(Len(a) + Len(b))
      BY <2>6, <2>7
    <3>2. CASE i <= Len(a)
      BY <2>5, <2>6, <2>7, <3>1, <3>2
    <3>3. CASE ~(i <= Len(a))
      BY <2>5, <2>6, <2>7, <3>1, <3>3
    <3> QED
      BY <3>2, <3>3
  <2>9. ASSUME NEW i \in 1..Len(new), NEW j \in 1..Len(new), i < j
        PROVE  new[i] = h /\ new[j] = k
    <3>1. Len(a) = 1 /\ Len(b) = 1 /\ i = 1 /\ j = 2
      BY <2>5, <2>6, <2>7, <2>9, SMTT(60)
    <3> QED
      BY <2>5, <2>6, <2>7, <3>1
  <2> QED
    BY <2>6, <2>7, <2>8, <2>9
<1> HIDE DEF new
<1>10. StackOK(graph, stack')
  BY <1>7, <1>8, <1>9 DEF StackOK
<1>11. /\ EmittedOK(graph, stack, emitted) /\ SeededOK(stack, emitted, seeds \cup UNION Rest)
  BY <1>1 DEF EnumInv, EmittedInv, SeedInv
<1>12. EmittedOK(graph, stack', emitted)
  <2> SUFFICES ASSUME NEW i \in 1..Len(emitted), NEW n \in 1..Len(new)
               PROVE  ~Ahead(graph, new[n], emitted[i][1], emitted[i][2])
    BY <1>7, <1>11 DEF EmittedOK
  <2>1. /\ emitted[i][1] \in SUBSET graph.relations /\ emitted[i][1] # {}
        /\ emitted[i][2] \in SUBSET graph.relations
    BY <1>11 DEF EmittedOK, PairOK
  <2>2. Least(emitted[i][1]) # r
    BY <1>5, <1>11 DEF SeededOK
  <2> QED
    BY <1>8, <1>9, <2>1, <2>2
<1>13. SeededOK(stack', emitted, seeds' \cup UNION Rest)
  BY <1>1, <1>6, <1>7, <1>8, <1>9, <1>11, ZenonT(90) DEF SeededOK
<1>14. Rest' = Rest
  BY <1>1 DEF Rest, E
<1> QED
  BY <1>1, <1>2, <1>10, <1>12, <1>13, <1>14
     DEF EnumInv, GraphInv, StackInv, EmittedInv, SeedInv, E

(***************************************************************************)
(* The steps outside of the recursion offer no pairs.                      *)
(***************************************************************************)
\* The stack stays or is given up, and no relation is put back to be seeded.
LEMMA NoMorePairs ==
  ASSUME EnumInv, GraphInv', graph' = graph, emitted' = emitted, stack' \in {stack, <<>>},
         phase' \in {"dp", "greedy", "expand"}
           => /\ phase \in {"dp", "greedy", "expand"}
              /\ (seeds \cup UNION Rest)' \subseteq seeds \cup UNION Rest
  PROVE  EnumInv'
<1>1. StackOK(graph, stack) /\ EmittedOK(graph, stack, emitted)
  BY DEF EnumInv, StackInv, EmittedInv
<1>2. stack' = stack \/ (stack' \in Seq(Frames) /\ 1..Len(stack') = {})
  <2>1. CASE stack' = <<>>
    <3>1. <<>> \in Seq(Frames) /\ 1..Len(<<>>) = {}
      OBVIOUS
    <3> QED
      BY <2>1, <3>1
  <2> QED
    BY <2>1
<1>3. StackOK(graph, stack') /\ EmittedOK(graph, stack', emitted)
  <2>1. CASE stack' = stack
    BY <1>1, <2>1
  <2>2. CASE stack' \in Seq(Frames) /\ 1..Len(stack') = {}
    BY <1>1, <2>2 DEF StackOK, EmittedOK
  <2> QED
    BY <1>2, <2>1, <2>2
<1>4. SeedInv'
  <2> SUFFICES ASSUME phase' \in {"dp", "greedy", "expand"}
               PROVE  SeededOK(stack', emitted', (seeds \cup UNION Rest)')
    BY DEF SeedInv
  <2>1. SeededOK(stack, emitted, seeds \cup UNION Rest)
    BY DEF EnumInv, SeedInv
  <2> DEFINE P == seeds \cup UNION Rest
             Q == (seeds \cup UNION Rest)'
  <2>2. Q \subseteq P
    OBVIOUS
  <2> HIDE DEF P, Q
  <2>3. SeededOK(stack', emitted, Q)
    BY <1>2, <2>1, <2>2 DEF SeededOK, P
  <2> QED
    BY <2>3 DEF Q
<1> QED
  BY <1>3, <1>4 DEF EnumInv, StackInv, EmittedInv

\* The component of a graph that comes first, and the first that is left.
LEMMA NextIs ==
  ASSUME EnumInv
  PROVE  /\ First(Components(E, graph.relations)) \in Components(E, graph.relations)
         /\ Rest # {} => First(Rest) \in Rest /\ First(Rest) \in Components(E, graph.relations)
<1>1. graph \in Graphs
  BY DEF EnumInv, GraphInv
<1>2. /\ Components(E, graph.relations) # {}
      /\ \A K \in Components(E, graph.relations) : K \in SUBSET Nat /\ K # {}
  BY <1>1, GraphFacts, ComponentsArePartition DEF E
<1>3. Rest \subseteq Components(E, graph.relations)
  BY DEF Rest
<1> HIDE DEF Rest
<1> QED
  BY <1>2, <1>3, FirstIs

LEMMA ReturnKeeps ==
  ASSUME EnumInv, phase \in {"dp", "expand"}, Return(memo, "dp"), NextComponent,
         UNCHANGED <<graph, stack, emitted>>
  PROVE  EnumInv'
<1>1. CASE Rest # {}
  <2>1. /\ component' = First(Rest) /\ solved' = solved \cup {component} /\ phase' = "dp"
        /\ seeds' = First(Rest) \ Expanded(E)
    BY <1>1 DEF Return, NextComponent
  <2>2. First(Rest) \in Rest /\ First(Rest) \in Components(E, graph.relations)
    BY <1>1, NextIs
  <2>3. Rest' = Components(E, graph.relations) \ (solved \cup {component} \cup {First(Rest)})
    BY <2>1 DEF Rest, E
  <2>4. Rest' \subseteq Rest
    BY <2>3 DEF Rest
  <2> HIDE DEF Rest
  <2>5. (seeds \cup UNION Rest)' \subseteq seeds \cup UNION Rest
    BY <2>1, <2>2, <2>4
  <2>6. GraphInv'
    BY <2>1, <2>2 DEF EnumInv, GraphInv, E
  <2> QED
    BY <2>1, <2>5, <2>6, NoMorePairs
<1>2. CASE Rest = {}
  <2>1. phase' \in {"done", "thrown"} /\ component' = component /\ seeds' = {}
    BY <1>2 DEF Return, NextComponent
  <2>2. GraphInv'
    BY <2>1 DEF EnumInv, GraphInv, E
  <2> QED
    BY <2>1, <2>2, NoMorePairs
<1> QED
  BY <1>1, <1>2

LEMMA FallBackKeeps ==
  ASSUME EnumInv, FallBack, seeds' = {}, stack' \in {stack, <<>>}, UNCHANGED <<graph, emitted>>
  PROVE  EnumInv'
<1>1. First(Components(E, graph.relations)) \in Components(E, graph.relations)
  BY NextIs
<1>2. /\ phase' \in {"fallback", "written"}
      /\ component' \in {component, First(Components(E, graph.relations))}
  BY DEF FallBack
<1>3. GraphInv'
  BY <1>1, <1>2 DEF EnumInv, GraphInv, E
<1> QED
  BY <1>2, <1>3, NoMorePairs

\* Nothing that the invariant speaks of changes but the phase.
LEMMA PhaseKeeps ==
  ASSUME EnumInv, UNCHANGED <<graph, component, solved, stack, emitted>>,
         seeds' = {}, stack' \in {stack, <<>>},
         phase' \in {"dp", "greedy", "expand"} => phase \in {"dp", "greedy", "expand"}
  PROVE  EnumInv'
<1>1. Rest' = Rest
  BY DEF Rest, E
<1>2. GraphInv'
  BY DEF EnumInv, GraphInv, E
<1> QED
  BY <1>1, <1>2, NoMorePairs

LEMMA GiveUpKeeps == ASSUME EnumInv, SolveGivesUp PROVE EnumInv'
<1>1. /\ phase = "dp" /\ stack' = <<>> /\ seeds' = {} /\ UNCHANGED <<graph, emitted>>
  BY DEF SolveGivesUp
<1>2. CASE FallBack
  BY <1>1, <1>2, FallBackKeeps
<1>3. CASE phase' = "greedy" /\ UNCHANGED <<component, solved, applied>>
  <2>1. Rest' = Rest
    BY <1>1, <1>3 DEF Rest, E
  <2>2. GraphInv'
    BY <1>1, <1>3 DEF EnumInv, GraphInv, E
  <2> QED
    BY <1>1, <1>3, <2>1, <2>2, NoMorePairs
<1> QED
  BY <1>2, <1>3 DEF SolveGivesUp

LEMMA SolveEndKeeps == ASSUME EnumInv, SolveEnd PROVE EnumInv'
<1>1. /\ phase = "dp" /\ seeds = {} /\ UNCHANGED <<graph, stack, emitted>>
  BY DEF SolveEnd
<1>2. CASE Return(memo, "dp") /\ NextComponent
  BY <1>1, <1>2, ReturnKeeps
<1>3. CASE FallBack /\ UNCHANGED <<seeds, count>>
  BY <1>1, <1>3, FallBackKeeps
<1> QED
  BY <1>2, <1>3 DEF SolveEnd

LEMMA GreedyKeeps == ASSUME EnumInv, Greedy PROVE EnumInv'
<1>1. phase \in {"greedy", "expand"} /\ UNCHANGED <<graph, stack, emitted>>
  BY DEF Greedy, GreedyMerge, GreedyExpand, ExpandUnnest, ExpandEnd, Stuck, Last, KeepsComponent
<1>2. seeds = {}
  BY <1>1 DEF EnumInv, GraphInv
<1>3. CASE UNCHANGED <<component, solved, seeds>>
  BY <1>1, <1>2, <1>3, PhaseKeeps
<1>4. CASE FallBack /\ UNCHANGED seeds
  BY <1>1, <1>2, <1>4, FallBackKeeps
<1>5. CASE phase = "expand" /\ Return(memo, "dp") /\ NextComponent
  BY <1>1, <1>5, ReturnKeeps
<1> QED
  BY <1>3, <1>4, <1>5
     DEF Greedy, GreedyMerge, GreedyExpand, ExpandUnnest, ExpandEnd, KeepsComponent

LEMMA FallbackKeeps == ASSUME EnumInv, Fallback PROVE EnumInv'
<1>1. /\ phase = "fallback" /\ UNCHANGED <<graph, seeds, stack, emitted>>
      /\ phase' \in {"fallback", "written", "done", "thrown"}
  BY DEF Fallback, FallbackJoin, FallbackEnd, Return, KeepsComponent
<1>2. seeds = {}
  BY <1>1 DEF EnumInv, GraphInv
<1>3. component' = component \/ (Rest # {} /\ component' = First(Rest))
  BY DEF Fallback, FallbackJoin, FallbackEnd, Return, KeepsComponent
<1>4. component' \in Components(E, graph.relations)
  BY <1>3, NextIs DEF EnumInv, GraphInv
<1>5. GraphInv'
  BY <1>1, <1>2, <1>4 DEF EnumInv, GraphInv, E
<1> QED
  BY <1>1, <1>5, NoMorePairs

(***************************************************************************)
(* The theorems.                                                           *)
(***************************************************************************)
LEMMA EnumInvInit == ASSUME Init PROVE EnumInv
<1>1. graph \in Graphs
  BY DEF Init
<1>2. First(Components(E, graph.relations)) \in Components(E, graph.relations)
  <2>1. /\ Components(E, graph.relations) # {}
        /\ \A K \in Components(E, graph.relations) : K \in SUBSET Nat /\ K # {}
    BY <1>1, GraphFacts, ComponentsArePartition DEF E
  <2> QED
    BY <2>1, FirstIs
<1>3. GraphInv
  BY <1>1, <1>2 DEF Init, GraphInv, E
<1>4. stack = <<>> /\ emitted = <<>>
  BY DEF Init
<1>5. StackOK(graph, <<>>) /\ EmittedOK(graph, <<>>, <<>>)
  BY DEF StackOK, EmittedOK
<1>6. \A P : SeededOK(<<>>, <<>>, P)
  BY DEF SeededOK
<1> QED
  BY <1>3, <1>4, <1>5, <1>6 DEF EnumInv, StackInv, EmittedInv, SeedInv

LEMMA EnumInvNext == ASSUME EnumInv, [Next]_vars PROVE EnumInv'
<1>1. CASE Solve
  BY <1>1, SeedKeeps, EmitCsgKeeps, CsgEmitKeeps, CsgGrowKeeps, CmpEmitKeeps, CmpGrowKeeps,
     LoopEndKeeps, SolveEndKeeps, GiveUpKeeps DEF Solve
<1>2. CASE Greedy
  BY <1>2, GreedyKeeps
<1>3. CASE Fallback
  BY <1>3, FallbackKeeps
<1>4. CASE UNCHANGED vars
  <2>1. Rest' = Rest
    BY <1>4 DEF vars, Rest, E
  <2>2. GraphInv'
    BY <1>4 DEF vars, EnumInv, GraphInv, E
  <2>3. /\ graph' = graph /\ emitted' = emitted /\ stack' = stack /\ phase' = phase
        /\ seeds' = seeds
    BY <1>4 DEF vars
  <2> QED
    BY <2>1, <2>2, <2>3, NoMorePairs
<1> QED
  BY <1>1, <1>2, <1>3, <1>4 DEF Next, Over

\* EnumInv holds throughout: the graph and the component are those of the
\* cluster, the frames on the stack are apart and no pair lies ahead of two of them.
THEOREM EnumInvariant == Spec => []EnumInv
<1>1. Init => EnumInv
  BY EnumInvInit
<1>2. EnumInv /\ [Next]_vars => EnumInv'
  BY EnumInvNext
<1> QED
  BY <1>1, <1>2, PTL DEF Spec

\* For every cluster and budget, emitCsgCmp() is only offered a subgraph with a
\* complement that is disjoint from it and lies above its least relation
\* (emitCsg(), enumerateCsgRec(), enumerateCmpRec()).
THEOREM PairsAreApart == Spec => []PairsApart
<1>1. EnumInv => PairsApart
  <2> SUFFICES ASSUME EnumInv, NEW i \in DOMAIN emitted
               PROVE  Apart(emitted[i][1], emitted[i][2])
    BY DEF PairsApart, Apart
  <2>1. emitted \in Seq((SUBSET Nat) \X (SUBSET Nat))
    BY DEF EnumInv, EmittedInv, EmittedOK
  <2>2. i \in 1..Len(emitted)
    BY <2>1
  <2> QED
    BY <2>2 DEF EnumInv, EmittedInv, EmittedOK, PairOK
<1> QED
  BY <1>1, EnumInvariant, PTL

\* For every cluster and budget, the enumeration offers no pair of a subgraph and
\* a complement twice, in either order.
THEOREM PairsAreOfferedOnce == Spec => []OncePerPair
<1>1. EnumInv => OncePerPair
  <2> SUFFICES ASSUME EnumInv, NEW i \in DOMAIN emitted, NEW j \in DOMAIN emitted,
                      {emitted[i][1], emitted[i][2]} = {emitted[j][1], emitted[j][2]}
               PROVE  i = j
    BY DEF OncePerPair
  <2>1. emitted \in Seq((SUBSET Nat) \X (SUBSET Nat)) /\ graph.relations \subseteq Nat
    BY GraphFacts DEF EnumInv, GraphInv, EmittedInv, EmittedOK
  <2>2. i \in 1..Len(emitted) /\ j \in 1..Len(emitted)
    BY <2>1
  <2> DEFINE S == emitted[i][1]
             C == emitted[i][2]
             T == emitted[j][1]
             D == emitted[j][2]
  <2>3. emitted[i] = <<S, C>> /\ emitted[j] = <<T, D>>
    BY <2>1, <2>2
  <2>4. PairOK(graph, S, C) /\ PairOK(graph, T, D)
    BY <2>2 DEF EnumInv, EmittedInv, EmittedOK
  <2>5. (S = T /\ C = D) \/ (S = D /\ C = T)
    OBVIOUS
  <2> HIDE DEF S, C, T, D
  <2>6. ~(S = D /\ C = T)
    <3> SUFFICES ASSUME S = D, C = T PROVE FALSE
      OBVIOUS
    <3>1. S \in SUBSET Nat /\ C \in SUBSET Nat /\ S # {} /\ C # {}
      BY <2>1, <2>4 DEF PairOK
    <3>2. Least(S) \in S /\ Least(C) \in C /\ Least(S) \in Nat /\ Least(C) \in Nat
      BY <3>1, LeastIs
    <3>3. Least(S) < Least(C) /\ Least(C) < Least(S)
      BY <2>4, <3>2 DEF PairOK, Apart
    <3> QED
      BY <3>2, <3>3
  <2>7. emitted[i] = emitted[j]
    BY <2>3, <2>5, <2>6
  <2> QED
    BY <2>2, <2>7 DEF EnumInv, EmittedInv, EmittedOK
<1> QED
  BY <1>1, EnumInvariant, PTL
=============================================================================
