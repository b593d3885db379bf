--------------------------- MODULE DPhypSearchProofs ---------------------------
(***************************************************************************)
(* Proofs about DPhyp, for every graph: the enumeration leaves out no pair *)
(* of a subgraph and a complement that have plans, and builds upon a plan  *)
(* only when no other one of its cover will follow; so an enumeration that *)
(* stays in its budget is exhaustive, and finds a plan where there is one. *)
(* greedy() finds one for clusters of inner joins that are knit together.  *)
(***************************************************************************)
EXTENDS DPhypMemoProofs

(***************************************************************************)
(* Sets that the enumeration can grow to.                                  *)
(***************************************************************************)
\* However T is cut in two, an edge joins the parts.
Solid(g, T) ==
  \A B \in SUBSET T : B # {} /\ B # T =>
    \E i \in DOMAIN g.edges : Splits(g.edges[i], B, T \ B)

\* An edge with one side in B and the other in D makes one of D a neighbour of B.
LEMMA NeighbourAcross ==
  ASSUME NEW g \in Graphs, NEW B, NEW D, NEW x, B \cap D = {}, D \cap x = {},
         NEW i \in DOMAIN g.edges, Splits(g.edges[i], B, D)
  PROVE  Neighborhood(g.edges, B, x) \cap D # {}
<1> DEFINE e == g.edges[i]
<1>1. /\ e.left # {} /\ e.right # {} /\ e.left \in SUBSET Nat /\ e.right \in SUBSET Nat
  BY GraphFacts
<1>2. /\ Least(e.left) \in e.left /\ Least(e.right) \in e.right
  BY <1>1, LeastIs
<1>3. CASE e.left \subseteq B /\ e.right \subseteq D
  <2>1. e.right \cap B = {} /\ e.right \cap x = {}
    BY <1>3
  <2>2. Least(e.right) \in Neighborhood(g.edges, B, x)
    BY <1>3, <2>1 DEF Neighborhood, Meets
  <2> QED
    BY <1>2, <1>3, <2>2
<1>4. CASE e.left \subseteq D /\ e.right \subseteq B
  <2>1. e.left \cap B = {} /\ e.left \cap x = {} /\ ~(e.left \subseteq B)
    BY <1>1, <1>4
  <2>2. Least(e.left) \in Neighborhood(g.edges, B, x)
    BY <1>4, <2>1 DEF Neighborhood, Meets
  <2> QED
    BY <1>2, <1>4, <2>2
<1> QED
  BY <1>3, <1>4 DEF Splits, Forward

\* A part B of a solid set T has a neighbour in the rest of it.
LEMMA SolidGrows ==
  ASSUME NEW g \in Graphs, NEW T, Solid(g, T), NEW B \in SUBSET T, B # {}, B # T,
         NEW x, (T \ B) \cap x = {}
  PROVE  T \cap Neighborhood(g.edges, B, x) # {}
<1>1. PICK i \in DOMAIN g.edges : Splits(g.edges[i], B, T \ B)
  BY DEF Solid
<1> DEFINE D == T \ B
<1>2. B \cap D = {} /\ D \cap x = {} /\ Splits(g.edges[i], B, D)
  BY <1>1
<1> HIDE DEF D
<1>3. Neighborhood(g.edges, B, x) \cap D # {}
  BY <1>2, NeighbourAcross
<1> QED
  BY <1>3 DEF D

LEMMA LoneIsSolid == ASSUME NEW g, NEW r PROVE Solid(g, {r})
BY DEF Solid

\* Two solid sets with an edge between them make one.
LEMMA UnionIsSolid ==
  ASSUME NEW g, NEW S, NEW C, Solid(g, S), Solid(g, C), S \cap C = {},
         NEW i \in DOMAIN g.edges, Splits(g.edges[i], S, C)
  PROVE  Solid(g, S \cup C)
<1> SUFFICES ASSUME NEW B \in SUBSET (S \cup C), B # {}, B # S \cup C
             PROVE  \E j \in DOMAIN g.edges : Splits(g.edges[j], B, (S \cup C) \ B)
  BY DEF Solid
<1>1. ASSUME NEW T, Solid(g, T), T \subseteq S \cup C, B \cap T # {}, B \cap T # T
      PROVE  \E j \in DOMAIN g.edges : Splits(g.edges[j], B, (S \cup C) \ B)
  <2>1. B \cap T \in SUBSET T
    OBVIOUS
  <2>2. PICK j \in DOMAIN g.edges : Splits(g.edges[j], B \cap T, T \ (B \cap T))
    BY <1>1, <2>1 DEF Solid
  <2>3. Splits(g.edges[j], B, (S \cup C) \ B)
    BY <1>1, <2>2 DEF Splits, Forward
  <2> QED
    BY <2>3
<1>2. CASE B \cap S # {} /\ B \cap S # S
  BY <1>1, <1>2
<1>3. CASE B \cap C # {} /\ B \cap C # C
  BY <1>1, <1>3
<1>4. CASE (B \cap S = {} \/ B \cap S = S) /\ (B \cap C = {} \/ B \cap C = C)
  <2>1. (B = S /\ (S \cup C) \ B = C) \/ (B = C /\ (S \cup C) \ B = S)
    BY <1>4
  <2>2. Splits(g.edges[i], B, (S \cup C) \ B)
    BY <2>1 DEF Splits
  <2> QED
    BY <2>2
<1> QED
  BY <1>2, <1>3, <1>4

(***************************************************************************)
(* The subgraphs that a frame can still reach.                             *)
(***************************************************************************)
Reaches(g, f, T) ==
  \/ f.op = "csgEmit" /\ EmitAhead(f.s, f.x, Around(g, f), f.todo, T)
  \/ f.op = "csgGrow" /\ GrowAhead(f.s, f.x, Around(g, f), f.todo, T)
  \/ f.op \notin {"csgEmit", "csgGrow"} /\ T = f.s

Inside(T, S) == T \subseteq S /\ T # S
Narrows(g, f, h) == \A T \in SUBSET g.relations : Reaches(g, h, T) => Reaches(g, f, T)
Follows(g, f, h) == \A S, T \in SUBSET g.relations :
                      Reaches(g, f, S) /\ Reaches(g, h, T) => ~Inside(T, S)

\* A pair that the enumeration must not leave out, if its sets have plans.
Good(g, S, C) ==
  /\ PairOK(g, S, C) /\ Solid(g, S) /\ Solid(g, C)
  /\ \E i \in DOMAIN g.edges : Splits(g.edges[i], S, C)

\* The pair is ahead of one of the frames that a round leaves: the call h, unless
\* it returns at once, and the frame k that made it.
Hands(g, h, k, S, C) == \/ Ahead(g, h, S, C) /\ h.todo # {}
                        \/ Ahead(g, k, S, C)

\* What a frame reaches has the least relation of its subgraph.
LEMMA ReachedLeast ==
  ASSUME NEW g \in Graphs, NEW f, FrameOK(g, f), NEW T \in SUBSET g.relations,
         Reaches(g, f, T)
  PROVE  f.s \subseteq T /\ Least(T) = Least(f.s)
<1>1. CASE T = f.s
  BY <1>1
<1>2. CASE InReach(f.s, f.x, T)
  <2>1. f.s \subseteq T /\ T \cap f.x = f.s \cap f.x
    BY <1>2 DEF InReach
  <2>2. f.s \in SUBSET Nat /\ f.s # {} /\ T \in SUBSET Nat /\ T # {}
    BY <2>1, GraphFacts DEF FrameOK
  <2>3. /\ Least(f.s) \in f.s /\ Least(f.s) \in Nat /\ \A n \in f.s : Least(f.s) <= n
        /\ Least(T) \in T /\ Least(T) \in Nat /\ \A n \in T : Least(T) <= n
    BY <2>2, LeastIs
  <2>4. Least(T) <= Least(f.s)
    BY <2>1, <2>3
  <2>5. Least(T) \in f.x
    BY <2>3, <2>4 DEF FrameOK, Prefix
  <2>6. Least(T) \in f.s
    BY <2>1, <2>3, <2>5
  <2> QED
    BY <2>1, <2>3, <2>4, <2>6
<1> QED
  BY <1>1, <1>2 DEF Reaches, EmitAhead, GrowAhead

(***************************************************************************)
(* What one round of each loop hands on.                                   *)
(***************************************************************************)
\* The frame after a round of its loop reaches nothing new.
LEMMA FewerReached ==
  ASSUME NEW g \in Graphs, NEW f, FrameOK(g, f), NEW sub, NEW k, k = Less(f, sub)
  PROVE  /\ Narrows(g, f, k) /\ FrameOK(g, k)
         /\ k.op = f.op /\ k.s = f.s /\ k.c = f.c /\ k.x = f.x /\ k.todo = f.todo \ {sub}
         /\ Around(g, k) = Around(g, f)
<1> DEFINE left == f.todo \ {sub}
<1>1. left \subseteq f.todo /\ k = [f EXCEPT !.todo = left]
  BY DEF Less
<1> HIDE DEF left
<1>2. /\ FrameOK(g, k) /\ k.op = f.op /\ k.s = f.s /\ k.c = f.c /\ k.x = f.x
      /\ k.todo = left /\ Around(g, k) = Around(g, f)
  BY <1>1, FewerLeft
<1>3. Narrows(g, f, k)
  <2>1. \A B, x, N, T : EmitAhead(B, x, N, left, T) => EmitAhead(B, x, N, f.todo, T)
    BY <1>1 DEF EmitAhead
  <2>2. \A B, x, N, T : GrowAhead(B, x, N, left, T) => GrowAhead(B, x, N, f.todo, T)
    BY <1>1 DEF GrowAhead
  <2> QED
    BY <1>2, <2>1, <2>2 DEF Narrows, Reaches
<1> QED
  BY <1>2, <1>3 DEF left

\* A round of emitCsg(): a complement with v as its least neighbour is {v}, or
\* is grown from it.
LEMMA EmitCsgHands ==
  ASSUME NEW g \in Graphs, NEW f, FrameOK(g, f), f.op = "csg", NEW v, {v} \in f.todo
  PROVE  LET N == Neighborhood(g.edges, f.s, f.x)
             x == f.x \cup f.s \cup (Prefix(v) \cap N)
             h == Frame("cmpEmit", f.s, {v}, x, Subsets(Neighborhood(g.edges, {v}, x)))
             k == Less(f, {v})
         IN /\ Narrows(g, f, h) /\ Narrows(g, f, k) /\ Follows(g, h, k)
            /\ \A S, C : Good(g, S, C) /\ Ahead(g, f, S, C)
                           => (S = f.s /\ C = {v}) \/ Hands(g, h, k, S, C)
<1> DEFINE N == Neighborhood(g.edges, f.s, f.x)
           x == f.x \cup f.s \cup (Prefix(v) \cap N)
           M == Neighborhood(g.edges, {v}, x)
           h == Frame("cmpEmit", f.s, {v}, x, Subsets(M))
           k == Less(f, {v})
<1>1. Around(g, f) = N /\ f \in Frames
  BY DEF Around, Base, IsCmp, FrameOK
<1>2. v \in N
  BY <1>1 DEF FrameOK
<1>3. N \subseteq Nat /\ N \cap f.x = {} /\ N \cap f.s = {}
  BY <1>1, AroundIs
<1>4. /\ h.op = "cmpEmit" /\ h.s = f.s /\ h.c = {v} /\ h.x = x /\ h.todo = Subsets(M)
  BY DEF Frame
<1>5. Around(g, h) = M
  BY <1>4 DEF Around, Base, IsCmp
<1>6. /\ Narrows(g, f, k) /\ k.op = "csg" /\ k.s = f.s /\ k.x = f.x
      /\ k.todo = f.todo \ {{v}} /\ Around(g, k) = N
  <2> DEFINE sub == {v}
  <2>1. k = Less(f, sub)
    OBVIOUS
  <2> HIDE DEF N, x, M, h, k, sub
  <2>2. /\ Narrows(g, f, k) /\ k.op = f.op /\ k.s = f.s /\ k.x = f.x
        /\ k.todo = f.todo \ {sub} /\ Around(g, k) = Around(g, f)
    BY <2>1, FewerReached
  <2> QED
    BY <1>1, <2>2 DEF sub
<1> HIDE DEF N, x, M, h, k
<1>7. Narrows(g, f, h) /\ Follows(g, h, k)
  BY <1>4, <1>6 DEF Narrows, Follows, Reaches, Inside
<1>8. ASSUME NEW S, NEW C, Good(g, S, C), Ahead(g, f, S, C), ~(S = f.s /\ C = {v})
      PROVE  Hands(g, h, k, S, C)
  <2>1. /\ S = f.s /\ C \cap (f.x \cup f.s) = {}
    BY <1>8 DEF Ahead
  <2>2. PICK w \in C : {w} \in f.todo /\ \A u \in C \cap N : w <= u
    BY <1>1, <1>8 DEF Ahead
  <2>3. CASE w # v
    <3>1. {w} \in k.todo
      BY <1>6, <2>2, <2>3
    <3> QED
      BY <1>6, <2>1, <2>2, <3>1 DEF Ahead, Hands
  <2>4. CASE w = v
    <3>1. C \cap x = {v}
      <4>1. v \in x
        BY <1>2, <1>3 DEF x, Prefix
      <4>2. ASSUME NEW u \in C, u \in x PROVE u = v
        <5>1. u \in N /\ u \in Prefix(v) /\ u \in Nat /\ v \in Nat
          BY <1>2, <1>3, <2>1, <4>2 DEF x
        <5>2. v <= u /\ u <= v
          BY <2>2, <2>4, <5>1 DEF Prefix
        <5> QED
          BY <5>1, <5>2
      <4> QED
        BY <2>2, <2>4, <4>1, <4>2
    <3>2. Solid(g, C) /\ {v} \in SUBSET C /\ {v} # {} /\ {v} # C /\ (C \ {v}) \cap x = {}
      BY <1>8, <2>1, <2>2, <2>4, <3>1 DEF Good
    <3>3. C \cap M # {}
      BY <3>2, SolidGrows DEF M
    <3>4. EmitAhead({v}, x, M, Subsets(M), C) /\ Subsets(M) # {}
      BY <2>2, <2>4, <3>1, <3>3 DEF EmitAhead, InReach, Subsets
    <3>5. Ahead(g, h, S, C) /\ h.todo # {}
      BY <1>4, <1>5, <2>1, <3>4 DEF Ahead
    <3> QED
      BY <3>5 DEF Hands
  <2> QED
    BY <2>3, <2>4
<1> QED
  BY <1>6, <1>7, <1>8 DEF h, k, x, M, N

\* emitCsg() of a subgraph has every complement ahead that an edge joins it with.
LEMMA CsgHasAhead ==
  ASSUME NEW g \in Graphs, NEW S, NEW C, Good(g, S, C)
  PROVE  LET x == Prefix(Least(S))
             h == Frame("csg", S, {}, x, {{v} : v \in Neighborhood(g.edges, S, x)})
         IN Ahead(g, h, S, C) /\ h.todo # {}
<1> DEFINE x == Prefix(Least(S))
           N == Neighborhood(g.edges, S, x)
           h == Frame("csg", S, {}, x, {{v} : v \in N})
<1>1. /\ h.op = "csg" /\ h.s = S /\ h.x = x /\ h.todo = {{v} : v \in N}
  BY DEF Frame
<1>2. Around(g, h) = N
  BY <1>1 DEF Around, Base, IsCmp
<1>3. /\ S \in SUBSET Nat /\ S # {} /\ C \in SUBSET Nat /\ S \cap C = {}
      /\ \A r \in C : Least(S) < r
  BY GraphFacts DEF Good, PairOK, Apart
<1>4. C \cap x = {}
  <2>1. Least(S) \in Nat
    BY <1>3, LeastIs
  <2> QED
    BY <1>3, <2>1 DEF Prefix
<1>5. PICK i \in DOMAIN g.edges : Splits(g.edges[i], S, C)
  BY DEF Good
<1> HIDE DEF x
<1>6. N \cap C # {}
  BY <1>3, <1>4, <1>5, NeighbourAcross
<1> HIDE DEF N, h
<1> DEFINE v == Least(N \cap C)
<1>7. v \in N \cap C /\ \A u \in N \cap C : v <= u
  <2>1. N \cap C \in SUBSET Nat
    BY <1>3
  <2> QED
    BY <1>6, <2>1, LeastIs
<1> HIDE DEF v
<1>8. {v} \in h.todo /\ \A u \in C \cap Around(g, h) : v <= u
  BY <1>1, <1>2, <1>7
<1>9. C \cap (h.x \cup h.s) = {}
  BY <1>1, <1>3, <1>4
<1>10. Ahead(g, h, S, C) /\ h.todo # {}
  BY <1>1, <1>7, <1>8, <1>9 DEF Ahead
<1> QED
  BY <1>10 DEF h, N, x

\* What a Rec function that starts with base B reaches: every solid set that
\* agrees with B on what is forbidden.
LEMMA RecReaches ==
  ASSUME NEW g \in Graphs, NEW B, B # {}, NEW x, NEW T, InReach(B, x, T), T # B, Solid(g, T)
  PROVE  LET N == Neighborhood(g.edges, B, x)
         IN EmitAhead(B, x, N, Subsets(N), T) /\ Subsets(N) # {}
<1> DEFINE N == Neighborhood(g.edges, B, x)
<1>1. B \in SUBSET T /\ (T \ B) \cap x = {}
  BY DEF InReach
<1>2. T \cap N # {}
  BY <1>1, SolidGrows
<1> HIDE DEF N
<1>3. EmitAhead(B, x, N, Subsets(N), T) /\ Subsets(N) # {}
  BY <1>2 DEF EmitAhead, Subsets
<1> QED
  BY <1>3 DEF N

\* A set that the grow loop has ahead with neighbours sub is one that the call
\* for sub reaches.
LEMMA GrowHands ==
  ASSUME NEW B, NEW x, NEW N, N \cap B = {}, N \cap x = {}, NEW todo, NEW T,
         GrowAhead(B, x, N, todo, T), NEW sub, T \cap N = sub
  PROVE  InReach(B \cup sub, x \cup N, T) /\ T # B \cup sub
BY DEF GrowAhead, InReach

\* subsetsBySize(): a set is visited after its proper subsets.
LEMMA SmallerFirst ==
  ASSUME NEW N, IsFiniteSet(N), NEW todo, NEW sub, sub \subseteq N, Next1(todo, sub),
         NEW T \in todo
  PROVE  ~Inside(T, sub)
<1> SUFFICES ASSUME T \subseteq sub, T # sub PROVE FALSE
  BY DEF Inside
<1>1. IsFiniteSet(sub) /\ IsFiniteSet(T)
  BY FS_Subset
<1>2. Cardinality(T) \in Nat /\ Cardinality(sub) \in Nat /\ Cardinality(T) < Cardinality(sub)
  BY <1>1, FS_CardinalityType, FS_Subset
<1>3. Before(sub, T)
  BY DEF Next1
<1> QED
  BY <1>2, <1>3 DEF Before

\* A round of the emit loop of enumerateCsgRec(): the subgraph that is visited has
\* no part that is reached later.
LEMMA CsgEmitHands ==
  ASSUME NEW g \in Graphs, NEW f, FrameOK(g, f), f.op = "csgEmit",
         NEW sub \in f.todo, Next1(f.todo, sub)
  PROVE  LET V == f.s \cup sub
             x == Prefix(Least(V))
             h == Frame("csg", V, {}, x, {{v} : v \in Neighborhood(g.edges, V, x)})
             k == Less(f, sub)
         IN /\ Narrows(g, f, h) /\ Narrows(g, f, k) /\ Follows(g, h, k)
            /\ V \in SUBSET g.relations /\ Reaches(g, f, V) /\ Reaches(g, h, V)
            /\ \A S, C : Good(g, S, C) /\ Ahead(g, f, S, C)
                           => Hands(g, h, k, S, C) /\ (S # V => Ahead(g, k, S, C))
<1> DEFINE N == Around(g, f)
           V == f.s \cup sub
           x == Prefix(Least(V))
           h == Frame("csg", V, {}, x, {{v} : v \in Neighborhood(g.edges, V, x)})
           k == Less(f, sub)
<1>1. /\ N \subseteq g.relations /\ N \cap f.x = {} /\ N \cap f.s = {} /\ IsFiniteSet(N)
  BY AroundIs
<1>2. sub \subseteq N /\ sub # {} /\ V \in SUBSET g.relations
  BY <1>1 DEF FrameOK, Subsets
<1>3. h.op = "csg" /\ h.s = V
  BY DEF Frame
<1>4. /\ Narrows(g, f, k) /\ k.op = "csgEmit" /\ k.s = f.s /\ k.x = f.x
      /\ k.todo = f.todo \ {sub} /\ Around(g, k) = N
  <2>1. k = Less(f, sub)
    OBVIOUS
  <2> HIDE DEF N, x, h, k
  <2> QED
    BY <2>1, FewerReached DEF N
<1>5. \A C : Good(g, V, C) => Ahead(g, h, V, C) /\ h.todo # {}
  <2> HIDE DEF V, N, k
  <2> QED
    BY CsgHasAhead, Zenon
<1> HIDE DEF N, h, k, x
<1>6. EmitAhead(f.s, f.x, N, f.todo, V)
  BY <1>1, <1>2, EmitVisits
<1>7. \A T : Reaches(g, h, T) <=> T = V
  BY <1>3 DEF Reaches
<1>8. Reaches(g, f, V)
  BY <1>6 DEF Reaches, N
<1>9. Narrows(g, f, h)
  BY <1>7, <1>8 DEF Narrows
<1>10. ASSUME NEW T, Reaches(g, k, T), Inside(T, V) PROVE FALSE
  <2>1. EmitAhead(f.s, f.x, N, f.todo \ {sub}, T)
    BY <1>4, <1>10 DEF Reaches
  <2>2. T = f.s \cup (T \cap N)
    BY <1>2, <1>10, <2>1 DEF Inside, EmitAhead, InReach
  <2>3. T \cap N \in f.todo
    BY <2>1, <2>2 DEF EmitAhead
  <2>4. Inside(T \cap N, sub)
    BY <1>1, <1>2, <1>10, <2>2 DEF Inside
  <2> QED
    BY <1>1, <1>2, <2>3, <2>4, SmallerFirst
<1>11. Follows(g, h, k)
  BY <1>7, <1>10 DEF Follows
<1>12. ASSUME NEW S, NEW C, Good(g, S, C), Ahead(g, f, S, C), S # V
       PROVE  Ahead(g, k, S, C)
  <2>1. EmitAhead(f.s, f.x, N, f.todo, S)
    BY <1>12 DEF Ahead, N
  <2>2. EmitAhead(f.s, f.x, N, f.todo \ {sub}, S)
    BY <1>12, <2>1 DEF EmitAhead
  <2> QED
    BY <1>4, <2>2 DEF Ahead
<1>13. ASSUME NEW S, NEW C, Good(g, S, C), Ahead(g, f, S, C)
       PROVE  Hands(g, h, k, S, C)
  BY <1>5, <1>12, <1>13 DEF Hands
<1> QED
  BY <1>2, <1>4, <1>7, <1>8, <1>9, <1>11, <1>12, <1>13 DEF h, k, x

\* A round of the grow loop of enumerateCsgRec().
LEMMA CsgGrowHands ==
  ASSUME NEW g \in Graphs, NEW f, FrameOK(g, f), f.op = "csgGrow",
         NEW sub \in f.todo, Next1(f.todo, sub)
  PROVE  LET V == f.s \cup sub
             x == f.x \cup Neighborhood(g.edges, f.s, f.x)
             h == Frame("csgEmit", V, {}, x, Subsets(Neighborhood(g.edges, V, x)))
             k == Less(f, sub)
         IN /\ Narrows(g, f, h) /\ Narrows(g, f, k) /\ Follows(g, h, k)
            /\ \A S, C : Good(g, S, C) /\ Ahead(g, f, S, C) => Hands(g, h, k, S, C)
<1> DEFINE N == Neighborhood(g.edges, f.s, f.x)
           V == f.s \cup sub
           x == f.x \cup N
           M == Neighborhood(g.edges, V, x)
           h == Frame("csgEmit", V, {}, x, Subsets(M))
           k == Less(f, sub)
<1>1. Around(g, f) = N
  BY DEF Around, Base, IsCmp
<1>2. /\ N \subseteq g.relations /\ N \cap f.x = {} /\ N \cap f.s = {} /\ IsFiniteSet(N)
  BY <1>1, AroundIs
<1>3. sub \subseteq N /\ sub # {} /\ V # {}
  BY <1>1 DEF FrameOK, Subsets
<1>4. /\ h.op = "csgEmit" /\ h.s = V /\ h.x = x /\ h.todo = Subsets(M)
  BY DEF Frame
<1>5. Around(g, h) = M
  BY <1>4 DEF Around, Base, IsCmp
<1>6. M \cap V = {}
  <2> HIDE DEF V, x
  <2> QED
    BY NeighborhoodIs DEF M
<1>7. /\ Narrows(g, f, k) /\ k.op = "csgGrow" /\ k.s = f.s /\ k.x = f.x
      /\ k.todo = f.todo \ {sub} /\ Around(g, k) = N
  <2>1. k = Less(f, sub)
    OBVIOUS
  <2> HIDE DEF N, x, M, h, k
  <2> QED
    BY <1>1, <2>1, FewerReached
<1> HIDE DEF N, M, h, k
<1>8. ASSUME NEW T, Reaches(g, h, T)
      PROVE  GrowAhead(f.s, f.x, N, f.todo, T) /\ T \cap N = sub
  <2>1. EmitAhead(V, x, M, Subsets(M), T)
    BY <1>4, <1>5, <1>8 DEF Reaches
  <2>2. GrowAhead(f.s, f.x, N, f.todo, T) /\ ~GrowAhead(f.s, f.x, N, f.todo \ {sub}, T)
    BY <1>2, <1>3, <1>6, <2>1, GrowVisits
  <2> QED
    BY <2>2 DEF GrowAhead
<1>9. Narrows(g, f, h)
  BY <1>1, <1>8 DEF Narrows, Reaches
<1>10. ASSUME NEW S, NEW T, Reaches(g, h, S), Reaches(g, k, T), Inside(T, S) PROVE FALSE
  <2>1. GrowAhead(f.s, f.x, N, f.todo \ {sub}, T) /\ S \cap N = sub
    BY <1>7, <1>8, <1>10 DEF Reaches
  <2>2. T \cap N \in f.todo /\ T \cap N # sub
    BY <2>1 DEF GrowAhead
  <2>3. Inside(T \cap N, sub)
    BY <1>10, <2>1, <2>2 DEF Inside
  <2> QED
    BY <1>2, <1>3, <2>2, <2>3, SmallerFirst
<1>11. Follows(g, h, k)
  BY <1>10 DEF Follows
<1>12. ASSUME NEW S, NEW C, Good(g, S, C), Ahead(g, f, S, C)
       PROVE  Hands(g, h, k, S, C)
  <2>1. GrowAhead(f.s, f.x, N, f.todo, S)
    BY <1>1, <1>12 DEF Ahead
  <2>2. CASE S \cap N = sub
    <3>1. InReach(V, x, S) /\ S # V
      BY <1>2, <2>1, <2>2, GrowHands
    <3>2. EmitAhead(V, x, M, Subsets(M), S) /\ Subsets(M) # {}
      <4>1. Solid(g, S)
        BY <1>12 DEF Good
      <4> HIDE DEF V, x
      <4> QED
        BY <1>3, <3>1, <4>1, RecReaches DEF M
    <3> QED
      BY <1>4, <1>5, <3>2 DEF Hands, Ahead
  <2>3. CASE S \cap N # sub
    <3>1. GrowAhead(f.s, f.x, N, f.todo \ {sub}, S)
      BY <2>1, <2>3 DEF GrowAhead
    <3> QED
      BY <1>7, <3>1 DEF Hands, Ahead
  <2> QED
    BY <2>2, <2>3
<1> QED
  BY <1>7, <1>9, <1>11, <1>12 DEF h, k, M, N

\* A round of the emit loop of enumerateCmpRec(): the complement c grown by sub is
\* offered, or has no plan.
LEMMA CmpEmitHands ==
  ASSUME NEW g \in Graphs, NEW f, FrameOK(g, f), f.op = "cmpEmit", NEW sub \in f.todo
  PROVE  LET k == Less(f, sub)
         IN /\ Narrows(g, f, k) /\ FrameOK(g, k)
            /\ \A S, C : Ahead(g, f, S, C)
                           => (S = f.s /\ C = f.c \cup sub) \/ Ahead(g, k, S, C)
<1> DEFINE N == Around(g, f)
           k == Less(f, sub)
<1>1. /\ Narrows(g, f, k) /\ FrameOK(g, k) /\ k.op = "cmpEmit" /\ k.s = f.s /\ k.c = f.c
      /\ k.x = f.x /\ k.todo = f.todo \ {sub} /\ Around(g, k) = N
  <2>1. k = Less(f, sub)
    OBVIOUS
  <2> HIDE DEF N, k
  <2> QED
    BY <2>1, FewerReached DEF N
<1> HIDE DEF N, k
<1>2. ASSUME NEW S, NEW C, Ahead(g, f, S, C), ~(S = f.s /\ C = f.c \cup sub)
      PROVE  Ahead(g, k, S, C)
  <2>1. S = f.s /\ EmitAhead(f.c, f.x, N, f.todo, C)
    BY <1>2 DEF Ahead, N
  <2>2. EmitAhead(f.c, f.x, N, f.todo \ {sub}, C)
    BY <1>2, <2>1 DEF EmitAhead
  <2> QED
    BY <1>1, <2>1, <2>2 DEF Ahead
<1> QED
  BY <1>1, <1>2 DEF k

\* A round of the grow loop of enumerateCmpRec().
LEMMA CmpGrowHands ==
  ASSUME NEW g \in Graphs, NEW f, FrameOK(g, f), f.op = "cmpGrow", NEW sub \in f.todo
  PROVE  LET V == f.c \cup sub
             x == f.x \cup Neighborhood(g.edges, f.c, f.x)
             h == Frame("cmpEmit", f.s, V, x, Subsets(Neighborhood(g.edges, V, x)))
             k == Less(f, sub)
         IN /\ Narrows(g, f, h) /\ Narrows(g, f, k) /\ Follows(g, h, k)
            /\ \A S, C : Good(g, S, C) /\ Ahead(g, f, S, C) => Hands(g, h, k, S, C)
<1> DEFINE N == Neighborhood(g.edges, f.c, f.x)
           V == f.c \cup sub
           x == f.x \cup N
           M == Neighborhood(g.edges, V, x)
           h == Frame("cmpEmit", f.s, V, x, Subsets(M))
           k == Less(f, sub)
<1>1. Around(g, f) = N /\ IsCmp(f)
  BY DEF Around, Base, IsCmp
<1>2. N \cap f.x = {} /\ N \cap f.c = {}
  BY <1>1, AroundIs
<1>3. V # {}
  BY <1>1 DEF FrameOK
<1>4. /\ h.op = "cmpEmit" /\ h.s = f.s /\ h.c = V /\ h.x = x /\ h.todo = Subsets(M)
  BY DEF Frame
<1>5. Around(g, h) = M
  BY <1>4 DEF Around, Base, IsCmp
<1>6. /\ Narrows(g, f, k) /\ k.op = "cmpGrow" /\ k.s = f.s /\ k.x = f.x /\ k.c = f.c
      /\ k.todo = f.todo \ {sub} /\ Around(g, k) = N
  <2>1. k = Less(f, sub)
    OBVIOUS
  <2> HIDE DEF N, x, M, h, k
  <2> QED
    BY <1>1, <2>1, FewerReached
<1> HIDE DEF N, M, h, k
<1>7. Narrows(g, f, h) /\ Follows(g, h, k)
  BY <1>4, <1>6 DEF Narrows, Follows, Reaches, Inside
<1>8. ASSUME NEW S, NEW C, Good(g, S, C), Ahead(g, f, S, C)
      PROVE  Hands(g, h, k, S, C)
  <2>1. S = f.s /\ GrowAhead(f.c, f.x, N, f.todo, C)
    BY <1>1, <1>8 DEF Ahead
  <2>2. CASE C \cap N = sub
    <3>1. InReach(V, x, C) /\ C # V
      BY <1>2, <2>1, <2>2, GrowHands
    <3>2. EmitAhead(V, x, M, Subsets(M), C) /\ Subsets(M) # {}
      <4>1. Solid(g, C)
        BY <1>8 DEF Good
      <4> HIDE DEF V, x
      <4> QED
        BY <1>3, <3>1, <4>1, RecReaches DEF M
    <3> QED
      BY <1>4, <1>5, <2>1, <3>2 DEF Hands, Ahead
  <2>3. CASE C \cap N # sub
    <3>1. GrowAhead(f.c, f.x, N, f.todo \ {sub}, C)
      BY <2>1, <2>3 DEF GrowAhead
    <3> QED
      BY <1>6, <2>1, <3>1 DEF Hands, Ahead
  <2> QED
    BY <2>2, <2>3
<1> QED
  BY <1>6, <1>7, <1>8 DEF h, k, M, N

\* The grow loop that follows an emit loop has all of what is left ahead.
LEMMA SecondLoopHands ==
  ASSUME NEW g \in Graphs, NEW f, FrameOK(g, f), f.todo = {}
  PROVE  /\ f.op = "csgEmit" =>
              LET h == Frame("csgGrow", f.s, {}, f.x, Subsets(Neighborhood(g.edges, f.s, f.x)))
              IN Narrows(g, f, h) /\ \A S, C : Ahead(g, f, S, C) => Ahead(g, h, S, C)
         /\ f.op = "cmpEmit" =>
              LET h == Frame("cmpGrow", f.s, f.c, f.x, Subsets(Neighborhood(g.edges, f.c, f.x)))
              IN Narrows(g, f, h) /\ \A S, C : Ahead(g, f, S, C) => Ahead(g, h, S, C)
         /\ f.op \notin {"csgEmit", "cmpEmit"} => \A S, C : ~Ahead(g, f, S, C)
<1>1. ASSUME NEW B, NEW x, NEW N, NEW T
      PROVE  EmitAhead(B, x, N, {}, T) <=> GrowAhead(B, x, N, Subsets(N), T)
  BY DEF EmitAhead, GrowAhead, Subsets
<1>2. ASSUME f.op = "csgEmit"
      PROVE  LET h == Frame("csgGrow", f.s, {}, f.x, Subsets(Neighborhood(g.edges, f.s, f.x)))
             IN Narrows(g, f, h) /\ \A S, C : Ahead(g, f, S, C) => Ahead(g, h, S, C)
  <2> DEFINE N == Neighborhood(g.edges, f.s, f.x)
             h == Frame("csgGrow", f.s, {}, f.x, Subsets(N))
  <2>1. Around(g, f) = N
    BY <1>2 DEF Around, Base, IsCmp
  <2>2. h.op = "csgGrow" /\ h.s = f.s /\ h.x = f.x /\ h.todo = Subsets(N)
    BY DEF Frame
  <2>3. Around(g, h) = N
    BY <2>2 DEF Around, Base, IsCmp
  <2> HIDE DEF N, h
  <2>4. Narrows(g, f, h) /\ \A S, C : Ahead(g, f, S, C) => Ahead(g, h, S, C)
    BY <1>1, <1>2, <2>1, <2>2, <2>3 DEF Narrows, Reaches, Ahead
  <2> QED
    BY <2>4 DEF h, N
<1>3. ASSUME f.op = "cmpEmit"
      PROVE  LET h == Frame("cmpGrow", f.s, f.c, f.x, Subsets(Neighborhood(g.edges, f.c, f.x)))
             IN Narrows(g, f, h) /\ \A S, C : Ahead(g, f, S, C) => Ahead(g, h, S, C)
  <2> DEFINE N == Neighborhood(g.edges, f.c, f.x)
             h == Frame("cmpGrow", f.s, f.c, f.x, Subsets(N))
  <2>1. Around(g, f) = N
    BY <1>3 DEF Around, Base, IsCmp
  <2>2. h.op = "cmpGrow" /\ h.s = f.s /\ h.c = f.c /\ h.x = f.x /\ h.todo = Subsets(N)
    BY DEF Frame
  <2>3. Around(g, h) = N
    BY <2>2 DEF Around, Base, IsCmp
  <2> HIDE DEF N, h
  <2>4. Narrows(g, f, h) /\ \A S, C : Ahead(g, f, S, C) => Ahead(g, h, S, C)
    BY <1>1, <1>3, <2>1, <2>2, <2>3 DEF Narrows, Reaches, Ahead
  <2> QED
    BY <2>4 DEF h, N
<1>4. ASSUME f.op \notin {"csgEmit", "cmpEmit"}, NEW S, NEW C PROVE ~Ahead(g, f, S, C)
  BY <1>4 DEF Ahead, GrowAhead
<1> QED
  BY <1>2, <1>3, <1>4

\* The frames of a seed r have every pair ahead whose subgraph has r as its
\* least relation.
LEMMA SeedHands ==
  ASSUME NEW g \in Graphs, NEW r \in g.relations
  PROVE  LET x == Prefix(Least({r}))
             h == Frame("csg", {r}, {}, x, {{v} : v \in Neighborhood(g.edges, {r}, x)})
             k == Frame("csgEmit", {r}, {}, Prefix(r),
                        Subsets(Neighborhood(g.edges, {r}, Prefix(r))))
         IN /\ Follows(g, h, k)
            /\ \A S, C : Good(g, S, C) /\ Least(S) = r
                           => \/ Ahead(g, h, S, C) /\ h.todo # {}
                              \/ Ahead(g, k, S, C) /\ k.todo # {}
<1> DEFINE x == Prefix(Least({r}))
           N == Neighborhood(g.edges, {r}, Prefix(r))
           h == Frame("csg", {r}, {}, x, {{v} : v \in Neighborhood(g.edges, {r}, x)})
           k == Frame("csgEmit", {r}, {}, Prefix(r), Subsets(N))
<1>1. h.op = "csg" /\ h.s = {r} /\ k.op = "csgEmit" /\ k.s = {r} /\ k.x = Prefix(r)
      /\ k.todo = Subsets(N)
  BY DEF Frame
<1>2. Around(g, k) = N
  BY <1>1 DEF Around, Base, IsCmp
<1>3. \A C : Good(g, {r}, C) => Ahead(g, h, {r}, C) /\ h.todo # {}
  <2> HIDE DEF N, k
  <2> QED
    BY CsgHasAhead, Zenon
<1> HIDE DEF N, h, k, x
<1>4. Follows(g, h, k)
  BY <1>1 DEF Follows, Reaches, Inside, EmitAhead, InReach
<1>5. ASSUME NEW S, NEW C, Good(g, S, C), Least(S) = r, S # {r}
      PROVE  Ahead(g, k, S, C) /\ k.todo # {}
  <2>1. S \in SUBSET Nat /\ S # {} /\ Solid(g, S)
    BY <1>5, GraphFacts DEF Good, PairOK
  <2>2. r \in S /\ r \in Nat /\ \A n \in S : r <= n
    BY <1>5, <2>1, LeastIs
  <2>3. S \cap Prefix(r) = {r} /\ r \in Prefix(r)
    BY <2>1, <2>2 DEF Prefix
  <2>4. InReach({r}, Prefix(r), S) /\ {r} # {}
    BY <2>2, <2>3 DEF InReach
  <2>5. EmitAhead({r}, Prefix(r), N, Subsets(N), S) /\ Subsets(N) # {}
    BY <1>5, <2>1, <2>4, RecReaches DEF N
  <2> QED
    BY <1>1, <1>2, <2>5 DEF Ahead
<1> QED
  BY <1>3, <1>4, <1>5 DEF h, k, x, N

(***************************************************************************)
(* Plans and the covers they are built from.                               *)
(***************************************************************************)
Lone(C) == \E v : C = {v}

\* An Unnest expands the first of the two sets by the second, its own relation.
LEMMA UnnestStep ==
  ASSUME graph \in Graphs, NEW S, NEW C, NEW st \in Steps(S, C), st.type = "unnest"
  PROVE  /\ st.left = S /\ st.right = C
         /\ \E i \in DOMAIN E : E[i].unnest /\ C = E[i].right /\ E[i].left \subseteq S
<1> DEFINE joins == CrossingJoins(E, S, C)
           edge  == CHOOSE i \in joins : IsOnly(i, joins) \/ IsOnly(i, Specials(S, C))
           filters == CrossingFilters(E, S, C) \cup (joins \ {edge})
           One == \E i \in joins : IsOnly(i, joins) \/ IsOnly(i, Specials(S, C))
<1>1. Steps(S, C) = SingleEdge(S, C) /\ One
  <2>1. \A s \in InnerEdgesStep(S, C) : s.type # "unnest"
    BY InnerEdgesStepIs
  <2> QED
    BY <2>1 DEF Steps
<1>2. edge \in joins
  BY <1>1
<1>3. st \in ApplyEdge(edge, S, C, filters)
  BY <1>1 DEF SingleEdge
<1> HIDE DEF edge
<1>4. filters \in SUBSET DOMAIN E /\ edge \in DOMAIN E
  BY <1>2, CrossingIs
<1> HIDE DEF filters
<1>5. E[edge].unnest
  BY <1>2, <1>3, <1>4, ApplyEdgeIs
<1>6. C = E[edge].right /\ st = Step(S, C, "unnest", {edge}, filters)
  BY <1>3, <1>5 DEF ApplyEdge
<1>7. E[edge].left \cap E[edge].right = {}
  BY <1>4, GraphFacts DEF E
<1>8. E[edge].left \subseteq S
  BY <1>2, <1>6, <1>7 DEF CrossingJoins, Crossing, Tes
<1> QED
  BY <1>4, <1>5, <1>6, <1>8, StepIs

\* emitCsgCmp() only builds a plan of S and C where an edge joins the two, S has
\* a plan, and C has one or is the relation of an Unnest of S.
Builds(m, S, C) ==
  /\ \E i \in DOMAIN E : Splits(E[i], S, C)
  /\ HasPlan(m, S)
  /\ \/ HasPlan(m, C)
     \/ \E i \in DOMAIN E : E[i].unnest /\ C = E[i].right /\ E[i].left \subseteq S
LEMMA CandidateIs ==
  ASSUME graph \in Graphs, NEW S, NEW C, NEW m, NEW p \in Candidates(m, Steps(S, C))
  PROVE  Cover(p) = S \cup C /\ Builds(m, S, C)
<1>1. PICK st \in Steps(S, C) : \E below \in Inputs(m, st) : p = Plan(st, below)
  BY DEF Candidates
<1>2. Joins(st, S, C)
  BY StepsAre
<1>3. Cover(p) = S \cup C
  BY <1>1, <1>2 DEF Plan, Cover, Joins
<1>4. \E i \in DOMAIN E : Splits(E[i], S, C)
  <2>1. CrossingJoins(E, S, C) # {}
    BY DEF Steps
  <2> QED
    BY <2>1 DEF CrossingJoins, Crossing
<1>5. HasPlan(m, st.left) /\ (st.type # "unnest" => HasPlan(m, st.right))
  BY <1>1 DEF Inputs, HasPlan
<1>6. CASE st.type = "unnest"
  BY <1>3, <1>4, <1>5, <1>6, UnnestStep DEF Builds
<1>7. CASE st.type # "unnest"
  BY <1>2, <1>3, <1>4, <1>5, <1>7 DEF Builds, Joins
<1> QED
  BY <1>6, <1>7

\* The steps are those of the graph, and a candidate needs but the plans of the
\* two sets.
LEMMA SameSteps ==
  ASSUME graph' = graph, NEW S, NEW C
  PROVE  Steps(S, C)' = Steps(S, C)
BY DEF Steps, SingleEdge, ApplyEdge, Orientations, InnerEdgesStep, Specials, E

LEMMA SameCandidates ==
  ASSUME graph \in Graphs, graph' = graph, NEW S, NEW C,
         PlansOf(memo', S) = PlansOf(memo, S), PlansOf(memo', C) = PlansOf(memo, C)
  PROVE  Candidates(memo, Steps(S, C))' = Candidates(memo, Steps(S, C))
<1>1. \A st \in Steps(S, C) : Inputs(memo', st) = Inputs(memo, st)
  <2> TAKE st \in Steps(S, C)
  <2>1. Joins(st, S, C)
    BY StepsAre
  <2>2. PlansOf(memo', st.left) = PlansOf(memo, st.left)
        /\ PlansOf(memo', st.right) = PlansOf(memo, st.right)
    BY <2>1 DEF Joins
  <2> QED
    BY <2>2 DEF Inputs
<1>2. Steps(S, C)' = Steps(S, C)
  BY SameSteps
<1> DEFINE X == Steps(S, C)
           X1 == Steps(S, C)'
<1>3. Candidates(memo, Steps(S, C))' = UNION {{Plan(st, below) : below \in Inputs(memo', st)} :
                                               st \in {s \in X : Costable(s)}}
  BY <1>2 DEF Candidates, Costable
<1>4. Candidates(memo, Steps(S, C)) = UNION {{Plan(st, below) : below \in Inputs(memo, st)} :
                                               st \in {s \in X : Costable(s)}}
  BY DEF Candidates
<1>5. X = Steps(S, C)
  OBVIOUS
<1> HIDE DEF X
<1>6. \A st \in X : Inputs(memo', st) = Inputs(memo, st)
  BY <1>1, <1>5
<1> QED
  BY <1>3, <1>4, <1>6

\* What emitCsgCmp(S, C) adds to the memo are plans of S and C together, all of
\* them while the budget lasts.
LEMMA OfferIs ==
  ASSUME graph \in Graphs, graph' = graph, count \in Nat, NEW S, NEW C, Offer(S, C),
         phase' = "dp"
  PROVE  /\ memo \subseteq memo'
         /\ \A p \in memo' \ memo : p \in Candidates(memo, Steps(S, C))
         /\ ~Exceeded' => Candidates(memo, Steps(S, C)) \subseteq memo'
<1> DEFINE steps == {st \in Steps(S, C) : Inputs(memo, st) # {}}
<1>1. Candidates(memo, steps) = Candidates(memo, Steps(S, C))
  BY DEF Candidates
<1>2. CASE memo' = memo \cup Candidates(memo, steps)
  BY <1>1, <1>2
<1>3. CASE ~WithinBudget /\ count' = Spent(count + 1) /\ memo' = memo
  <2>1. graph.cap \in Nat
    BY GraphFacts
  <2>2. Exceeded'
    BY <1>3, <2>1 DEF Exceeded, Spent, WithinBudget
  <2> QED
    BY <1>3, <2>2
<1>4. CASE phase' = "thrown"
  BY <1>4
<1> QED
  BY <1>2, <1>3, <1>4 DEF Offer

(***************************************************************************)
(* The invariant.  X is past when nothing that is still to be reached lies *)
(* inside of it: no plan of X will be built any more.                      *)
(***************************************************************************)
Past(g, st, sd, X) ==
  /\ \A k \in 1..Len(st) : \A T \in SUBSET g.relations : Reaches(g, st[k], T) => ~Inside(T, X)
  /\ \A q \in sd : q < Least(X)

\* The frames belong to one seed, the last one taken, and what one reaches has no
\* part that a frame below it reaches later.
Ordered(g, st, sd) ==
  /\ \A k, l \in 1..Len(st) : k < l => Follows(g, st[k], st[l])
  /\ \A k, l \in 1..Len(st) : Least(st[k].s) = Least(st[l].s)
  /\ \A k \in 1..Len(st), q \in sd : q < Least(st[k].s)

Offered(em, S, C) == \E i \in 1..Len(em) : em[i] = <<S, C>>
AheadOn(g, st, S, C) == \E k \in 1..Len(st) : Ahead(g, st[k], S, C)

\* A pair was offered, is ahead, or was left out because a set of it has no plan and
\* will have none.  A complement that is one relation is offered without a plan.
Accounted(g, st, sd, em, m, S, C) ==
  \/ Offered(em, S, C)
  \/ AheadOn(g, st, S, C)
  \/ Least(S) \in sd
  \/ Past(g, st, sd, S) /\ ~HasPlan(m, S)
  \/ Past(g, st, sd, C) /\ ~HasPlan(m, C) /\ ~Lone(C)

\* No plan reaches into the components that are left.
ApartInv == phase \in {"dp", "greedy", "expand"} =>
              /\ \A p \in memo : Cover(p) # {} /\ Cover(p) \cap UNION Rest = {}
              /\ phase # "dp" => stack = <<>>

Searching == phase = "dp" /\ ~Exceeded
OrderInv == Ordered(graph, stack, seeds)
\* A relation of its own is only covered when it is not that of an Unnest.
SolidInv == \A p \in memo : Cover(p) \subseteq component =>
              Solid(graph, Cover(p)) /\ Least(Cover(p)) \notin Expanded(E)
\* Every plan was final when it was first built upon.
BuiltInv == \A S, C \in SUBSET component : Offered(emitted, S, C) =>
              /\ Past(graph, stack, seeds, S) /\ Past(graph, stack, seeds, C)
              /\ Candidates(memo, Steps(S, C)) \subseteq memo
\* No pair is forgotten.
CompleteInv == \A S, C \in SUBSET component :
                 Good(graph, S, C) /\ Least(S) \notin Expanded(E) =>
                   Accounted(graph, stack, seeds, emitted, memo, S, C)
SearchInv == Searching => OrderInv /\ SolidInv /\ BuiltInv /\ CompleteInv

(***************************************************************************)
(* The stack after a round.                                                *)
(***************************************************************************)
\* What a round of frame f must leave.
Relays(g, f, new) ==
  /\ new \in Seq(Frames)
  /\ \A k \in 1..Len(new) : Narrows(g, f, new[k]) /\ Least(new[k].s) = Least(f.s)
  /\ \A k, l \in 1..Len(new) : k < l => Follows(g, new[k], new[l])

\* The frames below the first stay.
LEMMA Kept ==
  ASSUME NEW st \in Seq(Frames), st # <<>>, NEW new \in Seq(Frames)
  PROVE  /\ \A k \in 1..Len(new) : /\ k \in 1..Len(new \o Tail(st))
                                   /\ (new \o Tail(st))[k] = new[k]
         /\ \A k \in 2..Len(st) : /\ k - 1 + Len(new) \in 1..Len(new \o Tail(st))
                                  /\ (new \o Tail(st))[k - 1 + Len(new)] = st[k]
<1>1. /\ Tail(st) \in Seq(Frames) /\ Len(Tail(st)) = Len(st) - 1
      /\ \A k \in 1..Len(Tail(st)) : Tail(st)[k] = st[k + 1]
  OBVIOUS
<1>2. Len(st) \in Nat /\ Len(new) \in Nat
  OBVIOUS
<1>3. /\ Len(new \o Tail(st)) = Len(new) + Len(Tail(st))
      /\ \A k \in 1..(Len(new) + Len(Tail(st))) :
           (new \o Tail(st))[k] = IF k <= Len(new) THEN new[k] ELSE Tail(st)[k - Len(new)]
  BY <1>1
<1> QED
  BY <1>1, <1>2, <1>3

\* What was ahead of the stack still is, if what was ahead of its first frame is
\* ahead of one of those in its place.
LEMMA AheadStep ==
  ASSUME NEW g, NEW st \in Seq(Frames), st # <<>>, NEW new \in Seq(Frames), NEW S, NEW C,
         AheadOn(g, st, S, C),
         Ahead(g, st[1], S, C) => \E k \in 1..Len(new) : Ahead(g, new[k], S, C)
  PROVE  AheadOn(g, new \o Tail(st), S, C)
<1>1. PICK k \in 1..Len(st) : Ahead(g, st[k], S, C)
  BY DEF AheadOn
<1>2. k = 1 \/ k \in 2..Len(st)
  OBVIOUS
<1>3. CASE k = 1
  BY <1>1, <1>3, Kept DEF AheadOn
<1>4. CASE k \in 2..Len(st)
  BY <1>1, <1>4, Kept DEF AheadOn
<1> QED
  BY <1>2, <1>3, <1>4

LEMMA PastStep ==
  ASSUME NEW g, NEW st \in Seq(Frames), st # <<>>, NEW new, Relays(g, st[1], new),
         NEW sd, NEW X, Past(g, st, sd, X)
  PROVE  Past(g, new \o Tail(st), sd, X)
<1> DEFINE n == Len(new)
           r == new \o Tail(st)
<1>1. \A k \in 1..Len(r) : \/ k \in 1..n /\ r[k] = new[k]
                           \/ k - n + 1 \in 2..Len(st) /\ r[k] = st[k - n + 1]
  BY Replaced DEF Relays
<1>2. 1 \in 1..Len(st) /\ \A k \in 2..Len(st) : k \in 1..Len(st)
  OBVIOUS
<1> HIDE DEF r
<1>3. ASSUME NEW k \in 1..Len(r), NEW T \in SUBSET g.relations, Reaches(g, r[k], T)
      PROVE  ~Inside(T, X)
  <2>1. CASE k \in 1..n /\ r[k] = new[k]
    BY <1>2, <1>3, <2>1 DEF Relays, Narrows, Past
  <2>2. CASE k - n + 1 \in 2..Len(st) /\ r[k] = st[k - n + 1]
    BY <1>2, <1>3, <2>2 DEF Past
  <2> QED
    BY <1>1, <2>1, <2>2
<1> QED
  BY <1>3 DEF Past, r

LEMMA OrderStep ==
  ASSUME NEW g, NEW st \in Seq(Frames), st # <<>>, NEW new, Relays(g, st[1], new),
         NEW sd, Ordered(g, st, sd)
  PROVE  Ordered(g, new \o Tail(st), sd)
<1> DEFINE n == Len(new)
           r == new \o Tail(st)
<1>1. /\ r \in Seq(Frames)
      /\ \A k \in 1..Len(r) : \/ k \in 1..n /\ r[k] = new[k]
                              \/ /\ k - n + 1 \in 2..Len(st) /\ k > n
                                 /\ r[k] = st[k - n + 1]
  BY Replaced DEF Relays
<1>2. /\ n \in Nat /\ Len(st) \in Nat /\ Len(r) \in Nat /\ 1 \in 1..Len(st)
      /\ \A k \in 2..Len(st) : k \in 1..Len(st)
  BY <1>1 DEF Relays
<1> HIDE DEF n, r
<1>0. \A j \in 1..Len(r) : j > n => j - n + 1 \in 1..Len(st) /\ r[j] = st[j - n + 1]
  <2> TAKE j \in 1..Len(r)
  <2>1. j > n => j \notin 1..n
    BY <1>2
  <2> QED
    BY <1>1, <1>2, <2>1
<1>3. \A k \in 1..Len(r) : Least(r[k].s) = Least(st[1].s)
  <2> TAKE k \in 1..Len(r)
  <2>1. CASE k \in 1..n /\ r[k] = new[k]
    BY <2>1 DEF Relays, n
  <2>2. CASE k - n + 1 \in 2..Len(st) /\ r[k] = st[k - n + 1]
    BY <1>2, <2>2 DEF Ordered
  <2> QED
    BY <1>1, <2>1, <2>2
<1>4. ASSUME NEW k \in 1..Len(r), NEW l \in 1..Len(r), k < l
      PROVE  Follows(g, r[k], r[l])
  <2>1. CASE k \in 1..n /\ l \in 1..n /\ r[k] = new[k] /\ r[l] = new[l]
    BY <1>4, <2>1 DEF Relays, n
  <2>2. CASE k \in 1..n /\ l > n
    <3>1. r[k] = new[k] /\ l - n + 1 \in 2..Len(st) /\ r[l] = st[l - n + 1]
      BY <1>1, <1>2, <2>2, SMTT(60)
    <3>2. Narrows(g, st[1], new[k])
      BY <2>2 DEF Relays, n
    <3>3. 1 < l - n + 1 /\ l - n + 1 \in 1..Len(st)
      BY <1>2, <3>1
    <3>4. Follows(g, st[1], st[l - n + 1])
      BY <1>2, <3>3 DEF Ordered
    <3> QED
      BY <3>1, <3>2, <3>4 DEF Narrows, Follows
  <2>3. CASE k > n
    <3>1. /\ k - n + 1 \in 1..Len(st) /\ r[k] = st[k - n + 1]
          /\ l - n + 1 \in 1..Len(st) /\ r[l] = st[l - n + 1]
      <4>1. l > n
        BY <1>2, <1>4, <2>3
      <4> QED
        BY <1>0, <2>3, <4>1
    <3>2. k - n + 1 < l - n + 1
      BY <1>2, <1>4
    <3> QED
      BY <3>1, <3>2 DEF Ordered
  <2> QED
    BY <1>1, <1>2, <2>1, <2>2, <2>3
<1>5. \A k, l \in 1..Len(r) : Least(r[k].s) = Least(r[l].s)
  BY <1>3
<1>6. \A k \in 1..Len(r), q \in sd : q < Least(r[k].s)
  BY <1>2, <1>3 DEF Ordered
<1> QED
  BY <1>4, <1>5, <1>6 DEF Ordered, r

\* A call and the frame that made it, or that frame alone.
Passes(g, f, h, k) ==
  /\ h \in Frames /\ k \in Frames /\ Narrows(g, f, h) /\ Narrows(g, f, k)
  /\ Least(h.s) = Least(f.s) /\ k.s = f.s /\ Follows(g, h, k)
\* The pair (S, C) is ahead of a frame that the round leaves.
AheadIn(g, new, S, C) == \E i \in 1..Len(new) : Ahead(g, new[i], S, C)

LEMMA RelaysTwo ==
  ASSUME NEW g, NEW f, NEW h, NEW k, Passes(g, f, h, k),
         NEW new, new \in {Call(h) \o <<k>>, <<>> \o <<k>>}
  PROVE  /\ Relays(g, f, new)
         /\ \A S, C : Ahead(g, k, S, C) => AheadIn(g, new, S, C)
         /\ new = Call(h) \o <<k>> =>
              \A S, C : Hands(g, h, k, S, C) => AheadIn(g, new, S, C)
<1>1. /\ h \in Frames /\ k \in Frames /\ Narrows(g, f, h) /\ Narrows(g, f, k)
      /\ Least(h.s) = Least(f.s) /\ k.s = f.s /\ Follows(g, h, k)
  BY DEF Passes
<1>2. <<h>> \in Seq(Frames) /\ <<k>> \in Seq(Frames) /\ <<>> \in Seq(Frames)
  BY <1>1
<1>3. /\ <<>> \o <<k>> \in Seq(Frames) /\ Len(<<>> \o <<k>>) = 1 /\ (<<>> \o <<k>>)[1] = k
  BY <1>2
<1>4. /\ <<h>> \o <<k>> \in Seq(Frames) /\ Len(<<h>> \o <<k>>) = 2
      /\ (<<h>> \o <<k>>)[1] = h /\ (<<h>> \o <<k>>)[2] = k
  <2>1. Len(<<h>>) = 1 /\ Len(<<k>>) = 1 /\ <<h>>[1] = h /\ <<k>>[1] = k
    BY <1>2
  <2> QED
    BY <1>2, <2>1
<1>5. /\ new \in Seq(Frames)
      /\ \/ Len(new) = 1 /\ new[1] = k
         \/ Len(new) = 2 /\ new[1] = h /\ new[2] = k
      /\ new = Call(h) \o <<k>> /\ h.todo # {} => Len(new) = 2 /\ new[1] = h
  BY <1>3, <1>4 DEF Call
<1>6. \A i \in 1..Len(new) : new[i] = h \/ new[i] = k
  <2> TAKE i \in 1..Len(new)
  <2>1. i = 1 \/ (i = 2 /\ Len(new) = 2)
    <3>1. \A n \in {1, 2} : \A m \in 1..n : m = 1 \/ (m = 2 /\ n = 2)
      OBVIOUS
    <3> QED
      BY <1>5, <3>1, Zenon
  <2> QED
    BY <1>5, <2>1
<1>7. \A i, j \in 1..Len(new) : i < j => new[i] = h /\ new[j] = k
  <2> SUFFICES ASSUME NEW i \in 1..Len(new), NEW j \in 1..Len(new), i < j
               PROVE  new[i] = h /\ new[j] = k
    OBVIOUS
  <2>1. i = 1 /\ j = 2 /\ Len(new) = 2
    <3>1. \A n \in {1, 2} : \A m, l \in 1..n : m < l => m = 1 /\ l = 2 /\ n = 2
      OBVIOUS
    <3> QED
      BY <1>5, <3>1, Zenon
  <2> QED
    BY <1>5, <2>1
<1>8. Relays(g, f, new)
  BY <1>1, <1>5, <1>6, <1>7 DEF Relays
<1>9. Len(new) \in 1..Len(new) /\ 1 \in 1..Len(new) /\ new[Len(new)] = k
  BY <1>5
<1> QED
  BY <1>5, <1>8, <1>9 DEF AheadIn, Hands

LEMMA RelaysOne ==
  ASSUME NEW g, NEW f, NEW h \in Frames, Narrows(g, f, h), h.s = f.s
  PROVE  Relays(g, f, <<h>>) /\ \A S, C : Ahead(g, h, S, C) => AheadIn(g, <<h>>, S, C)
<1>1. <<h>> \in Seq(Frames) /\ Len(<<h>>) = 1 /\ <<h>>[1] = h
  OBVIOUS
<1>2. \A i \in 1..Len(<<h>>) : <<h>>[i] = h
  BY <1>1
<1>3. \A i, j \in 1..Len(<<h>>) : ~(i < j)
  BY <1>1
<1>4. Relays(g, f, <<h>>)
  BY <1>1, <1>2, <1>3 DEF Relays
<1>5. 1 \in 1..Len(<<h>>)
  BY <1>1
<1> QED
  BY <1>1, <1>4, <1>5 DEF AheadIn

LEMMA RelaysNone == ASSUME NEW g, NEW f PROVE Relays(g, f, <<>>)
BY DEF Relays

(***************************************************************************)
(* The steps of the recursion.                                             *)
(***************************************************************************)
\* A set that the first frame reached is past when what the frames in its place
\* reach does not lie inside of it.
LEMMA PastReached ==
  ASSUME NEW g, NEW st \in Seq(Frames), st # <<>>, NEW new \in Seq(Frames),
         NEW sd, Ordered(g, st, sd), NEW X \in SUBSET g.relations, Reaches(g, st[1], X),
         Least(X) = Least(st[1].s),
         \A k \in 1..Len(new) : \A T \in SUBSET g.relations : Reaches(g, new[k], T) => ~Inside(T, X)
  PROVE  Past(g, new \o Tail(st), sd, X)
<1> DEFINE n == Len(new)
           r == new \o Tail(st)
<1>1. \A k \in 1..Len(r) : \/ k \in 1..n /\ r[k] = new[k]
                           \/ k - n + 1 \in 2..Len(st) /\ r[k] = st[k - n + 1]
  BY Replaced
<1>2. 1 \in 1..Len(st) /\ \A k \in 2..Len(st) : k \in 1..Len(st) /\ 1 < k
  OBVIOUS
<1> HIDE DEF r
<1>3. ASSUME NEW k \in 1..Len(r), NEW T \in SUBSET g.relations, Reaches(g, r[k], T)
      PROVE  ~Inside(T, X)
  <2>1. CASE k \in 1..n /\ r[k] = new[k]
    BY <1>3, <2>1
  <2>2. CASE k - n + 1 \in 2..Len(st) /\ r[k] = st[k - n + 1]
    <3> DEFINE l == k - n + 1
    <3>1. l \in 2..Len(st) /\ Reaches(g, st[l], T)
      BY <1>3, <2>2
    <3> HIDE DEF l
    <3>2. Follows(g, st[1], st[l])
      BY <1>2, <3>1 DEF Ordered
    <3> QED
      BY <3>1, <3>2 DEF Follows
  <2> QED
    BY <1>1, <2>1, <2>2
<1>4. \A q \in sd : q < Least(X)
  BY <1>2 DEF Ordered
<1> QED
  BY <1>3, <1>4 DEF Past, r

\* A set above the seed is past.
LEMMA PastAbove ==
  ASSUME NEW g \in Graphs, NEW st, StackOK(g, st), NEW sd \in SUBSET Nat, Ordered(g, st, sd),
         NEW r \in Nat, \A k \in 1..Len(st) : Least(st[k].s) = r, \A q \in sd : q < r,
         NEW X \in SUBSET Nat, X # {}, \A v \in X : r < v
  PROVE  Past(g, st, sd, X)
<1>1. ASSUME NEW k \in 1..Len(st), NEW T \in SUBSET g.relations, Reaches(g, st[k], T),
             T \subseteq X
      PROVE  FALSE
  <2>1. FrameOK(g, st[k])
    BY DEF StackOK
  <2>2. st[k].s \subseteq T /\ Least(T) = r
    BY <1>1, <2>1, ReachedLeast
  <2>3. T \in SUBSET Nat /\ T # {}
    BY <1>1, <2>1, <2>2 DEF FrameOK
  <2>4. r \in T
    BY <2>2, <2>3, LeastIs
  <2> QED
    BY <1>1, <2>4
<1>2. \A q \in sd : q < Least(X)
  <2>1. Least(X) \in X /\ Least(X) \in Nat
    BY LeastIs
  <2> QED
    BY <2>1
<1> QED
  BY <1>1, <1>2 DEF Past, Inside

\* Of the pairs that were ahead of frame f all but one are ahead of a frame of new.
AllBut(g, K, f, new, S0, C0) ==
  \A S, C \in SUBSET K : Good(g, S, C) /\ Ahead(g, f, S, C)
                           => AheadIn(g, new, S, C) \/ (S = S0 /\ C = C0)
\* All but those of a set that has no plan and will have none.
AllWithPlans(g, K, f, new, st, sd, m) ==
  \A S, C \in SUBSET K : Good(g, S, C) /\ Ahead(g, f, S, C) =>
    \/ AheadIn(g, new, S, C)
    \/ Past(g, st, sd, S) /\ ~HasPlan(m, S)
    \/ Past(g, st, sd, C) /\ ~HasPlan(m, C) /\ ~Lone(C)

\* A round: the pairs that were offered are built and past, and of those that were
\* ahead of the first frame none is lost.
LEMMA RoundKeeps ==
  ASSUME EnumInv, SearchInv, Searching, stack # <<>>, UNCHANGED <<graph, component, seeds>>,
         NEW new, Relays(graph, top, new), stack' = new \o Tail(stack),
         SolidInv',
         \A S, C : Offered(emitted, S, C) => Offered(emitted', S, C),
         memo \subseteq memo',
         \A X : Past(graph, stack, seeds, X) => PlansOf(memo', X) = PlansOf(memo, X),
         \A S, C \in SUBSET component : Offered(emitted', S, C) =>
           \/ Offered(emitted, S, C)
           \/ /\ Past(graph, stack', seeds, S) /\ Past(graph, stack', seeds, C)
              /\ Candidates(memo, Steps(S, C))' \subseteq memo',
         \A S, C \in SUBSET component : Good(graph, S, C) /\ Ahead(graph, top, S, C) =>
           \/ AheadIn(graph, new, S, C)
           \/ Offered(emitted', S, C)
           \/ Past(graph, stack', seeds, S) /\ ~HasPlan(memo', S)
           \/ Past(graph, stack', seeds, C) /\ ~HasPlan(memo', C) /\ ~Lone(C)
  PROVE  SearchInv'
<1>1. /\ OrderInv /\ BuiltInv /\ CompleteInv
  BY DEF SearchInv
<1>2. /\ stack \in Seq(Frames) /\ top = stack[1] /\ graph \in Graphs /\ new \in Seq(Frames)
  BY TopIs DEF EnumInv, StackInv, StackOK, Relays
<1>3. Relays(graph, stack[1], new)
  BY <1>2
<1>4. OrderInv'
  <2>1. Ordered(graph, stack', seeds)
    BY <1>1, <1>2, <1>3, OrderStep DEF OrderInv
  <2> QED
    BY <2>1 DEF OrderInv
<1>5. \A X : Past(graph, stack, seeds, X) => Past(graph, stack', seeds, X)
  BY <1>2, <1>3, PastStep
<1>6. BuiltInv'
  <2> SUFFICES ASSUME NEW S \in SUBSET component, NEW C \in SUBSET component,
                      Offered(emitted', S, C)
               PROVE  /\ Past(graph, stack', seeds, S) /\ Past(graph, stack', seeds, C)
                      /\ Candidates(memo, Steps(S, C))' \subseteq memo'
    BY DEF BuiltInv
  <2>1. CASE Offered(emitted, S, C)
    <3>1. /\ Past(graph, stack, seeds, S) /\ Past(graph, stack, seeds, C)
          /\ Candidates(memo, Steps(S, C)) \subseteq memo
      BY <1>1, <2>1 DEF BuiltInv
    <3>2. Candidates(memo, Steps(S, C))' = Candidates(memo, Steps(S, C))
      BY <1>2, <3>1, SameCandidates
    <3> QED
      BY <1>5, <3>1, <3>2
  <2> QED
    BY <2>1
<1>7. CompleteInv'
  <2> SUFFICES ASSUME NEW S \in SUBSET component, NEW C \in SUBSET component,
                      Good(graph, S, C), Least(S) \notin Expanded(E)
               PROVE  Accounted(graph, stack', seeds, emitted', memo', S, C)
    BY DEF CompleteInv, E
  <2>1. Accounted(graph, stack, seeds, emitted, memo, S, C)
    BY <1>1 DEF CompleteInv
  <2>2. CASE Offered(emitted, S, C)
    BY <2>2 DEF Accounted
  <2>3. CASE AheadOn(graph, stack, S, C)
    <3>1. CASE Ahead(graph, top, S, C) => AheadIn(graph, new, S, C)
      <4>1. AheadOn(graph, stack', S, C)
        BY <1>2, <2>3, <3>1, AheadStep DEF AheadIn
      <4> QED
        BY <4>1 DEF Accounted
    <3>2. CASE Ahead(graph, top, S, C) /\ ~AheadIn(graph, new, S, C)
      BY <3>2 DEF Accounted
    <3> QED
      BY <3>1, <3>2
  <2>4. CASE Least(S) \in seeds
    BY <2>4 DEF Accounted
  <2>5. CASE Past(graph, stack, seeds, S) /\ ~HasPlan(memo, S)
    BY <1>5, <2>5 DEF Accounted, HasPlan
  <2>6. CASE Past(graph, stack, seeds, C) /\ ~HasPlan(memo, C) /\ ~Lone(C)
    BY <1>5, <2>6 DEF Accounted, HasPlan
  <2> QED
    BY <2>1, <2>2, <2>3, <2>4, <2>5, <2>6 DEF Accounted
<1> QED
  BY <1>4, <1>6, <1>7 DEF SearchInv

\* A round that offers nothing.
LEMMA SilentKeeps ==
  ASSUME EnumInv, SearchInv, Searching, stack # <<>>,
         UNCHANGED <<graph, component, seeds, memo, emitted>>,
         NEW new, Relays(graph, top, new), stack' = new \o Tail(stack),
         AllWithPlans(graph, component, top, new, stack', seeds, memo)
  PROVE  SearchInv'
<1>1. SolidInv'
  BY DEF SearchInv, SolidInv, E
<1>2. \A S, C \in SUBSET component : Good(graph, S, C) /\ Ahead(graph, top, S, C) =>
        \/ AheadIn(graph, new, S, C)
        \/ Past(graph, stack', seeds, S) /\ ~HasPlan(memo, S)
        \/ Past(graph, stack', seeds, C) /\ ~HasPlan(memo, C) /\ ~Lone(C)
  BY DEF AllWithPlans
<1> QED
  BY <1>1, <1>2, RoundKeeps, ZenonT(60)

\* Two sets that are offered: the plans that this adds cover neither of them, and
\* no set that is past.
LEMMA OfferKeeps ==
  ASSUME EnumInv, EnumInv', SearchInv, Searching, Searching', stack # <<>>, count \in Nat,
         UNCHANGED <<graph, component, seeds>>, top.op \in {"csg", "cmpEmit"},
         NEW S0, S0 = top.s, NEW C0, Offer(S0, C0), PairOK(graph, S0, C0),
         NEW new, Relays(graph, top, new), stack' = new \o Tail(stack),
         AllBut(graph, component, top, new, S0, C0)
  PROVE  SearchInv'
<1>1. OrderInv /\ SolidInv
  BY DEF SearchInv
<1>2. /\ stack \in Seq(Frames) /\ top = stack[1] /\ graph \in Graphs /\ new \in Seq(Frames)
      /\ 1 \in 1..Len(stack)
  BY TopIs DEF EnumInv, StackInv, StackOK, Relays
<1>3. /\ memo \subseteq memo'
      /\ \A p \in memo' \ memo : p \in Candidates(memo, Steps(S0, C0))
      /\ Candidates(memo, Steps(S0, C0)) \subseteq memo'
  BY <1>2, OfferIs DEF Searching
<1>4. \A p \in memo' \ memo : Cover(p) = S0 \cup C0 /\ Builds(memo, S0, C0)
  BY <1>2, <1>3, CandidateIs
<1>5. /\ S0 \in SUBSET graph.relations /\ S0 \in SUBSET Nat /\ S0 # {} /\ C0 \in SUBSET Nat
      /\ C0 # {} /\ S0 \cap C0 = {} /\ \A r \in C0 : Least(S0) < r
  BY <1>2, GraphFacts DEF PairOK, Apart
<1>6. Least(S0) \in Nat /\ Least(S0) \in S0
  BY <1>5, LeastIs
<1>7. \A T : Reaches(graph, top, T) <=> T = S0
  BY DEF Reaches
<1>8. \A X : ~Inside(S0, X) => PlansOf(memo', X) = PlansOf(memo, X)
  BY <1>3, <1>4, <1>5 DEF PlansOf, Inside
<1>9. \A X : Past(graph, stack, seeds, X) => PlansOf(memo', X) = PlansOf(memo, X)
  BY <1>2, <1>5, <1>7, <1>8 DEF Past
<1>10. Past(graph, stack', seeds, S0)
  <2>1. \A k \in 1..Len(new) : \A T \in SUBSET graph.relations :
          Reaches(graph, new[k], T) => ~Inside(T, S0)
    BY <1>7 DEF Relays, Narrows, Inside
  <2>2. Reaches(graph, stack[1], S0) /\ Least(S0) = Least(stack[1].s)
    BY <1>2, <1>7
  <2> QED
    BY <1>1, <1>2, <1>5, <2>1, <2>2, PastReached DEF OrderInv
<1>11. Past(graph, stack', seeds, C0)
  <2>1. Ordered(graph, stack', seeds)
    BY <1>1, <1>2, OrderStep DEF OrderInv
  <2>2. StackOK(graph, stack')
    BY DEF EnumInv, StackInv
  <2>3. \A k \in 1..Len(stack') : Least(stack'[k].s) = Least(S0)
    <3>1. \A k \in 1..Len(stack') : \/ k \in 1..Len(new) /\ stack'[k] = new[k]
                                    \/ /\ k - Len(new) + 1 \in 2..Len(stack)
                                       /\ stack'[k] = stack[k - Len(new) + 1]
      BY <1>2, Replaced
    <3>2. \A k \in 1..Len(new) : Least(new[k].s) = Least(S0)
      BY DEF Relays
    <3>3. \A k \in 2..Len(stack) : Least(stack[k].s) = Least(S0)
      <4>1. \A k \in 2..Len(stack) : k \in 1..Len(stack)
        BY <1>2
      <4> QED
        BY <1>1, <1>2, <4>1 DEF OrderInv, Ordered
    <3> QED
      BY <3>1, <3>2, <3>3
  <2>4. seeds \in SUBSET Nat /\ \A q \in seeds : q < Least(S0)
    <3>1. seeds \subseteq graph.relations
      BY GraphTypes DEF EnumInv, GraphInv
    <3>2. \A q \in seeds : q < Least(stack[1].s)
      BY <1>1, <1>2 DEF OrderInv, Ordered
    <3> QED
      BY <1>2, <3>1, <3>2, GraphFacts
  <2> QED
    BY <1>2, <1>5, <1>6, <2>1, <2>2, <2>3, <2>4, PastAbove
<1>12. Candidates(memo, Steps(S0, C0))' \subseteq memo'
  <2>1. PlansOf(memo', S0) = PlansOf(memo, S0)
    BY <1>8 DEF Inside
  <2>2. PlansOf(memo', C0) = PlansOf(memo, C0)
    BY <1>5, <1>8 DEF Inside
  <2>3. Candidates(memo, Steps(S0, C0))' = Candidates(memo, Steps(S0, C0))
    BY <1>2, <2>1, <2>2, SameCandidates
  <2> QED
    BY <1>3, <2>3
<1>13. SolidInv'
  <2> SUFFICES ASSUME NEW p \in memo', Cover(p) \subseteq component
               PROVE  Solid(graph, Cover(p)) /\ Least(Cover(p)) \notin Expanded(E)
    BY DEF SolidInv, E
  <2>1. CASE p \in memo
    BY <1>1, <2>1 DEF SolidInv
  <2>2. CASE p \notin memo
    <3>1. Cover(p) = S0 \cup C0 /\ Builds(memo, S0, C0)
      BY <1>4, <2>2
    <3>2. \A X : HasPlan(memo, X) /\ X \subseteq component =>
                   Solid(graph, X) /\ Least(X) \notin Expanded(E)
      BY <1>1 DEF SolidInv, HasPlan, PlansOf
    <3>3. Solid(graph, S0) /\ Least(S0) \notin Expanded(E)
      BY <3>1, <3>2 DEF Builds
    <3>4. Solid(graph, C0)
      <4>1. CASE HasPlan(memo, C0)
        BY <3>1, <3>2, <4>1
      <4>2. ASSUME NEW i \in DOMAIN E, E[i].unnest, C0 = E[i].right
            PROVE  Solid(graph, C0)
        <5>1. \E u : E[i].right = {u}
          BY <1>2, <4>2, GraphFacts DEF E
        <5> QED
          BY <4>2, <5>1, LoneIsSolid
      <4> QED
        BY <3>1, <4>1, <4>2 DEF Builds
    <3>5. PICK i \in DOMAIN graph.edges : Splits(graph.edges[i], S0, C0)
      BY <3>1 DEF Builds, E
    <3>6. Solid(graph, S0 \cup C0)
      BY <1>5, <3>3, <3>4, <3>5, UnionIsSolid
    <3>7. Least(S0 \cup C0) = Least(S0)
      BY <1>5, LeastGrown
    <3> QED
      BY <3>1, <3>3, <3>6, <3>7
  <2> QED
    BY <2>1, <2>2
<1>14. emitted' = Append(emitted, <<S0, C0>>) /\ emitted \in Seq((SUBSET Nat) \X (SUBSET Nat))
  BY DEF Offer, EnumInv, EmittedInv, EmittedOK
<1>15. \A S, C : Offered(emitted', S, C) <=> Offered(emitted, S, C) \/ (S = S0 /\ C = C0)
  <2>1. /\ Len(emitted') = Len(emitted) + 1 /\ Len(emitted) \in Nat
        /\ emitted'[Len(emitted) + 1] = <<S0, C0>>
        /\ \A i \in 1..Len(emitted) : emitted'[i] = emitted[i]
    BY <1>5, <1>14
  <2>2. \A i : i \in 1..(Len(emitted) + 1) <=> i \in 1..Len(emitted) \/ i = Len(emitted) + 1
    BY <2>1
  <2>3. \A S, C : <<S, C>> = <<S0, C0>> <=> S = S0 /\ C = C0
    OBVIOUS
  <2> TAKE S, C
  <2>4. ASSUME Offered(emitted, S, C) PROVE Offered(emitted', S, C)
    <3>1. PICK i \in 1..Len(emitted) : emitted[i] = <<S, C>>
      BY <2>4 DEF Offered
    <3> QED
      BY <2>1, <2>2, <3>1 DEF Offered
  <2>5. ASSUME S = S0, C = C0 PROVE Offered(emitted', S, C)
    <3>1. Len(emitted) + 1 \in 1..Len(emitted')
      BY <2>1
    <3> QED
      BY <2>1, <2>5, <3>1 DEF Offered
  <2>6. ASSUME Offered(emitted', S, C)
        PROVE  Offered(emitted, S, C) \/ (S = S0 /\ C = C0)
    <3>1. PICK i \in 1..Len(emitted') : emitted'[i] = <<S, C>>
      BY <2>6 DEF Offered
    <3>2. CASE i \in 1..Len(emitted)
      BY <2>1, <3>1, <3>2 DEF Offered
    <3>3. CASE i = Len(emitted) + 1
      BY <2>1, <2>3, <3>1, <3>3
    <3> QED
      BY <2>1, <2>2, <3>2, <3>3
  <2> QED
    BY <2>4, <2>5, <2>6
<1>16. \A S, C \in SUBSET component : Offered(emitted', S, C) =>
         \/ Offered(emitted, S, C)
         \/ /\ Past(graph, stack', seeds, S) /\ Past(graph, stack', seeds, C)
            /\ Candidates(memo, Steps(S, C))' \subseteq memo'
  BY <1>10, <1>11, <1>12, <1>15
<1>17. \A S, C \in SUBSET component : Good(graph, S, C) /\ Ahead(graph, top, S, C) =>
         \/ AheadIn(graph, new, S, C)
         \/ Offered(emitted', S, C)
  BY <1>15 DEF AllBut
<1>18. \A S, C : Offered(emitted, S, C) => Offered(emitted', S, C)
  BY <1>15
<1> QED
  BY <1>3, <1>9, <1>13, <1>16, <1>17, <1>18, RoundKeeps, ZenonT(60)

LEMMA EmitCsgSearch ==
  ASSUME EnumInv, EnumInv', SearchInv, Searching', count \in Nat, EmitCsg
  PROVE  SearchInv'
<1> DEFINE v == Largest(UNION top.todo)
           s == top.s
           D == {v}
           N == Neighborhood(graph.edges, top.s, top.x)
           x == top.x \cup top.s \cup (Prefix(v) \cap N)
           h == Frame("cmpEmit", top.s, {v}, x, Subsets(Neighborhood(graph.edges, {v}, x)))
           k == Less(top, {v})
           new == Call(h) \o <<k>>
<1>1. /\ Searching /\ stack # <<>> /\ top.op = "csg" /\ top.todo # {}
      /\ UNCHANGED <<graph, component, seeds>> /\ Offer(s, {v})
      /\ stack' = Call(CmpRec(CmpLoops[1], top.s, {v}, CmpForbidden(v)))
                  \o <<Visited({v})>> \o Tail(stack)
  BY DEF EmitCsg, Running, EnumVars, Searching
<1>2. /\ FrameOK(graph, top) /\ graph \in Graphs /\ Visited({v}) = k
  BY <1>1, TopIs
<1>3. {v} \in top.todo
  BY <1>1, NextNeighbour
<1> HIDE DEF v
<1>4. CmpRec(CmpLoops[1], top.s, {v}, CmpForbidden(v)) = h
  BY LoopNames DEF CmpRec, CmpForbidden, E
<1>5. stack' = new \o Tail(stack) /\ new \in {Call(h) \o <<k>>, <<>> \o <<k>>}
  BY <1>1, <1>2, <1>4
<1>6. /\ FrameOK(graph, h) /\ h.s = top.s /\ FrameOK(graph, k) /\ k.s = top.s
      /\ PairOK(graph, s, D)
  BY <1>1, <1>2, <1>3, EmitCsgFrames, ZenonT(90)
<1>7. /\ Narrows(graph, top, h) /\ Narrows(graph, top, k) /\ Follows(graph, h, k)
      /\ \A S, C : Good(graph, S, C) /\ Ahead(graph, top, S, C)
                     => (S = s /\ C = D) \/ Hands(graph, h, k, S, C)
  BY <1>1, <1>2, <1>3, EmitCsgHands, ZenonT(90)
<1>8. Offer(s, D) /\ s = top.s /\ new = Call(h) \o <<k>>
  BY <1>1
<1> HIDE DEF h, k, new, D, s
<1>9. Passes(graph, top, h, k)
  BY <1>6, <1>7 DEF FrameOK, Passes
<1>10. /\ Relays(graph, top, new)
       /\ \A S, C : Hands(graph, h, k, S, C) => AheadIn(graph, new, S, C)
  BY <1>5, <1>8, <1>9, RelaysTwo
<1>11. AllBut(graph, component, top, new, s, D)
  BY <1>7, <1>10 DEF AllBut
<1>12. top.op \in {"csg", "cmpEmit"}
  BY <1>1
<1> QED
  BY <1>1, <1>5, <1>6, <1>8, <1>10, <1>11, <1>12, OfferKeeps

LEMMA CsgEmitSearch == ASSUME EnumInv, SearchInv, CsgEmit PROVE SearchInv'
<1>1. PICK sub \in top.todo :
        /\ Next1(top.todo, sub)
        /\ stack' = (IF HasPlan(memo, top.s \cup sub) THEN Call(Csg(top.s \cup sub)) ELSE <<>>)
                    \o <<Visited(sub)>> \o Tail(stack)
  BY DEF CsgEmit
<1>2. /\ Searching /\ stack # <<>> /\ top.op = "csgEmit"
      /\ UNCHANGED <<graph, component, seeds, memo, emitted>>
  BY DEF CsgEmit, Running, EnumVars, Searching
<1> DEFINE V == top.s \cup sub
           x == Prefix(Least(V))
           h == Frame("csg", V, {}, x, {{v} : v \in Neighborhood(graph.edges, V, x)})
           k == Less(top, sub)
           new == (IF HasPlan(memo, top.s \cup sub) THEN Call(h) ELSE <<>>) \o <<k>>
<1>3. /\ FrameOK(graph, top) /\ graph \in Graphs /\ Visited(sub) = k
  BY <1>2, TopIs
<1>4. Csg(top.s \cup sub) = h
  BY DEF Csg, E
<1>5. /\ FrameOK(graph, h) /\ Least(h.s) = Least(top.s) /\ FrameOK(graph, k) /\ k.s = top.s
  BY <1>2, <1>3, CsgEmitFrames, ZenonT(90)
<1>6. /\ Narrows(graph, top, h) /\ Narrows(graph, top, k) /\ Follows(graph, h, k)
      /\ V \in SUBSET graph.relations /\ Reaches(graph, top, V) /\ Reaches(graph, h, V)
      /\ \A S, C : Good(graph, S, C) /\ Ahead(graph, top, S, C)
                     => /\ Hands(graph, h, k, S, C)
                        /\ S # V => Ahead(graph, k, S, C)
  BY <1>1, <1>2, <1>3, CsgEmitHands, ZenonT(90)
<1>7. stack' = new \o Tail(stack)
  BY <1>1, <1>3, <1>4
<1>8. /\ new \in {Call(h) \o <<k>>, <<>> \o <<k>>}
      /\ HasPlan(memo, V) => new = Call(h) \o <<k>>
      /\ ~HasPlan(memo, V) => new = <<>> \o <<k>>
  BY DEF new
<1> HIDE DEF h, k, new, V
<1>9. Passes(graph, top, h, k)
  BY <1>5, <1>6 DEF FrameOK, Passes
<1>10. /\ Relays(graph, top, new)
       /\ \A S, C : Ahead(graph, k, S, C) => AheadIn(graph, new, S, C)
       /\ new = Call(h) \o <<k>> =>
            \A S, C : Hands(graph, h, k, S, C) => AheadIn(graph, new, S, C)
  BY <1>8, <1>9, RelaysTwo
<1>11. AllWithPlans(graph, component, top, new, stack', seeds, memo)
  <2>1. CASE HasPlan(memo, V)
    BY <1>6, <1>8, <1>10, <2>1 DEF AllWithPlans
  <2>2. CASE ~HasPlan(memo, V)
    <3>1. stack \in Seq(Frames) /\ top = stack[1] /\ Ordered(graph, stack, seeds)
      BY <1>2, TopIs DEF EnumInv, StackInv, StackOK, SearchInv, OrderInv
    <3>2. Least(V) = Least(top.s)
      BY <1>3, <1>6, ReachedLeast
    <3>3. <<k>> \in Seq(Frames) /\ new = <<k>> /\ \A i \in 1..Len(new) : new[i] = k
      <4>1. k \in Frames
        BY <1>5 DEF FrameOK
      <4>2. <<k>> \in Seq(Frames) /\ <<>> \o <<k>> = <<k>> /\ Len(<<k>>) = 1 /\ <<k>>[1] = k
        BY <4>1
      <4>3. new = <<k>>
        BY <1>8, <2>2, <4>2
      <4>4. \A i \in 1..Len(<<k>>) : <<k>>[i] = k
        BY <4>2
      <4> QED
        BY <4>2, <4>3, <4>4
    <3>4. \A i \in 1..Len(new) : \A T \in SUBSET graph.relations :
            Reaches(graph, new[i], T) => ~Inside(T, V)
      BY <1>6, <3>3 DEF Follows
    <3>5. Past(graph, stack', seeds, V)
      BY <1>2, <1>6, <1>7, <3>1, <3>2, <3>3, <3>4, PastReached
    <3> QED
      BY <1>6, <1>10, <2>2, <3>5 DEF AllWithPlans
  <2> QED
    BY <2>1, <2>2
<1> QED
  BY <1>2, <1>7, <1>10, <1>11, SilentKeeps

LEMMA CsgGrowSearch == ASSUME EnumInv, SearchInv, CsgGrow PROVE SearchInv'
<1>1. PICK sub \in top.todo :
        /\ Next1(top.todo, sub)
        /\ stack' = Call(CsgRec(CsgLoops[1], top.s \cup sub,
                                top.x \cup Neighborhood(E, top.s, top.x)))
                    \o <<Visited(sub)>> \o Tail(stack)
  BY DEF CsgGrow
<1>2. /\ Searching /\ stack # <<>> /\ top.op = "csgGrow"
      /\ UNCHANGED <<graph, component, seeds, memo, emitted>>
  BY DEF CsgGrow, Running, EnumVars, Searching
<1> DEFINE V == top.s \cup sub
           x == top.x \cup Neighborhood(graph.edges, top.s, top.x)
           h == Frame("csgEmit", V, {}, x, Subsets(Neighborhood(graph.edges, V, x)))
           k == Less(top, sub)
           new == Call(h) \o <<k>>
<1>3. /\ FrameOK(graph, top) /\ graph \in Graphs /\ Visited(sub) = k
  BY <1>2, TopIs
<1>4. CsgRec(CsgLoops[1], top.s \cup sub, top.x \cup Neighborhood(E, top.s, top.x)) = h
  BY LoopNames DEF CsgRec, E
<1>5. /\ FrameOK(graph, h) /\ Least(h.s) = Least(top.s) /\ FrameOK(graph, k) /\ k.s = top.s
  BY <1>2, <1>3, CsgGrowFrames, ZenonT(90)
<1>6. /\ Narrows(graph, top, h) /\ Narrows(graph, top, k) /\ Follows(graph, h, k)
      /\ \A S, C : Good(graph, S, C) /\ Ahead(graph, top, S, C) => Hands(graph, h, k, S, C)
  BY <1>1, <1>2, <1>3, CsgGrowHands, ZenonT(90)
<1>7. stack' = new \o Tail(stack) /\ new = Call(h) \o <<k>>
      /\ new \in {Call(h) \o <<k>>, <<>> \o <<k>>}
  BY <1>1, <1>3, <1>4
<1> HIDE DEF h, k, new
<1>8. Passes(graph, top, h, k)
  BY <1>5, <1>6 DEF FrameOK, Passes
<1>9. /\ Relays(graph, top, new)
      /\ \A S, C : Hands(graph, h, k, S, C) => AheadIn(graph, new, S, C)
  BY <1>7, <1>8, RelaysTwo
<1>10. AllWithPlans(graph, component, top, new, stack', seeds, memo)
  BY <1>6, <1>9 DEF AllWithPlans
<1> QED
  BY <1>2, <1>7, <1>9, <1>10, SilentKeeps

LEMMA CmpGrowSearch == ASSUME EnumInv, SearchInv, CmpGrow PROVE SearchInv'
<1>1. PICK sub \in top.todo :
        stack' = Call(CmpRec(CmpLoops[1], top.s, top.c \cup sub,
                             top.x \cup Neighborhood(E, top.c, top.x)))
                 \o <<Visited(sub)>> \o Tail(stack)
  BY DEF CmpGrow
<1>2. /\ Searching /\ stack # <<>> /\ top.op = "cmpGrow"
      /\ UNCHANGED <<graph, component, seeds, memo, emitted>>
  BY DEF CmpGrow, Running, EnumVars, Searching
<1> DEFINE V == top.c \cup sub
           x == top.x \cup Neighborhood(graph.edges, top.c, top.x)
           h == Frame("cmpEmit", top.s, V, x, Subsets(Neighborhood(graph.edges, V, x)))
           k == Less(top, sub)
           new == Call(h) \o <<k>>
<1>3. /\ FrameOK(graph, top) /\ graph \in Graphs /\ Visited(sub) = k
  BY <1>2, TopIs
<1>4. CmpRec(CmpLoops[1], top.s, top.c \cup sub, top.x \cup Neighborhood(E, top.c, top.x)) = h
  BY LoopNames DEF CmpRec, E
<1>5. /\ FrameOK(graph, h) /\ h.s = top.s /\ FrameOK(graph, k) /\ k.s = top.s
  BY <1>2, <1>3, CmpGrowFrames, ZenonT(90)
<1>6. /\ Narrows(graph, top, h) /\ Narrows(graph, top, k) /\ Follows(graph, h, k)
      /\ \A S, C : Good(graph, S, C) /\ Ahead(graph, top, S, C) => Hands(graph, h, k, S, C)
  BY <1>2, <1>3, CmpGrowHands, ZenonT(90)
<1>7. stack' = new \o Tail(stack) /\ new = Call(h) \o <<k>>
      /\ new \in {Call(h) \o <<k>>, <<>> \o <<k>>}
  BY <1>1, <1>3, <1>4
<1> HIDE DEF h, k, new
<1>8. Passes(graph, top, h, k)
  BY <1>5, <1>6 DEF FrameOK, Passes
<1>9. /\ Relays(graph, top, new)
      /\ \A S, C : Hands(graph, h, k, S, C) => AheadIn(graph, new, S, C)
  BY <1>7, <1>8, RelaysTwo
<1>10. AllWithPlans(graph, component, top, new, stack', seeds, memo)
  BY <1>6, <1>9 DEF AllWithPlans
<1> QED
  BY <1>2, <1>7, <1>9, <1>10, SilentKeeps

LEMMA CmpEmitSearch ==
  ASSUME EnumInv, EnumInv', SearchInv, Searching', count \in Nat, CmpEmit
  PROVE  SearchInv'
<1>1. PICK sub \in top.todo :
        /\ stack' = <<Visited(sub)>> \o Tail(stack)
        /\ IF HasPlan(memo, top.c \cup sub) THEN Offer(top.s, top.c \cup sub)
           ELSE UNCHANGED <<phase, memo, count, emitted>>
  BY DEF CmpEmit
<1>2. /\ Searching /\ stack # <<>> /\ top.op = "cmpEmit"
      /\ UNCHANGED <<graph, component, seeds>>
  BY DEF CmpEmit, Running, EnumVars, Searching
<1> DEFINE k == Less(top, sub)
           s == top.s
           V == top.c \cup sub
           new == <<k>>
<1>3. /\ FrameOK(graph, top) /\ graph \in Graphs /\ Visited(sub) = k
  BY <1>2, TopIs
<1>4. FrameOK(graph, k) /\ k.s = top.s /\ PairOK(graph, s, V)
  BY <1>2, <1>3, CmpEmitFrames
<1>5. /\ Narrows(graph, top, k)
      /\ \A S, C : Ahead(graph, top, S, C) => (S = s /\ C = V) \/ Ahead(graph, k, S, C)
  BY <1>2, <1>3, CmpEmitHands, ZenonT(90)
<1>6. ~Lone(V)
  <2>1. /\ IsCmp(top) /\ top.c # {} /\ sub \in Subsets(Around(graph, top))
    BY <1>2, <1>3 DEF FrameOK, IsCmp
  <2>2. Around(graph, top) \cap top.c = {}
    BY <1>3, <2>1, AroundIs
  <2> QED
    BY <2>1, <2>2 DEF Lone, Subsets
<1>7. /\ stack' = new \o Tail(stack) /\ s = top.s
      /\ IF HasPlan(memo, V) THEN Offer(s, V) ELSE UNCHANGED <<phase, memo, count, emitted>>
  BY <1>1, <1>3
<1> HIDE DEF k, V, s
<1>8. /\ Relays(graph, top, new)
      /\ \A S, C : Ahead(graph, k, S, C) => AheadIn(graph, new, S, C)
  BY <1>4, <1>5, RelaysOne DEF FrameOK
<1> HIDE DEF new
<1>9. CASE HasPlan(memo, V)
  <2>1. AllBut(graph, component, top, new, s, V)
    BY <1>5, <1>8 DEF AllBut
  <2>2. top.op \in {"csg", "cmpEmit"}
    BY <1>2
  <2> QED
    BY <1>2, <1>4, <1>7, <1>8, <1>9, <2>1, <2>2, OfferKeeps
<1>10. CASE ~HasPlan(memo, V)
  <2>1. Ordered(graph, stack', seeds) /\ stack \in Seq(Frames) /\ top = stack[1]
        /\ 1 \in 1..Len(stack)
    <3>1. stack \in Seq(Frames) /\ top = stack[1] /\ Ordered(graph, stack, seeds)
      BY <1>2, TopIs DEF EnumInv, StackInv, StackOK, SearchInv, OrderInv
    <3> QED
      BY <1>2, <1>7, <1>8, <3>1, OrderStep
  <2>2. StackOK(graph, stack')
    BY <1>2 DEF EnumInv, StackInv
  <2>3. /\ s \in SUBSET Nat /\ s # {} /\ V \in SUBSET Nat /\ V # {} /\ \A r \in V : Least(s) < r
    BY <1>3, <1>4, GraphFacts DEF PairOK, Apart
  <2>4. Least(s) \in Nat
    BY <2>3, LeastIs
  <2>5. seeds \in SUBSET Nat /\ \A q \in seeds : q < Least(s)
    <3>1. seeds \subseteq graph.relations
      BY GraphTypes DEF EnumInv, GraphInv
    <3>2. \A q \in seeds : q < Least(stack[1].s)
      BY <1>2, <2>1 DEF SearchInv, OrderInv, Ordered
    <3> QED
      BY <1>3, <1>7, <2>1, <3>1, <3>2, GraphFacts
  <2>6. \A i \in 1..Len(stack') : Least(stack'[i].s) = Least(s)
    <3>1. stack' # <<>> /\ stack' \in Seq(Frames)
      BY <2>2, <1>7 DEF StackOK, new
    <3>2. 1 \in 1..Len(stack') /\ stack'[1] = k
      <4>1. /\ Tail(stack) \in Seq(Frames) /\ k \in Frames
        BY <1>2, <1>4, <2>1 DEF FrameOK
      <4> QED
        BY <1>7, <4>1 DEF new
    <3>3. Least(stack'[1].s) = Least(s)
      BY <1>4, <1>7, <3>2
    <3> QED
      BY <2>1, <3>2, <3>3 DEF Ordered
  <2>7. Past(graph, stack', seeds, V)
    BY <1>3, <2>1, <2>2, <2>3, <2>4, <2>5, <2>6, PastAbove
  <2>8. AllWithPlans(graph, component, top, new, stack', seeds, memo)
    BY <1>5, <1>6, <1>8, <1>10, <2>7 DEF AllWithPlans
  <2> QED
    BY <1>2, <1>7, <1>8, <1>10, <2>8, SilentKeeps
<1> QED
  BY <1>9, <1>10

LEMMA LoopEndSearch == ASSUME EnumInv, SearchInv, LoopEnd PROVE SearchInv'
<1>1. /\ Searching /\ stack # <<>> /\ top.todo = {}
      /\ UNCHANGED <<graph, component, seeds, memo, emitted>>
      /\ stack' = (CASE top.op = CsgLoops[1] -> <<CsgRec(CsgLoops[2], top.s, top.x)>>
                     [] top.op = CmpLoops[1] -> <<CmpRec(CmpLoops[2], top.s, top.c, top.x)>>
                     [] OTHER -> <<>>) \o Tail(stack)
  BY DEF LoopEnd, EnumVars, Searching
<1>2. FrameOK(graph, top) /\ graph \in Graphs
  BY <1>1, TopIs
<1>3. ASSUME NEW h, h \in Frames, h.s = top.s, stack' = <<h>> \o Tail(stack),
             Narrows(graph, top, h), \A S, C : Ahead(graph, top, S, C) => Ahead(graph, h, S, C)
      PROVE  SearchInv'
  <2>1. /\ Relays(graph, top, <<h>>)
        /\ \A S, C : Ahead(graph, h, S, C) => AheadIn(graph, <<h>>, S, C)
    BY <1>3, RelaysOne
  <2>2. AllWithPlans(graph, component, top, <<h>>, stack', seeds, memo)
    BY <1>3, <2>1 DEF AllWithPlans
  <2> QED
    BY <1>1, <1>3, <2>1, <2>2, SilentKeeps
<1>4. CASE top.op = "csgEmit"
  <2> DEFINE h == CsgRec("csgGrow", top.s, top.x)
  <2>1. stack' = <<h>> \o Tail(stack)
    BY <1>1, <1>4, LoopNames
  <2>2. h = Frame("csgGrow", top.s, {}, top.x, Subsets(Neighborhood(graph.edges, top.s, top.x)))
    BY DEF CsgRec, E
  <2>3. h \in Frames /\ h.s = top.s
    BY <1>1, <1>2, <1>4, <2>2, SecondCsgLoop
  <2>4. Narrows(graph, top, h) /\ \A S, C : Ahead(graph, top, S, C) => Ahead(graph, h, S, C)
    BY <1>1, <1>2, <1>4, <2>2, SecondLoopHands
  <2> HIDE DEF h
  <2> QED
    BY <1>3, <2>1, <2>3, <2>4
<1>5. CASE top.op = "cmpEmit"
  <2> DEFINE h == CmpRec("cmpGrow", top.s, top.c, top.x)
  <2>1. stack' = <<h>> \o Tail(stack)
    BY <1>1, <1>5, LoopNames
  <2>2. h = Frame("cmpGrow", top.s, top.c, top.x,
                  Subsets(Neighborhood(graph.edges, top.c, top.x)))
    BY DEF CmpRec, E
  <2>3. h \in Frames /\ h.s = top.s
    BY <1>1, <1>2, <1>5, <2>2, SecondCmpLoop
  <2>4. Narrows(graph, top, h) /\ \A S, C : Ahead(graph, top, S, C) => Ahead(graph, h, S, C)
    BY <1>1, <1>2, <1>5, <2>2, SecondLoopHands
  <2> HIDE DEF h
  <2> QED
    BY <1>3, <2>1, <2>3, <2>4
<1>6. CASE top.op \notin {"csgEmit", "cmpEmit"}
  <2>1. stack' = <<>> \o Tail(stack)
    BY <1>1, <1>6, LoopNames
  <2>2. AllWithPlans(graph, component, top, <<>>, stack', seeds, memo)
    BY <1>1, <1>2, <1>6, SecondLoopHands DEF AllWithPlans
  <2> QED
    BY <1>1, <2>1, <2>2, RelaysNone, SilentKeeps
<1> QED
  BY <1>4, <1>5, <1>6

\* The calls that a seed makes.
Calls(h, k, new) ==
  /\ new \in Seq(Frames)
  /\ \A i \in 1..Len(new) : new[i] = h \/ new[i] = k
  /\ \A i, j \in 1..Len(new) : i < j => new[i] = h /\ new[j] = k
  /\ h.todo # {} => \E i \in 1..Len(new) : new[i] = h
  /\ k.todo # {} => \E i \in 1..Len(new) : new[i] = k
LEMMA TwoCalls ==
  ASSUME NEW h, NEW k, h \in Frames, k \in Frames, NEW new, new = Call(h) \o Call(k)
  PROVE  Calls(h, k, new)
<1>1. /\ <<h>> \in Seq(Frames) /\ <<k>> \in Seq(Frames) /\ <<>> \in Seq(Frames)
      /\ Len(<<h>>) = 1 /\ Len(<<k>>) = 1 /\ Len(<<>>) = 0 /\ <<h>>[1] = h /\ <<k>>[1] = k
  OBVIOUS
<1> DEFINE a == Call(h)
           b == Call(k)
<1>2. /\ a \in Seq(Frames) /\ Len(a) \in 0..1 /\ (Len(a) = 1 => a[1] = h)
      /\ h.todo # {} => Len(a) = 1
  BY <1>1 DEF Call
<1>3. /\ b \in Seq(Frames) /\ Len(b) \in 0..1 /\ (Len(b) = 1 => b[1] = k)
      /\ k.todo # {} => Len(b) = 1
  BY <1>1 DEF Call
<1>4. new = a \o b
  OBVIOUS
<1> HIDE DEF a, b
<1>5. /\ new \in Seq(Frames) /\ Len(new) = Len(a) + Len(b)
      /\ \A i \in 1..(Len(a) + Len(b)) :
           new[i] = IF i <= Len(a) THEN a[i] ELSE b[i - Len(a)]
  BY <1>2, <1>3, <1>4
<1>6. CASE Len(a) = 0 /\ Len(b) = 0
  <2>1. 1..Len(new) = {}
    BY <1>5, <1>6
  <2> QED
    BY <1>2, <1>3, <1>5, <1>6, <2>1 DEF Calls
<1>7. CASE Len(a) = 1 /\ Len(b) = 0
  <2>1. 1..Len(new) = {1} /\ new[1] = h
    BY <1>2, <1>5, <1>7
  <2> QED
    BY <1>3, <1>5, <1>7, <2>1 DEF Calls
<1>8. CASE Len(a) = 0 /\ Len(b) = 1
  <2>1. 1..Len(new) = {1} /\ new[1] = k
    BY <1>3, <1>5, <1>8
  <2> QED
    BY <1>2, <1>5, <1>8, <2>1 DEF Calls
<1>9. CASE Len(a) = 1 /\ Len(b) = 1
  <2>1. 1..Len(new) = {1, 2} /\ new[1] = h /\ new[2] = k
    BY <1>2, <1>3, <1>5, <1>9
  <2>2. \A i, j \in {1, 2} : i < j => i = 1 /\ j = 2
    OBVIOUS
  <2> QED
    BY <1>5, <2>1, <2>2 DEF Calls
<1>10. (Len(a) = 0 \/ Len(a) = 1) /\ (Len(b) = 0 \/ Len(b) = 1)
  BY <1>2, <1>3
<1> QED
  BY <1>6, <1>7, <1>8, <1>9, <1>10

LEMMA SeedSearch == ASSUME EnumInv, EnumInv', SearchInv, Seed PROVE SearchInv'
<1> DEFINE r == Largest(seeds)
           x == Prefix(Least({r}))
           h == Frame("csg", {r}, {}, x, {{v} : v \in Neighborhood(graph.edges, {r}, x)})
           k == Frame("csgEmit", {r}, {}, Prefix(r),
                      Subsets(Neighborhood(graph.edges, {r}, Prefix(r))))
           new == Call(h) \o Call(k)
<1>1. /\ Searching /\ stack = <<>> /\ seeds # {} /\ seeds' = seeds \ {r}
      /\ UNCHANGED <<graph, component, memo, emitted>>
      /\ stack' = Call(Csg({r})) \o Call(CsgRec(CsgLoops[1], {r}, Prefix(r)))
  BY DEF Seed, EnumVars, Searching
<1>2. graph \in Graphs /\ seeds \subseteq graph.relations /\ component \subseteq graph.relations
  BY GraphTypes DEF EnumInv, GraphInv
<1>3. graph.relations \subseteq Nat /\ IsFiniteSet(graph.relations)
  BY <1>2, GraphFacts
<1>4. r \in seeds /\ \A q \in seeds : q <= r
  <2>1. IsFiniteSet(seeds) /\ seeds \in SUBSET Nat
    BY <1>2, <1>3, FS_Subset
  <2> QED
    BY <1>1, <2>1, LargestIs
<1> HIDE DEF r
<1>5. r \in graph.relations /\ r \in Nat /\ seeds' \in SUBSET Nat /\ \A q \in seeds' : q < r
  BY <1>1, <1>2, <1>3, <1>4
<1>6. stack' = new /\ new = Call(h) \o Call(k)
  BY <1>1, LoopNames DEF Csg, CsgRec, E
<1>7. /\ FrameOK(graph, h) /\ FrameOK(graph, k) /\ h.s = {r} /\ k.s = {r} /\ Least({r}) = r
  BY <1>2, <1>5, SeedFrames, Zenon
<1>8. /\ Follows(graph, h, k)
      /\ \A S, C : Good(graph, S, C) /\ Least(S) = r
                     => \/ Ahead(graph, h, S, C) /\ h.todo # {}
                        \/ Ahead(graph, k, S, C) /\ k.todo # {}
  BY <1>2, <1>5, SeedHands, Zenon
<1> HIDE DEF h, k, x, new
<1>9. Calls(h, k, new)
  <2>1. h \in Frames /\ k \in Frames
    BY <1>7 DEF FrameOK
  <2> QED
    BY <1>6, <2>1, TwoCalls
<1>10. \A i \in 1..Len(stack') : Least(stack'[i].s) = r
  BY <1>6, <1>7, <1>9 DEF Calls
<1>11. Ordered(graph, stack', seeds')
  <2>1. \A i, j \in 1..Len(stack') : i < j => Follows(graph, stack'[i], stack'[j])
    BY <1>6, <1>8, <1>9 DEF Calls
  <2> QED
    BY <1>5, <1>10, <2>1 DEF Ordered
<1>12. StackOK(graph, stack')
  BY <1>1 DEF EnumInv, StackInv
<1>13. ASSUME NEW X \in SUBSET Nat, X # {}, Past(graph, stack, seeds, X)
       PROVE  Past(graph, stack', seeds', X)
  <2>1. r < Least(X)
    BY <1>4, <1>13 DEF Past
  <2>2. \A v \in X : r < v
    <3>1. Least(X) \in X /\ \A v \in X : Least(X) <= v
      BY <1>13, LeastIs
    <3>2. Least(X) \in Nat /\ \A v \in X : v \in Nat
      BY <3>1
    <3> QED
      BY <1>5, <2>1, <3>1, <3>2
  <2> DEFINE st == stack'
             sd == seeds'
  <2>3. StackOK(graph, st) /\ sd \in SUBSET Nat /\ Ordered(graph, st, sd)
        /\ (\A i \in 1..Len(st) : Least(st[i].s) = r) /\ (\A q \in sd : q < r)
    BY <1>5, <1>10, <1>11, <1>12
  <2> HIDE DEF st, sd
  <2>4. Past(graph, st, sd, X)
    BY <1>2, <1>5, <1>13, <2>2, <2>3, PastAbove
  <2> QED
    BY <2>4 DEF st, sd
<1>14. OrderInv' /\ SolidInv'
  BY <1>1, <1>11 DEF SearchInv, OrderInv, SolidInv, E
<1>15. \A S, C \in SUBSET component : PairOK(graph, S, C) =>
         S \in SUBSET Nat /\ C \in SUBSET Nat /\ S # {} /\ C # {}
  BY <1>2, <1>3 DEF PairOK
<1>16. BuiltInv'
  <2> SUFFICES ASSUME NEW S \in SUBSET component, NEW C \in SUBSET component,
                      Offered(emitted, S, C)
               PROVE  /\ Past(graph, stack', seeds', S) /\ Past(graph, stack', seeds', C)
                      /\ Candidates(memo, Steps(S, C))' \subseteq memo
    BY <1>1 DEF BuiltInv
  <2>1. /\ Past(graph, stack, seeds, S) /\ Past(graph, stack, seeds, C)
        /\ Candidates(memo, Steps(S, C)) \subseteq memo
    BY <1>1 DEF SearchInv, BuiltInv
  <2>2. PairOK(graph, S, C)
    <3>1. PICK i \in 1..Len(emitted) : emitted[i] = <<S, C>>
      BY DEF Offered
    <3>2. PairOK(graph, emitted[i][1], emitted[i][2])
      BY DEF EnumInv, EmittedInv, EmittedOK
    <3> QED
      BY <3>1, <3>2
  <2>3. Candidates(memo, Steps(S, C))' = Candidates(memo, Steps(S, C))
    BY <1>1, <1>2, SameCandidates
  <2> QED
    BY <1>13, <1>15, <2>1, <2>2, <2>3
<1>17. CompleteInv'
  <2> SUFFICES ASSUME NEW S \in SUBSET component, NEW C \in SUBSET component,
                      Good(graph, S, C), Least(S) \notin Expanded(E)
               PROVE  Accounted(graph, stack', seeds', emitted, memo, S, C)
    BY <1>1 DEF CompleteInv, E
  <2>1. Accounted(graph, stack, seeds, emitted, memo, S, C)
    BY <1>1 DEF SearchInv, CompleteInv
  <2>2. S \in SUBSET Nat /\ C \in SUBSET Nat /\ S # {} /\ C # {}
    BY <1>15 DEF Good
  <2>3. ~AheadOn(graph, stack, S, C)
    <3>1. 1..Len(<<>>) = {}
      OBVIOUS
    <3> QED
      BY <1>1, <3>1 DEF AheadOn
  <2>4. CASE Least(S) = r
    <3>1. CASE Ahead(graph, h, S, C) /\ h.todo # {}
      <4>1. PICK i \in 1..Len(new) : new[i] = h
        BY <1>9, <3>1 DEF Calls
      <4> QED
        BY <1>6, <3>1, <4>1 DEF Accounted, AheadOn
    <3>2. CASE Ahead(graph, k, S, C) /\ k.todo # {}
      <4>1. PICK i \in 1..Len(new) : new[i] = k
        BY <1>9, <3>2 DEF Calls
      <4> QED
        BY <1>6, <3>2, <4>1 DEF Accounted, AheadOn
    <3> QED
      BY <1>8, <2>4, <3>1, <3>2
  <2>5. CASE Least(S) \in seeds \ {r}
    BY <1>1, <2>5 DEF Accounted
  <2>6. CASE Past(graph, stack, seeds, S) /\ ~HasPlan(memo, S)
    BY <1>13, <2>2, <2>6 DEF Accounted
  <2>7. CASE Past(graph, stack, seeds, C) /\ ~HasPlan(memo, C) /\ ~Lone(C)
    BY <1>13, <2>2, <2>7 DEF Accounted
  <2>8. CASE Offered(emitted, S, C)
    BY <2>8 DEF Accounted
  <2> QED
    BY <2>1, <2>3, <2>4, <2>5, <2>6, <2>7, <2>8 DEF Accounted
<1> QED
  BY <1>14, <1>16, <1>17 DEF SearchInv

(***************************************************************************)
(* Components that are left.                                               *)
(***************************************************************************)
\* An edge that reaches into one of them lies within it.
LEMMA RestIsClosed ==
  ASSUME EnumInv, NEW i \in DOMAIN E, Meets(Tes(E[i]), UNION Rest)
  PROVE  Tes(E[i]) \subseteq UNION Rest
<1>1. graph \in Graphs
  BY DEF EnumInv, GraphInv
<1>2. PICK K \in Components(E, graph.relations) : Tes(E[i]) \subseteq K
  BY <1>1, EdgeInComponent DEF E
<1>3. PICK L \in Rest : Meets(Tes(E[i]), L)
  BY DEF Meets
<1>4. L \in Components(E, graph.relations)
  BY DEF Rest
<1>5. K = L
  BY <1>1, <1>2, <1>3, <1>4, ComponentsArePartition DEF E, Meets
<1> QED
  BY <1>2, <1>3, <1>5

Aloof(p) == Cover(p) # {} /\ Cover(p) \cap UNION Rest = {}

\* An Unnest of a set that does not reach into them expands it by none of theirs.
LEMMA UnnestAloof ==
  ASSUME EnumInv, NEW S, S \cap UNION Rest = {}, NEW i \in DOMAIN E, E[i].left \subseteq S
  PROVE  E[i].right \cap UNION Rest = {}
<1>1. E[i].left # {}
  BY GraphFacts DEF EnumInv, GraphInv, E
<1>2. ~(Tes(E[i]) \subseteq UNION Rest)
  BY <1>1 DEF Tes
<1>3. Tes(E[i]) \cap UNION Rest = {}
  BY <1>2, RestIsClosed DEF Meets
<1> QED
  BY <1>3 DEF Tes

LEMMA CandidatesAloof ==
  ASSUME EnumInv, \A p \in memo : Aloof(p), NEW S, NEW C
  PROVE  \A p \in Candidates(memo, Steps(S, C)) : Aloof(p)
<1> TAKE p \in Candidates(memo, Steps(S, C))
<1>1. graph \in Graphs
  BY DEF EnumInv, GraphInv
<1>2. Cover(p) = S \cup C /\ Builds(memo, S, C)
  BY <1>1, CandidateIs
<1>3. \A X : HasPlan(memo, X) => X # {} /\ X \cap UNION Rest = {}
  BY DEF HasPlan, PlansOf, Aloof
<1>4. S # {} /\ S \cap UNION Rest = {}
  BY <1>2, <1>3 DEF Builds
<1>5. C \cap UNION Rest = {}
  BY <1>2, <1>3, <1>4, UnnestAloof DEF Builds
<1> QED
  BY <1>2, <1>4, <1>5 DEF Aloof

LEMMA ApartSame ==
  ASSUME EnumInv, ApartInv, phase \in {"dp", "greedy", "expand"},
         UNCHANGED <<graph, component, solved>>, \A p \in memo' : p \in memo \/ Aloof(p),
         phase' \in {"greedy", "expand"} => stack' = <<>>
  PROVE  ApartInv'
<1>1. Rest' = Rest
  BY DEF Rest, E
<1> QED
  BY <1>1 DEF ApartInv, Aloof

LEMMA OfferApart ==
  ASSUME EnumInv, ApartInv, phase = "dp", UNCHANGED <<graph, component, solved>>,
         count \in Nat, NEW S, NEW C, Offer(S, C)
  PROVE  ApartInv'
<1>1. graph \in Graphs
  BY DEF EnumInv, GraphInv
<1>2. \A p \in Candidates(memo, Steps(S, C)) : Aloof(p)
  BY CandidatesAloof DEF ApartInv, Aloof
<1>3. CASE phase' = "dp"
  <2>1. \A p \in memo' : p \in memo \/ Aloof(p)
    BY <1>1, <1>2, <1>3, OfferIs
  <2> QED
    BY <1>3, <2>1, ApartSame
<1>4. CASE phase' = "thrown"
  BY <1>4 DEF ApartInv
<1> QED
  BY <1>3, <1>4 DEF Offer

\* The next component brings its leaves, and is no longer left.
LEMMA NextApart ==
  ASSUME EnumInv, ApartInv, phase \in {"dp", "expand"}, Return(memo, "dp"), NextComponent,
         UNCHANGED graph
  PROVE  ApartInv'
<1>1. CASE Rest # {}
  <2> DEFINE K == First(Rest)
  <2>1. /\ component' = K /\ solved' = solved \cup {component} /\ phase' = "dp"
        /\ memo' = memo \cup InitLeaves(graph, K)
    BY <1>1 DEF Return, NextComponent
  <2>2. K \in Rest /\ K \in Components(E, graph.relations) /\ graph \in Graphs
    BY <1>1, NextIs DEF EnumInv, GraphInv
  <2> HIDE DEF K
  <2>3. Rest' = Rest \ {K}
    BY <2>1 DEF Rest, E
  <2>4. \A L \in Rest \ {K} : L \cap K = {}
    BY <2>2, ComponentsArePartition DEF Rest, E
  <2>5. \A p \in InitLeaves(graph, K) : \E r \in K : Cover(p) = {r}
    BY DEF InitLeaves, Leaf, Cover
  <2>6. \A p \in memo : Cover(p) # {} /\ Cover(p) \cap UNION Rest = {}
    BY DEF ApartInv
  <2> HIDE DEF Rest
  <2>7. \A p \in memo' : Cover(p) # {} /\ Cover(p) \cap UNION (Rest \ {K}) = {}
    BY <2>1, <2>4, <2>5, <2>6
  <2> QED
    BY <2>1, <2>3, <2>7 DEF ApartInv
<1>2. CASE Rest = {}
  <2>1. phase' \in {"done", "thrown"}
    BY <1>2 DEF Return
  <2> QED
    BY <2>1 DEF ApartInv
<1> QED
  BY <1>1, <1>2

LEMMA FallBackApart == ASSUME FallBack PROVE ApartInv'
<1>1. phase' \in {"fallback", "written"}
  BY DEF FallBack
<1> QED
  BY <1>1 DEF ApartInv

LEMMA SolveApart == ASSUME EnumInv, ApartInv, count \in Nat, Solve PROVE ApartInv'
<1>1. phase = "dp" /\ graph' = graph
  BY DEF Solve, Seed, EmitCsg, CsgEmit, CsgGrow, CmpEmit, CmpGrow, LoopEnd, SolveEnd,
     SolveGivesUp, Running, EnumVars
<1>2. CASE UNCHANGED <<component, solved, phase, memo>>
  BY <1>1, <1>2, ApartSame
<1>3. CASE EmitCsg
  BY <1>1, <1>3, OfferApart DEF EmitCsg, EnumVars
<1>4. CASE CmpEmit
  <2>1. UNCHANGED <<component, solved>>
    BY <1>4 DEF CmpEmit, EnumVars
  <2>2. CASE UNCHANGED <<phase, memo>>
    BY <1>2, <2>1, <2>2
  <2> QED
    BY <1>1, <1>4, <2>1, <2>2, OfferApart DEF CmpEmit
<1>5. CASE SolveEnd
  BY <1>1, <1>5, NextApart, FallBackApart DEF SolveEnd
<1>6. CASE SolveGivesUp
  <2>1. CASE FallBack
    BY <2>1, FallBackApart
  <2>2. CASE /\ phase' = "greedy" /\ UNCHANGED <<component, solved, applied>>
             /\ memo' = IF Single THEN InitLeaves(graph, component) ELSE memo
    <3>1. \A p \in InitLeaves(graph, component) : \E r \in component : Cover(p) = {r}
      BY DEF InitLeaves, Leaf, Cover
    <3>2. component \cap UNION Rest = {}
      BY ComponentsArePartition DEF EnumInv, GraphInv, Rest, E
    <3>3. \A p \in memo' : p \in memo \/ Aloof(p)
      BY <2>2, <3>1, <3>2 DEF Aloof
    <3>4. stack' = <<>>
      BY <1>6 DEF SolveGivesUp
    <3> QED
      BY <1>1, <2>2, <3>3, <3>4, ApartSame
  <2> QED
    BY <1>6, <2>1, <2>2 DEF SolveGivesUp
<1> QED
  BY <1>2, <1>3, <1>4, <1>5, <1>6
     DEF Solve, Seed, CsgEmit, CsgGrow, CmpGrow, LoopEnd, EnumVars

LEMMA GreedyApart == ASSUME EnumInv, ApartInv, Greedy PROVE ApartInv'
<1>1. phase \in {"greedy", "expand"} /\ UNCHANGED <<graph, stack>>
  BY DEF Greedy, GreedyMerge, GreedyExpand, ExpandUnnest, ExpandEnd, Stuck, Last, KeepsComponent
<1>2. stack' = <<>> /\ \A p \in memo : Aloof(p)
  BY <1>1 DEF ApartInv, Aloof
<1>3. CASE GreedyMerge
  <2>1. UNCHANGED <<component, solved>> /\ memo' \in {memo, WithFragmentPairs}
    BY <1>3 DEF GreedyMerge, KeepsComponent
  <2>2. \A p \in WithFragmentPairs : p \in memo \/ Aloof(p)
    BY <1>2, CandidatesAloof DEF WithFragmentPairs
  <2> QED
    BY <1>1, <1>2, <2>1, <2>2, ApartSame
<1>4. CASE GreedyExpand
  <2>1. CASE UNCHANGED <<component, solved, memo>>
    BY <1>1, <1>2, <2>1, ApartSame
  <2> QED
    BY <1>4, <2>1, FallBackApart DEF GreedyExpand
<1>5. CASE ExpandUnnest
  <2>1. PICK i \in Ready(grown) : memo' = memo \cup Expand(i, grown)
    BY <1>5 DEF ExpandUnnest
  <2>2. UNCHANGED <<component, solved>>
    BY <1>5 DEF ExpandUnnest, KeepsComponent
  <2>3. i \in DOMAIN E /\ E[i].left \subseteq grown
    BY DEF Ready
  <2>4. ASSUME NEW p \in Expand(i, grown) PROVE Aloof(p)
    <3> DEFINE st == Step(grown, E[i].right, "unnest", {i}, {})
    <3>1. PICK below \in Inputs(memo, st) : p = Plan(st, below)
      BY DEF Expand, Candidates
    <3>2. st.left = grown /\ st.right = E[i].right /\ st.type = "unnest"
      BY DEF Step
    <3>3. HasPlan(memo, grown)
      BY <3>1, <3>2 DEF Inputs, HasPlan
    <3>4. Cover(p) = grown \cup E[i].right
      BY <3>1, <3>2 DEF Plan, Cover
    <3>5. grown # {} /\ grown \cap UNION Rest = {}
      BY <1>2, <3>3 DEF HasPlan, PlansOf, Aloof
    <3>6. E[i].right \cap UNION Rest = {}
      BY <2>3, <3>5, UnnestAloof
    <3> QED
      BY <3>4, <3>5, <3>6 DEF Aloof
  <2>5. \A p \in memo' : p \in memo \/ Aloof(p)
    BY <2>1, <2>4
  <2> QED
    BY <1>1, <1>2, <2>2, <2>5, ApartSame
<1>6. CASE ExpandEnd
  <2>1. CASE UNCHANGED <<component, solved, memo>>
    BY <1>1, <1>2, <2>1, ApartSame
  <2> QED
    BY <1>1, <1>6, <2>1, NextApart, FallBackApart DEF ExpandEnd, KeepsComponent
<1> QED
  BY <1>3, <1>4, <1>5, <1>6 DEF Greedy

LEMMA FallbackApart == ASSUME Fallback PROVE ApartInv'
<1>1. phase' \in {"fallback", "written", "done", "thrown"}
  BY DEF Fallback, FallbackJoin, FallbackEnd, Return
<1> QED
  BY <1>1 DEF ApartInv

LEMMA ApartInvNext ==
  ASSUME EnumInv, ApartInv, TypeOK, [Next]_vars
  PROVE  ApartInv'
<1>1. CASE UNCHANGED vars
  BY <1>1 DEF vars, ApartInv, Rest, E
<1>2. count \in Nat
  BY DEF TypeOK
<1> QED
  BY <1>1, <1>2, SolveApart, GreedyApart, FallbackApart DEF Next, Over

LEMMA ApartInvInit == ASSUME Init, EnumInv PROVE ApartInv
<1>1. \A p \in memo : \E r \in component : Cover(p) = {r}
  BY DEF Init, InitLeaves, Leaf, Cover
<1>2. component \cap UNION Rest = {}
  BY ComponentsArePartition DEF EnumInv, GraphInv, Rest, E
<1> QED
  BY <1>1, <1>2 DEF Init, ApartInv

(***************************************************************************)
(* A component that the enumeration has not begun with.                    *)
(***************************************************************************)
Fresh(g, K, sd, em, m) ==
  /\ K \subseteq g.relations /\ sd = K \ Expanded(g.edges)
  /\ \A p \in m : Cover(p) \subseteq K => \E r \in sd : Cover(p) = {r}
  /\ \A S, C \in SUBSET K : ~Offered(em, S, C)

LEMMA FreshIs ==
  ASSUME NEW g \in Graphs, NEW K, NEW sd, NEW em, NEW m, Fresh(g, K, sd, em, m)
  PROVE  /\ Ordered(g, <<>>, sd)
         /\ \A p \in m : Cover(p) \subseteq K =>
              Solid(g, Cover(p)) /\ Least(Cover(p)) \notin Expanded(g.edges)
         /\ \A S, C \in SUBSET K : Good(g, S, C) /\ Least(S) \notin Expanded(g.edges) =>
              Accounted(g, <<>>, sd, em, m, S, C)
<1>1. g.relations \subseteq Nat
  BY GraphFacts
<1>2. Ordered(g, <<>>, sd)
  <2>1. 1..Len(<<>>) = {}
    OBVIOUS
  <2> QED
    BY <2>1 DEF Ordered
<1>3. ASSUME NEW p \in m, Cover(p) \subseteq K
      PROVE  Solid(g, Cover(p)) /\ Least(Cover(p)) \notin Expanded(g.edges)
  <2>1. PICK r \in sd : Cover(p) = {r}
    BY <1>3 DEF Fresh
  <2>2. r \in Nat /\ r \notin Expanded(g.edges)
    BY <1>1 DEF Fresh
  <2>3. {r} \in SUBSET Nat /\ {r} # {}
    BY <2>2
  <2>4. Least({r}) = r
    BY <2>3, LeastIs
  <2> QED
    BY <2>1, <2>2, <2>4, LoneIsSolid
<1>4. ASSUME NEW S \in SUBSET K, NEW C \in SUBSET K, Good(g, S, C),
             Least(S) \notin Expanded(g.edges)
      PROVE  Accounted(g, <<>>, sd, em, m, S, C)
  <2>1. S \in SUBSET Nat /\ S # {}
    BY <1>1, <1>4 DEF Good, PairOK
  <2>2. Least(S) \in S
    BY <2>1, LeastIs
  <2>3. Least(S) \in sd
    BY <1>4, <2>2 DEF Fresh
  <2> QED
    BY <2>3 DEF Accounted
<1> QED
  BY <1>2, <1>3, <1>4

LEMMA SearchInvInit == ASSUME Init, EnumInv PROVE SearchInv
<1>1. graph \in Graphs /\ component \subseteq graph.relations
  BY GraphTypes
<1>2. \A S, C \in SUBSET component : ~Offered(emitted, S, C)
  <2>1. emitted = <<>> /\ 1..Len(<<>>) = {}
    BY DEF Init
  <2> QED
    BY <2>1 DEF Offered
<1>3. \A p \in memo : \E r \in seeds : Cover(p) = {r}
  BY DEF Init, InitLeaves, Leaf, Cover
<1>4. Fresh(graph, component, seeds, emitted, memo)
  BY <1>1, <1>2, <1>3 DEF Init, Fresh
<1>5. stack = <<>>
  BY DEF Init
<1>6. /\ Ordered(graph, stack, seeds)
      /\ \A p \in memo : Cover(p) \subseteq component =>
           Solid(graph, Cover(p)) /\ Least(Cover(p)) \notin Expanded(graph.edges)
      /\ \A S, C \in SUBSET component : Good(graph, S, C) /\ Least(S) \notin Expanded(graph.edges)
           => Accounted(graph, stack, seeds, emitted, memo, S, C)
  BY <1>1, <1>4, <1>5, FreshIs
<1>7. OrderInv /\ SolidInv /\ CompleteInv
  BY <1>6 DEF OrderInv, SolidInv, CompleteInv, E
<1>8. BuiltInv
  BY <1>2 DEF BuiltInv
<1> QED
  BY <1>7, <1>8 DEF SearchInv

LEMMA NextSearch ==
  ASSUME EnumInv, ApartInv, phase \in {"dp", "expand"}, stack = <<>>, Return(memo, "dp"),
         NextComponent, UNCHANGED <<graph, stack, emitted>>
  PROVE  SearchInv'
<1>1. CASE Rest # {}
  <2> DEFINE K == First(Rest)
  <2>1. /\ component' = K /\ memo' = memo \cup InitLeaves(graph, K)
        /\ seeds' = K \ Expanded(E)
    BY <1>1 DEF Return, NextComponent
  <2>2. K \in Rest /\ K \in Components(E, graph.relations) /\ graph \in Graphs
    BY <1>1, NextIs DEF EnumInv, GraphInv
  <2> HIDE DEF K
  <2>3. K \subseteq graph.relations
    BY <2>2, GraphTypes
  <2>4. \A p \in memo : Cover(p) # {} /\ Cover(p) \cap UNION Rest = {}
    BY DEF ApartInv
  <2>5. \A p \in InitLeaves(graph, K) : \E r \in K \ Expanded(E) : Cover(p) = {r}
    BY DEF InitLeaves, Leaf, Cover, E
  <2>6. \A p \in memo' : Cover(p) \subseteq K => \E r \in K \ Expanded(E) : Cover(p) = {r}
    BY <2>1, <2>2, <2>4, <2>5
  <2>7. ASSUME NEW S \in SUBSET K, NEW C \in SUBSET K, Offered(emitted, S, C)
        PROVE  FALSE
    <3>1. PICK i \in 1..Len(emitted) : emitted[i] = <<S, C>>
      BY <2>7 DEF Offered
    <3>2. PairOK(graph, emitted[i][1], emitted[i][2])
      BY DEF EnumInv, EmittedInv, EmittedOK
    <3>3. emitted[i][1] = S /\ S \in SUBSET Nat /\ S # {}
      BY <2>2, <2>3, <3>1, <3>2, GraphFacts DEF PairOK
    <3>4. Least(S) \in UNION Rest
      BY <2>2, <3>3, LeastIs
    <3>5. Least(emitted[i][1]) \notin UNION Rest
      BY DEF EnumInv, SeedInv, SeededOK
    <3> QED
      BY <3>3, <3>4, <3>5
  <2>8. Fresh(graph, K, K \ Expanded(E), emitted, memo')
    BY <2>3, <2>6, <2>7 DEF Fresh, E
  <2>9. /\ Ordered(graph, <<>>, K \ Expanded(E))
        /\ \A p \in memo' : Cover(p) \subseteq K =>
             Solid(graph, Cover(p)) /\ Least(Cover(p)) \notin Expanded(E)
        /\ \A S, C \in SUBSET K : Good(graph, S, C) /\ Least(S) \notin Expanded(E) =>
             Accounted(graph, <<>>, K \ Expanded(E), emitted, memo', S, C)
    BY <2>2, <2>8, FreshIs DEF E
  <2>10. OrderInv' /\ SolidInv' /\ CompleteInv'
    BY <2>1, <2>9 DEF OrderInv, SolidInv, CompleteInv, E
  <2>11. BuiltInv'
    BY <2>1, <2>7 DEF BuiltInv
  <2> QED
    BY <2>10, <2>11 DEF SearchInv
<1>2. CASE Rest = {}
  <2>1. phase' \in {"done", "thrown"}
    BY <1>2 DEF Return
  <2> QED
    BY <2>1 DEF SearchInv, Searching
<1> QED
  BY <1>1, <1>2

LEMMA SearchInvNext ==
  ASSUME EnumInv, EnumInv', ApartInv, SearchInv, TypeOK, [Next]_vars
  PROVE  SearchInv'
<1>1. count \in Nat
  BY DEF TypeOK
<1>2. CASE ~Searching'
  BY <1>2 DEF SearchInv
<1> SUFFICES ASSUME Searching' PROVE SearchInv'
  BY <1>2
<1>3. phase' = "dp"
  BY DEF Searching
<1>4. ~FallBack
  BY <1>3 DEF FallBack
<1>5. CASE Solve
  <2>1. CASE SolveEnd
    BY <1>4, <2>1, NextSearch DEF SolveEnd
  <2>2. ~SolveGivesUp
    BY <1>3, <1>4 DEF SolveGivesUp
  <2> QED
    BY <1>1, <1>5, <2>1, <2>2, SeedSearch, EmitCsgSearch, CsgEmitSearch, CsgGrowSearch,
       CmpEmitSearch, CmpGrowSearch, LoopEndSearch DEF Solve
<1>6. CASE Greedy
  <2>1. ~GreedyMerge /\ ~GreedyExpand /\ ~ExpandUnnest
    BY <1>3, <1>4 DEF GreedyMerge, GreedyExpand, ExpandUnnest
  <2>2. ExpandEnd
    BY <1>6, <2>1 DEF Greedy
  <2>3. phase = "expand" /\ Return(memo, "dp") /\ NextComponent /\ UNCHANGED <<graph, stack, emitted>>
    BY <1>3, <1>4, <2>2 DEF ExpandEnd
  <2>4. stack = <<>>
    BY <2>3 DEF ApartInv
  <2> QED
    BY <2>3, <2>4, NextSearch
<1>7. CASE Fallback
  <2>1. phase' \in {"fallback", "written", "done", "thrown"}
    BY <1>7 DEF Fallback, FallbackJoin, FallbackEnd, Return
  <2> QED
    BY <1>3, <2>1
<1>8. CASE UNCHANGED vars
  BY <1>8, SameSteps
     DEF vars, SearchInv, Searching, Exceeded, OrderInv, SolidInv, BuiltInv, CompleteInv, E,
         Candidates, Costable
<1> QED
  BY <1>5, <1>6, <1>7, <1>8 DEF Next, Over

(***************************************************************************)
(* The end of the enumeration of a component.                              *)
(***************************************************************************)
\* Two sets make the same plans either way around, unless one of them is the
\* relation of an Unnest.
LEMMA StepsSwap ==
  ASSUME graph \in Graphs, NEW S, NEW C, S \cap C = {},
         \A i \in DOMAIN E : E[i].unnest => S # E[i].right /\ C # E[i].right
  PROVE  Steps(S, C) = Steps(C, S)
<1>1. CrossingJoins(E, S, C) = CrossingJoins(E, C, S)
  BY DEF CrossingJoins, Crossing, Splits
<1>2. CrossingFilters(E, S, C) = CrossingFilters(E, C, S)
  BY <1>1 DEF CrossingFilters, Crossing
<1>3. Specials(S, C) = Specials(C, S)
  BY <1>1 DEF Specials
<1>4. CanCross(E, S, C) = CanCross(E, C, S)
  BY <1>2 DEF CanCross
<1>5. InnerEdgesStep(S, C) = InnerEdgesStep(C, S)
  BY <1>1, <1>2 DEF InnerEdgesStep
<1>6. ASSUME NEW i \in CrossingJoins(E, S, C), NEW filters
      PROVE  ApplyEdge(i, S, C, filters) = ApplyEdge(i, C, S, filters)
  <2>1. i \in DOMAIN E /\ Splits(E[i], S, C)
    BY DEF CrossingJoins, Crossing
  <2>2. E[i].left # {} /\ E[i].right # {}
    BY <2>1, GraphFacts DEF E
  <2>3. CASE E[i].unnest
    BY <2>1, <2>3 DEF ApplyEdge
  <2>4. CASE ~E[i].unnest
    <3>1. Forward(E[i], S, C) <=> ~Forward(E[i], C, S)
      BY <2>1, <2>2 DEF Splits, Forward
    <3>2. Orientations(i, S, C, filters) = Orientations(i, C, S, filters)
      BY <3>1 DEF Orientations
    <3> QED
      BY <2>4, <3>2 DEF ApplyEdge
  <2> QED
    BY <2>3, <2>4
<1> DEFINE joins == CrossingJoins(E, S, C)
           One == \E i \in joins : IsOnly(i, joins) \/ IsOnly(i, Specials(S, C))
           edge == CHOOSE i \in joins : IsOnly(i, joins) \/ IsOnly(i, Specials(S, C))
           filters == CrossingFilters(E, S, C) \cup (joins \ {edge})
<1>7. ASSUME One PROVE SingleEdge(S, C) = SingleEdge(C, S)
  <2>1. edge \in joins
    BY <1>7
  <2>2. SingleEdge(S, C) = IF filters = {} \/ E[edge].unnest \/ KeepsBothInputs(E[edge].type)
                           THEN ApplyEdge(edge, S, C, filters) ELSE {}
    BY DEF SingleEdge
  <2>3. SingleEdge(C, S) = IF filters = {} \/ E[edge].unnest \/ KeepsBothInputs(E[edge].type)
                           THEN ApplyEdge(edge, C, S, filters) ELSE {}
    BY <1>1, <1>2, <1>3 DEF SingleEdge
  <2> HIDE DEF edge, filters
  <2>4. ApplyEdge(edge, S, C, filters) = ApplyEdge(edge, C, S, filters)
    BY <1>6, <2>1
  <2> QED
    BY <2>2, <2>3, <2>4
<1> QED
  BY <1>1, <1>3, <1>4, <1>5, <1>7 DEF Steps

\* At the end every good pair whose sets have plans was offered.
LEMMA AllOffered ==
  ASSUME EnumInv, SearchInv, Searching, stack = <<>>, seeds = {},
         NEW S, NEW C, S \subseteq component, C \subseteq component, Good(graph, S, C),
         Least(S) \notin Expanded(E), HasPlan(memo, S), HasPlan(memo, C) \/ Lone(C)
  PROVE  Candidates(memo, Steps(S, C)) \subseteq memo
<1>1. S \in SUBSET component /\ C \in SUBSET component
  OBVIOUS
<1>2. Accounted(graph, stack, seeds, emitted, memo, S, C)
  BY <1>1 DEF SearchInv, CompleteInv
<1>3. ~AheadOn(graph, stack, S, C)
  <2>1. 1..Len(<<>>) = {}
    OBVIOUS
  <2> QED
    BY <2>1 DEF AheadOn
<1>4. Offered(emitted, S, C)
  BY <1>2, <1>3 DEF Accounted
<1> QED
  BY <1>1, <1>4 DEF SearchInv, BuiltInv

LEMMA SearchIsExhaustive ==
  ASSUME EnumInv, ApartInv, SearchInv
  PROVE  Exhaustive
<1> SUFFICES ASSUME Searching, stack = <<>>, seeds = {},
                    NEW S \in {Cover(p) : p \in memo} \cap SUBSET component,
                    NEW C \in {Cover(p) : p \in memo} \cap SUBSET component,
                    S \cap C = {}, NEW p \in Candidates(memo, Steps(S, C))
             PROVE  p \in memo
  BY DEF Exhaustive, Searching
<1>1. graph \in Graphs /\ component \subseteq graph.relations /\ graph.relations \subseteq Nat
  BY GraphTypes, GraphFacts
<1>2. ASSUME NEW T \in {Cover(q) : q \in memo} \cap SUBSET component
      PROVE  /\ HasPlan(memo, T) /\ T # {} /\ T \in SUBSET Nat /\ Solid(graph, T)
             /\ Least(T) \notin Expanded(E)
             /\ Least(T) \in T /\ Least(T) \in Nat /\ \A n \in T : Least(T) <= n
             /\ \A i \in DOMAIN E : E[i].unnest => T # E[i].right
  <2>1. PICK q \in memo : T = Cover(q)
    OBVIOUS
  <2>2. T # {} /\ Solid(graph, T) /\ Least(T) \notin Expanded(E)
    BY <2>1 DEF ApartInv, SearchInv, SolidInv, Searching
  <2>3. HasPlan(memo, T)
    BY <2>1 DEF HasPlan, PlansOf
  <2>4. T \in SUBSET Nat
    BY <1>1
  <2>5. Least(T) \in T /\ Least(T) \in Nat /\ \A n \in T : Least(T) <= n
    BY <2>2, <2>4, LeastIs
  <2>6. \A i \in DOMAIN E : E[i].unnest => E[i].right \subseteq Expanded(E)
    BY DEF Expanded
  <2> QED
    BY <2>2, <2>3, <2>4, <2>5, <2>6
<1>3. PICK i \in DOMAIN graph.edges : Splits(graph.edges[i], S, C)
  BY <1>1, CandidateIs DEF Builds, E
<1>4. Least(S) # Least(C)
  BY <1>2
<1>5. CASE Least(S) < Least(C)
  <2>1. \A n \in C : Least(S) < n
    BY <1>2, <1>5
  <2>2. PairOK(graph, S, C)
    BY <1>1, <1>2, <2>1 DEF PairOK, Apart
  <2>3. Good(graph, S, C)
    BY <1>2, <1>3, <2>2 DEF Good
  <2> QED
    BY <1>2, <2>3, AllOffered
<1>6. CASE Least(C) < Least(S)
  <2>1. \A n \in S : Least(C) < n
    BY <1>2, <1>6
  <2>2. PairOK(graph, C, S)
    BY <1>1, <1>2, <2>1 DEF PairOK, Apart
  <2>3. Good(graph, C, S)
    BY <1>2, <1>3, <2>2 DEF Good, Splits
  <2>4. Candidates(memo, Steps(C, S)) \subseteq memo
    BY <1>2, <2>3, AllOffered
  <2>5. Steps(S, C) = Steps(C, S)
    BY <1>1, <1>2, StepsSwap
  <2> QED
    BY <2>4, <2>5
<1> QED
  BY <1>2, <1>4, <1>5, <1>6

\* ApartInv and SearchInv hold throughout: no plan reaches into a component that is
\* left, the stack is in the order in which the sets must be met, every set that was
\* built upon is past, and no pair is forgotten (solveComponent(), emitCsg(),
\* enumerateCsgRec(), enumerateCmpRec()).
THEOREM SearchInvariant == Spec => [](ApartInv /\ SearchInv)
<1>1. Init /\ EnumInv => ApartInv /\ SearchInv
  BY ApartInvInit, SearchInvInit
<1>2. EnumInv /\ EnumInv' /\ TypeOK /\ ApartInv /\ SearchInv /\ [Next]_vars
        => ApartInv' /\ SearchInv'
  BY ApartInvNext, SearchInvNext
<1> QED
  BY <1>1, <1>2, EnumInvariant, TypeCorrect, PTL DEF Spec

\* For every cluster, an enumeration that stays in its budget is exhaustive: no
\* operator over two disjoint covers of a component is left out for any of the
\* plans that its inputs have at the end (the order of the emitCsgCmp() calls that
\* solveComponent(), emitCsg() and the Rec functions produce).
THEOREM EnumerationIsExhaustive == Spec => []Exhaustive
<1>1. EnumInv /\ ApartInv /\ SearchInv => Exhaustive
  BY SearchIsExhaustive
<1> QED
  BY <1>1, EnumInvariant, SearchInvariant, PTL

(***************************************************************************)
(* Clusters that have an order: a family of sets of relations, with all    *)
(* components, each of them a relation or two smaller ones that an         *)
(* operator joins.  The relation of an Unnest is no set of the family: an  *)
(* Unnest expands a set that has a relation before its own.                *)
(***************************************************************************)
OrderOf(F, T) ==
  \/ \E r \in graph.relations \ Expanded(E) : T = {r}
  \/ \E L \in F, R \in SUBSET graph.relations :
       /\ T = L \cup R /\ L \cap R = {}
       /\ \E st \in Steps(L, R) : R \in F \/ (st.type = "unnest" /\ Least(L) < Least(R))
HasOrder == \E F \in SUBSET SUBSET graph.relations :
              /\ Components(E, graph.relations) \subseteq F
              /\ \A T \in F : OrderOf(F, T)

\* initLeaves() was called for the component.
LeavesInv == phase = "dp" => InitLeaves(graph, component) \subseteq memo

\* The enumeration of the component ends within its budget.
Ends == Searching /\ stack = <<>> /\ seeds = {}

LEMMA StepSides ==
  ASSUME graph \in Graphs, NEW S, NEW C, Steps(S, C) # {}
  PROVE  S # {} /\ C # {} /\ \E i \in DOMAIN E : Splits(E[i], S, C)
<1>1. CrossingJoins(E, S, C) # {}
  BY DEF Steps
<1>2. PICK i \in DOMAIN E : Splits(E[i], S, C)
  BY <1>1 DEF CrossingJoins, Crossing
<1>3. E[i].left # {} /\ E[i].right # {}
  BY GraphFacts DEF E
<1> QED
  BY <1>2, <1>3 DEF Splits, Forward

\* With statistics every step over inputs that have plans has a candidate.
LEMMA StepHasCandidate ==
  ASSUME graph \in Graphs, graph.noStats = {}, NEW S, NEW C, NEW st \in Steps(S, C),
         HasPlan(memo, S), HasPlan(memo, C) \/ st.type = "unnest"
  PROVE  \E p \in Candidates(memo, Steps(S, C)) : Cover(p) = S \cup C
<1>1. Joins(st, S, C)
  BY StepsAre
<1>2. Inputs(memo, st) # {}
  <2>1. CASE st.type = "unnest"
    <3>1. st.left = S
      BY <2>1, UnnestStep
    <3> QED
      BY <2>1, <3>1 DEF Inputs, HasPlan
  <2>2. CASE st.type # "unnest"
    <3>1. PlansOf(memo, st.left) # {} /\ PlansOf(memo, st.right) # {}
      BY <1>1, <2>2 DEF HasPlan, Joins
    <3>2. PICK p \in PlansOf(memo, st.left), q \in PlansOf(memo, st.right) : TRUE
      BY <3>1
    <3>3. <<p, q>> \in PlansOf(memo, st.left) \X PlansOf(memo, st.right)
      BY <3>2
    <3> QED
      BY <2>2, <3>3 DEF Inputs
  <2> QED
    BY <2>1, <2>2
<1>3. PICK below \in Inputs(memo, st) : TRUE
  BY <1>2
<1>4. Costable(st)
  BY DEF Costable, Meets
<1>5. Plan(st, below) \in Candidates(memo, Steps(S, C))
  BY <1>3, <1>4 DEF Candidates
<1>6. Cover(Plan(st, below)) = S \cup C
  BY <1>1 DEF Plan, Cover, Joins
<1> QED
  BY <1>5, <1>6

\* At the end two sets with plans have one together when an operator joins them,
\* and so has one with an Unnest of it.
LEMMA PairHasPlan ==
  ASSUME EnumInv, ApartInv, SearchInv, Ends, graph.noStats = {},
         NEW L, NEW R, L \subseteq component, R \subseteq component, L \cap R = {},
         NEW st \in Steps(L, R), HasPlan(memo, L),
         HasPlan(memo, R) \/ (st.type = "unnest" /\ Least(L) < Least(R))
  PROVE  HasPlan(memo, L \cup R)
<1>1. graph \in Graphs /\ component \subseteq graph.relations /\ graph.relations \subseteq Nat
  BY GraphTypes, GraphFacts
<1>2. \A T : HasPlan(memo, T) => T \in {Cover(p) : p \in memo}
  BY DEF HasPlan, PlansOf
<1>3. Candidates(memo, Steps(L, R)) \subseteq memo
  <2>1. CASE HasPlan(memo, R)
    <3>1. L \in {Cover(p) : p \in memo} \cap SUBSET component
          /\ R \in {Cover(p) : p \in memo} \cap SUBSET component
      BY <1>2, <2>1
    <3>2. Exhaustive
      BY SearchIsExhaustive
    <3> QED
      BY <3>1, <3>2 DEF Exhaustive, Ends, Searching
  <2>2. CASE st.type = "unnest" /\ Least(L) < Least(R)
    <3>1. \E i \in DOMAIN E : E[i].unnest /\ R = E[i].right
      BY <1>1, <2>2, UnnestStep
    <3>2. PICK u : R = {u}
      BY <1>1, <3>1, GraphFacts DEF E
    <3>3. L \in SUBSET Nat /\ L # {} /\ R \in SUBSET Nat /\ R # {} /\ \E i \in DOMAIN E : Splits(E[i], L, R)
      BY <1>1, StepSides
    <3>4. Least(R) = u
      BY <3>2, <3>3, LeastIs
    <3>5. PairOK(graph, L, R)
      BY <1>1, <2>2, <3>2, <3>3, <3>4 DEF PairOK, Apart
    <3>6. PICK p \in memo : Cover(p) = L
      BY DEF HasPlan, PlansOf
    <3>7. Solid(graph, L) /\ Least(L) \notin Expanded(E)
      BY <3>6 DEF SearchInv, SolidInv, Ends
    <3>8. Solid(graph, R) /\ Lone(R)
      BY <3>2, LoneIsSolid DEF Lone
    <3>9. Good(graph, L, R)
      BY <3>3, <3>5, <3>7, <3>8 DEF Good, E
    <3> QED
      BY <3>7, <3>8, <3>9, AllOffered DEF Ends
  <2> QED
    BY <2>1, <2>2
<1>4. \E p \in Candidates(memo, Steps(L, R)) : Cover(p) = L \cup R
  BY <1>1, StepHasCandidate
<1> QED
  BY <1>3, <1>4 DEF HasPlan, PlansOf

LEMMA LeafHasPlan ==
  ASSUME LeavesInv, phase = "dp", NEW r \in component, r \notin Expanded(E)
  PROVE  HasPlan(memo, {r})
<1>1. Leaf(r) \in memo
  BY DEF LeavesInv, InitLeaves, E
<1>2. Cover(Leaf(r)) = {r}
  BY DEF Cover, Leaf
<1> QED
  BY <1>1, <1>2 DEF HasPlan, PlansOf

\* A smallest set of the family without a plan would have got one.
LEMMA OrderGivesPlan ==
  ASSUME EnumInv, ApartInv, SearchInv, LeavesInv, Ends, graph.noStats = {}, HasOrder
  PROVE  HasPlan(memo, component)
<1>1. PICK F \in SUBSET SUBSET graph.relations :
        Components(E, graph.relations) \subseteq F /\ \A T \in F : OrderOf(F, T)
  BY DEF HasOrder
<1>2. component \in F /\ graph \in Graphs /\ component \subseteq graph.relations
  BY <1>1, GraphTypes DEF EnumInv, GraphInv
<1>3. \A T \in SUBSET component : IsFiniteSet(T) /\ Cardinality(T) \in Nat
  BY <1>2, GraphFacts, FS_Subset, FS_CardinalityType
<1> DEFINE Bad == {T \in F : T \subseteq component /\ ~HasPlan(memo, T)}
           Sizes == {Cardinality(T) : T \in Bad}
<1> SUFFICES ASSUME Bad # {} PROVE FALSE
  BY <1>2
<1>4. Sizes \in SUBSET Nat /\ Sizes # {}
  BY <1>3
<1>5. Least(Sizes) \in Sizes /\ \A n \in Sizes : Least(Sizes) <= n
  BY <1>4, LeastIs
<1>6. PICK T \in Bad : \A D \in Bad : Cardinality(T) <= Cardinality(D)
  BY <1>5
<1>7. ASSUME NEW D \in F, D \subseteq T, D # T PROVE HasPlan(memo, D)
  <2>1. D \in SUBSET component /\ T \in SUBSET component
    BY <1>6, <1>7
  <2>2. Cardinality(D) < Cardinality(T) /\ Cardinality(D) \in Nat /\ Cardinality(T) \in Nat
    BY <1>3, <1>7, <2>1, FS_Subset
  <2> QED
    BY <1>6, <2>1, <2>2
<1>8. OrderOf(F, T) /\ T \subseteq component /\ ~HasPlan(memo, T)
  BY <1>1, <1>6
<1>9. CASE \E r \in graph.relations \ Expanded(E) : T = {r}
  BY <1>8, <1>9, LeafHasPlan DEF Ends, Searching
<1>10. ASSUME NEW L \in F, NEW R \in SUBSET graph.relations, T = L \cup R, L \cap R = {},
              NEW st \in Steps(L, R), R \in F \/ (st.type = "unnest" /\ Least(L) < Least(R))
       PROVE  FALSE
  <2>1. L # {} /\ R # {} /\ L # T /\ R # T /\ L \subseteq T /\ R \subseteq T
    BY <1>2, <1>10, StepSides
  <2>2. HasPlan(memo, L) /\ (HasPlan(memo, R) \/ (st.type = "unnest" /\ Least(L) < Least(R)))
    BY <1>7, <1>10, <2>1
  <2> HIDE DEF Bad
  <2>3. HasPlan(memo, L \cup R)
    BY <1>8, <1>10, <2>1, <2>2, PairHasPlan
  <2> QED
    BY <1>8, <1>10, <2>3
<1> QED
  BY <1>8, <1>9, <1>10 DEF OrderOf

(***************************************************************************)
(* Clusters of inner joins that are knit together: however a component is  *)
(* cut into parts, an edge joins two of them.                              *)
(***************************************************************************)
Partition(P, K) ==
  /\ UNION P = K
  /\ \A f \in P : f # {}
  /\ \A f, g \in P : f # g => f \cap g = {}
Knit ==
  /\ AllInner
  /\ \A K \in Components(E, graph.relations) : \A P \in SUBSET SUBSET K :
       Partition(P, K) /\ P # {K} =>
         \E i \in DOMAIN E : \E f, g \in P : f # g /\ Splits(E[i], f, g)
Binary(e) == \E u, v : e.left = {u} /\ e.right = {v}

\* A cluster whose edges all are inner joins of two relations is knit together:
\* a part of a component that no edge leaves would be a component.
LEMMA CutHasEdge ==
  ASSUME graph \in Graphs, \A i \in DOMAIN E : Binary(E[i]),
         NEW K \in Components(E, graph.relations), NEW B \in SUBSET K, B # {}, B # K
  PROVE  \E i \in DOMAIN E : Splits(E[i], B, K \ B)
<1> SUFFICES ASSUME \A i \in DOMAIN E : ~Splits(E[i], B, K \ B)
             PROVE  FALSE
  OBVIOUS
<1> DEFINE R == graph.relations
           Closed == {S \in SUBSET R : \A j \in DOMAIN E :
                        Meets(Tes(E[j]), S) => Tes(E[j]) \subseteq S}
           Of(r) == {q \in R : \A S \in Closed : r \in S => q \in S}
<1>1. Components(E, R) = {Of(r) : r \in R}
  BY DEF Components
<1>2. K \subseteq R /\ \A L \in Components(E, R) : L # K => L \cap K = {}
  BY ComponentsArePartition DEF E
<1>3. ASSUME NEW j \in DOMAIN E, Meets(Tes(E[j]), B) PROVE Tes(E[j]) \subseteq B
  <2>1. PICK L \in Components(E, R) : Tes(E[j]) \subseteq L
    BY EdgeInComponent DEF E
  <2>2. L = K
    BY <1>2, <1>3, <2>1 DEF Meets
  <2>3. PICK u, v : E[j].left = {u} /\ E[j].right = {v}
    BY DEF Binary
  <2>4. u \in K /\ v \in K /\ (u \in B \/ v \in B)
    BY <1>3, <2>1, <2>2, <2>3 DEF Meets, Tes
  <2>5. ~(u \in B /\ v \in K \ B) /\ ~(v \in B /\ u \in K \ B)
    BY <2>3 DEF Splits, Forward
  <2> QED
    BY <2>3, <2>4, <2>5 DEF Tes
<1>4. B \in Closed
  BY <1>2, <1>3
<1>5. PICK r \in R : K = Of(r)
  BY <1>1
<1> HIDE DEF Closed
<1>6. CASE r \in B
  <2>1. K \subseteq B
    BY <1>4, <1>5, <1>6
  <2> QED
    BY <2>1
<1>7. CASE r \notin B
  <2>1. PICK q \in B : TRUE
    OBVIOUS
  <2>2. q \in R /\ q \in Of(q) /\ q \in K
    BY <1>2, <2>1
  <2>3. Of(q) = K
    <3>1. Of(q) \in Components(E, R)
      BY <1>1, <2>2
    <3> HIDE DEF Of
    <3> QED
      BY <1>2, <2>2, <3>1
  <2>4. r \in Of(r)
    OBVIOUS
  <2>5. Of(q) \subseteq B
    BY <1>4, <2>1
  <2> HIDE DEF Of
  <2> QED
    BY <1>5, <1>7, <2>3, <2>4, <2>5
<1> QED
  BY <1>6, <1>7

LEMMA BinaryIsKnit ==
  ASSUME graph \in Graphs, \A i \in DOMAIN E : IsPlain(E[i]) /\ Binary(E[i])
  PROVE  Knit
<1> SUFFICES ASSUME NEW K \in Components(E, graph.relations), NEW P \in SUBSET SUBSET K,
                    Partition(P, K), P # {K}
             PROVE  \E i \in DOMAIN E : \E f, g \in P : f # g /\ Splits(E[i], f, g)
  BY DEF Knit, AllInner
<1>1. K # {}
  BY ComponentsArePartition DEF E
<1>2. PICK f \in P : f # K /\ f # {} /\ f \subseteq K
  BY <1>1 DEF Partition
<1>3. PICK i \in DOMAIN E : Splits(E[i], f, K \ f)
  BY <1>2, CutHasEdge
<1>4. PICK v \in K \ f : Splits(E[i], f, {v})
  BY <1>3 DEF Binary, Splits, Forward
<1>5. PICK g \in P : v \in g
  BY <1>4 DEF Partition
<1>6. f # g /\ Splits(E[i], f, g)
  BY <1>4, <1>5 DEF Splits, Forward
<1> QED
  BY <1>2, <1>5, <1>6

\* An inner edge between two sets joins them, and no check fails.
LEMMA InnerEdgeJoins ==
  ASSUME graph \in Graphs, AllInner, NEW S, NEW C, S \cap C = {},
         NEW i \in DOMAIN E, Splits(E[i], S, C)
  PROVE  Steps(S, C) # {}
<1> DEFINE joins == CrossingJoins(E, S, C)
           edge  == CHOOSE j \in joins : IsOnly(j, joins) \/ IsOnly(j, Specials(S, C))
           filters == CrossingFilters(E, S, C) \cup (joins \ {edge})
           One == \E j \in joins : IsOnly(j, joins) \/ IsOnly(j, Specials(S, C))
<1>1. E[i].left # {} /\ E[i].right # {}
  BY GraphFacts DEF E
<1>2. i \in joins
  BY <1>1 DEF CrossingJoins, Crossing, Splits, Forward, Tes
<1>3. CanCross(E, S, C)
  BY DEF CanCross, CrossingFilters, Crossing, AllInner
<1>4. CASE One
  <2>1. edge \in joins
    BY <1>4
  <2>2. Steps(S, C) = SingleEdge(S, C)
    BY <1>2, <1>3, <1>4 DEF Steps
  <2>3. SingleEdge(S, C) = IF filters = {} \/ E[edge].unnest \/ KeepsBothInputs(E[edge].type)
                           THEN ApplyEdge(edge, S, C, filters) ELSE {}
    BY DEF SingleEdge
  <2> HIDE DEF edge, filters
  <2>4. E[edge].type = "inner" /\ ~E[edge].unnest
    BY <2>1 DEF AllInner, IsPlain, CrossingJoins, Crossing
  <2>5. SingleEdge(S, C) = Orientations(edge, S, C, filters)
    BY <2>3, <2>4 DEF KeepsBothInputs, ApplyEdge
  <2>6. Orientations(edge, S, C, filters) # {}
    BY DEF Orientations
  <2> QED
    BY <2>2, <2>5, <2>6
<1>5. CASE ~One
  <2>1. Steps(S, C) = InnerEdgesStep(S, C)
    BY <1>2, <1>3, <1>5 DEF Steps
  <2> QED
    BY <2>1 DEF InnerEdgesStep
<1> QED
  BY <1>4, <1>5

\* Parts of the component that have plans.
Parts(fs, K, m) == Partition(fs, K) /\ \A f \in fs : HasPlan(m, f)

\* Merging two of them that have a plan together.
LEMMA PartsMerge ==
  ASSUME NEW fs, NEW K, NEW m, NEW n, Parts(fs, K, m), m \subseteq n,
         NEW f \in fs, NEW g \in fs, HasPlan(n, f \cup g)
  PROVE  Parts((fs \ {f, g}) \cup {f \cup g}, K, n)
<1>1. \A h : HasPlan(m, h) => HasPlan(n, h)
  BY DEF HasPlan, PlansOf
<1> DEFINE new == (fs \ {f, g}) \cup {f \cup g}
<1>2. UNION new = K
  BY DEF Parts, Partition
<1>3. ASSUME NEW h \in new PROVE h # {} /\ HasPlan(n, h)
  <2>1. CASE h \in fs
    BY <1>1, <2>1 DEF Parts, Partition
  <2>2. CASE h = f \cup g
    BY <2>2 DEF Parts, Partition
  <2> QED
    BY <2>1, <2>2
<1>4. \A h, k \in new : h # k => h \cap k = {}
  BY DEF Parts, Partition
<1> QED
  BY <1>2, <1>3, <1>4 DEF Parts, Partition

LEMMA FewerParts ==
  ASSUME NEW fs, IsFiniteSet(fs), NEW f \in fs, NEW g \in fs, f # g
  PROVE  Cardinality((fs \ {f, g}) \cup {f \cup g}) < Cardinality(fs)
<1> DEFINE one == fs \ {f}
           two == one \ {g}
<1>1. Cardinality(fs) \in Nat
  BY FS_CardinalityType
<1>2. IsFiniteSet(one) /\ Cardinality(one) = Cardinality(fs) - 1
  BY FS_RemoveElement
<1>3. g \in one
  OBVIOUS
<1> HIDE DEF one
<1>4. IsFiniteSet(two) /\ Cardinality(two) = Cardinality(one) - 1
  BY <1>2, <1>3, FS_RemoveElement
<1>5. fs \ {f, g} = two
  BY DEF one
<1> HIDE DEF two
<1>6. Cardinality(two \cup {f \cup g}) \in {Cardinality(two), Cardinality(two) + 1}
  BY <1>4, FS_AddElement
<1>7. (fs \ {f, g}) \cup {f \cup g} = two \cup {f \cup g}
  BY <1>5
<1> DEFINE a == Cardinality(fs)
           b == Cardinality(two \cup {f \cup g})
<1>8. a \in Nat /\ b \in {a - 2, a - 1}
  BY <1>1, <1>2, <1>4, <1>6
<1> HIDE DEF a, b
<1>9. b < a
  BY <1>8
<1> QED
  BY <1>7, <1>9 DEF a, b

\* The coarsest parts of the component that all have plans are one.
LEMMA KnitGivesPlan ==
  ASSUME EnumInv, ApartInv, SearchInv, LeavesInv, Ends, graph.noStats = {}, Knit
  PROVE  HasPlan(memo, component)
<1>1. /\ graph \in Graphs /\ component \subseteq graph.relations
      /\ component \in Components(E, graph.relations) /\ component # {}
  BY GraphTypes, ComponentsArePartition DEF EnumInv, GraphInv, E
<1>2. Expanded(E) = {}
  BY DEF Knit, AllInner, IsPlain, Expanded
<1>3. ASSUME NEW P \in SUBSET SUBSET component PROVE IsFiniteSet(P) /\ Cardinality(P) \in Nat
  <2>1. IsFiniteSet(SUBSET component)
    BY <1>1, GraphFacts, FS_Subset, FS_SUBSET
  <2> QED
    BY <2>1, FS_Subset, FS_CardinalityType
<1> DEFINE Ps == {P \in SUBSET SUBSET component : Parts(P, component, memo)}
           Sizes == {Cardinality(P) : P \in Ps}
<1>4. Ps # {}
  <2> DEFINE P == {{r} : r \in component}
  <2>1. \A f \in P : HasPlan(memo, f)
    BY <1>2, LeafHasPlan DEF Ends, Searching
  <2>2. Partition(P, component)
    BY DEF Partition
  <2> QED
    BY <2>1, <2>2 DEF Parts
<1>5. Sizes \in SUBSET Nat /\ Sizes # {}
  BY <1>3, <1>4
<1>6. Least(Sizes) \in Sizes /\ \A n \in Sizes : Least(Sizes) <= n
  BY <1>5, LeastIs
<1>7. PICK P \in Ps : \A Q \in Ps : Cardinality(P) <= Cardinality(Q)
  BY <1>6
<1>8. P \in SUBSET SUBSET component /\ Parts(P, component, memo)
  BY <1>7
<1> SUFFICES ASSUME P # {component} PROVE FALSE
  BY <1>8 DEF Parts
<1>9. PICK i \in DOMAIN E, f \in P, g \in P : f # g /\ Splits(E[i], f, g)
  BY <1>1, <1>8 DEF Knit, Parts
<1>10. /\ f \subseteq component /\ g \subseteq component /\ f \cap g = {}
       /\ HasPlan(memo, f) /\ HasPlan(memo, g)
  BY <1>8, <1>9 DEF Parts, Partition
<1>11. PICK st \in Steps(f, g) : TRUE
  BY <1>1, <1>9, <1>10, InnerEdgeJoins DEF Knit
<1> HIDE DEF Ps, Sizes
<1>12. HasPlan(memo, f \cup g)
  BY <1>10, <1>11, PairHasPlan
<1> DEFINE Q == (P \ {f, g}) \cup {f \cup g}
<1>13. Parts(Q, component, memo)
  BY <1>8, <1>12, PartsMerge
<1>14. Q \in SUBSET SUBSET component
  BY <1>8, <1>10
<1>15. Cardinality(Q) < Cardinality(P)
  BY <1>3, <1>8, <1>9, FewerParts
<1> HIDE DEF Q
<1>16. Cardinality(P) <= Cardinality(Q)
  BY <1>7, <1>13, <1>14 DEF Ps
<1>17. Cardinality(P) \in Nat /\ Cardinality(Q) \in Nat
  BY <1>3, <1>8, <1>14
<1> QED
  BY <1>15, <1>16, <1>17

(***************************************************************************)
(* The plans that greedy() finds, and the clusters that get a plan.        *)
(***************************************************************************)
\* greedy() runs once the budget is exceeded, and gets as far as one fragment
\* when the cluster is knit together.
GreedyInv ==
  phase \in {"greedy", "expand"} =>
    /\ Exceeded
    /\ Knit /\ graph.noStats = {} =>
         /\ Parts(fragments, component, memo)
         /\ phase = "expand" => fragments = {component}

Plannable == Knit \/ (HasOrder /\ ~Exceeded)
FoundInv == phase \in {"fallback", "written"} /\ graph.noStats = {} => ~Plannable
PlanInv == LeavesInv /\ GreedyInv /\ FoundInv

LEMMA SameOrder ==
  ASSUME graph' = graph
  PROVE  HasOrder' = HasOrder /\ Knit' = Knit
<1>1. E' = E
  BY DEF E
<1>2. \A S, C : Steps(S, C)' = Steps(S, C)
  BY SameSteps
<1>3. \A F, T : OrderOf(F, T)' = OrderOf(F, T)
  BY <1>1, <1>2 DEF OrderOf
<1>4. HasOrder' = HasOrder
  BY <1>1, <1>3 DEF HasOrder
<1>5. Knit' = Knit
  BY <1>1 DEF Knit, AllInner
<1> QED
  BY <1>4, <1>5

\* Several fragments have an edge between two of them.
LEMMA FragmentsJoin ==
  ASSUME EnumInv, Knit, graph.noStats = {}, Parts(fragments, component, memo),
         fragments # {component}
  PROVE  Mergeable # {}
<1>1. /\ graph \in Graphs /\ component \subseteq graph.relations
      /\ component \in Components(E, graph.relations) /\ graph.relations \subseteq Nat
  BY GraphTypes, GraphFacts DEF EnumInv, GraphInv
<1>2. fragments \in SUBSET SUBSET component
  BY DEF Parts, Partition
<1>3. PICK i \in DOMAIN E, f \in fragments, g \in fragments : f # g /\ Splits(E[i], f, g)
  BY <1>1, <1>2 DEF Knit, Parts
<1>4. f # g /\ f \cap g = {} /\ g \cap f = {} /\ Splits(E[i], f, g) /\ Splits(E[i], g, f)
  BY <1>3 DEF Parts, Partition, Splits
<1>5. HasPlan(memo, f) /\ HasPlan(memo, g)
  BY <1>3 DEF Parts
<1>6. ASSUME NEW S, NEW C, S \cap C = {}, Splits(E[i], S, C), HasPlan(memo, S), HasPlan(memo, C)
      PROVE  \E p \in Candidates(memo, Steps(S, C)) : Cover(p) = S \cup C
  <2>1. PICK st \in Steps(S, C) : TRUE
    BY <1>1, <1>6, InnerEdgeJoins DEF Knit
  <2> QED
    BY <1>1, <1>6, <2>1, StepHasCandidate
<1>7. ASSUME NEW S \in fragments, NEW C \in fragments, S \cap C = {}, Splits(E[i], S, C),
             HasPlan(memo, S), HasPlan(memo, C), Least(S) < Least(C)
      PROVE  Mergeable # {}
  <2>1. <<S, C>> \in FragmentPairs
    BY <1>7 DEF FragmentPairs
  <2>2. PICK p \in Candidates(memo, Steps(S, C)) : Cover(p) = S \cup C
    BY <1>6, <1>7
  <2>3. p \in WithFragmentPairs
    BY <2>1, <2>2 DEF WithFragmentPairs
  <2>4. HasPlan(WithFragmentPairs, S \cup C)
    BY <2>2, <2>3 DEF HasPlan, PlansOf
  <2> QED
    BY <2>1, <2>4 DEF Mergeable
<1>8. f \in SUBSET Nat /\ g \in SUBSET Nat /\ f # {} /\ g # {}
  BY <1>1, <1>3 DEF Parts, Partition
<1>9. Least(f) \in f /\ Least(g) \in g
  BY <1>8, LeastIs
<1>10. Least(f) < Least(g) \/ Least(g) < Least(f)
  <2>1. Least(f) \in Nat /\ Least(g) \in Nat
    BY <1>8, <1>9
  <2>2. Least(f) # Least(g)
    BY <1>4, <1>9
  <2> QED
    BY <2>1, <2>2
<1> QED
  BY <1>3, <1>4, <1>5, <1>7, <1>10

LEMMA OneFragment ==
  ASSUME EnumInv, NEW m, Parts(fragments, component, m)
  PROVE  /\ Cardinality(fragments) = 1 => fragments = {component}
         /\ Cardinality(fragments) > 1 => fragments # {component}
<1>1. IsFiniteSet(component)
  BY GraphTypes, GraphFacts, FS_Subset
<1>2. fragments \in SUBSET SUBSET component
  BY DEF Parts, Partition
<1>3. IsFiniteSet(fragments)
  BY <1>1, <1>2, FS_SUBSET, FS_Subset
<1>4. ASSUME Cardinality(fragments) = 1 PROVE fragments = {component}
  <2>1. PICK f : fragments = {f}
    BY <1>3, <1>4, FS_Singleton
  <2> QED
    BY <2>1 DEF Parts, Partition
<1>5. ASSUME Cardinality(fragments) > 1 PROVE fragments # {component}
  <2>1. Cardinality({component}) = 1
    BY FS_Singleton
  <2> QED
    BY <1>5, <2>1
<1> QED
  BY <1>4, <1>5

\* Steps that do not fall back find nothing out about the cluster.
LEMMA FoundSame ==
  ASSUME FoundInv, UNCHANGED <<graph, count>>,
         phase' \in {"fallback", "written"} => phase \in {"fallback", "written"}
  PROVE  FoundInv'
<1>1. Exceeded' = Exceeded /\ HasOrder' = HasOrder /\ Knit' = Knit
  BY SameOrder DEF Exceeded
<1> QED
  BY <1>1 DEF FoundInv, Plannable

\* The enumeration or greedy() failed: the cluster was no plannable one.
LEMMA FallBackFound ==
  ASSUME FallBack, UNCHANGED <<graph, count>>, graph.noStats = {} => ~Plannable
  PROVE  PlanInv'
<1>1. phase' \in {"fallback", "written"}
  BY DEF FallBack
<1>2. Exceeded' = Exceeded /\ HasOrder' = HasOrder /\ Knit' = Knit
  BY SameOrder DEF Exceeded
<1> QED
  BY <1>1, <1>2 DEF PlanInv, LeavesInv, GreedyInv, FoundInv, Plannable

\* The next component has its leaves.
LEMMA ReturnFound ==
  ASSUME Return(memo, "dp"), NextComponent, UNCHANGED graph
  PROVE  PlanInv'
<1>1. phase' \in {"dp", "done", "thrown"}
  BY DEF Return
<1>2. LeavesInv'
  <2>1. CASE Rest # {}
    <3>1. component' = First(Rest) /\ memo' = memo \cup InitLeaves(graph, First(Rest))
      BY <2>1 DEF Return, NextComponent
    <3> QED
      BY <3>1 DEF LeavesInv, InitLeaves
  <2>2. CASE Rest = {}
    <3>1. phase' \in {"done", "thrown"}
      BY <2>2 DEF Return
    <3> QED
      BY <3>1 DEF LeavesInv
  <2> QED
    BY <2>1, <2>2
<1> QED
  BY <1>1, <1>2 DEF PlanInv, GreedyInv, FoundInv

\* The memo only grows.
LEMMA DpFound ==
  ASSUME PlanInv, phase = "dp", UNCHANGED <<graph, component>>,
         phase' = "thrown" \/ (phase' = "dp" /\ memo \subseteq memo')
  PROVE  PlanInv'
<1>1. LeavesInv'
  BY DEF PlanInv, LeavesInv, InitLeaves
<1> QED
  BY <1>1 DEF PlanInv, GreedyInv, FoundInv

LEMMA GivesUpFound ==
  ASSUME EnumInv, PlanInv, SolveGivesUp
  PROVE  PlanInv'
<1>1. phase = "dp" /\ Exceeded /\ UNCHANGED <<graph, count>>
  BY DEF SolveGivesUp
<1>2. Exceeded' = Exceeded /\ Knit' = Knit
  BY <1>1, SameOrder DEF Exceeded
<1>3. CASE ~(graph.noStats \cap component \subseteq Expanded(E))
  <2>1. FallBack /\ graph.noStats # {}
    BY <1>3 DEF SolveGivesUp
  <2> QED
    BY <1>1, <2>1, FallBackFound
<1>4. CASE graph.noStats \cap component \subseteq Expanded(E)
  <2>1. /\ phase' = "greedy" /\ component' = component
        /\ memo' = IF Single THEN InitLeaves(graph, component) ELSE memo
        /\ fragments' = {{r} : r \in component \ Expanded(E)}
    BY <1>4 DEF SolveGivesUp
  <2>2. ASSUME Knit PROVE Parts(fragments', component, memo')
    <3>1. Expanded(E) = {}
      BY <2>2 DEF Knit, AllInner, IsPlain, Expanded
    <3>2. fragments' = {{r} : r \in component}
      BY <2>1, <3>1
    <3>3. InitLeaves(graph, component) \subseteq memo'
      BY <1>1, <2>1 DEF PlanInv, LeavesInv
    <3>4. ASSUME NEW r \in component PROVE HasPlan(memo', {r})
      <4>1. Leaf(r) \in memo'
        BY <3>1, <3>3 DEF InitLeaves, E
      <4>2. Cover(Leaf(r)) = {r}
        BY DEF Cover, Leaf
      <4> QED
        BY <4>1, <4>2 DEF HasPlan, PlansOf
    <3>5. Partition(fragments', component)
      BY <3>2 DEF Partition
    <3> QED
      BY <3>2, <3>4, <3>5 DEF Parts
  <2>3. GreedyInv'
    BY <1>1, <1>2, <2>1, <2>2 DEF GreedyInv
  <2> QED
    BY <2>1, <2>3 DEF PlanInv, LeavesInv, FoundInv
<1> QED
  BY <1>3, <1>4

LEMMA SolveFound ==
  ASSUME EnumInv, ApartInv, SearchInv, PlanInv, count \in Nat, Solve
  PROVE  PlanInv'
<1>1. phase = "dp" /\ graph' = graph /\ graph \in Graphs
  BY DEF Solve, Seed, EmitCsg, CsgEmit, CsgGrow, CmpEmit, CmpGrow, LoopEnd, SolveEnd,
     SolveGivesUp, Running, EnumVars, EnumInv, GraphInv
<1>2. CASE UNCHANGED <<component, phase, memo>>
  BY <1>1, <1>2, DpFound
<1>3. ASSUME NEW S, NEW C, Offer(S, C), UNCHANGED component PROVE PlanInv'
  <2>1. phase' \in {"dp", "thrown"}
    BY <1>1, <1>3 DEF Offer
  <2>2. phase' = "dp" => memo \subseteq memo'
    BY <1>1, <1>3, OfferIs
  <2> QED
    BY <1>1, <1>3, <2>1, <2>2, DpFound
<1>4. CASE EmitCsg
  BY <1>3, <1>4 DEF EmitCsg, EnumVars
<1>5. CASE CmpEmit
  BY <1>2, <1>3, <1>5 DEF CmpEmit, EnumVars
<1>6. CASE SolveEnd
  <2>1. CASE Return(memo, "dp") /\ NextComponent
    BY <1>1, <2>1, ReturnFound
  <2>2. CASE FallBack /\ UNCHANGED <<seeds, count>> /\ ~HasPlan(memo, component)
    <3>1. Ends
      BY <1>6 DEF SolveEnd, Ends, Searching
    <3>2. graph.noStats = {} => ~Plannable
      BY <2>2, <3>1, OrderGivesPlan, KnitGivesPlan DEF Plannable, PlanInv
    <3> QED
      BY <1>1, <2>2, <3>2, FallBackFound
  <2> QED
    BY <1>6, <2>1, <2>2 DEF SolveEnd
<1>7. CASE SolveGivesUp
  BY <1>7, GivesUpFound
<1> QED
  BY <1>2, <1>4, <1>5, <1>6, <1>7
     DEF Solve, Seed, CsgEmit, CsgGrow, CmpGrow, LoopEnd, EnumVars

LEMMA GreedyFound ==
  ASSUME EnumInv, PlanInv, Greedy
  PROVE  PlanInv'
<1>1. phase \in {"greedy", "expand"} /\ graph' = graph
  BY DEF Greedy, GreedyMerge, GreedyExpand, ExpandUnnest, ExpandEnd, Stuck, Last, KeepsComponent
<1>2. Exceeded
  BY <1>1 DEF PlanInv, GreedyInv
<1>3. Knit' = Knit
  BY <1>1, SameOrder
<1> DEFINE Fits == Knit /\ graph.noStats = {}
<1>4. Fits => /\ Parts(fragments, component, memo)
              /\ phase = "expand" => fragments = {component}
  BY <1>1 DEF PlanInv, GreedyInv
<1>5. ASSUME FallBack, UNCHANGED count, ~Fits PROVE PlanInv'
  BY <1>1, <1>2, <1>5, FallBackFound DEF Plannable
<1>6. ASSUME UNCHANGED <<component, count>>, phase' \in {"greedy", "expand"},
             Fits => /\ Parts(fragments', component, memo')
                     /\ phase' = "expand" => fragments' = {component}
      PROVE  PlanInv'
  <2>1. Exceeded'
    BY <1>1, <1>2, <1>6 DEF Exceeded
  <2>2. GreedyInv'
    BY <1>1, <1>3, <1>6, <2>1 DEF GreedyInv
  <2> QED
    BY <1>6, <2>2 DEF PlanInv, LeavesInv, FoundInv
<1> HIDE DEF Fits
<1>7. CASE GreedyMerge
  <2>1. phase = "greedy" /\ UNCHANGED <<component, count>>
    BY <1>7 DEF GreedyMerge, KeepsComponent
  <2>2. CASE phase' = "thrown"
    BY <2>2 DEF PlanInv, LeavesInv, GreedyInv, FoundInv
  <2>3. CASE memo' = WithFragmentPairs /\ phase' = phase
             /\ \E p \in Mergeable : fragments' = (fragments \ {p[1], p[2]}) \cup {p[1] \cup p[2]}
    <3>1. PICK p \in Mergeable : fragments' = (fragments \ {p[1], p[2]}) \cup {p[1] \cup p[2]}
      BY <2>3
    <3>2. p[1] \in fragments /\ p[2] \in fragments /\ HasPlan(memo', p[1] \cup p[2])
      BY <2>3 DEF Mergeable, FragmentPairs
    <3>3. memo \subseteq memo'
      BY <2>3 DEF WithFragmentPairs
    <3>4. Fits => Parts(fragments', component, memo')
      BY <1>4, <3>1, <3>2, <3>3, PartsMerge
    <3> QED
      BY <1>6, <2>1, <2>3, <3>4
  <2> QED
    BY <1>7, <2>2, <2>3 DEF GreedyMerge
<1>8. CASE GreedyExpand
  <2>1. UNCHANGED count /\ phase = "greedy" /\ (Stuck \/ Last)
    BY <1>8 DEF GreedyExpand, Stuck, Last
  <2>2. ASSUME Fits PROVE Last /\ fragments = {component}
    <3>1. Parts(fragments, component, memo) /\ Knit /\ graph.noStats = {}
      BY <1>4, <2>2 DEF Fits
    <3>2. ~Stuck
      BY <3>1, OneFragment, FragmentsJoin DEF Stuck
    <3> QED
      BY <2>1, <3>1, <3>2, OneFragment DEF Last
  <2>3. CASE \E f \in fragments : Expects(f)
    <3>1. phase' = "expand" /\ UNCHANGED <<component, memo, fragments>>
      BY <1>8, <2>3 DEF GreedyExpand
    <3> QED
      BY <1>4, <1>6, <2>1, <2>2, <3>1
  <2>4. CASE ~\E f \in fragments : Expects(f)
    <3>1. FallBack
      BY <1>8, <2>4 DEF GreedyExpand
    <3>2. ~Fits
      BY <2>2, <2>4 DEF Expects
    <3> QED
      BY <1>5, <2>1, <3>1, <3>2
  <2> QED
    BY <2>3, <2>4
<1>9. CASE ExpandUnnest
  <2>1. PICK i \in Ready(grown) : TRUE
    BY <1>9 DEF ExpandUnnest
  <2>2. ~Fits
    BY <2>1 DEF Fits, Knit, AllInner, IsPlain, Ready
  <2>3. UNCHANGED <<component, count>> /\ phase' = phase
    BY <1>9 DEF ExpandUnnest, KeepsComponent
  <2> QED
    BY <1>1, <1>6, <2>2, <2>3
<1>10. CASE ExpandEnd
  <2>1. CASE Cardinality(fragments) > 1
    <3>1. phase' = "greedy" /\ UNCHANGED <<component, count, memo, fragments>>
      BY <1>10, <2>1 DEF ExpandEnd, KeepsComponent
    <3> QED
      BY <1>4, <1>6, <3>1
  <2>2. CASE Return(memo, "dp") /\ NextComponent
    BY <1>1, <2>2, ReturnFound
  <2>3. CASE FallBack /\ UNCHANGED count /\ ~HasPlan(memo, component)
    <3>1. phase = "expand"
      BY <1>10 DEF ExpandEnd
    <3>2. ~Fits
      BY <1>4, <2>3, <3>1 DEF Parts
    <3> QED
      BY <1>5, <2>3, <3>2
  <2> QED
    BY <1>10, <2>1, <2>2, <2>3 DEF ExpandEnd
<1> QED
  BY <1>7, <1>8, <1>9, <1>10 DEF Greedy

LEMMA PlanInvNext ==
  ASSUME EnumInv, ApartInv, SearchInv, PlanInv, TypeOK, [Next]_vars
  PROVE  PlanInv'
<1>1. count \in Nat
  BY DEF TypeOK
<1>2. CASE Fallback
  <2>1. /\ phase = "fallback" /\ phase' \in {"fallback", "written", "done", "thrown"}
        /\ UNCHANGED <<graph, count>>
    BY <1>2 DEF Fallback, FallbackJoin, FallbackEnd, Return, KeepsComponent
  <2>2. FoundInv'
    BY <2>1, FoundSame DEF PlanInv
  <2> QED
    BY <2>1, <2>2 DEF PlanInv, LeavesInv, GreedyInv
<1>3. CASE UNCHANGED vars
  <2>1. UNCHANGED <<graph, count, phase, memo, component, fragments>>
    BY <1>3 DEF vars
  <2>2. FoundInv'
    BY <2>1, FoundSame DEF PlanInv
  <2>3. LeavesInv'
    BY <2>1 DEF PlanInv, LeavesInv
  <2>4. GreedyInv'
    BY <2>1, SameOrder DEF PlanInv, GreedyInv, Exceeded
  <2> QED
    BY <2>2, <2>3, <2>4 DEF PlanInv
<1> QED
  BY <1>1, <1>2, <1>3, SolveFound, GreedyFound DEF Next, Over

LEMMA PlanInvInit == ASSUME Init PROVE PlanInv
BY DEF Init, PlanInv, LeavesInv, GreedyInv, FoundInv

\* A plannable cluster whose relations all have statistics gets a plan: from the
\* enumeration, when its components can be joined in some order and the budget lasts,
\* and from the enumeration or greedy(), whatever the budget, when it is knit together
\* by inner joins (enumerate(), greedy()).
THEOREM PlansAreFound == Spec => [](Plannable => PlanFound)
<1>1. Init => PlanInv
  BY PlanInvInit
<1>2. EnumInv /\ ApartInv /\ SearchInv /\ PlanInv /\ TypeOK /\ [Next]_vars => PlanInv'
  BY PlanInvNext
<1>3. PlanInv => (Plannable => PlanFound)
  BY DEF PlanInv, FoundInv, PlanFound
<1> QED
  BY <1>1, <1>2, <1>3, EnumInvariant, TypeCorrect, SearchInvariant, PTL DEF Spec
=============================================================================
