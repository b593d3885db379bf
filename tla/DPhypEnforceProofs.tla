------------------------- MODULE DPhypEnforceProofs -------------------------
(***************************************************************************)
(* Proofs about checkEdgesEnforced(), for every graph whose column classes *)
(* are spelled out by its edges: whatever plan is chosen, the edges that   *)
(* canonicalKeyEdges() left out follow from those that were applied.       *)
(***************************************************************************)
EXTENDS DPhypMemoProofs

(***************************************************************************)
(* What the edges es of a graph say.                                       *)
(***************************************************************************)
KeysOf(es, i, K) == {k \in es[i].keys : k.class = K}
InClass(es, s, K) == /\ K # {}
                     /\ \E i \in DOMAIN es : \E k \in KeysOf(es, i, K) : s \in {k.l, k.r}

\* A key with a class is that of an inner edge between the two relations of its
\* columns, which lie in the class (addInner(), addTransitiveInnerEdges()).
ClassesAreSimple(es) ==
  \A i \in DOMAIN es : \A k \in es[i].keys : k.class # {} =>
    /\ IsPlain(es[i]) /\ k.l \subseteq k.class /\ k.r \subseteq k.class
    /\ \E a, b : /\ es[i].left = {a} /\ es[i].right = {b}
                 /\ RelationsOf(k.l) = {a} /\ RelationsOf(k.r) = {b}

\* Any two relations with columns of one class have an edge with a key of that
\* class between them (addTransitiveInnerEdges()).
ClassesAreComplete(es) ==
  \A K, s, t : InClass(es, s, K) /\ InClass(es, t, K) /\ RelationsOf(s) # RelationsOf(t)
    => \E i \in DOMAIN es : /\ KeysOf(es, i, K) # {}
                            /\ Tes(es[i]) = RelationsOf(s) \cup RelationsOf(t)

\* The graphs of the theorems.  greedy() expands an Unnest without the other
\* edges it makes applicable, so a budget excludes Unnests.
SpelledOut(g) == /\ ClassesAreSimple(g.edges) /\ ClassesAreComplete(g.edges)
                 /\ g.cap = 0 \/ Expanded(g.edges) = {}

(***************************************************************************)
(* What a set A of applied edges enforces: U is any set of key sides that  *)
(* is closed under the equalities of A and under those within a relation.  *)
(***************************************************************************)
SidesOf(es) == UNION {UNION {{k.l, k.r} : k \in es[i].keys} : i \in DOMAIN es}
IsClosed(es, U, A) ==
  /\ U \subseteq SidesOf(es)
  /\ \A i \in A : IsPlain(es[i]) => \A k \in es[i].keys : k.l \in U <=> k.r \in U
  /\ \A K, s, t : InClass(es, s, K) /\ InClass(es, t, K) /\ RelationsOf(s) = RelationsOf(t)
                    => (s \in U <=> t \in U)

\* Within a set S of relations, the columns of each class are equal, and every
\* edge is enforced.
Linked(es, A, S) ==
  \A U, K, s, t :
    IsClosed(es, U, A) /\ InClass(es, s, K) /\ InClass(es, t, K)
      /\ RelationsOf(s) \subseteq S /\ RelationsOf(t) \subseteq S
    => (s \in U <=> t \in U)
Enforced(es, A, S) ==
  \A i \in DOMAIN es : Tes(es[i]) \subseteq S =>
    IF IsPlain(es[i])
    THEN \A U : IsClosed(es, U, A) => \A k \in es[i].keys : k.l \in U <=> k.r \in U
    ELSE i \in A
Enforces(es, A, S) == Linked(es, A, S) /\ Enforced(es, A, S)

\* More edges enforce more.
LEMMA MoreEnforce ==
  ASSUME NEW es, NEW A, NEW B, A \subseteq B, NEW S
  PROVE  /\ \A U : IsClosed(es, U, B) => IsClosed(es, U, A)
         /\ Enforced(es, A, S) => Enforced(es, B, S)
         /\ Linked(es, A, S) => Linked(es, B, S)
<1>1. \A U : IsClosed(es, U, B) => IsClosed(es, U, A)
  BY DEF IsClosed
<1>2. ASSUME Enforced(es, A, S), NEW i \in DOMAIN es, Tes(es[i]) \subseteq S
      PROVE  IF IsPlain(es[i])
             THEN \A U : IsClosed(es, U, B) => \A k \in es[i].keys : k.l \in U <=> k.r \in U
             ELSE i \in B
  <2>1. IF IsPlain(es[i])
        THEN \A U : IsClosed(es, U, A) => \A k \in es[i].keys : k.l \in U <=> k.r \in U
        ELSE i \in A
    BY <1>2 DEF Enforced
  <2> QED
    BY <1>1, <2>1, Zenon
<1>3. Enforced(es, A, S) => Enforced(es, B, S)
  BY <1>2, Zenon DEF Enforced
<1>4. Linked(es, A, S) => Linked(es, B, S)
  <2> SUFFICES ASSUME Linked(es, A, S), NEW U, NEW K, NEW s, NEW t, IsClosed(es, U, B),
                      InClass(es, s, K), InClass(es, t, K),
                      RelationsOf(s) \subseteq S, RelationsOf(t) \subseteq S
               PROVE  s \in U <=> t \in U
    BY DEF Linked
  <2> QED
    BY <1>1 DEF Linked
<1> QED
  BY <1>1, <1>3, <1>4

\* What a classed key and its edge look like.
LEMMA ClassedKey ==
  ASSUME NEW es, ClassesAreSimple(es), NEW i \in DOMAIN es, NEW K, K # {},
         NEW k \in KeysOf(es, i, K)
  PROVE  /\ InClass(es, k.l, K) /\ InClass(es, k.r, K) /\ IsPlain(es[i])
         /\ RelationsOf(k.l) = es[i].left /\ RelationsOf(k.r) = es[i].right
         /\ Tes(es[i]) = RelationsOf(k.l) \cup RelationsOf(k.r)
<1>1. k \in es[i].keys /\ k.class = K
  BY DEF KeysOf
<1>2. InClass(es, k.l, K) /\ InClass(es, k.r, K)
  BY DEF InClass
<1>3. /\ IsPlain(es[i])
      /\ \E a, b : /\ es[i].left = {a} /\ es[i].right = {b}
                   /\ RelationsOf(k.l) = {a} /\ RelationsOf(k.r) = {b}
  BY <1>1 DEF ClassesAreSimple
<1> QED
  BY <1>2, <1>3 DEF Tes

LEMMA InClassIs ==
  ASSUME NEW es, ClassesAreSimple(es), NEW s, NEW K, InClass(es, s, K)
  PROVE  \E a : RelationsOf(s) = {a}
<1>1. PICK i \in DOMAIN es : \E k \in KeysOf(es, i, K) : s \in {k.l, k.r}
  BY DEF InClass
<1>2. PICK k \in KeysOf(es, i, K) : s \in {k.l, k.r}
  BY <1>1
<1>3. K # {}
  BY DEF InClass
<1>4. k \in es[i].keys /\ k.class # {}
  BY <1>2, <1>3 DEF KeysOf
<1>5. PICK a, b : /\ es[i].left = {a} /\ es[i].right = {b}
                  /\ RelationsOf(k.l) = {a} /\ RelationsOf(k.r) = {b}
  BY <1>4, Zenon DEF ClassesAreSimple
<1> QED
  BY <1>2, <1>5

\* One relation enforces itself.
LEMMA LeafEnforces ==
  ASSUME NEW g \in Graphs, ClassesAreSimple(g.edges), NEW r, NEW A
  PROVE  Enforces(g.edges, A, {r})
<1> DEFINE es == g.edges
<1>1. ASSUME NEW s, NEW K, InClass(es, s, K) PROVE \E a : RelationsOf(s) = {a}
  BY <1>1, InClassIs
<1>2. Linked(es, A, {r})
  <2> SUFFICES ASSUME NEW U, NEW K, NEW s, NEW t, IsClosed(es, U, A),
                      InClass(es, s, K), InClass(es, t, K),
                      RelationsOf(s) \subseteq {r}, RelationsOf(t) \subseteq {r}
               PROVE  s \in U <=> t \in U
    BY DEF Linked
  <2>1. PICK a : RelationsOf(s) = {a}
    BY <1>1
  <2>2. PICK b : RelationsOf(t) = {b}
    BY <1>1
  <2>3. RelationsOf(s) = RelationsOf(t)
    BY <2>1, <2>2
  <2> QED
    BY <2>3 DEF IsClosed
<1>3. Enforced(es, A, {r})
  <2> SUFFICES ASSUME NEW i \in DOMAIN es, Tes(es[i]) \subseteq {r} PROVE FALSE
    BY DEF Enforced
  <2>1. es[i].left # {} /\ es[i].right # {} /\ es[i].left \cap es[i].right = {}
    BY GraphFacts
  <2> QED
    BY <2>1 DEF Tes
<1> QED
  BY <1>2, <1>3 DEF Enforces

(***************************************************************************)
(* Joins.                                                                  *)
(***************************************************************************)
\* Of the edges that cross from S to C, A has all but those whose keys lie in
\* classes, and it has one for each of these classes.
Represented(es, A, S, C) ==
  /\ CrossingFilters(es, S, C) \subseteq A
  /\ \A i \in CrossingJoins(es, S, C) \ A :
       es[i].keys # {} /\ \A k \in es[i].keys : k.class # {}
  /\ \A i \in CrossingJoins(es, S, C) : \A K : K # {} /\ KeysOf(es, i, K) # {} =>
       \E j \in CrossingJoins(es, S, C) \cap A : KeysOf(es, j, K) # {}

\* Two covers that enforce their edges and a join that represents the edges
\* between them enforce the edges of both together.
LEMMA JoinLinks ==
  ASSUME NEW es, ClassesAreSimple(es), ClassesAreComplete(es), NEW S, NEW C, NEW A,
         Linked(es, A, S), Linked(es, A, C), Represented(es, A, S, C)
  PROVE  Linked(es, A, S \cup C)
<1> SUFFICES ASSUME NEW U, NEW K, NEW s, NEW t, IsClosed(es, U, A),
                    InClass(es, s, K), InClass(es, t, K),
                    RelationsOf(s) \subseteq S \cup C, RelationsOf(t) \subseteq S \cup C
             PROVE  s \in U <=> t \in U
  BY DEF Linked
<1>1. ASSUME NEW u, InClass(es, u, K) PROVE \E a : RelationsOf(u) = {a}
  BY <1>1, InClassIs
<1>2. ASSUME NEW u, NEW v, InClass(es, u, K), InClass(es, v, K),
             RelationsOf(u) \subseteq S, RelationsOf(v) \subseteq C
      PROVE  u \in U <=> v \in U
  <2>1. CASE RelationsOf(v) \subseteq S \/ RelationsOf(u) \subseteq C
    BY <1>2, <2>1 DEF Linked
  <2>2. CASE ~(RelationsOf(v) \subseteq S) /\ ~(RelationsOf(u) \subseteq C)
    <3>1. K # {} /\ RelationsOf(u) # RelationsOf(v)
      BY <1>2, <2>2 DEF InClass
    <3>2. PICK i \in DOMAIN es : /\ KeysOf(es, i, K) # {}
                                 /\ Tes(es[i]) = RelationsOf(u) \cup RelationsOf(v)
      BY <1>2, <3>1 DEF ClassesAreComplete
    <3>3. i \in CrossingJoins(es, S, C)
      <4>1. PICK k \in KeysOf(es, i, K) : TRUE
        BY <3>2
      <4>2. PICK a, b : es[i].left = {a} /\ es[i].right = {b}
        <5>1. k \in es[i].keys /\ k.class # {}
          BY <3>1 DEF KeysOf
        <5> QED
          BY <5>1, ZenonT(90) DEF ClassesAreSimple
      <4>3. PICK c, d : RelationsOf(u) = {c} /\ RelationsOf(v) = {d}
        BY <1>1, <1>2
      <4>4. {a, b} = {c, d} /\ c \in S /\ d \in C /\ c \notin C /\ d \notin S
        BY <1>2, <2>2, <3>2, <4>2, <4>3 DEF Tes
      <4>5. i \in Crossing(es, S, C)
        BY <3>2, <4>3, <4>4 DEF Crossing
      <4>6. Splits(es[i], S, C)
        BY <4>2, <4>4, <3>1, <4>3 DEF Splits, Forward
      <4> QED
        BY <4>5, <4>6 DEF CrossingJoins
    <3>4. PICK j \in CrossingJoins(es, S, C) \cap A : KeysOf(es, j, K) # {}
      BY <3>1, <3>2, <3>3 DEF Represented
    <3>5. PICK k \in KeysOf(es, j, K) : TRUE
      BY <3>4
    <3>6. j \in DOMAIN es /\ Splits(es[j], S, C)
      BY DEF CrossingJoins, Crossing
    <3>7. /\ InClass(es, k.l, K) /\ InClass(es, k.r, K) /\ IsPlain(es[j])
          /\ RelationsOf(k.l) = es[j].left /\ RelationsOf(k.r) = es[j].right
      BY <3>1, <3>6, ClassedKey
    <3>8. k.l \in U <=> k.r \in U
      BY <3>7 DEF IsClosed, KeysOf
    <3>9. CASE Forward(es[j], S, C)
      <4>1. (u \in U <=> k.l \in U) /\ (v \in U <=> k.r \in U)
        BY <1>2, <3>7, <3>9 DEF Linked, Forward
      <4> QED
        BY <3>8, <4>1
    <3>10. CASE Forward(es[j], C, S)
      <4>1. (u \in U <=> k.r \in U) /\ (v \in U <=> k.l \in U)
        BY <1>2, <3>7, <3>10 DEF Linked, Forward
      <4> QED
        BY <3>8, <4>1
    <3> QED
      BY <3>6, <3>9, <3>10 DEF Splits
  <2> QED
    BY <2>1, <2>2
<1>3. /\ RelationsOf(s) \subseteq S \/ RelationsOf(s) \subseteq C
      /\ RelationsOf(t) \subseteq S \/ RelationsOf(t) \subseteq C
  <2>1. PICK a, b : RelationsOf(s) = {a} /\ RelationsOf(t) = {b}
    BY <1>1
  <2> QED
    BY <2>1
<1>4. CASE RelationsOf(s) \subseteq S /\ RelationsOf(t) \subseteq S
  BY <1>4 DEF Linked
<1>5. CASE RelationsOf(s) \subseteq C /\ RelationsOf(t) \subseteq C
  BY <1>5 DEF Linked
<1> QED
  BY <1>2, <1>3, <1>4, <1>5

LEMMA JoinEnforces ==
  ASSUME NEW es, ClassesAreSimple(es), ClassesAreComplete(es), NEW S, NEW C, NEW A, NEW B,
         NEW D, Enforces(es, A, S), Enforces(es, B, C), A \subseteq D, B \subseteq D,
         Represented(es, D, S, C)
  PROVE  Enforces(es, D, S \cup C)
<1>1. /\ Linked(es, D, S) /\ Enforced(es, D, S) /\ Linked(es, D, C) /\ Enforced(es, D, C)
  BY MoreEnforce DEF Enforces
<1>2. Linked(es, D, S \cup C)
  BY <1>1, JoinLinks
<1>3. ASSUME NEW i \in DOMAIN es, Tes(es[i]) \subseteq S \cup C, i \notin D,
             ~(Tes(es[i]) \subseteq S), ~(Tes(es[i]) \subseteq C)
      PROVE  IsPlain(es[i]) /\ \A U : IsClosed(es, U, D)
                                       => \A k \in es[i].keys : k.l \in U <=> k.r \in U
  <2>1. i \in CrossingJoins(es, S, C) \ D
    BY <1>3 DEF Represented, CrossingFilters, Crossing
  <2>2. es[i].keys # {} /\ \A k \in es[i].keys : k.class # {} /\ k \in KeysOf(es, i, k.class)
    BY <2>1 DEF Represented, KeysOf
  <2>3. ASSUME NEW k \in es[i].keys
        PROVE  /\ InClass(es, k.l, k.class) /\ InClass(es, k.r, k.class) /\ IsPlain(es[i])
               /\ RelationsOf(k.l) \subseteq S \cup C /\ RelationsOf(k.r) \subseteq S \cup C
    <3>1. /\ InClass(es, k.l, k.class) /\ InClass(es, k.r, k.class) /\ IsPlain(es[i])
          /\ Tes(es[i]) = RelationsOf(k.l) \cup RelationsOf(k.r)
      BY <2>2, ClassedKey
    <3> QED
      BY <1>3, <3>1
  <2> QED
    BY <1>2, <2>2, <2>3 DEF Linked
<1>4. \A i \in D : IsPlain(es[i]) => \A U : IsClosed(es, U, D)
                                       => \A k \in es[i].keys : k.l \in U <=> k.r \in U
  BY DEF IsClosed
<1>5. Enforced(es, D, S \cup C)
  <2> SUFFICES ASSUME NEW i \in DOMAIN es, Tes(es[i]) \subseteq S \cup C
               PROVE  IF IsPlain(es[i])
                      THEN \A U : IsClosed(es, U, D)
                                    => \A k \in es[i].keys : k.l \in U <=> k.r \in U
                      ELSE i \in D
    BY DEF Enforced
  <2>1. CASE Tes(es[i]) \subseteq S \/ Tes(es[i]) \subseteq C
    BY <1>1, <2>1 DEF Enforced
  <2>2. CASE i \in D
    BY <1>4, <2>2
  <2> QED
    BY <1>3, <2>1, <2>2
<1> QED
  BY <1>2, <1>5 DEF Enforces

\* canonicalKeyEdges() represents the edges it is given: the first of them with
\* a key of a class is not redundant.
LEMMA CanonicalRepresents ==
  ASSUME NEW g \in Graphs, NEW S, NEW C, NEW A,
         CanonicalKeyEdges(g.edges, CrossingJoins(g.edges, S, C)) \subseteq A,
         CrossingFilters(g.edges, S, C) \subseteq A
  PROVE  Represented(g.edges, A, S, C)
<1> DEFINE es == g.edges
           I == CrossingJoins(g.edges, S, C)
           Seen(i) == {k.class : k \in UNION {es[j].keys : j \in {j \in I : j < i}}}
           Redundant(i) == /\ es[i].keys # {}
                           /\ \A k \in es[i].keys : k.class # {} /\ k.class \in Seen(i)
<1>1. CanonicalKeyEdges(es, I) = {i \in I : ~Redundant(i)}
  BY DEF CanonicalKeyEdges
<1>2. I \subseteq Nat
  <2>1. DOMAIN g.edges \subseteq Nat
    <3>1. PICK T : g.edges \in Seq(T)
      BY GraphsAssumption, Zenon
    <3> QED
      BY <3>1
  <2> QED
    BY <2>1 DEF CrossingJoins, Crossing
<1> HIDE DEF I, es
<1>3. \A i \in I \ A : Redundant(i)
  BY <1>1 DEF I, es
<1>4. ASSUME NEW i \in I, NEW K, K # {}, KeysOf(es, i, K) # {}
      PROVE  \E j \in I \cap A : KeysOf(es, j, K) # {}
  <2> DEFINE J == {j \in I : KeysOf(es, j, K) # {}}
             m == Least(J)
  <2>1. J \in SUBSET Nat /\ J # {}
    BY <1>2, <1>4
  <2>2. m \in J /\ \A j \in J : m <= j
    BY <2>1, LeastIs
  <2> HIDE DEF m
  <2>3. m \in I /\ m \in Nat
    BY <1>2, <2>2
  <2>4. PICK k \in es[m].keys : k.class = K
    BY <2>2 DEF KeysOf
  <2>5. K \notin Seen(m)
    <3> SUFFICES ASSUME NEW j \in I, j < m, NEW h \in es[j].keys, h.class = K PROVE FALSE
      OBVIOUS
    <3>1. j \in J /\ j \in Nat
      BY <1>2 DEF KeysOf
    <3>2. m <= j
      BY <2>2, <3>1
    <3> QED
      BY <2>3, <3>1, <3>2
  <2> HIDE DEF Seen
  <2>6. m \in A
    BY <1>3, <2>3, <2>4, <2>5
  <2> QED
    BY <2>2, <2>6
<1> QED
  BY <1>3, <1>4 DEF Represented, I, es

\* Whatever emitCsgCmp() offers represents the edges between the two covers.
LEMMA StepsRepresent ==
  ASSUME graph \in Graphs, NEW S, NEW C, NEW st \in Steps(S, C), NEW A,
         st.keys \cup st.filters \subseteq A
  PROVE  /\ Represented(E, A, S, C)
         /\ st.type = "unnest" => \E r : st.right = {r}
<1> DEFINE joins == CrossingJoins(E, S, C)
           One == \E i \in joins : IsOnly(i, joins) \/ IsOnly(i, Specials(S, C))
<1>1. CASE Steps(S, C) = SingleEdge(S, C) /\ One
  <2> DEFINE edge  == CHOOSE i \in joins : IsOnly(i, joins) \/ IsOnly(i, Specials(S, C))
             filters == CrossingFilters(E, S, C) \cup (joins \ {edge})
  <2>1. edge \in joins
    BY <1>1
  <2>2. SingleEdge(S, C) = ApplyEdge(edge, S, C, filters) \/ SingleEdge(S, C) = {}
    BY DEF SingleEdge
  <2> HIDE DEF edge
  <2>3. filters \in SUBSET DOMAIN E
    BY CrossingIs
  <2> HIDE DEF filters
  <2>4. st \in ApplyEdge(edge, S, C, filters)
    BY <1>1, <2>2
  <2>5. /\ st.keys = {edge} /\ st.filters = filters
        /\ st.type = "unnest" => st.right = E[edge].right /\ E[edge].unnest
    BY <2>1, <2>3, <2>4, ApplyEdgeIs
  <2>6. CrossingFilters(E, S, C) \cup joins \subseteq A
    BY <2>5 DEF filters
  <2>7. edge \in DOMAIN E
    BY <2>1, CrossingIs
  <2>8. E[edge].unnest => \E r : E[edge].right = {r}
    BY <2>7, GraphFacts DEF E
  <2> QED
    BY <2>5, <2>6, <2>8 DEF Represented
<1>2. CASE Steps(S, C) = InnerEdgesStep(S, C)
  <2> DEFINE keys == CanonicalKeyEdges(E, joins)
             filters == CrossingFilters(E, S, C)
             s1 == Step(S, C, "inner", keys, filters)
             s2 == Step(C, S, "inner", keys, filters)
  <2>1. st \in {s1, s2}
    BY <1>2 DEF InnerEdgesStep
  <2>2. st.keys = keys /\ st.filters = filters /\ st.type # "unnest"
    <3> HIDE DEF keys, filters
    <3> QED
      BY <2>1, StepIs
  <2>3. keys \subseteq A /\ filters \subseteq A
    BY <2>2
  <2> QED
    BY <2>2, <2>3, CanonicalRepresents DEF E
<1> QED
  BY <1>1, <1>2 DEF Steps

\* A plan enforces the edges within its cover.
PlanEnforces(p) == Enforces(E, p.applied, Cover(p))

LEMMA StepEnforces ==
  ASSUME graph \in Graphs, SpelledOut(graph), NEW m, \A q \in m : PlanEnforces(q),
         NEW st, NEW below \in Inputs(m, st), NEW S, NEW C,
         (st.left = S /\ st.right = C) \/ (st.left = C /\ st.right = S),
         \A A : st.keys \cup st.filters \subseteq A => Represented(E, A, S, C),
         st.type = "unnest" => \E r : st.right = {r}
  PROVE  PlanEnforces(Plan(st, below))
<1> DEFINE p == Plan(st, below)
           D == st.keys \cup st.filters \cup below
<1>1. p.applied = D /\ Cover(p) = S \cup C
  BY DEF Plan, Cover
<1>2. ClassesAreSimple(E) /\ ClassesAreComplete(E)
  BY DEF SpelledOut, E
<1>3. Represented(E, D, S, C)
  OBVIOUS
<1>4. PICK q \in m : /\ Cover(q) = st.left /\ q.applied \subseteq below
                     /\ st.type # "unnest" =>
                          \E r \in m : Cover(r) = st.right /\ r.applied \subseteq below
  BY DEF Inputs, PlansOf
<1>5. Enforces(E, q.applied, st.left)
  BY <1>4 DEF PlanEnforces
<1>6. PICK B : B \subseteq below /\ Enforces(E, B, st.right)
  <2>1. CASE st.type = "unnest"
    <3>1. PICK r : st.right = {r}
      BY <2>1
    <3>2. Enforces(E, {}, {r})
      BY <1>2, LeafEnforces DEF E
    <3> QED
      BY <3>1, <3>2
  <2>2. CASE st.type # "unnest"
    BY <1>4, <2>2 DEF PlanEnforces
  <2> QED
    BY <2>1, <2>2
<1> HIDE DEF D, p
<1>7. q.applied \subseteq D /\ B \subseteq D
  BY <1>4, <1>6 DEF D
<1>8. Enforces(E, D, S \cup C)
  <2>1. CASE st.left = S /\ st.right = C
    BY <1>2, <1>3, <1>5, <1>6, <1>7, <2>1, JoinEnforces
  <2>2. CASE st.left = C /\ st.right = S
    BY <1>2, <1>3, <1>5, <1>6, <1>7, <2>2, JoinEnforces
  <2> QED
    BY <2>1, <2>2
<1> QED
  BY <1>1, <1>8 DEF PlanEnforces, p

LEMMA CandidatesEnforce ==
  ASSUME graph \in Graphs, SpelledOut(graph), NEW m, \A q \in m : PlanEnforces(q),
         NEW S, NEW C, NEW steps, steps \subseteq Steps(S, C)
  PROVE  \A p \in Candidates(m, steps) : PlanEnforces(p)
<1> SUFFICES ASSUME NEW p \in Candidates(m, steps) PROVE PlanEnforces(p)
  OBVIOUS
<1>1. PICK st \in steps : \E below \in Inputs(m, st) : p = Plan(st, below)
  BY DEF Candidates
<1>2. PICK below \in Inputs(m, st) : p = Plan(st, below)
  BY <1>1
<1>3. (st.left = S /\ st.right = C) \/ (st.left = C /\ st.right = S)
  BY StepsAre DEF Joins
<1>4. st \in Steps(S, C)
  OBVIOUS
<1>5. \A A : st.keys \cup st.filters \subseteq A => Represented(E, A, S, C)
  BY <1>4, StepsRepresent
<1>6. st.type = "unnest" => \E r : st.right = {r}
  <2>1. st.keys \cup st.filters \subseteq st.keys \cup st.filters
    OBVIOUS
  <2> QED
    BY <1>4, <2>1, StepsRepresent
<1> QED
  BY <1>2, <1>3, <1>5, <1>6, StepEnforces

LEMMA LeavesEnforce ==
  ASSUME graph \in Graphs, SpelledOut(graph), NEW r PROVE PlanEnforces(Leaf(r))
<1>1. Cover(Leaf(r)) = {r}
  BY DEF Cover, Leaf
<1> QED
  BY <1>1, LeafEnforces DEF PlanEnforces, SpelledOut, E

(***************************************************************************)
(* checkEdgesEnforced().                                                   *)
(***************************************************************************)
\* What it computes is what Enforced says of all relations.
LEMMA CheckPasses ==
  ASSUME NEW g \in Graphs, ClassesAreSimple(g.edges), NEW A, NEW rels,
         \A i \in DOMAIN g.edges : \E K : Tes(g.edges[i]) \subseteq K /\ Enforced(g.edges, A, K)
  PROVE  EdgesEnforced(g.edges, rels, A)
<1> DEFINE es == g.edges
           given == {{k.l, k.r} : k \in UNION {es[i].keys :
                       i \in {i \in A : ProvesKeyEquality(es[i])}}}
           sides == UNION {UNION {{k.l, k.r} : k \in es[i].keys} : i \in DOMAIN es}
           classes == UNION {{k.class : k \in es[i].keys} : i \in DOMAIN es} \ {{}}
           within == {{st[1], st[2]} : st \in {st \in sides \X sides :
                        \E K \in classes : /\ st[1] \subseteq K /\ st[2] \subseteq K
                                           /\ RelationsOf(st[1]) = RelationsOf(st[2])}}
           closed == {S \in SUBSET sides : \A h \in given \cup within :
                                             Meets(h, S) => h \subseteq S}
<1>1. ASSUME NEW U \in closed PROVE IsClosed(es, U, A)
  <2>1. \A h \in given \cup within : Meets(h, U) => h \subseteq U
    OBVIOUS
  <2>2. \A s, t : {s, t} \in given \cup within => (s \in U <=> t \in U)
    <3> HIDE DEF given, within
    <3> QED
      BY <2>1 DEF Meets
  <2>3. U \subseteq SidesOf(es)
    BY DEF SidesOf
  <2>4. \A i \in A : IsPlain(es[i]) => \A k \in es[i].keys : k.l \in U <=> k.r \in U
    <3> SUFFICES ASSUME NEW i \in A, IsPlain(es[i]), NEW k \in es[i].keys
                 PROVE  k.l \in U <=> k.r \in U
      OBVIOUS
    <3>1. {k.l, k.r} \in given
      BY DEF ProvesKeyEquality
    <3> HIDE DEF given, within
    <3> QED
      BY <2>2, <3>1
  <2>5. ASSUME NEW K, NEW s, NEW t, InClass(es, s, K), InClass(es, t, K),
               RelationsOf(s) = RelationsOf(t)
        PROVE  s \in U <=> t \in U
    <3>1. ASSUME NEW u, InClass(es, u, K) PROVE u \in sides /\ u \subseteq K /\ K \in classes
      <4>1. PICK i \in DOMAIN es : \E k \in KeysOf(es, i, K) : u \in {k.l, k.r}
        BY <3>1 DEF InClass
      <4>2. PICK k \in es[i].keys : k.class = K /\ u \in {k.l, k.r}
        BY <4>1 DEF KeysOf
      <4>3. K # {}
        BY <3>1 DEF InClass
      <4>4. k.l \subseteq K /\ k.r \subseteq K
        BY <4>2, <4>3 DEF ClassesAreSimple
      <4>5. u \in sides /\ u \subseteq K
        BY <4>2, <4>4
      <4>6. K \in {h.class : h \in es[i].keys}
        BY <4>2
      <4>7. K \in UNION {{h.class : h \in es[j].keys} : j \in DOMAIN es}
        BY <4>6
      <4> QED
        BY <4>3, <4>5, <4>7
    <3>2. s \in sides /\ t \in sides /\ s \subseteq K /\ t \subseteq K /\ K \in classes
      BY <2>5, <3>1
    <3> HIDE DEF sides, classes
    <3>3. <<s, t>> \in sides \X sides /\ <<s, t>>[1] = s /\ <<s, t>>[2] = t
      BY <3>2
    <3>4. {s, t} \in within
      BY <2>5, <3>2, <3>3
    <3> HIDE DEF given, within
    <3> QED
      BY <2>2, <3>4
  <2> QED
    BY <2>3, <2>4, <2>5 DEF IsClosed
<1> HIDE DEF closed
<1>2. ASSUME NEW i \in DOMAIN es
      PROVE  IF ProvesKeyEquality(es[i])
             THEN \A k \in es[i].keys, S \in closed : k.l \in S <=> k.r \in S
             ELSE i \in A
  <2>1. PICK K : Tes(es[i]) \subseteq K /\ Enforced(es, A, K)
    OBVIOUS
  <2>2. IF IsPlain(es[i])
        THEN \A U : IsClosed(es, U, A) => \A k \in es[i].keys : k.l \in U <=> k.r \in U
        ELSE i \in A
    BY <2>1 DEF Enforced
  <2> QED
    BY <1>1, <2>2 DEF ProvesKeyEquality
<1> QED
  BY <1>2 DEF EdgesEnforced, closed

(***************************************************************************)
(* The invariant: every plan enforces the edges within its cover, and the  *)
(* roots of the components that are solved enforce theirs.                 *)
(***************************************************************************)
Ordering == phase \in {"dp", "greedy", "expand", "fallback"}
EnforceInv == /\ \A p \in memo : PlanEnforces(p)
              /\ Ordering => \A K \in solved : Enforced(E, applied, K)

\* The root of a component joins those of the components before it, and the last
\* one passes the check.
LEMMA ReturnEnforces ==
  ASSUME EnumInv, EnforceInv, SpelledOut(graph), Ordering, NEW next, Return(memo, next),
         next \in {"dp", "fallback"}, graph' = graph
  PROVE  /\ Ordering' => \A K \in solved' : Enforced(E, applied', K)
         /\ phase' # "thrown"
<1>1. PICK p \in PlansOf(memo, component) :
        LET all == applied \cup p.applied
        IN IF Rest # {}
           THEN /\ component' = First(Rest) /\ solved' = solved \cup {component}
                /\ applied' = all /\ phase' = next
           ELSE /\ phase' = IF EdgesEnforced(E, graph.relations, all) THEN "done" ELSE "thrown"
                /\ applied' = {} /\ UNCHANGED <<component, solved>>
  BY DEF Return
<1> DEFINE all == applied \cup p.applied
<1>2. Enforced(E, p.applied, component)
  BY DEF EnforceInv, PlansOf, PlanEnforces, Enforces
<1>3. \A K \in solved \cup {component} : Enforced(E, all, K)
  <2>1. applied \subseteq all /\ p.applied \subseteq all
    OBVIOUS
  <2> HIDE DEF all
  <2>2. Enforced(E, all, component)
    BY <1>2, <2>1, MoreEnforce
  <2>3. ASSUME NEW K \in solved PROVE Enforced(E, all, K)
    BY <2>1, MoreEnforce DEF EnforceInv
  <2> QED
    BY <2>2, <2>3
<1>4. CASE Rest # {}
  BY <1>1, <1>3, <1>4
<1>5. CASE Rest = {}
  <2>1. graph \in Graphs /\ ClassesAreSimple(graph.edges)
    BY GraphTypes DEF SpelledOut
  <2>2. ASSUME NEW i \in DOMAIN E PROVE \E K : Tes(E[i]) \subseteq K /\ Enforced(E, all, K)
    <3>1. PICK K \in Components(E, graph.relations) : Tes(E[i]) \subseteq K
      BY <2>1, EdgeInComponent DEF E
    <3>2. K \in solved \cup {component}
      BY <1>5 DEF Rest
    <3> QED
      BY <1>3, <3>1, <3>2
  <2> HIDE DEF all
  <2>3. EdgesEnforced(E, graph.relations, all)
    BY <2>1, <2>2, CheckPasses DEF E
  <2>4. phase' = "done"
    BY <1>1, <1>5, <2>3 DEF all
  <2> QED
    BY <2>4 DEF Ordering
<1> QED
  BY <1>4, <1>5

\* Every step but those of an ambiguous pair keeps the invariant, and does not throw.
Throws == phase' = "thrown" /\ phase # "thrown"
AmbiguousPair == \E S, C : Ambiguous(S, C)

LEMMA SamePlans ==
  ASSUME graph' = graph
  PROVE  E' = E /\ \A p : PlanEnforces(p)' <=> PlanEnforces(p)
BY DEF E, PlanEnforces

LEMMA OfferEnforces ==
  ASSUME EnumInv, EnforceInv, SpelledOut(graph), NEW S, NEW C, Offer(S, C), phase = "dp",
         UNCHANGED EnumVars
  PROVE  EnforceInv' /\ (Throws => AmbiguousPair)
<1>1. graph' = graph /\ graph \in Graphs /\ UNCHANGED <<solved, applied>>
  BY GraphTypes DEF EnumVars
<1> DEFINE steps == {st \in Steps(S, C) : Inputs(memo, st) # {}}
<1>2. memo' = memo \/ memo' = memo \cup Candidates(memo, steps)
  BY DEF Offer
<1>3. steps \subseteq Steps(S, C)
  OBVIOUS
<1> HIDE DEF steps
<1>4. \A p \in Candidates(memo, steps) : PlanEnforces(p)
  BY <1>1, <1>3, CandidatesEnforce DEF EnforceInv
<1>5. \A p \in memo' : PlanEnforces(p)
  BY <1>2, <1>4 DEF EnforceInv
<1>6. Throws => AmbiguousPair
  BY DEF Throws, AmbiguousPair, Offer
<1>7. \A K \in solved : Enforced(E, applied, K)
  BY DEF EnforceInv, Ordering
<1> QED
  BY <1>1, <1>5, <1>6, <1>7, SamePlans DEF EnforceInv

LEMMA FallBackEnforces ==
  ASSUME EnumInv, EnforceInv, SpelledOut(graph), FallBack, graph' = graph
  PROVE  EnforceInv' /\ ~Throws
<1>1. graph \in Graphs
  BY GraphTypes
<1>2. /\ solved' = {} /\ phase' \in {"fallback", "written"}
      /\ memo' = memo \/ memo' = {Leaf(r) : r \in graph.relations}
  BY DEF FallBack
<1>3. \A p \in memo' : PlanEnforces(p)
  BY <1>1, <1>2, LeavesEnforce DEF EnforceInv
<1> QED
  BY <1>2, <1>3, SamePlans DEF EnforceInv, Throws

LEMMA NextEnforces ==
  ASSUME EnumInv, EnforceInv, SpelledOut(graph), phase \in {"dp", "expand"},
         Return(memo, "dp"), NextComponent, graph' = graph
  PROVE  EnforceInv' /\ ~Throws
<1>1. graph \in Graphs
  BY GraphTypes
<1>2. Ordering /\ "dp" \in {"dp", "fallback"}
  BY DEF Ordering
<1>3. (Ordering' => \A K \in solved' : Enforced(E, applied', K)) /\ phase' # "thrown"
  BY <1>2, ReturnEnforces
<1>4. \A p \in memo' : p \in memo \/ \E r : p = Leaf(r)
  BY DEF NextComponent, InitLeaves
<1>5. \A p \in memo' : PlanEnforces(p)
  BY <1>1, <1>4, LeavesEnforce, SMTT(60) DEF EnforceInv
<1> QED
  BY <1>3, <1>5, SamePlans DEF EnforceInv, Throws

LEMMA SolveEnforces ==
  ASSUME EnumInv, EnforceInv, SpelledOut(graph), Solve
  PROVE  EnforceInv' /\ (Throws => AmbiguousPair)
<1>1. CASE phase = "dp" /\ UNCHANGED EnumVars /\ UNCHANGED <<phase, memo>>
  BY <1>1, SamePlans DEF EnforceInv, EnumVars, Ordering, Throws
<1>2. CASE phase = "dp" /\ UNCHANGED EnumVars /\ \E S, C : Offer(S, C)
  BY <1>2, OfferEnforces
<1>3. CASE SolveEnd
  BY <1>3, NextEnforces, FallBackEnforces DEF SolveEnd
<1>4. CASE SolveGivesUp
  <2>1. CASE FallBack
    BY <1>4, <2>1, FallBackEnforces DEF SolveGivesUp
  <2>2. CASE /\ phase' = "greedy" /\ UNCHANGED <<component, solved, applied>>
             /\ memo' = IF Single THEN InitLeaves(graph, component) ELSE memo
    <3>1. graph \in Graphs /\ graph' = graph /\ phase = "dp"
      BY <1>4, GraphTypes DEF SolveGivesUp
    <3>2. \A p \in memo' : p \in memo \/ \E r : p = Leaf(r)
      BY <2>2 DEF InitLeaves
    <3>3. \A p \in memo' : PlanEnforces(p)
      BY <3>1, <3>2, LeavesEnforce DEF EnforceInv
    <3> QED
      BY <2>2, <3>1, <3>3, SamePlans DEF EnforceInv, Ordering, Throws
  <2> QED
    BY <1>4, <2>1, <2>2 DEF SolveGivesUp
<1>5. CASE EmitCsg
  BY <1>5, <1>2 DEF EmitCsg, Running
<1>6. CASE CmpEmit
  BY <1>6, <1>1, <1>2 DEF CmpEmit, Running
<1> QED
  BY <1>1, <1>3, <1>4, <1>5, <1>6 DEF Solve, Seed, CsgEmit, CsgGrow, CmpGrow, LoopEnd, Running

LEMMA GreedyEnforces ==
  ASSUME EnumInv, OuterInv, EnforceInv, SpelledOut(graph), Greedy
  PROVE  EnforceInv' /\ (Throws => AmbiguousPair)
<1>1. graph' = graph /\ graph \in Graphs /\ phase \in {"greedy", "expand"}
  BY GraphTypes
     DEF Greedy, GreedyMerge, GreedyExpand, Stuck, Last, ExpandUnnest, ExpandEnd, KeepsComponent
<1>2. Expanded(E) = {}
  <2>1. Exceeded /\ graph.cap \in Nat
    BY <1>1, GraphTypes DEF OuterInv
  <2> QED
    BY <2>1 DEF Exceeded, SpelledOut, E
<1>3. ASSUME UNCHANGED <<solved, applied>>, \A p \in memo' : PlanEnforces(p) PROVE EnforceInv'
  BY <1>1, <1>3, SamePlans DEF EnforceInv, Ordering
<1>4. CASE GreedyMerge
  <2>1. ASSUME NEW p \in WithFragmentPairs PROVE PlanEnforces(p)
    <3>1. CASE p \in memo
      BY <3>1 DEF EnforceInv
    <3>2. CASE \E q \in FragmentPairs : p \in Candidates(memo, Steps(q[1], q[2]))
      <4>1. PICK q \in FragmentPairs : p \in Candidates(memo, Steps(q[1], q[2]))
        BY <3>2
      <4> DEFINE S == q[1]
                 C == q[2]
      <4>2. p \in Candidates(memo, Steps(S, C)) /\ Steps(S, C) \subseteq Steps(S, C)
        BY <4>1
      <4> HIDE DEF S, C
      <4> QED
        BY <1>1, <4>2, CandidatesEnforce DEF EnforceInv
    <3> QED
      BY <3>1, <3>2 DEF WithFragmentPairs
  <2>2. /\ memo' \in {memo, WithFragmentPairs} /\ UNCHANGED <<solved, applied>>
        /\ (Throws => AmbiguousPair)
    BY <1>4 DEF GreedyMerge, KeepsComponent, AnyAmbiguous, Throws, AmbiguousPair
  <2>3. \A p \in memo' : PlanEnforces(p)
    BY <2>1, <2>2 DEF EnforceInv
  <2> QED
    BY <1>3, <2>2, <2>3
<1>5. CASE GreedyExpand
  <2>1. CASE FallBack
    BY <1>1, <2>1, FallBackEnforces
  <2>2. CASE phase' = "expand" /\ UNCHANGED <<component, solved, applied, memo, fragments>>
    BY <1>3, <2>2 DEF EnforceInv, Throws
  <2> QED
    BY <1>5, <2>1, <2>2 DEF GreedyExpand
<1>6. CASE ExpandUnnest
  <2>1. PICK i \in DOMAIN E : E[i].unnest
    BY <1>6 DEF ExpandUnnest, Ready
  <2>2. E[i].right # {}
    BY <1>1, GraphFacts DEF E
  <2> QED
    BY <1>2, <2>1, <2>2 DEF Expanded
<1>7. CASE ExpandEnd
  <2>1. CASE FallBack
    BY <1>1, <2>1, FallBackEnforces
  <2>2. CASE Return(memo, "dp") /\ NextComponent
    BY <1>1, <1>7, <2>2, NextEnforces DEF ExpandEnd
  <2>3. CASE phase' = "greedy" /\ KeepsComponent /\ UNCHANGED <<memo, fragments, seeds, count>>
    BY <1>3, <2>3 DEF EnforceInv, Throws, KeepsComponent
  <2> QED
    BY <1>7, <2>1, <2>2, <2>3 DEF ExpandEnd
<1> QED
  BY <1>4, <1>5, <1>6, <1>7 DEF Greedy

LEMMA FallbackEnforces ==
  ASSUME EnumInv, EnforceInv, SpelledOut(graph), Fallback
  PROVE  EnforceInv' /\ ~Throws
<1>1. graph' = graph /\ graph \in Graphs /\ phase = "fallback"
  BY GraphTypes DEF Fallback, FallbackJoin, FallbackEnd, KeepsComponent
<1>2. CASE FallbackJoin
  <2>1. PICK r \in component \ placed :
          LET st == Step(placed, {r}, "inner",
                         CanonicalKeyEdges(E, CrossingJoins(E, placed, {r})),
                         CrossingFilters(E, placed, {r}))
          IN memo' = memo \cup {Plan(st, below) : below \in Inputs(memo, st)}
    BY <1>2 DEF FallbackJoin
  <2> DEFINE S == placed
             C == {r}
             keys == CanonicalKeyEdges(E, CrossingJoins(E, S, C))
             filters == CrossingFilters(E, S, C)
             st == Step(S, C, "inner", keys, filters)
  <2>2. memo' = memo \cup {Plan(st, below) : below \in Inputs(memo, st)}
    BY <2>1
  <2>3. \A A : keys \cup filters \subseteq A => Represented(E, A, S, C)
    <3> SUFFICES ASSUME NEW A, keys \cup filters \subseteq A PROVE Represented(E, A, S, C)
      OBVIOUS
    <3>1. keys \subseteq A /\ filters \subseteq A
      OBVIOUS
    <3> HIDE DEF S, C
    <3> QED
      BY <1>1, <3>1, CanonicalRepresents DEF E
  <2> HIDE DEF S, C, keys, filters
  <2>4. st.left = S /\ st.right = C /\ st.type = "inner" /\ st.keys = keys /\ st.filters = filters
    BY StepIs
  <2> HIDE DEF st
  <2>5. \A A : st.keys \cup st.filters \subseteq A => Represented(E, A, S, C)
    BY <2>3, <2>4
  <2>6. ASSUME NEW below \in Inputs(memo, st) PROVE PlanEnforces(Plan(st, below))
    BY <1>1, <2>4, <2>5, StepEnforces DEF EnforceInv
  <2>7. \A p \in memo' : PlanEnforces(p)
    BY <2>2, <2>6 DEF EnforceInv
  <2>8. UNCHANGED <<solved, applied, phase>>
    BY <1>2 DEF FallbackJoin, KeepsComponent
  <2> QED
    BY <1>1, <2>7, <2>8, SamePlans DEF EnforceInv, Ordering, Throws
<1>3. CASE FallbackEnd
  <2>1. memo' = memo
    BY <1>3 DEF FallbackEnd
  <2>2. CASE Return(memo, "fallback")
    <3>1. Ordering /\ "fallback" \in {"dp", "fallback"}
      BY <1>1 DEF Ordering
    <3>2. (Ordering' => \A K \in solved' : Enforced(E, applied', K)) /\ phase' # "thrown"
      BY <1>1, <2>2, <3>1, ReturnEnforces
    <3> QED
      BY <1>1, <2>1, <3>2, SamePlans DEF EnforceInv, Throws
  <2>3. CASE phase' = "written"
    BY <1>1, <2>1, <2>3, SamePlans DEF EnforceInv, Ordering, Throws
  <2> QED
    BY <1>3, <2>2, <2>3 DEF FallbackEnd
<1> QED
  BY <1>2, <1>3 DEF Fallback

LEMMA EnforceNext ==
  ASSUME EnumInv, OuterInv, EnforceInv, SpelledOut(graph), [Next]_vars
  PROVE  EnforceInv' /\ (Throws => AmbiguousPair)
<1>1. CASE UNCHANGED vars
  BY <1>1, SamePlans DEF vars, EnforceInv, Ordering, Throws
<1> QED
  BY <1>1, SolveEnforces, GreedyEnforces, FallbackEnforces DEF Next, Over

LEMMA EnforceInit == ASSUME Init, EnumInv, SpelledOut(graph) PROVE EnforceInv
<1>1. graph \in Graphs /\ solved = {} /\ \A p \in memo : \E r : p = Leaf(r)
  BY GraphTypes DEF Init, InitLeaves
<1> QED
  BY <1>1, LeavesEnforce DEF EnforceInv

\* For every cluster whose classes are spelled out, whatever its joins, statistics
\* and budget, checkEdgesEnforced() accepts the chosen plan: the only step that
\* throws is that of emitCsgCmp() on a pair that two joins would have to be
\* applied to at once.
THEOREM ChecksOfPlansPass ==
  ASSUME \A g \in Graphs : SpelledOut(g)
  PROVE  Spec => [][Throws => AmbiguousPair]_vars
<1>1. ASSUME NEW g \in Graphs PROVE Covered(g)
  BY DEF Covered, SpelledOut
<1>2. Init /\ EnumInv => TypeInv /\ OuterInv /\ EnforceInv
  <2> SUFFICES ASSUME Init, EnumInv PROVE TypeInv /\ OuterInv /\ EnforceInv
    OBVIOUS
  <2>1. SpelledOut(graph)
    BY GraphTypes
  <2> QED
    BY <2>1, TypeInvInit, OuterInvInit, EnforceInit
<1>3. EnumInv /\ EnumInv' /\ TypeInv /\ OuterInv /\ EnforceInv /\ [Next]_vars
        => TypeInv' /\ OuterInv' /\ EnforceInv' /\ [Throws => AmbiguousPair]_vars
  <2> SUFFICES ASSUME EnumInv, EnumInv', TypeInv, OuterInv, EnforceInv, [Next]_vars
               PROVE  /\ TypeInv' /\ OuterInv' /\ EnforceInv'
                      /\ Throws => AmbiguousPair
    BY Zenon
  <2>1. SpelledOut(graph) /\ Covered(graph)
    BY <1>1, GraphTypes
  <2> QED
    BY <2>1, TypeInvNext, OuterInvNext, EnforceNext
<1> QED
  BY <1>2, <1>3, EnumInvariant, PTL DEF Spec

\* A cluster with at most one join that is not a plain inner one, and every inner
\* cluster among them, never makes the enumeration, greedy() or the fallback
\* throw.
THEOREM InnerClustersNeverThrow ==
  ASSUME \A g \in Graphs :
           /\ SpelledOut(g)
           /\ \A i, j \in DOMAIN g.edges :
                ~IsPlain(g.edges[i]) /\ ~IsPlain(g.edges[j]) => i = j
  PROVE  Spec => []NeverThrows
<1>1. \A g \in Graphs : SpelledOut(g)
  OBVIOUS
<1>2. EnumInv => ~AmbiguousPair
  <2> SUFFICES ASSUME EnumInv, NEW S, NEW C, Ambiguous(S, C) PROVE FALSE
    BY DEF AmbiguousPair
  <2>1. PICK i, j \in Specials(S, C) : i # j
    BY DEF Ambiguous
  <2>2. /\ i \in DOMAIN E /\ j \in DOMAIN E /\ ~IsPlain(E[i]) /\ ~IsPlain(E[j])
    BY CrossingIs DEF Specials
  <2> QED
    BY <2>1, <2>2, GraphTypes DEF E
<1>3. Init => NeverThrows
  BY DEF Init, NeverThrows
<1>4. NeverThrows /\ EnumInv /\ [Throws => AmbiguousPair]_vars => NeverThrows'
  BY <1>2 DEF NeverThrows, Throws, vars
<1>5. Spec => [][Throws => AmbiguousPair]_vars
  BY <1>1, ChecksOfPlansPass
<1> QED
  BY <1>3, <1>4, <1>5, EnumInvariant, PTL DEF Spec
=============================================================================
