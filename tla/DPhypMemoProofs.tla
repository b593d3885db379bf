--------------------------- MODULE DPhypMemoProofs ---------------------------
(***************************************************************************)
(* Proofs about the plans that DPhyp puts into its memo, for every graph:  *)
(* the types of the state, and that no plan drops a join that cannot be    *)
(* made a filter.                                                          *)
(***************************************************************************)
EXTENDS DPhypProofs

(***************************************************************************)
(* The operators that join two covers.                                     *)
(***************************************************************************)
StepOK(st) == /\ st.left \subseteq graph.relations /\ st.right \subseteq graph.relations
              /\ st.type \in PlanTypes
              /\ st.keys \subseteq DOMAIN E /\ st.filters \subseteq DOMAIN E
PlanSet == [left : SUBSET graph.relations, right : SUBSET graph.relations,
            type : PlanTypes, keys : SUBSET DOMAIN E, filters : SUBSET DOMAIN E,
            applied : SUBSET DOMAIN E]

LEMMA StepIs ==
  ASSUME NEW L, NEW R, NEW type, NEW keys, NEW filters
  PROVE  LET st == Step(L, R, type, keys, filters)
         IN st.left = L /\ st.right = R /\ st.type = type /\ st.keys = keys /\ st.filters = filters
BY DEF Step

\* What an edge is in terms of the two covers it crosses.
LEMMA CrossingIs ==
  ASSUME NEW S, NEW C
  PROVE  /\ CrossingJoins(E, S, C) \subseteq DOMAIN E
         /\ CrossingFilters(E, S, C) \subseteq DOMAIN E
         /\ CrossingFilters(E, S, C) \cap CrossingJoins(E, S, C) = {}
         /\ \A i \in DOMAIN E : Tes(E[i]) \subseteq S \cup C =>
              \/ Tes(E[i]) \subseteq S \/ Tes(E[i]) \subseteq C
              \/ i \in CrossingFilters(E, S, C) \/ i \in CrossingJoins(E, S, C)
BY DEF CrossingJoins, CrossingFilters, Crossing

\* An edge has a relation on each side, so no single relation covers it.
LEMMA TesIsWide ==
  ASSUME graph \in Graphs, NEW i \in DOMAIN E, NEW r
  PROVE  ~(Tes(E[i]) \subseteq {r})
<1>1. E[i].left # {} /\ E[i].right # {} /\ E[i].left \cap E[i].right = {}
  BY GraphFacts DEF E
<1> QED
  BY <1>1 DEF Tes

\* How step st joins the covers S and C: with what types, and how it treats the
\* edges that cannot be filters.
Joins(st, S, C) ==
  /\ (st.left = S /\ st.right = C) \/ (st.left = C /\ st.right = S)
  /\ st.type \in PlanTypes /\ st.keys \subseteq DOMAIN E /\ st.filters \subseteq DOMAIN E
Heeds(st) ==
  \A i \in DOMAIN E : ~IsPlain(E[i]) =>
    /\ i \notin st.filters
    /\ Tes(E[i]) \subseteq st.left \cup st.right =>
         \/ i \in st.keys \/ Tes(E[i]) \subseteq st.left
         \/ st.type # "unnest" /\ Tes(E[i]) \subseteq st.right

\* The steps of one edge i that joins S and C.  The other edges are heeded when
\* i is the only one that cannot be a filter.
LEMMA ApplyEdgeIs ==
  ASSUME graph \in Graphs, NEW S, NEW C, NEW i \in CrossingJoins(E, S, C),
         NEW filters \in SUBSET DOMAIN E
  PROVE  /\ IsFiniteSet(ApplyEdge(i, S, C, filters))
         /\ \A st \in ApplyEdge(i, S, C, filters) :
              /\ Joins(st, S, C) /\ st.keys = {i} /\ st.filters = filters
              /\ st.type = "unnest" => st.right = E[i].right /\ E[i].unnest
<1> DEFINE l == IF Forward(E[i], S, C) THEN S ELSE C
           r == IF Forward(E[i], S, C) THEN C ELSE S
           back == IF E[i].type = "anti" THEN "reversedAnti" ELSE SwapType(E[i].type)
           s1 == Step(l, r, E[i].type, {i}, filters)
           s2 == Step(r, l, back, {i}, filters)
           s3 == Step(S, C, "unnest", {i}, filters)
<1>1. i \in DOMAIN E
  BY CrossingIs
<1>2. E[i].type \in {"inner", "left", "full", "semi", "mark", "anti"}
  BY <1>1, GraphFacts DEF E
<1>3. back \in PlanTypes /\ back # "unnest" /\ E[i].type \in PlanTypes /\ E[i].type # "unnest"
  BY <1>2 DEF SwapType, PlanTypes
<1>4. (l = S /\ r = C) \/ (l = C /\ r = S)
  OBVIOUS
<1> HIDE DEF l, r, back
<1>5. Joins(s1, S, C) /\ s1.keys = {i} /\ s1.filters = filters /\ s1.type # "unnest"
  BY <1>1, <1>3, <1>4, StepIs DEF Joins
<1>6. Joins(s2, S, C) /\ s2.keys = {i} /\ s2.filters = filters /\ s2.type # "unnest"
  BY <1>1, <1>3, <1>4, StepIs DEF Joins
<1>7. "unnest" \in PlanTypes
  BY DEF PlanTypes
<1>8. Joins(s3, S, C) /\ s3.keys = {i} /\ s3.filters = filters /\ s3.right = C
  BY <1>1, <1>7, StepIs DEF Joins
<1>9. Orientations(i, S, C, filters) = {s1, s2}
  BY DEF Orientations, l, r, back
<1> HIDE DEF s1, s2
<1>10. \/ ApplyEdge(i, S, C, filters) = {s1, s2}
       \/ ApplyEdge(i, S, C, filters) = {s3} /\ C = E[i].right /\ E[i].unnest
       \/ ApplyEdge(i, S, C, filters) = {}
  BY <1>9 DEF ApplyEdge
<1> HIDE DEF s3
<1>11. IsFiniteSet({s1, s2}) /\ IsFiniteSet({s3}) /\ IsFiniteSet({})
  <2>1. IsFiniteSet({s1}) /\ IsFiniteSet({s3}) /\ IsFiniteSet({})
    BY FS_Singleton, FS_EmptySet
  <2>2. IsFiniteSet({s1} \cup {s2})
    BY <2>1, FS_AddElement
  <2>3. {s1} \cup {s2} = {s1, s2}
    OBVIOUS
  <2> QED
    BY <2>1, <2>2, <2>3
<1>12. IsFiniteSet(ApplyEdge(i, S, C, filters))
  BY <1>10, <1>11
<1>13. ASSUME NEW st \in ApplyEdge(i, S, C, filters)
       PROVE  /\ Joins(st, S, C) /\ st.keys = {i} /\ st.filters = filters
              /\ st.type = "unnest" => st.right = E[i].right /\ E[i].unnest
  BY <1>5, <1>6, <1>8, <1>10
<1> QED
  BY <1>12, <1>13

\* A step whose edges that are not keys are all plain, or lie within an input,
\* heeds the others.
LEMMA HeedsIs ==
  ASSUME graph \in Graphs, NEW S, NEW C, NEW st, Joins(st, S, C), CanCross(E, S, C),
         \A i \in Specials(S, C) : i \in st.keys,
         \A i \in st.filters : IsPlain(E[i]),
         st.type = "unnest" => \E r : st.right = {r}
  PROVE  Heeds(st)
<1> SUFFICES ASSUME NEW i \in DOMAIN E, ~IsPlain(E[i])
             PROVE  /\ i \notin st.filters
                    /\ Tes(E[i]) \subseteq st.left \cup st.right =>
                         \/ i \in st.keys \/ Tes(E[i]) \subseteq st.left
                         \/ st.type # "unnest" /\ Tes(E[i]) \subseteq st.right
  BY DEF Heeds
<1>1. i \notin st.filters
  OBVIOUS
<1>2. ASSUME Tes(E[i]) \subseteq st.left \cup st.right, i \notin st.keys
      PROVE  Tes(E[i]) \subseteq st.left \/ (st.type # "unnest" /\ Tes(E[i]) \subseteq st.right)
  <2>1. i \notin CrossingFilters(E, S, C) /\ i \notin CrossingJoins(E, S, C)
    BY <1>2 DEF CanCross, Specials
  <2>2. Tes(E[i]) \subseteq S \/ Tes(E[i]) \subseteq C
    BY <1>2, <2>1, CrossingIs DEF Joins
  <2>3. Tes(E[i]) \subseteq st.left \/ Tes(E[i]) \subseteq st.right
    BY <2>2 DEF Joins
  <2>4. st.type = "unnest" => ~(Tes(E[i]) \subseteq st.right)
    BY TesIsWide
  <2> QED
    BY <2>3, <2>4
<1> QED
  BY <1>1, <1>2

\* emitSingleEdge(): the edge that joins is one of the crossing edges, and when
\* some crossing edge cannot be a filter it is that one.
LEMMA SingleEdgeIs ==
  ASSUME graph \in Graphs, NEW S, NEW C, CanCross(E, S, C),
         \E i \in CrossingJoins(E, S, C) :
           IsOnly(i, CrossingJoins(E, S, C)) \/ IsOnly(i, Specials(S, C))
  PROVE  /\ IsFiniteSet(SingleEdge(S, C))
         /\ \A st \in SingleEdge(S, C) : Joins(st, S, C) /\ Heeds(st)
<1> DEFINE joins == CrossingJoins(E, S, C)
           edge  == CHOOSE i \in joins : IsOnly(i, joins) \/ IsOnly(i, Specials(S, C))
           filters == CrossingFilters(E, S, C) \cup (joins \ {edge})
<1>1. edge \in joins /\ (IsOnly(edge, joins) \/ IsOnly(edge, Specials(S, C)))
  OBVIOUS
<1>2. SingleEdge(S, C) = ApplyEdge(edge, S, C, filters) \/ SingleEdge(S, C) = {}
  BY DEF SingleEdge
<1> HIDE DEF edge
<1>3. \A i \in Specials(S, C) : i = edge
  BY <1>1 DEF IsOnly, Specials
<1>4. filters \in SUBSET DOMAIN E /\ \A i \in filters : IsPlain(E[i])
  <2>1. filters \in SUBSET DOMAIN E
    BY CrossingIs
  <2>2. \A i \in joins \ {edge} : IsPlain(E[i])
    BY <1>3 DEF Specials
  <2> QED
    BY <2>1, <2>2 DEF CanCross
<1> HIDE DEF filters
<1>5. /\ IsFiniteSet(ApplyEdge(edge, S, C, filters))
      /\ \A st \in ApplyEdge(edge, S, C, filters) :
           /\ Joins(st, S, C) /\ st.keys = {edge} /\ st.filters = filters
           /\ st.type = "unnest" => st.right = E[edge].right /\ E[edge].unnest
  BY <1>1, <1>4, ApplyEdgeIs
<1>6. edge \in DOMAIN E /\ (E[edge].unnest => \E r : E[edge].right = {r})
  <2>1. edge \in DOMAIN E
    BY <1>1, CrossingIs
  <2> QED
    BY <2>1, GraphFacts DEF E
<1>7. ASSUME NEW st \in ApplyEdge(edge, S, C, filters)
      PROVE  Joins(st, S, C) /\ Heeds(st)
  <2>1. /\ Joins(st, S, C) /\ st.keys = {edge} /\ st.filters = filters
        /\ st.type = "unnest" => st.right = E[edge].right /\ E[edge].unnest
    BY <1>5, <1>7
  <2>2. \A i \in Specials(S, C) : i \in st.keys
    BY <1>3, <2>1
  <2>3. \A i \in st.filters : IsPlain(E[i])
    BY <1>4, <2>1
  <2>4. st.type = "unnest" => \E r : st.right = {r}
    BY <1>6, <2>1
  <2> QED
    BY <2>1, <2>2, <2>3, <2>4, HeedsIs
<1>8. IsFiniteSet({})
  BY FS_EmptySet
<1> QED
  BY <1>2, <1>5, <1>7, <1>8

\* A step that several plain edges make.
LEMMA InnerEdgesStepIs ==
  ASSUME graph \in Graphs, NEW S, NEW C
  PROVE  /\ IsFiniteSet(InnerEdgesStep(S, C))
         /\ \A st \in InnerEdgesStep(S, C) :
              /\ Joins(st, S, C) /\ st.type = "inner" /\ st.filters = CrossingFilters(E, S, C)
<1> DEFINE keys == CanonicalKeyEdges(E, CrossingJoins(E, S, C))
           filters == CrossingFilters(E, S, C)
           s1 == Step(S, C, "inner", keys, filters)
           s2 == Step(C, S, "inner", keys, filters)
<1>1. InnerEdgesStep(S, C) = {s1, s2}
  BY DEF InnerEdgesStep
<1>2. keys \subseteq CrossingJoins(E, S, C)
  BY DEF CanonicalKeyEdges
<1>3. keys \subseteq DOMAIN E /\ filters \subseteq DOMAIN E /\ "inner" \in PlanTypes
  BY <1>2, CrossingIs DEF PlanTypes
<1> HIDE DEF keys
<1>4. Joins(s1, S, C) /\ s1.type = "inner" /\ s1.filters = filters
  BY <1>3, StepIs DEF Joins
<1>5. Joins(s2, S, C) /\ s2.type = "inner" /\ s2.filters = filters
  BY <1>3, StepIs DEF Joins
<1> HIDE DEF s1, s2
<1>6. IsFiniteSet({s1, s2})
  <2>1. IsFiniteSet({s1} \cup {s2})
    BY FS_Singleton, FS_AddElement
  <2>2. {s1} \cup {s2} = {s1, s2}
    OBVIOUS
  <2> QED
    BY <2>1, <2>2
<1> QED
  BY <1>1, <1>4, <1>5, <1>6

\* emitCsgCmp(): whatever the two covers are, what is offered joins them, is
\* finite, and when the check that one edge at most is special passes, no edge
\* that cannot be a filter is lost.
LEMMA StepsAre ==
  ASSUME graph \in Graphs, NEW S, NEW C
  PROVE  /\ IsFiniteSet(Steps(S, C))
         /\ \A st \in Steps(S, C) : Joins(st, S, C)
         /\ ~Ambiguous(S, C) => \A st \in Steps(S, C) : Heeds(st)
<1> DEFINE joins == CrossingJoins(E, S, C)
           One == \E i \in joins : IsOnly(i, joins) \/ IsOnly(i, Specials(S, C))
<1>1. CASE ~CanCross(E, S, C) \/ joins = {}
  <2>1. Steps(S, C) = {}
    BY <1>1 DEF Steps
  <2> QED
    BY <2>1, FS_EmptySet
<1>2. CASE CanCross(E, S, C) /\ joins # {} /\ One
  <2>1. Steps(S, C) = SingleEdge(S, C)
    BY <1>2 DEF Steps
  <2> QED
    BY <1>2, <2>1, SingleEdgeIs
<1>3. CASE CanCross(E, S, C) /\ joins # {} /\ ~One
  <2>1. Steps(S, C) = InnerEdgesStep(S, C)
    BY <1>3 DEF Steps
  <2>2. ASSUME ~Ambiguous(S, C) PROVE Specials(S, C) = {}
    <3> SUFFICES ASSUME NEW i \in Specials(S, C) PROVE FALSE
      OBVIOUS
    <3>1. IsOnly(i, Specials(S, C))
      BY <1>3, <2>2 DEF Ambiguous, IsOnly
    <3> QED
      BY <1>3, <3>1 DEF Specials
  <2>3. ASSUME ~Ambiguous(S, C), NEW st \in InnerEdgesStep(S, C) PROVE Heeds(st)
    <3>1. Joins(st, S, C) /\ st.type = "inner" /\ st.filters = CrossingFilters(E, S, C)
      BY <2>3, InnerEdgesStepIs
    <3>2. \A i \in st.filters : IsPlain(E[i])
      BY <1>3, <3>1 DEF CanCross
    <3> QED
      BY <1>3, <2>2, <2>3, <3>1, <3>2, HeedsIs
  <2> QED
    BY <2>1, <2>3, InnerEdgesStepIs
<1> QED
  BY <1>1, <1>2, <1>3

(***************************************************************************)
(* The plans that the steps make.                                          *)
(***************************************************************************)
\* No edge that cannot be a filter is lost in plan p.
Keeps(p) == \A i \in DOMAIN E : ~IsPlain(E[i]) =>
              (Tes(E[i]) \subseteq Cover(p) => i \in p.applied) /\ i \notin p.filters

\* A plan over plans of its inputs.
LEMMA PlanIs ==
  ASSUME NEW m, NEW st, NEW below \in Inputs(m, st)
  PROVE  /\ StepOK(st) /\ m \subseteq PlanSet => Plan(st, below) \in PlanSet
         /\ Heeds(st) /\ (\A q \in m : Keeps(q)) => Keeps(Plan(st, below))
<1> DEFINE p == Plan(st, below)
<1>1. /\ p.left = st.left /\ p.right = st.right /\ p.type = st.type /\ p.keys = st.keys
      /\ p.filters = st.filters /\ p.applied = st.keys \cup st.filters \cup below
  BY DEF Plan
<1>2. PICK q \in m : /\ Cover(q) = st.left /\ q.applied \subseteq below
                     /\ st.type = "unnest" => below = q.applied
                     /\ st.type # "unnest" =>
                          \E r \in m : Cover(r) = st.right /\ below = q.applied \cup r.applied
  BY DEF Inputs, PlansOf
<1>3. ASSUME StepOK(st), m \subseteq PlanSet PROVE p \in PlanSet
  <2>1. below \subseteq DOMAIN E
    BY <1>2, <1>3 DEF PlanSet
  <2> QED
    BY <1>3, <2>1 DEF Plan, PlanSet, StepOK
<1> HIDE DEF p
<1>4. ASSUME Heeds(st), \A r \in m : Keeps(r) PROVE Keeps(p)
  <2> SUFFICES ASSUME NEW i \in DOMAIN E, ~IsPlain(E[i])
               PROVE  (Tes(E[i]) \subseteq Cover(p) => i \in p.applied) /\ i \notin p.filters
    BY DEF Keeps
  <2>1. i \notin p.filters
    BY <1>1, <1>4 DEF Heeds
  <2>2. ASSUME Tes(E[i]) \subseteq Cover(p) PROVE i \in p.applied
    <3>1. Tes(E[i]) \subseteq st.left \cup st.right
      BY <1>1, <2>2 DEF Cover
    <3>2. CASE i \in st.keys
      BY <1>1, <3>2
    <3>3. CASE Tes(E[i]) \subseteq st.left
      BY <1>1, <1>2, <1>4, <3>3 DEF Keeps
    <3>4. CASE st.type # "unnest" /\ Tes(E[i]) \subseteq st.right
      <4>1. PICK r \in m : Cover(r) = st.right /\ below = q.applied \cup r.applied
        BY <1>2, <3>4
      <4> QED
        BY <1>1, <1>4, <3>4, <4>1 DEF Keeps
    <3> QED
      BY <1>4, <3>1, <3>2, <3>3, <3>4 DEF Heeds
  <2> QED
    BY <2>1, <2>2
<1> QED
  BY <1>3, <1>4 DEF p

LEMMA CandidatesAre ==
  ASSUME NEW m, NEW steps
  PROVE  /\ m \subseteq PlanSet /\ (\A st \in steps : StepOK(st))
              => Candidates(m, steps) \subseteq PlanSet
         /\ (\A q \in m : Keeps(q)) /\ (\A st \in steps : Heeds(st))
              => \A p \in Candidates(m, steps) : Keeps(p)
<1>1. \A p \in Candidates(m, steps) :
        \E st \in steps : \E below \in Inputs(m, st) : p = Plan(st, below)
  BY DEF Candidates
<1> QED
  BY <1>1, PlanIs

\* emitCsgCmp() of two covers, and of those of its steps whose inputs have plans.
LEMMA OfferedPlans ==
  ASSUME graph \in Graphs, NEW S, NEW C, NEW m, NEW steps, steps \subseteq Steps(S, C)
  PROVE  /\ m \subseteq PlanSet /\ S \subseteq graph.relations /\ C \subseteq graph.relations
              => Candidates(m, steps) \subseteq PlanSet
         /\ (\A q \in m : Keeps(q)) /\ ~Ambiguous(S, C)
              => \A p \in Candidates(m, steps) : Keeps(p)
         /\ Cardinality(steps) \in Nat
<1>1. S \subseteq graph.relations /\ C \subseteq graph.relations
        => \A st \in Steps(S, C) : StepOK(st)
  BY StepsAre DEF Joins, StepOK
<1>2. IsFiniteSet(steps)
  BY StepsAre, FS_Subset
<1>3. Cardinality(steps) \in Nat
  BY <1>2, FS_CardinalityType
<1> QED
  BY <1>1, <1>3, StepsAre, CandidatesAre

\* A relation alone is a plan that applies nothing, and there is no edge in it.
LEMMA LeavesAre ==
  ASSUME graph \in Graphs, NEW K \in SUBSET graph.relations
  PROVE  /\ {Leaf(r) : r \in K} \subseteq PlanSet /\ \A p \in {Leaf(r) : r \in K} : Keeps(p)
         /\ InitLeaves(graph, K) \subseteq PlanSet /\ \A p \in InitLeaves(graph, K) : Keeps(p)
<1>1. ASSUME NEW r \in K PROVE Leaf(r) \in PlanSet /\ Keeps(Leaf(r))
  <2>1. Cover(Leaf(r)) = {r} /\ Leaf(r).filters = {}
    BY DEF Cover, Leaf
  <2> QED
    BY <2>1, TesIsWide DEF Leaf, PlanSet, PlanTypes, Keeps
<1> QED
  BY <1>1 DEF InitLeaves

(***************************************************************************)
(* Types.  EnumInv types the recursion; TypeInv types the rest.            *)
(***************************************************************************)
TypeInv == /\ phase \in Phases /\ solved \subseteq SUBSET graph.relations
           /\ applied \subseteq DOMAIN E /\ memo \subseteq PlanSet /\ count \in Nat
           /\ fragments \subseteq SUBSET graph.relations /\ grown \subseteq graph.relations
           /\ reordered \in BOOLEAN

\* The two sides of the pair that is offered.
LEMMA OfferedSides ==
  ASSUME EnumInv, EnumInv', graph' = graph, NEW S, NEW C, Offer(S, C)
  PROVE  S \subseteq graph.relations /\ C \subseteq graph.relations
<1>1. /\ emitted \in Seq((SUBSET Nat) \X (SUBSET Nat)) /\ emitted' = Append(emitted, <<S, C>>)
      /\ emitted' \in Seq((SUBSET Nat) \X (SUBSET Nat))
  BY DEF Offer, EnumInv, EmittedInv, EmittedOK
<1>2. Len(emitted') = Len(emitted) + 1 /\ emitted'[Len(emitted')] = <<S, C>>
  BY <1>1
<1>3. Len(emitted') \in 1..Len(emitted')
  BY <1>1, <1>2
<1>4. PairOK(graph, emitted'[Len(emitted')][1], emitted'[Len(emitted')][2])
  BY <1>3 DEF EnumInv, EmittedInv, EmittedOK
<1> QED
  BY <1>2, <1>4 DEF PairOK

LEMMA GraphTypes ==
  ASSUME EnumInv
  PROVE  /\ graph \in Graphs /\ graph.cap \in Nat /\ component \subseteq graph.relations
         /\ \A K \in Components(E, graph.relations) :
              K \subseteq graph.relations /\ Least(K) \in graph.relations
<1>1. graph \in Graphs /\ component \in Components(E, graph.relations)
  BY DEF EnumInv, GraphInv
<1>2. graph.cap \in Nat /\ graph.relations \subseteq Nat
  BY <1>1, GraphFacts
<1>3. \A K \in Components(E, graph.relations) : K \subseteq graph.relations /\ K # {}
  BY <1>1, ComponentsArePartition DEF E
<1>4. \A K \in Components(E, graph.relations) : Least(K) \in K
  BY <1>2, <1>3, LeastIs
<1> QED
  BY <1>1, <1>2, <1>3, <1>4

LEMMA OfferTypes ==
  ASSUME EnumInv, TypeInv, EnumInv', NEW S, NEW C, Offer(S, C), phase = "dp",
         UNCHANGED EnumVars
  PROVE  TypeInv'
<1>1. /\ UNCHANGED <<graph, component, solved, applied, fragments, grown, reordered>>
  BY DEF EnumVars
<1>2. S \subseteq graph.relations /\ C \subseteq graph.relations
  BY <1>1, OfferedSides
<1>3. graph \in Graphs /\ graph.cap \in Nat
  BY GraphTypes
<1> DEFINE steps == {st \in Steps(S, C) : Inputs(memo, st) # {}}
<1>4. Candidates(memo, steps) \subseteq PlanSet /\ Cardinality(steps) \in Nat
  <2>1. steps \subseteq Steps(S, C) /\ memo \subseteq PlanSet
    BY DEF TypeInv
  <2> HIDE DEF steps
  <2> QED
    BY <1>2, <1>3, <2>1, OfferedPlans
<1>5. \A n \in Nat : Spent(n) \in Nat
  BY <1>3 DEF Spent
<1>6. phase' \in {"dp", "thrown"}
  BY DEF Offer
<1> HIDE DEF steps
<1>7. memo' \in {memo, memo \cup Candidates(memo, steps)}
  BY DEF Offer, steps
<1>8. \/ count' = Spent(count + 1) \/ count' = count + 1
      \/ count' = Spent(count + 1 + Cardinality(steps))
  BY DEF Offer, steps
<1>9. count' \in Nat
  BY <1>4, <1>5, <1>8 DEF TypeInv
<1>10. PlanSet' = PlanSet /\ E' = E
  BY <1>1 DEF PlanSet, E
<1>11. memo' \subseteq PlanSet'
  BY <1>4, <1>7, <1>10 DEF TypeInv
<1> QED
  BY <1>1, <1>6, <1>9, <1>10, <1>11 DEF TypeInv, Phases

\* The plan that is returned is a plan, and so is what the next component starts from.
LEMMA ReturnTypes ==
  ASSUME EnumInv, TypeInv, NEW next \in Phases, Return(memo, next), graph' = graph
  PROVE  /\ phase' \in Phases /\ solved' \subseteq SUBSET graph.relations
         /\ applied' \subseteq DOMAIN E
<1>1. PICK p \in PlansOf(memo, component) :
        LET all == applied \cup p.applied
        IN IF Rest # {}
           THEN /\ component' = First(Rest) /\ solved' = solved \cup {component}
                /\ applied' = all /\ phase' = next
           ELSE /\ phase' = IF EdgesEnforced(E, graph.relations, all) THEN "done" ELSE "thrown"
                /\ applied' = {} /\ UNCHANGED <<component, solved>>
  BY DEF Return
<1>2. p \in PlanSet
  BY DEF PlansOf, TypeInv
<1>3. applied \cup p.applied \subseteq DOMAIN E
  BY <1>2 DEF PlanSet, TypeInv
<1>4. component \subseteq graph.relations
  BY GraphTypes
<1>5. phase' \in {next, "done", "thrown"} /\ solved' \in {solved, solved \cup {component}}
      /\ applied' \in {{}, applied \cup p.applied}
  BY <1>1
<1> QED
  BY <1>3, <1>4, <1>5 DEF TypeInv, Phases

LEMMA NextComponentTypes ==
  ASSUME EnumInv, TypeInv, NextComponent
  PROVE  memo' \subseteq PlanSet /\ count' \in Nat /\ fragments' = {}
<1> DEFINE K == IF Rest # {} THEN First(Rest) ELSE {}
<1>1. K \in SUBSET graph.relations /\ graph \in Graphs
  BY NextIs, GraphTypes
<1>2. memo' = memo \cup InitLeaves(graph, K) /\ count' \in {0, count} /\ fragments' = {}
  BY DEF NextComponent
<1> HIDE DEF K
<1> QED
  BY <1>1, <1>2, LeavesAre DEF TypeInv

LEMMA FallBackTypes ==
  ASSUME EnumInv, TypeInv, FallBack, UNCHANGED <<graph, grown, reordered, count>>
  PROVE  TypeInv'
<1> DEFINE K == First(Components(E, graph.relations))
<1>1. graph \in Graphs /\ Least(K) \in graph.relations
  BY NextIs, GraphTypes
<1>2. {Leaf(r) : r \in graph.relations} \subseteq PlanSet
  BY <1>1, LeavesAre
<1>3. /\ applied' = {} /\ solved' = {} /\ phase' \in {"fallback", "written"}
      /\ memo' \in {memo, {Leaf(r) : r \in graph.relations}}
      /\ fragments' \in {fragments, {{Least(K)}}}
  BY DEF FallBack
<1>4. PlanSet' = PlanSet /\ E' = E
  BY DEF PlanSet, E
<1> HIDE DEF K
<1>5. memo' \subseteq PlanSet' /\ fragments' \subseteq SUBSET graph'.relations
  BY <1>1, <1>2, <1>3, <1>4, SMTT(60) DEF TypeInv
<1> QED
  BY <1>3, <1>4, <1>5 DEF TypeInv, Phases

LEMMA SolveTypes == ASSUME EnumInv, TypeInv, EnumInv', Solve PROVE TypeInv'
<1>1. CASE UNCHANGED EnumVars /\ UNCHANGED <<phase, memo, count>>
  BY <1>1 DEF TypeInv, EnumVars, PlanSet, E
<1>2. CASE phase = "dp" /\ UNCHANGED EnumVars /\ \E S, C : Offer(S, C)
  BY <1>2, OfferTypes
<1>3. CASE SolveEnd
  <2>1. CASE Return(memo, "dp") /\ NextComponent /\ UNCHANGED <<graph, grown, reordered>>
    <3>1. "dp" \in Phases
      BY DEF Phases
    <3>2. /\ phase' \in Phases /\ solved' \subseteq SUBSET graph.relations
          /\ applied' \subseteq DOMAIN E
      BY <2>1, <3>1, ReturnTypes
    <3>3. memo' \subseteq PlanSet /\ count' \in Nat /\ fragments' = {}
      BY <2>1, NextComponentTypes
    <3> QED
      BY <2>1, <3>2, <3>3 DEF TypeInv, PlanSet, E
  <2>2. CASE FallBack /\ UNCHANGED <<graph, grown, reordered, count>>
    BY <2>2, FallBackTypes
  <2> QED
    BY <1>3, <2>1, <2>2 DEF SolveEnd
<1>4. CASE SolveGivesUp
  <2>1. CASE FallBack /\ UNCHANGED <<graph, grown, reordered, count>>
    BY <2>1, FallBackTypes
  <2>2. CASE /\ phase' = "greedy"
             /\ memo' = IF Single THEN InitLeaves(graph, component) ELSE memo
             /\ fragments' = {{r} : r \in component \ Expanded(E)}
             /\ UNCHANGED <<graph, component, solved, applied, grown, reordered, count>>
    <3>1. component \in SUBSET graph.relations /\ graph \in Graphs
      BY GraphTypes
    <3>2. InitLeaves(graph, component) \subseteq PlanSet
      BY <3>1, LeavesAre
    <3> QED
      BY <2>2, <3>1, <3>2 DEF TypeInv, PlanSet, E, Phases
  <2> QED
    BY <1>4, <2>1, <2>2 DEF SolveGivesUp
<1>5. CASE EmitCsg
  BY <1>5, <1>2 DEF EmitCsg, Running
<1>6. CASE CmpEmit
  BY <1>6, <1>1, <1>2 DEF CmpEmit, Running
<1> QED
  BY <1>1, <1>3, <1>4, <1>5, <1>6 DEF Solve, Seed, CsgEmit, CsgGrow, CmpGrow, LoopEnd

\* The pairs of a greedy round are pairs of fragments.
LEMMA GreedyPlans ==
  ASSUME graph \in Graphs, fragments \subseteq SUBSET graph.relations
  PROVE  /\ memo \subseteq PlanSet => WithFragmentPairs \subseteq PlanSet
         /\ (\A p \in memo : Keeps(p)) /\ ~AnyAmbiguous => \A p \in WithFragmentPairs : Keeps(p)
<1>1. ASSUME NEW q \in FragmentPairs
      PROVE  /\ memo \subseteq PlanSet => Candidates(memo, Steps(q[1], q[2])) \subseteq PlanSet
             /\ (\A p \in memo : Keeps(p)) /\ ~AnyAmbiguous
                  => \A p \in Candidates(memo, Steps(q[1], q[2])) : Keeps(p)
  <2> DEFINE S == q[1]
             C == q[2]
  <2>1. S \subseteq graph.relations /\ C \subseteq graph.relations
    BY DEF FragmentPairs
  <2>2. ~AnyAmbiguous => ~Ambiguous(S, C)
    BY DEF AnyAmbiguous
  <2> HIDE DEF S, C
  <2>3. /\ memo \subseteq PlanSet => Candidates(memo, Steps(S, C)) \subseteq PlanSet
        /\ (\A p \in memo : Keeps(p)) /\ ~AnyAmbiguous
                  => \A p \in Candidates(memo, Steps(S, C)) : Keeps(p)
    BY <2>1, <2>2, OfferedPlans
  <2> QED
    BY <2>3 DEF S, C
<1>2. \A p \in WithFragmentPairs :
        p \in memo \/ \E q \in FragmentPairs : p \in Candidates(memo, Steps(q[1], q[2]))
  BY DEF WithFragmentPairs
<1> QED
  BY <1>1, <1>2

LEMMA GreedyTypes == ASSUME EnumInv, TypeInv, Greedy PROVE TypeInv'
<1>1. graph \in Graphs
  BY GraphTypes
<1>2. graph' = graph /\ PlanSet' = PlanSet /\ E' = E
  BY DEF Greedy, GreedyMerge, GreedyExpand, ExpandUnnest, ExpandEnd, KeepsComponent, PlanSet, E
<1>3. CASE GreedyMerge
  <2>1. WithFragmentPairs \subseteq PlanSet
    BY <1>1, GreedyPlans DEF TypeInv
  <2>2. memo' \in {memo, WithFragmentPairs} /\ phase' \in {phase, "thrown"}
        /\ UNCHANGED <<solved, applied, count, grown, reordered>>
    BY <1>3 DEF GreedyMerge, KeepsComponent
  <2>3. fragments' \subseteq SUBSET graph.relations
    <3>1. fragments' = fragments \/ \E p \in FragmentPairs :
            fragments' = (fragments \ {p[1], p[2]}) \cup {p[1] \cup p[2]}
      BY <1>3 DEF GreedyMerge, Mergeable
    <3>2. \A p \in FragmentPairs : p[1] \subseteq graph.relations /\ p[2] \subseteq graph.relations
      BY DEF FragmentPairs, TypeInv
    <3> QED
      BY <3>1, <3>2 DEF TypeInv
  <2> QED
    BY <1>2, <2>1, <2>2, <2>3 DEF TypeInv, Phases
<1>4. CASE GreedyExpand
  <2>1. CASE FallBack /\ UNCHANGED <<graph, grown, reordered, count>>
    BY <2>1, FallBackTypes
  <2>2. CASE /\ grown' \in fragments /\ phase' = "expand"
             /\ UNCHANGED <<solved, applied, memo, fragments, count, reordered>>
    BY <1>2, <2>2 DEF TypeInv, Phases
  <2> QED
    BY <1>4, <2>1, <2>2 DEF GreedyExpand
<1>5. CASE ExpandUnnest
  <2>1. PICK i \in Ready(grown) : /\ memo' = memo \cup Expand(i, grown)
                                  /\ grown' = grown \cup E[i].right
                                  /\ fragments' = (fragments \ {grown}) \cup {grown \cup E[i].right}
    BY <1>5 DEF ExpandUnnest
  <2>2. i \in DOMAIN E /\ E[i].right \subseteq graph.relations
    BY <1>1, GraphFacts DEF Ready, E
  <2> DEFINE st == Step(grown, E[i].right, "unnest", {i}, {})
  <2>3. StepOK(st)
    BY <2>2, StepIs DEF StepOK, TypeInv, PlanTypes
  <2>4. Expand(i, grown) = Candidates(memo, {st})
    BY DEF Expand
  <2> HIDE DEF st
  <2>5. Expand(i, grown) \subseteq PlanSet
    BY <2>3, <2>4, CandidatesAre DEF TypeInv
  <2>6. UNCHANGED <<solved, applied, phase, count, reordered>>
    BY <1>5 DEF ExpandUnnest, KeepsComponent
  <2> QED
    BY <1>2, <2>1, <2>2, <2>5, <2>6 DEF TypeInv
<1>6. CASE ExpandEnd
  <2>1. grown' = {} /\ reordered' = reordered
    BY <1>6 DEF ExpandEnd
  <2>2. CASE phase' = "greedy" /\ KeepsComponent /\ UNCHANGED <<memo, fragments, seeds, count>>
    BY <1>2, <2>1, <2>2 DEF TypeInv, Phases, KeepsComponent
  <2>3. CASE Return(memo, "dp") /\ NextComponent
    <3>1. "dp" \in Phases
      BY DEF Phases
    <3>2. /\ phase' \in Phases /\ solved' \subseteq SUBSET graph.relations
          /\ applied' \subseteq DOMAIN E
      BY <1>2, <2>3, <3>1, ReturnTypes
    <3>3. memo' \subseteq PlanSet /\ count' \in Nat /\ fragments' = {}
      BY <2>3, NextComponentTypes
    <3> QED
      BY <1>2, <2>1, <3>2, <3>3 DEF TypeInv
  <2>4. CASE FallBack /\ UNCHANGED <<seeds, count>>
    <3> DEFINE K == First(Components(E, graph.relations))
    <3>1. Least(K) \in graph.relations
      BY NextIs, GraphTypes
    <3>2. {Leaf(r) : r \in graph.relations} \subseteq PlanSet
      BY <1>1, LeavesAre
    <3>3. /\ applied' = {} /\ solved' = {} /\ phase' \in {"fallback", "written"}
          /\ memo' \in {memo, {Leaf(r) : r \in graph.relations}}
          /\ fragments' \in {fragments, {{Least(K)}}}
      BY <2>4 DEF FallBack
    <3> HIDE DEF K
    <3> QED
      BY <1>2, <2>1, <2>4, <3>1, <3>2, <3>3 DEF TypeInv, Phases
  <2> QED
    BY <1>6, <2>2, <2>3, <2>4 DEF ExpandEnd
<1> QED
  BY <1>3, <1>4, <1>5, <1>6 DEF Greedy

LEMMA FallbackTypes == ASSUME EnumInv, TypeInv, Fallback PROVE TypeInv'
<1>1. graph \in Graphs /\ component \subseteq graph.relations
  BY GraphTypes
<1>2. graph' = graph /\ PlanSet' = PlanSet /\ E' = E
  BY DEF Fallback, FallbackJoin, FallbackEnd, KeepsComponent, PlanSet, E
<1>3. CASE FallbackJoin
  <2>1. PICK r \in component \ placed :
          /\ LET st == Step(placed, {r}, "inner",
                            CanonicalKeyEdges(E, CrossingJoins(E, placed, {r})),
                            CrossingFilters(E, placed, {r}))
             IN memo' = memo \cup {Plan(st, below) : below \in Inputs(memo, st)}
          /\ fragments' = {placed \cup {r}}
          /\ reordered' = (reordered \/ r # Least(component \ placed))
    BY <1>3 DEF FallbackJoin
  <2> DEFINE keys == CanonicalKeyEdges(E, CrossingJoins(E, placed, {r}))
             st == Step(placed, {r}, "inner", keys, CrossingFilters(E, placed, {r}))
  <2>2. placed \subseteq graph.relations /\ {r} \subseteq graph.relations
    BY <1>1 DEF placed, TypeInv
  <2>3. keys \subseteq DOMAIN E /\ CrossingFilters(E, placed, {r}) \subseteq DOMAIN E
    BY CrossingIs DEF CanonicalKeyEdges
  <2> HIDE DEF keys
  <2>4. StepOK(st)
    BY <2>2, <2>3, StepIs DEF StepOK, PlanTypes
  <2>5. memo' = memo \cup {Plan(st, below) : below \in Inputs(memo, st)}
    BY <2>1 DEF keys
  <2> HIDE DEF st
  <2>6. memo' \subseteq PlanSet
    BY <2>4, <2>5, PlanIs DEF TypeInv
  <2>7. UNCHANGED <<solved, applied, phase, count, grown>>
    BY <1>3 DEF FallbackJoin, KeepsComponent
  <2> QED
    BY <1>2, <2>1, <2>2, <2>6, <2>7 DEF TypeInv
<1>4. CASE FallbackEnd
  <2>1. UNCHANGED <<memo, count, grown, reordered>>
    BY <1>4 DEF FallbackEnd
  <2>2. CASE /\ Return(memo, "fallback")
             /\ fragments' = IF Rest # {} THEN {{Least(First(Rest))}} ELSE fragments
    <3>1. "fallback" \in Phases
      BY DEF Phases
    <3>2. /\ phase' \in Phases /\ solved' \subseteq SUBSET graph.relations
          /\ applied' \subseteq DOMAIN E
      BY <1>2, <2>2, <3>1, ReturnTypes
    <3>3. Rest # {} => Least(First(Rest)) \in graph.relations
      BY NextIs, GraphTypes
    <3> QED
      BY <1>2, <2>1, <2>2, <3>2, <3>3 DEF TypeInv
  <2>3. CASE phase' = "written" /\ applied' = {} /\ UNCHANGED <<component, solved, fragments>>
    BY <1>2, <2>1, <2>3 DEF TypeInv, Phases
  <2> QED
    BY <1>4, <2>2, <2>3 DEF FallbackEnd
<1> QED
  BY <1>3, <1>4 DEF Fallback

LEMMA TypeInvInit == ASSUME Init, EnumInv PROVE TypeInv
<1>1. graph \in Graphs /\ component \in SUBSET graph.relations
  BY GraphTypes
<1>2. InitLeaves(graph, component) \subseteq PlanSet
  BY <1>1, LeavesAre
<1> QED
  BY <1>2 DEF Init, TypeInv, Phases

LEMMA TypeInvNext == ASSUME EnumInv, TypeInv, EnumInv', [Next]_vars PROVE TypeInv'
<1>1. CASE UNCHANGED vars
  BY <1>1 DEF vars, TypeInv, PlanSet, E
<1> QED
  BY <1>1, SolveTypes, GreedyTypes, FallbackTypes DEF Next, Over

\* The state of the enumeration, the greedy order and the fallback keeps its
\* types for every cluster and budget (Enumerator, FallbackJoinPlanner).
THEOREM TypeCorrect == Spec => []TypeOK
<1>1. Init /\ EnumInv => TypeInv
  BY TypeInvInit
<1>2. EnumInv /\ EnumInv' /\ TypeInv /\ [Next]_vars => TypeInv'
  BY TypeInvNext
<1>3. EnumInv /\ TypeInv => TypeOK
  <2> SUFFICES ASSUME EnumInv, TypeInv PROVE TypeOK
    OBVIOUS
  <2>1. component \subseteq graph.relations
    BY GraphTypes
  <2>2. stack \in Seq(Frames) /\ emitted \in Seq((SUBSET Nat) \X (SUBSET Nat))
    BY DEF EnumInv, StackInv, StackOK, EmittedInv, EmittedOK
  <2>3. seeds \subseteq component
    BY DEF EnumInv, GraphInv
  <2> QED
    BY <2>1, <2>2, <2>3 DEF TypeOK, TypeInv, PlanSet
<1> QED
  BY <1>1, <1>2, <1>3, EnumInvariant, PTL DEF Spec

(***************************************************************************)
(* Joins that cannot be filters.  greedy() expands Unnests without looking *)
(* at the other edges, so nothing is claimed of its plans once it may have *)
(* done so.  The budget is per component and the memo is not: a graph of   *)
(* several components with Unnests and a budget is left out, since it may  *)
(* meet such plans of an earlier component when its budget is fresh.       *)
(***************************************************************************)
Covered(g) == \/ g.cap = 0 \/ Expanded(g.edges) = {}
              \/ Components(g.edges, g.relations) = {g.relations}
Claimed == ~Exceeded \/ Expanded(E) = {}

\* greedy() runs on an exceeded budget only, and the fallback only where no edge
\* is special.
OuterInv == /\ phase \in {"greedy", "expand"} => Exceeded
            /\ phase = "fallback" => AllInner
            /\ Claimed => \A p \in memo : Keeps(p)

\* Where all edges are plain any plan will do.
LEMMA InnerKeeps == ASSUME AllInner, NEW p PROVE Keeps(p)
BY DEF AllInner, Keeps

LEMMA SameGraph ==
  ASSUME graph' = graph
  PROVE  /\ E' = E /\ (AllInner' <=> AllInner)
         /\ \A p : Keeps(p)' <=> Keeps(p)
BY DEF E, AllInner, Keeps

\* A budget that is exceeded stays so until the next component, where the graph
\* has one.
LEMMA ClaimedBefore ==
  ASSUME EnumInv, TypeInv, Covered(graph), graph' = graph,
         count' = count \/ Rest # {}
  PROVE  Claimed' => Claimed
<1>1. graph.cap \in Nat /\ E' = E
  BY GraphTypes DEF E
<1>2. CASE graph.cap = 0
  BY <1>1, <1>2 DEF Claimed, Exceeded
<1>3. CASE Expanded(E) = {}
  BY <1>3 DEF Claimed
<1>4. CASE Components(E, graph.relations) = {graph.relations}
  <2>1. Rest = {}
    BY <1>4 DEF Rest, EnumInv, GraphInv
  <2> QED
    BY <1>1, <2>1 DEF Claimed, Exceeded
<1> QED
  BY <1>2, <1>3, <1>4 DEF Covered, E

LEMMA OfferOuter ==
  ASSUME EnumInv, TypeInv, EnumInv', OuterInv, Covered(graph), NEW S, NEW C, Offer(S, C),
         phase = "dp", ~Exceeded, UNCHANGED EnumVars
  PROVE  OuterInv'
<1>1. graph' = graph /\ graph \in Graphs /\ phase' \in {"dp", "thrown"}
  BY GraphTypes DEF EnumVars, Offer
<1>2. \A p \in memo : Keeps(p)
  BY DEF OuterInv, Claimed
<1> DEFINE steps == {st \in Steps(S, C) : Inputs(memo, st) # {}}
<1>3. memo' = memo \/ (~Ambiguous(S, C) /\ memo' = memo \cup Candidates(memo, steps))
  BY DEF Offer
<1>4. steps \subseteq Steps(S, C)
  OBVIOUS
<1> HIDE DEF steps
<1>5. \A p \in memo' : Keeps(p)
  BY <1>1, <1>2, <1>3, <1>4, OfferedPlans
<1> QED
  BY <1>1, <1>5, SameGraph DEF OuterInv

LEMMA FallBackOuter ==
  ASSUME EnumInv, TypeInv, OuterInv, Covered(graph), FallBack, UNCHANGED <<graph, count>>
  PROVE  OuterInv'
<1>1. CASE AllInner
  <2>1. phase' = "fallback"
    BY <1>1 DEF FallBack
  <2> QED
    BY <1>1, <2>1, InnerKeeps, SameGraph DEF OuterInv
<1>2. CASE ~AllInner
  <2>1. phase' = "written" /\ memo' = memo
    BY <1>2 DEF FallBack
  <2>2. Claimed' => Claimed
    BY ClaimedBefore
  <2> QED
    BY <2>1, <2>2, SameGraph DEF OuterInv
<1> QED
  BY <1>1, <1>2

LEMMA ReturnOuter ==
  ASSUME EnumInv, TypeInv, OuterInv, Covered(graph), Return(memo, "dp"), NextComponent,
         graph' = graph
  PROVE  OuterInv'
<1>1. phase' \in {"dp", "done", "thrown"}
  BY DEF Return
<1>2. count' = count \/ Rest # {}
  BY DEF NextComponent
<1>3. Claimed' => Claimed
  BY <1>2, ClaimedBefore
<1> DEFINE K == IF Rest # {} THEN First(Rest) ELSE {}
<1>4. K \in SUBSET graph.relations /\ graph \in Graphs
  BY NextIs, GraphTypes
<1>5. memo' = memo \cup InitLeaves(graph, K)
  BY DEF NextComponent
<1> HIDE DEF K
<1>6. \A p \in InitLeaves(graph, K) : Keeps(p)
  BY <1>4, LeavesAre, SMTT(60)
<1> QED
  BY <1>1, <1>3, <1>5, <1>6, SameGraph DEF OuterInv

LEMMA SolveOuter ==
  ASSUME EnumInv, TypeInv, EnumInv', OuterInv, Covered(graph), Solve
  PROVE  OuterInv'
<1>1. CASE phase = "dp" /\ UNCHANGED EnumVars /\ UNCHANGED <<phase, memo, count>>
  BY <1>1, SameGraph DEF OuterInv, EnumVars, Claimed, Exceeded
<1>2. CASE phase = "dp" /\ ~Exceeded /\ UNCHANGED EnumVars /\ \E S, C : Offer(S, C)
  BY <1>2, OfferOuter
<1>3. CASE SolveEnd
  BY <1>3, ReturnOuter, FallBackOuter DEF SolveEnd
<1>4. CASE SolveGivesUp
  <2>1. CASE FallBack
    BY <1>4, <2>1, FallBackOuter DEF SolveGivesUp
  <2>2. CASE /\ phase' = "greedy"
             /\ memo' = IF Single THEN InitLeaves(graph, component) ELSE memo
    <3>1. component \in SUBSET graph.relations /\ graph \in Graphs
      BY GraphTypes
    <3>2. \A p \in InitLeaves(graph, component) : Keeps(p)
      BY <3>1, LeavesAre
    <3>3. graph' = graph /\ count' = count /\ Exceeded
      BY <1>4 DEF SolveGivesUp
    <3>4. Exceeded' /\ (Claimed' => Claimed)
      BY <3>3, SameGraph DEF Exceeded, Claimed
    <3> QED
      BY <2>2, <3>2, <3>3, <3>4, SameGraph DEF OuterInv
  <2> QED
    BY <1>4, <2>1, <2>2 DEF SolveGivesUp
<1>5. CASE EmitCsg
  BY <1>5, <1>2 DEF EmitCsg, Running
<1>6. CASE CmpEmit
  BY <1>6, <1>1, <1>2 DEF CmpEmit, Running
<1> QED
  BY <1>1, <1>3, <1>4, <1>5, <1>6 DEF Solve, Seed, CsgEmit, CsgGrow, CmpGrow, LoopEnd, Running

LEMMA GreedyOuter ==
  ASSUME EnumInv, TypeInv, OuterInv, Covered(graph), Greedy
  PROVE  OuterInv'
<1>1. graph' = graph /\ graph \in Graphs /\ phase \in {"greedy", "expand"}
  BY GraphTypes
     DEF Greedy, GreedyMerge, GreedyExpand, Stuck, Last, ExpandUnnest, ExpandEnd, KeepsComponent
<1>2. Exceeded
  BY <1>1 DEF OuterInv
<1>3. ASSUME count' = count, phase' \in {"greedy", "expand", "thrown"},
             Claimed => \A p \in memo' : Keeps(p)
      PROVE  OuterInv'
  <2>1. Exceeded' /\ (Claimed' => Claimed)
    BY <1>1, <1>2, <1>3, SameGraph DEF Exceeded, Claimed
  <2> QED
    BY <1>1, <1>3, <2>1, SameGraph DEF OuterInv
<1>4. CASE GreedyMerge
  <2>1. count' = count /\ phase' \in {"greedy", "thrown"}
        /\ (memo' = memo \/ (~AnyAmbiguous /\ memo' = WithFragmentPairs))
    BY <1>4 DEF GreedyMerge
  <2>2. Claimed => \A p \in memo' : Keeps(p)
    BY <1>1, <2>1, GreedyPlans DEF OuterInv, TypeInv
  <2> QED
    BY <1>3, <2>1, <2>2
<1>5. CASE GreedyExpand
  <2>1. CASE FallBack
    BY <1>1, <1>5, <2>1, FallBackOuter DEF GreedyExpand
  <2>2. CASE phase' = "expand" /\ memo' = memo
    BY <1>3, <1>5, <2>2 DEF GreedyExpand, OuterInv
  <2> QED
    BY <1>5, <2>1, <2>2 DEF GreedyExpand
<1>6. CASE ExpandUnnest
  <2>1. count' = count /\ phase' = "expand"
    BY <1>6 DEF ExpandUnnest
  <2>2. Expanded(E) # {}
    <3>1. PICK i \in DOMAIN E : E[i].unnest
      BY <1>6 DEF ExpandUnnest, Ready
    <3>2. E[i].right # {}
      BY <1>1, GraphFacts DEF E
    <3> QED
      BY <3>1, <3>2 DEF Expanded
  <2>3. ~Claimed
    BY <1>2, <2>2 DEF Claimed
  <2> QED
    BY <1>3, <2>1, <2>3
<1>7. CASE ExpandEnd
  <2>1. CASE FallBack /\ UNCHANGED <<seeds, count>>
    BY <1>1, <2>1, FallBackOuter
  <2>2. CASE Return(memo, "dp") /\ NextComponent
    BY <1>1, <2>2, ReturnOuter
  <2>3. CASE phase' = "greedy" /\ UNCHANGED <<memo, fragments, seeds, count>>
    BY <1>3, <2>3 DEF OuterInv
  <2> QED
    BY <1>7, <2>1, <2>2, <2>3 DEF ExpandEnd
<1> QED
  BY <1>4, <1>5, <1>6, <1>7 DEF Greedy

LEMMA FallbackOuter == ASSUME EnumInv, OuterInv, Fallback PROVE OuterInv'
<1>1. graph' = graph /\ phase = "fallback" /\ phase' \in {"fallback", "written", "done", "thrown"}
  BY DEF Fallback, FallbackJoin, FallbackEnd, KeepsComponent, Return
<1>2. AllInner
  BY <1>1 DEF OuterInv
<1> QED
  BY <1>1, <1>2, InnerKeeps, SameGraph DEF OuterInv

LEMMA OuterInvNext ==
  ASSUME EnumInv, TypeInv, EnumInv', OuterInv, Covered(graph), [Next]_vars
  PROVE  OuterInv'
<1>1. CASE UNCHANGED vars
  BY <1>1, SameGraph DEF vars, OuterInv, Claimed, Exceeded
<1> QED
  BY <1>1, SolveOuter, GreedyOuter, FallbackOuter DEF Next, Over

LEMMA OuterInvInit == ASSUME Init, EnumInv PROVE OuterInv
<1>1. graph \in Graphs /\ component \in SUBSET graph.relations
  BY GraphTypes
<1>2. \A p \in InitLeaves(graph, component) : Keeps(p)
  BY <1>1, LeavesAre
<1> QED
  BY <1>2 DEF Init, OuterInv

\* For every cluster, no plan drops an outer, semi or anti join or an Unnest
\* within its cover or makes a filter of it, when the enumeration found it or
\* greedy() did without expanding Unnests (emitCsgCmp(), emitSingleEdge()).
THEOREM OuterEdgesAreApplied ==
  ASSUME \A g \in Graphs : Covered(g)
  PROVE  Spec => []OuterEdgesApplied
<1>1. Init /\ EnumInv => TypeInv /\ OuterInv
  BY TypeInvInit, OuterInvInit
<1>2. EnumInv /\ EnumInv' /\ TypeInv /\ OuterInv /\ [Next]_vars => TypeInv' /\ OuterInv'
  <2> SUFFICES ASSUME EnumInv, EnumInv', TypeInv, OuterInv, [Next]_vars
               PROVE  TypeInv' /\ OuterInv'
    OBVIOUS
  <2>1. Covered(graph)
    BY GraphTypes
  <2> QED
    BY <2>1, TypeInvNext, OuterInvNext
<1>3. OuterInv => OuterEdgesApplied
  BY DEF OuterInv, Claimed, Keeps, OuterEdgesApplied
<1> QED
  BY <1>1, <1>2, <1>3, EnumInvariant, PTL DEF Spec
=============================================================================
