-------------------------------- MODULE DPhyp --------------------------------
(***************************************************************************)
(* Join ordering of optimizer v2: the DPhyp enumeration of connected       *)
(* subgraphs and their complements with its memo of plans and its budget,  *)
(* the greedy ordering used when the budget runs out, and the order used   *)
(* when no plan has a cost.  One step of this module is one pair offered   *)
(* to the memo, one frame of the recursion, or one greedy merge.           *)
(*                                                                         *)
(* A plan of the memo is the operator on top of it: the covers of its      *)
(* inputs, its join type, the edges that are its condition (keys) or that  *)
(* filter its output (filters), and the edges its whole tree applies.  The *)
(* cost of a plan is abstracted: the memo keeps every candidate, and any   *)
(* plan of a cover may be the cheapest.  Candidates are those of a single  *)
(* worker, which adds no exchanges.                                        *)
(***************************************************************************)
EXTENDS JoinHypergraph

\* Each graph is a record with its relations, its sequence of edges, the
\* relations without statistics (no plan that joins one has a cost), the
\* enumeration budget (0 when unlimited), whether a cross join was dissolved in
\* it, and the query it was built from.
CONSTANT Graphs

ASSUME GraphsAssumption ==
  \A g \in Graphs :
    /\ g.relations \subseteq Nat /\ IsFiniteSet(g.relations)
    /\ g.relations # {} /\ g.noStats \subseteq g.relations /\ g.cap \in Nat
    /\ g.crossed \in BOOLEAN
    /\ g.edges \in Seq([left : SUBSET g.relations, right : SUBSET g.relations,
                        ends : SUBSET g.relations,
                        type : {"inner", "left", "full", "semi", "mark", "anti"},
                        unnest : BOOLEAN,
                        keys : {e.keys : e \in {g.edges[i] : i \in DOMAIN g.edges}},
                        filter : {e.filter : e \in {g.edges[i] : i \in DOMAIN g.edges}}])
    /\ \A i \in DOMAIN g.edges : /\ g.edges[i].left # {} /\ g.edges[i].right # {}
                                 /\ ~Meets(g.edges[i].left, g.edges[i].right)
                                 /\ g.edges[i].unnest =>
                                      \E u \in g.relations : g.edges[i].right = {u}

VARIABLES
  graph,      \* the cluster being ordered
  component,  \* the connected component of it being planned
  solved,     \* the components that have a root
  applied,    \* the edges that those roots apply
  phase,      \* "dp", "greedy", "expand", "fallback", "done", "written" or "thrown"
  seeds,      \* relations still to be seeded by solveComponent()
  stack,      \* frames of the recursion, the running one first
  memo,       \* memo_: the plans found so far
  count,      \* EnumerationBudget::count_
  emitted,    \* the pairs offered to emitCsgCmp() by the recursion, in order
  fragments,  \* greedy(): the covers still to be merged; the fallback's prefix
  grown,      \* the fragment that expandThroughUnnests() is expanding
  reordered   \* FallbackJoinPlanner::reordered_

vars == <<graph, component, solved, applied, phase, seeds, stack, memo, count, emitted,
          fragments, grown, reordered>>

E == graph.edges

(***************************************************************************)
(* Plans.                                                                  *)
(***************************************************************************)
Leaf(r) == [left |-> {r}, right |-> {}, type |-> "leaf", keys |-> {}, filters |-> {},
            applied |-> {}]
Cover(p) == p.left \cup p.right
InitLeaves(g, K) == {Leaf(r) : r \in K \ Expanded(g.edges)}

PlansOf(m, S) == {p \in m : Cover(p) = S}
HasPlan(m, S) == PlansOf(m, S) # {}

\* One operator over covers L and R; an Unnest has its relation as R.
Step(L, R, type, keys, filters) ==
  [left |-> L, right |-> R, type |-> type, keys |-> keys, filters |-> filters]

SwapType(type) == CASE type = "left"  -> "right"    [] type = "right" -> "left"
                    [] type = "semi"  -> "rightSemi" [] type = "mark" -> "rightMark"
                    [] OTHER -> type

KeepsBothInputs(type) == type \in {"inner", "left", "full"}

(***************************************************************************)
(* emitCsgCmp(): the operators that join S with its complement C.          *)
(***************************************************************************)
\* Crossing edges that are not plain inner edges.
Specials(S, C) == {i \in CrossingJoins(E, S, C) : ~IsPlain(E[i])}

\* emitSingleEdge(): edge i played forward or backward, both ways around.  (An
\* input that reads the state of a loop, or a null-aware join with a filter, has
\* one way only; no cluster here has either.)
Orientations(i, S, C, filters) ==
  LET l == IF Forward(E[i], S, C) THEN S ELSE C
      r == IF Forward(E[i], S, C) THEN C ELSE S
  IN {Step(l, r, E[i].type, {i}, filters),
      Step(r, l, IF E[i].type = "anti" THEN "reversedAnti" ELSE SwapType(E[i].type),
           {i}, filters)}

\* applyCrossingEdge(): an Unnest expands S only by its own relation.
ApplyEdge(i, S, C, filters) ==
  IF ~E[i].unnest THEN Orientations(i, S, C, filters)
  ELSE IF C = E[i].right THEN {Step(S, C, "unnest", {i}, filters)} ELSE {}

\* The one edge that joins, and the edges that filter what it produces.
IsOnly(i, I) == I = {i}
SingleEdge(S, C) ==
  LET joins == CrossingJoins(E, S, C)
      edge  == CHOOSE i \in joins : IsOnly(i, joins) \/ IsOnly(i, Specials(S, C))
      filters == CrossingFilters(E, S, C) \cup (joins \ {edge})
  IN IF filters = {} \/ E[edge].unnest \/ KeepsBothInputs(E[edge].type)
     THEN ApplyEdge(edge, S, C, filters) ELSE {}

\* Variant: counts the edges from zero.
InnerEdgesStepFromZero(S, C) ==
  LET keys == {i - 1 : i \in CanonicalKeyEdges(E, CrossingJoins(E, S, C))}
  IN {Step(S, C, "inner", keys, {}), Step(C, S, "inner", keys, {})}

InnerEdgesStep(S, C) ==
  LET keys == CanonicalKeyEdges(E, CrossingJoins(E, S, C))
      filters == CrossingFilters(E, S, C)
  IN {Step(S, C, "inner", keys, filters), Step(C, S, "inner", keys, filters)}

Steps(S, C) ==
  LET joins == CrossingJoins(E, S, C)
  IN IF ~CanCross(E, S, C) \/ joins = {} THEN {}
     ELSE IF \E i \in joins : IsOnly(i, joins) \/ IsOnly(i, Specials(S, C)) THEN SingleEdge(S, C)
     ELSE InnerEdgesStep(S, C)

\* The check that at most one of several crossing edges is special fails.
Ambiguous(S, C) == CanCross(E, S, C) /\ \E i, j \in Specials(S, C) : i # j

\* addJoinCandidate(), emitUnnest(): a step over a plan of each input.  The
\* input of an Unnest is its left side alone.
Plan(st, below) == [left |-> st.left, right |-> st.right, type |-> st.type,
                    keys |-> st.keys, filters |-> st.filters,
                    applied |-> st.keys \cup st.filters \cup below]
\* Variant: collects the applied edges of the left input only.
InputsLeftOnly(m, st) == IF PlansOf(m, st.right) = {} /\ st.type # "unnest" THEN {}
                         ELSE {p.applied : p \in PlansOf(m, st.left)}
Inputs(m, st) == IF st.type = "unnest" THEN {p.applied : p \in PlansOf(m, st.left)}
                 ELSE {p[1].applied \cup p[2].applied :
                         p \in PlansOf(m, st.left) \X PlansOf(m, st.right)}
Costable(st) == ~Meets(st.left \cup st.right, graph.noStats)
Candidates(m, steps) ==
  UNION {{Plan(st, below) : below \in Inputs(m, st)} : st \in {s \in steps : Costable(s)}}

(***************************************************************************)
(* The budget.  Every offered pair and every candidate costs one unit; the *)
(* pair that trips the budget is not evaluated.                            *)
(***************************************************************************)
Exceeded == graph.cap > 0 /\ count > graph.cap
WithinBudget == graph.cap = 0 \/ count < graph.cap
Spent(n) == IF graph.cap > 0 /\ n > graph.cap THEN graph.cap + 1 ELSE n

\* emitCsgCmp(S, C) during the enumeration.
Offer(S, C) ==
  /\ emitted' = Append(emitted, <<S, C>>)
  /\ IF ~WithinBudget
     THEN count' = Spent(count + 1) /\ UNCHANGED <<memo, phase>>
     ELSE IF Ambiguous(S, C)
     THEN phase' = "thrown" /\ count' = count + 1 /\ UNCHANGED memo
     ELSE LET steps == {st \in Steps(S, C) : Inputs(memo, st) # {}}
          IN /\ memo' = memo \cup Candidates(memo, steps)
             /\ count' = Spent(count + 1 + Cardinality(steps))
             /\ UNCHANGED phase

(***************************************************************************)
(* The recursion: emitCsg, enumerateCsgRec and enumerateCmpRec.  A frame   *)
(* holds its arguments (subgraph s, complement c, forbidden x) and what    *)
(* its loop has still to visit.  The two loops of a Rec function, emit and *)
(* grow, are two frames.                                                   *)
(***************************************************************************)
Prefix(r) == 0..r
Frame(op, s, c, x, todo) == [op |-> op, s |-> s, c |-> c, x |-> x, todo |-> todo]
Subsets(N) == (SUBSET N) \ {{}}

\* Variant: only forbids the smallest relation itself.
CsgNoPrefix(S) == LET x == {Least(S)}
                  IN Frame("csg", S, {}, x, {{v} : v \in Neighborhood(E, S, x)})

Csg(S) == LET x == Prefix(Least(S))
          IN Frame("csg", S, {}, x, {{v} : v \in Neighborhood(E, S, x)})
CsgRec(op, S, x) == Frame(op, S, {}, x, Subsets(Neighborhood(E, S, x)))
CmpRec(op, S, C, x) == Frame(op, S, C, x, Subsets(Neighborhood(E, C, x)))

\* The order of the two loops of a Rec function.
CsgLoops == <<"csgEmit", "csgGrow">>
CmpLoops == <<"cmpEmit", "cmpGrow">>

\* A call returns at once when there are no neighbours.
Call(frame) == IF frame.todo = {} THEN <<>> ELSE <<frame>>

\* subsetsBySize(): by size, then as a bit set.
Before(A, B) ==
  \/ Cardinality(A) < Cardinality(B)
  \/ /\ Cardinality(A) = Cardinality(B)
     /\ \E r \in B \ A : \A q \in A \ B : q < r
Next1(todo, sub) == sub \in todo /\ \A other \in todo \ {sub} : Before(sub, other)
Largest(S) == CHOOSE m \in S : \A n \in S : n <= m

top == Head(stack)
Visited(sub) == [top EXCEPT !.todo = @ \ {sub}]
Running(op) == phase = "dp" /\ ~Exceeded /\ stack # <<>> /\ top.op = op

KeepsComponent == UNCHANGED <<graph, component, solved, applied>>
EnumVars == <<graph, component, solved, applied, fragments, grown, reordered>>

\* solveComponent(): the next seed, by descending id.
Seed ==
  /\ phase = "dp" /\ ~Exceeded /\ stack = <<>> /\ seeds # {}
  /\ LET r == Largest(seeds)
     IN /\ seeds' = seeds \ {r}
        /\ stack' = Call(Csg({r})) \o Call(CsgRec(CsgLoops[1], {r}, Prefix(r)))
  /\ UNCHANGED EnumVars /\ UNCHANGED <<phase, memo, count, emitted>>

\* What the complement seeded by v may not grow into: the relations forbidden
\* to the subgraph, the subgraph, and the neighbours up to v.
\* Variant: leaves out the neighbours.
CmpForbiddenNoTail(v) == top.x \cup top.s
CmpForbidden(v) == top.x \cup top.s \cup (Prefix(v) \cap Neighborhood(E, top.s, top.x))

\* emitCsg(): the next neighbour, by descending id, is offered as the
\* complement and then grown.
EmitCsg ==
  /\ Running("csg") /\ top.todo # {}
  /\ LET v == Largest(UNION top.todo)
     IN /\ Offer(top.s, {v})
        /\ stack' = Call(CmpRec(CmpLoops[1], top.s, {v}, CmpForbidden(v)))
                    \o <<Visited({v})>> \o Tail(stack)
  /\ UNCHANGED EnumVars /\ UNCHANGED seeds

\* enumerateCsgRec(), first loop: emitCsg for each grown subgraph with a plan.
CsgEmit ==
  /\ Running("csgEmit")
  /\ \E sub \in top.todo :
       /\ Next1(top.todo, sub)
       /\ stack' = (IF HasPlan(memo, top.s \cup sub) THEN Call(Csg(top.s \cup sub)) ELSE <<>>)
                   \o <<Visited(sub)>> \o Tail(stack)
  /\ UNCHANGED EnumVars /\ UNCHANGED <<phase, seeds, memo, count, emitted>>

\* Second loop: recurse into each grown subgraph.
CsgGrow ==
  /\ Running("csgGrow")
  /\ \E sub \in top.todo :
       /\ Next1(top.todo, sub)
       /\ stack' = Call(CsgRec(CsgLoops[1], top.s \cup sub,
                               top.x \cup Neighborhood(E, top.s, top.x)))
                   \o <<Visited(sub)>> \o Tail(stack)
  /\ UNCHANGED EnumVars /\ UNCHANGED <<phase, seeds, memo, count, emitted>>

\* enumerateCmpRec(), first loop: offer each grown complement with a plan.
CmpEmit ==
  /\ Running("cmpEmit")
  /\ \E sub \in top.todo :
       /\ Next1(top.todo, sub)
       /\ stack' = <<Visited(sub)>> \o Tail(stack)
       /\ IF HasPlan(memo, top.c \cup sub) THEN Offer(top.s, top.c \cup sub)
          ELSE UNCHANGED <<phase, memo, count, emitted>>
  /\ UNCHANGED EnumVars /\ UNCHANGED seeds

CmpGrow ==
  /\ Running("cmpGrow")
  /\ \E sub \in top.todo :
       /\ Next1(top.todo, sub)
       /\ stack' = Call(CmpRec(CmpLoops[1], top.s, top.c \cup sub,
                               top.x \cup Neighborhood(E, top.c, top.x)))
                   \o <<Visited(sub)>> \o Tail(stack)
  /\ UNCHANGED EnumVars /\ UNCHANGED <<phase, seeds, memo, count, emitted>>

\* The end of a loop: the emit loop of a Rec function is followed by its grow
\* loop, any other frame returns.
LoopEnd ==
  /\ phase = "dp" /\ ~Exceeded /\ stack # <<>> /\ top.todo = {}
  /\ stack' = (CASE top.op = CsgLoops[1] -> <<CsgRec(CsgLoops[2], top.s, top.x)>>
                 [] top.op = CmpLoops[1] -> <<CmpRec(CmpLoops[2], top.s, top.c, top.x)>>
                 [] OTHER -> <<>>) \o Tail(stack)
  /\ UNCHANGED EnumVars /\ UNCHANGED <<phase, seeds, memo, count, emitted>>

(***************************************************************************)
(* enumerate(): what follows the enumeration of a component.               *)
(***************************************************************************)
First(Ks) == CHOOSE K \in Ks : \A L \in Ks : Least(K) <= Least(L)
Rest == Components(E, graph.relations) \ (solved \cup {component})
Single == Components(E, graph.relations) = {graph.relations}

\* The component has a root, any of its plans.  The first of the rest follows,
\* in phase next; after the last, checkEdgesEnforced() is asked of all roots.
Return(m, next) ==
  \E p \in PlansOf(m, component) :
    LET all == applied \cup p.applied
    IN IF Rest # {}
       THEN /\ component' = First(Rest) /\ solved' = solved \cup {component}
            /\ applied' = all /\ phase' = next
       ELSE /\ phase' = IF EdgesEnforced(E, graph.relations, all) THEN "done" ELSE "thrown"
            /\ applied' = {} /\ UNCHANGED <<component, solved>>

AllInner == \A i \in DOMAIN E : IsPlain(E[i])

\* No plan: FallbackJoinPlanner joins the components of an inner cluster in id
\* order, anything else keeps the written order.
FallBack ==
  /\ applied' = {} /\ solved' = {}
  /\ IF AllInner
     THEN LET K == First(Components(E, graph.relations))
          IN /\ phase' = "fallback" /\ memo' = {Leaf(r) : r \in graph.relations}
             /\ component' = K /\ fragments' = {{Least(K)}}
     ELSE phase' = "written" /\ UNCHANGED <<component, memo, fragments>>

\* solveComponent() of the next component: the budget and the leaves are its
\* own, the memo is shared.
NextComponent ==
  LET K == IF Rest # {} THEN First(Rest) ELSE {}
  IN /\ seeds' = K \ Expanded(E) /\ memo' = memo \cup InitLeaves(graph, K)
     /\ count' = IF Rest # {} THEN 0 ELSE count
     /\ fragments' = {}

SolveEnd ==
  /\ phase = "dp" /\ ~Exceeded /\ stack = <<>> /\ seeds = {}
  /\ IF HasPlan(memo, component) THEN Return(memo, "dp") /\ NextComponent
     ELSE FallBack /\ UNCHANGED <<seeds, count>>
  /\ UNCHANGED <<graph, stack, emitted, grown, reordered>>

\* The budget is exceeded: the recursion unwinds without offering anything,
\* and the component is ordered greedily, on a cleared memo if it is the only
\* one.  greedy() gives up at once when a relation that it must start from has no
\* statistics.
SolveGivesUp ==
  /\ phase = "dp" /\ Exceeded
  /\ stack' = <<>> /\ seeds' = {}
  /\ IF graph.noStats \cap component \subseteq Expanded(E)
     THEN /\ phase' = "greedy"
          /\ memo' = IF Single THEN InitLeaves(graph, component) ELSE memo
          /\ fragments' = {{r} : r \in component \ Expanded(E)}
          /\ UNCHANGED <<component, solved, applied>>
     ELSE FallBack
  /\ UNCHANGED <<graph, count, emitted, grown, reordered>>

(***************************************************************************)
(* greedy().                                                               *)
(***************************************************************************)
\* Pairs of fragments in index order, which is that of their least relation.
FragmentPairs == {p \in fragments \X fragments : Least(p[1]) < Least(p[2])}
WithFragmentPairs ==
  memo \cup UNION {Candidates(memo, Steps(p[1], p[2])) : p \in FragmentPairs}
Mergeable == {p \in FragmentPairs : HasPlan(WithFragmentPairs, p[1] \cup p[2])}

AnyAmbiguous == \E p \in FragmentPairs : Ambiguous(p[1], p[2])

\* One round: offer every pair, merge the one of least cardinality, which may
\* be any of them.
GreedyMerge ==
  /\ phase = "greedy" /\ (AnyAmbiguous \/ Mergeable # {})
  /\ IF AnyAmbiguous THEN phase' = "thrown" /\ UNCHANGED <<memo, fragments>>
     ELSE /\ memo' = WithFragmentPairs /\ UNCHANGED phase
          /\ \E p \in Mergeable :
               fragments' = (fragments \ {p[1], p[2]}) \cup {p[1] \cup p[2]}
  /\ KeepsComponent /\ UNCHANGED <<seeds, stack, count, emitted, grown, reordered>>

\* The Unnests that fragment f is ready for, one step of expandThroughUnnests()
\* over it, and the relations all of them would add (expandableRelations()).
Ready(f) == {i \in DOMAIN E : E[i].unnest /\ E[i].left \subseteq f /\ ~(E[i].right \subseteq f)}
Expand(i, f) == Candidates(memo, {Step(f, E[i].right, "unnest", {i}, {})})
Expandable(f) ==
  LET unnests == {i \in DOMAIN E : E[i].unnest}
      closed == {S \in SUBSET graph.relations :
                   /\ f \subseteq S
                   /\ \A i \in unnests : E[i].left \subseteq S => E[i].right \subseteq S}
  IN {r \in graph.relations : \A S \in closed : r \in S} \ f

\* expandOneFragment(): an edge reaches out of f once f is expanded.
\* Variant: an edge inside the expanded fragment.
WaitingInside(f) == \E i \in DOMAIN E : /\ ~E[i].unnest /\ Meets(Tes(E[i]), Expandable(f))
                                        /\ Tes(E[i]) \subseteq f \cup Expandable(f)
Waiting(f) == \E i \in DOMAIN E : /\ ~E[i].unnest /\ Meets(Tes(E[i]), Expandable(f))
                                  /\ ~(Tes(E[i]) \subseteq f \cup Expandable(f))
Grows(f) == \E i \in Ready(f) : Expand(i, f) # {}
Stuck == phase = "greedy" /\ Cardinality(fragments) > 1 /\ ~AnyAmbiguous /\ Mergeable = {}

Last == phase = "greedy" /\ Cardinality(fragments) = 1
Expects(f) == Last \/ (Waiting(f) /\ Grows(f))

\* Start expanding the first fragment that an edge waits for, or the last one
\* left.  Without either no pair of fragments can be made to join.
GreedyExpand ==
  /\ Stuck \/ Last
  /\ IF \E f \in fragments : Expects(f)
     THEN /\ \E f \in fragments : /\ Expects(f) /\ grown' = f
                                  /\ \A g \in fragments : Expects(g) => Least(f) <= Least(g)
          /\ phase' = "expand" /\ UNCHANGED <<component, solved, applied, memo, fragments>>
     ELSE FallBack /\ UNCHANGED grown
  /\ UNCHANGED <<graph, seeds, stack, count, emitted, reordered>>

\* expandThroughUnnests(): one Unnest.
ExpandUnnest ==
  /\ phase = "expand"
  /\ \E i \in Ready(grown) :
       /\ Expand(i, grown) # {}
       /\ memo' = memo \cup Expand(i, grown)
       /\ grown' = grown \cup E[i].right
       /\ fragments' = (fragments \ {grown}) \cup {grown \cup E[i].right}
  /\ KeepsComponent /\ UNCHANGED <<phase, seeds, stack, count, emitted, reordered>>

\* Back to the merge loop, or the end of greedy().
ExpandEnd ==
  /\ phase = "expand" /\ ~Grows(grown)
  /\ grown' = {}
  /\ IF Cardinality(fragments) > 1
     THEN phase' = "greedy" /\ KeepsComponent /\ UNCHANGED <<memo, fragments, seeds, count>>
     ELSE IF HasPlan(memo, component) THEN Return(memo, "dp") /\ NextComponent
     ELSE FallBack /\ UNCHANGED <<seeds, count>>
  /\ UNCHANGED <<graph, stack, emitted, reordered>>

(***************************************************************************)
(* FallbackJoinPlanner.                                                    *)
(***************************************************************************)
placed == UNION fragments
Joinable(r) == CanCross(E, placed, {r}) /\ CrossingJoins(E, placed, {r}) # {}

\* buildComponent(): the join of the first unplaced relation that an edge
\* reaches.  It needs no cost.
FallbackJoin ==
  /\ phase = "fallback" /\ placed # component
  /\ LET unplaced == component \ placed
     IN \E r \in unplaced :
          /\ Joinable(r) /\ \A q \in unplaced : Joinable(q) => r <= q
          /\ LET st == Step(placed, {r}, "inner",
                            CanonicalKeyEdges(E, CrossingJoins(E, placed, {r})),
                            CrossingFilters(E, placed, {r}))
             IN memo' = memo \cup {Plan(st, below) : below \in Inputs(memo, st)}
          /\ fragments' = {placed \cup {r}}
          /\ reordered' = (reordered \/ r # Least(unplaced))
  /\ KeepsComponent /\ UNCHANGED <<phase, seeds, stack, count, emitted, grown>>

\* build(): the next component.  Without a reordering, or without an edge to go
\* on, the written order stays.
FallbackEnd ==
  /\ phase = "fallback"
  /\ placed = component \/ ~\E r \in component \ placed : Joinable(r)
  /\ IF placed = component /\ (Rest # {} \/ reordered)
     THEN /\ Return(memo, "fallback")
          /\ fragments' = IF Rest # {} THEN {{Least(First(Rest))}} ELSE fragments
     ELSE phase' = "written" /\ applied' = {} /\ UNCHANGED <<component, solved, fragments>>
  /\ UNCHANGED <<graph, seeds, stack, memo, count, emitted, grown, reordered>>

Init ==
  /\ graph \in Graphs
  /\ component = First(Components(graph.edges, graph.relations)) /\ solved = {} /\ applied = {}
  /\ phase = "dp" /\ seeds = component \ Expanded(graph.edges) /\ stack = <<>>
  /\ memo = InitLeaves(graph, component) /\ count = 0 /\ emitted = <<>>
  /\ fragments = {} /\ grown = {} /\ reordered = FALSE

Solve == Seed \/ EmitCsg \/ CsgEmit \/ CsgGrow \/ CmpEmit \/ CmpGrow \/ LoopEnd
         \/ SolveEnd \/ SolveGivesUp
Greedy == GreedyMerge \/ GreedyExpand \/ ExpandUnnest \/ ExpandEnd
Fallback == FallbackJoin \/ FallbackEnd

\* enumerate() has returned or thrown.
Over == phase \in {"done", "written", "thrown"} /\ UNCHANGED vars

Next == Solve \/ Greedy \/ Fallback \/ Over

Spec == Init /\ [][Next]_vars

(***************************************************************************)
(* Properties.                                                             *)
(***************************************************************************)
Phases == {"dp", "greedy", "expand", "fallback", "done", "written", "thrown"}
PlanTypes == {"leaf", "inner", "left", "right", "full", "semi", "rightSemi", "mark",
              "rightMark", "anti", "reversedAnti", "unnest"}
Frames == [op : {"csg", "csgEmit", "csgGrow", "cmpEmit", "cmpGrow"},
           s : SUBSET Nat, c : SUBSET Nat, x : SUBSET Nat,
           todo : SUBSET SUBSET Nat]

\* The types of the state of Enumerator and FallbackJoinPlanner.
TypeOK ==
  /\ phase \in Phases
  /\ component \subseteq graph.relations /\ solved \subseteq SUBSET graph.relations
  /\ applied \subseteq DOMAIN E /\ seeds \subseteq component /\ stack \in Seq(Frames)
  /\ memo \subseteq [left : SUBSET graph.relations, right : SUBSET graph.relations,
                     type : PlanTypes, keys : SUBSET DOMAIN E, filters : SUBSET DOMAIN E,
                     applied : SUBSET DOMAIN E]
  /\ count \in Nat /\ emitted \in Seq((SUBSET Nat) \X (SUBSET Nat))
  /\ fragments \subseteq SUBSET graph.relations /\ grown \subseteq graph.relations
  /\ reordered \in BOOLEAN

\* The enumeration only offers a subgraph with a complement that is disjoint
\* from it and lies above its smallest relation, so a pair is never offered
\* both ways around (emitCsg(), enumerateCmpRec()).
PairsApart ==
  \A i \in DOMAIN emitted : LET S == emitted[i][1]
                                C == emitted[i][2]
                            IN S \cap C = {} /\ \A r \in C : Least(S) < r

\* Each pair of a subgraph and a complement is offered at most once: the
\* descending order of the seeds and neighbours and the forbidden sets of
\* emitCsg() and the Rec functions leave out every other way to reach it.
OncePerPair ==
  \A i, j \in DOMAIN emitted : {emitted[i][1], emitted[i][2]} = {emitted[j][1], emitted[j][2]}
                               => i = j

\* An enumeration that stays in its budget is exhaustive, and every plan was
\* final when it was first built upon: no operator over two disjoint covers is
\* left out for any of the plans that its inputs have at the end (the order of
\* emitCsgCmp() calls that solveComponent() and the Rec functions produce).
Exhaustive ==
  phase = "dp" /\ stack = <<>> /\ seeds = {} /\ ~Exceeded =>
    \A S, C \in {Cover(p) : p \in memo} \cap SUBSET component :
      S \cap C = {} => Candidates(memo, Steps(S, C)) \subseteq memo

\* No plan drops an outer, semi or anti join or an Unnest that lies within its
\* cover, or makes a filter of it, when the enumeration found it or greedy() did
\* without expanding Unnests: it applies the edge as a join, itself or below.
OuterEdgesApplied ==
  ~Exceeded \/ Expanded(E) = {} =>
    \A p \in memo : \A i \in DOMAIN E : ~IsPlain(E[i]) =>
      (Tes(E[i]) \subseteq Cover(p) => i \in p.applied) /\ i \notin p.filters

\* The planning of a cluster does not fail: neither the check of emitCsgCmp() that
\* one operator applies a partition's edges nor checkEdgesEnforced().  It can, in
\* greedy(), for an Unnest beside several keys: expandThroughUnnests() applies
\* none of the edges that it makes applicable.
NeverThrows == phase # "thrown"

\* A cluster whose relations all have statistics gets a plan; the written order
\* is kept only for want of them, or when an edge needs the two sides of a cross
\* join together that greedy() and the enumeration cannot join.
PlanFound == phase \in {"fallback", "written"} => graph.noStats # {} \/ graph.crossed
=============================================================================
