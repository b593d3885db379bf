------------------------------- MODULE MCDPhyp -------------------------------
(***************************************************************************)
(* Clusters of three and four relations for the join order, the databases  *)
(* their plans are compared over, and what the chosen plans must satisfy.  *)
(***************************************************************************)
EXTENDS DPhyp, HypergraphBuilder, JoinSemantics

(***************************************************************************)
(* Written join trees.  A tree records its relations, those whose columns  *)
(* it emits, those of them that no outer join in it padded (only these may *)
(* a join of the cluster above it read: valueProducersReadInCluster), and  *)
(* the parts of the cluster: joins, unnests and predicates.                *)
(***************************************************************************)
Tree(rels, emits, plain, joins, unnests, predicates) ==
  [rels |-> rels, emits |-> emits, plain |-> plain, joins |-> joins, unnests |-> unnests,
   predicates |-> predicates]

Table(r) == Tree({r}, {r}, {r}, <<>>, [u \in {} |-> {}], {})

Types == {"inner", "left", "right", "full", "semi", "rightSemi", "mark", "rightMark", "anti"}
RightForms == DOMAIN LeftForm
KeepsLeft(type) == type \notin RightForms \cup {"full"}
KeepsRight(type) == type \in RightForms \cup {"inner"}
EmitsLeft(type) == type \notin {"rightSemi", "rightMark"}
EmitsRight(type) == type \notin {"semi", "mark", "anti"}

\* A Filter whose predicates reach the cluster lies on preserved sides only,
\* and an Unnest stays in the cluster when it lies on a side that is not
\* preserved or when a predicate reads its column (ClusterCollector).
Joined(type, a, b, keys, filter) ==
  Tree(a.rels \cup b.rels,
       (IF EmitsLeft(type) THEN a.emits ELSE {}) \cup (IF EmitsRight(type) THEN b.emits ELSE {}),
       (IF KeepsLeft(type) THEN a.plain ELSE {})
         \cup (IF KeepsRight(type) THEN b.plain ELSE {}),
       <<[type |-> type, left |-> a.rels, right |-> b.rels, keys |-> keys,
          filter |-> filter]>> \o a.joins \o b.joins,
       a.unnests @@ b.unnests, a.predicates \cup b.predicates)

Joins(types, As, Bs, Ons(_, _)) ==
  UNION {{Joined(p[1], p[2], p[3], on.keys, on.filter) : on \in Ons(p[2].plain, p[3].plain)} :
         p \in {p \in types \X As \X Bs : /\ KeepsLeft(p[1]) \/ p[2].predicates = {}
                                          /\ KeepsRight(p[1]) \/ p[3].predicates = {}}}

Col(r, name) == {<<r, name>>}
Cmp(l, r) == [l |-> l, r |-> r]
On(keys, filter) == [keys |-> keys, filter |-> filter]

\* The predicate of a join of trees with readable relations A and B.  OneKey
\* compares a column of the last of A and the first of B; AnyKey also other
\* columns, several of them, an expression over all of A or of B, and filters.
OneKey(A, B) ==
  IF A = {} \/ B = {} THEN {}
  ELSE {On({Cmp(Col(Largest(A), "x"), Col(Least(B), "x"))}, {})}
NoKey(A, B) == {On({}, {})}
Pairs(A, B) ==
  IF A = {} \/ B = {} THEN {}
  ELSE {On({Cmp(Col(Least(A), "x"), Col(Largest(B), "x")),
            Cmp(Col(Largest(A), "y"), Col(Least(B), "y"))}, {}),
        On({Cmp({<<a, "x">> : a \in A}, {<<b, "x">> : b \in B})}, {})}
AnyKey(A, B) ==
  {On({Cmp(Col(a, c), Col(b, "x"))}, f) : a \in A, b \in B, c \in {"x", "y"},
     f \in {{}} \cup {{Cmp(Col(a, "y"), Col(b, "y"))} : a \in A, b \in B}}
  \cup Pairs(A, B)

\* The tree with a Filter over its topmost join that reads a padded column.
Filters(Ts) ==
  {[t EXCEPT !.predicates = {[l |-> Col(r, "y"), r |-> Col(r, "x"), over |-> t.rels]}] :
     r \in 1..4, t \in {t \in Ts : t.emits # t.plain}}
Filtered(Ts) == {t \in Filters(Ts) : \A p \in t.predicates :
                                        RelationsOf(p.l) \subseteq t.emits \ t.plain}

\* The tree with an Unnest u of an array of r over it.  Its input is pruned to
\* the array or keeps all columns; u depends on the relations of those columns.
\* An array that is a fresh output of an outer join is not pruned to: below the
\* join, where its edge would allow the Unnest, it does not exist.
UnnestOf(t, u, r, reads) ==
  Tree(t.rels \cup {u}, reads \cup {u}, (t.plain \cap reads) \cup {u}, t.joins,
       t.unnests @@ (u :> [array |-> r, reads |-> reads, subtree |-> t.rels]), t.predicates)
Unnested(Ts, u, r) ==
  {UnnestOf(t, u, r, t.emits) : t \in {t \in Ts : r \in t.emits}}
  \cup {UnnestOf(t, u, r, {r}) : t \in {t \in Ts : r \in t.plain}}

Cluster(t) == [relations |-> t.rels, joins |-> t.joins, unnests |-> t.unnests,
               predicates |-> t.predicates]

(***************************************************************************)
(* The clusters.                                                           *)
(***************************************************************************)
Two(types, a, b, Ons(_, _)) == Joins(types, {Table(a)}, {Table(b)}, Ons)

ThreeOver(types, Ons(_, _)) ==
  Joins(types, Two(types, 1, 2, OneKey), {Table(3)}, Ons)
  \cup Joins(types, {Table(1)}, Two(types, 2, 3, OneKey), Ons)

\* Every pair of join types over three relations, with every predicate where
\* neither is the right form of a semi or mark join.
Three ==
  ThreeOver(Types, OneKey) \cup ThreeOver(Types \ {"rightSemi", "rightMark"}, AnyKey)

\* All shapes of four relations.
ThreeOf(types, a, b, c, Ons(_, _)) ==
  Joins(types, Two(types, a, b, Ons), {Table(c)}, Ons)
  \cup Joins(types, {Table(a)}, Two(types, b, c, Ons), Ons)
Four(types, Ons(_, _)) ==
  Joins(types, ThreeOf(types, 1, 2, 3, Ons), {Table(4)}, Ons)
  \cup Joins(types, {Table(1)}, ThreeOf(types, 2, 3, 4, Ons), Ons)
  \cup Joins(types, Two(types, 1, 2, Ons), Two(types, 3, 4, Ons), Ons)

\* A Filter over an outer join of three relations, under a join.
FourFiltered ==
  Joins({"inner", "left", "semi"}, Filtered(ThreeOf({"inner", "left", "full"}, 1, 2, 3, OneKey)),
        {Table(4)}, OneKey)

\* The Unnests that takeFreeUnnests() leaves in the cluster: a predicate or
\* another one of these reads them, or a join above does not preserve them.
Retained(t) ==
  LET joins == {t.joins[i] : i \in DOMAIN t.joins}
      read == UNION {RelationsOf(UNION {k.l \cup k.r : k \in j.keys \cup j.filter}) : j \in joins}
              \cup RelationsOf(UNION {p.l \cup p.r : p \in t.predicates})
      fixed == {u \in DOMAIN t.unnests : \E j \in joins :
                  \/ u \in j.left /\ ~KeepsLeft(j.type)
                  \/ u \in j.right /\ ~KeepsRight(j.type)}
  IN \A u \in DOMAIN t.unnests : \/ u \in read \cup fixed
                                 \/ \E v \in read \cup fixed : v \in DOMAIN t.unnests
                                                           /\ u \in t.unnests[v].reads

\* Unnests of a relation, of another Unnest, and over a join, of either side.
WithUnnest ==
  LET types == {"inner", "left", "right", "full", "semi", "anti"}
      Beside(Ts, r, Ons(_, _)) ==
        Joins(types, Ts, {Table(r)}, Ons) \cup Joins(types, {Table(r)}, Ts, Ons)
      one == Unnested({Table(1)}, 3, 1)
      over == UNION {Unnested(Two(types, 1, 2, OneKey), 4, r) : r \in {1, 2}}
  IN {t \in Beside(one, 2, AnyKey) \cup Beside(Unnested(one, 4, 3), 2, Pairs)
             \cup Beside(over, 3, Pairs) \cup Beside(over, 3, OneKey)
             \cup Beside(Beside(Unnested({Table(1)}, 4, 1), 2, OneKey), 3, OneKey) : Retained(t)}

\* Cross joins: of two tables in any operand, under each pair of join types,
\* with a Filter over them that compares the two.  Those that strand a relation
\* are not dissolved.
Product(a, b) == Joins({"inner"}, {Table(a)}, {Table(b)}, NoKey)
WithCross ==
  LET pairs == Product(1, 2)
               \cup {[t EXCEPT !.predicates = {[l |-> Col(1, "y"), r |-> Col(2, "y"), over |-> t.rels]}] :
                      t \in Product(1, 2)}
      three == Joins(Types, pairs, {Table(3)}, AnyKey)
               \cup Joins(Types, {Table(3)}, pairs, AnyKey)
      four == Joins({"inner", "left", "semi"}, pairs, Two({"inner", "left"}, 3, 4, OneKey), OneKey)
              \cup Joins({"inner", "left", "anti"}, Joins({"inner", "left"}, pairs, {Table(3)}, OneKey),
                        {Table(4)}, OneKey)
              \cup Joins({"inner"}, Product(1, 2), Product(3, 4), AnyKey)
              \cup Joins({"inner", "left"}, Joins({"inner"}, Product(1, 2), {Table(3)}, NoKey),
                        {Table(4)}, Pairs)
  IN {t \in three \cup four : ~Stranded(Cluster(t))}

Graph(t, cap, noStats) ==
  LET q == Cluster(t)
  IN [relations |-> q.relations, edges |-> Edges(q), conjuncts |-> Conjuncts(q),
      noStats |-> noStats, cap |-> cap, query |-> q,
      crossed |-> \E i \in DOMAIN q.joins : q.joins[i].keys = {}]

\* Unlimited budgets and budgets that run out, except that an Unnest whose budget
\* runs out is beside joins of one key each; relations without statistics, where
\* there are cross joins or four relations to reorder.
OneKeyEach(t) == \A i \in DOMAIN t.joins :
                   Cardinality(t.joins[i].keys) = 1 /\ t.joins[i].filter = {}
Budgets(t) == IF DOMAIN t.unnests = {} \/ OneKeyEach(t) THEN {0, 2} ELSE {0}
NoStats(t) ==
  LET joins == {t.joins[i] : i \in DOMAIN t.joins}
  IN {{}} \cup (IF \E j \in joins : j.keys = {} THEN {{3}}
               ELSE IF Cardinality(joins) = 3 /\ \A j \in joins : j.type \in {"inner", "left"}
                    THEN {{2}} ELSE {})
Graphed(Ts, Caps(_)) ==
  UNION {{Graph(t, cap, missing) : cap \in Caps(t), missing \in NoStats(t)} : t \in Ts}

MCGraphs ==
  Graphed(Three \cup FourFiltered \cup WithCross \cup Four({"inner", "left", "full", "semi", "anti"}, OneKey)
          \cup Four({"inner", "left"}, Pairs) \cup WithUnnest, Budgets)

\* Budgets that run out in clusters with an Unnest, whatever their keys.
UnnestGraphs == {Graph(t, 2, {}) : t \in WithUnnest}

Row(a, b) == [x |-> a, y |-> b]
Tables(n) == IF n = 3 THEN {{}, {Row(0, 0)}, {Row(0, 1), Row(1, 0)}, {Row(0, 0), Row(1, 1)}}
             ELSE {{}, {Row(0, 1), Row(1, 0)}}
Databases(g) == [g.relations -> Tables(Cardinality(g.relations))]

(***************************************************************************)
(* Properties.                                                             *)
(***************************************************************************)
\* The results of the emitted tree (emit() or emitComponents()).
Results(db) ==
  IF Single THEN PlanResults(graph, memo, db, graph.relations)
  ELSE CrossResults(graph, memo, db, Components(E, graph.relations))

\* Whatever plan DPhyp::enumerate() or FallbackJoinPlanner returns, and in
\* whatever order the costs made it join, the tree that JoinTreeEmitter builds
\* from it computes what the cluster computes as it is written, over every
\* database: no reshape that AlgebraicProperties and the eligibility sets of
\* HypergraphBuilder let through changes a result.
RootIsEquivalent ==
  phase = "done" => \A db \in Databases(graph) :
                      Results(db) = {WrittenResult(graph.query, db)}
==============================================================================
