---------------------------- MODULE JoinSemantics ----------------------------
(***************************************************************************)
(* What a cluster as it is written, and a plan that optimizer v2 makes of  *)
(* it, compute over a database: the meaning of the join types (Velox's     *)
(* operators), of a written join tree, and of the operators that           *)
(* JoinTreeEmitter builds from a plan of the memo.                         *)
(*                                                                         *)
(* A database gives each relation a set of rows.  A tuple of a result is a *)
(* function from the relations it joins to their rows: a relation that an  *)
(* outer join padded with nulls is absent.  A mark column is kept as a row *)
(* of a relation of its own.                                               *)
(***************************************************************************)
EXTENDS Integers, FiniteSets, Sequences, TLC
LOCAL INSTANCE FiniteSetsExt

Null == -1

\* An expression over some columns: their sum, null when one of them is.
Value(t, columns) ==
  IF \A c \in columns : c[1] \in DOMAIN t
  THEN MapThenSumSet(LAMBDA c : t[c[1]][c[2]], columns) ELSE Null

\* SQL comparison: not true of a null.
KeyHolds(t, k) == LET v == Value(t, k.l) IN v # Null /\ v = Value(t, k.r)
FilterHolds(t, f) == LET v == Value(t, f.l)
                         w == Value(t, f.r)
                     IN v # Null /\ w # Null /\ v <= w

\* A Filter over an outer join that a null passes; one that rejects nulls would
\* have made the join an inner one.
PredicateHolds(t, f) == Null \in {Value(t, f.l), Value(t, f.r)} \/ FilterHolds(t, f)

\* A join predicate: the keys and the filter.
Holds(t, on) == /\ \A k \in on.keys : KeyHolds(t, k)
                /\ \A f \in on.filter : FilterHolds(t, f)

\* The mark column a mark join appends to t, named after the side it looks up.
MarkRow(on, t, matched) ==
  LET id == 100 + Min({c[1] : c \in UNION {k.l \cup k.r : k \in on.keys}} \ DOMAIN t)
  IN id :> [x |-> IF matched THEN 1 ELSE 0]

\* The tuples of A and B joined on `on', of which `pairs' match.
Combined(type, A, B, on, pairs) ==
  LET both  == {p[1] @@ p[2] : p \in pairs}
      inA == {p[1] : p \in pairs}
      inB == {p[2] : p \in pairs}
  IN CASE type = "inner" -> both
       [] type = "left"  -> both \cup (A \ inA)
       [] type = "right" -> both \cup (B \ inB)
       [] type = "full"  -> both \cup (A \ inA) \cup (B \ inB)
       [] type = "semi"  -> inA
       [] type = "rightSemi" -> inB
       [] type = "anti"  -> A \ inA
       [] type = "reversedAnti" -> B \ inB
       [] type = "mark"  -> {t @@ MarkRow(on, t, t \in inA) : t \in A}
       [] type = "rightMark" -> {t @@ MarkRow(on, t, t \in inB) : t \in B}
JoinTuples(type, A, B, on) ==
  Combined(type, A, B, on, {p \in A \X B : Holds(p[1] @@ p[2], on)})

\* An Unnest of an array of relation r, known by column x: the rows of u whose
\* x is that of r, none for a null array.
UnnestTuples(u, rows, r, A) ==
  LET value(t) == Value(t, {<<r, "x">>})
  IN {p[1] @@ (u :> p[2]) : p \in {p \in A \X rows :
                                    value(p[1]) # Null /\ value(p[1]) = p[2].x}}

LeafTuples(r, rows) == {r :> row : row \in rows}

(***************************************************************************)
(* The result of cluster q as written.                                     *)
(***************************************************************************)
WrittenResult(q, db) ==
  LET joins == {q.joins[i] : i \in DOMAIN q.joins}
      Node(u) == q.unnests[u].subtree \cup {u}
      nodes == {{r} : r \in q.relations \ DOMAIN q.unnests}
               \cup {j.left \cup j.right : j \in joins} \cup {Node(u) : u \in DOMAIN q.unnests}
      Filtered(S, tuples) == {t \in tuples : \A p \in q.predicates :
                                              p.over = S => PredicateHolds(t, p)}
      at[S \in nodes] == Filtered(S,
        IF \E j \in joins : j.left \cup j.right = S
        THEN LET j == CHOOSE j \in joins : j.left \cup j.right = S
             IN JoinTuples(j.type, at[j.left], at[j.right], j)
        ELSE IF \E u \in DOMAIN q.unnests : Node(u) = S
        THEN LET u == CHOOSE u \in DOMAIN q.unnests : Node(u) = S
             IN UnnestTuples(u, db[u], q.unnests[u].array, at[S \ {u}])
        ELSE LET r == CHOOSE r \in S : TRUE IN LeafTuples(r, db[r]))
  IN at[q.relations]

(***************************************************************************)
(* The results of the plans of a memo.                                     *)
(***************************************************************************)
\* takeReadyConjuncts(): the conjuncts of the graph first covered by p.  They
\* are applied at joins and Unnests, never at a leaf.
ReadyConjuncts(g, p) ==
  LET Within(f, S) == f.requires \subseteq S
      Fired(f, S) == Within(f, S) /\ Cardinality(S) > 1
  IN {f.pred : f \in {f \in g.conjuncts : /\ Within(f, p.left \cup p.right)
                                       /\ ~Fired(f, p.left) /\ ~Fired(f, p.right)}}
ConjunctHolds(t, f) == IF "over" \in DOMAIN f THEN PredicateHolds(t, f) ELSE FilterHolds(t, f)

\* buildJoin(): edges E[i] for i in p.keys are the condition of the operator;
\* the edges in p.filters and the conjuncts filter its output.  A reversed anti
\* join (buildReversedAnti()) applies no conjuncts.
OperatorResult(g, db, p, A, B) ==
  LET on == [keys |-> UNION {g.edges[i].keys : i \in p.keys},
             filter |-> UNION {g.edges[i].filter : i \in p.keys}]
      equal == UNION {g.edges[i].keys : i \in p.filters}
      ready == IF p.type = "reversedAnti" THEN {} ELSE ReadyConjuncts(g, p)
      u == CHOOSE u \in p.right : TRUE
      tuples == IF p.type = "unnest" THEN UnnestTuples(u, db[u], g.query.unnests[u].array, A)
                ELSE JoinTuples(p.type, A, B, on)
  IN {t \in tuples : /\ \A k \in equal : KeyHolds(t, k)
                     /\ \A f \in ready : ConjunctHolds(t, f)}

\* The set of results that the plans of `memo' for the cover S compute over
\* db, any of them possibly the cheapest.
PlanResults(g, memo, db, S) ==
  LET Operators(K) == {[left |-> p.left, right |-> p.right, type |-> p.type,
                        keys |-> p.keys, filters |-> p.filters] :
                         p \in {p \in memo : p.left \cup p.right = K}}
      at[K \in {p.left \cup p.right : p \in memo}] ==
        UNION {IF p.type = "leaf"
               THEN LET r == CHOOSE r \in p.left : TRUE IN {LeafTuples(r, db[r])}
               ELSE {OperatorResult(g, db, p, ab[1], ab[2]) :
                       ab \in at[p.left] \X (IF p.type = "unnest" THEN {{}} ELSE at[p.right])} :
               p \in Operators(K)}
  IN at[S]

\* emitComponents(): the cross product of the components' results, filtered by
\* the conjuncts that none of them has applied.
CrossResults(g, memo, db, Ks) ==
  LET Fired(f, K) == f.requires \subseteq K /\ Cardinality(K) > 1
      last == {f.pred : f \in {f \in g.conjuncts : \A K \in Ks : ~Fired(f, K)}}
      Products(sets, results) == {{t[1] @@ t[2] : t \in A \X B} : A \in sets, B \in results}
      products == FoldSet(LAMBDA K, acc : Products(acc, PlanResults(g, memo, db, K)), {{<<>>}}, Ks)
  IN {{t \in product : \A f \in last : ConjunctHolds(t, f)} : product \in products}
==============================================================================
