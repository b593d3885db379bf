-------------------------- MODULE HypergraphBuilder --------------------------
(***************************************************************************)
(* How optimizer v2 turns a cluster of joins into the edges of a           *)
(* hypergraph (AlgebraicProperties, HypergraphBuilder).                    *)
(*                                                                         *)
(* A cluster is a record with                                              *)
(*   relations  the ids 1..n of its relations, leaves before Unnests;      *)
(*   joins      one record per join: its type, the relations under each    *)
(*              operand (the nesting of these sets is the written tree),   *)
(*              its keys and its filter;                                   *)
(*   unnests    for each Unnest relation the relations its input reads and *)
(*              all the relations below it;                                *)
(*   predicates those of Filters between the joins, each with the          *)
(*              relations below its Filter.                                *)
(***************************************************************************)
EXTENDS JoinHypergraph
LOCAL INSTANCE SequencesExt

(***************************************************************************)
(* AlgebraicProperties: which reshapes two joins allow, by join type.      *)
(***************************************************************************)
Reorderable == {"inner", "left", "semi", "mark", "anti"}
\* Variant: a left join is associative too.
AssociativeLeft(child, parent) == child \in {"inner", "left"} /\ parent \in Reorderable
Associative(child, parent) == child = "inner" /\ parent \in Reorderable
LeftAsscom(child, parent) == child \in Reorderable /\ parent \in Reorderable
RightAsscom(child, parent) == child = "inner" /\ parent = "inner"

(***************************************************************************)
(* The operands of a join.                                                 *)
(***************************************************************************)
\* populateJoinInputs() stores a right-form join as its left form.
LeftForm == [right |-> "left", rightSemi |-> "semi", rightMark |-> "mark"]
SwapKey(k) == [l |-> k.r, r |-> k.l]
Normalized(j) ==
  IF j.type \notin DOMAIN LeftForm THEN j
  ELSE [type |-> LeftForm[j.type], left |-> j.right, right |-> j.left,
        keys |-> {SwapKey(k) : k \in j.keys}, filter |-> j.filter]

Leaves(q, S) == S \ DOMAIN q.unnests
Below(q, S) == {j \in {Normalized(q.joins[i]) : i \in DOMAIN q.joins} :
                  j.left \cup j.right \subseteq S}

(***************************************************************************)
(* The total eligibility set (TES) of an edge.                             *)
(***************************************************************************)
\* The leaves that a join reading `ses' adds to its TES because of `child',
\* a join in its left operand (leftSide) or in its right one.
Conflict(q, child, parentType, ses, leftSide) ==
  LET inLeft  == Leaves(q, child.left)
      inRight == Leaves(q, child.right)
      outer   == child.type # "inner" \/ parentType # "inner"
      \* The operand each equivalence moves the parent past.
      byAssoc  == IF leftSide THEN inLeft ELSE inRight
      byAsscom == IF leftSide THEN inRight ELSE inLeft
      assoc  == /\ IF leftSide THEN Associative(child.type, parentType)
                               ELSE Associative(parentType, child.type)
                /\ ~(outer /\ Meets(ses, byAssoc))
      asscom == /\ IF leftSide THEN LeftAsscom(child.type, parentType)
                               ELSE RightAsscom(parentType, child.type)
                /\ ~(outer /\ Meets(ses, byAsscom))
  IN (IF asscom THEN {} ELSE byAsscom) \cup (IF assoc THEN {} ELSE byAssoc)

TesExpansion(q, S, parentType, ses, leftSide) ==
  UNION {Conflict(q, child, parentType, ses, leftSide) : child \in Below(q, S)}

ExpandTes(q, j, ses) ==
  ses \cup TesExpansion(q, j.left, j.type, ses, TRUE)
      \cup TesExpansion(q, j.right, j.type, ses, FALSE)

\* The relations whose columns come out of j as fresh, nullable ones.
Padded(j) == CASE j.type = "left" -> j.right
               [] j.type = "full" -> j.left \cup j.right
               [] OTHER -> {}

\* The Unnests that the join j, not inner, must not be reordered past.
UnnestBarriers(q, j) ==
  LET Pinned(u) == /\ ~(j.left \cup j.right \subseteq q.unnests[u].subtree)
                   /\ \/ Meets(Padded(j), q.unnests[u].reads)
                      \/ j.type \in {"semi", "mark", "anti"} /\ u \in j.right
  IN {u \in DOMAIN q.unnests : Pinned(u)}

(***************************************************************************)
(* Equivalence classes of columns: what inner equalities make equal.  No   *)
(* join reads the fresh output of an outer join below it in the cluster    *)
(* (valueProducersReadInCluster()), so a class never holds one, and it can *)
(* go by the name of its source.                                           *)
(***************************************************************************)
IsColumnKey(k) == Cardinality(k.l) = 1 /\ Cardinality(k.r) = 1
TheColumn(side) == CHOOSE c \in side : TRUE

InnerColumnKeys(q) ==
  UNION {{k \in q.joins[i].keys : IsColumnKey(k)} :
           i \in {i \in DOMAIN q.joins : q.joins[i].type = "inner"}}

Equated(q) == UNION {k.l \cup k.r : k \in InnerColumnKeys(q)}

\* The columns every set closed under the inner equalities holds with c.
ClassOf(q, c) ==
  LET keys == InnerColumnKeys(q)
      closed == {S \in SUBSET Equated(q) :
                   \A k \in keys : Meets(k.l \cup k.r, S) => k.l \cup k.r \subseteq S}
  IN {d \in Equated(q) : \A S \in closed : c \in S => d \in S}

\* pairClass(): the class a key lies in, {} when it lies in none.
KeyClass(q, k) == IF IsColumnKey(k) /\ k \in InnerColumnKeys(q)
                  THEN ClassOf(q, TheColumn(k.l)) ELSE {}

(***************************************************************************)
(* The edges.                                                              *)
(***************************************************************************)
WithClass(q, keys) == {[l |-> k.l, r |-> k.r, class |-> KeyClass(q, k)] : k \in keys}

\* One edge of a (normalized) join: the sides its keys read, or the whole
\* operand when a key reads none, and the TES split between the operands.
EdgeOf(q, j, keys, barriers) ==
  LET Side(cols, operand) == IF RelationsOf(cols) # {} THEN RelationsOf(cols)
                             ELSE Leaves(q, operand)
      l == Side(UNION {k.l : k \in keys}, j.left)
      r == Side(UNION {k.r : k \in keys}, j.right)
      condition == IF j.type = "inner" THEN {} ELSE j.filter
      inFilter == RelationsOf(UNION {k.l \cup k.r : k \in condition})
      tes == ExpandTes(q, j, l \cup r \cup inFilter) \cup barriers
  IN [left |-> tes \cap j.left, right |-> tes \cap j.right, ends |-> l \cup r,
      type |-> j.type, unnest |-> FALSE, keys |-> WithClass(q, keys), filter |-> condition]

\* Sets of relations, compared as the bits of a number.
BitsBelow(A, B) == \E r \in B \ A : \A q \in A \ B : q < r

\* addInner() makes one edge for the keys that read the same relations, in the
\* order of these, and leaves the filter of an inner join to the conjuncts of
\* the graph.
InnerEdges(q, j) ==
  LET Ends(k) == <<RelationsOf(k.l), RelationsOf(k.r)>>
      ends == SetToSortSeq({Ends(k) : k \in j.keys},
                           LAMBDA a, b : \/ BitsBelow(a[1], b[1])
                                         \/ a[1] = b[1] /\ BitsBelow(a[2], b[2]))
  IN [n \in DOMAIN ends |-> EdgeOf(q, j, {k \in j.keys : Ends(k) = ends[n]}, {})]

JoinEdges(q) ==
  LET EdgesOf(j) == IF j.type = "inner" THEN InnerEdges(q, j)
                    ELSE <<EdgeOf(q, j, j.keys, UnnestBarriers(q, j))>>
  IN FlattenSeq([i \in DOMAIN q.joins |-> EdgesOf(Normalized(q.joins[i]))])

UnnestEdges(q) ==
  LET Edge(u) == [left |-> q.unnests[u].reads, right |-> {u}, ends |-> q.unnests[u].reads \cup {u},
                  type |-> "inner", unnest |-> TRUE, keys |-> {}, filter |-> {}]
      ids == SetToSortSeq(DOMAIN q.unnests, <)
  IN [n \in DOMAIN ids |-> Edge(ids[n])]

\* addTransitiveInnerEdges(): for each pair of relations, one edge for the
\* classes that reach both and that no written key equates on that pair.  The
\* classes come in the order in which the written edges meet them, and the pairs
\* of each by their relations.
DerivedEdges(q, written) ==
  LET classes == {ClassOf(q, c) : c \in Equated(q)}
      Rep(K, r) == CHOOSE c \in K : c[1] = r
      Covered(K, pair) == \E k \in InnerColumnKeys(q) :
                            k.l \subseteq K /\ RelationsOf(k.l \cup k.r) = pair
      Missing(a, b) == {K \in classes : /\ {a, b} \subseteq RelationsOf(K)
                                        /\ ~Covered(K, {a, b})}
      pairs == {p \in q.relations \X q.relations :
                  p[1] < p[2] /\ Missing(p[1], p[2]) # {}}
      Edge(a, b) == [left |-> {a}, right |-> {b}, ends |-> {a, b}, type |-> "inner",
                     unnest |-> FALSE,
                     keys |-> {[l |-> {Rep(K, a)}, r |-> {Rep(K, b)}, class |-> K] :
                                 K \in Missing(a, b)},
                     filter |-> {}]
      MetAt(K) == {i \in DOMAIN written : \E k \in written[i].keys : k.class = K}
      Place(p) == Least(UNION {MetAt(K) : K \in Missing(p[1], p[2])})
      sorted == SetToSortSeq({<<Place(p), p[1], p[2]>> : p \in pairs},
                             LAMBDA a, b : \E i \in 1..3 : /\ a[i] < b[i]
                                                           /\ \A h \in 1..(i - 1) : a[h] = b[h])
  IN [n \in DOMAIN sorted |-> Edge(sorted[n][2], sorted[n][3])]

(***************************************************************************)
(* The conjuncts, each applied once the relations it requires are joined.  *)
(***************************************************************************)
\* addInner(): the filter of an inner join requires what it reads.
InnerConjuncts(q) ==
  {[pred |-> f, requires |-> RelationsOf(f.l \cup f.r)] :
     f \in UNION {q.joins[i].filter : i \in {i \in DOMAIN q.joins : q.joins[i].type = "inner"}}}

\* addClusterConjuncts(): a predicate that reads a fresh output of an outer
\* join requires the eligibility of that join too.
PredicateConjuncts(q) ==
  LET Producers(p, c) == {j \in Below(q, p.over) : c[1] \in Padded(j)}
      Eligibility(j) == Tes(EdgeOf(q, j, j.keys, UnnestBarriers(q, j)))
      Requires(p, c) == {c[1]} \cup UNION {Eligibility(j) : j \in Producers(p, c)}
  IN {[pred |-> p, requires |-> UNION {Requires(p, c) : c \in p.l \cup p.r}] :
        p \in q.predicates}

(***************************************************************************)
(* HypergraphBuilder::build().                                             *)
(***************************************************************************)
Edges(q) ==
  LET written == JoinEdges(q) IN UnnestEdges(q) \o written \o DerivedEdges(q, written)
Conjuncts(q) == InnerConjuncts(q) \cup PredicateConjuncts(q)

\* A cross join has no keys and makes no edge.  Where that strands a relation
\* (hasEndpointStrandedRelation()), the cross join stays a leaf of its own.
Stranded(q) ==
  LET all == {Edges(q)[i] : i \in DOMAIN Edges(q)}
  IN UNION {Tes(e) : e \in all} \ UNION {e.ends : e \in all} # {}

==============================================================================
