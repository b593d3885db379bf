--------------------------- MODULE JoinHypergraph ---------------------------
(***************************************************************************)
(* The hypergraph over which optimizer v2 orders joins (JoinHypergraph,    *)
(* JoinEdge, RelationSet): what it answers about its edges.                *)
(*                                                                         *)
(* E is the sequence of edges.  An edge has two disjoint sides, the        *)
(* relations that must lie on opposite sides of a join that applies it;    *)
(* the relations that its keys read themselves (ends);                     *)
(* its join type; whether it is an Unnest; its keys, each equating an      *)
(* expression over the columns k.l with one over k.r, with the equivalence *)
(* class of both when they are columns; and its bound filter.  A column is *)
(* a pair <<relation id, name>>.                                           *)
(***************************************************************************)
EXTENDS Integers, FiniteSets, Sequences

Meets(A, B) == A \cap B # {}
RelationsOf(columns) == {c[1] : c \in columns}

Tes(e) == e.left \cup e.right
IsPlain(e) == e.type = "inner" /\ ~e.unnest
Expanded(E) == UNION {E[i].right : i \in {i \in DOMAIN E : E[i].unnest}}

\* connectedComponents() of PlanPhysicalPass.cpp: the least sets of relations
\* that no edge leaves.
Components(E, relations) ==
  LET closed == {S \in SUBSET relations : \A i \in DOMAIN E :
                   Meets(Tes(E[i]), S) => Tes(E[i]) \subseteq S}
  IN {{q \in relations : \A S \in closed : r \in S => q \in S} : r \in relations}

\* crossingEdges(): the edges covered by L and R together and by neither.
Crossing(E, L, R) ==
  {i \in DOMAIN E : Tes(E[i]) \subseteq L \cup R /\ ~(Tes(E[i]) \subseteq L)
                                                 /\ ~(Tes(E[i]) \subseteq R)}
Forward(e, L, R) == e.left \subseteq L /\ e.right \subseteq R
Splits(e, L, R) == Forward(e, L, R) \/ Forward(e, R, L)
CrossingJoins(E, L, R) == {i \in Crossing(E, L, R) : Splits(E[i], L, R)}
CrossingFilters(E, L, R) == Crossing(E, L, R) \ CrossingJoins(E, L, R)
CanCross(E, L, R) == \A i \in CrossingFilters(E, L, R) : IsPlain(E[i])

\* canonicalKeyEdges(): without the edges whose keys all lie in a class that
\* an earlier edge of I has a key in.
\* Variant: one key in an earlier edge's class makes the edge redundant.
CanonicalKeyEdgesAnyKey(E, I) ==
  LET seen(i) == {k.class : k \in UNION {E[j].keys : j \in {j \in I : j < i}}}
      Redundant(i) == \E k \in E[i].keys : k.class # {} /\ k.class \in seen(i)
  IN {i \in I : ~Redundant(i)}

CanonicalKeyEdges(E, I) ==
  LET seen(i) == {k.class : k \in UNION {E[j].keys : j \in {j \in I : j < i}}}
      Redundant(i) == /\ E[i].keys # {}
                      /\ \A k \in E[i].keys : k.class # {} /\ k.class \in seen(i)
  IN {i \in I : ~Redundant(i)}

\* checkEdgesEnforced(): every equality follows from the applied edges, and
\* every edge whose keys need not be equal is applied itself.  A relation
\* starts with its columns of one class made equal.
ProvesKeyEquality(e) == IsPlain(e)
EdgesEnforced(E, relations, applied) ==
  LET given == {{k.l, k.r} : k \in UNION {E[i].keys :
                  i \in {i \in applied : ProvesKeyEquality(E[i])}}}
      sides == UNION {UNION {{k.l, k.r} : k \in E[i].keys} : i \in DOMAIN E}
      classes == UNION {{k.class : k \in E[i].keys} : i \in DOMAIN E} \ {{}}
      within == {{st[1], st[2]} : st \in {st \in sides \X sides :
                   \E K \in classes : /\ st[1] \subseteq K /\ st[2] \subseteq K
                                      /\ RelationsOf(st[1]) = RelationsOf(st[2])}}
      closed == {S \in SUBSET sides : \A g \in given \cup within :
                                         Meets(g, S) => g \subseteq S}
  IN \A i \in DOMAIN E :
       IF ProvesKeyEquality(E[i])
       THEN \A k \in E[i].keys, S \in closed : k.l \in S <=> k.r \in S
       ELSE i \in applied

\* neighborhood() of DPhyp.cpp: the smallest relation of each edge side that
\* the other side, inside S, reaches.
Least(S) == CHOOSE m \in S : \A n \in S : m <= n

\* Variant: follows edges from left to right only.
NeighborhoodForward(E, S, forbidden) ==
  LET sides == {E[i].right : i \in {i \in DOMAIN E : E[i].left \subseteq S
                                                      /\ ~Meets(E[i].right, S)}}
  IN {Least(other) : other \in {o \in sides : ~Meets(o, forbidden)}}

Neighborhood(E, S, forbidden) ==
  LET Reached(A, B) == A \subseteq S /\ ~Meets(B, S)
      sides == {E[i].right : i \in {i \in DOMAIN E : Reached(E[i].left, E[i].right)}}
               \cup {E[i].left : i \in {i \in DOMAIN E :
                        /\ Reached(E[i].right, E[i].left)
                        /\ ~Reached(E[i].left, E[i].right)}}
  IN {Least(other) : other \in {o \in sides : ~Meets(o, forbidden)}}
=============================================================================
