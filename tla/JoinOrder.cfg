SPECIFICATION Spec
CONSTANT Graphs <- MCGraphs
INVARIANTS TypeOK RootIsEquivalent PairsApart OncePerPair Exhaustive OuterEdgesApplied NeverThrows PlanFound
