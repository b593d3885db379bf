SPECIFICATION Spec
CONSTANT Graphs <- UnnestGraphs
INVARIANT NeverThrows
