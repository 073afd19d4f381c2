\* Small graphs, in every order of nodes and edges.
SPECIFICATION Spec
CONSTANTS
    Node = {0, 1, 2, 3}
    EdgeSets <- SmallGraphs
INVARIANT CyclesExact
PROPERTY LevelsExact
