\* Every module of three statements and a class.
SPECIFICATION Spec
CONSTANTS
    Scopes = {"module", "class"}
    Defs = {"f", "g"}
    Effects = {"e1", "e2"}
    Comments = {"none", "c1", "c2"}
    NoComment = "none"
    Unknown = "unknown"
    Stubs <- ThreeStatements
    MaxRuns = 2
INVARIANTS
    EffectsPreserved
    SignaturesKept
PROPERTY RerunChangesNothing
