\* Two modules checked at once, in both modes.
SPECIFICATION Spec
CONSTANTS
    Modules = {"A", "B"}
    Scopes = {"A", "A.C", "B"}
    Functions = {"f", "g"}
    Classes = {"J", "K", "L"}
    NoScope = NoScope
    NoModule = NoModule
    Failed = Failed
    Programs <- PassPrograms
INVARIANT NoStaleCallees
PROPERTIES
    Implements
    ResultComplete
