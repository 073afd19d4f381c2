\* Three functions in two modules and every error a module can have about them.
SPECIFICATION ReduceSpec
CONSTANTS
    Functions = {"a", "b", "c"}
    Modules = {"M", "N"}
    Externals = {"ext"}
    Unqualified = {"u"}
    NoName = NoName
    Libraries <- AllLibraries
INVARIANTS
    ClearedJustified
    CandidatesExact
    PromotionExact
    NoSelfJustification
PROPERTY EarlyIsFinal
