\* Every small program of plain functions, programs with dispatch, and classes
\* settled as cyclic; two worker threads.
SPECIFICATION FairSpec
CONSTANTS
    Names <- AllNames
    Modules = {"M", "N"}
    NoName = NoName
    Workers = {w1, w2}
    Programs <- AllPrograms
INVARIANTS
    CalleesFinal
    VerdictsExact
    ClassVerdictsExact
    NoFalseSafe
    NoReentry
PROPERTY Completes
