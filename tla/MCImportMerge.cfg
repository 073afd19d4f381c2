\* Four module sets of a package, a module and a stub, split into libraries in
\* every way.
SPECIFICATION Spec
CONSTANTS
    Names = {"a", "a.b", "a.b.c", "x", "s", "s.t"}
    Chain <- SomeChains
    NoMain = "none"
    Programs <- SmallPrograms
INVARIANTS
    NothingLost
    PathsAgree
