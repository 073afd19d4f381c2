\* Cycles, packages, implicit imports, side effects and re-exports; two tasks.
SPECIFICATION Spec
CONSTANTS
    Modules <- SmallModules
    NoModule = NoModule
    Package <- SmallPackage
    Rank <- SmallRank
    Attrs <- SmallAttrs
    Home <- SmallHome
    Tasks = {t1, t2}
    Programs <- PolicyPrograms
INVARIANTS
    MemoExact
    ChainsGuarded
    CyclesGuarded
    EntriesGuarded
    NoSelfGuard
PROPERTY SourcesMatch
