\* Up to three caches of three modules, three caches that describe one class, or
\* two that describe a hierarchy of four.
SPECIFICATION MergeSpec
CONSTANTS
    NumModules = 3
    Errors = {"e", "f"}
    Candidates = {"p", "q"}
    Classes = {"a", "b", "c", "d"}
    NoClass = NoClass
    Start = "a"
    Metaclasses = {"T", "U"}
    NoMetaclass = "none"
    MetaBits = {"new", "call"}
    OwnBits = {"own"}
    CacheLists <- SmallLists
INVARIANTS
    NothingDropped
    MergeOrderKept
    CalleesRecorded
    OrderKept
PROPERTY NobodyForgotten
