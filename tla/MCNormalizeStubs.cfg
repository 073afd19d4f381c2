\* Two files, two runs of the scripts, two interruptions.
SPECIFICATION ScriptSpec
CONSTANTS
    Files = {"a", "b"}
    Texts = {"raw", "merged", "final", "part", "broken", "empty"}
    Empty = "empty"
    Merged <- SomeMerged
    Prefixes <- SomePrefixes
    ArgLists <- SomeArgLists
    SortedFiles <- TwoFiles
    MaxInvocations = 2
    MaxFaults = 2
INVARIANTS
    StatusZeroMeansMerged
    OneFilePerFault
