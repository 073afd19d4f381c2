\* Three modules that star-import one another in every way.
SPECIFICATION StarSpec
CONSTANTS
    NumModules = 3
    Names = {"x", "_p"}
    Private = {"_p"}
    MaxStars = 2
    Programs <- WholePrograms
INVARIANT NothingMadeUp
PROPERTY BestStarWins
