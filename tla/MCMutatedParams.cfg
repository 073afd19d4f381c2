\* Two functions, a method and an unknown name, with up to four calls.
SPECIFICATION ParamsSpec
CONSTANTS
    Names = {"f", "g", "m", "u", "C"}
    Params = {"x", "y"}
    Programs <- SmallPrograms
PROPERTIES
    ImplementsClosure
    Terminates
