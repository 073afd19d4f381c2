\* Two modules with two names each.
SPECIFICATION Spec
CONSTANTS
    Modules = {"A", "B"}
    Attrs = {"f", "g"}
    Concerns = {"Unsafe", "dep"}
    Caches <- SmallCaches
PROPERTIES
    ImplementsClosure
    Terminates
