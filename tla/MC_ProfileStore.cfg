\* Two tsh processes saving at once into one profile directory, with two
\* profile names and one alias; either may die between two calls, and a
\* write may fail.
CONSTANTS
    Savers = {s1, s2}
    Profiles = {pa, pb}
    Aliases = {al}
    NoAlias = NoAlias
    NoSaver = NoSaver
    Crashes = TRUE
    WriteMayFail = TRUE
SPECIFICATION Spec
INVARIANTS
    TypeOK
    QuiescentCurrentIsLastLinked
