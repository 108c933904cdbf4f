\* Two tsh processes saving at once, either of which may die between two
\* file-system calls.
CONSTANTS
    Savers = {s1, s2}
    Profiles = {pa, pb}
    Aliases = {al}
    NoAlias = NoAlias
    NoSaver = NoSaver
    Crashes = TRUE
    WriteMayFail = TRUE
SPECIFICATION Spec
INVARIANTS
    CurrentKept
