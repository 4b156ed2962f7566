\* Six elements make a heap of three levels, in which the last element may be
\* less than the parent of a hole in the other subtree; keys differ or are equal.
\* Two clients, two menu items with two values: a set finds the value that it
\* sets, another one, none, or settings that it cannot read.  Two callers run
\* commands, with a timeout and without, for the output or not; an output of two
\* bytes does not fit in the buffer, and a limit of 0 is for ever: two looks.
SPECIFICATION ServicesSpec
CONSTANTS
    Elements = {e1, e2, e3, e4, e5, e6}
    Keys = {1, 2}
    Clients = {c1, c2}
    MenuItems = {i1, i2}
    MenuValues = {1, 2}
    Missing = Missing  Empty = Empty  NULL = NULL
    Callers = {p1, p2}
    Limits = {0, 1}
    POLLS = 1
    EXVAL_LIMIT = 1
    UINT = 3
    BufSizes = {1}
    OutputSize = 2
INVARIANTS OrderKept PositionsKept SettingsThere SetIsStored SystemExIsOver OutputOrFailure
PROPERTY PopsLeast
