\* One one-shot event and one persistent one: every deadline within the bound is met.
\* A sleep for one of them ends within twice the bound, even if select is called late;
\* an uninitialized tv makes the loop sleep for as good as ever.
SPECIFICATION FairSpec
CONSTANTS
    Events = {a, c}
    Persistent = {c}
    Delays = {0, 1, 2}
    MaxTime = 4
    Oversleep = 4
    Garbage = {0, 100}
    ReAddActive = {}
    ReAddPending = {}
    NoEvent = NoEvent
PROPERTY EveryDeadlineMet
