\* A user adds an event that is pending, to change its deadline.
SPECIFICATION Spec
CONSTANTS
    Events = {a, b, c}
    Persistent = {c}
    Delays = {1, 2}
    MaxTime = 4
    Oversleep = 0
    Garbage = {0, 4}
    ReAddActive = {}
    ReAddPending = {a, b}
    NoEvent = NoEvent
INVARIANT DeletedIsGone
