\* Three one-shot events and a persistent one; callbacks and the program before
\* the loop add and delete events, and add one-shot events that are active.
SPECIFICATION Spec
CONSTANTS
    Events = {a, b, c, d}
    Persistent = {d}
    Delays = {1, 2}
    MaxTime = 3
    Oversleep = 0
    Garbage = {0, 3}
    ReAddActive = {a, b, c}
    ReAddPending = {}
    NoEvent = NoEvent
SYMMETRY Symmetry
INVARIANTS TypeOK QueuesAgree HeapInOrder ActiveInDeadlineOrder
PROPERTIES NoneOverlooked SleepsUntilNext ImplementsTimerQueue
