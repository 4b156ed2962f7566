\* Two writers race two readers over a ring of two slots: the ring fills, wraps
\* and empties, and both readers can be between semaphore and lock.
SPECIFICATION Spec
CONSTANTS
    Writers = {w1, w2}
    Readers = {r1, r2}
    Data = {d1, d2}
    DataNum = 2
    NoThread = NoThread
INVARIANTS TypeOK SemaphoreCountsElements ClaimFindsElement CursorsAgree
PROPERTIES NoElementLost ImplementsBoundedFifo
