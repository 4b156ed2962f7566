\* A process may be stopped and resumed while it waits for the semaphore.
SPECIFICATION StoppableSpec
CONSTANTS
    f = f
    w = w
    DogValues = 256
    Slack = 2
    Feeders = {f}
    Watchers = {w}
    Restart = {}
INVARIANTS MutualExclusion
