\* The watcher dies and is started again.
SPECIFICATION Spec
CONSTANTS
    f = f
    w = w
    DogValues = 256
    Slack = 2
    Feeders = {f}
    Watchers = {w}
    Restart = {f, w}
INVARIANTS MutualExclusion
