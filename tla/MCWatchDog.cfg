\* One feeder, that may die anywhere and be started again, and one watcher,
\* that may die; each may be two seconds late whenever it can run.
SPECIFICATION FairSpec
CONSTANTS
    f = f
    w = w
    Feeders = {f}
    Watchers = {w}
    Restart = {f}
    DogValues = 256
    Slack = 2
INVARIANTS TypeOK MutualExclusion SemaphoreAccounts FeedNotLost NoFalseAlarm
PROPERTY DeathNoticed
