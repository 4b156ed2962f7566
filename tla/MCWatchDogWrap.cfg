\* Nobody is started twice; the feeder need not be started at all.
SPECIFICATION Spec
CONSTANTS
    f = f
    w = w
    DogValues = 256
    Slack = 2
    Feeders = {f}
    Watchers = {w}
    Restart = {}
PROPERTIES ReportedUntilFed
