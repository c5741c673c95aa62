CONSTANTS
    Tasks = {t1, t2}
    Workers = {w1, w2}
    Clients = {c1, c2}
    NoTask = NoTask
    NoWorker = NoWorker
    MaxFaults = 1
SPECIFICATION FairSpec
PROPERTIES SucceedsUnderCurrentLease ImplementsLifecycle Settles
