CONSTANTS
    Messages = {m1, m2}
    Workers = {w1, w2}
    NoWorker = NoWorker
    MaxAttempts = 3
    Limit = 1
SPECIFICATION FairSpec
CHECK_DEADLOCK FALSE
INVARIANTS AttemptsBoundDeliveries SentWasDelivered
PROPERTY Concludes
