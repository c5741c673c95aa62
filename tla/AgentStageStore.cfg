CONSTANTS
    Workers = {w1, w2}
    Last = 2
    MaxRetries = 1
    MaxCrashes = 1
SPECIFICATION FairSpec
CHECK_DEADLOCK FALSE
INVARIANTS StagesRunInOrder NoDuplicateCharge CancelStopsWhatItFinds
PROPERTY Concludes
