CONSTANTS
    v1 = v1  v2 = v2
    None = None  Empty = Empty
    Value = {v1, v2}
    Listing = {v1}
    Configs <- Blocks
    Existing <- Factory
    Drift = {"ntp", "log"}
    Faults = {"broken", "retried", "failed", "crash"}
    MaxFaults = 2
    MaxOrphans = 1
    MaxEdits = 2
SPECIFICATION FairSpec
INVARIANTS TypeOK
PROPERTIES UndeclaredUntouched SuccessMeansApplied Converges UnreadConverges EventuallyQuiet
