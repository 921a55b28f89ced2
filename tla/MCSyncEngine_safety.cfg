CONSTANTS
    Dispatchers = {d1, d2}
    MediaWorkers = {w1}
    MediaCap = 1
    WebhookCap = 1
    MaxBatch = 2
    Starts <- SafetyStarts
SPECIFICATION Spec
INVARIANTS GrowthIsBounded ClosedIsQuiet LostConnectionIsPending
