CONSTANTS
    Dispatchers = {d1}
    MediaWorkers = {w1}
    MediaCap = 1
    WebhookCap = 1
    MaxBatch = 1
    Starts <- StrandedStarts
SPECIFICATION Spec
INVARIANT KeepsReconnecting
