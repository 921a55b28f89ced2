CONSTANTS
    Dispatchers = {d1}
    MediaWorkers = {w1}
    MediaCap = 1
    WebhookCap = 1
    MaxBatch = 3
    Starts <- EndingStarts
SPECIFICATION FairSpec
PROPERTIES SyncReturns OnceEnds
