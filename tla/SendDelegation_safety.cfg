CONSTANTS
    Syncs = {s1, s2}
    Clients = {c1, c2}
    Prober = Prober
    NoProc = NoProc
SPECIFICATION Spec
INVARIANTS OnlyLockHolderIsOnline ServerIsReachable
PROPERTY ImplementsSendOutcome
