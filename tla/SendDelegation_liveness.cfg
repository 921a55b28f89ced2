CONSTANTS
    Syncs = {s1}
    Clients = {c1, c2}
    Prober = Prober
    NoProc = NoProc
SPECIFICATION FairSpec
PROPERTIES QueuedSendsFinish CommandsFinish
