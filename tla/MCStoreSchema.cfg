CONSTANTS
    Procs = {p1, p2}
    Stores <- MCStores
    New = {m1}
    old = old
    MaxAbandons = 1
SPECIFICATION Spec
INVARIANTS SearchIsExact UnreadStaysUnread
PROPERTY StoreOpens
