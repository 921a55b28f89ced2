CONSTANTS
    Procs = {p1}
    Stores <- UnversionedOnly
    New = {m1}
    old = old
    MaxAbandons = 0
SPECIFICATION Spec
INVARIANT SearchFindsAll
