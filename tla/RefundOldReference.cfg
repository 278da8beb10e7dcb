\* The reference of a finished partial refund is read for the full one.
CONSTANTS
    u1 = u1
    u2 = u2
    u3 = u3
    a = a
    b = b
    h1 = h1
    h2 = h2
    Units = {u1, u2}
    Requests = {a}
    Operators = {h1}
    MaxFull = 1
    MaxStops = 0
    Widget = TRUE
    Faults = {"lost"}
SPECIFICATION Spec
INVARIANTS CountedMeansReturned
CHECK_DEADLOCK FALSE
