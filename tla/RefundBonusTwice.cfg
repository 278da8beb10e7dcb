\* The full reversal is made before the adjustment of an earlier partial refund.
CONSTANTS
    u1 = u1
    u2 = u2
    u3 = u3
    a = a
    b = b
    h1 = h1
    h2 = h2
    Units = {u1, u2}
    Requests = {a}
    Operators = {h1}
    MaxFull = 1
    MaxStops = 1
    Widget = FALSE
    Faults = {}
SPECIFICATION Spec
INVARIANTS BonusesComeBackOnce
CHECK_DEADLOCK FALSE
