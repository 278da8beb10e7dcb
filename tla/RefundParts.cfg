\* Two requests, posted twice if need be, beside a full refund.
CONSTANTS
    u1 = u1
    u2 = u2
    u3 = u3
    a = a
    b = b
    h1 = h1
    h2 = h2
    Units = {u1, u2}
    Requests = {a, b}
    Operators = {h1, h2}
    MaxFull = 1
    MaxStops = 1
    Widget = FALSE
    Faults = {"lost", "rejected"}
SPECIFICATION Spec
SYMMETRY AnyRefund
INVARIANTS TypeOK  BonusesFollowUnits
 
CHECK_DEADLOCK FALSE
