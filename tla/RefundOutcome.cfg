\* One request paid by the widget, beside one full refund; every handler may stop.
CONSTANTS
    u1 = u1
    u2 = u2
    u3 = u3
    a = a
    b = b
    h1 = h1
    h2 = h2
    Units = {u1, u2}
    Requests = {a}
    Operators = {h1}
    MaxFull = 1
    MaxStops = 1
    Widget = TRUE
    Faults = {"lost", "declined"}
SPECIFICATION FairSpec
 
PROPERTIES   AdjustmentsCatchUp
CHECK_DEADLOCK FALSE
