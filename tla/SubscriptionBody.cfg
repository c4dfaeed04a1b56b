CONSTANTS
    u1 = u1
    Calls = {c1, c2}
    Customers = {u1, u2}
    Keys = {k1, k2}
    Plans = {p1, p2}
    Payings = {open, card}
    None = None
    FirstInvoices <- MCFirstInvoices
    LastYear = 1
    MaxFaults = 1
    Filters = {"any", "partially_refunded"}
    Limits = {1, 2}
    BatchSize = 2
    MaxCalls = 2
    MaxInvoices = 5
    MaxMoves = 1
SPECIFICATION Spec
INVARIANT OtherBodyRejected
CHECK_DEADLOCK FALSE
