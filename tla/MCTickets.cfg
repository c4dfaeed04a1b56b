CONSTANTS
    create = create
    resolve = resolve
    close = close
    reopen = reopen
    Calls = {c1, c2, c3}
    Ids = {create, resolve, close, reopen}
    RequestOf <- MCRequestOf
    Leads = {close}
    None = None
    Seeds <- MCSeeds
    MaxTickets = 3
    MaxFaults = 1
SPECIFICATION TicketSpec
INVARIANT HistoryLeadsToState RulesUnlessRaced OncePerRequest SuccessIsWhole
SYMMETRY MCSymmetry
CHECK_DEADLOCK FALSE
