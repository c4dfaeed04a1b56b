CONSTANTS
    first = first
    second = second
    readdress = readdress
    grab = grab
    upgrade = upgrade
    acme = acme
    traders = traders
    bolt = bolt
    old = old
    new = new
    Calls = {c1, c2, c3}
    Ids = {first, second, readdress, grab, upgrade}
    RequestOf <- MCRequestOf
    Leads = {upgrade}
    Emails = {old, new}
    Names <- MCNames
    DomainOf <- MCDomainOf
    FreeDomains = {"gmail.com"}
    None = None
    FirstCustomers <- MCFirstCustomers
    MaxCustomers = 4
    MaxFaults = 1
    MaxTurns = 3
SPECIFICATION Spec
INVARIANT EmailsUniqueUnlessRaced RepeatIsNoDuplicate OverviewHonest
PROPERTY TierByLeadsOnly
SYMMETRY MCSymmetry
CHECK_DEADLOCK FALSE
