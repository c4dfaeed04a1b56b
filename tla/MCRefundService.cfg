CONSTANTS
    p1 = p1
    p2 = p2
    u1 = u1
    r1 = r1
    key1 = key1
    key2 = key2
    Payments = {p1, p2}
    Succeeded = {p1, p2}
    PaymentAmount <- MCAmount
    SeedRefunded <- MCSeed
    PaidAt <- MCPaidAt
    Keys = {key1, key2, other}
    Amounts = {1}
    Calls = {c1, c2}
    None = None
    Users = {u1}
    Policies <- MCPolicies
    MaxChanges = 1
    Requests = {r1}
    AmountOf <- MCAmountOf
    KeyFor <- MCKeyFor
    Tokens = {t1, t2}
    MaxFaults = 2
SPECIFICATION RefundSpec
INVARIANT RefundTypeOK ConsentedOnly SingleUse AnsweredTruthfully OneOutcome
SYMMETRY MCSymmetry
CHECK_DEADLOCK FALSE
