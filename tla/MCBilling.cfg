CONSTANTS
    p1 = p1
    p2 = p2
    p3 = p3
    Payments = {p1, p2, p3}
    Succeeded = {p1, p2}
    PaymentAmount <- MCAmount
    SeedRefunded <- MCSeed
    Keys = {k1, k2}
    Amounts = {1, 2}
    Calls = {c1, c2, c3}
    None = None
SPECIFICATION BillingFairSpec
INVARIANT NoOverRefund OneRefundPerKey AnswerTruthful
PROPERTY EveryRequestAnswered ImplementsLedger
CHECK_DEADLOCK FALSE
