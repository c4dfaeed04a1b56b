CONSTANTS
    p1 = p1
    p2 = p2
    a1 = a1
    ka = ka
    Payments = {p1, p2}
    Succeeded = {p1, p2}
    PaymentAmount <- MCAmount
    SeedRefunded <- MCSeed
    PaidAt <- MCPaidAt
    Keys = {ka, kd}
    Amounts = {1, 2}
    Calls = {c1, c2, c3}
    None = None
    Users = {agent, lead, boss}
    Policies <- MCPolicies
    MaxChanges = 1
    ApprovalRefs = {a1}
    ApprovalKey <- MCKey
    OtherAmounts = {1}
SPECIFICATION Spec
INVARIANT TypeOK OnlyApprovedRefunded OneRefundPerApproval ExecutedIsPaid
PROPERTY DecisionIsFinal
SYMMETRY MCSymmetry
CHECK_DEADLOCK FALSE
