CONSTANTS
    q1 = q1
    q2 = q2
    t1 = t1
    s1 = s1
    s2 = s2
    v1 = v1
    v2 = v2
    a1 = a1
    a2 = a2
    r1 = r1
    r2 = r2
    r3 = r3
    Rules = {"mcp-ip", "mcp-user", "tool-minute", "tool-day", "pat-create", "login-email-ip", "login-ip", "demo-ip"}
    Limit <- MCLimit
    Window <- MCWindow
    Subjects <- MCSubjects
    Members <- MCMembers
    MaxTime = 2
    Tokens = {t1, t2}
    Creators = {r1, r2, r3}
    Servers = {s1, s2}
    None = None
    MaxActive = 1
    PatTTL = 1
    Requests = {q1, q2}
    PolicyTTL = 1
    MaxStale = 2
    MaxFailures = 1
    Visitors = {v1, v2}
    Accounts = {a1, a2}
    MaxLogins = 3
    MaxLost = 1
    Nobody = Nobody
    MaxRows = 4
    PageSizes = {1, 2}
SPECIFICATION Spec
SYMMETRY Symmetry
INVARIANT TokensWithinMax WithinLimits GuessesBounded AuditPagesComplete
PROPERTY RevokedTokensStop PolicyChangesApply
CHECK_DEADLOCK FALSE
