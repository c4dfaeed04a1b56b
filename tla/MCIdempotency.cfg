CONSTANTS
    Calls = {c1, c2, c3}
    Ids = {i1}
    Results = {r1, r2}
    None = None
SPECIFICATION IdemFairSpec
INVARIANT RunsAlone OneResult
PROPERTY EveryCallEnds
CHECK_DEADLOCK FALSE
