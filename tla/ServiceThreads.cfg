SPECIFICATION FairSpec
CONSTANTS
    p1 = p1
    p2 = p2
    t1 = t1
    t2 = t2
    t3 = t3
    None = None
    Threads = {t1, t2}
    Pids = {p1, p2}
    Periods = {1, 2}
    MaxCalls = 4
    NoLimit = 9
INVARIANTS Isolated DeadAreGone
PROPERTIES AllReturn
