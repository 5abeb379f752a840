SPECIFICATION Spec
CONSTANTS
    e1 = e1
    e2 = e2
    f1 = f1
    f2 = f2
    Local = Local
    Remote = {r1}
    Envs = {e1, e2}
    Functions = {f1, f2}
    EnvOf <- MCEnvOf
    Languages <- MCLanguages
    Codes <- MCCodes
    MaxErrors = 1
    Described <- MCDescribed
    Fixed <- MCFixed
    Lists <- MCLists
    Watched = {"s1", "s2"}
    MaxQueue = 3
    MaxData = 2
INVARIANTS
    Reaches
    NothingLeft
    Settled
    Found
    Heard
CHECK_DEADLOCK FALSE
