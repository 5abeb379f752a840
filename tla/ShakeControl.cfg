SPECIFICATION ShakeSpec
CONSTANTS
    Users = {u1, u2}
    DefaultUser = u1
    Apps = {a1}
    MaxSwitches = 1
    MaxChanges = 2
    MaxFailures = 1
    MaxJobs = 2
    NoUser = NoUser
INVARIANTS
    Followed
CHECK_DEADLOCK FALSE
