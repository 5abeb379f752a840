\* The service may stop here: no event comes and nobody calls.
SPECIFICATION Spec
CONSTANTS
    p1 = p1
    p2 = p2
    accel = accel
    hall = hall
    caster = caster
    recorder = recorder
    Pids = {p1, p2}
    Continuous = {accel}
    OnChange = {hall}
    Clients = {caster, recorder}
    Targets = {p1}
    Types = {accel}
    Rates <- MCRates
    NoLimit = 4
    NoInfo = NoInfo
    MaxEvents = 4
    MaxErrors = 1
    MaxCalls = 5
INVARIANTS InOrder NewestKept NotPassedOver FifoBounded
PROPERTIES BlockedUnsent
CHECK_DEADLOCK FALSE
SYMMETRY MCSymmetry
