SPECIFICATION FairSpec
CONSTANTS
    accel = accel
    fast = fast
    slow = slow
    gyro = gyro
    o1 = o1
    o2 = o2
    None = None
    Sensors = {accel, gyro}
    Rates = {fast, slow}
    Observers = {o1, o2}
    MaxRetry = 2
    MaxCrashes = 2
    MaxErrors = 1
INVARIANTS Restored NoGhost
PROPERTIES NoLiveProxyLost Recovers
