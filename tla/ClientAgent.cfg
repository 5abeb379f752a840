\* The application may stop calling, and the bounds may be reached.
SPECIFICATION FairSpec
CONSTANTS
    accel = accel
    gyro = gyro
    u1 = u1
    u2 = u2
    rate = rate
    o1 = o1
    o2 = o2
    None = None
    Sensors = {accel, gyro}
    Users = {u1, u2}
    Intervals = {rate}
    Observers = {o1, o2}
    MaxDeaths = 2
    MaxErrors = 1
INVARIANTS Mirrored NoGhost
PROPERTIES Reenabled
CHECK_DEADLOCK FALSE
