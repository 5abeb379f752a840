\* Two processes and two sensors that can be suspended.
SPECIFICATION Spec
CONSTANTS
    p1 = p1
    p2 = p2
    accel = accel
    gyro = gyro
    Pids = {p1, p2}
    Sensors = {accel, gyro}
    Known = {accel}
    Pedometers = {}
    Requests <- MCRequests
    MinPeriod <- MCMinPeriod
    FifoMax <- MCFifoMax
    MaxChannels = 1
    MaxEventCount = 3
    NoLimit = 9
    NoInfo = NoInfo
INVARIANTS TypeOK Served OffWhenIdle StillAsked Resumable
PROPERTIES OneProcess ResumeRestores
SYMMETRY MCSymmetry
