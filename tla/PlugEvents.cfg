SPECIFICATION PlugSpec
CONSTANTS
    Clients = {c1, c2}
    SensorIds = {s1, s2}
    Devices = {d1, d2}
    MaxPlugs = 2
    Null = Null
SYMMETRY Symmetric
INVARIANTS
    NoGhost
    Running
