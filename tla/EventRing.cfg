SPECIFICATION FairRing
CONSTANTS
    a = a
    b = b
    c = c
    Garbage = Garbage
    Events = {a, b, c}
    Capacity = 4
INVARIANTS Consistent WokenForEvents
PROPERTIES IsQueue Drained
