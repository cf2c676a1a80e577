SPECIFICATION Spec
CONSTANTS
    m1 = m1
    m2 = m2
    m3 = m3
    Macs = {m1, m2, m3}
    PoolStart = 1
    PoolEnd = 2
    Outside = {3}
    Reservable = {}
    LeaseTime = 1
    Durations = {1}
    None = None
INVARIANTS NotLeasedToAnother
