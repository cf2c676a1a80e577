SPECIFICATION FairSpec
CONSTANTS
    m1 = m1
    m2 = m2
    m3 = m3
    Macs = {m1, m2}
    PoolStart = 1
    PoolEnd = 1
    Outside = {3}
    Reservable <- Reservations
    LeaseTime = 1
    Durations = {1, 3}
    None = None
INVARIANTS HoldsBacked NoDoubleLeaseIfSwept OfferHonoured ReservedOnceIfSerial
PROPERTIES StaleRowsSwept
