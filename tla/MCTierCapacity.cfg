\* Two devices, two editors and checkouts on one tier.
SPECIFICATION Spec
CONSTANTS
    ga = ga  d1 = d1  d2 = d2  a1 = a1  a2 = a2
    mail = mail  ana = ana  NoEmail = NoEmail  Nobody = Nobody
    Tiers <- OneTier
    Issued <- NoneIssued
    StartCap <- TwoSeats
    MaxCap = 2
    MaxRegs = 3
    MaxPerOrder = 2
    Desks <- TwoDesks
    Admins <- TwoAdmins
    Visitors <- TwoVisitors
SYMMETRY Symmetry
INVARIANTS
    CheckedSeatsFit OneWalkInPerKey DeletedTierIsEmpty
CHECK_DEADLOCK FALSE
