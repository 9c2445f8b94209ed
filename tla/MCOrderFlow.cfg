\* Two handlers, two reservations and a registration on one tier.
SPECIFICATION Spec
CONSTANTS
    ga = ga  h1 = h1  h2 = h2  ana = ana  k1 = k1  k2 = k2
    Tiers <- OneTier
    Issued <- NoneIssued
    Capacity <- TwoSeats
    Handlers <- TwoHandlers
    Users <- OneUser
    Keys <- TwoKeys
    MaxRegs = 1
    MaxRes = 2
    MaxPerOrder = 2
    MaxPerUser = 4
    LowestAvail <- MinusOne
SYMMETRY Symmetry
INVARIANTS
    CountedOrdersFit InventoryConserved ConvertedIffOrdered
PROPERTY
    UnitsBalance
CHECK_DEADLOCK FALSE
