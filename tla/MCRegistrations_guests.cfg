\* A paid and a free tier, accounts, guests with and without an email.
SPECIFICATION FairSpec
CONSTANTS
    paid = paid  free = free  u1 = u1  u2 = u2  e1 = e1  h1 = h1  h2 = h2
    Anon = Anon
    Tiers <- PaidAndFree
    FreeTiers <- OneFree
    Capacity <- ThreeSeats
    Issued <- OneIssued
    Members <- OneMember
    Emails <- OneEmail
    Handlers <- OneHandler
    MaxRegs = 2
    MaxPerOrder = 2
    MaxPerUser = 1
    MaxProofs = 1
INVARIANTS
    OneCheckedActive
PROPERTIES
    StaleHoldsEnd EndedSaleDrains
CHECK_DEADLOCK FALSE
