\* A rejected registration resubmits after its seat was taken.
SPECIFICATION FairSpec
CONSTANTS
    paid = paid  free = free  u1 = u1  u2 = u2  e1 = e1  h1 = h1  h2 = h2
    Anon = Anon
    Tiers <- OnePaid
    FreeTiers <- NoFree
    Capacity <- OneSeat
    Issued <- NoneIssued
    Members <- OneMember
    Emails <- NoEmail
    Handlers <- OneHandler
    MaxRegs = 2
    MaxPerOrder = 1
    MaxPerUser = 0
    MaxProofs = 2
INVARIANT NoOversell
CHECK_DEADLOCK FALSE
