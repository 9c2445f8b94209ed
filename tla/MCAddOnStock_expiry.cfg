\* The expiry job may die and is called again.
SPECIFICATION FairSpec
CONSTANTS
    ga = ga  u1 = u1  e1 = e1  shirt = shirt
    q1 = q1  q2 = q2  low = low  high = high
    Tiers <- OneTier
    Issued <- NoneIssued
    Capacity <- TwoSeats
    MaxRegs = 2
    MaxPerOrder = 1
    Members <- OneMember
    Emails <- OneEmail
    Variants <- OneVariant
    QuoteIds <- TwoQuotes
    MaxLine = 1
    MaxStock = 2
    Prices <- OnePrice
    StartStock <- OneEach
PROPERTIES
    DueHoldsEnd ImplementsLedger
CHECK_DEADLOCK FALSE
