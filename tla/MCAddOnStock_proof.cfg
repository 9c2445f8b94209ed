\* A payment proof arrives between the expiry job's list and its transaction.
SPECIFICATION FairSpec
CONSTANTS
    ga = ga  u1 = u1  e1 = e1  shirt = shirt
    q1 = q1  q2 = q2  low = low  high = high
    Tiers <- OneTier
    Issued <- NoneIssued
    Capacity <- TwoSeats
    MaxRegs = 2
    MaxPerOrder = 1
    Members <- OneMember
    Emails <- OneEmail
    Variants <- OneVariant
    QuoteIds <- TwoQuotes
    MaxLine = 1
    MaxStock = 1
    Prices <- OnePrice
    StartStock <- OneEach
PROPERTY ProofKeepsStock
CHECK_DEADLOCK FALSE
