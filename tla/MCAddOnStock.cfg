\* Two registrations, one of an account and one of a guest, want the last units.
SPECIFICATION Spec
CONSTANTS
    ga = ga  u1 = u1  e1 = e1  shirt = shirt
    q1 = q1  q2 = q2  low = low  high = high
    Tiers <- OneTier
    Issued <- NoneIssued
    Capacity <- TwoSeats
    MaxRegs = 2
    MaxPerOrder = 1
    Members <- OneMember
    Emails <- OneEmail
    Variants <- OneVariant
    QuoteIds <- TwoQuotes
    MaxLine = 2
    MaxStock = 2
    Prices <- TwoPrices
    StartStock <- OneEach
INVARIANTS
    CountersMatchReservations StockNotOversold StockFollowsStatus
    QuoteSpentOnce HandedOverIsPaidFor
PROPERTIES
    ConfirmedIsFinal
CHECK_DEADLOCK FALSE
