\* Two tabs, each with one call at a time; one token expires or one page reloads.
SPECIFICATION SessionSpec
CONSTANTS
    left = left  right = right  c1 = c1
    Tabs <- TwoTabs
    Calls <- OneCall
    MaxEvents = 1
INVARIANTS
    NoForcedSignOut SignOutHolds
PROPERTIES
    RotatesOnlyExpired ExchangesSettle
CHECK_DEADLOCK FALSE
