\* Two tabs behind one address that is allowed one hold at a time.
SPECIFICATION Spec
CONSTANTS
    phone = phone  laptop = laptop
    Browsers <- TwoBrowsers
    MaxRegs = 2
    MaxWindow = 2
    MaxLinks = 2
    MaxCount = 2
    HoldsPerIp = 1
INVARIANTS
    CapHolds OneHoldPerBrowser OneResumeWins
SYMMETRY Symmetry
CHECK_DEADLOCK FALSE
