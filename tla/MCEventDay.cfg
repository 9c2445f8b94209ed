\* Two doors, two runners, two distances sent by name or code, a ticket of the older flow, two days.
SPECIFICATION Spec
CONSTANTS
    ana = ana  ben = ben  door1 = door1  door2 = door2  old_ticket = old_ticket
    Attendees <- TwoAttendees
    Tickets <- OneTicket
    Names <- TwoNames
    Codes <- TwoCodes
    CodeOf <- TheirCodes
    Handlers <- TwoDoors
    MaxDay = 2
    MaxBib = 2
SYMMETRY Symmetry
INVARIANTS
    BibMatchesDistance OneEntryPerDay
PROPERTIES
    BibsNeverReused
CHECK_DEADLOCK FALSE
