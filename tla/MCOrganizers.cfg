\* Three people, two organizations, two requests at a time, four in all.
SPECIFICATION Spec
CONSTANTS
    ana = ana  ben = ben  cas = cas  club = club  crew = crew  c1 = c1  c2 = c2
    NoUser = NoUser
    Users <- ThreeUsers
    Organizations <- TwoOrganizations
    Callers <- TwoCallers
    MaxCalls = 4
SYMMETRY Symmetry
INVARIANTS
    OneApplication JoinsOneOrganization TasksNameMembers NoAccessLeftBehind
CHECK_DEADLOCK FALSE
