\* A user of the menu and the list of parties, patient or not.
SPECIFICATION FairSpec
CONSTANTS
    Entry <- MCEntry
    Allowed <- MCEntry
    Count = {1}
    PartyOf <- MCPartyOf
    PartyId = {1, 2}
    SexId = {1}
    Menu <- MCMenu
    MaxRequests = 2
    MaxFades = 2
    MaxCharts = 3
    Failures = TRUE
INVARIANTS
    TypeOK
    ShownIsAsked
    ListOnce
    SpinnerOnlyAfterFailure
    PercentagesFit
    AlignedWhenFull
PROPERTIES
    EveryClickAnswered
CHECK_DEADLOCK FALSE
