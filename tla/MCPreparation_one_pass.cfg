CONSTANTS
    p1 = p1
    p2 = p2
    Contacts <- MCContacts
    Beats <- MCBeats
    Rules <- MCRules
    Wordings <- MCWordings
    At <- MCAt
    Passes <- OnePass
    MaxClock = 2
    MaxEdits = 2
    MaxCrashes = 1
SPECIFICATION FairPrepSpec
INVARIANTS
    TypeOK
    PassTypeOK
    SnoozeHolds
    NothingIsStranded
PROPERTIES
    FollowUpsSpec
    EndedRunsStayEnded
    StopHolds
    EventuallyConverged
