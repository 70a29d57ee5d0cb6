CONSTANTS
    p1 = p1
    w1 = w1
    Contacts <- MCContacts
    Beats <- MCBeats
    Rules <- MCRules
    Wordings <- MCWordings
    At <- MCAt
    Passes <- MCPasses
    Workers <- MCWorkers
    Window = 1
    Lease = 1
    Limit = 1
    MaxClock = 3
    MaxEdits = 1
    MaxCrashes = 0
    MaxLosses = 0
SPECIFICATION TakingTurns
INVARIANT OneMessagePerOccurrence
