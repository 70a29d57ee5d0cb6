CONSTANTS
    w1 = w1
    w2 = w2
    Contacts <- OnePerson
    Beats <- TwoBeats
    Rules <- OneRule
    Wordings <- OneWording
    At <- TwoBeatsAt
    Workers <- TwoWorkers
    Window = 0
    Lease = 0
    Limit = 1
    MaxClock = 2
    MaxEdits = 0
    MaxLosses = 1
SPECIFICATION SendSpec
SYMMETRY WorkerSymmetry
INVARIANTS
    OneClaimPerPerson
