CONSTANTS
    w1 = w1
    w2 = w2
    Contacts <- OnePerson
    Beats <- OneBeat
    Rules <- OneRule
    Wordings <- OneWording
    At <- OneBeatAt
    Workers <- TwoWorkers
    Window = 1
    Lease = 0
    Limit = 1
    MaxClock = 3
    MaxEdits = 1
    MaxLosses = 1
SPECIFICATION FairRefusedSpec
INVARIANTS
    SendTypeOK
    AtMostOneSend
    AutomaticDoneWasSent
    ReleasedWasNotSent
PROPERTIES
    FollowUpsSpec
    FinalDeliveriesStay
    ClaimsSettle
    RefusalStopsSending
