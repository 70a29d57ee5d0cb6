CONSTANTS
    p1 = p1
    p2 = p2
    Contacts <- MCContacts
    Beats <- MCBeats
    Rules <- MCRules
    Wordings <- OneWording
    At <- MCAt
    Passes <- OnePass
    MaxClock = 2
    MaxEdits = 3
    MaxCrashes = 0
SPECIFICATION PrepSpec
PROPERTIES
    OwnerStateIsCarried
