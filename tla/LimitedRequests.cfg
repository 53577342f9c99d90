SPECIFICATION Spec
CONSTANTS
    Endpoint = {"accept"}
    Identity <- Identities
    Key <- Keys
    Limit <- Limits
    Request = {"r1", "r2"}
    window_seconds = 2
    failure_mode = "open"
    PerSecond = 2
INVARIANTS
    BurstIsBounded
    WaitIsHonest
    ExecutedWasCounted
PROPERTIES
    CountersEnd
