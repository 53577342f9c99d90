SPECIFICATION FairSpec
CONSTANTS
    User = {u1}
    Session = {s1}
    Token = {t1, t2}
    Challenge = {c1, c2}
    Request = {r1, r2}
    Events = {"login", "refresh", "anonymize", "register", "verify", "reset_request", "reset_confirm", "expiry"}
    NONE = NONE
    Unissued = Unissued
    Deleted = Deleted
INVARIANTS
    OneLiveChallenge
    VersionCountsResets
PROPERTIES
    RequestsFinish
    ActivationConsumesOneChallenge
    AnonymizationIsIrreversible
CHECK_DEADLOCK FALSE
