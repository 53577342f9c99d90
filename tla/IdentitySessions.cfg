SPECIFICATION Spec
CONSTANTS
    User = {u1, u2}
    Session = {s1, s2}
    Token = {t1, t2, t3, t4}
    Challenge = {c1}
    Request = {r1, r2}
    Events = {"login", "refresh", "me", "logout", "anonymize", "reset_request", "reset_confirm", "expiry", "failure"}
    NONE = NONE
    Unissued = Unissued
    Deleted = Deleted
SYMMETRY Symmetry
INVARIANTS
    TypeOK
    LiveSessionHasOneLiveToken
    RotationIsLinear
    CsrfFollowsRotation
    ReplayEndsSession
    PrincipalWasLive
PROPERTIES
    ImplementsSessionAccess
    RevocationIsScoped
    RevocationReasonIsKept
CHECK_DEADLOCK FALSE
