SPECIFICATION Spec
CONSTANTS
    User = {u1, u2, u3}
    Organization = {o1}
    Membership = {m1, m2, m3}
    Invitation = {i1, i2}
    Request = {r1, r2}
    Events = {"create", "list", "change", "invite", "uninvite", "accept", "expiry", "failure", "anonymize"}
    NONE = NONE
    Unissued = Unissued
SYMMETRY Symmetry
CONSTRAINT OneEnding
INVARIANTS
    EveryOrganizationHasAnOwner
    OneActiveMembership
    NoLockCycle
    OneLiveInvitation
PROPERTIES
    AuthorityIsCurrent
    ImplementsOwnedOrganization
    InvitationsCountOnce
CHECK_DEADLOCK FALSE
