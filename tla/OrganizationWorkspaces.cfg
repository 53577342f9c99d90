SPECIFICATION TenantsSpec
CONSTANTS
    User = {u1, u2}
    Organization = {o1}
    Membership = {m1, m2}
    Invitation = {i1}
    Request = {r1, r2}
    Events = {"create", "list", "change", "invite", "uninvite", "accept", "expiry", "failure"}
    Name = {n1}
    MaxWorkspaces = 2
    TenantEvents = {"rename", "create_workspace", "get_workspace"}
    NONE = NONE
    Unissued = Unissued
PROPERTIES
    EveryRequestIsAnswered
    AuthorityWasHeld
CHECK_DEADLOCK FALSE
