SPECIFICATION Spec
CONSTANTS
    User = {u1}
    Session = {s1, s2}
    Token = {t1, t2}
    Challenge = {c1}
    Request = {r1, r2}
    Events = {"login", "anonymize"}
    NONE = NONE
    Unissued = Unissued
    Deleted = Deleted
SYMMETRY Symmetry
INVARIANT AnonymizedAccountKeepsNoCredential
CHECK_DEADLOCK FALSE
