SPECIFICATION Spec
CONSTANTS
    Workspace = {w1}
    s1 = s1
    s2 = s2
    c1 = c1
    c2 = c2
    c3 = c3
    Source = {s1, s2}
    Content = {c1, c3}
    FeedOf <- TwoFeeds
    Link = {l1, l2}
    Request = {r1, r2}
    MaxSources = 2
    Events = {"link", "unlink", "scout"}
    NONE = NONE
SYMMETRY Symmetry
INVARIANTS
    VisibleIsLinked
CHECK_DEADLOCK FALSE
