SPECIFICATION FairSpec
CONSTANTS
    Workspace = {w1}
    s1 = s1
    s2 = s2
    c1 = c1
    c2 = c2
    c3 = c3
    Source = {s1, s2}
    Content = {c1, c2}
    FeedOf <- OneFeed
    Link = {l1, l2}
    Request = {r1, r2}
    MaxSources = 1
    Events = {"link", "unlink", "scout", "delete_source", "failure"}
    NONE = NONE
PROPERTIES
    ImplementsWorkspaceView
    NewLinkShowsItsContents
    FetchedIsStored
    RequestsFinish
CHECK_DEADLOCK FALSE
