SPECIFICATION Spec
CONSTANTS
    Content <- Contents
    Request = {"r1", "r2"}
    Events <- Overlapping
    Enrichable = {1}
    Embeddable = {1}
    NONE = NONE
    Base <- Points
    Published <- Dates
    Minimum = 20
    MaxRelated = 1
    MaxCandidates = 2
INVARIANTS
    UsableVectorIsOfItsText
