SPECIFICATION Spec
CONSTANTS
    Content <- Contents
    RrfK = 60
    MaxSeeds = 2
    GraphLimit = 2
    Cap = 3
    MinimumHorizon = 2
    OverfetchFactor = 2
    GraphPercent = 20
    LexicalK = 2
    VectorK = 1
    TopKs = {1, 2}
    EdgeScores <- Scores
    Kinds = {"global", "workspace", "vector"}
INVARIANT PoolKeepsToHorizon
