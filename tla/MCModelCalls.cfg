CONSTANTS
    w1 = w1
    w2 = w2
    Tasks = {w1, w2}
    NumSegments = 4
    NumChunks = 2
    BatchSize = 3
    Cap = 3
    Costs = {1}
    Providers = {"openai"}
    MaxStarts = 3
    MaxOthers = 1
SPECIFICATION Spec
CHECK_DEADLOCK FALSE
INVARIANTS
    SegmentsInOrder
    ChunksCleanedOnce
    CallsBounded
    CostOvershoot
PROPERTY CallsEnd
