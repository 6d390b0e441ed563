SPECIFICATION Spec
CONSTANTS
    MaxRuns = 2
    MaxEpochs = 2
    MaxBatches = 2
    MaxSessions = 1
    MaxChunks = 2
    TickCap = 1
    QueueCap = 1
    PipeCap = 2
    MaxFaults = 2
INVARIANTS OrderedInTransit NewestTicksSurvive GapsAreLosses
PROPERTIES QueuesDrain
CHECK_DEADLOCK FALSE
