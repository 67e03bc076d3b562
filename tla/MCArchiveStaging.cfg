SPECIFICATION Spec
CONSTANTS
    k1 = k1
    k2 = k2
    Workers = {k1, k2}
    Facts <- Sent
    Original <- Captured
    Zero = "0"
    WindowBytes = 2
    ChunkBytes = 4
    Nothing = Nothing
    MaxFaults = 1
INVARIANTS HeaderValid CompletedIsStaged
PROPERTIES CoverageKept StagingEnds
CHECK_DEADLOCK FALSE
