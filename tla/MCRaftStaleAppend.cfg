SPECIFICATION StaleSpec
CONSTANTS
    Server = {n1, n2, n3, n4, n5}
    Old = n1
    Other = n2
    Slow = n3
    Voter = n4
    LateVoter = n5
    OtherCommand = c1
    OldCommand = c2
    Command = {c1, c2}
    Nobody = Nobody
    SnapshotThreshold = 9
    CommandChCap = 2
    MaxTimeouts = 4
    MaxRounds = 3
    MaxCalls = 6
    MaxStops = 0
INVARIANT LeaderCompleteness
CHECK_DEADLOCK FALSE
