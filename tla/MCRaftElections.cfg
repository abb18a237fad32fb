SPECIFICATION Spec
CONSTANTS
    Server = {n1, n2, n3}
    First = n1
    FirstCommand = c1
    Command = {}
    Nobody = Nobody
    SnapshotThreshold = 9
    CommandChCap = 2
    MaxTimeouts = 3
    MaxRounds = 0
    MaxCalls = 0
    MaxStops = 1
SYMMETRY Symmetry
INVARIANTS TypeOK ElectionSafety
PROPERTY VoteOncePerTerm
CHECK_DEADLOCK FALSE
