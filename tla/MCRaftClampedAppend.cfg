SPECIFICATION LeaderSpec
CONSTANTS
    Server = {n1, n2, n3}
    First = n1
    FirstCommand = c1
    Command = {c1, c2}
    Nobody = Nobody
    SnapshotThreshold = 0
    CommandChCap = 2
    MaxTimeouts = 0
    MaxRounds = 4
    MaxCalls = 4
    MaxStops = 0
SYMMETRY LeaderSymmetry
INVARIANT StateMachineSafety
CHECK_DEADLOCK FALSE
