SPECIFICATION LeaderSpec
CONSTANTS
    Server = {n1, n2, n3}
    First = n1
    FirstCommand = c1
    Command = {c1, c2}
    Nobody = Nobody
    SnapshotThreshold = 9
    CommandChCap = 2
    MaxTimeouts = 1
    MaxRounds = 4
    MaxCalls = 2
    MaxStops = 0
SYMMETRY LeaderSymmetry
INVARIANTS LogMatching CommittedOnMajority StateMachineSafety
PROPERTY CommitMonotonic
CHECK_DEADLOCK FALSE
