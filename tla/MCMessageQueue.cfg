SPECIFICATION Spec
CONSTANTS
    Msg = {m1, m2}
    Poller = {p1, p2}
    Delays = {0, 1}
    Timeouts = {1}
    WaitTimes = {1}
    MaxMessages = 2
    MaxReceiveCount = 2
    MaxReceipts = 3
SYMMETRY Symmetry
INVARIANTS TypeOK NotLost AloneUnlessLate NoSleepBesideMessage
