SPECIFICATION Spec
CONSTANTS
    N = 3
    Undoable = {1, 3}
    MaxAttempts = 2
    Runs = {r1, r2}
    r1 = r1
    r2 = r2
    Calls = {"recover", "redeliver"}
INVARIANTS TypeOK NotReexecuted ReverseOrder CompensatedOnce
PROPERTIES RunEnds UndoneWhenCompensated InEffectWhenCompleted
CHECK_DEADLOCK FALSE
