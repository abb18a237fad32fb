SPECIFICATION Spec
CONSTANTS
    N = 2
    Undoable = {1, 2}
    MaxAttempts = 1
    Runs = {r1, r2}
    r1 = r1
    r2 = r2
    Calls = {"recover"}
SYMMETRY Symmetry
PROPERTIES CompletedMeansInEffect
CHECK_DEADLOCK FALSE
