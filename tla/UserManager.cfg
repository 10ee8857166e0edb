SPECIFICATION Spec
CONSTANTS
    Student = st1
    Others = {st0, st2}
    FullName = "A B"
    OtherName = "C D"
    WorkerOps <- AllOps
    Lists <- SomeLists
    MaxAttempts = 2
    MaxTrouble = 2
SYMMETRY Swaps
PROPERTY OthersAreKept
CHECK_DEADLOCK FALSE
