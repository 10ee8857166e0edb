SPECIFICATION Spec
CONSTANTS
    n1 = n1
    n2 = n2
    Hosts <- TwoHosts
    GpuNode = n1
    Accounts <- SomeAccounts
    Sudoers = {"password", "nothing"}
    MaxAttempts = 2
    MaxJobs = 2
    MaxTrouble = 1
INVARIANT SudoPasswordStays
PROPERTIES SetUpIsComplete OpensWithNewPassword OthersAreKept
CHECK_DEADLOCK FALSE
