SPECIFICATION Spec
CONSTANTS
    Jobs = {j1}
    JobTtl = 1
    ResultTtl = 2
    SiteMaxTtl = 1
    BackendMaxTtl = 2
    SkewAllowed = 1
    Grace = 1
    Skews <- SiteBehind
    MaxAttempts = 2
    MaxDeliveries = 2
    MaxSends = 2
    MaxMail = 2
    Horizon = 4
INVARIANTS WaitedForIsOnItsWay SuccessWasReported
PROPERTIES UnansweredIsOver OnlyLateJobsAreRefused
CHECK_DEADLOCK FALSE
