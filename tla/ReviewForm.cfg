SPECIFICATION Spec
CONSTANTS
    Requests = {r1, r2}
    Automated = {r1}
    MaxForms = 1
    MaxCalls = 2
    MaxJobs = 3
    MaxTrouble = 1
INVARIANT OffersAreTheChoices
PROPERTIES OverlapsAreConfirmed RunningViewMovesOn
CHECK_DEADLOCK FALSE
