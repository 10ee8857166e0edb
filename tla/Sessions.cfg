SPECIFICATION Spec
CONSTANTS
    Idle = 3
    Longest = 4
    RefreshAfter = 1
    Latency = 1
    Horizon = 6
    MaxCalls = 2
    MaxNews = 2
    MaxSignIns = 1
    MaxTrouble = 1
PROPERTIES EndsInTime ActivityKeepsSignedIn BellNeverGoesBack EndIsNoticed
CHECK_DEADLOCK FALSE
