SPECIFICATION Spec
CONSTANTS
    create = create
    revoke = revoke
    extend = extend
    m1 = m1
    m2 = m2
    m3 = m3
    m4 = m4
    m5 = m5
    malformed = malformed
    gpu = gpu
    hue = hue
    student1 = student1
    Jobs = {create, extend, revoke, malformed}
    Messages = {m1, m2, m3, m4, m5}
    Loads <- AllLoads
    JobOf <- AllJobOf
    Task <- AllTasks
    Students = {student1}
    Hosts = {gpu, hue}
    HueHosts = {hue}
    MaxAttempts = 2
    MaxDeliveries = 3
    MaxFailures = 3
    LastDay = 2
    OldVpn <- SomeVpn
    OldAccount <- SomeAccount
    NoMessage = NoMessage
    NoPassword = NoPassword
INVARIANTS AcknowledgedIsAnswered DeadLetterIsOutage
PROPERTIES FinishedNeverRunsAgain CreatedIsUsable RevokedIsClosed SavedProgressIsMailed
CHECK_DEADLOCK FALSE
