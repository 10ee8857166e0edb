SPECIFICATION Live
CONSTANTS
    r1 = r1  r2 = r2  c1 = c1  c2 = c2  s1 = s1  s2 = s2  ada = ada  nobody = nobody
    Nobody = nobody
    Requests <- OneRequest
    Automated <- OneRequest
    StudentOf <- OneStudent
    Clients <- OneClient
    Schedulers <- TwoTasks
    Ops <- LiveOps
    LastDay = 3
    ReminderDays = 1
    NumForms = 1
    MaxJobs = 2
    MaxEvents = 12
    MaxOutlived = 0
CHECK_DEADLOCK FALSE
INVARIANT OncePerEndDate
PROPERTIES JobsAreAnswered EndedIsHandled
