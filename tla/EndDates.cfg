SPECIFICATION Spec
CONSTANTS
    r1 = r1  r2 = r2  c1 = c1  c2 = c2  s1 = s1  s2 = s2  ada = ada  nobody = nobody
    Nobody = nobody
    Requests <- OneRequest
    Automated <- OneRequest
    StudentOf <- OneStudent
    Clients <- TwoClients
    Schedulers <- TwoTasks
    Ops <- EndDatesOps
    LastDay = 3
    ReminderDays = 1
    NumForms = 1
    MaxJobs = 3
    MaxOutlived = 1
    MaxEvents = 7
SYMMETRY TaskSymmetry
CHECK_DEADLOCK FALSE
INVARIANTS EndDateIsGranted OncePerEndDate EndedIsRevoked
