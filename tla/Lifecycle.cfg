SPECIFICATION Spec
CONSTANTS
    r1 = r1  r2 = r2  c1 = c1  c2 = c2  s1 = s1  s2 = s2  ada = ada  nobody = nobody
    Nobody = nobody
    Requests <- OneRequest
    Automated <- OneRequest
    StudentOf <- OneStudent
    Clients <- TwoClients
    Schedulers <- None
    Ops <- LifecycleOps
    LastDay = 2
    ReminderDays = 1
    NumForms = 2
    MaxJobs = 3
    MaxEvents = 8
    MaxOutlived = 0
SYMMETRY ClientSymmetry
CHECK_DEADLOCK FALSE
INVARIANTS TypeOK ApprovedIsBeingSetUp LogTellsTheHistory
PROPERTIES OutcomeIsFinal DecidedFormIsFixed ImplementsWorkflow
