SPECIFICATION Spec
CONSTANTS
    Tabs = {t1, t2}
    Types = {"HPC_GPU"}
    Texts = {"a", "b"}
    Typed <- FieldValues
    Decisions = {"ACTIVE"}
    MaxForms = 2
    MaxRequests = 2
    MaxDrafts = 1
    MaxCalls = 2
    MaxErrors = 2
    MaxTrouble = 1
INVARIANT AskIsTaken
CHECK_DEADLOCK FALSE
