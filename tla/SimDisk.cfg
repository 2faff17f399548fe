SPECIFICATION Spec
CONSTANTS
    Keys = {k1, k2, k3}
    Values = {v1, v2}
    Absent = absent
    Deleted = deleted
    MaxJournal = 3
INVARIANTS ReadsOwnWrites IterationListsTheView
PROPERTIES ImplementsCrashSafeDisk
