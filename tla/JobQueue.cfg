SPECIFICATION FairSpec
CONSTANTS
    Keys = {"k"}
    Workers = {"v", "w"}
    MaxAttempts = 2
    Retries = 2
    MaxRenewals = 1
    MaxFaults = 2
INVARIANTS
    QueueHoldsQueued
    LeaseIsWatched
    ExactlyOnce
    DoneIsCommitted
    AnswerStands
PROPERTIES
    Converges
CHECK_DEADLOCK FALSE
