SPECIFICATION FairSpec
CONSTANTS
    Hosts <- OneMachine
    Driver <- DriverHost
    Wire <- TheWire
    Delays <- LongDelay
    Deadlines <- OneDeadline
    Offsets <- SlowOrFast
    Handlers = {"quiet", "broken", "exiting"}
    Futures = {"task", "future", "done"}
    MaxSeq = 3
    MaxRuns = 2
    MaxFailures = 1
    MaxClocks = 1
INVARIANTS Accounted NoTimerOvertaken TraceIsAHistory WhenHasCome SuccessIsHonest
PROPERTIES ClockJumpsToEarliestLive StallIsDrained RunReturns
CHECK_DEADLOCK FALSE
