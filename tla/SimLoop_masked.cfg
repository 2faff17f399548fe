SPECIFICATION Spec
CONSTANTS
    Hosts <- OneMachine
    Driver <- DriverHost
    Wire <- TheWire
    Delays <- ShortDelays
    Deadlines <- NoDeadlines
    Offsets <- NoOffset
    Handlers = {"none"}
    Futures = {"task"}
    MaxSeq = 4
    MaxRuns = 1
    MaxFailures = 1
    MaxClocks = 0
INVARIANTS FailureOutranksDeadlock
CHECK_DEADLOCK FALSE
