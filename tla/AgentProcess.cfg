\* Suspension, restart and stop by messages and by direct calls.
CONSTANTS
    Controls = {"suspend", "resume", "force_restart", "heartbeat", "halt", "urgent"}
    DirectCalls = {"suspend", "resume"}
    MaxRetries = 1
    StopTimesOut = TRUE
    StoreFails = TRUE
    MaxBusiness = 2
    MaxControls = 3
    MaxIncarnations = 2
SPECIFICATION FairSpec
INVARIANTS FifoAtMostOnce DurableStatus
PROPERTIES SuspendExact ServesOrStops
CHECK_DEADLOCK FALSE
