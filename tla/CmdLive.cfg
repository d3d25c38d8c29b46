SPECIFICATION LiveSpec
CONSTANTS
    c1 = c1
    c2 = c2
    p1 = p1
    NoCmd = NoCmd
    PwCallers = {"a", "b"}
    MaxPwOps = 6
PROPERTIES StopCompletes QueueServed LeaseKept WakeupReturns
\* The calls of power saving are bounded: the system may have made the last.
CHECK_DEADLOCK FALSE
