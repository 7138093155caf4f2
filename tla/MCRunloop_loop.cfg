CONSTANTS
    s1 = s1
    s2 = s2
    Sources = {s1, s2}
    NULL = NULL
    Delegates <- TwoSources
    NumFds = 2
    Slots = 2
    Times = {0, 2}
    MaxAge = 3
    Ops = {"schedule", "clear", "timeout", "add", "remove", "retain", "release", "invalidate", "start", "step", "stop", "interrupt", "releaseLoop"}
    Reentrant = {"clear", "schedule", "timeout", "remove", "stop", "fail"}
    MaxOps = 2
SPECIFICATION MCFairSpec
INVARIANTS TypeOK RefsExact Subscribed
PROPERTIES ReadServed IdleServed Stops
CHECK_DEADLOCK FALSE
