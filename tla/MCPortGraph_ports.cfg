CONSTANTS
    d = d
    t = t
    a = a
    Ports = {d, t, a}
    Depth = 20
    ModeOf <- ThreeModes
    Drivers = {d}
    Loopback = {d}
    Careless = FALSE
    Ops = {"connect", "disconnect", "invalidate", "release", "retain", "message"}
    Reentrant = {"connect", "disconnect", "invalidate", "release"}
    MaxOps = 4
    NULL = NULL
SPECIFICATION MCSpec
INVARIANTS TypeOK RefsExact TargetAlive EachOnce Reclaimed NoEcho CascadeEnds
CHECK_DEADLOCK FALSE
