SPECIFICATION Spec
CONSTANTS
    Clocks = {c1, c2}
    NULL = NULL
    UsecPerSec = 10000
    DriverRate = 100
    Rates = {0, 44, 100, 441}
    Nows = {0}
    MaxOwned = 1
    Controls = {1, 6, 7, 10, 11, 38, 64, 65, 66, 67, 96, 97, 98, 99, 100, 101}
    Batch = 3
    SignBit = 4194304
    Channels = {0, 1}
    Controllers = {k1, k2}
    Timers = {t1}
    Garbage = {0, 255}
    Limits <- MCLimits
SYMMETRY Symmetry
INVARIANTS TypeOK RefsExact ClockRefsExact TickExact ConvertExact Delivered TimesKept EntryFollows
PROPERTIES Steady
CHECK_DEADLOCK FALSE
