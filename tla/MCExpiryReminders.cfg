CONSTANTS
    Replicas = {r1, r2}
    Windows = {2, 5}
    Lifetime = 5
    Interval = 1
    SweepTime = 1
    Grace = 2
    faults = TRUE
    MaxTime = 7
    MaxChanges = 1
CHECK_DEADLOCK FALSE
SYMMETRY Symmetry
SPECIFICATION ReminderSpec
INVARIANTS OncePerWindow RemindedInTime
