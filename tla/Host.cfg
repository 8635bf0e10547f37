SPECIFICATION FairSpec
CONSTANTS
    Schedule <- MCSchedule
    Window = 3
    MaxTime = 5
    MaxStops = 3
    MaxEdits = 2
    MaxFaults = 1
INVARIANTS
    
    NotSleptThrough
PROPERTIES
    DueRowsRun
CHECK_DEADLOCK FALSE
