SPECIFICATION FairSpec
CONSTANTS
    Asked = {q}
    Requests = {r}
    MaxAttempts = 2
    MaxClicks = 3
    MaxFaults = 1
    MaxRestarts = 1

    
PROPERTIES
    DecidedOnce
    RequestsEnd
CHECK_DEADLOCK FALSE
