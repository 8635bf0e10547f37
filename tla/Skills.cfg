SPECIFICATION SkillsSpec
CONSTANTS
    Script <- MCScript
    Values = {"local", "remote"}
    Standing = {"f2", "l2", "k1"}
    SkipEffects = {"restart"}
    MaxRuns = 2
    MaxFaults = 2
INVARIANTS
    CompleteIsThere
    
PROPERTIES
    GroundHolds
CHECK_DEADLOCK FALSE
