SPECIFICATION Spec
CONSTANTS
    A = A
    B = B
    C = C
    a1 = a1
    a2 = a2
    b = b
    c = c
    None = None
    Groups = {A, B, C}
    Sessions = {a1, a2, b, c}
    Tasks = {a2}
    Absent = {b}
    GroupOf <- MCGroupOf
    Oldest <- MCOldest
    Known <- MCKnown
    Policies <- MCPolicies
    MaxMessages = 3
    MaxTries = 2
    MaxEdits = 1
INVARIANTS
    AnswersReturn
PROPERTIES
    EdgesAreLive
CHECK_DEADLOCK FALSE
