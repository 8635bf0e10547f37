SPECIFICATION FairTranscriptSpec
CONSTANTS
    q1 = q1
    a1 = a1
    a2 = a2
    s1 = s1
    s2 = s2
    None = None
    Questions = {q1}
    Answers = {a1, a2}
    Clients = {c1, c2}
    Watched = {c1}
    InReplyTo <- MCInReplyTo
    Home <- MCHome
    Sessions <- MCSessions
    MaxStreams = 1
    PageLimit = 2
    MaxTime = 3
    MaxHostRestarts = 1
INVARIANTS
    TranscriptTypeOK
    
    RepliesFollow

    
CHECK_DEADLOCK FALSE
