\* Two agents ended under drops and a crash, or one ended while another is started.
SPECIFICATION FairSpec
CONSTANTS
    s1 = s1
    s2 = s2
    Sessions = {s1, s2}
    Settings <- BothSettings
    MaxFrames = 2
INVARIANTS
    TypeOK
    EndedMeansGone
    DirectoryUnderAgents
    LastOutReclaims

    
CHECK_DEADLOCK FALSE
