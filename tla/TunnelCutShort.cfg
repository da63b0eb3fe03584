\* A short answer, all of it in one window.
SPECIFICATION Spec
CONSTANTS
    Chunk = 2
    Chunks = 2
    Answer = 3
    Destroys = 0
INVARIANTS
    NothingIsCutShort
CHECK_DEADLOCK FALSE
