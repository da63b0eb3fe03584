\* A window of two chunks of three units, an answer longer than the window.
SPECIFICATION FairSpec
CONSTANTS
    Chunk = 3
    Chunks = 2
    Answer = 8
    Destroys = 1
INVARIANTS
    TypeOK
    WindowIsWhole
PROPERTIES
    NothingIsLeftOpen
    AnswersEnd
CHECK_DEADLOCK FALSE
