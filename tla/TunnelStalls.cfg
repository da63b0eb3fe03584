\* One window of an answer that comes a unit at a time.
SPECIFICATION Spec
CONSTANTS
    Chunk = 3
    Chunks = 2
    Answer = 6
    Destroys = 0
INVARIANTS
    LoopNeverWaits
CHECK_DEADLOCK FALSE
