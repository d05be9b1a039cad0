CONSTANTS
    MAX_PLAYERS = 2
    RING_BUFFER_SIZE = 4
    Threads <- EngineAndWorker
    Pumper = "engine"
    CHUNK = 1
    Sizes <- OneSample
    MaxMade = 2
    MaxCalls = 6
    None = None
SPECIFICATION FairSpec
INVARIANTS AudioTypeOK SlotsOwned  SoundBelongs
PROPERTIES RingIsFifo CutIsPermanent Refilled
CHECK_DEADLOCK FALSE
