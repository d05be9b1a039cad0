CONSTANTS
    Pollers <- MainAndEngine
    MAX_INPUT_EVENTS = 3
    Buttons <- SelectAndStart
    MaxEvents = 3
    None = None
SPECIFICATION FairSpec
INVARIANTS InputTypeOK EngineAgrees
PROPERTIES ImplementsFifo InputDrains
CHECK_DEADLOCK FALSE
