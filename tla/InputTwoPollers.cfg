CONSTANTS
    Pollers <- MainAndEngine
    MAX_INPUT_EVENTS = 3
    Buttons <- SelectAndStart
    MaxEvents = 2
    None = None
SPECIFICATION Spec
INVARIANT NothingLost
CHECK_DEADLOCK FALSE
