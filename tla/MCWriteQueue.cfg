\* A TCP or a WebSocket session with up to five frames.
SPECIFICATION QueueSpec
CONSTANTS
    small = small
    large = large
    reply = reply
    Reply = reply
    Frame <- MCFrame
    Pieces <- MCPieces
    MaxWrites = 5
INVARIANTS NoLostWakeup FramesIntact
PROPERTIES ImplementsOutbox
CHECK_DEADLOCK FALSE
