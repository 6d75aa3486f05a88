\* Two messages from a WebSocket to a user who connects over TCP.
SPECIFICATION SenderUpSpec
CONSTANTS
    alice = alice
    bob = bob
    a1 = a1
    b1 = b1
    b2 = b2
    None = None
    User <- MCUser
    Sess <- MCPair
    Owner <- MCPairOwner
    Kind <- MCPairKind
    Writes <- MCOneWay
    MaxMsg = 2
CHECK_DEADLOCK FALSE
INVARIANTS AtMostOnce HistoryComplete PathOrder
PROPERTIES Settles
