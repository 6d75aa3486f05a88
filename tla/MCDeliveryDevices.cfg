\* One message to a recipient with two connections that overlap in every way.
SPECIFICATION SenderUpSafety
CONSTANTS
    alice = alice
    bob = bob
    a1 = a1
    b1 = b1
    b2 = b2
    None = None
    User <- MCUser
    Sess <- MCTriple
    Owner <- MCTripleOwner
    Kind <- MCTripleKind
    Writes <- MCOneWay
    MaxMsg = 1
CHECK_DEADLOCK FALSE
INVARIANTS RightRecipient
VIEW MessageView
SYMMETRY Reconnects
