\* A TCP and a WebSocket connection of one user.
SPECIFICATION LifeSpec
CONSTANTS
    alice = alice
    bob = bob
    s1 = s1
    s2 = s2
    None = None
    User <- MCUser
    Sess <- MCSess
    Owner <- MCOwner
    Kind <- MCMixed
INVARIANTS RegistryBacked PresenceBacked
PROPERTIES OnlyOwnerUnregisters SessionEnds
CHECK_DEADLOCK FALSE
