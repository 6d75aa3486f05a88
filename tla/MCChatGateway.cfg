\* An old and a new object, for each an old and a new socket, and an event stream.
SPECIFICATION Spec
CONSTANTS
    Forgotten = {o1}
    Socket = {s1, s2}
    MaxListeners = 1
INVARIANTS TunnelSound NeverStranded
PROPERTIES TriedAgain SendEnds
