\* The deployed shape: as many connections as threads.
SPECIFICATION Spec
CONSTANTS
    t1 = t1
    t2 = t2
    c1 = c1
    c2 = c2
    NoSlot = NoSlot
    Thread = {t1, t2}
    Slot = {c1, c2}
INVARIANTS NoSlotLost CommitBound
PROPERTIES CallsEnd
