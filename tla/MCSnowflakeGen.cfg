\* Three ids fit in a millisecond; the clock only goes forward.
SPECIFICATION GenSpec
CONSTANTS
    MaxSeq = 2
    ClockSteps <- Forward
    MaxClock = 6
    MaxIds = 10
INVARIANTS NonDecreasing AtMostTwice
CHECK_DEADLOCK FALSE
