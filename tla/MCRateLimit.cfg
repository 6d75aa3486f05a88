\* The bucket of a TCP session, and one the RateLimiter creates on demand.
SPECIFICATION Spec
CONSTANTS
    session = session
    key = key
    Key = {session, key}
    Lazy = {key}
    Capacity = 5
    Cost = 2
    MaxTime = 7
    MaxGrants = 4
INVARIANTS WindowBound OnlyExcessRefused
CHECK_DEADLOCK FALSE
