SPECIFICATION FairSpec
CONSTANTS
    Agents = {a, b}
    None = None
    MaxStarts = 3
INVARIANTS TypeOK PidStays
PROPERTIES ImplementsLock StartEnds
CHECK_DEADLOCK FALSE
