\* Two sweeps and a forced ingest in any overlap, with a failure or a restart.
CONSTANTS
    Spy = "SPY"
    Static = {"a"}
    Seeds = {"s"}
    Strangers = {"x"}
    Watchlist = {}
    Held = {"a"}
    Sessions <- MCSessions
    Tables <- MCTables
    Marks = {2, 9}
    DarkDays = {}
    Ttl <- MCTtl
    MaxListed = 1
    MaxClock = 33
    MaxFaults = 1
    MaxStarts = 2

SPECIFICATION DaySpec

INVARIANTS
    MarkersVouch

PROPERTIES
    PublishedToppedUp
    LockComesFree

CHECK_DEADLOCK FALSE
