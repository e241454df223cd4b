\* A late Redis, a failure or a restart, and callers that give up.
CONSTANTS
    worker = worker
    api = api
    w1 = w1
    a1 = a1
    Procs = {worker, api}
    Callers = {w1, a1}
    ProcessOf <- MCProcessOf
    Limit = 2
    Window = 2
    MaxWait = 3
    Nap = 1
    Delay = 1
    MaxTime = 6
    MaxFaults = 2

SPECIFICATION LimiterSpec

INVARIANTS
    BurstBounded
    AnsweredByDeadline

CHECK_DEADLOCK FALSE
