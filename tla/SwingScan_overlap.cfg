\* Two sessions, three scans, and one event around them.
CONSTANTS
    a = a
    b = b
    z = z
    s1 = s1
    s2 = s2
    Symbols <- MCSymbols
    NotKnown = NotKnown
    Universe <- MCUniverse
    Rank <- MCRank
    Sessions = {s1, s2}
    Histories <- MCHistories
    Facts <- MCFacts
    Tapes <- MCTapes
    Events <- MCEvents
    Earnings <- MCEarnings
    Correlations = {5000, 8000}
    Start <- MCStart
    Profiles <- MCProfiles
    FirstProfile <- Base
    Mode = "smart"
    MaxCandidates = 12
    SWING_MAX_REVIEWS = 2
    Lots <- MCLots
    MaxScans = 3
    MaxEvents = 1

SPECIFICATION Spec

INVARIANTS
    SetupOrCash
    GateAgreesWithPrefilter
    PaidOnceUnlessRaced

PROPERTIES
    ScanEnds

CHECK_DEADLOCK FALSE
