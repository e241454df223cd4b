\* Two holdings through two market moves.
CONSTANTS
    Symbols = {x, y}
    NotKnown = NotKnown
    Profile <- MCProfile
    Sector <- MCSector
    Adv <- MCAdv
    Corr <- MCCorr
    Earnings <- MCEarnings
    Marks <- MCMarks
    Charts <- MCCharts
    Opening <- MCOpening
    MaxMoves = 2

SPECIFICATION HoldingsSpec

INVARIANTS
    NoWhipsaw

PROPERTIES
    FillsRestoreCap

CHECK_DEADLOCK FALSE
