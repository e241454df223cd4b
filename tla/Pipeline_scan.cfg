\* A run at any depth, with two edits of the owner at any point of it.
CONSTANTS
    h = h
    n = n
    Symbols <- MCSymbols
    NotKnown = NotKnown
    e1 = e1
    e2 = e2
    FirstProfile <- Base
    Edits <- MCEdits
    Editors = {e1, e2}
    Price <- MCPrice
    Cost <- MCCost
    Facts <- MCFacts
    Adv <- MCAdv
    Markets <- MCMarkets
    Earnings <- MCEarnings
    Events <- MCEvents
    Rank <- MCRank
    Charts <- MCCharts
    Tapes <- MCTapes
    Aggregates <- MCAggregates
    Start <- MCStart
    PriorClose = 50500
    Lots <- MCLots
    Modes = {"free", "smart"}
    MaxEdits = 2

SPECIFICATION Spec

INVARIANTS
    ModelNeverCreatesTrade
    GateConfirmsPrefilter
    ReductionsPassGate
    LimitsAsEdited

PROPERTIES
    EachFillWithinLimits

CHECK_DEADLOCK FALSE
