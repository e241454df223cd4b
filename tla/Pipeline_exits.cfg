\* No model, nobody edits: a holding with a strategy and a sell review.
CONSTANTS
    h = h
    n = n
    Symbols <- MCSymbols
    NotKnown = NotKnown
    e1 = e1
    e2 = e2
    FirstProfile <- Base
    Edits <- MCEdits
    Editors = {e1, e2}
    Price <- MCPrice
    Cost <- MCCost
    Facts <- MCFacts
    Adv <- MCAdv
    Markets <- MCMarkets
    Earnings <- MCEarnings
    Events <- MCEvents
    Rank <- MCRank
    Charts <- MCCharts
    Tapes <- MCTapes
    Aggregates <- MCAggregates
    Start <- MCStart
    PriorClose = 50500
    Lots <- MCLots
    Modes = {"free"}
    MaxEdits = 0

SPECIFICATION Spec

INVARIANT ReductionsSurface

CHECK_DEADLOCK FALSE
