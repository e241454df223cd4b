\* Two sessions, one exception in the day.
CONSTANTS
    aa = aa
    bb = bb
    cc = cc
    dd = dd
    s1 = s1
    s2 = s2
    Symbols <- MCSymbols
    NotKnown = NotKnown
    Taxonomy <- MCTaxonomy
    Funds <- MCFunds
    Etfs <- MCEtfs
    Seeds <- MCSeeds
    PolicyDriven = {"grid"}
    Tradeable <- MCSymbols
    Sessions = {s1, s2}
    Corpora <- MCCorpora
    Markets <- MCMarkets
    Profile <- MCProfile
    ReviewCaps = {0, 1}
    MaxThemes = 2
    MaxPerTheme = 3
    MaxPicks = 2
    NoText = NoText
    MaxRuns = 2
    MaxFaults = 1

SPECIFICATION Spec

SYMMETRY SameSessions

INVARIANTS
    BasketWithinLimits
    TalkAloneIsCapped
    PaidOnce
    TextWithItsReport

PROPERTIES
    StoredAsShown

CHECK_DEADLOCK FALSE
