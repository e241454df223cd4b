\* Two requests on two symbols, and the valuation.
CONSTANTS
    Traded = {x, y}
    Requests = {r1, r2}
    Free = Free
    Lots = {1, 2}
    Start = 3
    MaxTrades = 4

SPECIFICATION Spec

INVARIANTS
    TypeOK
    NeverShort
    DerivedUnlessRaced
    EquityConserved
PROPERTY ImplementsAccount

SYMMETRY RequestSymmetry

