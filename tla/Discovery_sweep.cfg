\* Every combination of kinds of stock, with at most one part of the sweep failing.
CONSTANTS
    Alphabet <- MCAlphabet
    Universe = {"a", "b"}
    Facts <- MCFacts
    BenchReturn = 1
    Failing <- MCFailing
    MaxCandidates = 2
    FocusLimit = 1

SPECIFICATION SweepSpec

INVARIANTS
    CapKeepsBest
    FailureCostsOnlyItsEvents

CHECK_DEADLOCK FALSE
