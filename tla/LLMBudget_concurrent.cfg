\* Two sessions that do not see each other's uncommitted usage.
CONSTANTS
    Sessions = {s1, s2}
    Budget <- MCBudget
    MaxRetries = 2
    ReplyCharges <- MCReplyCharges
    MaxCharge <- MCMaxCharge
    MaxAborts = 1

SPECIFICATION Spec

INVARIANTS
    TypeOK
    SessionOvershootBounded
    DegradedUntilMidnight

PROPERTIES
    ImplementsCallMeter
SYMMETRY SessionSymmetry
