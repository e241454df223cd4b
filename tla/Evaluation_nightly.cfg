\* A symbol of the universe over three trading days, with skipped bars and lost nights.
CONSTANTS
    Universe = {"u"}
    Strangers = {}
    Levels <- MCLevels
    DayBars <- MCDayBars
    Budget = 2
    SweepDays = 3
    UpdateDays = 1
    Strategy <- MCStrategy
    Regime <- MCRegime
    MinResolved = 2
    Blend = 3
    MaxDays = 3
    MaxSignals = 2

SPECIFICATION Spec

INVARIANTS
    ResolvedOnce
    OutcomeIsTheMarkets
    ResolvedInTime
    StatsCurrent
    PriorIsEarned

CHECK_DEADLOCK FALSE
