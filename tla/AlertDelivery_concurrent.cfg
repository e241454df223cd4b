SPECIFICATION Spec
CONSTANTS
    Jobs <- MCJobs
    KindOf <- MCKindOf
    Cap <- MCCap
    MaxEligible = 3
INVARIANTS
    CapKept
    FlagsAgreeWithLog
PROPERTY NeverStarved
