SPECIFICATION Spec
CONSTANTS
    gfp = gfp
    ref = ref
    inTransit = inTransit
    delivered = delivered
    Absent = Absent
    Vendors = {gfp}
    Refs = {ref}
    States = {inTransit, delivered}
    EventTimes <- MCEventTimes
    VendorHint <- MCVendorHint
    Raws <- MCThreeRaws
    Duplicates <- MCLastIsDuplicate
    Outcomes <- NoisyOutcomes
    Workers = {w1, w2}
    Operators = {}
    MaxAttempts = 2
    StaleLock = 2
    ReapInterval = 1
    WorstCaseInFlight = 1
    Slow = {}
    MaxClockSkew = 1
    Misled = {}
    MaxFaults = 2
SYMMETRY WorkersAlike
INVARIANTS
    TypeOK
    SoleOwner
    WorkerHoldsRow
    OneNormalizedEvent
    FailedAtBudget
PROPERTIES
    ImplementsWorkItems
