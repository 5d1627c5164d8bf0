SPECIFICATION Spec
CONSTANTS
    gfp = gfp
    ref = ref
    inTransit = inTransit
    delivered = delivered
    Absent = Absent
    Vendors = {gfp}
    Refs = {ref}
    States = {inTransit, delivered}
    EventTimes <- MCEventTimes
    VendorHint <- MCVendorHint
    Raws <- MCOneRaw
    Duplicates <- MCNoDuplicates
    Outcomes <- StableOutcomes
    Workers = {w1, w2}
    Operators = {o1}
    MaxAttempts = 3
    StaleLock = 1
    ReapInterval = 1
    WorstCaseInFlight = 1
    Slow = {}
    MaxClockSkew = 0
    Misled = {}
    MaxFaults = 1
SYMMETRY ActorsAlike
INVARIANTS
    OrphanIsReapable
