SPECIFICATION EndpointFairSpec
CONSTANTS
    gfp = gfp
    ref = ref
    inTransit = inTransit
    delivered = delivered
    Absent = Absent
    Vendors = {gfp}
    Refs = {ref}
    States = {inTransit, delivered}
    EventTimes <- MCEventTimes
    VendorHint <- MCVendorHint
    Raws <- MCRaws
    Duplicates <- MCDuplicates
    Outcomes <- MCOutcomes
    Workers = {w1}
    Operators = {o1}
    MaxAttempts = 2
    StaleLock = 1
    ReapInterval = 1
    WorstCaseInFlight = 1
    Slow = {}
    MaxClockSkew = 0
    Misled = {w1, o1}
    MaxFaults = 1
INVARIANTS
    ReplyReportsLog
    EntityMirrorsLog
    ProcessedHasEvent
    DuplicateUntouched
    ReaperSparesTheBusy
PROPERTIES
    RetryIsAnswered
    NeverRollsBack
