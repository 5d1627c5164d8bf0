SPECIFICATION PipelineFairSpec
CONSTANTS
    gfp = gfp
    ref = ref
    delivered = delivered
    h1 = h1
    NoParent = NoParent
    Absent = Absent
    Vendors = {gfp}
    Refs = {ref}
    States = {delivered}
    Hashes = {h1}
    EventTimes <- MCEventTimes
    VendorHint <- MCVendorHint
    HashOf <- MCHashOf
    Raws <- MCRaws
    Duplicates <- MCNoDuplicates
    Outcomes <- MCOutcomes
    Workers = {w1, w2}
    Operators = {}
    MaxAttempts = 3
    StaleLock = 0
    ReapInterval = 0
    WorstCaseInFlight = 0
    Slow = {w1}
    MaxClockSkew = 0
    Misled = {w1, w2}
    MaxFaults = 2
INVARIANTS
    OneEventPerContent
    DuplicateHasWork
PROPERTIES
    
    
    ImplementsContentLog
