SPECIFICATION ReaderSpec
CONSTANTS
    gfp = gfp
    ref = ref
    Vendors = {gfp}
    Refs = {ref}
    States = {inTransit, delivered}
    Absent = Absent
    Raws <- MCRaws
    EventTimes <- MCEventTimes
    VendorHint <- MCVendorHint
    Clients = {c1, c2}
    Wanted <- MCWanted
SYMMETRY ClientsAlike
INVARIANTS
    LogMatchesProcessed
    ConvergesToLatest
    HistoryBacksState
    ResponseIsFresh
PROPERTIES
    RerunIsNoOp
    RepeatedReadsAdvance
