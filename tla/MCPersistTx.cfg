SPECIFICATION Spec
CONSTANTS
    p1 = p1
    a1 = a1
    c1 = c1
    c2 = c2
    c3 = c3
    gfp = gfp
    ref = ref
    other = other
    inTransit = inTransit
    delivered = delivered
    Absent = Absent
    Vendors = {gfp}
    Refs = {ref, other}
    States = {inTransit, delivered}
    EventTimes <- MCEventTimes
    VendorHint <- MCVendorHint
    Raws <- MCRaws
    Calls = {c1, c2, c3}
    RawOf <- MCRawOf
    Answers <- MCAnswers
    Reapers = {p1}
    Acquirers = {a1}
INVARIANTS
    NoWaitCycle
PROPERTIES
    ImplementsAtomicPersist
