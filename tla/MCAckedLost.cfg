SPECIFICATION Spec
CONSTANTS
    d1 = d1
    d2 = d2
    d3 = d3
    d4 = d4
    d5 = d5
    gfp = gfp
    maeu = maeu
    h1 = h1
    h2 = h2
    NoParent = NoParent
    Keys <- MCKeys
    Vendors = {gfp, maeu}
    Hashes = {h1, h2}
    Deliveries = {d1, d2, d3}
    VendorOf <- MCVendorOf
    HashOf <- MCHashOf
INVARIANTS
    AckedIsStored
