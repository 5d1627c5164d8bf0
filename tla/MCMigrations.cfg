SPECIFICATION FairSpec
CONSTANTS
    u1 = u1
    u2 = u2
    n1 = n1
    d1 = d1
    d2 = d2
    Upgrades <- MCUpgrades
    Downgrades <- MCDowngrades
    Deliveries <- MCDeliveries
    StartAt <- MCAnyRevision
INVARIANTS
    SchemaMatchesRevision
    RowsFitSchema
    HeadAdmitsOnePrimary
PROPERTIES
    EveryMigrationEnds
