SPECIFICATION FairSpec
CONSTANTS
    u1 = u1
    u2 = u2
    n1 = n1
    d1 = d1
    d2 = d2
    Upgrades <- MCOneUpgrade
    Downgrades <- MCNoDowngrades
    Deliveries <- MCDeliveries
    StartAt <- MCRevision0002
PROPERTIES
    UpgradeReachesHead
