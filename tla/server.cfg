SPECIFICATION FairSpec
CONSTANTS
    p1 = p1
    p2 = p2
    ann = ann
    bob = bob
    b1 = b1
    Procs = {p1, p2}
    Engines = {"sqlite", "mysql"}
    MaxAddresses = 4
    Buyers = {b1}
    MaxOrders = 5
    Names = {ann, bob}
    AdminConfigs <- MCAdminConfigs
    MaxRequests = 2
    MaxFaults = 1
    MaxSignals = 1
CHECK_DEADLOCK FALSE
INVARIANTS
    TypeOK
    UniqueActivityOrder
    AdminsWereConfigured
    ServingMeansReady
    OrderlyShutdown
PROPERTIES
    OneDefaultAddress
    StopsAfterSignal
    EventuallyServes
