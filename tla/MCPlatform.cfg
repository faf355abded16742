CONSTANTS
    Users = {p1, p2}
    Units = {"v1"}
    Devices = {"d1"}
    Issues = {i1}
    Jobs = {t1, t2}
    Twins = {t1, t2}
    Peers = {p1, p2}
    TTL = 1
    ShareTTL = 2
    Margin = 1
    MaxRequest = 1
    MaxTime = 3
    MaxChanges = 2
    Overlap = FALSE
    Failures = TRUE
    Colleagues <- MCColleagues
    Revokers <- MCRevokers
    Book <- MCBook
    Stay <- MCStay
    Reading <- MCReading
    Fleet <- MCFleet
    Forest <- MCForest
    Reselling <- MCReselling
    Growing <- MCGrowing
    Contract <- MCContract
    Ordering <- MCOrdering
    Stock <- MCStock
    Definitions <- MCDefinitions
    Drafting <- MCDrafting
    Hosting <- MCHosting
    None = none
SPECIFICATION PlatformSpec
SYMMETRY Symmetry
CHECK_DEADLOCK FALSE
INVARIANTS
    AccessEnds PastIsSeenByItsOwners TenantsAreSound EventsTellTheTruth OrdersReachTheirDevice
    RulesAreDistinctAndTold
PROPERTY SettledIsShown
