CONSTANTS
    Charges = {"card1", "card2"}
    Cash = {"cash1"}
    PlanOf <- MCPlanOf
    Cycle = 2
    MaxSubs = 2
    MaxDay = 2
    MaxEvents = 2
    InOrder = TRUE
    CashRaces = FALSE
    Team <- MCTeam
    RuledTeam <- MCRuledTeam
    Plans = {"basic"}
    Products = {"gps"}
    Codes = {"max_devices"}
    Code = "max_devices"
    MaxValue = 1
    Staff = {r1, r2}
    Threads <- MCThreads
    Visitors <- MCVisitors
    None = none
SPECIFICATION OperationsSpec
SYMMETRY Symmetry
CHECK_DEADLOCK FALSE
INVARIANTS PeriodsMatchMoney MembersAreCounted TeamRulesHold CatalogIsSound MembersGetIn
PROPERTY EndsAreFinal
