CONSTANTS
    Plans = {basic, pro}
    MaxMonth = 2
    MaxPrice = 2
    Intents = {i1, i2, i3}
    MaxEvents = 2
    Unreachable = {"cancel", "create"}
    Races = {}
    Methods = {"a", "b", "c"}
    CardOf <- MCCardOf
    CardRequests = {"r1"}
    MaxCardRequests = 9
    Invoices = {"i1", "i2"}
    StampRequests = {"r1", "r2"}
    Customers = {"c1", "c2", "c3"}
    MaxVoids = 1
    MaxDeploys = 1
    Users = {"ana", "luis"}
    Tokens = {"p", "q"}
    Rows = {"i1", "i2"}
    Arns = {"n1", "n2", "n3"}
    Mobiles = {"m1", "m2"}
    Externals = {"e"}
    Registrations = {"r1"}
    Unique = "token"
    Crashes = {"claim", "ask", "insert", "refresh"}
    ExpiresInUse = FALSE
    MaxCalls = 5
    Overlap = FALSE
    None = none
SPECIFICATION BillingSpec
SYMMETRY Symmetry
CHECK_DEADLOCK FALSE
INVARIANTS ChargedAndGrantedOnce CardsAreInStep StampedOnceForItsCustomer PushesFindTheirPerson
PROPERTY StampStays
