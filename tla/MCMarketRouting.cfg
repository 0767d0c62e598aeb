SPECIFICATION MCFairSpec
CONSTANTS
    binance = binance
    bybit = bybit
    btc = btc
    Core = {1, 2}
    Venue = {binance, bybit}
    Market = {btc}
    NoVenue = NoVenue
    NoRole = NoRole
    FirstVenues <- MCTogether
    Scenarios <- MCScenarios
INVARIANTS
    TypeOK
    RoleDelivered
    ServedHasView
    AppliesLatest
    BelievesTruth
PROPERTIES
    PlanServesCharts
    Settles
