SPECIFICATION Spec
CONSTANTS
    cheese = cheese
    bread = bread
    s1 = s1
    s2 = s2
    Sensors = {cheese}
    manual = {cheese}
    steps <- LargeSteps
    StartingValues <- FullStart
    Word <- SmallWord
    AirLimit = 2
    ItemList <- OneItem
    StoreList <- BothStores
    Price <- Prices
    Fragile = {}
    Requests = {}
INVARIANTS TypeOK Aligned BuysFromCheapest
CHECK_DEADLOCK FALSE
