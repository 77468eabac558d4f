SPECIFICATION FairSpec
CONSTANTS
    cheese = cheese
    bread = bread
    s1 = s1
    s2 = s2
    Sensors = {cheese, bread}
    manual = {cheese, bread}
    steps <- UnitSteps
    StartingValues <- UnitStarts
    Word <- SmallWord
    AirLimit = 1
    ItemList <- TwoItems
    StoreList <- BothStores
    Price <- Prices
    Fragile = {s1}
    Requests <- PageAndButton
INVARIANT KnownUnlessRestocking
PROPERTIES DiesOnlyWhereThreadsMeet ConnectionsEnd ButtonRestocks ManualSensorsEnd
CHECK_DEADLOCK FALSE
