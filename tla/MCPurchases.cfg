SPECIFICATION PurchaseSpec
CONSTANTS
    cheese = cheese
    bread = bread
    s1 = s1
    s2 = s2
    guest = guest
    Sensors = {cheese, bread}
    manual = {cheese, bread}
    steps <- UnitSteps
    StartingValues <- UnitStarts
    Word <- SmallWord
    AirLimit = 1
    ItemList <- TwoItems
    StoreList <- BothStores
    Price <- Prices
    Fragile = {s1}
    Requests = {}
    Outsiders = {guest}
    Visits <- GuestAtFirst
    Stocked = {cheese}
    itemPrices <- Retail
    StartStock = 150
    Amounts = {100}
    MaxBought <- Bounds
PROPERTIES ImplementsHousehold TakenIsMissing
CHECK_DEADLOCK FALSE
