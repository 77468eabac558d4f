SPECIFICATION StoreSpec
CONSTANTS
    s1 = s1
    cheese = cheese
    milk = milk
    NoItem = NoItem
    Stores = {s1}
    ItemOrder <- MCOrder
    itemPrices <- MCPrices
    StartStock <- MCStart
    INITIAL_STOCK = 1000
    OFFER_DELAY = 2
    PRICE_INCREASE = 50
    Prices = {110, 160}
    Amounts <- MCOfferAmounts
    SaleAmounts = {100}
    MaxSales = 2
    MaxDemand = 3
INVARIANTS StoreTypeOK StockCap OrderWithinLimit Registers
PROPERTY ImplementsStockroom
CHECK_DEADLOCK FALSE
