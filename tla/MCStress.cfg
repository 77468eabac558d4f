SPECIFICATION StressSpec
CONSTANTS
    s1 = s1
    s2 = s2
    cheese = cheese
    NoItem = NoItem
    Stores = {s1, s2}
    ItemOrder <- MCOrder
    itemPrices <- MCPrices
    StartStock <- NoStock
    INITIAL_STOCK = 1000
    OFFER_DELAY = 2
    PRICE_INCREASE = 50
    Prices = {}
    Amounts = {}
    SaleAmounts = {}
    MaxSales = 0
    MaxDemand = 2
    Rounds = 10
INVARIANT MostOffersAreOrdered
CHECK_DEADLOCK FALSE
