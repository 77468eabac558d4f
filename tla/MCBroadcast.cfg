SPECIFICATION Spec
CONSTANTS
    s1 = s1
    s2 = s2
    p1 = p1
    p2 = p2
    cheese = cheese
    milk = milk
    NoItem = NoItem
    Stores = {s1, s2}
    Producers = {p1}
    Clients = {s1, s2, p1}
    Subscriptions <- Channels
    ItemOrder <- OneItem
    Products <- AllProducts
    itemPrices <- RetailPrices
    StartStock <- StartAt850
    INITIAL_STOCK = 1000
    OFFER_DELAY = 2
    PRICE_INCREASE = 50
    Prices = {}
    Amounts = {}
    SaleAmounts = {100}
    MaxSales = 1
    MaxDemand = 1
    OwnPrices = {60}
    OwnAmounts = {200}
    MaxOwnOffers = 1
    Late = {}
    Flaky = {}
    Namesakes <- OwnIds
    Stoppable = {}
    QueueLimit = 2
    MaxRedeliveries = 1
INVARIANTS StockCap DeliveriesWereOffered OrderPriceWasAsked
