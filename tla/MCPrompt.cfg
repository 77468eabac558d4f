SPECIFICATION PromptSpec
CONSTANTS
    s1 = s1
    p1 = p1
    cheese = cheese
    milk = milk
    NoItem = NoItem
    Stores = {s1}
    Producers = {p1}
    Clients = {s1, p1}
    Subscriptions <- Channels
    ItemOrder <- TwoItems
    Products <- AllProducts
    itemPrices <- DearPrices
    StartStock <- StartAt800
    INITIAL_STOCK = 1000
    OFFER_DELAY = 10
    PRICE_INCREASE = 5
    Prices = {}
    Amounts = {}
    SaleAmounts = {100}
    MaxSales = 2
    MaxDemand = 70
    OwnPrices = {60}
    OwnAmounts = {200}
    MaxOwnOffers = 0
    Late = {}
    Flaky = {}
    Namesakes <- OwnIds
    Stoppable = {}
    QueueLimit = 6
    MaxRedeliveries = 0
PROPERTY LowStockIsRestocked

