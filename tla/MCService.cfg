SPECIFICATION Spec
CONSTANTS
    s1 = s1
    h1 = h1
    h2 = h2
    cheese = cheese
    juice = juice
    Stores = {s1}
    Clients = {h1, h2}
    StoreOf <- OneStore
    Items = {cheese}
    Asked = {cheese, juice}
    itemPrices <- Retail
    StartStock = 181
    Amounts = {81, 100}
    MaxBought <- Bounds
    Word <- SmallWord
INVARIANTS TypeOK SoldAsTold BooksBalance ReceiptCovers
PROPERTIES CallsEnd ImplementsCounter
CHECK_DEADLOCK FALSE
