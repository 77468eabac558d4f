---------------------------- MODULE StoreManager ----------------------------
(***************************************************************************)
(* The stores of one process.  Each store is an MQTT client that buys from *)
(* the producers and a Thrift service that sells to the household server.  *)
(*                                                                         *)
(* Two threads touch a store and share its stock without a lock:           *)
(*   - the loop thread (StoreManager::startLoop) waits in client.loop(),   *)
(*     where the MQTT handler runs, and then sweeps the items;             *)
(*   - the service thread (StoreHandler::order) sells.                     *)
(* `itemStock += n' and `itemStock -= n' are therefore a read step and a   *)
(* write step each, and whatever the other thread does fits in between.    *)
(*                                                                         *)
(* Messages and the outcome of a publish are inputs: StoreSpec lets any    *)
(* client of the broker send anything, module Replenishment connects the   *)
(* same actions to a broker and to producers.                              *)
(***************************************************************************)
EXTENDS Trade

CONSTANTS
    Stores,          \* the StoreManager objects of one process
    itemPrices,      \* itemPrices[s][i]: what store s charges for item i
    StartStock,      \* StartStock[s]: the constructor's startStock
    INITIAL_STOCK,
    OFFER_DELAY,
    PRICE_INCREASE,
    Prices,          \* prices the messages of the environment carry
    Amounts,         \* amounts the messages of the environment carry
    SaleAmounts,     \* amounts the household server buys
    MaxSales,        \* bound: sales per store
    MaxDemand        \* bound: demandCount stops growing here

ASSUME StoreAssumption ==
    /\ INITIAL_STOCK \in Nat \ {0}
    /\ OFFER_DELAY \in Nat \ {0}
    /\ PRICE_INCREASE \in Nat
    /\ itemPrices \in [Stores -> [Items -> Nat]]
    /\ StartStock \in [Stores -> 0..INITIAL_STOCK]
    /\ Prices \subseteq Nat /\ Amounts \subseteq Nat
    /\ SaleAmounts \subseteq Nat \ {0}
    /\ MaxSales \in Nat /\ MaxDemand \in Nat

(* What a client of the broker may send to a store.                         *)
Input == [kind : {"offer", "confirm"}, item : Items, price : Prices, amount : Amounts]

VARIABLES
    itemStock,       \* itemStock[s][i]
    demandCount,     \* demandCount[s][i]: sweeps that found i low
    activeOrder,     \* the one order store s waits for, of whatever item
    ordersReceived,  \* the ledger of sales, what getReceipt answers
    stop,
    at,              \* where the loop thread is
    cursor,          \* sweep: the item it looks at
    handling,        \* trim, restock: the message in the handler
    seen,            \* restock: the stock that `+=' has read
    rpc              \* the service thread's call

loopVars == <<at, cursor, handling, seen>>
storeVars == <<itemStock, demandCount, activeOrder, ordersReceived, stop,
               loopVars, rpc>>

Idle == [step |-> "idle", item |-> NoItem, amount |-> 0, seen |-> 0]
NoMessage == [kind |-> "order", item |-> NoItem, price |-> 0, amount |-> 0]

StoreInit ==
    /\ itemStock = [s \in Stores |-> [i \in Items |-> StartStock[s]]]
    /\ demandCount = [s \in Stores |-> [i \in Items |-> 0]]
    /\ activeOrder = [s \in Stores |-> NoPayload]
    /\ ordersReceived = [s \in Stores |-> <<>>]
    /\ stop = [s \in Stores |-> FALSE]
    /\ at = [s \in Stores |-> "top"]
    /\ cursor = [s \in Stores |-> 1]
    /\ handling = [s \in Stores |-> NoMessage]
    /\ seen = [s \in Stores |-> 0]
    /\ rpc = [s \in Stores |-> Idle]

-----------------------------------------------------------------------------
(* The loop thread outside the handler.  In "loop" client.loop() waits for a *)
(* message or its timeout; in "served" it has handled a message at least,   *)
(* and may find more before it returns.                                     *)

EnterLoop(s) ==
    /\ at[s] = "top" /\ ~stop[s]
    /\ at' = [at EXCEPT ![s] = "loop"]
    /\ UNCHANGED <<itemStock, demandCount, activeOrder, ordersReceived, stop,
                   cursor, handling, seen, rpc>>

(* exit(EXIT_SUCCESS) ends the process, and with it every store in it.      *)
Exit(s) ==
    /\ at[s] = "top" /\ stop[s]
    /\ at' = [t \in Stores |-> "exited"]
    /\ UNCHANGED <<itemStock, demandCount, activeOrder, ordersReceived, stop,
                   cursor, handling, seen, rpc>>

InLoop(s) == at[s] \in {"loop", "served"}

LeaveLoop(s) ==
    /\ InLoop(s)
    /\ at' = [at EXCEPT ![s] = "sweep"]
    /\ UNCHANGED <<itemStock, demandCount, activeOrder, ordersReceived, stop,
                   cursor, handling, seen, rpc>>

Limit(s, i) ==
    itemPrices[s][i] \div 2 + (demandCount[s][i] \div OFFER_DELAY) * PRICE_INCREASE

(* INITIAL_STOCK*0.8, rounded up: no whole stock lies in between.           *)
LowMark == (4 * INITIAL_STOCK + 4) \div 5

IsLow(s, i) == itemStock[s][i] < LowMark

(* Faulty: the sweep goes one past the last item.                           *)
PastLastItem(s) == cursor[s] > Len(ItemOrder)

LastItem(s) == cursor[s] = Len(ItemOrder)

NextItem(s) ==
    /\ cursor' = [cursor EXCEPT ![s] = IF LastItem(s) THEN 1 ELSE @ + 1]
    /\ at' = IF LastItem(s) THEN [at EXCEPT ![s] = "top"] ELSE at
    /\ UNCHANGED <<itemStock, activeOrder, ordersReceived, stop, handling, seen,
                   rpc>>

PassItem(s) ==
    /\ at[s] = "sweep"
    /\ LET i == ItemOrder[cursor[s]]
       IN  ~IsLow(s, i) \/ demandCount[s][i] = MaxDemand
    /\ NextItem(s)
    /\ UNCHANGED demandCount

CountItem(s) ==
    LET i == ItemOrder[cursor[s]]
    IN  /\ at[s] = "sweep"
        /\ IsLow(s, i) /\ demandCount[s][i] < MaxDemand
        /\ demandCount' = [demandCount EXCEPT ![s][i] = @ + 1]
        /\ NextItem(s)

DemandDue(s) == demandCount[s][ItemOrder[cursor[s]]] % OFFER_DELAY = 0

Demand(s) ==
    LET i == ItemOrder[cursor[s]]
    IN  [kind |-> "demand", item |-> i, price |-> Limit(s, i),
         amount |-> INITIAL_STOCK - itemStock[s][i]]

DemandItem(s) == DemandDue(s) /\ CountItem(s)
WaitItem(s) == ~DemandDue(s) /\ CountItem(s)

StopLoop(s) ==
    /\ ~stop[s]
    /\ stop' = [stop EXCEPT ![s] = TRUE]
    /\ UNCHANGED <<itemStock, demandCount, activeOrder, ordersReceived,
                   loopVars, rpc>>

-----------------------------------------------------------------------------
(* on_mosqEvent: runs in the loop thread, inside client.loop().             *)

(* The handler returns to client.loop(), having left the stock alone.       *)
Served(s) ==
    /\ at' = [at EXCEPT ![s] = "served"]
    /\ UNCHANGED <<itemStock, demandCount, ordersReceived, stop, cursor, rpc>>

(* Faulty: the amounts are not compared.                                    *)
isActiveOrderAnyAmount(s, m) ==
    activeOrder[s].item = m.item /\ activeOrder[s].price = m.price

isActiveOrder(s, m) ==
    activeOrder[s] = Payload(m)

(* Faulty: any price is paid.                                               *)
WantedAtAnyPrice(s, m) ==
    /\ m.kind = "offer"
    /\ itemStock[s][m.item] < INITIAL_STOCK
    /\ ~isActiveOrder(s, m)

Wanted(s, m) ==
    /\ m.kind = "offer"
    /\ itemStock[s][m.item] < INITIAL_STOCK
    /\ ~isActiveOrder(s, m)
    /\ m.price <= Limit(s, m.item)

IgnoreOffer(s, m) ==
    /\ InLoop(s)
    /\ m.kind = "offer" /\ ~Wanted(s, m)
    /\ Served(s)
    /\ UNCHANGED <<activeOrder, handling, seen>>

(* Faulty: the price is not copied.                                         *)
OrderForNoPrice(m, n) == [m EXCEPT !.kind = "order", !.amount = n, !.price = 0]

OrderFor(m, n) == [m EXCEPT !.kind = "order", !.amount = n]

(* The store waits for the order only if publish accepted it.               *)
Remember(s, order, sent) ==
    activeOrder' = IF sent THEN [activeOrder EXCEPT ![s] = Payload(order)] ELSE activeOrder

(* The whole offer fits: it is ordered as it came.                          *)
OrderOffer(s, m, sent) ==
    /\ InLoop(s)
    /\ Wanted(s, m) /\ m.amount <= INITIAL_STOCK - itemStock[s][m.item]
    /\ Remember(s, OrderFor(m, m.amount), sent)
    /\ Served(s)
    /\ UNCHANGED <<handling, seen>>

(* It does not: the handler goes on to read the stock a second time, and a  *)
(* sale may come in between.                                                *)
TrimOffer(s, m) ==
    /\ InLoop(s)
    /\ Wanted(s, m) /\ m.amount > INITIAL_STOCK - itemStock[s][m.item]
    /\ at' = [at EXCEPT ![s] = "trim"]
    /\ handling' = [handling EXCEPT ![s] = m]
    /\ UNCHANGED <<itemStock, demandCount, activeOrder, ordersReceived, stop,
                   cursor, seen, rpc>>

Room(s) == INITIAL_STOCK - itemStock[s][handling[s].item]

OrderTrimmed(s, sent) ==
    /\ at[s] = "trim"
    /\ Remember(s, OrderFor(handling[s], Room(s)), sent)
    /\ Served(s)
    /\ handling' = [handling EXCEPT ![s] = NoMessage]
    /\ UNCHANGED seen

IgnoreConfirm(s, m) ==
    /\ InLoop(s)
    /\ m.kind = "confirm" /\ ~isActiveOrder(s, m)
    /\ Served(s)
    /\ UNCHANGED <<activeOrder, handling, seen>>

ReadRestock(s, m) ==
    /\ InLoop(s)
    /\ m.kind = "confirm" /\ isActiveOrder(s, m)
    /\ at' = [at EXCEPT ![s] = "restock"]
    /\ handling' = [handling EXCEPT ![s] = m]
    /\ seen' = [seen EXCEPT ![s] = itemStock[s][m.item]]
    /\ UNCHANGED <<itemStock, demandCount, activeOrder, ordersReceived, stop,
                   cursor, rpc>>

(* Faulty: the order stays open.                                            *)
KeepOrder(s) == UNCHANGED activeOrder

CloseOrder(s) == activeOrder' = [activeOrder EXCEPT ![s].item = NoItem]
ResetDemand(s, i) == demandCount' = [demandCount EXCEPT ![s][i] = 0]

WriteRestock(s) ==
    LET i == handling[s].item
    IN  /\ at[s] = "restock"
        /\ itemStock' = [itemStock EXCEPT ![s][i] = seen[s] + handling[s].amount]
        /\ ResetDemand(s, i) /\ CloseOrder(s)
        /\ at' = [at EXCEPT ![s] = "served"]
        /\ handling' = [handling EXCEPT ![s] = NoMessage]
        /\ seen' = [seen EXCEPT ![s] = 0]
        /\ UNCHANGED <<ordersReceived, stop, cursor, rpc>>

-----------------------------------------------------------------------------
(* StoreHandler::order, in the service thread.  The household server is one *)
(* thread that opens a connection per call, so a store has one call at a    *)
(* time.  An order that finds too little stock is refused and changes       *)
(* nothing.                                                                 *)

CheckStock(s, i, n) ==
    /\ at[s] # "exited"
    /\ rpc[s].step = "idle" /\ Len(ordersReceived[s]) < MaxSales
    /\ itemStock[s][i] >= n
    /\ rpc' = [rpc EXCEPT ![s] = [step |-> "checked", item |-> i, amount |-> n, seen |-> 0]]
    /\ UNCHANGED <<itemStock, demandCount, activeOrder, ordersReceived, stop,
                   loopVars>>

ReadSale(s) ==
    /\ at[s] # "exited"
    /\ rpc[s].step = "checked"
    /\ rpc' = [rpc EXCEPT ![s] = [step |-> "read", item |-> rpc[s].item, amount |-> rpc[s].amount,
                                  seen |-> itemStock[s][rpc[s].item]]]
    /\ UNCHANGED <<itemStock, demandCount, activeOrder, ordersReceived, stop,
                   loopVars>>

WriteSale(s) ==
    LET i == rpc[s].item
        n == rpc[s].amount
    IN  /\ at[s] # "exited"
        /\ rpc[s].step = "read"
        /\ itemStock' = [itemStock EXCEPT ![s][i] = rpc[s].seen - n]
        /\ ordersReceived' = [ordersReceived EXCEPT ![s] = Append(@, [item |-> i, amount |-> n])]
        /\ rpc' = [rpc EXCEPT ![s] = Idle]
        /\ UNCHANGED <<demandCount, activeOrder, stop, loopVars>>

ServiceStep(s) ==
    \/ \E i \in Items, n \in SaleAmounts : CheckStock(s, i, n)
    \/ ReadSale(s)
    \/ WriteSale(s)

-----------------------------------------------------------------------------
StoreNext ==
    \E s \in Stores :
        \/ EnterLoop(s) \/ Exit(s) \/ LeaveLoop(s)
        \/ PassItem(s) \/ DemandItem(s) \/ WaitItem(s)
        \/ StopLoop(s)
        \/ \E m \in Input :
              \/ IgnoreOffer(s, m)
              \/ \E sent \in BOOLEAN : OrderOffer(s, m, sent)
              \/ TrimOffer(s, m)
              \/ IgnoreConfirm(s, m)
              \/ ReadRestock(s, m)
        \/ \E sent \in BOOLEAN : OrderTrimmed(s, sent)
        \/ WriteRestock(s)
        \/ ServiceStep(s)

StoreSpec == StoreInit /\ [][StoreNext]_storeVars

-----------------------------------------------------------------------------
(* Properties.                                                              *)

Positions == {"top", "loop", "served", "sweep", "trim", "restock", "exited"}

(* Every variable of the store keeps its shape.                             *)
StoreTypeOK ==
    /\ itemStock \in [Stores -> [Items -> Nat]]
    /\ demandCount \in [Stores -> [Items -> Nat]]
    /\ activeOrder \in [Stores -> Payloads]
    /\ ordersReceived \in [Stores -> Seq([item : Items, amount : Nat])]
    /\ stop \in [Stores -> BOOLEAN]
    /\ at \in [Stores -> Positions]
    /\ cursor \in [Stores -> 1..Len(ItemOrder)]
    /\ handling \in [Stores -> [kind : Kinds, item : Items \cup {NoItem}, price : Nat, amount : Nat]]
    /\ seen \in [Stores -> Nat]
    /\ rpc \in [Stores -> [step : {"idle", "checked", "read"}, item : Items \cup {NoItem},
                           amount : Nat, seen : Nat]]

(* A store never holds more than INITIAL_STOCK of an item, whatever its     *)
(* sales and deliveries overwrite of each other: the order that startLoop   *)
(* and on_mosqEvent keep open always fits the room that is left, also after *)
(* the sales that run between the order and its confirmation.               *)
StockCap ==
    \A s \in Stores, i \in Items :
        /\ itemStock[s][i] <= INITIAL_STOCK
        /\ activeOrder[s].item = i => itemStock[s][i] + activeOrder[s].amount <= INITIAL_STOCK

(* The price a store waits to pay is never above what it would accept now:  *)
(* on_mosqEvent compares it with the limit once, and no later step takes    *)
(* the limit below it while the order is open.                              *)
OrderWithinLimit ==
    \A s \in Stores, i \in Items :
        activeOrder[s].item = i => activeOrder[s].price <= Limit(s, i)

(* What the two threads hold in registers, which makes StockCap inductive:  *)
(* a sale in progress has read no more than there is, a delivery in         *)
(* progress no less, and the delivery is the open order.                    *)
SaleInHand(s) ==
    /\ rpc[s].step # "idle" =>
          /\ rpc[s].item \in Items /\ rpc[s].amount > 0
          /\ itemStock[s][rpc[s].item] >= rpc[s].amount
    /\ rpc[s].step = "read" =>
          rpc[s].seen >= rpc[s].amount /\ rpc[s].seen <= itemStock[s][rpc[s].item]

TrimInHand(s) ==
    at[s] = "trim" =>
        handling[s].item \in Items /\ handling[s].price <= Limit(s, handling[s].item)

RestockInHand(s) ==
    at[s] = "restock" =>
        /\ handling[s].item \in Items
        /\ isActiveOrder(s, handling[s])
        /\ itemStock[s][handling[s].item] <= seen[s]
        /\ seen[s] + handling[s].amount <= INITIAL_STOCK

Registers == \A s \in Stores : SaleInHand(s) /\ TrimInHand(s) /\ RestockInHand(s)

(* Shelves: the store seen as its stock and the one delivery it waits for.  *)
Awaited(s) ==
    [item |-> activeOrder[s].item,
     amount |-> IF activeOrder[s].item = NoItem THEN 0 ELSE activeOrder[s].amount]

Shelves == INSTANCE Stockroom WITH
    Capacity <- INITIAL_STOCK,
    stock <- itemStock,
    pending <- [s \in Stores |-> Awaited(s)]

(* A store keeps what Stockroom promises: startLoop, on_mosqEvent and       *)
(* StoreHandler::order never overfill a shelf, and a delivery that is       *)
(* booked is booked once and in full.  How far the stock then falls is left *)
(* open: a `-=' that read before the delivery was written overwrites it.    *)
ImplementsStockroom == Shelves!Spec

=============================================================================
