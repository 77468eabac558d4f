# A verification development for VS_SS17

`src/` simulates a fridge and its market: sensors report levels to a household
server, the server buys what runs low from stores over Thrift, and stores buy
from producers over MQTT. This directory holds TLA+ modules translated from that
code, TLC configurations that check them on small instances, and proofs that
the TLA+ proof system checks for every value of the constants.

`PROJECT.json` lists runs, mutants, findings, hazards and theorems, and names
the source lines behind every definition. To check a run:
`tlc -config MCStore.cfg MCStore`; to check the proofs of a module: `tlapm
MarketProofs.tla`, and likewise for the other seven whose names end in
`Proofs`.

## 1. Inventory

| part | source | state | operations |
|---|---|---|---|
| Sensor | `Sensor.cpp` | reading, step, manual or not | `send`: next reading, one datagram |
| Server (household) | `Server.cpp` | static map `offsets`, files in `res/` | `receive`, `saveReading`, `restock` |
| HttpServer | `HttpServer.cpp` | the connection it serves | `start`: accept; `connectionHandler`: read a header, page, button or error, answer |
| RESTManager | `RESTManager.cpp` | files in `res/` | `initStructure`, `get`, `put`, `getConfig` |
| StoreManager | `StoreManager.cpp` | stock, demand counts, one open order, `stop` | `startLoop`, `on_mosqEvent`, `stopLoop` |
| StoreHandler | `gen-cpp/Store_server.skeleton.cpp` | shares stock and ledger with its StoreManager | `getPrice`, `order`, `getReceipt` |
| Producer | `Producer.cpp` | last offer, loop count, stop flag | `start`, `on_mosqEvent`, `stop` |
| MQTTClient | `MQTTClient.cpp` | connection flag | connect, `subscribe`, `publish`, `loop`, `disconnect` |
| programs | `start*.cpp`, `main.cpp` | settings, threads | start-up |
| Thrift runtime | `gen-cpp/Store.cpp` | none | calls, dispatch |
| tests | `tests/` | none | used for what they construct and expect |

How they interact:

- sensors -> server: UDP datagrams `item=reading`, lost and reordered;
- server -> stores: Thrift calls, each on a connection that is opened and
  closed for it; an exception nobody catches ends the server;
- browser -> HTTP thread -> `Server::restock`: one connection at a time; the
  HTTP thread and the receive thread share `offsets` and the files without a lock;
- stores <-> producers: the broker, four kinds of message. A store that is low
  publishes a *demand*, producers publish *offers*, stores publish *orders*,
  producers publish *confirmations*. Every subscriber hears every message;
- loop thread <-> service thread of a store: shared stock without a lock;
- all programs of one directory: the folder `res/`;
- the programs of one machine: the ports of their stores; the programs of one
  broker: the ids of their clients, which are the same in every program.

What is hard here: `+=` and `-=` on stock from two threads; protocol partners
that each remember one order and one offer; broadcasts without an addressee;
QoS 1 repetition and lost connections; erase-then-insert on `offsets` and
empty-then-write on files while another thread looks; requests that arrive in
pieces or not at all; prices and stock that change between two calls of one
purchase; start-up of several programs in one folder; the signed and unsigned
arithmetic of offsets, readings and stock. `PROJECT.json` lists these hazards line by line with the properties
that watch them.

What makes each part correct:

- store: a shelf is never overfilled, an open order is within the price limit,
  stock and ledger balance, what is booked was accepted, low stock comes back;
- producer: what it confirms it has offered;
- household: the page shows reading plus offset, the server orders where it is
  cheapest, what is missing leaves the stock of that store once, an item that is
  known stays known, a button restocks;
- HTTP server: it comes back to accept the next connection, unless a browser
  keeps it;
- sensor: readings stay in range, a sensor with steps of its own ends;
- start-up: settings are found, a running server keeps its ports.

## 2. Modules

```
Trade ----------+--- StoreManager --- MCStore, MCStress
  messages      |        |  INSTANCE Stockroom (what a store promises)
                +--- Producer ---+
                +--- MQTT -------+--- Replenishment --- MCMarket
                                        +--- Prompt --- MCPrompt
Sensor -----+--- Household --- MCHousehold
HttpServer -+        |
                     +--- Purchases --- MCPurchases      Startup --- MCStartup
                     |
                 StoreService (INSTANCE Shops) --- MCService
                     |  INSTANCE Counter (what a store promises its clients)
Sensor --- MCSensor

StoreManager --- StoreManagerProofs --- StockroomProofs ---+
                                           Replenishment --+--- MarketProofs
Household --- HouseholdProofs --- LevelProofs ---+
                                     Purchases --+--- PurchasesProofs
StoreService --- ServiceProofs (INSTANCE Service) ---^   Startup --- StartupProofs
```

**Trade** - messages. A channel is its kind and, for offers and demands, the
item; every publisher in `src/` builds it from the item of the payload, so
`strcmp(item, offer->item)` always holds. `NoItem` stands for the empty name
that closes an order, and for uninitialised memory that names no product.

**StoreManager** - the stores of one process. `at` is where the loop thread is:
`top` (the test of `stop`), `loop` (inside `client.loop()`), `served` (in there,
having handled a message), `sweep` (with `cursor`, the item), `trim` (line 70,
between the two reads of stock), `restock` (line 88, between the read and the
write of `+=`). `rpc` is the service thread: `checked` after line 46 of the
skeleton, `read` after the read of `-=`. The messages and whether `publish`
succeeds are inputs: in `StoreSpec` the environment sends anything.
`demandCount` stops at `MaxDemand`, sales at `MaxSales`.
One call per store at a time: the one household server is one thread that waits
for its answers. `StoreService` drops that assumption.

**Stockroom** - the abstract promise: orders fit, a booking raises stock by at
least the amount ordered and never above capacity, otherwise stock only falls.
It says "at least" because a restock that overwrites a sale gives back the
units sold: the code loses that sale from the stock, though not from the ledger.
How far stock falls is not said. A sale that overwrites a delivery takes the
whole delivery with it, and the store runs low and orders again.

**Producer** - one thread whose handlers run inside `client.loop()`, hence one
step per handler. `rand()` is an existential choice.

**MQTT** - the broker (external) and `MQTTClient`. A queue per client; `Route`
drops for full queues and lost connections; `Redeliver` puts a message behind
what was sent meanwhile; a connection that breaks is first unnoticed, so that
`publish` still reports success, and is never opened again. `TakeOver` is a
client of another program that connects with the same id (`StoreManager.cpp:11`,
`startProducers.cpp:27`): the broker closes the connection of the first.

**Replenishment** - stores, producers and broker. Each action joins a handler
with the message it consumes and publishes. History variables: the offers made
by each producer, and orders accepted minus deliveries booked.

**Prompt** - the market on a network that is faster than the second for which
`client.loop()` waits. `wakes` counts, for each store, the early returns of
`mosquitto_loop` that are still to come: the acknowledgements of what it
subscribed to, demanded and ordered, and the write of an order that its handler
queued. Each of them may come before, between or after messages, and each is a
sweep, which counts every low item once more (`StoreManager.cpp:49`).

**StoreService** - the Thrift service of several stores with several clients, a
thread per connection. A client opens a connection, sends one call, waits and
closes; `send_`, `recv_` and `process_` actions have the names of the generated
functions. `Check`, `Read`, `Take`, `BeginPush`, `Push` are the steps of
`StoreHandler::order`. What two threads do to one `std::vector` is undefined
behaviour: two pushes at a time lose an entry, throw or end the process, and a
receipt that is copied during a push is intact, is anything (`Garbles`), throws
(`Fails`) or ends the process (`BreaksOff`). What a handler throws, `process_`
catches and answers as an exception, which the client throws in turn. `Exit` is `startLoop`'s `exit()`. Stock is an unsigned number:
`Rest` wraps at `Word`. `NoCall` fills the place of a call that is not
made yet; a receipt is of no item, and takes any. A client that has bought `MaxBought` orders no more.

**Counter** - the abstract promise to the clients of the service: an order is
sold in one step and from what is there, or refused because there is too
little; a sale is in the ledger before its client hears of it; a receipt is the
ledger as it is, but may be anything (`Garble`), or not come, while another
client's sale is still to be entered. The promise ends for a store at which two orders meet
(`Spoil`), where the code keeps none of it: the mapping shows nothing of such a
store. `getPrice` is left out, since prices never change.
In `StoreService`, `AtDesk` says how far a call is at the counter: it asks until
`Take`, is sold until `Push`, and then has its answer. `Check` and `Read` are no
steps of the counter.

**Sensor** - readings and datagrams. `NextReading` keeps the unsigned
comparison of `Sensor.cpp:56`.

**HttpServer** - a connection and the browser at its other end. A request has
arrived in part, up to the end of its header, or with the form behind it; a
browser that leaves early is one from which nothing more arrives. `reads` says
whether the browser takes what the server sends: `send` waits for one that does
not (`Answer`), unless the answer is the few bytes a button gets. `Named` is
what `HttpServer.cpp:79` takes from behind the last `=`.

**Household** - receive thread and HTTP thread. `pc` and `job` hold each
thread's place and locals; `Server::restock` is one set of actions that either
thread runs. Every call on the map or a file is a step: `put` is `Truncate`
and `Write`, a page row reads its file twice. A call of a store is a step that
connects (`Quote`, `Buy`) and one that has the answer (`Quoted`, `Bought`). What
an order answers is open here; only whether the store is up matters. Not
modelled: corruption of the map itself by two concurrent calls.

**Purchases** - Household with StoreService in place of the open answers: the
receive thread's steps between connecting and closing become those of a client
of `Shops`, the local `prices` holds what was answered, and clients of another
household use the same stores meanwhile. `ImplementsHousehold` says that this
composition implements Household's `Spec` and the fairness `WF_vars(Receives)`
that Household only assumes: no call of a store is waited for without end.

**Startup** - the programs and `res/`. `initStructure` goes file by file and,
on a first start, line by line. Programs are killed and started at any point.
`Listen` is the thread in which a store listens: of two programs with stores on
one machine the one that finds a port taken goes down, whatever its main thread
is doing by then.

## 3. Runs

| run | question | bounds | states |
|---|---|---|---|
| store | every interleaving of the two threads, any message | 1 store, 2 items, 2 sales, 2 prices, 3 amounts | 22,000 |
| broadcast | two stores, one producer, one message twice | 1 item, 1 sale per store, 1 own offer, queues of 2 | 800,000 |
| failures | late joiner with a used id, lost connections, stop and exit, full queues | 1 store, 2 producers, 1 sale | 810,000 |
| prompt | liveness of restocking | 1 store, 1 producer, 2 items, 2 sales, `MaxDemand` 70 | 79,000 |
| household | receive thread alone, datagrams that overtake each other | 1 item, readings 100 down to 10, 2 datagrams | 430,000 |
| buttons | both threads, browsers, a store that goes down; liveness | 2 items, 1 datagram, 3 requests | 136,000 |
| purchases | the household as a client of stores that others use | 2 items, 2 stores, 1 other client with 1 order | 131,000 |
| service | two clients of one store | orders until 100 units are bought, an item the store lacks | 335,000 |
| startup | server, stores and sensors | 1 item, 2 ports | 1,490,000 |
| ignored | finding 1 | 2 stores, 1 producer | violation |
| stress_orders | finding 2 | 2 stores, 10 rounds | violation |
| stress_sensors | finding 3 | readings 1 and 10 | violation |

Why the bounds are enough. The interleavings need one sale to meet one
delivery, one message to come twice and one other store or producer to hear the
same broadcast; the second sale, order or producer each add the case where the
first is overwritten. Prices are those of `startServer.cpp` for cheese, and
stock starts at 700, 800 or 850 of 1000, below the mark of 800, on it, and one
sale above it; at 850 an offer of 200 has to be trimmed, and after a sale would
no longer have to. There `OFFER_DELAY` and `PRICE_INCREASE` are 2 and 50 instead of
10 and 5, so that few sweeps move the limit under an open order. `prompt` has
the code's 10 and 5. `Producer::on_mosqEvent` tosses a coin from a price of 105
on and always sells from 205 on; retail prices of 390, above those of
`startServer.cpp`, put the first demand at 195, so that the coin may be lost
twice and the run stays small.
Amounts 200, 300 and 1000 are an offer that fits, one that has to be trimmed
after a sale, and one that always has to be.
In `service` orders of 81 and 100 are the least and the most that the
household server buys at a level of 19 and of 0. The stock of 181 holds one of
each and not a unit more: the second order takes the last unit, a third finds
too little, and two orders that meet wrap it. `purchases` has a stock of 150, so
that the order of the other household decides whether there is enough left, and
one item that no store has, for which both answer INT_MAX.
In `household` the sensor counts down by 15, and starts over below 20 as the
sensors of `startSensors.cpp` do in steps of 3; every residue a step of 3 would
add only lengthens the cycle. `buttons` needs two items for a page of two rows
and for two threads that restock different items.
`startup` has no producers: they treat the folder as the stores do.

Deadlock is checked in `broadcast`, `prompt` and `startup`. It is
not checked where a stop is part of the design: bounded sales in `store`, exit
in `failures`, the end of the process in `household`, `buttons` and
`purchases`, clients
that have made their calls in `service`, counted rounds in `stress_orders`.

What the runs show:

- *store*: shelves are never overfilled (`StockCap`), an open order is within
  the limit (`OrderWithinLimit`), and each step is a step of `Stockroom`
  (`ImplementsStockroom`). Lost updates between `+=` and `-=` do occur; they
  never break the capacity, because an order was sized for the stock before the
  sale (`Registers`).
- *broadcast*: the capacity holds in the composed market, every delivery was
  offered by some producer at no higher a price and no smaller an amount
  (`DeliveriesWereOffered`, although a store can order more than it was offered
  when a sale comes between the two reads of stock), and the price of an open
  order was asked (`OrderPriceWasAsked`).
- *failures*: with one store, what is booked was accepted, up to repeated
  messages (`BookedWasAccepted`), through lost connections, full queues and
  exits, and when the second producer cuts the first one off by its id. With two
  stores it is not: finding 1.
- *prompt*: low stock is restocked (`LowStockIsRestocked`), with the delay and
  the price increase of `StoreManager.h` and every early return of `loop()`. Two
  low items overwrite each other in the one memory of the store and the one
  memory of the producer, but not for ever.
- *household*: `Aligned`, `BuysFromCheapest`.
- *buttons*: the server dies only at the named meetings of two threads, at a
  store that is down or one that others use and that answers an order with an
  exception (`DiesOnlyWhereThreadsMeet`), and an item that is
  missing from `offsets` is on its way back (`KnownUnlessRestocking`). The HTTP
  thread comes back to accept unless a browser leaves before the end of its
  header (`ConnectionsEnd`: that loop at `HttpServer.cpp:57` never ends) or does
  not read a page that is longer than what TCP buffers (`send` at line 90 waits),
  and a button whose form has come along brings its item to 100 although `restock`
  skips an item that the other thread has erased (`ButtonRestocks`).
- *purchases*: the stores are what Household takes them to be
  (`ImplementsHousehold`), and stock leaves a store for the household only as
  100 minus the level that is shown, at a store no other undercuts, one order
  at a time (`TakenIsMissing`). This is without buttons: one that is pressed
  during an order makes the units ordered come on top of a full item.
- *service*: every call ends (`CallsEnd`), server and store agree on what was
  bought up to one order in flight (`SoldAsTold`), books balance and receipts
  are complete as long as no two orders met inside `order` (`BooksBalance`,
  `ReceiptCovers`), and until then the clients cannot tell the threads from a
  counter that sells in one step (`ImplementsCounter`). The condition is needed:
  when two orders meet, the stock wraps below zero and ledger entries are lost.
  A receipt that is copied during another client's push is excepted from both:
  it may show anything.
- *startup*: `SettingsAreFound`, `OnceOpenStaysOpen`. The
  conditions are needed: a store or producer program started in the server's
  folder deletes its levels, and a store program does so although it goes down
  right after, its ports being taken. Two that start together may each get one
  port and both go down.

### Fairness

`PromptSpec`, `SensorSpec`, `StoreService`, `FairSpec` of Household and
`PurchaseSpec` state fairness.

- `PromptSpec` is a restriction as well: `client.loop()` waits for a second, and
  on a prompt network that is longer than any message is under way. So the wait
  runs out only when nothing is (`Quiet`, and then `wakes` is 0); before that the
  loop goes round on a message or on one of the early returns that `wakes`
  counts. The pings of the library, one a minute, are left out. Each store's loop
  is strongly fair: it goes round again after any wait, however often a sale
  breaks the quiet. Handlers of a producer are weakly fair, as is the end of a
  sale that has begun. Neither sales nor the producer's coin are fair:
  restocking must come without luck. The price goes up until no coin can refuse
  it. `MaxDemand` is 70 sweeps: the count stops there, a demand is due
  at every tenth sweep, so at 70 the last has been made, and a store that had
  got there without a delivery would stay low and break the property.
- A sensor's thread is fair; its datagrams are not.
- `StoreService`: service threads run, and the network delivers or fails.
- `FairSpec`: the two threads of the server and the sensors run. `Handles`
  leaves out `Accept`, since browsers owe no request, and `Arrive` is not fair,
  since they owe no rest of one. That a store answers or goes down is assumed
  here (`WF_vars(Receives)`) and shown in `purchases`.
- `PurchaseSpec`: the receive thread runs, and so does the service thread of a
  store that holds one of its calls. Other households owe nothing.

## 4. Proofs

Eight modules hold the proofs. Each theorem holds for every value of the
constants that the assumptions of its module allow; TLC evaluates those
assumptions in every run.

| module | theorems | property of a run |
|---|---|---|
| StoreManagerProofs | `StoreCorrect`, `StoreTypeCorrect`, `StockCapCorrect`, `OrderWithinLimitCorrect`, `RegistersCorrect` | `StoreTypeOK`, `StockCap`, `OrderWithinLimit`, `Registers` |
| StockroomProofs | `StoreImplementsStockroom` | `ImplementsStockroom` |
| MarketProofs | `MarketCorrect`, `MarketTypeCorrect`, `MarketStockCap`, `MarketOrderWithinLimit`, `DeliveriesCorrect`, `OrderPriceCorrect`, `BookedCorrect`, `MarketImplementsStockroom` | `TypeOK`, `StockCap`, `OrderWithinLimit`, `DeliveriesWereOffered`, `OrderPriceWasAsked`, `BookedWasAccepted`, `ImplementsStockroom` |
| HouseholdProofs | `HouseholdTypeCorrect`, `KnownCorrect`, `DeathsCorrect`, `CheapestCorrect` | `TypeOK`, `KnownUnlessRestocking`, `DiesOnlyWhereThreadsMeet`, `BuysFromCheapest` |
| LevelProofs | `LevelsCorrect` | `Aligned` |
| ServiceProofs | `ServiceCorrect`, `ServiceTypeCorrect`, `SalesCorrect`, `BooksCorrect`, `BalanceCorrect`, `ReceiptCorrect`, `ServiceImplementsCounter` | `TypeOK`, `SoldAsTold`, `BooksBalance`, `ReceiptCovers`, `ImplementsCounter` |
| PurchasesProofs | `PurchasesCorrect`, `PurchasesImplementHousehold`, `TakenCorrect`, `PurchasesBalance`, `PurchasesUseCounters` | `TakenIsMissing` |
| StartupProofs | `StartupCorrect`, `StartupTypeCorrect`, `SettingsCorrect`, `OpenCorrect` | `TypeOK`, `SettingsAreFound`, `OnceOpenStaysOpen` |

Everywhere there is one lemma per action, under it one step per conjunct the
action can disturb, and a lemma that puts them together.

### A store

`StoreInv` is `StoreTypeOK /\ StockCap /\ OrderWithinLimit /\ Registers`.
`StockCap` alone is not inductive: `WriteRestock` stores what was read some
steps ago plus the amount, so one must know that the register holds no less
than the stock and that register and amount together fit (`RestockInHand`).
That survives `WriteSale` only because a sale writes less than there is, which
needs `SaleInHand`: the sale has read at most the stock, and at least its own
amount. `StockCap` says of an open order that it fits; this is kept by sales
because they lower stock and by the loop because it orders at most the room it
has read (`Room`, the second read). `OrderWithinLimit` needs `TrimInHand`: the
offer in hand was within the limit, and until it is ordered only its own thread
changes `demandCount`. Counts only rise until the order is closed, and floor
division and multiplication are monotone (`DivMonotone`, `TimesMonotone`).

`StoreImplementsStockroom` maps *stock* to `itemStock` and *pending* to the open
order's item and amount. Steps of the loop and reads map to stutters,
`OrderOffer` and `OrderTrimmed` to `Order` (or a stutter if the publish failed,
or the order repeats), `WriteRestock` to `Book`, `WriteSale` to `Sell`.

### The market

In `StoreSpec` the environment may send any offer and confirmation, so what a
store keeps there it keeps among any producers: each store action of
`Replenishment` is a step of `StoreNext` or leaves the store alone. `MarketInv`
is `StoreInv` with the types of producers and broker (`ProducersOK`, `NetOK`) and
four parts that say where messages come from. `DeliveriesWereOffered` alone is
not inductive: a producer confirms an order by the offer it remembers, so one
must know that it has made that offer (`RememberedOK`), or that it has just
saved it; and what a store is about to order was announced by someone
(`HandsOK`, `MailOK`). `Spread` says once what the broker may do to the queues
(every message in one was there before or is the one just published), and each
way to publish, lose, repeat or take over is shown to be such a step.

`BookedCorrect` has the hypothesis that there is one store. Its invariant
`BookInv`: the confirmations on their way to the store, with the one it is
booking, are at most the orders accepted and not yet booked plus the messages
repeated. That is a count over a queue, so the proof first shows what `Append`,
`Tail` and the insertion of a copy do to the number of confirmations. With two
stores the theorem is false, and finding 1 is the counterexample.

### The household

None of the properties of `Household` is inductive. The argument, `HouseInv`:

- An item is *heard of* (`Heard`) when it has an offset or a thread is between
  the erase and the insert for it. Nothing ever stops being heard of: the erase
  opens the window of its own thread, and that thread's insert closes it with
  an offset, whatever the other thread has done meanwhile. Whoever works on an
  item, and every item with a level or a history, is heard of (`HeardOK`).
- An item that is heard of has a level in its file, or a thread is on its way
  to write one (`FilesOK`); a level the page has seen is gone only while the
  receive thread is about to write it (`RowOK`).
- `PlacesOK` says with which locals a thread is where, `SensorOK`,
  `ConnectionOK` and `UpOK` what the environment keeps.

`StepOfThread` states once what a step of either thread may do to offsets, files
and history so that `HouseInv` survives; one lemma per action shows that the
action is such a step. `DeathsCorrect` then reads off, for each place where
`at()` throws, `front()` is undefined or a call fails, that the other thread is
in the middle of the same item or a store is one that may fail. `CheapInv` adds to `HouseInv`
that among the stores asked so far none undercuts the one that is kept.

`LevelProofs` has the hypothesis `NoButtons`: no request is a POST. Its
invariant `LevelInv` follows the receive thread through its places
(`Tracked`): what the locals, the map and the file say of the item is the same
level, and in the window of a restock, when the map says nothing, the locals
stand for it. The step that needs arithmetic is the insert: the signed remainder
of `Server::restock` makes the old reading mean 100. The HTTP thread may read
pages all the while (`HttpReads`). With buttons `Aligned` is false: two
restocks of one item at a time leave an offset that does not match.

### The service and the household in it

`ServiceInv` lists, for a client and the thread that serves it, the pairs of
places the two can be in (`ConnectionOK`) and what the thread has taken and the
client does not know of yet (`SalesOK`). It holds with orders that meet, wrapped
stock and lost ledger entries, so `SoldAsTold` does too.

`BooksInv` says what holds at a store where no two orders have met (`BooksOK`).
`BooksBalance` alone is not inductive: `Take` stores what was read some steps
ago less the amount. One must know that the thread has the stock to itself since
its check: no two threads of the store are selling (`Alone`), so what this one
has seen is still there and is enough (`InHand`), and the subtraction does not
wrap (`TakesWhatIsThere`). `Alone` is kept because `Check` sets `met` when
another thread is selling. For `ReceiptCovers`: what was taken for a client is
in the ledger or about to be pushed (`Covered`), and what a receipt under way
shows, unless it is torn, covers what its client has been told (`Shows`), since
a client that waits for a receipt has no order in flight.

These are equations between sums over all clients and over a whole ledger. Two
facts about sums carry them: a sum without one of its terms is the sum less that
term (`SumWithout`), and hence a sum of which one term changes, changes by as
much (`SumChanges`). They need induction over a finite set, which cannot be had
from the library's induction theorems here; the proofs take a smallest subset
without the property instead (`SmallestSubset`, from the library's theorem that
the subsets of a finite set are well founded under inclusion) and show that
there is none. They start from the definition of `SumFunction` in the community
modules, a fold that chooses one element after another (`TotalIsSum`).

`ServiceImplementsCounter` maps `Take` to `Sell`, where `InHand` says that there
is enough, `Push` to `Enter`, a receipt torn by another's push to `Garble`, the
end of a call to `Leave`, and a `Check` or `Push` at which two orders meet to
`Spoil`. The steps of a store that is spoilt already are stutters, whatever they
do to its stock. Prices, the steps of a thread that the counter does not see and
`Exit` are stutters too.

`PurchaseInv` joins `HouseInv`, `CheapInv` and `ServiceInv` of the stores'
connections with two parts of its own: there is one connection at a time and it
carries the call of the place the receive thread is at (`CallsOK`); and the
array of prices holds what the stores asked so far have answered (`PricesOK`),
which is the price `Household` assumes. From it `PurchasesImplementHousehold`:
every step of the receive thread's client is a step of `Household` or stutters.
The steps of another household stutter too, but for those that end a store,
which are `GoesDown`; hence the assumption that others visit `Fragile` stores.
`PurchasesBalance` and `PurchasesUseCounters` carry `BooksBalance` and the
counter over to the stores of this composition, whose steps are all steps of
the service (`ServiceMoves`). `TakenCorrect` carries `BuysFromCheapest` and the
lemma `OrderedLevel` of `LevelProofs`, that what is ordered is 100 minus the
level that was saved, over through this refinement: it is for steps in which
stock is taken, with `NoButtons`.

### Start-up

`StartInv` says which counters belong to each place of a `main()` (`MainsOK`),
that a port is held only by a program that has stores or is going down
(`PortsOK`), and of the config (`ConfigOK`): once settled it is whole and nobody
writes it; until a first start is killed or meets another, one program at most
writes it and the file has exactly the lines that program has counted. Without
that last part `SettingsAreFound` is not inductive. `LevelsOK` says of a server
that nobody disturbed that the folder has all levels it knows.

### Assumptions

`TradeAssumption`, `StoreAssumption`, `ProducerAssumption` and
`SensorAssumption` type the constants; the amounts and prices of a
producer are those `Producer.cpp` draws. Of the others:

- `NetAssumption`: namesakes are clients, redeliveries are bounded by a number;
- `MarketAssumption`: stores and producers are different clients, and together
  all of them; each has the subscriptions of its constructor or of `start`;
- `HouseholdAssumption`: the lists of items and stores are not empty, and a
  store that may go down is one of them;
- `ServiceAssumption`: there are finitely many clients and items, without which
  a sum over them means nothing;
- `PurchaseAssumption`: other households are finitely many, and so are the items
  stores have; the price `Household` has for a store is the one that store
  answers, and other households visit stores that may go down (`Fragile`), since
  two threads of one store may end its process or make it throw;
- `StartupAssumption`: the programs are the four in `src/`, and no item has the
  name of a file of the folder.

The theorems about a store's loop hold of one call per store at a time; with
more, `ServiceProofs` and the service run show what is left.

### Only model-checked

- Everything about liveness, which under fairness is beyond the prover:
  `LowStockIsRestocked`, `ManualSensorsEnd`, `CallsEnd`, `ConnectionsEnd`,
  `ButtonRestocks`, and of `ImplementsHousehold` the fairness `WF_vars(Receives)`.

## 5. Findings

1. *ignored* - two stores with equal open orders both book the single
   confirmation a producer sends for one of them (`StoreManager.cpp:87`):
   confirmations carry no store, and an order the producer says it ignored is
   delivered all the same.
2. *stress_orders* - `storeOrderTest` of `StressTest.cpp` expects nine orders
   for ten equal offers; a store orders an offer it waits for only once.
3. *stress_sensors* - the sensors of `loadTest` and `lengthTest` never reach
   zero: a reading below 20 becomes 100 (`Sensor.cpp:54`), and the tests join
   their threads.

## 6. Not modelled

- Encoding: the Thrift wire format, the text of HTTP headers, of pages and of
  history beyond an item's latest entry, lists in the settings.
- What a vector that two pushes have corrupted does to the calls after them: the
  model has the outcomes of the calls that met (an entry lost, an exception, the
  end of the process).
- SIGPIPE: Linux raises it for a `send` after one that met the end of the
  connection, and an answer is a single `send`.
- Memory: dangling `c_str()` pointers (`startProducers.cpp:21`, `main.cpp:105`),
  `delete order` skipped after a failed publish, receive buffers never freed.
- A datagram longer than 4096 bytes, a segment that fills its buffer and so has
  no end (`HttpServer.cpp:61`), the substring match of `getConfig` beyond the settings
  the programs write.
- Corruption of `std::map` by unsynchronised calls in the household server.
- Two household servers and a store's own loop at the same time. `StockCap` is
  claimed of one customer per store: with two, a sale that overwrites another
  may raise the stock after an order was sized for it.
- Thrift constants, the build, and timing tests.

## 7. Plan for later work

1. Model: several clients next to the store's loop; the lists of external
   stores.
2. Abstract specifications: an offer book that `Producer` and `MQTT` implement.
