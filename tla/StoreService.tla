---------------------------- MODULE StoreService ----------------------------
(***************************************************************************)
(* The Thrift services of the stores, as several processes use them: a     *)
(* store that another household lists under ExternalStores has a client in *)
(* each.  TThreadedServer gives every connection a thread of its own, and  *)
(* the threads of a store share its stock and its ledger without a lock.   *)
(* (Module StoreManager has one client per store and interleaves it with   *)
(* the loop of the store instead.)                                         *)
(*                                                                         *)
(* A client opens a connection for each call, waits for the answer and     *)
(* closes it.  A transport error, or an exception the store answers with,  *)
(* is one that nobody catches: it ends the client's process, and no call   *)
(* is ever made a second time.                                             *)
(***************************************************************************)
EXTENDS Naturals, Sequences, FiniteSets, Functions

CONSTANTS
    Stores,
    Clients,         \* the StoreClient objects of all processes
    StoreOf,         \* StoreOf[c]: the store client c was made for
    Items,           \* the items the stores have
    Asked,           \* the items clients ask for; sensors may have others
    itemPrices,      \* itemPrices[s][i]
    StartStock,
    Amounts,         \* amounts clients order
    MaxBought,       \* bound: with MaxBought[c] bought, client c orders no more
    Word             \* unsigned numbers run from 0 to Word - 1

ASSUME ServiceAssumption ==
    /\ IsFiniteSet(Clients) /\ IsFiniteSet(Items)
    /\ StoreOf \in [Clients -> Stores]
    /\ itemPrices \in [Stores -> [Items -> 0..(Word - 1)]] /\ Asked # {}
    /\ Word \in Nat /\ StartStock \in 0..(Word - 1) /\ Amounts \subseteq 1..(Word - 1)
    /\ MaxBought \in [Clients -> Nat]

VARIABLES
    itemStock, orders,   \* of each store: what its service threads share
    up,                  \* up[s]: the process of store s runs
    client,              \* client[c]: where the client is, its call and the answer
    worker,              \* worker[c]: the thread that serves c's connection
    taken, told,         \* history: what was taken for c, what c was told it bought
    met                  \* history: met[s], two threads were selling at the same time

shared == <<itemStock, orders, up>>
vars == <<shared, client, worker, taken, told, met>>

INT_MAX == Word - 1
Call(method, item, amount) == [method |-> method, item |-> item, amount |-> amount]
Methods ==
    {Call(m, i, 0) : m \in {"getPrice", "getReceipt"}, i \in Asked}
    \cup {Call("order", i, n) : i \in Asked, n \in Amounts}

NoCall == Call("getPrice", CHOOSE i \in Asked : TRUE, 0)
Closed == [at |-> "closed", call |-> NoCall, answer |-> <<>>]
NoWorker == [at |-> "none", seen |-> 0, reply |-> <<>>]

Init ==
    /\ itemStock = [s \in Stores |-> [i \in Items |-> StartStock]]
    /\ orders = [s \in Stores |-> <<>>]
    /\ up = [s \in Stores |-> TRUE]
    /\ client = [c \in Clients |-> Closed]
    /\ worker = [c \in Clients |-> NoWorker]
    /\ taken = [c \in Clients |-> 0] /\ told = [c \in Clients |-> 0]
    /\ met = [s \in Stores |-> FALSE]

-----------------------------------------------------------------------------
(* The client.                                                              *)

Runs(c) == up[StoreOf[c]]
Works(c, place) == worker' = [worker EXCEPT ![c].at = place]
Asks(c, method) == client[c].call.method = method

(* open() connects, and the server starts a thread for the connection.      *)
Open(c) ==
    /\ client[c].at = "closed" /\ Runs(c)
    /\ client' = [client EXCEPT ![c].at = "open"]
    /\ Works(c, "reading")
    /\ UNCHANGED <<shared, taken, told, met>>

Sends(c, call) ==
    /\ client[c].at = "open" /\ Runs(c)
    /\ client' = [client EXCEPT ![c] = [at |-> "waiting", call |-> call, answer |-> <<>>]]
    /\ UNCHANGED <<shared, worker, taken, told, met>>

send_getPrice(c, i) == Sends(c, Call("getPrice", i, 0))
send_order(c, i, n) == taken[c] < MaxBought[c] /\ Sends(c, Call("order", i, n))
send_getReceipt(c) == Sends(c, Call("getReceipt", NoCall.item, 0))

Hears(c, method) ==
    /\ client[c].at = "waiting" /\ worker[c].at = "replied" /\ Asks(c, method)
    /\ client' = [client EXCEPT ![c].at = "answered", ![c].answer = worker[c].reply]
    /\ Works(c, "reading")
    /\ UNCHANGED <<shared, taken, met>>

recv_getPrice(c) == Hears(c, "getPrice") /\ UNCHANGED told

recv_order(c) ==
    /\ Hears(c, "order")
    /\ told' = [told EXCEPT ![c] = @ + IF worker[c].reply = <<TRUE>> THEN client[c].call.amount ELSE 0]

recv_getReceipt(c) == Hears(c, "getReceipt") /\ UNCHANGED told

Receive(c) == recv_getPrice(c) \/ recv_order(c) \/ recv_getReceipt(c)

(* close() ends the thread of the connection as well.                       *)
Close(c) ==
    /\ client[c].at = "answered"
    /\ client' = [client EXCEPT ![c] = Closed]
    /\ worker' = [worker EXCEPT ![c] = NoWorker]
    /\ UNCHANGED <<shared, taken, told, met>>

(* open, send and recv throw when the store has gone, recv also when the    *)
(* answer is an exception.                                                  *)
Throws(c) ==
    /\ \/ ~Runs(c) /\ client[c].at \in {"closed", "open"}
       \/ ~Runs(c) /\ client[c].at = "waiting" /\ worker[c].at # "replied"
       \/ client[c].at = "waiting" /\ worker[c].at = "failed"
    /\ client' = [client EXCEPT ![c].at = "dead"]
    /\ UNCHANGED <<shared, worker, taken, told, met>>

-----------------------------------------------------------------------------
(* The thread of a connection: StoreProcessor finds the method, the handler *)
(* runs, and its result is written to the connection.                       *)

Doing(c, place) == Runs(c) /\ worker[c].at = place
Replies(c, reply) == worker' = [worker EXCEPT ![c].at = "replied", ![c].reply = <<reply>>]
Selling(c) == worker[c].at \in {"checked", "read"}
Others(c) == {d \in Clients \ {c} : StoreOf[d] = StoreOf[c]}

HasRead(c, method) == Doing(c, "reading") /\ client[c].at = "waiting" /\ Asks(c, method)

getPrice(s, i) == IF i \in Items THEN itemPrices[s][i] ELSE INT_MAX

process_getPrice(c) ==
    /\ HasRead(c, "getPrice")
    /\ Replies(c, getPrice(StoreOf[c], client[c].call.item))
    /\ UNCHANGED <<shared, client, taken, told, met>>

(* Two threads in the ledger at a time, one of them pushing: an entry may   *)
(* be lost, a copy may be of anything, the vector may throw, or the process *)
(* breaks off.                                                              *)
Pushing(c) == \E d \in Others(c) : worker[d].at = "pushing"

BreaksOff(c) ==
    /\ Pushing(c)
    /\ up' = [up EXCEPT ![StoreOf[c]] = FALSE]
    /\ UNCHANGED <<itemStock, orders, client, worker, taken, told, met>>

(* <<>> stands for a receipt of which nothing is known.                     *)
Garbles(c) == Pushing(c) /\ worker' = [worker EXCEPT ![c].at = "replied", ![c].reply = <<>>]

(* process_ catches what the handler throws, and answers with it.           *)
Fails(c) == Pushing(c) /\ Works(c, "failed")

process_getReceipt(c) ==
    /\ HasRead(c, "getReceipt")
    /\ \/ /\ Replies(c, orders[StoreOf[c]]) \/ Garbles(c) \/ Fails(c)
          /\ UNCHANGED <<shared, client, taken, told, met>>
       \/ BreaksOff(c)

(* Faulty: an item is sold as long as there is any of it.                   *)
InStockAny(s, call) == call.item \in Items /\ itemStock[s][call.item] > 0

(* Faulty: the last unit is not sold.                                       *)
InStockMore(s, call) == call.item \in Items /\ itemStock[s][call.item] > call.amount

InStock(s, call) == call.item \in Items /\ itemStock[s][call.item] >= call.amount

(* Faulty: an item the store does not have is not answered.                 *)
RefuseKnown(c) ==
    /\ HasRead(c, "order") /\ client[c].call.item \in Items
    /\ ~InStock(StoreOf[c], client[c].call)
    /\ Replies(c, FALSE)
    /\ UNCHANGED <<shared, client, taken, told, met>>

Refuse(c) ==
    /\ HasRead(c, "order") /\ ~InStock(StoreOf[c], client[c].call)
    /\ Replies(c, FALSE)
    /\ UNCHANGED <<shared, client, taken, told, met>>

Check(c) ==
    /\ HasRead(c, "order") /\ InStock(StoreOf[c], client[c].call)
    /\ Works(c, "checked")
    /\ met' = [met EXCEPT ![StoreOf[c]] = @ \/ \E d \in Others(c) : Selling(d)]
    /\ UNCHANGED <<shared, client, taken, told>>

Read(c) ==
    /\ Doing(c, "checked")
    /\ worker' = [worker EXCEPT ![c].at = "read",
                                ![c].seen = itemStock[StoreOf[c]][client[c].call.item]]
    /\ UNCHANGED <<shared, client, taken, told, met>>

(* Faulty: a subtraction of wider numbers.                                  *)
RestWide(seen, n) == seen + Word - n

(* `-=' on unsigned numbers.                                                *)
Rest(seen, n) == (seen + Word - n) % Word

Take(c) ==
    LET call == client[c].call
    IN  /\ Doing(c, "read")
        /\ itemStock' = [itemStock EXCEPT ![StoreOf[c]][call.item] = Rest(worker[c].seen, call.amount)]
        /\ taken' = [taken EXCEPT ![c] = @ + call.amount]
        /\ Works(c, "push")
        /\ UNCHANGED <<orders, up, client, told, met>>

(* Faulty: the customer hears of a sale only if it is the first.            *)
ResultOfFirst(s) == Len(orders[s]) = 0

Result(s) == TRUE

(* Faulty: the ledger has one unit per order.                               *)
OrderOfOne(s, call) ==
    [item |-> call.item, amount |-> 1, total |-> itemPrices[s][call.item]]

OrderOf(s, call) ==
    [item |-> call.item, amount |-> call.amount, total |-> itemPrices[s][call.item] * call.amount]

BeginPush(c) ==
    /\ Doing(c, "push") /\ Works(c, "pushing")
    /\ UNCHANGED <<shared, client, taken, told, met>>

(* push_back, alone: the vector grows by one.                               *)
Push(c) ==
    LET s == StoreOf[c]
    IN  /\ Doing(c, "pushing")
        /\ \/ /\ orders' = [orders EXCEPT ![s] = Append(@, OrderOf(s, client[c].call))]
              /\ Replies(c, Result(s))
              /\ UNCHANGED met
           \/ /\ Pushing(c)
              /\ Replies(c, Result(s)) \/ Fails(c)
              /\ met' = [met EXCEPT ![s] = TRUE]
              /\ UNCHANGED orders
        /\ UNCHANGED <<itemStock, up, client, taken, told>>

process_order(c) ==
    \/ Refuse(c) \/ Check(c) \/ Read(c) \/ Take(c) \/ BeginPush(c) \/ Push(c)
    \/ Doing(c, "pushing") /\ BreaksOff(c)

(* StoreManager::startLoop leaves by exit().                                *)
Exit(s) ==
    /\ up[s] /\ up' = [up EXCEPT ![s] = FALSE]
    /\ UNCHANGED <<itemStock, orders, client, worker, taken, told, met>>

-----------------------------------------------------------------------------
Serve(c) == process_getPrice(c) \/ process_getReceipt(c) \/ process_order(c)

Use(c) ==
    \/ Open(c) \/ Receive(c) \/ Close(c) \/ Throws(c)
    \/ \E i \in Asked : send_getPrice(c, i) \/ \E n \in Amounts : send_order(c, i, n)
    \/ send_getReceipt(c)

Next == (\E c \in Clients : Use(c) \/ Serve(c)) \/ (\E s \in Stores : Exit(s))

(* Threads run, and the network delivers or fails.                          *)
Fairness == \A c \in Clients : WF_vars(Serve(c)) /\ WF_vars(Receive(c) \/ Throws(c))

Spec == Init /\ [][Next]_vars /\ Fairness

-----------------------------------------------------------------------------
(* Properties.                                                              *)

Order == [item : Items, amount : Amounts, total : Nat]

(* Stock stays an unsigned number, and answers have the type of the method. *)
TypeOK ==
    /\ itemStock \in [Stores -> [Items -> 0..(Word - 1)]]
    /\ \A s \in Stores : orders[s] \in Seq(Order)
    /\ up \in [Stores -> BOOLEAN]
    /\ \A c \in Clients :
          /\ client[c].at \in {"closed", "open", "waiting", "answered", "dead"}
          /\ client[c].call \in Methods
          /\ worker[c].at \in {"none", "reading", "checked", "read", "push", "pushing", "replied", "failed"}
          /\ client[c].at = "answered" =>
                LET answer == Head(client[c].answer)
                IN  \/ Asks(c, "getReceipt") /\ client[c].answer = <<>>
                    \/ Asks(c, "getPrice") /\ answer \in 0..INT_MAX
                    \/ Asks(c, "order") /\ answer \in BOOLEAN
                    \/ Asks(c, "getReceipt") /\ answer \in Seq(Order)

(* A household server and the store agree on what was bought: what is taken *)
(* from the stock for a client is what the client was told, save one order  *)
(* that is being answered, or whose answer the end of the store swallowed.  *)
SoldAsTold ==
    \A c \in Clients :
        taken[c] # told[c] =>
            /\ taken[c] = told[c] + client[c].call.amount
            /\ client[c].at \in {"waiting", "dead"} /\ Asks(c, "order")

Ledger(i, receipt) ==
    SumFunction([k \in DOMAIN receipt |->
                    IF receipt[k].item = i THEN receipt[k].amount ELSE 0])

Unbooked(s, i) ==
    SumFunction([c \in Clients |->
                    IF /\ StoreOf[c] = s /\ worker[c].at \in {"push", "pushing"}
                       /\ client[c].call.item = i
                    THEN client[c].call.amount ELSE 0])

(* Stock and ledger account for every unit, and so no more is sold than     *)
(* there was, as long as no two orders met between the check and the        *)
(* subtraction of StoreHandler::order: only there can the stock wrap.       *)
BooksBalance ==
    \A s \in Stores, i \in Items :
        ~met[s] => itemStock[s][i] + Unbooked(s, i) + Ledger(i, orders[s]) = StartStock

(* A receipt shows all that its client was told it bought, unless it was    *)
(* copied in the middle of another client's push.                           *)
ReceiptCovers ==
    \A c \in Clients :
        /\ ~met[StoreOf[c]] /\ client[c].at = "answered" /\ Asks(c, "getReceipt")
        /\ client[c].answer # <<>>
        => told[c] <= SumFunction([i \in Items |-> Ledger(i, Head(client[c].answer))])

(* How far the call of client c is at the counter of its store; a price is  *)
(* read off without a wait there.                                           *)
AtDesk(c) ==
    LET place == worker[c].at
        Place(at, paper) == [at |-> at, call |-> client[c].call, paper |-> paper]
        free == [at |-> "free", call |-> NoCall, paper |-> <<>>]
    IN  IF met[StoreOf[c]] \/ Asks(c, "getPrice") THEN free
        ELSE CASE place \in {"checked", "read"} -> Place("asks", <<>>)
               [] place = "reading" /\ client[c].at = "waiting" -> Place("asks", <<>>)
               [] place \in {"push", "pushing"} -> Place("sold", <<>>)
               [] place = "replied" /\ Asks(c, "order") ->
                     Place(IF worker[c].reply = <<TRUE>> THEN "yes" ELSE "no", <<>>)
               [] place = "replied" /\ Asks(c, "getReceipt") -> Place("receipt", worker[c].reply)
               [] OTHER -> free

Promise == INSTANCE Counter WITH
    Calls <- Methods,
    open <- [s \in Stores |-> ~met[s]],
    shelf <- [s \in Stores |-> IF met[s] THEN <<>> ELSE itemStock[s]],
    book <- [s \in Stores |-> IF met[s] THEN <<>> ELSE orders[s]],
    desk <- [c \in Clients |-> AtDesk(c)]

(* To its clients StoreHandler::order is one step, although its threads     *)
(* share the stock without a lock, and what getReceipt shows is the ledger  *)
(* as it is or was asked for between the sale and the entry of another      *)
(* client's order, until two orders meet.                                   *)
ImplementsCounter == Promise!Spec

(* Every call of a client ends, with an answer or an exception.             *)
CallsEnd == \A c \in Clients : client[c].at = "waiting" ~> client[c].at # "waiting"

=============================================================================
