-------------------------- MODULE PurchasesProofs ---------------------------
(***************************************************************************)
(* The household server among its stores, for any lists of items and       *)
(* stores, any prices and any clients of other households: connected to    *)
(* the stores it does what Household says of it, although there what a     *)
(* store answers is left open, and what leaves the stock of a store for it *)
(* is what it has found missing.                                           *)
(***************************************************************************)
EXTENDS Purchases, LevelProofs, FiniteSetTheorems

Callers == AllStores \cup Outsiders

(* The stores as their clients see them; the household orders what is       *)
(* missing to a full item from a level below the threshold.                 *)
Service == INSTANCE ServiceProofs WITH
    Stores <- AllStores, Clients <- Callers,
    StoreOf <- [c \in Callers |-> IF c \in AllStores THEN c ELSE Visits[c]],
    Items <- Stocked, Asked <- Items, Amounts <- Amounts \cup 81..100, up <- storeUp

(* The client of the call that the receive thread is in, and that call.     *)
Calling(p, j) ==
    IF p = "quoted" THEN {StoreList[j.store]}
    ELSE IF p = "bought" THEN {StoreList[j.cheapest]} ELSE {}

CallOf(p, j) ==
    IF p = "quoted" THEN Shops!Call("getPrice", j.item, 0)
    ELSE Shops!Call("order", j.item, Missing(j.level))

(* There is one connection at a time, and it carries that call.             *)
CallOK(p, j, c) ==
    \/ client[c].at = "closed"
    \/ client[c].at = "dead" /\ ~alive
    \/ /\ c \in Calling(p, j) /\ client[c].at \in {"open", "waiting", "answered"}
       /\ client[c].at # "open" => client[c].call = CallOf(p, j)

CallsOK == \A c \in AllStores : CallOK(pc["receive"], job["receive"], c)

(* The array of prices holds what the stores asked so far have answered.    *)
Priced(p, j, answers, answered) ==
    /\ answers \in Seq(Nat)
    /\ p \in Shopping =>
          j.level < 20 /\ \A k \in 1..Len(answers) : answers[k] = PriceAt(j.item, k)
    /\ p \notin Shopping => answers = <<>>
    /\ p = "quote" => Len(answers) + 1 = j.store
    /\ p = "quoted" => Len(answers) = IF answered THEN j.store ELSE j.store - 1

PricesOK == Priced(pc["receive"], job["receive"], prices, client[Asking].at = "answered")

(* The inductive invariant.                                                 *)
PurchaseInv == HouseInv /\ CheapInv /\ Service!ServiceInv /\ CallsOK /\ PricesOK

-----------------------------------------------------------------------------
LEMMA ServiceAssumed == Service!ServiceAssumption
<1>1. Word \in Nat /\ 81..100 \subseteq 1..(Word - 1) BY SensorAssumption
<1>2. Items # {}
  <2>1. ItemList[1] \in Items BY ListsAreFull
  <2> QED BY <2>1
<1>3. [c \in Callers |-> IF c \in AllStores THEN c ELSE Visits[c]] \in [Callers -> AllStores]
  BY PurchaseAssumption, HouseholdAssumption DEF Callers, AllStores
<1>4. IsFiniteSet(Callers)
  <2>1. PICK n \in Nat : n = Len(StoreList) /\ DOMAIN StoreList = 1..n BY HouseholdAssumption
  <2>2. IsFiniteSet(1..n) BY <2>1, FS_Interval
  <2>3. StoreList \in Surjection(1..n, AllStores) BY <2>1, HouseholdAssumption DEF Surjection, AllStores, Range
  <2>4. IsFiniteSet(AllStores) BY <2>2, <2>3, FS_Surjection
  <2> QED BY <2>4, PurchaseAssumption, FS_Union DEF Callers
<1>5. IsFiniteSet(Stocked) BY PurchaseAssumption
<1>6. itemPrices \in [AllStores -> [Stocked -> 0..(Word - 1)]] BY PurchaseAssumption
<1>7. /\ StartStock \in 0..(Word - 1) /\ Amounts \cup 81..100 \subseteq 1..(Word - 1)
      /\ MaxBought \in [Callers -> Nat]
  BY <1>1, PurchaseAssumption DEF Callers
<1>8. Service!IsFiniteSet(Callers) /\ Service!IsFiniteSet(Stocked)
  BY <1>4, <1>5 DEF IsFiniteSet, Service!IsFiniteSet
<1> QED BY <1>1, <1>2, <1>3, <1>6, <1>7, <1>8 DEF Service!ServiceAssumption

(* A store of the list, its client, and who else uses it.                   *)
LEMMA StoresOfClients ==
    /\ \A c \in AllStores : Service!Runs(c) <=> storeUp[c]
    /\ \A d \in Outsiders : d \notin AllStores /\ Visits[d] \in Fragile /\ Visits[d] \in AllStores
    /\ \A c \in AllStores : c \in Callers
    /\ \A k \in 1..Len(StoreList) : StoreList[k] \in AllStores
BY PurchaseAssumption, HouseholdAssumption, ListsAreFull DEF Service!Runs, Callers, AllStores

(* The amounts that are ordered do not matter to the steps of a call.       *)
LEMMA SameSteps ==
    ASSUME NEW c
    PROVE  /\ Shops!Open(c) => Service!Open(c)
           /\ \A call : Shops!Sends(c, call) => Service!Sends(c, call)
           /\ \A m : Shops!Hears(c, m) => Service!Hears(c, m)
           /\ Shops!recv_getPrice(c) => Service!recv_getPrice(c)
           /\ Shops!recv_order(c) => Service!recv_order(c)
           /\ Shops!recv_getReceipt(c) => Service!recv_getReceipt(c)
           /\ Shops!Close(c) => Service!Close(c)
           /\ Shops!Throws(c) => Service!Throws(c)
<1> USE DEF Callers, Shops!Runs, Service!Runs, Shops!Works, Service!Works, Shops!Asks, Service!Asks,
            Shops!shared, Service!shared
<1>1. Shops!Open(c) => Service!Open(c) BY DEF Shops!Open, Service!Open
<1>2. \A call : Shops!Sends(c, call) => Service!Sends(c, call) BY DEF Shops!Sends, Service!Sends
<1>3. \A m : Shops!Hears(c, m) => Service!Hears(c, m) BY DEF Shops!Hears, Service!Hears
<1>4. Shops!recv_getPrice(c) => Service!recv_getPrice(c)
  BY <1>3 DEF Shops!recv_getPrice, Service!recv_getPrice
<1>5. Shops!recv_order(c) => Service!recv_order(c)
  BY <1>3 DEF Shops!recv_order, Service!recv_order
<1>6. Shops!recv_getReceipt(c) => Service!recv_getReceipt(c)
  BY <1>3 DEF Shops!recv_getReceipt, Service!recv_getReceipt
<1>7. Shops!Close(c) => Service!Close(c)
  BY DEF Shops!Close, Service!Close, Shops!Closed, Service!Closed, Shops!NoCall, Service!NoCall,
         Shops!NoWorker, Service!NoWorker, Shops!Call, Service!Call
<1>8. Shops!Throws(c) => Service!Throws(c) BY DEF Shops!Throws, Service!Throws
<1> QED BY <1>1, <1>2, <1>3, <1>4, <1>5, <1>6, <1>7, <1>8

LEMMA SameServe ==
    ASSUME NEW c, Shops!Serve(c)
    PROVE  Service!Serve(c)
<1> USE DEF Callers, Shops!Runs, Service!Runs, Shops!Works, Service!Works, Shops!Asks, Service!Asks,
            Shops!shared, Service!shared, Shops!Doing, Service!Doing, Shops!HasRead, Service!HasRead,
            Shops!Replies, Service!Replies, Shops!InStock, Service!InStock,
            Shops!Fails, Service!Fails, Shops!Pushing, Service!Pushing, Shops!Others, Service!Others
<1>1. Shops!BreaksOff(c) => Service!BreaksOff(c)
  BY DEF Shops!BreaksOff, Service!BreaksOff
<1>2. Shops!process_getPrice(c) => Service!process_getPrice(c)
  BY DEF Shops!process_getPrice, Service!process_getPrice, Shops!getPrice, Service!getPrice,
         Shops!INT_MAX, Service!INT_MAX
<1>3. Shops!process_getReceipt(c) => Service!process_getReceipt(c)
  BY <1>1 DEF Shops!process_getReceipt, Service!process_getReceipt, Shops!Garbles, Service!Garbles
<1>4. Shops!Refuse(c) => Service!Refuse(c) BY DEF Shops!Refuse, Service!Refuse
<1>5. Shops!Check(c) => Service!Check(c)
  BY DEF Shops!Check, Service!Check, Shops!Selling, Service!Selling
<1>6. Shops!Read(c) => Service!Read(c) BY DEF Shops!Read, Service!Read
<1>7. Shops!Take(c) => Service!Take(c) BY DEF Shops!Take, Service!Take, Shops!Rest, Service!Rest
<1>8. Shops!BeginPush(c) => Service!BeginPush(c) BY DEF Shops!BeginPush, Service!BeginPush
<1>9. Shops!Push(c) => Service!Push(c)
  BY DEF Shops!Push, Service!Push, Shops!OrderOf, Service!OrderOf, Shops!Result, Service!Result
<1> QED BY <1>1, <1>2, <1>3, <1>4, <1>5, <1>6, <1>7, <1>8, <1>9
        DEF Shops!Serve, Service!Serve, Shops!process_order, Service!process_order

LEMMA SameUse ==
    ASSUME NEW c, Shops!Use(c)
    PROVE  Service!Use(c)
<1>1. \A i, n : Shops!send_order(c, i, n) => Service!send_order(c, i, n)
  BY SameSteps DEF Shops!send_order, Service!send_order, Shops!Call, Service!Call
<1>2. \A i : Shops!send_getPrice(c, i) => Service!send_getPrice(c, i)
  BY SameSteps DEF Shops!send_getPrice, Service!send_getPrice, Shops!Call, Service!Call
<1>3. Shops!send_getReceipt(c) => Service!send_getReceipt(c)
  BY SameSteps DEF Shops!send_getReceipt, Service!send_getReceipt, Shops!Call, Service!Call,
                   Shops!NoCall, Service!NoCall
<1>4. Shops!Receive(c) => Service!Receive(c) BY SameSteps DEF Shops!Receive, Service!Receive
<1> QED BY <1>1, <1>2, <1>3, <1>4, SameSteps DEF Shops!Use, Service!Use

-----------------------------------------------------------------------------
(* What a step of a client does to it, and to no other.                     *)

Others(c) == \A d \in Callers \ {c} : client'[d] = client[d]

LEMMA Shapes ==
    ASSUME Service!ServiceInv, NEW c \in Callers
    PROVE  /\ Service!ShapeOK /\ DOMAIN client = Callers
           /\ client[c] = Service!ClientOf(client[c])
BY DEF Service!ServiceInv, Service!ShapeOK, Service!PeerOK, Service!ConnectionOK

LEMMA OpenMoves ==
    ASSUME Service!ServiceInv, NEW c \in Callers, Service!Open(c)
    PROVE  client'[c].at = "open" /\ Others(c)
<1>1. PICK x : x = "open" /\ client' = [client EXCEPT ![c].at = x] BY DEF Service!Open
<1> QED BY <1>1, Shapes, ServiceAssumed, Service!ClientMoves DEF Others

LEMMA SendsMoves ==
    ASSUME Service!ServiceInv, NEW c \in Callers, NEW call, Service!Sends(c, call)
    PROVE  client'[c].at = "waiting" /\ client'[c].call = call /\ Others(c)
BY Shapes DEF Service!Sends, Others

LEMMA HearsMoves ==
    ASSUME Service!ServiceInv, NEW c \in Callers, NEW m, Service!Hears(c, m)
    PROVE  /\ client[c].at = "waiting" /\ worker[c].at = "replied" /\ client[c].call.method = m
           /\ client'[c].at = "answered" /\ client'[c].call = client[c].call /\ Others(c)
<1>1. client'[c] = [client[c] EXCEPT !.at = "answered", !.answer = worker[c].reply] /\ Others(c)
  BY Shapes DEF Service!Hears, Others
<1>2. PICK r, x, y : r = client[c] /\ x = "answered" /\ y = worker[c].reply OBVIOUS
<1>3. r = Service!ClientOf(r) BY <1>2, Shapes
<1>4. [r EXCEPT !.at = x, !.answer = y] = [at |-> x, call |-> r.call, answer |-> y]
  BY <1>3, ServiceAssumed, Service!ClientFields, ZenonT(40)
<1> QED BY <1>1, <1>2, <1>4 DEF Service!Hears, Service!Asks

LEMMA CloseMoves ==
    ASSUME Service!ServiceInv, NEW c \in Callers, Service!Close(c)
    PROVE  client[c].at = "answered" /\ client'[c].at = "closed" /\ Others(c)
BY Shapes DEF Service!Close, Service!Closed, Others

LEMMA ThrowsMoves ==
    ASSUME Service!ServiceInv, NEW c \in Callers, Service!Throws(c)
    PROVE  /\ client'[c].at = "dead" /\ Others(c)
           /\ client[c].at \in {"closed", "open", "waiting"}
           /\ \/ ~Service!Runs(c)
              \/ /\ client[c].at = "waiting" /\ client[c].call.method # "getPrice"
                 /\ Service!Others(c) # {}
<1>1. PICK x : x = "dead" /\ client' = [client EXCEPT ![c].at = x] BY DEF Service!Throws
<1>2. client'[c].at = x /\ Others(c) BY <1>1, Shapes, ServiceAssumed, Service!ClientMoves DEF Others
<1>3. CASE ~Service!Runs(c) BY <1>1, <1>2, <1>3 DEF Service!Throws
<1>4. CASE Service!Runs(c)
  <2>1. client[c].at = "waiting" /\ worker[c].at = "failed" BY <1>4 DEF Service!Throws
  <2>2. client[c].call.method # "getPrice" /\ Service!Others(c) # {}
    BY <2>1 DEF Service!ServiceInv, Service!PeerOK, Service!ConnectionOK, Service!Asks
  <2> QED BY <1>1, <1>2, <2>1, <2>2
<1> QED BY <1>3, <1>4

(* Only at a store that others buy from as well can an order fail while the *)
(* store runs.                                                              *)
LEMMA SharedStores ==
    ASSUME NEW c \in AllStores, Service!Others(c) # {}
    PROVE  c \in Fragile
<1>1. PICK d \in Callers \ {c} : (IF d \in AllStores THEN d ELSE Visits[d]) = c
  BY StoresOfClients DEF Service!Others
<1> QED BY <1>1, StoresOfClients DEF Callers

LEMMA UseMoves ==
    ASSUME Service!ServiceInv, NEW c \in Callers, Service!Use(c)
    PROVE  Others(c)
<1>1. ASSUME NEW call, Service!Sends(c, call) PROVE Others(c) BY <1>1, SendsMoves
<1>2. ASSUME NEW m, Service!Hears(c, m) PROVE Others(c) BY <1>2, HearsMoves
<1> QED BY <1>1, <1>2, OpenMoves, CloseMoves, ThrowsMoves
        DEF Service!Use, Service!Receive, Service!recv_getPrice, Service!recv_order,
            Service!recv_getReceipt, Service!send_getPrice, Service!send_order, Service!send_getReceipt

(* What the threads of a store leave alone.                                 *)
LEMMA ServeLeaves ==
    ASSUME NEW c, Service!Serve(c)
    PROVE  UNCHANGED <<client, told>> /\ (UNCHANGED storeUp \/ Service!BreaksOff(c))
BY DEF Service!Serve, Service!process_getPrice, Service!process_getReceipt, Service!process_order,
       Service!Refuse, Service!Check, Service!Read, Service!Take, Service!BeginPush, Service!Push,
       Service!BreaksOff, Service!shared, Service!Garbles, Service!Fails

LEMMA UseLeaves ==
    ASSUME NEW c, Service!Use(c)
    PROVE  UNCHANGED <<storeUp, taken>>
BY DEF Service!Use, Service!Open, Service!Receive, Service!recv_getPrice, Service!recv_order,
       Service!recv_getReceipt, Service!Hears, Service!Close, Service!Throws, Service!send_getPrice,
       Service!send_order, Service!send_getReceipt, Service!Sends, Service!shared

-----------------------------------------------------------------------------
(* The receive thread on its way from store to store.                       *)

LEMMA WhileShopping ==
    ASSUME PurchaseInv, pc["receive"] \in Shopping
    PROVE  /\ Cheapest \in AllStores
           /\ pc["receive"] \in {"quote", "quoted"} => Asking \in AllStores
           /\ job["receive"].item \in Items /\ Missing(job["receive"].level) \in 81..100
<1>1. pc["receive"] \in {"quote", "quoted"} => job["receive"].store \in 1..Len(StoreList)
  BY BuyingThread, TypedJob DEF PurchaseInv, HouseInv, PlacesOK, ReceivePlace, Shopping
<1>2. job["receive"] \in Jobs BY Typed DEF PurchaseInv
<1>3. job["receive"].level \in 0..100 /\ job["receive"].level < 20
  BY <1>2 DEF PurchaseInv, PricesOK, Priced, Jobs
<1>4. job["receive"].item \in Items /\ job["receive"].cheapest \in 1..Len(StoreList)
  BY <1>2 DEF Jobs
<1>5. Missing(job["receive"].level) \in 81..100 BY <1>3 DEF Missing
<1> QED BY <1>1, <1>4, <1>5, StoresOfClients DEF Asking, Cheapest

LEMMA ThreadsLeaveStores ==
    ASSUME Receives \/ Serves \/ Environment
    PROVE  UNCHANGED storeUp
BY DEF Receives, Receive, Meet, Value, Amount, Quote, Quoted, Buy, Bought, Dials, Restocks, Find,
       ReadOffset, Erase, ReadLevel, Insert, Note, Truncate, Write, Die, Serves, Accept, Handles, Press,
       NotFound, GetPage, SkipRow, StartRow, FinishRow, NextRow, Reply, Environment

(* The calls of the receive thread are steps of its clients.                *)
LEMMA BuyingUses ==
    ASSUME PurchaseInv, Buying
    PROVE  \E c \in AllStores : Service!Use(c)
<1>1. CASE Dial
  <2>1. pc["receive"] \in {"quote", "buy"} BY <1>1 DEF Dial, Quote, Buy, Dials, At
  <2>2. CASE Quote /\ (Shops!Open(Asking) \/ Shops!Throws(Asking))
    <3>1. pc["receive"] = "quote" BY <2>2 DEF Quote, Dials, At
    <3>2. Asking \in AllStores BY <3>1, WhileShopping DEF Shopping
    <3> QED BY <2>2, <3>2, SameSteps DEF Service!Use
  <2>3. CASE Buy /\ (Shops!Open(Cheapest) \/ Shops!Throws(Cheapest))
    <3>1. Cheapest \in AllStores BY <2>1, WhileShopping DEF Shopping
    <3> QED BY <2>3, <3>1, SameSteps DEF Service!Use
  <2> QED BY <1>1, <2>2, <2>3 DEF Dial
<1>2. CASE ~Dial
  <2> DEFINE j == job["receive"]
  <2>1. pc["receive"] \in {"quoted", "bought"}
    BY <1>2 DEF Buying, Ask, GetPrice, GetSuccess, Compare, Decide, Fails, At
  <2>2. /\ Cheapest \in AllStores /\ (pc["receive"] = "quoted" => Asking \in AllStores)
        /\ j.item \in Items /\ Missing(j.level) \in 81..100
    BY <2>1, WhileShopping DEF Shopping
  <2> HIDE DEF j
  <2>3. CASE pc["receive"] = "quoted" /\ Shops!send_getPrice(Asking, job["receive"].item)
    <3>1. Service!send_getPrice(Asking, j.item)
      BY <2>3, SameSteps DEF Shops!send_getPrice, Service!send_getPrice, Shops!Call, Service!Call, j
    <3> QED BY <2>2, <2>3, <3>1 DEF Service!Use
  <2>4. CASE Shops!send_order(Cheapest, job["receive"].item, Missing(job["receive"].level))
    <3>1. Service!send_order(Cheapest, j.item, Missing(j.level))
      BY <2>4, SameSteps DEF Shops!send_order, Service!send_order, Shops!Call, Service!Call, j
    <3>2. PICK n : n = Missing(j.level) OBVIOUS
    <3>3. Service!send_order(Cheapest, j.item, n) /\ n \in Amounts \cup 81..100 BY <2>2, <3>1, <3>2
    <3> QED BY <2>2, <3>3 DEF Service!Use
  <2>5. CASE GetPrice \/ GetSuccess
    BY <2>2, <2>5, SameSteps DEF GetPrice, GetSuccess, At, Service!Use, Service!Receive
  <2>6. CASE Compare \/ Decide BY <2>2, <2>6, SameSteps DEF Compare, Decide, At, Service!Use
  <2>7. CASE Fails BY <2>2, <2>7, SameSteps DEF Fails, At, Service!Use
  <2> QED BY <1>2, <2>3, <2>4, <2>5, <2>6, <2>7 DEF Buying, Ask, At
<1> QED BY <1>1, <1>2

(* The stores and their clients do what StoreService has them do.           *)
LEMMA ServiceMoves ==
    ASSUME PurchaseInv, [PurchaseNext]_marketVars
    PROVE  [Service!Next]_(Service!vars)
<1>1. ASSUME NEW c \in Callers, Service!Use(c) \/ Service!Serve(c) PROVE Service!Next
  BY <1>1 DEF Service!Next
<1>2. CASE AtHome \/ OtherThreads
  <2>1. UNCHANGED <<serviceVars, storeUp>>
    BY <1>2, ThreadsLeaveStores DEF AtHome, OtherThreads, Receives
  <2> QED BY <2>1 DEF serviceVars, Service!vars, Service!shared
<1>3. CASE Buying BY <1>1, <1>3, BuyingUses, StoresOfClients
<1>4. CASE Outside BY <1>1, <1>4, SameUse DEF Outside, Callers
<1>5. CASE Exits
  <2>1. PICK s \in Fragile : Shops!Exit(s) BY <1>5 DEF Exits
  <2>2. s \in AllStores BY HouseholdAssumption DEF AllStores
  <2> QED BY <2>1, <2>2 DEF Shops!Exit, Service!Exit, Service!Next
<1>6. CASE \E c \in AllStores \cup Outsiders : Serving(c)
  BY <1>1, <1>6, SameServe DEF Serving, Callers
<1>7. CASE UNCHANGED marketVars
  BY <1>7 DEF marketVars, vars, serviceVars, Service!vars, Service!shared
<1> QED BY <1>2, <1>3, <1>4, <1>5, <1>6, <1>7 DEF PurchaseNext

LEMMA ServiceKeeps ==
    ASSUME PurchaseInv, [PurchaseNext]_marketVars
    PROVE  Service!ServiceInv'
<1>1. Service!Next \/ UNCHANGED Service!vars BY ServiceMoves
<1> QED BY <1>1, ServiceAssumed, Service!ServiceInvStep, Service!ServiceInvStutter DEF PurchaseInv

-----------------------------------------------------------------------------
(* Every step is one that Household allows, or none of Household's.         *)

(* The comparison of what the stores answered is one of their prices.       *)
LEMMA CompareImplements == ASSUME PurchaseInv, Compare PROVE Quoted
<1>1. PICK k, b : k = job["receive"].store /\ b = job["receive"].cheapest OBVIOUS
<1>2. pc["receive"] = "quoted" /\ alive BY DEF Compare, At
<1>3. Asking \in AllStores BY <1>2, WhileShopping DEF Shopping
<1>4. client[Asking].at = "answered" BY <1>3 DEF Compare, Shops!Close
<1>5. Len(prices) = k /\ \A n \in 1..Len(prices) : prices[n] = PriceAt(job["receive"].item, n)
  BY <1>1, <1>2, <1>4 DEF PurchaseInv, PricesOK, Priced, Shopping
<1>6. k \in 1..Len(StoreList) /\ b \in 1..Len(StoreList) /\ Len(StoreList) \in Nat
  BY <1>1, <1>2, BuyingThread, ListsAreFull DEF PurchaseInv
<1>7. (k = 1 /\ b = 1) \/ b < k
  BY <1>1, <1>2, BuyingThread DEF PurchaseInv, CheapInv, Comparing, Fresh
<1>8. b \in 1..Len(prices) /\ k \in 1..Len(prices) BY <1>5, <1>6, <1>7
<1>9. prices[k] = PriceAt(job["receive"].item, k) /\ prices[b] = PriceAt(job["receive"].item, b)
  BY <1>5, <1>8
<1>10. Lower(k, b) <=> Cheaper(job["receive"].item, k, b) BY <1>9 DEF Lower, Cheaper, PriceAt
<1>11. job' = [job EXCEPT !["receive"].cheapest = IF Lower(k, b) THEN k ELSE b,
                         !["receive"].store = k + 1]
  BY <1>1, Typed DEF Compare, PurchaseInv
<1>12. job' = [job EXCEPT !["receive"].cheapest = IF Cheaper(job["receive"].item, k, b) THEN k ELSE b,
                         !["receive"].store = k + 1]
  BY <1>10, <1>11
<1>13. /\ At("receive", "quoted") /\ UNCHANGED <<peerVars, offsets, files, history, alive, storeUp>>
       /\ Goto("receive", IF k = Len(StoreList) THEN "buy" ELSE "quote")
  BY <1>1 DEF Compare, Shops!Close, Shops!shared
<1>14. job' = [job EXCEPT !["receive"].cheapest =
                             IF Cheaper(job["receive"].item, k, @) THEN k ELSE @,
                         !["receive"].store = @ + 1]
  BY <1>1, <1>12, Typed DEF PurchaseInv
<1> QED BY <1>1, <1>13, <1>14 DEF Quoted

LEMMA BuyingImplements ==
    ASSUME PurchaseInv, Buying
    PROVE  Next \/ UNCHANGED vars
<1>1. CASE Dial BY <1>1 DEF Dial, Next, Receives
<1>2. CASE Ask
  BY <1>2 DEF Ask, homeVars, vars, Shops!send_getPrice, Shops!send_order, Shops!Sends, Shops!shared
<1>3. CASE GetPrice
  BY <1>3 DEF GetPrice, homeVars, vars, Shops!recv_getPrice, Shops!Hears, Shops!shared
<1>4. CASE GetSuccess
  BY <1>4 DEF GetSuccess, homeVars, vars, Shops!recv_order, Shops!Hears, Shops!shared
<1>5. CASE Compare BY <1>5, CompareImplements DEF Next, Receives
<1>6. CASE Decide
  <2>1. \E success \in BOOLEAN : Goto("receive", IF success THEN "restock" ELSE "recv")
    BY <1>6 DEF Decide
  <2> QED BY <1>6, <2>1 DEF Decide, Shops!Close, Shops!shared, Bought, Next, Receives
<1>7. CASE Fails
  <2>1. pc["receive"] \in {"quoted", "bought"} BY <1>7 DEF Fails, At
  <2>2. Cheapest \in AllStores /\ (pc["receive"] = "quoted" => Asking \in AllStores)
    BY <2>1, WhileShopping DEF Shopping
  <2>3. CASE At("receive", "quoted") /\ Shops!Throws(Asking)
    <3>1. ~storeUp[Asking]
      <4>1. Service!Throws(Asking) /\ Service!ServiceInv /\ Asking \in Callers
        BY <2>2, <2>3, SameSteps, StoresOfClients DEF At, PurchaseInv
      <4>2. client[Asking].at = "waiting" => client[Asking].call.method = "getPrice"
        <5>1. client[Asking].at = "waiting" => client[Asking].call = CallOf("quoted", job["receive"])
          BY <2>2, <2>3 DEF At, PurchaseInv, CallsOK, CallOK
        <5> QED BY <5>1 DEF CallOf, Shops!Call
      <4> QED BY <2>2, <2>3, <4>1, <4>2, ThrowsMoves, StoresOfClients DEF At
    <3> QED BY <1>7, <2>3, <3>1 DEF Fails, Quoted, Asking, Next, Receives
  <2>4. CASE At("receive", "bought") /\ Shops!Throws(Cheapest)
    <3>1. Cheapest \in Fragile
      <4>1. Service!Throws(Cheapest) /\ Service!ServiceInv /\ Cheapest \in Callers
        BY <2>2, <2>4, SameSteps, StoresOfClients DEF PurchaseInv
      <4>2. ~storeUp[Cheapest] \/ Service!Others(Cheapest) # {}
        BY <2>2, <4>1, ThrowsMoves, StoresOfClients
      <4>3. ~storeUp[Cheapest] => Cheapest \in Fragile
        BY <2>2 DEF PurchaseInv, HouseInv, UpOK, AllStores
      <4> QED BY <2>2, <4>2, <4>3, SharedStores
    <3> QED BY <1>7, <2>4, <3>1 DEF Fails, Bought, Cheapest, Next, Receives
  <2> QED BY <1>7, <2>3, <2>4 DEF Fails
<1> QED BY <1>1, <1>2, <1>3, <1>4, <1>5, <1>6, <1>7 DEF Buying

(* A store that two threads break is one that another household uses.       *)
LEMMA BreaksOffImplements ==
    ASSUME PurchaseInv, NEW c \in Callers, Service!BreaksOff(c), Service!Serve(c),
           UNCHANGED homeVars
    PROVE  Next
<1>1. PICK s : s = IF c \in AllStores THEN c ELSE Visits[c] OBVIOUS
<1>2. PICK d \in Callers \ {c} : (IF d \in AllStores THEN d ELSE Visits[d]) = s
  BY <1>1 DEF Service!BreaksOff, Service!Pushing, Service!Others
<1>3. s \in Fragile BY <1>1, <1>2, StoresOfClients DEF Callers
<1>4. storeUp[s] /\ storeUp' = [storeUp EXCEPT ![s] = FALSE]
  BY <1>1 DEF Service!BreaksOff, Service!Serve, Service!process_getPrice, Service!process_getReceipt,
     Service!process_order, Service!HasRead, Service!Doing, Service!Runs, Service!Refuse,
     Service!Check, Service!Read, Service!Take, Service!BeginPush, Service!Push
<1> QED BY <1>3, <1>4 DEF GoesDown, homeVars, Next

LEMMA StepImplements ==
    ASSUME PurchaseInv, [PurchaseNext]_marketVars
    PROVE  [Next]_vars
<1>1. CASE AtHome BY <1>1 DEF AtHome, Next, Receives
<1>2. CASE Buying BY <1>2, BuyingImplements
<1>3. CASE OtherThreads BY <1>3 DEF OtherThreads, Next
<1>4. CASE Outside
  <2>1. PICK d : Shops!Use(d) BY <1>4 DEF Outside
  <2> QED BY <1>4, <2>1, SameUse, UseLeaves DEF Outside, homeVars, vars
<1>5. CASE Exits
  <2>1. PICK s \in Fragile : Shops!Exit(s) BY <1>5 DEF Exits
  <2> QED BY <1>5, <2>1 DEF Exits, Shops!Exit, GoesDown, homeVars, Next
<1>6. ASSUME NEW c \in Callers, Serving(c) PROVE [Next]_vars
  <2>1. Service!Serve(c) /\ UNCHANGED homeVars BY <1>6, SameServe DEF Serving
  <2>2. CASE UNCHANGED storeUp BY <2>1, <2>2 DEF homeVars, vars
  <2> QED BY <2>1, <2>2, ServeLeaves, BreaksOffImplements
<1>7. CASE UNCHANGED marketVars BY <1>7 DEF marketVars
<1> QED BY <1>1, <1>2, <1>3, <1>4, <1>5, <1>6, <1>7 DEF PurchaseNext, Callers

-----------------------------------------------------------------------------
(* What the calls rely on is kept.                                          *)

(* A step that is none of the receive thread's and of its clients'.         *)
LEMMA CallsStay ==
    ASSUME PurchaseInv, \A c \in AllStores : client'[c] = client[c],
           pc'["receive"] = pc["receive"], job'["receive"] = job["receive"], alive' => alive,
           prices' = prices
    PROVE  CallsOK' /\ PricesOK'
<1>1. CallsOK' BY DEF PurchaseInv, CallsOK, CallOK, Calling, CallOf
<1>2. pc["receive"] = "quoted" => Asking' = Asking /\ Asking \in AllStores
  BY WhileShopping DEF Asking, Shopping
<1>3. PricesOK' BY <1>2 DEF PurchaseInv, PricesOK, Priced, Shopping
<1> QED BY <1>1, <1>3

(* Of a live process, only the client of its call is not closed.            *)
LEMMA OneCall ==
    ASSUME PurchaseInv, alive, NEW c \in AllStores,
           Calling(pc["receive"], job["receive"]) \subseteq {c}
    PROVE  \A d \in AllStores \ {c} : client[d].at = "closed"
BY DEF PurchaseInv, CallsOK, CallOK

(* A step of the client of the call, whatever the thread does besides.      *)
LEMMA CallMoves ==
    ASSUME PurchaseInv, alive, NEW c \in AllStores,
           Calling(pc["receive"], job["receive"]) \subseteq {c}, Others(c),
           CallOK(pc["receive"], job["receive"], c)'
    PROVE  CallsOK'
<1>1. ASSUME NEW d \in AllStores \ {c} PROVE client'[d].at = "closed"
  BY <1>1, OneCall, StoresOfClients DEF Others
<1> QED BY <1>1 DEF CallsOK, CallOK

LEMMA AtHomeKeeps == ASSUME PurchaseInv, AtHome PROVE CallsOK' /\ PricesOK'
<1>1. PICK p, j : p = pc["receive"] /\ j = job["receive"] OBVIOUS
<1>2. UNCHANGED <<client, prices>> BY DEF AtHome, serviceVars
<1>3. CASE Die BY <1>2, <1>3, CallsStay DEF Die, threadVars
<1>4. CASE ~Die
  <2>1. alive /\ p \notin Shopping
    BY <1>1 DEF AtHome, Receive, Meet, Value, Amount, Restocks, Find, ReadOffset, Erase, ReadLevel,
       Insert, Note, Truncate, Write, At, Shopping
  <2>2. CallsOK'
    <3>1. \A c \in AllStores : client[c].at = "closed"
      BY <1>1, <2>1 DEF PurchaseInv, CallsOK, CallOK, Calling, Shopping
    <3> QED BY <1>2, <3>1 DEF CallsOK, CallOK
  <2>3. prices = <<>> BY <1>1, <2>1 DEF PurchaseInv, PricesOK, Priced
  <2>4. CASE Amount
    <3>1. j \in Jobs /\ j.after = "amount"
      BY <1>1, <2>4, Typed DEF PurchaseInv, HouseInv, PlacesOK, ReceivePlace, Amount, At
    <3>2. j.store = 1 BY <1>1, <3>1 DEF PurchaseInv, CheapInv, Comparing, Fresh
    <3>3. PICK v : v = Level(j.item) OBVIOUS
    <3>4. /\ job' = [job EXCEPT !["receive"].level = v, !["receive"].after = "recv"]
          /\ pc' = [pc EXCEPT !["receive"] = IF v < 20 THEN "quote" ELSE "recv"]
      BY <1>1, <1>4, <2>4, <3>3 DEF Amount, Goto
    <3>5. job'["receive"].level = v /\ job'["receive"].store = j.store
      BY <1>1, <3>1, <3>4, Typed DEF PurchaseInv, Jobs
    <3>6. \/ pc'["receive"] = "quote" /\ v < 20
          \/ pc'["receive"] = "recv"
      BY <3>4, Typed DEF PurchaseInv
    <3>7. prices' = <<>> BY <1>2, <2>3
    <3> QED BY <2>2, <3>2, <3>5, <3>6, <3>7 DEF PricesOK, Priced, Shopping
  <2>5. CASE ~Amount
    <3>1. j.after \in {"amount", "recv"} \/ p \in {"recv", "look", "value"}
      BY <1>1, <2>1 DEF PurchaseInv, HouseInv, PlacesOK, ReceivePlace, Shopping, Saving, Restocking
    <3>2. PICK place : Goto("receive", place) /\ place \notin Shopping
      <4>1. CASE Restocks("receive")
        <5>1. j.after \in {"amount", "recv"}
          BY <1>1, <3>1, <4>1 DEF Restocks, Find, ReadOffset, Erase, ReadLevel, Insert, Note,
             Truncate, Write, At
        <5>2. \E place \in {"at", "erase", "get", "insert", "note", "open", "write", j.after} :
                  Goto("receive", place)
          BY <1>1, <1>4, <4>1
             DEF Restocks, Find, ReadOffset, Erase, ReadLevel, Insert, Note, Truncate, Write
        <5> QED BY <5>1, <5>2 DEF Shopping
      <4>2. CASE ~Restocks("receive")
        <5>1. Receive \/ Meet \/ (Value /\ ~Die) BY <1>4, <2>5, <4>2 DEF AtHome
        <5>2. Goto("receive", "look") \/ Goto("receive", "value") \/ Goto("receive", "note")
          BY <1>4, <5>1 DEF Receive, Meet, Value
        <5> QED BY <5>2 DEF Shopping
      <4> QED BY <4>1, <4>2
    <3>3. pc'["receive"] \notin Shopping BY <3>2, Typed DEF Goto, PurchaseInv
    <3>4. prices' = <<>> BY <1>2, <2>3
    <3> QED BY <2>2, <3>3, <3>4 DEF PricesOK, Priced, Shopping
  <2> QED BY <2>4, <2>5
<1> QED BY <1>3, <1>4

(* A call that fails ends the process.                                      *)
LEMMA FailingKeeps ==
    ASSUME PurchaseInv, alive, Die, UNCHANGED prices, NEW c \in AllStores, Service!Throws(c),
           Calling(pc["receive"], job["receive"]) \subseteq {c},
           pc["receive"] = "quoted" => c = Asking
    PROVE  CallsOK' /\ PricesOK'
<1>1. Service!ServiceInv /\ c \in Callers BY StoresOfClients DEF PurchaseInv
<1>2. /\ client'[c].at = "dead" /\ Others(c)
      /\ client[c].at \in {"closed", "open", "waiting"}
  BY <1>1, ThrowsMoves
<1>3. CallOK(pc["receive"], job["receive"], c)' BY <1>2 DEF CallOK, Die
<1>4. CallsOK' BY <1>2, <1>3, CallMoves
<1>5. PricesOK'
  <2>1. UNCHANGED <<pc, job>> BY DEF Die, threadVars
  <2>2. pc["receive"] = "quoted" => client[Asking].at # "answered" /\ client'[Asking].at # "answered"
    BY <1>2
  <2>3. Asking' = Asking BY <2>1 DEF Asking
  <2> QED BY <2>1, <2>2, <2>3 DEF PurchaseInv, PricesOK, Priced, Shopping
<1> QED BY <1>4, <1>5

LEMMA DialKeeps == ASSUME PurchaseInv, Dial PROVE CallsOK' /\ PricesOK'
<1>1. /\ pc["receive"] \in {"quote", "buy"} /\ alive
      /\ Calling(pc["receive"], job["receive"]) = {} /\ UNCHANGED prices
  BY DEF Dial, Quote, Buy, Dials, At, Calling
<1>2. PICK c \in AllStores : /\ Service!Open(c) \/ Service!Throws(c)
                             /\ \/ pc["receive"] = "quote" /\ Quote /\ c = Asking
                                \/ pc["receive"] = "buy" /\ Buy /\ c = Cheapest
  <2>1. Cheapest \in AllStores /\ (pc["receive"] = "quote" => Asking \in AllStores)
    BY <1>1, WhileShopping DEF Shopping
  <2> QED BY <2>1, SameSteps DEF Dial, Quote, Buy, Dials, At
<1>3. Service!ServiceInv /\ c \in Callers BY StoresOfClients DEF PurchaseInv
<1>4. CASE Service!Open(c)
  <2>1. client'[c].at = "open" /\ Others(c) BY <1>3, <1>4, OpenMoves
  <2>2. storeUp[c] BY <1>4, StoresOfClients DEF Service!Open
  <2>3. UNCHANGED job /\ IF pc["receive"] = "quote" THEN Goto("receive", "quoted")
                         ELSE Goto("receive", "bought")
    BY <1>1, <1>2, <2>2 DEF Quote, Buy, Dials, Asking, Cheapest
  <2>4. pc'["receive"] = IF pc["receive"] = "quote" THEN "quoted" ELSE "bought"
    BY <2>3, Typed DEF Goto, PurchaseInv
  <2>5. c \in Calling(pc'["receive"], job'["receive"])
    BY <1>1, <1>2, <2>3, <2>4 DEF Calling, Asking, Cheapest
  <2>6. CallOK(pc["receive"], job["receive"], c)' BY <2>1, <2>5 DEF CallOK
  <2>7. CallsOK' BY <1>1, <2>1, <2>6, CallMoves
  <2>8. PricesOK'
    <3>1. pc["receive"] = "quote" => Asking' = c BY <1>2, <2>3 DEF Asking
    <3>2. pc["receive"] = "quote" => job["receive"].store \in Nat
      BY <1>1, BuyingThread DEF PurchaseInv
    <3>3. pc["receive"] = "quote" => Len(prices) = job["receive"].store - 1
      BY <3>2 DEF PurchaseInv, PricesOK, Priced
    <3> QED BY <1>1, <2>1, <2>3, <2>4, <3>1, <3>3 DEF PurchaseInv, PricesOK, Priced, Shopping
  <2> QED BY <2>7, <2>8
<1>5. CASE Service!Throws(c)
  <2>1. ~storeUp[c]
    <3>1. client[c].at # "waiting"
      BY <1>1 DEF PurchaseInv, CallsOK, CallOK
    <3> QED BY <1>5, <3>1, StoresOfClients DEF Service!Throws
  <2>2. Die BY <1>2, <2>1 DEF Quote, Buy, Dials, Asking, Cheapest
  <2> QED BY <1>1, <1>5, <2>2, FailingKeeps
<1> QED BY <1>2, <1>4, <1>5

LEMMA AskKeeps == ASSUME PurchaseInv, Ask PROVE CallsOK' /\ PricesOK'
<1>1. PICK p, j : p = pc["receive"] /\ j = job["receive"] OBVIOUS
<1>2. p \in {"quoted", "bought"} /\ alive /\ UNCHANGED <<pc, job, alive, prices>>
  BY <1>1 DEF Ask, At, homeVars, threadVars
<1>3. PICK c \in AllStores : /\ Calling(p, j) = {c} /\ (p = "quoted" => c = Asking)
                             /\ Service!Sends(c, CallOf(p, j))
  <2>1. Cheapest \in AllStores /\ (p = "quoted" => Asking \in AllStores)
    BY <1>1, <1>2, WhileShopping DEF Shopping
  <2>2. CASE p = "quoted" /\ Shops!send_getPrice(Asking, j.item)
    BY <1>1, <2>1, <2>2, SameSteps DEF Shops!send_getPrice, Calling, CallOf, Asking
  <2>3. CASE p = "bought" /\ Shops!send_order(Cheapest, j.item, Missing(j.level))
    BY <1>1, <2>1, <2>3, SameSteps DEF Shops!send_order, Calling, CallOf, Cheapest
  <2> QED BY <1>1, <2>2, <2>3 DEF Ask, At
<1>4. Service!ServiceInv /\ c \in Callers BY StoresOfClients DEF PurchaseInv
<1>5. client'[c].at = "waiting" /\ client'[c].call = CallOf(p, j) /\ Others(c)
  BY <1>3, <1>4, SendsMoves
<1>6. CallOK(pc["receive"], job["receive"], c)'
  <2>1. CallOf(p, j) = CallOf(pc["receive"], job["receive"])' BY <1>1, <1>2 DEF CallOf
  <2>2. c \in Calling(pc["receive"], job["receive"])' BY <1>1, <1>2, <1>3 DEF Calling
  <2> QED BY <1>5, <2>1, <2>2 DEF CallOK
<1>7. CallsOK' BY <1>1, <1>2, <1>3, <1>5, <1>6, CallMoves
<1>8. PricesOK'
  <2>1. Asking' = Asking BY <1>2 DEF Asking
  <2>2. client[c].at = "open" BY <1>3 DEF Service!Sends
  <2> QED BY <1>1, <1>2, <1>3, <1>5, <2>1, <2>2 DEF PurchaseInv, PricesOK, Priced, Shopping
<1> QED BY <1>7, <1>8

(* The thread hears from the store that it asked.                           *)
LEMMA HearingKeeps ==
    ASSUME PurchaseInv, UNCHANGED homeVars, pc["receive"] \in {"quoted", "bought"}, alive,
           NEW c \in AllStores, Calling(pc["receive"], job["receive"]) = {c},
           NEW m, Service!Hears(c, m)
    PROVE  CallsOK' /\ client'[c].at = "answered" /\ client[c].at = "waiting"
           /\ worker[c].at = "replied" /\ client[c].call = CallOf(pc["receive"], job["receive"])
<1>1. Service!ServiceInv /\ c \in Callers BY StoresOfClients DEF PurchaseInv
<1>2. /\ client[c].at = "waiting" /\ worker[c].at = "replied"
      /\ client'[c].at = "answered" /\ client'[c].call = client[c].call /\ Others(c)
  BY <1>1, HearsMoves
<1>3. client[c].call = CallOf(pc["receive"], job["receive"])
  BY <1>2 DEF PurchaseInv, CallsOK, CallOK
<1>4. UNCHANGED <<pc, job, alive>> BY DEF homeVars, threadVars
<1>5. CallOK(pc["receive"], job["receive"], c)'
  <2>1. /\ CallOf(pc["receive"], job["receive"])' = CallOf(pc["receive"], job["receive"])
        /\ Calling(pc["receive"], job["receive"])' = {c}
    BY <1>4 DEF CallOf, Calling
  <2> QED BY <1>2, <1>3, <2>1 DEF CallOK
<1> QED BY <1>2, <1>3, <1>5, CallMoves

LEMMA GetPriceKeepsCalls == ASSUME PurchaseInv, GetPrice PROVE CallsOK' /\ PricesOK'
<1>1. PICK j, c, k : j = job["receive"] /\ c = Asking /\ k = j.store OBVIOUS
<1>2. /\ pc["receive"] = "quoted" /\ alive /\ UNCHANGED homeVars
      /\ prices' = Append(prices, Head(worker[c].reply)) /\ Shops!recv_getPrice(c)
  BY <1>1 DEF GetPrice, At
<1>3. c \in AllStores /\ c \in Callers /\ Service!Hears(c, "getPrice")
  BY <1>1, <1>2, WhileShopping, SameSteps, StoresOfClients DEF Shopping, Shops!recv_getPrice
<1>4. Calling(pc["receive"], job["receive"]) = {c} BY <1>1, <1>2 DEF Calling, Asking
<1>5. /\ CallsOK' /\ client'[c].at = "answered" /\ client[c].at = "waiting"
      /\ worker[c].at = "replied" /\ client[c].call = CallOf(pc["receive"], job["receive"])
  BY <1>2, <1>3, <1>4, HearingKeeps
<1>6. client[c].call = Shops!Call("getPrice", j.item, 0) BY <1>1, <1>2, <1>5 DEF CallOf
<1>7. client[c].call.method = "getPrice" /\ client[c].call.item = j.item
  BY <1>6 DEF Shops!Call
<1>8. PICK v : v = Head(worker[c].reply) OBVIOUS
<1>9. v = PriceAt(j.item, k) /\ v \in Nat
  <2>1. Service!ConnectionOK(c) BY <1>3 DEF PurchaseInv, Service!ServiceInv, Service!PeerOK
  <2>2. worker[c].reply = <<worker[c].reply[1]>> /\ worker[c].reply[1] = Service!getPrice(c, j.item)
    BY <1>3, <1>5, <1>7, <2>1 DEF Service!ConnectionOK, Service!ResultOf
  <2>3. v = Service!getPrice(c, j.item) BY <1>8, <2>2
  <2>4. Service!getPrice(c, j.item) = Shops!getPrice(c, j.item)
    BY DEF Service!getPrice, Shops!getPrice, Service!INT_MAX, Shops!INT_MAX
  <2>5. j.item \in Items /\ k \in 1..Len(StoreList)
    BY <1>1, <1>2, WhileShopping, BuyingThread DEF Shopping, PurchaseInv
  <2>6. Price[c][j.item] = Shops!getPrice(c, j.item) BY <1>3, <2>5, PurchaseAssumption
  <2>7. PriceAt(j.item, k) \in Nat BY <2>5, PricesAreNumbers
  <2> QED BY <1>1, <2>3, <2>4, <2>6, <2>7 DEF PriceAt, Asking
<1>10. prices \in Seq(Nat) /\ Len(prices) = k - 1 /\ k \in Nat \ {0} /\ j.level < 20
       /\ \A n \in 1..Len(prices) : prices[n] = PriceAt(j.item, n)
  BY <1>1, <1>2, <1>5, BuyingThread, ListsAreFull DEF PurchaseInv, PricesOK, Priced, Shopping
<1>11. prices' = Append(prices, v) BY <1>2, <1>8
<1>12. /\ prices' \in Seq(Nat) /\ Len(prices') = k
       /\ \A n \in 1..Len(prices') : prices'[n] = PriceAt(j.item, n)
  BY <1>9, <1>10, <1>11
<1>13. PricesOK'
  <2>1. UNCHANGED <<pc, job>> BY <1>2 DEF homeVars, threadVars
  <2>2. Asking' = c BY <1>1, <2>1 DEF Asking
  <2> QED BY <1>1, <1>2, <1>5, <1>10, <1>12, <2>1, <2>2 DEF PricesOK, Priced, Shopping
<1> QED BY <1>5, <1>13

LEMMA GetSuccessKeeps == ASSUME PurchaseInv, GetSuccess PROVE CallsOK' /\ PricesOK'
<1>1. pc["receive"] = "bought" /\ alive /\ UNCHANGED homeVars /\ UNCHANGED prices
  BY DEF GetSuccess, At
<1>2. Cheapest \in AllStores /\ Service!Hears(Cheapest, "order")
  BY <1>1, WhileShopping, SameSteps DEF Shopping, GetSuccess, Shops!recv_order
<1>3. Calling(pc["receive"], job["receive"]) = {Cheapest} BY <1>1 DEF Calling, Cheapest
<1>4. CallsOK' BY <1>1, <1>2, <1>3, HearingKeeps
<1>5. PricesOK'
  <2>1. UNCHANGED <<pc, job>> BY <1>1 DEF homeVars, threadVars
  <2> QED BY <1>1, <2>1 DEF PurchaseInv, PricesOK, Priced, Shopping
<1> QED BY <1>4, <1>5

(* The connection is closed and the thread goes on.                         *)
LEMMA ClosingKeeps ==
    ASSUME PurchaseInv, alive, NEW c \in AllStores, Service!Close(c),
           Calling(pc["receive"], job["receive"]) = {c}
    PROVE  CallsOK' /\ client[c].at = "answered" /\ client'[c].at = "closed" /\ Others(c)
<1>1. Service!ServiceInv /\ c \in Callers BY StoresOfClients DEF PurchaseInv
<1>2. client[c].at = "answered" /\ client'[c].at = "closed" /\ Others(c) BY <1>1, CloseMoves
<1>3. CallOK(pc["receive"], job["receive"], c)' BY <1>2 DEF CallOK
<1> QED BY <1>2, <1>3, CallMoves

LEMMA CompareKeeps == ASSUME PurchaseInv, Compare PROVE CallsOK' /\ PricesOK'
<1>1. PICK j, c, k : j = job["receive"] /\ c = Asking /\ k = j.store OBVIOUS
<1>2. pc["receive"] = "quoted" /\ alive /\ UNCHANGED prices /\ Shops!Close(c)
  BY <1>1 DEF Compare, At
<1>3. c \in AllStores /\ Calling(pc["receive"], job["receive"]) = {c} /\ Service!Close(c)
  BY <1>1, <1>2, WhileShopping, SameSteps DEF Shopping, Calling, Asking
<1>4. CallsOK' /\ client[c].at = "answered" BY <1>2, <1>3, ClosingKeeps
<1>5. PICK b : b = IF Lower(k, j.cheapest) THEN k ELSE j.cheapest OBVIOUS
<1>6. job' = [job EXCEPT !["receive"].cheapest = b, !["receive"].store = k + 1]
  BY <1>1, <1>5, Typed DEF Compare, PurchaseInv
<1>7. j \in Jobs BY <1>1, Typed DEF PurchaseInv
<1>8. /\ job'["receive"].item = j.item /\ job'["receive"].level = j.level
      /\ job'["receive"].store = k + 1
  BY <1>1, <1>6, <1>7, Typed DEF Jobs, PurchaseInv
<1>9. pc'["receive"] \in {"buy", "quote"} BY <1>1, Typed DEF Compare, Goto, PurchaseInv
<1>10. /\ prices' \in Seq(Nat) /\ Len(prices') = k /\ j.level < 20
       /\ \A n \in 1..Len(prices') : prices'[n] = PriceAt(j.item, n)
  BY <1>1, <1>2, <1>4 DEF PurchaseInv, PricesOK, Priced, Shopping
<1> QED BY <1>4, <1>8, <1>9, <1>10 DEF PricesOK, Priced, Shopping

LEMMA DecideKeeps == ASSUME PurchaseInv, Decide PROVE CallsOK' /\ PricesOK'
<1>1. pc["receive"] = "bought" /\ alive /\ prices' = <<>> /\ Shops!Close(Cheapest)
  BY DEF Decide, At
<1>2. /\ Cheapest \in AllStores /\ Calling(pc["receive"], job["receive"]) = {Cheapest}
      /\ Service!Close(Cheapest)
  BY <1>1, WhileShopping, SameSteps DEF Shopping, Calling, Cheapest
<1>3. CallsOK' BY <1>1, <1>2, ClosingKeeps
<1>4. pc'["receive"] \in {"restock", "recv"} BY Typed DEF Decide, Goto, PurchaseInv
<1> QED BY <1>1, <1>3, <1>4 DEF PricesOK, Priced, Shopping

LEMMA FailsKeeps == ASSUME PurchaseInv, Fails PROVE CallsOK' /\ PricesOK'
<1>1. pc["receive"] \in {"quoted", "bought"} /\ alive /\ Die /\ UNCHANGED prices
  BY DEF Fails, At
<1>2. Cheapest \in AllStores /\ (pc["receive"] = "quoted" => Asking \in AllStores)
  BY <1>1, WhileShopping DEF Shopping
<1>3. CASE At("receive", "quoted") /\ Shops!Throws(Asking)
  BY <1>1, <1>2, <1>3, SameSteps, FailingKeeps DEF At, Calling, Asking
<1>4. CASE At("receive", "bought") /\ Shops!Throws(Cheapest)
  BY <1>1, <1>2, <1>4, SameSteps, FailingKeeps DEF At, Calling, Cheapest
<1> QED BY <1>3, <1>4 DEF Fails

LEMMA CallsKept ==
    ASSUME PurchaseInv, PurchaseNext
    PROVE  CallsOK' /\ PricesOK'
<1>1. CASE Buying
  BY <1>1, DialKeeps, AskKeeps, GetPriceKeepsCalls, GetSuccessKeeps, CompareKeeps, DecideKeeps,
     FailsKeeps DEF Buying
<1>2. CASE OtherThreads
  <2>1. UNCHANGED <<client, prices>> BY <1>2 DEF OtherThreads, serviceVars
  <2>2. CASE Serves
    <3>1. alive
      BY <2>2 DEF Serves, Accept, Handles, Press, NotFound, GetPage, SkipRow, StartRow, FinishRow,
         Reply, Restocks, Find, ReadOffset, Erase, ReadLevel, Insert, Note, Truncate, Write, At
    <3> QED BY <2>1, <2>2, <3>1, ServesLeaves, CallsStay DEF PurchaseInv
  <2>3. CASE Environment BY <2>1, <2>3, CallsStay DEF Environment, threadVars
  <2> QED BY <1>2, <2>2, <2>3 DEF OtherThreads
<1>3. CASE Outside
  <2>1. PICK d \in Outsiders : Service!Use(d) BY <1>3, SameUse DEF Outside
  <2>2. \A c \in AllStores : client'[c] = client[c]
    <3>1. Others(d) BY <2>1, UseMoves DEF PurchaseInv, Callers
    <3> QED BY <3>1, StoresOfClients DEF Others, Callers
  <2> QED BY <1>3, <2>2, CallsStay DEF Outside, homeVars, threadVars
<1>4. CASE Exits
  <2>1. UNCHANGED <<client, prices, pc, job, alive>>
    BY <1>4 DEF Exits, Shops!Exit, homeVars, threadVars
  <2> QED BY <2>1, CallsStay
<1>5. ASSUME NEW c \in AllStores \cup Outsiders, Serving(c) PROVE CallsOK' /\ PricesOK'
  BY <1>5, SameServe, ServeLeaves, CallsStay DEF Serving, homeVars, threadVars
<1> QED BY <1>1, <1>2, <1>3, <1>4, <1>5, AtHomeKeeps DEF PurchaseNext

LEMMA PurchaseInvStep ==
    ASSUME PurchaseInv, [PurchaseNext]_marketVars
    PROVE  PurchaseInv'
<1>1. HouseInv' /\ CheapInv'
  <2>1. HouseInv /\ CheapInv /\ [Next]_vars BY StepImplements DEF PurchaseInv
  <2> QED BY <2>1, HouseInvStep, CheapInvStep
<1>2. CASE PurchaseNext BY <1>1, <1>2, ServiceKeeps, CallsKept DEF PurchaseInv
<1>3. CASE UNCHANGED marketVars
  <2>1. CallsOK' /\ PricesOK'
    BY <1>3, CallsStay DEF marketVars, vars, threadVars, serviceVars
  <2> QED BY <1>1, <2>1, ServiceKeeps DEF PurchaseInv
<1> QED BY <1>2, <1>3

LEMMA ServiceInits == ASSUME PurchaseInit PROVE Service!Init
BY DEF PurchaseInit, Shops!Init, Service!Init, Callers, Shops!Closed, Service!Closed, Shops!NoCall,
   Service!NoCall, Shops!NoWorker, Service!NoWorker, Shops!Call, Service!Call

LEMMA PurchaseInvInit == PurchaseInit => PurchaseInv
<1> SUFFICES ASSUME PurchaseInit PROVE PurchaseInv
  OBVIOUS
<1>1. Init /\ Shops!Init /\ prices = <<>> BY DEF PurchaseInit
<1>2. pc["receive"] = "recv" /\ job["receive"] = NoJob /\ NoJob.after = ""
  BY <1>1 DEF Init, Threads, NoJob
<1>3. HouseInv /\ CheapInv BY <1>1, <1>2, InitHouse DEF CheapInv, Comparing
<1>4. Service!Init BY ServiceInits
<1>5. Service!ServiceInv BY <1>4, ServiceAssumed, Service!ServiceInvInit
<1>6. CallsOK BY <1>4, StoresOfClients DEF Service!Init, Service!Closed, CallsOK, CallOK
<1>7. PricesOK
  <2>1. prices \in Seq(Nat)
    <3>1. <<>> \in Seq(Nat) OBVIOUS
    <3> QED BY <1>1, <3>1
  <2>2. pc["receive"] \notin Shopping \cup {"quote", "quoted"} BY <1>2 DEF Shopping
  <2> QED BY <1>1, <2>1, <2>2 DEF PricesOK, Priced
<1> QED BY <1>3, <1>5, <1>6, <1>7 DEF PurchaseInv

(* What the household's thread, its clients and the threads that serve them *)
(* rely on of each other, for any stores and any other households.          *)
THEOREM PurchasesCorrect == PurchaseSpec => []PurchaseInv
<1>1. PurchaseInv /\ [PurchaseNext]_marketVars => PurchaseInv' BY PurchaseInvStep
<1> QED BY <1>1, PurchaseInvInit, PTL DEF PurchaseSpec

(* Connected to stores that others use as well, the server does nothing     *)
(* that Household does not allow: what Server::receive is told is the price *)
(* of the store it asks, and it ends only where it may end there.           *)
THEOREM PurchasesImplementHousehold == PurchaseSpec => Spec
<1>1. PurchaseInit => Init BY DEF PurchaseInit
<1>2. PurchaseInv /\ [PurchaseNext]_marketVars => [Next]_vars BY StepImplements
<1> QED BY <1>1, <1>2, PurchasesCorrect, PTL DEF PurchaseSpec, Spec

-----------------------------------------------------------------------------
(* What the household takes.                                                *)

(* Only the thread that serves a client takes for it, and one at a time.    *)
LEMMA TakenByOne ==
    ASSUME PurchaseInv, PurchaseNext, NEW s \in AllStores, taken'[s] # taken[s]
    PROVE  Shops!Take(s)
<1>1. PICK c \in Callers : Serving(c)
  <2>1. ~UNCHANGED taken OBVIOUS
  <2>2. ~Buying BY <2>1, BuyingUses, UseLeaves
  <2>3. ~Outside BY <2>1, SameUse, UseLeaves DEF Outside
  <2> QED BY <2>1, <2>2, <2>3
          DEF PurchaseNext, AtHome, OtherThreads, Exits, Shops!Exit, serviceVars, Callers
<1>2. CASE Shops!Take(c)
  <2>1. taken' = [taken EXCEPT ![c] = taken[c] + client[c].call.amount] BY <1>2 DEF Shops!Take
  <2>2. s = c BY <2>1
  <2> QED BY <1>2, <2>2
<1>3. CASE ~Shops!Take(c)
  <2>1. UNCHANGED taken
    BY <1>1, <1>3 DEF Serving, Shops!Serve, Shops!process_getPrice, Shops!process_getReceipt,
       Shops!process_order, Shops!Refuse, Shops!Check, Shops!Read, Shops!BeginPush, Shops!Push,
       Shops!BreaksOff
  <2> QED BY <2>1
<1> QED BY <1>2, <1>3

LEMMA TakenStep ==
    ASSUME PurchaseInv, OrderedIsShown, BuysFromCheapest, PurchaseNext,
           NEW s \in AllStores, taken'[s] # taken[s]
    PROVE  LET j == job["receive"]
           IN  /\ pc["receive"] = "bought" /\ s = Cheapest
               /\ taken'[s] = taken[s] + 100 - j.level /\ files[j.item] = <<j.level>>
               /\ taken[s] = told[s]
               /\ \A r \in AllStores : Price[s][j.item] <= Price[r][j.item]
<1>1. PICK j : j = job["receive"] OBVIOUS
<1>2. /\ Shops!Take(s) /\ Service!Take(s)
  BY TakenByOne DEF Shops!Take, Service!Take, Shops!Doing, Service!Doing, Shops!Runs, Service!Runs,
     Shops!Works, Service!Works, Shops!Rest, Service!Rest, Callers
<1>3. s \in Callers /\ Service!PeerOK(s) /\ Service!ShapeOK
  BY StoresOfClients DEF PurchaseInv, Service!ServiceInv
<1>4. worker[s].at = "read" /\ Service!Runs(s) BY <1>2 DEF Service!Take, Service!Doing
<1>5. client[s].at = "waiting" /\ client[s].call.method = "order"
  BY <1>3, <1>4 DEF Service!PeerOK, Service!ConnectionOK, Service!Asks
<1>6. /\ s \in Calling(pc["receive"], j) /\ client[s].call = CallOf(pc["receive"], j)
  BY <1>1, <1>5 DEF PurchaseInv, CallsOK, CallOK
<1>7. pc["receive"] = "bought" /\ s = Cheapest
  BY <1>1, <1>5, <1>6 DEF Calling, CallOf, Shops!Call, Cheapest
<1>8. client[s].call.amount = 100 - j.level
  BY <1>6, <1>7 DEF CallOf, Shops!Call, Missing
<1>9. /\ taken[s] \in Nat /\ told[s] \in Nat /\ j.level \in 0..100 /\ j.cheapest \in 1..Len(StoreList)
  BY <1>1, <1>3, TypedJob, Typed, ZenonT(40) DEF Service!ShapeOK, PurchaseInv
<1>10. taken'[s] = taken[s] + 100 - j.level
  <2>1. taken'[s] = taken[s] + client[s].call.amount BY <1>2, <1>3 DEF Shops!Take, Service!ShapeOK
  <2> QED BY <1>8, <1>9, <2>1
<1>11. taken[s] = told[s]
  <2>1. ~Service!Owed(s) BY <1>4 DEF Service!Owed
  <2>2. taken[s] = told[s] + 0 BY <1>3, <2>1 DEF Service!PeerOK, Service!SalesOK
  <2> QED BY <1>9, <2>2
<1>12. files[j.item] = <<j.level>> BY <1>1, <1>7 DEF OrderedIsShown
<1>13. \A r \in AllStores : Price[s][j.item] <= Price[r][j.item]
  <2>1. \A k \in 1..Len(StoreList) : Price[StoreList[j.cheapest]][j.item] <= Price[StoreList[k]][j.item]
    BY <1>1, <1>7 DEF BuysFromCheapest
  <2>2. \A r \in AllStores : \E k \in 1..Len(StoreList) : r = StoreList[k]
    BY HouseholdAssumption DEF AllStores, Range
  <2> QED BY <1>1, <1>7, <2>1, <2>2 DEF Cheapest
<1> QED BY <1>1, <1>7, <1>10, <1>11, <1>12, <1>13

(* Where nobody presses a button, stock leaves a store for the household    *)
(* only as what is missing from a full item, once, at a store that no store *)
(* undercuts, whatever the other households do.                             *)
THEOREM TakenCorrect == ASSUME NoButtons PROVE PurchaseSpec => TakenIsMissing
<1> DEFINE A == \A s \in AllStores :
                    taken'[s] # taken[s] =>
                        LET j == job["receive"]
                        IN  /\ pc["receive"] = "bought" /\ s = Cheapest
                            /\ taken'[s] = taken[s] + 100 - j.level /\ files[j.item] = <<j.level>>
                            /\ taken[s] = told[s]
                            /\ \A r \in AllStores : Price[s][j.item] <= Price[r][j.item]
<1>1. PurchaseInv /\ OrderedIsShown /\ BuysFromCheapest /\ [PurchaseNext]_marketVars => [A]_marketVars
  BY TakenStep
<1>2. PurchaseSpec => [](OrderedIsShown /\ BuysFromCheapest)
  BY PurchasesImplementHousehold, OrderedLevel, CheapestCorrect, PTL
<1>3. ([][A]_marketVars) => TakenIsMissing BY DEF TakenIsMissing
<1> HIDE DEF A
<1> QED BY <1>1, <1>2, <1>3, PurchasesCorrect, PTL DEF PurchaseSpec

-----------------------------------------------------------------------------
LEMMA PurchasesBooks == PurchaseSpec => []Service!BooksInv
<1>1. PurchaseInit => Service!ServiceInv /\ Service!BooksInv
  BY ServiceInits, ServiceAssumed, Service!ServiceInvInit, Service!BooksInvInit
<1>2. PurchaseInv /\ PurchaseInv' /\ Service!BooksInv /\ [PurchaseNext]_marketVars => Service!BooksInv'
  BY ServiceMoves, ServiceAssumed, Service!BooksInvStep DEF PurchaseInv
<1> QED BY <1>1, <1>2, PurchasesCorrect, PTL DEF PurchaseSpec

(* A store the household and others buy from accounts for every unit of its *)
(* stock, as long as no two orders have met there.                          *)
THEOREM PurchasesBalance == PurchaseSpec => []Service!BooksBalance
<1>1. Service!BooksInv => Service!BooksBalance
  BY DEF Service!BooksInv, Service!BooksOK, Service!Balanced, Service!BooksBalance
<1> QED BY <1>1, PurchasesBooks, PTL

(* To the household and the others a store is a counter that sells in one   *)
(* step, as long as no two orders have met there.                           *)
THEOREM PurchasesUseCounters == PurchaseSpec => Service!ImplementsCounter
<1>1. PurchaseInit => Service!Promise!Init BY ServiceInits, ServiceAssumed, Service!CounterInit
<1>2. PurchaseInv /\ Service!BooksInv /\ [PurchaseNext]_marketVars =>
          [Service!Promise!Next]_(Service!Promise!vars)
  BY ServiceMoves, ServiceAssumed, Service!CounterStep DEF PurchaseInv
<1> QED BY <1>1, <1>2, PurchasesCorrect, PurchasesBooks, PTL
        DEF PurchaseSpec, Service!ImplementsCounter, Service!Promise!Spec

=============================================================================
