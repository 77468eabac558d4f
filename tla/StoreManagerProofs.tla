------------------------- MODULE StoreManagerProofs -------------------------
(***************************************************************************)
(* What a store keeps true whatever the clients of the broker send it and  *)
(* however its two threads interleave, for any number of stores and items, *)
(* any prices, and any bounds.                                             *)
(***************************************************************************)
EXTENDS StoreManager, TLAPS

(* The inductive invariant: the properties, and what the threads hold.      *)
StoreInv == StoreTypeOK /\ StockCap /\ OrderWithinLimit /\ Registers

LEMMA RangeItems == \A k \in 1..Len(ItemOrder) : ItemOrder[k] \in Items
  BY StoreAssumption, TradeAssumption DEF Items, Range

LEMMA SomeItems == Len(ItemOrder) \in Nat \ {0}
  BY TradeAssumption

(* A floor division does not fall when its dividend grows.                  *)
LEMMA DivMonotone ==
  ASSUME NEW a \in Nat, NEW b \in Nat, NEW d \in Nat \ {0}, a <= b
  PROVE  /\ a \div d \in Nat /\ b \div d \in Nat
         /\ a \div d <= b \div d
  OBVIOUS

LEMMA TimesMonotone ==
  ASSUME NEW a \in Nat, NEW b \in Nat, NEW c \in Nat, a <= b
  PROVE  a * c \in Nat /\ b * c \in Nat /\ a * c <= b * c
  OBVIOUS

-----------------------------------------------------------------------------
LEMMA InitInv == StoreInit => StoreInv
  <1> SUFFICES ASSUME StoreInit PROVE StoreInv
    OBVIOUS
  <1> USE StoreAssumption, TradeAssumption DEF StoreInit
  <1>1. StoreTypeOK
    BY DEF StoreTypeOK, Payloads, NoPayload, Positions, Kinds, NoMessage, Idle
  <1>2. StockCap
    BY DEF StockCap, NoPayload
  <1>3. OrderWithinLimit
    BY DEF OrderWithinLimit, NoPayload
  <1>4. Registers
    BY DEF Registers, SaleInHand, TrimInHand, RestockInHand, Idle
  <1>5. QED
    BY <1>1, <1>2, <1>3, <1>4 DEF StoreInv

(* Steps that leave the stock, the open order and the registers alone.      *)
LEMMA LoopInv ==
  ASSUME StoreInv, NEW s \in Stores,
         EnterLoop(s) \/ LeaveLoop(s) \/ Exit(s) \/ StopLoop(s)
  PROVE  StoreInv'
  <1>1. /\ UNCHANGED <<itemStock, demandCount, activeOrder, ordersReceived,
                       cursor, handling, seen, rpc>>
        /\ stop' \in {stop, [stop EXCEPT ![s] = TRUE]}
        /\ at' \in {at, [at EXCEPT ![s] = "loop"], [at EXCEPT ![s] = "sweep"],
                    [t \in Stores |-> "exited"]}
    BY DEF EnterLoop, LeaveLoop, Exit, StopLoop, loopVars
  <1>2. StoreTypeOK'
    <2>1. at' \in [Stores -> Positions]
      <3>1. at \in [Stores -> Positions]
        BY DEF StoreInv, StoreTypeOK
      <3>2. "loop" \in Positions /\ "sweep" \in Positions /\ "exited" \in Positions
        BY DEF Positions
      <3>3. QED
        BY <1>1, <3>1, <3>2
    <2>2. stop' \in [Stores -> BOOLEAN]
      <3>1. stop \in [Stores -> BOOLEAN]
        BY DEF StoreInv, StoreTypeOK
      <3>2. QED
        BY <1>1, <3>1
    <2>3. QED
      BY <1>1, <2>1, <2>2 DEF StoreInv, StoreTypeOK
  <1>3. StockCap' /\ OrderWithinLimit'
    BY <1>1 DEF StoreInv, StockCap, OrderWithinLimit, Limit
  <1>4. Registers'
    <2> SUFFICES ASSUME NEW t \in Stores
                 PROVE  SaleInHand(t)' /\ TrimInHand(t)' /\ RestockInHand(t)'
      BY DEF Registers
    <2>1. SaleInHand(t) /\ TrimInHand(t) /\ RestockInHand(t)
      BY DEF StoreInv, Registers
    <2>2. at'[t] \in {"trim", "restock"} => at'[t] = at[t]
      <3>1. at \in [Stores -> Positions]
        BY DEF StoreInv, StoreTypeOK
      <3>2. QED
        BY <1>1, <3>1
    <2>3. SaleInHand(t)'
      BY <1>1, <2>1 DEF SaleInHand
    <2>4. TrimInHand(t)'
      BY <1>1, <2>1, <2>2 DEF TrimInHand, Limit
    <2>5. RestockInHand(t)'
      BY <1>1, <2>1, <2>2 DEF RestockInHand, isActiveOrder
    <2>6. QED
      BY <2>3, <2>4, <2>5
  <1>5. QED
    BY <1>2, <1>3, <1>4 DEF StoreInv

(* A sweep that counts an item raises what the store is ready to pay.       *)
LEMMA LimitRises ==
  ASSUME StoreTypeOK, NEW s \in Stores, NEW t \in Stores, NEW i \in Items,
         demandCount' \in [Stores -> [Items -> Nat]],
         demandCount[t][i] <= demandCount'[t][i]
  PROVE  Limit(t, i) \in Nat /\ Limit(t, i)' \in Nat /\ Limit(t, i) <= Limit(t, i)'
  <1> DEFINE a == demandCount[t][i]
             b == demandCount'[t][i]
  <1>1. a \in Nat /\ b \in Nat /\ a <= b
    BY DEF StoreTypeOK
  <1>2. /\ a \div OFFER_DELAY \in Nat /\ b \div OFFER_DELAY \in Nat
        /\ a \div OFFER_DELAY <= b \div OFFER_DELAY
    BY <1>1, DivMonotone, StoreAssumption
  <1> DEFINE x == a \div OFFER_DELAY
             y == b \div OFFER_DELAY
  <1>3. /\ x * PRICE_INCREASE \in Nat /\ y * PRICE_INCREASE \in Nat
        /\ x * PRICE_INCREASE <= y * PRICE_INCREASE
    <2> HIDE DEF x, y
    <2>1. x \in Nat /\ y \in Nat /\ x <= y
      BY <1>2 DEF x, y
    <2>2. QED
      BY <2>1, TimesMonotone, StoreAssumption
  <1>4. itemPrices[t][i] \div 2 \in Nat
    BY StoreAssumption
  <1> DEFINE base == itemPrices[t][i] \div 2
             less == x * PRICE_INCREASE
             more == y * PRICE_INCREASE
  <1>5. Limit(t, i) = base + less /\ Limit(t, i)' = base + more
    BY DEF Limit
  <1> HIDE DEF base, less, more
  <1>6. QED
    BY <1>3, <1>4, <1>5 DEF base, less, more

LEMMA SweepInv ==
  ASSUME StoreInv, NEW s \in Stores, PassItem(s) \/ CountItem(s)
  PROVE  StoreInv'
  <1> DEFINE i == ItemOrder[cursor[s]]
  <1>1. i \in Items
    BY RangeItems DEF StoreInv, StoreTypeOK
  <1>2. /\ UNCHANGED <<itemStock, activeOrder, ordersReceived, stop, handling, seen, rpc>>
        /\ at[s] = "sweep"
    BY DEF PassItem, CountItem, NextItem
  <1>3. at' \in [Stores -> Positions] /\ cursor' \in [Stores -> 1..Len(ItemOrder)]
    <2>1. at \in [Stores -> Positions] /\ cursor \in [Stores -> 1..Len(ItemOrder)]
      BY DEF StoreInv, StoreTypeOK
    <2>2. NextItem(s)
      BY DEF PassItem, CountItem
    <2>3. at' \in [Stores -> Positions]
      BY <2>1, <2>2 DEF NextItem, LastItem, Positions
    <2>4. cursor' \in [Stores -> 1..Len(ItemOrder)]
      BY <2>1, <2>2, SomeItems DEF NextItem, LastItem
    <2>5. QED
      BY <2>3, <2>4
  <1>4. \A t \in Stores : at'[t] \in {"trim", "restock"} => at'[t] = at[t]
    BY <1>2, SMTT(40) DEF PassItem, CountItem, NextItem, LastItem, StoreInv, StoreTypeOK
  <1>5. /\ demandCount' \in [Stores -> [Items -> Nat]]
        /\ \A t \in Stores, j \in Items : demandCount[t][j] <= demandCount'[t][j]
    <2>0. demandCount \in [Stores -> [Items -> Nat]]
      BY DEF StoreInv, StoreTypeOK
    <2>1. CASE UNCHANGED demandCount
      BY <2>0, <2>1
    <2>2. CASE demandCount' = [demandCount EXCEPT ![s][i] = @ + 1]
      <3> HIDE DEF i
      <3>1. demandCount' \in [Stores -> [Items -> Nat]]
        BY <2>0, <2>2, <1>1
      <3>2. ASSUME NEW t \in Stores, NEW j \in Items
            PROVE  demandCount[t][j] <= demandCount'[t][j]
        BY <2>0, <2>2, <1>1
      <3>3. QED
        BY <3>1, <3>2
    <2>3. QED
      BY <2>1, <2>2 DEF PassItem, CountItem
  <1>6. \A t \in Stores, j \in Items :
           Limit(t, j) \in Nat /\ Limit(t, j)' \in Nat /\ Limit(t, j) <= Limit(t, j)'
    BY <1>5, LimitRises DEF StoreInv
  <1>7. StoreTypeOK'
    BY <1>2, <1>3, <1>5 DEF StoreInv, StoreTypeOK
  <1>8. StockCap'
    BY <1>2 DEF StoreInv, StockCap
  <1>9. OrderWithinLimit'
    <2> SUFFICES ASSUME NEW t \in Stores, NEW j \in Items, activeOrder[t].item = j
                 PROVE  activeOrder[t].price <= Limit(t, j)'
      BY <1>2 DEF OrderWithinLimit
    <2>1. activeOrder[t].price <= Limit(t, j) /\ activeOrder[t].price \in Nat
      BY DEF StoreInv, OrderWithinLimit, StoreTypeOK, Payloads
    <2>2. QED
      BY <2>1, <1>6
  <1>10. Registers'
    <2> SUFFICES ASSUME NEW t \in Stores
                 PROVE  SaleInHand(t)' /\ TrimInHand(t)' /\ RestockInHand(t)'
      BY DEF Registers
    <2>1. SaleInHand(t) /\ TrimInHand(t) /\ RestockInHand(t)
      BY DEF StoreInv, Registers
    <2>2. SaleInHand(t)'
      BY <1>2, <2>1 DEF SaleInHand
    <2>3. TrimInHand(t)'
      <3>1. CASE at'[t] = "trim"
        <4>1. handling[t].item \in Items /\ handling[t].price <= Limit(t, handling[t].item)
          BY <1>4, <2>1, <3>1 DEF TrimInHand
        <4>2. PICK h \in Items : h = handling[t].item
          BY <4>1
        <4>3. handling[t].price \in Nat
          BY DEF StoreInv, StoreTypeOK
        <4>4. handling[t].price <= Limit(t, h)'
          BY <1>6, <4>1, <4>2, <4>3
        <4>5. QED
          BY <1>2, <4>2, <4>4 DEF TrimInHand
      <3>2. QED
        BY <3>1 DEF TrimInHand
    <2>4. RestockInHand(t)'
      BY <1>2, <1>4, <2>1 DEF RestockInHand, isActiveOrder
    <2>5. QED
      BY <2>2, <2>3, <2>4
  <1>11. QED
    BY <1>7, <1>8, <1>9, <1>10 DEF StoreInv

-----------------------------------------------------------------------------
(* The handler.                                                             *)

LEMMA IgnoreInv ==
  ASSUME StoreInv, NEW s \in Stores, NEW m \in Message,
         IgnoreOffer(s, m) \/ IgnoreConfirm(s, m)
  PROVE  StoreInv'
  <1>1. /\ UNCHANGED <<itemStock, demandCount, activeOrder, ordersReceived, stop,
                       cursor, handling, seen, rpc>>
        /\ at' = [at EXCEPT ![s] = "served"]
    BY DEF IgnoreOffer, IgnoreConfirm, Served
  <1>2. StoreTypeOK'
    BY <1>1 DEF StoreInv, StoreTypeOK, Positions
  <1>3. StockCap'
    BY <1>1 DEF StoreInv, StockCap
  <1>4. OrderWithinLimit'
    BY <1>1 DEF StoreInv, OrderWithinLimit, Limit
  <1>5. Registers'
    <2> SUFFICES ASSUME NEW t \in Stores
                 PROVE  SaleInHand(t)' /\ TrimInHand(t)' /\ RestockInHand(t)'
      BY DEF Registers
    <2>1. SaleInHand(t) /\ TrimInHand(t) /\ RestockInHand(t)
      BY DEF StoreInv, Registers
    <2>2. at'[t] \in {"trim", "restock"} => at'[t] = at[t]
      BY <1>1 DEF StoreInv, StoreTypeOK
    <2>3. SaleInHand(t)'
      BY <1>1, <2>1 DEF SaleInHand
    <2>4. TrimInHand(t)' /\ RestockInHand(t)'
      BY <1>1, <2>1, <2>2 DEF TrimInHand, RestockInHand, Limit, isActiveOrder
    <2>5. QED
      BY <2>3, <2>4
  <1>6. QED
    BY <1>2, <1>3, <1>4, <1>5 DEF StoreInv

(* An order that fits the room there is and the limit of its item.          *)
LEMMA PlaceInv ==
  ASSUME StoreInv, NEW s \in Stores, NEW order \in Message, NEW sent \in BOOLEAN,
         at[s] \in {"loop", "served", "trim"},
         Remember(s, order, sent), Served(s),
         order.amount <= INITIAL_STOCK - itemStock[s][order.item],
         order.price <= Limit(s, order.item),
         handling' \in {handling, [handling EXCEPT ![s] = NoMessage]}, UNCHANGED seen
  PROVE  StoreInv'
  <1>1. /\ UNCHANGED <<itemStock, demandCount, ordersReceived, stop, cursor, seen, rpc>>
        /\ at' = [at EXCEPT ![s] = "served"]
    BY DEF Served
  <1>2. /\ order.item \in Items /\ order.price \in Nat /\ order.amount \in Nat
        /\ activeOrder' \in {activeOrder, [activeOrder EXCEPT ![s] = Payload(order)]}
    BY DEF Message, Remember
  <1>3. StoreTypeOK'
    <2>1. activeOrder' \in [Stores -> Payloads]
      <3>1. Payload(order) \in Payloads
        BY <1>2 DEF Payload, Payloads
      <3>2. activeOrder \in [Stores -> Payloads]
        BY DEF StoreInv, StoreTypeOK
      <3>3. QED
        BY <1>2, <3>1, <3>2
    <2>2. at' \in [Stores -> Positions]
      BY <1>1 DEF StoreInv, StoreTypeOK, Positions
    <2>3. handling' \in [Stores -> [kind : Kinds, item : Items \cup {NoItem},
                                    price : Nat, amount : Nat]]
      <3>1. NoMessage \in [kind : Kinds, item : Items \cup {NoItem}, price : Nat, amount : Nat]
        BY DEF NoMessage, Kinds
      <3>2. QED
        BY <3>1 DEF StoreInv, StoreTypeOK
    <2>4. QED
      BY <1>1, <2>1, <2>2, <2>3 DEF StoreInv, StoreTypeOK
  <1>4. StockCap'
    <2> SUFFICES ASSUME NEW t \in Stores, NEW i \in Items
                 PROVE  /\ itemStock[t][i] <= INITIAL_STOCK
                        /\ activeOrder'[t].item = i =>
                              itemStock[t][i] + activeOrder'[t].amount <= INITIAL_STOCK
      BY <1>1 DEF StockCap
    <2>1. /\ itemStock[t][i] <= INITIAL_STOCK
          /\ activeOrder[t].item = i =>
                itemStock[t][i] + activeOrder[t].amount <= INITIAL_STOCK
      BY DEF StoreInv, StockCap
    <2>2. activeOrder'[t] = activeOrder[t] \/ (t = s /\ activeOrder'[t] = Payload(order))
      BY <1>2 DEF StoreInv, StoreTypeOK
    <2>3. CASE t = s /\ activeOrder'[t] = Payload(order)
      <3>1. itemStock[t][i] \in Nat /\ INITIAL_STOCK \in Nat
        BY StoreAssumption DEF StoreInv, StoreTypeOK
      <3>2. QED
        BY <1>2, <2>1, <2>3, <3>1 DEF Payload
    <2>4. QED
      BY <2>1, <2>2, <2>3
  <1>5. OrderWithinLimit'
    <2> SUFFICES ASSUME NEW t \in Stores, NEW i \in Items, activeOrder'[t].item = i
                 PROVE  activeOrder'[t].price <= Limit(t, i)
      BY <1>1 DEF OrderWithinLimit, Limit
    <2>1. activeOrder[t].item = i => activeOrder[t].price <= Limit(t, i)
      BY DEF StoreInv, OrderWithinLimit
    <2>2. activeOrder'[t] = activeOrder[t] \/ (t = s /\ activeOrder'[t] = Payload(order))
      BY <1>2 DEF StoreInv, StoreTypeOK
    <2>3. QED
      BY <2>1, <2>2 DEF Payload
  <1>6. Registers'
    <2> SUFFICES ASSUME NEW t \in Stores
                 PROVE  SaleInHand(t)' /\ TrimInHand(t)' /\ RestockInHand(t)'
      BY DEF Registers
    <2>1. SaleInHand(t) /\ TrimInHand(t) /\ RestockInHand(t)
      BY DEF StoreInv, Registers
    <2>2. SaleInHand(t)'
      BY <1>1, <2>1 DEF SaleInHand
    <2>3. CASE t = s
      <3>1. at'[t] = "served"
        BY <1>1, <2>3 DEF StoreInv, StoreTypeOK
      <3>2. QED
        BY <2>2, <3>1 DEF TrimInHand, RestockInHand
    <2>4. CASE t # s
      <3>1. /\ at'[t] = at[t] /\ handling'[t] = handling[t]
            /\ activeOrder'[t] = activeOrder[t]
        BY <1>1, <1>2, <2>4 DEF StoreInv, StoreTypeOK
      <3>2. TrimInHand(t)' /\ RestockInHand(t)'
        BY <1>1, <2>1, <3>1 DEF TrimInHand, RestockInHand, Limit, isActiveOrder
      <3>3. QED
        BY <2>2, <3>2
    <2>5. QED
      BY <2>3, <2>4
  <1>7. QED
    BY <1>3, <1>4, <1>5, <1>6 DEF StoreInv

LEMMA OrderOfferInv ==
  ASSUME StoreInv, NEW s \in Stores, NEW m \in Message, NEW sent \in BOOLEAN,
         OrderOffer(s, m, sent)
  PROVE  StoreInv'
  <1> DEFINE order == OrderFor(m, m.amount)
  <1>1. /\ order \in Message /\ order.item = m.item
        /\ order.price = m.price /\ order.amount = m.amount
    BY DEF OrderFor, Message, Kinds
  <1>2. /\ at[s] \in {"loop", "served", "trim"}
        /\ Remember(s, order, sent) /\ Served(s) /\ UNCHANGED <<handling, seen>>
    BY DEF OrderOffer, InLoop
  <1>3. m.amount <= INITIAL_STOCK - itemStock[s][m.item] /\ m.price <= Limit(s, m.item)
    BY DEF OrderOffer, Wanted
  <1> HIDE DEF order
  <1>4. QED
    BY <1>1, <1>2, <1>3, PlaceInv

(* The order for a trimmed offer: what fits, at the price of the offer.     *)
LEMMA TrimmedOrder ==
  ASSUME StoreInv, NEW s \in Stores, at[s] = "trim"
  PROVE  /\ OrderFor(handling[s], Room(s)) \in Message
         /\ handling[s].item \in Items
         /\ Room(s) = INITIAL_STOCK - itemStock[s][handling[s].item]
         /\ handling[s].price <= Limit(s, handling[s].item)
  <1> DEFINE m == handling[s]
  <1>1. m.item \in Items /\ m.price <= Limit(s, m.item)
    BY DEF StoreInv, Registers, TrimInHand
  <1>2. m \in Message
    BY <1>1 DEF StoreInv, StoreTypeOK, Message
  <1>3. itemStock[s][m.item] \in Nat /\ INITIAL_STOCK \in Nat
        /\ itemStock[s][m.item] <= INITIAL_STOCK
    BY <1>1, StoreAssumption DEF StoreInv, StoreTypeOK, StockCap
  <1>4. Room(s) \in Nat
    BY <1>3 DEF Room
  <1>5. OrderFor(m, Room(s)) \in Message
    BY <1>2, <1>4 DEF OrderFor, Message, Kinds
  <1>6. QED
    BY <1>1, <1>5 DEF Room

LEMMA OrderTrimmedInv ==
  ASSUME StoreInv, NEW s \in Stores, NEW sent \in BOOLEAN, OrderTrimmed(s, sent)
  PROVE  StoreInv'
  <1> DEFINE m == handling[s]
             order == OrderFor(m, Room(s))
  <1>1. at[s] = "trim"
    BY DEF OrderTrimmed
  <1>2. /\ order \in Message /\ m.item \in Items /\ m.price <= Limit(s, m.item)
        /\ Room(s) = INITIAL_STOCK - itemStock[s][m.item]
    BY <1>1, TrimmedOrder
  <1>3. order.item = m.item /\ order.price = m.price /\ order.amount = Room(s)
    <2>1. m \in [kind : Kinds, item : Items \cup {NoItem}, price : Nat, amount : Nat]
      BY DEF StoreInv, StoreTypeOK
    <2>2. QED
      BY <2>1 DEF OrderFor
  <1>4. order.amount \in Nat /\ INITIAL_STOCK - itemStock[s][m.item] \in Int
    BY <1>2, <1>3 DEF Message
  <1>5. /\ Remember(s, order, sent) /\ Served(s) /\ UNCHANGED seen
        /\ handling' \in {handling, [handling EXCEPT ![s] = NoMessage]}
    BY DEF OrderTrimmed
  <1> HIDE DEF order
  <1>6. order.amount <= INITIAL_STOCK - itemStock[s][order.item]
    BY <1>2, <1>3, <1>4
  <1>7. QED
    BY <1>1, <1>2, <1>3, <1>5, <1>6, PlaceInv

(* Picking a message up: the room or the stock is read, nothing is written. *)
LEMMA TrimOfferInv ==
  ASSUME StoreInv, NEW s \in Stores, NEW m \in Message, TrimOffer(s, m)
  PROVE  StoreInv'
  <1>1. /\ UNCHANGED <<itemStock, demandCount, activeOrder, ordersReceived, stop,
                       cursor, seen, rpc>>
        /\ at' = [at EXCEPT ![s] = "trim"] /\ handling' = [handling EXCEPT ![s] = m]
        /\ m.price <= Limit(s, m.item)
    BY DEF TrimOffer, Wanted
  <1>2. StoreTypeOK'
    BY <1>1 DEF StoreInv, StoreTypeOK, Positions, Message
  <1>3. StockCap' /\ OrderWithinLimit'
    BY <1>1 DEF StoreInv, StockCap, OrderWithinLimit, Limit
  <1>4. Registers'
    <2> SUFFICES ASSUME NEW t \in Stores
                 PROVE  SaleInHand(t)' /\ TrimInHand(t)' /\ RestockInHand(t)'
      BY DEF Registers
    <2>1. SaleInHand(t) /\ TrimInHand(t) /\ RestockInHand(t)
      BY DEF StoreInv, Registers
    <2>2. CASE t = s
      <3>1. at'[s] = "trim" /\ handling'[s] = m /\ m.item \in Items
        BY <1>1 DEF StoreInv, StoreTypeOK, Message
      <3>2. SaleInHand(s)' /\ RestockInHand(s)'
        BY <1>1, <2>1, <2>2, <3>1 DEF SaleInHand, RestockInHand
      <3>3. TrimInHand(s)'
        BY <1>1, <3>1 DEF TrimInHand, Limit
      <3>4. QED
        BY <2>2, <3>2, <3>3
    <2>3. CASE t # s
      <3>1. at'[t] = at[t] /\ handling'[t] = handling[t]
        BY <1>1, <2>3 DEF StoreInv, StoreTypeOK
      <3>2. QED
        BY <1>1, <2>1, <3>1
        DEF SaleInHand, TrimInHand, RestockInHand, Limit, isActiveOrder
    <2>4. QED
      BY <2>2, <2>3
  <1>5. QED
    BY <1>2, <1>3, <1>4 DEF StoreInv

LEMMA ReadRestockInv ==
  ASSUME StoreInv, NEW s \in Stores, NEW m \in Message, ReadRestock(s, m)
  PROVE  StoreInv'
  <1>1. /\ UNCHANGED <<itemStock, demandCount, activeOrder, ordersReceived, stop, cursor, rpc>>
        /\ at' = [at EXCEPT ![s] = "restock"] /\ handling' = [handling EXCEPT ![s] = m]
        /\ seen' = [seen EXCEPT ![s] = itemStock[s][m.item]]
        /\ activeOrder[s] = Payload(m)
    BY DEF ReadRestock, isActiveOrder
  <1>2. m.item \in Items /\ itemStock[s][m.item] \in Nat
    BY DEF StoreInv, StoreTypeOK, Message
  <1>3. StoreTypeOK'
    BY <1>1, <1>2 DEF StoreInv, StoreTypeOK, Positions, Message
  <1>4. StockCap' /\ OrderWithinLimit'
    BY <1>1 DEF StoreInv, StockCap, OrderWithinLimit, Limit
  <1>5. Registers'
    <2> SUFFICES ASSUME NEW t \in Stores
                 PROVE  SaleInHand(t)' /\ TrimInHand(t)' /\ RestockInHand(t)'
      BY DEF Registers
    <2>1. SaleInHand(t) /\ TrimInHand(t) /\ RestockInHand(t)
      BY DEF StoreInv, Registers
    <2>2. CASE t = s
      <3>1. at'[s] = "restock" /\ handling'[s] = m /\ seen'[s] = itemStock[s][m.item]
        BY <1>1 DEF StoreInv, StoreTypeOK
      <3>2. SaleInHand(s)' /\ TrimInHand(s)'
        BY <1>1, <2>1, <2>2, <3>1 DEF SaleInHand, TrimInHand
      <3>3. itemStock[s][m.item] + m.amount <= INITIAL_STOCK
        BY <1>1, <1>2 DEF StoreInv, StockCap, Payload
      <3>4. RestockInHand(s)'
        BY <1>1, <1>2, <3>1, <3>3 DEF RestockInHand, isActiveOrder
      <3>5. QED
        BY <2>2, <3>2, <3>4
    <2>3. CASE t # s
      <3>1. at'[t] = at[t] /\ handling'[t] = handling[t] /\ seen'[t] = seen[t]
        BY <1>1, <2>3 DEF StoreInv, StoreTypeOK
      <3>2. QED
        BY <1>1, <2>1, <3>1
        DEF SaleInHand, TrimInHand, RestockInHand, Limit, isActiveOrder
    <2>4. QED
      BY <2>2, <2>3
  <1>6. QED
    BY <1>3, <1>4, <1>5 DEF StoreInv

(* The delivery that was ordered is booked: the order fitted, and sales in  *)
(* between have only made room.                                             *)
LEMMA WriteRestockInv ==
  ASSUME StoreInv, NEW s \in Stores, WriteRestock(s)
  PROVE  StoreInv'
  <1> DEFINE i == handling[s].item
             full == seen[s] + handling[s].amount
  <1>1. /\ i \in Items /\ full <= INITIAL_STOCK /\ itemStock[s][i] <= seen[s]
        /\ seen[s] \in Nat /\ handling[s].amount \in Nat /\ itemStock[s][i] \in Nat
    <2>1. RestockInHand(s) /\ at[s] = "restock"
      BY DEF WriteRestock, StoreInv, Registers
    <2>2. i \in Items /\ full <= INITIAL_STOCK /\ itemStock[s][i] <= seen[s]
      BY <2>1 DEF RestockInHand
    <2>3. seen[s] \in Nat /\ handling[s].amount \in Nat
      BY DEF StoreInv, StoreTypeOK
    <2>4. itemStock[s][i] \in Nat
      BY <2>2 DEF StoreInv, StoreTypeOK
    <2>5. QED
      BY <2>2, <2>3, <2>4
  <1>2. full \in Nat /\ itemStock[s][i] <= full
    BY <1>1
  <1>3. /\ itemStock' = [itemStock EXCEPT ![s][i] = full]
        /\ demandCount' = [demandCount EXCEPT ![s][i] = 0]
        /\ activeOrder' = [activeOrder EXCEPT ![s].item = NoItem]
        /\ at' = [at EXCEPT ![s] = "served"]
        /\ handling' = [handling EXCEPT ![s] = NoMessage]
        /\ seen' = [seen EXCEPT ![s] = 0]
        /\ UNCHANGED <<ordersReceived, stop, cursor, rpc>>
    BY DEF WriteRestock, ResetDemand, CloseOrder
  <1> HIDE DEF i, full
  <1>4. /\ itemStock' \in [Stores -> [Items -> Nat]]
        /\ \A t \in Stores, j \in Items :
              itemStock'[t][j] = IF t = s /\ j = i THEN full ELSE itemStock[t][j]
    BY <1>1, <1>2, <1>3 DEF StoreInv, StoreTypeOK
  <1>5. /\ demandCount' \in [Stores -> [Items -> Nat]]
        /\ \A t \in Stores : t # s => demandCount'[t] = demandCount[t]
    BY <1>1, <1>3 DEF StoreInv, StoreTypeOK
  <1>6. /\ activeOrder' \in [Stores -> Payloads]
        /\ activeOrder'[s].item = NoItem
        /\ \A t \in Stores : t # s => activeOrder'[t] = activeOrder[t]
    BY <1>3, ZenonT(40) DEF StoreInv, StoreTypeOK, Payloads
  <1>7. /\ at'[s] = "served"
        /\ \A t \in Stores : t # s => /\ at'[t] = at[t] /\ handling'[t] = handling[t]
                                      /\ seen'[t] = seen[t]
    BY <1>3 DEF StoreInv, StoreTypeOK
  <1>8. StoreTypeOK'
    <2>1. at' \in [Stores -> Positions] /\ seen' \in [Stores -> Nat]
      BY <1>3 DEF StoreInv, StoreTypeOK, Positions
    <2>2. handling' \in [Stores -> [kind : Kinds, item : Items \cup {NoItem},
                                    price : Nat, amount : Nat]]
      BY <1>3 DEF StoreInv, StoreTypeOK, NoMessage, Kinds
    <2>3. QED
      BY <1>3, <1>4, <1>5, <1>6, <2>1, <2>2 DEF StoreInv, StoreTypeOK
  <1>9. StockCap'
    <2> SUFFICES ASSUME NEW t \in Stores, NEW j \in Items
                 PROVE  /\ itemStock'[t][j] <= INITIAL_STOCK
                        /\ activeOrder'[t].item = j =>
                              itemStock'[t][j] + activeOrder'[t].amount <= INITIAL_STOCK
      BY DEF StockCap
    <2>1. /\ itemStock[t][j] <= INITIAL_STOCK
          /\ activeOrder[t].item = j =>
                itemStock[t][j] + activeOrder[t].amount <= INITIAL_STOCK
      BY DEF StoreInv, StockCap
    <2>2. full <= INITIAL_STOCK
      BY <1>1 DEF full
    <2>3. CASE t = s
      BY <1>4, <1>6, <2>1, <2>2, <2>3, TradeAssumption
    <2>4. CASE t # s
      BY <1>4, <1>6, <2>1, <2>4
    <2>5. QED
      BY <2>3, <2>4
  <1>10. OrderWithinLimit'
    <2> SUFFICES ASSUME NEW t \in Stores, NEW j \in Items, activeOrder'[t].item = j
                 PROVE  activeOrder'[t].price <= Limit(t, j)'
      BY DEF OrderWithinLimit
    <2>1. t # s
      BY <1>6, TradeAssumption
    <2>2. activeOrder[t].price <= Limit(t, j)
      BY <1>6, <2>1 DEF StoreInv, OrderWithinLimit
    <2>3. Limit(t, j)' = Limit(t, j)
      BY <1>5, <2>1 DEF Limit
    <2>4. QED
      BY <1>6, <2>1, <2>2, <2>3
  <1>11. Registers'
    <2> SUFFICES ASSUME NEW t \in Stores
                 PROVE  SaleInHand(t)' /\ TrimInHand(t)' /\ RestockInHand(t)'
      BY DEF Registers
    <2>1. SaleInHand(t) /\ TrimInHand(t) /\ RestockInHand(t)
      BY DEF StoreInv, Registers
    <2>2. SaleInHand(t)'
      <3>1. \A j \in Items : /\ itemStock[t][j] \in Nat /\ itemStock'[t][j] \in Nat
                             /\ itemStock[t][j] <= itemStock'[t][j]
        <4> TAKE j \in Items
        <4>1. itemStock[t][j] \in Nat /\ itemStock'[t][j] \in Nat
          BY <1>4 DEF StoreInv, StoreTypeOK
        <4>2. CASE t = s /\ j = i
          BY <1>2, <1>4, <4>1, <4>2
        <4>3. CASE ~(t = s /\ j = i)
          BY <1>4, <4>1, <4>3
        <4>4. QED
          BY <4>2, <4>3
      <3>2. rpc[t].amount \in Nat /\ rpc[t].seen \in Nat
        BY DEF StoreInv, StoreTypeOK
      <3>3. CASE rpc[t].step = "idle"
        BY <1>3, <2>1, <3>3 DEF SaleInHand
      <3>4. CASE rpc[t].step # "idle"
        <4>1. /\ rpc[t].item \in Items /\ rpc[t].amount > 0
              /\ itemStock[t][rpc[t].item] >= rpc[t].amount
          BY <2>1, <3>4 DEF SaleInHand
        <4>2. PICK j \in Items : j = rpc[t].item
          BY <4>1
        <4>3. itemStock'[t][j] >= rpc[t].amount
          BY <3>1, <3>2, <4>1, <4>2
        <4>4. rpc[t].step = "read" => /\ rpc[t].seen >= rpc[t].amount
                                      /\ rpc[t].seen <= itemStock'[t][j]
          BY <2>1, <3>1, <3>2, <4>2 DEF SaleInHand
        <4>5. QED
          BY <1>3, <4>1, <4>2, <4>3, <4>4 DEF SaleInHand
      <3>5. QED
        BY <3>3, <3>4
    <2>3. TrimInHand(t)' /\ RestockInHand(t)'
      <3>1. CASE t = s
        BY <1>7, <3>1 DEF TrimInHand, RestockInHand
      <3>2. CASE t # s
        <4>1. TrimInHand(t)'
          BY <1>5, <1>7, <2>1, <3>2 DEF TrimInHand, Limit
        <4>2. RestockInHand(t)'
          <5>1. \A j \in Items : itemStock'[t][j] = itemStock[t][j]
            BY <1>4, <3>2
          <5>2. at'[t] = at[t] /\ handling'[t] = handling[t] /\ seen'[t] = seen[t]
                /\ activeOrder'[t] = activeOrder[t]
            BY <1>6, <1>7, <3>2
          <5>3. isActiveOrder(t, handling[t])' = isActiveOrder(t, handling[t])
            BY <5>2 DEF isActiveOrder, Payload
          <5>4. QED
            BY <2>1, <5>1, <5>2, <5>3 DEF RestockInHand
        <4>3. QED
          BY <4>1, <4>2
      <3>3. QED
        BY <3>1, <3>2
    <2>4. QED
      BY <2>2, <2>3
  <1>12. QED
    BY <1>8, <1>9, <1>10, <1>11 DEF StoreInv

-----------------------------------------------------------------------------
(* The service thread.                                                      *)

LEMMA BeginSaleInv ==
  ASSUME StoreInv, NEW s \in Stores, NEW i \in Items, NEW n \in SaleAmounts,
         CheckStock(s, i, n)
  PROVE  StoreInv'
  <1> DEFINE call == [step |-> "checked", item |-> i, amount |-> n, seen |-> 0]
  <1>1. /\ UNCHANGED <<itemStock, demandCount, activeOrder, ordersReceived, stop,
                       at, cursor, handling, seen>>
        /\ rpc' = [rpc EXCEPT ![s] = call] /\ itemStock[s][i] >= n
    BY DEF CheckStock, loopVars
  <1>2. n \in Nat /\ n > 0
    BY StoreAssumption
  <1>3. StoreTypeOK'
    <2>1. call \in [step : {"idle", "checked", "read"}, item : Items \cup {NoItem},
                    amount : Nat, seen : Nat]
      BY <1>2
    <2> HIDE DEF call
    <2>2. rpc' \in [Stores -> [step : {"idle", "checked", "read"}, item : Items \cup {NoItem},
                               amount : Nat, seen : Nat]]
      BY <1>1, <2>1 DEF StoreInv, StoreTypeOK
    <2>3. QED
      BY <1>1, <2>2 DEF StoreInv, StoreTypeOK
  <1>4. StockCap' /\ OrderWithinLimit'
    BY <1>1 DEF StoreInv, StockCap, OrderWithinLimit, Limit
  <1>5. Registers'
    <2> SUFFICES ASSUME NEW t \in Stores
                 PROVE  SaleInHand(t)' /\ TrimInHand(t)' /\ RestockInHand(t)'
      BY DEF Registers
    <2>1. SaleInHand(t) /\ TrimInHand(t) /\ RestockInHand(t)
      BY DEF StoreInv, Registers
    <2>2. TrimInHand(t)' /\ RestockInHand(t)'
      BY <1>1, <2>1 DEF TrimInHand, RestockInHand, Limit, isActiveOrder
    <2>3. rpc'[t] = rpc[t] \/ (t = s /\ rpc'[t] = call)
      BY <1>1 DEF StoreInv, StoreTypeOK
    <2>4. SaleInHand(t)'
      BY <1>1, <1>2, <2>1, <2>3 DEF SaleInHand
    <2>5. QED
      BY <2>2, <2>4
  <1>6. QED
    BY <1>3, <1>4, <1>5 DEF StoreInv

LEMMA ReadSaleInv ==
  ASSUME StoreInv, NEW s \in Stores, ReadSale(s)
  PROVE  StoreInv'
  <1> DEFINE call == [step |-> "read", item |-> rpc[s].item, amount |-> rpc[s].amount,
                      seen |-> itemStock[s][rpc[s].item]]
  <1>1. /\ UNCHANGED <<itemStock, demandCount, activeOrder, ordersReceived, stop,
                       at, cursor, handling, seen>>
        /\ rpc' = [rpc EXCEPT ![s] = call] /\ rpc[s].step = "checked"
    BY DEF ReadSale, loopVars
  <1>2. /\ rpc[s].item \in Items /\ rpc[s].amount \in Nat
        /\ itemStock[s][rpc[s].item] \in Nat /\ itemStock[s][rpc[s].item] >= rpc[s].amount
    <2>1. rpc[s].item \in Items /\ itemStock[s][rpc[s].item] >= rpc[s].amount
      BY <1>1 DEF StoreInv, Registers, SaleInHand
    <2>2. rpc[s].amount \in Nat /\ itemStock[s][rpc[s].item] \in Nat
      BY <2>1 DEF StoreInv, StoreTypeOK
    <2>3. QED
      BY <2>1, <2>2
  <1>3. StoreTypeOK'
    <2>1. call \in [step : {"idle", "checked", "read"}, item : Items \cup {NoItem},
                    amount : Nat, seen : Nat]
      BY <1>2
    <2> HIDE DEF call
    <2>2. rpc' \in [Stores -> [step : {"idle", "checked", "read"}, item : Items \cup {NoItem},
                               amount : Nat, seen : Nat]]
      BY <1>1, <2>1 DEF StoreInv, StoreTypeOK
    <2>3. QED
      BY <1>1, <2>2 DEF StoreInv, StoreTypeOK
  <1>4. StockCap' /\ OrderWithinLimit'
    BY <1>1 DEF StoreInv, StockCap, OrderWithinLimit, Limit
  <1>5. Registers'
    <2> SUFFICES ASSUME NEW t \in Stores
                 PROVE  SaleInHand(t)' /\ TrimInHand(t)' /\ RestockInHand(t)'
      BY DEF Registers
    <2>1. SaleInHand(t) /\ TrimInHand(t) /\ RestockInHand(t)
      BY DEF StoreInv, Registers
    <2>2. TrimInHand(t)' /\ RestockInHand(t)'
      BY <1>1, <2>1 DEF TrimInHand, RestockInHand, Limit, isActiveOrder
    <2>3. rpc'[t] = rpc[t] \/ (t = s /\ rpc'[t] = call)
      BY <1>1 DEF StoreInv, StoreTypeOK
    <2>4. SaleInHand(t)'
      BY <1>1, <1>2, <2>1, <2>3 DEF SaleInHand
    <2>5. QED
      BY <2>2, <2>4
  <1>6. QED
    BY <1>3, <1>4, <1>5 DEF StoreInv

(* A sale writes no less than zero and no more than there is, so the order  *)
(* that is open and the delivery in progress still fit.                     *)
LEMMA WriteSaleInv ==
  ASSUME StoreInv, NEW s \in Stores, WriteSale(s)
  PROVE  StoreInv'
  <1> DEFINE i == rpc[s].item
             n == rpc[s].amount
             rest == rpc[s].seen - n
  <1>1. /\ i \in Items /\ n \in Nat /\ rpc[s].seen \in Nat
        /\ rpc[s].seen >= n /\ rpc[s].seen <= itemStock[s][i] /\ itemStock[s][i] \in Nat
    <2>1. rpc[s].step = "read" /\ SaleInHand(s)
      BY DEF WriteSale, StoreInv, Registers
    <2>2. i \in Items /\ rpc[s].seen >= n /\ rpc[s].seen <= itemStock[s][i]
      BY <2>1 DEF SaleInHand
    <2>3. n \in Nat /\ rpc[s].seen \in Nat
      BY DEF StoreInv, StoreTypeOK
    <2>4. itemStock[s][i] \in Nat
      BY <2>2 DEF StoreInv, StoreTypeOK
    <2>5. QED
      BY <2>2, <2>3, <2>4
  <1>2. rest \in Nat /\ rest <= itemStock[s][i]
    BY <1>1
  <1>3. /\ itemStock' = [itemStock EXCEPT ![s][i] = rest]
        /\ ordersReceived' = [ordersReceived EXCEPT ![s] =
                                 Append(@, [item |-> i, amount |-> n])]
        /\ rpc' = [rpc EXCEPT ![s] = Idle]
        /\ UNCHANGED <<demandCount, activeOrder, stop, at, cursor, handling, seen>>
    BY DEF WriteSale, loopVars
  <1> HIDE DEF i, n, rest
  <1>4. /\ itemStock' \in [Stores -> [Items -> Nat]]
        /\ \A t \in Stores, j \in Items :
              itemStock'[t][j] = IF t = s /\ j = i THEN rest ELSE itemStock[t][j]
    <2>1. itemStock \in [Stores -> [Items -> Nat]] /\ i \in Items /\ rest \in Nat
      BY <1>1, <1>2 DEF StoreInv, StoreTypeOK
    <2>2. QED
      BY <1>3, <2>1
  <1>5. \A t \in Stores, j \in Items :
           /\ itemStock[t][j] \in Nat /\ itemStock'[t][j] \in Nat
           /\ itemStock'[t][j] <= itemStock[t][j]
    <2> TAKE t \in Stores, j \in Items
    <2>1. itemStock[t][j] \in Nat /\ itemStock'[t][j] \in Nat
      BY <1>4 DEF StoreInv, StoreTypeOK
    <2>2. CASE t = s /\ j = i
      BY <1>2, <1>4, <2>1, <2>2
    <2>3. CASE ~(t = s /\ j = i)
      BY <1>4, <2>1, <2>3
    <2>4. QED
      BY <2>2, <2>3
  <1>6. StoreTypeOK'
    <2>1. rpc' \in [Stores -> [step : {"idle", "checked", "read"},
                               item : Items \cup {NoItem}, amount : Nat, seen : Nat]]
      BY <1>3 DEF StoreInv, StoreTypeOK, Idle
    <2>2. ordersReceived' \in [Stores -> Seq([item : Items, amount : Nat])]
      <3>1. [item |-> i, amount |-> n] \in [item : Items, amount : Nat]
        BY <1>1
      <3>2. ordersReceived[s] \in Seq([item : Items, amount : Nat])
        BY DEF StoreInv, StoreTypeOK
      <3>3. Append(ordersReceived[s], [item |-> i, amount |-> n])
              \in Seq([item : Items, amount : Nat])
        BY <3>1, <3>2
      <3>4. QED
        BY <1>3, <3>3 DEF StoreInv, StoreTypeOK
    <2>3. QED
      BY <1>3, <1>4, <2>1, <2>2 DEF StoreInv, StoreTypeOK
  <1>7. StockCap'
    <2> SUFFICES ASSUME NEW t \in Stores, NEW j \in Items
                 PROVE  /\ itemStock'[t][j] <= INITIAL_STOCK
                        /\ activeOrder[t].item = j =>
                              itemStock'[t][j] + activeOrder[t].amount <= INITIAL_STOCK
      BY <1>3 DEF StockCap
    <2>1. /\ itemStock[t][j] <= INITIAL_STOCK
          /\ activeOrder[t].item = j =>
                itemStock[t][j] + activeOrder[t].amount <= INITIAL_STOCK
      BY DEF StoreInv, StockCap
    <2>2. INITIAL_STOCK \in Nat /\ activeOrder[t].amount \in Nat
      BY StoreAssumption DEF StoreInv, StoreTypeOK, Payloads
    <2>3. QED
      BY <1>5, <2>1, <2>2
  <1>8. OrderWithinLimit'
    BY <1>3 DEF StoreInv, OrderWithinLimit, Limit
  <1>9. Registers'
    <2> SUFFICES ASSUME NEW t \in Stores
                 PROVE  SaleInHand(t)' /\ TrimInHand(t)' /\ RestockInHand(t)'
      BY DEF Registers
    <2>1. SaleInHand(t) /\ TrimInHand(t) /\ RestockInHand(t)
      BY DEF StoreInv, Registers
    <2>2. SaleInHand(t)'
      <3>1. CASE t = s
        <4>1. rpc'[t].step = "idle"
          BY <1>3, <3>1 DEF StoreInv, StoreTypeOK, Idle
        <4>2. QED
          BY <4>1 DEF SaleInHand
      <3>2. CASE t # s
        <4>1. rpc'[t] = rpc[t]
          BY <1>3, <3>2 DEF StoreInv, StoreTypeOK
        <4>2. \A j \in Items : itemStock'[t][j] = itemStock[t][j]
          BY <1>4, <3>2
        <4>3. QED
          BY <2>1, <4>1, <4>2 DEF SaleInHand
      <3>3. QED
        BY <3>1, <3>2
    <2>3. TrimInHand(t)'
      BY <1>3, <2>1 DEF TrimInHand, Limit
    <2>4. RestockInHand(t)'
      <3>1. isActiveOrder(t, handling[t])' = isActiveOrder(t, handling[t])
        BY <1>3 DEF isActiveOrder
      <3>2. seen[t] \in Nat
        BY DEF StoreInv, StoreTypeOK
      <3>3. QED
        BY <1>3, <1>5, <2>1, <3>1, <3>2 DEF RestockInHand
    <2>5. QED
      BY <2>2, <2>3, <2>4
  <1>10. QED
    BY <1>6, <1>7, <1>8, <1>9 DEF StoreInv

-----------------------------------------------------------------------------
LEMMA InputIsMessage == Input \subseteq Message
  BY StoreAssumption DEF Input, Message, Kinds

(* Every step of a store keeps the invariant.                               *)
LEMMA StepInv == StoreInv /\ [StoreNext]_storeVars => StoreInv'
  <1> SUFFICES ASSUME StoreInv, [StoreNext]_storeVars PROVE StoreInv'
    OBVIOUS
  <1>1. CASE UNCHANGED storeVars
    BY <1>1 DEF storeVars, loopVars, StoreInv, StoreTypeOK, StockCap, OrderWithinLimit, Limit,
                Registers, SaleInHand, TrimInHand, RestockInHand, isActiveOrder
  <1>2. CASE StoreNext
    <2> PICK s \in Stores :
           \/ EnterLoop(s) \/ Exit(s) \/ LeaveLoop(s)
           \/ PassItem(s) \/ DemandItem(s) \/ WaitItem(s)
           \/ StopLoop(s)
           \/ \E m \in Input :
                 \/ IgnoreOffer(s, m)
                 \/ \E sent \in BOOLEAN : OrderOffer(s, m, sent)
                 \/ TrimOffer(s, m)
                 \/ IgnoreConfirm(s, m)
                 \/ ReadRestock(s, m)
           \/ \E sent \in BOOLEAN : OrderTrimmed(s, sent)
           \/ WriteRestock(s)
           \/ ServiceStep(s)
      BY <1>2 DEF StoreNext
    <2>1. CASE EnterLoop(s) \/ Exit(s) \/ LeaveLoop(s) \/ StopLoop(s)
      BY <2>1, LoopInv
    <2>2. CASE PassItem(s) \/ DemandItem(s) \/ WaitItem(s)
      BY <2>2, SweepInv DEF DemandItem, WaitItem
    <2>3. ASSUME NEW m \in Input, IgnoreOffer(s, m) \/ IgnoreConfirm(s, m)
          PROVE  StoreInv'
      BY <2>3, IgnoreInv, InputIsMessage
    <2>4. ASSUME NEW m \in Input, NEW sent \in BOOLEAN, OrderOffer(s, m, sent)
          PROVE  StoreInv'
      BY <2>4, OrderOfferInv, InputIsMessage
    <2>5. ASSUME NEW m \in Input, TrimOffer(s, m)
          PROVE  StoreInv'
      BY <2>5, TrimOfferInv, InputIsMessage
    <2>6. ASSUME NEW m \in Input, ReadRestock(s, m)
          PROVE  StoreInv'
      BY <2>6, ReadRestockInv, InputIsMessage
    <2>7. ASSUME NEW sent \in BOOLEAN, OrderTrimmed(s, sent)
          PROVE  StoreInv'
      BY <2>7, OrderTrimmedInv
    <2>8. CASE WriteRestock(s)
      BY <2>8, WriteRestockInv
    <2>9. CASE ServiceStep(s)
      BY <2>9, BeginSaleInv, ReadSaleInv, WriteSaleInv DEF ServiceStep
    <2>10. QED
      BY <2>1, <2>2, <2>3, <2>4, <2>5, <2>6, <2>7, <2>8, <2>9
  <1>3. QED
    BY <1>1, <1>2

(* The inductive invariant holds of every behaviour of the stores.          *)
THEOREM StoreCorrect == StoreSpec => []StoreInv
  BY InitInv, StepInv, PTL DEF StoreSpec

(* startLoop, on_mosqEvent and StoreHandler::order keep every variable in   *)
(* its type: no stock, and no count, goes below zero.                       *)
THEOREM StoreTypeCorrect == StoreSpec => []StoreTypeOK
  <1>1. StoreInv => StoreTypeOK
    BY DEF StoreInv
  <1>2. QED
    BY <1>1, StoreCorrect, PTL

(* No store ever holds, or waits for, more than INITIAL_STOCK of an item,   *)
(* for every interleaving of its loop thread with its service thread.       *)
THEOREM StockCapCorrect == StoreSpec => []StockCap
  <1>1. StoreInv => StockCap
    BY DEF StoreInv
  <1>2. QED
    BY <1>1, StoreCorrect, PTL

(* No store waits for an order that is dearer than its limit.               *)
THEOREM OrderWithinLimitCorrect == StoreSpec => []OrderWithinLimit
  <1>1. StoreInv => OrderWithinLimit
    BY DEF StoreInv
  <1>2. QED
    BY <1>1, StoreCorrect, PTL

(* What the two threads hold in their registers stays true while the other  *)
(* one runs: a sale has read no more than the stock, a delivery no less.    *)
THEOREM RegistersCorrect == StoreSpec => []Registers
  <1>1. StoreInv => Registers
    BY DEF StoreInv
  <1>2. QED
    BY <1>1, StoreCorrect, PTL

=============================================================================
