-------------------------- MODULE StockroomProofs ---------------------------
(***************************************************************************)
(* A store implements Stockroom: every step of the two threads is a step   *)
(* of the abstract store or leaves its shelves and its order alone.        *)
(***************************************************************************)
EXTENDS StoreManagerProofs

LEMMA AbstractInit == StoreInit => Shelves!Init
  <1> SUFFICES ASSUME StoreInit PROVE Shelves!Init
    OBVIOUS
  <1>1. itemStock \in [Stores -> [Items -> 0..INITIAL_STOCK]]
    BY StoreAssumption DEF StoreInit
  <1>2. \A s \in Stores : Awaited(s) = Shelves!Nothing
    BY DEF StoreInit, Awaited, NoPayload, Shelves!Nothing
  <1>3. QED
    BY <1>1, <1>2 DEF Shelves!Init

LEMMA AbstractStutter ==
  ASSUME UNCHANGED <<itemStock, activeOrder>>
  PROVE  UNCHANGED Shelves!vars
  BY DEF Shelves!vars, Awaited

(* An order that was published, or was not.                                 *)
LEMMA AbstractOrder ==
  ASSUME StoreInv, StoreInv', NEW s \in Stores, NEW i \in Items, NEW new \in Payloads,
         new.item = i, activeOrder' = [activeOrder EXCEPT ![s] = new],
         UNCHANGED itemStock
  PROVE  Shelves!Order(s, i)
  <1> DEFINE p == [t \in Stores |-> Awaited(t)]
             q == [t \in Stores |-> Awaited(t)']
  <1>1. activeOrder'[s] = new /\ \A t \in Stores : t # s => activeOrder'[t] = activeOrder[t]
    BY DEF StoreInv, StoreTypeOK
  <1>2. i # NoItem
    BY TradeAssumption
  <1>3. q[s].item = i /\ q[s].amount = new.amount
    BY <1>1, <1>2 DEF Awaited
  <1>4. itemStock[s][i] + q[s].amount <= INITIAL_STOCK
    BY <1>1, <1>3 DEF StoreInv, StockCap
  <1>5. q = [p EXCEPT ![s] = q[s]]
    <2>1. \A t \in Stores : t # s => Awaited(t)' = Awaited(t)
      BY <1>1 DEF Awaited
    <2>2. QED
      BY <2>1
  <1>6. QED
    BY <1>3, <1>4, <1>5 DEF Shelves!Order

(* The delivery that is booked.                                             *)
LEMMA AbstractBook ==
  ASSUME StoreInv, StoreInv', NEW s \in Stores, WriteRestock(s)
  PROVE  Shelves!Book(s)
  <1> DEFINE i == handling[s].item
             n == handling[s].amount
             full == seen[s] + n
             p == [t \in Stores |-> Awaited(t)]
             q == [t \in Stores |-> Awaited(t)']
  <1>1. /\ i \in Items /\ n \in Nat /\ seen[s] \in Nat /\ itemStock[s][i] \in Nat
        /\ itemStock[s][i] <= seen[s]
        /\ activeOrder[s].item = i /\ activeOrder[s].amount = n
    <2>1. at[s] = "restock" /\ RestockInHand(s)
      BY DEF WriteRestock, StoreInv, Registers
    <2>2. i \in Items /\ isActiveOrder(s, handling[s]) /\ itemStock[s][i] <= seen[s]
      BY <2>1 DEF RestockInHand
    <2>3. n \in Nat /\ seen[s] \in Nat
      BY DEF StoreInv, StoreTypeOK
    <2>4. itemStock[s][i] \in Nat
      BY <2>2, SMTT(40) DEF StoreInv, StoreTypeOK
    <2>5. activeOrder[s].item = i /\ activeOrder[s].amount = n
      BY <2>2 DEF isActiveOrder, Payload
    <2>6. QED
      BY <2>2, <2>3, <2>4, <2>5
  <1>2. /\ itemStock' = [itemStock EXCEPT ![s][i] = full]
        /\ activeOrder' = [activeOrder EXCEPT ![s].item = NoItem]
    BY DEF WriteRestock, CloseOrder
  <1>3. p[s].item = i /\ p[s].amount = n /\ p[s] # Shelves!Nothing
    BY <1>1, TradeAssumption DEF Awaited, Shelves!Nothing
  <1>4. itemStock'[s][i] = full /\ itemStock' = [itemStock EXCEPT ![s][i] = itemStock'[s][i]]
    BY <1>1, <1>2, ZenonT(40) DEF StoreInv, StoreTypeOK
  <1>5. itemStock[s][i] + n <= itemStock'[s][i]
    BY <1>1, <1>4
  <1>6. itemStock'[s][i] <= INITIAL_STOCK
    BY <1>1 DEF StoreInv, StockCap
  <1>7. q = [p EXCEPT ![s] = Shelves!Nothing]
    <2>1. Awaited(s)' = Shelves!Nothing
      BY <1>2 DEF Awaited, Shelves!Nothing, StoreInv, StoreTypeOK, Payloads
    <2>2. \A t \in Stores : t # s => Awaited(t)' = Awaited(t)
      BY <1>2 DEF Awaited, StoreInv, StoreTypeOK
    <2>3. QED
      BY <2>1, <2>2
  <1>8. QED
    BY <1>3, <1>4, <1>5, <1>6, <1>7 DEF Shelves!Book

LEMMA AbstractSell ==
  ASSUME StoreInv, StoreInv', NEW s \in Stores, WriteSale(s)
  PROVE  \E i \in Items : Shelves!Sell(s, i)
  <1> DEFINE i == rpc[s].item
             n == rpc[s].amount
             rest == rpc[s].seen - n
  <1>1. /\ i \in Items /\ n \in Nat /\ rpc[s].seen \in Nat /\ itemStock[s][i] \in Nat
        /\ rpc[s].seen >= n /\ rpc[s].seen <= itemStock[s][i] /\ n > 0
    <2>1. rpc[s].step = "read" /\ SaleInHand(s)
      BY DEF WriteSale, StoreInv, Registers
    <2>2. /\ i \in Items /\ n > 0
          /\ rpc[s].seen >= n /\ rpc[s].seen <= itemStock[s][i]
      BY <2>1 DEF SaleInHand
    <2>3. n \in Nat /\ rpc[s].seen \in Nat
      BY DEF StoreInv, StoreTypeOK
    <2>4. itemStock[s][i] \in Nat
      BY <2>2, SMTT(40) DEF StoreInv, StoreTypeOK
    <2>5. QED
      BY <2>2, <2>3, <2>4
  <1>2. itemStock' = [itemStock EXCEPT ![s][i] = rest] /\ UNCHANGED activeOrder
    BY DEF WriteSale
  <1>3. itemStock'[s][i] = rest /\ itemStock' = [itemStock EXCEPT ![s][i] = itemStock'[s][i]]
    BY <1>1, <1>2 DEF StoreInv, StoreTypeOK
  <1>4. rest \in Nat /\ rest < itemStock[s][i]
    BY <1>1
  <1>5. Shelves!Sell(s, i)
    BY <1>2, <1>3, <1>4 DEF Shelves!Sell, Awaited
  <1>6. QED
    BY <1>1, <1>5

(* A step of the loop or of a handler that takes a message and keeps it.    *)
LEMMA AbstractLoop ==
  ASSUME NEW s \in Stores,
         \/ EnterLoop(s) \/ Exit(s) \/ LeaveLoop(s) \/ StopLoop(s)
         \/ PassItem(s) \/ DemandItem(s) \/ WaitItem(s)
  PROVE  [Shelves!Next]_Shelves!vars
  <1>1. UNCHANGED <<itemStock, activeOrder>>
    BY DEF EnterLoop, Exit, LeaveLoop, StopLoop, PassItem, DemandItem, WaitItem, CountItem, NextItem
  <1>2. QED
    BY <1>1, AbstractStutter

LEMMA AbstractHear ==
  ASSUME NEW s \in Stores, NEW m,
         IgnoreOffer(s, m) \/ IgnoreConfirm(s, m) \/ TrimOffer(s, m) \/ ReadRestock(s, m)
  PROVE  [Shelves!Next]_Shelves!vars
  <1>1. UNCHANGED <<itemStock, activeOrder>>
    BY DEF IgnoreOffer, IgnoreConfirm, TrimOffer, ReadRestock, Served
  <1>2. QED
    BY <1>1, AbstractStutter

LEMMA AbstractRemember ==
  ASSUME StoreInv, StoreInv', NEW s \in Stores, NEW order \in Message, NEW sent \in BOOLEAN,
         Remember(s, order, sent), UNCHANGED itemStock
  PROVE  [Shelves!Next]_Shelves!vars
  <1>1. CASE UNCHANGED activeOrder
    BY <1>1, AbstractStutter
  <1>2. CASE activeOrder' = [activeOrder EXCEPT ![s] = Payload(order)]
    <2>1. Payload(order) \in Payloads /\ Payload(order).item \in Items
      BY DEF Payload, Payloads, Message
    <2>2. Shelves!Order(s, Payload(order).item)
      BY <1>2, <2>1, AbstractOrder
    <2>3. QED
      BY <2>1, <2>2 DEF Shelves!Next
  <1>3. QED
    BY <1>1, <1>2 DEF Remember

LEMMA AbstractPlace ==
  ASSUME StoreInv, StoreInv', NEW s \in Stores, NEW m \in Message, NEW sent \in BOOLEAN,
         OrderOffer(s, m, sent) \/ OrderTrimmed(s, sent)
  PROVE  [Shelves!Next]_Shelves!vars
  <1>1. CASE OrderOffer(s, m, sent)
    <2>1. OrderFor(m, m.amount) \in Message
      BY DEF OrderFor, Message, Kinds
    <2>2. Remember(s, OrderFor(m, m.amount), sent) /\ UNCHANGED itemStock
      BY <1>1 DEF OrderOffer, Served
    <2>3. QED
      BY <2>1, <2>2, AbstractRemember
  <1>2. CASE OrderTrimmed(s, sent)
    <2>1. OrderFor(handling[s], Room(s)) \in Message
      BY <1>2, TrimmedOrder DEF OrderTrimmed
    <2>2. Remember(s, OrderFor(handling[s], Room(s)), sent) /\ UNCHANGED itemStock
      BY <1>2 DEF OrderTrimmed, Served
    <2>3. QED
      BY <2>1, <2>2, AbstractRemember
  <1>3. QED
    BY <1>1, <1>2

LEMMA AbstractService ==
  ASSUME StoreInv, StoreInv', NEW s \in Stores, ServiceStep(s)
  PROVE  [Shelves!Next]_Shelves!vars
  <1>1. CASE WriteSale(s)
    BY <1>1, AbstractSell DEF Shelves!Next
  <1>2. ASSUME NEW i \in Items, NEW n \in SaleAmounts, CheckStock(s, i, n)
        PROVE  [Shelves!Next]_Shelves!vars
    BY <1>2, AbstractStutter DEF CheckStock
  <1>3. CASE ReadSale(s)
    BY <1>3, AbstractStutter DEF ReadSale
  <1>4. QED
    BY <1>1, <1>2, <1>3 DEF ServiceStep

LEMMA AbstractStep ==
  ASSUME StoreInv, StoreInv', [StoreNext]_storeVars
  PROVE  [Shelves!Next]_Shelves!vars
  <1>1. CASE UNCHANGED storeVars
    BY <1>1, AbstractStutter DEF storeVars
  <1>2. CASE StoreNext
    <2> PICK s \in Stores :
           \/ EnterLoop(s) \/ Exit(s) \/ LeaveLoop(s)
           \/ PassItem(s) \/ DemandItem(s) \/ WaitItem(s)
           \/ StopLoop(s)
           \/ \E m \in Input :
                 \/ IgnoreOffer(s, m)
                 \/ \E sent \in BOOLEAN : OrderOffer(s, m, sent)
                 \/ TrimOffer(s, m)
                 \/ IgnoreConfirm(s, m)
                 \/ ReadRestock(s, m)
           \/ \E sent \in BOOLEAN : OrderTrimmed(s, sent)
           \/ WriteRestock(s)
           \/ ServiceStep(s)
      BY <1>2 DEF StoreNext
    <2>1. CASE \/ EnterLoop(s) \/ Exit(s) \/ LeaveLoop(s) \/ StopLoop(s)
               \/ PassItem(s) \/ DemandItem(s) \/ WaitItem(s)
      BY <2>1, AbstractLoop
    <2>2. ASSUME NEW m \in Input,
                 IgnoreOffer(s, m) \/ IgnoreConfirm(s, m) \/ TrimOffer(s, m) \/ ReadRestock(s, m)
          PROVE  [Shelves!Next]_Shelves!vars
      BY <2>2, AbstractHear
    <2>3. ASSUME NEW m \in Input, NEW sent \in BOOLEAN, OrderOffer(s, m, sent)
          PROVE  [Shelves!Next]_Shelves!vars
      BY <2>3, InputIsMessage, AbstractPlace
    <2>4. ASSUME NEW sent \in BOOLEAN, OrderTrimmed(s, sent)
          PROVE  [Shelves!Next]_Shelves!vars
      <3>1. \E m : m \in Message
        BY <2>4, TrimmedOrder DEF OrderTrimmed
      <3>2. QED
        BY <2>4, <3>1, AbstractPlace
    <2>5. CASE WriteRestock(s)
      BY <2>5, AbstractBook DEF Shelves!Next
    <2>6. CASE ServiceStep(s)
      BY <2>6, AbstractService
    <2>7. QED
      BY <2>1, <2>2, <2>3, <2>4, <2>5, <2>6
  <1>3. QED
    BY <1>1, <1>2

(* The handlers and the service of a store implement its promise about its  *)
(* shelves.                                                                 *)
THEOREM StoreImplementsStockroom == StoreSpec => ImplementsStockroom
  BY AbstractInit, AbstractStep, StoreCorrect, PTL
  DEF StoreSpec, ImplementsStockroom, Shelves!Spec

=============================================================================
