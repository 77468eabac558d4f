---------------------------- MODULE MarketProofs ----------------------------
(***************************************************************************)
(* Stores, producers and the broker together, for any number of each, any  *)
(* items, prices and stocks, any clients that start late, fail, share an   *)
(* id or are stopped, any queue limit and any number of redeliveries: what *)
(* a store keeps true alone it keeps true in the market, and what reaches  *)
(* it is what some producer has offered.                                   *)
(***************************************************************************)
EXTENDS Replenishment, StockroomProofs, SequenceTheorems, FiniteSetTheorems

(* Some producer has made this offer.                                       *)
Announced(offer) == \E p \in Producers : offer \in offered[p]

(* An offer was made, and a confirmation is covered by one that was.        *)
Truthful(m) ==
    /\ m.kind = "offer" => Announced(Payload(m))
    /\ m.kind = "confirm" => WasOffered(m)

ProducersOK ==
    /\ lastOffer \in [Producers -> Payloads]
    /\ stopProducer \in [Producers -> BOOLEAN]
    /\ left \in [Producers -> BOOLEAN]
    /\ ownOffers \in [Producers -> Nat]

NetOK ==
    /\ link \in [Clients -> Links]
    /\ inbox \in [Clients -> Seq(Message)]
    /\ redelivered \in 0..MaxRedeliveries
    /\ \A c \in Clients : inbox[c] # <<>> => link[c] = "up"

HistoryOK == offered \in [Producers -> SUBSET Payloads] /\ balance \in Int

(* The offer a producer remembers is one it has made.                       *)
RememberedOK ==
    \A p \in Producers : lastOffer[p].item # NoItem => lastOffer[p] \in offered[p]

MailOK == \A c \in Clients : \A k \in DOMAIN inbox[c] : Truthful(inbox[c][k])

(* What the handlers have in hand.                                          *)
HandsOK ==
    \A s \in Stores :
        /\ at[s] = "trim" => Announced(Payload(handling[s]))
        /\ at[s] = "restock" => WasOffered(handling[s])

MarketInv ==
    /\ StoreInv /\ ProducersOK /\ NetOK /\ HistoryOK
    /\ RememberedOK /\ MailOK /\ HandsOK /\ OrderPriceWasAsked

(* Confirmations under way to one client, and the one it is booking.        *)
Confirms(q) == Cardinality({k \in 1..Len(q) : q[k].kind = "confirm"})
Booking(s) == IF at[s] = "restock" THEN 1 ELSE 0
Promised(s) == Confirms(inbox[s]) + Booking(s)

(* Of a market with one store.                                              *)
BookInv == \A s \in Stores : Promised(s) <= balance + redelivered

-----------------------------------------------------------------------------
(* The broker.  Spread: whatever waits for a client waited for it before,   *)
(* or is one of the messages msgs.                                          *)
Waits(c, m) == \E k \in DOMAIN inbox[c] : inbox[c][k] = m

Spread(msgs) ==
    \A c \in Clients : \A k \in DOMAIN inbox'[c] :
        inbox'[c][k] \in msgs \/ Waits(c, inbox'[c][k])

LEMMA RouteOK ==
  ASSUME NetOK, NEW boxes \in [Clients -> Seq(Message)], NEW m \in Message,
         \A c \in Clients : boxes[c] # <<>> => link[c] = "up"
  PROVE  /\ Route(boxes, m) \in [Clients -> Seq(Message)]
         /\ \A c \in Clients :
               /\ Route(boxes, m)[c] # <<>> => link[c] = "up"
               /\ Route(boxes, m)[c] \in {boxes[c], Append(boxes[c], m)}
  BY AppendProperties DEF Route

LEMMA AppendMember ==
  ASSUME NEW q \in Seq(Message), NEW m \in Message, NEW k \in DOMAIN Append(q, m)
  PROVE  Append(q, m)[k] = m \/ \E j \in DOMAIN q : q[j] = Append(q, m)[k]
  <1>1. DOMAIN Append(q, m) = 1..(Len(q) + 1) /\ DOMAIN q = 1..Len(q) /\ Len(q) \in Nat
    BY AppendProperties, LenProperties
  <1>2. CASE k = Len(q) + 1
    BY <1>2, AppendProperties
  <1>3. CASE k \in 1..Len(q)
    BY <1>1, <1>3, AppendProperties
  <1>4. QED
    BY <1>1, <1>2, <1>3

LEMMA TailMember ==
  ASSUME NEW q \in Seq(Message), q # <<>>, NEW k \in DOMAIN Tail(q)
  PROVE  \E j \in DOMAIN q : q[j] = Tail(q)[k]
  <1>1. /\ DOMAIN Tail(q) = 1..Len(Tail(q)) /\ DOMAIN q = 1..Len(q) /\ Len(q) \in Nat
        /\ Len(Tail(q)) = Len(q) - 1
        /\ Tail(q)[k] = q[k + 1]
    BY HeadTailProperties, LenProperties
  <1>2. k + 1 \in DOMAIN q
    BY <1>1
  <1>3. QED
    BY <1>1, <1>2

LEMMA MailIsMessage ==
  ASSUME NetOK, NEW c \in Clients, HasMail(c)
  PROVE  /\ Mail(c) \in Message /\ Waits(c, Mail(c)) /\ link[c] = "up"
         /\ Taken(c) \in [Clients -> Seq(Message)]
         /\ \A d \in Clients : Taken(c)[d] # <<>> => link[d] = "up"
         /\ \A d \in Clients : \A k \in DOMAIN Taken(c)[d] : Waits(d, Taken(c)[d][k])
  <1>1. inbox[c] \in Seq(Message) /\ inbox[c] # <<>>
    BY DEF NetOK, HasMail
  <1>2. /\ Mail(c) \in Message /\ Tail(inbox[c]) \in Seq(Message) /\ Mail(c) = inbox[c][1]
        /\ 1 \in DOMAIN inbox[c]
    BY <1>1, HeadTailProperties, LenProperties DEF Mail
  <1>3. Waits(c, Mail(c)) /\ link[c] = "up"
    BY <1>1, <1>2 DEF Waits, NetOK
  <1>4. Taken(c) = [inbox EXCEPT ![c] = Tail(inbox[c])]
    BY DEF Taken
  <1>5. /\ Taken(c) \in [Clients -> Seq(Message)]
        /\ Taken(c)[c] = Tail(inbox[c])
        /\ \A d \in Clients : d # c => Taken(c)[d] = inbox[d]
    BY <1>2, <1>4 DEF NetOK
  <1>6. \A d \in Clients : Taken(c)[d] # <<>> => link[d] = "up"
    BY <1>3, <1>5 DEF NetOK
  <1>7. ASSUME NEW d \in Clients, NEW k \in DOMAIN Taken(c)[d]
        PROVE  Waits(d, Taken(c)[d][k])
    <2>1. CASE d = c
      BY <1>1, <1>5, <2>1, TailMember DEF Waits
    <2>2. CASE d # c
      BY <1>5, <2>2 DEF Waits
    <2>3. QED
      BY <2>1, <2>2
  <1>8. QED
    BY <1>2, <1>3, <1>5, <1>6, <1>7

(* A message is routed into boxes whose messages all waited before.         *)
LEMMA RouteSpread ==
  ASSUME NetOK, NEW boxes \in [Clients -> Seq(Message)], NEW m \in Message,
         NEW c \in Clients,
         \A d \in Clients : boxes[d] # <<>> => link[d] = "up",
         \A d \in Clients : \A k \in DOMAIN boxes[d] : Waits(d, boxes[d][k]),
         Publish(c, boxes, m), UNCHANGED <<link, redelivered>>
  PROVE  NetOK' /\ Spread({m})
  <1>1. inbox' = boxes \/ inbox' = Route(boxes, m)
    BY DEF Publish
  <1>2. /\ inbox' \in [Clients -> Seq(Message)]
        /\ \A d \in Clients : inbox'[d] # <<>> => link[d] = "up"
        /\ \A d \in Clients : inbox'[d] \in {boxes[d], Append(boxes[d], m)}
    BY <1>1, RouteOK
  <1>3. NetOK'
    BY <1>2 DEF NetOK
  <1>4. ASSUME NEW d \in Clients, NEW k \in DOMAIN inbox'[d]
        PROVE  inbox'[d][k] = m \/ Waits(d, inbox'[d][k])
    <2>1. CASE inbox'[d] = boxes[d]
      BY <2>1
    <2>2. CASE inbox'[d] = Append(boxes[d], m)
      BY <2>2, AppendMember
    <2>3. QED
      BY <1>2, <2>1, <2>2
  <1>5. QED
    BY <1>3, <1>4 DEF Spread

LEMMA OwnMailWaits ==
  ASSUME NEW c \in Clients, NEW k \in DOMAIN inbox[c]
  PROVE  Waits(c, inbox[c][k])
  BY DEF Waits

LEMMA PostNet ==
  ASSUME NetOK, NEW c \in Clients, NEW m \in Message, Post(c, m)
  PROVE  NetOK' /\ Spread({m})
  BY RouteSpread, OwnMailWaits DEF Post, NetOK

LEMMA ConsumeNet ==
  ASSUME NetOK, NEW c \in Clients, HasMail(c), Consume(c)
  PROVE  NetOK' /\ Spread({})
  BY MailIsMessage DEF Consume, NetOK, Spread

LEMMA ConsumeAndPostNet ==
  ASSUME NetOK, NEW c \in Clients, NEW m \in Message, HasMail(c), ConsumeAndPost(c, m)
  PROVE  NetOK' /\ Spread({m})
  BY MailIsMessage, RouteSpread DEF ConsumeAndPost

LEMMA UnchangedNet ==
  ASSUME NetOK, UNCHANGED netVars
  PROVE  NetOK' /\ Spread({})
  BY OwnMailWaits DEF NetOK, Spread, netVars


(* Connections that come and go: a mailbox is left alone or emptied.        *)
LEMMA LinkNet ==
  ASSUME NetOK, link' \in [Clients -> Links], UNCHANGED redelivered,
         inbox' \in [Clients -> Seq(Message)],
         \A c \in Clients : inbox'[c] = <<>> \/ (inbox'[c] = inbox[c] /\ link'[c] = link[c])
  PROVE  NetOK' /\ Spread({})
  <1>1. NetOK'
    BY DEF NetOK
  <1>2. ASSUME NEW c \in Clients, NEW k \in DOMAIN inbox'[c]
        PROVE  Waits(c, inbox'[c][k])
    <2>1. CASE inbox'[c] = <<>>
      <3>1. DOMAIN inbox'[c] = 1..Len(inbox'[c]) /\ Len(inbox'[c]) = 0
        BY <2>1, EmptySeq, LenProperties
      <3>2. QED
        BY <3>1
    <2>2. CASE inbox'[c] = inbox[c]
      BY <2>2, OwnMailWaits
    <2>3. QED
      BY <2>1, <2>2
  <1>3. QED
    BY <1>1, <1>2 DEF Spread

LEMMA DisconnectNet ==
  ASSUME NetOK, NEW c \in Clients, Disconnect(c)
  PROVE  NetOK' /\ Spread({})
  <1>1. link' = [link EXCEPT ![c] = "down"] /\ inbox' = [inbox EXCEPT ![c] = <<>>]
        /\ UNCHANGED redelivered
    BY DEF Disconnect
  <1>2. "down" \in Links /\ <<>> \in Seq(Message)
    BY EmptySeq DEF Links
  <1>3. /\ link' \in [Clients -> Links] /\ inbox' \in [Clients -> Seq(Message)]
        /\ \A d \in Clients : inbox'[d] = <<>> \/ (inbox'[d] = inbox[d] /\ link'[d] = link[d])
    BY <1>1, <1>2 DEF NetOK
  <1>4. QED
    BY <1>1, <1>3, LinkNet

(* exit(): the sockets of all stores are closed.                            *)
LEMMA QuitNet ==
  ASSUME NetOK, UNCHANGED redelivered,
         link' = [c \in Clients |-> IF c \in Stores THEN "down" ELSE link[c]],
         inbox' = [c \in Clients |-> IF c \in Stores THEN <<>> ELSE inbox[c]]
  PROVE  NetOK' /\ Spread({})
  <1>1. "down" \in Links /\ <<>> \in Seq(Message)
    BY EmptySeq DEF Links
  <1>2. /\ link' \in [Clients -> Links] /\ inbox' \in [Clients -> Seq(Message)]
        /\ \A d \in Clients : inbox'[d] = <<>> \/ (inbox'[d] = inbox[d] /\ link'[d] = link[d])
    BY <1>1 DEF NetOK
  <1>3. QED
    BY <1>2, LinkNet

LEMMA TakeOverNet ==
  ASSUME NetOK, NEW c \in Clients, NEW d \in Namesakes[c], TakeOver(c, d)
  PROVE  NetOK' /\ Spread({})
  <1>1. /\ d \in Clients /\ c # d /\ inbox[c] = <<>>
    BY NetAssumption DEF NetOK, TakeOver
  <1>2. /\ link' = [[link EXCEPT ![c] = "up"] EXCEPT ![d] = "broken"]
        /\ inbox' = [inbox EXCEPT ![d] = <<>>]
        /\ UNCHANGED redelivered
    BY DEF TakeOver
  <1>3. "up" \in Links /\ "broken" \in Links /\ <<>> \in Seq(Message)
    BY EmptySeq DEF Links
  <1>4. /\ link' \in [Clients -> Links] /\ inbox' \in [Clients -> Seq(Message)]
        /\ \A e \in Clients : inbox'[e] = <<>> \/ (inbox'[e] = inbox[e] /\ link'[e] = link[e])
    BY <1>1, <1>2, <1>3 DEF NetOK
  <1>5. QED
    BY <1>2, <1>4, LinkNet

LEMMA RedeliverNet ==
  ASSUME NetOK, NEW c \in Clients, Redeliver(c)
  PROVE  NetOK' /\ Spread({})
  <1>1. HasMail(c) /\ UNCHANGED link /\ redelivered < MaxRedeliveries
        /\ redelivered' = redelivered + 1
        /\ inbox' = [inbox EXCEPT ![c] = Append(inbox[c], Mail(c))]
    BY DEF Redeliver
  <1>2. Mail(c) \in Message /\ Waits(c, Mail(c)) /\ link[c] = "up"
    BY <1>1, MailIsMessage
  <1>3. Append(inbox[c], Mail(c)) \in Seq(Message)
    BY <1>2, AppendProperties DEF NetOK
  <1>4. /\ inbox' \in [Clients -> Seq(Message)]
        /\ inbox'[c] = Append(inbox[c], Mail(c))
        /\ \A d \in Clients : d # c => inbox'[d] = inbox[d]
    BY <1>1, <1>3 DEF NetOK
  <1>5. redelivered' \in 0..MaxRedeliveries
    BY <1>1, NetAssumption DEF NetOK
  <1>6. NetOK'
    BY <1>1, <1>2, <1>4, <1>5 DEF NetOK
  <1>7. ASSUME NEW d \in Clients, NEW k \in DOMAIN inbox'[d]
        PROVE  Waits(d, inbox'[d][k])
    <2>1. CASE d # c
      BY <1>4, <2>1, OwnMailWaits
    <2>2. CASE d = c
      <3>1. inbox[c] \in Seq(Message) /\ k \in DOMAIN Append(inbox[c], Mail(c))
        BY <1>4, <2>2 DEF NetOK
      <3>2. \/ Append(inbox[c], Mail(c))[k] = Mail(c)
            \/ \E j \in DOMAIN inbox[c] : inbox[c][j] = Append(inbox[c], Mail(c))[k]
        BY <1>2, <3>1, AppendMember
      <3>3. QED
        BY <1>2, <1>4, <2>2, <3>2 DEF Waits
    <2>3. QED
      BY <2>1, <2>2
  <1>8. QED
    BY <1>6, <1>7 DEF Spread

LEMMA NetworkNet ==
  ASSUME NetOK, NetNext
  PROVE  NetOK' /\ Spread({})
  <1> PICK c \in Clients :
         \/ Join(c) \/ JoinFails(c) \/ Break(c) \/ NoticeBreak(c) \/ Redeliver(c)
         \/ \E d \in Namesakes[c] : TakeOver(c, d)
    BY DEF NetNext
  <1>1. CASE Join(c) \/ JoinFails(c) \/ NoticeBreak(c)
    <2>1. UNCHANGED <<inbox, redelivered>> /\ inbox[c] = <<>>
          /\ \E l \in {"up", "down"} : link' = [link EXCEPT ![c] = l]
      BY <1>1 DEF Join, JoinFails, NoticeBreak, NetOK
    <2>2. /\ link' \in [Clients -> Links] /\ inbox' \in [Clients -> Seq(Message)]
          /\ \A d \in Clients : inbox'[d] = <<>> \/ (inbox'[d] = inbox[d] /\ link'[d] = link[d])
      BY <2>1 DEF NetOK, Links
    <2>3. QED
      BY <2>1, <2>2, LinkNet
  <1>2. CASE Break(c)
    <2>1. /\ UNCHANGED redelivered
          /\ link' = [link EXCEPT ![c] = "broken"] /\ inbox' = [inbox EXCEPT ![c] = <<>>]
      BY <1>2 DEF Break
    <2>2. "broken" \in Links /\ <<>> \in Seq(Message)
      BY EmptySeq DEF Links
    <2>3. /\ link' \in [Clients -> Links] /\ inbox' \in [Clients -> Seq(Message)]
          /\ \A d \in Clients : inbox'[d] = <<>> \/ (inbox'[d] = inbox[d] /\ link'[d] = link[d])
      BY <2>1, <2>2 DEF NetOK
    <2>4. QED
      BY <2>1, <2>3, LinkNet
  <1>3. CASE Redeliver(c)
    BY <1>3, RedeliverNet
  <1>4. ASSUME NEW d \in Namesakes[c], TakeOver(c, d)
        PROVE  NetOK' /\ Spread({})
    BY <1>4, TakeOverNet
  <1>5. QED
    BY <1>1, <1>2, <1>3, <1>4


-----------------------------------------------------------------------------
(* What was offered once stays offered.                                     *)
OffersGrow == \A p \in Producers : offered[p] \subseteq offered'[p]

(* Some producer has asked for the price of this order.                     *)
PriceAsked(order) ==
    \E p \in Producers : \E o \in offered[p] : o.item = order.item /\ o.price = order.price

LEMMA TruthGrows ==
  ASSUME OffersGrow, NEW m
  PROVE  /\ Announced(m) => Announced(m)'
         /\ WasOffered(m) => WasOffered(m)'
         /\ PriceAsked(m) => PriceAsked(m)'
         /\ Truthful(m) => Truthful(m)'
  <1>1. ASSUME NEW o PROVE Announced(o) => Announced(o)'
    BY DEF OffersGrow, Announced
  <1>2. WasOffered(m) => WasOffered(m)'
    BY DEF OffersGrow, WasOffered
  <1>3. PriceAsked(m) => PriceAsked(m)'
    BY DEF OffersGrow, PriceAsked
  <1>4. Announced(Payload(m)) => Announced(Payload(m))'
    BY <1>1
  <1>5. Truthful(m) => Truthful(m)'
    BY <1>2, <1>4 DEF Truthful
  <1>6. QED
    BY <1>1, <1>2, <1>3, <1>5

LEMMA MailKept ==
  ASSUME MailOK, OffersGrow, NEW msgs, Spread(msgs), \A m \in msgs : Truthful(m)'
  PROVE  MailOK'
  <1>1. ASSUME NEW c \in Clients, NEW k \in DOMAIN inbox'[c], NEW m, m = inbox'[c][k]
        PROVE  Truthful(m)'
    <2>1. m \in msgs \/ Waits(c, m)
      BY <1>1 DEF Spread
    <2>2. CASE m \in msgs
      BY <2>2
    <2>3. CASE Waits(c, m)
      <3>1. Truthful(m)
        BY <2>3 DEF Waits, MailOK
      <3>2. QED
        BY <3>1, TruthGrows
    <2>4. QED
      BY <2>1, <2>2, <2>3
  <1>2. QED
    BY <1>1 DEF MailOK, Truthful, Announced, WasOffered

LEMMA HandsKept ==
  ASSUME OffersGrow,
         \A s \in Stores : at'[s] = "trim" => Announced(Payload(handling'[s])),
         \A s \in Stores : at'[s] = "restock" => WasOffered(handling'[s]),
         \A s \in Stores : activeOrder'[s].item # NoItem => PriceAsked(activeOrder'[s])
  PROVE  HandsOK' /\ OrderPriceWasAsked'
  <1>1. ASSUME NEW s \in Stores
        PROVE  at'[s] = "trim" => Announced(Payload(handling[s]))'
    BY DEF OffersGrow, Announced
  <1>2. ASSUME NEW s \in Stores
        PROVE  at'[s] = "restock" => WasOffered(handling[s])'
    BY DEF OffersGrow, WasOffered
  <1>3. ASSUME NEW s \in Stores
        PROVE  activeOrder'[s].item # NoItem => PriceAsked(activeOrder[s])'
    BY DEF OffersGrow, PriceAsked
  <1>4. HandsOK'
    BY <1>1, <1>2 DEF HandsOK
  <1>5. OrderPriceWasAsked'
    BY <1>3 DEF OrderPriceWasAsked, PriceAsked
  <1>6. QED
    BY <1>4, <1>5

LEMMA HandsUntouched ==
  ASSUME HandsOK, OrderPriceWasAsked, OffersGrow, UNCHANGED storeVars
  PROVE  HandsOK' /\ OrderPriceWasAsked'
  <1>1. UNCHANGED <<at, handling, activeOrder>>
    BY DEF storeVars, loopVars
  <1>2. \A s \in Stores : at'[s] = "trim" => Announced(Payload(handling'[s]))
    BY <1>1 DEF HandsOK
  <1>3. \A s \in Stores : at'[s] = "restock" => WasOffered(handling'[s])
    BY <1>1 DEF HandsOK
  <1>4. \A s \in Stores : activeOrder'[s].item # NoItem => PriceAsked(activeOrder'[s])
    BY <1>1 DEF OrderPriceWasAsked, PriceAsked
  <1>5. QED
    BY <1>2, <1>3, <1>4, HandsKept

(* A step of a producer or of the network.                                  *)
LEMMA OutsideInv ==
  ASSUME MarketInv, UNCHANGED storeVars, ProducersOK', NetOK', HistoryOK', RememberedOK',
         OffersGrow, NEW msgs, Spread(msgs), \A m \in msgs : Truthful(m)'
  PROVE  MarketInv'
  <1>1. StoreInv'
    BY StepInv DEF MarketInv
  <1>2. MailOK'
    BY MailKept DEF MarketInv
  <1>3. HandsOK' /\ OrderPriceWasAsked'
    BY HandsUntouched DEF MarketInv
  <1>4. QED
    BY <1>1, <1>2, <1>3 DEF MarketInv

(* A step of store s.                                                       *)
LEMMA StoreSideInv ==
  ASSUME MarketInv, StoreInv', NEW s \in Stores,
         UNCHANGED <<producerVars, offered>>, balance' \in Int,
         NetOK', NEW msgs, Spread(msgs), \A m \in msgs : m.kind \notin {"offer", "confirm"},
         \A t \in Stores : t # s => /\ at'[t] \in {at[t], "exited"}
                                    /\ handling'[t] = handling[t]
                                    /\ activeOrder'[t] = activeOrder[t],
         at'[s] = "trim" => Announced(Payload(handling'[s])),
         at'[s] = "restock" => WasOffered(handling'[s]),
         activeOrder'[s].item # NoItem => PriceAsked(activeOrder'[s])
  PROVE  MarketInv'
  <1>1. OffersGrow
    BY DEF OffersGrow
  <1>2. ProducersOK' /\ HistoryOK' /\ RememberedOK'
    BY DEF MarketInv, ProducersOK, HistoryOK, RememberedOK, producerVars
  <1>3. MailOK'
    <2>1. \A m \in msgs : Truthful(m)'
      BY DEF Truthful
    <2>2. QED
      BY <1>1, <2>1, MailKept DEF MarketInv
  <1>4. \A t \in Stores : at'[t] = "trim" => Announced(Payload(handling'[t]))
    BY DEF MarketInv, HandsOK
  <1>5. \A t \in Stores : at'[t] = "restock" => WasOffered(handling'[t])
    BY DEF MarketInv, HandsOK
  <1>6. \A t \in Stores : activeOrder'[t].item # NoItem => PriceAsked(activeOrder'[t])
    BY DEF MarketInv, OrderPriceWasAsked, PriceAsked
  <1>7. HandsOK' /\ OrderPriceWasAsked'
    BY <1>1, <1>4, <1>5, <1>6, HandsKept
  <1>8. QED
    BY <1>2, <1>3, <1>7 DEF MarketInv


-----------------------------------------------------------------------------
(* The steps of a store.                                                    *)
LEMMA ClientKinds == Stores \subseteq Clients /\ Producers \subseteq Clients
  BY MarketAssumption

(* A demand asks for what the shelf has room for.                           *)
LEMMA DemandIsMessage ==
  ASSUME StoreInv, NEW s \in Stores
  PROVE  Demand(s) \in Message /\ Demand(s).kind = "demand"
  <1> DEFINE i == ItemOrder[cursor[s]]
  <1>1. i \in Items
    <2>1. cursor[s] \in 1..Len(ItemOrder)
      BY DEF StoreInv, StoreTypeOK
    <2>2. QED
      BY <2>1, RangeItems
  <1>2. itemStock[s][i] \in Nat /\ itemStock[s][i] <= INITIAL_STOCK
    BY <1>1 DEF StoreInv, StoreTypeOK, StockCap
  <1>3. INITIAL_STOCK - itemStock[s][i] \in Nat
    BY <1>2, StoreAssumption
  <1>4. Limit(s, i) \in Nat
    <2>1. demandCount[s][i] \in Nat /\ itemPrices[s][i] \in Nat
      BY <1>1, StoreAssumption, SMTT(40) DEF StoreInv, StoreTypeOK
    <2>2. itemPrices[s][i] \div 2 \in Nat
      BY <2>1
    <2>3. demandCount[s][i] \div OFFER_DELAY \in Nat
      BY <2>1, StoreAssumption, DivMonotone
    <2>4. (demandCount[s][i] \div OFFER_DELAY) * PRICE_INCREASE \in Nat
      BY <2>3, StoreAssumption, TimesMonotone
    <2>5. QED
      BY <2>2, <2>4 DEF Limit
  <1> HIDE DEF i
  <1>5. [kind |-> "demand", item |-> i, price |-> Limit(s, i),
         amount |-> INITIAL_STOCK - itemStock[s][i]] \in Message
    BY <1>1, <1>3, <1>4 DEF Message, Kinds
  <1>6. QED
    BY <1>5 DEF Demand, i

(* Steps of the loop outside the handler.                                   *)
LEMMA LoopMarket ==
  ASSUME MarketInv, NEW s \in Stores,
         EnterLoop(s) \/ LeaveLoop(s) \/ Exit(s) \/ StopLoop(s) \/ PassItem(s) \/ CountItem(s),
         UNCHANGED <<producerVars, history>>,
         NetOK', NEW msgs, Spread(msgs), \A m \in msgs : m.kind \notin {"offer", "confirm"}
  PROVE  MarketInv'
  <1>1. StoreInv'
    BY LoopInv, SweepInv DEF MarketInv
  <1>2. /\ UNCHANGED <<handling, activeOrder>>
        /\ \A t \in Stores : at'[t] = at[t] \/ at'[t] \in {"loop", "sweep", "exited", "top"}
        /\ \A t \in Stores : t # s => at'[t] \in {at[t], "exited"}
    <2>1. UNCHANGED <<handling, activeOrder>>
      BY DEF EnterLoop, LeaveLoop, Exit, StopLoop, loopVars, PassItem, CountItem, NextItem
    <2>2. \/ at' = [at EXCEPT ![s] = "loop"] \/ at' = [at EXCEPT ![s] = "sweep"]
          \/ at' = [at EXCEPT ![s] = "top"] \/ at' = at
          \/ at' = [t \in Stores |-> "exited"]
      BY DEF EnterLoop, LeaveLoop, Exit, StopLoop, loopVars, PassItem, CountItem, NextItem
    <2>3. at \in [Stores -> Positions]
      BY DEF MarketInv, StoreInv, StoreTypeOK
    <2>4. QED
      BY <2>1, <2>2, <2>3
  <1>3. UNCHANGED <<producerVars, offered>> /\ balance' \in Int
    BY DEF MarketInv, HistoryOK, history
  <1>4. /\ at'[s] = "trim" => Announced(Payload(handling'[s]))
        /\ at'[s] = "restock" => WasOffered(handling'[s])
    BY <1>2 DEF MarketInv, HandsOK
  <1>5. activeOrder'[s].item # NoItem => PriceAsked(activeOrder'[s])
    BY <1>2 DEF MarketInv, OrderPriceWasAsked, PriceAsked
  <1>6. \A t \in Stores : t # s => /\ at'[t] \in {at[t], "exited"}
                                   /\ handling'[t] = handling[t]
                                   /\ activeOrder'[t] = activeOrder[t]
    BY <1>2
  <1>7. QED
    BY <1>1, <1>3, <1>4, <1>5, <1>6, StoreSideInv

LEMMA SweepsMarket ==
  ASSUME MarketInv, NEW s \in Stores, Sweeps(s)
  PROVE  MarketInv'
  <1>1. UNCHANGED <<producerVars, history>>
    BY DEF Sweeps
  <1>2. CASE (EnterLoop(s) \/ LeaveLoop(s) \/ PassItem(s) \/ WaitItem(s)) /\ UNCHANGED netVars
    <2>1. EnterLoop(s) \/ LeaveLoop(s) \/ PassItem(s) \/ CountItem(s)
      BY <1>2 DEF WaitItem
    <2>2. NetOK' /\ Spread({})
      BY <1>2, UnchangedNet DEF MarketInv
    <2>3. QED
      BY <1>1, <2>1, <2>2, LoopMarket
  <1>3. CASE DemandItem(s) /\ Post(s, Demand(s))
    <2>1. CountItem(s)
      BY <1>3 DEF DemandItem
    <2>2. Demand(s) \in Message /\ Demand(s).kind = "demand"
      BY DemandIsMessage DEF MarketInv
    <2>3. NetOK' /\ Spread({Demand(s)})
      BY <1>3, <2>2, PostNet, ClientKinds DEF MarketInv
    <2>4. \A m \in {Demand(s)} : m.kind \notin {"offer", "confirm"}
      BY <2>2
    <2>5. QED
      BY <1>1, <2>1, <2>3, <2>4, LoopMarket
  <1>4. QED
    BY <1>2, <1>3 DEF Sweeps

LEMMA QuitsMarket ==
  ASSUME MarketInv, NEW s \in Stores, Quits(s)
  PROVE  MarketInv'
  <1>1. Exit(s) /\ UNCHANGED <<producerVars, history>>
    BY DEF Quits
  <1>2. NetOK' /\ Spread({})
    BY QuitNet DEF Quits, MarketInv
  <1>3. QED
    BY <1>1, <1>2, LoopMarket

LEMMA IsStoppedMarket ==
  ASSUME MarketInv, NEW s \in Stores, IsStopped(s)
  PROVE  MarketInv'
  <1>1. StopLoop(s) /\ UNCHANGED <<producerVars, netVars, history>>
    BY DEF IsStopped
  <1>2. NetOK' /\ Spread({})
    BY <1>1, UnchangedNet DEF MarketInv
  <1>3. QED
    BY <1>1, <1>2, LoopMarket


(* An order that was published, or was not, for an offer that was made.     *)
LEMMA PlaceMarket ==
  ASSUME MarketInv, StoreInv', NEW s \in Stores, NEW m \in Message, NEW n \in Nat,
         NEW sent \in BOOLEAN, Announced(Payload(m)),
         Remember(s, OrderFor(m, n), sent), Served(s),
         \A t \in Stores : t # s => handling'[t] = handling[t],
         UNCHANGED <<producerVars, history>>,
         NetOK', Spread({OrderFor(m, n)})
  PROVE  MarketInv'
  <1> DEFINE order == OrderFor(m, n)
  <1>1. order.kind = "order" /\ order.item = m.item /\ order.price = m.price
    BY DEF OrderFor, Message
  <1>2. PriceAsked(Payload(order))
    BY <1>1 DEF PriceAsked, Announced, Payload
  <1>3. at' = [at EXCEPT ![s] = "served"] /\ at \in [Stores -> Positions]
    BY DEF Served, MarketInv, StoreInv, StoreTypeOK
  <1>4. /\ activeOrder' = activeOrder \/ activeOrder' = [activeOrder EXCEPT ![s] = Payload(order)]
        /\ activeOrder \in [Stores -> Payloads]
    BY DEF Remember, MarketInv, StoreInv, StoreTypeOK
  <1>5. at'[s] # "trim" /\ at'[s] # "restock"
    BY <1>3
  <1>6. activeOrder'[s].item # NoItem => PriceAsked(activeOrder'[s])
    <2>1. CASE activeOrder' = activeOrder
      BY <2>1 DEF MarketInv, OrderPriceWasAsked, PriceAsked
    <2>2. CASE activeOrder'[s] = Payload(order)
      BY <1>2, <2>2
    <2>3. QED
      BY <1>4, <2>1, <2>2
  <1>7. \A t \in Stores : t # s => /\ at'[t] \in {at[t], "exited"}
                                   /\ handling'[t] = handling[t]
                                   /\ activeOrder'[t] = activeOrder[t]
    BY <1>3, <1>4
  <1>8. UNCHANGED <<producerVars, offered>> /\ balance' \in Int
    BY DEF MarketInv, HistoryOK, history
  <1>9. \A o \in {order} : o.kind \notin {"offer", "confirm"}
    BY <1>1
  <1>10. QED
    BY <1>5, <1>6, <1>7, <1>8, <1>9, StoreSideInv

(* A message that is looked at and dropped, or that is kept in hand.        *)
LEMMA TakeMarket ==
  ASSUME MarketInv, StoreInv', NEW s \in Stores, NEW m \in Message,
         UNCHANGED <<activeOrder, producerVars, history>>,
         NetOK', Spread({}),
         \/ at' = [at EXCEPT ![s] = "served"] /\ UNCHANGED handling
         \/ /\ at' = [at EXCEPT ![s] = "trim"] /\ Announced(Payload(m))
            /\ handling' = [handling EXCEPT ![s] = m]
         \/ /\ at' = [at EXCEPT ![s] = "restock"] /\ WasOffered(m)
            /\ handling' = [handling EXCEPT ![s] = m]
  PROVE  MarketInv'
  <1>1. /\ at \in [Stores -> Positions]
        /\ DOMAIN handling = Stores
    BY DEF MarketInv, StoreInv, StoreTypeOK
  <1>2. /\ at'[s] = "trim" => Announced(Payload(handling'[s]))
        /\ at'[s] = "restock" => WasOffered(handling'[s])
    BY <1>1
  <1>3. \A t \in Stores : t # s => at'[t] = at[t] /\ handling'[t] = handling[t]
    BY <1>1
  <1>4. \A t \in Stores : t # s => /\ at'[t] \in {at[t], "exited"}
                                   /\ handling'[t] = handling[t]
                                   /\ activeOrder'[t] = activeOrder[t]
    BY <1>3
  <1>5. activeOrder'[s].item # NoItem => PriceAsked(activeOrder'[s])
    BY DEF MarketInv, OrderPriceWasAsked, PriceAsked
  <1>6. UNCHANGED <<producerVars, offered>> /\ balance' \in Int
    BY DEF MarketInv, HistoryOK, history
  <1>7. QED
    BY <1>2, <1>4, <1>5, <1>6, StoreSideInv

LEMMA MailIsTruthful ==
  ASSUME MarketInv, NEW c \in Clients, HasMail(c)
  PROVE  Mail(c) \in Message /\ Truthful(Mail(c))
  <1>1. Mail(c) \in Message /\ Waits(c, Mail(c))
    BY MailIsMessage DEF MarketInv
  <1>2. QED
    BY <1>1 DEF Waits, MarketInv, MailOK

LEMMA HearsOfferMarket ==
  ASSUME MarketInv, NEW s \in Stores, HearsOffer(s)
  PROVE  MarketInv'
  <1> DEFINE m == Mail(s)
  <1>1. HasMail(s) /\ UNCHANGED <<producerVars, history>> /\ s \in Clients
    BY ClientKinds DEF HearsOffer
  <1>2. m \in Message /\ Truthful(m)
    BY <1>1, MailIsTruthful
  <1>3. \/ IgnoreOffer(s, m) /\ Consume(s)
        \/ TrimOffer(s, m) /\ Consume(s)
        \/ OrderOffer(s, m, Sends(s)) /\ ConsumeAndPost(s, OrderFor(m, m.amount))
    BY DEF HearsOffer
  <1> HIDE DEF m
  <1>4. CASE IgnoreOffer(s, m) /\ Consume(s)
    <2>1. StoreInv'
      BY <1>2, <1>4, IgnoreInv DEF MarketInv
    <2>2. NetOK' /\ Spread({})
      BY <1>1, <1>4, ConsumeNet DEF MarketInv
    <2>3. /\ at' = [at EXCEPT ![s] = "served"] /\ UNCHANGED handling
          /\ UNCHANGED <<activeOrder, producerVars, history>>
      BY <1>1, <1>4 DEF IgnoreOffer, Served
    <2>4. QED
      BY <1>2, <2>1, <2>2, <2>3, TakeMarket
  <1>5. CASE TrimOffer(s, m) /\ Consume(s)
    <2>1. StoreInv'
      BY <1>2, <1>5, TrimOfferInv DEF MarketInv
    <2>2. NetOK' /\ Spread({})
      BY <1>1, <1>5, ConsumeNet DEF MarketInv
    <2>3. /\ at' = [at EXCEPT ![s] = "trim"] /\ handling' = [handling EXCEPT ![s] = m]
          /\ UNCHANGED <<activeOrder, producerVars, history>>
      BY <1>1, <1>5 DEF TrimOffer
    <2>4. Announced(Payload(m))
      BY <1>2, <1>5 DEF TrimOffer, Wanted, Truthful
    <2>5. QED
      BY <1>2, <2>1, <2>2, <2>3, <2>4, TakeMarket
  <1>6. CASE OrderOffer(s, m, Sends(s)) /\ ConsumeAndPost(s, OrderFor(m, m.amount))
    <2>1. Sends(s) \in BOOLEAN /\ m.amount \in Nat
      BY <1>2 DEF Sends, Message
    <2>2. StoreInv'
      BY <1>2, <1>6, <2>1, OrderOfferInv DEF MarketInv
    <2>3. OrderFor(m, m.amount) \in Message
      BY <1>2 DEF OrderFor, Message, Kinds
    <2>4. NetOK' /\ Spread({OrderFor(m, m.amount)})
      BY <1>1, <1>6, <2>3, ConsumeAndPostNet DEF MarketInv
    <2>5. /\ Remember(s, OrderFor(m, m.amount), Sends(s)) /\ Served(s)
          /\ \A t \in Stores : t # s => handling'[t] = handling[t]
      BY <1>6 DEF OrderOffer
    <2>6. Announced(Payload(m))
      BY <1>2, <1>6 DEF OrderOffer, Wanted, Truthful
    <2>7. QED
      BY <1>1, <1>2, <2>1, <2>2, <2>4, <2>5, <2>6, PlaceMarket
  <1>7. QED
    BY <1>3, <1>4, <1>5, <1>6


LEMMA TrimsOrderMarket ==
  ASSUME MarketInv, NEW s \in Stores, TrimsOrder(s)
  PROVE  MarketInv'
  <1> DEFINE m == handling[s]
             n == Room(s)
  <1>1. /\ OrderTrimmed(s, Sends(s)) /\ Post(s, OrderFor(m, n))
        /\ UNCHANGED <<producerVars, history>> /\ s \in Clients
    BY ClientKinds DEF TrimsOrder
  <1>2. at[s] = "trim"
    BY <1>1 DEF OrderTrimmed
  <1>3. OrderFor(m, n) \in Message /\ m.item \in Items
    BY <1>2, TrimmedOrder DEF MarketInv
  <1>4. m \in Message
    BY <1>3 DEF MarketInv, StoreInv, StoreTypeOK, Message
  <1>5. n \in Nat
    BY <1>3, <1>4 DEF OrderFor, Message
  <1>6. Announced(Payload(m))
    BY <1>2 DEF MarketInv, HandsOK
  <1>7. Sends(s) \in BOOLEAN
    BY DEF Sends
  <1>8. StoreInv'
    BY <1>1, <1>7, OrderTrimmedInv DEF MarketInv
  <1>9. NetOK' /\ Spread({OrderFor(m, n)})
    BY <1>1, <1>3, PostNet DEF MarketInv
  <1>10. /\ Remember(s, OrderFor(m, n), Sends(s)) /\ Served(s)
         /\ \A t \in Stores : t # s => handling'[t] = handling[t]
    <2>1. handling' = [handling EXCEPT ![s] = NoMessage]
      BY <1>1 DEF OrderTrimmed
    <2>2. DOMAIN handling = Stores
      BY DEF MarketInv, StoreInv, StoreTypeOK
    <2>3. \A t \in Stores : t # s => handling'[t] = handling[t]
      BY <2>1, <2>2
    <2>4. QED
      BY <1>1, <2>3 DEF OrderTrimmed
  <1> HIDE DEF m, n
  <1>11. QED
    BY <1>1, <1>4, <1>5, <1>6, <1>7, <1>8, <1>9, <1>10, PlaceMarket

LEMMA HearsConfirmMarket ==
  ASSUME MarketInv, NEW s \in Stores, HearsConfirm(s)
  PROVE  MarketInv'
  <1> DEFINE m == Mail(s)
  <1>1. HasMail(s) /\ Consume(s) /\ UNCHANGED <<producerVars, history>> /\ s \in Clients
    BY ClientKinds DEF HearsConfirm
  <1>2. m \in Message /\ Truthful(m)
    BY <1>1, MailIsTruthful
  <1>3. IgnoreConfirm(s, m) \/ ReadRestock(s, m)
    BY DEF HearsConfirm
  <1>4. NetOK' /\ Spread({})
    BY <1>1, ConsumeNet DEF MarketInv
  <1> HIDE DEF m
  <1>5. CASE IgnoreConfirm(s, m)
    <2>1. StoreInv'
      BY <1>2, <1>5, IgnoreInv DEF MarketInv
    <2>2. /\ at' = [at EXCEPT ![s] = "served"] /\ UNCHANGED handling
          /\ UNCHANGED <<activeOrder, producerVars, history>>
      BY <1>1, <1>5 DEF IgnoreConfirm, Served
    <2>3. QED
      BY <1>2, <1>4, <2>1, <2>2, TakeMarket
  <1>6. CASE ReadRestock(s, m)
    <2>1. StoreInv'
      BY <1>2, <1>6, ReadRestockInv DEF MarketInv
    <2>2. /\ at' = [at EXCEPT ![s] = "restock"] /\ handling' = [handling EXCEPT ![s] = m]
          /\ UNCHANGED <<activeOrder, producerVars, history>>
      BY <1>1, <1>6 DEF ReadRestock
    <2>3. WasOffered(m)
      BY <1>2, <1>6 DEF ReadRestock, Truthful
    <2>4. QED
      BY <1>2, <1>4, <2>1, <2>2, <2>3, TakeMarket
  <1>7. QED
    BY <1>3, <1>5, <1>6

LEMMA RestocksMarket ==
  ASSUME MarketInv, NEW s \in Stores, Restocks(s)
  PROVE  MarketInv'
  <1>1. WriteRestock(s) /\ balance' = balance - 1 /\ UNCHANGED <<producerVars, netVars, offered>>
    BY DEF Restocks
  <1>2. StoreInv'
    BY <1>1, WriteRestockInv DEF MarketInv
  <1>3. NetOK' /\ Spread({})
    BY <1>1, UnchangedNet DEF MarketInv
  <1>4. /\ at \in [Stores -> Positions] /\ DOMAIN handling = Stores
        /\ activeOrder \in [Stores -> Payloads]
    BY DEF MarketInv, StoreInv, StoreTypeOK
  <1>5. /\ at' = [at EXCEPT ![s] = "served"]
        /\ handling' = [handling EXCEPT ![s] = NoMessage]
        /\ activeOrder' = [activeOrder EXCEPT ![s].item = NoItem]
    BY <1>1 DEF WriteRestock, CloseOrder
  <1>6. at'[s] # "trim" /\ at'[s] # "restock"
    BY <1>4, <1>5
  <1>7. activeOrder'[s].item = NoItem
    BY <1>4, <1>5 DEF Payloads
  <1>8. \A t \in Stores : t # s =>
           at'[t] = at[t] /\ handling'[t] = handling[t] /\ activeOrder'[t] = activeOrder[t]
    BY <1>4, <1>5
  <1>9. \A t \in Stores : t # s => /\ at'[t] \in {at[t], "exited"}
                                   /\ handling'[t] = handling[t]
                                   /\ activeOrder'[t] = activeOrder[t]
    BY <1>8
  <1>10. balance' \in Int
    BY <1>1 DEF MarketInv, HistoryOK
  <1>11. QED
    BY <1>1, <1>2, <1>3, <1>6, <1>7, <1>9, <1>10, StoreSideInv

LEMMA SellsMarket ==
  ASSUME MarketInv, NEW s \in Stores, Sells(s)
  PROVE  MarketInv'
  <1>1. ServiceStep(s) /\ UNCHANGED <<producerVars, netVars, history>>
    BY DEF Sells
  <1>2. StoreInv'
    BY <1>1, BeginSaleInv, ReadSaleInv, WriteSaleInv DEF ServiceStep, MarketInv
  <1>3. NetOK' /\ Spread({})
    BY <1>1, UnchangedNet DEF MarketInv
  <1>4. UNCHANGED <<at, handling, activeOrder>>
    BY <1>1 DEF ServiceStep, CheckStock, ReadSale, WriteSale, loopVars
  <1>5. \A t \in Stores : t # s => /\ at'[t] \in {at[t], "exited"}
                                   /\ handling'[t] = handling[t]
                                   /\ activeOrder'[t] = activeOrder[t]
    BY <1>4
  <1>6. /\ at'[s] = "trim" => Announced(Payload(handling'[s]))
        /\ at'[s] = "restock" => WasOffered(handling'[s])
    BY <1>4 DEF MarketInv, HandsOK
  <1>7. activeOrder'[s].item # NoItem => PriceAsked(activeOrder'[s])
    BY <1>4 DEF MarketInv, OrderPriceWasAsked, PriceAsked
  <1>8. UNCHANGED <<producerVars, offered>> /\ balance' \in Int
    BY <1>1 DEF MarketInv, HistoryOK, history
  <1>9. QED
    BY <1>2, <1>3, <1>5, <1>6, <1>7, <1>8, StoreSideInv


-----------------------------------------------------------------------------
(* The steps of a producer.                                                 *)

LEMMA ReplyIsMessage ==
  ASSUME NEW m \in Message, NEW kind \in Kinds
  PROVE  /\ Reply(kind, m) \in Message
         /\ Reply(kind, m).kind = kind
         /\ Payload(Reply(kind, m)) = Payload(m)
         /\ Reply(kind, m).item = m.item
         /\ Reply(kind, m).price = m.price /\ Reply(kind, m).amount = m.amount
  BY DEF Reply, Payload, Message

LEMMA PayloadIsPayload ==
  ASSUME NEW m \in Message
  PROVE  /\ Payload(m) \in Payloads
         /\ Payload(m).item = m.item
         /\ Payload(m).price = m.price /\ Payload(m).amount = m.amount
  BY DEF Payload, Payloads, Message

(* An offer is made, remembered and published.                              *)
LEMMA OfferMarket ==
  ASSUME MarketInv, NEW p \in Producers, NEW m \in Message, NEW offer \in Message,
         offer.kind = "offer", Payload(offer) = Payload(m),
         saveOffer(p, m), Offers(p, m),
         ownOffers' \in [Producers -> Nat], UNCHANGED <<stopProducer, left, storeVars>>,
         NetOK', Spread({offer})
  PROVE  MarketInv'
  <1>1. Payload(m) \in Payloads
    BY PayloadIsPayload
  <1>2. /\ lastOffer' = [lastOffer EXCEPT ![p] = Payload(m)]
        /\ offered' = [offered EXCEPT ![p] = offered[p] \cup {Payload(m)}]
        /\ UNCHANGED balance
    BY DEF saveOffer, Offers
  <1>3. /\ lastOffer \in [Producers -> Payloads]
        /\ offered \in [Producers -> SUBSET Payloads]
    BY DEF MarketInv, ProducersOK, HistoryOK
  <1>4. /\ lastOffer' \in [Producers -> Payloads]
        /\ offered' \in [Producers -> SUBSET Payloads]
    BY <1>1, <1>2, <1>3
  <1>5. ProducersOK' /\ HistoryOK'
    BY <1>2, <1>4 DEF MarketInv, ProducersOK, HistoryOK
  <1>6. /\ Payload(m) \in offered'[p] /\ lastOffer'[p] = Payload(m)
        /\ \A q \in Producers : q # p => offered'[q] = offered[q] /\ lastOffer'[q] = lastOffer[q]
        /\ offered[p] \subseteq offered'[p]
    BY <1>2, <1>3
  <1>7. OffersGrow
    BY <1>6 DEF OffersGrow
  <1>8. RememberedOK'
    BY <1>6 DEF MarketInv, RememberedOK
  <1>9. \A x \in {offer} : Truthful(x)'
    <2>1. Announced(Payload(offer))'
      BY <1>6 DEF Announced
    <2>2. QED
      BY <2>1 DEF Truthful
  <1>10. QED
    BY <1>5, <1>7, <1>8, <1>9, OutsideInv

(* A message is dropped: nothing but the mailbox changes.                   *)
LEMMA DropMarket ==
  ASSUME MarketInv, UNCHANGED <<storeVars, lastOffer, ownOffers, history>>,
         stopProducer' \in [Producers -> BOOLEAN], left' \in [Producers -> BOOLEAN],
         NetOK', Spread({})
  PROVE  MarketInv'
  <1>1. ProducersOK' /\ HistoryOK' /\ RememberedOK'
    BY DEF MarketInv, ProducersOK, HistoryOK, RememberedOK, history
  <1>2. OffersGrow
    BY DEF OffersGrow, history
  <1>3. QED
    BY <1>1, <1>2, OutsideInv

LEMMA HearsDemandMarket ==
  ASSUME MarketInv, NEW p \in Producers, HearsDemand(p)
  PROVE  MarketInv'
  <1> DEFINE m == Mail(p)
  <1>1. HasMail(p) /\ UNCHANGED storeVars /\ p \in Clients
    BY ClientKinds DEF HearsDemand
  <1>2. m \in Message
    BY <1>1, MailIsTruthful
  <1>3. \/ AnswerDemand(p, m) /\ ConsumeAndPost(p, Reply("offer", m)) /\ Offers(p, m)
        \/ IgnoreDemand(p, m) /\ Consume(p) /\ UNCHANGED history
    BY DEF HearsDemand
  <1> HIDE DEF m
  <1>4. CASE AnswerDemand(p, m) /\ ConsumeAndPost(p, Reply("offer", m)) /\ Offers(p, m)
    <2>1. "offer" \in Kinds
      BY DEF Kinds
    <2>2. /\ Reply("offer", m) \in Message /\ Reply("offer", m).kind = "offer"
          /\ Payload(Reply("offer", m)) = Payload(m)
      BY <1>2, <2>1, ReplyIsMessage
    <2>3. NetOK' /\ Spread({Reply("offer", m)})
      BY <1>1, <1>4, <2>2, ConsumeAndPostNet DEF MarketInv
    <2>4. saveOffer(p, m) /\ UNCHANGED <<stopProducer, left, storeVars>>
      BY <1>1, <1>4 DEF AnswerDemand
    <2>5. ownOffers' \in [Producers -> Nat]
      BY <1>4 DEF AnswerDemand, MarketInv, ProducersOK
    <2>6. QED
      BY <1>2, <1>4, <2>2, <2>3, <2>4, <2>5, OfferMarket
  <1>5. CASE IgnoreDemand(p, m) /\ Consume(p) /\ UNCHANGED history
    <2>1. NetOK' /\ Spread({})
      BY <1>1, <1>5, ConsumeNet DEF MarketInv
    <2>2. UNCHANGED <<storeVars, lastOffer, stopProducer, left, ownOffers, history>>
      BY <1>1, <1>5 DEF IgnoreDemand, producerVars
    <2>3. stopProducer' \in [Producers -> BOOLEAN] /\ left' \in [Producers -> BOOLEAN]
      BY <2>2 DEF MarketInv, ProducersOK
    <2>4. QED
      BY <2>1, <2>2, <2>3, DropMarket
  <1>6. QED
    BY <1>3, <1>4, <1>5

LEMMA HearsOrderMarket ==
  ASSUME MarketInv, NEW p \in Producers, HearsOrder(p)
  PROVE  MarketInv'
  <1> DEFINE m == Mail(p)
             answer == Reply("confirm", m)
  <1>1. HasMail(p) /\ UNCHANGED storeVars /\ p \in Clients
    BY ClientKinds DEF HearsOrder
  <1>2. m \in Message
    BY <1>1, MailIsTruthful
  <1>3. \/ /\ AcceptOrder(p, m) /\ ConsumeAndPost(p, answer)
           /\ balance' = balance + 1 /\ UNCHANGED offered
        \/ IgnoreOrder(p, m) /\ Consume(p) /\ UNCHANGED history
    BY DEF HearsOrder, Refuses
  <1>4. "confirm" \in Kinds
    BY DEF Kinds
  <1>5. /\ answer \in Message /\ answer.kind = "confirm" /\ answer.item = m.item
        /\ answer.price = m.price /\ answer.amount = m.amount
    BY <1>2, <1>4, ReplyIsMessage
  <1> HIDE DEF m, answer
  <1>6. CASE /\ AcceptOrder(p, m) /\ ConsumeAndPost(p, answer)
             /\ balance' = balance + 1 /\ UNCHANGED offered
    <2>1. NetOK' /\ Spread({answer})
      BY <1>1, <1>5, <1>6, ConsumeAndPostNet DEF MarketInv
    <2>2. /\ lastOffer' = [lastOffer EXCEPT ![p].item = NoItem]
          /\ UNCHANGED <<stopProducer, left, ownOffers>> /\ Acceptable(p, m)
      BY <1>6 DEF AcceptOrder
    <2>3. lastOffer \in [Producers -> Payloads]
      BY DEF MarketInv, ProducersOK
    <2>4. /\ lastOffer' \in [Producers -> Payloads] /\ lastOffer'[p].item = NoItem
          /\ \A q \in Producers : q # p => lastOffer'[q] = lastOffer[q]
      BY <2>2, <2>3 DEF Payloads
    <2>5. ProducersOK'
      BY <2>2, <2>4 DEF MarketInv, ProducersOK
    <2>6. HistoryOK' /\ OffersGrow
      BY <1>6 DEF MarketInv, HistoryOK, OffersGrow
    <2>7. RememberedOK'
      BY <1>6, <2>4 DEF MarketInv, RememberedOK
    <2>8. lastOffer[p] \in offered[p]
      <3>1. m.item \in Items /\ lastOffer[p].item = m.item
        BY <1>2, <2>2 DEF Message, Acceptable
      <3>2. QED
        BY <3>1, TradeAssumption DEF MarketInv, RememberedOK
    <2>9. Covers(lastOffer[p], answer)
      <3>1. /\ m.price \in Nat /\ m.amount \in Nat
            /\ lastOffer[p].price \in Nat /\ lastOffer[p].amount \in Nat
        BY <1>2, <2>3 DEF Message, Payloads
      <3>2. QED
        BY <1>5, <2>2, <3>1 DEF Covers, Acceptable
    <2>10. WasOffered(answer)
      BY <2>8, <2>9 DEF WasOffered
    <2>11. \A x \in {answer} : Truthful(x)'
      <3>1. ASSUME NEW x, x = answer PROVE Truthful(x)'
        <4>1. Truthful(x)
          BY <1>5, <2>10, <3>1 DEF Truthful
        <4>2. QED
          BY <2>6, <4>1, TruthGrows
      <3>2. QED
        BY <3>1
    <2>12. QED
      BY <1>1, <2>1, <2>5, <2>6, <2>7, <2>11, OutsideInv
  <1>7. CASE IgnoreOrder(p, m) /\ Consume(p) /\ UNCHANGED history
    <2>1. NetOK' /\ Spread({})
      BY <1>1, <1>7, ConsumeNet DEF MarketInv
    <2>2. UNCHANGED <<storeVars, lastOffer, stopProducer, left, ownOffers, history>>
      BY <1>1, <1>7 DEF IgnoreOrder, producerVars
    <2>3. stopProducer' \in [Producers -> BOOLEAN] /\ left' \in [Producers -> BOOLEAN]
      BY <2>2 DEF MarketInv, ProducersOK
    <2>4. QED
      BY <2>1, <2>2, <2>3, DropMarket
  <1>8. QED
    BY <1>3, <1>6, <1>7

LEMMA OffersOwnMarket ==
  ASSUME MarketInv, NEW p \in Producers, OffersOwn(p)
  PROVE  MarketInv'
  <1> PICK i \in Products[p], price \in OwnPrices, amount \in OwnAmounts :
         LET m == OfferOf(i, price, amount)
         IN  OfferOwn(p, i, price, amount) /\ Post(p, m) /\ Offers(p, m)
    BY DEF OffersOwn
  <1> DEFINE m == OfferOf(i, price, amount)
  <1>1. i \in Items /\ price \in Nat /\ amount \in Nat /\ p \in Clients
    BY ProducerAssumption, ClientKinds
  <1>2. m \in Message /\ m.kind = "offer"
    BY <1>1 DEF OfferOf, Message, Kinds
  <1>3. OfferOwn(p, i, price, amount) /\ Post(p, m) /\ Offers(p, m) /\ UNCHANGED storeVars
    BY DEF OffersOwn
  <1>4. /\ saveOffer(p, m) /\ UNCHANGED <<stopProducer, left, storeVars>>
        /\ ownOffers' = [ownOffers EXCEPT ![p] = ownOffers[p] + 1]
    BY <1>3 DEF OfferOwn
  <1> HIDE DEF m
  <1>5. ownOffers' \in [Producers -> Nat]
    BY <1>4 DEF MarketInv, ProducersOK
  <1>6. NetOK' /\ Spread({m})
    BY <1>1, <1>2, <1>3, PostNet DEF MarketInv
  <1>7. QED
    BY <1>2, <1>3, <1>4, <1>5, <1>6, OfferMarket

LEMMA LeavesMarket ==
  ASSUME MarketInv, NEW p \in Producers, Leaves(p) \/ IsStoppedToo(p)
  PROVE  MarketInv'
  <1>1. UNCHANGED <<storeVars, lastOffer, ownOffers, history>>
    BY DEF Leaves, Leave, IsStoppedToo, Stop
  <1>2. stopProducer' \in [Producers -> BOOLEAN] /\ left' \in [Producers -> BOOLEAN]
    BY DEF Leaves, Leave, IsStoppedToo, Stop, MarketInv, ProducersOK
  <1>3. NetOK' /\ Spread({})
    BY DisconnectNet, UnchangedNet, ClientKinds DEF Leaves, IsStoppedToo, MarketInv
  <1>4. QED
    BY <1>1, <1>2, <1>3, DropMarket

LEMMA NetworkMarket ==
  ASSUME MarketInv, Network
  PROVE  MarketInv'
  <1>1. /\ UNCHANGED <<storeVars, lastOffer, stopProducer, left, ownOffers, history>>
        /\ NetNext
    BY DEF Network, producerVars
  <1>2. stopProducer' \in [Producers -> BOOLEAN] /\ left' \in [Producers -> BOOLEAN]
    BY <1>1 DEF MarketInv, ProducersOK
  <1>3. NetOK' /\ Spread({})
    BY <1>1, NetworkNet DEF MarketInv
  <1>4. QED
    BY <1>1, <1>2, <1>3, DropMarket


-----------------------------------------------------------------------------
LEMMA MarketInit == Init => MarketInv
  <1> SUFFICES ASSUME Init PROVE MarketInv
    OBVIOUS
  <1>1. StoreInv
    BY InitInv DEF Init
  <1>2. ProducersOK
    BY DEF Init, ProducerInit, ProducersOK, NoPayload, Payloads
  <1>3. <<>> \in Seq(Message) /\ Len(<<>>) = 0
    BY EmptySeq
  <1>4. \A c \in Clients : inbox[c] = <<>>
    BY DEF Init, NetInit
  <1>5. NetOK
    BY <1>3, NetAssumption DEF Init, NetInit, NetOK, Links
  <1>6. HistoryOK /\ RememberedOK
    BY DEF Init, ProducerInit, HistoryOK, RememberedOK, NoPayload
  <1>7. MailOK
    <2>1. \A c \in Clients : DOMAIN inbox[c] = {}
      BY <1>4
    <2>2. QED
      BY <2>1 DEF MailOK
  <1>8. HandsOK /\ OrderPriceWasAsked
    BY DEF Init, StoreInit, HandsOK, OrderPriceWasAsked, NoPayload
  <1>9. QED
    BY <1>1, <1>2, <1>5, <1>6, <1>7, <1>8 DEF MarketInv

LEMMA MarketUnchanged == MarketInv /\ UNCHANGED vars => MarketInv'
  <1> SUFFICES ASSUME MarketInv, UNCHANGED vars PROVE MarketInv'
    OBVIOUS
  <1>1. UNCHANGED <<storeVars, lastOffer, stopProducer, left, ownOffers, history, netVars>>
    BY DEF vars, producerVars
  <1>2. stopProducer' \in [Producers -> BOOLEAN] /\ left' \in [Producers -> BOOLEAN]
    BY <1>1 DEF MarketInv, ProducersOK
  <1>3. NetOK' /\ Spread({})
    BY <1>1, UnchangedNet DEF MarketInv
  <1>4. QED
    BY <1>1, <1>2, <1>3, DropMarket

LEMMA MarketStep == MarketInv /\ [Next]_vars => MarketInv'
  <1> SUFFICES ASSUME MarketInv, [Next]_vars PROVE MarketInv'
    OBVIOUS
  <1>1. ASSUME NEW s \in Stores, StoreLoop(s) \/ Sells(s) \/ IsStopped(s)
        PROVE  MarketInv'
    BY <1>1, SweepsMarket, QuitsMarket, HearsOfferMarket, TrimsOrderMarket,
       HearsConfirmMarket, RestocksMarket, SellsMarket, IsStoppedMarket DEF StoreLoop
  <1>2. ASSUME NEW p \in Producers, ProducerLoop(p) \/ IsStoppedToo(p)
        PROVE  MarketInv'
    BY <1>2, HearsDemandMarket, HearsOrderMarket, OffersOwnMarket, LeavesMarket
    DEF ProducerLoop
  <1>3. CASE Network
    BY <1>3, NetworkMarket
  <1>4. CASE UNCHANGED vars
    BY <1>4, MarketUnchanged
  <1>5. QED
    BY <1>1, <1>2, <1>3, <1>4 DEF Next

(* In the market the stores keep all they keep alone, and every message is  *)
(* what StoreManager::on_mosqEvent and Producer::on_mosqEvent take it for.  *)
THEOREM MarketCorrect == Spec => []MarketInv
  BY MarketInit, MarketStep, PTL DEF Spec

(* No step of the handlers, of the broker or of a failing connection takes  *)
(* a variable out of its type, and a client that is not connected has no    *)
(* mail.                                                                    *)
THEOREM MarketTypeCorrect == Spec => []TypeOK
  <1>1. MarketInv => TypeOK
    BY DEF MarketInv, StoreInv, ProducersOK, NetOK, TypeOK
  <1>2. QED
    BY <1>1, MarketCorrect, PTL

(* A shelf is never overfilled by what producers send.                      *)
THEOREM MarketStockCap == Spec => []StockCap
  <1>1. MarketInv => StockCap
    BY DEF MarketInv, StoreInv
  <1>2. QED
    BY <1>1, MarketCorrect, PTL

(* No order is dearer than the store would pay now.                         *)
THEOREM MarketOrderWithinLimit == Spec => []OrderWithinLimit
  <1>1. MarketInv => OrderWithinLimit
    BY DEF MarketInv, StoreInv
  <1>2. QED
    BY <1>1, MarketCorrect, PTL

(* What is confirmed, and what a store books, was offered.                  *)
THEOREM DeliveriesCorrect == Spec => []DeliveriesWereOffered
  <1>1. MarketInv => DeliveriesWereOffered
    BY DEF MarketInv, MailOK, HandsOK, Truthful, DeliveriesWereOffered
  <1>2. QED
    BY <1>1, MarketCorrect, PTL

(* The price of an open order was asked by some producer.                   *)
THEOREM OrderPriceCorrect == Spec => []OrderPriceWasAsked
  <1>1. MarketInv => OrderPriceWasAsked
    BY DEF MarketInv
  <1>2. QED
    BY <1>1, MarketCorrect, PTL


-----------------------------------------------------------------------------
(* Counting confirmations.                                                  *)

Places(q) == {k \in 1..Len(q) : q[k].kind = "confirm"}
IsConfirm(m) == IF m.kind = "confirm" THEN 1 ELSE 0

LEMMA PlacesFinite ==
  ASSUME NEW q \in Seq(Message)
  PROVE  IsFiniteSet(Places(q)) /\ Confirms(q) = Cardinality(Places(q)) /\ Confirms(q) \in Nat
  <1>1. Len(q) \in Nat /\ IsFiniteSet(1..Len(q))
    BY FS_Interval
  <1>2. Places(q) \in SUBSET (1..Len(q))
    BY DEF Places
  <1>3. IsFiniteSet(Places(q))
    BY <1>1, <1>2, FS_Subset
  <1>4. QED
    BY <1>3, FS_CardinalityType DEF Confirms, Places

LEMMA ConfirmsEmpty == Confirms(<<>>) = 0
  <1>1. {k \in 1..Len(<<>>) : <<>>[k].kind = "confirm"} = {}
    OBVIOUS
  <1>2. QED
    BY <1>1, FS_EmptySet DEF Confirms

LEMMA ConfirmsAppend ==
  ASSUME NEW q \in Seq(Message), NEW m \in Message
  PROVE  Confirms(Append(q, m)) = Confirms(q) + IsConfirm(m)
  <1> DEFINE r == Append(q, m)
             last == Len(q) + 1
  <1>1. /\ r \in Seq(Message) /\ Len(r) = last /\ Len(q) \in Nat
        /\ \A k \in 1..Len(q) : r[k] = q[k]
        /\ r[last] = m
    BY AppendProperties
  <1> HIDE DEF r
  <1>2. IsFiniteSet(Places(q)) /\ last \notin Places(q) /\ Confirms(q) \in Nat
        /\ Confirms(q) = Cardinality(Places(q)) /\ Confirms(r) = Cardinality(Places(r))
    <2>1. last \notin Places(q)
      BY <1>1 DEF Places
    <2>2. QED
      BY <1>1, <2>1, PlacesFinite
  <1>3. CASE m.kind = "confirm"
    <2>1. Places(r) = Places(q) \cup {last}
      BY <1>1, <1>3 DEF Places
    <2>2. Cardinality(Places(q) \cup {last}) = Cardinality(Places(q)) + 1
      BY <1>2, FS_AddElement
    <2>3. QED
      BY <1>2, <1>3, <2>1, <2>2 DEF IsConfirm, r
  <1>4. CASE m.kind # "confirm"
    <2>1. Places(r) = Places(q)
      BY <1>1, <1>4 DEF Places
    <2>2. QED
      BY <1>2, <1>4, <2>1 DEF IsConfirm, r
  <1>5. QED
    BY <1>3, <1>4

LEMMA ConfirmsTail ==
  ASSUME NEW q \in Seq(Message), q # <<>>
  PROVE  Confirms(q) = Confirms(Tail(q)) + IsConfirm(Head(q))
  <1> DEFINE r == Tail(q)
             rest == Places(q) \ {1}
             shift == [k \in Places(r) |-> k + 1]
  <1>1. /\ r \in Seq(Message) /\ Len(r) = Len(q) - 1 /\ Len(q) \in Nat \ {0} /\ Len(r) \in Nat
        /\ \A k \in 1..Len(r) : r[k] = q[k + 1]
        /\ Head(q) = q[1]
    BY HeadTailProperties, EmptySeq
  <1> HIDE DEF r
  <1>2. /\ IsFiniteSet(Places(q)) /\ IsFiniteSet(Places(r))
        /\ Confirms(q) = Cardinality(Places(q)) /\ Confirms(r) = Cardinality(Places(r))
        /\ Confirms(q) \in Nat /\ Confirms(r) \in Nat
    BY <1>1, PlacesFinite
  <1>3. ExistsBijection(Places(r), rest)
    <2>1. \A k \in Places(r) : k \in Nat /\ k + 1 \in rest
      BY <1>1 DEF Places
    <2>2. shift \in [Places(r) -> rest]
      BY <2>1
    <2>3. \A j, k \in Places(r) : shift[j] = shift[k] => j = k
      BY <2>1
    <2>4. \A n \in rest : \E k \in Places(r) : shift[k] = n
      <3>1. ASSUME NEW n \in rest
            PROVE  \E k \in Places(r) : shift[k] = n
        <4>1. n \in 2..Len(q) /\ q[n].kind = "confirm"
          BY <1>1 DEF Places
        <4>2. n - 1 \in 1..Len(r) /\ r[n - 1] = q[(n - 1) + 1] /\ (n - 1) + 1 = n
          BY <1>1, <4>1
        <4>3. n - 1 \in Places(r)
          BY <4>1, <4>2 DEF Places
        <4>4. shift[n - 1] = n
          BY <4>2, <4>3
        <4>5. QED
          BY <4>3, <4>4
      <3>2. QED
        BY <3>1
    <2> HIDE DEF shift, rest
    <2>5. shift \in Injection(Places(r), rest)
      BY <2>2, <2>3 DEF Injection, IsInjective
    <2>6. shift \in Surjection(Places(r), rest)
      BY <2>2, <2>4 DEF Surjection
    <2>7. QED
      BY <2>5, <2>6 DEF Bijection, ExistsBijection
  <1>4. Cardinality(rest) = Cardinality(Places(r))
    BY <1>2, <1>3, FS_Bijection
  <1>5. Cardinality(rest) = IF 1 \in Places(q) THEN Cardinality(Places(q)) - 1
                            ELSE Cardinality(Places(q))
    BY <1>2, FS_RemoveElement
  <1>6. 1 \in Places(q) <=> Head(q).kind = "confirm"
    BY <1>1 DEF Places
  <1> HIDE DEF rest
  <1>7. QED
    BY <1>2, <1>4, <1>5, <1>6 DEF IsConfirm, r

(* A message that is published adds one to every count at most.             *)
LEMMA PublishCounts ==
  ASSUME NetOK, NEW boxes \in [Clients -> Seq(Message)], NEW m \in Message,
         NEW c \in Clients, NEW s \in Clients,
         \A d \in Clients : boxes[d] # <<>> => link[d] = "up",
         Publish(c, boxes, m)
  PROVE  /\ inbox'[s] \in Seq(Message)
         /\ Confirms(inbox'[s]) <= Confirms(boxes[s]) + IsConfirm(m)
  <1>1. inbox' = boxes \/ inbox' = Route(boxes, m)
    BY DEF Publish
  <1>2. inbox'[s] \in {boxes[s], Append(boxes[s], m)}
    BY <1>1, RouteOK
  <1>3. boxes[s] \in Seq(Message) /\ Confirms(boxes[s]) \in Nat
    BY PlacesFinite
  <1>4. Confirms(Append(boxes[s], m)) = Confirms(boxes[s]) + IsConfirm(m)
    BY ConfirmsAppend
  <1>5. IsConfirm(m) \in {0, 1}
    BY DEF IsConfirm
  <1>6. Append(boxes[s], m) \in Seq(Message)
    BY AppendProperties
  <1>7. CASE inbox'[s] = boxes[s]
    BY <1>3, <1>5, <1>7
  <1>8. CASE inbox'[s] = Append(boxes[s], m)
    <2>1. Confirms(inbox'[s]) = Confirms(boxes[s]) + IsConfirm(m)
      BY <1>4, <1>8
    <2>2. QED
      BY <1>3, <1>5, <1>6, <1>8, <2>1
  <1>9. QED
    BY <1>2, <1>7, <1>8

LEMMA TakenCounts ==
  ASSUME NetOK, NEW c \in Clients, NEW s \in Clients, HasMail(c)
  PROVE  /\ Confirms(Taken(c)[s]) \in Nat /\ Confirms(inbox[s]) \in Nat
         /\ c = s => Confirms(inbox[s]) = Confirms(Taken(c)[s]) + IsConfirm(Mail(c))
         /\ c # s => Confirms(inbox[s]) = Confirms(Taken(c)[s])
  <1>1. Taken(c) \in [Clients -> Seq(Message)]
    BY MailIsMessage
  <1>2. inbox \in [Clients -> Seq(Message)] /\ inbox[c] # <<>>
    BY DEF NetOK, HasMail
  <1>3. Confirms(Taken(c)[s]) \in Nat /\ Confirms(inbox[s]) \in Nat
    BY <1>1, <1>2, PlacesFinite
  <1>4. Taken(c) = [inbox EXCEPT ![c] = Tail(inbox[c])]
    BY DEF Taken
  <1>5. CASE c = s
    <2>1. Taken(c)[s] = Tail(inbox[s])
      BY <1>2, <1>4, <1>5
    <2>2. Confirms(inbox[s]) = Confirms(Tail(inbox[s])) + IsConfirm(Head(inbox[s]))
      BY <1>2, <1>5, ConfirmsTail
    <2>3. QED
      BY <1>3, <1>5, <2>1, <2>2 DEF Mail
  <1>6. CASE c # s
    BY <1>2, <1>3, <1>4, <1>6
  <1>7. QED
    BY <1>5, <1>6

(* Enough for the sole store s: d deliveries are promised and d accepted.   *)
LEMMA BookKept ==
  ASSUME MarketInv, MarketInv', BookInv, NEW s \in Stores, Stores = {s}, NEW d \in Int,
         Promised(s)' <= Promised(s) + d,
         balance' + redelivered' = balance + redelivered + d
  PROVE  BookInv'
  <1>1. ASSUME MarketInv PROVE Promised(s) \in Int /\ balance + redelivered \in Int
    <2>1. inbox[s] \in Seq(Message)
      BY <1>1, ClientKinds DEF MarketInv, NetOK
    <2>2. Promised(s) \in Int
      BY <2>1, PlacesFinite DEF Promised, Booking
    <2>3. QED
      BY <1>1, <2>2, NetAssumption DEF MarketInv, HistoryOK, NetOK
  <1>2. ASSUME MarketInv' PROVE Promised(s)' \in Int /\ (balance + redelivered)' \in Int
    <2>1. inbox'[s] \in Seq(Message)
      BY <1>2, ClientKinds DEF MarketInv, NetOK
    <2>2. Promised(s)' \in Int
      BY <2>1, PlacesFinite DEF Promised, Booking
    <2>3. QED
      BY <1>2, <2>2, NetAssumption DEF MarketInv, HistoryOK, NetOK
  <1>3. Promised(s) <= balance + redelivered
    BY DEF BookInv
  <1>4. Promised(s)' <= (balance + redelivered)'
    BY <1>1, <1>2, <1>3
  <1>5. QED
    BY <1>4 DEF BookInv

(* Nothing is accepted or redelivered, and nobody starts to book.           *)
LEMMA BookLess ==
  ASSUME MarketInv, MarketInv', BookInv, NEW s \in Stores, Stores = {s},
         Confirms(inbox'[s]) <= Confirms(inbox[s]),
         at'[s] = "restock" => at[s] = "restock",
         UNCHANGED <<balance, redelivered>>
  PROVE  BookInv'
  <1>1. inbox[s] \in Seq(Message) /\ inbox'[s] \in Seq(Message)
    BY ClientKinds DEF MarketInv, NetOK
  <1>2. Confirms(inbox[s]) \in Nat /\ Confirms(inbox'[s]) \in Nat
    BY <1>1, PlacesFinite
  <1>3. Promised(s)' <= Promised(s) + 0
    BY <1>2 DEF Promised, Booking
  <1>4. balance' + redelivered' = balance + redelivered + 0
    BY NetAssumption DEF MarketInv, HistoryOK, NetOK
  <1>5. QED
    BY <1>3, <1>4, BookKept


(* No confirmation is published.                                            *)
LEMMA QuietNet ==
  ASSUME NetOK, NEW c \in Clients, NEW s \in Clients, NEW m \in Message,
         m.kind # "confirm",
         \/ Post(c, m) \/ UNCHANGED netVars
         \/ HasMail(c) /\ (Consume(c) \/ ConsumeAndPost(c, m))
  PROVE  UNCHANGED redelivered /\ Confirms(inbox'[s]) <= Confirms(inbox[s])
  <1>1. IsConfirm(m) = 0
    BY DEF IsConfirm
  <1>2. /\ inbox \in [Clients -> Seq(Message)] /\ Confirms(inbox[s]) \in Nat
        /\ \A d \in Clients : inbox[d] # <<>> => link[d] = "up"
    BY PlacesFinite DEF NetOK
  <1>3. CASE Post(c, m)
    <2>1. Publish(c, inbox, m) /\ UNCHANGED redelivered
      BY <1>3 DEF Post
    <2>2. Confirms(inbox'[s]) <= Confirms(inbox[s]) + IsConfirm(m)
      BY <1>2, <2>1, PublishCounts
    <2>3. QED
      BY <1>1, <1>2, <2>1, <2>2
  <1>4. CASE UNCHANGED netVars
    BY <1>2, <1>4 DEF netVars
  <1>5. CASE HasMail(c) /\ (Consume(c) \/ ConsumeAndPost(c, m))
    <2>1. /\ Taken(c) \in [Clients -> Seq(Message)]
          /\ \A d \in Clients : Taken(c)[d] # <<>> => link[d] = "up"
      BY <1>5, MailIsMessage
    <2>2. Confirms(Taken(c)[s]) \in Nat /\ Confirms(Taken(c)[s]) <= Confirms(inbox[s])
      BY <1>2, <1>5, TakenCounts DEF IsConfirm
    <2>3. CASE Consume(c)
      BY <2>2, <2>3 DEF Consume
    <2>4. CASE ConsumeAndPost(c, m)
      <3>1. Publish(c, Taken(c), m) /\ UNCHANGED redelivered
        BY <2>4 DEF ConsumeAndPost
      <3>2. /\ inbox'[s] \in Seq(Message)
            /\ Confirms(inbox'[s]) <= Confirms(Taken(c)[s]) + IsConfirm(m)
        BY <2>1, <3>1, PublishCounts
      <3>3. Confirms(inbox'[s]) \in Nat
        BY <3>2, PlacesFinite
      <3>4. QED
        BY <1>1, <1>2, <2>2, <3>1, <3>2, <3>3
    <2>5. QED
      BY <1>5, <2>3, <2>4
  <1>6. QED
    BY <1>3, <1>4, <1>5

(* Mailboxes are left alone or emptied.                                     *)
LEMMA EmptiedNet ==
  ASSUME NetOK, NEW s \in Clients, inbox'[s] \in {inbox[s], <<>>}
  PROVE  Confirms(inbox'[s]) <= Confirms(inbox[s])
  <1>1. Confirms(inbox[s]) \in Nat
    BY PlacesFinite DEF NetOK
  <1>2. QED
    BY <1>1, ConfirmsEmpty

LEMMA NetworkBook ==
  ASSUME MarketInv, MarketInv', BookInv, NEW s \in Stores, Stores = {s}, Network
  PROVE  BookInv'
  <1>1. UNCHANGED <<at, balance>> /\ NetNext /\ s \in Clients /\ NetOK
    BY ClientKinds DEF Network, storeVars, loopVars, history, MarketInv
  <1> PICK c \in Clients :
         \/ Join(c) \/ JoinFails(c) \/ Break(c) \/ NoticeBreak(c) \/ Redeliver(c)
         \/ \E d \in Namesakes[c] : TakeOver(c, d)
    BY <1>1 DEF NetNext
  <1>2. CASE Redeliver(c)
    <2>1. /\ inbox' = [inbox EXCEPT ![c] = Append(inbox[c], Mail(c))] /\ HasMail(c)
          /\ redelivered' = redelivered + 1
      BY <1>2 DEF Redeliver
    <2>2. inbox \in [Clients -> Seq(Message)] /\ Mail(c) \in Message
      BY <1>1, <2>1, MailIsMessage DEF NetOK
    <2>3. inbox'[s] \in {inbox[s], Append(inbox[s], Mail(c))}
      BY <1>1, <2>1, <2>2
    <2>4. Confirms(inbox[s]) \in Nat
      BY <1>1, <2>2, PlacesFinite
    <2>5. Confirms(Append(inbox[s], Mail(c))) = Confirms(inbox[s]) + IsConfirm(Mail(c))
      BY <1>1, <2>2, ConfirmsAppend
    <2>6. IsConfirm(Mail(c)) \in {0, 1}
      BY DEF IsConfirm
    <2>7. Confirms(inbox'[s]) <= Confirms(inbox[s]) + 1 /\ Confirms(inbox'[s]) \in Int
      <3>1. CASE inbox'[s] = inbox[s]
        BY <2>4, <3>1
      <3>2. CASE inbox'[s] = Append(inbox[s], Mail(c))
        <4>1. Confirms(inbox'[s]) = Confirms(inbox[s]) + IsConfirm(Mail(c))
          BY <2>5, <3>2
        <4>2. QED
          BY <2>4, <2>6, <4>1
      <3>3. QED
        BY <2>3, <3>1, <3>2
    <2>8. Promised(s)' <= Promised(s) + 1
      BY <1>1, <2>4, <2>7 DEF Promised, Booking
    <2>9. balance' + redelivered' = balance + redelivered + 1
      BY <1>1, <2>1, NetAssumption DEF MarketInv, HistoryOK, NetOK
    <2>10. QED
      BY <2>8, <2>9, BookKept
  <1>3. CASE Join(c) \/ JoinFails(c) \/ Break(c) \/ NoticeBreak(c) \/ \E d \in Namesakes[c] : TakeOver(c, d)
    <2>1. UNCHANGED redelivered
      BY <1>3 DEF Join, JoinFails, Break, NoticeBreak, TakeOver
    <2>2. \E d \in Clients : inbox' = inbox \/ inbox' = [inbox EXCEPT ![d] = <<>>]
      BY <1>3, NetAssumption DEF Join, JoinFails, Break, NoticeBreak, TakeOver
    <2>3. inbox'[s] \in {inbox[s], <<>>}
      BY <1>1, <2>2 DEF NetOK
    <2>4. QED
      BY <1>1, <2>1, <2>3, EmptiedNet, BookLess
  <1>4. QED
    BY <1>2, <1>3

(* The store: only a confirmation that it takes is booked, and once.        *)
LEMMA StoreBook ==
  ASSUME MarketInv, MarketInv', BookInv, NEW s \in Stores, Stores = {s},
         StoreLoop(s) \/ Sells(s) \/ IsStopped(s)
  PROVE  BookInv'
  <1>1. /\ s \in Clients /\ NetOK /\ StoreInv
        /\ at \in [Stores -> Positions]
    BY ClientKinds DEF MarketInv, StoreInv, StoreTypeOK
  <1>2. CASE Sweeps(s)
    <2>1. UNCHANGED balance /\ (Post(s, Demand(s)) \/ UNCHANGED netVars)
      BY <1>2 DEF Sweeps, history
    <2>2. Demand(s) \in Message /\ Demand(s).kind # "confirm"
      BY <1>1, DemandIsMessage
    <2>3. UNCHANGED redelivered /\ Confirms(inbox'[s]) <= Confirms(inbox[s])
      BY <1>1, <2>1, <2>2, QuietNet
    <2>4. at'[s] = "restock" => at[s] = "restock"
      BY <1>1, <1>2 DEF Sweeps, EnterLoop, LeaveLoop, PassItem, WaitItem, DemandItem, CountItem,
                        NextItem
    <2>5. QED
      BY <2>1, <2>3, <2>4, BookLess
  <1>3. CASE Quits(s)
    <2>1. /\ UNCHANGED <<balance, redelivered>> /\ at'[s] = "exited"
          /\ inbox'[s] = <<>>
      BY <1>1, <1>3 DEF Quits, Exit, history
    <2>2. Confirms(inbox'[s]) <= Confirms(inbox[s])
      BY <1>1, <2>1, EmptiedNet
    <2>3. QED
      BY <2>1, <2>2, BookLess
  <1>4. CASE HearsOffer(s)
    <2> DEFINE m == Mail(s)
               order == OrderFor(m, m.amount)
    <2>1. HasMail(s) /\ UNCHANGED balance /\ (Consume(s) \/ ConsumeAndPost(s, order))
      BY <1>4 DEF HearsOffer, history
    <2>2. m \in Message
      BY <1>1, <2>1, MailIsMessage
    <2>3. order \in Message /\ order.kind # "confirm"
      BY <2>2 DEF OrderFor, Message, Kinds
    <2>4. UNCHANGED redelivered /\ Confirms(inbox'[s]) <= Confirms(inbox[s])
      <3> HIDE DEF order
      <3>1. QED
        BY <1>1, <2>1, <2>3, QuietNet
    <2>5. at'[s] = "restock" => at[s] = "restock"
      BY <1>1, <1>4 DEF HearsOffer, IgnoreOffer, TrimOffer, OrderOffer, Served
    <2>6. QED
      BY <2>1, <2>4, <2>5, BookLess
  <1>5. CASE TrimsOrder(s)
    <2> DEFINE order == OrderFor(handling[s], Room(s))
    <2>1. at[s] = "trim" /\ UNCHANGED balance /\ Post(s, order)
      BY <1>5 DEF TrimsOrder, OrderTrimmed, history
    <2>2. order \in Message
      BY <1>1, <2>1, TrimmedOrder
    <2>3. order.kind # "confirm"
      BY <1>1 DEF OrderFor, StoreInv, StoreTypeOK
    <2> HIDE DEF order
    <2>4. UNCHANGED redelivered /\ Confirms(inbox'[s]) <= Confirms(inbox[s])
      BY <1>1, <2>1, <2>2, <2>3, QuietNet
    <2>5. at'[s] = "restock" => at[s] = "restock"
      BY <1>1, <1>5 DEF TrimsOrder, OrderTrimmed, Served
    <2>6. QED
      BY <2>1, <2>4, <2>5, BookLess
  <1>6. CASE HearsConfirm(s)
    <2> DEFINE m == Mail(s)
    <2>1. /\ HasMail(s) /\ UNCHANGED <<balance, redelivered>> /\ inbox' = Taken(s)
          /\ IgnoreConfirm(s, m) \/ ReadRestock(s, m)
      BY <1>6 DEF HearsConfirm, Consume, history
    <2>2. /\ m.kind = "confirm" /\ InLoop(s) /\ at'[s] \in {"served", "restock"}
      BY <1>1, <2>1 DEF IgnoreConfirm, ReadRestock, Served
    <2>3. Confirms(Taken(s)[s]) \in Nat /\ Confirms(inbox[s]) = Confirms(Taken(s)[s]) + 1
      BY <1>1, <2>1, <2>2, TakenCounts DEF IsConfirm
    <2>4. Promised(s)' <= Promised(s) + 0
      <3>1. Booking(s) = 0
        BY <2>2 DEF InLoop, Booking
      <3>2. Booking(s)' \in {0, 1}
        BY DEF Booking
      <3>3. Promised(s)' = Confirms(Taken(s)[s]) + Booking(s)'
        BY <2>1 DEF Promised
      <3>4. Promised(s) = Confirms(Taken(s)[s]) + 1
        BY <2>3, <3>1 DEF Promised
      <3>5. QED
        BY <2>3, <3>2, <3>3, <3>4
    <2>5. balance' + redelivered' = balance + redelivered + 0
      BY <2>1, NetAssumption DEF MarketInv, HistoryOK, NetOK
    <2>6. QED
      BY <2>4, <2>5, BookKept
  <1>7. CASE Restocks(s)
    <2>1. /\ at[s] = "restock" /\ at'[s] = "served" /\ balance' = balance - 1
          /\ UNCHANGED <<inbox, redelivered>>
      BY <1>1, <1>7 DEF Restocks, WriteRestock, netVars
    <2>2. Confirms(inbox[s]) \in Nat
      BY <1>1, PlacesFinite DEF NetOK
    <2>3. Promised(s)' <= Promised(s) + (-1)
      BY <2>1, <2>2 DEF Promised, Booking
    <2>4. balance' + redelivered' = balance + redelivered + (-1)
      BY <2>1, NetAssumption DEF MarketInv, HistoryOK, NetOK
    <2>5. QED
      BY <2>3, <2>4, BookKept
  <1>8. CASE Sells(s) \/ IsStopped(s)
    <2>1. UNCHANGED <<at, balance, inbox, redelivered>>
      BY <1>8 DEF Sells, IsStopped, ServiceStep, CheckStock, ReadSale, WriteSale, StopLoop,
                  loopVars, netVars, history
    <2>2. inbox'[s] \in {inbox[s], <<>>}
      BY <2>1
    <2>3. QED
      BY <1>1, <2>1, <2>2, EmptiedNet, BookLess
  <1>9. QED
    BY <1>2, <1>3, <1>4, <1>5, <1>6, <1>7, <1>8 DEF StoreLoop


(* A producer: an order accepted is one confirmation to the store at most.  *)
LEMMA ProducerBook ==
  ASSUME MarketInv, MarketInv', BookInv, NEW s \in Stores, Stores = {s},
         NEW p \in Producers, ProducerLoop(p) \/ IsStoppedToo(p)
  PROVE  BookInv'
  <1>1. /\ s \in Clients /\ p \in Clients /\ p # s /\ NetOK
    BY MarketAssumption DEF MarketInv
  <1>2. UNCHANGED at
    BY DEF ProducerLoop, HearsDemand, HearsOrder, OffersOwn, Leaves, IsStoppedToo, storeVars,
           loopVars
  <1>3. CASE HearsDemand(p)
    <2> DEFINE offer == Reply("offer", Mail(p))
    <2>1. /\ HasMail(p) /\ UNCHANGED balance
          /\ Consume(p) \/ ConsumeAndPost(p, offer)
      BY <1>3 DEF HearsDemand, Offers, history
    <2>2. Mail(p) \in Message /\ "offer" \in Kinds
      BY <1>1, <2>1, MailIsMessage DEF Kinds
    <2>3. offer \in Message /\ offer.kind # "confirm"
      BY <2>2, ReplyIsMessage
    <2> HIDE DEF offer
    <2>4. UNCHANGED redelivered /\ Confirms(inbox'[s]) <= Confirms(inbox[s])
      BY <1>1, <2>1, <2>3, QuietNet
    <2>5. QED
      BY <1>2, <2>1, <2>4, BookLess
  <1>4. CASE HearsOrder(p)
    <2> DEFINE m == Mail(p)
               answer == Reply("confirm", m)
    <2>1. /\ HasMail(p)
          /\ \/ ConsumeAndPost(p, answer) /\ balance' = balance + 1
             \/ Consume(p) /\ UNCHANGED balance
      BY <1>4 DEF HearsOrder, Refuses, history
    <2>2. m \in Message /\ "confirm" \in Kinds
      BY <1>1, <2>1, MailIsMessage DEF Kinds
    <2>3. answer \in Message /\ IsConfirm(answer) = 1
      BY <2>2, ReplyIsMessage DEF IsConfirm
    <2>4. /\ Taken(p) \in [Clients -> Seq(Message)]
          /\ \A d \in Clients : Taken(p)[d] # <<>> => link[d] = "up"
      BY <1>1, <2>1, MailIsMessage
    <2>5. Confirms(inbox[s]) \in Nat /\ Confirms(Taken(p)[s]) = Confirms(inbox[s])
      BY <1>1, <2>1, TakenCounts
    <2> HIDE DEF answer
    <2>6. CASE ConsumeAndPost(p, answer) /\ balance' = balance + 1
      <3>1. Publish(p, Taken(p), answer) /\ UNCHANGED redelivered
        BY <2>6 DEF ConsumeAndPost
      <3>2. /\ inbox'[s] \in Seq(Message)
            /\ Confirms(inbox'[s]) <= Confirms(Taken(p)[s]) + IsConfirm(answer)
        BY <1>1, <2>3, <2>4, <3>1, PublishCounts
      <3>3. Confirms(inbox'[s]) \in Nat
        BY <3>2, PlacesFinite
      <3>4. Promised(s)' <= Promised(s) + 1
        BY <1>2, <2>3, <2>5, <3>2, <3>3 DEF Promised, Booking
      <3>5. balance' + redelivered' = balance + redelivered + 1
        BY <2>6, <3>1, NetAssumption DEF MarketInv, HistoryOK, NetOK
      <3>6. QED
        BY <3>4, <3>5, BookKept
    <2>7. CASE Consume(p) /\ UNCHANGED balance
      <3>1. inbox' = Taken(p) /\ UNCHANGED redelivered
        BY <2>7 DEF Consume
      <3>2. QED
        BY <1>2, <2>5, <2>7, <3>1, BookLess
    <2>8. QED
      BY <2>1, <2>6, <2>7
  <1>5. CASE OffersOwn(p)
    <2>1. UNCHANGED balance
      BY <1>5 DEF OffersOwn, Offers
    <2> PICK i \in Products[p], price \in OwnPrices, amount \in OwnAmounts :
           Post(p, OfferOf(i, price, amount))
      BY <1>5 DEF OffersOwn
    <2> DEFINE m == OfferOf(i, price, amount)
    <2>2. i \in Items /\ price \in Nat /\ amount \in Nat
      BY ProducerAssumption
    <2>3. m \in Message /\ m.kind # "confirm"
      BY <2>2 DEF OfferOf, Message, Kinds
    <2> HIDE DEF m
    <2>4. UNCHANGED redelivered /\ Confirms(inbox'[s]) <= Confirms(inbox[s])
      BY <1>1, <2>3, QuietNet DEF m
    <2>5. QED
      BY <1>2, <2>1, <2>4, BookLess
  <1>6. CASE Leaves(p) \/ IsStoppedToo(p)
    <2>1. /\ UNCHANGED <<balance, redelivered>>
          /\ inbox' = inbox \/ inbox' = [inbox EXCEPT ![p] = <<>>]
      BY <1>6 DEF Leaves, Disconnect, IsStoppedToo, netVars, history
    <2>2. inbox'[s] \in {inbox[s], <<>>}
      BY <1>1, <2>1 DEF NetOK
    <2>3. QED
      BY <1>1, <1>2, <2>1, <2>2, EmptiedNet, BookLess
  <1>7. QED
    BY <1>3, <1>4, <1>5, <1>6 DEF ProducerLoop

LEMMA BookInit ==
  ASSUME Init
  PROVE  BookInv
  <1>1. \A s \in Stores : inbox[s] = <<>> /\ at[s] = "top" /\ balance = 0 /\ redelivered = 0
    BY ClientKinds DEF Init, NetInit, StoreInit
  <1>2. QED
    BY <1>1, ConfirmsEmpty DEF BookInv, Promised, Booking

LEMMA BookStep ==
  ASSUME NEW s, Stores = {s}, MarketInv, MarketInv', BookInv, [Next]_vars
  PROVE  BookInv'
  <1>1. s \in Stores
    OBVIOUS
  <1>2. ASSUME NEW t \in Stores, StoreLoop(t) \/ Sells(t) \/ IsStopped(t)
        PROVE  BookInv'
    BY <1>2, StoreBook
  <1>3. ASSUME NEW p \in Producers, ProducerLoop(p) \/ IsStoppedToo(p)
        PROVE  BookInv'
    BY <1>1, <1>3, ProducerBook
  <1>4. CASE Network
    BY <1>1, <1>4, NetworkBook
  <1>5. CASE UNCHANGED vars
    BY <1>5 DEF vars, storeVars, loopVars, netVars, history, BookInv, Promised, Booking
  <1>6. QED
    BY <1>2, <1>3, <1>4, <1>5 DEF Next

(* With one store, what StoreManager::on_mosqEvent books was accepted by    *)
(* some Producer::on_mosqEvent, but for messages the broker repeats: each   *)
(* acceptance is one confirmation, which is booked once or lost.            *)
THEOREM BookedCorrect ==
  ASSUME NEW s, Stores = {s}
  PROVE  Spec => []BookedWasAccepted
  <1>1. Init => BookInv
    BY BookInit
  <1>2. MarketInv /\ MarketInv' /\ BookInv /\ [Next]_vars => BookInv'
    BY BookStep
  <1>3. MarketInv /\ BookInv => BookedWasAccepted
    <2> SUFFICES ASSUME MarketInv, BookInv PROVE BookedWasAccepted
      OBVIOUS
    <2>1. s \in Stores /\ s \in Clients
      BY ClientKinds
    <2>2. Confirms(inbox[s]) \in Nat
      BY <2>1, PlacesFinite DEF MarketInv, NetOK
    <2>3. Promised(s) \in Nat /\ Promised(s) <= balance + redelivered
      BY <2>1, <2>2 DEF Promised, Booking, BookInv
    <2>4. balance + redelivered \in Int
      BY NetAssumption DEF MarketInv, NetOK, HistoryOK
    <2>5. QED
      BY <2>3, <2>4 DEF BookedWasAccepted
  <1>4. QED
    BY <1>1, <1>2, <1>3, MarketCorrect, PTL DEF Spec


-----------------------------------------------------------------------------
(* The market as seen from the shelves.                                     *)

LEMMA AbstractMarketStore ==
  ASSUME MarketInv, MarketInv', NEW s \in Stores, StoreLoop(s) \/ Sells(s) \/ IsStopped(s)
  PROVE  [Shelves!Next]_Shelves!vars
  <1>1. StoreInv /\ StoreInv' /\ Sends(s) \in BOOLEAN
    BY DEF MarketInv, Sends
  <1>2. CASE Sweeps(s) \/ Quits(s) \/ IsStopped(s)
    BY <1>2, AbstractLoop DEF Sweeps, Quits, IsStopped
  <1>3. CASE HearsOffer(s) \/ HearsConfirm(s)
    <2> DEFINE m == Mail(s)
    <2>1. m \in Message
      BY <1>3, MailIsTruthful, ClientKinds DEF HearsOffer, HearsConfirm
    <2>2. \/ IgnoreOffer(s, m) \/ IgnoreConfirm(s, m) \/ TrimOffer(s, m) \/ ReadRestock(s, m)
          \/ OrderOffer(s, m, Sends(s))
      BY <1>3 DEF HearsOffer, HearsConfirm
    <2> HIDE DEF m
    <2>3. QED
      BY <1>1, <2>1, <2>2, AbstractHear, AbstractPlace
  <1>4. CASE TrimsOrder(s)
    <2>1. OrderTrimmed(s, Sends(s))
      BY <1>4 DEF TrimsOrder
    <2>2. \E m : m \in Message
      BY <1>1, <2>1, TrimmedOrder DEF OrderTrimmed
    <2>3. QED
      BY <1>1, <2>1, <2>2, AbstractPlace
  <1>5. CASE Restocks(s)
    BY <1>1, <1>5, AbstractBook DEF Restocks, Shelves!Next
  <1>6. CASE Sells(s)
    BY <1>1, <1>6, AbstractService DEF Sells
  <1>7. QED
    BY <1>2, <1>3, <1>4, <1>5, <1>6 DEF StoreLoop

LEMMA AbstractMarketStep ==
  ASSUME MarketInv, MarketInv', [Next]_vars
  PROVE  [Shelves!Next]_Shelves!vars
  <1>1. ASSUME UNCHANGED storeVars PROVE [Shelves!Next]_Shelves!vars
    BY <1>1, AbstractStutter DEF storeVars
  <1>2. ASSUME NEW s \in Stores, StoreLoop(s) \/ Sells(s) \/ IsStopped(s)
        PROVE  [Shelves!Next]_Shelves!vars
    BY <1>2, AbstractMarketStore
  <1>3. ASSUME NEW p \in Producers, ProducerLoop(p) \/ IsStoppedToo(p)
        PROVE  UNCHANGED storeVars
    BY <1>3 DEF ProducerLoop, HearsDemand, HearsOrder, OffersOwn, Leaves, IsStoppedToo
  <1>4. CASE Network
    BY <1>1, <1>4 DEF Network
  <1>5. CASE UNCHANGED vars
    BY <1>1, <1>5 DEF vars
  <1>6. QED
    BY <1>1, <1>2, <1>3, <1>4, <1>5 DEF Next

(* Connected to the broker and the producers, every store still implements  *)
(* its promise about its shelves: no message of another client, and no      *)
(* failure of a connection, is a step Stockroom does not allow.             *)
THEOREM MarketImplementsStockroom == Spec => ImplementsStockroom
  <1>1. Init => Shelves!Init
    BY AbstractInit DEF Init
  <1>2. MarketInv /\ MarketInv' /\ [Next]_vars => [Shelves!Next]_Shelves!vars
    BY AbstractMarketStep
  <1>3. QED
    BY <1>1, <1>2, MarketCorrect, PTL DEF Spec, ImplementsStockroom, Shelves!Spec

=============================================================================
