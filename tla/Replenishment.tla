--------------------------- MODULE Replenishment ----------------------------
(***************************************************************************)
(* Stores and producers around the broker: a store that runs low publishes *)
(* a demand, producers answer with offers, the store orders, the producer  *)
(* that remembers a matching offer confirms, and the confirmation, which   *)
(* every store hears, restocks the store that waits for such an order.     *)
(***************************************************************************)
EXTENDS StoreManager, Producer, MQTT

CONSTANTS
    Stoppable          \* stores and producers that may be stopped

VARIABLES
    offered,           \* history: offered[p], the offers producer p has made
    balance            \* history: orders accepted minus deliveries booked

(* The constructor of StoreManager and Producer::start subscribe.           *)
Channels ==
    [c \in Stores \cup Producers |->
        IF c \in Stores THEN {<<"offer", i>> : i \in Items} \cup {<<"confirm">>}
        ELSE {<<"demand", i>> : i \in Products[c]} \cup {<<"order">>}]

ASSUME MarketAssumption ==
    /\ Stores \cap Producers = {}
    /\ Clients = Stores \cup Producers
    /\ Subscriptions = Channels

history == <<offered, balance>>
vars == <<storeVars, producerVars, netVars, history>>

Init ==
    /\ StoreInit /\ ProducerInit /\ NetInit
    /\ offered = [p \in Producers |-> {}]
    /\ balance = 0

-----------------------------------------------------------------------------
(* The loop thread of a store.  The threads start after the constructors    *)
(* have connected and subscribed.                                           *)

Sweeps(s) ==
    /\ Started(s)
    /\ \/ (EnterLoop(s) \/ LeaveLoop(s) \/ PassItem(s) \/ WaitItem(s)) /\ UNCHANGED netVars
       \/ DemandItem(s) /\ Post(s, Demand(s))
    /\ UNCHANGED <<producerVars, history>>

(* exit() closes the sockets of every store of the process.                 *)
Quits(s) ==
    /\ Started(s)
    /\ Exit(s)
    /\ link' = [c \in Clients |-> IF c \in Stores THEN "down" ELSE link[c]]
    /\ inbox' = [c \in Clients |-> IF c \in Stores THEN <<>> ELSE inbox[c]]
    /\ UNCHANGED <<redelivered, producerVars, history>>

HearsOffer(s) ==
    /\ HasMail(s)
    /\ LET m == Mail(s)
       IN  \/ (IgnoreOffer(s, m) \/ TrimOffer(s, m)) /\ Consume(s)
           \/ OrderOffer(s, m, Sends(s)) /\ ConsumeAndPost(s, OrderFor(m, m.amount))
    /\ UNCHANGED <<producerVars, history>>

TrimsOrder(s) ==
    /\ OrderTrimmed(s, Sends(s))
    /\ Post(s, OrderFor(handling[s], Room(s)))
    /\ UNCHANGED <<producerVars, history>>

HearsConfirm(s) ==
    /\ HasMail(s)
    /\ IgnoreConfirm(s, Mail(s)) \/ ReadRestock(s, Mail(s))
    /\ Consume(s)
    /\ UNCHANGED <<producerVars, history>>

Restocks(s) ==
    /\ WriteRestock(s)
    /\ balance' = balance - 1
    /\ UNCHANGED <<producerVars, netVars, offered>>

Sells(s) == Started(s) /\ ServiceStep(s) /\ UNCHANGED <<producerVars, netVars, history>>

IsStopped(s) ==
    /\ s \in Stoppable
    /\ StopLoop(s)
    /\ UNCHANGED <<producerVars, netVars, history>>

StoreLoop(s) ==
    Sweeps(s) \/ Quits(s) \/ HearsOffer(s) \/ TrimsOrder(s) \/ HearsConfirm(s) \/ Restocks(s)

-----------------------------------------------------------------------------
(* The producers.                                                           *)

Offers(p, m) ==
    /\ offered' = [offered EXCEPT ![p] = @ \cup {Payload(m)}]
    /\ UNCHANGED balance

HearsDemand(p) ==
    /\ HasMail(p)
    /\ LET m == Mail(p)
       IN  \/ /\ AnswerDemand(p, m)
              /\ ConsumeAndPost(p, Reply("offer", m))
              /\ Offers(p, m)
           \/ IgnoreDemand(p, m) /\ Consume(p) /\ UNCHANGED history
    /\ UNCHANGED storeVars

(* Faulty: an order that is not accepted is confirmed as well.              *)
ConfirmsAnyway(p, m) == IgnoreOrder(p, m) /\ ConsumeAndPost(p, Reply("confirm", m))

Refuses(p, m) == IgnoreOrder(p, m) /\ Consume(p)

HearsOrder(p) ==
    /\ HasMail(p)
    /\ LET m == Mail(p)
       IN  \/ /\ AcceptOrder(p, m)
              /\ ConsumeAndPost(p, Reply("confirm", m))
              /\ balance' = balance + 1
              /\ UNCHANGED offered
           \/ Refuses(p, m) /\ UNCHANGED history
    /\ UNCHANGED storeVars

OffersOwn(p) ==
    /\ Started(p)
    /\ \E i \in Products[p], price \in OwnPrices, amount \in OwnAmounts :
          LET m == OfferOf(i, price, amount)
          IN  OfferOwn(p, i, price, amount) /\ Post(p, m) /\ Offers(p, m)
    /\ UNCHANGED storeVars

Leaves(p) == Leave(p) /\ Disconnect(p) /\ UNCHANGED <<storeVars, history>>

IsStoppedToo(p) ==
    /\ p \in Stoppable
    /\ Stop(p)
    /\ UNCHANGED <<storeVars, netVars, history>>

ProducerLoop(p) == HearsDemand(p) \/ HearsOrder(p) \/ OffersOwn(p) \/ Leaves(p)

-----------------------------------------------------------------------------
Network == NetNext /\ UNCHANGED <<storeVars, producerVars, history>>

Next ==
    \/ \E s \in Stores : StoreLoop(s) \/ Sells(s) \/ IsStopped(s)
    \/ \E p \in Producers : ProducerLoop(p) \/ IsStoppedToo(p)
    \/ Network

Spec == Init /\ [][Next]_vars

-----------------------------------------------------------------------------
(* Properties.                                                              *)

Links == {"joining", "up", "broken", "down"}

(* Every variable keeps its shape, and only clients that are connected have *)
(* messages waiting for them.                                               *)
TypeOK ==
    /\ StoreTypeOK
    /\ lastOffer \in [Producers -> Payloads]
    /\ stopProducer \in [Producers -> BOOLEAN]
    /\ left \in [Producers -> BOOLEAN]
    /\ ownOffers \in [Producers -> Nat]
    /\ link \in [Clients -> Links]
    /\ inbox \in [Clients -> Seq(Message)]
    /\ redelivered \in 0..MaxRedeliveries
    /\ \A c \in Clients : inbox[c] # <<>> => link[c] = "up"

Covers(offer, m) ==
    /\ offer.item = m.item /\ offer.price <= m.price /\ m.amount <= offer.amount

WasOffered(m) == \E p \in Producers : \E o \in offered[p] : Covers(o, m)

(* A delivery is always one some producer offered, at no lower a price and  *)
(* of no greater an amount: this holds of every confirmation under way and  *)
(* of the one a store is booking, although a sale between the two reads of  *)
(* the stock in on_mosqEvent makes a store order more than it was offered.  *)
DeliveriesWereOffered ==
    /\ \A c \in Clients : \A k \in DOMAIN inbox[c] :
          inbox[c][k].kind = "confirm" => WasOffered(inbox[c][k])
    /\ \A s \in Stores : at[s] = "restock" => WasOffered(handling[s])

(* A store's open order names a price that some producer has asked for that *)
(* item: the price is copied from the offer, trimmed or not, through every  *)
(* interleaving of the handlers.                                            *)
OrderPriceWasAsked ==
    \A s \in Stores : activeOrder[s].item # NoItem =>
        \E p \in Producers : \E o \in offered[p] :
            o.item = activeOrder[s].item /\ o.price = activeOrder[s].price

(* Deliveries booked never outnumber the orders that producers accepted,    *)
(* except by messages the broker delivered twice.                           *)
BookedWasAccepted == balance + redelivered >= 0

=============================================================================
