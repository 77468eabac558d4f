------------------------------ MODULE Producer ------------------------------
(***************************************************************************)
(* The producers: MQTT clients that answer demands with offers, make offers*)
(* of their own, and confirm the orders for the last offer they made.  A   *)
(* producer is one thread; its handler runs inside client.loop(), between  *)
(* its own offers, so each handler is one step.                            *)
(***************************************************************************)
EXTENDS Trade

CONSTANTS
    Producers,
    Products,        \* Products[p]: the items producer p trades in
    OwnPrices,       \* prices of a producer's own offers
    OwnAmounts,      \* amounts of a producer's own offers
    MaxOwnOffers     \* bound: own offers per producer

ASSUME ProducerAssumption ==
    /\ Products \in [Producers -> SUBSET Items]
    /\ OwnPrices \subseteq 60..150 /\ OwnAmounts \subseteq 50..200
    /\ MaxOwnOffers \in Nat

VARIABLES
    lastOffer,       \* the only offer the producer remembers
    stopProducer,
    left,            \* start() has returned
    ownOffers        \* own offers made so far

producerVars == <<lastOffer, stopProducer, left, ownOffers>>

ProducerInit ==
    /\ lastOffer = [p \in Producers |-> NoPayload]
    /\ stopProducer = [p \in Producers |-> FALSE]
    /\ left = [p \in Producers |-> FALSE]
    /\ ownOffers = [p \in Producers |-> 0]

OfferOf(i, price, amount) ==
    [kind |-> "offer", item |-> i, price |-> price, amount |-> amount]

(* The offer is saved whether or not its publish succeeded.                 *)
saveOffer(p, offer) == lastOffer' = [lastOffer EXCEPT ![p] = Payload(offer)]

(* Faulty: ten times the price is asked for.                                *)
WillingAtTenfold(price, r) == 10 + r + price \div 50 > 50

(* rand() % 21 decides how good a price has to be: from 205 on any producer *)
(* sells, up to 104 none does.                                              *)
Willing(price, r) == 10 + r + price \div 5 > 50

-----------------------------------------------------------------------------
(* on_mosqEvent                                                             *)

AnswerDemand(p, m) ==
    /\ ~left[p]
    /\ m.kind = "demand"
    /\ \E r \in 0..20 : Willing(m.price, r)
    /\ saveOffer(p, m)
    /\ UNCHANGED <<stopProducer, left, ownOffers>>

IgnoreDemand(p, m) ==
    /\ ~left[p]
    /\ m.kind = "demand"
    /\ \E r \in 0..20 : ~Willing(m.price, r)
    /\ UNCHANGED producerVars

(* Faulty: more is confirmed than was offered.                              *)
AcceptableAnyAmount(p, m) ==
    /\ m.item = lastOffer[p].item
    /\ m.price >= lastOffer[p].price

Acceptable(p, m) ==
    /\ m.item = lastOffer[p].item
    /\ m.price >= lastOffer[p].price
    /\ m.amount <= lastOffer[p].amount

AcceptOrder(p, m) ==
    /\ ~left[p]
    /\ m.kind = "order" /\ Acceptable(p, m)
    /\ lastOffer' = [lastOffer EXCEPT ![p].item = NoItem]
    /\ UNCHANGED <<stopProducer, left, ownOffers>>

IgnoreOrder(p, m) ==
    /\ ~left[p]
    /\ m.kind = "order" /\ ~Acceptable(p, m)
    /\ UNCHANGED producerVars

-----------------------------------------------------------------------------
(* start()                                                                  *)

(* One of the loops whose counter and coin say so; which loops is left open.*)
OfferOwn(p, i, price, amount) ==
    /\ ~left[p] /\ ownOffers[p] < MaxOwnOffers
    /\ i \in Products[p]
    /\ saveOffer(p, OfferOf(i, price, amount))
    /\ ownOffers' = [ownOffers EXCEPT ![p] = @ + 1]
    /\ UNCHANGED <<stopProducer, left>>

Stop(p) ==
    /\ ~stopProducer[p]
    /\ stopProducer' = [stopProducer EXCEPT ![p] = TRUE]
    /\ UNCHANGED <<lastOffer, left, ownOffers>>

Leave(p) ==
    /\ stopProducer[p] /\ ~left[p]
    /\ left' = [left EXCEPT ![p] = TRUE]
    /\ UNCHANGED <<lastOffer, stopProducer, ownOffers>>

=============================================================================
