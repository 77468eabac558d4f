------------------------------- MODULE Trade --------------------------------
(* What stores and producers say to each other: MQTTClient::Offer and the   *)
(* channels it travels on.                                                  *)
EXTENDS Naturals, Sequences, Functions

CONSTANTS
    ItemOrder,       \* the items, in the order std::map iterates them
    NoItem           \* an item name no product has: "" or uninitialised bytes

Items == Range(ItemOrder)

ASSUME TradeAssumption ==
    /\ ItemOrder \in Seq(Items) /\ ItemOrder # <<>>
    /\ NoItem \notin Items

(* The channel of a message is its kind, followed by the item in offers and *)
(* demands; every publisher builds it from the item of the payload.         *)
Kinds == {"demand", "offer", "order", "confirm"}
Message == [kind : Kinds, item : Items, price : Nat, amount : Nat]

Channel(m) ==
    IF m.kind \in {"demand", "offer"} THEN <<m.kind, m.item>> ELSE <<m.kind>>

Payload(m) == [item |-> m.item, price |-> m.price, amount |-> m.amount]
Payloads == [item : Items \cup {NoItem}, price : Nat, amount : Nat]
NoPayload == [item |-> NoItem, price |-> 0, amount |-> 0]

(* The handlers publish the payload they were given, on another channel.    *)
Reply(kind, m) == [m EXCEPT !.kind = kind]

=============================================================================
