------------------------------- MODULE Prompt -------------------------------
(***************************************************************************)
(* The market on a prompt network, with fair threads.  client.loop() waits *)
(* up to a second (MQTTClient.cpp:93), longer than any message is under    *)
(* way or waits for a handler, and returns early on anything that moves on *)
(* the store's own socket: a message, the broker's acknowledgement of what *)
(* the store has subscribed to and published with QoS 1, and the writing   *)
(* of an order that a handler has queued.  Every return is a sweep more.   *)
(***************************************************************************)
EXTENDS Replenishment, FiniteSets

VARIABLE
    wakes              \* wakes[s]: early returns of loop() that s has still to come

promptVars == <<vars, wakes>>

(* The constructor has connected and subscribed and loop() has not run yet: *)
(* every acknowledgement of that is still to come.                          *)
PromptInit == Init /\ wakes = [s \in Stores |-> Cardinality(Channels[s]) + 1]

Quiet ==
    /\ \A c \in Clients : inbox[c] = <<>>
    /\ \A s \in Stores : at[s] \notin {"trim", "restock"}

Returns(s) == at[s] = "loop" /\ at'[s] = "sweep"

(* A demand is written at once, by the loop thread itself, and then         *)
(* acknowledged.  An order is queued, since its handler runs inside loop(), *)
(* written by a later call and then acknowledged.                           *)
Acknowledged(s) ==
    CASE at[s] = "sweep" /\ DemandDue(s) /\ demandCount' # demandCount -> 1
      [] at[s] = "trim" \/ (InLoop(s) /\ activeOrder'[s] # activeOrder[s]) -> 2
      [] OTHER -> 0

(* loop() returns without a message when the second is over, and nothing is *)
(* then still to come, or early.                                            *)
Wakes(s) ==
    \/ Returns(s) /\ Quiet /\ wakes' = [wakes EXCEPT ![s] = 0]
    \/ Returns(s) /\ wakes[s] > 0 /\ wakes' = [wakes EXCEPT ![s] = @ - 1]
    \/ ~Returns(s) /\ wakes' = [wakes EXCEPT ![s] = @ + Acknowledged(s)]

PromptLoop(s) == StoreLoop(s) /\ Wakes(s)

PromptNext ==
    \/ \E s \in Stores : PromptLoop(s) \/ (Sells(s) /\ UNCHANGED wakes)
    \/ \E p \in Producers : ProducerLoop(p) /\ UNCHANGED wakes

(* The threads run: loops go round (the second passes, however often others *)
(* break the quiet), handlers take the messages there are, and a call of    *)
(* the service ends.  Customers, own offers and the coin of                 *)
(* Producer::on_mosqEvent owe nothing.                                      *)
Fairness ==
    /\ \A s \in Stores :
          /\ SF_promptVars(PromptLoop(s))
          /\ WF_promptVars(Sells(s) /\ rpc[s].step # "idle" /\ UNCHANGED wakes)
    /\ \A p \in Producers : WF_promptVars((HearsDemand(p) \/ HearsOrder(p)) /\ UNCHANGED wakes)

PromptSpec == PromptInit /\ [][PromptNext]_promptVars /\ Fairness

-----------------------------------------------------------------------------
(* A store that runs low is restocked: no interleaving of demands, offers,  *)
(* orders and confirmations leaves it waiting for ever for an order the     *)
(* producer has forgotten, although both sides remember only one, and the   *)
(* price goes up for no more than the sweeps a prompt network leaves room   *)
(* for (MaxDemand, at which a demand is never raised again).                *)
LowStockIsRestocked ==
    \A s \in Stores : \A i \in Items : IsLow(s, i) ~> ~IsLow(s, i)

=============================================================================
