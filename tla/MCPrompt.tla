------------------------------ MODULE MCPrompt ------------------------------
(* One store and one producer.  Producer::on_mosqEvent is certain to sell   *)
(* from a price of 205 on, and tosses a coin from 105 on; the retail price  *)
(* puts the first demand at 195, so that the coin may be lost twice.        *)
EXTENDS Prompt

CONSTANTS s1, p1, cheese, milk

TwoItems == <<cheese, milk>>
DearPrices == [s \in Stores |-> [i \in Items |-> 390]]
StartAt800 == [s \in Stores |-> 800]
OwnIds == [c \in Clients |-> {}]
AllProducts == [p \in Producers |-> Items]

=============================================================================
