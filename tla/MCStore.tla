------------------------------ MODULE MCStore -------------------------------
(* One store and an environment that sends it any offer and any             *)
(* confirmation.                                                            *)
EXTENDS StoreManager

CONSTANTS s1, cheese, milk

MCOrder == <<cheese, milk>>
MCOneItem == <<cheese>>
MCPrices == [s \in Stores |-> [i \in Items |-> 220]]
MCStart == [s \in Stores |-> 800]
MCOfferAmounts == {200, 300, 1000}

=============================================================================
