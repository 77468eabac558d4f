------------------------------ MODULE MCMarket ------------------------------
(* Small markets: the prices are those of startServer.cpp for cheese, the   *)
(* stock starts below, on or just above the level at which a store asks for *)
(* more.                                                                    *)
EXTENDS Replenishment

CONSTANTS s1, s2, p1, p2, cheese, milk

OneItem == <<cheese>>
TwoItems == <<cheese, milk>>
RetailPrices == [s \in Stores |-> [i \in Items |-> IF s = s1 THEN 220 ELSE 200]]
StartAt800 == [s \in Stores |-> 800]
StartAt850 == [s \in Stores |-> 850]
StartAt700 == [s \in Stores |-> 700]
OwnIds == [c \in Clients |-> {}]
ProducersAlike == [c \in Clients |-> IF c = p1 THEN {p2} ELSE {}]
AllProducts == [p \in Producers |-> Items]

=============================================================================
