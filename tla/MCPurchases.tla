---------------------------- MODULE MCPurchases -----------------------------
(* A household of two sensors, of which the stores know one item, and       *)
(* another household that buys from the first of two stores.                *)
EXTENDS Purchases

CONSTANTS cheese, bread, s1, s2, guest

TwoItems == <<cheese, bread>>
BothStores == <<s1, s2>>
Retail == [s \in {s1, s2} |-> [i \in Stocked |-> IF s = s1 THEN 200 ELSE 220]]
Prices == [s \in {s1, s2} |-> [i \in Items |->
              IF i \in Stocked THEN Retail[s][i] ELSE Word - 1]]
GuestAtFirst == [d \in Outsiders |-> s1]
UnitSteps == [i \in Sensors |-> 1]
UnitStarts == [i \in Sensors |-> {1}]
Bounds == [c \in AllStores \cup Outsiders |-> IF c \in Outsiders THEN 100 ELSE Word]
SmallWord == 2^16
=============================================================================
