---------------------------- MODULE MCHousehold -----------------------------
(* Households of one and of two sensors, and two stores with the prices of  *)
(* startServer.cpp.                                                         *)
EXTENDS Household

CONSTANTS cheese, bread, s1, s2

OneItem == <<cheese>>
TwoItems == <<cheese, bread>>
BothStores == <<s1, s2>>
Prices == [s \in {s1, s2} |-> [i \in Items |->
              IF s = s1 THEN IF i = cheese THEN 220 ELSE 150
              ELSE IF i = cheese THEN 200 ELSE 155]]

(* A sensor that counts down and starts over, in larger steps than those of *)
(* startSensors.cpp.                                                        *)
LargeSteps == [i \in Sensors |-> -15]
FullStart == [i \in Sensors |-> {100}]

(* The sensors of Test.cpp: 100, then 0.                                    *)
UnitSteps == [i \in Sensors |-> 1]
UnitStarts == [i \in Sensors |-> {1}]

(* What browsers ask for: the page, a picture, a button.                    *)
Get(uri) == [method |-> "GET", uri |-> uri, item |-> cheese]
PressFor(i) == [method |-> "POST", uri |-> "/", item |-> i]
PageAndButton == {Get("/"), Get("/favicon.ico"), PressFor(cheese)}

SmallWord == 2^16
=============================================================================
