------------------------------ MODULE MCStress ------------------------------
(***************************************************************************)
(* storeOrderTest of tests/StressTest.cpp: the producers are stopped, the  *)
(* stores start without stock, and the test publishes one offer over and   *)
(* over, which each store hears, and counts the orders that come back.     *)
(***************************************************************************)
EXTENDS StoreManager

CONSTANTS
    s1, s2, cheese,
    Rounds             \* how often the offer is published

VARIABLES
    heard,             \* heard[s]: offers store s has handled
    orders             \* orders the test has received

stressVars == <<storeVars, heard, orders>>

MCOrder == <<cheese>>
MCPrices == [s \in Stores |-> [i \in Items |-> IF s = s1 THEN 220 ELSE 200]]
NoStock == [s \in Stores |-> 0]

TestOffer == [kind |-> "offer", item |-> cheese, price |-> 1, amount |-> INITIAL_STOCK]

StressInit == StoreInit /\ heard = [s \in Stores |-> 0] /\ orders = 0

Hears(s) ==
    /\ heard[s] < Rounds
    /\ heard' = [heard EXCEPT ![s] = @ + 1]
    /\ \/ OrderOffer(s, TestOffer, TRUE) /\ orders' = orders + 1
       \/ IgnoreOffer(s, TestOffer) /\ UNCHANGED orders

StressNext ==
    \E s \in Stores :
        \/ Hears(s)
        \/ /\ EnterLoop(s) \/ LeaveLoop(s) \/ PassItem(s) \/ DemandItem(s) \/ WaitItem(s)
           /\ UNCHANGED <<heard, orders>>

StressSpec == StressInit /\ [][StressNext]_stressVars

(* What the test expects: at least nine orders for every ten offers.        *)
MostOffersAreOrdered ==
    (\A s \in Stores : heard[s] = Rounds) => 10 * orders >= 9 * Rounds

=============================================================================
