------------------------------ MODULE Purchases -----------------------------
(***************************************************************************)
(* The household server and the stores it buys from.  Household leaves     *)
(* open what stores answer and assumes that they do; here each of its      *)
(* calls is a call of StoreService, in which other households' clients     *)
(* take part as well, and the local array `prices' of Server::receive      *)
(* holds what was answered.  The server's client of a store has the name   *)
(* of the store.                                                           *)
(***************************************************************************)
EXTENDS Household

CONSTANTS
    Outsiders,       \* clients of other households
    Visits,          \* Visits[d]: the store outsider d buys from
    Stocked,         \* the items the stores have
    itemPrices, StartStock, Amounts, MaxBought

VARIABLES
    itemStock, orders, client, worker, taken, told, met,
    prices           \* what the stores have answered to getPrice

serviceVars == <<itemStock, orders, client, worker, taken, told, met>>
homeVars == <<peerVars, threadVars, alive>>
marketVars == <<vars, serviceVars, prices>>

AllStores == Range(StoreList)

Shops == INSTANCE StoreService WITH
    Stores <- AllStores, Clients <- AllStores \cup Outsiders,
    StoreOf <- [c \in AllStores \cup Outsiders |-> IF c \in AllStores THEN c ELSE Visits[c]],
    Items <- Stocked, Asked <- Items, up <- storeUp

ASSUME PurchaseAssumption ==
    /\ IsFiniteSet(Outsiders) /\ IsFiniteSet(Stocked)
    /\ Outsiders \cap AllStores = {}
    /\ Visits \in [Outsiders -> Fragile]   \* two threads may end a store, or make it throw
    /\ itemPrices \in [AllStores -> [Stocked -> 0..(Word - 1)]]
    /\ Price = [s \in AllStores |-> [i \in Items |-> Shops!getPrice(s, i)]]
    /\ StartStock \in 0..(Word - 1)
    /\ Amounts \subseteq 1..(Word - 1)
    /\ MaxBought \in [AllStores \cup Outsiders -> Nat]

PurchaseInit ==
    /\ Init
    /\ Shops!Init
    /\ prices = <<>>

-----------------------------------------------------------------------------
(* The receive thread in a call to store c.                                 *)
Success(c) == Head(client[c].answer)
Asking == StoreList[job["receive"].store]
Cheapest == StoreList[job["receive"].cheapest]

(* What Server::receive does by itself.                                     *)
AtHome ==
    /\ Receive \/ Meet \/ Value \/ Amount \/ Restocks("receive")
    /\ UNCHANGED <<serviceVars, prices>>

Dial ==
    /\ \/ Quote /\ (Shops!Open(Asking) \/ Shops!Throws(Asking))
       \/ Buy /\ (Shops!Open(Cheapest) \/ Shops!Throws(Cheapest))
    /\ UNCHANGED prices

(* Faulty: the item is filled up to the threshold only.                     *)
MissingToThreshold(level) == 20 - level

Missing(level) == 100 - level

Ask ==
    LET j == job["receive"]
    IN  /\ \/ At("receive", "quoted") /\ Shops!send_getPrice(Asking, j.item)
           \/ At("receive", "bought") /\ Shops!send_order(Cheapest, j.item, Missing(j.level))
        /\ UNCHANGED <<homeVars, prices>>

GetPrice ==
    /\ At("receive", "quoted") /\ Shops!recv_getPrice(Asking)
    /\ prices' = Append(prices, Head(worker[Asking].reply))
    /\ UNCHANGED homeVars

GetSuccess ==
    /\ At("receive", "bought") /\ Shops!recv_order(Cheapest)
    /\ UNCHANGED <<homeVars, prices>>

(* Faulty: of equal prices the last one is kept.                            *)
LowerOrEqual(k, best) == prices[k] <= prices[best]

Lower(k, best) == prices[k] < prices[best]

Compare ==
    LET k == job["receive"].store
    IN  /\ At("receive", "quoted") /\ Shops!Close(Asking)
        /\ job' = [job EXCEPT !["receive"].cheapest = IF Lower(k, @) THEN k ELSE @,
                              !["receive"].store = @ + 1]
        /\ Goto("receive", IF k = Len(StoreList) THEN "buy" ELSE "quote")
        /\ UNCHANGED <<peerVars, offsets, files, history, alive, prices>>

Decide ==
    /\ At("receive", "bought") /\ Shops!Close(Cheapest)
    /\ Goto("receive", IF Success(Cheapest) THEN "restock" ELSE "recv")
    /\ prices' = <<>>
    /\ UNCHANGED <<peerVars, offsets, files, history, job, alive>>

Fails ==
    /\ \/ At("receive", "quoted") /\ Shops!Throws(Asking)
       \/ At("receive", "bought") /\ Shops!Throws(Cheapest)
    /\ Die
    /\ UNCHANGED prices

Buying == Dial \/ Ask \/ GetPrice \/ GetSuccess \/ Compare \/ Decide \/ Fails

-----------------------------------------------------------------------------
OtherThreads == (Serves \/ Environment) /\ UNCHANGED <<serviceVars, prices>>

Serving(c) == Shops!Serve(c) /\ UNCHANGED <<homeVars, prices>>
Outside == (\E d \in Outsiders : Shops!Use(d)) /\ UNCHANGED <<homeVars, prices>>
Exits == (\E s \in Fragile : Shops!Exit(s)) /\ UNCHANGED <<homeVars, prices>>

PurchaseNext ==
    \/ AtHome \/ Buying \/ OtherThreads \/ Outside \/ Exits
    \/ \E c \in AllStores \cup Outsiders : Serving(c)

PurchaseSpec ==
    /\ PurchaseInit /\ [][PurchaseNext]_marketVars
    /\ WF_marketVars(AtHome \/ Buying)
    /\ \A c \in AllStores : WF_marketVars(Serving(c))

-----------------------------------------------------------------------------
(* The stores do what Household takes them to do: an answer is the price of *)
(* the store, whatever other clients do meanwhile, the process dies only    *)
(* where it does there, and the receive thread never waits for ever.        *)
ImplementsHousehold == Spec /\ WF_vars(Receives)

(* What leaves the stock of a store for the household is what it has found  *)
(* missing, once, at a store none undercuts, while it waits for the answer. *)
TakenIsMissing ==
    [][\A s \in AllStores :
          taken'[s] # taken[s] =>
              LET j == job["receive"]
              IN  /\ pc["receive"] = "bought" /\ s = Cheapest
                  /\ taken'[s] = taken[s] + 100 - j.level /\ files[j.item] = <<j.level>>
                  /\ taken[s] = told[s]
                  /\ \A r \in AllStores : Price[s][j.item] <= Price[r][j.item]]_marketVars

=============================================================================
