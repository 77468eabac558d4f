----------------------------- MODULE Stockroom ------------------------------
(***************************************************************************)
(* What a store promises about its shelves, without saying how: there is   *)
(* room for the one delivery it waits for, stock rises only when that      *)
(* delivery is booked, by at least what was ordered and never above the    *)
(* capacity, and otherwise stock only falls, by how much is not said.      *)
(***************************************************************************)
EXTENDS Naturals

CONSTANTS Stores, Items, NoItem, Capacity

VARIABLES
    stock,     \* stock[s][i]
    pending    \* pending[s]: the delivery store s waits for

vars == <<stock, pending>>

Nothing == [item |-> NoItem, amount |-> 0]

Init ==
    /\ stock \in [Stores -> [Items -> 0..Capacity]]
    /\ pending = [s \in Stores |-> Nothing]

(* A new order replaces the one that is open.                               *)
Order(s, i) ==
    /\ pending'[s].item = i
    /\ stock[s][i] + pending'[s].amount <= Capacity
    /\ pending' = [pending EXCEPT ![s] = pending'[s]]
    /\ UNCHANGED stock

Book(s) ==
    LET i == pending[s].item
    IN  /\ pending[s] # Nothing
        /\ stock[s][i] + pending[s].amount <= stock'[s][i]
        /\ stock'[s][i] <= Capacity
        /\ stock' = [stock EXCEPT ![s][i] = stock'[s][i]]
        /\ pending' = [pending EXCEPT ![s] = Nothing]

Sell(s, i) ==
    /\ stock'[s][i] \in Nat /\ stock'[s][i] < stock[s][i]
    /\ stock' = [stock EXCEPT ![s][i] = stock'[s][i]]
    /\ UNCHANGED pending

Next ==
    \E s \in Stores :
        \/ \E i \in Items : Order(s, i) \/ Sell(s, i)
        \/ Book(s)

Spec == Init /\ [][Next]_vars

=============================================================================
