------------------------------ MODULE Counter -------------------------------
(***************************************************************************)
(* What a store promises the clients of its Thrift service, without saying *)
(* how: an order is sold in one step and from what is there, or refused    *)
(* because there is too little; what is sold is entered in the ledger      *)
(* before its client hears of it; a receipt is the ledger as it is, except *)
(* that while another client's sale is still to be entered it may be       *)
(* anything, or not come.  The promise ends for a store at which two       *)
(* orders meet.                                                            *)
(***************************************************************************)
EXTENDS Naturals, Sequences

CONSTANTS Stores, Clients, StoreOf, Items, itemPrices, Calls, NoCall

VARIABLES
    open,      \* open[s]: the promise holds of store s
    shelf,     \* shelf[s][i]
    book,      \* book[s]: the entries of its ledger
    desk       \* desk[c]: how far the call of client c is

vars == <<open, shelf, book, desk>>

Desk(at, call, paper) == [at |-> at, call |-> call, paper |-> paper]
Nobody == Desk("free", NoCall, <<>>)

Init ==
    /\ open = [s \in Stores |-> TRUE]
    /\ shelf \in [Stores -> [Items -> Nat]]
    /\ book = [s \in Stores |-> <<>>]
    /\ desk = [c \in Clients |-> Nobody]

Now(c, at, paper) == desk' = [desk EXCEPT ![c] = Desk(at, desk[c].call, paper)]
Orders(c) == desk[c].at = "asks" /\ desk[c].call.method = "order"

Enough(s, call) == call.item \in Items /\ call.amount <= shelf[s][call.item]

Ask(c, call) ==
    /\ open[StoreOf[c]] /\ desk[c] = Nobody
    /\ desk' = [desk EXCEPT ![c] = Desk("asks", call, <<>>)]
    /\ UNCHANGED <<open, shelf, book>>

Sell(c) ==
    LET s == StoreOf[c]
        call == desk[c].call
    IN  /\ Orders(c) /\ Enough(s, call)
        /\ shelf' = [shelf EXCEPT ![s][call.item] = @ - call.amount]
        /\ Now(c, "sold", <<>>)
        /\ UNCHANGED <<open, book>>

Enter(c) ==
    LET s == StoreOf[c]
        call == desk[c].call
        entry == [item |-> call.item, amount |-> call.amount,
                  total |-> itemPrices[s][call.item] * call.amount]
    IN  /\ desk[c].at = "sold"
        /\ book' = [book EXCEPT ![s] = Append(@, entry)]
        /\ Now(c, "yes", <<>>)
        /\ UNCHANGED <<open, shelf>>

Refuse(c) ==
    /\ Orders(c) /\ ~Enough(StoreOf[c], desk[c].call)
    /\ Now(c, "no", <<>>)
    /\ UNCHANGED <<open, shelf, book>>

Show(c) ==
    /\ desk[c].at = "asks" /\ desk[c].call.method = "getReceipt"
    /\ Now(c, "receipt", <<book[StoreOf[c]]>>)
    /\ UNCHANGED <<open, shelf, book>>

Entering(c) == \E d \in Clients \ {c} : StoreOf[d] = StoreOf[c] /\ desk[d].at = "sold"

Garble(c) ==
    /\ desk[c].at = "asks" /\ desk[c].call.method = "getReceipt"
    /\ Entering(c)
    /\ Now(c, "receipt", <<>>)
    /\ UNCHANGED <<open, shelf, book>>

(* The client has its answer, or an exception instead of a receipt, or the  *)
(* store has gone.                                                          *)
Leave(c) ==
    /\ desk[c].at \in {"asks", "yes", "no", "receipt"}
    /\ desk' = [desk EXCEPT ![c] = Nobody]
    /\ UNCHANGED <<open, shelf, book>>

(* Two orders meet at store s: nothing is said of it from now on.           *)
Spoil(s) ==
    /\ open[s] /\ open' = [open EXCEPT ![s] = FALSE]
    /\ shelf' = [shelf EXCEPT ![s] = <<>>]
    /\ book' = [book EXCEPT ![s] = <<>>]
    /\ desk' = [c \in Clients |-> IF StoreOf[c] = s THEN Nobody ELSE desk[c]]

Next ==
    \/ \E c \in Clients :
          \/ \E call \in Calls : Ask(c, call)
          \/ Sell(c) \/ Enter(c) \/ Refuse(c) \/ Show(c) \/ Garble(c) \/ Leave(c)
    \/ \E s \in Stores : Spoil(s)

Spec == Init /\ [][Next]_vars

=============================================================================
