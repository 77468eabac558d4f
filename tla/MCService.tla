----------------------------- MODULE MCService ------------------------------
(* A store that two household servers use, the second as one of its         *)
(* ExternalStores, and a sensor item that the store does not have.          *)
EXTENDS StoreService

CONSTANTS s1, h1, h2, cheese, juice

Retail == [s \in Stores |-> [i \in Items |-> 220]]
OneStore == [c \in Clients |-> s1]
Bounds == [c \in Clients |-> 100]
SmallWord == 2^16

=============================================================================
