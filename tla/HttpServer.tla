----------------------------- MODULE HttpServer -----------------------------
(***************************************************************************)
(* A connection of the HttpServer and the browser at its other end, which  *)
(* asks for the page, sends the form of a restock button, or asks for what *)
(* the server does not have.  The request arrives in pieces, or never:     *)
(* connectionHandler calls recv until the header is whole, also when the   *)
(* browser has gone and recv answers 0 at once.  It reads no further, so   *)
(* of the form it has what happened to come along with the header.  Its one *)
(* send waits, without a timeout, while a page does not fit what TCP will  *)
(* buffer and the browser does not read.                                   *)
(* There is one thread, so there is one connection at a time.              *)
(***************************************************************************)

CONSTANT
    Requests         \* what browsers send: [method, uri, item]

VARIABLE
    connection       \* the connection that was accepted, and what has arrived on it

NoConnection == [arrived |-> "nothing"]

HttpInit == connection = NoConnection

(* A browser connects, and has not sent a whole header yet.                 *)
Connect(r) == connection' = [request |-> r, arrived |-> "part", reads |-> TRUE]

Arrive ==
    \/ /\ connection.arrived = "part"
       /\ connection' = [connection EXCEPT !.arrived = "header"]
    \/ /\ connection.arrived = "header" /\ connection.request.method = "POST"
       /\ connection' = [connection EXCEPT !.arrived = "all"]

(* The browser stops reading; it goes on, or leaves, which ends a send too. *)
Turn ==
    /\ connection # NoConnection
    /\ connection' = [connection EXCEPT !.reads = ~@]

HeaderEnded == connection.arrived \in {"header", "all"}

(* Faulty: the `=' is looked for in the header alone.                       *)
NamedNever == {}

(* What follows the last `=' of the message: with the form, its item;       *)
(* without it, the end of a header, which names no item.                    *)
Named == IF connection.arrived = "all" THEN {connection.request.item} ELSE {}

IsPost == HeaderEnded /\ connection.request.method = "POST"
IsPage == HeaderEnded /\ connection.request.method = "GET" /\ connection.request.uri = "/"

(* Faulty: only the method is looked at.                                    *)
IsErrorOfMethod == HeaderEnded /\ ~IsPost /\ connection.request.method # "GET"

IsError == HeaderEnded /\ ~IsPost /\ ~IsPage

(* send and close: a page, or an error that repeats the path, can be longer *)
(* than the buffers; the answer to a button never is.                       *)
Answer ==
    /\ connection.reads \/ IsPost
    /\ connection' = NoConnection

=============================================================================
