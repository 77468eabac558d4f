--------------------------- MODULE ServiceProofs ----------------------------
(***************************************************************************)
(* The connections to the stores, for any number of stores, clients, items *)
(* and amounts, and unsigned numbers of any width.                         *)
(***************************************************************************)
EXTENDS StoreService, SequenceTheorems, FiniteSetTheorems, WellFoundedInduction, TLAPS

ClientOf(r) == [at |-> r.at, call |-> r.call, answer |-> r.answer]
WorkerOf(r) == [at |-> r.at, seen |-> r.seen, reply |-> r.reply]

Unsigned == 0..(Word - 1)

(* A result of the call: the price, whether it was sold, or a receipt, of   *)
(* which nothing is known if it was copied during a push.                   *)
ResultOf(s, call, result) ==
    /\ result = <<>> \/ result = <<result[1]>>
    /\ result = <<>> => call.method = "getReceipt"
    /\ call.method = "getPrice" => result[1] = getPrice(s, call.item)
    /\ call.method = "order" => result[1] \in BOOLEAN
    /\ call.method = "getReceipt" /\ result # <<>> => result[1] \in Seq(Order)

SharedOK ==
    /\ itemStock \in [Stores -> [Items -> Unsigned]]
    /\ orders \in [Stores -> Seq(Order)]
    /\ up \in [Stores -> BOOLEAN]

ShapeOK ==
    /\ DOMAIN client = Clients /\ DOMAIN worker = Clients
    /\ taken \in [Clients -> Nat] /\ told \in [Clients -> Nat]

(* Where a client and the thread that serves it can be.                     *)
ConnectionOK(c) ==
    /\ client[c] = ClientOf(client[c]) /\ worker[c] = WorkerOf(worker[c])
    /\ client[c].call \in Methods
    /\ \/ client[c].at = "closed" /\ worker[c].at = "none"
       \/ client[c].at \in {"open", "answered"} /\ worker[c].at = "reading"
       \/ /\ client[c].at = "waiting"
          /\ worker[c].at \in {"reading", "checked", "read", "push", "pushing", "replied", "failed"}
       \/ /\ client[c].at = "dead" /\ (Runs(c) => worker[c].at = "failed")
          /\ worker[c].at \in {"none", "reading", "checked", "read", "push", "pushing", "failed"}
    /\ client[c].at = "answered" => ResultOf(StoreOf[c], client[c].call, client[c].answer)
    /\ worker[c].at = "replied" => ResultOf(StoreOf[c], client[c].call, worker[c].reply)
    /\ worker[c].at \in {"checked", "read", "push", "pushing"} =>
          client[c].at \in {"waiting", "dead"} /\ Asks(c, "order") /\ client[c].call.item \in Items
    /\ worker[c].at = "read" => worker[c].seen \in Unsigned
    /\ worker[c].at = "failed" =>
          client[c].at \in {"waiting", "dead"} /\ ~Asks(c, "getPrice") /\ Others(c) # {}

(* Taken from the stock, and not yet told.                                  *)
Owed(c) ==
    \/ worker[c].at \in {"push", "pushing"}
    \/ worker[c].at = "replied" /\ Asks(c, "order") /\ worker[c].reply = <<TRUE>>
    \/ worker[c].at = "failed" /\ Asks(c, "order")

SalesOK(c) == taken[c] = told[c] + IF Owed(c) THEN client[c].call.amount ELSE 0

PeerOK(c) == ConnectionOK(c) /\ SalesOK(c)
ServiceInv == SharedOK /\ ShapeOK /\ \A c \in Clients : PeerOK(c)

-----------------------------------------------------------------------------
(* The calls, and records of which one field is replaced.                   *)

LEMMA CallsAreTyped ==
    ASSUME NEW call \in Methods
    PROVE  /\ call = [method |-> call.method, item |-> call.item, amount |-> call.amount]
           /\ call.method \in {"getPrice", "getReceipt", "order"} /\ call.item \in Asked
           /\ call.method = "order" => call.amount \in Amounts
           /\ call.amount \in Nat
BY ServiceAssumption DEF Methods, Call

LEMMA FirstCall == NoCall \in Methods
<1>1. PICK i : i = CHOOSE j \in Asked : TRUE OBVIOUS
<1>2. i \in Asked BY <1>1, ServiceAssumption
<1>3. Call("getPrice", i, 0) \in Methods BY <1>2 DEF Methods
<1> QED BY <1>1, <1>3 DEF NoCall

LEMMA MadeCalls ==
    ASSUME NEW i \in Asked
    PROVE  /\ Call("getPrice", i, 0) \in Methods /\ Call("getReceipt", i, 0) \in Methods
           /\ \A n \in Amounts : Call("order", i, n) \in Methods
BY DEF Methods

LEMMA PricesAreUnsigned ==
    ASSUME NEW c \in Clients, NEW i PROVE getPrice(StoreOf[c], i) \in 0..INT_MAX
<1>1. CASE i \in Items BY <1>1, ServiceAssumption DEF getPrice, INT_MAX
<1>2. CASE i \notin Items
  <2>1. Word - 1 \in 0..(Word - 1) BY ServiceAssumption
  <2> QED BY <1>2, <2>1 DEF getPrice, INT_MAX
<1> QED BY <1>1, <1>2

LEMMA ClientField ==
    ASSUME NEW r, NEW x, NEW a, NEW k, NEW v, r = [at |-> a, call |-> k, answer |-> v]
    PROVE  /\ [r EXCEPT !.at = x] = [at |-> x, call |-> k, answer |-> v]
           /\ [r EXCEPT !.answer = x] = [at |-> a, call |-> k, answer |-> x]
<1>1. [r EXCEPT !.at = x] = [at |-> x, call |-> k, answer |-> v] OBVIOUS
<1>2. [r EXCEPT !.answer = x] = [at |-> a, call |-> k, answer |-> x] OBVIOUS
<1> QED BY <1>1, <1>2

LEMMA ClientFields ==
    ASSUME NEW r, r = ClientOf(r), NEW x, NEW y
    PROVE  /\ [r EXCEPT !.at = x] = [at |-> x, call |-> r.call, answer |-> r.answer]
           /\ [r EXCEPT !.at = x, !.answer = y] = [at |-> x, call |-> r.call, answer |-> y]
<1>1. [r EXCEPT !.at = x] = [at |-> x, call |-> r.call, answer |-> r.answer]
  BY ClientField DEF ClientOf
<1>2. [r EXCEPT !.at = x, !.answer = y] = [[r EXCEPT !.at = x] EXCEPT !.answer = y] OBVIOUS
<1>3. PICK m, k, v : m = [r EXCEPT !.at = x] /\ k = r.call /\ v = r.answer OBVIOUS
<1>4. m = [at |-> x, call |-> k, answer |-> v] BY <1>1, <1>3
<1>5. [m EXCEPT !.answer = y] = [at |-> x, call |-> k, answer |-> y] BY <1>4, ClientField
<1> QED BY <1>1, <1>2, <1>3, <1>5

LEMMA WorkerField ==
    ASSUME NEW r, NEW x, NEW a, NEW n, NEW v, r = [at |-> a, seen |-> n, reply |-> v]
    PROVE  /\ [r EXCEPT !.at = x] = [at |-> x, seen |-> n, reply |-> v]
           /\ [r EXCEPT !.seen = x] = [at |-> a, seen |-> x, reply |-> v]
           /\ [r EXCEPT !.reply = x] = [at |-> a, seen |-> n, reply |-> x]
<1>1. [r EXCEPT !.at = x] = [at |-> x, seen |-> n, reply |-> v] OBVIOUS
<1>2. [r EXCEPT !.seen = x] = [at |-> a, seen |-> x, reply |-> v] OBVIOUS
<1>3. [r EXCEPT !.reply = x] = [at |-> a, seen |-> n, reply |-> x] OBVIOUS
<1> QED BY <1>1, <1>2, <1>3

LEMMA WorkerFields ==
    ASSUME NEW r, r = WorkerOf(r), NEW x, NEW y
    PROVE  /\ [r EXCEPT !.at = x] = [at |-> x, seen |-> r.seen, reply |-> r.reply]
           /\ [r EXCEPT !.at = x, !.reply = y] = [at |-> x, seen |-> r.seen, reply |-> y]
<1>1. [r EXCEPT !.at = x] = [at |-> x, seen |-> r.seen, reply |-> r.reply]
  BY WorkerField DEF WorkerOf
<1>2. [r EXCEPT !.at = x, !.reply = y] = [[r EXCEPT !.at = x] EXCEPT !.reply = y] OBVIOUS
<1>3. PICK m, n, v : m = [r EXCEPT !.at = x] /\ n = r.seen /\ v = r.reply OBVIOUS
<1>4. m = [at |-> x, seen |-> n, reply |-> v] BY <1>1, <1>3
<1>5. [m EXCEPT !.reply = y] = [at |-> x, seen |-> n, reply |-> y] BY <1>4, WorkerField
<1> QED BY <1>1, <1>2, <1>3, <1>5

LEMMA RestIsUnsigned ==
    ASSUME NEW seen \in Unsigned, NEW n \in Amounts
    PROVE  Rest(seen, n) \in Unsigned
<1>1. Word \in Nat \ {0} /\ n \in 1..(Word - 1) BY ServiceAssumption
<1>2. seen + Word - n \in Nat BY <1>1 DEF Unsigned
<1> QED BY <1>1, <1>2 DEF Rest, Unsigned

-----------------------------------------------------------------------------
LEMMA ServiceInvInit == ASSUME Init PROVE ServiceInv
<1>1. SharedOK
  <2>1. <<>> \in Seq(Order) OBVIOUS
  <2> QED BY <2>1, ServiceAssumption DEF Init, SharedOK, Unsigned
<1>2. ShapeOK BY DEF Init, ShapeOK
<1>3. ASSUME NEW c \in Clients PROVE PeerOK(c)
  <2>1. client[c] = Closed /\ worker[c] = NoWorker BY DEF Init
  <2>2. ConnectionOK(c) BY <2>1, FirstCall DEF ConnectionOK, ClientOf, WorkerOf, Closed, NoWorker
  <2>3. SalesOK(c)
    <3>1. ~Owed(c) BY <2>1 DEF Owed, NoWorker
    <3>2. taken[c] = 0 /\ told[c] = 0 BY DEF Init
    <3> QED BY <3>1, <3>2 DEF SalesOK
  <2> QED BY <2>2, <2>3 DEF PeerOK
<1> QED BY <1>1, <1>2, <1>3 DEF ServiceInv

-----------------------------------------------------------------------------
(* A step that concerns one connection.                                     *)

Elsewhere(c) ==
    \A d \in Clients \ {c} :
        client'[d] = client[d] /\ worker'[d] = worker[d] /\ taken'[d] = taken[d] /\ told'[d] = told[d]

LEMMA OnePeerMoves ==
    ASSUME ServiceInv, NEW c \in Clients, Elsewhere(c), SharedOK', ShapeOK', PeerOK(c)',
           \A s \in Stores : up'[s] => up[s]
    PROVE  ServiceInv'
<1>1. ASSUME NEW d \in Clients \ {c} PROVE PeerOK(d)'
  <2>1. /\ client'[d] = client[d] /\ worker'[d] = worker[d]
        /\ taken'[d] = taken[d] /\ told'[d] = told[d]
    BY DEF Elsewhere
  <2>2. Runs(d)' => Runs(d) BY ServiceAssumption DEF Runs
  <2>3. ConnectionOK(d) /\ SalesOK(d) BY DEF ServiceInv, PeerOK
  <2>4. ConnectionOK(d)' BY <2>1, <2>2, <2>3 DEF ConnectionOK, Asks
  <2>5. SalesOK(d)' BY <2>1, <2>3 DEF SalesOK, Owed, Asks
  <2> QED BY <2>4, <2>5 DEF PeerOK
<1> QED BY <1>1 DEF ServiceInv

LEMMA ClientMoves ==
    ASSUME ShapeOK, NEW c \in Clients, client[c] = ClientOf(client[c]), NEW x,
           client' = [client EXCEPT ![c].at = x]
    PROVE  /\ DOMAIN client' = Clients /\ \A d \in Clients \ {c} : client'[d] = client[d]
           /\ client'[c] = ClientOf(client'[c])
           /\ client'[c].at = x /\ client'[c].call = client[c].call /\ client'[c].answer = client[c].answer
<1>1. client'[c] = [client[c] EXCEPT !.at = x] BY DEF ShapeOK
<1>2. client'[c] = [at |-> x, call |-> client[c].call, answer |-> client[c].answer]
  BY <1>1, ClientFields
<1> QED BY <1>2 DEF ShapeOK, ClientOf

LEMMA WorkerMoves ==
    ASSUME ShapeOK, NEW c \in Clients, worker[c] = WorkerOf(worker[c]), NEW x, Works(c, x)
    PROVE  /\ DOMAIN worker' = Clients /\ \A d \in Clients \ {c} : worker'[d] = worker[d]
           /\ worker'[c] = WorkerOf(worker'[c])
           /\ worker'[c].at = x /\ worker'[c].seen = worker[c].seen /\ worker'[c].reply = worker[c].reply
<1>1. worker'[c] = [worker[c] EXCEPT !.at = x] BY DEF ShapeOK, Works
<1>2. worker'[c] = [at |-> x, seen |-> worker[c].seen, reply |-> worker[c].reply]
  BY <1>1, WorkerFields
<1> QED BY <1>2 DEF ShapeOK, WorkerOf, Works

LEMMA WorkerReplies ==
    ASSUME ShapeOK, NEW c \in Clients, worker[c] = WorkerOf(worker[c]), NEW x, Replies(c, x)
    PROVE  /\ DOMAIN worker' = Clients /\ \A d \in Clients \ {c} : worker'[d] = worker[d]
           /\ worker'[c] = WorkerOf(worker'[c])
           /\ worker'[c].at = "replied" /\ worker'[c].reply = <<x>>
<1>1. worker'[c] = [worker[c] EXCEPT !.at = "replied", !.reply = <<x>>] BY DEF ShapeOK, Replies
<1>2. PICK y, z : y = "replied" /\ z = <<x>> OBVIOUS
<1>3. worker'[c] = [worker[c] EXCEPT !.at = y, !.reply = z] BY <1>1, <1>2
<1>4. worker'[c] = [at |-> y, seen |-> worker[c].seen, reply |-> z] BY <1>3, WorkerFields
<1> QED BY <1>2, <1>4 DEF ShapeOK, WorkerOf, Replies

LEMMA WorkerGarbles ==
    ASSUME ShapeOK, NEW c \in Clients, worker[c] = WorkerOf(worker[c]), Garbles(c)
    PROVE  /\ DOMAIN worker' = Clients /\ \A d \in Clients \ {c} : worker'[d] = worker[d]
           /\ worker'[c] = WorkerOf(worker'[c])
           /\ worker'[c].at = "replied" /\ worker'[c].reply = <<>>
<1>1. worker'[c] = [worker[c] EXCEPT !.at = "replied", !.reply = <<>>] BY DEF ShapeOK, Garbles
<1>2. PICK y, z : y = "replied" /\ z = <<>> OBVIOUS
<1>3. worker'[c] = [worker[c] EXCEPT !.at = y, !.reply = z] BY <1>1, <1>2
<1>4. worker'[c] = [at |-> y, seen |-> worker[c].seen, reply |-> z] BY <1>3, WorkerFields
<1> QED BY <1>2, <1>4 DEF ShapeOK, WorkerOf, Garbles

LEMMA WorkerReads ==
    ASSUME ShapeOK, NEW c \in Clients, worker[c] = WorkerOf(worker[c]), NEW n,
           worker' = [worker EXCEPT ![c].at = "read", ![c].seen = n]
    PROVE  /\ DOMAIN worker' = Clients /\ \A d \in Clients \ {c} : worker'[d] = worker[d]
           /\ worker'[c] = WorkerOf(worker'[c])
           /\ worker'[c].at = "read" /\ worker'[c].seen = n
<1>1. PICK y, m, k, v : /\ y = "read" /\ m = [worker[c] EXCEPT !.at = y]
                       /\ k = worker[c].seen /\ v = worker[c].reply
  OBVIOUS
<1>2. worker'[c] = [m EXCEPT !.seen = n]
  <2>1. worker'[c] = [[worker[c] EXCEPT !.at = "read"] EXCEPT !.seen = n] BY DEF ShapeOK
  <2> QED BY <1>1, <2>1
<1>3. m = [at |-> y, seen |-> k, reply |-> v] BY <1>1, WorkerFields
<1>4. [m EXCEPT !.seen = n] = [at |-> y, seen |-> n, reply |-> v] BY <1>3, WorkerField
<1> QED BY <1>1, <1>2, <1>4 DEF ShapeOK, WorkerOf

-----------------------------------------------------------------------------
(* The steps of the client.                                                 *)

LEMMA SalesStay ==
    ASSUME NEW c \in Clients, SalesOK(c), UNCHANGED <<taken, told>>,
           client'[c].call.amount = client[c].call.amount \/ ~Owed(c), Owed(c)' <=> Owed(c)
    PROVE  SalesOK(c)'
BY DEF SalesOK

LEMMA OpenKeeps ==
    ASSUME ServiceInv, NEW c \in Clients, Open(c) PROVE ServiceInv'
<1> USE DEF ServiceInv, PeerOK
<1>1. /\ client[c].at = "closed" /\ client' = [client EXCEPT ![c].at = "open"] /\ Works(c, "reading")
      /\ UNCHANGED <<itemStock, orders, up, taken, told>>
  BY DEF Open, shared
<1>2. client[c] = ClientOf(client[c]) /\ worker[c] = WorkerOf(worker[c]) /\ worker[c].at = "none"
  BY <1>1 DEF ConnectionOK
<1>3. /\ DOMAIN client' = Clients /\ \A d \in Clients \ {c} : client'[d] = client[d]
      /\ client'[c] = ClientOf(client'[c])
      /\ client'[c].at = "open" /\ client'[c].call = client[c].call
  BY <1>1, <1>2, ClientMoves
<1>4. /\ DOMAIN worker' = Clients /\ \A d \in Clients \ {c} : worker'[d] = worker[d]
      /\ worker'[c] = WorkerOf(worker'[c]) /\ worker'[c].at = "reading"
  BY <1>1, <1>2, WorkerMoves
<1>5. ConnectionOK(c)' BY <1>3, <1>4 DEF ConnectionOK
<1>6. SalesOK(c)'
  <2>1. ~Owed(c) /\ ~Owed(c)' BY <1>2, <1>4 DEF Owed
  <2> QED BY <1>1, <2>1, SalesStay
<1>7. SharedOK' /\ ShapeOK' BY <1>1, <1>3, <1>4 DEF SharedOK, ShapeOK
<1>8. Elsewhere(c) BY <1>1, <1>3, <1>4 DEF Elsewhere
<1>9. PeerOK(c)' BY <1>5, <1>6
<1> HIDE DEF ServiceInv, PeerOK
<1> QED BY <1>1, <1>7, <1>8, <1>9, OnePeerMoves

LEMMA SendsKeeps ==
    ASSUME ServiceInv, NEW c \in Clients, NEW call \in Methods, Sends(c, call) PROVE ServiceInv'
<1> USE DEF ServiceInv, PeerOK
<1>1. /\ client[c].at = "open"
      /\ client' = [client EXCEPT ![c] = [at |-> "waiting", call |-> call, answer |-> <<>>]]
      /\ UNCHANGED <<itemStock, orders, up, worker, taken, told>>
  BY DEF Sends, shared
<1>2. worker[c].at = "reading" BY <1>1 DEF ConnectionOK
<1>3. /\ DOMAIN client' = Clients /\ \A d \in Clients \ {c} : client'[d] = client[d]
      /\ client'[c] = [at |-> "waiting", call |-> call, answer |-> <<>>]
  BY <1>1 DEF ShapeOK
<1>4. client'[c] = ClientOf(client'[c]) /\ client'[c].at = "waiting" /\ client'[c].call = call
  BY <1>3 DEF ClientOf
<1>5. ConnectionOK(c)'
  <2>1. worker[c] = WorkerOf(worker[c]) BY DEF ConnectionOK
  <2> QED BY <1>1, <1>2, <1>4, <2>1 DEF ConnectionOK
<1>6. SalesOK(c)'
  <2>1. ~Owed(c) /\ ~Owed(c)' BY <1>1, <1>2 DEF Owed
  <2> QED BY <1>1, <2>1, SalesStay
<1>7. SharedOK' /\ ShapeOK' BY <1>1, <1>3 DEF SharedOK, ShapeOK
<1>8. Elsewhere(c) BY <1>1, <1>3 DEF Elsewhere
<1>9. PeerOK(c)' BY <1>5, <1>6
<1> HIDE DEF ServiceInv, PeerOK
<1> QED BY <1>1, <1>7, <1>8, <1>9, OnePeerMoves

LEMMA HearsMoves ==
    ASSUME ServiceInv, NEW c \in Clients, NEW m, Hears(c, m)
    PROVE  /\ ConnectionOK(c)' /\ SharedOK'
           /\ DOMAIN client' = Clients /\ DOMAIN worker' = Clients
           /\ \A d \in Clients \ {c} : client'[d] = client[d] /\ worker'[d] = worker[d]
           /\ worker[c].at = "replied" /\ worker'[c].at = "reading" /\ Asks(c, m)
           /\ client'[c].at = "answered" /\ client'[c].call = client[c].call
           /\ client'[c].answer = worker[c].reply /\ ~Owed(c)' /\ UNCHANGED <<up, taken>>
<1> USE DEF ServiceInv, PeerOK
<1>1. /\ client[c].at = "waiting" /\ worker[c].at = "replied" /\ Asks(c, m)
      /\ client' = [client EXCEPT ![c].at = "answered", ![c].answer = worker[c].reply]
      /\ Works(c, "reading")
      /\ UNCHANGED <<itemStock, orders, up, taken>>
  BY DEF Hears, shared
<1>2. /\ client[c] = ClientOf(client[c]) /\ worker[c] = WorkerOf(worker[c])
      /\ ResultOf(StoreOf[c], client[c].call, worker[c].reply) /\ client[c].call \in Methods
  BY <1>1 DEF ConnectionOK
<1>3. /\ DOMAIN client' = Clients /\ \A d \in Clients \ {c} : client'[d] = client[d]
      /\ client'[c] = [client[c] EXCEPT !.at = "answered", !.answer = worker[c].reply]
  BY <1>1 DEF ShapeOK
<1>4. PICK x, y : x = "answered" /\ y = worker[c].reply OBVIOUS
<1>5. client'[c] = [at |-> x, call |-> client[c].call, answer |-> y]
  <2>1. client'[c] = [client[c] EXCEPT !.at = x, !.answer = y] BY <1>3, <1>4
  <2> QED BY <1>2, <2>1, ClientFields, ZenonT(40)
<1>6. /\ client'[c] = ClientOf(client'[c]) /\ client'[c].at = "answered"
      /\ client'[c].call = client[c].call /\ client'[c].answer = worker[c].reply
  BY <1>4, <1>5 DEF ClientOf
<1>7. /\ DOMAIN worker' = Clients /\ \A d \in Clients \ {c} : worker'[d] = worker[d]
      /\ worker'[c] = WorkerOf(worker'[c]) /\ worker'[c].at = "reading"
  BY <1>1, <1>2, WorkerMoves
<1>8. ConnectionOK(c)' BY <1>2, <1>6, <1>7 DEF ConnectionOK
<1>9. SharedOK' BY <1>1 DEF SharedOK
<1>10. ~Owed(c)' BY <1>7 DEF Owed
<1> QED BY <1>1, <1>3, <1>6, <1>7, <1>8, <1>9, <1>10

LEMMA ReceiveKeeps ==
    ASSUME ServiceInv, NEW c \in Clients, Receive(c) PROVE ServiceInv'
<1>1. CASE recv_getPrice(c) \/ recv_getReceipt(c)
  <2>1. PICK m \in {"getPrice", "getReceipt"} : Hears(c, m) /\ UNCHANGED told
    BY <1>1 DEF recv_getPrice, recv_getReceipt
  <2>2. /\ ConnectionOK(c)' /\ SharedOK'
        /\ DOMAIN client' = Clients /\ DOMAIN worker' = Clients
        /\ \A d \in Clients \ {c} : client'[d] = client[d] /\ worker'[d] = worker[d]
        /\ worker[c].at = "replied" /\ Asks(c, m)
        /\ ~Owed(c)' /\ UNCHANGED <<up, taken>>
    BY <2>1, HearsMoves
  <2>3. ~Owed(c) BY <2>2 DEF Owed, Asks
  <2>4. SalesOK(c)' BY <2>1, <2>2, <2>3, SalesStay DEF ServiceInv, PeerOK
  <2>5. Elsewhere(c) /\ ShapeOK' BY <2>1, <2>2 DEF Elsewhere, ShapeOK, ServiceInv
  <2>6. PeerOK(c)' BY <2>2, <2>4 DEF PeerOK
  <2> QED BY <2>2, <2>5, <2>6, OnePeerMoves
<1>2. CASE recv_order(c)
  <2> DEFINE more == IF worker[c].reply = <<TRUE>> THEN client[c].call.amount ELSE 0
  <2>1. Hears(c, "order") /\ told' = [told EXCEPT ![c] = told[c] + more]
    BY <1>2 DEF recv_order
  <2>2. /\ ConnectionOK(c)' /\ SharedOK'
        /\ DOMAIN client' = Clients /\ DOMAIN worker' = Clients
        /\ \A d \in Clients \ {c} : client'[d] = client[d] /\ worker'[d] = worker[d]
        /\ worker[c].at = "replied" /\ Asks(c, "order")
        /\ ~Owed(c)' /\ UNCHANGED <<up, taken>>
    BY <2>1, HearsMoves
  <2>3. client[c].call.amount \in Nat BY CallsAreTyped DEF ServiceInv, PeerOK, ConnectionOK
  <2>4. more \in Nat BY <2>3
  <2>5. taken[c] = told[c] + more BY <2>2 DEF ServiceInv, PeerOK, SalesOK, Owed
  <2> HIDE DEF more
  <2>6. told' \in [Clients -> Nat] /\ told'[c] = told[c] + more
        /\ \A d \in Clients \ {c} : told'[d] = told[d]
    BY <2>1, <2>4 DEF ServiceInv, ShapeOK
  <2>7. SalesOK(c)'
    <3>1. taken'[c] = told'[c] /\ told'[c] \in Nat BY <2>2, <2>5, <2>6
    <3> QED BY <2>2, <3>1 DEF SalesOK
  <2>8. Elsewhere(c) /\ ShapeOK' BY <2>2, <2>6 DEF Elsewhere, ShapeOK, ServiceInv
  <2>9. PeerOK(c)' BY <2>2, <2>7 DEF PeerOK
  <2> QED BY <2>2, <2>8, <2>9, OnePeerMoves
<1> QED BY <1>1, <1>2 DEF Receive

LEMMA CloseKeeps ==
    ASSUME ServiceInv, NEW c \in Clients, Close(c) PROVE ServiceInv'
<1> USE DEF ServiceInv, PeerOK
<1>1. /\ client[c].at = "answered" /\ client' = [client EXCEPT ![c] = Closed]
      /\ worker' = [worker EXCEPT ![c] = NoWorker]
      /\ UNCHANGED <<itemStock, orders, up, taken, told>>
  BY DEF Close, shared
<1>2. /\ DOMAIN client' = Clients /\ DOMAIN worker' = Clients
      /\ \A d \in Clients \ {c} : client'[d] = client[d] /\ worker'[d] = worker[d]
      /\ client'[c] = Closed /\ worker'[c] = NoWorker
  BY <1>1 DEF ShapeOK
<1>3. ConnectionOK(c)' BY <1>2, FirstCall DEF ConnectionOK, ClientOf, WorkerOf, Closed, NoWorker
<1>4. SalesOK(c)'
  <2>1. worker[c].at = "reading" BY <1>1 DEF ConnectionOK
  <2>2. ~Owed(c) /\ ~Owed(c)' BY <1>2, <2>1 DEF Owed, NoWorker
  <2> QED BY <1>1, <2>2, SalesStay
<1>5. SharedOK' /\ ShapeOK' /\ Elsewhere(c) BY <1>1, <1>2 DEF SharedOK, ShapeOK, Elsewhere
<1>6. PeerOK(c)' BY <1>3, <1>4
<1> HIDE DEF ServiceInv, PeerOK
<1> QED BY <1>1, <1>5, <1>6, OnePeerMoves

LEMMA ThrowsKeeps ==
    ASSUME ServiceInv, NEW c \in Clients, Throws(c) PROVE ServiceInv'
<1> USE DEF ServiceInv, PeerOK
<1>1. /\ Runs(c) => worker[c].at = "failed"
      /\ client[c].at \in {"closed", "open", "waiting"}
      /\ client[c].at = "waiting" => worker[c].at # "replied"
      /\ client' = [client EXCEPT ![c].at = "dead"]
      /\ UNCHANGED <<itemStock, orders, up, worker, taken, told>>
  BY DEF Throws, shared
<1>2. /\ client[c] = ClientOf(client[c]) /\ worker[c] = WorkerOf(worker[c])
      /\ worker[c].at \in {"none", "reading", "checked", "read", "push", "pushing", "failed"}
  BY <1>1 DEF ConnectionOK
<1>3. /\ DOMAIN client' = Clients /\ \A d \in Clients \ {c} : client'[d] = client[d]
      /\ client'[c] = ClientOf(client'[c])
      /\ client'[c].at = "dead" /\ client'[c].call = client[c].call
  BY <1>1, <1>2, ClientMoves
<1>4. Runs(c)' <=> Runs(c) BY <1>1 DEF Runs
<1>5. ConnectionOK(c)' BY <1>1, <1>2, <1>3, <1>4 DEF ConnectionOK, Asks
<1>6. SalesOK(c)'
  <2>1. Owed(c)' <=> Owed(c) BY <1>1, <1>3 DEF Owed, Asks
  <2> QED BY <1>1, <1>3, <2>1, SalesStay
<1>7. SharedOK' /\ ShapeOK' /\ Elsewhere(c) BY <1>1, <1>3 DEF SharedOK, ShapeOK, Elsewhere
<1>8. PeerOK(c)' BY <1>5, <1>6
<1> HIDE DEF ServiceInv, PeerOK
<1> QED BY <1>1, <1>7, <1>8, OnePeerMoves

-----------------------------------------------------------------------------
(* The steps of the thread that serves the client.                          *)

LEMMA RepliesKeeps ==
    ASSUME ServiceInv, NEW c \in Clients, NEW m, HasRead(c, m), NEW x, Replies(c, x),
           ResultOf(StoreOf[c], client[c].call, <<x>>), ~(m = "order" /\ x = TRUE),
           UNCHANGED <<shared, client, taken, told>>
    PROVE  ServiceInv'
<1> USE DEF ServiceInv, PeerOK
<1>1. worker[c].at = "reading" /\ client[c].at = "waiting" /\ client[c].call.method = m
  BY DEF HasRead, Doing, Asks
<1>2. worker[c] = WorkerOf(worker[c]) BY DEF ConnectionOK
<1>3. /\ DOMAIN worker' = Clients /\ \A d \in Clients \ {c} : worker'[d] = worker[d]
      /\ worker'[c] = WorkerOf(worker'[c])
      /\ worker'[c].at = "replied" /\ worker'[c].reply = <<x>>
  BY <1>2, WorkerReplies
<1>4. ConnectionOK(c)' BY <1>1, <1>3 DEF ConnectionOK
<1>5. SalesOK(c)'
  <2>1. <<x>> = <<TRUE>> => x = TRUE OBVIOUS
  <2>2. ~Owed(c) /\ ~Owed(c)' BY <1>1, <1>3, <2>1 DEF Owed, Asks
  <2> QED BY <2>2, SalesStay
<1>6. SharedOK' /\ ShapeOK' /\ Elsewhere(c) /\ UNCHANGED up
  BY <1>3 DEF SharedOK, ShapeOK, Elsewhere, shared
<1>7. PeerOK(c)' BY <1>4, <1>5
<1> HIDE DEF ServiceInv, PeerOK
<1> QED BY <1>6, <1>7, OnePeerMoves

(* A store whose process ends.                                              *)
LEMMA EndsKeeps ==
    ASSUME ServiceInv, NEW s \in Stores, up' = [up EXCEPT ![s] = FALSE],
           UNCHANGED <<itemStock, orders, client, worker, taken, told>>
    PROVE  ServiceInv'
<1> USE DEF ServiceInv, PeerOK
<1>1. SharedOK' /\ ShapeOK' BY DEF SharedOK, ShapeOK
<1>2. ASSUME NEW c \in Clients PROVE PeerOK(c)'
  <2>1. Runs(c)' => Runs(c) BY ServiceAssumption DEF Runs, SharedOK
  <2>2. ConnectionOK(c)' BY <2>1 DEF ConnectionOK, Asks
  <2>3. SalesOK(c)' BY DEF SalesOK, Owed, Asks
  <2> QED BY <2>2, <2>3
<1> QED BY <1>1, <1>2

LEMMA BreaksOffKeeps ==
    ASSUME ServiceInv, NEW c \in Clients, BreaksOff(c) PROVE ServiceInv'
<1>1. StoreOf[c] \in Stores BY ServiceAssumption
<1> QED BY <1>1, EndsKeeps DEF BreaksOff

LEMMA GetPriceKeeps ==
    ASSUME ServiceInv, NEW c \in Clients, process_getPrice(c) PROVE ServiceInv'
<1>1. PICK x : x = getPrice(StoreOf[c], client[c].call.item) OBVIOUS
<1>2. HasRead(c, "getPrice") /\ Replies(c, x) /\ UNCHANGED <<shared, client, taken, told>>
  BY <1>1 DEF process_getPrice
<1>3. client[c].call.method = "getPrice" BY <1>2 DEF HasRead, Asks
<1>4. ResultOf(StoreOf[c], client[c].call, <<x>>) BY <1>1, <1>3 DEF ResultOf
<1>5. PICK m : m = "getPrice" OBVIOUS
<1>6. HasRead(c, m) /\ ~(m = "order" /\ x = TRUE) BY <1>2, <1>5
<1> QED BY <1>2, <1>4, <1>6, RepliesKeeps

(* A receipt that was copied while another thread pushed.                   *)
LEMMA GarblesKeeps ==
    ASSUME ServiceInv, NEW c \in Clients, HasRead(c, "getReceipt"), Garbles(c),
           UNCHANGED <<shared, client, taken, told>>
    PROVE  ServiceInv'
<1> USE DEF ServiceInv, PeerOK
<1>1. worker[c].at = "reading" /\ client[c].at = "waiting" /\ client[c].call.method = "getReceipt"
  BY DEF HasRead, Doing, Asks
<1>2. worker[c] = WorkerOf(worker[c]) BY DEF ConnectionOK
<1>3. /\ DOMAIN worker' = Clients /\ \A d \in Clients \ {c} : worker'[d] = worker[d]
      /\ worker'[c] = WorkerOf(worker'[c])
      /\ worker'[c].at = "replied" /\ worker'[c].reply = <<>>
  BY <1>2, WorkerGarbles
<1>4. ConnectionOK(c)'
  <2>1. ResultOf(StoreOf[c], client[c].call, <<>>) BY <1>1 DEF ResultOf
  <2> QED BY <1>1, <1>3, <2>1 DEF ConnectionOK
<1>5. SalesOK(c)'
  <2>1. ~Owed(c) /\ ~Owed(c)' BY <1>1, <1>3 DEF Owed, Asks
  <2> QED BY <2>1, SalesStay
<1>6. SharedOK' /\ ShapeOK' /\ Elsewhere(c) /\ UNCHANGED up
  BY <1>3 DEF SharedOK, ShapeOK, Elsewhere, shared
<1>7. PeerOK(c)' BY <1>4, <1>5
<1> HIDE DEF ServiceInv, PeerOK
<1> QED BY <1>6, <1>7, OnePeerMoves

(* A thread whose vector has thrown: another thread was pushing.            *)
LEMMA FailsKeeps ==
    ASSUME ServiceInv, NEW c \in Clients, Fails(c), client[c].at = "waiting",
           \/ worker[c].at = "reading" /\ Asks(c, "getReceipt")
           \/ worker[c].at = "pushing" /\ Asks(c, "order"),
           UNCHANGED <<itemStock, orders, up, client, taken, told>>
    PROVE  ServiceInv'
<1> USE DEF ServiceInv, PeerOK
<1>1. worker[c] = WorkerOf(worker[c]) BY DEF ConnectionOK
<1>2. Works(c, "failed") /\ Others(c) # {} BY DEF Fails, Pushing
<1>3. /\ DOMAIN worker' = Clients /\ \A d \in Clients \ {c} : worker'[d] = worker[d]
      /\ worker'[c] = WorkerOf(worker'[c]) /\ worker'[c].at = "failed"
  BY <1>1, <1>2, WorkerMoves
<1>4. ConnectionOK(c)' BY <1>2, <1>3 DEF ConnectionOK, Asks
<1>5. SalesOK(c)'
  <2>1. Owed(c)' <=> Owed(c) BY <1>3 DEF Owed, Asks
  <2> QED BY <2>1, SalesStay
<1>6. SharedOK' /\ ShapeOK' /\ Elsewhere(c) BY <1>3 DEF SharedOK, ShapeOK, Elsewhere
<1>7. PeerOK(c)' BY <1>4, <1>5
<1> HIDE DEF ServiceInv, PeerOK
<1> QED BY <1>6, <1>7, OnePeerMoves

LEMMA GetReceiptKeeps ==
    ASSUME ServiceInv, NEW c \in Clients, process_getReceipt(c) PROVE ServiceInv'
<1>1. PICK x : x = orders[StoreOf[c]] OBVIOUS
<1>2. CASE Replies(c, x) /\ UNCHANGED <<shared, client, taken, told>>
  <2>1. HasRead(c, "getReceipt") BY DEF process_getReceipt
  <2>2. x \in Seq(Order) BY <1>1, ServiceAssumption DEF ServiceInv, SharedOK
  <2>3. client[c].call.method = "getReceipt" BY <2>1 DEF HasRead, Asks
  <2>4. ResultOf(StoreOf[c], client[c].call, <<x>>) BY <2>2, <2>3 DEF ResultOf
  <2>5. PICK m : m = "getReceipt" OBVIOUS
  <2>6. HasRead(c, m) /\ ~(m = "order" /\ x = TRUE) BY <2>1, <2>5
  <2> QED BY <1>2, <2>4, <2>6, RepliesKeeps
<1>3. CASE BreaksOff(c) BY <1>3, BreaksOffKeeps
<1>4. CASE Garbles(c) /\ UNCHANGED <<shared, client, taken, told>>
  BY <1>4, GarblesKeeps DEF process_getReceipt
<1>5. CASE Fails(c) /\ UNCHANGED <<shared, client, taken, told>>
  <2>1. worker[c].at = "reading" /\ client[c].at = "waiting" /\ Asks(c, "getReceipt")
    BY DEF process_getReceipt, HasRead, Doing
  <2> QED BY <1>5, <2>1, FailsKeeps DEF shared
<1> QED BY <1>1, <1>2, <1>3, <1>4, <1>5 DEF process_getReceipt

LEMMA RefuseKeeps ==
    ASSUME ServiceInv, NEW c \in Clients, Refuse(c) PROVE ServiceInv'
<1>1. HasRead(c, "order") /\ Replies(c, FALSE) /\ UNCHANGED <<shared, client, taken, told>>
  BY DEF Refuse
<1>2. ResultOf(StoreOf[c], client[c].call, <<FALSE>>) BY <1>1 DEF ResultOf, HasRead, Asks
<1> QED BY <1>1, <1>2, RepliesKeeps

LEMMA CheckKeeps ==
    ASSUME ServiceInv, NEW c \in Clients, Check(c) PROVE ServiceInv'
<1> USE DEF ServiceInv, PeerOK
<1>1. /\ worker[c].at = "reading" /\ client[c].at = "waiting" /\ Asks(c, "order")
      /\ client[c].call.item \in Items /\ Works(c, "checked")
      /\ UNCHANGED <<itemStock, orders, up, client, taken, told>>
  BY DEF Check, HasRead, Doing, InStock, shared
<1>2. worker[c] = WorkerOf(worker[c]) BY DEF ConnectionOK
<1>3. /\ DOMAIN worker' = Clients /\ \A d \in Clients \ {c} : worker'[d] = worker[d]
      /\ worker'[c] = WorkerOf(worker'[c]) /\ worker'[c].at = "checked"
  BY <1>1, <1>2, WorkerMoves
<1>4. ConnectionOK(c)' BY <1>1, <1>3 DEF ConnectionOK, Asks
<1>5. SalesOK(c)'
  <2>1. ~Owed(c) /\ ~Owed(c)' BY <1>1, <1>3 DEF Owed
  <2> QED BY <1>1, <2>1, SalesStay
<1>6. SharedOK' /\ ShapeOK' /\ Elsewhere(c) BY <1>1, <1>3 DEF SharedOK, ShapeOK, Elsewhere
<1>7. PeerOK(c)' BY <1>4, <1>5
<1> HIDE DEF ServiceInv, PeerOK
<1> QED BY <1>1, <1>6, <1>7, OnePeerMoves

LEMMA ReadKeeps ==
    ASSUME ServiceInv, NEW c \in Clients, Read(c) PROVE ServiceInv'
<1> USE DEF ServiceInv, PeerOK
<1> DEFINE stock == itemStock[StoreOf[c]][client[c].call.item]
<1>1. /\ worker[c].at = "checked"
      /\ worker' = [worker EXCEPT ![c].at = "read", ![c].seen = stock]
      /\ UNCHANGED <<itemStock, orders, up, client, taken, told>>
  BY DEF Read, Doing, shared
<1>2. /\ worker[c] = WorkerOf(worker[c]) /\ client[c].at \in {"waiting", "dead"}
      /\ Asks(c, "order") /\ client[c].call.item \in Items
  BY <1>1 DEF ConnectionOK
<1>3. stock \in Unsigned BY <1>2, ServiceAssumption DEF SharedOK
<1> HIDE DEF stock
<1>4. worker' = [worker EXCEPT ![c].at = "read", ![c].seen = stock] BY <1>1
<1>5. worker[c] = WorkerOf(worker[c]) /\ ShapeOK BY <1>2
<1>6. /\ DOMAIN worker' = Clients /\ \A d \in Clients \ {c} : worker'[d] = worker[d]
      /\ worker'[c] = WorkerOf(worker'[c]) /\ worker'[c].at = "read" /\ worker'[c].seen = stock
  BY <1>4, <1>5, WorkerReads
<1>7. ConnectionOK(c)' BY <1>1, <1>2, <1>3, <1>6 DEF ConnectionOK, Asks, Runs
<1>8. SalesOK(c)'
  <2>1. ~Owed(c) /\ ~Owed(c)' BY <1>1, <1>6 DEF Owed
  <2> QED BY <1>1, <2>1, SalesStay
<1>9. SharedOK' /\ ShapeOK' /\ Elsewhere(c) BY <1>1, <1>6 DEF SharedOK, ShapeOK, Elsewhere
<1>10. PeerOK(c)' BY <1>7, <1>8
<1> HIDE DEF ServiceInv, PeerOK
<1> QED BY <1>1, <1>9, <1>10, OnePeerMoves

LEMMA TakeKeeps ==
    ASSUME ServiceInv, NEW c \in Clients, Take(c) PROVE ServiceInv'
<1> USE DEF ServiceInv, PeerOK
<1> DEFINE n == client[c].call.amount
           rest == Rest(worker[c].seen, n)
<1>1. /\ worker[c].at = "read"
      /\ itemStock' = [itemStock EXCEPT ![StoreOf[c]][client[c].call.item] = rest]
      /\ taken' = [taken EXCEPT ![c] = taken[c] + n] /\ Works(c, "push")
      /\ UNCHANGED <<orders, up, client, told>>
  BY DEF Take, Doing
<1>2. /\ worker[c] = WorkerOf(worker[c]) /\ client[c].at \in {"waiting", "dead"} /\ Asks(c, "order")
      /\ client[c].call.item \in Items /\ client[c].call \in Methods /\ worker[c].seen \in Unsigned
  BY <1>1 DEF ConnectionOK
<1>3. n \in Amounts /\ n \in Nat BY <1>2, CallsAreTyped DEF Asks
<1>4. rest \in Unsigned BY <1>2, <1>3, RestIsUnsigned
<1> HIDE DEF n, rest
<1>5. /\ DOMAIN worker' = Clients /\ \A d \in Clients \ {c} : worker'[d] = worker[d]
      /\ worker'[c] = WorkerOf(worker'[c]) /\ worker'[c].at = "push"
  BY <1>1, <1>2, WorkerMoves
<1>6. /\ taken' \in [Clients -> Nat] /\ taken'[c] = taken[c] + n
      /\ \A d \in Clients \ {c} : taken'[d] = taken[d]
  BY <1>1, <1>3 DEF ShapeOK
<1>7. ConnectionOK(c)' BY <1>1, <1>2, <1>5 DEF ConnectionOK, Asks, Runs
<1>8. SalesOK(c)'
  <2>1. ~Owed(c) /\ Owed(c)' BY <1>1, <1>5 DEF Owed
  <2>2. taken[c] = told[c]
    <3>1. taken[c] = told[c] + 0 /\ told[c] \in Nat BY <2>1 DEF SalesOK, ShapeOK
    <3> QED BY <3>1
  <2>3. taken'[c] = told'[c] + n BY <1>1, <1>6, <2>2
  <2> QED BY <1>1, <2>1, <2>3 DEF SalesOK, n
<1>9. SharedOK'
  <2>1. itemStock' \in [Stores -> [Items -> Unsigned]] BY <1>1, <1>4 DEF SharedOK
  <2> QED BY <1>1, <2>1 DEF SharedOK
<1>10. ShapeOK' /\ Elsewhere(c) BY <1>1, <1>5, <1>6 DEF ShapeOK, Elsewhere
<1>11. PeerOK(c)' BY <1>7, <1>8
<1> HIDE DEF ServiceInv, PeerOK
<1> QED BY <1>1, <1>9, <1>10, <1>11, OnePeerMoves

LEMMA BeginPushKeeps ==
    ASSUME ServiceInv, NEW c \in Clients, BeginPush(c) PROVE ServiceInv'
<1> USE DEF ServiceInv, PeerOK
<1>1. /\ worker[c].at = "push" /\ Works(c, "pushing")
      /\ UNCHANGED <<itemStock, orders, up, client, taken, told>>
  BY DEF BeginPush, Doing, shared
<1>2. worker[c] = WorkerOf(worker[c]) BY DEF ConnectionOK
<1>3. /\ DOMAIN worker' = Clients /\ \A d \in Clients \ {c} : worker'[d] = worker[d]
      /\ worker'[c] = WorkerOf(worker'[c]) /\ worker'[c].at = "pushing"
  BY <1>1, <1>2, WorkerMoves
<1>4. ConnectionOK(c)' BY <1>1, <1>3 DEF ConnectionOK, Asks, Runs
<1>5. SalesOK(c)'
  <2>1. Owed(c) /\ Owed(c)' BY <1>1, <1>3 DEF Owed
  <2> QED BY <1>1, <2>1, SalesStay
<1>6. SharedOK' /\ ShapeOK' /\ Elsewhere(c) BY <1>1, <1>3 DEF SharedOK, ShapeOK, Elsewhere
<1>7. PeerOK(c)' BY <1>4, <1>5
<1> HIDE DEF ServiceInv, PeerOK
<1> QED BY <1>1, <1>6, <1>7, OnePeerMoves

(* The entry that an order leaves in the ledger.                            *)
LEMMA EntriesAreOrders ==
    ASSUME NEW s \in Stores, NEW call \in Methods, call.method = "order", call.item \in Items
    PROVE  OrderOf(s, call) \in Order
<1>1. call.amount \in Amounts /\ call.amount \in Nat BY CallsAreTyped
<1>2. itemPrices[s][call.item] \in Nat BY ServiceAssumption
<1>3. itemPrices[s][call.item] * call.amount \in Nat BY <1>1, <1>2
<1> QED BY <1>1, <1>3 DEF OrderOf, Order

LEMMA PushKeeps ==
    ASSUME ServiceInv, NEW c \in Clients, Push(c), Replies(c, TRUE) PROVE ServiceInv'
<1> USE DEF ServiceInv, PeerOK
<1> DEFINE s == StoreOf[c]
           entry == OrderOf(s, client[c].call)
<1>1. /\ worker[c].at = "pushing" /\ Replies(c, TRUE)
      /\ (orders' = [orders EXCEPT ![s] = Append(orders[s], entry)]) \/ UNCHANGED orders
      /\ UNCHANGED <<itemStock, up, client, taken, told>>
  BY DEF Push, Doing, Result
<1>2. /\ worker[c] = WorkerOf(worker[c]) /\ client[c].at \in {"waiting", "dead"} /\ Asks(c, "order")
      /\ client[c].call.item \in Items /\ client[c].call \in Methods
  BY <1>1 DEF ConnectionOK
<1>3. s \in Stores BY ServiceAssumption
<1>4. client[c].at = "waiting"
  <2>1. Runs(c) BY DEF Push, Doing
  <2> QED BY <1>1, <1>2, <2>1 DEF ConnectionOK
<1>5. entry \in Order BY <1>2, <1>3, EntriesAreOrders DEF Asks
<1>6. /\ DOMAIN worker' = Clients /\ \A d \in Clients \ {c} : worker'[d] = worker[d]
      /\ worker'[c] = WorkerOf(worker'[c])
      /\ worker'[c].at = "replied" /\ worker'[c].reply = <<TRUE>>
  BY <1>1, <1>2, WorkerReplies
<1>7. ConnectionOK(c)'
  <2>1. ResultOf(StoreOf[c], client[c].call, <<TRUE>>) BY <1>2 DEF ResultOf, Asks
  <2> QED BY <1>1, <1>2, <1>4, <1>6, <2>1 DEF ConnectionOK, Asks
<1>8. SalesOK(c)'
  <2>1. Owed(c) /\ Owed(c)' BY <1>1, <1>2, <1>6 DEF Owed, Asks
  <2> QED BY <1>1, <2>1, SalesStay
<1> HIDE DEF s, entry
<1>9. SharedOK'
  <2>1. PICK ledger : ledger = Append(orders[s], entry) OBVIOUS
  <2>2. ledger \in Seq(Order) BY <1>3, <1>5, <2>1 DEF SharedOK
  <2>3. (orders' = [orders EXCEPT ![s] = ledger]) \/ UNCHANGED orders BY <1>1, <2>1
  <2>4. orders' \in [Stores -> Seq(Order)] BY <2>2, <2>3 DEF SharedOK
  <2> QED BY <1>1, <2>4 DEF SharedOK
<1>10. ShapeOK' /\ Elsewhere(c) BY <1>1, <1>6 DEF ShapeOK, Elsewhere
<1>11. PeerOK(c)' BY <1>7, <1>8
<1> HIDE DEF ServiceInv, PeerOK
<1> QED BY <1>1, <1>9, <1>10, <1>11, OnePeerMoves

LEMMA PushFailsKeeps ==
    ASSUME ServiceInv, NEW c \in Clients, Push(c), ~Replies(c, TRUE) PROVE ServiceInv'
<1>1. /\ worker[c].at = "pushing" /\ Runs(c) /\ Fails(c)
      /\ UNCHANGED <<itemStock, orders, up, client, taken, told>>
  BY DEF Push, Doing, Result
<1>2. client[c].at = "waiting" /\ Asks(c, "order")
  BY <1>1 DEF ServiceInv, PeerOK, ConnectionOK
<1> QED BY <1>1, <1>2, FailsKeeps

-----------------------------------------------------------------------------
LEMMA UseKeeps ==
    ASSUME ServiceInv, NEW c \in Clients, Use(c) PROVE ServiceInv'
<1>1. ASSUME NEW call \in Methods, Sends(c, call) PROVE ServiceInv' BY <1>1, SendsKeeps
<1>2. ASSUME NEW i \in Asked, send_getPrice(c, i) PROVE ServiceInv'
  BY <1>1, <1>2, MadeCalls DEF send_getPrice
<1>3. ASSUME NEW i \in Asked, NEW n \in Amounts, send_order(c, i, n) PROVE ServiceInv'
  BY <1>1, <1>3, MadeCalls DEF send_order
<1>4. ASSUME send_getReceipt(c) PROVE ServiceInv'
  <2>1. NoCall.item \in Asked BY FirstCall, CallsAreTyped
  <2> QED BY <1>1, <1>4, <2>1, MadeCalls DEF send_getReceipt
<1> QED BY <1>2, <1>3, <1>4, OpenKeeps, ReceiveKeeps, CloseKeeps, ThrowsKeeps DEF Use

LEMMA ServeKeeps ==
    ASSUME ServiceInv, NEW c \in Clients, Serve(c) PROVE ServiceInv'
BY GetPriceKeeps, GetReceiptKeeps, RefuseKeeps, CheckKeeps, ReadKeeps, TakeKeeps, BeginPushKeeps,
   PushKeeps, PushFailsKeeps, BreaksOffKeeps DEF Serve, process_order

LEMMA ServiceInvStep ==
    ASSUME ServiceInv, Next PROVE ServiceInv'
<1>1. ASSUME NEW s \in Stores, Exit(s) PROVE ServiceInv' BY <1>1, EndsKeeps DEF Exit
<1> QED BY <1>1, UseKeeps, ServeKeeps DEF Next

LEMMA ServiceInvStutter ==
    ASSUME ServiceInv, UNCHANGED vars PROVE ServiceInv'
<1> UNCHANGED <<itemStock, orders, up, client, worker, taken, told>>
  BY DEF vars, shared
<1>1. SharedOK' /\ ShapeOK'
  BY DEF ServiceInv, SharedOK, ShapeOK
<1>2. ASSUME NEW c \in Clients PROVE ConnectionOK(c)'
  BY DEF ServiceInv, PeerOK, ConnectionOK, Runs, Asks, Others
<1>3. ASSUME NEW c \in Clients PROVE SalesOK(c)'
  BY DEF ServiceInv, PeerOK, SalesOK, Owed, Asks
<1> QED BY <1>1, <1>2, <1>3 DEF ServiceInv, PeerOK

(* Clients and threads are where the protocol has them, for every number of *)
(* stores, clients and items.                                               *)
THEOREM ServiceCorrect == Spec => []ServiceInv
<1>1. Init => ServiceInv BY ServiceInvInit
<1>2. ServiceInv /\ [Next]_vars => ServiceInv' BY ServiceInvStep, ServiceInvStutter
<1> QED BY <1>1, <1>2, PTL DEF Spec

(* The stock stays an unsigned number, and every answer a client has got is *)
(* one that its method can give.                                            *)
THEOREM ServiceTypeCorrect == Spec => []TypeOK
<1>1. ASSUME ServiceInv PROVE TypeOK
  <2>1. ASSUME NEW c \in Clients
        PROVE  /\ client[c].at \in {"closed", "open", "waiting", "answered", "dead"}
               /\ client[c].call \in Methods
               /\ worker[c].at \in {"none", "reading", "checked", "read", "push", "pushing", "replied", "failed"}
    BY <1>1 DEF ServiceInv, PeerOK, ConnectionOK
  <2>2. ASSUME NEW c \in Clients, client[c].at = "answered"
        PROVE  \/ Asks(c, "getReceipt") /\ client[c].answer = <<>>
               \/ Asks(c, "getPrice") /\ Head(client[c].answer) \in 0..INT_MAX
               \/ Asks(c, "order") /\ Head(client[c].answer) \in BOOLEAN
               \/ Asks(c, "getReceipt") /\ Head(client[c].answer) \in Seq(Order)
    <3>1. ResultOf(StoreOf[c], client[c].call, client[c].answer) /\ client[c].call \in Methods
      BY <1>1, <2>2 DEF ServiceInv, PeerOK, ConnectionOK
    <3>2. client[c].answer # <<>> => Head(client[c].answer) = client[c].answer[1]
      BY <3>1 DEF ResultOf
    <3>3. client[c].call.method \in {"getPrice", "getReceipt", "order"} BY <3>1, CallsAreTyped
    <3>4. getPrice(StoreOf[c], client[c].call.item) \in 0..INT_MAX BY PricesAreUnsigned
    <3> QED BY <3>1, <3>2, <3>3, <3>4 DEF ResultOf, Asks
  <2> QED BY <1>1, <2>1, <2>2 DEF TypeOK, ServiceInv, SharedOK, Unsigned
<1> QED BY <1>1, ServiceCorrect, PTL

(* What is taken from the stock for a client is what the client was told it *)
(* bought, save one order on its way, with any number of clients at a time. *)
THEOREM SalesCorrect == Spec => []SoldAsTold
<1>1. ASSUME ServiceInv PROVE SoldAsTold
  <2> SUFFICES ASSUME NEW c \in Clients, taken[c] # told[c]
               PROVE  /\ taken[c] = told[c] + client[c].call.amount
                      /\ client[c].at \in {"waiting", "dead"} /\ Asks(c, "order")
    BY DEF SoldAsTold
  <2>1. ConnectionOK(c) /\ SalesOK(c) /\ told[c] \in Nat
    BY <1>1 DEF ServiceInv, PeerOK, ShapeOK
  <2>2. Owed(c) BY <2>1 DEF SalesOK
  <2>3. client[c].at \in {"waiting", "dead"} /\ Asks(c, "order") BY <2>1, <2>2 DEF Owed, ConnectionOK
  <2> QED BY <2>1, <2>2, <2>3 DEF SalesOK
<1> QED BY <1>1, ServiceCorrect, PTL

-----------------------------------------------------------------------------
(* Sums of functions over finite sets.  Among the subsets of a finite set   *)
(* with some property there is one of which no proper subset has it; this   *)
(* stands for induction in what follows.                                    *)
LEMMA SmallestSubset ==
    ASSUME NEW D, IsFiniteSet(D), NEW B \in SUBSET SUBSET D, B # {}
    PROVE  \E T \in B : \A U \in SUBSET T : U # T => U \notin B
<1>1. IsWellFoundedOn(StrictSubsetOrdering(D), SUBSET D)
  BY FS_StrictSubsetOrderingWellFounded, FS_FiniteSubsetsOfFinite
<1>2. PICK T \in B : \A U \in B : <<U, T>> \notin StrictSubsetOrdering(D)
  BY <1>1, WFMin
<1>3. ASSUME NEW U \in SUBSET T, U # T, U \in B PROVE FALSE
  <2>1. <<U, T>> \in (SUBSET D) \X (SUBSET D) OBVIOUS
  <2>2. <<U, T>>[1] = U /\ <<U, T>>[2] = T OBVIOUS
  <2>3. <<U, T>> \in StrictSubsetOrdering(D) BY <1>3, <2>1, <2>2 DEF StrictSubsetOrdering
  <2> QED BY <1>2, <1>3, <2>3
<1> QED BY <1>2, <1>3

(* How SumFunctionOnSet counts: h[T] is the sum over T.                     *)
Picked(T) == CHOOSE x \in T : TRUE
Less(T) == T \ {Picked(T)}
Counted(f, h, T) == IF T = {} THEN 0 ELSE f[Picked(T)] + h[Less(T)]
Counts(f, h, S) == h = [T \in SUBSET S |-> Counted(f, h, T)]
Total(f, S) == (CHOOSE h : Counts(f, h, S))[S]

LEMMA TotalIsSum == ASSUME NEW f, NEW S PROVE SumFunctionOnSet(f, S) = Total(f, S)
BY DEF SumFunctionOnSet, FoldFunctionOnSet, MapThenFoldSet, Total, Counts, Counted, Picked, Less

LEMMA PickedIn == ASSUME NEW T, T # {} PROVE Picked(T) \in T /\ Less(T) \subseteq T /\ Less(T) # T
BY DEF Picked, Less

LEMMA CountsAt ==
    ASSUME NEW f, NEW h, NEW S, Counts(f, h, S), NEW T \in SUBSET S
    PROVE  h[T] = Counted(f, h, T)
<1> DEFINE H == [U \in SUBSET S |-> Counted(f, h, U)]
<1>1. h = H BY DEF Counts
<1>2. H[T] = Counted(f, h, T) OBVIOUS
<1> HIDE DEF H
<1> QED BY <1>1, <1>2

(* Two counts agree where their functions do.                               *)
LEMMA CountsAgree ==
    ASSUME NEW f, NEW g, NEW h, NEW k, NEW A, NEW B, IsFiniteSet(A),
           Counts(f, h, A), Counts(g, k, B), \A x \in A \cap B : f[x] = g[x],
           NEW S \in SUBSET (A \cap B)
    PROVE  h[S] = k[S]
<1> DEFINE Bad == {T \in SUBSET (A \cap B) : h[T] # k[T]}
<1>1. Bad \in SUBSET SUBSET A OBVIOUS
<1>2. SUFFICES ASSUME Bad # {} PROVE FALSE OBVIOUS
<1>3. \E T \in Bad : \A U \in SUBSET T : U # T => U \notin Bad
  <2> HIDE DEF Bad
  <2> QED BY <1>1, <1>2, SmallestSubset
<1>4. PICK T \in Bad : \A U \in SUBSET T : U # T => U \notin Bad BY <1>3
<1>5. /\ T \in SUBSET A /\ T \in SUBSET B /\ h[T] # k[T]
      /\ h[T] = Counted(f, h, T) /\ k[T] = Counted(g, k, T)
  BY CountsAt
<1>6. T # {} BY <1>5 DEF Counted
<1>7. Picked(T) \in T /\ Less(T) \in SUBSET T /\ Less(T) # T BY <1>6, PickedIn
<1>8. Less(T) \notin Bad BY <1>4, <1>7
<1>9. h[Less(T)] = k[Less(T)] /\ f[Picked(T)] = g[Picked(T)] BY <1>5, <1>7, <1>8
<1> QED BY <1>5, <1>6, <1>9 DEF Counted

LEMMA CountsExist == ASSUME NEW f, NEW D, IsFiniteSet(D) PROVE \E h : Counts(f, h, D)
<1> DEFINE Bad == {T \in SUBSET D : ~\E h : Counts(f, h, T)}
<1>1. Bad \in SUBSET SUBSET D OBVIOUS
<1>2. SUFFICES ASSUME Bad # {} PROVE FALSE OBVIOUS
<1>3. \E S \in Bad : \A U \in SUBSET S : U # S => U \notin Bad
  <2> HIDE DEF Bad
  <2> QED BY <1>1, <1>2, SmallestSubset
<1>4. PICK S \in Bad : \A U \in SUBSET S : U # S => U \notin Bad BY <1>3
<1> DEFINE count(T) == CHOOSE h : Counts(f, h, T)
           total(T) == count(T)[T]
           sums == [T \in SUBSET S |-> IF T = {} THEN 0 ELSE f[Picked(T)] + total(Less(T))]
<1>5. S \in SUBSET D /\ ~\E h : Counts(f, h, S) OBVIOUS
<1>6. ASSUME NEW T \in SUBSET S, T # S PROVE Counts(f, count(T), T)
  <2>1. \E h : Counts(f, h, T) BY <1>4, <1>5, <1>6
  <2> QED BY <2>1
<1> HIDE DEF count, Bad
<1>7. ASSUME NEW T \in SUBSET S, T # {}
      PROVE  sums[Less(T)] = total(Less(T))
  <2> DEFINE U == Less(T)
  <2>1. U \in SUBSET T /\ U # T /\ U \in SUBSET S /\ U # S BY <1>7, PickedIn
  <2> HIDE DEF U
  <2>2. Counts(f, count(U), U) /\ sums[U] = IF U = {} THEN 0 ELSE f[Picked(U)] + total(Less(U))
    BY <1>6, <2>1
  <2>3. total(U) = Counted(f, count(U), U) BY <2>2, CountsAt
  <2>4. CASE U = {} BY <2>2, <2>3, <2>4 DEF Counted, U
  <2>5. CASE U # {}
    <3> DEFINE V == Less(U)
    <3>1. V \in SUBSET U /\ V # U /\ V \in SUBSET S /\ V # S BY <2>1, <2>5, PickedIn
    <3> HIDE DEF V
    <3>2. Counts(f, count(V), V) BY <1>6, <3>1
    <3>3. IsFiniteSet(U) BY <1>5, <2>1, FS_Subset
    <3>4. count(U)[V] = count(V)[V] BY <2>2, <3>1, <3>2, <3>3, CountsAgree
    <3> QED BY <2>2, <2>3, <2>5, <3>4 DEF Counted, U, V
  <2> QED BY <2>4, <2>5
<1>8. sums = [T \in SUBSET S |-> Counted(f, sums, T)]
  <2>1. ASSUME NEW T \in SUBSET S PROVE sums[T] = Counted(f, sums, T) BY <1>7, <2>1 DEF Counted
  <2>2. sums = [T \in SUBSET S |-> sums[T]] OBVIOUS
  <2> HIDE DEF sums
  <2> QED BY <2>1, <2>2
<1> HIDE DEF sums
<1>9. Counts(f, sums, S) BY <1>8 DEF Counts
<1> QED BY <1>5, <1>9

-----------------------------------------------------------------------------
LEMMA TotalCounted ==
    ASSUME NEW f, NEW S, IsFiniteSet(S)
    PROVE  Total(f, S) = IF S = {} THEN 0 ELSE f[Picked(S)] + Total(f, Less(S))
<1> DEFINE h == CHOOSE k : Counts(f, k, S)
           g == CHOOSE k : Counts(f, k, Less(S))
<1>1. Counts(f, h, S)
  <2>1. \E k : Counts(f, k, S) BY CountsExist
  <2> QED BY <2>1
<1>2. Total(f, S) = h[S] /\ Total(f, Less(S)) = g[Less(S)] BY DEF Total
<1>3. h[S] = Counted(f, h, S)
  <2> HIDE DEF h
  <2> QED BY <1>1, CountsAt
<1>4. ASSUME S # {} PROVE h[Less(S)] = g[Less(S)]
  <2>1. Less(S) \in SUBSET S BY <1>4, PickedIn
  <2>2. IsFiniteSet(Less(S)) BY <2>1, FS_Subset
  <2>3. \E k : Counts(f, k, Less(S)) BY <2>2, CountsExist
  <2>4. Counts(f, g, Less(S)) BY <2>3
  <2> HIDE DEF h, g
  <2> QED BY <1>1, <2>1, <2>4, CountsAgree
<1> HIDE DEF h, g
<1> QED BY <1>2, <1>3, <1>4 DEF Counted

(* The sum depends on the values of the set alone.                          *)
LEMMA SumAgrees ==
    ASSUME NEW f, NEW g, NEW S, IsFiniteSet(S), \A x \in S : f[x] = g[x]
    PROVE  SumFunctionOnSet(f, S) = SumFunctionOnSet(g, S)
<1> DEFINE h == CHOOSE k : Counts(f, k, S)
           l == CHOOSE k : Counts(g, k, S)
<1>1. (\E k : Counts(f, k, S)) /\ (\E k : Counts(g, k, S)) BY CountsExist
<1>2. Counts(f, h, S) /\ Counts(g, l, S) BY <1>1
<1>3. Total(f, S) = h[S] /\ Total(g, S) = l[S] BY DEF Total
<1> HIDE DEF h, l
<1> QED BY <1>2, <1>3, CountsAgree, TotalIsSum

LEMMA SumOfNone == ASSUME NEW f PROVE SumFunctionOnSet(f, {}) = 0
BY TotalIsSum, TotalCounted, FS_EmptySet

LEMMA SumIsNat ==
    ASSUME NEW f, NEW D, IsFiniteSet(D), \A x \in D : f[x] \in Nat
    PROVE  SumFunctionOnSet(f, D) \in Nat
<1> DEFINE Bad == {T \in SUBSET D : Total(f, T) \notin Nat}
<1>1. Bad \in SUBSET SUBSET D OBVIOUS
<1>2. SUFFICES ASSUME Bad # {} PROVE FALSE
  <2>1. D \in SUBSET D OBVIOUS
  <2> QED BY <2>1, TotalIsSum
<1>3. \E T \in Bad : \A U \in SUBSET T : U # T => U \notin Bad
  <2> HIDE DEF Bad
  <2> QED BY <1>1, <1>2, SmallestSubset
<1>4. PICK T \in Bad : \A U \in SUBSET T : U # T => U \notin Bad BY <1>3
<1>5. T \in SUBSET D /\ Total(f, T) \notin Nat /\ IsFiniteSet(T) BY FS_Subset
<1>6. T # {} /\ Total(f, T) = f[Picked(T)] + Total(f, Less(T)) BY <1>5, TotalCounted
<1>7. Picked(T) \in T /\ Less(T) \in SUBSET T /\ Less(T) # T BY <1>6, PickedIn
<1>8. f[Picked(T)] \in Nat /\ Total(f, Less(T)) \in Nat BY <1>4, <1>5, <1>7
<1> QED BY <1>5, <1>6, <1>8

(* Any member may be counted first.                                         *)
LEMMA SumWithout ==
    ASSUME NEW f, NEW D, IsFiniteSet(D), \A x \in D : f[x] \in Nat, NEW e \in D
    PROVE  SumFunctionOnSet(f, D) = f[e] + SumFunctionOnSet(f, D \ {e})
<1> DEFINE Bad == {T \in SUBSET D : \E x \in T : Total(f, T) # f[x] + Total(f, T \ {x})}
<1>1. Bad \in SUBSET SUBSET D OBVIOUS
<1>2. SUFFICES ASSUME Bad # {} PROVE FALSE
  <2>1. D \in SUBSET D OBVIOUS
  <2> QED BY <2>1, TotalIsSum
<1>3. \E T \in Bad : \A U \in SUBSET T : U # T => U \notin Bad
  <2> HIDE DEF Bad
  <2> QED BY <1>1, <1>2, SmallestSubset
<1>4. PICK T \in Bad : \A U \in SUBSET T : U # T => U \notin Bad BY <1>3
<1>5. PICK x \in T : Total(f, T) # f[x] + Total(f, T \ {x}) OBVIOUS
<1>6. T \in SUBSET D /\ T # {} /\ IsFiniteSet(T) BY <1>5, FS_Subset
<1> DEFINE y == Picked(T)
           Neither == (T \ {x}) \ {y}
<1>7. y \in T /\ Total(f, T) = f[y] + Total(f, T \ {y}) BY <1>6, PickedIn, TotalCounted DEF Less
<1>8. x # y BY <1>5, <1>7
<1>9. T \ {x} \notin Bad /\ T \ {y} \notin Bad
  <2>1. T \ {x} \in SUBSET T /\ T \ {y} \in SUBSET T BY <1>6
  <2>2. T \ {x} # T /\ T \ {y} # T BY <1>5, <1>7
  <2> HIDE DEF Bad, y
  <2> QED BY <1>4, <2>1, <2>2
<1>10. /\ Total(f, T \ {x}) = f[y] + Total(f, Neither)
       /\ Total(f, T \ {y}) = f[x] + Total(f, Neither)
  <2>1. y \in T \ {x} /\ x \in T \ {y} BY <1>5, <1>7, <1>8
  <2>2. T \ {x} \in SUBSET D /\ T \ {y} \in SUBSET D BY <1>6
  <2>3. (T \ {y}) \ {x} = Neither OBVIOUS
  <2> HIDE DEF y
  <2> QED BY <1>9, <2>1, <2>2, <2>3
<1>11. f[x] \in Nat /\ f[y] \in Nat BY <1>5, <1>6, <1>7
<1>12. Total(f, Neither) \in Nat
  <2>1. Neither \in SUBSET D /\ IsFiniteSet(Neither) BY <1>6, FS_Subset
  <2> HIDE DEF y
  <2> QED BY <2>1, SumIsNat, TotalIsSum
<1> HIDE DEF y, Neither
<1> QED BY <1>5, <1>7, <1>10, <1>11, <1>12

(* One value changes: the sum changes as much.                              *)
LEMMA SumChanges ==
    ASSUME NEW f, NEW g, NEW D, IsFiniteSet(D), NEW e \in D,
           \A x \in D : f[x] \in Nat /\ g[x] \in Nat,
           \A x \in D \ {e} : f[x] = g[x]
    PROVE  SumFunctionOnSet(g, D) + f[e] = SumFunctionOnSet(f, D) + g[e]
<1>1. IsFiniteSet(D \ {e}) BY FS_Subset
<1>2. SumFunctionOnSet(f, D \ {e}) = SumFunctionOnSet(g, D \ {e}) BY <1>1, SumAgrees
<1>3. SumFunctionOnSet(f, D \ {e}) \in Nat BY <1>1, SumIsNat
<1>4. /\ SumFunctionOnSet(f, D) = f[e] + SumFunctionOnSet(f, D \ {e})
      /\ SumFunctionOnSet(g, D) = g[e] + SumFunctionOnSet(g, D \ {e})
  BY SumWithout
<1> QED BY <1>2, <1>3, <1>4

LEMMA SumOfZeros ==
    ASSUME NEW f, NEW D, IsFiniteSet(D), \A x \in D : f[x] = 0
    PROVE  SumFunctionOnSet(f, D) = 0
<1> DEFINE Bad == {T \in SUBSET D : Total(f, T) # 0}
<1>1. Bad \in SUBSET SUBSET D OBVIOUS
<1>2. SUFFICES ASSUME Bad # {} PROVE FALSE
  <2>1. D \in SUBSET D OBVIOUS
  <2> QED BY <2>1, TotalIsSum
<1>3. \E T \in Bad : \A U \in SUBSET T : U # T => U \notin Bad
  <2> HIDE DEF Bad
  <2> QED BY <1>1, <1>2, SmallestSubset
<1>4. PICK T \in Bad : \A U \in SUBSET T : U # T => U \notin Bad BY <1>3
<1>5. T \in SUBSET D /\ Total(f, T) # 0 /\ IsFiniteSet(T) BY FS_Subset
<1>6. T # {} /\ Total(f, T) = f[Picked(T)] + Total(f, Less(T)) BY <1>5, TotalCounted
<1>7. Picked(T) \in T /\ Less(T) \in SUBSET T /\ Less(T) # T BY <1>6, PickedIn
<1>8. f[Picked(T)] = 0 /\ Total(f, Less(T)) = 0 BY <1>4, <1>5, <1>7
<1> QED BY <1>5, <1>6, <1>8

-----------------------------------------------------------------------------
(* The books.  As long as no two orders have met at a store, at most one    *)
(* thread of it is selling.                                                 *)
Alone(s) ==
    \A c, d \in Clients :
        StoreOf[c] = s /\ StoreOf[d] = s /\ Selling(c) /\ Selling(d) => c = d

(* A thread that has checked the stock, and read it, sees what there is.    *)
InHand(c) ==
    LET call == client[c].call
        stock == itemStock[StoreOf[c]][call.item]
    IN  /\ Selling(c) => call.amount <= stock
        /\ worker[c].at = "read" => worker[c].seen = stock

Balanced(s) ==
    \A i \in Items : itemStock[s][i] + Unbooked(s, i) + Ledger(i, orders[s]) = StartStock

(* All a ledger shows; what was taken for a client is in there, or about to *)
(* be pushed; a receipt shows what its client has been told.                *)
Booked(ledger) == SumFunction([i \in Items |-> Ledger(i, ledger)])
Held(c) == IF worker[c].at \in {"push", "pushing"} THEN client[c].call.amount ELSE 0
Covered(c) == taken[c] <= Booked(orders[StoreOf[c]]) + Held(c)

Shows(c) ==
    Asks(c, "getReceipt") =>
        /\ worker[c].at = "replied" /\ worker[c].reply # <<>> =>
              told[c] <= Booked(worker[c].reply[1])
        /\ client[c].at = "answered" /\ client[c].answer # <<>> =>
              told[c] <= Booked(client[c].answer[1])

BooksOK(s) ==
    /\ Alone(s) /\ Balanced(s)
    /\ \A c \in Clients : StoreOf[c] = s => InHand(c) /\ Covered(c) /\ Shows(c)

BooksInv == met \in [Stores -> BOOLEAN] /\ \A s \in Stores : ~met[s] => BooksOK(s)

(* What the sums of the books are made of.                                  *)
Units(i, ledger) ==
    [k \in DOMAIN ledger |-> IF ledger[k].item = i THEN ledger[k].amount ELSE 0]

LEMMA LedgerIsSum ==
    ASSUME NEW i, NEW ledger
    PROVE  Ledger(i, ledger) = SumFunctionOnSet(Units(i, ledger), DOMAIN ledger)
<1>1. DOMAIN Units(i, ledger) = DOMAIN ledger BY DEF Units
<1> QED BY <1>1 DEF Ledger, Units, SumFunction

LEMMA EntriesAreTyped ==
    ASSUME NEW entry \in Order PROVE entry.item \in Items /\ entry.amount \in Nat
<1>1. entry.item \in Items /\ entry.amount \in Amounts BY DEF Order
<1>2. Word \in Nat /\ Amounts \subseteq 1..(Word - 1) BY ServiceAssumption
<1>3. entry.amount \in 1..(Word - 1) BY <1>1, <1>2
<1> QED BY <1>1, <1>2, <1>3

LEMMA UnitsAreNat ==
    ASSUME NEW i, NEW ledger \in Seq(Order)
    PROVE  /\ \A k \in DOMAIN ledger : Units(i, ledger)[k] \in Nat
           /\ DOMAIN ledger = 1..Len(ledger) /\ Len(ledger) \in Nat
           /\ IsFiniteSet(DOMAIN ledger)
<1>1. DOMAIN ledger = 1..Len(ledger) /\ Len(ledger) \in Nat BY LenProperties
<1>2. \A k \in DOMAIN ledger : ledger[k] \in Order BY <1>1, ElementOfSeq
<1>3. \A k \in DOMAIN ledger : Units(i, ledger)[k] \in Nat
  BY <1>2, EntriesAreTyped DEF Units
<1>4. IsFiniteSet(DOMAIN ledger) BY <1>1, FS_Interval
<1> QED BY <1>1, <1>3, <1>4

LEMMA LedgerIsNat == ASSUME NEW i, NEW ledger \in Seq(Order) PROVE Ledger(i, ledger) \in Nat
BY LedgerIsSum, UnitsAreNat, SumIsNat

LEMMA LedgerStarts == ASSUME NEW i PROVE Ledger(i, <<>>) = 0
<1>1. DOMAIN <<>> = {} OBVIOUS
<1> QED BY <1>1, LedgerIsSum, SumOfNone

(* An entry that is pushed counts for its item alone.                       *)
LEMMA LedgerGrows ==
    ASSUME NEW i, NEW ledger \in Seq(Order), NEW entry \in Order
    PROVE  Ledger(i, Append(ledger, entry)) =
               Ledger(i, ledger) + IF entry.item = i THEN entry.amount ELSE 0
<1> DEFINE longer == Append(ledger, entry)
           n == Len(ledger)
           f == Units(i, ledger)
           g == Units(i, longer)
<1>1. /\ longer \in Seq(Order) /\ Len(longer) = n + 1 /\ n \in Nat
      /\ \A k \in 1..n : longer[k] = ledger[k]
      /\ longer[n + 1] = entry
  BY AppendProperties
<1> HIDE DEF longer
<1>2. DOMAIN ledger = 1..n /\ DOMAIN longer = 1..(n + 1) BY <1>1, UnitsAreNat
<1>3. /\ g[n + 1] = IF entry.item = i THEN entry.amount ELSE 0
      /\ \A k \in 1..n : g[k] = f[k]
  BY <1>1, <1>2 DEF Units
<1>4. /\ \A k \in 1..(n + 1) : g[k] \in Nat
      /\ IsFiniteSet(1..(n + 1)) /\ IsFiniteSet(1..n) /\ n + 1 \in 1..(n + 1)
      /\ (1..(n + 1)) \ {n + 1} = 1..n
  <2>1. /\ \A k \in DOMAIN longer : Units(i, longer)[k] \in Nat
        /\ IsFiniteSet(DOMAIN longer) /\ IsFiniteSet(DOMAIN ledger)
    BY <1>1, UnitsAreNat
  <2> QED BY <1>1, <1>2, <2>1
<1> HIDE DEF f, g
<1>5. SumFunctionOnSet(g, 1..(n + 1)) = g[n + 1] + SumFunctionOnSet(g, 1..n)
  BY <1>4, SumWithout
<1>6. SumFunctionOnSet(g, 1..n) = SumFunctionOnSet(f, 1..n) BY <1>3, <1>4, SumAgrees
<1>7. /\ Ledger(i, longer) = SumFunctionOnSet(g, 1..(n + 1))
      /\ Ledger(i, ledger) = SumFunctionOnSet(f, 1..n)
  BY <1>2, LedgerIsSum DEF f, g
<1>8. Ledger(i, ledger) \in Nat /\ g[n + 1] \in Nat BY <1>4, LedgerIsNat
<1> QED BY <1>3, <1>5, <1>6, <1>7, <1>8 DEF longer

LEMMA BookedIsSum ==
    ASSUME NEW ledger
    PROVE  Booked(ledger) = SumFunctionOnSet([i \in Items |-> Ledger(i, ledger)], Items)
BY DEF Booked, SumFunction

LEMMA BookedIsNat == ASSUME NEW ledger \in Seq(Order) PROVE Booked(ledger) \in Nat
BY BookedIsSum, LedgerIsNat, SumIsNat, ServiceAssumption

LEMMA BookedGrows ==
    ASSUME NEW ledger \in Seq(Order), NEW entry \in Order
    PROVE  Booked(Append(ledger, entry)) = Booked(ledger) + entry.amount
<1> DEFINE longer == Append(ledger, entry)
           e == entry.item
           f == [i \in Items |-> Ledger(i, ledger)]
           g == [i \in Items |-> Ledger(i, longer)]
<1>1. longer \in Seq(Order) /\ e \in Items /\ entry.amount \in Nat
  BY AppendProperties, EntriesAreTyped
<1>2. \A i \in Items : Ledger(i, longer) = Ledger(i, ledger) + IF e = i THEN entry.amount ELSE 0
  BY LedgerGrows
<1> HIDE DEF longer, e
<1>3. /\ \A i \in Items : f[i] \in Nat /\ g[i] \in Nat
      /\ \A i \in Items \ {e} : f[i] = g[i]
      /\ g[e] = f[e] + entry.amount
      /\ IsFiniteSet(Items)
  <2>1. \A i \in Items : Ledger(i, ledger) \in Nat /\ Ledger(i, longer) \in Nat
    BY <1>1, LedgerIsNat
  <2>2. IsFiniteSet(Items) BY ServiceAssumption
  <2> QED BY <1>1, <1>2, <2>1, <2>2
<1>4. Booked(ledger) = SumFunctionOnSet(f, Items) /\ Booked(longer) = SumFunctionOnSet(g, Items)
  BY BookedIsSum
<1>5. Booked(ledger) \in Nat /\ Booked(longer) \in Nat BY <1>1, BookedIsNat
<1> HIDE DEF f, g
<1>6. SumFunctionOnSet(g, Items) + f[e] = SumFunctionOnSet(f, Items) + g[e]
  BY <1>1, <1>3, SumChanges
<1>7. f[e] \in Nat /\ g[e] = f[e] + entry.amount BY <1>1, <1>3
<1>8. Booked(longer) + f[e] = Booked(ledger) + (f[e] + entry.amount) BY <1>4, <1>6, <1>7
<1>9. Booked(longer) = Booked(ledger) + entry.amount
  <2>1. entry.amount \in Nat /\ f[e] \in Nat BY <1>1, <1>7
  <2> QED BY <1>5, <1>8, <2>1
<1> QED BY <1>9 DEF longer

(* What client c has had taken of item i of store s, and not booked yet.    *)
HeldOf(c, s, i) ==
    IF /\ StoreOf[c] = s /\ worker[c].at \in {"push", "pushing"}
       /\ client[c].call.item = i
    THEN client[c].call.amount ELSE 0

LEMMA UnbookedIsSum ==
    ASSUME NEW s, NEW i
    PROVE  /\ Unbooked(s, i) = SumFunctionOnSet([c \in Clients |-> HeldOf(c, s, i)], Clients)
           /\ Unbooked(s, i)' = SumFunctionOnSet([c \in Clients |-> HeldOf(c, s, i)'], Clients)
BY DEF Unbooked, HeldOf, SumFunction

LEMMA HeldIsNat ==
    ASSUME ServiceInv, NEW c \in Clients
    PROVE  /\ client[c].call.amount \in Nat /\ Held(c) \in Nat
           /\ \A s, i : HeldOf(c, s, i) \in Nat
<1>1. client[c].call.amount \in Nat BY CallsAreTyped DEF ServiceInv, PeerOK, ConnectionOK
<1> QED BY <1>1 DEF Held, HeldOf

LEMMA UnbookedChanges ==
    ASSUME ServiceInv, ServiceInv', NEW c \in Clients, NEW s, NEW i,
           \A d \in Clients \ {c} : HeldOf(d, s, i)' = HeldOf(d, s, i)
    PROVE  /\ Unbooked(s, i) \in Nat /\ Unbooked(s, i)' \in Nat
           /\ Unbooked(s, i)' + HeldOf(c, s, i) = Unbooked(s, i) + HeldOf(c, s, i)'
<1>1. PICK f : f = [d \in Clients |-> HeldOf(d, s, i)] OBVIOUS
<1>2. PICK g : g = [d \in Clients |-> HeldOf(d, s, i)'] OBVIOUS
<1>3. \A d \in Clients : HeldOf(d, s, i) \in Nat BY HeldIsNat
<1>4. \A d \in Clients : HeldOf(d, s, i)' \in Nat
  <2>1. ASSUME NEW d \in Clients PROVE client'[d].call.amount \in Nat
    BY CallsAreTyped DEF ServiceInv, PeerOK, ConnectionOK
  <2> QED BY <2>1 DEF HeldOf
<1>5. /\ \A d \in Clients : f[d] \in Nat /\ g[d] \in Nat
      /\ \A d \in Clients \ {c} : f[d] = g[d]
      /\ f[c] = HeldOf(c, s, i) /\ g[c] = HeldOf(c, s, i)'
  BY <1>1, <1>2, <1>3, <1>4
<1>6. Unbooked(s, i) = SumFunctionOnSet(f, Clients) /\ Unbooked(s, i)' = SumFunctionOnSet(g, Clients)
  BY <1>1, <1>2, UnbookedIsSum
<1>7. SumFunctionOnSet(f, Clients) \in Nat /\ SumFunctionOnSet(g, Clients) \in Nat
  BY <1>5, SumIsNat, ServiceAssumption
<1>8. SumFunctionOnSet(g, Clients) + f[c] = SumFunctionOnSet(f, Clients) + g[c]
  BY <1>5, SumChanges, ServiceAssumption
<1> QED BY <1>5, <1>6, <1>7, <1>8

LEMMA UnbookedStays ==
    ASSUME NEW s, NEW i, \A d \in Clients : HeldOf(d, s, i)' = HeldOf(d, s, i)
    PROVE  Unbooked(s, i)' = Unbooked(s, i)
<1>1. PICK f, g : /\ f = [d \in Clients |-> HeldOf(d, s, i)]
                  /\ g = [d \in Clients |-> HeldOf(d, s, i)']
  OBVIOUS
<1>2. f = g BY <1>1
<1> QED BY <1>1, <1>2, UnbookedIsSum

-----------------------------------------------------------------------------
(* Steps that leave the books of a store as they are.                       *)

SameSale(d) ==
    /\ Selling(d)' <=> Selling(d)
    /\ worker'[d].at = "read" <=> worker[d].at = "read"
    /\ worker'[d].at \in {"push", "pushing"} <=> worker[d].at \in {"push", "pushing"}
    /\ worker[d].at \in {"checked", "read", "push", "pushing"} =>
          client'[d].call = client[d].call /\ worker'[d].seen = worker[d].seen

LEMMA HeldStays ==
    ASSUME NEW d, SameSale(d)
    PROVE  Held(d)' = Held(d) /\ \A s, i : HeldOf(d, s, i)' = HeldOf(d, s, i)
BY DEF SameSale, Held, HeldOf

LEMMA BooksStay ==
    ASSUME NEW s \in Stores, BooksOK(s),
           itemStock'[s] = itemStock[s], orders'[s] = orders[s],
           \A d \in Clients : StoreOf[d] = s => SameSale(d) /\ taken'[d] = taken[d] /\ Shows(d)'
    PROVE  BooksOK(s)'
<1>1. Alone(s)' BY DEF BooksOK, Alone, SameSale
<1>2. Balanced(s)'
  <2> SUFFICES ASSUME NEW i \in Items
               PROVE  itemStock'[s][i] + Unbooked(s, i)' + Ledger(i, orders'[s]) = StartStock
    BY DEF Balanced
  <2>1. ASSUME NEW d \in Clients PROVE HeldOf(d, s, i)' = HeldOf(d, s, i)
    <3>1. CASE StoreOf[d] = s BY <3>1, HeldStays
    <3>2. CASE StoreOf[d] # s BY <3>2 DEF HeldOf
    <3> QED BY <3>1, <3>2
  <2>2. Unbooked(s, i)' = Unbooked(s, i) BY <2>1, UnbookedStays
  <2> QED BY <2>2 DEF BooksOK, Balanced
<1>3. ASSUME NEW d \in Clients, StoreOf[d] = s PROVE InHand(d)' /\ Covered(d)' /\ Shows(d)'
  <2>1. SameSale(d) /\ InHand(d) /\ Covered(d) /\ Shows(d)' BY <1>3 DEF BooksOK
  <2>2. InHand(d)' BY <1>3, <2>1 DEF InHand, SameSale, Selling
  <2>3. Covered(d)'
    <3>1. Held(d)' = Held(d) BY <2>1, HeldStays
    <3> QED BY <1>3, <2>1, <3>1 DEF Covered
  <2> QED BY <2>1, <2>2, <2>3
<1> QED BY <1>1, <1>2, <1>3 DEF BooksOK

LEMMA ShowsStays ==
    ASSUME NEW d, Shows(d), client'[d] = client[d], worker'[d] = worker[d], told'[d] = told[d]
    PROVE  Shows(d)'
BY DEF Shows, Asks, Booked

(* Nothing has changed for the clients of a store.                          *)
LEMMA NothingHappens ==
    ASSUME NEW s \in Stores, BooksOK(s),
           itemStock'[s] = itemStock[s], orders'[s] = orders[s],
           \A d \in Clients : StoreOf[d] = s =>
               /\ client'[d] = client[d] /\ worker'[d] = worker[d]
               /\ taken'[d] = taken[d] /\ told'[d] = told[d]
    PROVE  BooksOK(s)'
<1>1. ASSUME NEW d \in Clients, StoreOf[d] = s PROVE SameSale(d) /\ taken'[d] = taken[d] /\ Shows(d)'
  <2>1. /\ client'[d] = client[d] /\ worker'[d] = worker[d]
        /\ taken'[d] = taken[d] /\ told'[d] = told[d] /\ Shows(d)
    BY <1>1 DEF BooksOK
  <2>2. Shows(d)' BY <2>1, ShowsStays
  <2>3. SameSale(d) BY <2>1 DEF SameSale, Selling
  <2> QED BY <2>1, <2>2, <2>3
<1> QED BY <1>1, BooksStay

(* A step of one connection: only its own store is to be looked at.         *)
LEMMA OneStoreMoves ==
    ASSUME BooksInv, NEW c \in Clients, Elsewhere(c), met' \in [Stores -> BOOLEAN],
           \A s \in Stores \ {StoreOf[c]} :
               itemStock'[s] = itemStock[s] /\ orders'[s] = orders[s] /\ met'[s] = met[s],
           ~met'[StoreOf[c]] => BooksOK(StoreOf[c])'
    PROVE  BooksInv'
<1>1. ASSUME NEW s \in Stores, ~met'[s], s # StoreOf[c] PROVE BooksOK(s)'
  <2>1. ~met[s] /\ itemStock'[s] = itemStock[s] /\ orders'[s] = orders[s] BY <1>1
  <2>2. \A d \in Clients : StoreOf[d] = s =>
            /\ client'[d] = client[d] /\ worker'[d] = worker[d]
            /\ taken'[d] = taken[d] /\ told'[d] = told[d]
    BY <1>1 DEF Elsewhere
  <2>3. BooksOK(s) BY <2>1 DEF BooksInv
  <2> QED BY <2>1, <2>2, <2>3, NothingHappens
<1> QED BY <1>1 DEF BooksInv

LEMMA QuietMoves ==
    ASSUME BooksInv, NEW c \in Clients, Elsewhere(c), UNCHANGED <<itemStock, orders, met, taken>>,
           SameSale(c), BooksOK(StoreOf[c]) => Shows(c)'
    PROVE  BooksInv'
<1>1. StoreOf[c] \in Stores /\ met' \in [Stores -> BOOLEAN] BY ServiceAssumption DEF BooksInv
<1>2. ASSUME ~met'[StoreOf[c]] PROVE BooksOK(StoreOf[c])'
  <2>1. BooksOK(StoreOf[c]) BY <1>1, <1>2 DEF BooksInv
  <2>2. ASSUME NEW d \in Clients, StoreOf[d] = StoreOf[c]
        PROVE  SameSale(d) /\ taken'[d] = taken[d] /\ Shows(d)'
    <3>1. CASE d = c BY <2>1, <3>1
    <3>2. CASE d # c
      <4>1. client'[d] = client[d] /\ worker'[d] = worker[d] /\ told'[d] = told[d] /\ taken'[d] = taken[d]
        BY <3>2 DEF Elsewhere
      <4>2. Shows(d) BY <2>1, <2>2 DEF BooksOK
      <4>3. Shows(d)' BY <4>1, <4>2, ShowsStays
      <4>4. SameSale(d) BY <4>1 DEF SameSale, Selling
      <4> QED BY <4>1, <4>3, <4>4
    <3> QED BY <3>1, <3>2
  <2> QED BY <1>1, <2>1, <2>2, BooksStay
<1>3. ~met'[StoreOf[c]] => BooksOK(StoreOf[c])' BY <1>2
<1> QED BY <1>1, <1>3, OneStoreMoves

(* The thread of the connection has not begun to sell, or is done.          *)
Idle == {"none", "reading", "replied", "failed"}

LEMMA IdleMoves ==
    ASSUME BooksInv, NEW c \in Clients, Elsewhere(c), UNCHANGED <<itemStock, orders, met, taken>>,
           worker[c].at \in Idle, worker'[c].at \in Idle,
           BooksOK(StoreOf[c]) => Shows(c)'
    PROVE  BooksInv'
<1>1. SameSale(c) BY DEF SameSale, Selling, Idle
<1> QED BY <1>1, QuietMoves

-----------------------------------------------------------------------------
(* The books at the start, and what the steps of a client do to them.       *)

LEMMA BooksInvInit == ASSUME Init PROVE BooksInv
<1>1. ServiceInv BY ServiceInvInit
<1>2. \A c \in Clients : worker[c] = NoWorker /\ client[c] = Closed /\ taken[c] = 0 /\ told[c] = 0
  BY DEF Init
<1>3. \A c \in Clients : /\ worker[c].at = "none" /\ client[c].at = "closed"
  BY <1>2 DEF NoWorker, Closed
<1>4. ASSUME NEW s \in Stores PROVE BooksOK(s)
  <2>1. orders[s] = <<>> /\ itemStock[s] = [i \in Items |-> StartStock] BY DEF Init
  <2>2. Alone(s) BY <1>3 DEF Alone, Selling
  <2>3. ASSUME NEW i \in Items PROVE itemStock[s][i] + Unbooked(s, i) + Ledger(i, orders[s]) = StartStock
    <3>1. Ledger(i, orders[s]) = 0 BY <2>1, LedgerStarts
    <3>2. Unbooked(s, i) = 0
      <4>1. PICK f : f = [c \in Clients |-> HeldOf(c, s, i)] OBVIOUS
      <4>2. \A c \in Clients : f[c] = 0 BY <1>3, <4>1 DEF HeldOf
      <4>3. IsFiniteSet(Clients) BY ServiceAssumption
      <4>4. Unbooked(s, i) = SumFunctionOnSet(f, Clients) BY <4>1, UnbookedIsSum
      <4> QED BY <4>2, <4>3, <4>4, SumOfZeros
    <3>3. itemStock[s][i] = StartStock BY <2>1
    <3>4. StartStock \in Nat BY ServiceAssumption
    <3> QED BY <3>1, <3>2, <3>3, <3>4
  <2>4. ASSUME NEW c \in Clients, StoreOf[c] = s PROVE InHand(c) /\ Covered(c) /\ Shows(c)
    <3>1. InHand(c) /\ Shows(c) BY <1>3 DEF InHand, Shows, Selling
    <3>2. Held(c) = 0 BY <1>3 DEF Held
    <3>3. <<>> \in Seq(Order) OBVIOUS
    <3>4. Booked(orders[s]) \in Nat BY <2>1, <3>3, BookedIsNat
    <3>5. Covered(c) BY <1>2, <2>4, <3>2, <3>4 DEF Covered
    <3> QED BY <3>1, <3>5
  <2> QED BY <2>2, <2>3, <2>4 DEF BooksOK, Balanced
<1>5. met \in [Stores -> BOOLEAN] BY DEF Init
<1> QED BY <1>4, <1>5 DEF BooksInv

LEMMA OpenBooks ==
    ASSUME ServiceInv, BooksInv, NEW c \in Clients, Open(c) PROVE BooksInv'
<1> USE DEF ServiceInv, PeerOK
<1>1. /\ client[c].at = "closed" /\ client' = [client EXCEPT ![c].at = "open"] /\ Works(c, "reading")
      /\ UNCHANGED <<itemStock, orders, met, taken, told>>
  BY DEF Open, shared
<1>2. client[c] = ClientOf(client[c]) /\ worker[c] = WorkerOf(worker[c]) /\ worker[c].at = "none"
  BY <1>1 DEF ConnectionOK
<1>3. (\A d \in Clients \ {c} : client'[d] = client[d]) /\ client'[c].at = "open"
  BY <1>1, <1>2, ClientMoves
<1>4. (\A d \in Clients \ {c} : worker'[d] = worker[d]) /\ worker'[c].at = "reading"
  BY <1>1, <1>2, WorkerMoves
<1>5. Elsewhere(c) BY <1>1, <1>3, <1>4 DEF Elsewhere
<1>6. Shows(c)' BY <1>3, <1>4 DEF Shows
<1> HIDE DEF ServiceInv, PeerOK
<1> QED BY <1>1, <1>2, <1>4, <1>5, <1>6, IdleMoves DEF Idle

LEMMA SendsBooks ==
    ASSUME ServiceInv, BooksInv, NEW c \in Clients, NEW call, Sends(c, call) PROVE BooksInv'
<1> USE DEF ServiceInv, PeerOK
<1>1. /\ client[c].at = "open"
      /\ client' = [client EXCEPT ![c] = [at |-> "waiting", call |-> call, answer |-> <<>>]]
      /\ UNCHANGED <<itemStock, orders, met, worker, taken, told>>
  BY DEF Sends, shared
<1>2. worker[c].at = "reading" BY <1>1 DEF ConnectionOK
<1>3. (\A d \in Clients \ {c} : client'[d] = client[d]) /\ client'[c].at = "waiting"
  BY <1>1 DEF ShapeOK
<1>4. Elsewhere(c) BY <1>1, <1>3 DEF Elsewhere
<1>5. Shows(c)' BY <1>1, <1>2, <1>3 DEF Shows
<1> HIDE DEF ServiceInv, PeerOK
<1> QED BY <1>1, <1>2, <1>4, <1>5, IdleMoves DEF Idle

(* The receipt that is received is the one that was sent.                   *)
LEMMA HearsBooks ==
    ASSUME ServiceInv, BooksInv, NEW c \in Clients, NEW m, Hears(c, m),
           \A d \in Clients \ {c} : told'[d] = told[d],
           m = "getReceipt" => told'[c] = told[c]
    PROVE  BooksInv'
<1>1. UNCHANGED <<itemStock, orders, met>> BY DEF Hears, shared
<1>2. /\ \A d \in Clients \ {c} : client'[d] = client[d] /\ worker'[d] = worker[d]
      /\ worker[c].at = "replied" /\ worker'[c].at = "reading" /\ Asks(c, m)
      /\ client'[c].call = client[c].call /\ client'[c].answer = worker[c].reply
      /\ UNCHANGED taken
  BY HearsMoves
<1>3. Elsewhere(c) BY <1>2 DEF Elsewhere
<1>4. ASSUME BooksOK(StoreOf[c]) PROVE Shows(c)'
  <2>1. Shows(c) BY <1>4 DEF BooksOK
  <2>2. CASE m = "getReceipt" BY <1>2, <2>1, <2>2 DEF Shows, Asks, Booked
  <2>3. CASE m # "getReceipt" BY <1>2, <2>3 DEF Shows, Asks
  <2> QED BY <2>2, <2>3
<1> QED BY <1>1, <1>2, <1>3, <1>4, IdleMoves DEF Idle

LEMMA ReceiveBooks ==
    ASSUME ServiceInv, BooksInv, NEW c \in Clients, Receive(c) PROVE BooksInv'
<1>1. CASE recv_getPrice(c) \/ recv_getReceipt(c)
  <2>1. PICK m : Hears(c, m) /\ UNCHANGED told BY <1>1 DEF recv_getPrice, recv_getReceipt
  <2> QED BY <2>1, HearsBooks
<1>2. CASE recv_order(c)
  <2>1. PICK m : m = "order" OBVIOUS
  <2>2. Hears(c, m) BY <1>2, <2>1 DEF recv_order
  <2>3. PICK x : told' = [told EXCEPT ![c] = x] BY <1>2 DEF recv_order
  <2>4. \A d \in Clients \ {c} : told'[d] = told[d] BY <2>3 DEF ServiceInv, ShapeOK
  <2> QED BY <2>1, <2>2, <2>4, HearsBooks
<1> QED BY <1>1, <1>2 DEF Receive

LEMMA CloseBooks ==
    ASSUME ServiceInv, BooksInv, NEW c \in Clients, Close(c) PROVE BooksInv'
<1> USE DEF ServiceInv, PeerOK
<1>1. /\ client[c].at = "answered" /\ client' = [client EXCEPT ![c] = Closed]
      /\ worker' = [worker EXCEPT ![c] = NoWorker]
      /\ UNCHANGED <<itemStock, orders, met, taken, told>>
  BY DEF Close, shared
<1>2. /\ \A d \in Clients \ {c} : client'[d] = client[d] /\ worker'[d] = worker[d]
      /\ client'[c] = Closed /\ worker'[c] = NoWorker
  BY <1>1 DEF ShapeOK
<1>3. client'[c].at = "closed" /\ worker'[c].at = "none" BY <1>2 DEF Closed, NoWorker
<1>4. worker[c].at = "reading" BY <1>1 DEF ConnectionOK
<1>5. Elsewhere(c) BY <1>1, <1>2 DEF Elsewhere
<1>6. Shows(c)' BY <1>3 DEF Shows
<1> HIDE DEF ServiceInv, PeerOK
<1> QED BY <1>1, <1>3, <1>4, <1>5, <1>6, IdleMoves DEF Idle

LEMMA ThrowsBooks ==
    ASSUME ServiceInv, BooksInv, NEW c \in Clients, Throws(c) PROVE BooksInv'
<1> USE DEF ServiceInv, PeerOK
<1>1. /\ client[c].at \in {"closed", "open", "waiting"}
      /\ client[c].at = "waiting" => worker[c].at # "replied"
      /\ client' = [client EXCEPT ![c].at = "dead"]
      /\ UNCHANGED <<itemStock, orders, met, worker, taken, told>>
  BY DEF Throws, shared
<1>2. client[c] = ClientOf(client[c]) /\ worker[c].at # "replied" BY <1>1 DEF ConnectionOK
<1>3. /\ \A d \in Clients \ {c} : client'[d] = client[d]
      /\ client'[c].at = "dead" /\ client'[c].call = client[c].call
  BY <1>1, <1>2, ClientMoves
<1>4. Elsewhere(c) BY <1>1, <1>3 DEF Elsewhere
<1>5. SameSale(c) BY <1>1, <1>3 DEF SameSale, Selling
<1>6. Shows(c)' BY <1>1, <1>2, <1>3 DEF Shows
<1> HIDE DEF ServiceInv, PeerOK
<1> QED BY <1>1, <1>4, <1>5, <1>6, QuietMoves

-----------------------------------------------------------------------------
(* What the steps of the threads do to the books.                           *)

LEMMA RepliesBooks ==
    ASSUME ServiceInv, BooksInv, NEW c \in Clients, NEW m, HasRead(c, m), NEW x, Replies(c, x),
           UNCHANGED <<shared, client, taken, told, met>>,
           BooksOK(StoreOf[c]) /\ m = "getReceipt" => told[c] <= Booked(x)
    PROVE  BooksInv'
<1>1. worker[c].at = "reading" /\ client[c].at = "waiting" /\ client[c].call.method = m
  BY DEF HasRead, Doing, Asks
<1>2. ShapeOK /\ worker[c] = WorkerOf(worker[c]) BY DEF ServiceInv, PeerOK, ConnectionOK
<1>3. /\ \A d \in Clients \ {c} : worker'[d] = worker[d]
      /\ worker'[c].at = "replied" /\ worker'[c].reply = <<x>>
  BY <1>2, WorkerReplies
<1>4. UNCHANGED <<itemStock, orders, client, taken, told, met>> BY DEF shared
<1>5. Elsewhere(c) BY <1>3, <1>4 DEF Elsewhere
<1>6. ASSUME BooksOK(StoreOf[c]) PROVE Shows(c)'
  <2>1. worker'[c].reply[1] = x BY <1>3
  <2>2. client'[c].at = "waiting" /\ client'[c].call.method = m BY <1>1, <1>4
  <2>3. CASE m = "getReceipt"
    <3>1. told'[c] <= Booked(worker'[c].reply[1]) BY <1>4, <1>6, <2>1, <2>3
    <3> QED BY <2>2, <3>1 DEF Shows, Booked
  <2>4. CASE m # "getReceipt" BY <2>2, <2>4 DEF Shows, Asks
  <2> QED BY <2>3, <2>4
<1> QED BY <1>1, <1>3, <1>4, <1>5, <1>6, IdleMoves DEF Idle

LEMMA GetPriceBooks ==
    ASSUME ServiceInv, BooksInv, NEW c \in Clients, process_getPrice(c) PROVE BooksInv'
<1>1. PICK x, m : x = getPrice(StoreOf[c], client[c].call.item) /\ m = "getPrice" OBVIOUS
<1>2. HasRead(c, m) /\ Replies(c, x) /\ UNCHANGED <<shared, client, taken, told, met>>
  BY <1>1 DEF process_getPrice
<1> QED BY <1>1, <1>2, RepliesBooks

LEMMA RefuseBooks ==
    ASSUME ServiceInv, BooksInv, NEW c \in Clients, Refuse(c) PROVE BooksInv'
<1>1. PICK x, m : x = FALSE /\ m = "order" OBVIOUS
<1>2. HasRead(c, m) /\ Replies(c, x) /\ UNCHANGED <<shared, client, taken, told, met>>
  BY <1>1 DEF Refuse
<1>3. m # "getReceipt" BY <1>1
<1> QED BY <1>2, <1>3, RepliesBooks

LEMMA EndsBooks ==
    ASSUME BooksInv, UNCHANGED <<itemStock, orders, client, worker, taken, told, met>>
    PROVE  BooksInv'
<1>1. ASSUME NEW s \in Stores, ~met'[s] PROVE BooksOK(s)'
  <2>1. BooksOK(s) BY <1>1 DEF BooksInv
  <2> QED BY <2>1, NothingHappens
<1> QED BY <1>1 DEF BooksInv

LEMMA GarblesBooks ==
    ASSUME ServiceInv, BooksInv, NEW c \in Clients, HasRead(c, "getReceipt"), Garbles(c),
           UNCHANGED <<shared, client, taken, told, met>>
    PROVE  BooksInv'
<1>1. worker[c].at = "reading" /\ client[c].at = "waiting" BY DEF HasRead, Doing
<1>2. ShapeOK /\ worker[c] = WorkerOf(worker[c]) BY DEF ServiceInv, PeerOK, ConnectionOK
<1>3. /\ \A d \in Clients \ {c} : worker'[d] = worker[d]
      /\ worker'[c].at = "replied" /\ worker'[c].reply = <<>>
  BY <1>2, WorkerGarbles
<1>4. UNCHANGED <<itemStock, orders, client, taken, told, met>> BY DEF shared
<1>5. Elsewhere(c) BY <1>3, <1>4 DEF Elsewhere
<1>6. Shows(c)' BY <1>1, <1>3, <1>4 DEF Shows
<1> QED BY <1>1, <1>3, <1>4, <1>5, <1>6, IdleMoves DEF Idle

(* The ledger that is sent has all that was taken for its client, who waits *)
(* for the ledger and has been told of everything.                          *)
LEMMA GetReceiptBooks ==
    ASSUME ServiceInv, BooksInv, NEW c \in Clients, process_getReceipt(c) PROVE BooksInv'
<1>1. PICK x, m : x = orders[StoreOf[c]] /\ m = "getReceipt" OBVIOUS
<1>2. CASE Replies(c, x) /\ UNCHANGED <<shared, client, taken, told, met>>
  <2>1. HasRead(c, m) BY <1>1 DEF process_getReceipt
  <2>2. worker[c].at = "reading" BY <2>1 DEF HasRead, Doing
  <2>3. ASSUME BooksOK(StoreOf[c]) PROVE told[c] <= Booked(x)
    <3>1. taken[c] = told[c] + 0 /\ told[c] \in Nat
      <4>1. ~Owed(c) BY <2>2 DEF Owed
      <4> QED BY <4>1 DEF ServiceInv, PeerOK, SalesOK, ShapeOK
    <3>2. taken[c] <= Booked(x) + 0
      <4>1. Held(c) = 0 BY <2>2 DEF Held
      <4>2. Covered(c) BY <2>3 DEF BooksOK
      <4> QED BY <1>1, <4>1, <4>2 DEF Covered
    <3>3. Booked(x) \in Nat
      <4>1. x \in Seq(Order) BY <1>1, ServiceAssumption DEF ServiceInv, SharedOK
      <4> QED BY <4>1, BookedIsNat
    <3> QED BY <3>1, <3>2, <3>3
  <2> QED BY <1>2, <2>1, <2>3, RepliesBooks
<1>3. CASE BreaksOff(c) BY <1>3, EndsBooks DEF BreaksOff
<1>4. CASE Garbles(c) /\ UNCHANGED <<shared, client, taken, told, met>>
  BY <1>4, GarblesBooks DEF process_getReceipt
<1>5. CASE Fails(c) /\ UNCHANGED <<shared, client, taken, told, met>>
  <2>1. worker[c].at = "reading" /\ client[c].at = "waiting"
    BY DEF process_getReceipt, HasRead, Doing
  <2>2. ShapeOK /\ worker[c] = WorkerOf(worker[c]) BY DEF ServiceInv, PeerOK, ConnectionOK
  <2>3. (\A d \in Clients \ {c} : worker'[d] = worker[d]) /\ worker'[c].at = "failed"
    BY <1>5, <2>2, WorkerMoves DEF Fails
  <2>4. UNCHANGED <<itemStock, orders, client, taken, told, met>> BY <1>5 DEF shared
  <2>5. Elsewhere(c) BY <2>3, <2>4 DEF Elsewhere
  <2>6. Shows(c)' BY <2>1, <2>3, <2>4 DEF Shows
  <2> QED BY <2>1, <2>3, <2>4, <2>5, <2>6, IdleMoves DEF Idle
<1> QED BY <1>1, <1>2, <1>3, <1>4, <1>5 DEF process_getReceipt

LEMMA BeginPushBooks ==
    ASSUME ServiceInv, BooksInv, NEW c \in Clients, BeginPush(c) PROVE BooksInv'
<1> USE DEF ServiceInv, PeerOK
<1>1. /\ worker[c].at = "push" /\ Works(c, "pushing")
      /\ UNCHANGED <<itemStock, orders, client, taken, told, met>>
  BY DEF BeginPush, Doing, shared
<1>2. worker[c] = WorkerOf(worker[c]) /\ client[c].at \in {"waiting", "dead"} BY <1>1 DEF ConnectionOK
<1>3. /\ \A d \in Clients \ {c} : worker'[d] = worker[d]
      /\ worker'[c].at = "pushing" /\ worker'[c].seen = worker[c].seen
  BY <1>1, <1>2, WorkerMoves
<1>4. Elsewhere(c) BY <1>1, <1>3 DEF Elsewhere
<1>5. SameSale(c) BY <1>1, <1>3 DEF SameSale, Selling
<1>6. Shows(c)' BY <1>1, <1>2, <1>3 DEF Shows
<1> HIDE DEF ServiceInv, PeerOK
<1> QED BY <1>1, <1>4, <1>5, <1>6, QuietMoves

(* The other clients of a store see of a step only the stock, and a ledger  *)
(* that has not become less.                                                *)
LEMMA OthersStay ==
    ASSUME ServiceInv, NEW c \in Clients, Elsewhere(c), NEW d \in Clients \ {c}, StoreOf[d] = StoreOf[c],
           BooksOK(StoreOf[c]), Booked(orders'[StoreOf[c]]) \in Nat,
           Booked(orders[StoreOf[c]]) <= Booked(orders'[StoreOf[c]])
    PROVE  /\ Selling(d)' <=> Selling(d)
           /\ Covered(d)' /\ Shows(d)'
           /\ ~Selling(d) \/ itemStock'[StoreOf[c]] = itemStock[StoreOf[c]] => InHand(d)'
<1>1. /\ client'[d] = client[d] /\ worker'[d] = worker[d]
      /\ taken'[d] = taken[d] /\ told'[d] = told[d]
  BY DEF Elsewhere
<1>2. InHand(d) /\ Covered(d) /\ Shows(d) BY DEF BooksOK
<1>3. Selling(d)' <=> Selling(d) BY <1>1 DEF Selling
<1>4. Shows(d)' BY <1>1, <1>2, ShowsStays
<1>5. Covered(d)'
  <2>1. Held(d)' = Held(d) BY <1>1 DEF Held
  <2>2. Held(d) \in Nat /\ taken[d] \in Nat BY HeldIsNat DEF ServiceInv, ShapeOK
  <2>3. Booked(orders[StoreOf[c]]) \in Nat BY ServiceAssumption, BookedIsNat DEF ServiceInv, SharedOK
  <2>4. taken[d] <= Booked(orders[StoreOf[c]]) + Held(d) BY <1>2 DEF Covered
  <2>5. taken[d] <= Booked(orders'[StoreOf[c]]) + Held(d) BY <2>2, <2>3, <2>4
  <2>6. Covered(d)' <=> taken'[d] <= Booked(orders'[StoreOf[c]]) + Held(d)' BY DEF Covered, Booked
  <2> QED BY <1>1, <2>1, <2>5, <2>6
<1>6. CASE ~Selling(d)
  <2>1. worker'[d].at # "read" /\ ~Selling(d)' BY <1>3, <1>6 DEF Selling
  <2>2. InHand(d)' BY <2>1 DEF InHand
  <2> QED BY <1>3, <1>4, <1>5, <2>2
<1>7. ASSUME itemStock'[StoreOf[c]] = itemStock[StoreOf[c]] PROVE InHand(d)'
  BY <1>1, <1>2, <1>3, <1>7 DEF InHand
<1> QED BY <1>3, <1>4, <1>5, <1>6, <1>7

(* An order of c at a stage between the check and the answer has no effect  *)
(* on what the others hold.                                                 *)
LEMMA OnlyOwnHeld ==
    ASSUME NEW c \in Clients, Elsewhere(c)
    PROVE  \A d \in Clients \ {c} : \A s, i : HeldOf(d, s, i)' = HeldOf(d, s, i)
BY DEF Elsewhere, HeldOf

(* Nobody is selling at the store when c begins to.                         *)
LEMMA CheckBooks ==
    ASSUME ServiceInv, BooksInv, NEW c \in Clients, Check(c) PROVE BooksInv'
<1> DEFINE s == StoreOf[c]
           meets == met[s] \/ \E d \in Others(c) : Selling(d)
<1>1. /\ worker[c].at = "reading" /\ client[c].at = "waiting"
      /\ client[c].call.item \in Items /\ itemStock[s][client[c].call.item] >= client[c].call.amount
      /\ Works(c, "checked") /\ met' = [met EXCEPT ![s] = meets]
      /\ UNCHANGED <<itemStock, orders, client, taken, told>>
  BY DEF Check, HasRead, Doing, InStock, shared
<1>2. ShapeOK /\ worker[c] = WorkerOf(worker[c]) BY DEF ServiceInv, PeerOK, ConnectionOK
<1>3. (\A d \in Clients \ {c} : worker'[d] = worker[d]) /\ worker'[c].at = "checked"
  BY <1>1, <1>2, WorkerMoves
<1>4. Elsewhere(c) BY <1>1, <1>3 DEF Elsewhere
<1>5. s \in Stores BY ServiceAssumption
<1>6. met' \in [Stores -> BOOLEAN] /\ met'[s] = meets /\ \A r \in Stores \ {s} : met'[r] = met[r]
  <2>1. meets \in BOOLEAN BY <1>5 DEF BooksInv
  <2> HIDE DEF meets
  <2> QED BY <1>1, <1>5, <2>1 DEF BooksInv
<1>7. ASSUME ~met'[s] PROVE BooksOK(s)'
  <2>1. ~met[s] /\ \A d \in Clients \ {c} : StoreOf[d] = s => ~Selling(d) BY <1>6, <1>7 DEF Others
  <2>2. BooksOK(s) BY <1>5, <2>1 DEF BooksInv
  <2>3. Booked(orders[s]) \in Nat BY <1>5, BookedIsNat DEF ServiceInv, SharedOK
  <2>4. ASSUME NEW d \in Clients \ {c}, StoreOf[d] = s
        PROVE  ~Selling(d)' /\ InHand(d)' /\ Covered(d)' /\ Shows(d)'
    <3>1. orders'[s] = orders[s] /\ Booked(orders'[s]) \in Nat /\ Booked(orders[s]) <= Booked(orders'[s])
      BY <1>1, <2>3
    <3> QED BY <1>4, <2>1, <2>2, <2>4, <3>1, OthersStay
  <2>5. Alone(s)' BY <2>4 DEF Alone
  <2>6. Balanced(s)'
    <3>1. ASSUME NEW i \in Items PROVE Unbooked(s, i)' = Unbooked(s, i)
      <4>1. HeldOf(c, s, i)' = HeldOf(c, s, i) BY <1>1, <1>3 DEF HeldOf
      <4> QED BY <1>4, <4>1, OnlyOwnHeld, UnbookedStays
    <3> QED BY <1>1, <2>2, <3>1 DEF BooksOK, Balanced, Ledger
  <2>7. InHand(c)'
    <3>1. Selling(c)' /\ worker'[c].at # "read" BY <1>3 DEF Selling
    <3>2. client[c].call.amount <= itemStock[s][client[c].call.item]
      <4>1. client[c].call.amount \in Nat BY HeldIsNat
      <4>2. itemStock[s][client[c].call.item] \in Nat
        <5>1. itemStock[s][client[c].call.item] \in Unsigned BY <1>1, <1>5 DEF ServiceInv, SharedOK
        <5> QED BY <5>1 DEF Unsigned
      <4> QED BY <1>1, <4>1, <4>2
    <3> QED BY <1>1, <3>1, <3>2 DEF InHand
  <2>8. Covered(c)'
    <3>1. Held(c)' = Held(c) BY <1>1, <1>3 DEF Held
    <3> QED BY <1>1, <2>2, <3>1 DEF BooksOK, Covered, Booked
  <2>9. Shows(c)' BY <1>1, <1>3 DEF Shows
  <2> QED BY <2>4, <2>5, <2>6, <2>7, <2>8, <2>9 DEF BooksOK
<1> HIDE DEF s
<1>8. ~met'[s] => BooksOK(s)' BY <1>7
<1> QED BY <1>1, <1>4, <1>6, <1>8, OneStoreMoves DEF s

LEMMA ReadBooks ==
    ASSUME ServiceInv, BooksInv, NEW c \in Clients, Read(c) PROVE BooksInv'
<1> DEFINE s == StoreOf[c]
           stock == itemStock[s][client[c].call.item]
<1>1. /\ worker[c].at = "checked"
      /\ worker' = [worker EXCEPT ![c].at = "read", ![c].seen = stock]
      /\ UNCHANGED <<itemStock, orders, client, taken, told, met>>
  BY DEF Read, Doing, shared
<1>2. /\ ShapeOK /\ worker[c] = WorkerOf(worker[c]) /\ client[c].at \in {"waiting", "dead"}
  BY <1>1 DEF ServiceInv, PeerOK, ConnectionOK
<1>3. /\ \A d \in Clients \ {c} : worker'[d] = worker[d]
      /\ worker'[c].at = "read" /\ worker'[c].seen = stock
  <2> HIDE DEF stock
  <2> QED BY <1>1, <1>2, WorkerReads
<1>4. Elsewhere(c) BY <1>1, <1>3 DEF Elsewhere
<1>5. s \in Stores BY ServiceAssumption
<1>6. ASSUME ~met'[s] PROVE BooksOK(s)'
  <2>1. BooksOK(s) BY <1>1, <1>5, <1>6 DEF BooksInv
  <2>2. Booked(orders[s]) \in Nat BY <1>5, BookedIsNat DEF ServiceInv, SharedOK
  <2>3. ASSUME NEW d \in Clients \ {c}, StoreOf[d] = s
        PROVE  (Selling(d)' <=> Selling(d)) /\ InHand(d)' /\ Covered(d)' /\ Shows(d)'
    <3>1. /\ orders'[s] = orders[s] /\ itemStock'[s] = itemStock[s]
          /\ Booked(orders'[s]) \in Nat /\ Booked(orders[s]) <= Booked(orders'[s])
      BY <1>1, <2>2
    <3> QED BY <1>4, <2>1, <2>3, <3>1, OthersStay
  <2>4. Selling(c) /\ Selling(c)' BY <1>1, <1>3 DEF Selling
  <2>5. Alone(s)' BY <2>1, <2>3, <2>4 DEF BooksOK, Alone
  <2>6. Balanced(s)'
    <3>1. ASSUME NEW i \in Items PROVE Unbooked(s, i)' = Unbooked(s, i)
      <4>1. HeldOf(c, s, i)' = HeldOf(c, s, i) BY <1>1, <1>3 DEF HeldOf
      <4> QED BY <1>4, <4>1, OnlyOwnHeld, UnbookedStays
    <3> QED BY <1>1, <2>1, <3>1 DEF BooksOK, Balanced, Ledger
  <2>7. InHand(c)' BY <1>1, <1>3, <2>1, <2>4 DEF BooksOK, InHand
  <2>8. Covered(c)'
    <3>1. Held(c)' = Held(c) BY <1>1, <1>3 DEF Held
    <3> QED BY <1>1, <2>1, <3>1 DEF BooksOK, Covered, Booked
  <2>9. Shows(c)' BY <1>1, <1>2, <1>3 DEF Shows
  <2> QED BY <2>3, <2>5, <2>6, <2>7, <2>8, <2>9 DEF BooksOK
<1>7. met' \in [Stores -> BOOLEAN] BY <1>1 DEF BooksInv
<1> HIDE DEF s
<1>8. ~met'[s] => BooksOK(s)' BY <1>6
<1> QED BY <1>1, <1>4, <1>7, <1>8, OneStoreMoves DEF s

(* What the thread subtracts is there, so the stock does not wrap.          *)
LEMMA TakesWhatIsThere ==
    ASSUME NEW seen \in Unsigned, NEW n \in Nat, n <= seen
    PROVE  Rest(seen, n) + n = seen
<1>1. Word \in Nat BY ServiceAssumption
<1>2. seen \in Nat /\ seen < Word BY <1>1 DEF Unsigned
<1>3. PICK rest \in Nat : rest + n = seen
  <2>1. seen - n \in Nat /\ (seen - n) + n = seen BY <1>2
  <2> QED BY <2>1
<1>4. seen + Word - n = rest + Word /\ rest < Word BY <1>1, <1>2, <1>3
<1>5. (rest + Word) % Word = rest BY <1>1, <1>4
<1> QED BY <1>3, <1>4, <1>5 DEF Rest

LEMMA TakeBooks ==
    ASSUME ServiceInv, ServiceInv', BooksInv, NEW c \in Clients, Take(c) PROVE BooksInv'
<1> DEFINE s == StoreOf[c]
           e == client[c].call.item
           n == client[c].call.amount
           rest == Rest(worker[c].seen, n)
<1>1. /\ worker[c].at = "read" /\ itemStock' = [itemStock EXCEPT ![s][e] = rest]
      /\ taken' = [taken EXCEPT ![c] = taken[c] + n] /\ Works(c, "push")
      /\ UNCHANGED <<orders, client, told, met>>
  BY DEF Take, Doing
<1>2. /\ ShapeOK /\ SharedOK /\ worker[c] = WorkerOf(worker[c]) /\ client[c].at \in {"waiting", "dead"}
      /\ e \in Items /\ worker[c].seen \in Unsigned
  BY <1>1 DEF ServiceInv, PeerOK, ConnectionOK
<1>3. s \in Stores /\ n \in Nat /\ taken[c] \in Nat
  BY <1>2, ServiceAssumption, HeldIsNat DEF ShapeOK
<1>4. (\A d \in Clients \ {c} : worker'[d] = worker[d]) /\ worker'[c].at = "push"
  BY <1>1, <1>2, WorkerMoves
<1>5. taken'[c] = taken[c] + n /\ \A d \in Clients \ {c} : taken'[d] = taken[d]
  <2> HIDE DEF n
  <2> QED BY <1>1, <1>2 DEF ShapeOK
<1>6. Elsewhere(c) BY <1>1, <1>4, <1>5 DEF Elsewhere
<1>7. /\ itemStock'[s][e] = rest
      /\ \A i \in Items \ {e} : itemStock'[s][i] = itemStock[s][i]
      /\ \A r \in Stores \ {s} : itemStock'[r] = itemStock[r]
  <2> HIDE DEF s, e, rest
  <2> QED BY <1>1, <1>2, <1>3 DEF SharedOK
<1>8. ASSUME ~met'[s] PROVE BooksOK(s)'
  <2>1. BooksOK(s) BY <1>1, <1>3, <1>8 DEF BooksInv
  <2>2. Selling(c) /\ ~Selling(c)' BY <1>1, <1>4 DEF Selling
  <2>3. rest + n = itemStock[s][e] /\ rest \in Nat /\ itemStock[s][e] \in Nat
    <3>1. n <= worker[c].seen /\ worker[c].seen = itemStock[s][e]
      BY <1>1, <2>1, <2>2 DEF BooksOK, InHand
    <3>2. rest + n = worker[c].seen BY <1>2, <1>3, <3>1, TakesWhatIsThere
    <3>3. rest \in Unsigned /\ worker[c].seen \in Nat
      <4>1. itemStock'[s][e] \in Unsigned BY <1>2, <1>3 DEF ServiceInv, SharedOK
      <4> QED BY <1>2, <1>7, <4>1 DEF Unsigned
    <3> QED BY <3>1, <3>2, <3>3 DEF Unsigned
  <2>4. Booked(orders[s]) \in Nat BY <1>2, <1>3, BookedIsNat DEF SharedOK
  <2>5. ASSUME NEW d \in Clients \ {c}, StoreOf[d] = s
        PROVE  ~Selling(d)' /\ InHand(d)' /\ Covered(d)' /\ Shows(d)'
    <3>1. ~Selling(d) BY <2>1, <2>2, <2>5 DEF BooksOK, Alone
    <3>2. /\ orders'[s] = orders[s]
          /\ Booked(orders'[s]) \in Nat /\ Booked(orders[s]) <= Booked(orders'[s])
      BY <1>1, <2>4
    <3> QED BY <1>6, <2>1, <2>5, <3>1, <3>2, OthersStay
  <2>6. Alone(s)' BY <2>2, <2>5 DEF Alone
  <2>7. Balanced(s)'
    <3> SUFFICES ASSUME NEW i \in Items
                 PROVE  itemStock'[s][i] + Unbooked(s, i)' + Ledger(i, orders'[s]) = StartStock
      BY DEF Balanced
    <3>1. itemStock[s][i] + Unbooked(s, i) + Ledger(i, orders[s]) = StartStock
      BY <2>1 DEF BooksOK, Balanced
    <3>2. /\ Unbooked(s, i) \in Nat /\ Unbooked(s, i)' \in Nat
          /\ Unbooked(s, i)' + HeldOf(c, s, i) = Unbooked(s, i) + HeldOf(c, s, i)'
      BY <1>6, OnlyOwnHeld, UnbookedChanges
    <3>3. HeldOf(c, s, i) = 0 /\ HeldOf(c, s, i)' = IF e = i THEN n ELSE 0
      BY <1>1, <1>4 DEF HeldOf
    <3>4. Ledger(i, orders[s]) \in Nat BY <1>2, <1>3, LedgerIsNat DEF SharedOK
    <3>5. Ledger(i, orders'[s]) = Ledger(i, orders[s]) BY <1>1
    <3>6. itemStock[s][i] \in Nat
      <4>1. itemStock[s][i] \in Unsigned BY <1>2, <1>3 DEF SharedOK
      <4> QED BY <4>1 DEF Unsigned
    <3> HIDE DEF n, rest, e, s
    <3>7. CASE e = i
      <4>1. Unbooked(s, i)' = Unbooked(s, i) + n BY <1>3, <3>2, <3>3, <3>7
      <4>2. itemStock'[s][i] + n = itemStock[s][i] /\ itemStock'[s][i] \in Nat BY <1>7, <2>3, <3>7
      <4> QED BY <1>3, <3>1, <3>2, <3>4, <3>5, <3>6, <4>1, <4>2
    <3>8. CASE e # i
      <4>1. Unbooked(s, i)' = Unbooked(s, i) BY <3>2, <3>3, <3>8
      <4>2. itemStock'[s][i] = itemStock[s][i] BY <1>7, <3>8
      <4> QED BY <3>1, <3>5, <4>1, <4>2
    <3> QED BY <3>7, <3>8
  <2>8. InHand(c)' BY <1>4, <2>2 DEF InHand
  <2>9. Covered(c)'
    <3>1. Held(c) = 0 /\ Held(c)' = n BY <1>1, <1>4 DEF Held
    <3>2. taken[c] <= Booked(orders[s]) BY <2>1, <2>4, <3>1 DEF BooksOK, Covered
    <3>3. taken[c] + n <= Booked(orders[s]) + n BY <1>3, <2>4, <3>2
    <3> QED BY <1>1, <1>5, <3>1, <3>3 DEF Covered, Booked
  <2>10. Shows(c)' BY <1>1, <1>2, <1>4 DEF Shows
  <2> QED BY <2>5, <2>6, <2>7, <2>8, <2>9, <2>10 DEF BooksOK
<1>9. met' \in [Stores -> BOOLEAN] BY <1>1 DEF BooksInv
<1> HIDE DEF s
<1>10. ~met'[s] => BooksOK(s)' BY <1>8
<1> QED BY <1>1, <1>6, <1>7, <1>9, <1>10, OneStoreMoves DEF s

(* Units pass from what is unbooked to the ledger; an entry is lost only    *)
(* where two orders meet.                                                   *)
LEMMA PushRepliesBooks ==
    ASSUME ServiceInv, ServiceInv', BooksInv, NEW c \in Clients, Push(c), Replies(c, TRUE)
    PROVE  BooksInv'
<1> DEFINE s == StoreOf[c]
           n == client[c].call.amount
           entry == OrderOf(s, client[c].call)
           longer == Append(orders[s], entry)
<1>1. /\ worker[c].at = "pushing" /\ Replies(c, TRUE)
      /\ \/ orders' = [orders EXCEPT ![s] = longer] /\ UNCHANGED met
         \/ met' = [met EXCEPT ![s] = TRUE] /\ UNCHANGED orders
      /\ UNCHANGED <<itemStock, client, taken, told>>
  BY DEF Push, Doing, Result
<1>2. /\ ShapeOK /\ SharedOK /\ worker[c] = WorkerOf(worker[c]) /\ client[c].at \in {"waiting", "dead"}
      /\ client[c].call \in Methods /\ client[c].call.method = "order" /\ client[c].call.item \in Items
  BY <1>1 DEF ServiceInv, PeerOK, ConnectionOK, Asks
<1>3. s \in Stores /\ n \in Nat /\ taken[c] \in Nat
  BY <1>2, ServiceAssumption, HeldIsNat DEF ShapeOK
<1>4. entry \in Order /\ entry.item = client[c].call.item /\ entry.amount = n
  <2>1. entry \in Order BY <1>2, <1>3, EntriesAreOrders
  <2> QED BY <2>1 DEF OrderOf
<1>5. (\A d \in Clients \ {c} : worker'[d] = worker[d]) /\ worker'[c].at = "replied"
  BY <1>1, <1>2, WorkerReplies
<1>6. Elsewhere(c) BY <1>1, <1>5 DEF Elsewhere
<1>7. /\ met' \in [Stores -> BOOLEAN]
      /\ \A r \in Stores \ {s} : met'[r] = met[r] /\ orders'[r] = orders[r]
      /\ ~met'[s] => ~met[s] /\ orders'[s] = longer
  <2> HIDE DEF s, longer
  <2>1. DOMAIN orders = Stores BY <1>2 DEF SharedOK
  <2> QED BY <1>1, <1>3, <2>1 DEF BooksInv
<1>8. ASSUME ~met'[s] PROVE BooksOK(s)'
  <2>1. orders'[s] = longer /\ BooksOK(s) BY <1>3, <1>7, <1>8 DEF BooksInv
  <2>2. orders[s] \in Seq(Order) BY <1>2, <1>3 DEF SharedOK
  <2>3. Booked(orders'[s]) = Booked(orders[s]) + n /\ Booked(orders[s]) \in Nat
    BY <1>4, <2>1, <2>2, BookedGrows, BookedIsNat
  <2>4. ~Selling(c)' BY <1>5 DEF Selling
  <2>5. ASSUME NEW d \in Clients \ {c}, StoreOf[d] = s
        PROVE  (Selling(d)' <=> Selling(d)) /\ InHand(d)' /\ Covered(d)' /\ Shows(d)'
    <3>1. /\ Booked(orders'[s]) \in Nat /\ Booked(orders[s]) <= Booked(orders'[s])
          /\ itemStock'[s] = itemStock[s]
      <4> HIDE DEF n, s
      <4> QED BY <1>1, <1>3, <2>3
    <3> QED BY <1>6, <2>1, <2>5, <3>1, OthersStay
  <2>6. Alone(s)' BY <2>1, <2>4, <2>5 DEF BooksOK, Alone
  <2>7. Balanced(s)'
    <3> SUFFICES ASSUME NEW i \in Items
                 PROVE  itemStock'[s][i] + Unbooked(s, i)' + Ledger(i, orders'[s]) = StartStock
      BY DEF Balanced
    <3> DEFINE units == IF entry.item = i THEN n ELSE 0
    <3>1. itemStock[s][i] + Unbooked(s, i) + Ledger(i, orders[s]) = StartStock
      BY <2>1 DEF BooksOK, Balanced
    <3>2. /\ Unbooked(s, i) \in Nat /\ Unbooked(s, i)' \in Nat
          /\ Unbooked(s, i)' + HeldOf(c, s, i) = Unbooked(s, i) + HeldOf(c, s, i)'
      BY <1>6, OnlyOwnHeld, UnbookedChanges
    <3>3. HeldOf(c, s, i) = units /\ HeldOf(c, s, i)' = 0 BY <1>1, <1>4, <1>5 DEF HeldOf
    <3>4. Ledger(i, orders'[s]) = Ledger(i, orders[s]) + units /\ Ledger(i, orders[s]) \in Nat
      BY <1>4, <2>1, <2>2, LedgerGrows, LedgerIsNat
    <3>5. itemStock[s][i] \in Nat /\ itemStock'[s][i] = itemStock[s][i]
      <4>1. itemStock[s][i] \in Unsigned BY <1>2, <1>3 DEF SharedOK
      <4> QED BY <1>1, <4>1 DEF Unsigned
    <3>6. units \in Nat BY <1>3
    <3> HIDE DEF units, n, s, entry
    <3>7. Unbooked(s, i)' + units = Unbooked(s, i) BY <3>2, <3>3, <3>6
    <3> QED BY <3>1, <3>2, <3>4, <3>5, <3>6, <3>7
  <2>8. InHand(c)' BY <1>5, <2>4 DEF InHand
  <2>9. Covered(c)'
    <3>1. Held(c) = n /\ Held(c)' = 0 BY <1>1, <1>5 DEF Held
    <3>2. taken[c] <= Booked(orders[s]) + n BY <2>1, <3>1 DEF BooksOK, Covered
    <3>3. taken'[c] <= Booked(orders'[s]) + Held(c)'
      <4> HIDE DEF n, s
      <4> QED BY <1>1, <1>3, <2>3, <3>1, <3>2
    <3> QED BY <3>3 DEF Covered, Booked
  <2>10. Shows(c)' BY <1>1, <1>2 DEF Shows, Asks
  <2> QED BY <2>5, <2>6, <2>7, <2>8, <2>9, <2>10 DEF BooksOK
<1> HIDE DEF s
<1>9. ~met'[s] => BooksOK(s)' BY <1>8
<1> QED BY <1>1, <1>6, <1>7, <1>9, OneStoreMoves DEF s

LEMMA PushBooks ==
    ASSUME ServiceInv, ServiceInv', BooksInv, NEW c \in Clients, Push(c) PROVE BooksInv'
<1>1. CASE Replies(c, TRUE) BY <1>1, PushRepliesBooks
<1>2. CASE ~Replies(c, TRUE)
  <2>1. PICK s : s = StoreOf[c] OBVIOUS
  <2>2. /\ Works(c, "failed") /\ met' = [met EXCEPT ![s] = TRUE]
        /\ UNCHANGED <<itemStock, orders, client, taken, told>>
    BY <1>2, <2>1 DEF Push, Result, Fails
  <2>3. ShapeOK /\ worker[c] = WorkerOf(worker[c]) BY DEF ServiceInv, PeerOK, ConnectionOK
  <2>4. \A d \in Clients \ {c} : worker'[d] = worker[d] BY <2>2, <2>3, WorkerMoves
  <2>5. Elsewhere(c) BY <2>2, <2>4 DEF Elsewhere
  <2>6. /\ met' \in [Stores -> BOOLEAN] /\ met'[s]
        /\ \A r \in Stores \ {s} : met'[r] = met[r]
    BY <2>1, <2>2, ServiceAssumption DEF BooksInv
  <2> QED BY <2>1, <2>2, <2>5, <2>6, OneStoreMoves
<1> QED BY <1>1, <1>2

-----------------------------------------------------------------------------
LEMMA UseBooks ==
    ASSUME ServiceInv, BooksInv, NEW c \in Clients, Use(c) PROVE BooksInv'
<1>1. ASSUME NEW call, Sends(c, call) PROVE BooksInv' BY <1>1, SendsBooks
<1>2. ASSUME NEW i \in Asked, send_getPrice(c, i) PROVE BooksInv' BY <1>1, <1>2 DEF send_getPrice
<1>3. ASSUME NEW i \in Asked, NEW n \in Amounts, send_order(c, i, n) PROVE BooksInv'
  BY <1>1, <1>3 DEF send_order
<1>4. ASSUME send_getReceipt(c) PROVE BooksInv' BY <1>1, <1>4 DEF send_getReceipt
<1> QED BY <1>2, <1>3, <1>4, OpenBooks, ReceiveBooks, CloseBooks, ThrowsBooks DEF Use

LEMMA ServeBooks ==
    ASSUME ServiceInv, ServiceInv', BooksInv, NEW c \in Clients, Serve(c) PROVE BooksInv'
<1>1. ASSUME BreaksOff(c) PROVE BooksInv' BY <1>1, EndsBooks DEF BreaksOff
<1> QED BY <1>1, GetPriceBooks, GetReceiptBooks, RefuseBooks, CheckBooks, ReadBooks, TakeBooks,
           BeginPushBooks, PushBooks DEF Serve, process_order

LEMMA BooksInvStep ==
    ASSUME ServiceInv, ServiceInv', BooksInv, [Next]_vars PROVE BooksInv'
<1>1. ASSUME NEW s \in Stores, Exit(s) PROVE BooksInv' BY <1>1, EndsBooks DEF Exit
<1>2. CASE UNCHANGED vars BY <1>2, EndsBooks DEF vars, shared
<1> QED BY <1>1, <1>2, UseBooks, ServeBooks DEF Next

(* As long as no two orders have met at a store, at most one of its threads *)
(* is between the check and the subtraction of StoreHandler::order, what it *)
(* saw is still there, and stock, ledger and receipts fit together.         *)
THEOREM BooksCorrect == Spec => []BooksInv
<1>1. Init => ServiceInv /\ BooksInv BY ServiceInvInit, BooksInvInit
<1>2. ServiceInv /\ BooksInv /\ [Next]_vars => (ServiceInv /\ BooksInv)'
  BY ServiceInvStep, ServiceInvStutter, BooksInvStep
<1>3. Init /\ [][Next]_vars => [](ServiceInv /\ BooksInv) BY <1>1, <1>2, PTL
<1>4. Spec => Init /\ [][Next]_vars BY DEF Spec
<1> QED BY <1>3, <1>4, PTL

(* No unit of the stock is sold twice or lost at a store where no two       *)
(* orders have met: stock, what is about to be booked and the ledger add up *)
(* to the stock at the start, for any number of clients, items and orders.  *)
THEOREM BalanceCorrect == Spec => []BooksBalance
<1>1. BooksInv => BooksBalance BY DEF BooksInv, BooksOK, Balanced, BooksBalance
<1> QED BY <1>1, BooksCorrect, PTL

(* A receipt from such a store shows all that its client was told it        *)
(* bought, or was copied during another client's push.                      *)
THEOREM ReceiptCorrect == Spec => []ReceiptCovers
<1>1. ServiceInv /\ BooksInv => ReceiptCovers
  <2> SUFFICES ASSUME ServiceInv, BooksInv, NEW c \in Clients, ~met[StoreOf[c]],
                      client[c].at = "answered", Asks(c, "getReceipt"), client[c].answer # <<>>
               PROVE  told[c] <= Booked(Head(client[c].answer))
    BY DEF ReceiptCovers, Booked
  <2>1. BooksOK(StoreOf[c]) BY ServiceAssumption DEF BooksInv
  <2>2. told[c] <= Booked(client[c].answer[1]) BY <2>1 DEF BooksOK, Shows
  <2>3. client[c].answer = <<client[c].answer[1]>>
    BY DEF ServiceInv, PeerOK, ConnectionOK, ResultOf
  <2>4. Head(client[c].answer) = client[c].answer[1] BY <2>3
  <2> QED BY <2>2, <2>4
<1> QED BY <1>1, ServiceCorrect, BooksCorrect, PTL

-----------------------------------------------------------------------------
(* The counter.  What Counter sees of the stores and of a connection.       *)
Opened == [s \in Stores |-> ~met[s]]
Shelf == [s \in Stores |-> IF met[s] THEN <<>> ELSE itemStock[s]]
Book == [s \in Stores |-> IF met[s] THEN <<>> ELSE orders[s]]
Desks == [c \in Clients |-> AtDesk(c)]

DeskOf(spoilt, cl, wk) ==
    LET Place(at, paper) == [at |-> at, call |-> cl.call, paper |-> paper]
    IN  IF spoilt \/ cl.call.method = "getPrice" THEN Promise!Nobody
        ELSE CASE wk.at \in {"checked", "read"} -> Place("asks", <<>>)
               [] wk.at = "reading" /\ cl.at = "waiting" -> Place("asks", <<>>)
               [] wk.at \in {"push", "pushing"} -> Place("sold", <<>>)
               [] wk.at = "replied" /\ cl.call.method = "order" ->
                     Place(IF wk.reply = <<TRUE>> THEN "yes" ELSE "no", <<>>)
               [] wk.at = "replied" /\ cl.call.method = "getReceipt" -> Place("receipt", wk.reply)
               [] OTHER -> Promise!Nobody

LEMMA DeskIs ==
    ASSUME NEW c
    PROVE  /\ AtDesk(c) = DeskOf(met[StoreOf[c]], client[c], worker[c])
           /\ AtDesk(c)' = DeskOf(met'[StoreOf[c]], client'[c], worker'[c])
BY DEF AtDesk, DeskOf, Asks, Promise!Nobody, Promise!Desk

LEMMA DeskFree ==
    ASSUME NEW spoilt, NEW cl, NEW wk,
           \/ spoilt \/ cl.call.method = "getPrice"
           \/ wk.at \in {"none", "failed"} \/ (wk.at = "reading" /\ cl.at # "waiting")
    PROVE  DeskOf(spoilt, cl, wk) = Promise!Nobody
BY DEF DeskOf

LEMMA DeskAsks ==
    ASSUME NEW spoilt, NEW cl, NEW wk, ~spoilt, cl.call.method # "getPrice",
           wk.at \in {"checked", "read"} \/ (wk.at = "reading" /\ cl.at = "waiting")
    PROVE  DeskOf(spoilt, cl, wk) = Promise!Desk("asks", cl.call, <<>>)
BY DEF DeskOf, Promise!Desk

LEMMA DeskSold ==
    ASSUME NEW spoilt, NEW cl, NEW wk, ~spoilt, cl.call.method # "getPrice",
           wk.at \in {"push", "pushing"}
    PROVE  DeskOf(spoilt, cl, wk) = Promise!Desk("sold", cl.call, <<>>)
BY DEF DeskOf, Promise!Desk

LEMMA DeskAnswers ==
    ASSUME NEW spoilt, NEW cl, NEW wk, ~spoilt, wk.at = "replied"
    PROVE  /\ cl.call.method = "order" =>
                 DeskOf(spoilt, cl, wk) =
                     Promise!Desk(IF wk.reply = <<TRUE>> THEN "yes" ELSE "no", cl.call, <<>>)
           /\ cl.call.method = "getReceipt" =>
                 DeskOf(spoilt, cl, wk) = Promise!Desk("receipt", cl.call, wk.reply)
BY DEF DeskOf, Promise!Desk

(* What the clients that a step is not about see at the counter.            *)
LEMMA OtherDesks ==
    ASSUME NEW c \in Clients, Elsewhere(c), NEW d \in Clients \ {c}, met'[StoreOf[d]] = met[StoreOf[d]]
    PROVE  AtDesk(d)' = AtDesk(d)
<1>1. client'[d] = client[d] /\ worker'[d] = worker[d] BY DEF Elsewhere
<1> QED BY <1>1, DeskIs

LEMMA DesksMove ==
    ASSUME NEW c \in Clients, Elsewhere(c), UNCHANGED met
    PROVE  Desks' = [Desks EXCEPT ![c] = AtDesk(c)']
<1>1. PICK new : new = AtDesk(c)' OBVIOUS
<1>2. PICK f : f = Desks' OBVIOUS
<1>3. f = [d \in Clients |-> AtDesk(d)'] BY <1>2 DEF Desks
<1>4. DOMAIN f = Clients /\ f[c] = new BY <1>1, <1>3
<1>5. ASSUME NEW d \in Clients \ {c} PROVE f[d] = AtDesk(d) BY <1>3, OtherDesks
<1>6. f = [[d \in Clients |-> AtDesk(d)] EXCEPT ![c] = new] BY <1>3, <1>4, <1>5
<1> QED BY <1>1, <1>2, <1>6 DEF Desks

(* The steps the counter does not see.                                      *)
LEMMA CounterStays ==
    ASSUME Opened' = Opened, Shelf' = Shelf, Book' = Book, Desks' = Desks
    PROVE  UNCHANGED Promise!vars
BY DEF Promise!vars, Opened, Shelf, Book, Desks

LEMMA SpoiltStays ==
    ASSUME NEW c \in Clients, Elsewhere(c), UNCHANGED met, met[StoreOf[c]],
           \A s \in Stores \ {StoreOf[c]} : itemStock'[s] = itemStock[s] /\ orders'[s] = orders[s]
    PROVE  UNCHANGED Promise!vars
<1>1. AtDesk(c)' = AtDesk(c)
  <2>1. ASSUME NEW cl, NEW wk PROVE DeskOf(met[StoreOf[c]], cl, wk) = Promise!Nobody BY DEF DeskOf
  <2>2. AtDesk(c)' = Promise!Nobody
    <3>1. PICK cl, wk : cl = client'[c] /\ wk = worker'[c] OBVIOUS
    <3>2. AtDesk(c)' = DeskOf(met[StoreOf[c]], cl, wk) BY <3>1, DeskIs
    <3> QED BY <2>1, <3>2
  <2>3. AtDesk(c) = Promise!Nobody
    <3>1. PICK cl, wk : cl = client[c] /\ wk = worker[c] OBVIOUS
    <3>2. AtDesk(c) = DeskOf(met[StoreOf[c]], cl, wk) BY <3>1, DeskIs
    <3> QED BY <2>1, <3>2
  <2> QED BY <2>2, <2>3
<1>2. Desks' = Desks
  <2>1. Desks' = [Desks EXCEPT ![c] = AtDesk(c)] BY <1>1, DesksMove
  <2>2. Desks = [Desks EXCEPT ![c] = AtDesk(c)] BY DEF Desks
  <2> QED BY <2>1, <2>2
<1>3. Opened' = Opened BY DEF Opened
<1>4. Shelf' = Shelf BY DEF Shelf
<1>5. Book' = Book BY DEF Book
<1> QED BY <1>2, <1>3, <1>4, <1>5, CounterStays

(* A step that leaves stock and ledgers alone: c asks, leaves, or stays.    *)
LEMMA DeskSteps ==
    ASSUME NEW c \in Clients, Elsewhere(c), UNCHANGED <<itemStock, orders, met>>,
           NEW old, NEW new, old = AtDesk(c), new = AtDesk(c)',
           \/ new = old
           \/ \E call \in Methods :
                 ~met[StoreOf[c]] /\ old = Promise!Nobody /\ new = Promise!Desk("asks", call, <<>>)
           \/ old.at \in {"asks", "yes", "no", "receipt"} /\ new = Promise!Nobody
    PROVE  [Promise!Next]_(Promise!vars)
<1>1. Opened' = Opened /\ Shelf' = Shelf /\ Book' = Book BY DEF Opened, Shelf, Book
<1>2. Desks' = [Desks EXCEPT ![c] = new] /\ Desks[c] = old BY DesksMove DEF Desks
<1>3. CASE new = old
  <2>1. Desks = [Desks EXCEPT ![c] = new] BY <1>3 DEF Desks
  <2>2. UNCHANGED Promise!vars BY <1>1, <1>2, <2>1, CounterStays
  <2> QED BY <2>2
<1>4. ASSUME NEW call \in Methods, ~met[StoreOf[c]],
             old = Promise!Nobody, new = Promise!Desk("asks", call, <<>>)
      PROVE  Promise!Ask(c, call)
  <2>1. Opened[StoreOf[c]] BY <1>4, ServiceAssumption DEF Opened
  <2> QED BY <1>1, <1>2, <1>4, <2>1 DEF Promise!Ask, Opened, Shelf, Book, Desks
<1>5. ASSUME old.at \in {"asks", "yes", "no", "receipt"}, new = Promise!Nobody
      PROVE  Promise!Leave(c)
  BY <1>1, <1>2, <1>5 DEF Promise!Leave, Opened, Shelf, Book, Desks
<1> QED BY <1>3, <1>4, <1>5 DEF Promise!Next

-----------------------------------------------------------------------------
(* What each step is to the counter.                                        *)

(* A connection nobody waits at, before and after.                          *)
LEMMA FreeStays ==
    ASSUME NEW c \in Clients, Elsewhere(c), UNCHANGED <<itemStock, orders, met>>,
           AtDesk(c) = Promise!Nobody, AtDesk(c)' = Promise!Nobody
    PROVE  [Promise!Next]_(Promise!vars)
BY DeskSteps

LEMMA FreeDesk ==
    ASSUME NEW c, worker[c].at \in {"none", "failed"} \/ (worker[c].at = "reading" /\ client[c].at # "waiting")
    PROVE  AtDesk(c) = Promise!Nobody
<1>1. PICK b, cl, wk : b = met[StoreOf[c]] /\ cl = client[c] /\ wk = worker[c] OBVIOUS
<1> QED BY <1>1, DeskIs, DeskFree

LEMMA FreeDeskNext ==
    ASSUME NEW c, worker'[c].at \in {"none", "failed"} \/ (worker'[c].at = "reading" /\ client'[c].at # "waiting")
    PROVE  AtDesk(c)' = Promise!Nobody
<1>1. PICK b, cl, wk : b = met'[StoreOf[c]] /\ cl = client'[c] /\ wk = worker'[c] OBVIOUS
<1> QED BY <1>1, DeskIs, DeskFree

LEMMA OpenCounter ==
    ASSUME ServiceInv, NEW c \in Clients, Open(c) PROVE [Promise!Next]_(Promise!vars)
<1> USE DEF ServiceInv, PeerOK
<1>1. /\ client[c].at = "closed" /\ client' = [client EXCEPT ![c].at = "open"] /\ Works(c, "reading")
      /\ UNCHANGED <<itemStock, orders, met, taken, told>>
  BY DEF Open, shared
<1>2. ShapeOK /\ client[c] = ClientOf(client[c]) /\ worker[c] = WorkerOf(worker[c]) /\ worker[c].at = "none"
  BY <1>1 DEF ConnectionOK
<1>3. (\A d \in Clients \ {c} : client'[d] = client[d]) /\ client'[c].at = "open"
  <2>1. PICK x : x = "open" OBVIOUS
  <2>2. client' = [client EXCEPT ![c].at = x] BY <1>1, <2>1
  <2> QED BY <1>2, <2>1, <2>2, ClientMoves
<1>4. (\A d \in Clients \ {c} : worker'[d] = worker[d]) /\ worker'[c].at = "reading"
  BY <1>1, <1>2, WorkerMoves
<1>5. Elsewhere(c) BY <1>1, <1>3, <1>4 DEF Elsewhere
<1>6. AtDesk(c) = Promise!Nobody /\ AtDesk(c)' = Promise!Nobody
  BY <1>2, <1>3, <1>4, FreeDesk, FreeDeskNext
<1> HIDE DEF ServiceInv, PeerOK
<1> QED BY <1>1, <1>5, <1>6, FreeStays

LEMMA SendsCounter ==
    ASSUME ServiceInv, NEW c \in Clients, NEW call \in Methods, Sends(c, call)
    PROVE  [Promise!Next]_(Promise!vars)
<1>1. /\ client[c].at = "open"
      /\ client' = [client EXCEPT ![c] = [at |-> "waiting", call |-> call, answer |-> <<>>]]
      /\ UNCHANGED <<itemStock, orders, worker, met, taken, told>>
  BY DEF Sends, shared
<1>2. ShapeOK /\ worker[c].at = "reading" BY <1>1 DEF ServiceInv, PeerOK, ConnectionOK
<1>3. /\ \A d \in Clients \ {c} : client'[d] = client[d]
      /\ client'[c].at = "waiting" /\ client'[c].call = call
  BY <1>1, <1>2 DEF ShapeOK
<1>4. Elsewhere(c) BY <1>1, <1>3 DEF Elsewhere
<1>5. AtDesk(c) = Promise!Nobody BY <1>1, <1>2, FreeDesk
<1>6. PICK b, cl, wk, new :
          b = met[StoreOf[c]] /\ cl = client'[c] /\ wk = worker'[c] /\ new = AtDesk(c)'
  OBVIOUS
<1>7. new = DeskOf(b, cl, wk) BY <1>1, <1>6, DeskIs
<1>8. wk.at = "reading" /\ cl.at = "waiting" /\ cl.call = call BY <1>1, <1>2, <1>3, <1>6
<1>9. CASE b \/ call.method = "getPrice"
  <2>1. new = Promise!Nobody BY <1>7, <1>8, <1>9, DeskFree
  <2> QED BY <1>1, <1>4, <1>5, <1>6, <2>1, FreeStays
<1>10. CASE ~b /\ call.method # "getPrice"
  <2>1. new = Promise!Desk("asks", call, <<>>) BY <1>7, <1>8, <1>10, DeskAsks
  <2>2. ~met[StoreOf[c]] BY <1>6, <1>10
  <2> QED BY <1>1, <1>4, <1>5, <1>6, <2>1, <2>2, DeskSteps
<1> QED BY <1>9, <1>10

(* The answer, or the exception, ends a call.                               *)
LEMMA HearsCounter ==
    ASSUME ServiceInv, NEW c \in Clients, NEW m, Hears(c, m),
           \A d \in Clients \ {c} : told'[d] = told[d]
    PROVE  [Promise!Next]_(Promise!vars)
<1>1. UNCHANGED <<itemStock, orders, met>> BY DEF Hears, shared
<1>2. /\ \A d \in Clients \ {c} : client'[d] = client[d] /\ worker'[d] = worker[d]
      /\ worker[c].at = "replied" /\ worker'[c].at = "reading"
      /\ client'[c].at = "answered" /\ UNCHANGED taken
  BY HearsMoves
<1>3. client[c].call \in Methods BY DEF ServiceInv, PeerOK, ConnectionOK
<1>4. Elsewhere(c) BY <1>2 DEF Elsewhere
<1>5. AtDesk(c)' = Promise!Nobody BY <1>2, FreeDeskNext
<1>6. PICK b, cl, wk, old :
          b = met[StoreOf[c]] /\ cl = client[c] /\ wk = worker[c] /\ old = AtDesk(c)
  OBVIOUS
<1>7. old = DeskOf(b, cl, wk) /\ wk.at = "replied" BY <1>2, <1>6, DeskIs
<1>8. CASE b \/ cl.call.method = "getPrice"
  <2>1. old = Promise!Nobody BY <1>7, <1>8, DeskFree
  <2> QED BY <1>1, <1>4, <1>5, <1>6, <2>1, FreeStays
<1>9. CASE ~b /\ cl.call.method \in {"order", "getReceipt"}
  <2>1. old.at \in {"asks", "yes", "no", "receipt"}
    <3>1. CASE cl.call.method = "order"
      <4>1. old = Promise!Desk(IF wk.reply = <<TRUE>> THEN "yes" ELSE "no", cl.call, <<>>)
        BY <1>7, <1>9, <3>1, DeskAnswers
      <4> QED BY <4>1 DEF Promise!Desk
    <3>2. CASE cl.call.method = "getReceipt"
      <4>1. old = Promise!Desk("receipt", cl.call, wk.reply) BY <1>7, <1>9, <3>2, DeskAnswers
      <4> QED BY <4>1 DEF Promise!Desk
    <3> QED BY <1>9, <3>1, <3>2
  <2> QED BY <1>1, <1>4, <1>5, <1>6, <2>1, DeskSteps
<1>10. cl.call.method \in {"getPrice", "getReceipt", "order"} BY <1>3, <1>6, CallsAreTyped
<1> QED BY <1>8, <1>9, <1>10

LEMMA ReceiveCounter ==
    ASSUME ServiceInv, NEW c \in Clients, Receive(c) PROVE [Promise!Next]_(Promise!vars)
<1>1. ASSUME NEW m, Hears(c, m), UNCHANGED told PROVE [Promise!Next]_(Promise!vars)
  BY <1>1, HearsCounter
<1>2. ASSUME recv_order(c) PROVE [Promise!Next]_(Promise!vars)
  <2>1. PICK m : m = "order" OBVIOUS
  <2>2. Hears(c, m) BY <1>2, <2>1 DEF recv_order
  <2>3. PICK n : told' = [told EXCEPT ![c] = n] BY <1>2 DEF recv_order
  <2>4. \A d \in Clients \ {c} : told'[d] = told[d] BY <2>3 DEF ServiceInv, ShapeOK
  <2> QED BY <2>2, <2>4, HearsCounter
<1> QED BY <1>1, <1>2 DEF Receive, recv_getPrice, recv_getReceipt

LEMMA CloseCounter ==
    ASSUME ServiceInv, NEW c \in Clients, Close(c) PROVE [Promise!Next]_(Promise!vars)
<1>1. /\ client[c].at = "answered" /\ client' = [client EXCEPT ![c] = Closed]
      /\ worker' = [worker EXCEPT ![c] = NoWorker]
      /\ UNCHANGED <<itemStock, orders, met, taken, told>>
  BY DEF Close, shared
<1>2. ShapeOK /\ worker[c].at = "reading" BY <1>1 DEF ServiceInv, PeerOK, ConnectionOK
<1>3. /\ \A d \in Clients \ {c} : client'[d] = client[d] /\ worker'[d] = worker[d]
      /\ worker'[c].at = "none"
  BY <1>1, <1>2 DEF ShapeOK, NoWorker
<1>4. Elsewhere(c) BY <1>1, <1>3 DEF Elsewhere
<1>5. AtDesk(c) = Promise!Nobody BY <1>1, <1>2, FreeDesk
<1>6. AtDesk(c)' = Promise!Nobody BY <1>3, FreeDeskNext
<1> QED BY <1>1, <1>4, <1>5, <1>6, FreeStays

LEMMA ThrowsCounter ==
    ASSUME ServiceInv, NEW c \in Clients, Throws(c) PROVE [Promise!Next]_(Promise!vars)
<1>1. /\ client[c].at \in {"closed", "open", "waiting"}
      /\ client[c].at = "waiting" => worker[c].at # "replied"
      /\ client' = [client EXCEPT ![c].at = "dead"]
      /\ UNCHANGED <<itemStock, orders, worker, met, taken, told>>
  BY DEF Throws, shared
<1>2. ShapeOK /\ client[c] = ClientOf(client[c]) BY DEF ServiceInv, PeerOK, ConnectionOK
<1>3. /\ \A d \in Clients \ {c} : client'[d] = client[d]
      /\ client'[c].at = "dead" /\ client'[c].call = client[c].call
  <2>1. PICK x : x = "dead" OBVIOUS
  <2>2. client' = [client EXCEPT ![c].at = x] BY <1>1, <2>1
  <2> QED BY <1>2, <2>1, <2>2, ClientMoves
<1>4. Elsewhere(c) BY <1>1, <1>3 DEF Elsewhere
<1>5. CASE worker[c].at \in {"none", "reading"}
  <2>1. AtDesk(c)' = Promise!Nobody BY <1>1, <1>3, <1>5, FreeDeskNext
  <2>2. CASE worker[c].at = "none" \/ client[c].at # "waiting"
    <3>1. AtDesk(c) = Promise!Nobody BY <1>5, <2>2, FreeDesk
    <3> QED BY <1>1, <1>4, <2>1, <3>1, FreeStays
  <2>3. CASE worker[c].at = "reading" /\ client[c].at = "waiting"
    <3>1. PICK b, cl, wk, old :
              b = met[StoreOf[c]] /\ cl = client[c] /\ wk = worker[c] /\ old = AtDesk(c)
      OBVIOUS
    <3>2. old = DeskOf(b, cl, wk) /\ wk.at = "reading" /\ cl.at = "waiting" BY <2>3, <3>1, DeskIs
    <3>3. CASE b \/ cl.call.method = "getPrice"
      <4>1. old = Promise!Nobody BY <3>2, <3>3, DeskFree
      <4> QED BY <1>1, <1>4, <2>1, <3>1, <4>1, FreeStays
    <3>4. CASE ~b /\ cl.call.method # "getPrice"
      <4>1. old = Promise!Desk("asks", cl.call, <<>>) BY <3>2, <3>4, DeskAsks
      <4>2. old.at = "asks" BY <4>1 DEF Promise!Desk
      <4> QED BY <1>1, <1>4, <2>1, <3>1, <4>2, DeskSteps
    <3> QED BY <3>3, <3>4
  <2> QED BY <1>5, <2>2, <2>3
<1>6. CASE worker[c].at \in {"checked", "read", "push", "pushing"}
  <2>1. PICK b, cl, wk, next :
            b = met[StoreOf[c]] /\ cl = client[c] /\ wk = worker[c] /\ next = client'[c]
    OBVIOUS
  <2>2. AtDesk(c) = DeskOf(b, cl, wk) /\ AtDesk(c)' = DeskOf(b, next, wk) BY <1>1, <2>1, DeskIs
  <2>3. next.call = cl.call /\ wk.at \in {"checked", "read", "push", "pushing"} BY <1>3, <1>6, <2>1
  <2>4. DeskOf(b, next, wk) = DeskOf(b, cl, wk) BY <2>3 DEF DeskOf
  <2>5. AtDesk(c)' = AtDesk(c) BY <2>2, <2>4
  <2> QED BY <1>1, <1>4, <2>5, DeskSteps
<1>7. CASE worker[c].at = "failed"
  <2>1. AtDesk(c) = Promise!Nobody /\ AtDesk(c)' = Promise!Nobody
    BY <1>1, <1>7, FreeDesk, FreeDeskNext
  <2> QED BY <1>1, <1>4, <2>1, FreeStays
<1>8. worker[c].at \in {"none", "reading", "checked", "read", "push", "pushing", "failed"}
  BY <1>1 DEF ServiceInv, PeerOK, ConnectionOK
<1> QED BY <1>5, <1>6, <1>7, <1>8

(* Two orders meet at the store of c.                                       *)
LEMMA StoreSpoils ==
    ASSUME NEW c \in Clients, Elsewhere(c), NEW s \in Stores, s = StoreOf[c],
           met \in [Stores -> BOOLEAN], ~met[s], met' = [met EXCEPT ![s] = TRUE],
           UNCHANGED <<itemStock, orders>>
    PROVE  [Promise!Next]_(Promise!vars)
<1>1. met'[s] = TRUE /\ \A r \in Stores \ {s} : met'[r] = met[r] OBVIOUS
<1>2. Opened' = [Opened EXCEPT ![s] = FALSE] /\ Opened[s] BY <1>1 DEF Opened
<1>3. Shelf' = [Shelf EXCEPT ![s] = <<>>] BY <1>1 DEF Shelf
<1>4. Book' = [Book EXCEPT ![s] = <<>>] BY <1>1 DEF Book
<1>5. Desks' = [d \in Clients |-> IF StoreOf[d] = s THEN Promise!Nobody ELSE Desks[d]]
  <2>1. ASSUME NEW d \in Clients, StoreOf[d] = s PROVE AtDesk(d)' = Promise!Nobody
    <3>1. PICK b, cl, wk : b = met'[StoreOf[d]] /\ cl = client'[d] /\ wk = worker'[d] OBVIOUS
    <3>2. b BY <1>1, <2>1, <3>1
    <3>3. AtDesk(d)' = DeskOf(b, cl, wk) BY <3>1, DeskIs
    <3> QED BY <3>2, <3>3, DeskFree
  <2>2. ASSUME NEW d \in Clients, StoreOf[d] # s PROVE AtDesk(d)' = AtDesk(d)
    <3>1. StoreOf[d] \in Stores /\ d # c BY <2>2, ServiceAssumption
    <3> QED BY <1>1, <2>2, <3>1, OtherDesks
  <2> QED BY <2>1, <2>2 DEF Desks
<1>6. Promise!Spoil(s)
  BY <1>2, <1>3, <1>4, <1>5 DEF Promise!Spoil, Opened, Shelf, Book, Desks
<1> QED BY <1>6 DEF Promise!Next

LEMMA NothingServed ==
    ASSUME UNCHANGED <<itemStock, orders, client, worker, taken, told, met>>
    PROVE  UNCHANGED Promise!vars
<1>1. Opened' = Opened /\ Shelf' = Shelf /\ Book' = Book BY DEF Opened, Shelf, Book
<1>2. ASSUME NEW c \in Clients PROVE AtDesk(c)' = AtDesk(c) BY DeskIs
<1>3. Desks' = Desks BY <1>2 DEF Desks
<1> QED BY <1>1, <1>3, CounterStays

LEMMA GetPriceCounter ==
    ASSUME ServiceInv, NEW c \in Clients, process_getPrice(c) PROVE [Promise!Next]_(Promise!vars)
<1>1. PICK x : x = getPrice(StoreOf[c], client[c].call.item) OBVIOUS
<1>2. /\ client[c].call.method = "getPrice" /\ Replies(c, x)
      /\ UNCHANGED <<itemStock, orders, client, taken, told, met>>
  BY <1>1 DEF process_getPrice, HasRead, Asks, shared
<1>3. ShapeOK /\ worker[c] = WorkerOf(worker[c]) BY DEF ServiceInv, PeerOK, ConnectionOK
<1>4. \A d \in Clients \ {c} : worker'[d] = worker[d] BY <1>2, <1>3, WorkerReplies
<1>5. Elsewhere(c) BY <1>2, <1>4 DEF Elsewhere
<1>6. PICK b, cl, wk, next :
          b = met[StoreOf[c]] /\ cl = client[c] /\ wk = worker[c] /\ next = worker'[c]
  OBVIOUS
<1>7. AtDesk(c) = DeskOf(b, cl, wk) /\ AtDesk(c)' = DeskOf(b, cl, next) BY <1>2, <1>6, DeskIs
<1>8. DeskOf(b, cl, wk) = Promise!Nobody /\ DeskOf(b, cl, next) = Promise!Nobody
  BY <1>2, <1>6, DeskFree
<1>9. AtDesk(c) = Promise!Nobody /\ AtDesk(c)' = Promise!Nobody BY <1>7, <1>8
<1> QED BY <1>2, <1>5, <1>9, FreeStays

(* Whoever pushes at a store that is not spoilt has sold at the counter.    *)
LEMMA PushersHaveSold ==
    ASSUME ServiceInv, NEW c \in Clients, ~met[StoreOf[c]], Pushing(c)
    PROVE  \E d \in Clients \ {c} : StoreOf[d] = StoreOf[c] /\ Desks[d].at = "sold"
<1>1. PICK d \in Clients \ {c} : StoreOf[d] = StoreOf[c] /\ worker[d].at = "pushing"
  BY DEF Pushing, Others
<1>2. client[d].call.method = "order" BY <1>1 DEF ServiceInv, PeerOK, ConnectionOK, Asks
<1>3. PICK b, cl, wk : b = met[StoreOf[d]] /\ cl = client[d] /\ wk = worker[d] OBVIOUS
<1>4. ~b /\ cl.call.method # "getPrice" /\ wk.at \in {"push", "pushing"} BY <1>1, <1>2, <1>3
<1>5. DeskOf(b, cl, wk) = Promise!Desk("sold", cl.call, <<>>) BY <1>4, DeskSold
<1>6. Desks[d] = Promise!Desk("sold", cl.call, <<>>) BY <1>3, <1>5, DeskIs DEF Desks
<1>7. Desks[d].at = "sold" BY <1>6 DEF Promise!Desk
<1> QED BY <1>1, <1>7

LEMMA GarblesCounter ==
    ASSUME ServiceInv, NEW c \in Clients, HasRead(c, "getReceipt"), Garbles(c),
           UNCHANGED <<shared, client, taken, told, met>>
    PROVE  [Promise!Next]_(Promise!vars)
<1>1. /\ worker[c].at = "reading" /\ client[c].at = "waiting"
      /\ client[c].call.method = "getReceipt"
      /\ UNCHANGED <<itemStock, orders, client, taken, told, met>>
  BY DEF HasRead, Doing, Asks, shared
<1>2. ShapeOK /\ worker[c] = WorkerOf(worker[c]) BY DEF ServiceInv, PeerOK, ConnectionOK
<1>3. /\ \A d \in Clients \ {c} : worker'[d] = worker[d]
      /\ worker'[c].at = "replied" /\ worker'[c].reply = <<>>
  BY <1>2, WorkerGarbles
<1>4. Elsewhere(c) BY <1>1, <1>3 DEF Elsewhere
<1>5. CASE met[StoreOf[c]]
  <2>1. UNCHANGED Promise!vars BY <1>1, <1>4, <1>5, SpoiltStays
  <2> QED BY <2>1
<1>6. CASE ~met[StoreOf[c]]
  <2>1. PICK b, cl, wk, next :
            b = met[StoreOf[c]] /\ cl = client[c] /\ wk = worker[c] /\ next = worker'[c]
    OBVIOUS
  <2>2. AtDesk(c) = DeskOf(b, cl, wk) /\ AtDesk(c)' = DeskOf(b, cl, next) BY <1>1, <2>1, DeskIs
  <2>3. DeskOf(b, cl, wk) = Promise!Desk("asks", cl.call, <<>>) BY <1>1, <1>6, <2>1, DeskAsks
  <2>4. DeskOf(b, cl, next) = Promise!Desk("receipt", cl.call, <<>>)
    <3>1. next.at = "replied" /\ cl.call.method = "getReceipt" /\ ~b /\ next.reply = <<>>
      BY <1>1, <1>3, <1>6, <2>1
    <3>2. DeskOf(b, cl, next) = Promise!Desk("receipt", cl.call, next.reply)
      BY <3>1, DeskAnswers
    <3> QED BY <3>1, <3>2
  <2>5. Desks[c] = Promise!Desk("asks", cl.call, <<>>) BY <2>2, <2>3 DEF Desks
  <2>6. Desks' = [Desks EXCEPT ![c] = Promise!Desk("receipt", cl.call, <<>>)]
    BY <1>1, <1>4, <2>2, <2>4, DesksMove
  <2>7. Opened' = Opened /\ Shelf' = Shelf /\ Book' = Book BY <1>1 DEF Opened, Shelf, Book
  <2>8. \E d \in Clients \ {c} : StoreOf[d] = StoreOf[c] /\ Desks[d].at = "sold"
    BY <1>6, PushersHaveSold DEF Garbles
  <2>9. Promise!Garble(c)
    <3>1. Desks[c].at = "asks" /\ Desks[c].call = cl.call BY <2>5 DEF Promise!Desk
    <3>2. cl.call.method = "getReceipt" BY <1>1, <2>1
    <3> QED BY <2>6, <2>7, <2>8, <3>1, <3>2
            DEF Promise!Garble, Promise!Entering, Promise!Now, Opened, Shelf, Book, Desks
  <2> QED BY <2>9 DEF Promise!Next
<1> QED BY <1>5, <1>6

(* The handler of a receipt throws: its client leaves the counter.          *)
LEMMA FailsCounter ==
    ASSUME ServiceInv, NEW c \in Clients, HasRead(c, "getReceipt"), Fails(c),
           UNCHANGED <<shared, client, taken, told, met>>
    PROVE  [Promise!Next]_(Promise!vars)
<1>1. /\ worker[c].at = "reading" /\ client[c].at = "waiting"
      /\ client[c].call.method = "getReceipt"
      /\ UNCHANGED <<itemStock, orders, client, taken, told, met>>
  BY DEF HasRead, Doing, Asks, shared
<1>2. ShapeOK /\ worker[c] = WorkerOf(worker[c]) BY DEF ServiceInv, PeerOK, ConnectionOK
<1>3. (\A d \in Clients \ {c} : worker'[d] = worker[d]) /\ worker'[c].at = "failed"
  BY <1>2, WorkerMoves DEF Fails
<1>4. Elsewhere(c) BY <1>1, <1>3 DEF Elsewhere
<1>5. AtDesk(c)' = Promise!Nobody BY <1>3, FreeDeskNext
<1>6. PICK b, cl, wk, old :
          b = met[StoreOf[c]] /\ cl = client[c] /\ wk = worker[c] /\ old = AtDesk(c)
  OBVIOUS
<1>7. old = DeskOf(b, cl, wk) BY <1>6, DeskIs
<1>8. CASE b
  <2>1. old = Promise!Nobody BY <1>7, <1>8, DeskFree
  <2> QED BY <1>1, <1>4, <1>5, <1>6, <2>1, FreeStays
<1>9. CASE ~b
  <2>1. old = Promise!Desk("asks", cl.call, <<>>) BY <1>1, <1>6, <1>7, <1>9, DeskAsks
  <2>2. old.at = "asks" BY <2>1 DEF Promise!Desk
  <2> QED BY <1>1, <1>4, <1>5, <1>6, <2>2, DeskSteps
<1> QED BY <1>8, <1>9

(* A receipt is the ledger as it is, unless it is copied during a push.     *)
LEMMA GetReceiptCounter ==
    ASSUME ServiceInv, NEW c \in Clients, process_getReceipt(c) PROVE [Promise!Next]_(Promise!vars)
<1>1. PICK x, s : x = orders[StoreOf[c]] /\ s = StoreOf[c] OBVIOUS
<1>2. CASE BreaksOff(c)
  <2>1. UNCHANGED Promise!vars BY <1>2, NothingServed DEF BreaksOff
  <2> QED BY <2>1
<1>3. CASE Replies(c, x) /\ UNCHANGED <<shared, client, taken, told, met>>
  <2>1. /\ worker[c].at = "reading" /\ client[c].at = "waiting"
        /\ client[c].call.method = "getReceipt"
        /\ UNCHANGED <<itemStock, orders, client, taken, told, met>>
    BY <1>3 DEF process_getReceipt, HasRead, Doing, Asks, shared
  <2>2. ShapeOK /\ worker[c] = WorkerOf(worker[c]) BY DEF ServiceInv, PeerOK, ConnectionOK
  <2>3. /\ \A d \in Clients \ {c} : worker'[d] = worker[d]
        /\ worker'[c].at = "replied" /\ worker'[c].reply = <<x>>
    BY <1>3, <2>2, WorkerReplies
  <2>4. Elsewhere(c) BY <2>1, <2>3 DEF Elsewhere
  <2>5. CASE met[StoreOf[c]]
    <3>1. UNCHANGED Promise!vars BY <2>1, <2>4, <2>5, SpoiltStays
    <3> QED BY <3>1
  <2>6. CASE ~met[StoreOf[c]]
    <3>1. PICK b, cl, wk, next :
              b = met[StoreOf[c]] /\ cl = client[c] /\ wk = worker[c] /\ next = worker'[c]
      OBVIOUS
    <3>2. AtDesk(c) = DeskOf(b, cl, wk) /\ AtDesk(c)' = DeskOf(b, cl, next) BY <2>1, <3>1, DeskIs
    <3>3. DeskOf(b, cl, wk) = Promise!Desk("asks", cl.call, <<>>)
      BY <2>1, <2>6, <3>1, DeskAsks
    <3>4. DeskOf(b, cl, next) = Promise!Desk("receipt", cl.call, <<x>>)
      <4>1. next.at = "replied" /\ cl.call.method = "getReceipt" /\ ~b /\ next.reply = <<x>>
        BY <2>1, <2>3, <2>6, <3>1
      <4>2. DeskOf(b, cl, next) = Promise!Desk("receipt", cl.call, next.reply)
        BY <4>1, DeskAnswers
      <4> QED BY <4>1, <4>2
    <3>5. Desks[c] = Promise!Desk("asks", cl.call, <<>>) BY <3>2, <3>3 DEF Desks
    <3>6. Desks' = [Desks EXCEPT ![c] = Promise!Desk("receipt", cl.call, <<x>>)]
      BY <2>1, <2>4, <3>2, <3>4, DesksMove
    <3>7. Opened' = Opened /\ Shelf' = Shelf /\ Book' = Book BY <2>1 DEF Opened, Shelf, Book
    <3>8. Book[s] = x BY <1>1, <2>6, ServiceAssumption DEF Book
    <3>9. cl.call.method = "getReceipt" BY <2>1, <3>1
    <3>10. Promise!Show(c)
      <4>1. Desks[c].at = "asks" /\ Desks[c].call = cl.call BY <3>5 DEF Promise!Desk
      <4> QED BY <1>1, <3>6, <3>7, <3>8, <3>9, <4>1
              DEF Promise!Show, Promise!Now, Opened, Shelf, Book, Desks
    <3> QED BY <3>10 DEF Promise!Next
  <2> QED BY <2>5, <2>6
<1>4. CASE Garbles(c) /\ UNCHANGED <<shared, client, taken, told, met>>
  BY <1>4, GarblesCounter DEF process_getReceipt
<1>5. CASE Fails(c) /\ UNCHANGED <<shared, client, taken, told, met>>
  BY <1>5, FailsCounter DEF process_getReceipt
<1> QED BY <1>1, <1>2, <1>3, <1>4, <1>5 DEF process_getReceipt

LEMMA RefuseCounter ==
    ASSUME ServiceInv, NEW c \in Clients, Refuse(c) PROVE [Promise!Next]_(Promise!vars)
<1>1. PICK x, s : x = FALSE /\ s = StoreOf[c] OBVIOUS
<1>2. /\ worker[c].at = "reading" /\ client[c].at = "waiting" /\ client[c].call.method = "order"
      /\ ~InStock(s, client[c].call) /\ Replies(c, x)
      /\ UNCHANGED <<itemStock, orders, client, taken, told, met>>
  BY <1>1 DEF Refuse, HasRead, Doing, Asks, shared
<1>3. ShapeOK /\ worker[c] = WorkerOf(worker[c]) BY DEF ServiceInv, PeerOK, ConnectionOK
<1>4. /\ \A d \in Clients \ {c} : worker'[d] = worker[d]
      /\ worker'[c].at = "replied" /\ worker'[c].reply = <<x>>
  BY <1>2, <1>3, WorkerReplies
<1>5. Elsewhere(c) BY <1>2, <1>4 DEF Elsewhere
<1>6. CASE met[StoreOf[c]]
  <2>1. UNCHANGED Promise!vars BY <1>2, <1>5, <1>6, SpoiltStays
  <2> QED BY <2>1
<1>7. CASE ~met[StoreOf[c]]
  <2>1. PICK b, cl, wk, next :
            b = met[StoreOf[c]] /\ cl = client[c] /\ wk = worker[c] /\ next = worker'[c]
    OBVIOUS
  <2>2. AtDesk(c) = DeskOf(b, cl, wk) /\ AtDesk(c)' = DeskOf(b, cl, next) BY <1>2, <2>1, DeskIs
  <2>3. DeskOf(b, cl, wk) = Promise!Desk("asks", cl.call, <<>>)
    BY <1>2, <1>7, <2>1, DeskAsks
  <2>4. DeskOf(b, cl, next) = Promise!Desk("no", cl.call, <<>>)
    <3>1. next.at = "replied" /\ cl.call.method = "order" /\ ~b /\ next.reply = <<x>>
      BY <1>2, <1>4, <1>7, <2>1
    <3>2. next.reply # <<TRUE>>
      <4>1. <<x>>[1] = x /\ <<TRUE>>[1] = TRUE OBVIOUS
      <4> QED BY <1>1, <3>1, <4>1
    <3>3. DeskOf(b, cl, next) =
              Promise!Desk(IF next.reply = <<TRUE>> THEN "yes" ELSE "no", cl.call, <<>>)
      BY <3>1, DeskAnswers
    <3> QED BY <3>2, <3>3
  <2>5. Desks[c] = Promise!Desk("asks", cl.call, <<>>) BY <2>2, <2>3 DEF Desks
  <2>6. Desks' = [Desks EXCEPT ![c] = Promise!Desk("no", cl.call, <<>>)]
    BY <1>2, <1>5, <2>2, <2>4, DesksMove
  <2>7. Opened' = Opened /\ Shelf' = Shelf /\ Book' = Book BY <1>2 DEF Opened, Shelf, Book
  <2>8. Shelf[s] = itemStock[s] /\ s \in Stores BY <1>1, <1>7, ServiceAssumption DEF Shelf
  <2>9. ~(cl.call.item \in Items /\ cl.call.amount <= Shelf[s][cl.call.item])
    <3>1. SUFFICES ASSUME cl.call.item \in Items PROVE ~(cl.call.amount <= itemStock[s][cl.call.item])
      BY <2>8
    <3>2. itemStock[s][cl.call.item] \in Nat
      <4>1. itemStock[s][cl.call.item] \in Unsigned BY <2>8, <3>1 DEF ServiceInv, SharedOK
      <4> QED BY <4>1 DEF Unsigned
    <3>3. cl.call.amount \in Nat BY <2>1, HeldIsNat
    <3>4. ~(itemStock[s][cl.call.item] >= cl.call.amount) BY <1>2, <2>1, <3>1 DEF InStock
    <3> QED BY <3>2, <3>3, <3>4
  <2>10. Promise!Refuse(c)
    <3>1. Desks[c].at = "asks" /\ Desks[c].call = cl.call BY <2>5 DEF Promise!Desk
    <3>2. cl.call.method = "order" BY <1>2, <2>1
    <3> QED BY <1>1, <2>6, <2>7, <2>9, <3>1, <3>2
            DEF Promise!Refuse, Promise!Orders, Promise!Enough, Promise!Now, Opened, Shelf, Book, Desks
  <2> QED BY <2>10 DEF Promise!Next
<1> QED BY <1>6, <1>7

(* The check is no step to the counter, unless another thread is selling.   *)
LEMMA CheckCounter ==
    ASSUME ServiceInv, BooksInv, NEW c \in Clients, Check(c) PROVE [Promise!Next]_(Promise!vars)
<1>1. PICK s : s = StoreOf[c] OBVIOUS
<1> DEFINE meets == met[s] \/ \E d \in Others(c) : Selling(d)
<1>2. /\ worker[c].at = "reading" /\ client[c].at = "waiting" /\ client[c].call.method = "order"
      /\ Works(c, "checked") /\ met' = [met EXCEPT ![s] = meets]
      /\ UNCHANGED <<itemStock, orders, client, taken, told>>
  BY <1>1 DEF Check, HasRead, Doing, Asks, shared
<1>3. ShapeOK /\ worker[c] = WorkerOf(worker[c]) BY DEF ServiceInv, PeerOK, ConnectionOK
<1>4. (\A d \in Clients \ {c} : worker'[d] = worker[d]) /\ worker'[c].at = "checked"
  BY <1>2, <1>3, WorkerMoves
<1>5. Elsewhere(c) BY <1>2, <1>4 DEF Elsewhere
<1>6. s \in Stores /\ met \in [Stores -> BOOLEAN] BY <1>1, ServiceAssumption DEF BooksInv
<1>7. CASE ~met[s] /\ meets
  <2>1. met' = [met EXCEPT ![s] = TRUE] BY <1>2, <1>7
  <2> QED BY <1>1, <1>2, <1>5, <1>6, <1>7, <2>1, StoreSpoils
<1>8. CASE met[s] <=> meets
  <2>1. UNCHANGED met
    <3> HIDE DEF meets
    <3> QED BY <1>2, <1>6, <1>8
  <2>2. PICK b, cl, wk, next :
            b = met[StoreOf[c]] /\ cl = client[c] /\ wk = worker[c] /\ next = worker'[c]
    OBVIOUS
  <2>3. AtDesk(c) = DeskOf(b, cl, wk) /\ AtDesk(c)' = DeskOf(b, cl, next)
    BY <1>2, <2>1, <2>2, DeskIs
  <2>4. wk.at = "reading" /\ cl.at = "waiting" /\ next.at = "checked" /\ cl.call.method = "order"
    BY <1>2, <1>4, <2>2
  <2>5. DeskOf(b, cl, wk) = DeskOf(b, cl, next)
    <3>1. CASE b BY <3>1, DeskFree
    <3>2. CASE ~b BY <2>4, <3>2, DeskAsks
    <3> QED BY <3>1, <3>2
  <2>6. AtDesk(c)' = AtDesk(c) BY <2>3, <2>5
  <2> QED BY <1>2, <1>5, <2>1, <2>6, DeskSteps
<1> QED BY <1>7, <1>8

(* The thread moves on; the counter sees no difference.                     *)
LEMMA SameDesk ==
    ASSUME NEW c \in Clients, Elsewhere(c), UNCHANGED <<itemStock, orders, client, met>>,
           \/ worker[c].at \in {"checked", "read"} /\ worker'[c].at \in {"checked", "read"}
           \/ worker[c].at \in {"push", "pushing"} /\ worker'[c].at \in {"push", "pushing"}
    PROVE  [Promise!Next]_(Promise!vars)
<1>1. PICK b, cl, wk, next :
          b = met[StoreOf[c]] /\ cl = client[c] /\ wk = worker[c] /\ next = worker'[c]
  OBVIOUS
<1>2. AtDesk(c) = DeskOf(b, cl, wk) /\ AtDesk(c)' = DeskOf(b, cl, next) BY <1>1, DeskIs
<1>3. \/ wk.at \in {"checked", "read"} /\ next.at \in {"checked", "read"}
      \/ wk.at \in {"push", "pushing"} /\ next.at \in {"push", "pushing"}
  BY <1>1
<1>4. DeskOf(b, cl, wk) = DeskOf(b, cl, next) BY <1>3 DEF DeskOf
<1>5. AtDesk(c)' = AtDesk(c) BY <1>2, <1>4
<1> QED BY <1>5, DeskSteps

LEMMA ReadCounter ==
    ASSUME ServiceInv, NEW c \in Clients, Read(c) PROVE [Promise!Next]_(Promise!vars)
<1>1. PICK stock : stock = itemStock[StoreOf[c]][client[c].call.item] OBVIOUS
<1>2. /\ worker[c].at = "checked"
      /\ worker' = [worker EXCEPT ![c].at = "read", ![c].seen = stock]
      /\ UNCHANGED <<itemStock, orders, client, taken, told, met>>
  BY <1>1 DEF Read, Doing, shared
<1>3. ShapeOK /\ worker[c] = WorkerOf(worker[c]) BY DEF ServiceInv, PeerOK, ConnectionOK
<1>4. (\A d \in Clients \ {c} : worker'[d] = worker[d]) /\ worker'[c].at = "read"
  BY <1>2, <1>3, WorkerReads
<1>5. Elsewhere(c) BY <1>2, <1>4 DEF Elsewhere
<1> QED BY <1>2, <1>4, <1>5, SameDesk

LEMMA BeginPushCounter ==
    ASSUME ServiceInv, NEW c \in Clients, BeginPush(c) PROVE [Promise!Next]_(Promise!vars)
<1>1. /\ worker[c].at = "push" /\ Works(c, "pushing")
      /\ UNCHANGED <<itemStock, orders, client, taken, told, met>>
  BY DEF BeginPush, Doing, shared
<1>2. ShapeOK /\ worker[c] = WorkerOf(worker[c]) BY DEF ServiceInv, PeerOK, ConnectionOK
<1>3. (\A d \in Clients \ {c} : worker'[d] = worker[d]) /\ worker'[c].at = "pushing"
  BY <1>1, <1>2, WorkerMoves
<1>4. Elsewhere(c) BY <1>1, <1>3 DEF Elsewhere
<1> QED BY <1>1, <1>3, <1>4, SameDesk

(* The subtraction is the sale: what the thread has checked is still there. *)
LEMMA TakeCounter ==
    ASSUME ServiceInv, BooksInv, NEW c \in Clients, Take(c) PROVE [Promise!Next]_(Promise!vars)
<1>1. PICK s, e, n, rest :
          /\ s = StoreOf[c] /\ e = client[c].call.item /\ n = client[c].call.amount
          /\ rest = Rest(worker[c].seen, n)
  OBVIOUS
<1>2. /\ worker[c].at = "read" /\ itemStock' = [itemStock EXCEPT ![s][e] = rest]
      /\ taken' = [taken EXCEPT ![c] = taken[c] + n] /\ Works(c, "push")
      /\ UNCHANGED <<orders, client, told, met>>
  BY <1>1 DEF Take, Doing
<1>3. /\ ShapeOK /\ SharedOK /\ worker[c] = WorkerOf(worker[c])
      /\ client[c].call.method = "order" /\ e \in Items /\ worker[c].seen \in Unsigned
  BY <1>1, <1>2 DEF ServiceInv, PeerOK, ConnectionOK, Asks
<1>4. s \in Stores /\ n \in Nat BY <1>1, ServiceAssumption, HeldIsNat
<1>5. (\A d \in Clients \ {c} : worker'[d] = worker[d]) /\ worker'[c].at = "push"
  BY <1>2, <1>3, WorkerMoves
<1>6. Elsewhere(c)
  <2>1. \A d \in Clients \ {c} : taken'[d] = taken[d] BY <1>2, <1>3 DEF ShapeOK
  <2> QED BY <1>2, <1>5, <2>1 DEF Elsewhere
<1>7. CASE met[StoreOf[c]]
  <2>1. \A r \in Stores \ {s} : itemStock'[r] = itemStock[r] BY <1>2, <1>3 DEF SharedOK
  <2>2. UNCHANGED Promise!vars BY <1>1, <1>2, <1>6, <1>7, <2>1, SpoiltStays
  <2> QED BY <2>2
<1>8. CASE ~met[StoreOf[c]]
  <2>1. PICK b, cl, wk, next :
            b = met[StoreOf[c]] /\ cl = client[c] /\ wk = worker[c] /\ next = worker'[c]
    OBVIOUS
  <2>2. AtDesk(c) = DeskOf(b, cl, wk) /\ AtDesk(c)' = DeskOf(b, cl, next) BY <1>2, <2>1, DeskIs
  <2>3. ~b /\ cl.call.method = "order" /\ wk.at = "read" /\ next.at = "push"
    BY <1>2, <1>3, <1>5, <1>8, <2>1
  <2>4. DeskOf(b, cl, wk) = Promise!Desk("asks", cl.call, <<>>) BY <2>3, DeskAsks
  <2>5. DeskOf(b, cl, next) = Promise!Desk("sold", cl.call, <<>>) BY <2>3, DeskSold
  <2>6. Desks[c] = Promise!Desk("asks", cl.call, <<>>) BY <2>2, <2>4 DEF Desks
  <2>7. Desks' = [Desks EXCEPT ![c] = Promise!Desk("sold", cl.call, <<>>)]
    BY <1>2, <1>6, <2>2, <2>5, DesksMove
  <2>8. Opened' = Opened /\ Book' = Book BY <1>2 DEF Opened, Book
  <2>9. n <= worker[c].seen /\ worker[c].seen = itemStock[s][e]
    <3>1. BooksOK(s) BY <1>1, <1>4, <1>8 DEF BooksInv
    <3> QED BY <1>1, <1>2, <3>1 DEF BooksOK, InHand, Selling
  <2>10. n <= itemStock[s][e] /\ rest = itemStock[s][e] - n
    <3>1. rest + n = itemStock[s][e] BY <1>1, <1>3, <1>4, <2>9, TakesWhatIsThere
    <3>2. itemStock[s][e] \in Nat /\ rest \in Nat
      <4>1. worker[c].seen \in Nat /\ rest \in Unsigned
        <5>1. n \in Amounts BY <1>1, <1>3, CallsAreTyped DEF ServiceInv, PeerOK, ConnectionOK
        <5> QED BY <1>1, <1>3, <5>1, RestIsUnsigned DEF Unsigned
      <4> QED BY <2>9, <4>1 DEF Unsigned
    <3> QED BY <1>4, <2>9, <3>1, <3>2
  <2>11. Shelf[s] = itemStock[s] BY <1>1, <1>4, <1>8 DEF Shelf
  <2>12. Shelf' = [Shelf EXCEPT ![s][e] = Shelf[s][e] - n]
    <3>1. ~met[s] BY <1>1, <1>8
    <3>2. itemStock' = [itemStock EXCEPT ![s] = [itemStock[s] EXCEPT ![e] = rest]] BY <1>2
    <3>3. itemStock'[s] = [itemStock[s] EXCEPT ![e] = rest]
          /\ \A r \in Stores \ {s} : itemStock'[r] = itemStock[r]
      BY <1>3, <1>4, <3>2 DEF SharedOK
    <3>4. PICK f, g, row : f = Shelf' /\ g = Shelf /\ row = [Shelf[s] EXCEPT ![e] = rest] OBVIOUS
    <3>5. /\ DOMAIN f = Stores /\ DOMAIN g = Stores
          /\ f = [r \in Stores |-> f[r]] /\ g = [r \in Stores |-> g[r]]
      BY <3>4 DEF Shelf
    <3>6. f[s] = row BY <1>2, <1>4, <2>11, <3>1, <3>3, <3>4 DEF Shelf
    <3>7. \A r \in Stores \ {s} : f[r] = g[r] BY <1>2, <3>3, <3>4 DEF Shelf
    <3>8. f = [g EXCEPT ![s] = row] BY <3>5, <3>6, <3>7
    <3>9. rest = Shelf[s][e] - n BY <2>10, <2>11
    <3> QED BY <3>4, <3>8, <3>9
  <2>13. Promise!Sell(c)
    <3>1. Desks[c].at = "asks" /\ Desks[c].call = cl.call BY <2>6 DEF Promise!Desk
    <3>2. cl.call.item = e /\ cl.call.amount = n BY <1>1, <2>1
    <3>3. Promise!Orders(c) BY <2>3, <3>1 DEF Promise!Orders, Desks
    <3>4. Promise!Enough(StoreOf[c], Desks[c].call)
      <4>1. e \in Items /\ n <= Shelf[s][e] BY <1>3, <2>10, <2>11
      <4> QED BY <1>1, <3>1, <3>2, <4>1 DEF Promise!Enough, Shelf
    <3>5. Shelf' = [Shelf EXCEPT ![StoreOf[c]][Desks[c].call.item] = @ - Desks[c].call.amount]
      BY <1>1, <2>12, <3>1, <3>2
    <3>6. Desks' = [Desks EXCEPT ![c] = Promise!Desk("sold", Desks[c].call, <<>>)] BY <2>7, <3>1
    <3> QED BY <2>8, <3>3, <3>4, <3>5, <3>6
            DEF Promise!Sell, Promise!Orders, Promise!Enough, Promise!Now, Opened, Shelf, Book, Desks
  <2> QED BY <2>13 DEF Promise!Next
<1> QED BY <1>7, <1>8

(* An entry is lost only where two orders meet.                             *)
LEMMA PushRepliesCounter ==
    ASSUME ServiceInv, BooksInv, NEW c \in Clients, Push(c), Replies(c, TRUE)
    PROVE  [Promise!Next]_(Promise!vars)
<1>1. PICK s, x, entry :
          s = StoreOf[c] /\ x = TRUE /\ entry = OrderOf(s, client[c].call)
  OBVIOUS
<1>2. /\ worker[c].at = "pushing" /\ Replies(c, x)
      /\ \/ orders' = [orders EXCEPT ![s] = Append(orders[s], entry)] /\ UNCHANGED met
         \/ met' = [met EXCEPT ![s] = TRUE] /\ UNCHANGED orders
      /\ UNCHANGED <<itemStock, client, taken, told>>
  BY <1>1 DEF Push, Doing, Result
<1>3. /\ ShapeOK /\ SharedOK /\ worker[c] = WorkerOf(worker[c]) /\ client[c].call.method = "order"
  BY <1>2 DEF ServiceInv, PeerOK, ConnectionOK, Asks
<1>4. s \in Stores /\ met \in [Stores -> BOOLEAN] BY <1>1, ServiceAssumption DEF BooksInv
<1>5. /\ \A d \in Clients \ {c} : worker'[d] = worker[d]
      /\ worker'[c].at = "replied" /\ worker'[c].reply = <<x>>
  BY <1>2, <1>3, WorkerReplies
<1>6. Elsewhere(c) BY <1>2, <1>5 DEF Elsewhere
<1>7. CASE met[s]
  <2>1. UNCHANGED met BY <1>2, <1>4, <1>7
  <2>2. \A r \in Stores \ {s} : orders'[r] = orders[r]
    <3>1. PICK longer : longer = Append(orders[s], entry) OBVIOUS
    <3>2. orders' = [orders EXCEPT ![s] = longer] \/ UNCHANGED orders BY <1>2, <3>1
    <3> QED BY <1>3, <3>2 DEF SharedOK
  <2>3. UNCHANGED Promise!vars BY <1>1, <1>2, <1>6, <1>7, <2>1, <2>2, SpoiltStays
  <2> QED BY <2>3
<1>8. CASE ~met[s] /\ met' = [met EXCEPT ![s] = TRUE] /\ UNCHANGED orders
  BY <1>1, <1>2, <1>4, <1>6, <1>8, StoreSpoils
<1>9. CASE ~met[s] /\ orders' = [orders EXCEPT ![s] = Append(orders[s], entry)] /\ UNCHANGED met
  <2>1. PICK b, cl, wk, next :
            b = met[StoreOf[c]] /\ cl = client[c] /\ wk = worker[c] /\ next = worker'[c]
    OBVIOUS
  <2>2. AtDesk(c) = DeskOf(b, cl, wk) /\ AtDesk(c)' = DeskOf(b, cl, next)
    BY <1>2, <1>9, <2>1, DeskIs
  <2>3. /\ ~b /\ cl.call.method = "order" /\ wk.at = "pushing"
        /\ next.at = "replied" /\ next.reply = <<TRUE>>
    BY <1>1, <1>2, <1>3, <1>5, <1>9, <2>1
  <2>4. DeskOf(b, cl, wk) = Promise!Desk("sold", cl.call, <<>>) BY <2>3, DeskSold
  <2>5. DeskOf(b, cl, next) = Promise!Desk("yes", cl.call, <<>>)
    <3>1. DeskOf(b, cl, next) =
              Promise!Desk(IF next.reply = <<TRUE>> THEN "yes" ELSE "no", cl.call, <<>>)
      BY <2>3, DeskAnswers
    <3> QED BY <2>3, <3>1
  <2>6. Desks[c] = Promise!Desk("sold", cl.call, <<>>) BY <2>2, <2>4 DEF Desks
  <2>7. Desks' = [Desks EXCEPT ![c] = Promise!Desk("yes", cl.call, <<>>)]
    BY <1>6, <1>9, <2>2, <2>5, DesksMove
  <2>8. Opened' = Opened /\ Shelf' = Shelf BY <1>2, <1>9 DEF Opened, Shelf
  <2>9. Book[s] = orders[s] BY <1>4, <1>9 DEF Book
  <2>10. Book' = [Book EXCEPT ![s] = Append(Book[s], entry)]
    <3>1. PICK longer : longer = Append(orders[s], entry) OBVIOUS
    <3>2. orders' = [orders EXCEPT ![s] = longer] BY <1>9, <3>1
    <3>3. orders'[s] = longer /\ \A r \in Stores \ {s} : orders'[r] = orders[r]
      BY <1>3, <1>4, <3>2 DEF SharedOK
    <3>4. PICK f, g : f = Book' /\ g = Book OBVIOUS
    <3>5. /\ DOMAIN f = Stores /\ DOMAIN g = Stores
          /\ f = [r \in Stores |-> f[r]] /\ g = [r \in Stores |-> g[r]]
      BY <3>4 DEF Book
    <3>6. f[s] = longer BY <1>4, <1>9, <3>3, <3>4 DEF Book
    <3>7. \A r \in Stores \ {s} : f[r] = g[r] BY <1>9, <3>3, <3>4 DEF Book
    <3>8. f = [g EXCEPT ![s] = longer] BY <3>5, <3>6, <3>7
    <3> QED BY <2>9, <3>1, <3>4, <3>8
  <2>11. Promise!Enter(c)
    <3>1. Desks[c].at = "sold" /\ Desks[c].call = cl.call BY <2>6 DEF Promise!Desk
    <3>2. entry = [item |-> Desks[c].call.item, amount |-> Desks[c].call.amount,
                   total |-> itemPrices[StoreOf[c]][Desks[c].call.item] * Desks[c].call.amount]
      BY <1>1, <2>1, <3>1 DEF OrderOf
    <3>3. Book' = [Book EXCEPT ![StoreOf[c]] = Append(@, entry)] BY <1>1, <2>10
    <3>4. Desks' = [Desks EXCEPT ![c] = Promise!Desk("yes", Desks[c].call, <<>>)] BY <2>7, <3>1
    <3> QED BY <2>8, <3>1, <3>2, <3>3, <3>4 DEF Promise!Enter, Promise!Now, Opened, Shelf, Book, Desks
  <2> QED BY <2>11 DEF Promise!Next
<1> QED BY <1>2, <1>7, <1>8, <1>9

LEMMA PushCounter ==
    ASSUME ServiceInv, BooksInv, NEW c \in Clients, Push(c) PROVE [Promise!Next]_(Promise!vars)
<1>1. CASE Replies(c, TRUE) BY <1>1, PushRepliesCounter
<1>2. CASE ~Replies(c, TRUE)
  <2>1. PICK s : s = StoreOf[c] OBVIOUS
  <2>2. /\ Works(c, "failed") /\ met' = [met EXCEPT ![s] = TRUE]
        /\ UNCHANGED <<itemStock, orders, client, taken, told>>
    BY <1>2, <2>1 DEF Push, Result, Fails
  <2>3. ShapeOK /\ worker[c] = WorkerOf(worker[c]) BY DEF ServiceInv, PeerOK, ConnectionOK
  <2>4. \A d \in Clients \ {c} : worker'[d] = worker[d] BY <2>2, <2>3, WorkerMoves
  <2>5. Elsewhere(c) BY <2>2, <2>4 DEF Elsewhere
  <2>6. s \in Stores /\ met \in [Stores -> BOOLEAN] BY <2>1, ServiceAssumption DEF BooksInv
  <2>7. CASE met[s]
    <3>1. UNCHANGED met BY <2>2, <2>6, <2>7
    <3>2. UNCHANGED Promise!vars BY <2>1, <2>2, <2>5, <2>7, <3>1, SpoiltStays
    <3> QED BY <3>2
  <2>8. CASE ~met[s] BY <2>1, <2>2, <2>5, <2>6, <2>8, StoreSpoils
  <2> QED BY <2>7, <2>8
<1> QED BY <1>1, <1>2

-----------------------------------------------------------------------------
LEMMA UseCounter ==
    ASSUME ServiceInv, NEW c \in Clients, Use(c) PROVE [Promise!Next]_(Promise!vars)
<1>1. ASSUME NEW i \in Asked, send_getPrice(c, i) PROVE [Promise!Next]_(Promise!vars)
  <2>1. PICK call \in Methods : Sends(c, call) BY <1>1, MadeCalls DEF send_getPrice
  <2> QED BY <2>1, SendsCounter
<1>2. ASSUME NEW i \in Asked, NEW n \in Amounts, send_order(c, i, n) PROVE [Promise!Next]_(Promise!vars)
  <2>1. PICK call \in Methods : Sends(c, call) BY <1>2, MadeCalls DEF send_order
  <2> QED BY <2>1, SendsCounter
<1>3. ASSUME send_getReceipt(c) PROVE [Promise!Next]_(Promise!vars)
  <2>1. NoCall.item \in Asked BY FirstCall, CallsAreTyped
  <2>2. PICK call \in Methods : Sends(c, call) BY <1>3, <2>1, MadeCalls DEF send_getReceipt
  <2> QED BY <2>2, SendsCounter
<1> QED BY <1>1, <1>2, <1>3, OpenCounter, ReceiveCounter, CloseCounter, ThrowsCounter DEF Use

LEMMA ServeCounter ==
    ASSUME ServiceInv, BooksInv, NEW c \in Clients, Serve(c) PROVE [Promise!Next]_(Promise!vars)
<1>1. ASSUME BreaksOff(c) PROVE [Promise!Next]_(Promise!vars)
  <2>1. UNCHANGED Promise!vars BY <1>1, NothingServed DEF BreaksOff
  <2> QED BY <2>1
<1> QED BY <1>1, GetPriceCounter, GetReceiptCounter, RefuseCounter, CheckCounter, ReadCounter,
           TakeCounter, BeginPushCounter, PushCounter DEF Serve, process_order

LEMMA CounterStep ==
    ASSUME ServiceInv, BooksInv, [Next]_vars PROVE [Promise!Next]_(Promise!vars)
<1>1. ASSUME UNCHANGED <<itemStock, orders, client, worker, taken, told, met>>
      PROVE  [Promise!Next]_(Promise!vars)
  <2>1. UNCHANGED Promise!vars BY <1>1, NothingServed
  <2> QED BY <2>1
<1>2. ASSUME NEW s \in Stores, Exit(s) PROVE [Promise!Next]_(Promise!vars) BY <1>1, <1>2 DEF Exit
<1>3. CASE UNCHANGED vars BY <1>1, <1>3 DEF vars, shared
<1> QED BY <1>2, <1>3, UseCounter, ServeCounter DEF Next

LEMMA CounterInit == ASSUME Init PROVE Promise!Init
<1>1. Opened = [s \in Stores |-> TRUE] BY DEF Init, Opened
<1>2. Shelf \in [Stores -> [Items -> Nat]] BY ServiceAssumption DEF Init, Shelf
<1>3. Book = [s \in Stores |-> <<>>] BY DEF Init, Book
<1>4. ASSUME NEW c \in Clients PROVE AtDesk(c) = Promise!Nobody
  <2>1. worker[c].at = "none" BY DEF Init, NoWorker
  <2> QED BY <2>1, FreeDesk
<1>5. Desks = [c \in Clients |-> Promise!Nobody] BY <1>4 DEF Desks
<1> QED BY <1>1, <1>2, <1>3, <1>5 DEF Promise!Init, Opened, Shelf, Book, Desks

(* Until two orders meet at a store, its clients cannot tell its threads,   *)
(* which share stock and ledger without a lock, from a counter at which     *)
(* StoreHandler::order is one step, and a receipt the ledger as it is,      *)
(* unless the receipt is asked for while another client's sale is still to  *)
(* be entered.                                                              *)
THEOREM ServiceImplementsCounter == Spec => ImplementsCounter
<1>1. Init => Promise!Init BY CounterInit
<1>2. ServiceInv /\ BooksInv /\ [Next]_vars => [Promise!Next]_(Promise!vars) BY CounterStep
<1>3. Spec => Init /\ [][Next]_vars BY DEF Spec
<1> QED BY <1>1, <1>2, <1>3, ServiceCorrect, BooksCorrect, PTL DEF ImplementsCounter, Promise!Spec
=============================================================================
