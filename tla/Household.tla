----------------------------- MODULE Household ------------------------------
(***************************************************************************)
(* The household server: one process, two threads.  Server::receive takes  *)
(* the sensors' datagrams, saves the level they mean and buys what runs    *)
(* low from the cheapest store; HttpServer::start shows the levels and     *)
(* restocks an item when its button is pressed.  Both threads use the map  *)
(* Server::offsets and the files of RESTManager, and neither takes a lock. *)
(*                                                                         *)
(* What a sensor reports never goes up when something is bought, so the    *)
(* server keeps an offset per item: level = (reading + offset) % 101.      *)
(*                                                                         *)
(* Each call on the map or on a file is a step.  (A map that two threads   *)
(* write may also be corrupted; the calls are taken to be atomic.)  An     *)
(* exception no thread catches ends the process.                           *)
(***************************************************************************)
EXTENDS Sensor, HttpServer, Sequences, Functions

CONSTANTS
    ItemList,        \* the items, in the order of RESTManager's index
    StoreList,       \* the stores, in the order the server asks them
    Price,           \* Price[s][i]: what store s answers to getPrice
    Fragile          \* stores that may go down, or answer with an exception

Items == Sensors

ASSUME HouseholdAssumption ==
    /\ ItemList \in Seq(Items) /\ Range(ItemList) = Items /\ ItemList # <<>>
    /\ StoreList \in Seq(Range(StoreList)) /\ StoreList # <<>>
    /\ Fragile \subseteq Range(StoreList)
    /\ Price \in [Range(StoreList) -> [Items -> Nat]]
    /\ Requests \subseteq [method : STRING, uri : STRING, item : Items]

VARIABLES
    offsets,         \* Server::offsets, a map of the items seen so far
    files,           \* files[i]: what get(i) reads, at most one level
    history,         \* history[i]: the latest entry of item i
    pc,              \* pc[t]: where thread t is
    job,             \* job[t]: its local variables
    alive,           \* the process has not been terminated
    storeUp          \* storeUp[s]

peerVars == <<sensorVars, connection>>
threadVars == <<offsets, files, history, pc, job>>
vars == <<peerVars, threadVars, alive, storeUp>>

Threads == {"receive", "http"}
AnyItem == CHOOSE i \in Items : TRUE
NoJob == [item |-> AnyItem, reading |-> 0, level |-> 0, offset |-> 0, after |-> "",
          store |-> 1, cheapest |-> 1, row |-> 1]

Init ==
    /\ SensorInit /\ HttpInit
    /\ offsets = [i \in {} |-> 0]
    /\ files = [i \in Items |-> <<>>]
    /\ history = [i \in Items |-> <<>>]
    /\ pc = [t \in Threads |-> IF t = "receive" THEN "recv" ELSE "accept"]
    /\ job = [t \in Threads |-> NoJob]
    /\ alive = TRUE
    /\ storeUp = [s \in Range(StoreList) |-> TRUE]

-----------------------------------------------------------------------------
At(t, place) == alive /\ pc[t] = place
Goto(t, place) == pc' = [pc EXCEPT ![t] = place]
Known(i) == i \in DOMAIN offsets

Die ==
    /\ alive' = FALSE
    /\ UNCHANGED <<peerVars, threadVars, storeUp>>

(* C++ division truncates, so a remainder has the sign of its dividend.     *)
Remainder(a, b) == IF a >= 0 THEN a % b ELSE -((-a) % b)

(* RESTManager::put opens a file, which empties it, and then writes.  If    *)
(* the other thread has written meanwhile, the longer text shows through:   *)
(* the last line of "100" under "7" is "0".                                 *)
Overlay(text, value) == IF text = <<100>> /\ value < 10 THEN <<0>> ELSE <<value>>

Note(t) ==
    /\ At(t, "note")
    /\ history' = [history EXCEPT ![job[t].item] = <<job[t].level>>]
    /\ Goto(t, "open")
    /\ UNCHANGED <<peerVars, offsets, files, job, alive, storeUp>>

Truncate(t) ==
    /\ At(t, "open")
    /\ files' = [files EXCEPT ![job[t].item] = <<>>]
    /\ Goto(t, "write")
    /\ UNCHANGED <<peerVars, offsets, history, job, alive, storeUp>>

Write(t) ==
    /\ At(t, "write")
    /\ files' = [files EXCEPT ![job[t].item] = Overlay(@, job[t].level)]
    /\ Goto(t, job[t].after)
    /\ UNCHANGED <<peerVars, offsets, history, job, alive, storeUp>>

-----------------------------------------------------------------------------
(* Server::restock, which either thread may run.                            *)

(* Faulty: an item nobody has reported is looked up.                        *)
FindNothing(t) ==
    /\ At(t, "restock")
    /\ Goto(t, "at")
    /\ UNCHANGED <<peerVars, offsets, files, history, job, alive, storeUp>>

Find(t) ==
    /\ At(t, "restock")
    /\ Goto(t, IF Known(job[t].item) THEN "at" ELSE job[t].after)
    /\ UNCHANGED <<peerVars, offsets, files, history, job, alive, storeUp>>

ReadOffset(t) ==
    /\ At(t, "at")
    /\ \/ /\ Known(job[t].item)
          /\ job' = [job EXCEPT ![t].offset = offsets[job[t].item]]
          /\ Goto(t, "erase")
          /\ UNCHANGED <<peerVars, offsets, files, history, alive, storeUp>>
       \/ ~Known(job[t].item) /\ Die

Erase(t) ==
    /\ At(t, "erase")
    /\ offsets' = Restrict(offsets, DOMAIN offsets \ {job[t].item})
    /\ Goto(t, "get")
    /\ UNCHANGED <<peerVars, files, history, job, alive, storeUp>>

(* Faulty: the old offset is forgotten; the difference is not reduced.      *)
NewOffsetFromLevel(level, offset) == 100 - level
NewOffsetUnbounded(level, offset) == 100 - (level - offset)

NewOffset(level, offset) == 100 - Remainder(level - offset, 101)

(* front() of an empty file is undefined; stoi does not survive it.         *)
ReadLevel(t) ==
    LET text == files[job[t].item]
    IN  /\ At(t, "get")
        /\ \/ /\ text # <<>>
              /\ job' = [job EXCEPT ![t].offset = NewOffset(Head(text), @), ![t].level = 100]
              /\ Goto(t, "insert")
              /\ UNCHANGED <<peerVars, offsets, files, history, alive, storeUp>>
           \/ text = <<>> /\ Die

(* Faulty: the offset that was erased is not put back.                      *)
InsertNothing(t) ==
    /\ At(t, "insert")
    /\ Goto(t, "note")
    /\ UNCHANGED <<peerVars, offsets, files, history, job, alive, storeUp>>

(* insert leaves an offset that is there as it is.                          *)
Insert(t) ==
    LET i == job[t].item
    IN  /\ At(t, "insert")
        /\ offsets' = [j \in DOMAIN offsets \cup {i} |->
                          IF j \in DOMAIN offsets THEN offsets[j] ELSE job[t].offset]
        /\ Goto(t, "note")
        /\ UNCHANGED <<peerVars, files, history, job, alive, storeUp>>

Restocks(t) ==
    Find(t) \/ ReadOffset(t) \/ Erase(t) \/ ReadLevel(t) \/ Insert(t)
    \/ Note(t) \/ Truncate(t) \/ Write(t)

-----------------------------------------------------------------------------
(* Server::receive, with saveReading first.                                 *)

Receive ==
    /\ At("receive", "recv")
    /\ \E m \in air :
          /\ air' = air \ {m}
          /\ job' = [job EXCEPT !["receive"] =
                       [NoJob EXCEPT !.item = m.item, !.reading = m.reading, !.after = "amount"]]
    /\ Goto("receive", "look")
    /\ UNCHANGED <<reading, connection, offsets, files, history, alive, storeUp>>

Meet ==
    LET i == job["receive"].item
    IN  /\ At("receive", "look")
        /\ offsets' = [j \in DOMAIN offsets \cup {i} |-> IF Known(j) THEN offsets[j] ELSE 0]
        /\ Goto("receive", "value")
        /\ UNCHANGED <<peerVars, files, history, job, alive, storeUp>>

Level(i) == (job["receive"].reading + offsets[i]) % 101

Value ==
    LET i == job["receive"].item
    IN  /\ At("receive", "value")
        /\ \/ /\ Known(i)
              /\ job' = [job EXCEPT !["receive"].level = Level(i)]
              /\ Goto("receive", "note")
              /\ UNCHANGED <<peerVars, offsets, files, history, alive, storeUp>>
           \/ ~Known(i) /\ Die

(* The level is computed a second time, from the offset there is by then.   *)
Amount ==
    LET i == job["receive"].item
    IN  /\ At("receive", "amount")
        /\ \/ /\ Known(i)
              /\ job' = [job EXCEPT !["receive"].level = Level(i), !["receive"].after = "recv"]
              /\ Goto("receive", IF Level(i) < 20 THEN "quote" ELSE "recv")
              /\ UNCHANGED <<peerVars, offsets, files, history, alive, storeUp>>
           \/ ~Known(i) /\ Die

(* Faulty: the dearest store is kept.                                       *)
Dearer(i, k, best) == Price[StoreList[k]][i] > Price[StoreList[best]][i]

Cheaper(i, k, best) == Price[StoreList[k]][i] < Price[StoreList[best]][i]

(* Each call has a connection of its own.  open throws if the store is      *)
(* down, send and recv if it goes down before it has answered: either ends  *)
(* the process.                                                             *)
Dials(place, k, next) ==
    /\ At("receive", place)
    /\ \/ /\ storeUp[StoreList[k]]
          /\ Goto("receive", next)
          /\ UNCHANGED <<peerVars, offsets, files, history, job, alive, storeUp>>
       \/ ~storeUp[StoreList[k]] /\ Die

(* getPrice: the answer is compared with the lowest so far.                 *)
Quote == Dials("quote", job["receive"].store, "quoted")

Quoted ==
    LET j == job["receive"]
    IN  /\ At("receive", "quoted")
        /\ \/ /\ job' = [job EXCEPT !["receive"].cheapest =
                                       IF Cheaper(j.item, j.store, @) THEN j.store ELSE @,
                                    !["receive"].store = @ + 1]
              /\ Goto("receive", IF j.store = Len(StoreList) THEN "buy" ELSE "quote")
              /\ UNCHANGED <<peerVars, offsets, files, history, alive, storeUp>>
           \/ ~storeUp[StoreList[j.store]] /\ Die

(* order: what the store answers is left open here; where others order as   *)
(* well it may be the exception that its ledger has thrown.                 *)
Buy == Dials("buy", job["receive"].cheapest, "bought")

Bought ==
    /\ At("receive", "bought")
    /\ \/ /\ \E success \in BOOLEAN : Goto("receive", IF success THEN "restock" ELSE "recv")
          /\ UNCHANGED <<peerVars, offsets, files, history, job, alive, storeUp>>
       \/ StoreList[job["receive"].cheapest] \in Fragile /\ Die

Receives ==
    Receive \/ Meet \/ Value \/ Amount \/ Quote \/ Quoted \/ Buy \/ Bought
    \/ Restocks("receive")

-----------------------------------------------------------------------------
(* HttpServer::start: one connection at a time.                             *)

Accept ==
    /\ At("http", "accept")
    /\ \E r \in Requests : Connect(r)
    /\ Goto("http", "recv")
    /\ UNCHANGED <<sensorVars, offsets, files, history, job, alive, storeUp>>

(* notifyObservers calls Server::restock, which knows no item but Items.    *)
Press ==
    /\ At("http", "recv") /\ IsPost
    /\ \/ \E i \in Named :
             /\ job' = [job EXCEPT !["http"] = [NoJob EXCEPT !.item = i, !.after = "reply"]]
             /\ Goto("http", "restock")
       \/ Named = {} /\ Goto("http", "reply") /\ UNCHANGED job
    /\ UNCHANGED <<peerVars, offsets, files, history, alive, storeUp>>

NotFound ==
    /\ At("http", "recv") /\ IsError
    /\ Goto("http", "reply")
    /\ UNCHANGED <<peerVars, offsets, files, history, job, alive, storeUp>>

(* generateTables: an item whose file is not empty gets a row; the file is  *)
(* read once to see, and again for the level.                               *)
GetPage ==
    /\ At("http", "recv") /\ IsPage
    /\ job' = [job EXCEPT !["http"].row = 1]
    /\ Goto("http", "row")
    /\ UNCHANGED <<peerVars, offsets, files, history, alive, storeUp>>

Reply ==
    /\ At("http", "reply")
    /\ Answer
    /\ job' = [job EXCEPT !["http"] = NoJob]
    /\ Goto("http", "accept")
    /\ UNCHANGED <<sensorVars, offsets, files, history, alive, storeUp>>

NextRow ==
    /\ job' = [job EXCEPT !["http"].row = @ + 1]
    /\ Goto("http", IF job["http"].row = Len(ItemList) THEN "reply" ELSE "row")
    /\ UNCHANGED <<peerVars, offsets, files, history, alive, storeUp>>

Shown == files[ItemList[job["http"].row]]

SkipRow == At("http", "row") /\ Shown = <<>> /\ NextRow

StartRow ==
    /\ At("http", "row") /\ Shown # <<>>
    /\ Goto("http", "cell")
    /\ UNCHANGED <<peerVars, offsets, files, history, job, alive, storeUp>>

FinishRow ==
    /\ At("http", "cell")
    /\ \/ Shown # <<>> /\ NextRow
       \/ Shown = <<>> /\ Die

Handles ==
    Press \/ NotFound \/ GetPage \/ SkipRow \/ StartRow \/ FinishRow \/ Restocks("http") \/ Reply

Serves == Accept \/ Handles

-----------------------------------------------------------------------------
Environment ==
    \/ SensorNext /\ UNCHANGED <<connection, threadVars, alive, storeUp>>
    \/ /\ (pc["http"] = "recv" /\ Arrive) \/ (pc["http"] = "reply" /\ Turn)
       /\ UNCHANGED <<sensorVars, threadVars, alive, storeUp>>

GoesDown(s) ==
    /\ storeUp[s] /\ storeUp' = [storeUp EXCEPT ![s] = FALSE]
    /\ UNCHANGED <<peerVars, threadVars, alive>>

Next == Receives \/ Serves \/ Environment \/ \E s \in Fragile : GoesDown(s)

Spec == Init /\ [][Next]_vars

(* The threads run, and a store answers or goes down; what browsers and the *)
(* network do, they owe nobody.                                             *)
Fairness ==
    /\ WF_vars(Receives) /\ WF_vars(Handles)
    /\ \A i \in Sensors : WF_vars(Send(i) /\ UNCHANGED <<connection, threadVars, alive, storeUp>>)

FairSpec == Spec /\ Fairness

-----------------------------------------------------------------------------
(* Properties.                                                              *)

Places == {"recv", "look", "value", "note", "open", "write", "amount", "quote", "quoted", "buy",
           "bought", "restock", "at", "erase", "get", "insert", "accept", "row", "cell", "reply"}

Texts == {<<>>} \cup {<<v>> : v \in 0..100}

Jobs ==
    [item : Items, reading : 0..(Word - 1), level : 0..100, offset : 0..200,
     after : {"", "amount", "recv", "reply"}, store : 1..(Len(StoreList) + 1),
     cheapest : 1..Len(StoreList), row : 1..(Len(ItemList) + 1)]

(* Levels are 0..100 and offsets 0..200 throughout, although a new offset   *)
(* comes out of a signed remainder, and there is a connection whenever the  *)
(* HTTP thread is not in accept.                                            *)
TypeOK ==
    /\ DOMAIN offsets \subseteq Items
    /\ \A i \in DOMAIN offsets : offsets[i] \in 0..200
    /\ files \in [Items -> Texts] /\ history \in [Items -> Texts]
    /\ pc \in [Threads -> Places]
    /\ job \in [Threads -> Jobs]
    /\ connection.arrived = "nothing" <=> pc["http"] = "accept"
    /\ alive \in BOOLEAN
    /\ storeUp \in [Range(StoreList) -> BOOLEAN]

(* Between two datagrams the level that is shown is the last reading plus   *)
(* the offset, also after a purchase: 100 then means the reading at which   *)
(* the purchase was made, whatever the signs in Server::restock.            *)
Aligned ==
    LET i == job["receive"].item
    IN  pc["receive"] = "recv" /\ Known(i) => files[i] = <<Level(i)>>

(* The order goes to a store that no store undercuts, the first of them.    *)
BuysFromCheapest ==
    LET j == job["receive"]
        price(k) == Price[StoreList[k]][j.item]
    IN  pc["receive"] \in {"buy", "bought"} =>
            /\ \A k \in 1..Len(StoreList) : price(j.cheapest) <= price(k)
            /\ \A k \in 1..(j.cheapest - 1) : price(j.cheapest) < price(k)

(* An item that has been met is missing from offsets only while some thread *)
(* is between the erase and the insert of Server::restock: whatever the two *)
(* threads do to each other, the window closes again.                       *)
InWindow(t, i) == job[t].item = i /\ pc[t] \in {"get", "insert"}

KnownUnlessRestocking ==
    \A i \in Items : history[i] # <<>> =>
        Known(i) \/ \E t \in Threads : InWindow(t, i)

(* The process dies only where one thread uses the offset or the file of an *)
(* item while the other is in the middle of changing them for that item,    *)
(* where a store is down, or where a store answers an order with an         *)
(* exception: by itself neither thread can bring it down.                   *)
Uses(t) ==
    IF pc[t] = "cell" THEN {ItemList[job[t].row]}
    ELSE IF pc[t] \in {"value", "amount", "at", "get"} THEN {job[t].item} ELSE {}

Changes(t) ==
    IF pc[t] \in {"value", "note", "open", "write", "get", "insert"} THEN {job[t].item} ELSE {}

DiesOnlyWhereThreadsMeet ==
    [][alive /\ ~alive' =>
          \/ Uses("receive") \cap Changes("http") # {}
          \/ Uses("http") \cap Changes("receive") # {}
          \/ pc["receive"] \in {"quote", "quoted", "buy", "bought"} /\ \E s \in Fragile : ~storeUp[s]
          \/ pc["receive"] = "bought" /\ StoreList[job["receive"].cheapest] \in Fragile]_vars

(* send waits for a browser that does not read.                             *)
Held == pc["http"] = "reply" /\ ~connection.reads /\ ~IsPost

(* The HTTP thread gets back to accept from wherever it is, unless it waits *)
(* for a browser: for the rest of a header, or for one that does not read   *)
(* its page.  Either takes the page away from all the others; nothing that  *)
(* the receive thread does to the files in between can, and no browser that *)
(* presses a button and then stops reading.                                 *)
ConnectionsEnd ==
    pc["http"] # "accept" ~>
        \/ pc["http"] = "accept" \/ connection.arrived = "part" \/ Held \/ ~alive

(* A button whose form has come along with its header, of an item that has  *)
(* a level, brings the level to 100.  Server::restock does nothing when it  *)
(* does not find the item, but then the other thread is restocking it.      *)
ButtonRestocks ==
    \A i \in Items :
        pc["http"] = "recv" /\ IsPost /\ connection.arrived = "all"
        /\ connection.request.item = i /\ history[i] # <<>>
            ~> files[i] = <<100>> \/ ~alive

=============================================================================
