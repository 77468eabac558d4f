--------------------------- MODULE HouseholdProofs ---------------------------
(***************************************************************************)
(* What the two threads of the household server keep true without a lock,  *)
(* for any sensors, stores, prices and requests: an item that has been met *)
(* stays known but for the window of a restock, the process dies only      *)
(* where the threads meet or a store is down, and what is ordered is       *)
(* ordered where it is cheapest.                                           *)
(***************************************************************************)
EXTENDS Household, TLAPS

Window == {"get", "insert"}
Saving == {"value", "note", "open", "write"}
Restocking == {"restock", "at", "erase", "get", "insert"}
Reached == {"value", "note", "open", "write", "amount", "at", "erase", "get", "insert"}

(* An item is heard of from the first datagram on.                          *)
Heard(i) == Known(i) \/ \E t \in Threads : InWindow(t, i)

HeardOK ==
  /\ \A t \in Threads : pc[t] \in Reached => Heard(job[t].item)
  /\ \A i \in Items : files[i] # <<>> \/ history[i] # <<>> => Heard(i)

(* An item that is heard of has a level, or somebody is about to write it.  *)
FilesOK ==
  \A i \in Items : Heard(i) /\ files[i] = <<>> =>
    \E t \in Threads : job[t].item = i /\ pc[t] \in Saving

(* A level that the page has seen is taken away only to be written anew.    *)
RowOK ==
  pc["http"] = "cell" /\ files[ItemList[job["http"].row]] = <<>> =>
    pc["receive"] = "write" /\ job["receive"].item = ItemList[job["http"].row]

(* Where each thread may be, and with which locals.                         *)
ReceivePlace(p, j) ==
  /\ p \in {"recv", "look", "amount", "quote", "quoted", "buy", "bought"}
           \cup Saving \cup Restocking
  /\ p \in {"look", "value", "amount"} => j.after = "amount"
  /\ p \in {"quote", "quoted", "buy", "bought"} \cup Restocking => j.after = "recv"
  /\ p \in {"note", "open", "write"} => j.after \in {"amount", "recv"}
  /\ j.after = "amount" \/ p \in {"quote", "quoted"} => j.store <= Len(StoreList)

HttpPlace(p, j) ==
  /\ p \in {"accept", "recv", "row", "cell", "reply", "note", "open", "write"} \cup Restocking
  /\ p \in {"note", "open", "write"} \cup Restocking => j.after = "reply"
  /\ p \in {"row", "cell"} => j.row <= Len(ItemList)

PlacesOK == ReceivePlace(pc["receive"], job["receive"]) /\ HttpPlace(pc["http"], job["http"])

SensorOK ==
  /\ reading \in [Sensors -> 0..(Word - 1)]
  /\ air \subseteq [item : Sensors, reading : 0..(Word - 1)]

ConnectionOK ==
  connection \in {NoConnection}
      \cup [request : Requests, arrived : {"part", "header", "all"}, reads : BOOLEAN]

UpOK == \A s \in Range(StoreList) : ~storeUp[s] => s \in Fragile

(* The inductive invariant.                                                 *)
HouseInv ==
  TypeOK /\ PlacesOK /\ HeardOK /\ FilesOK /\ RowOK /\ SensorOK /\ ConnectionOK /\ UpOK

-----------------------------------------------------------------------------
LEMMA ListsAreFull ==
  /\ \A k \in 1..Len(ItemList) : ItemList[k] \in Items
  /\ \A k \in 1..Len(StoreList) : StoreList[k] \in Range(StoreList)
  /\ Len(ItemList) \in Nat \ {0} /\ Len(StoreList) \in Nat \ {0}
  /\ AnyItem \in Items /\ NoJob \in Jobs
  <1>1. /\ \A k \in 1..Len(ItemList) : ItemList[k] \in Items
        /\ \A k \in 1..Len(StoreList) : StoreList[k] \in Range(StoreList)
        /\ Len(ItemList) \in Nat \ {0} /\ Len(StoreList) \in Nat \ {0}
    BY HouseholdAssumption DEF Range
  <1>2. AnyItem \in Items
    BY <1>1 DEF AnyItem
  <1>3. NoJob \in Jobs
    BY <1>1, <1>2, SensorAssumption DEF NoJob, Jobs
  <1>4. QED
    BY <1>1, <1>2, <1>3

(* A text that is not empty is a level.                                     *)
LEMMA HeadIsLevel ==
  ASSUME NEW text \in Texts, text # <<>>
  PROVE  Head(text) \in 0..100
  <1>1. PICK v \in 0..100 : text = <<v>>
    BY DEF Texts
  <1>2. QED
    BY <1>1

(* The offset of Server::restock is not negative, and at most 200.          *)
LEMMA NewOffsetRange ==
  ASSUME NEW level \in 0..100, NEW offset \in 0..200
  PROVE  NewOffset(level, offset) \in 0..200
  BY DEF NewOffset, Remainder

LEMMA OverlayIsText ==
  ASSUME NEW text \in Texts, NEW v \in 0..100
  PROVE  Overlay(text, v) \in Texts /\ Overlay(text, v) # <<>>
  BY DEF Overlay, Texts

LEMMA InitHouse == Init => HouseInv
  <1> SUFFICES ASSUME Init PROVE HouseInv
    OBVIOUS
  <1>1. /\ pc = [t \in Threads |-> IF t = "receive" THEN "recv" ELSE "accept"]
        /\ job = [t \in Threads |-> NoJob] /\ NoJob.after = "" /\ DOMAIN offsets = {}
        /\ files = [i \in Items |-> <<>>] /\ history = [i \in Items |-> <<>>]
        /\ connection = NoConnection /\ connection.arrived = "nothing" /\ alive = TRUE
        /\ storeUp = [s \in Range(StoreList) |-> TRUE]
    BY DEF Init, HttpInit, NoJob, NoConnection
  <1>2. TypeOK
    BY <1>1, ListsAreFull DEF TypeOK, Threads, Places, Texts
  <1>3. PlacesOK
    BY <1>1 DEF PlacesOK, ReceivePlace, HttpPlace, Threads, Saving, Restocking
  <1>4. \A i \in Items : ~Heard(i)
    BY <1>1 DEF Heard, Known, InWindow, Threads
  <1>5. HeardOK /\ FilesOK /\ RowOK
    BY <1>1, <1>4 DEF HeardOK, FilesOK, RowOK, Reached, Threads
  <1>6. SensorOK
    BY SensorAssumption DEF Init, SensorInit, SensorOK
  <1>7. ConnectionOK /\ UpOK
    BY <1>1 DEF ConnectionOK, UpOK
  <1>8. QED
    BY <1>2, <1>3, <1>5, <1>6, <1>7 DEF HouseInv

-----------------------------------------------------------------------------
(* A step of thread t to place p with locals j.  It may add what it has     *)
(* heard of, take an offset into its window, empty the file it will write,  *)
(* and write the file of an item that has been heard of.                    *)
LEMMA StepOfThread ==
  ASSUME HouseInv, NEW t \in Threads, NEW p \in Places, NEW j \in Jobs,
         pc' = [pc EXCEPT ![t] = p], job' = [job EXCEPT ![t] = j],
         t = "receive" => ReceivePlace(p, j), t = "http" => HttpPlace(p, j),
         DOMAIN offsets' \subseteq Items,
         \A i \in DOMAIN offsets' : offsets'[i] \in 0..200,
         files' \in [Items -> Texts], history' \in [Items -> Texts],
         pc[t] \in Window =>
            (p \in Window /\ j.item = job[t].item) \/ job[t].item \in DOMAIN offsets',
         \A i \in DOMAIN offsets : i \in DOMAIN offsets' \/ (p \in Window /\ j.item = i),
         \A i \in DOMAIN offsets' : Heard(i) \/ (p = "value" /\ j.item = i),
         p \in Window => Heard(j.item),
         p \in Reached => Heard(j.item) \/ j.item \in DOMAIN offsets',
         \A i \in Items : \/ files'[i] = files[i]
                          \/ files'[i] = <<>> /\ p = "write" /\ j.item = i
                          \/ files'[i] # <<>> /\ Heard(i),
         \A i \in Items : history'[i] = history[i] \/ Heard(i),
         pc[t] \in Saving =>
            (p \in Saving /\ j.item = job[t].item) \/ files'[job[t].item] # <<>>,
         pc[t] = "write" => files'[job[t].item] # <<>>,
         t = "http" /\ p = "cell" => files' = files /\ files[ItemList[j.row]] # <<>>,
         connection'.arrived = "nothing" <=> pc'["http"] = "accept",
         SensorOK', ConnectionOK', UNCHANGED <<alive, storeUp>>
  PROVE  HouseInv'
  <1>0. /\ pc \in [Threads -> Places] /\ job \in [Threads -> Jobs]
        /\ files \in [Items -> Texts] /\ DOMAIN offsets \subseteq Items
        /\ alive \in BOOLEAN /\ storeUp \in [Range(StoreList) -> BOOLEAN]
        /\ \A u \in Threads : job[u].item \in Items
        /\ j.item \in Items
    BY DEF HouseInv, TypeOK, Jobs
  <1>1. /\ pc'[t] = p /\ job'[t] = j
        /\ \A u \in Threads \ {t} : pc'[u] = pc[u] /\ job'[u] = job[u]
    BY <1>0
  <1>2. pc' \in [Threads -> Places] /\ job' \in [Threads -> Jobs]
    BY <1>0
  <1>3. TypeOK'
    BY <1>0, <1>2 DEF TypeOK
  <1>4. PlacesOK'
    BY <1>1 DEF HouseInv, PlacesOK, Threads
  <1>5. \A i \in Items : Heard(i) => Heard(i)'
    <2> SUFFICES ASSUME NEW i \in Items, Heard(i) PROVE Heard(i)'
      OBVIOUS
    <2>1. CASE Known(i)
      BY <1>1, <2>1 DEF Heard, Known, InWindow, Window
    <2>2. CASE \E u \in Threads : InWindow(u, i)
      <3>1. PICK u \in Threads : InWindow(u, i)
        BY <2>2
      <3>2. CASE u = t
        BY <1>1, <3>1, <3>2 DEF Heard, Known, InWindow, Window
      <3>3. CASE u # t
        BY <1>1, <3>1, <3>3 DEF Heard, InWindow
      <3>4. QED
        BY <3>2, <3>3
    <2>3. QED
      BY <2>1, <2>2 DEF Heard
  <1>6. \A i \in Items : Heard(i)' => Heard(i) \/ (p = "value" /\ j.item = i)
    <2> SUFFICES ASSUME NEW i \in Items, Heard(i)', ~Heard(i)
                 PROVE  p = "value" /\ j.item = i
      OBVIOUS
    <2>1. CASE i \in DOMAIN offsets'
      BY <2>1
    <2>2. CASE \E u \in Threads : InWindow(u, i)'
      <3>1. PICK u \in Threads : pc'[u] \in Window /\ job'[u].item = i
        BY <2>2 DEF InWindow, Window
      <3>2. u = t
        BY <1>1, <3>1 DEF Heard, InWindow, Window
      <3>3. QED
        BY <1>1, <3>1, <3>2
    <2>3. QED
      BY <2>1, <2>2 DEF Heard, Known
  <1>7. HeardOK'
    <2>1. ASSUME NEW u \in Threads, pc'[u] \in Reached PROVE Heard(job[u].item)'
      <3>1. CASE u = t
        <4>1. Heard(j.item) \/ j.item \in DOMAIN offsets'
          BY <1>1, <2>1, <3>1
        <4>2. Heard(j.item)'
          BY <1>0, <1>5, <4>1 DEF Heard, Known
        <4>3. QED
          BY <1>1, <3>1, <4>2
      <3>2. CASE u # t
        <4>1. Heard(job[u].item)
          BY <1>1, <2>1, <3>2 DEF HouseInv, HeardOK
        <4>2. Heard(job[u].item)'
          BY <4>1, <1>0, <1>1, <1>5, <3>2
        <4>3. QED
          BY <4>2, <1>1, <3>2
      <3>3. QED
        BY <3>1, <3>2
    <2>2. ASSUME NEW i \in Items, files'[i] # <<>> \/ history'[i] # <<>> PROVE Heard(i)'
      BY <1>5, <2>2 DEF HouseInv, HeardOK
    <2>3. QED
      BY <2>1, <2>2 DEF HeardOK
  <1>8. FilesOK'
    <2> SUFFICES ASSUME NEW i \in Items, Heard(i)', files'[i] = <<>>
                 PROVE  \E u \in Threads : job'[u].item = i /\ pc'[u] \in Saving
      BY DEF FilesOK
    <2>1. CASE p \in Saving /\ j.item = i
      BY <1>1, <2>1
    <2>2. CASE ~(p \in Saving /\ j.item = i)
      <3>1. Heard(i) /\ files[i] = <<>>
        BY <1>6, <2>2 DEF Saving
      <3>2. PICK u \in Threads : job[u].item = i /\ pc[u] \in Saving
        BY <3>1 DEF HouseInv, FilesOK
      <3>3. u # t
        BY <3>2, <2>2
      <3>4. QED
        BY <1>1, <3>2, <3>3
    <2>3. QED
      BY <2>1, <2>2
  <1>9. RowOK'
    <2> DEFINE shown == ItemList[job'["http"].row]
    <2> SUFFICES ASSUME pc'["http"] = "cell", files'[shown] = <<>>
                 PROVE  pc'["receive"] = "write" /\ job'["receive"].item = shown
      BY DEF RowOK
    <2>1. t = "receive"
      BY <1>1 DEF Threads
    <2>2. pc["http"] = "cell" /\ job'["http"] = job["http"]
      BY <1>1, <2>1 DEF Threads
    <2>3. shown \in Items
      <3>1. job["http"].row <= Len(ItemList)
        BY <2>2 DEF HouseInv, PlacesOK, HttpPlace
      <3>2. job["http"].row \in 1..(Len(ItemList) + 1)
        BY <1>0 DEF Jobs, Threads
      <3>3. QED
        BY <2>2, <3>1, <3>2, ListsAreFull
    <2>4. CASE files'[shown] = files[shown]
      <3>1. pc["receive"] = "write" /\ job["receive"].item = shown
        BY <2>2, <2>4 DEF HouseInv, RowOK
      <3>2. QED
        BY <2>1, <3>1
    <2>5. CASE p = "write" /\ j.item = shown
      BY <1>1, <2>1, <2>5
    <2>6. QED
      BY <2>3, <2>4, <2>5
  <1>10. UpOK'
    BY DEF HouseInv, UpOK
  <1>11. QED
    BY <1>3, <1>4, <1>7, <1>8, <1>9, <1>10 DEF HouseInv

-----------------------------------------------------------------------------
(* What HouseInv says of the variables, read off.                           *)
LEMMA Typed ==
  ASSUME HouseInv
  PROVE  /\ pc \in [Threads -> Places] /\ job \in [Threads -> Jobs]
         /\ files \in [Items -> Texts] /\ history \in [Items -> Texts]
         /\ DOMAIN offsets \subseteq Items /\ \A i \in DOMAIN offsets : offsets[i] \in 0..200
         /\ SensorOK /\ ConnectionOK
         /\ connection.arrived = "nothing" <=> pc["http"] = "accept"
         /\ "receive" \in Threads /\ "http" \in Threads
  BY DEF HouseInv, TypeOK, Threads

LEMMA JobFields ==
  ASSUME NEW j \in Jobs
  PROVE  /\ j.item \in Items /\ j.reading \in 0..(Word - 1) /\ j.level \in 0..100
         /\ j.offset \in 0..200 /\ j.after \in {"", "amount", "recv", "reply"}
         /\ j.store \in 1..(Len(StoreList) + 1) /\ j.cheapest \in 1..Len(StoreList)
         /\ j.row \in 1..(Len(ItemList) + 1)
  BY DEF Jobs

LEMMA TypedJob ==
  ASSUME HouseInv, NEW t \in Threads
  PROVE  /\ job[t] \in Jobs /\ job[t].item \in Items
         /\ job[t].reading \in 0..(Word - 1) /\ job[t].level \in 0..100 /\ job[t].offset \in 0..200
         /\ job[t].store \in 1..(Len(StoreList) + 1) /\ job[t].cheapest \in 1..Len(StoreList)
         /\ job[t].row \in 1..(Len(ItemList) + 1)
         /\ job[t].after \in {"", "amount", "recv", "reply"}
         /\ job = [job EXCEPT ![t] = job[t]]
  <1>1. job \in [Threads -> Jobs]
    BY Typed
  <1>2. job = [job EXCEPT ![t] = job[t]]
    BY <1>1
  <1>3. job[t] \in Jobs
    BY <1>1
  <1>4. /\ job[t].item \in Items /\ job[t].reading \in 0..(Word - 1) /\ job[t].level \in 0..100
        /\ job[t].offset \in 0..200 /\ job[t].after \in {"", "amount", "recv", "reply"}
        /\ job[t].store \in 1..(Len(StoreList) + 1) /\ job[t].cheapest \in 1..Len(StoreList)
        /\ job[t].row \in 1..(Len(ItemList) + 1)
    BY ONLY <1>3, JobFields, t \in Threads
  <1>5. QED
    BY <1>2, <1>3, <1>4

(* Locals written out, which makes any change of them a matter of reading   *)
(* the fields off.                                                          *)
Locals(i, r, v, o, a, s, c, w) ==
  [item |-> i, reading |-> r, level |-> v, offset |-> o, after |-> a, store |-> s,
   cheapest |-> c, row |-> w]

LEMMA LocalsOf ==
  ASSUME NEW j \in Jobs
  PROVE  j = Locals(j.item, j.reading, j.level, j.offset, j.after, j.store, j.cheapest, j.row)
  BY DEF Jobs, Locals

LEMMA LocalsTyped ==
  ASSUME NEW i \in Items, NEW r \in 0..(Word - 1), NEW v \in 0..100, NEW o \in 0..200,
         NEW a \in {"", "amount", "recv", "reply"}, NEW s \in 1..(Len(StoreList) + 1),
         NEW c \in 1..Len(StoreList), NEW w \in 1..(Len(ItemList) + 1)
  PROVE  Locals(i, r, v, o, a, s, c, w) \in Jobs
  BY DEF Jobs, Locals

(* One field of the locals is written, by a value of its range.             *)
LEMMA LocalsAfter ==
  ASSUME NEW j \in Jobs, NEW x
  PROVE  [j EXCEPT !.after = x]
            = Locals(j.item, j.reading, j.level, j.offset, x, j.store, j.cheapest, j.row)
  BY LocalsOf DEF Locals

LEMMA JobWithItem ==
  ASSUME NEW j \in Jobs, NEW x \in Items
  PROVE  /\ [j EXCEPT !.item = x] \in Jobs /\ [j EXCEPT !.item = x].item = x
         /\ [j EXCEPT !.item = x].after = j.after
         /\ [j EXCEPT !.item = x].store = j.store
         /\ [j EXCEPT !.item = x].row = j.row
  <1>1. [j EXCEPT !.item = x]
           = Locals(x, j.reading, j.level, j.offset, j.after, j.store, j.cheapest, j.row)
    BY LocalsOf DEF Locals
  <1>2. Locals(x, j.reading, j.level, j.offset, j.after, j.store, j.cheapest, j.row) \in Jobs
    <2>1. /\ j.item \in Items /\ j.reading \in 0..(Word - 1) /\ j.level \in 0..100
          /\ j.offset \in 0..200 /\ j.after \in {"", "amount", "recv", "reply"}
          /\ j.store \in 1..(Len(StoreList) + 1) /\ j.cheapest \in 1..Len(StoreList)
          /\ j.row \in 1..(Len(ItemList) + 1)
      BY JobFields
    <2>2. QED
      BY <2>1, LocalsTyped, ZenonT(40)
  <1>3. QED
    BY <1>1, <1>2 DEF Locals

LEMMA JobWithReading ==
  ASSUME NEW j \in Jobs, NEW x \in 0..(Word - 1)
  PROVE  /\ [j EXCEPT !.reading = x] \in Jobs /\ [j EXCEPT !.reading = x].item = j.item
         /\ [j EXCEPT !.reading = x].after = j.after
         /\ [j EXCEPT !.reading = x].store = j.store
         /\ [j EXCEPT !.reading = x].row = j.row
  <1>1. [j EXCEPT !.reading = x]
           = Locals(j.item, x, j.level, j.offset, j.after, j.store, j.cheapest, j.row)
    BY LocalsOf DEF Locals
  <1>2. Locals(j.item, x, j.level, j.offset, j.after, j.store, j.cheapest, j.row) \in Jobs
    <2>1. /\ j.item \in Items /\ j.reading \in 0..(Word - 1) /\ j.level \in 0..100
          /\ j.offset \in 0..200 /\ j.after \in {"", "amount", "recv", "reply"}
          /\ j.store \in 1..(Len(StoreList) + 1) /\ j.cheapest \in 1..Len(StoreList)
          /\ j.row \in 1..(Len(ItemList) + 1)
      BY JobFields
    <2>2. QED
      BY <2>1, LocalsTyped, ZenonT(40)
  <1>3. QED
    BY <1>1, <1>2 DEF Locals

LEMMA JobWithLevel ==
  ASSUME NEW j \in Jobs, NEW x \in 0..100
  PROVE  /\ [j EXCEPT !.level = x] \in Jobs /\ [j EXCEPT !.level = x].item = j.item
         /\ [j EXCEPT !.level = x].after = j.after
         /\ [j EXCEPT !.level = x].store = j.store
         /\ [j EXCEPT !.level = x].row = j.row
  <1>1. [j EXCEPT !.level = x]
           = Locals(j.item, j.reading, x, j.offset, j.after, j.store, j.cheapest, j.row)
    BY LocalsOf DEF Locals
  <1>2. Locals(j.item, j.reading, x, j.offset, j.after, j.store, j.cheapest, j.row) \in Jobs
    <2>1. /\ j.item \in Items /\ j.reading \in 0..(Word - 1) /\ j.level \in 0..100
          /\ j.offset \in 0..200 /\ j.after \in {"", "amount", "recv", "reply"}
          /\ j.store \in 1..(Len(StoreList) + 1) /\ j.cheapest \in 1..Len(StoreList)
          /\ j.row \in 1..(Len(ItemList) + 1)
      BY JobFields
    <2>2. QED
      BY <2>1, LocalsTyped, ZenonT(40)
  <1>3. QED
    BY <1>1, <1>2 DEF Locals

LEMMA JobWithOffset ==
  ASSUME NEW j \in Jobs, NEW x \in 0..200
  PROVE  /\ [j EXCEPT !.offset = x] \in Jobs /\ [j EXCEPT !.offset = x].item = j.item
         /\ [j EXCEPT !.offset = x].after = j.after
         /\ [j EXCEPT !.offset = x].store = j.store
         /\ [j EXCEPT !.offset = x].row = j.row
  <1>1. [j EXCEPT !.offset = x]
           = Locals(j.item, j.reading, j.level, x, j.after, j.store, j.cheapest, j.row)
    BY LocalsOf DEF Locals
  <1>2. Locals(j.item, j.reading, j.level, x, j.after, j.store, j.cheapest, j.row) \in Jobs
    <2>1. /\ j.item \in Items /\ j.reading \in 0..(Word - 1) /\ j.level \in 0..100
          /\ j.offset \in 0..200 /\ j.after \in {"", "amount", "recv", "reply"}
          /\ j.store \in 1..(Len(StoreList) + 1) /\ j.cheapest \in 1..Len(StoreList)
          /\ j.row \in 1..(Len(ItemList) + 1)
      BY JobFields
    <2>2. QED
      BY <2>1, LocalsTyped, ZenonT(40)
  <1>3. QED
    BY <1>1, <1>2 DEF Locals

LEMMA JobWithAfter ==
  ASSUME NEW j \in Jobs, NEW x \in {"", "amount", "recv", "reply"}
  PROVE  /\ [j EXCEPT !.after = x] \in Jobs /\ [j EXCEPT !.after = x].item = j.item
         /\ [j EXCEPT !.after = x].after = x
         /\ [j EXCEPT !.after = x].store = j.store
         /\ [j EXCEPT !.after = x].row = j.row
  <1>1. [j EXCEPT !.after = x]
           = Locals(j.item, j.reading, j.level, j.offset, x, j.store, j.cheapest, j.row)
    BY LocalsAfter
  <1>2. Locals(j.item, j.reading, j.level, j.offset, x, j.store, j.cheapest, j.row) \in Jobs
    <2>1. /\ j.item \in Items /\ j.reading \in 0..(Word - 1) /\ j.level \in 0..100
          /\ j.offset \in 0..200 /\ j.after \in {"", "amount", "recv", "reply"}
          /\ j.store \in 1..(Len(StoreList) + 1) /\ j.cheapest \in 1..Len(StoreList)
          /\ j.row \in 1..(Len(ItemList) + 1)
      BY JobFields
    <2>2. QED
      BY <2>1, LocalsTyped, ZenonT(40)
  <1>3. QED
    BY <1>1, <1>2 DEF Locals

LEMMA JobWithStore ==
  ASSUME NEW j \in Jobs, NEW x \in 1..(Len(StoreList) + 1)
  PROVE  /\ [j EXCEPT !.store = x] \in Jobs /\ [j EXCEPT !.store = x].item = j.item
         /\ [j EXCEPT !.store = x].after = j.after
         /\ [j EXCEPT !.store = x].store = x
         /\ [j EXCEPT !.store = x].row = j.row
  <1>1. [j EXCEPT !.store = x]
           = Locals(j.item, j.reading, j.level, j.offset, j.after, x, j.cheapest, j.row)
    BY LocalsOf DEF Locals
  <1>2. Locals(j.item, j.reading, j.level, j.offset, j.after, x, j.cheapest, j.row) \in Jobs
    <2>1. /\ j.item \in Items /\ j.reading \in 0..(Word - 1) /\ j.level \in 0..100
          /\ j.offset \in 0..200 /\ j.after \in {"", "amount", "recv", "reply"}
          /\ j.store \in 1..(Len(StoreList) + 1) /\ j.cheapest \in 1..Len(StoreList)
          /\ j.row \in 1..(Len(ItemList) + 1)
      BY JobFields
    <2>2. QED
      BY <2>1, LocalsTyped, ZenonT(40)
  <1>3. QED
    BY <1>1, <1>2 DEF Locals

LEMMA JobWithCheapest ==
  ASSUME NEW j \in Jobs, NEW x \in 1..Len(StoreList)
  PROVE  /\ [j EXCEPT !.cheapest = x] \in Jobs /\ [j EXCEPT !.cheapest = x].item = j.item
         /\ [j EXCEPT !.cheapest = x].after = j.after
         /\ [j EXCEPT !.cheapest = x].store = j.store
         /\ [j EXCEPT !.cheapest = x].row = j.row
  <1>1. [j EXCEPT !.cheapest = x]
           = Locals(j.item, j.reading, j.level, j.offset, j.after, j.store, x, j.row)
    BY LocalsOf DEF Locals
  <1>2. Locals(j.item, j.reading, j.level, j.offset, j.after, j.store, x, j.row) \in Jobs
    <2>1. /\ j.item \in Items /\ j.reading \in 0..(Word - 1) /\ j.level \in 0..100
          /\ j.offset \in 0..200 /\ j.after \in {"", "amount", "recv", "reply"}
          /\ j.store \in 1..(Len(StoreList) + 1) /\ j.cheapest \in 1..Len(StoreList)
          /\ j.row \in 1..(Len(ItemList) + 1)
      BY JobFields
    <2>2. QED
      BY <2>1, LocalsTyped, ZenonT(40)
  <1>3. QED
    BY <1>1, <1>2 DEF Locals

LEMMA JobWithRow ==
  ASSUME NEW j \in Jobs, NEW x \in 1..(Len(ItemList) + 1)
  PROVE  /\ [j EXCEPT !.row = x] \in Jobs /\ [j EXCEPT !.row = x].item = j.item
         /\ [j EXCEPT !.row = x].after = j.after
         /\ [j EXCEPT !.row = x].store = j.store
         /\ [j EXCEPT !.row = x].row = x
  <1>1. [j EXCEPT !.row = x]
           = Locals(j.item, j.reading, j.level, j.offset, j.after, j.store, j.cheapest, x)
    BY LocalsOf DEF Locals
  <1>2. Locals(j.item, j.reading, j.level, j.offset, j.after, j.store, j.cheapest, x) \in Jobs
    <2>1. /\ j.item \in Items /\ j.reading \in 0..(Word - 1) /\ j.level \in 0..100
          /\ j.offset \in 0..200 /\ j.after \in {"", "amount", "recv", "reply"}
          /\ j.store \in 1..(Len(StoreList) + 1) /\ j.cheapest \in 1..Len(StoreList)
          /\ j.row \in 1..(Len(ItemList) + 1)
      BY JobFields
    <2>2. QED
      BY <2>1, LocalsTyped, ZenonT(40)
  <1>3. QED
    BY <1>1, <1>2 DEF Locals

LEMMA PeersStay ==
  ASSUME HouseInv, UNCHANGED peerVars
  PROVE  SensorOK' /\ ConnectionOK'
  BY DEF peerVars, sensorVars, HouseInv, SensorOK, ConnectionOK

(* A step that leaves the threads alone.                                    *)
LEMMA StepOfOthers ==
  ASSUME HouseInv, UNCHANGED threadVars, alive' \in BOOLEAN,
         storeUp' \in [Range(StoreList) -> BOOLEAN], UpOK', SensorOK', ConnectionOK',
         connection'.arrived = "nothing" <=> connection.arrived = "nothing"
  PROVE  HouseInv'
  <1>1. TypeOK'
    BY DEF HouseInv, TypeOK, threadVars
  <1>2. PlacesOK' /\ RowOK'
    BY DEF HouseInv, threadVars, PlacesOK, RowOK
  <1>3. \A i : Heard(i)' <=> Heard(i)
    BY DEF threadVars, Heard, Known, InWindow
  <1>4. HeardOK'
    BY <1>3 DEF HouseInv, threadVars, HeardOK
  <1>5. FilesOK'
    BY <1>3 DEF HouseInv, threadVars, FilesOK
  <1>6. QED
    BY <1>1, <1>2, <1>4, <1>5 DEF HouseInv

LEMMA DieStep ==
  ASSUME HouseInv, Die
  PROVE  HouseInv'
  BY PeersStay, StepOfOthers DEF Die, peerVars, HouseInv, TypeOK, UpOK

(* A step of thread t that leaves offsets, files and history alone, between *)
(* two places where neither is under way.                                   *)
LEMMA QuietStep ==
  ASSUME HouseInv, NEW t \in Threads, NEW p \in Places \ (Window \cup Saving), NEW j \in Jobs,
         pc' = [pc EXCEPT ![t] = p], job' = [job EXCEPT ![t] = j],
         t = "receive" => ReceivePlace(p, j), t = "http" => HttpPlace(p, j),
         UNCHANGED <<offsets, files, history, alive, storeUp>>,
         pc[t] \notin Window \cup Saving,
         p \in Reached => Heard(j.item),
         t = "http" /\ p = "cell" => files[ItemList[j.row]] # <<>>,
         connection'.arrived = "nothing" <=> pc'["http"] = "accept",
         SensorOK', ConnectionOK'
  PROVE  HouseInv'
  <1>1. p \in Places /\ p \notin Window /\ p \notin Saving /\ pc[t] \notin Window
        /\ pc[t] \notin Saving /\ pc[t] # "write"
    BY DEF Saving
  <1>2. \A i \in DOMAIN offsets' : Heard(i)
    BY DEF Heard, Known
  <1>3. QED
    BY <1>1, <1>2, Typed, StepOfThread

(* The connection is there as long as the HTTP thread is not in accept.     *)
LEMMA ConnectionStays ==
  ASSUME HouseInv, NEW t \in Threads, NEW p \in Places, pc' = [pc EXCEPT ![t] = p],
         UNCHANGED peerVars, t = "receive" \/ (pc["http"] # "accept" /\ p # "accept")
  PROVE  /\ connection'.arrived = "nothing" <=> pc'["http"] = "accept"
         /\ SensorOK' /\ ConnectionOK'
  <1>1. pc'["http"] = "accept" <=> pc["http"] = "accept"
    BY Typed DEF Threads
  <1>2. QED
    BY <1>1, Typed, PeersStay DEF peerVars

-----------------------------------------------------------------------------
(* Server::restock and RESTManager::save, whichever thread runs them.       *)

(* A thread is at a place of Server::restock only with the continuation     *)
(* that is its own.                                                         *)
LEMMA AfterRestock ==
  ASSUME HouseInv, NEW t \in Threads, pc[t] \in Restocking
  PROVE  /\ t = "receive" => job[t].after = "recv"
         /\ t = "http" => job[t].after = "reply" /\ pc["http"] # "accept"
  BY DEF HouseInv, PlacesOK, ReceivePlace, HttpPlace, Restocking

LEMMA FindStep ==
  ASSUME HouseInv, NEW t \in Threads, Find(t)
  PROVE  HouseInv'
  <1> DEFINE p == IF Known(job[t].item) THEN "at" ELSE job[t].after
  <1>1. pc' = [pc EXCEPT ![t] = p] /\ job' = [job EXCEPT ![t] = job[t]] /\ pc[t] = "restock"
        /\ UNCHANGED peerVars /\ UNCHANGED <<offsets, files, history, alive, storeUp>>
    BY TypedJob DEF Find, Goto, At
  <1>2. /\ t = "receive" => job[t].after = "recv"
        /\ t = "http" => job[t].after = "reply" /\ pc["http"] # "accept"
    BY <1>1, AfterRestock DEF Restocking
  <1>3. p \in Places \ (Window \cup Saving) /\ p # "accept" /\ p # "cell"
    BY <1>2 DEF Threads, Places, Window, Saving
  <1>4. t = "receive" => ReceivePlace(p, job[t])
    BY <1>1, <1>2 DEF HouseInv, PlacesOK, ReceivePlace, Restocking, Saving
  <1>5. t = "http" => HttpPlace(p, job[t])
    BY <1>1, <1>2 DEF HttpPlace, Restocking
  <1>6. p \in Reached => Heard(job[t].item)
    BY <1>2 DEF Reached, Heard, Threads
  <1>7. connection'.arrived = "nothing" <=> pc'["http"] = "accept"
    BY <1>1, <1>2, <1>3, ConnectionStays DEF Threads
  <1>8. pc[t] \notin Window \cup Saving
    BY <1>1 DEF Window, Saving
  <1> HIDE DEF p
  <1>9. QED
    BY <1>1, <1>3, <1>4, <1>5, <1>6, <1>7, <1>8, PeersStay, TypedJob, QuietStep

LEMMA ReadOffsetStep ==
  ASSUME HouseInv, NEW t \in Threads, ReadOffset(t)
  PROVE  HouseInv'
  <1> DEFINE j == [job[t] EXCEPT !.offset = offsets[job[t].item]]
  <1> SUFFICES ASSUME Known(job[t].item), job' = [job EXCEPT ![t] = j],
                      pc' = [pc EXCEPT ![t] = "erase"], pc[t] = "at", UNCHANGED peerVars,
                      UNCHANGED <<offsets, files, history, alive, storeUp>>
               PROVE  HouseInv'
    BY DieStep DEF ReadOffset, At, Goto
  <1>1. j \in Jobs /\ j.item = job[t].item /\ j.after = job[t].after /\ j.store = job[t].store
    <2>1. offsets[job[t].item] \in 0..200 /\ job[t] \in Jobs
      BY Typed, TypedJob, ZenonT(40) DEF Known
    <2>2. QED
      BY <2>1, JobWithOffset
  <1>2. /\ t = "receive" => job[t].after = "recv"
        /\ t = "http" => job[t].after = "reply" /\ pc["http"] # "accept"
    BY AfterRestock DEF Restocking
  <1>3. t = "receive" => ReceivePlace("erase", j)
    BY <1>1, <1>2 DEF ReceivePlace, Restocking, Saving
  <1>4. t = "http" => HttpPlace("erase", j)
    BY <1>1, <1>2 DEF HttpPlace, Restocking
  <1>5. Heard(j.item)
    BY <1>1 DEF Heard
  <1>6. "erase" \in Places \ (Window \cup Saving)
    BY DEF Places, Window, Saving
  <1>7. connection'.arrived = "nothing" <=> pc'["http"] = "accept"
    BY <1>2, <1>6, ConnectionStays DEF Threads
  <1>8. pc[t] \notin Window \cup Saving
    BY DEF Window, Saving
  <1> HIDE DEF j
  <1>9. QED
    BY <1>1, <1>3, <1>4, <1>5, <1>6, <1>7, <1>8, PeersStay, QuietStep

LEMMA EraseStep ==
  ASSUME HouseInv, NEW t \in Threads, Erase(t)
  PROVE  HouseInv'
  <1>1. /\ pc[t] = "erase" /\ pc' = [pc EXCEPT ![t] = "get"] /\ job' = [job EXCEPT ![t] = job[t]]
        /\ UNCHANGED peerVars /\ UNCHANGED <<files, history, alive, storeUp>>
    BY TypedJob DEF Erase, At, Goto
  <1>2. DOMAIN offsets' = DOMAIN offsets \ {job[t].item}
        /\ \A i \in DOMAIN offsets' : offsets'[i] = offsets[i]
    BY DEF Erase, Restrict
  <1>3. /\ t = "receive" => job[t].after = "recv"
        /\ t = "http" => job[t].after = "reply" /\ pc["http"] # "accept"
    BY <1>1, AfterRestock DEF Restocking
  <1>4. /\ t = "receive" => ReceivePlace("get", job[t])
        /\ t = "http" => HttpPlace("get", job[t])
    BY <1>3 DEF ReceivePlace, HttpPlace, Restocking, Saving
  <1>5. Heard(job[t].item)
    BY <1>1 DEF HouseInv, HeardOK, Reached
  <1>6. /\ \A i \in DOMAIN offsets' : Heard(i)
        /\ \A i \in DOMAIN offsets : i \in DOMAIN offsets' \/ job[t].item = i
    BY <1>2 DEF Heard, Known
  <1>7. "get" \in Places /\ "get" \in Window /\ pc[t] \notin Window /\ pc[t] \notin Saving
    BY <1>1 DEF Places, Window, Saving
  <1>8. connection'.arrived = "nothing" <=> pc'["http"] = "accept"
    BY <1>1, <1>3, <1>7, ConnectionStays DEF Threads
  <1>9. SensorOK' /\ ConnectionOK' /\ DOMAIN offsets' \subseteq Items
        /\ \A i \in DOMAIN offsets' : offsets'[i] \in 0..200
    BY <1>1, <1>2, PeersStay, Typed
  <1>10. /\ job[t] \in Jobs /\ files' \in [Items -> Texts] /\ history' \in [Items -> Texts]
         /\ \A i \in Items : files'[i] = files[i] /\ history'[i] = history[i]
    BY <1>1, Typed, TypedJob
  <1>11. QED
    BY <1>1, <1>4, <1>5, <1>6, <1>7, <1>8, <1>9, <1>10, StepOfThread, ZenonT(40)

LEMMA ReadLevelStep ==
  ASSUME HouseInv, NEW t \in Threads, ReadLevel(t)
  PROVE  HouseInv'
  <1> DEFINE text == files[job[t].item]
             o == NewOffset(Head(text), job[t].offset)
             j == [[job[t] EXCEPT !.offset = o] EXCEPT !.level = 100]
  <1> SUFFICES ASSUME text # <<>>, job' = [job EXCEPT ![t] = j],
                      pc' = [pc EXCEPT ![t] = "insert"], pc[t] = "get", UNCHANGED peerVars,
                      UNCHANGED <<offsets, files, history, alive, storeUp>>
               PROVE  HouseInv'
    BY DieStep, ZenonT(40) DEF ReadLevel, At, Goto
  <1>1. o \in 0..200
    BY Typed, TypedJob, HeadIsLevel, NewOffsetRange, ZenonT(40)
  <1>2. j \in Jobs /\ j.item = job[t].item /\ j.after = job[t].after
    <2> HIDE DEF o
    <2> DEFINE k == [job[t] EXCEPT !.offset = o]
    <2>1. k \in Jobs /\ k.item = job[t].item /\ k.after = job[t].after
      BY <1>1, TypedJob, JobWithOffset, ZenonT(40)
    <2> HIDE DEF k
    <2>2. \A v \in 0..100 : /\ [k EXCEPT !.level = v] \in Jobs
                             /\ [k EXCEPT !.level = v].item = k.item
                             /\ [k EXCEPT !.level = v].after = k.after
      BY <2>1, JobWithLevel
    <2>3. QED
      BY <2>1, <2>2 DEF k
  <1>3. /\ t = "receive" => job[t].after = "recv"
        /\ t = "http" => job[t].after = "reply" /\ pc["http"] # "accept"
    BY AfterRestock DEF Restocking
  <1> HIDE DEF j
  <1>4. /\ t = "receive" => ReceivePlace("insert", j)
        /\ t = "http" => HttpPlace("insert", j)
    BY <1>2, <1>3 DEF ReceivePlace, HttpPlace, Restocking, Saving
  <1>5. Heard(job[t].item)
    BY DEF HouseInv, HeardOK, Reached
  <1>6. \A i \in DOMAIN offsets' : Heard(i)
    BY DEF Heard, Known
  <1>7. "insert" \in Places /\ "insert" \in Window /\ pc[t] \notin Saving
    BY DEF Places, Window, Saving
  <1>8. connection'.arrived = "nothing" <=> pc'["http"] = "accept"
    BY <1>3, <1>7, ConnectionStays DEF Threads
  <1>9. SensorOK' /\ ConnectionOK'
    BY PeersStay
  <1>10. QED
    BY <1>2, <1>4, <1>5, <1>6, <1>7, <1>8, <1>9, Typed, StepOfThread

LEMMA InsertStep ==
  ASSUME HouseInv, NEW t \in Threads, Insert(t)
  PROVE  HouseInv'
  <1>1. /\ pc[t] = "insert" /\ pc' = [pc EXCEPT ![t] = "note"] /\ job' = [job EXCEPT ![t] = job[t]]
        /\ UNCHANGED peerVars /\ UNCHANGED <<files, history, alive, storeUp>>
    BY TypedJob DEF Insert, At, Goto
  <1>2. DOMAIN offsets' = DOMAIN offsets \cup {job[t].item}
        /\ \A i \in DOMAIN offsets' : offsets'[i] \in 0..200
    <2> DEFINE new == [i \in DOMAIN offsets \cup {job[t].item} |->
                          IF i \in DOMAIN offsets THEN offsets[i] ELSE job[t].offset]
    <2>1. offsets' = new
      BY DEF Insert
    <2>2. job[t].offset \in 0..200 /\ \A i \in DOMAIN offsets : offsets[i] \in 0..200
      BY Typed, TypedJob, ZenonT(40)
    <2>3. \A i \in DOMAIN offsets \cup {job[t].item} : new[i] \in 0..200
      BY <2>2
    <2>4. QED
      BY <2>1, <2>3
  <1>3. /\ t = "receive" => job[t].after = "recv"
        /\ t = "http" => job[t].after = "reply" /\ pc["http"] # "accept"
    BY <1>1, AfterRestock DEF Restocking
  <1>4. /\ t = "receive" => ReceivePlace("note", job[t])
        /\ t = "http" => HttpPlace("note", job[t])
    BY <1>3 DEF ReceivePlace, HttpPlace, Restocking, Saving
  <1>5. Heard(job[t].item)
    BY <1>1 DEF HouseInv, HeardOK, Reached
  <1>6. \A i \in DOMAIN offsets' : Heard(i)
    BY <1>2, <1>5 DEF Heard, Known
  <1>7. "note" \in Places /\ "note" \notin Window /\ pc[t] \notin Saving
    BY <1>1 DEF Places, Window, Saving
  <1>8. connection'.arrived = "nothing" <=> pc'["http"] = "accept"
    BY <1>1, <1>3, <1>7, ConnectionStays DEF Threads
  <1>9. SensorOK' /\ ConnectionOK' /\ DOMAIN offsets' \subseteq Items
    BY <1>1, <1>2, PeersStay, Typed, TypedJob
  <1>10. QED
    BY <1>1, <1>2, <1>4, <1>5, <1>6, <1>7, <1>8, <1>9, Typed, TypedJob, StepOfThread

(* RESTManager::save: the thread is at one of its three places only with an *)
(* item that has been heard of.                                             *)
LEMMA SavingThread ==
  ASSUME HouseInv, NEW t \in Threads, pc[t] \in {"note", "open", "write"}
  PROVE  /\ t = "receive" => job[t].after \in {"amount", "recv"}
         /\ t = "http" => job[t].after = "reply" /\ pc["http"] # "accept"
         /\ t = "receive" /\ job[t].after = "amount" => job[t].store <= Len(StoreList)
         /\ Heard(job[t].item)
  BY DEF HouseInv, PlacesOK, ReceivePlace, HttpPlace, HeardOK, Reached

LEMMA NoteStep ==
  ASSUME HouseInv, NEW t \in Threads, Note(t)
  PROVE  HouseInv'
  <1>1. /\ pc[t] = "note" /\ pc' = [pc EXCEPT ![t] = "open"] /\ job' = [job EXCEPT ![t] = job[t]]
        /\ history' = [history EXCEPT ![job[t].item] = <<job[t].level>>]
        /\ UNCHANGED peerVars /\ UNCHANGED <<offsets, files, alive, storeUp>>
    BY TypedJob DEF Note, At, Goto
  <1>2. /\ t = "receive" => job[t].after \in {"amount", "recv"}
        /\ t = "http" => job[t].after = "reply" /\ pc["http"] # "accept"
        /\ t = "receive" /\ job[t].after = "amount" => job[t].store <= Len(StoreList)
        /\ Heard(job[t].item)
    BY <1>1, SavingThread
  <1>3. /\ t = "receive" => ReceivePlace("open", job[t])
        /\ t = "http" => HttpPlace("open", job[t])
    BY <1>2 DEF ReceivePlace, HttpPlace, Restocking, Saving
  <1>4. <<job[t].level>> \in Texts
    BY TypedJob DEF Texts
  <1>5. /\ history' \in [Items -> Texts] /\ files' \in [Items -> Texts]
        /\ \A i \in Items : files'[i] = files[i]
        /\ \A i \in Items : history'[i] = history[i] \/ Heard(i)
    BY <1>1, <1>2, <1>4, Typed
  <1>6. \A i \in DOMAIN offsets' : Heard(i) /\ i \in DOMAIN offsets
    BY <1>1 DEF Heard, Known
  <1>7. "open" \in Places /\ "open" \notin Window /\ "open" \in Saving /\ pc[t] \notin Window
    BY <1>1 DEF Places, Window, Saving
  <1>8. connection'.arrived = "nothing" <=> pc'["http"] = "accept"
    BY <1>1, <1>2, <1>7, ConnectionStays DEF Threads
  <1>9. /\ SensorOK' /\ ConnectionOK' /\ DOMAIN offsets' \subseteq Items /\ job[t] \in Jobs
        /\ \A i \in DOMAIN offsets' : offsets'[i] \in 0..200
    BY <1>1, PeersStay, Typed, TypedJob, ZenonT(40)
  <1>10. QED
    BY <1>1, <1>2, <1>3, <1>5, <1>6, <1>7, <1>8, <1>9, StepOfThread

LEMMA TruncateStep ==
  ASSUME HouseInv, NEW t \in Threads, Truncate(t)
  PROVE  HouseInv'
  <1>1. /\ pc[t] = "open" /\ pc' = [pc EXCEPT ![t] = "write"] /\ job' = [job EXCEPT ![t] = job[t]]
        /\ files' = [files EXCEPT ![job[t].item] = <<>>]
        /\ UNCHANGED peerVars /\ UNCHANGED <<offsets, history, alive, storeUp>>
    BY TypedJob DEF Truncate, At, Goto
  <1>2. /\ t = "receive" => job[t].after \in {"amount", "recv"}
        /\ t = "http" => job[t].after = "reply" /\ pc["http"] # "accept"
        /\ t = "receive" /\ job[t].after = "amount" => job[t].store <= Len(StoreList)
        /\ Heard(job[t].item)
    BY <1>1, SavingThread
  <1>3. /\ t = "receive" => ReceivePlace("write", job[t])
        /\ t = "http" => HttpPlace("write", job[t])
    BY <1>2 DEF ReceivePlace, HttpPlace, Restocking, Saving
  <1>4. <<>> \in Texts
    BY DEF Texts
  <1>5. /\ history' \in [Items -> Texts] /\ files' \in [Items -> Texts]
        /\ \A i \in Items : files'[i] = files[i] \/ (files'[i] = <<>> /\ job[t].item = i)
        /\ \A i \in Items : history'[i] = history[i]
    BY <1>1, <1>4, Typed
  <1>6. \A i \in DOMAIN offsets' : Heard(i) /\ i \in DOMAIN offsets
    BY <1>1 DEF Heard, Known
  <1>7. "write" \in Places /\ "write" \notin Window /\ "write" \in Saving /\ pc[t] \notin Window
    BY <1>1 DEF Places, Window, Saving
  <1>8. connection'.arrived = "nothing" <=> pc'["http"] = "accept"
    BY <1>1, <1>2, <1>7, ConnectionStays DEF Threads
  <1>9. /\ SensorOK' /\ ConnectionOK' /\ DOMAIN offsets' \subseteq Items /\ job[t] \in Jobs
        /\ \A i \in DOMAIN offsets' : offsets'[i] \in 0..200
    BY <1>1, PeersStay, Typed, TypedJob, ZenonT(40)
  <1>10. QED
    BY <1>1, <1>2, <1>3, <1>5, <1>6, <1>7, <1>8, <1>9, StepOfThread

LEMMA WriteStep ==
  ASSUME HouseInv, NEW t \in Threads, Write(t)
  PROVE  HouseInv'
  <1> DEFINE p == job[t].after
             text == Overlay(files[job[t].item], job[t].level)
  <1>1. /\ pc[t] = "write" /\ pc' = [pc EXCEPT ![t] = p] /\ job' = [job EXCEPT ![t] = job[t]]
        /\ files' = [files EXCEPT ![job[t].item] = text]
        /\ UNCHANGED peerVars /\ UNCHANGED <<offsets, history, alive, storeUp>>
    BY TypedJob DEF Write, At, Goto
  <1>2. /\ t = "receive" => p \in {"amount", "recv"}
        /\ t = "http" => p = "reply" /\ pc["http"] # "accept"
        /\ t = "receive" /\ p = "amount" => job[t].store <= Len(StoreList)
        /\ Heard(job[t].item)
    BY <1>1, SavingThread
  <1>3. /\ t = "receive" => ReceivePlace(p, job[t])
        /\ t = "http" => HttpPlace(p, job[t])
    BY <1>2 DEF ReceivePlace, HttpPlace, Restocking, Saving
  <1>4. text \in Texts /\ text # <<>>
    BY Typed, TypedJob, OverlayIsText
  <1>5. p \in Places /\ p \notin Window /\ p # "cell" /\ p # "accept" /\ pc[t] \notin Window
    BY <1>1, <1>2 DEF Places, Window, Threads
  <1> HIDE DEF p, text
  <1>6. /\ history' \in [Items -> Texts] /\ files' \in [Items -> Texts]
        /\ \A i \in Items : files'[i] = files[i] \/ (files'[i] # <<>> /\ Heard(i))
        /\ \A i \in Items : history'[i] = history[i]
        /\ files'[job[t].item] # <<>>
    BY <1>1, <1>2, <1>4, Typed, TypedJob
  <1>7. \A i \in DOMAIN offsets' : Heard(i) /\ i \in DOMAIN offsets
    BY <1>1 DEF Heard, Known
  <1>8. connection'.arrived = "nothing" <=> pc'["http"] = "accept"
    BY <1>1, <1>2, <1>5, ConnectionStays DEF Threads
  <1>9. /\ SensorOK' /\ ConnectionOK' /\ DOMAIN offsets' \subseteq Items /\ job[t] \in Jobs
        /\ \A i \in DOMAIN offsets' : offsets'[i] \in 0..200
    BY <1>1, PeersStay, Typed, TypedJob, ZenonT(40)
  <1>10. QED
    BY <1>1, <1>2, <1>3, <1>5, <1>6, <1>7, <1>8, <1>9, StepOfThread

LEMMA RestocksStep ==
  ASSUME HouseInv, NEW t \in Threads, Restocks(t)
  PROVE  HouseInv'
  BY FindStep, ReadOffsetStep, EraseStep, ReadLevelStep, InsertStep, NoteStep, TruncateStep,
     WriteStep DEF Restocks

-----------------------------------------------------------------------------
(* Server::receive.                                                         *)

LEMMA ReceiveStep ==
  ASSUME HouseInv, Receive
  PROVE  HouseInv'
  <1> DEFINE t == "receive"
  <1>1. PICK m \in air : /\ air' = air \ {m}
                         /\ job' = [job EXCEPT ![t] =
                                       [NoJob EXCEPT !.item = m.item, !.reading = m.reading,
                                                     !.after = "amount"]]
    BY DEF Receive
  <1> DEFINE a == "amount"
             j1 == [NoJob EXCEPT !.item = m.item]
             j2 == [j1 EXCEPT !.reading = m.reading]
             j == [j2 EXCEPT !.after = a]
  <1>2. job' = [job EXCEPT ![t] = j]
    BY <1>1
  <1>3. /\ pc[t] = "recv" /\ pc' = [pc EXCEPT ![t] = "look"]
        /\ UNCHANGED <<reading, connection>>
        /\ UNCHANGED <<offsets, files, history, alive, storeUp>>
    BY DEF Receive, At, Goto
  <1>4. m.item \in Items /\ m.reading \in 0..(Word - 1)
    BY Typed DEF SensorOK, Items
  <1>5. j \in Jobs /\ j.after = "amount" /\ j.store = 1
    <2>1. NoJob \in Jobs /\ NoJob.store = 1
      BY ListsAreFull DEF NoJob
    <2> HIDE DEF NoJob
    <2>2. j1 \in Jobs /\ j1.store = 1
      BY <1>4, <2>1, JobWithItem
    <2> HIDE DEF j1
    <2>3. j2 \in Jobs /\ j2.store = 1
      BY <1>4, <2>2, JobWithReading
    <2>4. a \in {"", "amount", "recv", "reply"}
      OBVIOUS
    <2> HIDE DEF j2, a
    <2>5. j \in Jobs /\ j.store = 1 /\ j.after = a
      BY <2>3, <2>4, JobWithAfter, ZenonT(40)
    <2>6. QED
      BY <2>5 DEF a
  <1> HIDE DEF j
  <1>6. ReceivePlace("look", j)
    BY <1>5, ListsAreFull DEF ReceivePlace, Saving, Restocking
  <1>7. /\ "look" \in Places \ (Window \cup Saving) /\ "look" \notin Reached
        /\ pc[t] \notin Window \cup Saving
    BY <1>3 DEF Places, Window, Saving, Reached
  <1>8. SensorOK' /\ ConnectionOK'
    BY <1>1, <1>3, Typed DEF SensorOK, ConnectionOK
  <1>9. connection'.arrived = "nothing" <=> pc'["http"] = "accept"
    BY <1>3, Typed
  <1>10. t \in Threads /\ t # "http"
    BY DEF Threads
  <1> HIDE DEF t
  <1>11. QED
    BY <1>2, <1>3, <1>5, <1>6, <1>7, <1>8, <1>9, <1>10, QuietStep

LEMMA MeetStep ==
  ASSUME HouseInv, Meet
  PROVE  HouseInv'
  <1> DEFINE t == "receive"
             new == [i \in DOMAIN offsets \cup {job[t].item} |-> IF Known(i) THEN offsets[i] ELSE 0]
  <1>1. /\ pc[t] = "look" /\ pc' = [pc EXCEPT ![t] = "value"] /\ job' = [job EXCEPT ![t] = job[t]]
        /\ offsets' = new
        /\ UNCHANGED peerVars /\ UNCHANGED <<files, history, alive, storeUp>>
    BY Typed DEF Meet, At, Goto
  <1>2. DOMAIN offsets' = DOMAIN offsets \cup {job[t].item}
        /\ \A i \in DOMAIN offsets' : offsets'[i] \in 0..200
    <2>1. \A i \in DOMAIN offsets : offsets[i] \in 0..200
      BY Typed
    <2>2. \A i \in DOMAIN offsets \cup {job[t].item} : new[i] \in 0..200
      BY <2>1 DEF Known
    <2>3. QED
      BY <1>1, <2>2
  <1>3. job[t].after = "amount" /\ job[t].store <= Len(StoreList)
    BY <1>1 DEF HouseInv, PlacesOK, ReceivePlace
  <1>4. ReceivePlace("value", job[t])
    BY <1>3 DEF ReceivePlace, Restocking, Saving
  <1>5. /\ \A i \in DOMAIN offsets' : Heard(i) \/ job[t].item = i
        /\ \A i \in DOMAIN offsets : i \in DOMAIN offsets'
        /\ job[t].item \in DOMAIN offsets'
    BY <1>2 DEF Heard, Known
  <1>6. "value" \in Places /\ "value" \notin Window /\ pc[t] \notin Window /\ pc[t] \notin Saving
    BY <1>1 DEF Places, Window, Saving
  <1>7. t \in Threads /\ t # "http"
    BY DEF Threads
  <1>8. connection'.arrived = "nothing" <=> pc'["http"] = "accept"
    BY <1>1, <1>6, <1>7, ConnectionStays
  <1>9. SensorOK' /\ ConnectionOK' /\ DOMAIN offsets' \subseteq Items /\ job[t] \in Jobs
    <2>1. job[t].item \in Items /\ job[t] \in Jobs /\ DOMAIN offsets \subseteq Items
      BY <1>7, Typed, TypedJob
    <2>2. QED
      BY <1>1, <1>2, <2>1, PeersStay
  <1>10. /\ files' \in [Items -> Texts] /\ history' \in [Items -> Texts]
         /\ \A i \in Items : files'[i] = files[i] /\ history'[i] = history[i]
    BY <1>1, Typed
  <1> HIDE DEF t, new
  <1>11. QED
    BY <1>1, <1>2, <1>4, <1>5, <1>6, <1>7, <1>8, <1>9, <1>10, StepOfThread

LEMMA LevelRange ==
  ASSUME HouseInv, Known(job["receive"].item)
  PROVE  Level(job["receive"].item) \in 0..100
  <1>1. job["receive"].reading \in Nat
    <2>1. job["receive"].reading \in 0..(Word - 1)
      BY Typed, TypedJob
    <2>2. QED
      BY <2>1, SensorAssumption
  <1>2. offsets[job["receive"].item] \in Nat
    BY Typed DEF Known
  <1>3. QED
    BY <1>1, <1>2 DEF Level

LEMMA ValueStep ==
  ASSUME HouseInv, Value
  PROVE  HouseInv'
  <1> DEFINE t == "receive"
             v == Level(job[t].item)
             j == [job[t] EXCEPT !.level = v]
  <1> SUFFICES ASSUME Known(job[t].item), job' = [job EXCEPT ![t] = j],
                      pc' = [pc EXCEPT ![t] = "note"], pc[t] = "value", UNCHANGED peerVars,
                      UNCHANGED <<offsets, files, history, alive, storeUp>>
               PROVE  HouseInv'
    BY DieStep DEF Value, At, Goto
  <1>1. t \in Threads /\ t # "http"
    BY DEF Threads
  <1>2. v \in 0..100
    BY LevelRange
  <1> HIDE DEF v
  <1>3. job[t].after = "amount" /\ job[t].store <= Len(StoreList)
    BY DEF HouseInv, PlacesOK, ReceivePlace
  <1>4. j \in Jobs /\ j.item = job[t].item /\ j.after = "amount" /\ j.store = job[t].store
    BY <1>1, <1>2, <1>3, TypedJob, JobWithLevel, ZenonT(40)
  <1> HIDE DEF t, j
  <1>5. ReceivePlace("note", j)
    BY <1>3, <1>4 DEF ReceivePlace, Restocking, Saving
  <1>6. /\ \A i \in DOMAIN offsets' : Heard(i) /\ i \in DOMAIN offsets
        /\ Heard(j.item)
    BY <1>4 DEF Heard, Known
  <1>7. "note" \in Places /\ "note" \notin Window /\ "note" \in Saving /\ pc[t] \notin Window
    BY DEF Places, Window, Saving
  <1>8. connection'.arrived = "nothing" <=> pc'["http"] = "accept"
    BY <1>1, <1>7, ConnectionStays DEF t
  <1>9. /\ SensorOK' /\ ConnectionOK' /\ DOMAIN offsets' \subseteq Items
        /\ \A i \in DOMAIN offsets' : offsets'[i] \in 0..200
        /\ files' \in [Items -> Texts] /\ history' \in [Items -> Texts]
        /\ \A i \in Items : files'[i] = files[i] /\ history'[i] = history[i]
    BY PeersStay, Typed
  <1>10. QED
    BY <1>1, <1>4, <1>5, <1>6, <1>7, <1>8, <1>9, StepOfThread

(* The places of Server::receive between the saving and the restocking.     *)
Purchasing == {"recv", "quote", "quoted", "buy", "bought", "restock"}

LEMMA BuyingStep ==
  ASSUME HouseInv, pc["receive"] \in Purchasing \cup {"amount"}, NEW p \in Purchasing, NEW j \in Jobs,
         j.after = "recv", p \in {"quote", "quoted"} => j.store <= Len(StoreList),
         pc' = [pc EXCEPT !["receive"] = p], job' = [job EXCEPT !["receive"] = j],
         UNCHANGED peerVars, UNCHANGED <<offsets, files, history, alive, storeUp>>
  PROVE  HouseInv'
  <1> DEFINE t == "receive"
  <1>1. t \in Threads /\ t # "http"
    BY DEF Threads
  <1>2. p \in Places \ (Window \cup Saving) /\ p \in Places /\ p \notin Reached
    BY DEF Purchasing, Places, Window, Saving, Reached
  <1>3. pc[t] \notin Window \cup Saving
    BY DEF Purchasing, Window, Saving
  <1>4. ReceivePlace(p, j)
    BY DEF Purchasing, ReceivePlace, Restocking, Saving
  <1>5. connection'.arrived = "nothing" <=> pc'["http"] = "accept"
    BY <1>1, <1>2, ConnectionStays
  <1>6. SensorOK' /\ ConnectionOK'
    BY PeersStay
  <1> HIDE DEF t
  <1>7. QED
    BY <1>1, <1>2, <1>3, <1>4, <1>5, <1>6, QuietStep DEF t

LEMMA AmountStep ==
  ASSUME HouseInv, Amount
  PROVE  HouseInv'
  <1> DEFINE v == Level(job["receive"].item)
             k == job["receive"]
             j == [k EXCEPT !.level = v, !.after = "recv"]
             p == IF v < 20 THEN "quote" ELSE "recv"
  <1> SUFFICES ASSUME Known(k.item), job' = [job EXCEPT !["receive"] = j],
                      pc' = [pc EXCEPT !["receive"] = p], pc["receive"] = "amount",
                      UNCHANGED peerVars, UNCHANGED <<offsets, files, history, alive, storeUp>>
               PROVE  HouseInv'
    BY DieStep DEF Amount, At, Goto
  <1>1. k.store <= Len(StoreList)
    BY DEF HouseInv, PlacesOK, ReceivePlace
  <1>2. v \in 0..100 /\ k \in Jobs
    BY LevelRange, Typed
  <1> HIDE DEF v, k
  <1>5. j \in Jobs /\ j.after = "recv" /\ j.store = k.store
    <2> DEFINE j1 == [k EXCEPT !.level = v]
               a == "recv"
    <2>1. j = [j1 EXCEPT !.after = a]
      OBVIOUS
    <2>2. j1 \in Jobs /\ j1.store = k.store
      BY <1>2, JobWithLevel
    <2>3. a \in {"", "amount", "recv", "reply"}
      OBVIOUS
    <2> HIDE DEF j, j1, a
    <2>4. j \in Jobs /\ j.after = a /\ j.store = k.store
      BY <2>1, <2>2, <2>3, JobWithAfter
    <2>5. QED
      BY <2>4 DEF a
  <1>6. p \in Purchasing
    BY DEF Purchasing
  <1> HIDE DEF j, p
  <1>7. QED
    BY <1>1, <1>5, <1>6, BuyingStep

(* While something is bought, what follows is the next datagram.            *)
LEMMA BuyingThread ==
  ASSUME HouseInv, pc["receive"] \in {"quote", "quoted", "buy", "bought"}
  PROVE  /\ job["receive"] \in Jobs /\ job["receive"].after = "recv"
         /\ pc["receive"] \in {"quote", "quoted"} => job["receive"].store \in 1..Len(StoreList)
         /\ job["receive"].store \in Nat /\ job["receive"].cheapest \in 1..Len(StoreList)
         /\ job = [job EXCEPT !["receive"] = job["receive"]]
         /\ pc["receive"] \in Purchasing
  <1>1. /\ job["receive"].after = "recv"
        /\ pc["receive"] \in {"quote", "quoted"} => job["receive"].store <= Len(StoreList)
    BY DEF HouseInv, PlacesOK, ReceivePlace
  <1>2. /\ job["receive"] \in Jobs /\ job["receive"].store \in 1..(Len(StoreList) + 1)
        /\ job["receive"].cheapest \in 1..Len(StoreList)
        /\ job = [job EXCEPT !["receive"] = job["receive"]]
    BY Typed, TypedJob
  <1>3. QED
    BY <1>1, <1>2, ListsAreFull DEF Purchasing

LEMMA QuoteStep ==
  ASSUME HouseInv, Quote
  PROVE  HouseInv'
  <1> DEFINE j == job["receive"]
  <1> SUFFICES ASSUME UNCHANGED job, pc["receive"] = "quote",
                      pc' = [pc EXCEPT !["receive"] = "quoted"],
                      UNCHANGED peerVars, UNCHANGED <<offsets, files, history, alive, storeUp>>
               PROVE  HouseInv'
    BY DieStep DEF Quote, Dials, At, Goto
  <1>1. /\ j \in Jobs /\ j.after = "recv" /\ j.store <= Len(StoreList)
        /\ job = [job EXCEPT !["receive"] = j]
    BY BuyingThread, ListsAreFull
  <1>2. "quoted" \in Purchasing /\ pc["receive"] \in Purchasing
    BY DEF Purchasing
  <1> HIDE DEF j
  <1>3. QED
    BY <1>1, <1>2, BuyingStep

LEMMA QuotedStep ==
  ASSUME HouseInv, Quoted
  PROVE  HouseInv'
  <1> DEFINE k == job["receive"]
             c == IF Cheaper(k.item, k.store, k.cheapest) THEN k.store ELSE k.cheapest
             j == [k EXCEPT !.cheapest = c, !.store = k.store + 1]
             p == IF k.store = Len(StoreList) THEN "buy" ELSE "quote"
  <1> SUFFICES ASSUME job' = [job EXCEPT !["receive"] = j], pc["receive"] = "quoted",
                      pc' = [pc EXCEPT !["receive"] = p],
                      UNCHANGED peerVars, UNCHANGED <<offsets, files, history, alive, storeUp>>
               PROVE  HouseInv'
    BY DieStep, Typed DEF Quoted, At, Goto
  <1>1. /\ k \in Jobs /\ k.after = "recv" /\ k.store \in 1..Len(StoreList)
        /\ k.cheapest \in 1..Len(StoreList)
    BY BuyingThread
  <1>2. c \in 1..Len(StoreList)
    BY <1>1
  <1> HIDE DEF k, c
  <1>4. k.store + 1 \in 1..(Len(StoreList) + 1)
    BY <1>1, ListsAreFull
  <1>6. j \in Jobs /\ j.after = "recv" /\ j.store = k.store + 1
    <2> DEFINE j1 == [k EXCEPT !.cheapest = c]
               n == k.store + 1
    <2>1. j = [j1 EXCEPT !.store = n]
      OBVIOUS
    <2>2. j1 \in Jobs /\ j1.after = "recv"
      BY <1>1, <1>2, JobWithCheapest
    <2> HIDE DEF j, j1
    <2>3. n \in 1..(Len(StoreList) + 1)
      BY <1>4
    <2> HIDE DEF n
    <2>4. j \in Jobs /\ j.after = "recv" /\ j.store = n
      BY <2>1, <2>2, <2>3, JobWithStore
    <2>5. QED
      BY <2>4 DEF n
  <1>7. p \in Purchasing /\ pc["receive"] \in Purchasing
    BY DEF Purchasing
  <1>8. p \in {"quote", "quoted"} => k.store + 1 <= Len(StoreList)
    BY <1>1, ListsAreFull
  <1> HIDE DEF j, p
  <1>9. QED
    BY <1>6, <1>7, <1>8, BuyingStep

LEMMA BuyStep ==
  ASSUME HouseInv, Buy
  PROVE  HouseInv'
  <1> DEFINE j == job["receive"]
  <1> SUFFICES ASSUME UNCHANGED job, pc["receive"] = "buy",
                      pc' = [pc EXCEPT !["receive"] = "bought"],
                      UNCHANGED peerVars, UNCHANGED <<offsets, files, history, alive, storeUp>>
               PROVE  HouseInv'
    BY DieStep DEF Buy, Dials, At, Goto
  <1>1. j \in Jobs /\ j.after = "recv" /\ job = [job EXCEPT !["receive"] = j]
    BY BuyingThread
  <1>2. "bought" \in Purchasing /\ pc["receive"] \in Purchasing
    BY DEF Purchasing
  <1> HIDE DEF j
  <1>3. QED
    BY <1>1, <1>2, BuyingStep

LEMMA BoughtStep ==
  ASSUME HouseInv, Bought
  PROVE  HouseInv'
  <1> DEFINE j == job["receive"]
  <1> SUFFICES ASSUME NEW p \in {"restock", "recv"}, UNCHANGED job, pc["receive"] = "bought",
                      pc' = [pc EXCEPT !["receive"] = p],
                      UNCHANGED peerVars, UNCHANGED <<offsets, files, history, alive, storeUp>>
               PROVE  HouseInv'
    BY DieStep DEF Bought, At, Goto
  <1>1. j \in Jobs /\ j.after = "recv" /\ job = [job EXCEPT !["receive"] = j]
    BY BuyingThread
  <1>2. p \in Purchasing /\ p \notin {"quote", "quoted"} /\ pc["receive"] \in Purchasing
    BY DEF Purchasing
  <1> HIDE DEF j
  <1>3. QED
    BY <1>1, <1>2, BuyingStep

LEMMA ReceivesStep ==
  ASSUME HouseInv, Receives
  PROVE  HouseInv'
  BY Typed, ReceiveStep, MeetStep, ValueStep, AmountStep, QuoteStep, QuotedStep, BuyStep,
     BoughtStep, RestocksStep DEF Receives

-----------------------------------------------------------------------------
(* HttpServer::start.                                                       *)

LEMMA AcceptStep ==
  ASSUME HouseInv, Accept
  PROVE  HouseInv'
  <1> DEFINE t == "http"
             j == job[t]
  <1>1. /\ pc[t] = "accept" /\ pc' = [pc EXCEPT ![t] = "recv"] /\ job' = [job EXCEPT ![t] = j]
        /\ UNCHANGED sensorVars /\ UNCHANGED <<offsets, files, history, alive, storeUp>>
        /\ j \in Jobs
    BY Typed, TypedJob DEF Accept, At, Goto
  <1>2. PICK r \in Requests : connection' = [request |-> r, arrived |-> "part", reads |-> TRUE]
    BY DEF Accept, Connect
  <1>3. ConnectionOK' /\ connection'.arrived # "nothing"
    BY <1>2 DEF ConnectionOK
  <1>4. SensorOK'
    BY <1>1, Typed DEF SensorOK, sensorVars
  <1>5. pc'["http"] = "recv"
    BY <1>1, Typed
  <1>6. HttpPlace("recv", j)
    BY DEF HttpPlace, Restocking
  <1>7. /\ "recv" \in Places \ (Window \cup Saving) /\ "recv" \notin Reached
        /\ pc[t] \notin Window \cup Saving
    BY <1>1 DEF Places, Window, Saving, Reached
  <1>8. t \in Threads /\ t # "receive"
    BY DEF Threads
  <1> HIDE DEF t, j
  <1>9. QED
    BY <1>1, <1>3, <1>4, <1>5, <1>6, <1>7, <1>8, QuietStep

(* A step within a connection.                                              *)
LEMMA HttpStep ==
  ASSUME HouseInv, pc["http"] \in {"recv", "row", "cell"},
         NEW p \in {"restock", "row", "cell", "reply"}, NEW j \in Jobs,
         p = "restock" => j.after = "reply",
         p \in {"row", "cell"} => j.row <= Len(ItemList),
         p = "cell" => files[ItemList[j.row]] # <<>>,
         pc' = [pc EXCEPT !["http"] = p], job' = [job EXCEPT !["http"] = j],
         UNCHANGED peerVars, UNCHANGED <<offsets, files, history, alive, storeUp>>
  PROVE  HouseInv'
  <1> DEFINE t == "http"
  <1>1. t \in Threads /\ t # "receive" /\ pc["http"] # "accept"
    BY DEF Threads
  <1>2. p \in Places \ (Window \cup Saving) /\ p \in Places /\ p \notin Reached /\ p # "accept"
    BY DEF Places, Window, Saving, Reached
  <1>3. pc[t] \notin Window \cup Saving
    BY DEF Window, Saving
  <1>4. HttpPlace(p, j)
    BY DEF HttpPlace, Restocking
  <1>5. connection'.arrived = "nothing" <=> pc'["http"] = "accept"
    BY <1>1, <1>2, ConnectionStays
  <1>6. SensorOK' /\ ConnectionOK'
    BY PeersStay
  <1> HIDE DEF t
  <1>7. QED
    BY <1>1, <1>2, <1>3, <1>4, <1>5, <1>6, QuietStep DEF t

(* The locals of the HTTP thread, unchanged.                                *)
LEMMA HttpJob ==
  ASSUME HouseInv
  PROVE  job["http"] \in Jobs /\ job = [job EXCEPT !["http"] = job["http"]]
  BY Typed, TypedJob

LEMMA NamedIsItem ==
  ASSUME HouseInv, NEW i \in Named
  PROVE  i \in Items
  <1>1. connection.arrived = "all" /\ i = connection.request.item
    BY DEF Named
  <1>2. connection # NoConnection
    BY <1>1 DEF NoConnection
  <1>3. connection.request \in Requests
    BY <1>2, Typed DEF ConnectionOK
  <1>4. QED
    BY <1>1, <1>3, HouseholdAssumption

LEMMA PressStep ==
  ASSUME HouseInv, Press
  PROVE  HouseInv'
  <1>1. /\ pc["http"] = "recv" /\ UNCHANGED peerVars
        /\ UNCHANGED <<offsets, files, history, alive, storeUp>>
    BY DEF Press, At
  <1>2. CASE \E i \in Named :
                /\ job' = [job EXCEPT !["http"] = [NoJob EXCEPT !.item = i, !.after = "reply"]]
                /\ Goto("http", "restock")
    <2>1. PICK i \in Named :
                /\ job' = [job EXCEPT !["http"] = [NoJob EXCEPT !.item = i, !.after = "reply"]]
                /\ pc' = [pc EXCEPT !["http"] = "restock"]
      BY <1>2 DEF Goto
    <2> DEFINE a == "reply"
               j1 == [NoJob EXCEPT !.item = i]
               j == [j1 EXCEPT !.after = a]
    <2>2. job' = [job EXCEPT !["http"] = j]
      BY <2>1
    <2>3. j1 \in Jobs
      BY ListsAreFull, NamedIsItem, JobWithItem
    <2>4. a \in {"", "amount", "recv", "reply"}
      OBVIOUS
    <2> HIDE DEF j1, a
    <2>5. j \in Jobs /\ j.after = a
      BY <2>3, <2>4, JobWithAfter
    <2> HIDE DEF j
    <2>6. QED
      BY <1>1, <2>1, <2>2, <2>5, HttpStep DEF a
  <1>3. CASE Goto("http", "reply") /\ UNCHANGED job
    BY <1>1, <1>3, HttpJob, HttpStep DEF Goto
  <1>4. QED
    BY <1>2, <1>3 DEF Press

LEMMA NotFoundStep ==
  ASSUME HouseInv, NotFound
  PROVE  HouseInv'
  BY HttpJob, HttpStep DEF NotFound, At, Goto

LEMMA GetPageStep ==
  ASSUME HouseInv, GetPage
  PROVE  HouseInv'
  <1> DEFINE n == 1
             j == [job["http"] EXCEPT !.row = n]
  <1>1. n \in 1..(Len(ItemList) + 1) /\ n <= Len(ItemList)
    BY ListsAreFull
  <1>2. /\ pc["http"] = "recv" /\ pc' = [pc EXCEPT !["http"] = "row"]
        /\ job' = [job EXCEPT !["http"] = j]
        /\ UNCHANGED peerVars /\ UNCHANGED <<offsets, files, history, alive, storeUp>>
    BY DEF GetPage, At, Goto
  <1> HIDE DEF n
  <1>3. j \in Jobs /\ j.row = n
    BY <1>1, HttpJob, JobWithRow
  <1> HIDE DEF j
  <1>4. QED
    BY <1>1, <1>2, <1>3, HttpStep

LEMMA NextRowStep ==
  ASSUME HouseInv, pc["http"] \in {"row", "cell"}, NextRow
  PROVE  HouseInv'
  <1> DEFINE n == job["http"].row + 1
             j == [job["http"] EXCEPT !.row = n]
             p == IF job["http"].row = Len(ItemList) THEN "reply" ELSE "row"
  <1>1. job["http"].row \in 1..Len(ItemList)
    <2>1. job["http"].row <= Len(ItemList)
      BY DEF HouseInv, PlacesOK, HttpPlace
    <2>2. job["http"].row \in 1..(Len(ItemList) + 1)
      BY Typed, TypedJob
    <2>3. QED
      BY <2>1, <2>2, ListsAreFull
  <1>2. n \in 1..(Len(ItemList) + 1) /\ (p = "row" => n <= Len(ItemList))
    BY <1>1, ListsAreFull
  <1>3. /\ pc' = [pc EXCEPT !["http"] = p] /\ job' = [job EXCEPT !["http"] = j]
        /\ UNCHANGED peerVars /\ UNCHANGED <<offsets, files, history, alive, storeUp>>
        /\ p \in {"reply", "row"}
    BY DEF NextRow, Goto
  <1> HIDE DEF n, p
  <1>4. j \in Jobs /\ j.row = n
    BY <1>2, HttpJob, JobWithRow
  <1> HIDE DEF j
  <1>5. QED
    BY <1>2, <1>3, <1>4, HttpStep

LEMMA StartRowStep ==
  ASSUME HouseInv, StartRow
  PROVE  HouseInv'
  <1> DEFINE j == job["http"]
  <1>1. /\ pc["http"] = "row" /\ pc' = [pc EXCEPT !["http"] = "cell"]
        /\ job' = [job EXCEPT !["http"] = j] /\ files[ItemList[j.row]] # <<>>
        /\ UNCHANGED peerVars /\ UNCHANGED <<offsets, files, history, alive, storeUp>>
    BY HttpJob DEF StartRow, At, Goto, Shown
  <1>2. j \in Jobs /\ j.row <= Len(ItemList)
    BY <1>1, HttpJob DEF HouseInv, PlacesOK, HttpPlace
  <1> HIDE DEF j
  <1>3. QED
    BY <1>1, <1>2, HttpStep

LEMMA ReplyStep ==
  ASSUME HouseInv, Reply
  PROVE  HouseInv'
  <1> DEFINE t == "http"
  <1>1. /\ pc[t] = "reply" /\ pc' = [pc EXCEPT ![t] = "accept"] /\ job' = [job EXCEPT ![t] = NoJob]
        /\ UNCHANGED sensorVars /\ UNCHANGED <<offsets, files, history, alive, storeUp>>
        /\ connection' = NoConnection
    BY DEF Reply, At, Goto, Answer
  <1>2. ConnectionOK' /\ connection'.arrived = "nothing"
    BY <1>1 DEF ConnectionOK, NoConnection
  <1>3. SensorOK'
    BY <1>1, Typed DEF SensorOK, sensorVars
  <1>4. pc'["http"] = "accept"
    BY <1>1, Typed
  <1>5. HttpPlace("accept", NoJob)
    BY DEF HttpPlace, Restocking
  <1>6. /\ "accept" \in Places \ (Window \cup Saving) /\ "accept" \notin Reached
        /\ pc[t] \notin Window \cup Saving
    BY <1>1 DEF Places, Window, Saving, Reached
  <1>7. t \in Threads /\ t # "receive" /\ NoJob \in Jobs
    BY ListsAreFull DEF Threads
  <1> HIDE DEF t
  <1>8. QED
    BY <1>1, <1>2, <1>3, <1>4, <1>5, <1>6, <1>7, QuietStep

LEMMA ServesStep ==
  ASSUME HouseInv, Serves
  PROVE  HouseInv'
  <1>1. CASE SkipRow
    BY <1>1, NextRowStep DEF SkipRow, At
  <1>2. CASE FinishRow
    BY <1>2, NextRowStep, DieStep DEF FinishRow, At
  <1>3. QED
    BY <1>1, <1>2, Typed, AcceptStep, PressStep, NotFoundStep, GetPageStep, StartRowStep, ReplyStep,
       RestocksStep DEF Serves, Handles

-----------------------------------------------------------------------------
(* Sensors, network, browsers and stores.                                   *)

LEMMA SendStep ==
  ASSUME SensorOK, NEW i \in Sensors, Send(i)
  PROVE  SensorOK'
  <1> DEFINE r == NextReading(i, reading[i])
  <1>1. r \in 0..(Word - 1)
    <2>1. steps[i] \in Int /\ Word \in Nat /\ Word > 100 /\ reading[i] \in 0..(Word - 1)
      BY SensorAssumption DEF SensorOK
    <2>2. (reading[i] + steps[i]) % Word \in 0..(Word - 1)
      BY <2>1
    <2>3. QED
      BY <2>1, <2>2 DEF NextReading
  <1>2. /\ reading' = [reading EXCEPT ![i] = r]
        /\ air' \subseteq air \cup {[item |-> i, reading |-> r]}
    BY DEF Send
  <1> HIDE DEF r
  <1>3. QED
    BY <1>1, <1>2 DEF SensorOK

LEMMA EnvironmentStep ==
  ASSUME HouseInv, Environment
  PROVE  HouseInv'
  <1>1. CASE SensorNext /\ UNCHANGED <<connection, threadVars, alive, storeUp>>
    <2>1. SensorOK'
      BY <1>1, Typed, SendStep DEF SensorNext, Lose, SensorOK
    <2>2. ConnectionOK' /\ UpOK' /\ alive' \in BOOLEAN
          /\ storeUp' \in [Range(StoreList) -> BOOLEAN]
      BY <1>1 DEF HouseInv, TypeOK, ConnectionOK, UpOK
    <2>3. QED
      BY <1>1, <2>1, <2>2, StepOfOthers
  <1>2. CASE Arrive \/ Turn
    <2> SUFFICES ASSUME UNCHANGED <<sensorVars, threadVars, alive, storeUp>> PROVE HouseInv'
      BY <1>1 DEF Environment
    <2>1. connection # NoConnection
      BY <1>2 DEF Arrive, Turn, NoConnection
    <2>2. connection \in [request : Requests, arrived : {"part", "header", "all"}, reads : BOOLEAN]
      BY <2>1, Typed DEF ConnectionOK
    <2>3. ConnectionOK' /\ connection'.arrived # "nothing" /\ connection.arrived # "nothing"
      BY <1>2, <2>2 DEF Arrive, Turn, ConnectionOK
    <2>4. SensorOK' /\ UpOK' /\ alive' \in BOOLEAN /\ storeUp' \in [Range(StoreList) -> BOOLEAN]
      BY <1>2, Typed DEF HouseInv, TypeOK, SensorOK, sensorVars, UpOK
    <2>5. QED
      BY <1>2, <2>1, <2>3, <2>4, StepOfOthers
  <1>3. QED
    BY <1>1, <1>2 DEF Environment

LEMMA GoesDownStep ==
  ASSUME HouseInv, NEW s \in Fragile, GoesDown(s)
  PROVE  HouseInv'
  <1>1. storeUp' = [storeUp EXCEPT ![s] = FALSE] /\ UNCHANGED <<peerVars, threadVars, alive>>
    BY DEF GoesDown
  <1>2. storeUp' \in [Range(StoreList) -> BOOLEAN] /\ UpOK'
    BY <1>1 DEF HouseInv, TypeOK, UpOK
  <1>3. QED
    BY <1>1, <1>2, PeersStay, StepOfOthers DEF peerVars, HouseInv, TypeOK

LEMMA HouseInvStep ==
  ASSUME HouseInv, [Next]_vars
  PROVE  HouseInv'
  <1>1. CASE Next
    BY <1>1, ReceivesStep, ServesStep, EnvironmentStep, GoesDownStep DEF Next
  <1>2. CASE UNCHANGED vars
    <2>1. UNCHANGED peerVars /\ UNCHANGED threadVars /\ UNCHANGED <<alive, storeUp>>
      BY <1>2 DEF vars
    <2>2. UpOK' /\ alive' \in BOOLEAN /\ storeUp' \in [Range(StoreList) -> BOOLEAN]
      BY <2>1 DEF HouseInv, TypeOK, UpOK
    <2>3. QED
      BY <2>1, <2>2, PeersStay, StepOfOthers DEF peerVars
  <1>3. QED
    BY <1>1, <1>2

-----------------------------------------------------------------------------
(* Where the process can die.                                               *)

Meeting ==
  \/ Uses("receive") \cap Changes("http") # {}
  \/ Uses("http") \cap Changes("receive") # {}
  \/ pc["receive"] \in {"quote", "quoted", "buy", "bought"} /\ \E s \in Fragile : ~storeUp[s]
  \/ pc["receive"] = "bought" /\ StoreList[job["receive"].cheapest] \in Fragile

LEMMA ThreadsMeet ==
  ASSUME NEW t \in Threads, NEW u \in Threads, t # u, NEW i, i \in Uses(t), i \in Changes(u)
  PROVE  Meeting
  BY DEF Threads, Meeting

(* The offset of an item that has been heard of is missing only while the   *)
(* other thread restocks it.                                                *)
LEMMA DeathOfOffset ==
  ASSUME HouseInv, NEW t \in Threads, pc[t] \in {"value", "amount", "at"}, ~Known(job[t].item)
  PROVE  Meeting
  <1>1. Heard(job[t].item)
    BY DEF HouseInv, HeardOK, Reached
  <1>2. PICK u \in Threads : job[u].item = job[t].item /\ pc[u] \in {"get", "insert"}
    BY <1>1 DEF Heard, InWindow
  <1>3. t # u /\ job[t].item \in Uses(t) /\ job[t].item \in Changes(u)
    BY <1>2 DEF Uses, Changes
  <1>4. QED
    BY <1>3, ThreadsMeet

(* Its file is empty only while the other thread is about to write it.      *)
LEMMA DeathOfFile ==
  ASSUME HouseInv, NEW t \in Threads, pc[t] = "get", files[job[t].item] = <<>>
  PROVE  Meeting
  <1>1. Heard(job[t].item) /\ job[t].item \in Items
    BY TypedJob DEF HouseInv, HeardOK, Reached
  <1>2. PICK u \in Threads : job[u].item = job[t].item /\ pc[u] \in Saving
    BY <1>1 DEF HouseInv, FilesOK
  <1>3. t # u /\ job[t].item \in Uses(t) /\ job[t].item \in Changes(u)
    BY <1>2 DEF Uses, Changes, Saving
  <1>4. QED
    BY <1>3, ThreadsMeet

(* So it is for a level that is read again for its row.                     *)
LEMMA DeathOfRow ==
  ASSUME HouseInv, pc["http"] = "cell", Shown = <<>>
  PROVE  Meeting
  <1>1. pc["receive"] = "write" /\ job["receive"].item = ItemList[job["http"].row]
    BY DEF HouseInv, RowOK, Shown
  <1>2. /\ ItemList[job["http"].row] \in Uses("http")
        /\ ItemList[job["http"].row] \in Changes("receive")
    BY <1>1 DEF Uses, Changes
  <1>3. QED
    BY <1>2 DEF Meeting

(* And a store does not answer only after it has gone down.                 *)
LEMMA DeathOfStore ==
  ASSUME HouseInv, pc["receive"] \in {"quote", "quoted", "buy", "bought"},
         NEW k \in 1..Len(StoreList), ~storeUp[StoreList[k]]
  PROVE  Meeting
  <1>1. StoreList[k] \in Range(StoreList)
    BY ListsAreFull
  <1>2. StoreList[k] \in Fragile
    BY <1>1 DEF HouseInv, UpOK
  <1>3. QED
    BY <1>2 DEF Meeting

LEMMA RestocksLives ==
  ASSUME HouseInv, NEW t \in Threads, Restocks(t), alive' # alive
  PROVE  Meeting
  <1>1. CASE ReadOffset(t)
    BY <1>1, DeathOfOffset DEF ReadOffset, At
  <1>2. CASE ReadLevel(t)
    BY <1>2, DeathOfFile DEF ReadLevel, At
  <1>3. QED
    BY <1>1, <1>2 DEF Restocks, Find, Erase, Insert, Note, Truncate, Write

LEMMA ReceivesLives ==
  ASSUME HouseInv, Receives, alive' # alive
  PROVE  Meeting
  <1>1. CASE Value
    BY <1>1, Typed, DeathOfOffset DEF Value, At
  <1>2. CASE Amount
    BY <1>2, Typed, DeathOfOffset DEF Amount, At
  <1>3. CASE Quote
    BY <1>3, BuyingThread, DeathOfStore DEF Quote, Dials, At
  <1>4. CASE Quoted
    BY <1>4, BuyingThread, DeathOfStore DEF Quoted, At
  <1>5. CASE Buy
    BY <1>5, BuyingThread, DeathOfStore DEF Buy, Dials, At
  <1>6. CASE Bought
    BY <1>6 DEF Bought, At, Meeting
  <1>7. CASE Restocks("receive")
    BY <1>7, Typed, RestocksLives
  <1>8. QED
    BY <1>1, <1>2, <1>3, <1>4, <1>5, <1>6, <1>7 DEF Receives, Receive, Meet

LEMMA ServesLives ==
  ASSUME HouseInv, Serves, alive' # alive
  PROVE  Meeting
  <1>1. CASE FinishRow
    BY <1>1, DeathOfRow DEF FinishRow, NextRow, At
  <1>2. CASE Restocks("http")
    BY <1>2, Typed, RestocksLives
  <1>3. QED
    BY <1>1, <1>2 DEF Serves, Handles, Accept, Press, NotFound, GetPage, SkipRow, StartRow,
       NextRow, Reply

LEMMA DeathStep ==
  ASSUME HouseInv, [Next]_vars, alive /\ ~alive'
  PROVE  Meeting
  <1>1. Next
    BY DEF vars
  <1>2. CASE Receives
    BY <1>2, ReceivesLives
  <1>3. CASE Serves
    BY <1>3, ServesLives
  <1>4. QED
    BY <1>1, <1>2, <1>3 DEF Next, Environment, GoesDown

-----------------------------------------------------------------------------
LEMMA HouseInvAlways == Spec => []HouseInv
  <1>1. HouseInv /\ [Next]_vars => HouseInv'
    BY HouseInvStep
  <1>2. QED
    BY InitHouse, <1>1, PTL DEF Spec

(* The signed remainder of Server::restock never gives an offset below 0 or *)
(* above 200, levels stay within 0..100 whatever the sensors report, and    *)
(* the connection of HttpServer is there whenever it is used.               *)
THEOREM HouseholdTypeCorrect == Spec => []TypeOK
  <1>1. HouseInv => TypeOK
    BY DEF HouseInv
  <1>2. QED
    BY HouseInvAlways, <1>1, PTL

(* Whatever the thread of Server::receive and that of HttpServer::start do  *)
(* to each other without a lock, an item that has a history has an offset,  *)
(* or a thread is between the erase and the insert of Server::restock.      *)
THEOREM KnownCorrect == Spec => []KnownUnlessRestocking
  <1>1. HouseInv => KnownUnlessRestocking
    BY DEF HouseInv, HeardOK, Heard, KnownUnlessRestocking
  <1>2. QED
    BY HouseInvAlways, <1>1, PTL

(* No thread brings the process down by itself: at() throws, and front() is *)
(* undefined, only where the other thread is changing the same item; and an *)
(* exception of Thrift ends it only after a store has gone down, or where a *)
(* store that others use answers an order with one.                         *)
THEOREM DeathsCorrect == Spec => DiesOnlyWhereThreadsMeet
  <1>1. HouseInv /\ [Next]_vars => [alive /\ ~alive' => Meeting]_vars
    BY DeathStep
  <1>2. QED
    BY HouseInvAlways, <1>1, PTL DEF Spec, DiesOnlyWhereThreadsMeet, Meeting

-----------------------------------------------------------------------------
(* The comparison of prices, which only the receive thread takes part in.   *)

PriceAt(i, k) == Price[StoreList[k]][i]

(* Of the first n stores none undercuts the one that is kept, and none of   *)
(* those before it is as cheap.                                             *)
BestOf(j, n) ==
  /\ \A k \in 1..n : PriceAt(j.item, j.cheapest) <= PriceAt(j.item, k)
  /\ \A k \in 1..(j.cheapest - 1) : PriceAt(j.item, j.cheapest) < PriceAt(j.item, k)

Fresh(j) == j.store = 1 /\ j.cheapest = 1

Comparing(p, j) ==
  /\ j.after = "amount" => Fresh(j)
  /\ p \in {"quote", "quoted"} =>
        BestOf(j, j.store - 1) /\ (Fresh(j) \/ j.cheapest < j.store)
  /\ p \in {"buy", "bought"} => BestOf(j, Len(StoreList))

CheapInv == Comparing(pc["receive"], job["receive"])

LEMMA PricesAreNumbers ==
  ASSUME NEW i \in Items, NEW k \in 1..Len(StoreList)
  PROVE  PriceAt(i, k) \in Nat
  <1>1. StoreList[k] \in Range(StoreList)
    BY ListsAreFull
  <1>2. QED
    BY <1>1, HouseholdAssumption DEF PriceAt

LEMMA StoresKept ==
  ASSUME NEW j \in Jobs, NEW x, NEW y
  PROVE  /\ [j EXCEPT !.level = x].after = j.after /\ [j EXCEPT !.level = x].store = j.store
         /\ [j EXCEPT !.level = x].cheapest = j.cheapest
         /\ [j EXCEPT !.offset = x].after = j.after /\ [j EXCEPT !.offset = x].store = j.store
         /\ [j EXCEPT !.offset = x].cheapest = j.cheapest
         /\ [j EXCEPT !.offset = x, !.level = y].after = j.after
         /\ [j EXCEPT !.offset = x, !.level = y].store = j.store
         /\ [j EXCEPT !.offset = x, !.level = y].cheapest = j.cheapest
  BY DEF Jobs

(* A step of Server::restock or of RESTManager::save keeps the stores.      *)
LEMMA RestocksKeepsStores ==
  ASSUME HouseInv, CheapInv, Restocks("receive")
  PROVE  CheapInv'
  <1> DEFINE t == "receive"
  <1>1. /\ pc'[t] \notin {"quote", "quoted", "buy", "bought"}
        /\ job'[t].after = job[t].after /\ job'[t].store = job[t].store
        /\ job'[t].cheapest = job[t].cheapest
    <2>0. /\ t \in Threads /\ job[t] \in Jobs
          /\ pc \in [Threads -> Places] /\ job \in [Threads -> Jobs]
      BY Typed
    <2>1. CASE Find(t)
      <3>1. job[t].after = "recv"
        BY <2>0, <2>1, AfterRestock DEF Find, At, Restocking
      <3>2. QED
        BY <2>0, <2>1, <3>1 DEF Find, Goto
    <2>2. CASE ReadOffset(t)
      <3>1. CASE Die
        BY <2>2, <3>1 DEF ReadOffset, At, Die, threadVars
      <3>2. CASE ~Die
        <4>1. /\ job'[t] = [job[t] EXCEPT !.offset = offsets[job[t].item]]
              /\ pc'[t] = "erase"
          BY <2>0, <2>2, <3>2 DEF ReadOffset, Goto
        <4>2. QED
          BY <2>0, <4>1, StoresKept
      <3>3. QED
        BY <3>1, <3>2
    <2>3. CASE Erase(t)
      BY <2>0, <2>3 DEF Erase, Goto
    <2>4. CASE ReadLevel(t)
      <3>1. CASE Die
        BY <2>4, <3>1 DEF ReadLevel, At, Die, threadVars
      <3>2. CASE ~Die
        <4>1. /\ job'[t] = [job[t] EXCEPT !.offset = NewOffset(Head(files[job[t].item]), @),
                                           !.level = 100]
              /\ pc'[t] = "insert"
          BY <2>0, <2>4, <3>2 DEF ReadLevel, Goto
        <4>2. QED
          BY <2>0, <4>1, StoresKept
      <3>3. QED
        BY <3>1, <3>2
    <2>5. CASE Insert(t)
      BY <2>0, <2>5 DEF Insert, Goto
    <2>6. CASE Note(t) \/ Truncate(t)
      BY <2>0, <2>6 DEF Note, Truncate, Goto
    <2>7. CASE Write(t)
      <3>1. job[t].after \in {"amount", "recv"}
        BY <2>0, <2>7, SavingThread DEF Write, At
      <3>2. QED
        BY <2>0, <2>7, <3>1 DEF Write, Goto
    <2>8. QED
      BY <2>1, <2>2, <2>3, <2>4, <2>5, <2>6, <2>7 DEF Restocks
  <1>2. QED
    BY <1>1 DEF CheapInv, Comparing, Fresh

LEMMA ReceiveKeepsCheap ==
  ASSUME HouseInv, Receive
  PROVE  CheapInv'
  <1>1. PICK m \in air :
           job' = [job EXCEPT !["receive"] =
                     [NoJob EXCEPT !.item = m.item, !.reading = m.reading, !.after = "amount"]]
    BY DEF Receive
  <1>2. pc'["receive"] = "look" /\ job'["receive"].store = 1 /\ job'["receive"].cheapest = 1
    BY <1>1, Typed DEF Receive, Goto, NoJob
  <1>3. QED
    BY <1>2 DEF CheapInv, Comparing, Fresh

LEMMA AmountKeepsCheap ==
  ASSUME HouseInv, CheapInv, Amount
  PROVE  CheapInv'
  <1> DEFINE k == job["receive"]
             j == job'["receive"]
  <1>1. CASE Die
    BY <1>1 DEF Die, threadVars, CheapInv
  <1>2. CASE ~Die
    <2>1. k.after = "amount"
      BY DEF Amount, At, HouseInv, PlacesOK, ReceivePlace
    <2>2. Fresh(k)
      BY <2>1 DEF CheapInv, Comparing
    <2>3. k \in Jobs
      BY Typed
    <2>4. job' = [job EXCEPT !["receive"].level = Level(k.item), !["receive"].after = "recv"]
          /\ pc' = [pc EXCEPT !["receive"] = IF Level(k.item) < 20 THEN "quote" ELSE "recv"]
      BY <1>2 DEF Amount, Goto
    <2>5. j.after = "recv" /\ j.store = k.store /\ j.cheapest = k.cheapest
      BY <2>3, <2>4, Typed DEF Jobs
    <2>6. pc'["receive"] \in {"quote", "recv"}
      BY <2>4, Typed
    <2>7. Fresh(j) /\ BestOf(j, j.store - 1)
      BY <2>2, <2>5 DEF Fresh, BestOf
    <2>8. QED
      BY <2>5, <2>6, <2>7 DEF CheapInv, Comparing
  <1>3. QED
    BY <1>1, <1>2

LEMMA QuotedKeepsCheap ==
  ASSUME HouseInv, CheapInv, Quoted
  PROVE  CheapInv'
  <1> DEFINE k == job["receive"]
             j == job'["receive"]
             n == k.store
             c == IF Cheaper(k.item, n, k.cheapest) THEN n ELSE k.cheapest
  <1>1. CASE Die
    BY <1>1 DEF Die, threadVars, CheapInv
  <1>2. CASE ~Die
    <2>1. /\ k \in Jobs /\ k.after = "recv" /\ n \in 1..Len(StoreList)
          /\ k.cheapest \in 1..Len(StoreList) /\ k.item \in Items
          /\ BestOf(k, n - 1) /\ (Fresh(k) \/ k.cheapest < n)
      BY BuyingThread, Typed, TypedJob DEF Quoted, At, CheapInv, Comparing
    <2>2. /\ job' = [job EXCEPT !["receive"].cheapest = c, !["receive"].store = n + 1]
          /\ pc' = [pc EXCEPT !["receive"] = IF n = Len(StoreList) THEN "buy" ELSE "quote"]
      BY <1>2, Typed DEF Quoted, Goto
    <2>3. j.after = "recv" /\ j.store = n + 1 /\ j.cheapest = c /\ j.item = k.item
      BY <2>1, <2>2, Typed DEF Jobs
    <2>4. c \in 1..n
      BY <2>1, ListsAreFull DEF Fresh
    <2>5. /\ \A m \in 1..n : PriceAt(k.item, c) <= PriceAt(k.item, m)
          /\ \A m \in 1..(c - 1) : PriceAt(k.item, c) < PriceAt(k.item, m)
      <3>1. \A m \in 1..n : PriceAt(k.item, m) \in Nat
        BY <2>1, PricesAreNumbers, ListsAreFull
      <3>2. PriceAt(k.item, k.cheapest) \in Nat
        BY <2>1, PricesAreNumbers
      <3>3. CASE PriceAt(k.item, n) < PriceAt(k.item, k.cheapest)
        <4>1. c = n
          BY <3>3 DEF Cheaper, PriceAt
        <4>2. \A m \in 1..(n - 1) : PriceAt(k.item, n) < PriceAt(k.item, m)
          BY <2>1, <3>1, <3>2, <3>3 DEF BestOf
        <4>3. n \in Nat \ {0} /\ \A m \in 1..n : m = n \/ m \in 1..(n - 1)
          BY <2>1, ListsAreFull
        <4>4. PriceAt(k.item, n) \in Nat
          BY <3>1, <4>3
        <4> HIDE DEF n, c, k
        <4>5. \A m \in 1..n : PriceAt(k.item, n) <= PriceAt(k.item, m)
          BY <3>1, <4>2, <4>3, <4>4
        <4>6. QED
          BY <4>1, <4>2, <4>5
      <3>4. CASE ~(PriceAt(k.item, n) < PriceAt(k.item, k.cheapest))
        <4>1. c = k.cheapest
          BY <3>4 DEF Cheaper, PriceAt
        <4>2. PriceAt(k.item, k.cheapest) <= PriceAt(k.item, n)
          BY <2>1, <3>1, <3>2, <3>4
        <4>3. /\ \A m \in 1..(n - 1) : PriceAt(k.item, k.cheapest) <= PriceAt(k.item, m)
              /\ \A m \in 1..(k.cheapest - 1) : PriceAt(k.item, k.cheapest) < PriceAt(k.item, m)
          BY <2>1 DEF BestOf
        <4>4. n \in Nat \ {0} /\ \A m \in 1..n : m = n \/ m \in 1..(n - 1)
          BY <2>1, ListsAreFull
        <4> HIDE DEF n, c, k
        <4>5. \A m \in 1..n : PriceAt(k.item, k.cheapest) <= PriceAt(k.item, m)
          BY <4>2, <4>3, <4>4
        <4>6. QED
          BY <4>1, <4>3, <4>5
      <3>5. QED
        BY <3>3, <3>4
    <2>6. BestOf(j, n)
      BY <2>3, <2>5 DEF BestOf
    <2>7. (pc'["receive"] = "buy" /\ n = Len(StoreList)) \/ pc'["receive"] = "quote"
      BY <2>2, Typed
    <2>8. j.cheapest < j.store /\ j.store - 1 = n
      BY <2>1, <2>3, <2>4, ListsAreFull
    <2> HIDE DEF j, n, c, k
    <2>9. QED
      BY <2>3, <2>6, <2>7, <2>8 DEF CheapInv, Comparing, j
  <1>3. QED
    BY <1>1, <1>2

(* A step that leaves the locals of the receive thread alone.               *)
LEMMA StayKeepsCheap ==
  ASSUME CheapInv, job'["receive"] = job["receive"],
         \/ pc'["receive"] = pc["receive"]
         \/ pc["receive"] = "quote" /\ pc'["receive"] = "quoted"
         \/ pc["receive"] = "buy" /\ pc'["receive"] = "bought"
         \/ pc'["receive"] \in {"recv", "restock", "value", "note"}
  PROVE  CheapInv'
  BY DEF CheapInv, Comparing

LEMMA ReceivesKeepsCheap ==
  ASSUME HouseInv, CheapInv, Receives
  PROVE  CheapInv'
  <1>1. CASE Meet
    BY <1>1, Typed, StayKeepsCheap DEF Meet, Goto
  <1>2. CASE Value
    <2>1. CASE Die
      BY <2>1, StayKeepsCheap DEF Die, threadVars
    <2>2. CASE ~Die
      <3>1. job' = [job EXCEPT !["receive"].level = Level(job["receive"].item)]
            /\ pc' = [pc EXCEPT !["receive"] = "note"]
        BY <1>2, <2>2 DEF Value, Goto
      <3>2. /\ job'["receive"].after = job["receive"].after
            /\ job'["receive"].store = job["receive"].store
            /\ job'["receive"].cheapest = job["receive"].cheapest /\ pc'["receive"] = "note"
        BY <3>1, Typed, StoresKept
      <3>3. QED
        BY <3>2 DEF CheapInv, Comparing, Fresh
    <2>3. QED
      BY <2>1, <2>2
  <1>3. CASE Quote
    BY <1>3, Typed, StayKeepsCheap DEF Quote, Dials, At, Goto, Die, threadVars
  <1>4. CASE Buy
    BY <1>4, Typed, StayKeepsCheap DEF Buy, Dials, At, Goto, Die, threadVars
  <1>5. CASE Bought
    BY <1>5, Typed, StayKeepsCheap DEF Bought, At, Goto, Die, threadVars
  <1>6. QED
    BY <1>1, <1>2, <1>3, <1>4, <1>5, ReceiveKeepsCheap, AmountKeepsCheap, QuotedKeepsCheap,
       RestocksKeepsStores DEF Receives

(* The HTTP thread leaves the place and the locals of the other alone.      *)
LEMMA ServesLeaves ==
  ASSUME HouseInv, Serves
  PROVE  job'["receive"] = job["receive"] /\ pc'["receive"] = pc["receive"]
  <1>1. CASE Restocks("http")
    BY <1>1, Typed DEF Restocks, Find, ReadOffset, Erase, ReadLevel, Insert, Note, Truncate, Write,
       Goto, Die, threadVars
  <1>2. CASE ~Restocks("http")
    BY <1>2, Typed DEF Serves, Handles, Accept, Press, NotFound, GetPage, SkipRow, StartRow,
       FinishRow, NextRow, Reply, Goto, Die, threadVars
  <1>3. QED
    BY <1>1, <1>2

LEMMA ServesKeepsCheap ==
  ASSUME HouseInv, CheapInv, Serves
  PROVE  CheapInv'
  BY ServesLeaves, StayKeepsCheap

LEMMA CheapInvStep ==
  ASSUME HouseInv, CheapInv, [Next]_vars
  PROVE  CheapInv'
  <1>1. CASE UNCHANGED threadVars
    BY <1>1 DEF threadVars, CheapInv
  <1>2. CASE Receives \/ Serves
    BY <1>2, ReceivesKeepsCheap, ServesKeepsCheap
  <1>3. QED
    BY <1>1, <1>2 DEF Next, Environment, GoesDown, vars

(* Server::receive orders from a store that no store undercuts, the first   *)
(* of them, for any number of stores and any prices.                        *)
THEOREM CheapestCorrect == Spec => []BuysFromCheapest
  <1>1. Init => CheapInv
    <2>1. Init => pc["receive"] = "recv" /\ job["receive"] = NoJob
      BY DEF Init, Threads
    <2>2. NoJob.after = ""
      BY DEF NoJob
    <2>3. QED
      BY <2>1, <2>2 DEF CheapInv, Comparing
  <1>2. HouseInv /\ CheapInv /\ [Next]_vars => CheapInv'
    BY CheapInvStep
  <1>3. CheapInv => BuysFromCheapest
    BY DEF CheapInv, Comparing, BestOf, PriceAt, BuysFromCheapest
  <1>4. QED
    BY HouseInvAlways, <1>1, <1>2, <1>3, PTL DEF Spec

=============================================================================
