----------------------------- MODULE LevelProofs ----------------------------
(***************************************************************************)
(* The levels of a household whose buttons nobody presses, for any sensors *)
(* and readings, stores and prices, and any number of browsers that ask    *)
(* for the page: the receive thread then is the only one that writes, and  *)
(* what it saves, shows and orders is the same level.                      *)
(***************************************************************************)
EXTENDS HouseholdProofs

NoButtons == \A r \in Requests : r.method # "POST"

Shopping == {"quote", "quoted", "buy", "bought"}
Settled == Shopping \cup {"amount", "restock", "at", "erase"}
Noted == Settled \cup {"open", "write"}
Computed == Noted \cup {"note"}

(* What the receive thread, at place p with locals j, relies on: known and  *)
(* offset are what the map has for its item, text and entry what the files  *)
(* show.  In the window of a restock the locals stand for the map.          *)
Tracked(p, j, known, offset, text, entry) ==
    /\ p = "recv" /\ known => text = <<(j.reading + offset) % 101>>
    /\ p \in Computed => known /\ j.level = (j.reading + offset) % 101
    /\ p \in Noted => entry = <<j.level>>
    /\ p = "write" => text = <<>>
    /\ p \in Settled => text = <<j.level>>
    /\ p \in Shopping => j.level < 20
    /\ p = "erase" => j.offset = offset
    /\ p = "get" => ~known /\ text = <<(j.reading + j.offset) % 101>>
    /\ p = "insert" => ~known /\ j.level = 100 /\ (j.reading + j.offset) % 101 = 100

LevelsTracked ==
    LET j == job["receive"]
        i == j.item
    IN  Tracked(pc["receive"], j, Known(i), offsets[i], files[i], history[i])

HttpReads == pc["http"] \in {"accept", "recv", "row", "cell", "reply"}

LevelInv == LevelsTracked /\ HttpReads

-----------------------------------------------------------------------------
LEMMA FieldsKept ==
    ASSUME NEW j \in Jobs, NEW x, NEW y
    PROVE  /\ [j EXCEPT !.level = x].level = x /\ [j EXCEPT !.level = x].item = j.item
           /\ [j EXCEPT !.level = x].reading = j.reading
           /\ [j EXCEPT !.offset = x].offset = x /\ [j EXCEPT !.offset = x].item = j.item
           /\ [j EXCEPT !.offset = x].reading = j.reading /\ [j EXCEPT !.offset = x].level = j.level
           /\ [j EXCEPT !.offset = x, !.level = y].offset = x
           /\ [j EXCEPT !.offset = x, !.level = y].level = y
           /\ [j EXCEPT !.offset = x, !.level = y].item = j.item
           /\ [j EXCEPT !.offset = x, !.level = y].reading = j.reading
           /\ [j EXCEPT !.level = x, !.after = y].level = x
           /\ [j EXCEPT !.level = x, !.after = y].item = j.item
           /\ [j EXCEPT !.level = x, !.after = y].reading = j.reading
           /\ [j EXCEPT !.cheapest = x, !.store = y].item = j.item
           /\ [j EXCEPT !.cheapest = x, !.store = y].level = j.level
           /\ [j EXCEPT !.cheapest = x, !.store = y].reading = j.reading
           /\ [j EXCEPT !.cheapest = x, !.store = y].offset = j.offset
BY DEF Jobs

(* What Server::restock is for: the offset it inserts makes the reading it  *)
(* started from mean 100, whatever the sign of the remainder.               *)
LEMMA RestockedIsFull ==
    ASSUME NEW r \in Nat, NEW o \in 0..200
    PROVE  LET level == (r + o) % 101
           IN  level \in 0..100 /\ (r + NewOffset(level, o)) % 101 = 100
<1> DEFINE level == (r + o) % 101
<1>1. level \in 0..100 OBVIOUS
<1>2. PICK q \in Nat : r + o = 101 * q + level
  OBVIOUS
<1>3. CASE level >= o
  <2>1. Remainder(level - o, 101) = (level - o) % 101 BY <1>1, <1>3 DEF Remainder
  <2>2. (level - o) % 101 = level - o BY <1>1, <1>3
  <2>3. NewOffset(level, o) = 100 - (level - o) BY <2>1, <2>2 DEF NewOffset
  <2>4. r + NewOffset(level, o) = 101 * q + 100 BY <1>1, <1>2, <2>3
  <2> QED BY <1>1, <2>4
<1>4. CASE level < o
  <2>1. Remainder(level - o, 101) = -((o - level) % 101) BY <1>1, <1>4 DEF Remainder
  <2>2. PICK k \in {0, 1} : (o - level) % 101 = o - level - 101 * k BY <1>1, <1>4
  <2>3. NewOffset(level, o) = 100 + (o - level - 101 * k) BY <2>1, <2>2 DEF NewOffset
  <2>4. r + NewOffset(level, o) = 101 * (q - k) + 100 BY <1>1, <1>2, <2>2, <2>3
  <2>5. q - k \in Int OBVIOUS
  <2> QED BY <1>1, <2>4, <2>5
<1> QED BY <1>1, <1>3, <1>4

LEMMA OverlayOfNothing == ASSUME NEW v PROVE Overlay(<<>>, v) = <<v>>
BY DEF Overlay

(* A step that leaves the receive thread and what it watches alone.         *)
LEMMA TrackedStays ==
    ASSUME LevelsTracked, job'["receive"] = job["receive"], pc'["receive"] = pc["receive"],
           UNCHANGED <<offsets, files, history>>
    PROVE  LevelsTracked'
BY DEF LevelsTracked, Known

LEMMA HttpStays ==
    ASSUME HouseInv, HttpReads, NEW p, pc' = [pc EXCEPT !["receive"] = p]
    PROVE  HttpReads'
BY Typed DEF HttpReads

(* A step of the receive thread that leaves the item it is about.           *)
LEMMA TrackedStep ==
    ASSUME HouseInv, NEW p, NEW j, pc' = [pc EXCEPT !["receive"] = p],
           job'["receive"] = j,
           Tracked(p, j, Known(j.item)', offsets'[j.item], files'[j.item], history'[j.item])
    PROVE  LevelsTracked'
<1>1. pc'["receive"] = p /\ job'["receive"] = j BY Typed
<1> QED BY <1>1 DEF LevelsTracked, Known

LEMMA DieTracks == ASSUME HouseInv, LevelInv, Die PROVE LevelInv'
<1>1. UNCHANGED <<offsets, files, history, pc, job>> BY DEF Die, threadVars
<1> QED BY <1>1, TrackedStays DEF LevelInv, HttpReads

(* What is known before a step of the receive thread.                       *)
LEMMA Before ==
    ASSUME HouseInv, LevelInv
    PROVE  \E k \in Jobs :
              /\ k = job["receive"] /\ k.item \in Items /\ job = [job EXCEPT !["receive"] = k]
              /\ Tracked(pc["receive"], k, Known(k.item), offsets[k.item], files[k.item], history[k.item])
BY Typed, TypedJob DEF LevelInv, LevelsTracked

LEMMA NoteTracks == ASSUME HouseInv, LevelInv, Note("receive") PROVE LevelInv'
<1>1. PICK k \in Jobs :
          /\ k = job["receive"] /\ k.item \in Items /\ job = [job EXCEPT !["receive"] = k]
          /\ Tracked(pc["receive"], k, Known(k.item), offsets[k.item], files[k.item], history[k.item])
  BY Before
<1>2. /\ pc["receive"] = "note" /\ history' = [history EXCEPT ![k.item] = <<k.level>>]
      /\ pc' = [pc EXCEPT !["receive"] = "open"] /\ UNCHANGED <<offsets, files, job>>
  BY <1>1 DEF Note, At, Goto
<1>3. history'[k.item] = <<k.level>> /\ (Known(k.item)' <=> Known(k.item))
  BY <1>1, <1>2, Typed DEF Known
<1>4. Tracked("open", k, Known(k.item)', offsets'[k.item], files'[k.item], history'[k.item])
  BY <1>1, <1>2, <1>3 DEF Tracked, Computed, Noted, Settled, Shopping
<1>5. job'["receive"] = k BY <1>1, <1>2
<1> QED BY <1>2, <1>4, <1>5, TrackedStep, HttpStays DEF LevelInv

LEMMA TruncateTracks == ASSUME HouseInv, LevelInv, Truncate("receive") PROVE LevelInv'
<1>1. PICK k \in Jobs :
          /\ k = job["receive"] /\ k.item \in Items /\ job = [job EXCEPT !["receive"] = k]
          /\ Tracked(pc["receive"], k, Known(k.item), offsets[k.item], files[k.item], history[k.item])
  BY Before
<1>2. /\ pc["receive"] = "open" /\ files' = [files EXCEPT ![k.item] = <<>>]
      /\ pc' = [pc EXCEPT !["receive"] = "write"] /\ UNCHANGED <<offsets, history, job>>
  BY <1>1 DEF Truncate, At, Goto
<1>3. files'[k.item] = <<>> /\ (Known(k.item)' <=> Known(k.item))
  BY <1>1, <1>2, Typed DEF Known
<1>4. Tracked("write", k, Known(k.item)', offsets'[k.item], files'[k.item], history'[k.item])
  BY <1>1, <1>2, <1>3 DEF Tracked, Computed, Noted, Settled, Shopping
<1>5. job'["receive"] = k BY <1>1, <1>2
<1> QED BY <1>2, <1>4, <1>5, TrackedStep, HttpStays DEF LevelInv

(* The file is empty when the level is written, so nothing shows through.   *)
LEMMA WriteTracks == ASSUME HouseInv, LevelInv, Write("receive") PROVE LevelInv'
<1>1. PICK k \in Jobs :
          /\ k = job["receive"] /\ k.item \in Items /\ job = [job EXCEPT !["receive"] = k]
          /\ Tracked(pc["receive"], k, Known(k.item), offsets[k.item], files[k.item], history[k.item])
  BY Before
<1>2. /\ pc["receive"] = "write" /\ files' = [files EXCEPT ![k.item] = Overlay(files[k.item], k.level)]
      /\ pc' = [pc EXCEPT !["receive"] = k.after] /\ UNCHANGED <<offsets, history, job>>
  BY <1>1 DEF Write, At, Goto
<1>3. k.after \in {"amount", "recv"} BY <1>1, <1>2, Typed, SavingThread
<1>4. files[k.item] = <<>> BY <1>1, <1>2 DEF Tracked
<1>5. files'[k.item] = <<k.level>> /\ (Known(k.item)' <=> Known(k.item))
  BY <1>1, <1>2, <1>4, Typed, OverlayOfNothing DEF Known
<1>6. Tracked(k.after, k, Known(k.item)', offsets'[k.item], files'[k.item], history'[k.item])
  BY <1>1, <1>2, <1>3, <1>5 DEF Tracked, Computed, Noted, Settled, Shopping
<1>7. job'["receive"] = k BY <1>1, <1>2
<1> QED BY <1>2, <1>6, <1>7, TrackedStep, HttpStays DEF LevelInv

LEMMA FindTracks == ASSUME HouseInv, LevelInv, Find("receive") PROVE LevelInv'
<1>1. PICK k \in Jobs :
          /\ k = job["receive"] /\ k.item \in Items /\ job = [job EXCEPT !["receive"] = k]
          /\ Tracked(pc["receive"], k, Known(k.item), offsets[k.item], files[k.item], history[k.item])
  BY Before
<1>2. /\ pc["receive"] = "restock"
      /\ pc' = [pc EXCEPT !["receive"] = IF Known(k.item) THEN "at" ELSE k.after]
      /\ UNCHANGED <<offsets, files, history, job>>
  BY <1>1 DEF Find, At, Goto
<1>3. Known(k.item) /\ (Known(k.item)' <=> Known(k.item))
  BY <1>1, <1>2 DEF Known, Tracked, Computed, Noted, Settled
<1>4. Tracked("at", k, Known(k.item)', offsets'[k.item], files'[k.item], history'[k.item])
  BY <1>1, <1>2, <1>3 DEF Tracked, Computed, Noted, Settled, Shopping
<1>5. job'["receive"] = k /\ pc' = [pc EXCEPT !["receive"] = "at"]
  BY <1>1, <1>2, <1>3
<1> QED BY <1>4, <1>5, TrackedStep, HttpStays DEF LevelInv

LEMMA ReadOffsetTracks == ASSUME HouseInv, LevelInv, ReadOffset("receive") PROVE LevelInv'
<1>1. PICK k \in Jobs :
          /\ k = job["receive"] /\ k.item \in Items /\ job = [job EXCEPT !["receive"] = k]
          /\ Tracked(pc["receive"], k, Known(k.item), offsets[k.item], files[k.item], history[k.item])
  BY Before
<1> SUFFICES ASSUME ~Die PROVE LevelInv'
  BY DieTracks
<1>2. PICK m : m = [k EXCEPT !.offset = offsets[k.item]] OBVIOUS
<1>3. /\ pc["receive"] = "at" /\ job'["receive"] = m
      /\ pc' = [pc EXCEPT !["receive"] = "erase"] /\ UNCHANGED <<offsets, files, history>>
  BY <1>1, <1>2, Typed DEF ReadOffset, At, Goto
<1>4. m.offset = offsets[k.item] /\ m.item = k.item /\ m.reading = k.reading /\ m.level = k.level
  BY <1>2, FieldsKept
<1>5. Known(m.item)' <=> Known(k.item) BY <1>3, <1>4 DEF Known
<1>6. Tracked("erase", m, Known(m.item)', offsets'[m.item], files'[m.item], history'[m.item])
  BY <1>1, <1>3, <1>4, <1>5 DEF Tracked, Computed, Noted, Settled, Shopping
<1> QED BY <1>3, <1>6, TrackedStep, HttpStays DEF LevelInv

LEMMA EraseTracks == ASSUME HouseInv, LevelInv, Erase("receive") PROVE LevelInv'
<1>1. PICK k \in Jobs :
          /\ k = job["receive"] /\ k.item \in Items /\ job = [job EXCEPT !["receive"] = k]
          /\ Tracked(pc["receive"], k, Known(k.item), offsets[k.item], files[k.item], history[k.item])
  BY Before
<1>2. /\ pc["receive"] = "erase" /\ offsets' = Restrict(offsets, DOMAIN offsets \ {k.item})
      /\ pc' = [pc EXCEPT !["receive"] = "get"] /\ UNCHANGED <<files, history, job>>
  BY <1>1 DEF Erase, At, Goto
<1>3. ~Known(k.item)' BY <1>2 DEF Known, Restrict
<1>4. Tracked("get", k, Known(k.item)', offsets'[k.item], files'[k.item], history'[k.item])
  BY <1>1, <1>2, <1>3 DEF Tracked, Computed, Noted, Settled, Shopping
<1>5. job'["receive"] = k BY <1>1, <1>2
<1> QED BY <1>2, <1>4, <1>5, TrackedStep, HttpStays DEF LevelInv

LEMMA ReadLevelTracks == ASSUME HouseInv, LevelInv, ReadLevel("receive") PROVE LevelInv'
<1>1. PICK k \in Jobs :
          /\ k = job["receive"] /\ k.item \in Items /\ job = [job EXCEPT !["receive"] = k]
          /\ Tracked(pc["receive"], k, Known(k.item), offsets[k.item], files[k.item], history[k.item])
  BY Before
<1> SUFFICES ASSUME ~Die PROVE LevelInv'
  BY DieTracks
<1> DEFINE level == (k.reading + k.offset) % 101
<1>2. PICK m, n : /\ n = NewOffset(Head(files[k.item]), k.offset)
                  /\ m = [k EXCEPT !.offset = n, !.level = 100]
  OBVIOUS
<1>3. /\ pc["receive"] = "get" /\ job'["receive"] = m
      /\ pc' = [pc EXCEPT !["receive"] = "insert"] /\ UNCHANGED <<offsets, files, history>>
  <2>1. job'["receive"] = [job["receive"] EXCEPT
            !.offset = NewOffset(Head(files[job["receive"].item]), job["receive"].offset), !.level = 100]
    BY Typed DEF ReadLevel
  <2>2. /\ pc["receive"] = "get" /\ pc' = [pc EXCEPT !["receive"] = "insert"]
        /\ UNCHANGED <<offsets, files, history>>
    BY DEF ReadLevel, At, Goto
  <2> QED BY <1>1, <1>2, <2>1, <2>2
<1>4. ~Known(k.item) /\ files[k.item] = <<level>> BY <1>1, <1>3 DEF Tracked
<1>5. n = NewOffset(level, k.offset) BY <1>2, <1>4
<1>6. (k.reading + n) % 101 = 100
  <2>1. k.reading \in 0..(Word - 1) /\ k.offset \in 0..200 BY JobFields, ZenonT(40)
  <2>2. PICK r, o : r = k.reading /\ o = k.offset OBVIOUS
  <2>3. r \in Nat /\ o \in 0..200 BY <2>1, <2>2, SensorAssumption
  <2>4. (r + NewOffset((r + o) % 101, o)) % 101 = 100 BY <2>3, RestockedIsFull
  <2> QED BY <1>5, <2>2, <2>4
<1>7. m.offset = n /\ m.item = k.item /\ m.reading = k.reading /\ m.level = 100
  BY <1>2, FieldsKept
<1>8. Known(m.item)' <=> Known(k.item) BY <1>3, <1>7 DEF Known
<1>9. Tracked("insert", m, Known(m.item)', offsets'[m.item], files'[m.item], history'[m.item])
  BY <1>4, <1>6, <1>7, <1>8 DEF Tracked, Computed, Noted, Settled, Shopping
<1> QED BY <1>3, <1>9, TrackedStep, HttpStays DEF LevelInv

LEMMA InsertTracks == ASSUME HouseInv, LevelInv, Insert("receive") PROVE LevelInv'
<1>1. PICK k \in Jobs :
          /\ k = job["receive"] /\ k.item \in Items /\ job = [job EXCEPT !["receive"] = k]
          /\ Tracked(pc["receive"], k, Known(k.item), offsets[k.item], files[k.item], history[k.item])
  BY Before
<1>2. /\ pc["receive"] = "insert"
      /\ offsets' = [l \in DOMAIN offsets \cup {k.item} |->
                        IF l \in DOMAIN offsets THEN offsets[l] ELSE k.offset]
      /\ pc' = [pc EXCEPT !["receive"] = "note"] /\ UNCHANGED <<files, history, job>>
  BY <1>1 DEF Insert, At, Goto
<1>3. ~Known(k.item) /\ k.level = 100 /\ (k.reading + k.offset) % 101 = 100
  BY <1>1, <1>2 DEF Tracked
<1>4. Known(k.item)' /\ offsets'[k.item] = k.offset BY <1>2, <1>3 DEF Known
<1>5. Tracked("note", k, Known(k.item)', offsets'[k.item], files'[k.item], history'[k.item])
  BY <1>3, <1>4 DEF Tracked, Computed, Noted, Settled, Shopping
<1>6. job'["receive"] = k BY <1>1, <1>2
<1> QED BY <1>2, <1>5, <1>6, TrackedStep, HttpStays DEF LevelInv

(* A place at which nothing is asked of the locals.                         *)
LEMMA ReceiveTracks == ASSUME HouseInv, LevelInv, Receive \/ Meet PROVE LevelInv'
<1>1. PICK p \in {"look", "value"} : pc' = [pc EXCEPT !["receive"] = p]
  BY DEF Receive, Meet, Goto
<1>2. PICK j : j = job'["receive"] OBVIOUS
<1>3. Tracked(p, j, Known(j.item)', offsets'[j.item], files'[j.item], history'[j.item])
  BY DEF Tracked, Computed, Noted, Settled, Shopping
<1> QED BY <1>1, <1>2, <1>3, TrackedStep, HttpStays DEF LevelInv

LEMMA ValueTracks == ASSUME HouseInv, LevelInv, Value PROVE LevelInv'
<1>1. PICK k \in Jobs :
          /\ k = job["receive"] /\ k.item \in Items /\ job = [job EXCEPT !["receive"] = k]
          /\ Tracked(pc["receive"], k, Known(k.item), offsets[k.item], files[k.item], history[k.item])
  BY Before
<1> SUFFICES ASSUME ~Die PROVE LevelInv'
  BY DieTracks
<1>2. PICK v, m : v = (k.reading + offsets[k.item]) % 101 /\ m = [k EXCEPT !.level = v] OBVIOUS
<1>3. /\ job'["receive"] = m /\ pc' = [pc EXCEPT !["receive"] = "note"]
      /\ Known(k.item) /\ UNCHANGED <<offsets, files, history>>
  BY <1>1, <1>2, Typed DEF Value, Goto, Level
<1>4. m.level = v /\ m.item = k.item /\ m.reading = k.reading BY <1>2, FieldsKept
<1>5. Known(m.item)' BY <1>3, <1>4 DEF Known
<1>6. Tracked("note", m, Known(m.item)', offsets'[m.item], files'[m.item], history'[m.item])
  BY <1>2, <1>3, <1>4, <1>5 DEF Tracked, Computed, Noted, Settled, Shopping
<1> QED BY <1>3, <1>6, TrackedStep, HttpStays DEF LevelInv

(* The level that is computed a second time is the one that was saved.      *)
LEMMA AmountTracks == ASSUME HouseInv, LevelInv, Amount PROVE LevelInv'
<1>1. PICK k \in Jobs :
          /\ k = job["receive"] /\ k.item \in Items /\ job = [job EXCEPT !["receive"] = k]
          /\ Tracked(pc["receive"], k, Known(k.item), offsets[k.item], files[k.item], history[k.item])
  BY Before
<1> SUFFICES ASSUME ~Die PROVE LevelInv'
  BY DieTracks
<1>2. PICK v, m, p : /\ v = (k.reading + offsets[k.item]) % 101
                     /\ m = [k EXCEPT !.level = v, !.after = "recv"]
                     /\ p = IF v < 20 THEN "quote" ELSE "recv"
  OBVIOUS
<1>3. /\ pc["receive"] = "amount" /\ pc' = [pc EXCEPT !["receive"] = p]
      /\ UNCHANGED <<offsets, files, history>>
  BY <1>1, <1>2 DEF Amount, At, Goto, Level
<1>4. job'["receive"] = m
  <2>1. job'["receive"] = [job["receive"] EXCEPT !.level = Level(job["receive"].item), !.after = "recv"]
    BY Typed DEF Amount
  <2> QED BY <1>1, <1>2, <2>1 DEF Level
<1>5. m.level = v /\ m.item = k.item /\ m.reading = k.reading
  <2>1. PICK a : a = "recv" OBVIOUS
  <2>2. m = [k EXCEPT !.level = v, !.after = a] BY <1>2, <2>1
  <2> QED BY <2>2, FieldsKept
<1>6. Known(k.item) /\ k.level = v /\ files[k.item] = <<v>> /\ history[k.item] = <<v>>
  BY <1>1, <1>2, <1>3 DEF Tracked, Computed, Noted, Settled
<1>7. Known(m.item)' BY <1>3, <1>5, <1>6 DEF Known
<1>8. Tracked(p, m, Known(m.item)', offsets'[m.item], files'[m.item], history'[m.item])
  <2>1. p \in {"quote", "recv"} /\ (p = "quote" => v < 20) BY <1>2
  <2> QED BY <1>2, <1>3, <1>5, <1>6, <1>7, <2>1 DEF Tracked, Computed, Noted, Settled, Shopping
<1> QED BY <1>3, <1>4, <1>8, TrackedStep, HttpStays DEF LevelInv

(* From store to store nothing changes but the comparison.                  *)
LEMMA ShoppingTracks == ASSUME HouseInv, LevelInv, Quote \/ Quoted \/ Buy \/ Bought PROVE LevelInv'
<1>1. PICK k \in Jobs :
          /\ k = job["receive"] /\ k.item \in Items /\ job = [job EXCEPT !["receive"] = k]
          /\ Tracked(pc["receive"], k, Known(k.item), offsets[k.item], files[k.item], history[k.item])
  BY Before
<1> SUFFICES ASSUME ~Die PROVE LevelInv'
  BY DieTracks
<1>2. pc["receive"] \in Shopping /\ UNCHANGED <<offsets, files, history>>
  BY DEF Quote, Quoted, Buy, Bought, Dials, At, Shopping
<1>3. PICK p \in {"quote", "quoted", "buy", "bought", "restock", "recv"} :
          pc' = [pc EXCEPT !["receive"] = p]
  BY DEF Quote, Quoted, Buy, Bought, Dials, Goto
<1>4. PICK m : /\ job'["receive"] = m /\ m.item = k.item /\ m.level = k.level /\ m.reading = k.reading
  <2>1. CASE Quoted
    <3>1. PICK c, s : job' = [job EXCEPT !["receive"].cheapest = c, !["receive"].store = s]
      BY <2>1 DEF Quoted
    <3>2. job'["receive"] = [k EXCEPT !.cheapest = c, !.store = s] BY <1>1, <3>1, Typed
    <3>3. PICK m : m = [k EXCEPT !.cheapest = c, !.store = s] OBVIOUS
    <3>4. m.item = k.item BY <1>1, <3>3 DEF Jobs
    <3>5. m.level = k.level BY <1>1, <3>3 DEF Jobs
    <3>6. m.reading = k.reading BY <1>1, <3>3 DEF Jobs
    <3> QED BY <3>2, <3>3, <3>4, <3>5, <3>6
  <2>2. CASE ~Quoted
    <3>1. UNCHANGED job BY <2>2 DEF Quote, Buy, Bought, Dials
    <3> QED BY <1>1, <3>1
  <2> QED BY <2>1, <2>2
<1>5. Known(m.item)' <=> Known(k.item) BY <1>2, <1>4 DEF Known
<1>6. Tracked(p, m, Known(m.item)', offsets'[m.item], files'[m.item], history'[m.item])
  BY <1>1, <1>2, <1>4, <1>5 DEF Tracked, Computed, Noted, Settled, Shopping
<1> QED BY <1>3, <1>4, <1>6, TrackedStep, HttpStays DEF LevelInv

LEMMA ReceivesTracks == ASSUME HouseInv, LevelInv, Receives PROVE LevelInv'
BY ReceiveTracks, ValueTracks, AmountTracks, ShoppingTracks, FindTracks, ReadOffsetTracks,
   EraseTracks, ReadLevelTracks, InsertTracks, NoteTracks, TruncateTracks, WriteTracks
   DEF Receives, Restocks

-----------------------------------------------------------------------------
(* The HTTP thread reads the files, and no more.                            *)
LEMMA ServesTracks ==
    ASSUME NoButtons, HouseInv, LevelInv, Serves
    PROVE  LevelInv'
<1>1. ~Restocks("http")
  BY DEF LevelInv, HttpReads, Restocks, Find, ReadOffset, Erase, ReadLevel, Insert, Note, Truncate,
         Write, At
<1>2. ~Press
  <2> SUFFICES ASSUME Press PROVE FALSE
    OBVIOUS
  <2>1. connection.arrived # "nothing" /\ connection.request.method = "POST"
    BY DEF Press, IsPost, HeaderEnded
  <2>2. connection # NoConnection BY <2>1 DEF NoConnection
  <2>3. connection.request \in Requests BY <2>2, Typed DEF ConnectionOK
  <2> QED BY <2>1, <2>3 DEF NoButtons
<1>3. CASE Die BY <1>3, DieTracks
<1>4. CASE ~Die
  <2>1. UNCHANGED <<offsets, files, history>>
    BY <1>1, <1>2, <1>4 DEF Serves, Handles, Accept, NotFound, GetPage, SkipRow, StartRow, FinishRow,
                            NextRow, Reply
  <2>2. job'["receive"] = job["receive"]
    BY <1>1, <1>2, <1>4, Typed DEF Serves, Handles, Accept, NotFound, GetPage, SkipRow, StartRow,
                                   FinishRow, NextRow, Reply
  <2>3. PICK p \in {"accept", "recv", "row", "cell", "reply"} : pc' = [pc EXCEPT !["http"] = p]
    BY <1>1, <1>2, <1>4 DEF Serves, Handles, Accept, NotFound, GetPage, SkipRow, StartRow, FinishRow,
                            NextRow, Reply, Goto
  <2>4. pc'["receive"] = pc["receive"] /\ HttpReads' BY <2>3, Typed DEF HttpReads
  <2> QED BY <2>1, <2>2, <2>4, TrackedStays DEF LevelInv
<1> QED BY <1>3, <1>4

LEMMA LevelInvStep ==
    ASSUME NoButtons, HouseInv, LevelInv, [Next]_vars
    PROVE  LevelInv'
<1>1. CASE UNCHANGED threadVars
  BY <1>1, TrackedStays DEF threadVars, LevelInv, HttpReads
<1>2. CASE Receives \/ Serves BY <1>2, ReceivesTracks, ServesTracks
<1> QED BY <1>1, <1>2 DEF Next, Environment, GoesDown, vars

LEMMA LevelInvInit == Init => LevelInv
<1> SUFFICES ASSUME Init PROVE LevelInv
  OBVIOUS
<1>1. pc["receive"] = "recv" /\ pc["http"] = "accept" /\ DOMAIN offsets = {}
  BY DEF Init, Threads
<1> QED BY <1>1 DEF LevelInv, LevelsTracked, HttpReads, Tracked, Known, Computed, Noted, Settled, Shopping

LEMMA LevelInvAlways == ASSUME NoButtons PROVE Spec => []LevelInv
<1>1. HouseInv /\ LevelInv /\ [Next]_vars => LevelInv' BY LevelInvStep
<1> QED BY <1>1, LevelInvInit, HouseInvAlways, PTL DEF Spec

(* Where nobody presses a button, the level that is shown between two       *)
(* datagrams is the reading plus the offset, whatever the sensors report    *)
(* and however often the server buys.                                       *)
THEOREM LevelsCorrect == ASSUME NoButtons PROVE Spec => []Aligned
<1>1. HouseInv /\ LevelInv => Aligned BY DEF LevelInv, LevelsTracked, Tracked, Aligned, Level
<1> QED BY <1>1, LevelInvAlways, HouseInvAlways, PTL

(* Without buttons the level that is computed again is the one that was     *)
(* saved: nothing but a restock changes an offset that is there.            *)
OrderedIsShown ==
    LET j == job["receive"]
    IN  pc["receive"] \in {"quote", "quoted", "buy", "bought"} => files[j.item] = <<j.level>>

LEMMA OrderedLevel == ASSUME NoButtons PROVE Spec => []OrderedIsShown
<1>1. LevelInv => OrderedIsShown
  BY DEF LevelInv, LevelsTracked, Tracked, OrderedIsShown, Noted, Settled, Shopping
<1> QED BY <1>1, LevelInvAlways, PTL

=============================================================================
