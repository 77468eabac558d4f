--------------------------- MODULE StartupProofs ----------------------------
(***************************************************************************)
(* The programs and their folder, for any of the four programs and any     *)
(* items, however they are started, killed and started again.              *)
(***************************************************************************)
EXTENDS Startup, TLAPS

Whole == Len(Settings)

(* Where each main() is, and what it has counted there.                     *)
MainsOK ==
    /\ at \in [Programs -> Places]
    /\ cursor \in [Programs -> 1..Len(Settings)]
    /\ todo \in [Programs -> SUBSET Entries]
    /\ lacks \in [Programs -> BOOLEAN]
    /\ \A p \in Programs :
          /\ at[p] \in {"wipe", "create", "index"} => cursor[p] = 1
          /\ at[p] = "read" => cursor[p] <= Len(Asks(p))
          /\ at[p] \in {"wipe", "create", "fill", "index"} => Initialises(p)

FolderOK ==
    /\ folder \subseteq Entries /\ index \subseteq Items /\ known \subseteq Items
    /\ index # {} => "index" \in folder

(* A port is open only while main() holds stores, or is breaking off.       *)
PortsOK ==
    /\ ports \in [1..STORE_COUNT -> Programs \cup {Nobody}]
    /\ \A k \in 1..STORE_COUNT :
          ports[k] # Nobody => HasStores(ports[k]) \/ at[ports[k]] = "clash"
    /\ \A p \in Programs : at[p] = "clash" => \E k \in 1..STORE_COUNT : ports[k] # p

NotesOK == settled \in BOOLEAN /\ torn \in BOOLEAN /\ disturbed \in BOOLEAN

(* The config: whole once it is settled, and, as long as no first start was *)
(* killed or met another, written by one program, line after line.          *)
ConfigOK ==
    /\ config \in {Absent} \cup 0..Whole
    /\ settled => config = Whole /\ Creating = {}
    /\ ~torn =>
          /\ \A p, q \in Creating : p = q
          /\ \A p \in Creating : config = IF at[p] = "create" THEN Absent ELSE cursor[p] - 1
          /\ Creating = {} => config \in {Absent, Whole}
          /\ \A p \in Programs : at[p] \in {"index", "read"} /\ Initialises(p) => config = Whole

(* The folder of a server that nobody disturbs.                             *)
LevelsOK ==
    "server" \in Programs =>
        /\ at["server"] \notin {"run", "clash", "gone", "dead"} => known = {}
        /\ at["server"] \in {"read", "run"} /\ ~disturbed => known \subseteq folder /\ index = Items
        /\ at["server"] = "dead" => disturbed \/ lacks["server"]

StartInv == MainsOK /\ FolderOK /\ PortsOK /\ NotesOK /\ ConfigOK /\ LevelsOK

-----------------------------------------------------------------------------
(* The constants: what each main() asks for is among the settings.          *)

LEMMA FourPrograms ==
    ASSUME NEW p \in Programs
    PROVE  p \in {"server", "store", "producers", "sensors"} /\ p # Nobody
BY StartupAssumption DEF Nobody

LEMMA NineSettings == Len(Settings) = 9 /\ Whole = 9 /\ Absent = 100 /\ STORE_COUNT = 2
BY DEF Settings, Whole, Absent, STORE_COUNT

LEMMA FewQuestions ==
    ASSUME NEW p \in Programs
    PROVE  /\ Len(Asks(p)) \in 1..7 /\ 1 <= Len(Asks(p))
           /\ p = "server" => Len(Asks(p)) = 7
<1>1. CASE p = "server" BY <1>1 DEF Asks
<1>2. CASE p = "store" BY <1>2 DEF Asks
<1>3. CASE p = "producers" BY <1>3 DEF Asks
<1>4. CASE p = "sensors" BY <1>4 DEF Asks
<1> QED BY <1>1, <1>2, <1>3, <1>4, FourPrograms

(* The stores are made once Store1Ip, the fourth setting, has been read.    *)
LEMMA StoresAfterFour ==
    ASSUME NEW c \in Nat
    PROVE  (\A k \in c..Len(Asks("server")) : Asks("server")[k] # "Store1Ip") <=> c > 4
<1>1. /\ Len(Asks("server")) = 7
      /\ Asks("server")[4] = "Store1Ip" /\ Asks("server")[5] # "Store1Ip"
      /\ Asks("server")[6] # "Store1Ip" /\ Asks("server")[7] # "Store1Ip"
  BY DEF Asks
<1>2. ASSUME c > 4, NEW k \in c..7 PROVE k \in {5, 6, 7} BY <1>2
<1>3. ASSUME c <= 4 PROVE 4 \in c..7 BY <1>3
<1> QED BY <1>1, <1>2, <1>3

(* In a whole config every question finds its line.                         *)
LEMMA WholeAnswers ==
    ASSUME NEW p \in Programs, NEW c \in 1..Len(Asks(p)), config = Whole
    PROVE  Found(Asks(p)[c])
<1> DEFINE Asked == Asks(p)[c]
<1>1. ASSUME NEW k \in 1..9, Settings[k] = Asked PROVE Found(Asked)
  BY <1>1, NineSettings DEF Found
<1>2. /\ Settings[1] = "ServerIp" /\ Settings[2] = "ServerPort" /\ Settings[4] = "HttpServerPort"
      /\ Settings[5] = "Store1Ip" /\ Settings[6] = "Store1Port" /\ Settings[7] = "ExternalStoreN"
      /\ Settings[8] = "ExternalStores" /\ Settings[9] = "BrokerIp"
  BY DEF Settings
<1>3. Asked \in {"ServerIp", "ServerPort", "HttpServerPort", "Store1Ip", "Store1Port",
                 "ExternalStoreN", "ExternalStores", "BrokerIp"}
  <2>1. CASE p = "server"
    <3>1. c \in 1..7 BY <2>1, FewQuestions
    <3>2. c = 1 \/ c = 2 \/ c = 3 \/ c = 4 \/ c = 5 \/ c = 6 \/ c = 7 BY <3>1
    <3> QED BY <2>1, <3>2 DEF Asks
  <2>2. CASE p = "store"
    <3>1. c \in {1, 2, 3} BY <2>2 DEF Asks
    <3> QED BY <2>2, <3>1 DEF Asks
  <2>3. CASE p = "producers"
    <3>1. c = 1 BY <2>3 DEF Asks
    <3> QED BY <2>3, <3>1 DEF Asks
  <2>4. CASE p = "sensors"
    <3>1. c \in {1, 2} BY <2>4 DEF Asks
    <3> QED BY <2>4, <3>1 DEF Asks
  <2> QED BY <2>1, <2>2, <2>3, <2>4, FourPrograms
<1> HIDE DEF Asked
<1>4. \E k \in 1..9 : Settings[k] = Asked BY <1>2, <1>3
<1>5. Found(Asked) BY <1>1, <1>4
<1> QED BY <1>5 DEF Asked

-----------------------------------------------------------------------------
(* The invariant holds at first.                                            *)

LEMMA StartInvInit == ASSUME Init PROVE StartInv
<1> USE NineSettings
<1>1. MainsOK BY DEF Init, MainsOK, Places
<1>2. FolderOK BY DEF Init, FolderOK
<1>3. PortsOK BY DEF Init, PortsOK
<1>4. NotesOK BY DEF Init, NotesOK
<1>5. ConfigOK
  <2>1. Creating = {} BY DEF Init, Creating
  <2>2. config \in {Absent, 9} /\ (settled => config = 9) BY DEF Init, Absent
  <2>3. \A p \in Programs : at[p] = "off" BY DEF Init
  <2> QED BY <2>1, <2>2, <2>3 DEF ConfigOK
<1>6. LevelsOK BY DEF Init, LevelsOK
<1> QED BY <1>1, <1>2, <1>3, <1>4, <1>5, <1>6 DEF StartInv


-----------------------------------------------------------------------------
(* What a step of one main() leaves as it is.                               *)

LEMMA HasStoresNow ==
    ASSUME NEW p \in Programs, cursor[p] \in Nat
    PROVE  HasStores(p) <=> \/ p \in {"server", "store"} /\ at[p] = "run"
                            \/ p = "server" /\ at[p] = "read" /\ cursor[p] > 4
<1>1. CASE p = "server"
  <2>1. (\A k \in cursor[p]..Len(Asks(p)) : Asks(p)[k] # "Store1Ip") <=> cursor[p] > 4
    BY <1>1, StoresAfterFour
  <2> QED BY <1>1, <2>1 DEF HasStores
<1>2. CASE p # "server" BY <1>2 DEF HasStores
<1> QED BY <1>1, <1>2

LEMMA HasStoresNext ==
    ASSUME NEW p \in Programs, cursor'[p] \in Nat
    PROVE  HasStores(p)' <=> \/ p \in {"server", "store"} /\ at'[p] = "run"
                             \/ p = "server" /\ at'[p] = "read" /\ cursor'[p] > 4
<1>1. CASE p = "server"
  <2>1. (\A k \in cursor'[p]..Len(Asks(p)) : Asks(p)[k] # "Store1Ip") <=> cursor'[p] > 4
    BY <1>1, StoresAfterFour
  <2> QED BY <1>1, <2>1 DEF HasStores
<1>2. CASE p # "server" BY <1>2 DEF HasStores
<1> QED BY <1>1, <1>2

(* The mains other than p stay where they are.                              *)
Alone(p) == \A q \in Programs \ {p} : at'[q] = at[q] /\ cursor'[q] = cursor[q]

LEMMA StoresOfOthers ==
    ASSUME MainsOK, MainsOK', NEW p \in Programs, Alone(p), NEW q \in Programs \ {p}
    PROVE  HasStores(q)' <=> HasStores(q)
<1>1. cursor[q] \in Nat /\ cursor'[q] \in Nat BY NineSettings DEF MainsOK
<1>2. at'[q] = at[q] /\ cursor'[q] = cursor[q] BY DEF Alone
<1> QED BY <1>1, <1>2, HasStoresNow, HasStoresNext

(* The ports stay as they are while p keeps the stores it has.              *)
LEMMA PortsStay ==
    ASSUME MainsOK, MainsOK', PortsOK, NEW p \in Programs, Alone(p), UNCHANGED ports,
           HasStores(p) => HasStores(p)', at'[p] = "clash" <=> at[p] = "clash"
    PROVE  PortsOK'
<1>1. \A k \in 1..STORE_COUNT : ports[k] # Nobody => HasStores(ports[k])' \/ at'[ports[k]] = "clash"
  <2> SUFFICES ASSUME NEW k \in 1..STORE_COUNT, ports[k] # Nobody
               PROVE  HasStores(ports[k])' \/ at'[ports[k]] = "clash"
    OBVIOUS
  <2>1. ports[k] \in Programs /\ (HasStores(ports[k]) \/ at[ports[k]] = "clash") BY DEF PortsOK
  <2> DEFINE h == ports[k]
  <2>2. h \in Programs /\ (HasStores(h) \/ at[h] = "clash") BY <2>1
  <2>3. CASE h = p BY <2>2, <2>3
  <2>4. CASE h # p
    <3>1. HasStores(h)' <=> HasStores(ports[k]) BY <2>2, <2>4, StoresOfOthers
    <3> QED BY <2>2, <2>4, <3>1 DEF Alone
  <2> QED BY <2>3, <2>4
<1>2. \A q \in Programs : at'[q] = "clash" => at[q] = "clash" BY DEF Alone
<1> QED BY <1>1, <1>2 DEF PortsOK


(* The ports of p close when it leaves.                                     *)
LEMMA PortsLeft ==
    ASSUME MainsOK, MainsOK', PortsOK, NEW p \in Programs, Alone(p), ports' = Without(p),
           at'[p] # "clash"
    PROVE  PortsOK'
<1>1. ports' = [k \in 1..STORE_COUNT |-> IF ports[k] = p THEN Nobody ELSE ports[k]]
  BY DEF Without, PortsOK
<1>2. ports' \in [1..STORE_COUNT -> Programs \cup {Nobody}] BY <1>1 DEF PortsOK
<1>3. ASSUME NEW k \in 1..STORE_COUNT, ports'[k] # Nobody
      PROVE  HasStores(ports[k])' \/ at'[ports'[k]] = "clash"
  <2>1. ports'[k] = ports[k] /\ ports[k] \in Programs \ {p} BY <1>1, <1>3 DEF PortsOK
  <2>2. PICK h \in Programs \ {p} : h = ports[k] BY <2>1
  <2>3. HasStores(h) \/ at[h] = "clash" BY <2>1, <2>2, <1>1, <1>3 DEF PortsOK
  <2>4. HasStores(h)' <=> HasStores(h) BY <2>2, StoresOfOthers
  <2>5. at'[h] = at[h] BY <2>2 DEF Alone
  <2>6. HasStores(h)' \/ at'[h] = "clash" BY <2>3, <2>4, <2>5
  <2>7. h = ports'[k] BY <2>1, <2>2
  <2> QED BY <2>6, <2>7
<1>4. ASSUME NEW q \in Programs, at'[q] = "clash" PROVE \E k \in 1..STORE_COUNT : ports'[k] # q
  <2>1. q # p /\ at[q] = "clash" BY <1>4 DEF Alone
  <2>2. PICK k \in 1..STORE_COUNT : ports[k] # q BY <2>1 DEF PortsOK
  <2>3. ports'[k] # q BY <1>1, <2>2, FourPrograms
  <2> QED BY <2>3
<1> QED BY <1>2, <1>3, <1>4 DEF PortsOK

(* A step of a main() that writes no config.                                *)
LEMMA ConfigStays ==
    ASSUME MainsOK, NotesOK, ConfigOK, NEW p \in Programs, Alone(p), UNCHANGED <<config, settled>>,
           torn' \in BOOLEAN, torn => torn',
           at[p] \notin {"create", "fill"}, at'[p] \notin {"create", "fill"},
           at'[p] \in {"index", "read"} /\ Initialises(p) /\ ~torn' => config = Whole
    PROVE  ConfigOK'
<1>1. Creating' = Creating BY DEF Creating, Alone
<1>2. \A q \in Creating : q # p /\ at'[q] = at[q] /\ cursor'[q] = cursor[q]
  BY DEF Creating, Alone
<1>3. ~torn' =>
          /\ \A q, r \in Creating : q = r
          /\ \A q \in Creating : config = IF at'[q] = "create" THEN Absent ELSE cursor'[q] - 1
          /\ Creating = {} => config \in {Absent, Whole}
          /\ \A q \in Programs : at'[q] \in {"index", "read"} /\ Initialises(q) => config = Whole
  BY <1>2 DEF ConfigOK, Alone
<1> QED BY <1>1, <1>3 DEF ConfigOK, Whole

(* A step that leaves the server alone, or leaves note of what it does.     *)
LEMMA LevelsStay ==
    ASSUME LevelsOK, NotesOK,
           "server" \in Programs => at'["server"] = at["server"] /\ lacks'["server"] = lacks["server"],
           UNCHANGED known, disturbed' \in BOOLEAN, disturbed => disturbed',
           ~disturbed' => folder \subseteq folder' /\ UNCHANGED index
    PROVE  LevelsOK'
BY DEF LevelsOK

-----------------------------------------------------------------------------
(* Each step keeps the invariant.                                           *)

LEMMA StartKeeps ==
    ASSUME StartInv, NEW p \in Programs, Start(p) PROVE StartInv'
<1> USE NineSettings DEF StartInv
<1>1. /\ at[p] = "off" /\ at' = [at EXCEPT ![p] = IF Initialises(p) THEN "wipe" ELSE "read"]
      /\ at'[p] = IF Initialises(p) THEN "wipe" ELSE "read"
      /\ cursor' = [cursor EXCEPT ![p] = 1] /\ cursor'[p] = 1
  BY DEF Start, Goto, MainsOK
<1>2. Alone(p) BY <1>1 DEF Alone, MainsOK
<1>3. MainsOK'
  <2>1. todo' \in [Programs -> SUBSET Entries] /\ lacks' \in [Programs -> BOOLEAN]
    BY DEF Start, MainsOK, FolderOK
  <2>2. at' \in [Programs -> Places] /\ cursor' \in [Programs -> 1..Len(Settings)]
    BY <1>1 DEF MainsOK, Places
  <2>3. at'[p] = "read" => cursor'[p] <= Len(Asks(p))
    <3>1. 1 <= Len(Asks(p)) BY FewQuestions
    <3> QED BY <1>1, <3>1
  <2>4. at'[p] \in {"wipe", "create", "fill", "index"} => Initialises(p) BY <1>1
  <2> QED BY <1>1, <1>2, <2>1, <2>2, <2>3, <2>4 DEF MainsOK, Alone
<1>4. FolderOK' BY DEF Start, FolderOK, files
<1>5. PortsOK'
  <2>1. ~HasStores(p) BY <1>1 DEF HasStores
  <2>2. UNCHANGED ports /\ at[p] # "clash" /\ at'[p] # "clash" BY <1>1 DEF Start
  <2> QED BY <1>2, <1>3, <2>1, <2>2, PortsStay
<1>6. NotesOK' BY DEF Start, NotesOK
<1>7. ConfigOK'
  <2>1. UNCHANGED <<config, settled, torn>> BY DEF Start, files
  <2>2. at'[p] \in {"index", "read"} => ~Initialises(p) BY <1>1
  <2>3. at[p] \notin {"create", "fill"} /\ at'[p] \notin {"create", "fill"} BY <1>1
  <2> QED BY <1>2, <2>1, <2>2, <2>3, ConfigStays DEF NotesOK
<1>8. LevelsOK'
  <2>1. UNCHANGED <<folder, index, known>> BY DEF Start, files
  <2>2. CASE p = "server"
    <3>1. at'["server"] = "wipe" BY <1>1, <2>2 DEF Initialises
    <3>2. known = {} BY <1>1, <2>2 DEF LevelsOK
    <3> QED BY <2>1, <3>1, <3>2 DEF LevelsOK
  <2>3. CASE p # "server"
    <3>1. "server" \in Programs => at'["server"] = at["server"] /\ lacks'["server"] = lacks["server"]
      BY <1>2, <2>3 DEF Start, Alone, MainsOK
    <3>2. disturbed' = disturbed BY <2>3 DEF Start, NotesOK
    <3> QED BY <2>1, <3>1, <3>2, LevelsStay DEF NotesOK
  <2> QED BY <2>2, <2>3
<1> QED BY <1>3, <1>4, <1>5, <1>6, <1>7, <1>8


(* Who empties the folder of the server is the server or disturbs it.       *)
LEMMA EmptiedBy ==
    ASSUME MainsOK, NEW p \in Programs, at[p] \in {"wipe", "create", "fill", "index"}
    PROVE  p \in {"server", "store", "producers"}
BY FourPrograms DEF MainsOK, Initialises

LEMMA RemoveKeeps ==
    ASSUME StartInv, NEW p \in Programs, NEW f \in Entries, Remove(p, f) PROVE StartInv'
<1> USE NineSettings DEF StartInv
<1>1. at[p] = "wipe" /\ UNCHANGED <<config, at, cursor, ports, known, settled, torn>> BY DEF Remove
<1>2. Alone(p) BY <1>1 DEF Alone
<1>3. MainsOK'
  <2>1. todo' \in [Programs -> SUBSET Entries] /\ lacks' = lacks BY DEF Remove, MainsOK
  <2> QED BY <1>1, <2>1 DEF MainsOK
<1>4. FolderOK'
  <2>1. folder' = folder \ {f} /\ index' = IF f = "index" THEN {} ELSE index BY DEF Remove
  <2> QED BY <1>1, <2>1 DEF FolderOK
<1>5. PortsOK'
  <2>1. ~HasStores(p) BY <1>1 DEF HasStores
  <2> QED BY <1>1, <1>2, <1>3, <2>1, PortsStay
<1>6. NotesOK' BY <1>1 DEF Remove, NotesOK
<1>7. ConfigOK' BY <1>1, <1>2, ConfigStays DEF NotesOK
<1>8. LevelsOK'
  <2>1. disturbed' = (disturbed \/ p \in {"store", "producers"}) /\ lacks' = lacks BY DEF Remove
  <2>2. CASE p = "server" BY <1>1, <2>1, <2>2 DEF LevelsOK, NotesOK
  <2>3. CASE p # "server"
    <3>1. disturbed' BY <1>1, <2>1, <2>3, EmptiedBy
    <3> QED BY <1>1, <2>1, <3>1, LevelsStay
  <2> QED BY <2>2, <2>3
<1> QED BY <1>3, <1>4, <1>5, <1>6, <1>7, <1>8

LEMMA LookKeeps ==
    ASSUME StartInv, NEW p \in Programs, Look(p) PROVE StartInv'
<1> USE NineSettings DEF StartInv
<1>1. /\ at[p] = "wipe" /\ at' = [at EXCEPT ![p] = IF config = Absent THEN "create" ELSE "index"]
      /\ at'[p] = IF config = Absent THEN "create" ELSE "index"
      /\ UNCHANGED <<config, folder, index, todo, cursor, lacks, ports, known, settled, disturbed>>
      /\ torn' = (torn \/ Creating # {})
  BY DEF Look, Goto, MainsOK, files
<1>2. Alone(p) BY <1>1 DEF Alone, MainsOK
<1>3. MainsOK'
  <2>1. cursor[p] = 1 /\ Initialises(p) /\ p \in Programs BY <1>1 DEF MainsOK
  <2>2. at' \in [Programs -> Places] BY <1>1 DEF MainsOK, Places
  <2> QED BY <1>1, <1>2, <2>1, <2>2 DEF MainsOK, Alone
<1>4. FolderOK' BY <1>1 DEF FolderOK
<1>5. PortsOK'
  <2>1. ~HasStores(p) BY <1>1 DEF HasStores
  <2> QED BY <1>1, <1>2, <1>3, <2>1, PortsStay
<1>6. NotesOK' BY <1>1 DEF NotesOK
<1>7. ConfigOK'
  <2>1. CASE config = Absent
    <3>1. ~settled /\ at'[p] = "create" BY <1>1, <2>1 DEF ConfigOK
    <3>2. Creating' = Creating \cup {p} BY <1>2, <3>1 DEF Alone, Creating
    <3>3. ASSUME ~torn'
          PROVE  /\ Creating = {}
                 /\ \A q \in Programs : at'[q] \in {"index", "read"} => ~Initialises(q)
      <4>1. Creating = {} /\ ~torn BY <1>1, <3>3
      <4>2. \A q \in Programs : at[q] \in {"index", "read"} => ~Initialises(q)
        BY <2>1, <4>1 DEF ConfigOK
      <4> QED BY <1>2, <3>1, <4>1, <4>2 DEF Alone
    <3> QED BY <1>1, <2>1, <3>1, <3>2, <3>3 DEF ConfigOK
  <2>2. CASE config # Absent
    <3>1. at'[p] = "index" BY <1>1, <2>2
    <3>2. ~torn' => config = Whole BY <1>1, <2>2 DEF ConfigOK
    <3> QED BY <1>1, <1>2, <3>1, <3>2, ConfigStays DEF NotesOK
  <2> QED BY <2>1, <2>2
<1>8. LevelsOK'
  <2>1. CASE p = "server"
    <3>1. at'["server"] \in {"create", "index"} BY <1>1, <2>1
    <3> QED BY <1>1, <2>1, <3>1 DEF LevelsOK
  <2>2. CASE p # "server" BY <1>1, <1>2, <2>2, LevelsStay DEF Alone, NotesOK
  <2> QED BY <2>1, <2>2
<1> QED BY <1>3, <1>4, <1>5, <1>6, <1>7, <1>8

LEMMA CreateKeeps ==
    ASSUME StartInv, NEW p \in Programs, Create(p) PROVE StartInv'
<1> USE NineSettings DEF StartInv
<1>1. /\ at[p] = "create" /\ at' = [at EXCEPT ![p] = "fill"] /\ at'[p] = "fill" /\ config' = 0
      /\ UNCHANGED <<folder, index, todo, cursor, lacks, ports, known, settled, torn, disturbed>>
  BY DEF Create, Goto, MainsOK, notes
<1>2. Alone(p) BY <1>1 DEF Alone, MainsOK
<1>3. MainsOK'
  <2>1. cursor[p] = 1 /\ Initialises(p) BY <1>1 DEF MainsOK
  <2>2. at' \in [Programs -> Places] BY <1>1 DEF MainsOK, Places
  <2> QED BY <1>1, <1>2, <2>1, <2>2 DEF MainsOK, Alone
<1>4. FolderOK' BY <1>1 DEF FolderOK
<1>5. PortsOK'
  <2>1. ~HasStores(p) BY <1>1 DEF HasStores
  <2> QED BY <1>1, <1>2, <1>3, <2>1, PortsStay
<1>6. NotesOK' BY <1>1 DEF NotesOK
<1>7. ConfigOK'
  <2>1. Creating' = Creating /\ p \in Creating BY <1>1, <1>2 DEF Alone, Creating
  <2>2. ~settled BY <2>1 DEF ConfigOK
  <2>3. ASSUME ~torn
        PROVE  /\ Creating = {p} /\ cursor[p] = 1
               /\ \A q \in Programs : at'[q] \in {"index", "read"} => ~Initialises(q)
    <3>1. Creating = {p} /\ config = Absent BY <1>1, <2>1, <2>3 DEF ConfigOK
    <3>2. cursor[p] = 1 BY <1>1 DEF MainsOK
    <3>3. \A q \in Programs : at[q] \in {"index", "read"} => ~Initialises(q)
      BY <2>3, <3>1 DEF ConfigOK
    <3> QED BY <1>1, <1>2, <3>1, <3>2, <3>3 DEF Alone
  <2> QED BY <1>1, <2>1, <2>2, <2>3 DEF ConfigOK
<1>8. LevelsOK'
  <2>1. CASE p = "server" BY <1>1, <2>1 DEF LevelsOK
  <2>2. CASE p # "server" BY <1>1, <1>2, <2>2, LevelsStay DEF Alone, NotesOK
  <2> QED BY <2>1, <2>2
<1> QED BY <1>3, <1>4, <1>5, <1>6, <1>7, <1>8


LEMMA FillKeeps ==
    ASSUME StartInv, NEW p \in Programs, Fill(p) PROVE StartInv'
<1> USE NineSettings DEF StartInv
<1>1. /\ at[p] = "fill" /\ cursor[p] \in 1..9 /\ Initialises(p)
      /\ UNCHANGED <<folder, index, todo, lacks, ports, known, torn, disturbed>>
      /\ config' = IF config < cursor[p] THEN cursor[p] ELSE config
  BY DEF Fill, MainsOK
<1>2. /\ at' = [at EXCEPT ![p] = IF cursor[p] = 9 THEN "index" ELSE "fill"]
      /\ at'[p] = IF cursor[p] = 9 THEN "index" ELSE "fill"
      /\ cursor' = [cursor EXCEPT ![p] = IF cursor[p] = 9 THEN 1 ELSE cursor[p] + 1]
      /\ cursor'[p] = IF cursor[p] = 9 THEN 1 ELSE cursor[p] + 1
      /\ settled' = (settled \/ (cursor[p] = 9 /\ ~torn))
  <2>1. cursor' = [cursor EXCEPT ![p] = IF cursor[p] = 9 THEN 1 ELSE cursor[p] + 1]
    BY DEF Fill, LastSetting
  <2>2. at' = [at EXCEPT ![p] = IF cursor[p] = 9 THEN "index" ELSE "fill"]
    BY <1>1 DEF Fill, LastSetting, Goto, MainsOK
  <2> QED BY <2>1, <2>2 DEF Fill, LastSetting, MainsOK
<1>3. Alone(p) BY <1>2 DEF Alone, MainsOK
<1>4. MainsOK'
  <2>1. at' \in [Programs -> Places] BY <1>2 DEF MainsOK, Places
  <2>2. cursor' \in [Programs -> 1..9] BY <1>1, <1>2 DEF MainsOK
  <2> QED BY <1>1, <1>2, <1>3, <2>1, <2>2 DEF MainsOK, Alone
<1>5. FolderOK' BY <1>1 DEF FolderOK
<1>6. PortsOK'
  <2>1. ~HasStores(p) BY <1>1 DEF HasStores
  <2> QED BY <1>1, <1>2, <1>3, <1>4, <2>1, PortsStay
<1>7. NotesOK' BY <1>1, <1>2 DEF NotesOK
<1>8. ConfigOK'
  <2>1. p \in Creating /\ ~settled BY <1>1 DEF Creating, ConfigOK
  <2>2. config' \in {Absent} \cup 0..Whole BY <1>1 DEF ConfigOK
  <2>3. ASSUME ~torn
        PROVE  /\ Creating = {p} /\ config' = cursor[p]
               /\ \A q \in Programs \ {p} : at[q] \in {"index", "read"} => ~Initialises(q)
    <3>1. Creating = {p} /\ config = cursor[p] - 1 BY <1>1, <2>1, <2>3 DEF ConfigOK
    <3>2. config # Whole /\ config' = cursor[p] BY <1>1, <3>1
    <3> QED BY <2>3, <3>1, <3>2 DEF ConfigOK
  <2>4. CASE cursor[p] = 9
    <3>1. Creating' = Creating \ {p} BY <1>2, <1>3, <2>4 DEF Alone, Creating
    <3>2. torn => ~settled' BY <1>2, <2>1
    <3> QED BY <1>1, <1>2, <1>3, <2>2, <2>3, <2>4, <3>1, <3>2 DEF ConfigOK
  <2>5. CASE cursor[p] # 9
    <3>1. Creating' = Creating BY <1>1, <1>2, <1>3, <2>5 DEF Alone, Creating
    <3>2. ~settled' BY <1>2, <2>1, <2>5
    <3>3. ~torn => config' = cursor'[p] - 1 /\ at'[p] = "fill" BY <1>1, <1>2, <2>3, <2>5
    <3>4. ~torn => \A q \in Programs : at'[q] \in {"index", "read"} => ~Initialises(q)
      BY <1>2, <1>3, <2>3, <2>5 DEF Alone
    <3> QED BY <1>1, <2>1, <2>2, <2>3, <3>1, <3>2, <3>3, <3>4 DEF ConfigOK
  <2> QED BY <2>4, <2>5
<1>9. LevelsOK'
  <2>1. CASE p = "server"
    <3>1. at'["server"] \in {"fill", "index"} BY <1>2, <2>1
    <3> QED BY <1>1, <2>1, <3>1 DEF LevelsOK
  <2>2. CASE p # "server" BY <1>1, <1>3, <2>2, LevelsStay DEF Alone, NotesOK
  <2> QED BY <2>1, <2>2
<1> QED BY <1>4, <1>5, <1>6, <1>7, <1>8, <1>9

LEMMA WriteIndexKeeps ==
    ASSUME StartInv, NEW p \in Programs, WriteIndex(p) PROVE StartInv'
<1> USE NineSettings DEF StartInv
<1>1. /\ at[p] = "index" /\ at' = [at EXCEPT ![p] = "read"] /\ at'[p] = "read"
      /\ folder' = folder \cup {"index"} /\ index' = IF p = "server" THEN Items ELSE {}
      /\ disturbed' = (disturbed \/ p \in {"store", "producers"})
      /\ UNCHANGED <<config, todo, cursor, lacks, ports, known, settled, torn>>
  BY DEF WriteIndex, Goto, MainsOK
<1>2. Alone(p) BY <1>1 DEF Alone, MainsOK
<1>3. MainsOK'
  <2>1. cursor[p] = 1 /\ Initialises(p) BY <1>1 DEF MainsOK
  <2>2. at' \in [Programs -> Places] BY <1>1 DEF MainsOK, Places
  <2>3. 1 <= Len(Asks(p)) BY FewQuestions
  <2> QED BY <1>1, <1>2, <2>1, <2>2, <2>3 DEF MainsOK, Alone
<1>4. FolderOK' BY <1>1 DEF FolderOK, Entries
<1>5. PortsOK'
  <2>1. ~HasStores(p) BY <1>1 DEF HasStores
  <2> QED BY <1>1, <1>2, <1>3, <2>1, PortsStay
<1>6. NotesOK' BY <1>1 DEF NotesOK
<1>7. ConfigOK'
  <2>1. Initialises(p) /\ ~torn => config = Whole BY <1>1 DEF ConfigOK
  <2> QED BY <1>1, <1>2, <2>1, ConfigStays DEF NotesOK
<1>8. LevelsOK'
  <2>1. CASE p = "server"
    <3>1. known = {} BY <1>1, <2>1 DEF LevelsOK
    <3> QED BY <1>1, <2>1, <3>1 DEF LevelsOK
  <2>2. CASE p # "server"
    <3>1. disturbed' BY <1>1, <2>2, EmptiedBy
    <3> QED BY <1>1, <1>2, <2>2, <3>1, LevelsStay DEF Alone
  <2> QED BY <2>1, <2>2
<1> QED BY <1>3, <1>4, <1>5, <1>6, <1>7, <1>8


LEMMA ReadKeeps ==
    ASSUME StartInv, NEW p \in Programs, Read(p) PROVE StartInv'
<1> USE NineSettings DEF StartInv
<1> DEFINE n == Len(Asks(p))
           name == Asks(p)[cursor[p]]
           fails == ~Found(name) /\ name \in Numbers
<1>1. n \in 1..7 /\ cursor[p] \in 1..n /\ at[p] = "read"
  <2>1. at[p] = "read" BY DEF Read
  <2>2. cursor[p] \in 1..9 /\ cursor[p] <= Len(Asks(p)) BY <2>1 DEF MainsOK
  <2>3. n \in 1..7 BY FewQuestions
  <2> HIDE DEF n
  <2>4. cursor[p] <= n BY <2>2 DEF n
  <2> QED BY <2>1, <2>2, <2>3, <2>4
<1>2. /\ at' = [at EXCEPT ![p] = IF fails THEN "dead" ELSE IF cursor[p] = n THEN "run" ELSE "read"]
      /\ cursor' = [cursor EXCEPT ![p] = IF cursor[p] = n THEN 1 ELSE cursor[p] + 1]
      /\ lacks' = [lacks EXCEPT ![p] = lacks[p] \/ ~Found(name)]
      /\ ports' = IF fails THEN Without(p) ELSE ports
      /\ UNCHANGED <<config, folder, index, todo, known, settled, torn, disturbed>>
  <2>1. at' = [at EXCEPT ![p] = IF fails THEN "dead" ELSE IF cursor[p] = n THEN "run" ELSE "read"]
    BY DEF Read, Goto
  <2>2. cursor' = [cursor EXCEPT ![p] = IF cursor[p] = n THEN 1 ELSE cursor[p] + 1] BY DEF Read
  <2>3. lacks' = [lacks EXCEPT ![p] = lacks[p] \/ ~Found(name)] BY DEF Read
  <2>4. ports' = IF fails THEN Without(p) ELSE ports BY DEF Read
  <2>5. UNCHANGED <<config, folder, index, todo, known, settled, torn, disturbed>>
    BY DEF Read, files, notes
  <2> QED BY <2>1, <2>2, <2>3, <2>4, <2>5
<1>3. fails => lacks'[p] BY <1>2 DEF MainsOK
<1> HIDE DEF n, fails
<1>4. /\ at'[p] = IF fails THEN "dead" ELSE IF cursor[p] = n THEN "run" ELSE "read"
      /\ cursor'[p] = IF cursor[p] = n THEN 1 ELSE cursor[p] + 1
  BY <1>2 DEF MainsOK
<1>5. Alone(p) BY <1>2 DEF Alone, MainsOK
<1>6. MainsOK'
  <2>1. at' \in [Programs -> Places] BY <1>2 DEF MainsOK, Places
  <2>2. cursor' \in [Programs -> 1..9] BY <1>1, <1>2 DEF MainsOK
  <2>3. lacks' \in [Programs -> BOOLEAN] BY <1>2 DEF MainsOK
  <2>4. at'[p] = "read" => cursor'[p] <= Len(Asks(p)) BY <1>1, <1>4 DEF n
  <2> QED BY <1>2, <1>4, <1>5, <2>1, <2>2, <2>3, <2>4 DEF MainsOK, Alone
<1>7. FolderOK' BY <1>2 DEF FolderOK
<1>8. PortsOK'
  <2>1. CASE fails BY <1>2, <1>4, <1>5, <1>6, <2>1, PortsLeft
  <2>2. CASE ~fails
    <3>1. ASSUME HasStores(p) PROVE HasStores(p)'
      <4>1. p = "server" /\ cursor[p] > 4 BY <1>1, <3>1, HasStoresNow
      <4>2. cursor'[p] \in Nat BY <1>6 DEF MainsOK
      <4>3. at'[p] = "run" \/ (at'[p] = "read" /\ cursor'[p] > 4) BY <1>1, <1>4, <2>2, <4>1
      <4> QED BY <4>1, <4>2, <4>3, HasStoresNext
    <3>2. UNCHANGED ports /\ at[p] # "clash" /\ at'[p] # "clash" BY <1>1, <1>2, <1>4, <2>2
    <3> QED BY <1>5, <1>6, <3>1, <3>2, PortsStay
  <2> QED BY <2>1, <2>2
<1>9. NotesOK' BY <1>2 DEF NotesOK
<1>10. ConfigOK'
  <2>1. Initialises(p) /\ ~torn => config = Whole BY <1>1 DEF ConfigOK
  <2>2. at'[p] \notin {"create", "fill"} BY <1>4
  <2> QED BY <1>1, <1>2, <1>5, <2>1, <2>2, ConfigStays DEF NotesOK
<1>11. LevelsOK'
  <2>1. CASE p = "server"
    <3>1. known = {} /\ (~disturbed => index = Items) BY <1>1, <2>1 DEF LevelsOK
    <3>2. at'["server"] = "dead" => lacks'["server"] BY <1>3, <1>4, <2>1
    <3> QED BY <1>2, <3>1, <3>2 DEF LevelsOK
  <2>2. CASE p # "server"
    <3>1. "server" \in Programs => at'["server"] = at["server"] /\ lacks'["server"] = lacks["server"]
      BY <1>2, <2>2 DEF MainsOK
    <3> QED BY <1>2, <3>1, LevelsStay DEF NotesOK
  <2> QED BY <2>1, <2>2
<1> QED BY <1>6, <1>7, <1>8, <1>9, <1>10, <1>11

LEMMA ListenKeeps ==
    ASSUME StartInv, NEW p \in Programs, NEW k \in DOMAIN ports, Listen(p, k) PROVE StartInv'
<1> USE NineSettings DEF StartInv
<1>1. /\ k \in 1..STORE_COUNT /\ HasStores(p) /\ ports[k] # p
      /\ UNCHANGED <<config, folder, index, todo, cursor, lacks, known, settled, torn, disturbed>>
  BY DEF Listen, files, notes, PortsOK
<1>2. at[p] \in {"read", "run"} BY <1>1 DEF HasStores
<1>3. CASE ports[k] = Nobody
  <2>1. ports' = [ports EXCEPT ![k] = p] /\ UNCHANGED at BY <1>3 DEF Listen
  <2>2. MainsOK' BY <1>1, <2>1 DEF MainsOK
  <2>3. HasStores(p)' BY <1>1, <2>1 DEF HasStores
  <2>4. ASSUME NEW q \in Programs, HasStores(q) PROVE HasStores(q)'
    BY <1>1, <2>1, <2>4 DEF HasStores
  <2>5. PortsOK'
    <3>1. ports' \in [1..STORE_COUNT -> Programs \cup {Nobody}] BY <2>1 DEF PortsOK
    <3>2. ASSUME NEW l \in 1..STORE_COUNT, ports'[l] # Nobody
          PROVE  HasStores(ports[l])' \/ at'[ports'[l]] = "clash"
      <4>1. CASE l = k BY <1>1, <2>1, <2>3, <4>1 DEF PortsOK
      <4>2. CASE l # k
        <5>1. ports'[l] = ports[l] /\ ports[l] \in Programs BY <2>1, <3>2, <4>2 DEF PortsOK
        <5>2. PICK q \in Programs : q = ports[l] BY <5>1
        <5>3. HasStores(q) \/ at[q] = "clash" BY <3>2, <5>1, <5>2 DEF PortsOK
        <5>4. HasStores(q)' \/ at'[q] = "clash" BY <2>1, <2>4, <5>3
        <5>5. q = ports'[l] BY <5>1, <5>2
        <5> QED BY <5>4, <5>5
      <4> QED BY <4>1, <4>2
    <3>3. ASSUME NEW q \in Programs, at'[q] = "clash" PROVE \E l \in 1..STORE_COUNT : ports'[l] # q
      <4>1. q # p BY <1>2, <2>1, <3>3
      <4>2. ports'[k] = p BY <1>1, <2>1 DEF PortsOK
      <4> QED BY <1>1, <4>1, <4>2
    <3> QED BY <3>1, <3>2, <3>3 DEF PortsOK
  <2>6. FolderOK' /\ NotesOK' BY <1>1 DEF FolderOK, NotesOK
  <2>7. ConfigOK' BY <1>1, <2>1 DEF ConfigOK, Creating
  <2>8. LevelsOK' BY <1>1, <2>1 DEF LevelsOK
  <2> QED BY <2>2, <2>5, <2>6, <2>7, <2>8
<1>4. CASE ports[k] # Nobody
  <2>1. /\ at' = [at EXCEPT ![p] = "clash"] /\ at'[p] = "clash" /\ UNCHANGED ports
    BY <1>4 DEF Listen, Goto, MainsOK
  <2>2. Alone(p) BY <1>1, <2>1 DEF Alone, MainsOK
  <2>3. MainsOK'
    <3>1. at' \in [Programs -> Places] BY <2>1 DEF MainsOK, Places
    <3> QED BY <1>1, <2>1, <2>2, <3>1 DEF MainsOK, Alone
  <2>4. PortsOK'
    <3>1. ASSUME NEW l \in 1..STORE_COUNT, ports[l] # Nobody
          PROVE  HasStores(ports[l])' \/ at'[ports[l]] = "clash"
      <4>1. PICK q \in Programs : q = ports[l] BY <3>1 DEF PortsOK
      <4>2. HasStores(q) \/ at[q] = "clash" BY <3>1, <4>1 DEF PortsOK
      <4>3. CASE q = p BY <2>1, <4>1, <4>3
      <4>4. CASE q # p
        <5>1. HasStores(q)' <=> HasStores(q) BY <2>2, <2>3, <4>4, StoresOfOthers
        <5>2. at'[q] = at[q] BY <2>2, <4>4 DEF Alone
        <5>3. HasStores(q)' \/ at'[q] = "clash" BY <4>2, <5>1, <5>2
        <5>4. q = ports'[l] BY <2>1, <4>1
        <5> QED BY <4>1, <5>3, <5>4
      <4> QED BY <4>3, <4>4
    <3>2. ASSUME NEW q \in Programs, at'[q] = "clash" PROVE \E l \in 1..STORE_COUNT : ports[l] # q
      <4>1. CASE q = p BY <1>1, <4>1
      <4>2. CASE q # p
        <5>1. at[q] = "clash" BY <2>2, <3>2, <4>2 DEF Alone
        <5> QED BY <5>1 DEF PortsOK
      <4> QED BY <4>1, <4>2
    <3>3. UNCHANGED ports BY <2>1
    <3> QED BY <3>1, <3>2, <3>3 DEF PortsOK
  <2>5. FolderOK' /\ NotesOK' BY <1>1 DEF FolderOK, NotesOK
  <2>6. ConfigOK' BY <1>1, <1>2, <2>1, <2>2, ConfigStays DEF NotesOK
  <2>7. LevelsOK'
    <3>1. CASE p = "server" BY <1>1, <2>1, <3>1 DEF LevelsOK
    <3>2. CASE p # "server" BY <1>1, <2>2, <3>2, LevelsStay DEF Alone, NotesOK
    <3> QED BY <3>1, <3>2
  <2> QED BY <2>3, <2>4, <2>5, <2>6, <2>7
<1> QED BY <1>3, <1>4


(* What a main() leaves behind that is no longer there.                     *)
LEMMA EndsKeeps ==
    ASSUME StartInv, NEW p \in Programs, EndsOfClash(p) PROVE StartInv'
<1> USE NineSettings DEF StartInv
<1>1. /\ at[p] = "clash" /\ at' = [at EXCEPT ![p] = "gone"] /\ at'[p] = "gone" /\ ports' = Without(p)
      /\ UNCHANGED <<config, folder, index, todo, cursor, lacks, known, settled, torn, disturbed>>
  BY DEF EndsOfClash, Goto, MainsOK, files, notes
<1>2. Alone(p) BY <1>1 DEF Alone, MainsOK
<1>3. MainsOK'
  <2>1. at' \in [Programs -> Places] BY <1>1 DEF MainsOK, Places
  <2> QED BY <1>1, <1>2, <2>1 DEF MainsOK, Alone
<1>4. FolderOK' /\ NotesOK' BY <1>1 DEF FolderOK, NotesOK
<1>5. PortsOK' BY <1>1, <1>2, <1>3, PortsLeft
<1>6. ConfigOK' BY <1>1, <1>2, ConfigStays DEF NotesOK
<1>7. LevelsOK'
  <2>1. CASE p = "server" BY <1>1, <2>1 DEF LevelsOK
  <2>2. CASE p # "server" BY <1>1, <1>2, <2>2, LevelsStay DEF Alone, NotesOK
  <2> QED BY <2>1, <2>2
<1> QED BY <1>3, <1>4, <1>5, <1>6, <1>7

LEMMA KillKeeps ==
    ASSUME StartInv, NEW p \in Programs, Kill(p) PROVE StartInv'
<1> USE NineSettings DEF StartInv
<1>1. /\ at' = [at EXCEPT ![p] = "off"] /\ at'[p] = "off" /\ ports' = Without(p)
      /\ cursor' = [cursor EXCEPT ![p] = 1]
      /\ known' = (IF p = "server" THEN {} ELSE known) /\ torn' = (torn \/ at[p] = "fill")
      /\ UNCHANGED <<config, folder, index, settled, disturbed>>
  BY DEF Kill, Goto, MainsOK, files
<1>2. Alone(p) BY <1>1 DEF Alone, MainsOK
<1>3. MainsOK'
  <2>1. at' \in [Programs -> Places] /\ cursor' \in [Programs -> 1..9] BY <1>1 DEF MainsOK, Places
  <2>2. todo' \in [Programs -> SUBSET Entries] /\ lacks' \in [Programs -> BOOLEAN]
    BY DEF Kill, MainsOK
  <2> QED BY <1>1, <1>2, <2>1, <2>2 DEF MainsOK, Alone
<1>4. FolderOK' /\ NotesOK' BY <1>1 DEF FolderOK, NotesOK
<1>5. PortsOK' BY <1>1, <1>2, <1>3, PortsLeft
<1>6. ConfigOK'
  <2>1. CASE at[p] \notin {"create", "fill"} BY <1>1, <1>2, <2>1, ConfigStays DEF NotesOK
  <2>2. CASE at[p] \in {"create", "fill"}
    <3>1. p \in Creating /\ Creating' = Creating \ {p} BY <1>1, <1>2, <2>2 DEF Alone, Creating
    <3>2. ~settled' BY <1>1, <3>1 DEF ConfigOK
    <3>3. ASSUME ~torn'
          PROVE  /\ Creating' = {} /\ config = Absent
                 /\ \A q \in Programs : at'[q] \in {"index", "read"} => ~Initialises(q)
      <4>1. ~torn /\ at[p] = "create" BY <1>1, <2>2, <3>3
      <4>2. Creating = {p} /\ config = Absent BY <3>1, <4>1 DEF ConfigOK
      <4>3. \A q \in Programs : at[q] \in {"index", "read"} => ~Initialises(q)
        BY <4>1, <4>2 DEF ConfigOK
      <4> QED BY <1>1, <1>2, <3>1, <4>2, <4>3 DEF Alone
    <3> QED BY <1>1, <3>2, <3>3 DEF ConfigOK
  <2> QED BY <2>1, <2>2
<1>7. LevelsOK'
  <2>1. CASE p = "server" BY <1>1, <2>1 DEF LevelsOK
  <2>2. CASE p # "server"
    <3>1. "server" \in Programs => at'["server"] = at["server"] /\ lacks'["server"] = lacks["server"]
      BY <1>2, <2>2 DEF Kill, Alone, MainsOK
    <3> QED BY <1>1, <2>2, <3>1, LevelsStay DEF NotesOK
  <2> QED BY <2>1, <2>2
<1> QED BY <1>3, <1>4, <1>5, <1>6, <1>7

LEMMA SaveKeeps ==
    ASSUME StartInv, "server" \in Programs, NEW i \in Items, Save(i) PROVE StartInv'
<1> USE DEF StartInv
<1>1. /\ at["server"] = "run" /\ known' = known \cup {i} /\ folder' = folder \cup {i, "history"}
      /\ UNCHANGED <<config, index, at, todo, cursor, lacks, ports, settled, torn, disturbed>>
  BY DEF Save, mains, notes
<1>2. MainsOK' /\ NotesOK' BY <1>1 DEF MainsOK, NotesOK
<1>3. FolderOK' BY <1>1 DEF FolderOK, Entries
<1>4. PortsOK'
  <2>1. Alone("server") BY <1>1 DEF Alone
  <2>2. HasStores("server") => HasStores("server")' BY <1>1 DEF HasStores
  <2> QED BY <1>1, <1>2, <2>1, <2>2, PortsStay
<1>5. ConfigOK' BY <1>1 DEF ConfigOK, Creating
<1>6. LevelsOK' BY <1>1 DEF LevelsOK
<1> QED BY <1>2, <1>3, <1>4, <1>5, <1>6

LEMMA RestockKeeps ==
    ASSUME StartInv, "server" \in Programs, NEW i \in Items, Restock(i) PROVE StartInv'
<1> USE NineSettings DEF StartInv
<1>1. /\ at["server"] = "run" /\ i \in known
      /\ UNCHANGED <<config, index, todo, cursor, lacks, known, settled, torn, disturbed>>
  BY DEF Restock, notes
<1>2. CASE i \in folder
  <2>1. folder' = folder \cup {"history"} /\ UNCHANGED <<at, ports>> BY <1>2 DEF Restock
  <2>2. MainsOK' /\ NotesOK' BY <1>1, <2>1 DEF MainsOK, NotesOK
  <2>3. FolderOK' BY <1>1, <2>1 DEF FolderOK, Entries
  <2>4. PortsOK'
    <3>1. Alone("server") BY <1>1, <2>1 DEF Alone
    <3>2. HasStores("server") => HasStores("server")' BY <1>1, <2>1 DEF HasStores
    <3> QED BY <2>1, <2>2, <3>1, <3>2, PortsStay
  <2>5. ConfigOK' BY <1>1, <2>1 DEF ConfigOK, Creating
  <2>6. LevelsOK' BY <1>1, <2>1 DEF LevelsOK
  <2> QED BY <2>2, <2>3, <2>4, <2>5, <2>6
<1>3. CASE i \notin folder
  <2>1. /\ at' = [at EXCEPT !["server"] = "dead"] /\ at'["server"] = "dead"
        /\ ports' = Without("server") /\ UNCHANGED folder
    BY <1>3 DEF Restock, Goto, MainsOK
  <2>2. disturbed BY <1>1, <1>3 DEF LevelsOK
  <2>3. Alone("server") BY <1>1, <2>1 DEF Alone, MainsOK
  <2>4. MainsOK'
    <3>1. at' \in [Programs -> Places] BY <2>1 DEF MainsOK, Places
    <3> QED BY <1>1, <2>1, <2>3, <3>1 DEF MainsOK, Alone
  <2>5. FolderOK' /\ NotesOK' BY <1>1, <2>1 DEF FolderOK, NotesOK
  <2>6. PortsOK' BY <2>1, <2>3, <2>4, PortsLeft
  <2>7. ConfigOK' BY <1>1, <2>1, <2>3, ConfigStays DEF NotesOK
  <2>8. LevelsOK' BY <1>1, <2>1, <2>2 DEF LevelsOK
  <2> QED BY <2>4, <2>5, <2>6, <2>7, <2>8
<1> QED BY <1>2, <1>3

LEMMA StartInvStep ==
    ASSUME StartInv, Next PROVE StartInv'
<1>1. CASE \E p \in Programs : \/ Start(p) \/ Look(p) \/ Create(p) \/ Fill(p) \/ WriteIndex(p) \/ Read(p)
                               \/ EndsOfClash(p) \/ Kill(p)
  BY <1>1, StartKeeps, LookKeeps, CreateKeeps, FillKeeps, WriteIndexKeeps, ReadKeeps, EndsKeeps, KillKeeps
<1>2. CASE \E p \in Programs, f \in Entries : Remove(p, f) BY <1>2, RemoveKeeps
<1>3. CASE \E p \in Programs, k \in DOMAIN ports : Listen(p, k) BY <1>3, ListenKeeps
<1>4. CASE "server" \in Programs /\ \E i \in Items : Save(i) \/ Restock(i)
  BY <1>4, SaveKeeps, RestockKeeps
<1> QED BY <1>1, <1>2, <1>3, <1>4 DEF Next

LEMMA StartInvStutter ==
    ASSUME StartInv, UNCHANGED vars PROVE StartInv'
BY DEF StartInv, vars, files, mains, notes, MainsOK, FolderOK, PortsOK, NotesOK, ConfigOK, LevelsOK,
       Creating, HasStores

(* The programs keep the invariant, for any of them and any items.          *)
THEOREM StartupCorrect == Spec => []StartInv
<1>1. Init => StartInv BY StartInvInit
<1>2. StartInv /\ [Next]_vars => StartInv' BY StartInvStep, StartInvStutter
<1> QED BY <1>1, <1>2, PTL DEF Spec


-----------------------------------------------------------------------------
(* What the invariant says to a reader.                                     *)

LEMMA StartTypes == ASSUME StartInv PROVE TypeOK
<1> USE DEF StartInv
<1>1. \A p \in Programs : cursor[p] \in 1..(IF at[p] = "read" THEN Len(Asks(p)) ELSE Len(Settings))
  <2> SUFFICES ASSUME NEW p \in Programs
               PROVE  cursor[p] \in 1..(IF at[p] = "read" THEN Len(Asks(p)) ELSE Len(Settings))
    OBVIOUS
  <2>1. cursor[p] \in 1..9 /\ (at[p] = "read" => cursor[p] <= Len(Asks(p)))
    BY NineSettings DEF MainsOK
  <2>2. Len(Asks(p)) \in 1..7 BY FewQuestions
  <2> QED BY <2>1, <2>2, NineSettings
<1>2. \A k \in 1..STORE_COUNT :
          ports[k] = Nobody \/ \E p \in Programs : ports[k] = p /\ (HasStores(p) \/ at[p] = "clash")
  BY DEF PortsOK
<1>3. config \in {Absent} \cup 0..Len(Settings) BY DEF ConfigOK, Whole
<1> QED BY <1>1, <1>2, <1>3 DEF TypeOK, MainsOK, FolderOK

(* Every main() is where its counters say, the folder holds what the        *)
(* programs put there, and a port is open only while its store is there.    *)
THEOREM StartupTypeCorrect == Spec => []TypeOK
<1>1. StartInv => TypeOK BY StartTypes
<1> QED BY <1>1, StartupCorrect, PTL

(* A setting is missed only while no start has settled the config, and then *)
(* by the sensors or after a start that was torn.                           *)
LEMMA MissedWhen ==
    ASSUME StartInv, NEW p \in Programs, Read(p), ~Found(Asks(p)[cursor[p]])
    PROVE  ~settled /\ (torn \/ p = "sensors")
<1>1. at[p] = "read" BY DEF Read
<1>2. Len(Asks(p)) \in 1..7 BY FewQuestions
<1>3. cursor[p] \in 1..Len(Asks(p)) BY <1>1, <1>2, NineSettings DEF StartInv, MainsOK
<1>4. config # Whole BY <1>3, WholeAnswers
<1>5. p # "sensors" => Initialises(p) BY DEF Initialises
<1> QED BY <1>1, <1>4, <1>5 DEF StartInv, ConfigOK

LEMMA OnlyReadMisses ==
    ASSUME StartInv, Next, NEW p \in Programs, lacks'[p], ~lacks[p]
    PROVE  Read(p) /\ ~Found(Asks(p)[cursor[p]])
<1> USE DEF StartInv, MainsOK
<1>1. ASSUME NEW q \in Programs, Start(q) \/ Kill(q) PROVE FALSE
  <2>1. lacks' = [lacks EXCEPT ![q] = FALSE] BY <1>1 DEF Start, Kill
  <2> QED BY <2>1
<1>2. ASSUME UNCHANGED lacks PROVE FALSE BY <1>2
<1>3. ASSUME NEW q \in Programs, \/ Look(q) \/ Create(q) \/ Fill(q) \/ WriteIndex(q) \/ EndsOfClash(q)
      PROVE  FALSE
  BY <1>2, <1>3 DEF Look, Create, Fill, WriteIndex, EndsOfClash
<1>4. ASSUME NEW q \in Programs, NEW f \in Entries, Remove(q, f) PROVE FALSE
  BY <1>2, <1>4 DEF Remove
<1>5. ASSUME NEW q \in Programs, NEW k \in DOMAIN ports, Listen(q, k) PROVE FALSE
  BY <1>2, <1>5 DEF Listen
<1>6. ASSUME NEW i \in Items, Save(i) \/ Restock(i) PROVE FALSE
  BY <1>2, <1>6 DEF Save, Restock, mains
<1>7. PICK q \in Programs : Read(q) BY <1>1, <1>3, <1>4, <1>5, <1>6 DEF Next
<1>8. lacks' = [lacks EXCEPT ![q] = lacks[q] \/ ~Found(Asks(q)[cursor[q]])] BY <1>7 DEF Read
<1>9. q = p BY <1>8
<1> QED BY <1>7, <1>8, <1>9

(* With a whole config, or one left by a first start that was alone, every  *)
(* program finds every setting, in whatever order all of them are started.  *)
THEOREM SettingsCorrect == Spec => SettingsAreFound
<1> DEFINE A == \A p \in Programs : lacks'[p] /\ ~lacks[p] => ~settled /\ (torn \/ p = "sensors")
<1>1. StartInv /\ [Next]_vars => [A]_vars
  <2> SUFFICES ASSUME StartInv, Next PROVE A
    OBVIOUS
  <2> QED BY OnlyReadMisses, MissedWhen
<1> HIDE DEF A
<1>2. Spec => [][A]_vars BY <1>1, StartupCorrect, PTL DEF Spec
<1> QED BY <1>2 DEF SettingsAreFound, A

(* A server whose ports are open is reading its settings or runs.           *)
LEMMA OpenMeansRuns ==
    ASSUME StartInv, \A k \in 1..STORE_COUNT : ports[k] = "server"
    PROVE  "server" \in Programs /\ HasStores("server") /\ at["server"] \in {"read", "run"}
<1>1. 1 \in 1..STORE_COUNT BY NineSettings
<1>2. "server" \in Programs BY <1>1 DEF StartInv, PortsOK, Nobody
<1>3. at["server"] # "clash" BY <1>2 DEF StartInv, PortsOK
<1>4. HasStores("server") BY <1>1, <1>2, <1>3, FourPrograms DEF StartInv, PortsOK
<1> QED BY <1>2, <1>4 DEF HasStores

LEMMA ServerLeaves ==
    ASSUME StartInv, Next, \A k \in 1..STORE_COUNT : ports[k] = "server",
           at'["server"] \notin {"read", "run"}
    PROVE  at'["server"] = "off" \/ disturbed \/ (torn /\ lacks'["server"])
<1>1. "server" \in Programs /\ at["server"] \in {"read", "run"} BY OpenMeansRuns
<1> USE DEF StartInv, MainsOK, Goto
<1>2. at' # at BY <1>1
<1>3. ASSUME NEW p \in Programs, at' = [at EXCEPT ![p] = at'[p]] PROVE p = "server"
  BY <1>1, <1>3
<1>4. ASSUME NEW p \in Programs, \/ Start(p) \/ Look(p) \/ Create(p) \/ Fill(p) \/ WriteIndex(p)
                                 \/ EndsOfClash(p)
      PROVE  FALSE
  <2>1. at[p] \notin {"read", "run"} /\ at' = [at EXCEPT ![p] = at'[p]]
    BY <1>2, <1>4 DEF Start, Look, Create, Fill, WriteIndex, EndsOfClash
  <2> QED BY <1>1, <1>3, <2>1
<1>5. ASSUME NEW p \in Programs, NEW f \in Entries, Remove(p, f) PROVE FALSE
  BY <1>2, <1>5 DEF Remove
<1>6. ASSUME NEW p \in Programs, NEW k \in DOMAIN ports, Listen(p, k) PROVE FALSE
  <2>1. at' = [at EXCEPT ![p] = "clash"] /\ ports[k] # p BY <1>2, <1>6 DEF Listen
  <2>2. p = "server" BY <1>3, <2>1
  <2>3. k \in 1..STORE_COUNT BY DEF PortsOK
  <2> QED BY <2>1, <2>2, <2>3
<1>7. ASSUME NEW i \in Items, Save(i) PROVE FALSE BY <1>2, <1>7 DEF Save, mains
<1>8. ASSUME NEW i \in Items, Restock(i) PROVE disturbed
  <2>1. at["server"] = "run" /\ i \in known /\ i \notin folder BY <1>2, <1>8 DEF Restock
  <2> QED BY <1>1, <2>1 DEF LevelsOK, NotesOK
<1>9. ASSUME NEW p \in Programs, Kill(p) PROVE at'["server"] = "off"
  <2>1. at' = [at EXCEPT ![p] = "off"] BY <1>9 DEF Kill
  <2> QED BY <1>1, <1>3, <2>1
<1>10. ASSUME NEW p \in Programs, Read(p) PROVE torn /\ lacks'["server"]
  <2>1. at' = [at EXCEPT ![p] = at'[p]] BY <1>10 DEF Read
  <2>2. p = "server" BY <1>3, <2>1
  <2>3. ~Found(Asks(p)[cursor[p]])
    <3> SUFFICES ASSUME Found(Asks(p)[cursor[p]]) PROVE FALSE
      OBVIOUS
    <3>1. Goto(p, IF cursor[p] = Len(Asks(p)) THEN "run" ELSE "read") BY <1>10 DEF Read
    <3>2. at'[p] \in {"run", "read"} BY <3>1
    <3> QED BY <2>2, <3>2
  <2>4. torn BY <1>10, <2>2, <2>3, MissedWhen
  <2>5. lacks'[p] BY <1>10, <2>3 DEF Read
  <2> QED BY <2>2, <2>4, <2>5
<1> QED BY <1>4, <1>5, <1>6, <1>7, <1>8, <1>9, <1>10 DEF Next

(* The stores of a server that listens stay open until the server is        *)
(* killed, or meets what another program did to its folder or its config.   *)
THEOREM OpenCorrect == Spec => OnceOpenStaysOpen
<1> DEFINE A == (\A k \in 1..STORE_COUNT : ports[k] = "server") /\ at'["server"] \notin {"read", "run"} =>
                    at'["server"] = "off" \/ disturbed \/ (torn /\ lacks'["server"])
<1>1. StartInv /\ [Next]_vars => [A]_vars
  <2> SUFFICES ASSUME StartInv, Next PROVE A
    OBVIOUS
  <2> QED BY ServerLeaves
<1> HIDE DEF A
<1>2. Spec => [][A]_vars BY <1>1, StartupCorrect, PTL DEF Spec
<1> QED BY <1>2 DEF OnceOpenStaysOpen, A

=============================================================================
