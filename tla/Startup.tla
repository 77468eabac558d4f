------------------------------ MODULE Startup -------------------------------
(***************************************************************************)
(* The programs built in custom/ and the folder res/ they share.  Each of  *)
(* them starts on its own, reads its settings from res/config, and all but *)
(* the sensors first call RESTManager::initStructure, which empties the    *)
(* folder, writes the settings if there are none, and writes an index of   *)
(* the items; only the server has items to put there.                      *)
(*                                                                         *)
(* A program can be killed and started again at any time.  What the server *)
(* does with its levels while it runs is module Household; here it saves a *)
(* level and restocks in one step each.                                    *)
(***************************************************************************)
EXTENDS Naturals, Sequences

CONSTANTS
    Programs,        \* the programs that are started, named by what they are
    Items

ASSUME StartupAssumption ==
    /\ Programs \subseteq {"server", "store", "producers", "sensors"}
    /\ Items \cap {"index", "history", "config"} = {}

VARIABLES
    config,          \* lines of res/config, or Absent
    folder,          \* the other files that exist
    index,           \* the items in res/index
    at, todo,        \* at[p]: where main() of p is; todo[p]: what it has still to do
    cursor,          \* cursor[p]: lines of config written, or settings read
    lacks,           \* lacks[p]: a setting that is no number was not found
    ports,           \* ports[k]: the program whose k-th store listens
    known,           \* Server::offsets: the items the server has heard of
    settled,         \* history: a whole config is there, the first start being over
    torn,            \* history: a first start was killed, or not alone
    disturbed        \* history: another program has emptied the server's folder

files == <<config, folder, index>>
mains == <<at, todo, cursor, lacks>>
notes == <<settled, torn, disturbed>>
vars == <<files, mains, ports, known, notes>>

Absent == 100
Nobody == "nobody"
STORE_COUNT == 2

(* The settings, in the order initStructure writes them.                    *)
Settings == <<"ServerIp", "ServerPort", "HttpServerIp", "HttpServerPort", "Store1Ip",
              "Store1Port", "ExternalStoreN", "ExternalStores", "BrokerIp">>

(* stoi does not survive an empty string.                                   *)
Numbers == {"ServerPort", "HttpServerPort", "Store1Port", "ExternalStoreN"}

(* What each main() asks for, in its order.                                 *)
Asks(p) ==
    CASE p = "server" -> <<"ExternalStoreN", "Store1Port", "BrokerIp", "Store1Ip",
                           "ExternalStores", "ServerPort", "HttpServerPort">>
      [] p = "store" -> <<"Store1Ip", "BrokerIp", "Store1Port">>
      [] p = "producers" -> <<"BrokerIp">>
      [] p = "sensors" -> <<"ServerIp", "ServerPort">>

(* The files: a level file has the name of its item.                        *)
Entries == {"index", "history"} \cup Items

Init ==
    /\ config \in {Absent, Len(Settings)} /\ settled = (config # Absent)
    /\ folder = {} /\ index = {}
    /\ at = [p \in Programs |-> "off"]
    /\ todo = [p \in Programs |-> {}]
    /\ cursor = [p \in Programs |-> 1]
    /\ lacks = [p \in Programs |-> FALSE]
    /\ ports = [k \in 1..STORE_COUNT |-> Nobody] /\ known = {}
    /\ torn = FALSE /\ disturbed = FALSE

-----------------------------------------------------------------------------
Goto(p, place) == at' = [at EXCEPT ![p] = place]
Without(p) == [k \in DOMAIN ports |-> IF ports[k] = p THEN Nobody ELSE ports[k]]

Initialises(p) == p # "sensors"

(* main(), up to the listing of the folder.                                 *)
Start(p) ==
    /\ at[p] = "off"
    /\ Goto(p, IF Initialises(p) THEN "wipe" ELSE "read")
    /\ todo' = [todo EXCEPT ![p] = folder]
    /\ cursor' = [cursor EXCEPT ![p] = 1]
    /\ lacks' = [lacks EXCEPT ![p] = FALSE]
    /\ disturbed' = (p # "server" /\ disturbed)
    /\ UNCHANGED <<files, ports, known, settled, torn>>

(* readdir may or may not show what was created after opendir.              *)
Remove(p, f) ==
    /\ at[p] = "wipe" /\ f \in todo[p] \cup folder
    /\ folder' = folder \ {f}
    /\ index' = IF f = "index" THEN {} ELSE index
    /\ todo' = [todo EXCEPT ![p] = @ \ {f}]
    /\ disturbed' = (disturbed \/ p \in {"store", "producers"})
    /\ UNCHANGED <<config, at, cursor, lacks, ports, known, settled, torn>>

Creating == {p \in Programs : at[p] \in {"create", "fill"}}

(* access(): a config that is there is never written again.                 *)
Look(p) ==
    /\ at[p] = "wipe" /\ todo[p] = {}
    /\ Goto(p, IF config = Absent THEN "create" ELSE "index")
    /\ torn' = (torn \/ Creating # {})
    /\ UNCHANGED <<files, todo, cursor, lacks, ports, known, settled, disturbed>>

Create(p) ==
    /\ at[p] = "create"
    /\ config' = 0
    /\ Goto(p, "fill")
    /\ UNCHANGED <<folder, index, todo, cursor, lacks, ports, known, notes>>

(* Faulty: a line too few; a line too many.                                 *)
OneBeforeLast(p) == cursor[p] = Len(Settings) - 1
PastLastSetting(p) == cursor[p] > Len(Settings)

LastSetting(p) == cursor[p] = Len(Settings)

(* Each line is flushed.  Two programs that write at once write the same    *)
(* lines over each other.                                                   *)
Fill(p) ==
    /\ at[p] = "fill"
    /\ config' = IF config < cursor[p] THEN cursor[p] ELSE config
    /\ cursor' = [cursor EXCEPT ![p] = IF LastSetting(p) THEN 1 ELSE @ + 1]
    /\ IF LastSetting(p) THEN Goto(p, "index") ELSE UNCHANGED at
    /\ settled' = (settled \/ (LastSetting(p) /\ ~torn))
    /\ UNCHANGED <<folder, index, todo, lacks, ports, known, torn, disturbed>>

WriteIndex(p) ==
    /\ at[p] = "index"
    /\ folder' = folder \cup {"index"}
    /\ index' = IF p = "server" THEN Items ELSE {}
    /\ disturbed' = (disturbed \/ p \in {"store", "producers"})
    /\ Goto(p, "read")
    /\ UNCHANGED <<config, todo, cursor, lacks, ports, known, settled, torn>>

(* getConfig: the first line that has the name in it; every other such line *)
(* comes later in the file.                                                 *)
Found(name) == config # Absent /\ \E k \in 1..config : Settings[k] = name

Read(p) ==
    LET name == Asks(p)[cursor[p]]
    IN  /\ at[p] = "read"
        /\ lacks' = [lacks EXCEPT ![p] = @ \/ ~Found(name)]
        /\ cursor' = [cursor EXCEPT ![p] = IF @ = Len(Asks(p)) THEN 1 ELSE @ + 1]
        /\ Goto(p, IF ~Found(name) /\ name \in Numbers THEN "dead"
                   ELSE IF cursor[p] = Len(Asks(p)) THEN "run" ELSE "read")
        /\ ports' = IF ~Found(name) /\ name \in Numbers THEN Without(p) ELSE ports
        /\ UNCHANGED <<files, todo, known, notes>>

-----------------------------------------------------------------------------
(* The stores of a program: each constructor starts a thread that listens,  *)
(* while main() goes on.  The exception of one that finds its port taken    *)
(* ends the whole program.                                                  *)

HasStores(p) ==
    \/ p \in {"server", "store"} /\ at[p] = "run"
    \/ p = "server" /\ at[p] = "read" /\ \A k \in cursor[p]..Len(Asks(p)) : Asks(p)[k] # "Store1Ip"

(* Faulty: a port is taken over from who has it.                            *)
ListenAnyway(p, k) ==
    /\ HasStores(p) /\ ports[k] # p
    /\ ports' = [ports EXCEPT ![k] = p]
    /\ at' = IF ports[k] = Nobody THEN at ELSE [at EXCEPT ![ports[k]] = "clash"]
    /\ UNCHANGED <<files, todo, cursor, lacks, known, notes>>

Listen(p, k) ==
    /\ HasStores(p) /\ ports[k] # p
    /\ IF ports[k] = Nobody
       THEN ports' = [ports EXCEPT ![k] = p] /\ UNCHANGED at
       ELSE Goto(p, "clash") /\ UNCHANGED ports
    /\ UNCHANGED <<files, todo, cursor, lacks, known, notes>>

(* terminate(): until then its other stores have their ports.               *)
EndsOfClash(p) ==
    /\ at[p] = "clash"
    /\ Goto(p, "gone") /\ ports' = Without(p)
    /\ UNCHANGED <<files, todo, cursor, lacks, known, notes>>

-----------------------------------------------------------------------------
(* The server, running.                                                     *)

Save(i) ==
    /\ at["server"] = "run"
    /\ known' = known \cup {i}
    /\ folder' = folder \cup {i, "history"}
    /\ UNCHANGED <<config, index, mains, ports, notes>>

(* front() of a level that is not there is undefined.                       *)
Restock(i) ==
    /\ at["server"] = "run" /\ i \in known
    /\ IF i \in folder
       THEN folder' = folder \cup {"history"} /\ UNCHANGED <<at, ports>>
       ELSE Goto("server", "dead") /\ ports' = Without("server") /\ UNCHANGED folder
    /\ UNCHANGED <<config, index, todo, cursor, lacks, known, notes>>

(* Killed, or started anew after it died: what was in memory is lost.       *)
Kill(p) ==
    /\ at[p] # "off"
    /\ Goto(p, "off")
    /\ todo' = [todo EXCEPT ![p] = {}]
    /\ cursor' = [cursor EXCEPT ![p] = 1]
    /\ lacks' = [lacks EXCEPT ![p] = FALSE]
    /\ ports' = Without(p) /\ known' = IF p = "server" THEN {} ELSE known
    /\ torn' = (torn \/ at[p] = "fill")
    /\ UNCHANGED <<files, settled, disturbed>>

Next ==
    \/ \E p \in Programs :
          \/ Start(p) \/ Look(p) \/ Create(p) \/ Fill(p) \/ WriteIndex(p) \/ Read(p)
          \/ EndsOfClash(p) \/ Kill(p)
          \/ \E f \in Entries : Remove(p, f)
          \/ \E k \in DOMAIN ports : Listen(p, k)
    \/ "server" \in Programs /\ \E i \in Items : Save(i) \/ Restock(i)

Spec == Init /\ [][Next]_vars

-----------------------------------------------------------------------------
(* Properties.                                                              *)

Places == {"off", "wipe", "create", "fill", "index", "read", "run", "clash", "gone", "dead"}

(* The folder holds what the programs put there, and a port only a program  *)
(* that has stores or has just failed to get another.                       *)
TypeOK ==
    /\ config \in {Absent} \cup 0..Len(Settings)
    /\ folder \subseteq Entries /\ index \subseteq Items
    /\ index # {} => "index" \in folder
    /\ at \in [Programs -> Places]
    /\ todo \in [Programs -> SUBSET Entries]
    /\ \A p \in Programs : cursor[p] \in 1..(IF at[p] = "read" THEN Len(Asks(p)) ELSE Len(Settings))
    /\ lacks \in [Programs -> BOOLEAN]
    /\ \A k \in 1..STORE_COUNT :
          ports[k] = Nobody \/ \E p \in Programs : ports[k] = p /\ (HasStores(p) \/ at[p] = "clash")
    /\ known \subseteq Items

(* With res/config in place the programs start in any order and at the same *)
(* time, are killed and started again, and each finds every setting; also   *)
(* when the config comes from a first start that was alone and not killed.  *)
(* Before that only the sensors, which write no config, may look in vain.   *)
SettingsAreFound ==
    [][\A p \in Programs :
          lacks'[p] /\ ~lacks[p] => ~settled /\ (torn \/ p = "sensors")]_vars

(* Once the stores of the server listen, the server goes down only when it  *)
(* is killed, for a level that a program started later has removed, or for  *)
(* a setting that two first starts at a time have lost: the newcomer that   *)
(* finds the ports taken goes down itself, and the sensors do no harm.      *)
OnceOpenStaysOpen ==
    [][(\A k \in 1..STORE_COUNT : ports[k] = "server") /\ at'["server"] \notin {"read", "run"} =>
          at'["server"] = "off" \/ disturbed \/ (torn /\ lacks'["server"])]_vars

=============================================================================
