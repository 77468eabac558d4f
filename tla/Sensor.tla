------------------------------- MODULE Sensor -------------------------------
(***************************************************************************)
(* The sensors of the fridge.  Each is a thread that sends its reading to  *)
(* the household server in a datagram of its own, and the network loses    *)
(* and reorders datagrams.                                                 *)
(***************************************************************************)
EXTENDS Integers, FiniteSets

CONSTANTS
    Sensors,         \* a sensor is named by the item it watches
    manual,          \* sensors of the four-argument constructor
    steps,           \* steps[i]: what sensor i adds to its reading
    StartingValues,  \* StartingValues[i]: the readings sensor i may start from
    Word,            \* unsigned numbers run from 0 to Word - 1
    AirLimit         \* bound: datagrams under way at a time

ASSUME SensorAssumption ==
    /\ manual \subseteq Sensors
    /\ steps \in [Sensors -> Int]
    /\ Word \in Nat /\ Word > 100
    /\ StartingValues \in [Sensors -> SUBSET (0..(Word - 1))]
    /\ \A i \in Sensors \ manual : steps[i] = -3 /\ StartingValues[i] \subseteq 0..99
    /\ AirLimit \in Nat

VARIABLES
    reading,         \* reading[i]
    air              \* the datagrams under way

sensorVars == <<reading, air>>

SensorInit ==
    /\ reading \in [Sensors -> UNION {StartingValues[i] : i \in Sensors}]
    /\ \A i \in Sensors : reading[i] \in StartingValues[i]
    /\ air = {}

(* Faulty: a reading that cannot go down stays.                             *)
NextReadingStays(i, r) ==
    IF r < 20 THEN 100
    ELSE IF r >= (-steps[i]) % Word THEN (r + steps[i]) % Word
    ELSE r

(* `reading >= -steps' compares unsigned numbers, so a sensor that counts   *)
(* up finds every reading too small.                                        *)
NextReading(i, r) ==
    IF r < 20 THEN 100
    ELSE IF r >= (-steps[i]) % Word THEN (r + steps[i]) % Word
    ELSE 0

Send(i) ==
    LET r == NextReading(i, reading[i])
    IN  /\ i \in manual => reading[i] > 0
        /\ reading' = [reading EXCEPT ![i] = r]
        /\ air' = IF Cardinality(air) < AirLimit
                  THEN air \cup {[item |-> i, reading |-> r]} ELSE air

Lose(m) ==
    /\ m \in air
    /\ air' = air \ {m}
    /\ UNCHANGED reading

SensorNext ==
    \/ \E i \in Sensors : Send(i)
    \/ \E m \in air : Lose(m)

SensorSpec ==
    /\ SensorInit /\ [][SensorNext]_sensorVars
    /\ \A i \in Sensors : WF_sensorVars(Send(i))

-----------------------------------------------------------------------------
(* A sensor with a step of its own comes to an end, and its last reading is *)
(* zero: Test.cpp and StressTest.cpp join its thread and look for "=0".     *)
ManualSensorsEnd == \A i \in manual : <>[](reading[i] = 0)

=============================================================================
