------------------------------ MODULE MCSensor ------------------------------
(* The sensors of loadTest and lengthTest in StressTest.cpp: they count     *)
(* down by one.                                                             *)
EXTENDS Sensor

CONSTANT cheese

StressSteps == [i \in Sensors |-> -1]
StressStarts == [i \in Sensors |-> {1, 10}]

(* An unsigned number that is wide enough for every reading, and that TLC   *)
(* can hold.                                                                *)
SmallWord == 2^16
=============================================================================
