---------------------------- MODULE MCEmergencyPath ----------------------------
(* EmergencyPath with one sensor: its receivers are those of the last sensor of *)
(* Scenarios/tempsensor.txt, and a word that names nothing.                    *)
EXTENDS EmergencyPath

Codes == INSTANCE Addresses

Receivers == [s \in Sensors |-> <<Codes!Sensor(5), Codes!Unknown, Codes!FireAlarm>>]
=============================================================================
