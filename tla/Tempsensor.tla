------------------------------- MODULE Tempsensor -------------------------------
(***************************************************************************)
(* The temperature sensors, tempsensor.c: each turns its list of receiver    *)
(* codes into addresses, reads its record, sends one UDP datagram to each    *)
(* receiver and, at the break at the end of its loop, ends.                 *)
(*                                                                         *)
(* The temperature itself is left out.  It is read and goes nowhere: the     *)
(* line that would put it into the datagram is a comment (tempsensor.c:84),  *)
(* and in the first round an update is due whatever was read (line 79).      *)
(*                                                                         *)
(* The thermometer that writes the record is external, modelled from         *)
(* data_structs.h:56-61: it writes under the mutex.  The condition variable  *)
(* is left out, the wait on it being a comment (tempsensor.c:111).           *)
(***************************************************************************)
EXTENDS Addresses

CONSTANTS
  Sensors,
  Given          \* [Sensors -> Seq(codes)]: the receiver list of each

VARIABLES
  sensor,       \* where the process is, see SensorPlaces
  tempMutex,    \* who holds it: "free", "sensor" or "thermometer"
  sent          \* history: the ports a sensor has sent to, in order

vars == <<sensor, tempMutex, sent>>

\* At "read" it holds the mutex; "send": in the loop over receivers.
SensorPlaces == {"start", "lock", "read", "send", "ended"}

Init ==
  /\ sensor = [s \in Sensors |-> "start"]
  /\ tempMutex = [s \in Sensors |-> "free"]
  /\ sent = [s \in Sensors |-> <<>>]

-----------------------------------------------------------------------------
(* The process.                                                             *)

Goto(s, p) == sensor' = [sensor EXCEPT ![s] = p]
Hold(s, who) == tempMutex' = [tempMutex EXCEPT ![s] = who]

\* Wrong arguments end the process, as does memory that cannot be opened: the
\* null pointer that stands for it is used.
Start(s) ==
  /\ sensor[s] = "start"
  /\ Goto(s, "lock") \/ Goto(s, "ended")
  /\ UNCHANGED <<tempMutex, sent>>

Lock(s) ==
  /\ sensor[s] = "lock" /\ tempMutex[s] = "free"
  /\ Hold(s, "sensor")
  /\ Goto(s, "read")
  /\ UNCHANGED sent

\* prev_temperature is -100, as it was set: the condition of the update holds
\* whatever was read.
Unlock(s) ==
  /\ sensor[s] = "read"
  /\ Hold(s, "free")
  /\ Goto(s, "send")
  /\ UNCHANGED sent

\* Where the overseer, the fire alarm unit and the sensors are.
ReceiverPorts == {3000, 3100} \cup (3500..3599)

\* The receivers of s still to be served, beginning with the next.
Remaining(s) ==
  SubSeq(Addresses(Given[s]), Len(sent[s]) + 1, Len(Addresses(Given[s])))

\* What a datagram may be to a receiver that goes by the first four bytes.  It is sent
\* as the stack has it, so it may be any; "TEMP" is one with a hot reading.
Datagrams == {"FIRE", "TEMP", "DOOR", "other"}

\* sendto(); its result is not looked at.
Send(s) ==
  /\ sensor[s] = "send" /\ Remaining(s) # <<>>
  /\ sent' = [sent EXCEPT ![s] = Append(@, Head(Remaining(s)))]
  /\ UNCHANGED <<sensor, tempMutex>>

\* Mutated form: the loop stops at the first receiver, or before it.
Break_Early(s) ==
  /\ sensor[s] = "send" /\ Len(Remaining(s)) <= 1
  /\ Goto(s, "ended")
  /\ UNCHANGED <<tempMutex, sent>>

\* All are served: break, and the end of main().
Break(s) ==
  /\ sensor[s] = "send" /\ Remaining(s) = <<>>
  /\ Goto(s, "ended")
  /\ UNCHANGED <<tempMutex, sent>>

-----------------------------------------------------------------------------
(* The thermometer (external).                                              *)

ThermometerLocks(s) ==
  /\ tempMutex[s] = "free"
  /\ Hold(s, "thermometer")
  /\ UNCHANGED <<sensor, sent>>

ThermometerUnlocks(s) ==
  /\ tempMutex[s] = "thermometer"
  /\ Hold(s, "free")
  /\ UNCHANGED <<sensor, sent>>

-----------------------------------------------------------------------------
(* Properties.                                                              *)

TypeOK ==
  /\ sensor \in [Sensors -> SensorPlaces]
  /\ tempMutex \in [Sensors -> {"free", "sensor", "thermometer"}]
  /\ sent \in [Sensors -> Seq(ReceiverPorts)]
=============================================================================
