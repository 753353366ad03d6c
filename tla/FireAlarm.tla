------------------------------- MODULE FireAlarm -------------------------------
(***************************************************************************)
(* The fire alarm unit, firealarm.c: one sequential loop that takes UDP    *)
(* datagrams and, on a FIRE datagram or on enough hot TEMP readings, sets   *)
(* the alarm flag in shared memory and then tells every registered door,    *)
(* one TCP connection after the other, to open.  DOOR datagrams add to the  *)
(* registry and are confirmed over the TCP link to the overseer.            *)
(*                                                                         *)
(* The module is open: any datagram may arrive at any time.  FireSystem     *)
(* closes it with the network and the call points.                          *)
(***************************************************************************)
EXTENDS Integers, Sequences, FiniteSets

CONSTANTS
  Doors,            \* the (address, port) pairs the overseer may register
  DoorCapacity,     \* length of the arrays door_addrs and door_ports
  MinDetections,    \* argument {min detections}
  DetectionPeriod,  \* argument {detection period}, in ticks of the clock
  Faults,           \* which external calls may fail, see FaultKinds
  MaxTime,          \* bound: last value of the clock
  MaxReadings       \* bound: number of hot readings

\* "connect":  connect() or send() to a door fails;
\* "socket":   socket() fails while a door is being opened;
\* "overseer": the overseer process ends and its end of the link closes.
FaultKinds == {"connect", "socket", "overseer"}

ASSUME DoorsAssumption ==
  /\ IsFiniteSet(Doors)
  /\ DoorCapacity \in Nat
  /\ Cardinality(Doors) <= DoorCapacity

ASSUME DetectionAssumption ==
  /\ MinDetections \in Nat
  /\ DetectionPeriod \in Nat

ASSUME BoundsAssumption ==
  /\ MaxTime \in Nat
  /\ MaxReadings \in Nat
  /\ Faults \subseteq FaultKinds

VARIABLES
  unit,        \* "recv": in recvfrom(); "raise": about to set the alarm;
               \* "sweep": in the loop over the doors; "dead": exited
  alarm,       \* shm_ptr->alarm, '-' or 'A'
  doors,       \* door_addrs, door_ports and door_count, as a sequence
  next,        \* index of the door the sweep turns to next
  detections,  \* detection_count
  lastHot,     \* last_detection_time
  now,         \* CLOCK_MONOTONIC, from the start of the process
  link,        \* TCP link to the overseer: "up", "closed" by the peer, or
               \* "reset", when one more send raises SIGPIPE
  confirmed,   \* DREG messages the overseer's end of the link received
  opened,      \* doors that OPEN_EMERG# was sent to
  attempted,   \* history: doors tried since the alarm was last raised
  readings,    \* history: times of the hot readings
  cause        \* history: what made the unit raise the alarm, ever

sweepVars     == <<next, opened, attempted>>
detectionVars == <<detections, lastHot, readings>>
registryVars  == <<doors, link, confirmed>>
vars == <<unit, alarm, cause, now, sweepVars, detectionVars, registryVars>>

Registered == {doors[i] : i \in 1..Len(doors)}

\* The main loop begins: memory mapped, port bound, HELLO sent.  A start-up that
\* fails ends the process before it has any of this state.
Init ==
  /\ unit = "recv"
  /\ alarm = "-"
  /\ doors = <<>>
  /\ next = 1
  /\ detections = 0
  /\ lastHot = 0
  /\ now = 0
  /\ link = "up"
  /\ confirmed = <<>>
  /\ opened = {}
  /\ attempted = {}
  /\ readings = <<>>
  /\ cause = {}

-----------------------------------------------------------------------------
(* Datagrams.  One with none of the three headers, a cold TEMP reading and  *)
(* an error of recvfrom() leave the unit as it is.                          *)

\* Mutated form: the doors before the flag.
ReceiveFire_DoorsFirst ==
  /\ unit = "recv"
  /\ unit' = "sweep"
  /\ cause' = cause \cup {"FIRE"}
  /\ UNCHANGED <<alarm, now, sweepVars, detectionVars, registryVars>>

ReceiveFire ==
  /\ unit = "recv"
  /\ unit' = "raise"
  /\ cause' = cause \cup {"FIRE"}
  /\ UNCHANGED <<alarm, now, sweepVars, detectionVars, registryVars>>

\* Mutated form: the reset is forgotten.
CurrentCount_NoReset == detections

\* detection_count after the reset that a long silence causes.
CurrentCount ==
  IF now - lastHot > DetectionPeriod THEN 0 ELSE detections

\* The reading itself is abstracted to: temperature >= temp_threshold.
ReceiveHot ==
  /\ unit = "recv"
  /\ Len(readings) < MaxReadings
  /\ readings' = Append(readings, now)
  /\ lastHot' = now
  /\ \/ /\ CurrentCount < MinDetections
        /\ detections' = CurrentCount + 1
        /\ UNCHANGED <<unit, cause>>
     \/ /\ CurrentCount >= MinDetections
        /\ detections' = CurrentCount
        /\ unit' = "raise"
        /\ cause' = cause \cup {"TEMP"}
  /\ UNCHANGED <<alarm, now, sweepVars, registryVars>>

\* send_door_confirmation.  After the peer has closed, a send is lost and
\* answered by a reset; a send on a link already reset ends the process.
SendConfirmation(d) ==
  \/ /\ link = "up"
     /\ confirmed' = Append(confirmed, d)
     /\ UNCHANGED <<unit, link>>
  \/ /\ link = "closed"
     /\ link' \in {"closed", "reset"}
     /\ UNCHANGED <<unit, confirmed>>
  \/ /\ link = "reset"
     /\ unit' = "dead"
     /\ UNCHANGED <<link, confirmed>>

\* Mutated form: the door is stored without looking it up.
ReceiveDoor_NoLookup(d) ==
  /\ unit = "recv"
  /\ Len(doors) <= DoorCapacity
  /\ doors' = Append(doors, d)
  /\ SendConfirmation(d)
  /\ UNCHANGED <<alarm, cause, now, sweepVars, detectionVars>>

\* Mutated form: a door already registered is confirmed once more.
ReceiveDoor_ConfirmAgain(d) ==
  /\ unit = "recv"
  /\ Len(confirmed) <= DoorCapacity
  /\ doors' = IF d \in Registered THEN doors ELSE Append(doors, d)
  /\ SendConfirmation(d)
  /\ UNCHANGED <<alarm, cause, now, sweepVars, detectionVars>>

\* A door already registered is neither stored nor confirmed again.
ReceiveDoor(d) ==
  /\ unit = "recv"
  /\ \/ /\ d \notin Registered
        /\ doors' = Append(doors, d)
        /\ SendConfirmation(d)
     \/ /\ d \in Registered
        /\ UNCHANGED <<unit, registryVars>>
  /\ UNCHANGED <<alarm, cause, now, sweepVars, detectionVars>>

-----------------------------------------------------------------------------
(* The reaction: the flag first, then the doors in registration order.      *)

\* Mutated form: the call point's code for "active" in the alarm flag.
RaiseAlarm_WrongCode ==
  /\ unit = "raise"
  /\ alarm' = "*"
  /\ unit' = "sweep"
  /\ next' = 1
  /\ attempted' = {}
  /\ UNCHANGED <<opened, cause, now, detectionVars, registryVars>>

RaiseAlarm ==
  /\ unit = "raise"
  /\ alarm' = "A"
  /\ unit' = "sweep"
  /\ next' = 1
  /\ attempted' = {}
  /\ UNCHANGED <<opened, cause, now, detectionVars, registryVars>>

\* The sweep is at door d.
AtDoor(d) ==
  /\ unit = "sweep"
  /\ next <= Len(doors)
  /\ d = doors[next]

\* open_emergency_door: connected and sent ...
OpenDoor(d) ==
  /\ AtDoor(d)
  /\ opened' = opened \cup {d}
  /\ attempted' = attempted \cup {d}
  /\ next' = next + 1
  /\ UNCHANGED <<unit, alarm, cause, now, detectionVars, registryVars>>

\* ... or gave the door up, which does not stop the loop ...
SkipDoor(d) ==
  /\ "connect" \in Faults
  /\ AtDoor(d)
  /\ attempted' = attempted \cup {d}
  /\ next' = next + 1
  /\ UNCHANGED <<unit, opened, alarm, cause, now, detectionVars, registryVars>>

\* ... or could not create a socket, which ends the process.
SocketFails(d) ==
  /\ "socket" \in Faults
  /\ AtDoor(d)
  /\ unit' = "dead"
  /\ UNCHANGED <<alarm, cause, now, sweepVars, detectionVars, registryVars>>

\* Mutated form: the loop stops one door early.
EndSweep_OffByOne ==
  /\ unit = "sweep"
  /\ next >= Len(doors)
  /\ unit' = "recv"
  /\ UNCHANGED <<alarm, cause, now, sweepVars, detectionVars, registryVars>>

EndSweep ==
  /\ unit = "sweep"
  /\ next > Len(doors)
  /\ unit' = "recv"
  /\ UNCHANGED <<alarm, cause, now, sweepVars, detectionVars, registryVars>>

-----------------------------------------------------------------------------
(* The environment.                                                         *)

Tick ==
  /\ now < MaxTime
  /\ now' = now + 1
  /\ UNCHANGED <<unit, alarm, cause, sweepVars, detectionVars, registryVars>>

OverseerEnds ==
  /\ "overseer" \in Faults
  /\ link = "up"
  /\ link' = "closed"
  /\ UNCHANGED <<unit, alarm, cause, now, doors, confirmed, sweepVars,
                 detectionVars>>

React ==
  \/ RaiseAlarm
  \/ EndSweep
  \/ \E d \in Doors : OpenDoor(d) \/ SkipDoor(d) \/ SocketFails(d)

Next ==
  \/ ReceiveFire
  \/ ReceiveHot
  \/ \E d \in Doors : ReceiveDoor(d)
  \/ React
  \/ Tick
  \/ OverseerEnds

Spec == Init /\ [][Next]_vars

-----------------------------------------------------------------------------
(* Properties.                                                              *)

\* Every variable has its type (one type invariant for the module).
TypeOK ==
  /\ unit \in {"recv", "raise", "sweep", "dead"}
  /\ alarm \in {"-", "A"}
  /\ doors \in Seq(Doors)
  /\ next \in Nat \ {0}
  /\ detections \in Nat
  /\ lastHot \in Nat
  /\ now \in Nat
  /\ link \in {"up", "closed", "reset"}
  /\ confirmed \in Seq(Doors)
  /\ opened \subseteq Doors
  /\ attempted \subseteq Doors
  /\ readings \in Seq(Nat)
  /\ cause \subseteq {"FIRE", "TEMP"}

\* The overseer repeats its DOOR datagrams, so the same door arrives many
\* times.  The duplicate test keeps the registry inside its arrays, which the
\* code never checks before it stores (firealarm.c:235-238).
RegistryInBounds == Len(doors) <= DoorCapacity

\* No door is told to open unless it is registered, the alarm flag is already
\* set and something reported a fire: the flag precedes the loop over the
\* doors on both paths (firealarm.c:181-188 and 212-219).
OpenedUnderAlarm ==
  opened # {} => /\ alarm = "A"
                 /\ cause # {}
                 /\ opened \subseteq Registered

\* As long as the overseer is there, it has received one confirmation for
\* every registered door, in order, however often the door was announced; and
\* a lost link never makes up or repeats one (firealarm.c:235-241).
ConfirmedOnce ==
  /\ link = "up" => confirmed = doors
  /\ Len(confirmed) <= Len(doors)
  /\ \A i \in 1..Len(confirmed) : confirmed[i] = doors[i]

\* There are k successive hot readings, none later than DetectionPeriod after
\* the one before it.
HasBurst(k) ==
  \E i \in 1..(Len(readings) - k + 1) :
    \A j \in i..(i + k - 2) : readings[j + 1] - readings[j] <= DetectionPeriod

\* Temperature raises the alarm exactly when MinDetections + 1 hot readings
\* came closely enough together: the counter, its reset and its threshold
\* (firealarm.c:199-213) neither miss such a burst nor count readings across
\* a silence longer than the period.  The usage line (firealarm.c:86) calls the
\* threshold {min detections}; it takes one more than that.
TempAlarmIffBurst == "TEMP" \in cause <=> HasBurst(MinDetections + 1)

\* A sweep that ends has tried every door registered at that moment, whatever
\* failed on the way: a door that cannot be reached does not keep the ones
\* after it closed (firealarm.c:69-79 returns, 186-188 goes on).
SweepTriesAll ==
  [][unit = "sweep" /\ unit' = "recv" => Registered \subseteq attempted']_vars

\* A unit that ends in the middle of a sweep, for want of a socket, leaves the alarm
\* flag set for those who read the shared memory, and has tried every door before
\* the one it failed at (firealarm.c:58-62, 181-188).
FailedSweepLeavesAlarm ==
  [][unit = "sweep" /\ unit' = "dead" =>
       /\ alarm' = "A"
       /\ \A i \in 1..(next - 1) : doors[i] \in attempted]_vars
=============================================================================
