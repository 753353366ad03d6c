----------------------------- MODULE EmergencyPath -----------------------------
(***************************************************************************)
(* From the sensors over the fire alarm unit to the doors, as the sources    *)
(* have them: the sensors (Tempsensor) send what the unit (FireAlarm) hears  *)
(* of temperatures, and its connections are taken by the doors (Door).      *)
(*                                                                         *)
(* FIRE datagrams come from call points, DOOR datagrams from an overseer;   *)
(* both are external here and may come at any time (FireSystem has them     *)
(* travel).  What the sensors send is any datagram, as its bytes are        *)
(* indeterminate (tempsensor.c:83).  On the way to a door connecting         *)
(* succeeds when the door listens, waits while its queue is full, and fails  *)
(* when it does not listen; or the unit has no socket to try it with.        *)
(***************************************************************************)
EXTENDS Integers, Sequences, FiniteSets

CONSTANTS
  Doors, DoorCapacity, MinDetections, DetectionPeriod, Faults, MaxTime, MaxReadings,
  DoorFds, DoorBacklog, DoorFaults,
  Sensors, Given,
  MaxAddresses   \* length of a sensor's array addresses

VARIABLES
  unit, alarm, doors, next, detections, lastHot, now, link, confirmed, opened,
  attempted, readings, cause,                                    \* fire alarm unit
  form, door, doorPort, pending, newSocket, open, threads, leaked,  \* doors
  sensor, tempMutex, sent,                                       \* sensors
  net                                    \* datagrams from sensors to the unit

FA == INSTANCE FireAlarm
D  == INSTANCE Door
S  == INSTANCE Tempsensor

\* What the fire alarm unit assumes of its constants.
ASSUME UnitAssumption ==
  /\ IsFiniteSet(Doors) /\ DoorCapacity \in Nat /\ Cardinality(Doors) <= DoorCapacity
  /\ MinDetections \in Nat /\ DetectionPeriod \in Nat
  /\ MaxTime \in Nat /\ MaxReadings \in Nat
  /\ Faults \subseteq FA!FaultKinds

ASSUME DoorAssumption ==
  /\ DoorFds \in Nat /\ DoorBacklog \in Nat
  /\ DoorFaults \subseteq {"thread", "accept"}

\* The sensors named are numbered up to 99.  The array is not bounded by the code
\* (tempsensor.c:44); longer lists are not modelled.
ASSUME GivenAssumption ==
  \A s \in Sensors :
    /\ S!Addresses(Given[s]) \in Seq(S!ReceiverPorts)
    /\ Len(S!Addresses(Given[s])) <= MaxAddresses

unitVars ==
  <<unit, alarm, doors, next, detections, lastHot, now, link, confirmed, opened,
    attempted, readings, cause>>
doorVars == <<form, door, doorPort, pending, newSocket, open, threads, leaked>>
sensorVars == <<sensor, tempMutex, sent>>
vars == <<unitVars, doorVars, sensorVars, net>>

Init == FA!Init /\ D!Init /\ S!Init /\ net = {}

-----------------------------------------------------------------------------
(* Sensors and unit.  Only the unit's port is bound by a program that reads  *)
(* datagrams: what goes to the overseer's or a sensor's port is lost.        *)

UnitPort == 3100

Send(s) ==
  /\ S!Send(s)
  /\ IF Head(S!Remaining(s)) = UnitPort
     THEN \E dg \in S!Datagrams : net' = net \cup {dg}
     ELSE UNCHANGED net
  /\ UNCHANGED <<unitVars, doorVars>>

SensorStep(s) ==
  \/ Send(s)
  \/ /\ \/ S!Start(s) \/ S!Lock(s) \/ S!Unlock(s) \/ S!Break(s)
     /\ UNCHANGED <<unitVars, doorVars, net>>

ThermometerEnds(s) ==
  /\ S!ThermometerUnlocks(s)
  /\ UNCHANGED <<unitVars, doorVars, net>>

ThermometerStep(s) ==
  \/ S!ThermometerLocks(s) /\ UNCHANGED <<unitVars, doorVars, net>>
  \/ ThermometerEnds(s)

\* The unit takes a sensor's datagram and goes by its header.  An address in it at
\* which there is no door is as good as that of a door that never listens.
Hear(dg) ==
  /\ dg \in net
  /\ net' = net \ {dg}
  /\ \/ dg = "FIRE" /\ FA!ReceiveFire
     \/ dg = "TEMP" /\ FA!ReceiveHot
     \/ dg = "DOOR" /\ \E d \in Doors : FA!ReceiveDoor(d)
     \/ dg = "other" /\ unit = "recv" /\ UNCHANGED unitVars
  /\ UNCHANGED <<doorVars, sensorVars>>

Lose(dg) ==
  /\ dg \in net
  /\ net' = net \ {dg}
  /\ UNCHANGED <<unitVars, doorVars, sensorVars>>

-----------------------------------------------------------------------------
(* Unit and doors.                                                          *)

Fire     == FA!ReceiveFire    /\ UNCHANGED <<doorVars, sensorVars, net>>
Enrol(d) == FA!ReceiveDoor(d) /\ UNCHANGED <<doorVars, sensorVars, net>>

\* open_emergency_door() and the door's kernel.
Dial(d) ==
  /\ \/ FA!OpenDoor(d) /\ D!Connected(d)
     \/ FA!SkipDoor(d) /\ ~D!Listening(d) /\ UNCHANGED doorVars
  /\ UNCHANGED <<sensorVars, net>>

\* The same without a socket: the unit ends.
NoSocket(d) == FA!SocketFails(d) /\ UNCHANGED <<doorVars, sensorVars, net>>

UnitStep ==
  \/ (FA!RaiseAlarm \/ FA!EndSweep) /\ UNCHANGED <<doorVars, sensorVars, net>>
  \/ \E d \in Doors : Dial(d)

\* The unit's clock goes on, and the overseer may end.
Around == (FA!Tick \/ FA!OverseerEnds) /\ UNCHANGED <<doorVars, sensorVars, net>>

MainStep(d) == D!Main(d) /\ UNCHANGED <<unitVars, sensorVars, net>>

AcceptAborts(d) == D!AcceptAborts(d) /\ UNCHANGED <<unitVars, sensorVars, net>>

\* The thread that was given descriptor fd.
ThreadStep(d, fd) ==
  /\ \E i \in DOMAIN threads[d] : threads[d][i] = fd /\ D!HandleConnection(d, i)
  /\ UNCHANGED <<unitVars, sensorVars, net>>

Next ==
  \/ \E s \in Sensors : SensorStep(s) \/ ThermometerStep(s)
  \/ \E dg \in net : Hear(dg) \/ Lose(dg)
  \/ Fire \/ UnitStep \/ Around
  \/ \E d \in Doors :
       \/ Enrol(d) \/ NoSocket(d) \/ MainStep(d) \/ AcceptAborts(d)
       \/ \E fd \in 1..DoorFds : ThreadStep(d, fd)

\* Every process and every thread runs, no fault has to come; a thermometer that has
\* begun ends, and does not keep the mutex from its sensor for ever.
Fairness ==
  /\ WF_vars(UnitStep)
  /\ \A d \in Doors :
       WF_vars(MainStep(d)) /\ \A fd \in 1..DoorFds : WF_vars(ThreadStep(d, fd))
  /\ \A s \in Sensors :
       /\ WF_vars(SensorStep(s))
       /\ SF_vars(S!Lock(s) /\ UNCHANGED <<unitVars, doorVars, net>>)
       /\ WF_vars(ThermometerEnds(s))

SafeSpec == Init /\ [][Next]_vars
Spec == SafeSpec /\ Fairness

-----------------------------------------------------------------------------
(* Properties.                                                              *)

TypeOK ==
  /\ FA!TypeOK /\ D!TypeOK /\ S!TypeOK
  /\ net \subseteq S!Datagrams

\* Stated in Door: every open connection of a door has exactly one to close it.
OneOwner == D!OneOwner

\* No door can hold the unit up: the sweep that dials it comes to its end, also
\* when the door's queue is full, because the door keeps accepting, or is dead; unless
\* the unit itself ends for want of a socket (firealarm.c:58-62, 69, door.c:79-94).
SweepEnds == unit = "sweep" ~> unit \in {"recv", "dead"}

\* A door that was started by hand and is registered is told to open if the unit keeps
\* taking FIRE datagrams, though the door may start to listen only after the first
\* sweeps have given it up (firealarm.c:69-73, door.c:74); or the door has ended.
FireReachesDoor ==
  \A d \in Doors :
    /\ []<><<Fire>>_vars
    /\ <>(d \in FA!Registered) /\ form[d] = "manual"
    => <>(d \in opened \/ door[d] = "dead")

\* Every connection a door accepts is closed in the end, unless its thread could
\* not be created: then it is lost to the door for good (door.c:27-33, 89).
ConnectionsClosed ==
  \A d \in Doors, fd \in 1..DoorFds :
    fd \in open[d] ~> fd \notin open[d] \/ fd \in leaked[d]

\* A sensor that has come up serves every receiver it was given, in order, and ends,
\* however often the thermometer takes the mutex (tempsensor.c:70-72, 86-112).
SensorServesAll ==
  \A s \in Sensors :
    sensor[s] = "lock" ~> sensor[s] = "ended" /\ sent[s] = S!Addresses(Given[s])
=============================================================================
