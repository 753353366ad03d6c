------------------------------- MODULE FireSystem -------------------------------
(***************************************************************************)
(* The fire path as a whole: the call points (Callpoint) send FIRE          *)
(* datagrams over UDP to the fire alarm unit (FireAlarm), which also hears  *)
(* temperature sensors and the overseer's door registrations.  UDP loses,   *)
(* repeats and reorders: datagrams in flight form a set, a delivery may     *)
(* leave the datagram in it, and any of them may vanish.                    *)
(*                                                                         *)
(* The senders of TEMP and DOOR datagrams are external: what tempsensor.c   *)
(* sends has not been filled in and may be anything (EmergencyPath has it), *)
(* and no source sends DOOR.                                                *)
(***************************************************************************)
EXTENDS Integers, Sequences, FiniteSets

CONSTANTS Doors, DoorCapacity, MinDetections, DetectionPeriod, Faults,
          MaxTime, MaxReadings, Callpoints

VARIABLES
  unit, alarm, doors, next, detections, lastHot, now, link, confirmed, opened,
  attempted, readings, cause,               \* the fire alarm unit
  status, mutex, place, button, pressed,     \* the call points
  net                                       \* datagrams in flight

FA == INSTANCE FireAlarm
CP == INSTANCE Callpoint

\* What the fire alarm unit assumes of its constants.
ASSUME UnitAssumption ==
  /\ IsFiniteSet(Doors) /\ DoorCapacity \in Nat /\ Cardinality(Doors) <= DoorCapacity
  /\ MinDetections \in Nat /\ DetectionPeriod \in Nat
  /\ MaxTime \in Nat /\ MaxReadings \in Nat
  /\ Faults \subseteq FA!FaultKinds

unitVars ==
  <<unit, alarm, doors, next, detections, lastHot, now, link, confirmed, opened,
    attempted, readings, cause>>
callpointVars == <<status, mutex, place, button, pressed>>
vars == <<unitVars, callpointVars, net>>

FireDg    == [kind |-> "FIRE"]
HotDg     == [kind |-> "TEMP"]
DoorDg(d) == [kind |-> "DOOR", door |-> d]
Datagram  == {FireDg, HotDg} \cup {DoorDg(d) : d \in Doors}

Init == FA!Init /\ CP!Init /\ net = {}

-----------------------------------------------------------------------------
(* Sending.                                                                 *)

Send(dg) == net' = net \cup {dg}

SendFire(c) == CP!SendFire(c) /\ Send(FireDg) /\ UNCHANGED unitVars

\* Temperature sensor (external).
SendHot == Send(HotDg) /\ UNCHANGED <<unitVars, callpointVars>>

\* Overseer (external): announces a door, as often as it likes.
SendDoor(d) == Send(DoorDg(d)) /\ UNCHANGED <<unitVars, callpointVars>>

-----------------------------------------------------------------------------
(* Delivery and loss.                                                       *)

Deliver(dg) ==
  /\ dg \in net
  /\ net' \in {net, net \ {dg}}
  /\ UNCHANGED callpointVars

DeliverFire    == Deliver(FireDg) /\ FA!ReceiveFire
DeliverHot     == Deliver(HotDg) /\ FA!ReceiveHot
DeliverDoor(d) == Deliver(DoorDg(d)) /\ FA!ReceiveDoor(d)

Lose(dg) ==
  /\ dg \in net
  /\ net' = net \ {dg}
  /\ UNCHANGED <<unitVars, callpointVars>>

-----------------------------------------------------------------------------
(* Steps of one component alone.                                            *)

UnitStep ==
  /\ FA!React \/ FA!Tick \/ FA!OverseerEnds
  /\ UNCHANGED <<callpointVars, net>>

\* Every step of a call point but the sending of a datagram.
CallpointStep(c) ==
  /\ \/ CP!Lock(c) \/ CP!WaitForPress(c) \/ CP!WakeSpuriously(c)
     \/ CP!Relock(c) \/ CP!Resend(c) \/ CP!Unlock(c)
     \/ CP!Button(c)
  /\ UNCHANGED <<unitVars, net>>

Next ==
  \/ \E c \in Callpoints : SendFire(c) \/ CallpointStep(c)
  \/ \E d \in Doors : SendDoor(d) \/ DeliverDoor(d)
  \/ SendHot \/ DeliverHot \/ DeliverFire
  \/ \E dg \in Datagram : Lose(dg)
  \/ UnitStep

-----------------------------------------------------------------------------
(* Fairness.  The unit reacts, the call points run, a button that has begun *)
(* an update ends it.  A default pthread mutex is not fair: neither side is *)
(* promised to win it from the other for ever.  The network and the doors   *)
(* are fair-lossy: FIRE sent for ever is received for ever, and a door      *)
(* dialled for ever answers for ever.                                       *)

Fairness ==
  /\ WF_vars(FA!RaiseAlarm /\ UNCHANGED <<callpointVars, net>>)
  /\ WF_vars(FA!EndSweep /\ UNCHANGED <<callpointVars, net>>)
  /\ \A d \in Doors :
       /\ WF_vars((FA!OpenDoor(d) \/ FA!SkipDoor(d)) /\ UNCHANGED <<callpointVars, net>>)
       /\ SF_vars(FA!OpenDoor(d) /\ UNCHANGED <<callpointVars, net>>)
  /\ SF_vars(DeliverFire)
  /\ \A c \in Callpoints :
       /\ WF_vars(SendFire(c) \/ (CP!Process(c) /\ CallpointStep(c)))
       /\ WF_vars((CP!Press(c) \/ CP!Clear(c) \/ CP!ButtonUnlock(c)
                     \/ CP!ButtonSignal(c)) /\ UNCHANGED <<unitVars, net>>)

SafeSpec == Init /\ [][Next]_vars
Spec     == SafeSpec /\ Fairness

-----------------------------------------------------------------------------
(* Properties.                                                              *)

TypeOK == FA!TypeOK /\ CP!TypeOK /\ net \subseteq Datagram

\* A FIRE datagram in flight, or one the unit acted on, stems from a pressed
\* button: nothing on the way makes a fire up (callpoint.c:64-66,
\* firealarm.c:179).
FireHasSource ==
  FireDg \in net \/ "FIRE" \in cause => pressed # {}

\* No press is lost between the test of the status and the wait (stated in
\* Callpoint; callpoint.c:63-73).
PressNotLost == CP!PressNotLost

\* A call point that is active and left alone sends FIRE again and again
\* (callpoint.c:61-74), so that one lost datagram is never the last.  A button
\* that takes the mutex over and over could keep the process out of it.
KeepsSending ==
  \A c \in Callpoints :
    <>[](status[c] = "*" /\ button[c] = "idle") => []<><<SendFire(c)>>_vars

\* The fire path implements its abstract specification.
Abstract == INSTANCE EmergencyRelease
  WITH evidence <- pressed # {} \/ "TEMP" \in cause,
       raised   <- alarm = "A",
       known    <- FA!Registered,
       released <- opened

ImplementsEmergencyRelease == Abstract!Spec

\* If a call point stays active and alone, every door that is ever registered is
\* told to open, also one registered after the alarm was raised: no single
\* sweep covers such a door (firealarm.c:235-241 does not open it), only the
\* repetition of the FIRE datagram does (callpoint.c:61-74).
EveryDoorOpened ==
  \A c \in Callpoints, d \in Doors :
    <>[](status[c] = "*" /\ button[c] = "idle") /\ <>(d \in FA!Registered)
      => <>(d \in opened)
=============================================================================
