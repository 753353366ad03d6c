---------------------------- MODULE FireSystemProofs ----------------------------
(***************************************************************************)
(* Theorems about the fire path, for any number of call points and doors    *)
(* and a network that loses, repeats and reorders: its components behave in *)
(* it as they do alone, no press is lost, nothing makes a fire up, and the   *)
(* fire path implements EmergencyRelease.                                   *)
(***************************************************************************)
EXTENDS FireSystem, TLAPS

\* What is proved of the fire alarm unit alone.
FAProofs == INSTANCE FireAlarmProofs

\* What the unit's place in its loop says about the rest of the system.
UnitInv ==
  /\ doors \in Seq(Doors)
  /\ next \in Nat \ {0}
  /\ cause \subseteq {"FIRE", "TEMP"}
  /\ unit = "raise" => cause # {}
  /\ unit = "sweep" => alarm = "A"

\* Where fires come from.
SourceInv ==
  /\ status \in [Callpoints -> {"-", "*"}]
  /\ \A c \in Callpoints : status[c] = "*" => c \in pressed
  /\ FireHasSource

-----------------------------------------------------------------------------
(* The two halves of the inductive invariant.                               *)

\* A step of the unit keeps what the proofs about the unit alone established.
LEMMA UnitStepInv ==
  ASSUME UnitInv, FA!Next \/ UNCHANGED unitVars
  PROVE  UnitInv'
<1> USE DEF UnitInv, FA!sweepVars, FA!detectionVars, FA!registryVars
<1>1. CASE FA!ReceiveFire
  BY <1>1 DEF FA!ReceiveFire
<1>2. CASE FA!ReceiveHot
  BY <1>2 DEF FA!ReceiveHot
<1>3. ASSUME NEW d \in Doors, FA!ReceiveDoor(d) PROVE UnitInv'
  <2>1. Append(doors, d) \in Seq(Doors)
    OBVIOUS
  <2>2. doors' = doors \/ doors' = Append(doors, d)
    BY <1>3 DEF FA!ReceiveDoor
  <2>3. unit' \in {"recv", "dead"} /\ UNCHANGED <<next, cause, alarm>>
    BY <1>3 DEF FA!ReceiveDoor, FA!SendConfirmation
  <2> QED BY <2>1, <2>2, <2>3
<1>4. CASE FA!RaiseAlarm
  BY <1>4 DEF FA!RaiseAlarm
<1>5. ASSUME NEW d \in Doors, FA!OpenDoor(d) \/ FA!SkipDoor(d) \/ FA!SocketFails(d)
      PROVE  UnitInv'
  <2>1. /\ next' = next + 1 \/ next' = next
        /\ UNCHANGED <<doors, cause, alarm>>
    BY <1>5 DEF FA!OpenDoor, FA!SkipDoor, FA!SocketFails
  <2>2. unit' = unit \/ unit' = "dead"
    BY <1>5 DEF FA!OpenDoor, FA!SkipDoor, FA!SocketFails
  <2> QED BY <2>1, <2>2
<1>6. CASE FA!EndSweep
  BY <1>6 DEF FA!EndSweep
<1>7. CASE FA!Tick \/ FA!OverseerEnds
  BY <1>7 DEF FA!Tick, FA!OverseerEnds
<1>8. CASE UNCHANGED unitVars
  BY <1>8 DEF unitVars
<1> QED
  BY <1>1, <1>2, <1>3, <1>4, <1>5, <1>6, <1>7, <1>8 DEF FA!Next, FA!React

\* Every step of the system is a step of the unit or leaves it alone.
LEMMA UnitProjection ==
  ASSUME [Next]_vars
  PROVE  FA!Next \/ UNCHANGED unitVars
<1>1. ASSUME NEW c \in Callpoints, SendFire(c) \/ CallpointStep(c)
      PROVE  UNCHANGED unitVars
  BY <1>1 DEF SendFire, CallpointStep, unitVars
<1>2. ASSUME NEW d \in Doors, SendDoor(d) PROVE UNCHANGED unitVars
  BY <1>2 DEF SendDoor
<1>3. ASSUME NEW d \in Doors, DeliverDoor(d) PROVE FA!Next
  BY <1>3 DEF DeliverDoor, FA!Next
<1>4. SendHot => UNCHANGED unitVars
  BY DEF SendHot
<1>5. DeliverHot \/ DeliverFire \/ UnitStep => FA!Next
  BY DEF DeliverHot, DeliverFire, UnitStep, FA!Next
<1>6. ASSUME NEW dg \in Datagram, Lose(dg) PROVE UNCHANGED unitVars
  BY <1>6 DEF Lose
<1>7. UNCHANGED vars => UNCHANGED unitVars
  BY DEF vars
<1> QED BY <1>1, <1>2, <1>3, <1>4, <1>5, <1>6, <1>7 DEF Next

\* Every step keeps the FIRE datagrams and the cause "FIRE" traced to a button.
LEMMA SourceStepInv ==
  ASSUME SourceInv, [Next]_vars
  PROVE  SourceInv'
<1> USE DEF SourceInv, FireHasSource
<1>1. ASSUME NEW c \in Callpoints, SendFire(c) PROVE SourceInv'
  <2>1. pressed # {} /\ UNCHANGED <<status, pressed, cause>>
    BY <1>1 DEF SendFire, CP!SendFire, unitVars
  <2> QED BY <2>1
<1>2. ASSUME NEW c \in Callpoints, CP!Press(c), UNCHANGED <<unitVars, net>>
      PROVE  SourceInv'
  BY <1>2 DEF CP!Press, unitVars
<1>3. ASSUME NEW c \in Callpoints, CP!Clear(c), UNCHANGED <<unitVars, net>>
      PROVE  SourceInv'
  BY <1>3 DEF CP!Clear, unitVars
<1>4. ASSUME NEW c \in Callpoints, CallpointStep(c), ~CP!Press(c), ~CP!Clear(c)
      PROVE  SourceInv'
  <2>1. UNCHANGED <<status, pressed>>
    BY <1>4 DEF CallpointStep, CP!Button, CP!Lock, CP!WaitForPress,
       CP!WakeSpuriously, CP!Relock, CP!Resend, CP!Unlock, CP!ButtonLock,
       CP!ButtonUnlock, CP!ButtonSignal
  <2>2. UNCHANGED <<cause, net>>
    BY <1>4 DEF CallpointStep, unitVars
  <2> QED BY <2>1, <2>2
<1>5. ASSUME NEW d \in Doors, SendDoor(d) PROVE SourceInv'
  <2>1. FireDg \in net' <=> FireDg \in net
    BY <1>5 DEF SendDoor, Send, FireDg, DoorDg
  <2> QED BY <1>5, <2>1 DEF SendDoor, unitVars, callpointVars
<1>6. CASE SendHot
  <2>1. FireDg \in net' <=> FireDg \in net
    BY <1>6 DEF SendHot, Send, FireDg, HotDg
  <2> QED BY <1>6, <2>1 DEF SendHot, unitVars, callpointVars
<1>7. CASE DeliverFire
  BY <1>7 DEF DeliverFire, Deliver, callpointVars
<1>8. CASE DeliverHot
  <2>1. "FIRE" \in cause' <=> "FIRE" \in cause
    BY <1>8 DEF DeliverHot, FA!ReceiveHot
  <2> QED BY <1>8, <2>1 DEF DeliverHot, Deliver, callpointVars
<1>9. ASSUME NEW d \in Doors, DeliverDoor(d) PROVE SourceInv'
  BY <1>9 DEF DeliverDoor, Deliver, callpointVars, FA!ReceiveDoor
<1>10. ASSUME NEW dg \in Datagram, Lose(dg) PROVE SourceInv'
  BY <1>10 DEF Lose, unitVars, callpointVars
<1>11. CASE UnitStep
  <2>1. cause' = cause
    BY <1>11 DEF UnitStep, FA!React, FA!RaiseAlarm, FA!EndSweep, FA!OpenDoor,
       FA!SkipDoor, FA!SocketFails, FA!Tick, FA!OverseerEnds
  <2> QED BY <1>11, <2>1 DEF UnitStep, callpointVars
<1>12. CASE UNCHANGED vars
  BY <1>12 DEF vars, unitVars, callpointVars
<1>13. ASSUME NEW c \in Callpoints, CallpointStep(c) PROVE SourceInv'
  BY <1>2, <1>3, <1>4, <1>13 DEF CallpointStep
<1> QED
  BY <1>1, <1>5, <1>6, <1>7, <1>8, <1>9, <1>10, <1>11, <1>12, <1>13 DEF Next

\* Both parts of the invariant hold at first.
LEMMA InitInv ==
  ASSUME Init
  PROVE  UnitInv /\ SourceInv
BY DEF Init, FA!Init, CP!Init, UnitInv, SourceInv, FireHasSource

\* The invariant of the composed system: the unit's own one, and the sources of FIRE.
THEOREM InvCorrect == SafeSpec => [](UnitInv /\ SourceInv)
<1>1. UnitInv /\ SourceInv /\ [Next]_vars => (UnitInv /\ SourceInv)'
  BY UnitStepInv, UnitProjection, SourceStepInv
<1> QED BY <1>1, InitInv, PTL DEF SafeSpec

-----------------------------------------------------------------------------
(* The results.                                                             *)

\* No FIRE datagram is in flight, and none was acted on, before a button was
\* pressed (callpoint.c:64-66, firealarm.c:179), whatever the network does.
THEOREM FireSourced == SafeSpec => []FireHasSource
<1>1. SourceInv => FireHasSource
  BY DEF SourceInv
<1> QED BY <1>1, InvCorrect, PTL

\* The initial states of the fire path are initial states of EmergencyRelease.
LEMMA InitRefines ==
  ASSUME Init
  PROVE  Abstract!Init
BY DEF Init, FA!Init, CP!Init, Abstract!Init, FA!Registered

\* Every step of the fire path is a step of EmergencyRelease or leaves what it
\* speaks of alone.
LEMMA StepRefines ==
  ASSUME UnitInv, SourceInv, [Next]_vars
  PROVE  [Abstract!Next]_(Abstract!vars)
<1> DEFINE Same == UNCHANGED <<pressed, cause, alarm, doors, opened>>
<1>0. ASSUME Same PROVE UNCHANGED Abstract!vars
  BY <1>0 DEF Abstract!vars, FA!Registered
<1>1. ASSUME NEW c \in Callpoints, SendFire(c) PROVE Same
  BY <1>1 DEF SendFire, CP!SendFire, unitVars
<1>2. ASSUME NEW c \in Callpoints, CP!Press(c), UNCHANGED <<unitVars, net>>
      PROVE  Abstract!Report
  BY <1>2 DEF CP!Press, unitVars, Abstract!Report, FA!Registered
<1>3. ASSUME NEW c \in Callpoints, CallpointStep(c), ~CP!Press(c) PROVE Same
  BY <1>3 DEF CallpointStep, CP!Button, CP!Lock, CP!WaitForPress,
       CP!WakeSpuriously, CP!Relock, CP!Resend, CP!Unlock, CP!ButtonLock,
       CP!Clear, CP!ButtonUnlock, CP!ButtonSignal, unitVars
<1>4. ASSUME (\E d \in Doors : SendDoor(d)) \/ SendHot
               \/ (\E dg \in Datagram : Lose(dg))
      PROVE  Same
  BY <1>4 DEF SendDoor, SendHot, Lose, unitVars, callpointVars
<1>5. CASE DeliverFire
  <2>1. /\ "TEMP" \in cause' <=> "TEMP" \in cause
        /\ UNCHANGED <<pressed, alarm, doors, opened>>
    BY <1>5 DEF DeliverFire, Deliver, callpointVars, FA!ReceiveFire,
       FA!sweepVars, FA!registryVars
  <2> QED BY <2>1 DEF Abstract!vars, FA!Registered
<1>6. CASE DeliverHot
  <2>1. /\ cause' = cause \/ "TEMP" \in cause'
        /\ UNCHANGED <<pressed, alarm, doors, opened>>
    BY <1>6 DEF DeliverHot, Deliver, callpointVars, FA!ReceiveHot,
       FA!sweepVars, FA!registryVars
  <2>2. CASE cause' = cause
    BY <1>0, <2>1, <2>2
  <2>3. CASE "TEMP" \in cause'
    <3>1. Abstract!Report
      BY <2>1, <2>3 DEF Abstract!Report, FA!Registered
    <3> QED BY <3>1 DEF Abstract!Next
  <2> QED BY <2>1, <2>2, <2>3
<1>7. ASSUME NEW d \in Doors, DeliverDoor(d)
      PROVE  Same \/ Abstract!Enrol(d)
  <2>1. UNCHANGED <<pressed, cause, alarm, opened>>
    BY <1>7 DEF DeliverDoor, Deliver, callpointVars, FA!ReceiveDoor, FA!sweepVars
  <2>2. CASE doors' = doors
    BY <2>1, <2>2
  <2>3. CASE doors' = Append(doors, d)
    <3>1. /\ Len(doors') = Len(doors) + 1 /\ Len(doors) \in Nat
          /\ \A i \in 1..Len(doors) : doors'[i] = doors[i]
          /\ doors'[Len(doors) + 1] = d
      BY <2>3 DEF UnitInv
    <3>2. FA!Registered' = FA!Registered \cup {d}
      BY <3>1 DEF FA!Registered
    <3> QED BY <2>1, <3>2 DEF Abstract!Enrol
  <2> QED
    BY <1>7, <2>2, <2>3 DEF DeliverDoor, FA!ReceiveDoor, FA!registryVars
<1>8. CASE FA!RaiseAlarm /\ UNCHANGED <<callpointVars, net>>
  <2>1. pressed # {} \/ "TEMP" \in cause
    BY <1>8 DEF FA!RaiseAlarm, UnitInv, SourceInv, FireHasSource
  <2>2. alarm' = "A" /\ UNCHANGED <<pressed, cause, doors, opened>>
    BY <1>8 DEF FA!RaiseAlarm, callpointVars, FA!registryVars
  <2>3. Abstract!Raise
    BY <2>1, <2>2 DEF Abstract!Raise, FA!Registered
  <2> QED BY <2>3 DEF Abstract!Next
<1>9. ASSUME NEW d \in Doors, FA!OpenDoor(d), UNCHANGED <<callpointVars, net>>
      PROVE  Abstract!Release(d)
  <2>1. alarm = "A" /\ d \in FA!Registered
    BY <1>9 DEF FA!OpenDoor, FA!AtDoor, FA!Registered, UnitInv
  <2>2. opened' = opened \cup {d} /\ UNCHANGED <<pressed, cause, alarm, doors>>
    BY <1>9 DEF FA!OpenDoor, callpointVars, FA!registryVars
  <2> QED BY <2>1, <2>2 DEF Abstract!Release, FA!Registered
<1>10. ASSUME UnitStep, ~FA!RaiseAlarm, \A d \in Doors : ~FA!OpenDoor(d)
       PROVE  Same
  BY <1>10 DEF UnitStep, FA!React, FA!EndSweep, FA!SkipDoor, FA!SocketFails,
     FA!Tick, FA!OverseerEnds, callpointVars, FA!sweepVars, FA!registryVars
<1>11. ASSUME UNCHANGED vars PROVE Same
  BY <1>11 DEF vars, unitVars, callpointVars
<1>12. CASE \E c \in Callpoints : CallpointStep(c)
  BY <1>0, <1>2, <1>3, <1>12 DEF CallpointStep, Abstract!Next
<1>13. CASE UnitStep
  BY <1>0, <1>8, <1>9, <1>10, <1>13 DEF UnitStep, Abstract!Next
<1>14. CASE \E d \in Doors : DeliverDoor(d)
  BY <1>0, <1>7, <1>14 DEF Abstract!Next
<1> QED
  BY <1>0, <1>1, <1>4, <1>5, <1>6, <1>11, <1>12, <1>13, <1>14 DEF Next

\* The fire path implements its abstract specification: the alarm is raised
\* only on evidence, stays raised, and doors are released under the alarm only.
THEOREM Implements == SafeSpec => ImplementsEmergencyRelease
<1>1. UnitInv /\ SourceInv /\ [Next]_vars => [Abstract!Next]_(Abstract!vars)
  BY StepRefines
<1> QED
  BY <1>1, InitRefines, InvCorrect, PTL
     DEF SafeSpec, ImplementsEmergencyRelease, Abstract!Spec

-----------------------------------------------------------------------------
(* The components in the system.                                            *)

\* The fire alarm unit behaves in the system as it does alone: the call points and
\* the network only choose when datagrams come.
THEOREM UnitRuns == SafeSpec => FA!Spec
<1>1. Init => FA!Init
  BY DEF Init
<1>2. [Next]_vars => [FA!Next]_(FA!vars)
  <2>1. UNCHANGED unitVars => UNCHANGED FA!vars
    BY DEF unitVars, FA!vars, FA!sweepVars, FA!detectionVars, FA!registryVars
  <2> QED
    BY <2>1, UnitProjection
<1> QED
  BY <1>1, <1>2, PTL DEF SafeSpec, FA!Spec

\* The call points behave in the system as they do alone: what they send is never
\* answered.
THEOREM CallpointsRun == SafeSpec => CP!Spec
<1>1. Init => CP!Init
  BY DEF Init
<1>2. [Next]_vars => [CP!Next]_(CP!vars)
  <2> SUFFICES ASSUME [Next]_vars PROVE [CP!Next]_(CP!vars)
    OBVIOUS
  <2>1. UNCHANGED callpointVars => UNCHANGED CP!vars
    BY DEF callpointVars, CP!vars
  <2>2. ASSUME NEW c \in Callpoints, SendFire(c) \/ CallpointStep(c) PROVE CP!Next
    BY <2>2 DEF SendFire, CallpointStep, CP!Next, CP!Process
  <2>3. ASSUME NEW d \in Doors, SendDoor(d) \/ DeliverDoor(d)
        PROVE  UNCHANGED callpointVars
    BY <2>3 DEF SendDoor, DeliverDoor, Deliver
  <2>4. SendHot \/ DeliverHot \/ DeliverFire \/ UnitStep => UNCHANGED callpointVars
    BY DEF SendHot, DeliverHot, DeliverFire, Deliver, UnitStep, callpointVars
  <2>5. ASSUME NEW dg \in Datagram, Lose(dg) PROVE UNCHANGED callpointVars
    BY <2>5 DEF Lose
  <2>6. UNCHANGED vars => UNCHANGED callpointVars
    BY DEF vars
  <2> QED
    BY <2>1, <2>2, <2>3, <2>4, <2>5, <2>6 DEF Next
<1> QED
  BY <1>1, <1>2, PTL DEF SafeSpec, CP!Spec

\* The system grants the unit what it assumes of its constants.
LEMMA UnitAssumes ==
  /\ FAProofs!IsFiniteSet(Doors) /\ DoorCapacity \in Nat
  /\ FAProofs!Cardinality(Doors) <= DoorCapacity
  /\ MinDetections \in Nat /\ DetectionPeriod \in Nat
  /\ MaxTime \in Nat /\ MaxReadings \in Nat
  /\ Faults \subseteq FAProofs!FaultKinds
<1>1. IsFiniteSet(Doors) <=> FAProofs!IsFiniteSet(Doors)
  BY DEF IsFiniteSet, FAProofs!IsFiniteSet
<1>2. Cardinality(Doors) = FAProofs!Cardinality(Doors)
  BY DEF Cardinality, FAProofs!Cardinality
<1> QED
  BY <1>1, <1>2, UnitAssumption DEF FA!FaultKinds, FAProofs!FaultKinds

\* The system and the proofs about the unit speak of the same unit.
LEMMA SameUnit == FA!Spec => FAProofs!Spec
<1>1. FA!Init => FAProofs!Init
  BY DEF FA!Init, FAProofs!Init
<1>2. FA!Next => FAProofs!Next
  BY DEF FA!Next, FA!React, FA!ReceiveFire, FA!ReceiveHot, FA!CurrentCount,
     FA!ReceiveDoor, FA!SendConfirmation, FA!Registered, FA!RaiseAlarm, FA!EndSweep,
     FA!AtDoor, FA!OpenDoor, FA!SkipDoor, FA!SocketFails, FA!Tick, FA!OverseerEnds,
     FA!sweepVars, FA!detectionVars, FA!registryVars,
     FAProofs!Next, FAProofs!React, FAProofs!ReceiveFire, FAProofs!ReceiveHot,
     FAProofs!CurrentCount, FAProofs!ReceiveDoor, FAProofs!SendConfirmation,
     FAProofs!Registered, FAProofs!RaiseAlarm, FAProofs!EndSweep, FAProofs!AtDoor,
     FAProofs!OpenDoor, FAProofs!SkipDoor, FAProofs!SocketFails, FAProofs!Tick,
     FAProofs!OverseerEnds, FAProofs!sweepVars, FAProofs!detectionVars,
     FAProofs!registryVars
<1>3. UNCHANGED FA!vars => UNCHANGED FAProofs!vars
  BY DEF FA!vars, FA!sweepVars, FA!detectionVars, FA!registryVars, FAProofs!vars,
     FAProofs!sweepVars, FAProofs!detectionVars, FAProofs!registryVars
<1> QED
  BY <1>1, <1>2, <1>3, PTL DEF FA!Spec, FAProofs!Spec

\* So what is proved of the unit alone holds of it in the system: its registry stays
\* inside its arrays, the overseer hears of every door once, doors are opened under
\* the alarm only, temperature raises it exactly on a burst of hot readings, and no
\* sweep leaves a door out (firealarm.c:179-241).
THEOREM UnitPromises ==
  SafeSpec => /\ [](/\ FA!RegistryInBounds /\ FA!ConfirmedOnce
                   /\ FA!OpenedUnderAlarm /\ FA!TempAlarmIffBurst)
              /\ FA!SweepTriesAll
<1>1. FAProofs!Spec => /\ []FAProofs!RegistryInBounds /\ []FAProofs!ConfirmedOnce
                       /\ []FAProofs!OpenedUnderAlarm /\ []FAProofs!TempAlarmIffBurst
                       /\ FAProofs!SweepTriesAll
  BY UnitAssumes, FAProofs!RegistryBounded, FAProofs!ConfirmationsExact,
     FAProofs!OpenedLate, FAProofs!TempAlarmExact, FAProofs!SweepComplete
<1>2. /\ FAProofs!RegistryInBounds => FA!RegistryInBounds
      /\ FAProofs!ConfirmedOnce => FA!ConfirmedOnce
      /\ FAProofs!OpenedUnderAlarm => FA!OpenedUnderAlarm
  BY DEF FAProofs!RegistryInBounds, FA!RegistryInBounds, FAProofs!ConfirmedOnce,
     FA!ConfirmedOnce, FAProofs!OpenedUnderAlarm, FA!OpenedUnderAlarm,
     FAProofs!Registered, FA!Registered
<1>3. FAProofs!TempAlarmIffBurst => FA!TempAlarmIffBurst
  BY DEF FAProofs!TempAlarmIffBurst, FA!TempAlarmIffBurst, FAProofs!HasBurst,
     FA!HasBurst
<1>4. FAProofs!SweepTriesAll => FA!SweepTriesAll
  <2>1. [unit = "sweep" /\ unit' = "recv" =>
           FAProofs!Registered \subseteq attempted']_(FAProofs!vars)
        => [unit = "sweep" /\ unit' = "recv" =>
              FA!Registered \subseteq attempted']_(FA!vars)
    BY DEF FAProofs!Registered, FA!Registered, FAProofs!vars, FA!vars,
       FAProofs!sweepVars, FA!sweepVars, FAProofs!detectionVars, FA!detectionVars,
       FAProofs!registryVars, FA!registryVars
  <2> QED
    BY <2>1, PTL DEF FAProofs!SweepTriesAll, FA!SweepTriesAll
<1> QED
  BY <1>1, <1>2, <1>3, <1>4, UnitRuns, SameUnit, PTL

-----------------------------------------------------------------------------
(* The call points.                                                         *)

\* Every step of a call point or its button keeps the types.
LEMMA CallpointTypeStep ==
  ASSUME CP!TypeOK, CP!Next \/ UNCHANGED CP!vars
  PROVE  CP!TypeOK'
<1> USE DEF CP!TypeOK
<1>1. ASSUME NEW c \in Callpoints, CP!Process(c) \/ CP!WakeSpuriously(c)
      PROVE  CP!TypeOK'
  <2>1. UNCHANGED <<status, button, pressed>>
    BY <1>1 DEF CP!Process, CP!Lock, CP!SendFire, CP!WaitForPress, CP!Relock,
       CP!Resend, CP!Unlock, CP!WakeSpuriously
  <2>2. \E p \in CP!Places : CP!Goto(c, p)
    BY <1>1 DEF CP!Process, CP!Lock, CP!SendFire, CP!WaitForPress, CP!Relock,
       CP!Resend, CP!Unlock, CP!WakeSpuriously, CP!Places
  <2>3. mutex' = mutex \/ \E o \in {"free", "callpoint"} : CP!Hold(c, o)
    BY <1>1 DEF CP!Process, CP!Lock, CP!SendFire, CP!WaitForPress, CP!Relock,
       CP!Resend, CP!Unlock, CP!WakeSpuriously
  <2> QED
    BY <2>1, <2>2, <2>3 DEF CP!Goto, CP!Hold
<1>2. ASSUME NEW c \in Callpoints, CP!ButtonLock(c) PROVE CP!TypeOK'
  BY <1>2 DEF CP!ButtonLock, CP!Hold
<1>3. ASSUME NEW c \in Callpoints, CP!Press(c) PROVE CP!TypeOK'
  BY <1>3 DEF CP!Press
<1>4. ASSUME NEW c \in Callpoints, CP!Clear(c) PROVE CP!TypeOK'
  BY <1>4 DEF CP!Clear
<1>5. ASSUME NEW c \in Callpoints, CP!ButtonUnlock(c) PROVE CP!TypeOK'
  BY <1>5 DEF CP!ButtonUnlock, CP!Hold
<1>6. ASSUME NEW c \in Callpoints, CP!ButtonSignal(c) PROVE CP!TypeOK'
  BY <1>6 DEF CP!ButtonSignal, CP!Places
<1>7. CASE UNCHANGED CP!vars
  BY <1>7 DEF CP!vars
<1> QED
  BY <1>1, <1>2, <1>3, <1>4, <1>5, <1>6, <1>7 DEF CP!Next, CP!Button

\* A call point waits only if it has seen no press in the same tenure of the mutex,
\* and every press is followed by a signal.
LEMMA PressStep ==
  ASSUME CP!TypeOK, CP!PressNotLost, CP!Next \/ UNCHANGED CP!vars
  PROVE  CP!PressNotLost'
<1> USE DEF CP!TypeOK, CP!PressNotLost
<1>1. ASSUME NEW c \in Callpoints, CP!WaitForPress(c) PROVE CP!PressNotLost'
  BY <1>1 DEF CP!WaitForPress, CP!Goto
<1>2. ASSUME NEW c \in Callpoints, CP!Process(c) \/ CP!WakeSpuriously(c),
             ~CP!WaitForPress(c)
      PROVE  CP!PressNotLost'
  <2>1. UNCHANGED <<status, button>>
    BY <1>2 DEF CP!Process, CP!Lock, CP!SendFire, CP!Relock, CP!Resend, CP!Unlock,
       CP!WakeSpuriously
  <2>2. \E p \in CP!Places \ {"wait"} : CP!Goto(c, p)
    BY <1>2 DEF CP!Process, CP!Lock, CP!SendFire, CP!Relock, CP!Resend, CP!Unlock,
       CP!WakeSpuriously, CP!Places
  <2> QED
    BY <2>1, <2>2 DEF CP!Goto
<1>3. ASSUME NEW c \in Callpoints, CP!ButtonLock(c) PROVE CP!PressNotLost'
  BY <1>3 DEF CP!ButtonLock
<1>4. ASSUME NEW c \in Callpoints, CP!Press(c) PROVE CP!PressNotLost'
  BY <1>4 DEF CP!Press
<1>5. ASSUME NEW c \in Callpoints, CP!Clear(c) PROVE CP!PressNotLost'
  BY <1>5 DEF CP!Clear
<1>6. ASSUME NEW c \in Callpoints, CP!ButtonUnlock(c) PROVE CP!PressNotLost'
  BY <1>6 DEF CP!ButtonUnlock
<1>7. ASSUME NEW c \in Callpoints, CP!ButtonSignal(c) PROVE CP!PressNotLost'
  BY <1>7 DEF CP!ButtonSignal
<1>8. CASE UNCHANGED CP!vars
  BY <1>8 DEF CP!vars
<1> QED
  BY <1>1, <1>2, <1>3, <1>4, <1>5, <1>6, <1>7, <1>8 DEF CP!Next, CP!Button

\* The call points are well typed and lose no press, whatever the rest does.
LEMMA CallpointsCorrect == CP!Spec => [](CP!TypeOK /\ CP!PressNotLost)
<1>1. CP!Init => CP!TypeOK /\ CP!PressNotLost
  BY DEF CP!Init, CP!TypeOK, CP!PressNotLost, CP!Places
<1>2. CP!TypeOK /\ CP!PressNotLost /\ [CP!Next]_(CP!vars)
        => (CP!TypeOK /\ CP!PressNotLost)'
  BY CallpointTypeStep, PressStep
<1> QED
  BY <1>1, <1>2, PTL DEF CP!Spec

\* Between the test of the status and the wait no press is lost: a call point that
\* waits on an active status is about to be signalled (callpoint.c:63-73).
THEOREM PressKept == SafeSpec => []PressNotLost
<1>1. CP!PressNotLost => PressNotLost
  BY DEF PressNotLost
<1> QED
  BY <1>1, CallpointsRun, CallpointsCorrect, PTL

-----------------------------------------------------------------------------
(* Types.                                                                   *)

\* Only the system's own datagrams are ever in flight.
LEMMA NetStep ==
  ASSUME net \subseteq Datagram, [Next]_vars
  PROVE  (net \subseteq Datagram)'
<1>1. ASSUME NEW c \in Callpoints, SendFire(c) PROVE net' \subseteq Datagram
  BY <1>1 DEF SendFire, Send, Datagram
<1>2. ASSUME NEW c \in Callpoints, CallpointStep(c) PROVE net' = net
  BY <1>2 DEF CallpointStep
<1>3. ASSUME NEW d \in Doors, SendDoor(d) PROVE net' \subseteq Datagram
  BY <1>3 DEF SendDoor, Send, Datagram
<1>4. SendHot => net' \subseteq Datagram
  BY DEF SendHot, Send, Datagram
<1>5. ASSUME NEW d \in Doors, DeliverDoor(d) PROVE net' \subseteq net
  BY <1>5 DEF DeliverDoor, Deliver
<1>6. DeliverHot \/ DeliverFire => net' \subseteq net
  BY DEF DeliverHot, DeliverFire, Deliver
<1>7. ASSUME NEW dg \in Datagram, Lose(dg) PROVE net' \subseteq net
  BY <1>7 DEF Lose
<1>8. UnitStep => net' = net
  BY DEF UnitStep
<1>9. UNCHANGED vars => net' = net
  BY DEF vars
<1> QED
  BY <1>1, <1>2, <1>3, <1>4, <1>5, <1>6, <1>7, <1>8, <1>9 DEF Next

\* Every variable of every component has its type.
THEOREM SystemTypes == SafeSpec => []TypeOK
<1>1. SafeSpec => [](net \subseteq Datagram)
  <2>1. Init => net \subseteq Datagram
    BY DEF Init
  <2> QED
    BY <2>1, NetStep, PTL DEF SafeSpec
<1>2. SafeSpec => []FA!TypeOK
  <2>1. FAProofs!TypeOK => FA!TypeOK
    BY DEF FA!TypeOK, FAProofs!TypeOK
  <2>2. FAProofs!Spec => []FAProofs!TypeOK
    BY UnitAssumes, FAProofs!TypeCorrect
  <2> QED
    BY <2>1, <2>2, UnitRuns, SameUnit, PTL
<1>3. SafeSpec => []CP!TypeOK
  BY CallpointsRun, CallpointsCorrect, PTL
<1> QED
  BY <1>1, <1>2, <1>3, PTL DEF TypeOK
=============================================================================
