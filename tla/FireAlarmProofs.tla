---------------------------- MODULE FireAlarmProofs ----------------------------
(***************************************************************************)
(* Theorems about the fire alarm unit, for every set of doors, every length *)
(* of the door arrays, every threshold, every period and every fault set.   *)
(***************************************************************************)
EXTENDS FireAlarm, TLAPS, FiniteSetTheorems

-----------------------------------------------------------------------------
(* Types.                                                                   *)

\* Every reachable state is well typed.
THEOREM TypeCorrect == Spec => []TypeOK
<1>1. Init => TypeOK
  BY DEF Init, TypeOK
<1>2. TypeOK /\ [Next]_vars => TypeOK'
  <2> SUFFICES ASSUME TypeOK, [Next]_vars PROVE TypeOK'
    OBVIOUS
  <2> USE DEF TypeOK, sweepVars, detectionVars, registryVars
  <2>1. CASE ReceiveFire
    BY <2>1 DEF ReceiveFire
  <2>2. CASE ReceiveHot
    <3>1. CurrentCount \in Nat
      BY DEF CurrentCount
    <3>2. readings' \in Seq(Nat) /\ lastHot' \in Nat
      BY <2>2 DEF ReceiveHot
    <3>3. detections' \in Nat
      BY <2>2, <3>1 DEF ReceiveHot
    <3>4. unit' \in {"recv", "raise"} /\ cause' \subseteq {"FIRE", "TEMP"}
      BY <2>2 DEF ReceiveHot
    <3>5. UNCHANGED <<alarm, now, doors, link, confirmed, next, opened, attempted>>
      BY <2>2 DEF ReceiveHot
    <3> QED BY <3>2, <3>3, <3>4, <3>5
  <2>3. ASSUME NEW d \in Doors, ReceiveDoor(d) PROVE TypeOK'
    <3>0. Append(doors, d) \in Seq(Doors) /\ Append(confirmed, d) \in Seq(Doors)
      OBVIOUS
    <3>1. doors' \in Seq(Doors)
      <4>1. doors' = doors \/ doors' = Append(doors, d)
        BY <2>3 DEF ReceiveDoor
      <4> QED BY <3>0, <4>1
    <3>2. unit' \in {"recv", "dead"} /\ link' \in {"up", "closed", "reset"}
      BY <2>3 DEF ReceiveDoor, SendConfirmation
    <3>3. confirmed' \in Seq(Doors)
      <4>1. confirmed' = confirmed \/ confirmed' = Append(confirmed, d)
        BY <2>3 DEF ReceiveDoor, SendConfirmation
      <4> QED BY <3>0, <4>1
    <3>4. UNCHANGED <<alarm, cause, now, next, opened, attempted, detections,
                      lastHot, readings>>
      BY <2>3 DEF ReceiveDoor
    <3> QED BY <3>1, <3>2, <3>3, <3>4
  <2>4. CASE RaiseAlarm
    BY <2>4 DEF RaiseAlarm
  <2>5. ASSUME NEW d \in Doors, OpenDoor(d) \/ SkipDoor(d) \/ SocketFails(d)
        PROVE  TypeOK'
    <3>1. CASE OpenDoor(d)
      BY <3>1 DEF OpenDoor
    <3>2. CASE SkipDoor(d)
      BY <3>2 DEF SkipDoor
    <3>3. CASE SocketFails(d)
      BY <3>3 DEF SocketFails
    <3> QED BY <2>5, <3>1, <3>2, <3>3
  <2>6. CASE EndSweep
    BY <2>6 DEF EndSweep
  <2>7. CASE Tick
    BY <2>7 DEF Tick
  <2>8. CASE OverseerEnds
    BY <2>8 DEF OverseerEnds
  <2>9. CASE UNCHANGED vars
    BY <2>9 DEF vars
  <2> QED
    BY <2>1, <2>2, <2>3, <2>4, <2>5, <2>6, <2>7, <2>8, <2>9 DEF Next, React
<1> QED BY <1>1, <1>2, PTL DEF Spec

-----------------------------------------------------------------------------
(* The registry of doors.                                                   *)

\* What an element appended to a sequence leaves and adds.
LEMMA AppendFacts ==
  ASSUME NEW S, NEW s \in Seq(S), NEW e \in S
  PROVE  /\ Append(s, e) \in Seq(S)
         /\ Len(Append(s, e)) = Len(s) + 1
         /\ \A i \in 1..Len(s) : Append(s, e)[i] = s[i]
         /\ Append(s, e)[Len(s) + 1] = e
OBVIOUS

\* No door is stored twice.
Distinct ==
  \A i, j \in 1..Len(doors) : doors[i] = doors[j] => i = j

\* Only ReceiveDoor changes the registry, and only by appending.
LEMMA RegistryStep ==
  ASSUME [Next]_vars
  PROVE  \/ UNCHANGED <<doors, link, confirmed>>
         \/ \E d \in Doors : ReceiveDoor(d)
         \/ OverseerEnds
BY DEF Next, React, vars, ReceiveFire, ReceiveHot, RaiseAlarm, EndSweep,
       OpenDoor, SkipDoor, SocketFails, Tick, registryVars

\* The duplicate test keeps the entries of the registry distinct.
THEOREM RegistryDistinct == Spec => []Distinct
<1>1. Init => Distinct
  BY DEF Init, Distinct
<1>2. TypeOK /\ Distinct /\ [Next]_vars => Distinct'
  <2> SUFFICES ASSUME TypeOK, Distinct, [Next]_vars PROVE Distinct'
    OBVIOUS
  <2>1. ASSUME NEW d \in Doors, ReceiveDoor(d), d \notin Registered
        PROVE  Distinct'
    <3>1. doors \in Seq(Doors) /\ doors' = Append(doors, d)
      BY <2>1 DEF ReceiveDoor, TypeOK
    <3>2. \A i \in 1..Len(doors) : doors[i] # d
      BY <2>1 DEF Registered
    <3>3. /\ Len(doors') = Len(doors) + 1
          /\ \A i \in 1..Len(doors) : doors'[i] = doors[i]
          /\ doors'[Len(doors) + 1] = d
      BY <3>1, AppendFacts
    <3>4. Len(doors) \in Nat
      BY <3>1
    <3> QED BY <3>2, <3>3, <3>4 DEF Distinct
  <2>2. CASE doors' = doors
    BY <2>2 DEF Distinct
  <2>3. ASSUME NEW d \in Doors, ReceiveDoor(d), d \in Registered
        PROVE  doors' = doors
    BY <2>3 DEF ReceiveDoor, registryVars
  <2>4. OverseerEnds => doors' = doors
    BY DEF OverseerEnds
  <2> QED BY <2>1, <2>2, <2>3, <2>4, RegistryStep
<1> QED BY <1>1, <1>2, TypeCorrect, PTL DEF Spec

\* The registry never outgrows the arrays it is kept in, as long as they have
\* room for every door there is: RegistryInBounds holds of any number of DOOR
\* datagrams (firealarm.c:163-165, 227-239).
THEOREM RegistryBounded == Spec => []RegistryInBounds
<1>1. TypeOK /\ Distinct => RegistryInBounds
  <2> SUFFICES ASSUME TypeOK, Distinct, ~RegistryInBounds PROVE FALSE
    OBVIOUS
  <2>1. /\ Len(doors) \in Nat
        /\ doors \in [1..Len(doors) -> Doors]
    BY DEF TypeOK
  <2>2. /\ IsFiniteSet(1..Len(doors))
        /\ Cardinality(1..Len(doors)) = Len(doors)
    BY <2>1, FS_Interval
  <2>3. Cardinality(Doors) \in Nat
    BY DoorsAssumption, FS_CardinalityType
  <2>4. Cardinality(Doors) < Cardinality(1..Len(doors))
    BY <2>1, <2>2, <2>3, DoorsAssumption DEF RegistryInBounds
  <2>5. \E i, j \in 1..Len(doors) : i # j /\ doors[i] = doors[j]
    BY <2>1, <2>2, <2>4, DoorsAssumption, FS_PigeonHole
  <2> QED BY <2>5 DEF Distinct
<1> QED BY <1>1, TypeCorrect, RegistryDistinct, PTL

\* While the overseer is there it has exactly one confirmation for every
\* registered door, in order, and a lost link never makes up a confirmation
\* (firealarm.c:227-241).
THEOREM ConfirmationsExact == Spec => []ConfirmedOnce
<1>1. Init => ConfirmedOnce
  BY DEF Init, ConfirmedOnce
<1>2. TypeOK /\ ConfirmedOnce /\ [Next]_vars => ConfirmedOnce'
  <2> SUFFICES ASSUME TypeOK, ConfirmedOnce, [Next]_vars PROVE ConfirmedOnce'
    OBVIOUS
  <2>1. ASSUME NEW d \in Doors, ReceiveDoor(d) PROVE ConfirmedOnce'
    <3>1. doors \in Seq(Doors) /\ confirmed \in Seq(Doors)
      BY DEF TypeOK
    <3>2. /\ Len(doors) \in Nat
          /\ Len(confirmed) \in Nat
      BY <3>1
    <3>3. CASE UNCHANGED <<doors, link, confirmed>>
      BY <3>3 DEF ConfirmedOnce
    <3>4. CASE doors' = Append(doors, d) /\ link = "up"
      <4>1. UNCHANGED link /\ confirmed' = Append(confirmed, d)
        BY <2>1, <3>1, <3>4, AppendFacts
           DEF ReceiveDoor, SendConfirmation, registryVars
      <4>2. confirmed' = doors'
        BY <3>4, <4>1 DEF ConfirmedOnce
      <4> QED BY <3>1, <3>2, <3>4, <4>2, AppendFacts DEF ConfirmedOnce
    <3>5. CASE doors' = Append(doors, d) /\ link # "up"
      <4>1. link' # "up" /\ confirmed' = confirmed
        BY <2>1, <3>5 DEF ReceiveDoor, SendConfirmation, registryVars, TypeOK
      <4>2. /\ Len(doors') = Len(doors) + 1
            /\ \A i \in 1..Len(doors) : doors'[i] = doors[i]
        BY <3>1, <3>5, AppendFacts
      <4> QED BY <3>2, <4>1, <4>2 DEF ConfirmedOnce
    <3> QED BY <2>1, <3>3, <3>4, <3>5 DEF ReceiveDoor, registryVars
  <2>2. CASE UNCHANGED <<doors, link, confirmed>>
    BY <2>2 DEF ConfirmedOnce
  <2>3. CASE OverseerEnds
    BY <2>3 DEF OverseerEnds, ConfirmedOnce
  <2> QED BY <2>1, <2>2, <2>3, RegistryStep
<1> QED BY <1>1, <1>2, TypeCorrect, PTL DEF Spec

-----------------------------------------------------------------------------
(* The reaction.                                                            *)

\* What OpenedUnderAlarm rests on: where the unit is says what it has done.
ReactInv ==
  /\ opened # {} => alarm = "A"
  /\ opened \subseteq Registered
  /\ alarm = "A" => cause # {}
  /\ unit = "raise" => cause # {}
  /\ unit = "sweep" => alarm = "A"

\* Every step keeps it.
LEMMA ReactCorrect == Spec => []ReactInv
<1>1. Init => ReactInv
  BY DEF Init, ReactInv
<1>2. TypeOK /\ ReactInv /\ [Next]_vars => ReactInv'
  <2> SUFFICES ASSUME TypeOK, ReactInv, [Next]_vars PROVE ReactInv'
    OBVIOUS
  <2> USE DEF ReactInv, sweepVars, detectionVars, registryVars
  <2>1. CASE ReceiveFire
    BY <2>1 DEF ReceiveFire, Registered
  <2>2. CASE ReceiveHot
    BY <2>2 DEF ReceiveHot, Registered
  <2>3. ASSUME NEW d \in Doors, ReceiveDoor(d) PROVE ReactInv'
    <3>1. Registered \subseteq Registered'
      <4>1. CASE doors' = Append(doors, d)
        BY <4>1, AppendFacts DEF TypeOK, Registered
      <4>2. CASE doors' = doors
        BY <4>2 DEF Registered
      <4> QED BY <2>3, <4>1, <4>2 DEF ReceiveDoor
    <3>2. UNCHANGED <<alarm, cause, opened>> /\ unit = "recv"
      BY <2>3 DEF ReceiveDoor
    <3>3. unit' \in {"recv", "dead"}
      BY <2>3 DEF ReceiveDoor, SendConfirmation
    <3> QED BY <3>1, <3>2, <3>3
  <2>4. CASE RaiseAlarm
    BY <2>4 DEF RaiseAlarm, Registered
  <2>5. ASSUME NEW d \in Doors, OpenDoor(d) PROVE ReactInv'
    <3>1. d \in Registered
      BY <2>5 DEF OpenDoor, AtDoor, Registered, TypeOK
    <3> QED BY <2>5, <3>1 DEF OpenDoor, AtDoor, Registered
  <2>6. ASSUME NEW d \in Doors, SkipDoor(d) \/ SocketFails(d) PROVE ReactInv'
    BY <2>6 DEF SkipDoor, SocketFails, AtDoor, Registered
  <2>7. CASE EndSweep
    BY <2>7 DEF EndSweep, Registered
  <2>8. CASE Tick \/ OverseerEnds
    BY <2>8 DEF Tick, OverseerEnds, Registered
  <2>9. CASE UNCHANGED vars
    BY <2>9 DEF vars, Registered
  <2> QED
    BY <2>1, <2>2, <2>3, <2>4, <2>5, <2>6, <2>7, <2>8, <2>9 DEF Next, React
<1> QED BY <1>1, <1>2, TypeCorrect, PTL DEF Spec

\* No door is told to open before the alarm flag is set, without a reported
\* fire, or without being registered (firealarm.c:179-188, 211-219).
THEOREM OpenedLate == Spec => []OpenedUnderAlarm
<1>1. ReactInv => OpenedUnderAlarm
  BY DEF ReactInv, OpenedUnderAlarm
<1> QED BY <1>1, ReactCorrect, PTL

\* A sweep in progress has tried every door before the one it is at.
SweepInv ==
  unit = "sweep" => /\ next >= 1
                    /\ \A i \in 1..Len(doors) : i < next => doors[i] \in attempted

\* Every step keeps it.
LEMMA SweepCorrect == Spec => []SweepInv
<1>1. Init => SweepInv
  BY DEF Init, SweepInv
<1>2. TypeOK /\ SweepInv /\ [Next]_vars => SweepInv'
  <2> SUFFICES ASSUME TypeOK, SweepInv, [Next]_vars PROVE SweepInv'
    OBVIOUS
  <2> USE DEF SweepInv, sweepVars, detectionVars, registryVars
  <2>1. CASE ReceiveFire \/ ReceiveHot
    BY <2>1 DEF ReceiveFire, ReceiveHot
  <2>2. ASSUME NEW d \in Doors, ReceiveDoor(d) PROVE SweepInv'
    BY <2>2 DEF ReceiveDoor, SendConfirmation
  <2>3. CASE RaiseAlarm
    BY <2>3 DEF RaiseAlarm
  <2>4. ASSUME NEW d \in Doors, OpenDoor(d) \/ SkipDoor(d) PROVE SweepInv'
    <3>1. /\ unit = "sweep"
          /\ d = doors[next]
          /\ doors' = doors
          /\ next' = next + 1
          /\ attempted' = attempted \cup {d}
      BY <2>4 DEF OpenDoor, SkipDoor, AtDoor
    <3>2. next \in Nat /\ Len(doors) \in Nat
      BY DEF TypeOK
    <3>3. ASSUME NEW i \in 1..Len(doors), i < next + 1
          PROVE  doors[i] \in attempted'
      <4>1. CASE i < next
        BY <3>1, <4>1
      <4>2. CASE i = next
        BY <3>1, <4>2
      <4> QED BY <3>2, <3>3, <4>1, <4>2
    <3>4. next' >= 1 /\ Len(doors') = Len(doors)
      BY <3>1, <3>2
    <3> QED BY <3>1, <3>3, <3>4
  <2>5. ASSUME NEW d \in Doors, SocketFails(d) PROVE SweepInv'
    BY <2>5 DEF SocketFails
  <2>6. CASE EndSweep
    BY <2>6 DEF EndSweep
  <2>7. CASE Tick \/ OverseerEnds
    BY <2>7 DEF Tick, OverseerEnds
  <2>8. CASE UNCHANGED vars
    BY <2>8 DEF vars
  <2> QED
    BY <2>1, <2>2, <2>3, <2>4, <2>5, <2>6, <2>7, <2>8 DEF Next, React
<1> QED BY <1>1, <1>2, TypeCorrect, PTL DEF Spec

\* A sweep ends only when every door registered at that moment was tried,
\* whatever failed on the way (firealarm.c:69-79, 186-188, 217-219).
THEOREM SweepComplete == Spec => SweepTriesAll
<1>1. TypeOK /\ SweepInv /\ [Next]_vars
        => (unit = "sweep" /\ unit' = "recv" => Registered \subseteq attempted')
  <2> SUFFICES ASSUME TypeOK, SweepInv, [Next]_vars,
                      unit = "sweep", unit' = "recv"
               PROVE  Registered \subseteq attempted'
    OBVIOUS
  <2>1. EndSweep
    BY DEF Next, React, vars, ReceiveFire, ReceiveHot, ReceiveDoor, RaiseAlarm,
           OpenDoor, SkipDoor, SocketFails, Tick, OverseerEnds
  <2>2. next > Len(doors) /\ attempted' = attempted
    BY <2>1 DEF EndSweep, sweepVars
  <2>3. next \in Nat /\ Len(doors) \in Nat
    BY DEF TypeOK
  <2> QED BY <2>2, <2>3 DEF SweepInv, Registered
<1>2. [](TypeOK /\ SweepInv) /\ [][Next]_vars => SweepTriesAll
  BY <1>1, PTL DEF SweepTriesAll
<1> QED BY <1>2, SweepCorrect, TypeCorrect, PTL DEF Spec

\* A unit that ends for want of a socket leaves the alarm flag set and has tried
\* every door before the one it failed at (firealarm.c:58-62, 181-188).
THEOREM FailedSweep == Spec => FailedSweepLeavesAlarm
<1>1. TypeOK /\ ReactInv /\ SweepInv /\ [Next]_vars
        => (unit = "sweep" /\ unit' = "dead" =>
              /\ alarm' = "A"
              /\ \A i \in 1..(next - 1) : doors[i] \in attempted)
  <2> SUFFICES ASSUME TypeOK, ReactInv, SweepInv, [Next]_vars,
                      unit = "sweep", unit' = "dead"
               PROVE  /\ alarm' = "A"
                      /\ \A i \in 1..(next - 1) : doors[i] \in attempted
    OBVIOUS
  <2>1. PICK d \in Doors : SocketFails(d)
    BY DEF Next, React, vars, ReceiveFire, ReceiveHot, ReceiveDoor, RaiseAlarm,
           OpenDoor, SkipDoor, EndSweep, Tick, OverseerEnds
  <2>2. next <= Len(doors) /\ alarm' = alarm
    BY <2>1 DEF SocketFails, AtDoor
  <2>3. next \in Nat /\ Len(doors) \in Nat
    BY DEF TypeOK
  <2> QED BY <2>2, <2>3 DEF SweepInv, ReactInv
<1>2. [](TypeOK /\ ReactInv /\ SweepInv) /\ [][Next]_vars => FailedSweepLeavesAlarm
  BY <1>1, PTL DEF FailedSweepLeavesAlarm
<1> QED BY <1>2, ReactCorrect, SweepCorrect, TypeCorrect, PTL DEF Spec

-----------------------------------------------------------------------------
(* The detection counter.                                                   *)

\* In the sequence s of times, entries j and j + 1 are close enough to be
\* counted together.
Close(s, j) == s[j + 1] - s[j] <= DetectionPeriod

\* The counter is the length of the latest run of close readings, capped at
\* MinDetections, and before the cap was reached the run began after a silence
\* (or with the first reading).
CountInv ==
  /\ detections <= MinDetections
  /\ detections <= Len(readings)
  /\ \A j \in (Len(readings) - detections + 1)..(Len(readings) - 1) : Close(readings, j)
  /\ detections < MinDetections /\ detections < Len(readings)
       => detections > 0 /\ ~Close(readings, Len(readings) - detections)
  /\ Len(readings) > 0 => lastHot = readings[Len(readings)]

\* A hot reading: what it appends, which pairs of readings it leaves alone and
\* how the new pair compares.
LEMMA HotFacts ==
  ASSUME TypeOK, CountInv, ReceiveHot, NEW n, n = Len(readings)
  PROVE  /\ n \in Nat /\ detections \in Nat /\ now \in Nat /\ lastHot \in Nat
         /\ MinDetections \in Nat /\ DetectionPeriod \in Nat
         /\ lastHot' = now
         /\ Len(readings') = n + 1
         /\ readings'[n + 1] = now
         /\ \A j \in 1..(n - 1) : Close(readings', j) <=> Close(readings, j)
         /\ n > 0 => (Close(readings', n) <=> now - lastHot <= DetectionPeriod)
<1>1. /\ n \in Nat /\ detections \in Nat /\ now \in Nat /\ lastHot \in Nat
      /\ readings \in Seq(Nat)
      /\ MinDetections \in Nat /\ DetectionPeriod \in Nat
  BY DetectionAssumption DEF TypeOK
<1>2. /\ readings' = Append(readings, now)
      /\ lastHot' = now
  BY DEF ReceiveHot
<1>3. /\ Len(readings') = n + 1
      /\ \A i \in 1..n : readings'[i] = readings[i]
      /\ readings'[n + 1] = now
  BY <1>1, <1>2, AppendFacts
<1>4. \A j \in 1..(n - 1) : Close(readings', j) <=> Close(readings, j)
  BY <1>1, <1>3 DEF Close
<1>5. n > 0 => (Close(readings', n) <=> now - lastHot <= DetectionPeriod)
  BY <1>1, <1>3 DEF Close, CountInv
<1> QED BY <1>1, <1>2, <1>3, <1>4, <1>5

\* The counter keeps its meaning when a hot reading is counted.
LEMMA CountStep ==
  ASSUME TypeOK, CountInv, ReceiveHot
  PROVE  CountInv'
<1> DEFINE n == Len(readings)
<1>1. /\ n \in Nat /\ detections \in Nat /\ now \in Nat /\ lastHot \in Nat
      /\ MinDetections \in Nat /\ DetectionPeriod \in Nat
  BY HotFacts
<1>2. lastHot' = now
  BY HotFacts
<1>3. Len(readings') = n + 1 /\ readings'[n + 1] = now
  BY HotFacts
<1>4. \A j \in 1..(n - 1) : Close(readings', j) <=> Close(readings, j)
  BY HotFacts
<1>5. n > 0 => (Close(readings', n) <=> now - lastHot <= DetectionPeriod)
  BY HotFacts
<1>6. CurrentCount \in Nat /\ CurrentCount <= MinDetections
  BY <1>1 DEF CurrentCount, CountInv
<1>7. detections' = IF CurrentCount < MinDetections THEN CurrentCount + 1
                                                     ELSE CurrentCount
  BY <1>6, <1>1 DEF ReceiveHot
<1>8. CASE now - lastHot > DetectionPeriod
  <2>1. CurrentCount = 0
    BY <1>8 DEF CurrentCount
  <2>2. CASE MinDetections = 0
    <3>1. detections' = 0
      BY <1>7, <2>1, <2>2
    <3> QED BY <1>1, <1>2, <1>3, <2>2, <3>1 DEF CountInv
  <2>3. CASE MinDetections > 0
    <3>1. detections' = 1
      BY <1>1, <1>7, <2>1, <2>3
    <3>2. n > 0 => ~Close(readings', n)
      BY <1>1, <1>5, <1>8
    <3> QED BY <1>1, <1>2, <1>3, <2>3, <3>1, <3>2 DEF CountInv
  <2> QED BY <1>1, <2>2, <2>3
<1>9. CASE now - lastHot <= DetectionPeriod
  <2>1. CurrentCount = detections
    BY <1>1, <1>9 DEF CurrentCount
  <2>2. \A j \in (n - detections + 1)..n : j > 0 => Close(readings', j)
    BY <1>1, <1>4, <1>5, <1>9 DEF CountInv
  <2>3. CASE detections < MinDetections
    <3>1. detections' = detections + 1
      BY <1>7, <2>1, <2>3
    <3>2. \A j \in (n - detections + 1)..n : Close(readings', j)
      BY <1>1, <2>2 DEF CountInv
    <3>3. detections < n => detections > 0 /\ ~Close(readings', n - detections)
      BY <1>1, <1>4, <2>3 DEF CountInv
    <3> QED BY <1>1, <1>2, <1>3, <2>3, <3>1, <3>2, <3>3 DEF CountInv
  <2>4. CASE detections = MinDetections
    <3>1. detections' = detections
      BY <1>1, <1>7, <2>1, <2>4
    <3>2. \A j \in (n - detections + 2)..n : Close(readings', j)
      BY <1>1, <2>2 DEF CountInv
    <3> QED BY <1>1, <1>2, <1>3, <2>4, <3>1, <3>2 DEF CountInv
  <2> QED BY <1>1, <2>3, <2>4 DEF CountInv
<1> QED BY <1>1, <1>8, <1>9

\* A hot reading completes a burst of MinDetections + 1 exactly when the counter
\* has reached MinDetections.
LEMMA BurstStep ==
  ASSUME TypeOK, CountInv, ReceiveHot
  PROVE  HasBurst(MinDetections + 1)'
           <=> HasBurst(MinDetections + 1) \/ CurrentCount >= MinDetections
<1> DEFINE n == Len(readings)
           M == MinDetections
<1>1. /\ n \in Nat /\ detections \in Nat /\ now \in Nat /\ lastHot \in Nat
      /\ M \in Nat /\ DetectionPeriod \in Nat
  BY HotFacts
<1>2. Len(readings') = n + 1
  BY HotFacts
<1>3. \A j \in 1..(n - 1) : Close(readings', j) <=> Close(readings, j)
  BY HotFacts
<1>4. n > 0 => (Close(readings', n) <=> now - lastHot <= DetectionPeriod)
  BY HotFacts
<1>5. HasBurst(M + 1)
        <=> \E i \in 1..(n - M) : \A j \in i..(i + M - 1) : Close(readings, j)
  BY <1>1 DEF HasBurst, Close
<1>6. HasBurst(M + 1)'
        <=> \E i \in 1..(n + 1 - M) : \A j \in i..(i + M - 1) : Close(readings', j)
  BY <1>1, <1>2 DEF HasBurst, Close
<1>7. ASSUME HasBurst(M + 1) PROVE HasBurst(M + 1)'
  <2>1. PICK i \in 1..(n - M) : \A j \in i..(i + M - 1) : Close(readings, j)
    BY <1>5, <1>7
  <2>2. \A j \in i..(i + M - 1) : Close(readings', j)
    BY <1>1, <1>3, <2>1
  <2>3. i \in 1..(n + 1 - M)
    BY <1>1
  <2> QED BY <1>6, <2>2, <2>3
<1>8. ASSUME CurrentCount >= M PROVE HasBurst(M + 1)'
  <2>1. CASE M = 0
    <3>1. /\ n + 1 \in 1..(n + 1 - M)
          /\ \A j \in (n + 1)..(n + 1 + M - 1) : Close(readings', j)
      BY <1>1, <2>1
    <3> QED BY <1>6, <3>1
  <2>2. CASE M > 0
    <3>1. now - lastHot <= DetectionPeriod /\ detections = M
      BY <1>1, <1>8, <2>2 DEF CurrentCount, CountInv
    <3>2. n >= M /\ \A j \in (n - M + 1)..(n - 1) : Close(readings, j)
      BY <1>1, <3>1 DEF CountInv
    <3>3. \A j \in (n + 1 - M)..n : Close(readings', j)
      BY <1>1, <1>3, <1>4, <2>2, <3>1, <3>2
    <3>4. /\ n + 1 - M \in 1..(n + 1 - M)
          /\ \A j \in (n + 1 - M)..(n + 1 - M + M - 1) : Close(readings', j)
      BY <1>1, <3>2, <3>3
    <3> QED BY <1>6, <3>4
  <2> QED BY <1>1, <2>1, <2>2
<1>9. ASSUME HasBurst(M + 1)', CurrentCount < M PROVE HasBurst(M + 1)
  <2>1. PICK i \in 1..(n + 1 - M) : \A j \in i..(i + M - 1) : Close(readings', j)
    BY <1>6, <1>9
  <2>2. i # n + 1 - M
    <3> SUFFICES ASSUME i = n + 1 - M PROVE FALSE
      OBVIOUS
    <3>1. n >= M /\ \A j \in (n + 1 - M)..n : Close(readings', j)
      BY <1>1, <2>1
    <3>2. CASE now - lastHot > DetectionPeriod
      <4>1. M > 0 /\ n > 0
        BY <1>1, <1>9, <3>1, <3>2 DEF CurrentCount
      <4> QED BY <1>1, <1>4, <3>1, <3>2, <4>1
    <3>3. CASE now - lastHot <= DetectionPeriod
      <4>1. detections < M
        BY <1>1, <1>9, <3>3 DEF CurrentCount
      <4>2. detections > 0 /\ ~Close(readings, n - detections)
        BY <1>1, <3>1, <4>1 DEF CountInv
      <4>3. n - detections \in 1..(n - 1) /\ n - detections \in (n + 1 - M)..n
        BY <1>1, <3>1, <4>1, <4>2
      <4> QED BY <1>3, <3>1, <4>2, <4>3
    <3> QED BY <1>1, <3>2, <3>3
  <2>3. i \in 1..(n - M)
    BY <1>1, <2>2
  <2>4. \A j \in i..(i + M - 1) : Close(readings, j)
    BY <1>1, <1>3, <2>1, <2>3
  <2> QED BY <1>5, <2>3, <2>4
<1>10. CurrentCount \in Nat
  BY <1>1 DEF CurrentCount
<1> QED BY <1>1, <1>7, <1>8, <1>9, <1>10

\* No other step touches the counter, the readings or the cause "TEMP".
LEMMA NotHotStep ==
  ASSUME [Next]_vars, ~ReceiveHot
  PROVE  /\ UNCHANGED <<detections, lastHot, readings>>
         /\ "TEMP" \in cause' <=> "TEMP" \in cause
<1> USE DEF detectionVars
<1>1. CASE ReceiveFire
  BY <1>1 DEF ReceiveFire
<1>2. ASSUME NEW d \in Doors, ReceiveDoor(d)
      PROVE  UNCHANGED <<detections, lastHot, readings, cause>>
  BY <1>2 DEF ReceiveDoor
<1>3. CASE React
  BY <1>3 DEF React, RaiseAlarm, EndSweep, OpenDoor, SkipDoor, SocketFails
<1>4. CASE Tick \/ OverseerEnds
  BY <1>4 DEF Tick, OverseerEnds
<1>5. CASE UNCHANGED vars
  BY <1>5 DEF vars
<1> QED BY <1>1, <1>2, <1>3, <1>4, <1>5 DEF Next

\* Temperature raises the alarm exactly when MinDetections + 1 hot readings
\* follow each other closely enough (firealarm.c:199-213), for every
\* threshold, every period and every sequence of readings.
THEOREM TempAlarmExact == Spec => []TempAlarmIffBurst
<1>1. Init => CountInv /\ TempAlarmIffBurst
  <2> SUFFICES ASSUME Init PROVE CountInv /\ TempAlarmIffBurst
    OBVIOUS
  <2>1. readings = <<>> /\ detections = 0 /\ cause = {} /\ Len(readings) = 0
    BY DEF Init
  <2>2. ~HasBurst(MinDetections + 1)
    BY <2>1, DetectionAssumption DEF HasBurst
  <2> QED BY <2>1, <2>2, DetectionAssumption DEF CountInv, TempAlarmIffBurst
<1>2. TypeOK /\ CountInv /\ TempAlarmIffBurst /\ [Next]_vars
        => CountInv' /\ TempAlarmIffBurst'
  <2> SUFFICES ASSUME TypeOK, CountInv, TempAlarmIffBurst, [Next]_vars
               PROVE  CountInv' /\ TempAlarmIffBurst'
    OBVIOUS
  <2>1. CASE ReceiveHot
    <3>1. "TEMP" \in cause'
            <=> "TEMP" \in cause \/ CurrentCount >= MinDetections
      <4>1. CurrentCount \in Nat /\ MinDetections \in Nat
        BY DetectionAssumption DEF CurrentCount, TypeOK
      <4> QED BY <2>1, <4>1 DEF ReceiveHot
    <3>2. TempAlarmIffBurst'
      BY <2>1, <3>1, BurstStep DEF TempAlarmIffBurst
    <3> QED BY <2>1, <3>2, CountStep
  <2>2. CASE ~ReceiveHot
    <3>1. /\ UNCHANGED <<detections, lastHot, readings>>
          /\ "TEMP" \in cause' <=> "TEMP" \in cause
      BY <2>2, NotHotStep
    <3> QED BY <3>1 DEF CountInv, TempAlarmIffBurst, HasBurst, Close
  <2> QED BY <2>1, <2>2
<1> QED BY <1>1, <1>2, TypeCorrect, PTL DEF Spec
=============================================================================
