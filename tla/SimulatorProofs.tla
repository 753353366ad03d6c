---------------------------- MODULE SimulatorProofs ----------------------------
(***************************************************************************)
(* Theorems about the simulator, for all record sizes, all lengths of the   *)
(* areas and all INIT sections of at most MaxLines lines: what holds of the *)
(* records and ports it hands out, also when a kind has more lines than its *)
(* area has records, and what its clean-up leaves behind.                   *)
(***************************************************************************)
EXTENDS Simulator, FiniteSetTheorems, TLAPS

-----------------------------------------------------------------------------
(* The layout.                                                              *)

\* Products of naturals: monotone in the first factor.
LEMMA ProductFacts ==
  ASSUME NEW s \in Nat, NEW m \in Nat, NEW n \in Nat, n < m
  PROVE  n * s \in Nat /\ n * s + s <= m * s
<1>1. PICK d \in Nat : m = n + 1 + d
  <2>1. m - n - 1 \in Nat /\ m = n + 1 + (m - n - 1)
    OBVIOUS
  <2> QED BY <2>1
<1>2. d * s \in Nat /\ n * s \in Nat
  OBVIOUS
<1>3. m * s = n * s + s + d * s
  BY <1>1
<1> QED BY <1>2, <1>3

\* Every area has a size.
LEMMA AreaFacts == \A k \in Kinds : Area(k) \in Nat
<1> SUFFICES ASSUME NEW k \in Kinds PROVE Area(k) \in Nat
  OBVIOUS
<1>1. Slots[k] \in Nat /\ Size[k] \in Nat
  BY LayoutAssumption
<1> QED BY <1>1 DEF Area

\* The areas follow one another inside the object.
LEMMA AreasApart ==
  /\ \A k \in Kinds : Base(k) \in Nat /\ Base(k) + Area(k) <= Total
  /\ \A j, k \in Kinds :
       j # k => Base(j) + Area(j) <= Base(k) \/ Base(k) + Area(k) <= Base(j)
<1>1. \A k \in {"overseer", "firealarm", "cardreader", "door", "callpoint",
                "tempsensor", "elevator", "destselect"} : Area(k) \in Nat
  BY AreaFacts DEF Kinds
<1>2. CameraBytes \in Nat
  BY LayoutAssumption
<1> HIDE DEF Area
<1> USE DEF Kinds, FirealarmBase, CardreaderBase, DoorBase, CallpointBase,
            TempsensorBase, ElevatorBase, DestselectBase
<1>3. /\ Base("overseer") = 0
      /\ Base("firealarm") = Area("overseer")
      /\ Base("cardreader") = Base("firealarm") + Area("firealarm")
      /\ Base("door") = Base("cardreader") + Area("cardreader")
      /\ Base("callpoint") = Base("door") + Area("door")
      /\ Base("tempsensor") = Base("callpoint") + Area("callpoint")
      /\ Base("elevator") = Base("tempsensor") + Area("tempsensor")
      /\ Base("destselect") = Base("elevator") + Area("elevator")
      /\ Total = Base("destselect") + Area("destselect") + CameraBytes
  BY DEF Base, Total
<1> HIDE DEF FirealarmBase, CardreaderBase, DoorBase, CallpointBase,
             TempsensorBase, ElevatorBase, DestselectBase
<1>4. \A k \in Kinds : Base(k) \in Nat /\ Base(k) + Area(k) <= Total
  BY <1>1, <1>2, <1>3
<1>5. \A j, k \in Kinds :
        j # k => Base(j) + Area(j) <= Base(k) \/ Base(k) + Area(k) <= Base(j)
  BY <1>1, <1>2, <1>3
<1> QED BY <1>4, <1>5

\* The object has a size.
LEMMA TotalNat == Total \in Nat
<1>1. Base("destselect") \in Nat /\ Base("destselect") = DestselectBase
  BY AreasApart DEF Kinds, Base
<1>2. Area("destselect") \in Nat /\ CameraBytes \in Nat
  BY AreaFacts, LayoutAssumption DEF Kinds
<1> QED BY <1>1, <1>2 DEF Total

\* A record of a slot that exists lies in the area of its kind.
LEMMA RecordInArea ==
  ASSUME NEW k \in Kinds, NEW n \in Nat, n < Slots[k]
  PROVE  /\ Offset(k, n) \in Nat
         /\ Offset(k, n) = Base(k) + n * Size[k]
         /\ Base(k) <= Offset(k, n)
         /\ Offset(k, n) + Size[k] <= Base(k) + Area(k)
<1>1. Size[k] \in Nat /\ Slots[k] \in Nat /\ Slots["overseer"] = 1
  BY LayoutAssumption
<1>2. n * Size[k] \in Nat /\ n * Size[k] + Size[k] <= Slots[k] * Size[k]
  BY <1>1, ProductFacts
<1>3. Offset(k, n) = Base(k) + n * Size[k]
  <2>1. CASE k = "overseer"
    <3>1. n = 0
      BY <1>1, <2>1
    <3>2. Base(k) = 0 /\ n * Size[k] = 0
      BY <1>1, <2>1, <3>1 DEF Base
    <3> QED BY <2>1, <3>2 DEF Offset
  <2>2. CASE k # "overseer"
    BY <2>2 DEF Offset
  <2> QED BY <2>1, <2>2
<1>4. Base(k) \in Nat
  BY AreasApart
<1> QED BY <1>1, <1>2, <1>3, <1>4 DEF Area

\* Two slots never share a byte, whatever the sizes are.
LEMMA SlotsApart ==
  ASSUME NEW j \in Kinds, NEW m \in Nat, m < Slots[j],
         NEW k \in Kinds, NEW n \in Nat, n < Slots[k],
         j # k \/ m # n
  PROVE  Offset(j, m) + Size[j] <= Offset(k, n) \/ Offset(k, n) + Size[k] <= Offset(j, m)
<1>0. Size[j] \in Nat /\ Size[k] \in Nat
  BY LayoutAssumption
<1>1. CASE j # k
  <2>1. Base(j) \in Nat /\ Base(k) \in Nat /\ Area(j) \in Nat /\ Area(k) \in Nat
    BY AreasApart, AreaFacts
  <2>2. Base(j) + Area(j) <= Base(k) \/ Base(k) + Area(k) <= Base(j)
    BY <1>1, AreasApart
  <2>3. /\ Offset(j, m) \in Nat /\ Base(j) <= Offset(j, m)
        /\ Offset(j, m) + Size[j] <= Base(j) + Area(j)
    BY RecordInArea
  <2>4. /\ Offset(k, n) \in Nat /\ Base(k) <= Offset(k, n)
        /\ Offset(k, n) + Size[k] <= Base(k) + Area(k)
    BY RecordInArea
  <2> QED BY <1>0, <2>1, <2>2, <2>3, <2>4
<1>2. CASE j = k /\ m < n
  <2>1. m * Size[k] \in Nat /\ m * Size[k] + Size[k] <= n * Size[k]
    BY <1>0, <1>2, ProductFacts
  <2>2. Offset(j, m) = Base(k) + m * Size[k] /\ Offset(k, n) = Base(k) + n * Size[k]
    BY <1>2, RecordInArea
  <2>3. Base(k) \in Nat /\ n * Size[k] \in Nat
    BY <1>0, AreasApart
  <2> QED BY <1>0, <1>2, <2>1, <2>2, <2>3
<1>3. CASE j = k /\ n < m
  <2>1. n * Size[k] \in Nat /\ n * Size[k] + Size[k] <= m * Size[k]
    BY <1>0, <1>3, ProductFacts
  <2>2. Offset(j, m) = Base(k) + m * Size[k] /\ Offset(k, n) = Base(k) + n * Size[k]
    BY <1>3, RecordInArea
  <2>3. Base(k) \in Nat /\ m * Size[k] \in Nat
    BY <1>0, AreasApart
  <2> QED BY <1>0, <1>3, <2>1, <2>2, <2>3
<1> QED BY <1>1, <1>2, <1>3

\* Every offset handed out is one, and the record there ends inside the object as long
\* as there are no more lines than the array of the simulator takes.
LEMMA OffsetInside ==
  ASSUME NEW k \in Kinds, NEW n \in Nat
  PROVE  /\ Offset(k, n) \in Nat
         /\ n < MaxLines => Offset(k, n) + Size[k] <= Total
<1>1. /\ Size[k] \in Nat /\ Base(k) \in Nat /\ Total \in Nat /\ MaxLines \in Nat
      /\ Base(k) + MaxLines * Size[k] <= Total
  BY AreasApart, TotalNat, LayoutAssumption, SimulatorAssumption
<1>2. n * Size[k] \in Nat /\ MaxLines * Size[k] \in Nat
  BY <1>1
<1>3. n < MaxLines => n * Size[k] + Size[k] <= MaxLines * Size[k]
  BY <1>1, ProductFacts
<1>4. CASE k = "overseer"
  <2>1. Offset(k, n) = 0
    BY <1>4 DEF Offset
  <2>2. n < MaxLines => Size[k] <= MaxLines * Size[k]
    BY <1>1, <1>2, <1>3
  <2> QED BY <1>1, <1>2, <2>1, <2>2
<1>5. CASE k # "overseer"
  <2>1. Offset(k, n) = Base(k) + n * Size[k]
    BY <1>5 DEF Offset
  <2> QED BY <1>1, <1>2, <1>3, <2>1
<1> QED BY <1>4, <1>5

-----------------------------------------------------------------------------
(* The inductive invariant: what has been prepared is where its kind and    *)
(* the counter put it.                                                      *)

RecordsInv ==
  /\ count \in [Kinds -> Nat]
  /\ records \subseteq {Record(k, n) : k \in Kinds, n \in Nat}

\* What is prepared and counted, by action.
LEMMA PrepareStep ==
  ASSUME RecordsInv, NEW k \in Known, Prepare(k)
  PROVE  RecordsInv'
<1>1. k \in Kinds /\ count[k] \in Nat
  BY DEF Prepare, Started, RecordsInv
<1>2. records' = records \cup {Record(k, count[k])} /\ count' = count
  BY DEF Prepare
<1>3. Record(k, count[k]) \in {Record(j, n) : j \in Kinds, n \in Nat}
  BY <1>1
<1> QED BY <1>1, <1>2, <1>3 DEF RecordsInv

\* Only Prepare adds a record.
LEMMA OtherStep ==
  ASSUME RecordsInv, phase = "prepared" => line \in Kinds, [Next]_vars,
         \A k \in Known : ~Prepare(k)
  PROVE  records' = records /\ count' \in [Kinds -> Nat]
<1> USE DEF simVars
<1>1. CASE Spawn
  <2>1. line \in Kinds
    BY <1>1 DEF Spawn
  <2> QED BY <1>1, <2>1 DEF Spawn, RecordsInv
<1>2. CASE Setup \/ Play \/ ForkFails \/ BeginCleanup \/ EndDestroy \/ Terminate \/ Unlink
  BY <1>2 DEF Setup, Play, ForkFails, BeginCleanup, EndDestroy, Terminate, Unlink, RecordsInv
<1>3. ASSUME NEW k \in Known, Skip(k) PROVE records' = records /\ count' = count
  BY <1>3 DEF Skip
<1>4. ASSUME NEW k \in Kinds, Destroy(k) PROVE records' = records /\ count' = count
  BY <1>4 DEF Destroy
<1>5. ASSUME NEW i \in DOMAIN procs, Process(i) PROVE records' = records /\ count' = count
  BY <1>5 DEF Process, Exec, MapFails, Attach, Wait, Wake, Exit, Die
<1>6. CASE UNCHANGED vars
  BY <1>6 DEF vars, RecordsInv
<1> QED
  BY <1>1, <1>2, <1>3, <1>4, <1>5, <1>6 DEF Next, Launching, Cleaning, RecordsInv

\* Only Prepare starts the work on a line.
LEMMA PhaseStep ==
  ASSUME [Next]_vars, \A k \in Known : ~Prepare(k), phase' = "prepared"
  PROVE  phase = "prepared" /\ line' = line
<1> USE DEF simVars
<1>1. CASE Setup \/ Spawn \/ Play \/ ForkFails \/ BeginCleanup \/ EndDestroy
  BY <1>1 DEF Setup, Spawn, Play, ForkFails, BeginCleanup, EndDestroy
<1>2. CASE Terminate \/ Unlink
  BY <1>2 DEF Terminate, Unlink
<1>3. ASSUME NEW k \in Known, Skip(k) PROVE phase' = phase /\ line' = line
  BY <1>3 DEF Skip
<1>4. ASSUME NEW k \in Kinds, Destroy(k) PROVE phase = phase' /\ line' = line
  BY <1>4 DEF Destroy
<1>5. ASSUME NEW i \in DOMAIN procs, Process(i) PROVE phase' = phase /\ line' = line
  BY <1>5 DEF Process, Exec, MapFails, Attach, Wait, Wake, Exit, Die
<1>6. CASE UNCHANGED vars
  BY <1>6 DEF vars
<1> QED
  BY <1>1, <1>2, <1>3, <1>4, <1>5, <1>6 DEF Next, Launching, Cleaning

-----------------------------------------------------------------------------
(* Records.                                                                 *)

RecordsPart == RecordsInv /\ (phase = "prepared" => line \in Kinds)

\* Every step keeps the records where their slots say and their slots counted.
LEMMA RecordsPartStep ==
  ASSUME RecordsPart, [Next]_vars
  PROVE  RecordsPart'
<1> USE DEF RecordsPart
<1>1. ASSUME NEW k \in Known, Prepare(k) PROVE RecordsPart'
  <2>1. RecordsInv'
    BY <1>1, PrepareStep
  <2>2. line' \in Kinds
    BY <1>1 DEF Prepare, Started
  <2> QED BY <2>1, <2>2
<1>2. CASE \A k \in Known : ~Prepare(k)
  <2>1. records' = records /\ count' \in [Kinds -> Nat]
    BY <1>2, OtherStep
  <2>2. RecordsInv'
    BY <2>1 DEF RecordsInv
  <2>3. phase' = "prepared" => phase = "prepared" /\ line' = line
    BY <1>2, PhaseStep
  <2> QED BY <2>2, <2>3
<1> QED BY <1>1, <1>2

\* So the prepared records are where their slots say, in every reachable state.
LEMMA RecordsPartCorrect == SafeSpec => []RecordsPart
<1>1. Init => RecordsPart
  BY DEF Init, RecordsPart, RecordsInv
<1>2. RecordsPart /\ [Next]_vars => RecordsPart'
  BY RecordsPartStep
<1> QED BY <1>1, <1>2, PTL DEF SafeSpec

-----------------------------------------------------------------------------
(* Processes.  The line at work has its record, and no action but Spawn adds *)
(* a process or changes what a process was told.                             *)

\* What a process was told when it was forked.
Told(p) == <<p.kind, p.offset, p.port>>

ProcRecord == [kind : Kinds, offset : Int, port : Int, at : Int, state : ProcStates]

LaunchPart ==
  /\ procs \in Seq(ProcRecord)
  /\ phase = "prepared" => Record(line, count[line]) \in records
  /\ InitialisedFirst

\* A step of one process.
LEMMA ProcessKeeps ==
  ASSUME LaunchPart, NEW i \in DOMAIN procs, Process(i)
  PROVE  /\ procs' \in Seq(ProcRecord)
         /\ DOMAIN procs' = DOMAIN procs
         /\ \A j \in DOMAIN procs : Told(procs'[j]) = Told(procs[j])
         /\ UNCHANGED <<simVars, records>>
<1>1. procs \in Seq(ProcRecord) /\ procs[i] \in ProcRecord
  <2>1. procs \in Seq(ProcRecord)
    BY DEF LaunchPart
  <2> QED BY <2>1
<1>2. \A x \in ProcRecord : [procs EXCEPT ![i] = x] \in Seq(ProcRecord)
  BY <1>1
<1>3. UNCHANGED <<simVars, records>>
  BY DEF Process, Exec, MapFails, Attach, Wait, Wake, Exit, Die
<1>4. PICK x \in ProcRecord : procs' = [procs EXCEPT ![i] = x] /\ Told(x) = Told(procs[i])
  <2>1. ASSUME NEW st \in ProcStates, Become(i, st)
        PROVE  \E x \in ProcRecord : procs' = [procs EXCEPT ![i] = x] /\ Told(x) = Told(procs[i])
    <3>1. [procs[i] EXCEPT !.state = st] \in ProcRecord
      BY <1>1, <2>1 DEF ProcRecord
    <3>2. procs' = [procs EXCEPT ![i] = [procs[i] EXCEPT !.state = st]]
      BY <1>1, <2>1 DEF Become
    <3>3. Told([procs[i] EXCEPT !.state = st]) = Told(procs[i])
      BY <1>1 DEF Told, ProcRecord
    <3> QED BY <3>1, <3>2, <3>3
  <2>2. ASSUME Attach(i)
        PROVE  \E x \in ProcRecord : procs' = [procs EXCEPT ![i] = x] /\ Told(x) = Told(procs[i])
    <3> DEFINE y == [procs[i] EXCEPT !.state = "working", !.at = WorksAt(procs[i])]
    <3>1. WorksAt(procs[i]) \in Int
      BY <1>1 DEF WorksAt, OpensMemory, ProcRecord
    <3>2. y \in ProcRecord
      BY <1>1, <3>1 DEF ProcStates, ProcRecord
    <3>3. procs' = [procs EXCEPT ![i] = y]
      BY <1>1, <2>2 DEF Attach
    <3>4. Told(y) = Told(procs[i])
      BY <1>1 DEF Told, ProcRecord
    <3> HIDE DEF y
    <3> QED BY <3>2, <3>3, <3>4
  <2>3. CASE Attach(i)
    BY <2>2, <2>3
  <2>4. CASE Exec(i) \/ MapFails(i) \/ Wait(i) \/ Wake(i) \/ Exit(i) \/ Die(i)
    <3>1. Become(i, "started") \/ Become(i, "exited") \/ Become(i, "waiting")
            \/ Become(i, "working") \/ Become(i, "killed")
      BY <2>4 DEF Exec, MapFails, Wait, Wake, Exit, Die
    <3> QED BY <2>1, <3>1 DEF ProcStates
  <2> QED BY <2>3, <2>4 DEF Process
<1>5. procs' \in Seq(ProcRecord)
  BY <1>2, <1>4
<1>6. DOMAIN procs' = DOMAIN procs
  BY <1>1, <1>4
<1>7. \A j \in DOMAIN procs : Told(procs'[j]) = Told(procs[j])
  BY <1>1, <1>4
<1> QED BY <1>3, <1>5, <1>6, <1>7

\* A step that keeps the processes' instructions and loses no record.
LEMMA KeptInstructions ==
  ASSUME InitialisedFirst, records \subseteq records',
         DOMAIN procs' = DOMAIN procs,
         \A j \in DOMAIN procs : Told(procs'[j]) = Told(procs[j])
  PROVE  InitialisedFirst'
<1> SUFFICES ASSUME NEW j \in DOMAIN procs'
             PROVE  \E r \in records' : r.kind = procs'[j].kind /\ r.at = procs'[j].offset
  BY DEF InitialisedFirst
<1>1. procs'[j].kind = procs[j].kind /\ procs'[j].offset = procs[j].offset
  BY DEF Told
<1>2. PICK r \in records : r.kind = procs[j].kind /\ r.at = procs[j].offset
  BY DEF InitialisedFirst
<1> QED BY <1>1, <1>2

\* Every port is a number.
LEMMA PortIsInt ==
  ASSUME NEW k \in Kinds, NEW n \in Nat
  PROVE  Port(k, n) \in Int
<1>1. CASE ~HasPort(k)
  BY <1>1 DEF Port, NoPort
<1>2. CASE HasPort(k)
  <2>1. PortOffset(k) \in Nat
    BY <1>2 DEF HasPort, PortOffset
  <2>2. Port(k, n) = BasePort + PortOffset(k) + IF k = "overseer" THEN 0 ELSE n
    BY <1>2 DEF Port
  <2> QED BY <2>1, <2>2 DEF BasePort
<1> QED BY <1>1, <1>2

\* The fork: the process is told the record prepared for its line.
LEMMA SpawnStep ==
  ASSUME RecordsPart, LaunchPart, Spawn
  PROVE  procs' \in Seq(ProcRecord) /\ InitialisedFirst'
<1> DEFINE new == Forked(line, count[line])
<1>1. line \in Kinds /\ count[line] \in Nat /\ Record(line, count[line]) \in records
  BY DEF RecordsPart, RecordsInv, LaunchPart, Spawn
<1>3. Offset(line, count[line]) \in Int /\ Port(line, count[line]) \in Int
  BY <1>1, OffsetInside, PortIsInt
<1>4. new \in ProcRecord
  BY <1>1, <1>3 DEF Forked, ProcRecord, ProcStates
<1>5. procs \in Seq(ProcRecord) /\ InitialisedFirst
  BY DEF LaunchPart
<1>6. procs' = Append(procs, new) /\ records' = records
  BY DEF Spawn
<1> HIDE DEF new
<1>7. /\ Append(procs, new) \in Seq(ProcRecord)
      /\ DOMAIN Append(procs, new) = 1..(Len(procs) + 1)
      /\ \A j \in 1..Len(procs) : Append(procs, new)[j] = procs[j]
      /\ Append(procs, new)[Len(procs) + 1] = new
      /\ DOMAIN procs = 1..Len(procs) /\ Len(procs) \in Nat
  BY <1>4, <1>5
<1>8. ASSUME NEW j \in DOMAIN procs'
      PROVE  \E r \in records' : r.kind = procs'[j].kind /\ r.at = procs'[j].offset
  <2>1. j \in 1..Len(procs) \/ j = Len(procs) + 1
    BY <1>6, <1>7
  <2>2. CASE j \in 1..Len(procs)
    <3>1. procs'[j] = procs[j] /\ j \in DOMAIN procs
      BY <1>6, <1>7, <2>2
    <3> QED BY <1>5, <1>6, <3>1 DEF InitialisedFirst
  <2>3. CASE j = Len(procs) + 1
    <3>1. procs'[j] = new
      BY <1>6, <1>7, <2>3
    <3>2. new.kind = line /\ new.offset = Offset(line, count[line])
      BY DEF new, Forked
    <3>3. /\ Record(line, count[line]).kind = line
          /\ Record(line, count[line]).at = Offset(line, count[line])
      BY DEF Record
    <3> QED BY <1>1, <1>6, <3>1, <3>2, <3>3
  <2> QED BY <2>1, <2>2, <2>3
<1> QED BY <1>6, <1>7, <1>8 DEF InitialisedFirst

\* Every other step keeps what the processes were told.
LEMMA OtherKeeps ==
  ASSUME LaunchPart, [Next]_vars, ~Spawn
  PROVE  /\ procs' \in Seq(ProcRecord)
         /\ DOMAIN procs' = DOMAIN procs
         /\ \A j \in DOMAIN procs : Told(procs'[j]) = Told(procs[j])
         /\ records \subseteq records'
<1> USE DEF simVars
<1>0. procs \in Seq(ProcRecord)
  BY DEF LaunchPart
<1>1. CASE UNCHANGED procs /\ records \subseteq records'
  BY <1>0, <1>1
<1>2. CASE Setup \/ Play \/ ForkFails \/ BeginCleanup \/ EndDestroy \/ Terminate \/ Unlink
  BY <1>1, <1>2 DEF Setup, Play, ForkFails, BeginCleanup, EndDestroy, Terminate, Unlink
<1>3. ASSUME NEW k \in Known, Prepare(k) \/ Skip(k)
      PROVE  UNCHANGED procs /\ records \subseteq records'
  BY <1>3 DEF Prepare, Skip
<1>4. ASSUME NEW k \in Kinds, Destroy(k)
      PROVE  UNCHANGED procs /\ records \subseteq records'
  BY <1>4 DEF Destroy
<1>6. CASE \E i \in DOMAIN procs : Process(i)
  BY <1>6, ProcessKeeps
<1>7. CASE UNCHANGED vars
  BY <1>1, <1>7 DEF vars
<1> QED
  BY <1>1, <1>2, <1>3, <1>4, <1>6, <1>7 DEF Next, Launching, Cleaning

\* Only Spawn counts, and only Spawn notes a process number.
LEMMA CountKept ==
  ASSUME [Next]_vars, ~Spawn
  PROVE  count' = count /\ pids' = pids
<1> USE DEF simVars
<1>1. CASE Setup \/ Play \/ ForkFails \/ BeginCleanup \/ EndDestroy \/ Terminate \/ Unlink
  BY <1>1 DEF Setup, Play, ForkFails, BeginCleanup, EndDestroy, Terminate, Unlink
<1>2. ASSUME NEW k \in Known, Prepare(k) \/ Skip(k) PROVE count' = count /\ pids' = pids
  BY <1>2 DEF Prepare, Skip
<1>3. ASSUME NEW k \in Kinds, Destroy(k) PROVE count' = count /\ pids' = pids
  BY <1>3 DEF Destroy
<1>4. ASSUME NEW i \in DOMAIN procs, Process(i) PROVE count' = count /\ pids' = pids
  BY <1>4 DEF Process, Exec, MapFails, Attach, Wait, Wake, Exit, Die
<1>5. CASE UNCHANGED vars
  BY <1>5 DEF vars
<1> QED BY <1>1, <1>2, <1>3, <1>4, <1>5 DEF Next, Launching, Cleaning

\* Every step keeps each process told of a record that is initialised.
LEMMA LaunchPartStep ==
  ASSUME RecordsPart, LaunchPart, [Next]_vars
  PROVE  LaunchPart'
<1>1. procs' \in Seq(ProcRecord) /\ InitialisedFirst'
  <2>1. CASE Spawn
    BY <2>1, SpawnStep
  <2>2. CASE ~Spawn
    <3>1. InitialisedFirst
      BY DEF LaunchPart
    <3> QED BY <2>2, <3>1, OtherKeeps, KeptInstructions
  <2> QED BY <2>1, <2>2
<1>2. phase' = "prepared" => Record(line', count'[line']) \in records'
  <2>1. ASSUME NEW k \in Known, Prepare(k)
        PROVE  Record(line', count'[line']) \in records'
    <3>1. line' = k /\ count' = count /\ Record(k, count[k]) \in records'
      BY <2>1 DEF Prepare
    <3> QED BY <3>1
  <2>2. CASE phase' = "prepared" /\ \A k \in Known : ~Prepare(k)
    <3>1. phase = "prepared" /\ line' = line
      BY <2>2, PhaseStep
    <3>2. records' = records
      BY <2>2, OtherStep DEF RecordsPart
    <3>3. count' = count
      <4>1. ~Spawn
        BY <2>2 DEF Spawn
      <4> QED BY <2>2, <3>1, <4>1, CountKept
    <3> QED BY <3>1, <3>2, <3>3 DEF LaunchPart
  <2> QED BY <2>1, <2>2
<1> QED BY <1>1, <1>2 DEF LaunchPart

\* A program that runs was told an offset at which its record had been
\* initialised, in every INIT section and for every layout.
THEOREM InitialisedBefore == SafeSpec => []InitialisedFirst
<1>1. Init => LaunchPart
  BY DEF Init, LaunchPart, InitialisedFirst
<1>2. RecordsPart /\ LaunchPart /\ [Next]_vars => LaunchPart'
  BY LaunchPartStep
<1>3. LaunchPart => InitialisedFirst
  BY DEF LaunchPart
<1> QED BY <1>1, <1>2, <1>3, RecordsPartCorrect, PTL DEF SafeSpec

-----------------------------------------------------------------------------
(* The books: counters, lines and process numbers.                          *)

\* The process that is still to be forked for the line at work.
Pending(k) == IF phase = "prepared" /\ line = k THEN 1 ELSE 0

BookPart ==
  /\ phase \in Phases /\ line \in Started \cup {"none"}
  /\ phase = "prepared" => line \in Started
  /\ lines \in 0..MaxLines
  /\ \A k \in Kinds : count[k] + Pending(k) <= lines
  /\ \A r \in records : r.slot < lines
  /\ destroyed \subseteq Kinds

\* No more processes of a kind are counted than there are lines.
LEMMA BookPartStep ==
  ASSUME RecordsPart, BookPart, [Next]_vars
  PROVE  BookPart'
<1>1. /\ count \in [Kinds -> Nat] /\ lines \in Nat /\ MaxLines \in Nat
      /\ \A r \in records : r.kind \in Kinds /\ r.slot \in Nat
  <2>1. ASSUME NEW r \in records PROVE r.kind \in Kinds /\ r.slot \in Nat
    BY DEF RecordsPart, RecordsInv, Record
  <2> QED
    BY <2>1, SimulatorAssumption DEF RecordsPart, RecordsInv, BookPart
<1>2. CASE Setup \/ ForkFails \/ Play \/ BeginCleanup \/ EndDestroy
  <2>1. /\ phase' \in Phases /\ phase' # "prepared"
        /\ UNCHANGED <<line, lines, count, records, destroyed>>
    BY <1>2 DEF Setup, ForkFails, Play, BeginCleanup, EndDestroy, Phases
  <2> QED
    BY <1>1, <2>1 DEF BookPart, Pending
<1>3. CASE Terminate \/ Unlink
  <2>1. /\ phase' \in Phases /\ phase' # "prepared"
        /\ UNCHANGED <<line, lines, count, records, destroyed>>
    BY <1>3 DEF Terminate, Unlink, Phases
  <2> QED
    BY <1>1, <2>1 DEF BookPart, Pending
<1>4. ASSUME NEW k \in Known, Prepare(k) PROVE BookPart'
  <2>1. /\ k \in Started /\ k \in Kinds /\ phase = "read" /\ lines < MaxLines
        /\ records' = records \cup {Record(k, count[k])}
        /\ line' = k /\ lines' = lines + 1 /\ phase' = "prepared"
        /\ UNCHANGED <<count, destroyed>>
    BY <1>4 DEF Prepare, Started
  <2>2. \A j \in Kinds : Pending(j) = 0 /\ Pending(j)' \in {0, 1}
    BY <2>1 DEF Pending
  <2>3. \A j \in Kinds : count'[j] + Pending(j)' <= lines'
    BY <1>1, <2>1, <2>2 DEF BookPart
  <2>4. \A r \in records' : r.slot < lines'
    <3>1. Record(k, count[k]).slot = count[k] /\ count[k] <= lines /\ count[k] \in Nat
      BY <1>1, <2>1, <2>2 DEF BookPart, Record
    <3> QED BY <1>1, <2>1, <3>1 DEF BookPart
  <2>5. lines' \in 0..MaxLines
    BY <1>1, <2>1
  <2> QED
    BY <2>1, <2>3, <2>4, <2>5 DEF BookPart, Phases
<1>5. ASSUME NEW k \in Known, Skip(k) PROVE BookPart'
  <2>1. /\ phase = "read" /\ lines < MaxLines /\ lines' = lines + 1
        /\ UNCHANGED <<phase, line, count, records, destroyed>>
    BY <1>5 DEF Skip
  <2>2. \A j \in Kinds : Pending(j) = 0 /\ Pending(j)' = 0
    BY <2>1 DEF Pending
  <2>3. \A j \in Kinds : count'[j] + Pending(j)' <= lines'
    BY <1>1, <2>1, <2>2 DEF BookPart
  <2>4. lines' \in 0..MaxLines
    BY <1>1, <2>1
  <2>5. \A r \in records' : r.slot < lines'
    BY <1>1, <2>1 DEF BookPart
  <2> QED
    BY <2>1, <2>3, <2>4, <2>5 DEF BookPart
<1>6. CASE Spawn
  <2>1. /\ line \in Started /\ line \in Kinds /\ phase = "prepared" /\ phase' = "read"
        /\ count' = [count EXCEPT ![line] = count[line] + 1]
        /\ UNCHANGED <<line, lines, records, destroyed>>
    BY <1>6 DEF Spawn, BookPart, Started
  <2>2. \A j \in Kinds : count'[j] = count[j] + Pending(j) /\ Pending(j)' = 0
    BY <1>1, <2>1 DEF Pending
  <2>3. \A j \in Kinds : count'[j] + Pending(j)' <= lines' /\ count[j] <= count'[j]
    BY <1>1, <2>1, <2>2 DEF BookPart
  <2>4. \A r \in records' : r.slot < lines'
    BY <1>1, <2>1 DEF BookPart
  <2> QED
    BY <2>1, <2>3, <2>4 DEF BookPart, Phases
<1>7. ASSUME NEW k \in Kinds, Destroy(k) PROVE BookPart'
  <2>1. /\ phase = "destroy" /\ phase' \in {"destroy", "stuck"}
        /\ destroyed' = destroyed \cup {k}
        /\ UNCHANGED <<line, lines, count, records>>
    BY <1>7 DEF Destroy
  <2> QED
    BY <1>1, <2>1 DEF BookPart, Pending, Phases
<1>8. ASSUME UNCHANGED <<phase, line, lines, count, records, destroyed>> PROVE BookPart'
  BY <1>8 DEF BookPart, Pending
<1>9. ASSUME NEW i \in DOMAIN procs, Process(i) PROVE BookPart'
  BY <1>8, <1>9 DEF Process, Exec, MapFails, Attach, Wait, Wake, Exit, Die, simVars
<1>10. CASE UNCHANGED vars
  BY <1>8, <1>10 DEF vars, simVars
<1> QED
  BY <1>2, <1>3, <1>4, <1>5, <1>6, <1>7, <1>9, <1>10 DEF Next, Launching, Cleaning

\* The lines that have been read have at most one process each.
AtWork == IF phase = "prepared" THEN 1 ELSE 0

LinesPart == Len(procs) + AtWork <= lines

\* The number of lines grows by one at a time, and with every line prepared.
LEMMA LinesGrow ==
  ASSUME BookPart, [Next]_vars
  PROVE  /\ lines' \in {lines, lines + 1}
         /\ phase' = "prepared" /\ phase # "prepared" => lines' = lines + 1
<1> USE DEF simVars
<1>1. CASE Setup \/ Spawn \/ Play \/ ForkFails \/ BeginCleanup \/ EndDestroy
  BY <1>1 DEF Setup, Spawn, Play, ForkFails, BeginCleanup, EndDestroy
<1>2. CASE Terminate \/ Unlink
  BY <1>2 DEF Terminate, Unlink
<1>3. ASSUME NEW k \in Known, Prepare(k) \/ Skip(k)
      PROVE  lines' = lines + 1
  BY <1>3 DEF Prepare, Skip
<1>4. ASSUME NEW k \in Kinds, Destroy(k)
      PROVE  lines' = lines /\ phase = "destroy" /\ phase' \in {"destroy", "stuck"}
  BY <1>4 DEF Destroy
<1>5. ASSUME NEW i \in DOMAIN procs, Process(i) PROVE lines' = lines /\ phase' = phase
  BY <1>5 DEF Process, Exec, MapFails, Attach, Wait, Wake, Exit, Die
<1>6. CASE UNCHANGED vars
  BY <1>6 DEF vars
<1> QED
  BY <1>1, <1>2, <1>3, <1>4, <1>5, <1>6 DEF Next, Launching, Cleaning

\* Processes that keep their places keep their number.
LEMMA SameLength ==
  ASSUME NEW S, NEW T, NEW s \in Seq(S), NEW t \in Seq(T), DOMAIN t = DOMAIN s
  PROVE  Len(t) = Len(s)
  OBVIOUS

LEMMA LinesPartStep ==
  ASSUME LaunchPart, RecordsPart, BookPart, LinesPart, [Next]_vars
  PROVE  LinesPart'
<1>1. procs \in Seq(ProcRecord) /\ lines \in Nat /\ Len(procs) + AtWork <= lines
  BY DEF LaunchPart, BookPart, LinesPart
<1>2. CASE Spawn
  <2>1. /\ Len(procs') = Len(procs) + 1 /\ lines' = lines
        /\ phase = "prepared" /\ phase' = "read"
    BY <1>1, <1>2 DEF Spawn
  <2> QED BY <1>1, <2>1 DEF LinesPart, AtWork
<1>3. CASE ~Spawn
  <2>1. procs' \in Seq(ProcRecord) /\ DOMAIN procs' = DOMAIN procs
    BY <1>3, OtherKeeps
  <2>2. Len(procs') = Len(procs)
    BY <1>1, <2>1, SameLength
  <2>3. /\ lines' \in {lines, lines + 1}
        /\ phase' = "prepared" /\ phase # "prepared" => lines' = lines + 1
    BY LinesGrow
  <2>4. AtWork \in {0, 1} /\ AtWork' \in {0, 1} /\ Len(procs) \in Nat
    BY <1>1 DEF AtWork
  <2>5. AtWork' <= AtWork \/ (AtWork = 0 /\ lines' = lines + 1)
    BY <2>3 DEF AtWork
  <2> QED BY <1>1, <2>2, <2>3, <2>4, <2>5 DEF LinesPart
<1> QED BY <1>2, <1>3

-----------------------------------------------------------------------------
(* The places of the processes: the (n+1)th process of a kind has the record *)
(* and the port of slot n, and within the limits its number is at its place. *)

Before(k, i) == {j \in 1..(i - 1) : procs[j].kind = k}

\* The slot of process i.
SlotOf(i) == Cardinality(Before(procs[i].kind, i))

SlotsPart ==
  /\ \A k \in Kinds : Cardinality(Before(k, Len(procs) + 1)) = count[k]
  /\ \A i \in DOMAIN procs :
       LET k == procs[i].kind IN
         /\ SlotOf(i) \in Nat /\ SlotOf(i) < count[k]
         /\ Record(k, SlotOf(i)) \in records
         /\ Told(procs[i]) = <<k, Offset(k, SlotOf(i)), Port(k, SlotOf(i))>>

\* Intervals are finite.
LEMMA UpTo ==
  ASSUME NEW n \in Nat
  PROVE  IsFiniteSet(1..n)
<1>1. 1 \in Int /\ n \in Int
  OBVIOUS
<1> QED BY <1>1, FS_Interval

LEMMA BeforeFinite ==
  ASSUME NEW k, NEW i \in Nat \ {0}
  PROVE  IsFiniteSet(Before(k, i)) /\ Cardinality(Before(k, i)) \in Nat
<1>1. i - 1 \in Nat
  OBVIOUS
<1>2. IsFiniteSet(1..(i - 1))
  BY <1>1, UpTo
<1>3. Before(k, i) \subseteq 1..(i - 1)
  BY DEF Before
<1>4. IsFiniteSet(Before(k, i))
  BY <1>2, <1>3, FS_Subset
<1> QED BY <1>4, FS_CardinalityType

\* What the processes were told settles their places.
LEMMA SamePlaces ==
  ASSUME LaunchPart, procs' \in Seq(ProcRecord),
         NEW m \in Nat, m <= Len(procs), m <= Len(procs'),
         \A j \in 1..m : Told(procs'[j]) = Told(procs[j])
  PROVE  /\ \A j \in 1..m : procs'[j].kind = procs[j].kind /\ SlotOf(j)' = SlotOf(j)
         /\ \A k : Before(k, m + 1)' = Before(k, m + 1)
<1>1. \A j \in 1..m : procs'[j].kind = procs[j].kind
  BY DEF Told
<1>2. ASSUME NEW k, NEW i \in 1..(m + 1)
      PROVE  {j \in 1..(i - 1) : procs'[j].kind = k} = {j \in 1..(i - 1) : procs[j].kind = k}
  <2>1. \A j \in 1..(i - 1) : j \in 1..m
    BY <1>2
  <2> QED BY <1>1, <2>1
<1>3. ASSUME NEW j \in 1..m PROVE SlotOf(j)' = SlotOf(j)
  <2>1. j \in 1..(m + 1) /\ procs'[j].kind = procs[j].kind
    BY <1>1
  <2>2. {c \in 1..(j - 1) : procs'[c].kind = procs[j].kind}
          = {c \in 1..(j - 1) : procs[c].kind = procs[j].kind}
    BY <1>2, <2>1
  <2>3. SlotOf(j)' = Cardinality({c \in 1..(j - 1) : procs'[c].kind = procs'[j].kind})
    BY DEF SlotOf, Before
  <2>4. SlotOf(j) = Cardinality({c \in 1..(j - 1) : procs[c].kind = procs[j].kind})
    BY DEF SlotOf, Before
  <2> QED BY <2>1, <2>2, <2>3, <2>4
<1>4. \A k : Before(k, m + 1)' = Before(k, m + 1)
  <2>1. m + 1 \in 1..(m + 1)
    OBVIOUS
  <2> QED BY <1>2, <2>1 DEF Before
<1> QED BY <1>1, <1>3, <1>4

\* A process more has the next slot of its kind.
LEMMA SlotsSpawn ==
  ASSUME RecordsPart, LaunchPart, SlotsPart, Spawn
  PROVE  SlotsPart'
<1> DEFINE new == Forked(line, count[line])
<1>0. PICK N \in Nat : N = Len(procs)
  <2>1. Len(procs) \in Nat
    BY DEF LaunchPart
  <2> QED BY <2>1
<1>1. /\ line \in Kinds /\ count \in [Kinds -> Nat] /\ procs \in Seq(ProcRecord)
      /\ Record(line, count[line]) \in records /\ N \in Nat /\ DOMAIN procs = 1..N
  <2>1. line \in Kinds /\ Record(line, count[line]) \in records
    BY DEF RecordsPart, LaunchPart, Spawn
  <2> QED BY <1>0, <2>1 DEF RecordsPart, RecordsInv, LaunchPart
<1>2. /\ procs' = Append(procs, new)
      /\ count' = [count EXCEPT ![line] = @ + 1]
      /\ records' = records
  BY <1>0 DEF Spawn
<1>3. procs' \in Seq(ProcRecord)
  BY SpawnStep
<1>4. new.kind = line /\ Told(new) = <<line, Offset(line, count[line]), Port(line, count[line])>>
  BY DEF Forked, Told
<1> HIDE DEF new
<1>5. /\ Len(procs') = N + 1 /\ DOMAIN procs' = 1..(N + 1) /\ procs'[N + 1] = new
      /\ \A j \in 1..N : procs'[j] = procs[j]
  BY <1>0, <1>1, <1>2
<1>6. /\ \A j \in 1..N : procs'[j].kind = procs[j].kind /\ SlotOf(j)' = SlotOf(j)
      /\ \A k : Before(k, N + 1)' = Before(k, N + 1)
  <2>1. \A j \in 1..N : Told(procs'[j]) = Told(procs[j])
    BY <1>5
  <2>2. N <= Len(procs) /\ N <= Len(procs')
    BY <1>0, <1>1, <1>5
  <2> QED BY <1>0, <1>1, <1>3, <2>1, <2>2, SamePlaces
<1>7. \A k \in Kinds : Cardinality(Before(k, N + 1)) = count[k]
  BY <1>0, <1>1 DEF SlotsPart
<1>9. ASSUME NEW k \in Kinds
      PROVE  Cardinality(Before(k, N + 2)') = count'[k]
  <2>0. IsFiniteSet(Before(k, N + 1)) /\ Cardinality(Before(k, N + 1)) = count[k]
    BY <1>1, <1>7, BeforeFinite
  <2>1. Before(k, N + 2)' = {j \in 1..(N + 1) : procs'[j].kind = k}
    <3>1. (N + 2) - 1 = N + 1
      BY <1>1
    <3> QED BY <3>1 DEF Before
  <2>2. Before(k, N + 1) = {j \in 1..N : procs[j].kind = k}
    <3>1. (N + 1) - 1 = N
      BY <1>1
    <3> QED BY <3>1 DEF Before
  <2>3. CASE k = line
    <3>1. Before(k, N + 2)' = Before(k, N + 1) \cup {N + 1}
      BY <1>1, <1>4, <1>5, <2>1, <2>2, <2>3
    <3>2. N + 1 \notin Before(k, N + 1)
      BY <1>1, <2>2
    <3>3. Cardinality(Before(k, N + 1) \cup {N + 1}) = count[k] + 1
      BY <2>0, <3>2, FS_AddElement
    <3>4. count'[k] = count[k] + 1
      BY <1>1, <1>2, <2>3
    <3> QED BY <3>1, <3>3, <3>4
  <2>4. CASE k # line
    <3>1. Before(k, N + 2)' = Before(k, N + 1)
      <4>1. procs'[N + 1].kind # k /\ \A j \in 1..N : procs'[j] = procs[j]
        BY <1>4, <1>5, <2>4
      <4>2. \A j : j \in 1..(N + 1) <=> j \in 1..N \/ j = N + 1
        BY <1>1
      <4> QED BY <2>1, <2>2, <4>1, <4>2
    <3>2. count'[k] = count[k]
      BY <1>1, <1>2, <2>4
    <3> QED BY <1>7, <3>1, <3>2
  <2> QED BY <2>3, <2>4
<1>10. ASSUME NEW i \in 1..(N + 1)
       PROVE  /\ SlotOf(i)' \in Nat /\ SlotOf(i)' < count'[procs'[i].kind]
              /\ Record(procs'[i].kind, SlotOf(i)') \in records'
              /\ Told(procs'[i]) = <<procs'[i].kind, Offset(procs'[i].kind, SlotOf(i)'),
                                     Port(procs'[i].kind, SlotOf(i)')>>
  <2>1. CASE i = N + 1
    <3>1. procs'[i].kind = line /\ Told(procs'[i]) = Told(new)
      BY <1>4, <1>5, <2>1
    <3>2. SlotOf(i)' = Cardinality({j \in 1..(i - 1) : procs'[j].kind = procs'[i].kind})
      BY DEF SlotOf, Before
    <3>3. {j \in 1..(i - 1) : procs'[j].kind = line} = Before(line, N + 1)
      <4>1. (N + 1) - 1 = N /\ i - 1 = N
        BY <2>1
      <4>2. \A j \in 1..N : procs'[j].kind = procs[j].kind
        BY <1>5
      <4> QED BY <4>1, <4>2 DEF Before
    <3>4. SlotOf(i)' = count[line]
      BY <1>1, <1>7, <3>1, <3>2, <3>3
    <3>5. count'[line] = count[line] + 1
      BY <1>1, <1>2
    <3>6. count[line] \in Nat /\ count[line] < count[line] + 1
      BY <1>1
    <3>7. SlotOf(i)' \in Nat /\ SlotOf(i)' < count'[line]
      BY <3>4, <3>5, <3>6
    <3>8. Record(line, SlotOf(i)') \in records'
      BY <1>1, <1>2, <3>4
    <3>9. Told(procs'[i]) = <<line, Offset(line, SlotOf(i)'), Port(line, SlotOf(i)')>>
      BY <1>4, <3>1, <3>4
    <3> QED BY <3>1, <3>7, <3>8, <3>9
  <2>2. CASE i \in 1..N
    <3> DEFINE k == procs[i].kind
               n == SlotOf(i)
    <3>1. procs'[i] = procs[i] /\ SlotOf(i)' = n
      BY <1>5, <1>6, <2>2
    <3>2. /\ n \in Nat /\ n < count[k] /\ Record(k, n) \in records
          /\ Told(procs[i]) = <<k, Offset(k, n), Port(k, n)>>
      BY <1>1, <2>2 DEF SlotsPart
    <3>3. k \in Kinds
      <4>1. procs[i] \in ProcRecord
        BY <1>1, <2>2
      <4> QED BY <4>1 DEF ProcRecord
    <3>4. procs'[i].kind = k
      BY <3>1
    <3> HIDE DEF n, k
    <3>6. count'[k] >= count[k]
      BY <1>1, <1>2, <3>3
    <3>7. count[k] \in Nat /\ count'[k] \in Nat
      BY <1>1, <1>2, <3>3
    <3>8. n < count'[k]
      BY <3>2, <3>6, <3>7
    <3>9. Told(procs'[i]) = <<k, Offset(k, n), Port(k, n)>>
      BY <3>1, <3>2
    <3>10. Record(k, n) \in records'
      BY <1>2, <3>2
    <3> QED BY <3>1, <3>2, <3>4, <3>8, <3>9, <3>10
  <2>3. i = N + 1 \/ i \in 1..N
    BY <1>1
  <2> QED BY <2>1, <2>2, <2>3
<1>11. Len(procs') + 1 = N + 2 /\ DOMAIN procs' = 1..(N + 1)
  BY <1>1, <1>5
<1>12. \A k \in Kinds : Cardinality(Before(k, Len(procs) + 1))' = count'[k]
  BY <1>9, <1>11
<1> QED BY <1>10, <1>11, <1>12 DEF SlotsPart

\* Every other step keeps the slots.
LEMMA SlotsPartStep ==
  ASSUME RecordsPart, LaunchPart, SlotsPart, [Next]_vars
  PROVE  SlotsPart'
<1>1. CASE Spawn
  BY <1>1, SlotsSpawn
<1>2. CASE ~Spawn
  <2>1. /\ procs \in Seq(ProcRecord) /\ procs' \in Seq(ProcRecord)
        /\ DOMAIN procs' = DOMAIN procs
        /\ \A j \in DOMAIN procs : Told(procs'[j]) = Told(procs[j])
        /\ count' = count /\ records \subseteq records'
    BY <1>2, OtherKeeps, CountKept DEF LaunchPart
  <2>2. Len(procs') = Len(procs)
    BY <2>1, SameLength
  <2>3. Len(procs) \in Nat /\ DOMAIN procs = 1..Len(procs)
    BY <2>1
  <2>4. \A j \in 1..Len(procs) : Told(procs'[j]) = Told(procs[j])
    BY <2>1, <2>3
  <2>5. /\ \A j \in 1..Len(procs) : procs'[j].kind = procs[j].kind /\ SlotOf(j)' = SlotOf(j)
        /\ \A k : Before(k, Len(procs) + 1)' = Before(k, Len(procs) + 1)
    <3>1. Len(procs) <= Len(procs) /\ Len(procs) <= Len(procs')
      BY <2>2, <2>3
    <3> QED BY <2>1, <2>3, <2>4, <3>1, SamePlaces
  <2>6. ASSUME NEW i \in DOMAIN procs'
        PROVE  /\ SlotOf(i)' \in Nat /\ SlotOf(i)' < count'[procs'[i].kind]
               /\ Record(procs'[i].kind, SlotOf(i)') \in records'
               /\ Told(procs'[i]) = <<procs'[i].kind, Offset(procs'[i].kind, SlotOf(i)'),
                                      Port(procs'[i].kind, SlotOf(i)')>>
    <3>1. i \in 1..Len(procs) /\ i \in DOMAIN procs
      BY <2>1, <2>3
    <3>2. procs'[i].kind = procs[i].kind /\ SlotOf(i)' = SlotOf(i)
      BY <2>5, <3>1
    <3>3. Told(procs'[i]) = Told(procs[i])
      BY <2>1, <3>1
    <3> QED BY <2>1, <3>1, <3>2, <3>3 DEF SlotsPart
  <2>7. ASSUME NEW k \in Kinds
        PROVE  Cardinality(Before(k, Len(procs) + 1))' = count'[k]
    BY <2>1, <2>2, <2>5 DEF SlotsPart
  <2> QED BY <2>6, <2>7 DEF SlotsPart
<1> QED BY <1>1, <1>2

\* No two processes of a kind have the same slot.
LEMMA SlotsDiffer ==
  ASSUME LaunchPart, SlotsPart,
         NEW i \in DOMAIN procs, NEW j \in DOMAIN procs, i # j,
         procs[i].kind = procs[j].kind
  PROVE  SlotOf(i) # SlotOf(j)
<1>1. ASSUME NEW g \in DOMAIN procs, NEW h \in DOMAIN procs, g < h,
             procs[g].kind = procs[h].kind
      PROVE  SlotOf(g) < SlotOf(h)
  <2> DEFINE k == procs[g].kind
  <2>1. g \in Nat \ {0} /\ h \in Nat \ {0}
    BY DEF LaunchPart
  <2>2. /\ IsFiniteSet(Before(k, g)) /\ Cardinality(Before(k, g)) \in Nat
        /\ IsFiniteSet(Before(k, h)) /\ Cardinality(Before(k, h)) \in Nat
    BY <2>1, BeforeFinite
  <2>3. Before(k, g) \cup {g} \subseteq Before(k, h) /\ g \notin Before(k, g)
    BY <1>1, <2>1 DEF Before
  <2>4. Cardinality(Before(k, g) \cup {g}) = Cardinality(Before(k, g)) + 1
    BY <2>2, <2>3, FS_AddElement
  <2>5. Cardinality(Before(k, g) \cup {g}) <= Cardinality(Before(k, h))
    BY <2>2, <2>3, FS_Subset
  <2>6. SlotOf(g) = Cardinality(Before(k, g)) /\ SlotOf(h) = Cardinality(Before(k, h))
    BY <1>1 DEF SlotOf
  <2> QED BY <2>2, <2>4, <2>5, <2>6
<1>2. i < j \/ j < i
  BY DEF LaunchPart
<1>3. SlotOf(i) \in Nat /\ SlotOf(j) \in Nat
  BY DEF SlotsPart
<1> QED BY <1>1, <1>2, <1>3

-----------------------------------------------------------------------------
(* The numbers of the processes.                                            *)

\* Within the limits the number of the process of a slot has a place that is
\* none of another slot's.
LEMMA PlacesApart ==
  ASSUME NEW j \in Kinds, NEW m \in Nat, m < Slots[j],
         NEW k \in Kinds, NEW n \in Nat, n < Slots[k]
  PROVE  /\ Place(k, n) \in Places
         /\ j # k \/ m # n => Place(j, m) # Place(k, n)
<1>1. /\ \A h \in Kinds : Slots[h] \in Nat \ {0}
      /\ Slots["overseer"] = 1 /\ Slots["firealarm"] = 1
  BY LayoutAssumption
<1>2. \A h \in Kinds : PidLayout!Area(h) = Slots[h]
  <2> SUFFICES ASSUME NEW h \in Kinds PROVE PidLayout!Area(h) = Slots[h]
    OBVIOUS
  <2>1. PidLayout!Area(h) = Slots[h] * 1
    BY DEF PidLayout!Area
  <2>2. Slots[h] \in Nat
    BY <1>1
  <2> QED BY <2>1, <2>2
<1> HIDE DEF PidLayout!Area
<1>3. /\ PidLayout!Base("overseer") = 0
      /\ PidLayout!Base("firealarm") = Slots["overseer"]
      /\ PidLayout!Base("cardreader") = PidLayout!Base("firealarm") + Slots["firealarm"]
      /\ PidLayout!Base("door") = PidLayout!Base("cardreader") + Slots["cardreader"]
      /\ PidLayout!Base("callpoint") = PidLayout!Base("door") + Slots["door"]
      /\ PidLayout!Base("tempsensor") = PidLayout!Base("callpoint") + Slots["callpoint"]
      /\ PidLayout!Base("elevator") = PidLayout!Base("tempsensor") + Slots["tempsensor"]
      /\ PidLayout!Base("destselect") = PidLayout!Base("elevator") + Slots["elevator"]
      /\ PidLayout!Total = PidLayout!Base("destselect") + Slots["destselect"] + 0
  BY <1>2 DEF PidLayout!Base, PidLayout!Total, PidLayout!FirealarmBase,
     PidLayout!CardreaderBase, PidLayout!DoorBase, PidLayout!CallpointBase,
     PidLayout!TempsensorBase, PidLayout!ElevatorBase, PidLayout!DestselectBase, Kinds
<1>4. \A h \in Kinds : PidLayout!Base(h) \in Nat /\ PidLayout!Base(h) + Slots[h] <= PidLayout!Total
  BY <1>1, <1>3 DEF Kinds
<1>5. \A g, h \in Kinds :
        g # h => \/ PidLayout!Base(g) + Slots[g] <= PidLayout!Base(h)
                 \/ PidLayout!Base(h) + Slots[h] <= PidLayout!Base(g)
  BY <1>1, <1>3 DEF Kinds
<1>6. PidLayout!Total \in Nat
  BY <1>1, <1>3 DEF Kinds
<1>7. ASSUME NEW h \in Kinds, NEW q \in Nat, q < Slots[h]
      PROVE  Place(h, q) = PidLayout!Base(h) + q
  <2>1. CASE h \in {"overseer", "firealarm"}
    <3>1. q = 0
      BY <1>1, <1>7, <2>1
    <3> QED BY <2>1, <3>1 DEF Place
  <2>2. CASE h \notin {"overseer", "firealarm"}
    BY <2>2 DEF Place
  <2> QED BY <2>1, <2>2
<1>8. Place(k, n) = PidLayout!Base(k) + n /\ Place(j, m) = PidLayout!Base(j) + m
  BY <1>7
<1>9. Place(k, n) \in Places
  BY <1>1, <1>4, <1>6, <1>8 DEF Places
<1>10. ASSUME j # k \/ m # n PROVE Place(j, m) # Place(k, n)
  <2>1. CASE j = k
    BY <1>4, <1>8, <1>10, <2>1
  <2>2. CASE j # k
    <3>1. \/ PidLayout!Base(j) + Slots[j] <= PidLayout!Base(k)
          \/ PidLayout!Base(k) + Slots[k] <= PidLayout!Base(j)
      BY <1>5, <2>2
    <3>2. PidLayout!Base(j) \in Nat /\ PidLayout!Base(k) \in Nat
      BY <1>4
    <3> QED BY <1>1, <1>8, <3>1, <3>2
  <2> QED BY <2>1, <2>2
<1> QED BY <1>9, <1>10

\* The place of process i.
PlaceOf(i) == Place(procs[i].kind, SlotOf(i))

PidsPart ==
  /\ pids \in [Places -> {0} \cup DOMAIN procs]
  /\ told \subseteq DOMAIN procs
  /\ phase \in {"unlink", "done"} => told = Kept
  /\ WithinAreas => \A i \in DOMAIN procs : PlaceOf(i) \in Places /\ pids[PlaceOf(i)] = i

\* Within the limits the slot of every process is one of its area.
LEMMA SlotFits ==
  ASSUME SlotsPart, WithinAreas, NEW i \in DOMAIN procs
  PROVE  SlotOf(i) < Slots[procs[i].kind]
<1>1. Record(procs[i].kind, SlotOf(i)) \in records
  BY DEF SlotsPart
<1>2. Fits(Record(procs[i].kind, SlotOf(i)))
  BY <1>1 DEF WithinAreas
<1> QED BY <1>2 DEF Fits, Record

\* The kind of every process is one.
LEMMA KindsKnown ==
  ASSUME LaunchPart
  PROVE  \A i \in DOMAIN procs : procs[i].kind \in Kinds
<1> SUFFICES ASSUME NEW i \in DOMAIN procs PROVE procs[i].kind \in Kinds
  OBVIOUS
<1>1. procs[i] \in ProcRecord
  BY DEF LaunchPart
<1> QED BY <1>1 DEF ProcRecord

\* A fork notes the number of the new process and, within the limits, keeps the others.
LEMMA PidsSpawn ==
  ASSUME RecordsPart, LaunchPart, SlotsPart, PidsPart, Spawn
  PROVE  PidsPart'
<1>0. PICK N \in Nat : N = Len(procs) /\ DOMAIN procs = 1..N
  <2>1. Len(procs) \in Nat /\ DOMAIN procs = 1..Len(procs)
    BY DEF LaunchPart
  <2> QED BY <2>1
<1>1. /\ line \in Kinds /\ count[line] \in Nat /\ Record(line, count[line]) \in records
      /\ procs \in Seq(ProcRecord)
  BY DEF RecordsPart, RecordsInv, LaunchPart, Spawn
<1>2. /\ procs' = Append(procs, Forked(line, count[line]))
      /\ pids' = [p \in Places |-> IF p = Place(line, count[line]) THEN N + 1 ELSE pids[p]]
      /\ UNCHANGED <<told, records>> /\ phase' = "read"
  BY <1>0 DEF Spawn, Note
<1>3. procs' \in Seq(ProcRecord)
  BY SpawnStep
<1>4. /\ DOMAIN procs' = 1..(N + 1) /\ Len(procs') = N + 1
      /\ procs'[N + 1] = Forked(line, count[line])
      /\ \A j \in 1..N : procs'[j] = procs[j]
  BY <1>0, <1>1, <1>2
<1>5. pids' \in [Places -> {0} \cup DOMAIN procs'] /\ told' \subseteq DOMAIN procs'
  <2>1. 1..N \subseteq 1..(N + 1) /\ N + 1 \in 1..(N + 1)
    OBVIOUS
  <2> QED BY <1>0, <1>2, <1>4, <2>1 DEF PidsPart
<1>6. \A j \in 1..N : SlotOf(j)' = SlotOf(j)
  <2>1. \A j \in 1..N : Told(procs'[j]) = Told(procs[j])
    BY <1>4
  <2>2. N <= Len(procs) /\ N <= Len(procs')
    BY <1>0, <1>4
  <2> QED BY <1>3, <2>1, <2>2, SamePlaces
<1>7. SlotsPart'
  BY SlotsSpawn
<1>8. procs'[N + 1].kind = line /\ SlotOf(N + 1)' = count[line]
  <2>1. procs'[N + 1].kind = line
    BY <1>4 DEF Forked
  <2>2. SlotOf(N + 1)' = Cardinality({j \in 1..N : procs'[j].kind = line})
    <3>1. (N + 1) - 1 = N
      OBVIOUS
    <3> QED BY <2>1, <3>1 DEF SlotOf, Before
  <2>3. {j \in 1..N : procs'[j].kind = line} = {j \in 1..N : procs[j].kind = line}
    BY <1>4
  <2>4. Before(line, Len(procs) + 1) = {j \in 1..N : procs[j].kind = line}
    <3>1. (Len(procs) + 1) - 1 = N
      BY <1>0
    <3> QED BY <3>1 DEF Before
  <2> QED BY <1>1, <2>1, <2>2, <2>3, <2>4 DEF SlotsPart
<1>9. ASSUME WithinAreas', NEW i \in 1..(N + 1)
      PROVE  PlaceOf(i)' \in Places /\ pids'[PlaceOf(i)'] = i
  <2>1. WithinAreas
    BY <1>2, <1>9 DEF WithinAreas, Fits
  <2>2. Fits(Record(line, count[line]))
    BY <1>1, <2>1 DEF WithinAreas
  <2>3. count[line] < Slots[line]
    BY <2>2 DEF Fits, Record
  <2>4. CASE i = N + 1
    <3>1. PlaceOf(i)' = Place(line, count[line])
      BY <1>8, <2>4 DEF PlaceOf
    <3>2. Place(line, count[line]) \in Places
      BY <1>1, <2>3, PlacesApart
    <3> QED BY <1>2, <2>4, <3>1, <3>2
  <2>5. CASE i \in 1..N
    <3>1. PlaceOf(i)' = PlaceOf(i)
      BY <1>4, <1>6, <2>5 DEF PlaceOf
    <3>2. i \in DOMAIN procs /\ PlaceOf(i) \in Places /\ pids[PlaceOf(i)] = i
      BY <1>0, <2>1, <2>5 DEF PidsPart
    <3>3. SlotOf(i) \in Nat /\ SlotOf(i) < Slots[procs[i].kind] /\ procs[i].kind \in Kinds
      BY <2>1, <3>2, SlotFits, KindsKnown DEF SlotsPart
    <3>4. procs[i].kind # line \/ SlotOf(i) # count[line]
      <4>1. SlotOf(i) < count[procs[i].kind]
        BY <3>2 DEF SlotsPart
      <4> QED BY <1>1, <3>3, <4>1
    <3>5. PlaceOf(i) # Place(line, count[line])
      BY <1>1, <2>3, <3>3, <3>4, PlacesApart DEF PlaceOf
    <3> QED BY <1>2, <3>1, <3>2, <3>5
  <2> QED BY <2>4, <2>5
<1> QED BY <1>2, <1>4, <1>5, <1>9 DEF PidsPart

\* Signals are sent in one place, to all whose number is kept.
LEMMA ToldStep ==
  ASSUME [Next]_vars, ~Spawn, phase \in {"unlink", "done"} => told = Kept,
         told \subseteq DOMAIN procs, Kept \subseteq DOMAIN procs
  PROVE  /\ told' \subseteq DOMAIN procs
         /\ phase' \in {"unlink", "done"} => told' = Kept
<1> USE DEF simVars
<1>1. CASE Setup \/ Play \/ ForkFails \/ BeginCleanup \/ EndDestroy
  BY <1>1 DEF Setup, Play, ForkFails, BeginCleanup, EndDestroy
<1>2. CASE Terminate
  BY <1>2 DEF Terminate
<1>3. CASE Unlink
  BY <1>3 DEF Unlink
<1>4. ASSUME NEW k \in Known, Prepare(k) \/ Skip(k)
      PROVE  told' = told /\ phase' \notin {"unlink", "done"}
  BY <1>4 DEF Prepare, Skip
<1>5. ASSUME NEW k \in Kinds, Destroy(k)
      PROVE  told' = told /\ phase' \notin {"unlink", "done"}
  BY <1>5 DEF Destroy
<1>6. ASSUME NEW i \in DOMAIN procs, Process(i) PROVE told' = told /\ phase' = phase
  BY <1>6 DEF Process, Exec, MapFails, Attach, Wait, Wake, Exit, Die
<1>7. CASE UNCHANGED vars
  BY <1>7 DEF vars
<1> QED BY <1>1, <1>2, <1>3, <1>4, <1>5, <1>6, <1>7 DEF Next, Launching, Cleaning

\* Every other step keeps the numbers, and only one that clears up sends signals.
LEMMA PidsPartStep ==
  ASSUME RecordsPart, LaunchPart, SlotsPart, PidsPart, [Next]_vars
  PROVE  PidsPart'
<1>1. CASE Spawn
  BY <1>1, PidsSpawn
<1>2. CASE ~Spawn
  <2>1. /\ procs \in Seq(ProcRecord) /\ procs' \in Seq(ProcRecord)
        /\ DOMAIN procs' = DOMAIN procs
        /\ \A j \in DOMAIN procs : Told(procs'[j]) = Told(procs[j])
        /\ pids' = pids /\ records \subseteq records'
    BY <1>2, OtherKeeps, CountKept DEF LaunchPart
  <2>2. Kept' = Kept /\ Kept \subseteq DOMAIN procs
    BY <2>1 DEF Kept, PidsPart
  <2>3. /\ told' \subseteq DOMAIN procs
        /\ phase' \in {"unlink", "done"} => told' = Kept
    BY <1>2, <2>2, ToldStep DEF PidsPart
  <2>4. ASSUME WithinAreas', NEW i \in DOMAIN procs
        PROVE  PlaceOf(i)' \in Places /\ pids'[PlaceOf(i)'] = i
    <3>1. WithinAreas
      BY <2>1, <2>4 DEF WithinAreas, Fits
    <3>2. Len(procs') = Len(procs) /\ Len(procs) \in Nat /\ DOMAIN procs = 1..Len(procs)
      BY <2>1, SameLength
    <3>3. procs'[i].kind = procs[i].kind /\ SlotOf(i)' = SlotOf(i)
      <4>1. \A j \in 1..Len(procs) : Told(procs'[j]) = Told(procs[j])
        BY <2>1, <3>2
      <4>2. Len(procs) <= Len(procs) /\ Len(procs) <= Len(procs')
        BY <3>2
      <4> QED BY <2>1, <3>2, <4>1, <4>2, SamePlaces
    <3>4. PlaceOf(i)' = PlaceOf(i)
      BY <3>3 DEF PlaceOf
    <3> QED BY <2>1, <3>1, <3>4 DEF PidsPart
  <2> QED BY <2>1, <2>2, <2>3, <2>4 DEF PidsPart
<1> QED BY <1>1, <1>2

-----------------------------------------------------------------------------
(* What the bookkeeping gives.                                               *)

Books ==
  /\ RecordsPart /\ LaunchPart /\ BookPart /\ LinesPart
  /\ SlotsPart /\ PidsPart

\* The books are right in every reachable state.
THEOREM BooksCorrect == SafeSpec => []Books
<1>1. Init => Books
  <2> SUFFICES ASSUME Init PROVE Books
    OBVIOUS
  <2> USE DEF Init
  <2>1. RecordsPart
    BY DEF RecordsPart, RecordsInv
  <2>2. LaunchPart
    BY DEF LaunchPart, InitialisedFirst
  <2>3. BookPart
    <3>1. MaxLines \in Nat
      BY SimulatorAssumption
    <3>2. \A k \in Kinds : count[k] + Pending(k) <= lines
      <4> SUFFICES ASSUME NEW k \in Kinds PROVE count[k] + Pending(k) <= lines
        OBVIOUS
      <4>1. count[k] = 0 /\ Pending(k) = 0 /\ lines = 0
        BY DEF Pending
      <4> HIDE DEF Init
      <4>2. count[k] + Pending(k) = 0
        BY <4>1
      <4> QED BY <4>1, <4>2
    <3> QED BY <3>1, <3>2 DEF BookPart, Phases
  <2>4. LinesPart
    BY DEF LinesPart, AtWork
  <2>5. DOMAIN procs = {} /\ Len(procs) = 0
    OBVIOUS
  <2>6. SlotsPart
    <3>1. ASSUME NEW k \in Kinds PROVE Cardinality(Before(k, Len(procs) + 1)) = count[k]
      <4>1. Before(k, Len(procs) + 1) = {}
        BY <2>5 DEF Before
      <4> QED BY <4>1, FS_EmptySet
    <3> QED BY <2>5, <3>1 DEF SlotsPart
  <2>7. PidsPart
    BY <2>5 DEF PidsPart
  <2> QED BY <2>1, <2>2, <2>3, <2>4, <2>6, <2>7 DEF Books
<1>2. Books /\ [Next]_vars => Books'
  BY RecordsPartStep, LaunchPartStep, BookPartStep, LinesPartStep, SlotsPartStep, PidsPartStep
     DEF Books
<1> QED BY <1>1, <1>2, PTL DEF SafeSpec

\* However the compiler lays out a record, and however many lines of a kind there
\* are: every record lies inside the object, and those that their areas have room for
\* do not overlap.
THEOREM RecordsApart == SafeSpec => []RecordsDisjoint
<1>1. Books => RecordsDisjoint
  <2> SUFFICES ASSUME Books PROVE RecordsDisjoint
    OBVIOUS
  <2>1. ASSUME NEW r \in records
        PROVE  /\ r.kind \in Kinds /\ r.slot \in Nat /\ r.slot < MaxLines
               /\ r = Record(r.kind, r.slot)
               /\ r.at = Offset(r.kind, r.slot)
    <3>1. PICK k \in Kinds, n \in Nat : r = Record(k, n)
      BY DEF Books, RecordsPart, RecordsInv
    <3>2. r.kind = k /\ r.slot = n /\ r.at = Offset(k, n)
      BY <3>1 DEF Record
    <3>3. r.slot < lines /\ lines \in 0..MaxLines /\ MaxLines \in Nat
      BY SimulatorAssumption DEF Books, BookPart
    <3> QED BY <3>1, <3>2, <3>3
  <2>2. ASSUME NEW a \in records PROVE Inside(a)
    <3>1. a.kind \in Kinds /\ a.slot \in Nat /\ a.slot < MaxLines /\ a.at = Offset(a.kind, a.slot)
      BY <2>1
    <3>2. a.at \in Nat /\ a.at + Size[a.kind] <= Total
      BY <3>1, OffsetInside
    <3> QED BY <3>2 DEF Inside
  <2>3. ASSUME NEW a \in records, NEW b \in records, a # b, Fits(a), Fits(b)
        PROVE  Disjoint(a, b)
    <3>1. a.kind # b.kind \/ a.slot # b.slot
      BY <2>1, <2>3
    <3> QED BY <2>1, <2>3, <3>1, SlotsApart DEF Disjoint, EndsBefore, Fits
  <2> QED BY <2>2, <2>3 DEF RecordsDisjoint
<1> QED BY <1>1, BooksCorrect, PTL

\* Type correctness: among the rest, the numbers kept and the processes signalled are
\* of processes.
THEOREM TypeCorrect == SafeSpec => []TypeOK
<1>1. Books => TypeOK
  <2> SUFFICES ASSUME Books PROVE TypeOK
    OBVIOUS
  <2>1. MaxLines \in Nat /\ lines \in Nat /\ lines <= MaxLines /\ count \in [Kinds -> Nat]
    BY SimulatorAssumption DEF Books, BookPart, RecordsPart, RecordsInv
  <2>2. \A k \in Kinds : count[k] \in 0..MaxLines
    <3> SUFFICES ASSUME NEW k \in Kinds PROVE count[k] \in 0..MaxLines
      OBVIOUS
    <3>1. count[k] + Pending(k) <= lines
      BY DEF Books, BookPart
    <3>2. Pending(k) \in {0, 1} /\ count[k] \in Nat
      BY <2>1 DEF Pending
    <3> QED BY <2>1, <3>1, <3>2
  <2>3. count \in [Kinds -> 0..MaxLines]
    BY <2>1, <2>2
  <2>4. ASSUME NEW r \in records
        PROVE  r \in [kind : Kinds, slot : 0..MaxLines, at : Int]
    <3>1. PICK k \in Kinds, n \in Nat : r = Record(k, n)
      BY DEF Books, RecordsPart, RecordsInv
    <3>2. r = [kind |-> k, slot |-> n, at |-> Offset(k, n)]
      BY <3>1 DEF Record
    <3>3. n < lines
      BY <3>2 DEF Books, BookPart
    <3>4. n \in 0..MaxLines
      BY <2>1, <3>3
    <3>5. Offset(k, n) \in Int
      BY OffsetInside
    <3> QED BY <3>2, <3>4, <3>5
  <2>5. pids \in [Places -> {0} \cup DOMAIN procs] /\ told \subseteq DOMAIN procs
    BY DEF Books, PidsPart
  <2>6. procs \in Seq(ProcRecord)
    BY DEF Books, LaunchPart
  <2>7. phase \in Phases /\ line \in Started \cup {"none"} /\ lines \in 0..MaxLines
          /\ destroyed \subseteq Kinds
    BY DEF Books, BookPart
  <2> QED BY <2>3, <2>4, <2>5, <2>6, <2>7 DEF TypeOK, ProcRecord
<1> QED BY <1>1, BooksCorrect, PTL

\* The record and the port of process i are those of its slot, and no other process of
\* its kind has it.
LEMMA OwnSlot ==
  ASSUME Books, NEW i \in DOMAIN procs
  PROVE  /\ procs[i].kind \in Kinds
         /\ SlotOf(i) \in Nat /\ SlotOf(i) < 100
         /\ procs[i].offset = Offset(procs[i].kind, SlotOf(i))
         /\ procs[i].port = Port(procs[i].kind, SlotOf(i))
         /\ WithinAreas => SlotOf(i) < Slots[procs[i].kind]
         /\ \A j \in DOMAIN procs :
              i # j => procs[i].kind # procs[j].kind \/ SlotOf(i) # SlotOf(j)
<1>1. procs[i].kind \in Kinds
  BY KindsKnown DEF Books
<1>2. /\ SlotOf(i) \in Nat
      /\ Record(procs[i].kind, SlotOf(i)) \in records
      /\ Told(procs[i]) = <<procs[i].kind, Offset(procs[i].kind, SlotOf(i)),
                            Port(procs[i].kind, SlotOf(i))>>
  BY DEF Books, SlotsPart
<1>3. SlotOf(i) < 100
  <2>1. SlotOf(i) < lines
    BY <1>2 DEF Books, BookPart, Record
  <2>2. lines \in 0..MaxLines /\ MaxLines \in 0..100
    BY SimulatorAssumption DEF Books, BookPart
  <2> QED BY <1>2, <2>1, <2>2
<1>4. /\ procs[i].offset = Offset(procs[i].kind, SlotOf(i))
      /\ procs[i].port = Port(procs[i].kind, SlotOf(i))
  BY <1>2 DEF Told
<1>5. WithinAreas => SlotOf(i) < Slots[procs[i].kind]
  BY SlotFits DEF Books
<1>6. \A j \in DOMAIN procs :
        i # j => procs[i].kind # procs[j].kind \/ SlotOf(i) # SlotOf(j)
  BY SlotsDiffer DEF Books
<1> QED BY <1>1, <1>2, <1>3, <1>4, <1>5, <1>6

-----------------------------------------------------------------------------
(* Where the processes work.                                                 *)

Works(p) == p.state \in {"working", "waiting"}

\* A process that works does so at the address its program takes.
WorkPart == \A i \in DOMAIN procs : Works(procs[i]) => procs[i].at = WorksAt(procs[i])

\* A process alone: it is not gone before its step, nor does its step bring a new one.
LEMMA ProcessWorks ==
  ASSUME LaunchPart, WorkPart, NEW i \in DOMAIN procs, Process(i)
  PROVE  /\ WorkPart'
         /\ ~Gone(procs[i])
         /\ \A j \in DOMAIN procs : j # i => procs'[j] = procs[j]
<1>1. procs \in Seq(ProcRecord) /\ procs[i] \in ProcRecord
  <2>1. procs \in Seq(ProcRecord)
    BY DEF LaunchPart
  <2> QED BY <2>1
<1>2. ~Gone(procs[i])
  BY DEF Process, Exec, MapFails, Attach, Wait, Wake, Exit, Die, Gone
<1>3. PICK x : /\ procs' = [procs EXCEPT ![i] = x]
               /\ Works(x) => x.at = WorksAt(x)
  <2>1. ASSUME NEW st \in {"started", "exited", "killed"}, Become(i, st)
        PROVE  \E x : /\ procs' = [procs EXCEPT ![i] = x]
                      /\ Works(x) => x.at = WorksAt(x)
    <3>1. procs' = [procs EXCEPT ![i] = [procs[i] EXCEPT !.state = st]]
      BY <1>1, <2>1 DEF Become
    <3>2. ~Works([procs[i] EXCEPT !.state = st])
      BY <1>1 DEF Works, ProcRecord
    <3> QED BY <3>1, <3>2
  <2>2. ASSUME NEW st \in {"working", "waiting"}, Become(i, st), Works(procs[i])
        PROVE  \E x : /\ procs' = [procs EXCEPT ![i] = x]
                      /\ Works(x) => x.at = WorksAt(x)
    <3> DEFINE y == [procs[i] EXCEPT !.state = st]
    <3>1. procs' = [procs EXCEPT ![i] = y]
      BY <1>1, <2>2 DEF Become
    <3>2. y.at = procs[i].at /\ y.kind = procs[i].kind /\ y.offset = procs[i].offset
      BY <1>1 DEF ProcRecord
    <3>3. WorksAt(y) = WorksAt(procs[i])
      BY <3>2 DEF WorksAt, OpensMemory
    <3>4. procs[i].at = WorksAt(procs[i])
      BY <2>2 DEF WorkPart
    <3> HIDE DEF y
    <3> QED BY <3>1, <3>2, <3>3, <3>4
  <2>3. CASE Attach(i)
    <3> DEFINE y == [procs[i] EXCEPT !.state = "working", !.at = WorksAt(procs[i])]
    <3>1. procs' = [procs EXCEPT ![i] = y]
      BY <1>1, <2>3 DEF Attach
    <3>2. y.at = WorksAt(procs[i]) /\ y.kind = procs[i].kind /\ y.offset = procs[i].offset
      BY <1>1 DEF ProcRecord
    <3>3. WorksAt(y) = WorksAt(procs[i])
      BY <3>2 DEF WorksAt, OpensMemory
    <3> HIDE DEF y
    <3> QED BY <3>1, <3>2, <3>3
  <2>4. CASE Exec(i) \/ MapFails(i) \/ Exit(i) \/ Die(i)
    BY <2>1, <2>4 DEF Exec, MapFails, Exit, Die
  <2>5. CASE Wait(i) \/ Wake(i)
    BY <2>2, <2>5 DEF Wait, Wake, Works
  <2> QED BY <2>3, <2>4, <2>5 DEF Process
<1>4. /\ DOMAIN procs' = DOMAIN procs /\ procs'[i] = x
      /\ \A j \in DOMAIN procs : j # i => procs'[j] = procs[j]
  BY <1>1, <1>3
<1>5. WorkPart'
  BY <1>3, <1>4 DEF WorkPart
<1> QED BY <1>2, <1>4, <1>5

\* Every step but those of the processes and the fork leaves them alone.
LEMMA ProcsKept ==
  ASSUME [Next]_vars, ~Spawn, \A i \in DOMAIN procs : ~Process(i)
  PROVE  procs' = procs
<1>1. CASE Setup \/ Play \/ ForkFails \/ BeginCleanup \/ EndDestroy \/ Terminate \/ Unlink
  BY <1>1 DEF Setup, Play, ForkFails, BeginCleanup, EndDestroy, Terminate, Unlink
<1>2. ASSUME NEW k \in Known, Prepare(k) \/ Skip(k) PROVE procs' = procs
  BY <1>2 DEF Prepare, Skip
<1>3. ASSUME NEW k \in Kinds, Destroy(k) PROVE procs' = procs
  BY <1>3 DEF Destroy
<1>4. CASE UNCHANGED vars
  BY <1>4 DEF vars
<1> QED BY <1>1, <1>2, <1>3, <1>4 DEF Next, Launching, Cleaning

\* A process that is gone is told nothing and works on nothing.
LEMMA WorkPartStep ==
  ASSUME Books, WorkPart, [Next]_vars
  PROVE  WorkPart'
<1>1. LaunchPart /\ procs \in Seq(ProcRecord)
  BY DEF Books, LaunchPart
<1>2. CASE Spawn
  <2>1. procs' = Append(procs, Forked(line, count[line]))
    BY <1>2 DEF Spawn
  <2>2. ~Works(Forked(line, count[line]))
    BY DEF Works, Forked
  <2>3. ASSUME NEW i \in DOMAIN procs'
        PROVE  procs'[i] = Forked(line, count[line])
                 \/ (i \in DOMAIN procs /\ procs'[i] = procs[i])
    BY <1>1, <2>1
  <2> QED BY <2>2, <2>3 DEF WorkPart
<1>3. ASSUME NEW i \in DOMAIN procs, Process(i) PROVE WorkPart'
  BY <1>1, <1>3, ProcessWorks
<1>4. CASE procs' = procs
  BY <1>4 DEF WorkPart
<1> QED BY <1>2, <1>3, <1>4, ProcsKept

LEMMA WorkPartCorrect == SafeSpec => []WorkPart
<1>1. Init => WorkPart
  BY DEF Init, WorkPart
<1>2. Books /\ WorkPart /\ [Next]_vars => WorkPart'
  BY WorkPartStep
<1> QED BY <1>1, <1>2, BooksCorrect, PTL DEF SafeSpec

\* As long as no kind has more lines than its area has records, only elevators ever
\* work at the same address, for every layout.
THEOREM OneWorker == SafeSpec => []OneWorkerPerRecord
<1>1. Books /\ WorkPart => OneWorkerPerRecord
  <2> SUFFICES ASSUME Books, WorkPart, WithinAreas,
                      NEW i \in DOMAIN procs, NEW j \in DOMAIN procs, i # j,
                      Works(procs[i]), Works(procs[j]),
                      procs[i].at = procs[j].at, procs[i].at # -1
               PROVE  procs[i].kind = "elevator" /\ procs[j].kind = "elevator"
    BY DEF OneWorkerPerRecord, Works
  <2>1. procs[i].at = WorksAt(procs[i]) /\ procs[j].at = WorksAt(procs[j])
    BY DEF WorkPart
  <2>2. /\ procs[i].kind \in Kinds /\ procs[j].kind \in Kinds
        /\ SlotOf(i) \in Nat /\ SlotOf(i) < Slots[procs[i].kind]
        /\ SlotOf(j) \in Nat /\ SlotOf(j) < Slots[procs[j].kind]
        /\ procs[i].offset = Offset(procs[i].kind, SlotOf(i))
        /\ procs[j].offset = Offset(procs[j].kind, SlotOf(j))
        /\ procs[i].kind # procs[j].kind \/ SlotOf(i) # SlotOf(j)
    BY OwnSlot
  <2>3. /\ Size[procs[i].kind] \in Nat \ {0} /\ Size[procs[j].kind] \in Nat \ {0}
    BY <2>2, LayoutAssumption
  <2>4. procs[i].offset \in Nat /\ procs[j].offset \in Nat
    BY <2>2, RecordInArea
  <2>5. procs[i].offset # procs[j].offset
    <3>1. \/ procs[i].offset + Size[procs[i].kind] <= procs[j].offset
          \/ procs[j].offset + Size[procs[j].kind] <= procs[i].offset
      BY <2>2, SlotsApart
    <3> QED BY <2>3, <2>4, <3>1
  <2>6. ASSUME NEW h \in {i, j}, procs[h].kind \notin {"elevator", "door", "overseer"}
        PROVE  procs[h].offset # 0
    <3>1. /\ procs[h].kind \in Kinds /\ SlotOf(h) \in Nat /\ SlotOf(h) < Slots[procs[h].kind]
          /\ procs[h].offset = Offset(procs[h].kind, SlotOf(h)) /\ procs[h].offset \in Nat
          /\ Size[procs[h].kind] \in Nat \ {0}
      BY <2>2, <2>3, <2>4
    <3>2. /\ "overseer" \in Kinds /\ Slots["overseer"] = 1 /\ Size["overseer"] \in Nat \ {0}
      BY LayoutAssumption DEF Kinds
    <3>3. Offset("overseer", 0) = 0
      BY DEF Offset
    <3>4. \/ Offset("overseer", 0) + Size["overseer"] <= Offset(procs[h].kind, SlotOf(h))
          \/ Offset(procs[h].kind, SlotOf(h)) + Size[procs[h].kind] <= Offset("overseer", 0)
      <4>1. "overseer" # procs[h].kind /\ 0 \in Nat /\ 0 < Slots["overseer"]
        BY <2>6, <3>2
      <4> QED BY <3>1, <3>2, <4>1, SlotsApart
    <3> QED BY <3>1, <3>2, <3>3, <3>4
  <2>7. CASE procs[i].kind = "elevator" \/ procs[j].kind = "elevator"
    BY <2>1, <2>6, <2>7 DEF WorksAt, OpensMemory
  <2>8. CASE procs[i].kind # "elevator" /\ procs[j].kind # "elevator"
    BY <2>1, <2>5, <2>8 DEF WorksAt, OpensMemory
  <2> QED BY <2>7, <2>8
<1> QED BY <1>1, BooksCorrect, WorkPartCorrect, PTL

-----------------------------------------------------------------------------
(* The ports.                                                                *)

\* A code stands for the port of a process: sensor n for that of slot n.
LEMMA CodesOfPorts ==
  /\ GetPortFromCode(FireAlarm) = Port("firealarm", 0)
  /\ \A n \in Nat : GetPortFromCode(Overseer) = Port("overseer", n)
  /\ \A n \in Nat : GetPortFromCode(Sensor(n)) = Port("tempsensor", n)
  BY DEF GetPortFromCode, FireAlarm, Overseer, Sensor, Port, HasPort, PortOffset, BasePort

\* The ports of two slots differ, but for those of two overseers: 100 lines of a kind
\* do not reach the ports of the next.
LEMMA PortsApart ==
  ASSUME NEW j \in Kinds, NEW m \in Nat, m < 100,
         NEW k \in Kinds, NEW n \in Nat, n < 100,
         j # k \/ m # n, Port(j, m) = Port(k, n)
  PROVE  Port(k, n) = NoPort \/ (j = "overseer" /\ k = "overseer")
<1>1. ASSUME NEW h \in Kinds, NEW q \in Nat, q < 100, HasPort(h)
      PROVE  \/ h = "overseer" /\ Port(h, q) = 3000
             \/ h = "firealarm" /\ Port(h, q) = 3100 + q
             \/ h = "door" /\ Port(h, q) = 3300 + q
             \/ h = "tempsensor" /\ Port(h, q) = 3500 + q
             \/ h = "elevator" /\ Port(h, q) = 3600 + q
  <2>1. h \in {"overseer", "firealarm", "door", "tempsensor", "elevator"}
    BY <1>1 DEF HasPort
  <2>2. Port(h, q) = 3000 + PortOffset(h) + IF h = "overseer" THEN 0 ELSE q
    BY <1>1 DEF Port, BasePort
  <2> QED BY <2>1, <2>2 DEF PortOffset
<1>2. CASE ~HasPort(j) \/ ~HasPort(k)
  BY <1>2 DEF Port
<1>3. CASE HasPort(j) /\ HasPort(k)
  BY <1>1, <1>3
<1> QED BY <1>2, <1>3

\* No two processes share a port, but for two overseers, and the codes of a temperature
\* sensor's receiver list mean the processes that have those ports.
THEOREM AddressesCorrect == SafeSpec => []AddressesMatch
<1>1. Books => AddressesMatch
  <2> SUFFICES ASSUME Books, NEW i \in DOMAIN procs
               PROVE  /\ \A j \in 1..(i - 1) :
                           procs[j].port = procs[i].port =>
                             \/ procs[i].port = NoPort
                             \/ {procs[i].kind, procs[j].kind} = {"overseer"}
                      /\ procs[i].kind = "firealarm" /\ SlotOf(i) = 0 =>
                           procs[i].port = GetPortFromCode(FireAlarm)
                      /\ procs[i].kind = "overseer" =>
                           procs[i].port = GetPortFromCode(Overseer)
                      /\ procs[i].kind = "tempsensor" =>
                           procs[i].port = GetPortFromCode(Sensor(SlotOf(i)))
    BY Zenon DEF AddressesMatch, SlotOf, Before
  <2>1. /\ procs[i].kind \in Kinds /\ SlotOf(i) \in Nat /\ SlotOf(i) < 100
        /\ procs[i].port = Port(procs[i].kind, SlotOf(i))
    BY OwnSlot
  <2>2. procs \in Seq(ProcRecord) /\ i \in 1..Len(procs) /\ DOMAIN procs = 1..Len(procs)
    BY DEF Books, LaunchPart
  <2>3. ASSUME NEW j \in 1..(i - 1), procs[j].port = procs[i].port
        PROVE  procs[i].port = NoPort \/ {procs[i].kind, procs[j].kind} = {"overseer"}
    <3>1. j \in DOMAIN procs /\ i # j
      BY <2>2
    <3>2. /\ procs[j].kind \in Kinds /\ SlotOf(j) \in Nat /\ SlotOf(j) < 100
          /\ procs[j].port = Port(procs[j].kind, SlotOf(j))
          /\ procs[j].kind # procs[i].kind \/ SlotOf(j) # SlotOf(i)
      BY <3>1, OwnSlot
    <3>3. Port(procs[j].kind, SlotOf(j)) = Port(procs[i].kind, SlotOf(i))
      BY <2>1, <2>3, <3>2
    <3>4. \/ Port(procs[i].kind, SlotOf(i)) = NoPort
          \/ procs[j].kind = "overseer" /\ procs[i].kind = "overseer"
      BY <2>1, <3>2, <3>3, PortsApart
    <3> QED BY <2>1, <3>4
  <2> QED BY <2>1, <2>3, CodesOfPorts
<1> QED BY <1>1, BooksCorrect, PTL

-----------------------------------------------------------------------------
(* The clean-up: who is told to end, and when the memory is released.        *)

\* As long as no kind has more lines than it has records and places for process
\* numbers, a process that still runs when the memory is released has been told to end.
THEOREM NobodyMissed == SafeSpec => []NobodyForgotten
<1>1. Books => NobodyForgotten
  <2> SUFFICES ASSUME Books, WithinAreas, phase \in {"unlink", "done"}, NEW i \in DOMAIN procs
               PROVE  i \in told
    BY DEF NobodyForgotten
  <2>1. PlaceOf(i) \in Places /\ pids[PlaceOf(i)] = i /\ told = Kept
    BY DEF Books, PidsPart
  <2>2. i # 0
    BY DEF Books, LaunchPart
  <2> QED BY <2>1, <2>2 DEF Kept
<1> QED BY <1>1, BooksCorrect, PTL

Alive == {i \in DOMAIN procs : ~Gone(procs[i])}

LifePart ==
  /\ phase \in {"setup", "failed"} => procs = <<>>
  /\ phase \notin {"unlink", "done"} => told = {}

\* The phases that leave the memory as it is.
LEMMA PhaseKeeps ==
  ASSUME [Next]_vars, ~Setup, ~Spawn, ~Terminate, ~Unlink
  PROVE  /\ MemoryState' = MemoryState /\ told' = told
         /\ phase' \in {"setup", "failed"} => phase \in {"setup", "failed"}
         /\ phase \in {"unlink", "done"} => phase' \in {"unlink", "done"}
<1> USE DEF simVars
<1>1. ASSUME phase' = phase
      PROVE  /\ MemoryState' = MemoryState
             /\ phase' \in {"setup", "failed"} => phase \in {"setup", "failed"}
             /\ phase \in {"unlink", "done"} => phase' \in {"unlink", "done"}
  BY <1>1 DEF MemoryState
<1>2. ASSUME phase \in {"read", "prepared", "play", "destroy"},
             phase' \in {"prepared", "exited", "play", "destroy", "stuck", "terminate"}
      PROVE  /\ MemoryState' = MemoryState
             /\ phase' \in {"setup", "failed"} => phase \in {"setup", "failed"}
             /\ phase \in {"unlink", "done"} => phase' \in {"unlink", "done"}
  BY <1>2 DEF MemoryState
<1>3. CASE Play \/ ForkFails \/ BeginCleanup \/ EndDestroy
  BY <1>2, <1>3 DEF Play, ForkFails, BeginCleanup, EndDestroy
<1>4. CASE \E k \in Known : Prepare(k)
  BY <1>2, <1>4 DEF Prepare
<1>5. CASE \E k \in Known : Skip(k)
  BY <1>1, <1>5 DEF Skip
<1>6. CASE \E k \in Kinds : Destroy(k)
  BY <1>2, <1>6 DEF Destroy
<1>7. CASE \E i \in DOMAIN procs : Process(i)
  BY <1>1, <1>7 DEF Process, Exec, MapFails, Attach, Wait, Wake, Exit, Die
<1>8. CASE UNCHANGED vars
  BY <1>1, <1>8 DEF vars
<1> QED
  BY <1>3, <1>4, <1>5, <1>6, <1>7, <1>8 DEF Next, Launching, Cleaning

\* A step of a process brings none to life.
LEMMA ProcessAlive ==
  ASSUME Books, WorkPart, NEW i \in DOMAIN procs, Process(i)
  PROVE  Alive' \subseteq Alive
<1>1. LaunchPart
  BY DEF Books
<1>2. /\ ~Gone(procs[i]) /\ DOMAIN procs' = DOMAIN procs
      /\ \A j \in DOMAIN procs : j # i => procs'[j] = procs[j]
  BY <1>1, ProcessWorks, ProcessKeeps
<1> QED BY <1>2 DEF Alive

\* What a step does to the processes that run, by action.
LEMMA LifeStep ==
  ASSUME Books, WorkPart, LifePart, [Next]_vars
  PROVE  LifePart' /\ [Promise!Next]_(Promise!vars)
<1> USE DEF simVars
<1>1. LaunchPart /\ procs \in Seq(ProcRecord)
  BY DEF Books, LaunchPart
<1>2. Promise!vars = <<MemoryState, Alive, Kept, told>>
  BY DEF Promise!vars, Alive
<1>3. ASSUME UNCHANGED <<MemoryState, pids, told>>, Alive' \subseteq Alive
      PROVE  [Promise!Next]_(Promise!vars)
  <2>1. Kept' = Kept
    BY <1>3 DEF Kept
  <2> QED BY <1>3, <2>1 DEF Promise!Next, Promise!End, Alive
<1>4. CASE Setup
  <2>1. /\ phase = "setup" /\ phase' \in {"read", "failed"} /\ procs' = procs /\ procs = <<>>
        /\ UNCHANGED <<pids, told>> /\ told = {}
    BY <1>4 DEF Setup, LifePart
  <2>2. LifePart'
    BY <2>1 DEF LifePart
  <2>3. Alive' = Alive /\ Kept' = Kept
    BY <2>1 DEF Alive, Kept
  <2>4. CASE phase' = "failed"
    <3>1. MemoryState' = MemoryState
      BY <2>1, <2>4 DEF MemoryState
    <3> QED BY <1>3, <2>1, <2>2, <2>3, <3>1
  <2>5. CASE phase' = "read"
    <3>1. MemoryState = "none" /\ MemoryState' = "there"
      BY <2>1, <2>5 DEF MemoryState
    <3> QED BY <2>1, <2>2, <2>3, <3>1 DEF Promise!Next, Promise!Make, Alive
  <2> QED BY <2>1, <2>4, <2>5
<1>5. CASE Spawn
  <2> DEFINE new == Forked(line, count[line])
  <2>1. /\ phase = "prepared" /\ phase' = "read" /\ procs' = Append(procs, new)
        /\ lines \in 0..MaxLines /\ Len(procs) + 1 <= lines
        /\ told' = told /\ told = {}
    BY <1>5 DEF Spawn, Books, BookPart, LinesPart, AtWork, LifePart
  <2>2. ~Gone(new)
    BY DEF Gone, Forked
  <2> HIDE DEF new
  <2>3. LifePart'
    BY <2>1 DEF LifePart
  <2>4. MemoryState = "there" /\ MemoryState' = "there"
    BY <2>1 DEF MemoryState
  <2>5. Len(procs) + 1 \notin Alive /\ Alive' = Alive \cup {Len(procs) + 1}
    <3>1. /\ Len(procs) \in Nat /\ DOMAIN procs = 1..Len(procs)
          /\ DOMAIN procs' = 1..Len(procs) \cup {Len(procs) + 1}
          /\ procs'[Len(procs) + 1] = new
          /\ \A j \in 1..Len(procs) : procs'[j] = procs[j]
      BY <1>1, <2>1
    <3>2. Len(procs) + 1 \notin 1..Len(procs)
      BY <3>1
    <3> QED BY <2>2, <3>1, <3>2 DEF Alive
  <2>6. Len(procs) + 1 \in 1..MaxLines
    <3>1. Len(procs) \in Nat /\ MaxLines \in Nat
      BY <1>1, SimulatorAssumption
    <3> QED BY <2>1, <3>1
  <2>7. Kept' \subseteq Kept \cup {Len(procs) + 1}
    <3>1. \A p \in Places : pids'[p] \in {pids[p], Len(procs) + 1}
      BY <1>5 DEF Spawn, Note
    <3> QED BY <3>1 DEF Kept
  <2>8. Promise!Launch(Len(procs) + 1)
    BY <2>1, <2>4, <2>5, <2>7 DEF Promise!Launch, Alive
  <2> QED BY <2>3, <2>6, <2>8 DEF Promise!Next
<1>6. CASE Terminate
  <2>1. /\ phase = "terminate" /\ phase' = "unlink" /\ told' = Kept
        /\ UNCHANGED <<procs, pids>>
    BY <1>6 DEF Terminate
  <2>2. LifePart'
    BY <2>1 DEF LifePart
  <2>3. MemoryState = "there" /\ MemoryState' = "there"
    BY <2>1 DEF MemoryState
  <2>4. Alive' = Alive /\ Kept' = Kept
    BY <2>1 DEF Alive, Kept
  <2>5. Promise!Tell
    BY <2>1, <2>3, <2>4 DEF Promise!Tell, Alive
  <2> QED BY <2>2, <2>5 DEF Promise!Next
<1>7. CASE Unlink
  <2>1. /\ phase = "unlink" /\ phase' = "done" /\ UNCHANGED <<procs, pids, told>>
        /\ told = Kept
    BY <1>7 DEF Unlink, Books, PidsPart
  <2>2. Alive' = Alive /\ Kept' = Kept
    BY <2>1 DEF Alive, Kept
  <2>3. LifePart'
    BY <2>1 DEF LifePart
  <2>4. MemoryState = "there" /\ MemoryState' = "gone"
    BY <2>1 DEF MemoryState
  <2>5. Promise!Release
    BY <2>1, <2>2, <2>4 DEF Promise!Release, Alive
  <2> QED BY <2>3, <2>5 DEF Promise!Next
<1>8. CASE ~Setup /\ ~Spawn /\ ~Terminate /\ ~Unlink
  <2>1. /\ MemoryState' = MemoryState /\ told' = told /\ pids' = pids
        /\ phase' \in {"setup", "failed"} => phase \in {"setup", "failed"}
        /\ phase \in {"unlink", "done"} => phase' \in {"unlink", "done"}
    BY <1>8, PhaseKeeps, CountKept
  <2>2. Alive' \subseteq Alive
    <3>1. CASE \E i \in DOMAIN procs : Process(i)
      BY <3>1, ProcessAlive
    <3>2. CASE \A i \in DOMAIN procs : ~Process(i)
      BY <1>8, <3>2, ProcsKept DEF Alive
    <3> QED BY <3>1, <3>2
  <2>3. procs = <<>> => procs' = <<>>
    <3>1. ASSUME procs = <<>> PROVE \A i \in DOMAIN procs : ~Process(i)
      BY <3>1
    <3> QED BY <1>8, <3>1, ProcsKept
  <2>4. LifePart'
    BY <2>1, <2>3 DEF LifePart
  <2> QED BY <1>3, <2>1, <2>2, <2>4
<1> QED BY <1>4, <1>5, <1>6, <1>7, <1>8

\* The simulator implements Lifecycle, for every INIT section, also with lines too many,
\* and for every interleaving with the processes: none starts before there is memory
\* for it, and the memory is released only when every process that runs and whose
\* number is still kept was sent a SIGTERM.
THEOREM Implements == SafeSpec => ImplementsLifecycle
<1>1. Init => LifePart /\ Promise!Init
  <2> SUFFICES ASSUME Init PROVE LifePart /\ Promise!Init
    OBVIOUS
  <2>1. Kept = {}
    BY DEF Init, Kept
  <2> QED BY <2>1 DEF Init, LifePart, Promise!Init, MemoryState
<1>2. Books /\ WorkPart /\ LifePart /\ [Next]_vars => LifePart' /\ [Promise!Next]_(Promise!vars)
  BY LifeStep
<1> QED
  BY <1>1, <1>2, BooksCorrect, WorkPartCorrect, PTL DEF SafeSpec, ImplementsLifecycle, Promise!Spec
=============================================================================
