# A TLA+ model of the building safety system

The repository is a student implementation (CAB403) of a building's safety and
access system: a simulator starts one process per component, the processes talk
over TCP and UDP on localhost, and each has a record in one POSIX shared-memory
object through which it meets its "hardware" (a button, a card scanner, a car).
This directory holds TLA+ modules of it, TLC configurations that check them, and
TLAPS proofs.  Line numbers refer to files under `src/source/`.

## 1. Inventory

| Component | State | Operations | Meets |
|---|---|---|---|
| Fire alarm unit, `firealarm.c` | alarm flag (shared), door registry (100 entries), detection count and time, TCP link to the overseer | takes FIRE, TEMP and DOOR datagrams; raises the alarm; opens every door over TCP; confirms registrations | call points and sensors (UDP), overseer and doors (TCP) |
| Call point, `callpoint.c` | status, mutex, condition variable (shared) | sends FIRE and sleeps while active, else waits | button (shared memory), fire alarm unit (UDP) |
| Card reader, `cardreader.c` | card, response, mutex, two condition variables (shared); receive buffer | HELLO; per scan: connect, ask, receive or time out, publish | scanner (shared memory), overseer (TCP) |
| Destination selector, `destselect.c` | card, floor, response, mutex, two condition variables (shared) | copy, unlock, ask, publish, again | panel (shared memory), overseer (TCP) |
| Elevator, `elevator.c` | request queue and size (private); status, direction, floor (shared) | receive and queue a request; one decision per message | sender of requests (TCP), car (shared memory) |
| Temperature sensor, `tempsensor.c`, `helper_functions.c:477-517` | receiver list, temperature and mutex (shared) | turns receiver codes into addresses, reads its record, sends a datagram to each, ends after one round | thermometer (shared memory), receivers (UDP) |
| Door, `door.c` | listening port, a thread per connection (its record is in its own memory and never changes) | accepts, starts a thread; the thread closes | fire alarm unit (TCP) |
| Overseer, `overseer.c` | array of 100 connected sockets | binds, listens, accepts, stores | card readers (TCP) |
| Simulator, `simulator.c`, `helper_functions.c` | counters, process ids, the shared-memory object | reads a scenario; per INIT line prepares a record, forks, execs; prints the scenario; cleans up | every process |
| Shared memory, `helper_functions.c:85-144`, `data_structs.h` | areas of records | layout | everybody |

How they interact.  UDP datagrams may be lost, repeated or reordered.  TCP
connections may be refused, reset or stay silent.  Shared records are guarded by
mutexes and condition variables whose signals are lost when nobody waits.  The
processes are started and killed by the simulator and never restarted.

What is hard: a wake-up lost between a test and a wait; an answer that arrives
for a scan that is no longer the one in the record; a registry or queue at the
end of its array; a door registered after the alarm; an action of the car
between a test and the write that rests on it; a clean-up that races the
processes it cleans up after.  `PROJECT.json` lists each at its line
(`hazards`), with the property that would catch it, or why none does.

What makes each component correct:

- fire path: no alarm without a cause, the alarm before the doors, every
  registered door tried, and in the end opened, whatever is lost on the way;
- card reader and selector: a `Y` only for the showing the overseer allowed, and
  an answer for every showing;
- overseer, door: every connection kept or closed exactly once, nobody held up;
- temperature sensor: every receiver served;
- elevator: where people wait or want to go the car stops;
- simulator and shared memory: records apart, initialised before they are used,
  ports and receiver codes that agree, nobody left behind by a clean-up.

## 2. Modules

| Module | Models | Kind |
|---|---|---|
| `FireAlarm` | the main loop of `firealarm.c` against any datagrams | component |
| `Callpoint` | the main loop of `callpoint.c` and the button | component |
| `FireSystem` | both, with the network between them | composition |
| `EmergencyRelease` | what the fire path promises | abstract specification |
| `Cardreader` | `cardreader.c` with its scanner; open towards the overseer | component |
| `Overseer` | `overseer.c`; open towards its clients | component |
| `AccessSystem` | a card reader, its scanner and the overseer | composition |
| `AccessPoint` | what a place to show a card promises | abstract specification |
| `Destselect` | `destselect.c` with panel and overseer | component |
| `ElevatorQueue` | `elevator.c:14-122`, the queue as operators | pure algorithm |
| `Elevator` | `elevator.c` with the car | component |
| `Door` | `door.c`; open towards its clients | component |
| `Addresses` | ports of the processes, and the receiver codes | pure functions |
| `Tempsensor` | `tempsensor.c` with its thermometer; open towards the network | component |
| `EmergencyPath` | sensors, fire alarm unit and doors | composition |
| `SharedMemory` | layout of the object | pure arithmetic |
| `Simulator` | launch and clean-up of `simulator.c` with the life of the processes | component |
| `Lifecycle` | what the simulator promises of processes and memory | abstract specification |
| `MCDestselect`, `MCElevator`, `MCEmergencyPath`, `MCSimulator` | constants for TLC | model checking |
| `FireAlarmProofs`, `FireSystemProofs` | theorems about the unit, and about the fire path | proofs |
| `AccessProofs` | theorems about `Cardreader` and `AccessSystem` | proofs |
| `DestselectProofs` | theorems about `Destselect` | proofs |
| `EmergencyPathProofs` | theorems about `Door`, `Tempsensor` and `EmergencyPath` | proofs |
| `ElevatorProofs` | lemmas about `ElevatorQueue`, theorems about `Elevator` | proofs |
| `SimulatorProofs` | theorems about `SharedMemory`, `Addresses` and `Simulator` | proofs |

Definitions named `Operation_Something` ("Mutated form") are plausible bugs in
the operation before which they stand.  Nothing uses them; `mutants` in
`PROJECT.json` says which property each one breaks when it replaces the
operation.

How state and actions correspond to the code:

- **FireAlarm.**  `unit` is the program counter: in `recvfrom()`, about to set the
  flag, in the loop over the doors, dead.  `doors` stands for `door_addrs`,
  `door_ports` and `door_count`.  A TEMP reading is abstracted to "hot" or not;
  a cold one, an unknown header and an error change nothing.  Raising the flag and
  each door are steps of their own because other processes see the flag and the
  doors in between.  `link` is TCP's answer to a send after the peer has closed:
  lost, then SIGPIPE.  `attempted`, `readings` and `cause` are history.
- **Callpoint.**  One step per call on the mutex or the condition variable;
  `pthread_cond_wait` is the three steps that POSIX makes of it, and it may return
  without a signal.
- **FireSystem.**  The datagrams in flight are a set; a delivery may leave the
  datagram there (repetition), any order is possible, and `Lose` drops one.
- **Cardreader.**  The loop keeps the mutex while it asks the overseer, so
  the record cannot change between the copy and the answer.  `buffer` is
  `recv_msg`: it keeps its content between scans, and line 88 compares it even
  when `recv()` has timed out.  `requests` has an entry per connection, because
  every connection stays open and a late verdict stays on its own.
- **Overseer, AccessSystem.**  `sockets` is the array with its counter; failures of `accept()`
  are stored too.  `createListenAddress` compares a fresh pointer with a string, so the
  address is whatever `malloc()` found, and `bind()` may fail: then the overseer
  listens on a port nobody knows (`port` = "other").  A connection is refused exactly when
  the overseer does not listen, waits when its queue is full, and breaks when it
  ends, or is closed without a reply (`HangUp`: `recv()` returns 0, which is published as
  an `N`).  Its handler is an empty function: `handler` says whether it stays so or
  answers as `cardreader.c` expects.
- **Door.**  `main()` and the threads interleave; `threads` holds the private copy of the
  descriptor each thread got, and descriptors are reused, the lowest first, as the
  kernel does.  `form` is how the door was started: the usage line names one
  argument more than `main()` admits, and the simulator passes address and port as one, so
  only a door started by hand listens where it is expected.  `accept()` fails without a
  descriptor (`AcceptFails`) or for a reason of its own (`AcceptAborts`); both end the door.
- **Tempsensor.**  One step per call on the mutex.  The datagram is never filled in, so what
  goes out are the bytes that lie on the stack: any of `Datagrams`, a FIRE, a TEMP or a DOOR
  among them.  The temperature is left out, since it is read and goes nowhere: `prev_temperature`
  keeps its first value, so the conditions of the update always hold.  The loop ends with a `break`.
- **EmergencyPath.**  A sensor's datagram reaches the unit if it goes to the unit's port.
  The unit's `OpenDoor` is the door's `Connected`, its `SkipDoor` a door that does not
  listen; a full queue makes it wait; and without a socket the unit ends in the middle of the
  loop (`NoSocket`).  Fire, registrations, the unit's clock and the end of the overseer
  (`Around`) come from outside at any time.
- **Destselect.**  Card and floor are copied by two steps, with the mutex, and
  answered after it was released and taken again.  The card is never cleared.
  Cards are assumed to be terminated strings.
- **Elevator.**  Every test of the record, every write to it and every signal is a step.
  `recv()` drives the loop: one message (or an error, or the end of the connection) and then
  one decision.  A request is any two numbers of `Asked`; a second message in what one `recv()`
  returns is lost, as if it had not been sent.  `Enqueue` says up to which index it wrote, and
  `overrun` holds once that is behind the array; there the model stops, since nothing is known of
  what the code does after it.  Size and array are two things: a request that adds two writes
  one entry, so the size can pass the length of the array, and even its own limit by one, before
  anything is written behind it.  What the loops then read there is any entry (`Seen`).
- **Simulator.**  `Setup` makes the memory.  `Prepare` is `initialize_<kind>`, `Spawn` the fork and the counters.  A
  process is `forked` (a quarter of a second before `execv()`), `started`,
  `working`, `waiting` or gone.  What it is told is its offset and its port.  A line
  without a word leaves `component` as it was and stands for the line before once more, which the
  choice of lines includes.  Neither the areas nor `ProcessPIDs` are compared with the counters:
  a line too many prepares its record in the next area and writes its process number to the
  next array (`Place`), and a number replaced or written behind them all is lost.  `Terminate` only
  sends SIGTERM (`told`); a process that was told ends when it ends (`Die`), maybe after the
  memory is unlinked.  `Destroy` on a condition variable with waiters, or on one that another
  record was initialised over, is undefined: the model lets it return or not.  What a program does
  at its start is in the free `Exit`: a card reader whose HELLO is refused ends there
  (`cardreader.c:38`; `AccessSystem` has that step for step).

External parts, modelled from how the code uses them and marked so in
`map`: the button, the scanner, the panel, the car and the thermometer (each from its record in
`data_structs.h`), the overseer's verdicts, the kernel's side of a connection, the network, and the senders of TEMP
and DOOR datagrams (no source sends a datagram of the layout that
`firealarm.c:20-39` reads).

## 3. Runs

Runs that pass:

| Run | Question | Bounds, and why they are enough |
|---|---|---|
| `FireAlarm` | the unit alone: registry, confirmations, order of flag and doors, detection counter, completeness of a sweep, what a sweep that fails leaves behind, under all faults | two doors (first and last of a loop), as many entries as doors, threshold 2, period 1, clock to 4, four hot readings: bursts, silences and a burst after a silence all occur |
| `FireSystem` | no press is lost; no fire is made up; an active call point keeps sending; `EmergencyRelease` is implemented; every door registered is opened in the end | one call point, two doors, so that one can be registered before and one after the alarm, one hot reading; every loss, repetition and reordering |
| `AccessSystem` | who gets a `Y`; no mutual sleep; every scan answered; nobody let in by the overseer as it stands; its array grows by one place per connection; `AccessPoint` is implemented | two cards, two scans, three descriptors, one failed `accept()`, a queue of one: a stale reply, a late verdict, a wait for the queue, an overseer that is late, unreachable or gone, and the end of the descriptors all occur; the array of 100 is not reached |
| `MCEmergencyPath` | a door's connections are closed exactly once and in the end; sweeps end; FIRE reaches a door that is started late; every receiver is served | one door with two descriptors and a queue of one, so that descriptors are reused, run out, and callers wait; a unit that may have no socket, an `accept()` and a `pthread_create()` that may fail; one hot reading, the clock to 1; one sensor with the receivers of the last line of `tempsensor.txt` and a word that means nothing |
| `MCDestselect` | no card combined with another showing's floor; no mutual sleep; every showing answered while requests get through | two cards, two floors, each card permitted to one floor, any number of showings |
| `MCElevator` | codes in the record; a pair is inserted between what is queued; the waits with the door open end | three floors, three requests, among them one floor twice and floors that do not exist, an array of six, which three requests fill at most |
| `MCSimulator` | records apart, initialised before use, worked on by one process (the elevators apart), ports apart and as the receiver codes mean them; the clean-up tells every process to end where the areas have room for the lines; `Lifecycle` is implemented: the memory is made first and released after the signals | up to three INIT lines of six kinds, the record sizes of a 64-bit build; areas of one or two records, so that three lines can be too many, replace a process number and damage the next area; `TotalAsPrinted` checks the layout against the total that `simulator.c` prints |

Runs that must find a violation.  Each checks one property that a comment of
the sources states, and `findings` quotes it:

| Run | What the code does |
|---|---|
| `CardreaderTimeout` | after a time-out the answer comes from the reply to an earlier scan and can be `Y` (`cardreader.c:86-88`) |
| `MCDestselectRace` | the answer to one pair of card and floor is published for the pair shown meanwhile (`destselect.c:54-90`) |
| `MCElevatorBounds` | the entry behind the array is written: the limit is twice the array's length and is tested before two are added; with an array of three, the third request does it (`elevator.c:12`, `47`) |
| `MCElevatorLostStop` | the insertion of a new pair drops the last stop of the queue, where people wait (`elevator.c:101-118`) |
| `MCSimulatorCleanup` | the clean-up can hang in a condition variable a card reader waits on, before any process is killed (`simulator.c:278-280`) |

Other places where the code departs from what its words suggest, seen while modelling
and kept in the models as they are: the threshold takes `{min detections}` + 1
hot readings (`firealarm.c:209`, stated by `TempAlarmIffBurst`); an elevator works
on the overseer's record and connects to its own address (`elevator.c:222-223`,
see `OneWorkerPerRecord`); a command for the car's door can come when the car already moves,
and a car can be sent past the first floor in the queue again and again, because the record
is tested and written without its mutex (`elevator.c:155-178`; the steps are in
`Elevator`, the car is not in the sources); a temperature sensor sends an uninitialised datagram
(`tempsensor.c:83`, `Datagrams`), so neither the overseer nor the unit ever learns a temperature; a door started by the simulator takes `FAIL_SAFE` for its
port (`door.c:49`, see `Forms` in `Door`); the fire alarm unit and the destination selector give an
offset to `mmap()` that it refuses (`firealarm.c:109`, `destselect.c:32`, action
`MapFails`); a scan's connection is never closed (`cardreader.c:58`, `FdLimit`); a
destination is stored and never served, and a pair in an empty queue leaves a
zeroed second entry (`elevator.c:85`, `118`).

### Deadlock

Most configurations switch deadlock checking off: the clock and the histories
are bounded, a process may die, and a sensor, a scanner or a scenario may come to its
end, so a state without successors is legitimate.  `FireSystem`
can always go on and is checked for deadlock.

### Fairness

Weak fairness is given to a process's own steps: they run on an ordinary scheduler,
and nothing suspends them.  An external actor is only assumed to finish what it has
begun (a button that holds its mutex releases it); none is made to begin.
Strong fairness is assumed exactly where the code relies on something that it
competes for or repeats: a mutex won again and again in the end (`ScannerLock`,
`PanelLock`, the selector's `Lock` and `Publish`), a datagram sent for ever
delivered in the end (`DeliverFire`), a door dialled for ever answering in the end
(`OpenDoor`).  A default
pthread mutex is not fair, so `KeepsSending` and `EveryDoorOpened` speak only of a
button that is left alone.  `recv()` of the card reader ends by its wait time, so no
answer of the overseer is assumed anywhere; that the overseer starts and accepts is, since a
connection waits for it.  A sensor wins its mutex from the thermometer in the end (`Lock`).
A door's `main()` and each of its threads run on, one fairness condition each.

No fault has to come: `NoSocket`, `AcceptAborts`, time-outs and losses are never forced.  Nor is it
assumed that a connection of the selector ever succeeds, since the address it connects to is never
filled in (`destselect.c:66`): `ShowingAnswered` says that showings are answered if requests get through
again and again.  `FireSystem` leaves out the death of the unit (no socket, SIGPIPE), of which
`FireAlarm` shows what it leaves behind: no door is opened by a unit that is gone, and
`EveryDoorOpened` says nothing of that case.

## 4. Theorems

Every invariant, every action property and every refinement that a passing run checks
is also proved by TLAPS, for every value of the constants that meets the named assumptions.
What stays with TLC is listed at the end of this section.

### Assumptions

The runs evaluate all of them.  Bounds (`MaxTime`, `MaxSwipes`, `MaxLines`, `DoorFds` and the
like) are natural numbers; sets of faults hold only kinds that the module defines.

| Assumption | Beyond that it says | Why |
|---|---|---|
| `DoorsAssumption`, `UnitAssumption` | no more doors than registry entries | the code does not check (`firealarm.c:234-237`); the scenarios have fewer |
| `CardreaderAssumption`, `DestselectAssumption` | the empty string is no card, 0 no floor | the records start with them, and the code takes them for "none" |
| `OverseerAssumption` | the array has a place | 100 in the source |
| `GivenAssumption` | what the receiver lists resolve to are ports of the overseer, the unit or a sensor, no more than the array of a sensor takes | `SelectSeq` is recursive, so what it returns cannot be proved (see below); for the lists that are used TLC evaluates it |
| `LayoutAssumption` | every record has a size, every area a record; one overseer, one fire alarm unit | `helper_functions.c:77-83` |
| `SimulatorAssumption` | at most 100 INIT lines, and so many records of any one kind do not reach the end of the object | the length of the array `init` (`simulator.c:34`); the area of the cameras is the last and large enough, which `LinesFit` checks for the real layout |
| `DoorAssumption` | the faults of a door are those of `accept()` and `pthread_create()` | the two calls whose failure the loop can meet (`door.c:80-93`) |
| `MaxFloorsAssumption`, `ElevatorAssumption` | the array has an entry; floors are numbered from 1 up; requests are pairs of numbers, of floors or not | floor 0 is what a zeroed entry holds; `process_request` takes any two integers |

### Fire alarm unit: `FireAlarmProofs`

`TypeCorrect` is the type invariant.  `RegistryDistinct`: the entries of the registry are
distinct (inductive by itself with the type, thanks to the duplicate test).  `RegistryBounded`
follows by counting: distinct entries are no more than the doors.  `ConfirmationsExact` is
inductive with its types.  `OpenedLate` needs to know of the places between the cause and the
first door (`ReactInv`: who is about to raise has a cause, who is in the loop has raised).
`SweepComplete` is an action property, from an invariant over the loop (`SweepInv`: all doors
before `next` have been tried); `FailedSweep` takes both invariants to the state a failed sweep
leaves behind.  `TempAlarmExact` is the hardest: the counter's meaning has to be stated
(`CountInv`: the last `detections` readings are close, and with the one before them no longer,
unless the threshold is reached).

### Fire path: `FireSystemProofs`

- `FireSourced`: every FIRE datagram and every FIRE alarm goes back to a pressed button
  (`SourceInv`: an active status has been pressed).
- `Implements`: the whole implements `EmergencyRelease`, step by step under `UnitInv`.
- `UnitRuns` and `CallpointsRun`: in the composition the unit and the call points take only
  steps of their own modules.  `FireAlarmProofs` is instantiated for the unit, so
  its theorems carry over (`UnitPromises`) and need no second proof.
- `PressKept`: no press is lost, from the mutual exclusion on the record (the mutex is held
  between the test of the status and the wait) for any number of call points.
- `SystemTypes`.

### Access: `AccessProofs`

`ReaderInv` is about a reader with any overseer: who holds the mutex where (`MutexInv`), that the
last request is about the card and the scan in the record while the reader holds it
(`RequestInv`), and the answer (`AnswerInv`).  From it follow `GrantsOnlyAllowed` and
`NotBothAsleep`, and that each step is a step or a stutter of `AccessPoint`
(`ReaderImplements`).  `SystemIsReader`: with the overseer of `overseer.c`
the reader is still such a reader, so the three results hold of the composition (`GrantsAllowed`,
`NeverBothAsleep`, `Implements`).

Two results are about the overseer as it stands.  `NobodyLetIn` needs `StubInv`: no request
has a verdict, so the buffer never holds `ALLOWED#`, not even after a time-out.  `PlacesUsed` needs
`PlacesInv`: the array, followed by the queue of the kernel, lists every connection in the order of
the requests.  Each action appends to it, or moves the first of the queue behind the last
of the array.

### Destination selector: `DestselectProofs`

`SelectorInv` follows card and floor through the copy that is made under the mutex:
the record holds a pair that was shown unless the panel is between its two writes (`RecordInv`,
`HalfInv`), the selector reads only when the panel is not (`MutexInv`), so what it asks about was
shown as a pair (`CopyInv`), and so was what it grants (`GrantInv`).  `GrantsCorrect` and `AwakeCorrect`
are consequences.  The stronger property that the answer is about the pair in the record
fails (`MCDestselectRace`).

### Sensors and doors: `EmergencyPathProofs`

`OwnersCorrect`: `Owned` says that the descriptors of a door are shared out between the
threads, `main()` and those lost in a failed `pthread_create()`, without two having the same.  One lemma per step
(`AcceptOwned`, `SpawnOwned`, ...) shows that it is kept, although descriptors are reused; counting
comes last (`CountOwned`).  `UnitRuns` and `UnitPromises` are as in the fire path; `PathTypes` collects the types of three components.

### Elevator: `ElevatorProofs`

Lemmas say what each operation on the queue returns for every array, size and
request: `FindInsertionIndex` an index up to the size (a set of natural numbers has a least element,
from the library's well-founded orders), `ShiftRight` the entries in their order with one place
free, and `Enqueue` one of three results (`EnqueueFacts`).  `PairInserted` is the
one with one entry more, while all entries are in the array.
For `TypeCorrect`, `ElevatorInv` has to know that the size is not 0 where a decision is taken (`PlacePart`),
that a moving car has a floor to go to (`CarPart`), and what the test for a full queue leaves of the
limit: the size is at most `MaxQueueSize` + 1, because a request that passes the test can add two
(`QueuePart`).  That the size stays within the limit, let alone within the array, is not a theorem: it is
false (`MCElevatorBounds`).

### Simulator and shared memory: `SimulatorProofs`

- `RecordsApart`: all records lie in the object, and no two that their areas have room for overlap,
  whatever the INIT lines and the record sizes, and though other lines may be too many (from products
  of naturals, area by area).
- `InitialisedBefore`: a program is told the offset of a record that was initialised before it was
  forked (`LaunchPart`: a line at work has its record, under the counter that the fork reads).
- `BooksCorrect`: the books agree with the processes.  `SlotOf(i)` counts the processes of the same
  kind before process i; `SlotsPart` says that process i was told the record and the port of that slot,
  which has been initialised, and that the counter is the number of such processes; `LinesPart` that
  there are no more processes than lines.  `PidsPart` is about process numbers: those kept are of
  processes, and while no kind has more lines than its area has records (`WithinAreas`), the number
  of process i is at the place of its slot.  That takes two processes not to share a place
  (`PlacesApart`).  `TypeCorrect` follows.
- `OneWorker`: from `SlotsPart` and the layout, since a process that works does so where its program
  puts it (`WorkPart`).  It holds within `WithinAreas`.
- `AddressesCorrect`: from `SlotsPart` and the ranges of the ports, with any number of lines.
- `NobodyMissed`: from `PidsPart`.  Within `WithinAreas` every process has its number kept, so
  `Terminate` tells each of them before the memory is unlinked.
- `Implements`: the simulator implements `Lifecycle`, for lines too many as well.  `Terminate` tells all
  processes whose numbers are kept, and no process is forked after it (`LifePart`), so at `Unlink`
  nobody known is left untold.  That the processes have ended by then is not promised: nobody
  waits for them.

### Model-checked only

- The liveness properties (`KeepsSending`, `EveryDoorOpened`, `ScanAnswered`, `ShowingAnswered`,
  `WaitsEnd`, `SweepEnds`, `FireReachesDoor`, `ConnectionsClosed`, `SensorServesAll`): the prover does not
  handle fairness and ENABLED.
- What a recursive definition computes for every input, here only the community modules'
  `SelectSeq` in `Addresses`: it takes induction over data.  No module of the project uses a RECURSIVE operator.
- The five properties that are violated, whose counterexamples are TLC's.

## 5. What is not modelled

- What the **overseer** is to do with a request, with doors and with the alarm: the source
  stops at storing the connection.
- The overrun of the overseer's array: the model stops counting on it there (`Overrun`), and no run reaches it.
- **main.c**: a draft that is not built.
- Reading scenario files, formatting arguments and printing: no state of their own.
  The simulator only prints the SCENARIO section; it never touches a record after
  the start.  Call points and cameras are never started by it.
- Start-up of the fire alarm unit, the call point, the selector and the elevator: a failure ends the process
  before it has any state.
- `callpoint.c`, `cardreader.c`, `destselect.c`, `door.c` and `elevator.c` include
  `shm_structs.h`, which is not in the repository; the models read the records of `data_structs.h` in its place.
- The door's call of `send_message_to_overseer`, which is defined nowhere, and its mutexes, which
  nobody locks.
- Receiver lists longer than a sensor's array of ten (`GivenAssumption`), and more than 100 INIT lines.
- What a process does with a record that another kind of component has initialised over: the model
  says which records that can be (`WithinAreas`).
- Processes left from an earlier, aborted run of the simulator, which keep their ports.
- Datagrams shorter than their layout, replies that fill the buffers (`cardreader.c:87`), scenario
  files longer than the simulator's array of lines, and delays so long that their product with 1000
  overflows (`elevator.c:182`).

## 6. Plan

Done, in this order: fire path (unit, call point, composition, abstract
specification, proofs), card reader with its abstract specification, destination
selector, elevator, shared memory and simulator with their proofs; then the overseer with
the card reader, door and sensor with the fire alarm unit, ports and receiver codes, and
the simulator's abstract specification.

An abstract specification of the elevator's service was tried and given up: the queue
drops stops (`MCElevatorLostStop`), never serves a destination, and a late command
can hold up even the first floor, so nothing of it is implemented but what the run checks.

Then the proofs, component by component, until no safety property was left that only TLC
had checked.

Next:

1. `ElevatorQueue`: what `InsertBoth` keeps, and which entry it loses, to state exactly what
   `MCElevatorLostStop` shows on an example;
2. `Destselect`: an abstract specification that allows the late answer, and its refinement;
3. the safety part of the liveness arguments: what measures decrease in a sweep, a scan and
   a clean-up.
