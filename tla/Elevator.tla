-------------------------------- MODULE Elevator --------------------------------
(***************************************************************************)
(* An elevator, elevator.c: a loop that waits for one message, queues the   *)
(* request in it and then makes one decision about the car.                 *)
(*                                                                         *)
(* The decisions are taken under shm_mutex, a mutex of the process, and not *)
(* under the mutex of the shared record, so each test of the record, each    *)
(* write to it and each signal is a step, and the car moves in between.     *)
(*                                                                         *)
(* The car is external, modelled from the record (data_structs.h:64-72): it *)
(* waits for cond_elevator, then moves one floor in the given direction or  *)
(* finishes opening or closing its door.                                    *)
(***************************************************************************)
EXTENDS ElevatorQueue

CONSTANTS
  Lowest,      \* lowest and highest floor of the building
  Highest,
  Asked,       \* the requests, pairs of numbers that need not be floors of the building
  MaxRequests  \* bound: number of requests

ASSUME ElevatorAssumption ==
  /\ Lowest \in Nat \ {0} /\ Highest \in Nat /\ Lowest <= Highest
  /\ Asked \subseteq Int \X Int
  /\ MaxRequests \in Nat

Floors == Lowest..Highest

VARIABLES
  queue,      \* request_queue
  size,       \* queue_size
  overrun,    \* history: memory behind the array has been written
  status,     \* shared: "C" closed, "o" opening, "O" open, "c" closing, "M" moving
  direction,  \* shared: "U", "D" or "-"
  floor,      \* shared: where the car is
  controller, \* where the process is, see ControllerPlaces
  car,        \* the car: "waits", was "told", moves "up" or "down", or "doors"
  peer,       \* the other end of the connection: "open" or "closed"
  requests,   \* history: number of requests received
  fromDue     \* history: floors with people waiting, not opened at since

queueVars  == <<queue, size, overrun>>
recordVars == <<status, direction, floor>>
vars == <<queueVars, recordVars, controller, car, peer, requests, fromDue>>

\* "arrived", "above", "below", "opened": about to test that condition; "open",
\* "up", "down": found it true; "hold", "linger": in pthread_cond_timedwait(); "aim"
\* to "close": on the way from one to the other; "tell", "tell closed": about to signal
\* the car, to go on at "recv" or at "linger".
ControllerPlaces ==
  {"recv", "begin", "arrived", "above", "below", "opened", "open", "up", "down",
   "hold", "aim", "rise", "turn", "sink", "level", "close", "linger", "tell",
   "tell closed"}

Init ==
  /\ queue = EmptyArray /\ size = 0 /\ overrun = FALSE
  /\ status = "C" /\ direction = "-" /\ floor \in Floors
  /\ controller = "recv" /\ car = "waits" /\ peer = "open"
  /\ requests = 0 /\ fromDue = {}

Goto(p) == controller' = p

-----------------------------------------------------------------------------
(* One message.                                                             *)

Named == {r[i] : r \in Asked, i \in {1, 2}}
Entries == [from_floor : Named \cup {0}, to_floor : Named \cup {0}]

\* What the loops over the entries find: once the size is beyond the array, the last
\* entry is whatever the memory there holds at the time.
Seen ==
  IF size <= MaxFloors THEN {queue}
  ELSE {[queue EXCEPT ![MaxFloors] = e] : e \in Entries}

\* Any two numbers will do.  Only the first message of what recv() returns counts: one that
\* came with it is as if it had not been sent.
Receive(from, to) ==
  /\ controller = "recv" /\ peer = "open"
  /\ requests < MaxRequests
  /\ requests' = requests + 1
  /\ \E q \in Seen :
       LET new == Enqueue(q, size, from, to, direction)
       IN  /\ queue' = new.array /\ size' = new.size
           /\ overrun' = (new.top >= MaxFloors)
  /\ fromDue' = fromDue \cup ({from} \cap Floors)
  /\ Goto("begin")
  /\ UNCHANGED <<recordVars, car, peer>>

\* A message of another form, an error, or the end of the connection.
ReceiveNothing ==
  /\ controller = "recv"
  /\ Goto("begin")
  /\ UNCHANGED <<queueVars, recordVars, car, peer, requests, fromDue>>

-----------------------------------------------------------------------------
(* elevator_operation: one decision.                                        *)

Head == queue[0].from_floor

Begin ==
  /\ controller = "begin"
  /\ Goto(IF size = 0 THEN "recv" ELSE "arrived")
  /\ UNCHANGED <<queueVars, recordVars, car, peer, requests, fromDue>>

Test(here, condition, then, else) ==
  /\ controller = here
  /\ Goto(IF condition THEN then ELSE else)
  /\ UNCHANGED <<queueVars, recordVars, car, peer, requests, fromDue>>

\* The chain of else-ifs; each condition reads the record anew.
TestArrived == Test("arrived", floor = Head /\ status = "C", "open", "above")
TestAbove   == Test("above", Head > floor /\ status = "C", "up", "below")
TestBelow   == Test("below", Head < floor /\ status = "C", "down", "opened")
TestOpened  == Test("opened", status = "O", "hold", "recv")

\* The request at the head is done with.
Serve ==
  /\ \E q \in Seen : queue' = DropFirst(q, size)
  /\ size' = size - 1
  /\ fromDue' = fromDue \ {Head}
  /\ UNCHANGED overrun

\* Mutated form: the door is reported open at once.
OpenDoor_Skips ==
  /\ controller = "open"
  /\ status' = "open"
  /\ Serve
  /\ Goto("tell")
  /\ UNCHANGED <<direction, floor, car, peer, requests>>

OpenDoor ==
  /\ controller = "open"
  /\ status' = "o"
  /\ Serve
  /\ Goto("tell")
  /\ UNCHANGED <<direction, floor, car, peer, requests>>

Direct(place, way, then) ==
  /\ controller = place
  /\ direction' = way
  /\ Goto(then)
  /\ UNCHANGED <<queueVars, status, floor, car, peer, requests, fromDue>>

GoUp   == Direct("up", "U", "tell")
GoDown == Direct("down", "D", "tell")

\* The door open time is over or the car has signalled.
EndHold == Test("hold", status = "O", "aim", "recv")

\* The direction becomes that of the head of the queue.
TestHigher == Test("aim", Head > floor, "rise", "turn")
TestLower  == Test("turn", Head < floor, "sink", "level")

Aim ==
  Direct("rise", "U", "close") \/ Direct("sink", "D", "close") \/ Direct("level", "-", "close")

CloseDoor ==
  /\ controller = "close"
  /\ status' = "c"
  /\ Goto("tell closed")
  /\ UNCHANGED <<queueVars, direction, floor, car, peer, requests, fromDue>>

\* pthread_cond_signal(cond_elevator): lost unless the car waits.
SignalCar ==
  /\ car' = IF car = "waits" THEN "told" ELSE car
  /\ \/ controller = "tell" /\ Goto("recv")
     \/ controller = "tell closed" /\ Goto("linger")
  /\ UNCHANGED <<queueVars, recordVars, peer, requests, fromDue>>

\* Mutated form: an untimed wait, which only the car can end.
EndWait_Untimed ==
  /\ controller = "linger" /\ car = "doors"
  /\ Goto("recv")
  /\ UNCHANGED <<queueVars, recordVars, car, peer, requests, fromDue>>

\* The wait time is over or the car has signalled.
EndWait ==
  /\ controller = "linger"
  /\ Goto("recv")
  /\ UNCHANGED <<queueVars, recordVars, car, peer, requests, fromDue>>

Operation ==
  \/ Begin \/ TestArrived \/ TestAbove \/ TestBelow \/ TestOpened
  \/ OpenDoor \/ GoUp \/ GoDown
  \/ EndHold \/ TestHigher \/ TestLower \/ Aim \/ CloseDoor \/ EndWait
  \/ SignalCar

-----------------------------------------------------------------------------
(* The environment (external).                                              *)

PeerCloses ==
  /\ peer = "open"
  /\ peer' = "closed"
  /\ UNCHANGED <<queueVars, recordVars, controller, car, requests, fromDue>>

Step(way) == IF way = "U" THEN 1 ELSE IF way = "D" THEN -1 ELSE 0

\* Told to go somewhere it can go, told to move its door, or told nothing new.
CarStarts ==
  /\ car = "told"
  /\ \/ /\ status = "C" /\ direction # "-"
        /\ floor + Step(direction) \in Floors
        /\ status' = "M" /\ car' = IF direction = "U" THEN "up" ELSE "down"
     \/ /\ status \in {"o", "c"}
        /\ car' = "doors"
        /\ UNCHANGED status
     \/ /\ ~(status \in {"o", "c"})
        /\ ~(status = "C" /\ direction # "-" /\ floor + Step(direction) \in Floors)
        /\ car' = "waits"
        /\ UNCHANGED status
  /\ UNCHANGED <<queueVars, direction, floor, controller, peer, requests, fromDue>>

CarArrives ==
  /\ car \in {"up", "down"}
  /\ floor' = IF car = "up" THEN floor + 1 ELSE floor - 1
  /\ status' = "C"
  /\ car' = "waits"
  /\ UNCHANGED <<queueVars, direction, controller, peer, requests, fromDue>>

DoorEnds ==
  /\ car = "doors"
  /\ status' = IF status = "o" THEN "O" ELSE IF status = "c" THEN "C" ELSE status
  /\ car' = "waits"
  /\ UNCHANGED <<queueVars, direction, floor, controller, peer, requests, fromDue>>

Car == CarStarts \/ CarArrives \/ DoorEnds

-----------------------------------------------------------------------------
Next ==
  /\ ~overrun   \* what follows is not modelled
  /\ \/ \E r \in Asked : Receive(r[1], r[2])
     \/ ReceiveNothing
     \/ Operation
     \/ PeerCloses
     \/ Car

SafeSpec == Init /\ [][Next]_vars

\* A recv() on a closed connection returns, the process runs on, its timed waits
\* end, and the car does what it was told.
Fairness ==
  /\ WF_vars(peer = "closed" /\ ReceiveNothing)
  /\ WF_vars(Operation)
  /\ WF_vars(Car)

Spec == SafeSpec /\ Fairness

-----------------------------------------------------------------------------
(* Properties.                                                              *)

\* Every variable has its type: in the record only the values that
\* data_structs.h:66-68 lists.  The size may be one above MAX_QUEUE_SIZE, as the
\* test for a full queue admits a request that adds two (elevator.c:47, 118).
TypeOK ==
  /\ queue \in [Cells -> Entries]
  /\ size \in 0..(MaxQueueSize + 1) /\ overrun \in BOOLEAN
  /\ status \in {"C", "o", "O", "c", "M"} /\ direction \in {"U", "D", "-"}
  /\ floor \in Floors
  /\ controller \in ControllerPlaces
  /\ car \in {"waits", "told", "up", "down", "doors"} /\ peer \in {"open", "closed"}
  /\ requests \in 0..MaxRequests
  /\ fromDue \subseteq Floors

\* A request of which one floor is queued is inserted between the entries that
\* are there, while these are in the array: none is lost and their order stays
\* (elevator.c:78-99).
PairKeepsOrder ==
  [][size <= MaxFloors /\ size' = size + 1 =>
       \E i \in 0..size : \A k \in 0..(size - 1) :
         queue[k] = queue'[IF k < i THEN k ELSE k + 1]]_vars

\* Nobody signals cond_controller but the car, which need not: the process comes
\* back from both waits of the open door all the same (elevator.c:185, :207).
WaitsEnd == controller \in {"hold", "linger"} ~> controller = "recv"

Stops == {queue[k].from_floor : k \in 0..(size - 1)}

\* The comment in enqueue_request, elevator.c:46: "Queue is only full if all
\* buttons are pressed already. Shouldn't be possible."  So the array never is
\* written behind its end.
QueueInBounds == ~overrun

\* The comment at elevator.c:101: "If neither floors are in the queue, we insert
\* both floors appropriately".  Where people wait the car will stop.
StopsKept == fromDue \subseteq Stops
=============================================================================
