----------------------------- MODULE ElevatorProofs -----------------------------
(***************************************************************************)
(* Theorems about the elevator, for every building, every length of the     *)
(* array and any number of requests: what the operations on the queue       *)
(* return, the types, and that a pair is inserted between what is queued.   *)
(***************************************************************************)
EXTENDS Elevator, WellFoundedInduction, TLAPS

-----------------------------------------------------------------------------
(* The operations on the array.                                             *)

EntryOf(F) == [from_floor : F, to_floor : F]
ArrayOf(F) == [Cells -> EntryOf(F)]

\* A set of natural numbers has a least element.
LEMMA LeastOf ==
  ASSUME NEW T \in SUBSET Nat, T # {}
  PROVE  \E x \in T : \A y \in T : x <= y
<1>1. \E x \in T : \A y \in T : ~(<<y, x>> \in OpToRel(<, Nat))
  BY WFMin, NatLessThanWellFounded
<1>2. \A x, y \in Nat : <<y, x>> \in OpToRel(<, Nat) <=> y < x
  BY DEF OpToRel
<1>3. PICK x \in T : \A y \in T : ~(<<y, x>> \in OpToRel(<, Nat))
  BY <1>1
<1>4. ASSUME NEW y \in T PROVE ~(y < x)
  <2>1. x \in Nat /\ y \in Nat
    OBVIOUS
  <2> QED BY <1>2, <1>3, <2>1, Zenon
<1>5. \A y \in T : x <= y
  BY <1>4
<1> QED BY <1>5

\* A request is placed in front of an entry that is queued, or behind all.
LEMMA InsertionIndex ==
  ASSUME NEW q, NEW n \in Nat, NEW f, NEW d
  PROVE  FindInsertionIndex(q, n, f, d) \in 0..n
<1> DEFINE T == {i \in 0..(n - 1) : Further(q[i], f, d)}
<1>1. CASE T = {}
  BY <1>1 DEF FindInsertionIndex
<1>2. CASE T # {}
  <2>1. PICK x \in T : \A y \in T : x <= y
    <3>1. T \in SUBSET Nat
      OBVIOUS
    <3> HIDE DEF T
    <3> QED BY <1>2, <3>1, LeastOf
  <2>2. /\ x \in 0..(n - 1) /\ Further(q[x], f, d)
        /\ \A j \in 0..(x - 1) : ~Further(q[j], f, d)
    <3>1. x \in 0..(n - 1) /\ Further(q[x], f, d)
      OBVIOUS
    <3>2. ASSUME NEW j \in 0..(x - 1) PROVE ~Further(q[j], f, d)
      <4>1. j \in 0..(n - 1) /\ ~(x <= j)
        BY <3>1, <3>2
      <4> QED BY <2>1, <4>1
    <3> QED BY <3>1, <3>2
  <2>3. FindInsertionIndex(q, n, f, d) =
          CHOOSE i \in 0..(n - 1) :
            /\ Further(q[i], f, d)
            /\ \A j \in 0..(i - 1) : ~Further(q[j], f, d)
    BY <2>2 DEF FindInsertionIndex
  <2>4. FindInsertionIndex(q, n, f, d) \in 0..(n - 1)
    BY <2>2, <2>3
  <2> QED BY <2>4
<1> QED BY <1>1, <1>2

\* A shift moves the entries from i on up by one and leaves the others.
LEMMA ShiftRightFacts ==
  ASSUME NEW F, NEW q \in ArrayOf(F), NEW n \in Cells, NEW i \in 0..n
  PROVE  /\ ShiftRight(q, n, i) \in ArrayOf(F)
         /\ \A k \in 0..i : ShiftRight(q, n, i)[k] = q[k]
         /\ \A k \in i..(n - 1) : ShiftRight(q, n, i)[k + 1] = q[k]
<1>1. MaxFloors \in Nat /\ DOMAIN q = Cells /\ Cells = 0..(MaxFloors + 1)
  BY MaxFloorsAssumption DEF ArrayOf, Cells
<1>2. ASSUME NEW k \in Cells
      PROVE  (IF i < k /\ k <= n THEN q[k - 1] ELSE q[k]) \in EntryOf(F)
  <2>1. i < k => k - 1 \in Cells
    BY <1>1
  <2> QED BY <2>1 DEF ArrayOf
<1>3. ShiftRight(q, n, i) = [k \in Cells |-> IF i < k /\ k <= n THEN q[k - 1] ELSE q[k]]
  BY <1>1 DEF ShiftRight
<1>4. ShiftRight(q, n, i) \in ArrayOf(F)
  BY <1>2, <1>3 DEF ArrayOf
<1>5. ASSUME NEW k \in 0..i PROVE ShiftRight(q, n, i)[k] = q[k]
  <2>1. k \in Cells /\ ~(i < k)
    BY <1>1
  <2> QED BY <1>3, <2>1
<1>6. ASSUME NEW k \in i..(n - 1) PROVE ShiftRight(q, n, i)[k + 1] = q[k]
  <2>1. k + 1 \in Cells /\ i < k + 1 /\ k + 1 <= n /\ (k + 1) - 1 = k
    BY <1>1
  <2> QED BY <1>3, <2>1
<1> QED BY <1>4, <1>5, <1>6

\* Array r holds the first n entries of q in their order, with one more among them.
OneAmong(q, n, r) ==
  \E i \in 0..n : \A k \in 0..(n - 1) : q[k] = r[IF k < i THEN k ELSE k + 1]

\* The insertion of a pair puts one entry between the others.
LEMMA InsertPairFacts ==
  ASSUME NEW F, NEW q \in ArrayOf(F), NEW n \in Cells,
         NEW from \in F, NEW to \in F, NEW d
  PROVE  /\ InsertPair(q, n, from, to, d) \in ArrayOf(F)
         /\ OneAmong(q, n, InsertPair(q, n, from, to, d))
<1> DEFINE place == IF FromIndex(q, n, from) # -1 THEN to ELSE from
           i == FindInsertionIndex(q, n, place, d)
           s == ShiftRight(q, n, i)
           r == [s EXCEPT ![i] = Entry(from, to)]
<1>1. MaxFloors \in Nat /\ n \in Nat /\ Cells = 0..(MaxFloors + 1)
  BY MaxFloorsAssumption DEF Cells
<1>2. i \in 0..n
  BY <1>1, InsertionIndex
<1>3. InsertPair(q, n, from, to, d) = r
  BY DEF InsertPair
<1> HIDE DEF i, place
<1>4. /\ s \in ArrayOf(F)
      /\ \A k \in 0..i : s[k] = q[k]
      /\ \A k \in i..(n - 1) : s[k + 1] = q[k]
  BY <1>2, ShiftRightFacts
<1> HIDE DEF s
<1>5. Entry(from, to) \in EntryOf(F)
  BY DEF Entry, EntryOf
<1>6. r \in ArrayOf(F)
  BY <1>4, <1>5 DEF ArrayOf
<1>7. ASSUME NEW k \in 0..(n - 1) PROVE q[k] = r[IF k < i THEN k ELSE k + 1]
  <2>1. CASE k < i
    <3>1. k \in 0..i /\ k # i /\ k \in Cells
      BY <1>1, <1>2, <2>1
    <3> QED BY <1>4, <2>1, <3>1 DEF ArrayOf
  <2>2. CASE ~(k < i)
    <3>1. k \in i..(n - 1) /\ k + 1 # i /\ k + 1 \in Cells
      BY <1>1, <1>2, <2>2
    <3> QED BY <1>4, <2>2, <3>1 DEF ArrayOf
  <2> QED BY <2>1, <2>2
<1>8. OneAmong(q, n, r)
  BY <1>2, <1>7 DEF OneAmong
<1> QED BY <1>3, <1>6, <1>8

\* Both insertions of a new pair stay in the array.
LEMMA InsertBothFacts ==
  ASSUME NEW F, NEW q \in ArrayOf(F), NEW n \in Cells,
         NEW from \in F, NEW to \in F, NEW d
  PROVE  InsertBoth(q, n, from, to, d) \in ArrayOf(F)
<1> DEFINE i  == FindInsertionIndex(q, n, from, d)
           q1 == [ShiftRight(q, n, i) EXCEPT ![i].from_floor = from]
           j  == FindInsertionIndex(q1, n, to, d)
<1>1. n \in Nat
  BY MaxFloorsAssumption DEF Cells
<1>2. i \in 0..n /\ j \in 0..n
  BY <1>1, InsertionIndex
<1>3. InsertBoth(q, n, from, to, d) = [ShiftRight(q1, n, j) EXCEPT ![j].to_floor = to]
  BY DEF InsertBoth
<1>4. ASSUME NEW a \in ArrayOf(F), NEW k \in 0..n
      PROVE  /\ [a EXCEPT ![k].from_floor = from] \in ArrayOf(F)
             /\ [a EXCEPT ![k].to_floor = to] \in ArrayOf(F)
  <2>1. k \in Cells /\ a[k] \in EntryOf(F)
    BY MaxFloorsAssumption DEF ArrayOf, Cells
  <2>2. /\ [a[k] EXCEPT !.from_floor = from] \in EntryOf(F)
        /\ [a[k] EXCEPT !.to_floor = to] \in EntryOf(F)
    BY <2>1 DEF EntryOf
  <2> QED BY <2>1, <2>2 DEF ArrayOf
<1>5. q1 \in ArrayOf(F)
  <2>1. ShiftRight(q, n, i) \in ArrayOf(F)
    BY <1>2, ShiftRightFacts
  <2> QED BY <1>2, <1>4, <2>1
<1> HIDE DEF q1, i, j
<1>6. ShiftRight(q1, n, j) \in ArrayOf(F)
  BY <1>2, <1>5, ShiftRightFacts
<1> QED BY <1>2, <1>3, <1>4, <1>6

\* The first entry is dropped.
LEMMA DropFirstFacts ==
  ASSUME NEW F, NEW q \in ArrayOf(F), NEW n \in Cells
  PROVE  /\ DropFirst(q, n) \in ArrayOf(F)
         /\ \A k \in 0..(n - 2) : DropFirst(q, n)[k] = q[k + 1]
<1>1. MaxFloors \in Nat /\ DOMAIN q = Cells /\ Cells = 0..(MaxFloors + 1)
  BY MaxFloorsAssumption DEF ArrayOf, Cells
<1>2. DropFirst(q, n) = [k \in Cells |-> IF k < n - 1 THEN q[k + 1] ELSE q[k]]
  BY <1>1 DEF DropFirst
<1>3. \A k \in Cells : k < n - 1 => k + 1 \in Cells
  BY <1>1
<1>4. DropFirst(q, n) \in ArrayOf(F)
  BY <1>2, <1>3 DEF ArrayOf
<1>5. \A k \in 0..(n - 2) : k \in Cells /\ k < n - 1
  BY <1>1
<1> QED BY <1>2, <1>4, <1>5

\* What a request does to the queue: nothing, a pair more or two entries more, up to
\* the first index behind those in use.
LEMMA EnqueueFacts ==
  ASSUME NEW F, NEW q \in ArrayOf(F), NEW n \in Cells,
         NEW from \in F, NEW to \in F, NEW d
  PROVE  LET new == Enqueue(q, n, from, to, d) IN
         /\ new.array \in ArrayOf(F)
         /\ \/ new.size = n /\ new.top = -1
            \/ /\ new.size \in {n + 1, n + 2} /\ new.top = n
               /\ n < MaxQueueSize
         /\ new.size = n + 1 => OneAmong(q, n, new.array)
<1>1. MaxFloors \in Nat /\ n \in Nat /\ MaxQueueSize \in Nat
  BY MaxFloorsAssumption DEF Cells, MaxQueueSize
<1>2. CASE n >= MaxQueueSize \/ AlreadyQueued(q, n, from, to, d)
  BY <1>1, <1>2 DEF Enqueue
<1>3. CASE /\ ~(n >= MaxQueueSize \/ AlreadyQueued(q, n, from, to, d))
           /\ FromIndex(q, n, from) # -1 \/ ToIndex(q, n, to) # -1
  <2> DEFINE p == InsertPair(q, n, from, to, d)
  <2>1. Enqueue(q, n, from, to, d) = [array |-> p, size |-> n + 1, top |-> n]
    BY <1>3 DEF Enqueue
  <2>2. p \in ArrayOf(F) /\ OneAmong(q, n, p)
    BY InsertPairFacts
  <2> HIDE DEF p
  <2> QED BY <1>1, <1>3, <2>1, <2>2
<1>4. CASE /\ ~(n >= MaxQueueSize \/ AlreadyQueued(q, n, from, to, d))
           /\ ~(FromIndex(q, n, from) # -1 \/ ToIndex(q, n, to) # -1)
  <2> DEFINE b == InsertBoth(q, n, from, to, d)
  <2>1. Enqueue(q, n, from, to, d) = [array |-> b, size |-> n + 2, top |-> n]
    BY <1>4 DEF Enqueue
  <2>2. b \in ArrayOf(F)
    BY InsertBothFacts
  <2>3. n + 2 # n + 1
    BY <1>1
  <2> HIDE DEF b
  <2> QED BY <1>1, <1>4, <2>1, <2>2, <2>3
<1> QED BY <1>2, <1>3, <1>4

-----------------------------------------------------------------------------
(* The inductive invariant.                                                  *)

\* As long as the memory behind the array has not been written, the size is at most one
\* more than the array has entries; whether or not, it is at most one more than the limit.
QueuePart ==
  /\ queue \in ArrayOf(Named \cup {0})
  /\ size \in 0..(MaxQueueSize + 1) /\ overrun \in BOOLEAN
  /\ ~overrun => size \in Cells

\* Where the process decides about the car there is something in the queue.
PlacePart ==
  /\ controller \in ControllerPlaces
  /\ controller \notin {"recv", "begin", "tell"} => size # 0

\* The car is on a floor, and moves only to one.
CarPart ==
  /\ floor \in Floors
  /\ status \in {"C", "o", "O", "c", "M"} /\ direction \in {"U", "D", "-"}
  /\ car \in {"waits", "told", "up", "down", "doors"} /\ peer \in {"open", "closed"}
  /\ car = "up" => floor + 1 \in Floors
  /\ car = "down" => floor - 1 \in Floors

RequestPart == requests \in 0..MaxRequests /\ fromDue \subseteq Floors

ElevatorInv == QueuePart /\ PlacePart /\ CarPart /\ RequestPart

\* The initial states.
LEMMA InitInv == Init => ElevatorInv
<1> SUFFICES ASSUME Init PROVE ElevatorInv
  OBVIOUS
<1>1. MaxFloors \in Nat \ {0} /\ MaxRequests \in Nat
  BY MaxFloorsAssumption, ElevatorAssumption
<1>2. queue \in ArrayOf(Named \cup {0})
  <2>1. Entry(0, 0) \in EntryOf(Named \cup {0})
    BY DEF Entry, EntryOf
  <2> QED BY <2>1 DEF Init, EmptyArray, ArrayOf
<1>3. QueuePart
  <2>1. 0 \in 0..(MaxQueueSize + 1) /\ 0 \in Cells
    BY <1>1 DEF MaxQueueSize, Cells
  <2>2. size = 0 /\ overrun = FALSE
    BY DEF Init
  <2> QED BY <1>2, <2>1, <2>2 DEF QueuePart
<1>4. PlacePart
  BY DEF Init, PlacePart, ControllerPlaces
<1>5. CarPart
  BY DEF Init, CarPart
<1>6. RequestPart
  BY <1>1 DEF Init, RequestPart
<1> QED BY <1>3, <1>4, <1>5, <1>6 DEF ElevatorInv

\* What the loops find is an array as well, and in the array it is the queue.
LEMMA SeenFacts ==
  ASSUME QueuePart, NEW q \in Seen
  PROVE  /\ q \in ArrayOf(Named \cup {0})
         /\ size <= MaxFloors => q = queue
<1>1. queue \in ArrayOf(Named \cup {0})
  BY DEF QueuePart
<1>2. CASE size <= MaxFloors
  BY <1>1, <1>2 DEF Seen
<1>3. CASE ~(size <= MaxFloors)
  <2>1. PICK e \in Entries : q = [queue EXCEPT ![MaxFloors] = e]
    BY <1>3 DEF Seen
  <2>2. e \in EntryOf(Named \cup {0})
    BY DEF Entries, EntryOf
  <2> QED BY <1>1, <1>3, <2>1, <2>2 DEF ArrayOf
<1> QED BY <1>2, <1>3

\* A request.
LEMMA ReceiveStep ==
  ASSUME ElevatorInv, ~overrun, NEW r \in Asked, Receive(r[1], r[2])
  PROVE  ElevatorInv'
<1> DEFINE from == r[1]
           to == r[2]
<1>0. from \in Named \cup {0} /\ to \in Named \cup {0}
  BY DEF Named
<1>1. QueuePart /\ size \in Cells /\ MaxFloors \in Nat \ {0}
  BY MaxFloorsAssumption DEF ElevatorInv, QueuePart
<1>2. PICK q \in Seen :
        LET new == Enqueue(q, size, from, to, direction)
        IN  /\ queue' = new.array /\ size' = new.size
            /\ overrun' = (new.top >= MaxFloors)
  BY DEF Receive
<1> DEFINE new == Enqueue(q, size, from, to, direction)
<1>3. queue' = new.array /\ size' = new.size /\ overrun' = (new.top >= MaxFloors)
  BY <1>2
<1>4. /\ new.array \in ArrayOf(Named \cup {0})
      /\ \/ new.size = size /\ new.top = -1
         \/ /\ new.size \in {size + 1, size + 2} /\ new.top = size
            /\ size < MaxQueueSize
  <2>1. q \in ArrayOf(Named \cup {0})
    BY <1>1, SeenFacts
  <2> HIDE DEF from, to
  <2> QED BY <1>0, <1>1, <2>1, EnqueueFacts
<1> HIDE DEF new
<1>5. QueuePart'
  <2>1. queue' \in ArrayOf(Named \cup {0}) /\ overrun' \in BOOLEAN
    BY <1>3, <1>4
  <2>2. size' \in 0..(MaxQueueSize + 1)
    BY <1>1, <1>3, <1>4 DEF MaxQueueSize, Cells
  <2>3. ~overrun' => size' \in Cells
    <3> SUFFICES ASSUME ~overrun' PROVE size' \in Cells
      OBVIOUS
    <3>1. ~(new.top >= MaxFloors)
      BY <1>3
    <3>2. new.size = size \/ (new.size \in {size + 1, size + 2} /\ size < MaxFloors)
      BY <1>1, <1>4, <3>1 DEF Cells
    <3> QED BY <1>1, <1>3, <3>2 DEF Cells
  <2> QED BY <2>1, <2>2, <2>3 DEF QueuePart, Named, Cells
<1>6. PlacePart'
  BY DEF Receive, Goto, PlacePart, ControllerPlaces
<1>7. CarPart'
  BY DEF Receive, recordVars, CarPart, ElevatorInv
<1>8. RequestPart'
  <2>1. /\ requests < MaxRequests /\ requests' = requests + 1
        /\ fromDue' = fromDue \cup ({from} \cap Floors)
        /\ requests \in 0..MaxRequests /\ fromDue \subseteq Floors /\ MaxRequests \in Nat
    BY ElevatorAssumption DEF Receive, RequestPart, ElevatorInv
  <2> QED BY <2>1 DEF RequestPart
<1> QED BY <1>5, <1>6, <1>7, <1>8 DEF ElevatorInv

\* The tests of the record, and the ends of waits.
LEMMA QuietStep ==
  ASSUME ElevatorInv,
         ReceiveNothing \/ Begin \/ TestArrived \/ TestAbove \/ TestBelow \/ TestOpened
           \/ EndHold \/ TestHigher \/ TestLower \/ EndWait \/ PeerCloses
  PROVE  ElevatorInv'
<1>1. UNCHANGED <<queue, size, overrun, status, direction, floor, car, requests, fromDue>>
  BY DEF ReceiveNothing, Begin, TestArrived, TestAbove, TestBelow, TestOpened, EndHold,
         TestHigher, TestLower, Test, EndWait, PeerCloses, queueVars, recordVars
<1>2. peer' \in {"open", "closed"}
  BY DEF ReceiveNothing, Begin, TestArrived, TestAbove, TestBelow, TestOpened, EndHold,
         TestHigher, TestLower, Test, EndWait, PeerCloses, ElevatorInv, CarPart
<1>3. PlacePart'
  <2>1. CASE ReceiveNothing \/ EndWait \/ PeerCloses
    BY <1>1, <2>1 DEF ReceiveNothing, EndWait, PeerCloses, Goto, ElevatorInv, PlacePart,
                      ControllerPlaces
  <2>2. CASE Begin
    BY <1>1, <2>2 DEF Begin, Goto, PlacePart, ControllerPlaces
  <2>3. CASE TestArrived \/ TestAbove \/ TestBelow \/ TestOpened
    BY <1>1, <2>3 DEF TestArrived, TestAbove, TestBelow, TestOpened, Test, Goto, ElevatorInv,
                      PlacePart, ControllerPlaces
  <2>4. CASE EndHold \/ TestHigher \/ TestLower
    BY <1>1, <2>4 DEF EndHold, TestHigher, TestLower, Test, Goto, ElevatorInv, PlacePart,
                      ControllerPlaces
  <2> QED BY <2>1, <2>2, <2>3, <2>4
<1>4. QueuePart' /\ CarPart' /\ RequestPart'
  BY <1>1, <1>2 DEF ElevatorInv, QueuePart, CarPart, RequestPart, Named, Cells
<1> QED BY <1>3, <1>4 DEF ElevatorInv

\* A signal does not change where the car goes.
LEMMA SignalStep ==
  ASSUME ElevatorInv, SignalCar
  PROVE  ElevatorInv'
<1>1. UNCHANGED <<queue, size, overrun, status, direction, floor, peer, requests, fromDue>>
  BY DEF SignalCar, queueVars, recordVars
<1>2. CarPart'
  BY <1>1 DEF SignalCar, CarPart, ElevatorInv
<1>3. PlacePart'
  BY <1>1 DEF SignalCar, Goto, PlacePart, ControllerPlaces, ElevatorInv
<1>4. QueuePart' /\ RequestPart'
  BY <1>1 DEF ElevatorInv, QueuePart, RequestPart, Named, Cells
<1> QED BY <1>2, <1>3, <1>4 DEF ElevatorInv

\* The decisions.
LEMMA OpenDoorStep ==
  ASSUME ElevatorInv, ~overrun, OpenDoor
  PROVE  ElevatorInv'
<1>1. /\ MaxFloors \in Nat \ {0} /\ size \in Cells
      /\ QueuePart
  BY MaxFloorsAssumption DEF ElevatorInv, QueuePart
<1>2. size # 0
  BY DEF OpenDoor, ElevatorInv, PlacePart
<1>3. PICK q \in Seen : queue' = DropFirst(q, size)
  BY DEF OpenDoor, Serve
<1>4. size' = size - 1 /\ overrun' = overrun /\ fromDue' \subseteq fromDue
  BY DEF OpenDoor, Serve
<1>5. QueuePart'
  <2>1. queue' \in ArrayOf(Named \cup {0})
    <3>1. q \in ArrayOf(Named \cup {0})
      BY <1>1, SeenFacts
    <3> QED BY <1>1, <1>3, <3>1, DropFirstFacts
  <2>2. size' \in Cells /\ size' \in 0..(MaxQueueSize + 1)
    BY <1>1, <1>2, <1>4 DEF Cells, MaxQueueSize
  <2> QED BY <1>1, <1>4, <2>1, <2>2 DEF QueuePart, Named, Cells
<1>6. PlacePart'
  BY DEF OpenDoor, Goto, PlacePart, ControllerPlaces
<1>7. CarPart'
  BY DEF OpenDoor, CarPart, ElevatorInv
<1>8. RequestPart'
  BY <1>4 DEF OpenDoor, RequestPart, ElevatorInv
<1> QED BY <1>5, <1>6, <1>7, <1>8 DEF ElevatorInv

\* The other writes to the record.
LEMMA WriteStep ==
  ASSUME ElevatorInv, GoUp \/ GoDown \/ Aim \/ CloseDoor
  PROVE  ElevatorInv'
<1>1. /\ UNCHANGED <<queue, size, overrun, floor, car, peer, requests, fromDue>>
      /\ direction' \in {"U", "D", "-"} /\ status' \in {"C", "o", "O", "c", "M"}
      /\ controller' \in {"tell", "close", "tell closed"}
      /\ controller \notin {"recv", "begin", "tell"}
  BY DEF GoUp, GoDown, Aim, Direct, CloseDoor, Goto, queueVars, ElevatorInv, CarPart
<1>2. CarPart'
  BY <1>1 DEF ElevatorInv, CarPart
<1>3. PlacePart'
  <2>1. size # 0
    BY <1>1 DEF ElevatorInv, PlacePart
  <2> QED BY <1>1, <2>1 DEF PlacePart, ControllerPlaces
<1>4. QueuePart' /\ RequestPart'
  <2>1. UNCHANGED <<queue, size, overrun, requests, fromDue>>
    BY <1>1
  <2> QED BY <2>1 DEF ElevatorInv, QueuePart, RequestPart, Named, Cells
<1> QED BY <1>2, <1>3, <1>4 DEF ElevatorInv

\* The car.
LEMMA CarStep ==
  ASSUME ElevatorInv, Car
  PROVE  ElevatorInv'
<1>1. UNCHANGED <<queue, size, overrun, controller, peer, requests, fromDue, direction>>
  BY DEF Car, CarStarts, CarArrives, DoorEnds, queueVars
<1>2. CarPart
  BY DEF ElevatorInv
<1>3. CarPart'
  <2>1. CASE CarStarts
    <3>1. floor' = floor /\ status' \in {"C", "o", "O", "c", "M"}
      BY <1>2, <2>1 DEF CarStarts, CarPart
    <3>2. /\ car' \in {"waits", "up", "down", "doors"}
          /\ car' = "up" => floor + 1 \in Floors
          /\ car' = "down" => floor - 1 \in Floors
      <4>1. Lowest \in Nat /\ Highest \in Nat /\ floor \in Int
        BY <1>2, ElevatorAssumption DEF CarPart, Floors
      <4>2. floor + (-1) = floor - 1
        BY <4>1
      <4>3. direction \in {"U", "D", "-"}
        BY <1>2 DEF CarPart
      <4> QED BY <2>1, <4>2, <4>3 DEF CarStarts, Step
    <3> QED BY <1>1, <1>2, <3>1, <3>2 DEF CarPart
  <2>2. CASE CarArrives
    BY <1>1, <1>2, <2>2 DEF CarArrives, CarPart
  <2>3. CASE DoorEnds
    BY <1>1, <1>2, <2>3 DEF DoorEnds, CarPart
  <2> QED BY <2>1, <2>2, <2>3 DEF Car
<1>4. PlacePart' /\ QueuePart' /\ RequestPart'
  BY <1>1 DEF ElevatorInv, PlacePart, QueuePart, RequestPart, Named, Cells
<1> QED BY <1>3, <1>4 DEF ElevatorInv

\* The invariant holds in every reachable state.
THEOREM InvCorrect == SafeSpec => []ElevatorInv
<1>1. ElevatorInv /\ [Next]_vars => ElevatorInv'
  <2> SUFFICES ASSUME ElevatorInv, [Next]_vars PROVE ElevatorInv'
    OBVIOUS
  <2>1. CASE UNCHANGED vars
    BY <2>1 DEF vars, queueVars, recordVars, ElevatorInv, QueuePart, PlacePart, CarPart,
                RequestPart, Named, Cells
  <2>2. CASE Next
    BY <2>2, ReceiveStep, QuietStep, OpenDoorStep, WriteStep, SignalStep, CarStep
    DEF Next, Operation
  <2> QED BY <2>1, <2>2
<1> QED BY <1>1, InitInv, PTL DEF SafeSpec

\* Type correctness: the record holds only the codes that data_structs.h lists, the
\* car is on a floor, and the size is at most one above the limit of the queue, which is
\* what the test for a full queue lets happen (elevator.c:47, 118).
THEOREM TypeCorrect == SafeSpec => []TypeOK
<1>1. ElevatorInv => TypeOK
  BY DEF ElevatorInv, QueuePart, ArrayOf, EntryOf, Entries, PlacePart, CarPart, RequestPart,
         TypeOK
<1> QED BY <1>1, InvCorrect, PTL

\* A pair of which one floor is queued is inserted between the entries that are
\* there: none is lost and their order stays, whatever the queue holds, as long as it
\* is in the array.
THEOREM PairInserted == SafeSpec => PairKeepsOrder
<1> DEFINE Kept ==
      size <= MaxFloors /\ size' = size + 1 =>
        \E i \in 0..size : \A k \in 0..(size - 1) :
          queue[k] = queue'[IF k < i THEN k ELSE k + 1]
<1>1. ElevatorInv /\ [Next]_vars => [Kept]_vars
  <2> SUFFICES ASSUME ElevatorInv, Next PROVE Kept
    BY DEF vars
  <2>1. QueuePart /\ size \in Cells /\ size \in Nat
    BY MaxFloorsAssumption DEF Next, ElevatorInv, QueuePart, Cells
  <2>2. ASSUME NEW r \in Asked, Receive(r[1], r[2]) PROVE Kept
    <3> SUFFICES ASSUME size <= MaxFloors, size' = size + 1
                 PROVE  OneAmong(queue, size, queue')
      BY DEF OneAmong
    <3>1. queue \in ArrayOf(Named \cup {0}) /\ Seen = {queue}
      BY <2>1 DEF QueuePart, Seen
    <3>2. r[1] \in Named \cup {0} /\ r[2] \in Named \cup {0}
      BY DEF Named
    <3> DEFINE new == Enqueue(queue, size, r[1], r[2], direction)
    <3>3. queue' = new.array /\ size' = new.size
      BY <2>2, <3>1 DEF Receive
    <3>4. new.size = size + 1 => OneAmong(queue, size, new.array)
      BY <2>1, <3>1, <3>2, EnqueueFacts
    <3> HIDE DEF new
    <3> QED BY <3>3, <3>4
  <2>3. ASSUME size' = size \/ size' = size - 1 PROVE Kept
    BY <2>1, <2>3
  <2>4. CASE ReceiveNothing \/ PeerCloses \/ Car
    BY <2>3, <2>4 DEF ReceiveNothing, PeerCloses, Car, CarStarts, CarArrives, DoorEnds, queueVars
  <2>5. CASE Operation
    BY <2>3, <2>5 DEF Operation, Begin, TestArrived, TestAbove, TestBelow, TestOpened, EndHold,
                      TestHigher, TestLower, Test, OpenDoor, Serve, GoUp, GoDown, Aim, Direct,
                      CloseDoor, SignalCar, EndWait, queueVars
  <2> HIDE DEF Kept
  <2> QED BY <2>2, <2>4, <2>5 DEF Next
<1> QED BY <1>1, InvCorrect, PTL DEF SafeSpec, PairKeepsOrder
=============================================================================
