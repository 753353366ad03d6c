----------------------------- MODULE ElevatorQueue -----------------------------
(***************************************************************************)
(* The request queue of an elevator, elevator.c:14-122, as operators on the *)
(* array request_queue, its size and the direction the car last got.        *)
(*                                                                         *)
(* The array has MaxFloors entries, 0..(MaxFloors - 1), and Enqueue admits    *)
(* up to twice as many.  The two cells that follow here are the memory      *)
(* behind the array as far as the code gets with its first write there.     *)
(***************************************************************************)
EXTENDS Integers

CONSTANT MaxFloors  \* MAX_FLOORS, the length of request_queue

ASSUME MaxFloorsAssumption == MaxFloors \in Nat \ {0}

MaxQueueSize == 2 * MaxFloors

Entry(f, t) == [from_floor |-> f, to_floor |-> t]

Cells == 0..(MaxFloors + 1)

\* The array as the program starts: static storage, all zero.
EmptyArray == [k \in Cells |-> Entry(0, 0)]

\* A request goes before the first one that lies further in the direction of
\* travel, and behind all if there is none or the car has no direction.
Further(e, floor, direction) ==
  \/ direction = "U" /\ e.from_floor > floor
  \/ direction = "D" /\ e.from_floor < floor

FindInsertionIndex(q, n, floor, direction) ==
  IF \E i \in 0..(n - 1) : Further(q[i], floor, direction)
  THEN CHOOSE i \in 0..(n - 1) :
         /\ Further(q[i], floor, direction)
         /\ \A j \in 0..(i - 1) : ~Further(q[j], floor, direction)
  ELSE n

\* Mutated form: the shift starts one entry too early.
ShiftRight_OffByOne(q, n, i) ==
  [k \in DOMAIN q |-> IF i < k /\ k < n THEN q[k - 1] ELSE q[k]]

\* Entries i..n-1 move up by one; entry i keeps a copy of what it held.
ShiftRight(q, n, i) ==
  [k \in DOMAIN q |-> IF i < k /\ k <= n THEN q[k - 1] ELSE q[k]]

\* Entry 0 is dropped, the others move down by one.
DropFirst(q, n) ==
  [k \in DOMAIN q |-> IF k < n - 1 THEN q[k + 1] ELSE q[k]]

\* The loop keeps the last index it finds, -1 if there is none.
LastIndex(found) ==
  IF found = {} THEN -1 ELSE CHOOSE i \in found : \A j \in found : j <= i

FromIndex(q, n, floor) == LastIndex({i \in 0..(n - 1) : q[i].from_floor = floor})
ToIndex(q, n, floor)   == LastIndex({i \in 0..(n - 1) : q[i].to_floor = floor})

\* Both floors are queued, in the order of travel; without a direction never.
AlreadyQueued(q, n, from, to, direction) ==
  LET f == FromIndex(q, n, from)
      t == ToIndex(q, n, to)
  IN  f # -1 /\ t # -1 /\ \/ direction = "U" /\ t > f
                          \/ direction = "D" /\ t < f

\* One floor is queued: the pair is inserted as one entry, placed by the other.
InsertPair(q, n, from, to, direction) ==
  LET place == IF FromIndex(q, n, from) # -1 THEN to ELSE from
      i == FindInsertionIndex(q, n, place, direction)
  IN  [ShiftRight(q, n, i) EXCEPT ![i] = Entry(from, to)]

\* Neither is queued: each overwrites one half of an entry of its own.  The size
\* is the old one during both insertions, so the second pushes an entry out.
InsertBoth(q, n, from, to, direction) ==
  LET i  == FindInsertionIndex(q, n, from, direction)
      q1 == [ShiftRight(q, n, i) EXCEPT ![i].from_floor = from]
      j  == FindInsertionIndex(q1, n, to, direction)
  IN  [ShiftRight(q1, n, j) EXCEPT ![j].to_floor = to]

\* enqueue_request: the new array and size, and the highest index written, which is
\* the old size whenever a place is made: shifted to, or the place itself.
Enqueue(q, n, from, to, direction) ==
  IF n >= MaxQueueSize \/ AlreadyQueued(q, n, from, to, direction)
  THEN [array |-> q, size |-> n, top |-> -1]
  ELSE IF FromIndex(q, n, from) # -1 \/ ToIndex(q, n, to) # -1
  THEN [array |-> InsertPair(q, n, from, to, direction), size |-> n + 1, top |-> n]
  ELSE [array |-> InsertBoth(q, n, from, to, direction), size |-> n + 2, top |-> n]
=============================================================================
