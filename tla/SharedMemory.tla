------------------------------ MODULE SharedMemory ------------------------------
(***************************************************************************)
(* The layout of the shared memory object "/shm": one area per kind of      *)
(* component, in a fixed order, each an array of records                    *)
(* (initializeSharedMemory, helper_functions.c:85-144).                     *)
(*                                                                         *)
(* Addresses count from the start of the object.  The record sizes are what *)
(* the compiler makes of data_structs.h, so they are constants.             *)
(***************************************************************************)
EXTENDS Integers

\* The areas in memory order.  A camera has an area but no pointer to it.
Kinds ==
  {"overseer", "firealarm", "cardreader", "door", "callpoint", "tempsensor",
   "elevator", "destselect"}

CONSTANTS
  Size,        \* record sizes in bytes, by kind
  Slots,       \* records per area, by kind
  CameraBytes  \* size of the last area

ASSUME LayoutAssumption ==
  /\ Size \in [Kinds -> Nat \ {0}]
  /\ Slots \in [Kinds -> Nat \ {0}]
  /\ Slots["overseer"] = 1 /\ Slots["firealarm"] = 1
  /\ CameraBytes \in Nat

Area(k) == Slots[k] * Size[k]

\* The chain of "offset +=" that places the areas one behind the other.
FirealarmBase  == Area("overseer")
CardreaderBase == FirealarmBase + Area("firealarm")
DoorBase       == CardreaderBase + Area("cardreader")
CallpointBase  == DoorBase + Area("door")
TempsensorBase == CallpointBase + Area("callpoint")
ElevatorBase   == TempsensorBase + Area("tempsensor")
DestselectBase == ElevatorBase + Area("elevator")

Base(k) ==
  CASE k = "overseer"   -> 0
    [] k = "firealarm"  -> FirealarmBase
    [] k = "cardreader" -> CardreaderBase
    [] k = "door"       -> DoorBase
    [] k = "callpoint"  -> CallpointBase
    [] k = "tempsensor" -> TempsensorBase
    [] k = "elevator"   -> ElevatorBase
    [] k = "destselect" -> DestselectBase

\* calculateTotalShmSize.
Total == DestselectBase + Area("destselect") + CameraBytes

\* Mutated form: every process of a kind gets the first record.
Offset_NoCount(k, n) == Base(k)

\* The offset the simulator gives the (n+1)th process of a kind.
Offset(k, n) == IF k = "overseer" THEN 0 ELSE Base(k) + n * Size[k]

\* The bytes of record a end where those of record b start, or earlier.
EndsBefore(a, b) == a.at + Size[a.kind] <= b.at

Disjoint(a, b) == EndsBefore(a, b) \/ EndsBefore(b, a)

Inside(a) == 0 <= a.at /\ a.at + Size[a.kind] <= Total
=============================================================================
