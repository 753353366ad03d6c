-------------------------------- MODULE Lifecycle --------------------------------
(***************************************************************************)
(* What the simulator promises of the processes and of the memory they      *)
(* share: the memory is made before the first process, and released only    *)
(* when every process that runs and is known was told to end.  Not that it  *)
(* has ended: nobody waits for it.  Simulator implements it.                *)
(***************************************************************************)
EXTENDS Naturals

CONSTANT Processes

VARIABLES
  memory,  \* "none", "there" or "gone"
  alive,   \* the processes that run
  known,   \* the processes that can be told to end
  told     \* those that were told

vars == <<memory, alive, known, told>>

Init == memory = "none" /\ alive = {} /\ known = {} /\ told = {}

Make == memory = "none" /\ memory' = "there" /\ UNCHANGED <<alive, known, told>>

\* A process is launched; it, or another, may not be known afterwards.
Launch(p) ==
  /\ memory = "there" /\ told = {}
  /\ p \notin alive
  /\ alive' = alive \cup {p}
  /\ known' \subseteq known \cup {p}
  /\ UNCHANGED <<memory, told>>

\* A process ends, told or not.
End == alive' \subseteq alive /\ UNCHANGED <<memory, known, told>>

Tell == memory = "there" /\ told' = known /\ UNCHANGED <<memory, alive, known>>

Release ==
  /\ memory = "there"
  /\ alive \cap known \subseteq told
  /\ memory' = "gone"
  /\ UNCHANGED <<alive, known, told>>

Next == Make \/ End \/ Tell \/ Release \/ \E p \in Processes : Launch(p)

Spec == Init /\ [][Next]_vars
=============================================================================
