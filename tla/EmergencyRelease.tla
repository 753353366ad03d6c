---------------------------- MODULE EmergencyRelease ----------------------------
(***************************************************************************)
(* What the fire path promises, without its processes, datagrams, mutexes   *)
(* and connections: the alarm is raised only when something reported a      *)
(* fire, it is never taken back, and a door is released only while the      *)
(* alarm is raised and only if the door is known.  FireSystem implements    *)
(* this specification.                                                      *)
(***************************************************************************)
CONSTANT Doors

VARIABLES
  evidence,  \* something reported a fire
  raised,    \* the alarm flag that the rest of the building sees
  known,     \* doors that can be released
  released   \* doors that were told to open

vars == <<evidence, raised, known, released>>

Init ==
  /\ evidence = FALSE
  /\ raised = FALSE
  /\ known = {}
  /\ released = {}

Report ==
  /\ evidence' = TRUE
  /\ UNCHANGED <<raised, known, released>>

Enrol(d) ==
  /\ known' = known \cup {d}
  /\ UNCHANGED <<evidence, raised, released>>

Raise ==
  /\ evidence
  /\ raised' = TRUE
  /\ UNCHANGED <<evidence, known, released>>

Release(d) ==
  /\ raised
  /\ d \in known
  /\ released' = released \cup {d}
  /\ UNCHANGED <<evidence, raised, known>>

Next ==
  \/ Report
  \/ Raise
  \/ \E d \in Doors : Enrol(d) \/ Release(d)

Spec == Init /\ [][Next]_vars
=============================================================================
