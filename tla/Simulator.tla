------------------------------- MODULE Simulator -------------------------------
(***************************************************************************)
(* The simulator, simulator.c: it prepares a shared-memory record and forks *)
(* a process for every INIT line, prints the scenario, and cleans up.  The  *)
(* processes it forked run beside it.                                       *)
(*                                                                         *)
(* Of a process the model has what meets the simulator: whether the program *)
(* starts, which record it works on, whether it waits on a condition        *)
(* variable of that record, whether it was told to end, and whether it is   *)
(* gone.                                                                    *)
(***************************************************************************)
EXTENDS SharedMemory, Addresses, FiniteSets

CONSTANTS
  Known,     \* kinds of component the INIT lines of the scenario name
  MaxLines,  \* number of INIT lines; the array "init" has room for 100
  PageSize   \* what an offset given to mmap() must be a multiple of

\* Kinds whose INIT line starts a process; "callpoint" is only printed.
Started == Kinds \ {"callpoint"}

ASSUME SimulatorAssumption ==
  /\ Known \subseteq Kinds
  /\ MaxLines \in 0..100 /\ PageSize \in Nat \ {0}
  \* so many records do not reach the end of the object: the area of the
  \* cameras is the last, and larger than they are (helper_functions.c:82)
  /\ \A k \in Kinds : Base(k) + MaxLines * Size[k] <= Total

VARIABLES
  phase,     \* where the simulator is, see Phases
  line,      \* kind of the INIT line at work
  lines,     \* number of INIT lines read
  count,     \* counters, by kind
  pids,      \* processPIDs, by place: a process, 0 if none
  records,   \* the records whose mutex and condition variables are initialised
  destroyed, \* kinds whose mutexes and condition variables are destroyed
  procs,     \* the processes, in the order they were forked
  told       \* the processes that were sent a SIGTERM

simVars == <<phase, line, lines, count, pids, told>>
vars == <<simVars, records, destroyed, procs>>

\* "setup": before the shared memory is made; "failed": there is no memory;
\* "read": at the next INIT line; "prepared": the record of the line is ready;
\* "stuck": in a pthread_cond_destroy() that does not return; "exited": fork()
\* has failed and exit() left the rest as it was.
Phases ==
  {"setup", "failed", "read", "prepared", "play", "destroy", "terminate", "unlink",
   "done", "stuck", "exited"}

\* "forked": before execv(); "started": before it opens the shared memory;
\* "waiting": in pthread_cond_wait() on its record.
ProcStates == {"forked", "started", "working", "waiting", "exited", "killed"}

Gone(p) == p.state \in {"exited", "killed"}

\* ProcessPIDs keeps its elements in the order of the areas, and as many.
PidLayout == INSTANCE SharedMemory WITH Size <- [k \in Kinds |-> 1], CameraBytes <- 0

Places == 0..(PidLayout!Total - 1)

\* Where the number of the (n+1)th process of a kind goes: the overseer and the fire
\* alarm unit have one place each, and behind an array comes the next.
Place(k, n) == PidLayout!Base(k) + IF k \in {"overseer", "firealarm"} THEN 0 ELSE n

\* The processes whose number is kept.
Kept == {pids[p] : p \in Places} \ {0}

Init ==
  /\ phase = "setup" /\ line = "none" /\ lines = 0
  /\ count = [k \in Kinds |-> 0]
  /\ pids = [p \in Places |-> 0]
  /\ records = {} /\ destroyed = {} /\ procs = <<>> /\ told = {}

-----------------------------------------------------------------------------
(* The start.                                                               *)

\* An object left from another run is unlinked, a new one made and zeroed.
Setup ==
  /\ phase = "setup"
  /\ phase' \in {"read", "failed"}
  /\ UNCHANGED <<line, lines, count, pids, told, records, destroyed, procs>>

-----------------------------------------------------------------------------
(* The INIT lines, as read_file() delivers them; none if the file is missing. *)

Record(k, n) == [kind |-> k, slot |-> n, at |-> Offset(k, n)]

\* initialize_<kind>.  The counter is not compared with the length of the area: the
\* record after the last is the first of the next area.  An empty line leaves
\* "component" as it was, so it stands for the line before once more.
Prepare(k) ==
  /\ phase = "read" /\ lines < MaxLines
  /\ k \in Started
  /\ records' = records \cup {Record(k, count[k])}
  /\ line' = k /\ lines' = lines + 1
  /\ phase' = "prepared"
  /\ UNCHANGED <<count, pids, told, destroyed, procs>>

\* A line of a kind the simulator does not start.
Skip(k) ==
  /\ phase = "read" /\ lines < MaxLines
  /\ k \notin Started
  /\ lines' = lines + 1
  /\ UNCHANGED <<phase, line, count, pids, told, records, destroyed, procs>>

\* The (n+1)th process of kind k, as it is told of its record and its port.
Forked(k, n) ==
  [kind |-> k, offset |-> Offset(k, n), port |-> Port(k, n), at |-> -1,
   state |-> "forked"]

\* The number of the new process goes to its place; behind the last place it is lost.
Note(place) == pids' = [p \in Places |-> IF p = place THEN Len(procs) + 1 ELSE pids[p]]

\* Mutated form: the counter is advanced before it is used.
Spawn_CountFirst ==
  /\ phase = "prepared"
  /\ count' = [count EXCEPT ![line] = @ + 1]
  /\ procs' = Append(procs, Forked(line, count'[line]))
  /\ Note(Place(line, count'[line]))
  /\ phase' = "read"
  /\ UNCHANGED <<line, lines, told, records, destroyed>>

\* spawn_process.
Spawn ==
  /\ phase = "prepared"
  /\ procs' = Append(procs, Forked(line, count[line]))
  /\ Note(Place(line, count[line]))
  /\ count' = [count EXCEPT ![line] = @ + 1]
  /\ phase' = "read"
  /\ UNCHANGED <<line, lines, told, records, destroyed>>

ForkFails ==
  /\ phase = "prepared"
  /\ phase' = "exited"
  /\ UNCHANGED <<line, lines, count, pids, told, records, destroyed, procs>>

\* No more lines; a second later the scenario is printed.
Play ==
  /\ phase = "read"
  /\ phase' = "play"
  /\ UNCHANGED <<line, lines, count, pids, told, records, destroyed, procs>>

-----------------------------------------------------------------------------
(* The cleanup.                                                             *)

BeginCleanup ==
  /\ phase = "play"
  /\ phase' = "destroy"
  /\ UNCHANGED <<line, lines, count, pids, told, records, destroyed, procs>>

\* The records of a kind that are destroyed: as many as were counted, but of the
\* fire alarm units only the first.
Destroyed(k) == {r \in records : r.kind = k /\ (k = "firealarm" => r.slot = 0)}

\* Somebody waits on a condition variable of the record, or another record was
\* initialised over it.
Doubtful(r) ==
  \/ \E i \in DOMAIN procs : procs[i].state = "waiting" /\ ~Disjoint(r, procs[i])
  \/ \E q \in records : q.kind # r.kind /\ ~Disjoint(r, q)

DestroyOrder ==
  <<"overseer", "firealarm", "cardreader", "door", "callpoint", "tempsensor",
    "elevator", "destselect">>

\* destroy_mutex_cond for the next kind of component.  Destroying a condition variable
\* somebody waits on, or that is none any more, is undefined: it may return, or it
\* may not.
Destroy(k) ==
  /\ phase = "destroy"
  /\ destroyed # Kinds /\ k = DestroyOrder[Cardinality(destroyed) + 1]
  /\ destroyed' = destroyed \cup {k}
  /\ \/ phase' = phase
     \/ (\E r \in Destroyed(k) : Doubtful(r)) /\ phase' = "stuck"
  /\ UNCHANGED <<line, lines, count, pids, told, records, procs>>

EndDestroy ==
  /\ phase = "destroy" /\ destroyed = Kinds
  /\ phase' = "terminate"
  /\ UNCHANGED <<line, lines, count, pids, told, records, destroyed, procs>>

\* Mutated form: the loops stop one element early.
Terminate_Short ==
  /\ phase = "terminate"
  /\ LET Last == {PidLayout!Base(k) + Slots[k] - 1 : k \in Kinds \ {"overseer", "firealarm"}}
     IN  told' = {pids[p] : p \in Places \ Last} \ {0}
  /\ phase' = "unlink"
  /\ UNCHANGED <<line, lines, count, pids, records, destroyed, procs>>

\* Mutated form: elements that are 0 are not left out (0 is the simulator's own group).
Terminate_Zero ==
  /\ phase = "terminate"
  /\ told' = {pids[p] : p \in Places}
  /\ phase' = "unlink"
  /\ UNCHANGED <<line, lines, count, pids, records, destroyed, procs>>

\* terminate_all_processes: a SIGTERM to every process whose number is there.  Nobody
\* waits for them to end.
Terminate ==
  /\ phase = "terminate"
  /\ told' = Kept
  /\ phase' = "unlink"
  /\ UNCHANGED <<line, lines, count, pids, records, destroyed, procs>>

\* Mutated form: the memory is released before the processes are sent the signal.
Unlink_First ==
  /\ phase \in {"terminate", "unlink"}
  /\ phase' = "done"
  /\ UNCHANGED <<line, lines, count, pids, told, records, destroyed, procs>>

Unlink ==
  /\ phase = "unlink"
  /\ phase' = "done"
  /\ UNCHANGED <<line, lines, count, pids, told, records, destroyed, procs>>

-----------------------------------------------------------------------------
(* The processes.                                                           *)

Become(i, state) == procs' = [procs EXCEPT ![i].state = state]

\* The program may be missing: the Makefile leaves the overseer out, and some
\* sources include a header, shm_structs.h, that is not in the repository.
Exec(i) ==
  /\ procs[i].state = "forked"
  /\ Become(i, "started") \/ Become(i, "exited")
  /\ UNCHANGED <<simVars, records, destroyed>>

\* Kinds that map at the offset itself; the others map from the start.
MapsAtOffset(k) == k \in {"firealarm", "destselect"}

\* mmap() at an offset that is not a multiple of the page size.
MapFails(i) ==
  /\ procs[i].state = "started"
  /\ MapsAtOffset(procs[i].kind) /\ procs[i].offset % PageSize # 0
  /\ Become(i, "exited")
  /\ UNCHANGED <<simVars, records, destroyed>>

\* The elevator casts the start of the memory and ignores its offset; the door
\* and the overseer open no memory.
OpensMemory(k) == k \notin {"door", "overseer"}

WorksAt(p) ==
  CASE p.kind = "elevator" -> 0
    [] ~OpensMemory(p.kind) -> -1
    [] OTHER -> p.offset

\* Memory that has its name no more cannot be opened; who has it open keeps it.
Attach(i) ==
  /\ procs[i].state = "started"
  /\ OpensMemory(procs[i].kind) => phase # "done"
  /\ MapsAtOffset(procs[i].kind) => procs[i].offset % PageSize = 0
  /\ procs' = [procs EXCEPT ![i].state = "working", ![i].at = WorksAt(procs[i])]
  /\ UNCHANGED <<simVars, records, destroyed>>

\* Only the card reader and the destination selector wait on their record.
Wait(i) ==
  /\ procs[i].state = "working"
  /\ procs[i].kind \in {"cardreader", "destselect"}
  /\ Become(i, "waiting")
  /\ UNCHANGED <<simVars, records, destroyed>>

Wake(i) ==
  /\ procs[i].state = "waiting"
  /\ Become(i, "working")
  /\ UNCHANGED <<simVars, records, destroyed>>

\* The temperature sensor ends after one round, the others on an error: a refused
\* connection to the overseer, memory that cannot be opened.
Exit(i) ==
  /\ procs[i].state \in {"started", "working"}
  /\ Become(i, "exited")
  /\ UNCHANGED <<simVars, records, destroyed>>

\* No program handles SIGTERM; the process ends when the system gets to it.
Die(i) ==
  /\ i \in told /\ ~Gone(procs[i])
  /\ Become(i, "killed")
  /\ UNCHANGED <<simVars, records, destroyed>>

Process(i) ==
  Exec(i) \/ MapFails(i) \/ Attach(i) \/ Wait(i) \/ Wake(i) \/ Exit(i) \/ Die(i)

-----------------------------------------------------------------------------
Launching == Setup \/ Play \/ Spawn \/ \E k \in Known : Prepare(k) \/ Skip(k)

Cleaning ==
  \/ BeginCleanup \/ EndDestroy \/ Terminate \/ Unlink
  \/ \E k \in Kinds : Destroy(k)

Next == Launching \/ ForkFails \/ Cleaning \/ \E i \in DOMAIN procs : Process(i)

SafeSpec == Init /\ [][Next]_vars

\* The simulator runs on while it can.
Spec == SafeSpec /\ WF_vars(Launching \/ Cleaning)

-----------------------------------------------------------------------------
(* Properties.                                                              *)

\* Every variable has its type; among the rest, the numbers kept are of processes.
TypeOK ==
  /\ phase \in Phases /\ line \in Started \cup {"none"} /\ lines \in 0..MaxLines
  /\ count \in [Kinds -> 0..MaxLines]
  /\ pids \in [Places -> {0} \cup DOMAIN procs]
  /\ records \subseteq [kind : Kinds, slot : 0..MaxLines, at : Int]
  /\ destroyed \subseteq Kinds /\ told \subseteq DOMAIN procs
  /\ procs \in Seq([kind : Kinds, offset : Int, port : Int, at : Int, state : ProcStates])

\* A record that its area has room for.
Fits(r) == r.slot < Slots[r.kind]

\* No kind has had more INIT lines than its area has records: one overseer and one
\* fire alarm unit, 40 card readers, 10 elevators, 20 of the others (simulator.c does
\* not look).  processPIDs has the same limits.
WithinAreas == \A r \in records : Fits(r)

\* Every record lies inside the object, and no two that their areas have room for
\* overlap, whatever the others do (simulator.c:110 and the like): only a line too
\* many of a kind damages the record of another component.
RecordsDisjoint ==
  /\ \A a \in records : Inside(a)
  /\ \A a, b \in records : a # b /\ Fits(a) /\ Fits(b) => Disjoint(a, b)

\* A program is told an offset at which a record of its kind has been initialised
\* before it was forked (simulator.c:123-124).
InitialisedFirst ==
  \A i \in DOMAIN procs :
    \E r \in records : r.kind = procs[i].kind /\ r.at = procs[i].offset

\* No two processes get the same port, unless the scenario has two overseers; and the
\* codes in the receiver list of a temperature sensor mean the processes the simulator
\* gave those ports: "F" the first fire alarm unit, sensor n the one of the (n+1)th
\* line (simulator.c:85, 135, 167, 196; helper_functions.c:483).
AddressesMatch ==
  \A i \in DOMAIN procs :
    LET p == procs[i]
        before == Cardinality({j \in 1..(i - 1) : procs[j].kind = p.kind})
    IN  /\ \A j \in 1..(i - 1) :
             procs[j].port = p.port =>
               p.port = NoPort \/ {p.kind, procs[j].kind} = {"overseer"}
        /\ p.kind = "firealarm" /\ before = 0 => p.port = GetPortFromCode(FireAlarm)
        /\ p.kind = "overseer" => p.port = GetPortFromCode(Overseer)
        /\ p.kind = "tempsensor" => p.port = GetPortFromCode(Sensor(before))

\* The memory is there from the start to the end of the simulator.
MemoryState ==
  IF phase \in {"setup", "failed"} THEN "none"
  ELSE IF phase = "done" THEN "gone" ELSE "there"

Promise == INSTANCE Lifecycle
  WITH Processes <- 1..MaxLines, memory <- MemoryState,
       alive <- {i \in DOMAIN procs : ~Gone(procs[i])}, known <- Kept, told <- told

\* The simulator implements Lifecycle: no process starts before there is memory for
\* it, and the memory is released only when every process that runs, and whose number
\* is still kept, was sent its SIGTERM (simulator.c:31-32, 72, 278-280).
ImplementsLifecycle == Promise!Spec

\* Within the limits that is every process: when the memory is released, who still
\* runs has been told to end (helper_functions.c:173-226 against simulator.c:72-236).
NobodyForgotten ==
  WithinAreas /\ phase \in {"unlink", "done"} =>
    \A i \in DOMAIN procs : Gone(procs[i]) \/ i \in told

\* The comments at simulator.c:274-280: "Sleep for 1sec then start the cleanup",
\* "Terminate processes based on PID", "Release shared memory".  The cleanup is
\* started and ends.
CleanupEnds == phase = "destroy" ~> phase = "done"

\* Two processes never work on the same record, but for the elevators, which
\* share the one at the start of the memory (elevator.c:223): not what the usage
\* line at elevator.c:217 says of "{shared memory offset}".  Beyond the limits of the
\* areas nothing is said.
OneWorkerPerRecord ==
  WithinAreas => \A i, j \in DOMAIN procs :
    /\ i # j
    /\ {procs[i].state, procs[j].state} \subseteq {"working", "waiting"}
    /\ procs[i].at = procs[j].at
    /\ procs[i].at # -1
    => procs[i].kind = "elevator" /\ procs[j].kind = "elevator"
=============================================================================
