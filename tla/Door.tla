---------------------------------- MODULE Door ----------------------------------
(***************************************************************************)
(* A door, door.c: it listens on a port and gives every connection to a      *)
(* thread of its own, which closes it without reading.  The status of the    *)
(* door is set once and never changes, so the model has none.               *)
(*                                                                         *)
(* The module is open: EmergencyPath closes it with the fire alarm unit,    *)
(* the only program that connects to a door.                                *)
(***************************************************************************)
EXTENDS Naturals, Sequences, FiniteSets

CONSTANTS
  Doors,
  DoorFds,      \* how many connections a door can hold open
  DoorBacklog,  \* second argument of listen()
  DoorFaults    \* "thread": pthread_create() fails; "accept": accept() fails for a
                \* reason of its own

VARIABLES
  form,       \* the arguments a door is started with, see Forms
  door,       \* where main() is: "start", in "accept", at "spawn", or "dead"
  doorPort,   \* where it listens: "none", its "own" port or an "other" one
  pending,    \* number of connections made and not yet accepted
  newSocket,  \* new_socket
  open,       \* descriptors of the connections that are open
  threads,    \* for each thread that has not run yet, the *arg it was given
  leaked      \* history: descriptors for which no thread could be created

connectionVars == <<newSocket, open, threads, leaked>>
vars == <<form, door, doorPort, pending, connectionVars>>

\* "usage": as the usage line says, one argument more than the test admits;
\* "simulator": address and port in one, so FAIL_SAFE is taken for the port;
\* "manual": as main() reads them, without the address of the overseer.
Forms == {"usage", "simulator", "manual"}

Init ==
  /\ form \in [Doors -> Forms]
  /\ door = [d \in Doors |-> "start"]
  /\ doorPort = [d \in Doors |-> "none"]
  /\ pending = [d \in Doors |-> 0]
  /\ newSocket = [d \in Doors |-> 0]
  /\ open = [d \in Doors |-> {}]
  /\ threads = [d \in Doors |-> <<>>]
  /\ leaked = [d \in Doors |-> {}]

Goto(d, p) == door' = [door EXCEPT ![d] = p]

\* atoi("FAIL_SAFE") is 0, for which bind() takes any free port.
Start(d) ==
  /\ door[d] = "start"
  /\ \/ /\ form[d] # "usage"
        /\ Goto(d, "accept")
        /\ doorPort' = [doorPort EXCEPT ![d] = IF form[d] = "manual" THEN "own" ELSE "other"]
     \/ /\ Goto(d, "dead")
        /\ UNCHANGED doorPort
  /\ UNCHANGED <<form, pending, connectionVars>>

\* The kernel gives the lowest descriptor that is free.
Free(d) == (1..DoorFds) \ open[d]
Lowest(S) == CHOOSE x \in S : \A y \in S : x <= y

Accept(d) ==
  /\ door[d] = "accept"
  /\ pending[d] > 0 /\ Free(d) # {}
  /\ LET fd == Lowest(Free(d))
     IN  /\ newSocket' = [newSocket EXCEPT ![d] = fd]
         /\ open' = [open EXCEPT ![d] = @ \cup {fd}]
  /\ pending' = [pending EXCEPT ![d] = @ - 1]
  /\ Goto(d, "spawn")
  /\ UNCHANGED <<form, doorPort, threads, leaked>>

\* main() returns.
Return(d) ==
  /\ door[d] = "accept"
  /\ Goto(d, "dead")
  /\ pending' = [pending EXCEPT ![d] = 0]
  /\ open' = [open EXCEPT ![d] = {}]
  /\ threads' = [threads EXCEPT ![d] = <<>>]
  /\ leaked' = [leaked EXCEPT ![d] = {}]
  /\ UNCHANGED <<form, doorPort, newSocket>>

\* With no descriptor left accept() fails at once ...
AcceptFails(d) == Free(d) = {} /\ Return(d)

\* ... and for another reason (an aborted connection, no memory) at any time.
AcceptAborts(d) == "accept" \in DoorFaults /\ Return(d)

\* Mutated form: main() waits for the end of the thread, and is not woken.
Spawn_Waits(d) ==
  /\ door[d] = "spawn"
  /\ threads' = [threads EXCEPT ![d] = Append(@, newSocket[d])]
  /\ Goto(d, "join")
  /\ UNCHANGED <<form, doorPort, pending, newSocket, open, leaked>>

\* pthread_create() reports failure by a positive number, the code looks for a
\* negative one.
Spawn(d) ==
  /\ door[d] = "spawn"
  /\ \/ /\ threads' = [threads EXCEPT ![d] = Append(@, newSocket[d])]
        /\ UNCHANGED leaked
     \/ /\ "thread" \in DoorFaults
        /\ leaked' = [leaked EXCEPT ![d] = @ \cup {newSocket[d]}]
        /\ UNCHANGED threads
  /\ Goto(d, "accept")
  /\ UNCHANGED <<form, doorPort, pending, newSocket, open>>

Without(s, i) == SubSeq(s, 1, i - 1) \o SubSeq(s, i + 1, Len(s))

\* Mutated form: the threads share new_socket instead of a copy each.
HandleConnection_Shared(d, i) ==
  /\ i \in DOMAIN threads[d]
  /\ open' = [open EXCEPT ![d] = @ \ {newSocket[d]}]
  /\ threads' = [threads EXCEPT ![d] = Without(@, i)]
  /\ UNCHANGED <<form, door, doorPort, pending, newSocket, leaked>>

\* Mutated form: the thread does not close its connection.
HandleConnection_NoClose(d, i) ==
  /\ i \in DOMAIN threads[d]
  /\ threads' = [threads EXCEPT ![d] = Without(@, i)]
  /\ UNCHANGED <<form, door, doorPort, pending, newSocket, open, leaked>>

\* Threads run in any order.
HandleConnection(d, i) ==
  /\ i \in DOMAIN threads[d]
  /\ open' = [open EXCEPT ![d] = @ \ {threads[d][i]}]
  /\ threads' = [threads EXCEPT ![d] = Without(@, i)]
  /\ UNCHANGED <<form, door, doorPort, pending, newSocket, leaked>>

Main(d) == Start(d) \/ Accept(d) \/ AcceptFails(d) \/ Spawn(d)

-----------------------------------------------------------------------------
(* The clients' side of TCP (external).                                     *)

Listening(d) == doorPort[d] = "own" /\ door[d] \notin {"start", "dead"}

\* The kernel completes one connection more than the backlog; another has to wait.
Connected(d) ==
  /\ Listening(d) /\ pending[d] <= DoorBacklog
  /\ pending' = [pending EXCEPT ![d] = @ + 1]
  /\ UNCHANGED <<form, door, doorPort, connectionVars>>

-----------------------------------------------------------------------------
(* Properties.                                                              *)

TypeOK ==
  /\ form \in [Doors -> Forms]
  /\ door \in [Doors -> {"start", "accept", "spawn", "dead"}]
  /\ doorPort \in [Doors -> {"none", "own", "other"}]
  /\ pending \in [Doors -> 0..(DoorBacklog + 1)]
  /\ newSocket \in [Doors -> 0..DoorFds]
  /\ open \in [Doors -> SUBSET (1..DoorFds)]
  /\ threads \in [Doors -> Seq(1..DoorFds)]
  /\ leaked \in [Doors -> SUBSET (1..DoorFds)]

ToClose(d) == {threads[d][i] : i \in DOMAIN threads[d]}

\* Every open connection has exactly one to close it: the one thread that got its
\* descriptor, or main() on the way to create it, unless the creation has failed.
\* So no thread closes a connection that got a reused descriptor (door.c:27-33,
\* 85-89).
OneOwner ==
  \A d \in Doors :
    LET mine == IF door[d] = "spawn" THEN {newSocket[d]} ELSE {}
    IN  /\ open[d] = ToClose(d) \cup mine \cup leaked[d]
        /\ Cardinality(open[d]) = Len(threads[d]) + Cardinality(mine)
                                    + Cardinality(leaked[d])
=============================================================================
