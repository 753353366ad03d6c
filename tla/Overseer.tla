-------------------------------- MODULE Overseer --------------------------------
(***************************************************************************)
(* The overseer as far as overseer.c goes: it binds its port, listens, and  *)
(* accepts connections for ever into an array, without reading, answering   *)
(* or closing any: the function that is to handle them is empty.            *)
(*                                                                         *)
(* The module is open: its clients connect through Connected.  AccessSystem *)
(* closes it with a card reader.                                            *)
(***************************************************************************)
EXTENDS Naturals, Sequences

CONSTANTS
  MaxSockets,   \* length of connectedSockets
  Backlog,      \* second argument of listen()
  NoConnection  \* what accept() returns when it fails

VARIABLES
  overseer,  \* where the process is: "start", in "accept", or "ended"
  port,      \* where it listens: "none", its "own" port or an "other" one
  backlog,   \* connections made and not yet accepted
  sockets    \* connectedSockets and connectedSocketsCount, as a sequence

vars == <<overseer, port, backlog, sockets>>

Init ==
  /\ overseer = "start" /\ port = "none"
  /\ backlog = <<>> /\ sockets = <<>>

\* createListenAddress compares the new structure, not the address, with "", so
\* inet_pton("") fails and the address stays what malloc() found.  If that is no
\* address of the host, bind() fails, which is only printed, and listen() takes a
\* port that nobody knows.
Start ==
  /\ overseer = "start"
  /\ overseer' = "accept"
  /\ port' \in {"own", "other"}
  /\ UNCHANGED <<backlog, sockets>>

\* The array is written behind its end: what follows is not modelled.
Overrun == Len(sockets) > MaxSockets

Store(s) == sockets' = Append(sockets, s)

\* Mutated form: the counter is not advanced, the newest takes the last place.
Accept_NoCount ==
  /\ overseer = "accept" /\ ~Overrun
  /\ backlog # <<>>
  /\ sockets' = <<Head(backlog)>>
  /\ backlog' = Tail(backlog)
  /\ UNCHANGED <<overseer, port>>

Accept ==
  /\ overseer = "accept" /\ ~Overrun
  /\ backlog # <<>>
  /\ Store(Head(backlog))
  /\ backlog' = Tail(backlog)
  /\ UNCHANGED <<overseer, port>>

\* A failure takes a place in the array as well.
AcceptFails ==
  /\ overseer = "accept" /\ ~Overrun
  /\ Store(NoConnection)
  /\ UNCHANGED <<overseer, port, backlog>>

\* Killed by the simulator's clean-up, which takes the overseer first.
End ==
  /\ overseer # "ended"
  /\ overseer' = "ended"
  /\ UNCHANGED <<port, backlog, sockets>>

-----------------------------------------------------------------------------
(* The clients' side of TCP (external).                                     *)

Listening == overseer = "accept" /\ port = "own"

\* The kernel completes one connection more than the backlog; another has to wait.
Connected(c) ==
  /\ Listening
  /\ Len(backlog) <= Backlog
  /\ backlog' = Append(backlog, c)
  /\ UNCHANGED <<overseer, port, sockets>>
=============================================================================
