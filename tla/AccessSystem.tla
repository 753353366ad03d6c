------------------------------ MODULE AccessSystem ------------------------------
(***************************************************************************)
(* A card reader (Cardreader) and the overseer it asks (Overseer).  The     *)
(* reader may come up before the overseer listens, and the overseer may be  *)
(* killed first: a connection is refused exactly then.                      *)
(*                                                                         *)
(* What the overseer does with a request is not written yet                 *)
(* (overseer.c:52, "ToDo" at overseer.c:73).  Either nothing, as the source *)
(* stands, or it answers the connections it has accepted, as cardreader.c   *)
(* expects.                                                                 *)
(***************************************************************************)
EXTENDS Cardreader

CONSTANTS
  MaxSockets, Backlog,
  MaxFailures  \* bound: number of failures of accept()

ASSUME OverseerAssumption ==
  MaxSockets \in Nat \ {0} /\ Backlog \in Nat /\ MaxFailures \in Nat

VARIABLES
  overseer, port, backlog, sockets,  \* the overseer
  handler                            \* "empty" or "answers"

\* Connection 0 is the reader's HELLO, connection n its nth request.
NoConnection == MaxSockets + FdLimit + 1
Conns == 0..FdLimit

O == INSTANCE Overseer

overseerVars == <<overseer, port, backlog, sockets>>
systemVars == <<vars, overseerVars, handler>>

SystemInit == Init /\ O!Init /\ handler \in {"empty", "answers"}

-----------------------------------------------------------------------------
(* The two ends of a connection.                                            *)

SayHello ==
  /\ Hello
  /\ \/ reader' = "lock" /\ O!Connected(0)
     \/ reader' = "dead" /\ ~O!Listening /\ UNCHANGED overseerVars

OpenConnection ==
  /\ Connect
  /\ \/ reader' = "send" /\ O!Connected(fds')
     \/ /\ reader' = "dead" /\ (fds = FdLimit \/ ~O!Listening)
        /\ UNCHANGED overseerVars

\* A connection breaks when the overseer ends.
UseConnection ==
  /\ SendRequest \/ ReceiveFails
  /\ reader' = "dead" => overseer = "ended"
  /\ UNCHANGED overseerVars

ReaderStep ==
  /\ \/ SayHello \/ OpenConnection \/ UseConnection
     \/ (Lock \/ ReceiveReply \/ TimeOut \/ WaitForScan) /\ UNCHANGED overseerVars
  /\ UNCHANGED handler

\* A connection can only be answered once it is in the array.
Answer(i) ==
  /\ handler = "answers" /\ overseer = "accept"
  /\ \E s \in DOMAIN sockets : sockets[s] = i
  /\ Decide(i)
  /\ UNCHANGED <<overseerVars, handler>>

\* The overseer has ended: the connections it had are closed without a reply, so recv()
\* on the newest, the only one that is read, returns 0 (or fails: UseConnection).
HangUp ==
  /\ overseer = "ended" /\ requests # <<>>
  /\ LET i == Len(requests) IN Decide(i) /\ requests'[i].verdict = "other"
  /\ UNCHANGED <<overseerVars, handler>>

Failures == Len(SelectSeq(sockets, LAMBDA s : s = NoConnection))

OverseerStep ==
  /\ O!Start \/ O!Accept \/ O!End \/ (Failures < MaxFailures /\ O!AcceptFails)
  /\ UNCHANGED <<vars, handler>>

Outside == UNCHANGED <<overseerVars, handler>>

SystemNext ==
  \/ ReaderStep
  \/ OverseerStep
  \/ \E i \in 1..Len(requests) : Answer(i)
  \/ HangUp
  \/ (WakeSpuriously \/ ScannerLock \/ ScannerStep) /\ Outside

\* Both processes run.  The rest is as in Cardreader.
SystemFairness ==
  /\ WF_systemVars(ReaderStep)
  /\ WF_systemVars((O!Start \/ O!Accept) /\ UNCHANGED <<vars, handler>>)
  /\ WF_systemVars(ScannerStep /\ Outside)
  /\ SF_systemVars(scanner = "ask" /\ ScannerLock /\ Outside)

System == SystemInit /\ [][SystemNext]_systemVars /\ SystemFairness

-----------------------------------------------------------------------------
(* Properties.                                                              *)

SystemTypeOK ==
  /\ TypeOK
  /\ overseer \in {"start", "accept", "ended"} /\ port \in {"none", "own", "other"}
  /\ backlog \in Seq(Conns) /\ sockets \in Seq(Conns \cup {NoConnection})
  /\ handler \in {"empty", "answers"}

\* All connections up to n are in P, in the order they were made; what else is
\* in P stands for failures.
InOrder(P, n) ==
  /\ \A p \in DOMAIN P : P[p] \in 0..n \cup {NoConnection}
  /\ \A c \in 0..n : \E p \in DOMAIN P : P[p] = c
  /\ \A p, q \in DOMAIN P :
       p < q /\ P[q] # NoConnection => P[p] < P[q] \/ P[p] = NoConnection

\* Every connection a reader makes takes a place in the overseer's array, once
\* and in order, and never gives it back, so each scan brings the array nearer to
\* its 100th place, which nothing checks (overseer.c:61-71, cardreader.c:58).
PlacesUsedUp ==
  reader \notin {"hello", "dead"} => InOrder(sockets \o backlog, fds)

\* With the overseer as its source stands nobody is let in, whatever the reader's
\* buffer holds and however its wait ends (overseer.c:52, cardreader.c:73-93).
StubLetsNobodyIn == handler = "empty" => response # "Y"
=============================================================================
