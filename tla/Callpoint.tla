------------------------------- MODULE Callpoint -------------------------------
(***************************************************************************)
(* The call points, callpoint.c: each is a process that, under the mutex of *)
(* its shared-memory record, sends a FIRE datagram and sleeps while its     *)
(* status is '*', and otherwise waits on the condition variable.            *)
(*                                                                         *)
(* The button that sets and clears the status is not part of the sources.   *)
(* It is modelled from what the record is made for (data_structs.h:47-53):  *)
(* it takes the mutex, writes, unlocks and then signals, in the order in    *)
(* which firealarm.c:181-184 updates its own flag.                          *)
(***************************************************************************)
EXTENDS Naturals

CONSTANT Callpoints  \* the call point processes, each with its button

VARIABLES
  status,  \* [Callpoints -> {"-", "*"}]
  mutex,   \* who holds the mutex: "free", "callpoint" or "button"
  place,   \* where the process is, see Places
  button,  \* where the button is: "idle", "locked", "written", "unlocked"
  pressed  \* history: call points whose button was ever pressed

vars == <<status, mutex, place, button, pressed>>

\* "lock": wants the mutex; "test": holds it, about to look at the status;
\* "sleep": in usleep() with the mutex held; "wait": in pthread_cond_wait();
\* "woken": left the condition variable, wants the mutex back;
\* "unlock": about to unlock.
Places == {"lock", "test", "sleep", "wait", "woken", "unlock"}

Init ==
  /\ status = [c \in Callpoints |-> "-"]
  /\ mutex = [c \in Callpoints |-> "free"]
  /\ place = [c \in Callpoints |-> "lock"]
  /\ button = [c \in Callpoints |-> "idle"]
  /\ pressed = {}

Goto(c, p) == place' = [place EXCEPT ![c] = p]
Hold(c, owner) == mutex' = [mutex EXCEPT ![c] = owner]

-----------------------------------------------------------------------------
(* The loop of main().                                                      *)

Lock(c) ==
  /\ place[c] = "lock"
  /\ mutex[c] = "free"
  /\ Hold(c, "callpoint")
  /\ Goto(c, "test")
  /\ UNCHANGED <<status, button, pressed>>

\* Mutated form: one datagram per press, then wait.
SendFire_Once(c) ==
  /\ place[c] = "test"
  /\ status[c] = "*"
  /\ Hold(c, "free")
  /\ Goto(c, "wait")
  /\ UNCHANGED <<status, button, pressed>>

\* Mutated form: FIRE is sent whatever the status is.
SendFire_Untested(c) ==
  /\ place[c] = "test"
  /\ Goto(c, "sleep")
  /\ UNCHANGED <<status, mutex, button, pressed>>

\* send_fire_datagram(); the datagram itself is FireSystem's business.
SendFire(c) ==
  /\ place[c] = "test"
  /\ status[c] = "*"
  /\ Goto(c, "sleep")
  /\ UNCHANGED <<status, mutex, button, pressed>>

\* Mutated form: wait without having looked at the status.
WaitForPress_Blind(c) ==
  /\ place[c] = "test"
  /\ Hold(c, "free")
  /\ Goto(c, "wait")
  /\ UNCHANGED <<status, button, pressed>>

\* Releasing the mutex and becoming a waiter is one step of the library.
WaitForPress(c) ==
  /\ place[c] = "test"
  /\ status[c] # "*"
  /\ Hold(c, "free")
  /\ Goto(c, "wait")
  /\ UNCHANGED <<status, button, pressed>>

\* POSIX lets a waiter return without a signal.
WakeSpuriously(c) ==
  /\ place[c] = "wait"
  /\ Goto(c, "woken")
  /\ UNCHANGED <<status, mutex, button, pressed>>

Relock(c) ==
  /\ place[c] = "woken"
  /\ mutex[c] = "free"
  /\ Hold(c, "callpoint")
  /\ Goto(c, "unlock")
  /\ UNCHANGED <<status, button, pressed>>

\* usleep(resend_delay) returns.
Resend(c) ==
  /\ place[c] = "sleep"
  /\ Goto(c, "unlock")
  /\ UNCHANGED <<status, mutex, button, pressed>>

Unlock(c) ==
  /\ place[c] = "unlock"
  /\ Hold(c, "free")
  /\ Goto(c, "lock")
  /\ UNCHANGED <<status, button, pressed>>

Process(c) ==
  \/ Lock(c) \/ SendFire(c) \/ WaitForPress(c)
  \/ Relock(c) \/ Resend(c) \/ Unlock(c)

-----------------------------------------------------------------------------
(* The button (external).                                                   *)

ButtonLock(c) ==
  /\ button[c] = "idle"
  /\ mutex[c] = "free"
  /\ Hold(c, "button")
  /\ button' = [button EXCEPT ![c] = "locked"]
  /\ UNCHANGED <<status, place, pressed>>

Press(c) ==
  /\ button[c] = "locked"
  /\ status' = [status EXCEPT ![c] = "*"]
  /\ pressed' = pressed \cup {c}
  /\ button' = [button EXCEPT ![c] = "written"]
  /\ UNCHANGED <<mutex, place>>

Clear(c) ==
  /\ button[c] = "locked"
  /\ status' = [status EXCEPT ![c] = "-"]
  /\ button' = [button EXCEPT ![c] = "written"]
  /\ UNCHANGED <<mutex, place, pressed>>

ButtonUnlock(c) ==
  /\ button[c] = "written"
  /\ Hold(c, "free")
  /\ button' = [button EXCEPT ![c] = "unlocked"]
  /\ UNCHANGED <<status, place, pressed>>

\* pthread_cond_signal: wakes the process if it waits, is lost otherwise.
ButtonSignal(c) ==
  /\ button[c] = "unlocked"
  /\ button' = [button EXCEPT ![c] = "idle"]
  /\ place' = [place EXCEPT ![c] = IF @ = "wait" THEN "woken" ELSE @]
  /\ UNCHANGED <<status, mutex, pressed>>

Button(c) ==
  \/ ButtonLock(c) \/ Press(c) \/ Clear(c) \/ ButtonUnlock(c)
  \/ ButtonSignal(c)

-----------------------------------------------------------------------------
Next == \E c \in Callpoints : Process(c) \/ WakeSpuriously(c) \/ Button(c)

Spec == Init /\ [][Next]_vars

-----------------------------------------------------------------------------
(* Properties.                                                              *)

TypeOK ==
  /\ status \in [Callpoints -> {"-", "*"}]
  /\ mutex \in [Callpoints -> {"free", "callpoint", "button"}]
  /\ place \in [Callpoints -> Places]
  /\ button \in [Callpoints -> {"idle", "locked", "written", "unlocked"}]
  /\ pressed \subseteq Callpoints

\* No press is lost between the test of the status and the wait: a process
\* that waits on an active status is about to be signalled.
PressNotLost ==
  \A c \in Callpoints :
    place[c] = "wait" /\ status[c] = "*" => button[c] \in {"written", "unlocked"}
=============================================================================
