------------------------------- MODULE Cardreader -------------------------------
(***************************************************************************)
(* A card reader, cardreader.c: it keeps the mutex of its shared-memory     *)
(* record while it asks the overseer about the scanned card over a new TCP  *)
(* connection and publishes the answer, and gives the mutex up only in      *)
(* pthread_cond_wait().                                                     *)
(*                                                                         *)
(* The scanner that writes the card and takes the answer, and the overseer  *)
(* that decides, are not part of the sources.  The scanner is modelled from *)
(* what the record is made for (data_structs.h:28-36): under the mutex it   *)
(* writes the card and clears the response, it signals after unlocking, and *)
(* it waits on response_cond until there is a response.                     *)
(***************************************************************************)
EXTENDS Naturals, Sequences

CONSTANTS
  Cards,       \* card numbers
  FdLimit,     \* how many connections the process can hold open
  Faults,      \* what may go wrong, see FaultKinds
  MaxSwipes    \* bound: number of scans

\* "refused": connect() fails;  "reset": send() or recv() fails;
\* "timeout": recv() gives up after {wait time};
\* "spurious": pthread_cond_wait() returns without a signal.
FaultKinds == {"refused", "reset", "timeout", "spurious"}

ASSUME CardreaderAssumption ==
  /\ Faults \subseteq FaultKinds
  /\ FdLimit \in Nat /\ MaxSwipes \in Nat
  /\ "" \notin Cards

VARIABLES
  scanned,   \* shared: the card, "" as initialised
  response,  \* shared: "0" for '\0', "Y" or "N"
  mutex,     \* who holds it: "free", "reader" or "scanner"
  reader,    \* where the process is, see ReaderPlaces
  scanner,   \* where the scanner is, see ScannerPlaces
  buffer,    \* recv_msg, whose content outlives the block it is declared in
  timedOut,  \* history: the last recv() timed out
  fds,       \* connections the loop has opened; it closes none
  swipes,    \* history: number of scans
  requests   \* history, one per connection: the card asked about, the scan
             \* it belongs to, the overseer's verdict ("none" before it replies)

sharedVars  == <<scanned, response, mutex>>
scannerVars == <<scanner, swipes>>
replyVars   == <<buffer, timedOut>>
netVars     == <<fds, requests>>
vars == <<sharedVars, reader, scannerVars, replyVars, netVars>>

\* "lock": wants the mutex, at first or back in pthread_cond_wait(); from
\* "test" to "sleep" it holds the mutex; "wait": waits to be signalled.
ReaderPlaces == {"hello", "lock", "test", "send", "recv", "sleep", "wait", "dead"}

\* "ask": wants the mutex to look for the response; "asleep": waits for it.
ScannerPlaces ==
  {"idle", "locked", "written", "unlocked", "ask", "check", "asleep"}

Verdicts == {"none", "ALLOWED#", "other"}

Init ==
  /\ scanned = "" /\ response = "0" /\ mutex = "free"
  /\ reader = "hello" /\ scanner = "idle"
  /\ buffer = "garbage" /\ timedOut = FALSE
  /\ fds = 0 /\ swipes = 0 /\ requests = <<>>

-----------------------------------------------------------------------------
(* The reader.  exit() does not unlock the mutex.  A process that has run   *)
(* out of descriptors cannot connect, which bounds fds and requests.        *)

Die ==
  /\ reader' = "dead"
  /\ UNCHANGED <<sharedVars, scannerVars, replyVars, netVars>>

\* The HELLO connection is opened, used and closed.
Hello ==
  /\ reader = "hello"
  /\ \/ /\ reader' = "lock"
        /\ UNCHANGED <<sharedVars, scannerVars, replyVars, netVars>>
     \/ "refused" \in Faults /\ Die

Lock ==
  /\ reader = "lock"
  /\ mutex = "free"
  /\ mutex' = "reader"
  /\ reader' = "test"
  /\ UNCHANGED <<scanned, response, scannerVars, replyVars, netVars>>

\* Mutated form: the mutex is given up while the overseer is asked.
Connect_Unlocked ==
  /\ reader = "test"
  /\ scanned # ""
  /\ fds < FdLimit
  /\ fds' = fds + 1
  /\ reader' = "send"
  /\ mutex' = "free"
  /\ UNCHANGED <<scanned, response, scannerVars, replyVars, requests>>

\* create_tcp_connection: a process out of descriptors, or refused, ends.
Connect ==
  /\ reader = "test"
  /\ scanned # ""
  /\ \/ /\ fds < FdLimit
        /\ fds' = fds + 1
        /\ reader' = "send"
        /\ UNCHANGED <<sharedVars, scannerVars, replyVars, requests>>
     \/ (fds = FdLimit \/ "refused" \in Faults) /\ Die

SendRequest ==
  /\ reader = "send"
  /\ \/ /\ requests' = Append(requests, [card |-> scanned, scan |-> swipes,
                                         verdict |-> "none"])
        /\ reader' = "recv"
        /\ UNCHANGED <<sharedVars, scannerVars, replyVars, fds>>
     \/ "reset" \in Faults /\ Die

\* Mutated form: nobody is told of the response.
Publish_Silent(allowed) ==
  /\ response' = IF allowed THEN "Y" ELSE "N"
  /\ reader' = "sleep"
  /\ UNCHANGED scanner

\* Mutated form: the first letter of the overseer's reply is published.
Publish_Raw(allowed) ==
  /\ response' = IF allowed THEN "A" ELSE "D"
  /\ scanner' = IF scanner = "asleep" THEN "ask" ELSE scanner
  /\ reader' = "sleep"

\* The response is published, with the mutex held, and response_cond signalled.
Publish(allowed) ==
  /\ response' = IF allowed THEN "Y" ELSE "N"
  /\ scanner' = IF scanner = "asleep" THEN "ask" ELSE scanner
  /\ reader' = "sleep"

\* Mutated form: the answer on any connection so far is taken.
ReceiveReply_AnyConnection ==
  /\ reader = "recv"
  /\ \E i \in 1..Len(requests) :
       /\ requests[i].verdict # "none"
       /\ buffer' = requests[i].verdict
       /\ Publish(requests[i].verdict = "ALLOWED#")
  /\ timedOut' = FALSE
  /\ UNCHANGED <<scanned, mutex, swipes, netVars>>

\* Only the newest connection is read.
ReceiveReply ==
  /\ reader = "recv"
  /\ LET verdict == requests[Len(requests)].verdict
     IN  /\ verdict # "none"
         /\ buffer' = verdict
         /\ Publish(verdict = "ALLOWED#")
  /\ timedOut' = FALSE
  /\ UNCHANGED <<scanned, mutex, swipes, netVars>>

\* Mutated form: the result of strcmp() is taken for a truth value.
TimeOut_Inverted ==
  /\ "timeout" \in Faults
  /\ reader = "recv"
  /\ timedOut' = TRUE
  /\ Publish(buffer # "ALLOWED#")
  /\ UNCHANGED <<scanned, mutex, buffer, swipes, netVars>>

\* len is -1: the 'N' of line 78 is overwritten by a comparison with what
\* recv_msg still holds from the scan before.  Line 87 then writes one byte in
\* front of recv_msg, into a local that is written again before it is read.
TimeOut ==
  /\ "timeout" \in Faults
  /\ reader = "recv"
  /\ timedOut' = TRUE
  /\ Publish(buffer = "ALLOWED#")
  /\ UNCHANGED <<scanned, mutex, buffer, swipes, netVars>>

\* Any other error of recv().
ReceiveFails == reader = "recv" /\ "reset" \in Faults /\ Die

\* Mutated form: wait without having looked for a card.
WaitForScan_Blind ==
  /\ reader \in {"sleep", "test"}
  /\ mutex' = "free"
  /\ reader' = "wait"
  /\ UNCHANGED <<scanned, response, scannerVars, replyVars, netVars>>

\* Releasing the mutex and becoming a waiter is one step of the library.
WaitForScan ==
  /\ reader = "sleep" \/ (reader = "test" /\ scanned = "")
  /\ mutex' = "free"
  /\ reader' = "wait"
  /\ UNCHANGED <<scanned, response, scannerVars, replyVars, netVars>>

WakeSpuriously ==
  /\ "spurious" \in Faults
  /\ reader = "wait"
  /\ reader' = "lock"
  /\ UNCHANGED <<sharedVars, scannerVars, replyVars, netVars>>

Reader ==
  \/ Hello \/ Lock \/ Connect \/ SendRequest
  \/ ReceiveReply \/ TimeOut \/ ReceiveFails \/ WaitForScan

-----------------------------------------------------------------------------
(* The overseer (external).  "other" stands for a refusal, a reply cut      *)
(* short and a connection closed without one.                               *)

Decide(i) ==
  /\ requests[i].verdict = "none"
  /\ \E v \in Verdicts \ {"none"} : requests' = [requests EXCEPT ![i].verdict = v]
  /\ UNCHANGED <<sharedVars, reader, scannerVars, replyVars, fds>>

-----------------------------------------------------------------------------
(* The scanner (external).                                                  *)

ScannerLock ==
  /\ mutex = "free"
  /\ mutex' = "scanner"
  /\ \/ /\ scanner = "idle"
        /\ swipes < MaxSwipes
        /\ scanner' = "locked"
     \/ /\ scanner = "ask"
        /\ scanner' = "check"
  /\ UNCHANGED <<scanned, response, reader, swipes, replyVars, netVars>>

Swipe(k) ==
  /\ scanner = "locked"
  /\ scanned' = k
  /\ response' = "0"
  /\ swipes' = swipes + 1
  /\ scanner' = "written"
  /\ UNCHANGED <<mutex, reader, replyVars, netVars>>

ScannerUnlock ==
  /\ scanner = "written"
  /\ mutex' = "free"
  /\ scanner' = "unlocked"
  /\ UNCHANGED <<scanned, response, reader, swipes, replyVars, netVars>>

ScannerSignal ==
  /\ scanner = "unlocked"
  /\ reader' = IF reader = "wait" THEN "lock" ELSE reader
  /\ scanner' = "ask"
  /\ UNCHANGED <<sharedVars, swipes, replyVars, netVars>>

\* Takes the response, or sleeps until response_cond is signalled.
ScannerCheck ==
  /\ scanner = "check"
  /\ mutex' = "free"
  /\ scanner' = IF response = "0" THEN "asleep" ELSE "idle"
  /\ UNCHANGED <<scanned, response, reader, swipes, replyVars, netVars>>

ScannerStep ==
  \/ \E k \in Cards : Swipe(k)
  \/ ScannerUnlock \/ ScannerSignal \/ ScannerCheck

-----------------------------------------------------------------------------
Next ==
  \/ Reader \/ WakeSpuriously
  \/ \E i \in 1..Len(requests) : Decide(i)
  \/ ScannerLock \/ ScannerStep

SafeSpec == Init /\ [][Next]_vars

\* The reader runs, its recv() ended by the timeout if by nothing else: the
\* overseer owes no answer.  The scanner finishes what it has begun, and gets
\* the mutex when it is free again and again.
Fairness ==
  /\ WF_vars(Reader)
  /\ WF_vars(ScannerStep)
  /\ SF_vars(scanner = "ask" /\ ScannerLock)

Spec == SafeSpec /\ Fairness

-----------------------------------------------------------------------------
(* Properties.                                                              *)

TypeOK ==
  /\ scanned \in Cards \cup {""}
  /\ response \in {"0", "Y", "N"}
  /\ mutex \in {"free", "reader", "scanner"}
  /\ reader \in ReaderPlaces
  /\ scanner \in ScannerPlaces
  /\ buffer \in {"garbage", "ALLOWED#", "other"}
  /\ timedOut \in BOOLEAN
  /\ fds \in 0..FdLimit
  /\ swipes \in 0..MaxSwipes
  /\ requests \in Seq([card : Cards, scan : 0..MaxSwipes, verdict : Verdicts])

\* The request for the scan in the record that the overseer has allowed.
Allowed ==
  \E i \in 1..Len(requests) :
    /\ requests[i].card = scanned
    /\ requests[i].scan = swipes
    /\ requests[i].verdict = "ALLOWED#"

\* A 'Y' that no timeout produced was allowed by the overseer for the card and
\* the very scan in the record: neither a late answer on an earlier connection
\* nor a card swiped while the overseer was asked gets it (cardreader.c:52-93).
GrantsOnlyAllowed == response = "Y" /\ ~timedOut => Allowed

\* A scan and its reader never wait for each other: while a card is in the
\* record unanswered, the reader waits only if its signal is still to come
\* (cardreader.c:52, 55, 92).
NotBothAsleep ==
  reader = "wait" /\ scanned # "" /\ response = "0"
    => scanner \in {"written", "unlocked"}

\* Every scan is answered, unless the reader has ended, even if the overseer is
\* silent: the wait time of line 58 bounds how long the mutex is kept.
ScanAnswered ==
  scanner = "written" ~> scanner = "idle" \/ reader = "dead"

\* The reader implements AccessPoint, whatever goes wrong: only a time-out makes
\* an answer the overseer did not give (cardreader.c:52-93).
Promise == INSTANCE AccessPoint
  WITH shown <- scanned, allowed <- Allowed, answer <- response, silent <- timedOut

ImplementsAccessPoint == Promise!Spec

\* A scan that timed out is refused: cardreader.c:78 sets 'N', and the comment
\* of line 86 gives line 88 the setting of Y or N from a received string.
TimeoutRefuses == timedOut => response # "Y"
=============================================================================
