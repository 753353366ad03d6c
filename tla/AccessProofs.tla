------------------------------ MODULE AccessProofs ------------------------------
(***************************************************************************)
(* Theorems about the card reader, for any cards, any number of scans and    *)
(* any overseer (SafeSpec), and about the card reader with the overseer as   *)
(* it is written (System), whose steps are steps of the reader.             *)
(***************************************************************************)
EXTENDS AccessSystem, SequenceTheorems, TLAPS

\* Who holds the mutex while the card and the answer are handled.
MutexInv ==
  /\ reader \in {"test", "send", "recv", "sleep"} => mutex = "reader"
  /\ scanner \in {"locked", "written", "check"} => mutex = "scanner"
  /\ scanner = "locked" => swipes < MaxSwipes

\* The request in progress is about the card and the scan in the record, and no
\* request is about a scan still to come.
RequestInv ==
  /\ reader \in {"send", "recv"} => scanned # ""
  /\ reader = "recv" =>
       /\ requests # <<>>
       /\ requests[Len(requests)].card = scanned
       /\ requests[Len(requests)].scan = swipes
  /\ \A i \in 1..Len(requests) : requests[i].scan <= swipes

\* What is known of the answer in the record.
AnswerInv ==
  /\ reader = "sleep" => response # "0"
  /\ GrantsOnlyAllowed
  /\ NotBothAsleep

ReaderInv == TypeOK /\ MutexInv /\ RequestInv /\ AnswerInv

-----------------------------------------------------------------------------
(* The requests.                                                            *)

Request == [card : Cards, scan : 0..MaxSwipes, verdict : Verdicts]

\* A new request is nobody's permission yet and forgets none.
LEMMA RequestAppended ==
  ASSUME NEW s \in Seq(Request), NEW r \in Request
  PROVE  /\ Append(s, r) \in Seq(Request)
         /\ Len(Append(s, r)) = Len(s) + 1
         /\ Append(s, r) # <<>>
         /\ Append(s, r)[Len(s) + 1] = r
         /\ \A i \in 1..Len(s) : Append(s, r)[i] = s[i]
OBVIOUS

\* The elements of a sequence.
LEMMA ElementOf ==
  ASSUME NEW S, NEW s \in Seq(S)
  PROVE  \A i \in 1..Len(s) : s[i] \in S
OBVIOUS

\* A sequence that is not empty has a last element.
LEMMA LastOf ==
  ASSUME NEW S, NEW s \in Seq(S), s # <<>>
  PROVE  Len(s) \in 1..Len(s) /\ s[Len(s)] \in S
<1>1. Len(s) \in Nat /\ Len(s) # 0
  OBVIOUS
<1> QED BY <1>1

\* A verdict changes nothing else of the requests.
LEMMA RequestDecided ==
  ASSUME NEW s \in Seq(Request), NEW i \in 1..Len(s), NEW v \in Verdicts
  PROVE  LET t == [s EXCEPT ![i].verdict = v]
         IN  /\ t \in Seq(Request)
             /\ Len(t) = Len(s)
             /\ t[i] = [card |-> s[i].card, scan |-> s[i].scan, verdict |-> v]
             /\ \A j \in 1..Len(s) : j # i => t[j] = s[j]
             /\ s # <<>> => t # <<>>
<1> DEFINE t == [s EXCEPT ![i].verdict = v]
<1>1. s[i] \in Request /\ Len(s) \in Nat
  OBVIOUS
<1>2. [s[i] EXCEPT !.verdict = v]
        = [card |-> s[i].card, scan |-> s[i].scan, verdict |-> v]
  BY <1>1 DEF Request
<1>3. [s[i] EXCEPT !.verdict = v] \in Request
  BY <1>1, <1>2 DEF Request
<1>4. t = [s EXCEPT ![i] = [s[i] EXCEPT !.verdict = v]]
  OBVIOUS
<1>5. /\ t \in Seq(Request)
      /\ Len(t) = Len(s)
      /\ t[i] = [s[i] EXCEPT !.verdict = v]
      /\ \A j \in 1..Len(s) : j # i => t[j] = s[j]
  BY <1>3, <1>4
<1>6. s # <<>> => t # <<>>
  BY <1>5
<1> HIDE DEF t
<1> QED BY <1>2, <1>5, <1>6 DEF t

-----------------------------------------------------------------------------
(* The inductive invariant of the reader, one step per action.              *)

\* What the assumption says of the bounds and the cards.
LEMMA Limits == FdLimit \in Nat /\ MaxSwipes \in Nat /\ "" \notin Cards
BY CardreaderAssumption

\* A step that ends the reader and nothing else keeps the invariant.
LEMMA DieInv ==
  ASSUME ReaderInv, Die
  PROVE  ReaderInv'
BY DEF ReaderInv, Die, TypeOK, MutexInv, RequestInv, AnswerInv, GrantsOnlyAllowed,
   Allowed, NotBothAsleep, ReaderPlaces, sharedVars, scannerVars, replyVars, netVars

\* What the reader does before it has the overseer's answer.
LEMMA AskInv ==
  ASSUME ReaderInv, Hello \/ Lock \/ Connect \/ SendRequest
  PROVE  ReaderInv'
<1> USE DEF ReaderInv, sharedVars, scannerVars, replyVars, netVars
<1>1. CASE Die
  BY <1>1, DieInv
<1>2. CASE Hello /\ ~Die
  <2>1. /\ reader = "hello" /\ reader' = "lock"
        /\ UNCHANGED <<sharedVars, scannerVars, replyVars, netVars>>
    BY <1>2 DEF Hello
  <2> QED
    BY <2>1 DEF TypeOK, MutexInv, RequestInv, AnswerInv, GrantsOnlyAllowed, Allowed,
       NotBothAsleep, ReaderPlaces
<1>3. CASE Lock
  BY <1>3 DEF Lock, TypeOK, MutexInv, RequestInv, AnswerInv, GrantsOnlyAllowed,
     Allowed, NotBothAsleep, ReaderPlaces
<1>4. CASE Connect /\ ~Die
  <2>1. /\ reader = "test" /\ reader' = "send" /\ scanned # ""
        /\ fds < FdLimit /\ fds' = fds + 1
        /\ UNCHANGED <<sharedVars, scannerVars, replyVars, requests>>
    BY <1>4 DEF Connect
  <2>2. fds' \in 0..FdLimit
    <3>1. fds \in 0..FdLimit /\ FdLimit \in Nat
      BY Limits DEF TypeOK
    <3>2. fds < FdLimit /\ fds' = fds + 1
      BY <2>1
    <3> QED BY <3>1, <3>2
  <2> QED
    BY <2>1, <2>2 DEF TypeOK, MutexInv, RequestInv, AnswerInv, GrantsOnlyAllowed,
       Allowed, NotBothAsleep, ReaderPlaces
<1>5. CASE SendRequest /\ ~Die
  <2> DEFINE r == [card |-> scanned, scan |-> swipes, verdict |-> "none"]
  <2>1. /\ reader = "send" /\ requests' = Append(requests, r) /\ reader' = "recv"
        /\ UNCHANGED <<sharedVars, scannerVars, replyVars, fds>>
    BY <1>5 DEF SendRequest
  <2>2. r \in Request /\ requests \in Seq(Request)
    BY <2>1 DEF TypeOK, RequestInv, Request, Verdicts
  <2> HIDE DEF r
  <2>3. /\ requests' \in Seq(Request)
        /\ Len(requests') = Len(requests) + 1 /\ Len(requests) \in Nat
        /\ requests' # <<>>
        /\ requests'[Len(requests) + 1] = r
        /\ \A i \in 1..Len(requests) : requests'[i] = requests[i]
    <3>1. requests' = Append(requests, r)
      BY <2>1
    <3>2. Len(requests) \in Nat
      BY <2>2
    <3> QED BY <2>2, <3>1, <3>2, RequestAppended
  <2>4. r.card = scanned /\ r.scan = swipes
    BY DEF r
  <2>5. TypeOK'
    BY <2>1, <2>3 DEF TypeOK, Request, ReaderPlaces
  <2>6. MutexInv'
    BY <2>1 DEF MutexInv
  <2>7. RequestInv'
    <3>1. requests'[Len(requests')] = r
      BY <2>3
    <3>2. ASSUME NEW i \in 1..Len(requests') PROVE requests'[i].scan <= swipes'
      <4>1. CASE i = Len(requests) + 1
        <5>1. requests'[i].scan = swipes /\ swipes' = swipes
          BY <2>1, <2>3, <2>4, <4>1
        <5>2. swipes \in 0..MaxSwipes
          BY DEF TypeOK
        <5> QED BY <5>1, <5>2
      <4>2. CASE i \in 1..Len(requests)
        BY <2>1, <2>3, <4>2 DEF RequestInv
      <4>3. i \in 1..(Len(requests) + 1)
        BY <2>3
      <4>4. i = Len(requests) + 1 \/ i \in 1..Len(requests)
        BY <2>3, <4>3
      <4> QED BY <4>1, <4>2, <4>4
    <3> QED BY <2>1, <2>3, <2>4, <3>1, <3>2 DEF RequestInv
  <2>8. Allowed => Allowed'
    <3>1. SUFFICES ASSUME NEW i \in 1..Len(requests),
                          requests[i].card = scanned,
                          requests[i].scan = swipes,
                          requests[i].verdict = "ALLOWED#"
                   PROVE  Allowed'
      BY DEF Allowed
    <3>2. i \in 1..Len(requests') /\ requests'[i] = requests[i]
      BY <2>3
    <3> QED BY <2>1, <3>1, <3>2 DEF Allowed
  <2>9. AnswerInv'
    BY <2>1, <2>8 DEF AnswerInv, GrantsOnlyAllowed, NotBothAsleep
  <2> QED BY <2>5, <2>6, <2>7, <2>9
<1> QED BY <1>1, <1>2, <1>3, <1>4, <1>5

\* What the reader does with the answer, or without one.
LEMMA PublishInv ==
  ASSUME ReaderInv, ReceiveReply \/ TimeOut
  PROVE  ReaderInv'
<1> USE DEF ReaderInv, netVars
<1>1. CASE ReceiveReply
  <2> DEFINE last == requests[Len(requests)]
  <2>1. /\ reader = "recv" /\ last.verdict # "none"
        /\ buffer' = last.verdict /\ Publish(last.verdict = "ALLOWED#")
        /\ timedOut' = FALSE
        /\ UNCHANGED <<scanned, mutex, swipes, netVars>>
    BY <1>1 DEF ReceiveReply
  <2>2. Len(requests) \in 1..Len(requests) /\ last \in Request
    BY <2>1, LastOf DEF RequestInv, TypeOK, Request
  <2>3. last.card = scanned /\ last.scan = swipes /\ last.verdict \in Verdicts
    BY <2>1, <2>2 DEF RequestInv, Request
  <2>4. TypeOK'
    BY <2>1, <2>3 DEF TypeOK, Publish, Verdicts, ReaderPlaces, ScannerPlaces
  <2>5. MutexInv' /\ RequestInv'
    BY <2>1 DEF MutexInv, RequestInv, Publish
  <2>6. response' = "Y" => Allowed'
    BY <2>1, <2>2, <2>3 DEF Publish, Allowed
  <2>7. AnswerInv'
    BY <2>1, <2>6 DEF AnswerInv, GrantsOnlyAllowed, NotBothAsleep, Publish
  <2> QED BY <2>4, <2>5, <2>7
<1>2. CASE TimeOut
  <2>1. TypeOK'
    BY <1>2 DEF TimeOut, TypeOK, Publish, ReaderPlaces, ScannerPlaces
  <2>2. MutexInv' /\ RequestInv'
    BY <1>2 DEF TimeOut, MutexInv, RequestInv, Publish
  <2>3. AnswerInv'
    BY <1>2 DEF TimeOut, AnswerInv, GrantsOnlyAllowed, NotBothAsleep, Publish
  <2> QED BY <2>1, <2>2, <2>3
<1> QED BY <1>1, <1>2

\* How the reader ends a round, and how it is woken without a reason.
LEMMA WaitInv ==
  ASSUME ReaderInv, ReceiveFails \/ WaitForScan \/ WakeSpuriously
  PROVE  ReaderInv'
<1> USE DEF ReaderInv, sharedVars, scannerVars, replyVars, netVars
<1>1. CASE ReceiveFails
  BY <1>1, DieInv DEF ReceiveFails
<1>2. CASE WaitForScan
  <2>1. MutexInv'
    BY <1>2 DEF WaitForScan, MutexInv
  <2>2. AnswerInv'
    BY <1>2 DEF WaitForScan, AnswerInv, GrantsOnlyAllowed, Allowed, NotBothAsleep
  <2> QED
    BY <1>2, <2>1, <2>2 DEF WaitForScan, TypeOK, RequestInv, ReaderPlaces
<1>3. CASE WakeSpuriously
  BY <1>3 DEF WakeSpuriously, TypeOK, MutexInv, RequestInv, AnswerInv,
     GrantsOnlyAllowed, Allowed, NotBothAsleep, ReaderPlaces
<1> QED BY <1>1, <1>2, <1>3

\* The requests after a verdict: as before, but for the verdict itself.
LEMMA DecideSpelled ==
  ASSUME ReaderInv, NEW i \in 1..Len(requests), Decide(i)
  PROVE  /\ requests' \in Seq(Request)
         /\ Len(requests') = Len(requests)
         /\ requests # <<>> => requests' # <<>>
         /\ \A j \in 1..Len(requests) :
              /\ requests'[j].card = requests[j].card
              /\ requests'[j].scan = requests[j].scan
              /\ requests[j].verdict # "none" => requests'[j] = requests[j]
<1>1. requests \in Seq(Request)
  BY DEF ReaderInv, TypeOK, Request
<1>2. PICK v \in Verdicts : requests' = [requests EXCEPT ![i].verdict = v]
  BY DEF Decide
<1>3. /\ requests' \in Seq(Request)
      /\ Len(requests') = Len(requests)
      /\ requests'[i] = [card |-> requests[i].card, scan |-> requests[i].scan,
                         verdict |-> v]
      /\ \A j \in 1..Len(requests) : j # i => requests'[j] = requests[j]
      /\ requests # <<>> => requests' # <<>>
  BY <1>1, <1>2, RequestDecided
<1>4. requests[i].verdict = "none"
  BY DEF Decide
<1>5. requests'[i].card = requests[i].card /\ requests'[i].scan = requests[i].scan
  BY <1>3
<1> QED BY <1>3, <1>4, <1>5

\* The overseer gives a verdict.
LEMMA DecideInv ==
  ASSUME ReaderInv, NEW i \in 1..Len(requests), Decide(i)
  PROVE  ReaderInv' /\ (Allowed => Allowed')
<1> USE DEF ReaderInv
<1>1. UNCHANGED <<scanned, response, mutex, reader, scanner, swipes, buffer, timedOut, fds>>
  BY DEF Decide, sharedVars, scannerVars, replyVars
<1>2. /\ requests' \in Seq(Request)
      /\ Len(requests') = Len(requests)
      /\ requests # <<>> => requests' # <<>>
      /\ \A j \in 1..Len(requests) :
           /\ requests'[j].card = requests[j].card
           /\ requests'[j].scan = requests[j].scan
           /\ requests[j].verdict # "none" => requests'[j] = requests[j]
  BY DecideSpelled
<1>3. TypeOK'
  BY <1>1, <1>2 DEF TypeOK, Request
<1>4. MutexInv'
  BY <1>1 DEF MutexInv
<1>5. RequestInv'
  <2>1. requests # <<>> => Len(requests) \in 1..Len(requests)
    BY LastOf DEF TypeOK
  <2> QED BY <1>1, <1>2, <2>1 DEF RequestInv
<1>6. Allowed => Allowed'
  BY <1>1, <1>2 DEF Allowed
<1>7. AnswerInv'
  BY <1>1, <1>6 DEF AnswerInv, GrantsOnlyAllowed, NotBothAsleep
<1> QED BY <1>3, <1>4, <1>5, <1>6, <1>7

\* Steps of the scanner.
LEMMA ScannerInv ==
  ASSUME ReaderInv, ScannerLock \/ ScannerStep
  PROVE  ReaderInv'
<1> USE DEF ReaderInv, sharedVars, replyVars, netVars
<1>1. CASE ScannerLock
  BY <1>1 DEF ScannerLock, TypeOK, MutexInv, RequestInv, AnswerInv, GrantsOnlyAllowed,
     Allowed, NotBothAsleep, ScannerPlaces
<1>2. ASSUME NEW k \in Cards, Swipe(k) PROVE ReaderInv'
  <2>1. swipes < MaxSwipes /\ swipes \in 0..MaxSwipes /\ MaxSwipes \in Nat
    BY <1>2, Limits DEF Swipe, MutexInv, TypeOK
  <2>2. swipes' = swipes + 1 /\ swipes' \in 0..MaxSwipes
    BY <1>2, <2>1 DEF Swipe
  <2>3. TypeOK'
    BY <1>2, <2>2 DEF Swipe, TypeOK, ScannerPlaces
  <2>4. reader \notin {"test", "send", "recv", "sleep"}
    BY <1>2 DEF Swipe, MutexInv
  <2>5. MutexInv'
    BY <1>2, <2>4 DEF Swipe, MutexInv
  <2>6. RequestInv'
    <3>1. UNCHANGED <<reader, requests>>
      BY <1>2 DEF Swipe
    <3>2. ASSUME NEW i \in 1..Len(requests) PROVE requests[i].scan <= swipes'
      <4>1. requests[i].scan \in 0..MaxSwipes
        <5>1. requests \in Seq(Request)
          BY DEF TypeOK, Request
        <5>2. requests[i] \in Request
          BY <5>1
        <5> QED BY <5>2 DEF Request
      <4>2. requests[i].scan <= swipes
        BY DEF RequestInv
      <4> QED BY <2>1, <2>2, <4>1, <4>2
    <3> QED BY <2>4, <3>1, <3>2 DEF RequestInv
  <2>7. AnswerInv'
    BY <1>2, <2>4 DEF Swipe, AnswerInv, GrantsOnlyAllowed, NotBothAsleep
  <2> QED BY <2>3, <2>5, <2>6, <2>7
<1>3. CASE ScannerUnlock
  BY <1>3 DEF ScannerUnlock, TypeOK, MutexInv, RequestInv, AnswerInv,
     GrantsOnlyAllowed, Allowed, NotBothAsleep, ScannerPlaces
<1>4. CASE ScannerSignal
  BY <1>4 DEF ScannerSignal, TypeOK, MutexInv, RequestInv, AnswerInv,
     GrantsOnlyAllowed, Allowed, NotBothAsleep, ScannerPlaces, ReaderPlaces
<1>5. CASE ScannerCheck
  BY <1>5 DEF ScannerCheck, TypeOK, MutexInv, RequestInv, AnswerInv,
     GrantsOnlyAllowed, Allowed, NotBothAsleep, ScannerPlaces
<1> QED BY <1>1, <1>2, <1>3, <1>4, <1>5 DEF ScannerStep

\* The invariant holds at first.
LEMMA InitInv ==
  ASSUME Init
  PROVE  ReaderInv
<1>0. timedOut = FALSE
  BY DEF Init
<1>1. fds = 0 /\ swipes = 0 /\ requests = <<>>
  BY DEF Init
<1>2. /\ scanned = "" /\ response = "0" /\ mutex = "free"
      /\ reader = "hello" /\ scanner = "idle" /\ buffer = "garbage"
  BY DEF Init
<1>3. fds \in 0..FdLimit /\ swipes \in 0..MaxSwipes
  <2>1. fds = 0 /\ swipes = 0
    BY <1>1
  <2>2. FdLimit \in Nat /\ MaxSwipes \in Nat
    BY Limits
  <2> QED BY <2>1, <2>2
<1>4. requests \in Seq(Request) /\ Len(requests) = 0
  BY <1>1
<1>5. TypeOK
  BY <1>0, <1>1, <1>2, <1>3, <1>4 DEF TypeOK, Request, ReaderPlaces, ScannerPlaces
<1>6. MutexInv /\ RequestInv
  <2>1. \A i \in 1..Len(requests) : FALSE
    BY <1>4
  <2> QED BY <1>2, <2>1 DEF MutexInv, RequestInv
<1>7. AnswerInv
  BY <1>2, <1>5 DEF TypeOK, AnswerInv, GrantsOnlyAllowed, NotBothAsleep
<1> QED BY <1>5, <1>6, <1>7 DEF ReaderInv

\* Every step keeps it.
LEMMA StepInv ==
  ASSUME ReaderInv, [Next]_vars
  PROVE  ReaderInv'
<1>1. CASE UNCHANGED vars
  BY <1>1 DEF vars, sharedVars, scannerVars, replyVars, netVars, ReaderInv, TypeOK,
     MutexInv, RequestInv, AnswerInv, GrantsOnlyAllowed, Allowed, NotBothAsleep
<1>2. CASE Reader \/ WakeSpuriously
  BY <1>2, AskInv, PublishInv, WaitInv DEF Reader
<1> QED BY <1>1, <1>2, DecideInv, ScannerInv DEF Next

\* The reader's inductive invariant, and with it the types.
THEOREM ReaderInvCorrect == SafeSpec => []ReaderInv
BY InitInv, StepInv, PTL DEF SafeSpec

-----------------------------------------------------------------------------
(* The reader implements AccessPoint.                                       *)

\* The initial states of the reader are initial states of AccessPoint.
LEMMA InitRefines ==
  ASSUME Init
  PROVE  Promise!Init
<1>1. requests = <<>> /\ scanned = "" /\ response = "0" /\ timedOut = FALSE
  BY DEF Init
<1>2. Len(requests) = 0
  BY <1>1
<1>3. Allowed <=> FALSE
  BY <1>2 DEF Allowed
<1> QED BY <1>1, <1>3 DEF Promise!Init

\* Every step of the reader is a step of AccessPoint or leaves alone what it
\* speaks of.
LEMMA StepRefines ==
  ASSUME ReaderInv, [Next]_vars
  PROVE  [Promise!Next]_(Promise!vars)
<1> USE DEF sharedVars, scannerVars, replyVars, netVars
<1> DEFINE Same == UNCHANGED <<scanned, response, timedOut>> /\ Allowed' = Allowed
<1>0. ASSUME Same PROVE UNCHANGED Promise!vars
  BY <1>0 DEF Promise!vars
<1>1. ASSUME UNCHANGED <<scanned, response, timedOut, swipes, requests>> PROVE Same
  BY <1>1 DEF Allowed
<1>2. CASE ReceiveReply
  <2>1. scanned # ""
    BY <1>2 DEF ReceiveReply, ReaderInv, RequestInv
  <2>2. response' = "Y" => Allowed'
    BY <1>2, StepInv DEF ReceiveReply, ReaderInv, AnswerInv, GrantsOnlyAllowed
  <2>3. UNCHANGED <<scanned, swipes, requests>> /\ timedOut' = FALSE
    BY <1>2 DEF ReceiveReply
  <2>4. Allowed' <=> Allowed
    BY <2>3 DEF Allowed
  <2>5. response' \in {"Y", "N"}
    BY <1>2 DEF ReceiveReply, Publish
  <2>6. Promise!Grant \/ Promise!Refuse
    BY <2>1, <2>2, <2>3, <2>4, <2>5 DEF Promise!Grant, Promise!Refuse
  <2> QED BY <2>6 DEF Promise!Next
<1>3. CASE TimeOut
  <2>1. scanned # "" /\ response' \in {"Y", "N"} /\ timedOut' = TRUE
    BY <1>3 DEF TimeOut, Publish, ReaderInv, RequestInv
  <2>2. UNCHANGED scanned /\ Allowed' = Allowed
    BY <1>3 DEF TimeOut, Allowed
  <2> QED BY <2>1, <2>2 DEF Promise!Next, Promise!NoReply
<1>4. CASE SendRequest /\ ~Die
  <2> DEFINE r == [card |-> scanned, scan |-> swipes, verdict |-> "none"]
  <2>1. /\ requests' = Append(requests, r) /\ reader = "send"
        /\ UNCHANGED <<scanned, response, timedOut, swipes>>
    BY <1>4 DEF SendRequest
  <2>2. r \in Request /\ requests \in Seq(Request) /\ r.verdict # "ALLOWED#"
    BY <2>1 DEF ReaderInv, TypeOK, RequestInv, Request, Verdicts
  <2> HIDE DEF r
  <2>3. /\ Len(requests') = Len(requests) + 1 /\ Len(requests) \in Nat
        /\ requests'[Len(requests) + 1] = r
        /\ \A i \in 1..Len(requests) : requests'[i] = requests[i]
    <3>1. requests' = Append(requests, r)
      BY <2>1
    <3>2. Len(requests) \in Nat
      BY <2>2
    <3> QED BY <2>2, <3>1, <3>2, RequestAppended
  <2>4. \A i \in 1..Len(requests') : i \in 1..Len(requests) \/ i = Len(requests) + 1
    BY <2>3
  <2>5. 1..Len(requests) \subseteq 1..Len(requests')
    BY <2>3
  <2>6. Allowed' <=> Allowed
    BY <2>1, <2>2, <2>3, <2>4, <2>5 DEF Allowed
  <2> QED BY <1>0, <2>1, <2>6
<1>5. ASSUME NEW i \in 1..Len(requests), Decide(i)
      PROVE  Promise!Allow \/ Same
  <2>1. UNCHANGED <<scanned, response, timedOut>>
    BY <1>5 DEF Decide
  <2>2. Allowed => Allowed'
    BY <1>5, DecideInv
  <2>3. Allowed' => scanned # ""
    <3>1. requests' \in Seq(Request) /\ "" \notin Cards
      BY <1>5, DecideSpelled, Limits
    <3>2. \A j \in 1..Len(requests') : requests'[j] \in Request
      BY <3>1, ElementOf
    <3>3. \A j \in 1..Len(requests') : requests'[j].card \in Cards
      BY <3>2 DEF Request
    <3> QED BY <2>1, <3>1, <3>3 DEF Allowed
  <2>4. CASE Allowed'
    BY <2>1, <2>3, <2>4 DEF Promise!Allow
  <2>5. CASE ~Allowed'
    BY <2>1, <2>2, <2>5 DEF Allowed
  <2> QED BY <2>4, <2>5
<1>6. ASSUME NEW k \in Cards, Swipe(k) PROVE Promise!Show(k)
  <2>1. scanned' = k /\ response' = "0" /\ UNCHANGED <<timedOut, requests>>
    BY <1>6 DEF Swipe
  <2>2. swipes' = swipes + 1 /\ swipes \in 0..MaxSwipes /\ MaxSwipes \in Nat
    BY <1>6, Limits DEF Swipe, ReaderInv, TypeOK
  <2>3. \A i \in 1..Len(requests) : requests[i].scan # swipes'
    <3>1. SUFFICES ASSUME NEW i \in 1..Len(requests)
                   PROVE  requests[i].scan # swipes'
      OBVIOUS
    <3>2. requests \in Seq(Request)
      BY DEF ReaderInv, TypeOK, Request
    <3>3. requests[i] \in Request
      BY <3>2
    <3>4. requests[i].scan \in 0..MaxSwipes /\ requests[i].scan <= swipes
      BY <3>3 DEF Request, ReaderInv, RequestInv
    <3> QED BY <2>2, <3>4
  <2>4. Allowed' <=> FALSE
    BY <2>1, <2>3 DEF Allowed
  <2> QED BY <2>1, <2>4 DEF Promise!Show
<1>7. CASE Hello \/ Lock \/ Connect \/ (SendRequest /\ Die) \/ ReceiveFails
             \/ WaitForScan \/ WakeSpuriously
  <2>1. UNCHANGED <<scanned, response, timedOut, swipes, requests>>
    BY <1>7 DEF Hello, Lock, Connect, ReceiveFails, WaitForScan, WakeSpuriously, Die
  <2> QED BY <1>0, <1>1, <2>1
<1>8. CASE ScannerLock \/ ScannerUnlock \/ ScannerSignal \/ ScannerCheck
  <2>1. UNCHANGED <<scanned, response, timedOut, swipes, requests>>
    BY <1>8 DEF ScannerLock, ScannerUnlock, ScannerSignal, ScannerCheck
  <2> QED BY <1>0, <1>1, <2>1
<1>9. CASE UNCHANGED vars
  BY <1>0, <1>1, <1>9 DEF vars
<1>10. CASE \E i \in 1..Len(requests) : Decide(i)
  BY <1>0, <1>5, <1>10 DEF Promise!Next
<1>11. CASE \E k \in Cards : Swipe(k)
  BY <1>6, <1>11 DEF Promise!Next
<1> QED
  BY <1>2, <1>3, <1>4, <1>7, <1>8, <1>9, <1>10, <1>11 DEF Next, Reader, ScannerStep

\* The reader alone, against any overseer, implements AccessPoint.
THEOREM ReaderImplements == SafeSpec => ImplementsAccessPoint
BY InitRefines, StepRefines, ReaderInvCorrect, PTL
   DEF SafeSpec, ImplementsAccessPoint, Promise!Spec

-----------------------------------------------------------------------------
(* The reader with the overseer as it is written.                           *)

\* A step of the system is a step of the reader or leaves the reader alone.
LEMMA ReaderProjection ==
  ASSUME [SystemNext]_systemVars
  PROVE  [Next]_vars
<1>1. CASE ReaderStep
  BY <1>1 DEF ReaderStep, SayHello, OpenConnection, UseConnection, Next, Reader
<1>2. CASE OverseerStep
  BY <1>2 DEF OverseerStep
<1>3. CASE \E i \in 1..Len(requests) : Answer(i)
  BY <1>3 DEF Answer, Next
<1>4. CASE WakeSpuriously \/ ScannerLock \/ ScannerStep
  BY <1>4 DEF Next
<1>5. CASE HangUp
  <2>1. requests # <<>> /\ Decide(Len(requests))
    BY <1>5 DEF HangUp
  <2>2. Len(requests) \in 1..Len(requests)
    BY <2>1, LastOf
  <2> QED BY <2>1, <2>2 DEF Next
<1>6. CASE UNCHANGED systemVars
  BY <1>6 DEF systemVars
<1> QED BY <1>1, <1>2, <1>3, <1>4, <1>5, <1>6 DEF SystemNext

\* So the system is a reader, and what holds of a reader holds of it.
THEOREM SystemIsReader == System => SafeSpec
<1>1. SystemInit => Init
  BY DEF SystemInit
<1> QED BY <1>1, ReaderProjection, PTL DEF System, SafeSpec

\* A 'Y' that no time-out produced was allowed by the overseer for the card and
\* the scan in the record (cardreader.c:52-93).
THEOREM GrantsAllowed == System => []GrantsOnlyAllowed
<1>1. ReaderInv => GrantsOnlyAllowed
  BY DEF ReaderInv, AnswerInv
<1> QED BY <1>1, SystemIsReader, ReaderInvCorrect, PTL

\* A scan and its reader never wait for each other (cardreader.c:52-92).
THEOREM NeverBothAsleep == System => []NotBothAsleep
<1>1. ReaderInv => NotBothAsleep
  BY DEF ReaderInv, AnswerInv
<1> QED BY <1>1, SystemIsReader, ReaderInvCorrect, PTL

\* The whole implements AccessPoint.
THEOREM Implements == System => ImplementsAccessPoint
BY SystemIsReader, ReaderImplements, PTL

-----------------------------------------------------------------------------
(* The overseer as its source stands lets nobody in.                        *)

StubInv ==
  handler = "empty" =>
    /\ response # "Y" /\ buffer # "ALLOWED#"
    /\ \A i \in 1..Len(requests) : requests[i].verdict # "ALLOWED#"

\* Nobody answers, so the reader has only its time-outs, and connections closed without
\* a reply, to publish.
LEMMA StubStep ==
  ASSUME ReaderInv, StubInv, [SystemNext]_systemVars
  PROVE  StubInv'
<1> USE DEF sharedVars, scannerVars, replyVars, netVars
<1> SUFFICES ASSUME handler' = "empty"
             PROVE  /\ response' # "Y" /\ buffer' # "ALLOWED#"
                    /\ \A i \in 1..Len(requests') : requests'[i].verdict # "ALLOWED#"
  BY DEF StubInv
<1>0. handler = "empty"
  BY DEF SystemNext, ReaderStep, OverseerStep, Answer, HangUp, Outside, systemVars
<1>1. /\ response # "Y" /\ buffer # "ALLOWED#"
      /\ \A i \in 1..Len(requests) : requests[i].verdict # "ALLOWED#"
  BY <1>0 DEF StubInv
<1>2. CASE Hello \/ Lock \/ Connect \/ ReceiveFails \/ WaitForScan \/ WakeSpuriously
  BY <1>1, <1>2 DEF Hello, Lock, Connect, ReceiveFails, WaitForScan, WakeSpuriously, Die
<1>3. CASE SendRequest
  <2>1. CASE Die
    BY <1>1, <2>1 DEF Die
  <2>2. CASE ~Die
    <3> DEFINE r == [card |-> scanned, scan |-> swipes, verdict |-> "none"]
    <3>1. /\ requests' = Append(requests, r) /\ reader = "send"
          /\ UNCHANGED <<response, buffer>>
      BY <1>3, <2>2 DEF SendRequest
    <3>2. r \in Request /\ requests \in Seq(Request) /\ r.verdict # "ALLOWED#"
      BY <3>1 DEF ReaderInv, TypeOK, RequestInv, Request, Verdicts
    <3> HIDE DEF r
    <3>3. requests' = Append(requests, r)
      BY <3>1
    <3>4. Len(requests) \in Nat
      BY <3>2
    <3>5. /\ Len(requests') = Len(requests) + 1
          /\ requests'[Len(requests) + 1] = r
          /\ \A i \in 1..Len(requests) : requests'[i] = requests[i]
      BY <3>2, <3>3, <3>4, RequestAppended
    <3>6. \A i \in 1..Len(requests') : i \in 1..Len(requests) \/ i = Len(requests) + 1
      BY <3>4, <3>5
    <3> QED BY <1>1, <3>1, <3>2, <3>5, <3>6
  <2> QED BY <2>1, <2>2
<1>4. CASE ReceiveReply
  <2>1. Len(requests) \in 1..Len(requests)
    BY <1>4, LastOf DEF ReceiveReply, ReaderInv, RequestInv, TypeOK
  <2>2. requests[Len(requests)].verdict # "ALLOWED#"
    BY <1>1, <2>1
  <2> QED BY <1>1, <1>4, <2>2 DEF ReceiveReply, Publish
<1>5. CASE TimeOut
  BY <1>1, <1>5 DEF TimeOut, Publish
<1>6. CASE ScannerLock \/ ScannerUnlock \/ ScannerSignal \/ ScannerCheck
  BY <1>1, <1>6 DEF ScannerLock, ScannerUnlock, ScannerSignal, ScannerCheck
<1>7. CASE \E k \in Cards : Swipe(k)
  BY <1>1, <1>7 DEF Swipe
<1>8. \A i \in 1..Len(requests) : ~Answer(i)
  BY <1>0 DEF Answer
<1>9. CASE OverseerStep \/ UNCHANGED systemVars
  BY <1>1, <1>9 DEF OverseerStep, systemVars, vars
<1>10. CASE HangUp
  <2> DEFINE n == Len(requests)
  <2>1. requests # <<>> /\ Decide(n) /\ requests'[n].verdict = "other"
    BY <1>10 DEF HangUp
  <2>2. requests \in Seq(Request)
    BY DEF ReaderInv, TypeOK, Request
  <2>3. n \in 1..n
    BY <2>1, <2>2, LastOf
  <2>4. PICK v \in Verdicts : requests' = [requests EXCEPT ![n].verdict = v]
    BY <2>1 DEF Decide
  <2>5. /\ Len(requests') = n
        /\ \A j \in 1..n : j # n => requests'[j] = requests[j]
    BY <2>2, <2>3, <2>4, RequestDecided
  <2>6. UNCHANGED <<response, buffer>>
    BY <2>1 DEF Decide
  <2> HIDE DEF n
  <2> QED BY <1>1, <2>1, <2>5, <2>6 DEF n
<1>11. CASE ReaderStep
  BY <1>2, <1>3, <1>4, <1>5, <1>11
     DEF ReaderStep, SayHello, OpenConnection, UseConnection
<1> QED BY <1>2, <1>6, <1>7, <1>8, <1>9, <1>10, <1>11 DEF SystemNext, ScannerStep

\* With the overseer as its source stands no scan is ever answered with 'Y'
\* (overseer.c:52, cardreader.c:73-93).
THEOREM NobodyLetIn == System => []StubLetsNobodyIn
<1>1. SystemInit => StubInv
  <2>1. SUFFICES ASSUME SystemInit PROVE StubInv
    OBVIOUS
  <2>2. response = "0" /\ buffer = "garbage" /\ requests = <<>>
    BY <2>1 DEF SystemInit, Init
  <2>3. Len(requests) = 0
    BY <2>2
  <2> QED BY <2>2, <2>3 DEF StubInv
<1>2. StubInv => StubLetsNobodyIn
  BY DEF StubInv, StubLetsNobodyIn
<1> QED
  BY <1>1, <1>2, StubStep, SystemIsReader, ReaderInvCorrect, PTL DEF System

-----------------------------------------------------------------------------
(* The overseer's array.                                                    *)

OverseerTypeOK ==
  /\ overseer \in {"start", "accept", "ended"} /\ port \in {"none", "own", "other"}
  /\ backlog \in Seq(Conns) /\ sockets \in Seq(Conns \cup {NoConnection})
  /\ handler \in {"empty", "answers"}

\* What happens to the two sequences in a step of the system.
LEMMA SequencesStep ==
  ASSUME ReaderInv, [SystemNext]_systemVars
  PROVE  \/ UNCHANGED <<sockets, backlog, fds>>
            /\ (reader' = reader \/ reader \notin {"hello", "dead"} \/ reader' = "dead")
         \/ /\ reader = "hello" /\ reader' = "lock" /\ UNCHANGED <<sockets, fds>>
            /\ backlog' = Append(backlog, 0)
         \/ /\ reader = "test" /\ reader' = "send" /\ UNCHANGED sockets
            /\ fds' = fds + 1 /\ fds < FdLimit
            /\ backlog' = Append(backlog, fds')
         \/ /\ UNCHANGED <<reader, fds>> /\ backlog # <<>>
            /\ sockets' = Append(sockets, Head(backlog)) /\ backlog' = Tail(backlog)
         \/ /\ UNCHANGED <<reader, fds, backlog>>
            /\ sockets' = Append(sockets, NoConnection)
<1> USE DEF sharedVars, scannerVars, replyVars, netVars
<1>1. CASE SayHello
  <2>1. reader = "hello" /\ UNCHANGED fds
    BY <1>1 DEF SayHello, Hello, Die
  <2> QED BY <1>1, <2>1 DEF SayHello, O!Connected, overseerVars
<1>2. CASE OpenConnection
  <2>1. CASE reader' = "send" /\ O!Connected(fds')
    <3>1. reader = "test" /\ fds' = fds + 1 /\ fds < FdLimit
      BY <1>2, <2>1 DEF OpenConnection, Connect, Die
    <3> QED BY <2>1, <3>1 DEF O!Connected
  <2>2. CASE reader' = "dead" /\ UNCHANGED overseerVars
    <3>1. UNCHANGED fds
      BY <1>2, <2>2 DEF OpenConnection, Connect, Die
    <3> QED BY <2>2, <3>1 DEF overseerVars
  <2> QED BY <1>2, <2>1, <2>2 DEF OpenConnection
<1>3. CASE ReaderStep /\ ~SayHello /\ ~OpenConnection
  <2>1. UNCHANGED overseerVars
    BY <1>3 DEF ReaderStep, UseConnection
  <2>2. reader \notin {"hello", "dead"} /\ UNCHANGED fds
    BY <1>3 DEF ReaderStep, UseConnection, SendRequest, ReceiveFails, Lock,
       ReceiveReply, TimeOut, WaitForScan, Die
  <2> QED BY <2>1, <2>2 DEF overseerVars
<1>4. CASE OverseerStep
  <2>1. UNCHANGED <<reader, fds>>
    BY <1>4 DEF OverseerStep, vars
  <2> QED
    BY <1>4, <2>1 DEF OverseerStep, O!Start, O!Accept, O!End, O!AcceptFails, O!Store
<1>5. CASE (\E i \in 1..Len(requests) : Answer(i)) \/ HangUp
  BY <1>5 DEF Answer, HangUp, Decide, overseerVars
<1>6. CASE (WakeSpuriously \/ ScannerLock \/ ScannerStep) /\ Outside
  <2>1. UNCHANGED <<sockets, backlog, fds>>
    BY <1>6 DEF Outside, overseerVars, WakeSpuriously, ScannerLock, ScannerStep, Swipe,
       ScannerUnlock, ScannerSignal, ScannerCheck
  <2>2. reader' = reader \/ reader \notin {"hello", "dead"}
    BY <1>6 DEF WakeSpuriously, ScannerLock, ScannerStep, Swipe,
       ScannerUnlock, ScannerSignal, ScannerCheck
  <2> QED BY <2>1, <2>2
<1>7. CASE UNCHANGED systemVars
  BY <1>7 DEF systemVars, vars, overseerVars
<1> QED BY <1>1, <1>2, <1>3, <1>4, <1>5, <1>6, <1>7 DEF SystemNext

\* A connection's number is none that stands for a failure.
LEMMA NoConnectionApart == NoConnection \notin Conns /\ Conns \subseteq Nat
<1>1. FdLimit \in Nat /\ MaxSockets \in Nat
  BY Limits, OverseerAssumption
<1> QED BY <1>1 DEF NoConnection, Conns

\* The types of the system.
THEOREM SystemTypeCorrect == System => []SystemTypeOK
<1>1. SystemInit => OverseerTypeOK
  BY DEF SystemInit, O!Init, OverseerTypeOK
<1>2. ASSUME ReaderInv, OverseerTypeOK, [SystemNext]_systemVars
      PROVE  OverseerTypeOK'
  <2>1. handler' = handler
    BY <1>2 DEF SystemNext, ReaderStep, OverseerStep, Answer, HangUp, Outside, systemVars
  <2>2. overseer' \in {"start", "accept", "ended"} /\ port' \in {"none", "own", "other"}
    BY <1>2 DEF OverseerTypeOK, SystemNext, ReaderStep, SayHello, OpenConnection,
       UseConnection, OverseerStep, Answer, HangUp, Outside, systemVars, overseerVars,
       O!Start, O!Accept, O!End, O!AcceptFails, O!Connected
  <2>3. backlog' \in Seq(Conns) /\ sockets' \in Seq(Conns \cup {NoConnection})
    <3> USE DEF OverseerTypeOK
    <3>1. 0 \in Conns /\ (fds < FdLimit => fds + 1 \in Conns)
      <4>1. fds \in 0..FdLimit
        BY <1>2 DEF ReaderInv, TypeOK
      <4>2. FdLimit \in Nat
        BY Limits
      <4> QED BY <4>1, <4>2 DEF Conns
    <3>2. ASSUME NEW c \in Conns PROVE Append(backlog, c) \in Seq(Conns)
      BY <1>2
    <3>3. backlog # <<>> => Head(backlog) \in Conns /\ Tail(backlog) \in Seq(Conns)
      BY <1>2, HeadTailProperties
    <3>4. ASSUME NEW c \in Conns \cup {NoConnection}
          PROVE  Append(sockets, c) \in Seq(Conns \cup {NoConnection})
      BY <1>2
    <3> QED BY <1>2, <3>1, <3>2, <3>3, <3>4, SequencesStep
  <2> QED BY <1>2, <2>1, <2>2, <2>3 DEF OverseerTypeOK
<1>3. ReaderInv /\ OverseerTypeOK => SystemTypeOK
  BY DEF ReaderInv, OverseerTypeOK, SystemTypeOK
<1> QED BY <1>1, <1>2, <1>3, SystemIsReader, ReaderInvCorrect, PTL DEF System

\* A new connection goes behind all others.
LEMMA PlaceAdded ==
  ASSUME NEW S, NEW s \in Seq(S), NEW t \in Seq(S), NEW c \in S
  PROVE  s \o Append(t, c) = Append(s \o t, c)
<1>1. <<c>> \in Seq(S) /\ s \o t \in Seq(S)
  BY ConcatProperties
<1>2. Append(t, c) = t \o <<c>> /\ Append(s \o t, c) = (s \o t) \o <<c>>
  BY <1>1, AppendIsConcat
<1> QED BY <1>1, <1>2, ConcatAssociative

\* To accept moves the boundary between the array and the queue, nothing else.
LEMMA PlaceTaken ==
  ASSUME NEW S, NEW s \in Seq(S), NEW t \in Seq(S), t # <<>>
  PROVE  Append(s, Head(t)) \o Tail(t) = s \o t
<1>1. Head(t) \in S /\ Tail(t) \in Seq(S) /\ <<Head(t)>> \in Seq(S)
  BY HeadTailProperties
<1>2. t = <<Head(t)>> \o Tail(t)
  <2>1. 1 \in 1..Len(t) /\ Len(t) \in 1..Len(t)
    BY EmptySeq
  <2>2. SubSeq(t, 1, Len(t)) = <<t[1]>> \o SubSeq(t, 2, Len(t))
    BY <2>1, SubSeqRecursiveFirst
  <2>3. SubSeq(t, 1, Len(t)) = t /\ SubSeq(t, 2, Len(t)) = Tail(t)
    BY SubSeqFull, TailIsSubSeq
  <2>4. t[1] = Head(t)
    BY <2>1
  <2> QED BY <2>2, <2>3, <2>4
<1>3. Append(s, Head(t)) = s \o <<Head(t)>>
  BY <1>1, AppendIsConcat
<1>4. (s \o <<Head(t)>>) \o Tail(t) = s \o (<<Head(t)>> \o Tail(t))
  BY <1>1, ConcatAssociative
<1> QED BY <1>2, <1>3, <1>4

\* Where everything is after a failure of accept() has taken a place.
LEMMA PlaceFailed ==
  ASSUME NEW S, NEW s \in Seq(S), NEW t \in Seq(S), NEW x \in S
  PROVE  LET P == s \o t
             Q == Append(s, x) \o t
         IN  /\ Len(Q) = Len(P) + 1 /\ Len(P) = Len(s) + Len(t)
             /\ Len(s) \in Nat /\ Len(t) \in Nat
             /\ \A i \in 1..Len(s) : Q[i] = P[i]
             /\ Q[Len(s) + 1] = x
             /\ \A i \in (Len(s) + 1)..Len(P) : Q[i + 1] = P[i]
             /\ DOMAIN P = 1..Len(P) /\ DOMAIN Q = 1..Len(Q)
<1> DEFINE P == s \o t
           Q == Append(s, x) \o t
<1>1. /\ Append(s, x) \in Seq(S) /\ Len(Append(s, x)) = Len(s) + 1
      /\ \A i \in 1..Len(s) : Append(s, x)[i] = s[i]
      /\ Append(s, x)[Len(s) + 1] = x
  BY AppendProperties
<1>2. Len(s) \in Nat /\ Len(t) \in Nat
  OBVIOUS
<1>3. /\ P \in Seq(S) /\ Len(P) = Len(s) + Len(t)
      /\ \A i \in 1..(Len(s) + Len(t)) : P[i] = IF i <= Len(s) THEN s[i] ELSE t[i - Len(s)]
  BY ConcatProperties
<1>4. /\ Q \in Seq(S) /\ Len(Q) = Len(s) + 1 + Len(t)
      /\ \A i \in 1..(Len(s) + 1 + Len(t)) :
           Q[i] = IF i <= Len(s) + 1 THEN Append(s, x)[i] ELSE t[i - (Len(s) + 1)]
  BY <1>1, ConcatProperties
<1>5. DOMAIN P = 1..Len(P) /\ DOMAIN Q = 1..Len(Q)
  BY <1>3, <1>4, LenProperties
<1> HIDE DEF P, Q
<1>6. ASSUME NEW i \in 1..Len(s) PROVE Q[i] = P[i]
  <2>1. /\ i \in 1..(Len(s) + Len(t)) /\ i \in 1..(Len(s) + 1 + Len(t))
        /\ i <= Len(s) /\ i <= Len(s) + 1
    BY <1>2
  <2> QED BY <1>1, <1>3, <1>4, <2>1
<1>7. Q[Len(s) + 1] = x
  BY <1>1, <1>2, <1>4
<1>8. ASSUME NEW i \in (Len(s) + 1)..Len(P) PROVE Q[i + 1] = P[i]
  <2>1. i \in 1..(Len(s) + Len(t)) /\ ~(i <= Len(s)) /\ i + 1 \in 1..(Len(s) + 1 + Len(t))
        /\ ~(i + 1 <= Len(s) + 1) /\ (i + 1) - (Len(s) + 1) = i - Len(s)
    BY <1>2, <1>3
  <2> QED BY <1>3, <1>4, <2>1
<1> QED BY <1>2, <1>3, <1>4, <1>5, <1>6, <1>7, <1>8 DEF P, Q

Place == Conns \cup {NoConnection}

\* The first connection comes behind failures only.
LEMMA FirstInOrder ==
  ASSUME NEW P \in Seq(Place), \A p \in 1..Len(P) : P[p] = NoConnection
  PROVE  InOrder(Append(P, 0), 0)
<1> DEFINE Q == Append(P, 0)
<1>1. 0 \in Place /\ 0 # NoConnection
  <2>1. FdLimit \in Nat
    BY Limits
  <2>2. 0 \in Conns
    BY <2>1 DEF Conns
  <2> QED BY <2>2, NoConnectionApart DEF Place
<1>2. /\ Q \in Seq(Place) /\ Len(Q) = Len(P) + 1 /\ Len(P) \in Nat
      /\ \A p \in 1..Len(P) : Q[p] = NoConnection
      /\ Q[Len(P) + 1] = 0
  BY <1>1, AppendProperties
<1>3. DOMAIN Q = 1..(Len(P) + 1)
  BY <1>2, LenProperties
<1> HIDE DEF Q
<1>4. \A p \in DOMAIN Q : p \in 1..Len(P) \/ p = Len(P) + 1
  BY <1>2, <1>3
<1>5. Len(P) + 1 \in DOMAIN Q
  BY <1>2, <1>3
<1>6. \A p, q \in DOMAIN Q : p < q => p \in 1..Len(P)
  BY <1>2, <1>3
<1>7. 0..0 = {0}
  OBVIOUS
<1> QED BY <1>1, <1>2, <1>4, <1>5, <1>6, <1>7 DEF InOrder, Q

\* A further connection has a higher number than those before.
LEMMA NextInOrder ==
  ASSUME NEW n \in 0..FdLimit, n < FdLimit, NEW P \in Seq(Place), InOrder(P, n)
  PROVE  InOrder(Append(P, n + 1), n + 1)
<1> DEFINE Q == Append(P, n + 1)
<1>1. FdLimit \in Nat /\ n \in Nat /\ n + 1 \in Conns /\ n + 1 \in Place
  <2>1. FdLimit \in Nat
    BY Limits
  <2>2. n + 1 \in Conns
    BY <2>1 DEF Conns
  <2> QED BY <2>1, <2>2 DEF Place
<1>2. n + 1 # NoConnection
  BY <1>1, NoConnectionApart
<1>3. /\ Q \in Seq(Place) /\ Len(Q) = Len(P) + 1 /\ Len(P) \in Nat
      /\ \A p \in 1..Len(P) : Q[p] = P[p]
      /\ Q[Len(P) + 1] = n + 1
  BY <1>1, AppendProperties
<1>4. DOMAIN Q = 1..(Len(P) + 1) /\ DOMAIN P = 1..Len(P)
  BY <1>3, LenProperties
<1> HIDE DEF Q
<1>5. \A p \in DOMAIN Q : p \in DOMAIN P \/ p = Len(P) + 1
  BY <1>3, <1>4
<1>6. Len(P) + 1 \in DOMAIN Q /\ DOMAIN P \subseteq DOMAIN Q
  BY <1>3, <1>4
<1>7. ASSUME NEW p \in DOMAIN Q
      PROVE  Q[p] \in 0..(n + 1) \cup {NoConnection}
  <2>1. \A x \in 0..n : x \in 0..(n + 1)
    BY <1>1
  <2>2. n + 1 \in 0..(n + 1)
    BY <1>1
  <2> QED BY <1>3, <1>4, <1>5, <2>1, <2>2 DEF InOrder
<1>8. ASSUME NEW c \in 0..(n + 1) PROVE \E p \in DOMAIN Q : Q[p] = c
  <2>1. c \in 0..n \/ c = n + 1
    BY <1>1
  <2> QED BY <1>3, <1>4, <1>6, <2>1 DEF InOrder
<1>9. ASSUME NEW p \in DOMAIN Q, NEW q \in DOMAIN Q, p < q, Q[q] # NoConnection
      PROVE  Q[p] < Q[q] \/ Q[p] = NoConnection
  <2>1. p \in DOMAIN P /\ Q[p] = P[p]
    <3>1. p \in 1..Len(P)
      BY <1>3, <1>4, <1>9
    <3> QED BY <1>3, <1>4, <3>1
  <2>2. CASE q \in DOMAIN P
    BY <1>3, <1>4, <1>9, <2>1, <2>2 DEF InOrder
  <2>3. CASE q = Len(P) + 1
    <3>1. P[p] \in 0..n \/ P[p] = NoConnection
      BY <2>1 DEF InOrder
    <3>2. \A x \in 0..n : x < n + 1
      BY <1>1
    <3> QED BY <1>3, <2>1, <2>3, <3>1, <3>2
  <2> QED BY <1>5, <2>2, <2>3
<1> QED BY <1>7, <1>8, <1>9 DEF InOrder, Q

\* A failure of accept() in between leaves the order as it is.
LEMMA FailureInOrder ==
  ASSUME NEW n \in 0..FdLimit, NEW s \in Seq(Place), NEW t \in Seq(Place),
         InOrder(s \o t, n)
  PROVE  InOrder(Append(s, NoConnection) \o t, n)
<1> DEFINE P == s \o t
           Q == Append(s, NoConnection) \o t
           k == Len(s)
<1>1. NoConnection \in Place
  BY DEF Place
<1>2. /\ Len(Q) = Len(P) + 1 /\ Len(P) = k + Len(t) /\ k \in Nat /\ Len(t) \in Nat
      /\ \A i \in 1..k : Q[i] = P[i]
      /\ Q[k + 1] = NoConnection
      /\ \A i \in (k + 1)..Len(P) : Q[i + 1] = P[i]
      /\ DOMAIN P = 1..Len(P) /\ DOMAIN Q = 1..Len(Q)
  BY <1>1, PlaceFailed
<1> HIDE DEF P, Q, k
<1> DEFINE From(q) == IF q <= k THEN q ELSE q - 1
<1>3. ASSUME NEW q \in DOMAIN Q, q # k + 1
      PROVE  From(q) \in DOMAIN P /\ Q[q] = P[From(q)]
  <2>1. CASE q <= k
    <3>1. q \in 1..k /\ q \in 1..Len(P)
      BY <1>2, <2>1
    <3> QED BY <1>2, <2>1, <3>1
  <2>2. CASE ~(q <= k)
    <3>1. q - 1 \in (k + 1)..Len(P) /\ (q - 1) + 1 = q /\ q - 1 \in 1..Len(P)
      BY <1>2, <1>3, <2>2
    <3>2. Q[(q - 1) + 1] = P[q - 1]
      BY <1>2, <3>1
    <3> QED BY <1>2, <2>2, <3>1, <3>2
  <2> QED BY <2>1, <2>2
<1>4. ASSUME NEW p \in DOMAIN Q, NEW q \in DOMAIN Q, p < q, p # k + 1, q # k + 1
      PROVE  From(p) < From(q)
  BY <1>2, <1>4
<1>5. ASSUME NEW p \in DOMAIN P PROVE \E q \in DOMAIN Q : Q[q] = P[p]
  <2>1. CASE p <= k
    <3>1. p \in 1..k /\ p \in DOMAIN Q
      BY <1>2, <2>1
    <3> QED BY <1>2, <3>1
  <2>2. CASE ~(p <= k)
    <3>1. p \in (k + 1)..Len(P) /\ p + 1 \in DOMAIN Q
      BY <1>2, <2>2
    <3> QED BY <1>2, <3>1
  <2> QED BY <2>1, <2>2
<1> HIDE DEF From
<1>6. InOrder(P, n)
  BY DEF P
<1>7. \A q \in DOMAIN Q : Q[q] \in 0..n \cup {NoConnection}
  BY <1>2, <1>3, <1>6 DEF InOrder
<1>8. \A c \in 0..n : \E q \in DOMAIN Q : Q[q] = c
  BY <1>5, <1>6 DEF InOrder
<1>9. ASSUME NEW p \in DOMAIN Q, NEW q \in DOMAIN Q, p < q, Q[q] # NoConnection
      PROVE  Q[p] < Q[q] \/ Q[p] = NoConnection
  <2>1. CASE p = k + 1
    BY <1>2, <2>1
  <2>2. CASE p # k + 1
    <3>1. q # k + 1
      BY <1>2, <1>9
    <3>2. /\ From(p) \in DOMAIN P /\ Q[p] = P[From(p)]
          /\ From(q) \in DOMAIN P /\ Q[q] = P[From(q)]
          /\ From(p) < From(q)
      BY <1>3, <1>4, <1>9, <2>2, <3>1
    <3> QED BY <1>6, <1>9, <3>2 DEF InOrder
  <2> QED BY <2>1, <2>2
<1> QED BY <1>7, <1>8, <1>9 DEF InOrder, Q

\* Nothing comes before the HELLO.
LEMMA HelloOnce ==
  ASSUME [SystemNext]_systemVars, reader' = "hello"
  PROVE  reader = "hello"
<1>1. [Next]_vars
  BY ReaderProjection
<1>2. CASE UNCHANGED vars
  BY <1>2 DEF vars
<1>3. CASE Reader \/ WakeSpuriously
  BY <1>3 DEF Reader, WakeSpuriously, Hello, Lock, Connect, SendRequest, ReceiveReply,
     TimeOut, ReceiveFails, WaitForScan, Die, Publish
<1>4. CASE ScannerLock \/ ScannerStep \/ \E i \in 1..Len(requests) : Decide(i)
  BY <1>4 DEF ScannerLock, ScannerStep, Swipe, ScannerUnlock, ScannerSignal,
     ScannerCheck, Decide
<1> QED BY <1>1, <1>2, <1>3, <1>4 DEF Next

\* The order of the connections, and before the first: nothing but failures.
PlacesInv ==
  /\ reader = "hello" =>
       /\ backlog = <<>> /\ fds = 0
       /\ \A p \in 1..Len(sockets) : sockets[p] = NoConnection
  /\ PlacesUsedUp

\* Every step keeps the order.
LEMMA PlacesStep ==
  ASSUME ReaderInv, OverseerTypeOK, PlacesInv, [SystemNext]_systemVars
  PROVE  PlacesInv'
<1> USE DEF PlacesInv, PlacesUsedUp
<1>0. /\ sockets \in Seq(Place) /\ backlog \in Seq(Place) /\ NoConnection \in Place
      /\ sockets \o backlog \in Seq(Place) /\ fds \in 0..FdLimit
  <2>1. sockets \in Seq(Place) /\ backlog \in Seq(Conns)
    BY DEF OverseerTypeOK, Place
  <2>2. Conns \subseteq Place
    BY DEF Place
  <2>3. backlog \in Seq(Place)
    BY <2>1, <2>2, SeqMonotonic
  <2> QED BY <2>1, <2>3, ConcatProperties DEF ReaderInv, TypeOK, Place
<1>1. CASE UNCHANGED <<sockets, backlog, fds>>
            /\ (reader' = reader \/ reader \notin {"hello", "dead"} \/ reader' = "dead")
  <2>1. CASE reader' = "hello" \/ reader = "hello"
    <3>1. reader' = "hello" => reader = "hello"
      BY HelloOnce
    <3> QED BY <1>1, <2>1, <3>1
  <2>2. CASE reader' # "hello" /\ reader # "hello"
    BY <1>1, <2>2
  <2> QED BY <2>1, <2>2
<1>2. CASE /\ reader = "hello" /\ reader' = "lock" /\ UNCHANGED <<sockets, fds>>
           /\ backlog' = Append(backlog, 0)
  <2>1. sockets \o <<>> = sockets /\ backlog = <<>> /\ fds' = 0
    BY <1>0, <1>2, ConcatEmptySeq
  <2>2. sockets' \o backlog' = Append(sockets, 0)
    <3>1. 0 \in Place
      <4>1. FdLimit \in Nat
        BY Limits
      <4> QED BY <4>1 DEF Place, Conns
    <3>2. sockets \o Append(backlog, 0) = Append(sockets \o backlog, 0)
      BY <1>0, <3>1, PlaceAdded
    <3> QED BY <1>2, <2>1, <3>2
  <2>3. InOrder(Append(sockets, 0), 0)
    BY <1>0, <1>2, FirstInOrder
  <2> QED BY <1>2, <2>1, <2>2, <2>3
<1>3. CASE /\ reader = "test" /\ reader' = "send" /\ UNCHANGED sockets
           /\ fds' = fds + 1 /\ fds < FdLimit
           /\ backlog' = Append(backlog, fds')
  <2>1. InOrder(sockets \o backlog, fds)
    BY <1>3
  <2>2. fds + 1 \in Place
    <3>1. FdLimit \in Nat
      BY Limits
    <3>2. fds + 1 \in Conns
      BY <1>0, <1>3, <3>1 DEF Conns
    <3> QED BY <3>2 DEF Place
  <2>3. sockets' \o backlog' = Append(sockets \o backlog, fds + 1)
    BY <1>0, <1>3, <2>2, PlaceAdded
  <2>4. InOrder(Append(sockets \o backlog, fds + 1), fds + 1)
    BY <1>0, <1>3, <2>1, NextInOrder
  <2> QED BY <1>3, <2>3, <2>4
<1>4. CASE /\ UNCHANGED <<reader, fds>> /\ backlog # <<>>
           /\ sockets' = Append(sockets, Head(backlog)) /\ backlog' = Tail(backlog)
  <2>1. sockets' \o backlog' = sockets \o backlog
    BY <1>0, <1>4, PlaceTaken
  <2> QED BY <1>4, <2>1
<1>5. CASE /\ UNCHANGED <<reader, fds, backlog>>
           /\ sockets' = Append(sockets, NoConnection)
  <2>1. ASSUME reader = "hello"
        PROVE  \A p \in 1..Len(sockets') : sockets'[p] = NoConnection
    <3>1. /\ Len(sockets') = Len(sockets) + 1 /\ Len(sockets) \in Nat
          /\ \A p \in 1..Len(sockets) : sockets'[p] = sockets[p]
          /\ sockets'[Len(sockets) + 1] = NoConnection
      BY <1>0, <1>5, AppendProperties
    <3>2. \A p \in 1..Len(sockets') : p \in 1..Len(sockets) \/ p = Len(sockets) + 1
      BY <3>1
    <3> QED BY <2>1, <3>1, <3>2
  <2>2. ASSUME reader \notin {"hello", "dead"}
        PROVE  InOrder(sockets' \o backlog', fds')
    BY <1>0, <1>5, <2>2, FailureInOrder
  <2> QED BY <1>5, <2>1, <2>2
<1> QED BY <1>1, <1>2, <1>3, <1>4, <1>5, SequencesStep

\* Every connection of the reader has a place in the overseer's array or is about
\* to get one, once and in order (overseer.c:61-71, cardreader.c:58).
THEOREM PlacesUsed == System => []PlacesUsedUp
<1>1. SystemInit => PlacesInv
  <2>1. SUFFICES ASSUME SystemInit PROVE PlacesInv
    OBVIOUS
  <2>2. reader = "hello" /\ fds = 0 /\ backlog = <<>> /\ sockets = <<>>
    BY <2>1 DEF SystemInit, Init, O!Init
  <2>3. Len(sockets) = 0
    BY <2>2
  <2> QED BY <2>2, <2>3 DEF PlacesInv, PlacesUsedUp
<1>2. PlacesInv => PlacesUsedUp
  BY DEF PlacesInv
<1>3. SystemTypeOK => OverseerTypeOK
  BY DEF SystemTypeOK, OverseerTypeOK
<1> QED
  BY <1>1, <1>2, <1>3, PlacesStep, SystemIsReader, ReaderInvCorrect,
     SystemTypeCorrect, PTL DEF System
=============================================================================
