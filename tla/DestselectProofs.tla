---------------------------- MODULE DestselectProofs ----------------------------
(***************************************************************************)
(* Proofs about the destination selector, for all cards, floors, permitted   *)
(* pairs and faults.  What the proof turns on is that card and floor are     *)
(* both written and both copied under the mutex: the pair the overseer is    *)
(* asked about was shown as a pair, unless its card is still the empty one,  *)
(* which no permission names.                                               *)
(***************************************************************************)
EXTENDS Destselect, TLAPS

\* The selector and the panel hold the mutex exactly between locking and unlocking.
MutexInv ==
  /\ mutex = "selector" <=> selector \in {"test", "card", "floor"}
  /\ mutex = "panel" <=> panel \in {"locked", "half", "written", "check"}

\* But for the moment between the two writes, the record holds a pair that was
\* shown, or none yet.
RecordInv == panel # "half" /\ scanned # "" => <<scanned, floor>> \in shown

\* The copy is the record's while it is being made, and a pair once it is made.
CopyInv ==
  /\ selector = "floor" => copy[1] = scanned
  /\ selector \in {"connect", "send", "recv", "publish"} =>
       copy[1] = "" \/ copy \in shown

\* Permission is only ever given to a pair that was shown.
GrantInv == verdict = "A" \/ response = "Y" => shown \cap Permitted # {}

\* Between its two writes the panel has written a card.
HalfInv == panel = "half" => scanned \in Cards

SelectorInv == TypeOK /\ HalfInv /\ MutexInv /\ RecordInv /\ CopyInv /\ GrantInv

\* A permitted pair has a card, and so is none of the pairs the record starts with.
LEMMA PermittedHasCard ==
  ASSUME NEW pair \in Permitted
  PROVE  pair[1] # ""
<1>1. pair \in Cards \X Floors /\ "" \notin Cards
  BY DestselectAssumption
<1> QED
  BY <1>1

\* Every step keeps every variable in its type.
LEMMA TypeStep == TypeOK /\ HalfInv /\ [Next]_vars => TypeOK'
<1> SUFFICES ASSUME TypeOK, HalfInv, [Next]_vars PROVE TypeOK'
  OBVIOUS
<1>1. CASE UNCHANGED vars
  BY <1>1 DEF TypeOK, vars, sharedVars, panelVars, askVars
<1>2. CASE Lock
  BY <1>2 DEF TypeOK, Lock, SelectorPlaces, sharedVars, panelVars, askVars
<1>3. CASE Test
  BY <1>3 DEF TypeOK, Test, SelectorPlaces, sharedVars, panelVars, askVars
<1>4. CASE CopyCard
  BY <1>4 DEF TypeOK, CopyCard, SelectorPlaces, sharedVars, panelVars
<1>5. CASE CopyFloor
  BY <1>5 DEF TypeOK, CopyFloor, SelectorPlaces, sharedVars, panelVars
<1>6. CASE Connect
  BY <1>6 DEF TypeOK, Connect, SelectorPlaces, sharedVars, panelVars
<1>7. CASE SendRequest
  BY <1>7 DEF TypeOK, SendRequest, SelectorPlaces, sharedVars, panelVars, askVars
<1>8. CASE Receive
  BY <1>8 DEF TypeOK, Receive, SelectorPlaces, sharedVars, panelVars
<1>9. CASE Publish
  BY <1>9 DEF TypeOK, Publish, Answer, SelectorPlaces, PanelPlaces, askVars
<1>10. CASE WakeSpuriously
  BY <1>10 DEF TypeOK, WakeSpuriously, SelectorPlaces, sharedVars, panelVars, askVars
<1>11. CASE Decide
  BY <1>11 DEF TypeOK, Decide, sharedVars, panelVars
<1>12. CASE PanelLock
  BY <1>12 DEF TypeOK, PanelLock, PanelPlaces, sharedVars, askVars
<1>13. ASSUME NEW k \in Cards, WriteCard(k) PROVE TypeOK'
  BY <1>13 DEF TypeOK, WriteCard, PanelPlaces, askVars
<1>14. ASSUME NEW f \in Floors, WriteFloor(f) PROVE TypeOK'
  <2>1. floor' = f /\ panel' = "written" /\ shown' = shown \cup {<<scanned, f>>}
    BY <1>14 DEF WriteFloor
  <2>2. <<scanned, f>> \in Cards \X Floors
    BY <1>14 DEF WriteFloor, HalfInv
  <2> QED
    BY <1>14, <2>1, <2>2 DEF TypeOK, WriteFloor, PanelPlaces, askVars
<1>15. CASE PanelUnlock
  BY <1>15 DEF TypeOK, PanelUnlock, PanelPlaces, sharedVars, askVars
<1>16. CASE PanelSignal
  BY <1>16 DEF TypeOK, PanelSignal, PanelPlaces, SelectorPlaces, sharedVars, askVars
<1>17. CASE PanelCheck
  BY <1>17 DEF TypeOK, PanelCheck, PanelPlaces, sharedVars, askVars
<1> QED
  BY <1>1, <1>2, <1>3, <1>4, <1>5, <1>6, <1>7, <1>8, <1>9, <1>10, <1>11, <1>12,
     <1>13, <1>14, <1>15, <1>16, <1>17
  DEF Next, Selector, PanelStep

\* Between the writes only the panel's own step changes the card.
LEMMA HalfStep ==
  ASSUME HalfInv, [Next]_vars
  PROVE  HalfInv'
<1>1. CASE UNCHANGED vars
  BY <1>1 DEF HalfInv, vars, sharedVars, panelVars, askVars
<1>2. CASE Lock
  BY <1>2 DEF HalfInv, Lock, sharedVars, panelVars, askVars
<1>3. CASE Test
  BY <1>3 DEF HalfInv, Test, sharedVars, panelVars, askVars
<1>4. CASE CopyCard
  BY <1>4 DEF HalfInv, CopyCard, sharedVars, panelVars, askVars
<1>5. CASE CopyFloor
  BY <1>5 DEF HalfInv, CopyFloor, sharedVars, panelVars, askVars
<1>6. CASE Connect
  BY <1>6 DEF HalfInv, Connect, sharedVars, panelVars, askVars
<1>7. CASE SendRequest
  BY <1>7 DEF HalfInv, SendRequest, sharedVars, panelVars, askVars
<1>8. CASE Receive
  BY <1>8 DEF HalfInv, Receive, sharedVars, panelVars, askVars
<1>9. CASE Publish
  BY <1>9 DEF HalfInv, Publish, Answer, sharedVars, panelVars, askVars
<1>10. CASE WakeSpuriously
  BY <1>10 DEF HalfInv, WakeSpuriously, sharedVars, panelVars, askVars
<1>11. CASE Decide
  BY <1>11 DEF HalfInv, Decide, sharedVars, panelVars, askVars
<1>12. CASE PanelLock
  BY <1>12 DEF HalfInv, PanelLock, sharedVars, panelVars, askVars
<1>13. ASSUME NEW k \in Cards, WriteCard(k) PROVE HalfInv'
  BY <1>13 DEF HalfInv, WriteCard, sharedVars, panelVars, askVars
<1>14. ASSUME NEW f \in Floors, WriteFloor(f) PROVE HalfInv'
  BY <1>14 DEF HalfInv, WriteFloor, sharedVars, panelVars, askVars
<1>15. CASE PanelUnlock
  BY <1>15 DEF HalfInv, PanelUnlock, sharedVars, panelVars, askVars
<1>16. CASE PanelSignal
  BY <1>16 DEF HalfInv, PanelSignal, sharedVars, panelVars, askVars
<1>17. CASE PanelCheck
  BY <1>17 DEF HalfInv, PanelCheck, sharedVars, panelVars, askVars
<1> QED
  BY <1>1, <1>2, <1>3, <1>4, <1>5, <1>6, <1>7, <1>8, <1>9,
     <1>10, <1>11, <1>12, <1>13, <1>14, <1>15, <1>16, <1>17
  DEF Next, Selector, PanelStep

\* Whoever takes the mutex found it free, and only its holder gives it back.
LEMMA MutexStep ==
  ASSUME MutexInv, [Next]_vars
  PROVE  MutexInv'
<1>1. CASE UNCHANGED vars
  BY <1>1 DEF MutexInv, vars, sharedVars, panelVars, askVars
<1>2. CASE Lock
  BY <1>2 DEF MutexInv, Lock, sharedVars, panelVars, askVars
<1>3. CASE Test
  BY <1>3 DEF MutexInv, Test, sharedVars, panelVars, askVars
<1>4. CASE CopyCard
  BY <1>4 DEF MutexInv, CopyCard, sharedVars, panelVars, askVars
<1>5. CASE CopyFloor
  BY <1>5 DEF MutexInv, CopyFloor, sharedVars, panelVars, askVars
<1>6. CASE Connect
  BY <1>6 DEF MutexInv, Connect, sharedVars, panelVars, askVars
<1>7. CASE SendRequest
  BY <1>7 DEF MutexInv, SendRequest, sharedVars, panelVars, askVars
<1>8. CASE Receive
  BY <1>8 DEF MutexInv, Receive, sharedVars, panelVars, askVars
<1>9. CASE Publish
  BY <1>9 DEF MutexInv, Publish, Answer, sharedVars, panelVars, askVars
<1>10. CASE WakeSpuriously
  BY <1>10 DEF MutexInv, WakeSpuriously, sharedVars, panelVars, askVars
<1>11. CASE Decide
  BY <1>11 DEF MutexInv, Decide, sharedVars, panelVars, askVars
<1>12. CASE PanelLock
  BY <1>12 DEF MutexInv, PanelLock, sharedVars, panelVars, askVars
<1>13. ASSUME NEW k \in Cards, WriteCard(k) PROVE MutexInv'
  BY <1>13 DEF MutexInv, WriteCard, sharedVars, panelVars, askVars
<1>14. ASSUME NEW f \in Floors, WriteFloor(f) PROVE MutexInv'
  BY <1>14 DEF MutexInv, WriteFloor, sharedVars, panelVars, askVars
<1>15. CASE PanelUnlock
  BY <1>15 DEF MutexInv, PanelUnlock, sharedVars, panelVars, askVars
<1>16. CASE PanelSignal
  BY <1>16 DEF MutexInv, PanelSignal, sharedVars, panelVars, askVars
<1>17. CASE PanelCheck
  BY <1>17 DEF MutexInv, PanelCheck, sharedVars, panelVars, askVars
<1> QED
  BY <1>1, <1>2, <1>3, <1>4, <1>5, <1>6, <1>7, <1>8, <1>9,
     <1>10, <1>11, <1>12, <1>13, <1>14, <1>15, <1>16, <1>17
  DEF Next, Selector, PanelStep

\* Both parts of the record change in one tenure of the mutex.
LEMMA RecordStep ==
  ASSUME MutexInv, RecordInv, [Next]_vars
  PROVE  RecordInv'
<1>1. CASE UNCHANGED vars
  BY <1>1 DEF MutexInv, RecordInv, vars, sharedVars, panelVars, askVars
<1>2. CASE Lock
  BY <1>2 DEF MutexInv, RecordInv, Lock, sharedVars, panelVars, askVars
<1>3. CASE Test
  BY <1>3 DEF MutexInv, RecordInv, Test, sharedVars, panelVars, askVars
<1>4. CASE CopyCard
  BY <1>4 DEF MutexInv, RecordInv, CopyCard, sharedVars, panelVars, askVars
<1>5. CASE CopyFloor
  BY <1>5 DEF MutexInv, RecordInv, CopyFloor, sharedVars, panelVars, askVars
<1>6. CASE Connect
  BY <1>6 DEF MutexInv, RecordInv, Connect, sharedVars, panelVars, askVars
<1>7. CASE SendRequest
  BY <1>7 DEF MutexInv, RecordInv, SendRequest, sharedVars, panelVars, askVars
<1>8. CASE Receive
  BY <1>8 DEF MutexInv, RecordInv, Receive, sharedVars, panelVars, askVars
<1>9. CASE Publish
  BY <1>9 DEF MutexInv, RecordInv, Publish, Answer, sharedVars, panelVars, askVars
<1>10. CASE WakeSpuriously
  BY <1>10 DEF MutexInv, RecordInv, WakeSpuriously, sharedVars, panelVars, askVars
<1>11. CASE Decide
  BY <1>11 DEF MutexInv, RecordInv, Decide, sharedVars, panelVars, askVars
<1>12. CASE PanelLock
  BY <1>12 DEF MutexInv, RecordInv, PanelLock, sharedVars, panelVars, askVars
<1>13. ASSUME NEW k \in Cards, WriteCard(k) PROVE RecordInv'
  BY <1>13 DEF MutexInv, RecordInv, WriteCard, sharedVars, panelVars, askVars
<1>14. ASSUME NEW f \in Floors, WriteFloor(f) PROVE RecordInv'
  BY <1>14 DEF MutexInv, RecordInv, WriteFloor, sharedVars, panelVars, askVars
<1>15. CASE PanelUnlock
  BY <1>15 DEF MutexInv, RecordInv, PanelUnlock, sharedVars, panelVars, askVars
<1>16. CASE PanelSignal
  BY <1>16 DEF MutexInv, RecordInv, PanelSignal, sharedVars, panelVars, askVars
<1>17. CASE PanelCheck
  BY <1>17 DEF MutexInv, RecordInv, PanelCheck, sharedVars, panelVars, askVars
<1> QED
  BY <1>1, <1>2, <1>3, <1>4, <1>5, <1>6, <1>7, <1>8, <1>9,
     <1>10, <1>11, <1>12, <1>13, <1>14, <1>15, <1>16, <1>17
  DEF Next, Selector, PanelStep

\* Both parts of the copy are made in one tenure of the mutex.
LEMMA CopyStep ==
  ASSUME TypeOK, MutexInv, RecordInv, CopyInv, [Next]_vars
  PROVE  CopyInv'
<1>1. CASE UNCHANGED vars
  BY <1>1 DEF MutexInv, RecordInv, CopyInv, vars, sharedVars, panelVars, askVars
<1>2. CASE Lock
  BY <1>2 DEF MutexInv, RecordInv, CopyInv, Lock, sharedVars, panelVars, askVars
<1>3. CASE Test
  BY <1>3 DEF MutexInv, RecordInv, CopyInv, Test, sharedVars, panelVars, askVars
<1>4. CASE CopyCard
  BY <1>4 DEF MutexInv, RecordInv, CopyInv, CopyCard, sharedVars, panelVars, askVars
<1>5. CASE CopyFloor
  BY <1>5 DEF MutexInv, RecordInv, CopyInv, CopyFloor, sharedVars, panelVars, askVars
<1>6. CASE Connect
  BY <1>6 DEF MutexInv, RecordInv, CopyInv, Connect, sharedVars, panelVars, askVars
<1>7. CASE SendRequest
  BY <1>7 DEF MutexInv, RecordInv, CopyInv, SendRequest, sharedVars, panelVars, askVars
<1>8. CASE Receive
  BY <1>8 DEF MutexInv, RecordInv, CopyInv, Receive, sharedVars, panelVars, askVars
<1>9. CASE Publish
  BY <1>9 DEF MutexInv, RecordInv, CopyInv, Publish, Answer, sharedVars, panelVars, askVars
<1>10. CASE WakeSpuriously
  BY <1>10 DEF MutexInv, RecordInv, CopyInv, WakeSpuriously, sharedVars, panelVars, askVars
<1>11. CASE Decide
  BY <1>11 DEF MutexInv, RecordInv, CopyInv, Decide, sharedVars, panelVars, askVars
<1>12. CASE PanelLock
  BY <1>12 DEF MutexInv, RecordInv, CopyInv, PanelLock, sharedVars, panelVars, askVars
<1>13. ASSUME NEW k \in Cards, WriteCard(k) PROVE CopyInv'
  BY <1>13 DEF MutexInv, RecordInv, CopyInv, WriteCard, sharedVars, panelVars, askVars
<1>14. ASSUME NEW f \in Floors, WriteFloor(f) PROVE CopyInv'
  BY <1>14 DEF MutexInv, RecordInv, CopyInv, WriteFloor, sharedVars, panelVars, askVars
<1>15. CASE PanelUnlock
  BY <1>15 DEF MutexInv, RecordInv, CopyInv, PanelUnlock, sharedVars, panelVars, askVars
<1>16. CASE PanelSignal
  BY <1>16 DEF MutexInv, RecordInv, CopyInv, PanelSignal, sharedVars, panelVars, askVars
<1>17. CASE PanelCheck
  BY <1>17 DEF MutexInv, RecordInv, CopyInv, PanelCheck, sharedVars, panelVars, askVars
<1> QED
  BY <1>1, <1>2, <1>3, <1>4, <1>5, <1>6, <1>7, <1>8, <1>9,
     <1>10, <1>11, <1>12, <1>13, <1>14, <1>15, <1>16, <1>17
  DEF Next, Selector, PanelStep

\* The overseer permits only what it is asked about, and that was shown.
LEMMA GrantStep ==
  ASSUME TypeOK, CopyInv, GrantInv, [Next]_vars
  PROVE  GrantInv'
<1>1. CASE UNCHANGED vars
  BY <1>1 DEF CopyInv, GrantInv, vars, sharedVars, panelVars, askVars
<1>2. CASE Lock
  BY <1>2 DEF CopyInv, GrantInv, Lock, sharedVars, panelVars, askVars
<1>3. CASE Test
  BY <1>3 DEF CopyInv, GrantInv, Test, sharedVars, panelVars, askVars
<1>4. CASE CopyCard
  BY <1>4 DEF CopyInv, GrantInv, CopyCard, sharedVars, panelVars, askVars
<1>5. CASE CopyFloor
  BY <1>5 DEF CopyInv, GrantInv, CopyFloor, sharedVars, panelVars, askVars
<1>6. CASE Connect
  BY <1>6 DEF CopyInv, GrantInv, Connect, sharedVars, panelVars, askVars
<1>7. CASE SendRequest
  BY <1>7 DEF CopyInv, GrantInv, SendRequest, sharedVars, panelVars, askVars
<1>8. CASE Receive
  BY <1>8 DEF CopyInv, GrantInv, Receive, sharedVars, panelVars, askVars
<1>9. CASE Publish
  BY <1>9 DEF CopyInv, GrantInv, Publish, Answer, sharedVars, panelVars, askVars
<1>10. CASE WakeSpuriously
  BY <1>10 DEF CopyInv, GrantInv, WakeSpuriously, sharedVars, panelVars, askVars
<1>11. CASE Decide
  <2>1. copy[1] = "" \/ copy \in shown
    BY <1>11 DEF CopyInv, Decide
  <2>2. copy \in Permitted => copy \in shown
    BY <2>1, PermittedHasCard
  <2>3. UNCHANGED <<response, shown>> /\ (verdict' = "A" => copy \in Permitted)
    BY <1>11 DEF Decide, sharedVars, panelVars
  <2> QED
    BY <2>2, <2>3 DEF GrantInv
<1>12. CASE PanelLock
  BY <1>12 DEF CopyInv, GrantInv, PanelLock, sharedVars, panelVars, askVars
<1>13. ASSUME NEW k \in Cards, WriteCard(k) PROVE GrantInv'
  BY <1>13 DEF CopyInv, GrantInv, WriteCard, sharedVars, panelVars, askVars
<1>14. ASSUME NEW f \in Floors, WriteFloor(f) PROVE GrantInv'
  BY <1>14 DEF CopyInv, GrantInv, WriteFloor, sharedVars, panelVars, askVars
<1>15. CASE PanelUnlock
  BY <1>15 DEF CopyInv, GrantInv, PanelUnlock, sharedVars, panelVars, askVars
<1>16. CASE PanelSignal
  BY <1>16 DEF CopyInv, GrantInv, PanelSignal, sharedVars, panelVars, askVars
<1>17. CASE PanelCheck
  BY <1>17 DEF CopyInv, GrantInv, PanelCheck, sharedVars, panelVars, askVars
<1> QED
  BY <1>1, <1>2, <1>3, <1>4, <1>5, <1>6, <1>7, <1>8, <1>9,
     <1>10, <1>11, <1>12, <1>13, <1>14, <1>15, <1>16, <1>17
  DEF Next, Selector, PanelStep

\* A selector that waits found no card, and a card is followed by a signal.
LEMMA AwakeStep ==
  ASSUME NotBothAsleep, [Next]_vars
  PROVE  NotBothAsleep'
<1>1. CASE UNCHANGED vars
  BY <1>1 DEF NotBothAsleep, vars, sharedVars, panelVars
<1>2. CASE Lock
  BY <1>2 DEF NotBothAsleep, Lock, sharedVars, panelVars
<1>3. CASE Test
  BY <1>3 DEF NotBothAsleep, Test, sharedVars, panelVars
<1>4. CASE CopyCard
  BY <1>4 DEF NotBothAsleep, CopyCard, sharedVars, panelVars
<1>5. CASE CopyFloor
  BY <1>5 DEF NotBothAsleep, CopyFloor, sharedVars, panelVars
<1>6. CASE Connect
  BY <1>6 DEF NotBothAsleep, Connect, sharedVars, panelVars
<1>7. CASE SendRequest
  BY <1>7 DEF NotBothAsleep, SendRequest, sharedVars, panelVars
<1>8. CASE Receive
  BY <1>8 DEF NotBothAsleep, Receive, sharedVars, panelVars
<1>9. CASE Publish
  BY <1>9 DEF NotBothAsleep, Publish, sharedVars, panelVars
<1>10. CASE WakeSpuriously
  BY <1>10 DEF NotBothAsleep, WakeSpuriously, sharedVars, panelVars
<1>11. CASE Decide
  BY <1>11 DEF NotBothAsleep, Decide, sharedVars, panelVars
<1>12. CASE PanelLock
  BY <1>12 DEF NotBothAsleep, PanelLock, sharedVars, panelVars
<1>13. ASSUME NEW k \in Cards, WriteCard(k) PROVE NotBothAsleep'
  BY <1>13 DEF NotBothAsleep, WriteCard, sharedVars, panelVars
<1>14. ASSUME NEW f \in Floors, WriteFloor(f) PROVE NotBothAsleep'
  BY <1>14 DEF NotBothAsleep, WriteFloor, sharedVars, panelVars
<1>15. CASE PanelUnlock
  BY <1>15 DEF NotBothAsleep, PanelUnlock, sharedVars, panelVars
<1>16. CASE PanelSignal
  BY <1>16 DEF NotBothAsleep, PanelSignal, sharedVars, panelVars
<1>17. CASE PanelCheck
  BY <1>17 DEF NotBothAsleep, PanelCheck, sharedVars, panelVars
<1> QED
  BY <1>1, <1>2, <1>3, <1>4, <1>5, <1>6, <1>7, <1>8, <1>9,
     <1>10, <1>11, <1>12, <1>13, <1>14, <1>15, <1>16, <1>17
  DEF Next, Selector, PanelStep

-----------------------------------------------------------------------------
\* The inductive invariant holds initially.
LEMMA InitInv == Init => SelectorInv /\ NotBothAsleep
<1> SUFFICES ASSUME Init PROVE SelectorInv /\ NotBothAsleep
  OBVIOUS
<1>1. TypeOK
  BY DEF Init, TypeOK, SelectorPlaces, PanelPlaces
<1>2. HalfInv /\ RecordInv /\ NotBothAsleep
  BY DEF Init, HalfInv, RecordInv, NotBothAsleep
<1>3. MutexInv
  BY DEF Init, MutexInv
<1>4. CopyInv
  BY DEF Init, CopyInv
<1>5. GrantInv
  BY DEF Init, GrantInv
<1> QED
  BY <1>1, <1>2, <1>3, <1>4, <1>5 DEF SelectorInv

\* SelectorInv is an invariant of the specification.
THEOREM SelectorInvCorrect == SafeSpec => []SelectorInv
<1>1. Init => SelectorInv
  BY InitInv
<1>2. SelectorInv /\ [Next]_vars => SelectorInv'
  BY TypeStep, HalfStep, MutexStep, RecordStep, CopyStep, GrantStep DEF SelectorInv
<1> QED
  BY <1>1, <1>2, PTL DEF SafeSpec

\* Every variable has its type, and what is shown is always a pair of a card and a
\* floor (destselect.c:40-54, 91).
THEOREM TypeCorrect == SafeSpec => []TypeOK
<1>1. SelectorInv => TypeOK
  BY DEF SelectorInv
<1> QED
  BY <1>1, SelectorInvCorrect, PTL

\* No 'Y' without a showing of a pair the overseer permits (destselect.c:40-54, 91).
THEOREM GrantsCorrect == SafeSpec => []GrantNeedsPermittedShowing
<1>1. SelectorInv => GrantNeedsPermittedShowing
  BY DEF SelectorInv, GrantInv, GrantNeedsPermittedShowing
<1> QED
  BY <1>1, SelectorInvCorrect, PTL

\* The selector never sleeps on a card without a signal to come (destselect.c:40-46).
THEOREM AwakeCorrect == SafeSpec => []NotBothAsleep
<1>1. Init => NotBothAsleep
  BY InitInv
<1>2. NotBothAsleep /\ [Next]_vars => NotBothAsleep'
  BY AwakeStep
<1> QED
  BY <1>1, <1>2, PTL DEF SafeSpec
=============================================================================
