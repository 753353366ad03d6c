------------------------------- MODULE Destselect -------------------------------
(***************************************************************************)
(* A destination selector, destselect.c: under the mutex of its record it   *)
(* copies the scanned card and the chosen floor, then unlocks, asks the     *)
(* overseer over a new connection, locks again and publishes the answer.    *)
(* It never clears the card, so it asks again at once.                      *)
(*                                                                         *)
(* The panel that writes card and floor and takes the answer is external,   *)
(* modelled from what the record is made for (data_structs.h:75-83), like   *)
(* the scanner of Cardreader.  So is the overseer, which allows a pair of   *)
(* card and floor exactly if it is in Permitted.                            *)
(***************************************************************************)
EXTENDS Naturals

CONSTANTS
  Cards,      \* card numbers
  Floors,     \* floors that can be chosen
  Permitted,  \* the pairs <<card, floor>> the overseer allows
  Faults      \* what may go wrong, see FaultKinds

\* "refused": socket() or connect() fails;  "reset": send() raises SIGPIPE;
\* "spurious": pthread_cond_wait() returns without a signal.
FaultKinds == {"refused", "reset", "spurious"}

ASSUME DestselectAssumption ==
  /\ Permitted \subseteq Cards \X Floors
  /\ Faults \subseteq FaultKinds
  /\ "" \notin Cards
  /\ 0 \notin Floors

VARIABLES
  scanned,   \* shared: the card, "" as initialised
  floor,     \* shared: floor_select, 0 as initialised
  response,  \* shared: "0" for '\0', "Y" or "N"
  mutex,     \* who holds it: "free", "selector" or "panel"
  selector,  \* where the process is, see SelectorPlaces
  panel,     \* where the panel is, see PanelPlaces
  copy,      \* card_data and selected_floor
  verdict,   \* reply on the open connection: "none", "A" or "other"
  shown      \* history: the pairs shown at the panel

sharedVars == <<scanned, floor, response>>
panelVars  == <<panel, shown>>
askVars    == <<copy, verdict>>
vars == <<sharedVars, mutex, selector, panelVars, askVars>>

\* From "test" to "floor" the process holds the mutex; "woken": signalled in
\* pthread_cond_wait(), wants it back; "publish": wants it for the response.
SelectorPlaces ==
  {"lock", "test", "wait", "woken", "card", "floor", "connect", "send", "recv",
   "publish", "dead"}

PanelPlaces ==
  {"idle", "locked", "half", "written", "unlocked", "ask", "check", "asleep"}

Init ==
  /\ scanned = "" /\ floor = 0 /\ response = "0"
  /\ mutex = "free" /\ selector = "lock" /\ panel = "idle"
  /\ copy = <<"", 0>> /\ verdict = "none"
  /\ shown = {}

-----------------------------------------------------------------------------
(* The selector.                                                            *)

Lock ==
  /\ mutex = "free"
  /\ mutex' = "selector"
  /\ \/ selector = "lock" /\ selector' = "test"
     \/ selector = "woken" /\ selector' = "card"
  /\ UNCHANGED <<sharedVars, panelVars, askVars>>

\* Mutated form: wait without having looked for a card.
Test_Blind ==
  /\ selector = "test"
  /\ selector' = "wait"
  /\ mutex' = "free"
  /\ UNCHANGED <<sharedVars, panelVars, askVars>>

\* A single test, not a loop: whatever ends the wait leads on to the copy.
Test ==
  /\ selector = "test"
  /\ IF scanned = "" THEN selector' = "wait" /\ mutex' = "free"
                     ELSE selector' = "card" /\ UNCHANGED mutex
  /\ UNCHANGED <<sharedVars, panelVars, askVars>>

WakeSpuriously ==
  /\ "spurious" \in Faults
  /\ selector = "wait"
  /\ selector' = "woken"
  /\ UNCHANGED <<sharedVars, mutex, panelVars, askVars>>

\* Mutated form: the mutex is released between the two copies.
CopyCard_Unlocks ==
  /\ selector = "card"
  /\ copy' = <<scanned, copy[2]>>
  /\ selector' = "floor"
  /\ mutex' = "free"
  /\ UNCHANGED <<sharedVars, panelVars, verdict>>

CopyCard ==
  /\ selector = "card"
  /\ copy' = <<scanned, copy[2]>>
  /\ selector' = "floor"
  /\ UNCHANGED <<sharedVars, mutex, panelVars, verdict>>

\* The floor is copied and the mutex released.
CopyFloor ==
  /\ selector = "floor"
  /\ copy' = <<copy[1], floor>>
  /\ mutex' = "free"
  /\ selector' = "connect"
  /\ UNCHANGED <<sharedVars, panelVars, verdict>>

\* The address is never filled in (the TODO of line 64), so whether this
\* succeeds depends on what the stack holds; a failure starts the loop over.
Connect ==
  /\ selector = "connect"
  /\ \/ selector' = "send"
     \/ "refused" \in Faults /\ selector' = "lock"
  /\ verdict' = "none"
  /\ UNCHANGED <<sharedVars, mutex, panelVars, copy>>

SendRequest ==
  /\ selector = "send"
  /\ \/ selector' = "recv"
     \/ "reset" \in Faults /\ selector' = "dead"
  /\ UNCHANGED <<sharedVars, mutex, panelVars, askVars>>

\* recv() returns the reply or, timed out or failed, none; the socket is closed.
Receive ==
  /\ selector = "recv"
  /\ verdict' \in {verdict, "none"}
  /\ selector' = "publish"
  /\ UNCHANGED <<sharedVars, mutex, panelVars, copy>>

Answer == IF verdict = "A" THEN "Y" ELSE "N"

\* Mutated form: nobody is told of the response.
Publish_Silent ==
  /\ selector = "publish"
  /\ mutex = "free"
  /\ response' = Answer
  /\ selector' = "lock"
  /\ UNCHANGED <<scanned, floor, mutex, panelVars, askVars>>

\* Mutated form: the code of the overseer is published.
Publish_Raw ==
  /\ selector = "publish"
  /\ mutex = "free"
  /\ response' = verdict
  /\ panel' = IF panel = "asleep" THEN "ask" ELSE panel
  /\ selector' = "lock"
  /\ UNCHANGED <<scanned, floor, mutex, shown, askVars>>

\* Lock, publish, signal and unlock: the mutex keeps everybody else out.
Publish ==
  /\ selector = "publish"
  /\ mutex = "free"
  /\ response' = Answer
  /\ panel' = IF panel = "asleep" THEN "ask" ELSE panel
  /\ selector' = "lock"
  /\ UNCHANGED <<scanned, floor, mutex, shown, askVars>>

Selector ==
  \/ Lock \/ Test \/ CopyCard \/ CopyFloor
  \/ Connect \/ SendRequest \/ Receive \/ Publish

-----------------------------------------------------------------------------
(* The overseer (external).                                                 *)

Decide ==
  /\ selector = "recv"
  /\ verdict = "none"
  /\ verdict' = IF copy \in Permitted THEN "A" ELSE "other"
  /\ UNCHANGED <<sharedVars, mutex, selector, panelVars, copy>>

-----------------------------------------------------------------------------
(* The panel (external).                                                    *)

PanelLock ==
  /\ mutex = "free"
  /\ mutex' = "panel"
  /\ \/ panel = "idle" /\ panel' = "locked"
     \/ panel = "ask" /\ panel' = "check"
  /\ UNCHANGED <<sharedVars, selector, shown, askVars>>

WriteCard(k) ==
  /\ panel = "locked"
  /\ scanned' = k
  /\ response' = "0"
  /\ panel' = "half"
  /\ UNCHANGED <<floor, mutex, selector, shown, askVars>>

WriteFloor(f) ==
  /\ panel = "half"
  /\ floor' = f
  /\ shown' = shown \cup {<<scanned, f>>}
  /\ panel' = "written"
  /\ UNCHANGED <<scanned, response, mutex, selector, askVars>>

PanelUnlock ==
  /\ panel = "written"
  /\ mutex' = "free"
  /\ panel' = "unlocked"
  /\ UNCHANGED <<sharedVars, selector, shown, askVars>>

PanelSignal ==
  /\ panel = "unlocked"
  /\ selector' = IF selector = "wait" THEN "woken" ELSE selector
  /\ panel' = "ask"
  /\ UNCHANGED <<sharedVars, mutex, shown, askVars>>

\* Takes the response, or sleeps until response_cond is signalled.
PanelCheck ==
  /\ panel = "check"
  /\ mutex' = "free"
  /\ panel' = IF response = "0" THEN "asleep" ELSE "idle"
  /\ UNCHANGED <<sharedVars, selector, shown, askVars>>

PanelStep ==
  \/ \E k \in Cards : WriteCard(k)
  \/ \E f \in Floors : WriteFloor(f)
  \/ PanelUnlock \/ PanelSignal \/ PanelCheck

-----------------------------------------------------------------------------
Next == Selector \/ WakeSpuriously \/ Decide \/ PanelLock \/ PanelStep

\* The selector runs and in the end gets the mutex it waits for, the panel finishes
\* what it has begun.  No connection has to succeed.
Fairness ==
  /\ WF_vars(Selector)
  /\ SF_vars(Lock) /\ SF_vars(Publish)
  /\ WF_vars(PanelStep)
  /\ SF_vars(panel = "ask" /\ PanelLock)

SafeSpec == Init /\ [][Next]_vars
Spec == SafeSpec /\ Fairness

-----------------------------------------------------------------------------
(* Properties.                                                              *)

TypeOK ==
  /\ scanned \in Cards \cup {""}
  /\ floor \in Floors \cup {0}
  /\ response \in {"0", "Y", "N"}
  /\ mutex \in {"free", "selector", "panel"}
  /\ selector \in SelectorPlaces
  /\ panel \in PanelPlaces
  /\ copy \in (Cards \cup {""}) \X (Floors \cup {0})
  /\ verdict \in {"none", "A", "other"}
  /\ shown \subseteq Cards \X Floors

\* A 'Y' is only ever given after a pair was shown that the overseer permits:
\* a card of one showing is never put together with the floor of another, and
\* neither silence nor a refusal counts as permission (destselect.c:40-54, 91).
GrantNeedsPermittedShowing ==
  response = "Y" => shown \cap Permitted # {}

\* The selector and the panel never wait for each other (destselect.c:40-46):
\* the selector waits while a card is in the record only if its signal is still
\* to come.
NotBothAsleep ==
  selector = "wait" /\ scanned # ""
    => panel \in {"half", "written", "unlocked"}

\* As long as the selector gets a connection again and again, every showing is
\* answered, also to a panel that has fallen asleep over it (destselect.c:87-95).
\* Nothing in the code sees to the connections: their address is not filled in.
ShowingAnswered ==
  []<><<Connect /\ selector' = "send">>_vars
    => (panel = "written" ~> panel = "idle")

\* The answer is about the card and floor in the record: line 89 processes the
\* response to what line 48 took from the record.
GrantsPermitted == response = "Y" => <<scanned, floor>> \in Permitted
=============================================================================
