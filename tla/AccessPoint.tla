------------------------------ MODULE AccessPoint ------------------------------
(***************************************************************************)
(* What a place where a card can be shown promises to whoever shows it:     *)
(* each showing starts undecided, and the answer 'Y' is given only if the   *)
(* overseer allowed this very showing.  Nothing is promised of an answer    *)
(* that is given because no reply came in time.  Cardreader implements it.  *)
(***************************************************************************)
CONSTANT Cards

VARIABLES
  shown,    \* the card last shown, or "" before the first
  allowed,  \* the overseer allowed this showing of it
  answer,   \* "0" before there is one, then "Y" or "N"
  silent    \* the last answer was given without a reply

vars == <<shown, allowed, answer, silent>>

Init == shown = "" /\ allowed = FALSE /\ answer = "0" /\ silent = FALSE

Show(k) == shown' = k /\ allowed' = FALSE /\ answer' = "0" /\ UNCHANGED silent

Allow ==
  /\ shown # ""
  /\ allowed' = TRUE
  /\ UNCHANGED <<shown, answer, silent>>

Grant ==
  /\ allowed
  /\ answer' = "Y" /\ silent' = FALSE
  /\ UNCHANGED <<shown, allowed>>

Refuse ==
  /\ shown # ""
  /\ answer' = "N" /\ silent' = FALSE
  /\ UNCHANGED <<shown, allowed>>

NoReply ==
  /\ shown # ""
  /\ answer' \in {"Y", "N"} /\ silent' = TRUE
  /\ UNCHANGED <<shown, allowed>>

Next == Allow \/ Grant \/ Refuse \/ NoReply \/ \E k \in Cards : Show(k)

Spec == Init /\ [][Next]_vars
=============================================================================
