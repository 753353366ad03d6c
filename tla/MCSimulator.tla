------------------------------ MODULE MCSimulator ------------------------------
(* Simulator with the record sizes of a 64-bit Linux build.  The areas are     *)
(* shorter than the code's, so that three lines can be too many.               *)
EXTENDS Simulator

RecordSizes ==
  [overseer |-> 96, firealarm |-> 96, cardreader |-> 160, door |-> 144,
   callpoint |-> 96, tempsensor |-> 96, elevator |-> 144, destselect |-> 168]

RecordSlots ==
  [overseer |-> 1, firealarm |-> 1, cardreader |-> 2, door |-> 1,
   callpoint |-> 1, tempsensor |-> 2, elevator |-> 1, destselect |-> 1]

\* The numbers of records in helper_functions.c:80-82.
Built ==
  INSTANCE SharedMemory WITH
    Size <- RecordSizes,
    Slots <- [overseer |-> 1, firealarm |-> 1, cardreader |-> 40, door |-> 20,
              callpoint |-> 20, tempsensor |-> 20, elevator |-> 10, destselect |-> 20]

\* simulator.c prints "Should be 54592"; its array holds 100 lines.
ASSUME TotalAsPrinted == Built!Total = 54592
ASSUME LinesFit == \A k \in Kinds : Built!Base(k) + 100 * RecordSizes[k] <= Built!Total
=============================================================================
