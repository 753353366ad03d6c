------------------------------ MODULE MCDestselect ------------------------------
(* Destselect with two cards and two floors: each card may go to one floor.  *)
EXTENDS Destselect

CONSTANTS k1, k2

CardSet == {k1, k2}
PermittedPairs == {<<k1, 1>>, <<k2, 2>>}
=============================================================================
