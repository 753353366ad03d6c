------------------------------ MODULE MCElevator ------------------------------
(* Elevator in a building of three floors: the requests people make, and some  *)
(* that name one floor twice or no floor of the building.                      *)
EXTENDS Elevator

Passengers == {r \in Floors \X Floors : r[1] # r[2]}
Anything   == Passengers \cup {<<2, 2>>, <<Lowest - 1, 2>>, <<2, Highest + 1>>}
=============================================================================
