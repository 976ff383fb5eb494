------------------------------- MODULE MCZones -------------------------------
(* Instances of ZoneArrays for TLC. *)
EXTENDS ZoneArrays

\* Coordinates that share a latitude, a longitude, or nothing.
Corners == {[lat |-> 1, lon |-> 1], [lat |-> 1, lon |-> 2], [lat |-> 2, lon |-> 2]}
=============================================================================
