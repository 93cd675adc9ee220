-------------------------- MODULE MCFt2LinkHandshake --------------------------
(* Instances of Ft2LinkHandshake for TLC. *)
EXTENDS Ft2LinkHandshake

CONSTANTS a, b

\* The ids of stations that have just started: all of them begin alike.
SameIds == [s \in Stations |-> 1]
===============================================================================
