--------------------------- MODULE MCCampusSweep ----------------------------
(* Instance of CampusSweep: a sweep of two points, and the rows of a run     *)
(* reduced to one class and "all".                                           *)
EXTENDS CampusSweep

MCGrid    == <<"baseline-n10-run1", "ax-n10-run1">>
MCClasses == <<"voip", "all">>

\* Sweeps that differ in an argument a row identifies (direction) and in one
\* that it does not (uplink_ratio).
MCIdentity == [downlink |-> "downlink", ratio2 |-> "both", ratio4 |-> "both"]
=============================================================================
