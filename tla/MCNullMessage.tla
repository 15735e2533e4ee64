--------------------------- MODULE MCNullMessage ----------------------------
(* Instance of NullMessage: three ranks in a row; two channels of different  *)
(* delays between the first two, one between the others.                     *)
EXTENDS NullMessage, TLC

CONSTANTS a, b, c

MCStopTime == [r \in Rank |-> 3]

RowEnds  == a :> {0, 1} @@ b :> {1, 2} @@ c :> {0, 1}
RowDelay == a :> 3 @@ b :> 2 @@ c :> 4
=============================================================================
