------------------------ MODULE MCGrantedTimeWindow -------------------------
(* An instance of GrantedTimeWindow: three ranks in a row whose links have   *)
(* different delays, so that the windows of the ranks have different lengths. *)
EXTENDS GrantedTimeWindow

MCMaxTime == 20

MCLink == [r \in 0 .. 2 |-> [q \in 0 .. 2 |->
              CASE {r, q} = {0, 1} -> 1
                [] {r, q} = {1, 2} -> 2
                [] OTHER -> MCMaxTime]]
=============================================================================
