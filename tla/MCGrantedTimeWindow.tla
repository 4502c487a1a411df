----------------------- MODULE MCGrantedTimeWindow -----------------------
(* Small topologies for GrantedTimeWindow.                                 *)
EXTENDS GrantedTimeWindow

\* Two ranks and one link.
PairDelay == [r \in Ranks |-> [q \in Ranks |-> IF r = q THEN 0 ELSE 2]]

\* A chain of three ranks, with a short and a long link.
ChainDelay ==
    [r \in Ranks |-> [q \in Ranks |->
        IF {r, q} = {1, 2} THEN 1 ELSE IF {r, q} = {2, 3} THEN 2 ELSE 0]]
=============================================================================
