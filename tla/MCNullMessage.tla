---------------------------- MODULE MCNullMessage ----------------------------
(* Small topologies for NullMessage.                                       *)
EXTENDS NullMessage

\* Every channel joins ranks 1 and 2; a further rank is on its own.
PairEnds == [c \in Channels |-> {1, 2}]
PairDelay == [c \in Channels |-> 2]
LongDelay == [c \in Channels |-> 5]

\* Stop is called with the same delay on every rank.
StopFour == [r \in Ranks |-> 4]
StopSix == [r \in Ranks |-> 6]
=============================================================================
