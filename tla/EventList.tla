----------------------------- MODULE EventList -----------------------------
(***************************************************************************)
(* What every ns-3 event engine promises, whatever data structure holds    *)
(* its pending events: an agenda of items that are executed one at a time, *)
(* earliest time stamp first and, for equal time stamps, first inserted    *)
(* first; simulated time never runs backwards.  The contract is the one    *)
(* of src/core/model/scheduler.h and of the class comment of Simulator.    *)
(***************************************************************************)
EXTENDS Naturals

VARIABLES
    agenda,   \* pending items [ts, seq]; seq numbers items in insertion order
    now,      \* time stamp of the item executed last
    last,     \* the seq handed out last
    fired     \* how many items have been executed

vars == <<agenda, now, last, fired>>

\* a is due before b: by time stamp, then first in, first out.
Before(a, b) == a.ts < b.ts \/ (a.ts = b.ts /\ a.seq < b.seq)

Init ==
    /\ agenda = {}
    /\ now = 0
    /\ last \in Nat
    /\ fired = 0

\* Any number of new items, none of them in the past.
Insert ==
    /\ agenda \subseteq agenda'
    /\ last' \in Nat /\ last <= last'
    /\ \A n \in agenda' \ agenda : n.ts >= now /\ last < n.seq /\ n.seq <= last'
    /\ UNCHANGED <<now, fired>>

\* Items taken back before they were due; nothing is executed.
Drop ==
    /\ agenda' \subseteq agenda
    /\ UNCHANGED <<now, last, fired>>

\* The item that is due first is executed.
Fire ==
    /\ \E e \in agenda :
          /\ \A f \in agenda \ {e} : Before(e, f)
          /\ agenda' = agenda \ {e}
          /\ now' = e.ts
    /\ fired' = fired + 1
    /\ UNCHANGED last

Next == Insert \/ Drop \/ Fire

Spec == Init /\ [][Next]_vars
=============================================================================
