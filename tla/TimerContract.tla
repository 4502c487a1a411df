--------------------------- MODULE TimerContract ---------------------------
(***************************************************************************)
(* What the comments of src/core/model/timer.h promise of a Timer: it runs *)
(* down while it is RUNNING, keeps the time left while it is SUSPENDED,    *)
(* and calls its function once, at the instant it becomes EXPIRED.         *)
(***************************************************************************)
EXTENDS Naturals

CONSTANTS MaxDelay

VARIABLES
    state,   \* RUNNING, EXPIRED or SUSPENDED
    left,    \* time left until it expires, 0 when it is EXPIRED
    calls    \* how often the function was called

vars == <<state, left, calls>>

Init == state = "EXPIRED" /\ left = 0 /\ calls = 0

Schedule ==
    /\ state = "EXPIRED" /\ state' = "RUNNING"
    /\ left' \in 0..MaxDelay
    /\ UNCHANGED calls

Suspend ==
    /\ state = "RUNNING" /\ state' = "SUSPENDED"
    /\ UNCHANGED <<left, calls>>

Resume ==
    /\ state = "SUSPENDED" /\ state' = "RUNNING"
    /\ UNCHANGED <<left, calls>>

Cancel ==
    /\ state = "RUNNING" /\ state' = "EXPIRED"
    /\ left' = 0
    /\ UNCHANGED calls

\* Simulated time passes.
RunDown ==
    /\ state = "RUNNING" /\ left > 0
    /\ left' = left - 1
    /\ UNCHANGED <<state, calls>>

Expire ==
    /\ state = "RUNNING" /\ left = 0
    /\ state' = "EXPIRED"
    /\ calls' = calls + 1
    /\ UNCHANGED left

Next == Schedule \/ Suspend \/ Resume \/ Cancel \/ RunDown \/ Expire

Spec == Init /\ [][Next]_vars
=============================================================================
