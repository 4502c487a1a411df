------------------------------- MODULE Timer -------------------------------
(***************************************************************************)
(* Timer (src/core/model/timer.cc): a function, a delay and the event that *)
(* is to call the function.  The timer knows its event by an EventId only; *)
(* the event stays in the list of the simulator until it is executed or    *)
(* withdrawn.  The simulator is the one of DefaultSimulator: an EventId is *)
(* expired exactly when its event is no longer pending.                    *)
(***************************************************************************)
EXTENDS Integers, FiniteSets

CONSTANTS
    Policies,      \* the DestroyPolicies a constructor is called with
    MaxDelay,      \* bound: largest delay
    MaxTime,       \* bound: simulated time
    MaxEvents      \* bound: events scheduled

ASSUME TimerAssumption ==
    /\ Policies \subseteq {"CANCEL_ON_DESTROY", "REMOVE_ON_DESTROY", "CHECK_ON_DESTROY"}
    /\ {MaxDelay, MaxTime, MaxEvents} \subseteq Nat

VARIABLES
    now,         \* Simulator::Now
    pending,     \* the timer's events in the list, not cancelled: [ts, uid]
    m_event,     \* uid of the EventId the timer holds, 0 for none
    policy,      \* the DestroyPolicy in m_flags
    suspended,   \* TIMER_SUSPENDED in m_flags
    m_delayLeft,
    uid,         \* the uid handed out last
    calls,       \* how often the function was called
    alive,       \* the Timer exists; "fatal" after NS_FATAL_ERROR
    foreseen     \* history: no call so far that timer.h does not foresee, which
                 \* are Schedule, Cancel and Remove of a suspended timer, and
                 \* Suspend under CHECK_ON_DESTROY

vars == <<now, pending, m_event, policy, suspended, m_delayLeft, uid, calls, alive,
          foreseen>>

Init ==
    /\ now = 0 /\ pending = {}
    /\ m_event = 0 /\ suspended = FALSE /\ m_delayLeft = 0
    /\ policy \in Policies
    /\ uid = 0 /\ calls = 0
    /\ alive = "yes" /\ foreseen = TRUE

\* m_event.IsRunning
EventRunning == \E e \in pending : e.uid = m_event
Current == CHOOSE e \in pending : e.uid = m_event

\* GetState
IsRunning == ~suspended /\ EventRunning

\* m_event.Cancel and m_event.Remove: nothing happens to an expired event.
Withdraw == pending' = {e \in pending : e.uid # m_event}

\* m_impl->Schedule: a new event, and m_event names it.
NewEvent(delay) ==
    /\ uid < MaxEvents
    /\ pending' = pending \cup {[ts |-> now + delay, uid |-> uid + 1]}
    /\ m_event' = uid + 1
    /\ uid' = uid + 1

\* Schedule dies when the event is still running.
Schedule(delay) ==
    /\ alive = "yes"
    /\ foreseen' = (foreseen /\ ~suspended)
    /\ \/ /\ EventRunning
          /\ alive' = "fatal"
          /\ UNCHANGED <<pending, m_event, uid>>
       \/ /\ ~EventRunning
          /\ NewEvent(delay)
          /\ UNCHANGED alive
    /\ UNCHANGED <<now, suspended, m_delayLeft, calls, policy>>

\* Mutant: the time left is the time since the event was due.
Suspend_Swapped ==
    /\ alive = "yes" /\ IsRunning
    /\ foreseen' = (foreseen /\ policy # "CHECK_ON_DESTROY")
    /\ m_delayLeft' = now - Current.ts
    /\ IF policy = "CHECK_ON_DESTROY" THEN UNCHANGED pending ELSE Withdraw
    /\ suspended' = TRUE
    /\ UNCHANGED <<now, m_event, uid, calls, alive, policy>>

\* Mutant: the event goes on under one of the policies.
Suspend_KeepEvent ==
    /\ alive = "yes" /\ IsRunning
    /\ foreseen' = (foreseen /\ policy # "CHECK_ON_DESTROY")
    /\ m_delayLeft' = Current.ts - now
    /\ IF policy = "REMOVE_ON_DESTROY" THEN Withdraw ELSE UNCHANGED pending
    /\ suspended' = TRUE
    /\ UNCHANGED <<now, m_event, uid, calls, alive, policy>>

\* Suspend withdraws the event under two of the three policies.
Suspend ==
    /\ alive = "yes" /\ IsRunning
    /\ foreseen' = (foreseen /\ policy # "CHECK_ON_DESTROY")
    /\ m_delayLeft' = Current.ts - now
    /\ IF policy = "CHECK_ON_DESTROY" THEN UNCHANGED pending ELSE Withdraw
    /\ suspended' = TRUE
    /\ UNCHANGED <<now, m_event, uid, calls, alive, policy>>

Resume ==
    /\ alive = "yes" /\ suspended
    /\ NewEvent(m_delayLeft)
    /\ suspended' = FALSE
    /\ UNCHANGED <<now, m_delayLeft, calls, alive, policy, foreseen>>

\* Cancel and Remove.
Cancel ==
    /\ alive = "yes"
    /\ foreseen' = (foreseen /\ ~suspended)
    /\ Withdraw
    /\ UNCHANGED <<now, m_event, suspended, m_delayLeft, uid, calls, alive, policy>>

\* The destructor.
Destroy ==
    /\ alive = "yes"
    /\ \/ /\ policy = "CHECK_ON_DESTROY"
          /\ alive' = IF EventRunning THEN "fatal" ELSE "no"
          /\ UNCHANGED pending
       \/ /\ policy # "CHECK_ON_DESTROY"
          /\ Withdraw
          /\ alive' = "no"
    /\ UNCHANGED <<now, m_event, suspended, m_delayLeft, uid, calls, policy, foreseen>>

\* The simulator executes an event that is due; it calls the function.
Invoke ==
    /\ alive # "fatal"
    /\ \E e \in pending :
          /\ e.ts = now
          /\ \A f \in pending : f.ts = now => e.uid <= f.uid
          /\ pending' = pending \ {e}
    /\ calls' = calls + 1
    /\ UNCHANGED <<now, m_event, suspended, m_delayLeft, uid, alive, policy, foreseen>>

\* The simulator goes on to a later event of something else.
Elapse ==
    /\ alive # "fatal" /\ now < MaxTime
    /\ \A e \in pending : e.ts > now
    /\ now' = now + 1
    /\ UNCHANGED <<pending, m_event, suspended, m_delayLeft, uid, calls, alive, policy, foreseen>>

Next ==
    \/ \E delay \in 0..MaxDelay : Schedule(delay)
    \/ Suspend \/ Resume \/ Cancel \/ Destroy \/ Invoke \/ Elapse

Spec == Init /\ [][Next]_vars

-----------------------------------------------------------------------------
(* Properties                                                              *)

\* The types of what the timer and the simulator keep.
TypeOK ==
    /\ now \in Nat /\ m_event \in Nat /\ m_delayLeft \in Nat /\ uid \in Nat
    /\ pending \subseteq [ts : Nat, uid : Nat]
    /\ suspended \in BOOLEAN /\ calls \in Nat
    /\ alive \in {"yes", "no", "fatal"}

\* A timer has one event at most, and it is the one it knows of ("Event is
\* still running while re-scheduling"), so that it can be cancelled; it has none
\* while it is suspended ("pause the timer") and none once its destructor has
\* returned.
OnlyItsEvent ==
    foreseen /\ pending # {} =>
        /\ \E e \in pending : pending = {e} /\ e.uid = m_event
        /\ ~suspended /\ alive # "no"

\* The timer as TimerContract sees it.
state == IF suspended THEN "SUSPENDED" ELSE IF EventRunning THEN "RUNNING" ELSE "EXPIRED"
left == IF suspended THEN m_delayLeft ELSE IF EventRunning THEN Current.ts - now ELSE 0

Contract == INSTANCE TimerContract

\* Until it is destroyed, the timer does what timer.h promises.
KeepsContract ==
    /\ Contract!Init
    /\ [][foreseen' /\ alive' = "yes" => Contract!Next \/ UNCHANGED Contract!vars]_vars
=============================================================================
