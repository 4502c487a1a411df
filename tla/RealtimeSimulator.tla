------------------------- MODULE RealtimeSimulator -------------------------
(***************************************************************************)
(* RealtimeSimulatorImpl and WallClockSynchronizer (src/core): events are  *)
(* executed when the wall clock has reached their time stamp.  The main    *)
(* thread waits in the synchronizer for the first event to come due; other *)
(* threads, the readers of emulated devices for example, schedule events   *)
(* meanwhile and signal the synchronizer to make it wait anew.             *)
(*                                                                         *)
(* Every critical section of m_mutex is one action.  What the code reads   *)
(* or writes outside of it is a step of its own.                           *)
(***************************************************************************)
EXTENDS Integers, FiniteSets, FiniteSetsExt

CONSTANTS
    Threads,       \* the threads beside the main one
    Removers,      \* who calls Remove: "main" and threads
    Epoch,         \* the wall clock when the program starts
    NsPerSec,      \* time steps in a second of the wall clock
    Second,        \* the wait of an idle Run
    SleepMargin,   \* how much of a wait is spent spinning
    HardLimit,     \* the jitter that SYNC_HARD_LIMIT tolerates
    MaxTime,       \* bound: how long the wall clock is watched
    MaxDelay,      \* bound: largest delay of an event
    MaxEvents,     \* bound: events scheduled in all
    MaxRuns        \* bound: calls of Run

ASSUME RealtimeAssumption ==
    /\ {Epoch, NsPerSec, Second, SleepMargin, HardLimit, MaxTime, MaxDelay,
        MaxEvents, MaxRuns} \subseteq Nat
    /\ "main" \notin Threads /\ Removers \subseteq Threads \cup {"main"}

VARIABLES
    clock,                \* the wall clock
    m_realtimeOriginNano, \* what it showed when Run set the origin
    m_events,             \* pending events
    m_uid, m_unscheduledEvents,
    m_currentTs, m_currentUid,
    m_stop, m_running,
    m_synchronizationMode,
    m_condition,          \* of the synchronizer: somebody has signalled
    until,                \* the time Synchronize waits for
    deadline,             \* when SleepWait times out, as the wall clock
    issued,               \* EventIds that may be passed to Remove, not yet expired
    removing,             \* per thread: the EventId Remove found not expired
    removers,             \* history: who has removed an event
    late,                 \* history: Removes whose event was executed meanwhile
    runs,                 \* calls of Run so far
    pc                    \* where the main thread is

list == <<m_events, m_uid, m_unscheduledEvents>>
current == <<m_currentTs, m_currentUid>>
flags == <<m_stop, m_running, m_synchronizationMode>>
history == <<removers, late>>
wait == <<until, deadline>>
vars == <<clock, m_realtimeOriginNano, list, current, flags, m_condition, wait,
          issued, removing, history, runs, pc>>

None == [ts |-> 0, uid |-> 0]

KeyBefore(a, b) == a.ts < b.ts \/ (a.ts = b.ts /\ a.uid < b.uid)

PeekNext == CHOOSE e \in m_events : \A f \in m_events \ {e} : KeyBefore(e, f)

\* GetNormalizedRealtime; SetOrigin's simulation time plays no part in it.
Realtime == clock - m_realtimeOriginNano

IsExpired(e) ==
    \/ e.ts < m_currentTs
    \/ e.ts = m_currentTs /\ e.uid <= m_currentUid

Init ==
    /\ clock = Epoch
    /\ m_realtimeOriginNano = 0
    /\ m_events = {} /\ m_uid = 4 /\ m_unscheduledEvents = 0
    /\ m_currentTs = 0 /\ m_currentUid = 0
    /\ m_stop = FALSE /\ m_running = FALSE
    /\ m_synchronizationMode \in {"SYNC_BEST_EFFORT", "SYNC_HARD_LIMIT"}
    /\ m_condition = FALSE
    /\ until = 0 /\ deadline = 0
    /\ issued = {}
    /\ removing = [t \in Threads |-> None]
    /\ removers = {} /\ late = 0
    /\ runs = 0
    /\ pc = "outside"

\* The wall clock moves on by itself.
Tick ==
    /\ IF m_realtimeOriginNano = 0 THEN clock = Epoch ELSE Realtime < MaxTime
    /\ clock' = clock + 1
    /\ UNCHANGED <<m_realtimeOriginNano, list, current, flags, m_condition, wait,
                   issued, removing, history, runs, pc>>

-----------------------------------------------------------------------------
(* Scheduling, each in one critical section.                               *)

\* Mutant: an event is inserted without waking the main thread.
InsertEvent_NoSignal(ts) ==
    /\ m_uid < 4 + MaxEvents
    /\ ts <= MaxTime \/ m_realtimeOriginNano = 0
    /\ m_events' = m_events \cup {[ts |-> ts, uid |-> m_uid]}
    /\ m_uid' = m_uid + 1
    /\ m_unscheduledEvents' = m_unscheduledEvents + 1
    /\ UNCHANGED m_condition

\* What the Schedule functions share, with the time stamp each computes.  The
\* last line is Signal of the synchronizer.
InsertEvent(ts) ==
    /\ m_uid < 4 + MaxEvents
    /\ ts <= MaxTime \/ m_realtimeOriginNano = 0
    /\ m_events' = m_events \cup {[ts |-> ts, uid |-> m_uid]}
    /\ m_uid' = m_uid + 1
    /\ m_unscheduledEvents' = m_unscheduledEvents + 1
    /\ m_condition' = TRUE

\* Schedule and ScheduleNow, by the main thread, and ScheduleWithContext if it
\* is the main thread that calls it.
Schedule(delay) ==
    /\ pc \in {"outside", "handler"}
    /\ InsertEvent(m_currentTs + delay)
    /\ issued' = issued \cup (m_events' \ m_events)
    /\ UNCHANGED <<clock, m_realtimeOriginNano, current, flags, wait, removing, history, runs, pc>>

\* A thread is started by an event and may outlive Run.
ThreadRuns(t) == removing[t] = None /\ m_realtimeOriginNano # 0

\* ScheduleWithContext by another thread, and ScheduleRealtimeNowWithContext
\* when delay is 0.
ScheduleWithContext(t, delay) ==
    /\ ThreadRuns(t)
    /\ InsertEvent((IF m_running THEN Realtime ELSE m_currentTs) + delay)
    /\ UNCHANGED <<clock, m_realtimeOriginNano, current, flags, wait, issued,
                   removing, history, runs, pc>>

\* ScheduleRealtimeWithContext asks the synchronizer whether or not it runs.
ScheduleRealtimeWithContext(t, delay) ==
    /\ ThreadRuns(t)
    /\ InsertEvent(Realtime + delay)
    /\ UNCHANGED <<clock, m_realtimeOriginNano, current, flags, wait, issued,
                   removing, history, runs, pc>>

Stop ==
    /\ pc = "handler"
    /\ m_stop' = TRUE
    /\ UNCHANGED <<clock, m_realtimeOriginNano, list, current, m_running, m_synchronizationMode,
                   m_condition, wait, issued, removing, history, runs, pc>>

\* Mutant: Remove forgets to count.
TakeOut_NotCounted(e) ==
    /\ m_events' = m_events \ {e}
    /\ issued' = issued \ {e}
    /\ late' = late + Cardinality({e} \ m_events)
    /\ UNCHANGED m_unscheduledEvents

\* The critical section of Remove.  The event may have been executed since it
\* was tested: the list then asserts, or else has nothing to remove.
TakeOut(e) ==
    /\ m_events' = m_events \ {e}
    /\ m_unscheduledEvents' = m_unscheduledEvents - 1
    /\ issued' = issued \ {e}
    /\ late' = late + Cardinality({e} \ m_events)

\* Remove by the main thread, which executes nothing meanwhile.
Remove(e) ==
    /\ pc \in {"outside", "handler"} /\ "main" \in Removers
    /\ ~IsExpired(e)
    /\ TakeOut(e)
    /\ removers' = removers \cup {"main"}
    /\ UNCHANGED <<clock, m_realtimeOriginNano, m_uid, current, flags,
                   m_condition, wait, removing, runs, pc>>

\* Remove by another thread tests IsExpired before it takes the mutex ...
RemoveTest(t, e) ==
    /\ t \in Removers /\ ThreadRuns(t)
    /\ ~IsExpired(e)
    /\ removing' = [removing EXCEPT ![t] = e]
    /\ UNCHANGED <<clock, m_realtimeOriginNano, list, current, flags,
                   m_condition, wait, issued, history, runs, pc>>

\* ... and removes the event whatever has become of it.
RemoveLocked(t) ==
    /\ removing[t] # None
    /\ TakeOut(removing[t])
    /\ removing' = [removing EXCEPT ![t] = None]
    /\ removers' = removers \cup {t}
    /\ UNCHANGED <<clock, m_realtimeOriginNano, m_uid, current, flags,
                   m_condition, wait, runs, pc>>

-----------------------------------------------------------------------------
(* Run and ProcessOneEvent, by the main thread.                            *)

\* Run: m_stop and m_running are set outside of the critical section ...
RunStarts ==
    /\ pc = "outside" /\ runs < MaxRuns
    /\ m_stop' = FALSE /\ m_running' = TRUE
    /\ runs' = runs + 1
    /\ pc' = "origin"
    /\ UNCHANGED <<clock, m_realtimeOriginNano, list, current, m_synchronizationMode,
                   m_condition, wait, issued, removing, history>>

\* ... and so is the origin of the synchronizer.
SetOrigin ==
    /\ pc = "origin"
    /\ m_realtimeOriginNano' = clock
    /\ pc' = "loop"
    /\ UNCHANGED <<clock, list, current, flags, m_condition, wait, issued,
                   removing, history, runs>>

\* The loop looks for an event; without one it waits for a second.
Look ==
    /\ pc = "loop" /\ ~m_stop
    /\ \/ m_events # {} /\ pc' = "pace" /\ UNCHANGED until
       \/ m_events = {} /\ pc' = "idle" /\ until' = Realtime + Second
    /\ UNCHANGED <<clock, m_realtimeOriginNano, list, current, flags, m_condition,
                   deadline, issued, removing, history, runs>>

RunReturns ==
    /\ pc = "loop" /\ m_stop
    /\ m_running' = FALSE
    /\ pc' = "outside"
    /\ UNCHANGED <<clock, m_realtimeOriginNano, list, current, m_stop,
                   m_synchronizationMode, m_condition, wait, issued, removing, history, runs>>

\* Mutant: the condition is left as it is.
Pace_NoReset ==
    /\ pc = "pace" /\ m_events # {}
    /\ until' = Max({PeekNext.ts, Realtime})
    /\ pc' = "sync"
    /\ UNCHANGED <<clock, m_realtimeOriginNano, list, current, flags, m_condition,
                   deadline, issued, removing, history, runs>>

\* The first critical section of ProcessOneEvent: how long to wait, and from
\* now on a signal counts.  NextTs asserts that there is an event.
Pace ==
    /\ pc = "pace" /\ m_events # {}
    /\ until' = Max({PeekNext.ts, Realtime})
    /\ m_condition' = FALSE
    /\ pc' = "sync"
    /\ UNCHANGED <<clock, m_realtimeOriginNano, list, current, flags, deadline,
                   issued, removing, history, runs>>

\* The labels of a wait for an event and of the wait of an idle Run.
Waits == {[at |-> "sync", asleep |-> "asleep", spin |-> "spin",
           done |-> "take", interrupted |-> "pace"],
          [at |-> "idle", asleep |-> "idle asleep", spin |-> "idle spin",
           done |-> "loop", interrupted |-> "loop"]}

\* pthread_cond_timedwait never times out: it refuses the time of day.
Never == -1

\* The time of day at which TimedWait gives up.  Nanoseconds that add up to
\* exactly one second are not carried over to the seconds.
TimedWait(ns) ==
    IF (clock % NsPerSec) + (ns % NsPerSec) = NsPerSec THEN Never ELSE clock + ns

\* DoSynchronize and DriftCorrect: what is left of the delay, less a margin,
\* is slept; a short rest goes to SpinWait at once.
Synchronize(w) ==
    LET left == Max({0, until - Realtime})
    IN /\ pc = w.at
       /\ \/ /\ left > SleepMargin
             /\ deadline' = TimedWait(left - SleepMargin)
             /\ pc' = w.asleep
          \/ /\ left <= SleepMargin
             /\ pc' = w.spin
             /\ UNCHANGED deadline
       /\ UNCHANGED <<clock, m_realtimeOriginNano, list, current, flags, m_condition,
                      until, issued, removing, history, runs>>

\* SleepWait ends by time-out, or because of a signal; a signal ends the wait.
Wake(w) ==
    /\ pc = w.asleep
    /\ \/ /\ ~m_condition /\ deadline # Never /\ clock >= deadline
          /\ pc' = w.spin
          /\ UNCHANGED until
       \/ m_condition /\ pc' = w.interrupted /\ until' = 0
    /\ deadline' = 0
    /\ UNCHANGED <<clock, m_realtimeOriginNano, list, current, flags, m_condition,
                   issued, removing, history, runs>>

\* Mutant: SpinWait gives up one time step early.
SpinWait_Early(w) ==
    /\ pc = w.spin
    /\ \/ Realtime + 1 >= until /\ pc' = w.done
       \/ Realtime + 1 < until /\ m_condition /\ pc' = w.interrupted
    /\ until' = 0 /\ deadline' = 0
    /\ UNCHANGED <<clock, m_realtimeOriginNano, list, current, flags, m_condition,
                   issued, removing, history, runs>>

\* SpinWait looks at the clock first, then at the condition.
SpinWait(w) ==
    /\ pc = w.spin
    /\ \/ Realtime >= until /\ pc' = w.done
       \/ Realtime < until /\ m_condition /\ pc' = w.interrupted
    /\ until' = 0 /\ deadline' = 0
    /\ UNCHANGED <<clock, m_realtimeOriginNano, list, current, flags, m_condition,
                   issued, removing, history, runs>>

Jitter(ts) == Max({Realtime - ts, ts - Realtime})

\* The second critical section of ProcessOneEvent: the event at the head of
\* the list, whichever it is by now, becomes the current one.
Take ==
    /\ pc = "take" /\ m_events # {}
    /\ m_events' = m_events \ {PeekNext}
    /\ m_unscheduledEvents' = m_unscheduledEvents - 1
    /\ m_currentTs' = PeekNext.ts
    /\ m_currentUid' = PeekNext.uid
    /\ pc' = IF m_synchronizationMode = "SYNC_HARD_LIMIT" /\ Jitter(PeekNext.ts) > HardLimit
             THEN "fatal" ELSE "handler"
    /\ issued' = issued \ {PeekNext}
    /\ UNCHANGED <<clock, m_realtimeOriginNano, m_uid, flags, m_condition, wait,
                   removing, history, runs>>

HandlerReturns ==
    /\ pc = "handler"
    /\ pc' = "loop"
    /\ UNCHANGED <<clock, m_realtimeOriginNano, list, current, flags, m_condition,
                   wait, issued, removing, history, runs>>

Engine ==
    \/ RunStarts \/ SetOrigin \/ Look \/ RunReturns \/ Pace \/ Take \/ HandlerReturns
    \/ \E w \in Waits : Synchronize(w) \/ Wake(w) \/ SpinWait(w)

ModelCode ==
    \/ \E delay \in 0..MaxDelay : Schedule(delay)
    \/ \E e \in issued : Remove(e)
    \/ Stop

Thread(t) ==
    \/ \E delay \in 0..MaxDelay :
          ScheduleWithContext(t, delay) \/ ScheduleRealtimeWithContext(t, delay)
    \/ \E e \in issued : RemoveTest(t, e)
    \/ RemoveLocked(t)

Next == Tick \/ Engine \/ ModelCode \/ \E t \in Threads : Thread(t)

Spec == Init /\ [][Next]_vars

\* The wall clock moves and the main thread goes on when it can.
FairSpec == Spec /\ WF_vars(Tick) /\ WF_vars(Engine)

-----------------------------------------------------------------------------
(* Properties                                                              *)

\* "What we can be sure of is that it is time to execute whatever event is at
\* the head of this list" (ProcessOneEvent): no event is executed before the
\* wall clock has reached its time stamp, as long as no other thread removes
\* the event that the main thread is waiting for.  Nor, as the assertions of
\* the Schedule functions and of ProcessOneEvent say, does any pending event,
\* whoever scheduled it, lie before the one executed last.  A second Run starts
\* real time anew at 0 while simulated time goes on, so that all of this holds
\* of the first one.
InTime ==
    removers \subseteq {"main"} /\ runs <= 1 =>
        /\ pc = "handler" => m_currentTs <= Realtime
        /\ \A e \in m_events : e.ts >= m_currentTs

\* No wake-up is lost: when the main thread waits longer than it should,
\* because an event was inserted behind its back, somebody has signalled.
NoLostWakeup ==
    /\ pc \in {"sync", "asleep", "spin"} =>
          \A e \in m_events : e.ts < until /\ Realtime < until => m_condition
    /\ pc \in {"idle", "idle asleep", "idle spin"} =>
          (m_events # {} => m_condition)

\* An idle Run really sleeps ("Sleep until signalled"): while the list is empty
\* no stale signal keeps the loop spinning, unless Remove emptied the list.
IdleSleeps ==
    pc \in {"idle", "idle asleep", "idle spin"} /\ m_events = {} /\ removers = {}
        => ~m_condition

\* The counter behind the consistency test at the end of Run agrees with the
\* list, but for the Removes that lost the race with the main thread.
UnscheduledExact == m_unscheduledEvents = Cardinality(m_events) - late

\* A pending event is executed in the end, however often other threads
\* interrupt the wait for it, unless the simulation stops, dies of its hard
\* limit or waits for a time of day that pthread_cond_timedwait refuses.
PendingExecuted ==
    \A u \in 4..(3 + MaxEvents) :
        (m_running /\ \E e \in m_events : e.uid = u)
            ~> (m_stop \/ pc = "fatal" \/ deadline = Never \/ ~\E e \in m_events : e.uid = u)
=============================================================================
