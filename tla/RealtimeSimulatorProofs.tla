----------------------- MODULE RealtimeSimulatorProofs -----------------------
(***************************************************************************)
(* Proofs about the real-time engine, for any number of threads, events    *)
(* and runs and any length of a second, of the spinning margin and of the  *)
(* hard limit.                                                             *)
(***************************************************************************)
EXTENDS RealtimeSimulator, DataFacts

Places == {"outside", "origin", "loop", "pace", "take", "handler", "fatal",
           "sync", "asleep", "spin", "idle", "idle asleep", "idle spin"}

\* What every proof needs to know of the state.
TypeInv ==
    /\ clock \in Nat /\ m_realtimeOriginNano \in Nat
    /\ m_realtimeOriginNano <= clock
    /\ m_uid \in Nat /\ m_unscheduledEvents \in Int
    /\ m_currentTs \in Int /\ until \in Int /\ runs \in Nat /\ late \in Int
    /\ pc \in Places

\* The list is finite, and the uid tells its events apart.
ListInv ==
    /\ IsFiniteSet(m_events)
    /\ \A e \in m_events : e.ts \in Int /\ e.uid \in Int /\ e.uid < m_uid
    /\ \A e, f \in m_events : e # f => e.uid # f.uid

Inv == TypeInv /\ ListInv

\* What the assumption says of the constants.
LEMMA Constants ==
    /\ Epoch \in Nat /\ Second \in Nat /\ SleepMargin \in Nat /\ MaxDelay \in Nat
    /\ MaxEvents \in Nat
BY RealtimeAssumption

\* The two kinds of waits have labels of their own.
LEMMA WaitLabels ==
    ASSUME NEW w \in Waits
    PROVE  \/ /\ w.at = "sync" /\ w.asleep = "asleep" /\ w.spin = "spin"
              /\ w.done = "take" /\ w.interrupted = "pace"
           \/ /\ w.at = "idle" /\ w.asleep = "idle asleep" /\ w.spin = "idle spin"
              /\ w.done = "loop" /\ w.interrupted = "loop"
<1>1. CASE w = [at |-> "sync", asleep |-> "asleep", spin |-> "spin",
                done |-> "take", interrupted |-> "pace"]
    BY <1>1
<1>2. CASE w = [at |-> "idle", asleep |-> "idle asleep", spin |-> "idle spin",
                done |-> "loop", interrupted |-> "loop"]
    BY <1>2
<1> QED  BY <1>1, <1>2 DEF Waits

\* PeekNext is an event of the list, and none is earlier.
LEMMA PeekNextFirst ==
    ASSUME ListInv, m_events # {}
    PROVE  /\ PeekNext \in m_events
           /\ \A e \in m_events : PeekNext.ts <= e.ts
<1>1. \E e \in m_events : \A f \in m_events \ {e} : KeyBefore(e, f)
    BY FirstByKey DEF ListInv, KeyBefore
<1>2. PeekNext \in m_events /\ \A f \in m_events \ {PeekNext} : KeyBefore(PeekNext, f)
    BY <1>1 DEF PeekNext
<1> QED  BY <1>2 DEF ListInv, KeyBefore

\* The greater of two numbers.
LEMMA MaxOfTwo ==
    ASSUME NEW a \in Int, NEW b \in Int
    PROVE  Max({a, b}) \in Int /\ Max({a, b}) >= a /\ Max({a, b}) >= b
           /\ Max({a, b}) \in {a, b}
<1>1. \E x \in {a, b} : \A y \in {a, b} : x >= y
    OBVIOUS
<1> QED  BY <1>1 DEF Max

\* What a critical section that inserts an event does to the list.
LEMMA InsertEventList ==
    ASSUME Inv, NEW ts \in Int, InsertEvent(ts)
    PROVE  /\ ListInv' /\ m_uid' \in Nat /\ m_unscheduledEvents' = m_unscheduledEvents + 1
           /\ m_condition' = TRUE
           /\ \E e : /\ e \notin m_events /\ m_events' = m_events \cup {e} /\ e.ts = ts
           /\ Cardinality(m_events') = Cardinality(m_events) + 1
<1> DEFINE e == [ts |-> ts, uid |-> m_uid]
<1>1. m_events' = m_events \cup {e} /\ m_uid' = m_uid + 1 /\ m_condition' = TRUE
      /\ m_unscheduledEvents' = m_unscheduledEvents + 1
    BY DEF InsertEvent
<1>2. e \notin m_events
    BY DEF Inv, TypeInv, ListInv
<1>3. IsFiniteSet(m_events') /\ Cardinality(m_events') = Cardinality(m_events) + 1
    BY <1>1, <1>2, FS_AddElement DEF Inv, ListInv
<1>4. ListInv'
    BY <1>1, <1>3 DEF Inv, TypeInv, ListInv
<1> QED  BY <1>1, <1>2, <1>3, <1>4 DEF Inv, TypeInv

\* What taking an event out does to it, whether or not it is there.
LEMMA SmallerList ==
    ASSUME Inv, NEW e, m_events' = m_events \ {e}, m_uid' = m_uid
    PROVE  /\ ListInv'
           /\ Cardinality(m_events') + Cardinality({e} \cap m_events)
                  = Cardinality(m_events)
           /\ Cardinality({e} \cap m_events) + Cardinality({e} \ m_events) = 1
           /\ Cardinality({e} \cap m_events) \in Int /\ Cardinality({e} \ m_events) \in Int
<1>1. IsFiniteSet(m_events') /\ Cardinality(m_events') =
          IF e \in m_events THEN Cardinality(m_events) - 1 ELSE Cardinality(m_events)
    BY FS_RemoveElement DEF Inv, ListInv
<1>2. ListInv'
    BY <1>1 DEF Inv, ListInv
<1>3. Cardinality({e}) = 1 /\ Cardinality({}) = 0 /\ Cardinality(m_events) \in Nat
    BY FS_Singleton, FS_EmptySet, FS_CardinalityType DEF Inv, ListInv
<1>4. CASE e \in m_events
  <2>1. {e} \cap m_events = {e} /\ {e} \ m_events = {}
      BY <1>4
  <2>2. Cardinality({e} \cap m_events) = 1 /\ Cardinality({e} \ m_events) = 0
      BY <1>3, <2>1
  <2> QED  BY <1>1, <1>2, <1>3, <1>4, <2>2
<1>5. CASE e \notin m_events
  <2>1. {e} \cap m_events = {} /\ {e} \ m_events = {e}
      BY <1>5
  <2>2. Cardinality({e} \cap m_events) = 0 /\ Cardinality({e} \ m_events) = 1
      BY <1>3, <2>1
  <2> QED  BY <1>1, <1>2, <1>3, <1>5, <2>2
<1> QED  BY <1>4, <1>5

-----------------------------------------------------------------------------
(* Types and the list.                                                     *)

\* The time stamps that the Schedule functions compute are numbers.
LEMMA ScheduledTimes ==
    ASSUME TypeInv, NEW delay \in 0..MaxDelay
    PROVE  /\ Realtime \in Nat /\ m_currentTs + delay \in Int
           /\ Realtime + delay \in Int
           /\ (IF m_running THEN Realtime ELSE m_currentTs) + delay \in Int
BY Constants DEF TypeInv, Realtime

\* A step that leaves the list alone.
LEMMA SameList ==
    ASSUME ListInv, m_events' = m_events, m_uid' = m_uid
    PROVE  ListInv'
BY DEF ListInv

\* The engine starts with its types.
LEMMA InitInv == Init => Inv
<1> SUFFICES ASSUME Init PROVE Inv
    OBVIOUS
<1>1. TypeInv
    BY Constants DEF Init, TypeInv, Places
<1>2. ListInv
    BY FS_EmptySet DEF Init, ListInv
<1> QED  BY <1>1, <1>2 DEF Inv

\* Every step keeps the types and the keys.
LEMMA NextInv == Inv /\ [Next]_vars => Inv'
<1> SUFFICES ASSUME Inv, [Next]_vars PROVE Inv'
    OBVIOUS
<1> USE Constants DEF list, current, flags, history, wait
<1>1. CASE Tick
    BY <1>1 DEF Tick, Inv, TypeInv, ListInv
<1>2. ASSUME NEW delay \in 0..MaxDelay, Schedule(delay) PROVE Inv'
  <2>1. PICK ts \in Int : InsertEvent(ts)
      BY <1>2, ScheduledTimes DEF Schedule, Inv
  <2>2. ListInv' /\ m_uid' \in Nat /\ m_unscheduledEvents' = m_unscheduledEvents + 1
        /\ m_condition' = TRUE
      BY <2>1, InsertEventList
  <2> QED  BY <1>2, <2>2 DEF Schedule, Inv, TypeInv
<1>3. ASSUME NEW t \in Threads, NEW delay \in 0..MaxDelay,
             ScheduleWithContext(t, delay) \/ ScheduleRealtimeWithContext(t, delay)
      PROVE  Inv'
  <2>1. PICK ts \in Int : InsertEvent(ts)
      BY <1>3, ScheduledTimes DEF ScheduleWithContext, ScheduleRealtimeWithContext, Inv
  <2>2. ListInv' /\ m_uid' \in Nat /\ m_unscheduledEvents' = m_unscheduledEvents + 1
        /\ m_condition' = TRUE
      BY <2>1, InsertEventList
  <2> QED  BY <1>3, <2>2 DEF ScheduleWithContext, ScheduleRealtimeWithContext, Inv, TypeInv
<1>4. CASE Stop
    BY <1>4 DEF Stop, Inv, TypeInv, ListInv
<1>5. ASSUME NEW e, Remove(e) PROVE Inv'
  <2>1. m_events' = m_events \ {e} /\ m_uid' = m_uid
        /\ m_unscheduledEvents' = m_unscheduledEvents - 1
        /\ late' = late + Cardinality({e} \ m_events)
      BY <1>5 DEF Remove, TakeOut
  <2>2. ListInv' /\ Cardinality({e} \ m_events) \in Int
      BY <2>1, SmallerList
  <2> QED  BY <1>5, <2>1, <2>2 DEF Remove, Inv, TypeInv
<1>6. ASSUME NEW t \in Threads, NEW e, RemoveTest(t, e) PROVE Inv'
    BY <1>6 DEF RemoveTest, Inv, TypeInv, ListInv
<1>7. ASSUME NEW t \in Threads, RemoveLocked(t) PROVE Inv'
  <2>1. m_events' = m_events \ {removing[t]} /\ m_uid' = m_uid
        /\ m_unscheduledEvents' = m_unscheduledEvents - 1
        /\ late' = late + Cardinality({removing[t]} \ m_events)
      BY <1>7 DEF RemoveLocked, TakeOut
  <2>2. ListInv' /\ Cardinality({removing[t]} \ m_events) \in Int
      BY <2>1, SmallerList
  <2> QED  BY <1>7, <2>1, <2>2 DEF RemoveLocked, Inv, TypeInv
<1>8. CASE RunStarts \/ SetOrigin \/ RunReturns \/ HandlerReturns
  <2>1. ListInv'
      BY <1>8, SameList DEF RunStarts, SetOrigin, RunReturns, HandlerReturns, Inv
  <2>2. CASE RunStarts
      BY <2>1, <2>2 DEF RunStarts, Inv, TypeInv, Places
  <2>3. CASE SetOrigin
      BY <2>1, <2>3 DEF SetOrigin, Inv, TypeInv, Places
  <2>4. CASE RunReturns \/ HandlerReturns
      BY <2>1, <2>4 DEF RunReturns, HandlerReturns, Inv, TypeInv, Places
  <2> QED  BY <1>8, <2>2, <2>3, <2>4
<1>9. CASE Look
  <2>1. ListInv'
      BY <1>9, SameList DEF Look, Inv
  <2>2. Realtime + Second \in Int
      BY DEF Inv, TypeInv, Realtime
  <2> QED  BY <1>9, <2>1, <2>2 DEF Look, Inv, TypeInv, Places
<1>10. CASE Pace
  <2>1. Max({PeekNext.ts, Realtime}) \in Int
    <3>1. PeekNext.ts \in Int
        BY <1>10, PeekNextFirst DEF Pace, Inv, ListInv
    <3>2. Realtime \in Int
        BY DEF Inv, TypeInv, Realtime
    <3> QED  BY <3>1, <3>2, MaxOfTwo
  <2> QED  BY <1>10, <2>1 DEF Pace, Inv, TypeInv, ListInv, Places
<1>11. CASE Take
  <2>1. PeekNext \in m_events /\ PeekNext.ts \in Int
      BY <1>11, PeekNextFirst DEF Take, Inv, ListInv
  <2>2. ListInv'
      BY <1>11, SmallerList DEF Take
  <2> QED  BY <1>11, <2>1, <2>2 DEF Take, Inv, TypeInv, Places
<1>12. ASSUME NEW w \in Waits, Synchronize(w) \/ Wake(w) \/ SpinWait(w) PROVE Inv'
  <2>1. /\ {w.at, w.asleep, w.spin, w.done, w.interrupted} \subseteq Places
      BY WaitLabels DEF Places
  <2>2. CASE Synchronize(w)
      BY <2>1, <2>2 DEF Synchronize, Inv, TypeInv, ListInv
  <2>3. CASE Wake(w)
      BY <2>1, <2>3 DEF Wake, Inv, TypeInv, ListInv
  <2>4. CASE SpinWait(w)
      BY <2>1, <2>4 DEF SpinWait, Inv, TypeInv, ListInv
  <2> QED  BY <1>12, <2>2, <2>3, <2>4
<1>13. CASE UNCHANGED vars
    BY <1>13 DEF vars, Inv, TypeInv, ListInv
<1> QED  BY <1>1, <1>2, <1>3, <1>4, <1>5, <1>6, <1>7, <1>8, <1>9, <1>10, <1>11, <1>12, <1>13
         DEF Next, Engine, ModelCode, Thread

\* The state has its types, and the uids tell the pending events apart, in
\* whatever order the threads insert and remove.
THEOREM TypeCorrect == Spec => []Inv
BY InitInv, NextInv, PTL DEF Spec

-----------------------------------------------------------------------------
(* The counter.                                                            *)

\* Every critical section moves the counter, the list and the number of
\* Removes that came too late together.
LEMMA NextUnscheduled == Inv /\ UnscheduledExact /\ [Next]_vars => UnscheduledExact'
<1> SUFFICES ASSUME Inv, UnscheduledExact, [Next]_vars PROVE UnscheduledExact'
    OBVIOUS
<1> USE DEF list, current, flags, history, wait
<1>1. Cardinality(m_events) \in Nat /\ late \in Int /\ m_unscheduledEvents \in Int
    BY FS_CardinalityType DEF Inv, ListInv, TypeInv
<1>2. ASSUME NEW ts \in Int, InsertEvent(ts), late' = late PROVE UnscheduledExact'
  <2>1. /\ m_unscheduledEvents' = m_unscheduledEvents + 1
        /\ Cardinality(m_events') = Cardinality(m_events) + 1
      BY <1>2, InsertEventList
  <2> QED  BY <1>1, <1>2, <2>1 DEF UnscheduledExact
<1>3. ASSUME NEW e, TakeOut(e), m_uid' = m_uid PROVE UnscheduledExact'
  <2>1. /\ m_unscheduledEvents' = m_unscheduledEvents - 1
        /\ late' = late + Cardinality({e} \ m_events)
        /\ m_events' = m_events \ {e}
      BY <1>3 DEF TakeOut
  <2>2. /\ Cardinality(m_events') + Cardinality({e} \cap m_events)
                  = Cardinality(m_events)
        /\ Cardinality({e} \cap m_events) + Cardinality({e} \ m_events) = 1
        /\ Cardinality({e} \cap m_events) \in Int /\ Cardinality({e} \ m_events) \in Int
      BY <1>3, <2>1, SmallerList
  <2>3. Cardinality(m_events') \in Nat
      BY <1>3, <2>1, SmallerList, FS_CardinalityType DEF ListInv
  <2> QED  BY <1>1, <2>1, <2>2, <2>3 DEF UnscheduledExact
<1>4. CASE Take
  <2>1. PeekNext \in m_events
      BY <1>4, PeekNextFirst DEF Take, Inv
  <2>2. m_events' = m_events \ {PeekNext}
        /\ m_unscheduledEvents' = m_unscheduledEvents - 1 /\ late' = late
      BY <1>4 DEF Take
  <2>3. Cardinality(m_events') = Cardinality(m_events) - 1
      BY <2>1, <2>2, FS_RemoveElement DEF Inv, ListInv
  <2> QED  BY <1>1, <2>2, <2>3 DEF UnscheduledExact
<1>5. ASSUME NEW delay \in 0..MaxDelay, Schedule(delay) PROVE UnscheduledExact'
  <2>1. \E ts \in Int : InsertEvent(ts)
      BY <1>5, ScheduledTimes DEF Schedule, Inv
  <2> QED  BY <1>2, <1>5, <2>1 DEF Schedule
<1>6. ASSUME NEW t \in Threads, NEW delay \in 0..MaxDelay,
             ScheduleWithContext(t, delay) \/ ScheduleRealtimeWithContext(t, delay)
      PROVE  UnscheduledExact'
  <2>1. \E ts \in Int : InsertEvent(ts)
      BY <1>6, ScheduledTimes DEF ScheduleWithContext, ScheduleRealtimeWithContext, Inv
  <2> QED  BY <1>2, <1>6, <2>1 DEF ScheduleWithContext, ScheduleRealtimeWithContext
<1>7. ASSUME NEW e, Remove(e) PROVE UnscheduledExact'
    BY <1>3, <1>7 DEF Remove
<1>8. ASSUME NEW t \in Threads, RemoveLocked(t) PROVE UnscheduledExact'
    BY <1>3, <1>8 DEF RemoveLocked
<1>9. CASE UNCHANGED <<m_events, m_unscheduledEvents, late>>
    BY <1>9 DEF UnscheduledExact
<1>10. ASSUME NEW t \in Threads, NEW e, RemoveTest(t, e) PROVE UnscheduledExact'
    BY <1>9, <1>10 DEF RemoveTest
<1>11. ASSUME NEW w \in Waits, Synchronize(w) \/ Wake(w) \/ SpinWait(w)
       PROVE  UnscheduledExact'
    BY <1>9, <1>11 DEF Synchronize, Wake, SpinWait
<1>12. CASE Tick \/ Stop \/ RunStarts \/ SetOrigin \/ Look \/ RunReturns \/ Pace
            \/ HandlerReturns \/ UNCHANGED vars
    BY <1>9, <1>12 DEF Tick, Stop, RunStarts, SetOrigin, Look, RunReturns, Pace,
                       HandlerReturns, vars
<1> QED  BY <1>4, <1>5, <1>6, <1>7, <1>8, <1>10, <1>11, <1>12
         DEF Next, Engine, ModelCode, Thread

\* m_unscheduledEvents counts the pending events exactly, but for the Removes
\* that lost the race with ProcessOneEvent, whatever the number of threads.
THEOREM CounterExact == Spec => []UnscheduledExact
<1>1. Init => UnscheduledExact
    BY FS_EmptySet DEF Init, UnscheduledExact
<1> QED  BY <1>1, InitInv, NextInv, NextUnscheduled, PTL DEF Spec

-----------------------------------------------------------------------------
(* Wake-ups.                                                               *)

Waiting == {"sync", "asleep", "spin"}
Idling == {"idle", "idle asleep", "idle spin"}

\* What the first wait, or the idle one, relies on survives whatever makes the
\* list no larger, and the wall clock's going on.
LEMMA StillAwaited ==
    ASSUME NoLostWakeup, TypeInv, m_events' \subseteq m_events, Realtime' >= Realtime,
           m_condition' = m_condition, until' = until, pc' = pc, clock' \in Nat,
           m_realtimeOriginNano' = m_realtimeOriginNano,
           \A e \in m_events : e.ts \in Int
    PROVE  NoLostWakeup'
<1>1. Realtime \in Int /\ Realtime' \in Int
    BY DEF Realtime, TypeInv
<1>2. ASSUME pc \in Waiting, NEW e \in m_events', e.ts < until, Realtime' < until
      PROVE  m_condition'
  <2>1. Realtime < until
      BY <1>1, <1>2 DEF TypeInv
  <2> QED  BY <1>2, <2>1 DEF NoLostWakeup, Waiting
<1>3. ASSUME pc \in Idling, m_events' # {} PROVE m_condition'
    BY <1>3 DEF NoLostWakeup, Idling
<1> QED  BY <1>2, <1>3 DEF NoLostWakeup, Waiting, Idling

\* Every step keeps the wake-ups.
LEMMA NextWakeup == Inv /\ NoLostWakeup /\ [Next]_vars => NoLostWakeup'
<1> SUFFICES ASSUME Inv, NoLostWakeup, [Next]_vars PROVE NoLostWakeup'
    OBVIOUS
<1> USE DEF list, current, flags, history, wait
<1>0. TypeInv /\ \A e \in m_events : e.ts \in Int
    BY DEF Inv, ListInv
<1>1. Realtime \in Int
    BY <1>0 DEF TypeInv, Realtime
<1>2. CASE m_condition' = TRUE
    BY <1>2 DEF NoLostWakeup
<1>3. CASE pc' \notin Waiting \cup Idling
    BY <1>3 DEF NoLostWakeup, Waiting, Idling
<1>4. ASSUME UNCHANGED <<clock, m_realtimeOriginNano, m_condition, until, pc>>,
             m_events' \subseteq m_events
      PROVE  NoLostWakeup'
  <2>1. Realtime' = Realtime /\ clock' \in Nat
      BY <1>0, <1>4 DEF Realtime, TypeInv
  <2> QED  BY <1>0, <1>1, <1>4, <2>1, StillAwaited
<1>5. CASE Tick
  <2>1. Realtime' = Realtime + 1 /\ clock' \in Nat
      BY <1>0, <1>5 DEF Tick, Realtime, TypeInv
  <2> QED  BY <1>0, <1>1, <1>5, <2>1, StillAwaited DEF Tick
<1>6. ASSUME NEW delay \in 0..MaxDelay, Schedule(delay) PROVE NoLostWakeup'
    BY <1>2, <1>6 DEF Schedule, InsertEvent
<1>7. ASSUME NEW t \in Threads, NEW delay \in 0..MaxDelay,
             ScheduleWithContext(t, delay) \/ ScheduleRealtimeWithContext(t, delay)
      PROVE  NoLostWakeup'
    BY <1>2, <1>7 DEF ScheduleWithContext, ScheduleRealtimeWithContext, InsertEvent
<1>8. ASSUME NEW e, Remove(e) PROVE NoLostWakeup'
    BY <1>4, <1>8 DEF Remove, TakeOut
<1>9. ASSUME NEW t \in Threads, NEW e, RemoveTest(t, e) PROVE NoLostWakeup'
    BY <1>4, <1>9 DEF RemoveTest
<1>10. ASSUME NEW t \in Threads, RemoveLocked(t) PROVE NoLostWakeup'
    BY <1>4, <1>10 DEF RemoveLocked, TakeOut
<1>11. CASE Stop \/ UNCHANGED vars
    BY <1>4, <1>11 DEF Stop, vars
<1>12. CASE RunStarts \/ SetOrigin \/ RunReturns \/ Take \/ HandlerReturns
    BY <1>3, <1>12 DEF RunStarts, SetOrigin, RunReturns, Take, HandlerReturns, Waiting, Idling
<1>13. CASE Look
    BY <1>13 DEF Look, NoLostWakeup
<1>14. CASE Pace
  <2>1. \A e \in m_events : PeekNext.ts <= e.ts
      BY <1>14, PeekNextFirst DEF Pace, Inv
  <2>2. PeekNext.ts \in Int
      BY <1>0, <1>14, PeekNextFirst DEF Pace, Inv
  <2>3. until' \in {PeekNext.ts, Realtime}
      BY <1>1, <1>14, <2>2, MaxOfTwo DEF Pace
  <2>4. Realtime' = Realtime /\ m_events' = m_events /\ pc' = "sync"
      BY <1>14 DEF Pace, Realtime
  <2>5. ASSUME NEW e \in m_events', e.ts < until', Realtime' < until' PROVE FALSE
    <3>1. e \in m_events /\ e.ts \in Int /\ PeekNext.ts <= e.ts
        BY <1>0, <2>1, <2>4, <2>5
    <3> QED  BY <1>1, <2>2, <2>3, <2>4, <2>5, <3>1
  <2> QED  BY <2>4, <2>5 DEF NoLostWakeup
<1>15. ASSUME NEW w \in Waits, Synchronize(w) \/ Wake(w) \/ SpinWait(w)
       PROVE  NoLostWakeup'
  <2>1. Realtime' = Realtime
      BY <1>15 DEF Synchronize, Wake, SpinWait, Realtime
  <2>2. CASE Synchronize(w)
      BY <2>1, <2>2, WaitLabels DEF Synchronize, NoLostWakeup
  <2>3. CASE Wake(w)
    <3>1. CASE pc' = w.spin /\ UNCHANGED until
      <4>1. m_events' = m_events /\ m_condition' = m_condition /\ pc = w.asleep
          BY <2>3 DEF Wake
      <4>2. \/ pc \in Waiting /\ pc' \in Waiting
            \/ pc \in Idling /\ pc' \in Idling
          BY <3>1, <4>1, WaitLabels DEF Waiting, Idling
      <4> QED  BY <2>1, <3>1, <4>1, <4>2 DEF NoLostWakeup, Waiting, Idling
    <3>2. CASE pc' = w.interrupted
        BY <1>3, <3>2, WaitLabels DEF Waiting, Idling
    <3> QED  BY <2>3, <3>1, <3>2 DEF Wake
  <2>4. CASE SpinWait(w)
      BY <2>4, <1>3, WaitLabels DEF SpinWait, Waiting, Idling
  <2> QED  BY <1>15, <2>2, <2>3, <2>4
<1> QED  BY <1>5, <1>6, <1>7, <1>8, <1>9, <1>10, <1>11, <1>12, <1>13, <1>14, <1>15
         DEF Next, Engine, ModelCode, Thread

\* No signal to the synchronizer is lost between ProcessOneEvent's computing
\* how long to wait and its waiting, nor while Run is idle, however many
\* threads insert events in between.
THEOREM WakeupKept == Spec => []NoLostWakeup
<1>1. Init => NoLostWakeup
    BY DEF Init, NoLostWakeup
<1> QED  BY <1>1, InitInv, NextInv, NextWakeup, PTL DEF Spec

-----------------------------------------------------------------------------
(* Idle sleep.                                                             *)

Committed == {"sync", "asleep", "spin", "take"}

\* The inductive form of IdleSleeps: a signal that stands has an event in the
\* list that the main thread does not yet know of.
SignalInv ==
    removers = {} =>
        /\ m_condition => m_events # {}
        /\ pc \in Committed => m_events # {}
        /\ pc \in Committed /\ m_condition => \A e \in m_events : m_events \ {e} # {}

\* Every step keeps the meaning of the condition while nobody removes events.
LEMMA NextSignal == Inv /\ SignalInv /\ [Next]_vars => SignalInv'
<1> SUFFICES ASSUME Inv, SignalInv, [Next]_vars, removers' = {}
             PROVE  /\ m_condition' => m_events' # {}
                    /\ pc' \in Committed => m_events' # {}
                    /\ pc' \in Committed /\ m_condition'
                           => \A e \in m_events' : m_events' \ {e} # {}
    BY DEF SignalInv
<1> DEFINE Goal == /\ m_condition' => m_events' # {}
                   /\ pc' \in Committed => m_events' # {}
                   /\ pc' \in Committed /\ m_condition'
                           => \A e \in m_events' : m_events' \ {e} # {}
<1> USE DEF list, current, flags, history, wait
<1>1. ASSUME NEW ts \in Int, InsertEvent(ts), pc' = pc, removers = {} PROVE Goal
  <2>1. PICK x : x \notin m_events /\ m_events' = m_events \cup {x}
      BY <1>1, InsertEventList
  <2>2. ASSUME pc \in Committed, NEW e \in m_events' PROVE m_events' \ {e} # {}
    <3>1. PICK y \in m_events : TRUE
        BY <1>1, <2>2 DEF SignalInv
    <3>2. x # y /\ x \in m_events' /\ y \in m_events'
        BY <2>1
    <3> QED  BY <3>2
  <2> QED  BY <1>1, <2>1, <2>2
<1>2. ASSUME UNCHANGED <<m_events, m_condition, pc>>, removers = {} PROVE Goal
    BY <1>2 DEF SignalInv
<1>3. ASSUME UNCHANGED <<m_events, m_condition>>, pc' \notin Committed, removers = {}
      PROVE  Goal
    BY <1>3 DEF SignalInv
<1>4. ASSUME NEW delay \in 0..MaxDelay, Schedule(delay) PROVE Goal
  <2>1. \E ts \in Int : InsertEvent(ts)
      BY <1>4, ScheduledTimes DEF Schedule, Inv
  <2> QED  BY <1>1, <1>4, <2>1 DEF Schedule
<1>5. ASSUME NEW t \in Threads, NEW delay \in 0..MaxDelay,
             ScheduleWithContext(t, delay) \/ ScheduleRealtimeWithContext(t, delay)
      PROVE  Goal
  <2>1. \E ts \in Int : InsertEvent(ts)
      BY <1>5, ScheduledTimes DEF ScheduleWithContext, ScheduleRealtimeWithContext, Inv
  <2> QED  BY <1>1, <1>5, <2>1 DEF ScheduleWithContext, ScheduleRealtimeWithContext
<1>6. ASSUME NEW e, Remove(e) PROVE FALSE
    BY <1>6 DEF Remove
<1>7. ASSUME NEW t \in Threads, RemoveLocked(t) PROVE FALSE
    BY <1>7 DEF RemoveLocked
<1>8. ASSUME NEW t \in Threads, NEW e, RemoveTest(t, e) PROVE Goal
    BY <1>2, <1>8 DEF RemoveTest
<1>9. CASE Tick \/ Stop \/ UNCHANGED vars
    BY <1>2, <1>9 DEF Tick, Stop, vars
<1>10. CASE RunStarts \/ SetOrigin \/ Look \/ RunReturns \/ HandlerReturns
    BY <1>3, <1>10 DEF RunStarts, SetOrigin, Look, RunReturns, HandlerReturns, Committed
<1>11. CASE Pace
    BY <1>11 DEF Pace
<1>12. CASE Take
  <2>1. PeekNext \in m_events /\ m_events' = m_events \ {PeekNext} /\ pc \in Committed
        /\ m_condition' = m_condition /\ removers = {} /\ pc' \notin Committed
      BY <1>12, PeekNextFirst DEF Take, Inv, Committed
  <2> QED  BY <2>1 DEF SignalInv
<1>13. ASSUME NEW w \in Waits, Synchronize(w) \/ Wake(w) \/ SpinWait(w) PROVE Goal
  <2>1. UNCHANGED <<m_events, m_condition>> /\ removers = {}
      BY <1>13 DEF Synchronize, Wake, SpinWait
  <2>2. pc' \in Committed => pc \in Committed
      BY <1>13, WaitLabels DEF Synchronize, Wake, SpinWait, Committed
  <2> QED  BY <2>1, <2>2 DEF SignalInv
<1> QED  BY <1>4, <1>5, <1>6, <1>7, <1>8, <1>9, <1>10, <1>11, <1>12, <1>13
         DEF Next, Engine, ModelCode, Thread

\* An idle Run sleeps: as long as nobody removes events, no signal is left
\* over from an event that has been executed since.
THEOREM NoStaleSignal == Spec => []IdleSleeps
<1>1. Init => SignalInv
    BY DEF Init, SignalInv, Committed
<1>2. SignalInv => IdleSleeps
    BY DEF SignalInv, IdleSleeps
<1> QED  BY <1>1, <1>2, InitInv, NextInv, NextSignal, PTL DEF Spec

-----------------------------------------------------------------------------
(* In time.                                                                *)

\* The inductive form of InTime: simulated time is never ahead of the wall
\* clock, and an event that comes due no later than the end of the wait is
\* still there when it ends.
TimeInv ==
    /\ runs = 0 => pc = "outside"
    /\ removers \subseteq {"main"} /\ runs <= 1 =>
         /\ m_currentTs <= Realtime
         /\ runs = 0 \/ pc = "origin" => m_currentTs = 0
         /\ \A e \in m_events : e.ts >= m_currentTs
         /\ pc \in Waiting => \E e \in m_events : e.ts <= until
         /\ pc = "take" => \E e \in m_events : e.ts <= Realtime

\* Every step keeps simulated time behind real time.
LEMMA NextTime == Inv /\ TimeInv /\ [Next]_vars => TimeInv'
<1> SUFFICES ASSUME Inv, TimeInv, [Next]_vars PROVE TimeInv'
    OBVIOUS
<1> USE DEF list, current, flags, history, wait
<1>0. /\ Realtime \in Int /\ m_currentTs \in Int /\ until \in Int /\ runs \in Nat
      /\ clock \in Nat /\ m_realtimeOriginNano \in Nat
      /\ \A e \in m_events : e.ts \in Int
    BY DEF Inv, ListInv, TypeInv, Realtime
\* An insertion at or after the current time.
<1>1. ASSUME NEW ts \in Int, InsertEvent(ts),
             removers \subseteq {"main"} /\ runs <= 1 => ts >= m_currentTs,
             UNCHANGED <<clock, m_realtimeOriginNano, m_currentTs, until, removers, runs, pc>>
      PROVE  TimeInv'
  <2>1. PICK x : m_events' = m_events \cup {x} /\ x.ts = ts
      BY <1>1, InsertEventList
  <2>2. Realtime' = Realtime
      BY <1>1 DEF Realtime
  <2> QED  BY <1>1, <2>1, <2>2 DEF TimeInv
\* A removal, by the main thread while it does not wait, or by another one.
<1>2. ASSUME NEW e, m_events' = m_events \ {e}, removers \subseteq removers',
             removers' \subseteq {"main"} => pc \notin Waiting /\ pc # "take",
             UNCHANGED <<clock, m_realtimeOriginNano, m_currentTs, until, runs, pc>>
      PROVE  TimeInv'
  <2>1. Realtime' = Realtime
      BY <1>2 DEF Realtime
  <2> QED  BY <1>2, <2>1 DEF TimeInv
\* Steps that leave times and list alone.
<1>3. ASSUME UNCHANGED <<clock, m_realtimeOriginNano, m_events, m_currentTs, until,
                         removers, runs, pc>>
      PROVE  TimeInv'
  <2>1. Realtime' = Realtime
      BY <1>3 DEF Realtime
  <2> QED  BY <1>3, <2>1 DEF TimeInv
\* Steps of the main thread to a place outside the waits.
<1>4. ASSUME UNCHANGED <<clock, m_realtimeOriginNano, m_events, m_currentTs, removers, runs>>,
             pc # "outside" \/ pc' = "outside", pc' \notin Waiting \cup {"take", "origin"}
      PROVE  TimeInv'
  <2>1. Realtime' = Realtime
      BY <1>4 DEF Realtime
  <2> QED  BY <1>4, <2>1 DEF TimeInv, Waiting
<1>5. CASE Tick
  <2>1. Realtime' = Realtime + 1
      BY <1>0, <1>5 DEF Tick, Realtime
  <2>2. UNCHANGED <<m_events, m_currentTs, until, removers, runs, pc>>
      BY <1>5 DEF Tick
  <2>3. ASSUME removers \subseteq {"main"}, runs <= 1, pc = "take"
        PROVE  \E e \in m_events : e.ts <= Realtime'
    <3>1. PICK e \in m_events : e.ts <= Realtime
        BY <2>3 DEF TimeInv
    <3> QED  BY <1>0, <2>1, <3>1
  <2> QED  BY <1>0, <2>1, <2>2, <2>3 DEF TimeInv
<1>6. ASSUME NEW delay \in 0..MaxDelay, Schedule(delay) PROVE TimeInv'
  <2>1. m_currentTs + delay \in Int /\ m_currentTs + delay >= m_currentTs
      BY <1>0, Constants
  <2> QED  BY <1>1, <1>6, <2>1 DEF Schedule
<1>7. ASSUME NEW t \in Threads, NEW delay \in 0..MaxDelay,
             ScheduleWithContext(t, delay) \/ ScheduleRealtimeWithContext(t, delay)
      PROVE  TimeInv'
  <2>1. PICK now \in {Realtime, m_currentTs} : InsertEvent(now + delay)
      BY <1>7 DEF ScheduleWithContext, ScheduleRealtimeWithContext
  <2>2. removers \subseteq {"main"} /\ runs <= 1 => m_currentTs <= Realtime
      BY DEF TimeInv
  <2>3. now + delay \in Int
        /\ (removers \subseteq {"main"} /\ runs <= 1 => now + delay >= m_currentTs)
      BY <1>0, <2>2, Constants
  <2> QED  BY <1>1, <1>7, <2>1, <2>3 DEF ScheduleWithContext, ScheduleRealtimeWithContext
<1>8. ASSUME NEW e, Remove(e) PROVE TimeInv'
    BY <1>2, <1>8 DEF Remove, TakeOut, Waiting
<1>9. ASSUME NEW t \in Threads, RemoveLocked(t) PROVE TimeInv'
  <2>1. t # "main" /\ t \in removers' /\ removers \subseteq removers'
      BY <1>9, RealtimeAssumption DEF RemoveLocked
  <2>2. ~(removers' \subseteq {"main"})
      BY <2>1
  <2> QED  BY <1>2, <1>9, <2>1, <2>2 DEF RemoveLocked, TakeOut
<1>10. ASSUME NEW t \in Threads, NEW e, RemoveTest(t, e) PROVE TimeInv'
    BY <1>3, <1>10 DEF RemoveTest
<1>11. CASE Stop \/ UNCHANGED vars
    BY <1>3, <1>11 DEF Stop, vars
<1>12. CASE Look \/ RunReturns \/ HandlerReturns
    BY <1>4, <1>12 DEF Look, RunReturns, HandlerReturns, Waiting
<1>13. CASE RunStarts
  <2>1. Realtime' = Realtime /\ m_currentTs' = m_currentTs /\ m_events' = m_events
        /\ removers' = removers /\ runs' = runs + 1 /\ pc' = "origin"
      BY <1>13 DEF RunStarts, Realtime
  <2>2. runs' # 0 /\ (runs' <= 1 => runs = 0)
      BY <1>0, <2>1
  <2> QED  BY <1>0, <2>1, <2>2 DEF TimeInv, Waiting
<1>14. CASE SetOrigin
  <2>1. Realtime' = 0 /\ m_currentTs' = m_currentTs /\ m_events' = m_events
        /\ removers' = removers /\ runs' = runs /\ pc = "origin" /\ pc' = "loop"
      BY <1>0, <1>14 DEF SetOrigin, Realtime
  <2> QED  BY <1>0, <2>1 DEF TimeInv, Waiting
<1>15. CASE Pace
  <2>1. PeekNext \in m_events /\ PeekNext.ts <= until'
      BY <1>0, <1>15, PeekNextFirst, MaxOfTwo DEF Pace, Inv
  <2>2. Realtime' = Realtime /\ m_currentTs' = m_currentTs /\ m_events' = m_events
        /\ removers' = removers /\ runs' = runs /\ pc = "pace" /\ pc' = "sync"
      BY <1>15 DEF Pace, Realtime
  <2> QED  BY <2>1, <2>2 DEF TimeInv
<1>16. CASE Take
  <2>1. PeekNext \in m_events /\ \A e \in m_events : PeekNext.ts <= e.ts
      BY <1>16, PeekNextFirst DEF Take, Inv
  <2>2. Realtime' = Realtime /\ m_currentTs' = PeekNext.ts /\ m_events' \subseteq m_events
        /\ removers' = removers /\ runs' = runs /\ pc = "take" /\ pc' \in {"fatal", "handler"}
      BY <1>16 DEF Take, Realtime
  <2>3. ASSUME removers \subseteq {"main"}, runs <= 1 PROVE PeekNext.ts <= Realtime
    <3>1. PICK e \in m_events : e.ts <= Realtime
        BY <2>2, <2>3 DEF TimeInv
    <3> QED  BY <1>0, <2>1, <3>1
  <2>4. \A e \in m_events' : e.ts >= m_currentTs'
      BY <1>0, <2>1, <2>2
  <2>5. runs # 0
      BY <2>2 DEF TimeInv
  <2> QED  BY <2>2, <2>3, <2>4, <2>5 DEF TimeInv, Waiting
<1>17. ASSUME NEW w \in Waits, Synchronize(w) \/ Wake(w) \/ SpinWait(w) PROVE TimeInv'
  <2>1. Realtime' = Realtime /\ UNCHANGED <<clock, m_realtimeOriginNano, m_currentTs,
            m_events, removers, runs>>
      BY <1>17 DEF Synchronize, Wake, SpinWait, Realtime
  <2>2. pc # "outside"
      BY <1>17, WaitLabels DEF Synchronize, Wake, SpinWait
  <2>3. CASE pc' \notin Waiting \cup {"take", "origin"}
      BY <1>4, <2>1, <2>2, <2>3
  <2>4. CASE pc \in Waiting /\ pc' \in Waiting /\ until' = until
      BY <2>1, <2>4 DEF TimeInv, Waiting
  <2>5. CASE pc \in Waiting /\ pc' = "take" /\ Realtime >= until
    <3>1. ASSUME removers \subseteq {"main"}, runs <= 1
          PROVE  \E e \in m_events : e.ts <= Realtime
      <4>1. PICK e \in m_events : e.ts <= until
          BY <2>5, <3>1 DEF TimeInv
      <4> QED  BY <1>0, <2>5, <4>1
    <3> QED  BY <2>1, <2>5, <3>1 DEF TimeInv, Waiting
  <2>6. \/ pc' \notin Waiting \cup {"take", "origin"}
        \/ pc \in Waiting /\ pc' \in Waiting /\ until' = until
        \/ pc \in Waiting /\ pc' = "take" /\ Realtime >= until
      BY <1>17, WaitLabels DEF Synchronize, Wake, SpinWait, Waiting
  <2> QED  BY <2>3, <2>4, <2>5, <2>6
<1> QED  BY <1>5, <1>6, <1>7, <1>8, <1>9, <1>10, <1>11, <1>12, <1>13, <1>14, <1>15, <1>16, <1>17
         DEF Next, Engine, ModelCode, Thread

\* In a first Run no event is executed early and none is inserted in the past,
\* whatever the threads schedule, as long as none of them removes an event.
THEOREM ExecutedInTime == Spec => []InTime
<1>1. Init => TimeInv
    BY Constants DEF Init, TimeInv, Realtime, Waiting
<1>2. TimeInv => InTime
    BY DEF TimeInv, InTime
<1> QED  BY <1>1, <1>2, InitInv, NextInv, NextTime, PTL DEF Spec

=============================================================================
