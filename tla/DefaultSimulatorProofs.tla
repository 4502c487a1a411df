---------------------- MODULE DefaultSimulatorProofs ----------------------
(***************************************************************************)
(* Proofs about DefaultSimulator, for any number of threads, contexts and  *)
(* events: types, hand-overs and Dispose first; then, as long as m_uid     *)
(* does not wrap around (NoWrap), that IsExpired is exact, every event is  *)
(* accounted for and the engine implements EventList.                      *)
(***************************************************************************)
EXTENDS DefaultSimulator, DataFacts, FiniteSetTheorems, TLAPS

-----------------------------------------------------------------------------
(* Arithmetic of the uid counter.                                          *)

\* A remainder is below the modulus.
LEMMA ModRange ==
    ASSUME NEW a \in Nat, NEW m \in Nat, m > 0
    PROVE  a % m \in 0..(m - 1)
  OBVIOUS

\* A value below the modulus is its own remainder, and the modulus has none.
LEMMA ModSmall ==
    ASSUME NEW a \in Nat, NEW m \in Nat, m > 0, a <= m
    PROVE  a % m = IF a = m THEN 0 ELSE a
  OBVIOUS

-----------------------------------------------------------------------------
(* Type correctness.                                                       *)

\* The fields of an EventId.
LEMMA EventIdFields ==
    ASSUME NEW e \in EventIds
    PROVE  e.impl \in Nat /\ e.ts \in Nat /\ e.context \in AnyContext /\ e.uid \in Nat
  BY DEF EventIds

\* The fields of an entry of the hand-over list.
LEMMA HandOverFields ==
    ASSUME TypeOK, NEW i \in 1..Len(m_eventsWithContext)
    PROVE  /\ m_eventsWithContext[i].context \in Contexts
           /\ m_eventsWithContext[i].delay \in Nat
<1>1. m_eventsWithContext \in Seq(HandOvers)
    BY DEF TypeOK
<1>2. m_eventsWithContext[i] \in HandOvers
    BY <1>1
<1> QED BY <1>2, ConstantsAssumption DEF HandOvers, Delays

\* The events of the hand-over list are events.
LEMMA HandedOverType ==
    ASSUME TypeOK PROVE HandedOver \in SUBSET EventIds
<1> SUFFICES ASSUME NEW i \in 1..Len(m_eventsWithContext)
             PROVE  [impl    |-> nextImpl + i - 1,
                     ts      |-> m_currentTs + m_eventsWithContext[i].delay,
                     context |-> m_eventsWithContext[i].context,
                     uid     |-> (m_uid + i - 1) % UidModulus] \in EventIds
    BY DEF HandedOver
<1>1. /\ m_eventsWithContext[i].context \in AnyContext
      /\ m_eventsWithContext[i].delay \in Nat
    BY HandOverFields DEF AnyContext
<1>2. (m_uid + i - 1) % UidModulus \in Nat
    BY ModRange, ConstantsAssumption DEF TypeOK, FirstUid
<1>3. m_currentTs \in Nat /\ nextImpl \in Nat
    BY DEF TypeOK
<1> QED BY <1>1, <1>2, <1>3 DEF EventIds

\* Every step keeps the types.
LEMMA TypeStep == TypeOK /\ [Next]_vars => TypeOK'
<1> SUFFICES ASSUME TypeOK, [Next]_vars PROVE TypeOK'
    OBVIOUS
<1> USE ConstantsAssumption DEF FirstUid
<1>m. (m_uid + 1) % UidModulus \in 0..(UidModulus - 1)
    BY ModRange DEF TypeOK
<1>1. ASSUME NEW ts \in Nat, NEW c \in AnyContext, InsertNew(NewEvent(ts, c)),
             ids' = ids \/ ids' = ids \cup {NewEvent(ts, c)}
      PROVE TypeOK'
  <2>1. NewEvent(ts, c) \in EventIds
      BY DEF NewEvent, EventIds, TypeOK
  <2> QED BY <1>1, <1>m, <2>1 DEF TypeOK, InsertNew, keyVars, handOver, control, history
<1>2. ASSUME NEW d \in Delays, Schedule(d) PROVE TypeOK'
  <2>1. m_currentTs + d \in Nat /\ m_currentContext \in AnyContext
      BY DEF Delays, TypeOK
  <2> QED BY <1>2, <1>1, <2>1 DEF Schedule
<1>3. CASE ScheduleNow
  <2>1. m_currentTs \in Nat /\ m_currentContext \in AnyContext
      BY DEF TypeOK
  <2> QED BY <1>3, <1>1, <2>1 DEF ScheduleNow
<1>4. ASSUME NEW c \in Contexts, NEW d \in Delays, ScheduleWithContext(c, d)
      PROVE TypeOK'
  <2>1. m_currentTs + d \in Nat /\ c \in AnyContext
      BY DEF Delays, TypeOK, AnyContext
  <2> QED BY <1>4, <1>1, <2>1 DEF ScheduleWithContext
<1>5. CASE ScheduleDestroy
    BY <1>5, <1>m DEF ScheduleDestroy, TypeOK, EventIds, AnyContext, DestroyUid,
       keyVars, handOver, control, history
<1>6. ASSUME NEW id \in ids, Cancel(id) PROVE TypeOK'
    BY <1>6, EventIdFields DEF Cancel, Withdraw, TypeOK, keyVars, handOver, control
<1>7. ASSUME NEW id \in ids, RemoveDestroyEvent(id) PROVE TypeOK'
  <2>1. m_destroyEvents' \in Seq(EventIds)
    <3>1. m_destroyEvents \in Seq(EventIds)
        BY DEF TypeOK
    <3>2. ASSUME NEW i \in DOMAIN m_destroyEvents
          PROVE  Erase(m_destroyEvents, i) \in Seq(EventIds)
        BY <3>1, EraseEntry
    <3> QED BY <1>7, <3>1, <3>2 DEF RemoveDestroyEvent
  <2> QED BY <1>7, <2>1, EventIdFields DEF RemoveDestroyEvent, Withdraw, TypeOK,
         keyVars, handOver, control
<1>8. ASSUME NEW id \in ids, RemoveEvent(id) PROVE TypeOK'
  <2>1. id.impl \in Nat
      BY EventIdFields DEF TypeOK
  <2>2. m_events' \in SUBSET EventIds /\ cancelled' \in SUBSET Nat
        /\ m_unscheduledEvents' \in Int
    <3>1. CASE IsExpired(id)
        BY <1>8, <3>1 DEF RemoveEvent, TypeOK
    <3>2. CASE ~IsExpired(id)
      <4>1. /\ m_events' = m_events \ {id}
            /\ cancelled' = cancelled \cup {id.impl}
            /\ m_unscheduledEvents' = m_unscheduledEvents - 1
          BY <1>8, <3>2 DEF RemoveEvent
      <4>2. /\ m_events \in SUBSET EventIds /\ cancelled \in SUBSET Nat
            /\ m_unscheduledEvents \in Int
          BY DEF TypeOK
      <4>3. m_events' \in SUBSET EventIds
          BY <4>1, <4>2
      <4>4. cancelled' \in SUBSET Nat
          BY <2>1, <4>1, <4>2
      <4>5. m_unscheduledEvents' \in Int
          BY <4>1, <4>2
      <4> QED BY <4>3, <4>4, <4>5
    <3> QED BY <3>1, <3>2
  <2> QED BY <1>8, <2>1, <2>2 DEF RemoveEvent, Withdraw, TypeOK, keyVars, handOver, control
<1>9. CASE Stop
    BY <1>9 DEF Stop, TypeOK, keyVars, handOver, history
<1>10. ASSUME NEW w \in Workers, NEW c \in Contexts, NEW d \in Delays,
              HandOverPush(w, c, d)
       PROVE TypeOK'
  <2>1. [context |-> c, delay |-> d] \in HandOvers
      BY DEF HandOvers
  <2> QED BY <1>10, <2>1 DEF HandOverPush, TypeOK, keyVars, control, history
<1>11. ASSUME NEW w \in Workers, HandOverUnlock(w) PROVE TypeOK'
    BY <1>11 DEF HandOverUnlock, TypeOK, keyVars, control, history
<1>12. CASE CheckEmpty
    BY <1>12 DEF CheckEmpty, Return, TypeOK, keyVars, handOver, history
<1>13. CASE SwapAndInsert
  <2>1. Len(m_eventsWithContext) \in Nat
      BY DEF TypeOK
  <2>2. (m_uid + Len(m_eventsWithContext)) % UidModulus \in 0..(UidModulus - 1)
      BY <2>1, ModRange DEF TypeOK
  <2>3. m_events' \in SUBSET EventIds /\ m_uid' \in 0..(UidModulus - 1)
      BY <1>13, <2>2, HandedOverType DEF SwapAndInsert, TypeOK
  <2>4. nextImpl' \in Nat /\ m_unscheduledEvents' \in Int
        /\ m_eventsWithContext' \in Seq(HandOvers)
      BY <1>13, <2>1 DEF SwapAndInsert, TypeOK
  <2> QED BY <1>13, <2>3, <2>4 DEF SwapAndInsert, Return, TypeOK, keyVars, history
<1>14. CASE ProcessOneEvent
  <2> PICK next \in m_events :
          /\ m_events' = m_events \ {next}
          /\ m_currentTs' = next.ts
          /\ m_currentContext' = next.context
          /\ m_currentUid' = next.uid
          /\ notified' \in {notified, notified \cup {next.impl}}
          /\ pc' \in {"check", "handler"} /\ ret' \in {ret, "loop"}
      BY <1>14 DEF ProcessOneEvent
  <2>1. next \in EventIds
      BY DEF TypeOK
  <2> QED BY <1>14, <2>1, EventIdFields DEF ProcessOneEvent, TypeOK, handOver
<1>15. CASE DestroyOneEvent
  <2>1. Head(m_destroyEvents) \in EventIds /\ Tail(m_destroyEvents) \in Seq(EventIds)
      BY <1>15 DEF DestroyOneEvent, TypeOK
  <2>2. Head(m_destroyEvents).impl \in Nat
      BY <2>1, EventIdFields
  <2>3. notified' \in SUBSET Nat /\ pc' \in {pc, "destroyHandler"}
      BY <1>15, <2>2 DEF DestroyOneEvent, TypeOK
  <2> QED BY <1>15, <2>1, <2>3 DEF DestroyOneEvent, TypeOK, keyVars, handOver
<1>16. CASE HandlerReturns \/ RunReturns \/ Run \/ Destroy \/ DestroyHandlerReturns
            \/ Dispose
    BY <1>16 DEF HandlerReturns, RunReturns, Run, Destroy, DestroyHandlerReturns,
       Dispose, TypeOK, keyVars, handOver, history
<1>17. CASE ReleaseEvents
    BY <1>17 DEF ReleaseEvents, TypeOK, keyVars, handOver, history
<1>18. CASE UNCHANGED vars
    BY <1>18 DEF vars, TypeOK, keyVars, handOver
<1> QED BY <1>2, <1>3, <1>4, <1>5, <1>6, <1>7, <1>8, <1>9, <1>10, <1>11, <1>12,
       <1>13, <1>14, <1>15, <1>16, <1>17, <1>18
       DEF Next, UserStep, WorkerStep, EngineStep, Remove

\* DefaultSimulatorImpl keeps every variable within its type, whatever the
\* width of m_uid and however many events are created.
THEOREM TypeCorrect == Spec => []TypeOK
<1>1. ASSUME Init PROVE TypeOK
  <2> USE <1>1 DEF Init
  <2>1. m_events \in SUBSET EventIds /\ ids \in SUBSET EventIds
      OBVIOUS
  <2>2. m_destroyEvents \in Seq(EventIds)
      OBVIOUS
  <2>3. m_eventsWithContext \in Seq(HandOvers)
      OBVIOUS
  <2>4. m_uid \in 0..(UidModulus - 1)
      BY ConstantsAssumption DEF FirstUid
  <2>5. m_currentContext \in AnyContext
      BY DEF AnyContext
  <2>6. /\ m_currentTs \in Nat /\ m_currentUid \in Nat /\ m_eventCount \in Nat
        /\ m_unscheduledEvents \in Int /\ nextImpl \in Nat
      BY DEF FirstUid
  <2>7. /\ m_stop \in BOOLEAN /\ m_eventsWithContextEmpty \in BOOLEAN
        /\ m_eventsWithContextMutex \in Workers \cup {NoThread}
        /\ cancelled \in SUBSET Nat
        /\ notified \in SUBSET Nat /\ withdrawn \in SUBSET Nat
      OBVIOUS
  <2>8. /\ pc \in {"outside", "check", "swap", "loop", "handler", "destroy",
                  "destroyHandler", "disposing", "disposed"}
        /\ ret \in {"outside", "enter", "loop", "disposing"}
      OBVIOUS
  <2> QED BY <2>1, <2>2, <2>3, <2>4, <2>5, <2>6, <2>7, <2>8 DEF TypeOK
<1> QED BY <1>1, TypeStep, PTL DEF Spec

-----------------------------------------------------------------------------
(* The hand-over list and its flag.                                        *)

\* The flag is exact while the mutex is free; a thread that holds the mutex has
\* already filled the list; once DoDispose is past the list nobody holds the
\* mutex and the list stays empty.
HandOverInv ==
    /\ HandOverAnnounced
    /\ NothingLeaked
    /\ m_eventsWithContextMutex # NoThread => m_eventsWithContext # <<>>
    /\ ret = "disposing" => m_eventsWithContextMutex = NoThread
    /\ pc \in {"disposing", "disposed"} =>
          m_eventsWithContext = <<>> /\ m_eventsWithContextMutex = NoThread

\* Every step keeps HandOverInv.
LEMMA HandOverStep == TypeOK /\ HandOverInv /\ [Next]_vars => HandOverInv'
<1> SUFFICES ASSUME TypeOK, HandOverInv, [Next]_vars PROVE HandOverInv'
    OBVIOUS
<1> USE DEF HandOverInv, HandOverAnnounced, NothingLeaked
<1>1. ASSUME UNCHANGED handOver, UserCode, UNCHANGED pc, UNCHANGED ret
      PROVE  HandOverInv'
    BY <1>1 DEF handOver, UserCode
<1>2. CASE UserStep
    BY <1>1, <1>2 DEF UserStep, Schedule, ScheduleNow, ScheduleWithContext,
       ScheduleDestroy, InsertNew, Cancel, Remove, RemoveDestroyEvent, RemoveEvent,
       Stop, control
<1>3. ASSUME NEW w \in Workers, NEW c \in Contexts, NEW d \in Delays,
             HandOverPush(w, c, d)
      PROVE HandOverInv'
  <2>1. w # NoThread
      BY ConstantsAssumption
  <2>2. Append(m_eventsWithContext, [context |-> c, delay |-> d]) # <<>>
    <3>1. m_eventsWithContext \in Seq(HandOvers) /\ [context |-> c, delay |-> d] \in HandOvers
        BY DEF TypeOK, HandOvers
    <3> QED BY <3>1
  <2> QED BY <1>3, <2>1, <2>2 DEF HandOverPush, control
<1>4. ASSUME NEW w \in Workers, HandOverUnlock(w) PROVE HandOverInv'
  <2>1. w # NoThread
      BY ConstantsAssumption
  <2> QED BY <1>4, <2>1 DEF HandOverUnlock, control
<1>5. CASE CheckEmpty
  <2>1. ret \in {"outside", "enter", "loop", "disposing"}
        /\ m_eventsWithContextEmpty \in BOOLEAN
      BY DEF TypeOK
  <2>2. CASE m_eventsWithContextEmpty
      BY <1>5, <2>1, <2>2 DEF CheckEmpty, Return, handOver
  <2>3. CASE ~m_eventsWithContextEmpty
      BY <1>5, <2>1, <2>3 DEF CheckEmpty, Return, handOver
  <2> QED BY <2>2, <2>3
<1>6. CASE SwapAndInsert
    BY <1>6 DEF SwapAndInsert, Return, TypeOK
<1>7. CASE ProcessOneEvent
  <2>1. pc = "loop" /\ pc' \in {"check", "handler"} /\ ret' \in {ret, "loop"}
        /\ UNCHANGED handOver
      BY <1>7 DEF ProcessOneEvent
  <2> QED BY <2>1 DEF handOver
<1>8. CASE HandlerReturns \/ RunReturns \/ Run \/ Destroy \/ DestroyHandlerReturns
           \/ DestroyOneEvent \/ Dispose
    BY <1>8 DEF HandlerReturns, RunReturns, Run, Destroy, DestroyHandlerReturns,
       DestroyOneEvent, Dispose, handOver
<1>9. CASE ReleaseEvents
    BY <1>9 DEF ReleaseEvents, handOver
<1>10. CASE UNCHANGED vars
    BY <1>10 DEF vars, handOver
<1> QED BY <1>2, <1>3, <1>4, <1>5, <1>6, <1>7, <1>8, <1>9, <1>10
       DEF Next, WorkerStep, EngineStep

\* HandOverInv is an invariant.
LEMMA HandOverInvariant == Spec => []HandOverInv
<1>1. Init => HandOverInv
    BY DEF Init, HandOverInv, HandOverAnnounced, NothingLeaked
<1> QED BY <1>1, TypeCorrect, HandOverStep, PTL DEF Spec

\* The unlocked read of m_eventsWithContextEmpty never hides a hand-over that
\* was completed, for any number of threads.
THEOREM HandOverSafe == Spec => []HandOverAnnounced
BY HandOverInvariant, PTL DEF HandOverInv

\* DoDispose releases everything the engine held, also what other threads
\* handed over and the main thread never inserted.
THEOREM DisposeComplete == Spec => []NothingLeaked
BY HandOverInvariant, PTL DEF HandOverInv


-----------------------------------------------------------------------------
(* The inductive invariant behind ExpiredExact, EventsAccounted and the    *)
(* order of execution.  It needs uids that do not wrap around.             *)

Issued == m_events \cup ids \cup Range(m_destroyEvents)

\* An event is known by its number, which is also its uid.
NumberInv ==
    /\ FirstUid <= nextImpl
    /\ nextImpl + Len(m_eventsWithContext) <= FirstUid + MaxEvents
    /\ m_uid = IF nextImpl = UidModulus THEN 0 ELSE nextImpl
    /\ \A e \in Issued : FirstUid <= e.impl /\ e.impl < nextImpl
    /\ \A e \in m_events : e.uid = e.impl
    /\ \A e \in ids : e.uid = e.impl \/ e.uid = DestroyUid
    /\ \A e \in Range(m_destroyEvents) : e.uid = DestroyUid
    /\ \A e, f \in Issued : e.impl = f.impl => e = f
    /\ \A i, j \in DOMAIN m_destroyEvents : m_destroyEvents[i] = m_destroyEvents[j] => i = j

\* The key of the current event separates what is pending from what was run.
OrderInv ==
    /\ m_currentUid < nextImpl
    /\ \A e \in m_events :
          m_currentTs < e.ts \/ (m_currentTs = e.ts /\ m_currentUid < e.uid)
    /\ pc # "disposed" =>
          \A e \in ids \ m_events : e.uid # DestroyUid =>
             \/ e.impl \in cancelled
             \/ e.ts < m_currentTs
             \/ e.ts = m_currentTs /\ e.uid <= m_currentUid

\* Only withdrawn events are marked, and every event is accounted for.
AccountInv == cancelled \subseteq withdrawn /\ EventsAccounted

EngineInv == NumberInv /\ OrderInv /\ AccountInv

\* The uid of a new event is its number, and the counter goes on from there.
LEMMA NextNumber ==
    ASSUME NoWrap, TypeOK, NumberInv, Budget
    PROVE  /\ m_uid = nextImpl
           /\ (m_uid + 1) % UidModulus = IF nextImpl + 1 = UidModulus THEN 0 ELSE nextImpl + 1
           /\ nextImpl + 1 + Len(m_eventsWithContext) <= FirstUid + MaxEvents
<1>1. Len(m_eventsWithContext) \in Nat
    BY DEF TypeOK
<1>2. nextImpl \in Nat /\ nextImpl < UidModulus
      /\ nextImpl + 1 + Len(m_eventsWithContext) <= FirstUid + MaxEvents
    BY <1>1, ConstantsAssumption DEF TypeOK, Budget, NoWrap, FirstUid
<1>3. m_uid = nextImpl
    BY <1>2 DEF NumberInv
<1> QED BY <1>2, <1>3, ModSmall, ConstantsAssumption DEF FirstUid

\* What SwapAndInsert puts into the scheduler: consecutively numbered events,
\* none of them in the past.
LEMMA HandedOverFacts ==
    ASSUME NoWrap, TypeOK, NumberInv
    PROVE  /\ \A h \in HandedOver :
                 /\ h.uid = h.impl
                 /\ nextImpl <= h.impl
                 /\ h.impl < nextImpl + Len(m_eventsWithContext)
                 /\ m_currentTs <= h.ts
           /\ \A g, h \in HandedOver : g.impl = h.impl => g = h
           /\ \A k \in nextImpl..(nextImpl + Len(m_eventsWithContext) - 1) :
                 \E h \in HandedOver : h.impl = k
           /\ (m_uid + Len(m_eventsWithContext)) % UidModulus =
                 IF nextImpl + Len(m_eventsWithContext) = UidModulus
                 THEN 0 ELSE nextImpl + Len(m_eventsWithContext)
<1> DEFINE n == Len(m_eventsWithContext)
           H(i) == [impl    |-> nextImpl + i - 1,
                    ts      |-> m_currentTs + m_eventsWithContext[i].delay,
                    context |-> m_eventsWithContext[i].context,
                    uid     |-> (m_uid + i - 1) % UidModulus]
<1>1. n \in Nat /\ nextImpl \in Nat /\ m_currentTs \in Nat
    BY DEF TypeOK
<1>2. HandedOver = {H(i) : i \in 1..n}
    BY DEF HandedOver
<1> HIDE DEF n
<1>3. nextImpl + n <= UidModulus /\ (n > 0 => m_uid = nextImpl)
    BY <1>1, ConstantsAssumption DEF NumberInv, NoWrap, n, FirstUid
<1>4. \A i \in 1..n : m_eventsWithContext[i].delay \in Nat
    BY HandOverFields DEF n
<1>5. ASSUME NEW i \in 1..n
      PROVE  /\ H(i).uid = H(i).impl
             /\ H(i).impl = nextImpl + i - 1
             /\ m_currentTs <= H(i).ts
  <2>1. (m_uid + i - 1) % UidModulus = nextImpl + i - 1
    <3>1. m_uid + i - 1 = nextImpl + i - 1 /\ nextImpl + i - 1 \in Nat
          /\ nextImpl + i - 1 < UidModulus
      <4>1. m_uid = nextImpl
          BY <1>1, <1>3
      <4> QED BY <1>1, <1>3, <4>1, ConstantsAssumption
    <3> QED BY <3>1, ModSmall, ConstantsAssumption
  <2>2. m_currentTs <= m_currentTs + m_eventsWithContext[i].delay
      BY <1>1, <1>4
  <2> QED BY <2>1, <2>2
<1>6. (m_uid + n) % UidModulus = IF nextImpl + n = UidModulus THEN 0 ELSE nextImpl + n
  <2>1. CASE n = 0
    <3>1. m_uid \in 0..(UidModulus - 1) /\ m_uid + n = m_uid
        BY <2>1 DEF TypeOK
    <3>2. (m_uid + n) % UidModulus = m_uid
        BY <3>1, ModSmall, ConstantsAssumption DEF FirstUid
    <3> QED BY <1>1, <2>1, <3>2 DEF NumberInv
  <2>2. CASE n > 0
      BY <1>1, <1>3, <2>2, ModSmall, ConstantsAssumption DEF FirstUid
  <2> QED BY <1>1, <2>1, <2>2
<1>7. \A h \in HandedOver :
         /\ h.uid = h.impl /\ m_currentTs <= h.ts
         /\ nextImpl <= h.impl /\ h.impl < nextImpl + n
  <2> SUFFICES ASSUME NEW i \in 1..n
               PROVE  /\ H(i).uid = H(i).impl /\ m_currentTs <= H(i).ts
                      /\ nextImpl <= H(i).impl /\ H(i).impl < nextImpl + n
      BY <1>2
  <2> HIDE DEF H
  <2> QED BY <1>1, <1>5
<1>8. \A g, h \in HandedOver : g.impl = h.impl => g = h
  <2> SUFFICES ASSUME NEW i \in 1..n, NEW j \in 1..n, H(i).impl = H(j).impl
               PROVE  H(i) = H(j)
      BY <1>2
  <2>1. H(i).impl = nextImpl + i - 1 /\ H(j).impl = nextImpl + j - 1
      BY <1>5
  <2>2. i = j
      BY <1>1, <2>1
  <2> QED BY <2>2
<1>9. ASSUME NEW k \in nextImpl..(nextImpl + n - 1)
      PROVE  \E h \in HandedOver : h.impl = k
  <2>1. k - nextImpl + 1 \in 1..n /\ nextImpl + (k - nextImpl + 1) - 1 = k
      BY <1>1
  <2>2. H(k - nextImpl + 1).impl = k
      BY <2>1, <1>5
  <2> QED BY <1>2, <2>1, <2>2
<1> QED BY <1>6, <1>7, <1>8, <1>9 DEF n

\* A step that creates no event keeps the numbering.
LEMMA NumberShrink ==
    ASSUME NumberInv, UNCHANGED <<nextImpl, m_uid, ids>>, m_events' \subseteq m_events,
           Range(m_destroyEvents)' \subseteq Range(m_destroyEvents),
           (\A i, j \in DOMAIN m_destroyEvents : m_destroyEvents[i] = m_destroyEvents[j] => i = j)',
           (nextImpl + Len(m_eventsWithContext) <= FirstUid + MaxEvents)'
    PROVE  NumberInv'
<1>1. Issued' \subseteq Issued
    BY DEF Issued
<1>2. (\A e \in Issued : FirstUid <= e.impl /\ e.impl < nextImpl)'
    BY <1>1 DEF NumberInv
<1>3. (\A e, f \in Issued : e.impl = f.impl => e = f)'
    BY <1>1 DEF NumberInv
<1>4. (\A e \in m_events : e.uid = e.impl)'
      /\ (\A e \in ids : e.uid = e.impl \/ e.uid = DestroyUid)'
      /\ (\A e \in Range(m_destroyEvents) : e.uid = DestroyUid)'
    BY DEF NumberInv
<1>5. FirstUid <= nextImpl' /\ m_uid' = IF nextImpl' = UidModulus THEN 0 ELSE nextImpl'
    BY DEF NumberInv
<1> QED BY <1>2, <1>3, <1>4, <1>5 DEF NumberInv

\* A step that adds events with new numbers keeps the numbering.
LEMMA NumberGrow ==
    ASSUME TypeOK, NumberInv, NEW n \in Nat, nextImpl' = nextImpl + n,
           m_uid' = IF nextImpl' = UidModulus THEN 0 ELSE nextImpl',
           (nextImpl + Len(m_eventsWithContext) <= FirstUid + MaxEvents)',
           NEW New, Issued' \subseteq Issued \cup New,
           \A e \in New : nextImpl <= e.impl /\ e.impl < nextImpl + n,
           \A e, f \in New : e.impl = f.impl => e = f,
           \A e \in New : e.impl \in Nat,
           (\A e \in m_events : e.uid = e.impl)',
           (\A e \in ids : e.uid = e.impl \/ e.uid = DestroyUid)',
           (\A e \in Range(m_destroyEvents) : e.uid = DestroyUid)',
           (\A i, j \in DOMAIN m_destroyEvents : m_destroyEvents[i] = m_destroyEvents[j] => i = j)'
    PROVE  NumberInv'
<1>1. nextImpl \in Nat /\ FirstUid <= nextImpl
    BY DEF TypeOK, NumberInv
<1>2. \A e \in Issued : e.impl \in Nat /\ FirstUid <= e.impl /\ e.impl < nextImpl
  <2>1. Issued \subseteq EventIds
      BY DEF Issued, TypeOK, Range
  <2> QED BY <2>1, EventIdFields DEF NumberInv
<1>3. \A e \in Issued' : FirstUid <= e.impl /\ e.impl < nextImpl'
    BY <1>1, <1>2 DEF FirstUid
<1>4. ASSUME NEW e \in Issued', NEW f \in Issued', e.impl = f.impl PROVE e = f
  <2>1. CASE e \in Issued /\ f \in Issued
      BY <1>4, <2>1 DEF NumberInv
  <2>2. CASE e \in New /\ f \in New
      BY <1>4, <2>2
  <2>3. CASE e \in Issued /\ f \in New
    <3>1. e.impl < nextImpl /\ nextImpl <= f.impl /\ e.impl \in Nat /\ f.impl \in Nat
        BY <1>2, <2>3
    <3> QED BY <1>1, <1>4, <3>1
  <2>4. CASE e \in New /\ f \in Issued
    <3>1. f.impl < nextImpl /\ nextImpl <= e.impl /\ e.impl \in Nat /\ f.impl \in Nat
        BY <1>2, <2>4
    <3> QED BY <1>1, <1>4, <3>1
  <2> QED BY <2>1, <2>2, <2>3, <2>4
<1>5. FirstUid <= nextImpl'
    BY <1>1 DEF FirstUid
<1> QED BY <1>3, <1>4, <1>5 DEF NumberInv

\* Every step keeps NumberInv.
LEMMA NumberStep ==
    ASSUME NoWrap, TypeOK, TypeOK', NumberInv, [Next]_vars PROVE NumberInv'
<1> DEFINE Distinct(s) == \A i, j \in DOMAIN s : s[i] = s[j] => i = j
<1>a. /\ Len(m_eventsWithContext) \in Nat /\ nextImpl \in Nat
      /\ m_destroyEvents \in Seq(EventIds) /\ Distinct(m_destroyEvents)
      /\ nextImpl + Len(m_eventsWithContext) <= FirstUid + MaxEvents
    BY DEF TypeOK, NumberInv
<1>1. ASSUME NEW ts \in Nat, NEW c \in AnyContext, Budget, InsertNew(NewEvent(ts, c)),
             ids' = ids \/ ids' = ids \cup {NewEvent(ts, c)}
      PROVE NumberInv'
  <2> DEFINE ev == NewEvent(ts, c)
  <2>1. ev.impl = nextImpl /\ ev.uid = nextImpl
      BY <1>1, NextNumber DEF NewEvent
  <2>2. /\ m_events' = m_events \cup {ev}
        /\ m_uid' = (m_uid + 1) % UidModulus
        /\ nextImpl' = nextImpl + 1
        /\ UNCHANGED <<m_destroyEvents, m_eventsWithContext>>
      BY <1>1 DEF InsertNew, handOver
  <2> HIDE DEF ev
  <2>3. Issued' \subseteq Issued \cup {ev}
      BY <1>1, <2>2 DEF Issued, ev
  <2>4. m_uid' = IF nextImpl' = UidModulus THEN 0 ELSE nextImpl'
      BY <1>1, <2>2, NextNumber
  <2>5. (nextImpl + Len(m_eventsWithContext) <= FirstUid + MaxEvents)'
      BY <1>1, <2>2, NextNumber
  <2>6. \A e \in m_events' : e.uid = e.impl
      BY <2>1, <2>2 DEF NumberInv
  <2>7. \A e \in ids' : e.uid = e.impl \/ e.uid = DestroyUid
      BY <1>1, <2>1 DEF NumberInv, ev
  <2>8. (\A e \in Range(m_destroyEvents) : e.uid = DestroyUid)'
        /\ Distinct(m_destroyEvents)'
      BY <2>2 DEF NumberInv, Range
  <2> DEFINE New == {ev}
  <2>9. /\ \A e \in New : nextImpl <= e.impl /\ e.impl < nextImpl + 1 
        /\ \A e \in New : e.impl \in Nat
        /\ \A e, f \in New : e.impl = f.impl => e = f
        /\ Issued' \subseteq Issued \cup New
      BY <1>a, <2>1, <2>3
  <2> HIDE DEF New
  <2>10. 1 \in Nat
      OBVIOUS
  <2> QED BY <2>2, <2>4, <2>5, <2>6, <2>7, <2>8, <2>9, <2>10, NumberGrow
<1>2. ASSUME NEW d \in Delays, Schedule(d) PROVE NumberInv'
  <2>1. m_currentTs + d \in Nat /\ m_currentContext \in AnyContext
      BY ConstantsAssumption DEF Delays, TypeOK
  <2> QED BY <1>2, <1>1, <2>1 DEF Schedule
<1>3. CASE ScheduleNow
  <2>1. m_currentTs \in Nat /\ m_currentContext \in AnyContext
      BY DEF TypeOK
  <2> QED BY <1>3, <1>1, <2>1 DEF ScheduleNow
<1>4. ASSUME NEW c \in Contexts, NEW d \in Delays, ScheduleWithContext(c, d)
      PROVE NumberInv'
  <2>1. m_currentTs + d \in Nat /\ c \in AnyContext
      BY ConstantsAssumption DEF Delays, TypeOK, AnyContext
  <2> QED BY <1>4, <1>1, <2>1 DEF ScheduleWithContext
<1>5. CASE ScheduleDestroy
  <2> DEFINE id == [impl |-> nextImpl, ts |-> m_currentTs,
                    context |-> NoContext, uid |-> DestroyUid]
  <2>1. id.impl = nextImpl /\ id.uid = DestroyUid
      OBVIOUS
  <2>2. /\ m_destroyEvents' = Append(m_destroyEvents, id)
        /\ ids' = ids \cup {id}
        /\ m_uid' = (m_uid + 1) % UidModulus
        /\ nextImpl' = nextImpl + 1
        /\ UNCHANGED <<m_events, m_eventsWithContext>>
      BY <1>5 DEF ScheduleDestroy, handOver
  <2>3. id \in EventIds
      BY DEF EventIds, TypeOK, AnyContext, DestroyUid
  <2> HIDE DEF id
  <2>4. Range(m_destroyEvents') = Range(m_destroyEvents) \cup {id}
        /\ Distinct(m_destroyEvents')
    <3>1. id \notin Range(m_destroyEvents)
        BY <1>a, <2>1 DEF NumberInv, Issued
    <3>2. /\ DOMAIN m_destroyEvents = 1..Len(m_destroyEvents)
          /\ DOMAIN m_destroyEvents' = 1..(Len(m_destroyEvents) + 1)
          /\ Len(m_destroyEvents) \in Nat
          /\ m_destroyEvents'[Len(m_destroyEvents) + 1] = id
          /\ \A i \in 1..Len(m_destroyEvents) : m_destroyEvents'[i] = m_destroyEvents[i]
        BY <1>a, <2>2, <2>3
    <3>3. Range(m_destroyEvents') \subseteq Range(m_destroyEvents) \cup {id}
        BY <3>2 DEF Range
    <3>4. Range(m_destroyEvents) \cup {id} \subseteq Range(m_destroyEvents')
        BY <3>2 DEF Range
    <3>5. Distinct(m_destroyEvents')
        BY <1>a, <3>1, <3>2 DEF Range
    <3> QED BY <3>3, <3>4, <3>5
  <2>5. Issued' \subseteq Issued \cup {id}
      BY <2>2, <2>4 DEF Issued
  <2>6. Budget
      BY <1>5 DEF ScheduleDestroy
  <2>7. m_uid' = IF nextImpl' = UidModulus THEN 0 ELSE nextImpl'
      BY <2>2, <2>6, NextNumber
  <2>8. (nextImpl + Len(m_eventsWithContext) <= FirstUid + MaxEvents)'
      BY <2>2, <2>6, NextNumber
  <2>9. (\A e \in m_events : e.uid = e.impl)'
        /\ (\A e \in ids : e.uid = e.impl \/ e.uid = DestroyUid)'
        /\ (\A e \in Range(m_destroyEvents) : e.uid = DestroyUid)'
      BY <2>1, <2>2, <2>4 DEF NumberInv
  <2> DEFINE New == {id}
  <2>10. /\ \A e \in New : nextImpl <= e.impl /\ e.impl < nextImpl + 1
         /\ \A e \in New : e.impl \in Nat
         /\ \A e, f \in New : e.impl = f.impl => e = f
         /\ Issued' \subseteq Issued \cup New
      BY <1>a, <2>1, <2>5
  <2> HIDE DEF New
  <2>11. 1 \in Nat
      OBVIOUS
  <2> QED BY <2>2, <2>4, <2>7, <2>8, <2>9, <2>10, <2>11, NumberGrow
<1>6. CASE \E id \in ids : Cancel(id)
    BY <1>6, <1>a, NumberShrink DEF Cancel, handOver
<1>7. ASSUME NEW id \in ids, RemoveDestroyEvent(id) PROVE NumberInv'
  <2>1. /\ UNCHANGED <<m_events, nextImpl, m_uid, ids, m_eventsWithContext>>
        /\ \/ UNCHANGED m_destroyEvents
           \/ \E i \in DOMAIN m_destroyEvents : m_destroyEvents' = Erase(m_destroyEvents, i)
      BY <1>7 DEF RemoveDestroyEvent, handOver
  <2>2. CASE UNCHANGED m_destroyEvents
      BY <1>a, <2>1, <2>2, NumberShrink
  <2>3. ASSUME NEW i \in DOMAIN m_destroyEvents, m_destroyEvents' = Erase(m_destroyEvents, i)
        PROVE NumberInv'
    <3>1. i \in 1..Len(m_destroyEvents)
        BY <1>a
    <3>2. Range(m_destroyEvents') = Range(m_destroyEvents) \ {m_destroyEvents[i]}
          /\ Distinct(m_destroyEvents')
        BY <1>a, <2>3, <3>1, EraseFromDistinct
    <3> QED BY <1>a, <2>1, <3>2, NumberShrink
  <2> QED BY <2>1, <2>2, <2>3
<1>8. ASSUME NEW id \in ids, RemoveEvent(id) PROVE NumberInv'
  <2>1. m_events' \subseteq m_events
      BY <1>8 DEF RemoveEvent
  <2> QED BY <1>a, <1>8, <2>1, NumberShrink DEF RemoveEvent, handOver
<1>9. CASE Stop
    BY <1>9, <1>a, NumberShrink DEF Stop, handOver
<1>10. ASSUME NEW w \in Workers, NEW c \in Contexts, NEW d \in Delays, HandOverPush(w, c, d)
       PROVE NumberInv'
  <2>1. Len(m_eventsWithContext') = Len(m_eventsWithContext) + 1
    <3>1. m_eventsWithContext \in Seq(HandOvers) /\ [context |-> c, delay |-> d] \in HandOvers
        BY DEF TypeOK, HandOvers
    <3> QED BY <1>10, <3>1 DEF HandOverPush
  <2>2. Budget /\ UNCHANGED <<m_events, m_destroyEvents, nextImpl, m_uid, ids>>
      BY <1>10 DEF HandOverPush
  <2>3. nextImpl' + Len(m_eventsWithContext') <= FirstUid + MaxEvents
      BY <1>a, <2>1, <2>2, ConstantsAssumption DEF Budget, FirstUid
  <2> QED BY <1>a, <2>2, <2>3, NumberShrink
<1>11. CASE \E w \in Workers : HandOverUnlock(w)
    BY <1>11, <1>a, NumberShrink DEF HandOverUnlock
<1>12. CASE CheckEmpty
    BY <1>12, <1>a, NumberShrink DEF CheckEmpty, handOver
<1>13. CASE SwapAndInsert
  <2> DEFINE n == Len(m_eventsWithContext)
  <2>1. /\ m_events' = m_events \cup HandedOver
        /\ m_uid' = (m_uid + n) % UidModulus
        /\ nextImpl' = nextImpl + n
        /\ m_eventsWithContext' = <<>>
        /\ UNCHANGED <<m_destroyEvents, ids>>
      BY <1>13 DEF SwapAndInsert
  <2>2. nextImpl' + Len(m_eventsWithContext') <= FirstUid + MaxEvents
      BY <1>a, <2>1
  <2>3. /\ m_uid' = IF nextImpl' = UidModulus THEN 0 ELSE nextImpl'
        /\ \A e \in HandedOver : nextImpl <= e.impl /\ e.impl < nextImpl + n
        /\ \A e, f \in HandedOver : e.impl = f.impl => e = f
        /\ \A e \in HandedOver : e.uid = e.impl
      BY <2>1, HandedOverFacts
  <2>4. \A e \in HandedOver : e.impl \in Nat
      BY HandedOverType, EventIdFields
  <2>5. Issued' \subseteq Issued \cup HandedOver
      BY <2>1 DEF Issued
  <2>6. (\A e \in m_events : e.uid = e.impl)'
        /\ (\A e \in ids : e.uid = e.impl \/ e.uid = DestroyUid)'
        /\ (\A e \in Range(m_destroyEvents) : e.uid = DestroyUid)'
      BY <2>1, <2>3 DEF NumberInv
  <2> HIDE DEF n
  <2>7. n \in Nat
      BY <1>a DEF n
  <2> QED BY <1>a, <2>1, <2>2, <2>3, <2>4, <2>5, <2>6, <2>7, NumberGrow
<1>14. CASE ProcessOneEvent
  <2>1. m_events' \subseteq m_events
      BY <1>14 DEF ProcessOneEvent
  <2> QED BY <1>a, <1>14, <2>1, NumberShrink DEF ProcessOneEvent, handOver
<1>15. CASE DestroyOneEvent
  <2>1. m_destroyEvents # <<>> /\ m_destroyEvents' = Tail(m_destroyEvents)
        /\ UNCHANGED <<m_events, nextImpl, m_uid, ids, m_eventsWithContext>>
      BY <1>15 DEF DestroyOneEvent, handOver
  <2>2. Range(m_destroyEvents') = Range(m_destroyEvents) \ {Head(m_destroyEvents)}
        /\ Distinct(m_destroyEvents')
      BY <1>a, <2>1, TailOfDistinct
  <2> QED BY <1>a, <2>1, <2>2, NumberShrink
<1>16. CASE HandlerReturns \/ RunReturns \/ Run \/ Destroy \/ DestroyHandlerReturns
            \/ Dispose \/ UNCHANGED vars
    BY <1>16, <1>a, NumberShrink DEF HandlerReturns, RunReturns, Run, Destroy,
       DestroyHandlerReturns, Dispose, handOver, vars
<1>17. CASE ReleaseEvents
    BY <1>17, <1>a, NumberShrink DEF ReleaseEvents, handOver
<1> QED BY <1>2, <1>3, <1>4, <1>5, <1>6, <1>7, <1>8, <1>9, <1>10, <1>11, <1>12,
       <1>13, <1>14, <1>15, <1>16, <1>17
       DEF Next, UserStep, WorkerStep, EngineStep, Remove

-----------------------------------------------------------------------------
(* The order of the keys.                                                  *)

\* A step that keeps the current key and adds only events after it keeps the
\* order, if every event it takes out is marked as cancelled.
LEMMA OrderKeep ==
    ASSUME TypeOK, TypeOK', OrderInv, UNCHANGED <<m_currentTs, m_currentUid>>,
           nextImpl <= nextImpl', cancelled \subseteq cancelled',
           \A e \in m_events' \ m_events :
               m_currentTs < e.ts \/ (m_currentTs = e.ts /\ m_currentUid < e.uid),
           pc' # "disposed" =>
             /\ pc # "disposed"
             /\ \A e \in ids' \ m_events' :
                   \/ e \in ids \ m_events
                   \/ e.uid = DestroyUid
                   \/ e.impl \in cancelled'
    PROVE  OrderInv'
<1>1. m_currentUid' < nextImpl'
    BY DEF OrderInv, TypeOK
<1>2. \A e \in m_events' :
          m_currentTs' < e.ts \/ (m_currentTs' = e.ts /\ m_currentUid' < e.uid)
    BY DEF OrderInv
<1>3. ASSUME pc' # "disposed", NEW e \in ids' \ m_events', e.uid # DestroyUid
      PROVE  \/ e.impl \in cancelled'
             \/ e.ts < m_currentTs'
             \/ e.ts = m_currentTs' /\ e.uid <= m_currentUid'
    BY <1>3 DEF OrderInv
<1> QED BY <1>1, <1>2, <1>3 DEF OrderInv

\* Every step keeps OrderInv.
LEMMA OrderStep ==
    ASSUME NoWrap, TypeOK, TypeOK', NumberInv, OrderInv, [Next]_vars PROVE OrderInv'
<1>a. /\ Len(m_eventsWithContext) \in Nat /\ nextImpl \in Nat /\ nextImpl' \in Nat
      /\ m_currentTs \in Nat /\ m_currentUid \in Nat
    BY DEF TypeOK
<1>b. m_currentUid < nextImpl
    BY DEF OrderInv
<1>1. ASSUME NEW ts \in Nat, NEW c \in AnyContext, m_currentTs <= ts, Budget, UserCode,
             InsertNew(NewEvent(ts, c)),
             ids' = ids \/ ids' = ids \cup {NewEvent(ts, c)}
      PROVE OrderInv'
  <2> DEFINE ev == NewEvent(ts, c)
  <2>1. ev.ts = ts /\ ev.uid = nextImpl
      BY <1>1, NextNumber DEF NewEvent
  <2>2. /\ m_events' = m_events \cup {ev}
        /\ nextImpl' = nextImpl + 1
        /\ UNCHANGED <<m_currentTs, m_currentUid, cancelled, pc>>
      BY <1>1 DEF InsertNew, keyVars, control
  <2> HIDE DEF ev
  <2>3. ids' \ m_events' \subseteq ids \ m_events
      BY <1>1, <2>2 DEF ev
  <2>4. \A e \in m_events' \ m_events :
            m_currentTs < e.ts \/ (m_currentTs = e.ts /\ m_currentUid < e.uid)
      BY <1>a, <1>b, <1>1, <2>1, <2>2
  <2>5. pc # "disposed"
      BY <1>1 DEF UserCode
  <2> QED BY <1>a, <2>2, <2>3, <2>4, <2>5, OrderKeep
<1>2. ASSUME NEW d \in Delays, Schedule(d) PROVE OrderInv'
  <2>1. m_currentTs + d \in Nat /\ m_currentTs <= m_currentTs + d
        /\ m_currentContext \in AnyContext
      BY ConstantsAssumption DEF Delays, TypeOK
  <2> QED BY <1>2, <1>1, <2>1 DEF Schedule
<1>3. CASE ScheduleNow
  <2>1. m_currentTs \in Nat /\ m_currentTs <= m_currentTs /\ m_currentContext \in AnyContext
      BY DEF TypeOK
  <2> QED BY <1>3, <1>1, <2>1 DEF ScheduleNow
<1>4. ASSUME NEW c \in Contexts, NEW d \in Delays, ScheduleWithContext(c, d)
      PROVE OrderInv'
  <2>1. m_currentTs + d \in Nat /\ m_currentTs <= m_currentTs + d /\ c \in AnyContext
      BY ConstantsAssumption DEF Delays, TypeOK, AnyContext
  <2> QED BY <1>4, <1>1, <2>1 DEF ScheduleWithContext
<1>5. CASE ScheduleDestroy
  <2> DEFINE id == [impl |-> nextImpl, ts |-> m_currentTs,
                    context |-> NoContext, uid |-> DestroyUid]
  <2>1. id.uid = DestroyUid
      OBVIOUS
  <2>2. /\ ids' = ids \cup {id}
        /\ nextImpl' = nextImpl + 1
        /\ UNCHANGED <<m_events, m_currentTs, m_currentUid, cancelled, pc>>
      BY <1>5 DEF ScheduleDestroy, keyVars, control
  <2> HIDE DEF id
  <2>3. pc # "disposed"
      BY <1>5 DEF ScheduleDestroy, UserCode
  <2> QED BY <1>a, <2>1, <2>2, <2>3, OrderKeep
<1>6. ASSUME NEW id \in ids, Cancel(id) PROVE OrderInv'
  <2>1. /\ UNCHANGED <<m_events, m_currentTs, m_currentUid, nextImpl, ids, pc>>
        /\ cancelled \subseteq cancelled'
      BY <1>6 DEF Cancel, keyVars, control
  <2> QED BY <1>a, <2>1, OrderKeep
<1>7. ASSUME NEW id \in ids, RemoveDestroyEvent(id) PROVE OrderInv'
  <2>1. UNCHANGED <<m_events, m_currentTs, m_currentUid, nextImpl, ids, pc, cancelled>>
      BY <1>7 DEF RemoveDestroyEvent, keyVars, control
  <2> QED BY <1>a, <2>1, OrderKeep
<1>8. ASSUME NEW id \in ids, RemoveEvent(id) PROVE OrderInv'
  <2>1. UNCHANGED <<m_currentTs, m_currentUid, nextImpl, ids, pc>>
      BY <1>8 DEF RemoveEvent, keyVars, control
  <2>2. \/ UNCHANGED <<m_events, cancelled>>
        \/ m_events' = m_events \ {id} /\ cancelled' = cancelled \cup {id.impl}
      BY <1>8 DEF RemoveEvent
  <2>3. cancelled \subseteq cancelled' /\ m_events' \subseteq m_events
        /\ \A e \in ids' \ m_events' : e \in ids \ m_events \/ e.impl \in cancelled'
      BY <2>1, <2>2
  <2> QED BY <1>a, <2>1, <2>3, OrderKeep
<1>9. CASE Stop \/ CheckEmpty \/ HandlerReturns \/ RunReturns \/ Run \/ Destroy
           \/ DestroyOneEvent \/ DestroyHandlerReturns \/ Dispose
           \/ UNCHANGED vars
  <2>1. UNCHANGED <<m_events, m_currentTs, m_currentUid, nextImpl, ids, cancelled>>
      BY <1>9 DEF Stop, CheckEmpty, HandlerReturns, RunReturns, Run, Destroy, DestroyOneEvent,
         DestroyHandlerReturns, Dispose, vars, keyVars
  <2>2. pc' # "disposed" => pc # "disposed"
      BY <1>9 DEF Stop, CheckEmpty, HandlerReturns, RunReturns, Run, Destroy, DestroyOneEvent,
         DestroyHandlerReturns, Dispose, vars
  <2> QED BY <1>a, <2>1, <2>2, OrderKeep
<1>10. CASE SwapAndInsert
  <2>1. /\ m_events' = m_events \cup HandedOver
        /\ nextImpl' = nextImpl + Len(m_eventsWithContext)
        /\ UNCHANGED <<m_currentTs, m_currentUid, ids, cancelled>>
        /\ pc # "disposed"
      BY <1>10 DEF SwapAndInsert, keyVars
  <2>2. \A h \in HandedOver : m_currentTs < h.ts \/ (m_currentTs = h.ts /\ m_currentUid < h.uid)
    <3> SUFFICES ASSUME NEW h \in HandedOver
                 PROVE  m_currentTs < h.ts \/ (m_currentTs = h.ts /\ m_currentUid < h.uid)
        OBVIOUS
    <3>1. h.uid = h.impl /\ nextImpl <= h.impl /\ m_currentTs <= h.ts
        BY HandedOverFacts
    <3>2. h.uid \in Nat /\ h.ts \in Nat
        BY HandedOverType, EventIdFields
    <3> QED BY <1>a, <1>b, <3>1, <3>2
  <2>3. ids' \ m_events' \subseteq ids \ m_events /\ nextImpl <= nextImpl'
      BY <1>a, <2>1
  <2> QED BY <2>1, <2>2, <2>3, OrderKeep
<1>11. CASE ProcessOneEvent
  <2>1. PICK next \in m_events :
            /\ \A e \in m_events \ {next} : KeyBefore(next, e)
            /\ m_events' = m_events \ {next}
            /\ m_currentTs' = next.ts
            /\ m_currentUid' = next.uid
      BY <1>11 DEF ProcessOneEvent
  <2>2. UNCHANGED <<nextImpl, ids, cancelled>> /\ pc # "disposed"
      BY <1>11 DEF ProcessOneEvent
  <2>3. next \in EventIds /\ next.ts \in Nat /\ next.uid \in Nat
      BY EventIdFields DEF TypeOK
  <2>4. next.uid < nextImpl
      BY DEF NumberInv, Issued
  <2>5. m_currentTs < next.ts \/ (m_currentTs = next.ts /\ m_currentUid < next.uid)
      BY DEF OrderInv
  <2>6. \A e \in m_events' :
            m_currentTs' < e.ts \/ (m_currentTs' = e.ts /\ m_currentUid' < e.uid)
      BY <2>1 DEF KeyBefore
  <2>7. ASSUME NEW e \in ids' \ m_events', e.uid # DestroyUid
        PROVE  \/ e.impl \in cancelled'
               \/ e.ts < m_currentTs'
               \/ e.ts = m_currentTs' /\ e.uid <= m_currentUid'
    <3>1. e.ts \in Nat /\ e.uid \in Nat
        BY <2>2, EventIdFields DEF TypeOK
    <3>2. CASE e = next
        BY <2>1, <3>1, <3>2
    <3>3. CASE e # next
      <4>1. \/ e.impl \in cancelled
            \/ e.ts < m_currentTs
            \/ e.ts = m_currentTs /\ e.uid <= m_currentUid
          BY <2>1, <2>2, <2>7, <3>3 DEF OrderInv
      <4> QED BY <1>a, <2>1, <2>2, <2>3, <2>5, <3>1, <4>1
    <3> QED BY <3>2, <3>3
  <2> QED BY <2>1, <2>2, <2>4, <2>6, <2>7 DEF OrderInv
<1>12. CASE ReleaseEvents
  <2>1. /\ m_events' = {} /\ pc' = "disposed"
        /\ UNCHANGED <<nextImpl, ids, m_currentTs, m_currentUid, cancelled>>
      BY <1>12 DEF ReleaseEvents, keyVars
  <2> QED BY <1>a, <2>1, OrderKeep
<1>13. ASSUME NEW w \in Workers,
              \/ \E c \in Contexts, d \in Delays : HandOverPush(w, c, d)
              \/ HandOverUnlock(w)
       PROVE OrderInv'
  <2>1. UNCHANGED <<m_events, m_currentTs, m_currentUid, nextImpl, ids, cancelled, pc>>
      BY <1>13 DEF HandOverPush, HandOverUnlock, keyVars, control
  <2> QED BY <1>a, <2>1, OrderKeep
<1> QED BY <1>2, <1>3, <1>4, <1>5, <1>6, <1>7, <1>8, <1>9, <1>10, <1>11, <1>12, <1>13
       DEF Next, UserStep, WorkerStep, EngineStep, Remove

-----------------------------------------------------------------------------
(* IsExpired and the account of the events.                                *)

\* The fields of everything that was issued.
LEMMA IssuedFields ==
    ASSUME TypeOK, NumberInv, NEW e \in Issued
    PROVE  /\ e \in EventIds
           /\ e.impl \in FirstUid..(nextImpl - 1)
<1>1. Range(m_destroyEvents) \subseteq EventIds
    BY DEF TypeOK, Range
<1>2. e \in EventIds
    BY <1>1 DEF TypeOK, Issued
<1>3. e.impl \in Nat /\ nextImpl \in Nat /\ FirstUid <= e.impl /\ e.impl < nextImpl
    BY <1>2, EventIdFields DEF NumberInv, TypeOK
<1> QED BY <1>2, <1>3 DEF FirstUid

\* The comparison of keys decides what a search would.
LEMMA ExpiredFromKeys ==
    ASSUME TypeOK, NumberInv, OrderInv PROVE ExpiredExact
<1> SUFFICES ASSUME pc # "disposed", NEW id \in ids
             PROVE  IsExpired(id) <=> id \notin LiveEvents
    BY DEF ExpiredExact
<1>a. id.ts \in Nat /\ id.uid \in Nat /\ m_currentTs \in Nat /\ m_currentUid \in Nat
    BY EventIdFields DEF TypeOK
<1>1. CASE id.uid = DestroyUid
  <2>1. id \notin m_events
    <3> SUFFICES ASSUME id \in m_events PROVE FALSE
        OBVIOUS
    <3>1. id.uid = id.impl /\ FirstUid <= id.impl
        BY DEF NumberInv, Issued
    <3> QED BY <1>1, <3>1 DEF FirstUid, DestroyUid
  <2> QED BY <1>1, <2>1 DEF IsExpired, LiveEvents
<1>2. CASE id.uid # DestroyUid
  <2>1. id \notin Range(m_destroyEvents)
      BY <1>2 DEF NumberInv
  <2>2. CASE id \in m_events
    <3>1. m_currentTs < id.ts \/ (m_currentTs = id.ts /\ m_currentUid < id.uid)
        BY <2>2 DEF OrderInv
    <3>2. ~(id.ts < m_currentTs \/ (id.ts = m_currentTs /\ id.uid <= m_currentUid))
        BY <1>a, <3>1
    <3> QED BY <1>2, <2>1, <2>2, <3>2 DEF IsExpired, LiveEvents
  <2>3. CASE id \notin m_events
    <3>1. \/ id.impl \in cancelled
          \/ id.ts < m_currentTs
          \/ id.ts = m_currentTs /\ id.uid <= m_currentUid
        BY <1>2, <2>3 DEF OrderInv
    <3> QED BY <1>2, <2>1, <2>3, <3>1 DEF IsExpired, LiveEvents
  <2> QED BY <2>2, <2>3
<1> QED BY <1>1, <1>2

\* Numbers separate events: dropping an event from a set drops its number.
LEMMA ImplsWithout ==
    ASSUME NumberInv, NEW S \in SUBSET Issued, NEW e \in Issued
    PROVE  /\ Impls(S \ {e}) = Impls(S) \ {e.impl}
           /\ e \in S <=> e.impl \in Impls(S)
<1>1. \A f \in S : f.impl = e.impl => f = e
    BY DEF NumberInv
<1> QED BY <1>1 DEF Impls

\* Live events have been issued, and nothing is marked that was not issued.
LEMMA LiveIssued == LiveEvents \subseteq Issued
BY DEF LiveEvents, Issued

\* A step that creates the next n events keeps the account.
LEMMA AccountGrow ==
    ASSUME TypeOK, NumberInv, AccountInv, NEW n \in Nat, nextImpl' = nextImpl + n,
           Impls(LiveEvents)' = Impls(LiveEvents) \cup (nextImpl..(nextImpl + n - 1)),
           UNCHANGED <<cancelled, notified, withdrawn>>,
           pc' # "disposed" => pc # "disposed"
    PROVE  AccountInv'
<1>1. nextImpl \in Nat /\ FirstUid <= nextImpl /\ FirstUid \in Nat
    BY DEF TypeOK, NumberInv, FirstUid
<1>2. (FirstUid..(nextImpl - 1)) \cup (nextImpl..(nextImpl + n - 1)) = FirstUid..(nextImpl' - 1)
      /\ (FirstUid..(nextImpl - 1)) \cap (nextImpl..(nextImpl + n - 1)) = {}
    BY <1>1
<1> DEFINE L == Impls(LiveEvents)
           Old == FirstUid..(nextImpl - 1)
           New == nextImpl..(nextImpl + n - 1)
           All == FirstUid..(nextImpl' - 1)
<1> HIDE DEF L, Old, New, All
<1>3. Old \cup New = All /\ Old \cap New = {}
    BY <1>2 DEF Old, New, All
<1>4. L' = L \cup New
    BY DEF L, New
<1>5. ASSUME pc' # "disposed"
      PROVE  /\ L' \cup notified' \cup withdrawn' = All
             /\ L' \cap notified' = {}
             /\ L' \cap withdrawn' = {}
             /\ notified' \cap withdrawn' = {}
  <2>1. /\ L \cup notified \cup withdrawn = Old
        /\ L \cap notified = {} /\ L \cap withdrawn = {} /\ notified \cap withdrawn = {}
      BY <1>5 DEF AccountInv, EventsAccounted, L, Old
  <2> QED BY <1>3, <1>4, <2>1
<1>6. EventsAccounted'
    BY <1>5 DEF EventsAccounted, L, All
<1> QED BY <1>6 DEF AccountInv

\* A step that takes a pending event for execution keeps the account: it is
\* run unless it was cancelled.
LEMMA AccountRun ==
    ASSUME TypeOK, NumberInv, AccountInv, NEW e \in m_events \cup Range(m_destroyEvents),
           LiveEvents' = LiveEvents \ {e},
           notified' = IF e.impl \in cancelled THEN notified ELSE notified \cup {e.impl},
           UNCHANGED <<nextImpl, cancelled, withdrawn>>, pc # "disposed"
    PROVE  AccountInv'
<1> DEFINE L == Impls(LiveEvents)
           All == FirstUid..(nextImpl - 1)
<1>1. e \in Issued
    BY DEF Issued
<1>2. Impls(LiveEvents)' = L \ {e.impl} /\ (e \in LiveEvents <=> e.impl \in L)
  <2>1. Impls(LiveEvents)' = Impls(LiveEvents \ {e})
      BY DEF Impls
  <2> QED BY <1>1, <2>1, LiveIssued, ImplsWithout
<1>3. e.impl \in L <=> e.impl \notin cancelled
    BY <1>2 DEF LiveEvents
<1>4. /\ L \cup notified \cup withdrawn = All
      /\ L \cap notified = {} /\ L \cap withdrawn = {} /\ notified \cap withdrawn = {}
    BY DEF AccountInv, EventsAccounted
<1> HIDE DEF L, All
<1>5. /\ (L \ {e.impl}) \cup notified' \cup withdrawn = All
      /\ (L \ {e.impl}) \cap notified' = {}
      /\ (L \ {e.impl}) \cap withdrawn = {}
      /\ notified' \cap withdrawn = {}
  <2>1. CASE e.impl \in cancelled
      BY <1>3, <1>4, <2>1
  <2>2. CASE e.impl \notin cancelled
      BY <1>3, <1>4, <2>2
  <2> QED BY <2>1, <2>2
<1>6. EventsAccounted'
    BY <1>2, <1>5 DEF EventsAccounted, All
<1> QED BY <1>6 DEF AccountInv

\* A call of Cancel or Remove keeps the account: it withdraws an event that was
\* going to run, and changes nothing for any other.
LEMMA AccountWithdraw ==
    ASSUME TypeOK, NumberInv, AccountInv, NEW id \in ids, Withdraw(id),
           LiveEvents' = LiveEvents \ {id},
           cancelled' = cancelled \/ (cancelled' = cancelled \cup {id.impl} /\ id \in LiveEvents),
           UNCHANGED nextImpl, pc # "disposed"
    PROVE  AccountInv'
<1> DEFINE L == Impls(LiveEvents)
           All == FirstUid..(nextImpl - 1)
<1>1. id \in Issued
    BY DEF Issued
<1>2. Impls(LiveEvents)' = L \ {id.impl} /\ (id \in LiveEvents <=> id.impl \in L)
  <2>1. Impls(LiveEvents)' = Impls(LiveEvents \ {id})
      BY DEF Impls
  <2> QED BY <1>1, <2>1, LiveIssued, ImplsWithout
<1>3. id.impl \in All
    BY <1>1, IssuedFields
<1>4. /\ L \cup notified \cup withdrawn = All
      /\ L \cap notified = {} /\ L \cap withdrawn = {} /\ notified \cap withdrawn = {}
    BY DEF AccountInv, EventsAccounted
<1> HIDE DEF L, All
<1>5. /\ withdrawn' = (IF id.impl \in L THEN withdrawn \cup {id.impl} ELSE withdrawn)
      /\ notified' = notified
    BY <1>3, <1>4 DEF Withdraw
<1>6. /\ (L \ {id.impl}) \cup notified \cup withdrawn' = All
      /\ (L \ {id.impl}) \cap notified = {}
      /\ (L \ {id.impl}) \cap withdrawn' = {}
      /\ notified \cap withdrawn' = {}
  <2>1. CASE id.impl \in L
      BY <1>4, <1>5, <2>1
  <2>2. CASE id.impl \notin L
      BY <1>4, <1>5, <2>2
  <2> QED BY <2>1, <2>2
<1>7. EventsAccounted'
    BY <1>2, <1>5, <1>6 DEF EventsAccounted, All
<1>8. cancelled' \subseteq withdrawn'
    BY <1>2, <1>5 DEF AccountInv
<1> QED BY <1>7, <1>8 DEF AccountInv

\* Every step keeps AccountInv.
LEMMA AccountStep ==
    ASSUME NoWrap, TypeOK, TypeOK', NumberInv, NumberInv', OrderInv, AccountInv, [Next]_vars
    PROVE  AccountInv'
<1> DEFINE D == Range(m_destroyEvents)
           Distinct(s) == \A i, j \in DOMAIN s : s[i] = s[j] => i = j
<1>a. nextImpl \in Nat /\ m_destroyEvents \in Seq(EventIds) /\ Distinct(m_destroyEvents)
    BY DEF TypeOK, NumberInv
<1>b. ASSUME pc # "disposed" PROVE \A k \in cancelled : k < nextImpl
  <2>1. cancelled \subseteq FirstUid..(nextImpl - 1)
      BY <1>b DEF AccountInv, EventsAccounted
  <2> QED BY <1>a, <2>1 DEF FirstUid
<1>1. ASSUME UserCode, NEW ev, ev.impl = nextImpl, nextImpl' = nextImpl + 1,
             m_events' \cup D' = m_events \cup D \cup {ev},
             UNCHANGED <<cancelled, notified, withdrawn, pc>>
      PROVE AccountInv'
  <2>1. pc # "disposed"
      BY <1>1 DEF UserCode
  <2>2. ev.impl \notin cancelled
      BY <1>a, <1>b, <1>1, <2>1
  <2>3. LiveEvents' = LiveEvents \cup {ev}
      BY <1>1, <2>2 DEF LiveEvents
  <2>4. Impls(LiveEvents)' = Impls(LiveEvents) \cup {nextImpl}
      BY <1>1, <2>3 DEF Impls
  <2>5. {nextImpl} = nextImpl..(nextImpl + 1 - 1) /\ 1 \in Nat
      BY <1>a
  <2> QED BY <1>1, <2>1, <2>4, <2>5, AccountGrow
<1>2. ASSUME NEW ts, NEW c, UserCode, InsertNew(NewEvent(ts, c)) PROVE AccountInv'
  <2> DEFINE ev == NewEvent(ts, c)
  <2>1. ev.impl = nextImpl
      BY DEF NewEvent
  <2>2. /\ m_events' = m_events \cup {ev}
        /\ nextImpl' = nextImpl + 1
        /\ UNCHANGED <<m_destroyEvents, cancelled, notified, withdrawn, pc>>
      BY <1>2 DEF InsertNew, control, history
  <2> HIDE DEF ev
  <2>3. m_events' \cup D' = m_events \cup D \cup {ev}
      BY <2>2
  <2> HIDE DEF D
  <2> QED BY <1>1, <1>2, <2>1, <2>2, <2>3
<1>3. CASE \/ \E d \in Delays : Schedule(d)
           \/ ScheduleNow
           \/ \E c \in Contexts, d \in Delays : ScheduleWithContext(c, d)
    BY <1>2, <1>3 DEF Schedule, ScheduleNow, ScheduleWithContext
<1>4. CASE ScheduleDestroy
  <2> DEFINE id == [impl |-> nextImpl, ts |-> m_currentTs,
                    context |-> NoContext, uid |-> DestroyUid]
  <2>1. id.impl = nextImpl
      OBVIOUS
  <2>2. /\ m_destroyEvents' = Append(m_destroyEvents, id)
        /\ nextImpl' = nextImpl + 1
        /\ UNCHANGED <<m_events, cancelled, notified, withdrawn, pc>>
        /\ UserCode
      BY <1>4 DEF ScheduleDestroy, control, history
  <2>3. id \in EventIds
      BY DEF EventIds, TypeOK, AnyContext, DestroyUid
  <2> HIDE DEF id
  <2>4. D' = D \cup {id}
    <3>1. /\ DOMAIN m_destroyEvents = 1..Len(m_destroyEvents)
          /\ DOMAIN m_destroyEvents' = 1..(Len(m_destroyEvents) + 1)
          /\ Len(m_destroyEvents) \in Nat
          /\ m_destroyEvents'[Len(m_destroyEvents) + 1] = id
          /\ \A i \in 1..Len(m_destroyEvents) : m_destroyEvents'[i] = m_destroyEvents[i]
        BY <1>a, <2>2, <2>3
    <3>2. D' \subseteq D \cup {id}
        BY <3>1 DEF Range
    <3>3. D \cup {id} \subseteq D'
        BY <3>1 DEF Range
    <3> QED BY <3>2, <3>3
  <2> HIDE DEF D
  <2>5. m_events' \cup D' = m_events \cup D \cup {id}
      BY <2>2, <2>4
  <2> QED BY <1>1, <2>1, <2>2, <2>5
<1>5. ASSUME UserCode PROVE pc # "disposed" /\ \A id \in ids : IsExpired(id) <=> id \notin LiveEvents
    BY <1>5, ExpiredFromKeys DEF ExpiredExact, UserCode
<1>6. ASSUME NEW id \in ids PROVE \A e \in LiveEvents : e.impl = id.impl => e = id
    BY DEF NumberInv, Issued, LiveEvents
<1>7. ASSUME NEW id \in ids, Cancel(id) PROVE AccountInv'
  <2>1. UserCode /\ Withdraw(id) /\ UNCHANGED <<m_events, m_destroyEvents, nextImpl>>
      BY <1>7 DEF Cancel
  <2>2. cancelled' = IF IsExpired(id) THEN cancelled ELSE cancelled \cup {id.impl}
      BY <1>7 DEF Cancel
  <2>3. pc # "disposed" /\ (IsExpired(id) <=> id \notin LiveEvents)
      BY <1>5, <2>1
  <2>4. CASE id \in LiveEvents
    <3>1. cancelled' = cancelled \cup {id.impl}
        BY <2>2, <2>3, <2>4
    <3>2. LiveEvents' = LiveEvents \ {id}
        BY <1>6, <2>1, <3>1 DEF LiveEvents
    <3> QED BY <2>1, <2>3, <2>4, <3>1, <3>2, AccountWithdraw
  <2>5. CASE id \notin LiveEvents
    <3>1. cancelled' = cancelled
        BY <2>2, <2>3, <2>5
    <3>2. LiveEvents' = LiveEvents \ {id}
        BY <2>1, <2>5, <3>1 DEF LiveEvents
    <3> QED BY <2>1, <2>3, <3>1, <3>2, AccountWithdraw
  <2> QED BY <2>4, <2>5
<1>8. ASSUME NEW id \in ids, RemoveEvent(id) PROVE AccountInv'
  <2>1. UserCode /\ Withdraw(id) /\ UNCHANGED <<m_destroyEvents, nextImpl>>
      BY <1>8 DEF RemoveEvent
  <2>2. IF IsExpired(id)
        THEN UNCHANGED <<m_events, cancelled>>
        ELSE m_events' = m_events \ {id} /\ cancelled' = cancelled \cup {id.impl}
      BY <1>8 DEF RemoveEvent
  <2>3. pc # "disposed" /\ (IsExpired(id) <=> id \notin LiveEvents)
      BY <1>5, <2>1
  <2>4. CASE id \in LiveEvents
    <3>1. m_events' = m_events \ {id} /\ cancelled' = cancelled \cup {id.impl}
        BY <2>2, <2>3, <2>4
    <3>2. LiveEvents' = LiveEvents \ {id}
        BY <1>6, <2>1, <3>1 DEF LiveEvents
    <3> QED BY <2>1, <2>3, <2>4, <3>1, <3>2, AccountWithdraw
  <2>5. CASE id \notin LiveEvents
    <3>1. UNCHANGED <<m_events, cancelled>>
        BY <2>2, <2>3, <2>5
    <3>2. LiveEvents' = LiveEvents \ {id}
        BY <2>1, <2>5, <3>1 DEF LiveEvents
    <3> QED BY <2>1, <2>3, <3>1, <3>2, AccountWithdraw
  <2> QED BY <2>4, <2>5
<1>9. ASSUME NEW id \in ids, RemoveDestroyEvent(id) PROVE AccountInv'
  <2>1. /\ UserCode /\ Withdraw(id) /\ UNCHANGED <<m_events, nextImpl, cancelled>>
        /\ id.uid = DestroyUid
        /\ \/ \E i \in DOMAIN m_destroyEvents : /\ m_destroyEvents[i] = id
                                                /\ m_destroyEvents' = Erase(m_destroyEvents, i)
           \/ id \notin D /\ UNCHANGED m_destroyEvents
      BY <1>9 DEF RemoveDestroyEvent
  <2>2. D' = D \ {id}
    <3>1. ASSUME NEW i \in DOMAIN m_destroyEvents, m_destroyEvents[i] = id,
                 m_destroyEvents' = Erase(m_destroyEvents, i)
          PROVE  D' = D \ {id}
      <4>1. i \in 1..Len(m_destroyEvents)
          BY <1>a
      <4> QED BY <1>a, <3>1, <4>1, EraseFromDistinct
    <3>2. CASE id \notin D /\ UNCHANGED m_destroyEvents
        BY <3>2
    <3> QED BY <2>1, <3>1, <3>2
  <2> HIDE DEF D
  <2>3. id \notin m_events
    <3> SUFFICES ASSUME id \in m_events PROVE FALSE
        OBVIOUS
    <3>1. id.uid = id.impl /\ FirstUid <= id.impl
        BY DEF NumberInv, Issued
    <3> QED BY <2>1, <3>1 DEF FirstUid, DestroyUid
  <2>4. LiveEvents' = LiveEvents \ {id}
      BY <2>1, <2>2, <2>3 DEF LiveEvents, D
  <2>5. pc # "disposed"
      BY <2>1 DEF UserCode
  <2> QED BY <2>1, <2>4, <2>5, AccountWithdraw
<1>10. CASE SwapAndInsert
  <2> DEFINE n == Len(m_eventsWithContext)
  <2>1. /\ m_events' = m_events \cup HandedOver
        /\ nextImpl' = nextImpl + n
        /\ UNCHANGED <<m_destroyEvents, cancelled, notified, withdrawn>>
        /\ pc # "disposed"
      BY <1>10 DEF SwapAndInsert, history
  <2>2. n \in Nat
      BY DEF TypeOK
  <2>3. /\ \A h \in HandedOver : nextImpl <= h.impl /\ h.impl < nextImpl + n
        /\ \A k \in nextImpl..(nextImpl + n - 1) : \E h \in HandedOver : h.impl = k
      BY HandedOverFacts
  <2> HIDE DEF n
  <2>4. \A h \in HandedOver : h.impl \in Nat
      BY HandedOverType, EventIdFields
  <2>5. Impls(HandedOver) = nextImpl..(nextImpl + n - 1)
    <3>1. \A h \in HandedOver : h.impl \in nextImpl..(nextImpl + n - 1)
        BY <1>a, <2>2, <2>3, <2>4
    <3> QED BY <2>3, <3>1 DEF Impls
  <2>6. \A h \in HandedOver : h.impl \notin cancelled
    <3> SUFFICES ASSUME NEW h \in HandedOver, h.impl \in cancelled PROVE FALSE
        OBVIOUS
    <3>1. h.impl < nextImpl /\ nextImpl <= h.impl
        BY <1>b, <2>1, <2>3
    <3> QED BY <1>a, <2>4, <3>1
  <2>7. LiveEvents' = LiveEvents \cup HandedOver
      BY <2>1, <2>6 DEF LiveEvents
  <2>8. Impls(LiveEvents)' = Impls(LiveEvents) \cup Impls(HandedOver)
      BY <2>7 DEF Impls
  <2> QED BY <2>1, <2>2, <2>5, <2>8, AccountGrow
<1>11. CASE ProcessOneEvent
  <2>1. PICK next \in m_events :
            /\ m_events' = m_events \ {next}
            /\ notified' = IF next.impl \in cancelled THEN notified
                                                      ELSE notified \cup {next.impl}
      BY <1>11 DEF ProcessOneEvent
  <2>2. UNCHANGED <<m_destroyEvents, nextImpl, cancelled, withdrawn>> /\ pc # "disposed"
      BY <1>11 DEF ProcessOneEvent
  <2>3. next \notin D
    <3> SUFFICES ASSUME next \in D PROVE FALSE
        OBVIOUS
    <3>1. next.uid = DestroyUid /\ next.uid = next.impl /\ FirstUid <= next.impl
        BY DEF NumberInv, Issued
    <3> QED BY <3>1 DEF FirstUid, DestroyUid
  <2>4. LiveEvents' = LiveEvents \ {next}
      BY <2>1, <2>2, <2>3 DEF LiveEvents
  <2> QED BY <2>1, <2>2, <2>4, AccountRun
<1>12. CASE DestroyOneEvent
  <2> DEFINE e == Head(m_destroyEvents)
  <2>1. /\ m_destroyEvents # <<>> /\ m_destroyEvents' = Tail(m_destroyEvents)
        /\ UNCHANGED <<m_events, nextImpl, cancelled, withdrawn>> /\ pc # "disposed"
        /\ notified' = IF e.impl \in cancelled THEN notified ELSE notified \cup {e.impl}
      BY <1>12 DEF DestroyOneEvent
  <2>2. D' = D \ {e}
      BY <1>a, <2>1, TailOfDistinct
  <2>3. e \in D
      BY <1>a, <2>1 DEF Range
  <2> HIDE DEF e, D
  <2>4. e \notin m_events
    <3> SUFFICES ASSUME e \in m_events PROVE FALSE
        OBVIOUS
    <3>1. e.uid = DestroyUid /\ e.uid = e.impl /\ FirstUid <= e.impl
        BY <2>3 DEF NumberInv, Issued, D
    <3> QED BY <3>1 DEF FirstUid, DestroyUid
  <2>5. LiveEvents' = LiveEvents \ {e}
      BY <2>1, <2>2, <2>4 DEF LiveEvents, D
  <2>6. e \in m_events \cup Range(m_destroyEvents)
      BY <2>3 DEF D
  <2> QED BY <2>1, <2>5, <2>6, AccountRun
<1>13. CASE Stop \/ CheckEmpty \/ HandlerReturns \/ RunReturns \/ Run \/ Destroy
           \/ DestroyHandlerReturns \/ Dispose \/ UNCHANGED vars
  <2>1. UNCHANGED <<m_events, m_destroyEvents, nextImpl, cancelled, notified, withdrawn>>
      BY <1>13 DEF Stop, CheckEmpty, HandlerReturns, RunReturns, Run, Destroy,
         DestroyHandlerReturns, Dispose, vars, history
  <2>2. pc' # "disposed" => pc # "disposed"
      BY <1>13 DEF Stop, CheckEmpty, HandlerReturns, RunReturns, Run, Destroy,
         DestroyHandlerReturns, Dispose, vars
  <2>3. Impls(LiveEvents)' = Impls(LiveEvents)
      BY <2>1 DEF LiveEvents
  <2> QED BY <2>1, <2>2, <2>3 DEF AccountInv, EventsAccounted
<1>14. CASE ReleaseEvents
  <2>1. pc' = "disposed" /\ UNCHANGED <<cancelled, withdrawn>>
      BY <1>14 DEF ReleaseEvents, history
  <2> QED BY <2>1 DEF AccountInv, EventsAccounted
<1>15. ASSUME NEW w \in Workers,
              \/ \E c \in Contexts, d \in Delays : HandOverPush(w, c, d)
              \/ HandOverUnlock(w)
       PROVE AccountInv'
  <2>1. UNCHANGED <<m_events, m_destroyEvents, nextImpl, cancelled, notified, withdrawn, pc>>
      BY <1>15 DEF HandOverPush, HandOverUnlock, control, history
  <2>2. Impls(LiveEvents)' = Impls(LiveEvents)
      BY <2>1 DEF LiveEvents
  <2> QED BY <2>1, <2>2 DEF AccountInv, EventsAccounted
<1> QED BY <1>3, <1>4, <1>7, <1>8, <1>9, <1>10, <1>11, <1>12, <1>13, <1>14, <1>15
       DEF Next, UserStep, WorkerStep, EngineStep, Remove

-----------------------------------------------------------------------------
(* The theorems.                                                           *)

\* EngineInv is inductive.
LEMMA EngineInvariant == ASSUME NoWrap PROVE Spec => []EngineInv
<1>1. Init => EngineInv
  <2> SUFFICES ASSUME Init PROVE EngineInv
      OBVIOUS
  <2>1. Range(m_destroyEvents) = {} /\ LiveEvents = {} /\ Issued = {} /\ DOMAIN m_destroyEvents = {}
      BY DEF Init, Range, LiveEvents, Issued
  <2>2. NumberInv
      BY <2>1, ConstantsAssumption DEF Init, NumberInv, FirstUid
  <2>3. OrderInv
      BY DEF Init, OrderInv, FirstUid
  <2>4. AccountInv
      BY <2>1 DEF Init, AccountInv, EventsAccounted, Impls, FirstUid
  <2> QED BY <2>2, <2>3, <2>4 DEF EngineInv
<1>2. TypeOK /\ TypeOK' /\ EngineInv /\ [Next]_vars => EngineInv'
    BY NumberStep, OrderStep, AccountStep DEF EngineInv
<1> QED BY <1>1, <1>2, TypeCorrect, PTL DEF Spec

\* IsExpired answers exactly what a search of the scheduler would, as long as
\* uids do not wrap around.
THEOREM ExpiredIsExact == ASSUME NoWrap PROVE Spec => []ExpiredExact
<1>1. TypeOK /\ EngineInv => ExpiredExact
    BY ExpiredFromKeys DEF EngineInv
<1> QED BY <1>1, TypeCorrect, EngineInvariant, PTL

\* No event is lost, run twice, or run after it was withdrawn, as long as uids
\* do not wrap around.
THEOREM EveryEventAccounted == ASSUME NoWrap PROVE Spec => []EventsAccounted
<1>1. EngineInv => EventsAccounted
    BY DEF EngineInv, AccountInv
<1> QED BY <1>1, EngineInvariant, PTL

-----------------------------------------------------------------------------
(* DefaultSimulator implements EventList.                                  *)

Item(e) == [ts |-> e.ts, seq |-> e.impl]

\* An insertion of events that are not in the past maps to Insert.
LEMMA MapsToInsert ==
    ASSUME TypeOK, TypeOK', NumberInv, NumberInv', m_events \subseteq m_events',
           nextImpl <= nextImpl', UNCHANGED <<m_currentTs, m_eventCount>>,
           \A e \in m_events' \ m_events :
               m_currentTs <= e.ts /\ nextImpl <= e.impl /\ e.impl < nextImpl'
    PROVE  EngineList!Insert
<1> DEFINE A == {Item(e) : e \in m_events}
           B == {Item(e) : e \in m_events'}
<1>1. /\ nextImpl \in Nat /\ nextImpl' \in Nat /\ m_currentTs \in Nat
      /\ FirstUid <= nextImpl /\ FirstUid <= nextImpl'
    BY DEF TypeOK, NumberInv
<1>2. A \subseteq B
    OBVIOUS
<1>3. ASSUME NEW n \in B \ A
      PROVE  n.ts >= m_currentTs /\ nextImpl - 1 < n.seq /\ n.seq <= nextImpl' - 1
  <2>1. PICK e \in m_events' : n = Item(e)
      OBVIOUS
  <2>2. e \notin m_events
      BY <2>1
  <2>3. e.ts \in Nat /\ e.impl \in Nat
      BY EventIdFields DEF TypeOK
  <2>4. n.ts = e.ts /\ n.seq = e.impl
      BY <2>1 DEF Item
  <2> HIDE DEF A, B
  <2> QED BY <1>1, <2>2, <2>3, <2>4
<1>4. nextImpl' - 1 \in Nat /\ nextImpl - 1 <= nextImpl' - 1
  <2> DEFINE a == nextImpl
             b == nextImpl'
  <2>1. a \in Nat /\ b \in Nat /\ 4 <= b /\ a <= b
      BY <1>1 DEF FirstUid
  <2> HIDE DEF a, b
  <2>2. b - 1 \in Nat /\ a - 1 <= b - 1
      BY <2>1
  <2> QED BY <2>2 DEF a, b
<1>5. /\ A = {[ts |-> e.ts, seq |-> e.impl] : e \in m_events}
      /\ B = {[ts |-> e.ts, seq |-> e.impl] : e \in m_events'}
    BY DEF Item
<1> HIDE DEF A, B
<1> QED BY <1>2, <1>3, <1>4, <1>5 DEF EngineList!Insert

\* A step that only takes events out maps to Drop.
LEMMA MapsToDrop ==
    ASSUME m_events' \subseteq m_events, UNCHANGED <<m_currentTs, m_eventCount, nextImpl>>
    PROVE  EngineList!Drop
BY DEF EngineList!Drop

\* Every step of the engine is a step of the event list or leaves it unchanged.
LEMMA ImplementationStep ==
    ASSUME NoWrap, TypeOK, TypeOK', NumberInv, NumberInv', OrderInv, [Next]_vars
    PROVE  EngineList!Next \/ UNCHANGED EngineList!vars
<1>a. /\ nextImpl \in Nat /\ m_currentTs \in Nat /\ FirstUid <= nextImpl
      /\ Len(m_eventsWithContext) \in Nat
    BY DEF TypeOK, NumberInv
<1>1. ASSUME NEW ts \in Nat, m_currentTs <= ts, NEW c, InsertNew(NewEvent(ts, c))
      PROVE  EngineList!Next
  <2> DEFINE ev == NewEvent(ts, c)
  <2>1. ev.impl = nextImpl /\ ev.ts = ts
      BY DEF NewEvent
  <2>2. /\ m_events' = m_events \cup {ev}
        /\ nextImpl' = nextImpl + 1
        /\ UNCHANGED <<m_currentTs, m_eventCount>>
      BY <1>1 DEF InsertNew, keyVars
  <2> HIDE DEF ev
  <2>3. \A e \in m_events' \ m_events :
            m_currentTs <= e.ts /\ nextImpl <= e.impl /\ e.impl < nextImpl'
      BY <1>a, <1>1, <2>1, <2>2
  <2>4. EngineList!Insert
      BY <1>a, <2>2, <2>3, MapsToInsert
  <2> QED BY <2>4 DEF EngineList!Next
<1>2. ASSUME NEW d \in Delays, Schedule(d) PROVE EngineList!Next
  <2>1. m_currentTs + d \in Nat /\ m_currentTs <= m_currentTs + d
      BY ConstantsAssumption DEF Delays, TypeOK
  <2> QED BY <1>1, <1>2, <2>1 DEF Schedule
<1>3. CASE ScheduleNow
  <2>1. m_currentTs \in Nat /\ m_currentTs <= m_currentTs
      BY DEF TypeOK
  <2> QED BY <1>1, <1>3, <2>1 DEF ScheduleNow
<1>4. ASSUME NEW c \in Contexts, NEW d \in Delays, ScheduleWithContext(c, d)
      PROVE EngineList!Next
  <2>1. m_currentTs + d \in Nat /\ m_currentTs <= m_currentTs + d
      BY ConstantsAssumption DEF Delays, TypeOK
  <2> QED BY <1>1, <1>4, <2>1 DEF ScheduleWithContext
<1>5. CASE ScheduleDestroy
  <2>1. nextImpl' = nextImpl + 1 /\ UNCHANGED <<m_events, m_currentTs, m_eventCount>>
      BY <1>5 DEF ScheduleDestroy, keyVars
  <2>2. EngineList!Insert
      BY <1>a, <2>1, MapsToInsert
  <2> QED BY <2>2 DEF EngineList!Next
<1>6. ASSUME NEW id \in ids, Cancel(id) \/ RemoveDestroyEvent(id) \/ RemoveEvent(id)
      PROVE EngineList!Next
  <2>1. m_events' \subseteq m_events /\ UNCHANGED <<m_currentTs, m_eventCount, nextImpl>>
      BY <1>6 DEF Cancel, RemoveDestroyEvent, RemoveEvent, keyVars
  <2> QED BY <2>1, MapsToDrop DEF EngineList!Next
<1>7. CASE SwapAndInsert
  <2>1. /\ m_events' = m_events \cup HandedOver
        /\ nextImpl' = nextImpl + Len(m_eventsWithContext)
        /\ UNCHANGED <<m_currentTs, m_eventCount>>
      BY <1>7 DEF SwapAndInsert, keyVars
  <2>2. \A e \in m_events' \ m_events :
            m_currentTs <= e.ts /\ nextImpl <= e.impl /\ e.impl < nextImpl'
      BY <2>1, HandedOverFacts
  <2>3. EngineList!Insert
      BY <1>a, <2>1, <2>2, MapsToInsert
  <2> QED BY <2>3 DEF EngineList!Next
<1>8. CASE ProcessOneEvent
  <2> DEFINE A == {Item(e) : e \in m_events}
  <2>1. PICK next \in m_events :
            /\ \A e \in m_events \ {next} : KeyBefore(next, e)
            /\ m_events' = m_events \ {next}
            /\ m_currentTs' = next.ts
      BY <1>8 DEF ProcessOneEvent
  <2>2. m_eventCount' = m_eventCount + 1 /\ UNCHANGED nextImpl
      BY <1>8 DEF ProcessOneEvent
  <2>3. \A e \in m_events : Item(e).ts = e.ts /\ Item(e).seq = e.impl /\ e.uid = e.impl
      BY DEF Item, NumberInv
  <2>4. \A e \in m_events \ {next} : Item(e) # Item(next)
    <3> SUFFICES ASSUME NEW e \in m_events \ {next}, Item(e) = Item(next) PROVE FALSE
        OBVIOUS
    <3>1. e.impl = next.impl
        BY <2>3
    <3> QED BY <3>1 DEF NumberInv, Issued
  <2>5. Item(next) \in A /\ {Item(e) : e \in m_events'} = A \ {Item(next)}
      BY <2>1, <2>4
  <2>6. \A f \in A \ {Item(next)} : EngineList!Before(Item(next), f)
    <3> SUFFICES ASSUME NEW e \in m_events, Item(e) # Item(next)
                 PROVE  EngineList!Before(Item(next), Item(e))
        OBVIOUS
    <3>1. KeyBefore(next, e)
        BY <2>1
    <3> QED BY <2>3, <3>1 DEF EngineList!Before, KeyBefore
  <2>7. EngineList!Fire
    <3>1. /\ Item(next) \in A
          /\ \A f \in A \ {Item(next)} : EngineList!Before(Item(next), f)
          /\ {Item(e) : e \in m_events'} = A \ {Item(next)}
          /\ m_currentTs' = Item(next).ts
        BY <2>1, <2>3, <2>5, <2>6
    <3>2. A = {[ts |-> e.ts, seq |-> e.impl] : e \in m_events}
          /\ {Item(e) : e \in m_events'} = {[ts |-> e.ts, seq |-> e.impl] : e \in m_events'}
        BY DEF Item
    <3> QED BY <2>2, <3>1, <3>2 DEF EngineList!Fire
  <2> QED BY <2>7 DEF EngineList!Next
<1>9. CASE Stop \/ CheckEmpty \/ HandlerReturns \/ RunReturns \/ Run \/ Destroy \/ DestroyOneEvent
           \/ DestroyHandlerReturns \/ Dispose \/ ReleaseEvents \/ UNCHANGED vars
  <2>1. m_events' \subseteq m_events /\ UNCHANGED <<m_currentTs, m_eventCount, nextImpl>>
      BY <1>9 DEF Stop, CheckEmpty, HandlerReturns, RunReturns, Run, Destroy, DestroyOneEvent,
         DestroyHandlerReturns, Dispose, ReleaseEvents, vars, keyVars
  <2> QED BY <2>1, MapsToDrop DEF EngineList!Next
<1>10. ASSUME NEW w \in Workers,
              \/ \E c \in Contexts, d \in Delays : HandOverPush(w, c, d)
              \/ HandOverUnlock(w)
       PROVE EngineList!Next
  <2>1. UNCHANGED <<m_events, m_currentTs, m_eventCount, nextImpl>>
      BY <1>10 DEF HandOverPush, HandOverUnlock, keyVars
  <2> QED BY <2>1, MapsToDrop DEF EngineList!Next
<1> QED BY <1>2, <1>3, <1>4, <1>5, <1>6, <1>7, <1>8, <1>9, <1>10
       DEF Next, UserStep, WorkerStep, EngineStep, Remove

\* DefaultSimulatorImpl runs its events by time stamp, first in first out among
\* equal time stamps, and never backwards in time, as long as uids do not wrap
\* around; what Cancel, Remove, the other threads and Destroy do in between
\* never disturbs that order.
THEOREM EngineImplementsEventList == ASSUME NoWrap PROVE Spec => ImplementsEventList
<1>1. Init => EngineList!Init
    BY DEF Init, EngineList!Init, FirstUid
<1>2. TypeOK /\ TypeOK' /\ EngineInv /\ EngineInv' /\ [Next]_vars
        => [EngineList!Next]_EngineList!vars
    BY ImplementationStep DEF EngineInv
<1> QED BY <1>1, <1>2, TypeCorrect, EngineInvariant, PTL
       DEF Spec, ImplementsEventList, EngineList!Spec

-----------------------------------------------------------------------------
(* The engine's own count of its pending events.                           *)

CountInv ==
    /\ IsFiniteSet(m_events)
    /\ UnscheduledExact

\* A hand-over list of n entries becomes n events.
LEMMA HandedOverCount ==
    ASSUME NoWrap, TypeOK, NumberInv
    PROVE  /\ IsFiniteSet(HandedOver)
           /\ Cardinality(HandedOver) = Len(m_eventsWithContext)
<1> DEFINE n == Len(m_eventsWithContext)
           N == nextImpl..(nextImpl + n - 1)
           f == [h \in HandedOver |-> h.impl]
<1>1. n \in Nat /\ nextImpl \in Nat
    BY DEF TypeOK
<1>2. /\ \A h \in HandedOver : nextImpl <= h.impl /\ h.impl < nextImpl + n
      /\ \A g, h \in HandedOver : g.impl = h.impl => g = h
      /\ \A k \in N : \E h \in HandedOver : h.impl = k
    BY HandedOverFacts
<1> HIDE DEF n
<1>3. \A h \in HandedOver : h.impl \in N
  <2>1. \A h \in HandedOver : h.impl \in Nat
      BY HandedOverType, EventIdFields
  <2> QED BY <1>1, <1>2, <2>1
<1>4. IsFiniteSet(N) /\ Cardinality(N) = n
  <2>1. nextImpl + n - 1 \in Int /\ nextImpl \in Int
      BY <1>1
  <2>2. /\ IsFiniteSet(N)
        /\ Cardinality(N) = IF nextImpl > nextImpl + n - 1 THEN 0
                            ELSE (nextImpl + n - 1) - nextImpl + 1
      BY <2>1, FS_Interval
  <2> QED BY <1>1, <2>2
<1> HIDE DEF N
<1>5. f \in Injection(HandedOver, N)
    BY <1>2, <1>3 DEF Injection, IsInjective
<1>6. f \in Surjection(HandedOver, N)
    BY <1>2, <1>3 DEF Surjection
<1> HIDE DEF f
<1> QED BY <1>4, <1>5, <1>6, FS_Injection DEF n

\* Every step keeps the count.
LEMMA CountStep ==
    ASSUME NoWrap, TypeOK, NumberInv, OrderInv, CountInv, [Next]_vars
    PROVE  CountInv'
<1>a. /\ m_unscheduledEvents \in Int /\ nextImpl \in Nat
      /\ \A e \in m_events : e.impl \in Nat /\ e.impl < nextImpl
  <2>1. \A e \in m_events : e.impl \in Nat
      BY EventIdFields DEF TypeOK
  <2> QED BY <2>1 DEF TypeOK, NumberInv, Issued
<1>b. IsFiniteSet(m_events) /\ Cardinality(m_events) \in Nat
    BY FS_CardinalityType DEF CountInv
<1>1. ASSUME UserCode, NEW ts, NEW c, InsertNew(NewEvent(ts, c)) PROVE CountInv'
  <2> DEFINE ev == NewEvent(ts, c)
  <2>1. ev.impl = nextImpl
      BY DEF NewEvent
  <2>2. /\ m_events' = m_events \cup {ev}
        /\ m_unscheduledEvents' = m_unscheduledEvents + 1
      BY <1>1 DEF InsertNew
  <2> HIDE DEF ev
  <2>3. ev \notin m_events
      BY <1>a, <2>1
  <2>4. IsFiniteSet(m_events') /\ Cardinality(m_events') = Cardinality(m_events) + 1
      BY <1>b, <2>2, <2>3, FS_AddElement
  <2>5. m_unscheduledEvents = Cardinality(m_events)
      BY <1>1 DEF UserCode, CountInv, UnscheduledExact
  <2> QED BY <2>2, <2>4, <2>5 DEF CountInv, UnscheduledExact
<1>2. CASE \/ \E d \in Delays : Schedule(d)
           \/ ScheduleNow
           \/ \E c \in Contexts, d \in Delays : ScheduleWithContext(c, d)
    BY <1>1, <1>2 DEF Schedule, ScheduleNow, ScheduleWithContext
<1>3. ASSUME NEW id \in ids, RemoveEvent(id) PROVE CountInv'
  <2>1. pc # "disposed" /\ m_unscheduledEvents = Cardinality(m_events)
      BY <1>3 DEF RemoveEvent, UserCode, CountInv, UnscheduledExact
  <2>2. CASE IsExpired(id)
    <3>1. UNCHANGED <<m_events, m_unscheduledEvents>>
        BY <1>3, <2>2 DEF RemoveEvent
    <3> QED BY <1>b, <2>1, <3>1 DEF CountInv, UnscheduledExact
  <2>3. CASE ~IsExpired(id)
    <3>1. m_events' = m_events \ {id} /\ m_unscheduledEvents' = m_unscheduledEvents - 1
        BY <1>3, <2>3 DEF RemoveEvent
    <3>2. id \in m_events
      <4>1. id \in LiveEvents /\ id.uid # DestroyUid
          BY <1>3, <2>1, <2>3, ExpiredFromKeys DEF ExpiredExact, RemoveEvent
      <4> QED BY <4>1 DEF LiveEvents, NumberInv
    <3>3. IsFiniteSet(m_events') /\ Cardinality(m_events') = Cardinality(m_events) - 1
        BY <1>b, <3>1, <3>2, FS_RemoveElement
    <3> QED BY <2>1, <3>1, <3>3 DEF CountInv, UnscheduledExact
  <2> QED BY <2>2, <2>3
<1>4. CASE SwapAndInsert
  <2>1. /\ m_events' = m_events \cup HandedOver
        /\ m_unscheduledEvents' = m_unscheduledEvents + Len(m_eventsWithContext)
      BY <1>4 DEF SwapAndInsert
  <2>2. m_unscheduledEvents = Cardinality(m_events)
      BY <1>4 DEF SwapAndInsert, CountInv, UnscheduledExact
  <2>3. m_events \cap HandedOver = {}
    <3> SUFFICES ASSUME NEW h \in HandedOver, h \in m_events PROVE FALSE
        OBVIOUS
    <3>1. nextImpl <= h.impl /\ h.impl < nextImpl /\ h.impl \in Nat
        BY <1>a, HandedOverFacts
    <3> QED BY <1>a, <3>1
  <2>4. /\ IsFiniteSet(m_events')
        /\ Cardinality(m_events') = Cardinality(m_events) + Cardinality(HandedOver) - 0
    <3>1. IsFiniteSet(HandedOver)
        BY HandedOverCount
    <3>2. /\ IsFiniteSet(m_events \cup HandedOver)
          /\ Cardinality(m_events \cup HandedOver) =
               Cardinality(m_events) + Cardinality(HandedOver)
                 - Cardinality(m_events \cap HandedOver)
        BY <1>b, <3>1, FS_Union
    <3> QED BY <2>1, <2>3, <3>2, FS_EmptySet
  <2>5. Cardinality(m_events') = Cardinality(m_events) + Len(m_eventsWithContext)
    <3>1. Cardinality(HandedOver) = Len(m_eventsWithContext) /\ Len(m_eventsWithContext) \in Nat
        BY HandedOverCount DEF TypeOK
    <3> QED BY <1>b, <2>4, <3>1
  <2> QED BY <2>1, <2>2, <2>4, <2>5 DEF CountInv, UnscheduledExact
<1>5. CASE ProcessOneEvent
  <2>1. PICK next \in m_events : m_events' = m_events \ {next}
      BY <1>5 DEF ProcessOneEvent
  <2>2. m_unscheduledEvents' = m_unscheduledEvents - 1
      BY <1>5 DEF ProcessOneEvent
  <2>3. m_unscheduledEvents = Cardinality(m_events)
      BY <1>5 DEF ProcessOneEvent, CountInv, UnscheduledExact
  <2>4. IsFiniteSet(m_events') /\ Cardinality(m_events') = Cardinality(m_events) - 1
      BY <1>b, <2>1, FS_RemoveElement
  <2> QED BY <2>2, <2>3, <2>4 DEF CountInv, UnscheduledExact
<1>6. CASE ReleaseEvents
  <2>1. m_events' = {} /\ pc' = "disposed"
      BY <1>6 DEF ReleaseEvents
  <2> QED BY <2>1, FS_EmptySet DEF CountInv, UnscheduledExact
<1>7. CASE \/ ScheduleDestroy \/ Stop \/ CheckEmpty \/ HandlerReturns \/ RunReturns \/ Run
           \/ Destroy \/ DestroyOneEvent \/ DestroyHandlerReturns \/ Dispose \/ UNCHANGED vars
  <2>1. UNCHANGED <<m_events, m_unscheduledEvents>>
      BY <1>7 DEF ScheduleDestroy, Stop, CheckEmpty, HandlerReturns, RunReturns, Run, Destroy,
         DestroyOneEvent, DestroyHandlerReturns, Dispose, vars
  <2>2. pc' # "disposed" => pc # "disposed"
      BY <1>7 DEF ScheduleDestroy, UserCode, Stop, CheckEmpty, HandlerReturns, RunReturns, Run,
         Destroy, DestroyOneEvent, DestroyHandlerReturns, Dispose, vars
  <2> QED BY <2>1, <2>2 DEF CountInv, UnscheduledExact
<1>8. ASSUME NEW id \in ids, Cancel(id) \/ RemoveDestroyEvent(id) PROVE CountInv'
  <2>1. UNCHANGED <<m_events, m_unscheduledEvents, pc>>
      BY <1>8 DEF Cancel, RemoveDestroyEvent, control
  <2> QED BY <2>1 DEF CountInv, UnscheduledExact
<1>9. ASSUME NEW w \in Workers,
             \/ \E c \in Contexts, d \in Delays : HandOverPush(w, c, d)
             \/ HandOverUnlock(w)
      PROVE CountInv'
  <2>1. UNCHANGED <<m_events, m_unscheduledEvents, pc>>
      BY <1>9 DEF HandOverPush, HandOverUnlock, control
  <2> QED BY <2>1 DEF CountInv, UnscheduledExact
<1> QED BY <1>2, <1>3, <1>4, <1>5, <1>6, <1>7, <1>8, <1>9
       DEF Next, UserStep, WorkerStep, EngineStep, Remove

\* The assertion at the end of Run holds: m_unscheduledEvents always equals the
\* number of pending events, as long as uids do not wrap around.
THEOREM UnscheduledCountExact == ASSUME NoWrap PROVE Spec => []UnscheduledExact
<1>1. Init => CountInv
    BY FS_EmptySet DEF Init, CountInv, UnscheduledExact
<1>2. TypeOK /\ EngineInv /\ CountInv /\ [Next]_vars => CountInv'
    BY CountStep DEF EngineInv
<1>3. CountInv => UnscheduledExact
    BY DEF CountInv
<1> QED BY <1>1, <1>2, <1>3, TypeCorrect, EngineInvariant, PTL DEF Spec
=============================================================================
