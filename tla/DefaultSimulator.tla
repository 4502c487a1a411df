-------------------------- MODULE DefaultSimulator --------------------------
(***************************************************************************)
(* DefaultSimulatorImpl (src/core/model/default-simulator-impl.cc): the    *)
(* sequential event engine of ns-3.  One main thread inserts events, runs  *)
(* them in the order of their keys and may cancel or remove them through   *)
(* the EventIds it holds; other threads may only hand events over through  *)
(* a mutex-protected list that the main thread empties after every event.  *)
(*                                                                         *)
(* An event handler is arbitrary user code: any sequence of the user       *)
(* operations below.  The scheduler is the set of its pending events and   *)
(* RemoveNext its minimum; the data structures behind it have modules of   *)
(* their own (HeapScheduler, ListScheduler, CalendarScheduler).            *)
(***************************************************************************)
EXTENDS Integers, Sequences, FiniteSets, Functions, StdList

CONSTANTS
    Workers,      \* the threads other than m_main
    NoThread,     \* the mutex is free
    Contexts,     \* execution contexts (node ids)
    NoContext,    \* Simulator::NO_CONTEXT
    MaxDelay,     \* bound: largest delay passed to Schedule
    MaxEvents,    \* bound: events created in a behaviour
    UidModulus    \* m_uid is unsigned: 2^32 in the code

DestroyUid == 2   \* the uid shared by all destroy events
FirstUid   == 4   \* the uid of the first ordinary event

ASSUME ConstantsAssumption ==
    /\ MaxDelay \in Nat
    /\ MaxEvents \in Nat
    /\ UidModulus \in Nat /\ UidModulus > FirstUid
    /\ NoThread \notin Workers
    /\ NoContext \notin Contexts

\* No behaviour within the bounds makes m_uid wrap around.
NoWrap == FirstUid + MaxEvents <= UidModulus

VARIABLES
    m_events,              \* pending events [impl, ts, context, uid]
    m_destroyEvents,       \* EventIds waiting for Destroy
    m_uid,                 \* uid of the next event
    m_currentTs, m_currentUid, m_currentContext,   \* key of the event run last
    m_unscheduledEvents,   \* the engine's own count of pending events
    m_eventCount,          \* events taken from the scheduler
    m_stop,
    m_eventsWithContext,   \* hand-over list: [context, delay]
    m_eventsWithContextEmpty,
    m_eventsWithContextMutex,
    cancelled,             \* the EventImpls whose m_cancel is set
    nextImpl,              \* EventImpls are numbered in order of insertion
    ids,                   \* EventIds the user code holds
    pc, ret,               \* where the main thread is, and where it returns to
    notified,              \* history: EventImpls whose Notify has run
    withdrawn              \* history: cancelled or removed before they ran

keyVars     == <<m_currentTs, m_currentUid, m_currentContext>>
handOver    == <<m_eventsWithContext, m_eventsWithContextEmpty,
                 m_eventsWithContextMutex>>
control     == <<m_stop, pc, ret>>
history     == <<notified, withdrawn>>
vars == <<m_events, m_destroyEvents, m_uid, keyVars, m_unscheduledEvents,
          m_eventCount, m_stop, handOver, cancelled, nextImpl, ids, pc, ret,
          notified, withdrawn>>

Delays     == 0..MaxDelay
AnyContext == Contexts \cup {NoContext}
HandOvers  == [context : Contexts, delay : Delays]
EventIds   == [impl : Nat, ts : Nat, context : AnyContext, uid : Nat]

-----------------------------------------------------------------------------
(* The order of the pending events: scheduler.h, operator < on EventKey.   *)

\* Mutant: a comparison by time stamp alone.
KeyBefore_TimeOnly(a, b) == a.ts <= b.ts

KeyBefore(a, b) == a.ts < b.ts \/ (a.ts = b.ts /\ a.uid < b.uid)

\* Mutant: the running event counts as unexpired.
IsExpired_StrictUid(id) ==
    IF id.uid = DestroyUid
    THEN id.impl \in cancelled \/ id \notin Range(m_destroyEvents)
    ELSE \/ id.ts < m_currentTs
         \/ id.ts = m_currentTs /\ id.uid < m_currentUid
         \/ id.impl \in cancelled

\* EventId::IsExpired: decided from the id and the key of the current event
\* alone; the scheduler is not searched.
IsExpired(id) ==
    IF id.uid = DestroyUid
    THEN id.impl \in cancelled \/ id \notin Range(m_destroyEvents)
    ELSE \/ id.ts < m_currentTs
         \/ id.ts = m_currentTs /\ id.uid <= m_currentUid
         \/ id.impl \in cancelled

Init ==
    /\ m_events = {}
    /\ m_destroyEvents = <<>>
    /\ m_uid = FirstUid
    /\ m_currentTs = 0 /\ m_currentUid = 0 /\ m_currentContext = NoContext
    /\ m_unscheduledEvents = 0
    /\ m_eventCount = 0
    /\ m_stop = FALSE
    /\ m_eventsWithContext = <<>>
    /\ m_eventsWithContextEmpty = TRUE
    /\ m_eventsWithContextMutex = NoThread
    /\ cancelled = {}
    /\ nextImpl = FirstUid
    /\ ids = {}
    /\ pc = "outside" /\ ret = "outside"
    /\ notified = {}
    /\ withdrawn = {}

-----------------------------------------------------------------------------
(* Operations of the user code, called from outside Run, from an event     *)
(* handler or from the handler of a destroy event.                         *)

UserCode == pc \in {"outside", "handler", "destroyHandler"}

\* The bound on events counts those still waiting in the hand-over list.
Budget == nextImpl + Len(m_eventsWithContext) < FirstUid + MaxEvents

NewEvent(ts, context) ==
    [impl |-> nextImpl, ts |-> ts, context |-> context, uid |-> m_uid]

\* Mutant: a uid wider than the field that holds it.
InsertNew_NoModulus(ev) ==
    /\ m_events' = m_events \cup {ev}
    /\ m_uid' = m_uid + 1
    /\ m_unscheduledEvents' = m_unscheduledEvents + 1
    /\ nextImpl' = nextImpl + 1
    /\ UNCHANGED <<m_destroyEvents, keyVars, m_eventCount, handOver, cancelled,
                   control, history>>

\* The lines that the three ways of scheduling have in common.
InsertNew(ev) ==
    /\ m_events' = m_events \cup {ev}
    /\ m_uid' = (m_uid + 1) % UidModulus
    /\ m_unscheduledEvents' = m_unscheduledEvents + 1
    /\ nextImpl' = nextImpl + 1
    /\ UNCHANGED <<m_destroyEvents, keyVars, m_eventCount, handOver, cancelled,
                   control, history>>

\* Simulator::Stop (delay) is this operation for a handler that calls Stop.
Schedule(delay) ==
    /\ UserCode /\ Budget
    /\ LET ev == NewEvent(m_currentTs + delay, m_currentContext)
       IN  InsertNew(ev) /\ ids' = ids \cup {ev}

ScheduleNow ==
    /\ UserCode /\ Budget
    /\ LET ev == NewEvent(m_currentTs, m_currentContext)
       IN  InsertNew(ev) /\ ids' = ids \cup {ev}

\* Called by the main thread; returns no EventId.
ScheduleWithContext(context, delay) ==
    /\ UserCode /\ Budget
    /\ InsertNew(NewEvent(m_currentTs + delay, context))
    /\ UNCHANGED ids

ScheduleDestroy ==
    /\ UserCode /\ Budget
    /\ LET id == [impl |-> nextImpl, ts |-> m_currentTs,
                  context |-> NoContext, uid |-> DestroyUid]
       IN  /\ m_destroyEvents' = Append(m_destroyEvents, id)
           /\ ids' = ids \cup {id}
    /\ m_uid' = (m_uid + 1) % UidModulus
    /\ nextImpl' = nextImpl + 1
    /\ UNCHANGED <<m_events, keyVars, m_unscheduledEvents, m_eventCount,
                   handOver, cancelled, control, history>>

\* What the caller asked for, whatever the engine makes of it.
Withdraw(id) ==
    /\ withdrawn' = IF id.impl \in notified THEN withdrawn
                                            ELSE withdrawn \cup {id.impl}
    /\ UNCHANGED notified

Cancel(id) ==
    /\ UserCode
    /\ cancelled' = IF IsExpired(id) THEN cancelled ELSE cancelled \cup {id.impl}
    /\ Withdraw(id)
    /\ UNCHANGED <<m_events, m_destroyEvents, m_uid, keyVars,
                   m_unscheduledEvents, m_eventCount, handOver, nextImpl, ids,
                   control>>

\* Remove of a destroy event takes it out of the list and leaves m_cancel alone.
RemoveDestroyEvent(id) ==
    /\ UserCode
    /\ id.uid = DestroyUid
    /\ \/ \E i \in DOMAIN m_destroyEvents :
             /\ m_destroyEvents[i] = id
             /\ m_destroyEvents' = Erase(m_destroyEvents, i)
       \/ id \notin Range(m_destroyEvents) /\ UNCHANGED m_destroyEvents
    /\ Withdraw(id)
    /\ UNCHANGED <<m_events, m_uid, keyVars, m_unscheduledEvents, m_eventCount,
                   handOver, cancelled, nextImpl, ids, control>>

\* Mutant: the count of pending events is not adjusted.
RemoveEvent_NotCounted(id) ==
    /\ UserCode
    /\ id.uid # DestroyUid
    /\ IF IsExpired(id)
       THEN UNCHANGED <<m_events, cancelled>>
       ELSE /\ m_events' = m_events \ {id}
            /\ cancelled' = cancelled \cup {id.impl}
    /\ Withdraw(id)
    /\ UNCHANGED <<m_destroyEvents, m_uid, keyVars, m_unscheduledEvents,
                   m_eventCount, handOver, nextImpl, ids, control>>

RemoveEvent(id) ==
    /\ UserCode
    /\ id.uid # DestroyUid
    /\ IF IsExpired(id)
       THEN UNCHANGED <<m_events, cancelled, m_unscheduledEvents>>
       ELSE /\ m_events' = m_events \ {id}
            /\ cancelled' = cancelled \cup {id.impl}
            /\ m_unscheduledEvents' = m_unscheduledEvents - 1
    /\ Withdraw(id)
    /\ UNCHANGED <<m_destroyEvents, m_uid, keyVars, m_eventCount, handOver,
                   nextImpl, ids, control>>

Remove(id) == RemoveDestroyEvent(id) \/ RemoveEvent(id)

Stop ==
    /\ UserCode
    /\ m_stop' = TRUE
    /\ UNCHANGED <<m_events, m_destroyEvents, m_uid, keyVars,
                   m_unscheduledEvents, m_eventCount, handOver, cancelled,
                   nextImpl, ids, pc, ret, history>>

-----------------------------------------------------------------------------
(* ScheduleWithContext called by another thread.  The list is filled under *)
(* the mutex, the flag follows; the main thread may read the flag between. *)

HandOverPush(w, context, delay) ==
    /\ pc \notin {"disposing", "disposed"} /\ ret # "disposing"
    /\ Budget
    /\ m_eventsWithContextMutex = NoThread
    /\ m_eventsWithContextMutex' = w
    /\ m_eventsWithContext' =
          Append(m_eventsWithContext, [context |-> context, delay |-> delay])
    /\ UNCHANGED <<m_events, m_destroyEvents, m_uid, keyVars,
                   m_unscheduledEvents, m_eventCount, m_eventsWithContextEmpty,
                   cancelled, nextImpl, ids, control, history>>

\* Mutants: the flag is forgotten, or the mutex.
HandOverUnlock_Unannounced(w) ==
    /\ m_eventsWithContextMutex = w
    /\ m_eventsWithContextMutex' = NoThread
    /\ UNCHANGED <<m_events, m_destroyEvents, m_uid, keyVars,
                   m_unscheduledEvents, m_eventCount, m_eventsWithContext,
                   m_eventsWithContextEmpty, cancelled, nextImpl, ids, control,
                   history>>

HandOverUnlock_KeepsMutex(w) ==
    /\ m_eventsWithContextMutex = w
    /\ m_eventsWithContextEmpty' = FALSE
    /\ UNCHANGED <<m_events, m_destroyEvents, m_uid, keyVars,
                   m_unscheduledEvents, m_eventCount, m_eventsWithContext,
                   m_eventsWithContextMutex, cancelled, nextImpl, ids, control,
                   history>>

HandOverUnlock(w) ==
    /\ m_eventsWithContextMutex = w
    /\ m_eventsWithContextEmpty' = FALSE
    /\ m_eventsWithContextMutex' = NoThread
    /\ UNCHANGED <<m_events, m_destroyEvents, m_uid, keyVars,
                   m_unscheduledEvents, m_eventCount, m_eventsWithContext,
                   cancelled, nextImpl, ids, control, history>>

-----------------------------------------------------------------------------
(* The main thread.  ProcessEventsWithContext is called from three places; *)
(* ret says from which: Run before its loop ("enter"), ProcessOneEvent     *)
(* ("loop") and DoDispose ("disposing").                                   *)

Run ==
    /\ pc = "outside"
    /\ pc' = "check" /\ ret' = "enter"
    /\ UNCHANGED <<m_events, m_destroyEvents, m_uid, keyVars,
                   m_unscheduledEvents, m_eventCount, m_stop, handOver,
                   cancelled, nextImpl, ids, history>>

\* Back from ProcessEventsWithContext.  Run clears m_stop only now.
Return ==
    /\ pc' = IF ret = "enter" THEN "loop" ELSE ret
    /\ m_stop' = IF ret = "enter" THEN FALSE ELSE m_stop
    /\ ret' = "outside"

\* Mutant: the flag is reset where it is read, outside the critical section.
CheckEmpty_ResetsFlag ==
    /\ pc = "check"
    /\ IF m_eventsWithContextEmpty
       THEN Return
       ELSE pc' = "swap" /\ UNCHANGED <<ret, m_stop>>
    /\ m_eventsWithContextEmpty' = TRUE
    /\ UNCHANGED <<m_events, m_destroyEvents, m_uid, keyVars,
                   m_unscheduledEvents, m_eventCount, m_eventsWithContext,
                   m_eventsWithContextMutex, cancelled, nextImpl, ids, history>>

\* The flag is read without the mutex.
CheckEmpty ==
    /\ pc = "check"
    /\ IF m_eventsWithContextEmpty
       THEN Return
       ELSE pc' = "swap" /\ UNCHANGED <<ret, m_stop>>
    /\ UNCHANGED <<m_events, m_destroyEvents, m_uid, keyVars,
                   m_unscheduledEvents, m_eventCount, handOver, cancelled,
                   nextImpl, ids, history>>

\* The events of the swapped list as they are inserted: uids in list order,
\* time stamps relative to the current time.
HandedOver ==
    {[impl    |-> nextImpl + i - 1,
      ts      |-> m_currentTs + m_eventsWithContext[i].delay,
      context |-> m_eventsWithContext[i].context,
      uid     |-> (m_uid + i - 1) % UidModulus] :
        i \in 1..Len(m_eventsWithContext)}

\* The swap needs the mutex; the insertions after it touch the main thread's
\* state only, so they are one step with it.
SwapAndInsert ==
    /\ pc = "swap"
    /\ m_eventsWithContextMutex = NoThread
    /\ m_events' = m_events \cup HandedOver
    /\ m_uid' = (m_uid + Len(m_eventsWithContext)) % UidModulus
    /\ m_unscheduledEvents' = m_unscheduledEvents + Len(m_eventsWithContext)
    /\ nextImpl' = nextImpl + Len(m_eventsWithContext)
    /\ m_eventsWithContext' = <<>>
    /\ m_eventsWithContextEmpty' = TRUE
    /\ Return
    /\ UNCHANGED <<m_destroyEvents, keyVars, m_eventCount,
                   m_eventsWithContextMutex, cancelled, ids, history>>

\* Mutant: Invoke does not look at m_cancel.
ProcessOneEvent_IgnoresCancel ==
    /\ pc = "loop"
    /\ ~m_stop
    /\ \E next \in m_events :
          /\ \A e \in m_events \ {next} : KeyBefore(next, e)
          /\ m_events' = m_events \ {next}
          /\ m_currentTs' = next.ts
          /\ m_currentContext' = next.context
          /\ m_currentUid' = next.uid
          /\ notified' = notified \cup {next.impl}
    /\ pc' = "handler"
    /\ m_unscheduledEvents' = m_unscheduledEvents - 1
    /\ m_eventCount' = m_eventCount + 1
    /\ UNCHANGED <<m_destroyEvents, m_uid, m_stop, handOver, cancelled,
                   nextImpl, ids, ret, withdrawn>>

\* Scheduler::RemoveNext, the current key, and EventImpl::Invoke, which skips
\* Notify when the event was cancelled.
ProcessOneEvent ==
    /\ pc = "loop"
    /\ ~m_stop
    /\ \E next \in m_events :
          /\ \A e \in m_events \ {next} : KeyBefore(next, e)
          /\ m_events' = m_events \ {next}
          /\ m_currentTs' = next.ts
          /\ m_currentContext' = next.context
          /\ m_currentUid' = next.uid
          /\ IF next.impl \in cancelled
             THEN pc' = "check" /\ ret' = "loop" /\ UNCHANGED notified
             ELSE pc' = "handler" /\ UNCHANGED ret
                  /\ notified' = notified \cup {next.impl}
    /\ m_unscheduledEvents' = m_unscheduledEvents - 1
    /\ m_eventCount' = m_eventCount + 1
    /\ UNCHANGED <<m_destroyEvents, m_uid, m_stop, handOver, cancelled,
                   nextImpl, ids, withdrawn>>

\* The handler returns; ProcessOneEvent goes on with the hand-over list.
HandlerReturns ==
    /\ pc = "handler"
    /\ pc' = "check" /\ ret' = "loop"
    /\ UNCHANGED <<m_events, m_destroyEvents, m_uid, keyVars,
                   m_unscheduledEvents, m_eventCount, m_stop, handOver,
                   cancelled, nextImpl, ids, history>>

RunReturns ==
    /\ pc = "loop"
    /\ m_events = {} \/ m_stop
    /\ pc' = "outside"
    /\ UNCHANGED <<m_events, m_destroyEvents, m_uid, keyVars,
                   m_unscheduledEvents, m_eventCount, m_stop, handOver,
                   cancelled, nextImpl, ids, ret, history>>

Destroy ==
    /\ pc = "outside"
    /\ pc' = "destroy"
    /\ UNCHANGED <<m_events, m_destroyEvents, m_uid, keyVars,
                   m_unscheduledEvents, m_eventCount, m_stop, handOver,
                   cancelled, nextImpl, ids, ret, history>>

\* One iteration of Destroy: the event leaves the list before it is invoked.
DestroyOneEvent ==
    /\ pc = "destroy"
    /\ m_destroyEvents # <<>>
    /\ m_destroyEvents' = Tail(m_destroyEvents)
    /\ IF Head(m_destroyEvents).impl \in cancelled
       THEN UNCHANGED <<pc, notified>>
       ELSE /\ pc' = "destroyHandler"
            /\ notified' = notified \cup {Head(m_destroyEvents).impl}
    /\ UNCHANGED <<m_events, m_uid, keyVars, m_unscheduledEvents, m_eventCount,
                   m_stop, handOver, cancelled, nextImpl, ids, ret, withdrawn>>

DestroyHandlerReturns ==
    /\ pc = "destroyHandler"
    /\ pc' = "destroy"
    /\ UNCHANGED <<m_events, m_destroyEvents, m_uid, keyVars,
                   m_unscheduledEvents, m_eventCount, m_stop, handOver,
                   cancelled, nextImpl, ids, ret, history>>

\* Mutant: DoDispose does not empty the hand-over list.
Dispose_NoDrain ==
    /\ pc = "destroy"
    /\ m_destroyEvents = <<>>
    /\ m_eventsWithContextMutex = NoThread
    /\ pc' = "disposing"
    /\ UNCHANGED <<m_events, m_destroyEvents, m_uid, keyVars,
                   m_unscheduledEvents, m_eventCount, m_stop, handOver,
                   cancelled, nextImpl, ids, ret, history>>

\* Destroy is done and the engine is disposed of.  The other threads are
\* joined by destroy events: none is left inside ScheduleWithContext.
Dispose ==
    /\ pc = "destroy"
    /\ m_destroyEvents = <<>>
    /\ m_eventsWithContextMutex = NoThread
    /\ pc' = "check" /\ ret' = "disposing"
    /\ UNCHANGED <<m_events, m_destroyEvents, m_uid, keyVars,
                   m_unscheduledEvents, m_eventCount, m_stop, handOver,
                   cancelled, nextImpl, ids, history>>

\* The rest of DoDispose: every pending event is released, none is run.
ReleaseEvents ==
    /\ pc = "disposing"
    /\ m_events' = {}
    /\ pc' = "disposed"
    /\ UNCHANGED <<m_destroyEvents, m_uid, keyVars, m_unscheduledEvents,
                   m_eventCount, m_stop, handOver, cancelled, nextImpl, ids,
                   ret, history>>

UserStep ==
    \/ \E d \in Delays : Schedule(d)
    \/ ScheduleNow
    \/ \E c \in Contexts, d \in Delays : ScheduleWithContext(c, d)
    \/ ScheduleDestroy
    \/ \E id \in ids : Cancel(id)
    \/ \E id \in ids : Remove(id)
    \/ Stop

WorkerStep ==
    \E w \in Workers :
        \/ \E c \in Contexts, d \in Delays : HandOverPush(w, c, d)
        \/ HandOverUnlock(w)

\* What the main thread does by itself once Run or Destroy has been called.
EngineStep ==
    \/ CheckEmpty
    \/ SwapAndInsert
    \/ ProcessOneEvent
    \/ HandlerReturns
    \/ RunReturns
    \/ DestroyOneEvent
    \/ DestroyHandlerReturns
    \/ Dispose
    \/ ReleaseEvents

Next == UserStep \/ WorkerStep \/ EngineStep \/ Run \/ Destroy

Spec == Init /\ [][Next]_vars

\* Threads are scheduled fairly, handlers return, and a thread that holds the
\* mutex lets go of it.  Nobody is obliged to call anything.
Fairness ==
    /\ WF_vars(EngineStep)
    /\ \A w \in Workers : WF_vars(HandOverUnlock(w))

FairSpec == Spec /\ Fairness

-----------------------------------------------------------------------------
(* Properties.                                                             *)

Impls(S) == {e.impl : e \in S}

\* The events that are still going to run unless they are withdrawn.
LiveEvents == {e \in m_events \cup Range(m_destroyEvents) : e.impl \notin cancelled}

\* The values every variable of DefaultSimulatorImpl may take.
TypeOK ==
    /\ m_events \in SUBSET EventIds /\ ids \in SUBSET EventIds
    /\ m_destroyEvents \in Seq(EventIds)
    /\ m_uid \in 0..(UidModulus - 1)
    /\ m_currentTs \in Nat /\ m_currentUid \in Nat
    /\ m_currentContext \in AnyContext
    /\ m_unscheduledEvents \in Int
    /\ m_eventCount \in Nat
    /\ m_stop \in BOOLEAN
    /\ m_eventsWithContext \in Seq(HandOvers)
    /\ m_eventsWithContextEmpty \in BOOLEAN
    /\ m_eventsWithContextMutex \in Workers \cup {NoThread}
    /\ nextImpl \in Nat
    /\ cancelled \in SUBSET Nat
    /\ notified \in SUBSET Nat /\ withdrawn \in SUBSET Nat
    /\ pc \in {"outside", "check", "swap", "loop", "handler", "destroy",
              "destroyHandler", "disposing", "disposed"}
    /\ ret \in {"outside", "enter", "loop", "disposing"}

\* IsExpired (default-simulator-impl.cc:371) compares keys instead of searching
\* the scheduler, and is right all the same: an EventId is unexpired exactly
\* while its event is pending and not cancelled, also inside handlers, between
\* two Runs and during Destroy.
ExpiredExact ==
    pc # "disposed" => \A id \in ids : IsExpired(id) <=> id \notin LiveEvents

\* Every event ever created is exactly one of: still going to run, run, or
\* withdrawn by Cancel or Remove.  In particular a call of Cancel or Remove
\* made before the event has run always prevents it from running (Invoke,
\* event-impl.cc:44), and no insertion, hand-over or removal of another event
\* makes an event disappear or run twice.
EventsAccounted ==
    pc # "disposed" =>
        /\ Impls(LiveEvents) \cup notified \cup withdrawn = FirstUid..(nextImpl - 1)
        /\ Impls(LiveEvents) \cap notified = {}
        /\ Impls(LiveEvents) \cap withdrawn = {}
        /\ notified \cap withdrawn = {}

\* The consistency test at the end of Run (default-simulator-impl.cc:209) can
\* never fail: m_unscheduledEvents is the number of pending events throughout.
UnscheduledExact ==
    pc # "disposed" => m_unscheduledEvents = Cardinality(m_events)

\* The flag that the main thread reads without the mutex never hides a
\* hand-over: when no thread is inside the critical section, a non-empty list
\* is announced.
HandOverAnnounced ==
    m_eventsWithContextMutex = NoThread =>
        (m_eventsWithContextEmpty <=> m_eventsWithContext = <<>>)

\* DoDispose leaves no event behind, pending or handed over: the reference the
\* engine holds on each is given back.
NothingLeaked ==
    pc = "disposed" => m_events = {} /\ m_eventsWithContext = <<>>

\* DefaultSimulatorImpl executes an EventList: time stamps in order, equal time
\* stamps first in first out, never backwards in time.
EngineList == INSTANCE EventList WITH
    agenda <- {[ts |-> e.ts, seq |-> e.impl] : e \in m_events},
    now    <- m_currentTs,
    last   <- nextImpl - 1,
    fired  <- m_eventCount
ImplementsEventList == EngineList!Spec

\* What is handed over while a handler runs does not stay in the hand-over list
\* (ProcessEventsWithContext empties it), whatever the interleaving with the
\* unlocked read of the flag; nothing keeps the main thread waiting for the
\* mutex for ever.
HandOverInserted ==
    (pc = "handler" /\ m_eventsWithContext # <<>> /\
     m_eventsWithContextMutex = NoThread) ~> (m_eventsWithContext = <<>>)

\* Run returns once handlers stop creating events: no step of the loop blocks.
RunTerminates == pc = "loop" ~> pc = "outside"
=============================================================================
