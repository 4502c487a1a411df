----------------------------- MODULE EventQueue -----------------------------
(***************************************************************************)
(* The event list of DefaultSimulatorImpl and the schedulers it may be     *)
(* given: a ListScheduler, a HeapScheduler or a CalendarScheduler.         *)
(* SetScheduler replaces the scheduler "at any time" (simulator.h): the    *)
(* events are taken out of the old one, in the order in which it gives     *)
(* them, and inserted into the new one.                                    *)
(***************************************************************************)
EXTENDS ListScheduler, FiniteSets

CONSTANTS
    Delays,       \* how far ahead of the current event one is inserted
    MaxBuckets,   \* the calendar does not grow beyond this size: 32768 in the code
    MaxChanges    \* bound: calls of SetScheduler after the first

ASSUME QueueAssumption ==
    /\ Delays \subseteq 0..MaxDelay
    /\ MaxBuckets \in Nat \ {0}
    /\ MaxChanges \in Nat

VARIABLES
    type,         \* TypeId of the scheduler in use
    m_heap,       \* the HeapScheduler's events
    cal, m_reverse,   \* the CalendarScheduler and its attribute
    pending,      \* history: events inserted and not taken out since
    heapRemoved,  \* history: Remove was called on a HeapScheduler
    changes       \* calls of SetScheduler, for their bound

queueVars == <<vars, type, m_heap, cal, m_reverse, pending, heapRemoved, changes>>

Heap == INSTANCE HeapScheduler
Calendar == INSTANCE CalendarScheduler

Types == {"ListScheduler", "HeapScheduler", "CalendarScheduler"}

QueueInit ==
    /\ Init
    /\ type \in Types
    /\ m_heap = <<>>
    /\ m_reverse \in BOOLEAN
    /\ cal = Calendar!NewCalendar
    /\ pending = {}
    /\ heapRemoved = FALSE
    /\ changes = 0

-----------------------------------------------------------------------------
(* The engine uses the scheduler it has.                                   *)

\* ev is inserted into or taken out of a scheduler that has no history of its own.
Added(ev) == pending' = pending \cup {ev}
Taken(ev) == pending' = pending \ {ev}

ListStep ==
    /\ type = "ListScheduler"
    /\ \/ \E delay \in Delays :
             Insert(delay) /\ Added([ts |-> now + delay, uid |-> uid + 1])
       \/ RemoveNext /\ Taken(Head(m_events))
       \/ \E ev \in pending : Remove(ev) /\ Taken(ev)
    /\ UNCHANGED <<type, m_heap, cal, m_reverse, heapRemoved, changes>>

HeapStep ==
    /\ type = "HeapScheduler"
    /\ \/ UNCHANGED heapRemoved /\ \E delay \in Delays : Heap!Insert(delay)
       \/ UNCHANGED heapRemoved /\ Heap!RemoveNext
       \/ heapRemoved' = TRUE /\ \E ev \in pending : Heap!Remove(ev)
    /\ UNCHANGED <<m_events, type, cal, m_reverse, changes>>

CalendarStep ==
    /\ type = "CalendarScheduler"
    /\ \/ \E delay \in Delays :
             Calendar!Insert(delay) /\ Added([ts |-> now + delay, uid |-> uid + 1])
       \/ Calendar!RemoveNext /\ Taken(Calendar!PeekNext(cal))
       \/ \E ev \in pending : Calendar!Remove(ev) /\ Taken(ev)
    /\ UNCHANGED <<m_events, type, m_heap, heapRemoved, changes>>

-----------------------------------------------------------------------------
(* SetScheduler.                                                           *)

\* Insert of ListScheduler into a list that is not the one in use.
Inserted(list, ev) ==
    LET i == CHOOSE k \in 1..(Len(list) + 1) :
                 /\ k \in DOMAIN list => Less(ev, list[k])
                 /\ \A j \in 1..(k - 1) : ~Less(ev, list[j])
    IN  InsertBefore(list, i, ev)

\* The scheduler after RemoveNext was called k times.
HeapDraining(h) ==
    LET left[k \in 0..Len(h)] == IF k = 0 THEN h ELSE Heap!RootRemoved(left[k - 1])
    IN  left

CalendarDraining(c) ==
    LET left[k \in 0..c.qSize] == IF k = 0 THEN c ELSE Calendar!NextRemoved(left[k - 1])
    IN  left

\* What RemoveNext gives until IsEmpty.
HeapDrained(h) == [k \in 1..Len(h) |-> HeapDraining(h)[k - 1][Heap!Root]]
CalendarDrained(c) ==
    [k \in 1..c.qSize |-> Calendar!PeekNext(CalendarDraining(c)[k - 1])]

\* Mutant: the event that is next stays behind.
Drained_Tail ==
    CASE type = "ListScheduler" -> IF m_events = <<>> THEN <<>> ELSE Tail(m_events)
      [] type = "HeapScheduler" -> HeapDrained(m_heap)
      [] OTHER -> CalendarDrained(cal)

Drained ==
    CASE type = "ListScheduler" -> m_events
      [] type = "HeapScheduler" -> HeapDrained(m_heap)
      [] OTHER -> CalendarDrained(cal)

\* The new scheduler after the first k events of list were inserted into it.
ListFilling(list) ==
    LET filled[k \in 0..Len(list)] ==
            IF k = 0 THEN <<>> ELSE Inserted(filled[k - 1], list[k])
    IN  filled

HeapFilling(list) ==
    LET filled[k \in 0..Len(list)] ==
            IF k = 0 THEN <<>> ELSE Heap!Inserted(filled[k - 1], list[k])
    IN  filled

CalendarFilling(list) ==
    LET filled[k \in 0..Len(list)] ==
            IF k = 0 THEN Calendar!NewCalendar
            ELSE Calendar!Inserted(filled[k - 1], list[k])
    IN  filled

SetScheduler(new) ==
    /\ changes < MaxChanges
    /\ changes' = changes + 1
    /\ type' = new
    /\ m_events' = IF new = "ListScheduler"
                   THEN ListFilling(Drained)[Len(Drained)] ELSE <<>>
    /\ m_heap' = IF new = "HeapScheduler"
                 THEN HeapFilling(Drained)[Len(Drained)] ELSE <<>>
    /\ cal' = IF new = "CalendarScheduler"
              THEN CalendarFilling(Drained)[Len(Drained)] ELSE Calendar!NewCalendar
    /\ UNCHANGED <<uid, now, removed, m_reverse, pending, heapRemoved>>

QueueNext ==
    \/ ListStep \/ HeapStep \/ CalendarStep
    \/ \E new \in Types : SetScheduler(new)

QueueSpec == QueueInit /\ [][QueueNext]_queueVars

-----------------------------------------------------------------------------
(* Properties                                                              *)

\* Where the events are: a sequence that has each of them once.
Held ==
    CASE type = "ListScheduler" -> m_events
      [] type = "HeapScheduler" -> m_heap
      [] OTHER -> Calendar!AllEvents(cal)

\* The exchanges in the heap, the resizings of the calendar and the transfers
\* of SetScheduler lose and duplicate no event: the scheduler in use holds
\* exactly what was inserted and not taken out since.
ContentsKept == Range(Held) = pending /\ Len(Held) = Cardinality(pending)

\* What each scheduler takes for granted holds after any sequence of calls and
\* in a structure that SetScheduler has filled in the middle of a simulation:
\* the list is sorted (Insert stops at the first greater key, RemoveNext looks
\* at the front only); no event of the heap is less than its parent; the
\* calendar's buckets and search position are right, and its two separate
\* searches agree on the earliest event.  A heap that Remove has damaged may
\* have run ahead of its events.
SchedulerInv ==
    \/ heapRemoved
    \/ /\ SortedList
       /\ Heap!HeapOrdered
       /\ Calendar!CalendarInv
       /\ type = "CalendarScheduler" => Calendar!PeekIsEarliest

\* Each scheduler is an event list, and changing it in the middle of a
\* simulation is not noticed: events come out in the order of time, first in
\* first out.  (Not after Remove on a HeapScheduler.)
QueueOfEvents == INSTANCE EventList WITH
    agenda <- {[ts |-> e.ts, seq |-> e.uid] : e \in Range(Held)},
    last   <- uid,
    fired  <- removed
QueueImplementsEventList ==
    /\ QueueOfEvents!Init
    /\ [][~heapRemoved => QueueOfEvents!Next \/ UNCHANGED QueueOfEvents!vars]_queueVars
=============================================================================
