---------------------------- MODULE ListScheduler ----------------------------
(***************************************************************************)
(* ListScheduler (src/core/model/list-scheduler.cc): the pending events in *)
(* a list kept sorted by key.  The engine that uses it inserts events at   *)
(* or after the time stamp of the event it took out last and gives each    *)
(* one a fresh uid.                                                        *)
(***************************************************************************)
EXTENDS Integers, Sequences, Functions, StdList

CONSTANTS
    MaxDelay,     \* bound: how far ahead of the current event one is inserted
    MaxEvents     \* bound: events inserted in a behaviour

ASSUME ListAssumption == MaxDelay \in Nat /\ MaxEvents \in Nat

VARIABLES
    m_events,     \* the list, of keys [ts, uid]
    uid,          \* the engine's counter: uid of the event inserted last
    now,          \* time stamp of the event the engine took out last
    removed       \* how many events the engine has taken out

vars == <<m_events, uid, now, removed>>

Keys == [ts : Nat, uid : Nat]

\* Mutant: equal keys are told apart in the wrong order.
Less_LastInFirst(a, b) == a.ts <= b.ts

\* operator < on Scheduler::EventKey.
Less(a, b) == a.ts < b.ts \/ (a.ts = b.ts /\ a.uid < b.uid)

Init ==
    /\ m_events = <<>>
    /\ uid = 3
    /\ now = 0
    /\ removed = 0

\* Before the first event with a greater key, at the end if there is none.
InsertAt(ev, i) ==
    /\ i \in DOMAIN m_events => Less(ev, m_events[i])
    /\ \A j \in 1..(i - 1) : ~Less(ev, m_events[j])
    /\ m_events' = InsertBefore(m_events, i, ev)

Insert(delay) ==
    /\ uid < 3 + MaxEvents
    /\ \E i \in 1..(Len(m_events) + 1) :
          InsertAt([ts |-> now + delay, uid |-> uid + 1], i)
    /\ uid' = uid + 1
    /\ UNCHANGED <<now, removed>>

RemoveNext ==
    /\ m_events # <<>>
    /\ now' = Head(m_events).ts
    /\ m_events' = Tail(m_events)
    /\ removed' = removed + 1
    /\ UNCHANGED uid

\* The first entry with the uid of ev goes; ev is a pending event.
Remove(ev) ==
    /\ \E i \in DOMAIN m_events :
          /\ m_events[i].uid = ev.uid
          /\ \A j \in 1..(i - 1) : m_events[j].uid # ev.uid
          /\ m_events' = Erase(m_events, i)
    /\ UNCHANGED <<uid, now, removed>>

Next ==
    \/ \E delay \in 0..MaxDelay : Insert(delay)
    \/ RemoveNext
    \/ \E ev \in Range(m_events) : Remove(ev)

Spec == Init /\ [][Next]_vars

-----------------------------------------------------------------------------
\* The values the list may take.
TypeOK ==
    /\ m_events \in Seq(Keys)
    /\ uid \in Nat /\ now \in Nat /\ removed \in Nat

\* What Insert relies on to stop at the first greater key, and RemoveNext to
\* look at the front only: the list is strictly sorted, holds nothing from the
\* past, and no uid that is still to be handed out.
Sorted ==
    /\ \A i, j \in DOMAIN m_events : i < j => Less(m_events[i], m_events[j])
    /\ \A i \in DOMAIN m_events : m_events[i].ts >= now /\ m_events[i].uid <= uid

\* The invariant behind ImplementsEventList.
SortedList == TypeOK /\ Sorted

\* ListScheduler is an event list: Insert, Remove and RemoveNext in any order
\* give the events back in the order of time, first in first out.
ListOfEvents == INSTANCE EventList WITH
    agenda <- {[ts |-> e.ts, seq |-> e.uid] : e \in Range(m_events)},
    last   <- uid,
    fired  <- removed
ImplementsEventList == ListOfEvents!Spec
=============================================================================
