---------------------------- MODULE HeapScheduler ----------------------------
(***************************************************************************)
(* HeapScheduler (src/core/model/heap-scheduler.cc): the pending events in *)
(* a binary heap.  The code keeps an unused entry at index 0 so that the   *)
(* root has index 1, which is where a TLA+ sequence starts.  The engine    *)
(* inserts events at or after the time stamp of the event it took out last *)
(* and gives each one a fresh uid.                                         *)
(***************************************************************************)
EXTENDS Integers, Sequences, Functions

CONSTANTS
    MaxDelay,     \* bound: how far ahead of the current event one is inserted
    MaxEvents     \* bound: events inserted in a behaviour

VARIABLES
    m_heap,       \* the heap, of keys [ts, uid]
    uid,          \* the engine's counter: uid of the event inserted last
    now,          \* time stamp of the event the engine took out last
    removed,      \* how many events the engine has taken out
    pending       \* history: what has been inserted and not taken out

vars == <<m_heap, uid, now, removed, pending>>

Parent(id)     == id \div 2
LeftChild(id)  == id * 2
RightChild(id) == id * 2 + 1
Root == 1

\* operator < on Scheduler::EventKey.
Less(a, b) == a.ts < b.ts \/ (a.ts = b.ts /\ a.uid < b.uid)

IsLessStrictly(h, a, b) == Less(h[a], h[b])
IsBottom(h, id) == id > Len(h)
Smallest(h, a, b) == IF IsLessStrictly(h, a, b) THEN a ELSE b

Exch(h, a, b) == [h EXCEPT ![a] = h[b], ![b] = h[a]]

PopBack(h) == SubSeq(h, 1, Len(h) - 1)

\* One iteration of the loop of BottomUp: the event at index climbs while it
\* is less than its parent.
Climb(s) ==
    IF s.index # Root /\ IsLessStrictly(s.heap, s.index, Parent(s.index))
    THEN [heap |-> Exch(s.heap, s.index, Parent(s.index)), index |-> Parent(s.index)]
    ELSE s

\* The heap and the index after k iterations at most, from the last index; the
\* index gets smaller with each one, so that there are fewer than n of them.
Climbing(h, n) ==
    LET loop[k \in 0..n] ==
            IF k = 0 THEN [heap |-> h, index |-> n] ELSE Climb(loop[k - 1])
    IN  loop

BottomUp(h) == Climbing(h, Len(h))[Len(h)].heap

\* One iteration of the loop of TopDown: the event at index sinks below its
\* lesser child; a last node may have a left child only.
Sink(s) ==
    LET left  == LeftChild(s.index)
        right == RightChild(s.index)
        tmp   == IF IsBottom(s.heap, right) THEN left ELSE Smallest(s.heap, left, right)
    IN  IF IsBottom(s.heap, left) \/ IsLessStrictly(s.heap, s.index, tmp)
        THEN s
        ELSE [heap |-> Exch(s.heap, s.index, tmp), index |-> tmp]

\* The heap and the index after k iterations at most; the index gets greater
\* with each one and stays in the heap.
Sinking(h, start, n) ==
    LET loop[k \in 0..n] ==
            IF k = 0 THEN [heap |-> h, index |-> start] ELSE Sink(loop[k - 1])
    IN  loop

TopDown(h, start) == Sinking(h, start, Len(h))[Len(h)].heap

Init ==
    /\ m_heap = <<>>
    /\ uid = 3
    /\ now = 0
    /\ removed = 0
    /\ pending = {}

\* The heap with one event more, and without its root.
Inserted(h, ev) == BottomUp(Append(h, ev))
RootRemoved(h) == TopDown(PopBack(Exch(h, Root, Len(h))), Root)

Insert(delay) ==
    /\ uid < 3 + MaxEvents
    /\ LET ev == [ts |-> now + delay, uid |-> uid + 1]
       IN  /\ m_heap' = Inserted(m_heap, ev)
           /\ pending' = pending \cup {ev}
    /\ uid' = uid + 1
    /\ UNCHANGED <<now, removed>>

PeekNext == m_heap[Root]

RemoveNext ==
    /\ m_heap # <<>>
    /\ m_heap' = RootRemoved(m_heap)
    /\ now' = PeekNext.ts
    /\ removed' = removed + 1
    /\ pending' = pending \ {PeekNext}
    /\ UNCHANGED uid

\* The last event takes the place of the removed one and may sink; it never
\* climbs.  When i was the last index it is past the end of the heap now.
RemoveAt(h, i) == TopDown(PopBack(Exch(h, i, Len(h))), i)

\* The first entry with the uid of ev goes; ev is a pending event.
Remove(ev) ==
    /\ \E i \in DOMAIN m_heap :
          /\ m_heap[i].uid = ev.uid
          /\ \A j \in 1..(i - 1) : m_heap[j].uid # ev.uid
          /\ m_heap' = RemoveAt(m_heap, i)
    /\ pending' = pending \ {ev}
    /\ UNCHANGED <<uid, now, removed>>

Next ==
    \/ \E delay \in 0..MaxDelay : Insert(delay)
    \/ RemoveNext
    \/ \E ev \in pending : Remove(ev)

Spec == Init /\ [][Next]_vars

-----------------------------------------------------------------------------
\* No event is less than its parent.
HeapOrdered ==
    \A i \in DOMAIN m_heap : i # Root => IsLessStrictly(m_heap, Parent(i), i)

\* scheduler.h says of RemoveNext: "Remove the earliest event from the event
\* list."  Stated for the event RemoveNext would take in any reachable heap.
RootIsEarliest ==
    m_heap # <<>> => \A e \in Range(m_heap) : e = PeekNext \/ Less(PeekNext, e)
=============================================================================
