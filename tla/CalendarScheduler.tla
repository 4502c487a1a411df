-------------------------- MODULE CalendarScheduler --------------------------
(***************************************************************************)
(* CalendarScheduler (src/core/model/calendar-scheduler.cc): the pending   *)
(* events hashed by time stamp into the days of a circular calendar, which *)
(* is rebuilt with another number of days and another day length whenever  *)
(* it holds too many or too few events.  Finding the next event relies on  *)
(* where the last one was found and on events never being inserted before  *)
(* it; the engine inserts at or after the time stamp of that event.        *)
(***************************************************************************)
EXTENDS Integers, Sequences, FiniteSetsExt, StdList

Sx == INSTANCE SequencesExt

CONSTANTS
    Delays,       \* how far ahead of the current event one is inserted
    MaxEvents,    \* bound: events inserted in a behaviour
    MaxBuckets    \* the calendar does not grow beyond this size: 32768 in the code

VARIABLES
    cal,          \* m_buckets, m_nBuckets, m_width, m_lastBucket, m_bucketTop,
                  \* m_lastPrio and m_qSize, without their prefix
    m_reverse,    \* the attribute: buckets sorted latest first
    uid,          \* the engine's counter: uid of the event inserted last
    now,          \* time stamp of the event the engine took out last
    removed       \* how many events the engine has taken out

vars == <<cal, m_reverse, uid, now, removed>>

\* operator < on Scheduler::EventKey.
Less(a, b) == a.ts < b.ts \/ (a.ts = b.ts /\ a.uid < b.uid)

-----------------------------------------------------------------------------
(* The order inside a bucket, chosen by SetReverse.                        *)

Order(a, b) == IF m_reverse THEN Less(b, a) ELSE Less(a, b)
NextEvent(bucket) == IF m_reverse THEN Sx!Last(bucket) ELSE Head(bucket)
Pop(bucket) == IF m_reverse THEN Sx!Front(bucket) ELSE Tail(bucket)

Hash(c, ts) == (ts \div c.width) % c.nBuckets

\* Before the first event of the bucket that is ordered after ev.
InsertInBucket(bucket, ev) ==
    LET after == {i \in DOMAIN bucket : Order(ev, bucket[i])}
    IN  IF after = {} THEN Append(bucket, ev)
        ELSE InsertBefore(bucket, Min(after), ev)

DoInsert(c, ev) ==
    [c EXCEPT !.buckets[Hash(c, ev.ts)] = InsertInBucket(@, ev)]

\* Mutant: the day that is left over from the old width is kept.
EmptyCalendar_StaleTop(nBuckets, width, startPrio, qSize) ==
    [buckets    |-> [i \in 0..(nBuckets - 1) |-> <<>>],
     nBuckets   |-> nBuckets,
     width      |-> width,
     lastPrio   |-> startPrio,
     lastBucket |-> (startPrio \div width) % nBuckets,
     bucketTop  |-> startPrio + width,
     qSize      |-> qSize]

\* CalendarScheduler::Init
EmptyCalendar(nBuckets, width, startPrio, qSize) ==
    [buckets    |-> [i \in 0..(nBuckets - 1) |-> <<>>],
     nBuckets   |-> nBuckets,
     width      |-> width,
     lastPrio   |-> startPrio,
     lastBucket |-> (startPrio \div width) % nBuckets,
     bucketTop  |-> (startPrio \div width + 1) * width,
     qSize      |-> qSize]

-----------------------------------------------------------------------------
(* Looking for the next event: one turn through the calendar from the day  *)
(* of the last one, then the least of the first events of all days.        *)

\* The day visited k steps after the last bucket, and its end.
Day(c, k) == (c.lastBucket + k) % c.nBuckets
DayTop(c, k) == c.bucketTop + k * c.width

\* The days of the coming year that hold an event of that year.
DaysWithNext(c) ==
    {k \in 0..(c.nBuckets - 1) :
        c.buckets[Day(c, k)] # <<>> /\
        NextEvent(c.buckets[Day(c, k)]).ts < DayTop(c, k)}

\* Where the least of the first events is, used when a whole year is empty.
MinBucket(c) ==
    CHOOSE b \in {i \in DOMAIN c.buckets : c.buckets[i] # <<>>} :
        \A j \in DOMAIN c.buckets \ {b} : c.buckets[j] # <<>> =>
            Less(NextEvent(c.buckets[b]), NextEvent(c.buckets[j]))

PeekNext(c) ==
    IF DaysWithNext(c) # {}
    THEN NextEvent(c.buckets[Day(c, Min(DaysWithNext(c)))])
    ELSE NextEvent(c.buckets[MinBucket(c)])

\* The calendar after its next event was taken out.
DoRemoveNext(c) ==
    LET k  == Min(DaysWithNext(c))
        ts == PeekNext(c).ts
    IN  IF DaysWithNext(c) # {}
        THEN [c EXCEPT !.lastBucket = Day(c, k),
                       !.lastPrio   = ts,
                       !.bucketTop  = DayTop(c, k),
                       !.buckets[Day(c, k)] = Pop(@)]
        ELSE [c EXCEPT !.lastBucket = Hash(c, ts),
                       !.lastPrio   = ts,
                       !.bucketTop  = (ts \div c.width + 1) * c.width,
                       !.buckets[MinBucket(c)] = Pop(@)]

-----------------------------------------------------------------------------
(* Resizing.                                                               *)

NSamples(qSize) == Min({25, IF qSize <= 5 THEN qSize ELSE 5 + qSize \div 10})

\* The calendar after k samples were taken out, for k up to n.
Sampling(c, n) ==
    LET left[k \in 0..n] == IF k = 0 THEN c ELSE DoRemoveNext(left[k - 1])
    IN  left

\* The first n events, in the order in which they were taken out.
Samples(c, n) == [k \in 1..n |-> PeekNext(Sampling(c, n)[k - 1])]

\* The calendar after the first k events of list were put into it.
Filling(c, list) ==
    LET filled[k \in 0..Len(list)] ==
            IF k = 0 THEN c ELSE DoInsert(filled[k - 1], list[k])
    IN  filled
Filled(c, list) == Filling(c, list)[Len(list)]

\* The sums of the first k values of f, for k up to n.
Sums(f, n) ==
    LET sum[k \in 0..n] == IF k = 0 THEN 0 ELSE sum[k - 1] + f[k]
    IN  sum
Total(f, n) == Sums(f, n)[n]

\* Three times the total separation of the samples, without outliers.
SampledWidth(samples) ==
    LET n    == Len(samples) - 1
        diff == [i \in 1..n |-> samples[i + 1].ts - samples[i].ts]
        twiceAvg == (Total(diff, n) \div n) * 2
        near == [i \in 1..n |-> IF diff[i] <= twiceAvg THEN diff[i] ELSE 0]
    IN  Max({1, 3 * Total(near, n)})

CalculateNewWidth(c) ==
    IF c.qSize < 2 THEN 1 ELSE SampledWidth(Samples(c, NSamples(c.qSize)))

\* Taking the samples and putting them back may change the order inside the
\* buckets; where the last event was found is restored.
AfterSampling(c) ==
    IF c.qSize < 2 THEN c
    ELSE LET n == NSamples(c.qSize)
         IN  [Filled(Sampling(c, n)[n], Samples(c, n)) EXCEPT
                 !.lastBucket = c.lastBucket,
                 !.bucketTop  = c.bucketTop,
                 !.lastPrio   = c.lastPrio]

\* The buckets one after the other, as DoResize walks them.
AllEvents(c) == Sx!FlattenSeq([i \in 1..c.nBuckets |-> c.buckets[i - 1]])

Resize(c, newSize) ==
    LET old == AfterSampling(c)
    IN  Filled(EmptyCalendar(newSize, CalculateNewWidth(c), old.lastPrio, old.qSize),
               AllEvents(old))

ResizeUp(c) ==
    IF c.qSize > c.nBuckets * 2 /\ c.nBuckets < MaxBuckets
    THEN Resize(c, c.nBuckets * 2) ELSE c

ResizeDown(c) ==
    IF c.qSize < c.nBuckets \div 2 THEN Resize(c, c.nBuckets \div 2) ELSE c

-----------------------------------------------------------------------------
NewCalendar == EmptyCalendar(2, 1, 0, 0)

Init ==
    /\ cal = NewCalendar
    /\ m_reverse \in BOOLEAN
    /\ uid = 3
    /\ now = 0
    /\ removed = 0

\* The calendar with one event more, and without its next one.
Inserted(c, ev) == ResizeUp([DoInsert(c, ev) EXCEPT !.qSize = @ + 1])
NextRemoved(c) == ResizeDown([DoRemoveNext(c) EXCEPT !.qSize = @ - 1])

Insert(delay) ==
    /\ uid < 3 + MaxEvents
    /\ cal' = Inserted(cal, [ts |-> now + delay, uid |-> uid + 1])
    /\ uid' = uid + 1
    /\ UNCHANGED <<m_reverse, now, removed>>

RemoveNext ==
    /\ cal.qSize > 0
    /\ now' = PeekNext(cal).ts
    /\ cal' = NextRemoved(cal)
    /\ removed' = removed + 1
    /\ UNCHANGED <<m_reverse, uid>>

\* The first entry with the uid of ev goes from the bucket ev hashes to.
RemoveAt(c, b, i) ==
    ResizeDown([c EXCEPT !.buckets[b] = Erase(@, i), !.qSize = @ - 1])

Remove(ev) ==
    /\ LET b == Hash(cal, ev.ts)
       IN  \E i \in DOMAIN cal.buckets[b] :
              /\ cal.buckets[b][i].uid = ev.uid
              /\ \A j \in 1..(i - 1) : cal.buckets[b][j].uid # ev.uid
              /\ cal' = RemoveAt(cal, b, i)
    /\ UNCHANGED <<m_reverse, uid, now, removed>>

Pending == Range(AllEvents(cal))

Next ==
    \/ \E delay \in Delays : Insert(delay)
    \/ RemoveNext
    \/ \E ev \in Pending : Remove(ev)

Spec == Init /\ [][Next]_vars

-----------------------------------------------------------------------------
\* What the search for the next event takes for granted after any sequence of
\* insertions, removals and resizings: every event is in the bucket its time
\* stamp hashes to, every bucket is sorted, m_qSize counts the events, and
\* m_lastBucket and m_bucketTop are the day of m_lastPrio, which no pending
\* event precedes.
CalendarInv ==
    /\ \A b \in DOMAIN cal.buckets :
          LET s == cal.buckets[b]
          IN  /\ \A i \in DOMAIN s : Hash(cal, s[i].ts) = b /\ s[i].ts >= cal.lastPrio
              /\ \A i, j \in DOMAIN s : i < j => Order(s[i], s[j])
    /\ cal.qSize = Len(AllEvents(cal))
    /\ cal.lastBucket = Hash(cal, cal.lastPrio)
    /\ cal.bucketTop = (cal.lastPrio \div cal.width + 1) * cal.width

\* PeekNext and RemoveNext search separately and agree on the earliest event:
\* the one RemoveNext takes out is the one PeekNext shows.
PeekIsEarliest ==
    cal.qSize > 0 =>
        /\ PeekNext(cal) \in Pending
        /\ \A e \in Pending : e = PeekNext(cal) \/ Less(PeekNext(cal), e)
=============================================================================
