-------------------------- MODULE EventQueueProofs --------------------------
(***************************************************************************)
(* Proofs about the event list and its schedulers: whatever is inserted,   *)
(* removed and moved between schedulers, no event is lost or duplicated,   *)
(* and the events come out by time stamp, first in first out.              *)
(***************************************************************************)
EXTENDS EventQueue, DataFacts

-----------------------------------------------------------------------------
(* Keys.                                                                   *)

\* No two events have the same uid.
UniqueUids(S) == \A e, f \in S : e.uid = f.uid => e = f

\* The fields of a key.
LEMMA KeyFields == ASSUME NEW k \in Keys PROVE k.ts \in Nat /\ k.uid \in Nat
BY DEF Keys

\* The order of the keys is transitive and irreflexive.
LEMMA LessOrder ==
    ASSUME NEW a \in Keys, NEW b \in Keys, NEW c \in Keys
    PROVE  /\ Less(a, b) /\ Less(b, c) => Less(a, c)
           /\ ~Less(a, a)
<1>1. a.ts \in Nat /\ a.uid \in Nat /\ b.ts \in Nat /\ b.uid \in Nat
      /\ c.ts \in Nat /\ c.uid \in Nat
    BY KeyFields
<1> QED BY <1>1 DEF Less

\* It is total on events with different uids.
LEMMA LessTotal ==
    ASSUME NEW S \in SUBSET Keys, UniqueUids(S), NEW a \in S, NEW b \in S, a # b
    PROVE  Less(a, b) <=> ~Less(b, a)
<1>1. a.ts \in Nat /\ a.uid \in Nat /\ b.ts \in Nat /\ b.uid \in Nat /\ a.uid # b.uid
    BY KeyFields DEF UniqueUids
<1> QED BY <1>1 DEF Less

\* The schedulers compare keys in the same way.
LEMMA SameLess ==
    ASSUME NEW a, NEW b
    PROVE  Heap!Less(a, b) = Less(a, b) /\ Calendar!Less(a, b) = Less(a, b)
BY DEF Heap!Less, Calendar!Less, Less

-----------------------------------------------------------------------------
(* The heap: exchanging entries.                                           *)

\* g holds the same events as h, each of them once.
SameEvents(h, g) ==
    g \in Seq(Keys) /\ Len(g) = Len(h) /\ Range(g) = Range(h) /\ IsInjective(g)

\* Exch swaps two entries and keeps the events.
LEMMA Exchanged ==
    ASSUME NEW h \in Seq(Keys), IsInjective(h), NEW a \in 1..Len(h), NEW b \in 1..Len(h)
    PROVE  /\ SameEvents(h, Heap!Exch(h, a, b))
           /\ \A i \in 1..Len(h) :
                 Heap!Exch(h, a, b)[i] = IF i = b THEN h[a] ELSE IF i = a THEN h[b] ELSE h[i]
<1> DEFINE g == Heap!Exch(h, a, b)
<1>1. Len(h) \in Nat /\ DOMAIN h = 1..Len(h) /\ \A i \in 1..Len(h) : h[i] \in Keys
    OBVIOUS
<1>2. DOMAIN g = 1..Len(h)
    BY <1>1 DEF Heap!Exch
<1>3. \A i \in 1..Len(h) : g[i] = IF i = b THEN h[a] ELSE IF i = a THEN h[b] ELSE h[i]
    BY <1>1 DEF Heap!Exch
<1>4. g = [i \in 1..Len(h) |-> g[i]]
    BY <1>1 DEF Heap!Exch
<1> HIDE DEF g
<1>5. \A i \in 1..Len(h) : g[i] \in Keys
    BY <1>1, <1>3
<1>6. g \in Seq(Keys) /\ Len(g) = Len(h)
  <2>1. g \in [1..Len(h) -> Keys]
      BY <1>4, <1>5
  <2> QED BY <1>1, <2>1
<1>7. IsInjective(g)
  <2> SUFFICES ASSUME NEW i \in 1..Len(h), NEW j \in 1..Len(h), g[i] = g[j] PROVE i = j
      BY <1>2 DEF IsInjective
  <2>1. \A x, y \in 1..Len(h) : h[x] = h[y] => x = y
      BY <1>1 DEF IsInjective
  <2> QED BY <1>1, <1>3, <2>1
<1>8. Range(g) \subseteq Range(h)
    BY <1>1, <1>2, <1>3 DEF Range
<1>9. ASSUME NEW i \in 1..Len(h) PROVE h[i] \in Range(g)
  <2>1. CASE i = a
      BY <1>2, <1>3, <2>1 DEF Range
  <2>2. CASE i = b /\ i # a
      BY <1>2, <1>3, <2>2 DEF Range
  <2>3. CASE i # a /\ i # b
      BY <1>2, <1>3, <2>3 DEF Range
  <2> QED BY <2>1, <2>2, <2>3
<1>10. Range(h) \subseteq Range(g)
    BY <1>1, <1>9 DEF Range
<1> QED BY <1>3, <1>6, <1>7, <1>8, <1>10 DEF SameEvents, g

\* The last event takes the place of event i, which leaves.
LEMMA LastMoved ==
    ASSUME NEW h \in Seq(Keys), IsInjective(h), NEW i \in 1..Len(h)
    PROVE  LET g == Heap!PopBack(Heap!Exch(h, i, Len(h)))
           IN  /\ g \in Seq(Keys) /\ Len(g) = Len(h) - 1 /\ IsInjective(g)
               /\ Range(g) = Range(h) \ {h[i]}
               /\ \A j \in 1..(Len(h) - 1) : g[j] = IF j = i THEN h[Len(h)] ELSE h[j]
<1> DEFINE x == Heap!Exch(h, i, Len(h))
           g == Heap!PopBack(x)
           n == Len(h)
<1>1. n \in Nat /\ n >= 1 /\ DOMAIN h = 1..n /\ n \in 1..n /\ i \in 1..n
    OBVIOUS
<1>2. /\ SameEvents(h, x)
      /\ \A j \in 1..n : x[j] = IF j = n THEN h[i] ELSE IF j = i THEN h[n] ELSE h[j]
    BY <1>1, Exchanged
<1>3. x \in Seq(Keys) /\ Len(x) = n
    BY <1>2 DEF SameEvents
<1>4. g = SubSeq(x, 1, n - 1)
    BY <1>3 DEF Heap!PopBack
<1> HIDE DEF x, g
<1>5. /\ g \in Seq(Keys) /\ Len(g) = (n - 1) - 1 + 1
      /\ \A j \in 1..((n - 1) - 1 + 1) : g[j] = x[1 + j - 1]
  <2>1. 1 \in Nat \ {0} /\ n - 1 \in Nat /\ 1 <= (n - 1) + 1 /\ n - 1 <= Len(x)
      BY <1>1, <1>3
  <2> QED BY <1>3, <1>4, <2>1, PieceEntries
<1> HIDE DEF n
<1>6. Len(g) = n - 1 /\ \A j \in 1..(n - 1) : g[j] = x[j]
    BY <1>1, <1>5
<1>7. \A j \in 1..(n - 1) : g[j] = IF j = i THEN h[n] ELSE h[j]
    BY <1>1, <1>2, <1>6
<1>8. DOMAIN g = 1..(n - 1)
    BY <1>5, <1>6
<1>9. IsInjective(g)
  <2>1. \A a, b \in 1..n : x[a] = x[b] => a = b
      BY <1>2, <1>3 DEF SameEvents, IsInjective
  <2> QED BY <1>1, <1>6, <1>8, <2>1 DEF IsInjective
<1>10. \A a, b \in 1..n : h[a] = h[b] => a = b
    BY <1>1 DEF IsInjective
<1>11. ASSUME NEW j \in 1..(n - 1) PROVE g[j] \in Range(h) \ {h[i]}
  <2>1. CASE j = i
      BY <1>1, <1>7, <1>10, <2>1 DEF Range
  <2>2. CASE j # i
      BY <1>1, <1>7, <1>10, <2>2 DEF Range
  <2> QED BY <2>1, <2>2
<1>12. ASSUME NEW j \in 1..n, h[j] # h[i] PROVE h[j] \in Range(g)
  <2>1. CASE j = n
    <3>1. i \in 1..(n - 1) /\ g[i] = h[j]
        BY <1>1, <1>7, <1>12, <2>1
    <3> QED BY <1>8, <3>1 DEF Range
  <2>2. CASE j # n
    <3>1. j \in 1..(n - 1) /\ g[j] = h[j]
        BY <1>1, <1>7, <1>12, <2>2
    <3> QED BY <1>8, <3>1 DEF Range
  <2> QED BY <2>1, <2>2
<1>13. Range(g) = Range(h) \ {h[i]}
  <2>1. Range(g) \subseteq Range(h) \ {h[i]}
      BY <1>8, <1>11 DEF Range
  <2>2. Range(h) \ {h[i]} \subseteq Range(g)
      BY <1>1, <1>12 DEF Range
  <2> QED BY <2>1, <2>2
<1> QED BY <1>5, <1>6, <1>7, <1>9, <1>13 DEF g, x, n

-----------------------------------------------------------------------------
(* The heap: BottomUp.                                                     *)

\* The iterations of BottomUp follow each other.
LEMMA ClimbingLoop ==
    ASSUME NEW h, NEW n \in Nat
    PROVE  /\ Heap!Climbing(h, n)[0] = [heap |-> h, index |-> n]
           /\ \A k \in 1..n : Heap!Climbing(h, n)[k] = Heap!Climb(Heap!Climbing(h, n)[k - 1])
<1> DEFINE base == [heap |-> h, index |-> n]
           Loop(m, g) ==
               g = [k \in 0..m |-> IF k = 0 THEN base ELSE Heap!Climb(g[k - 1])]
           P == {m \in 0..n : \E g : Loop(m, g)}
<1>1. 0 \in P
  <2>1. Loop(0, [k \in 0..0 |-> base])
      OBVIOUS
  <2>2. \E g : Loop(0, g)
      BY <2>1
  <2> QED BY <2>2
<1>2. ASSUME NEW m \in 1..n, m - 1 \in P PROVE m \in P
  <2>1. PICK g : Loop(m - 1, g)
      BY <1>2
  <2> DEFINE f == [k \in 0..m |-> IF k = m THEN Heap!Climb(g[m - 1]) ELSE g[k]]
  <2>2. \A k \in 0..(m - 1) : g[k] = IF k = 0 THEN base ELSE Heap!Climb(g[k - 1])
      BY <2>1
  <2>3. ASSUME NEW k \in 0..m
        PROVE  f[k] = IF k = 0 THEN base ELSE Heap!Climb(f[k - 1])
    <3>1. CASE k = m
        BY <3>1
    <3>2. CASE k # m
      <4>1. k \in 0..(m - 1) /\ f[k] = g[k] /\ (k # 0 => f[k - 1] = g[k - 1])
          BY <3>2
      <4> QED BY <2>2, <4>1
    <3> QED BY <3>1, <3>2
  <2>4. Loop(m, f)
      BY <2>3
  <2>5. \E x : Loop(m, x)
    <3> HIDE DEF f
    <3> QED BY <2>4
  <2> QED BY <2>5
<1> HIDE DEF P
<1>3. n \in P
    BY <1>1, <1>2, CountingUp
<1>4. \E g : Loop(n, g)
    BY <1>3 DEF P
<1>5. Loop(n, Heap!Climbing(h, n))
    BY <1>4 DEF Heap!Climbing
<1> DEFINE f == Heap!Climbing(h, n)
<1> HIDE DEF f
<1>6. \A k \in 0..n : f[k] = IF k = 0 THEN base ELSE Heap!Climb(f[k - 1])
    BY <1>5 DEF f
<1> QED BY <1>6 DEF f

\* No event but the one at x is less than its parent, and the events below x
\* are not less than the parent of x.
ClimbOrdered(h, x) ==
    /\ \A i \in 2..Len(h) : i # x => Less(h[i \div 2], h[i])
    /\ x # 1 => \A i \in 2..Len(h) : i \div 2 = x => Less(h[x \div 2], h[i])

\* The heap order: no event is less than its parent.
Ordered(h) == \A i \in 2..Len(h) : Less(h[i \div 2], h[i])

\* A state of the loop of BottomUp on the events of h.
ClimbState(h, s) ==
    /\ SameEvents(h, s.heap)
    /\ s.index \in 1..Len(h)

\* The children of an index, and its parent.
LEMMA ParentFacts ==
    ASSUME NEW i \in Nat, i >= 2
    PROVE  /\ i \div 2 \in Nat /\ 1 <= i \div 2 /\ i \div 2 < i
           /\ i = 2 * (i \div 2) \/ i = 2 * (i \div 2) + 1
OBVIOUS

\* One iteration of BottomUp keeps the events, and the order of all but the
\* climbing one; it moves up unless it is in place.
LEMMA ClimbStep ==
    ASSUME NEW h \in Seq(Keys), IsInjective(h), NEW s, ClimbState(h, s)
    PROVE  /\ ClimbState(h, Heap!Climb(s))
           /\ UniqueUids(Range(h)) /\ ClimbOrdered(s.heap, s.index)
                => \/ Ordered(s.heap) /\ Heap!Climb(s) = s
                   \/ /\ ClimbOrdered(Heap!Climb(s).heap, Heap!Climb(s).index)
                      /\ Heap!Climb(s).index < s.index
<1> DEFINE g == s.heap
           x == s.index
           n == Len(h)
           p == x \div 2
           t == Heap!Exch(g, x, p)
<1>1. /\ g \in Seq(Keys) /\ Len(g) = n /\ IsInjective(g) /\ Range(g) = Range(h)
      /\ x \in 1..n /\ n \in Nat /\ DOMAIN g = 1..n /\ \A i \in 1..n : g[i] \in Keys
    BY DEF ClimbState, SameEvents
<1>2. CASE x = 1 \/ ~Less(g[x], g[p])
  <2>1. Heap!Climb(s) = s
      BY <1>2, SameLess DEF Heap!Climb, Heap!IsLessStrictly, Heap!Parent, Heap!Root
  <2>2. ASSUME UniqueUids(Range(h)), ClimbOrdered(g, x) PROVE Ordered(g)
    <3> SUFFICES ASSUME NEW i \in 2..n PROVE Less(g[i \div 2], g[i])
        BY <1>1 DEF Ordered
    <3>1. CASE i # x
        BY <1>1, <2>2, <3>1 DEF ClimbOrdered
    <3>2. CASE i = x
      <4>1. x # 1 /\ p \in 1..n /\ p # x
          BY <1>1, <3>2, ParentFacts
      <4>2. g[p] # g[x]
          BY <1>1, <4>1 DEF IsInjective
      <4>3. g[p] \in Range(h) /\ g[x] \in Range(h) /\ Range(h) \in SUBSET Keys
          BY <1>1, <4>1 DEF Range
      <4>4. ~Less(g[x], g[p])
          BY <1>2, <4>1
      <4>5. Less(g[p], g[x])
          BY <2>2, <4>2, <4>3, <4>4, LessTotal
      <4> QED BY <3>2, <4>5
    <3> QED BY <3>1, <3>2
  <2> QED BY <2>1, <2>2
<1>3. CASE x # 1 /\ Less(g[x], g[p])
  <2>1. x \in Nat /\ x >= 2 /\ p \in Nat /\ 1 <= p /\ p < x /\ p \in 1..n /\ x \in 2..n
      BY <1>1, <1>3, ParentFacts
  <2>2. Heap!Climb(s) = [heap |-> t, index |-> p]
      BY <1>3, SameLess DEF Heap!Climb, Heap!IsLessStrictly, Heap!Parent, Heap!Root
  <2>3. /\ SameEvents(g, t)
        /\ \A i \in 1..n : t[i] = IF i = p THEN g[x] ELSE IF i = x THEN g[p] ELSE g[i]
      BY <1>1, <2>1, Exchanged
  <2>4. ClimbState(h, Heap!Climb(s)) /\ Len(t) = n
      BY <1>1, <2>1, <2>2, <2>3 DEF ClimbState, SameEvents
  <2>5. t[p] = g[x] /\ t[x] = g[p] /\ \A i \in 1..n : i # x /\ i # p => t[i] = g[i]
      BY <2>1, <2>3
  <2> HIDE DEF t, p, g, x, n
  <2>6. ASSUME ClimbOrdered(g, x) PROVE ClimbOrdered(t, p)
    <3>1. \A i \in 2..n : i # x => Less(g[i \div 2], g[i])
        BY <1>1, <2>6 DEF ClimbOrdered
    <3>2. \A i \in 2..n : i \div 2 = x => Less(g[p], g[i])
        BY <1>1, <1>3, <2>6 DEF ClimbOrdered, p
    <3>3. \A i \in 2..n : /\ i \div 2 \in 1..n /\ i \div 2 # i /\ i \in 1..n
                          /\ g[i] \in Keys /\ g[i \div 2] \in Keys
        BY <1>1, ParentFacts
    <3>4. g[x] \in Keys /\ g[p] \in Keys
        BY <1>1, <2>1
    <3>5. ASSUME NEW i \in 2..n, i # p PROVE Less(t[i \div 2], t[i])
      <4>1. CASE i = x
          BY <1>3, <2>5, <4>1 DEF p
      <4>2. CASE i # x /\ i \div 2 = x
          BY <2>5, <3>2, <3>3, <3>5, <4>2
      <4>3. CASE i # x /\ i \div 2 = p
        <5>1. Less(g[p], g[i])
            BY <3>1, <4>3
        <5>2. Less(g[x], g[i])
            BY <1>3, <3>3, <3>4, <5>1, LessOrder
        <5> QED BY <2>5, <3>3, <3>5, <4>3, <5>2
      <4>4. CASE i # x /\ i \div 2 # x /\ i \div 2 # p
          BY <2>5, <3>1, <3>3, <3>5, <4>4
      <4> QED BY <4>1, <4>2, <4>3, <4>4
    <3>6. ASSUME p # 1, NEW i \in 2..n, i \div 2 = p PROVE Less(t[p \div 2], t[i])
      <4>1. p \in 2..n /\ p # x
          BY <1>1, <2>1, <3>6
      <4>2. Less(g[p \div 2], g[p]) /\ p \div 2 \in 1..n /\ p \div 2 # p /\ g[p \div 2] \in Keys
          BY <3>1, <3>3, <4>1
      <4>3. p \div 2 # x
          BY <1>1, <2>1, <4>1, ParentFacts
      <4>4. t[p \div 2] = g[p \div 2]
          BY <2>5, <4>2, <4>3
      <4>5. CASE i = x
          BY <2>5, <4>2, <4>4, <4>5
      <4>6. CASE i # x
        <5>1. Less(g[p], g[i]) /\ i # p
            BY <3>1, <3>3, <3>6, <4>6
        <5>2. Less(g[p \div 2], g[i])
            BY <3>3, <3>4, <4>2, <5>1, LessOrder
        <5> QED BY <2>5, <3>3, <4>4, <4>6, <5>1, <5>2
      <4> QED BY <4>5, <4>6
    <3> QED BY <2>4, <3>5, <3>6 DEF ClimbOrdered
  <2> QED BY <2>1, <2>2, <2>4, <2>6 DEF g, x
<1> QED BY <1>2, <1>3

\* BottomUp keeps the events, and puts the last one in place.
LEMMA BottomUpOrdered ==
    ASSUME NEW h \in Seq(Keys), IsInjective(h), h # <<>>
    PROVE  /\ SameEvents(h, Heap!BottomUp(h))
           /\ UniqueUids(Range(h)) /\ ClimbOrdered(h, Len(h)) => Ordered(Heap!BottomUp(h))
<1> DEFINE n == Len(h)
           f == Heap!Climbing(h, n)
           Done(k) == Ordered(f[k].heap)
           Going(k) == ClimbOrdered(f[k].heap, f[k].index) /\ f[k].index <= n - k
           P == {k \in 0..n : /\ ClimbState(h, f[k])
                              /\ UniqueUids(Range(h)) /\ ClimbOrdered(h, n)
                                   => Done(k) \/ Going(k)}
<1>1. n \in Nat /\ n \in 1..n /\ SameEvents(h, h)
    BY DEF SameEvents
<1>2. /\ f[0] = [heap |-> h, index |-> n]
      /\ \A k \in 1..n : f[k] = Heap!Climb(f[k - 1])
    BY <1>1, ClimbingLoop
<1> HIDE DEF n, f
<1>3. 0 \in P
    BY <1>1, <1>2 DEF ClimbState, n
<1>4. ASSUME NEW k \in 1..n, k - 1 \in P PROVE k \in P
  <2>1. ClimbState(h, f[k - 1]) /\ f[k] = Heap!Climb(f[k - 1])
      BY <1>2, <1>4
  <2>2. ClimbState(h, f[k])
      BY <2>1, ClimbStep
  <2>3. ASSUME UniqueUids(Range(h)), ClimbOrdered(h, n) PROVE Done(k) \/ Going(k)
    <3>1. CASE Going(k - 1)
      <4>1. \/ Ordered(f[k - 1].heap) /\ f[k] = f[k - 1]
            \/ ClimbOrdered(f[k].heap, f[k].index) /\ f[k].index < f[k - 1].index
          BY <2>1, <2>3, <3>1, ClimbStep
      <4>2. f[k].index \in Nat /\ f[k - 1].index \in Nat /\ f[k - 1].index <= n - (k - 1)
          BY <1>1, <2>1, <2>2, <3>1 DEF ClimbState, n
      <4> QED BY <1>1, <4>1, <4>2
    <3>2. CASE Done(k - 1)
      <4>1. f[k] = f[k - 1] \/ f[k - 1].index # 1
          BY <2>1 DEF Heap!Climb, Heap!Root
      <4>2. CASE f[k - 1].index = 1
          BY <3>2, <4>1, <4>2
      <4>3. CASE f[k - 1].index # 1
        <5> DEFINE g == f[k - 1].heap
                   x == f[k - 1].index
        <5>1. g \in Seq(Keys) /\ Len(g) = n /\ x \in 2..n /\ n \in Nat
            BY <1>1, <2>1, <4>3 DEF ClimbState, SameEvents, n
        <5>2. Less(g[x \div 2], g[x]) /\ x \div 2 \in 1..n
            BY <3>2, <5>1, ParentFacts DEF Ordered
        <5>3. g[x] \in Keys /\ g[x \div 2] \in Keys
            BY <5>1, <5>2
        <5>4. ~Less(g[x], g[x \div 2])
            BY <5>2, <5>3, LessOrder
        <5>5. f[k] = f[k - 1]
            BY <2>1, <5>4, SameLess DEF Heap!Climb, Heap!IsLessStrictly, Heap!Parent
        <5> QED BY <3>2, <5>5
      <4> QED BY <4>2, <4>3
    <3> QED BY <1>4, <2>3, <3>1, <3>2
  <2> QED BY <2>2, <2>3
<1> HIDE DEF P
<1>5. n \in P
    BY <1>1, <1>3, <1>4, CountingUp
<1>6. Heap!BottomUp(h) = f[n].heap
    BY DEF Heap!BottomUp, f, n
<1>7. ~Going(n)
  <2>1. f[n].index \in 1..n
      BY <1>5 DEF P, ClimbState, n
  <2> QED BY <1>1, <2>1
<1> QED BY <1>5, <1>6, <1>7 DEF P, ClimbState, n

-----------------------------------------------------------------------------
(* The heap: TopDown.                                                      *)

\* The iterations of TopDown follow each other.
LEMMA SinkingLoop ==
    ASSUME NEW h, NEW start, NEW n \in Nat
    PROVE  /\ Heap!Sinking(h, start, n)[0] = [heap |-> h, index |-> start]
           /\ \A k \in 1..n : Heap!Sinking(h, start, n)[k] = Heap!Sink(Heap!Sinking(h, start, n)[k - 1])
<1> DEFINE N == n
           base == [heap |-> h, index |-> start]
           Loop(m, g) == g = [k \in 0..m |-> IF k = 0 THEN base ELSE Heap!Sink(g[k - 1])]
           P == {m \in 0..N : \E g : Loop(m, g)}
<1>0. N \in Nat /\ N \in 0..N
    OBVIOUS
<1>1. 0 \in P
  <2>1. Loop(0, [k \in 0..0 |-> base])
      OBVIOUS
  <2>2. \E g : Loop(0, g)
      BY <2>1
  <2> QED BY <1>0, <2>2
<1>2. ASSUME NEW m \in 1..N, m - 1 \in P PROVE m \in P
  <2>1. PICK g : Loop(m - 1, g)
      BY <1>2
  <2> DEFINE f == [k \in 0..m |-> IF k = m THEN Heap!Sink(g[k - 1]) ELSE g[k]]
  <2>2. \A k \in 0..(m - 1) : g[k] = IF k = 0 THEN base ELSE Heap!Sink(g[k - 1])
      BY <2>1
  <2>3. ASSUME NEW k \in 0..m
        PROVE  f[k] = IF k = 0 THEN base ELSE Heap!Sink(f[k - 1])
    <3>1. CASE k = m
        BY <1>0, <3>1
    <3>2. CASE k # m
      <4>1. k \in 0..(m - 1) /\ f[k] = g[k] /\ (k # 0 => f[k - 1] = g[k - 1])
          BY <1>0, <3>2
      <4> QED BY <2>2, <4>1
    <3> QED BY <3>1, <3>2
  <2>4. Loop(m, f)
      BY <2>3
  <2>5. \E x : Loop(m, x)
    <3> HIDE DEF f
    <3> QED BY <2>4
  <2> QED BY <1>0, <2>5
<1> HIDE DEF P, N
<1>3. N \in P
    BY <1>0, <1>1, <1>2, CountingUp
<1>4. \E g : Loop(N, g)
    BY <1>3 DEF P
<1> DEFINE f == Heap!Sinking(h, start, n)
<1>5. Loop(N, f)
    BY <1>4 DEF Heap!Sinking, N
<1> HIDE DEF f
<1>6. \A k \in 0..N : f[k] = IF k = 0 THEN base ELSE Heap!Sink(f[k - 1])
    BY <1>5
<1> QED BY <1>0, <1>6 DEF f, N

\* No event but those below x is less than its parent, and they are not less
\* than the parent of x.
SinkOrdered(h, x) ==
    /\ \A i \in 2..Len(h) : i \div 2 # x => Less(h[i \div 2], h[i])
    /\ x # 1 => \A i \in 2..Len(h) : i \div 2 = x => Less(h[x \div 2], h[i])

\* A state of the loop of TopDown on the events of h.
SinkState(h, s) ==
    /\ SameEvents(h, s.heap)
    /\ s.index \in Nat \ {0}

\* One iteration of TopDown keeps the events, and the order of all but the
\* sinking one; it moves down unless it is in place.
LEMMA SinkStep ==
    ASSUME NEW h \in Seq(Keys), IsInjective(h), NEW s, SinkState(h, s)
    PROVE  /\ SinkState(h, Heap!Sink(s))
           /\ UniqueUids(Range(h)) /\ SinkOrdered(s.heap, s.index)
                => \/ Ordered(s.heap) /\ Heap!Sink(s) = s
                   \/ /\ SinkOrdered(Heap!Sink(s).heap, Heap!Sink(s).index)
                      /\ Heap!Sink(s).index > s.index
           /\ Ordered(s.heap) => Heap!Sink(s) = s
<1> DEFINE g == s.heap
           x == s.index
           n == Len(h)
           y == IF 2 * x + 1 > n THEN 2 * x
                ELSE IF Less(g[2 * x], g[2 * x + 1]) THEN 2 * x ELSE 2 * x + 1
           t == Heap!Exch(g, x, y)
<1>1. /\ g \in Seq(Keys) /\ Len(g) = n /\ IsInjective(g) /\ Range(g) = Range(h)
      /\ x \in Nat \ {0} /\ n \in Nat /\ DOMAIN g = 1..n /\ \A i \in 1..n : g[i] \in Keys
    BY DEF SinkState, SameEvents
<1>5. /\ \A i, j \in 1..n : g[i] = g[j] => i = j
      /\ \A i \in 1..n : g[i] \in Range(h)
      /\ Range(h) \in SUBSET Keys
  <2>1. Range(g) \in SUBSET Keys /\ \A i \in 1..n : g[i] \in Range(g)
      BY <1>1 DEF Range
  <2>2. \A i, j \in 1..n : g[i] = g[j] => i = j
      BY <1>1 DEF IsInjective
  <2> QED BY <1>1, <2>1, <2>2
<1>2. Heap!Sink(s) = IF 2 * x > n \/ Less(g[x], g[y]) THEN s ELSE [heap |-> t, index |-> y]
  <2>1. x * 2 = 2 * x /\ x * 2 + 1 = 2 * x + 1
      BY <1>1
  <2> QED BY <1>1, <2>1, SameLess
          DEF Heap!Sink, Heap!LeftChild, Heap!RightChild, Heap!IsBottom, Heap!Smallest,
              Heap!IsLessStrictly
<1>3. CASE 2 * x > n
  <2>1. Heap!Sink(s) = s
      BY <1>2, <1>3
  <2>2. \A i \in 2..n : i \div 2 # x
      BY <1>1, <1>3, ParentFacts
  <2>3. SinkOrdered(g, x) => Ordered(g)
      BY <1>1, <2>2 DEF SinkOrdered, Ordered
  <2> QED BY <2>1, <2>3
<1>4. CASE 2 * x <= n
  <2>1. x \in 1..n /\ y \in 2..n /\ y > x /\ y \div 2 = x /\ y # 1 /\ y \in Nat \ {0}
    <3>1. x \in 1..n /\ (y = 2 * x \/ (y = 2 * x + 1 /\ 2 * x + 1 <= n))
        BY <1>1, <1>4
    <3> HIDE DEF y, x, n
    <3>2. CASE y = 2 * x
        BY <1>1, <1>4, <3>1, <3>2
    <3>3. CASE y = 2 * x + 1 /\ 2 * x + 1 <= n
        BY <1>1, <1>4, <3>1, <3>3
    <3> QED BY <3>1, <3>2, <3>3
  <2>2. \A i \in 2..n : i \div 2 = x => i = 2 * x \/ i = 2 * x + 1
      BY ParentFacts
  <2>3. ASSUME UniqueUids(Range(h)), NEW i \in 2..n, i \div 2 = x, i # y
        PROVE  Less(g[y], g[i])
    <3>1. 2 * x + 1 <= n /\ 2 * x \in 1..n /\ 2 * x + 1 \in 1..n
        BY <1>1, <1>4, <2>2, <2>3
    <3>7. PICK l \in 1..n, r \in 1..n : l = 2 * x /\ r = 2 * x + 1 /\ l # r
        BY <1>1, <3>1
    <3>2. g[l] # g[r] /\ g[l] \in Range(h) /\ g[r] \in Range(h)
        BY <1>5, <3>7
    <3>3. Range(h) \in SUBSET Keys
        BY <1>5
    <3>4. Less(g[2 * x], g[2 * x + 1]) <=> ~Less(g[2 * x + 1], g[2 * x])
        BY <2>3, <3>7, <3>2, <3>3, LessTotal
    <3>5. CASE i = 2 * x
        BY <1>1, <2>3, <3>1, <3>4, <3>5
    <3>6. CASE i = 2 * x + 1
      <4>1. y = 2 * x
          BY <1>1, <2>3, <3>1, <3>6
      <4>2. Less(g[2 * x], g[2 * x + 1])
        <5>1. ~(2 * x + 1 > n) /\ 2 * x + 1 # 2 * x
            BY <1>1, <3>1
        <5> QED BY <4>1, <5>1
      <4> QED BY <3>6, <4>1, <4>2
    <3> QED BY <2>2, <2>3, <3>5, <3>6
  <2>4. SinkState(h, s)
      OBVIOUS
  <2> HIDE DEF y, g, x, n
  <2>5. Ordered(g) => Less(g[x], g[y])
      BY <1>1, <2>1 DEF Ordered
  <2>6. CASE Less(g[x], g[y])
    <3>1. Heap!Sink(s) = s
        BY <1>1, <1>2, <1>4, <2>6
    <3>2. ASSUME UniqueUids(Range(h)), SinkOrdered(g, x) PROVE Ordered(g)
      <4> SUFFICES ASSUME NEW i \in 2..n PROVE Less(g[i \div 2], g[i])
          BY <1>1 DEF Ordered
      <4>1. CASE i \div 2 # x
          BY <1>1, <3>2, <4>1 DEF SinkOrdered
      <4>2. CASE i \div 2 = x /\ i = y
          BY <2>6, <4>2
      <4>3. CASE i \div 2 = x /\ i # y
        <5>1. Less(g[y], g[i])
            BY <2>3, <3>2, <4>3
        <5>2. g[x] \in Keys /\ g[y] \in Keys /\ g[i] \in Keys
            BY <1>1, <2>1
        <5>3. Less(g[x], g[i])
            BY <2>6, <5>1, <5>2, LessOrder
        <5> QED BY <4>3, <5>3
      <4> QED BY <4>1, <4>2, <4>3
    <3> QED BY <2>4, <3>1, <3>2 DEF g, x
  <2>7. CASE ~Less(g[x], g[y])
    <3>1. Heap!Sink(s) = [heap |-> t, index |-> y]
        BY <1>1, <1>2, <1>4, <2>7
    <3>2. x \in 1..n /\ y \in 1..n
        BY <1>1, <2>1
    <3>3. /\ SameEvents(g, t)
          /\ \A i \in 1..n : t[i] = IF i = y THEN g[x] ELSE IF i = x THEN g[y] ELSE g[i]
        BY <1>1, <3>2, Exchanged
    <3>4. SinkState(h, Heap!Sink(s)) /\ Len(t) = n
      <4> HIDE DEF t
      <4>1. t \in Seq(Keys) /\ Len(t) = n /\ Range(t) = Range(h) /\ IsInjective(t)
          BY <1>1, <3>3 DEF SameEvents
      <4>2. SameEvents(h, t)
          BY <4>1 DEF SameEvents, n
      <4> QED BY <2>1, <3>1, <4>1, <4>2 DEF SinkState
    <3>5. t[y] = g[x] /\ t[x] = g[y] /\ \A i \in 1..n : i # x /\ i # y => t[i] = g[i]
        BY <1>1, <2>1, <3>2, <3>3
    <3> HIDE DEF t
    <3>6. ASSUME UniqueUids(Range(h)), SinkOrdered(g, x) PROVE SinkOrdered(t, y)
      <4>1. \A i \in 2..n : i \div 2 # x => Less(g[i \div 2], g[i])
          BY <1>1, <3>6 DEF SinkOrdered
      <4>2. x # 1 => \A i \in 2..n : i \div 2 = x => Less(g[x \div 2], g[i])
          BY <1>1, <3>6 DEF SinkOrdered
      <4>3. \A i \in 2..n : i \div 2 \in 1..n /\ i \div 2 < i /\ i \in 1..n
          BY <1>1, ParentFacts
      <4>4. Less(g[y], g[x])
        <5>2. x # y
            BY <1>1, <2>1
        <5>1. g[x] # g[y] /\ g[x] \in Range(h) /\ g[y] \in Range(h) /\ Range(h) \in SUBSET Keys
            BY <1>5, <3>2, <5>2
        <5> QED BY <2>7, <3>6, <5>1, LessTotal
      <4>5. ASSUME NEW i \in 2..n, i \div 2 # y PROVE Less(t[i \div 2], t[i])
        <5>1. CASE i = y
            BY <2>1, <3>5, <4>4, <5>1
        <5>2. CASE i = x
          <6>1. x # 1 /\ x \div 2 \in 1..n /\ x \div 2 # x /\ x \div 2 # y
              BY <1>1, <2>1, <4>3, <4>5, <5>2
          <6>2. Less(g[x \div 2], g[y])
              BY <2>1, <4>2, <6>1
          <6> QED BY <3>5, <5>2, <6>1, <6>2
        <5>3. CASE i # y /\ i # x /\ i \div 2 = x
          <6>1. Less(g[y], g[i])
              BY <2>3, <3>6, <5>3
          <6> QED BY <3>5, <4>3, <5>3, <6>1
        <5>4. CASE i # y /\ i # x /\ i \div 2 # x
            BY <3>5, <4>1, <4>3, <4>5, <5>4
        <5> QED BY <5>1, <5>2, <5>3, <5>4
      <4>6. ASSUME NEW i \in 2..n, i \div 2 = y PROVE Less(t[y \div 2], t[i])
        <5>1. i # x /\ i # y /\ y # x /\ i \in 1..n
            BY <1>1, <2>1, <4>3, <4>6
        <5>2. Less(g[y], g[i])
            BY <4>1, <4>6, <5>1
        <5> QED BY <2>1, <3>5, <5>1, <5>2
      <4> QED BY <3>4, <4>5, <4>6 DEF SinkOrdered
    <3> QED BY <2>1, <2>5, <2>7, <3>1, <3>4, <3>6 DEF g, x
  <2> QED BY <2>6, <2>7
<1> QED BY <1>1, <1>3, <1>4

\* TopDown keeps the events, and puts the one at start in place.
LEMMA TopDownOrdered ==
    ASSUME NEW h \in Seq(Keys), IsInjective(h), NEW start \in Nat \ {0}
    PROVE  /\ SameEvents(h, Heap!TopDown(h, start))
           /\ UniqueUids(Range(h)) /\ SinkOrdered(h, start) => Ordered(Heap!TopDown(h, start))
<1> DEFINE n == Len(h)
           f == Heap!Sinking(h, start, n)
           Done(k) == Ordered(f[k].heap)
           Going(k) == SinkOrdered(f[k].heap, f[k].index) /\ f[k].index >= start + k
           P == {k \in 0..n : /\ SinkState(h, f[k])
                              /\ UniqueUids(Range(h)) /\ SinkOrdered(h, start)
                                   => Done(k) \/ Going(k)}
<1>1. n \in Nat /\ n \in 0..n /\ SameEvents(h, h)
    BY DEF SameEvents
<1>2. /\ f[0] = [heap |-> h, index |-> start]
      /\ \A k \in 1..n : f[k] = Heap!Sink(f[k - 1])
    BY <1>1, SinkingLoop
<1> HIDE DEF n, f
<1>3. 0 \in P
    BY <1>1, <1>2 DEF SinkState
<1>4. ASSUME NEW k \in 1..n, k - 1 \in P PROVE k \in P
  <2>1. SinkState(h, f[k - 1]) /\ f[k] = Heap!Sink(f[k - 1])
      BY <1>2, <1>4
  <2>2. SinkState(h, f[k])
      BY <2>1, SinkStep
  <2>3. ASSUME UniqueUids(Range(h)), SinkOrdered(h, start) PROVE Done(k) \/ Going(k)
    <3>1. CASE Going(k - 1)
      <4>1. \/ Ordered(f[k - 1].heap) /\ f[k] = f[k - 1]
            \/ SinkOrdered(f[k].heap, f[k].index) /\ f[k].index > f[k - 1].index
          BY <2>1, <2>3, <3>1, SinkStep
      <4>2. f[k].index \in Nat /\ f[k - 1].index \in Nat /\ f[k - 1].index >= start + (k - 1)
          BY <1>1, <2>1, <2>2, <3>1 DEF SinkState
      <4> QED BY <1>1, <4>1, <4>2
    <3>2. CASE Done(k - 1)
        BY <2>1, <3>2, SinkStep
    <3> QED BY <1>4, <2>3, <3>1, <3>2
  <2> QED BY <2>2, <2>3
<1> HIDE DEF P
<1>5. n \in P
    BY <1>1, <1>3, <1>4, CountingUp
<1>6. Heap!TopDown(h, start) = f[n].heap
    BY DEF Heap!TopDown, f, n
<1>7. Going(n) => Done(n)
  <2> SUFFICES ASSUME Going(n), NEW i \in 2..n PROVE i \div 2 # f[n].index
    <3>1. Len(f[n].heap) = n
        BY <1>5 DEF P, SinkState, SameEvents, n
    <3> QED BY <3>1 DEF SinkOrdered, Ordered
  <2>1. i \div 2 < i /\ i \div 2 \in Nat /\ f[n].index \in Nat
      BY <1>1, <1>5, ParentFacts DEF P, SinkState
  <2> QED BY <1>1, <2>1
<1> QED BY <1>5, <1>6, <1>7 DEF P, SinkState

-----------------------------------------------------------------------------
(* The heap: its operations.                                               *)

\* The root of an ordered heap is its earliest event: of the entries it does
\* not precede, the first would have a parent that it precedes.
LEMMA RootFirst ==
    ASSUME NEW h \in Seq(Keys), h # <<>>, Ordered(h)
    PROVE  \A e \in Range(h) : e = h[1] \/ Less(h[1], e)
<1> DEFINE n == Len(h)
           Bad == {i \in 2..n : ~Less(h[1], h[i])}
<1>1. n \in Nat /\ n >= 1 /\ DOMAIN h = 1..n /\ \A i \in 1..n : h[i] \in Keys
    OBVIOUS
<1>2. Bad = {}
  <2> SUFFICES ASSUME Bad # {} PROVE FALSE
      OBVIOUS
  <2>1. IsFiniteSet(Bad) /\ Bad \in SUBSET Int
    <3>1. IsFiniteSet(2..n) /\ Bad \in SUBSET (2..n)
        BY <1>1, FS_Interval
    <3> QED BY <3>1, FS_Subset
  <2> HIDE DEF Bad
  <2>2. PICK i \in Bad : \A j \in Bad : i <= j
      BY <2>1, LeastNumber
  <2> USE DEF Bad
  <2> HIDE DEF n
  <2>3. i \in 2..n /\ i \div 2 \in Nat /\ 1 <= i \div 2 /\ i \div 2 < i
      BY <1>1, <2>2, ParentFacts
  <2>4. i \div 2 \notin Bad
      BY <1>1, <2>2, <2>3
  <2>5. Less(h[i \div 2], h[i])
      BY <2>3 DEF Ordered, n
  <2>6. i \div 2 = 1 \/ Less(h[1], h[i \div 2])
      BY <1>1, <2>3, <2>4
  <2>7. h[1] \in Keys /\ h[i] \in Keys /\ h[i \div 2] \in Keys
      BY <1>1, <2>3
  <2>8. Less(h[1], h[i])
      BY <2>5, <2>6, <2>7, LessOrder
  <2> QED BY <2>2, <2>8
<1> QED BY <1>1, <1>2 DEF Range

\* Insert adds the event, and keeps the order.
LEMMA HeapInserted ==
    ASSUME NEW h \in Seq(Keys), IsInjective(h), NEW ev \in Keys, ev \notin Range(h)
    PROVE  LET g == Heap!Inserted(h, ev)
           IN  /\ g \in Seq(Keys) /\ IsInjective(g) /\ Range(g) = Range(h) \cup {ev}
               /\ UniqueUids(Range(g)) /\ Ordered(h) => Ordered(g)
<1> DEFINE a == Append(h, ev)
           n == Len(h)
           g == Heap!Inserted(h, ev)
<1>1. /\ n \in Nat /\ DOMAIN h = 1..n
      /\ a \in Seq(Keys) /\ a # <<>> /\ Len(a) = n + 1 /\ DOMAIN a = 1..(n + 1)
      /\ a[n + 1] = ev /\ \A i \in 1..n : a[i] = h[i]
    OBVIOUS
<1>2. g = Heap!BottomUp(a)
    BY DEF Heap!Inserted
<1> HIDE DEF a, g
<1>3. Range(a) = Range(h) \cup {ev}
  <2>1. 1..(n + 1) = 1..n \cup {n + 1}
      BY <1>1
  <2> QED BY <1>1, <2>1 DEF Range
<1>4. IsInjective(a)
  <2>1. \A i \in 1..n : h[i] # ev
      BY <1>1 DEF Range
  <2>2. \A i, j \in 1..n : h[i] = h[j] => i = j
      BY <1>1 DEF IsInjective
  <2>3. \A i \in 1..(n + 1) : i \in 1..n \/ i = n + 1
      BY <1>1
  <2> QED BY <1>1, <2>1, <2>2, <2>3 DEF IsInjective
<1>5. SameEvents(a, g) /\ (UniqueUids(Range(a)) /\ ClimbOrdered(a, Len(a)) => Ordered(g))
    BY <1>1, <1>2, <1>4, BottomUpOrdered
<1>6. g \in Seq(Keys) /\ IsInjective(g) /\ Range(g) = Range(h) \cup {ev}
    BY <1>3, <1>5 DEF SameEvents
<1>7. Ordered(h) => ClimbOrdered(a, Len(a))
  <2> SUFFICES ASSUME Ordered(h) PROVE ClimbOrdered(a, n + 1)
      BY <1>1
  <2> HIDE DEF n
  <2>1. \A i \in 2..(n + 1) : i \div 2 \in 1..n
      BY <1>1, ParentFacts
  <2>2. \A i \in 2..n : Less(h[i \div 2], h[i])
      BY DEF Ordered, n
  <2>3. \A i \in 2..(n + 1) : i # n + 1 => Less(a[i \div 2], a[i])
      BY <1>1, <2>1, <2>2
  <2>4. \A i \in 2..(n + 1) : i \div 2 # n + 1
      BY <1>1, <2>1
  <2> QED BY <1>1, <2>3, <2>4 DEF ClimbOrdered
<1> QED BY <1>3, <1>5, <1>6, <1>7 DEF g

\* RemoveNext takes the root away, and keeps the order.
LEMMA HeapRootRemoved ==
    ASSUME NEW h \in Seq(Keys), IsInjective(h), h # <<>>
    PROVE  LET g == Heap!RootRemoved(h)
           IN  /\ g \in Seq(Keys) /\ IsInjective(g) /\ Len(g) = Len(h) - 1
               /\ Range(g) = Range(h) \ {h[1]}
               /\ UniqueUids(Range(h)) /\ Ordered(h) => Ordered(g)
<1> DEFINE n == Len(h)
           a == Heap!PopBack(Heap!Exch(h, 1, n))
           g == Heap!RootRemoved(h)
<1>1. n \in Nat /\ n >= 1 /\ 1 \in 1..n
    OBVIOUS
<1>2. /\ a \in Seq(Keys) /\ Len(a) = n - 1 /\ IsInjective(a) /\ Range(a) = Range(h) \ {h[1]}
      /\ \A j \in 1..(n - 1) : a[j] = IF j = 1 THEN h[n] ELSE h[j]
    BY <1>1, LastMoved
<1>3. g = Heap!TopDown(a, 1)
    BY DEF Heap!RootRemoved, Heap!Root
<1> HIDE DEF a, g, n
<1>4. SameEvents(a, g) /\ (UniqueUids(Range(a)) /\ SinkOrdered(a, 1) => Ordered(g))
  <2>1. 1 \in Nat \ {0}
      OBVIOUS
  <2> QED BY <1>2, <1>3, <2>1, TopDownOrdered
<1>5. UniqueUids(Range(h)) => UniqueUids(Range(a))
    BY <1>2 DEF UniqueUids
<1>6. ASSUME Ordered(h) PROVE SinkOrdered(a, 1)
  <2>1. \A i \in 2..n : Less(h[i \div 2], h[i])
      BY <1>6 DEF Ordered, n
  <2>2. \A i \in 2..(n - 1) : i \div 2 \in 1..(n - 1) /\ i \in 1..(n - 1) /\ i # 1 /\ i \in 2..n
      BY <1>1, ParentFacts
  <2>3. \A i \in 2..(n - 1) : i \div 2 # 1 => Less(a[i \div 2], a[i])
      BY <1>2, <2>1, <2>2
  <2> QED BY <1>2, <2>3 DEF SinkOrdered
<1>7. g \in Seq(Keys) /\ IsInjective(g) /\ Len(g) = n - 1 /\ Range(g) = Range(h) \ {h[1]}
    BY <1>2, <1>4 DEF SameEvents
<1> QED BY <1>4, <1>5, <1>6, <1>7 DEF g, n

\* Remove takes the event away; the order it may damage.
LEMMA HeapRemoved ==
    ASSUME NEW h \in Seq(Keys), IsInjective(h), NEW i \in 1..Len(h)
    PROVE  LET g == Heap!RemoveAt(h, i)
           IN  g \in Seq(Keys) /\ IsInjective(g) /\ Range(g) = Range(h) \ {h[i]}
<1> DEFINE a == Heap!PopBack(Heap!Exch(h, i, Len(h)))
           g == Heap!RemoveAt(h, i)
<1>1. a \in Seq(Keys) /\ IsInjective(a) /\ Range(a) = Range(h) \ {h[i]}
    BY LastMoved
<1>2. g = Heap!TopDown(a, i)
    BY DEF Heap!RemoveAt
<1> HIDE DEF a, g
<1>3. SameEvents(a, g)
    BY <1>1, <1>2, TopDownOrdered
<1>4. g \in Seq(Keys) /\ IsInjective(g) /\ Range(g) = Range(h) \ {h[i]}
    BY <1>1, <1>3 DEF SameEvents
<1> QED BY <1>4 DEF g

-----------------------------------------------------------------------------
(* The heap: emptying it and filling it.                                   *)

\* d lists the events of S, each of them once.
Lists(d, S) == d \in Seq(Keys) /\ IsInjective(d) /\ Range(d) = S

\* The calls of RemoveNext that empty a heap follow each other.
LEMMA HeapDrainingLoop ==
    ASSUME NEW h \in Seq(Keys)
    PROVE  /\ HeapDraining(h)[0] = h
           /\ \A k \in 1..Len(h) : HeapDraining(h)[k] = Heap!RootRemoved(HeapDraining(h)[k - 1])
<1> DEFINE N == Len(h)
           base == h
           Loop(m, g) == g = [k \in 0..m |-> IF k = 0 THEN base ELSE Heap!RootRemoved(g[k - 1])]
           P == {m \in 0..N : \E g : Loop(m, g)}
<1>0. N \in Nat /\ N \in 0..N
    OBVIOUS
<1>1. 0 \in P
  <2>1. Loop(0, [k \in 0..0 |-> base])
      OBVIOUS
  <2>2. \E g : Loop(0, g)
      BY <2>1
  <2> QED BY <1>0, <2>2
<1>2. ASSUME NEW m \in 1..N, m - 1 \in P PROVE m \in P
  <2>1. PICK g : Loop(m - 1, g)
      BY <1>2
  <2> DEFINE f == [k \in 0..m |-> IF k = m THEN Heap!RootRemoved(g[k - 1]) ELSE g[k]]
  <2>2. \A k \in 0..(m - 1) : g[k] = IF k = 0 THEN base ELSE Heap!RootRemoved(g[k - 1])
      BY <2>1
  <2>3. ASSUME NEW k \in 0..m
        PROVE  f[k] = IF k = 0 THEN base ELSE Heap!RootRemoved(f[k - 1])
    <3>1. CASE k = m
        BY <1>0, <3>1
    <3>2. CASE k # m
      <4>1. k \in 0..(m - 1) /\ f[k] = g[k] /\ (k # 0 => f[k - 1] = g[k - 1])
          BY <1>0, <3>2
      <4> QED BY <2>2, <4>1
    <3> QED BY <3>1, <3>2
  <2>4. Loop(m, f)
      BY <2>3
  <2>5. \E x : Loop(m, x)
    <3> HIDE DEF f
    <3> QED BY <2>4
  <2> QED BY <1>0, <2>5
<1> HIDE DEF P, N
<1>3. N \in P
    BY <1>0, <1>1, <1>2, CountingUp
<1>4. \E g : Loop(N, g)
    BY <1>3 DEF P
<1> DEFINE f == HeapDraining(h)
<1>5. Loop(N, f)
    BY <1>4 DEF HeapDraining, N
<1> HIDE DEF f
<1>6. \A k \in 0..N : f[k] = IF k = 0 THEN base ELSE Heap!RootRemoved(f[k - 1])
    BY <1>5
<1> QED BY <1>0, <1>6 DEF f, N

\* Emptying a heap gives all its events, each of them once.
LEMMA HeapEmptied ==
    ASSUME NEW h \in Seq(Keys), IsInjective(h)
    PROVE  Lists(HeapDrained(h), Range(h))
<1> DEFINE n == Len(h)
           f == HeapDraining(h)
           d == HeapDrained(h)
           R == [k \in 0..n |-> Range(f[k])]
           P == {k \in 0..n : f[k] \in Seq(Keys) /\ IsInjective(f[k]) /\ Len(f[k]) = n - k}
<1>1. n \in Nat /\ n \in 0..n
    OBVIOUS
<1>2. f[0] = h /\ \A k \in 1..n : f[k] = Heap!RootRemoved(f[k - 1])
    BY HeapDrainingLoop
<1>3. d = [k \in 1..n |-> f[k - 1][1]]
    BY DEF HeapDrained, Heap!Root
<1> HIDE DEF f, d, n
<1>4. 0 \in P
    BY <1>1, <1>2 DEF n
<1>5. \A k \in 1..n : k - 1 \in P =>
         /\ f[k] \in Seq(Keys) /\ IsInjective(f[k]) /\ Len(f[k]) = Len(f[k - 1]) - 1
         /\ Range(f[k]) = Range(f[k - 1]) \ {f[k - 1][1]} /\ f[k - 1][1] \in Range(f[k - 1])
  <2> SUFFICES ASSUME NEW k \in 1..n, k - 1 \in P
               PROVE  /\ f[k] \in Seq(Keys) /\ IsInjective(f[k])
                      /\ Len(f[k]) = Len(f[k - 1]) - 1
                      /\ Range(f[k]) = Range(f[k - 1]) \ {f[k - 1][1]}
                      /\ f[k - 1][1] \in Range(f[k - 1])
      OBVIOUS
  <2>1. f[k - 1] \in Seq(Keys) /\ IsInjective(f[k - 1]) /\ Len(f[k - 1]) >= 1
      BY <1>1
  <2>2. f[k - 1] # <<>> /\ f[k - 1][1] \in Range(f[k - 1])
      BY <2>1 DEF Range
  <2> QED BY <1>2, <2>1, <2>2, HeapRootRemoved
<1>6. ASSUME NEW k \in 1..n, k - 1 \in P PROVE k \in P
  <2>1. Len(f[k - 1]) = n - (k - 1) /\ Len(f[k]) = Len(f[k - 1]) - 1 /\ k \in 0..n
      BY <1>1, <1>5, <1>6
  <2>2. Len(f[k]) = n - k
      BY <1>1, <2>1
  <2> QED BY <1>5, <1>6, <2>1, <2>2
<1> HIDE DEF P
<1>7. \A k \in 0..n : k \in P
    BY <1>1, <1>4, <1>6, CountingUp
<1>8. \A k \in 1..n : k - 1 \in P
    BY <1>1, <1>7
<1>14. Takes(n, R, d)
  <2> SUFFICES ASSUME NEW k \in 1..n PROVE d[k] \in R[k - 1] /\ R[k] = R[k - 1] \ {d[k]}
      BY DEF Takes
  <2>1. d[k] = f[k - 1][1] /\ R[k - 1] = Range(f[k - 1]) /\ R[k] = Range(f[k])
      BY <1>1, <1>3
  <2> QED BY <1>5, <1>8, <2>1
<1>9. R[0] = Range(h) /\ R[n] = {}
  <2>1. f[n] \in Seq(Keys) /\ Len(f[n]) = 0
      BY <1>1, <1>7 DEF P
  <2>2. DOMAIN f[n] = {}
      BY <2>1
  <2> QED BY <1>1, <1>2, <2>2 DEF Range
<1>10. d \in Seq(Keys) /\ DOMAIN d = 1..n
  <2>1. \A k \in 1..n : d[k] \in Keys
    <3> SUFFICES ASSUME NEW k \in 1..n PROVE d[k] \in Keys
        OBVIOUS
    <3>1. f[k - 1] \in Seq(Keys) /\ f[k - 1][1] \in Range(f[k - 1])
        BY <1>5, <1>8 DEF P
    <3> QED BY <1>3, <3>1 DEF Range
  <2> QED BY <1>1, <1>3, <2>1
<1> HIDE DEF R
<1>11. /\ \A k \in 0..n : R[k] = R[0] \ {d[j] : j \in 1..k}
       /\ \A i, j \in 1..n : d[i] = d[j] => i = j
    BY <1>1, <1>14, TakenOneByOne
<1>12. \A k \in 1..n : d[k] \in Range(h)
  <2> SUFFICES ASSUME NEW k \in 1..n PROVE d[k] \in Range(h)
      OBVIOUS
  <2>1. k - 1 \in 0..n /\ d[k] \in R[k - 1]
      BY <1>1, <1>14 DEF Takes
  <2> QED BY <1>9, <1>11, <2>1
<1>13. Range(d) = Range(h)
  <2>1. R[n] = R[0] \ {d[j] : j \in 1..n}
      BY <1>1, <1>11
  <2>2. Range(d) = {d[j] : j \in 1..n}
      BY <1>10 DEF Range
  <2> QED BY <1>9, <1>12, <2>1, <2>2
<1> QED BY <1>10, <1>11, <1>13 DEF Lists, IsInjective, d

\* The calls of Insert that fill a heap follow each other.
LEMMA HeapFillingLoop ==
    ASSUME NEW list \in Seq(Keys)
    PROVE  /\ HeapFilling(list)[0] = <<>>
           /\ \A k \in 1..Len(list) : HeapFilling(list)[k] = Heap!Inserted(HeapFilling(list)[k - 1], list[k])
<1> DEFINE N == Len(list)
           base == <<>>
           Loop(m, g) == g = [k \in 0..m |-> IF k = 0 THEN base ELSE Heap!Inserted(g[k - 1], list[k])]
           P == {m \in 0..N : \E g : Loop(m, g)}
<1>0. N \in Nat /\ N \in 0..N
    OBVIOUS
<1>1. 0 \in P
  <2>1. Loop(0, [k \in 0..0 |-> base])
      OBVIOUS
  <2>2. \E g : Loop(0, g)
      BY <2>1
  <2> QED BY <1>0, <2>2
<1>2. ASSUME NEW m \in 1..N, m - 1 \in P PROVE m \in P
  <2>1. PICK g : Loop(m - 1, g)
      BY <1>2
  <2> DEFINE f == [k \in 0..m |-> IF k = m THEN Heap!Inserted(g[k - 1], list[k]) ELSE g[k]]
  <2>2. \A k \in 0..(m - 1) : g[k] = IF k = 0 THEN base ELSE Heap!Inserted(g[k - 1], list[k])
      BY <2>1
  <2>3. ASSUME NEW k \in 0..m
        PROVE  f[k] = IF k = 0 THEN base ELSE Heap!Inserted(f[k - 1], list[k])
    <3>1. CASE k = m
        BY <1>0, <3>1
    <3>2. CASE k # m
      <4>1. k \in 0..(m - 1) /\ f[k] = g[k] /\ (k # 0 => f[k - 1] = g[k - 1])
          BY <1>0, <3>2
      <4> QED BY <2>2, <4>1
    <3> QED BY <3>1, <3>2
  <2>4. Loop(m, f)
      BY <2>3
  <2>5. \E x : Loop(m, x)
    <3> HIDE DEF f
    <3> QED BY <2>4
  <2> QED BY <1>0, <2>5
<1> HIDE DEF P, N
<1>3. N \in P
    BY <1>0, <1>1, <1>2, CountingUp
<1>4. \E g : Loop(N, g)
    BY <1>3 DEF P
<1> DEFINE f == HeapFilling(list)
<1>5. Loop(N, f)
    BY <1>4 DEF HeapFilling, N
<1> HIDE DEF f
<1>6. \A k \in 0..N : f[k] = IF k = 0 THEN base ELSE Heap!Inserted(f[k - 1], list[k])
    BY <1>5
<1> QED BY <1>0, <1>6 DEF f, N

\* A heap that was filled holds the events it was given, and is ordered.
LEMMA HeapFilled ==
    ASSUME NEW S, UniqueUids(S), NEW d, Lists(d, S)
    PROVE  LET g == HeapFilling(d)[Len(d)]
           IN  g \in Seq(Keys) /\ IsInjective(g) /\ Range(g) = S /\ Ordered(g)
<1> DEFINE n == Len(d)
           f == HeapFilling(d)
           P == {k \in 0..n : /\ f[k] \in Seq(Keys) /\ IsInjective(f[k]) /\ Ordered(f[k])
                              /\ Range(f[k]) = {d[j] : j \in 1..k}}
<1>1. /\ d \in Seq(Keys) /\ n \in Nat /\ n \in 0..n /\ DOMAIN d = 1..n /\ Range(d) = S
      /\ \A i, j \in 1..n : d[i] = d[j] => i = j
    BY DEF Lists, IsInjective
<1>2. f[0] = <<>> /\ \A k \in 1..n : f[k] = Heap!Inserted(f[k - 1], d[k])
    BY <1>1, HeapFillingLoop
<1> HIDE DEF f, n
<1>3. 0 \in P
  <2>1. /\ <<>> \in Seq(Keys) /\ IsInjective(<<>>) /\ Ordered(<<>>)
        /\ Range(<<>>) = {}
      BY DEF IsInjective, Ordered, Range
  <2>2. {d[j] : j \in 1..0} = {}
      OBVIOUS
  <2>3. /\ f[0] \in Seq(Keys) /\ IsInjective(f[0]) /\ Ordered(f[0])
        /\ Range(f[0]) = {d[j] : j \in 1..0}
      BY <1>2, <2>1, <2>2
  <2>4. 0 \in 0..n
      BY <1>1
  <2> QED BY <2>3, <2>4
<1>4. ASSUME NEW k \in 1..n, k - 1 \in P PROVE k \in P
  <2>1. /\ f[k - 1] \in Seq(Keys) /\ IsInjective(f[k - 1]) /\ Ordered(f[k - 1])
        /\ Range(f[k - 1]) = {d[j] : j \in 1..(k - 1)} /\ d[k] \in Keys
      BY <1>1, <1>4
  <2>2. d[k] \notin Range(f[k - 1])
      BY <1>1, <2>1
  <2>3. Range(f[k - 1]) \cup {d[k]} = {d[j] : j \in 1..k}
    <3>1. 1..k = 1..(k - 1) \cup {k}
        BY <1>1
    <3> QED BY <2>1, <3>1
  <2>4. {d[j] : j \in 1..k} \subseteq S
      BY <1>1 DEF Range
  <2>5. UniqueUids({d[j] : j \in 1..k})
      BY <2>4 DEF UniqueUids
  <2>6. /\ f[k] \in Seq(Keys) /\ IsInjective(f[k]) /\ Range(f[k]) = {d[j] : j \in 1..k}
        /\ UniqueUids(Range(f[k])) => Ordered(f[k])
      BY <1>2, <2>1, <2>2, <2>3, HeapInserted
  <2> QED BY <1>1, <2>5, <2>6
<1> HIDE DEF P
<1>5. n \in P
    BY <1>1, <1>3, <1>4, CountingUp
<1>6. Range(f[n]) = S
    BY <1>1, <1>5 DEF P, Range
<1> QED BY <1>5, <1>6 DEF P, f, n

-----------------------------------------------------------------------------
(* Sorted lists: the ListScheduler's list and the buckets of the calendar, *)
(* which may be sorted latest first (r).                                   *)

\* a comes before b in a bucket.
OrderBy(r, a, b) == IF r THEN Less(b, a) ELSE Less(a, b)

SortedBy(r, s) == \A i, j \in DOMAIN s : i < j => OrderBy(r, s[i], s[j])

\* Either order of a bucket is transitive and irreflexive.
LEMMA OrderByOrder ==
    ASSUME NEW r \in BOOLEAN, NEW a \in Keys, NEW b \in Keys, NEW c \in Keys
    PROVE  /\ OrderBy(r, a, b) /\ OrderBy(r, b, c) => OrderBy(r, a, c)
           /\ ~OrderBy(r, a, a)
BY LessOrder DEF OrderBy

\* It is total on events with different uids.
LEMMA OrderByTotal ==
    ASSUME NEW r \in BOOLEAN, NEW S \in SUBSET Keys, UniqueUids(S),
           NEW a \in S, NEW b \in S, a # b
    PROVE  OrderBy(r, a, b) <=> ~OrderBy(r, b, a)
<1>1. Less(a, b) <=> ~Less(b, a)
    BY LessTotal
<1> QED BY <1>1 DEF OrderBy

\* A sorted list holds nothing twice.
LEMMA SortedDistinct ==
    ASSUME NEW r \in BOOLEAN, NEW s \in Seq(Keys), SortedBy(r, s)
    PROVE  IsInjective(s)
<1> SUFFICES ASSUME NEW i \in DOMAIN s, NEW j \in DOMAIN s, s[i] = s[j], i # j
             PROVE  FALSE
    BY DEF IsInjective
<1>1. i \in Nat /\ j \in Nat /\ s[i] \in Keys
    OBVIOUS
<1>2. i < j \/ j < i
    BY <1>1
<1>3. OrderBy(r, s[i], s[i])
    BY <1>2 DEF SortedBy
<1> QED BY <1>1, <1>3, OrderByOrder

\* k is where ev belongs in s: before the first event that is ordered after it.
Fits(r, s, k, ev) ==
    /\ k \in DOMAIN s => OrderBy(r, ev, s[k])
    /\ \A j \in 1..(k - 1) : ~OrderBy(r, ev, s[j])

\* There is always such a place, at the end at the latest.
LEMMA FitsSomewhere ==
    ASSUME NEW r, NEW s \in Seq(Keys), NEW ev
    PROVE  \E k \in 1..(Len(s) + 1) : Fits(r, s, k, ev)
<1> DEFINE n == Len(s)
           A == {i \in 1..n : OrderBy(r, ev, s[i])}
<1>1. n \in Nat /\ DOMAIN s = 1..n
    OBVIOUS
<1> HIDE DEF n
<1>2. CASE A = {}
  <2>1. n + 1 \in 1..(n + 1) /\ n + 1 \notin 1..n /\ \A j \in 1..((n + 1) - 1) : j \in 1..n
      BY <1>1
  <2>2. Fits(r, s, n + 1, ev)
      BY <1>1, <1>2, <2>1 DEF Fits
  <2> QED BY <2>1, <2>2 DEF n
<1>3. CASE A # {}
  <2>1. IsFiniteSet(A) /\ A \in SUBSET Int
    <3>1. IsFiniteSet(1..n) /\ A \in SUBSET (1..n) /\ A \in SUBSET Int
        BY <1>1, FS_Interval
    <3> HIDE DEF A
    <3> QED BY <3>1, FS_Subset
  <2> HIDE DEF A
  <2>2. PICK k \in A : \A j \in A : k <= j
      BY <1>3, <2>1, LeastNumber
  <2> USE DEF A
  <2>3. \A j \in 1..(k - 1) : j \in 1..n /\ ~(k <= j)
      BY <1>1, <2>2
  <2>4. Fits(r, s, k, ev) /\ k \in 1..(n + 1)
      BY <1>1, <2>2, <2>3 DEF Fits
  <2> QED BY <2>4 DEF n
<1> QED BY <1>2, <1>3

\* Inserting an event where it belongs keeps the list sorted.
LEMMA SortedInsert ==
    ASSUME NEW r \in BOOLEAN, NEW s \in Seq(Keys), SortedBy(r, s), NEW ev \in Keys,
           ev \notin Range(s), UniqueUids(Range(s) \cup {ev}),
           NEW k \in 1..(Len(s) + 1), Fits(r, s, k, ev)
    PROVE  LET t == InsertBefore(s, k, ev)
           IN  t \in Seq(Keys) /\ SortedBy(r, t) /\ Range(t) = Range(s) \cup {ev}
<1> DEFINE n == Len(s)
           t == InsertBefore(s, k, ev)
<1>1. n \in Nat /\ DOMAIN s = 1..n /\ k \in Nat /\ 1 <= k /\ k <= n + 1
      /\ \A i \in 1..n : s[i] \in Keys
    OBVIOUS
<1>2. /\ t \in Seq(Keys) /\ Len(t) = n + 1 /\ Range(t) = Range(s) \cup {ev}
      /\ \A i \in 1..(n + 1) : t[i] = IF i < k THEN s[i] ELSE IF i = k THEN ev ELSE s[i - 1]
    BY InsertEntry, InsertRange
<1>3. \A i, j \in 1..n : i < j => OrderBy(r, s[i], s[j])
    BY <1>1 DEF SortedBy
<1>4. \A i \in 1..n : s[i] \in Range(s) \cup {ev} /\ s[i] # ev
    BY <1>1 DEF Range
<1>5. Range(s) \cup {ev} \in SUBSET Keys
    BY <1>1 DEF Range
<1> HIDE DEF t, n
<1>6. \A i \in 1..(n + 1) : i < k => t[i] = s[i] /\ i \in 1..n
    BY <1>1, <1>2
<1>7. \A i \in 1..(n + 1) : i > k => t[i] = s[i - 1] /\ i - 1 \in 1..n
    BY <1>1, <1>2
<1>8. t[k] = ev
    BY <1>1, <1>2
<1>9. ASSUME NEW i \in 1..n, i < k PROVE OrderBy(r, s[i], ev)
  <2>1. i \in 1..(k - 1)
      BY <1>1, <1>9
  <2>2. ~OrderBy(r, ev, s[i])
      BY <2>1 DEF Fits
  <2>3. s[i] \in Range(s) \cup {ev} /\ ev \in Range(s) \cup {ev} /\ s[i] # ev
      BY <1>4
  <2> QED BY <1>5, <2>2, <2>3, OrderByTotal
<1>10. ASSUME NEW i \in 1..n, i >= k PROVE OrderBy(r, ev, s[i])
  <2>1. k \in 1..n
      BY <1>1, <1>10
  <2>2. OrderBy(r, ev, s[k])
      BY <1>1, <2>1 DEF Fits
  <2>3. CASE i = k
      BY <2>2, <2>3
  <2>4. CASE i > k
    <3>1. OrderBy(r, s[k], s[i])
        BY <1>3, <2>1, <2>4
    <3> QED BY <1>1, <2>1, <2>2, <3>1, OrderByOrder
  <2> QED BY <1>1, <1>10, <2>3, <2>4
<1>11. ASSUME NEW i \in 1..(n + 1), NEW j \in 1..(n + 1), i < j
       PROVE  OrderBy(r, t[i], t[j])
  <2>1. CASE j < k
    <3>1. i < k
        BY <1>1, <1>11, <2>1
    <3> QED BY <1>3, <1>6, <1>11, <2>1, <3>1
  <2>2. CASE j = k
      BY <1>6, <1>8, <1>9, <1>11, <2>2
  <2>3. CASE j > k /\ i < k
    <3>1. i < j - 1
        BY <1>1, <2>3
    <3> QED BY <1>3, <1>6, <1>7, <2>3, <3>1
  <2>4. CASE j > k /\ i = k
    <3>1. j - 1 >= k
        BY <1>1, <2>4
    <3> QED BY <1>7, <1>8, <1>10, <2>4, <3>1
  <2>5. CASE j > k /\ i > k
    <3>1. i - 1 < j - 1
        BY <1>1, <1>11
    <3> QED BY <1>3, <1>7, <2>5, <3>1
  <2> QED BY <1>1, <2>1, <2>2, <2>3, <2>4, <2>5
<1>12. DOMAIN t = 1..(n + 1)
    BY <1>2
<1>13. SortedBy(r, t)
    BY <1>11, <1>12 DEF SortedBy
<1> QED BY <1>2, <1>13 DEF t

\* Erasing an event keeps the list sorted.
LEMMA SortedErase ==
    ASSUME NEW r \in BOOLEAN, NEW s \in Seq(Keys), SortedBy(r, s), NEW k \in 1..Len(s)
    PROVE  LET t == Erase(s, k)
           IN  t \in Seq(Keys) /\ SortedBy(r, t) /\ Range(t) = Range(s) \ {s[k]}
<1> DEFINE n == Len(s)
           t == Erase(s, k)
           g(i) == IF i < k THEN i ELSE i + 1
<1>1. n \in Nat /\ DOMAIN s = 1..n
    OBVIOUS
<1>2. t \in Seq(Keys) /\ Len(t) = n - 1 /\ \A i \in 1..(n - 1) : t[i] = s[g(i)]
    BY EraseEntry
<1>3. \A i, j \in DOMAIN s : s[i] = s[j] => i = j
    BY SortedDistinct DEF IsInjective
<1>4. Range(t) = Range(s) \ {s[k]}
    BY <1>3, EraseFromDistinct
<1>5. \A i, j \in 1..n : i < j => OrderBy(r, s[i], s[j])
    BY <1>1 DEF SortedBy
<1> HIDE DEF t, n
<1>6. DOMAIN t = 1..(n - 1) /\ \A i \in 1..(n - 1) : g(i) \in 1..n
    BY <1>1, <1>2
<1>7. \A i, j \in 1..(n - 1) : i < j => g(i) < g(j)
    BY <1>1
<1> HIDE DEF g
<1>8. SortedBy(r, t)
    BY <1>2, <1>5, <1>6, <1>7 DEF SortedBy
<1> QED BY <1>2, <1>4, <1>8 DEF t

\* The first entry and the last one go like any other.
LEMMA EndsErased ==
    ASSUME NEW s \in Seq(Keys), s # <<>>
    PROVE  /\ Tail(s) = Erase(s, 1) /\ SubSeq(s, 1, Len(s) - 1) = Erase(s, Len(s))
           /\ Head(s) = s[1] /\ 1 \in 1..Len(s) /\ Len(s) \in 1..Len(s)
<1> DEFINE n == Len(s)
           a == Erase(s, 1)
           b == Erase(s, n)
           f == SubSeq(s, 1, n - 1)
<1>1. n \in Nat /\ n >= 1 /\ 1 \in 1..n /\ n \in 1..n /\ DOMAIN s = 1..n
    OBVIOUS
<1>2. /\ Tail(s) \in Seq(Keys) /\ Len(Tail(s)) = n - 1
      /\ \A i \in 1..(n - 1) : Tail(s)[i] = s[i + 1]
    BY <1>1
<1>3. /\ a \in Seq(Keys) /\ Len(a) = n - 1
      /\ \A i \in 1..(n - 1) : a[i] = s[IF i < 1 THEN i ELSE i + 1]
    BY <1>1, EraseEntry
<1>4. /\ b \in Seq(Keys) /\ Len(b) = n - 1
      /\ \A i \in 1..(n - 1) : b[i] = s[IF i < n THEN i ELSE i + 1]
    BY <1>1, EraseEntry
<1>5. /\ f \in Seq(Keys) /\ Len(f) = n - 1
      /\ \A i \in 1..(n - 1) : f[i] = s[i]
  <2>7. n - 1 \in Nat /\ 1 <= (n - 1) + 1 /\ n - 1 <= Len(s)
      BY <1>1
  <2>1. PICK m \in Nat : m = n - 1 /\ 1 <= m + 1 /\ m <= Len(s)
    <3> HIDE DEF n
    <3> QED BY <2>7
  <2>2. 1 \in Nat \ {0}
      OBVIOUS
  <2> DEFINE q == SubSeq(s, 1, m)
  <2>3. q \in Seq(Keys) /\ Len(q) = m - 1 + 1 /\ \A i \in 1..(m - 1 + 1) : q[i] = s[1 + i - 1]
      BY <2>1, <2>2, PieceEntries
  <2>4. q = f
      BY <2>1
  <2> HIDE DEF q, f, n
  <2>5. m - 1 + 1 = m /\ \A i \in 1..m : 1 + i - 1 = i
      OBVIOUS
  <2>6. Len(q) = m /\ \A i \in 1..m : q[i] = s[i]
      BY <2>3, <2>5
  <2> QED BY <2>1, <2>3, <2>4, <2>6
<1>6. Head(s) = s[1]
    OBVIOUS
<1> HIDE DEF n, a, b, f
<1>7. \A i \in 1..(n - 1) : Tail(s)[i] = a[i]
    BY <1>1, <1>2, <1>3
<1>8. \A i \in 1..(n - 1) : f[i] = b[i] /\ Len(f) = n - 1
    BY <1>1, <1>4, <1>5
<1>9. Tail(s) = a
  <2>1. \A i \in 1..Len(Tail(s)) : Tail(s)[i] = a[i]
      BY <1>2, <1>7
  <2> QED BY <1>2, <1>3, <2>1, SeqEqual
<1>10. f = b
  <2>1. Len(f) = n - 1
      BY <1>1, <1>5
  <2>2. \A i \in 1..Len(f) : f[i] = b[i]
      BY <1>8, <2>1
  <2> QED BY <1>4, <1>5, <2>1, <2>2, SeqEqual
<1> QED BY <1>1, <1>6, <1>9, <1>10 DEF n, a, b, f

\* The next event of a sorted list, at its front or, when it is sorted latest
\* first, at its end.
LEMMA SortedNext ==
    ASSUME NEW r \in BOOLEAN, NEW s \in Seq(Keys), SortedBy(r, s), s # <<>>
    PROVE  LET e == IF r THEN s[Len(s)] ELSE s[1]
           IN  e \in Range(s) /\ \A x \in Range(s) : x = e \/ Less(e, x)
<1> DEFINE n == Len(s)
<1>1. n \in Nat /\ n >= 1 /\ DOMAIN s = 1..n
    OBVIOUS
<1> HIDE DEF n
<1>2. CASE r
  <2>1. \A i \in 1..n : i = n \/ i < n
      BY <1>1
  <2>2. \A i \in 1..n : s[i] = s[n] \/ Less(s[n], s[i])
      BY <1>1, <1>2, <2>1 DEF SortedBy, OrderBy
  <2> QED BY <1>1, <1>2, <2>2 DEF Range, n
<1>3. CASE ~r
  <2>1. \A i \in 1..n : i = 1 \/ 1 < i
      BY <1>1
  <2>2. \A i \in 1..n : s[i] = s[1] \/ Less(s[1], s[i])
      BY <1>1, <1>3, <2>1 DEF SortedBy, OrderBy
  <2> QED BY <1>1, <1>3, <2>2 DEF Range
<1> QED BY <1>2, <1>3

-----------------------------------------------------------------------------
(* The list: inserting and filling.                                        *)

\* The list is sorted earliest first.
ListSorted(s) == \A i, j \in DOMAIN s : i < j => Less(s[i], s[j])

\* The list is ordered like a bucket that is not reversed.
LEMMA ListSortedBy ==
    ASSUME NEW r \in BOOLEAN, ~r, NEW s
    PROVE  ListSorted(s) <=> SortedBy(r, s)
BY DEF ListSorted, SortedBy, OrderBy

\* Insert of the list: the event gets its place in the order.
LEMMA ListInserted ==
    ASSUME NEW s \in Seq(Keys), ListSorted(s), NEW ev \in Keys,
           ev \notin Range(s), UniqueUids(Range(s) \cup {ev})
    PROVE  LET t == Inserted(s, ev)
           IN  t \in Seq(Keys) /\ ListSorted(t) /\ Range(t) = Range(s) \cup {ev}
<1> DEFINE k == CHOOSE k \in 1..(Len(s) + 1) :
                 /\ k \in DOMAIN s => Less(ev, s[k])
                 /\ \A j \in 1..(k - 1) : ~Less(ev, s[j])
<1>0. PICK r \in BOOLEAN : ~r
    OBVIOUS
<1>1. \A i \in 1..(Len(s) + 1) :
         Fits(r, s, i, ev) <=> /\ i \in DOMAIN s => Less(ev, s[i])
                               /\ \A j \in 1..(i - 1) : ~Less(ev, s[j])
    BY <1>0 DEF Fits, OrderBy
<1>2. \E i \in 1..(Len(s) + 1) : Fits(r, s, i, ev)
    BY FitsSomewhere
<1>3. k \in 1..(Len(s) + 1) /\ Fits(r, s, k, ev)
    BY <1>1, <1>2
<1>4. Inserted(s, ev) = InsertBefore(s, k, ev)
    BY DEF Inserted
<1> HIDE DEF k
<1>5. SortedBy(r, s)
    BY <1>0, ListSortedBy
<1> DEFINE t == InsertBefore(s, k, ev)
<1>6. t \in Seq(Keys) /\ SortedBy(r, t) /\ Range(t) = Range(s) \cup {ev}
    BY <1>3, <1>5, SortedInsert
<1>7. ListSorted(t)
    BY <1>0, <1>6, ListSortedBy
<1> QED BY <1>4, <1>6, <1>7

\* The calls of Insert that fill a list follow each other.
LEMMA ListFillingLoop ==
    ASSUME NEW list \in Seq(Keys)
    PROVE  /\ ListFilling(list)[0] = <<>>
           /\ \A k \in 1..Len(list) : ListFilling(list)[k] = Inserted(ListFilling(list)[k - 1], list[k])
<1> DEFINE N == Len(list)
           base == <<>>
           Loop(m, g) == g = [k \in 0..m |-> IF k = 0 THEN base ELSE Inserted(g[k - 1], list[k])]
           P == {m \in 0..N : \E g : Loop(m, g)}
<1>0. N \in Nat /\ N \in 0..N
    OBVIOUS
<1>1. 0 \in P
  <2>1. Loop(0, [k \in 0..0 |-> base])
      OBVIOUS
  <2>2. \E g : Loop(0, g)
      BY <2>1
  <2> QED BY <1>0, <2>2
<1>2. ASSUME NEW m \in 1..N, m - 1 \in P PROVE m \in P
  <2>1. PICK g : Loop(m - 1, g)
      BY <1>2
  <2> DEFINE f == [k \in 0..m |-> IF k = m THEN Inserted(g[k - 1], list[k]) ELSE g[k]]
  <2>2. \A k \in 0..(m - 1) : g[k] = IF k = 0 THEN base ELSE Inserted(g[k - 1], list[k])
      BY <2>1
  <2>3. ASSUME NEW k \in 0..m
        PROVE  f[k] = IF k = 0 THEN base ELSE Inserted(f[k - 1], list[k])
    <3>1. CASE k = m
        BY <1>0, <3>1
    <3>2. CASE k # m
      <4>1. k \in 0..(m - 1) /\ f[k] = g[k] /\ (k # 0 => f[k - 1] = g[k - 1])
          BY <1>0, <3>2
      <4> QED BY <2>2, <4>1
    <3> QED BY <3>1, <3>2
  <2>4. Loop(m, f)
      BY <2>3
  <2>5. \E x : Loop(m, x)
    <3> HIDE DEF f
    <3> QED BY <2>4
  <2> QED BY <1>0, <2>5
<1> HIDE DEF P, N
<1>3. N \in P
    BY <1>0, <1>1, <1>2, CountingUp
<1>4. \E g : Loop(N, g)
    BY <1>3 DEF P
<1> DEFINE f == ListFilling(list)
<1>5. Loop(N, f)
    BY <1>4 DEF ListFilling, N
<1> HIDE DEF f
<1>6. \A k \in 0..N : f[k] = IF k = 0 THEN base ELSE Inserted(f[k - 1], list[k])
    BY <1>5
<1> QED BY <1>0, <1>6 DEF f, N

\* A list that was filled holds the events it was given, and is sorted.
LEMMA ListFilled ==
    ASSUME NEW S, UniqueUids(S), NEW d, Lists(d, S)
    PROVE  LET g == ListFilling(d)[Len(d)]
           IN  g \in Seq(Keys) /\ ListSorted(g) /\ Range(g) = S
<1> DEFINE n == Len(d)
           f == ListFilling(d)
           P == {k \in 0..n : /\ f[k] \in Seq(Keys) /\ ListSorted(f[k])
                              /\ Range(f[k]) = {d[j] : j \in 1..k}}
<1>1. /\ d \in Seq(Keys) /\ n \in Nat /\ n \in 0..n /\ DOMAIN d = 1..n /\ Range(d) = S
      /\ \A i, j \in 1..n : d[i] = d[j] => i = j
    BY DEF Lists, IsInjective
<1>2. f[0] = <<>> /\ \A k \in 1..n : f[k] = Inserted(f[k - 1], d[k])
    BY <1>1, ListFillingLoop
<1> HIDE DEF f, n
<1>3. 0 \in P
  <2>1. /\ <<>> \in Seq(Keys) /\ ListSorted(<<>>) /\ Range(<<>>) = {}
      BY DEF ListSorted, Range
  <2>2. {d[j] : j \in 1..0} = {}
      OBVIOUS
  <2>3. /\ f[0] \in Seq(Keys) /\ ListSorted(f[0])
        /\ Range(f[0]) = {d[j] : j \in 1..0}
      BY <1>2, <2>1, <2>2
  <2>4. 0 \in 0..n
      BY <1>1
  <2> QED BY <2>3, <2>4
<1>4. ASSUME NEW k \in 1..n, k - 1 \in P PROVE k \in P
  <2>1. /\ f[k - 1] \in Seq(Keys) /\ ListSorted(f[k - 1])
        /\ Range(f[k - 1]) = {d[j] : j \in 1..(k - 1)} /\ d[k] \in Keys
      BY <1>1, <1>4
  <2>2. d[k] \notin Range(f[k - 1])
      BY <1>1, <2>1
  <2>3. Range(f[k - 1]) \cup {d[k]} = {d[j] : j \in 1..k}
    <3>1. 1..k = 1..(k - 1) \cup {k}
        BY <1>1
    <3> QED BY <2>1, <3>1
  <2>4. {d[j] : j \in 1..k} \subseteq S
      BY <1>1 DEF Range
  <2>5. UniqueUids(Range(f[k - 1]) \cup {d[k]})
      BY <2>3, <2>4 DEF UniqueUids
  <2>6. f[k] \in Seq(Keys) /\ ListSorted(f[k]) /\ Range(f[k]) = {d[j] : j \in 1..k}
      BY <1>2, <2>1, <2>2, <2>3, <2>5, ListInserted
  <2> QED BY <1>1, <2>6
<1> HIDE DEF P
<1>5. n \in P
    BY <1>1, <1>3, <1>4, CountingUp
<1>6. Range(f[n]) = S
    BY <1>1, <1>5 DEF P, Range
<1> QED BY <1>5, <1>6 DEF P, f, n

-----------------------------------------------------------------------------
(* The calendar: buckets.                                                  *)

\* The events in the buckets.
Contents(c) == UNION {Range(c.buckets[b]) : b \in DOMAIN c.buckets}

\* The fields of the calendar that do not depend on one another.
CalendarRecords ==
    [buckets    : UNION {[0..(n - 1) -> Seq(Keys)] : n \in Nat},
     nBuckets   : Nat \ {0},
     width      : Nat \ {0},
     lastPrio   : Nat,
     lastBucket : Nat,
     bucketTop  : Nat,
     qSize      : Int]

\* There is a bucket for every day of the year.
CalendarType(c) ==
    c \in CalendarRecords /\ c.buckets \in [0..(c.nBuckets - 1) -> Seq(Keys)]

\* Every event is in the bucket it hashes to, and the buckets are sorted.
Shelved(r, c) ==
    \A b \in 0..(c.nBuckets - 1) :
        /\ SortedBy(r, c.buckets[b])
        /\ \A e \in Range(c.buckets[b]) : Calendar!Hash(c, e.ts) = b

\* The fields of a calendar.
LEMMA CalendarFields ==
    ASSUME NEW c, CalendarType(c)
    PROVE  /\ c.nBuckets \in Nat \ {0} /\ c.width \in Nat \ {0} /\ c.lastPrio \in Nat
           /\ c.lastBucket \in Nat /\ c.bucketTop \in Nat /\ c.qSize \in Int
           /\ DOMAIN c.buckets = 0..(c.nBuckets - 1)
           /\ \A b \in 0..(c.nBuckets - 1) : c.buckets[b] \in Seq(Keys)
BY DEF CalendarType, CalendarRecords

\* Two calendars with as many days of the same length hash alike.
LEMMA SameHash ==
    ASSUME NEW c, NEW g, g.nBuckets = c.nBuckets, g.width = c.width, NEW ts
    PROVE  Calendar!Hash(g, ts) = Calendar!Hash(c, ts)
BY DEF Calendar!Hash

\* Hash finds the bucket of the day, one of the calendar.
LEMMA HashRange ==
    ASSUME NEW c, CalendarType(c), NEW ts \in Nat
    PROVE  /\ Calendar!Hash(c, ts) \in 0..(c.nBuckets - 1)
           /\ Calendar!Hash(c, ts) = (ts \div c.width) % c.nBuckets
<1>1. c.width \in Nat \ {0} /\ c.nBuckets \in Nat \ {0}
    BY CalendarFields
<1>2. ts \div c.width \in Nat
    BY <1>1, DivFacts
<1>3. (ts \div c.width) % c.nBuckets \in 0..(c.nBuckets - 1)
    BY <1>1, <1>2, ModFacts
<1> QED BY <1>3 DEF Calendar!Hash

\* The events are keys, and a bucket holds those that hash to it.
LEMMA ContentsFacts ==
    ASSUME NEW r, NEW c, CalendarType(c), Shelved(r, c)
    PROVE  /\ Contents(c) \in SUBSET Keys
           /\ \A e \in Contents(c) :
                 /\ Calendar!Hash(c, e.ts) \in 0..(c.nBuckets - 1)
                 /\ e \in Range(c.buckets[Calendar!Hash(c, e.ts)])
           /\ \A b \in 0..(c.nBuckets - 1) : Range(c.buckets[b]) \in SUBSET Contents(c)
<1>1. /\ DOMAIN c.buckets = 0..(c.nBuckets - 1)
      /\ \A b \in 0..(c.nBuckets - 1) : c.buckets[b] \in Seq(Keys)
    BY CalendarFields
<1>2. \A b \in 0..(c.nBuckets - 1) : Range(c.buckets[b]) \in SUBSET Keys
    BY <1>1 DEF Range
<1>3. Contents(c) \in SUBSET Keys
    BY <1>1, <1>2 DEF Contents
<1>4. \A b \in 0..(c.nBuckets - 1) : Range(c.buckets[b]) \in SUBSET Contents(c)
    BY <1>1 DEF Contents
<1>5. ASSUME NEW e \in Contents(c)
      PROVE  /\ Calendar!Hash(c, e.ts) \in 0..(c.nBuckets - 1)
             /\ e \in Range(c.buckets[Calendar!Hash(c, e.ts)])
  <2>1. PICK b \in 0..(c.nBuckets - 1) : e \in Range(c.buckets[b])
      BY <1>1 DEF Contents
  <2>2. Calendar!Hash(c, e.ts) = b
      BY <2>1 DEF Shelved
  <2> QED BY <2>1, <2>2
<1> QED BY <1>3, <1>4, <1>5

\* A calendar with another bucket b.
LEMMA BucketReplaced ==
    ASSUME NEW r, NEW c, CalendarType(c), Shelved(r, c), NEW b \in 0..(c.nBuckets - 1),
           NEW s \in Seq(Keys), SortedBy(r, s), \A e \in Range(s) : Calendar!Hash(c, e.ts) = b,
           NEW g \in CalendarRecords, g.nBuckets = c.nBuckets, g.width = c.width,
           g.buckets = [c.buckets EXCEPT ![b] = s]
    PROVE  /\ CalendarType(g) /\ Shelved(r, g)
           /\ Contents(g) = (Contents(c) \ Range(c.buckets[b])) \cup Range(s)
<1> DEFINE D == 0..(c.nBuckets - 1)
<1>1. /\ DOMAIN c.buckets = D /\ \A i \in D : c.buckets[i] \in Seq(Keys)
      /\ c.buckets \in [D -> Seq(Keys)]
    BY CalendarFields DEF CalendarType
<1>2. /\ g.buckets \in [D -> Seq(Keys)] /\ DOMAIN g.buckets = D /\ g.buckets[b] = s
      /\ \A i \in D : i # b => g.buckets[i] = c.buckets[i]
    BY <1>1
<1>3. CalendarType(g)
    BY <1>2 DEF CalendarType
<1>4. \A ts : Calendar!Hash(g, ts) = Calendar!Hash(c, ts)
    BY SameHash
<1>5. \A i \in D : /\ SortedBy(r, c.buckets[i])
                   /\ \A e \in Range(c.buckets[i]) : Calendar!Hash(c, e.ts) = i
    BY DEF Shelved
<1>6. ASSUME NEW i \in D
      PROVE  /\ SortedBy(r, g.buckets[i])
             /\ \A e \in Range(g.buckets[i]) : Calendar!Hash(g, e.ts) = i
  <2>1. CASE i = b
      BY <1>2, <1>4, <2>1
  <2>2. CASE i # b
      BY <1>2, <1>4, <1>5, <2>2
  <2> QED BY <2>1, <2>2
<1>7. Shelved(r, g)
    BY <1>6 DEF Shelved
<1>8. ASSUME NEW e PROVE e \in Contents(g) <=> e \in (Contents(c) \ Range(c.buckets[b])) \cup Range(s)
  <2>1. e \in Contents(g) <=> \E i \in D : e \in Range(g.buckets[i])
      BY <1>2 DEF Contents
  <2>2. e \in Contents(c) <=> \E i \in D : e \in Range(c.buckets[i])
      BY <1>1 DEF Contents
  <2>3. \A i \in D : e \in Range(c.buckets[i]) /\ e \in Range(c.buckets[b]) => i = b
      BY <1>5
  <2>4. b \in D
      OBVIOUS
  <2> HIDE DEF D
  <2> QED BY <1>2, <2>1, <2>2, <2>3, <2>4
<1>9. Contents(g) = (Contents(c) \ Range(c.buckets[b])) \cup Range(s)
    BY <1>8
<1> QED BY <1>3, <1>7, <1>9

-----------------------------------------------------------------------------
(* The calendar: inserting into a bucket and taking its next event out.    *)

\* The calendar orders a bucket by the attribute.
LEMMA SameOrder ==
    ASSUME NEW a, NEW b
    PROVE  Calendar!Order(a, b) = OrderBy(m_reverse, a, b)
BY SameLess DEF Calendar!Order, OrderBy

\* Appending is inserting behind the last entry.
LEMMA AppendIsInsert ==
    ASSUME NEW s \in Seq(Keys), NEW ev \in Keys
    PROVE  Append(s, ev) = InsertBefore(s, Len(s) + 1, ev)
<1> DEFINE n == Len(s)
           t == InsertBefore(s, n + 1, ev)
           a == Append(s, ev)
<1>1. n \in Nat /\ n + 1 \in 1..(n + 1)
    OBVIOUS
<1>2. /\ t \in Seq(Keys) /\ Len(t) = n + 1
      /\ \A i \in 1..(n + 1) : t[i] = IF i < n + 1 THEN s[i] ELSE IF i = n + 1 THEN ev ELSE s[i - 1]
    BY <1>1, InsertEntry
<1>3. a \in Seq(Keys) /\ Len(a) = n + 1 /\ \A i \in 1..(n + 1) : a[i] = IF i < n + 1 THEN s[i] ELSE ev
    BY <1>1
<1> HIDE DEF a, t, n
<1>4. \A i \in 1..(n + 1) : a[i] = t[i]
    BY <1>1, <1>2, <1>3
<1>5. \A i \in 1..Len(a) : a[i] = t[i]
    BY <1>3, <1>4
<1>6. a = t
    BY <1>2, <1>3, <1>5, SeqEqual
<1> QED BY <1>6 DEF a, t, n

\* Inserting into a bucket keeps it sorted.
LEMMA BucketInserted ==
    ASSUME m_reverse \in BOOLEAN, NEW s \in Seq(Keys), SortedBy(m_reverse, s),
           NEW ev \in Keys, ev \notin Range(s), UniqueUids(Range(s) \cup {ev})
    PROVE  LET t == Calendar!InsertInBucket(s, ev)
           IN  t \in Seq(Keys) /\ SortedBy(m_reverse, t) /\ Range(t) = Range(s) \cup {ev}
<1> DEFINE n == Len(s)
           A == {i \in 1..n : OrderBy(m_reverse, ev, s[i])}
           t == Calendar!InsertInBucket(s, ev)
<1>1. n \in Nat /\ DOMAIN s = 1..n /\ n + 1 \in 1..(n + 1)
    OBVIOUS
<1>2. {i \in DOMAIN s : Calendar!Order(ev, s[i])} = A
    BY <1>1, SameOrder
<1>3. t = IF A = {} THEN Append(s, ev) ELSE InsertBefore(s, Calendar!Min(A), ev)
    BY <1>2 DEF Calendar!InsertInBucket, Calendar!InsertBefore, InsertBefore
<1>4. \E k \in 1..(n + 1) : Fits(m_reverse, s, k, ev) /\ t = InsertBefore(s, k, ev)
  <2>1. CASE A = {}
    <3>1. \A j \in 1..((n + 1) - 1) : j \in 1..n
        BY <1>1
    <3>2. n + 1 \notin 1..n
        BY <1>1
    <3>3. Fits(m_reverse, s, n + 1, ev)
      <4> HIDE DEF n
      <4> QED BY <1>1, <2>1, <3>1, <3>2 DEF Fits
    <3>4. t = InsertBefore(s, n + 1, ev)
        BY <1>3, <2>1, AppendIsInsert
    <3> HIDE DEF n, t
    <3> QED BY <1>1, <3>3, <3>4
  <2>2. CASE A # {}
    <3>1. IsFiniteSet(A) /\ A \in SUBSET Int
      <4>1. IsFiniteSet(1..n) /\ A \in SUBSET (1..n) /\ A \in SUBSET Int
          BY <1>1, FS_Interval
      <4> HIDE DEF A
      <4> QED BY <4>1, FS_Subset
    <3> DEFINE k == Calendar!Min(A)
    <3> HIDE DEF A, n, t
    <3>2. k \in A /\ \A j \in A : k <= j
        BY <2>2, <3>1, LeastNumber DEF Calendar!Min
    <3>3. t = InsertBefore(s, k, ev)
        BY <1>3, <2>2
    <3> HIDE DEF k
    <3>4. k \in 1..n /\ OrderBy(m_reverse, ev, s[k]) /\ k \in 1..(n + 1)
        BY <1>1, <3>2 DEF A
    <3>5. \A j \in 1..(k - 1) : j \in 1..n /\ ~(k <= j)
        BY <1>1, <3>4
    <3>6. Fits(m_reverse, s, k, ev)
        BY <1>1, <3>2, <3>4, <3>5 DEF Fits, A
    <3> QED BY <3>3, <3>4, <3>6
  <2> QED BY <2>1, <2>2
<1>5. PICK k \in 1..(n + 1) : Fits(m_reverse, s, k, ev) /\ t = InsertBefore(s, k, ev)
    BY <1>4
<1> HIDE DEF t
<1> QED BY <1>5, SortedInsert DEF t

\* The next event of a bucket is its least, and Pop takes it out.
LEMMA BucketNext ==
    ASSUME m_reverse \in BOOLEAN, NEW s \in Seq(Keys), SortedBy(m_reverse, s), s # <<>>
    PROVE  LET e == Calendar!NextEvent(s)
               t == Calendar!Pop(s)
           IN  /\ e \in Range(s) /\ \A x \in Range(s) : x = e \/ Less(e, x)
               /\ t \in Seq(Keys) /\ SortedBy(m_reverse, t) /\ Range(t) = Range(s) \ {e}
<1> DEFINE e == Calendar!NextEvent(s)
           t == Calendar!Pop(s)
           n == Len(s)
<1>1. /\ Tail(s) = Erase(s, 1) /\ SubSeq(s, 1, Len(s) - 1) = Erase(s, Len(s))
      /\ Head(s) = s[1] /\ 1 \in 1..Len(s) /\ Len(s) \in 1..Len(s)
    BY EndsErased
<1>2. e = IF m_reverse THEN s[n] ELSE s[1]
    BY <1>1 DEF Calendar!NextEvent, Calendar!Sx!Last
<1>3. t = IF m_reverse THEN Erase(s, n) ELSE Erase(s, 1)
    BY <1>1 DEF Calendar!Pop, Calendar!Sx!Front
<1>4. PICK k \in 1..n : e = s[k] /\ t = Erase(s, k)
  <2>1. CASE m_reverse
      BY <1>1, <1>2, <1>3, <2>1
  <2>2. CASE ~m_reverse
      BY <1>1, <1>2, <1>3, <2>2
  <2> QED BY <2>1, <2>2
<1>5. e \in Range(s) /\ \A x \in Range(s) : x = e \/ Less(e, x)
    BY <1>2, SortedNext
<1> HIDE DEF e, t
<1>6. t \in Seq(Keys) /\ SortedBy(m_reverse, t) /\ Range(t) = Range(s) \ {e}
    BY <1>4, SortedErase
<1> QED BY <1>5, <1>6 DEF e, t

\* A calendar with other values in the fields that resizing does not change.
LEMMA CalendarUpdated ==
    ASSUME NEW c, CalendarType(c), NEW b \in 0..(c.nBuckets - 1), NEW s \in Seq(Keys),
           NEW lp \in Nat, NEW lb \in Nat, NEW bt \in Nat, NEW q \in Int
    PROVE  LET g == [c EXCEPT !.buckets = [c.buckets EXCEPT ![b] = s], !.lastPrio = lp,
                              !.lastBucket = lb, !.bucketTop = bt, !.qSize = q]
           IN  g \in CalendarRecords
<1>1. [c.buckets EXCEPT ![b] = s] \in [0..(c.nBuckets - 1) -> Seq(Keys)]
    BY DEF CalendarType
<1>2. c.nBuckets \in Nat
    BY CalendarFields
<1>3. [c.buckets EXCEPT ![b] = s] \in UNION {[0..(n - 1) -> Seq(Keys)] : n \in Nat}
    BY <1>1, <1>2
<1> QED BY <1>3 DEF CalendarType, CalendarRecords

\* DoInsert puts the event into its bucket and leaves the rest alone.
LEMMA DoInserted ==
    ASSUME m_reverse \in BOOLEAN, NEW c, CalendarType(c), Shelved(m_reverse, c),
           NEW ev \in Keys, ev \notin Contents(c), UniqueUids(Contents(c) \cup {ev})
    PROVE  LET g == Calendar!DoInsert(c, ev)
           IN  /\ CalendarType(g) /\ Shelved(m_reverse, g)
               /\ Contents(g) = Contents(c) \cup {ev}
               /\ g.nBuckets = c.nBuckets /\ g.width = c.width /\ g.lastPrio = c.lastPrio
               /\ g.lastBucket = c.lastBucket /\ g.bucketTop = c.bucketTop
               /\ g.qSize = c.qSize
<1> DEFINE b == Calendar!Hash(c, ev.ts)
           s == c.buckets[b]
           t == Calendar!InsertInBucket(s, ev)
           g == Calendar!DoInsert(c, ev)
<1>1. b \in 0..(c.nBuckets - 1)
    BY KeyFields, HashRange
<1>2. s \in Seq(Keys) /\ SortedBy(m_reverse, s)
    BY <1>1, CalendarFields DEF Shelved
<1>3. Range(s) \in SUBSET Contents(c)
    BY <1>1, ContentsFacts
<1>4. ev \notin Range(s) /\ UniqueUids(Range(s) \cup {ev})
    BY <1>3 DEF UniqueUids
<1>5. t \in Seq(Keys) /\ SortedBy(m_reverse, t) /\ Range(t) = Range(s) \cup {ev}
    BY <1>2, <1>4, BucketInserted
<1>6. \A e \in Range(t) : Calendar!Hash(c, e.ts) = b
    BY <1>1, <1>5 DEF Shelved
<1>7. /\ g.buckets = [c.buckets EXCEPT ![b] = t]
      /\ g.nBuckets = c.nBuckets /\ g.width = c.width /\ g.lastPrio = c.lastPrio
      /\ g.lastBucket = c.lastBucket /\ g.bucketTop = c.bucketTop
      /\ g.qSize = c.qSize
    BY DEF Calendar!DoInsert, CalendarType, CalendarRecords
<1>8. g \in CalendarRecords
  <2>1. g = [c EXCEPT !.buckets = [c.buckets EXCEPT ![b] = t], !.lastPrio = c.lastPrio,
                      !.lastBucket = c.lastBucket, !.bucketTop = c.bucketTop, !.qSize = c.qSize]
      BY DEF Calendar!DoInsert, CalendarType, CalendarRecords
  <2>2. c.lastPrio \in Nat /\ c.lastBucket \in Nat /\ c.bucketTop \in Nat /\ c.qSize \in Int
      BY CalendarFields
  <2> HIDE DEF b, t, g
  <2> QED BY <1>1, <1>5, <2>1, <2>2, CalendarUpdated
<1> HIDE DEF b, t, g
<1>9. /\ CalendarType(g) /\ Shelved(m_reverse, g)
      /\ Contents(g) = (Contents(c) \ Range(c.buckets[b])) \cup Range(t)
    BY <1>1, <1>5, <1>6, <1>7, <1>8, BucketReplaced
<1>10. Contents(g) = Contents(c) \cup {ev}
    BY <1>3, <1>5, <1>9
<1> QED BY <1>7, <1>9, <1>10 DEF g

-----------------------------------------------------------------------------
(* The calendar: searching for the next event.                             *)

\* e comes before everything else in S.
Earliest(e, S) == e \in S /\ \A x \in S : x = e \/ Less(e, x)

\* The search starts at the day of m_lastPrio, and no event is before that.
Placed(c) ==
    /\ c.lastBucket = Calendar!Hash(c, c.lastPrio)
    /\ c.bucketTop = (c.lastPrio \div c.width + 1) * c.width
    /\ \A e \in Contents(c) : e.ts >= c.lastPrio

\* What the search for the next event needs.
Good(r, c) == CalendarType(c) /\ Shelved(r, c) /\ Placed(c) /\ UniqueUids(Contents(c))

\* The number of the day of time stamp ts, counted from time zero.
DayOf(c, ts) == ts \div c.width

\* The number of days grows with the time stamp.
LEMMA DayOfFacts ==
    ASSUME NEW c, CalendarType(c), NEW a \in Nat, NEW b \in Nat
    PROVE  /\ DayOf(c, a) \in Nat
           /\ a <= b => DayOf(c, a) <= DayOf(c, b)
           /\ DayOf(c, a) < DayOf(c, b) => a < b
<1>1. c.width \in Nat \ {0}
    BY CalendarFields
<1>2. a \div c.width \in Nat
    BY <1>1, DivFacts
<1> QED BY <1>1, <1>2, DivOrder DEF DayOf

\* The day visited after k steps is k days after the one of m_lastPrio.
LEMMA DayVisited ==
    ASSUME NEW c, CalendarType(c), Placed(c), NEW k \in 0..(c.nBuckets - 1)
    PROVE  /\ Calendar!Day(c, k) \in 0..(c.nBuckets - 1)
           /\ Calendar!Day(c, k) = (DayOf(c, c.lastPrio) + k) % c.nBuckets
           /\ Calendar!DayTop(c, k) = c.width * ((DayOf(c, c.lastPrio) + k) + 1)
<1> DEFINE L == DayOf(c, c.lastPrio)
           n == c.nBuckets
           w == c.width
<1>1. n \in Nat \ {0} /\ w \in Nat \ {0} /\ c.lastPrio \in Nat /\ L \in Nat /\ k \in Nat
    BY CalendarFields, DayOfFacts
<1>2. c.lastBucket = L % n /\ c.bucketTop = (L + 1) * w
    BY DEF Placed, DayOf, Calendar!Hash
<1> HIDE DEF L, n, w
<1>3. ((L % n) + k) % n = (L + k) % n
    BY <1>1, RestOfSum
<1>4. (L + k) % n \in 0..(n - 1)
  <2>1. L + k \in Nat
      BY <1>1
  <2> QED BY <1>1, <2>1, ModFacts
<1>5. (L + 1) * w + k * w = w * ((L + k) + 1)
    BY <1>1
<1>6. Calendar!Day(c, k) = (L + k) % n
    BY <1>2, <1>3 DEF Calendar!Day, n
<1>7. Calendar!DayTop(c, k) = w * ((L + k) + 1)
    BY <1>2, <1>5 DEF Calendar!DayTop, w
<1> QED BY <1>4, <1>6, <1>7 DEF L, n, w

\* An event found in a day before its end is an event of that day and not of
\* the same day of a later year.
LEMMA DayOfYear ==
    ASSUME NEW r, NEW c, Good(r, c), NEW k \in 0..(c.nBuckets - 1),
           NEW e \in Range(c.buckets[Calendar!Day(c, k)])
    PROVE  e.ts < Calendar!DayTop(c, k) <=> DayOf(c, e.ts) = DayOf(c, c.lastPrio) + k
<1> DEFINE L == DayOf(c, c.lastPrio)
           n == c.nBuckets
           w == c.width
           d == DayOf(c, e.ts)
           b == Calendar!Day(c, k)
<1>1. CalendarType(c) /\ Shelved(r, c) /\ Placed(c)
    BY DEF Good
<1>2. /\ b \in 0..(n - 1) /\ b = (L + k) % n
      /\ Calendar!DayTop(c, k) = w * ((L + k) + 1)
    BY <1>1, DayVisited
<1>3. e \in Contents(c) /\ e \in Keys
    BY <1>1, <1>2, ContentsFacts
<1>4. e.ts \in Nat /\ e.ts >= c.lastPrio /\ Calendar!Hash(c, e.ts) = b
    BY <1>1, <1>2, <1>3, KeyFields DEF Placed, Shelved
<1>5. n \in Nat \ {0} /\ w \in Nat \ {0} /\ c.lastPrio \in Nat
    BY <1>1, CalendarFields
<1>6. L \in Nat /\ d \in Nat /\ L <= d /\ L + k \in Nat
  <2>1. L \in Nat /\ d \in Nat /\ (c.lastPrio <= e.ts => L <= d)
      BY <1>1, <1>4, <1>5, DayOfFacts
  <2>2. c.lastPrio <= e.ts
      BY <1>4, <1>5
  <2> QED BY <2>1, <2>2
<1>7. d % n = (L + k) % n
    BY <1>2, <1>4 DEF DayOf, Calendar!Hash
<1>8. e.ts < w * ((L + k) + 1) <=> d <= L + k
    BY <1>4, <1>5, <1>6, DivBound DEF DayOf
<1> HIDE DEF L, n, w, d
<1>9. d <= L + k => d = L + k
  <2>1. L + k < d + n
      BY <1>5, <1>6 DEF n
  <2> QED BY <1>5, <1>6, <1>7, <2>1, SameRest
<1> QED BY <1>2, <1>6, <1>8, <1>9 DEF L, n, w, d

\* A bucket that holds something has a next event, the earliest one in it.
LEMMA NextOf ==
    ASSUME m_reverse \in BOOLEAN, NEW c, Good(m_reverse, c),
           NEW b \in 0..(c.nBuckets - 1), c.buckets[b] # <<>>
    PROVE  LET e == Calendar!NextEvent(c.buckets[b])
           IN  /\ Earliest(e, Range(c.buckets[b])) /\ e \in Contents(c) /\ e \in Keys
               /\ Calendar!Hash(c, e.ts) = b
<1> DEFINE e == Calendar!NextEvent(c.buckets[b])
<1>1. CalendarType(c) /\ Shelved(m_reverse, c)
    BY DEF Good
<1>2. c.buckets[b] \in Seq(Keys) /\ SortedBy(m_reverse, c.buckets[b])
    BY <1>1, CalendarFields DEF Shelved
<1>3. e \in Range(c.buckets[b]) /\ \A x \in Range(c.buckets[b]) : x = e \/ Less(e, x)
    BY <1>2, BucketNext
<1> HIDE DEF e
<1>4. e \in Contents(c) /\ e \in Keys
    BY <1>1, <1>3, ContentsFacts
<1>5. Calendar!Hash(c, e.ts) = b
    BY <1>1, <1>3 DEF Shelved
<1> QED BY <1>3, <1>4, <1>5 DEF Earliest, e

\* The first day of the coming year that holds an event of that year holds the
\* earliest one of all.
LEMMA DayFound ==
    ASSUME m_reverse \in BOOLEAN, NEW c, Good(m_reverse, c), Calendar!DaysWithNext(c) # {}
    PROVE  LET k == Calendar!Min(Calendar!DaysWithNext(c))
               b == Calendar!Day(c, k)
               e == Calendar!NextEvent(c.buckets[b])
           IN  /\ k \in 0..(c.nBuckets - 1) /\ b \in 0..(c.nBuckets - 1)
               /\ c.buckets[b] # <<>> /\ Earliest(e, Contents(c))
               /\ DayOf(c, e.ts) = DayOf(c, c.lastPrio) + k
<1> DEFINE D == Calendar!DaysWithNext(c)
           k == Calendar!Min(D)
           b == Calendar!Day(c, k)
           e == Calendar!NextEvent(c.buckets[b])
           L == DayOf(c, c.lastPrio)
           n == c.nBuckets
<1>1. CalendarType(c) /\ Shelved(m_reverse, c) /\ Placed(c)
    BY DEF Good
<1>2. n \in Nat \ {0} /\ c.lastPrio \in Nat /\ L \in Nat
    BY <1>1, CalendarFields, DayOfFacts
<1>3. k \in D /\ \A j \in D : k <= j
  <2>1. IsFiniteSet(0..(n - 1)) /\ D \in SUBSET (0..(n - 1)) /\ D \in SUBSET Int
    <3>1. IsFiniteSet(0..(n - 1))
      <4>1. 0 \in Int /\ n - 1 \in Int
          BY <1>2
      <4> HIDE DEF n
      <4> QED BY <4>1, FS_Interval
    <3>2. D \in SUBSET (0..(n - 1))
        BY DEF Calendar!DaysWithNext
    <3> QED BY <1>2, <3>1, <3>2
  <2> HIDE DEF D
  <2>2. IsFiniteSet(D)
      BY <2>1, FS_Subset
  <2> QED BY <2>1, <2>2, LeastNumber DEF Calendar!Min, D
<1> HIDE DEF k
<1>4. k \in 0..(n - 1) /\ c.buckets[b] # <<>> /\ e.ts < Calendar!DayTop(c, k)
    BY <1>3 DEF Calendar!DaysWithNext
<1>5. b \in 0..(n - 1) /\ b = (L + k) % n
    BY <1>1, <1>4, DayVisited
<1>6. /\ Earliest(e, Range(c.buckets[b])) /\ e \in Contents(c) /\ e \in Keys
      /\ Calendar!Hash(c, e.ts) = b
    BY <1>4, <1>5, NextOf
<1>7. DayOf(c, e.ts) = L + k
    BY <1>4, <1>6, DayOfYear DEF Earliest
<1>8. ASSUME NEW x \in Contents(c) PROVE x = e \/ Less(e, x)
  <2> DEFINE X == DayOf(c, x.ts)
             h == Calendar!Hash(c, x.ts)
  <2>1. /\ x \in Keys /\ h \in 0..(n - 1) /\ x \in Range(c.buckets[h])
      BY <1>1, ContentsFacts
  <2>2. x.ts \in Nat /\ e.ts \in Nat /\ x.ts >= c.lastPrio
      BY <1>1, <1>6, <2>1, KeyFields DEF Placed
  <2>3. X \in Nat /\ L <= X /\ h = X % n
    <3>1. c.lastPrio <= x.ts
        BY <1>2, <2>2
    <3> QED BY <1>1, <1>2, <2>2, <3>1, DayOfFacts DEF Calendar!Hash, DayOf
  <2>4. CASE X < L + k
    <3>1. PICK j \in 0..(n - 1) : j = X - L /\ j < k
      <4> HIDE DEF L, n, X
      <4> QED BY <1>2, <1>4, <2>3, <2>4
    <3>2. L + j = X
        BY <1>2, <2>3, <3>1
    <3>3. Calendar!Day(c, j) = h
      <4>1. Calendar!Day(c, j) = (L + j) % n
          BY <1>1, DayVisited
      <4> QED BY <2>3, <3>2, <4>1
    <3> DEFINE y == Calendar!NextEvent(c.buckets[h])
    <3>4. c.buckets[h] # <<>>
        BY <2>1 DEF Range
    <3>5. Earliest(y, Range(c.buckets[h])) /\ y \in Keys
        BY <2>1, <3>4, NextOf
    <3>6. x.ts < Calendar!DayTop(c, j)
        BY <2>1, <3>2, <3>3, DayOfYear
    <3>7. y.ts <= x.ts
      <4>1. y = x \/ Less(y, x)
          BY <2>1, <3>5 DEF Earliest
      <4>2. y.ts \in Nat
          BY <3>5, KeyFields
      <4> QED BY <2>2, <4>1, <4>2 DEF Less
    <3>8. y.ts < Calendar!DayTop(c, j)
      <4>1. y.ts \in Nat /\ Calendar!DayTop(c, j) = c.width * ((L + j) + 1) /\ c.width \in Nat
          BY <1>1, <3>5, KeyFields, DayVisited, CalendarFields
      <4>2. Calendar!DayTop(c, j) \in Int
        <5> HIDE DEF L
        <5> QED BY <1>2, <4>1
      <4> HIDE DEF y
      <4> QED BY <2>2, <3>6, <3>7, <4>1, <4>2
    <3>9. j \in D
        BY <3>3, <3>4, <3>8 DEF Calendar!DaysWithNext
    <3> QED BY <1>3, <1>4, <3>1, <3>9
  <2>5. CASE X = L + k
    <3>1. h = b
        BY <1>5, <2>3, <2>5
    <3> QED BY <1>6, <2>1, <3>1 DEF Earliest
  <2>6. CASE X > L + k
    <3>1. e.ts < x.ts
      <4>1. DayOf(c, e.ts) < DayOf(c, x.ts)
          BY <1>2, <1>4, <1>7, <2>3, <2>6
      <4> QED BY <1>1, <2>2, <4>1, DayOfFacts
    <3> QED BY <3>1 DEF Less
  <2>7. X < L + k \/ X = L + k \/ X > L + k
    <3> HIDE DEF X, L
    <3> QED BY <1>2, <1>4, <2>3
  <2> QED BY <2>4, <2>5, <2>6, <2>7
<1>9. Earliest(e, Contents(c))
    BY <1>6, <1>8 DEF Earliest
<1> QED BY <1>4, <1>5, <1>7, <1>9 DEF k

\* When the year is empty the least of the first events of all days is the
\* earliest one.
LEMMA YearEmpty ==
    ASSUME m_reverse \in BOOLEAN, NEW c, Good(m_reverse, c), Contents(c) # {}
    PROVE  LET b == Calendar!MinBucket(c)
           IN  /\ b \in 0..(c.nBuckets - 1) /\ c.buckets[b] # <<>>
               /\ Earliest(Calendar!NextEvent(c.buckets[b]), Contents(c))
<1> DEFINE n == c.nBuckets
           B == {i \in 0..(n - 1) : c.buckets[i] # <<>>}
           First(i) == Calendar!NextEvent(c.buckets[i])
           Least(b) == \A j \in (0..(n - 1)) \ {b} : c.buckets[j] # <<>> => Less(First(b), First(j))
<1>1. CalendarType(c) /\ Shelved(m_reverse, c) /\ UniqueUids(Contents(c))
    BY DEF Good
<1>2. n \in Nat \ {0} /\ DOMAIN c.buckets = 0..(n - 1)
    BY <1>1, CalendarFields
<1>3. \A i \in B : /\ Earliest(First(i), Range(c.buckets[i])) /\ First(i) \in Contents(c)
                   /\ First(i) \in Keys /\ Calendar!Hash(c, First(i).ts) = i
    BY NextOf
<1>4. \A x \in Contents(c) : \E i \in B : x \in Range(c.buckets[i])
  <2> SUFFICES ASSUME NEW x \in Contents(c) PROVE \E i \in B : x \in Range(c.buckets[i])
      OBVIOUS
  <2>1. PICK i \in 0..(n - 1) : x \in Range(c.buckets[i])
      BY <1>1, ContentsFacts
  <2>2. c.buckets[i] # <<>>
      BY <2>1 DEF Range
  <2> QED BY <2>1, <2>2
<1>5. Contents(c) \in SUBSET Keys
    BY <1>1, ContentsFacts
<1> DEFINE f == [i \in B |-> First(i)]
           F == {f[i] : i \in B}
<1>6. IsFiniteSet(F) /\ F # {} /\ F \in SUBSET Contents(c)
  <2>1. IsFiniteSet(B)
    <3>1. IsFiniteSet(0..(n - 1)) /\ B \in SUBSET (0..(n - 1))
        BY <1>2, FS_Interval
    <3> HIDE DEF B
    <3> QED BY <3>1, FS_Subset
  <2>2. B # {}
      BY <1>4
  <2>3. \A i \in B : f[i] \in Contents(c)
      BY <1>3
  <2> HIDE DEF B
  <2>4. DOMAIN f = B
      OBVIOUS
  <2> HIDE DEF f
  <2> QED BY <2>1, <2>2, <2>3, <2>4, FiniteValues
<1>7. \A x, y \in F : x # y => x.uid # y.uid
    BY <1>1, <1>6 DEF UniqueUids
<1>8. \A x \in F : x.ts \in Int /\ x.uid \in Int
    BY <1>5, <1>6, KeyFields
<1> HIDE DEF F
<1>9. PICK x \in F : \A y \in F \ {x} : x.ts < y.ts \/ (x.ts = y.ts /\ x.uid < y.uid)
    BY <1>6, <1>7, <1>8, FirstByKey
<1>10. PICK i \in B : x = First(i)
    BY <1>9 DEF F
<1>11. Least(i)
  <2> SUFFICES ASSUME NEW j \in 0..(n - 1), j # i, c.buckets[j] # <<>> PROVE Less(First(i), First(j))
      OBVIOUS
  <2>1. j \in B /\ First(j) \in F
      BY DEF F
  <2>2. First(j) # First(i)
      BY <1>3, <2>1
  <2> QED BY <1>9, <1>10, <2>1, <2>2 DEF Less
<1> DEFINE b == Calendar!MinBucket(c)
<1>12. b = CHOOSE q \in B : Least(q)
    BY <1>2, SameLess DEF Calendar!MinBucket
<1> HIDE DEF b, Least
<1>13. b \in B /\ Least(b)
    BY <1>11, <1>12
<1>14. ASSUME NEW y \in Contents(c) PROVE y = First(b) \/ Less(First(b), y)
  <2>1. PICK j \in B : y \in Range(c.buckets[j])
      BY <1>4
  <2>2. y = First(j) \/ Less(First(j), y)
      BY <1>3, <2>1 DEF Earliest
  <2>3. j = b \/ Less(First(b), First(j))
      BY <1>13 DEF Least
  <2>4. First(j) \in Keys /\ First(b) \in Keys /\ y \in Keys
      BY <1>3, <1>5, <1>13
  <2> QED BY <2>2, <2>3, <2>4, LessOrder
<1>15. Earliest(First(b), Contents(c))
    BY <1>3, <1>13, <1>14 DEF Earliest
<1> QED BY <1>13, <1>15 DEF b

\* PeekNext shows the earliest event, DoRemoveNext takes it out, and the search
\* goes on from its day.
LEMMA NextFound ==
    ASSUME m_reverse \in BOOLEAN, NEW c, Good(m_reverse, c), Contents(c) # {}
    PROVE  LET e == Calendar!PeekNext(c)
               g == Calendar!DoRemoveNext(c)
           IN  /\ Earliest(e, Contents(c))
               /\ Good(m_reverse, g) /\ Contents(g) = Contents(c) \ {e} /\ g.lastPrio = e.ts
               /\ g.nBuckets = c.nBuckets /\ g.width = c.width /\ g.qSize = c.qSize
<1> DEFINE e == Calendar!PeekNext(c)
           g == Calendar!DoRemoveNext(c)
           n == c.nBuckets
           D == Calendar!DaysWithNext(c)
           top == (DayOf(c, e.ts) + 1) * c.width
<1>1. CalendarType(c) /\ Shelved(m_reverse, c) /\ Placed(c) /\ UniqueUids(Contents(c))
    BY DEF Good
<1>2. n \in Nat \ {0} /\ c.width \in Nat \ {0} /\ c.lastPrio \in Nat
    BY <1>1, CalendarFields
<1>3. /\ c.lastBucket \in Nat /\ c.bucketTop \in Nat /\ c.qSize \in Int
      /\ DOMAIN c.buckets = 0..(n - 1)
      /\ \A i \in 0..(n - 1) : c.buckets[i] \in Seq(Keys)
    BY <1>1, CalendarFields
<1>4. \E b \in 0..(n - 1) :
         /\ c.buckets[b] # <<>> /\ e = Calendar!NextEvent(c.buckets[b]) /\ Earliest(e, Contents(c))
         /\ g = [c EXCEPT !.buckets = [c.buckets EXCEPT ![b] = Calendar!Pop(c.buckets[b])],
                          !.lastPrio = e.ts, !.lastBucket = Calendar!Hash(c, e.ts),
                          !.bucketTop = top, !.qSize = c.qSize]
  <2>1. CASE D # {}
    <3> DEFINE k == Calendar!Min(D)
               b == Calendar!Day(c, k)
    <3>1. e = Calendar!NextEvent(c.buckets[b])
        BY <2>1 DEF Calendar!PeekNext
    <3>2. /\ k \in 0..(n - 1) /\ b \in 0..(n - 1) /\ c.buckets[b] # <<>>
          /\ Earliest(e, Contents(c))
          /\ DayOf(c, e.ts) = DayOf(c, c.lastPrio) + k
        BY <2>1, <3>1, DayFound
    <3>3. Calendar!Hash(c, e.ts) = b
        BY <3>1, <3>2, NextOf
    <3>4. Calendar!DayTop(c, k) = top
      <4>1. Calendar!DayTop(c, k) = c.width * (DayOf(c, e.ts) + 1)
          BY <1>1, <3>2, DayVisited
      <4>2. DayOf(c, e.ts) \in Nat
        <5>1. DayOf(c, c.lastPrio) \in Nat
            BY <1>1, <1>2, DayOfFacts
        <5> QED BY <3>2, <5>1
      <4> QED BY <1>2, <4>1, <4>2
    <3>5. g = [c EXCEPT !.lastBucket = b, !.lastPrio = e.ts, !.bucketTop = Calendar!DayTop(c, k),
                        !.buckets[b] = Calendar!Pop(@)]
        BY <2>1 DEF Calendar!DoRemoveNext
    <3> HIDE DEF b, e, g, top, k
    <3>6. g = [c EXCEPT !.buckets = [c.buckets EXCEPT ![b] = Calendar!Pop(c.buckets[b])],
                        !.lastPrio = e.ts, !.lastBucket = Calendar!Hash(c, e.ts),
                        !.bucketTop = top, !.qSize = c.qSize]
        BY <1>1, <3>3, <3>4, <3>5 DEF CalendarType, CalendarRecords
    <3> QED BY <3>1, <3>2, <3>6
  <2>2. CASE D = {}
    <3> DEFINE b == Calendar!MinBucket(c)
    <3>1. e = Calendar!NextEvent(c.buckets[b])
        BY <2>2 DEF Calendar!PeekNext
    <3>2. b \in 0..(n - 1) /\ c.buckets[b] # <<>> /\ Earliest(e, Contents(c))
        BY <3>1, YearEmpty
    <3>3. g = [c EXCEPT !.lastBucket = Calendar!Hash(c, e.ts), !.lastPrio = e.ts,
                        !.bucketTop = top, !.buckets[b] = Calendar!Pop(@)]
        BY <2>2 DEF Calendar!DoRemoveNext, DayOf
    <3> HIDE DEF b, e, g, top
    <3>4. g = [c EXCEPT !.buckets = [c.buckets EXCEPT ![b] = Calendar!Pop(c.buckets[b])],
                        !.lastPrio = e.ts, !.lastBucket = Calendar!Hash(c, e.ts),
                        !.bucketTop = top, !.qSize = c.qSize]
        BY <1>1, <3>3 DEF CalendarType, CalendarRecords
    <3> QED BY <3>1, <3>2, <3>4
  <2> QED BY <2>1, <2>2
<1> HIDE DEF e, g
<1>5. PICK b \in 0..(n - 1) :
         /\ c.buckets[b] # <<>> /\ e = Calendar!NextEvent(c.buckets[b]) /\ Earliest(e, Contents(c))
         /\ g = [c EXCEPT !.buckets = [c.buckets EXCEPT ![b] = Calendar!Pop(c.buckets[b])],
                          !.lastPrio = e.ts, !.lastBucket = Calendar!Hash(c, e.ts),
                          !.bucketTop = top, !.qSize = c.qSize]
    BY <1>4
<1> DEFINE s == c.buckets[b]
           t == Calendar!Pop(s)
<1>6. s \in Seq(Keys) /\ SortedBy(m_reverse, s)
    BY <1>1, <1>3 DEF Shelved
<1>7. e \in Range(s) /\ t \in Seq(Keys) /\ SortedBy(m_reverse, t) /\ Range(t) = Range(s) \ {e}
    BY <1>5, <1>6, BucketNext
<1>8. e \in Keys /\ e.ts \in Nat
    BY <1>1, <1>5, ContentsFacts, KeyFields DEF Earliest
<1>9. DayOf(c, e.ts) \in Nat /\ top \in Nat /\ Calendar!Hash(c, e.ts) \in Nat
  <2>1. DayOf(c, e.ts) \in Nat
      BY <1>1, <1>8, DayOfFacts
  <2>2. Calendar!Hash(c, e.ts) \in 0..(n - 1)
      BY <1>1, <1>8, HashRange
  <2>3. top \in Nat
      BY <1>2, <2>1
  <2> QED BY <1>2, <2>1, <2>2, <2>3
<1> HIDE DEF t, top
<1>10. g \in CalendarRecords
    BY <1>1, <1>3, <1>5, <1>7, <1>8, <1>9, CalendarUpdated DEF t
<1>11. /\ g.buckets = [c.buckets EXCEPT ![b] = t] /\ g.nBuckets = n /\ g.width = c.width
       /\ g.qSize = c.qSize /\ g.lastPrio = e.ts
       /\ g.lastBucket = Calendar!Hash(c, e.ts) /\ g.bucketTop = top
    BY <1>1, <1>5 DEF CalendarType, CalendarRecords, t
<1>12. \A x \in Range(t) : Calendar!Hash(c, x.ts) = b
    BY <1>1, <1>7 DEF Shelved
<1>13. /\ CalendarType(g) /\ Shelved(m_reverse, g)
       /\ Contents(g) = (Contents(c) \ Range(s)) \cup Range(t)
    BY <1>1, <1>7, <1>10, <1>11, <1>12, BucketReplaced
<1>14. Contents(g) = Contents(c) \ {e}
  <2>1. Range(s) \in SUBSET Contents(c)
      BY <1>1, ContentsFacts
  <2> QED BY <1>7, <1>13, <2>1
<1>15. UniqueUids(Contents(g))
    BY <1>1, <1>14 DEF UniqueUids
<1>16. Placed(g)
  <2>1. \A x \in Contents(g) : x.ts >= e.ts
    <3> SUFFICES ASSUME NEW x \in Contents(g) PROVE x.ts >= e.ts
        OBVIOUS
    <3>1. x \in Contents(c) /\ Less(e, x)
        BY <1>5, <1>14 DEF Earliest
    <3>2. x.ts \in Nat
        BY <1>1, <3>1, ContentsFacts, KeyFields
    <3> QED BY <1>8, <3>1, <3>2 DEF Less
  <2>2. g.lastBucket = Calendar!Hash(g, g.lastPrio)
      BY <1>11, SameHash
  <2>3. g.bucketTop = (g.lastPrio \div g.width + 1) * g.width
      BY <1>11 DEF top, DayOf
  <2> QED BY <1>11, <2>1, <2>2, <2>3 DEF Placed
<1>17. Good(m_reverse, g)
    BY <1>13, <1>15, <1>16 DEF Good
<1> QED BY <1>5, <1>11, <1>14, <1>17 DEF e, g

-----------------------------------------------------------------------------
(* The calendar: taking events out and putting events in, one by one.      *)

\* The samples are taken one after the other.
LEMMA SamplingLoop ==
    ASSUME NEW c, NEW n \in Nat
    PROVE  /\ Calendar!Sampling(c, n)[0] = c
           /\ \A k \in 1..n : Calendar!Sampling(c, n)[k] = Calendar!DoRemoveNext(Calendar!Sampling(c, n)[k - 1])
<1> DEFINE N == n
           base == c
           Loop(m, g) == g = [k \in 0..m |-> IF k = 0 THEN base ELSE Calendar!DoRemoveNext(g[k - 1])]
           P == {m \in 0..N : \E g : Loop(m, g)}
<1>0. N \in Nat /\ N \in 0..N
    OBVIOUS
<1>1. 0 \in P
  <2>1. Loop(0, [k \in 0..0 |-> base])
      OBVIOUS
  <2>2. \E g : Loop(0, g)
      BY <2>1
  <2> QED BY <1>0, <2>2
<1>2. ASSUME NEW m \in 1..N, m - 1 \in P PROVE m \in P
  <2>1. PICK g : Loop(m - 1, g)
      BY <1>2
  <2> DEFINE f == [k \in 0..m |-> IF k = m THEN Calendar!DoRemoveNext(g[k - 1]) ELSE g[k]]
  <2>2. \A k \in 0..(m - 1) : g[k] = IF k = 0 THEN base ELSE Calendar!DoRemoveNext(g[k - 1])
      BY <2>1
  <2>3. ASSUME NEW k \in 0..m
        PROVE  f[k] = IF k = 0 THEN base ELSE Calendar!DoRemoveNext(f[k - 1])
    <3>1. CASE k = m
        BY <1>0, <3>1
    <3>2. CASE k # m
      <4>1. k \in 0..(m - 1) /\ f[k] = g[k] /\ (k # 0 => f[k - 1] = g[k - 1])
          BY <1>0, <3>2
      <4> QED BY <2>2, <4>1
    <3> QED BY <3>1, <3>2
  <2>4. Loop(m, f)
      BY <2>3
  <2>5. \E x : Loop(m, x)
    <3> HIDE DEF f
    <3> QED BY <2>4
  <2> QED BY <1>0, <2>5
<1> HIDE DEF P, N
<1>3. N \in P
    BY <1>0, <1>1, <1>2, CountingUp
<1>4. \E g : Loop(N, g)
    BY <1>3 DEF P
<1> DEFINE f == Calendar!Sampling(c, n)
<1>5. Loop(N, f)
    BY <1>4 DEF Calendar!Sampling, N
<1> HIDE DEF f
<1>6. \A k \in 0..N : f[k] = IF k = 0 THEN base ELSE Calendar!DoRemoveNext(f[k - 1])
    BY <1>5
<1> QED BY <1>0, <1>6 DEF f, N

\* The insertions into the buckets follow each other.
LEMMA FillingLoop ==
    ASSUME NEW c, NEW list \in Seq(Keys)
    PROVE  /\ Calendar!Filling(c, list)[0] = c
           /\ \A k \in 1..Len(list) : Calendar!Filling(c, list)[k] = Calendar!DoInsert(Calendar!Filling(c, list)[k - 1], list[k])
<1> DEFINE N == Len(list)
           base == c
           Loop(m, g) == g = [k \in 0..m |-> IF k = 0 THEN base ELSE Calendar!DoInsert(g[k - 1], list[k])]
           P == {m \in 0..N : \E g : Loop(m, g)}
<1>0. N \in Nat /\ N \in 0..N
    OBVIOUS
<1>1. 0 \in P
  <2>1. Loop(0, [k \in 0..0 |-> base])
      OBVIOUS
  <2>2. \E g : Loop(0, g)
      BY <2>1
  <2> QED BY <1>0, <2>2
<1>2. ASSUME NEW m \in 1..N, m - 1 \in P PROVE m \in P
  <2>1. PICK g : Loop(m - 1, g)
      BY <1>2
  <2> DEFINE f == [k \in 0..m |-> IF k = m THEN Calendar!DoInsert(g[k - 1], list[k]) ELSE g[k]]
  <2>2. \A k \in 0..(m - 1) : g[k] = IF k = 0 THEN base ELSE Calendar!DoInsert(g[k - 1], list[k])
      BY <2>1
  <2>3. ASSUME NEW k \in 0..m
        PROVE  f[k] = IF k = 0 THEN base ELSE Calendar!DoInsert(f[k - 1], list[k])
    <3>1. CASE k = m
        BY <1>0, <3>1
    <3>2. CASE k # m
      <4>1. k \in 0..(m - 1) /\ f[k] = g[k] /\ (k # 0 => f[k - 1] = g[k - 1])
          BY <1>0, <3>2
      <4> QED BY <2>2, <4>1
    <3> QED BY <3>1, <3>2
  <2>4. Loop(m, f)
      BY <2>3
  <2>5. \E x : Loop(m, x)
    <3> HIDE DEF f
    <3> QED BY <2>4
  <2> QED BY <1>0, <2>5
<1> HIDE DEF P, N
<1>3. N \in P
    BY <1>0, <1>1, <1>2, CountingUp
<1>4. \E g : Loop(N, g)
    BY <1>3 DEF P
<1> DEFINE f == Calendar!Filling(c, list)
<1>5. Loop(N, f)
    BY <1>4 DEF Calendar!Filling, N
<1> HIDE DEF f
<1>6. \A k \in 0..N : f[k] = IF k = 0 THEN base ELSE Calendar!DoInsert(f[k - 1], list[k])
    BY <1>5
<1> QED BY <1>0, <1>6 DEF f, N

\* Taking the first n events out leaves the others.
LEMMA Sampled ==
    ASSUME m_reverse \in BOOLEAN, NEW c, Good(m_reverse, c), IsFiniteSet(Contents(c)),
           NEW n \in Nat, n <= Cardinality(Contents(c))
    PROVE  LET g == Calendar!Sampling(c, n)[n]
               d == Calendar!Samples(c, n)
           IN  /\ Good(m_reverse, g) /\ Contents(g) = Contents(c) \ Range(d)
               /\ g.nBuckets = c.nBuckets /\ g.width = c.width /\ g.qSize = c.qSize
               /\ Lists(d, Range(d)) /\ Range(d) \in SUBSET Contents(c) /\ Len(d) = n
<1> DEFINE f == Calendar!Sampling(c, n)
           d == Calendar!Samples(c, n)
           N == Cardinality(Contents(c))
           Fine(g) == /\ Good(m_reverse, g) /\ IsFiniteSet(Contents(g))
                      /\ g.nBuckets = c.nBuckets /\ g.width = c.width /\ g.qSize = c.qSize
           P == {k \in 0..n : Fine(f[k]) /\ Cardinality(Contents(f[k])) = N - k}
           R == [k \in 0..n |-> Contents(f[k])]
<1>1. N \in Nat /\ 0 \in 0..n /\ n \in 0..n
    BY FS_CardinalityType
<1>2. f[0] = c /\ \A k \in 1..n : f[k] = Calendar!DoRemoveNext(f[k - 1])
    BY SamplingLoop
<1>3. d = [k \in 1..n |-> Calendar!PeekNext(f[k - 1])]
    BY DEF Calendar!Samples
<1> HIDE DEF f, d, N
<1>4. 0 \in P
    BY <1>1, <1>2 DEF N
<1>5. ASSUME NEW k \in 1..n, k - 1 \in P
      PROVE  /\ k \in P /\ Earliest(d[k], Contents(f[k - 1]))
             /\ Contents(f[k]) = Contents(f[k - 1]) \ {d[k]}
  <2> DEFINE g == f[k - 1]
             e == Calendar!PeekNext(g)
  <2>1. Fine(g) /\ Cardinality(Contents(g)) = N - (k - 1)
      BY <1>5
  <2>2. d[k] = e /\ f[k] = Calendar!DoRemoveNext(g)
      BY <1>2, <1>3
  <2>3. Contents(g) # {}
    <3>1. N - (k - 1) # 0
        BY <1>1 DEF N
    <3> QED BY <2>1, <3>1, FS_EmptySet
  <2> HIDE DEF g
  <2>4. /\ Earliest(e, Contents(g)) /\ Good(m_reverse, f[k]) /\ Contents(f[k]) = Contents(g) \ {e}
        /\ f[k].nBuckets = g.nBuckets /\ f[k].width = g.width /\ f[k].qSize = g.qSize
      BY <2>1, <2>2, <2>3, NextFound
  <2>5. /\ IsFiniteSet(Contents(f[k]))
        /\ Cardinality(Contents(f[k])) = Cardinality(Contents(g)) - 1
      BY <2>1, <2>4, FS_RemoveElement DEF Earliest
  <2>6. Cardinality(Contents(f[k])) = N - k
      BY <1>1, <2>1, <2>5
  <2>7. k \in P
      BY <2>1, <2>4, <2>5, <2>6
  <2> QED BY <2>2, <2>4, <2>7 DEF g
<1> HIDE DEF P
<1>6. \A k \in 0..n : k \in P
    BY <1>4, <1>5, CountingUp
<1>7. \A k \in 1..n : k - 1 \in P
    BY <1>6
<1>8. Takes(n, R, d)
  <2> SUFFICES ASSUME NEW k \in 1..n PROVE d[k] \in R[k - 1] /\ R[k] = R[k - 1] \ {d[k]}
      BY DEF Takes
  <2>1. R[k - 1] = Contents(f[k - 1]) /\ R[k] = Contents(f[k])
      OBVIOUS
  <2>2. Earliest(d[k], Contents(f[k - 1])) /\ Contents(f[k]) = Contents(f[k - 1]) \ {d[k]}
      BY <1>5, <1>7
  <2> HIDE DEF R
  <2> QED BY <2>1, <2>2 DEF Earliest
<1>9. R[0] = Contents(c) /\ R[n] = Contents(f[n])
    BY <1>1, <1>2
<1> HIDE DEF R
<1>10. /\ \A k \in 0..n : R[k] = R[0] \ {d[j] : j \in 1..k}
       /\ \A i, j \in 1..n : d[i] = d[j] => i = j
    BY <1>8, TakenOneByOne
<1>11. DOMAIN d = 1..n /\ Range(d) = {d[j] : j \in 1..n}
    BY <1>3 DEF Range
<1>12. \A k \in 1..n : d[k] \in Contents(c)
  <2> SUFFICES ASSUME NEW k \in 1..n PROVE d[k] \in Contents(c)
      OBVIOUS
  <2>1. k - 1 \in 0..n /\ d[k] \in R[k - 1]
      BY <1>8 DEF Takes
  <2> QED BY <1>9, <1>10, <2>1
<1>13. Contents(c) \in SUBSET Keys
    BY ContentsFacts DEF Good
<1>14. d \in Seq(Keys) /\ Len(d) = n
  <2>1. \A k \in 1..n : d[k] \in Keys
      BY <1>12, <1>13
  <2> QED BY <1>3, <2>1
<1>15. Lists(d, Range(d))
    BY <1>10, <1>11, <1>14 DEF Lists, IsInjective
<1>16. Contents(f[n]) = Contents(c) \ Range(d)
    BY <1>1, <1>9, <1>10, <1>11
<1>17. Range(d) \in SUBSET Contents(c)
    BY <1>11, <1>12
<1>18. Fine(f[n])
    BY <1>1, <1>6 DEF P
<1> QED BY <1>14, <1>15, <1>16, <1>17, <1>18 DEF f, d

\* Putting events into a calendar adds them and changes no other field.
LEMMA CalendarPut ==
    ASSUME m_reverse \in BOOLEAN, NEW c, CalendarType(c), Shelved(m_reverse, c),
           NEW S, NEW d, Lists(d, S), S \cap Contents(c) = {}, UniqueUids(Contents(c) \cup S)
    PROVE  LET g == Calendar!Filled(c, d)
           IN  /\ CalendarType(g) /\ Shelved(m_reverse, g) /\ Contents(g) = Contents(c) \cup S
               /\ g.nBuckets = c.nBuckets /\ g.width = c.width /\ g.lastPrio = c.lastPrio
               /\ g.lastBucket = c.lastBucket /\ g.bucketTop = c.bucketTop
               /\ g.qSize = c.qSize
<1> DEFINE n == Len(d)
           f == Calendar!Filling(c, d)
           Put(k) == {d[j] : j \in 1..k}
           Fine(g) ==
               /\ CalendarType(g) /\ Shelved(m_reverse, g)
               /\ g.nBuckets = c.nBuckets /\ g.width = c.width /\ g.lastPrio = c.lastPrio
               /\ g.lastBucket = c.lastBucket /\ g.bucketTop = c.bucketTop
               /\ g.qSize = c.qSize
           P == {k \in 0..n : Fine(f[k]) /\ Contents(f[k]) = Contents(c) \cup Put(k)}
<1>1. /\ d \in Seq(Keys) /\ n \in Nat /\ n \in 0..n /\ 0 \in 0..n /\ DOMAIN d = 1..n
      /\ Range(d) = S /\ \A i, j \in 1..n : d[i] = d[j] => i = j
    BY DEF Lists, IsInjective
<1>2. f[0] = c /\ \A k \in 1..n : f[k] = Calendar!DoInsert(f[k - 1], d[k])
    BY <1>1, FillingLoop
<1>3. Calendar!Filled(c, d) = f[n]
    BY DEF Calendar!Filled
<1> HIDE DEF f, n
<1>4. 0 \in P
  <2>1. Put(0) = {}
      OBVIOUS
  <2> QED BY <1>1, <1>2, <2>1
<1>5. ASSUME NEW k \in 1..n, k - 1 \in P PROVE k \in P
  <2> DEFINE g == f[k - 1]
  <2>1. Fine(g) /\ Contents(g) = Contents(c) \cup Put(k - 1)
      BY <1>5
  <2>2. d[k] \in Keys /\ d[k] \in S /\ d[k] \notin Put(k - 1)
    <3>1. \A j \in 1..(k - 1) : j \in 1..n /\ j # k
        BY <1>1
    <3>2. d[k] \in Keys /\ d[k] \in S
        BY <1>1 DEF Range
    <3> QED BY <1>1, <3>1, <3>2
  <2>3. Put(k) = Put(k - 1) \cup {d[k]} /\ Put(k) \in SUBSET S
    <3>1. 1..k = 1..(k - 1) \cup {k} /\ 1..k \in SUBSET (1..n)
        BY <1>1
    <3> QED BY <1>1, <3>1 DEF Range
  <2> HIDE DEF g, Put
  <2>4. d[k] \notin Contents(g) /\ UniqueUids(Contents(g) \cup {d[k]})
      BY <2>1, <2>2, <2>3 DEF UniqueUids
  <2>5. f[k] = Calendar!DoInsert(g, d[k])
      BY <1>2 DEF g
  <2>6. /\ CalendarType(f[k]) /\ Shelved(m_reverse, f[k])
        /\ Contents(f[k]) = Contents(g) \cup {d[k]}
        /\ f[k].nBuckets = g.nBuckets /\ f[k].width = g.width /\ f[k].lastPrio = g.lastPrio
        /\ f[k].lastBucket = g.lastBucket /\ f[k].bucketTop = g.bucketTop
        /\ f[k].qSize = g.qSize
      BY <2>1, <2>2, <2>4, <2>5, DoInserted
  <2>7. Fine(f[k]) /\ k \in 0..n
      BY <1>1, <2>1, <2>6
  <2>8. Contents(f[k]) = Contents(c) \cup Put(k)
      BY <2>1, <2>3, <2>6
  <2> QED BY <2>7, <2>8
<1> HIDE DEF P
<1>6. n \in P
    BY <1>1, <1>4, <1>5, CountingUp
<1>7. Put(n) = S
    BY <1>1 DEF Range
<1> HIDE DEF Put
<1>8. Fine(f[n]) /\ Contents(f[n]) = Contents(c) \cup S
    BY <1>6, <1>7 DEF P
<1> QED BY <1>3, <1>8

-----------------------------------------------------------------------------
(* The calendar: resizing.                                                 *)

\* The values are added one after the other.
LEMMA SumsLoop ==
    ASSUME NEW v, NEW n \in Nat
    PROVE  /\ Calendar!Sums(v, n)[0] = 0
           /\ \A k \in 1..n : Calendar!Sums(v, n)[k] = Calendar!Sums(v, n)[k - 1] + v[k]
<1> DEFINE N == n
           base == 0
           Loop(m, g) == g = [k \in 0..m |-> IF k = 0 THEN base ELSE g[k - 1] + v[k]]
           P == {m \in 0..N : \E g : Loop(m, g)}
<1>0. N \in Nat /\ N \in 0..N
    OBVIOUS
<1>1. 0 \in P
  <2>1. Loop(0, [k \in 0..0 |-> base])
      OBVIOUS
  <2>2. \E g : Loop(0, g)
      BY <2>1
  <2> QED BY <1>0, <2>2
<1>2. ASSUME NEW m \in 1..N, m - 1 \in P PROVE m \in P
  <2>1. PICK g : Loop(m - 1, g)
      BY <1>2
  <2> DEFINE f == [k \in 0..m |-> IF k = m THEN g[k - 1] + v[k] ELSE g[k]]
  <2>2. \A k \in 0..(m - 1) : g[k] = IF k = 0 THEN base ELSE g[k - 1] + v[k]
      BY <2>1
  <2>3. ASSUME NEW k \in 0..m
        PROVE  f[k] = IF k = 0 THEN base ELSE f[k - 1] + v[k]
    <3>1. CASE k = m
        BY <1>0, <3>1
    <3>2. CASE k # m
      <4>1. k \in 0..(m - 1) /\ f[k] = g[k] /\ (k # 0 => f[k - 1] = g[k - 1])
          BY <1>0, <3>2
      <4> QED BY <2>2, <4>1
    <3> QED BY <3>1, <3>2
  <2>4. Loop(m, f)
      BY <2>3
  <2>5. \E x : Loop(m, x)
    <3> HIDE DEF f
    <3> QED BY <2>4
  <2> QED BY <1>0, <2>5
<1> HIDE DEF P, N
<1>3. N \in P
    BY <1>0, <1>1, <1>2, CountingUp
<1>4. \E g : Loop(N, g)
    BY <1>3 DEF P
<1> DEFINE f == Calendar!Sums(v, n)
<1>5. Loop(N, f)
    BY <1>4 DEF Calendar!Sums, N
<1> HIDE DEF f
<1>6. \A k \in 0..N : f[k] = IF k = 0 THEN base ELSE f[k - 1] + v[k]
    BY <1>5
<1> QED BY <1>0, <1>6 DEF f, N

\* A sum of integers is an integer.
LEMMA TotalType ==
    ASSUME NEW n \in Nat, NEW f, \A i \in 1..n : f[i] \in Int
    PROVE  Calendar!Total(f, n) \in Int
<1> DEFINE s == Calendar!Sums(f, n)
           P == {k \in 0..n : s[k] \in Int}
<1>1. s[0] = 0 /\ \A k \in 1..n : s[k] = s[k - 1] + f[k]
    BY SumsLoop
<1>2. 0 \in 0..n /\ n \in 0..n
    OBVIOUS
<1> HIDE DEF s
<1>3. 0 \in P
    BY <1>1, <1>2
<1>4. ASSUME NEW k \in 1..n, k - 1 \in P PROVE k \in P
    BY <1>1, <1>4
<1> HIDE DEF P
<1>5. n \in P
    BY <1>2, <1>3, <1>4, CountingUp
<1> QED BY <1>5 DEF P, s, Calendar!Total

\* As many samples are taken as there are events, at most.
LEMMA SampleCount ==
    ASSUME NEW q \in Nat, q >= 2
    PROVE  Calendar!NSamples(q) \in Nat /\ Calendar!NSamples(q) <= q /\ Calendar!NSamples(q) >= 2
<1> DEFINE a == IF q <= 5 THEN q ELSE 5 + q \div 10
<1>1. a \in Nat /\ 2 <= a /\ a <= q
  <2>1. q \div 10 \in Nat /\ 10 * (q \div 10) <= q
      BY DivFacts
  <2> QED BY <2>1
<1>2. Calendar!NSamples(q) = Calendar!Min({25, a})
    BY DEF Calendar!NSamples
<1> HIDE DEF a
<1>3. \E x \in {25, a} : \A y \in {25, a} : x <= y
  <2>1. CASE 25 <= a
      BY <1>1, <2>1
  <2>2. CASE a <= 25
      BY <1>1, <2>2
  <2> QED BY <1>1, <2>1, <2>2
<1>4. Calendar!Min({25, a}) \in {25, a} /\ \A y \in {25, a} : Calendar!Min({25, a}) <= y
    BY <1>3 DEF Calendar!Min
<1> QED BY <1>1, <1>2, <1>4

\* The width of a day is never zero.
LEMMA WidthType ==
    ASSUME m_reverse \in BOOLEAN, NEW c, Good(m_reverse, c), IsFiniteSet(Contents(c)),
           c.qSize = Cardinality(Contents(c))
    PROVE  Calendar!CalculateNewWidth(c) \in Nat \ {0}
<1>1. c.qSize \in Nat
    BY FS_CardinalityType
<1>2. CASE c.qSize < 2
    BY <1>2 DEF Calendar!CalculateNewWidth
<1>3. CASE ~(c.qSize < 2)
  <2> DEFINE m == Calendar!NSamples(c.qSize)
             d == Calendar!Samples(c, m)
             n == Len(d) - 1
             diff == [i \in 1..n |-> d[i + 1].ts - d[i].ts]
             twiceAvg == (Calendar!Total(diff, n) \div n) * 2
             near == [i \in 1..n |-> IF diff[i] <= twiceAvg THEN diff[i] ELSE 0]
             t == 3 * Calendar!Total(near, n)
  <2>1. m \in Nat /\ m <= c.qSize /\ m >= 2
      BY <1>1, <1>3, SampleCount
  <2>2. Calendar!CalculateNewWidth(c) = Calendar!Max({1, t})
      BY <1>3 DEF Calendar!CalculateNewWidth, Calendar!SampledWidth
  <2> HIDE DEF m
  <2>3. d \in Seq(Keys) /\ Len(d) = m
      BY <2>1, Sampled DEF Lists
  <2> HIDE DEF d
  <2>4. n \in Nat /\ DOMAIN d = 1..(n + 1)
      BY <2>1, <2>3
  <2>5. \A i \in 1..n : diff[i] \in Int
    <3> SUFFICES ASSUME NEW i \in 1..n PROVE diff[i] \in Int
        OBVIOUS
    <3>1. i \in 1..(n + 1) /\ i + 1 \in 1..(n + 1) /\ diff[i] = d[i + 1].ts - d[i].ts
        BY <2>4
    <3>2. d[i] \in Keys /\ d[i + 1] \in Keys
        BY <2>3, <2>4, <3>1
    <3> QED BY <3>1, <3>2, KeyFields
  <2> HIDE DEF n, diff, twiceAvg
  <2>6. \A i \in 1..n : near[i] \in Int
      BY <2>5
  <2> HIDE DEF near
  <2>7. t \in Int
    <3>1. Calendar!Total(near, n) \in Int
        BY <2>4, <2>6, TotalType
    <3> QED BY <3>1
  <2> HIDE DEF t
  <2>8. \E x \in {1, t} : \A y \in {1, t} : x >= y
    <3>1. CASE t >= 1
        BY <2>7, <3>1
    <3>2. CASE 1 >= t
        BY <2>7, <3>2
    <3> QED BY <2>7, <3>1, <3>2
  <2>9. Calendar!Max({1, t}) \in {1, t} /\ \A y \in {1, t} : Calendar!Max({1, t}) >= y
      BY <2>8 DEF Calendar!Max
  <2> QED BY <2>2, <2>7, <2>9
<1> QED BY <1>2, <1>3

\* Putting the samples back restores the calendar but for the order of its
\* buckets' events, which is the same.
LEMMA SamplesPutBack ==
    ASSUME m_reverse \in BOOLEAN, NEW c, Good(m_reverse, c), IsFiniteSet(Contents(c)),
           c.qSize = Cardinality(Contents(c))
    PROVE  LET g == Calendar!AfterSampling(c)
           IN  /\ Good(m_reverse, g) /\ Contents(g) = Contents(c)
               /\ g.nBuckets = c.nBuckets /\ g.width = c.width
               /\ g.lastPrio = c.lastPrio /\ g.qSize = c.qSize
<1>1. c.qSize \in Nat
    BY FS_CardinalityType
<1>2. CASE c.qSize < 2
    BY <1>2 DEF Calendar!AfterSampling
<1>3. CASE ~(c.qSize < 2)
  <2> DEFINE m == Calendar!NSamples(c.qSize)
             d == Calendar!Samples(c, m)
             h == Calendar!Sampling(c, m)[m]
             f == Calendar!Filled(h, d)
             g == Calendar!AfterSampling(c)
  <2>1. m \in Nat /\ m <= c.qSize
      BY <1>1, <1>3, SampleCount
  <2>2. g = [f EXCEPT !.lastBucket = c.lastBucket, !.bucketTop = c.bucketTop,
                      !.lastPrio = c.lastPrio]
      BY <1>3 DEF Calendar!AfterSampling
  <2> HIDE DEF m, g
  <2>3. /\ Good(m_reverse, h) /\ Contents(h) = Contents(c) \ Range(d)
        /\ h.nBuckets = c.nBuckets /\ h.width = c.width /\ h.qSize = c.qSize
        /\ Lists(d, Range(d)) /\ Range(d) \in SUBSET Contents(c)
      BY <2>1, Sampled
  <2>4. Range(d) \cap Contents(h) = {} /\ Contents(h) \cup Range(d) = Contents(c)
      BY <2>3
  <2>5. UniqueUids(Contents(h) \cup Range(d)) /\ CalendarType(h) /\ Shelved(m_reverse, h)
      BY <2>3, <2>4 DEF Good
  <2> HIDE DEF d, h
  <2>6. /\ CalendarType(f) /\ Shelved(m_reverse, f) /\ Contents(f) = Contents(c)
        /\ f.nBuckets = h.nBuckets /\ f.width = h.width /\ f.qSize = h.qSize
      BY <2>3, <2>4, <2>5, CalendarPut
  <2> HIDE DEF f
  <2>7. CalendarType(c) /\ Placed(c) /\ UniqueUids(Contents(c))
      BY DEF Good
  <2>8. c.lastBucket \in Nat /\ c.bucketTop \in Nat /\ c.lastPrio \in Nat
      BY <2>7, CalendarFields
  <2>9. /\ g.nBuckets = c.nBuckets /\ g.width = c.width /\ g.qSize = c.qSize
        /\ g.lastBucket = c.lastBucket /\ g.bucketTop = c.bucketTop
        /\ g.lastPrio = c.lastPrio /\ g.buckets = f.buckets
      BY <2>2, <2>3, <2>6 DEF CalendarType, CalendarRecords
  <2>10. CalendarType(g)
      BY <2>2, <2>6, <2>8 DEF CalendarType, CalendarRecords
  <2>11. Contents(g) = Contents(c)
      BY <2>6, <2>9 DEF Contents
  <2>12. Shelved(m_reverse, g)
    <3>1. g.nBuckets = f.nBuckets /\ g.width = f.width
        BY <2>3, <2>6, <2>9
    <3>2. \A ts : Calendar!Hash(g, ts) = Calendar!Hash(f, ts)
        BY <3>1, SameHash
    <3> QED BY <2>6, <2>9, <3>1, <3>2 DEF Shelved
  <2>13. Placed(g)
    <3>1. Calendar!Hash(g, c.lastPrio) = Calendar!Hash(c, c.lastPrio)
        BY <2>9, SameHash
    <3> QED BY <2>7, <2>9, <2>11, <3>1 DEF Placed
  <2>14. Good(m_reverse, g)
      BY <2>7, <2>10, <2>11, <2>12, <2>13 DEF Good
  <2> QED BY <2>9, <2>11, <2>14 DEF g
<1> QED BY <1>2, <1>3

\* Two lists that hold nothing twice and have nothing in common, one behind the
\* other.
LEMMA JoinedDistinct ==
    ASSUME NEW S, NEW T, NEW s, NEW t, Lists(s, S), Lists(t, T), S \cap T = {}
    PROVE  Lists(s \o t, S \cup T)
<1> DEFINE m == Len(s)
           n == Len(t)
           u == s \o t
<1>1. /\ s \in Seq(Keys) /\ t \in Seq(Keys) /\ m \in Nat /\ n \in Nat
      /\ DOMAIN s = 1..m /\ DOMAIN t = 1..n
    BY DEF Lists
<1>2. /\ u \in Seq(Keys) /\ DOMAIN u = 1..(m + n)
      /\ \A i \in 1..(m + n) : u[i] = IF i <= m THEN s[i] ELSE t[i - m]
    BY <1>1
<1>3. /\ \A i, j \in 1..m : s[i] = s[j] => i = j
      /\ \A i, j \in 1..n : t[i] = t[j] => i = j
      /\ S = {s[i] : i \in 1..m} /\ T = {t[i] : i \in 1..n}
    BY <1>1 DEF Lists, IsInjective, Range
<1> HIDE DEF u, m, n
<1>4. \A i \in 1..(m + n) : i <= m => i \in 1..m /\ u[i] = s[i] /\ u[i] \in S
    BY <1>1, <1>2, <1>3
<1>5. \A i \in 1..(m + n) : ~(i <= m) => i - m \in 1..n /\ u[i] = t[i - m] /\ u[i] \in T
  <2> SUFFICES ASSUME NEW i \in 1..(m + n), ~(i <= m)
               PROVE  i - m \in 1..n /\ u[i] = t[i - m] /\ u[i] \in T
      OBVIOUS
  <2>1. i - m \in 1..n
      BY <1>1
  <2> QED BY <1>2, <1>3, <2>1
<1>6. ASSUME NEW i \in 1..(m + n), NEW j \in 1..(m + n), u[i] = u[j] PROVE i = j
  <2>1. CASE i <= m /\ j <= m
      BY <1>3, <1>4, <1>6, <2>1
  <2>2. CASE ~(i <= m) /\ ~(j <= m)
    <3>1. i - m = j - m
        BY <1>3, <1>5, <1>6, <2>2
    <3> QED BY <1>1, <3>1
  <2>3. CASE i <= m /\ ~(j <= m)
      BY <1>4, <1>5, <1>6, <2>3
  <2>4. CASE ~(i <= m) /\ j <= m
      BY <1>4, <1>5, <1>6, <2>4
  <2> QED BY <2>1, <2>2, <2>3, <2>4
<1>7. Range(u) = S \cup T
  <2>1. \A i \in 1..m : i \in 1..(m + n) /\ i <= m
      BY <1>1
  <2>2. \A i \in 1..n : i + m \in 1..(m + n) /\ ~(i + m <= m) /\ (i + m) - m = i
      BY <1>1
  <2>3. \A x \in S \cup T : \E i \in 1..(m + n) : x = u[i]
    <3> SUFFICES ASSUME NEW x \in S \cup T PROVE \E i \in 1..(m + n) : x = u[i]
        OBVIOUS
    <3>1. CASE x \in S
        BY <1>3, <1>4, <2>1, <3>1
    <3>2. CASE x \in T
      <4>1. PICK i \in 1..n : x = t[i]
          BY <1>3, <3>2
      <4>2. u[i + m] = t[i] /\ i + m \in 1..(m + n)
          BY <1>5, <2>2
      <4> QED BY <4>1, <4>2
    <3> QED BY <3>1, <3>2
  <2>4. \A i \in 1..(m + n) : u[i] \in S \cup T
      BY <1>4, <1>5
  <2> QED BY <1>2, <2>3, <2>4 DEF Range
<1> QED BY <1>2, <1>6, <1>7 DEF Lists, IsInjective, u

\* The buckets are joined one after the other.
LEMMA FlattenLoop ==
    ASSUME NEW seqs, Len(seqs) \in Nat \ {0}
    PROVE  \E f : /\ f[1] = seqs[1]
                  /\ \A i \in 2..Len(seqs) : f[i] = f[i - 1] \o seqs[i]
                  /\ Calendar!Sx!FlattenSeq(seqs) = f[Len(seqs)]
<1> DEFINE N == Len(seqs)
           Loop(m, g) == g = [i \in 1..m |-> IF i = 1 THEN seqs[i] ELSE g[i - 1] \o seqs[i]]
           P == {m \in 0..N : \E g : Loop(m, g)}
<1>0. N \in Nat /\ N \in 0..N /\ N # 0 /\ 1 \in 1..N /\ 0 \in 0..N
    OBVIOUS
<1>1. 0 \in P
  <2>1. Loop(0, [i \in 1..0 |-> seqs[i]])
      OBVIOUS
  <2>2. \E g : Loop(0, g)
      BY <2>1
  <2> QED BY <1>0, <2>2
<1>2. ASSUME NEW m \in 1..N, m - 1 \in P PROVE m \in P
  <2>1. PICK g : Loop(m - 1, g)
      BY <1>2
  <2> DEFINE f == [i \in 1..m |-> IF i = m THEN (IF i = 1 THEN seqs[i] ELSE g[i - 1] \o seqs[i])
                                  ELSE g[i]]
  <2>2. \A i \in 1..(m - 1) : g[i] = IF i = 1 THEN seqs[i] ELSE g[i - 1] \o seqs[i]
      BY <2>1
  <2>3. ASSUME NEW i \in 1..m
        PROVE  f[i] = IF i = 1 THEN seqs[i] ELSE f[i - 1] \o seqs[i]
    <3>1. CASE i = m
      <4>1. CASE i = 1
          BY <3>1, <4>1
      <4>2. CASE i # 1
        <5>1. i - 1 \in 1..m /\ i - 1 # m
            BY <1>0, <3>1, <4>2
        <5> QED BY <3>1, <4>2, <5>1
      <4> QED BY <4>1, <4>2
    <3>2. CASE i # m
      <4>1. i \in 1..(m - 1) /\ f[i] = g[i] /\ (i # 1 => f[i - 1] = g[i - 1])
          BY <1>0, <3>2
      <4> QED BY <2>2, <4>1
    <3> QED BY <3>1, <3>2
  <2>4. Loop(m, f)
      BY <2>3
  <2>5. \E x : Loop(m, x)
    <3> HIDE DEF f
    <3> QED BY <2>4
  <2>6. m \in 0..N
      BY <1>0
  <2> HIDE DEF Loop
  <2> QED BY <2>5, <2>6
<1> HIDE DEF P, N
<1>3. N \in P
    BY <1>0, <1>1, <1>2, CountingUp
<1>4. \E g : Loop(N, g)
    BY <1>3 DEF P
<1> DEFINE f == CHOOSE g : Loop(N, g)
<1>5. Loop(N, f)
    BY <1>4
<1>6. Calendar!Sx!FlattenSeq(seqs) = f[N]
    BY <1>0 DEF Calendar!Sx!FlattenSeq, N
<1> HIDE DEF f
<1>7. \A i \in 1..N : f[i] = IF i = 1 THEN seqs[i] ELSE f[i - 1] \o seqs[i]
    BY <1>5
<1>8. f[1] = seqs[1] /\ \A i \in 2..N : f[i] = f[i - 1] \o seqs[i]
  <2>1. \A i \in 2..N : i \in 1..N /\ i # 1
      BY <1>0
  <2> QED BY <1>0, <1>7, <2>1
<1> QED BY <1>6, <1>8 DEF N

\* AllEvents has every event of the buckets once.
LEMMA AllListed ==
    ASSUME NEW r \in BOOLEAN, NEW c, CalendarType(c), Shelved(r, c)
    PROVE  Lists(Calendar!AllEvents(c), Contents(c))
<1> DEFINE n == c.nBuckets
           q == [i \in 1..n |-> c.buckets[i - 1]]
           U(k) == UNION {Range(q[i]) : i \in 1..k}
<1>1. n \in Nat \ {0} /\ DOMAIN c.buckets = 0..(n - 1) /\ 1 \in 1..n /\ 0 \in 0..n /\ n \in 0..n
    BY CalendarFields
<1>2. Len(q) = n /\ \A i \in 1..n : q[i] = c.buckets[i - 1]
    BY <1>1
<1>3. Calendar!AllEvents(c) = Calendar!Sx!FlattenSeq(q)
    BY DEF Calendar!AllEvents
<1>4. \A i \in 1..n : /\ Lists(q[i], Range(q[i]))
                      /\ \A e \in Range(q[i]) : Calendar!Hash(c, e.ts) = i - 1
  <2> SUFFICES ASSUME NEW i \in 1..n
               PROVE  /\ Lists(q[i], Range(q[i]))
                      /\ \A e \in Range(q[i]) : Calendar!Hash(c, e.ts) = i - 1
      OBVIOUS
  <2>1. i - 1 \in 0..(n - 1)
      BY <1>1
  <2>2. q[i] = c.buckets[i - 1] /\ q[i] \in Seq(Keys)
      BY <1>2, <2>1, CalendarFields
  <2>3. SortedBy(r, q[i]) /\ \A e \in Range(q[i]) : Calendar!Hash(c, e.ts) = i - 1
      BY <2>1, <2>2 DEF Shelved
  <2>4. IsInjective(q[i])
      BY <2>2, <2>3, SortedDistinct
  <2> QED BY <2>2, <2>3, <2>4 DEF Lists
<1> HIDE DEF n, q
<1>5. PICK f : /\ f[1] = q[1]
               /\ \A i \in 2..n : f[i] = f[i - 1] \o q[i]
               /\ Calendar!Sx!FlattenSeq(q) = f[n]
    BY <1>1, <1>2, FlattenLoop
<1> DEFINE P == {k \in 0..n : k # 0 => Lists(f[k], U(k))}
<1>6. 0 \in P
    BY <1>1
<1>7. ASSUME NEW k \in 1..n, k - 1 \in P PROVE k \in P
  <2>1. CASE k = 1
    <3>1. U(1) = Range(q[1])
        OBVIOUS
    <3>2. Lists(q[1], Range(q[1])) /\ k \in 0..n
        BY <1>1, <1>4
    <3> HIDE DEF U
    <3> QED BY <1>5, <2>1, <3>1, <3>2
  <2>2. CASE k # 1
    <3>1. k - 1 \in 1..n /\ k \in 2..n /\ k - 1 # 0 /\ k \in 0..n
        BY <1>1, <2>2
    <3>2. Lists(f[k - 1], U(k - 1))
        BY <1>7, <3>1
    <3>3. U(k - 1) \cap Range(q[k]) = {}
      <4> SUFFICES ASSUME NEW e \in Range(q[k]), NEW i \in 1..(k - 1), e \in Range(q[i])
                   PROVE  FALSE
          OBVIOUS
      <4>1. i \in 1..n /\ i # k
          BY <1>1
      <4>2. i - 1 = k - 1
          BY <1>4, <4>1
      <4> QED BY <4>1, <4>2
    <3>4. U(k) = U(k - 1) \cup Range(q[k])
      <4>1. 1..k = 1..(k - 1) \cup {k}
          BY <1>1
      <4> QED BY <4>1
    <3> HIDE DEF U
    <3>5. Lists(f[k - 1] \o q[k], U(k - 1) \cup Range(q[k]))
        BY <1>4, <3>2, <3>3, JoinedDistinct
    <3>6. f[k] = f[k - 1] \o q[k]
        BY <1>5, <3>1
    <3> QED BY <3>1, <3>4, <3>5, <3>6
  <2> QED BY <2>1, <2>2
<1> HIDE DEF P, U
<1>8. n \in P
    BY <1>1, <1>6, <1>7, CountingUp
<1>9. Lists(f[n], U(n))
    BY <1>1, <1>8 DEF P
<1>10. U(n) = Contents(c)
  <2>1. \A i \in 1..n : i - 1 \in 0..(n - 1) /\ q[i] = c.buckets[i - 1]
      BY <1>1, <1>2
  <2>2. \A b \in 0..(n - 1) : b + 1 \in 1..n /\ q[b + 1] = c.buckets[b]
    <3> SUFFICES ASSUME NEW b \in 0..(n - 1)
                 PROVE  b + 1 \in 1..n /\ q[b + 1] = c.buckets[b]
        OBVIOUS
    <3>1. b + 1 \in 1..n /\ (b + 1) - 1 = b
        BY <1>1
    <3> QED BY <1>2, <3>1
  <2>3. \A e : e \in U(n) => e \in Contents(c)
      BY <1>1, <2>1 DEF U, Contents
  <2>4. \A e : e \in Contents(c) => e \in U(n)
      BY <1>1, <2>2 DEF U, Contents
  <2> QED BY <2>3, <2>4
<1> QED BY <1>3, <1>5, <1>9, <1>10

\* An empty calendar.
LEMMA EmptyGood ==
    ASSUME NEW r \in BOOLEAN, NEW n \in Nat \ {0}, NEW w \in Nat \ {0}, NEW p \in Nat, NEW q \in Int
    PROVE  LET g == Calendar!EmptyCalendar(n, w, p, q)
           IN  /\ CalendarType(g) /\ Shelved(r, g) /\ Placed(g) /\ Contents(g) = {}
               /\ g.nBuckets = n /\ g.width = w /\ g.lastPrio = p /\ g.qSize = q
<1> DEFINE g == Calendar!EmptyCalendar(n, w, p, q)
           B == [i \in 0..(n - 1) |-> <<>>]
           lb == (p \div w) % n
           bt == (p \div w + 1) * w
<1>1. p \div w \in Nat
    BY DivFacts
<1>2. lb \in Nat /\ bt \in Nat
  <2>1. lb \in 0..(n - 1)
    <3> DEFINE y == p \div w
    <3>1. y \in Nat
        BY <1>1
    <3> HIDE DEF y
    <3>2. y % n \in 0..(n - 1)
        BY <3>1, ModFacts
    <3> QED BY <3>2 DEF y
  <2>2. bt \in Nat
      BY <1>1
  <2> QED BY <2>1, <2>2
<1>3. B \in [0..(n - 1) -> Seq(Keys)]
    OBVIOUS
<1>4. B \in UNION {[0..(i - 1) -> Seq(Keys)] : i \in Nat}
    BY <1>3
<1>5. g = [buckets |-> B, nBuckets |-> n, width |-> w, lastPrio |-> p, lastBucket |-> lb,
           bucketTop |-> bt, qSize |-> q]
    BY DEF Calendar!EmptyCalendar
<1> HIDE DEF g, lb, bt
<1>6. CalendarType(g)
    BY <1>2, <1>3, <1>4, <1>5 DEF CalendarType, CalendarRecords
<1>7. /\ g.buckets = B /\ g.nBuckets = n /\ g.width = w /\ g.lastPrio = p /\ g.qSize = q
      /\ g.lastBucket = lb /\ g.bucketTop = bt
    BY <1>5
<1>8. \A b \in 0..(n - 1) : g.buckets[b] = <<>> /\ Range(g.buckets[b]) = {}
    BY <1>7 DEF Range
<1>9. SortedBy(r, <<>>)
    BY DEF SortedBy
<1>10. Shelved(r, g)
    BY <1>7, <1>8, <1>9 DEF Shelved
<1>11. Contents(g) = {}
    BY <1>7, <1>8 DEF Contents
<1>12. Placed(g)
    BY <1>7, <1>11 DEF Placed, Calendar!Hash, lb, bt
<1> QED BY <1>6, <1>7, <1>10, <1>11, <1>12 DEF g

\* The calendar holds the events of S and counts them.
CalendarOK(r, c, S) ==
    Good(r, c) /\ Contents(c) = S /\ IsFiniteSet(S) /\ c.qSize = Cardinality(S)

\* Resizing keeps the events and where the search begins.
LEMMA Resized ==
    ASSUME m_reverse \in BOOLEAN, NEW S, NEW c, CalendarOK(m_reverse, c, S), NEW n \in Nat \ {0}
    PROVE  LET g == Calendar!Resize(c, n)
           IN  CalendarOK(m_reverse, g, S) /\ g.lastPrio = c.lastPrio
<1> DEFINE o == Calendar!AfterSampling(c)
           w == Calendar!CalculateNewWidth(c)
           e == Calendar!EmptyCalendar(n, w, o.lastPrio, o.qSize)
           d == Calendar!AllEvents(o)
           g == Calendar!Resize(c, n)
<1>1. /\ Good(m_reverse, c) /\ Contents(c) = S /\ IsFiniteSet(S) /\ c.qSize = Cardinality(S)
      /\ c.qSize \in Int /\ c.lastPrio \in Nat
    BY CalendarFields DEF CalendarOK, Good
<1>2. w \in Nat \ {0}
    BY <1>1, WidthType
<1>3. /\ Good(m_reverse, o) /\ Contents(o) = S /\ o.lastPrio = c.lastPrio /\ o.qSize = c.qSize
    BY <1>1, SamplesPutBack
<1>4. g = Calendar!Filled(e, d)
    BY DEF Calendar!Resize
<1> HIDE DEF o, w, g
<1>5. Lists(d, S)
    BY <1>3, AllListed DEF Good
<1>6. /\ CalendarType(e) /\ Shelved(m_reverse, e) /\ Placed(e) /\ Contents(e) = {}
      /\ e.nBuckets = n /\ e.width = w /\ e.lastPrio = c.lastPrio /\ e.qSize = c.qSize
  <2>1. o.lastPrio \in Nat /\ o.qSize \in Int
      BY <1>1, <1>3
  <2>2. /\ CalendarType(e) /\ Shelved(m_reverse, e) /\ Placed(e) /\ Contents(e) = {}
        /\ e.nBuckets = n /\ e.width = w /\ e.lastPrio = o.lastPrio /\ e.qSize = o.qSize
    <3>1. PICK p \in Nat, q \in Int : p = o.lastPrio /\ q = o.qSize
        BY <2>1
    <3> DEFINE x == Calendar!EmptyCalendar(n, w, p, q)
    <3>2. /\ CalendarType(x) /\ Shelved(m_reverse, x) /\ Placed(x) /\ Contents(x) = {}
          /\ x.nBuckets = n /\ x.width = w /\ x.lastPrio = p /\ x.qSize = q
        BY <1>2, EmptyGood
    <3> QED BY <3>1, <3>2
  <2> HIDE DEF e
  <2> QED BY <1>3, <2>2
<1>7. UniqueUids(S) /\ \A x \in S : x.ts >= c.lastPrio
    BY <1>1 DEF Good, Placed
<1> HIDE DEF e, d
<1>8. S \cap Contents(e) = {} /\ UniqueUids(Contents(e) \cup S)
    BY <1>6, <1>7 DEF UniqueUids
<1>9. /\ CalendarType(g) /\ Shelved(m_reverse, g) /\ Contents(g) = Contents(e) \cup S
      /\ g.nBuckets = e.nBuckets /\ g.width = e.width /\ g.lastPrio = e.lastPrio
      /\ g.lastBucket = e.lastBucket /\ g.bucketTop = e.bucketTop
      /\ g.qSize = e.qSize
    BY <1>4, <1>5, <1>6, <1>8, CalendarPut
<1>10. Contents(g) = S
    BY <1>6, <1>9
<1>11. Placed(g)
  <2>1. Calendar!Hash(g, e.lastPrio) = Calendar!Hash(e, e.lastPrio)
      BY <1>9, SameHash
  <2>2. g.lastBucket = Calendar!Hash(g, g.lastPrio)
      BY <1>6, <1>9, <2>1 DEF Placed
  <2>3. g.bucketTop = (g.lastPrio \div g.width + 1) * g.width
      BY <1>6, <1>9 DEF Placed
  <2>4. \A x \in Contents(g) : x.ts >= g.lastPrio
      BY <1>6, <1>7, <1>9, <1>10
  <2> QED BY <2>2, <2>3, <2>4 DEF Placed
<1>12. Good(m_reverse, g)
    BY <1>7, <1>9, <1>10, <1>11 DEF Good
<1> QED BY <1>1, <1>6, <1>9, <1>10, <1>12 DEF CalendarOK, g

\* So do the conditional resizings after an insertion and after a removal.
LEMMA ResizedUpDown ==
    ASSUME m_reverse \in BOOLEAN, NEW S, NEW c, CalendarOK(m_reverse, c, S)
    PROVE  LET u == Calendar!ResizeUp(c)
               d == Calendar!ResizeDown(c)
           IN  /\ CalendarOK(m_reverse, u, S) /\ u.lastPrio = c.lastPrio
               /\ CalendarOK(m_reverse, d, S) /\ d.lastPrio = c.lastPrio
<1> DEFINE n == c.nBuckets
<1>1. n \in Nat \ {0} /\ c.qSize \in Nat
  <2>1. CalendarType(c) /\ IsFiniteSet(S) /\ c.qSize = Cardinality(S)
      BY DEF CalendarOK, Good
  <2> QED BY <2>1, CalendarFields, FS_CardinalityType
<1>2. n * 2 \in Nat \ {0}
    BY <1>1
<1>3. n \div 2 \in Nat
    BY <1>1, DivFacts
<1> DEFINE u == Calendar!ResizeUp(c)
           d == Calendar!ResizeDown(c)
<1>4. CalendarOK(m_reverse, u, S) /\ u.lastPrio = c.lastPrio
  <2>1. CASE c.qSize > n * 2 /\ n < MaxBuckets
    <3>1. u = Calendar!Resize(c, n * 2)
        BY <2>1 DEF Calendar!ResizeUp
    <3> QED BY <1>2, <3>1, Resized
  <2>2. CASE ~(c.qSize > n * 2 /\ n < MaxBuckets)
      BY <2>2 DEF Calendar!ResizeUp
  <2> QED BY <2>1, <2>2
<1>5. CalendarOK(m_reverse, d, S) /\ d.lastPrio = c.lastPrio
  <2>1. CASE c.qSize < n \div 2
    <3>1. n \div 2 \in Nat \ {0}
        BY <1>1, <1>3, <2>1
    <3>2. d = Calendar!Resize(c, n \div 2)
        BY <2>1 DEF Calendar!ResizeDown
    <3> QED BY <3>1, <3>2, Resized
  <2>2. CASE ~(c.qSize < n \div 2)
      BY <2>2 DEF Calendar!ResizeDown
  <2> QED BY <2>1, <2>2
<1> QED BY <1>4, <1>5

-----------------------------------------------------------------------------
(* The calendar: the operations of the scheduler.                          *)

\* Only the count changes.
LEMMA Counted ==
    ASSUME NEW r, NEW c, Good(r, c), NEW q \in Int
    PROVE  LET g == [c EXCEPT !.qSize = q]
           IN  /\ Good(r, g) /\ Contents(g) = Contents(c)
               /\ g.lastPrio = c.lastPrio /\ g.qSize = q
<1> DEFINE g == [c EXCEPT !.qSize = q]
<1>1. CalendarType(c) /\ Shelved(r, c) /\ Placed(c) /\ UniqueUids(Contents(c))
    BY DEF Good
<1>2. /\ g.buckets = c.buckets /\ g.nBuckets = c.nBuckets /\ g.width = c.width /\ g.qSize = q
      /\ g.lastPrio = c.lastPrio /\ g.lastBucket = c.lastBucket /\ g.bucketTop = c.bucketTop
    BY <1>1 DEF CalendarType, CalendarRecords
<1>3. CalendarType(g)
    BY <1>1 DEF CalendarType, CalendarRecords
<1> HIDE DEF g
<1>4. \A ts : Calendar!Hash(g, ts) = Calendar!Hash(c, ts)
    BY <1>2, SameHash
<1>5. Contents(g) = Contents(c)
    BY <1>2 DEF Contents
<1>6. Shelved(r, g)
    BY <1>1, <1>2, <1>4 DEF Shelved
<1>7. Placed(g)
    BY <1>1, <1>2, <1>4, <1>5 DEF Placed
<1>8. Good(r, g)
    BY <1>1, <1>3, <1>5, <1>6, <1>7 DEF Good
<1> QED BY <1>2, <1>5, <1>8 DEF g

\* Insert adds an event that is not before the last one taken out.
LEMMA CalendarInserted ==
    ASSUME m_reverse \in BOOLEAN, NEW S, NEW c, CalendarOK(m_reverse, c, S),
           NEW ev \in Keys, ev \notin S, UniqueUids(S \cup {ev}), ev.ts >= c.lastPrio
    PROVE  LET g == Calendar!Inserted(c, ev)
           IN  CalendarOK(m_reverse, g, S \cup {ev}) /\ g.lastPrio = c.lastPrio
<1> DEFINE i == Calendar!DoInsert(c, ev)
           q == i.qSize + 1
           k == [i EXCEPT !.qSize = q]
           g == Calendar!Inserted(c, ev)
<1>1. /\ Good(m_reverse, c) /\ Contents(c) = S /\ IsFiniteSet(S) /\ c.qSize = Cardinality(S)
    BY DEF CalendarOK
<1>2. CalendarType(c) /\ Shelved(m_reverse, c) /\ Placed(c)
    BY <1>1 DEF Good
<1>3. /\ CalendarType(i) /\ Shelved(m_reverse, i) /\ Contents(i) = S \cup {ev}
      /\ i.nBuckets = c.nBuckets /\ i.width = c.width /\ i.lastPrio = c.lastPrio
      /\ i.lastBucket = c.lastBucket /\ i.bucketTop = c.bucketTop
      /\ i.qSize = c.qSize
    BY <1>1, <1>2, DoInserted
<1>4. g = Calendar!ResizeUp(k)
  <2>1. k = [i EXCEPT !.qSize = @ + 1]
      BY <1>3 DEF CalendarType, CalendarRecords
  <2> QED BY <2>1 DEF Calendar!Inserted
<1> HIDE DEF i, g
<1>5. Placed(i)
  <2>1. Calendar!Hash(i, c.lastPrio) = Calendar!Hash(c, c.lastPrio)
      BY <1>3, SameHash
  <2>2. \A x \in Contents(i) : x.ts >= i.lastPrio
      BY <1>1, <1>2, <1>3 DEF Placed
  <2>3. i.lastBucket = Calendar!Hash(i, i.lastPrio)
      BY <1>2, <1>3, <2>1 DEF Placed
  <2>4. i.bucketTop = (i.lastPrio \div i.width + 1) * i.width
      BY <1>2, <1>3 DEF Placed
  <2> QED BY <2>2, <2>3, <2>4 DEF Placed
<1>6. Good(m_reverse, i)
    BY <1>3, <1>5 DEF Good
<1>7. q \in Int /\ IsFiniteSet(S \cup {ev}) /\ q = Cardinality(S \cup {ev})
    BY <1>1, <1>3, FS_CardinalityType, FS_AddElement
<1>8. Good(m_reverse, k) /\ Contents(k) = S \cup {ev} /\ k.lastPrio = c.lastPrio /\ k.qSize = q
    BY <1>3, <1>6, <1>7, Counted
<1> HIDE DEF k, q
<1>9. CalendarOK(m_reverse, k, S \cup {ev})
    BY <1>7, <1>8 DEF CalendarOK
<1> QED BY <1>4, <1>8, <1>9, ResizedUpDown DEF g

\* PeekNext shows the earliest event and RemoveNext takes it out.
LEMMA CalendarNextRemoved ==
    ASSUME m_reverse \in BOOLEAN, NEW S, NEW c, CalendarOK(m_reverse, c, S), S # {}
    PROVE  LET e == Calendar!PeekNext(c)
               g == Calendar!NextRemoved(c)
           IN  /\ Earliest(e, S)
               /\ CalendarOK(m_reverse, g, S \ {e}) /\ g.lastPrio = e.ts
<1> DEFINE e == Calendar!PeekNext(c)
           i == Calendar!DoRemoveNext(c)
           q == i.qSize - 1
           k == [i EXCEPT !.qSize = q]
           g == Calendar!NextRemoved(c)
<1>1. /\ Good(m_reverse, c) /\ Contents(c) = S /\ IsFiniteSet(S) /\ c.qSize = Cardinality(S)
    BY DEF CalendarOK
<1>2. /\ Earliest(e, S)
      /\ Good(m_reverse, i) /\ Contents(i) = S \ {e} /\ i.lastPrio = e.ts
      /\ i.qSize = c.qSize
    BY <1>1, NextFound
<1>3. g = Calendar!ResizeDown(k)
  <2>1. k = [i EXCEPT !.qSize = @ - 1]
      BY <1>2 DEF Good, CalendarType, CalendarRecords
  <2> QED BY <2>1 DEF Calendar!NextRemoved
<1> HIDE DEF i, g, e
<1>4. q \in Int /\ IsFiniteSet(S \ {e}) /\ q = Cardinality(S \ {e})
    BY <1>1, <1>2, FS_CardinalityType, FS_RemoveElement DEF Earliest
<1>5. Good(m_reverse, k) /\ Contents(k) = S \ {e} /\ k.lastPrio = e.ts /\ k.qSize = q
    BY <1>2, <1>4, Counted
<1> HIDE DEF k, q
<1>6. CalendarOK(m_reverse, k, S \ {e})
    BY <1>4, <1>5 DEF CalendarOK
<1> QED BY <1>2, <1>3, <1>5, <1>6, ResizedUpDown DEF g, e

\* Remove takes one entry out of a bucket.
LEMMA CalendarRemoved ==
    ASSUME m_reverse \in BOOLEAN, NEW S, NEW c, CalendarOK(m_reverse, c, S),
           NEW b \in 0..(c.nBuckets - 1), NEW j \in DOMAIN c.buckets[b]
    PROVE  LET e == c.buckets[b][j]
               g == Calendar!RemoveAt(c, b, j)
           IN  /\ e \in S
               /\ CalendarOK(m_reverse, g, S \ {e}) /\ g.lastPrio = c.lastPrio
<1> DEFINE s == c.buckets[b]
           e == s[j]
           t == Erase(s, j)
           q == c.qSize - 1
           k == [c EXCEPT !.buckets = [c.buckets EXCEPT ![b] = t], !.lastPrio = c.lastPrio,
                          !.lastBucket = c.lastBucket, !.bucketTop = c.bucketTop, !.qSize = q]
           g == Calendar!RemoveAt(c, b, j)
<1>1. /\ Good(m_reverse, c) /\ Contents(c) = S /\ IsFiniteSet(S) /\ c.qSize = Cardinality(S)
      /\ CalendarType(c) /\ Shelved(m_reverse, c) /\ Placed(c) /\ UniqueUids(S)
    BY DEF CalendarOK, Good
<1>2. /\ c.lastPrio \in Nat /\ c.lastBucket \in Nat /\ c.bucketTop \in Nat /\ c.qSize \in Int
      /\ s \in Seq(Keys)
    BY <1>1, CalendarFields
<1>3. SortedBy(m_reverse, s) /\ j \in 1..Len(s) /\ \A x \in Range(s) : Calendar!Hash(c, x.ts) = b
    BY <1>1, <1>2 DEF Shelved
<1>4. t \in Seq(Keys) /\ SortedBy(m_reverse, t) /\ Range(t) = Range(s) \ {e}
    BY <1>2, <1>3, SortedErase
<1>5. g = Calendar!ResizeDown(k)
  <2>1. k = [c EXCEPT !.buckets[b] = Erase(@, j), !.qSize = @ - 1]
      BY <1>1 DEF CalendarType, CalendarRecords
  <2>2. \A x : Calendar!Erase(x, j) = Erase(x, j)
      BY DEF Calendar!Erase, Erase
  <2>3. k = [c EXCEPT !.buckets[b] = Calendar!Erase(@, j), !.qSize = @ - 1]
      BY <2>1, <2>2
  <2> QED BY <2>3 DEF Calendar!RemoveAt
<1>6. k \in CalendarRecords
  <2>1. q \in Int
      BY <1>2
  <2> HIDE DEF t, q
  <2> QED BY <1>1, <1>2, <1>4, <2>1, CalendarUpdated
<1>7. /\ k.buckets = [c.buckets EXCEPT ![b] = t] /\ k.nBuckets = c.nBuckets
      /\ k.width = c.width /\ k.qSize = q /\ k.lastPrio = c.lastPrio
      /\ k.lastBucket = c.lastBucket /\ k.bucketTop = c.bucketTop
    BY <1>1 DEF CalendarType, CalendarRecords
<1> HIDE DEF k, g, t, e
<1>8. /\ CalendarType(k) /\ Shelved(m_reverse, k)
      /\ Contents(k) = (Contents(c) \ Range(s)) \cup Range(t)
  <2>1. \A x \in Range(t) : Calendar!Hash(c, x.ts) = b
      BY <1>3, <1>4
  <2> QED BY <1>1, <1>4, <1>6, <1>7, <2>1, BucketReplaced
<1>9. e \in Range(s) /\ Range(s) \in SUBSET S
    BY <1>1, ContentsFacts DEF e, Range
<1>10. Contents(k) = S \ {e}
    BY <1>1, <1>4, <1>8, <1>9
<1>11. Placed(k)
  <2>1. Calendar!Hash(k, c.lastPrio) = Calendar!Hash(c, c.lastPrio)
      BY <1>7, SameHash
  <2>2. \A x \in Contents(k) : x.ts >= k.lastPrio
      BY <1>1, <1>7, <1>10 DEF Placed
  <2> QED BY <1>1, <1>7, <2>1, <2>2 DEF Placed
<1>12. UniqueUids(Contents(k))
    BY <1>1, <1>10 DEF UniqueUids
<1>13. Good(m_reverse, k)
    BY <1>8, <1>11, <1>12 DEF Good
<1>14. IsFiniteSet(S \ {e}) /\ q = Cardinality(S \ {e})
    BY <1>1, <1>9, FS_CardinalityType, FS_RemoveElement
<1>15. CalendarOK(m_reverse, k, S \ {e})
    BY <1>7, <1>10, <1>13, <1>14 DEF CalendarOK
<1> QED BY <1>5, <1>7, <1>9, <1>15, ResizedUpDown DEF g, e

\* A new calendar is empty.
LEMMA CalendarIsNew ==
    ASSUME NEW r \in BOOLEAN
    PROVE  CalendarOK(r, Calendar!NewCalendar, {}) /\ Calendar!NewCalendar.lastPrio = 0
<1> DEFINE g == Calendar!EmptyCalendar(2, 1, 0, 0)
<1>1. /\ CalendarType(g) /\ Shelved(r, g) /\ Placed(g) /\ Contents(g) = {}
      /\ g.lastPrio = 0 /\ g.qSize = 0
    BY EmptyGood
<1>2. g = Calendar!NewCalendar
    BY DEF Calendar!NewCalendar
<1> HIDE DEF g
<1>3. UniqueUids(Contents(g))
    BY <1>1 DEF UniqueUids
<1>4. IsFiniteSet({}) /\ Cardinality({}) = 0
    BY FS_EmptySet
<1> QED BY <1>1, <1>2, <1>3, <1>4 DEF CalendarOK, Good

-----------------------------------------------------------------------------
(* The calendar: emptying and filling.                                     *)

\* The calls of RemoveNext that empty a calendar follow each other.
LEMMA CalendarDrainingLoop ==
    ASSUME NEW c, c.qSize \in Nat
    PROVE  /\ CalendarDraining(c)[0] = c
           /\ \A k \in 1..c.qSize : CalendarDraining(c)[k] = Calendar!NextRemoved(CalendarDraining(c)[k - 1])
<1> DEFINE N == c.qSize
           base == c
           Loop(m, g) == g = [k \in 0..m |-> IF k = 0 THEN base ELSE Calendar!NextRemoved(g[k - 1])]
           P == {m \in 0..N : \E g : Loop(m, g)}
<1>0. N \in Nat /\ N \in 0..N
    OBVIOUS
<1>1. 0 \in P
  <2>1. Loop(0, [k \in 0..0 |-> base])
      OBVIOUS
  <2>2. \E g : Loop(0, g)
      BY <2>1
  <2> QED BY <1>0, <2>2
<1>2. ASSUME NEW m \in 1..N, m - 1 \in P PROVE m \in P
  <2>1. PICK g : Loop(m - 1, g)
      BY <1>2
  <2> DEFINE f == [k \in 0..m |-> IF k = m THEN Calendar!NextRemoved(g[k - 1]) ELSE g[k]]
  <2>2. \A k \in 0..(m - 1) : g[k] = IF k = 0 THEN base ELSE Calendar!NextRemoved(g[k - 1])
      BY <2>1
  <2>3. ASSUME NEW k \in 0..m
        PROVE  f[k] = IF k = 0 THEN base ELSE Calendar!NextRemoved(f[k - 1])
    <3>1. CASE k = m
        BY <1>0, <3>1
    <3>2. CASE k # m
      <4>1. k \in 0..(m - 1) /\ f[k] = g[k] /\ (k # 0 => f[k - 1] = g[k - 1])
          BY <1>0, <3>2
      <4> QED BY <2>2, <4>1
    <3> QED BY <3>1, <3>2
  <2>4. Loop(m, f)
      BY <2>3
  <2>5. \E x : Loop(m, x)
    <3> HIDE DEF f
    <3> QED BY <2>4
  <2> QED BY <1>0, <2>5
<1> HIDE DEF P, N
<1>3. N \in P
    BY <1>0, <1>1, <1>2, CountingUp
<1>4. \E g : Loop(N, g)
    BY <1>3 DEF P
<1> DEFINE f == CalendarDraining(c)
<1>5. Loop(N, f)
    BY <1>4 DEF CalendarDraining, N
<1> HIDE DEF f
<1>6. \A k \in 0..N : f[k] = IF k = 0 THEN base ELSE Calendar!NextRemoved(f[k - 1])
    BY <1>5
<1> QED BY <1>0, <1>6 DEF f, N

\* The calls of Insert that fill a calendar follow each other.
LEMMA CalendarFillingLoop ==
    ASSUME NEW list \in Seq(Keys)
    PROVE  /\ CalendarFilling(list)[0] = Calendar!NewCalendar
           /\ \A k \in 1..Len(list) : CalendarFilling(list)[k] = Calendar!Inserted(CalendarFilling(list)[k - 1], list[k])
<1> DEFINE N == Len(list)
           base == Calendar!NewCalendar
           Loop(m, g) == g = [k \in 0..m |-> IF k = 0 THEN base ELSE Calendar!Inserted(g[k - 1], list[k])]
           P == {m \in 0..N : \E g : Loop(m, g)}
<1>0. N \in Nat /\ N \in 0..N
    OBVIOUS
<1>1. 0 \in P
  <2>1. Loop(0, [k \in 0..0 |-> base])
      OBVIOUS
  <2>2. \E g : Loop(0, g)
      BY <2>1
  <2> QED BY <1>0, <2>2
<1>2. ASSUME NEW m \in 1..N, m - 1 \in P PROVE m \in P
  <2>1. PICK g : Loop(m - 1, g)
      BY <1>2
  <2> DEFINE f == [k \in 0..m |-> IF k = m THEN Calendar!Inserted(g[k - 1], list[k]) ELSE g[k]]
  <2>2. \A k \in 0..(m - 1) : g[k] = IF k = 0 THEN base ELSE Calendar!Inserted(g[k - 1], list[k])
      BY <2>1
  <2>3. ASSUME NEW k \in 0..m
        PROVE  f[k] = IF k = 0 THEN base ELSE Calendar!Inserted(f[k - 1], list[k])
    <3>1. CASE k = m
        BY <1>0, <3>1
    <3>2. CASE k # m
      <4>1. k \in 0..(m - 1) /\ f[k] = g[k] /\ (k # 0 => f[k - 1] = g[k - 1])
          BY <1>0, <3>2
      <4> QED BY <2>2, <4>1
    <3> QED BY <3>1, <3>2
  <2>4. Loop(m, f)
      BY <2>3
  <2>5. \E x : Loop(m, x)
    <3> HIDE DEF f
    <3> QED BY <2>4
  <2> QED BY <1>0, <2>5
<1> HIDE DEF P, N
<1>3. N \in P
    BY <1>0, <1>1, <1>2, CountingUp
<1>4. \E g : Loop(N, g)
    BY <1>3 DEF P
<1> DEFINE f == CalendarFilling(list)
<1>5. Loop(N, f)
    BY <1>4 DEF CalendarFilling, N
<1> HIDE DEF f
<1>6. \A k \in 0..N : f[k] = IF k = 0 THEN base ELSE Calendar!Inserted(f[k - 1], list[k])
    BY <1>5
<1> QED BY <1>0, <1>6 DEF f, N

\* Emptying a calendar gives all its events, each of them once.
LEMMA CalendarEmptied ==
    ASSUME m_reverse \in BOOLEAN, NEW S, NEW c, CalendarOK(m_reverse, c, S)
    PROVE  Lists(CalendarDrained(c), S)
<1> DEFINE n == c.qSize
           f == CalendarDraining(c)
           d == CalendarDrained(c)
           P == {k \in 0..n : /\ CalendarOK(m_reverse, f[k], Contents(f[k]))
                              /\ Cardinality(Contents(f[k])) = n - k}
           R == [k \in 0..n |-> Contents(f[k])]
<1>1. n \in Nat /\ n \in 0..n /\ 0 \in 0..n /\ n = Cardinality(S) /\ Contents(c) = S
  <2>1. IsFiniteSet(S) /\ n = Cardinality(S) /\ Contents(c) = S
      BY DEF CalendarOK
  <2> QED BY <2>1, FS_CardinalityType
<1>2. f[0] = c /\ \A k \in 1..n : f[k] = Calendar!NextRemoved(f[k - 1])
    BY <1>1, CalendarDrainingLoop
<1>3. d = [k \in 1..n |-> Calendar!PeekNext(f[k - 1])]
    BY DEF CalendarDrained
<1> HIDE DEF f, d, n
<1>4. 0 \in P
    BY <1>1, <1>2
<1>5. ASSUME NEW k \in 1..n, k - 1 \in P
      PROVE  /\ k \in P /\ Earliest(d[k], Contents(f[k - 1]))
             /\ Contents(f[k]) = Contents(f[k - 1]) \ {d[k]}
  <2> DEFINE g == f[k - 1]
             e == Calendar!PeekNext(g)
             T == Contents(g)
  <2>1. CalendarOK(m_reverse, g, T) /\ Cardinality(T) = n - (k - 1) /\ IsFiniteSet(T)
      BY <1>5 DEF CalendarOK
  <2>2. d[k] = e /\ f[k] = Calendar!NextRemoved(g)
      BY <1>2, <1>3
  <2>3. T # {}
    <3>1. n - (k - 1) # 0
        BY <1>1
    <3> QED BY <2>1, <3>1, FS_EmptySet
  <2> HIDE DEF g
  <2>4. Earliest(e, T) /\ CalendarOK(m_reverse, f[k], T \ {e})
      BY <2>1, <2>2, <2>3, CalendarNextRemoved
  <2>5. Contents(f[k]) = T \ {e}
      BY <2>4 DEF CalendarOK
  <2>6. Cardinality(T \ {e}) = Cardinality(T) - 1
      BY <2>1, <2>4, FS_RemoveElement DEF Earliest
  <2>7. Cardinality(Contents(f[k])) = n - k /\ k \in 0..n
      BY <1>1, <2>1, <2>5, <2>6
  <2>8. CalendarOK(m_reverse, f[k], Contents(f[k]))
      BY <2>4, <2>5
  <2>9. k \in P
      BY <2>7, <2>8
  <2> QED BY <2>2, <2>4, <2>5, <2>9 DEF g
<1> HIDE DEF P
<1>6. \A k \in 0..n : k \in P
    BY <1>1, <1>4, <1>5, CountingUp
<1>7. \A k \in 1..n : k - 1 \in P
    BY <1>1, <1>6
<1>8. Takes(n, R, d)
  <2> SUFFICES ASSUME NEW k \in 1..n PROVE d[k] \in R[k - 1] /\ R[k] = R[k - 1] \ {d[k]}
      BY DEF Takes
  <2>1. R[k - 1] = Contents(f[k - 1]) /\ R[k] = Contents(f[k])
      BY <1>1
  <2>2. Earliest(d[k], Contents(f[k - 1])) /\ Contents(f[k]) = Contents(f[k - 1]) \ {d[k]}
      BY <1>5, <1>7
  <2> HIDE DEF R
  <2> QED BY <2>1, <2>2 DEF Earliest
<1>9. R[0] = S /\ R[n] = {}
  <2>1. R[0] = Contents(f[0]) /\ R[n] = Contents(f[n])
      BY <1>1
  <2>2. IsFiniteSet(Contents(f[n])) /\ Cardinality(Contents(f[n])) = 0
    <3>1. n \in P
        BY <1>1, <1>6
    <3>2. /\ CalendarOK(m_reverse, f[n], Contents(f[n]))
          /\ Cardinality(Contents(f[n])) = n - n
        BY <3>1 DEF P
    <3> QED BY <1>1, <3>2 DEF CalendarOK
  <2>3. Contents(f[n]) = {}
      BY <2>2, FS_EmptySet
  <2> QED BY <1>1, <1>2, <2>1, <2>3
<1> HIDE DEF R
<1>10. /\ \A k \in 0..n : R[k] = R[0] \ {d[j] : j \in 1..k}
       /\ \A i, j \in 1..n : d[i] = d[j] => i = j
    BY <1>1, <1>8, TakenOneByOne
<1>11. DOMAIN d = 1..n /\ Range(d) = {d[j] : j \in 1..n}
    BY <1>3 DEF Range
<1>12. \A k \in 1..n : d[k] \in S
  <2> SUFFICES ASSUME NEW k \in 1..n PROVE d[k] \in S
      OBVIOUS
  <2>1. k - 1 \in 0..n /\ d[k] \in R[k - 1]
      BY <1>1, <1>8 DEF Takes
  <2> QED BY <1>9, <1>10, <2>1
<1>13. S \in SUBSET Keys
    BY <1>1, ContentsFacts DEF CalendarOK, Good
<1>14. d \in Seq(Keys)
  <2>1. \A k \in 1..n : d[k] \in Keys
      BY <1>12, <1>13
  <2> QED BY <1>1, <1>3, <2>1
<1>15. Range(d) = S
  <2>1. R[n] = R[0] \ {d[j] : j \in 1..n}
      BY <1>1, <1>10
  <2> QED BY <1>9, <1>11, <1>12, <2>1
<1> QED BY <1>10, <1>11, <1>14, <1>15 DEF Lists, IsInjective, d

\* A calendar that was filled holds the events it was given.
LEMMA CalendarFilled ==
    ASSUME m_reverse \in BOOLEAN, NEW S, UniqueUids(S), NEW d, Lists(d, S)
    PROVE  LET g == CalendarFilling(d)[Len(d)]
           IN  CalendarOK(m_reverse, g, S) /\ g.lastPrio = 0
<1> DEFINE n == Len(d)
           f == CalendarFilling(d)
           Put(k) == {d[j] : j \in 1..k}
           P == {k \in 0..n : CalendarOK(m_reverse, f[k], Put(k)) /\ f[k].lastPrio = 0}
<1>1. /\ d \in Seq(Keys) /\ n \in Nat /\ n \in 0..n /\ 0 \in 0..n /\ DOMAIN d = 1..n
      /\ Range(d) = S /\ \A i, j \in 1..n : d[i] = d[j] => i = j
    BY DEF Lists, IsInjective
<1>2. /\ f[0] = Calendar!NewCalendar
      /\ \A k \in 1..n : f[k] = Calendar!Inserted(f[k - 1], d[k])
    BY <1>1, CalendarFillingLoop
<1> HIDE DEF f, n
<1>4. 0 \in P
  <2>1. Put(0) = {}
      OBVIOUS
  <2>2. CalendarOK(m_reverse, f[0], {}) /\ f[0].lastPrio = 0
      BY <1>2, CalendarIsNew
  <2> QED BY <1>1, <2>1, <2>2
<1>5. ASSUME NEW k \in 1..n, k - 1 \in P PROVE k \in P
  <2> DEFINE g == f[k - 1]
  <2>1. CalendarOK(m_reverse, g, Put(k - 1)) /\ g.lastPrio = 0
      BY <1>5
  <2>2. d[k] \in Keys /\ d[k] \in S /\ d[k] \notin Put(k - 1)
    <3>1. \A j \in 1..(k - 1) : j \in 1..n /\ j # k
        BY <1>1
    <3>2. d[k] \in Keys /\ d[k] \in S
        BY <1>1 DEF Range
    <3> QED BY <1>1, <3>1, <3>2
  <2>3. Put(k) = Put(k - 1) \cup {d[k]} /\ Put(k) \in SUBSET S
    <3>1. 1..k = 1..(k - 1) \cup {k} /\ 1..k \in SUBSET (1..n)
        BY <1>1
    <3> QED BY <1>1, <3>1 DEF Range
  <2>4. d[k].ts >= g.lastPrio
      BY <2>1, <2>2, KeyFields
  <2>5. f[k] = Calendar!Inserted(g, d[k])
      BY <1>2
  <2> HIDE DEF g, Put
  <2>6. UniqueUids(Put(k - 1) \cup {d[k]})
      BY <2>3 DEF UniqueUids
  <2>7. CalendarOK(m_reverse, f[k], Put(k - 1) \cup {d[k]}) /\ f[k].lastPrio = g.lastPrio
      BY <2>1, <2>2, <2>4, <2>5, <2>6, CalendarInserted
  <2>8. k \in 0..n
      BY <1>1
  <2> QED BY <2>1, <2>3, <2>7, <2>8
<1> HIDE DEF P
<1>6. n \in P
    BY <1>1, <1>4, <1>5, CountingUp
<1>7. Put(n) = S
    BY <1>1 DEF Range
<1> HIDE DEF Put
<1> QED BY <1>6, <1>7 DEF P, f, n

-----------------------------------------------------------------------------
(* The invariant of the event list.                                        *)

\* The types of the variables the schedulers share.
QueueTypes ==
    /\ uid \in Nat /\ now \in Nat /\ removed \in Nat /\ changes \in Nat
    /\ type \in Types /\ m_reverse \in BOOLEAN /\ heapRemoved \in BOOLEAN

\* The pending events have uids of their own that were handed out, and none of
\* them is in the past unless Remove has been used on a heap.
PendingOK ==
    /\ pending \in SUBSET Keys /\ IsFiniteSet(pending) /\ UniqueUids(pending)
    /\ \A e \in pending : e.uid <= uid
    /\ heapRemoved \/ \A e \in pending : e.ts >= now

\* The scheduler in use holds the pending events, the others nothing.
HeldBy(t) == IF type = t THEN pending ELSE {}

\* The list is sorted.
ListOK ==
    /\ m_events \in Seq(Keys) /\ ListSorted(m_events)
    /\ Range(m_events) = HeldBy("ListScheduler")

\* The heap holds each of its events once and is ordered, unless Remove has been
\* used on it, which may break the order.
HeapOK ==
    /\ m_heap \in Seq(Keys) /\ IsInjective(m_heap)
    /\ Range(m_heap) = HeldBy("HeapScheduler")
    /\ heapRemoved \/ Ordered(m_heap)

\* The calendar is right, and its search starts no later than now.
CalOK ==
    /\ CalendarOK(m_reverse, cal, HeldBy("CalendarScheduler"))
    /\ IF type = "CalendarScheduler" THEN cal.lastPrio <= now ELSE cal.lastPrio = 0

\* The inductive invariant.
QueueInv == QueueTypes /\ PendingOK /\ ListOK /\ HeapOK /\ CalOK

-----------------------------------------------------------------------------
(* What a step does for the engine, whatever the scheduler.                *)

\* The event Insert is called with.
NewEvent(delay) == [ts |-> now + delay, uid |-> uid + 1]

\* Insert adds a new event.
Adding ==
    /\ \E delay \in Delays : pending' = pending \cup {NewEvent(delay)}
    /\ uid' = uid + 1
    /\ UNCHANGED <<now, removed, heapRemoved>>

\* RemoveNext takes the earliest event, and the time advances to it; of a heap that
\* Remove has been used on, it takes some event.
Firing ==
    /\ \E e \in pending :
          /\ heapRemoved \/ Earliest(e, pending)
          /\ pending' = pending \ {e}
          /\ now' = e.ts
    /\ removed' = removed + 1
    /\ UNCHANGED <<uid, heapRemoved>>

\* Remove takes an event out.
Dropping ==
    /\ \E e \in pending : pending' = pending \ {e}
    /\ heapRemoved' \in {heapRemoved, TRUE}
    /\ UNCHANGED <<uid, now, removed>>

\* SetScheduler keeps everything.
Keeping == UNCHANGED <<pending, uid, now, removed, heapRemoved>>

\* A delay is a number.
LEMMA DelayType == ASSUME NEW delay \in Delays PROVE delay \in Nat
BY QueueAssumption, ListAssumption

\* An event that is inserted is a new one, and not in the past.
LEMMA EventIsNew ==
    ASSUME QueueTypes, PendingOK, NEW delay \in Delays
    PROVE  LET ev == NewEvent(delay)
           IN  /\ ev \in Keys /\ ev.uid = uid + 1 /\ ev.ts >= now /\ ev \notin pending
               /\ UniqueUids(pending \cup {ev})
<1> DEFINE ev == NewEvent(delay)
<1>1. delay \in Nat /\ uid \in Nat /\ now \in Nat
    BY DelayType DEF QueueTypes
<1>2. ev \in Keys /\ ev.uid = uid + 1 /\ ev.ts >= now
    BY <1>1 DEF NewEvent, Keys
<1> HIDE DEF ev
<1>3. \A e \in pending : e.uid \in Nat /\ e.uid <= uid
    BY KeyFields DEF PendingOK
<1>4. \A e \in pending : e.uid # ev.uid
    BY <1>1, <1>2, <1>3
<1>5. UniqueUids(pending \cup {ev})
    BY <1>4 DEF UniqueUids, PendingOK
<1> QED BY <1>2, <1>4, <1>5 DEF ev

\* An event that is as early as any other.
LEMMA EarliestStamp ==
    ASSUME NEW S \in SUBSET Keys, NEW e, Earliest(e, S)
    PROVE  \A x \in S : x.ts >= e.ts
<1> SUFFICES ASSUME NEW x \in S PROVE x.ts >= e.ts
    OBVIOUS
<1>1. x.ts \in Nat /\ e.ts \in Nat
    BY KeyFields DEF Earliest
<1>2. x = e \/ Less(e, x)
    BY DEF Earliest
<1> QED BY <1>1, <1>2 DEF Less

\* Whatever a step does for the engine keeps the pending events as they must be.
LEMMA PendingKept ==
    ASSUME QueueTypes, PendingOK, Adding \/ Firing \/ Dropping \/ Keeping
    PROVE  PendingOK' /\ uid' \in Nat /\ now' \in Nat /\ removed' \in Nat
           /\ heapRemoved' \in BOOLEAN
<1>1. /\ uid \in Nat /\ now \in Nat /\ removed \in Nat /\ heapRemoved \in BOOLEAN
    BY DEF QueueTypes
<1>2. /\ pending \in SUBSET Keys /\ IsFiniteSet(pending) /\ UniqueUids(pending)
      /\ \A e \in pending : e.uid \in Nat /\ e.uid <= uid
      /\ heapRemoved \/ \A e \in pending : e.ts >= now
    BY KeyFields DEF PendingOK
<1>3. CASE Adding
  <2>1. PICK delay \in Delays : pending' = pending \cup {NewEvent(delay)}
      BY <1>3 DEF Adding
  <2> DEFINE ev == NewEvent(delay)
  <2>2. /\ ev \in Keys /\ ev.uid = uid + 1 /\ ev.ts >= now /\ ev \notin pending
        /\ UniqueUids(pending \cup {ev})
      BY EventIsNew
  <2>3. /\ pending' = pending \cup {ev} /\ uid' = uid + 1 /\ now' = now
        /\ removed' = removed /\ heapRemoved' = heapRemoved
      BY <1>3, <2>1 DEF Adding
  <2> HIDE DEF ev
  <2>4. pending' \in SUBSET Keys /\ IsFiniteSet(pending') /\ UniqueUids(pending')
      BY <1>2, <2>2, <2>3, FS_AddElement
  <2>5. \A e \in pending' : e.uid <= uid'
      BY <1>1, <1>2, <2>2, <2>3
  <2>6. heapRemoved' \/ \A e \in pending' : e.ts >= now'
      BY <1>2, <2>2, <2>3
  <2> QED BY <1>1, <2>3, <2>4, <2>5, <2>6 DEF PendingOK
<1>4. ASSUME NEW e \in pending, pending' = pending \ {e}
      PROVE  pending' \in SUBSET Keys /\ IsFiniteSet(pending') /\ UniqueUids(pending')
    BY <1>2, <1>4, FS_RemoveElement DEF UniqueUids
<1>5. CASE Firing
  <2>1. PICK e \in pending : /\ heapRemoved \/ Earliest(e, pending)
                             /\ pending' = pending \ {e} /\ now' = e.ts
      BY <1>5 DEF Firing
  <2>2. uid' = uid /\ removed' = removed + 1 /\ heapRemoved' = heapRemoved
      BY <1>5 DEF Firing
  <2>3. now' \in Nat
      BY <1>2, <2>1, KeyFields
  <2>4. heapRemoved' \/ \A x \in pending' : x.ts >= now'
    <3>1. CASE heapRemoved
        BY <2>2, <3>1
    <3>2. CASE Earliest(e, pending)
        BY <1>2, <2>1, <3>2, EarliestStamp
    <3> QED BY <2>1, <3>1, <3>2
  <2>5. \A x \in pending' : x.uid <= uid'
      BY <1>2, <2>1, <2>2
  <2>6. pending' \in SUBSET Keys /\ IsFiniteSet(pending') /\ UniqueUids(pending')
      BY <1>4, <2>1
  <2> QED BY <1>1, <2>2, <2>3, <2>4, <2>5, <2>6 DEF PendingOK
<1>6. CASE Dropping
  <2>1. PICK e \in pending : pending' = pending \ {e}
      BY <1>6 DEF Dropping
  <2>2. uid' = uid /\ now' = now /\ removed' = removed
        /\ (heapRemoved' = heapRemoved \/ heapRemoved' = TRUE)
      BY <1>6 DEF Dropping
  <2>3. heapRemoved' \/ \A x \in pending' : x.ts >= now'
      BY <1>2, <2>1, <2>2
  <2>4. \A x \in pending' : x.uid <= uid'
      BY <1>2, <2>1, <2>2
  <2>5. pending' \in SUBSET Keys /\ IsFiniteSet(pending') /\ UniqueUids(pending')
      BY <1>4, <2>1
  <2>6. heapRemoved' \in BOOLEAN
      BY <1>1, <2>2
  <2> QED BY <1>1, <2>2, <2>3, <2>4, <2>5, <2>6 DEF PendingOK
<1>7. CASE Keeping
    BY <1>1, <1>2, <1>7 DEF Keeping, PendingOK
<1> QED BY <1>3, <1>5, <1>6, <1>7

-----------------------------------------------------------------------------
(* The steps of the list.                                                  *)

\* Insert at the place it looks for, RemoveNext and Remove on a sorted list.
LEMMA ListInsertAt ==
    ASSUME m_events \in Seq(Keys), ListSorted(m_events), NEW ev \in Keys,
           ev \notin Range(m_events), UniqueUids(Range(m_events) \cup {ev}),
           NEW i \in 1..(Len(m_events) + 1), InsertAt(ev, i)
    PROVE  /\ m_events' \in Seq(Keys) /\ ListSorted(m_events')
           /\ Range(m_events') = Range(m_events) \cup {ev}
<1>0. PICK r \in BOOLEAN : ~r
    OBVIOUS
<1>1. m_events' = InsertBefore(m_events, i, ev)
    BY DEF InsertAt
<1>2. Fits(r, m_events, i, ev)
    BY <1>0 DEF Fits, InsertAt, OrderBy
<1>3. SortedBy(r, m_events)
    BY <1>0, ListSortedBy
<1> DEFINE t == InsertBefore(m_events, i, ev)
<1>4. t \in Seq(Keys) /\ SortedBy(r, t) /\ Range(t) = Range(m_events) \cup {ev}
    BY <1>2, <1>3, SortedInsert
<1>5. ListSorted(t)
    BY <1>0, <1>4, ListSortedBy
<1> QED BY <1>1, <1>4, <1>5

\* Remove of the list: the other events stay, in order.
LEMMA ListErased ==
    ASSUME NEW s \in Seq(Keys), ListSorted(s), NEW i \in 1..Len(s)
    PROVE  LET t == Erase(s, i)
           IN  t \in Seq(Keys) /\ ListSorted(t) /\ Range(t) = Range(s) \ {s[i]}
<1>0. PICK r \in BOOLEAN : ~r
    OBVIOUS
<1> DEFINE t == Erase(s, i)
<1>1. SortedBy(r, s)
    BY <1>0, ListSortedBy
<1>2. t \in Seq(Keys) /\ SortedBy(r, t) /\ Range(t) = Range(s) \ {s[i]}
    BY <1>1, SortedErase
<1>3. ListSorted(t)
    BY <1>0, <1>2, ListSortedBy
<1> QED BY <1>2, <1>3

\* RemoveNext of the list: its head is the earliest event.
LEMMA ListHead ==
    ASSUME NEW s \in Seq(Keys), ListSorted(s), s # <<>>
    PROVE  /\ Earliest(Head(s), Range(s))
           /\ Tail(s) \in Seq(Keys) /\ ListSorted(Tail(s))
           /\ Range(Tail(s)) = Range(s) \ {Head(s)}
<1>0. PICK r \in BOOLEAN : ~r
    OBVIOUS
<1>1. Tail(s) = Erase(s, 1) /\ Head(s) = s[1] /\ 1 \in 1..Len(s)
    BY EndsErased
<1>2. SortedBy(r, s)
    BY <1>0, ListSortedBy
<1> DEFINE e == IF r THEN s[Len(s)] ELSE s[1]
<1>3. e \in Range(s) /\ \A x \in Range(s) : x = e \/ Less(e, x)
    BY <1>2, SortedNext
<1>4. e = Head(s)
    BY <1>0, <1>1
<1> HIDE DEF e
<1>5. Earliest(Head(s), Range(s))
    BY <1>3, <1>4 DEF Earliest
<1> DEFINE t == Erase(s, 1)
<1>6. t \in Seq(Keys) /\ ListSorted(t) /\ Range(t) = Range(s) \ {s[1]}
    BY <1>1, ListErased
<1> QED BY <1>1, <1>5, <1>6

\* The schedulers that are not in use stay as they are.
LEMMA OthersKept ==
    ASSUME QueueTypes, UNCHANGED type
    PROVE  /\ type # "ListScheduler" /\ ListOK /\ UNCHANGED m_events => ListOK'
           /\ type # "HeapScheduler" /\ HeapOK /\ UNCHANGED m_heap
              /\ heapRemoved' \in {heapRemoved, TRUE} => HeapOK'
           /\ type # "CalendarScheduler" /\ CalOK /\ UNCHANGED <<cal, m_reverse>> => CalOK'
<1>1. ASSUME type # "ListScheduler", ListOK, UNCHANGED m_events PROVE ListOK'
    BY <1>1 DEF ListOK, HeldBy
<1>2. ASSUME type # "HeapScheduler", HeapOK, UNCHANGED m_heap, heapRemoved' \in {heapRemoved, TRUE}
      PROVE  HeapOK'
  <2>1. Range(m_heap') = HeldBy("HeapScheduler")'
      BY <1>2 DEF HeapOK, HeldBy
  <2>2. heapRemoved' \/ Ordered(m_heap')
      BY <1>2 DEF HeapOK
  <2> QED BY <1>2, <2>1, <2>2 DEF HeapOK
<1>3. ASSUME type # "CalendarScheduler", CalOK, UNCHANGED <<cal, m_reverse>> PROVE CalOK'
  <2>1. HeldBy("CalendarScheduler") = {} /\ HeldBy("CalendarScheduler")' = {}
      BY <1>3 DEF HeldBy
  <2>2. CalendarOK(m_reverse, cal, {}) /\ cal.lastPrio = 0
      BY <1>3, <2>1 DEF CalOK
  <2> QED BY <1>3, <2>1, <2>2 DEF CalOK
<1> QED BY <1>1, <1>2, <1>3

\* A step with the list.
LEMMA ListKept ==
    ASSUME QueueInv, ListStep
    PROVE  /\ Adding \/ Firing \/ Dropping
           /\ ListOK' /\ HeapOK' /\ CalOK' /\ UNCHANGED <<type, m_reverse, changes>>
<1>1. QueueTypes /\ PendingOK /\ ListOK /\ HeapOK /\ CalOK
    BY DEF QueueInv
<1>2. /\ type = "ListScheduler" /\ UNCHANGED <<type, m_heap, cal, m_reverse, heapRemoved, changes>>
    BY DEF ListStep
<1>3. HeapOK' /\ CalOK'
  <2>1. UNCHANGED type /\ UNCHANGED m_heap /\ UNCHANGED <<cal, m_reverse>>
        /\ heapRemoved' \in {heapRemoved, TRUE}
      BY <1>2
  <2> QED BY <1>1, <1>2, <2>1, OthersKept
<1>4. /\ m_events \in Seq(Keys) /\ ListSorted(m_events) /\ Range(m_events) = pending
    BY <1>1, <1>2 DEF ListOK, HeldBy
<1>5. ASSUME m_events' \in Seq(Keys), ListSorted(m_events'), Range(m_events') = pending'
      PROVE  ListOK'
    BY <1>2, <1>5 DEF ListOK, HeldBy
<1>6. ASSUME NEW delay \in Delays, Insert(delay), Added([ts |-> now + delay, uid |-> uid + 1])
      PROVE  Adding /\ ListOK'
  <2> DEFINE ev == NewEvent(delay)
  <2>1. pending' = pending \cup {ev} /\ uid' = uid + 1 /\ UNCHANGED <<now, removed>>
      BY <1>6 DEF Added, NewEvent, Insert
  <2>2. PICK i \in 1..(Len(m_events) + 1) : InsertAt(ev, i)
      BY <1>6 DEF Insert, NewEvent
  <2>3. ev \in Keys /\ ev \notin pending /\ UniqueUids(pending \cup {ev})
      BY <1>1, EventIsNew
  <2>4. Adding
      BY <1>2, <2>1 DEF Adding
  <2> HIDE DEF ev
  <2>5. /\ m_events' \in Seq(Keys) /\ ListSorted(m_events')
        /\ Range(m_events') = Range(m_events) \cup {ev}
      BY <1>4, <2>2, <2>3, ListInsertAt
  <2> QED BY <1>4, <1>5, <2>1, <2>4, <2>5
<1>7. ASSUME RemoveNext, Taken(Head(m_events)) PROVE Firing /\ ListOK'
  <2> DEFINE e == Head(m_events)
  <2>1. /\ m_events # <<>> /\ now' = e.ts /\ m_events' = Tail(m_events)
        /\ removed' = removed + 1 /\ UNCHANGED uid /\ pending' = pending \ {e}
      BY <1>7 DEF RemoveNext, Taken
  <2>2. /\ Earliest(e, pending) /\ m_events' \in Seq(Keys) /\ ListSorted(m_events')
        /\ Range(m_events') = pending \ {e}
      BY <1>4, <2>1, ListHead
  <2> HIDE DEF e
  <2>3. Firing
    <3>1. e \in pending
        BY <2>2 DEF Earliest
    <3> QED BY <1>2, <2>1, <2>2, <3>1 DEF Firing
  <2> QED BY <1>5, <2>1, <2>2, <2>3
<1>8. ASSUME NEW ev \in pending, Remove(ev), Taken(ev) PROVE Dropping /\ ListOK'
  <2>1. PICK i \in 1..Len(m_events) : m_events[i].uid = ev.uid /\ m_events' = Erase(m_events, i)
      BY <1>4, <1>8 DEF Remove
  <2>2. m_events[i] = ev
    <3>1. m_events[i] \in pending
        BY <1>4 DEF Range
    <3> QED BY <1>1, <2>1, <3>1 DEF PendingOK, UniqueUids
  <2>3. /\ m_events' \in Seq(Keys) /\ ListSorted(m_events')
        /\ Range(m_events') = Range(m_events) \ {m_events[i]}
      BY <1>4, <2>1, ListErased
  <2>4. pending' = pending \ {ev} /\ UNCHANGED <<uid, now, removed>>
      BY <1>8 DEF Taken, Remove
  <2>5. Dropping
      BY <1>2, <2>4 DEF Dropping
  <2> QED BY <1>4, <1>5, <2>2, <2>3, <2>4, <2>5
<1>9. \/ \E delay \in Delays :
            Insert(delay) /\ Added([ts |-> now + delay, uid |-> uid + 1])
      \/ RemoveNext /\ Taken(Head(m_events))
      \/ \E ev \in pending : Remove(ev) /\ Taken(ev)
    BY DEF ListStep
<1> QED BY <1>2, <1>3, <1>6, <1>7, <1>8, <1>9

-----------------------------------------------------------------------------
(* The steps of the heap.                                                  *)

\* A step with the heap.
LEMMA HeapKept ==
    ASSUME QueueInv, HeapStep
    PROVE  /\ Adding \/ Firing \/ Dropping
           /\ ListOK' /\ HeapOK' /\ CalOK' /\ UNCHANGED <<type, m_reverse, changes>>
<1>1. QueueTypes /\ PendingOK /\ ListOK /\ HeapOK /\ CalOK
    BY DEF QueueInv
<1>2. /\ type = "HeapScheduler" /\ UNCHANGED <<m_events, type, cal, m_reverse, changes>>
    BY DEF HeapStep
<1>3. ListOK' /\ CalOK'
  <2>1. UNCHANGED type /\ UNCHANGED m_events /\ UNCHANGED <<cal, m_reverse>>
      BY <1>2
  <2> QED BY <1>1, <1>2, <2>1, OthersKept
<1>4. /\ m_heap \in Seq(Keys) /\ IsInjective(m_heap) /\ Range(m_heap) = pending
      /\ heapRemoved \/ Ordered(m_heap)
      /\ heapRemoved \in BOOLEAN /\ UniqueUids(pending)
    BY <1>1, <1>2 DEF HeapOK, HeldBy, QueueTypes, PendingOK
<1>5. ASSUME m_heap' \in Seq(Keys), IsInjective(m_heap'), Range(m_heap') = pending',
             heapRemoved' \/ Ordered(m_heap')
      PROVE  HeapOK'
    BY <1>2, <1>5 DEF HeapOK, HeldBy
<1>6. ASSUME UNCHANGED heapRemoved, NEW delay \in Delays, Heap!Insert(delay)
      PROVE  Adding /\ HeapOK'
  <2> DEFINE ev == NewEvent(delay)
  <2>1. /\ pending' = pending \cup {ev} /\ uid' = uid + 1 /\ UNCHANGED <<now, removed>>
        /\ m_heap' = Heap!Inserted(m_heap, ev)
      BY <1>6 DEF NewEvent, Heap!Insert
  <2>2. ev \in Keys /\ ev \notin pending /\ UniqueUids(pending \cup {ev})
      BY <1>1, EventIsNew
  <2>3. Adding
      BY <1>6, <2>1 DEF Adding
  <2> HIDE DEF ev
  <2>4. /\ m_heap' \in Seq(Keys) /\ IsInjective(m_heap') /\ Range(m_heap') = pending \cup {ev}
        /\ UniqueUids(Range(m_heap')) /\ Ordered(m_heap) => Ordered(m_heap')
      BY <1>4, <2>1, <2>2, HeapInserted
  <2>5. heapRemoved' \/ Ordered(m_heap')
      BY <1>4, <1>6, <2>2, <2>4
  <2> QED BY <1>5, <2>1, <2>3, <2>4, <2>5
<1>7. ASSUME UNCHANGED heapRemoved, Heap!RemoveNext PROVE Firing /\ HeapOK'
  <2> DEFINE e == m_heap[1]
  <2>1. /\ m_heap # <<>> /\ now' = e.ts /\ m_heap' = Heap!RootRemoved(m_heap)
        /\ removed' = removed + 1 /\ UNCHANGED uid /\ pending' = pending \ {e}
      BY <1>7 DEF Heap!RemoveNext, Heap!PeekNext, Heap!Root
  <2>2. e \in pending
      BY <1>4, <2>1 DEF Range
  <2>3. heapRemoved \/ Earliest(e, pending)
      BY <1>4, <2>1, <2>2, RootFirst DEF Earliest
  <2>4. /\ m_heap' \in Seq(Keys) /\ IsInjective(m_heap') /\ Range(m_heap') = pending \ {e}
        /\ UniqueUids(Range(m_heap)) /\ Ordered(m_heap) => Ordered(m_heap')
      BY <1>4, <2>1, HeapRootRemoved
  <2> HIDE DEF e
  <2>5. Firing
      BY <1>7, <2>1, <2>2, <2>3 DEF Firing
  <2>6. heapRemoved' \/ Ordered(m_heap')
      BY <1>4, <1>7, <2>4
  <2> QED BY <1>5, <2>1, <2>4, <2>5, <2>6
<1>8. ASSUME heapRemoved' = TRUE, NEW ev \in pending, Heap!Remove(ev) PROVE Dropping /\ HeapOK'
  <2>1. PICK i \in 1..Len(m_heap) : m_heap[i].uid = ev.uid /\ m_heap' = Heap!RemoveAt(m_heap, i)
      BY <1>4, <1>8 DEF Heap!Remove
  <2>2. m_heap[i] = ev
    <3>1. m_heap[i] \in pending
        BY <1>4 DEF Range
    <3> QED BY <1>4, <2>1, <3>1 DEF UniqueUids
  <2>3. /\ m_heap' \in Seq(Keys) /\ IsInjective(m_heap')
        /\ Range(m_heap') = Range(m_heap) \ {m_heap[i]}
      BY <1>4, <2>1, HeapRemoved
  <2>4. pending' = pending \ {ev} /\ UNCHANGED <<uid, now, removed>>
      BY <1>8 DEF Heap!Remove
  <2>5. Dropping
      BY <1>8, <2>4 DEF Dropping
  <2> QED BY <1>4, <1>5, <1>8, <2>2, <2>3, <2>4, <2>5
<1>9. \/ UNCHANGED heapRemoved /\ \E delay \in Delays : Heap!Insert(delay)
      \/ UNCHANGED heapRemoved /\ Heap!RemoveNext
      \/ heapRemoved' = TRUE /\ \E ev \in pending : Heap!Remove(ev)
    BY DEF HeapStep
<1> QED BY <1>2, <1>3, <1>6, <1>7, <1>8, <1>9

-----------------------------------------------------------------------------
(* The steps of the calendar.                                              *)

\* A step with the calendar.
LEMMA CalendarKept ==
    ASSUME QueueInv, CalendarStep
    PROVE  /\ Adding \/ Firing \/ Dropping
           /\ ListOK' /\ HeapOK' /\ CalOK' /\ UNCHANGED <<type, m_reverse, changes>>
<1>1. QueueTypes /\ PendingOK /\ ListOK /\ HeapOK /\ CalOK
    BY DEF QueueInv
<1>2. type = "CalendarScheduler" /\ UNCHANGED <<m_events, type, m_heap, heapRemoved, changes>>
    BY DEF CalendarStep
<1>3. ListOK' /\ HeapOK'
  <2>1. UNCHANGED type /\ UNCHANGED m_events /\ UNCHANGED m_heap
        /\ heapRemoved' \in {heapRemoved, TRUE}
      BY <1>2
  <2> QED BY <1>1, <1>2, <2>1, OthersKept
<1>4. /\ CalendarOK(m_reverse, cal, pending) /\ cal.lastPrio <= now /\ m_reverse \in BOOLEAN
      /\ uid \in Nat /\ now \in Nat /\ pending \in SUBSET Keys /\ UniqueUids(pending)
    BY <1>1, <1>2 DEF CalOK, HeldBy, QueueTypes, PendingOK
<1>5. CalendarType(cal) /\ cal.lastPrio \in Nat
    BY <1>4, CalendarFields DEF CalendarOK, Good
<1>6. ASSUME CalendarOK(m_reverse, cal', pending'), cal'.lastPrio <= now', UNCHANGED m_reverse
      PROVE  CalOK'
  <2>1. type' = "CalendarScheduler" /\ HeldBy("CalendarScheduler")' = pending'
      BY <1>2 DEF HeldBy
  <2> QED BY <1>6, <2>1 DEF CalOK
<1>7. ASSUME NEW delay \in Delays, Calendar!Insert(delay),
             Added([ts |-> now + delay, uid |-> uid + 1])
      PROVE  Adding /\ CalOK' /\ UNCHANGED m_reverse
  <2> DEFINE ev == NewEvent(delay)
  <2>1. /\ pending' = pending \cup {ev} /\ uid' = uid + 1 /\ UNCHANGED <<now, removed>>
        /\ cal' = Calendar!Inserted(cal, ev) /\ UNCHANGED m_reverse
      BY <1>7 DEF Added, NewEvent, Calendar!Insert
  <2>2. ev \in Keys /\ ev.ts >= now /\ ev \notin pending /\ UniqueUids(pending \cup {ev})
      BY <1>1, EventIsNew
  <2>3. Adding
      BY <1>2, <2>1 DEF Adding
  <2> HIDE DEF ev
  <2>4. ev.ts >= cal.lastPrio
    <3>1. ev.ts \in Nat
        BY <2>2, KeyFields
    <3> QED BY <1>4, <1>5, <2>2, <3>1
  <2> DEFINE g == Calendar!Inserted(cal, ev)
  <2>5. CalendarOK(m_reverse, g, pending \cup {ev}) /\ g.lastPrio = cal.lastPrio
      BY <1>4, <2>2, <2>4, CalendarInserted
  <2> HIDE DEF g
  <2>6. cal' = g
      BY <2>1 DEF g
  <2>7. cal'.lastPrio <= now'
      BY <1>4, <2>1, <2>5, <2>6
  <2>8. CalendarOK(m_reverse, cal', pending')
      BY <2>1, <2>5, <2>6
  <2> QED BY <1>6, <2>1, <2>3, <2>7, <2>8
<1>8. ASSUME Calendar!RemoveNext, Taken(Calendar!PeekNext(cal))
      PROVE  Firing /\ CalOK' /\ UNCHANGED m_reverse
  <2> DEFINE e == Calendar!PeekNext(cal)
             g == Calendar!NextRemoved(cal)
  <2>1. /\ cal.qSize > 0 /\ now' = e.ts /\ cal' = g /\ removed' = removed + 1
        /\ UNCHANGED uid /\ UNCHANGED m_reverse /\ pending' = pending \ {e}
      BY <1>8 DEF Calendar!RemoveNext, Taken
  <2>2. pending # {}
    <3>1. cal.qSize = Cardinality(pending)
        BY <1>4 DEF CalendarOK
    <3> QED BY <2>1, <3>1, FS_EmptySet
  <2>3. Earliest(e, pending) /\ CalendarOK(m_reverse, g, pending \ {e}) /\ g.lastPrio = e.ts
      BY <1>4, <2>2, CalendarNextRemoved
  <2> HIDE DEF e, g
  <2>4. e \in pending
      BY <2>3 DEF Earliest
  <2>5. Firing
      BY <1>2, <2>1, <2>3, <2>4 DEF Firing
  <2>6. cal'.lastPrio <= now'
    <3>1. e.ts \in Nat
        BY <1>4, <2>4, KeyFields
    <3> QED BY <2>1, <2>3, <3>1
  <2>7. CalendarOK(m_reverse, cal', pending')
      BY <2>1, <2>3
  <2> QED BY <1>6, <2>1, <2>5, <2>6, <2>7
<1>9. ASSUME NEW ev \in pending, Calendar!Remove(ev), Taken(ev)
      PROVE  Dropping /\ CalOK' /\ UNCHANGED m_reverse
  <2> DEFINE b == Calendar!Hash(cal, ev.ts)
             s == cal.buckets[b]
  <2>1. b \in 0..(cal.nBuckets - 1)
      BY <1>4, <1>5, KeyFields, HashRange
  <2>2. PICK i \in DOMAIN s : s[i].uid = ev.uid /\ cal' = Calendar!RemoveAt(cal, b, i)
      BY <1>9 DEF Calendar!Remove
  <2>3. pending' = pending \ {ev} /\ UNCHANGED <<uid, now, removed>> /\ UNCHANGED m_reverse
      BY <1>9 DEF Taken, Calendar!Remove
  <2> HIDE DEF b
  <2> DEFINE g == Calendar!RemoveAt(cal, b, i)
  <2>4. /\ s[i] \in pending /\ CalendarOK(m_reverse, g, pending \ {s[i]})
        /\ g.lastPrio = cal.lastPrio
      BY <1>4, <2>1, CalendarRemoved
  <2>5. s[i] = ev
      BY <1>4, <2>2, <2>4 DEF UniqueUids
  <2> HIDE DEF g, s
  <2>6. cal' = g
      BY <2>2 DEF g, s
  <2>7. cal'.lastPrio <= now' /\ CalendarOK(m_reverse, cal', pending')
      BY <1>4, <2>3, <2>4, <2>5, <2>6
  <2>8. Dropping
      BY <1>2, <2>3 DEF Dropping
  <2> QED BY <1>6, <2>3, <2>7, <2>8
<1>10. \/ \E delay \in Delays :
             Calendar!Insert(delay) /\ Added([ts |-> now + delay, uid |-> uid + 1])
       \/ Calendar!RemoveNext /\ Taken(Calendar!PeekNext(cal))
       \/ \E ev \in pending : Calendar!Remove(ev) /\ Taken(ev)
    BY DEF CalendarStep
<1> QED BY <1>2, <1>3, <1>7, <1>8, <1>9, <1>10

-----------------------------------------------------------------------------
(* SetScheduler.                                                           *)

\* The scheduler that is replaced gives all the pending events.
LEMMA DrainedAll ==
    ASSUME QueueInv PROVE Lists(Drained, pending)
<1>1. QueueTypes /\ PendingOK /\ ListOK /\ HeapOK /\ CalOK
    BY DEF QueueInv
<1>2. CASE type = "ListScheduler"
  <2>1. m_events \in Seq(Keys) /\ ListSorted(m_events) /\ Range(m_events) = pending
      BY <1>1, <1>2 DEF ListOK, HeldBy
  <2>2. PICK r \in BOOLEAN : ~r
      OBVIOUS
  <2>3. SortedBy(r, m_events)
      BY <2>1, <2>2, ListSortedBy
  <2>4. IsInjective(m_events)
      BY <2>1, <2>3, SortedDistinct
  <2>5. Drained = m_events
      BY <1>2 DEF Drained
  <2> QED BY <2>1, <2>4, <2>5 DEF Lists
<1>3. CASE type = "HeapScheduler"
  <2>1. m_heap \in Seq(Keys) /\ IsInjective(m_heap) /\ Range(m_heap) = pending
      BY <1>1, <1>3 DEF HeapOK, HeldBy
  <2>2. Drained = HeapDrained(m_heap)
      BY <1>3 DEF Drained
  <2> QED BY <2>1, <2>2, HeapEmptied
<1>4. CASE type = "CalendarScheduler"
  <2>1. CalendarOK(m_reverse, cal, pending) /\ m_reverse \in BOOLEAN
      BY <1>1, <1>4 DEF CalOK, HeldBy, QueueTypes
  <2>2. Drained = CalendarDrained(cal)
      BY <1>4 DEF Drained
  <2> QED BY <2>1, <2>2, CalendarEmptied
<1> QED BY <1>1, <1>2, <1>3, <1>4 DEF QueueTypes, Types

\* The new scheduler gets all of them, and the others are empty.
LEMMA SchedulerSet ==
    ASSUME QueueInv, NEW new \in Types, SetScheduler(new)
    PROVE  /\ Keeping /\ ListOK' /\ HeapOK' /\ CalOK'
           /\ type' \in Types /\ UNCHANGED m_reverse /\ changes' \in Nat
<1> DEFINE d == Drained
           l == ListFilling(d)[Len(d)]
           h == HeapFilling(d)[Len(d)]
           c == CalendarFilling(d)[Len(d)]
<1>1. QueueTypes /\ PendingOK /\ ListOK /\ HeapOK /\ CalOK
    BY DEF QueueInv
<1>2. /\ type' = new /\ changes' = changes + 1
      /\ m_events' = IF new = "ListScheduler" THEN l ELSE <<>>
      /\ m_heap' = IF new = "HeapScheduler" THEN h ELSE <<>>
      /\ cal' = IF new = "CalendarScheduler" THEN c ELSE Calendar!NewCalendar
      /\ UNCHANGED <<uid, now, removed, m_reverse, pending, heapRemoved>>
    BY DEF SetScheduler
<1>3. /\ Lists(d, pending) /\ UniqueUids(pending) /\ m_reverse \in BOOLEAN
      /\ now \in Nat /\ changes \in Nat
    BY <1>1, DrainedAll DEF PendingOK, QueueTypes
<1>4. l \in Seq(Keys) /\ ListSorted(l) /\ Range(l) = pending
    BY <1>3, ListFilled
<1>5. h \in Seq(Keys) /\ IsInjective(h) /\ Range(h) = pending /\ Ordered(h)
    BY <1>3, HeapFilled
<1>6. CalendarOK(m_reverse, c, pending) /\ c.lastPrio = 0
    BY <1>3, CalendarFilled
<1>7. CalendarOK(m_reverse, Calendar!NewCalendar, {}) /\ Calendar!NewCalendar.lastPrio = 0
    BY <1>3, CalendarIsNew
<1>8. /\ <<>> \in Seq(Keys) /\ ListSorted(<<>>) /\ Range(<<>>) = {}
      /\ IsInjective(<<>>) /\ Ordered(<<>>)
    BY DEF ListSorted, Range, IsInjective, Ordered
<1> HIDE DEF d, l, h, c
<1>9. ListOK'
  <2>1. CASE new = "ListScheduler"
      BY <1>2, <1>4, <2>1 DEF ListOK, HeldBy
  <2>2. CASE new # "ListScheduler"
      BY <1>2, <1>8, <2>2 DEF ListOK, HeldBy
  <2> QED BY <2>1, <2>2
<1>10. HeapOK'
  <2>1. CASE new = "HeapScheduler"
      BY <1>2, <1>5, <2>1 DEF HeapOK, HeldBy
  <2>2. CASE new # "HeapScheduler"
      BY <1>2, <1>8, <2>2 DEF HeapOK, HeldBy
  <2> QED BY <2>1, <2>2
<1>11. CalOK'
  <2>1. CASE new = "CalendarScheduler"
    <3>1. cal' = c /\ HeldBy("CalendarScheduler")' = pending /\ m_reverse' = m_reverse
          /\ type' = "CalendarScheduler" /\ now' = now
        BY <1>2, <2>1 DEF HeldBy
    <3>2. c.lastPrio <= now
        BY <1>3, <1>6
    <3> QED BY <1>6, <3>1, <3>2 DEF CalOK
  <2>2. CASE new # "CalendarScheduler"
    <3>1. cal' = Calendar!NewCalendar /\ HeldBy("CalendarScheduler")' = {}
          /\ m_reverse' = m_reverse /\ type' # "CalendarScheduler"
        BY <1>2, <2>2 DEF HeldBy
    <3> QED BY <1>7, <3>1 DEF CalOK
  <2> QED BY <2>1, <2>2
<1>12. Keeping
    BY <1>2 DEF Keeping
<1> QED BY <1>2, <1>3, <1>9, <1>10, <1>11, <1>12

-----------------------------------------------------------------------------
(* The invariant of the event list is inductive.                           *)

\* Every step is one of four for the engine, and keeps the invariant.
LEMMA QueueStep ==
    ASSUME QueueInv, [QueueNext]_queueVars
    PROVE  QueueInv' /\ (Adding \/ Firing \/ Dropping \/ Keeping)
<1>1. QueueTypes /\ PendingOK /\ ListOK /\ HeapOK /\ CalOK
    BY DEF QueueInv
<1>2. /\ Adding \/ Firing \/ Dropping \/ Keeping
      /\ ListOK' /\ HeapOK' /\ CalOK'
      /\ type' \in Types /\ m_reverse' \in BOOLEAN /\ changes' \in Nat
  <2>1. type \in Types /\ m_reverse \in BOOLEAN /\ changes \in Nat
      BY <1>1 DEF QueueTypes
  <2>2. CASE ListStep
      BY <2>1, <2>2, ListKept
  <2>3. CASE HeapStep
      BY <2>1, <2>3, HeapKept
  <2>4. CASE CalendarStep
      BY <2>1, <2>4, CalendarKept
  <2>5. ASSUME NEW new \in Types, SetScheduler(new)
        PROVE  /\ Keeping /\ ListOK' /\ HeapOK' /\ CalOK'
               /\ type' \in Types /\ m_reverse' \in BOOLEAN /\ changes' \in Nat
      BY <2>1, <2>5, SchedulerSet
  <2>6. CASE UNCHANGED queueVars
    <3>1. /\ m_events' = m_events /\ uid' = uid /\ now' = now /\ removed' = removed
          /\ type' = type /\ m_heap' = m_heap /\ cal' = cal /\ m_reverse' = m_reverse
          /\ pending' = pending /\ heapRemoved' = heapRemoved /\ changes' = changes
        BY <2>6 DEF queueVars, vars
    <3>2. Keeping
        BY <3>1 DEF Keeping
    <3>3. ListOK' /\ HeapOK'
        BY <1>1, <3>1 DEF ListOK, HeapOK, HeldBy
    <3>4. CalOK'
        BY <1>1, <3>1 DEF CalOK, HeldBy
    <3> QED BY <2>1, <3>1, <3>2, <3>3, <3>4
  <2>7. \/ ListStep \/ HeapStep \/ CalendarStep \/ UNCHANGED queueVars
        \/ \E new \in Types : SetScheduler(new)
      BY DEF QueueNext
  <2> QED BY <2>2, <2>3, <2>4, <2>5, <2>6, <2>7
<1>3. PendingOK' /\ uid' \in Nat /\ now' \in Nat /\ removed' \in Nat /\ heapRemoved' \in BOOLEAN
    BY <1>1, <1>2, PendingKept
<1>4. QueueTypes'
    BY <1>2, <1>3 DEF QueueTypes
<1> QED BY <1>2, <1>3, <1>4 DEF QueueInv

\* An event list starts empty.
LEMMA QueueStarts ==
    ASSUME QueueInit PROVE QueueInv
<1>1. /\ m_events = <<>> /\ uid = 3 /\ now = 0 /\ removed = 0 /\ type \in Types
      /\ m_heap = <<>> /\ m_reverse \in BOOLEAN /\ cal = Calendar!NewCalendar
      /\ pending = {} /\ heapRemoved = FALSE /\ changes = 0
    BY DEF QueueInit, Init
<1>2. QueueTypes
    BY <1>1 DEF QueueTypes
<1>3. PendingOK
    BY <1>1, FS_EmptySet DEF PendingOK, UniqueUids
<1>4. \A t : HeldBy(t) = {}
    BY <1>1 DEF HeldBy
<1>5. ListOK
    BY <1>1, <1>4 DEF ListOK, ListSorted, Range
<1>6. HeapOK
    BY <1>1, <1>4 DEF HeapOK, IsInjective, Ordered, Range
<1>7. CalOK
  <2>1. CalendarOK(m_reverse, cal, {}) /\ cal.lastPrio = 0
      BY <1>1, CalendarIsNew
  <2>2. cal.lastPrio <= now
      BY <1>1, <2>1
  <2> QED BY <1>4, <2>1, <2>2 DEF CalOK
<1> QED BY <1>2, <1>3, <1>5, <1>6, <1>7 DEF QueueInv

\* Whatever is inserted, removed and moved between schedulers, the scheduler in
\* use holds the pending events in the form its operations rely on.
THEOREM QueueInvariant == QueueSpec => []QueueInv
<1>1. QueueInit => QueueInv
    BY QueueStarts
<1>2. QueueInv /\ [QueueNext]_queueVars => QueueInv'
    BY QueueStep
<1> QED BY <1>1, <1>2, PTL DEF QueueSpec

-----------------------------------------------------------------------------
(* No event is lost or duplicated.                                         *)

\* The scheduler in use has every pending event once.
LEMMA HeldAll ==
    ASSUME QueueInv PROVE Lists(Held, pending)
<1>1. QueueTypes /\ PendingOK /\ ListOK /\ HeapOK /\ CalOK
    BY DEF QueueInv
<1>2. CASE type = "ListScheduler"
  <2>1. Held = m_events /\ Drained = m_events
      BY <1>2 DEF Held, Drained
  <2> QED BY <2>1, DrainedAll
<1>3. CASE type = "HeapScheduler"
  <2>1. Held = m_heap
      BY <1>3 DEF Held
  <2> QED BY <1>1, <1>3, <2>1 DEF HeapOK, HeldBy, Lists
<1>4. CASE type = "CalendarScheduler"
  <2>1. CalendarOK(m_reverse, cal, pending) /\ m_reverse \in BOOLEAN
      BY <1>1, <1>4 DEF CalOK, HeldBy, QueueTypes
  <2>2. Lists(Calendar!AllEvents(cal), pending)
      BY <2>1, AllListed DEF CalendarOK, Good
  <2>3. Held = Calendar!AllEvents(cal)
      BY <1>4 DEF Held
  <2> QED BY <2>2, <2>3
<1> QED BY <1>1, <1>2, <1>3, <1>4 DEF QueueTypes, Types

\* Each pending event is held once.
LEMMA HeldCounted ==
    ASSUME QueueInv PROVE ContentsKept
<1>1. Held \in Seq(Keys) /\ IsInjective(Held) /\ Range(Held) = pending
    BY HeldAll DEF Lists
<1>2. Cardinality(Range(Held)) = Len(Held)
    BY <1>1, DistinctCount
<1> QED BY <1>1, <1>2 DEF ContentsKept

\* The exchanges in the heap, the resizings of the calendar and the transfers
\* of SetScheduler lose and duplicate no event, for any number of events, any
\* delays and any number of changes of the scheduler.
THEOREM QueueKeepsContents == QueueSpec => []ContentsKept
<1>1. QueueInv => ContentsKept
    BY HeldCounted
<1> QED BY <1>1, QueueInvariant, PTL

-----------------------------------------------------------------------------
(* What each scheduler takes for granted.                                  *)

\* The list is sorted and has nothing in the past.
LEMMA ListRight ==
    ASSUME QueueInv, ~heapRemoved PROVE SortedList
<1>1. QueueTypes /\ PendingOK /\ ListOK
    BY DEF QueueInv
<1>2. TypeOK
    BY <1>1 DEF QueueTypes, ListOK, TypeOK
<1>3. Range(m_events) \in SUBSET pending
    BY <1>1 DEF ListOK, HeldBy
<1>4. \A i \in DOMAIN m_events : m_events[i] \in pending
    BY <1>3 DEF Range
<1>5. \A i \in DOMAIN m_events : m_events[i].ts >= now /\ m_events[i].uid <= uid
    BY <1>1, <1>4 DEF PendingOK
<1>6. Sorted
    BY <1>1, <1>5 DEF Sorted, ListOK, ListSorted
<1> QED BY <1>2, <1>6 DEF SortedList

\* No event of the heap is less than its parent.
LEMMA HeapRight ==
    ASSUME QueueInv, ~heapRemoved PROVE Heap!HeapOrdered
<1>1. m_heap \in Seq(Keys) /\ Ordered(m_heap)
    BY DEF QueueInv, HeapOK
<1>2. DOMAIN m_heap = 1..Len(m_heap) /\ Len(m_heap) \in Nat
    BY <1>1
<1>3. \A i \in DOMAIN m_heap : i # 1 => Less(m_heap[i \div 2], m_heap[i])
    BY <1>1, <1>2 DEF Ordered
<1> QED BY <1>3, SameLess DEF Heap!HeapOrdered, Heap!Root, Heap!IsLessStrictly, Heap!Parent

\* The calendar is in order and its search finds the earliest event.
LEMMA CalendarRight ==
    ASSUME QueueInv
    PROVE  Calendar!CalendarInv /\ (type = "CalendarScheduler" => Calendar!PeekIsEarliest)
<1> DEFINE S == HeldBy("CalendarScheduler")
           d == Calendar!AllEvents(cal)
<1>1. /\ CalendarOK(m_reverse, cal, S) /\ m_reverse \in BOOLEAN
    BY DEF QueueInv, QueueTypes, CalOK
<1>2. /\ CalendarType(cal) /\ Shelved(m_reverse, cal) /\ Placed(cal) /\ Good(m_reverse, cal)
      /\ Contents(cal) = S /\ IsFiniteSet(S) /\ cal.qSize = Cardinality(S)
    BY <1>1 DEF CalendarOK, Good
<1>3. d \in Seq(Keys) /\ IsInjective(d) /\ Range(d) = S
    BY <1>1, <1>2, AllListed DEF Lists
<1>4. cal.qSize = Len(d)
    BY <1>2, <1>3, DistinctCount
<1> HIDE DEF S, d
<1>5. ASSUME NEW b \in DOMAIN cal.buckets
      PROVE  LET s == cal.buckets[b]
             IN  /\ \A i \in DOMAIN s : Calendar!Hash(cal, s[i].ts) = b /\ s[i].ts >= cal.lastPrio
                 /\ \A i, j \in DOMAIN s : i < j => Calendar!Order(s[i], s[j])
  <2> DEFINE s == cal.buckets[b]
  <2>1. b \in 0..(cal.nBuckets - 1)
      BY <1>2, CalendarFields
  <2>2. SortedBy(m_reverse, s) /\ \A e \in Range(s) : Calendar!Hash(cal, e.ts) = b
      BY <1>2, <2>1 DEF Shelved
  <2>3. Range(s) \in SUBSET Contents(cal)
      BY <1>2, <2>1, ContentsFacts
  <2>4. \A e \in Range(s) : e.ts >= cal.lastPrio
      BY <1>2, <2>3 DEF Placed
  <2> HIDE DEF s
  <2>5. \A i, j \in DOMAIN s : i < j => Calendar!Order(s[i], s[j])
      BY <2>2, SameOrder DEF SortedBy
  <2>6. \A i \in DOMAIN s : s[i] \in Range(s)
      BY DEF Range
  <2> QED BY <2>2, <2>4, <2>5, <2>6 DEF s
<1>6. Calendar!CalendarInv
    BY <1>2, <1>4, <1>5 DEF Calendar!CalendarInv, Placed, d
<1>7. Calendar!Pending = S
    BY <1>3 DEF Calendar!Pending, Calendar!Range, Range, d
<1>8. ASSUME cal.qSize > 0
      PROVE  /\ Calendar!PeekNext(cal) \in S
             /\ \A e \in S : e = Calendar!PeekNext(cal) \/ Calendar!Less(Calendar!PeekNext(cal), e)
  <2>1. S # {}
      BY <1>2, <1>8, FS_EmptySet
  <2> DEFINE e == Calendar!PeekNext(cal)
  <2>2. Earliest(e, S)
      BY <1>1, <2>1, CalendarNextRemoved
  <2> QED BY <2>2, SameLess DEF Earliest
<1>9. Calendar!PeekIsEarliest
    BY <1>7, <1>8 DEF Calendar!PeekIsEarliest
<1> QED BY <1>6, <1>9

\* The list stays sorted, the heap ordered until Remove damages it, and the
\* calendar's buckets and search position right; the event its two searches
\* find is the earliest.
THEOREM SchedulersStayRight == QueueSpec => []SchedulerInv
<1>1. QueueInv => SchedulerInv
    BY ListRight, HeapRight, CalendarRight DEF SchedulerInv
<1> QED BY <1>1, QueueInvariant, PTL

-----------------------------------------------------------------------------
(* The schedulers implement EventList.                                     *)

\* The item of the abstract event list that stands for an event.
Item(e) == [ts |-> e.ts, seq |-> e.uid]
Items(S) == {Item(e) : e \in S}

\* Taking out the earliest event takes out the item that is due first.
LEMMA EarliestIsDue ==
    ASSUME NEW S \in SUBSET Keys, UniqueUids(S), NEW e, Earliest(e, S)
    PROVE  /\ Item(e) \in Items(S) /\ Items(S \ {e}) = Items(S) \ {Item(e)}
           /\ \A x \in Items(S) \ {Item(e)} :
                 Item(e).ts < x.ts \/ (Item(e).ts = x.ts /\ Item(e).seq < x.seq)
<1>1. e \in S /\ \A f \in S : f = e \/ Less(e, f)
    BY DEF Earliest
<1>2. \A f \in S : Item(f) = Item(e) => f = e
  <2> SUFFICES ASSUME NEW f \in S, Item(f) = Item(e) PROVE f = e
      OBVIOUS
  <2>1. f.uid = e.uid
      BY DEF Item
  <2> QED BY <1>1, <2>1 DEF UniqueUids
<1>3. Items(S \ {e}) = Items(S) \ {Item(e)}
    BY <1>1, <1>2 DEF Items
<1>4. ASSUME NEW f \in S, f # e
      PROVE  Item(e).ts < Item(f).ts \/ (Item(e).ts = Item(f).ts /\ Item(e).seq < Item(f).seq)
    BY <1>1, <1>4 DEF Less, Item
<1> QED BY <1>1, <1>3, <1>4 DEF Items

\* Each step for the engine is a step of the abstract event list.
LEMMA QueueRefines ==
    ASSUME QueueInv, ContentsKept', Adding \/ Firing \/ Dropping \/ Keeping, ~heapRemoved
    PROVE  QueueOfEvents!Next \/ UNCHANGED QueueOfEvents!vars
<1> DEFINE A == {[ts |-> e.ts, seq |-> e.uid] : e \in Range(Held)}
<1>1. /\ uid \in Nat /\ now \in Nat /\ removed \in Nat /\ pending \in SUBSET Keys
      /\ UniqueUids(pending)
    BY DEF QueueInv, QueueTypes, PendingOK
<1>2. A = Items(pending) /\ A' = Items(pending')
  <2>1. Range(Held) = pending
      BY HeldAll DEF Lists
  <2>2. Range(Held') = pending'
      BY DEF ContentsKept
  <2> QED BY <2>1, <2>2 DEF Items, Item
<1> HIDE DEF A
<1>3. CASE Adding
  <2>1. PICK delay \in Delays : pending' = pending \cup {NewEvent(delay)}
      BY <1>3 DEF Adding
  <2> DEFINE ev == NewEvent(delay)
  <2>2. ev \in Keys /\ ev.uid = uid + 1 /\ ev.ts >= now
      BY EventIsNew DEF QueueInv
  <2>3. uid' = uid + 1 /\ now' = now /\ removed' = removed
      BY <1>3 DEF Adding
  <2> HIDE DEF ev
  <2>4. A' = A \cup {Item(ev)}
      BY <1>2, <2>1 DEF Items, ev
  <2>5. /\ Item(ev).ts >= now /\ uid < Item(ev).seq /\ Item(ev).seq <= uid'
        /\ uid' \in Nat /\ uid <= uid'
      BY <1>1, <2>2, <2>3 DEF Item
  <2>6. QueueOfEvents!Insert
      BY <2>3, <2>4, <2>5 DEF QueueOfEvents!Insert, A
  <2> QED BY <2>6 DEF QueueOfEvents!Next
<1>4. CASE Firing
  <2>1. PICK e \in pending : /\ Earliest(e, pending)
                             /\ pending' = pending \ {e} /\ now' = e.ts
      BY <1>4 DEF Firing
  <2>2. uid' = uid /\ removed' = removed + 1
      BY <1>4 DEF Firing
  <2>3. /\ Item(e) \in A /\ A' = A \ {Item(e)} /\ now' = Item(e).ts
        /\ \A x \in A \ {Item(e)} : QueueOfEvents!Before(Item(e), x)
    <3>1. /\ Item(e) \in Items(pending) /\ Items(pending \ {e}) = Items(pending) \ {Item(e)}
          /\ \A x \in Items(pending) \ {Item(e)} :
                Item(e).ts < x.ts \/ (Item(e).ts = x.ts /\ Item(e).seq < x.seq)
        BY <1>1, <2>1, EarliestIsDue
    <3>2. Item(e).ts = e.ts
        BY DEF Item
    <3> QED BY <1>2, <2>1, <3>1, <3>2 DEF QueueOfEvents!Before
  <2>4. QueueOfEvents!Fire
      BY <2>2, <2>3 DEF QueueOfEvents!Fire, A
  <2> QED BY <2>4 DEF QueueOfEvents!Next
<1>5. CASE Dropping
  <2>1. PICK e \in pending : pending' = pending \ {e}
      BY <1>5 DEF Dropping
  <2>2. uid' = uid /\ now' = now /\ removed' = removed
      BY <1>5 DEF Dropping
  <2>3. A' \subseteq A
      BY <1>2, <2>1 DEF Items
  <2>4. QueueOfEvents!Drop
      BY <2>2, <2>3 DEF QueueOfEvents!Drop, A
  <2> QED BY <2>4 DEF QueueOfEvents!Next
<1>6. CASE Keeping
  <2>1. A' = A /\ uid' = uid /\ now' = now /\ removed' = removed
      BY <1>2, <1>6 DEF Keeping
  <2> QED BY <2>1 DEF QueueOfEvents!vars, A
<1> QED BY <1>3, <1>4, <1>5, <1>6

\* The engine's event list is one, whatever scheduler it uses and however often
\* SetScheduler changes it: events come out by time stamp, first in first out
\* among equal time stamps, until Remove is called on a HeapScheduler.
THEOREM QueueIsEventList == QueueSpec => QueueImplementsEventList
<1>1. QueueInit => QueueOfEvents!Init
  <2> SUFFICES ASSUME QueueInit PROVE QueueOfEvents!Init
      OBVIOUS
  <2>1. now = 0 /\ uid = 3 /\ removed = 0 /\ pending = {}
      BY DEF QueueInit, Init
  <2>2. Range(Held) = pending
      BY QueueStarts, HeldAll DEF Lists
  <2>3. {[ts |-> e.ts, seq |-> e.uid] : e \in Range(Held)} = {}
      BY <2>1, <2>2
  <2> QED BY <2>1, <2>3 DEF QueueOfEvents!Init
<1>2. QueueInv /\ ContentsKept' /\ [QueueNext]_queueVars
      => [~heapRemoved => QueueOfEvents!Next \/ UNCHANGED QueueOfEvents!vars]_queueVars
    BY QueueStep, QueueRefines
<1> QED BY <1>1, <1>2, QueueInvariant, QueueKeepsContents, PTL DEF QueueSpec, QueueImplementsEventList

-----------------------------------------------------------------------------
(* The list on its own.                                                    *)

\* The uids in the list are different.
ListInv == SortedList /\ UniqueUids(Range(m_events))

\* Insert, RemoveNext and Remove on the list, as changes of its contents.
ListAdds ==
    /\ \E delay \in 0..MaxDelay : Range(m_events') = Range(m_events) \cup {NewEvent(delay)}
    /\ uid' = uid + 1
    /\ UNCHANGED <<now, removed>>

ListFires ==
    /\ \E e \in Range(m_events) :
          /\ Earliest(e, Range(m_events))
          /\ Range(m_events') = Range(m_events) \ {e}
          /\ now' = e.ts
    /\ removed' = removed + 1
    /\ UNCHANGED uid

ListDrops ==
    /\ Range(m_events') \in SUBSET Range(m_events)
    /\ UNCHANGED <<uid, now, removed>>

\* The steps of ListScheduler on its own keep the list sorted.
LEMMA ListAlone ==
    ASSUME ListInv, [Next]_vars
    PROVE  /\ m_events' \in Seq(Keys) /\ ListSorted(m_events')
           /\ ListAdds \/ ListFires \/ ListDrops
<1> DEFINE S == Range(m_events)
<1>1. /\ m_events \in Seq(Keys) /\ ListSorted(m_events) /\ uid \in Nat /\ now \in Nat
      /\ UniqueUids(S) /\ \A i \in DOMAIN m_events : m_events[i].uid <= uid
    BY DEF ListInv, SortedList, TypeOK, Sorted, ListSorted
<1>2. ASSUME NEW delay \in 0..MaxDelay, Insert(delay)
      PROVE  m_events' \in Seq(Keys) /\ ListSorted(m_events') /\ ListAdds
  <2> DEFINE ev == NewEvent(delay)
  <2>1. delay \in Nat
      BY ListAssumption
  <2>2. ev \in Keys /\ ev.uid = uid + 1
      BY <1>1, <2>1 DEF NewEvent, Keys
  <2>3. PICK i \in 1..(Len(m_events) + 1) : InsertAt(ev, i)
      BY <1>2 DEF Insert, NewEvent
  <2>4. \A e \in S : e.uid \in Nat /\ e.uid <= uid
      BY <1>1, KeyFields DEF Range
  <2>5. uid' = uid + 1 /\ UNCHANGED <<now, removed>>
      BY <1>2 DEF Insert
  <2> HIDE DEF ev, S
  <2>6. \A e \in S : e.uid # ev.uid
      BY <1>1, <2>2, <2>4
  <2>7. ev \notin S /\ UniqueUids(S \cup {ev})
      BY <1>1, <2>6 DEF UniqueUids
  <2>8. /\ m_events' \in Seq(Keys) /\ ListSorted(m_events') /\ Range(m_events') = S \cup {ev}
      BY <1>1, <2>2, <2>3, <2>7, ListInsertAt DEF S
  <2> QED BY <2>5, <2>8 DEF ListAdds, S, ev
<1>3. CASE RemoveNext
  <2> DEFINE e == Head(m_events)
  <2>1. /\ m_events # <<>> /\ now' = e.ts /\ m_events' = Tail(m_events)
        /\ removed' = removed + 1 /\ UNCHANGED uid
      BY <1>3 DEF RemoveNext
  <2>2. /\ Earliest(e, S) /\ m_events' \in Seq(Keys) /\ ListSorted(m_events')
        /\ Range(m_events') = S \ {e}
      BY <1>1, <2>1, ListHead
  <2> HIDE DEF e
  <2>3. e \in S
      BY <2>2 DEF Earliest
  <2>4. ListFires
      BY <2>1, <2>2, <2>3 DEF ListFires
  <2> QED BY <2>2, <2>4
<1>4. ASSUME NEW ev, Remove(ev)
      PROVE  m_events' \in Seq(Keys) /\ ListSorted(m_events') /\ ListDrops
  <2>1. PICK i \in 1..Len(m_events) : m_events' = Erase(m_events, i)
      BY <1>1, <1>4 DEF Remove
  <2>2. /\ m_events' \in Seq(Keys) /\ ListSorted(m_events')
        /\ Range(m_events') = S \ {m_events[i]}
      BY <1>1, <2>1, ListErased
  <2>3. UNCHANGED <<uid, now, removed>>
      BY <1>4 DEF Remove
  <2> QED BY <2>2, <2>3 DEF ListDrops
<1>5. CASE UNCHANGED vars
    BY <1>1, <1>5 DEF vars, ListDrops
<1> QED BY <1>2, <1>3, <1>4, <1>5 DEF Next

\* They keep the uids different and the events in the future.
LEMMA ListInvKept ==
    ASSUME ListInv, [Next]_vars PROVE ListInv'
<1> DEFINE S == Range(m_events)
           T == Range(m_events')
<1>1. /\ m_events \in Seq(Keys) /\ uid \in Nat /\ now \in Nat /\ removed \in Nat
      /\ UniqueUids(S) /\ \A i \in DOMAIN m_events : m_events[i].uid <= uid /\ m_events[i].ts >= now
    BY DEF ListInv, SortedList, TypeOK, Sorted
<1>2. \A e \in S : e \in Keys /\ e.uid \in Nat /\ e.uid <= uid /\ e.ts >= now
    BY <1>1, KeyFields DEF Range
<1>3. /\ m_events' \in Seq(Keys) /\ ListSorted(m_events')
      /\ ListAdds \/ ListFires \/ ListDrops
    BY ListAlone
<1>4. /\ \A e \in T : e.uid <= uid' /\ e.ts >= now'
      /\ UniqueUids(T) /\ uid' \in Nat /\ now' \in Nat /\ removed' \in Nat
  <2>1. CASE ListAdds
    <3>1. PICK delay \in 0..MaxDelay : T = S \cup {NewEvent(delay)}
        BY <2>1 DEF ListAdds
    <3>2. uid' = uid + 1 /\ now' = now /\ removed' = removed
        BY <2>1 DEF ListAdds
    <3> DEFINE ev == NewEvent(delay)
    <3>3. ev.uid = uid + 1 /\ ev.ts >= now
      <4>1. delay \in Nat
          BY ListAssumption
      <4> QED BY <1>1, <4>1 DEF NewEvent
    <3>4. T = S \cup {ev}
        BY <3>1
    <3> HIDE DEF ev, S, T
    <3>5. \A e \in S : e.uid # ev.uid
        BY <1>1, <1>2, <3>3
    <3>6. UniqueUids(T)
        BY <1>1, <3>4, <3>5 DEF UniqueUids
    <3>7. \A e \in T : e.uid <= uid' /\ e.ts >= now'
        BY <1>1, <1>2, <3>2, <3>3, <3>4
    <3> QED BY <1>1, <3>2, <3>6, <3>7
  <2>2. CASE ListFires
    <3>1. PICK e \in S : Earliest(e, S) /\ T = S \ {e} /\ now' = e.ts
        BY <2>2 DEF ListFires
    <3>2. uid' = uid /\ removed' = removed + 1
        BY <2>2 DEF ListFires
    <3>3. S \in SUBSET Keys
        BY <1>2
    <3> HIDE DEF S, T
    <3>4. \A x \in S : x.ts >= e.ts
        BY <3>1, <3>3, EarliestStamp
    <3>5. now' \in Nat
        BY <1>2, <3>1, KeyFields
    <3>6. UniqueUids(T)
        BY <1>1, <3>1 DEF UniqueUids
    <3> QED BY <1>1, <1>2, <3>1, <3>2, <3>4, <3>5, <3>6
  <2>3. CASE ListDrops
    <3>1. T \in SUBSET S /\ uid' = uid /\ now' = now /\ removed' = removed
        BY <2>3 DEF ListDrops
    <3> HIDE DEF S, T
    <3> QED BY <1>1, <1>2, <3>1 DEF UniqueUids
  <2> QED BY <1>3, <2>1, <2>2, <2>3
<1>5. \A i \in DOMAIN m_events' : m_events'[i] \in T
    BY DEF Range
<1>6. TypeOK' /\ Sorted'
    BY <1>3, <1>4, <1>5 DEF TypeOK, Sorted, ListSorted
<1> QED BY <1>4, <1>6 DEF ListInv, SortedList

\* The list alone has its invariant.
LEMMA ListInvariant == Spec => []ListInv
<1>1. Init => ListInv
    BY DEF Init, ListInv, SortedList, TypeOK, Sorted, UniqueUids, Range
<1>2. ListInv /\ [Next]_vars => ListInv'
    BY ListInvKept
<1> QED BY <1>1, <1>2, PTL DEF Spec

\* The list is sorted in every reachable state: Insert may stop at the first
\* greater key, RemoveNext may look at the front only.
THEOREM ListStaysSorted == Spec => []SortedList
<1>1. ListInv => SortedList
    BY DEF ListInv
<1> QED BY <1>1, ListInvariant, PTL

\* They are steps of the abstract event list.
LEMMA ListRefines ==
    ASSUME ListInv, [Next]_vars
    PROVE  ListOfEvents!Next \/ UNCHANGED ListOfEvents!vars
<1> DEFINE S == Range(m_events)
           A == {[ts |-> e.ts, seq |-> e.uid] : e \in S}
<1>1. A = Items(S) /\ A' = Items(S')
    BY DEF Items, Item
<1>2. m_events \in Seq(Keys) /\ uid \in Nat /\ now \in Nat /\ removed \in Nat /\ UniqueUids(S)
    BY DEF ListInv, SortedList, TypeOK
<1>3. S \in SUBSET Keys
    BY <1>2 DEF Range
<1>4. S' = Range(m_events')
    OBVIOUS
<1>5. ListAdds \/ ListFires \/ ListDrops
    BY ListAlone
<1> HIDE DEF A
<1>6. CASE ListAdds
  <2>1. PICK delay \in 0..MaxDelay : S' = S \cup {NewEvent(delay)}
      BY <1>6 DEF ListAdds
  <2> DEFINE ev == NewEvent(delay)
  <2>2. uid' = uid + 1 /\ now' = now /\ removed' = removed
      BY <1>6 DEF ListAdds
  <2>3. ev.uid = uid + 1 /\ ev.ts >= now
    <3>1. delay \in Nat
        BY ListAssumption
    <3> QED BY <1>2, <3>1 DEF NewEvent
  <2> HIDE DEF ev, S
  <2>4. A' = A \cup {Item(ev)}
      BY <1>1, <2>1 DEF Items, ev
  <2>5. /\ Item(ev).ts >= now /\ uid < Item(ev).seq /\ Item(ev).seq <= uid'
        /\ uid' \in Nat /\ uid <= uid'
      BY <1>2, <2>2, <2>3 DEF Item
  <2>6. ListOfEvents!Insert
      BY <2>2, <2>4, <2>5 DEF ListOfEvents!Insert, A, S
  <2> QED BY <2>6 DEF ListOfEvents!Next
<1>7. CASE ListFires
  <2>1. PICK e \in S : Earliest(e, S) /\ S' = S \ {e} /\ now' = e.ts
      BY <1>7 DEF ListFires
  <2>2. uid' = uid /\ removed' = removed + 1
      BY <1>7 DEF ListFires
  <2> HIDE DEF S
  <2>3. /\ Item(e) \in A /\ A' = A \ {Item(e)} /\ now' = Item(e).ts
        /\ \A x \in A \ {Item(e)} : ListOfEvents!Before(Item(e), x)
    <3>1. /\ Item(e) \in Items(S) /\ Items(S \ {e}) = Items(S) \ {Item(e)}
          /\ \A x \in Items(S) \ {Item(e)} :
                Item(e).ts < x.ts \/ (Item(e).ts = x.ts /\ Item(e).seq < x.seq)
        BY <1>2, <1>3, <2>1, EarliestIsDue
    <3>2. Item(e).ts = e.ts
        BY DEF Item
    <3> QED BY <1>1, <2>1, <3>1, <3>2 DEF ListOfEvents!Before
  <2>4. ListOfEvents!Fire
      BY <2>2, <2>3 DEF ListOfEvents!Fire, A, S
  <2> QED BY <2>4 DEF ListOfEvents!Next
<1>8. CASE ListDrops
  <2>1. S' \subseteq S /\ uid' = uid /\ now' = now /\ removed' = removed
      BY <1>8 DEF ListDrops
  <2> HIDE DEF S
  <2>2. A' \subseteq A
      BY <1>1, <2>1 DEF Items
  <2>3. ListOfEvents!Drop
      BY <2>1, <2>2 DEF ListOfEvents!Drop, A, S
  <2> QED BY <2>3 DEF ListOfEvents!Next
<1> QED BY <1>5, <1>6, <1>7, <1>8

\* ListScheduler hands its events out by time stamp, first in first out among
\* equal time stamps, for any number of events, insertions and removals.
THEOREM ListImplementsEventList == Spec => ImplementsEventList
<1>1. Init => ListOfEvents!Init
    BY DEF Init, ListOfEvents!Init, Range
<1>2. ListInv /\ [Next]_vars => [ListOfEvents!Next]_ListOfEvents!vars
    BY ListRefines
<1> QED BY <1>1, <1>2, ListInvariant, PTL DEF Spec, ImplementsEventList, ListOfEvents!Spec
=============================================================================
