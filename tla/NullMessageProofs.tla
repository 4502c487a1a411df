------------------------- MODULE NullMessageProofs -------------------------
(***************************************************************************)
(* Proofs about the null message protocol, for any number of ranks, any    *)
(* delays, SchedulerTune, transmission times and bounds, and any topology  *)
(* that joins two ranks by at most one channel.  With two channels between *)
(* the same ranks the guarantees are not kept: see NullMessageTwoChannels. *)
(***************************************************************************)
EXTENDS NullMessage, DataFacts

\* No bundle has more than one channel.
OneChannelPerBundle == \A c, d \in Channels : Ends[c] = Ends[d] => c = d

-----------------------------------------------------------------------------
(* The topology.                                                           *)

\* A channel of s leads to a neighbour, and back.
LEMMA ChannelEnds ==
    ASSUME NEW s \in Ranks, NEW c \in ChannelsOf(s)
    PROVE  /\ c \in Channels /\ Peer(s, c) \in Ranks /\ Peer(s, c) # s
           /\ Ends[c] = {s, Peer(s, c)} /\ Peer(s, c) \in Neighbours(s)
           /\ c \in ChannelsOf(Peer(s, c)) /\ Peer(Peer(s, c), c) = s
           /\ s \in Neighbours(Peer(s, c))
<1>1. c \in Channels /\ s \in Ends[c]
    BY DEF ChannelsOf
<1>2. PICK r \in Ranks, q \in Ranks : r # q /\ Ends[c] = {r, q}
    BY <1>1, NullMessageAssumption
<1>3. Peer(s, c) \in Ends[c] /\ Peer(s, c) # s
    BY <1>1, <1>2 DEF Peer
<1>4. Ends[c] = {s, Peer(s, c)} /\ Peer(s, c) \in Ranks
    BY <1>1, <1>2, <1>3
<1>5. c \in ChannelsOf(Peer(s, c))
    BY <1>1, <1>3 DEF ChannelsOf
<1>6. Peer(Peer(s, c), c) = s
  <2> DEFINE p == Peer(s, c)
  <2>1. \A x \in Ends[c] : x # p <=> x = s
      BY <1>3, <1>4
  <2> HIDE DEF p
  <2>2. Peer(p, c) = s
      BY <1>1, <2>1 DEF Peer
  <2> QED BY <2>2 DEF p
<1> QED BY <1>1, <1>3, <1>4, <1>5, <1>6 DEF Neighbours

\* Neighbours are joined by a channel, in both directions.
LEMMA Joined ==
    ASSUME NEW s \in Ranks, NEW r \in Neighbours(s)
    PROVE  /\ r \in Ranks /\ r # s /\ s \in Neighbours(r)
           /\ \E c \in ChannelsOf(s) : r = Peer(s, c)
<1>1. PICK c \in ChannelsOf(s) : r = Peer(s, c)
    BY DEF Neighbours
<1> QED BY <1>1, ChannelEnds

\* The delay of a bundle is that of its only channel.
LEMMA OneDelay ==
    ASSUME OneChannelPerBundle, NEW s \in Ranks, NEW c \in ChannelsOf(s)
    PROVE  /\ BundleDelay(s, Peer(s, c)) = Delay[c] /\ Delay[c] \in Nat \ {0}
           /\ \A b \in ChannelsOf(s) : Peer(s, b) = Peer(s, c) => b = c
<1>1. c \in Channels /\ Ends[c] = {s, Peer(s, c)}
    BY ChannelEnds
<1>2. {x \in Channels : Ends[x] = {s, Peer(s, c)}} = {c}
    BY <1>1 DEF OneChannelPerBundle
<1>3. Delay[c] \in Nat \ {0}
    BY <1>1, NullMessageAssumption
<1>4. Min({Delay[c]}) = Delay[c]
    BY <1>3 DEF Min
<1>5. {Delay[x] : x \in {y \in Channels : Ends[y] = {s, Peer(s, c)}}} = {Delay[c]}
    BY <1>2
<1>6. BundleDelay(s, Peer(s, c)) = Delay[c]
    BY <1>4, <1>5 DEF BundleDelay
<1>7. ASSUME NEW b \in ChannelsOf(s), Peer(s, b) = Peer(s, c) PROVE b = c
  <2>1. b \in Channels /\ Ends[b] = {s, Peer(s, b)}
      BY ChannelEnds
  <2>2. Ends[b] = Ends[c]
      BY <1>1, <1>7, <2>1
  <2> QED BY <1>1, <2>1, <2>2 DEF OneChannelPerBundle
<1> QED BY <1>3, <1>6, <1>7

\* A percentage up to 100 of d, rounded, is at most d.
LEMMA Percentage ==
    ASSUME NEW p \in 1..100, NEW d \in Nat
    PROVE  (p * d + 50) \div 100 \in Nat /\ (p * d + 50) \div 100 <= d
<1>1. p * d \in Nat /\ p * d <= 100 * d
  <2>1. p * d \in Nat
      OBVIOUS
  <2>2. (100 - p) * d \in Nat /\ 100 * d = p * d + (100 - p) * d
      OBVIOUS
  <2> QED BY <2>1, <2>2
<1> DEFINE x == p * d
<1>2. x \in Nat /\ x <= 100 * d
    BY <1>1
<1> HIDE DEF x
<1>3. (x + 50) \div 100 \in Nat /\ (x + 50) \div 100 <= d
    BY <1>2
<1> QED BY <1>3 DEF x

\* Null messages are sent at least once in the delay of the bundle.
LEMMA Intervals ==
    ASSUME OneChannelPerBundle, NEW s \in Ranks, NEW r \in Neighbours(s)
    PROVE  /\ BundleDelay(s, r) \in Nat \ {0}
           /\ NullInterval(s, r) \in Nat /\ NullInterval(s, r) <= BundleDelay(s, r)
<1>1. PICK c \in ChannelsOf(s) : r = Peer(s, c)
    BY Joined
<1>2. BundleDelay(s, r) \in Nat \ {0}
    BY <1>1, OneDelay
<1>3. Tune \in 1..100
    BY NullMessageAssumption
<1> QED BY <1>2, <1>3, Percentage DEF NullInterval

-----------------------------------------------------------------------------
(* The event list of a rank.                                               *)

Kinds == {"app", "receive", "stop", "null", "cancelled", "complete"}

\* The events of the list of rank s.
OwnEvents(s) ==
    {e \in [ts : Nat, kind : Kinds, on : Ranks \cup Channels] :
        /\ e.kind = "null" => e.on \in Neighbours(s)
        /\ e.kind = "complete" => e.on \in ChannelsOf(s)}

Is(e, k, o) == e.kind = k /\ e.on = o
Those(list, k, o) == {e \in Range(list) : Is(e, k, o)}

Sorted(list) == \A i, j \in DOMAIN list : i < j => list[i].ts <= list[j].ts

\* At most one entry of the list is of kind k and on o.
AtMostOnce(list, k, o) ==
    \A i, j \in DOMAIN list : Is(list[i], k, o) /\ Is(list[j], k, o) => i = j

\* A list of rank s at time now: sorted, and nothing in it is late.
ListOf(s, list, now) ==
    /\ list \in Seq(OwnEvents(s)) /\ Sorted(list)
    /\ \A e \in Range(list) : now <= e.ts

\* The fields of an event in the list of a rank.
LEMMA EventFields ==
    ASSUME NEW s, NEW e \in OwnEvents(s)
    PROVE  /\ e.ts \in Nat /\ e.kind \in Kinds /\ e.on \in Ranks \cup Channels
           /\ e.kind = "null" => e.on \in Neighbours(s)
           /\ e.kind = "complete" => e.on \in ChannelsOf(s)
BY DEF OwnEvents

\* The entries of a list.
LEMMA EntriesOf ==
    ASSUME NEW S, NEW list \in Seq(S)
    PROVE  /\ DOMAIN list = 1..Len(list) /\ Len(list) \in Nat
           /\ \A i \in DOMAIN list : list[i] \in S /\ list[i] \in Range(list)
           /\ \A e \in Range(list) : e \in S /\ \E i \in DOMAIN list : e = list[i]
<1>1. DOMAIN list = 1..Len(list) /\ Len(list) \in Nat /\ \A i \in DOMAIN list : list[i] \in S
    OBVIOUS
<1>2. Range(list) = {list[i] : i \in DOMAIN list}
    BY DEF Range
<1>3. \A i \in DOMAIN list : list[i] \in Range(list)
    BY <1>2
<1>4. \A e \in Range(list) : e \in S /\ \E i \in DOMAIN list : e = list[i]
    BY <1>1, <1>2
<1> QED BY <1>1, <1>3, <1>4

\* The entries that are due up to t are the first ones of a sorted list.
LEMMA SortedPrefix ==
    ASSUME NEW s, NEW list \in Seq(OwnEvents(s)), Sorted(list), NEW t \in Nat
    PROVE  \E k \in 0..Len(list) : {i \in DOMAIN list : list[i].ts <= t} = 1..k
<1> DEFINE A == {i \in DOMAIN list : list[i].ts <= t}
<1>1. DOMAIN list = 1..Len(list) /\ Len(list) \in Nat
      /\ \A i \in DOMAIN list : list[i].ts \in Nat
    BY EntriesOf, EventFields
<1>2. CASE A = {}
  <2>1. 0 \in 0..Len(list) /\ 1..0 = {}
      BY <1>1
  <2> QED BY <1>2, <2>1
<1>3. CASE A # {}
  <2>1. A \in SUBSET Int /\ IsFiniteSet(A)
    <3>1. A \subseteq 1..Len(list)
        BY <1>1
    <3>2. IsFiniteSet(1..Len(list))
        BY <1>1, FS_Interval
    <3>3. IsFiniteSet(A)
        BY <3>1, <3>2, FS_Subset
    <3> QED BY <3>1, <3>3
  <2>2. PICK k \in A : \A y \in A : k >= y
      BY <1>3, <2>1, GreatestNumber
  <2>3. k \in 1..Len(list) /\ list[k].ts <= t
      BY <1>1, <2>2
  <2>4. ASSUME NEW i \in 1..k PROVE i \in A
    <3>1. i \in DOMAIN list /\ k \in DOMAIN list
        BY <1>1, <2>3
    <3>2. i = k \/ i < k
        BY <1>1, <2>3
    <3>3. list[i].ts <= list[k].ts
        BY <1>1, <3>1, <3>2 DEF Sorted
    <3> QED BY <1>1, <2>3, <3>1, <3>3
  <2>5. A = 1..k
    <3>1. \A y \in A : y \in 1..k
        BY <1>1, <2>2, <2>3
    <3> QED BY <2>4, <3>1
  <2> QED BY <1>1, <2>3, <2>5
<1> QED BY <1>2, <1>3

\* Insert puts the event behind those that are due at its time or before.
LEMMA InsertPlace ==
    ASSUME NEW s, NEW list \in Seq(OwnEvents(s)), Sorted(list), NEW e \in OwnEvents(s)
    PROVE  \E k \in 1..(Len(list) + 1) :
              /\ Insert(list, e) = InsertBefore(list, k, e)
              /\ \A i \in 1..(k - 1) : list[i].ts <= e.ts
              /\ \A i \in k..Len(list) : e.ts < list[i].ts
<1> DEFINE A == {i \in DOMAIN list : list[i].ts <= e.ts}
<1>1. DOMAIN list = 1..Len(list) /\ Len(list) \in Nat /\ e.ts \in Nat
      /\ \A i \in DOMAIN list : list[i].ts \in Nat
    BY EntriesOf, EventFields
<1>2. PICK k \in 0..Len(list) : A = 1..k
    BY <1>1, SortedPrefix
<1>3. Cardinality(A) = k
  <2>1. Cardinality(1..k) = IF 1 > k THEN 0 ELSE k - 1 + 1
      BY <1>1, FS_Interval
  <2>2. Cardinality(1..k) = k
      BY <1>1, <2>1
  <2> QED BY <1>2, <2>2
<1>4. Insert(list, e) = InsertBefore(list, k + 1, e)
    BY <1>3 DEF Insert
<1>5. k + 1 \in 1..(Len(list) + 1) /\ (k + 1) - 1 = k
    BY <1>1
<1>6. \A i \in 1..k : list[i].ts <= e.ts
    BY <1>2
<1>7. ASSUME NEW i \in (k + 1)..Len(list) PROVE e.ts < list[i].ts
  <2>1. i \in DOMAIN list /\ i \notin A
      BY <1>1, <1>2
  <2> QED BY <1>1, <2>1
<1> QED BY <1>4, <1>5, <1>6, <1>7

\* What Insert does to a list of rank s.
LEMMA InsertFacts ==
    ASSUME NEW s, NEW now \in Nat, NEW list, ListOf(s, list, now),
           NEW e \in OwnEvents(s), now <= e.ts
    PROVE  /\ ListOf(s, Insert(list, e), now)
           /\ Range(Insert(list, e)) = Range(list) \cup {e}
           /\ Insert(list, e) # <<>>
<1> DEFINE t == Insert(list, e)
<1>0. list \in Seq(OwnEvents(s)) /\ Sorted(list)
    BY DEF ListOf
<1>1. DOMAIN list = 1..Len(list) /\ Len(list) \in Nat /\ e.ts \in Nat
      /\ \A i \in DOMAIN list : list[i].ts \in Nat
    BY <1>0, EntriesOf, EventFields
<1>2. PICK k \in 1..(Len(list) + 1) :
          /\ t = InsertBefore(list, k, e)
          /\ \A i \in 1..(k - 1) : list[i].ts <= e.ts
          /\ \A i \in k..Len(list) : e.ts < list[i].ts
    BY <1>0, InsertPlace
<1>3. /\ t \in Seq(OwnEvents(s)) /\ Len(t) = Len(list) + 1
      /\ \A i \in 1..(Len(list) + 1) :
            t[i] = IF i < k THEN list[i] ELSE IF i = k THEN e ELSE list[i - 1]
  <2>1. /\ InsertBefore(list, k, e) \in Seq(OwnEvents(s))
        /\ Len(InsertBefore(list, k, e)) = Len(list) + 1
        /\ \A i \in 1..(Len(list) + 1) :
              InsertBefore(list, k, e)[i] =
                  IF i < k THEN list[i] ELSE IF i = k THEN e ELSE list[i - 1]
      BY <1>0, InsertEntry
  <2> HIDE DEF t
  <2> QED BY <1>2, <2>1
<1>4. Range(t) = Range(list) \cup {e}
    BY <1>0, <1>2, InsertRange
<1> HIDE DEF t
<1>5. Sorted(t)
  <2> SUFFICES ASSUME NEW i \in 1..(Len(list) + 1), NEW j \in 1..(Len(list) + 1), i < j
               PROVE  t[i].ts <= t[j].ts
      BY <1>3 DEF Sorted
  <2>1. k \in Nat /\ 1 <= k /\ k <= Len(list) + 1
      BY <1>1
  <2>2. \A a, b \in 1..Len(list) : a < b => list[a].ts <= list[b].ts
      BY <1>0, <1>1 DEF Sorted
  <2>3. CASE j < k
    <3>1. t[i] = list[i] /\ t[j] = list[j] /\ i \in 1..Len(list) /\ j \in 1..Len(list)
        BY <1>1, <1>3, <2>1, <2>3
    <3> QED BY <2>2, <3>1
  <2>4. CASE j = k
    <3>1. t[i] = list[i] /\ t[j] = e /\ i \in 1..(k - 1)
        BY <1>1, <1>3, <2>1, <2>4
    <3> QED BY <1>2, <3>1
  <2>5. CASE j > k /\ i < k
    <3>1. t[i] = list[i] /\ t[j] = list[j - 1] /\ i \in 1..(k - 1) /\ j - 1 \in k..Len(list)
        BY <1>1, <1>3, <2>1, <2>5
    <3>2. list[i].ts <= e.ts /\ e.ts < list[j - 1].ts
        BY <1>2, <3>1
    <3>3. list[i].ts \in Nat /\ list[j - 1].ts \in Nat
        BY <1>1, <2>1, <3>1
    <3> QED BY <1>1, <3>1, <3>2, <3>3
  <2>6. CASE j > k /\ i = k
    <3>1. t[i] = e /\ t[j] = list[j - 1] /\ j - 1 \in k..Len(list)
        BY <1>1, <1>3, <2>1, <2>6
    <3>2. e.ts < list[j - 1].ts /\ list[j - 1].ts \in Nat
        BY <1>1, <1>2, <2>1, <3>1
    <3> QED BY <1>1, <3>1, <3>2
  <2>7. CASE j > k /\ i > k
    <3>1. /\ t[i] = list[i - 1] /\ t[j] = list[j - 1]
          /\ i - 1 \in 1..Len(list) /\ j - 1 \in 1..Len(list) /\ i - 1 < j - 1
        BY <1>1, <1>3, <2>1, <2>7
    <3> QED BY <2>2, <3>1
  <2> QED BY <2>1, <2>3, <2>4, <2>5, <2>6, <2>7
<1>6. \A f \in Range(t) : now <= f.ts
    BY <1>4 DEF ListOf
<1>7. t # <<>>
    BY <1>1, <1>3
<1> QED BY <1>3, <1>4, <1>5, <1>6, <1>7 DEF ListOf, t

\* Insert keeps apart what is in the list once.
LEMMA InsertOnce ==
    ASSUME NEW s, NEW now \in Nat, NEW list, ListOf(s, list, now),
           NEW e \in OwnEvents(s), NEW kind, NEW on, AtMostOnce(list, kind, on),
           ~Is(e, kind, on) \/ Those(list, kind, on) = {}
    PROVE  AtMostOnce(Insert(list, e), kind, on)
<1> DEFINE t == Insert(list, e)
<1>0. list \in Seq(OwnEvents(s)) /\ Sorted(list)
    BY DEF ListOf
<1>1. DOMAIN list = 1..Len(list) /\ Len(list) \in Nat /\ \A i \in DOMAIN list : list[i] \in Range(list)
    BY <1>0, EntriesOf
<1>2. PICK k \in 1..(Len(list) + 1) : t = InsertBefore(list, k, e)
    BY <1>0, InsertPlace
<1>3. /\ t \in Seq(OwnEvents(s)) /\ Len(t) = Len(list) + 1
      /\ \A i \in 1..(Len(list) + 1) :
            t[i] = IF i < k THEN list[i] ELSE IF i = k THEN e ELSE list[i - 1]
  <2>1. /\ InsertBefore(list, k, e) \in Seq(OwnEvents(s))
        /\ Len(InsertBefore(list, k, e)) = Len(list) + 1
        /\ \A i \in 1..(Len(list) + 1) :
              InsertBefore(list, k, e)[i] =
                  IF i < k THEN list[i] ELSE IF i = k THEN e ELSE list[i - 1]
      BY <1>0, InsertEntry
  <2> HIDE DEF t
  <2> QED BY <1>2, <2>1
<1> HIDE DEF t
<1> SUFFICES ASSUME NEW i \in 1..(Len(list) + 1), NEW j \in 1..(Len(list) + 1),
                    Is(t[i], kind, on), Is(t[j], kind, on)
             PROVE  i = j
    BY <1>3 DEF AtMostOnce, t
<1> DEFINE g(n) == IF n < k THEN n ELSE n - 1
<1>4. \A n \in 1..(Len(list) + 1) : n # k => g(n) \in 1..Len(list) /\ t[n] = list[g(n)]
    BY <1>1, <1>3
<1>5. \A m, n \in 1..(Len(list) + 1) : m # k /\ n # k /\ g(m) = g(n) => m = n
    BY <1>1
<1>6. t[k] = e
    BY <1>1, <1>3
<1> HIDE DEF g
<1>7. CASE Is(e, kind, on)
  <2>1. \A n \in 1..Len(list) : ~Is(list[n], kind, on)
      BY <1>1, <1>7 DEF Those
  <2> QED BY <1>4, <2>1
<1>8. CASE ~Is(e, kind, on)
  <2>1. i # k /\ j # k
      BY <1>6, <1>8
  <2>2. g(i) = g(j)
      BY <1>1, <1>4, <2>1 DEF AtMostOnce
  <2> QED BY <1>5, <2>1, <2>2
<1> QED BY <1>7, <1>8

\* What taking the first event from a list of rank s does.
LEMMA TailFacts ==
    ASSUME NEW s, NEW now \in Nat, NEW list, ListOf(s, list, now), list # <<>>
    PROVE  /\ Head(list) \in OwnEvents(s) /\ Head(list) \in Range(list)
           /\ Head(list).ts = NextOf(list) /\ now <= NextOf(list)
           /\ ListOf(s, Tail(list), NextOf(list))
           /\ Range(list) = Range(Tail(list)) \cup {Head(list)}
           /\ \A e \in Range(list) : NextOf(list) <= e.ts
<1> DEFINE t == Tail(list)
<1>0. list \in Seq(OwnEvents(s)) /\ Sorted(list)
    BY DEF ListOf
<1>1. /\ DOMAIN list = 1..Len(list) /\ Len(list) \in Nat /\ Len(list) > 0
      /\ \A i \in DOMAIN list : list[i] \in Range(list) /\ list[i].ts \in Nat
      /\ \A e \in Range(list) : \E i \in DOMAIN list : e = list[i]
    BY <1>0, EntriesOf, EventFields, EmptySeq
<1>2. /\ t \in Seq(OwnEvents(s)) /\ Len(t) = Len(list) - 1 /\ DOMAIN t = 1..(Len(list) - 1)
      /\ \A i \in 1..(Len(list) - 1) : t[i] = list[i + 1]
      /\ Head(list) = list[1] /\ Head(list) \in OwnEvents(s)
    BY <1>0, <1>1, HeadTailProperties
<1> HIDE DEF t
<1>3. Head(list) \in Range(list) /\ Head(list).ts = NextOf(list)
    BY <1>1, <1>2 DEF NextOf
<1>4. ASSUME NEW e \in Range(list) PROVE NextOf(list) <= e.ts
  <2>1. PICK i \in DOMAIN list : e = list[i]
      BY <1>1
  <2>2. i = 1 \/ 1 < i
      BY <1>1
  <2> QED BY <1>0, <1>1, <2>1, <2>2 DEF Sorted, NextOf
<1>5. Range(list) = Range(t) \cup {Head(list)}
  <2>1. ASSUME NEW i \in DOMAIN t PROVE t[i] \in Range(list)
    <3>1. i + 1 \in DOMAIN list /\ t[i] = list[i + 1]
        BY <1>1, <1>2
    <3> QED BY <1>1, <3>1
  <2>2. Range(t) \subseteq Range(list)
      BY <1>2, <2>1, EntriesOf
  <2>3. ASSUME NEW i \in DOMAIN list PROVE list[i] \in Range(t) \cup {Head(list)}
    <3>1. CASE i = 1
        BY <1>2, <3>1
    <3>2. CASE i # 1
      <4>1. i - 1 \in DOMAIN t /\ list[i] = t[i - 1]
          BY <1>1, <1>2, <3>2
      <4> QED BY <1>2, <4>1, EntriesOf
    <3> QED BY <3>1, <3>2
  <2> QED BY <1>1, <1>3, <2>2, <2>3
<1>6. Sorted(t)
  <2> SUFFICES ASSUME NEW i \in DOMAIN t, NEW j \in DOMAIN t, i < j
               PROVE  t[i].ts <= t[j].ts
      BY DEF Sorted
  <2>1. i + 1 \in DOMAIN list /\ j + 1 \in DOMAIN list /\ i + 1 < j + 1
      BY <1>1, <1>2
  <2> QED BY <1>0, <1>2, <2>1 DEF Sorted
<1>7. now <= NextOf(list)
    BY <1>3 DEF ListOf
<1> QED BY <1>2, <1>3, <1>4, <1>5, <1>6, <1>7 DEF ListOf, t

\* If the first event is the only one of its sort, none is left.
LEMMA TailOnce ==
    ASSUME NEW s, NEW now \in Nat, NEW list, ListOf(s, list, now), list # <<>>,
           NEW kind, NEW on, AtMostOnce(list, kind, on)
    PROVE  /\ AtMostOnce(Tail(list), kind, on)
           /\ Is(Head(list), kind, on) => Those(Tail(list), kind, on) = {}
<1> DEFINE t == Tail(list)
<1>0. list \in Seq(OwnEvents(s))
    BY DEF ListOf
<1>1. DOMAIN list = 1..Len(list) /\ Len(list) \in Nat /\ Len(list) > 0
    BY <1>0, EntriesOf, EmptySeq
<1>2. /\ t \in Seq(OwnEvents(s)) /\ DOMAIN t = 1..(Len(list) - 1)
      /\ \A i \in 1..(Len(list) - 1) : t[i] = list[i + 1] /\ i + 1 \in DOMAIN list
      /\ Head(list) = list[1] /\ 1 \in DOMAIN list
    BY <1>0, <1>1, HeadTailProperties
<1> HIDE DEF t
<1>3. AtMostOnce(t, kind, on)
  <2> SUFFICES ASSUME NEW i \in DOMAIN t, NEW j \in DOMAIN t,
                      Is(t[i], kind, on), Is(t[j], kind, on)
               PROVE  i = j
      BY DEF AtMostOnce
  <2>1. i + 1 = j + 1
      BY <1>2 DEF AtMostOnce
  <2> QED BY <1>2, <2>1
<1>4. ASSUME Is(Head(list), kind, on), NEW e \in Range(t) PROVE ~Is(e, kind, on)
  <2>1. PICK i \in DOMAIN t : e = t[i]
      BY <1>2, EntriesOf
  <2>2. i + 1 # 1 /\ e = list[i + 1] /\ i + 1 \in DOMAIN list
      BY <1>2, <2>1
  <2> QED BY <1>2, <1>4, <2>2 DEF AtMostOnce
<1> QED BY <1>3, <1>4 DEF Those, t

\* Cancelling the null message event of bundle q changes its kind, and that only.
LEMMA CancelFacts ==
    ASSUME NEW s, NEW now \in Nat, NEW list, ListOf(s, list, now), NEW q
    PROVE  /\ ListOf(s, Cancel(list, q), now)
           /\ \A e \in Range(Cancel(list, q)) : ~Is(e, "null", q)
           /\ \A e \in Range(Cancel(list, q)) :
                 e \in Range(list) \/ (e.kind = "cancelled" /\ \E f \in Range(list) :
                                           Is(f, "null", q) /\ e.ts = f.ts)
           /\ \A e \in Range(list) : ~Is(e, "null", q) => e \in Range(Cancel(list, q))
<1> DEFINE t == Cancel(list, q)
<1>0. /\ list \in Seq(OwnEvents(s)) /\ Sorted(list)
      /\ \A e \in Range(list) : now <= e.ts
    BY DEF ListOf
<1>1. /\ DOMAIN list = 1..Len(list) /\ Len(list) \in Nat
      /\ \A i \in DOMAIN list : list[i] \in OwnEvents(s) /\ list[i] \in Range(list)
      /\ \A e \in Range(list) : \E i \in DOMAIN list : e = list[i]
    BY <1>0, EntriesOf
<1>2. /\ DOMAIN t = 1..Len(list)
      /\ \A i \in 1..Len(list) :
            t[i] = IF Is(list[i], "null", q) THEN [list[i] EXCEPT !.kind = "cancelled"] ELSE list[i]
    BY <1>1 DEF Cancel, Is
<1> HIDE DEF t
<1>3. ASSUME NEW i \in 1..Len(list)
      PROVE  /\ t[i] \in OwnEvents(s) /\ t[i].ts = list[i].ts /\ ~Is(t[i], "null", q)
             /\ Is(list[i], "null", q) => t[i].kind = "cancelled"
             /\ ~Is(list[i], "null", q) => t[i] = list[i]
  <2>1. list[i] \in OwnEvents(s)
      BY <1>1
  <2>2. CASE Is(list[i], "null", q)
    <3>1. t[i] = [list[i] EXCEPT !.kind = "cancelled"]
        BY <1>2, <2>2
    <3> QED BY <2>1, <2>2, <3>1 DEF OwnEvents, Kinds, Is
  <2>3. CASE ~Is(list[i], "null", q)
      BY <1>2, <2>1, <2>3
  <2> QED BY <2>2, <2>3
<1>4. t \in Seq(OwnEvents(s)) /\ Len(t) = Len(list)
  <2>1. t = [i \in 1..Len(list) |-> t[i]]
      BY DEF Cancel, t
  <2>2. [i \in 1..Len(list) |-> t[i]] \in Seq(OwnEvents(s))
      BY <1>1, <1>3
  <2> QED BY <1>1, <1>2, <2>1, <2>2
<1>5. \A e \in Range(t) : \E i \in 1..Len(list) : e = t[i]
    BY <1>2, <1>4, EntriesOf
<1>6. \A i \in 1..Len(list) : t[i] \in Range(t)
    BY <1>2, <1>4, EntriesOf
<1>7. Sorted(t)
    BY <1>0, <1>1, <1>2, <1>3 DEF Sorted
<1>8. ASSUME NEW e \in Range(t)
      PROVE  /\ now <= e.ts /\ ~Is(e, "null", q)
             /\ e \in Range(list) \/ (e.kind = "cancelled" /\ \E f \in Range(list) :
                                           Is(f, "null", q) /\ e.ts = f.ts)
  <2>1. PICK i \in 1..Len(list) : e = t[i]
      BY <1>5
  <2>2. list[i] \in Range(list) /\ now <= list[i].ts
      BY <1>0, <1>1
  <2> QED BY <1>3, <2>1, <2>2
<1>9. ASSUME NEW e \in Range(list), ~Is(e, "null", q) PROVE e \in Range(t)
  <2>1. PICK i \in 1..Len(list) : e = list[i]
      BY <1>1
  <2> QED BY <1>3, <1>6, <1>9, <2>1
<1> QED BY <1>4, <1>7, <1>8, <1>9 DEF ListOf, t

\* Cancelling events does not multiply those of another kind.
LEMMA CancelOnce ==
    ASSUME NEW s, NEW now \in Nat, NEW list, ListOf(s, list, now), NEW q,
           NEW kind, kind # "cancelled", NEW on, AtMostOnce(list, kind, on)
    PROVE  AtMostOnce(Cancel(list, q), kind, on)
<1> DEFINE t == Cancel(list, q)
<1>1. DOMAIN t = DOMAIN list
    BY DEF Cancel
<1>2. \A i \in DOMAIN list :
          t[i] = IF Is(list[i], "null", q) THEN [list[i] EXCEPT !.kind = "cancelled"] ELSE list[i]
    BY DEF Cancel, Is
<1>3. \A i \in DOMAIN list : list[i] \in OwnEvents(s)
    BY EntriesOf DEF ListOf
<1> HIDE DEF t
<1>4. ASSUME NEW i \in DOMAIN list, Is(t[i], kind, on) PROVE Is(list[i], kind, on)
  <2>1. CASE Is(list[i], "null", q)
    <3>1. t[i].kind = "cancelled"
        BY <1>2, <1>3, <2>1 DEF OwnEvents
    <3> QED BY <1>4, <3>1 DEF Is
  <2>2. CASE ~Is(list[i], "null", q)
      BY <1>2, <1>4, <2>2
  <2> QED BY <2>1, <2>2
<1> QED BY <1>1, <1>4 DEF AtMostOnce, t

-----------------------------------------------------------------------------
(* Guarantees.                                                             *)

\* min (Next (), m_safeTime) + delay is a guarantee that no event of the list
\* and nothing after the safe time breaks.
LEMMA GuaranteeFacts ==
    ASSUME NEW s, NEW now \in Nat, NEW list, ListOf(s, list, now), list # <<>>,
           NEW safe \in Nat, now <= safe, NEW d \in Nat
    PROVE  LET g == Min({NextOf(list), safe}) + d IN
           /\ g \in Nat /\ now + d <= g /\ g <= safe + d
           /\ \A e \in Range(list) : g <= e.ts + d
           /\ \A lg \in Nat : lg <= safe + d /\ (\A e \in Range(list) : lg <= e.ts + d) => lg <= g
<1> DEFINE m == Min({NextOf(list), safe})
<1>1. /\ Head(list) \in Range(list) /\ Head(list).ts = NextOf(list) /\ now <= NextOf(list)
      /\ NextOf(list) \in Nat
      /\ \A e \in Range(list) : NextOf(list) <= e.ts
    BY TailFacts, EventFields
<1>2. m \in {NextOf(list), safe} /\ m <= NextOf(list) /\ m <= safe
    BY <1>1 DEF Min
<1>3. \A e \in Range(list) : e.ts \in Nat
    BY EntriesOf, EventFields DEF ListOf
<1> HIDE DEF m
<1>4. m \in Nat /\ now <= m
    BY <1>1, <1>2
<1>5. \A e \in Range(list) : m + d <= e.ts + d
    BY <1>1, <1>2, <1>3, <1>4
<1>6. ASSUME NEW lg \in Nat, lg <= safe + d, \A e \in Range(list) : lg <= e.ts + d
      PROVE  lg <= m + d
  <2>1. lg <= NextOf(list) + d
      BY <1>1, <1>6
  <2> QED BY <1>2, <1>6, <2>1
<1>7. m + d \in Nat /\ now + d <= m + d /\ m + d <= safe + d
    BY <1>2, <1>4
<1> QED BY <1>5, <1>6, <1>7 DEF m

\* The promise of rank s over its channel c, when its event list is list, the
\* time now, the safe time safe, Run is at label, the device is tx and the
\* guarantee given last is lg.  There is one null message event, due before
\* the guarantee is used up.  A READY device may be used by any event of the
\* list and by the handler that runs, so that none of them may be more than the
\* delay before the guarantee; a BUSY one is used next when the transmission is
\* complete, and it is enough that the next null message is in time.
Calm(r, list, now, label, lg, d) ==
    /\ \A e \in Range(list) : Is(e, "null", r) \/ lg <= e.ts + d
    /\ label = "handler" => lg <= now + d

NullPart(s, r, list, now, label, lg) ==
    /\ AtMostOnce(list, "null", r)
    /\ label = "outside" => Those(list, "null", r) = {}
    /\ label \notin {"outside", "initialize"} => Those(list, "null", r) # {}
    /\ Those(list, "null", r) = {} => lg = 0
    /\ \A e \in Those(list, "null", r) : e.ts <= lg /\ e.ts <= now + NullInterval(s, r)

DevicePart(r, c, list, now, label, tx, lg, d) ==
    /\ tx \in {"READY", "BUSY"}
    /\ AtMostOnce(list, "complete", c)
    /\ tx = "READY" => /\ Those(list, "complete", c) = {}
                       /\ Calm(r, list, now, label, lg, d)
    /\ tx = "BUSY" => /\ Those(list, "complete", c) # {}
                      /\ \A e \in Those(list, "complete", c) : lg <= e.ts + d
                      /\ \/ Calm(r, list, now, label, lg, d)
                         \/ \A e \in Those(list, "null", r) : lg <= e.ts + d

Promise(s, c, list, now, safe, label, tx, lg) ==
    /\ NullPart(s, Peer(s, c), list, now, label, lg)
    /\ DevicePart(Peer(s, c), c, list, now, label, tx, lg, BundleDelay(s, Peer(s, c)))
    /\ lg <= safe + BundleDelay(s, Peer(s, c))

-----------------------------------------------------------------------------
(* What keeps a promise: operations on the list, one at a time.            *)

\* An event of no concern to the channel is inserted.
LEMMA InsertOther ==
    ASSUME NEW s, NEW c, NEW now \in Nat, NEW list, ListOf(s, list, now), NEW safe, NEW label,
           NEW tx, NEW lg \in Nat, Promise(s, c, list, now, safe, label, tx, lg),
           BundleDelay(s, Peer(s, c)) \in Nat,
           NEW e \in OwnEvents(s), now <= e.ts,
           ~Is(e, "null", Peer(s, c)), ~Is(e, "complete", c),
           label = "handler" \/ lg <= e.ts + BundleDelay(s, Peer(s, c))
    PROVE  Promise(s, c, Insert(list, e), now, safe, label, tx, lg)
<1> DEFINE r == Peer(s, c)
           d == BundleDelay(s, r)
           t == Insert(list, e)
<1>1. Range(t) = Range(list) \cup {e}
    BY InsertFacts
<1>2. Those(t, "null", r) = Those(list, "null", r) /\ Those(t, "complete", c) = Those(list, "complete", c)
  <2> HIDE DEF t, r
  <2> QED BY <1>1 DEF Those, r
<1>3. NullPart(s, r, list, now, label, lg) /\ DevicePart(r, c, list, now, label, tx, lg, d)
      /\ lg <= safe + d
    BY DEF Promise
<1>4. AtMostOnce(t, "null", r) /\ AtMostOnce(t, "complete", c)
    BY <1>3, InsertOnce DEF NullPart, DevicePart
<1>5. ASSUME Calm(r, list, now, label, lg, d) PROVE Calm(r, t, now, label, lg, d)
  <2>1. d \in Nat /\ e.ts \in Nat
      BY EventFields
  <2>2. label = "handler" => lg <= now + d
      BY <1>5 DEF Calm
  <2>3. lg <= e.ts + d
      BY <2>1, <2>2
  <2> HIDE DEF t, d, r
  <2> QED BY <1>1, <1>5, <2>3 DEF Calm
<1> HIDE DEF t, d, r
<1>6. NullPart(s, r, t, now, label, lg)
    BY <1>2, <1>3, <1>4 DEF NullPart
<1>7. DevicePart(r, c, t, now, label, tx, lg, d)
    BY <1>2, <1>3, <1>4, <1>5 DEF DevicePart
<1> QED BY <1>3, <1>6, <1>7 DEF Promise, t, d, r

\* The null message event of another bundle is cancelled.
LEMMA CancelOther ==
    ASSUME NEW s, NEW c, NEW now \in Nat, NEW list, ListOf(s, list, now), NEW safe, NEW label,
           NEW tx, NEW lg, Promise(s, c, list, now, safe, label, tx, lg),
           NEW q, q # Peer(s, c)
    PROVE  Promise(s, c, Cancel(list, q), now, safe, label, tx, lg)
<1> DEFINE r == Peer(s, c)
           d == BundleDelay(s, r)
           t == Cancel(list, q)
<1>1. /\ \A e \in Range(t) :
             e \in Range(list) \/ (e.kind = "cancelled" /\ \E f \in Range(list) :
                                      Is(f, "null", q) /\ e.ts = f.ts)
      /\ \A e \in Range(list) : ~Is(e, "null", q) => e \in Range(t)
    BY CancelFacts
<1>3. NullPart(s, r, list, now, label, lg) /\ DevicePart(r, c, list, now, label, tx, lg, d)
      /\ lg <= safe + d
    BY DEF Promise
<1>4. AtMostOnce(t, "null", r) /\ AtMostOnce(t, "complete", c)
    BY <1>3, CancelOnce DEF NullPart, DevicePart
<1> HIDE DEF t, d
<1>2. Those(t, "null", r) = Those(list, "null", r) /\ Those(t, "complete", c) = Those(list, "complete", c)
    BY <1>1 DEF Those, Is
<1> HIDE DEF r
<1>5. ASSUME Calm(r, list, now, label, lg, d) PROVE Calm(r, t, now, label, lg, d)
  <2>1. ASSUME NEW e \in Range(t) PROVE Is(e, "null", r) \/ lg <= e.ts + d
    <3>1. CASE e \in Range(list)
        BY <1>5, <3>1 DEF Calm
    <3>2. CASE e \notin Range(list)
      <4>1. PICK f \in Range(list) : Is(f, "null", q) /\ e.ts = f.ts
          BY <1>1, <3>2
      <4>2. ~Is(f, "null", r)
          BY <4>1 DEF Is, r
      <4> QED BY <1>5, <4>1, <4>2 DEF Calm
    <3> QED BY <3>1, <3>2
  <2> QED BY <1>5, <2>1 DEF Calm
<1>6. NullPart(s, r, t, now, label, lg)
    BY <1>2, <1>3, <1>4 DEF NullPart
<1>7. DevicePart(r, c, t, now, label, tx, lg, d)
    BY <1>2, <1>3, <1>4, <1>5 DEF DevicePart
<1> QED BY <1>3, <1>6, <1>7 DEF Promise, t, d, r

\* An event of no concern to the channel is executed.
LEMMA HeadOther ==
    ASSUME NEW s, NEW c, NEW now \in Nat, NEW list, ListOf(s, list, now), list # <<>>,
           NEW safe, NEW label, label \notin {"outside", "initialize"},
           NEW tx, NEW lg, Promise(s, c, list, now, safe, label, tx, lg),
           NullInterval(s, Peer(s, c)) \in Nat,
           ~Is(Head(list), "null", Peer(s, c)), ~Is(Head(list), "complete", c)
    PROVE  Promise(s, c, Tail(list), NextOf(list), safe, "handler", tx, lg)
<1> DEFINE r == Peer(s, c)
           d == BundleDelay(s, r)
           t == Tail(list)
           h == Head(list)
           n == NextOf(list)
<1>1. /\ Range(list) = Range(t) \cup {h} /\ h \in Range(list) /\ h.ts = n /\ now <= n
      /\ n \in Nat
    BY TailFacts, EventFields
<1>3. NullPart(s, r, list, now, label, lg) /\ DevicePart(r, c, list, now, label, tx, lg, d)
      /\ lg <= safe + d
    BY DEF Promise
<1>4. AtMostOnce(t, "null", r) /\ AtMostOnce(t, "complete", c)
    BY <1>3, TailOnce DEF NullPart, DevicePart
<1> HIDE DEF t, d, h, n
<1>2. Those(t, "null", r) = Those(list, "null", r) /\ Those(t, "complete", c) = Those(list, "complete", c)
    BY <1>1 DEF Those, h
<1>5. ASSUME Calm(r, list, now, label, lg, d) PROVE Calm(r, t, n, "handler", lg, d)
  <2>1. lg <= n + d
      BY <1>1, <1>5 DEF Calm, h
  <2> QED BY <1>1, <1>5, <2>1 DEF Calm
<1>6. NullPart(s, r, t, n, "handler", lg)
  <2>1. \A e \in Those(list, "null", r) : e.ts \in Nat
      BY EntriesOf, EventFields DEF ListOf, Those
  <2>2. ASSUME NEW e \in Those(list, "null", r) PROVE e.ts <= lg /\ e.ts <= n + NullInterval(s, r)
      BY <1>1, <1>3, <2>1 DEF NullPart
  <2> QED BY <1>2, <1>3, <1>4, <2>2 DEF NullPart
<1> HIDE DEF r
<1>7. DevicePart(r, c, t, n, "handler", tx, lg, d)
    BY <1>2, <1>3, <1>4, <1>5 DEF DevicePart
<1> QED BY <1>3, <1>6, <1>7 DEF Promise, t, d, r, n

\* The safe time grows.
LEMMA SafeGrows ==
    ASSUME NEW s, NEW c, NEW list, NEW now, NEW safe \in Nat, NEW more \in Nat, safe <= more,
           NEW label, NEW tx, NEW lg \in Nat, BundleDelay(s, Peer(s, c)) \in Nat,
           Promise(s, c, list, now, safe, label, tx, lg)
    PROVE  Promise(s, c, list, now, more, label, tx, lg)
BY DEF Promise

\* Run goes on to another label.
LEMMA LabelChanges ==
    ASSUME NEW s, NEW c, NEW list, NEW now, NEW safe, NEW tx, NEW lg,
           NEW label, NEW to, to \notin {"outside", "handler"},
           to = "initialize" \/ Those(list, "null", Peer(s, c)) # {},
           Promise(s, c, list, now, safe, label, tx, lg)
    PROVE  Promise(s, c, list, now, safe, to, tx, lg)
<1> DEFINE r == Peer(s, c)
           d == BundleDelay(s, r)
<1>1. NullPart(s, r, list, now, label, lg) /\ DevicePart(r, c, list, now, label, tx, lg, d)
      /\ lg <= safe + d
    BY DEF Promise
<1>2. Calm(r, list, now, label, lg, d) => Calm(r, list, now, to, lg, d)
    BY DEF Calm
<1> HIDE DEF d
<1>3. NullPart(s, r, list, now, to, lg)
    BY <1>1 DEF NullPart
<1>4. DevicePart(r, c, list, now, to, tx, lg, d)
    BY <1>1, <1>2 DEF DevicePart
<1> QED BY <1>1, <1>3, <1>4 DEF Promise, d

\* Neighbours and delays as they are when rank s uses channel c.
LEMMA ChannelFacts ==
    ASSUME OneChannelPerBundle, NEW s \in Ranks, NEW c \in ChannelsOf(s)
    PROVE  /\ BundleDelay(s, Peer(s, c)) \in Nat /\ NullInterval(s, Peer(s, c)) \in Nat
           /\ NullInterval(s, Peer(s, c)) <= BundleDelay(s, Peer(s, c))
           /\ \A t \in Nat : /\ Event(t, "null", Peer(s, c)) \in OwnEvents(s)
                             /\ Event(t, "complete", c) \in OwnEvents(s)
<1>1. Peer(s, c) \in Neighbours(s) /\ Peer(s, c) \in Ranks /\ c \in Channels
    BY ChannelEnds
<1>2. \A t \in Nat : Event(t, "null", Peer(s, c)) \in OwnEvents(s) /\ Event(t, "complete", c) \in OwnEvents(s)
    BY <1>1 DEF OwnEvents, Event, Kinds
<1> QED BY <1>1, <1>2, Intervals

\* The null message event of the channel's bundle is executed: the guarantee
\* grows and the promise is renewed.
LEMMA NullOwn ==
    ASSUME OneChannelPerBundle, NEW s \in Ranks, NEW c \in ChannelsOf(s),
           NEW now \in Nat, NEW list, ListOf(s, list, now), list # <<>>,
           NEW safe \in Nat, NEW label, NEW tx, NEW lg \in Nat,
           Promise(s, c, list, now, safe, label, tx, lg),
           Is(Head(list), "null", Peer(s, c)), NextOf(list) <= safe, Tail(list) # <<>>,
           NEW g, g = Min({NextOf(Tail(list)), safe}) + BundleDelay(s, Peer(s, c)),
           NEW next, next = Insert(Tail(list), NullEvent(s, Peer(s, c), NextOf(list)))
    PROVE  /\ g \in Nat /\ lg <= g /\ ListOf(s, next, NextOf(list))
           /\ Promise(s, c, next, NextOf(list), safe, "poll", tx, g)
<1> DEFINE r == Peer(s, c)
           d == BundleDelay(s, r)
           rest == Tail(list)
           n == NextOf(list)
           e0 == NullEvent(s, r, n)
<1>1. /\ d \in Nat /\ NullInterval(s, r) \in Nat /\ NullInterval(s, r) <= d
      /\ \A t \in Nat : Event(t, "null", r) \in OwnEvents(s)
    BY ChannelFacts
<1>2. /\ Head(list) \in Range(list) /\ Head(list).ts = n /\ n \in Nat
      /\ ListOf(s, rest, n) /\ Range(list) = Range(rest) \cup {Head(list)}
      /\ \A e \in Range(list) : n <= e.ts
    BY TailFacts, EventFields
<1>3. NullPart(s, r, list, now, label, lg) /\ DevicePart(r, c, list, now, label, tx, lg, d)
      /\ lg <= safe + d
    BY DEF Promise
<1>4. Those(rest, "null", r) = {} /\ AtMostOnce(rest, "null", r) /\ AtMostOnce(rest, "complete", c)
    BY <1>3, TailOnce DEF NullPart, DevicePart
<1>5. e0 \in OwnEvents(s) /\ e0.ts = n + NullInterval(s, r) /\ Is(e0, "null", r) /\ ~Is(e0, "complete", c)
    BY <1>1, <1>2 DEF NullEvent, Event, Is
<1>6. /\ g \in Nat /\ n + d <= g /\ g <= safe + d
      /\ \A e \in Range(rest) : g <= e.ts + d
      /\ lg <= safe + d /\ (\A e \in Range(rest) : lg <= e.ts + d) => lg <= g
    BY <1>1, <1>2, GuaranteeFacts
<1> HIDE DEF d, rest, n, e0
<1>7. n <= e0.ts
    BY <1>1, <1>2, <1>5
<1>8. next = Insert(rest, e0)
    BY DEF rest, e0, n, r
<1>9. ListOf(s, next, n) /\ Range(next) = Range(rest) \cup {e0}
    BY <1>2, <1>5, <1>7, <1>8, InsertFacts
<1>10. AtMostOnce(next, "null", r) /\ AtMostOnce(next, "complete", c)
    BY <1>2, <1>4, <1>5, <1>8, InsertOnce
<1>11. \A e \in Range(rest) : e.ts \in Nat
    BY <1>2, EntriesOf, EventFields DEF ListOf
<1> HIDE DEF r
<1>12. ASSUME NEW e \in Range(rest) PROVE lg <= e.ts + d
  <2>1. ~Is(e, "null", r) /\ e \in Range(list)
      BY <1>2, <1>4 DEF Those
  <2>2. CASE Calm(r, list, now, label, lg, d)
      BY <2>1, <2>2 DEF Calm
  <2>3. CASE \A f \in Those(list, "null", r) : lg <= f.ts + d
    <3>1. lg <= n + d
        BY <1>2, <2>3 DEF Those, r
    <3> QED BY <1>1, <1>2, <1>11, <2>1, <3>1
  <2> QED BY <1>3, <2>2, <2>3 DEF DevicePart
<1>13. lg <= g
    BY <1>3, <1>6, <1>12
<1>14. Those(next, "null", r) = {e0}
    BY <1>4, <1>5, <1>9 DEF Those
<1>15. Those(next, "complete", c) = Those(list, "complete", c)
  <2>1. ~Is(Head(list), "complete", c)
      BY DEF Is
  <2> QED BY <1>2, <1>5, <1>9, <2>1 DEF Those
<1>16. NullPart(s, r, next, n, "poll", g)
  <2>1. e0.ts <= g /\ e0.ts <= n + NullInterval(s, r)
      BY <1>1, <1>2, <1>5, <1>6
  <2> QED BY <1>10, <1>14, <2>1 DEF NullPart
<1>17. Calm(r, next, n, "poll", g, d)
    BY <1>5, <1>6, <1>9 DEF Calm
<1>18. \A e \in Those(next, "complete", c) : g <= e.ts + d
    BY <1>5, <1>6, <1>9 DEF Those
<1>19. DevicePart(r, c, next, n, "poll", tx, g, d)
    BY <1>3, <1>10, <1>15, <1>17, <1>18 DEF DevicePart
<1> QED BY <1>6, <1>9, <1>13, <1>16, <1>19 DEF Promise, n, d, r

\* The device starts to transmit in a handler and is BUSY for some time: the
\* packet, which takes the delay at least, arrives after the guarantee given
\* last, and the promise is renewed.
LEMMA TransmitOwn ==
    ASSUME OneChannelPerBundle, NEW s \in Ranks, NEW c \in ChannelsOf(s),
           NEW now \in Nat, NEW list, ListOf(s, list, now),
           NEW safe \in Nat, now <= safe, NEW lg \in Nat, NEW busyTime \in Nat,
           Promise(s, c, list, now, safe, "handler", "READY", lg),
           NEW busy, busy = Insert(list, Event(now + busyTime, "complete", c)),
           NEW g, g = Min({NextOf(busy), safe}) + BundleDelay(s, Peer(s, c)),
           NEW next, next = RescheduleNullMessageEvent(s, Peer(s, c), now, busy)
    PROVE  /\ g \in Nat /\ lg <= g /\ lg <= now + BundleDelay(s, Peer(s, c))
           /\ ListOf(s, next, now)
           /\ Promise(s, c, next, now, safe, "handler", "BUSY", g)
<1> DEFINE r == Peer(s, c)
           d == BundleDelay(s, r)
           e1 == Event(now + busyTime, "complete", c)
           e2 == NullEvent(s, r, now)
           cut == Cancel(busy, r)
<1>1. /\ d \in Nat /\ NullInterval(s, r) \in Nat /\ NullInterval(s, r) <= d
      /\ \A t \in Nat : Event(t, "null", r) \in OwnEvents(s) /\ Event(t, "complete", c) \in OwnEvents(s)
    BY ChannelFacts
<1>2. /\ e1 \in OwnEvents(s) /\ e1.ts = now + busyTime /\ now <= e1.ts
      /\ Is(e1, "complete", c) /\ ~Is(e1, "null", r)
  <2>1. now + busyTime \in Nat /\ now <= now + busyTime
      OBVIOUS
  <2>2. e1 \in OwnEvents(s)
      BY <1>1, <2>1
  <2>3. e1.ts = now + busyTime /\ Is(e1, "complete", c) /\ ~Is(e1, "null", r)
      BY DEF Event, Is
  <2> QED BY <2>1, <2>2, <2>3
<1>3. /\ e2 \in OwnEvents(s) /\ e2.ts = now + NullInterval(s, r) /\ now <= e2.ts
      /\ Is(e2, "null", r) /\ ~Is(e2, "complete", c)
  <2>1. now + NullInterval(s, r) \in Nat /\ now <= now + NullInterval(s, r)
      BY <1>1
  <2>2. e2 \in OwnEvents(s)
      BY <1>1, <2>1 DEF NullEvent
  <2>3. e2.ts = now + NullInterval(s, r) /\ Is(e2, "null", r) /\ ~Is(e2, "complete", c)
      BY DEF NullEvent, Event, Is
  <2> QED BY <2>1, <2>2, <2>3
<1>4. NullPart(s, r, list, now, "handler", lg) /\ lg <= safe + d
      /\ DevicePart(r, c, list, now, "handler", "READY", lg, d)
    BY DEF Promise
<1> HIDE DEF e1, e2
<1>5. ListOf(s, busy, now) /\ Range(busy) = Range(list) \cup {e1} /\ busy # <<>>
    BY <1>2, InsertFacts DEF e1
<1>6. AtMostOnce(busy, "null", r) /\ AtMostOnce(busy, "complete", c)
    BY <1>2, <1>4, InsertOnce DEF NullPart, DevicePart, e1
<1>7. /\ ListOf(s, cut, now)
      /\ \A e \in Range(cut) : ~Is(e, "null", r)
      /\ \A e \in Range(cut) : e \in Range(busy) \/ e.kind = "cancelled"
      /\ \A e \in Range(busy) : ~Is(e, "null", r) => e \in Range(cut)
  <2>1. ListOf(s, busy, now)
      BY <1>5
  <2> HIDE DEF r
  <2>2. ListOf(s, Cancel(busy, r), now)
      BY <2>1, CancelFacts
  <2>3. \A e \in Range(Cancel(busy, r)) : ~Is(e, "null", r)
      BY <2>1, CancelFacts
  <2>4. \A e \in Range(Cancel(busy, r)) : e \in Range(busy) \/ e.kind = "cancelled"
      BY <2>1, CancelFacts
  <2>5. \A e \in Range(busy) : ~Is(e, "null", r) => e \in Range(Cancel(busy, r))
      BY <2>1, CancelFacts
  <2> QED BY <2>2, <2>3, <2>4, <2>5, Zenon DEF cut
<1>8. AtMostOnce(cut, "null", r) /\ AtMostOnce(cut, "complete", c)
    BY <1>5, <1>6, CancelOnce
<1>9. next = Insert(cut, e2)
    BY DEF RescheduleNullMessageEvent, e2
<1>10. /\ g \in Nat /\ now + d <= g /\ g <= safe + d
       /\ \A e \in Range(busy) : g <= e.ts + d
       /\ lg <= safe + d /\ (\A e \in Range(busy) : lg <= e.ts + d) => lg <= g
    BY <1>1, <1>5, GuaranteeFacts
<1> HIDE DEF cut, d
<1>11. ListOf(s, next, now) /\ Range(next) = Range(cut) \cup {e2}
  <2>1. ListOf(s, Insert(cut, e2), now) /\ Range(Insert(cut, e2)) = Range(cut) \cup {e2}
      BY <1>3, <1>7, InsertFacts
  <2> QED BY <1>9, <2>1
<1>12. AtMostOnce(next, "null", r) /\ AtMostOnce(next, "complete", c)
    BY <1>3, <1>7, <1>8, <1>9, InsertOnce DEF Those
<1>13. \A e \in Range(busy) : e.ts \in Nat /\ now <= e.ts
    BY <1>5, EntriesOf, EventFields DEF ListOf
<1> HIDE DEF r
<1>14. lg <= now + d
    BY <1>4 DEF DevicePart, Calm
<1>15. lg <= g
  <2>1. \A e \in Range(busy) : lg <= e.ts + d
      BY <1>1, <1>13, <1>14
  <2> QED BY <1>4, <1>10, <2>1
<1>16. Those(next, "null", r) = {e2}
    BY <1>3, <1>7, <1>11 DEF Those
<1>17. e2.ts <= g
    BY <1>1, <1>3, <1>10
<1>18. NullPart(s, r, next, now, "handler", g)
    BY <1>1, <1>3, <1>12, <1>16, <1>17 DEF NullPart
<1>19. g <= e2.ts + d
  <2>1. PICK e \in Those(list, "null", r) : e.ts <= now + NullInterval(s, r)
      BY <1>4 DEF NullPart
  <2>2. e \in Range(busy) /\ g <= e.ts + d /\ e.ts \in Nat
      BY <1>5, <1>10, <1>13 DEF Those
  <2> QED BY <1>1, <1>3, <1>10, <2>1, <2>2
<1>20. e1 \in Those(next, "complete", c)
    BY <1>2, <1>5, <1>7, <1>11 DEF Those
<1>21. ASSUME NEW e \in Those(next, "complete", c) PROVE g <= e.ts + d
  <2>1. e \in Range(cut) /\ e.kind = "complete"
      BY <1>3, <1>11 DEF Those, Is
  <2> QED BY <1>7, <1>10, <2>1
<1>22. DevicePart(r, c, next, now, "handler", "BUSY", g, d)
    BY <1>12, <1>16, <1>19, <1>20, <1>21 DEF DevicePart
<1> QED BY <1>10, <1>11, <1>14, <1>15, <1>18, <1>22 DEF Promise, d, r

\* The transmission on another channel starts in a handler.
LEMMA TransmitOther ==
    ASSUME OneChannelPerBundle, NEW s \in Ranks, NEW c \in ChannelsOf(s),
           NEW b \in ChannelsOf(s), b # c,
           NEW now \in Nat, NEW list, ListOf(s, list, now),
           NEW safe \in Nat, NEW tx, NEW lg \in Nat, NEW txTime \in Nat,
           Promise(s, c, list, now, safe, "handler", tx, lg),
           NEW busy, busy = Insert(list, Event(now + txTime, "complete", b)),
           NEW next, next = RescheduleNullMessageEvent(s, Peer(s, b), now, busy)
    PROVE  Promise(s, c, next, now, safe, "handler", tx, lg)
<1> DEFINE r == Peer(s, b)
           e1 == Event(now + txTime, "complete", b)
           e2 == NullEvent(s, r, now)
           cut == Cancel(busy, r)
<1>0. BundleDelay(s, Peer(s, c)) \in Nat /\ r # Peer(s, c)
    BY ChannelFacts, OneDelay
<1>1. /\ NullInterval(s, r) \in Nat
      /\ \A t \in Nat : Event(t, "null", r) \in OwnEvents(s) /\ Event(t, "complete", b) \in OwnEvents(s)
    BY ChannelFacts
<1>2. /\ e1 \in OwnEvents(s) /\ now <= e1.ts
      /\ ~Is(e1, "complete", c) /\ ~Is(e1, "null", Peer(s, c))
  <2>1. now + txTime \in Nat /\ now <= now + txTime
      OBVIOUS
  <2>2. e1 \in OwnEvents(s)
      BY <1>1, <2>1
  <2>3. e1.ts = now + txTime /\ ~Is(e1, "complete", c) /\ ~Is(e1, "null", Peer(s, c))
      BY DEF Event, Is
  <2> QED BY <2>1, <2>2, <2>3
<1>3. /\ e2 \in OwnEvents(s) /\ now <= e2.ts
      /\ ~Is(e2, "complete", c) /\ ~Is(e2, "null", Peer(s, c))
  <2>1. now + NullInterval(s, r) \in Nat /\ now <= now + NullInterval(s, r)
      BY <1>1
  <2>2. e2 \in OwnEvents(s)
      BY <1>1, <2>1 DEF NullEvent
  <2>3. e2.ts = now + NullInterval(s, r) /\ ~Is(e2, "complete", c) /\ ~Is(e2, "null", Peer(s, c))
      BY <1>0 DEF NullEvent, Event, Is
  <2> QED BY <2>1, <2>2, <2>3
<1>4. busy = Insert(list, e1) /\ next = Insert(cut, e2)
    BY DEF RescheduleNullMessageEvent
<1> HIDE DEF e1, e2
<1>5. ListOf(s, busy, now) /\ Promise(s, c, busy, now, safe, "handler", tx, lg)
    BY <1>0, <1>2, <1>4, InsertFacts, InsertOther
<1>6. ListOf(s, cut, now) /\ Promise(s, c, cut, now, safe, "handler", tx, lg)
    BY <1>0, <1>5, CancelFacts, CancelOther
<1> HIDE DEF cut
<1> QED BY <1>0, <1>3, <1>4, <1>6, InsertOther

\* The transmission on the channel is complete: the device was BUSY, and may be
\* used again at once.
LEMMA CompleteOwn ==
    ASSUME OneChannelPerBundle, NEW s \in Ranks, NEW c \in ChannelsOf(s),
           NEW now \in Nat, NEW list, ListOf(s, list, now), list # <<>>,
           NEW safe, NEW label, label \notin {"outside", "initialize"},
           NEW tx, NEW lg \in Nat, Promise(s, c, list, now, safe, label, tx, lg),
           Is(Head(list), "complete", c)
    PROVE  /\ tx = "BUSY"
           /\ Promise(s, c, Tail(list), NextOf(list), safe, "handler", "READY", lg)
<1> DEFINE r == Peer(s, c)
           d == BundleDelay(s, r)
           t == Tail(list)
           h == Head(list)
           n == NextOf(list)
<1>0. d \in Nat /\ NullInterval(s, r) \in Nat
    BY ChannelFacts
<1>1. /\ Range(list) = Range(t) \cup {h} /\ h \in Range(list) /\ h.ts = n /\ now <= n
      /\ n \in Nat /\ \A e \in Range(list) : n <= e.ts
    BY TailFacts, EventFields
<1>2. \A e \in Range(list) : e.ts \in Nat
    BY EntriesOf, EventFields DEF ListOf
<1>3. NullPart(s, r, list, now, label, lg) /\ DevicePart(r, c, list, now, label, tx, lg, d)
      /\ lg <= safe + d
    BY DEF Promise
<1>4. AtMostOnce(t, "null", r) /\ AtMostOnce(t, "complete", c) /\ Those(t, "complete", c) = {}
    BY <1>3, TailOnce DEF NullPart, DevicePart
<1> HIDE DEF t, d, h, n, r
<1>5. h \in Those(list, "complete", c) /\ ~Is(h, "null", r)
    BY <1>1 DEF Those, Is, h
<1>6. Those(t, "null", r) = Those(list, "null", r)
    BY <1>1, <1>5 DEF Those
<1>7. tx = "BUSY" /\ lg <= n + d
    BY <1>1, <1>3, <1>5 DEF DevicePart
<1>8. Calm(r, t, n, "handler", lg, d)
  <2>1. \A e \in Range(t) : lg <= e.ts + d
      BY <1>0, <1>1, <1>2, <1>7
  <2> QED BY <1>7, <2>1 DEF Calm
<1>9. NullPart(s, r, t, n, "handler", lg)
  <2>1. \A e \in Those(list, "null", r) : e.ts <= lg /\ e.ts <= n + NullInterval(s, r)
      BY <1>0, <1>1, <1>2, <1>3 DEF NullPart, Those
  <2> QED BY <1>3, <1>4, <1>6, <2>1 DEF NullPart
<1>10. DevicePart(r, c, t, n, "handler", "READY", lg, d)
    BY <1>4, <1>8 DEF DevicePart
<1> QED BY <1>3, <1>7, <1>9, <1>10 DEF Promise, t, d, r, n

\* The first null message of the bundle is sent.
LEMMA InitializeOwn ==
    ASSUME OneChannelPerBundle, NEW s \in Ranks, NEW c \in ChannelsOf(s),
           NEW list, ListOf(s, list, 0), NEW safe \in Nat, NEW tx, NEW lg,
           Promise(s, c, list, 0, safe, "initialize", tx, lg),
           Those(list, "null", Peer(s, c)) = {},
           NEW g, g = BundleDelay(s, Peer(s, c)),
           NEW next, next = Insert(list, NullEvent(s, Peer(s, c), 0))
    PROVE  /\ lg = 0 /\ g \in Nat /\ ListOf(s, next, 0)
           /\ Promise(s, c, next, 0, safe, "initialize", tx, g)
<1> DEFINE r == Peer(s, c)
           e0 == NullEvent(s, r, 0)
<1>1. /\ g \in Nat /\ NullInterval(s, r) \in Nat /\ NullInterval(s, r) <= g
      /\ \A t \in Nat : Event(t, "null", r) \in OwnEvents(s)
    BY ChannelFacts
<1>2. /\ e0 \in OwnEvents(s) /\ e0.ts = NullInterval(s, r) /\ 0 <= e0.ts
      /\ Is(e0, "null", r) /\ ~Is(e0, "complete", c)
    BY <1>1 DEF NullEvent, Event, Is
<1>3. NullPart(s, r, list, 0, "initialize", lg) /\ DevicePart(r, c, list, 0, "initialize", tx, lg, g)
    BY DEF Promise
<1> HIDE DEF e0
<1>4. ListOf(s, next, 0) /\ Range(next) = Range(list) \cup {e0}
    BY <1>2, InsertFacts DEF e0
<1>5. AtMostOnce(next, "null", r) /\ AtMostOnce(next, "complete", c)
    BY <1>2, <1>3, InsertOnce DEF NullPart, DevicePart, e0
<1>6. Those(next, "null", r) = {e0} /\ Those(next, "complete", c) = Those(list, "complete", c)
    BY <1>2, <1>4 DEF Those
<1>7. \A e \in Range(next) : e.ts \in Nat
    BY <1>4, EntriesOf, EventFields DEF ListOf
<1> HIDE DEF r
<1>8. \A e \in Range(next) : g <= e.ts + g
    BY <1>1, <1>7
<1>9. NullPart(s, r, next, 0, "initialize", g)
    BY <1>1, <1>2, <1>5, <1>6 DEF NullPart
<1>10. DevicePart(r, c, next, 0, "initialize", tx, g, g)
    BY <1>3, <1>5, <1>6, <1>8 DEF DevicePart, Calm, Those
<1>11. g <= safe + g /\ lg = 0
    BY <1>1, <1>3 DEF NullPart, r
<1> QED BY <1>1, <1>4, <1>9, <1>10, <1>11 DEF Promise, r
-----------------------------------------------------------------------------
(* A link: the guarantee the receiver holds and the messages on their way. *)

Messages == [rxTime : Nat, guarantee : Nat]

\* Guarantees do not decrease, and a packet is not due before one given
\* earlier.  It may be due before its own, when the device has a gap.
Link(held, msgs) ==
    /\ held \in Nat /\ msgs \in Seq(Messages)
    /\ \A i \in DOMAIN msgs : /\ held <= msgs[i].guarantee
                              /\ msgs[i].rxTime > 0 => held <= msgs[i].rxTime
    /\ \A i, j \in DOMAIN msgs : i < j =>
          /\ msgs[i].guarantee <= msgs[j].guarantee
          /\ msgs[j].rxTime > 0 => msgs[i].guarantee <= msgs[j].rxTime

GivenLast(held, msgs) == IF msgs = <<>> THEN held ELSE msgs[Len(msgs)].guarantee

\* None of the guarantees on their way is greater than the last one given.
LEMMA LinkFacts ==
    ASSUME NEW held, NEW msgs, Link(held, msgs)
    PROVE  /\ DOMAIN msgs = 1..Len(msgs) /\ Len(msgs) \in Nat
           /\ \A i \in DOMAIN msgs : msgs[i].guarantee \in Nat /\ msgs[i].rxTime \in Nat
           /\ GivenLast(held, msgs) \in Nat
           /\ \A i \in DOMAIN msgs : msgs[i].guarantee <= GivenLast(held, msgs)
<1>1. msgs \in Seq(Messages) /\ held \in Nat
    BY DEF Link
<1>2. DOMAIN msgs = 1..Len(msgs) /\ Len(msgs) \in Nat /\ \A i \in DOMAIN msgs : msgs[i] \in Messages
    BY <1>1
<1>3. \A i \in DOMAIN msgs : msgs[i].guarantee \in Nat /\ msgs[i].rxTime \in Nat
    BY <1>2 DEF Messages
<1>4. CASE msgs = <<>>
    BY <1>1, <1>2, <1>3, <1>4 DEF GivenLast
<1>5. CASE msgs # <<>>
  <2>1. Len(msgs) \in DOMAIN msgs /\ GivenLast(held, msgs) = msgs[Len(msgs)].guarantee
      BY <1>1, <1>2, <1>5, EmptySeq DEF GivenLast
  <2>2. ASSUME NEW i \in DOMAIN msgs PROVE msgs[i].guarantee <= msgs[Len(msgs)].guarantee
    <3>1. i = Len(msgs) \/ i < Len(msgs)
        BY <1>2
    <3> QED BY <1>3, <2>1, <3>1 DEF Link
  <2> QED BY <1>2, <1>3, <2>1, <2>2
<1> QED BY <1>4, <1>5

\* A message is sent with a guarantee not below the last one.
LEMMA LinkPost ==
    ASSUME NEW held, NEW msgs, Link(held, msgs), NEW g \in Nat, NEW rx \in Nat,
           GivenLast(held, msgs) <= g, rx > 0 => GivenLast(held, msgs) <= rx,
           NEW more, more = Append(msgs, Message(rx, g))
    PROVE  Link(held, more) /\ GivenLast(held, more) = g /\ more \in Seq(Messages)
<1>0. msgs \in Seq(Messages) /\ held \in Nat
    BY DEF Link
<1>1. /\ DOMAIN msgs = 1..Len(msgs) /\ Len(msgs) \in Nat
      /\ \A i \in DOMAIN msgs : msgs[i].guarantee \in Nat /\ msgs[i].rxTime \in Nat
      /\ GivenLast(held, msgs) \in Nat
      /\ \A i \in DOMAIN msgs : msgs[i].guarantee <= GivenLast(held, msgs)
    BY LinkFacts
<1>2. Message(rx, g) \in Messages /\ Message(rx, g).guarantee = g /\ Message(rx, g).rxTime = rx
    BY DEF Message, Messages
<1>3. /\ more \in Seq(Messages) /\ more # <<>> /\ Len(more) = Len(msgs) + 1
      /\ \A i \in 1..Len(msgs) : more[i] = msgs[i]
      /\ more[Len(msgs) + 1] = Message(rx, g)
    BY <1>0, <1>2, AppendProperties
<1>4. DOMAIN more = 1..(Len(msgs) + 1)
    BY <1>1, <1>3
<1>5. held <= GivenLast(held, msgs)
  <2>1. CASE msgs = <<>>
      BY <1>0, <2>1 DEF GivenLast
  <2>2. CASE msgs # <<>>
    <3>1. Len(msgs) \in DOMAIN msgs
        BY <1>0, <1>1, <2>2, EmptySeq
    <3> QED BY <1>0, <1>1, <2>2, <3>1 DEF Link, GivenLast
  <2> QED BY <2>1, <2>2
<1>6. ASSUME NEW i \in DOMAIN more
      PROVE  /\ held <= more[i].guarantee /\ more[i].guarantee <= g
             /\ more[i].rxTime > 0 => held <= more[i].rxTime
  <2>1. CASE i = Len(msgs) + 1
      BY <1>0, <1>1, <1>2, <1>3, <1>5, <2>1
  <2>2. CASE i # Len(msgs) + 1
    <3>1. i \in DOMAIN msgs /\ more[i] = msgs[i]
        BY <1>1, <1>3, <1>4, <2>2
    <3> QED BY <1>1, <3>1 DEF Link
  <2> QED BY <2>1, <2>2
<1>7. ASSUME NEW i \in DOMAIN more, NEW j \in DOMAIN more, i < j
      PROVE  /\ more[i].guarantee <= more[j].guarantee
             /\ more[j].rxTime > 0 => more[i].guarantee <= more[j].rxTime
  <2>1. i \in DOMAIN msgs /\ more[i] = msgs[i]
      BY <1>1, <1>3, <1>4, <1>7
  <2>2. CASE j = Len(msgs) + 1
      BY <1>1, <1>2, <1>3, <1>6, <2>1, <2>2
  <2>3. CASE j # Len(msgs) + 1
    <3>1. j \in DOMAIN msgs /\ more[j] = msgs[j]
        BY <1>1, <1>3, <1>4, <2>3
    <3> QED BY <1>7, <2>1, <3>1 DEF Link
  <2> QED BY <2>2, <2>3
<1>8. GivenLast(held, more) = g
    BY <1>2, <1>3 DEF GivenLast
<1> QED BY <1>0, <1>3, <1>6, <1>7, <1>8 DEF Link

\* A message is received.
LEMMA LinkTake ==
    ASSUME NEW held, NEW msgs, Link(held, msgs), msgs # <<>>
    PROVE  /\ Head(msgs).guarantee \in Nat /\ Head(msgs).rxTime \in Nat
           /\ held <= Head(msgs).guarantee
           /\ Head(msgs).rxTime > 0 => held <= Head(msgs).rxTime
           /\ Link(Head(msgs).guarantee, Tail(msgs))
           /\ GivenLast(Head(msgs).guarantee, Tail(msgs)) = GivenLast(held, msgs)
           /\ Tail(msgs) \in Seq(Messages)
<1> DEFINE t == Tail(msgs)
<1>0. msgs \in Seq(Messages)
    BY DEF Link
<1>1. /\ DOMAIN msgs = 1..Len(msgs) /\ Len(msgs) \in Nat /\ Len(msgs) > 0
      /\ \A i \in DOMAIN msgs : msgs[i].guarantee \in Nat /\ msgs[i].rxTime \in Nat
    BY <1>0, LinkFacts, EmptySeq
<1>2. /\ t \in Seq(Messages) /\ Len(t) = Len(msgs) - 1 /\ DOMAIN t = 1..(Len(msgs) - 1)
      /\ \A i \in DOMAIN t : t[i] = msgs[i + 1] /\ i + 1 \in DOMAIN msgs
      /\ Head(msgs) = msgs[1] /\ 1 \in DOMAIN msgs
    BY <1>0, <1>1, HeadTailProperties
<1> HIDE DEF t
<1>3. /\ Head(msgs).guarantee \in Nat /\ Head(msgs).rxTime \in Nat
      /\ held <= Head(msgs).guarantee
      /\ Head(msgs).rxTime > 0 => held <= Head(msgs).rxTime
    BY <1>1, <1>2 DEF Link
<1>4. ASSUME NEW i \in DOMAIN t
      PROVE  /\ Head(msgs).guarantee <= t[i].guarantee
             /\ t[i].rxTime > 0 => Head(msgs).guarantee <= t[i].rxTime
  <2>1. 1 < i + 1
      BY <1>2
  <2> QED BY <1>2, <2>1 DEF Link
<1>5. ASSUME NEW i \in DOMAIN t, NEW j \in DOMAIN t, i < j
      PROVE  /\ t[i].guarantee <= t[j].guarantee
             /\ t[j].rxTime > 0 => t[i].guarantee <= t[j].rxTime
  <2>1. i + 1 < j + 1
      BY <1>2, <1>5
  <2> QED BY <1>2, <2>1 DEF Link
<1>6. GivenLast(Head(msgs).guarantee, t) = GivenLast(held, msgs)
  <2>1. CASE t = <<>>
    <3>1. Len(msgs) = 1
        BY <1>1, <1>2, <2>1
    <3> QED BY <1>2, <2>1, <3>1 DEF GivenLast
  <2>2. CASE t # <<>>
    <3>1. Len(t) \in DOMAIN t /\ Len(t) + 1 = Len(msgs)
        BY <1>1, <1>2, <2>2, EmptySeq
    <3>2. t[Len(t)] = msgs[Len(msgs)]
        BY <1>2, <3>1
    <3> QED BY <2>2, <3>2 DEF GivenLast
  <2> QED BY <2>1, <2>2
<1> QED BY <1>2, <1>3, <1>4, <1>5, <1>6 DEF Link, t

\* GetSafeTime returns the least guarantee, which only grows.
LEMMA SafeTimeIs ==
    ASSUME NEW r \in Ranks, NEW held \in [Neighbours(r) -> Nat],
           NEW safe \in Nat, safe <= Infinity, \A q \in Neighbours(r) : safe <= held[q]
    PROVE  /\ SafeTime(held) \in Nat /\ safe <= SafeTime(held) /\ SafeTime(held) <= Infinity
           /\ \A q \in Neighbours(r) : SafeTime(held) <= held[q]
<1> DEFINE V == {held[q] : q \in Neighbours(r)}
           S == {Infinity} \cup V
<1>1. IsFiniteSet(Neighbours(r))
  <2> DEFINE p == [c \in ChannelsOf(r) |-> Peer(r, c)]
  <2>1. IsFiniteSet(ChannelsOf(r))
    <3>1. ChannelsOf(r) \subseteq Channels
        BY DEF ChannelsOf
    <3> QED BY <3>1, NullMessageAssumption, FS_Subset
  <2>2. DOMAIN p = ChannelsOf(r) /\ Neighbours(r) = {p[c] : c \in ChannelsOf(r)}
      BY DEF Neighbours
  <2> HIDE DEF p
  <2>3. IsFiniteSet({p[c] : c \in ChannelsOf(r)})
      BY <2>1, <2>2, FiniteValues
  <2> QED BY <2>2, <2>3
<1>2. DOMAIN held = Neighbours(r)
    OBVIOUS
<1>3. IsFiniteSet(V)
    BY <1>1, <1>2, FiniteValues
<1>4. IsFiniteSet(S)
  <2>1. IsFiniteSet(V \cup {Infinity})
      BY <1>3, FS_AddElement
  <2>2. V \cup {Infinity} = S
      OBVIOUS
  <2> QED BY <2>1, <2>2
<1>5. Infinity \in Nat
    BY NullMessageAssumption
<1>6. S \in SUBSET Int /\ S # {} /\ \A x \in S : x \in Nat /\ safe <= x
    BY <1>5
<1>7. Min(S) \in S /\ \A x \in S : Min(S) <= x
    BY <1>4, <1>6, LeastNumber DEF Min
<1>8. SafeTime(held) = Min(S)
  <2>1. Range(held) = V
      BY <1>2 DEF Range
  <2> QED BY <2>1 DEF SafeTime
<1>9. Infinity \in S /\ \A q \in Neighbours(r) : held[q] \in S
    OBVIOUS
<1> HIDE DEF S
<1> QED BY <1>6, <1>7, <1>8, <1>9
-----------------------------------------------------------------------------
(* The inductive invariant.                                                *)

Labels == {"outside", "initialize", "loop", "handler", "poll", "done"}

EngineTypes ==
    /\ m_currentTs \in [Ranks -> Nat] /\ m_safeTime \in [Ranks -> Nat]
    /\ pc \in [Ranks -> Labels]
    /\ DOMAIN m_events = Ranks /\ DOMAIN m_txMachineState = Ranks
    /\ \A r \in Ranks : DOMAIN m_txMachineState[r] = ChannelsOf(r)

LinkTypes ==
    /\ DOMAIN m_guaranteeTime = Ranks /\ DOMAIN transit = Ranks
    /\ \A r \in Ranks : /\ m_guaranteeTime[r] \in [Neighbours(r) -> Nat]
                        /\ transit[r] \in [Neighbours(r) -> Seq(Messages)]

\* Simulated time never passes the safe time, nor the safe time a guarantee.
RankInv(r) ==
    /\ ListOf(r, m_events[r], m_currentTs[r])
    /\ m_currentTs[r] <= m_safeTime[r] /\ m_safeTime[r] <= Infinity
    /\ \A q \in Neighbours(r) : m_safeTime[r] <= m_guaranteeTime[r][q]
    /\ pc[r] \in {"outside", "initialize"} => m_currentTs[r] = 0 /\ m_safeTime[r] = 0

LinkInv(s, r) == Link(m_guaranteeTime[r][s], transit[s][r])

PromiseInv(s, c) ==
    Promise(s, c, m_events[s], m_currentTs[s], m_safeTime[s], pc[s],
            m_txMachineState[s][c], LastGuarantee(s, Peer(s, c)))

\* The part of the invariant that rank s answers for.
Own(s) ==
    /\ RankInv(s)
    /\ \A c \in ChannelsOf(s) : LinkInv(s, Peer(s, c)) /\ PromiseInv(s, c)

IInv == EngineTypes /\ LinkTypes /\ \A s \in Ranks : Own(s)

\* What the invariant says of rank r.
LEMMA RankFacts ==
    ASSUME IInv, NEW r \in Ranks
    PROVE  /\ m_currentTs[r] \in Nat /\ m_safeTime[r] \in Nat /\ pc[r] \in Labels
           /\ ListOf(r, m_events[r], m_currentTs[r])
           /\ m_currentTs[r] <= m_safeTime[r] /\ m_safeTime[r] <= Infinity
           /\ m_guaranteeTime[r] \in [Neighbours(r) -> Nat]
           /\ \A q \in Neighbours(r) : m_safeTime[r] <= m_guaranteeTime[r][q]
           /\ pc[r] \in {"outside", "initialize"} => m_currentTs[r] = 0 /\ m_safeTime[r] = 0
           /\ \A c \in ChannelsOf(r) :
                 /\ Promise(r, c, m_events[r], m_currentTs[r], m_safeTime[r], pc[r],
                            m_txMachineState[r][c], LastGuarantee(r, Peer(r, c)))
                 /\ Link(m_guaranteeTime[Peer(r, c)][r], transit[r][Peer(r, c)])
                 /\ LastGuarantee(r, Peer(r, c)) \in Nat
<1>1. Own(r) /\ EngineTypes /\ LinkTypes
    BY DEF IInv
<1>2. RankInv(r) /\ \A c \in ChannelsOf(r) : LinkInv(r, Peer(r, c)) /\ PromiseInv(r, c)
    BY <1>1 DEF Own
<1>3. ASSUME NEW c \in ChannelsOf(r)
      PROVE  /\ Link(m_guaranteeTime[Peer(r, c)][r], transit[r][Peer(r, c)])
             /\ LastGuarantee(r, Peer(r, c)) \in Nat
  <2>1. Link(m_guaranteeTime[Peer(r, c)][r], transit[r][Peer(r, c)])
      BY <1>2 DEF LinkInv
  <2>2. LastGuarantee(r, Peer(r, c)) = GivenLast(m_guaranteeTime[Peer(r, c)][r], transit[r][Peer(r, c)])
      BY DEF LastGuarantee, GivenLast
  <2> QED BY <2>1, <2>2, LinkFacts
<1>4. m_currentTs[r] \in Nat /\ m_safeTime[r] \in Nat /\ pc[r] \in Labels
    BY <1>1 DEF EngineTypes
<1>5. m_guaranteeTime[r] \in [Neighbours(r) -> Nat]
    BY <1>1 DEF LinkTypes
<1> QED BY <1>2, <1>3, <1>4, <1>5 DEF RankInv, PromiseInv

\* What a step of rank r leaves alone.
OthersKeep(r) ==
    \A q \in Ranks \ {r} :
        /\ m_events'[q] = m_events[q] /\ m_currentTs'[q] = m_currentTs[q]
        /\ m_safeTime'[q] = m_safeTime[q] /\ pc'[q] = pc[q]
        /\ m_txMachineState'[q] = m_txMachineState[q]

\* The ranks that do not act keep what they answer for.
LEMMA OthersOwn ==
    ASSUME IInv, NEW r \in Ranks, OthersKeep(r), m_guaranteeTime' = m_guaranteeTime,
           NEW q \in Ranks, q # r, transit'[q] = transit[q]
    PROVE  Own(q)'
<1>1. Own(q)
    BY DEF IInv
<1>2. /\ m_events'[q] = m_events[q] /\ m_currentTs'[q] = m_currentTs[q]
      /\ m_safeTime'[q] = m_safeTime[q] /\ pc'[q] = pc[q]
      /\ m_txMachineState'[q] = m_txMachineState[q]
    BY DEF OthersKeep
<1>3. RankInv(q)'
    BY <1>1, <1>2 DEF Own, RankInv
<1>4. ASSUME NEW c \in ChannelsOf(q) PROVE LinkInv(q, Peer(q, c))' /\ PromiseInv(q, c)'
  <2>1. LastGuarantee(q, Peer(q, c))' = LastGuarantee(q, Peer(q, c))
      BY DEF LastGuarantee
  <2>2. LinkInv(q, Peer(q, c))'
      BY <1>1 DEF Own, LinkInv
  <2>3. PromiseInv(q, c)'
      BY <1>1, <1>2, <2>1 DEF Own, PromiseInv
  <2> QED BY <2>2, <2>3
<1> QED BY <1>3, <1>4 DEF Own

\* A step of rank r that sends nothing and receives nothing.
LEMMA QuietStep ==
    ASSUME IInv, NEW r \in Ranks, OthersKeep(r), UNCHANGED <<m_guaranteeTime, transit>>,
           EngineTypes', RankInv(r)',
           \A c \in ChannelsOf(r) :
              Promise(r, c, m_events'[r], m_currentTs'[r], m_safeTime'[r], pc'[r],
                      m_txMachineState'[r][c], LastGuarantee(r, Peer(r, c)))
    PROVE  IInv'
<1>1. \A q \in Ranks \ {r} : Own(q)'
    BY OthersOwn
<1>2. LinkTypes'
    BY DEF IInv, LinkTypes
<1>3. ASSUME NEW c \in ChannelsOf(r) PROVE LinkInv(r, Peer(r, c))' /\ PromiseInv(r, c)'
  <2>1. LastGuarantee(r, Peer(r, c))' = LastGuarantee(r, Peer(r, c))
      BY DEF LastGuarantee
  <2>2. LinkInv(r, Peer(r, c))'
      BY DEF IInv, Own, LinkInv
  <2> QED BY <2>1, <2>2 DEF PromiseInv
<1> QED BY <1>1, <1>2, <1>3 DEF IInv, Own

\* A step of rank r that sends one message, over channel b.
LEMMA SendStep ==
    ASSUME OneChannelPerBundle, IInv, NEW r \in Ranks, OthersKeep(r),
           m_guaranteeTime' = m_guaranteeTime, NEW b \in ChannelsOf(r),
           NEW rx \in Nat, NEW g \in Nat, Post(r, Peer(r, b), Message(rx, g)),
           LastGuarantee(r, Peer(r, b)) <= g, rx > 0 => LastGuarantee(r, Peer(r, b)) <= rx,
           EngineTypes', RankInv(r)',
           Promise(r, b, m_events'[r], m_currentTs'[r], m_safeTime'[r], pc'[r],
                   m_txMachineState'[r][b], g),
           \A c \in ChannelsOf(r) \ {b} :
              Promise(r, c, m_events'[r], m_currentTs'[r], m_safeTime'[r], pc'[r],
                      m_txMachineState'[r][c], LastGuarantee(r, Peer(r, c)))
    PROVE  IInv'
<1> DEFINE p == Peer(r, b)
<1>1. p \in Neighbours(r) /\ p \in Ranks
    BY ChannelEnds
<1>2. LinkTypes /\ Link(m_guaranteeTime[p][r], transit[r][p])
    BY RankFacts DEF IInv
<1>3. /\ DOMAIN transit' = Ranks
      /\ \A q \in Ranks \ {r} : transit'[q] = transit[q]
      /\ transit'[r] = [transit[r] EXCEPT ![p] = Append(transit[r][p], Message(rx, g))]
    BY <1>2 DEF Post, LinkTypes
<1>4. /\ transit'[r][p] = Append(transit[r][p], Message(rx, g))
      /\ \A q \in Neighbours(r) \ {p} : transit'[r][q] = transit[r][q]
      /\ DOMAIN transit'[r] = Neighbours(r)
    BY <1>1, <1>2, <1>3 DEF LinkTypes
<1>5. LastGuarantee(r, p) = GivenLast(m_guaranteeTime[p][r], transit[r][p])
    BY DEF LastGuarantee, GivenLast
<1>6. /\ Link(m_guaranteeTime[p][r], transit'[r][p])
      /\ GivenLast(m_guaranteeTime[p][r], transit'[r][p]) = g
      /\ transit'[r][p] \in Seq(Messages)
  <2> DEFINE held == m_guaranteeTime[p][r]
             msgs == transit[r][p]
             more == Append(msgs, Message(rx, g))
  <2>1. /\ Link(held, msgs) /\ GivenLast(held, msgs) <= g /\ transit'[r][p] = more
        /\ rx > 0 => GivenLast(held, msgs) <= rx
      BY <1>2, <1>4, <1>5
  <2> HIDE DEF held, msgs
  <2>2. Link(held, more) /\ GivenLast(held, more) = g /\ more \in Seq(Messages)
      BY <2>1, LinkPost
  <2> HIDE DEF more
  <2> QED BY <2>1, <2>2 DEF held
<1>7. LastGuarantee(r, p)' = g
    BY <1>6 DEF LastGuarantee, GivenLast
<1>8. LinkTypes'
  <2>1. transit'[r] \in [Neighbours(r) -> Seq(Messages)]
    <3>1. transit[r] \in [Neighbours(r) -> Seq(Messages)]
        BY <1>2 DEF LinkTypes
    <3>2. Append(transit[r][p], Message(rx, g)) \in Seq(Messages)
        BY <1>4, <1>6
    <3> QED BY <1>3, <3>1, <3>2
  <2>2. \A q \in Ranks : transit'[q] \in [Neighbours(q) -> Seq(Messages)]
      BY <1>2, <1>3, <2>1 DEF LinkTypes
  <2> QED BY <1>2, <1>3, <2>2 DEF LinkTypes
<1>9. \A q \in Ranks \ {r} : Own(q)'
    BY <1>3, OthersOwn
<1>10. LinkInv(r, p)' /\ PromiseInv(r, b)'
    BY <1>6, <1>7 DEF LinkInv, PromiseInv
<1>11. ASSUME NEW c \in ChannelsOf(r) \ {b} PROVE LinkInv(r, Peer(r, c))' /\ PromiseInv(r, c)'
  <2>1. Peer(r, c) # p /\ Peer(r, c) \in Neighbours(r)
      BY OneDelay, ChannelEnds
  <2>2. transit'[r][Peer(r, c)] = transit[r][Peer(r, c)]
      BY <1>4, <2>1
  <2>3. LastGuarantee(r, Peer(r, c))' = LastGuarantee(r, Peer(r, c))
      BY <2>2 DEF LastGuarantee
  <2>4. LinkInv(r, Peer(r, c))'
      BY <2>2 DEF IInv, Own, LinkInv
  <2> QED BY <2>3, <2>4 DEF PromiseInv
<1>12. Own(r)'
    BY <1>10, <1>11 DEF Own
<1> QED BY <1>8, <1>9, <1>12 DEF IInv
-----------------------------------------------------------------------------
(* The actions keep the invariant: those that send and receive nothing.    *)

\* Events of the model code, and of Stop, are of no concern to a channel.
LEMMA PlainEvent ==
    ASSUME NEW r \in Ranks, NEW t \in Nat, NEW k \in {"app", "receive", "stop"}
    PROVE  /\ Event(t, k, r) \in OwnEvents(r) /\ Event(t, k, r).ts = t
           /\ \A o : ~Is(Event(t, k, r), "null", o) /\ ~Is(Event(t, k, r), "complete", o)
BY DEF Event, OwnEvents, Kinds, Is

\* Before Run nothing is promised, and a handler may schedule what it likes.
LEMMA ScheduleStep ==
    ASSUME OneChannelPerBundle, IInv, NEW r \in Ranks, NEW delay \in 0..MaxDelay,
           Schedule(r, delay)
    PROVE  IInv'
<1> DEFINE list == m_events[r]
           now == m_currentTs[r]
           e == Event(now + delay, "app", r)
<1>1. /\ now \in Nat /\ ListOf(r, list, now)
      /\ \A c \in ChannelsOf(r) :
            /\ Promise(r, c, list, now, m_safeTime[r], pc[r],
                       m_txMachineState[r][c], LastGuarantee(r, Peer(r, c)))
            /\ LastGuarantee(r, Peer(r, c)) \in Nat
    BY RankFacts
<1>2. delay \in Nat
    BY NullMessageAssumption
<1>3. /\ e \in OwnEvents(r) /\ e.ts = now + delay
      /\ \A o : ~Is(e, "null", o) /\ ~Is(e, "complete", o)
  <2>1. now + delay \in Nat
      BY <1>1, <1>2
  <2> QED BY <2>1, PlainEvent
<1>4. EngineTypes /\ RankInv(r)
    BY DEF IInv, Own
<1>5. m_events' = [m_events EXCEPT ![r] = Insert(list, e)] /\ m_events'[r] = Insert(list, e)
    BY <1>4 DEF Schedule, EngineTypes
<1> HIDE DEF e
<1>6. now <= e.ts
    BY <1>1, <1>2, <1>3
<1>7. ListOf(r, Insert(list, e), now)
    BY <1>1, <1>3, <1>6, InsertFacts
<1>8. RankInv(r)'
    BY <1>4, <1>5, <1>7 DEF RankInv, Schedule
<1>9. EngineTypes' /\ OthersKeep(r)
    BY <1>4, <1>5 DEF EngineTypes, Schedule, devices, OthersKeep
<1>10. ASSUME NEW c \in ChannelsOf(r)
       PROVE  Promise(r, c, Insert(list, e), now, m_safeTime[r], pc[r],
                      m_txMachineState[r][c], LastGuarantee(r, Peer(r, c)))
  <2> DEFINE lg == LastGuarantee(r, Peer(r, c))
             d == BundleDelay(r, Peer(r, c))
  <2>1. d \in Nat /\ lg \in Nat
      BY <1>1, ChannelFacts
  <2>2. pc[r] = "handler" \/ lg <= e.ts + d
    <3>1. CASE pc[r] = "outside"
      <4>1. lg = 0
          BY <1>1, <3>1 DEF Promise, NullPart
      <4> QED BY <1>1, <1>2, <1>3, <2>1, <4>1
    <3> QED BY <3>1 DEF Schedule
  <2> HIDE DEF lg
  <2> QED BY <1>1, <1>3, <1>6, <2>1, <2>2, InsertOther DEF lg
<1> QED BY <1>5, <1>8, <1>9, <1>10, QuietStep DEF Schedule, devices

\* Stop may be scheduled, and the safe time is still 0.
LEMMA RunStep ==
    ASSUME OneChannelPerBundle, IInv, NEW r \in Ranks, Run(r)
    PROVE  IInv'
<1> DEFINE list == m_events[r]
           e == Event(StopAt[r], "stop", r)
           next == m_events'[r]
<1>1. /\ m_currentTs[r] = 0 /\ m_safeTime[r] = 0 /\ ListOf(r, list, 0) /\ pc[r] = "outside"
      /\ \A c \in ChannelsOf(r) :
            /\ Promise(r, c, list, 0, 0, pc[r],
                       m_txMachineState[r][c], LastGuarantee(r, Peer(r, c)))
            /\ LastGuarantee(r, Peer(r, c)) \in Nat
    BY RankFacts DEF Run
<1>2. StopAt[r] \in Nat
    BY NullMessageAssumption
<1>3. /\ e \in OwnEvents(r) /\ e.ts \in Nat
      /\ \A o : ~Is(e, "null", o) /\ ~Is(e, "complete", o)
    BY <1>2, PlainEvent
<1>4. EngineTypes /\ RankInv(r)
    BY DEF IInv, Own
<1>5. /\ m_events' = [m_events EXCEPT ![r] = next] /\ next \in {list, Insert(list, e)}
      /\ m_safeTime' = [m_safeTime EXCEPT ![r] = 0] /\ m_safeTime'[r] = 0
      /\ pc' = [pc EXCEPT ![r] = "initialize"] /\ pc'[r] = "initialize"
    BY <1>4 DEF Run, EngineTypes, Goto
<1> HIDE DEF e
<1>6. ListOf(r, next, 0)
    BY <1>1, <1>3, <1>5, InsertFacts
<1>7. RankInv(r)'
    BY <1>1, <1>4, <1>5, <1>6 DEF RankInv, Run
<1>8. EngineTypes' /\ OthersKeep(r)
    BY <1>4, <1>5 DEF EngineTypes, Run, devices, OthersKeep, Labels
<1> HIDE DEF next
<1>9. ASSUME NEW c \in ChannelsOf(r)
      PROVE  Promise(r, c, next, 0, 0, "initialize",
                     m_txMachineState[r][c], LastGuarantee(r, Peer(r, c)))
  <2> DEFINE lg == LastGuarantee(r, Peer(r, c))
             d == BundleDelay(r, Peer(r, c))
             tx == m_txMachineState[r][c]
  <2>1. d \in Nat /\ lg = 0
      BY <1>1, ChannelFacts DEF Promise, NullPart
  <2>2. Promise(r, c, list, 0, 0, "initialize", tx, lg)
      BY <1>1, LabelChanges
  <2>3. 0 <= e.ts /\ lg <= e.ts + d
      BY <1>3, <2>1
  <2> HIDE DEF lg, tx
  <2>4. Promise(r, c, Insert(list, e), 0, 0, "initialize", tx, lg)
      BY <1>1, <1>3, <2>1, <2>2, <2>3, InsertOther
  <2> QED BY <1>5, <2>2, <2>4 DEF lg, tx
<1> QED BY <1>1, <1>5, <1>7, <1>8, <1>9, QuietStep DEF Run, devices, next

\* Run goes from one label to another and the rest of the rank is unchanged.
LEMMA GotoStep ==
    ASSUME OneChannelPerBundle, IInv, NEW r \in Ranks, NEW l \in {"loop", "poll", "done"},
           Goto(r, l), \A q \in Neighbours(r) : HasNullEvent(m_events[r], q),
           UNCHANGED <<m_events, m_currentTs, m_safeTime, m_txMachineState, m_guaranteeTime, transit>>
    PROVE  IInv'
<1>1. EngineTypes /\ RankInv(r)
    BY DEF IInv, Own
<1>2. pc' = [pc EXCEPT ![r] = l] /\ pc'[r] = l
    BY <1>1 DEF Goto, EngineTypes
<1>3. RankInv(r)'
    BY <1>1, <1>2 DEF RankInv
<1>4. EngineTypes' /\ OthersKeep(r)
    BY <1>1, <1>2 DEF EngineTypes, OthersKeep, Labels
<1>5. ASSUME NEW c \in ChannelsOf(r)
      PROVE  Promise(r, c, m_events[r], m_currentTs[r], m_safeTime[r], l,
                     m_txMachineState[r][c], LastGuarantee(r, Peer(r, c)))
  <2>1. Promise(r, c, m_events[r], m_currentTs[r], m_safeTime[r], pc[r],
                m_txMachineState[r][c], LastGuarantee(r, Peer(r, c)))
      BY RankFacts
  <2>2. HasNullEvent(m_events[r], Peer(r, c))
      BY ChannelEnds
  <2>3. Those(m_events[r], "null", Peer(r, c)) # {}
    <3>1. PICK i \in DOMAIN m_events[r] :
              m_events[r][i].kind = "null" /\ m_events[r][i].on = Peer(r, c)
        BY <2>2 DEF HasNullEvent
    <3>2. m_events[r][i] \in Range(m_events[r])
        BY DEF Range
    <3> QED BY <3>1, <3>2 DEF Those, Is
  <2> QED BY <2>1, <2>3, LabelChanges
<1> QED BY <1>2, <1>3, <1>4, <1>5, QuietStep

\* In the loop every bundle has its null message event.
LEMMA AllHaveNullEvent ==
    ASSUME IInv, NEW r \in Ranks, pc[r] \notin {"outside", "initialize"}, NEW q \in Neighbours(r)
    PROVE  HasNullEvent(m_events[r], q)
<1>1. PICK c \in ChannelsOf(r) : q = Peer(r, c)
    BY Joined
<1>2. Those(m_events[r], "null", q) # {}
    BY <1>1, RankFacts DEF Promise, NullPart
<1>3. PICK e \in Range(m_events[r]) : Is(e, "null", q)
    BY <1>2 DEF Those
<1>4. \E i \in DOMAIN m_events[r] : e = m_events[r][i]
    BY <1>3 DEF Range
<1> QED BY <1>3, <1>4 DEF HasNullEvent, Is

\* Steps that only change where a rank is.
LEMMA LabelSteps ==
    ASSUME OneChannelPerBundle, IInv, NEW r \in Ranks,
           EnterLoop(r) \/ HandlerReturns(r) \/ RunReturns(r)
    PROVE  IInv'
<1>1. CASE EnterLoop(r)
    BY <1>1, GotoStep DEF EnterLoop, devices
<1>2. CASE HandlerReturns(r)
  <2>1. \A q \in Neighbours(r) : HasNullEvent(m_events[r], q)
      BY <1>2, AllHaveNullEvent DEF HandlerReturns
  <2> QED BY <1>2, <2>1, GotoStep DEF HandlerReturns, devices
<1>3. CASE RunReturns(r)
  <2>1. \A q \in Neighbours(r) : HasNullEvent(m_events[r], q)
      BY <1>3, AllHaveNullEvent DEF RunReturns
  <2> QED BY <1>3, <2>1, GotoStep DEF RunReturns, devices
<1> QED BY <1>1, <1>2, <1>3

\* CalculateSafeTime, in the loop.
LEMMA SafeTimeSteps ==
    ASSUME OneChannelPerBundle, IInv, NEW r \in Ranks, PollEnds(r) \/ NoNeighbours(r)
    PROVE  IInv'
<1> DEFINE more == SafeTime(m_guaranteeTime[r])
<1>1. EngineTypes /\ RankInv(r) /\ m_currentTs[r] \in Nat /\ m_safeTime[r] \in Nat
    BY RankFacts DEF IInv, Own
<1>2. /\ m_safeTime' = [m_safeTime EXCEPT ![r] = more] /\ m_safeTime'[r] = more
      /\ pc' = [pc EXCEPT ![r] = "loop"] /\ pc'[r] = "loop" /\ pc[r] \in {"loop", "poll"}
      /\ UNCHANGED <<m_events, m_currentTs, m_txMachineState, m_guaranteeTime, transit>>
  <2>1. CASE PollEnds(r)
      BY <1>1, <2>1 DEF PollEnds, Goto, EngineTypes, devices
  <2>2. CASE NoNeighbours(r)
      BY <1>1, <2>2 DEF NoNeighbours, EngineTypes, devices
  <2> QED BY <2>1, <2>2
<1>3. /\ more \in Nat /\ m_safeTime[r] <= more /\ more <= Infinity
      /\ \A q \in Neighbours(r) : more <= m_guaranteeTime[r][q]
    BY RankFacts, SafeTimeIs
<1> HIDE DEF more
<1>4. RankInv(r)'
  <2>1. m_currentTs[r] <= more
      BY <1>1, <1>3 DEF RankInv
  <2> QED BY <1>1, <1>2, <1>3, <2>1 DEF RankInv
<1>5. EngineTypes' /\ OthersKeep(r)
    BY <1>1, <1>2, <1>3 DEF EngineTypes, OthersKeep, Labels
<1>6. ASSUME NEW c \in ChannelsOf(r)
      PROVE  Promise(r, c, m_events[r], m_currentTs[r], more, "loop",
                     m_txMachineState[r][c], LastGuarantee(r, Peer(r, c)))
  <2>1. /\ Promise(r, c, m_events[r], m_currentTs[r], m_safeTime[r], pc[r],
                   m_txMachineState[r][c], LastGuarantee(r, Peer(r, c)))
        /\ LastGuarantee(r, Peer(r, c)) \in Nat /\ BundleDelay(r, Peer(r, c)) \in Nat
      BY RankFacts, ChannelFacts
  <2>2. Those(m_events[r], "null", Peer(r, c)) # {}
      BY <1>2, <2>1 DEF Promise, NullPart
  <2>3. Promise(r, c, m_events[r], m_currentTs[r], m_safeTime[r], "loop",
                m_txMachineState[r][c], LastGuarantee(r, Peer(r, c)))
      BY <2>1, <2>2, LabelChanges
  <2> QED BY <1>1, <1>3, <2>1, <2>3, SafeGrows
<1> QED BY <1>2, <1>4, <1>5, <1>6, QuietStep
-----------------------------------------------------------------------------
(* The actions that execute an event.                                      *)

\* ProcessOneEvent takes the first event of the list, which is safe.
LEMMA Popped ==
    ASSUME IInv, NEW r \in Ranks, NEW kinds, ProcessOneEvent(r, kinds)
    PROVE  /\ m_events[r] # <<>> /\ NextOf(m_events[r]) \in Nat /\ pc[r] = "loop"
           /\ NextOf(m_events[r]) <= m_safeTime[r]
           /\ Head(m_events[r]) \in OwnEvents(r) /\ Head(m_events[r]).kind \in kinds
           /\ ListOf(r, Tail(m_events[r]), NextOf(m_events[r]))
           /\ m_currentTs' = [m_currentTs EXCEPT ![r] = NextOf(m_events[r])]
           /\ m_currentTs'[r] = NextOf(m_events[r])
           /\ UNCHANGED <<m_safeTime, m_guaranteeTime>>
<1>1. /\ m_events[r] # <<>> /\ NextOf(m_events[r]) <= m_safeTime[r] /\ pc[r] = "loop"
      /\ Head(m_events[r]).kind \in kinds
      /\ m_currentTs' = [m_currentTs EXCEPT ![r] = NextOf(m_events[r])]
      /\ UNCHANGED <<m_safeTime, m_guaranteeTime>>
    BY DEF ProcessOneEvent, IsFinished, Ready
<1>2. ListOf(r, m_events[r], m_currentTs[r]) /\ m_currentTs[r] \in Nat
    BY RankFacts
<1>3. /\ Head(m_events[r]) \in OwnEvents(r) /\ Head(m_events[r]).ts = NextOf(m_events[r])
      /\ ListOf(r, Tail(m_events[r]), NextOf(m_events[r]))
    BY <1>1, <1>2, TailFacts
<1>4. NextOf(m_events[r]) \in Nat
    BY <1>3, EventFields
<1>5. m_currentTs'[r] = NextOf(m_events[r])
    BY <1>1 DEF IInv, EngineTypes
<1> QED BY <1>1, <1>3, <1>4, <1>5

\* Events that do nothing themselves to a channel.
LEMMA PopStep ==
    ASSUME OneChannelPerBundle, IInv, NEW r \in Ranks,
           NEW kinds \in SUBSET {"app", "receive", "stop", "cancelled"},
           ProcessOneEvent(r, kinds), NEW l \in {"handler", "poll"}, Goto(r, l),
           m_events' = [m_events EXCEPT ![r] = Tail(@)], UNCHANGED <<m_txMachineState, transit>>
    PROVE  IInv'
<1> DEFINE n == NextOf(m_events[r])
           rest == Tail(m_events[r])
<1>1. /\ m_events[r] # <<>> /\ n \in Nat /\ pc[r] = "loop" /\ n <= m_safeTime[r]
      /\ Head(m_events[r]) \in OwnEvents(r) /\ Head(m_events[r]).kind \in kinds
      /\ ListOf(r, rest, n) /\ m_currentTs' = [m_currentTs EXCEPT ![r] = n]
      /\ m_currentTs'[r] = n /\ UNCHANGED <<m_safeTime, m_guaranteeTime>>
    BY Popped
<1>2. EngineTypes /\ RankInv(r)
    BY DEF IInv, Own
<1>3. m_events'[r] = rest /\ pc' = [pc EXCEPT ![r] = l] /\ pc'[r] = l
    BY <1>2 DEF EngineTypes, Goto
<1> HIDE DEF n, rest
<1>4. RankInv(r)'
    BY <1>1, <1>2, <1>3 DEF RankInv
<1>5. EngineTypes' /\ OthersKeep(r)
    BY <1>1, <1>2, <1>3 DEF EngineTypes, OthersKeep, Labels
<1>6. ASSUME NEW c \in ChannelsOf(r)
      PROVE  Promise(r, c, rest, n, m_safeTime[r], l,
                     m_txMachineState[r][c], LastGuarantee(r, Peer(r, c)))
  <2>1. Promise(r, c, m_events[r], m_currentTs[r], m_safeTime[r], pc[r],
                m_txMachineState[r][c], LastGuarantee(r, Peer(r, c)))
      BY RankFacts
  <2>2. ~Is(Head(m_events[r]), "null", Peer(r, c)) /\ ~Is(Head(m_events[r]), "complete", c)
      BY <1>1 DEF Is
  <2>3. Promise(r, c, rest, n, m_safeTime[r], "handler",
                m_txMachineState[r][c], LastGuarantee(r, Peer(r, c)))
      BY <1>1, <2>1, <2>2, RankFacts, ChannelFacts, HeadOther DEF n, rest
  <2>4. Those(rest, "null", Peer(r, c)) # {}
      BY <2>3 DEF Promise, NullPart
  <2> QED BY <2>3, <2>4, LabelChanges
<1> QED BY <1>1, <1>3, <1>4, <1>5, <1>6, QuietStep

\* Executing an event that sends nothing.
LEMMA PlainEventSteps ==
    ASSUME OneChannelPerBundle, IInv, NEW r \in Ranks,
           ModelEvent(r) \/ CancelledEvent(r) \/ StopEvent(r)
    PROVE  IInv'
<1>1. CASE ModelEvent(r)
    BY <1>1, PopStep DEF ModelEvent, devices
<1>2. CASE CancelledEvent(r)
    BY <1>2, PopStep DEF CancelledEvent, devices
<1>3. CASE StopEvent(r)
    BY <1>3, PopStep DEF StopEvent, devices
<1> QED BY <1>1, <1>2, <1>3

\* TransmitStart, in a handler at time now, with its caller's change of label.
LEMMA TransmitStep ==
    ASSUME OneChannelPerBundle, IInv, NEW r \in Ranks, NEW b \in ChannelsOf(r),
           NEW now \in Nat, now <= m_safeTime[r], NEW list, ListOf(r, list, now),
           NEW txTime \in Nat, TransmitStart(r, b, now, txTime, list),
           Promise(r, b, list, now, m_safeTime[r], "handler", "READY", LastGuarantee(r, Peer(r, b))),
           \A c \in ChannelsOf(r) \ {b} :
              Promise(r, c, list, now, m_safeTime[r], "handler", m_txMachineState[r][c],
                      LastGuarantee(r, Peer(r, c))),
           m_currentTs' = [m_currentTs EXCEPT ![r] = now],
           NEW l \in {"handler", "poll"}, pc' = [pc EXCEPT ![r] = l],
           UNCHANGED <<m_safeTime, m_guaranteeTime>>
    PROVE  IInv'
<1> DEFINE p == Peer(r, b)
           busyTime == txTime + InterframeGap
           busy == Insert(list, Event(now + busyTime, "complete", b))
           g == Guarantee(r, p, busy)
           next == RescheduleNullMessageEvent(r, p, now, busy)
           rx == now + txTime + Delay[b]
<1>1. EngineTypes /\ RankInv(r) /\ m_safeTime[r] \in Nat
      /\ \A c \in ChannelsOf(r) : LastGuarantee(r, Peer(r, c)) \in Nat
    BY RankFacts DEF IInv, Own
<1>2. /\ BundleDelay(r, p) = Delay[b] /\ Delay[b] \in Nat
      /\ busyTime \in Nat /\ now + txTime + InterframeGap = now + busyTime
    BY OneDelay, NullMessageAssumption
<1>3. /\ m_txMachineState' = [m_txMachineState EXCEPT ![r][b] = "BUSY"]
      /\ Post(r, p, Message(rx, g))
      /\ m_events' = [m_events EXCEPT ![r] = next]
    BY <1>2 DEF TransmitStart
<1>4. /\ m_events'[r] = next /\ m_currentTs'[r] = now /\ pc'[r] = l
      /\ m_txMachineState'[r][b] = "BUSY"
      /\ \A c \in ChannelsOf(r) \ {b} : m_txMachineState'[r][c] = m_txMachineState[r][c]
    BY <1>1, <1>3 DEF EngineTypes
<1>5. g = Min({NextOf(busy), m_safeTime[r]}) + BundleDelay(r, p)
    BY DEF Guarantee
<1>6. /\ g \in Nat /\ LastGuarantee(r, p) <= g /\ LastGuarantee(r, p) <= now + BundleDelay(r, p)
      /\ ListOf(r, next, now)
      /\ Promise(r, b, next, now, m_safeTime[r], "handler", "BUSY", g)
  <2> DEFINE lg == LastGuarantee(r, p)
             safe == m_safeTime[r]
  <2>1. /\ lg \in Nat /\ safe \in Nat /\ now <= safe /\ busyTime \in Nat
        /\ Promise(r, b, list, now, safe, "handler", "READY", lg)
        /\ g = Min({NextOf(busy), safe}) + BundleDelay(r, p)
      BY <1>1, <1>2, <1>5
  <2> HIDE DEF g, busyTime, lg, safe
  <2>2. /\ g \in Nat /\ lg <= g /\ lg <= now + BundleDelay(r, p)
        /\ ListOf(r, next, now)
        /\ Promise(r, b, next, now, safe, "handler", "BUSY", g)
      BY <2>1, TransmitOwn
  <2> QED BY <2>2 DEF lg, safe
<1>7. ASSUME NEW c \in ChannelsOf(r) \ {b}
      PROVE  Promise(r, c, next, now, m_safeTime[r], "handler", m_txMachineState[r][c],
                     LastGuarantee(r, Peer(r, c)))
  <2> HIDE DEF busyTime
  <2> QED BY <1>1, <1>2, TransmitOther
<1> HIDE DEF g, next
<1>8. rx \in Nat /\ LastGuarantee(r, p) <= rx
    BY <1>1, <1>2, <1>6
<1>9. EngineTypes' /\ OthersKeep(r)
    BY <1>1, <1>3 DEF EngineTypes, OthersKeep, Labels
<1>10. RankInv(r)'
  <2>1. pc'[r] \notin {"outside", "initialize"}
      BY <1>4
  <2> QED BY <1>1, <1>4, <1>6, <2>1 DEF RankInv
<1>11. Promise(r, b, next, now, m_safeTime[r], l, "BUSY", g)
  <2>1. Those(next, "null", p) # {}
      BY <1>6 DEF Promise, NullPart
  <2> QED BY <1>6, <2>1, LabelChanges
<1>12. ASSUME NEW c \in ChannelsOf(r) \ {b}
       PROVE  Promise(r, c, next, now, m_safeTime[r], l, m_txMachineState[r][c],
                      LastGuarantee(r, Peer(r, c)))
  <2>1. Those(next, "null", Peer(r, c)) # {}
      BY <1>7 DEF Promise, NullPart
  <2> QED BY <1>7, <2>1, LabelChanges
<1>13. Promise(r, b, m_events'[r], m_currentTs'[r], m_safeTime'[r], pc'[r],
               m_txMachineState'[r][b], g)
    BY <1>4, <1>11
<1>14. \A c \in ChannelsOf(r) \ {b} :
           Promise(r, c, m_events'[r], m_currentTs'[r], m_safeTime'[r], pc'[r],
                   m_txMachineState'[r][c], LastGuarantee(r, Peer(r, c)))
    BY <1>4, <1>12
<1> HIDE DEF rx
<1> QED BY <1>3, <1>6, <1>8, <1>9, <1>10, <1>13, <1>14, SendStep

\* A handler sends a packet through its device.
LEMMA SendSteps ==
    ASSUME OneChannelPerBundle, IInv, NEW r \in Ranks, NEW c \in ChannelsOf(r),
           NEW txTime \in 1..MaxTxTime, Send(r, c, txTime)
    PROVE  IInv'
<1>1. /\ m_currentTs[r] \in Nat /\ m_currentTs[r] <= m_safeTime[r]
      /\ ListOf(r, m_events[r], m_currentTs[r])
      /\ \A b \in ChannelsOf(r) :
            Promise(r, b, m_events[r], m_currentTs[r], m_safeTime[r], pc[r],
                    m_txMachineState[r][b], LastGuarantee(r, Peer(r, b)))
    BY RankFacts
<1>2. EngineTypes /\ RankInv(r) /\ pc[r] = "handler" /\ txTime \in Nat
    BY NullMessageAssumption DEF IInv, Own, Send
<1>3. CASE m_txMachineState[r][c] = "READY"
  <2> DEFINE now == m_currentTs[r]
             list == m_events[r]
  <2>1. TransmitStart(r, c, now, txTime, list)
        /\ UNCHANGED <<m_currentTs, m_safeTime, m_guaranteeTime, pc>>
      BY <1>3 DEF Send
  <2>2. m_currentTs' = [m_currentTs EXCEPT ![r] = now] /\ pc' = [pc EXCEPT ![r] = "handler"]
      BY <1>2, <2>1 DEF EngineTypes
  <2>3. Promise(r, c, list, now, m_safeTime[r], "handler", "READY", LastGuarantee(r, Peer(r, c)))
      BY <1>1, <1>2, <1>3
  <2>4. \A b \in ChannelsOf(r) \ {c} :
            Promise(r, b, list, now, m_safeTime[r], "handler", m_txMachineState[r][b],
                    LastGuarantee(r, Peer(r, b)))
      BY <1>1, <1>2
  <2>5. now \in Nat /\ now <= m_safeTime[r] /\ ListOf(r, list, now)
      BY <1>1
  <2> HIDE DEF now, list
  <2> QED BY <1>2, <2>1, <2>2, <2>3, <2>4, <2>5, TransmitStep
<1>4. CASE m_txMachineState[r][c] # "READY"
  <2>1. UNCHANGED <<m_events, m_txMachineState, transit, m_currentTs, m_safeTime, m_guaranteeTime, pc>>
      BY <1>4 DEF Send
  <2>2. EngineTypes' /\ OthersKeep(r) /\ RankInv(r)'
      BY <1>2, <2>1 DEF EngineTypes, OthersKeep, RankInv
  <2> QED BY <1>1, <2>1, <2>2, QuietStep
<1> QED BY <1>3, <1>4

\* TransmitComplete finds its device BUSY.
LEMMA TransmitCompleteStep ==
    ASSUME OneChannelPerBundle, IInv, NEW r \in Ranks, NEW txTime \in 1..MaxTxTime,
           TransmitCompleteEvent(r, txTime)
    PROVE  IInv'
<1> DEFINE list == m_events[r]
           n == NextOf(list)
           rest == Tail(list)
           b == Head(list).on
<1>0. ProcessOneEvent(r, {"complete"}) /\ Goto(r, "poll")
    BY DEF TransmitCompleteEvent
<1>1. /\ list # <<>> /\ n \in Nat /\ pc[r] = "loop" /\ n <= m_safeTime[r]
      /\ Head(list) \in OwnEvents(r) /\ Head(list).kind \in {"complete"}
      /\ ListOf(r, rest, n) /\ m_currentTs' = [m_currentTs EXCEPT ![r] = n]
      /\ m_currentTs'[r] = n /\ UNCHANGED <<m_safeTime, m_guaranteeTime>>
    BY <1>0, Popped
<1>2. /\ EngineTypes /\ RankInv(r) /\ m_currentTs[r] \in Nat /\ ListOf(r, list, m_currentTs[r])
      /\ \A c \in ChannelsOf(r) :
            /\ Promise(r, c, list, m_currentTs[r], m_safeTime[r], pc[r],
                       m_txMachineState[r][c], LastGuarantee(r, Peer(r, c)))
            /\ LastGuarantee(r, Peer(r, c)) \in Nat
    BY RankFacts DEF IInv, Own
<1>3. b \in ChannelsOf(r) /\ Is(Head(list), "complete", b)
    BY <1>1, EventFields DEF Is
<1>4. /\ pc' = [pc EXCEPT ![r] = "poll"] /\ pc'[r] = "poll" /\ txTime \in Nat
    BY <1>0, <1>2, NullMessageAssumption DEF Goto, EngineTypes
<1>5. Promise(r, b, rest, n, m_safeTime[r], "handler", "READY", LastGuarantee(r, Peer(r, b)))
    BY <1>1, <1>2, <1>3, CompleteOwn
<1>6. ASSUME NEW c \in ChannelsOf(r) \ {b}
      PROVE  Promise(r, c, rest, n, m_safeTime[r], "handler", m_txMachineState[r][c],
                     LastGuarantee(r, Peer(r, c)))
  <2>1. ~Is(Head(list), "null", Peer(r, c)) /\ ~Is(Head(list), "complete", c)
      BY <1>3 DEF Is
  <2> QED BY <1>1, <1>2, <2>1, ChannelFacts, HeadOther
<1>7. CASE m_queue[r][b] > 0
  <2>1. TransmitStart(r, b, n, txTime, rest)
      BY <1>1, <1>7 DEF TransmitCompleteEvent
  <2> HIDE DEF n, rest, b, list
  <2> QED BY <1>1, <1>3, <1>4, <1>5, <1>6, <2>1, TransmitStep
<1>8. CASE m_queue[r][b] = 0
  <2>1. /\ m_events' = [m_events EXCEPT ![r] = rest]
        /\ m_txMachineState' = [m_txMachineState EXCEPT ![r][b] = "READY"]
        /\ UNCHANGED transit
      BY <1>8 DEF TransmitCompleteEvent
  <2> HIDE DEF n, rest, b, list
  <2>2. /\ m_events'[r] = rest /\ m_txMachineState'[r][b] = "READY"
        /\ \A c \in ChannelsOf(r) \ {b} : m_txMachineState'[r][c] = m_txMachineState[r][c]
      BY <1>2, <1>3, <2>1 DEF EngineTypes
  <2>3. RankInv(r)'
      BY <1>1, <1>2, <1>4, <2>2 DEF RankInv
  <2>4. EngineTypes' /\ OthersKeep(r)
      BY <1>1, <1>2, <1>4, <2>1 DEF EngineTypes, OthersKeep, Labels
  <2>5. ASSUME NEW c \in ChannelsOf(r)
        PROVE  Promise(r, c, rest, n, m_safeTime[r], "poll", m_txMachineState'[r][c],
                       LastGuarantee(r, Peer(r, c)))
    <3>1. Promise(r, c, rest, n, m_safeTime[r], "handler", m_txMachineState'[r][c],
                  LastGuarantee(r, Peer(r, c)))
        BY <1>5, <1>6, <2>2
    <3>2. Those(rest, "null", Peer(r, c)) # {}
        BY <3>1 DEF Promise, NullPart
    <3> QED BY <3>1, <3>2, LabelChanges
  <2> QED BY <1>1, <1>4, <2>1, <2>2, <2>3, <2>4, <2>5, QuietStep
<1> QED BY <1>7, <1>8 DEF TransmitCompleteEvent

\* The null message event sends a guarantee that is at least the last one.
LEMMA NullMessageStep ==
    ASSUME OneChannelPerBundle, IInv, NEW r \in Ranks, NullMessageEvent(r)
    PROVE  IInv'
<1> DEFINE list == m_events[r]
           n == NextOf(list)
           rest == Tail(list)
           p == Head(list).on
           g == Guarantee(r, p, rest)
           next == Insert(rest, NullEvent(r, p, n))
<1>0. ProcessOneEvent(r, {"null"}) /\ Goto(r, "poll") /\ rest # <<>>
    BY DEF NullMessageEvent
<1>1. /\ list # <<>> /\ n \in Nat /\ pc[r] = "loop" /\ n <= m_safeTime[r]
      /\ Head(list) \in OwnEvents(r) /\ Head(list).kind \in {"null"}
      /\ ListOf(r, rest, n) /\ m_currentTs' = [m_currentTs EXCEPT ![r] = n]
      /\ m_currentTs'[r] = n /\ UNCHANGED <<m_safeTime, m_guaranteeTime>>
    BY <1>0, Popped
<1>2. /\ EngineTypes /\ RankInv(r) /\ m_currentTs[r] \in Nat /\ ListOf(r, list, m_currentTs[r])
      /\ m_safeTime[r] \in Nat
      /\ \A c \in ChannelsOf(r) :
            /\ Promise(r, c, list, m_currentTs[r], m_safeTime[r], pc[r],
                       m_txMachineState[r][c], LastGuarantee(r, Peer(r, c)))
            /\ LastGuarantee(r, Peer(r, c)) \in Nat
    BY RankFacts DEF IInv, Own
<1>3. p \in Neighbours(r) /\ Is(Head(list), "null", p)
    BY <1>1, EventFields DEF Is
<1>4. PICK b \in ChannelsOf(r) : p = Peer(r, b)
    BY <1>3, Joined
<1>5. /\ m_events' = [m_events EXCEPT ![r] = next] /\ m_events'[r] = next
      /\ Post(r, Peer(r, b), Message(0, g)) /\ UNCHANGED m_txMachineState
      /\ pc' = [pc EXCEPT ![r] = "poll"] /\ pc'[r] = "poll"
    BY <1>0, <1>1, <1>2, <1>4 DEF NullMessageEvent, Goto, EngineTypes, devices
<1>6. /\ g = Min({NextOf(rest), m_safeTime[r]}) + BundleDelay(r, Peer(r, b))
      /\ next = Insert(rest, NullEvent(r, Peer(r, b), n)) /\ Is(Head(list), "null", Peer(r, b))
    BY <1>3, <1>4 DEF Guarantee
<1> HIDE DEF g, next
<1>7. /\ g \in Nat /\ LastGuarantee(r, Peer(r, b)) <= g /\ ListOf(r, next, n)
      /\ Promise(r, b, next, n, m_safeTime[r], "poll", m_txMachineState[r][b], g)
  <2>1. /\ Promise(r, b, list, m_currentTs[r], m_safeTime[r], pc[r],
                   m_txMachineState[r][b], LastGuarantee(r, Peer(r, b)))
        /\ LastGuarantee(r, Peer(r, b)) \in Nat
      BY <1>2
  <2> QED BY <1>0, <1>1, <1>2, <1>6, <2>1, NullOwn
<1>8. ASSUME NEW c \in ChannelsOf(r) \ {b}
      PROVE  Promise(r, c, next, n, m_safeTime[r], "poll", m_txMachineState[r][c],
                     LastGuarantee(r, Peer(r, c)))
  <2> DEFINE lg == LastGuarantee(r, Peer(r, c))
             tx == m_txMachineState[r][c]
             e == NullEvent(r, p, n)
             d == BundleDelay(r, Peer(r, c))
  <2>1. Peer(r, c) # p
      BY <1>4, OneDelay
  <2>2. ~Is(Head(list), "null", Peer(r, c)) /\ ~Is(Head(list), "complete", c)
      BY <1>3, <2>1 DEF Is
  <2>3. Promise(r, c, rest, n, m_safeTime[r], "handler", tx, lg)
      BY <1>1, <1>2, <2>2, ChannelFacts, HeadOther
  <2>4. /\ e \in OwnEvents(r) /\ n <= e.ts
        /\ ~Is(e, "null", Peer(r, c)) /\ ~Is(e, "complete", c)
    <3>1. NullInterval(r, p) \in Nat
        BY <1>4, ChannelFacts
    <3>2. n + NullInterval(r, p) \in Nat /\ n <= n + NullInterval(r, p)
        BY <1>1, <3>1
    <3>3. e \in OwnEvents(r)
        BY <1>4, <3>2, ChannelFacts DEF NullEvent
    <3>4. e.ts = n + NullInterval(r, p) /\ ~Is(e, "null", Peer(r, c)) /\ ~Is(e, "complete", c)
        BY <2>1 DEF NullEvent, Event, Is
    <3> QED BY <3>2, <3>3, <3>4
  <2>5. d \in Nat /\ lg \in Nat
      BY <1>2, ChannelFacts
  <2>6. next = Insert(rest, e)
      BY DEF next
  <2> HIDE DEF e, lg, tx, rest, n
  <2>7. Promise(r, c, Insert(rest, e), n, m_safeTime[r], "handler", tx, lg)
      BY <1>1, <2>3, <2>4, <2>5, InsertOther
  <2>8. Those(next, "null", Peer(r, c)) # {}
      BY <2>6, <2>7 DEF Promise, NullPart
  <2>9. Promise(r, c, next, n, m_safeTime[r], "handler", tx, lg)
      BY <2>6, <2>7
  <2>10. Promise(r, c, next, n, m_safeTime[r], "poll", tx, lg)
      BY <2>8, <2>9, LabelChanges
  <2> QED BY <2>10 DEF lg, tx
<1> HIDE DEF n, rest, list
<1>9. RankInv(r)'
    BY <1>1, <1>2, <1>5, <1>7 DEF RankInv
<1>10. EngineTypes' /\ OthersKeep(r)
    BY <1>1, <1>2, <1>5 DEF EngineTypes, OthersKeep, Labels
<1>11. Promise(r, b, m_events'[r], m_currentTs'[r], m_safeTime'[r], pc'[r],
               m_txMachineState'[r][b], g)
    BY <1>1, <1>5, <1>7
<1>12. \A c \in ChannelsOf(r) \ {b} :
           Promise(r, c, m_events'[r], m_currentTs'[r], m_safeTime'[r], pc'[r],
                   m_txMachineState'[r][c], LastGuarantee(r, Peer(r, c)))
    BY <1>1, <1>5, <1>8
<1>13. 0 \in Nat /\ (0 > 0 => LastGuarantee(r, Peer(r, b)) <= 0)
    OBVIOUS
<1> QED BY <1>1, <1>5, <1>7, <1>9, <1>10, <1>11, <1>12, <1>13, SendStep

\* The first guarantee of a bundle is its delay.
LEMMA InitializeStep ==
    ASSUME OneChannelPerBundle, IInv, NEW r \in Ranks, NEW p \in Neighbours(r),
           InitializeNullMessageEvents(r, p)
    PROVE  IInv'
<1> DEFINE list == m_events[r]
           g == BundleDelay(r, p)
           e == NullEvent(r, p, 0)
           next == Insert(list, e)
<1>1. /\ EngineTypes /\ RankInv(r) /\ m_currentTs[r] = 0 /\ m_safeTime[r] = 0
      /\ ListOf(r, list, 0) /\ pc[r] = "initialize"
      /\ \A c \in ChannelsOf(r) :
            /\ Promise(r, c, list, 0, 0, "initialize",
                       m_txMachineState[r][c], LastGuarantee(r, Peer(r, c)))
            /\ LastGuarantee(r, Peer(r, c)) \in Nat
    BY RankFacts DEF IInv, Own, InitializeNullMessageEvents
<1>2. PICK b \in ChannelsOf(r) : p = Peer(r, b)
    BY Joined
<1>3. /\ m_events' = [m_events EXCEPT ![r] = next] /\ m_events'[r] = next
      /\ Post(r, Peer(r, b), Message(0, g))
      /\ UNCHANGED <<m_currentTs, m_safeTime, m_guaranteeTime, m_txMachineState, pc>>
    BY <1>1, <1>2 DEF InitializeNullMessageEvents, EngineTypes, devices
<1>4. Those(list, "null", p) = {}
  <2>1. \A i \in DOMAIN list : ~Is(list[i], "null", p)
      BY DEF InitializeNullMessageEvents, HasNullEvent, Is
  <2> QED BY <2>1 DEF Those, Range
<1>5. /\ LastGuarantee(r, Peer(r, b)) = 0 /\ g \in Nat /\ ListOf(r, next, 0)
      /\ Promise(r, b, next, 0, 0, "initialize", m_txMachineState[r][b], g)
    BY <1>1, <1>2, <1>4, InitializeOwn
<1>6. ASSUME NEW c \in ChannelsOf(r) \ {b}
      PROVE  Promise(r, c, next, 0, 0, "initialize", m_txMachineState[r][c],
                     LastGuarantee(r, Peer(r, c)))
  <2> DEFINE lg == LastGuarantee(r, Peer(r, c))
             tx == m_txMachineState[r][c]
             d == BundleDelay(r, Peer(r, c))
  <2>1. Peer(r, c) # p
      BY <1>2, OneDelay
  <2>2. /\ e \in OwnEvents(r) /\ e.ts \in Nat
        /\ ~Is(e, "null", Peer(r, c)) /\ ~Is(e, "complete", c)
    <3>1. 0 + NullInterval(r, p) \in Nat
        BY <1>2, ChannelFacts
    <3>2. e \in OwnEvents(r)
        BY <1>2, <3>1, ChannelFacts DEF NullEvent
    <3>3. ~Is(e, "null", Peer(r, c)) /\ ~Is(e, "complete", c)
        BY <2>1 DEF NullEvent, Event, Is
    <3> QED BY <3>2, <3>3, EventFields
  <2>3. /\ d \in Nat /\ lg \in Nat /\ lg <= 0 + d /\ Promise(r, c, list, 0, 0, "initialize", tx, lg)
      BY <1>1, ChannelFacts DEF Promise
  <2> HIDE DEF e, lg, tx, d
  <2>4. 0 <= e.ts /\ lg <= e.ts + d
      BY <2>2, <2>3
  <2> QED BY <1>1, <2>2, <2>3, <2>4, InsertOther DEF lg, tx, d
<1> HIDE DEF g, next
<1>7. RankInv(r)'
    BY <1>1, <1>3, <1>5 DEF RankInv
<1>8. EngineTypes' /\ OthersKeep(r)
    BY <1>1, <1>3 DEF EngineTypes, OthersKeep
<1>9. Promise(r, b, m_events'[r], m_currentTs'[r], m_safeTime'[r], pc'[r],
              m_txMachineState'[r][b], g)
    BY <1>1, <1>3, <1>5
<1>10. \A c \in ChannelsOf(r) \ {b} :
           Promise(r, c, m_events'[r], m_currentTs'[r], m_safeTime'[r], pc'[r],
                   m_txMachineState'[r][c], LastGuarantee(r, Peer(r, c)))
    BY <1>1, <1>3, <1>6
<1>11. 0 \in Nat /\ (0 > 0 => LastGuarantee(r, Peer(r, b)) <= 0) /\ LastGuarantee(r, Peer(r, b)) <= g
    BY <1>5
<1> QED BY <1>3, <1>5, <1>7, <1>8, <1>9, <1>10, <1>11, SendStep

-----------------------------------------------------------------------------
(* The actions that receive a message.                                     *)

\* Receiving changes one link, and no promise: the guarantee given last is in
\* the message that is received, or still on its way.
LEMMA LinksAfterReceive ==
    ASSUME IInv, NEW r \in Ranks, NEW s \in Neighbours(r), Receive(r, s)
    PROVE  /\ LinkTypes'
           /\ Head(transit[s][r]).rxTime \in Nat
           /\ Head(transit[s][r]).rxTime > 0 => m_safeTime[r] <= Head(transit[s][r]).rxTime
           /\ \A q \in Neighbours(r) : m_safeTime[r] <= m_guaranteeTime'[r][q]
           /\ \A q \in Ranks \ {r} : m_guaranteeTime'[q] = m_guaranteeTime[q]
           /\ \A q \in Ranks : \A c \in ChannelsOf(q) :
                 /\ LinkInv(q, Peer(q, c))'
                 /\ LastGuarantee(q, Peer(q, c))' = LastGuarantee(q, Peer(q, c))
<1> DEFINE msgs == transit[s][r]
           held == m_guaranteeTime[r][s]
<1>1. s \in Ranks /\ s # r /\ r \in Neighbours(s)
    BY Joined
<1>2. LinkTypes /\ \A q \in Ranks : \A c \in ChannelsOf(q) : LinkInv(q, Peer(q, c))
    BY DEF IInv, Own
<1>3. Link(held, msgs)
  <2>1. PICK c \in ChannelsOf(s) : r = Peer(s, c)
      BY <1>1, Joined
  <2> QED BY <1>1, <1>2, <2>1 DEF LinkInv
<1>4. /\ msgs # <<>>
      /\ transit' = [transit EXCEPT ![s][r] = Tail(msgs)]
      /\ m_guaranteeTime' = [m_guaranteeTime EXCEPT ![r][s] = Head(msgs).guarantee]
    BY DEF Receive
<1>5. /\ Head(msgs).guarantee \in Nat /\ Head(msgs).rxTime \in Nat
      /\ held <= Head(msgs).guarantee
      /\ Head(msgs).rxTime > 0 => held <= Head(msgs).rxTime
      /\ Link(Head(msgs).guarantee, Tail(msgs))
      /\ GivenLast(Head(msgs).guarantee, Tail(msgs)) = GivenLast(held, msgs)
      /\ Tail(msgs) \in Seq(Messages)
  <2> HIDE DEF msgs, held
  <2> QED BY <1>3, <1>4, LinkTake
<1>6. /\ transit'[s][r] = Tail(msgs) /\ m_guaranteeTime'[r][s] = Head(msgs).guarantee
      /\ \A q \in Ranks \ {r} : m_guaranteeTime'[q] = m_guaranteeTime[q]
      /\ \A q \in Ranks \ {s} : transit'[q] = transit[q]
      /\ \A q \in Neighbours(r) \ {s} : m_guaranteeTime'[r][q] = m_guaranteeTime[r][q]
      /\ \A q \in Neighbours(s) \ {r} : transit'[s][q] = transit[s][q]
    BY <1>1, <1>2, <1>4 DEF LinkTypes
<1>7. m_safeTime[r] \in Nat /\ held \in Nat /\ m_safeTime[r] <= held
      /\ \A q \in Neighbours(r) : m_safeTime[r] <= m_guaranteeTime[r][q]
    BY RankFacts
<1> HIDE DEF msgs, held
<1>8. LinkTypes'
  <2>1. m_guaranteeTime'[r] \in [Neighbours(r) -> Nat]
      BY <1>2, <1>4, <1>5 DEF LinkTypes
  <2>2. transit'[s] \in [Neighbours(s) -> Seq(Messages)]
      BY <1>1, <1>2, <1>4, <1>5 DEF LinkTypes
  <2>3. DOMAIN m_guaranteeTime' = Ranks /\ DOMAIN transit' = Ranks
      BY <1>2, <1>4 DEF LinkTypes
  <2> QED BY <1>2, <1>6, <2>1, <2>2, <2>3 DEF LinkTypes
<1>9. ASSUME NEW q \in Neighbours(r) PROVE m_safeTime[r] <= m_guaranteeTime'[r][q]
  <2>1. CASE q = s
      BY <1>5, <1>6, <1>7, <2>1
  <2>2. CASE q # s
      BY <1>6, <1>7, <2>2
  <2> QED BY <2>1, <2>2
<1>10. ASSUME NEW q \in Ranks, NEW c \in ChannelsOf(q)
       PROVE  /\ LinkInv(q, Peer(q, c))'
              /\ LastGuarantee(q, Peer(q, c))' = LastGuarantee(q, Peer(q, c))
  <2> DEFINE p == Peer(q, c)
  <2>1. p \in Ranks /\ p # q /\ p \in Neighbours(q) /\ q \in Neighbours(p)
      BY ChannelEnds
  <2>2. CASE q = s /\ p = r
    <3>1. LinkInv(s, r)'
        BY <1>5, <1>6 DEF LinkInv
    <3>2. LastGuarantee(s, r)' = GivenLast(Head(msgs).guarantee, Tail(msgs))
        BY <1>6 DEF LastGuarantee, GivenLast
    <3>3. LastGuarantee(s, r) = GivenLast(held, msgs)
        BY DEF LastGuarantee, GivenLast, held, msgs
    <3> QED BY <1>5, <2>2, <3>1, <3>2, <3>3
  <2>3. CASE ~(q = s /\ p = r)
    <3>1. m_guaranteeTime'[p][q] = m_guaranteeTime[p][q]
      <4>1. CASE p = r
          BY <1>6, <2>1, <2>3, <4>1
      <4>2. CASE p # r
          BY <1>6, <2>1, <4>2
      <4> QED BY <4>1, <4>2
    <3>2. transit'[q][p] = transit[q][p]
      <4>1. CASE q = s
          BY <1>6, <2>1, <2>3, <4>1
      <4>2. CASE q # s
          BY <1>6, <2>1, <4>2
      <4> QED BY <4>1, <4>2
    <3> QED BY <1>2, <3>1, <3>2 DEF LinkInv, LastGuarantee
  <2> QED BY <2>2, <2>3
<1>11. Head(msgs).rxTime > 0 => m_safeTime[r] <= Head(msgs).rxTime
    BY <1>5, <1>7
<1> QED BY <1>5, <1>6, <1>8, <1>9, <1>10, <1>11 DEF msgs

\* A packet is due at or after the safe time, and so in time for every promise.
LEMMA ReceiveStep ==
    ASSUME OneChannelPerBundle, IInv, NEW r \in Ranks, NEW s \in Neighbours(r),
           ReceiveNonBlocking(r, s) \/ ReceiveBlocking(r, s)
    PROVE  IInv'
<1> DEFINE list == m_events[r]
           now == m_currentTs[r]
           safe == m_safeTime[r]
           rx == Head(transit[s][r]).rxTime
           e == Event(rx, "receive", r)
           next == m_events'[r]
           more == m_safeTime'[r]
<1>0. Receive(r, s)
    BY DEF ReceiveNonBlocking, ReceiveBlocking
<1>1. /\ LinkTypes' /\ rx \in Nat /\ (rx > 0 => safe <= rx)
      /\ \A q \in Neighbours(r) : safe <= m_guaranteeTime'[r][q]
      /\ \A q \in Ranks \ {r} : m_guaranteeTime'[q] = m_guaranteeTime[q]
      /\ \A q \in Ranks : \A c \in ChannelsOf(q) :
            /\ LinkInv(q, Peer(q, c))'
            /\ LastGuarantee(q, Peer(q, c))' = LastGuarantee(q, Peer(q, c))
    BY <1>0, LinksAfterReceive
<1>2. /\ EngineTypes /\ RankInv(r) /\ now \in Nat /\ safe \in Nat /\ now <= safe /\ safe <= Infinity
      /\ ListOf(r, list, now)
      /\ \A c \in ChannelsOf(r) :
            /\ Promise(r, c, list, now, safe, pc[r],
                       m_txMachineState[r][c], LastGuarantee(r, Peer(r, c)))
            /\ LastGuarantee(r, Peer(r, c)) \in Nat
    BY RankFacts DEF IInv, Own
<1>3. /\ m_events' = [m_events EXCEPT ![r] = next] /\ next \in {list, Insert(list, e)}
      /\ rx > 0 \/ next = list
      /\ pc[r] \in {"loop", "poll"} /\ UNCHANGED <<m_currentTs, m_txMachineState, pc>>
      /\ m_safeTime' = [m_safeTime EXCEPT ![r] = more]
      /\ more = safe \/ more = SafeTime(m_guaranteeTime'[r])
  <2>1. /\ m_events' = [m_events EXCEPT ![r] = IF rx > 0 THEN Insert(list, e) ELSE list]
        /\ DOMAIN m_events = Ranks
      BY <1>0, <1>2 DEF Receive, EngineTypes
  <2>2. /\ m_events' = [m_events EXCEPT ![r] = next] /\ next \in {list, Insert(list, e)}
        /\ rx > 0 \/ next = list
      BY <2>1
  <2>3. CASE ReceiveNonBlocking(r, s)
      BY <1>2, <2>2, <2>3 DEF ReceiveNonBlocking, EngineTypes, devices
  <2>4. CASE ReceiveBlocking(r, s)
      BY <1>2, <2>2, <2>4 DEF ReceiveBlocking, EngineTypes, devices
  <2> QED BY <2>3, <2>4
<1>4. /\ more \in Nat /\ safe <= more /\ more <= Infinity
      /\ \A q \in Neighbours(r) : more <= m_guaranteeTime'[r][q]
  <2>1. m_guaranteeTime'[r] \in [Neighbours(r) -> Nat]
      BY <1>1 DEF LinkTypes
  <2> DEFINE h == m_guaranteeTime'[r]
  <2> HIDE DEF h
  <2>2. h \in [Neighbours(r) -> Nat] /\ \A q \in Neighbours(r) : safe <= h[q]
      BY <1>1, <2>1 DEF h
  <2>3. /\ SafeTime(h) \in Nat /\ safe <= SafeTime(h) /\ SafeTime(h) <= Infinity
        /\ \A q \in Neighbours(r) : SafeTime(h) <= h[q]
      BY <1>2, <2>2, SafeTimeIs
  <2>4. CASE more = safe
      BY <1>1, <1>2, <2>4
  <2>5. CASE more = SafeTime(h)
      BY <2>3, <2>5 DEF h
  <2> QED BY <1>3, <2>4, <2>5 DEF h
<1>5. /\ e \in OwnEvents(r) /\ e.ts = rx
      /\ \A o : ~Is(e, "null", o) /\ ~Is(e, "complete", o)
    BY <1>1, PlainEvent
<1> HIDE DEF e, next, more, list, now, safe, rx
<1>6. ListOf(r, next, now)
  <2>1. CASE rx > 0
    <3>1. now <= e.ts
        BY <1>1, <1>2, <1>5, <2>1
    <3> QED BY <1>2, <1>3, <1>5, <3>1, InsertFacts
  <2> QED BY <1>2, <1>3, <2>1
<1>7. ASSUME NEW c \in ChannelsOf(r)
      PROVE  Promise(r, c, next, now, more, pc[r],
                     m_txMachineState[r][c], LastGuarantee(r, Peer(r, c)))
  <2> DEFINE lg == LastGuarantee(r, Peer(r, c))
             tx == m_txMachineState[r][c]
             d == BundleDelay(r, Peer(r, c))
  <2>1. d \in Nat /\ lg \in Nat /\ lg <= safe + d /\ Promise(r, c, list, now, safe, pc[r], tx, lg)
      BY <1>2, ChannelFacts DEF Promise
  <2> HIDE DEF lg, tx, d
  <2>2. Promise(r, c, next, now, safe, pc[r], tx, lg)
    <3>1. CASE rx > 0
      <4>1. now <= e.ts /\ lg <= e.ts + d
          BY <1>1, <1>2, <1>5, <2>1, <3>1
      <4>2. Promise(r, c, Insert(list, e), now, safe, pc[r], tx, lg)
          BY <1>2, <1>5, <2>1, <4>1, InsertOther DEF d
      <4> QED BY <1>3, <2>1, <4>2
    <3> QED BY <1>3, <2>1, <3>1
  <2>3. Promise(r, c, next, now, more, pc[r], tx, lg)
      BY <1>2, <1>4, <2>1, <2>2, SafeGrows DEF d
  <2> QED BY <2>3 DEF lg, tx
<1>8. EngineTypes'
    BY <1>2, <1>3, <1>4 DEF EngineTypes
<1>9. RankInv(r)'
  <2>1. now <= more
      BY <1>2, <1>4
  <2>2. m_events'[r] = next /\ m_currentTs'[r] = now /\ m_safeTime'[r] = more
      BY <1>3 DEF next, more, now
  <2>3. pc'[r] \notin {"outside", "initialize"}
      BY <1>3
  <2> QED BY <1>4, <1>6, <2>1, <2>2, <2>3 DEF RankInv
<1>10. Own(r)'
  <2>1. \A c \in ChannelsOf(r) : PromiseInv(r, c)'
    <3>1. m_events'[r] = next /\ m_currentTs'[r] = now /\ m_safeTime'[r] = more
        BY <1>3 DEF next, more, now
    <3> QED BY <1>1, <1>3, <1>7, <3>1 DEF PromiseInv
  <2> QED BY <1>1, <1>9, <2>1 DEF Own
<1>11. ASSUME NEW q \in Ranks \ {r} PROVE Own(q)'
  <2>1. Own(q) /\ EngineTypes
      BY DEF IInv
  <2>2. /\ m_events'[q] = m_events[q] /\ m_currentTs'[q] = m_currentTs[q]
        /\ m_safeTime'[q] = m_safeTime[q] /\ pc'[q] = pc[q]
        /\ m_txMachineState'[q] = m_txMachineState[q]
      BY <1>3, <2>1 DEF EngineTypes
  <2>3. RankInv(q)'
      BY <1>1, <2>1, <2>2 DEF Own, RankInv
  <2>4. \A c \in ChannelsOf(q) : PromiseInv(q, c)'
      BY <1>1, <2>1, <2>2 DEF Own, PromiseInv
  <2> QED BY <1>1, <2>3, <2>4 DEF Own
<1> QED BY <1>1, <1>8, <1>10, <1>11 DEF IInv
-----------------------------------------------------------------------------
(* The theorems.                                                           *)

\* The ranks start with the inductive invariant.
LEMMA InitIInv ==
    ASSUME OneChannelPerBundle, Init
    PROVE  IInv
<1>1. EngineTypes
    BY DEF Init, EngineTypes, Labels
<1>2. LinkTypes
  <2>1. <<>> \in Seq(Messages)
      OBVIOUS
  <2> QED BY <2>1 DEF Init, LinkTypes
<1>3. ASSUME NEW r \in Ranks PROVE Own(r)
  <2>1. m_events[r] = <<>> /\ m_currentTs[r] = 0 /\ m_safeTime[r] = 0 /\ pc[r] = "outside"
        /\ \A c \in ChannelsOf(r) : m_txMachineState[r][c] = "READY"
      BY DEF Init
  <2>2. Range(<<>>) = {} /\ <<>> \in Seq(OwnEvents(r))
      BY DEF Range
  <2>3. Infinity \in Nat
      BY NullMessageAssumption
  <2>4. RankInv(r)
    <3>1. ListOf(r, <<>>, 0)
        BY <2>2 DEF ListOf, Sorted
    <3>2. \A q \in Neighbours(r) : m_guaranteeTime[r][q] = 0
        BY DEF Init
    <3> QED BY <2>1, <2>3, <3>1, <3>2 DEF RankInv
  <2>5. ASSUME NEW c \in ChannelsOf(r) PROVE LinkInv(r, Peer(r, c)) /\ PromiseInv(r, c)
    <3> DEFINE p == Peer(r, c)
               d == BundleDelay(r, p)
    <3>1. p \in Neighbours(r) /\ p \in Ranks /\ r \in Neighbours(p) /\ d \in Nat
        BY ChannelEnds, ChannelFacts
    <3>2. m_guaranteeTime[p][r] = 0 /\ transit[r][p] = <<>>
        BY <3>1 DEF Init
    <3>3. LinkInv(r, p)
      <4>1. Link(0, <<>>)
          BY DEF Link
      <4> QED BY <3>2, <4>1 DEF LinkInv
    <3>4. LastGuarantee(r, p) = 0
        BY <3>2 DEF LastGuarantee
    <3>5. Those(<<>>, "null", p) = {} /\ Those(<<>>, "complete", c) = {}
        BY <2>2 DEF Those
    <3>6. AtMostOnce(<<>>, "null", p) /\ AtMostOnce(<<>>, "complete", c)
        BY DEF AtMostOnce
    <3>7. NullPart(r, p, <<>>, 0, "outside", 0)
        BY <3>5, <3>6 DEF NullPart
    <3> HIDE DEF d
    <3>8. DevicePart(p, c, <<>>, 0, "outside", "READY", 0, d)
        BY <2>2, <3>5, <3>6 DEF DevicePart, Calm
    <3>9. 0 <= 0 + d
        BY <3>1
    <3>10. Promise(r, c, <<>>, 0, 0, "outside", "READY", 0)
        BY <3>7, <3>8, <3>9 DEF Promise, d
    <3> QED BY <2>1, <3>3, <3>4, <3>10 DEF PromiseInv
  <2> QED BY <2>4, <2>5 DEF Own
<1> QED BY <1>1, <1>2, <1>3 DEF IInv

\* Every step keeps the inductive invariant.
LEMMA NextIInv ==
    ASSUME OneChannelPerBundle, IInv, [Next]_vars
    PROVE  IInv'
<1>1. CASE UNCHANGED vars
  <2>1. UNCHANGED <<m_events, m_currentTs, m_safeTime, m_guaranteeTime, m_txMachineState, transit, pc>>
      BY <1>1 DEF vars, devices
  <2>2. EngineTypes' /\ LinkTypes'
      BY <2>1 DEF IInv, EngineTypes, LinkTypes
  <2>3. ASSUME NEW s \in Ranks PROVE Own(s)'
      BY <2>1 DEF IInv, Own, RankInv, LinkInv, PromiseInv, LastGuarantee
  <2> QED BY <2>2, <2>3 DEF IInv
<1>2. ASSUME NEW r \in Ranks, ModelCode(r) PROVE IInv'
    BY <1>2, ScheduleStep, SendSteps DEF ModelCode
<1>3. ASSUME NEW r \in Ranks, Engine(r) PROVE IInv'
  <2>1. CASE Run(r)
      BY <2>1, RunStep
  <2>2. CASE EnterLoop(r) \/ HandlerReturns(r) \/ RunReturns(r)
      BY <2>2, LabelSteps
  <2>3. CASE ModelEvent(r) \/ CancelledEvent(r) \/ StopEvent(r)
      BY <2>3, PlainEventSteps
  <2>4. CASE NullMessageEvent(r)
      BY <2>4, NullMessageStep
  <2>5. CASE \E txTime \in 1..MaxTxTime : TransmitCompleteEvent(r, txTime)
      BY <2>5, TransmitCompleteStep
  <2>6. CASE \E s \in Neighbours(r) : \/ InitializeNullMessageEvents(r, s)
                                      \/ ReceiveNonBlocking(r, s) \/ ReceiveBlocking(r, s)
      BY <2>6, InitializeStep, ReceiveStep
  <2>7. CASE PollEnds(r) \/ NoNeighbours(r)
      BY <2>7, SafeTimeSteps
  <2> QED BY <1>3, <2>1, <2>2, <2>3, <2>4, <2>5, <2>6, <2>7 DEF Engine
<1> QED BY <1>1, <1>2, <1>3 DEF Next, Terminated

\* The inductive invariant holds throughout.
LEMMA Invariance ==
    ASSUME OneChannelPerBundle
    PROVE  Spec => []IInv
<1>1. Init => IInv
    BY InitIInv
<1>2. IInv /\ [Next]_vars => IInv'
    BY NextIInv
<1> QED BY <1>1, <1>2, PTL DEF Spec

\* No packet is due before a guarantee its sender has given before it
\* (CalculateGuaranteeTime), when no two ranks are joined by two channels: the
\* device has its TransmitComplete in the list before the guarantee is computed.
THEOREM GuaranteesAreKept ==
    ASSUME OneChannelPerBundle
    PROVE  Spec => []GuaranteeKept
<1>1. ASSUME IInv PROVE GuaranteeKept
  <2> SUFFICES ASSUME NEW s \in Ranks, NEW r \in Neighbours(s), NEW i \in DOMAIN transit[s][r],
                      transit[s][r][i].rxTime > 0
               PROVE  /\ m_guaranteeTime[r][s] <= transit[s][r][i].rxTime
                      /\ \A j \in 1..(i - 1) :
                            transit[s][r][j].guarantee <= transit[s][r][i].rxTime
      BY DEF GuaranteeKept
  <2> DEFINE msgs == transit[s][r]
             held == m_guaranteeTime[r][s]
  <2>1. Link(held, msgs)
      BY <1>1, Joined, RankFacts
  <2>2. /\ DOMAIN msgs = 1..Len(msgs) /\ Len(msgs) \in Nat /\ held \in Nat
        /\ \A j \in DOMAIN msgs : msgs[j].guarantee \in Nat /\ msgs[j].rxTime \in Nat
    <3> HIDE DEF held, msgs
    <3> QED BY <2>1, LinkFacts DEF Link
  <2>3. held <= msgs[i].rxTime
      BY <2>1 DEF Link
  <2>4. ASSUME NEW j \in 1..(i - 1) PROVE msgs[j].guarantee <= msgs[i].rxTime
    <3>1. j \in DOMAIN msgs /\ j < i
        BY <2>2
    <3> QED BY <2>1, <3>1 DEF Link
  <2> QED BY <2>2, <2>3, <2>4
<1> QED BY <1>1, Invariance, PTL

\* The assertions of ScheduleWithContext and of CalculateSafeTime hold for
\* every message on its way: neither its packet nor its guarantee is in the
\* past of the rank that receives it.
THEOREM NothingFromThePast ==
    ASSUME OneChannelPerBundle
    PROVE  Spec => []NoMessageFromThePast
<1>1. ASSUME IInv PROVE NoMessageFromThePast
  <2> SUFFICES ASSUME NEW s \in Ranks, NEW r \in Neighbours(s), NEW i \in DOMAIN transit[s][r]
               PROVE  /\ transit[s][r][i].guarantee >= m_currentTs[r]
                      /\ transit[s][r][i].rxTime > 0 => transit[s][r][i].rxTime >= m_currentTs[r]
      BY DEF NoMessageFromThePast
  <2> DEFINE msgs == transit[s][r]
             held == m_guaranteeTime[r][s]
  <2>1. Link(held, msgs) /\ r \in Ranks /\ s \in Neighbours(r)
      BY <1>1, Joined, RankFacts
  <2>2. held \in Nat /\ msgs[i].guarantee \in Nat /\ msgs[i].rxTime \in Nat
    <3> HIDE DEF held, msgs
    <3> QED BY <2>1, LinkFacts DEF Link, msgs
  <2>3. /\ held <= msgs[i].guarantee
        /\ msgs[i].rxTime > 0 => held <= msgs[i].rxTime
      BY <2>1 DEF Link
  <2>4. m_currentTs[r] \in Nat /\ m_safeTime[r] \in Nat /\ m_currentTs[r] <= m_safeTime[r]
        /\ m_safeTime[r] <= held
      BY <1>1, <2>1, RankFacts
  <2> QED BY <2>2, <2>3, <2>4
<1> QED BY <1>1, Invariance, PTL

\* ScheduleNullMessageEvent and RescheduleNullMessageEvent keep exactly one
\* null message event per bundle, due before the last guarantee is used up.
THEOREM LookAheadIsRenewed ==
    ASSUME OneChannelPerBundle
    PROVE  Spec => []LookAheadRenewed
<1>1. ASSUME IInv PROVE LookAheadRenewed
  <2> SUFFICES ASSUME NEW r \in Ranks, pc[r] \in {"loop", "handler", "poll"}, NEW q \in Neighbours(r)
               PROVE  LET live == {i \in DOMAIN m_events[r] :
                                      m_events[r][i].kind = "null" /\ m_events[r][i].on = q}
                      IN /\ Cardinality(live) = 1
                         /\ \A i \in live : m_events[r][i].ts <= LastGuarantee(r, q)
      BY DEF LookAheadRenewed
  <2> DEFINE list == m_events[r]
             live == {i \in DOMAIN list : list[i].kind = "null" /\ list[i].on = q}
  <2>1. PICK c \in ChannelsOf(r) : q = Peer(r, c)
      BY Joined
  <2>2. NullPart(r, q, list, m_currentTs[r], pc[r], LastGuarantee(r, q))
      BY <1>1, <2>1, RankFacts DEF Promise
  <2>3. HasNullEvent(list, q)
      BY <1>1, AllHaveNullEvent
  <2>4. PICK i \in DOMAIN list : list[i].kind = "null" /\ list[i].on = q
      BY <2>3 DEF HasNullEvent
  <2>5. live = {i}
      BY <2>2, <2>4 DEF NullPart, AtMostOnce, Is
  <2>6. Cardinality({i}) = 1
      BY FS_Singleton
  <2>7. ASSUME NEW j \in live PROVE list[j].ts <= LastGuarantee(r, q)
    <3>1. list[j] \in Range(list) /\ Is(list[j], "null", q)
        BY DEF Range, Is
    <3> QED BY <2>2, <3>1 DEF NullPart, Those
  <2> QED BY <2>5, <2>6, <2>7
<1> QED BY <1>1, Invariance, PTL
=============================================================================
