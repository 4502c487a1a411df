----------------------- MODULE GrantedTimeWindowProofs -----------------------
(***************************************************************************)
(* Proofs about the granted time window, for any number of ranks, any      *)
(* topology and any bounds.                                                *)
(***************************************************************************)
EXTENDS GrantedTimeWindow, DataFacts, FunctionTheorems

\* What the assumption says of the constants.
LEMMA Constants ==
    /\ IsFiniteSet(Ranks) /\ Ranks # {}
    /\ MaxLookAhead \in Nat /\ Infinity \in Nat /\ MaxDelay \in Nat /\ MaxTxTime \in Nat
    /\ MaxLookAhead < Infinity
    /\ \A r, q \in Ranks : Delay[r][q] \in Nat /\ Delay[r][q] < Infinity
                           /\ Delay[r][q] = Delay[q][r]
BY GrantedAssumption

\* Min of a finite set of numbers is its least element.
LEMMA MinOfNumbers ==
    ASSUME NEW S \in SUBSET Int, IsFiniteSet(S), S # {}
    PROVE  Min(S) \in S /\ \A x \in S : Min(S) <= x
BY LeastNumber DEF Min

\* Max of a finite set of numbers is one of them.
LEMMA MaxOfNumbers ==
    ASSUME NEW S \in SUBSET Int, IsFiniteSet(S), S # {}
    PROVE  Max(S) \in S
BY GreatestNumber DEF Max

-----------------------------------------------------------------------------
(* CalculateLookAhead.                                                     *)

\* The look-ahead a rank computes from its own links is no more than their delays.
LEMMA OwnLookAheadIs ==
    ASSUME NEW r \in Ranks
    PROVE  /\ OwnLookAhead(r) \in Nat /\ OwnLookAhead(r) <= Infinity
           /\ \A q \in Neighbours(r) : OwnLookAhead(r) <= Delay[r][q]
           /\ OwnLookAhead(r) = Infinity => Neighbours(r) = {}
<1> DEFINE f == [q \in Neighbours(r) |-> Delay[r][q]]
           cap == IF MaxLookAhead > 0 THEN MaxLookAhead ELSE Infinity
           D == {Delay[r][q] : q \in Neighbours(r)}
<1>1. IsFiniteSet(Neighbours(r)) /\ Neighbours(r) \subseteq Ranks
    BY Constants, FS_Subset DEF Neighbours
<1>2. IsFiniteSet(D)
  <2>1. {f[q] : q \in Neighbours(r)} = D
      OBVIOUS
  <2>2. IsFiniteSet({f[q] : q \in Neighbours(r)})
      BY <1>1, FiniteValues
  <2> QED  BY <2>1, <2>2
<1>3. IsFiniteSet(D \cup {cap})
    BY <1>2, FS_AddElement
<1>4. cap \in Nat /\ cap <= Infinity /\ D \subseteq Nat /\ \A d \in D : d < Infinity
    BY <1>1, Constants
<1>5. /\ Min(D \cup {cap}) \in D \cup {cap}
      /\ \A x \in D \cup {cap} : Min(D \cup {cap}) <= x
  <2>1. D \cup {cap} \in SUBSET Int /\ D \cup {cap} # {}
      BY <1>4
  <2> QED  BY <1>3, <2>1, MinOfNumbers
<1>6. OwnLookAhead(r) = Min(D \cup {cap})
    BY DEF OwnLookAhead
<1> HIDE DEF cap
<1>7. ASSUME NEW q \in Neighbours(r)
      PROVE  OwnLookAhead(r) <= Delay[r][q] /\ OwnLookAhead(r) < Infinity
  <2>1. Delay[r][q] \in D
      BY <1>7
  <2>2. Min(D \cup {cap}) \in Nat
      BY <1>4, <1>5
  <2>3. Min(D \cup {cap}) <= Delay[r][q] /\ Delay[r][q] < Infinity /\ Delay[r][q] \in Nat
      BY <1>4, <1>5, <2>1
  <2> QED  BY <1>6, <2>2, <2>3, Constants
<1>8. OwnLookAhead(r) \in Nat /\ OwnLookAhead(r) <= Infinity
    BY <1>4, <1>5, <1>6, Constants
<1> QED  BY <1>7, <1>8, Constants

\* The lookahead of a rank is no longer than any link that leads to it.
LEMMA LookAheadShort ==
    ASSUME NEW q \in Ranks
    PROVE  /\ LookAhead(q) \in Nat
           /\ \A r \in Ranks : q \in Neighbours(r) => LookAhead(q) <= Delay[r][q]
<1> DEFINE f == [r \in Ranks |-> IF OwnLookAhead(r) = Infinity THEN 0 ELSE OwnLookAhead(r)]
           L == {IF OwnLookAhead(r) = Infinity THEN 0 ELSE OwnLookAhead(r) : r \in Ranks}
<1>1. MaxOfLookAheads \in Nat
  <2>1. {f[r] : r \in Ranks} = L
      OBVIOUS
  <2>2. IsFiniteSet({f[r] : r \in Ranks})
    <3>1. DOMAIN f = Ranks
        OBVIOUS
    <3> HIDE DEF f
    <3> QED  BY <3>1, Constants, FiniteValues
  <2>3. L \subseteq Nat /\ L # {}
      BY Constants, OwnLookAheadIs
  <2>4. L \in SUBSET Int /\ IsFiniteSet(L)
      BY <2>1, <2>2, <2>3
  <2>5. Max(L) \in L
      BY <2>3, <2>4, MaxOfNumbers
  <2> QED  BY <2>3, <2>5 DEF MaxOfLookAheads
<1>2. /\ OwnLookAhead(q) \in Nat
      /\ \A r \in Neighbours(q) : OwnLookAhead(q) <= Delay[q][r]
      /\ OwnLookAhead(q) = Infinity => Neighbours(q) = {}
    BY OwnLookAheadIs
<1>3. LookAhead(q) \in Nat
    BY <1>1, <1>2 DEF LookAhead
<1>4. ASSUME NEW r \in Ranks, q \in Neighbours(r) PROVE LookAhead(q) <= Delay[r][q]
  <2>1. r \in Neighbours(q) /\ Delay[r][q] = Delay[q][r] /\ Delay[r][q] \in Nat
      BY <1>4, Constants DEF Neighbours
  <2>2. LookAhead(q) = 0 \/ LookAhead(q) = OwnLookAhead(q)
      BY <1>2, <2>1 DEF LookAhead
  <2> QED  BY <1>2, <2>1, <2>2
<1> QED  BY <1>3, <1>4

-----------------------------------------------------------------------------
(* The totals of the packet counts.                                        *)

\* Nothing was counted yet.
LEMMA TotalOfZero == Total([r \in Ranks |-> 0]) = 0
<1>1. Packets([r \in Ranks |-> 0]) = {}
    BY DEF Packets
<1> QED  BY <1>1, FS_EmptySet DEF Total

\* A total of counts is a number.
LEMMA PacketsFinite ==
    ASSUME NEW count \in [Ranks -> Nat]
    PROVE  IsFiniteSet(Packets(count)) /\ Total(count) \in Nat
<1> DEFINE f == [r \in Ranks |-> {r} \X (1..count[r])]
           S == {{r} \X (1..count[r]) : r \in Ranks}
<1>1. IsFiniteSet(S)
  <2>1. {f[r] : r \in Ranks} = S
      OBVIOUS
  <2>2. IsFiniteSet({f[r] : r \in Ranks})
    <3>1. DOMAIN f = Ranks
        OBVIOUS
    <3> HIDE DEF f
    <3> QED  BY <3>1, Constants, FiniteValues
  <2> QED  BY <2>1, <2>2
<1>2. ASSUME NEW r \in Ranks PROVE IsFiniteSet({r} \X (1..count[r]))
  <2>1. IsFiniteSet({r})
      BY FS_Singleton
  <2>2. 1 \in Int /\ count[r] \in Int
      OBVIOUS
  <2>3. IsFiniteSet(1..count[r])
      BY ONLY <2>2, FS_Interval
  <2> QED  BY <2>1, <2>3, FS_Product
<1>3. \A T \in S : IsFiniteSet(T)
    BY <1>2
<1>4. IsFiniteSet(Packets(count))
    BY <1>1, <1>3, FS_UNION DEF Packets
<1> QED  BY <1>4, FS_CardinalityType DEF Total

\* One packet more of one rank is one more of all.
LEMMA OnePacketMore ==
    ASSUME NEW count \in [Ranks -> Nat], NEW r \in Ranks
    PROVE  Total([count EXCEPT ![r] = @ + 1]) = Total(count) + 1
<1> DEFINE more == [count EXCEPT ![r] = @ + 1]
           p == <<r, count[r] + 1>>
<1>1. more \in [Ranks -> Nat] /\ more[r] = count[r] + 1 /\ count[r] \in Nat
      /\ \A q \in Ranks \ {r} : more[q] = count[q]
    OBVIOUS
<1>2. p \notin Packets(count)
    BY <1>1 DEF Packets
<1>3. Packets(more) = Packets(count) \cup {p}
  <2>1. ASSUME NEW x \in Packets(count) PROVE x \in Packets(more)
    <3>1. PICK q \in Ranks : x \in {q} \X (1..count[q])
        BY <2>1 DEF Packets
    <3>2. x \in {q} \X (1..more[q])
        BY <1>1, <3>1
    <3> QED  BY <3>2 DEF Packets
  <2>2. p \in Packets(more)
    <3>1. p \in {r} \X (1..more[r])
        BY <1>1
    <3> QED  BY <3>1 DEF Packets
  <2>3. ASSUME NEW x \in Packets(more), x # p PROVE x \in Packets(count)
    <3>1. PICK q \in Ranks : x \in {q} \X (1..more[q])
        BY <2>3 DEF Packets
    <3>2. x \in {q} \X (1..count[q])
        BY <1>1, <2>3, <3>1
    <3> QED  BY <3>2 DEF Packets
  <2> QED  BY <2>1, <2>2, <2>3
<1> QED  BY <1>2, <1>3, PacketsFinite, FS_AddElement DEF Total
-----------------------------------------------------------------------------
(* Types, the lists of events, the counts and the contributions.           *)

Events == [ts : Nat, uid : Nat]
Messages == [id : Nat, to : Ranks, rxTime : Nat]
Contributions == [rx : Nat, tx : Nat, finished : BOOLEAN, smallest : Nat]
Places == {"outside", "loop", "handler", "receive", "gather", "done"}

TypeInv ==
    /\ m_events \in [Ranks -> SUBSET Events]
    /\ m_uid \in [Ranks -> Nat] /\ m_currentTs \in [Ranks -> Nat]
    /\ m_grantedTime \in [Ranks -> Nat] /\ m_stop \in [Ranks -> BOOLEAN]
    /\ m_rxCount \in [Ranks -> Nat] /\ m_txCount \in [Ranks -> Nat]
    /\ m_pLBTS \in [Ranks -> Contributions]
    /\ network \in SUBSET Messages /\ sent \in Nat
    /\ pc \in [Ranks -> Places]

\* A rank's list is finite, its uids tell events apart, and no time stamp
\* reaches the end of time.
ListInv ==
    \A r \in Ranks :
        /\ IsFiniteSet(m_events[r])
        /\ \A e \in m_events[r] : e.uid < m_uid[r] /\ e.ts < Infinity
        /\ \A e, f \in m_events[r] : e # f => e.uid # f.uid
        /\ m_currentTs[r] < Infinity

\* A packet sent and not yet received is in transit.
CountInv ==
    /\ IsFiniteSet(network)
    /\ \A m \in network : m.id <= sent /\ m.rxTime < Infinity
    /\ Total(m_txCount) = Total(m_rxCount) + Cardinality(network)

\* What a rank has contributed is still true when all have.
LbtsInv ==
    \A r \in Ranks : pc[r] = "gather" =>
        /\ m_pLBTS[r].rx = m_rxCount[r] /\ m_pLBTS[r].tx = m_txCount[r]
        /\ m_pLBTS[r].smallest = NextTs(r)

\* All ranks enter Run together; nothing has happened before.
PhaseInv ==
    \/ \A r \in Ranks : pc[r] # "outside"
    \/ network = {} /\ \A r \in Ranks : pc[r] = "outside" /\ m_currentTs[r] = 0

BaseInv == TypeInv /\ ListInv /\ CountInv /\ LbtsInv /\ PhaseInv

\* PeekNext gives a pending event that no other precedes.
LEMMA EarliestFirst ==
    ASSUME TypeInv, ListInv, NEW r \in Ranks, m_events[r] # {}
    PROVE  /\ Earliest(r) \in m_events[r] /\ Earliest(r).ts \in Nat
           /\ \A e \in m_events[r] : Earliest(r).ts <= e.ts
<1>1. m_events[r] \subseteq Events
    BY DEF TypeInv
<1>2. \A e \in m_events[r] : e.ts \in Nat /\ e.uid \in Nat
    BY <1>1 DEF Events
<1>3. \E e \in m_events[r] : \A f \in m_events[r] \ {e} : KeyBefore(e, f)
    BY <1>2, FirstByKey DEF ListInv, KeyBefore
<1>4. /\ Earliest(r) \in m_events[r]
      /\ \A f \in m_events[r] \ {Earliest(r)} : KeyBefore(Earliest(r), f)
    BY <1>3 DEF Earliest
<1> QED  BY <1>2, <1>4 DEF KeyBefore

\* What a rank contributes is a time that none of its events precedes.
LEMMA NextTsIs ==
    ASSUME TypeInv, ListInv, NEW r \in Ranks
    PROVE  /\ NextTs(r) \in Nat /\ IsLocalFinished(r) \in BOOLEAN
           /\ ~m_stop[r] => \A e \in m_events[r] : NextTs(r) <= e.ts
           /\ \/ NextTs(r) = Infinity
              \/ ~m_stop[r] /\ \E e \in m_events[r] : NextTs(r) = e.ts
<1>1. CASE IsLocalFinished(r)
    BY <1>1, Constants DEF NextTs, IsLocalFinished
<1>2. CASE ~IsLocalFinished(r)
  <2>1. m_events[r] # {} /\ ~m_stop[r]
      BY <1>2 DEF IsLocalFinished
  <2> QED  BY <1>2, <2>1, EarliestFirst DEF NextTs, IsLocalFinished
<1> QED  BY <1>1, <1>2

\* When the totals that the ranks have gathered agree, nothing is in transit.
LEMMA NothingInTransit ==
    ASSUME BaseInv, \A r \in Ranks : pc[r] = "gather", NoTransients
    PROVE  network = {}
<1>1. /\ [r \in Ranks |-> m_pLBTS[r].rx] = m_rxCount
      /\ [r \in Ranks |-> m_pLBTS[r].tx] = m_txCount
    BY DEF BaseInv, TypeInv, LbtsInv
<1>2. Total(m_rxCount) = Total(m_txCount)
    BY <1>1 DEF NoTransients
<1>3. Total(m_rxCount) \in Nat /\ Cardinality(network) \in Nat /\ IsFiniteSet(network)
    BY PacketsFinite, FS_CardinalityType DEF BaseInv, TypeInv, CountInv
<1>4. Cardinality(network) = 0
    BY <1>2, <1>3 DEF BaseInv, CountInv
<1> QED  BY <1>3, <1>4, FS_EmptySet

\* The least contribution is that of some rank.
LEMMA SmallestTimeIs ==
    ASSUME BaseInv, \A r \in Ranks : pc[r] = "gather"
    PROVE  /\ SmallestTime \in Nat
           /\ \A r \in Ranks : SmallestTime <= NextTs(r)
           /\ \E r \in Ranks : SmallestTime = NextTs(r)
<1> DEFINE f == [r \in Ranks |-> m_pLBTS[r].smallest]
           S == {m_pLBTS[r].smallest : r \in Ranks}
<1>1. \A r \in Ranks : m_pLBTS[r].smallest = NextTs(r) /\ NextTs(r) \in Nat
  <2>1. \A r \in Ranks : NextTs(r) \in Nat
      BY NextTsIs DEF BaseInv
  <2> QED  BY <2>1 DEF BaseInv, LbtsInv
<1>2. IsFiniteSet(S)
  <2>1. {f[r] : r \in Ranks} = S
      OBVIOUS
  <2>2. DOMAIN f = Ranks
      OBVIOUS
  <2> HIDE DEF f
  <2>3. IsFiniteSet({f[r] : r \in Ranks})
      BY <2>2, Constants, FiniteValues
  <2> QED  BY <2>1, <2>3
<1>3. S \in SUBSET Int /\ S # {}
    BY <1>1, Constants
<1>4. Min(S) \in S /\ \A x \in S : Min(S) <= x
    BY <1>2, <1>3, MinOfNumbers
<1>5. SmallestTime = Min(S)
    BY DEF SmallestTime
<1> QED  BY <1>1, <1>4, <1>5

\* The ranks start with the basic invariant.
LEMMA InitBase == Init => BaseInv
<1> SUFFICES ASSUME Init PROVE BaseInv
    OBVIOUS
<1>1. TypeInv
    BY DEF Init, TypeInv, Contributions, NoLbts, Places
<1>2. ListInv
    BY FS_EmptySet, Constants DEF Init, ListInv
<1>3. CountInv
  <2>1. Total(m_txCount) = 0 /\ Total(m_rxCount) = 0
      BY TotalOfZero DEF Init
  <2> QED  BY <2>1, FS_EmptySet DEF Init, CountInv
<1>4. LbtsInv /\ PhaseInv
    BY DEF Init, LbtsInv, PhaseInv
<1> QED  BY <1>1, <1>2, <1>3, <1>4 DEF BaseInv

\* A step that does not concern a rank's list, flag, counts and place leaves
\* its contribution true; NextTs is a function of the list and the flag.
LEMMA SameNextTs ==
    ASSUME NEW r \in Ranks, m_events'[r] = m_events[r], m_stop'[r] = m_stop[r]
    PROVE  NextTs(r)' = NextTs(r)
BY DEF NextTs, IsLocalFinished, Earliest

\* What the other ranks contributed stays true when rank q takes a step of its own.
LEMMA SameLbts ==
    ASSUME BaseInv, NEW q \in Ranks,
           \A r \in Ranks \ {q} :
               /\ m_events'[r] = m_events[r] /\ m_stop'[r] = m_stop[r]
               /\ m_rxCount'[r] = m_rxCount[r] /\ m_txCount'[r] = m_txCount[r]
               /\ m_pLBTS'[r] = m_pLBTS[r] /\ pc'[r] = pc[r],
           pc'[q] # "gather"
    PROVE  LbtsInv'
<1>1. ASSUME NEW r \in Ranks, pc'[r] = "gather"
      PROVE  /\ m_pLBTS'[r].rx = m_rxCount'[r] /\ m_pLBTS'[r].tx = m_txCount'[r]
             /\ m_pLBTS'[r].smallest = NextTs(r)'
  <2>1. r # q
      BY <1>1
  <2>2. NextTs(r)' = NextTs(r)
      BY <2>1, SameNextTs
  <2> QED  BY <1>1, <2>1, <2>2 DEF BaseInv, LbtsInv
<1> QED  BY <1>1 DEF LbtsInv

\* A new event of a rank gets the rank's next uid.
LEMMA InsertIntoList ==
    ASSUME TypeInv, ListInv, NEW r \in Ranks, NEW ts \in Nat, ts < Infinity,
           m_events' = [m_events EXCEPT ![r] = @ \cup {[ts |-> ts, uid |-> m_uid[r]]}],
           m_uid' = [m_uid EXCEPT ![r] = @ + 1], m_currentTs' = m_currentTs
    PROVE  ListInv' /\ m_events' \in [Ranks -> SUBSET Events] /\ m_uid' \in [Ranks -> Nat]
<1> DEFINE x == [ts |-> ts, uid |-> m_uid[r]]
<1>1. x \in Events /\ x.ts = ts /\ x.uid = m_uid[r] /\ m_uid[r] \in Nat
    BY DEF Events, TypeInv
<1>2. m_events' = [m_events EXCEPT ![r] = @ \cup {x}]
    OBVIOUS
<1> HIDE DEF x
<1>3. /\ m_events' \in [Ranks -> SUBSET Events] /\ m_uid' \in [Ranks -> Nat]
      /\ m_events'[r] = m_events[r] \cup {x} /\ m_uid'[r] = m_uid[r] + 1
      /\ \A q \in Ranks \ {r} : m_events'[q] = m_events[q] /\ m_uid'[q] = m_uid[q]
    BY <1>1, <1>2 DEF TypeInv
<1>4. \A e \in m_events[r] : e.uid \in Nat
    BY DEF TypeInv, Events
<1>5. /\ IsFiniteSet(m_events'[r])
      /\ \A e \in m_events'[r] : e.uid < m_uid'[r] /\ e.ts < Infinity
      /\ \A e, f \in m_events'[r] : e # f => e.uid # f.uid
    BY <1>1, <1>3, <1>4, FS_AddElement DEF ListInv
<1> QED  BY <1>3, <1>5 DEF ListInv

\* Every step keeps the basic invariant.
LEMMA NextBase == BaseInv /\ [Next]_vars => BaseInv'
<1> SUFFICES ASSUME BaseInv, [Next]_vars PROVE BaseInv'
    OBVIOUS
<1>0. TypeInv /\ ListInv /\ CountInv /\ LbtsInv /\ PhaseInv
    BY DEF BaseInv
<1>1. ASSUME NEW r \in Ranks, NEW d \in 0..MaxDelay, Schedule(r, d) PROVE BaseInv'
  <2>1. m_currentTs[r] + d \in Nat
      BY <1>0, Constants DEF TypeInv
  <2>2. ListInv' /\ m_events' \in [Ranks -> SUBSET Events] /\ m_uid' \in [Ranks -> Nat]
      BY <1>0, <1>1, <2>1, InsertIntoList DEF Schedule
  <2>3. TypeInv'
      BY <1>0, <1>1, <2>2 DEF Schedule, TypeInv
  <2>4. CountInv' /\ PhaseInv'
      BY <1>0, <1>1 DEF Schedule, CountInv, PhaseInv
  <2>5. LbtsInv'
      BY <1>0, <1>1, SameLbts DEF Schedule, TypeInv
  <2> QED  BY <2>2, <2>3, <2>4, <2>5 DEF BaseInv
<1>2. ASSUME NEW r \in Ranks, NEW q \in Neighbours(r), NEW t \in 0..MaxTxTime,
             SendPacket(r, q, t)
      PROVE  BaseInv'
  <2> DEFINE m == [id |-> sent + 1, to |-> q, rxTime |-> m_currentTs[r] + t + Delay[r][q]]
  <2>1. q \in Ranks /\ Delay[r][q] \in Nat /\ m_currentTs[r] \in Nat /\ t \in Nat
      BY <1>0, Constants DEF Neighbours, TypeInv
  <2>2. m \in Messages /\ m.id = sent + 1 /\ m.rxTime < Infinity /\ sent' = sent + 1
        /\ network' = network \cup {m}
      BY <1>0, <1>2, <2>1 DEF SendPacket, Messages, TypeInv
  <2> HIDE DEF m
  <2>3. TypeInv'
      BY <1>0, <1>2, <2>2 DEF SendPacket, TypeInv
  <2>4. CountInv'
    <3>1. m \notin network
        BY <1>0, <2>2 DEF CountInv, TypeInv
    <3>2. IsFiniteSet(network') /\ Cardinality(network') = Cardinality(network) + 1
        BY <1>0, <2>2, <3>1, FS_AddElement DEF CountInv
    <3>3. Total(m_txCount') = Total(m_txCount) + 1 /\ Total(m_rxCount') = Total(m_rxCount)
        BY <1>0, <1>2, OnePacketMore DEF SendPacket, TypeInv
    <3>4. Total(m_txCount) \in Nat /\ Total(m_rxCount) \in Nat /\ Cardinality(network) \in Nat
        BY <1>0, PacketsFinite, FS_CardinalityType DEF CountInv, TypeInv
    <3>5. \A n \in network' : n.id <= sent' /\ n.rxTime < Infinity
        BY <1>0, <2>2 DEF CountInv, TypeInv, Messages
    <3> QED  BY <1>0, <3>2, <3>3, <3>4, <3>5 DEF CountInv
  <2>5. LbtsInv'
      BY <1>0, <1>2, SameLbts DEF SendPacket, TypeInv
  <2>6. ListInv' /\ PhaseInv'
      BY <1>0, <1>2 DEF SendPacket, ListInv, PhaseInv
  <2> QED  BY <2>3, <2>4, <2>5, <2>6 DEF BaseInv
<1>3. ASSUME NEW r \in Ranks, Stop(r) \/ HandlerReturns(r) \/ WindowExhausted(r)
      PROVE  BaseInv'
  <2>1. TypeInv'
      BY <1>0, <1>3 DEF Stop, HandlerReturns, WindowExhausted, TypeInv, Places
  <2>2. LbtsInv'
      BY <1>0, <1>3, SameLbts DEF Stop, HandlerReturns, WindowExhausted, TypeInv
  <2>3. ListInv' /\ CountInv'
      BY <1>0, <1>3 DEF Stop, HandlerReturns, WindowExhausted, ListInv, CountInv
  <2>4. PhaseInv'
      BY <1>0, <1>3 DEF Stop, HandlerReturns, WindowExhausted, PhaseInv, TypeInv
  <2> QED  BY <2>1, <2>2, <2>3, <2>4 DEF BaseInv
<1>4. ASSUME NEW r \in Ranks, ProcessOneEvent(r) PROVE BaseInv'
  <2>1. Earliest(r) \in m_events[r] /\ Earliest(r).ts \in Nat
      BY <1>0, <1>4, EarliestFirst DEF ProcessOneEvent, IsLocalFinished
  <2>2. TypeInv'
      BY <1>0, <1>4, <2>1 DEF ProcessOneEvent, TypeInv, Places
  <2>3. ListInv'
    <3>1. /\ m_events'[r] = m_events[r] \ {Earliest(r)} /\ m_uid' = m_uid
          /\ m_currentTs'[r] = Earliest(r).ts
          /\ \A q \in Ranks \ {r} : m_events'[q] = m_events[q] /\ m_currentTs'[q] = m_currentTs[q]
        BY <1>0, <1>4 DEF ProcessOneEvent, TypeInv
    <3>2. IsFiniteSet(m_events'[r])
        BY <1>0, <3>1, FS_RemoveElement DEF ListInv
    <3> QED  BY <1>0, <2>1, <3>1, <3>2 DEF ListInv
  <2>4. LbtsInv'
      BY <1>0, <1>4, SameLbts DEF ProcessOneEvent, TypeInv
  <2>5. CountInv' /\ PhaseInv'
      BY <1>0, <1>4 DEF ProcessOneEvent, CountInv, PhaseInv, TypeInv
  <2> QED  BY <2>2, <2>3, <2>4, <2>5 DEF BaseInv
<1>5. ASSUME NEW r \in Ranks, NEW m \in network, ReceiveMessage(r, m) PROVE BaseInv'
  <2>1. m.rxTime \in Nat /\ m.rxTime < Infinity
      BY <1>0 DEF TypeInv, CountInv, Messages
  <2>2. ListInv' /\ m_events' \in [Ranks -> SUBSET Events] /\ m_uid' \in [Ranks -> Nat]
      BY <1>0, <1>5, <2>1, InsertIntoList DEF ReceiveMessage
  <2>3. TypeInv'
      BY <1>0, <1>5, <2>2 DEF ReceiveMessage, TypeInv
  <2>4. CountInv'
    <3>1. network' = network \ {m} /\ m_txCount' = m_txCount /\ sent' = sent
        BY <1>5 DEF ReceiveMessage
    <3>2. IsFiniteSet(network') /\ Cardinality(network') = Cardinality(network) - 1
        BY <1>0, <3>1, FS_RemoveElement DEF CountInv
    <3>3. Total(m_rxCount') = Total(m_rxCount) + 1
        BY <1>0, <1>5, OnePacketMore DEF ReceiveMessage, TypeInv
    <3>4. Total(m_txCount) \in Nat /\ Total(m_rxCount) \in Nat /\ Cardinality(network) \in Nat
        BY <1>0, PacketsFinite, FS_CardinalityType DEF CountInv, TypeInv
    <3> QED  BY <1>0, <3>1, <3>2, <3>3, <3>4 DEF CountInv
  <2>5. LbtsInv'
      BY <1>0, <1>5, SameLbts DEF ReceiveMessage, TypeInv
  <2>6. PhaseInv'
      BY <1>0, <1>5 DEF ReceiveMessage, PhaseInv
  <2> QED  BY <2>2, <2>3, <2>4, <2>5, <2>6 DEF BaseInv
<1>6. ASSUME NEW r \in Ranks, EnterAllgather(r) PROVE BaseInv'
  <2> DEFINE c == [rx |-> m_rxCount[r], tx |-> m_txCount[r],
                   finished |-> IsLocalFinished(r), smallest |-> NextTs(r)]
  <2>1. c \in Contributions /\ c.rx = m_rxCount[r] /\ c.tx = m_txCount[r]
        /\ c.smallest = NextTs(r)
      BY <1>0, NextTsIs DEF TypeInv, Contributions
  <2>2. m_pLBTS' = [m_pLBTS EXCEPT ![r] = c]
      BY <1>6 DEF EnterAllgather
  <2> HIDE DEF c
  <2>3. TypeInv'
      BY <1>0, <1>6, <2>1, <2>2 DEF EnterAllgather, TypeInv, Places
  <2>4. LbtsInv'
    <3>1. ASSUME NEW q \in Ranks PROVE NextTs(q)' = NextTs(q)
        BY <1>6, SameNextTs DEF EnterAllgather
    <3>2. /\ m_pLBTS'[r] = c /\ m_rxCount' = m_rxCount /\ m_txCount' = m_txCount
          /\ \A q \in Ranks \ {r} : m_pLBTS'[q] = m_pLBTS[q] /\ pc'[q] = pc[q]
        BY <1>0, <1>6, <2>2 DEF EnterAllgather, TypeInv
    <3> QED  BY <1>0, <2>1, <3>1, <3>2 DEF LbtsInv
  <2>5. ListInv' /\ CountInv' /\ PhaseInv'
      BY <1>0, <1>6 DEF EnterAllgather, ListInv, CountInv, PhaseInv, TypeInv
  <2> QED  BY <2>3, <2>4, <2>5 DEF BaseInv
<1>7. CASE Run
  <2>1. TypeInv'
      BY <1>0, <1>7, LookAheadShort DEF Run, TypeInv, Places
  <2>2. ListInv' /\ CountInv' /\ LbtsInv' /\ PhaseInv'
      BY <1>0, <1>7 DEF Run, ListInv, CountInv, LbtsInv, PhaseInv
  <2> QED  BY <2>1, <2>2 DEF BaseInv
<1>8. CASE Allgather
  <2>1. SmallestTime \in Nat
      BY <1>8, SmallestTimeIs DEF Allgather
  <2>2. \A r \in Ranks : GrantedWindow(r) \in Nat
      BY <2>1, LookAheadShort, Constants DEF GrantedWindow
  <2>3. TypeInv'
    <3>1. m_grantedTime' \in [Ranks -> Nat]
        BY <1>0, <1>8, <2>2 DEF Allgather, TypeInv
    <3> QED  BY <1>0, <1>8, <3>1 DEF Allgather, TypeInv, Places
  <2>4. \A r \in Ranks : pc[r] = "gather" /\ pc'[r] \in {"done", "loop"}
      BY <1>8 DEF Allgather
  <2>5. LbtsInv' /\ PhaseInv'
      BY <1>0, <2>4, Constants DEF LbtsInv, PhaseInv
  <2>6. ListInv' /\ CountInv'
      BY <1>0, <1>8 DEF Allgather, ListInv, CountInv
  <2> QED  BY <2>3, <2>5, <2>6 DEF BaseInv
<1>9. CASE UNCHANGED vars
  <2>1. TypeInv' /\ ListInv' /\ CountInv' /\ PhaseInv'
      BY <1>0, <1>9 DEF vars, TypeInv, ListInv, CountInv, PhaseInv
  <2>2. LbtsInv'
      BY <1>0, <1>9, SameNextTs DEF vars, LbtsInv
  <2> QED  BY <2>1, <2>2 DEF BaseInv
<1> QED  BY <1>1, <1>2, <1>3, <1>4, <1>5, <1>6, <1>7, <1>8, <1>9
         DEF Next, RankStep, ModelStep

-----------------------------------------------------------------------------
(* The window.                                                             *)

\* What happens at time t cannot concern any rank before its window ends.
Safe(t) == \A q \in Ranks : m_grantedTime[q] <= t + LookAhead(q)

\* The inductive form of Causality and SafeWindow.  Whatever can still send a
\* packet, an event to be executed, the one being executed and, once it is
\* received, a packet in transit, is safe.  A rank that was stopped executes
\* none of its events any more.
WindowInv ==
    /\ \A r \in Ranks : \A e \in m_events[r] : m_currentTs[r] <= e.ts
    /\ \A m \in network : m_grantedTime[m.to] <= m.rxTime /\ Safe(m.rxTime)
    /\ \A r \in Ranks : pc[r] # "outside" =>
         /\ m_currentTs[r] <= m_grantedTime[r]
         /\ pc[r] = "handler" => Safe(m_currentTs[r])
         /\ ~m_stop[r] => \A e \in m_events[r] : Safe(e.ts)

\* What is later than something safe is safe.
LEMMA LaterIsSafe ==
    ASSUME TypeInv, NEW t \in Nat, NEW u \in Nat, t <= u, Safe(t)
    PROVE  Safe(u)
BY LookAheadShort DEF Safe, TypeInv

\* A step that leaves the windows alone and only takes events or messages away
\* or moves a rank to where it handles no event.
LEMMA SameWindows ==
    ASSUME TypeInv, WindowInv, m_grantedTime' = m_grantedTime, m_currentTs' = m_currentTs,
           network' \subseteq network,
           \A r \in Ranks :
               /\ m_events'[r] \subseteq m_events[r]
               /\ m_stop[r] => m_stop'[r]
               /\ pc'[r] # "outside" => pc[r] # "outside"
               /\ pc'[r] = "handler" => pc[r] = "handler"
    PROVE  WindowInv'
<1>1. \A t : Safe(t)' <=> Safe(t)
    BY DEF Safe, LookAhead, OwnLookAhead, MaxOfLookAheads, Neighbours
<1> QED  BY <1>1 DEF WindowInv

\* Every step keeps the windows safe.
LEMMA NextWindow == BaseInv /\ WindowInv /\ [Next]_vars => WindowInv'
<1> SUFFICES ASSUME BaseInv, WindowInv, [Next]_vars PROVE WindowInv'
    OBVIOUS
<1>0. TypeInv /\ ListInv /\ PhaseInv
    BY DEF BaseInv
<1>a. ASSUME m_grantedTime' = m_grantedTime, NEW t PROVE Safe(t)' <=> Safe(t)
    BY <1>a DEF Safe, LookAhead, OwnLookAhead, MaxOfLookAheads, Neighbours
\* A new event, no earlier than the rank's current time, and safe.
<1>1. ASSUME NEW r \in Ranks, NEW x, m_events' = [m_events EXCEPT ![r] = @ \cup {x}],
             UNCHANGED <<m_currentTs, m_grantedTime, m_stop, pc>>, network' \subseteq network,
             m_currentTs[r] <= x.ts, pc[r] # "outside" => Safe(x.ts)
      PROVE  WindowInv'
  <2>1. m_events'[r] = m_events[r] \cup {x}
        /\ \A q \in Ranks \ {r} : m_events'[q] = m_events[q]
      BY <1>0, <1>1 DEF TypeInv
  <2>2. \A t : Safe(t)' <=> Safe(t)
      BY <1>1, <1>a
  <2>3. ASSUME NEW q \in Ranks, NEW e \in m_events'[q]
        PROVE  /\ m_currentTs[q] <= e.ts
               /\ pc[q] # "outside" /\ ~m_stop[q] => Safe(e.ts)
    <3>1. e \in m_events[q] \/ (q = r /\ e = x)
        BY <2>1
    <3> QED  BY <1>1, <3>1 DEF WindowInv
  <2> QED  BY <1>1, <2>2, <2>3 DEF WindowInv
<1>2. ASSUME NEW r \in Ranks, NEW d \in 0..MaxDelay, Schedule(r, d) PROVE WindowInv'
  <2> DEFINE x == [ts |-> m_currentTs[r] + d, uid |-> m_uid[r]]
  <2>1. m_currentTs[r] \in Nat /\ x.ts \in Nat /\ m_currentTs[r] <= x.ts
      BY <1>0, Constants DEF TypeInv
  <2>2. pc[r] # "outside" => Safe(m_currentTs[r])
      BY <1>2 DEF Schedule, WindowInv
  <2>3. pc[r] # "outside" => Safe(x.ts)
      BY <1>0, <2>1, <2>2, LaterIsSafe
  <2>4. /\ m_events' = [m_events EXCEPT ![r] = @ \cup {x}]
        /\ UNCHANGED <<m_currentTs, m_grantedTime, m_stop, pc, network>>
      BY <1>2 DEF Schedule
  <2> HIDE DEF x
  <2> QED  BY <1>1, <2>1, <2>3, <2>4
<1>3. ASSUME NEW r \in Ranks, NEW m \in network, ReceiveMessage(r, m) PROVE WindowInv'
  <2> DEFINE x == [ts |-> m.rxTime, uid |-> m_uid[r]]
  <2>1. m.to = r /\ pc[r] # "outside" /\ m.rxTime \in Nat /\ m_currentTs[r] \in Nat
        /\ m_grantedTime[r] \in Nat
      BY <1>0, <1>3 DEF ReceiveMessage, TypeInv, Messages
  <2>2. m_currentTs[r] <= m_grantedTime[r] /\ m_grantedTime[r] <= m.rxTime /\ Safe(m.rxTime)
      BY <2>1 DEF WindowInv
  <2>3. x.ts = m.rxTime /\ m_currentTs[r] <= x.ts
      BY <2>1, <2>2
  <2>4. /\ m_events' = [m_events EXCEPT ![r] = @ \cup {x}] /\ network' \subseteq network
        /\ UNCHANGED <<m_currentTs, m_grantedTime, m_stop, pc>>
      BY <1>3 DEF ReceiveMessage
  <2> HIDE DEF x
  <2> QED  BY <1>1, <2>2, <2>3, <2>4
<1>4. ASSUME NEW r \in Ranks, NEW q \in Neighbours(r), NEW t \in 0..MaxTxTime,
             SendPacket(r, q, t)
      PROVE  WindowInv'
  <2> DEFINE m == [id |-> sent + 1, to |-> q, rxTime |-> m_currentTs[r] + t + Delay[r][q]]
  <2>1. q \in Ranks /\ Delay[r][q] \in Nat /\ m_currentTs[r] \in Nat /\ t \in Nat
        /\ m_grantedTime[q] \in Nat
      BY <1>0, Constants DEF Neighbours, TypeInv
  <2>2. m.to = q /\ m.rxTime = m_currentTs[r] + t + Delay[r][q] /\ m.rxTime \in Nat
        /\ network' = network \cup {m} /\ pc[r] = "handler"
        /\ UNCHANGED <<m_events, m_currentTs, m_grantedTime, m_stop, pc>>
      BY <1>4, <2>1 DEF SendPacket
  <2> HIDE DEF m
  <2>3. Safe(m_currentTs[r])
      BY <2>2 DEF WindowInv
  <2>4. LookAhead(q) \in Nat /\ LookAhead(q) <= Delay[r][q]
      BY <2>1, LookAheadShort
  <2>5. m_grantedTime[q] <= m_currentTs[r] + LookAhead(q)
      BY <2>1, <2>3 DEF Safe
  <2>6. m_grantedTime[m.to] <= m.rxTime
      BY <2>1, <2>2, <2>4, <2>5
  <2>7. m_currentTs[r] <= m.rxTime
      BY <2>1, <2>2
  <2>8. Safe(m.rxTime)
      BY <1>0, <2>1, <2>2, <2>3, <2>7, LaterIsSafe
  <2>9. \A u : Safe(u)' <=> Safe(u)
      BY <1>a, <2>2
  <2> QED  BY <2>2, <2>6, <2>8, <2>9 DEF WindowInv
<1>5. ASSUME NEW r \in Ranks,
             Stop(r) \/ HandlerReturns(r) \/ WindowExhausted(r) \/ EnterAllgather(r)
      PROVE  WindowInv'
  <2>1. UNCHANGED <<m_grantedTime, m_currentTs, network, m_events>>
      BY <1>5 DEF Stop, HandlerReturns, WindowExhausted, EnterAllgather
  <2>2. ASSUME NEW q \in Ranks
        PROVE  /\ m_stop[q] => m_stop'[q]
               /\ pc'[q] # "outside" => pc[q] # "outside"
               /\ pc'[q] = "handler" => pc[q] = "handler"
      BY <1>0, <1>5 DEF Stop, HandlerReturns, WindowExhausted, EnterAllgather, TypeInv
  <2> QED  BY <1>0, <2>1, <2>2, SameWindows
<1>6. ASSUME NEW r \in Ranks, ProcessOneEvent(r) PROVE WindowInv'
  <2>1. m_events[r] # {} /\ ~m_stop[r] /\ pc[r] = "loop" /\ NextTs(r) = Earliest(r).ts
      BY <1>6 DEF ProcessOneEvent, IsLocalFinished, NextTs
  <2>2. Earliest(r) \in m_events[r] /\ \A e \in m_events[r] : Earliest(r).ts <= e.ts
      BY <1>0, <2>1, EarliestFirst
  <2>3. Earliest(r).ts <= m_grantedTime[r] /\ Safe(Earliest(r).ts)
      BY <1>6, <2>1, <2>2 DEF ProcessOneEvent, WindowInv
  <2>4. /\ UNCHANGED <<m_grantedTime, m_stop, network>>
        /\ m_events'[r] \subseteq m_events[r] /\ m_currentTs'[r] = Earliest(r).ts
        /\ pc'[r] = "handler"
        /\ \A q \in Ranks \ {r} : /\ m_events'[q] = m_events[q] /\ pc'[q] = pc[q]
                                  /\ m_currentTs'[q] = m_currentTs[q]
      BY <1>0, <1>6 DEF ProcessOneEvent, TypeInv
  <2>5. \A u : Safe(u)' <=> Safe(u)
      BY <1>a, <2>4
  <2>6. \A q \in Ranks : \A e \in m_events'[q] : m_currentTs'[q] <= e.ts
      BY <2>2, <2>4 DEF WindowInv
  <2>7. ASSUME NEW q \in Ranks, pc'[q] # "outside"
        PROVE  /\ m_currentTs'[q] <= m_grantedTime[q]
               /\ pc'[q] = "handler" => Safe(m_currentTs'[q])
               /\ ~m_stop[q] => \A e \in m_events'[q] : Safe(e.ts)
    <3>1. CASE q = r
        BY <2>1, <2>3, <2>4, <3>1 DEF WindowInv
    <3>2. CASE q # r
        BY <2>4, <2>7, <3>2 DEF WindowInv
    <3> QED  BY <3>1, <3>2
  <2> QED  BY <2>4, <2>5, <2>6, <2>7 DEF WindowInv
<1>7. CASE Run
  <2>1. /\ m_grantedTime' = [r \in Ranks |-> LookAhead(r)]
        /\ UNCHANGED <<m_events, m_currentTs, network>>
        /\ \A r \in Ranks : pc[r] = "outside" /\ pc'[r] = "loop"
      BY <1>7 DEF Run
  <2>2. network = {} /\ \A r \in Ranks : m_currentTs[r] = 0
      BY <1>0, <2>1, Constants DEF PhaseInv
  <2>3. ASSUME NEW t \in Nat PROVE Safe(t)'
    <3>1. ASSUME NEW q \in Ranks PROVE m_grantedTime'[q] <= t + LookAhead(q)
        BY <2>1, LookAheadShort
    <3> QED  BY <3>1 DEF Safe, LookAhead, OwnLookAhead, MaxOfLookAheads, Neighbours
  <2>4. \A r \in Ranks : \A e \in m_events[r] : e.ts \in Nat
      BY <1>0 DEF TypeInv, Events
  <2>5. \A r \in Ranks : m_currentTs[r] <= m_grantedTime'[r]
      BY <2>1, <2>2, LookAheadShort
  <2> QED  BY <2>1, <2>2, <2>3, <2>4, <2>5 DEF WindowInv
<1>8. CASE Allgather
  <2>1. /\ UNCHANGED <<m_events, m_currentTs, m_stop, network>>
        /\ \A r \in Ranks : pc[r] = "gather" /\ pc'[r] \in {"done", "loop"}
      BY <1>8 DEF Allgather
  <2>2. CASE ~NoTransients
    <3>1. m_grantedTime' = m_grantedTime
        BY <1>8, <2>2 DEF Allgather
    <3> QED  BY <1>0, <2>1, <3>1, SameWindows
  <2>3. CASE NoTransients
    <3>1. network = {}
        BY <2>1, <2>3, NothingInTransit
    <3>2. /\ SmallestTime \in Nat /\ \A r \in Ranks : SmallestTime <= NextTs(r)
          /\ \E r \in Ranks : SmallestTime = NextTs(r)
        BY <2>1, SmallestTimeIs
    <3>3. \A q \in Ranks : m_grantedTime'[q] = GrantedWindow(q)
        BY <1>8, <2>3 DEF Allgather
    <3>4. ASSUME NEW r \in Ranks, ~m_stop[r], NEW e \in m_events[r] PROVE Safe(e.ts)'
      <4>1. e.ts \in Nat /\ NextTs(r) \in Nat /\ NextTs(r) <= e.ts
          BY <1>0, <3>4, NextTsIs DEF TypeInv, Events
      <4>2. SmallestTime <= e.ts
          BY <3>2, <4>1
      <4>3. ASSUME NEW q \in Ranks PROVE m_grantedTime'[q] <= e.ts + LookAhead(q)
          BY <3>2, <3>3, <4>1, <4>2, LookAheadShort DEF GrantedWindow
      <4> QED  BY <4>3 DEF Safe, LookAhead, OwnLookAhead, MaxOfLookAheads, Neighbours
    <3>5. ASSUME NEW q \in Ranks PROVE m_currentTs[q] <= m_grantedTime'[q]
      <4>1. m_currentTs[q] \in Nat /\ m_grantedTime[q] \in Nat /\ LookAhead(q) \in Nat
            /\ m_currentTs[q] < Infinity /\ Infinity \in Nat
          BY <1>0, LookAheadShort, Constants DEF TypeInv, ListInv
      <4>2. PICK r \in Ranks : SmallestTime = NextTs(r)
          BY <3>2
      <4>3. CASE SmallestTime = Infinity \/ LookAhead(q) = Infinity
          BY <3>2, <3>3, <4>1, <4>3 DEF GrantedWindow
      <4>4. CASE SmallestTime # Infinity /\ LookAhead(q) # Infinity
        <5>1. PICK e \in m_events[r] : ~m_stop[r] /\ SmallestTime = e.ts
            BY <1>0, <4>2, <4>4, NextTsIs
        <5>2. m_grantedTime[q] <= SmallestTime + LookAhead(q)
            BY <2>1, <5>1 DEF WindowInv, Safe
        <5>3. m_currentTs[q] <= m_grantedTime[q]
            BY <2>1 DEF WindowInv
        <5>4. m_grantedTime'[q] = SmallestTime + LookAhead(q)
            BY <3>3, <4>4 DEF GrantedWindow
        <5> QED  BY <3>2, <4>1, <5>2, <5>3, <5>4
      <4> QED  BY <4>3, <4>4
    <3> QED  BY <2>1, <3>1, <3>4, <3>5 DEF WindowInv
  <2> QED  BY <2>2, <2>3
<1>9. CASE UNCHANGED vars
  <2>1. UNCHANGED <<m_grantedTime, m_currentTs, network, m_events, m_stop, pc>>
      BY <1>9 DEF vars
  <2> QED  BY <1>0, <2>1, SameWindows
<1> QED  BY <1>2, <1>3, <1>4, <1>5, <1>6, <1>7, <1>8, <1>9 DEF Next, RankStep, ModelStep

\* No window has been granted at first.
LEMMA InitWindow == Init => WindowInv
BY DEF Init, WindowInv

\* No rank ever holds an event from its past, whatever the other ranks send
\* it, and however MPI delays and reorders the messages.
THEOREM NoEventFromThePast == Spec => []Causality
<1>1. BaseInv /\ WindowInv => Causality
    BY DEF BaseInv, TypeInv, Events, WindowInv, Causality
<1> QED  BY <1>1, InitBase, InitWindow, NextBase, NextWindow, PTL DEF Spec

\* A packet in transit is received no earlier than the window of its receiver
\* ends, and no rank executes beyond its window.
THEOREM WindowIsSafe == Spec => []SafeWindow
<1>1. BaseInv /\ WindowInv => SafeWindow
    BY DEF BaseInv, TypeInv, Messages, WindowInv, SafeWindow
<1> QED  BY <1>1, InitBase, InitWindow, NextBase, NextWindow, PTL DEF Spec

\* The counts that the ranks exchange tell exactly how many packets are in
\* transit, which is why equal totals may be taken for an empty network.
THEOREM TransitCounted == Spec => []CountInv
<1>1. BaseInv => CountInv
    BY DEF BaseInv
<1> QED  BY <1>1, InitBase, NextBase, PTL DEF Spec

=============================================================================
