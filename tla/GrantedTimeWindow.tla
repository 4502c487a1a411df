-------------------------- MODULE GrantedTimeWindow --------------------------
(***************************************************************************)
(* DistributedSimulatorImpl and GrantedTimeWindowMpiInterface (src/mpi):   *)
(* one simulation split over MPI ranks.  A rank executes its own events up *)
(* to its granted time.  Beyond it, the ranks meet in an MPI_Allgather of  *)
(* their next event times and of their counts of packets sent and received *)
(* and, when no packet is in transit, grant each other the next window:    *)
(* the earliest next event plus the rank's lookahead, the least delay of   *)
(* the links that leave it.                                                *)
(*                                                                         *)
(* A packet sent to a node of another rank becomes an MPI message that     *)
(* carries the time at which it is to be received.  MPI delivers a message *)
(* at some later poll, in any order.                                       *)
(***************************************************************************)
EXTENDS Integers, FiniteSets, FiniteSetsExt

CONSTANTS
    Ranks,
    Delay,          \* Delay[r][q]: delay of the link between r and q, 0 if none
    MaxLookAhead,   \* SetMaximumLookAhead, 0 if it was not called
    Infinity,       \* GetMaximumSimulationTime, which no time stamp reaches
    MaxDelay,       \* bound: largest delay of a local event
    MaxTxTime,      \* bound: largest transmission time of a packet
    MaxEvents,      \* bound: events a rank creates for itself
    MaxMessages     \* bound: packets sent between ranks

ASSUME GrantedAssumption ==
    /\ IsFiniteSet(Ranks) /\ Ranks # {}
    /\ Delay \in [Ranks -> [Ranks -> Nat]]
    /\ \A r, q \in Ranks : Delay[r][q] = Delay[q][r] /\ Delay[r][r] = 0
    /\ {MaxLookAhead, Infinity, MaxDelay, MaxTxTime, MaxEvents, MaxMessages} \subseteq Nat
    /\ MaxLookAhead < Infinity
    /\ \A r, q \in Ranks : Delay[r][q] < Infinity

VARIABLES
    m_events,       \* per rank: pending events [ts, uid]
    m_uid,          \* per rank: uid of the next event
    m_currentTs,    \* per rank: time stamp of the event executed last
    m_grantedTime,  \* per rank
    m_stop,         \* per rank
    m_rxCount, m_txCount,   \* per rank: packets received and sent
    m_pLBTS,        \* per rank: what it contributed to the Allgather
    network,        \* MPI messages in transit [id, to, rxTime]
    created, sent,  \* local events per rank and messages so far, for the bounds
    pc              \* per rank: where Run is

vars == <<m_events, m_uid, m_currentTs, m_grantedTime, m_stop, m_rxCount,
          m_txCount, m_pLBTS, network, created, sent, pc>>

Neighbours(r) == {q \in Ranks : Delay[r][q] > 0}

-----------------------------------------------------------------------------
(* CalculateLookAhead, once per Run.                                       *)

\* The least of the maximum set by the user and of the delays of the links
\* to other ranks.
OwnLookAhead(r) ==
    Min({Delay[r][q] : q \in Neighbours(r)} \cup
        {IF MaxLookAhead > 0 THEN MaxLookAhead ELSE Infinity})

\* MPI_Allreduce: the greatest lookahead of the ranks that have one.
MaxOfLookAheads ==
    Max({IF OwnLookAhead(r) = Infinity THEN 0 ELSE OwnLookAhead(r) : r \in Ranks})

\* A single rank needs no lookahead; a rank without links takes the maximum.
LookAhead(r) ==
    IF Cardinality(Ranks) = 1 THEN 0
    ELSE IF OwnLookAhead(r) = Infinity /\ MaxOfLookAheads # 0
         THEN MaxOfLookAheads
         ELSE OwnLookAhead(r)

-----------------------------------------------------------------------------
KeyBefore(a, b) == a.ts < b.ts \/ (a.ts = b.ts /\ a.uid < b.uid)

IsLocalFinished(r) == m_events[r] = {} \/ m_stop[r]

\* PeekNext
Earliest(r) ==
    CHOOSE e \in m_events[r] : \A f \in m_events[r] \ {e} : KeyBefore(e, f)

NextTs(r) == IF IsLocalFinished(r) THEN Infinity ELSE Earliest(r).ts

NoLbts == [rx |-> 0, tx |-> 0, finished |-> FALSE, smallest |-> 0]

Init ==
    /\ m_events = [r \in Ranks |-> {}]
    /\ m_uid = [r \in Ranks |-> 4]
    /\ m_currentTs = [r \in Ranks |-> 0]
    /\ m_grantedTime = [r \in Ranks |-> 0]
    /\ m_stop = [r \in Ranks |-> FALSE]
    /\ m_rxCount = [r \in Ranks |-> 0]
    /\ m_txCount = [r \in Ranks |-> 0]
    /\ m_pLBTS = [r \in Ranks |-> NoLbts]
    /\ network = {}
    /\ created = [r \in Ranks |-> 0]
    /\ sent = 0
    /\ pc = [r \in Ranks |-> "outside"]

-----------------------------------------------------------------------------
(* The model code of a rank: setting up before Run, and event handlers.    *)

\* Schedule, ScheduleNow and ScheduleWithContext.
Schedule(r, delay) ==
    /\ pc[r] \in {"outside", "handler"}
    /\ created[r] < MaxEvents /\ m_currentTs[r] + delay < Infinity
    /\ m_events' = [m_events EXCEPT ![r] =
                       @ \cup {[ts |-> m_currentTs[r] + delay, uid |-> m_uid[r]]}]
    /\ m_uid' = [m_uid EXCEPT ![r] = @ + 1]
    /\ created' = [created EXCEPT ![r] = @ + 1]
    /\ UNCHANGED <<m_currentTs, m_grantedTime, m_stop, m_rxCount, m_txCount,
                   m_pLBTS, network, sent, pc>>

\* PointToPointRemoteChannel::TransmitStart and MpiInterface::SendPacket.
SendPacket(r, q, txTime) ==
    /\ pc[r] = "handler"
    /\ sent < MaxMessages /\ m_currentTs[r] + txTime + Delay[r][q] < Infinity
    /\ network' = network \cup
          {[id |-> sent + 1, to |-> q,
            rxTime |-> m_currentTs[r] + txTime + Delay[r][q]]}
    /\ m_txCount' = [m_txCount EXCEPT ![r] = @ + 1]
    /\ sent' = sent + 1
    /\ UNCHANGED <<m_events, m_uid, m_currentTs, m_grantedTime, m_stop,
                   m_rxCount, m_pLBTS, created, pc>>

Stop(r) ==
    /\ pc[r] \in {"outside", "handler"}
    /\ m_stop' = [m_stop EXCEPT ![r] = TRUE]
    /\ UNCHANGED <<m_events, m_uid, m_currentTs, m_grantedTime, m_rxCount,
                   m_txCount, m_pLBTS, network, created, sent, pc>>

HandlerReturns(r) ==
    /\ pc[r] = "handler"
    /\ pc' = [pc EXCEPT ![r] = "loop"]
    /\ UNCHANGED <<m_events, m_uid, m_currentTs, m_grantedTime, m_stop,
                   m_rxCount, m_txCount, m_pLBTS, network, created, sent>>

-----------------------------------------------------------------------------
(* Run.                                                                    *)

\* The MPI_Allreduce of CalculateLookAhead holds every rank until all have
\* entered Run.
Run ==
    /\ \A r \in Ranks : pc[r] = "outside"
    /\ m_grantedTime' = [r \in Ranks |-> LookAhead(r)]
    /\ m_stop' = [r \in Ranks |-> FALSE]
    /\ pc' = [r \in Ranks |-> "loop"]
    /\ UNCHANGED <<m_events, m_uid, m_currentTs, m_rxCount, m_txCount, m_pLBTS,
                   network, created, sent>>

ProcessOneEvent(r) ==
    /\ pc[r] = "loop"
    /\ ~IsLocalFinished(r)
    /\ NextTs(r) <= m_grantedTime[r]
    /\ m_events' = [m_events EXCEPT ![r] = @ \ {Earliest(r)}]
    /\ m_currentTs' = [m_currentTs EXCEPT ![r] = Earliest(r).ts]
    /\ pc' = [pc EXCEPT ![r] = "handler"]
    /\ UNCHANGED <<m_uid, m_grantedTime, m_stop, m_rxCount, m_txCount, m_pLBTS,
                   network, created, sent>>

\* The next event is beyond the window, or there is none.
WindowExhausted(r) ==
    /\ pc[r] = "loop"
    /\ IsLocalFinished(r) \/ NextTs(r) > m_grantedTime[r]
    /\ pc' = [pc EXCEPT ![r] = "receive"]
    /\ UNCHANGED <<m_events, m_uid, m_currentTs, m_grantedTime, m_stop,
                   m_rxCount, m_txCount, m_pLBTS, network, created, sent>>

\* Mutant: the receive is not counted.
ReceiveMessage_NotCounted(r, m) ==
    /\ pc[r] = "receive"
    /\ m.to = r
    /\ network' = network \ {m}
    /\ m_events' = [m_events EXCEPT ![r] = @ \cup {[ts |-> m.rxTime, uid |-> m_uid[r]]}]
    /\ m_uid' = [m_uid EXCEPT ![r] = @ + 1]
    /\ UNCHANGED <<m_currentTs, m_grantedTime, m_stop, m_rxCount, m_txCount,
                   m_pLBTS, created, sent, pc>>

\* One iteration of ReceiveMessages: MPI_Testany has found message m.  The event
\* is scheduled rxTime - Now after Now.
ReceiveMessage(r, m) ==
    /\ pc[r] = "receive"
    /\ m.to = r
    /\ network' = network \ {m}
    /\ m_events' = [m_events EXCEPT ![r] = @ \cup {[ts |-> m.rxTime, uid |-> m_uid[r]]}]
    /\ m_uid' = [m_uid EXCEPT ![r] = @ + 1]
    /\ m_rxCount' = [m_rxCount EXCEPT ![r] = @ + 1]
    /\ UNCHANGED <<m_currentTs, m_grantedTime, m_stop, m_txCount, m_pLBTS,
                   created, sent, pc>>

\* MPI_Testany finds no message, whether or not one is in transit; the rank
\* enters the Allgather.
EnterAllgather(r) ==
    /\ pc[r] = "receive"
    /\ m_pLBTS' = [m_pLBTS EXCEPT ![r] =
                      [rx |-> m_rxCount[r], tx |-> m_txCount[r],
                       finished |-> IsLocalFinished(r), smallest |-> NextTs(r)]]
    /\ pc' = [pc EXCEPT ![r] = "gather"]
    /\ UNCHANGED <<m_events, m_uid, m_currentTs, m_grantedTime, m_stop,
                   m_rxCount, m_txCount, network, created, sent>>

\* Mutant: the first rank's contribution stands for all.
SmallestTime_FirstOnly == m_pLBTS[CHOOSE r \in Ranks : TRUE].smallest

SmallestTime == Min({m_pLBTS[r].smallest : r \in Ranks})

\* Mutant: messages in transit are not looked for.
NoTransients_Assumed == TRUE

\* The sum of a count over all ranks: the number of packets counted.
Packets(count) == UNION {{r} \X (1..count[r]) : r \in Ranks}
Total(count) == Cardinality(Packets(count))

\* totRx == totTx
NoTransients ==
    Total([r \in Ranks |-> m_pLBTS[r].rx]) = Total([r \in Ranks |-> m_pLBTS[r].tx])

GlobalFinished == \A r \in Ranks : m_pLBTS[r].finished

GrantedWindow(r) ==
    IF LookAhead(r) = Infinity THEN Infinity ELSE SmallestTime + LookAhead(r)

\* Every rank has contributed.  What each one does with the result is local to
\* it, so that all may do it at once.
Allgather ==
    /\ \A r \in Ranks : pc[r] = "gather"
    /\ m_grantedTime' = IF NoTransients THEN [r \in Ranks |-> GrantedWindow(r)]
                                        ELSE m_grantedTime
    /\ pc' = [r \in Ranks |-> IF GlobalFinished THEN "done" ELSE "loop"]
    /\ UNCHANGED <<m_events, m_uid, m_currentTs, m_stop, m_rxCount, m_txCount,
                   m_pLBTS, network, created, sent>>

RankStep(r) ==
    \/ ProcessOneEvent(r)
    \/ WindowExhausted(r)
    \/ EnterAllgather(r)
    \/ HandlerReturns(r)

ModelStep(r) ==
    \/ \E d \in 0..MaxDelay : Schedule(r, d)
    \/ \E q \in Neighbours(r), t \in 0..MaxTxTime : SendPacket(r, q, t)
    \/ Stop(r)

Next ==
    \/ \E r \in Ranks : RankStep(r) \/ ModelStep(r)
    \/ \E r \in Ranks, m \in network : ReceiveMessage(r, m)
    \/ Run
    \/ Allgather

Spec == Init /\ [][Next]_vars

\* Every rank makes progress and returns from its handlers, and a message that
\* is polled for again and again is found in the end (MPI progress).
Fairness ==
    /\ \A r \in Ranks : WF_vars(RankStep(r))
    /\ WF_vars(Allgather)
    /\ \A r \in Ranks : SF_vars(\E m \in network : ReceiveMessage(r, m))

FairSpec == Spec /\ Fairness

-----------------------------------------------------------------------------
\* NS_ASSERT (next.key.m_ts >= m_currentTs) in ProcessOneEvent: no rank ever
\* holds an event from its past, although other ranks inject events.
Causality == \A r \in Ranks : \A e \in m_events[r] : e.ts >= m_currentTs[r]

\* Why that is so: a message in transit is received no earlier than the end of
\* the window its receiver is executing, and nobody executes beyond its window.
SafeWindow ==
    /\ \A m \in network : m.rxTime >= m_grantedTime[m.to]
    /\ \A r \in Ranks : pc[r] # "outside" => m_currentTs[r] <= m_grantedTime[r]

\* The ranks neither wait for each other for ever nor exchange empty windows
\* for ever: when the model code stops creating events, Run returns everywhere,
\* also when some ranks stop early and others still send to them.
AllRanksFinish == (\A r \in Ranks : pc[r] # "outside") ~> (\A r \in Ranks : pc[r] = "done")

\* Run on every rank returns only after every packet sent between ranks has
\* arrived: distributed-simulator-impl.cc:390 and :432 say that the counts
\* ensure there are no transient messages and that no event was lost.
NoPacketLost == (\A r \in Ranks : pc[r] = "done") => network = {}
=============================================================================
