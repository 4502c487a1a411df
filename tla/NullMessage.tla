---------------------------- MODULE NullMessage ----------------------------
(***************************************************************************)
(* NullMessageSimulatorImpl, NullMessageMpiInterface and                   *)
(* RemoteChannelBundle (src/mpi): one simulation split over MPI ranks that *)
(* synchronise with their neighbours only.  The channels between two ranks *)
(* form a bundle.  Each rank tells each neighbour, with every packet and   *)
(* at regular intervals in a null message, a guarantee: no message will    *)
(* arrive from it with an earlier receive time.  A rank executes events up *)
(* to the least guarantee it holds and otherwise blocks for a message.     *)
(*                                                                         *)
(* MPI is reliable and keeps the order of the messages of one rank to      *)
(* another, but delivers each after an arbitrary delay.  The senders are   *)
(* point-to-point devices (src/point-to-point): a device transmits one     *)
(* packet at a time and queues the others.                                 *)
(***************************************************************************)
EXTENDS Integers, Sequences, FiniteSets, FiniteSetsExt, StdList

CONSTANTS
    Ranks,
    Channels,    \* the point-to-point channels between ranks
    Ends,        \* Ends[c]: the two ranks that channel c joins
    Delay,       \* Delay[c]: its propagation delay
    Tune,        \* SchedulerTune, in percent
    InterframeGap, \* of the devices: the pause after each transmission
    Infinity,    \* GetMaximumSimulationTime
    StopAt,      \* StopAt[r]: delay given to Stop before Run, 0 if not called
    MaxDelay,    \* bound: largest delay of an event of the model code
    MaxTxTime,   \* bound: largest transmission time of a packet
    MaxEvents,   \* bound: events the model code of a rank schedules
    MaxPackets   \* bound: packets the model code sends in all

ASSUME NullMessageAssumption ==
    /\ IsFiniteSet(Ranks) /\ IsFiniteSet(Channels)
    /\ \A c \in Channels : \E r, q \in Ranks : r # q /\ Ends[c] = {r, q}
    /\ Delay \in [Channels -> Nat \ {0}]
    /\ Tune \in 1..100
    /\ StopAt \in [Ranks -> Nat]
    /\ {InterframeGap, Infinity, MaxDelay, MaxTxTime, MaxEvents, MaxPackets} \subseteq Nat

VARIABLES
    m_events,         \* per rank: the event list, in execution order
    m_currentTs,      \* per rank
    m_safeTime,       \* per rank
    m_stop,           \* per rank
    m_guaranteeTime,  \* per rank and neighbour, of the bundle
    m_txMachineState, \* per rank and channel: the device READY or BUSY
    m_queue,          \* per rank and channel: packets waiting in the device
    transit,          \* transit[s][r]: messages from s to r, oldest first
    scheduled, sent,  \* for the bounds
    pc                \* per rank: where Run is

devices == <<m_txMachineState, m_queue>>
bounds == <<scheduled, sent>>
vars == <<m_events, m_currentTs, m_safeTime, m_stop, m_guaranteeTime, devices,
          transit, bounds, pc>>

ChannelsOf(r) == {c \in Channels : r \in Ends[c]}
Peer(r, c) == CHOOSE q \in Ends[c] : q # r

\* The bundles of CalculateLookAhead: the ranks at the other end of a channel.
Neighbours(r) == {Peer(r, c) : c \in ChannelsOf(r)}

\* AddChannel: the delay of a bundle is the least of its channels.
BundleDelay(r, q) == Min({Delay[c] : c \in {x \in Channels : Ends[x] = {r, q}}})

\* Mutant: null messages are sent half as often as the delay asks for.
NullInterval_Slow(r, q) == 2 * BundleDelay(r, q)

\* Time (m_schedulerTune * delay) rounds to a whole number of time steps.
NullInterval(r, q) == (Tune * BundleDelay(r, q) + 50) \div 100

\* An event of the list; "on" is the bundle of a null message event and the
\* channel of a TransmitComplete.
Event(t, k, o) == [ts |-> t, kind |-> k, on |-> o]

\* Schedule: behind the events that are due at the same time or before.
Insert(list, e) ==
    InsertBefore(list, Cardinality({i \in DOMAIN list : list[i].ts <= e.ts}) + 1, e)

\* Next: the time stamp of the first event; the code asserts there is one.
NextOf(list) == list[1].ts

\* CalculateGuaranteeTime, with the event list as it is at the call.
Guarantee(r, q, list) == Min({NextOf(list), m_safeTime[r]}) + BundleDelay(r, q)

\* The event of ScheduleNullMessageEvent, called at time now.
NullEvent(r, q, now) == Event(now + NullInterval(r, q), "null", q)

\* Cancel leaves the null message event of the bundle in the list.
Cancel(list, q) ==
    [i \in DOMAIN list |->
        IF list[i].kind = "null" /\ list[i].on = q
        THEN [list[i] EXCEPT !.kind = "cancelled"] ELSE list[i]]

Message(rx, g) == [rxTime |-> rx, guarantee |-> g]

Post(s, r, msg) == transit' = [transit EXCEPT ![s][r] = Append(@, msg)]

Goto(r, l) == pc' = [pc EXCEPT ![r] = l]

Init ==
    /\ m_events = [r \in Ranks |-> <<>>]
    /\ m_currentTs = [r \in Ranks |-> 0]
    /\ m_safeTime = [r \in Ranks |-> 0]
    /\ m_stop = [r \in Ranks |-> FALSE]
    /\ m_guaranteeTime = [r \in Ranks |-> [q \in Neighbours(r) |-> 0]]
    /\ m_txMachineState = [r \in Ranks |-> [c \in ChannelsOf(r) |-> "READY"]]
    /\ m_queue = [r \in Ranks |-> [c \in ChannelsOf(r) |-> 0]]
    /\ transit = [s \in Ranks |-> [r \in Neighbours(s) |-> <<>>]]
    /\ scheduled = [r \in Ranks |-> 0]
    /\ sent = 0
    /\ pc = [r \in Ranks |-> "outside"]

-----------------------------------------------------------------------------
(* The model code: setting up before Run, and event handlers.              *)

\* Schedule, ScheduleNow and ScheduleWithContext.
Schedule(r, delay) ==
    /\ pc[r] \in {"outside", "handler"}
    /\ scheduled[r] < MaxEvents
    /\ m_events' = [m_events EXCEPT ![r] =
                       Insert(@, Event(m_currentTs[r] + delay, "app", r))]
    /\ scheduled' = [scheduled EXCEPT ![r] = @ + 1]
    /\ UNCHANGED <<m_currentTs, m_safeTime, m_stop, m_guaranteeTime, devices,
                   transit, sent, pc>>

\* Mutant: a reschedule only cancels.
RescheduleNullMessageEvent_Lost(r, q, now, list) == Cancel(list, q)

RescheduleNullMessageEvent(r, q, now, list) ==
    Insert(Cancel(list, q), NullEvent(r, q, now))

\* Mutant: the end of the transmission is scheduled after the packet is sent.
TransmitStart_SendFirst(r, c, now, txTime, list) ==
    LET q == Peer(r, c)
        complete == Event(now + txTime + InterframeGap, "complete", c)
    IN /\ m_txMachineState' = [m_txMachineState EXCEPT ![r][c] = "BUSY"]
       /\ Post(r, q, Message(now + txTime + Delay[c], Guarantee(r, q, list)))
       /\ m_events' = [m_events EXCEPT ![r] =
              Insert(RescheduleNullMessageEvent(r, q, now, list), complete)]

\* TransmitStart of the device, TransmitStart of the remote channel and
\* SendPacket; list is the event list on entry.  The packet arrives when its
\* transmission and the delay are over, the device is BUSY for the gap as well.
TransmitStart(r, c, now, txTime, list) ==
    LET q == Peer(r, c)
        busy == Insert(list, Event(now + txTime + InterframeGap, "complete", c))
    IN /\ m_txMachineState' = [m_txMachineState EXCEPT ![r][c] = "BUSY"]
       /\ Post(r, q, Message(now + txTime + Delay[c], Guarantee(r, q, busy)))
       /\ m_events' = [m_events EXCEPT ![r] =
              RescheduleNullMessageEvent(r, q, now, busy)]

\* PointToPointNetDevice::Send: a packet is transmitted at once if the device
\* is READY and waits in its queue otherwise.  A packet that is dropped, because
\* the link is down or the queue is full, changes nothing: a stuttering step.
Send(r, c, txTime) ==
    /\ pc[r] = "handler"
    /\ sent < MaxPackets
    /\ sent' = sent + 1
    /\ \/ /\ m_txMachineState[r][c] = "READY"
          /\ TransmitStart(r, c, m_currentTs[r], txTime, m_events[r])
          /\ UNCHANGED m_queue
       \/ /\ m_txMachineState[r][c] = "BUSY"
          /\ m_queue' = [m_queue EXCEPT ![r][c] = @ + 1]
          /\ UNCHANGED <<m_events, m_txMachineState, transit>>
    /\ UNCHANGED <<m_currentTs, m_safeTime, m_stop, m_guaranteeTime, scheduled, pc>>

HandlerReturns(r) ==
    /\ pc[r] = "handler"
    /\ Goto(r, "poll")
    /\ UNCHANGED <<m_events, m_currentTs, m_safeTime, m_stop, m_guaranteeTime,
                   devices, transit, bounds>>

-----------------------------------------------------------------------------
(* Run.                                                                    *)

\* Stop (delay), the last call before Run; then CalculateLookAhead.
Run(r) ==
    /\ pc[r] = "outside"
    /\ m_events' = [m_events EXCEPT ![r] =
           IF StopAt[r] = 0 THEN @ ELSE Insert(@, Event(StopAt[r], "stop", r))]
    /\ m_safeTime' = [m_safeTime EXCEPT ![r] = 0]
    /\ Goto(r, "initialize")
    /\ UNCHANGED <<m_currentTs, m_stop, m_guaranteeTime, devices, transit, bounds>>

\* The live null message event of bundle q is in the list.
HasNullEvent(list, q) == \E i \in DOMAIN list : list[i].kind = "null" /\ list[i].on = q

\* A round of InitializeNullMessageEvents: the neighbour is guaranteed the delay
\* of its bundle, and the first null message event is scheduled.
InitializeNullMessageEvents(r, q) ==
    /\ pc[r] = "initialize"
    /\ ~HasNullEvent(m_events[r], q)
    /\ Post(r, q, Message(0, BundleDelay(r, q)))
    /\ m_events' = [m_events EXCEPT ![r] = Insert(@, NullEvent(r, q, 0))]
    /\ UNCHANGED <<m_currentTs, m_safeTime, m_stop, m_guaranteeTime, devices, bounds, pc>>

\* All bundles are initialized, and the loop of Run is entered.
EnterLoop(r) ==
    /\ pc[r] = "initialize"
    /\ \A q \in Neighbours(r) : HasNullEvent(m_events[r], q)
    /\ m_stop' = [m_stop EXCEPT ![r] = FALSE]
    /\ Goto(r, "loop")
    /\ UNCHANGED <<m_events, m_currentTs, m_safeTime, m_guaranteeTime, devices,
                   transit, bounds>>

IsFinished(r) == m_events[r] = <<>> \/ m_stop[r]

\* Mutant: an event may be one time step ahead of the safe time.
Ready_Ahead(r) == NextOf(m_events[r]) <= m_safeTime[r] + 1

\* Run executes an event when its time is at most the safe time.
Ready(r) == NextOf(m_events[r]) <= m_safeTime[r]

\* ProcessOneEvent: the first event is removed and becomes the current one;
\* the handler of each kind of event follows.
ProcessOneEvent(r, kinds) ==
    /\ pc[r] = "loop" /\ ~IsFinished(r)
    /\ Ready(r)
    /\ Head(m_events[r]).kind \in kinds
    /\ m_currentTs' = [m_currentTs EXCEPT ![r] = NextOf(m_events[r])]
    /\ UNCHANGED <<m_safeTime, m_guaranteeTime, bounds>>

\* Invoke of an event of the model code; its steps are the actions above.
ModelEvent(r) ==
    /\ ProcessOneEvent(r, {"app", "receive"})
    /\ m_events' = [m_events EXCEPT ![r] = Tail(@)]
    /\ Goto(r, "handler")
    /\ UNCHANGED <<m_stop, devices, transit>>

\* A cancelled event does nothing when it is invoked.
CancelledEvent(r) ==
    /\ ProcessOneEvent(r, {"cancelled"})
    /\ m_events' = [m_events EXCEPT ![r] = Tail(@)]
    /\ Goto(r, "poll")
    /\ UNCHANGED <<m_stop, devices, transit>>

StopEvent(r) ==
    /\ ProcessOneEvent(r, {"stop"})
    /\ m_events' = [m_events EXCEPT ![r] = Tail(@)]
    /\ m_stop' = [m_stop EXCEPT ![r] = TRUE]
    /\ Goto(r, "poll")
    /\ UNCHANGED <<devices, transit>>

\* NullMessageEventHandler: the guarantee is sent and the next null message
\* scheduled.  Next asserts that another event is left.
NullMessageEvent(r) ==
    LET q == Head(m_events[r]).on
        rest == Tail(m_events[r])
    IN /\ ProcessOneEvent(r, {"null"})
       /\ rest # <<>>
       /\ Post(r, q, Message(0, Guarantee(r, q, rest)))
       /\ m_events' = [m_events EXCEPT ![r] =
              Insert(rest, NullEvent(r, q, m_currentTs'[r]))]
       /\ Goto(r, "poll")
       /\ UNCHANGED <<m_stop, devices>>

\* TransmitComplete: the device is READY again and takes the next packet from
\* its queue, if there is one.
TransmitCompleteEvent(r, txTime) ==
    LET c == Head(m_events[r]).on
        rest == Tail(m_events[r])
    IN /\ ProcessOneEvent(r, {"complete"})
       /\ \/ /\ m_queue[r][c] = 0
             /\ m_events' = [m_events EXCEPT ![r] = rest]
             /\ m_txMachineState' = [m_txMachineState EXCEPT ![r][c] = "READY"]
             /\ UNCHANGED <<m_queue, transit>>
          \/ /\ m_queue[r][c] > 0
             /\ m_queue' = [m_queue EXCEPT ![r][c] = @ - 1]
             /\ TransmitStart(r, c, m_currentTs'[r], txTime, rest)
       /\ Goto(r, "poll")
       /\ UNCHANGED m_stop

\* One round of ReceiveMessages: a packet is scheduled for its receive time,
\* and the guarantee of the bundle becomes the one in the message.
Receive(r, s) ==
    LET msg == Head(transit[s][r])
    IN /\ transit[s][r] # <<>>
       /\ transit' = [transit EXCEPT ![s][r] = Tail(@)]
       /\ m_events' = [m_events EXCEPT ![r] =
              IF msg.rxTime > 0 THEN Insert(@, Event(msg.rxTime, "receive", r)) ELSE @]
       /\ m_guaranteeTime' = [m_guaranteeTime EXCEPT ![r][s] = msg.guarantee]

\* GetSafeTime of the bundle manager: the least guarantee.
SafeTime(guarantees) == Min({Infinity} \cup Range(guarantees))

\* MPI_Testany has found a message.
ReceiveNonBlocking(r, s) ==
    /\ pc[r] = "poll"
    /\ Receive(r, s)
    /\ UNCHANGED <<m_currentTs, m_safeTime, m_stop, devices, bounds, pc>>

\* MPI_Testany has found none, even if some are on their way; CalculateSafeTime.
PollEnds(r) ==
    /\ pc[r] = "poll"
    /\ m_safeTime' = [m_safeTime EXCEPT ![r] = SafeTime(m_guaranteeTime[r])]
    /\ Goto(r, "loop")
    /\ UNCHANGED <<m_events, m_currentTs, m_stop, m_guaranteeTime, devices,
                   transit, bounds>>

\* The next event is not safe: Run blocks in MPI_Waitany for one message.
ReceiveBlocking(r, s) ==
    /\ pc[r] = "loop" /\ ~IsFinished(r)
    /\ ~Ready(r)
    /\ Receive(r, s)
    /\ m_safeTime' = [m_safeTime EXCEPT ![r] = SafeTime(m_guaranteeTime'[r])]
    /\ UNCHANGED <<m_currentTs, m_stop, devices, bounds, pc>>

\* A rank without neighbours returns from the receive at once.
NoNeighbours(r) ==
    /\ pc[r] = "loop" /\ ~IsFinished(r)
    /\ ~Ready(r)
    /\ Neighbours(r) = {}
    /\ m_safeTime' = [m_safeTime EXCEPT ![r] = SafeTime(m_guaranteeTime[r])]
    /\ UNCHANGED <<m_events, m_currentTs, m_stop, m_guaranteeTime, devices,
                   transit, bounds, pc>>

RunReturns(r) ==
    /\ pc[r] = "loop" /\ IsFinished(r)
    /\ Goto(r, "done")
    /\ UNCHANGED <<m_events, m_currentTs, m_safeTime, m_stop, m_guaranteeTime,
                   devices, transit, bounds>>

ModelCode(r) ==
    \/ \E delay \in 0..MaxDelay : Schedule(r, delay)
    \/ \E c \in ChannelsOf(r), txTime \in 1..MaxTxTime : Send(r, c, txTime)

Engine(r) ==
    \/ Run(r) \/ EnterLoop(r) \/ ModelEvent(r) \/ HandlerReturns(r)
    \/ CancelledEvent(r) \/ StopEvent(r) \/ NullMessageEvent(r)
    \/ \E txTime \in 1..MaxTxTime : TransmitCompleteEvent(r, txTime)
    \/ \E s \in Neighbours(r) : \/ InitializeNullMessageEvents(r, s)
                               \/ ReceiveNonBlocking(r, s) \/ ReceiveBlocking(r, s)
    \/ PollEnds(r) \/ NoNeighbours(r) \/ RunReturns(r)

\* Every rank has returned from Run.
Terminated ==
    /\ \A r \in Ranks : pc[r] = "done"
    /\ UNCHANGED vars

Next == (\E r \in Ranks : ModelCode(r) \/ Engine(r)) \/ Terminated

Spec == Init /\ [][Next]_vars

\* A rank that can go on does; MPI delivers what was sent.
FairSpec == Spec /\ \A r \in Ranks : WF_vars(Engine(r))

-----------------------------------------------------------------------------
(* Properties                                                              *)

\* "No message should arrive from task nodeSysId with a receive time less than
\* the guarantee time" (CalculateGuaranteeTime): no packet on its way is due
\* before a guarantee its sender has given, received or sent ahead of it.
GuaranteeKept ==
    \A s, r \in Ranks : r \in Neighbours(s) =>
        \A i \in DOMAIN transit[s][r] :
            transit[s][r][i].rxTime > 0 =>
                /\ m_guaranteeTime[r][s] <= transit[s][r][i].rxTime
                /\ \A j \in 1..(i - 1) :
                      transit[s][r][j].guarantee <= transit[s][r][i].rxTime

\* What the assertions of Schedule, SetGuaranteeTime and CalculateSafeTime
\* require of the messages a rank still has to receive: neither a packet nor a
\* guarantee is in the past of its receiver, however far the receiver ran ahead.
NoMessageFromThePast ==
    \A s, r \in Ranks : r \in Neighbours(s) =>
        \A i \in DOMAIN transit[s][r] :
            /\ transit[s][r][i].guarantee >= m_currentTs[r]
            /\ transit[s][r][i].rxTime > 0 => transit[s][r][i].rxTime >= m_currentTs[r]

\* The guarantee r has given q last, received or still on its way.
LastGuarantee(r, q) ==
    IF transit[r][q] = <<>> THEN m_guaranteeTime[q][r]
    ELSE transit[r][q][Len(transit[r][q])].guarantee

\* A neighbour is never left without a guarantee to come: a running rank has
\* exactly one live null message event for each bundle, and executes it before
\* its simulated time passes the guarantee it has given last.
LookAheadRenewed ==
    \A r \in Ranks : pc[r] \in {"loop", "handler", "poll"} =>
        \A q \in Neighbours(r) :
            LET live == {i \in DOMAIN m_events[r] :
                            m_events[r][i].kind = "null" /\ m_events[r][i].on = q}
            IN /\ Cardinality(live) = 1
               /\ \A i \in live : m_events[r][i].ts <= LastGuarantee(r, q)

\* Ranks told to stop at the same time all come to the end of Run: none is left
\* blocked in MPI_Waitany for a guarantee from a neighbour that has stopped.
EveryRankStops == <>(\A r \in Ranks : pc[r] = "done")
=============================================================================
