----------------------------- MODULE Watchdog -----------------------------
(***************************************************************************)
(* Watchdog (src/core/model/watchdog.cc): a timer that every Ping puts     *)
(* off.  A Ping only moves m_end while an event is pending; the event      *)
(* finds out in Expire, when it is executed, that it has come too early,   *)
(* and is scheduled anew.                                                  *)
(***************************************************************************)
EXTENDS Integers

CONSTANTS
    MaxDelay,    \* bound: largest delay of a Ping
    MaxTime,     \* bound: simulated time at which a Ping is made
    MaxPings     \* bound: Pings made

VARIABLES
    now,         \* Simulator::Now
    pending,     \* Expire events in the list: [ts, uid]
    m_event,     \* uid of the EventId held, 0 for none
    m_end,
    uid,         \* the uid handed out last
    pings,       \* Pings made so far, for their bound
    promised,    \* the latest "now + delay" of the Pings so far
    armed,       \* there was a Ping since the function was called last
    calledAt,    \* when it was called last, 0 if never
    alive        \* the Watchdog exists

vars == <<now, pending, m_event, m_end, uid, pings, promised, armed, calledAt, alive>>

Init ==
    /\ now = 0 /\ pending = {} /\ m_event = 0 /\ m_end = 0 /\ uid = 0 /\ pings = 0
    /\ promised = 0 /\ armed = FALSE /\ calledAt = 0
    /\ alive = TRUE

\* std::max of two times.
Later(s, t) == IF s < t THEN t ELSE s

EventRunning == \E e \in pending : e.uid = m_event

\* Schedule (ts - Now (), &Watchdog::Expire); rest are the events that stay.
ScheduleExpire(ts, rest) ==
    /\ pending' = rest \cup {[ts |-> ts, uid |-> uid + 1]}
    /\ m_event' = uid + 1
    /\ uid' = uid + 1

\* Mutant: the last Ping wins, even if it promises less.
Ping_Shortens(delay) ==
    /\ alive /\ now <= MaxTime /\ pings < MaxPings
    /\ pings' = pings + 1
    /\ m_end' = now + delay
    /\ IF EventRunning THEN UNCHANGED <<pending, m_event, uid>>
       ELSE ScheduleExpire(m_end', pending)
    /\ promised' = Later(promised, now + delay)
    /\ armed' = TRUE
    /\ UNCHANGED <<now, calledAt, alive>>

\* Mutant: every Ping schedules an event of its own.
Ping_Always(delay) ==
    /\ alive /\ now <= MaxTime /\ pings < MaxPings
    /\ pings' = pings + 1
    /\ m_end' = Later(m_end, now + delay)
    /\ ScheduleExpire(m_end', pending)
    /\ promised' = Later(promised, now + delay)
    /\ armed' = TRUE
    /\ UNCHANGED <<now, calledAt, alive>>

Ping(delay) ==
    /\ alive /\ now <= MaxTime /\ pings < MaxPings
    /\ pings' = pings + 1
    /\ m_end' = Later(m_end, now + delay)
    /\ IF EventRunning THEN UNCHANGED <<pending, m_event, uid>>
       ELSE ScheduleExpire(m_end', pending)
    /\ promised' = Later(promised, now + delay)
    /\ armed' = TRUE
    /\ UNCHANGED <<now, calledAt, alive>>

\* Mutant: an event that came too early is not scheduled anew.
Expire_Forgets(e) ==
    /\ e.ts = now
    /\ pending' = pending \ {e}
    /\ \/ m_end = now /\ armed' = FALSE /\ calledAt' = now
       \/ m_end # now /\ UNCHANGED <<armed, calledAt>>
    /\ UNCHANGED <<now, m_event, m_end, uid, pings, promised, alive>>

\* Expire: the function is called, or the event is scheduled for the new end.
\* The function may Ping again; that is the next step.
Expire(e) ==
    /\ e.ts = now
    /\ \/ /\ m_end = now
          /\ pending' = pending \ {e}
          /\ armed' = FALSE /\ calledAt' = now
          /\ UNCHANGED <<m_event, uid>>
       \/ /\ m_end # now
          /\ ScheduleExpire(m_end, pending \ {e})
          /\ UNCHANGED <<armed, calledAt>>
    /\ UNCHANGED <<now, m_end, pings, promised, alive>>

\* The destructor cancels the event.
Destroy ==
    /\ alive
    /\ alive' = FALSE
    /\ pending' = {e \in pending : e.uid # m_event}
    /\ UNCHANGED <<now, m_event, m_end, uid, pings, promised, armed, calledAt>>

\* The simulator goes on to a later event of something else.
Elapse ==
    /\ \A e \in pending : e.ts > now
    /\ now < MaxTime + MaxDelay
    /\ now' = now + 1
    /\ UNCHANGED <<pending, m_event, m_end, uid, pings, promised, armed, calledAt, alive>>

Next ==
    \/ \E delay \in 0..MaxDelay : Ping(delay)
    \/ \E e \in pending : Expire(e)
    \/ Destroy \/ Elapse

Spec == Init /\ [][Next]_vars

-----------------------------------------------------------------------------
(* Properties                                                              *)

\* No Expire event is due after the latest time a Ping has promised.
TypeOK ==
    /\ {now, m_event, m_end, uid, pings, promised, calledAt} \subseteq Nat
    /\ pending \subseteq [ts : 0..promised, uid : 1..uid]
    /\ {armed, alive} \subseteq BOOLEAN

\* "After a call to this method, the watchdog will not be triggered until the
\* delay specified has been expired": whatever the Pings, the function is
\* called exactly at the latest time one of them has promised.
CalledWhenPromised == [][calledAt' # calledAt \/ (armed /\ ~armed') => now = promised]_vars

\* A watchdog that was pinged stays armed by exactly one event, which it knows
\* of and which is due no later than the promised time; one that was not pinged
\* since it triggered has none.
ArmedByOneEvent ==
    alive =>
        IF armed
        THEN \E e \in pending : /\ pending = {e} /\ e.uid = m_event
                                /\ now <= e.ts /\ e.ts <= promised /\ m_end = promised
        ELSE pending = {}
=============================================================================
