---------------------------- MODULE TimersProofs ----------------------------
(***************************************************************************)
(* Proofs about Timer, about Watchdog and about the two on one simulator,  *)
(* for any delays, any number of events and Pings and any simulated time.  *)
(* What is said of the timer holds as long as only calls are made that     *)
(* timer.h foresees.                                                       *)
(***************************************************************************)
EXTENDS Timers, TLAPS

-----------------------------------------------------------------------------
(* The timer.                                                              *)

\* The timer has at most one event, which it knows of and which is not late;
\* none while it is suspended, and none after its destruction.
Inv ==
    /\ TypeOK
    /\ m_event <= uid
    /\ pending # {} => \E e \in pending : pending = {e} /\ e.uid = m_event /\ now <= e.ts
    /\ suspended => pending = {}
    /\ alive = "no" => pending = {}

\* A new event of a timer without events.
LEMMA NewEventAlone ==
    ASSUME TypeOK, NEW delay \in Nat, pending = {}, NewEvent(delay)
    PROVE  /\ pending' = {[ts |-> now + delay, uid |-> m_event']}
           /\ m_event' = uid + 1 /\ uid' = uid + 1
  BY DEF NewEvent, TypeOK

\* The invariant of a state with one event.
LEMMA InvOfOneEvent ==
    ASSUME {now, m_event, m_delayLeft, uid, calls}' \subseteq Nat, m_event' <= uid',
           NEW ts \in Nat, pending' = {[ts |-> ts, uid |-> m_event']}, now' <= ts,
           suspended' = FALSE, alive' \in {"yes", "fatal"}
    PROVE  Inv'
<1> DEFINE e == [ts |-> ts, uid |-> m_event']
<1>1. e \in pending' /\ pending' = {e} /\ e.uid = m_event' /\ e.ts = ts /\ e \in [ts : Nat, uid : Nat]
    OBVIOUS
<1>2. TypeOK'
    BY <1>1 DEF TypeOK
<1>3. (pending # {} => \E f \in pending : pending = {f} /\ f.uid = m_event /\ now <= f.ts)'
    BY <1>1
<1> QED BY <1>2, <1>3 DEF Inv

\* The invariant of a state without events.
LEMMA InvOfNoEvent ==
    ASSUME {now, m_event, m_delayLeft, uid, calls}' \subseteq Nat, m_event' <= uid',
           pending' = {}, suspended' \in BOOLEAN, alive' \in {"yes", "no", "fatal"}
    PROVE  Inv'
  BY DEF Inv, TypeOK

\* Under the invariant the event the timer holds runs exactly if there is one.
LEMMA OneEvent ==
    ASSUME Inv
    PROVE  /\ EventRunning <=> pending # {}
           /\ EventRunning => /\ pending = {Current} /\ Current.uid = m_event
                              /\ Current.ts \in Nat /\ now <= Current.ts
                              /\ ~suspended /\ alive # "no"
<1>1. EventRunning <=> pending # {}
    BY DEF Inv, EventRunning
<1>2. ASSUME EventRunning
      PROVE  /\ pending = {Current} /\ Current.uid = m_event
             /\ Current.ts \in Nat /\ now <= Current.ts
             /\ ~suspended /\ alive # "no"
  <2>1. PICK e \in pending : pending = {e} /\ e.uid = m_event /\ now <= e.ts
      BY <1>1, <1>2 DEF Inv
  <2>2. Current = e
      BY <2>1 DEF Current
  <2>3. e.ts \in Nat
      BY <2>1 DEF Inv, TypeOK
  <2> QED BY <1>1, <1>2, <2>1, <2>2, <2>3 DEF Inv
<1> QED BY <1>1, <1>2

\* Cancelling or removing the event that is held leaves none.
LEMMA WithdrawAll == ASSUME Inv, Withdraw PROVE pending' = {}
  BY DEF Inv, Withdraw

\* The types of the numbers and flags.
LEMMA Types ==
    ASSUME Inv
    PROVE  /\ {now, m_event, m_delayLeft, uid, calls} \subseteq Nat /\ m_event <= uid
           /\ suspended \in BOOLEAN /\ alive \in {"yes", "no", "fatal"}
  BY DEF Inv, TypeOK

-----------------------------------------------------------------------------
(* One lemma for each action.                                              *)

\* Schedule on a timer that runs ends the program; otherwise the event is new.
LEMMA ScheduleInv ==
    ASSUME Inv, NEW delay \in 0..MaxDelay, Schedule(delay), foreseen' PROVE Inv'
<1>1. /\ now' = now /\ suspended' = suspended /\ m_delayLeft' = m_delayLeft /\ calls' = calls
      /\ suspended = FALSE /\ alive = "yes"
    BY Types DEF Schedule
<1>2. CASE EventRunning
  <2>1. alive' = "fatal" /\ pending' = pending /\ m_event' = m_event /\ uid' = uid
      BY <1>2 DEF Schedule
  <2> QED BY <1>1, <2>1 DEF Inv, TypeOK
<1>3. CASE ~EventRunning
  <2>1. NewEvent(delay) /\ alive' = alive
      BY <1>3 DEF Schedule
  <2>2. pending = {} /\ delay \in Nat /\ TypeOK
      BY <1>3, OneEvent, TimerAssumption DEF Inv
  <2>3. /\ pending' = {[ts |-> now + delay, uid |-> m_event']}
        /\ m_event' = uid + 1 /\ uid' = uid + 1
      BY <2>1, <2>2, NewEventAlone
  <2>4. {now, m_event, m_delayLeft, uid, calls}' \subseteq Nat /\ m_event' <= uid'
      BY <1>1, <2>3, Types
  <2>5. now + delay \in Nat /\ now' <= now + delay
      BY <1>1, <2>2, Types
  <2>6. suspended' = FALSE /\ alive' \in {"yes", "fatal"}
      BY <1>1, <2>1
  <2> QED BY <2>3, <2>4, <2>5, <2>6, InvOfOneEvent
<1> QED BY <1>2, <1>3

\* Suspend withdraws the event and keeps the time it had left.
LEMMA SuspendInv == ASSUME Inv, Suspend, foreseen' PROVE Inv'
<1>1. pending' = {}
    BY WithdrawAll DEF Suspend
<1>2. m_delayLeft' \in Nat
  <2>1. EventRunning /\ m_delayLeft' = Current.ts - now
      BY DEF Suspend, IsRunning
  <2>2. Current.ts \in Nat /\ now <= Current.ts /\ now \in Nat
      BY <2>1, OneEvent, Types
  <2> QED BY <2>1, <2>2
<1>3. {now, m_event, m_delayLeft, uid, calls}' \subseteq Nat /\ m_event' <= uid'
    BY <1>2, Types DEF Suspend
<1>4. suspended' \in BOOLEAN /\ alive' \in {"yes", "no", "fatal"}
    BY DEF Suspend
<1> QED BY <1>1, <1>3, <1>4, InvOfNoEvent

\* Resume finds no event and schedules one.
LEMMA ResumeInv == ASSUME Inv, Resume PROVE Inv'
<1>1. pending = {} /\ TypeOK /\ m_delayLeft \in Nat /\ NewEvent(m_delayLeft)
    BY DEF Inv, TypeOK, Resume
<1>2. /\ pending' = {[ts |-> now + m_delayLeft, uid |-> m_event']}
      /\ m_event' = uid + 1 /\ uid' = uid + 1
    BY <1>1, NewEventAlone
<1>3. now' = now /\ m_delayLeft' = m_delayLeft /\ calls' = calls /\ suspended' = FALSE /\ alive' = "yes"
    BY DEF Resume
<1>4. {now, m_event, m_delayLeft, uid, calls}' \subseteq Nat /\ m_event' <= uid'
    BY <1>2, <1>3, Types
<1>5. now + m_delayLeft \in Nat /\ now' <= now + m_delayLeft
    BY <1>3, Types
<1>6. alive' \in {"yes", "fatal"}
    BY <1>3
<1> QED BY <1>2, <1>3, <1>4, <1>5, <1>6, InvOfOneEvent

\* Cancel and Remove leave no event.
LEMMA CancelInv == ASSUME Inv, Cancel PROVE Inv'
<1>1. pending' = {}
    BY WithdrawAll DEF Cancel
<1>2. /\ {now, m_event, m_delayLeft, uid, calls}' \subseteq Nat /\ m_event' <= uid'
      /\ suspended' \in BOOLEAN /\ alive' \in {"yes", "no", "fatal"}
    BY Types DEF Cancel
<1> QED BY <1>1, <1>2, InvOfNoEvent

\* The destructor leaves no event, or ends the program.
LEMMA DestroyInv == ASSUME Inv, Destroy PROVE Inv'
<1>1. /\ {now, m_event, m_delayLeft, uid, calls}' \subseteq Nat /\ m_event' <= uid'
      /\ suspended' \in BOOLEAN
    BY Types DEF Destroy
<1>2. CASE policy = "CHECK_ON_DESTROY" /\ EventRunning
  <2>1. alive' = "fatal" /\ pending' = pending
      BY <1>2 DEF Destroy
  <2> QED BY <2>1 DEF Inv, TypeOK, Destroy
<1>3. CASE policy = "CHECK_ON_DESTROY" /\ ~EventRunning
  <2>1. alive' = "no" /\ pending' = {}
      BY <1>3, OneEvent DEF Destroy
  <2> QED BY <1>1, <2>1, InvOfNoEvent
<1>4. CASE policy # "CHECK_ON_DESTROY"
  <2>1. alive' = "no" /\ pending' = {}
      BY <1>4, WithdrawAll DEF Destroy
  <2> QED BY <1>1, <2>1, InvOfNoEvent
<1> QED BY <1>2, <1>3, <1>4

\* The event that is executed is the one the timer holds, and it was the last.
LEMMA InvokeInv == ASSUME Inv, Invoke PROVE Inv' /\ pending' = {} /\ pending # {} /\ Current.ts = now
<1>1. PICK e \in pending : e.ts = now /\ pending' = pending \ {e}
    BY DEF Invoke
<1>2. EventRunning /\ pending = {Current}
    BY <1>1, OneEvent
<1>3. pending' = {} /\ Current.ts = now
    BY <1>1, <1>2
<1>4. /\ {now, m_event, m_delayLeft, uid, calls}' \subseteq Nat /\ m_event' <= uid'
      /\ suspended' \in BOOLEAN /\ alive' \in {"yes", "no", "fatal"}
    BY Types DEF Invoke
<1> QED BY <1>1, <1>3, <1>4, InvOfNoEvent

\* Time does not pass the event.
LEMMA ElapseInv == ASSUME Inv, Elapse PROVE Inv'
<1>1. pending' = pending /\ m_event' = m_event /\ now' = now + 1
    BY DEF Elapse
<1>2. ASSUME pending # {}
      PROVE  \E e \in pending : pending = {e} /\ e.uid = m_event /\ now + 1 <= e.ts
  <2>1. EventRunning /\ pending = {Current} /\ Current.uid = m_event /\ Current.ts \in Nat
      BY <1>2, OneEvent
  <2>2. now \in Nat /\ Current.ts > now
      BY <2>1, Types DEF Elapse
  <2> QED BY <2>1, <2>2
<1>3. TypeOK' /\ (m_event <= uid)'
    BY <1>1, Types DEF Inv, TypeOK, Elapse
<1> QED BY <1>1, <1>2, <1>3 DEF Inv, Elapse

\* Every step keeps the invariant.
LEMMA NextInv == ASSUME Inv, [Next]_vars, foreseen' PROVE Inv'
<1>1. CASE \E delay \in 0..MaxDelay : Schedule(delay)
    BY <1>1, ScheduleInv
<1>2. CASE Suspend
    BY <1>2, SuspendInv
<1>3. CASE Resume
    BY <1>3, ResumeInv
<1>4. CASE Cancel
    BY <1>4, CancelInv
<1>5. CASE Destroy
    BY <1>5, DestroyInv
<1>6. CASE Invoke
    BY <1>6, InvokeInv
<1>7. CASE Elapse
    BY <1>7, ElapseInv
<1>8. CASE UNCHANGED vars
    BY <1>8 DEF vars, Inv, TypeOK
<1> QED BY <1>1, <1>2, <1>3, <1>4, <1>5, <1>6, <1>7, <1>8 DEF Next

\* The invariant holds as long as only calls are made that timer.h foresees.
THEOREM InvHolds == Spec => [](foreseen => Inv)
<1>1. Init => Inv
  <2> SUFFICES ASSUME Init PROVE Inv
      OBVIOUS
  <2>1. {now, m_event, m_delayLeft, uid, calls} \subseteq Nat /\ m_event <= uid /\ pending = {}
      BY DEF Init
  <2>2. TypeOK
      BY <2>1 DEF Init, TypeOK
  <2> QED BY <2>1, <2>2 DEF Inv
<1>2. foreseen' /\ [Next]_vars => foreseen
    BY DEF Next, Schedule, Suspend, Resume, Cancel, Destroy, Invoke, Elapse, vars
<1>3. (foreseen => Inv) /\ [Next]_vars => (foreseen => Inv)'
    BY <1>2, NextInv
<1> QED BY <1>1, <1>3, PTL DEF Spec

\* The timer never loses an event that Schedule or Resume has made, Suspend
\* leaves none behind that could call the function, and neither does ~Timer
\* under any of the three policies.
THEOREM OnlyItsEventHolds == Spec => []OnlyItsEvent
<1>1. (foreseen => Inv) => OnlyItsEvent
    BY DEF Inv, OnlyItsEvent
<1> QED BY <1>1, InvHolds, PTL

-----------------------------------------------------------------------------
(* The contract.                                                           *)

\* What GetState and GetDelayLeft say of a timer with and without event.
LEMMA View ==
    ASSUME Inv
    PROVE  /\ suspended => state = "SUSPENDED" /\ left = m_delayLeft
           /\ EventRunning => state = "RUNNING" /\ left = Current.ts - now
           /\ ~suspended /\ pending = {} => state = "EXPIRED" /\ left = 0
  BY OneEvent DEF state, left

\* What they say after a step that leaves the timer suspended,
LEMMA ViewSuspended ==
    ASSUME suspended' = TRUE
    PROVE  state' = "SUSPENDED" /\ left' = m_delayLeft'
  BY DEF state, left

\* without event,
LEMMA ViewExpired ==
    ASSUME suspended' = FALSE, pending' = {}
    PROVE  state' = "EXPIRED" /\ left' = 0
  BY DEF state, left, EventRunning

\* or with one event.
LEMMA ViewRunning ==
    ASSUME suspended' = FALSE, NEW ts \in Nat, pending' = {[ts |-> ts, uid |-> m_event']}
    PROVE  state' = "RUNNING" /\ left' = ts - now'
<1> DEFINE e == [ts |-> ts, uid |-> m_event']
<1>1. EventRunning'
    BY DEF EventRunning
<1>2. Current' = e
    BY DEF Current
<1> QED BY <1>1, <1>2 DEF state, left

\* Every step of a timer that exists is a step of the contract, or none.
LEMMA ContractStep ==
    ASSUME Inv, Next, alive' = "yes", foreseen'
    PROVE  Contract!Next \/ UNCHANGED Contract!vars
<1>1. ASSUME NEW delay \in 0..MaxDelay, Schedule(delay) PROVE Contract!Schedule
  <2>1. ~EventRunning /\ NewEvent(delay) /\ suspended' = suspended /\ calls' = calls
        /\ suspended = FALSE /\ now' = now
      BY <1>1, Types DEF Schedule
  <2>2. pending = {} /\ delay \in Nat /\ TypeOK /\ now \in Nat
      BY <2>1, OneEvent, Types, TimerAssumption DEF Inv
  <2>3. pending' = {[ts |-> now + delay, uid |-> m_event']}
      BY <2>1, <2>2, NewEventAlone
  <2>4. state = "EXPIRED" /\ left = 0
      BY <2>1, <2>2, View
  <2>5. state' = "RUNNING" /\ left' = (now + delay) - now'
    <3> DEFINE ts == now + delay
    <3>1. ts \in Nat /\ pending' = {[ts |-> ts, uid |-> m_event']}
        BY <2>2, <2>3
    <3> HIDE DEF ts
    <3>2. state' = "RUNNING" /\ left' = ts - now'
        BY <2>1, <3>1, ViewRunning
    <3> QED BY <3>2 DEF ts
  <2>6. left' \in 0..MaxDelay
      BY <1>1, <2>1, <2>2, <2>5
  <2> QED BY <2>1, <2>4, <2>5, <2>6 DEF Contract!Schedule
<1>2. ASSUME Suspend PROVE Contract!Suspend
  <2>1. EventRunning /\ m_delayLeft' = Current.ts - now /\ suspended' = TRUE /\ calls' = calls
      BY <1>2 DEF Suspend, IsRunning
  <2> QED BY <2>1, View, ViewSuspended DEF Contract!Suspend
<1>3. ASSUME Resume PROVE Contract!Resume
  <2>1. suspended /\ suspended' = FALSE /\ calls' = calls /\ now' = now
        /\ m_delayLeft \in Nat /\ NewEvent(m_delayLeft) /\ pending = {} /\ TypeOK
      BY <1>3 DEF Resume, Inv, TypeOK
  <2>2. pending' = {[ts |-> now + m_delayLeft, uid |-> m_event']}
      BY <2>1, NewEventAlone
  <2>3. state' = "RUNNING" /\ left' = (now + m_delayLeft) - now'
    <3> DEFINE ts == now + m_delayLeft
    <3>1. ts \in Nat /\ pending' = {[ts |-> ts, uid |-> m_event']}
        BY <2>1, <2>2, Types
    <3> HIDE DEF ts
    <3>2. state' = "RUNNING" /\ left' = ts - now'
        BY <2>1, <3>1, ViewRunning
    <3> QED BY <3>2 DEF ts
  <2>4. left' = m_delayLeft
      BY <2>1, <2>3, Types
  <2> QED BY <2>1, <2>3, <2>4, View DEF Contract!Resume
<1>4. ASSUME Cancel PROVE Contract!Cancel \/ UNCHANGED Contract!vars
  <2>1. suspended = FALSE /\ suspended' = FALSE /\ pending' = {} /\ calls' = calls
      BY <1>4, WithdrawAll, Types DEF Cancel
  <2>2. state' = "EXPIRED" /\ left' = 0
      BY <2>1, ViewExpired
  <2>3. CASE EventRunning
      BY <2>1, <2>2, <2>3, View DEF Contract!Cancel
  <2>4. CASE ~EventRunning
      BY <2>1, <2>2, <2>4, View, OneEvent DEF Contract!vars
  <2> QED BY <2>3, <2>4
<1>5. ASSUME Invoke PROVE Contract!Expire
  <2>1. pending' = {} /\ pending # {} /\ Current.ts = now
      BY <1>5, InvokeInv
  <2>2. EventRunning /\ ~suspended
      BY <2>1, OneEvent
  <2>3. suspended' = FALSE /\ calls' = calls + 1
      BY <1>5, <2>2, Types DEF Invoke
  <2>4. state = "RUNNING" /\ left = Current.ts - now
      BY <2>2, View
  <2>5. left = 0
      BY <2>1, <2>4, Types
  <2>6. state' = "EXPIRED" /\ left' = 0
      BY <2>1, <2>3, ViewExpired
  <2> QED BY <2>3, <2>4, <2>5, <2>6 DEF Contract!Expire
<1>6. ASSUME Elapse PROVE Contract!RunDown \/ UNCHANGED Contract!vars
  <2>1. /\ pending' = pending /\ m_event' = m_event /\ now' = now + 1
        /\ suspended' = suspended /\ m_delayLeft' = m_delayLeft /\ calls' = calls
      BY <1>6 DEF Elapse
  <2>2. CASE EventRunning
    <3>1. pending = {Current} /\ Current.uid = m_event /\ Current.ts \in Nat /\ suspended = FALSE
        BY <2>2, OneEvent, Types
    <3>2. now \in Nat /\ Current.ts > now
        BY <3>1, <1>6, Types DEF Elapse
    <3>3. Current \in [ts : Nat, uid : Nat]
        BY <3>1 DEF Inv, TypeOK
    <3>4. pending' = {[ts |-> Current.ts, uid |-> m_event']}
        BY <2>1, <3>1, <3>3
    <3>5. state' = "RUNNING" /\ left' = Current.ts - now'
        BY <2>1, <3>1, <3>4, ViewRunning
    <3>6. state = "RUNNING" /\ left = Current.ts - now
        BY <2>2, View
    <3>7. left > 0 /\ left' = left - 1
        BY <2>1, <3>1, <3>2, <3>5, <3>6
    <3> QED BY <2>1, <3>5, <3>6, <3>7 DEF Contract!RunDown
  <2>3. CASE ~EventRunning /\ suspended = TRUE
      BY <2>1, <2>3, View, ViewSuspended DEF Contract!vars
  <2>4. CASE ~EventRunning /\ suspended = FALSE
      BY <2>1, <2>4, OneEvent, View, ViewExpired DEF Contract!vars
  <2> QED BY <2>2, <2>3, <2>4, Types
<1>7. ~Destroy
    BY DEF Destroy
<1> QED BY <1>1, <1>2, <1>3, <1>4, <1>5, <1>6, <1>7 DEF Next, Contract!Next

\* Used as intended, the timer does what TimerContract says: it runs down, keeps
\* the time left while it is suspended and calls its function once, in time.
THEOREM KeepsContractHolds == Spec => KeepsContract
<1>1. Init => Contract!Init
    BY DEF Init, Contract!Init, state, left, EventRunning
<1>2. foreseen' /\ Next => foreseen
    BY DEF Next, Schedule, Suspend, Resume, Cancel, Destroy, Invoke, Elapse
<1>3. (foreseen => Inv) /\ [Next]_vars =>
          [foreseen' /\ alive' = "yes" => Contract!Next \/ UNCHANGED Contract!vars]_vars
    BY <1>2, ContractStep
<1> QED BY <1>1, <1>3, InvHolds, PTL DEF Spec, KeepsContract

-----------------------------------------------------------------------------
(* The watchdog.                                                           *)

\* The inductive invariant: m_end is the promise, and a watchdog that was
\* destroyed has no event.
DogInv ==
    /\ Dog!TypeOK
    /\ m_end = promised
    /\ Dog!ArmedByOneEvent
    /\ ~dogAlive => dogPending = {}

\* The later of two times is one of them and no earlier than either.
LEMMA LaterIsMax ==
    ASSUME NEW s \in Nat, NEW t \in Nat
    PROVE  Dog!Later(s, t) \in Nat /\ s <= Dog!Later(s, t) /\ t <= Dog!Later(s, t)
  BY DEF Dog!Later

\* Scheduling Expire for ts with no other event left gives one event, which
\* m_event names.
LEMMA ScheduleExpireAlone ==
    ASSUME NEW ts \in Nat, NEW rest, rest = {}, dogUid \in Nat, Dog!ScheduleExpire(ts, rest)
    PROVE  /\ dogPending' = {[ts |-> ts, uid |-> dogUid + 1]}
           /\ dogEvent' = dogUid + 1 /\ dogUid' = dogUid + 1
           /\ dogEvent' \in Nat /\ dogUid' \in Nat
  BY DEF Dog!ScheduleExpire

\* The states in which one event is pending at ts satisfy the invariant.
LEMMA DogInvOfOneEvent ==
    ASSUME NEW ts \in Nat,
           {now, m_end, dogUid, pings, promised, calledAt}' \subseteq Nat,
           dogAlive' = TRUE, armed' = TRUE,
           dogEvent' \in 1..dogUid', m_end' = promised',
           dogPending' = {[ts |-> ts, uid |-> dogEvent']},
           now' <= ts, ts <= promised'
    PROVE  DogInv'
<1> DEFINE e == [ts |-> ts, uid |-> dogEvent']
<1>1. Dog!TypeOK'
    BY DEF Dog!TypeOK
<1>2. Dog!ArmedByOneEvent'
  <2>1. e \in dogPending' /\ dogPending' = {e} /\ e.uid = dogEvent' /\ e.ts = ts
      OBVIOUS
  <2> QED BY <2>1 DEF Dog!ArmedByOneEvent
<1> QED BY <1>1, <1>2 DEF DogInv

\* A Ping keeps the invariant.
LEMMA DogPingInv == ASSUME DogInv, NEW delay \in 0..MaxDelay, Dog!Ping(delay) PROVE DogInv'
<1> DEFINE t == now + delay
<1>0. now \in Nat /\ m_end \in Nat /\ dogUid \in Nat /\ pings \in Nat /\ calledAt \in Nat
      /\ dogEvent \in Nat /\ promised \in Nat /\ m_end = promised /\ delay \in Nat /\ dogAlive = TRUE
    BY DEF DogInv, Dog!TypeOK, Dog!Ping
<1>1. t \in Nat /\ now <= t
    BY <1>0
<1>2. /\ Dog!Later(m_end, t) \in Nat /\ m_end <= Dog!Later(m_end, t) /\ t <= Dog!Later(m_end, t)
      /\ m_end' = Dog!Later(m_end, t) /\ promised' = Dog!Later(m_end, t)
    BY <1>0, <1>1, LaterIsMax DEF Dog!Ping
<1>3. /\ now' = now /\ dogAlive' = TRUE /\ armed' = TRUE /\ calledAt' = calledAt
      /\ pings' = pings + 1
    BY <1>0 DEF Dog!Ping
<1>4. CASE Dog!EventRunning
  <2>1. dogPending' = dogPending /\ dogEvent' = dogEvent /\ dogUid' = dogUid
      BY <1>4 DEF Dog!Ping
  <2>2. armed
      BY <1>4, <1>0 DEF DogInv, Dog!ArmedByOneEvent, Dog!EventRunning
  <2>3. PICK e \in dogPending : /\ dogPending = {e} /\ e.uid = dogEvent
                             /\ now <= e.ts /\ e.ts <= promised
      BY <2>2, <1>0 DEF DogInv, Dog!ArmedByOneEvent
  <2>4. e.ts \in Nat /\ e.uid \in 1..dogUid /\ e = [ts |-> e.ts, uid |-> e.uid]
    <3>1. e \in [ts : 0..promised, uid : 1..dogUid]
        BY <2>3 DEF DogInv, Dog!TypeOK
    <3> QED BY <3>1, <1>0
  <2>5. e.ts <= promised' /\ now' <= e.ts
      BY <2>3, <2>4, <1>0, <1>2, <1>3
  <2>6. dogPending' = {[ts |-> e.ts, uid |-> dogEvent']} /\ dogEvent' \in 1..dogUid'
      BY <2>1, <2>3, <2>4
  <2>7. {now, m_end, dogUid, pings, promised, calledAt}' \subseteq Nat
      BY <2>1, <1>0, <1>2, <1>3
  <2> QED BY <1>2, <1>3, <2>4, <2>5, <2>6, <2>7, DogInvOfOneEvent
<1>5. CASE ~Dog!EventRunning
  <2>1. dogPending = {}
      BY <1>5, <1>0 DEF DogInv, Dog!ArmedByOneEvent, Dog!EventRunning
  <2>2. Dog!ScheduleExpire(m_end', dogPending)
      BY <1>5 DEF Dog!Ping
  <2>3. /\ dogPending' = {[ts |-> m_end', uid |-> dogUid + 1]}
        /\ dogEvent' = dogUid + 1 /\ dogUid' = dogUid + 1
      BY <2>1, <2>2, <1>0, <1>2, ScheduleExpireAlone
  <2>4. {now, m_end, dogUid, pings, promised, calledAt}' \subseteq Nat /\ dogEvent' \in 1..dogUid'
      BY <2>3, <1>0, <1>2, <1>3
  <2>5. m_end' \in Nat /\ now' <= m_end' /\ m_end' <= promised'
      BY <1>0, <1>1, <1>2, <1>3
  <2>6. dogPending' = {[ts |-> m_end', uid |-> dogEvent']}
      BY <2>3
  <2> QED BY <1>2, <1>3, <2>4, <2>5, <2>6, DogInvOfOneEvent
<1> QED BY <1>4, <1>5

\* Expire keeps the invariant; in particular an event that comes too early is
\* replaced by one that does not.
LEMMA DogExpireInv == ASSUME DogInv, NEW e \in dogPending, Dog!Expire(e) PROVE DogInv'
<1>0. /\ now \in Nat /\ m_end \in Nat /\ dogUid \in Nat /\ pings \in Nat /\ calledAt \in Nat
      /\ dogEvent \in Nat /\ promised \in Nat /\ m_end = promised
    BY DEF DogInv, Dog!TypeOK
<1>1. dogAlive = TRUE /\ armed = TRUE
    BY DEF DogInv, Dog!TypeOK, Dog!ArmedByOneEvent
<1>2. dogPending = {e} /\ now <= promised
    BY <1>1 DEF DogInv, Dog!ArmedByOneEvent, Dog!Expire
<1>3. now' = now /\ m_end' = m_end /\ pings' = pings /\ promised' = promised /\ dogAlive' = dogAlive
    BY DEF Dog!Expire
<1>4. CASE m_end = now
  <2>1. dogPending' = {} /\ armed' = FALSE /\ calledAt' = now /\ dogEvent' = dogEvent /\ dogUid' = dogUid
      BY <1>2, <1>4 DEF Dog!Expire
  <2>2. Dog!TypeOK'
      BY <1>0, <1>1, <1>3, <2>1 DEF Dog!TypeOK
  <2> QED BY <1>0, <1>3, <2>1, <2>2 DEF DogInv, Dog!ArmedByOneEvent
<1>5. CASE m_end # now
  <2>1. Dog!ScheduleExpire(m_end, dogPending \ {e}) /\ armed' = armed /\ calledAt' = calledAt
      BY <1>5 DEF Dog!Expire
  <2>2. dogPending \ {e} = {}
      BY <1>2
  <2>3. /\ dogPending' = {[ts |-> m_end, uid |-> dogUid + 1]}
        /\ dogEvent' = dogUid + 1 /\ dogUid' = dogUid + 1
      BY <2>1, <2>2, <1>0, ScheduleExpireAlone
  <2>4. {now, m_end, dogUid, pings, promised, calledAt}' \subseteq Nat /\ dogEvent' \in 1..dogUid'
      BY <2>1, <2>3, <1>0, <1>3
  <2>5. m_end \in Nat /\ now' <= m_end /\ m_end <= promised' /\ m_end' = promised'
      BY <1>0, <1>2, <1>3
  <2>6. dogPending' = {[ts |-> m_end, uid |-> dogEvent']} /\ dogAlive' = TRUE /\ armed' = TRUE
      BY <1>1, <1>3, <2>1, <2>3
  <2> QED BY <2>4, <2>5, <2>6, DogInvOfOneEvent
<1> QED BY <1>4, <1>5

\* The destructor withdraws the only event.
LEMMA DogDestroyInv == ASSUME DogInv, Dog!Destroy PROVE DogInv'
<1>1. dogPending' = {}
  <2>1. CASE armed
      BY <2>1 DEF DogInv, Dog!ArmedByOneEvent, Dog!Destroy
  <2>2. CASE ~armed
      BY <2>2 DEF DogInv, Dog!ArmedByOneEvent, Dog!Destroy
  <2> QED BY <2>1, <2>2
<1>2. Dog!TypeOK'
    BY <1>1 DEF DogInv, Dog!TypeOK, Dog!Destroy
<1> QED BY <1>1, <1>2 DEF DogInv, Dog!ArmedByOneEvent, Dog!Destroy

\* Time does not pass the event.
LEMMA DogElapseInv == ASSUME DogInv, Dog!Elapse PROVE DogInv'
<1>1. Dog!TypeOK'
    BY DEF DogInv, Dog!TypeOK, Dog!Elapse
<1>2. Dog!ArmedByOneEvent'
  <2>1. CASE dogAlive /\ armed
    <3>1. PICK e \in dogPending : /\ dogPending = {e} /\ e.uid = dogEvent
                               /\ now <= e.ts /\ e.ts <= promised /\ m_end = promised
        BY <2>1 DEF DogInv, Dog!ArmedByOneEvent
    <3>2. e.ts \in Nat /\ now \in Nat
        BY DEF DogInv, Dog!TypeOK
    <3>3. now' <= e.ts
        BY <3>1, <3>2 DEF Dog!Elapse
    <3> QED BY <2>1, <3>1, <3>3 DEF Dog!ArmedByOneEvent, Dog!Elapse
  <2>2. CASE ~(dogAlive /\ armed)
      BY <2>2 DEF DogInv, Dog!ArmedByOneEvent, Dog!Elapse
  <2> QED BY <2>1, <2>2
<1> QED BY <1>1, <1>2 DEF DogInv, Dog!Elapse

\* The invariant holds at all times.
THEOREM DogInvHolds == Dog!Spec => []DogInv
<1>1. Dog!Init => DogInv
  <2> SUFFICES ASSUME Dog!Init PROVE DogInv
      OBVIOUS
  <2>1. {now, dogEvent, m_end, dogUid, pings, promised, calledAt} \subseteq Nat /\ dogPending = {}
      BY DEF Dog!Init
  <2>2. Dog!TypeOK
      BY <2>1 DEF Dog!Init, Dog!TypeOK
  <2>3. Dog!ArmedByOneEvent
      BY DEF Dog!Init, Dog!ArmedByOneEvent
  <2> QED BY <2>2, <2>3 DEF Dog!Init, DogInv
<1>2. DogInv /\ [Dog!Next]_Dog!vars => DogInv'
  <2> SUFFICES ASSUME DogInv, [Dog!Next]_Dog!vars PROVE DogInv'
      OBVIOUS
  <2>1. CASE \E delay \in 0..MaxDelay : Dog!Ping(delay)
      BY <2>1, DogPingInv
  <2>2. CASE \E e \in dogPending : Dog!Expire(e)
      BY <2>2, DogExpireInv
  <2>3. CASE Dog!Destroy
      BY <2>3, DogDestroyInv
  <2>4. CASE Dog!Elapse
      BY <2>4, DogElapseInv
  <2>5. CASE UNCHANGED Dog!vars
      BY <2>5 DEF Dog!vars, DogInv, Dog!TypeOK, Dog!ArmedByOneEvent
  <2> QED BY <2>1, <2>2, <2>3, <2>4, <2>5 DEF Dog!Next
<1> QED BY <1>1, <1>2, PTL DEF Dog!Spec

\* However Ping and the events alternate, an armed watchdog is held by exactly
\* one event that is due in time (Ping's test of m_event.IsRunning and the
\* second Schedule in Expire).
THEOREM ArmedByOneEventHolds == Dog!Spec => []Dog!ArmedByOneEvent
<1>1. DogInv => Dog!ArmedByOneEvent
    BY DEF DogInv
<1> QED BY <1>1, DogInvHolds, PTL

\* The function is called exactly at the latest time a Ping has promised.
THEOREM CalledWhenPromisedHolds == Dog!Spec => Dog!CalledWhenPromised
<1>1. DogInv /\ [Dog!Next]_Dog!vars => [calledAt' # calledAt \/ (armed /\ ~armed') => now = promised]_Dog!vars
  <2> SUFFICES ASSUME DogInv, Dog!Next, calledAt' # calledAt \/ (armed /\ ~armed')
               PROVE  now = promised
      OBVIOUS
  <2>1. CASE \E delay \in 0..MaxDelay : Dog!Ping(delay)
      BY <2>1 DEF Dog!Ping
  <2>2. CASE \E e \in dogPending : Dog!Expire(e)
      BY <2>2 DEF Dog!Expire, DogInv
  <2>3. CASE Dog!Destroy
      BY <2>3 DEF Dog!Destroy
  <2>4. CASE Dog!Elapse
      BY <2>4 DEF Dog!Elapse
  <2> QED BY <2>1, <2>2, <2>3, <2>4 DEF Dog!Next
<1> QED BY <1>1, DogInvHolds, PTL DEF Dog!Spec, Dog!CalledWhenPromised

-----------------------------------------------------------------------------
(* Both.                                                                   *)

\* No call or event of the watchdog moves the simulated time.
LEMMA DogKeepsTime == ASSUME DogStep PROVE now' = now /\ Dog!Next
<1>1. CASE \E delay \in 0..MaxDelay : Dog!Ping(delay)
    BY <1>1 DEF Dog!Ping, Dog!Next
<1>2. CASE Dog!Destroy
    BY <1>2 DEF Dog!Destroy, Dog!Next
<1>3. CASE DogExpires
    BY <1>3 DEF DogExpires, Dog!Expire, Dog!Next
<1> QED BY <1>1, <1>2, <1>3 DEF DogStep

\* Neither does a call or the event of the timer.
LEMMA TimerKeepsTime == ASSUME TimerStep PROVE now' = now /\ Next
<1>1. CASE \E delay \in 0..MaxDelay : Schedule(delay)
    BY <1>1 DEF Schedule, Next
<1>2. CASE Suspend
    BY <1>2 DEF Suspend, Next
<1>3. CASE Resume
    BY <1>3 DEF Resume, Next
<1>4. CASE Cancel
    BY <1>4 DEF Cancel, Next
<1>5. CASE Destroy
    BY <1>5 DEF Destroy, Next
<1>6. CASE Invoke
    BY <1>6 DEF Invoke, Next
<1> QED BY <1>1, <1>2, <1>3, <1>4, <1>5, <1>6 DEF TimerStep

\* Side by side on one simulator, the timer and the watchdog do not disturb each
\* other: the program is a Timer and it is a Watchdog.
THEOREM TimersImplement == TimersSpec => Spec /\ Dog!Spec
<1>1. TimersInit => Init /\ Dog!Init
    BY DEF TimersInit
<1>2. [TimersNext]_allVars => [Next]_vars
  <2>1. ASSUME TimerStep PROVE Next
      BY <2>1, TimerKeepsTime
  <2>2. ASSUME DogStep, UNCHANGED timerState PROVE UNCHANGED vars
      BY <2>2, DogKeepsTime DEF timerState, vars
  <2>3. ASSUME TimePasses PROVE Next
      BY <2>3 DEF TimePasses, Next
  <2> QED BY <2>1, <2>2, <2>3 DEF TimersNext, allVars
<1>3. [TimersNext]_allVars => [Dog!Next]_Dog!vars
  <2>1. ASSUME TimerStep, UNCHANGED dogState PROVE UNCHANGED Dog!vars
      BY <2>1, TimerKeepsTime DEF dogState, Dog!vars
  <2>2. ASSUME DogStep PROVE Dog!Next
      BY <2>2, DogKeepsTime
  <2>3. ASSUME TimePasses PROVE Dog!Next
      BY <2>3 DEF TimePasses, Dog!Next
  <2>4. ASSUME UNCHANGED allVars PROVE UNCHANGED Dog!vars
      BY <2>4 DEF allVars, vars, dogState, Dog!vars
  <2> QED BY <2>1, <2>2, <2>3, <2>4 DEF TimersNext
<1> QED BY <1>1, <1>2, <1>3, PTL DEF TimersSpec, Spec, Dog!Spec

\* What Timers checks of the two is therefore true of the program for every value
\* of the bounds: the timer has the event it knows of and no other,
THEOREM TimersOnlyItsEvent == TimersSpec => []OnlyItsEvent
  BY TimersImplement, OnlyItsEventHolds, PTL

\* it keeps the contract of timer.h,
THEOREM TimersKeepContract == TimersSpec => KeepsContract
  BY TimersImplement, KeepsContractHolds, PTL

\* the watchdog stays armed by one event,
THEOREM TimersArmedByOneEvent == TimersSpec => []ArmedByOneEvent
<1>1. Dog!ArmedByOneEvent => ArmedByOneEvent
    BY DEF ArmedByOneEvent
<1> QED BY <1>1, TimersImplement, ArmedByOneEventHolds, PTL

\* and it calls its function exactly when the Pings have promised.
THEOREM TimersCalledWhenPromised == TimersSpec => CalledWhenPromised
  BY TimersImplement, CalledWhenPromisedHolds, PTL DEF CalledWhenPromised
=============================================================================
