------------------------------- MODULE Timers -------------------------------
(***************************************************************************)
(* A Timer and a Watchdog of one program, on one simulator: simulated time *)
(* moves on only when nothing of either is due, and a fatal error of the   *)
(* timer ends the program and the watchdog with it.                        *)
(***************************************************************************)
EXTENDS Timer

CONSTANT MaxPings    \* bound: Pings of the watchdog

ASSUME TimersAssumption == MaxPings \in Nat /\ MaxDelay <= MaxTime

VARIABLES
    dogPending, dogEvent, dogUid, dogAlive,       \* pending ... of Watchdog
    m_end, pings, promised, armed, calledAt

timerState == <<pending, m_event, policy, suspended, m_delayLeft, uid, calls, alive,
                foreseen>>
dogState == <<dogPending, dogEvent, dogUid, dogAlive, m_end, pings, promised, armed,
              calledAt>>
allVars == <<vars, dogState>>

\* The last Ping is early enough for its event to come due.
Dog == INSTANCE Watchdog WITH
    pending <- dogPending, m_event <- dogEvent, uid <- dogUid, alive <- dogAlive,
    MaxTime <- MaxTime - MaxDelay

\* Calls of the timer, and its event.
TimerStep ==
    \/ \E delay \in 0..MaxDelay : Schedule(delay)
    \/ Suspend \/ Resume \/ Cancel \/ Destroy \/ Invoke

\* Calls of the watchdog, and its event.
DogExpires == alive # "fatal" /\ \E e \in dogPending : Dog!Expire(e)
DogStep ==
    \/ alive # "fatal" /\ \E delay \in 0..MaxDelay : Dog!Ping(delay)
    \/ alive # "fatal" /\ Dog!Destroy
    \/ DogExpires

TimePasses == Elapse /\ Dog!Elapse

TimersInit == Init /\ Dog!Init

TimersNext ==
    \/ TimerStep /\ UNCHANGED dogState
    \/ DogStep /\ UNCHANGED timerState
    \/ TimePasses

\* The simulator executes the events that are due and goes on.
TimersSpec ==
    /\ TimersInit /\ [][TimersNext]_allVars
    /\ WF_allVars(Invoke /\ UNCHANGED dogState)
    /\ WF_allVars(DogExpires /\ UNCHANGED timerState)
    /\ WF_allVars(TimePasses)

-----------------------------------------------------------------------------
(* Properties                                                              *)

\* Whatever the Pings, and whatever the timer does meanwhile, the watchdog's
\* function is called exactly at the latest time a Ping has promised.
CalledWhenPromised == Dog!CalledWhenPromised

\* A watchdog that was pinged stays armed by exactly one event, which it knows
\* of; one that was not pinged since it triggered has none.
ArmedByOneEvent == Dog!ArmedByOneEvent

\* "If you don't ping the watchdog sufficiently often, it triggers its
\* listening function" (watchdog.h): an armed watchdog triggers, unless it is
\* destroyed or the program dies.
Triggers == armed ~> (~armed \/ ~dogAlive \/ alive = "fatal")
=============================================================================
