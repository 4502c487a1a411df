----------------------------- MODULE Visualizer -----------------------------
(***************************************************************************)
(* PyViz (src/visualizer/visualizer/core.py): the GUI thread, which runs   *)
(* the GLib main loop, and the SimulationThread, which runs the simulation *)
(* in steps of a sample period.  They share a non-recursive lock, which    *)
(* guards the simulation, and the event `go', by which a view update asks  *)
(* for the next step.                                                      *)
(*                                                                         *)
(* update_view_timeout waits for the lock in a loop that runs the main     *)
(* loop recursively, so that other callbacks run inside it.  The GUI       *)
(* thread is therefore a stack of callbacks.                               *)
(***************************************************************************)
EXTENDS Integers, Sequences, FiniteSets

CONSTANTS
    Periods,        \* sample periods that the speed control offers
    StopTimes,      \* simulated times at which the script calls Simulator::Stop
    MaxNow,         \* bound: simulated time
    MaxTimers,      \* bound: GLib timeout sources
    MaxDepth,       \* bound: update_view_timeout calls inside each other
    MaxMessages     \* bound: calls of PyViz::Pause

ASSUME VisualizerAssumption ==
    /\ Periods \subseteq Nat \ {0} /\ Periods # {} /\ StopTimes \subseteq Nat
    /\ {MaxNow, MaxTimers, MaxDepth, MaxMessages} \subseteq Nat

VARIABLES
    stack,          \* callbacks of the GUI thread, innermost first
    lock,           \* "free", or the thread that holds it
    go,             \* threading.Event
    quit,
    main_quit,      \* Gtk.main_quit was called
    target_time,
    pause_messages, \* messages not yet shown
    sim,            \* where SimulationThread.run is
    now,            \* Simulator::Now
    models,         \* update_model callbacks added by idle_add
    timers,         \* timeout sources that exist
    next_id,        \* id of the next source
    _update_timeout_id,     \* None is 0
    active,         \* play_button.get_active()
    sample_period,
    shown,          \* history: simulated time of the last view update
    posted, displayed       \* history: pause messages made and displayed

pyvizVars == <<stack, lock, go, quit, main_quit, target_time, pause_messages, sim,
          now, models, timers, next_id, _update_timeout_id, active,
          sample_period, shown, posted, displayed>>

simVars   == <<sim, now>>
timerVars == <<timers, next_id, _update_timeout_id>>
viewVars  == <<target_time, shown, displayed>>

None == 0

\* A callback that is running: its name, the source that called it (0 when
\* it is not a timeout) and where it is.
Frame(name, source, at) == [name |-> name, source |-> source, at |-> at]

PyVizInit ==
    /\ stack = <<>>
    /\ lock = "free" /\ go = FALSE /\ quit = FALSE /\ main_quit = FALSE
    /\ target_time = 0 /\ pause_messages = 0
    /\ sim = "test" /\ now = 0 /\ models = 0
    /\ timers = {1} /\ next_id = 2 /\ _update_timeout_id = 1
    /\ active = FALSE /\ sample_period \in Periods
    /\ shown = 0 /\ posted = 0 /\ displayed = 0

-----------------------------------------------------------------------------
(* SimulationThread.run.                                                   *)

SimUnchanged ==
    UNCHANGED <<stack, main_quit, quit, target_time, timerVars, active,
                sample_period, shown, displayed>>

SimTest ==
    /\ sim = "test"
    /\ sim' = IF quit THEN "ended" ELSE "wait"
    /\ SimUnchanged
    /\ UNCHANGED <<lock, go, pause_messages, now, models, posted>>

SimWait ==
    /\ sim = "wait" /\ go
    /\ sim' = "clear"
    /\ SimUnchanged
    /\ UNCHANGED <<lock, go, pause_messages, now, models, posted>>

\* go is cleared first and quit looked at after it.
SimClear ==
    \/ /\ sim = "clear"
       /\ go' = FALSE
       /\ sim' = "check"
       /\ SimUnchanged
       /\ UNCHANGED <<lock, pause_messages, now, models, posted>>
    \/ /\ sim = "check"
       /\ sim' = IF quit THEN "ended" ELSE "acquire"
       /\ SimUnchanged
       /\ UNCHANGED <<lock, go, pause_messages, now, models, posted>>

\* Mutant: the simulation runs without the lock.
SimAcquire_NoLock ==
    /\ sim = "acquire"
    /\ sim' = "run"
    /\ SimUnchanged
    /\ UNCHANGED <<lock, go, pause_messages, now, models, posted>>

SimAcquire ==
    /\ sim = "acquire" /\ lock = "free"
    /\ lock' = "sim"
    /\ sim' = "run"
    /\ SimUnchanged
    /\ UNCHANGED <<go, pause_messages, now, models, posted>>

\* Mutant: the messages of the last step replace those not yet shown.
Collected_Replace(old, new) == new

\* pause_messages.extend (GetPauseMessages ())
Collected(old, new) == old + new

\* SimulatorRunUntil does nothing if the target has been reached, and else
\* runs the simulation up to the target or until the script stops it.
RunEndsAt ==
    IF now < target_time
    THEN {target_time} \cup {t \in StopTimes : now <= t /\ t < target_time}
    ELSE {now}

\* PyViz::Pause queues a message but does not end the step.  update_model is
\* scheduled while the lock is held.
SimRun(messages) ==
    /\ sim = "run"
    /\ messages > 0 => now < target_time
    /\ posted + messages <= MaxMessages
    /\ now' \in RunEndsAt
    /\ posted' = posted + messages
    /\ pause_messages' = Collected(pause_messages, messages)
    /\ models' = models + 1
    /\ sim' = "release"
    /\ SimUnchanged
    /\ UNCHANGED <<lock, go>>

SimRelease ==
    /\ sim = "release"
    /\ lock' = "free"
    /\ sim' = "test"
    /\ SimUnchanged
    /\ UNCHANGED <<go, pause_messages, now, models, posted>>

SimStep ==
    \/ SimTest \/ SimWait \/ SimClear \/ SimAcquire \/ SimRelease
    \/ \E messages \in 0 .. 1 : SimRun(messages)

\* A step that no Simulator::Stop ends at the instant at which it began.
SimAdvances == SimRun(0) /\ now' > now

-----------------------------------------------------------------------------
(* The GLib main loop: a callback may start when none runs, or inside the  *)
(* loop in which update_view_timeout waits for the lock.  Sources of       *)
(* PRIORITY_UPDATE_MODEL go before the others, but one that is added when  *)
(* GLib has already looked which are ready waits for the one callback that *)
(* was chosen.  A source is not dispatched inside itself.                  *)

Top == Head(stack)

MainLoop ==
    \/ stack = <<>> /\ ~main_quit
    \/ stack # <<>> /\ Top.at = "spin"

NoModelFirst == models <= 1

Dispatching == {stack[i].source : i \in DOMAIN stack}

Call(frame) == stack' = <<frame>> \o stack
Move(at)    == stack' = [stack EXCEPT ![1].at = at]
Return      == stack' = Tail(stack)

\* _start_update_timer
StartTimer ==
    /\ next_id <= MaxTimers
    /\ timers' = (timers \ {_update_timeout_id}) \cup {next_id}
    /\ _update_timeout_id' = next_id
    /\ next_id' = next_id + 1

-----------------------------------------------------------------------------
(* The user.                                                               *)

Event == MainLoop /\ NoModelFirst /\ ~quit

\* _on_play_button_toggled; on a pause _update_timeout_id keeps the id of the
\* source that was removed.
Play ==
    /\ Event /\ ~active
    /\ active' = TRUE
    /\ StartTimer
    /\ UNCHANGED <<stack, lock, go, quit, main_quit, pause_messages, simVars,
                   models, sample_period, viewVars, posted>>

Pause ==
    /\ Event /\ active
    /\ active' = FALSE
    /\ timers' = timers \ {_update_timeout_id}
    /\ UNCHANGED <<stack, lock, go, quit, main_quit, pause_messages, simVars,
                   models, next_id, _update_timeout_id, sample_period, viewVars, posted>>

\* _speed_changed starts the timer whether or not the simulation is paused.
SpeedChanged(period) ==
    /\ Event
    /\ sample_period' = period
    /\ StartTimer
    /\ UNCHANGED <<stack, lock, go, quit, main_quit, pause_messages, simVars,
                   models, active, viewVars, posted>>

\* Callbacks that wait for the lock before they look at the simulation: the
\* tooltip of a node, dragging a node, set_nodes_of_interest, the selected
\* node and the commands of the shell, information windows, and the capture
\* options of the packet window.
Inspect ==
    /\ Event
    /\ Call(Frame("reader", None, "acquire"))
    /\ UNCHANGED <<lock, go, quit, main_quit, pause_messages, simVars, models,
                   timerVars, active, sample_period, viewVars, posted>>

\* Callbacks that look at the simulation without the lock: the popup menu of
\* a node (OLSR), the tooltip of a wifi link, the window of the last packets,
\* the choice to show all transmissions, which asks for the number of nodes,
\* and autoscale_view, whose one timeout may come at any moment.
Glance ==
    /\ Event
    /\ Call(Frame("reader", None, "glance"))
    /\ UNCHANGED <<lock, go, quit, main_quit, pause_messages, simVars, models,
                   timerVars, active, sample_period, viewVars, posted>>

\* Mutant: the simulation thread is not woken up.
Quit_NoGo ==
    /\ Event
    /\ timers' = timers \ {_update_timeout_id}
    /\ _update_timeout_id' = None
    /\ quit' = TRUE
    /\ Call(Frame("quit", None, "join"))
    /\ UNCHANGED <<lock, go, main_quit, pause_messages, simVars, models, next_id,
                   active, sample_period, viewVars, posted>>

\* _quit, up to simulation.join ().
Quit ==
    /\ Event
    /\ timers' = timers \ {_update_timeout_id}
    /\ _update_timeout_id' = None
    /\ quit' = TRUE
    /\ go' = TRUE
    /\ Call(Frame("quit", None, "join"))
    /\ UNCHANGED <<lock, main_quit, pause_messages, simVars, models, next_id,
                   active, sample_period, viewVars, posted>>

QuitJoined ==
    /\ stack # <<>> /\ Top.at = "join"
    /\ sim = "ended"
    /\ main_quit' = TRUE
    /\ Return
    /\ UNCHANGED <<lock, go, quit, pause_messages, simVars, models, timerVars,
                   active, sample_period, viewVars, posted>>

\* The callback returns; set_nodes_of_interest and the window of the last
\* packets go on to take the lock.
Glanced ==
    /\ stack # <<>> /\ Top.at = "glance"
    /\ Return \/ Move("acquire")
    /\ UNCHANGED <<lock, go, quit, main_quit, pause_messages, simVars, models,
                   timerVars, active, sample_period, viewVars, posted>>

-----------------------------------------------------------------------------
(* update_model.                                                           *)

UpdateModel ==
    /\ MainLoop /\ models > 0
    /\ models' = models - 1
    /\ Call(Frame("reader", None, "acquire"))
    /\ UNCHANGED <<lock, go, quit, main_quit, pause_messages, simVars,
                   timerVars, active, sample_period, viewVars, posted>>

\* Blocking acquisition of the lock.
Acquire ==
    /\ stack # <<>> /\ Top.at = "acquire"
    /\ lock = "free"
    /\ lock' = "gui"
    /\ Move("look")
    /\ UNCHANGED <<go, quit, main_quit, pause_messages, simVars, models,
                   timerVars, active, sample_period, viewVars, posted>>

Release ==
    /\ stack # <<>> /\ Top.at = "look" /\ Top.name = "reader"
    /\ lock' = "free"
    /\ Return
    /\ UNCHANGED <<go, quit, main_quit, pause_messages, simVars, models,
                   timerVars, active, sample_period, viewVars, posted>>

-----------------------------------------------------------------------------
(* update_view_timeout.                                                    *)

TimeoutFires(id) ==
    /\ MainLoop /\ NoModelFirst
    /\ Len(stack) < MaxDepth
    /\ id \in timers \ Dispatching
    /\ Call(Frame("timeout", id, "try"))
    /\ UNCHANGED <<lock, go, quit, main_quit, pause_messages, simVars, models,
                   timerVars, active, sample_period, viewVars, posted>>

\* lock.acquire (False)
TryAcquire ==
    /\ stack # <<>> /\ Top.at = "try"
    /\ IF lock = "free"
       THEN lock' = "gui" /\ Move("look")
       ELSE UNCHANGED lock /\ Move("spin")
    /\ UNCHANGED <<go, quit, main_quit, pause_messages, simVars, models,
                   timerVars, active, sample_period, viewVars, posted>>

\* No more events were pending.
SpinAgain ==
    /\ stack # <<>> /\ Top.at = "spin"
    /\ NoModelFirst
    /\ Move("try")
    /\ UNCHANGED <<lock, go, quit, main_quit, pause_messages, simVars, models,
                   timerVars, active, sample_period, viewVars, posted>>

\* Mutant: the target is advanced from the last target.
Target_Advance == target_time + sample_period

\* Mutant: the target is the period itself.
Target_Relative == sample_period

Target == now + sample_period

Capped(t) == IF t > MaxNow THEN MaxNow ELSE t

\* Mutant: the lock is kept for the dialog.
UpdateView_KeepLock ==
    /\ stack # <<>> /\ Top.at = "look" /\ Top.name = "timeout"
    /\ pause_messages' = 0
    /\ displayed' = displayed + pause_messages
    /\ shown' = now
    /\ target_time' = Capped(Target)
    /\ lock' = IF pause_messages > 0 THEN lock ELSE "free"
    /\ Move(IF pause_messages > 0 THEN "dialog" ELSE "finish")
    /\ UNCHANGED <<go, quit, main_quit, simVars, models, timerVars, active,
                   sample_period, posted>>

\* The messages are taken, the view drawn, the next target set and the lock
\* released.
UpdateView ==
    /\ stack # <<>> /\ Top.at = "look" /\ Top.name = "timeout"
    /\ pause_messages' = 0
    /\ displayed' = displayed + pause_messages
    /\ shown' = now
    /\ target_time' = Capped(Target)
    /\ lock' = "free"
    /\ Move(IF pause_messages > 0 THEN "dialog" ELSE "finish")
    /\ UNCHANGED <<go, quit, main_quit, simVars, models, timerVars, active,
                   sample_period, posted>>

\* The dialog is shown; play_button.set_active (False) calls
\* _on_play_button_toggled when the button was active.
ShowDialog ==
    /\ stack # <<>> /\ Top.at = "dialog"
    /\ active' = FALSE
    /\ timers' = IF active THEN timers \ {_update_timeout_id} ELSE timers
    /\ Move("finish")
    /\ UNCHANGED <<lock, go, quit, main_quit, pause_messages, simVars, models,
                   next_id, _update_timeout_id, sample_period, viewVars, posted>>

\* Mutant: a paused timeout stays, as one that is not paused.
FinishTimeout_Stay ==
    /\ stack # <<>> /\ Top.at = "finish"
    /\ IF active
       THEN go' = TRUE /\ UNCHANGED <<timers, _update_timeout_id>>
       ELSE _update_timeout_id' = None /\ UNCHANGED <<timers, go>>
    /\ Return
    /\ UNCHANGED <<lock, quit, main_quit, pause_messages, simVars, models,
                   next_id, active, sample_period, viewVars, posted>>

\* Paused: the source goes by itself.  Otherwise the simulation may go on.
FinishTimeout ==
    /\ stack # <<>> /\ Top.at = "finish"
    /\ IF active
       THEN go' = TRUE /\ UNCHANGED <<timers, _update_timeout_id>>
       ELSE /\ _update_timeout_id' = None
            /\ timers' = timers \ {Top.source}
            /\ UNCHANGED go
    /\ Return
    /\ UNCHANGED <<lock, quit, main_quit, pause_messages, simVars, models,
                   next_id, active, sample_period, viewVars, posted>>

-----------------------------------------------------------------------------
User ==
    \/ Play \/ Pause \/ Inspect \/ Glance \/ Quit
    \/ \E period \in Periods : SpeedChanged(period)

\* What the main loop and the running callback do by themselves.
GuiStep ==
    \/ QuitJoined \/ Glanced \/ UpdateModel \/ Acquire
    \/ Release \/ TryAcquire \/ SpinAgain \/ UpdateView \/ ShowDialog
    \/ FinishTimeout

Timeout == \E id \in timers : TimeoutFires(id)

Ended == main_quit /\ stack = <<>>

PyVizNext == SimStep \/ User \/ GuiStep \/ Timeout \/ (Ended /\ UNCHANGED pyvizVars)

PyVizSpec == PyVizInit /\ [][PyVizNext]_pyvizVars

\* Both threads run, a timer that exists fires again and again, a thread that
\* waits for the lock gets it in one of the pauses between two timeouts, and
\* the user does not keep the inner main loop busy for ever.  A script calls
\* Simulator::Stop finitely often at one instant.
PyVizFairSpec ==
    /\ PyVizSpec
    /\ WF_pyvizVars(SimStep)
    /\ SF_pyvizVars(SimAcquire)
    /\ SF_pyvizVars(SimAdvances)
    /\ WF_pyvizVars(GuiStep)
    /\ SF_pyvizVars(SpinAgain)
    /\ \A id \in 1 .. MaxTimers : SF_pyvizVars(id \in timers /\ TimeoutFires(id))

-----------------------------------------------------------------------------
(* Properties.                                                             *)

\* The lock keeps what it promises ("NS 3 is not thread safe, so it could
\* cause serious problems", _monkey_patch_ipython): update_model with its
\* periodic-update signal ("the simulation lock is acquired while the signal
\* is emitted"), the view update and the callbacks of Inspect never look at
\* the simulation while it runs, however callbacks are nested and though
\* timeouts only try the lock.  It is no promise for those of Glance, which
\* do not take the lock and do see it running.
LockedLooksExclusive ==
    sim = "run" => \A i \in DOMAIN stack : stack[i].at # "look"

\* The lock is not recursive: the GUI thread never waits for it, nor for the
\* simulation thread to end, while one of its own callbacks holds it.
NoSelfDeadlock ==
    stack # <<>> /\ Top.at \in {"acquire", "try", "spin", "join"} => lock # "gui"

\* However often the view is updated, and however timers, pauses and speed
\* changes interleave with the simulation thread, the simulation is never more
\* than the largest sample period ahead of what is shown.
OnePeriodAhead ==
    \E period \in Periods : now <= shown + period

\* No pause message is lost or displayed twice, also when two steps run
\* between two view updates.
PauseMessagesKept == posted = displayed + pause_messages

\* "If we're paused, stop the update timer": once the user leaves the
\* simulation paused, every timer ends, also one that was started by the
\* speed control and one whose id was lost.
PausedTimersEnd ==
    []<>(timers = {} \/ active \/ quit)

\* A request to quit ends both threads, wherever the simulation thread is
\* between its two tests of quit and the event, and wherever in a nested main
\* loop the request is handled: simulation.join () returns.
QuitEnds == quit ~> (Ended /\ sim = "ended")

\* While the simulation plays it goes on, up to the bound on time.
PlayGoesOn == <>[](active /\ ~quit) => <>(now = MaxNow)
=============================================================================
