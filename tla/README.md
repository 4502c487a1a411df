# The ns-3 event core: a verification project

ns-3 (this repository holds release 3.31) is a discrete-event network simulator.
Everything it simulates is executed by an *event engine*: model code schedules
closures at future time stamps, the engine runs them in order.  The network
models (Wi-Fi, TCP, routing, ...) are clients of that engine.  This project
specifies the engines (sequential, real-time and the two distributed ones), the
data structures that hold their events, the timers built on them, and the two
concurrent programs that drive them, the test runner and the visualizer, in TLA+.
TLC checks small instances and TLAPS proves the central results.

Paths below are relative to the repository root (`src/core/model/...`).

## 1. Inventory

| Component | State it keeps | Operations | Hard behaviour | What makes it correct |
|---|---|---|---|---|
| `DefaultSimulatorImpl` (`src/core/model/default-simulator-impl.cc`) | scheduler, `m_destroyEvents`, `m_uid`, key of the current event, `m_unscheduledEvents`, `m_stop`, hand-over list with flag and mutex | `Schedule`, `ScheduleNow`, `ScheduleWithContext`, `ScheduleDestroy`, `Cancel`, `Remove`, `IsExpired`, `Stop`, `Run`, `Destroy`, `DoDispose` | other threads hand events over; the flag is read without the mutex; `IsExpired` decides from keys alone; handlers call every operation | order, FIFO among equal stamps, exact expiry, no event lost, run twice or leaked |
| `Scheduler` implementations: list, heap, calendar, map, priority queue | one container each | `Insert`, `PeekNext`, `RemoveNext`, `Remove` | index arithmetic, resizing, search position carried over between calls | all behave as the same ordered agenda |
| `DistributedSimulatorImpl` with `GrantedTimeWindowMpiInterface` (`src/mpi/model`) | per rank: events, `m_grantedTime`, Rx/Tx counts, requests in flight | `Run`, `CalculateLookAhead`, `SendPacket`, `ReceiveMessages` | messages found late and in any order, collective operations, stopping | no rank receives an event in its past; all ranks leave `Run` |
| `NullMessageSimulatorImpl` with `NullMessageMpiInterface` and `RemoteChannelBundle` (`src/mpi/model`) | per rank: events, safe time; per bundle: guarantee, null-message event; devices with their queues | `Run`, null messages, packets, polling and blocking receives, `Stop` | every rank waits for its neighbours; guarantees are computed inside handlers; messages late | guarantees kept and renewed in time, no message from the past, all ranks leave `Run` |
| `RealtimeSimulatorImpl` with `WallClockSynchronizer` and `SystemCondition` (`src/core/model`) | as the sequential engine, under `m_mutex`; a condition; origin of real time | the same plus `ScheduleRealtime*` | a wall-clock wait outside the mutex that insertions from other threads interrupt; removals that do not | no lost wake-up, nothing early, nothing in the past, everything executed |
| `Timer`, `Watchdog` (`src/core/model`) | flags, `EventId`, remaining time; `m_end` | `Schedule`, `Cancel`, `Suspend`, `Resume`, destructor; `Ping` | reuse after expiry, destruction policies, pings from the callback | one event at most, none while suspended or after destruction; called at the deadline |
| `test.py` (repository root) | two queues, worker threads, counters, results file | selection of tests, dispatch, collection, report, `SIGINT` | threads, children that crash or cannot be started, interrupts | no job lost, truthful exit status, the run ends |
| `PyViz` (`src/visualizer`) | lock, `go`, timers, stack of GLib callbacks, target time | view timer, model update, play, pause, speed, quit | callbacks nested in a wait for the lock; a second thread | callbacks that take the lock see the simulation only when it stands still; no self-deadlock; quitting ends |
| Objects, attributes, traces, random variables, packets, devices, internet stack, wireless models, routing | not surveyed in detail | | sequential code run inside handlers | outside the event core |

Interaction: `Simulator` (static facade) forwards to one engine.  The engine owns
one `Scheduler` and gives each event a key `(ts, uid, context)`; the scheduler
orders keys by `ts`, then `uid`.  Handlers call back into the engine.  Other
threads (emulation devices) may only call `ScheduleWithContext`, which puts the
event on a list that the main thread empties after every event.  In a
distributed run every rank has its own engine; a packet to a node of another
rank becomes an MPI message carrying its reception time, which the receiver
turns into a local event.

The hazards found in this code, each at its line, with the properties aimed at
them, are listed in `PROJECT.json`.

## 2. Modules

| Module | Models |
|---|---|
| `EventList` | abstract: the promise of `scheduler.h` and of the class comment of `Simulator` - an agenda whose earliest item, first in first out, is executed next |
| `StdList` | `std::list::erase` and `insert` (external) |
| `DefaultSimulator` | the sequential engine with other threads |
| `ListScheduler`, `HeapScheduler`, `CalendarScheduler` | the scheduler data structures |
| `EventQueue` | composition: the event list of the engine, any of the three schedulers, and `SetScheduler`, which moves the events from one to another |
| `GrantedTimeWindow` | the distributed engine with collective windows, on all ranks with MPI between them; `MCGrantedTimeWindow` gives topologies |
| `NullMessage` | the distributed engine with null messages and the point-to-point devices that send its packets; `MCNullMessage` gives topologies |
| `RealtimeSimulator` | the real-time engine and its synchronizer, the wall clock and other threads |
| `TimerContract` | abstract: what `timer.h` says of a timer's state and of the time left |
| `Timer`, `Watchdog` | the two clients of the engine; `Timers` composes them on one simulator |
| `TestRunner` | `test.py`; `MCTestRunner` gives suites and command lines |
| `Visualizer` | the two threads of PyViz |
| `DataFacts` | lemmas about sequences, sets and numbers that several proofs cite |
| `DefaultSimulatorProofs`, `EventQueueProofs` (the three schedulers and `SetScheduler`), `RealtimeSimulatorProofs`, `TimersProofs`, `GrantedTimeWindowProofs`, `NullMessageProofs`, `PythonToolsProofs` (`TestRunner` and `Visualizer`) | theorems and their lemmas |

### DefaultSimulator

Variables carry the names of the members.  `m_events` is the set of pending
events: the schedulers have their own modules, each shown to behave like such a
set with its minimum, also when `SetScheduler` changes them (`EventQueue`).  An event record is its key
plus `impl`, the identity of the `EventImpl`; impls are numbered in creation
order, so that "inserted first" can be stated even when uids wrap.  `cancelled`
is the set of impls whose `m_cancel` is set.  `ids` holds every `EventId` that was
returned to user code; user code may use any of them at any time, also after the
event has run.  `notified` and `withdrawn` are history variables.

A handler is arbitrary user code: while `pc = "handler"`, any sequence of user
operations may happen until `HandlerReturns`.  The same operations are allowed
before `Run`, between two calls of it and in the handlers of destroy events.
`Simulator::Stop (delay)` is `Schedule` of a handler that takes the step `Stop`.

Threads: `ScheduleWithContext` from another thread takes two steps,
`HandOverPush` (lock, push) and `HandOverUnlock` (flag, unlock), because the main
thread reads the flag between them.  `ProcessEventsWithContext` is `CheckEmpty`
(the read without the mutex) and `SwapAndInsert` (under the mutex, followed by
insertions that only the main thread can see).  A thread stays out of the engine
once `DoDispose` has begun: the threads that emulation devices start through
`FdReader` are joined in a destroy event (`src/core/model/unix-fd-reader.cc:96-144`),
so no thread holds the mutex when `Dispose` happens.

### Schedulers

`ListScheduler`, `HeapScheduler` and `CalendarScheduler` each combine the data
structure with its user: an event is inserted at or after the time stamp of the
event taken out last and gets a fresh uid.  `Remove` gets a pending event, as
`DefaultSimulatorImpl::Remove` ensures.  The heap keeps the 1-based indices of
the code.  The calendar contains the turn through the year, the direct search,
doubling, halving, the sampling of the day length (which takes events out and
puts them back) and both values of the attribute `Reverse`.  `MapScheduler` and
`PriorityQueueScheduler` delegate to ordered containers of the standard library;
what they do is what `DefaultSimulator` assumes.  `EventQueue` has one scheduler
at a time; `SetScheduler` drains it with `RemoveNext` until it is empty and
inserts what came out into the new one, which for the calendar means that its
search starts afresh at the first day in the middle of simulated time.

The loops of the code (climbing and sinking in the heap, sampling and refilling the
calendar, draining one scheduler and filling the next) are recursive functions from the
number of iterations to the state after them.  Where the code leaves the loop early the
state stays what it is, and the number of iterations is bounded by what the loop cannot
exceed: the index of the heap gets smaller, or greater, with each.

### GrantedTimeWindow

One program counter per rank: `outside`, `loop`, `handler`, `receive`, `gather`,
`done`.  `Run` is one step of all ranks, since `CalculateLookAhead` ends in a
collective operation.  `network` is a set: `MPI_Testany` finds messages in any
order and may find none although some are in transit (`EnterAllgather` needs no
empty network).  `Allgather` happens when all ranks have contributed; what a rank
does with the result is local to it.  `Total` is the sum of a count over the ranks,
written as the cardinality of a set of numbered packets (`Packets`).  `Infinity`
stands for `Simulator::GetMaximumSimulationTime`, the contribution of a rank without
events; the guards that bound the model keep time stamps below it.  `Cancel`, `Remove`, `IsExpired`,
`ScheduleDestroy` and `Destroy` follow those of the sequential engine and are not
repeated.  `Run` is called once; a second call after `done` is left for later.

### NullMessage

A rank is `outside`, at `initialize` (between `CalculateLookAhead` and the loop: the
null message events are scheduled, `Run` proper begins), in the `loop`, in a `handler`, in the `poll` that
follows every event, or `done`.  `transit[s][r]` is a sequence: MPI keeps the
order of messages between two ranks and delays them arbitrarily; `PollEnds` needs
no empty sequence.  A null message is a message with receive time 0.  The null
message event of a bundle is one of the rank's events; a packet cancels it (it
stays in the list and does nothing) and schedules another.  The guarantee of a
packet depends on the event list in the middle of a handler, and what is in it
depends on the device, so `PointToPointNetDevice::Send`, `TransmitStart` and
`TransmitComplete` with the queue are part of the model, the attribute
`InterframeGap` included, one value for all devices: with a gap a packet may be due
before the guarantee it carries itself, and never before an earlier one.  Packets a
device drops (link down, queue full) change nothing and are stuttering steps.
`StopAt` is the argument of the `Stop (delay)` called before `Run`.

### RealtimeSimulator

Every critical section of `m_mutex` is one action, and what is done outside of it
a step of its own: `Run` (`RunStarts`, `SetOrigin`), looking for an event (`Look`),
the choice of how long to wait (`Pace`), the wait (`Synchronize`, `Wake`,
`SpinWait`) and taking the head of the list (`Take`).  The same three wait actions
serve an idle `Run`, with other labels.  `Tick` moves the wall clock.  A thread
schedules with either family of functions and removes events the main thread has
scheduled: `RemoveTest` is the look at `IsExpired`, `RemoveLocked` the critical
section.  Threads are those of devices, which start them in an event, so they are
there from `SetOrigin` on and also after `Run`.  `removers` and `late` record who
has removed events and how many removals came after the event was executed.  `runs`
counts the calls of `Run`: `SetOrigin` starts real time at zero again and ignores
simulated time, so that `InTime` is about the first of them.

### Timer, Watchdog, Timers

The simulator is reduced to pending events, a clock that does not pass an event
that is due, and a uid.  `Timer` covers the three destruction policies and every
call at any time.  The documentation does not foresee all of them (scheduling or
suspending a suspended timer, suspending one under `CHECK_ON_DESTROY`); the
history variable `foreseen` is true as long as only calls were made that it does,
and the properties of the timer are about those histories.  `Watchdog` has no such
restriction.  `Timers` puts both on one clock.

### TestRunner

`run_tests` is a sequence of program points (`config`, `build`, `status`, `select`,
`queue`, `dispatch`, `collect`, `join`), the workers are threads that take jobs.
A test is a name with its kind; the child's end (`Outcomes`) is any return code
the program distinguishes with the state of its XML file: missing, truncated, or
complete with what the suite found.  The suites and the performance tests to leave
out are listed by two calls of the test-runner; each may crash and have printed any
part of its list.  `Popen` may raise, output may be undecodable, a file may be
missing, and `SIGINT` may come at any time.  An entry of `results.xml` has the result
it states (`Result`), so that `ResultsComplete` compares it with how the test's own
child ended (`ended`).  Two kinds of suites are taken out of it (`Doubtful`), see the
disagreements below: those in which valgrind finds an error, and those whose output
cannot be decoded.  The wording of commands and reports is left out.
The constants' assumption says that names come in finite sets and that flags are
Booleans.

### Visualizer

The GUI thread is a stack of callbacks, because `update_view_timeout` runs the
main loop while it waits for the lock.  Which source may be dispatched follows
GLib's rules (priorities, no source inside itself), marked external; an
`update_model` that is queued when GLib has already chosen what to dispatch waits for
that one callback (`NoModelFirst`).  Callbacks that take the lock are `Inspect` and
`UpdateModel`; those that look at the simulation without it are `Glance`: the popup
menu of a node, the tooltip of a wifi link, the window of the last packets, the choice
to show all transmissions and `autoscale_view`.  A step of the simulation ends at its
target or at one of `StopTimes`, when the script calls `Simulator::Stop`.  The
simulation thread has one label per statement of `SimulationThread.run` that
touches shared state.  `shown`, `posted` and `displayed` are history.

## 3. Runs

| Run | Shows |
|---|---|
| `default_simulator` | two threads, three events: `ExpiredExact`, `EventsAccounted`, `UnscheduledExact`, `HandOverAnnounced`, `NothingLeaked`, refinement of `EventList`; `HandOverInserted` and `RunTerminates` under fairness |
| `event_queue` | the three schedulers, five events and a change of scheduler at any moment: `ContentsKept`, `SchedulerInv` (list sorted, heap ordered, calendar's buckets and search position right), and the refinement `QueueImplementsEventList` |
| `heap_remove` | **violation**: after `Remove` the root need not be the earliest event |
| `granted_window` | three ranks in a chain with delays 1 and 2, three packets: `Causality`, `SafeWindow` |
| `granted_live` | two ranks: `AllRanksFinish`, also with early `Stop` |
| `granted_finish` | **violation**: all ranks leave `Run` while a packet is in transit |
| `null_message` | two ranks with a channel and one without: `GuaranteeKept`, `NoMessageFromThePast`, `LookAheadRenewed`, `EveryRankStops` |
| `null_two_channels` | **violation**: two channels between the same ranks break a guarantee |
| `realtime` | one thread beside the main one, both modes: `InTime`, `UnscheduledExact`, `NoLostWakeup`, `IdleSleeps`, `PendingExecuted` |
| `timers` | `OnlyItsEvent` and refinement of `TimerContract` (`KeepsContract`); `ArmedByOneEvent`, `CalledWhenPromised`, `Triggers` |
| `test_runner` | two workers, twelve command lines, partial listings: `EveryJobReported`, `ExitStatusTruthful`, `ResultsComplete`, `RunEnds` |
| `visualizer` | `LockedLooksExclusive`, `NoSelfDeadlock`, `OnePeriodAhead`, `PauseMessagesKept`, `PausedTimersEnd`, `QuitEnds`, `PlayGoesOn` |

### The three runs that find a violation

* `HeapScheduler::Remove` (`heap-scheduler.cc:239`) replaces the removed event by
  the last one and calls `TopDown` only.  If the last event comes from another
  subtree it may be less than the parent of the hole; then it would have to
  climb.  The shortest history in the model has seven insertions, one
  `Remove` and two `RemoveNext`.  Clients that only `Cancel` are not affected:
  `event_queue` excludes histories with `Remove` on a heap from the order
  properties, and from nothing else.
* `DistributedSimulatorImpl::Run` (`distributed-simulator-impl.cc:395`) derives
  `m_globalFinished` from the ranks' flags alone.  A packet sent by the last event
  of one rank may be in transit, counted in `totTx` and not in `totRx`, and is
  then never delivered.  The count is consulted only for the granted time.
* `NullMessageSimulatorImpl::CalculateGuaranteeTime`
  (`null-message-simulator-impl.cc:586`) uses the first event of the list while a
  handler is running.  With one channel between two ranks the end of the
  transmission is always in the list and bounds it; with two, a handler that sends
  on both, the longer transmission first, undercuts the guarantee it has just given.

### Further disagreements met while modelling

These follow from the same models with other constants, or from one more action;
the properties of the runs say where they end.

* `m_uid` (`default-simulator-impl.cc:243`) wraps after 2^32 events, after which
  the FIFO promise of `simulator.h` does not hold for events of equal time.  The
  runs and the theorems assume `NoWrap`.
* `null-message-simulator-impl.cc:266`: a `SchedulerTune` that rounds the interval
  to zero time steps makes a null message event reschedule itself at the current
  time for ever.  `:593`: on a rank nobody told to stop, the handler of the last
  event calls `Next ()` on an empty list, against the assertion at `:255`.
* `realtime-simulator-impl.cc:332`: when another thread removes the event that is
  waited for, the next one is executed early (hence the premise of
  `InTime`).  `:730`: `Remove` tests for expiry before it takes the mutex,
  and a removal that loses the race is counted twice (`late` in `UnscheduledExact`).
  `:461`: a removal that empties the list leaves the condition set and the idle loop
  spins (the premise of `IdleSleeps`).  `:434`: a thread that schedules between
  `m_running = true` and `SetOrigin` gets a time stamp counted from the epoch.
  `:618`: `ScheduleRealtimeWithContext` leaves the context uninitialised.
  `wall-clock-synchronizer.cc:122`: the origin ignores simulated time, so in a
  second `Run` another thread's events lie in the past.
* `unix-system-condition.cc:187`: nanoseconds that add up to exactly one second are
  not carried; the timed wait is refused and ends only by a signal (`Never` in the
  model, the last escape of `PendingExecuted`).
* `timer.cc:182`: `Suspend` leaves the event in place under `CHECK_ON_DESTROY`, the
  default, and it fires.  `timer.cc:198`: `Resume` forgets an event scheduled while
  the timer was suspended.  `foreseen` excludes both.
* `test.py:808`: a worker whose `Popen` raises dies without a report and the main
  thread waits for ever (the escape of `RunEnds`).  `:1350`: a crash of the listing
  is taken for an empty list, and the exit status is 0 (`SuitesListed`).  `:1844`:
  a suite that fails valgrind is a plain PASS or FAIL in `results.xml`: the second,
  VALGR entry that the comment at `:1829-1833` describes is never written.  A crash
  with undecodable output becomes status 1, and its file is copied although the comment
  at `:1804-1807` calls the file of a crash corrupt and useless.  `Doubtful` takes both
  out of `ResultsComplete`, which claims nothing about such suites.
  `:1558`: `--suite` with `--example` runs both, against the comment at `:1317`.
  `:1346`: `--constrain=pyexample` queues the lines of an error message as suites.
  `:1281`: two instances started in one second share a directory.
* `src/visualizer/visualizer/core.py:1489` says that "NS 3 is not thread safe" and has
  the shell take the lock, but several callbacks read the simulation without it:
  `autoscale_view` (`core.py:1510`), the number of nodes in `core.py:781`, the popup
  menu (`core.py:1640`, `plugins/olsr.py:121`), the tooltip of a link (`core.py:1716`,
  `plugins/wifi_intrastructure_link.py:100`) and `plugins/show_last_packets.py:112`.
  They are in the model (`Glance`) and do see the simulation running;
  `LockedLooksExclusive` is only about callbacks that do take the lock.
  `src/visualizer/model/pyviz.cc:293`: a period may clear the samples of the one
  before it, as `update_model` is only queued.

### Bounds

`MaxEvents`, `MaxDelay`, `MaxTxTime`, `MaxMessages`, `MaxPackets` and `MaxPings`
bound the creation of events only; every event created is followed to its end.

* `default_simulator`: three events are enough to have one running, one pending at
  the same time stamp and one handed over; two threads, to contend for the mutex.
  Delays 0 to 2 produce equal and different time stamps.  With `UidModulus` 7
  `m_uid` reaches its last value.
* `event_queue`: five events make the calendar grow from two to four days and shrink
  to one, and fill three levels of the heap (`heap_remove` has seven); a delay of 5
  leaves a whole year empty.  One change of scheduler reaches every pair of them
  with any contents.
* `granted_window`: three ranks are the least number in which one rank has no link
  to another and learns of its events only through the collective operation.
* `null_message`: a delay of 5 and a stop at 6 leave each rank two null message
  events after the first and two packets, of which one waits in the queue, with a
  gap of 1 between them; the third rank has no neighbour and gets its safe time at once.
* `realtime`: three events, one thread.  The clock starts two ticks before a full
  second, so that deadlines on either side of it and exactly at it occur.  `MaxTime`
  is how long the clock is watched after `SetOrigin`; no event is scheduled later.
* `timers`: time up to 4, delays up to 2, three events of the timer and three pings.
* `test_runner`: two workers and up to four tests, enough for a break job to be
  taken while another worker is busy; every subset of either listing.
* `visualizer`: periods 1 and 2, simulated time 3, one `Simulator::Stop` at 1, three timers, two timeouts inside
  each other, one pause message.  With the safety properties alone TLC was also run
  for four timers, three nested timeouts and two messages.

The runs say `CHECK_DEADLOCK FALSE`: a disposed engine, an exhausted scheduler,
ranks that are done, a simulated process that died of an assertion or of
`NS_FATAL_ERROR` and a closed window may stop.  That nothing stops too early is what
the liveness properties check.

### Fairness

* `DefaultSimulator`: weak fairness of the main thread's own steps (it is a loop
  of a running thread, and handlers return) and of `HandOverUnlock` (a critical
  section of three statements).  No fairness of user operations and of
  `HandOverPush`: nobody has to call anything.  A mutex need not be fair; hand-overs
  are bounded, so weak fairness of `SwapAndInsert` is enough.
* `GrantedTimeWindow`: weak fairness of each rank and of the collective operation,
  strong fairness of receiving: a rank polls again and again, and MPI guarantees
  that a message that was sent is found in the end.
* `NullMessage`: weak fairness of each rank's engine, which includes receiving:
  a rank that blocks in `MPI_Waitany` gets a message that was sent to it.
* `RealtimeSimulator`: the wall clock moves and the main thread goes on.  Threads
  need not do anything.
* `Timers`: events that are due are executed and time passes; nobody has to call.
* `TestRunner`: every thread keeps running and every child ends.
* `Visualizer`: both threads run; a timer that exists fires again and again; strong
  fairness of taking the lock in the simulation thread (the view holds it only for
  short spells between two timeouts), of a step that advances time (the script calls
  `Simulator::Stop` finitely often at one instant) and of leaving the inner main loop (a user does
  not produce events faster than they are handled for ever).

## 4. Proofs

All theorems hold for every value of the constants that the named assumptions
(`ConstantsAssumption`, `ListAssumption`, `QueueAssumption`, `TimerAssumption`, `TimersAssumption`,
`RealtimeAssumption`, `GrantedAssumption`, `NullMessageAssumption`,
`TestRunnerAssumption`, `VisualizerAssumption`) allow: any number of threads, ranks,
workers, events, messages and tests, any delays and topologies.  TLC evaluates the
assumptions in the runs.

| Module | Theorem | Statement |
|---|---|---|
| `DefaultSimulatorProofs` | `TypeCorrect` | `Spec => []TypeOK` |
| | `HandOverSafe` | `Spec => []HandOverAnnounced` |
| | `DisposeComplete` | `Spec => []NothingLeaked` |
| | `ExpiredIsExact` | `NoWrap`: `Spec => []ExpiredExact` |
| | `EveryEventAccounted` | `NoWrap`: `Spec => []EventsAccounted` |
| | `EngineImplementsEventList` | `NoWrap`: `Spec => ImplementsEventList` |
| | `UnscheduledCountExact` | `NoWrap`: `Spec => []UnscheduledExact` |
| `EventQueueProofs` | `QueueInvariant` | `QueueSpec => []QueueInv` |
| | `QueueKeepsContents` | `QueueSpec => []ContentsKept` |
| | `SchedulersStayRight` | `QueueSpec => []SchedulerInv` |
| | `QueueIsEventList` | `QueueSpec => QueueImplementsEventList` |
| | `ListStaysSorted`, `ListImplementsEventList` | `ListScheduler` alone: `Spec => []SortedList`, `Spec => ImplementsEventList` |
| `TimersProofs` | `TimersImplement` | timer and watchdog on one clock are each a timer and a watchdog: `TimersSpec => Spec /\ Dog!Spec` |
| | `TimersOnlyItsEvent`, `TimersKeepContract` | the timer: `[]OnlyItsEvent`, and the refinement `KeepsContract` |
| | `TimersArmedByOneEvent`, `TimersCalledWhenPromised` | the watchdog: `[]ArmedByOneEvent`, and the action property `CalledWhenPromised` |
| `RealtimeSimulatorProofs` | `TypeCorrect` | `Spec => []Inv`: types and keys |
| | `CounterExact` | `Spec => []UnscheduledExact` |
| | `WakeupKept` | `Spec => []NoLostWakeup` |
| | `NoStaleSignal` | `Spec => []IdleSleeps` |
| | `ExecutedInTime` | `Spec => []InTime` |
| `GrantedTimeWindowProofs` | `NoEventFromThePast` | `Spec => []Causality` |
| | `WindowIsSafe` | `Spec => []SafeWindow` |
| | `TransitCounted` | `Spec => []CountInv`: sent = received + in transit |
| `NullMessageProofs` | `GuaranteesAreKept` | `OneChannelPerBundle`: `Spec => []GuaranteeKept` |
| | `NothingFromThePast` | `OneChannelPerBundle`: `Spec => []NoMessageFromThePast` |
| | `LookAheadIsRenewed` | `OneChannelPerBundle`: `Spec => []LookAheadRenewed` |
| `PythonToolsProofs` | `EveryJobIsReported` | `Spec => []EveryJobReported` |
| | `ExitStatusIsTruthful` | `Spec => []ExitStatusTruthful` |
| | `ResultsAreComplete` | `Spec => []ResultsComplete` |
| | `LookedAtUnderLock` | `PyVizSpec => []LockedLooksExclusive` |
| | `NoCallbackDeadlock` | `PyVizSpec => []NoSelfDeadlock` |
| | `AtMostOnePeriodAhead` | `PyVizSpec => []OnePeriodAhead` |
| | `MessagesKept` | `PyVizSpec => []PauseMessagesKept` |

`NoWrap` says that no more events are created than there are uids; without it a
new event may get a smaller uid than a pending one with the same time stamp.

*Hand-over.*  `HandOverAnnounced` alone is not inductive.  `HandOverInv` adds that
the list is not empty while a thread is in the critical section (so that the flag
it is about to clear is right), and that nobody is inside during disposal.

*Order and expiry.*  `IsExpired` compares the key in the id with the key of the
current event.  This is right because of three facts, which are the inductive
invariant `EngineInv`: `NumberInv` (an event's uid is its number, numbers identify
events, the counter is ahead of all of them), `OrderInv` (every pending event is
strictly after the current key, and an id whose event is no longer pending is
marked or not after the current key) and `AccountInv` (marked events were
withdrawn; live, run and withdrawn events partition the numbers handed out).
`OrderInv` needs `NumberInv` to see that a new event with the current time stamp
comes after the current event; `AccountInv` needs `OrderInv` because `Cancel` and
`Remove` ask `IsExpired` first.

*Refinement.*  Each step maps to `Insert`, `Drop`, `Fire` or a stutter of
`EventList`; `Fire` uses that numbers and uids agree.

*Count.*  `CountInv` adds that the set is finite; a list of n hand-overs becomes n
events by the bijection with their numbers.

*Event list and schedulers.*  `QueueInv` is the inductive invariant of `EventQueue`:
`PendingOK` (pending events have uids of their own, none ahead of the counter, and lie
at or after the current time), and one conjunct for each scheduler, which says that it
holds exactly the pending events if it is the one in use, nothing otherwise, and is in
order: `ListOK`, `HeapOK`, `CalOK`.  Only the order of the heap, and that nothing lies in
the past, are given up once `Remove` was called on a heap (`heap_remove` shows why); that
no event is lost or duplicated is not.  The argument has four parts.

* *List.*  An event goes before the first greater one.  Uids are different, so the list
  is strictly sorted and its head is the earliest event.
* *Heap.*  `Climb` and `Sink` keep an order with one exception, the entry at the index:
  `ClimbOrdered` (it may be less than its parent, but what is below it is not less than
  that parent), `SinkOrdered` (what is below it may be less than it, and is not less than
  its parent).  The index moves with each iteration, so it is at rest, and the exception
  gone, when the bound is reached.  The root is then before everything: the least event
  can have no parent.
* *Calendar.*  `Good` says that events are in the bucket they hash to, the buckets sorted,
  and `m_lastBucket`, `m_bucketTop` the day of `m_lastPrio`, before which there is nothing.
  `PeekNext` finds an event in the bucket visited after k days below that day's end.  Days
  are counted from time zero (`DayOf`); two days less than a year apart that share a bucket
  are the same, so the event found belongs to the k-th day, and an earlier event would have
  been found before.  If the whole year is empty, the least of the buckets' first events is
  the least of all.  Taking samples, putting them back, and inserting everything in a
  calendar of another size and day length keep the contents; the day length is positive
  whatever the samples are, which the divisions rely on.
* *SetScheduler.*  Draining takes out every event once (`Lists`), and filling inserts each
  into a structure that is in order and does not have it yet.

A step is then described without reference to the scheduler (`Adding`, `Firing`,
`Dropping`, `Keeping`), and these four are the steps `Insert`, `Fire`, `Drop` and a
stutter of `EventList`.

Each loop is a recursive function on `0..n`.  Its equation is not available to the prover
from the definition (a recursive function is a `CHOOSE`), and the library's induction
theorems cannot be instantiated.  `CountingUp` of `DataFacts` replaces them: its parameter
is the set of numbers a claim holds for, and the least number outside that set would come
after one inside.  With it a function that satisfies the equation up to k exists for every
k (`ClimbingLoop` and its like), so the `CHOOSE` is one; and what an iteration keeps, the
loop keeps.

*Timer.*  While only foreseen calls were made, `Inv` says that there is at most one
pending event, that it is the one `m_event` names and not before the current time,
and that there is none while the timer is suspended or once it is destroyed.  Each
conjunct needs the others: that `Cancel` leaves nothing behind is known only because
nothing but `m_event` can be pending.  Every step then maps to one of `TimerContract`
or to a stutter, with the time left read off the event or `m_delayLeft`.

*Watchdog.*  The invariant says that an armed watchdog has exactly one event, that it
is not after `m_end`, and that `m_end` is the latest time a ping has promised; a ping
that arrives while the event is pending only moves `m_end`, and `Expire` makes up the
difference.

*Timers.*  Every step of the composition is a step of the one and a stutter or a tick
of the other, so each of the two specifications is implied and the four results are
those of the components.

*Real-time engine.*  `Inv` has the types and says that uids identify events; with it
the counter is exact because the critical sections change counter and list together,
and `NoLostWakeup` is inductive: an insertion in front of the event that is waited for
sets the condition in the same critical section.  `IdleSleeps` needs `SignalInv`: as
long as nobody removes, a set condition, like a main thread that is about to take an
event, means an event in the list, and both together mean two of them.  `InTime` needs
`TimeInv`: what the main thread waits for is in the list and due by `until`; that the
event waited for stays there is why removals by other threads are excluded, and
simulated time never overtakes real time in the first `Run`.

*Granted time window.*  The collective operation grants a window from a snapshot, so
the invariant has to say what a snapshot is worth.  `CountInv`: packets sent equal
packets received plus packets in transit, so equal totals mean an empty network.
`LbtsInv`: what a rank contributed is still true while it waits in the collective
operation.  `WindowInv`: whatever may still send a packet - the event being executed, a
pending event of a rank that was not stopped, a packet in transit - is so late that the
look-ahead puts its effect at or after the end of every rank's window (`Safe`).  The
last needs symmetric links, `Delay[r][q] = Delay[q][r]`: the look-ahead of a rank is
the delay of its own links, used as that of the links that lead to it.

*Null messages.*  `RankInv`: current time <= safe time <= every neighbour's guarantee.
`LinkInv`: guarantees on their way ascend, start at or after the one the receiver has,
and every packet is due at or after the guarantee that precedes it.  `PromiseInv` is
about the sender: no handler that may still use a device that is READY runs more than
the delay before the last guarantee given, and a BUSY one is bounded by its
`TransmitComplete` in the event list; so the guarantee computed in the middle of the
handler is not below the last one.  The interval between null messages is at most the
delay (`Percentage`), which renews the look-ahead.  The premise `OneChannelPerBundle`
is needed: `null_two_channels` violates `GuaranteeKept` without it.

*Test runner.*  `AccountInv` balances the tests that were queued: in `input_queue`, held
by a worker (also one that died), in `output_queue`, collected.  `TruthInv` follows a
selected test: it waits, or has run, or the counters do not add up any more (`Lost`: a
report that is no pass was collected, or waits to be) - which is what the exit status is
derived from.  A child that ended badly makes the run `Lost`, and that is for good.
When all is collected the account leaves no place to wait in.  `ResultInv` does the same
for `results.xml` in runs without an interrupt: every report that waits can be read,
there are as many entries as reports collected, and every selected test waits, has its
own child's report in `output_queue`, or has an entry that says what became of it.

*Visualizer.*  `PyVizInv` is inductive.  `StackInv`: only a timeout that waits for the lock has callbacks above it
(so at most the topmost one is anywhere else); `LockInv`: who holds the lock is read
off the program points.  `AheadInv`: both the target and simulated time are within one of
the sample periods of what was shown; the period may change in between.

Several of these invariants speak of a least event or of the number of elements of a
set.  The induction theorems of the library are not available to the prover, but its
theorems about finite sets that take a set as a parameter are, and `DataFacts` derives
from them that finite sets of numbers have least elements.

Model-checked only: liveness, since fairness is beyond the prover (`HandOverInserted`,
`RunTerminates`, `AllRanksFinish`, `EveryRankStops`, `PendingExecuted`, `Triggers`,
`RunEnds`, `PausedTimersEnd`, `QuitEnds`, `PlayGoesOn`); and the three properties that
are violated.  Every safety property of a passing run has a theorem.

## 5. Not modelled

`PROJECT.json` lists every component with its status.

* *Generated Python bindings* (`src/*/bindings/modulegen__gcc_*.py`, `callbacks_list.py`):
  about 730 thousand of the 754 thousand lines of Python in the repository.  They are
  tables of `pybindgen` registrations of the C++ interface, once per data model, with
  neither control flow nor state, so there is nothing in them to check and no share of
  them worth mapping.  What is concurrent in the Python code, `test.py` and the
  visualizer, is modelled.
* Random variables, propagation and physical layers: floating point.
* Attribute and type registration, logging, the build scripts and `utils/`: declarations
  and sequential scripts.
* `bindings/python/topsort.py`: a third-party module of graph functions, of which one is
  called; the results directory of `test.py`, which only instances started in the same
  second share.
* Protocol models (internet, Wi-Fi, LTE, routing): clients of the event core, each a
  project of its own.
* 64-bit overflow of time stamps (`distributed-simulator-impl.cc:419` warns of it); times
  are natural numbers.

## 6. Plan

1. *(done)* `EventList`, `DefaultSimulator` and its proofs; the three schedulers;
   `ListScheduler` proofs; `GrantedTimeWindow`.
2. *(done)* `EventQueue` with `SetScheduler`; `NullMessage`; `RealtimeSimulator`;
   `Timer`, `Watchdog`, their composition and proofs; `TestRunner`; `Visualizer`.
3. *(done)* Proofs of the safety properties of `RealtimeSimulator`, `GrantedTimeWindow`,
   `NullMessage`, `Timers`, `TestRunner` and `Visualizer`.
4. *(done)* `EventQueue`: the heap, the calendar and `SetScheduler`, with recursive
   functions in place of recursive operators, and their refinement of `EventList`.
5. *(open)* An abstract conservative protocol that `GrantedTimeWindow` and `NullMessage` both
   implement; a second `Run` of the distributed and real-time engines.
6. *(open)* Queues with byte and packet limits, the ARP cache with its pending queue and
   retries, TCP's receive buffer.
