----------------------------- MODULE TestRunner -----------------------------
(***************************************************************************)
(* test.py: builds the tree, selects test suites and examples, lets a pool *)
(* of worker threads run each in a child process, and collects what they   *)
(* report into counters, an XML file and the exit status.                  *)
(*                                                                         *)
(* The main thread puts one job per test on input_queue, then one break    *)
(* job per worker, and takes exactly as many reports from output_queue as  *)
(* it queued tests.  SIGINT only sets a flag that the workers look at.     *)
(***************************************************************************)
EXTENDS Integers, Sequences, FiniteSets, SequencesExt

CONSTANTS
    Suites,         \* test suites built into the test-runner
    KindOf,         \* KindOf[s]: "unit", "system", "example" or "performance"
    Examples,       \* C++ examples listed in the examples-to-run files
    PyExamples,     \* Python examples listed there
    Built,          \* examples found on disk and in build-status.py
    DoRun,          \* examples whose do_run condition holds
    DoValgrindRun,  \* examples whose do_valgrind_run condition holds
    ValgrindSkips,  \* core_valgrind_skip_tests
    NscSkips,       \* core_nsc_missing_skip_tests
    Workers,        \* one worker_thread per processor
    OptionSets,     \* the command lines to explore
    Configs,        \* the waf configurations to explore
    NoOption        \* the value of an option that was not given

Given(option) == option # NoOption

ASSUME TestRunnerAssumption ==
    /\ IsFiniteSet(Workers) /\ Workers # {}
    /\ IsFiniteSet(Suites) /\ IsFiniteSet(Examples) /\ IsFiniteSet(PyExamples)
    /\ KindOf \in [Suites -> {"unit", "system", "example", "performance"}]
    /\ \A o \in OptionSets :
          /\ {o.valgrind, o.nowaf, o.list, o.report} \subseteq BOOLEAN
          /\ Given(o.suite) => IsFiniteSet(o.suite)
          /\ Given(o.example) => IsFiniteSet(o.example)
          /\ Given(o.pyexample) => IsFiniteSet(o.pyexample)
    /\ Configs \subseteq [examples : BOOLEAN, bindings : BOOLEAN, nsc : BOOLEAN]

VARIABLES
    options,        \* the parsed command line
    config,         \* what read_waf_config found
    pc,             \* where run_tests is
    suite_list,     \* the names the suites are to be dispatched by
    todo,           \* jobs still to be put on input_queue
    input_queue, output_queue,
    worker,         \* per worker: idle, running, returned or died
    running,        \* per worker: the job whose child it waits for
    thread_exit,    \* set by sigint_hook
    jobs,           \* jobs queued, which is also total_tests
    collected,      \* reports taken from output_queue
    count,          \* passed, failed, skipped, crashed and valgrind tests
    results,        \* the entries of results.xml
    exit_status,
    ended           \* history: how every child ended

vars == <<options, config, pc, suite_list, todo, input_queue, output_queue,
          worker, running, thread_exit, jobs, collected, count, results, exit_status,
          ended>>

-----------------------------------------------------------------------------
(* Jobs.  returncode and xml, the state of tmp_file_name, are filled in by *)
(* the child.                                                              *)

\* The file is missing, cut off, or complete with what the suite found.
FileStates == {"missing", "truncated", "passed", "failed"}

Job(kind, name, is_skip) ==
    [kind |-> kind, name |-> name, is_skip |-> is_skip, is_break |-> FALSE,
     returncode |-> 0, xml |-> "missing"]

BreakJob == [Job("break", "", FALSE) EXCEPT !.is_break = TRUE]

IsExample(job) == job.kind \in {"example", "pyexample"}

\* What `test-runner --print-test-name-list --test-type=KIND' prints: the
\* suites of that kind, or for a kind it does not know a message, one line
\* of which stands here for all.
UnknownKind == "Invalid test type specified"

Listed(kind) ==
    CASE kind \in {"", "core"} -> Suites
      [] kind \in {"unit", "system", "example", "performance"} ->
            {s \in Suites : KindOf[s] = kind}
      [] OTHER -> {UnknownKind}

RequestedSuites ==
    IF Given(options.suite) THEN options.suite
    ELSE IF ~Given(options.example) /\ ~Given(options.pyexample)
         THEN Listed(options.constrain)
         ELSE {}

\* Of the suites found those stay that are not listed as performance tests,
\* unless a single suite or the performance tests were asked for.
SuitesLeft(found, performance) ==
    LET single_suite == Given(options.suite) /\ Cardinality(found) = 1 IN
    IF ~single_suite /\ options.constrain # "performance"
    THEN found \ performance
    ELSE found

\* The suites that the command line selects.
SuiteSet == SuitesLeft(RequestedSuites, Listed("performance"))

NothingNamed ==
    ~Given(options.suite) /\ ~Given(options.example) /\ ~Given(options.pyexample)

\* parse_examples_to_run_file: of the examples an examples-to-run file lists
\* those are tried that are found on disk.
OnDisk(listed) == listed \cap Built

ExampleSet ==
    IF NothingNamed
    THEN IF options.constrain \in {"", "example"} /\ config.examples
         THEN OnDisk(Examples) \cap DoRun
         ELSE {}
    ELSE IF Given(options.example) THEN options.example \cap Built ELSE {}

PyExampleSet ==
    IF NothingNamed
    THEN IF options.constrain \in {"", "pyexample"} /\ config.examples
         THEN OnDisk(PyExamples) \cap DoRun
         ELSE {}
    ELSE IF Given(options.pyexample) THEN options.pyexample \cap Built ELSE {}

\* A test named on the command line runs irrespective of any condition; the
\* skip lists of suites always apply.
SuiteJob(s) ==
    Job("suite", s, \/ options.valgrind /\ s \in ValgrindSkips
                    \/ ~config.nsc /\ s \in NscSkips)

ExampleJob(e) ==
    Job("example", e, NothingNamed /\ options.valgrind /\ e \notin DoValgrindRun)

PyExampleJob(p) ==
    Job("pyexample", p, NothingNamed /\ (options.valgrind \/ ~config.bindings))

JobsOf(names, MakeJob(_)) == [i \in DOMAIN names |-> MakeJob(names[i])]

-----------------------------------------------------------------------------
Init ==
    /\ options \in OptionSets
    /\ config \in Configs
    /\ pc = "config"
    /\ suite_list = <<>>
    /\ todo = <<>>
    /\ input_queue = <<>> /\ output_queue = <<>>
    /\ worker = [w \in Workers |-> "idle"]
    /\ running = [w \in Workers |-> BreakJob]
    /\ thread_exit = FALSE
    /\ jobs = 0 /\ collected = 0
    /\ count = [passed |-> 0, failed |-> 0, skipped |-> 0, crashed |-> 0,
                valgrind |-> 0]
    /\ results = <<>>
    /\ exit_status = 0
    /\ ended = {}

queues  == <<suite_list, todo, input_queue, output_queue, worker, running,
             jobs>>
reports == <<collected, count, results, ended>>

Exit(rc) == pc' = "exited" /\ exit_status' = rc
Go(to)   == pc' = to /\ UNCHANGED exit_status

\* The lock file of waf may be missing.
ReadWafConfig ==
    /\ pc = "config"
    /\ Go("build") \/ Exit(2)
    /\ UNCHANGED <<options, config, thread_exit, queues, reports>>

\* waf builds the tree unless --nowaf; when it dies no test runs.
Build ==
    /\ pc = "build"
    /\ \/ Go("status")
       \/ ~options.nowaf /\ Exit(1)
    /\ UNCHANGED <<options, config, thread_exit, queues, reports>>

\* The build status file may be missing; --kinds and --list end here.
ReadBuildStatus ==
    /\ pc = "status"
    /\ \/ Exit(2)
       \/ IF options.list THEN Exit(0) ELSE Go("select")
    /\ UNCHANGED <<options, config, thread_exit, queues, reports>>

\* The suites and the performance tests are listed by two calls of the
\* test-runner whose return codes are not looked at: one that crashes has
\* listed some of the names or none.  --suite must match a suite.
SelectSuites ==
    /\ pc = "select"
    /\ \E found \in SUBSET RequestedSuites,
          performance \in SUBSET Listed("performance") :
          /\ suite_list' = SetToSeq(SuitesLeft(found, performance))
          /\ IF Given(options.suite) /\ found = {} THEN Exit(2) ELSE Go("queue")
    /\ UNCHANGED <<options, config, thread_exit, todo, input_queue,
                   output_queue, worker, running, jobs, reports>>

\* Mutant: one break job for all workers.
TestJobs_OneBreak ==
    JobsOf(suite_list, SuiteJob)
      \o JobsOf(SetToSeq(ExampleSet), ExampleJob)
      \o JobsOf(SetToSeq(PyExampleSet), PyExampleJob)
      \o <<BreakJob>>

\* The order in which jobs are put: suites, examples, Python examples, then
\* a break for every worker.
TestJobs ==
    JobsOf(suite_list, SuiteJob)
      \o JobsOf(SetToSeq(ExampleSet), ExampleJob)
      \o JobsOf(SetToSeq(PyExampleSet), PyExampleJob)
      \o [w \in 1 .. Cardinality(Workers) |-> BreakJob]

\* The worker threads are running from here on.
StartWorkers ==
    /\ pc = "queue"
    /\ Go("dispatch")
    /\ todo' = TestJobs
    /\ UNCHANGED <<options, config, thread_exit, suite_list, input_queue,
                   output_queue, worker, running, jobs, reports>>

Dispatch ==
    /\ pc = "dispatch"
    /\ todo # <<>>
    /\ input_queue' = Append(input_queue, Head(todo))
    /\ todo' = Tail(todo)
    /\ jobs' = IF Head(todo).is_break THEN jobs ELSE jobs + 1
    /\ UNCHANGED <<options, config, thread_exit, suite_list, output_queue,
                   worker, running, reports, pc, exit_status>>

AllDispatched ==
    /\ pc = "dispatch"
    /\ todo = <<>>
    /\ Go("collect")
    /\ UNCHANGED <<options, config, thread_exit, queues, reports>>

-----------------------------------------------------------------------------
(* The worker threads.                                                     *)

WorkersRun == pc \in {"dispatch", "collect", "join", "raised"}

\* Mutant: after a SIGINT a worker drops the job without a report.
TakeJob_DropOnSigint(w) ==
    /\ WorkersRun
    /\ worker[w] = "idle"
    /\ input_queue # <<>>
    /\ input_queue' = Tail(input_queue)
    /\ LET job == Head(input_queue) IN
          \/ /\ job.is_break
             /\ worker' = [worker EXCEPT ![w] = "returned"]
             /\ UNCHANGED <<running, output_queue>>
          \/ /\ ~job.is_break /\ thread_exit
             /\ UNCHANGED <<worker, running, output_queue>>
          \/ /\ ~job.is_break /\ ~thread_exit /\ job.is_skip
             /\ output_queue' = Append(output_queue, job)
             /\ UNCHANGED <<worker, running>>
          \/ /\ ~job.is_break /\ ~thread_exit /\ ~job.is_skip
             /\ worker' = [worker EXCEPT ![w] = "running"]
             /\ running' = [running EXCEPT ![w] = job]
             /\ UNCHANGED output_queue
    /\ UNCHANGED <<options, config, thread_exit, suite_list, todo, jobs,
                   reports, pc, exit_status>>

\* Take a job: leave on a break, hand it back after a SIGINT or when it is
\* to be skipped, and launch the child otherwise.
TakeJob(w) ==
    /\ WorkersRun
    /\ worker[w] = "idle"
    /\ input_queue # <<>>
    /\ input_queue' = Tail(input_queue)
    /\ LET job == Head(input_queue) IN
          \/ /\ job.is_break
             /\ worker' = [worker EXCEPT ![w] = "returned"]
             /\ UNCHANGED <<running, output_queue>>
          \/ /\ ~job.is_break /\ thread_exit
             /\ output_queue' = Append(output_queue, [job EXCEPT !.is_break = TRUE])
             /\ UNCHANGED <<worker, running>>
          \/ /\ ~job.is_break /\ ~thread_exit /\ job.is_skip
             /\ output_queue' = Append(output_queue, job)
             /\ UNCHANGED <<worker, running>>
          \/ /\ ~job.is_break /\ ~thread_exit /\ ~job.is_skip
             /\ worker' = [worker EXCEPT ![w] = "running"]
             /\ running' = [running EXCEPT ![w] = job]
             /\ UNCHANGED output_queue
    /\ UNCHANGED <<options, config, thread_exit, suite_list, todo, jobs,
                   reports, pc, exit_status>>

\* How a child may end.  A suite that runs to completion leaves a complete
\* XML file, also when valgrind then reports an error, and one that crashes a
\* truncated one.  The words of the message for an unknown kind are no option
\* of the test-runner, which prints its help and returns 0, or no command for
\* the shell, which returns 2.
Outcomes(job) ==
    CASE IsExample(job) ->
            [rc : {0, 1, 2, 139}, xml : {"missing"}]
      [] job.name = UnknownKind ->
            [rc : {0, 2}, xml : {"missing"}]
      [] OTHER ->
            [rc : {0}, xml : {"passed"}] \cup [rc : {1}, xml : {"failed"}]
              \cup [rc : {139}, xml : {"truncated"}]
              \cup [rc : IF options.valgrind THEN {2} ELSE {}, xml : {"passed", "failed"}]

\* run_job_synchronously: output that cannot be decoded makes it a failure.
Retval(rc, decodable) == IF decodable THEN rc ELSE 1

JobEnds(w, outcome, decodable) ==
    /\ worker[w] = "running"
    /\ outcome \in Outcomes(running[w])
    /\ LET rc == Retval(outcome.rc, decodable) IN
          output_queue' = Append(output_queue,
             [running[w] EXCEPT !.returncode = rc, !.xml = outcome.xml])
    /\ ended' = ended \cup {[kind |-> running[w].kind, name |-> running[w].name,
                             rc |-> outcome.rc, decodable |-> decodable]}
    /\ worker' = [worker EXCEPT ![w] = "idle"]
    /\ running' = [running EXCEPT ![w] = BreakJob]
    /\ UNCHANGED <<options, config, thread_exit, suite_list, todo, input_queue,
                   jobs, collected, count, results, pc, exit_status>>

\* subprocess.Popen raises: nothing catches it and the thread ends.
PopenRaises(w) ==
    /\ worker[w] = "running"
    /\ worker' = [worker EXCEPT ![w] = "died"]
    /\ UNCHANGED <<options, config, thread_exit, suite_list, todo, input_queue,
                   output_queue, running, jobs, reports, pc, exit_status>>

Sigint ==
    /\ pc # "exited"
    /\ ~thread_exit
    /\ thread_exit' = TRUE
    /\ UNCHANGED <<options, config, queues, reports, pc, exit_status>>

-----------------------------------------------------------------------------
(* The results.                                                            *)

Status(job) ==
    IF job.is_skip THEN "skipped"
    ELSE CASE job.returncode = 0 -> "passed"
           [] job.returncode = 1 -> "failed"
           [] job.returncode = 2 -> "valgrind"
           [] OTHER -> "crashed"

\* The result that is appended to results.xml for a job: one made up for an
\* example, a skipped or a crashed suite, and what the suite's own file says
\* if the status is 0, 1 or 2, whatever is in it.
Result(job) ==
    IF IsExample(job) \/ job.is_skip THEN Status(job)
    ELSE IF job.returncode \in {0, 1, 2} THEN job.xml
    ELSE "crashed"

\* Mutant: a suite that crashed leaves no entry.
Entries_NoCrash(job) ==
    IF Result(job) = "crashed" THEN <<>>
    ELSE <<[name |-> job.name, result |-> Result(job)]>>

Entries(job) == <<[name |-> job.name, result |-> Result(job)]>>

NoFile(job) ==
    /\ ~IsExample(job) /\ ~job.is_skip
    /\ job.returncode \in {0, 1, 2} /\ job.xml = "missing"

\* Mutant: a job handed back after SIGINT counts like any other.
Collect_Break ==
    /\ pc = "collect"
    /\ collected < jobs
    /\ output_queue # <<>>
    /\ output_queue' = Tail(output_queue)
    /\ collected' = collected + 1
    /\ LET job == Head(output_queue) IN
          /\ count' = [count EXCEPT ![Status(job)] = @ + 1]
          /\ IF NoFile(job)
             THEN Go("raised") /\ UNCHANGED results
             ELSE /\ results' = results \o Entries(job)
                  /\ UNCHANGED <<pc, exit_status>>
    /\ UNCHANGED <<options, config, thread_exit, suite_list, todo, input_queue,
                   worker, running, jobs, ended>>

\* A job that comes back as a break has no result.  Opening a file that is
\* not there raises in the main thread.
Collect ==
    /\ pc = "collect"
    /\ collected < jobs
    /\ output_queue # <<>>
    /\ output_queue' = Tail(output_queue)
    /\ collected' = collected + 1
    /\ LET job == Head(output_queue) IN
          \/ /\ job.is_break
             /\ UNCHANGED <<count, results, pc, exit_status>>
          \/ /\ ~job.is_break
             /\ count' = [count EXCEPT ![Status(job)] = @ + 1]
             /\ IF NoFile(job)
                THEN Go("raised") /\ UNCHANGED results
                ELSE /\ results' = results \o Entries(job)
                     /\ UNCHANGED <<pc, exit_status>>
    /\ UNCHANGED <<options, config, thread_exit, suite_list, todo, input_queue,
                   worker, running, jobs, ended>>

AllCollected ==
    /\ pc = "collect"
    /\ collected = jobs
    /\ Go("join")
    /\ UNCHANGED <<options, config, thread_exit, queues, reports>>

Stopped(w) == worker[w] \in {"returned", "died"}

\* translate_to_text and translate_to_html parse results.xml; a truncated
\* entry makes it no XML.
Translatable == \A i \in DOMAIN results : results[i].result # "truncated"

\* The threads are joined, the results translated and the exit status chosen.
Report ==
    /\ pc = "join"
    /\ \A w \in Workers : Stopped(w)
    /\ IF options.report /\ ~Translatable
       THEN Exit(1)
       ELSE Exit(IF count.passed + count.skipped = jobs THEN 0 ELSE 1)
    /\ UNCHANGED <<options, config, thread_exit, queues, reports>>

\* After an exception in the main thread the interpreter waits for the
\* worker threads, which are no daemons, before it exits.
ExitOnException ==
    /\ pc = "raised"
    /\ \A w \in Workers : Stopped(w)
    /\ Exit(1)
    /\ UNCHANGED <<options, config, thread_exit, queues, reports>>

Terminated == pc = "exited" /\ UNCHANGED vars

WorkerStep(w) ==
    \/ TakeJob(w)
    \/ \E outcome \in [rc : {0, 1, 2, 139}, xml : FileStates],
          decodable \in BOOLEAN : JobEnds(w, outcome, decodable)
    \/ PopenRaises(w)

MainStep ==
    \/ ReadWafConfig \/ Build \/ ReadBuildStatus \/ SelectSuites \/ StartWorkers
    \/ Dispatch \/ AllDispatched \/ Collect \/ AllCollected \/ Report
    \/ ExitOnException

Next ==
    \/ MainStep
    \/ \E w \in Workers : WorkerStep(w)
    \/ Sigint
    \/ Terminated

Spec == Init /\ [][Next]_vars

\* Every thread keeps running and every child ends.
FairSpec ==
    /\ Spec
    /\ WF_vars(MainStep)
    /\ \A w \in Workers : WF_vars(WorkerStep(w))

-----------------------------------------------------------------------------
(* Properties.                                                             *)

Busy == {w \in Workers : worker[w] = "running"}
Tests(queue) == {i \in DOMAIN queue : ~queue[i].is_break}

Died == {w \in Workers : worker[w] = "died"}

\* No report is lost or made twice: while the queues are in use every test
\* that was queued waits, runs, is reported or is counted, so that the main
\* thread's loop over range(jobs) gets exactly what the workers put, also
\* after a SIGINT.  A worker whose Popen raised has lost the one test it held.
EveryJobReported ==
    pc \in {"dispatch", "collect", "join", "raised"} =>
        jobs = Cardinality(Tests(input_queue)) + Cardinality(Busy)
                 + Cardinality(Died) + Len(output_queue) + collected

Selected == {SuiteJob(s) : s \in SuiteSet} \cup {ExampleJob(e) : e \in ExampleSet}
               \cup {PyExampleJob(p) : p \in PyExampleSet}

\* The test-runner listed its suites and did not crash instead.
SuitesListed == ToSet(suite_list) = SuiteSet

\* Exit status 0 is the truth: unless --list was given, no child ended with
\* anything but 0 and output that could be read, every suite and example
\* selected by the command line that was not skipped has run (if the
\* test-runner could list them), and no SIGINT cut the run short.
ExitStatusTruthful ==
    pc = "exited" /\ exit_status = 0 /\ ~options.list =>
        /\ \A c \in ended : c.rc = 0 /\ c.decodable
        /\ \A job \in Selected :
              \/ job.is_skip \/ \E c \in ended : c.name = job.name
              \/ job.kind = "suite" /\ ~SuitesListed
        /\ Given(options.suite) => options.suite # {}

\* The run was neither interrupted nor left short of suites or of a worker.
ReturnedNormally ==
    /\ pc = "exited" /\ collected = jobs /\ ~thread_exit /\ SuitesListed
    /\ \A w \in Workers : worker[w] = "returned"
    /\ \A c \in ended : c.name # UnknownKind

\* The suite's entry is in doubt: valgrind found an error, for which the
\* comment in run_tests wants a second entry that no code writes, or the
\* output could not be decoded, so that even the file of a crash is copied.
Doubtful(job) ==
    /\ job.kind = "suite"
    /\ \E c \in ended : c.kind = "suite" /\ c.name = job.name /\ (c.rc = 2 \/ ~c.decodable)

\* What should be said of a child.
Verdict(c) ==
    CASE c.rc = 1 \/ ~c.decodable -> "failed"
      [] c.rc = 0 /\ c.decodable -> "passed"
      [] c.rc = 2 /\ c.decodable -> "valgrind"
      [] c.rc = 139 /\ c.decodable -> "crashed"

TrueOf(job, result) ==
    IF job.is_skip THEN result = "skipped"
    ELSE \E c \in ended :
            c.kind = job.kind /\ c.name = job.name /\ result = Verdict(c)

\* When test.py returns without an interrupt every selected test has an entry
\* in results.xml that says what became of it: SKIP if it was to be skipped,
\* and else how its own child ended, in whatever order the workers finished;
\* and there are no other entries.  Suites whose entry is in doubt are left
\* out: of those nothing is said, and the number of entries only if there
\* are none.
ResultsComplete ==
    ReturnedNormally =>
        /\ \A job \in Selected :
              \/ Doubtful(job)
              \/ \E i \in DOMAIN results :
                    results[i].name = job.name /\ TrueOf(job, results[i].result)
        /\ (\A job \in Selected : ~Doubtful(job)) => Len(results) = Cardinality(Selected)

\* The run ends: whatever the tests do and whenever SIGINT arrives, the main
\* thread returns or raises and all workers leave, provided that every child
\* ends and could be started.  (The comment at the end of run_tests: "wait for
\* all of the threads to close down so we can exit gracefully".)
RunEnds == <>(pc = "exited" \/ Died # {})
=============================================================================
