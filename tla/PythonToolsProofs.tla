------------------------- MODULE PythonToolsProofs -------------------------
(***************************************************************************)
(* Proofs about the two Python programs of the repository.                 *)
(*                                                                         *)
(* First test.py, for any number of workers, tests, command lines and      *)
(* configurations: the account of the tests that were queued (AccountInv), *)
(* what a wrong count gives away (TruthInv) and what is in results.xml     *)
(* (ResultInv), on top of the types and the stages of a run.               *)
(*                                                                         *)
(* Then the two threads of PyViz, for any depth of nested main loops and   *)
(* any number of timers, messages and sample periods (PyVizInv).           *)
(***************************************************************************)
EXTENDS TestRunner, Visualizer, DataFacts

-----------------------------------------------------------------------------
(* Counting the tests of a queue.                                          *)

\* The names a job may have.
Names ==
    {"", UnknownKind} \cup Suites \cup Built
      \cup UNION {o.suite : o \in {x \in OptionSets : Given(x.suite)}}

Jobs ==
    [kind : {"suite", "example", "pyexample", "break"}, name : Names,
     is_skip : BOOLEAN, is_break : BOOLEAN, returncode : {0, 1, 2, 139},
     xml : FileStates]

\* The tests of a queue are finitely many.
LEMMA TestsFinite ==
    ASSUME NEW q \in Seq(Jobs)
    PROVE  /\ IsFiniteSet(Tests(q)) /\ Cardinality(Tests(q)) \in Nat
           /\ Tests(q) \subseteq 1..Len(q)
<1>1. Len(q) \in Nat /\ DOMAIN q = 1..Len(q)
    OBVIOUS
<1>2. IsFiniteSet(1..Len(q))
    BY <1>1, FS_Interval
<1>3. Tests(q) \subseteq 1..Len(q)
    BY <1>1 DEF Tests
<1>4. IsFiniteSet(Tests(q))
    BY <1>2, <1>3, FS_Subset
<1> QED  BY <1>3, <1>4, FS_CardinalityType

\* The tests of two queues put together.
LEMMA TestsConcat ==
    ASSUME NEW a \in Seq(Jobs), NEW b \in Seq(Jobs)
    PROVE  Cardinality(Tests(a \o b)) = Cardinality(Tests(a)) + Cardinality(Tests(b))
<1> DEFINE shifted == {i + Len(a) : i \in Tests(b)}
           f == [i \in Tests(b) |-> i + Len(a)]
<1>1. /\ Len(a) \in Nat /\ Len(b) \in Nat /\ DOMAIN a = 1..Len(a) /\ DOMAIN b = 1..Len(b)
      /\ a \o b \in Seq(Jobs) /\ Len(a \o b) = Len(a) + Len(b)
      /\ DOMAIN (a \o b) = 1..(Len(a) + Len(b))
      /\ \A i \in 1..Len(a) : (a \o b)[i] = a[i]
      /\ \A i \in 1..Len(b) : (a \o b)[i + Len(a)] = b[i]
    OBVIOUS
<1>2. IsFiniteSet(Tests(a)) /\ IsFiniteSet(Tests(b)) /\ Cardinality(Tests(a)) \in Nat
    BY TestsFinite
<1>3. Tests(a \o b) = Tests(a) \cup shifted
  <2>1. ASSUME NEW i \in Tests(a \o b) PROVE i \in Tests(a) \cup shifted
    <3>1. i \in 1..(Len(a) + Len(b)) /\ ~(a \o b)[i].is_break
        BY <1>1 DEF Tests
    <3>2. CASE i <= Len(a)
        BY <1>1, <3>1, <3>2 DEF Tests
    <3>3. CASE i > Len(a)
      <4>1. i - Len(a) \in 1..Len(b) /\ i = (i - Len(a)) + Len(a)
          BY <1>1, <3>1, <3>3
      <4>2. i - Len(a) \in Tests(b)
          BY <1>1, <3>1, <4>1 DEF Tests
      <4> QED  BY <4>1, <4>2
    <3> QED  BY <1>1, <3>1, <3>2, <3>3
  <2>2. ASSUME NEW i \in Tests(a) PROVE i \in Tests(a \o b)
      BY <1>1 DEF Tests
  <2>3. ASSUME NEW i \in Tests(b) PROVE i + Len(a) \in Tests(a \o b)
    <3>1. i \in 1..Len(b) /\ ~b[i].is_break
        BY <1>1 DEF Tests
    <3>2. i + Len(a) \in 1..(Len(a) + Len(b)) /\ (a \o b)[i + Len(a)] = b[i]
        BY <1>1, <3>1
    <3> QED  BY <1>1, <3>1, <3>2 DEF Tests
  <2> QED  BY <2>1, <2>2, <2>3
<1>4. Tests(a) \cap shifted = {}
    BY <1>1 DEF Tests
<1>5. f \in Bijection(Tests(b), shifted)
  <2>1. \A i, j \in Tests(b) : i + Len(a) = j + Len(a) => i = j
      BY <1>1 DEF Tests
  <2> QED  BY <2>1 DEF Bijection, Injection, Surjection, IsInjective
<1>6. IsFiniteSet(shifted) /\ Cardinality(shifted) = Cardinality(Tests(b))
    BY <1>2, <1>5, FS_Bijection DEF ExistsBijection
<1>7. Cardinality(shifted) \in Nat
    BY <1>6, FS_CardinalityType
<1> HIDE DEF shifted
<1>8. Cardinality(Tests(a) \cup shifted)
        = Cardinality(Tests(a)) + Cardinality(shifted) - Cardinality(Tests(a) \cap shifted)
    BY <1>2, <1>6, FS_Union
<1>9. Cardinality(Tests(a) \cap shifted) = 0
    BY <1>4, FS_EmptySet
<1> QED  BY <1>2, <1>3, <1>6, <1>7, <1>8, <1>9

\* One test, or none.
Ones(job) == IF job.is_break THEN 0 ELSE 1

\* A queue of one job has one test, or none if it is a break job.
LEMMA TestsSingle ==
    ASSUME NEW job \in Jobs PROVE Cardinality(Tests(<<job>>)) = Ones(job)
<1>1. <<job>>[1] = job /\ DOMAIN <<job>> = {1} /\ job.is_break \in BOOLEAN
    BY DEF Jobs
<1>2. CASE job.is_break
  <2>1. Tests(<<job>>) = {}
      BY <1>1, <1>2 DEF Tests
  <2> QED  BY <1>2, <2>1, FS_EmptySet DEF Ones
<1>3. CASE ~job.is_break
  <2>1. Tests(<<job>>) = {1}
      BY <1>1, <1>3 DEF Tests
  <2> QED  BY <1>3, <2>1, FS_Singleton DEF Ones
<1> QED  BY <1>2, <1>3

\* Putting a job into a queue.
LEMMA TestsAppend ==
    ASSUME NEW q \in Seq(Jobs), NEW job \in Jobs
    PROVE  Cardinality(Tests(Append(q, job))) = Cardinality(Tests(q)) + Ones(job)
<1>1. Append(q, job) = q \o <<job>> /\ <<job>> \in Seq(Jobs)
    BY AppendIsConcat
<1> QED  BY <1>1, TestsConcat, TestsSingle

\* Getting a job from a queue.
LEMMA TestsTail ==
    ASSUME NEW q \in Seq(Jobs), q # <<>>
    PROVE  /\ Head(q) \in Jobs /\ Tail(q) \in Seq(Jobs)
           /\ Cardinality(Tests(q)) = Cardinality(Tests(Tail(q))) + Ones(Head(q))
<1>1. Head(q) \in Jobs /\ Tail(q) \in Seq(Jobs) /\ <<Head(q)>> \in Seq(Jobs)
    OBVIOUS
<1>2. q = <<Head(q)>> \o Tail(q)
    OBVIOUS
<1>3. Cardinality(Tests(<<Head(q)>>)) = Ones(Head(q)) /\ Ones(Head(q)) \in Nat
    BY <1>1, TestsSingle DEF Ones
<1>4. Cardinality(Tests(Tail(q))) \in Nat
    BY <1>1, TestsFinite
<1>5. Cardinality(Tests(<<Head(q)>> \o Tail(q)))
        = Cardinality(Tests(<<Head(q)>>)) + Cardinality(Tests(Tail(q)))
    BY <1>1, TestsConcat
<1>6. Cardinality(Tests(q)) = Cardinality(Tests(<<Head(q)>> \o Tail(q)))
    BY <1>2
<1> QED  BY <1>1, <1>3, <1>4, <1>5, <1>6

\* A queue of tests only, and one of break jobs only.
LEMMA TestsAll ==
    ASSUME NEW q \in Seq(Jobs), \A i \in 1..Len(q) : ~q[i].is_break
    PROVE  Cardinality(Tests(q)) = Len(q)
<1>1. Len(q) \in Nat /\ Tests(q) = 1..Len(q)
    BY DEF Tests
<1>2. Cardinality(1..Len(q)) = IF 1 > Len(q) THEN 0 ELSE Len(q) - 1 + 1
    BY <1>1, FS_Interval
<1> QED  BY <1>1, <1>2

\* A queue of break jobs has no tests.
LEMMA TestsNone ==
    ASSUME NEW q \in Seq(Jobs), \A i \in 1..Len(q) : q[i].is_break
    PROVE  Cardinality(Tests(q)) = 0
<1>1. Tests(q) = {}
    BY DEF Tests
<1> QED  BY <1>1, FS_EmptySet

-----------------------------------------------------------------------------
(* The jobs that are selected.                                             *)

\* SetToSeq lists a finite set, each element once.
LEMMA SetToSeqFacts ==
    ASSUME NEW S, IsFiniteSet(S)
    PROVE  /\ SetToSeq(S) \in Seq(S) /\ Len(SetToSeq(S)) = Cardinality(S)
           /\ IsInjective(SetToSeq(S)) /\ ToSet(SetToSeq(S)) = S
<1> DEFINE n == Cardinality(S)
           s == SetToSeq(S)
<1>1. n \in Nat /\ ExistsBijection(1..n, S)
    BY FS_CardinalityType
<1>2. \E f \in [1..n -> S] : IsInjective(f)
    BY <1>1 DEF ExistsBijection, Bijection, Injection
<1>3. s \in [1..n -> S] /\ IsInjective(s)
    BY <1>2 DEF SetToSeq
<1> HIDE DEF n, s
<1>4. s \in Seq(S) /\ Len(s) = n
    BY <1>1, <1>3
<1>5. s \in Injection(1..n, S) /\ Cardinality(1..n) = n
    BY <1>1, <1>3, FS_Interval DEF Injection
<1>6. s \in Surjection(1..n, S)
    BY <1>5, FS_Injection DEF n
<1>7. ToSet(s) = S
    BY <1>3, <1>6 DEF ToSet, Surjection
<1> QED  BY <1>3, <1>4, <1>7 DEF n, s

\* What the command line selects is finite.
LEMMA SelectionFinite ==
    ASSUME options \in OptionSets
    PROVE  /\ IsFiniteSet(RequestedSuites) /\ RequestedSuites \subseteq Names
           /\ IsFiniteSet(SuiteSet) /\ SuiteSet \subseteq Names
           /\ IsFiniteSet(ExampleSet) /\ ExampleSet \subseteq Names
           /\ IsFiniteSet(PyExampleSet) /\ PyExampleSet \subseteq Names
<1>1. ASSUME NEW kind PROVE IsFiniteSet(Listed(kind)) /\ Listed(kind) \subseteq Suites \cup {UnknownKind}
  <2>1. Listed(kind) \subseteq Suites \/ Listed(kind) = {UnknownKind}
      BY DEF Listed
  <2> QED  BY <2>1, TestRunnerAssumption, FS_Subset, FS_Singleton
<1>2. /\ Given(options.suite) => IsFiniteSet(options.suite)
      /\ Given(options.example) => IsFiniteSet(options.example)
      /\ Given(options.pyexample) => IsFiniteSet(options.pyexample)
    BY TestRunnerAssumption
<1>3. IsFiniteSet(RequestedSuites) /\ RequestedSuites \subseteq Names
  <2>1. CASE Given(options.suite)
    <3>1. RequestedSuites = options.suite
        BY <2>1 DEF RequestedSuites
    <3>2. options.suite \subseteq Names
        BY <2>1 DEF Names
    <3> QED  BY <1>2, <2>1, <3>1, <3>2
  <2>2. CASE ~Given(options.suite)
    <3>1. RequestedSuites = Listed(options.constrain) \/ RequestedSuites = {}
        BY <2>2 DEF RequestedSuites
    <3> QED  BY <1>1, <3>1, FS_EmptySet DEF Names
  <2> QED  BY <2>1, <2>2
<1>4. SuiteSet \subseteq RequestedSuites
    BY DEF SuiteSet, SuitesLeft
<1>5. /\ \/ ExampleSet = {} \/ ExampleSet \subseteq Examples
         \/ Given(options.example) /\ ExampleSet \subseteq options.example
      /\ ExampleSet \subseteq Built
    BY DEF ExampleSet, OnDisk
<1>6. /\ \/ PyExampleSet = {} \/ PyExampleSet \subseteq PyExamples
         \/ Given(options.pyexample) /\ PyExampleSet \subseteq options.pyexample
      /\ PyExampleSet \subseteq Built
    BY DEF PyExampleSet, OnDisk
<1>7. IsFiniteSet(SuiteSet)
    BY <1>3, <1>4, FS_Subset
<1>8. IsFiniteSet(ExampleSet)
    BY <1>2, <1>5, TestRunnerAssumption, FS_Subset, FS_EmptySet
<1>9. IsFiniteSet(PyExampleSet)
    BY <1>2, <1>6, TestRunnerAssumption, FS_Subset, FS_EmptySet
<1> QED  BY <1>3, <1>4, <1>5, <1>6, <1>7, <1>8, <1>9 DEF Names

\* The jobs made of the names.
LEMMA JobTypes ==
    ASSUME options \in OptionSets, config \in Configs
    PROVE  /\ \A s \in Names : /\ SuiteJob(s) \in Jobs /\ ~SuiteJob(s).is_break
                               /\ SuiteJob(s).name = s /\ SuiteJob(s).kind = "suite"
           /\ \A e \in Names : /\ ExampleJob(e) \in Jobs /\ ~ExampleJob(e).is_break
                               /\ ExampleJob(e).name = e /\ ExampleJob(e).kind = "example"
           /\ \A p \in Names : /\ PyExampleJob(p) \in Jobs /\ ~PyExampleJob(p).is_break
                               /\ PyExampleJob(p).name = p /\ PyExampleJob(p).kind = "pyexample"
           /\ BreakJob \in Jobs /\ BreakJob.is_break
<1>1. ASSUME NEW kind \in {"suite", "example", "pyexample", "break"}, NEW n \in Names,
             NEW skip \in BOOLEAN
      PROVE  /\ Job(kind, n, skip) \in Jobs /\ ~Job(kind, n, skip).is_break
             /\ Job(kind, n, skip).name = n /\ Job(kind, n, skip).kind = kind
    BY DEF Job, Jobs, FileStates
<1>2. options.valgrind \in BOOLEAN /\ config.nsc \in BOOLEAN /\ config.bindings \in BOOLEAN
    BY TestRunnerAssumption
<1>3. \A s \in Names : /\ SuiteJob(s) \in Jobs /\ ~SuiteJob(s).is_break
                       /\ SuiteJob(s).name = s /\ SuiteJob(s).kind = "suite"
  <2> TAKE s \in Names
  <2> DEFINE skip == \/ options.valgrind /\ s \in ValgrindSkips
                     \/ ~config.nsc /\ s \in NscSkips
  <2>1. skip \in BOOLEAN
      BY <1>2
  <2>2. SuiteJob(s) = Job("suite", s, skip)
      BY DEF SuiteJob
  <2> HIDE DEF skip
  <2> QED  BY <1>1, <2>1, <2>2
<1>4. \A e \in Names : /\ ExampleJob(e) \in Jobs /\ ~ExampleJob(e).is_break
                       /\ ExampleJob(e).name = e /\ ExampleJob(e).kind = "example"
  <2> TAKE e \in Names
  <2> DEFINE skip == NothingNamed /\ options.valgrind /\ e \notin DoValgrindRun
  <2>1. skip \in BOOLEAN
      BY <1>2
  <2>2. ExampleJob(e) = Job("example", e, skip)
      BY DEF ExampleJob
  <2> HIDE DEF skip
  <2> QED  BY <1>1, <2>1, <2>2
<1>5. \A p \in Names : /\ PyExampleJob(p) \in Jobs /\ ~PyExampleJob(p).is_break
                       /\ PyExampleJob(p).name = p /\ PyExampleJob(p).kind = "pyexample"
  <2> TAKE p \in Names
  <2> DEFINE skip == NothingNamed /\ (options.valgrind \/ ~config.bindings)
  <2>1. skip \in BOOLEAN
      BY <1>2
  <2>2. PyExampleJob(p) = Job("pyexample", p, skip)
      BY DEF PyExampleJob
  <2> HIDE DEF skip
  <2> QED  BY <1>1, <2>1, <2>2
<1>6. BreakJob \in Jobs /\ BreakJob.is_break
    BY DEF BreakJob, Job, Jobs, Names, FileStates
<1> QED  BY <1>3, <1>4, <1>5, <1>6

\* The tests that are to be dispatched.
Required ==
    {SuiteJob(s) : s \in ToSet(suite_list)} \cup {ExampleJob(e) : e \in ExampleSet}
      \cup {PyExampleJob(p) : p \in PyExampleSet}

Total == Len(suite_list) + Cardinality(ExampleSet) + Cardinality(PyExampleSet)

\* TestJobs has all of them, and no other but break jobs.
LEMMA TestJobsFacts ==
    ASSUME options \in OptionSets, config \in Configs, suite_list \in Seq(Names)
    PROVE  /\ TestJobs \in Seq(Jobs)
           /\ Cardinality(Tests(TestJobs)) = Total
           /\ \A job \in Required : \E i \in DOMAIN TestJobs : TestJobs[i] = job
<1> DEFINE es == SetToSeq(ExampleSet)
           ps == SetToSeq(PyExampleSet)
           n  == Cardinality(Workers)
           a  == [i \in DOMAIN suite_list |-> SuiteJob(suite_list[i])]
           b  == [i \in DOMAIN es |-> ExampleJob(es[i])]
           c  == [i \in DOMAIN ps |-> PyExampleJob(ps[i])]
           d  == [w \in 1..n |-> BreakJob]
<1>1. TestJobs = ((a \o b) \o c) \o d
    BY DEF TestJobs, JobsOf
<1>2. /\ es \in Seq(ExampleSet) /\ Len(es) = Cardinality(ExampleSet) /\ ToSet(es) = ExampleSet
      /\ ps \in Seq(PyExampleSet) /\ Len(ps) = Cardinality(PyExampleSet) /\ ToSet(ps) = PyExampleSet
    BY SelectionFinite, SetToSeqFacts
<1>3. n \in Nat
    BY TestRunnerAssumption, FS_CardinalityType
<1> HIDE DEF es, ps, n
<1>4. /\ a \in Seq(Jobs) /\ Len(a) = Len(suite_list)
      /\ \A i \in 1..Len(a) : ~a[i].is_break
    BY JobTypes
<1>5. /\ b \in Seq(Jobs) /\ Len(b) = Len(es)
      /\ \A i \in 1..Len(b) : ~b[i].is_break
  <2>1. ExampleSet \subseteq Names
      BY SelectionFinite
  <2>2. \A i \in DOMAIN es : es[i] \in Names
      BY <1>2, <2>1
  <2>3. \A i \in DOMAIN es : ExampleJob(es[i]) \in Jobs /\ ~ExampleJob(es[i]).is_break
      BY <2>2, JobTypes
  <2>4. DOMAIN es = 1..Len(es) /\ Len(es) \in Nat
      BY <1>2
  <2> QED  BY <2>3, <2>4
<1>6. /\ c \in Seq(Jobs) /\ Len(c) = Len(ps)
      /\ \A i \in 1..Len(c) : ~c[i].is_break
  <2>1. PyExampleSet \subseteq Names
      BY SelectionFinite
  <2>2. \A i \in DOMAIN ps : ps[i] \in Names
      BY <1>2, <2>1
  <2>3. \A i \in DOMAIN ps : PyExampleJob(ps[i]) \in Jobs /\ ~PyExampleJob(ps[i]).is_break
      BY <2>2, JobTypes
  <2>4. DOMAIN ps = 1..Len(ps) /\ Len(ps) \in Nat
      BY <1>2
  <2> QED  BY <2>3, <2>4
<1>7. d \in Seq(Jobs) /\ \A i \in 1..Len(d) : d[i].is_break
    BY <1>3, JobTypes
<1>8. ASSUME NEW job \in Required
      PROVE  \/ \E i \in 1..Len(a) : a[i] = job
             \/ \E i \in 1..Len(b) : b[i] = job
             \/ \E i \in 1..Len(c) : c[i] = job
    BY <1>2, <1>4, <1>5, <1>6 DEF Required, ToSet
<1> HIDE DEF a, b, c, d
<1>9. a \o b \in Seq(Jobs) /\ (a \o b) \o c \in Seq(Jobs) /\ ((a \o b) \o c) \o d \in Seq(Jobs)
    BY <1>4, <1>5, <1>6, <1>7
<1>10. Cardinality(Tests(TestJobs)) = Total
  <2>1. Cardinality(Tests(a \o b)) = Len(a) + Len(b)
      BY <1>4, <1>5, TestsConcat, TestsAll
  <2>2. Cardinality(Tests((a \o b) \o c)) = Len(a) + Len(b) + Len(c)
      BY <1>6, <1>9, <2>1, TestsConcat, TestsAll
  <2>3. Cardinality(Tests(((a \o b) \o c) \o d)) = Len(a) + Len(b) + Len(c) + 0
      BY <1>7, <1>9, <2>2, TestsConcat, TestsNone
  <2> QED  BY <1>1, <1>2, <1>4, <1>5, <1>6, <2>3 DEF Total
<1>11. ASSUME NEW x \in Seq(Jobs), NEW y \in Seq(Jobs), NEW job
       PROVE  (\E i \in 1..Len(x) : x[i] = job) \/ (\E i \in 1..Len(y) : y[i] = job)
                => \E i \in 1..Len(x \o y) : (x \o y)[i] = job
  <2>1. /\ Len(x) \in Nat /\ Len(y) \in Nat /\ Len(x \o y) = Len(x) + Len(y)
        /\ \A i \in 1..Len(x) : i \in 1..Len(x \o y) /\ (x \o y)[i] = x[i]
        /\ \A i \in 1..Len(y) : i + Len(x) \in 1..Len(x \o y) /\ (x \o y)[i + Len(x)] = y[i]
      OBVIOUS
  <2> QED  BY <2>1
<1>12. ASSUME NEW job \in Required PROVE \E i \in DOMAIN TestJobs : TestJobs[i] = job
  <2>1. (\E i \in 1..Len(a) : a[i] = job) \/ (\E i \in 1..Len(b) : b[i] = job)
          => \E i \in 1..Len(a \o b) : (a \o b)[i] = job
      BY <1>4, <1>5, <1>11
  <2>2. (\E i \in 1..Len(a \o b) : (a \o b)[i] = job) \/ (\E i \in 1..Len(c) : c[i] = job)
          => \E i \in 1..Len((a \o b) \o c) : ((a \o b) \o c)[i] = job
    <3> DEFINE ab == a \o b
    <3>1. ab \in Seq(Jobs)
        BY <1>9
    <3> HIDE DEF ab
    <3>2. (\E i \in 1..Len(ab) : ab[i] = job) \/ (\E i \in 1..Len(c) : c[i] = job)
            => \E i \in 1..Len(ab \o c) : (ab \o c)[i] = job
        BY ONLY <1>6, <3>1, <1>11
    <3> QED  BY <3>2 DEF ab
  <2>3. \E i \in 1..Len(((a \o b) \o c) \o d) : (((a \o b) \o c) \o d)[i] = job
    <3>1. \E i \in 1..Len((a \o b) \o c) : ((a \o b) \o c)[i] = job
        BY <1>8, <2>1, <2>2
    <3> QED  BY <1>7, <1>9, <1>11, <3>1
  <2>4. DOMAIN TestJobs = 1..Len(((a \o b) \o c) \o d)
      BY <1>1, <1>9
  <2> QED  BY <1>1, <2>3, <2>4
<1> QED  BY <1>1, <1>9, <1>10, <1>12

\* The jobs of a kind are as many as their names.
LEMMA SelectedCount ==
    ASSUME options \in OptionSets, config \in Configs, suite_list \in Seq(Names),
           IsInjective(suite_list), SuitesListed
    PROVE  Selected = Required /\ Cardinality(Selected) = Total
<1> DEFINE A == {SuiteJob(s) : s \in SuiteSet}
           B == {ExampleJob(e) : e \in ExampleSet}
           C == {PyExampleJob(p) : p \in PyExampleSet}
<1>1. Selected = Required
    BY DEF Selected, Required, SuitesListed
<1>2. /\ IsFiniteSet(SuiteSet) /\ IsFiniteSet(ExampleSet) /\ IsFiniteSet(PyExampleSet)
      /\ SuiteSet \subseteq Names /\ ExampleSet \subseteq Names /\ PyExampleSet \subseteq Names
    BY SelectionFinite
<1>3. Len(suite_list) = Cardinality(SuiteSet)
  <2>1. suite_list \in Bijection(1..Len(suite_list), SuiteSet)
      BY DEF Bijection, Injection, Surjection, SuitesListed, ToSet
  <2>2. IsFiniteSet(1..Len(suite_list)) /\ Len(suite_list) \in Nat
      BY FS_Interval
  <2>3. Cardinality(1..Len(suite_list)) = IF 1 > Len(suite_list) THEN 0 ELSE Len(suite_list) - 1 + 1
      BY <2>2, FS_Interval
  <2>4. Cardinality(SuiteSet) = Cardinality(1..Len(suite_list))
      BY <2>1, <2>2, FS_Bijection DEF ExistsBijection
  <2> QED  BY <2>2, <2>3, <2>4
<1>4. IsFiniteSet(A) /\ Cardinality(A) = Cardinality(SuiteSet)
  <2>1. [s \in SuiteSet |-> SuiteJob(s)] \in Bijection(SuiteSet, A)
      BY <1>2, JobTypes DEF Bijection, Injection, Surjection, IsInjective
  <2> QED  BY <1>2, <2>1, FS_Bijection DEF ExistsBijection
<1>5. IsFiniteSet(B) /\ Cardinality(B) = Cardinality(ExampleSet)
  <2>1. [e \in ExampleSet |-> ExampleJob(e)] \in Bijection(ExampleSet, B)
      BY <1>2, JobTypes DEF Bijection, Injection, Surjection, IsInjective
  <2> QED  BY <1>2, <2>1, FS_Bijection DEF ExistsBijection
<1>6. IsFiniteSet(C) /\ Cardinality(C) = Cardinality(PyExampleSet)
  <2>1. [p \in PyExampleSet |-> PyExampleJob(p)] \in Bijection(PyExampleSet, C)
      BY <1>2, JobTypes DEF Bijection, Injection, Surjection, IsInjective
  <2> QED  BY <1>2, <2>1, FS_Bijection DEF ExistsBijection
<1>7. A \cap B = {} /\ (A \cup B) \cap C = {}
  <2>1. /\ \A x \in A : x.kind = "suite"
        /\ \A x \in B : x.kind = "example"
        /\ \A x \in C : x.kind = "pyexample"
      BY <1>2, JobTypes
  <2> QED  BY <2>1
<1>8. Selected = (A \cup B) \cup C
    BY DEF Selected
<1> HIDE DEF A, B, C
<1>9. Cardinality({}) = 0
    BY FS_EmptySet
<1>10. Cardinality(A) \in Nat /\ Cardinality(B) \in Nat /\ Cardinality(C) \in Nat
    BY <1>4, <1>5, <1>6, FS_CardinalityType
<1>11. /\ IsFiniteSet(A \cup B)
       /\ Cardinality(A \cup B) = Cardinality(A) + Cardinality(B) - Cardinality(A \cap B)
    BY <1>4, <1>5, FS_Union
<1>12. Cardinality((A \cup B) \cup C)
         = Cardinality(A \cup B) + Cardinality(C) - Cardinality((A \cup B) \cap C)
    BY <1>6, <1>11, FS_Union
<1>13. Cardinality(A \cap B) = 0 /\ Cardinality((A \cup B) \cap C) = 0
    BY <1>7, <1>9
<1>14. Cardinality(Selected) = Cardinality(A) + Cardinality(B) + Cardinality(C)
    BY <1>8, <1>10, <1>11, <1>12, <1>13
<1> QED  BY <1>1, <1>3, <1>4, <1>5, <1>6, <1>14 DEF Total

-----------------------------------------------------------------------------
(* The stages of a run.                                                    *)

Early == {"config", "build", "status", "select", "queue"}
Active == {"dispatch", "collect", "join", "raised"}
Statuses == {"passed", "failed", "skipped", "crashed", "valgrind"}
Results == Statuses \cup FileStates

TypeInv ==
    /\ options \in OptionSets /\ config \in Configs
    /\ pc \in Early \cup Active \cup {"exited"}
    /\ suite_list \in Seq(Names) /\ IsInjective(suite_list)
    /\ todo \in Seq(Jobs) /\ input_queue \in Seq(Jobs) /\ output_queue \in Seq(Jobs)
    /\ worker \in [Workers -> {"idle", "running", "returned", "died"}]
    /\ running \in [Workers -> Jobs]
    /\ thread_exit \in BOOLEAN
    /\ jobs \in Nat /\ collected \in Nat
    /\ count \in [Statuses -> Nat]
    /\ results \in Seq([name : Names, result : Results])

\* The types hold at first.
LEMMA InitType == Init => TypeInv
<1> SUFFICES ASSUME Init PROVE TypeInv
    OBVIOUS
<1>1. BreakJob \in Jobs
    BY JobTypes DEF Init
<1>2. count \in [Statuses -> Nat]
    BY DEF Init, Statuses
<1>3. suite_list \in Seq(Names) /\ IsInjective(suite_list)
    BY DEF Init, IsInjective
<1>4. worker \in [Workers -> {"idle", "running", "returned", "died"}] /\ running \in [Workers -> Jobs]
    BY <1>1 DEF Init
<1>5. /\ todo \in Seq(Jobs) /\ input_queue \in Seq(Jobs) /\ output_queue \in Seq(Jobs)
      /\ results \in Seq([name : Names, result : Results])
    BY DEF Init
<1>6. /\ options \in OptionSets /\ config \in Configs /\ pc \in Early /\ thread_exit \in BOOLEAN
      /\ jobs \in Nat /\ collected \in Nat
    BY DEF Init, Early
<1> QED  BY <1>2, <1>3, <1>4, <1>5, <1>6 DEF TypeInv

\* A report keeps the type of a job, and what it adds to the results theirs.
LEMMA ReportTypes ==
    ASSUME NEW job \in Jobs
    PROVE  /\ Status(job) \in Statuses
           /\ \A rc \in {0, 1, 2, 139}, x \in FileStates :
                 [job EXCEPT !.returncode = rc, !.xml = x] \in Jobs
           /\ [job EXCEPT !.is_break = TRUE] \in Jobs
           /\ Result(job) \in Results
<1>1. Status(job) \in Statuses
    BY DEF Status, Statuses
<1>2. \A rc \in {0, 1, 2, 139}, x \in FileStates :
          [job EXCEPT !.returncode = rc, !.xml = x] \in Jobs
    BY DEF Jobs
<1>3. [job EXCEPT !.is_break = TRUE] \in Jobs
    BY DEF Jobs
<1>4. Result(job) \in Results
    BY <1>1 DEF Result, Results, Statuses, Jobs
<1> QED  BY <1>1, <1>2, <1>3, <1>4

\* Every step keeps the types.
LEMMA NextType ==
    ASSUME TypeInv, [Next]_vars PROVE TypeInv'
<1>1. CASE ReadWafConfig
    BY <1>1 DEF TypeInv, ReadWafConfig, Go, Exit, queues, reports, Early
<1>2. CASE Build
    BY <1>2 DEF TypeInv, Build, Go, Exit, queues, reports, Early
<1>3. CASE ReadBuildStatus
    BY <1>3 DEF TypeInv, ReadBuildStatus, Go, Exit, queues, reports, Early
<1>4. CASE SelectSuites
  <2>1. PICK names \in SUBSET RequestedSuites : suite_list' = SetToSeq(names)
      BY <1>4 DEF SelectSuites, SuitesLeft
  <2>2. IsFiniteSet(names) /\ names \subseteq Names
      BY SelectionFinite, FS_Subset DEF TypeInv
  <2>3. suite_list' \in Seq(Names) /\ IsInjective(suite_list')
      BY <2>1, <2>2, SetToSeqFacts
  <2> QED  BY <1>4, <2>3 DEF TypeInv, SelectSuites, Go, Exit, reports, Early
<1>5. CASE StartWorkers
  <2>1. TestJobs \in Seq(Jobs)
      BY TestJobsFacts DEF TypeInv
  <2> QED  BY <1>5, <2>1 DEF TypeInv, StartWorkers, Go, reports, Active
<1>6. CASE Dispatch
  <2>1. Head(todo) \in Jobs /\ Tail(todo) \in Seq(Jobs)
      BY <1>6 DEF Dispatch, TypeInv
  <2>2. Append(input_queue, Head(todo)) \in Seq(Jobs)
      BY <2>1 DEF TypeInv
  <2> QED  BY <1>6, <2>1, <2>2 DEF TypeInv, Dispatch, reports
<1>7. CASE AllDispatched
    BY <1>7 DEF TypeInv, AllDispatched, Go, queues, reports, Active
<1>8. CASE Collect
  <2> DEFINE job == Head(output_queue)
  <2>1. job \in Jobs /\ Tail(output_queue) \in Seq(Jobs)
      BY <1>8 DEF Collect, TypeInv
  <2> HIDE DEF job
  <2>2. count' \in [Statuses -> Nat]
    <3>1. count' = count \/ count' = [count EXCEPT ![Status(job)] = @ + 1]
        BY <1>8 DEF Collect, job
    <3>2. PICK st \in Statuses : st = Status(job)
        BY <2>1, ReportTypes
    <3>3. count' = count \/ count' = [count EXCEPT ![st] = @ + 1]
        BY <3>1, <3>2
    <3>4. count \in [Statuses -> Nat]
        BY DEF TypeInv
    <3> QED  BY <3>2, <3>3, <3>4
  <2>3. results' \in Seq([name : Names, result : Results])
    <3>1. results' = results \/ results' = results \o Entries(job)
        BY <1>8 DEF Collect, job
    <3>2. PICK v \in Results : v = Result(job)
        BY <2>1, ReportTypes
    <3> DEFINE T == [name : Names, result : Results]
    <3>3. Entries(job) = <<[name |-> job.name, result |-> v]>> /\ job.name \in Names
        BY <2>1, <3>2 DEF Entries, Jobs
    <3>4. PICK x \in T : Entries(job) = <<x>>
        BY <3>3
    <3>5. results \in Seq(T)
        BY DEF TypeInv
    <3>6. results' \in Seq(T)
      <4> HIDE DEF T
      <4> QED  BY <3>1, <3>4, <3>5
    <3> QED  BY <3>6
  <2>4. pc' \in Active /\ output_queue' \in Seq(Jobs) /\ collected' \in Nat
      BY <1>8, <2>1 DEF Collect, Go, Active, TypeInv
  <2> QED  BY <1>8, <2>2, <2>3, <2>4 DEF TypeInv, Collect
<1>9. CASE AllCollected
    BY <1>9 DEF TypeInv, AllCollected, Go, queues, reports, Active
<1>10. CASE Report
    BY <1>10 DEF TypeInv, Report, Exit, queues, reports
<1>11. CASE ExitOnException
    BY <1>11 DEF TypeInv, ExitOnException, Exit, queues, reports
<1>12. ASSUME NEW w \in Workers, TakeJob(w) PROVE TypeInv'
  <2> DEFINE job == Head(input_queue)
  <2>1. job \in Jobs /\ Tail(input_queue) \in Seq(Jobs)
      BY <1>12 DEF TakeJob, TypeInv
  <2> HIDE DEF job
  <2>2. /\ worker' \in [Workers -> {"idle", "running", "returned", "died"}]
        /\ running' \in [Workers -> Jobs]
      BY <1>12, <2>1 DEF TakeJob, TypeInv, job
  <2>3. output_queue' \in Seq(Jobs)
    <3>1. \/ output_queue' = output_queue
          \/ output_queue' = Append(output_queue, job)
          \/ output_queue' = Append(output_queue, [job EXCEPT !.is_break = TRUE])
        BY <1>12 DEF TakeJob, job
    <3>2. PICK back \in Jobs : back = [job EXCEPT !.is_break = TRUE]
        BY <2>1, ReportTypes
    <3>3. \/ output_queue' = output_queue
          \/ output_queue' = Append(output_queue, job)
          \/ output_queue' = Append(output_queue, back)
        BY <3>1, <3>2
    <3>4. output_queue \in Seq(Jobs) /\ \A x \in Jobs : Append(output_queue, x) \in Seq(Jobs)
        BY DEF TypeInv
    <3>5. back \in Jobs
        BY <3>2
    <3> QED  BY ONLY <2>1, <3>3, <3>4, <3>5
  <2> QED  BY <1>12, <2>1, <2>2, <2>3 DEF TypeInv, TakeJob, reports
<1>13. ASSUME NEW w \in Workers,
              NEW outcome \in [rc : {0, 1, 2, 139}, xml : FileStates],
              NEW decodable \in BOOLEAN, JobEnds(w, outcome, decodable)
       PROVE  TypeInv'
  <2> DEFINE rep == [running[w] EXCEPT !.returncode = Retval(outcome.rc, decodable),
                                       !.xml = outcome.xml]
  <2>1. Retval(outcome.rc, decodable) \in {0, 1, 2, 139}
      BY DEF Retval
  <2>2. rep \in Jobs
    <3>1. running[w] \in Jobs /\ outcome.xml \in FileStates
        BY DEF TypeInv
    <3>2. \A rc \in {0, 1, 2, 139}, x \in FileStates :
              [running[w] EXCEPT !.returncode = rc, !.xml = x] \in Jobs
        BY <3>1 DEF Jobs
    <3>3. PICK rc \in {0, 1, 2, 139}, x \in FileStates :
              rc = Retval(outcome.rc, decodable) /\ x = outcome.xml
        BY <2>1, <3>1
    <3>4. rep = [running[w] EXCEPT !.returncode = rc, !.xml = x]
        BY <3>3
    <3>5. [running[w] EXCEPT !.returncode = rc, !.xml = x] \in Jobs
        BY <3>2
    <3> HIDE DEF rep
    <3> QED  BY <3>4, <3>5
  <2>3. output_queue' \in Seq(Jobs)
    <3> HIDE DEF rep
    <3>1. output_queue' = Append(output_queue, rep)
        BY <1>13 DEF JobEnds, rep
    <3> QED  BY <2>2, <3>1 DEF TypeInv
  <2>4. BreakJob \in Jobs
      BY JobTypes DEF TypeInv
  <2>5. /\ worker' \in [Workers -> {"idle", "running", "returned", "died"}]
        /\ running' \in [Workers -> Jobs]
      BY <1>13, <2>4 DEF JobEnds, TypeInv
  <2> QED  BY <1>13, <2>3, <2>5 DEF TypeInv, JobEnds
<1>14. ASSUME NEW w \in Workers, PopenRaises(w) PROVE TypeInv'
    BY <1>14 DEF TypeInv, PopenRaises, reports
<1>15. CASE Sigint
    BY <1>15 DEF TypeInv, Sigint, queues, reports
<1>16. CASE UNCHANGED vars
    BY <1>16 DEF TypeInv, vars
<1> QED  BY <1>1, <1>2, <1>3, <1>4, <1>5, <1>6, <1>7, <1>8, <1>9, <1>10, <1>11, <1>12,
            <1>13, <1>14, <1>15, <1>16 DEF Next, MainStep, WorkerStep, Terminated

\* Nothing happens before the workers are started; what the later stages may
\* rely on when they begin.
StageInv ==
    /\ pc \in Early =>
          /\ todo = <<>> /\ input_queue = <<>> /\ output_queue = <<>>
          /\ \A w \in Workers : worker[w] = "idle"
          /\ jobs = 0 /\ collected = 0 /\ ended = {}
    /\ pc \in {"collect", "join", "raised", "exited"} => todo = <<>>
    /\ pc = "join" => collected = jobs
    /\ pc = "exited" => \A w \in Workers : worker[w] # "running"
    /\ pc \in Active \cup {"queue"} => (Given(options.suite) => options.suite # {})
    /\ \A w \in Workers : worker[w] = "running" => ~running[w].is_break /\ ~running[w].is_skip

\* Every step keeps what is known at each stage of the run.
LEMMA NextStage ==
    ASSUME TypeInv, StageInv, [Next]_vars PROVE StageInv'
<1> USE DEF Early, Active
<1>1. CASE ReadWafConfig
    BY <1>1 DEF StageInv, ReadWafConfig, Go, Exit, queues, reports
<1>2. CASE Build
    BY <1>2 DEF StageInv, Build, Go, Exit, queues, reports
<1>3. CASE ReadBuildStatus
    BY <1>3 DEF StageInv, ReadBuildStatus, Go, Exit, queues, reports
<1>4. CASE SelectSuites
    BY <1>4 DEF StageInv, SelectSuites, RequestedSuites, Go, Exit, reports
<1>5. CASE StartWorkers
    BY <1>5 DEF StageInv, StartWorkers, Go, reports
<1>6. CASE Dispatch
    BY <1>6 DEF StageInv, Dispatch, reports
<1>7. CASE AllDispatched
    BY <1>7 DEF StageInv, AllDispatched, Go, queues, reports
<1>8. CASE Collect
    BY <1>8 DEF StageInv, Collect, Go
<1>9. CASE AllCollected
    BY <1>9 DEF StageInv, AllCollected, Go, queues, reports
<1>10. CASE Report
    BY <1>10 DEF StageInv, Report, Stopped, Exit, queues, reports
<1>11. CASE ExitOnException
    BY <1>11 DEF StageInv, ExitOnException, Stopped, Exit, queues, reports
<1>12. ASSUME NEW w \in Workers, TakeJob(w) PROVE StageInv'
  <2>1. ASSUME NEW v \in Workers, worker'[v] = "running"
        PROVE  ~running'[v].is_break /\ ~running'[v].is_skip
      BY <1>12, <2>1 DEF StageInv, TakeJob, TypeInv
  <2> QED  BY <1>12, <2>1 DEF StageInv, TakeJob, WorkersRun, reports
<1>13. ASSUME NEW w \in Workers, NEW outcome, NEW decodable, JobEnds(w, outcome, decodable)
       PROVE  StageInv'
  <2>1. \A v \in Workers : worker'[v] = "running" => worker[v] = "running" /\ running'[v] = running[v]
      BY <1>13 DEF JobEnds, TypeInv
  <2>2. pc \notin Early \cup {"exited"}
      BY <1>13 DEF JobEnds, StageInv
  <2> QED  BY <1>13, <2>1, <2>2 DEF StageInv, JobEnds
<1>14. ASSUME NEW w \in Workers, PopenRaises(w) PROVE StageInv'
  <2>1. \A v \in Workers : worker'[v] = "running" => worker[v] = "running"
      BY <1>14 DEF PopenRaises, TypeInv
  <2>2. pc \notin Early \cup {"exited"}
      BY <1>14 DEF PopenRaises, StageInv
  <2> QED  BY <1>14, <2>1, <2>2 DEF StageInv, PopenRaises, reports
<1>15. CASE Sigint
    BY <1>15 DEF StageInv, Sigint, queues, reports
<1>16. CASE UNCHANGED vars
    BY <1>16 DEF StageInv, vars
<1> QED  BY <1>1, <1>2, <1>3, <1>4, <1>5, <1>6, <1>7, <1>8, <1>9, <1>10, <1>11, <1>12,
            <1>13, <1>14, <1>15, <1>16 DEF Next, MainStep, WorkerStep, Terminated

-----------------------------------------------------------------------------
(* Every job is reported.                                                  *)

\* The workers that hold a job: they run it, or died over it.
Holders == {w \in Workers : worker[w] \in {"running", "died"}}
Holds(state) == IF state \in {"running", "died"} THEN 1 ELSE 0

\* The workers that hold a test can be counted.
LEMMA HoldersCount ==
    /\ IsFiniteSet(Holders) /\ Cardinality(Holders) \in Nat
    /\ Cardinality(Holders) = Cardinality(Busy) + Cardinality(Died)
<1>1. Holders = Busy \cup Died /\ Busy \cap Died = {}
    BY DEF Holders, Busy, Died
<1>2. IsFiniteSet(Holders) /\ IsFiniteSet(Busy) /\ IsFiniteSet(Died)
    BY TestRunnerAssumption, FS_Subset DEF Holders, Busy, Died
<1>3. /\ Cardinality(Busy \cup Died)
           = Cardinality(Busy) + Cardinality(Died) - Cardinality(Busy \cap Died)
      /\ Cardinality(Busy \cap Died) = 0
    BY <1>1, <1>2, FS_Union, FS_EmptySet
<1>4. Cardinality(Holders) \in Nat /\ Cardinality(Busy) \in Nat /\ Cardinality(Died) \in Nat
    BY <1>2, FS_CardinalityType
<1> QED  BY <1>1, <1>2, <1>3, <1>4

\* What a change of one worker means for the number of holders.
LEMMA HolderMoves ==
    ASSUME TypeInv, NEW w \in Workers, NEW state, worker' = [worker EXCEPT ![w] = state]
    PROVE  Cardinality(Holders') = Cardinality(Holders) + Holds(state) - Holds(worker[w])
<1>1. IsFiniteSet(Holders) /\ Cardinality(Holders) \in Nat
    BY HoldersCount
<1>2. /\ worker'[w] = state /\ DOMAIN worker = Workers
      /\ \A v \in Workers \ {w} : worker'[v] = worker[v]
    BY DEF TypeInv
<1>3. CASE state \in {"running", "died"}
  <2>1. Holders' = Holders \cup {w}
      BY <1>2, <1>3 DEF Holders
  <2>2. Cardinality(Holders \cup {w}) = IF w \in Holders THEN Cardinality(Holders) ELSE Cardinality(Holders) + 1
      BY <1>1, FS_AddElement
  <2> QED  BY <1>1, <1>3, <2>1, <2>2 DEF Holds, Holders
<1>4. CASE state \notin {"running", "died"}
  <2>1. Holders' = Holders \ {w}
      BY <1>2, <1>4 DEF Holders
  <2>2. Cardinality(Holders \ {w}) = IF w \in Holders THEN Cardinality(Holders) - 1 ELSE Cardinality(Holders)
      BY <1>1, FS_RemoveElement
  <2> QED  BY <1>1, <1>4, <2>1, <2>2 DEF Holds, Holders
<1> QED  BY <1>3, <1>4

\* The account: every test put on input_queue waits there, is held by a
\* worker, waits in output_queue or was collected.
AccountInv ==
    jobs = Cardinality(Tests(input_queue)) + Cardinality(Holders) + Len(output_queue) + collected

\* No test has been queued at first.
LEMMA InitAccount == Init => AccountInv /\ StageInv
<1> SUFFICES ASSUME Init PROVE AccountInv /\ StageInv
    OBVIOUS
<1>1. Tests(input_queue) = {} /\ Holders = {} /\ Len(output_queue) = 0
    BY DEF Init, Tests, Holders
<1>2. StageInv
    BY DEF Init, StageInv, Early, Active
<1>3. jobs = 0 /\ collected = 0
    BY DEF Init
<1> QED  BY <1>1, <1>2, <1>3, FS_EmptySet DEF AccountInv

\* A step that leaves queues, workers and counters alone.
LEMMA AccountKept ==
    ASSUME AccountInv,
           UNCHANGED <<input_queue, output_queue, worker, jobs, collected>>
    PROVE  AccountInv'
<1>1. Tests(input_queue)' = Tests(input_queue) /\ Holders' = Holders
    BY DEF Tests, Holders
<1> QED  BY <1>1 DEF AccountInv

\* Every step keeps the account of the tests.
LEMMA NextAccount ==
    ASSUME TypeInv, StageInv, AccountInv, [Next]_vars PROVE AccountInv'
<1> USE DEF queues, reports
<1>a. /\ input_queue \in Seq(Jobs) /\ output_queue \in Seq(Jobs) /\ todo \in Seq(Jobs)
      /\ jobs \in Nat /\ collected \in Nat /\ Len(output_queue) \in Nat
    BY DEF TypeInv
<1>b. Cardinality(Holders) \in Nat /\ Cardinality(Tests(input_queue)) \in Nat
    BY <1>a, HoldersCount, TestsFinite
<1>1. CASE ReadWafConfig
    BY <1>1, AccountKept DEF ReadWafConfig
<1>2. CASE Build
    BY <1>2, AccountKept DEF Build
<1>3. CASE ReadBuildStatus
    BY <1>3, AccountKept DEF ReadBuildStatus
<1>4. CASE SelectSuites
    BY <1>4, AccountKept DEF SelectSuites
<1>5. CASE StartWorkers
    BY <1>5, AccountKept DEF StartWorkers
<1>6. CASE Dispatch
  <2>1. Head(todo) \in Jobs
      BY <1>6, <1>a DEF Dispatch
  <2>2. Cardinality(Tests(input_queue')) = Cardinality(Tests(input_queue)) + Ones(Head(todo))
      BY <1>6, <1>a, <2>1, TestsAppend DEF Dispatch
  <2>3. jobs' = jobs + Ones(Head(todo)) /\ Ones(Head(todo)) \in Nat
      BY <1>6, <1>a DEF Dispatch, Ones
  <2>4. UNCHANGED <<Holders, output_queue, collected>>
      BY <1>6 DEF Dispatch, Holders
  <2>5. Tests(input_queue)' = Tests(input_queue')
      BY DEF Tests
  <2> QED  BY <1>a, <1>b, <2>2, <2>3, <2>4, <2>5 DEF AccountInv
<1>7. CASE AllDispatched
    BY <1>7, AccountKept DEF AllDispatched
<1>8. CASE Collect
  <2>1. /\ Len(output_queue') = Len(output_queue) - 1 /\ collected' = collected + 1
        /\ jobs' = jobs /\ UNCHANGED <<input_queue, worker>>
      BY <1>8, <1>a DEF Collect
  <2>2. /\ Cardinality(Tests(input_queue))' = Cardinality(Tests(input_queue))
        /\ Cardinality(Holders)' = Cardinality(Holders)
      BY <2>1 DEF Tests, Holders
  <2>3. PICK x \in Nat : x = Cardinality(Tests(input_queue)) + Cardinality(Holders)
      BY <1>b
  <2>4. jobs = x + Len(output_queue) + collected
      BY <2>3 DEF AccountInv
  <2>5. x + (Len(output_queue) - 1) + (collected + 1) = x + Len(output_queue) + collected
      BY <1>a
  <2> QED  BY <2>1, <2>2, <2>3, <2>4, <2>5 DEF AccountInv
<1>9. CASE AllCollected
    BY <1>9, AccountKept DEF AllCollected
<1>10. CASE Report
    BY <1>10, AccountKept DEF Report
<1>11. CASE ExitOnException
    BY <1>11, AccountKept DEF ExitOnException
<1>12. ASSUME NEW w \in Workers, TakeJob(w) PROVE AccountInv'
  <2> DEFINE job == Head(input_queue)
  <2>1. /\ job \in Jobs /\ input_queue' = Tail(input_queue) /\ worker[w] = "idle"
        /\ UNCHANGED <<jobs, collected>>
      BY <1>12, <1>a DEF TakeJob
  <2>2. /\ Cardinality(Tests(input_queue)) = Cardinality(Tests(input_queue')) + Ones(job)
        /\ Cardinality(Tests(input_queue')) \in Nat
      BY <1>12, <1>a, <2>1, TestsTail, TestsFinite DEF TakeJob
  <2>3. Tests(input_queue)' = Tests(input_queue')
      BY DEF Tests
  <2>4. CASE job.is_break
    <3>1. worker' = [worker EXCEPT ![w] = "returned"] /\ output_queue' = output_queue
        BY <1>12, <2>4 DEF TakeJob
    <3>2. Cardinality(Holders') = Cardinality(Holders)
      <4>1. Cardinality(Holders') = Cardinality(Holders) + Holds("returned") - Holds(worker[w])
          BY <3>1, HolderMoves
      <4> QED  BY <1>b, <2>1, <4>1 DEF Holds
    <3>3. Ones(job) = 0
        BY <2>4 DEF Ones
    <3> QED  BY <1>a, <1>b, <2>1, <2>2, <2>3, <3>1, <3>2, <3>3 DEF AccountInv
  <2>5. CASE ~job.is_break /\ (thread_exit \/ job.is_skip)
    <3>1. PICK x \in Jobs : output_queue' = Append(output_queue, x)
        BY <1>12, <2>1, <2>5, ReportTypes DEF TakeJob
    <3>2. Len(output_queue') = Len(output_queue) + 1
        BY <1>a, <3>1
    <3>3. worker' = worker
        BY <1>12, <2>5 DEF TakeJob
    <3>4. Holders' = Holders
        BY <3>3 DEF Holders
    <3>5. Ones(job) = 1
        BY <2>5 DEF Ones
    <3> QED  BY <1>a, <1>b, <2>1, <2>2, <2>3, <3>2, <3>4, <3>5 DEF AccountInv
  <2>6. CASE ~job.is_break /\ ~thread_exit /\ ~job.is_skip
    <3>1. worker' = [worker EXCEPT ![w] = "running"] /\ output_queue' = output_queue
        BY <1>12, <2>6 DEF TakeJob
    <3>2. Cardinality(Holders') = Cardinality(Holders) + 1
      <4>1. Cardinality(Holders') = Cardinality(Holders) + Holds("running") - Holds(worker[w])
          BY <3>1, HolderMoves
      <4> QED  BY <1>b, <2>1, <4>1 DEF Holds
    <3>3. Ones(job) = 1
        BY <2>6 DEF Ones
    <3> QED  BY <1>a, <1>b, <2>1, <2>2, <2>3, <3>1, <3>2, <3>3 DEF AccountInv
  <2> QED  BY <2>4, <2>5, <2>6
<1>13. ASSUME NEW w \in Workers,
              NEW outcome \in [rc : {0, 1, 2, 139}, xml : FileStates],
              NEW decodable \in BOOLEAN, JobEnds(w, outcome, decodable)
       PROVE  AccountInv'
  <2>1. PICK x : output_queue' = Append(output_queue, x)
      BY <1>13 DEF JobEnds
  <2>2. Len(output_queue') = Len(output_queue) + 1
      BY <1>a, <2>1
  <2>3. /\ worker[w] = "running" /\ worker' = [worker EXCEPT ![w] = "idle"]
        /\ UNCHANGED <<input_queue, jobs, collected>>
      BY <1>13 DEF JobEnds
  <2>4. Cardinality(Holders') = Cardinality(Holders) - 1
    <3>1. Cardinality(Holders') = Cardinality(Holders) + Holds("idle") - Holds(worker[w])
        BY <2>3, HolderMoves
    <3> QED  BY <1>b, <2>3, <3>1 DEF Holds
  <2>5. Tests(input_queue)' = Tests(input_queue)
      BY <2>3 DEF Tests
  <2> QED  BY <1>a, <1>b, <2>2, <2>3, <2>4, <2>5 DEF AccountInv
<1>14. ASSUME NEW w \in Workers, PopenRaises(w) PROVE AccountInv'
  <2>1. /\ worker[w] = "running" /\ worker' = [worker EXCEPT ![w] = "died"]
        /\ UNCHANGED <<input_queue, output_queue, jobs, collected>>
      BY <1>14 DEF PopenRaises
  <2>2. Cardinality(Holders') = Cardinality(Holders)
    <3>1. Cardinality(Holders') = Cardinality(Holders) + Holds("died") - Holds(worker[w])
        BY <2>1, HolderMoves
    <3> QED  BY <1>b, <2>1, <3>1 DEF Holds
  <2>3. Tests(input_queue)' = Tests(input_queue)
      BY <2>1 DEF Tests
  <2> QED  BY <1>a, <1>b, <2>1, <2>2, <2>3 DEF AccountInv
<1>15. CASE Sigint
    BY <1>15, AccountKept DEF Sigint
<1>16. CASE UNCHANGED vars
    BY <1>16, AccountKept DEF vars
<1> QED  BY <1>1, <1>2, <1>3, <1>4, <1>5, <1>6, <1>7, <1>8, <1>9, <1>10, <1>11, <1>12,
            <1>13, <1>14, <1>15, <1>16 DEF Next, MainStep, WorkerStep, Terminated

\* No report of a test is lost or made twice, whenever SIGINT arrives: the
\* loop of run_tests over range(jobs) gets what the workers put.
THEOREM EveryJobIsReported == Spec => []EveryJobReported
<1> DEFINE IInv == TypeInv /\ StageInv /\ AccountInv
<1>1. Init => IInv
    BY InitType, InitAccount
<1>2. IInv /\ [Next]_vars => IInv'
    BY NextType, NextStage, NextAccount
<1>3. IInv => EveryJobReported
  <2> SUFFICES ASSUME IInv PROVE EveryJobReported
      OBVIOUS
  <2>1. /\ Cardinality(Holders) = Cardinality(Busy) + Cardinality(Died)
        /\ Cardinality(Busy) \in Nat /\ Cardinality(Died) \in Nat
    <3>1. IsFiniteSet(Busy) /\ IsFiniteSet(Died)
        BY TestRunnerAssumption, FS_Subset DEF Busy, Died
    <3> QED  BY <3>1, HoldersCount, FS_CardinalityType
  <2>2. Cardinality(Tests(input_queue)) \in Nat /\ Len(output_queue) \in Nat /\ collected \in Nat
      BY TestsFinite DEF TypeInv
  <2> QED  BY <2>1, <2>2 DEF AccountInv, EveryJobReported
<1> QED  BY <1>1, <1>2, <1>3, PTL DEF Spec

-----------------------------------------------------------------------------
(* The exit status.                                                        *)

\* The queue q has a member of S.
Has(q, S) == \E i \in DOMAIN q : q[i] \in S

\* What is in a queue after a job was put into it.
LEMMA HasAppend ==
    ASSUME NEW q \in Seq(Jobs), NEW x, NEW S
    PROVE  Has(Append(q, x), S) <=> Has(q, S) \/ x \in S
<1>1. /\ Len(q) \in Nat /\ DOMAIN q = 1..Len(q) /\ DOMAIN Append(q, x) = 1..(Len(q) + 1)
      /\ Append(q, x)[Len(q) + 1] = x
      /\ \A i \in 1..Len(q) : Append(q, x)[i] = q[i]
    OBVIOUS
<1>2. ASSUME Has(Append(q, x), S) PROVE Has(q, S) \/ x \in S
  <2>1. PICK i \in 1..(Len(q) + 1) : Append(q, x)[i] \in S
      BY <1>1, <1>2 DEF Has
  <2>2. i \in 1..Len(q) \/ i = Len(q) + 1
      BY <1>1
  <2> QED  BY <1>1, <2>1, <2>2 DEF Has
<1>3. ASSUME Has(q, S) PROVE Has(Append(q, x), S)
    BY <1>1, <1>3 DEF Has
<1>4. ASSUME x \in S PROVE Has(Append(q, x), S)
  <2>1. Len(q) + 1 \in 1..(Len(q) + 1)
      BY <1>1
  <2> QED  BY <1>1, <1>4, <2>1 DEF Has
<1> QED  BY <1>2, <1>3, <1>4

\* What is in a queue after a job was taken from it.
LEMMA HasTail ==
    ASSUME NEW q \in Seq(Jobs), q # <<>>, NEW S
    PROVE  Has(q, S) <=> Head(q) \in S \/ Has(Tail(q), S)
<1>1. /\ Len(q) \in Nat /\ Len(q) # 0 /\ DOMAIN q = 1..Len(q) /\ DOMAIN Tail(q) = 1..(Len(q) - 1)
      /\ Head(q) = q[1] /\ \A i \in 1..(Len(q) - 1) : Tail(q)[i] = q[i + 1]
    OBVIOUS
<1>2. ASSUME Has(q, S) PROVE Head(q) \in S \/ Has(Tail(q), S)
  <2>1. PICK i \in 1..Len(q) : q[i] \in S
      BY <1>1, <1>2 DEF Has
  <2>2. CASE i = 1
      BY <1>1, <2>1, <2>2
  <2>3. CASE i # 1
    <3>1. i - 1 \in 1..(Len(q) - 1) /\ (i - 1) + 1 = i
        BY <1>1, <2>3
    <3> QED  BY <1>1, <2>1, <3>1 DEF Has
  <2> QED  BY <2>2, <2>3
<1>3. ASSUME Has(Tail(q), S) PROVE Has(q, S)
  <2>1. PICK i \in 1..(Len(q) - 1) : Tail(q)[i] \in S
      BY <1>1, <1>3 DEF Has
  <2>2. i + 1 \in 1..Len(q) /\ q[i + 1] \in S
      BY <1>1, <2>1
  <2> QED  BY <1>1, <2>2 DEF Has
<1>4. ASSUME Head(q) \in S PROVE Has(q, S)
  <2>1. 1 \in DOMAIN q
      BY <1>1
  <2> QED  BY <1>1, <1>4, <2>1 DEF Has
<1> QED  BY <1>2, <1>3, <1>4

\* The reports that count neither as passed nor as skipped.
NotPassed == {job \in Jobs : job.is_break \/ (~job.is_skip /\ job.returncode # 0)}

\* Such a report was collected, or will be: the counters do not add up.
Lost ==
    count.passed + count.skipped < collected \/ Has(output_queue, NotPassed)

Done(job) == job.is_skip \/ \E c \in ended : c.name = job.name

Held(job) == \E w \in Holders : running[w] = job

\* The test has not been reported.
Waiting(job) == Has(todo, {job}) \/ Has(input_queue, {job}) \/ Held(job)

\* Where a selected test is once the workers have started.
Placed(job) == Waiting(job) \/ Done(job) \/ Lost

TruthInv ==
    /\ count.passed + count.skipped <= collected
    /\ \A c \in ended : (c.rc = 0 /\ c.decodable) \/ Lost
    /\ pc \in Active => \A job \in Required : Placed(job)

\* Nothing has gone wrong at first.
LEMMA InitTruth == Init => TruthInv
<1> SUFFICES ASSUME Init PROVE TruthInv
    OBVIOUS
<1>1. count.passed = 0 /\ count.skipped = 0 /\ collected = 0
    BY DEF Init
<1>2. ended = {} /\ pc \notin Active
    BY DEF Init, Active
<1> QED  BY <1>1, <1>2 DEF TruthInv

\* What is selected depends on the command line, the configuration and what
\* was listed only.
LEMMA RequiredKept ==
    ASSUME UNCHANGED <<options, config, suite_list>>
    PROVE  /\ Required' = Required /\ Total' = Total
           /\ Selected' = Selected /\ SuitesListed' = SuitesListed
<1>1. NothingNamed' = NothingNamed
    BY DEF NothingNamed, Given
<1>2. ExampleSet' = ExampleSet /\ PyExampleSet' = PyExampleSet
    BY <1>1 DEF ExampleSet, PyExampleSet, OnDisk, Given
<1>3. ASSUME NEW n
      PROVE  /\ SuiteJob(n)' = SuiteJob(n) /\ ExampleJob(n)' = ExampleJob(n)
             /\ PyExampleJob(n)' = PyExampleJob(n)
    BY <1>1 DEF SuiteJob, ExampleJob, PyExampleJob, Job
<1>4. ToSet(suite_list)' = ToSet(suite_list)
    BY DEF ToSet
<1>5. SuiteSet' = SuiteSet
  <2>1. RequestedSuites' = RequestedSuites
      BY DEF RequestedSuites, Given, Listed
  <2> QED  BY <2>1 DEF SuiteSet, SuitesLeft, Given, Listed
<1>6. Required' = Required
    BY <1>2, <1>3, <1>4 DEF Required
<1>7. Total' = Total
    BY <1>2 DEF Total
<1>8. Selected' = Selected /\ SuitesListed' = SuitesListed
    BY <1>2, <1>3, <1>4, <1>5 DEF Selected, SuitesListed
<1> QED  BY <1>6, <1>7, <1>8

\* The selected jobs are no break jobs.
LEMMA RequiredTypes ==
    ASSUME TypeInv, NEW job \in Required
    PROVE  job \in Jobs /\ ~job.is_break /\ job.kind # "break"
<1>1. ToSet(suite_list) \subseteq Names
    BY DEF TypeInv, ToSet
<1>2. ExampleSet \subseteq Names /\ PyExampleSet \subseteq Names
    BY SelectionFinite DEF TypeInv
<1>3. /\ \A n \in Names : SuiteJob(n) \in Jobs /\ ~SuiteJob(n).is_break /\ SuiteJob(n).kind # "break"
      /\ \A n \in Names : ExampleJob(n) \in Jobs /\ ~ExampleJob(n).is_break /\ ExampleJob(n).kind # "break"
      /\ \A n \in Names : PyExampleJob(n) \in Jobs /\ ~PyExampleJob(n).is_break /\ PyExampleJob(n).kind # "break"
    BY JobTypes DEF TypeInv
<1> QED  BY <1>1, <1>2, <1>3 DEF Required

\* A step that moves no job and no report.
LEMMA TruthKept ==
    ASSUME TruthInv,
           UNCHANGED <<todo, input_queue, output_queue, worker, running, collected, count, ended>>,
           pc' \notin Active \/ (pc \in Active /\ UNCHANGED <<options, config, suite_list>>)
    PROVE  TruthInv'
<1>1. Lost' = Lost
    BY DEF Lost, Has, NotPassed, Jobs
<1>2. ASSUME pc' \in Active PROVE \A job \in Required' : Placed(job)'
  <2>1. pc \in Active /\ Required' = Required
      BY <1>2, RequiredKept
  <2>2. ASSUME NEW job PROVE Placed(job)' = Placed(job)
      BY <1>1 DEF Placed, Waiting, Has, Held, Holders, Done
  <2> QED  BY <2>1, <2>2 DEF TruthInv
<1> QED  BY <1>1, <1>2 DEF TruthInv

\* A report that is put leaves the counters as they do not add up.
LEMMA LostAppend ==
    ASSUME TypeInv, NEW x, output_queue' = Append(output_queue, x), UNCHANGED <<count, collected>>
    PROVE  Lost \/ x \in NotPassed => Lost'
<1>1. output_queue \in Seq(Jobs)
    BY DEF TypeInv
<1>2. Has(output_queue', NotPassed) <=> Has(output_queue, NotPassed) \/ x \in NotPassed
    BY <1>1, HasAppend
<1>3. Lost' <=> count.passed + count.skipped < collected \/ Has(output_queue', NotPassed)
    BY DEF Lost, Has, NotPassed, Jobs
<1> QED  BY <1>2, <1>3 DEF Lost

\* Neither does a report that is collected: it counts once, unless it has
\* not passed.
LEMMA LostCollect ==
    ASSUME TypeInv, count.passed + count.skipped <= collected, Collect
    PROVE  /\ count'.passed + count'.skipped <= collected'
           /\ Lost => Lost'
<1> DEFINE job == Head(output_queue)
<1>1. /\ output_queue \in Seq(Jobs) /\ output_queue # <<>> /\ job \in Jobs
      /\ output_queue' = Tail(output_queue) /\ collected' = collected + 1
      /\ collected \in Nat /\ count \in [Statuses -> Nat]
    BY DEF Collect, TypeInv
<1>2. Has(output_queue, NotPassed) <=> job \in NotPassed \/ Has(output_queue', NotPassed)
    BY <1>1, HasTail
<1> HIDE DEF job
<1>3. count.passed \in Nat /\ count.skipped \in Nat
    BY <1>1 DEF Statuses
<1>4. /\ count'.passed + count'.skipped <= count.passed + count.skipped + 1
      /\ count'.passed \in Nat /\ count'.skipped \in Nat
      /\ job \in NotPassed => count'.passed + count'.skipped = count.passed + count.skipped
  <2>1. CASE job.is_break
    <3>1. count' = count
        BY <2>1 DEF Collect, job
    <3> QED  BY <1>3, <3>1
  <2>2. CASE ~job.is_break
    <3>1. count' = [count EXCEPT ![Status(job)] = @ + 1]
        BY <2>2 DEF Collect, job
    <3>2. PICK st \in Statuses : st = Status(job)
        BY <1>1, ReportTypes
    <3>3. count' = [count EXCEPT ![st] = @ + 1]
        BY <3>1, <3>2
    <3>4. job \in NotPassed => st # "passed" /\ st # "skipped"
        BY <2>2, <3>2 DEF NotPassed, Status
    <3>5. /\ count'.passed = IF st = "passed" THEN count.passed + 1 ELSE count.passed
          /\ count'.skipped = IF st = "skipped" THEN count.skipped + 1 ELSE count.skipped
        BY <1>1, <3>2, <3>3 DEF Statuses
    <3> QED  BY <1>3, <3>4, <3>5
  <2> QED  BY <2>1, <2>2
<1>5. Lost' <=> count'.passed + count'.skipped < collected' \/ Has(output_queue', NotPassed)
    BY DEF Lost, Has, NotPassed, Jobs
<1>6. count'.passed + count'.skipped <= collected'
    BY <1>1, <1>3, <1>4
<1>7. ASSUME Lost PROVE Lost'
  <2>1. CASE count.passed + count.skipped < collected
    <3>1. count'.passed + count'.skipped < collected'
        BY <1>1, <1>3, <1>4, <2>1
    <3> QED  BY <1>5, <3>1
  <2>2. CASE job \in NotPassed
    <3>1. count'.passed + count'.skipped < collected'
        BY <1>1, <1>3, <1>4, <2>2
    <3> QED  BY <1>5, <3>1
  <2> QED  BY <1>2, <1>5, <1>7, <2>1, <2>2 DEF Lost
<1> QED  BY <1>6, <1>7

-----------------------------------------------------------------------------
(* How a test moves.                                                       *)

\* A test that waits still waits after a dispatch.
LEMMA WaitingDispatch ==
    ASSUME TypeInv, Dispatch, NEW job, Waiting(job) PROVE Waiting(job)'
<1>1. /\ todo \in Seq(Jobs) /\ todo # <<>> /\ input_queue \in Seq(Jobs) /\ Head(todo) \in Jobs
      /\ input_queue' = Append(input_queue, Head(todo)) /\ todo' = Tail(todo)
      /\ worker' = worker /\ running' = running
    BY DEF Dispatch, TypeInv
<1>2. Has(todo, {job}) <=> Head(todo) \in {job} \/ Has(todo', {job})
    BY <1>1, HasTail
<1>3. Has(input_queue', {job}) <=> Has(input_queue, {job}) \/ Head(todo) \in {job}
    BY <1>1, HasAppend
<1>4. Held(job)' <=> Held(job)
    BY <1>1 DEF Held, Holders
<1>5. Has(todo, {job})' = Has(todo', {job}) /\ Has(input_queue, {job})' = Has(input_queue', {job})
    BY DEF Has
<1> QED  BY <1>2, <1>3, <1>4, <1>5 DEF Waiting

\* It still waits after a worker has taken a job, unless it is that job and was
\* not started.
LEMMA WaitingTake ==
    ASSUME TypeInv, NEW w \in Workers, TakeJob(w), NEW job, ~job.is_break, Waiting(job)
    PROVE  Waiting(job)' \/ (Head(input_queue) = job /\ (thread_exit \/ job.is_skip))
<1>1. /\ input_queue \in Seq(Jobs) /\ input_queue # <<>> /\ worker[w] = "idle"
      /\ input_queue' = Tail(input_queue) /\ todo' = todo
      /\ worker \in [Workers -> {"idle", "running", "returned", "died"}]
      /\ running \in [Workers -> Jobs]
    BY DEF TakeJob, TypeInv
<1>2. Has(input_queue, {job}) <=> Head(input_queue) \in {job} \/ Has(input_queue', {job})
    BY <1>1, HasTail
<1>3. Has(todo, {job})' = Has(todo, {job}) /\ Has(input_queue, {job})' = Has(input_queue', {job})
    BY <1>1 DEF Has
<1>4. ASSUME Held(job) PROVE Held(job)'
  <2>1. PICK v \in Workers : worker[v] \in {"running", "died"} /\ running[v] = job
      BY <1>4 DEF Held, Holders
  <2>2. v # w
      BY <1>1, <2>1
  <2>3. worker'[v] = worker[v] /\ running'[v] = running[v]
      BY <1>1, <2>2 DEF TakeJob
  <2> QED  BY <2>1, <2>3 DEF Held, Holders
<1>5. ASSUME Head(input_queue) = job, ~thread_exit, ~job.is_skip PROVE Held(job)'
  <2>1. worker' = [worker EXCEPT ![w] = "running"] /\ running' = [running EXCEPT ![w] = job]
      BY <1>5 DEF TakeJob
  <2>2. worker'[w] = "running" /\ running'[w] = job
      BY <1>1, <2>1
  <2> QED  BY <2>2 DEF Held, Holders
<1> QED  BY <1>2, <1>3, <1>4, <1>5 DEF Waiting

\* It still waits after a child has ended, unless that was its own.
LEMMA WaitingEnds ==
    ASSUME TypeInv, NEW w \in Workers, NEW outcome, NEW decodable, JobEnds(w, outcome, decodable),
           NEW job, Waiting(job)
    PROVE  Waiting(job)' \/ running[w] = job
<1>1. /\ todo' = todo /\ input_queue' = input_queue
      /\ worker' = [worker EXCEPT ![w] = "idle"] /\ running' = [running EXCEPT ![w] = BreakJob]
      /\ worker \in [Workers -> {"idle", "running", "returned", "died"}]
      /\ running \in [Workers -> Jobs]
    BY DEF JobEnds, TypeInv
<1>2. Has(todo, {job})' = Has(todo, {job}) /\ Has(input_queue, {job})' = Has(input_queue, {job})
    BY <1>1 DEF Has
<1>3. ASSUME Held(job), running[w] # job PROVE Held(job)'
  <2>1. PICK v \in Workers : worker[v] \in {"running", "died"} /\ running[v] = job
      BY <1>3 DEF Held, Holders
  <2>2. worker'[v] = worker[v] /\ running'[v] = running[v]
      BY <1>1, <1>3, <2>1
  <2> QED  BY <2>1, <2>2 DEF Held, Holders
<1> QED  BY <1>2, <1>3 DEF Waiting

\* It still waits after Popen has raised in a worker.
LEMMA WaitingRaises ==
    ASSUME TypeInv, NEW w \in Workers, PopenRaises(w), NEW job, Waiting(job) PROVE Waiting(job)'
<1>1. /\ todo' = todo /\ input_queue' = input_queue /\ running' = running
      /\ worker' = [worker EXCEPT ![w] = "died"]
      /\ worker \in [Workers -> {"idle", "running", "returned", "died"}]
    BY DEF PopenRaises, TypeInv
<1>2. Has(todo, {job})' = Has(todo, {job}) /\ Has(input_queue, {job})' = Has(input_queue, {job})
    BY <1>1 DEF Has
<1>3. Held(job) => Held(job)'
    BY <1>1 DEF Held, Holders
<1> QED  BY <1>2, <1>3 DEF Waiting

\* Every selected test is to be dispatched when the workers start.
LEMMA WaitingStart ==
    ASSUME TypeInv, StartWorkers PROVE \A job \in Required' : Waiting(job)' /\ job \in Jobs /\ ~job.is_break
<1>1. todo' = TestJobs /\ UNCHANGED <<options, config, suite_list>>
    BY DEF StartWorkers
<1>2. Required' = Required
    BY <1>1, RequiredKept
<1>3. \A job \in Required : \E i \in DOMAIN TestJobs : TestJobs[i] = job
    BY TestJobsFacts DEF TypeInv
<1>4. ASSUME NEW job \in Required PROVE Waiting(job)'
    BY <1>1, <1>3 DEF Waiting, Has
<1>5. ASSUME NEW job \in Required PROVE job \in Jobs /\ ~job.is_break
    BY RequiredTypes
<1> QED  BY <1>2, <1>4, <1>5

-----------------------------------------------------------------------------
(* Exit status 0 is the truth.                                             *)

\* Every step keeps what a wrong count gives away.
LEMMA NextTruth ==
    ASSUME TypeInv, StageInv, TruthInv, [Next]_vars PROVE TruthInv'
<1> USE DEF queues, reports
<1>a. ASSUME NEW job, Done(job), ended \subseteq ended' PROVE Done(job)'
    BY <1>a DEF Done
<1>1. CASE ReadWafConfig
    BY <1>1, TruthKept DEF ReadWafConfig, Go, Exit, Active
<1>2. CASE Build
    BY <1>2, TruthKept DEF Build, Go, Exit, Active
<1>3. CASE ReadBuildStatus
    BY <1>3, TruthKept DEF ReadBuildStatus, Go, Exit, Active
<1>4. CASE SelectSuites
    BY <1>4, TruthKept DEF SelectSuites, Go, Exit, Active
<1>5. CASE StartWorkers
  <2>1. \A job \in Required' : Placed(job)'
      BY <1>5, WaitingStart DEF Placed
  <2>2. ended' = {}
      BY <1>5 DEF StartWorkers, StageInv, Early
  <2>3. count' = count /\ collected' = collected
      BY <1>5 DEF StartWorkers
  <2> QED  BY <2>1, <2>2, <2>3 DEF TruthInv
<1>6. CASE Dispatch
  <2>1. /\ UNCHANGED <<options, config, suite_list, output_queue, count, collected, ended>>
        /\ pc \in Active
      BY <1>6 DEF Dispatch, Active
  <2>2. Lost' = Lost
      BY <2>1 DEF Lost, Has, NotPassed, Jobs
  <2>3. ASSUME NEW job \in Required' PROVE Placed(job)'
    <3>1. job \in Required
        BY <2>1, RequiredKept
    <3> QED  BY <1>6, <1>a, <2>1, <2>2, <3>1, WaitingDispatch DEF TruthInv, Placed
  <2> QED  BY <2>1, <2>2, <2>3 DEF TruthInv
<1>7. CASE AllDispatched
    BY <1>7, TruthKept DEF AllDispatched, Go, Active
<1>8. CASE Collect
  <2>1. /\ UNCHANGED <<options, config, suite_list, todo, input_queue, worker, running, ended>>
        /\ pc \in Active
      BY <1>8 DEF Collect, Active
  <2>2. count.passed + count.skipped <= collected
      BY DEF TruthInv
  <2>3. count'.passed + count'.skipped <= collected' /\ (Lost => Lost')
      BY <1>8, <2>2, LostCollect
  <2>4. ASSUME NEW job \in Required' PROVE Placed(job)'
    <3>1. job \in Required
        BY <2>1, RequiredKept
    <3>2. Waiting(job)' = Waiting(job) /\ Done(job)' = Done(job)
        BY <2>1 DEF Waiting, Has, Held, Holders, Done
    <3> QED  BY <2>1, <2>3, <3>1, <3>2 DEF TruthInv, Placed
  <2>5. \A c \in ended' : (c.rc = 0 /\ c.decodable) \/ Lost'
      BY <2>1, <2>3 DEF TruthInv
  <2> QED  BY <2>3, <2>4, <2>5 DEF TruthInv
<1>9. CASE AllCollected
    BY <1>9, TruthKept DEF AllCollected, Go, Active
<1>10. CASE Report
    BY <1>10, TruthKept DEF Report, Exit, Active
<1>11. CASE ExitOnException
    BY <1>11, TruthKept DEF ExitOnException, Exit, Active
<1>12. ASSUME NEW w \in Workers, TakeJob(w) PROVE TruthInv'
  <2> DEFINE head == Head(input_queue)
  <2>1. /\ UNCHANGED <<options, config, suite_list, count, collected, ended>>
        /\ pc \in Active /\ head \in Jobs
      BY <1>12 DEF TakeJob, WorkersRun, Active, TypeInv
  <2> HIDE DEF head
  <2>2. /\ Lost => Lost'
        /\ ~head.is_break /\ thread_exit => Lost'
    <3>1. CASE output_queue' = output_queue
      <4>1. Lost' = Lost
          BY <2>1, <3>1 DEF Lost, Has, NotPassed, Jobs
      <4>2. ASSUME ~head.is_break, thread_exit PROVE FALSE
        <5>1. output_queue' = Append(output_queue, [head EXCEPT !.is_break = TRUE])
            BY <1>12, <4>2 DEF TakeJob, head
        <5>2. output_queue \in Seq(Jobs)
            BY DEF TypeInv
        <5>3. Len(output_queue') = Len(output_queue) + 1 /\ Len(output_queue) \in Nat
            BY <5>1, <5>2
        <5> QED  BY <3>1, <5>3
      <4> QED  BY <4>1, <4>2
    <3>2. CASE output_queue' # output_queue
      <4>1. PICK back \in Jobs : back = [head EXCEPT !.is_break = TRUE]
          BY <2>1, ReportTypes
      <4>2. back \in NotPassed
          BY <2>1, <4>1 DEF NotPassed, Jobs
      <4>3. PICK x : /\ output_queue' = Append(output_queue, x)
                     /\ ~head.is_break /\ thread_exit => x = back
        <5>1. /\ \/ output_queue' = Append(output_queue, head)
                 \/ output_queue' = Append(output_queue, back)
              /\ ~head.is_break /\ thread_exit => output_queue' = Append(output_queue, back)
            BY <1>12, <3>2, <4>1 DEF TakeJob, head
        <5> QED  BY <5>1
      <4>4. Lost \/ x \in NotPassed => Lost'
          BY <2>1, <4>3, LostAppend
      <4> QED  BY <4>2, <4>3, <4>4
    <3> QED  BY <3>1, <3>2
  <2>3. ASSUME NEW job \in Required' PROVE Placed(job)'
    <3>1. job \in Required /\ ~job.is_break
        BY <2>1, RequiredKept, RequiredTypes
    <3>2. Waiting(job) \/ Done(job) \/ Lost
        BY <2>1, <3>1 DEF TruthInv, Placed
    <3>3. CASE Waiting(job)
      <4>1. Waiting(job)' \/ (head = job /\ (thread_exit \/ job.is_skip))
          BY <1>12, <3>1, <3>3, WaitingTake DEF head
      <4>2. job.is_skip => Done(job)'
          BY DEF Done
      <4> QED  BY <2>2, <3>1, <4>1, <4>2 DEF Placed
    <3>4. CASE Done(job)
        BY <1>a, <2>1, <3>4 DEF Placed
    <3> QED  BY <2>2, <3>2, <3>3, <3>4 DEF Placed
  <2>4. \A c \in ended' : (c.rc = 0 /\ c.decodable) \/ Lost'
      BY <2>1, <2>2 DEF TruthInv
  <2>5. count'.passed + count'.skipped <= collected'
      BY <2>1 DEF TruthInv
  <2> QED  BY <2>3, <2>4, <2>5 DEF TruthInv
<1>13. ASSUME NEW w \in Workers,
              NEW outcome \in [rc : {0, 1, 2, 139}, xml : FileStates],
              NEW decodable \in BOOLEAN, JobEnds(w, outcome, decodable)
       PROVE  TruthInv'
  <2> DEFINE rep == [running[w] EXCEPT !.returncode = Retval(outcome.rc, decodable),
                                       !.xml = outcome.xml]
             end == [kind |-> running[w].kind, name |-> running[w].name,
                    rc |-> outcome.rc, decodable |-> decodable]
  <2>1. /\ UNCHANGED <<options, config, suite_list, count, collected>>
        /\ ended' = ended \cup {end}
        /\ output_queue' = Append(output_queue, rep)
      BY <1>13 DEF JobEnds
  <2>2. running[w] \in Jobs /\ ~running[w].is_break /\ ~running[w].is_skip
      BY <1>13 DEF JobEnds, StageInv, TypeInv
  <2>3. rep \in Jobs
    <3>1. Retval(outcome.rc, decodable) \in {0, 1, 2, 139}
        BY DEF Retval
    <3>2. \A rc \in {0, 1, 2, 139}, x \in FileStates :
              [running[w] EXCEPT !.returncode = rc, !.xml = x] \in Jobs
        BY <2>2 DEF Jobs
    <3>3. PICK rc \in {0, 1, 2, 139}, x \in FileStates :
              rc = Retval(outcome.rc, decodable) /\ x = outcome.xml
        BY <3>1
    <3>4. rep = [running[w] EXCEPT !.returncode = rc, !.xml = x]
        BY <3>3
    <3>5. [running[w] EXCEPT !.returncode = rc, !.xml = x] \in Jobs
        BY <3>2
    <3> HIDE DEF rep
    <3> QED  BY <3>4, <3>5
  <2>4. (outcome.rc = 0 /\ decodable) \/ rep \in NotPassed
    <3>1. ~rep.is_skip /\ rep.returncode = Retval(outcome.rc, decodable)
        BY <2>2 DEF Jobs
    <3>2. Retval(outcome.rc, decodable) = 0 => outcome.rc = 0 /\ decodable
        BY DEF Retval
    <3> HIDE DEF rep
    <3> QED  BY <2>3, <3>1, <3>2 DEF NotPassed
  <2> HIDE DEF rep
  <2>5. Lost \/ rep \in NotPassed => Lost'
      BY <2>1, LostAppend
  <2>6. \A c \in ended' : (c.rc = 0 /\ c.decodable) \/ Lost'
      BY <2>1, <2>4, <2>5 DEF TruthInv
  <2>7. ASSUME pc' \in Active, NEW job \in Required' PROVE Placed(job)'
    <3>1. job \in Required /\ pc \in Active
        BY <1>13, <2>1, <2>7, RequiredKept DEF JobEnds
    <3>2. Waiting(job) \/ Done(job) \/ Lost
        BY <3>1 DEF TruthInv, Placed
    <3>3. CASE Waiting(job)
      <4>1. Waiting(job)' \/ running[w] = job
          BY <1>13, <3>3, WaitingEnds
      <4>2. running[w] = job => Done(job)'
        <5>1. end \in ended' /\ end.name = running[w].name
            BY <2>1
        <5> QED  BY <5>1 DEF Done
      <4> QED  BY <4>1, <4>2 DEF Placed
    <3>4. CASE Done(job)
        BY <1>a, <2>1, <3>4 DEF Placed
    <3> QED  BY <2>5, <3>2, <3>3, <3>4 DEF Placed
  <2>8. count'.passed + count'.skipped <= collected'
      BY <2>1 DEF TruthInv
  <2> QED  BY <2>6, <2>7, <2>8 DEF TruthInv
<1>14. ASSUME NEW w \in Workers, PopenRaises(w) PROVE TruthInv'
  <2>1. UNCHANGED <<options, config, suite_list, output_queue, count, collected, ended, pc>>
      BY <1>14 DEF PopenRaises
  <2>2. Lost' = Lost
      BY <2>1 DEF Lost, Has, NotPassed, Jobs
  <2>3. ASSUME pc' \in Active, NEW job \in Required' PROVE Placed(job)'
    <3>1. job \in Required
        BY <2>1, RequiredKept
    <3> QED  BY <1>14, <1>a, <2>1, <2>2, <2>3, <3>1, WaitingRaises DEF TruthInv, Placed
  <2> QED  BY <2>1, <2>2, <2>3 DEF TruthInv
<1>15. CASE Sigint
    BY <1>15, TruthKept DEF Sigint
<1>16. CASE UNCHANGED vars
    BY <1>16, TruthKept DEF vars
<1> QED  BY <1>1, <1>2, <1>3, <1>4, <1>5, <1>6, <1>7, <1>8, <1>9, <1>10, <1>11, <1>12,
            <1>13, <1>14, <1>15, <1>16 DEF Next, MainStep, WorkerStep, Terminated

\* With everything collected nothing is left in the queues or with a worker.
LEMMA NothingLeft ==
    ASSUME TypeInv, AccountInv, todo = <<>>, collected = jobs
    PROVE  output_queue = <<>> /\ \A job : ~job.is_break => ~Waiting(job)
<1>1. /\ input_queue \in Seq(Jobs) /\ output_queue \in Seq(Jobs) /\ Len(output_queue) \in Nat
      /\ jobs \in Nat
    BY DEF TypeInv
<1>2. /\ Cardinality(Tests(input_queue)) \in Nat /\ IsFiniteSet(Tests(input_queue))
      /\ Cardinality(Holders) \in Nat /\ IsFiniteSet(Holders)
    BY <1>1, TestsFinite, HoldersCount
<1>3. Cardinality(Tests(input_queue)) = 0 /\ Cardinality(Holders) = 0 /\ Len(output_queue) = 0
    BY <1>1, <1>2 DEF AccountInv
<1>4. Tests(input_queue) = {} /\ Holders = {}
    BY <1>2, <1>3, FS_EmptySet
<1>5. output_queue = <<>>
    BY <1>1, <1>3
<1>6. ASSUME NEW job, ~job.is_break PROVE ~Waiting(job)
    BY <1>4, <1>6 DEF Waiting, Has, Held, Tests
<1> QED  BY <1>5, <1>6

\* After the exit nothing happens any more.
LEMMA ExitedStays ==
    ASSUME StageInv, pc = "exited", [Next]_vars PROVE UNCHANGED vars
<1>1. \A w \in Workers : worker[w] # "running"
    BY DEF StageInv
<1>2. ASSUME NEW w \in Workers, WorkerStep(w) PROVE FALSE
    BY <1>1, <1>2 DEF WorkerStep, TakeJob, JobEnds, PopenRaises, WorkersRun
<1>3. ~MainStep
    BY DEF MainStep, ReadWafConfig, Build, ReadBuildStatus, SelectSuites, StartWorkers, Dispatch,
           AllDispatched, Collect, AllCollected, Report, ExitOnException
<1>4. ~Sigint
    BY DEF Sigint
<1> QED  BY <1>2, <1>3, <1>4 DEF Next, Terminated

\* What exit status 0 promises.
Truthful ==
    /\ \A c \in ended : c.rc = 0 /\ c.decodable
    /\ \A job \in Selected :
          \/ job.is_skip \/ \E c \in ended : c.name = job.name
          \/ job.kind = "suite" /\ ~SuitesListed
    /\ Given(options.suite) => options.suite # {}

\* It holds when all tests that were queued have passed or were skipped.
LEMMA AllPassed ==
    ASSUME TypeInv, StageInv, AccountInv, TruthInv, pc = "join", count.passed + count.skipped = jobs
    PROVE  Truthful
<1>1. collected = jobs /\ todo = <<>> /\ (Given(options.suite) => options.suite # {})
    BY DEF StageInv, Active
<1>2. output_queue = <<>> /\ \A job : ~job.is_break => ~Waiting(job)
    BY <1>1, NothingLeft
<1>3. ~Lost
  <2>1. ~Has(output_queue, NotPassed)
      BY <1>2 DEF Has
  <2>2. ~(count.passed + count.skipped < collected)
      BY <1>1 DEF TypeInv
  <2> QED  BY <2>1, <2>2 DEF Lost
<1>4. \A c \in ended : c.rc = 0 /\ c.decodable
    BY <1>3 DEF TruthInv
<1>5. \A job \in Required : Done(job)
    BY <1>2, <1>3, RequiredTypes DEF TruthInv, Placed, Active
<1>6. ASSUME NEW job \in Selected
      PROVE  \/ job.is_skip \/ \E c \in ended : c.name = job.name
             \/ job.kind = "suite" /\ ~SuitesListed
  <2>1. CASE job \in Required
      BY <1>5, <2>1 DEF Done
  <2>2. CASE job \notin Required
    <3>1. PICK s \in SuiteSet : job = SuiteJob(s)
        BY <2>2 DEF Selected, Required
    <3>2. ~SuitesListed
        BY <2>2, <3>1 DEF SuitesListed, Required
    <3>3. s \in Names
        BY SelectionFinite DEF TypeInv
    <3>4. job.kind = "suite"
        BY <3>1, <3>3, JobTypes DEF TypeInv
    <3> QED  BY <3>2, <3>4
  <2> QED  BY <2>1, <2>2
<1> QED  BY <1>1, <1>4, <1>6 DEF Truthful

\* Every step keeps the exit status truthful.
LEMMA NextExit ==
    ASSUME TypeInv, StageInv, AccountInv, TruthInv, ExitStatusTruthful, [Next]_vars
    PROVE  ExitStatusTruthful'
<1>1. ExitStatusTruthful <=> (pc = "exited" /\ exit_status = 0 /\ ~options.list => Truthful)
    BY DEF ExitStatusTruthful, Truthful
<1>2. ExitStatusTruthful' <=> (pc' = "exited" /\ exit_status' = 0 /\ ~options'.list => Truthful')
    BY DEF ExitStatusTruthful, Truthful
<1>3. ASSUME UNCHANGED <<options, config, suite_list, ended>> PROVE Truthful' = Truthful
  <2>1. Selected' = Selected /\ SuitesListed' = SuitesListed
      BY <1>3, RequiredKept
  <2> QED  BY <1>3, <2>1 DEF Truthful, Given
<1>4. CASE pc = "exited"
  <2>1. UNCHANGED vars
      BY <1>4, ExitedStays
  <2> QED  BY <1>1, <1>2, <1>3, <2>1 DEF vars
<1>5. CASE pc # "exited" /\ pc' = "exited"
  <2>1. exit_status' # 0 \/ options'.list \/ Report
    <3> USE DEF Go, Exit
    <3>1. CASE ReadWafConfig \/ Build \/ ReadBuildStatus
        BY <1>5, <3>1 DEF ReadWafConfig, Build, ReadBuildStatus
    <3>2. CASE SelectSuites \/ StartWorkers \/ Dispatch \/ AllDispatched
        BY <1>5, <3>2 DEF SelectSuites, StartWorkers, Dispatch, AllDispatched
    <3>3. CASE Collect
        BY <1>5, <3>3 DEF Collect
    <3>4. CASE AllCollected \/ ExitOnException
        BY <1>5, <3>4 DEF AllCollected, ExitOnException
    <3>5. ASSUME NEW w \in Workers, WorkerStep(w) PROVE FALSE
        BY <1>5, <3>5 DEF WorkerStep, TakeJob, JobEnds, PopenRaises
    <3>6. CASE Sigint \/ Terminated \/ UNCHANGED vars
        BY <1>5, <3>6 DEF Sigint, Terminated, vars
    <3> QED  BY <3>1, <3>2, <3>3, <3>4, <3>5, <3>6 DEF Next, MainStep
  <2>2. ASSUME Report, exit_status' = 0 PROVE Truthful'
    <3>1. pc = "join" /\ count.passed + count.skipped = jobs
        BY <2>2 DEF Report, Exit
    <3>2. UNCHANGED <<options, config, suite_list, ended>>
        BY <2>2 DEF Report, queues, reports
    <3> QED  BY <1>3, <3>1, <3>2, AllPassed
  <2> QED  BY <1>2, <2>1, <2>2
<1> QED  BY <1>2, <1>4, <1>5

\* Exit status 0 is the truth: every test that was selected and not skipped
\* has run, every child ended with 0 and readable output, and no SIGINT cut
\* the run short.
THEOREM ExitStatusIsTruthful == Spec => []ExitStatusTruthful
<1> DEFINE IInv == TypeInv /\ StageInv /\ AccountInv /\ TruthInv /\ ExitStatusTruthful
<1>1. Init => IInv
    BY InitType, InitAccount, InitTruth DEF Init, ExitStatusTruthful
<1>2. IInv /\ [Next]_vars => IInv'
    BY NextType, NextStage, NextAccount, NextTruth, NextExit
<1>3. IInv => ExitStatusTruthful
    OBVIOUS
<1> QED  BY <1>1, <1>2, <1>3, PTL DEF Spec

-----------------------------------------------------------------------------
(* The results are complete.                                               *)

\* The run was not interrupted and got the names of its suites.
Normal == ~thread_exit /\ \A c \in ended : c.name # UnknownKind

\* A report that has a result, found in a file or made up.
Readable == {job \in Jobs : ~job.is_break /\ ~NoFile(job)}

\* Reports from which a true entry for the test is made.
ReportsOf(job) ==
    {r \in Jobs : Doubtful(job) \/ (r.name = job.name /\ TrueOf(job, Result(r)))}

Entered(job) ==
    \/ Doubtful(job)
    \/ \E i \in DOMAIN results :
          results[i].name = job.name /\ TrueOf(job, results[i].result)

Settled(job) == Waiting(job) \/ Has(output_queue, ReportsOf(job)) \/ Entered(job)

ResultInv ==
    /\ pc \in Early => results = <<>>
    /\ pc \in Active => jobs + Cardinality(Tests(todo)) = Total
    /\ pc \in Active /\ Normal =>
          /\ pc # "raised"
          /\ output_queue \in Seq(Readable)
          /\ Len(results) = collected
          /\ \A job \in Required : Settled(job)

\* What is true of a test depends on the children that have ended only, and
\* stays true.
LEMMA ReportsKept ==
    ASSUME NEW job
    PROVE  /\ ended \subseteq ended' =>
                 /\ Doubtful(job) => Doubtful(job)'
                 /\ \A v : TrueOf(job, v) => TrueOf(job, v)'
                 /\ ReportsOf(job) \subseteq ReportsOf(job)'
           /\ ended' = ended =>
                 /\ Doubtful(job)' = Doubtful(job) /\ \A v : TrueOf(job, v)' = TrueOf(job, v)
                 /\ ReportsOf(job)' = ReportsOf(job)
<1>1. ASSUME NEW c PROVE Verdict(c)' = Verdict(c)
    BY DEF Verdict
<1>2. Jobs' = Jobs /\ \A r : Result(r)' = Result(r)
    BY DEF Jobs, Result, Status, IsExample
<1>3. ASSUME ended \subseteq ended'
      PROVE  /\ Doubtful(job) => Doubtful(job)'
             /\ \A v : TrueOf(job, v) => TrueOf(job, v)'
    BY <1>1, <1>3 DEF Doubtful, TrueOf
<1>4. ASSUME ended' = ended
      PROVE  Doubtful(job)' = Doubtful(job) /\ \A v : TrueOf(job, v)' = TrueOf(job, v)
    BY <1>1, <1>4 DEF Doubtful, TrueOf
<1>5. ended \subseteq ended' => ReportsOf(job) \subseteq ReportsOf(job)'
    BY <1>2, <1>3 DEF ReportsOf
<1>6. ended' = ended => ReportsOf(job)' = ReportsOf(job)
    BY <1>2, <1>4 DEF ReportsOf
<1> QED  BY <1>3, <1>4, <1>5, <1>6

\* A step that moves no job and no report.
LEMMA ResultKept ==
    ASSUME ResultInv,
           UNCHANGED <<todo, input_queue, output_queue, worker, running, collected, jobs, results, ended>>,
           thread_exit => thread_exit',
           pc' \in Early => pc \in Early,
           pc' \in Active => /\ pc \in Active /\ (pc' = pc \/ pc' # "raised")
                             /\ UNCHANGED <<options, config, suite_list>>
    PROVE  ResultInv'
<1>1. pc' \in Early => results' = <<>>
    BY DEF ResultInv
<1>2. ASSUME pc' \in Active PROVE (jobs + Cardinality(Tests(todo)) = Total)'
  <2>1. Tests(todo)' = Tests(todo) /\ Total' = Total
      BY <1>2, RequiredKept DEF Tests
  <2> QED  BY <1>2, <2>1 DEF ResultInv
<1>3. ASSUME pc' \in Active, Normal'
      PROVE  /\ pc' # "raised"
             /\ output_queue' \in Seq(Readable)
             /\ Len(results') = collected'
             /\ \A job \in Required' : Settled(job)'
  <2>1. Normal /\ pc \in Active /\ Required' = Required
      BY <1>3, RequiredKept DEF Normal
  <2>2. ASSUME NEW job PROVE Settled(job)' = Settled(job)
    <3>1. /\ ReportsOf(job)' = ReportsOf(job) /\ Doubtful(job)' = Doubtful(job)
          /\ \A v : TrueOf(job, v)' = TrueOf(job, v)
        BY ReportsKept
    <3>2. Entered(job)' = Entered(job)
        BY <3>1 DEF Entered
    <3>3. Has(output_queue, ReportsOf(job))' = Has(output_queue, ReportsOf(job))
        BY <3>1 DEF Has
    <3>4. Waiting(job)' = Waiting(job)
        BY DEF Waiting, Has, Held, Holders
    <3> QED  BY <3>2, <3>3, <3>4 DEF Settled
  <2> QED  BY <1>3, <2>1, <2>2 DEF ResultInv
<1>4. Seq(Readable)' = Seq(Readable)
    BY DEF Readable, Jobs, NoFile, IsExample
<1> QED  BY <1>1, <1>2, <1>3, <1>4 DEF ResultInv

\* The entries of results.xml stay.
LEMMA EnteredAppend ==
    ASSUME TypeInv, ended' = ended, NEW x, results' = results \o <<x>>
    PROVE  /\ Len(results') = Len(results) + 1
           /\ \A job : Entered(job) => Entered(job)'
           /\ \A job : Doubtful(job) \/ (x.name = job.name /\ TrueOf(job, x.result)) => Entered(job)'
<1>1. PICK T : results \in Seq(T)
    BY DEF TypeInv
<1>2. /\ Len(results) \in Nat /\ DOMAIN results = 1..Len(results)
      /\ DOMAIN results' = 1..(Len(results) + 1) /\ Len(results') = Len(results) + 1
      /\ results'[Len(results) + 1] = x
      /\ \A i \in 1..Len(results) : results'[i] = results[i]
    BY <1>1
<1>3. ASSUME NEW job PROVE Doubtful(job)' = Doubtful(job) /\ \A v : TrueOf(job, v)' = TrueOf(job, v)
    BY ReportsKept
<1>4. ASSUME NEW job, Entered(job) PROVE Entered(job)'
    BY <1>2, <1>3, <1>4 DEF Entered
<1>5. ASSUME NEW job, Doubtful(job) \/ (x.name = job.name /\ TrueOf(job, x.result))
      PROVE  Entered(job)'
  <2>1. Len(results) + 1 \in DOMAIN results'
      BY <1>2
  <2> QED  BY <1>2, <1>3, <1>5, <2>1 DEF Entered
<1> QED  BY <1>2, <1>4, <1>5

\* results.xml has no entries at first.
LEMMA InitResult == Init => ResultInv
    BY DEF Init, ResultInv, Early, Active

\* Putting a job into the queue keeps the account of results.xml.
LEMMA DispatchResult ==
    ASSUME TypeInv, ResultInv, Dispatch PROVE ResultInv'
<1>1. /\ pc = "dispatch" /\ todo \in Seq(Jobs) /\ todo # <<>> /\ todo' = Tail(todo) /\ jobs \in Nat
      /\ UNCHANGED <<options, config, suite_list, output_queue, collected, results, ended,
                     thread_exit, pc>>
    BY DEF Dispatch, reports, TypeInv
<1>2. pc \in Active /\ pc \notin Early
    BY <1>1 DEF Active, Early
<1>3. Required' = Required /\ Total' = Total
    BY <1>1, RequiredKept
<1>4. jobs' + Cardinality(Tests(todo')) = jobs + Cardinality(Tests(todo))
  <2>1. /\ Cardinality(Tests(todo)) = Cardinality(Tests(todo')) + Ones(Head(todo))
        /\ Cardinality(Tests(todo')) \in Nat
      BY <1>1, TestsTail, TestsFinite
  <2>2. jobs' = jobs + Ones(Head(todo)) /\ Ones(Head(todo)) \in Nat
      BY <1>1 DEF Dispatch, Ones
  <2> QED  BY <1>1, <2>1, <2>2
<1>5. Tests(todo)' = Tests(todo')
    BY DEF Tests
<1>6. ASSUME NEW job \in Required', Normal PROVE Settled(job)'
  <2>1. Settled(job)
      BY <1>2, <1>3, <1>6 DEF ResultInv
  <2>2. /\ Has(output_queue, ReportsOf(job))' = Has(output_queue, ReportsOf(job))
        /\ Entered(job)' = Entered(job)
    <3>1. /\ ReportsOf(job)' = ReportsOf(job) /\ Doubtful(job)' = Doubtful(job)
          /\ \A v : TrueOf(job, v)' = TrueOf(job, v)
        BY <1>1, ReportsKept
    <3> QED  BY <1>1, <3>1 DEF Has, Entered
  <2> QED  BY <2>1, <2>2, WaitingDispatch DEF Settled
<1>7. Normal' = Normal /\ Seq(Readable)' = Seq(Readable)
    BY <1>1 DEF Normal, Readable, Jobs, NoFile, IsExample
<1> QED  BY <1>1, <1>2, <1>3, <1>4, <1>5, <1>6, <1>7 DEF ResultInv

\* Collecting a report keeps it.
LEMMA CollectResult ==
    ASSUME TypeInv, ResultInv, Collect PROVE ResultInv'
<1> DEFINE head == Head(output_queue)
<1>1. /\ pc = "collect" /\ output_queue \in Seq(Jobs) /\ output_queue # <<>> /\ head \in Jobs
      /\ output_queue' = Tail(output_queue) /\ collected' = collected + 1 /\ collected \in Nat
      /\ UNCHANGED <<options, config, suite_list, todo, input_queue, worker, running, jobs, ended,
                     thread_exit>>
      /\ pc' \in {"collect", "raised"}
    BY DEF Collect, TypeInv, Go
<1>2. pc \in Active /\ pc' \notin Early
    BY <1>1 DEF Active, Early
<1>3. Required' = Required /\ Total' = Total /\ Tests(todo)' = Tests(todo)
    BY <1>1, RequiredKept DEF Tests
<1>4. Normal' = Normal /\ Seq(Readable)' = Seq(Readable)
    BY <1>1 DEF Normal, Readable, Jobs, NoFile, IsExample
<1>5. ASSUME Normal
      PROVE  /\ pc' # "raised" /\ output_queue' \in Seq(Readable)
             /\ Len(results') = collected'
             /\ \A job \in Required' : Settled(job)'
  <2>1. output_queue \in Seq(Readable) /\ Len(results) = collected
      BY <1>2, <1>5 DEF ResultInv
  <2>2. head \in Readable /\ output_queue' \in Seq(Readable)
      BY <1>1, <2>1
  <2>3. ~head.is_break /\ ~NoFile(head)
      BY <2>2 DEF Readable
  <2>4. pc' = pc /\ results' = results \o Entries(head)
      BY <2>3 DEF Collect
  <2> HIDE DEF head
  <2>6. PICK x : x = [name |-> head.name, result |-> Result(head)]
      OBVIOUS
  <2>7. results' = results \o <<x>> /\ x.name = head.name /\ x.result = Result(head)
      BY <2>4, <2>6 DEF Entries
  <2>8. Len(results') = collected'
      BY <1>1, <2>1, <2>7, EnteredAppend
  <2>9. ASSUME NEW job \in Required' PROVE Settled(job)'
    <3>1. Settled(job)
        BY <1>2, <1>3, <1>5, <2>9 DEF ResultInv
    <3>2. Waiting(job)' = Waiting(job)
        BY <1>1 DEF Waiting, Has, Held, Holders
    <3>3. Entered(job) => Entered(job)'
        BY <1>1, <2>7, EnteredAppend
    <3>4. Has(output_queue, ReportsOf(job)) <=> head \in ReportsOf(job) \/ Has(output_queue', ReportsOf(job))
        BY <1>1, HasTail DEF head
    <3>5. head \in ReportsOf(job) => Entered(job)'
      <4>1. head \in ReportsOf(job) =>
               Doubtful(job) \/ (head.name = job.name /\ TrueOf(job, Result(head)))
          BY DEF ReportsOf
      <4> QED  BY <1>1, <2>7, <4>1, EnteredAppend
    <3>6. Has(output_queue, ReportsOf(job))' = Has(output_queue', ReportsOf(job))
        BY <1>1, ReportsKept DEF Has
    <3> QED  BY <3>1, <3>2, <3>3, <3>4, <3>5, <3>6 DEF Settled
  <2> QED  BY <1>1, <2>2, <2>4, <2>8, <2>9
<1> HIDE DEF head
<1> QED  BY <1>1, <1>2, <1>3, <1>4, <1>5 DEF ResultInv

\* Taking a job keeps it.
LEMMA TakeResult ==
    ASSUME TypeInv, ResultInv, NEW w \in Workers, TakeJob(w) PROVE ResultInv'
<1> DEFINE head == Head(input_queue)
<1>1. /\ pc \in Active /\ pc \notin Early /\ head \in Jobs /\ output_queue \in Seq(Jobs)
      /\ UNCHANGED <<options, config, suite_list, todo, jobs, collected, results, ended,
                     thread_exit, pc>>
    BY DEF TakeJob, WorkersRun, Active, Early, TypeInv, reports
<1>2. Required' = Required /\ Total' = Total /\ Tests(todo)' = Tests(todo)
    BY <1>1, RequiredKept DEF Tests
<1>3. Normal' = Normal /\ Seq(Readable)' = Seq(Readable)
    BY <1>1 DEF Normal, Readable, Jobs, NoFile, IsExample
<1>4. ASSUME Normal
      PROVE  output_queue' \in Seq(Readable) /\ \A job \in Required' : Settled(job)'
  <2>1. output_queue \in Seq(Readable) /\ ~thread_exit
      BY <1>1, <1>4 DEF ResultInv, Normal
  <2>2. \/ output_queue' = output_queue /\ (head.is_break \/ ~head.is_skip)
        \/ ~head.is_break /\ head.is_skip /\ output_queue' = Append(output_queue, head)
      BY <2>1 DEF TakeJob
  <2> HIDE DEF head
  <2>3. output_queue' \in Seq(Readable)
    <3>1. CASE output_queue' = output_queue
        BY <2>1, <3>1
    <3>2. CASE ~head.is_break /\ head.is_skip /\ output_queue' = Append(output_queue, head)
      <4>1. head \in Readable
          BY <1>1, <3>2 DEF Readable, NoFile
      <4> QED  BY <2>1, <3>2, <4>1
    <3> QED  BY <2>2, <3>1, <3>2
  <2>4. ASSUME NEW job \in Required' PROVE Settled(job)'
    <3>1. Settled(job) /\ ~job.is_break /\ job \in Jobs
        BY <1>1, <1>2, <1>4, <2>4, RequiredTypes DEF ResultInv
    <3>2. Entered(job)' = Entered(job)
      <4>1. Doubtful(job)' = Doubtful(job) /\ \A v : TrueOf(job, v)' = TrueOf(job, v)
          BY <1>1, ReportsKept
      <4> QED  BY <1>1, <4>1 DEF Entered
    <3>3. /\ Has(output_queue, ReportsOf(job)) => Has(output_queue', ReportsOf(job))
          /\ head = job /\ job.is_skip => Has(output_queue', ReportsOf(job))
      <4>1. CASE output_queue' = output_queue /\ (head.is_break \/ ~head.is_skip)
          BY <3>1, <4>1
      <4>2. CASE output_queue' = Append(output_queue, head)
        <5>1. Has(output_queue', ReportsOf(job)) <=> Has(output_queue, ReportsOf(job)) \/ head \in ReportsOf(job)
            BY <1>1, <4>2, HasAppend
        <5>2. job.is_skip => job \in ReportsOf(job)
            BY <3>1 DEF ReportsOf, TrueOf, Result, Status
        <5> QED  BY <5>1, <5>2
      <4> QED  BY <2>2, <4>1, <4>2
    <3>4. Has(output_queue, ReportsOf(job))' = Has(output_queue', ReportsOf(job))
        BY <1>1, ReportsKept DEF Has
    <3>5. Waiting(job) => Waiting(job)' \/ (head = job /\ job.is_skip)
        BY <2>1, <3>1, WaitingTake DEF head
    <3> QED  BY <3>1, <3>2, <3>3, <3>4, <3>5 DEF Settled
  <2> QED  BY <2>3, <2>4
<1> HIDE DEF head
<1> QED  BY <1>1, <1>2, <1>3, <1>4 DEF ResultInv

\* The end of a child keeps it.
LEMMA EndsResult ==
    ASSUME TypeInv, StageInv, ResultInv, NEW w \in Workers,
           NEW outcome \in [rc : {0, 1, 2, 139}, xml : FileStates],
           NEW decodable \in BOOLEAN, JobEnds(w, outcome, decodable)
    PROVE  ResultInv'
<1> DEFINE rep == [running[w] EXCEPT !.returncode = Retval(outcome.rc, decodable),
                                     !.xml = outcome.xml]
           end == [kind |-> running[w].kind, name |-> running[w].name,
                    rc |-> outcome.rc, decodable |-> decodable]
<1>1. /\ UNCHANGED <<options, config, suite_list, todo, jobs, collected, results, thread_exit, pc>>
      /\ ended' = ended \cup {end} /\ output_queue' = Append(output_queue, rep)
      /\ output_queue \in Seq(Jobs) /\ outcome \in Outcomes(running[w])
    BY DEF JobEnds, TypeInv
<1>2. running[w] \in Jobs /\ ~running[w].is_break /\ ~running[w].is_skip
    BY DEF JobEnds, StageInv, TypeInv
<1>3. /\ rep \in Jobs /\ ~rep.is_break /\ rep.is_skip = running[w].is_skip
      /\ rep.name = running[w].name /\ rep.kind = running[w].kind /\ rep.xml = outcome.xml
  <2>1. Retval(outcome.rc, decodable) \in {0, 1, 2, 139}
      BY DEF Retval
  <2>2. \A rc \in {0, 1, 2, 139}, x \in FileStates :
            [running[w] EXCEPT !.returncode = rc, !.xml = x] \in Jobs
      BY <1>2 DEF Jobs
  <2>3. rep \in Jobs
    <3>3. PICK rc \in {0, 1, 2, 139}, x \in FileStates :
              rc = Retval(outcome.rc, decodable) /\ x = outcome.xml
        BY <2>1
    <3>4. rep = [running[w] EXCEPT !.returncode = rc, !.xml = x]
        BY <3>3
    <3>5. [running[w] EXCEPT !.returncode = rc, !.xml = x] \in Jobs
        BY <2>2
    <3> HIDE DEF rep
    <3> QED  BY <3>4, <3>5
  <2> QED  BY <1>2, <2>3 DEF Jobs
<1>4. Required' = Required /\ Total' = Total /\ Tests(todo)' = Tests(todo)
    BY <1>1, RequiredKept DEF Tests
<1>5. Seq(Readable)' = Seq(Readable)
    BY DEF Readable, Jobs, NoFile, IsExample
<1>6. Normal' => Normal /\ running[w].name # UnknownKind
  <2>1. end.name = running[w].name
      OBVIOUS
  <2> HIDE DEF end
  <2> QED  BY <1>1, <2>1 DEF Normal
<1>7. ASSUME running[w].name # UnknownKind PROVE rep \in Readable
  <2>1. CASE IsExample(running[w])
      BY <1>3, <2>1 DEF Readable, NoFile, IsExample
  <2>2. CASE ~IsExample(running[w])
    <3>1. outcome.xml # "missing"
        BY <1>1, <1>7, <2>2 DEF Outcomes
    <3> QED  BY <1>3, <3>1 DEF Readable, NoFile
  <2> QED  BY <2>1, <2>2
<1>8a. ASSUME NEW j, j = running[w], NEW r, r = rep, j.name # UnknownKind, j.kind # "break"
       PROVE  r \in ReportsOf(j)'
  <2>1. PICK c \in ended' : /\ c.kind = j.kind /\ c.name = j.name
                            /\ c.rc = outcome.rc /\ c.decodable = decodable
    <3>1. end \in ended'
        BY <1>1
    <3> QED  BY <1>8a, <3>1
  <2>2. r.returncode = Retval(outcome.rc, decodable)
      BY <1>2, <1>8a DEF Jobs
  <2>3. /\ j \in Jobs /\ ~j.is_skip /\ outcome \in Outcomes(j) /\ r \in Jobs
        /\ r.is_skip = j.is_skip /\ r.name = j.name /\ r.kind = j.kind /\ r.xml = outcome.xml
      BY <1>1, <1>2, <1>3, <1>8a
  <2> HIDE DEF rep, end
  <2>4. Doubtful(j)' \/ Result(r) = Verdict(c)
    <3>1. CASE IsExample(j)
      <4>1. Result(r) = Status(r)
          BY <2>3, <3>1 DEF Result, IsExample
      <4>2. Status(r) = Verdict(c)
          BY <2>1, <2>2, <2>3 DEF Status, Verdict, Retval
      <4> QED  BY <4>1, <4>2
    <3>2. CASE ~IsExample(j) /\ (outcome.rc = 2 \/ ~decodable)
      <4>1. j.kind = "suite"
          BY <1>8a, <2>3, <3>2 DEF IsExample, Jobs
      <4> QED  BY <2>1, <3>2, <4>1 DEF Doubtful
    <3>3. CASE ~IsExample(j) /\ outcome.rc # 2 /\ decodable
      <4>1. /\ outcome.rc = 0 => outcome.xml = "passed"
            /\ outcome.rc = 1 => outcome.xml = "failed"
          BY <1>8a, <2>3, <3>3 DEF Outcomes
      <4>2. Result(r) = IF r.returncode \in {0, 1, 2} THEN r.xml ELSE "crashed"
          BY <2>3, <3>3 DEF Result, IsExample
      <4> QED  BY <2>1, <2>2, <2>3, <3>3, <4>1, <4>2 DEF Verdict, Retval
    <3> QED  BY <3>1, <3>2, <3>3
  <2>5. Result(r)' = Result(r) /\ Verdict(c)' = Verdict(c) /\ Jobs' = Jobs
      BY DEF Result, Status, IsExample, Verdict, Jobs
  <2>6. Result(r) = Verdict(c) => TrueOf(j, Result(r))'
      BY <2>1, <2>3, <2>5 DEF TrueOf
  <2> QED  BY <2>3, <2>4, <2>5, <2>6 DEF ReportsOf
<1> HIDE DEF rep, end
<1>8. ASSUME Normal', pc \in Active
      PROVE  output_queue' \in Seq(Readable) /\ \A job \in Required' : Settled(job)'
  <2>1. Normal /\ rep \in Readable
      BY <1>6, <1>7, <1>8
  <2>2. output_queue' \in Seq(Readable)
    <3>1. output_queue \in Seq(Readable)
        BY <1>8, <2>1 DEF ResultInv
    <3> QED  BY <1>1, <2>1, <3>1
  <2>3. ASSUME NEW job \in Required' PROVE Settled(job)'
    <3>1. Settled(job)
        BY <1>4, <1>8, <2>1, <2>3 DEF ResultInv
    <3>1a. /\ ReportsOf(job) \subseteq ReportsOf(job)'
           /\ Doubtful(job) => Doubtful(job)'
           /\ \A v : TrueOf(job, v) => TrueOf(job, v)'
        BY <1>1, ReportsKept
    <3>2. Entered(job) => Entered(job)'
        BY <1>1, <3>1a DEF Entered
    <3> DEFINE R == ReportsOf(job)'
    <3>3. Has(output_queue', R) <=> Has(output_queue, R) \/ rep \in R
        BY <1>1, HasAppend
    <3>4. /\ Has(output_queue, ReportsOf(job))' = Has(output_queue', R)
          /\ Has(output_queue, ReportsOf(job)) => Has(output_queue, R)
        BY <3>1a DEF Has
    <3>5. Waiting(job) => Waiting(job)' \/ running[w] = job
        BY WaitingEnds
    <3>6. running[w] = job => rep \in R
      <4>1. job.kind # "break" /\ running[w].name # UnknownKind
          BY <1>4, <1>6, <1>8, RequiredTypes
      <4>2. PICK r : r = rep
          OBVIOUS
      <4> QED  BY <1>8a, <4>1, <4>2
    <3> QED  BY <3>1, <3>2, <3>3, <3>4, <3>5, <3>6 DEF Settled
  <2> QED  BY <2>2, <2>3
<1> QED  BY <1>1, <1>4, <1>5, <1>6, <1>8 DEF ResultInv

\* A Popen that raises keeps it.
LEMMA RaisesResult ==
    ASSUME TypeInv, ResultInv, NEW w \in Workers, PopenRaises(w) PROVE ResultInv'
<1>1. UNCHANGED <<options, config, suite_list, todo, output_queue, jobs, collected, results, ended,
                  thread_exit, pc>>
    BY DEF PopenRaises, reports
<1>2. Required' = Required /\ Total' = Total /\ Tests(todo)' = Tests(todo)
    BY <1>1, RequiredKept DEF Tests
<1>3. Normal' = Normal /\ Seq(Readable)' = Seq(Readable)
    BY <1>1 DEF Normal, Readable, Jobs, NoFile, IsExample
<1>4. ASSUME Normal, pc \in Active, NEW job \in Required' PROVE Settled(job)'
  <2>1. Settled(job)
      BY <1>2, <1>4 DEF ResultInv
  <2>2. /\ Has(output_queue, ReportsOf(job))' = Has(output_queue, ReportsOf(job))
        /\ Entered(job)' = Entered(job)
    <3>1. /\ ReportsOf(job)' = ReportsOf(job) /\ Doubtful(job)' = Doubtful(job)
          /\ \A v : TrueOf(job, v)' = TrueOf(job, v)
        BY <1>1, ReportsKept
    <3> QED  BY <1>1, <3>1 DEF Has, Entered
  <2> QED  BY <2>1, <2>2, WaitingRaises DEF Settled
<1> QED  BY <1>1, <1>2, <1>3, <1>4 DEF ResultInv

\* Starting the workers keeps it.
LEMMA StartResult ==
    ASSUME TypeInv, StageInv, ResultInv, StartWorkers PROVE ResultInv'
<1>1. /\ pc = "queue" /\ pc' = "dispatch" /\ todo' = TestJobs
      /\ UNCHANGED <<options, config, suite_list, output_queue, jobs, collected, results>>
    BY DEF StartWorkers, Go, reports
<1>2. jobs' = 0 /\ collected' = 0 /\ output_queue' = <<>> /\ results' = <<>>
    BY <1>1 DEF StageInv, ResultInv, Early
<1>3. Cardinality(Tests(TestJobs)) = Total /\ Total' = Total
    BY <1>1, TestJobsFacts, RequiredKept DEF TypeInv
<1>4. Total \in Nat
  <2>1. TestJobs \in Seq(Jobs)
      BY TestJobsFacts DEF TypeInv
  <2> QED  BY <1>3, <2>1, TestsFinite
<1>5. Tests(todo)' = Tests(TestJobs)
    BY <1>1 DEF Tests
<1>6. \A job \in Required' : Settled(job)'
    BY WaitingStart DEF Settled
<1>7. output_queue' \in Seq(Readable)' /\ Len(results') = collected'
    BY <1>2
<1>8. pc' \notin Early /\ pc' # "raised"
    BY <1>1 DEF Early
<1>9. (jobs + Cardinality(Tests(todo)) = Total)'
    BY <1>2, <1>3, <1>4, <1>5
<1> QED  BY <1>6, <1>7, <1>8, <1>9 DEF ResultInv

\* Every step keeps the account of results.xml.
LEMMA NextResult ==
    ASSUME TypeInv, StageInv, ResultInv, [Next]_vars PROVE ResultInv'
<1> USE DEF queues, reports
<1>1. CASE ReadWafConfig
    BY <1>1, ResultKept DEF ReadWafConfig, Go, Exit, Active, Early
<1>2. CASE Build
    BY <1>2, ResultKept DEF Build, Go, Exit, Active, Early
<1>3. CASE ReadBuildStatus
    BY <1>3, ResultKept DEF ReadBuildStatus, Go, Exit, Active, Early
<1>4. CASE SelectSuites
    BY <1>4, ResultKept DEF SelectSuites, Go, Exit, Active, Early
<1>5. CASE AllDispatched
    BY <1>5, ResultKept DEF AllDispatched, Go, Active, Early
<1>6. CASE AllCollected
    BY <1>6, ResultKept DEF AllCollected, Go, Active, Early
<1>7. CASE Report
    BY <1>7, ResultKept DEF Report, Exit, Active, Early
<1>8. CASE ExitOnException
    BY <1>8, ResultKept DEF ExitOnException, Exit, Active, Early
<1>9. CASE Sigint
    BY <1>9, ResultKept DEF Sigint
<1>10. CASE UNCHANGED vars
    BY <1>10, ResultKept DEF vars
<1> QED  BY <1>1, <1>2, <1>3, <1>4, <1>5, <1>6, <1>7, <1>8, <1>9, <1>10, StartResult,
            DispatchResult, CollectResult, TakeResult, EndsResult, RaisesResult
         DEF Next, MainStep, WorkerStep, Terminated

\* What results.xml holds in the end.
Complete ==
    /\ \A job \in Selected : Entered(job)
    /\ (\A job \in Selected : ~Doubtful(job)) => Len(results) = Cardinality(Selected)

\* When all reports are collected every selected test has its entry.
LEMMA AllEntered ==
    ASSUME TypeInv, StageInv, AccountInv, ResultInv, pc = "join", Normal, SuitesListed
    PROVE  Complete
<1>1. collected = jobs /\ todo = <<>> /\ pc \in Active
    BY DEF StageInv, Active
<1>2. output_queue = <<>> /\ \A job : ~job.is_break => ~Waiting(job)
    BY <1>1, NothingLeft
<1>3. Selected = Required /\ Cardinality(Selected) = Total
    BY SelectedCount DEF TypeInv
<1>4. Cardinality(Tests(todo)) = 0
  <2>1. Tests(todo) = {}
      BY <1>1 DEF Tests
  <2> QED  BY <2>1, FS_EmptySet
<1>5. Len(results) = Total
    BY <1>1, <1>4 DEF ResultInv, TypeInv
<1>6. ASSUME NEW job \in Required PROVE Entered(job)
  <2>1. Settled(job) /\ ~job.is_break
      BY <1>1, <1>6, RequiredTypes DEF ResultInv
  <2>2. ~Has(output_queue, ReportsOf(job))
      BY <1>2 DEF Has
  <2> QED  BY <1>2, <2>1, <2>2 DEF Settled
<1> QED  BY <1>3, <1>5, <1>6 DEF Complete

\* Every step keeps the completeness of results.xml.
LEMMA NextComplete ==
    ASSUME TypeInv, StageInv, AccountInv, ResultInv, ResultsComplete, [Next]_vars
    PROVE  ResultsComplete'
<1>1. (ResultsComplete <=> (ReturnedNormally => Complete))
    BY DEF ResultsComplete, Complete, Entered
<1>2. (ResultsComplete' <=> (ReturnedNormally' => Complete'))
    BY DEF ResultsComplete, Complete, Entered
<1>3. ASSUME UNCHANGED <<options, config, suite_list, results, ended>> PROVE Complete' = Complete
  <2>1. Selected' = Selected
      BY <1>3, RequiredKept
  <2>2. ASSUME NEW job PROVE Entered(job)' = Entered(job) /\ Doubtful(job)' = Doubtful(job)
    <3>1. Doubtful(job)' = Doubtful(job) /\ \A v : TrueOf(job, v)' = TrueOf(job, v)
        BY <1>3, ReportsKept
    <3> QED  BY <1>3, <3>1 DEF Entered
  <2> QED  BY <1>3, <2>1, <2>2 DEF Complete
<1>4. CASE pc = "exited"
  <2>1. UNCHANGED vars
      BY <1>4, ExitedStays
  <2>2. ReturnedNormally' = ReturnedNormally
    <3>1. SuitesListed' = SuitesListed
        BY <2>1, RequiredKept DEF vars
    <3> QED  BY <2>1, <3>1 DEF vars, ReturnedNormally
  <2> QED  BY <1>1, <1>2, <1>3, <2>1, <2>2 DEF vars
<1>5. CASE pc # "exited" /\ ReturnedNormally'
  <2>1. /\ pc' = "exited" /\ ~thread_exit' /\ SuitesListed'
        /\ \A w \in Workers : worker'[w] = "returned"
        /\ \A c \in ended' : c.name # UnknownKind
      BY <1>5 DEF ReturnedNormally
  <2>2. CASE pc \in Early
    <3>1. PICK w \in Workers : TRUE
        BY TestRunnerAssumption
    <3>2. worker[w] = "idle"
        BY <2>2 DEF StageInv
    <3>3. worker' = worker
      <4>1. ASSUME NEW v \in Workers, WorkerStep(v) PROVE FALSE
        <5>1. pc \notin {"dispatch", "collect", "join", "raised"} /\ worker[v] # "running"
            BY <2>2 DEF Early, StageInv
        <5> QED  BY <4>1, <5>1 DEF WorkerStep, TakeJob, JobEnds, PopenRaises, WorkersRun
      <4>2. CASE ReadWafConfig \/ Build \/ ReadBuildStatus \/ SelectSuites \/ StartWorkers
          BY <4>2 DEF ReadWafConfig, Build, ReadBuildStatus, SelectSuites, StartWorkers, queues
      <4>3. CASE Dispatch \/ AllDispatched \/ AllCollected \/ Report \/ ExitOnException
          BY <4>3 DEF Dispatch, AllDispatched, AllCollected, Report, ExitOnException, queues
      <4>4. CASE Collect \/ Sigint \/ Terminated \/ UNCHANGED vars
          BY <4>4 DEF Collect, Sigint, Terminated, queues, vars
      <4> QED  BY <4>1, <4>2, <4>3, <4>4 DEF Next, MainStep
    <3> QED  BY <2>1, <3>2, <3>3
  <2>3. CASE pc \in Active
    <3>1. Report \/ ExitOnException
      <4> USE DEF Go
      <4>1. CASE ReadWafConfig \/ Build \/ ReadBuildStatus \/ SelectSuites \/ StartWorkers
          BY <2>3, <4>1 DEF ReadWafConfig, Build, ReadBuildStatus, SelectSuites, StartWorkers, Active
      <4>2. CASE Dispatch \/ AllDispatched \/ AllCollected
          BY <1>5, <2>1, <4>2 DEF Dispatch, AllDispatched, AllCollected
      <4>3. CASE Collect
          BY <1>5, <2>1, <4>3 DEF Collect
      <4>4. ASSUME NEW w \in Workers, WorkerStep(w) PROVE FALSE
          BY <1>5, <2>1, <4>4 DEF WorkerStep, TakeJob, JobEnds, PopenRaises
      <4>5. CASE Sigint \/ Terminated \/ UNCHANGED vars
          BY <1>5, <2>1, <4>5 DEF Sigint, Terminated, vars
      <4> QED  BY <4>1, <4>2, <4>3, <4>4, <4>5 DEF Next, MainStep
    <3>2. UNCHANGED <<options, config, suite_list, results, thread_exit, ended>>
        BY <3>1 DEF Report, ExitOnException, queues, reports
    <3>3. Normal /\ SuitesListed
      <4>1. SuitesListed' = SuitesListed
          BY <3>2, RequiredKept
      <4> QED  BY <2>1, <3>2, <4>1 DEF Normal
    <3>4. pc = "join"
      <4>1. pc # "raised"
          BY <2>3, <3>3 DEF ResultInv
      <4> QED  BY <3>1, <4>1 DEF Report, ExitOnException
    <3> QED  BY <1>2, <1>3, <3>2, <3>3, <3>4, AllEntered
  <2> QED  BY <1>5, <2>2, <2>3 DEF TypeInv
<1> QED  BY <1>2, <1>4, <1>5

\* When test.py returns without an interrupt, every selected test has an entry
\* in results.xml that tells how its child ended or that it was skipped, and
\* there are no others; suites on which valgrind found an error, or whose
\* output could not be decoded, are left out.
THEOREM ResultsAreComplete == Spec => []ResultsComplete
<1> DEFINE IInv == TypeInv /\ StageInv /\ AccountInv /\ ResultInv /\ ResultsComplete
<1>1. Init => IInv
  <2>1. Init => ResultsComplete
      BY DEF Init, ResultsComplete, ReturnedNormally
  <2> QED  BY <2>1, InitType, InitAccount, InitResult
<1>2. IInv /\ [Next]_vars => IInv'
    BY NextType, NextStage, NextAccount, NextResult, NextComplete
<1>3. IInv => ResultsComplete
    OBVIOUS
<1> QED  BY <1>1, <1>2, <1>3, PTL DEF Spec
-----------------------------------------------------------------------------
(* The threads of PyViz.                                                   *)

\* Where a callback can be.
Places ==
    [reader |-> {"glance", "acquire", "look"}, quit |-> {"join"},
     timeout |-> {"try", "spin", "look", "dialog", "finish"}]

Callbacks == {"reader", "quit", "timeout"}
Ats == {"glance", "acquire", "look", "join", "try", "spin", "dialog", "finish"}

Frames == {f \in [name : Callbacks, source : Int, at : Ats] : f.at \in Places[f.name]}

\* Only the innermost callback runs; the others wait in their main loops.
StackInv ==
    /\ stack \in Seq(Frames)
    /\ \A i \in DOMAIN stack : i > 1 => stack[i].at = "spin"

\* Who holds the lock is told by where the two threads are.
LockInv ==
    /\ lock = "sim" <=> sim \in {"run", "release"}
    /\ lock = "gui" <=> stack # <<>> /\ Top.at = "look"

PyVizTypes ==
    /\ timers \subseteq Int /\ next_id \in Int /\ _update_timeout_id \in Int
    /\ {now, target_time, shown, posted, displayed, pause_messages} \subseteq Int
    /\ sample_period \in Periods

\* The callback that runs is one of those known.
LEMMA TopFrame ==
    ASSUME StackInv, stack # <<>>
    PROVE  Top \in Frames /\ Top = stack[1] /\ Len(stack) \in Nat /\ Len(stack) >= 1
BY DEF StackInv, Top

\* A callback begins only where the main loop runs.
LEMMA CallFrame ==
    ASSUME StackInv, MainLoop, NEW f \in Frames, Call(f)
    PROVE  StackInv' /\ stack' # <<>> /\ Top' = f
<1>1. stack \in Seq(Frames) /\ <<f>> \in Seq(Frames) /\ Len(<<f>>) = 1 /\ <<f>>[1] = f
      /\ Len(stack) \in Nat /\ DOMAIN stack = 1..Len(stack)
    BY DEF StackInv
<1>2. /\ stack' \in Seq(Frames) /\ Len(stack') = 1 + Len(stack)
      /\ stack'[1] = f
      /\ \A i \in 2..Len(stack') : stack'[i] = stack[i - 1]
    BY <1>1, ConcatProperties DEF Call
<1>3. stack # <<>> => stack[1].at = "spin"
    BY <1>1 DEF MainLoop, Top
<1>4. ASSUME NEW i \in DOMAIN stack', i > 1 PROVE stack'[i].at = "spin"
  <2>1. i \in 2..Len(stack') /\ i - 1 \in 1..Len(stack)
      BY <1>1, <1>2, <1>4
  <2>2. stack'[i] = stack[i - 1]
      BY <1>2, <2>1
  <2>3. CASE i - 1 = 1
      BY <1>1, <1>3, <2>1, <2>2, <2>3
  <2>4. CASE i - 1 > 1
      BY <1>1, <2>1, <2>2, <2>4 DEF StackInv
  <2> QED  BY <2>1, <2>3, <2>4
<1>5. stack' # <<>> /\ Top' = f
    BY <1>1, <1>2 DEF Top
<1> QED  BY <1>2, <1>4, <1>5 DEF StackInv

\* The innermost callback goes on.
LEMMA MoveTop ==
    ASSUME StackInv, stack # <<>>, NEW at \in Places[Top.name], at \in Ats, Move(at)
    PROVE  StackInv' /\ stack' # <<>> /\ Top'.at = at /\ Top'.name = Top.name
<1>1. Top \in Frames /\ Top = stack[1] /\ Len(stack) \in Nat /\ Len(stack) >= 1
      /\ stack \in Seq(Frames) /\ DOMAIN stack = 1..Len(stack)
    BY TopFrame DEF StackInv
<1> DEFINE f == [stack[1] EXCEPT !.at = at]
<1>2. f \in Frames /\ f.at = at /\ f.name = Top.name
    BY <1>1 DEF Frames
<1>3. stack' = [stack EXCEPT ![1] = f]
    BY DEF Move
<1>4. stack' \in Seq(Frames) /\ Len(stack') = Len(stack) /\ stack'[1] = f
      /\ \A i \in 2..Len(stack) : stack'[i] = stack[i]
    BY <1>1, <1>2, <1>3
<1> HIDE DEF f
<1>5. stack' # <<>> /\ Top' = f
    BY <1>1, <1>4 DEF Top
<1>6. ASSUME NEW i \in DOMAIN stack', i > 1 PROVE stack'[i].at = "spin"
    BY <1>1, <1>4, <1>6 DEF StackInv
<1> QED  BY <1>2, <1>4, <1>5, <1>6 DEF StackInv

\* The innermost callback returns to the main loop that called it.
LEMMA ReturnTop ==
    ASSUME StackInv, stack # <<>>, Return
    PROVE  StackInv' /\ (stack' # <<>> => Top'.at = "spin")
<1>1. stack \in Seq(Frames) /\ Len(stack) \in Nat /\ Len(stack) >= 1
      /\ DOMAIN stack = 1..Len(stack)
    BY TopFrame DEF StackInv
<1>2. /\ stack' \in Seq(Frames) /\ Len(stack') = Len(stack) - 1
      /\ \A i \in 1..Len(stack') : stack'[i] = stack[i + 1]
    BY <1>1 DEF Return
<1>3. ASSUME NEW i \in DOMAIN stack' PROVE stack'[i].at = "spin"
    BY <1>1, <1>2, <1>3 DEF StackInv
<1>4. ASSUME stack' # <<>> PROVE Top' = stack'[1] /\ 1 \in DOMAIN stack'
    BY <1>2, <1>4 DEF Top
<1> QED  BY <1>2, <1>3, <1>4 DEF StackInv
-----------------------------------------------------------------------------
(* The stack of callbacks and the lock.                                    *)

PyVizInv == PyVizTypes /\ StackInv /\ LockInv

\* A frame that the user, an idle source or a timer starts.
LEMMA NewFrames ==
    /\ Frame("reader", None, "acquire") \in Frames
    /\ Frame("reader", None, "glance") \in Frames
    /\ Frame("quit", None, "join") \in Frames
    /\ \A id \in Int : Frame("timeout", id, "try") \in Frames
BY DEF Frame, Frames, Callbacks, Ats, Places, None

\* A callback that begins, and does not hold the lock.
LEMMA CallKeepsLock ==
    ASSUME StackInv, LockInv, MainLoop, NEW f \in Frames, Call(f),
           f.at # "look", UNCHANGED <<lock, sim>>
    PROVE  StackInv' /\ LockInv'
<1>1. StackInv' /\ stack' # <<>> /\ Top' = f
    BY CallFrame
<1>2. lock # "gui"
    BY DEF LockInv, MainLoop
<1> QED  BY <1>1, <1>2 DEF LockInv

\* A step of the simulation does not go beyond its target.
LEMMA RunEndsInTime ==
    ASSUME PyVizTypes
    PROVE  \A t \in RunEndsAt : t \in Int /\ (t <= target_time \/ t = now)
<1>1. now \in Int /\ target_time \in Int /\ StopTimes \subseteq Int
    BY VisualizerAssumption DEF PyVizTypes
<1>2. ASSUME NEW t \in RunEndsAt
      PROVE  t = target_time \/ t = now \/ (t \in StopTimes /\ t < target_time)
    BY DEF RunEndsAt
<1>3. ASSUME NEW t \in RunEndsAt PROVE t \in Int
    BY <1>1, <1>2
<1>4. ASSUME NEW t \in RunEndsAt PROVE t <= target_time \/ t = now
    BY <1>1, <1>2, <1>3
<1> QED  BY <1>3, <1>4

\* A step of the simulation thread.
LEMMA SimStepInv == PyVizInv /\ SimStep => PyVizInv'
<1> SUFFICES ASSUME PyVizInv, SimStep PROVE PyVizInv'
    OBVIOUS
<1> USE DEF timerVars, simVars, viewVars, SimUnchanged
<1>1. StackInv' /\ stack' = stack /\ Top' = Top
  <2>1. stack' = stack
      BY DEF SimStep, SimTest, SimWait, SimClear, SimAcquire, SimRelease, SimRun
  <2> QED  BY <2>1 DEF PyVizInv, StackInv, Top
<1>2. CASE SimTest \/ SimWait \/ SimClear
  <2>1. LockInv'
      BY <1>1, <1>2 DEF SimTest, SimWait, SimClear, PyVizInv, LockInv
  <2>2. PyVizTypes'
      BY <1>2 DEF SimTest, SimWait, SimClear, PyVizInv, PyVizTypes
  <2> QED  BY <1>1, <2>1, <2>2 DEF PyVizInv
<1>3. CASE SimAcquire
  <2>1. LockInv'
      BY <1>1, <1>3 DEF SimAcquire, PyVizInv, LockInv
  <2>2. PyVizTypes'
      BY <1>3 DEF SimAcquire, PyVizInv, PyVizTypes
  <2> QED  BY <1>1, <2>1, <2>2 DEF PyVizInv
<1>4. CASE SimRelease
  <2>1. LockInv'
      BY <1>1, <1>4 DEF SimRelease, PyVizInv, LockInv
  <2>2. PyVizTypes'
      BY <1>4 DEF SimRelease, PyVizInv, PyVizTypes
  <2> QED  BY <1>1, <2>1, <2>2 DEF PyVizInv
<1>5. ASSUME NEW messages \in 0..1, SimRun(messages) PROVE PyVizInv'
  <2>1. LockInv'
      BY <1>1, <1>5 DEF SimRun, PyVizInv, LockInv
  <2>2. PyVizTypes'
    <3>1. now' \in Int
      <4>1. PICK t \in RunEndsAt : t = now'
          BY <1>5 DEF SimRun
      <4>2. RunEndsAt \subseteq Int
          BY RunEndsInTime DEF PyVizInv
      <4> QED  BY <4>1, <4>2
    <3>2. posted' \in Int /\ pause_messages' \in Int
        BY <1>5 DEF SimRun, Collected, PyVizInv, PyVizTypes
    <3> QED  BY <1>5, <3>1, <3>2 DEF SimRun, PyVizInv, PyVizTypes
  <2> QED  BY <1>1, <2>1, <2>2 DEF PyVizInv
<1> QED  BY <1>2, <1>3, <1>4, <1>5 DEF SimStep

\* A step of the GUI thread.
LEMMA UserInv == PyVizInv /\ (User \/ Timeout) => PyVizInv'
<1> SUFFICES ASSUME PyVizInv, User \/ Timeout PROVE PyVizInv'
    OBVIOUS
<1> USE DEF timerVars, simVars, viewVars
<1>1. ASSUME UNCHANGED <<stack, lock, sim>> PROVE StackInv' /\ LockInv'
    BY <1>1 DEF PyVizInv, StackInv, LockInv, Top
<1>2. CASE Play
    BY <1>1, <1>2 DEF Play, StartTimer, PyVizInv, PyVizTypes
<1>3. CASE Pause
    BY <1>1, <1>3 DEF Pause, PyVizInv, PyVizTypes
<1>4. ASSUME NEW period \in Periods, SpeedChanged(period) PROVE PyVizInv'
    BY <1>1, <1>4 DEF SpeedChanged, StartTimer, PyVizInv, PyVizTypes
<1>5. CASE Inspect
  <2>1. StackInv' /\ LockInv'
      BY <1>5, NewFrames, CallKeepsLock DEF Inspect, Event, PyVizInv, Frame
  <2> QED  BY <1>5, <2>1 DEF Inspect, PyVizInv, PyVizTypes
<1>5a. CASE Glance
  <2>1. StackInv' /\ LockInv'
      BY <1>5a, NewFrames, CallKeepsLock DEF Glance, Event, PyVizInv, Frame
  <2> QED  BY <1>5a, <2>1 DEF Glance, PyVizInv, PyVizTypes
<1>6. CASE Quit
  <2>1. StackInv' /\ LockInv'
      BY <1>6, NewFrames, CallKeepsLock DEF Quit, Event, PyVizInv, Frame
  <2> QED  BY <1>6, <2>1 DEF Quit, PyVizInv, PyVizTypes, None
<1>7. ASSUME NEW id \in timers, TimeoutFires(id) PROVE PyVizInv'
  <2>1. StackInv' /\ LockInv'
      BY <1>7, NewFrames, CallKeepsLock DEF TimeoutFires, PyVizInv, PyVizTypes, Frame
  <2> QED  BY <1>7, <2>1 DEF TimeoutFires, PyVizInv, PyVizTypes
<1> QED  BY <1>2, <1>3, <1>4, <1>5, <1>5a, <1>6, <1>7 DEF User, Timeout

\* A callback that returns, and has released the lock if it had it.
LEMMA ReturnKeepsLock ==
    ASSUME StackInv, LockInv, stack # <<>>, Return, lock' # "gui", sim' = sim,
           lock' = "sim" <=> lock = "sim"
    PROVE  StackInv' /\ LockInv'
<1>1. StackInv' /\ (stack' # <<>> => Top'.at = "spin")
    BY ReturnTop
<1> QED  BY <1>1 DEF LockInv

\* A callback that goes on.
LEMMA MoveKeepsLock ==
    ASSUME StackInv, LockInv, stack # <<>>, NEW at \in Places[Top.name], at \in Ats,
           Move(at), sim' = sim, lock' = "sim" <=> lock = "sim",
           lock' = "gui" <=> at = "look"
    PROVE  StackInv' /\ LockInv'
<1>1. StackInv' /\ stack' # <<>> /\ Top'.at = at /\ Top'.name = Top.name
    BY MoveTop
<1> QED  BY <1>1 DEF LockInv

\* The steps of the GUI thread keep the invariant.
LEMMA GuiStepInv == PyVizInv /\ GuiStep => PyVizInv'
<1> SUFFICES ASSUME PyVizInv, GuiStep PROVE PyVizInv'
    OBVIOUS
<1> USE DEF timerVars, simVars, viewVars
<1>0. stack # <<>> => /\ Top.name \in Callbacks /\ Top.at \in Places[Top.name]
    BY TopFrame DEF PyVizInv, Frames
<1>1. CASE QuitJoined
  <2>1. StackInv' /\ LockInv'
      BY <1>1, ReturnKeepsLock DEF QuitJoined, PyVizInv, LockInv
  <2> QED  BY <1>1, <2>1 DEF QuitJoined, PyVizInv, PyVizTypes
<1>3. CASE Glanced
  <2>1. lock # "gui" /\ lock' = lock
      BY <1>3 DEF Glanced, PyVizInv, LockInv
  <2>2. Top.name = "reader" /\ "acquire" \in Places[Top.name]
      BY <1>0, <1>3 DEF Glanced, Callbacks, Places
  <2>3. CASE Return
    <3>1. StackInv' /\ LockInv'
        BY <1>3, <2>1, <2>3, ReturnKeepsLock DEF Glanced, PyVizInv
    <3> QED  BY <1>3, <3>1 DEF Glanced, PyVizInv, PyVizTypes
  <2>4. CASE Move("acquire")
    <3>1. StackInv' /\ LockInv'
        BY <1>3, <2>1, <2>2, <2>4, MoveKeepsLock DEF Ats, Glanced, PyVizInv
    <3> QED  BY <1>3, <3>1 DEF Glanced, PyVizInv, PyVizTypes
  <2> QED  BY <1>3, <2>3, <2>4 DEF Glanced
<1>4. CASE UpdateModel
  <2>1. StackInv' /\ LockInv'
      BY <1>4, NewFrames, CallKeepsLock DEF UpdateModel, PyVizInv, Frame
  <2> QED  BY <1>4, <2>1 DEF UpdateModel, PyVizInv, PyVizTypes
<1>5. CASE Acquire
  <2>1. Top.name = "reader" /\ "look" \in Places[Top.name]
      BY <1>0, <1>5 DEF Acquire, Callbacks, Places
  <2>2. StackInv' /\ LockInv'
      BY <1>5, <2>1, MoveKeepsLock DEF Ats, Acquire, PyVizInv
  <2> QED  BY <1>5, <2>2 DEF Acquire, PyVizInv, PyVizTypes
<1>6. CASE Release
  <2>1. lock = "gui"
      BY <1>6 DEF Release, PyVizInv, LockInv
  <2>2. StackInv' /\ LockInv'
      BY <1>6, <2>1, ReturnKeepsLock DEF Release, PyVizInv
  <2> QED  BY <1>6, <2>2 DEF Release, PyVizInv, PyVizTypes
<1>7. CASE TryAcquire
  <2>1. Top.name = "timeout" /\ "look" \in Places[Top.name] /\ "spin" \in Places[Top.name]
      BY <1>0, <1>7 DEF TryAcquire, Callbacks, Places
  <2>2. lock # "gui"
      BY <1>7 DEF TryAcquire, PyVizInv, LockInv
  <2>3. StackInv' /\ LockInv'
    <3>1. CASE lock = "free"
        BY <1>7, <2>1, <3>1, MoveKeepsLock DEF Ats, TryAcquire, PyVizInv
    <3>2. CASE lock # "free"
        BY <1>7, <2>1, <2>2, <3>2, MoveKeepsLock DEF Ats, TryAcquire, PyVizInv
    <3> QED  BY <3>1, <3>2
  <2> QED  BY <1>7, <2>3 DEF TryAcquire, PyVizInv, PyVizTypes
<1>8. CASE SpinAgain
  <2>1. Top.name = "timeout" /\ "try" \in Places[Top.name]
      BY <1>0, <1>8 DEF SpinAgain, Callbacks, Places
  <2>2. lock # "gui"
      BY <1>8 DEF SpinAgain, PyVizInv, LockInv
  <2>3. StackInv' /\ LockInv'
      BY <1>8, <2>1, <2>2, MoveKeepsLock DEF Ats, SpinAgain, PyVizInv
  <2> QED  BY <1>8, <2>3 DEF SpinAgain, PyVizInv, PyVizTypes
<1>9. CASE UpdateView
  <2>1. lock = "gui" /\ {"dialog", "finish"} \subseteq Places[Top.name]
      BY <1>9 DEF UpdateView, PyVizInv, LockInv, Places
  <2>2. PICK at \in {"dialog", "finish"} : Move(at)
      BY <1>9 DEF UpdateView
  <2>3. StackInv' /\ LockInv'
      BY <1>9, <2>1, <2>2, MoveKeepsLock DEF Ats, UpdateView, PyVizInv
  <2>4. PyVizTypes'
      BY <1>9, VisualizerAssumption DEF UpdateView, Capped, Target, PyVizInv, PyVizTypes
  <2> QED  BY <2>3, <2>4 DEF PyVizInv
<1>10. CASE ShowDialog
  <2>1. Top.name = "timeout" /\ "finish" \in Places[Top.name]
      BY <1>0, <1>10 DEF ShowDialog, Callbacks, Places
  <2>2. lock # "gui"
      BY <1>10 DEF ShowDialog, PyVizInv, LockInv
  <2>3. StackInv' /\ LockInv'
      BY <1>10, <2>1, <2>2, MoveKeepsLock DEF Ats, ShowDialog, PyVizInv
  <2> QED  BY <1>10, <2>3 DEF ShowDialog, PyVizInv, PyVizTypes
<1>11. CASE FinishTimeout
  <2>1. StackInv' /\ LockInv'
      BY <1>11, ReturnKeepsLock DEF FinishTimeout, PyVizInv, LockInv
  <2>2. timers' \subseteq Int /\ _update_timeout_id' \in Int
    <3>1. CASE active
        BY <1>11, <3>1 DEF FinishTimeout, PyVizInv, PyVizTypes
    <3>2. CASE ~active
      <4>1. timers' \subseteq timers /\ _update_timeout_id' = 0
          BY <1>11, <3>2 DEF FinishTimeout, None
      <4> QED  BY <4>1 DEF PyVizInv, PyVizTypes
    <3> QED  BY <3>1, <3>2
  <2>3. PyVizTypes'
      BY <1>11, <2>2 DEF FinishTimeout, PyVizInv, PyVizTypes
  <2> QED  BY <2>1, <2>3 DEF PyVizInv
<1> QED  BY <1>1, <1>3, <1>4, <1>5, <1>6, <1>7, <1>8, <1>9, <1>10, <1>11 DEF GuiStep

\* Both threads start with the invariant.
LEMMA PyVizInitInv == PyVizInit => PyVizInv
<1> SUFFICES ASSUME PyVizInit PROVE PyVizInv
    OBVIOUS
<1>1. PyVizTypes
    BY DEF PyVizInit, PyVizTypes
<1>2. StackInv
    BY DEF PyVizInit, StackInv
<1>3. LockInv
    BY DEF PyVizInit, LockInv
<1> QED  BY <1>1, <1>2, <1>3 DEF PyVizInv

\* Every step keeps the invariant.
LEMMA PyVizStepInv == PyVizInv /\ [PyVizNext]_pyvizVars => PyVizInv'
<1>1. ASSUME PyVizInv, UNCHANGED pyvizVars PROVE PyVizInv'
    BY <1>1 DEF pyvizVars, PyVizInv, PyVizTypes, StackInv, LockInv, Top
<1> QED  BY <1>1, SimStepInv, UserInv, GuiStepInv DEF PyVizNext

\* No callback that has taken the lock looks at the simulation while it runs,
\* however deep the main loops are nested.  Those that take no lock, the ones
\* of Glance, are not covered.
THEOREM LookedAtUnderLock == PyVizSpec => []LockedLooksExclusive
<1>1. PyVizInv => LockedLooksExclusive
  <2> SUFFICES ASSUME PyVizInv, sim = "run", NEW i \in DOMAIN stack, stack[i].at = "look"
               PROVE  FALSE
      BY DEF LockedLooksExclusive
  <2>1. lock # "gui"
      BY DEF PyVizInv, LockInv
  <2>2. i = 1 /\ stack # <<>>
      BY DEF PyVizInv, StackInv
  <2> QED  BY <2>1, <2>2, TopFrame DEF PyVizInv, LockInv
<1> QED  BY <1>1, PyVizInitInv, PyVizStepInv, PTL DEF PyVizSpec

\* The GUI thread never waits for the lock, or for the simulation thread to
\* end, while a callback further out on its stack holds the lock.
THEOREM NoCallbackDeadlock == PyVizSpec => []NoSelfDeadlock
<1>1. PyVizInv => NoSelfDeadlock
    BY DEF PyVizInv, LockInv, NoSelfDeadlock
<1> QED  BY <1>1, PyVizInitInv, PyVizStepInv, PTL DEF PyVizSpec

-----------------------------------------------------------------------------
(* The simulation and the view.                                            *)

\* The inductive form of OnePeriodAhead: neither has the simulation gone, nor
\* is it going, further than one of the periods.
AheadInv ==
    \E period \in Periods : now <= shown + period /\ target_time <= shown + period

\* Every step keeps the target within a period of what was shown.
LEMMA NextAhead == PyVizInv /\ AheadInv /\ [PyVizNext]_pyvizVars => AheadInv'
<1> SUFFICES ASSUME PyVizInv, AheadInv, [PyVizNext]_pyvizVars PROVE AheadInv'
    OBVIOUS
<1> USE DEF timerVars, simVars, viewVars, SimUnchanged
<1>1. CASE UNCHANGED <<now, shown, target_time>>
    BY <1>1 DEF AheadInv
<1>2. ASSUME NEW messages \in 0..1, SimRun(messages) PROVE AheadInv'
  <2>1. PICK period \in Periods : now <= shown + period /\ target_time <= shown + period
      BY DEF AheadInv
  <2>2. {now, shown, target_time, period} \subseteq Int /\ StopTimes \subseteq Int
      BY VisualizerAssumption DEF PyVizInv, PyVizTypes
  <2>3. shown' = shown /\ target_time' = target_time /\ now' \in RunEndsAt
      BY <1>2 DEF SimRun
  <2>4. now' <= shown + period
    <3>1. PICK t \in RunEndsAt : t = now'
        BY <2>3
    <3>2. t \in Int /\ (t <= target_time \/ t = now)
        BY RunEndsInTime DEF PyVizInv
    <3> QED  BY <2>1, <2>2, <3>1, <3>2
  <2> QED  BY <2>1, <2>3, <2>4 DEF AheadInv
<1>3. CASE UpdateView
  <2>1. now' = now /\ shown' = now /\ target_time' = Capped(now + sample_period)
      BY <1>3 DEF UpdateView, Target
  <2>2. sample_period \in Periods /\ sample_period \in Nat /\ now \in Int /\ MaxNow \in Nat
      BY VisualizerAssumption DEF PyVizInv, PyVizTypes
  <2>3. now' <= shown' + sample_period /\ target_time' <= shown' + sample_period
      BY <2>1, <2>2 DEF Capped
  <2> QED  BY <2>2, <2>3 DEF AheadInv
<1>4. CASE SimTest \/ SimWait \/ SimClear \/ SimAcquire \/ SimRelease
    BY <1>1, <1>4 DEF SimTest, SimWait, SimClear, SimAcquire, SimRelease
<1>5. CASE User \/ Timeout
    BY <1>1, <1>5 DEF User, Timeout, Play, Pause, SpeedChanged, Inspect, Glance, Quit, TimeoutFires
<1>6. CASE GuiStep
    BY <1>1, <1>3, <1>6 DEF GuiStep, QuitJoined, Glanced, UpdateModel,
        Acquire, Release, TryAcquire, SpinAgain, ShowDialog, FinishTimeout
<1>7. CASE UNCHANGED pyvizVars
    BY <1>1, <1>7 DEF pyvizVars
<1> QED  BY <1>2, <1>4, <1>5, <1>6, <1>7 DEF PyVizNext, SimStep

\* The simulation is never more than the largest sample period ahead of the view,
\* whatever the timers, pauses and speed changes do in between.
THEOREM AtMostOnePeriodAhead == PyVizSpec => []OnePeriodAhead
<1>1. PyVizInit => AheadInv
  <2>1. PICK period \in Periods : period \in Nat
      BY VisualizerAssumption
  <2> QED  BY <2>1 DEF PyVizInit, AheadInv
<1>2. AheadInv => OnePeriodAhead
    BY DEF AheadInv, OnePeriodAhead
<1> QED  BY <1>1, <1>2, PyVizInitInv, PyVizStepInv, NextAhead, PTL DEF PyVizSpec

\* Every step keeps the pause messages.
LEMMA NextMessages == PyVizInv /\ PauseMessagesKept /\ [PyVizNext]_pyvizVars => PauseMessagesKept'
<1> SUFFICES ASSUME PyVizInv, PauseMessagesKept, [PyVizNext]_pyvizVars PROVE PauseMessagesKept'
    OBVIOUS
<1> USE DEF timerVars, simVars, viewVars, SimUnchanged
<1>0. {posted, displayed, pause_messages} \subseteq Int
    BY DEF PyVizInv, PyVizTypes
<1>1. CASE UNCHANGED <<posted, displayed, pause_messages>>
    BY <1>1 DEF PauseMessagesKept
<1>2. ASSUME NEW messages \in 0..1, SimRun(messages) PROVE PauseMessagesKept'
    BY <1>0, <1>2 DEF SimRun, Collected, PauseMessagesKept
<1>3. CASE UpdateView
    BY <1>0, <1>3 DEF UpdateView, PauseMessagesKept
<1>4. CASE SimTest \/ SimWait \/ SimClear \/ SimAcquire \/ SimRelease
    BY <1>1, <1>4 DEF SimTest, SimWait, SimClear, SimAcquire, SimRelease
<1>5. CASE User \/ Timeout
    BY <1>1, <1>5 DEF User, Timeout, Play, Pause, SpeedChanged, Inspect, Glance, Quit, TimeoutFires
<1>6. CASE GuiStep
    BY <1>1, <1>3, <1>6 DEF GuiStep, QuitJoined, Glanced, UpdateModel,
        Acquire, Release, TryAcquire, SpinAgain, ShowDialog, FinishTimeout
<1>7. CASE UNCHANGED pyvizVars
    BY <1>1, <1>7 DEF pyvizVars
<1> QED  BY <1>2, <1>4, <1>5, <1>6, <1>7 DEF PyVizNext, SimStep

\* Every pause message is displayed once, also when several steps of the
\* simulation run between two updates of the view.
THEOREM MessagesKept == PyVizSpec => []PauseMessagesKept
<1>1. PyVizInit => PauseMessagesKept
    BY DEF PyVizInit, PauseMessagesKept
<1> QED  BY <1>1, PyVizInitInv, PyVizStepInv, NextMessages, PTL DEF PyVizSpec

=============================================================================
