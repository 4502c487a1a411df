SPECIFICATION FairSpec
CONSTANTS
    Suites = {"core", "perf", "nsc"}
    KindOf <- MCKindOf
    Examples = {"udp"}
    PyExamples = {"mixed.py"}
    Built = {"udp", "mixed.py"}
    DoRun = {"mixed.py"}
    DoValgrindRun = {}
    ValgrindSkips = {}
    NscSkips = {"nsc"}
    Workers = {w1, w2}
    OptionSets <- MCOptions
    Configs <- MCConfigs
    NoOption = NoOption
INVARIANTS EveryJobReported ExitStatusTruthful ResultsComplete
PROPERTY RunEnds
CHECK_DEADLOCK FALSE
