\* n up to 5 over 2 workers: jobs of one and two iterations, with and
\* without a remainder; two restarts at any moment, one iteration that throws.
CONSTANTS
    Workers = {w1, w2}
    Restarter = restarter
    nobody = nobody
    noJob = noJob
    Jobs = {0, 1, 2, 3, 4, 5}
    MaxRestarts = 2
    MaxIterations = 5
    MaxThrows = 1
SPECIFICATION PfSpec
INVARIANTS
    JobsAreKept
    EachIterationOnce
PROPERTY PoolProgresses
