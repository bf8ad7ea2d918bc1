SPECIFICATION Spec
CONSTANTS
    w1 = w1  w2 = w2  main = main  nojob = nojob  s1 = s1  s2 = s2
    b1 = b1  m1 = m1  m2 = m2  f1 = f1  f2 = f2  f3 = f3
    Worker = {w1, w2}
    Main = main
    SingleJob = {s1, s2, m1}
    BulkJob = {b1}
    MultiJob = {m1}
    Files <- OneMulti
    QueueMax = 3
    RATIO = 2
    ExitOnOOM = TRUE
    Faults = {"timeout", "malloc", "create", "disconnect", "spurious"}
    NoJob = nojob
CHECK_DEADLOCK FALSE
INVARIANTS CountersMatch QueueBound GroupRefs FreedQuiet PickRatio
PROPERTY ImplementsService
