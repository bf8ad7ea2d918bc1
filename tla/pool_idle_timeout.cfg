SPECIFICATION FairSpec
CONSTANTS
    w1 = w1  w2 = w2  main = main  nojob = nojob  s1 = s1  s2 = s2
    b1 = b1  m1 = m1  m2 = m2  f1 = f1  f2 = f2  f3 = f3
    Worker = {w1, w2}
    Main = main
    SingleJob = {s1, m1}
    BulkJob = {}
    MultiJob = {m1}
    Files <- OneMulti
    QueueMax = 4
    RATIO = 4
    ExitOnOOM = FALSE
    Faults = {"timeout"}
    NoJob = nojob
PROPERTY MultiProgress
