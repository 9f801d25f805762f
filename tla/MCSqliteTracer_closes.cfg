CONSTANTS
    t1 = t1
    t2 = t2
    f1 = f1
    c1 = c1
    c2 = c2
    Traces = {t1, t2}
    NoUids = {t2}
    Flushers = {f1}
    Closers = {c1, c2}
    MaxQueue = 1
    MaxRetries = 2
    MaxWorkers = 2
SPECIFICATION FairSpec
INVARIANT TypeOK
INVARIANT FlushWaitsForAll
INVARIANT Custody
INVARIANT SettledInOrder
PROPERTY ImplementsTraceLog
PROPERTY AcceptedIsSettled
PROPERTY CloseReturns
CHECK_DEADLOCK FALSE
