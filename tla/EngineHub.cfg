\* The EA hub's discipline: one job in flight, no handle kept over a Shutdown;
\* two starts of the engine.
CONSTANTS
    Workers = {w1, w2}
    MaxJobs = 2
    MaxEpochs = 2
    MaxOutstanding = 1
    KeepsHandles = FALSE
SPECIFICATION FairSpec
INVARIANTS TypeOK FetchReturnsOwnJob StatsAreExact TimedOnceReleased
PROPERTIES ImplementsLifecycle StopReturns StartErrorStays
