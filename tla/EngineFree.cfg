\* Any caller: two jobs in flight on two workers, handles kept over a Shutdown.
CONSTANTS
    Workers = {w1, w2}
    MaxJobs = 2
    MaxEpochs = 1
    MaxOutstanding = 2
    KeepsHandles = TRUE
SPECIFICATION FairSpec
INVARIANTS QueueIsSound OneWorkerPerJob NoJobIsLost ShutdownWakesEveryone
INVARIANTS ProcessorOutlivesWorkers StoppedIsStill PolledReadyCanBeFetched
PROPERTIES ResultsAreFrozen AcceptedJobsEnd
