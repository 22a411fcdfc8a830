\* Two jobs in flight share the device buffers: a result holds another job's data.
CONSTANTS
    Workers = {w1, w2}
    MaxJobs = 2
    MaxEpochs = 1
    MaxOutstanding = 2
    KeepsHandles = FALSE
SPECIFICATION Spec
INVARIANT FetchReturnsOwnJob
SYMMETRY Symmetry
