\* Two processors in a row, two workers; a job too large, a full batch with chosen
\* cycles, a short one with given cycles and one of frames shorter than the window.
CONSTANTS
    Window = 3
    MaxBatch = 2
    MaxCycles = 2
    Workers = {1, 2}
    Shapes <- MCShapes
    Breaks <- MCBreaks
    MaxJobs = 2
    MaxStarts = 2
SPECIFICATION Spec
INVARIANTS InBounds FramesStayApart DeviceIsAccounted
CHECK_DEADLOCK FALSE
