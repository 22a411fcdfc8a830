\* Five bins, and every spectrum of three energies on them; lists of up to three
\* periods; all outcomes of the filter.
CONSTANTS
    FrameLen = 10
    Grain = 60
    Energies = {0, 1, 2}
    Bands <- MCBands
    Counts = {0, 1, 2, 3, 4}
    GivenPeriods = {0, 7, 30}
    MaxCycles = 3
    MaxCandidates = 5
    Plvs = {0, 1, 2, 3}
    Thresholds = {0, 3}
    Shown = {0, 1, 2, 12}
SPECIFICATION Spec
INVARIANTS GivenPeriodsKept StrongestBinsChosen FitsTheRequest
INVARIANTS ArraysAreParallel DominantIsBest TopIsDominant
CHECK_DEADLOCK FALSE
