\* One band and no list: the choice among five bins of three energies.
CONSTANTS
    FrameLen = 10
    Grain = 60
    Energies = {0, 1, 2}
    Bands <- WholeBand
    Counts = {2}
    GivenPeriods = {}
    MaxCycles = 3
    MaxCandidates = 5
    Plvs = {0}
    Thresholds = {0}
    Shown = {0}
SPECIFICATION Spec
INVARIANT LoudestBinsChosen
CHECK_DEADLOCK FALSE
