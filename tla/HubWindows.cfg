\* All charts of up to five bars with two prices of a pivot, and small inputs,
\* InpHop = 0 among them.  Every distance of two pivots, at most 4, divides 12,
\* so that the integer prices of the bridge mode are exact.
CONSTANTS
    MaxBars = 5
    Prices = {12, 24}
    FrameLens = {1, 2, 3}
    Hops = {0, 1, 2}
    BatchSizes = {1, 3}
    Modes = {"hold", "bridge", "midpoint"}
SPECIFICATION Spec
INVARIANTS SeriesIsFilled WindowsAgree FramesFollowTheChart
CHECK_DEADLOCK FALSE
