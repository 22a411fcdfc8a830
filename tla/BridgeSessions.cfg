CONSTANTS
    indicator = indicator
    wrapper = wrapper
    Charts <- TwoCharts
    Size <- TwoSizes
    Uses <- TheirUses
    FallsBack <- OneFalls
    MaxCalls = 2
SPECIFICATION Spec
INVARIANTS NothingIsOrphaned ReadyIsLive   LoneChartIsServed
