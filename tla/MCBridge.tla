----------------------------- MODULE MCBridge -------------------------------
EXTENDS GpuBridge

CONSTANTS indicator, wrapper

\* The two charts ask for windows of different lengths, so that each undoes
\* what the other configured.
TwoCharts == {indicator, wrapper}
TwoSizes  == [c \in TwoCharts |-> IF c = indicator THEN [length |-> 1, count |-> 1]
                                  ELSE [length |-> 2, count |-> 2]]
TheirUses == [c \in TwoCharts |-> IF c = indicator THEN {"fft"}
                                  ELSE {"fft", "ifft", "batch", "cwt", "power"}]
OneFalls  == {indicator}
=============================================================================
